-------------------------- MODULE MCLicenseService --------------------------
(* A small instance of LicenseService for TLC. *)
EXTENDS LicenseService, TLC

CONSTANTS p1, p2, c1, l1, l2, h1, h2

MCProducts == {p1, p2}
MCCodes == {c1}
MCProductOf == c1 :> p1
MCMax == c1 :> 1
MCLicenses == {l1, l2}
MCCodeOf == l1 :> c1 @@ l2 :> c1
MCHandlers == {h1, h2}

\* The licenses are alike, and so are the handlers.
MCSymmetry == Permutations(MCLicenses) \cup Permutations(MCHandlers)
=============================================================================
