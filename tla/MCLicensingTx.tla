--------------------------- MODULE MCLicensingTx ---------------------------
(* LicensingTx with two licenses of one code and three transactions.       *)
EXTENDS LicensingTx

CONSTANTS c, l1, l2, h1, h2, h3
MCCodes == {c}
MCLicenses == {l1, l2}
MCCodeOf == [l \in MCLicenses |-> c]
MCMax == [d \in MCCodes |-> 1]
MCHandlers == {h1, h2, h3}
=============================================================================
