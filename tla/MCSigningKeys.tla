--------------------------- MODULE MCSigningKeys ---------------------------
(* SigningKeys with two admins rotating the key of one product.            *)
EXTENDS SigningKeys, TLC

CONSTANTS r1, r2
MCRotators == {r1, r2}
MCSymmetry == Permutations(MCRotators)
=============================================================================
