-------------------------- MODULE MCLicenseClient --------------------------
(* LicenseClient with two overlapping calls and one admin rotating keys.   *)
EXTENDS LicenseClient, TLC

CONSTANTS a, b, r
MCCalls == {a, b}
MCRotators == {r}
MCSymmetry == Permutations(MCCalls)
=============================================================================
