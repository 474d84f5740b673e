--------------------------- MODULE MCAdminSession ---------------------------
(* AdminSession with two tabs and two requests at a time.                   *)
EXTENDS AdminSession, TLC

CONSTANTS t1, t2, q1, q2, seed, other
MCTabs == {t1, t2}
MCRequests == {q1, q2}
MCPasswords == {seed, other}
MCSymmetry == Permutations(MCTabs) \cup Permutations(MCRequests)
=============================================================================
