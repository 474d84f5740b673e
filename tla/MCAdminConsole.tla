--------------------------- MODULE MCAdminConsole ---------------------------
(* AdminConsole with one code, whose slot its one license takes.             *)
EXTENDS AdminConsole

MCFilters == [l \in Lists |-> IF l = "codes" THEN {"all", "REVOKED"} ELSE {"all"}]
MCRows == [l \in Lists |-> IF l = "logs" THEN 0 ELSE 1]

\* Which of two mutations was sent first matters to nobody.
MCView == <<size, revoked, taken, view, entry, {mut[k] : k \in Mutations}, sent, byNext, told>>
=============================================================================
