------------------------------ MODULE AtomicTx ------------------------------
(***************************************************************************)
(* What the transactions on a purchase code and its licenses promise: each *)
(* takes effect in one step or not at all.                                 *)
(***************************************************************************)
EXTENDS Integers

CONSTANTS
    Codes,
    Licenses,   \* the (domain, fingerprint) pairs of every code
    CodeOf,     \* the code of each
    Max         \* maxActivations of each

ASSUME TableAssumption == CodeOf \in [Licenses -> Codes] /\ Max \in [Codes -> Nat \ {0}]

VARIABLES
    used,       \* usedActivations of each code
    lic         \* the status of each license's row, or "NONE"

tableVars == <<used, lic>>

TableInit ==
    /\ used = [c \in Codes |-> 0]
    /\ lic = [l \in Licenses |-> "NONE"]

\* activate: a new row takes a slot that is free.
TakeSlot(l) ==
    /\ lic[l] = "NONE" /\ used[CodeOf[l]] < Max[CodeOf[l]]
    /\ used' = [used EXCEPT ![CodeOf[l]] = @ + 1]
    /\ lic' = [lic EXCEPT ![l] = "ACTIVE"]

\* deactivate, revoke: the row gives its slot back, even if it has done so.
GiveBack(l) ==
    /\ lic[l] # "NONE"
    /\ used' = [used EXCEPT ![CodeOf[l]] = @ - 1]
    /\ lic' = [lic EXCEPT ![l] = "REVOKED"]

TableNext == \E l \in Licenses : TakeSlot(l) \/ GiveBack(l)

TableSpec == TableInit /\ [][TableNext]_tableVars
=============================================================================
