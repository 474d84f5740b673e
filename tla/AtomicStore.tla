---------------------------- MODULE AtomicStore ----------------------------
(***************************************************************************)
(* What LicenseStorage (packages/license-client/src/types.ts) promises the *)
(* client: one state or none, and writes, clears and reads that take       *)
(* effect at one instant between their call and their return, or not at    *)
(* all when the process dies first.                                        *)
(***************************************************************************)
CONSTANTS
    Callers,    \* callers of the storage
    States      \* what they write; "null" is no state

VARIABLES
    value,      \* the stored state
    op          \* the operation of each caller

vars == <<value, op>>

Values == States \cup {"null"}

\* An operation: what it puts, or what it has got.
NoOp == [at |-> "idle", v |-> "null"]
Op == [at : {"idle", "put", "get", "done"}, v : Values]

Init == value = "null" /\ op = [c \in Callers |-> NoOp]

\* clear puts "null".
CallPut(c, v) ==
    /\ op[c].at = "idle"
    /\ op' = [op EXCEPT ![c] = [at |-> "put", v |-> v]]
    /\ UNCHANGED value

CallGet(c) ==
    /\ op[c].at = "idle"
    /\ op' = [op EXCEPT ![c] = [at |-> "get", v |-> "null"]]
    /\ UNCHANGED value

Put(c) ==
    /\ op[c].at = "put"
    /\ value' = op[c].v
    /\ op' = [op EXCEPT ![c].at = "done"]

Get(c) ==
    /\ op[c].at = "get"
    /\ op' = [op EXCEPT ![c] = [at |-> "done", v |-> value]]
    /\ UNCHANGED value

Return(c) ==
    /\ op[c].at = "done"
    /\ op' = [op EXCEPT ![c] = NoOp]
    /\ UNCHANGED value

\* Any set of callers dies.
Crash ==
    /\ \E C \in SUBSET Callers : op' = [c \in Callers |-> IF c \in C THEN NoOp ELSE op[c]]
    /\ UNCHANGED value

Next ==
    \/ \E c \in Callers :
         \/ \E v \in Values : CallPut(c, v)
         \/ CallGet(c) \/ Put(c) \/ Get(c) \/ Return(c)
    \/ Crash

Spec == Init /\ [][Next]_vars
=============================================================================
