---------------------------- MODULE LicensingTx ----------------------------
(***************************************************************************)
(* The transactions that LicenseService takes in one step, statement by    *)
(* statement, with the row locks PostgreSQL gives an update or an insert   *)
(* at READ COMMITTED and keeps until the end of its transaction: activate, *)
(* deactivate and the admin's revoke of a license.                         *)
(*                                                                         *)
(* A statement that meets a lock waits, and then works on the row as it    *)
(* has become.  The checks a handler makes before its transaction may be   *)
(* out of date when the transaction begins.  Foreign keys take only locks  *)
(* that do not conflict with these, and an update outside a transaction    *)
(* (lastSeenAt, the revoke of a code) holds one lock and waits for none    *)
(* while it does.                                                          *)
(***************************************************************************)
EXTENDS AtomicTx, Sequences

CONSTANT Handlers   \* transactions that may overlap

ASSUME TxAssumption == Licenses # {}

VARIABLE tx         \* the transaction of each handler

vars == <<tableVars, tx>>

Ops == {"activate", "deactivate", "revoke"}

\* A transaction: its license, the statements it has made, and the value it has
\* written to usedActivations.
NoTx == [op |-> "none", on |-> CHOOSE l \in Licenses : TRUE, done |-> 0, wrote |-> 0]

Init == TableInit /\ tx = [h \in Handlers |-> NoTx]

-----------------------------------------------------------------------------
(* Statements and locks                                                    *)

\* The rows the statements of a transaction write, in their order.  The insert of
\* activate locks its entry in the unique index, and waits for whoever is
\* inserting or updating a row with that entry.  Mutant: revoke gives the slot
\* back first.
CodeFirst == <<"code", "license">>
RevokeOrder == <<"license", "code">>

Statements(op) ==
    CASE op = "activate" -> <<"code", "license">>
      [] op = "deactivate" -> <<"license", "code">>
      [] op = "revoke" -> RevokeOrder
      [] OTHER -> << >>

Row(h, i) == LET table == Statements(tx[h].op)[i] IN
             <<table, IF table = "code" THEN CodeOf[tx[h].on] ELSE tx[h].on>>

Held(h) == {Row(h, i) : i \in 1 .. tx[h].done}

MoreToDo(h) == tx[h].done < Len(Statements(tx[h].op))

\* The transactions a statement waits for.
WaitsFor(h) == IF ~MoreToDo(h) THEN {}
               ELSE {g \in Handlers \ {h} : Row(h, tx[h].done + 1) \in Held(g)}

-----------------------------------------------------------------------------
(* A transaction                                                           *)

\* What the handler has found before it begins the transaction.
Found(op, l) == IF op = "activate" THEN lic[l] = "NONE" /\ used[CodeOf[l]] < Max[CodeOf[l]]
                ELSE lic[l] = "ACTIVE"

Begin(h, op, l) ==
    /\ tx[h] = NoTx /\ Found(op, l)
    /\ tx' = [tx EXCEPT ![h] = [NoTx EXCEPT !.op = op, !.on = l]]
    /\ UNCHANGED tableVars

\* activate fails on a counter that is too high after the increment, and on a
\* row that is there.  Mutant: the counter is not looked at again.
SlotAssumed(h) == TRUE
SlotLeft(h) == used[CodeOf[tx[h].on]] + 1 <= Max[CodeOf[tx[h].on]]

Fails(h, row) ==
    /\ tx[h].op = "activate"
    /\ IF row[1] = "code" THEN ~SlotLeft(h) ELSE lic[row[2]] # "NONE"

\* What the statement writes to usedActivations.
Written(h) == used[CodeOf[tx[h].on]] + (IF tx[h].op = "activate" THEN 1 ELSE -1)

\* Nobody else holds the row the next statement writes.
RowFree(h) == WaitsFor(h) = {}

\* The next statement, once its row is free.
Execute(h) ==
    /\ tx[h].op # "none" /\ MoreToDo(h) /\ RowFree(h)
    /\ LET row == Row(h, tx[h].done + 1) IN
       /\ ~Fails(h, row)
       /\ tx' = [tx EXCEPT ![h].done = @ + 1,
                           ![h].wrote = IF row[1] = "code" THEN Written(h) ELSE @]
    /\ UNCHANGED tableVars

\* A statement fails: everything is rolled back.  Mutant: and tried again.
FailRepeated(h) ==
    /\ tx[h].op # "none" /\ MoreToDo(h) /\ RowFree(h)
    /\ Fails(h, Row(h, tx[h].done + 1))
    /\ tx' = [tx EXCEPT ![h].done = 0, ![h].wrote = 0]
    /\ UNCHANGED tableVars

Fail(h) ==
    /\ tx[h].op # "none" /\ MoreToDo(h) /\ RowFree(h)
    /\ Fails(h, Row(h, tx[h].done + 1))
    /\ tx' = [tx EXCEPT ![h] = NoTx]
    /\ UNCHANGED tableVars

\* The five seconds of an interactive transaction are over, the connection is
\* lost or the process dies.
Abort(h) ==
    /\ tx[h].op # "none"
    /\ tx' = [tx EXCEPT ![h] = NoTx]
    /\ UNCHANGED tableVars

\* Transactions wait for each other in a circle.
Circle(T) == T # {} /\ \A h \in T : WaitsFor(h) \cap T # {}

\* The database rolls one of them back, and none that merely waits for them.
Victim(h) ==
    /\ WaitsFor(h) # {}
    /\ \E T \in SUBSET Handlers :
         h \in T /\ Circle(T) /\ \A U \in SUBSET T : Circle(U) => U = T
    /\ tx' = [tx EXCEPT ![h] = NoTx]
    /\ UNCHANGED tableVars

Commit(h) ==
    LET l == tx[h].on IN
    /\ tx[h].op # "none" /\ ~MoreToDo(h)
    /\ used' = [used EXCEPT ![CodeOf[l]] = tx[h].wrote]
    /\ lic' = [lic EXCEPT ![l] = IF tx[h].op = "activate" THEN "ACTIVE" ELSE "REVOKED"]
    /\ tx' = [tx EXCEPT ![h] = NoTx]

Proceed(h) == Execute(h) \/ Fail(h) \/ Commit(h)

Next == \E h \in Handlers :
          \/ \E op \in Ops, l \in Licenses : Begin(h, op, l)
          \/ Proceed(h) \/ Abort(h) \/ Victim(h)

\* The database grants a row lock in the order in which it was asked for, so a
\* transaction that waits for a row is not passed over for ever; and one that
\* has waited for a second looks whether it is in a circle.
Fairness == \A h \in Handlers : SF_vars(Proceed(h) \/ Victim(h))

Spec == Init /\ [][Next]_vars
FairSpec == Spec /\ Fairness

-----------------------------------------------------------------------------
(* Properties                                                              *)

\* Shapes; and a handler that has written the counter has written a value
\* within the limit.
TxTypeOK ==
    /\ used \in [Codes -> Int]
    /\ lic \in [Licenses -> {"NONE", "ACTIVE", "REVOKED"}]
    /\ tx \in [Handlers -> [op : Ops \cup {"none"}, on : Licenses, done : 0 .. 2, wrote : Int]]
    /\ \A h \in Handlers : /\ tx[h].done <= Len(Statements(tx[h].op))
                            /\ tx[h].wrote <= Max[CodeOf[tx[h].on]]

\* Transactions wait for each other in a circle only if one of them is an
\* activate whose row another has put in since it looked, which would be refused
\* anyway: otherwise nobody who holds a code waits, though activate locks the
\* code before the license and the others the license before the code.
CirclesNeedRepeats ==
    \A T \in SUBSET Handlers :
      Circle(T) => \E h \in T : tx[h].op = "activate" /\ lic[tx[h].on] # "NONE"

\* Statement by statement the transactions do what the one step of each does.
ImplementsAtomicTx == TableSpec

\* A transaction that has begun ends.
EveryTxEnds == \A h \in Handlers : tx[h].op # "none" ~> tx[h].op = "none"
=============================================================================
