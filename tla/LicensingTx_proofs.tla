------------------------- MODULE LicensingTx_proofs -------------------------
(***************************************************************************)
(* Proofs about LicensingTx for any sets of handlers, codes and licenses:  *)
(* its types, that its transactions implement the atomic ones, and what a  *)
(* circle of waiting transactions must contain.                            *)
(***************************************************************************)
EXTENDS LicensingTx, TLAPS

Releases == {"deactivate", "revoke"}

\* Where a transaction is, without the sequences of statements.
HasCode(q) == \/ q.op = "activate" /\ q.done >= 1
              \/ q.op \in Releases /\ q.done = 2
HasLicense(q) == \/ q.op = "activate" /\ q.done = 2
                 \/ q.op \in Releases /\ q.done >= 1
WantsCode(q) == \/ q.op = "activate" /\ q.done = 0
                \/ q.op \in Releases /\ q.done = 1
WantsLicense(q) == \/ q.op = "activate" /\ q.done = 1
                   \/ q.op \in Releases /\ q.done = 0

Code(q) == CodeOf[q.on]

Tx == [op : Ops \cup {"none"}, on : Licenses, done : 0 .. 2, wrote : Int]

Types ==
    /\ used \in [Codes -> Int]
    /\ lic \in [Licenses -> {"NONE", "ACTIVE", "REVOKED"}]
    /\ tx \in [Handlers -> Tx]
    /\ \A h \in Handlers : tx[h].op = "none" => tx[h].done = 0 /\ tx[h].wrote = 0

\* No row is held twice.
Exclusive ==
    \A g, h \in Handlers : g # h =>
      /\ HasCode(tx[g]) /\ HasCode(tx[h]) => Code(tx[g]) # Code(tx[h])
      /\ HasLicense(tx[g]) /\ HasLicense(tx[h]) => tx[g].on # tx[h].on

\* Who holds a code has written its counter from the committed value; who holds
\* none has written nothing.
Current ==
    \A h \in Handlers :
      /\ ~HasCode(tx[h]) => tx[h].wrote = 0
      /\ HasCode(tx[h]) /\ tx[h].op = "activate" =>
           tx[h].wrote = used[Code(tx[h])] + 1 /\ tx[h].wrote <= Max[Code(tx[h])]
      /\ HasCode(tx[h]) /\ tx[h].op \in Releases => tx[h].wrote = used[Code(tx[h])] - 1

\* The counter is within the limit.
Limited == \A c \in Codes : used[c] <= Max[c]

\* An insert that has been made is of a row that was not there; a release is of
\* one that was.
Rows ==
    \A h \in Handlers :
      /\ tx[h].op = "activate" /\ tx[h].done = 2 => lic[tx[h].on] = "NONE"
      /\ tx[h].op \in Releases => lic[tx[h].on] # "NONE"

TxInv == Types /\ Exclusive /\ Current /\ Limited /\ Rows

-----------------------------------------------------------------------------
(* From sequences of statements to these predicates                        *)

\* The rows that each kind of transaction locks, in order.
LEMMA StatementsAre ==
    ASSUME NEW op
    PROVE  /\ op = "activate" => Statements(op) = <<"code", "license">>
           /\ op \in Releases => Statements(op) = <<"license", "code">>
           /\ op = "none" => Statements(op) = << >>
BY DEF Statements, RevokeOrder, Releases

\* A transaction by itself.
LEMMA TxIs ==
    ASSUME Types, NEW h \in Handlers
    PROVE  /\ tx[h] \in Tx
           /\ tx[h].op \in Ops \cup {"none"} /\ tx[h].on \in Licenses /\ tx[h].wrote \in Int
           /\ tx[h].done = 0 \/ tx[h].done = 1 \/ tx[h].done = 2
           /\ tx[h].op = "none" => tx[h].done = 0 /\ tx[h].wrote = 0
           /\ tx[h].op = "activate" \/ tx[h].op \in Releases \/ tx[h].op = "none"
<1>1. tx[h] \in Tx
  BY DEF Types
<1>2. tx[h].op \in Ops \cup {"none"} /\ tx[h].on \in Licenses /\ tx[h].wrote \in Int
      /\ tx[h].done \in 0 .. 2
  BY <1>1 DEF Tx
<1> QED BY <1>1, <1>2 DEF Types, Ops, Releases

\* Limits are numbers, and every transaction is about a code.
LEMMA MaxIs ==
    /\ \A c \in Codes : Max[c] \in Nat /\ 0 <= Max[c]
    /\ \A l \in Licenses : CodeOf[l] \in Codes
    /\ Types => \A h \in Handlers : Code(tx[h]) \in Codes /\ Code(tx[h]) = CodeOf[tx[h].on]
<1>1. \A c \in Codes : Max[c] \in Nat /\ 0 <= Max[c]
  BY TableAssumption
<1>2. \A l \in Licenses : CodeOf[l] \in Codes
  BY TableAssumption
<1> QED BY <1>1, <1>2, TxIs DEF Code

\* Each transaction has two statements.
LEMMA LenIs ==
    ASSUME Types, NEW h \in Handlers
    PROVE  Len(Statements(tx[h].op)) = IF tx[h].op = "none" THEN 0 ELSE 2
<1>1. Len(<<"code", "license">>) = 2 /\ Len(<<"license", "code">>) = 2 /\ Len(<< >>) = 0
  OBVIOUS
<1>2. tx[h].op = "activate" \/ tx[h].op \in Releases \/ tx[h].op = "none"
  BY TxIs
<1> QED BY <1>1, <1>2, StatementsAre, Zenon DEF Releases

\* A transaction that is not at its end waits for one of two rows.
LEMMA MoreIs ==
    ASSUME Types, NEW h \in Handlers
    PROVE  MoreToDo(h) <=> WantsCode(tx[h]) \/ WantsLicense(tx[h])
<1>1. /\ tx[h].done = 0 \/ tx[h].done = 1 \/ tx[h].done = 2
      /\ tx[h].op = "none" => tx[h].done = 0
      /\ tx[h].op = "activate" \/ tx[h].op \in Releases \/ tx[h].op = "none"
  BY TxIs
<1>2. Len(Statements(tx[h].op)) = IF tx[h].op = "none" THEN 0 ELSE 2
  BY LenIs
<1>3. MoreToDo(h) <=> tx[h].op # "none" /\ tx[h].done # 2
  BY <1>1, <1>2 DEF MoreToDo
<1> QED BY <1>1, <1>3 DEF WantsCode, WantsLicense, Releases

\* Which row that is.
LEMMA NextRowIs ==
    ASSUME Types, NEW h \in Handlers
    PROVE  /\ WantsCode(tx[h]) => Row(h, tx[h].done + 1) = <<"code", Code(tx[h])>>
           /\ WantsLicense(tx[h]) => Row(h, tx[h].done + 1) = <<"license", tx[h].on>>
<1> USE DEF WantsCode, WantsLicense, Row, Code
<1>1. tx[h] \in Tx
  BY DEF Types
<1>2. CASE tx[h].op = "activate"
  <2>1. Statements(tx[h].op) = <<"code", "license">>
    BY <1>2, StatementsAre
  <2> QED BY <1>1, <1>2, <2>1 DEF Tx, Releases
<1>3. CASE tx[h].op \in Releases
  <2>1. Statements(tx[h].op) = <<"license", "code">>
    BY <1>3, StatementsAre
  <2> QED BY <1>1, <1>3, <2>1 DEF Tx, Releases
<1> QED BY <1>1, <1>2, <1>3

\* The rows a transaction holds are those of its statements so far.
LEMMA HeldIs ==
    ASSUME Types, NEW h \in Handlers
    PROVE  /\ \A c : <<"code", c>> \in Held(h) <=> HasCode(tx[h]) /\ c = Code(tx[h])
           /\ \A l : <<"license", l>> \in Held(h) <=> HasLicense(tx[h]) /\ l = tx[h].on
<1> USE DEF HasCode, HasLicense, Row, Code, Held
<1>1. tx[h].op = "none" => tx[h].done = 0
  BY TxIs
<1>2. CASE tx[h].op = "activate"
  <2>1. Statements(tx[h].op) = <<"code", "license">>
    BY <1>2, StatementsAre
  <2>2. Row(h, 1) = <<"code", Code(tx[h])>> /\ Row(h, 2) = <<"license", tx[h].on>>
    BY <2>1
  <2>3. \A i : i \in 1 .. tx[h].done <=>
              (i = 1 /\ tx[h].done >= 1) \/ (i = 2 /\ tx[h].done = 2)
    BY TxIs
  <2> HIDE DEF Row
  <2> QED BY <1>1, <1>2, <2>2, <2>3 DEF Tx, Releases
<1>3. CASE tx[h].op \in Releases
  <2>1. Statements(tx[h].op) = <<"license", "code">>
    BY <1>3, StatementsAre
  <2>2. Row(h, 1) = <<"license", tx[h].on>> /\ Row(h, 2) = <<"code", Code(tx[h])>>
    BY <2>1
  <2>3. \A i : i \in 1 .. tx[h].done <=>
              (i = 1 /\ tx[h].done >= 1) \/ (i = 2 /\ tx[h].done = 2)
    BY TxIs
  <2> HIDE DEF Row
  <2> QED BY <1>1, <1>3, <2>2, <2>3 DEF Tx, Releases
<1>4. CASE tx[h].op = "none"
  BY <1>1, <1>4 DEF Releases
<1> QED BY <1>2, <1>3, <1>4, TxIs

\* Whom a transaction waits for.
LEMMA WaitsAre ==
    ASSUME Types, NEW h \in Handlers, NEW g
    PROVE  g \in WaitsFor(h) <=>
             /\ g \in Handlers \ {h}
             /\ \/ WantsCode(tx[h]) /\ HasCode(tx[g]) /\ Code(tx[g]) = Code(tx[h])
                \/ WantsLicense(tx[h]) /\ HasLicense(tx[g]) /\ tx[g].on = tx[h].on
<1>1. MoreToDo(h) <=> WantsCode(tx[h]) \/ WantsLicense(tx[h])
  BY MoreIs
<1>2. ~(WantsCode(tx[h]) /\ WantsLicense(tx[h]))
  BY DEF WantsCode, WantsLicense, Releases
<1>3. CASE g \notin Handlers
  BY <1>3 DEF WaitsFor
<1>4. CASE g \in Handlers
  <2>1. /\ \A c : <<"code", c>> \in Held(g) <=> HasCode(tx[g]) /\ c = Code(tx[g])
        /\ \A l : <<"license", l>> \in Held(g) <=> HasLicense(tx[g]) /\ l = tx[g].on
    BY <1>4, HeldIs
  <2>2. CASE WantsCode(tx[h])
    BY <1>1, <1>2, <1>4, <2>1, <2>2, NextRowIs DEF WaitsFor
  <2>3. CASE WantsLicense(tx[h])
    BY <1>1, <1>2, <1>4, <2>1, <2>3, NextRowIs DEF WaitsFor
  <2>4. CASE ~WantsCode(tx[h]) /\ ~WantsLicense(tx[h])
    BY <1>1, <2>4 DEF WaitsFor
  <2> QED BY <2>2, <2>3, <2>4
<1> QED BY <1>3, <1>4
-----------------------------------------------------------------------------
(* The invariant                                                           *)

\* The empty transaction is well formed and holds nothing.
LEMMA NoTxIs ==
    NoTx \in Tx /\ NoTx.op = "none" /\ NoTx.done = 0 /\ NoTx.wrote = 0
<1>1. (CHOOSE l \in Licenses : TRUE) \in Licenses
  BY TxAssumption
<1> QED BY <1>1 DEF NoTx, Tx

\* A transaction that is rolled back leaves nothing.
LEMMA RolledBack ==
    ASSUME TxInv, NEW h \in Handlers, tx' = [tx EXCEPT ![h] = NoTx], UNCHANGED tableVars
    PROVE  TxInv'
<1>1. tx'[h] = NoTx /\ \A g \in Handlers \ {h} : tx'[g] = tx[g]
  BY DEF TxInv, Types
<1>2. ~HasCode(tx'[h]) /\ ~HasLicense(tx'[h])
  BY <1>1, NoTxIs DEF HasCode, HasLicense, Releases
<1>3. \A g \in Handlers \ {h} : /\ HasCode(tx'[g]) <=> HasCode(tx[g])
                                /\ HasLicense(tx'[g]) <=> HasLicense(tx[g])
                                /\ Code(tx'[g]) = Code(tx[g])
  BY <1>1 DEF HasCode, HasLicense, Code
<1>4. Types'
  BY <1>1, NoTxIs DEF TxInv, Types, tableVars
<1>5. Exclusive'
  BY <1>1, <1>2, <1>3 DEF TxInv, Exclusive
<1>6. Current'
  BY <1>1, <1>2, <1>3, NoTxIs DEF TxInv, Current, tableVars
<1>7. Limited' /\ Rows'
  BY <1>1, NoTxIs DEF TxInv, Limited, Rows, tableVars, Releases
<1> QED BY <1>4, <1>5, <1>6, <1>7 DEF TxInv

\* A transaction that begins keeps the invariant.
LEMMA BeginKeeps ==
    ASSUME TxInv, NEW h \in Handlers, NEW op \in Ops, NEW l \in Licenses, Begin(h, op, l)
    PROVE  TxInv'
<1> DEFINE q == [NoTx EXCEPT !.op = op, !.on = l]
<1>1. tx'[h] = q /\ \A g \in Handlers \ {h} : tx'[g] = tx[g]
  BY DEF TxInv, Types, Begin
<1>2. q \in Tx /\ q.op = op /\ q.on = l /\ q.done = 0 /\ q.wrote = 0
  BY NoTxIs DEF NoTx, Tx
<1> HIDE DEF q
<1>3. ~HasCode(tx'[h]) /\ ~HasLicense(tx'[h])
  BY <1>1, <1>2 DEF HasCode, HasLicense
<1>4. \A g \in Handlers \ {h} : /\ HasCode(tx'[g]) <=> HasCode(tx[g])
                                /\ HasLicense(tx'[g]) <=> HasLicense(tx[g])
                                /\ Code(tx'[g]) = Code(tx[g])
  BY <1>1 DEF HasCode, HasLicense, Code
<1>5. Types'
  <2>1. tx' \in [Handlers -> Tx]
    BY <1>1, <1>2 DEF TxInv, Types, Begin, q
  <2> QED BY <1>1, <1>2, <2>1 DEF TxInv, Types, Begin, tableVars
<1>6. Exclusive'
  BY <1>1, <1>3, <1>4 DEF TxInv, Exclusive
<1>7. Current'
  <2>1. used' = used
    BY DEF Begin, tableVars
  <2>2. \A g \in Handlers \ {h} :
          /\ ~HasCode(tx[g]') => tx[g]'.wrote = 0
          /\ HasCode(tx[g]') /\ tx[g]'.op = "activate" =>
               tx[g]'.wrote = used'[Code(tx[g]')] + 1 /\ tx[g]'.wrote <= Max[Code(tx[g]')]
          /\ HasCode(tx[g]') /\ tx[g]'.op \in Releases => tx[g]'.wrote = used'[Code(tx[g]')] - 1
    BY <1>1, <1>4, <2>1 DEF TxInv, Current
  <2>3. tx[h]'.wrote = 0 /\ ~HasCode(tx[h]')
    BY <1>1, <1>2, <1>3
  <2> QED BY <2>1, <2>2, <2>3 DEF Current
<1>8. Limited' /\ Rows'
  <2>1. op \in Releases => lic[l] # "NONE"
    BY DEF Begin, Found, Releases
  <2>2. used' = used /\ lic' = lic
    BY DEF Begin, tableVars
  <2> QED BY <1>1, <1>2, <2>1, <2>2 DEF TxInv, Limited, Rows
<1> QED BY <1>5, <1>6, <1>7, <1>8 DEF TxInv

\* A transaction that is one statement further, field by field.
LEMMA Advanced ==
    ASSUME NEW t \in Tx, NEW w \in Int
    PROVE  LET q == [t EXCEPT !.done = @ + 1, !.wrote = w] IN
           /\ q.op = t.op /\ q.on = t.on /\ q.done = t.done + 1 /\ q.wrote = w
           /\ t.done + 1 \in 0 .. 2 => q \in Tx
<1> DEFINE q == [t EXCEPT !.done = @ + 1, !.wrote = w]
<1>1. q.op = t.op /\ q.on = t.on
  BY DEF Tx
<1>2. q.done = t.done + 1 /\ q.wrote = w
  BY DEF Tx
<1>3. ASSUME t.done + 1 \in 0 .. 2 PROVE q \in Tx
  BY <1>3 DEF Tx
<1> QED BY <1>1, <1>2, <1>3

\* A statement that is executed takes its row from nobody.
LEMMA ExecuteKeeps ==
    ASSUME TxInv, NEW h \in Handlers, Execute(h)
    PROVE  TxInv'
<1> DEFINE row == Row(h, tx[h].done + 1)
<1> DEFINE w == IF row[1] = "code" THEN Written(h) ELSE tx[h].wrote
<1> DEFINE q == [tx[h] EXCEPT !.done = @ + 1, !.wrote = w]
<1>1. Types /\ tx[h] \in Tx /\ (tx[h].done = 0 \/ tx[h].done = 1 \/ tx[h].done = 2)
  BY TxIs DEF TxInv
<1>2. tx' = [tx EXCEPT ![h] = q]
  BY <1>1 DEF Execute, Types
<1>3. tx'[h] = q /\ \A g \in Handlers \ {h} : tx'[g] = tx[g]
  BY <1>1, <1>2 DEF Types
<1>4. used' = used /\ lic' = lic
  BY DEF Execute, tableVars
<1>5. WantsCode(tx[h]) \/ WantsLicense(tx[h])
  BY <1>1, MoreIs DEF Execute
<1>6. \A g \in Handlers \ {h} :
        /\ WantsCode(tx[h]) => ~(HasCode(tx[g]) /\ Code(tx[g]) = Code(tx[h]))
        /\ WantsLicense(tx[h]) => ~(HasLicense(tx[g]) /\ tx[g].on = tx[h].on)
  BY <1>1, WaitsAre DEF Execute, RowFree
<1>7. /\ WantsCode(tx[h]) => row = <<"code", Code(tx[h])>>
      /\ WantsLicense(tx[h]) => row = <<"license", tx[h].on>>
  BY <1>1, NextRowIs
<1>8. /\ WantsCode(tx[h]) => row[1] = "code"
      /\ WantsLicense(tx[h]) => row[1] = "license" /\ row[2] = tx[h].on
  BY <1>7
<1>9. ~Fails(h, row)
  BY DEF Execute
<1> HIDE DEF row
<1>10. /\ WantsCode(tx[h]) => w = Written(h)
       /\ WantsLicense(tx[h]) => w = tx[h].wrote
  BY <1>8
<1>11. used[Code(tx[h])] \in Int /\ Code(tx[h]) \in Codes
  BY <1>1, TableAssumption DEF Types, Tx, Code
<1>12. w \in Int
  BY <1>1, <1>5, <1>10, <1>11 DEF Written, Tx, Code
<1> HIDE DEF w
<1>13. tx[h].op # "none" /\ tx[h].done + 1 \in 0 .. 2
  BY <1>1, <1>5 DEF WantsCode, WantsLicense, Releases
<1>14. q.op = tx[h].op /\ q.on = tx[h].on /\ q.done = tx[h].done + 1 /\ q.wrote = w
  BY <1>1, <1>12, Advanced
<1>15. q \in Tx /\ Code(q) = Code(tx[h])
  BY <1>1, <1>12, <1>13, <1>14, Advanced DEF Code
<1> HIDE DEF q
<1>16. /\ WantsCode(tx[h]) => HasCode(q) /\ (HasLicense(q) <=> HasLicense(tx[h]))
       /\ WantsLicense(tx[h]) => HasLicense(q) /\ (HasCode(q) <=> HasCode(tx[h]))
  BY <1>1, <1>14 DEF HasCode, HasLicense, WantsCode, WantsLicense, Releases
<1>17. Types'
  BY <1>1, <1>2, <1>3, <1>4, <1>13, <1>14, <1>15 DEF Types
<1>18. Exclusive'
  <2>1. \A g \in Handlers \ {h} :
          /\ HasCode(tx[g]) /\ HasCode(q) => Code(tx[g]) # Code(q)
          /\ HasLicense(tx[g]) /\ HasLicense(q) => tx[g].on # q.on
    BY <1>5, <1>6, <1>14, <1>15, <1>16 DEF TxInv, Exclusive
  <2> QED BY <1>3, <2>1 DEF TxInv, Exclusive
<1>19. Current'
  <2>1. CASE WantsCode(tx[h])
    <3>1. /\ tx[h].op = "activate" => w = used[Code(tx[h])] + 1 /\ w <= Max[Code(tx[h])]
          /\ tx[h].op \in Releases => w = used[Code(tx[h])] - 1
      BY <1>8, <1>9, <1>10, <1>11, <2>1 DEF Written, Fails, SlotLeft, Releases, Code
    <3> QED BY <1>3, <1>4, <1>14, <1>15, <1>16, <2>1, <3>1 DEF TxInv, Current
  <2>2. CASE WantsLicense(tx[h])
    BY <1>3, <1>4, <1>10, <1>14, <1>15, <1>16, <2>2 DEF TxInv, Current
  <2> QED BY <1>5, <2>1, <2>2
<1>20. Rows'
  <2>1. tx[h].op = "activate" /\ tx[h].done = 1 => lic[tx[h].on] = "NONE"
    BY <1>8, <1>9 DEF Fails, WantsLicense
  <2> QED BY <1>1, <1>3, <1>4, <1>14, <2>1 DEF TxInv, Rows
<1> QED BY <1>4, <1>17, <1>18, <1>19, <1>20 DEF TxInv, Limited

\* Who commits holds both rows, and alone.
LEMMA CommitIs ==
    ASSUME TxInv, NEW h \in Handlers, Commit(h)
    PROVE  /\ tx[h].done = 2 /\ tx[h].op \in {"activate"} \cup Releases
           /\ tx[h].on \in Licenses /\ Code(tx[h]) \in Codes /\ tx[h].wrote \in Int
           /\ used' = [used EXCEPT ![Code(tx[h])] = tx[h].wrote]
           /\ lic' = [lic EXCEPT ![tx[h].on] =
                        IF tx[h].op = "activate" THEN "ACTIVE" ELSE "REVOKED"]
           /\ HasCode(tx[h]) /\ HasLicense(tx[h])
<1>1. Types
  BY DEF TxInv
<1>2. ~WantsCode(tx[h]) /\ ~WantsLicense(tx[h])
  BY <1>1, MoreIs DEF Commit
<1>3. tx[h].done = 2 /\ tx[h].op \in {"activate"} \cup Releases
  BY <1>1, <1>2, TxIs DEF Commit, WantsCode, WantsLicense
<1> QED BY <1>1, <1>3, TxIs, TableAssumption DEF Commit, Code, HasCode, HasLicense

\* A transaction that commits keeps the invariant.
LEMMA CommitKeeps ==
    ASSUME TxInv, NEW h \in Handlers, Commit(h)
    PROVE  TxInv'
<1> DEFINE c == Code(tx[h])  l == tx[h].on
<1>1. /\ tx[h].done = 2 /\ tx[h].op \in {"activate"} \cup Releases
      /\ l \in Licenses /\ c \in Codes /\ tx[h].wrote \in Int
      /\ HasCode(tx[h]) /\ HasLicense(tx[h])
  BY CommitIs
<1>2. Types
  BY DEF TxInv
<1>3. /\ used' \in [Codes -> Int]
      /\ used'[c] = tx[h].wrote /\ \A d \in Codes \ {c} : used'[d] = used[d]
  BY <1>1, <1>2, CommitIs DEF Types
<1>4. /\ lic' \in [Licenses -> {"NONE", "ACTIVE", "REVOKED"}]
      /\ lic'[l] # "NONE" /\ \A m \in Licenses \ {l} : lic'[m] = lic[m]
  BY <1>1, <1>2, CommitIs DEF Types
<1>5. tx'[h] = NoTx /\ \A g \in Handlers \ {h} : tx'[g] = tx[g]
  BY <1>2 DEF Types, Commit
<1>6. tx' \in [Handlers -> Tx]
  BY <1>2, NoTxIs DEF Types, Commit
<1>7. ~HasCode(NoTx) /\ ~HasLicense(NoTx) /\ NoTx.op \notin {"activate"} \cup Releases
  BY NoTxIs DEF HasCode, HasLicense, Releases
<1>8. \A g \in Handlers \ {h} : /\ tx[g].on \in Licenses /\ Code(tx[g]) \in Codes
                                /\ HasCode(tx[g]) => Code(tx[g]) # c
                                /\ HasLicense(tx[g]) => tx[g].on # l
  BY <1>1, <1>2, TxIs, TableAssumption DEF TxInv, Exclusive, Code
<1> HIDE DEF c, l
<1>9. Types'
  BY <1>2, <1>3, <1>4, <1>5, <1>6, NoTxIs DEF Types
<1>10. Exclusive'
  BY <1>5, <1>7 DEF TxInv, Exclusive
<1>11. Current'
  <2>1. \A g \in Handlers \ {h} : HasCode(tx[g]) => used'[Code(tx[g])] = used[Code(tx[g])]
    <3> TAKE g \in Handlers \ {h}
    <3> HAVE HasCode(tx[g])
    <3>1. Code(tx[g]) \in Codes \ {c}
      BY <1>8
    <3> QED BY <1>3, <3>1
  <2> QED BY <1>5, <1>7, <2>1, NoTxIs DEF TxInv, Current
<1>12. Limited'
  <2>1. tx[h].wrote <= Max[Code(tx[h])]
    <3>1. CASE tx[h].op = "activate"
      BY <1>1, <3>1 DEF TxInv, Current
    <3>2. CASE tx[h].op \in Releases
      <4>1. tx[h].wrote = used[c] - 1 /\ used[c] <= Max[c] /\ used[c] \in Int
        BY <1>1, <1>2, <3>2 DEF TxInv, Current, Limited, Types, c
      <4>2. c \in Codes /\ c = Code(tx[h]) /\ Max[c] \in Nat
        BY <1>1, MaxIs DEF TxInv, c
      <4> QED BY <4>1, <4>2
    <3> QED BY <1>1, <3>1, <3>2
  <2>2. used'[c] <= Max[c]
    BY <1>3, <2>1 DEF c
  <2>3. \A d \in Codes \ {c} : used'[d] <= Max[d]
    BY <1>3 DEF TxInv, Limited
  <2> QED BY <2>2, <2>3 DEF Limited
<1>13. Rows'
  <2>1. \A g \in Handlers \ {h} :
          /\ tx[g].op = "activate" /\ tx[g].done = 2 => lic'[tx[g].on] = lic[tx[g].on]
          /\ lic[tx[g].on] # "NONE" => lic'[tx[g].on] # "NONE"
    <3> TAKE g \in Handlers \ {h}
    <3>1. tx[g].on \in Licenses
      BY <1>8
    <3>2. tx[g].op = "activate" /\ tx[g].done = 2 => tx[g].on \in Licenses \ {l}
      BY <1>8 DEF HasLicense
    <3> QED BY <1>4, <3>1, <3>2
  <2> QED BY <1>5, <1>7, <2>1 DEF TxInv, Rows
<1> QED BY <1>9, <1>10, <1>11, <1>12, <1>13 DEF TxInv

\* The invariant holds in every reachable state.
THEOREM TxInvHolds == Spec => []TxInv
<1>1. Init => TxInv
  <2> SUFFICES ASSUME Init PROVE TxInv
    OBVIOUS
  <2>1. \A h \in Handlers : tx[h] = NoTx
    BY DEF Init
  <2>2. ~HasCode(NoTx) /\ ~HasLicense(NoTx) /\ NoTx.op \notin {"activate"} \cup Releases
    BY NoTxIs DEF HasCode, HasLicense, Releases
  <2>3. Types
    BY <2>1, NoTxIs DEF Init, TableInit, Types
  <2>4. Exclusive /\ Current /\ Rows
    BY <2>1, <2>2, NoTxIs DEF Exclusive, Current, Rows
  <2>5. Limited
    <3>1. \A c \in Codes : 0 <= Max[c] /\ used[c] = 0
      BY <2>1, MaxIs DEF Init, TableInit
    <3> QED BY <3>1, Zenon DEF Limited
  <2> QED BY <2>3, <2>4, <2>5 DEF TxInv
<1>2. TxInv /\ [Next]_vars => TxInv'
  <2> SUFFICES ASSUME TxInv, [Next]_vars PROVE TxInv'
    OBVIOUS
  <2>1. CASE \E h \in Handlers, op \in Ops, l \in Licenses : Begin(h, op, l)
    BY <2>1, BeginKeeps
  <2>2. CASE \E h \in Handlers : Execute(h)
    BY <2>2, ExecuteKeeps
  <2>3. CASE \E h \in Handlers : Fail(h)
    BY <2>3, RolledBack DEF Fail
  <2>4. CASE \E h \in Handlers : Abort(h)
    BY <2>4, RolledBack DEF Abort
  <2>5. CASE \E h \in Handlers : Victim(h)
    BY <2>5, RolledBack DEF Victim
  <2>6. CASE \E h \in Handlers : Commit(h)
    BY <2>6, CommitKeeps
  <2>7. CASE UNCHANGED vars
    BY <2>7 DEF vars, tableVars, TxInv, Types, Exclusive, Current, Limited, Rows
  <2> QED BY <2>1, <2>2, <2>3, <2>4, <2>5, <2>6, <2>7 DEF Next, Proceed
<1> QED BY <1>1, <1>2, PTL DEF Spec

-----------------------------------------------------------------------------
(* What follows                                                            *)

\* The shapes of TxTypeOK, and its limit on what an overlapping activate may
\* write to the counter.
THEOREM TxTypes == Spec => []TxTypeOK
<1>1. TxInv => TxTypeOK
  <2> SUFFICES ASSUME TxInv PROVE TxTypeOK
    OBVIOUS
  <2>1. Types
    BY DEF TxInv
  <2>2. ASSUME NEW h \in Handlers
        PROVE  /\ tx[h].done <= Len(Statements(tx[h].op))
               /\ tx[h].wrote <= Max[CodeOf[tx[h].on]]
    <3>1. tx[h].done <= Len(Statements(tx[h].op))
      BY <2>1, LenIs, TxIs
    <3>2. tx[h].wrote <= Max[Code(tx[h])]
      <4>0. /\ Code(tx[h]) \in Codes
            /\ Max[Code(tx[h])] \in Nat /\ 0 <= Max[Code(tx[h])]
        BY <2>1, MaxIs
      <4>1. used[Code(tx[h])] \in Int /\ used[Code(tx[h])] <= Max[Code(tx[h])]
        BY <4>0 DEF TxInv, Limited, Types
      <4>2. CASE ~HasCode(tx[h])
        <5>1. tx[h].wrote = 0
          BY <4>2 DEF TxInv, Current
        <5> QED BY <4>0, <5>1
      <4>3. CASE HasCode(tx[h]) /\ tx[h].op = "activate"
        BY <4>3 DEF TxInv, Current
      <4>4. CASE HasCode(tx[h]) /\ tx[h].op \in Releases
        <5>1. tx[h].wrote = used[Code(tx[h])] - 1
          BY <4>4 DEF TxInv, Current
        <5> QED BY <4>0, <4>1, <5>1
      <4> QED BY <4>2, <4>3, <4>4 DEF HasCode
    <3>3. Code(tx[h]) = CodeOf[tx[h].on]
      BY DEF Code
    <3> QED BY <3>1, <3>2, <3>3
  <2> QED BY <2>1, <2>2 DEF TxTypeOK, Types, Tx
<1> QED BY <1>1, TxInvHolds, PTL

\* A transaction made of statements, whose checks may be out of date and whose
\* locks come in two orders, has the effect of one step of AtomicTx at its
\* commit and none before.
THEOREM TxRefines == Spec => ImplementsAtomicTx
<1>1. Init => TableInit
  BY DEF Init
<1>2. TxInv /\ [Next]_vars => [TableNext]_tableVars
  <2> SUFFICES ASSUME TxInv, [Next]_vars PROVE [TableNext]_tableVars
    OBVIOUS
  <2>1. ASSUME NEW h \in Handlers, Commit(h) PROVE TableNext
    <3> DEFINE l == tx[h].on
    <3>1. /\ tx[h].done = 2 /\ tx[h].op \in {"activate"} \cup Releases
          /\ l \in Licenses /\ tx[h].wrote \in Int
          /\ used' = [used EXCEPT ![CodeOf[l]] = tx[h].wrote]
          /\ lic' = [lic EXCEPT ![l] = IF tx[h].op = "activate" THEN "ACTIVE" ELSE "REVOKED"]
          /\ HasCode(tx[h])
      BY <2>1, CommitIs DEF Code
    <3>2. used[CodeOf[l]] \in Int
      BY <3>1, TableAssumption DEF TxInv, Types
    <3>3. CASE tx[h].op = "activate"
      <4>1. lic[l] = "NONE" /\ tx[h].wrote = used[CodeOf[l]] + 1 /\ tx[h].wrote <= Max[CodeOf[l]]
        BY <3>1, <3>3 DEF TxInv, Rows, Current, Code
      <4>2. used[CodeOf[l]] < Max[CodeOf[l]]
        <5>1. CodeOf[l] \in Codes /\ Max[CodeOf[l]] \in Nat
          BY <3>1, MaxIs
        <5> HIDE DEF l
        <5> QED BY <3>2, <4>1, <5>1
      <4> QED BY <3>1, <3>3, <4>1, <4>2 DEF TableNext, TakeSlot
    <3>4. CASE tx[h].op \in Releases
      <4>1. lic[l] # "NONE" /\ tx[h].wrote = used[CodeOf[l]] - 1
        BY <3>1, <3>4 DEF TxInv, Rows, Current, Code
      <4> QED BY <3>1, <3>4, <4>1 DEF TableNext, GiveBack, Releases
    <3> QED BY <3>1, <3>3, <3>4
  <2>2. CASE UNCHANGED tableVars
    BY <2>2
  <2> QED BY <2>1, <2>2 DEF Next, Proceed, Begin, Execute, Fail, Abort, Victim, vars
<1> QED BY <1>1, <1>2, TxInvHolds, PTL DEF Spec, ImplementsAtomicTx, TableSpec

\* Transactions that have not lost a race to create their row never wait for
\* each other in a circle: a member that held a code would be an activate that
\* waits for a row another member is releasing; so none holds a code, so all
\* wait for a license, so none is past its first statement, so none holds one.
THEOREM CirclesHaveRepeats == Spec => []CirclesNeedRepeats
<1>1. TxInv => CirclesNeedRepeats
  <2> SUFFICES ASSUME TxInv, NEW T \in SUBSET Handlers, Circle(T),
                      \A h \in T : ~(tx[h].op = "activate" /\ lic[tx[h].on] # "NONE")
               PROVE  FALSE
    BY DEF CirclesNeedRepeats
  <2>1. Types
    BY DEF TxInv
  <2>2. ASSUME NEW h \in T
        PROVE  \E g \in T \ {h} :
                 \/ WantsCode(tx[h]) /\ HasCode(tx[g])
                 \/ WantsLicense(tx[h]) /\ HasLicense(tx[g]) /\ tx[g].on = tx[h].on
    <3>1. PICK g \in T : g \in WaitsFor(h)
      BY DEF Circle
    <3> QED BY <2>1, <3>1, WaitsAre
  <2>3. ASSUME NEW h \in T PROVE ~HasCode(tx[h])
    <3> SUFFICES ASSUME HasCode(tx[h]) PROVE FALSE
      OBVIOUS
    <3>1. PICK g \in T \ {h} :
                 \/ WantsCode(tx[h]) /\ HasCode(tx[g])
                 \/ WantsLicense(tx[h]) /\ HasLicense(tx[g]) /\ tx[g].on = tx[h].on
      BY <2>2
    <3>2. tx[h].op = "activate" /\ WantsLicense(tx[h])
      BY <2>1, <3>1, TxIs DEF HasCode, WantsCode, WantsLicense, Releases
    <3>3. HasLicense(tx[g]) /\ tx[g].on = tx[h].on
      BY <3>1, <3>2 DEF WantsCode, WantsLicense, Releases
    <3>4. CASE tx[g].op \in Releases
      BY <3>2, <3>3, <3>4 DEF TxInv, Rows
    <3>5. CASE tx[g].op = "activate" /\ tx[g].done = 2
      BY <2>2, <3>5 DEF WantsCode, WantsLicense, Releases
    <3> QED BY <3>3, <3>4, <3>5 DEF HasLicense
  <2>4. PICK h \in T : TRUE
    BY DEF Circle
  <2>5. PICK g \in T : HasLicense(tx[g])
    BY <2>2, <2>3
  <2>6. tx[g].op \in Releases /\ tx[g].done = 1
    BY <2>1, <2>3, <2>5, TxIs DEF HasCode, HasLicense
  <2>7. ~WantsLicense(tx[g])
    BY <2>6 DEF WantsLicense, Releases
  <2> QED BY <2>2, <2>3, <2>7
<1> QED BY <1>1, TxInvHolds, PTL
=============================================================================
