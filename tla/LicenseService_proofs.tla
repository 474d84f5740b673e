------------------------ MODULE LicenseService_proofs ------------------------
(***************************************************************************)
(* Theorems about LicenseService for every number of products, codes,      *)
(* licenses and requests, and their proofs.                                *)
(***************************************************************************)
EXTENDS LicenseService, FiniteSetTheorems, TLAPS

-----------------------------------------------------------------------------
(* Typing                                                                  *)

\* The empty request is well formed.
LEMMA NoRequestType == NoRequest \in Request
BY DEF NoRequest, Request, Ops, Points, Results, Statuses, Refusals

\* A request that arrives is a well-formed record.
LEMMA ArrivedType ==
    ASSUME TypeOK, NEW l \in Licenses, NEW op \in Ops, NEW pc \in Points,
           NEW result \in Results
    PROVE  Arrived(op, l, pc, result) \in Request
<1>1. NoRequest \in Request
  BY NoRequestType
<1>2. (status[l] = "REVOKED") \in BOOLEAN
  OBVIOUS
<1>3. codeRevoked[CodeOf[l]] \in BOOLEAN
  BY LicensesAssumption DEF TypeOK
<1> QED
  BY <1>1, <1>2, <1>3 DEF Arrived, Request

\* Looking up a license changes no table and leaves a well-formed request.
LEMMA LookupType ==
    ASSUME TypeOK, NEW h \in Handlers, NEW l \in Licenses, NEW match \in BOOLEAN,
           NEW op \in Ops, NEW pc \in Points, NEW result \in Results,
           Lookup(h, op, l, match, pc, result)
    PROVE  req' \in [Handlers -> Request] /\ UNCHANGED tables
<1>1. Arrived(op, l, "done", "NOT_FOUND") \in Request
  BY ArrivedType DEF Points, Results, Refusals
<1>2. Arrived(op, l, "done", "FINGERPRINT_MISMATCH") \in Request
  BY ArrivedType DEF Points, Results, Refusals
<1>3. [Arrived(op, l, pc, result) EXCEPT !.snap = status[l]] \in Request
  <2>1. Arrived(op, l, pc, result) \in Request
    BY ArrivedType
  <2> QED
    BY <2>1 DEF Request, TypeOK
<1> QED
  BY <1>1, <1>2, <1>3 DEF Lookup, Set, TypeOK

\* Signing changes no table and leaves a well-formed request.
LEMMA SignType ==
    ASSUME TypeOK, NEW h \in Handlers, NEW op \in Ops, NEW pc \in Points,
           NEW result \in Results, Sign(h, op, pc, result)
    PROVE  req' \in [Handlers -> Request] /\ UNCHANGED tables
<1>1. req[h] \in Request
  BY DEF TypeOK
<1>2. [req[h] EXCEPT !.pc = "done", !.result = "NO_SIGNING_KEY"] \in Request
  BY <1>1 DEF Request, Points, Results
<1>3. [req[h] EXCEPT !.pc = pc, !.result = result, !.proof = req[h].snap] \in Request
  BY <1>1 DEF Request
<1> QED
  BY <1>2, <1>3 DEF Sign, Finish, Set, TypeOK

\* A change of the program point, the result and the remaining locals of a
\* request keeps it well formed.
LEMMA FinishType ==
    ASSUME TypeOK, NEW h \in Handlers, NEW result \in Results, Finish(h, result)
    PROVE  req' \in [Handlers -> Request]
<1> req[h] \in Request
  BY DEF TypeOK
<1>1. [req[h] EXCEPT !.pc = "done", !.result = result] \in Request
  BY DEF Request, Points
<1> QED
  BY <1>1 DEF Finish, Set, TypeOK

\* The release transaction keeps the types.
LEMMA ReleaseTxType ==
    ASSUME TypeOK, NEW h \in Handlers, NEW op \in Ops, NEW who \in Reasons,
           ReleaseTx(h, op, who), wrote' \in [Handlers -> BOOLEAN]
    PROVE  TypeOK'
<1> req[h] \in Request
  BY DEF TypeOK
<1>1. [req[h] EXCEPT !.pc = "done", !.result = "OK"] \in Request
  BY DEF Request, Points, Results
<1>2. req' \in [Handlers -> Request]
  BY <1>1 DEF ReleaseTx, Set, TypeOK
<1>3. /\ status' \in [Licenses -> Statuses]
      /\ reason' \in [Licenses -> Reasons]
  BY DEF ReleaseTx, TypeOK, Statuses
<1>4. used' \in [Codes -> Int]
  <2>1. PICK c : used' = [used EXCEPT ![c] = used[c] - 1]
    BY DEF ReleaseTx
  <2>2. \A d \in Codes : used'[d] = IF d = c THEN used[d] - 1 ELSE used[d]
    BY <2>1 DEF TypeOK
  <2>3. \A d \in Codes : used[d] \in Int
    BY DEF TypeOK
  <2>4. \A d \in Codes : used'[d] \in Int
    BY <2>2, <2>3
  <2>5. used' = [d \in Codes |-> used'[d]]
    BY <2>1 DEF TypeOK
  <2> QED
    BY <2>4, <2>5
<1> QED
  BY <1>2, <1>3, <1>4 DEF ReleaseTx, TypeOK

\* Every step keeps the types.
LEMMA TypeStep == TypeOK /\ [Next]_vars => TypeOK'
<1> SUFFICES ASSUME TypeOK, [Next]_vars PROVE TypeOK'
  OBVIOUS
<1> wrote' \in [Handlers -> BOOLEAN]
  BY DEF Next, NoteWrites, vars, TypeOK
<1>1. ASSUME NEW h \in Handlers, NEW l \in Licenses, NEW p \in Products,
             ActivateProduct(h, p, l)
      PROVE  TypeOK'
  <2>1. /\ Arrived("activate", l, "done", "PRODUCT_NOT_FOUND") \in Request
        /\ Arrived("activate", l, "code", "none") \in Request
    BY ArrivedType DEF Ops, Points, Results, Refusals
  <2>2. /\ [Arrived("activate", l, "done", "PRODUCT_NOT_FOUND") EXCEPT !.sku = p] \in Request
        /\ [Arrived("activate", l, "code", "none") EXCEPT !.sku = p] \in Request
    BY <2>1 DEF Request
  <2> QED
    BY <1>1, <2>2 DEF ActivateProduct, Set, TypeOK, tables
<1>2. ASSUME NEW h \in Handlers, ActivateCode(h) PROVE TypeOK'
  <2> DEFINE c == CodeOf[req[h].lic]
  <2> req[h] \in Request
    BY DEF TypeOK
  <2>1. ASSUME NEW b \in BOOLEAN
        PROVE  [req[h] EXCEPT !.pc = "license", !.full = b] \in Request
    BY DEF Request, Points
  <2>2. (used[c] >= Max[c]) \in BOOLEAN
    OBVIOUS
  <2>3. CASE Finish(h, "INVALID_CODE")
    BY <1>2, <2>3, FinishType DEF ActivateCode, TypeOK, tables, Results, Refusals
  <2>4. CASE Finish(h, "CODE_REVOKED")
    BY <1>2, <2>4, FinishType DEF ActivateCode, TypeOK, tables, Results, Refusals
  <2>5. CASE Set(h, [req[h] EXCEPT !.pc = "license", !.full = (used[c] >= Max[c])])
    BY <1>2, <2>1, <2>2, <2>5 DEF ActivateCode, TypeOK, tables, Set
  <2> QED
    BY <1>2, <2>3, <2>4, <2>5 DEF ActivateCode
<1>3. ASSUME NEW h \in Handlers, ActivateLicense(h) PROVE TypeOK'
  <2> req[h] \in Request
    BY DEF TypeOK
  <2>1. /\ [req[h] EXCEPT !.pc = "sign", !.snap = "ACTIVE"] \in Request
        /\ [req[h] EXCEPT !.pc = "tx"] \in Request
    BY DEF Request, Points, Statuses
  <2>2. /\ "LICENSE_REVOKED" \in Results
        /\ "LIMIT" \in Results
    BY DEF Results, Refusals
  <2>3. req' \in [Handlers -> Request]
    BY <1>3, <2>1, <2>2, FinishType DEF ActivateLicense, Reissues, GoTo, Set, TypeOK
  <2> QED
    BY <1>3, <2>3 DEF ActivateLicense, TypeOK, tables
<1>4. ASSUME NEW h \in Handlers, ActivateTx(h) PROVE TypeOK'
  <2> req[h] \in Request
    BY DEF TypeOK
  <2>1. [req[h] EXCEPT !.pc = "sign", !.snap = "ACTIVE"] \in Request
    BY DEF Request, Points, Statuses
  <2>2. /\ "UNIQUE_VIOLATION" \in Results
        /\ "LIMIT" \in Results
    BY DEF Results, Refusals
  <2>3. req' \in [Handlers -> Request]
    BY <1>4, <2>1, <2>2, FinishType DEF ActivateTx, Set, TypeOK
  <2>4. used' \in [Codes -> Int] /\ status' \in [Licenses -> Statuses]
    BY <1>4 DEF ActivateTx, RolledBack, TypeOK, Statuses
  <2> QED
    BY <1>4, <2>3, <2>4 DEF ActivateTx, TypeOK
<1>5. ASSUME NEW h \in Handlers, ActivateSign(h) PROVE TypeOK'
  BY <1>5, SignType DEF ActivateSign, TypeOK, tables, Ops, Points, Results
<1>6. ASSUME NEW h \in Handlers, NEW l \in Licenses, NEW match \in BOOLEAN,
             VerifyLicense(h, l, match)
      PROVE  TypeOK'
  BY <1>6, LookupType DEF VerifyLicense, TypeOK, tables, Ops, Points, Results
<1>7. ASSUME NEW h \in Handlers, VerifySign(h) PROVE TypeOK'
  BY <1>7, SignType DEF VerifySign, TypeOK, tables, Ops, Points, Results
<1>8. ASSUME NEW h \in Handlers, VerifyTouch(h) PROVE TypeOK'
  BY <1>8, FinishType DEF VerifyTouch, TypeOK, Results
<1>9. ASSUME NEW h \in Handlers, NEW l \in Licenses, NEW match \in BOOLEAN,
             NEW op \in {"deactivate", "revoke"}, ReleaseLicense(h, op, l, match)
      PROVE  TypeOK'
  <2>1. /\ op \in Ops
        /\ "done" \in Points /\ "tx" \in Points
        /\ "OK" \in Results /\ "none" \in Results
    BY DEF Ops, Points, Results
  <2> QED
    BY <1>9, <2>1, LookupType DEF ReleaseLicense, TypeOK, tables
<1>10. ASSUME NEW h \in Handlers, DeactivateTx(h) PROVE TypeOK'
  BY <1>10, ReleaseTxType DEF DeactivateTx, Ops, Reasons
<1>11. ASSUME NEW h \in Handlers, RevokeTx(h) PROVE TypeOK'
  BY <1>11, ReleaseTxType DEF RevokeTx, Ops, Reasons
<1>12. ASSUME NEW h \in Handlers, NEW p \in Products, CreateProduct(h, p)
       PROVE  TypeOK'
  <2> DEFINE arrived == [NoRequest EXCEPT !.op = "create", !.sku = p]
  <2>1. arrived \in Request
    BY NoRequestType DEF Request, Ops
  <2>2. /\ [arrived EXCEPT !.pc = "done", !.result = "SKU_TAKEN"] \in Request
        /\ [arrived EXCEPT !.pc = "key"] \in Request
    BY <2>1 DEF Request, Points, Results, Refusals
  <2>3. req' \in [Handlers -> Request]
    BY <1>12, <2>2 DEF CreateProduct, Set, TypeOK
  <2> QED
    BY <1>12, <2>3 DEF CreateProduct, TypeOK
<1>13. ASSUME NEW h \in Handlers, CreateFirstKey(h) PROVE TypeOK'
  BY <1>13, FinishType DEF CreateFirstKey, TypeOK, Results
<1>14. ASSUME NEW p \in Products, RotateKey(p) PROVE TypeOK'
  BY <1>14 DEF RotateKey, TypeOK
<1>15. ASSUME NEW c \in Codes, IssueCode(c) \/ RevokeCode(c) PROVE TypeOK'
  BY <1>15 DEF IssueCode, RevokeCode, TypeOK
<1>16. ASSUME NEW h \in Handlers, Answered(h) PROVE TypeOK'
  BY <1>16, NoRequestType DEF Answered, Set, TypeOK, tables
<1>17. CASE Crash
  BY <1>17, NoRequestType DEF Crash, TypeOK, tables
<1>18. CASE UNCHANGED vars
  BY <1>18 DEF vars, TypeOK
<1> QED
  BY <1>1, <1>2, <1>3, <1>4, <1>5, <1>6, <1>7, <1>8, <1>9, <1>10, <1>11, <1>12, <1>13,
     <1>14, <1>15, <1>16, <1>17, <1>18
     DEF Next, Step, Arrive, Continue, DeactivateLicense, RevokeLicense

\* The state of the service is always well formed.
THEOREM TypeCorrect == Spec => []TypeOK
<1>1. Init => TypeOK
  BY NoRequestType DEF Init, TypeOK, Statuses, Reasons
<1> QED
  BY <1>1, TypeStep, PTL DEF Spec

-----------------------------------------------------------------------------
(* Slots                                                                   *)

(***************************************************************************)
(* The inductive invariant of the slot counter: the two properties and,    *)
(* because a transaction finds its code through its request, that requests *)
(* about licenses name one.                                                *)
(***************************************************************************)
LicenseOps == {"activate", "verify", "deactivate", "revoke"}
Addressed == \A h \in Handlers : req[h].op \in LicenseOps => req[h].lic \in Licenses
SlotInv == TypeOK /\ Addressed /\ SlotsNeverOversold /\ SlotsNeverLost

\* Only request h changes.
OnlyRequest(h) == req' = [req EXCEPT ![h] = req'[h]]

\* A request that moves on keeps its operation and its license.
SameTarget(h) == req'[h].op = req[h].op /\ req'[h].lic = req[h].lic

\* Every step of a request in flight but the last keeps its target.
LEMMA ContinueKeepsTarget ==
    ASSUME TypeOK, NEW h \in Handlers, Continue(h), ~Answered(h)
    PROVE  OnlyRequest(h) /\ SameTarget(h)
<1>1. req[h] \in Request /\ req \in [Handlers -> Request]
  BY DEF TypeOK
<1>2. ASSUME NEW result, Finish(h, result) PROVE OnlyRequest(h) /\ SameTarget(h)
  BY <1>1, <1>2 DEF Finish, Set, OnlyRequest, SameTarget, Request
<1>3. CASE ActivateCode(h)
  <2>1. SUFFICES ASSUME NEW v, Set(h, [req[h] EXCEPT !.pc = "license", !.full = v])
                 PROVE  OnlyRequest(h) /\ SameTarget(h)
    BY <1>2, <1>3 DEF ActivateCode
  <2> QED
    BY <1>1, <2>1 DEF Set, OnlyRequest, SameTarget, Request
<1>4. CASE ActivateLicense(h)
  <2>1. ASSUME NEW s, Set(h, [req[h] EXCEPT !.pc = "sign", !.snap = s])
        PROVE  OnlyRequest(h) /\ SameTarget(h)
    BY <1>1, <2>1 DEF Set, OnlyRequest, SameTarget, Request
  <2>2. CASE GoTo(h, "tx")
    BY <1>1, <2>2 DEF GoTo, Set, OnlyRequest, SameTarget, Request
  <2> QED
    BY <1>2, <1>4, <2>1, <2>2 DEF ActivateLicense
<1>5. CASE ActivateTx(h)
  <2>1. CASE Set(h, [req[h] EXCEPT !.pc = "sign", !.snap = "ACTIVE"])
    BY <1>1, <2>1 DEF Set, OnlyRequest, SameTarget, Request
  <2> QED
    BY <1>2, <1>5, <2>1 DEF ActivateTx
<1>6. ASSUME NEW op, NEW pc, NEW result, Sign(h, op, pc, result)
      PROVE  OnlyRequest(h) /\ SameTarget(h)
  <2>1. CASE Set(h, [req[h] EXCEPT !.pc = pc, !.result = result, !.proof = req[h].snap])
    BY <1>1, <2>1 DEF Set, OnlyRequest, SameTarget, Request
  <2> QED
    BY <1>2, <1>6, <2>1 DEF Sign
<1>7. ASSUME NEW op, NEW who, ReleaseTx(h, op, who)
      PROVE  OnlyRequest(h) /\ SameTarget(h)
  <2>1. Set(h, [req[h] EXCEPT !.pc = "done", !.result = "OK"])
    BY <1>7 DEF ReleaseTx
  <2> QED
    BY <1>1, <2>1 DEF Set, OnlyRequest, SameTarget, Request
<1>8. CASE VerifyTouch(h) \/ CreateFirstKey(h)
  BY <1>2, <1>8 DEF VerifyTouch, CreateFirstKey
<1> QED
  BY <1>3, <1>4, <1>5, <1>6, <1>7, <1>8
     DEF Continue, ActivateSign, VerifySign, DeactivateTx, RevokeTx

\* A request that arrives names a license unless it creates a product.
LEMMA ArriveTarget ==
    ASSUME TypeOK, NEW h \in Handlers, Arrive(h)
    PROVE  OnlyRequest(h) /\ (req'[h].lic \in Licenses \/ req'[h].op = "create")
<1>1. req \in [Handlers -> Request]
  BY DEF TypeOK
<1>2. ASSUME NEW l \in Licenses, NEW op, NEW pc, NEW result
      PROVE  /\ Arrived(op, l, pc, result).lic = l
             /\ \A v : [Arrived(op, l, pc, result) EXCEPT !.snap = v].lic = l
             /\ \A p : [Arrived(op, l, pc, result) EXCEPT !.sku = p].lic = l
  BY DEF Arrived, NoRequest
<1>3. ASSUME NEW l \in Licenses, NEW p \in Products, ActivateProduct(h, p, l)
      PROVE  OnlyRequest(h) /\ req'[h].lic \in Licenses
  <2>1. ASSUME NEW pc, NEW result,
               Set(h, [Arrived("activate", l, pc, result) EXCEPT !.sku = p])
        PROVE  OnlyRequest(h) /\ req'[h].lic \in Licenses
    <3>1. [Arrived("activate", l, pc, result) EXCEPT !.sku = p].lic = l
      BY <1>2
    <3> QED
      BY <1>1, <2>1, <3>1 DEF Set, OnlyRequest
  <2> QED
    BY <1>3, <2>1 DEF ActivateProduct
<1>4. ASSUME NEW l \in Licenses, NEW match \in BOOLEAN, NEW op, NEW pc, NEW result,
             Lookup(h, op, l, match, pc, result)
      PROVE  OnlyRequest(h) /\ req'[h].lic \in Licenses
  <2>1. ASSUME NEW c, NEW d, Set(h, Arrived(op, l, c, d))
        PROVE  OnlyRequest(h) /\ req'[h].lic \in Licenses
    <3>1. Arrived(op, l, c, d).lic = l
      BY <1>2
    <3> QED
      BY <1>1, <2>1, <3>1 DEF Set, OnlyRequest
  <2>2. CASE Set(h, [Arrived(op, l, pc, result) EXCEPT !.snap = status[l]])
    <3>1. [Arrived(op, l, pc, result) EXCEPT !.snap = status[l]].lic = l
      BY <1>2
    <3> QED
      BY <1>1, <2>2, <3>1 DEF Set, OnlyRequest
  <2> QED
    BY <1>4, <2>1, <2>2 DEF Lookup
<1>5. ASSUME NEW p \in Products, CreateProduct(h, p)
      PROVE  OnlyRequest(h) /\ req'[h].op = "create"
  <2> DEFINE arrived == [NoRequest EXCEPT !.op = "create", !.sku = p]
  <2>1. /\ [arrived EXCEPT !.pc = "done", !.result = "SKU_TAKEN"].op = "create"
        /\ [arrived EXCEPT !.pc = "key"].op = "create"
    BY DEF NoRequest
  <2>2. PICK r : Set(h, r) /\ r.op = "create"
    BY <1>5, <2>1 DEF CreateProduct
  <2> QED
    BY <1>1, <2>2 DEF Set, OnlyRequest
<1> QED
  BY <1>3, <1>4, <1>5
     DEF Arrive, VerifyLicense, DeactivateLicense, RevokeLicense, ReleaseLicense

\* Every step keeps requests addressed.
LEMMA AddressedStep == TypeOK /\ Addressed /\ [Next]_vars => Addressed'
<1> SUFFICES ASSUME TypeOK, Addressed, [Next]_vars PROVE Addressed'
  OBVIOUS
<1>1. ASSUME NEW h \in Handlers, Continue(h), ~Answered(h) PROVE Addressed'
  BY <1>1, ContinueKeepsTarget DEF OnlyRequest, SameTarget, Addressed, TypeOK
<1>2. ASSUME NEW h \in Handlers, Answered(h) PROVE Addressed'
  BY <1>2 DEF Answered, Set, Addressed, TypeOK, NoRequest, LicenseOps
<1>3. ASSUME NEW h \in Handlers, Arrive(h) PROVE Addressed'
  BY <1>3, ArriveTarget DEF OnlyRequest, Addressed, TypeOK, LicenseOps
<1>4. CASE Crash
  BY <1>4 DEF Crash, Addressed, NoRequest, LicenseOps
<1>5. CASE UNCHANGED req
  BY <1>5 DEF Addressed
<1> QED
  BY <1>1, <1>2, <1>3, <1>4, <1>5 DEF Next, Step, RotateKey, IssueCode, RevokeCode, vars

\* The active licenses of a code are finitely many.
LEMMA ActiveFinite ==
    ASSUME NEW c \in Codes
    PROVE  IsFiniteSet(Active(c)) /\ Cardinality(Active(c)) \in Nat
<1>1. Active(c) \subseteq Licenses
  BY DEF Active, LicensesOf
<1> QED
  BY <1>1, LicensesAssumption, FS_Subset, FS_CardinalityType

\* An activation that commits takes one slot and makes one license active.
LEMMA TakenSlot ==
    ASSUME SlotInv, NEW l \in Licenses, NEW c \in Codes, c = CodeOf[l],
           SlotFree(c), TripleFree(l),
           used' = [used EXCEPT ![c] = @ + 1], status' = [status EXCEPT ![l] = "ACTIVE"]
    PROVE  SlotsNeverOversold' /\ SlotsNeverLost'
<1>1. used \in [Codes -> Int] /\ status \in [Licenses -> Statuses] /\ Max \in [Codes -> Nat]
  BY CodesAssumption DEF SlotInv, TypeOK
<1>2. SlotsNeverOversold'
  BY <1>1 DEF SlotInv, SlotsNeverOversold, SlotFree
<1>3. ASSUME NEW d \in Codes PROVE used'[d] <= Cardinality(Active(d)')
  <2>1. CASE d = c
    <3>1. l \notin Active(c) /\ Active(c)' = Active(c) \cup {l}
      BY <1>1 DEF Active, LicensesOf, TripleFree
    <3>2. Cardinality(Active(c)') = Cardinality(Active(c)) + 1
      BY <3>1, ActiveFinite, FS_AddElement
    <3>3. used[c] <= Cardinality(Active(c)) /\ used'[c] = used[c] + 1
      BY <1>1 DEF SlotInv, SlotsNeverLost
    <3> QED
      BY <1>1, <2>1, <3>2, <3>3, ActiveFinite
  <2>2. CASE d # c
    <3>1. Active(d)' = Active(d) /\ used'[d] = used[d]
      BY <1>1, <2>2 DEF Active, LicensesOf
    <3> QED
      BY <3>1 DEF SlotInv, SlotsNeverLost
  <2> QED
    BY <2>1, <2>2
<1> QED
  BY <1>2, <1>3 DEF SlotsNeverLost

\* A release gives one slot back, and takes one license out of the active ones
\* unless another release has.
LEMMA ReleasedSlot ==
    ASSUME SlotInv, NEW l \in Licenses, NEW c \in Codes, c = CodeOf[l],
           used' = [used EXCEPT ![c] = @ - 1], status' = [status EXCEPT ![l] = "REVOKED"]
    PROVE  SlotsNeverOversold' /\ SlotsNeverLost'
<1>1. used \in [Codes -> Int] /\ status \in [Licenses -> Statuses] /\ Max \in [Codes -> Nat]
  BY CodesAssumption DEF SlotInv, TypeOK
<1>2. SlotsNeverOversold'
  BY <1>1 DEF SlotInv, SlotsNeverOversold
<1>3. ASSUME NEW d \in Codes PROVE used'[d] <= Cardinality(Active(d)')
  <2>1. CASE d = c
    <3>1. Active(c)' = Active(c) \ {l}
      BY <1>1 DEF Active, LicensesOf
    <3>2. /\ Cardinality(Active(c)') >= Cardinality(Active(c)) - 1
          /\ Cardinality(Active(c)') \in Nat
      <4>1. CASE l \in Active(c)
        <5>1. /\ IsFiniteSet(Active(c) \ {l})
              /\ Cardinality(Active(c) \ {l}) = Cardinality(Active(c)) - 1
          BY <4>1, ActiveFinite, FS_RemoveElement
        <5> QED
          BY <3>1, <5>1, ActiveFinite, FS_CardinalityType
      <4>2. CASE l \notin Active(c)
        <5>1. Active(c)' = Active(c)
          BY <3>1, <4>2
        <5> QED
          BY <5>1, ActiveFinite
      <4> QED
        BY <4>1, <4>2
    <3>3. used[c] <= Cardinality(Active(c)) /\ used'[c] = used[c] - 1
      BY <1>1 DEF SlotInv, SlotsNeverLost
    <3> QED
      BY <1>1, <2>1, <3>2, <3>3, ActiveFinite
  <2>2. CASE d # c
    <3>1. Active(d)' = Active(d) /\ used'[d] = used[d]
      BY <1>1, <2>2 DEF Active, LicensesOf
    <3> QED
      BY <3>1 DEF SlotInv, SlotsNeverLost
  <2> QED
    BY <2>1, <2>2
<1> QED
  BY <1>2, <1>3 DEF SlotsNeverLost

\* The other steps touch neither the counter nor the status of a license.
LEMMA OtherStepsKeepSlots ==
    ASSUME [Next]_vars,
           \A h \in Handlers : ~ActivateTx(h) /\ ~DeactivateTx(h) /\ ~RevokeTx(h)
    PROVE  UNCHANGED <<used, status>>
<1>1. ASSUME NEW h \in Handlers, Arrive(h) PROVE UNCHANGED <<used, status>>
  BY <1>1 DEF Arrive, ActivateProduct, VerifyLicense, DeactivateLicense, RevokeLicense,
     ReleaseLicense, Lookup, CreateProduct, tables
<1>2. ASSUME NEW h \in Handlers, Continue(h) PROVE UNCHANGED <<used, status>>
  BY <1>2 DEF Continue, ActivateCode, ActivateLicense, ActivateSign, VerifySign, Sign,
     VerifyTouch, CreateFirstKey, Answered, tables
<1> QED
  BY <1>1, <1>2 DEF Next, Step, RotateKey, IssueCode, RevokeCode, Crash, tables, vars

\* The slot invariant is inductive.
LEMMA SlotStep == SlotInv /\ [Next]_vars => SlotInv'
<1> SUFFICES ASSUME SlotInv, [Next]_vars PROVE SlotInv'
  OBVIOUS
<1>1. TypeOK' /\ Addressed'
  BY TypeStep, AddressedStep DEF SlotInv
<1>2. ASSUME NEW h \in Handlers, req[h].op \in LicenseOps
      PROVE  req[h].lic \in Licenses /\ CodeOf[req[h].lic] \in Codes
  BY <1>2, LicensesAssumption DEF SlotInv, Addressed
<1>3. ASSUME UNCHANGED <<used, status>> PROVE SlotsNeverOversold' /\ SlotsNeverLost'
  BY <1>3 DEF SlotInv, SlotsNeverOversold, SlotsNeverLost, Active, LicensesOf
<1>4. ASSUME NEW h \in Handlers, ActivateTx(h) PROVE SlotsNeverOversold' /\ SlotsNeverLost'
  <2> DEFINE l == req[h].lic
  <2>1. l \in Licenses /\ CodeOf[l] \in Codes
    BY <1>2, <1>4 DEF ActivateTx, At, LicenseOps
  <2>2. CASE UNCHANGED <<used, status>>
    BY <1>3, <2>2
  <2>3. CASE /\ SlotFree(CodeOf[l]) /\ TripleFree(l)
             /\ used' = [used EXCEPT ![CodeOf[l]] = @ + 1]
             /\ status' = [status EXCEPT ![l] = "ACTIVE"]
    <3> HIDE DEF l
    <3> QED
      BY <2>1, <2>3, TakenSlot
  <2> QED
    BY <1>4, <2>2, <2>3 DEF ActivateTx, RolledBack
<1>5. ASSUME NEW h \in Handlers, DeactivateTx(h) \/ RevokeTx(h)
      PROVE  SlotsNeverOversold' /\ SlotsNeverLost'
  <2> DEFINE l == req[h].lic
  <2>1. /\ l \in Licenses /\ CodeOf[l] \in Codes
        /\ used' = [used EXCEPT ![CodeOf[l]] = @ - 1]
        /\ status' = [status EXCEPT ![l] = "REVOKED"]
    BY <1>2, <1>5 DEF DeactivateTx, RevokeTx, ReleaseTx, At, LicenseOps
  <2> HIDE DEF l
  <2> QED
    BY <2>1, ReleasedSlot
<1>6. SlotsNeverOversold' /\ SlotsNeverLost'
  BY <1>3, <1>4, <1>5, OtherStepsKeepSlots
<1> QED
  BY <1>1, <1>6 DEF SlotInv

\* Initially every counter is zero.
LEMMA SlotInit == Init => SlotInv
<1> SUFFICES ASSUME Init PROVE SlotInv
  OBVIOUS
<1>1. TypeOK
  BY NoRequestType DEF Init, TypeOK, Statuses, Reasons
<1>2. Addressed
  BY DEF Init, Addressed, NoRequest, LicenseOps
<1>3. SlotsNeverOversold
  BY CodesAssumption DEF Init, SlotsNeverOversold
<1>4. SlotsNeverLost
  BY ActiveFinite DEF Init, SlotsNeverLost
<1> QED
  BY <1>1, <1>2, <1>3, <1>4 DEF SlotInv

\* However many activations race for the slots of a code, the check inside the
\* transaction keeps the counter within maxActivations.
THEOREM NeverOversold == Spec => []SlotsNeverOversold
BY SlotInit, SlotStep, PTL DEF Spec, SlotInv

\* No interleaving, crash, rollback or reissue leaves a slot taken with no
\* active license to show for it.
THEOREM NeverLost == Spec => []SlotsNeverLost
BY SlotInit, SlotStep, PTL DEF Spec, SlotInv

\* A revoked license stays revoked and no row disappears.
THEOREM RevocationIsFinal == Spec => RevokedForever
<1>1. SlotInv /\ [Next]_vars => [RevocationKept]_vars
  <2> SUFFICES ASSUME SlotInv, [Next]_vars PROVE RevocationKept
    OBVIOUS
  <2> status \in [Licenses -> Statuses]
    BY DEF SlotInv, TypeOK
  <2>1. ASSUME NEW h \in Handlers, ActivateTx(h) PROVE RevocationKept
    BY <2>1 DEF ActivateTx, RolledBack, TripleFree, RevocationKept
  <2>2. ASSUME NEW h \in Handlers, NEW op, NEW who, ReleaseTx(h, op, who) PROVE RevocationKept
    BY <2>2 DEF ReleaseTx, RevocationKept
  <2>3. CASE \A h \in Handlers : ~ActivateTx(h) /\ ~DeactivateTx(h) /\ ~RevokeTx(h)
    BY <2>3, OtherStepsKeepSlots DEF RevocationKept
  <2> QED
    BY <2>1, <2>2, <2>3 DEF DeactivateTx, RevokeTx
<1> QED
  BY <1>1, SlotInit, SlotStep, PTL DEF Spec, RevokedForever

-----------------------------------------------------------------------------
(* Requests                                                                *)

(***************************************************************************)
(* What a request in flight may rely on.  Everything it has read may be    *)
(* out of date, in one direction only: a license it saw may have been      *)
(* revoked since, and nothing is ever taken back that its answer says.     *)
(***************************************************************************)

\* A request that is served has a target.
HasTarget(q) ==
    q.pc # "idle" => IF q.op = "create" THEN q.sku \in Products
                                        ELSE q.op \in LicenseOps /\ q.lic \in Licenses

\* One that found its license revoked sees no other status of it.
FoundRevoked(q) ==
    q.wasRevoked => /\ q.lic \in Licenses /\ status[q.lic] = "REVOKED"
                    /\ q.snap # "ACTIVE" /\ q.proof # "ACTIVE"
                    /\ q.op = "activate" => /\ q.pc \in {"code", "license", "done"}
                                            /\ q.result # "OK"

\* One that found its code revoked gets no further than the code.
FoundCodeRevoked(q) ==
    q.codeWasRevoked /\ q.op = "activate" =>
      /\ q.lic \in Licenses /\ codeRevoked[CodeOf[q.lic]]
      /\ q.pc = "code" \/ (q.pc = "done" /\ q.result \in Refusals)

\* The status it read is right or the license has been revoked since.
ReadBefore(q) ==
    q.snap # "NONE" => q.lic \in Licenses /\ status[q.lic] \in {q.snap, "REVOKED"}

\* So is the one in its proof, and the product can sign.
SignedBefore(q) ==
    q.proof # "NONE" => /\ q.lic \in Licenses
                        /\ status[q.lic] \in {q.proof, "REVOKED"}
                        /\ product[ProductOf[CodeOf[q.lic]]] = "KEYED"

\* Its result comes last, and when it signs it has a license.
AnswersLast(q) ==
    /\ q.result # "none" => q.pc = "done"
    /\ q.op = "activate" /\ q.pc = "sign" => q.snap # "NONE"

\* Its answer is backed by the rows it is about.
Durable(q) ==
    q.pc = "done" /\ q.result = "OK" =>
      /\ q.op \in {"deactivate", "revoke"} => status[q.lic] = "REVOKED"
      /\ q.op = "activate" => status[q.lic] # "NONE"
      /\ q.op = "verify" => seen[q.lic]
      /\ q.op = "create" => product[q.sku] = "KEYED"

Sound(q) == /\ HasTarget(q) /\ FoundRevoked(q) /\ FoundCodeRevoked(q) /\ ReadBefore(q)
            /\ SignedBefore(q) /\ AnswersLast(q) /\ Durable(q)

RequestInv == TypeOK /\ \A h \in Handlers : Sound(req[h])

\* The rows only go on: nothing that is revoked, keyed or seen is taken back.
RowsGoOn ==
    /\ RevocationKept
    /\ \A c \in Codes : codeRevoked[c] => codeRevoked'[c]
    /\ \A p \in Products : product[p] = "KEYED" => product'[p] = "KEYED"
    /\ \A l \in Licenses : seen[l] => seen'[l]

\* A step that revives no license and unkeys no product keeps the rows going.
LEMMA RowsStep == TypeOK /\ [Next]_vars => RowsGoOn
<1> SUFFICES ASSUME TypeOK, [Next]_vars PROVE RowsGoOn
  OBVIOUS
<1> /\ product \in [Products -> {"NONE", "KEYLESS", "KEYED"}]
    /\ codeRevoked \in [Codes -> BOOLEAN] /\ seen \in [Licenses -> BOOLEAN]
    /\ status \in [Licenses -> Statuses]
  BY DEF TypeOK
<1>1. ASSUME UNCHANGED tables PROVE RowsGoOn
  BY <1>1 DEF tables, RowsGoOn, RevocationKept
<1>2. ASSUME NEW h \in Handlers, Arrive(h) PROVE RowsGoOn
  <2>1. CASE \E p \in Products : CreateProduct(h, p)
    BY <2>1 DEF CreateProduct, RowsGoOn, RevocationKept
  <2> QED
    BY <1>1, <1>2, <2>1 DEF Arrive, ActivateProduct, VerifyLicense, DeactivateLicense,
       RevokeLicense, ReleaseLicense, Lookup
<1>3. ASSUME NEW h \in Handlers, Continue(h) PROVE RowsGoOn
  <2>1. CASE ActivateTx(h)
    BY <2>1 DEF ActivateTx, RolledBack, TripleFree, RowsGoOn, RevocationKept
  <2>2. CASE DeactivateTx(h) \/ RevokeTx(h)
    BY <2>2 DEF DeactivateTx, RevokeTx, ReleaseTx, RowsGoOn, RevocationKept
  <2>3. CASE VerifyTouch(h) \/ CreateFirstKey(h)
    BY <2>3 DEF VerifyTouch, CreateFirstKey, RowsGoOn, RevocationKept
  <2> QED
    BY <1>1, <1>3, <2>1, <2>2, <2>3
       DEF Continue, ActivateCode, ActivateLicense, ActivateSign, VerifySign, Sign, Answered
<1>4. ASSUME NEW p \in Products, RotateKey(p) PROVE RowsGoOn
  BY <1>4 DEF RotateKey, RowsGoOn, RevocationKept
<1>5. ASSUME NEW c \in Codes, IssueCode(c) \/ RevokeCode(c) PROVE RowsGoOn
  BY <1>5 DEF IssueCode, RevokeCode, RowsGoOn, RevocationKept
<1>6. CASE Crash \/ UNCHANGED vars
  BY <1>1, <1>6 DEF Crash, vars, tables
<1> QED
  BY <1>2, <1>3, <1>4, <1>5, <1>6 DEF Next, Step

\* A request that waits stays sound while others change the rows.
LEMMA SoundWaits ==
    ASSUME TypeOK, RowsGoOn, TypeOK', NEW q \in Request, Sound(q)
    PROVE  Sound(q)'
<1>1. /\ CodeOf \in [Licenses -> Codes] /\ ProductOf \in [Codes -> Products]
      /\ status' \in [Licenses -> Statuses]
  BY LicensesAssumption, CodesAssumption DEF TypeOK
<1>2. HasTarget(q)' /\ FoundRevoked(q)' /\ FoundCodeRevoked(q)'
  BY <1>1 DEF Sound, HasTarget, FoundRevoked, FoundCodeRevoked, RowsGoOn, RevocationKept
<1>3. ReadBefore(q)' /\ SignedBefore(q)'
  BY <1>1 DEF Sound, ReadBefore, SignedBefore, RowsGoOn, RevocationKept, Statuses, Request
<1>4. AnswersLast(q)' /\ Durable(q)'
  BY <1>1 DEF Sound, HasTarget, AnswersLast, Durable, RowsGoOn, RevocationKept, LicenseOps
<1> QED
  BY <1>2, <1>3, <1>4 DEF Sound

\* The license a request has found is copied into it with what is revoked.
LEMMA ArrivedFields ==
    ASSUME NEW op, NEW l, NEW pc, NEW result
    PROVE  LET r == Arrived(op, l, pc, result) IN
           /\ r.op = op /\ r.lic = l /\ r.pc = pc /\ r.result = result
           /\ r.snap = "NONE" /\ r.proof = "NONE" /\ r.sku = NoProduct
           /\ r.wasRevoked = (status[l] = "REVOKED")
           /\ r.codeWasRevoked = codeRevoked[CodeOf[l]]
BY DEF Arrived, NoRequest

\* One request is replaced by another that is sound after the step.
LEMMA SoundSet ==
    ASSUME RequestInv, RowsGoOn, TypeOK', NEW h \in Handlers, NEW r, Set(h, r), Sound(r)'
    PROVE  RequestInv'
<1>1. ASSUME NEW g \in Handlers PROVE Sound(req[g])'
  <2>1. PICK q : q = req'[g]
    OBVIOUS
  <2>2. Sound(q)'
    <3>1. CASE g = h
      <4>1. q = r
        BY <2>1, <3>1 DEF Set, RequestInv, TypeOK
      <4> QED
        BY <4>1
    <3>2. CASE g # h
      <4>1. q = req[g] /\ q \in Request /\ Sound(req[g])
        BY <2>1, <3>2 DEF Set, RequestInv, TypeOK
      <4>2. Sound(q)
        BY <4>1 DEF Sound, HasTarget, FoundRevoked, FoundCodeRevoked, ReadBefore,
           SignedBefore, AnswersLast, Durable
      <4> QED
        BY <4>1, <4>2, SoundWaits DEF RequestInv
    <3> QED
      BY <3>1, <3>2
  <2> QED
    BY <2>1, <2>2 DEF Sound, HasTarget, FoundRevoked, FoundCodeRevoked, ReadBefore,
       SignedBefore, AnswersLast, Durable
<1> QED
  BY <1>1 DEF RequestInv

\* A look-up that leaves the tables alone: what it found is still so.
LEMMA LookupSound ==
    ASSUME RequestInv, TypeOK', NEW h \in Handlers, NEW l \in Licenses,
           NEW match \in BOOLEAN, NEW op \in {"verify", "deactivate", "revoke"},
           NEW pc \in {"sign", "tx", "done"}, NEW result \in {"none", "OK"},
           result = "OK" => pc = "done" /\ op # "verify" /\ status[l] = "REVOKED",
           pc = "sign" => op = "verify", Lookup(h, op, l, match, pc, result), RowsGoOn
    PROVE  RequestInv'
<1>1. UNCHANGED tables
  BY DEF Lookup
<1>2. status[l] \in Statuses
  BY DEF RequestInv, TypeOK
<1>3. ASSUME NEW res \in {"NOT_FOUND", "FINGERPRINT_MISMATCH"},
             Set(h, Arrived(op, l, "done", res))
      PROVE  RequestInv'
  <2>0. PICK r : r = Arrived(op, l, "done", res)
    OBVIOUS
  <2>1. /\ r.op = op /\ r.lic = l /\ r.pc = "done" /\ r.result = res
        /\ r.snap = "NONE" /\ r.proof = "NONE"
        /\ r.wasRevoked = (status[l] = "REVOKED")
    BY <2>0, ArrivedFields
  <2>2. Sound(r)'
    BY <1>1, <2>1 DEF Sound, HasTarget, FoundRevoked, FoundCodeRevoked, ReadBefore,
       SignedBefore, AnswersLast, Durable, tables, LicenseOps
  <2> QED
    BY <1>3, <2>0, <2>2, SoundSet
<1>4. CASE Set(h, [Arrived(op, l, pc, result) EXCEPT !.snap = status[l]]) /\ status[l] # "NONE"
  <2>0. PICK r : r = [Arrived(op, l, pc, result) EXCEPT !.snap = status[l]]
    OBVIOUS
  <2>1. /\ r.op = op /\ r.lic = l /\ r.pc = pc /\ r.result = result
        /\ r.snap = status[l] /\ r.proof = "NONE"
        /\ r.wasRevoked = (status[l] = "REVOKED")
    BY <2>0 DEF Arrived, NoRequest
  <2>2. Sound(r)'
    BY <1>1, <1>2, <1>4, <2>1 DEF Sound, HasTarget, FoundRevoked, FoundCodeRevoked,
       ReadBefore, SignedBefore, AnswersLast, Durable, tables, LicenseOps, Refusals, Statuses
  <2> QED
    BY <1>4, <2>0, <2>2, SoundSet
<1> QED
  BY <1>3, <1>4 DEF Lookup

\* A request that is served reads, signs or is refused, and nothing is written.
LEMMA SignSound ==
    ASSUME RequestInv, TypeOK', RowsGoOn, NEW h \in Handlers,
           NEW op \in {"activate", "verify"}, NEW pc \in {"done", "touch"},
           NEW result \in {"none", "OK"}, result = "OK" => pc = "done" /\ op = "activate",
           Sign(h, op, pc, result)
    PROVE  RequestInv'
<1> DEFINE q == req[h]
<1>1. q \in Request /\ Sound(q) /\ UNCHANGED tables /\ q.op = op /\ q.pc = "sign"
  BY DEF RequestInv, TypeOK, Sign, At
<1> HIDE DEF q
<1>2. q.lic \in Licenses /\ (op = "activate" => ~q.codeWasRevoked)
  BY <1>1 DEF Sound, HasTarget, FoundCodeRevoked
<1>3. CASE Set(h, [q EXCEPT !.pc = "done", !.result = "NO_SIGNING_KEY"])
  <2>0. PICK r : r = [q EXCEPT !.pc = "done", !.result = "NO_SIGNING_KEY"]
    OBVIOUS
  <2>1. /\ r.pc = "done" /\ r.result = "NO_SIGNING_KEY" /\ r.op = q.op /\ r.lic = q.lic
        /\ r.snap = q.snap /\ r.proof = q.proof /\ r.wasRevoked = q.wasRevoked
        /\ r.codeWasRevoked = q.codeWasRevoked
    BY <1>1, <2>0 DEF Request
  <2>2. Sound(r)'
    BY <1>1, <1>2, <2>1 DEF Sound, HasTarget, FoundRevoked, FoundCodeRevoked,
       ReadBefore, SignedBefore, AnswersLast, Durable, tables, LicenseOps, Refusals
  <2> QED
    BY <1>3, <2>0, <2>2, SoundSet
<1>4. CASE /\ product[ProductOf[CodeOf[q.lic]]] = "KEYED"
           /\ Set(h, [q EXCEPT !.pc = pc, !.result = result, !.proof = q.snap])
  <2>0. PICK r : r = [q EXCEPT !.pc = pc, !.result = result, !.proof = q.snap]
    OBVIOUS
  <2>1. /\ r.pc = pc /\ r.result = result /\ r.op = q.op /\ r.lic = q.lic
        /\ r.snap = q.snap /\ r.proof = q.snap /\ r.wasRevoked = q.wasRevoked
        /\ r.codeWasRevoked = q.codeWasRevoked
    BY <1>1, <2>0 DEF Request
  <2>2. q.snap \in Statuses /\ (op = "activate" => status[q.lic] # "NONE")
    BY <1>1 DEF Request, Sound, AnswersLast, ReadBefore, Statuses
  <2>3. Sound(r)'
    BY <1>1, <1>2, <1>4, <2>1, <2>2 DEF Sound, HasTarget, FoundRevoked, FoundCodeRevoked,
       ReadBefore, SignedBefore, AnswersLast, Durable, tables, LicenseOps, Refusals, Statuses
  <2> QED
    BY <1>4, <2>0, <2>3, SoundSet
<1> QED
  BY <1>3, <1>4 DEF Sign, Finish, HasActiveKey, ProductOfRequest, q

\* A refusal before the transaction has written.
LEMMA RefuseSound ==
    ASSUME RequestInv, TypeOK', RowsGoOn, NEW h \in Handlers, NEW result \in Refusals,
           req[h].pc \in {"code", "license", "tx"}, Finish(h, result)
    PROVE  RequestInv'
<1>1. /\ req[h] \in Request /\ Sound(req[h]) /\ TypeOK
      /\ CodeOf \in [Licenses -> Codes] /\ ProductOf \in [Codes -> Products]
  BY LicensesAssumption, CodesAssumption DEF RequestInv, TypeOK
<1>2. PICK q : q = req[h]
  OBVIOUS
<1>3. q \in Request /\ Sound(q) /\ q.pc \in {"code", "license", "tx"}
  BY <1>1, <1>2 DEF Sound, HasTarget, FoundRevoked, FoundCodeRevoked,
     ReadBefore, SignedBefore, AnswersLast, Durable
<1>4. Sound(q)'
  BY <1>1, <1>3, SoundWaits DEF Sound, AnswersLast
<1>5. PICK r : r = [q EXCEPT !.pc = "done", !.result = result]
  OBVIOUS
<1>6. /\ r.pc = "done" /\ r.result = result /\ r.op = q.op /\ r.lic = q.lic /\ r.sku = q.sku
      /\ r.snap = q.snap /\ r.proof = q.proof /\ r.wasRevoked = q.wasRevoked
      /\ r.codeWasRevoked = q.codeWasRevoked
  BY <1>3, <1>5 DEF Request
<1>7. Sound(r)'
  BY <1>3, <1>4, <1>6 DEF Sound, HasTarget, FoundRevoked, FoundCodeRevoked,
     ReadBefore, SignedBefore, AnswersLast, Durable, Refusals
<1> QED
  BY <1>2, <1>5, <1>7, SoundSet DEF Finish

\* The steps of an activation before it signs.
LEMMA ActivateSound ==
    ASSUME RequestInv, TypeOK', RowsGoOn, NEW h \in Handlers,
           ActivateCode(h) \/ ActivateLicense(h) \/ ActivateTx(h)
    PROVE  RequestInv'
<1>1. PICK q : q = req[h]
  OBVIOUS
<1>2. /\ q \in Request /\ Sound(q) /\ q.op = "activate"
      /\ q.pc \in {"code", "license", "tx"}
  BY <1>1 DEF RequestInv, TypeOK, ActivateCode, ActivateLicense, ActivateTx, At, Sound,
     HasTarget, FoundRevoked, FoundCodeRevoked, ReadBefore, SignedBefore, AnswersLast, Durable
<1>3. Sound(q)' /\ q.lic \in Licenses /\ q.result = "none"
  BY <1>2, SoundWaits DEF RequestInv, Sound, AnswersLast, HasTarget
<1>4. status \in [Licenses -> Statuses] /\ CodeOf \in [Licenses -> Codes]
  BY LicensesAssumption DEF RequestInv, TypeOK
<1>5. CASE \E result \in Refusals : Finish(h, result)
  BY <1>1, <1>2, <1>5, RefuseSound
<1>6. CASE /\ q.pc = "code" /\ ~codeRevoked[CodeOf[q.lic]] /\ UNCHANGED tables
           /\ \E v : Set(h, [q EXCEPT !.pc = "license", !.full = v])
  <2>1. PICK v : Set(h, [q EXCEPT !.pc = "license", !.full = v])
    BY <1>6
  <2>2. PICK r : r = [q EXCEPT !.pc = "license", !.full = v]
    OBVIOUS
  <2>3. /\ r.pc = "license" /\ r.result = q.result /\ r.op = q.op /\ r.lic = q.lic
        /\ r.snap = q.snap /\ r.proof = q.proof /\ r.wasRevoked = q.wasRevoked
        /\ r.codeWasRevoked = q.codeWasRevoked
    BY <1>2, <2>2 DEF Request
  <2>4. Sound(r)'
    BY <1>2, <1>3, <1>6, <2>3 DEF Sound, HasTarget, FoundRevoked, FoundCodeRevoked,
       ReadBefore, SignedBefore, AnswersLast, Durable, Refusals, tables
  <2> QED
    BY <2>1, <2>2, <2>4, SoundSet
<1>7. CASE /\ q.pc = "license" /\ status[q.lic] = "NONE" /\ UNCHANGED tables
           /\ Set(h, [q EXCEPT !.pc = "tx"])
  <2>1. PICK r : r = [q EXCEPT !.pc = "tx"]
    OBVIOUS
  <2>2. /\ r.pc = "tx" /\ r.result = q.result /\ r.op = q.op /\ r.lic = q.lic
        /\ r.snap = q.snap /\ r.proof = q.proof /\ r.wasRevoked = q.wasRevoked
        /\ r.codeWasRevoked = q.codeWasRevoked
    BY <1>2, <2>1 DEF Request
  <2>3. Sound(r)'
    BY <1>2, <1>3, <1>7, <2>2 DEF Sound, HasTarget, FoundRevoked, FoundCodeRevoked,
       ReadBefore, SignedBefore, AnswersLast, Durable, Refusals, tables
  <2> QED
    BY <1>7, <2>1, <2>3, SoundSet
<1>8. ASSUME q.pc \in {"license", "tx"},
             status[q.lic] # "REVOKED", status'[q.lic] = "ACTIVE",
             Set(h, [q EXCEPT !.pc = "sign", !.snap = "ACTIVE"])
      PROVE  RequestInv'
  <2>1. PICK r : r = [q EXCEPT !.pc = "sign", !.snap = "ACTIVE"]
    OBVIOUS
  <2>2. /\ r.pc = "sign" /\ r.result = q.result /\ r.op = q.op /\ r.lic = q.lic
        /\ r.snap = "ACTIVE" /\ r.proof = q.proof /\ r.wasRevoked = q.wasRevoked
        /\ r.codeWasRevoked = q.codeWasRevoked
    BY <1>2, <2>1 DEF Request
  <2>3. ~q.wasRevoked /\ ~q.codeWasRevoked
    BY <1>2, <1>8 DEF Sound, FoundRevoked, FoundCodeRevoked
  <2>4. Sound(r)'
    BY <1>2, <1>3, <1>8, <2>2, <2>3 DEF Sound, HasTarget, FoundRevoked, FoundCodeRevoked,
       ReadBefore, SignedBefore, AnswersLast, Durable, Refusals
  <2> QED
    BY <1>8, <2>1, <2>4, SoundSet
<1>9. CASE ActivateCode(h)
  <2>1. {"INVALID_CODE", "CODE_REVOKED"} \subseteq Refusals
    BY DEF Refusals
  <2> QED
    BY <1>1, <1>5, <1>6, <1>9, <2>1 DEF ActivateCode, At
<1>10. CASE ActivateLicense(h)
  <2>1. {"LICENSE_REVOKED", "LIMIT"} \subseteq Refusals
    BY DEF Refusals
  <2>2. CASE Reissues(q.lic) /\ Set(h, [q EXCEPT !.pc = "sign", !.snap = status[q.lic]])
    <3>1. status[q.lic] = "ACTIVE" /\ status'[q.lic] = "ACTIVE" /\ q.pc = "license"
      BY <1>1, <1>10, <2>2 DEF ActivateLicense, Reissues, tables, At
    <3> QED
      BY <1>8, <2>2, <3>1
  <2> QED
    BY <1>1, <1>5, <1>7, <1>10, <2>1, <2>2 DEF ActivateLicense, At, GoTo
<1>11. CASE ActivateTx(h)
  <2>1. {"UNIQUE_VIOLATION", "LIMIT"} \subseteq Refusals
    BY DEF Refusals
  <2>2. CASE /\ TripleFree(q.lic) /\ status' = [status EXCEPT ![q.lic] = "ACTIVE"]
             /\ Set(h, [q EXCEPT !.pc = "sign", !.snap = "ACTIVE"])
    <3>1. status[q.lic] # "REVOKED" /\ status'[q.lic] = "ACTIVE" /\ q.pc = "tx"
      BY <1>1, <1>3, <1>4, <1>11, <2>2 DEF ActivateTx, TripleFree, At
    <3> QED
      BY <1>8, <2>2, <3>1
  <2> QED
    BY <1>1, <1>5, <1>11, <2>1, <2>2 DEF ActivateTx, At
<1> QED
  BY <1>9, <1>10, <1>11

\* The last step of a verification, a release or a product's creation.
LEMMA LastSound ==
    ASSUME RequestInv, TypeOK', RowsGoOn, NEW h \in Handlers,
           VerifyTouch(h) \/ DeactivateTx(h) \/ RevokeTx(h) \/ CreateFirstKey(h)
    PROVE  RequestInv'
<1>1. PICK q : q = req[h]
  OBVIOUS
<1>2. /\ q \in Request /\ Sound(q) /\ q.op \in {"verify", "deactivate", "revoke", "create"}
      /\ q.pc \in {"touch", "tx", "key"}
  BY <1>1 DEF RequestInv, TypeOK, VerifyTouch, DeactivateTx, RevokeTx, ReleaseTx,
     CreateFirstKey, At, Sound, HasTarget, FoundRevoked, FoundCodeRevoked, ReadBefore,
     SignedBefore, AnswersLast, Durable
<1>3. /\ Sound(q)'
      /\ IF q.op = "create" THEN q.sku \in Products ELSE q.lic \in Licenses
  BY <1>2, SoundWaits DEF RequestInv, Sound, HasTarget
<1>4. /\ q.op = "verify" => seen'[q.lic]
      /\ q.op \in {"deactivate", "revoke"} => status'[q.lic] = "REVOKED"
      /\ q.op = "create" => product'[q.sku] = "KEYED"
  BY <1>1, <1>3 DEF RequestInv, TypeOK, VerifyTouch, DeactivateTx, RevokeTx, ReleaseTx,
     CreateFirstKey, At
<1>5. Set(h, [q EXCEPT !.pc = "done", !.result = "OK"])
  BY <1>1 DEF VerifyTouch, DeactivateTx, RevokeTx, ReleaseTx, CreateFirstKey, Finish
<1>6. PICK r : r = [q EXCEPT !.pc = "done", !.result = "OK"]
  OBVIOUS
<1>7. /\ r.pc = "done" /\ r.result = "OK" /\ r.op = q.op /\ r.lic = q.lic /\ r.sku = q.sku
      /\ r.snap = q.snap /\ r.proof = q.proof /\ r.wasRevoked = q.wasRevoked
      /\ r.codeWasRevoked = q.codeWasRevoked
  BY <1>2, <1>6 DEF Request
<1>8. Sound(r)'
  BY <1>2, <1>3, <1>4, <1>7 DEF Sound, HasTarget, FoundRevoked, FoundCodeRevoked,
     ReadBefore, SignedBefore, AnswersLast, Durable, Refusals
<1> QED
  BY <1>5, <1>6, <1>8, SoundSet

\* A request that arrives is sound.
LEMMA ArriveSound ==
    ASSUME RequestInv, TypeOK', RowsGoOn, NEW h \in Handlers, Arrive(h)
    PROVE  RequestInv'
<1>1. ASSUME NEW l \in Licenses, NEW p \in Products, ActivateProduct(h, p, l)
      PROVE  RequestInv'
  <2>1. PICK pc \in {"code", "done"}, result \in {"none", "PRODUCT_NOT_FOUND"} :
          /\ Set(h, [Arrived("activate", l, pc, result) EXCEPT !.sku = p])
          /\ result = "none" <=> pc = "code"
    BY <1>1 DEF ActivateProduct
  <2>2. PICK r : r = [Arrived("activate", l, pc, result) EXCEPT !.sku = p]
    OBVIOUS
  <2>3. /\ r.op = "activate" /\ r.lic = l /\ r.pc = pc /\ r.result = result
        /\ r.snap = "NONE" /\ r.proof = "NONE"
        /\ r.wasRevoked = (status[l] = "REVOKED")
        /\ r.codeWasRevoked = codeRevoked[CodeOf[l]]
    BY <2>2 DEF Arrived, NoRequest
  <2>4. Sound(r)'
    BY <1>1, <2>1, <2>3 DEF Sound, HasTarget, FoundRevoked, FoundCodeRevoked, ReadBefore,
       SignedBefore, AnswersLast, Durable, ActivateProduct, tables, LicenseOps, Refusals
  <2> QED
    BY <2>1, <2>2, <2>4, SoundSet
<1>2. ASSUME NEW l \in Licenses, NEW match \in BOOLEAN, VerifyLicense(h, l, match)
      PROVE  RequestInv'
  BY <1>2, LookupSound DEF VerifyLicense
<1>3. ASSUME NEW l \in Licenses, NEW match \in BOOLEAN, NEW op \in {"deactivate", "revoke"},
             ReleaseLicense(h, op, l, match)
      PROVE  RequestInv'
  <2>1. CASE AlreadyReleased(l)
    <3>1. Lookup(h, op, l, match, "done", "OK") /\ status[l] = "REVOKED"
      BY <1>3, <2>1 DEF ReleaseLicense, AlreadyReleased
    <3> QED
      BY <3>1, LookupSound
  <2>2. CASE ~AlreadyReleased(l)
    <3>1. Lookup(h, op, l, match, "tx", "none")
      BY <1>3, <2>2 DEF ReleaseLicense
    <3> QED
      BY <3>1, LookupSound
  <2> QED
    BY <2>1, <2>2
<1>4. ASSUME NEW p \in Products, CreateProduct(h, p) PROVE RequestInv'
  <2> DEFINE arrived == [NoRequest EXCEPT !.op = "create", !.sku = p]
             Created(r) == /\ r.op = "create" /\ r.sku = p /\ r.pc \in {"done", "key"}
                           /\ r.snap = "NONE" /\ r.proof = "NONE"
                           /\ ~r.wasRevoked /\ ~r.codeWasRevoked
                           /\ IF r.pc = "done" THEN r.result = "SKU_TAKEN"
                                               ELSE r.result = "none"
  <2>1. /\ Created([arrived EXCEPT !.pc = "done", !.result = "SKU_TAKEN"])
        /\ Created([arrived EXCEPT !.pc = "key"])
    BY DEF NoRequest
  <2> HIDE DEF Created
  <2>2. PICK r : Set(h, r) /\ Created(r)
    BY <1>4, <2>1 DEF CreateProduct
  <2> USE DEF Created
  <2>4. Sound(r)'
    BY <2>2 DEF Sound, HasTarget, FoundRevoked, FoundCodeRevoked, ReadBefore,
       SignedBefore, AnswersLast, Durable, Refusals
  <2> QED
    BY <2>2, <2>4, SoundSet
<1> QED
  BY <1>1, <1>2, <1>3, <1>4 DEF Arrive, DeactivateLicense, RevokeLicense

\* The invariant of requests is inductive.
LEMMA RequestStep == RequestInv /\ [Next]_vars => RequestInv'
<1> SUFFICES ASSUME RequestInv, [Next]_vars PROVE RequestInv'
  OBVIOUS
<1>1. TypeOK' /\ RowsGoOn
  BY TypeStep, RowsStep DEF RequestInv
<1>2. ASSUME NEW h \in Handlers, Set(h, NoRequest) PROVE RequestInv'
  <2>1. PICK r : r = NoRequest
    OBVIOUS
  <2>2. Sound(r)'
    BY <2>1 DEF NoRequest, Sound, HasTarget, FoundRevoked, FoundCodeRevoked, ReadBefore,
       SignedBefore, AnswersLast, Durable, Refusals
  <2> QED
    BY <1>1, <1>2, <2>1, <2>2, SoundSet
<1>3. ASSUME NEW h \in Handlers, Arrive(h) PROVE RequestInv'
  BY <1>1, <1>3, ArriveSound
<1>4. ASSUME NEW h \in Handlers, Continue(h) PROVE RequestInv'
  <2>1. CASE ActivateCode(h) \/ ActivateLicense(h) \/ ActivateTx(h)
    BY <1>1, <2>1, ActivateSound
  <2>2. CASE ActivateSign(h) \/ VerifySign(h)
    BY <1>1, <2>2, SignSound DEF ActivateSign, VerifySign
  <2>3. CASE VerifyTouch(h) \/ DeactivateTx(h) \/ RevokeTx(h) \/ CreateFirstKey(h)
    BY <1>1, <2>3, LastSound
  <2>4. CASE Answered(h)
    BY <1>2, <2>4 DEF Answered
  <2> QED
    BY <1>4, <2>1, <2>2, <2>3, <2>4 DEF Continue
<1>5. CASE Crash
  <2>1. ASSUME NEW h \in Handlers PROVE Sound(req[h])'
    BY <1>5 DEF Crash, NoRequest, Sound, HasTarget, FoundRevoked, FoundCodeRevoked,
       ReadBefore, SignedBefore, AnswersLast, Durable, Refusals
  <2> QED
    BY <1>1, <2>1 DEF RequestInv
<1>6. CASE UNCHANGED req
  <2>1. ASSUME NEW h \in Handlers PROVE Sound(req[h])'
    <3>1. PICK q : q = req[h]
      OBVIOUS
    <3>2. q \in Request /\ Sound(q)
      BY <3>1 DEF RequestInv, TypeOK, Sound, HasTarget, FoundRevoked, FoundCodeRevoked,
         ReadBefore, SignedBefore, AnswersLast, Durable
    <3>3. Sound(q)'
      BY <1>1, <3>2, SoundWaits DEF RequestInv
    <3> QED
      BY <1>6, <3>1, <3>3 DEF Sound, HasTarget, FoundRevoked, FoundCodeRevoked, ReadBefore,
         SignedBefore, AnswersLast, Durable
  <2> QED
    BY <1>1, <2>1 DEF RequestInv
<1> QED
  BY <1>3, <1>4, <1>5, <1>6 DEF Next, Step, RotateKey, IssueCode, RevokeCode, vars

\* Every behaviour keeps its requests sound.
LEMMA RequestInvHolds == Spec => []RequestInv
<1>1. Init => RequestInv
  <2> SUFFICES ASSUME Init PROVE RequestInv
    OBVIOUS
  <2>1. TypeOK
    BY NoRequestType DEF Init, TypeOK, Statuses, Reasons
  <2>2. ASSUME NEW h \in Handlers PROVE Sound(req[h])
    BY DEF Init, NoRequest, Sound, HasTarget, FoundRevoked, FoundCodeRevoked, ReadBefore,
       SignedBefore, AnswersLast, Durable, Refusals
  <2> QED
    BY <2>1, <2>2 DEF RequestInv
<1> QED
  BY <1>1, RequestStep, PTL DEF Spec

(***************************************************************************)
(* What a request has written, as the tables before and after its steps    *)
(* show it: nothing before its last change, and nothing if it is refused.  *)
(***************************************************************************)
Activated(q) == /\ q.op = "activate" /\ q.pc \in {"sign", "done"} /\ q.snap # "NONE"
                /\ q.result \notin Refusals
OtherWritten(q) == /\ q.op # "activate" /\ q.pc \in {"key", "done"}
                   /\ q.result \in {"none", "OK"}
WritesLast(h) == wrote[h] => Activated(req[h]) \/ OtherWritten(req[h])

WriteInv == RequestInv /\ \A h \in Handlers : WritesLast(h)

\* A request that waits has written what it had written.
LEMMA WaitsWithoutWriting ==
    ASSUME NEW h \in Handlers, NoteWrites, UNCHANGED req[h], WritesLast(h)
    PROVE  WritesLast(h)'
BY DEF NoteWrites, Writes, WritesLast, Activated, OtherWritten

\* So has one whose step changes no table and does not refuse what was written.
LEMMA ReadsWithoutWriting ==
    ASSUME NEW h \in Handlers, NoteWrites, UNCHANGED tables, WritesLast(h),
           wrote[h] => Activated(req'[h]) \/ OtherWritten(req'[h])
    PROVE  WritesLast(h)'
BY DEF NoteWrites, Writes, WritesLast, Activated, OtherWritten

\* A request that arrives has changed a table only if it creates a product, and
\* has then not been refused.
LEMMA ArrivesWriting ==
    ASSUME WriteInv, NoteWrites, NEW h \in Handlers, Arrive(h)
    PROVE  WritesLast(h)'
<1>1. req \in [Handlers -> Request] /\ WritesLast(h)
  BY DEF WriteInv, RequestInv, TypeOK
<1>2. CASE UNCHANGED tables
  <2>1. req[h].pc = "idle"
    BY DEF Arrive, ActivateProduct, VerifyLicense, DeactivateLicense, RevokeLicense,
       ReleaseLicense, Lookup, CreateProduct
  <2> QED
    BY <1>1, <1>2, <2>1, ReadsWithoutWriting DEF WritesLast, Activated, OtherWritten
<1>3. ASSUME NEW p \in Products, CreateProduct(h, p), ~UNCHANGED tables
      PROVE  WritesLast(h)'
  <2>1. PICK r : r = [[NoRequest EXCEPT !.op = "create", !.sku = p] EXCEPT !.pc = "key"]
    OBVIOUS
  <2>2. r.pc = "key" /\ r.result = "none" /\ r.op = "create"
    BY <2>1 DEF NoRequest
  <2>3. Set(h, r)
    BY <1>3, <2>1 DEF CreateProduct, tables
  <2>4. req'[h] = r
    BY <1>1, <2>3 DEF Set
  <2> QED
    BY <2>2, <2>4 DEF WritesLast, OtherWritten
<1> QED
  BY <1>2, <1>3 DEF Arrive, ActivateProduct, VerifyLicense, DeactivateLicense, RevokeLicense,
     ReleaseLicense, Lookup

\* A refusal changes no table, and comes before anything is written.
LEMMA RefusesWithoutWriting ==
    ASSUME WriteInv, NoteWrites, NEW h \in Handlers, UNCHANGED tables,
           req[h].pc \in {"code", "license", "tx"}
    PROVE  WritesLast(h)'
BY ReadsWithoutWriting DEF WriteInv, WritesLast, Activated, OtherWritten

\* A request that goes on has changed a table only with the last change it makes.
LEMMA ContinuesWriting ==
    ASSUME WriteInv, NoteWrites, NEW h \in Handlers, Continue(h)
    PROVE  WritesLast(h)'
<1>1. /\ req \in [Handlers -> Request] /\ req[h] \in Request /\ WritesLast(h)
      /\ req[h].result # "none" => req[h].pc = "done"
  BY DEF WriteInv, RequestInv, TypeOK, Sound, AnswersLast
<1>2. CASE ActivateCode(h) \/ ActivateLicense(h)
  BY <1>2, RefusesWithoutWriting DEF ActivateCode, ActivateLicense, At
<1>3. CASE ActivateTx(h)
  <2>1. CASE UNCHANGED <<used, status>>
    BY <1>3, <2>1, RefusesWithoutWriting DEF ActivateTx, At, tables
  <2>2. CASE Set(h, [req[h] EXCEPT !.pc = "sign", !.snap = "ACTIVE"])
    <3>1. /\ req'[h].pc = "sign" /\ req'[h].result = req[h].result
          /\ req'[h].snap = "ACTIVE" /\ req'[h].op = req[h].op
      BY <1>1, <2>2 DEF Set, Request
    <3>2. req[h].result = "none" /\ req[h].op = "activate"
      BY <1>1, <1>3 DEF ActivateTx, At
    <3> QED
      BY <3>1, <3>2 DEF WritesLast, Activated, Refusals
  <2> QED
    BY <1>3, <2>1, <2>2 DEF ActivateTx, RolledBack
<1>4. ASSUME NEW op \in {"activate", "verify"}, NEW pc \in {"done", "touch"},
             op = "activate" => pc = "done",
             NEW result \in {"none", "OK"}, Sign(h, op, pc, result)
      PROVE  WritesLast(h)'
  <2>1. /\ op = "activate" => req'[h].pc = "done"
        /\ req'[h].op = req[h].op /\ req[h].op = op /\ req[h].pc = "sign"
        /\ req'[h].result \in {"none", "OK", "NO_SIGNING_KEY"}
        /\ req'[h].snap = req[h].snap
    <3>1. CASE Finish(h, "NO_SIGNING_KEY")
      BY <1>1, <1>4, <3>1 DEF Finish, Set, Request, Sign, At
    <3>2. CASE Set(h, [req[h] EXCEPT !.pc = pc, !.result = result, !.proof = req[h].snap])
      BY <1>1, <1>4, <3>2 DEF Set, Request, Sign, At
    <3> QED
      BY <1>4, <3>1, <3>2 DEF Sign
  <2>2. UNCHANGED tables
    BY <1>4 DEF Sign
  <2> QED
    BY <1>1, <2>1, <2>2, ReadsWithoutWriting DEF WritesLast, Activated, OtherWritten, Refusals
<1>5. CASE VerifyTouch(h) \/ DeactivateTx(h) \/ RevokeTx(h) \/ CreateFirstKey(h)
  <2>1. Set(h, [req[h] EXCEPT !.pc = "done", !.result = "OK"])
    BY <1>5 DEF VerifyTouch, DeactivateTx, RevokeTx, ReleaseTx, CreateFirstKey, Finish
  <2>2. /\ req'[h].pc = "done" /\ req'[h].result = "OK" /\ req'[h].op = req[h].op
        /\ req[h].op # "activate"
    BY <1>1, <1>5, <2>1 DEF Set, Request, VerifyTouch, DeactivateTx, RevokeTx, ReleaseTx,
       CreateFirstKey, At
  <2> QED
    BY <2>2 DEF WritesLast, OtherWritten
<1>6. CASE Answered(h)
  <2>1. req'[h].pc = "idle"
    BY <1>1, <1>6 DEF Answered, Set, NoRequest
  <2> QED
    BY <2>1 DEF NoteWrites, WritesLast
<1> QED
  BY <1>2, <1>3, <1>4, <1>5, <1>6 DEF Continue, ActivateSign, VerifySign

\* The invariant of what requests have written is inductive.
LEMMA WriteStep == WriteInv /\ [Next]_vars => WriteInv'
<1> SUFFICES ASSUME WriteInv, [Next]_vars, NEW h \in Handlers PROVE WritesLast(h)'
  BY RequestStep DEF WriteInv
<1>1. CASE UNCHANGED vars
  BY <1>1 DEF vars, WriteInv, WritesLast
<1>2. CASE NoteWrites /\ UNCHANGED req[h]
  BY <1>2, WaitsWithoutWriting DEF WriteInv
<1>3. ASSUME NEW g \in Handlers, Arrive(g) \/ Continue(g), NoteWrites
      PROVE  WritesLast(h)'
  <2>1. CASE g = h
    BY <1>3, <2>1, ArrivesWriting, ContinuesWriting
  <2>2. CASE g # h
    <3>1. OnlyRequest(g)
      <4>1. CASE Answered(g)
        BY <4>1 DEF Answered, Set, OnlyRequest, WriteInv, RequestInv, TypeOK
      <4> QED
        BY <1>3, <4>1, ArriveTarget, ContinueKeepsTarget DEF WriteInv, RequestInv
    <3>2. UNCHANGED req[h]
      BY <2>2, <3>1 DEF OnlyRequest, WriteInv, RequestInv, TypeOK
    <3> QED
      BY <1>2, <1>3, <3>2
  <2> QED
    BY <2>1, <2>2
<1>4. CASE Crash /\ NoteWrites
  BY <1>4 DEF Crash, NoteWrites, NoRequest, WritesLast
<1> QED
  BY <1>1, <1>2, <1>3, <1>4 DEF Next, Step, RotateKey, IssueCode, RevokeCode

\* In every behaviour a request writes last.
LEMMA WriteInvHolds == Spec => []WriteInv
<1>1. Init /\ RequestInv => WriteInv
  BY DEF Init, WriteInv, WritesLast
<1> QED
  BY <1>1, RequestInvHolds, WriteStep, PTL DEF Spec

\* A request that comes after a revocation feels it, whatever it overlaps with.
THEOREM RevocationIsFelt == Spec => []RevocationBites
<1>1. WriteInv => RevocationBites
  BY DEF WriteInv, WritesLast, Activated, OtherWritten, RequestInv, Sound, FoundRevoked,
     FoundCodeRevoked, AnswersLast, RevocationBites, Refusals
<1> QED
  BY <1>1, WriteInvHolds, PTL

\* Every proof is of a row that was as it says or has been revoked since.
THEOREM ProofsAreBacked == Spec => []ProofBacked
<1>1. RequestInv => ProofBacked
  BY DEF RequestInv, Sound, SignedBefore, ProofBacked, ProductOfRequest
<1> QED
  BY <1>1, RequestInvHolds, PTL

\* No step of a request that is refused has changed a table, and an activation
\* that has and then finds no key leaves its license for the retry.
THEOREM RefusalsAreClean == Spec => []RefusalIsClean
<1>1. WriteInv => RefusalIsClean
  <2> SUFFICES ASSUME WriteInv, NEW h \in Handlers, wrote[h]
               PROVE  /\ req[h].result \notin Refusals
                      /\ req[h].result = "NO_SIGNING_KEY" => status[req[h].lic] # "NONE"
    BY DEF RefusalIsClean
  <2>1. WritesLast(h) /\ Sound(req[h]) /\ req[h] \in Request
    BY DEF WriteInv, RequestInv, TypeOK
  <2>2. CASE Activated(req[h])
    BY <2>1, <2>2 DEF Activated, Sound, ReadBefore, Request, Statuses
  <2>3. CASE OtherWritten(req[h])
    BY <2>3 DEF OtherWritten, Refusals
  <2> QED
    BY <2>1, <2>2, <2>3 DEF WritesLast
<1> QED
  BY <1>1, WriteInvHolds, PTL

\* No answer is ahead of the database.
THEOREM AnswersHold == Spec => []AnswersAreDurable
<1>1. RequestInv => AnswersAreDurable
  <2> SUFFICES ASSUME RequestInv, NEW h \in Handlers, req[h].pc = "done",
                      req[h].result = "OK"
               PROVE  CASE req[h].op \in {"deactivate", "revoke"} -> status[req[h].lic] = "REVOKED"
                        [] req[h].op = "activate" -> status[req[h].lic] # "NONE"
                        [] req[h].op = "verify" -> seen[req[h].lic]
                        [] OTHER -> product[req[h].sku] = "KEYED"
    BY DEF AnswersAreDurable
  <2>1. HasTarget(req[h]) /\ Durable(req[h])
    BY DEF RequestInv, Sound
  <2>2. req[h].op \in {"activate", "verify", "deactivate", "revoke", "create"}
    BY <2>1 DEF HasTarget, LicenseOps
  <2> QED
    BY <2>1, <2>2 DEF Durable
<1> QED
  BY <1>1, RequestInvHolds, PTL

-----------------------------------------------------------------------------
(* Drift                                                                   *)

\* The request has read its license and will release it without looking again.
Releasing(h) == req[h].op \in {"deactivate", "revoke"} /\ req[h].pc = "tx"

\* The requests that will give a slot of code c back a second time.
Doubling(c) == {h \in Handlers : /\ Releasing(h) /\ status[req[h].lic] = "REVOKED"
                                 /\ CodeOf[req[h].lic] = c}

(***************************************************************************)
(* The counter's lag and the second releases still to come are together    *)
(* within the bound: when a license is first revoked, at most all other    *)
(* requests are about to release it again.                                 *)
(***************************************************************************)
Lag(c) == Cardinality(Active(c)) - used[c]
DriftInv ==
    /\ SlotInv
    /\ \A h \in Handlers : Releasing(h) => status[req[h].lic] # "NONE"
    /\ \A c \in Codes :
         Lag(c) + Cardinality(Doubling(c))
           <= Cardinality(LicensesOf(c, "REVOKED")) * (Cardinality(Handlers) - 1)

\* The sets that are counted are finite.
LEMMA DriftFinite ==
    ASSUME NEW c \in Codes
    PROVE  /\ IsFiniteSet(Doubling(c)) /\ Cardinality(Doubling(c)) \in Nat
           /\ IsFiniteSet(LicensesOf(c, "REVOKED"))
           /\ Cardinality(LicensesOf(c, "REVOKED")) \in Nat
           /\ Cardinality(Handlers) \in Nat
<1>1. Doubling(c) \subseteq Handlers /\ LicensesOf(c, "REVOKED") \subseteq Licenses
  BY DEF Doubling, LicensesOf
<1> QED
  BY <1>1, HandlersAssumption, LicensesAssumption, FS_Subset, FS_CardinalityType

\* A request that is about to release was so before the step, or has just read
\* its license as active.
LEMMA ReleasingStep ==
    ASSUME TypeOK, Addressed, [Next]_vars,
           \A h \in Handlers : ~DeactivateTx(h) /\ ~RevokeTx(h),
           NEW g \in Handlers, Releasing(g)'
    PROVE  \/ Releasing(g) /\ req'[g].lic = req[g].lic
           \/ req'[g].lic \in Licenses /\ status[req'[g].lic] = "ACTIVE"
<1>1. req \in [Handlers -> Request] /\ status \in [Licenses -> Statuses]
  BY DEF TypeOK
<1>2. CASE req'[g] = req[g]
  BY <1>2 DEF Releasing
<1>3. ASSUME NEW h \in Handlers, Continue(h), ~Answered(h), req'[g] # req[g] PROVE FALSE
  <2>1. h = g /\ req'[g].op = req[g].op
    BY <1>1, <1>3, ContinueKeepsTarget DEF OnlyRequest, SameTarget
  <2>2. req[g].op \in {"activate", "verify", "create"}
    BY <1>3, <2>1 DEF Continue, ActivateCode, ActivateLicense, ActivateTx, ActivateSign,
       VerifySign, Sign, VerifyTouch, CreateFirstKey, At
  <2> QED
    BY <2>1, <2>2 DEF Releasing
<1>4. ASSUME NEW h \in Handlers, Answered(h), req'[g] # req[g] PROVE FALSE
  BY <1>1, <1>4 DEF Answered, Set, NoRequest, Releasing
<1>5. ASSUME NEW h \in Handlers, Arrive(h), req'[g] # req[g]
      PROVE  req'[g].lic \in Licenses /\ status[req'[g].lic] = "ACTIVE"
  <2>1. h = g
    BY <1>1, <1>5, ArriveTarget DEF OnlyRequest
  <2>2. ASSUME NEW r, Set(h, r) PROVE req'[g] = r
    BY <1>1, <2>1, <2>2 DEF Set
  <2>3. ASSUME NEW p \in Products, CreateProduct(h, p) PROVE FALSE
    <3> DEFINE arrived == [NoRequest EXCEPT !.op = "create", !.sku = p]
    <3>1. /\ [arrived EXCEPT !.pc = "done", !.result = "SKU_TAKEN"].op = "create"
          /\ [arrived EXCEPT !.pc = "key"].op = "create"
      BY DEF NoRequest
    <3>2. PICK r : Set(h, r) /\ r.op = "create"
      BY <2>3, <3>1 DEF CreateProduct
    <3> QED
      BY <2>2, <3>2 DEF Releasing
  <2>4. ASSUME NEW l \in Licenses, NEW p \in Products, ActivateProduct(h, p, l) PROVE FALSE
    <3>1. PICK pc, result : Set(h, [Arrived("activate", l, pc, result) EXCEPT !.sku = p])
      BY <2>4 DEF ActivateProduct
    <3>2. [Arrived("activate", l, pc, result) EXCEPT !.sku = p].op = "activate"
      BY DEF Arrived, NoRequest
    <3>3. req'[g].op = "activate"
      BY <2>2, <3>1, <3>2
    <3> QED
      BY <3>3 DEF Releasing
  <2>5. ASSUME NEW l \in Licenses, NEW match \in BOOLEAN, NEW op, NEW pc, NEW result,
               Lookup(h, op, l, match, pc, result),
               op = "verify" \/ pc = "done" \/ ~AlreadyReleased(l)
        PROVE  req'[g].lic \in Licenses /\ status[req'[g].lic] = "ACTIVE"
    <3>1. ASSUME NEW res, Set(h, Arrived(op, l, "done", res)) PROVE FALSE
      <4>1. req'[g].pc = "done"
        BY <2>2, <3>1, ArrivedFields
      <4> QED
        BY <4>1 DEF Releasing
    <3>2. CASE /\ Set(h, [Arrived(op, l, pc, result) EXCEPT !.snap = status[l]])
               /\ status[l] # "NONE"
      <4>1. LET r == [Arrived(op, l, pc, result) EXCEPT !.snap = status[l]] IN
            r.op = op /\ r.pc = pc /\ r.lic = l
        BY DEF Arrived, NoRequest
      <4>2. req'[g].op = op /\ req'[g].pc = pc /\ req'[g].lic = l
        BY <2>2, <3>2, <4>1
      <4>3. ~AlreadyReleased(l)
        BY <2>5, <4>2 DEF Releasing
      <4> QED
        BY <1>1, <3>2, <4>2, <4>3 DEF AlreadyReleased, Statuses
    <3> QED
      BY <2>5, <3>1, <3>2 DEF Lookup
  <2>6. ASSUME NEW l \in Licenses, NEW match \in BOOLEAN, NEW op,
               ReleaseLicense(h, op, l, match)
        PROVE  req'[g].lic \in Licenses /\ status[req'[g].lic] = "ACTIVE"
    BY <2>5, <2>6 DEF ReleaseLicense
  <2>7. ASSUME NEW l \in Licenses, NEW match \in BOOLEAN, VerifyLicense(h, l, match)
        PROVE  req'[g].lic \in Licenses /\ status[req'[g].lic] = "ACTIVE"
    BY <2>5, <2>7 DEF VerifyLicense
  <2> QED
    BY <1>5, <2>3, <2>4, <2>6, <2>7 DEF Arrive, DeactivateLicense, RevokeLicense
<1>6. CASE Crash
  BY <1>6 DEF Crash, NoRequest, Releasing
<1>7. CASE UNCHANGED req
  BY <1>2, <1>7
<1> QED
  BY <1>2, <1>3, <1>4, <1>5, <1>6, <1>7 DEF Next, Step, RotateKey, IssueCode, RevokeCode, vars

\* A step that releases nothing adds no second release.
LEMMA NoNewDoubling ==
    ASSUME TypeOK, Addressed, [Next]_vars,
           \A h \in Handlers : ~DeactivateTx(h) /\ ~RevokeTx(h),
           \A l \in Licenses : status'[l] = "REVOKED" <=> status[l] = "REVOKED",
           NEW c \in Codes
    PROVE  Cardinality(Doubling(c)') <= Cardinality(Doubling(c))
<1>1. ASSUME NEW g \in Doubling(c)' PROVE g \in Doubling(c)
  <2>1. /\ g \in Handlers /\ Releasing(g)'
        /\ status'[req'[g].lic] = "REVOKED" /\ CodeOf[req'[g].lic] = c
    BY <1>1 DEF Doubling
  <2>2. Addressed'
    BY AddressedStep
  <2>3. req'[g].lic \in Licenses
    BY <2>1, <2>2 DEF Addressed, Releasing, LicenseOps
  <2>4. Releasing(g) /\ req'[g].lic = req[g].lic
    BY <2>1, <2>3, ReleasingStep
  <2> QED
    BY <2>1, <2>3, <2>4 DEF Doubling
<1> QED
  BY <1>1, DriftFinite, FS_Subset

\* A new license takes a slot and lags behind nothing.
LEMMA TakenLag ==
    ASSUME SlotInv, NEW l \in Licenses, TripleFree(l), NEW c \in Codes,
           used' = [used EXCEPT ![CodeOf[l]] = @ + 1], status' = [status EXCEPT ![l] = "ACTIVE"]
    PROVE  Lag(c)' = Lag(c) /\ LicensesOf(c, "REVOKED")' = LicensesOf(c, "REVOKED")
<1>1. used \in [Codes -> Int] /\ status \in [Licenses -> Statuses]
  BY DEF SlotInv, TypeOK
<1>2. LicensesOf(c, "REVOKED")' = LicensesOf(c, "REVOKED")
  BY <1>1 DEF LicensesOf, TripleFree
<1>3. CASE c = CodeOf[l]
  <2>1. l \notin Active(c) /\ Active(c)' = Active(c) \cup {l}
    BY <1>1, <1>3 DEF Active, LicensesOf, TripleFree
  <2>2. Cardinality(Active(c)') = Cardinality(Active(c)) + 1
    BY <2>1, ActiveFinite, FS_AddElement
  <2>3. used'[c] = used[c] + 1
    BY <1>1, <1>3
  <2> QED
    BY <1>1, <1>2, <2>2, <2>3, ActiveFinite DEF Lag
<1>4. CASE c # CodeOf[l]
  <2>1. Active(c)' = Active(c) /\ used'[c] = used[c]
    BY <1>1, <1>4 DEF Active, LicensesOf
  <2> QED
    BY <1>2, <2>1 DEF Lag
<1> QED
  BY <1>3, <1>4

\* The first release of a license gives one slot back for one license less, and
\* makes the other requests that are about to release it a second release.
LEMMA FirstRelease ==
    ASSUME SlotInv, NEW h \in Handlers, NEW l \in Licenses, status[l] = "ACTIVE",
           NEW c \in Codes, c = CodeOf[l],
           used' = [used EXCEPT ![c] = @ - 1], status' = [status EXCEPT ![l] = "REVOKED"],
           \A g \in Handlers \ {h} : req'[g] = req[g], ~Releasing(h)'
    PROVE  /\ Lag(c)' = Lag(c)
           /\ Cardinality(LicensesOf(c, "REVOKED")') = Cardinality(LicensesOf(c, "REVOKED")) + 1
           /\ Cardinality(Doubling(c)') <= Cardinality(Doubling(c)) + Cardinality(Handlers) - 1
<1>1. used \in [Codes -> Int] /\ status \in [Licenses -> Statuses]
  BY DEF SlotInv, TypeOK
<1>2. Lag(c)' = Lag(c)
  <2>1. l \in Active(c) /\ Active(c)' = Active(c) \ {l}
    BY <1>1 DEF Active, LicensesOf
  <2>2. Cardinality(Active(c)') = Cardinality(Active(c)) - 1
    <3>1. IsFiniteSet(Active(c))
      BY ActiveFinite
    <3>2. Cardinality(Active(c) \ {l}) = Cardinality(Active(c)) - 1
      BY <2>1, <3>1, FS_RemoveElement
    <3> QED
      BY <2>1, <3>2
  <2>3. used'[c] = used[c] - 1 /\ used[c] \in Int
    BY <1>1
  <2>4. Cardinality(Active(c)) \in Nat
    BY ActiveFinite
  <2> QED
    BY <2>2, <2>3, <2>4 DEF Lag
<1>3. Cardinality(LicensesOf(c, "REVOKED")') = Cardinality(LicensesOf(c, "REVOKED")) + 1
  <2>1. /\ l \notin LicensesOf(c, "REVOKED")
        /\ LicensesOf(c, "REVOKED")' = LicensesOf(c, "REVOKED") \cup {l}
    BY <1>1 DEF LicensesOf
  <2> QED
    BY <2>1, DriftFinite, FS_AddElement
<1>4. Cardinality(Doubling(c)') <= Cardinality(Doubling(c)) + Cardinality(Handlers) - 1
  <2>1. Doubling(c)' \subseteq Handlers \ {h}
    BY DEF Doubling
  <2>2. /\ IsFiniteSet(Handlers \ {h})
        /\ Cardinality(Handlers \ {h}) = Cardinality(Handlers) - 1
    BY HandlersAssumption, FS_RemoveElement
  <2>3. Cardinality(Doubling(c)') <= Cardinality(Handlers \ {h})
    BY <2>1, <2>2, FS_Subset
  <2>4. /\ Cardinality(Doubling(c)) \in Nat /\ Cardinality(Handlers) \in Nat
        /\ Cardinality(Handlers \ {h}) \in Nat
    BY <2>2, DriftFinite, FS_CardinalityType
  <2>5. Cardinality(Doubling(c)') \in Nat
    BY <2>1, <2>2, FS_Subset, FS_CardinalityType
  <2> QED
    BY <2>2, <2>3, <2>4, <2>5
<1> QED
  BY <1>2, <1>3, <1>4

\* A second release puts the counter one further behind, and is then done.
LEMMA SecondRelease ==
    ASSUME SlotInv, NEW h \in Handlers, NEW l \in Licenses, status[l] = "REVOKED",
           NEW c \in Codes, c = CodeOf[l], req[h].lic = l, Releasing(h),
           used' = [used EXCEPT ![c] = @ - 1], status' = [status EXCEPT ![l] = "REVOKED"],
           \A g \in Handlers \ {h} : req'[g] = req[g], ~Releasing(h)'
    PROVE  /\ Lag(c)' = Lag(c) + 1
           /\ LicensesOf(c, "REVOKED")' = LicensesOf(c, "REVOKED")
           /\ Cardinality(Doubling(c)') = Cardinality(Doubling(c)) - 1
<1>1. used \in [Codes -> Int] /\ status \in [Licenses -> Statuses] /\ status' = status
  BY DEF SlotInv, TypeOK
<1>2. Active(c)' = Active(c) /\ LicensesOf(c, "REVOKED")' = LicensesOf(c, "REVOKED")
  BY <1>1 DEF Active, LicensesOf
<1>3. Lag(c)' = Lag(c) + 1
  BY <1>1, <1>2, ActiveFinite DEF Lag
<1>4. h \in Doubling(c) /\ Doubling(c)' = Doubling(c) \ {h}
  <2>1. \A g \in Handlers \ {h} : Releasing(g)' = Releasing(g) /\ req'[g].lic = req[g].lic
    BY DEF Releasing
  <2> QED
    BY <1>1, <2>1 DEF Doubling
<1>5. Cardinality(Doubling(c)') = Cardinality(Doubling(c)) - 1
  <2>1. IsFiniteSet(Doubling(c))
    BY DriftFinite
  <2>2. Cardinality(Doubling(c) \ {h}) = Cardinality(Doubling(c)) - 1
    BY <1>4, <2>1, FS_RemoveElement
  <2> QED
    BY <1>4, <2>2
<1> QED
  BY <1>2, <1>3, <1>5

\* The other codes notice nothing of a release.
LEMMA OtherRelease ==
    ASSUME SlotInv, NEW h \in Handlers, NEW l \in Licenses, NEW c \in Codes, c # CodeOf[l],
           used' = [used EXCEPT ![CodeOf[l]] = @ - 1],
           status' = [status EXCEPT ![l] = "REVOKED"],
           \A g \in Handlers \ {h} : req'[g] = req[g], ~Releasing(h)'
    PROVE  /\ Lag(c)' = Lag(c)
           /\ LicensesOf(c, "REVOKED")' = LicensesOf(c, "REVOKED")
           /\ Cardinality(Doubling(c)') <= Cardinality(Doubling(c))
<1>1. used \in [Codes -> Int] /\ status \in [Licenses -> Statuses]
  BY DEF SlotInv, TypeOK
<1>2. /\ Active(c)' = Active(c) /\ LicensesOf(c, "REVOKED")' = LicensesOf(c, "REVOKED")
      /\ used'[c] = used[c]
  BY <1>1, LicensesAssumption DEF Active, LicensesOf
<1>3. Doubling(c)' \subseteq Doubling(c)
  <2>1. ASSUME NEW g \in Doubling(c)' PROVE g \in Doubling(c)
    <3>1. /\ g \in Handlers /\ g # h /\ req'[g] = req[g] /\ Releasing(g)
          /\ status'[req[g].lic] = "REVOKED" /\ CodeOf[req[g].lic] = c
      BY <2>1 DEF Doubling, Releasing
    <3>2. req[g].lic \in Licenses
      BY <3>1 DEF SlotInv, Addressed, Releasing, LicenseOps
    <3> QED
      BY <1>1, <3>1, <3>2 DEF Doubling
  <2> QED
    BY <2>1
<1>4. Cardinality(Doubling(c)') <= Cardinality(Doubling(c))
  BY <1>3, DriftFinite, FS_Subset
<1> QED
  BY <1>2, <1>4 DEF Lag

\* The drift invariant is inductive.
LEMMA DriftStep == DriftInv /\ [Next]_vars => DriftInv'
<1> SUFFICES ASSUME DriftInv, [Next]_vars PROVE DriftInv'
  OBVIOUS
<1> DEFINE Revoked(c) == Cardinality(LicensesOf(c, "REVOKED"))
           Others == Cardinality(Handlers) - 1
           Bounded(c) == Lag(c) + Cardinality(Doubling(c)) <= Revoked(c) * Others
<1>1. SlotInv /\ SlotInv' /\ TypeOK /\ TypeOK' /\ Addressed /\ Addressed'
  BY SlotStep DEF DriftInv, SlotInv
<1>2. ASSUME NEW c \in Codes
      PROVE  /\ Cardinality(Doubling(c)) \in Nat /\ Revoked(c) \in Nat /\ Others \in Int
             /\ Lag(c) \in Int /\ Bounded(c)
  BY <1>1, DriftFinite, ActiveFinite DEF DriftInv, TypeOK, Lag
<1>3. CASE \A h \in Handlers : ~DeactivateTx(h) /\ ~RevokeTx(h)
  <2>1. \A l \in Licenses : /\ status'[l] = "REVOKED" <=> status[l] = "REVOKED"
                            /\ status[l] # "NONE" => status'[l] # "NONE"
    <3>1. ASSUME NEW h \in Handlers, ActivateTx(h)
          PROVE  \/ UNCHANGED status
                 \/ /\ status[req[h].lic] = "NONE"
                    /\ status' = [status EXCEPT ![req[h].lic] = "ACTIVE"]
      BY <3>1 DEF ActivateTx, RolledBack, TripleFree
    <3> QED
      BY <1>1, <1>3, <3>1, OtherStepsKeepSlots DEF TypeOK
  <2>2. ASSUME NEW c \in Codes
        PROVE  Lag(c)' = Lag(c) /\ LicensesOf(c, "REVOKED")' = LicensesOf(c, "REVOKED")
    <3>1. CASE UNCHANGED <<used, status>>
      BY <3>1 DEF Lag, Active, LicensesOf
    <3>2. ASSUME NEW h \in Handlers, ActivateTx(h), ~UNCHANGED <<used, status>>
          PROVE  Lag(c)' = Lag(c) /\ LicensesOf(c, "REVOKED")' = LicensesOf(c, "REVOKED")
      <4>1. /\ req[h].lic \in Licenses /\ TripleFree(req[h].lic)
            /\ used' = [used EXCEPT ![CodeOf[req[h].lic]] = @ + 1]
            /\ status' = [status EXCEPT ![req[h].lic] = "ACTIVE"]
        BY <1>1, <3>2 DEF ActivateTx, RolledBack, At, Addressed, LicenseOps
      <4> QED
        BY <1>1, <4>1, TakenLag
    <3> QED
      BY <1>3, <3>1, <3>2, OtherStepsKeepSlots
  <2>3. ASSUME NEW c \in Codes PROVE Bounded(c)'
    <3>1. Cardinality(Doubling(c)') <= Cardinality(Doubling(c))
      BY <1>1, <1>3, <2>1, NoNewDoubling
    <3>2. IsFiniteSet(Doubling(c)') /\ Cardinality(Doubling(c)') \in Nat
      <4>1. Doubling(c)' \subseteq Handlers
        BY DEF Doubling
      <4> QED
        BY <4>1, HandlersAssumption, FS_Subset, FS_CardinalityType
    <3>3. Revoked(c)' = Revoked(c) /\ Lag(c)' = Lag(c)
      BY <2>2
    <3> HIDE DEF Revoked, Others
    <3> QED
      BY <1>2, <3>1, <3>2, <3>3
  <2>4. ASSUME NEW g \in Handlers, Releasing(g)' PROVE status'[req'[g].lic] # "NONE"
    <3>1. \/ Releasing(g) /\ req'[g].lic = req[g].lic
          \/ req'[g].lic \in Licenses /\ status[req'[g].lic] = "ACTIVE"
      BY <1>1, <1>3, <2>4, ReleasingStep
    <3>2. req'[g].lic \in Licenses
      BY <1>1, <2>4 DEF Addressed, Releasing, LicenseOps
    <3> QED
      BY <2>1, <3>1, <3>2 DEF DriftInv
  <2> QED
    BY <1>1, <2>3, <2>4 DEF DriftInv
<1>4. ASSUME NEW h \in Handlers, DeactivateTx(h) \/ RevokeTx(h) PROVE DriftInv'
  <2>1. PICK l : l = req[h].lic
    OBVIOUS
  <2>2. /\ Releasing(h) /\ l \in Licenses /\ CodeOf[l] \in Codes
        /\ used' = [used EXCEPT ![CodeOf[l]] = @ - 1]
        /\ status' = [status EXCEPT ![l] = "REVOKED"]
        /\ \A g \in Handlers \ {h} : req'[g] = req[g]
        /\ req'[h].pc = "done"
    <3>1. PICK r : r = [req[h] EXCEPT !.pc = "done", !.result = "OK"]
      OBVIOUS
    <3>2. r.pc = "done"
      BY <1>1, <3>1 DEF TypeOK, Request
    <3>3. Set(h, r)
      BY <1>4, <3>1 DEF DeactivateTx, RevokeTx, ReleaseTx
    <3>4. (\A g \in Handlers \ {h} : req'[g] = req[g]) /\ req'[h].pc = "done"
      BY <1>1, <3>2, <3>3 DEF Set, TypeOK
    <3>5. Releasing(h) /\ l \in Licenses
      BY <1>1, <1>4, <2>1
         DEF DeactivateTx, RevokeTx, ReleaseTx, At, Releasing, Addressed, LicenseOps
    <3> QED
      BY <1>4, <2>1, <3>4, <3>5, LicensesAssumption DEF DeactivateTx, RevokeTx, ReleaseTx
  <2>3. ~Releasing(h)'
    BY <2>2 DEF Releasing
  <2>4. status[l] \in {"ACTIVE", "REVOKED"}
    BY <1>1, <2>1, <2>2 DEF DriftInv, TypeOK, Statuses
  <2>5. ASSUME NEW c \in Codes PROVE Bounded(c)'
    <3>0. Cardinality(Doubling(c)') \in Nat
      <4>1. Doubling(c)' \subseteq Handlers
        BY DEF Doubling
      <4> QED
        BY <4>1, HandlersAssumption, FS_Subset, FS_CardinalityType
    <3>1. CASE c = CodeOf[l] /\ status[l] = "ACTIVE"
      <4>1. /\ Lag(c)' = Lag(c) /\ Revoked(c)' = Revoked(c) + 1
            /\ Cardinality(Doubling(c)') <= Cardinality(Doubling(c)) + Others
        <5>1. /\ Lag(c)' = Lag(c) /\ Revoked(c)' = Revoked(c) + 1
              /\ Cardinality(Doubling(c)')
                   <= Cardinality(Doubling(c)) + Cardinality(Handlers) - 1
          BY <1>1, <2>2, <2>3, <3>1, FirstRelease
        <5>2. Cardinality(Handlers) \in Nat /\ Cardinality(Doubling(c)) \in Nat
          BY DriftFinite
        <5> HIDE DEF Revoked
        <5> QED
          BY <5>1, <5>2
      <4> HIDE DEF Revoked, Others
      <4>2. (Revoked(c) + 1) * Others = Revoked(c) * Others + Others
        BY <1>2
      <4> QED
        BY <1>2, <3>0, <4>1, <4>2
    <3>2. CASE c = CodeOf[l] /\ status[l] = "REVOKED"
      <4>1. /\ Lag(c)' = Lag(c) + 1 /\ Revoked(c)' = Revoked(c)
            /\ Cardinality(Doubling(c)') = Cardinality(Doubling(c)) - 1
        BY <1>1, <2>1, <2>2, <2>3, <3>2, SecondRelease
      <4> HIDE DEF Revoked, Others
      <4> QED
        BY <1>2, <3>0, <4>1
    <3>3. CASE c # CodeOf[l]
      <4>1. /\ Lag(c)' = Lag(c) /\ Revoked(c)' = Revoked(c)
            /\ Cardinality(Doubling(c)') <= Cardinality(Doubling(c))
        BY <1>1, <2>2, <2>3, <3>3, OtherRelease
      <4> HIDE DEF Revoked, Others
      <4> QED
        BY <1>2, <3>0, <4>1
    <3> QED
      BY <2>4, <3>1, <3>2, <3>3
  <2>6. ASSUME NEW g \in Handlers, Releasing(g)' PROVE status'[req'[g].lic] # "NONE"
    <3>1. g # h
      BY <2>3, <2>6
    <3>2. req'[g] = req[g]
      BY <2>2, <3>1
    <3>3. Releasing(g) /\ req[g].lic \in Licenses
      BY <1>1, <2>6, <3>2 DEF Releasing, Addressed, LicenseOps
    <3> QED
      BY <1>1, <2>2, <3>2, <3>3 DEF DriftInv, TypeOK
  <2> QED
    BY <1>1, <2>5, <2>6 DEF DriftInv
<1> QED
  BY <1>3, <1>4

\* Initially nothing is taken, revoked or under way.
LEMMA DriftInit == Init => DriftInv
<1> SUFFICES ASSUME Init PROVE DriftInv
  OBVIOUS
<1>1. ASSUME NEW h \in Handlers PROVE ~Releasing(h)
  BY DEF Init, NoRequest, Releasing
<1>2. ASSUME NEW c \in Codes
      PROVE  Lag(c) + Cardinality(Doubling(c))
               <= Cardinality(LicensesOf(c, "REVOKED")) * (Cardinality(Handlers) - 1)
  <2>1. Active(c) = {} /\ LicensesOf(c, "REVOKED") = {} /\ Doubling(c) = {} /\ used[c] = 0
    BY <1>1 DEF Init, Active, LicensesOf, Doubling
  <2>2. Cardinality(Handlers) \in Nat
    BY HandlersAssumption, FS_CardinalityType
  <2>3. Cardinality({}) = 0
    BY FS_EmptySet
  <2>4. Lag(c) = 0 /\ Cardinality(Doubling(c)) = 0 /\ Cardinality(LicensesOf(c, "REVOKED")) = 0
    BY <2>1, <2>3 DEF Lag
  <2> QED
    BY <2>2, <2>4
<1> QED
  BY <1>1, <1>2, SlotInit DEF DriftInv

\* The counter falls behind by at most one per revoked license and other
\* request: only a release that read its license before another one revoked it
\* gives a slot back twice.
THEOREM DriftIsBounded == Spec => []DriftBounded
<1>1. DriftInv => DriftBounded
  <2> SUFFICES ASSUME DriftInv, NEW c \in Codes
               PROVE  Cardinality(Active(c)) - used[c]
                        <= Cardinality(LicensesOf(c, "REVOKED")) * (Cardinality(Handlers) - 1)
    BY DEF DriftBounded
  <2> DEFINE bound == Cardinality(LicensesOf(c, "REVOKED")) * (Cardinality(Handlers) - 1)
  <2>1. /\ Cardinality(Doubling(c)) \in Nat /\ bound \in Int
        /\ Cardinality(Active(c)) - used[c] \in Int
    BY DriftFinite, ActiveFinite DEF DriftInv, SlotInv, TypeOK
  <2>2. Cardinality(Active(c)) - used[c] + Cardinality(Doubling(c)) <= bound
    BY DEF DriftInv, Lag
  <2> HIDE DEF bound
  <2> QED
    BY <2>1, <2>2 DEF bound
<1> QED
  BY <1>1, DriftInit, DriftStep, PTL DEF Spec

-----------------------------------------------------------------------------
(* Transactions                                                            *)

\* A step of a handler is a whole transaction on a code and a license, or has no
\* effect on them.
LEMMA TransactionStep == DriftInv /\ [Next]_vars => [Tables!TableNext]_<<used, status>>
<1> SUFFICES ASSUME DriftInv, [Next]_vars PROVE [Tables!TableNext]_<<used, status>>
  OBVIOUS
<1>1. TypeOK /\ Addressed
  BY DEF DriftInv, SlotInv
<1>2. ASSUME NEW h \in Handlers, ActivateTx(h) PROVE [Tables!TableNext]_<<used, status>>
  <2> DEFINE l == req[h].lic
             c == CodeOf[l]
  <2>1. CASE RolledBack(c)
    BY <2>1 DEF RolledBack
  <2>2. CASE ~RolledBack(c)
    <3>1. /\ SlotFree(c) /\ TripleFree(l)
          /\ used' = [used EXCEPT ![c] = @ + 1]
          /\ status' = [status EXCEPT ![l] = "ACTIVE"]
      BY <1>2, <2>2 DEF ActivateTx
    <3>2. l \in Licenses /\ c \in Codes
      BY <1>1, <1>2, LicensesAssumption DEF ActivateTx, At, Addressed, LicenseOps
    <3>3. used[c] < Max[c]
      <4>1. used[c] \in Int /\ Max[c] \in Nat /\ used[c] + 1 <= Max[c]
        BY <1>1, <3>1, <3>2, CodesAssumption DEF TypeOK, SlotFree
      <4> HIDE DEF c
      <4> QED
        BY <4>1
    <3>4. Tables!TakeSlot(l)
      BY <3>1, <3>3 DEF Tables!TakeSlot, TripleFree
    <3> QED
      BY <3>2, <3>4 DEF Tables!TableNext
  <2> QED
    BY <2>1, <2>2
<1>3. ASSUME NEW h \in Handlers, DeactivateTx(h) \/ RevokeTx(h)
      PROVE  [Tables!TableNext]_<<used, status>>
  <2> DEFINE l == req[h].lic
  <2>1. /\ used' = [used EXCEPT ![CodeOf[l]] = @ - 1]
        /\ status' = [status EXCEPT ![l] = "REVOKED"]
    BY <1>3 DEF DeactivateTx, RevokeTx, ReleaseTx
  <2>2. Releasing(h) /\ l \in Licenses
    BY <1>1, <1>3 DEF DeactivateTx, RevokeTx, ReleaseTx, At, Releasing, Addressed, LicenseOps
  <2>3. status[l] # "NONE"
    BY <2>2 DEF DriftInv
  <2>4. Tables!GiveBack(l)
    BY <2>1, <2>3 DEF Tables!GiveBack
  <2> QED
    BY <2>2, <2>4 DEF Tables!TableNext
<1>4. CASE \A h \in Handlers : ~ActivateTx(h) /\ ~DeactivateTx(h) /\ ~RevokeTx(h)
  BY <1>4, OtherStepsKeepSlots
<1> QED
  BY <1>2, <1>3, <1>4

\* The service implements AtomicTx, as LicensingTx does: the row locks and the
\* order of the statements in a transaction change nothing of what its requests
\* do to the tables, whatever they read before and however they interleave.
THEOREM ServiceIsTransactional == Spec => ImplementsAtomicTx
<1>1. Init => Tables!TableInit
  BY DEF Init, Tables!TableInit
<1>2. DriftInv /\ [Next]_vars => [Tables!TableNext]_(Tables!tableVars)
  BY TransactionStep DEF Tables!tableVars
<1> QED
  BY <1>1, <1>2, DriftInit, DriftStep, PTL DEF Spec, ImplementsAtomicTx, Tables!TableSpec

=============================================================================
