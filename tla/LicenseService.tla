--------------------------- MODULE LicenseService ---------------------------
(***************************************************************************)
(* The license server's core: purchase codes with a limited number of      *)
(* activation slots, the licenses activated from them, and the HTTP        *)
(* requests that read and change both.                                     *)
(*                                                                         *)
(* Node runs one handler at a time between two awaits, so a request is a   *)
(* sequence of atomic steps, one per database round trip, and the steps of *)
(* the requests in flight interleave.  A Prisma transaction is one step:   *)
(* it commits or rolls back as a whole.  Each request acts on what it read *)
(* in its earlier steps.                                                   *)
(*                                                                         *)
(* A license row is identified by (purchase code, normalised domain,       *)
(* fingerprint); Licenses is the set of all such triples a client may ask  *)
(* for, and CodeOf[l] the code of triple l.  The row of a triple that was  *)
(* never activated has status "NONE".  Fields the server only stores       *)
(* (names, e-mails, dates, the wrapped HMAC secret) are left out.          *)
(***************************************************************************)
EXTENDS Integers, FiniteSets

CONSTANTS
    Products,       \* product rows, by SKU
    Codes,          \* purchase codes an admin may issue
    ProductOf,      \* the product each code is issued for
    Max,            \* PurchaseCode.maxActivations of each code
    Licenses,       \* (code, domain, fingerprint) triples
    CodeOf,         \* the code of each triple
    Handlers,       \* requests the process serves at the same time
    NoLicense,      \* the target of a request that names no license
    NoProduct       \* the SKU of a request that names no product

ASSUME CodesAssumption == /\ ProductOf \in [Codes -> Products]
                          /\ Max \in [Codes -> Nat \ {0}]
ASSUME LicensesAssumption == /\ IsFiniteSet(Licenses)
                             /\ CodeOf \in [Licenses -> Codes]
                             /\ NoLicense \notin Licenses
ASSUME ProductsAssumption == NoProduct \notin Products
ASSUME HandlersAssumption == IsFiniteSet(Handlers)

VARIABLES
    product,    \* "NONE" no row, "KEYLESS" no active signing key, "KEYED" one
    issued,     \* the purchase code has a row
    codeRevoked,\* PurchaseCode.isRevoked
    used,       \* PurchaseCode.usedActivations
    status,     \* License.status ("NONE": no row)
    reason,     \* who revoked the license
    seen,       \* License.lastSeenAt is set
    req,        \* the requests in flight
    wrote       \* history: the request has changed a table

tables == <<product, issued, codeRevoked, used, status, reason, seen>>
vars == <<product, issued, codeRevoked, used, status, reason, seen, req, wrote>>

Statuses == {"NONE", "ACTIVE", "REVOKED"}
Reasons == {"none", "self", "admin"}
Ops == {"none", "activate", "verify", "deactivate", "revoke", "create"}
Points == {"idle", "code", "license", "tx", "sign", "touch", "key", "done"}
\* Outcomes that leave the database as the request found it.  CODE_REVOKED and
\* LICENSE_REVOKED are both REVOKED in the code.
Refusals == {"PRODUCT_NOT_FOUND", "INVALID_CODE", "CODE_REVOKED", "LICENSE_REVOKED",
             "LIMIT", "UNIQUE_VIOLATION", "NOT_FOUND", "FINGERPRINT_MISMATCH", "SKU_TAKEN"}
Results == Refusals \cup {"none", "OK", "NO_SIGNING_KEY"}

(***************************************************************************)
(* A request: its operation, the await it is suspended at, its target, and *)
(* what it has read.  full and snap are local variables of the handlers.   *)
(* wasRevoked and codeWasRevoked are history: what was revoked when the    *)
(* request arrived.                                                        *)
(***************************************************************************)
Request == [op : Ops, pc : Points, lic : Licenses \cup {NoLicense},
            sku : Products \cup {NoProduct}, full : BOOLEAN, snap : Statuses,
            result : Results, proof : Statuses,
            wasRevoked : BOOLEAN, codeWasRevoked : BOOLEAN]

NoRequest == [op |-> "none", pc |-> "idle", lic |-> NoLicense, sku |-> NoProduct,
              full |-> FALSE, snap |-> "NONE", result |-> "none", proof |-> "NONE",
              wasRevoked |-> FALSE, codeWasRevoked |-> FALSE]

TypeOK ==
    /\ product \in [Products -> {"NONE", "KEYLESS", "KEYED"}]
    /\ issued \in [Codes -> BOOLEAN]
    /\ codeRevoked \in [Codes -> BOOLEAN]
    /\ used \in [Codes -> Int]
    /\ status \in [Licenses -> Statuses]
    /\ reason \in [Licenses -> Reasons]
    /\ seen \in [Licenses -> BOOLEAN]
    /\ req \in [Handlers -> Request]
    /\ wrote \in [Handlers -> BOOLEAN]

Init ==
    /\ product = [p \in Products |-> "NONE"]
    /\ issued = [c \in Codes |-> FALSE]
    /\ codeRevoked = [c \in Codes |-> FALSE]
    /\ used = [c \in Codes |-> 0]
    /\ status = [l \in Licenses |-> "NONE"]
    /\ reason = [l \in Licenses |-> "none"]
    /\ seen = [l \in Licenses |-> FALSE]
    /\ req = [h \in Handlers |-> NoRequest]
    /\ wrote = [h \in Handlers |-> FALSE]

LicensesOf(c, s) == {l \in Licenses : CodeOf[l] = c /\ status[l] = s}
Active(c) == LicensesOf(c, "ACTIVE")

-----------------------------------------------------------------------------
(* Steps common to the handlers.                                           *)

At(h, op, pc) == req[h].op = op /\ req[h].pc = pc

Set(h, r) == req' = [req EXCEPT ![h] = r]
GoTo(h, pc) == Set(h, [req[h] EXCEPT !.pc = pc])
Finish(h, result) == Set(h, [req[h] EXCEPT !.pc = "done", !.result = result])

\* A request for license l arrives and will continue at pc.
Arrived(op, l, pc, result) ==
    [NoRequest EXCEPT !.op = op, !.lic = l, !.pc = pc, !.result = result,
                      !.wasRevoked = (status[l] = "REVOKED"),
                      !.codeWasRevoked = codeRevoked[CodeOf[l]]]

\* Arrival of a request that names a license by id, and the license lookup;
\* match says whether the fingerprint sent is the license's.
Lookup(h, op, l, match, pc, result) ==
    /\ req[h].pc = "idle"
    /\ \/ status[l] = "NONE" /\ Set(h, Arrived(op, l, "done", "NOT_FOUND"))
       \/ /\ status[l] # "NONE" /\ ~match
          /\ Set(h, Arrived(op, l, "done", "FINGERPRINT_MISMATCH"))
       \/ /\ status[l] # "NONE" /\ match
          /\ Set(h, [Arrived(op, l, pc, result) EXCEPT !.snap = status[l]])
    /\ UNCHANGED tables

\* The product can sign.  Mutant: it has a key, active or not.
HasAnyKey(p) == product[p] # "NONE"
HasActiveKey(p) == product[p] = "KEYED"

ProductOfRequest(h) == ProductOf[CodeOf[req[h].lic]]

\* The signing-key lookup, and the proof over the license as it was read.
Sign(h, op, pc, result) ==
    /\ At(h, op, "sign")
    /\ \/ ~HasActiveKey(ProductOfRequest(h)) /\ Finish(h, "NO_SIGNING_KEY")
       \/ /\ HasActiveKey(ProductOfRequest(h))
          /\ Set(h, [req[h] EXCEPT !.pc = pc, !.result = result, !.proof = req[h].snap])
    /\ UNCHANGED tables

-----------------------------------------------------------------------------
(* POST /v1/activate                                                       *)

\* Arrival and the product lookup.
ActivateProduct(h, p, l) ==
    /\ req[h].pc = "idle"
    /\ \/ /\ product[p] = "NONE"
          /\ Set(h, [Arrived("activate", l, "done", "PRODUCT_NOT_FOUND") EXCEPT !.sku = p])
       \/ /\ product[p] # "NONE"
          /\ Set(h, [Arrived("activate", l, "code", "none") EXCEPT !.sku = p])
    /\ UNCHANGED tables

\* The purchase-code lookup, its checks, and the slot count kept for later.
ActivateCode(h) ==
    LET c == CodeOf[req[h].lic]
        known == issued[c] /\ ProductOf[c] = req[h].sku IN
    /\ At(h, "activate", "code")
    /\ \/ ~known /\ Finish(h, "INVALID_CODE")
       \/ known /\ codeRevoked[c] /\ Finish(h, "CODE_REVOKED")
       \/ /\ known /\ ~codeRevoked[c]
          /\ Set(h, [req[h] EXCEPT !.pc = "license", !.full = (used[c] >= Max[c])])
    /\ UNCHANGED tables

\* An existing license is answered with a new proof of its status.  Mutant:
\* revoked or not.
ReissuesAny(l) == status[l] # "NONE"
Reissues(l) == status[l] = "ACTIVE"

\* The license lookup: reissue for an active one, refuse a revoked one, and
\* for a new one test the slots as they were at the previous await.
ActivateLicense(h) ==
    LET l == req[h].lic IN
    /\ At(h, "activate", "license")
    /\ \/ status[l] = "REVOKED" /\ Finish(h, "LICENSE_REVOKED")
       \/ Reissues(l) /\ Set(h, [req[h] EXCEPT !.pc = "sign", !.snap = status[l]])
       \/ status[l] = "NONE" /\ req[h].full /\ Finish(h, "LIMIT")
       \/ status[l] = "NONE" /\ ~req[h].full /\ GoTo(h, "tx")
    /\ UNCHANGED tables

\* The check inside the transaction.  Mutant: the one before it is enough.
SlotUnchecked(c) == TRUE
SlotFree(c) == used[c] + 1 <= Max[c]

\* The unique index lets the row in.  Mutant: the row is upserted.
Upserted(l) == TRUE
TripleFree(l) == status[l] = "NONE"

\* A failed transaction takes its increment back.  Mutant: the writes are not
\* in a transaction.
IncrementKept(c) == used' = [used EXCEPT ![c] = @ + 1] /\ UNCHANGED status
RolledBack(c) == UNCHANGED <<used, status>>

\* The transaction: take a slot, check again, create the license.
ActivateTx(h) ==
    LET l == req[h].lic
        c == CodeOf[l] IN
    /\ At(h, "activate", "tx")
    /\ \/ ~SlotFree(c) /\ Finish(h, "LIMIT") /\ RolledBack(c)
       \/ SlotFree(c) /\ ~TripleFree(l) /\ Finish(h, "UNIQUE_VIOLATION") /\ RolledBack(c)
       \/ /\ SlotFree(c) /\ TripleFree(l)
          /\ used' = [used EXCEPT ![c] = @ + 1]
          /\ status' = [status EXCEPT ![l] = "ACTIVE"]
          /\ Set(h, [req[h] EXCEPT !.pc = "sign", !.snap = "ACTIVE"])
    /\ UNCHANGED <<product, issued, codeRevoked, reason, seen>>

ActivateSign(h) == Sign(h, "activate", "done", "OK")

-----------------------------------------------------------------------------
(* POST /v1/verify                                                         *)

\* A revoked license is looked up, signed and touched like an active one.
VerifyLicense(h, l, match) == Lookup(h, "verify", l, match, "sign", "none")

VerifySign(h) == Sign(h, "verify", "touch", "none")

\* lastSeenAt and lastIp are written, whatever the status has become.
VerifyTouch(h) ==
    /\ At(h, "verify", "touch")
    /\ seen' = [seen EXCEPT ![req[h].lic] = TRUE]
    /\ Finish(h, "OK")
    /\ UNCHANGED <<product, issued, codeRevoked, used, status, reason>>

-----------------------------------------------------------------------------
(* POST /v1/deactivate and POST /admin/licenses/:id/revoke                 *)

\* Nothing is left to release.  Mutants: the test is missing; it is inverted.
NeverReleased(l) == FALSE
StillActive(l) == status[l] = "ACTIVE"
AlreadyReleased(l) == status[l] = "REVOKED"

\* Arrival and the license lookup of either; an already revoked license is
\* answered OK at once.
ReleaseLicense(h, op, l, match) ==
    IF AlreadyReleased(l) THEN Lookup(h, op, l, match, "done", "OK")
                          ELSE Lookup(h, op, l, match, "tx", "none")

DeactivateLicense(h, l, match) == ReleaseLicense(h, "deactivate", l, match)

\* The admin names the license by id only.
RevokeLicense(h, l) == ReleaseLicense(h, "revoke", l, TRUE)

\* The transaction of both: the license is marked revoked and the slot given
\* back, without another look at the status.
ReleaseTx(h, op, who) ==
    LET l == req[h].lic IN
    /\ At(h, op, "tx")
    /\ status' = [status EXCEPT ![l] = "REVOKED"]
    /\ reason' = [reason EXCEPT ![l] = who]
    /\ used' = [used EXCEPT ![CodeOf[l]] = @ - 1]
    /\ Set(h, [req[h] EXCEPT !.pc = "done", !.result = "OK"])
    /\ UNCHANGED <<product, issued, codeRevoked, seen>>

\* Mutant of DeactivateTx: a reason no reader of the column knows.
DeactivateTxOtherReason(h) == ReleaseTx(h, "deactivate", "moved")
DeactivateTx(h) == ReleaseTx(h, "deactivate", "self")
RevokeTx(h) == ReleaseTx(h, "revoke", "admin")

-----------------------------------------------------------------------------
(* The admin's products and purchase codes                                 *)

\* POST /admin/products: the row, then its first signing key, as two writes.
\* The look for the SKU and the unique index refuse a second row alike.
CreateProduct(h, p) ==
    LET arrived == [NoRequest EXCEPT !.op = "create", !.sku = p] IN
    /\ req[h].pc = "idle"
    /\ \/ /\ product[p] # "NONE"
          /\ Set(h, [arrived EXCEPT !.pc = "done", !.result = "SKU_TAKEN"])
          /\ UNCHANGED product
       \/ /\ product[p] = "NONE"
          /\ product' = [product EXCEPT ![p] = "KEYLESS"]
          /\ Set(h, [arrived EXCEPT !.pc = "key"])
    /\ UNCHANGED <<issued, codeRevoked, used, status, reason, seen>>

CreateFirstKey(h) ==
    /\ At(h, "create", "key")
    /\ product' = [product EXCEPT ![req[h].sku] = "KEYED"]
    /\ Finish(h, "OK")
    /\ UNCHANGED <<issued, codeRevoked, used, status, reason, seen>>

\* POST /admin/products/:id/rotate-key leaves an active key in any case.
RotateKey(p) ==
    /\ product[p] # "NONE"
    /\ product' = [product EXCEPT ![p] = "KEYED"]
    /\ UNCHANGED <<issued, codeRevoked, used, status, reason, seen, req>>

\* POST /admin/purchase-codes.
IssueCode(c) ==
    /\ product[ProductOf[c]] # "NONE" /\ ~issued[c]
    /\ issued' = [issued EXCEPT ![c] = TRUE]
    /\ UNCHANGED <<product, codeRevoked, used, status, reason, seen, req>>

\* POST /admin/purchase-codes/:id/revoke.
RevokeCode(c) ==
    /\ issued[c]
    /\ codeRevoked' = [codeRevoked EXCEPT ![c] = TRUE]
    /\ UNCHANGED <<product, issued, used, status, reason, seen, req>>

-----------------------------------------------------------------------------
\* The answer has left and the handler is free for another request.
Answered(h) == req[h].pc = "done" /\ Set(h, NoRequest) /\ UNCHANGED tables

\* The process dies and restarts: requests in flight are lost, rows are kept.
Crash ==
    /\ \E h \in Handlers : req[h].pc # "idle"
    /\ req' = [h \in Handlers |-> NoRequest]
    /\ UNCHANGED tables

Arrive(h) ==
    \/ \E l \in Licenses :
         \/ \E p \in Products : ActivateProduct(h, p, l)
         \/ \E match \in BOOLEAN : VerifyLicense(h, l, match) \/ DeactivateLicense(h, l, match)
         \/ RevokeLicense(h, l)
    \/ \E p \in Products : CreateProduct(h, p)

Continue(h) ==
    \/ ActivateCode(h) \/ ActivateLicense(h) \/ ActivateTx(h) \/ ActivateSign(h)
    \/ VerifySign(h) \/ VerifyTouch(h)
    \/ DeactivateTx(h) \/ RevokeTx(h)
    \/ CreateFirstKey(h)
    \/ Answered(h)

Step ==
    \/ \E h \in Handlers : Arrive(h) \/ Continue(h)
    \/ \E p \in Products : RotateKey(p)
    \/ \E c \in Codes : IssueCode(c) \/ RevokeCode(c)
    \/ Crash

\* History, from the tables before and after: a request has written if they
\* differ after a step of it.
Writes(h) == req'[h] # req[h] /\ tables' # tables
NoteWrites == wrote' = [h \in Handlers |-> req'[h].pc # "idle" /\ (wrote[h] \/ Writes(h))]

Next == Step /\ NoteWrites

Spec == Init /\ [][Next]_vars

-----------------------------------------------------------------------------
(* Properties                                                              *)

\* Concurrent activations never take more slots than the code has: the check
\* before the transaction reads an old count, the check inside it does not.
SlotsNeverOversold == \A c \in Codes : used[c] <= Max[c]

\* A slot is never lost: the counter is at most the number of active licenses,
\* so no crash, rollback, race or reissue leaves a slot taken with no license.
SlotsNeverLost == \A c \in Codes : used[c] <= Cardinality(Active(c))

\* How far the counter may fall behind: a release that commits on a license
\* another one has just revoked gives the slot back twice, but only a request
\* that read the license before the first release can do so.  With one request
\* at a time the counter is exact.
DriftBounded ==
    \A c \in Codes :
      Cardinality(Active(c)) - used[c]
        <= Cardinality(LicensesOf(c, "REVOKED")) * (Cardinality(Handlers) - 1)

\* A revoked license stays revoked, through re-activations too, and no row
\* disappears.
RevocationKept ==
    \A l \in Licenses : /\ status[l] = "REVOKED" => status'[l] = "REVOKED"
                        /\ status[l] # "NONE" => status'[l] # "NONE"
RevokedForever == [][RevocationKept]_vars

\* Revocation bites on the next request: one that arrives after the license
\* was revoked is never answered with an ACTIVE proof, nor activated, and one
\* that arrives after its code was revoked is never activated and writes nothing.
RevocationBites ==
    \A h \in Handlers :
      /\ req[h].wasRevoked => req[h].proof # "ACTIVE"
      /\ req[h].wasRevoked /\ req[h].op = "activate" => req[h].result # "OK"
      /\ req[h].codeWasRevoked /\ req[h].op = "activate" =>
           req[h].result # "OK" /\ ~wrote[h]

\* A proof is issued only for a license that has a row and whose product can
\* sign; its status is out of date in one direction only: it may say ACTIVE
\* of a license revoked since it was read, never REVOKED of an active one.
ProofBacked ==
    \A h \in Handlers : req[h].proof # "NONE" =>
      /\ product[ProductOfRequest(h)] = "KEYED"
      /\ status[req[h].lic] \in {req[h].proof, "REVOKED"}

\* A refused request has changed no table in any of its steps, so it took no
\* slot and made no row, whatever it had checked before and whoever came first.
\* An activation that ends for want of a key may have changed them; then its
\* license is there for the retry to find.
RefusalIsClean ==
    \A h \in Handlers :
      /\ req[h].result \in Refusals => ~wrote[h]
      /\ req[h].result = "NO_SIGNING_KEY" /\ wrote[h] => status[req[h].lic] # "NONE"

\* Once a release has been answered OK the license is revoked for good, and
\* an activation answered OK has its row: an answer is never ahead of the
\* database, whatever the other handlers did in between.
AnswersAreDurable ==
    \A h \in Handlers : req[h].pc = "done" /\ req[h].result = "OK" =>
      CASE req[h].op \in {"deactivate", "revoke"} -> status[req[h].lic] = "REVOKED"
        [] req[h].op = "activate" -> status[req[h].lic] # "NONE"
        [] req[h].op = "verify" -> seen[req[h].lic]
        [] OTHER -> product[req[h].sku] = "KEYED"

\* The tables of codes and licenses, of every interleaving of the handlers, go
\* through the effects of AtomicTx alone, which LicensingTx gives statement by
\* statement: no check before a transaction is needed for that.
Tables == INSTANCE AtomicTx WITH lic <- status
ImplementsAtomicTx == Tables!TableSpec
=============================================================================
