--------------------------- MODULE LicenseClient ---------------------------
(***************************************************************************)
(* One installed client (packages/license-client): the state it caches,    *)
(* the activate, verify and deactivate calls that replace it, and the      *)
(* verdict it draws from the cache, against a server that knows the        *)
(* license's status and rotates the product's keys (SigningKeys).          *)
(*                                                                         *)
(* An application may have several calls in flight (a timer's verify and a *)
(* user's click).  A call reads the cache when it starts and writes it     *)
(* when it ends; the network may lose the request or the answer, and the   *)
(* client may stop waiting for a request the server still works on.  A     *)
(* proof is the status and the kid it carries; its signature is valid      *)
(* under the key of that kid and no other.  The client was built with the  *)
(* product's first key, so the product has it before the client runs.      *)
(***************************************************************************)
EXTENDS SigningKeys

CONSTANTS
    Calls,      \* calls the application may have in flight
    ActiveFor,  \* days a verdict is "active" after a verify (1 in the code)
    Grace       \* graceUntil - issuedAt, in days (7 by default)

ASSUME ClientAssumption == /\ ActiveFor \in Nat \ {0} /\ Grace \in Nat /\ ActiveFor <= Grace
                           /\ MaxKeys >= 1

VARIABLES
    store,      \* cfg.storage
    call,       \* the calls in flight
    license,    \* the status of the license in the server's database
    revokedOn   \* history: the day the license was revoked

clientVars == <<store, call, license, revokedOn>>
vars == <<keyVars, clientVars>>

Bundled == 1

\* PersistedState: the cached proof's status and kid and the day of the last
\* verify; by is history.
NoState == [status |-> "NONE", kid |-> 0, last |-> 0, by |-> "none"]
State == [status : {"NONE", "ACTIVE", "REVOKED"}, kid : Nat, last : Nat,
          by : {"none", "activate", "verify"}]

\* A call: the status and kid it read in the cache, the day it started, and
\* the proof it got.  An orphan is a request nobody waits for any more.
NoCall == [op |-> "none", at |-> "idle", was |-> "NONE", wasKid |-> 0, day |-> 0,
           status |-> "NONE", kid |-> 0]
Call == [op : {"none", "activate", "verify", "deactivate"},
         at : {"idle", "sent", "orphan", "answered", "write", "sigfail"},
         was : {"NONE", "ACTIVE", "REVOKED"}, wasKid : Nat, day : Nat,
         status : {"NONE", "ACTIVE", "REVOKED"}, kid : Nat]

ClientTypeOK ==
    /\ KeysTypeOK
    /\ store \in State
    /\ store.status # "NONE" => store.kid \in active \cup retired /\ store.last <= now
    /\ call \in [Calls -> Call]
    /\ license \in {"NONE", "ACTIVE", "REVOKED"}
    /\ revokedOn \in 0 .. now

Init ==
    /\ made = 1 /\ active = {Bundled} /\ retired = {}
    /\ retiresAt = [k \in Keys |-> 0] /\ signedOn = [k \in Keys |-> 0]
    /\ firstDue = FALSE
    /\ rot = [r \in Rotators |-> NoRotation]
    /\ now = 0
    /\ store = NoState
    /\ call = [c \in Calls |-> NoCall]
    /\ license = "NONE"
    /\ revokedOn = 0

-----------------------------------------------------------------------------
(* verdictFromProof                                                        *)

\* A revoked proof locks at once; otherwise the days since the last verify
\* decide, not the dates in the proof.
Verdict ==
    CASE store.status = "NONE" -> "missing"
      [] store.status = "REVOKED" -> "locked"
      [] store.status = "ACTIVE" /\ now - store.last < ActiveFor -> "active"
      [] store.status = "ACTIVE" /\ now - store.last >= ActiveFor ->
           IF store.last + Grace > now THEN "grace" ELSE "locked"

Usable == Verdict \in {"active", "grace"}

-----------------------------------------------------------------------------
(* The application and the client library                                  *)

Put(c, r) == call' = [call EXCEPT ![c] = r]

StartActivate(c) ==
    /\ call[c].at = "idle"
    /\ Put(c, [NoCall EXCEPT !.op = "activate", !.at = "sent", !.was = store.status])
    /\ UNCHANGED <<keyVars, store, license, revokedOn>>

\* verify and deactivate read the cache first and do nothing when it is empty.
StartCached(c, op) ==
    /\ call[c].at = "idle" /\ store.status # "NONE"
    /\ Put(c, [NoCall EXCEPT !.op = op, !.at = "sent", !.was = store.status,
                             !.wasKid = store.kid, !.day = now])
    /\ UNCHANGED <<keyVars, store, license, revokedOn>>

StartVerify(c) == StartCached(c, "verify")
StartDeactivate(c) == StartCached(c, "deactivate")

\* publicKeyFor(kid): the bundled key, or one the server serves.
KeyFound(k) == k = Bundled \/ k \in Served

\* The kid whose key checks the answer: verify takes the cached proof's.
CheckedKid(c) == IF call[c].op = "verify" THEN call[c].wasKid ELSE call[c].kid

\* parseProof: valid under the key of the kid the proof was signed with, only.
SignatureValid(c) == CheckedKid(c) = call[c].kid

\* The key is found, perhaps over the network, and the signature checked.  A
\* kid nobody serves and a bad signature both end the call in an exception.
CheckProof(c) ==
    /\ call[c].at = "answered" /\ call[c].op \in {"activate", "verify"}
    /\ \/ ~KeyFound(CheckedKid(c)) /\ Put(c, NoCall)
       \/ /\ KeyFound(CheckedKid(c)) /\ ~SignatureValid(c)
          /\ Put(c, [call[c] EXCEPT !.at = "sigfail"])
       \/ /\ KeyFound(CheckedKid(c)) /\ SignatureValid(c)
          /\ Put(c, [call[c] EXCEPT !.at = "write"])
    /\ UNCHANGED <<keyVars, store, license, revokedOn>>

\* lastVerifiedAtMs: activate reads the clock when it has the proof, verify
\* before it sends the request.  Mutant: both when they have the proof.
DayOfReceipt(c) == now
VerifiedOn(c) == IF call[c].op = "verify" THEN call[c].day ELSE now

\* The new state replaces whatever is cached by now, and the call returns.
WriteState(c) ==
    /\ call[c].at = "write"
    /\ store' = [status |-> call[c].status, kid |-> call[c].kid,
                 last |-> VerifiedOn(c), by |-> call[c].op]
    /\ Put(c, NoCall)
    /\ UNCHANGED <<keyVars, license, revokedOn>>

\* deactivate clears the cache, whatever the answer was.
ClearState(c) ==
    /\ call[c].at = "answered" /\ call[c].op = "deactivate"
    /\ store' = NoState
    /\ Put(c, NoCall)
    /\ UNCHANGED <<keyVars, license, revokedOn>>

\* A rejected proof is thrown to the caller; the cache stays.
ThrowSigFail(c) ==
    /\ call[c].at = "sigfail"
    /\ Put(c, NoCall)
    /\ UNCHANGED <<keyVars, store, license, revokedOn>>

\* The client is gone while the server may still work on the request; that of
\* a verify changes nothing there.
Orphan(c) == IF call[c].op = "verify" THEN NoCall
             ELSE [NoCall EXCEPT !.op = call[c].op, !.at = "orphan", !.day = call[c].day]

\* fetch rejects: the request or its answer is lost, or the client stops
\* waiting while the server goes on.  deactivate clears the cache even so.
NetworkFails(c) ==
    /\ \/ call[c].at \in {"sent", "orphan", "answered"} /\ Put(c, NoCall)
       \/ call[c].at = "sent" /\ Put(c, Orphan(c))
    /\ store' = IF call[c].op = "deactivate" /\ call[c].at # "orphan" THEN NoState ELSE store
    /\ UNCHANGED <<keyVars, license, revokedOn>>

\* The application dies.  The cache is a file; requests may still arrive.
ClientCrash ==
    /\ \E c \in Calls : call[c].at \in {"sent", "answered", "write", "sigfail"}
    /\ call' = [c \in Calls |-> IF call[c].at \in {"sent", "orphan"} THEN Orphan(c) ELSE NoCall]
    /\ UNCHANGED <<keyVars, store, license, revokedOn>>

-----------------------------------------------------------------------------
(* The server, as far as the client can tell                               *)

\* Whether activate issues a proof.  Mutant: a revoked license is revived.
ActivatesAlways == TRUE
Activates == license # "REVOKED"

\* The client gets the answer a, unless it no longer waits.
Answer(c, a) == Put(c, IF call[c].at = "sent" THEN a ELSE NoCall)

\* The server takes a signed request for a minute, so only on its day.
InTime(c) == call[c].day = now

\* A late one is answered 401, which ends the call in an exception.
ServerTooLate(c) ==
    /\ call[c].at \in {"sent", "orphan"} /\ call[c].op \in {"verify", "deactivate"}
    /\ ~InTime(c)
    /\ store' = IF call[c].op = "deactivate" /\ call[c].at = "sent" THEN NoState ELSE store
    /\ Put(c, NoCall)
    /\ UNCHANGED <<keyVars, license, revokedOn>>

ServerActivate(c) ==
    /\ call[c].at \in {"sent", "orphan"} /\ call[c].op = "activate"
    /\ \/ ~Activates /\ Put(c, NoCall) /\ UNCHANGED license
       \/ /\ Activates /\ license' = "ACTIVE"
          /\ Answer(c, [call[c] EXCEPT !.at = "answered", !.status = "ACTIVE", !.kid = Signer])
    /\ UNCHANGED <<keyVars, store, revokedOn>>

ServerVerify(c) ==
    /\ call[c].at \in {"sent", "orphan"} /\ call[c].op = "verify" /\ InTime(c)
    /\ Answer(c, [call[c] EXCEPT !.at = "answered", !.status = license, !.kid = Signer])
    /\ UNCHANGED <<keyVars, store, license, revokedOn>>

Revoke ==
    /\ license' = "REVOKED"
    /\ revokedOn' = IF license = "REVOKED" THEN revokedOn ELSE now

ServerDeactivate(c) ==
    /\ call[c].at \in {"sent", "orphan"} /\ call[c].op = "deactivate" /\ InTime(c)
    /\ Revoke
    /\ Answer(c, [call[c] EXCEPT !.at = "answered"])
    /\ UNCHANGED <<keyVars, store>>

AdminRevoke ==
    /\ license = "ACTIVE"
    /\ Revoke
    /\ UNCHANGED <<keyVars, store, call>>

KeysStep == KeysNext /\ UNCHANGED clientVars

Next ==
    \/ \E c \in Calls :
         \/ StartActivate(c) \/ StartVerify(c) \/ StartDeactivate(c)
         \/ CheckProof(c) \/ WriteState(c) \/ ClearState(c) \/ ThrowSigFail(c)
         \/ NetworkFails(c)
         \/ ServerActivate(c) \/ ServerVerify(c) \/ ServerDeactivate(c) \/ ServerTooLate(c)
    \/ ClientCrash
    \/ AdminRevoke
    \/ KeysStep

Spec == Init /\ [][Next]_vars

-----------------------------------------------------------------------------
(* Properties                                                              *)

\* Revocation reaches an install that is offline, or whose calls fail: Grace
\* days after it, a verdict drawn from a verify's state is no longer usable,
\* however long the answer to that verify was under way.
RevocationOutlastsGrace ==
    license = "REVOKED" /\ store.by = "verify" /\ now >= revokedOn + Grace => ~Usable

\* Once the cache says REVOKED, no call started from then on brings back an
\* ACTIVE proof, whatever the network did to it.
RevokedCacheNotRevived ==
    \A c \in Calls : call[c].at \in {"answered", "write"} =>
      (call[c].was = "REVOKED" => call[c].status # "ACTIVE")

\* A cached proof can be checked at the next start: its key is bundled or
\* served as long as at most one rotation has been made since it was signed,
\* and rotations have not overlapped, so that one key is active.
RotatedOnceSince(kid) == \A j, k \in active \cup retired : j > kid /\ k > kid => j = k
CachedProofCheckable ==
    store.status # "NONE" /\ Cardinality(active) = 1 /\ RotatedOnceSince(store.kid)
      => KeyFound(store.kid)

(***************************************************************************)
(* What the documentation says and the code does not do.                   *)
(***************************************************************************)

\* "clients with a stale baked-in kid can fetch the new key after rotation":
\* an honest server's proof is never refused.
HonestProofAccepted == \A c \in Calls : call[c].at # "sigfail"
=============================================================================
