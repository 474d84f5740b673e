---------------------------- MODULE SigningKeys ----------------------------
(***************************************************************************)
(* The ed25519 signing keys of one product: the first key made when the    *)
(* product is created, rotations, the key new proofs are signed with, and  *)
(* the two keys GET /products/:sku/public-key serves to clients.           *)
(*                                                                         *)
(* Keys are numbered in the order of createdAt, which Prisma stamps when   *)
(* it sends the insert; nothing is said of equal stamps.  A rotation is an *)
(* interactive transaction at READ COMMITTED: it reads an active key and   *)
(* works out when its window ends, then updates that row, which waits for  *)
(* another transaction's update of it, and inserts a new key, and then     *)
(* commits both.  The old key goes on signing until the commit.  Prisma    *)
(* gives a transaction five seconds, so one day at most ends during it.    *)
(***************************************************************************)
EXTENDS Naturals, FiniteSets

CONSTANTS
    Rotators,   \* rotations that may be in flight at the same time
    Window,     \* days from rotation to retiresAt (30 in the code)
    MaxKeys,    \* bound: keys ever made
    MaxTime     \* bound: days the clock runs

ASSUME KeysAssumption == Window \in Nat \ {0} /\ MaxKeys \in Nat /\ MaxTime \in Nat

VARIABLES
    made,       \* keys numbered so far, those rolled back included
    active,     \* committed keys with isActive
    retired,    \* committed keys without
    retiresAt,  \* retiresAt of each key, 0 when not set
    firstDue,   \* createForProduct has not run yet
    rot,        \* the rotations in flight
    now,        \* the day
    signedOn    \* history: the last day each key signed proofs (0: none)

keyVars == <<made, active, retired, retiresAt, firstDue, rot, now, signedOn>>

Keys == 1 .. MaxKeys
Newest(S) == CHOOSE k \in S : \A j \in S : j <= k

\* A rotation holds the key it has read (0: there was none), the day it did
\* and the end of the window, and, once it has written, the key it has made.
NoRotation == [at |-> "idle", current |-> 0, day |-> 0, retires |-> 0, fresh |-> 0]

KeysTypeOK ==
    /\ made \in 0 .. MaxKeys
    /\ active \subseteq 1 .. made
    /\ retired \subseteq 1 .. made
    /\ retiresAt \in [Keys -> Nat]
    /\ firstDue \in BOOLEAN
    /\ rot \in [Rotators -> [at : {"idle", "read", "written"}, current : 0 .. made,
                             day : 0 .. now, retires : Nat, fresh : 0 .. made]]
    /\ now \in 0 .. MaxTime
    /\ signedOn \in [Keys -> 0 .. now]

KeysInit ==
    /\ made = 0
    /\ active = {}
    /\ retired = {}
    /\ retiresAt = [k \in Keys |-> 0]
    /\ firstDue = TRUE
    /\ rot = [r \in Rotators |-> NoRotation]
    /\ now = 0
    /\ signedOn = [k \in Keys |-> 0]

-----------------------------------------------------------------------------
(* What readers of the table see.                                          *)

\* activeSigningKey: the newest active key signs.  0: NO_SIGNING_KEY.
Signer == IF active = {} THEN 0 ELSE Newest(active)

\* getPublicKey: the newest active key, and as the previous one the newest
\* that is not active.  Nothing is served without an active key.  Mutant: no
\* previous key; the oldest one.
NoPrevious == {}
OldestRetired == {k \in retired : \A j \in retired : k <= j}
Previous == IF retired = {} THEN {} ELSE {Newest(retired)}
Served == IF active = {} THEN {} ELSE {Signer} \cup Previous

-----------------------------------------------------------------------------
\* The key that signs once the step is done has signed on that day.
SignsOn(day) == signedOn' = [k \in Keys |-> IF k = Signer' THEN day ELSE signedOn[k]]

\* createForProduct, the second write of POST /admin/products.  A rotation may
\* have been quicker.
CreateForProduct ==
    /\ firstDue /\ made < MaxKeys
    /\ firstDue' = FALSE
    /\ made' = made + 1
    /\ active' = active \cup {made + 1}
    /\ SignsOn(now)
    /\ UNCHANGED <<retired, retiresAt, rot, now>>

\* The end of the retirement window, worked out before the update is sent.
\* Mutant: it is worked out when the server starts.
WindowFromStart == Window
WindowEnd == now + Window

\* findFirst without an order: any active key, or none.
RotateRead(r) ==
    /\ rot[r].at = "idle"
    /\ \E k \in IF active = {} THEN {0} ELSE active :
         rot' = [rot EXCEPT ![r] = [NoRotation EXCEPT !.at = "read", !.current = k,
                                                      !.day = now, !.retires = WindowEnd]]
    /\ UNCHANGED <<made, active, retired, retiresAt, firstDue, now, signedOn>>

\* The update of the key that was read, once no other rotation holds its row,
\* and the insert of the new one.
RotateWrite(r) ==
    LET k == rot[r].current IN
    /\ rot[r].at = "read" /\ made < MaxKeys
    /\ k # 0 => \A s \in Rotators : ~(rot[s].at = "written" /\ rot[s].current = k)
    /\ made' = made + 1
    /\ rot' = [rot EXCEPT ![r].at = "written", ![r].fresh = made + 1]
    /\ UNCHANGED <<active, retired, retiresAt, firstDue, now, signedOn>>

\* The key a commit retires.  Mutant: the active key is looked up again, and
\* the one just made is found.
FreshKey(r) == rot[r].fresh
OldKey(r) == rot[r].current

\* Both writes become visible: the key that was read is retired, whether or
\* not it still was active, and the new one is active.
RotateCommit(r) ==
    LET k == OldKey(r) IN
    /\ rot[r].at = "written"
    /\ active' = (active \cup {rot[r].fresh}) \ {k}
    /\ retired' = IF k = 0 THEN retired ELSE retired \cup {k}
    /\ retiresAt' = IF k = 0 THEN retiresAt ELSE [retiresAt EXCEPT ![k] = rot[r].retires]
    /\ SignsOn(now)
    /\ rot' = [rot EXCEPT ![r] = NoRotation]
    /\ UNCHANGED <<made, firstDue, now>>

\* The process dies or the connection is lost: the transaction rolls back.
RotateAbort(r) ==
    /\ rot[r].at # "idle"
    /\ rot' = [rot EXCEPT ![r] = NoRotation]
    /\ UNCHANGED <<made, active, retired, retiresAt, firstDue, now, signedOn>>

\* A day passes, and the signing key signs on the new one too, also during a
\* rotation; one that began the day before is over or rolled back by now.
Tick ==
    /\ now < MaxTime /\ \A r \in Rotators : rot[r].at # "idle" => rot[r].day = now
    /\ now' = now + 1
    /\ active' = active /\ SignsOn(now + 1)
    /\ UNCHANGED <<made, retired, retiresAt, firstDue, rot>>

KeysNext ==
    \/ CreateForProduct
    \/ \E r \in Rotators : RotateRead(r) \/ RotateWrite(r) \/ RotateCommit(r) \/ RotateAbort(r)
    \/ Tick

KeysSpec == KeysInit /\ [][KeysNext]_keyVars

-----------------------------------------------------------------------------
(* Properties                                                              *)

\* New proofs are signed under the newest key there is, however rotations and
\* the first key's creation overlap: no commit ever retires the newest key, so
\* a product that has a key can sign, under a key the public endpoint serves.
NewestKeySigns ==
    active \cup retired # {} => /\ Newest(active \cup retired) \in active
                                /\ Signer \in Served

\* A retired key's window runs for its whole length from its last proof, but for
\* what the rotation took: the end is fixed before the key leaves off signing, so
\* a rotation over midnight may cut it by that one day (by its five seconds), and
\* so may one that commits the older date of two over the younger; no more is
\* lost, however many rotations retire the key.
WindowCoversProofs ==
    \A k \in retired : retiresAt[k] + 1 >= signedOn[k] + Window

\* Of the inactive keys the endpoint serves only the newest.  That is enough to
\* check every proof of less than Window days if rotations have not overlapped,
\* so that one key is active, and no more than one was retired in those days.
SignedLately == {k \in active \cup retired : now < signedOn[k] + Window}
RetiredLately == {k \in retired : now <= retiresAt[k]}
OneRotationIsCovered ==
    Cardinality(active) = 1 /\ Cardinality(RetiredLately) <= 1 => SignedLately \subseteq Served
=============================================================================
