------------------------ MODULE LicenseClient_proofs ------------------------
(***************************************************************************)
(* Proofs about SigningKeys and the LicenseClient that extends it, for any *)
(* number of calls, rotations, keys and days, any window and any grace.    *)
(* Client and server share no state but what a call carries, so the        *)
(* invariant says of each call in flight, and of the cache it may replace, *)
(* what stays true of them while the server goes on.                       *)
(***************************************************************************)
EXTENDS LicenseClient, FiniteSetTheorems, TLAPS

Rotation(n, d) == [at : {"idle", "read", "written"}, current : 0 .. n, day : 0 .. d,
                   retires : Nat, fresh : 0 .. n]

KeyTypes ==
    /\ made \in 0 .. MaxKeys
    /\ active \subseteq 1 .. made
    /\ retired \subseteq 1 .. made
    /\ retiresAt \in [Keys -> Nat]
    /\ firstDue \in BOOLEAN
    /\ rot \in [Rotators -> Rotation(made, now)]
    /\ now \in 0 .. MaxTime
    /\ signedOn \in [Keys -> 0 .. now]

Known == active \cup retired

\* A rotation has read a key of the table, no longer than a day ago, and worked
\* out the end of its window then; the key it has made is newer than the one it
\* read, and nobody else's.
Rotations ==
    \A r \in Rotators :
      /\ rot[r].at # "idle" => /\ rot[r].current \in Known \cup {0}
                               /\ now <= rot[r].day + 1
                               /\ rot[r].retires = rot[r].day + Window
      /\ rot[r].at = "written" =>
           /\ rot[r].fresh \in (1 .. made) \ Known
           /\ rot[r].current < rot[r].fresh
           /\ \A s \in Rotators \ {r} : rot[s].at = "written" => rot[s].fresh # rot[r].fresh

\* The newest key is active, and there is a newest among the retired ones.
NewestIsActive == Known # {} => \E k \in active : \A j \in Known : j <= k
NewestRetired == retired # {} => \E k \in retired : \A j \in retired : j <= k

\* As long as rotations have not overlapped, keys leave off signing in the order
\* they were made.
InOrder == (\A j, k \in active : j = k) => \A j, k \in Known : j < k => signedOn[j] <= signedOn[k]

KeysInv ==
    /\ KeyTypes
    /\ active \cap retired = {}
    /\ Rotations
    /\ NewestIsActive
    /\ NewestRetired
    /\ InOrder
    /\ WindowCoversProofs

-----------------------------------------------------------------------------
\* The newest key of a set that has one is that one.
LEMMA NewestIs ==
    ASSUME NEW S \in SUBSET Nat, NEW k \in S, \A j \in S : j <= k
    PROVE  Newest(S) = k
<1>1. \A m \in S : (\A j \in S : j <= m) => m = k
  OBVIOUS
<1> QED BY <1>1 DEF Newest

\* Keys and days are numbers within their bounds.
LEMMA KeysAreNumbers ==
    ASSUME KeyTypes
    PROVE  /\ made \in Nat /\ now \in Nat /\ active \subseteq Nat /\ retired \subseteq Nat
           /\ Known \subseteq Keys /\ Known \subseteq Nat
           /\ \A k \in Known : k \in 1 .. made
           /\ \A k \in Keys : signedOn[k] \in Nat /\ signedOn[k] <= now /\ retiresAt[k] \in Nat
           /\ \A r \in Rotators : rot[r] \in Rotation(made, now)
BY KeysAssumption DEF KeyTypes, Keys, Known

\* The signing key is the newest of all.
LEMMA SignerIs ==
    ASSUME KeysInv, active # {}
    PROVE  Signer \in active /\ \A j \in Known : j <= Signer
<1>1. PICK k \in active : \A j \in Known : j <= k
  BY DEF KeysInv, NewestIsActive, Known
<1>2. Newest(active) = k
  BY <1>1, KeysAreNumbers, NewestIs DEF KeysInv, Known
<1> QED BY <1>1, <1>2 DEF Signer

\* The key that signs after a step is the newest then, and the only one whose
\* last day of signing the step changes.
LEMMA SignsOnThatDay ==
    ASSUME NewestIsActive', Known' \subseteq Nat, signedOn \in [Keys -> 0 .. now],
           NEW day \in Nat, now \in Nat, now <= day, SignsOn(day)
    PROVE  /\ signedOn' \in [Keys -> 0 .. day]
           /\ active' # {} => Signer' \in active' /\ \A j \in Known' : j <= Signer'
           /\ active' = {} => signedOn' = signedOn
           /\ \A k \in Keys : k = Signer' => signedOn'[k] = day
           /\ \A k \in Keys : k # Signer' => signedOn'[k] = signedOn[k]
<1>1. signedOn' = [k \in Keys |-> IF k = Signer' THEN day ELSE signedOn[k]]
  BY DEF SignsOn
<1>2. signedOn' \in [Keys -> 0 .. day]
  <2>1. \A n \in 0 .. now : n \in 0 .. day
    OBVIOUS
  <2>2. day \in 0 .. day
    OBVIOUS
  <2> QED BY <1>1, <2>1, <2>2
<1>3. active' # {} => Signer' \in active' /\ \A j \in Known' : j <= Signer'
  <2> SUFFICES ASSUME active' # {} PROVE Signer' \in active' /\ \A j \in Known' : j <= Signer'
    OBVIOUS
  <2>1. PICK k \in active' : \A j \in Known' : j <= k
    BY DEF NewestIsActive, Known
  <2>2. Newest(active') = k
    <3>1. active' \in SUBSET Nat /\ \A j \in active' : j <= k
      BY <2>1 DEF Known
    <3> QED BY <3>1, NewestIs
  <2> QED BY <2>1, <2>2 DEF Signer
<1>4. active' = {} => signedOn' = signedOn
  <2>1. active' = {} => Signer' = 0
    BY DEF Signer
  <2>2. 0 \notin Keys
    BY DEF Keys
  <2> QED BY <1>1, <2>1, <2>2
<1> QED BY <1>1, <1>2, <1>3, <1>4

-----------------------------------------------------------------------------
(* The steps                                                               *)

\* The first key keeps the invariant.
LEMMA CreateKeeps ==
    ASSUME KeysInv, CreateForProduct
    PROVE  KeysInv'
<1> DEFINE f == made + 1
<1>1. /\ firstDue' = FALSE /\ made' = f /\ active' = active \cup {f} /\ retired' = retired
      /\ SignsOn(now) /\ retiresAt' = retiresAt /\ rot' = rot
      /\ now' = now /\ made < MaxKeys
  BY DEF CreateForProduct
<1>2. /\ made \in Nat /\ now \in Nat /\ f \in Keys /\ f \in Nat /\ made < f
      /\ \A k \in Known : k \in 1 .. made /\ k < f
      /\ \A r \in Rotators : rot[r] \in Rotation(made, now)
  BY <1>1, KeysAreNumbers, KeysAssumption DEF KeysInv, Keys
<1>3. f \in 1 .. f /\ \A n \in 1 .. made : n \in 1 .. f
  BY <1>2
<1>4. \A n \in 0 .. made : n \in 0 .. f
  BY <1>2
<1> HIDE DEF f
<1>5. Known' = Known \cup {f}
  BY <1>1 DEF Known
<1>6. NewestIsActive'
  <2>1. \A j \in Known' : j <= f
    BY <1>2, <1>5
  <2> QED BY <1>1, <2>1 DEF NewestIsActive
<1>6a. /\ signedOn' \in [Keys -> 0 .. now] /\ Signer' = f /\ signedOn'[f] = now
       /\ \A k \in Known : signedOn'[k] = signedOn[k]
  <2>1. Known' \subseteq Nat /\ Known \subseteq Keys /\ signedOn \in [Keys -> 0 .. now]
    BY <1>2, <1>5, KeysAreNumbers DEF KeysInv, KeyTypes
  <2>2. /\ signedOn' \in [Keys -> 0 .. now]
        /\ Signer' \in active' /\ \A j \in Known' : j <= Signer'
        /\ \A k \in Keys : k = Signer' => signedOn'[k] = now
        /\ \A k \in Keys : k # Signer' => signedOn'[k] = signedOn[k]
    BY <1>1, <1>2, <1>6, <2>1, SignsOnThatDay
  <2>3. Signer' = f
    <3>1. Signer' \in Known' /\ f <= Signer'
      BY <1>5, <2>2 DEF Known
    <3> QED BY <1>2, <1>5, <3>1
  <2> QED BY <1>2, <2>1, <2>2, <2>3
<1>7. KeyTypes'
  <2>1. rot' \in [Rotators -> Rotation(f, now)]
    <3>1. \A q \in Rotation(made, now) : q \in Rotation(f, now)
      BY <1>4 DEF Rotation
    <3> QED BY <1>1, <3>1 DEF KeysInv, KeyTypes
  <2>2. f \in 0 .. MaxKeys
    BY <1>2 DEF Keys
  <2> QED BY <1>1, <1>3, <1>6a, <2>1, <2>2 DEF KeysInv, KeyTypes
<1>8. (active \cap retired = {})'
  BY <1>1, <1>2 DEF KeysInv, Known
<1>9. Rotations'
  <2>1. \A r \in Rotators : rot[r].at = "written" =>
          rot[r].fresh \in (1 .. f) \ Known' /\ rot[r].fresh # f
    BY <1>2, <1>3, <1>5 DEF KeysInv, Rotations
  <2> QED BY <1>1, <1>5, <2>1 DEF KeysInv, Rotations
<1>10. NewestRetired'
  BY <1>1 DEF KeysInv, NewestRetired
<1>11. InOrder'
  <2> SUFFICES ASSUME \A j, k \in active' : j = k, NEW j \in Known', NEW k \in Known', j < k
               PROVE  signedOn'[j] <= signedOn'[k]
    BY DEF InOrder
  <2>1. active = {}
    BY <1>1, <1>2 DEF Known
  <2>2. Known = {}
    BY <2>1 DEF KeysInv, NewestIsActive
  <2> QED BY <1>2, <1>5, <2>2
<1>12. WindowCoversProofs'
  BY <1>1, <1>6a DEF KeysInv, WindowCoversProofs, Known
<1> QED BY <1>6, <1>7, <1>8, <1>9, <1>10, <1>11, <1>12 DEF KeysInv

\* A rotation reads a key, or is rolled back.
LEMMA ReadKeeps ==
    ASSUME KeysInv, NEW r \in Rotators, RotateRead(r) \/ RotateAbort(r)
    PROVE  KeysInv'
<1>1. /\ made' = made /\ active' = active /\ retired' = retired /\ retiresAt' = retiresAt
      /\ firstDue' = firstDue /\ now' = now /\ signedOn' = signedOn
  BY DEF RotateRead, RotateAbort
<1>2. PICK q : /\ rot' = [rot EXCEPT ![r] = q] /\ q \in Rotation(made, now) /\ q.at # "written"
               /\ q.at # "idle" => /\ q.current \in Known \cup {0} /\ now <= q.day + 1
                                   /\ q.retires = q.day + Window
  <2>1. /\ made \in Nat /\ now \in Nat /\ now \in 0 .. now /\ now + Window \in Nat
        /\ now <= now + 1 /\ \A k \in Known : k \in 0 .. made
    BY KeysAreNumbers, KeysAssumption DEF KeysInv
  <2>2. CASE RotateRead(r)
    <3>1. PICK k \in Known \cup {0} :
            rot' = [rot EXCEPT ![r] = [NoRotation EXCEPT !.at = "read", !.current = k,
                                          !.day = now, !.retires = now + Window]]
      BY <2>2 DEF RotateRead, WindowEnd, Known
    <3> DEFINE q == [NoRotation EXCEPT !.at = "read", !.current = k,
                                       !.day = now, !.retires = now + Window]
    <3>2. k \in 0 .. made
      BY <2>1
    <3>3. NoRotation \in Rotation(made, now)
      BY <2>1 DEF NoRotation, Rotation
    <3>4. /\ q \in Rotation(made, now) /\ q.at = "read" /\ q.current = k
          /\ q.day = now /\ q.retires = now + Window
      BY <2>1, <3>2, <3>3 DEF Rotation
    <3> HIDE DEF q
    <3>5. rot' = [rot EXCEPT ![r] = q]
      BY <3>1 DEF q
    <3> QED BY <2>1, <3>4, <3>5
  <2>3. CASE RotateAbort(r)
    <3>1. NoRotation \in Rotation(made, now) /\ NoRotation.at = "idle"
      BY <2>1 DEF NoRotation, Rotation
    <3> QED BY <2>3, <3>1 DEF RotateAbort
  <2> QED BY <2>2, <2>3
<1>3. rot'[r] = q /\ \A s \in Rotators \ {r} : rot'[s] = rot[s]
  BY <1>2 DEF KeysInv, KeyTypes
<1>4. Known' = Known
  BY <1>1 DEF Known
<1>5. KeyTypes'
  BY <1>1, <1>2 DEF KeysInv, KeyTypes
<1>6. Rotations'
  BY <1>1, <1>2, <1>3, <1>4 DEF KeysInv, Rotations
<1>7. InOrder'
  BY <1>1, <1>4 DEF KeysInv, InOrder
<1> QED BY <1>1, <1>4, <1>5, <1>6, <1>7
     DEF KeysInv, NewestIsActive, NewestRetired, WindowCoversProofs

\* A rotation that writes makes a key nobody knows yet.
LEMMA WriteKeeps ==
    ASSUME KeysInv, NEW r \in Rotators, RotateWrite(r)
    PROVE  KeysInv'
<1> DEFINE f == made + 1
<1>1. /\ made' = f /\ active' = active /\ retired' = retired /\ retiresAt' = retiresAt
      /\ firstDue' = firstDue /\ now' = now /\ signedOn' = signedOn /\ made < MaxKeys
      /\ rot[r].at = "read"
      /\ rot' = [rot EXCEPT ![r].at = "written", ![r].fresh = f]
  BY DEF RotateWrite
<1>2. /\ made \in Nat /\ f \in Nat /\ made < f /\ f \in 1 .. f /\ f \in 0 .. MaxKeys
      /\ \A k \in Known : k \in 1 .. made /\ k < f
      /\ \A s \in Rotators : rot[s] \in Rotation(made, now)
  BY <1>1, KeysAreNumbers, KeysAssumption DEF KeysInv, Keys
<1>3. (\A n \in 1 .. made : n \in 1 .. f /\ n # f) /\ \A n \in 0 .. made : n \in 0 .. f /\ n < f
  BY <1>2
<1> HIDE DEF f
<1>4. \A q \in Rotation(made, now) : q \in Rotation(f, now)
  BY <1>3 DEF Rotation
<1> DEFINE w == [rot[r] EXCEPT !.at = "written", !.fresh = f]
<1>5. /\ w \in Rotation(f, now) /\ w.at = "written" /\ w.fresh = f
      /\ w.current = rot[r].current /\ w.day = rot[r].day /\ w.retires = rot[r].retires
  <2>1. rot[r] \in Rotation(f, now) /\ f \in 0 .. f
    BY <1>2, <1>4
  <2> QED BY <2>1 DEF Rotation
<1>6. rot'[r] = w /\ \A s \in Rotators \ {r} : rot'[s] = rot[s]
  BY <1>1 DEF KeysInv, KeyTypes
<1>7. rot' \in [Rotators -> Rotation(f, now)]
  <2>1. rot' = [rot EXCEPT ![r] = w]
    BY <1>1 DEF KeysInv, KeyTypes
  <2> HIDE DEF w
  <2> QED BY <1>2, <1>4, <1>5, <2>1 DEF KeysInv, KeyTypes
<1> HIDE DEF w
<1>8. Known' = Known
  BY <1>1 DEF Known
<1>9. KeyTypes'
  BY <1>1, <1>2, <1>3, <1>7 DEF KeysInv, KeyTypes
<1>10. Rotations'
  <2>1. /\ rot[r].current \in Known \cup {0} /\ rot[r].current < f
        /\ now <= rot[r].day + 1 /\ rot[r].retires = rot[r].day + Window
    BY <1>1, <1>2, <1>3 DEF KeysInv, Rotations
  <2>2. f \in (1 .. f) \ Known
    BY <1>2
  <2>3. \A s \in Rotators \ {r} : rot[s].at = "written" =>
          rot[s].fresh \in (1 .. f) \ Known /\ rot[s].fresh # f
    BY <1>3 DEF KeysInv, Rotations
  <2>4. \A s \in Rotators \ {r} :
          rot[s].at # "idle" => /\ rot[s].current \in Known \cup {0} /\ now <= rot[s].day + 1
                                /\ rot[s].retires = rot[s].day + Window
    BY DEF KeysInv, Rotations
  <2>5. \A s, u \in Rotators \ {r} : s # u /\ rot[s].at = "written" /\ rot[u].at = "written" =>
          rot[u].fresh # rot[s].fresh
    BY DEF KeysInv, Rotations
  <2>6. \A s \in Rotators \ {r} : rot[s].at = "written" => rot[s].current < rot[s].fresh
    BY DEF KeysInv, Rotations
  <2>7. ASSUME NEW s \in Rotators
        PROVE  /\ rot'[s].at # "idle" => /\ rot'[s].current \in Known \cup {0}
                                         /\ now <= rot'[s].day + 1
                                         /\ rot'[s].retires = rot'[s].day + Window
               /\ rot'[s].at = "written" =>
                    /\ rot'[s].fresh \in (1 .. f) \ Known
                    /\ rot'[s].current < rot'[s].fresh
                    /\ \A u \in Rotators \ {s} :
                         rot'[u].at = "written" => rot'[u].fresh # rot'[s].fresh
    <3>1. CASE s = r
      BY <1>5, <1>6, <2>1, <2>2, <2>3, <3>1
    <3>2. CASE s # r
      BY <1>5, <1>6, <2>3, <2>4, <2>5, <2>6, <3>2
    <3> QED BY <3>1, <3>2
  <2> QED BY <1>1, <1>8, <2>7 DEF Rotations
<1>11. InOrder'
  BY <1>1, <1>8 DEF KeysInv, InOrder
<1> QED BY <1>1, <1>8, <1>9, <1>10, <1>11
     DEF KeysInv, NewestIsActive, NewestRetired, WindowCoversProofs

\* A commit retires a key that is older than the one it makes active.
LEMMA CommitKeeps ==
    ASSUME KeysInv, NEW r \in Rotators, RotateCommit(r)
    PROVE  KeysInv'
<1> DEFINE k == rot[r].current  f == rot[r].fresh  e == rot[r].retires
<1>1. /\ rot[r].at = "written" /\ made' = made /\ firstDue' = firstDue /\ now' = now
      /\ active' = (active \cup {f}) \ {k}
      /\ retired' = IF k = 0 THEN retired ELSE retired \cup {k}
      /\ retiresAt' = IF k = 0 THEN retiresAt ELSE [retiresAt EXCEPT ![k] = e]
      /\ SignsOn(now)
      /\ rot' = [rot EXCEPT ![r] = NoRotation]
  BY DEF RotateCommit, OldKey
<1>2. /\ k \in Known \cup {0} /\ f \in 1 .. made /\ f \notin Known /\ k < f
      /\ \A s \in Rotators \ {r} : rot[s].at = "written" => rot[s].fresh # f
  BY <1>1 DEF KeysInv, Rotations
<1>2a. e \in Nat /\ e + 1 >= now + Window
  <2>1. rot[r] \in Rotation(made, now) /\ now \in Nat
    BY KeysAreNumbers DEF KeysInv
  <2>2. rot[r].day \in Nat /\ e \in Nat
    BY <2>1 DEF Rotation
  <2>3. now <= rot[r].day + 1 /\ e = rot[r].day + Window
    BY <1>1 DEF KeysInv, Rotations
  <2> QED BY <2>1, <2>2, <2>3, KeysAssumption
<1>3. /\ made \in Nat /\ now \in Nat /\ f \in Nat /\ f \in Keys /\ k # f /\ k \in Nat
      /\ Known \subseteq Keys /\ Known \subseteq Nat /\ Known \subseteq 1 .. made
      /\ \A j \in Keys : signedOn[j] \in Nat /\ signedOn[j] <= now
      /\ NoRotation \in Rotation(made, now) /\ NoRotation.at = "idle"
  <2>1. made \in 0 .. MaxKeys
    BY DEF KeysInv, KeyTypes
  <2>2. f \in Keys
    BY <1>2, <2>1, KeysAssumption DEF Keys
  <2>3. 0 \in 0 .. made /\ 0 \in 0 .. now
    BY <2>1, KeysAreNumbers, KeysAssumption DEF KeysInv
  <2> QED BY <1>2, <2>1, <2>2, <2>3, KeysAreNumbers, KeysAssumption
          DEF KeysInv, NoRotation, Rotation
<1> HIDE DEF k, f, e
<1>4. Known' = Known \cup {f}
  BY <1>1, <1>2, <1>3 DEF Known
<1>5. NewestIsActive'
  <2>1. CASE \A j \in Known : j <= f
    <3>1. f \in active' /\ \A j \in Known' : j <= f
      BY <1>1, <1>3, <1>4, <2>1
    <3> QED BY <3>1 DEF NewestIsActive
  <2>2. CASE \E j \in Known : f < j
    <3>1. PICK m \in active : \A j \in Known : j <= m
      BY <2>2 DEF KeysInv, NewestIsActive
    <3>2. f < m /\ m \in Nat
      BY <1>3, <2>2, <3>1 DEF Known
    <3>3. m # k
      BY <1>2, <1>3, <3>2
    <3>4. m \in active' /\ \A j \in Known' : j <= m
      BY <1>1, <1>3, <1>4, <3>1, <3>2, <3>3
    <3> QED BY <3>4 DEF NewestIsActive
  <2> QED BY <1>3, <2>1, <2>2
<1>6. /\ signedOn' \in [Keys -> 0 .. now]
      /\ Signer' \in active' /\ \A j \in Known' : j <= Signer'
      /\ \A j \in Keys : j = Signer' => signedOn'[j] = now
      /\ \A j \in Keys : j # Signer' => signedOn'[j] = signedOn[j]
  <2>1. Known' \subseteq Nat /\ signedOn \in [Keys -> 0 .. now] /\ active' # {} /\ now <= now
    BY <1>1, <1>3, <1>4 DEF KeysInv, KeyTypes
  <2> QED BY <1>1, <1>3, <1>5, <2>1, SignsOnThatDay
<1>7. rot'[r] = NoRotation /\ \A s \in Rotators \ {r} : rot'[s] = rot[s]
  BY <1>1 DEF KeysInv, KeyTypes
<1>8. KeyTypes'
  <2>1. rot' \in [Rotators -> Rotation(made, now)]
    BY <1>1, <1>3 DEF KeysInv, KeyTypes
  <2>2. retiresAt' \in [Keys -> Nat]
    BY <1>1, <1>2a DEF KeysInv, KeyTypes
  <2>3. active' \subseteq 1 .. made /\ retired' \subseteq 1 .. made
    BY <1>1, <1>2, <1>3 DEF Known
  <2> QED BY <1>1, <1>6, <2>1, <2>2, <2>3 DEF KeysInv, KeyTypes
<1>9. (active \cap retired = {})'
  BY <1>1, <1>2 DEF KeysInv, Known
<1>10. Rotations'
  <2>1. \A s \in Rotators \ {r} : rot[s].at = "written" => rot[s].fresh \in (1 .. made) \ Known'
    BY <1>2, <1>4 DEF KeysInv, Rotations
  <2> QED BY <1>1, <1>3, <1>4, <1>7, <2>1 DEF KeysInv, Rotations
<1>11. NewestRetired'
  <2>1. CASE k = 0 \/ retired = {}
    BY <1>1, <1>3, <2>1 DEF KeysInv, NewestRetired
  <2>2. CASE k # 0 /\ retired # {}
    <3>1. PICK m \in retired : \A j \in retired : j <= m
      BY <2>2 DEF KeysInv, NewestRetired
    <3>2. m \in Nat /\ retired \subseteq Nat /\ retired' = retired \cup {k}
      BY <1>1, <1>3, <2>2 DEF Known
    <3>3. CASE k <= m
      BY <3>1, <3>2, <3>3 DEF NewestRetired
    <3>4. CASE m < k
      <4>1. \A j \in retired' : j <= k
        BY <1>3, <3>1, <3>2, <3>4
      <4> QED BY <3>2, <4>1 DEF NewestRetired
    <3> QED BY <1>3, <3>2, <3>3, <3>4
  <2> QED BY <2>1, <2>2
<1>12. InOrder'
  <2> SUFFICES ASSUME \A i, j \in active' : i = j, NEW i \in Known', NEW j \in Known', i < j
               PROVE  signedOn'[i] <= signedOn'[j]
    BY DEF InOrder
  <2>1. i \in Keys /\ j \in Keys /\ i \in Nat /\ j \in Nat /\ Signer' \in Nat
    BY <1>3, <1>4, <1>6 DEF Known
  <2>2. Signer' = f
    BY <1>1, <1>3, <1>6
  <2>3. i # Signer' /\ signedOn'[i] = signedOn[i] /\ signedOn[i] <= now /\ i \in Known
    BY <1>3, <1>4, <1>6, <2>1, <2>2
  <2>4. CASE j = f
    BY <1>6, <2>1, <2>2, <2>3, <2>4
  <2>5. CASE j # f
    <3>1. j \in Known /\ signedOn'[j] = signedOn[j]
      BY <1>4, <1>6, <2>1, <2>2, <2>5
    <3>2. \A m, n \in active : m = n
      BY <1>1, <1>2, <1>3 DEF Known
    <3> QED BY <2>3, <3>1, <3>2 DEF KeysInv, InOrder
  <2> QED BY <2>4, <2>5
<1>13. WindowCoversProofs'
  <2> SUFFICES ASSUME NEW j \in retired' PROVE retiresAt'[j] + 1 >= signedOn'[j] + Window
    BY DEF WindowCoversProofs
  <2>1. j \in Keys /\ signedOn'[j] = signedOn[j] /\ signedOn[j] \in Nat /\ signedOn[j] <= now
    <3>1. j \in Known' /\ j # Signer'
      BY <1>6, <1>9 DEF Known
    <3> QED BY <1>3, <1>4, <1>6, <3>1
  <2>2. CASE j = k /\ k # 0
    <3>1. retiresAt'[j] = e
      BY <1>1, <2>1, <2>2 DEF KeysInv, KeyTypes
    <3> QED BY <1>2a, <1>3, <2>1, <3>1, KeysAssumption
  <2>3. CASE j # k \/ k = 0
    <3>1. j \in retired /\ retiresAt'[j] = retiresAt[j]
      BY <1>1, <2>1, <2>3 DEF KeysInv, KeyTypes
    <3> QED BY <2>1, <3>1 DEF KeysInv, WindowCoversProofs
  <2> QED BY <2>2, <2>3
<1> QED BY <1>5, <1>8, <1>9, <1>10, <1>11, <1>12, <1>13 DEF KeysInv

\* A day that passes is one more the signing key has signed on, and the first
\* after that of the rotations in flight.
LEMMA TickKeeps ==
    ASSUME KeysInv, Tick
    PROVE  KeysInv'
<1>1. /\ made' = made /\ active' = active /\ retired' = retired /\ retiresAt' = retiresAt
      /\ firstDue' = firstDue /\ now' = now + 1 /\ rot' = rot /\ now < MaxTime
      /\ \A r \in Rotators : rot[r].at # "idle" => rot[r].day = now
      /\ SignsOn(now + 1)
  BY DEF Tick
<1>2. /\ now \in Nat /\ now + 1 \in Nat /\ now <= now + 1
      /\ Known \subseteq Keys /\ Known \subseteq Nat
      /\ \A j \in Keys : signedOn[j] \in Nat /\ signedOn[j] <= now
      /\ signedOn \in [Keys -> 0 .. now]
      /\ \A n \in 0 .. now : n \in 0 .. now + 1
  BY KeysAreNumbers DEF KeysInv, KeyTypes
<1>3. Known' = Known
  BY <1>1 DEF Known
<1>4. NewestIsActive'
  BY <1>1, <1>3 DEF KeysInv, NewestIsActive
<1>5. /\ signedOn' \in [Keys -> 0 .. now + 1]
      /\ active' # {} => Signer' \in active' /\ \A j \in Known' : j <= Signer'
      /\ \A j \in Keys : j = Signer' => signedOn'[j] = now + 1
      /\ \A j \in Keys : j # Signer' => signedOn'[j] = signedOn[j]
  <2>1. Known' \subseteq Nat
    BY <1>2, <1>3
  <2> QED BY <1>1, <1>2, <1>4, <2>1, SignsOnThatDay
<1>6. KeyTypes'
  <2>1. now' \in 0 .. MaxTime
    BY <1>1, <1>2, KeysAssumption
  <2>2. rot' \in [Rotators -> Rotation(made, now + 1)]
    <3>1. \A q \in Rotation(made, now) : q \in Rotation(made, now + 1)
      BY <1>2 DEF Rotation
    <3> QED BY <1>1, <3>1 DEF KeysInv, KeyTypes
  <2> QED BY <1>1, <1>5, <2>1, <2>2 DEF KeysInv, KeyTypes
<1>7. Rotations'
  <2>1. \A r \in Rotators : rot[r].at # "idle" => now' <= rot[r].day + 1
    BY <1>1, <1>2
  <2> QED BY <1>1, <1>3, <2>1 DEF KeysInv, Rotations
<1>8. InOrder'
  <2> SUFFICES ASSUME \A i, j \in active : i = j, NEW j \in Known, NEW k \in Known, j < k
               PROVE  signedOn'[j] <= signedOn'[k]
    BY <1>1, <1>3 DEF InOrder
  <2>1. active # {} /\ j \in Keys /\ k \in Keys /\ j \in Nat /\ k \in Nat
    BY <1>2 DEF KeysInv, NewestIsActive
  <2>2. Signer' \in Nat /\ k <= Signer'
    BY <1>1, <1>2, <1>3, <1>5, <2>1 DEF Known
  <2>3. signedOn'[j] = signedOn[j]
    BY <1>5, <2>1, <2>2
  <2>4. signedOn[j] <= signedOn[k]
    BY DEF KeysInv, InOrder
  <2> QED BY <1>2, <1>5, <2>1, <2>3, <2>4
<1>9. WindowCoversProofs'
  <2>1. \A j \in retired : j \in Keys /\ j # Signer'
    <3>1. 0 \notin retired
      BY <1>2 DEF Known, Keys
    <3>2. active' = {} => Signer' = 0
      BY DEF Signer
    <3> QED BY <1>1, <1>2, <1>5, <3>1, <3>2 DEF KeysInv, Known
  <2> QED BY <1>1, <1>5, <2>1 DEF KeysInv, WindowCoversProofs
<1>10. NewestRetired' /\ (active \cap retired = {})'
  BY <1>1 DEF KeysInv, NewestRetired
<1> QED BY <1>4, <1>6, <1>7, <1>8, <1>9, <1>10 DEF KeysInv

\* Every step keeps the invariant.
LEMMA KeysKeep == KeysInv /\ [KeysNext]_keyVars => KeysInv'
<1> SUFFICES ASSUME KeysInv, [KeysNext]_keyVars PROVE KeysInv'
  OBVIOUS
<1>1. CASE CreateForProduct
  BY <1>1, CreateKeeps
<1>2. ASSUME NEW r \in Rotators, RotateRead(r) \/ RotateAbort(r) PROVE KeysInv'
  BY <1>2, ReadKeeps
<1>3. ASSUME NEW r \in Rotators, RotateWrite(r) PROVE KeysInv'
  BY <1>3, WriteKeeps
<1>4. ASSUME NEW r \in Rotators, RotateCommit(r) PROVE KeysInv'
  BY <1>4, CommitKeeps
<1>5. CASE Tick
  BY <1>5, TickKeeps
<1>6. CASE UNCHANGED keyVars
  BY <1>6 DEF keyVars, KeysInv, KeyTypes, Rotations, NewestIsActive, NewestRetired, InOrder,
              WindowCoversProofs, Known
<1> QED BY <1>1, <1>2, <1>3, <1>4, <1>5, <1>6 DEF KeysNext

\* The invariant holds in every reachable state.
THEOREM KeysInvHolds == KeysSpec => []KeysInv
<1>1. KeysInit => KeysInv
  <2> SUFFICES ASSUME KeysInit PROVE KeysInv
    OBVIOUS
  <2>1. \A r \in Rotators : rot[r] = NoRotation
    BY DEF KeysInit
  <2>2. NoRotation \in Rotation(0, 0) /\ NoRotation.at = "idle"
    BY DEF NoRotation, Rotation
  <2>3. KeyTypes
    BY <2>2, KeysAssumption DEF KeysInit, KeyTypes
  <2>4. Rotations /\ InOrder
    BY <2>1, <2>2 DEF KeysInit, Rotations, InOrder, Known
  <2> QED BY <2>3, <2>4
       DEF KeysInit, KeysInv, NewestIsActive, NewestRetired, WindowCoversProofs, Known
<1> QED BY <1>1, KeysKeep, PTL DEF KeysSpec

-----------------------------------------------------------------------------
(* What follows                                                            *)

\* The shapes of the table and the rotations.
THEOREM KeysTypes == KeysSpec => []KeysTypeOK
<1>1. KeysInv => KeysTypeOK
  BY DEF KeysInv, KeyTypes, KeysTypeOK, Rotation
<1> QED BY <1>1, KeysInvHolds, PTL

\* However rotations overlap, the newest key of a product is active, so the
\* product can sign, with a key its clients are served.
THEOREM NewestSigns == KeysSpec => []NewestKeySigns
<1>1. KeysInv => NewestKeySigns
  <2> SUFFICES ASSUME KeysInv, Known # {}
               PROVE  Newest(Known) \in active /\ Signer \in Served
    BY DEF NewestKeySigns, Known
  <2>1. PICK k \in active : \A j \in Known : j <= k
    BY DEF KeysInv, NewestIsActive
  <2>2. Newest(Known) = k
    BY <2>1, KeysAreNumbers, NewestIs DEF KeysInv, Known
  <2> QED BY <2>1, <2>2 DEF Served
<1> QED BY <1>1, KeysInvHolds, PTL DEF KeysInv

\* The retirement window of a key begins no earlier than the day before its
\* last signature, over any number of rotations.
THEOREM WindowsCover == KeysSpec => []WindowCoversProofs
<1>1. KeysInv => WindowCoversProofs
  BY DEF KeysInv
<1> QED BY <1>1, KeysInvHolds, PTL

\* A retired key that still matters and is not the newest retired one left off
\* signing before that one did, so both were retired within the window.
THEOREM RotationCovered == KeysSpec => []OneRotationIsCovered
<1>1. KeysInv => OneRotationIsCovered
  <2> SUFFICES ASSUME KeysInv, Cardinality(active) = 1, Cardinality(RetiredLately) <= 1,
                      NEW k \in SignedLately
               PROVE  k \in Served
    BY DEF OneRotationIsCovered
  <2>1. /\ made \in Nat /\ now \in Nat /\ Known \subseteq Keys
        /\ active \subseteq 1 .. made /\ retired \subseteq 1 .. made /\ retired \subseteq Nat
        /\ \A j \in Keys : signedOn[j] \in Nat /\ retiresAt[j] \in Nat
    BY KeysAreNumbers DEF KeysInv, KeyTypes
  <2>2. IsFiniteSet(active) /\ IsFiniteSet(RetiredLately)
    <3>1. IsFiniteSet(1 .. made)
      <4>1. 1 \in Int /\ made \in Int
        BY <2>1
      <4> QED BY <4>1, FS_Interval, Zenon
    <3> QED BY <2>1, <3>1, FS_Subset DEF RetiredLately
  <2>3. active # {} /\ Signer \in active
    BY <2>2, FS_EmptySet, SignerIs
  <2>4. CASE k \in active
    <3>1. k = Signer
      BY <2>2, <2>3, <2>4, FS_Singleton
    <3> QED BY <2>3, <3>1 DEF Served
  <2>5. CASE k \in retired
    <3>1. PICK m \in retired : \A j \in retired : j <= m
      BY <2>5 DEF KeysInv, NewestRetired
    <3>2. Newest(retired) = m
      BY <2>1, <3>1, NewestIs
    <3>3. signedOn[k] <= signedOn[m]
      <4>0. \A i, j \in active : i = j
        BY <2>2, <2>3, FS_Singleton
      <4>1. k \in Known /\ m \in Known /\ k \in Keys /\ (k < m \/ k = m)
        BY <2>1, <2>5, <3>1 DEF Known
      <4>2. \A i, j \in Known : i < j => signedOn[i] <= signedOn[j]
        BY <4>0 DEF KeysInv, InOrder
      <4>3. CASE k < m
        BY <4>1, <4>2, <4>3, Zenon
      <4>4. CASE k = m
        <5>1. signedOn[k] \in Nat
          BY <2>1, <4>1
        <5> QED BY <4>4, <5>1
      <4> QED BY <4>1, <4>3, <4>4, Zenon
    <3>4. now <= retiresAt[k] /\ now <= retiresAt[m]
      <4>1. now < signedOn[k] + Window
        BY DEF SignedLately
      <4>2. /\ retiresAt[k] + 1 >= signedOn[k] + Window
            /\ retiresAt[m] + 1 >= signedOn[m] + Window
        BY <2>5 DEF KeysInv, WindowCoversProofs
      <4>3. k \in Keys /\ m \in Keys
        BY <2>1, <2>5 DEF Known
      <4> QED BY <2>1, <3>3, <4>1, <4>2, <4>3, KeysAssumption
    <3>5. k = m
      <4>1. k \in RetiredLately /\ m \in RetiredLately
        BY <2>5, <3>4 DEF RetiredLately
      <4>2. Cardinality(RetiredLately) = 1
        BY <2>2, <4>1, FS_EmptySet, FS_CardinalityType
      <4> QED BY <2>2, <4>1, <4>2, FS_Singleton
    <3> QED BY <2>3, <2>5, <3>2, <3>5 DEF Served, Previous
  <2> QED BY <2>4, <2>5 DEF SignedLately
<1> QED BY <1>1, KeysInvHolds, PTL

-----------------------------------------------------------------------------
(* LicenseClient                                                           *)

Statuses == {"NONE", "ACTIVE", "REVOKED"}

\* The server's side: the keys, the bundled one among them, and the license.
ServerInv ==
    /\ KeysInv /\ Bundled \in Known
    /\ license \in Statuses
    /\ revokedOn \in Nat /\ revokedOn <= now

\* What is cached was so once: only an activated license is, a revocation is
\* for good, and a verify's ACTIVE is from no later than the revocation.
StoreGood(s) ==
    /\ s \in State
    /\ s.status # "NONE" => s.kid \in Known /\ s.last <= now /\ license # "NONE"
    /\ s.status = "REVOKED" => license = "REVOKED"
    /\ s.by = "verify" /\ s.status = "ACTIVE" /\ license = "REVOKED" => s.last <= revokedOn

\* So it is with the proof a call has got, and with what it read before.
CallGood(q) ==
    /\ q \in Call
    /\ q.day <= now
    /\ q.was = "REVOKED" => license = "REVOKED" /\ q.status # "ACTIVE"
    /\ q.op \in {"verify", "deactivate"} => license # "NONE"
    /\ q.at = "write" => q.op \in {"activate", "verify"}
    /\ q.status # "NONE" => q.kid \in Known /\ license # "NONE"
    /\ q.status = "REVOKED" => license = "REVOKED"
    /\ q.op = "verify" /\ q.status = "ACTIVE" /\ license = "REVOKED" => q.day <= revokedOn

ClientInv == /\ ServerInv /\ StoreGood(store)
             /\ call \in [Calls -> Call] /\ \A c \in Calls : CallGood(call[c])

\* Days pass, keys stay known, and a license is never revived.
Onward ==
    /\ now' \in Nat /\ now <= now'
    /\ Known \subseteq Known'
    /\ license # "NONE" => license' # "NONE"
    /\ license = "REVOKED" => license' = "REVOKED" /\ revokedOn' = revokedOn
    /\ license # "REVOKED" /\ license' = "REVOKED" => revokedOn' = now /\ now' = now

-----------------------------------------------------------------------------
(* The server                                                              *)

\* Days are numbers.
LEMMA Days == ServerInv => now \in Nat /\ revokedOn \in Nat /\ revokedOn <= now
BY KeysAreNumbers DEF ServerInv, KeysInv

\* The steps of rotations and the clock keep every key known.
LEMMA KeysOnward ==
    ASSUME KeysInv, KeysNext
    PROVE  KeysInv' /\ Known \subseteq Known' /\ now' \in Nat /\ now <= now'
<1>1. KeysInv'
  BY KeysKeep
<1>2. now \in Nat /\ now' \in Nat
  BY <1>1, KeysAssumption DEF KeysInv, KeyTypes
<1>3. Known \subseteq Known' /\ now <= now'
  <2>1. CASE CreateForProduct
    BY <1>2, <2>1 DEF CreateForProduct, Known
  <2>2. ASSUME NEW r \in Rotators, RotateRead(r) \/ RotateWrite(r) \/ RotateAbort(r)
        PROVE  Known \subseteq Known' /\ now <= now'
    <3>1. active' = active /\ retired' = retired /\ now' = now
      BY <2>2 DEF RotateRead, RotateWrite, RotateAbort
    <3> QED BY <1>2, <3>1 DEF Known
  <2>3. ASSUME NEW r \in Rotators, RotateCommit(r)
        PROVE  Known \subseteq Known' /\ now <= now'
    <3>1. 0 \notin active
      BY DEF KeysInv, KeyTypes
    <3> QED BY <1>2, <2>3, <3>1 DEF RotateCommit, OldKey, Known
  <2>4. CASE Tick
    BY <1>2, <2>4 DEF Tick, Known
  <2> QED BY <2>1, <2>2, <2>3, <2>4 DEF KeysNext
<1> QED BY <1>1, <1>2, <1>3

\* Steps that leave the server alone.
LEMMA ServerIdle ==
    ASSUME ServerInv, UNCHANGED keyVars, UNCHANGED <<license, revokedOn>>
    PROVE  ServerInv' /\ Onward
<1>1. KeysInv'
  BY KeysKeep DEF ServerInv
<1>2. now' = now /\ Known' = Known
  BY DEF keyVars, Known
<1> QED BY <1>1, <1>2, Days DEF ServerInv, Onward

\* A license that is activated or revoked while the keys stay as they are.
LEMMA ServerWrites ==
    ASSUME ServerInv, UNCHANGED keyVars,
           \/ license # "REVOKED" /\ license' = "ACTIVE" /\ UNCHANGED revokedOn
           \/ Revoke
    PROVE  ServerInv' /\ Onward
<1>1. KeysInv'
  BY KeysKeep DEF ServerInv
<1>2. now' = now /\ Known' = Known
  BY DEF keyVars, Known
<1> QED BY <1>1, <1>2, Days DEF ServerInv, Onward, Revoke, Statuses

\* Whatever happens, the server's side stays good and goes on.
LEMMA ServerStep == ClientInv /\ [Next]_vars => ServerInv' /\ Onward
<1> SUFFICES ASSUME ClientInv, [Next]_vars PROVE ServerInv' /\ Onward
  OBVIOUS
<1>1. ServerInv
  BY DEF ClientInv
<1>2. CASE KeysStep
  <2>1. KeysInv' /\ Known \subseteq Known' /\ now' \in Nat /\ now <= now'
    BY <1>1, <1>2, KeysOnward DEF KeysStep, ServerInv
  <2>2. license' = license /\ revokedOn' = revokedOn
    BY <1>2 DEF KeysStep, clientVars
  <2> QED BY <1>1, <2>1, <2>2, Days DEF ServerInv, Onward
<1>3. ASSUME NEW c \in Calls, ServerActivate(c) PROVE ServerInv' /\ Onward
  <2>1. CASE UNCHANGED license
    BY <1>1, <1>3, <2>1, ServerIdle DEF ServerActivate
  <2>2. CASE Activates /\ license' = "ACTIVE"
    BY <1>1, <1>3, <2>2, ServerWrites DEF ServerActivate, Activates
  <2> QED BY <1>3, <2>1, <2>2 DEF ServerActivate
<1>4. ASSUME NEW c \in Calls, ServerDeactivate(c) PROVE ServerInv' /\ Onward
  BY <1>1, <1>4, ServerWrites DEF ServerDeactivate
<1>5. CASE AdminRevoke
  BY <1>1, <1>5, ServerWrites DEF AdminRevoke
<1>6. CASE UNCHANGED keyVars /\ UNCHANGED <<license, revokedOn>>
  BY <1>1, <1>6, ServerIdle
<1>7. ASSUME NEW c \in Calls,
             \/ StartActivate(c) \/ StartVerify(c) \/ StartDeactivate(c)
             \/ CheckProof(c) \/ WriteState(c) \/ ClearState(c) \/ ThrowSigFail(c)
             \/ NetworkFails(c) \/ ServerVerify(c) \/ ServerTooLate(c)
      PROVE  UNCHANGED keyVars /\ UNCHANGED <<license, revokedOn>>
  BY <1>7 DEF StartActivate, StartVerify, StartDeactivate, StartCached,
     CheckProof, WriteState, ClearState, ThrowSigFail, NetworkFails, ServerVerify,
     ServerTooLate
<1>8. CASE ClientCrash
  BY <1>6, <1>8 DEF ClientCrash
<1>9. CASE UNCHANGED vars
  BY <1>6, <1>9 DEF vars, clientVars
<1> QED BY <1>2, <1>3, <1>4, <1>5, <1>6, <1>7, <1>8, <1>9 DEF Next

-----------------------------------------------------------------------------
(* Calls and the cache                                                     *)

\* A call that waits stays good.
LEMMA CallWaits ==
    ASSUME ServerInv, ServerInv', Onward, NEW q, CallGood(q)
    PROVE  CallGood(q)'
<1>1. now \in Nat /\ now' \in Nat /\ revokedOn \in Nat /\ q.day \in Nat
  BY Days DEF CallGood, Call, Onward
<1> QED BY <1>1 DEF CallGood, Onward

\* So does the cache.
LEMMA StoreWaits ==
    ASSUME ServerInv, ServerInv', Onward, NEW s, StoreGood(s)
    PROVE  StoreGood(s)'
<1>1. now \in Nat /\ now' \in Nat /\ revokedOn \in Nat /\ s.last \in Nat
  BY Days DEF StoreGood, State, Onward
<1> QED BY <1>1 DEF StoreGood, Onward

\* The empty call and the empty cache are good.
LEMMA EmptyGood ==
    ASSUME ServerInv
    PROVE  CallGood(NoCall) /\ StoreGood(NoState)
<1>1. now \in Nat
  BY Days
<1> QED BY <1>1 DEF CallGood, StoreGood, NoCall, NoState, Call, State

\* One call is replaced.
LEMMA PutGood ==
    ASSUME ClientInv, ServerInv', Onward, NEW c \in Calls, NEW r, Put(c, r), CallGood(r)',
           NEW d \in Calls
    PROVE  CallGood(call[d])'
<1>1. PICK q : q = call'[d]
  OBVIOUS
<1>2. CallGood(q)'
  <2>1. CASE d = c
    <3>1. q = r
      BY <1>1, <2>1 DEF Put, ClientInv
    <3> QED BY <3>1
  <2>2. CASE d # c
    <3>1. q = call[d]
      BY <1>1, <2>2 DEF Put, ClientInv
    <3>2. CallGood(q)
      BY <3>1 DEF ClientInv, CallGood
    <3> QED BY <3>2, CallWaits DEF ClientInv
  <2> QED BY <2>1, <2>2
<1> QED BY <1>1, <1>2 DEF CallGood

\* A step that replaces one call and leaves the cache alone.
LEMMA CallMoves ==
    ASSUME ClientInv, ServerInv', Onward, NEW c \in Calls, NEW r, Put(c, r), CallGood(r)',
           UNCHANGED store
    PROVE  ClientInv'
<1>1. PICK s : s = store
  OBVIOUS
<1>2. StoreGood(s)'
  <2>1. StoreGood(s)
    BY <1>1 DEF ClientInv, StoreGood
  <2> QED BY <2>1, StoreWaits DEF ClientInv
<1>3. StoreGood(store)'
  BY <1>1, <1>2 DEF StoreGood
<1>4. call' \in [Calls -> Call]
  BY DEF Put, ClientInv, CallGood
<1>5. \A d \in Calls : CallGood(call[d])'
  BY PutGood
<1> QED BY <1>3, <1>4, <1>5 DEF ClientInv

\* A step that ends one call and empties the cache, fills it or leaves it.
LEMMA CallEnds ==
    ASSUME ClientInv, ServerInv', Onward, NEW c \in Calls, Put(c, NoCall),
           NEW s, store' = s, StoreGood(s)'
    PROVE  ClientInv'
<1>1. PICK r : r = NoCall
  OBVIOUS
<1>2. CallGood(r)'
  <2>1. CallGood(r)
    BY <1>1, EmptyGood DEF ClientInv, CallGood, NoCall
  <2> QED BY <2>1, CallWaits DEF ClientInv
<1>3. call' \in [Calls -> Call]
  BY <1>1, <1>2 DEF Put, ClientInv, CallGood
<1>4. \A d \in Calls : CallGood(call[d])'
  BY <1>1, <1>2, PutGood
<1>5. StoreGood(store)'
  BY DEF StoreGood
<1> QED BY <1>3, <1>4, <1>5 DEF ClientInv

\* The cache is good after any step that leaves it or empties it.
LEMMA KeptOrEmpty ==
    ASSUME ClientInv, ServerInv', Onward, store' \in {store, NoState}
    PROVE  \E s : store' = s /\ StoreGood(s)'
<1>1. PICK s : s = store'
  OBVIOUS
<1>2. StoreGood(s)
  BY <1>1, EmptyGood DEF ClientInv, StoreGood, NoState
<1> QED BY <1>1, <1>2, StoreWaits DEF ClientInv

\* Starting a call.
LEMMA StartKeeps ==
    ASSUME ClientInv, ServerInv', Onward, NEW c \in Calls,
           StartActivate(c) \/ StartVerify(c) \/ StartDeactivate(c)
    PROVE  ClientInv'
<1>1. /\ store \in State /\ now \in Nat /\ StoreGood(store)
      /\ store.status # "NONE" => license # "NONE"
      /\ store.status = "REVOKED" => license = "REVOKED"
  BY Days DEF ClientInv, StoreGood
<1>2. CASE StartActivate(c)
  <2>1. PICK r : r = [NoCall EXCEPT !.op = "activate", !.at = "sent", !.was = store.status]
    OBVIOUS
  <2>2. /\ r \in Call /\ r.day = 0 /\ r.was = store.status /\ r.op = "activate"
        /\ r.at = "sent" /\ r.status = "NONE"
    BY <1>1, <2>1 DEF Call, NoCall, State
  <2>3. CallGood(r)
    BY <1>1, <2>2 DEF CallGood
  <2>4. CallGood(r)'
    BY <2>3, CallWaits DEF ClientInv
  <2> QED BY <1>2, <2>1, <2>4, CallMoves DEF StartActivate
<1>3. ASSUME NEW op \in {"verify", "deactivate"}, StartCached(c, op) PROVE ClientInv'
  <2>1. PICK r : r = [NoCall EXCEPT !.op = op, !.at = "sent", !.was = store.status,
                                    !.wasKid = store.kid, !.day = now]
    OBVIOUS
  <2>2. /\ r \in Call /\ r.day = now /\ r.was = store.status /\ r.op = op
        /\ r.at = "sent" /\ r.status = "NONE"
    BY <1>1, <2>1 DEF Call, NoCall, State
  <2>3. CallGood(r)
    BY <1>1, <1>3, <2>2 DEF CallGood, StartCached
  <2>4. CallGood(r)'
    BY <2>3, CallWaits DEF ClientInv
  <2> QED BY <1>3, <2>1, <2>4, CallMoves DEF StartCached
<1> QED BY <1>2, <1>3 DEF StartVerify, StartDeactivate

\* Checking the proof and writing or clearing the cache.
LEMMA FinishKeeps ==
    ASSUME ClientInv, ServerInv', Onward, NEW c \in Calls,
           CheckProof(c) \/ WriteState(c) \/ ClearState(c) \/ ThrowSigFail(c) \/ ServerTooLate(c)
    PROVE  ClientInv'
<1>1. PICK q : q = call[c]
  OBVIOUS
<1>2. CallGood(q)
  BY <1>1 DEF ClientInv, CallGood
<1>3. ASSUME NEW at \in {"sigfail", "write"}, q.op \in {"activate", "verify"},
             Put(c, [q EXCEPT !.at = at]), UNCHANGED store
      PROVE  ClientInv'
  <2>1. PICK r : r = [q EXCEPT !.at = at]
    OBVIOUS
  <2>2. /\ r \in Call /\ r.day = q.day /\ r.was = q.was /\ r.status = q.status
        /\ r.op = q.op /\ r.kid = q.kid
    BY <1>2, <2>1 DEF CallGood, Call
  <2>3. CallGood(r)
    BY <1>2, <1>3, <2>2 DEF CallGood
  <2>4. CallGood(r)'
    BY <2>3, CallWaits DEF ClientInv
  <2> QED BY <1>3, <2>1, <2>4, CallMoves
<1>4. CASE Put(c, NoCall) /\ store' \in {store, NoState}
  BY <1>4, KeptOrEmpty, CallEnds
<1>5. CASE WriteState(c)
  <2>1. PICK s : s = [status |-> q.status, kid |-> q.kid, last |-> VerifiedOn(c), by |-> q.op]
    OBVIOUS
  <2>2. q.at = "write" /\ q.op \in {"activate", "verify"} /\ store' = s /\ Put(c, NoCall)
    BY <1>1, <1>2, <1>5, <2>1 DEF WriteState, CallGood, Put
  <2>3. /\ now \in Nat /\ VerifiedOn(c) \in Nat /\ VerifiedOn(c) <= now
        /\ q.op = "verify" => VerifiedOn(c) = q.day
    BY <1>1, <1>2, Days DEF VerifiedOn, CallGood, Call, ClientInv
  <2>4. StoreGood(s)
    BY <1>2, <2>1, <2>2, <2>3 DEF StoreGood, State, CallGood, Call
  <2>5. StoreGood(s)'
    BY <2>4, StoreWaits DEF ClientInv
  <2> QED BY <2>2, <2>5, CallEnds
<1> QED
  BY <1>1, <1>3, <1>4, <1>5
     DEF CheckProof, ClearState, ThrowSigFail, ServerTooLate

\* What is left of a call when the client no longer waits for it.
LEMMA OrphanGood ==
    ASSUME ServerInv, NEW c \in Calls, CallGood(call[c])
    PROVE  CallGood(Orphan(c))
<1>1. PICK q : q = call[c]
  OBVIOUS
<1>2. CallGood(q)
  BY <1>1 DEF CallGood
<1>3. Orphan(c) = IF q.op = "verify" THEN NoCall
                  ELSE [NoCall EXCEPT !.op = q.op, !.at = "orphan", !.day = q.day]
  BY <1>1 DEF Orphan
<1>4. CASE q.op = "verify"
  BY <1>3, <1>4, EmptyGood DEF CallGood, NoCall
<1>5. CASE q.op # "verify"
  <2>1. PICK r : r = [NoCall EXCEPT !.op = q.op, !.at = "orphan", !.day = q.day]
    OBVIOUS
  <2>2. CallGood(r)
    BY <1>2, <1>5, <2>1 DEF CallGood, Call, NoCall
  <2> QED BY <1>3, <1>5, <2>1, <2>2 DEF CallGood
<1> QED BY <1>4, <1>5

\* The network and the application failing.
LEMMA FailKeeps ==
    ASSUME ClientInv, ServerInv', Onward,
           ClientCrash \/ \E c \in Calls : NetworkFails(c)
    PROVE  ClientInv'
<1>1. ASSUME NEW c \in Calls, NetworkFails(c), Put(c, NoCall) PROVE ClientInv'
  <2>1. store' \in {store, NoState}
    BY <1>1 DEF NetworkFails
  <2> QED BY <1>1, <2>1, KeptOrEmpty, CallEnds
<1>2. ASSUME NEW c \in Calls, NetworkFails(c), Put(c, Orphan(c)) PROVE ClientInv'
  <2>1. PICK r : r = Orphan(c)
    OBVIOUS
  <2>2. CallGood(r)
    BY <2>1, OrphanGood DEF ClientInv, CallGood
  <2>3. CallGood(r)'
    BY <2>2, CallWaits DEF ClientInv
  <2>4. \A d \in Calls : CallGood(call[d])'
    BY <1>2, <2>1, <2>3, PutGood
  <2>5. call' \in [Calls -> Call]
    BY <1>2, <2>1, <2>3 DEF Put, ClientInv, CallGood
  <2>6. PICK s : store' = s /\ StoreGood(s)'
    <3>1. store' \in {store, NoState}
      BY <1>2 DEF NetworkFails
    <3> QED BY <3>1, KeptOrEmpty
  <2> QED BY <2>4, <2>5, <2>6 DEF ClientInv, StoreGood
<1>3. CASE ClientCrash
  <2>1. \A d \in Calls : CallGood(call[d])'
    <3> SUFFICES ASSUME NEW d \in Calls PROVE CallGood(call[d])'
      OBVIOUS
    <3>1. PICK r : r = call'[d]
      OBVIOUS
    <3>2. CallGood(r)
      <4>1. r = Orphan(d) \/ r = NoCall
        BY <1>3, <3>1 DEF ClientCrash
      <4>2. CallGood(Orphan(d)) /\ CallGood(NoCall)
        BY OrphanGood, EmptyGood DEF ClientInv
      <4>3. CASE r = Orphan(d)
        BY <4>2, <4>3 DEF CallGood
      <4>4. CASE r = NoCall
        BY <4>2, <4>4 DEF CallGood, NoCall
      <4> QED BY <4>1, <4>3, <4>4
    <3>3. CallGood(r)'
      BY <3>2, CallWaits DEF ClientInv
    <3> QED BY <3>1, <3>3 DEF CallGood
  <2>2. call' \in [Calls -> Call]
    <3>1. DOMAIN call' = Calls /\ call' = [d \in Calls |-> call'[d]]
      BY <1>3 DEF ClientCrash
    <3>2. \A d \in Calls : call'[d] \in Call
      BY <2>1 DEF CallGood
    <3> QED BY <3>1, <3>2
  <2>3. PICK s : store' = s /\ StoreGood(s)'
    <3>1. store' \in {store, NoState}
      BY <1>3 DEF ClientCrash
    <3> QED BY <3>1, KeptOrEmpty
  <2> QED BY <2>1, <2>2, <2>3 DEF ClientInv, StoreGood
<1> QED BY <1>1, <1>2, <1>3 DEF NetworkFails

\* The server's answers.
LEMMA AnswerKeeps ==
    ASSUME ClientInv, ServerInv', Onward, NEW c \in Calls,
           ServerActivate(c) \/ ServerVerify(c) \/ ServerDeactivate(c)
    PROVE  ClientInv'
<1>1. PICK q : q = call[c]
  OBVIOUS
<1>2. CallGood(q)
  BY <1>1 DEF ClientInv, CallGood
<1>3. store' = store
  BY DEF ServerActivate, ServerVerify, ServerDeactivate
<1>4. Signer \in Known /\ Signer \in Nat
  <2>1. active # {}
    BY DEF ClientInv, ServerInv, KeysInv, NewestIsActive
  <2> QED BY <2>1, SignerIs, KeysAreNumbers DEF ClientInv, ServerInv, KeysInv, Known
<1>5. CASE Put(c, NoCall)
  BY <1>3, <1>5, KeptOrEmpty, CallEnds
<1>6. ASSUME NEW a, Put(c, a), CallGood(a)' PROVE ClientInv'
  BY <1>3, <1>6, CallMoves
<1>7. CASE ServerActivate(c) /\ ~Put(c, NoCall)
  <2>1. PICK a : a = [q EXCEPT !.at = "answered", !.status = "ACTIVE", !.kid = Signer]
    OBVIOUS
  <2>2. /\ Put(c, a) /\ q.op = "activate" /\ license # "REVOKED" /\ license' = "ACTIVE"
        /\ Known' = Known
    BY <1>1, <1>7, <2>1 DEF ServerActivate, Answer, Activates, keyVars, Known
  <2>3. /\ a \in Call /\ a.day = q.day /\ a.was = q.was /\ a.status = "ACTIVE"
        /\ a.at = "answered" /\ a.op = q.op /\ a.kid = Signer
    BY <1>2, <1>4, <2>1 DEF CallGood, Call
  <2>4. CallGood(q)'
    BY <1>2, CallWaits DEF ClientInv
  <2>5. CallGood(a)'
    BY <1>2, <1>4, <2>2, <2>3, <2>4 DEF CallGood
  <2> QED BY <1>6, <2>2, <2>5
<1>8. CASE ServerVerify(c) /\ ~Put(c, NoCall)
  <2>1. PICK a : a = [q EXCEPT !.at = "answered", !.status = license, !.kid = Signer]
    OBVIOUS
  <2>2. Put(c, a) /\ q.op = "verify"
    BY <1>1, <1>8, <2>1 DEF ServerVerify, Answer
  <2>3. /\ a \in Call /\ a.day = q.day /\ a.was = q.was /\ a.status = license
        /\ a.at = "answered" /\ a.op = q.op /\ a.kid = Signer
    BY <1>2, <1>4, <2>1 DEF CallGood, Call, ClientInv, ServerInv, Statuses
  <2>4. CallGood(a)
    BY <1>2, <1>4, <2>2, <2>3 DEF CallGood
  <2>5. CallGood(a)'
    BY <2>4, CallWaits DEF ClientInv
  <2> QED BY <1>6, <2>2, <2>5
<1>9. CASE ServerDeactivate(c) /\ ~Put(c, NoCall)
  <2>1. PICK a : a = [q EXCEPT !.at = "answered"]
    OBVIOUS
  <2>2. Put(c, a) /\ q.op = "deactivate"
    BY <1>1, <1>9, <2>1 DEF ServerDeactivate, Answer
  <2>3. /\ a \in Call /\ a.day = q.day /\ a.was = q.was /\ a.status = q.status
        /\ a.at = "answered" /\ a.op = q.op /\ a.kid = q.kid
    BY <1>2, <2>1 DEF CallGood, Call
  <2>4. CallGood(a)
    BY <1>2, <2>2, <2>3 DEF CallGood
  <2>5. CallGood(a)'
    BY <2>4, CallWaits DEF ClientInv
  <2> QED BY <1>6, <2>2, <2>5
<1> QED BY <1>5, <1>7, <1>8, <1>9

\* Steps of the server alone, and stuttering.
LEMMA OthersKeep ==
    ASSUME ClientInv, ServerInv', Onward, UNCHANGED <<store, call>>
    PROVE  ClientInv'
<1>1. \A d \in Calls : CallGood(call[d])'
  <2> SUFFICES ASSUME NEW d \in Calls PROVE CallGood(call[d])'
    OBVIOUS
  <2>1. PICK q : q = call[d]
    OBVIOUS
  <2>2. CallGood(q)
    BY <2>1 DEF ClientInv, CallGood
  <2>3. CallGood(q)'
    BY <2>2, CallWaits DEF ClientInv
  <2> QED BY <2>1, <2>3 DEF CallGood
<1>2. PICK s : store' = s /\ StoreGood(s)'
  BY KeptOrEmpty
<1>3. call' \in [Calls -> Call]
  BY DEF ClientInv
<1> QED BY <1>1, <1>2, <1>3 DEF ClientInv, StoreGood

\* Every step keeps the invariant.
LEMMA ClientStep == ClientInv /\ [Next]_vars => ClientInv'
<1> SUFFICES ASSUME ClientInv, [Next]_vars PROVE ClientInv'
  OBVIOUS
<1>1. ServerInv' /\ Onward
  BY ServerStep
<1>2. ASSUME NEW c \in Calls,
             StartActivate(c) \/ StartVerify(c) \/ StartDeactivate(c)
      PROVE  ClientInv'
  BY <1>1, <1>2, StartKeeps
<1>3. ASSUME NEW c \in Calls,
             \/ CheckProof(c) \/ WriteState(c) \/ ClearState(c) \/ ThrowSigFail(c)
             \/ ServerTooLate(c)
      PROVE  ClientInv'
  BY <1>1, <1>3, FinishKeeps
<1>4. ASSUME NEW c \in Calls, NetworkFails(c) PROVE ClientInv'
  BY <1>1, <1>4, FailKeeps
<1>5. ASSUME NEW c \in Calls, ServerActivate(c) \/ ServerVerify(c) \/ ServerDeactivate(c)
      PROVE  ClientInv'
  BY <1>1, <1>5, AnswerKeeps
<1>6. CASE ClientCrash
  BY <1>1, <1>6, FailKeeps
<1>7. CASE AdminRevoke \/ KeysStep \/ UNCHANGED vars
  <2>1. UNCHANGED <<store, call>>
    BY <1>7 DEF AdminRevoke, KeysStep, clientVars, vars
  <2> QED BY <1>1, <2>1, OthersKeep
<1> QED BY <1>2, <1>3, <1>4, <1>5, <1>6, <1>7 DEF Next

\* The invariant holds in every reachable state.
THEOREM ClientInvHolds == Spec => []ClientInv
<1>1. Init => ClientInv
  <2> SUFFICES ASSUME Init PROVE ClientInv
    OBVIOUS
  <2>1. \A r \in Rotators : rot[r] = NoRotation
    BY DEF Init
  <2>2. NoRotation \in Rotation(1, 0) /\ NoRotation.at = "idle"
    BY DEF NoRotation, Rotation
  <2>3. KeyTypes
    <3>1. 1 \in 0 .. MaxKeys /\ 0 \in 0 .. MaxTime
      BY KeysAssumption, ClientAssumption
    <3>2. 1 .. 1 = {1} /\ \A k \in Keys : signedOn[k] = 0
      BY DEF Init
    <3>3. signedOn \in [Keys -> 0 .. now] /\ retiresAt \in [Keys -> Nat]
      BY DEF Init
    <3>4. rot \in [Rotators -> Rotation(made, now)]
      BY <2>2 DEF Init
    <3> QED BY <3>1, <3>2, <3>3, <3>4 DEF Init, KeyTypes, Bundled
  <2>4. /\ Known = {1} /\ Rotations /\ InOrder /\ NewestIsActive /\ NewestRetired
        /\ WindowCoversProofs /\ active \cap retired = {}
    BY <2>1, <2>2 DEF Init, Rotations, InOrder, NewestIsActive, NewestRetired,
       WindowCoversProofs, Known, Bundled
  <2>5. ServerInv
    BY <2>3, <2>4 DEF Init, ServerInv, KeysInv, Bundled, Statuses
  <2>6. CallGood(NoCall) /\ StoreGood(NoState)
    BY <2>5, EmptyGood
  <2> QED BY <2>5, <2>6 DEF Init, ClientInv, CallGood
<1> QED BY <1>1, ClientStep, PTL DEF Spec

-----------------------------------------------------------------------------
(* What follows                                                            *)

\* The cache, the calls and the server are well formed in every state.
THEOREM ClientTypes == Spec => []ClientTypeOK
<1>1. ClientInv => ClientTypeOK
  <2> SUFFICES ASSUME ClientInv PROVE ClientTypeOK
    OBVIOUS
  <2>1. KeysTypeOK
    BY DEF ClientInv, ServerInv, KeysInv, KeyTypes, KeysTypeOK, Rotation
  <2>2. revokedOn \in 0 .. now
    BY Days DEF ClientInv
  <2> QED BY <2>1, <2>2 DEF ClientInv, ServerInv, StoreGood, ClientTypeOK, Statuses, Known
<1> QED BY <1>1, ClientInvHolds, PTL

\* Offline or not, an install stops Grace days after its license was revoked:
\* what a verify cached is from no later than the revocation.
THEOREM GraceIsAll == Spec => []RevocationOutlastsGrace
<1>1. ClientInv => RevocationOutlastsGrace
  <2> SUFFICES ASSUME ClientInv, license = "REVOKED", store.by = "verify",
                      now >= revokedOn + Grace
               PROVE  ~Usable
    BY DEF RevocationOutlastsGrace
  <2>1. now \in Nat /\ revokedOn \in Nat /\ store \in State
    BY Days DEF ClientInv, StoreGood
  <2>2. CASE store.status = "ACTIVE"
    <3>1. store.last \in Nat /\ store.last <= revokedOn
      BY <2>1, <2>2 DEF ClientInv, StoreGood, State
    <3>2. now - store.last >= ActiveFor /\ ~(store.last + Grace > now)
      BY <2>1, <3>1, ClientAssumption
    <3>3. Verdict = "locked"
      BY <2>2, <3>2 DEF Verdict
    <3> QED BY <3>3 DEF Usable
  <2>3. CASE store.status # "ACTIVE"
    <3>1. Verdict \in {"missing", "locked"}
      BY <2>1, <2>3 DEF Verdict, State
    <3> QED BY <3>1 DEF Usable
  <2> QED BY <2>2, <2>3
<1> QED BY <1>1, ClientInvHolds, PTL

\* A cache that says REVOKED is right, and the server revives no license.
THEOREM NoRevival == Spec => []RevokedCacheNotRevived
<1>1. ClientInv => RevokedCacheNotRevived
  BY DEF ClientInv, CallGood, RevokedCacheNotRevived
<1> QED BY <1>1, ClientInvHolds, PTL

\* A cached proof's key is the one that signs, or the newest retired one.
THEOREM CachedIsCheckable == Spec => []CachedProofCheckable
<1>1. ClientInv => CachedProofCheckable
  <2> SUFFICES ASSUME ClientInv, store.status # "NONE", Cardinality(active) = 1,
                      \A j, k \in Known : j > store.kid /\ k > store.kid => j = k
               PROVE  store.kid \in Served
    BY DEF CachedProofCheckable, RotatedOnceSince, KeyFound, Known
  <2>1. /\ KeysInv /\ store.kid \in Known /\ Known \subseteq Nat
        /\ made \in Nat /\ active \subseteq 1 .. made /\ retired \subseteq Nat
    BY KeysAreNumbers DEF ClientInv, ServerInv, StoreGood, KeysInv, KeyTypes
  <2>2. active # {} /\ Signer \in active /\ \A j \in Known : j <= Signer
    <3>1. active # {}
      BY <2>1 DEF KeysInv, NewestIsActive
    <3> QED BY <2>1, <3>1, SignerIs
  <2>3. CASE store.kid \in active
    <3>1. IsFiniteSet(active)
      <4>1. 1 \in Int /\ made \in Int
        BY <2>1
      <4>2. IsFiniteSet(1 .. made)
        BY <4>1, FS_Interval, Zenon
      <4> QED BY <2>1, <4>2, FS_Subset
    <3>2. store.kid = Signer
      BY <2>2, <2>3, <3>1, FS_Singleton
    <3> QED BY <2>2, <3>2 DEF Served
  <2>4. CASE store.kid \in retired
    <3>1. PICK m \in retired : \A j \in retired : j <= m
      BY <2>1, <2>4 DEF KeysInv, NewestRetired
    <3>2. Newest(retired) = m
      BY <2>1, <3>1, NewestIs
    <3>3. m = store.kid
      <4>1. m \in Known /\ Signer \in Known /\ m # Signer /\ store.kid # Signer
        BY <2>1, <2>2, <2>4, <3>1 DEF KeysInv, Known
      <4>2. store.kid <= Signer /\ m <= Signer /\ store.kid <= m
        BY <2>1, <2>2, <2>4, <3>1, <4>1
      <4>3. store.kid \in Nat /\ m \in Nat /\ Signer \in Nat
        BY <2>1, <4>1
      <4>4. Signer > store.kid /\ (m = store.kid \/ m > store.kid)
        BY <4>1, <4>2, <4>3
      <4> QED BY <4>1, <4>4
    <3> QED BY <2>2, <2>4, <3>2, <3>3 DEF Served, Previous
  <2> QED BY <2>1, <2>3, <2>4 DEF Known
<1> QED BY <1>1, ClientInvHolds, PTL

=============================================================================
