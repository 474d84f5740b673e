----------------------- MODULE PurchaseCodes_proofs -----------------------
(***************************************************************************)
(* Proofs about the two sources of purchase codes: WebhookMint, for any    *)
(* sets of orders, any prefix relation among their ids, any number of      *)
(* overlapping deliveries and of faults, and CodeImport, for any codes and *)
(* any files.                                                              *)
(***************************************************************************)
EXTENDS WebhookMint, CodeImport, FiniteSetTheorems, TLAPS

\* The deliveries d of an order that are in progress, and those that have found
\* no code and will insert one.
Busy(d) == {s \in Slots : d[s] # "idle"}
Creating(d) == {s \in Slots : d[s] = "create"}

HasCode(o) == \E p \in Within[o] : minted[p] > 0

Shapes ==
    /\ known \in BOOLEAN
    /\ minted \in [Orders -> Nat]
    /\ dlv \in [Orders -> [Slots -> Delivery]]
    /\ acked \subseteq Orders
    /\ faults \in 0 .. MaxFaults
    /\ peak \in [Orders -> 0 .. Cardinality(Slots)]

\* An answer follows a code.
Answers == \A o \in Orders : o \in acked \/ (\E s \in Slots : dlv[o][s] = "reply") => HasCode(o)

\* Inserts to come are by deliveries that have overlapped.
Bounded ==
    \A o \in Orders :
      /\ Cardinality(Busy(dlv[o])) <= peak[o]
      /\ minted[o] + Cardinality(Creating(dlv[o])) <= peak[o]

WebhookInv == Shapes /\ Answers /\ Bounded

-----------------------------------------------------------------------------
\* Codes and deliveries are counted by finite sets.
LEMMA SlotsAreFinite ==
    ASSUME NEW d
    PROVE  /\ IsFiniteSet(Busy(d)) /\ IsFiniteSet(Creating(d))
           /\ Cardinality(Busy(d)) \in Nat /\ Cardinality(Creating(d)) \in Nat
           /\ Cardinality(Slots) \in Nat
           /\ Cardinality(Busy(d)) <= Cardinality(Slots)
           /\ Cardinality(Creating(d)) <= Cardinality(Busy(d))
<1>1. IsFiniteSet(Slots)
  BY WebhookAssumption
<1>2. Busy(d) \in SUBSET Slots /\ Creating(d) \in SUBSET Busy(d)
  BY DEF Busy, Creating
<1>3. IsFiniteSet(Busy(d)) /\ Cardinality(Busy(d)) <= Cardinality(Slots)
  BY <1>1, <1>2, FS_Subset
<1>4. IsFiniteSet(Creating(d)) /\ Cardinality(Creating(d)) <= Cardinality(Busy(d))
  BY <1>2, <1>3, FS_Subset
<1> QED BY <1>1, <1>3, <1>4, FS_CardinalityType

\* One delivery starts, moves on or ends.
LEMMA Started ==
    ASSUME NEW d \in [Slots -> Delivery], NEW s \in Slots, d[s] = "idle"
    PROVE  LET e == [d EXCEPT ![s] = "lookup"] IN
           /\ Cardinality(Busy(e)) = Cardinality(Busy(d)) + 1
           /\ Creating(e) = Creating(d)
<1> DEFINE e == [d EXCEPT ![s] = "lookup"]
<1>1. e[s] = "lookup" /\ \A u \in Slots \ {s} : e[u] = d[u]
  OBVIOUS
<1> HIDE DEF e
<1>2. Busy(e) = Busy(d) \cup {s} /\ s \notin Busy(d)
  BY <1>1 DEF Busy
<1>3. Creating(e) = Creating(d)
  BY <1>1 DEF Creating
<1>4. Cardinality(Busy(e)) = Cardinality(Busy(d)) + 1
  BY <1>2, SlotsAreFinite, FS_AddElement
<1> QED BY <1>3, <1>4 DEF e

\* What one delivery that moves on does to the counts.
LEMMA Moved ==
    ASSUME NEW d \in [Slots -> Delivery], NEW s \in Slots, NEW v \in Delivery, d[s] # "idle"
    PROVE  LET e == [d EXCEPT ![s] = v] IN
           /\ Cardinality(Busy(e)) <= Cardinality(Busy(d))
           /\ v # "create" => Cardinality(Creating(e)) <= Cardinality(Creating(d))
           /\ d[s] = "create" /\ v # "create" =>
                Cardinality(Creating(e)) + 1 = Cardinality(Creating(d))
<1> DEFINE e == [d EXCEPT ![s] = v]
<1>1. e[s] = v /\ \A u \in Slots \ {s} : e[u] = d[u]
  OBVIOUS
<1> HIDE DEF e
<1>2. Busy(e) \in SUBSET Busy(d) /\ (v # "create" => Creating(e) = Creating(d) \ {s})
  BY <1>1 DEF Busy, Creating
<1>3. Cardinality(Busy(e)) <= Cardinality(Busy(d))
  BY <1>2, SlotsAreFinite, FS_Subset
<1>4. Cardinality(Creating(d) \ {s}) = IF s \in Creating(d) THEN Cardinality(Creating(d)) - 1
                                       ELSE Cardinality(Creating(d))
  BY SlotsAreFinite, FS_RemoveElement
<1>5. d[s] = "create" <=> s \in Creating(d)
  BY DEF Creating
<1>6. Cardinality(Creating(d)) \in Nat
  BY SlotsAreFinite
<1>7. /\ v # "create" => Cardinality(Creating(e)) <= Cardinality(Creating(d))
      /\ d[s] = "create" /\ v # "create" =>
           Cardinality(Creating(e)) + 1 = Cardinality(Creating(d))
  <2>1. v # "create" => Cardinality(Creating(e)) = Cardinality(Creating(d) \ {s})
    BY <1>2, Zenon
  <2> QED BY <1>4, <1>5, <1>6, <2>1
<1> QED BY <1>3, <1>7 DEF e

-----------------------------------------------------------------------------
(* The steps                                                               *)

\* Only the delivery s of o changes, to v.
LEMMA PutIs ==
    ASSUME Shapes, NEW o \in Orders, NEW s \in Slots, NEW v \in Delivery, PutDelivery(o, s, v)
    PROVE  /\ dlv' \in [Orders -> [Slots -> Delivery]]
           /\ dlv[o] \in [Slots -> Delivery] /\ dlv'[o] = [dlv[o] EXCEPT ![s] = v]
           /\ \A p \in Orders \ {o} : dlv'[p] = dlv[p]
BY DEF Shapes, PutDelivery

\* A delivery that answers or ends without an insert.
LEMMA EndKeeps ==
    ASSUME WebhookInv, NEW o \in Orders, NEW s \in Slots, NEW v \in {"idle", "reply"},
           PutDelivery(o, s, v), dlv[o][s] # "idle",
           v = "reply" => HasCode(o),
           known' = known, minted' = minted, peak' = peak, faults' \in 0 .. MaxFaults,
           acked' \in {acked, acked \cup {o}}, acked' = acked \/ HasCode(o)
    PROVE  WebhookInv'
<1>1. Shapes /\ v \in Delivery
  BY DEF WebhookInv, Delivery
<1>2. /\ dlv' \in [Orders -> [Slots -> Delivery]]
      /\ dlv[o] \in [Slots -> Delivery] /\ dlv'[o] = [dlv[o] EXCEPT ![s] = v]
      /\ \A p \in Orders \ {o} : dlv'[p] = dlv[p]
  BY <1>1, PutIs
<1>3. Shapes'
  BY <1>1, <1>2 DEF Shapes
<1>4. Answers'
  <2>1. dlv'[o][s] = v /\ \A u \in Slots \ {s} : dlv'[o][u] = dlv[o][u]
    BY <1>2
  <2>2. \A p \in Orders : HasCode(p)' <=> HasCode(p)
    BY DEF HasCode
  <2>3. \A p \in Orders : (\E u \in Slots : dlv'[p][u] = "reply") =>
           HasCode(p)
    BY <1>2, <2>1 DEF WebhookInv, Answers
  <2>4. \A p \in Orders : p \in acked' => HasCode(p)
    BY DEF WebhookInv, Answers
  <2> QED BY <2>3, <2>4 DEF Answers, HasCode
<1>5. Bounded'
  <2>1. /\ Cardinality(Busy(dlv'[o])) <= Cardinality(Busy(dlv[o]))
        /\ Cardinality(Creating(dlv'[o])) <= Cardinality(Creating(dlv[o]))
    BY <1>1, <1>2, Moved
  <2>2. /\ minted[o] \in Nat /\ peak[o] \in Int
        /\ Cardinality(Busy(dlv[o])) \in Nat /\ Cardinality(Creating(dlv[o])) \in Nat
        /\ Cardinality(Busy(dlv'[o])) \in Nat /\ Cardinality(Creating(dlv'[o])) \in Nat
    BY <1>1, SlotsAreFinite DEF Shapes
  <2>3. /\ Cardinality(Busy(dlv'[o])) <= peak[o]
        /\ minted[o] + Cardinality(Creating(dlv'[o])) <= peak[o]
    <3>1. /\ Cardinality(Busy(dlv[o])) <= peak[o]
          /\ minted[o] + Cardinality(Creating(dlv[o])) <= peak[o]
      BY DEF WebhookInv, Bounded
    <3> QED BY <2>1, <2>2, <3>1
  <2> QED BY <1>2, <2>3 DEF WebhookInv, Bounded
<1> QED BY <1>3, <1>4, <1>5 DEF WebhookInv

\* A delivery that arrives keeps the invariant.
LEMMA ReceiveKeeps ==
    ASSUME WebhookInv, NEW o \in Orders, NEW s \in Slots, Receive(o, s)
    PROVE  WebhookInv'
<1> DEFINE n == Cardinality(InProgress(o))
<1>1. /\ PutDelivery(o, s, "lookup") /\ dlv[o][s] = "idle"
      /\ known' = known /\ minted' = minted /\ acked' = acked /\ faults' = faults
      /\ peak' = [peak EXCEPT ![o] = IF n >= peak[o] THEN n + 1 ELSE peak[o]]
  BY DEF Receive, WebhookInv, Shapes
<1>2. Shapes
  BY DEF WebhookInv
<1>3. /\ dlv' \in [Orders -> [Slots -> Delivery]]
      /\ dlv[o] \in [Slots -> Delivery] /\ dlv'[o] = [dlv[o] EXCEPT ![s] = "lookup"]
      /\ \A p \in Orders \ {o} : dlv'[p] = dlv[p]
  BY <1>1, <1>2, PutIs DEF Delivery
<1>4. /\ Cardinality(Busy(dlv'[o])) = Cardinality(Busy(dlv[o])) + 1
      /\ Creating(dlv'[o]) = Creating(dlv[o])
  BY <1>1, <1>3, Started
<1>5. n = Cardinality(Busy(dlv[o]))
  BY DEF InProgress, Busy
<1> HIDE DEF n
<1>6. /\ n \in Nat /\ Cardinality(Slots) \in Nat /\ n + 1 <= Cardinality(Slots)
      /\ Cardinality(Creating(dlv[o])) \in Nat /\ minted[o] \in Nat /\ peak[o] \in Nat
      /\ n <= peak[o] /\ minted[o] + Cardinality(Creating(dlv[o])) <= peak[o]
      /\ peak[o] <= Cardinality(Slots)
  <2>1. n + 1 <= Cardinality(Slots) /\ Cardinality(Slots) \in Nat /\ n \in Nat
        /\ Cardinality(Creating(dlv[o])) \in Nat
    BY <1>4, <1>5, SlotsAreFinite
  <2> QED BY <1>2, <1>5, <2>1 DEF Shapes, WebhookInv, Bounded
<1>7. /\ peak'[o] = IF n >= peak[o] THEN n + 1 ELSE peak[o]
      /\ \A p \in Orders \ {o} : peak'[p] = peak[p]
  BY <1>1, <1>2 DEF Shapes
<1>8. peak'[o] \in 0 .. Cardinality(Slots) /\ n + 1 <= peak'[o] /\ peak[o] <= peak'[o]
  BY <1>6, <1>7
<1>9. Shapes'
  BY <1>1, <1>2, <1>3, <1>7, <1>8 DEF Shapes
<1>10. Answers'
  BY <1>1, <1>3 DEF WebhookInv, Answers, HasCode
<1>11. Bounded'
  <2>1. minted[o] + Cardinality(Creating(dlv'[o])) <= peak'[o]
    <3>1. Cardinality(Creating(dlv'[o])) = Cardinality(Creating(dlv[o]))
      BY <1>4
    <3> QED BY <1>6, <1>8, <3>1
  <2> QED BY <1>1, <1>3, <1>4, <1>5, <1>7, <1>8, <2>1 DEF WebhookInv, Bounded
<1> QED BY <1>9, <1>10, <1>11 DEF WebhookInv

\* Who goes on to insert has found no code: none has been made for the order.
LEMMA LookupKeeps ==
    ASSUME WebhookInv, NEW o \in Orders, NEW s \in Slots, Lookup(o, s)
    PROVE  WebhookInv'
<1>1. /\ known' = known /\ minted' = minted /\ acked' = acked /\ faults' = faults
      /\ peak' = peak /\ dlv[o][s] = "lookup"
  BY DEF Lookup
<1>2. Shapes
  BY DEF WebhookInv
<1>3. CASE Prior(o) # {} /\ PutDelivery(o, s, "reply")
  <2>1. HasCode(o)
    BY <1>3 DEF Prior, HasCode
  <2> QED BY <1>1, <1>2, <1>3, <2>1, EndKeeps DEF Shapes
<1>4. CASE PutDelivery(o, s, "idle")
  BY <1>1, <1>2, <1>4, EndKeeps DEF Shapes
<1>5. CASE Prior(o) = {} /\ PutDelivery(o, s, "create")
  <2>1. /\ dlv' \in [Orders -> [Slots -> Delivery]]
        /\ dlv[o] \in [Slots -> Delivery] /\ dlv'[o] = [dlv[o] EXCEPT ![s] = "create"]
        /\ \A p \in Orders \ {o} : dlv'[p] = dlv[p]
    BY <1>2, <1>5, PutIs DEF Delivery
  <2>2. minted[o] = 0
    BY <1>2, <1>5, WebhookAssumption DEF Prior, Shapes
  <2>3. Shapes'
    BY <1>1, <1>2, <2>1 DEF Shapes
  <2>4. Answers'
    BY <1>1, <2>1 DEF WebhookInv, Answers, HasCode
  <2>5. Cardinality(Busy(dlv'[o])) <= Cardinality(Busy(dlv[o]))
    BY <1>1, <2>1, Moved DEF Delivery
  <2>6. /\ Cardinality(Busy(dlv'[o])) \in Nat /\ Cardinality(Busy(dlv[o])) \in Nat
        /\ Cardinality(Creating(dlv'[o])) \in Nat
        /\ Cardinality(Creating(dlv'[o])) <= Cardinality(Busy(dlv'[o]))
        /\ peak[o] \in Nat /\ Cardinality(Busy(dlv[o])) <= peak[o]
    BY <1>2, SlotsAreFinite DEF Shapes, WebhookInv, Bounded
  <2>7. /\ Cardinality(Busy(dlv'[o])) <= peak[o]
        /\ minted[o] + Cardinality(Creating(dlv'[o])) <= peak[o]
    BY <2>2, <2>5, <2>6
  <2>8. Bounded'
    BY <1>1, <2>1, <2>7 DEF WebhookInv, Bounded
  <2> QED BY <2>3, <2>4, <2>8 DEF WebhookInv
<1> QED BY <1>3, <1>4, <1>5 DEF Lookup, Replay, NoDelivery

\* So does the insert of a code, answered or not.
LEMMA MintedKeeps ==
    ASSUME WebhookInv, NEW o \in Orders, NEW s \in Slots, NEW v \in {"idle", "reply"},
           dlv[o][s] = "create", PutDelivery(o, s, v), minted' = [minted EXCEPT ![o] = @ + 1],
           known' = known, acked' = acked, peak' = peak, faults' \in 0 .. MaxFaults
    PROVE  WebhookInv'
<1>1. v \in Delivery
  BY DEF Delivery
<1>2. Shapes
  BY DEF WebhookInv
<1>3. /\ dlv' \in [Orders -> [Slots -> Delivery]]
      /\ dlv[o] \in [Slots -> Delivery] /\ dlv'[o] = [dlv[o] EXCEPT ![s] = v]
      /\ \A p \in Orders \ {o} : dlv'[p] = dlv[p]
  BY <1>1, <1>2, PutIs
<1>4. /\ minted'[o] = minted[o] + 1 /\ \A p \in Orders \ {o} : minted'[p] = minted[p]
      /\ minted[o] \in Nat /\ \A p \in Orders : minted[p] \in Nat
  BY <1>2 DEF Shapes
<1>5. Shapes'
  BY <1>1, <1>2, <1>3, <1>4 DEF Shapes
<1>6. Answers'
  <2>1. \A p \in Orders : HasCode(p) => HasCode(p)'
    <3> TAKE p \in Orders
    <3> HAVE HasCode(p)
    <3>1. PICK q \in Within[p] : minted[q] > 0
      BY DEF HasCode
    <3>2. q \in Orders
      BY WebhookAssumption
    <3>3. minted'[q] > 0
      BY <1>4, <3>1, <3>2
    <3> QED BY <3>3 DEF HasCode
  <2>2. HasCode(o)'
    BY <1>4, WebhookAssumption DEF HasCode
  <2>3. \A p \in Orders \ {o} : p \in acked' \/ (\E u \in Slots : dlv'[p][u] = "reply") => HasCode(p)
    BY <1>1, <1>3 DEF WebhookInv, Answers
  <2>4. \A p \in Orders : p \in acked' \/ (\E u \in Slots : dlv'[p][u] = "reply") => HasCode(p)'
    BY <2>1, <2>2, <2>3
  <2> QED BY <2>4 DEF Answers
<1>7. Bounded'
  <2>1. /\ Cardinality(Busy(dlv'[o])) <= Cardinality(Busy(dlv[o]))
        /\ Cardinality(Creating(dlv'[o])) + 1 = Cardinality(Creating(dlv[o]))
    BY <1>1, <1>3, Moved
  <2>2. /\ Cardinality(Busy(dlv'[o])) \in Nat /\ Cardinality(Busy(dlv[o])) \in Nat
        /\ Cardinality(Creating(dlv'[o])) \in Nat
        /\ peak[o] \in Nat /\ Cardinality(Busy(dlv[o])) <= peak[o]
        /\ minted[o] + Cardinality(Creating(dlv[o])) <= peak[o]
    BY <1>2, SlotsAreFinite DEF Shapes, WebhookInv, Bounded
  <2>3. /\ Cardinality(Busy(dlv'[o])) <= peak[o]
        /\ minted'[o] + Cardinality(Creating(dlv'[o])) <= peak[o]
    BY <1>4, <2>1, <2>2
  <2> QED BY <1>1, <1>3, <1>4, <2>3 DEF WebhookInv, Bounded
<1> QED BY <1>5, <1>6, <1>7 DEF WebhookInv

\* The insert is a step of a delivery, or fails after it has put the row; a call
\* that fails without one only ends the delivery.
LEMMA MintKeeps ==
    ASSUME WebhookInv, NEW o \in Orders, NEW s \in Slots, Mint(o, s) \/ CallFails(o, s)
    PROVE  WebhookInv'
<1>1. Shapes
  BY DEF WebhookInv
<1>2. CASE Mint(o, s)
  <2>1. faults' \in 0 .. MaxFaults
    BY <1>1, <1>2 DEF Mint, Shapes
  <2> QED BY <1>1, <1>2, <2>1, MintedKeeps DEF Mint, Minted, Shapes
<1>3. CASE CallFails(o, s)
  <2>1. /\ dlv[o][s] \in {"lookup", "create"} /\ PutDelivery(o, s, "idle")
        /\ known' = known /\ acked' = acked /\ peak' = peak
        /\ minted' = minted \/ (dlv[o][s] = "create" /\ minted' = [minted EXCEPT ![o] = @ + 1])
    BY <1>3 DEF CallFails, NoDelivery, Minted
  <2>2. faults' \in 0 .. MaxFaults
    BY <1>1, <1>3, WebhookAssumption DEF CallFails, Shapes
  <2>3. CASE minted' = minted
    BY <2>1, <2>2, <2>3, EndKeeps
  <2>4. CASE dlv[o][s] = "create" /\ minted' = [minted EXCEPT ![o] = @ + 1]
    BY <2>1, <2>2, <2>4, MintedKeeps
  <2> QED BY <2>1, <2>3, <2>4
<1> QED BY <1>2, <1>3

\* So does the answer.
LEMMA ReplyKeeps ==
    ASSUME WebhookInv, NEW o \in Orders, NEW s \in Slots, Reply(o, s) \/ ReplyLost(o, s)
    PROVE  WebhookInv'
<1>1. HasCode(o)
  BY DEF WebhookInv, Answers, Reply, ReplyLost
<1>2. /\ known' = known /\ minted' = minted /\ peak' = peak /\ dlv[o][s] # "idle"
      /\ PutDelivery(o, s, "idle") /\ acked' \in {acked, acked \cup {o}}
      /\ faults' \in {faults, faults + 1} /\ (faults' = faults + 1 => faults < MaxFaults)
  BY DEF Reply, ReplyLost, NoDelivery, WebhookInv, Shapes
<1>3. faults' \in 0 .. MaxFaults
  BY <1>2, WebhookAssumption DEF WebhookInv, Shapes
<1> QED BY <1>1, <1>2, <1>3, EndKeeps

\* So do a crash, which forgets the deliveries under way, and a new product.
LEMMA CrashKeeps ==
    ASSUME WebhookInv, Crash \/ CreateProduct
    PROVE  WebhookInv'
<1>1. CASE CreateProduct
  BY <1>1 DEF CreateProduct, WebhookInv, Shapes, Answers, HasCode, Bounded
<1>2. CASE Crash
  <2>1. /\ known' = known /\ minted' = minted /\ peak' = peak /\ acked' = acked
        /\ faults' = faults + 1 /\ faults < MaxFaults
        /\ dlv' = [o \in Orders |-> [s \in Slots |-> "idle"]]
    BY <1>2 DEF Crash, NoDelivery
  <2>2. Shapes'
    BY <2>1, WebhookAssumption DEF WebhookInv, Shapes, Delivery
  <2>3. Answers'
    BY <2>1 DEF WebhookInv, Answers, HasCode
  <2>4. Bounded'
    <3> SUFFICES ASSUME NEW o \in Orders
                 PROVE  /\ Cardinality(Busy(dlv'[o])) <= peak[o]
                        /\ minted[o] + Cardinality(Creating(dlv'[o])) <= peak[o]
      BY <2>1 DEF Bounded
    <3>1. Busy(dlv'[o]) = {} /\ Creating(dlv'[o]) = {}
      BY <2>1 DEF Busy, Creating
    <3>2. Cardinality(Busy(dlv'[o])) = 0 /\ Cardinality(Creating(dlv'[o])) = 0
      BY <3>1, FS_EmptySet
    <3>3. /\ minted[o] \in Nat /\ peak[o] \in Nat /\ Cardinality(Creating(dlv[o])) \in Nat
          /\ minted[o] + Cardinality(Creating(dlv[o])) <= peak[o]
      BY SlotsAreFinite DEF WebhookInv, Shapes, Bounded
    <3> QED BY <3>2, <3>3
  <2> QED BY <2>2, <2>3, <2>4 DEF WebhookInv
<1> QED BY <1>1, <1>2

\* The invariant holds in every reachable state.
THEOREM WebhookInvHolds == Spec => []WebhookInv
<1>1. Init => WebhookInv
  <2> SUFFICES ASSUME Init PROVE WebhookInv
    OBVIOUS
  <2>1. Shapes
    <3>1. Cardinality(Slots) \in Nat
      BY WebhookAssumption, FS_CardinalityType
    <3> QED BY <3>1, WebhookAssumption DEF Init, Shapes, Delivery, NoDelivery
  <2>2. Answers
    BY DEF Init, Answers, NoDelivery
  <2>3. Bounded
    <3> SUFFICES ASSUME NEW o \in Orders
                 PROVE  /\ Cardinality(Busy(dlv[o])) <= peak[o]
                        /\ minted[o] + Cardinality(Creating(dlv[o])) <= peak[o]
      BY DEF Bounded
    <3>1. Busy(dlv[o]) = {} /\ Creating(dlv[o]) = {}
      BY DEF Init, Busy, Creating, NoDelivery
    <3>2. Cardinality(Busy(dlv[o])) = 0 /\ Cardinality(Creating(dlv[o])) = 0
      BY <3>1, FS_EmptySet
    <3>3. minted[o] = 0 /\ peak[o] = 0
      BY DEF Init
    <3> QED BY <3>2, <3>3
  <2> QED BY <2>1, <2>2, <2>3 DEF WebhookInv
<1>2. WebhookInv /\ [Next]_vars => WebhookInv'
  <2> SUFFICES ASSUME WebhookInv, [Next]_vars PROVE WebhookInv'
    OBVIOUS
  <2>1. ASSUME NEW o \in Orders, NEW s \in Slots,
               Receive(o, s) \/ Deliver(o, s) \/ CallFails(o, s) \/ ReplyLost(o, s)
        PROVE  WebhookInv'
    BY <2>1, ReceiveKeeps, LookupKeeps, MintKeeps, ReplyKeeps DEF Deliver
  <2>2. CASE CreateProduct \/ Crash
    BY <2>2, CrashKeeps
  <2>3. CASE UNCHANGED vars
    BY <2>3 DEF vars, WebhookInv, Shapes, Answers, HasCode, Bounded
  <2> QED BY <2>1, <2>2, <2>3 DEF Next
<1> QED BY <1>1, <1>2, PTL DEF Spec

-----------------------------------------------------------------------------
(* What follows                                                            *)

\* The shapes; and who is about to answer has found or made a code.
THEOREM WebhookTypes == Spec => []WebhookTypeOK
<1>1. WebhookInv => WebhookTypeOK
  BY DEF WebhookInv, Shapes, Answers, HasCode, WebhookTypeOK
<1> QED BY <1>1, WebhookInvHolds, PTL

\* Redelivery mints a second code only beside an overlapping delivery, however
\* often the server crashes or its answer is lost: a delivery that finds no code
\* has none of its order before it, so what is yet to be inserted overlaps.
THEOREM Duplicates == Spec => []DuplicatesBounded
<1>1. WebhookInv => DuplicatesBounded
  <2> SUFFICES ASSUME WebhookInv, NEW o \in Orders PROVE minted[o] <= peak[o]
    BY DEF DuplicatesBounded
  <2>1. /\ minted[o] \in Nat /\ peak[o] \in Nat /\ Cardinality(Creating(dlv[o])) \in Nat
        /\ minted[o] + Cardinality(Creating(dlv[o])) <= peak[o]
    BY SlotsAreFinite DEF WebhookInv, Shapes, Bounded
  <2> QED BY <2>1
<1> QED BY <1>1, WebhookInvHolds, PTL

\* An acknowledged order has a code, its own or one its key is found in.
THEOREM Acknowledged == Spec => []AckedOrderHasCode
<1>1. WebhookInv => AckedOrderHasCode
  BY DEF WebhookInv, Shapes, Answers, HasCode, AckedOrderHasCode
<1> QED BY <1>1, WebhookInvHolds, PTL

-----------------------------------------------------------------------------
(* CodeImport                                                              *)

Import == [at : {"idle", "preload", "rows", "answered", "conflict", "nan"}, file : Seq(Row),
           commit : BOOLEAN, row : Nat, existing : SUBSET Names, inserted : SUBSET Names,
           imported : Nat, before : SUBSET Names]

Issue == [at : {"idle", "check", "create"}, code : Names \cup {"none"}, product : Products]

ListedHere == {c \in Names : listed[c] = "this"}

ImportShapes ==
    /\ listed \in [Names -> Products \cup {"none"}]
    /\ imp \in Import
    /\ imp.row \in 1 .. Len(imp.file) + 1
    /\ iss \in Issue
    /\ iss.at # "idle" => iss.code \in Names

\* Rows an import q has passed whose code was new when it began.
Passed(q) == {i \in 1 .. q.row - 1 : q.file[i].code \notin {"bad"} \cup q.before}

\* An import q takes for existing what was there and what it has inserted.
Remembers(q) ==
    /\ q.at \in {"idle", "preload"} => q.row = 1 /\ q.imported = 0 /\ q.inserted = {}
    /\ q.at \in {"rows", "answered", "conflict", "nan"} => q.existing = q.before \cup q.inserted
    /\ q.at = "conflict" => q.file[q.row].code \notin q.existing
    /\ q.at = "answered" => q.row = Len(q.file) + 1

\* It has counted each new row, or inserted each new code once.
Counts(q) ==
    /\ q.imported < q.row
    /\ IF q.commit THEN /\ q.inserted = {q.file[i].code : i \in Passed(q)}
                        /\ IsFiniteSet(q.inserted) /\ q.imported = Cardinality(q.inserted)
                   ELSE /\ q.inserted = {}
                        /\ q.imported = Cardinality(Passed(q))

\* What it has taken for existing is in the table.
InTable == imp.existing \cup imp.before \cup imp.inserted \subseteq ListedHere

ImportInv == ImportShapes /\ Remembers(imp) /\ Counts(imp) /\ InTable

-----------------------------------------------------------------------------
\* A code that is listed stays so under its product.
ListedStays == \A c \in Names : listed[c] # "none" => listed'[c] = listed[c]

\* The empty import, field by field.
LEMMA NoImportIs ==
    /\ NoImport \in Import /\ NoImport.row = 1 /\ NoImport.file = << >> /\ NoImport.at = "idle"
    /\ NoImport.existing = {} /\ NoImport.inserted = {} /\ NoImport.before = {}
    /\ NoImport.imported = 0 /\ ~NoImport.commit
BY DEF NoImport, Import

\* An import that has passed no row.
LEMMA FreshIs ==
    ASSUME NEW q \in Import, q.row = 1, q.imported = 0, q.inserted = {}
    PROVE  Counts(q)
<1>1. Passed(q) = {}
  BY DEF Passed
<1>2. {q.file[i].code : i \in Passed(q)} = {}
  BY <1>1
<1>3. Cardinality({}) = 0 /\ IsFiniteSet({})
  BY FS_EmptySet
<1> QED BY <1>1, <1>2, <1>3 DEF Counts

\* The row an import passes next.
LEMMA PassedGrows ==
    ASSUME NEW q \in Import, NEW s \in Import, q.row \in Nat \ {0},
           s.row = q.row + 1, s.file = q.file, s.before = q.before
    PROVE  /\ Passed(s) = Passed(q) \cup
                (IF q.file[q.row].code \in {"bad"} \cup q.before THEN {} ELSE {q.row})
           /\ q.row \notin Passed(q)
           /\ IsFiniteSet(Passed(q))
<1>1. \A i : i \in 1 .. s.row - 1 <=> i \in 1 .. q.row - 1 \/ i = q.row
  OBVIOUS
<1>2. IsFiniteSet(1 .. q.row - 1)
  <2>1. 1 \in Int /\ q.row - 1 \in Int
    OBVIOUS
  <2> QED BY <2>1, FS_Interval, Zenon
<1>3. Passed(q) \in SUBSET (1 .. q.row - 1)
  BY DEF Passed
<1>4. IsFiniteSet(Passed(q))
  BY <1>2, <1>3, FS_Subset
<1> QED BY <1>1, <1>4 DEF Passed

-----------------------------------------------------------------------------
(* The steps                                                               *)

\* A step that leaves the import alone and lists codes.
LEMMA ImportUntouched ==
    ASSUME ImportInv, imp' = imp, ListedStays,
           listed' \in [Names -> Products \cup {"none"}], iss' \in Issue,
           iss'.at # "idle" => iss'.code \in Names
    PROVE  ImportInv'
<1>1. ListedHere \subseteq ListedHere'
  BY DEF ListedHere, ListedStays, ImportInv, ImportShapes
<1>2. InTable'
  BY <1>1 DEF ImportInv, InTable
<1>3. ImportShapes'
  BY DEF ImportInv, ImportShapes
<1> QED BY <1>2, <1>3 DEF ImportInv

\* A code that is issued by itself keeps the invariant.
LEMMA IssueKeeps ==
    ASSUME ImportInv,
           CheckIssue \/ CreateIssued
             \/ \E c \in Names, p \in Products : StartIssue(c, p)
    PROVE  ImportInv'
<1>1. /\ iss \in Issue /\ (iss.at # "idle" => iss.code \in Names)
      /\ listed \in [Names -> Products \cup {"none"}]
  BY DEF ImportInv, ImportShapes
<1>2. NoIssue \in Issue /\ NoIssue.at = "idle"
  BY DEF NoIssue, Issue, Products
<1>3. CASE CheckIssue
  <2>1. [iss EXCEPT !.at = "create"] \in Issue /\ [iss EXCEPT !.at = "create"].code = iss.code
    BY <1>1 DEF Issue
  <2>2. /\ iss' \in {[iss EXCEPT !.at = "create"], NoIssue} /\ iss.at # "idle"
        /\ imp' = imp /\ listed' = listed
    BY <1>3 DEF CheckIssue
  <2> QED BY <1>1, <1>2, <2>1, <2>2, ImportUntouched DEF ListedStays
<1>4. CASE CreateIssued
  <2>1. /\ listed' = [listed EXCEPT ![iss.code] =
                        IF listed[iss.code] = "none" THEN iss.product ELSE listed[iss.code]]
        /\ iss' = NoIssue /\ imp' = imp /\ iss.code \in Names /\ iss.product \in Products
    BY <1>1, <1>4 DEF CreateIssued, Issue
  <2>2. listed' \in [Names -> Products \cup {"none"}] /\ ListedStays
    BY <1>1, <2>1 DEF ListedStays
  <2> QED BY <1>2, <2>1, <2>2, ImportUntouched
<1>5. ASSUME NEW c \in Names, NEW p \in Products, StartIssue(c, p) PROVE ImportInv'
  <2>1. /\ iss' = [at |-> "check", code |-> c, product |-> p]
        /\ imp' = imp /\ listed' = listed
    BY <1>5 DEF StartIssue
  <2>2. iss' \in Issue /\ iss'.code = c
    BY <2>1 DEF Issue
  <2> QED BY <1>1, <2>1, <2>2, ImportUntouched DEF ListedStays
<1> QED BY <1>3, <1>4, <1>5

\* A step of the import, to q.
LEMMA ImportMoves ==
    ASSUME ImportInv, NEW q \in Import, imp' = q, q.row \in 1 .. Len(q.file) + 1,
           Remembers(q), Counts(q), ListedStays,
           listed' \in [Names -> Products \cup {"none"}],
           \A c \in q.existing \cup q.before \cup q.inserted : listed'[c] = "this",
           iss' \in {iss, NoIssue}
    PROVE  ImportInv'
<1>1. NoIssue \in Issue /\ NoIssue.at = "idle"
  BY DEF NoIssue, Issue, Products
<1>2. ImportShapes'
  BY <1>1 DEF ImportInv, ImportShapes
<1>3. q.existing \cup q.before \cup q.inserted \subseteq Names
  BY DEF Import
<1>4. InTable'
  BY <1>3 DEF InTable, ListedHere
<1> QED BY <1>2, <1>4 DEF ImportInv

\* So do an import that arrives and one that a crash ends.
LEMMA StartKeeps ==
    ASSUME ImportInv,
           ImportCrash \/ \E f \in Files, commit \in BOOLEAN : StartImport(f, commit)
    PROVE  ImportInv'
<1>1. listed \in [Names -> Products \cup {"none"}]
  BY DEF ImportInv, ImportShapes
<1>2. CASE ImportCrash
  <2>1. /\ NoImport.row \in 1 .. Len(NoImport.file) + 1
        /\ Remembers(NoImport) /\ Counts(NoImport)
    BY NoImportIs, FreshIs DEF Remembers
  <2> QED BY <1>1, <1>2, <2>1, NoImportIs, ImportMoves DEF ImportCrash, ListedStays
<1>3. ASSUME NEW f \in Files, NEW commit \in BOOLEAN, StartImport(f, commit)
      PROVE  ImportInv'
  <2> DEFINE q == [NoImport EXCEPT !.at = "preload", !.file = f, !.commit = commit]
  <2>1. f \in Seq(Row) /\ Len(f) \in Nat
    BY ImportAssumption
  <2>2. q \in Import
    BY <2>1, NoImportIs DEF Import
  <2>3. /\ q.at = "preload" /\ q.row = 1 /\ q.imported = 0 /\ q.inserted = {} /\ q.file = f
        /\ q.existing = {} /\ q.before = {}
    BY DEF NoImport
  <2>4. imp' = q /\ listed' = listed /\ iss' = iss
    BY <1>3 DEF StartImport
  <2> HIDE DEF q
  <2>5. Remembers(q) /\ Counts(q) /\ q.row \in 1 .. Len(q.file) + 1
    BY <2>1, <2>2, <2>3, FreshIs DEF Remembers
  <2> QED BY <1>1, <2>2, <2>3, <2>4, <2>5, ImportMoves DEF ListedStays
<1> QED BY <1>2, <1>3

\* So does the look for the codes that exist.
LEMMA PreloadKeeps ==
    ASSUME ImportInv, Preload
    PROVE  ImportInv'
<1> DEFINE q == [imp EXCEPT !.at = "rows", !.existing = ListedHere, !.before = ListedHere]
<1>1. imp \in Import /\ imp.row \in 1 .. Len(imp.file) + 1
      /\ imp.row = 1 /\ imp.imported = 0 /\ imp.inserted = {}
      /\ listed \in [Names -> Products \cup {"none"}]
  BY DEF ImportInv, ImportShapes, Remembers, Preload
<1>2. ListedHere \in SUBSET Names /\ \A c \in ListedHere : listed[c] = "this"
  BY DEF ListedHere
<1>3. q \in Import
  BY <1>1, <1>2 DEF Import
<1>4. /\ q.at = "rows" /\ q.row = 1 /\ q.imported = 0 /\ q.inserted = {} /\ q.file = imp.file
      /\ q.existing = ListedHere /\ q.before = ListedHere
  BY <1>1 DEF Import
<1>5. imp' = q /\ listed' = listed /\ iss' = iss
  BY DEF Preload, Existing, ListedHere
<1> HIDE DEF q
<1>6. Remembers(q) /\ Counts(q)
  BY <1>3, <1>4, FreshIs DEF Remembers
<1> QED BY <1>1, <1>2, <1>3, <1>4, <1>5, <1>6, ImportMoves DEF ListedStays

\* What an import that is at a row knows.
LEMMA AtRowIs ==
    ASSUME ImportInv, AtRow
    PROVE  /\ imp \in Import /\ imp.row \in Nat \ {0} /\ imp.row + 1 \in 1 .. Len(imp.file) + 1
           /\ imp.row \in 1 .. Len(imp.file) /\ Current.code \in Names \cup {"bad"}
           /\ imp.existing = imp.before \cup imp.inserted /\ imp.imported \in Nat
           /\ imp.imported < imp.row /\ imp.at = "rows"
           /\ listed \in [Names -> Products \cup {"none"}]
           /\ \A c \in imp.existing \cup imp.before \cup imp.inserted :
                c \in Names /\ listed[c] = "this"
<1>1. imp \in Import /\ imp.row \in 1 .. Len(imp.file) + 1 /\ imp.at = "rows"
      /\ imp.row <= Len(imp.file)
  BY DEF ImportInv, ImportShapes, AtRow
<1>2. imp.file \in Seq(Row) /\ Len(imp.file) \in Nat /\ imp.imported \in Nat
  BY <1>1 DEF Import
<1>3. imp.row \in 1 .. Len(imp.file) /\ imp.row + 1 \in 1 .. Len(imp.file) + 1
      /\ imp.row \in Nat \ {0}
  BY <1>1, <1>2
<1>4. imp.file[imp.row] \in Row
  BY <1>2, <1>3
<1>5. Current.code \in Names \cup {"bad"}
  BY <1>4 DEF Current, Row
<1> QED BY <1>1, <1>2, <1>3, <1>5
     DEF ImportInv, ImportShapes, Remembers, Counts, InTable, ListedHere

\* A row that is skipped is no new code, or one that has been inserted.
LEMMA SkipKeeps ==
    ASSUME ImportInv, SkipRow
    PROVE  ImportInv'
<1> DEFINE q == [imp EXCEPT !.row = @ + 1]
<1>1. /\ imp \in Import /\ imp.row \in Nat \ {0} /\ imp.row + 1 \in 1 .. Len(imp.file) + 1
      /\ imp.existing = imp.before \cup imp.inserted /\ imp.imported \in Nat
      /\ imp.imported < imp.row /\ imp.at = "rows"
      /\ listed \in [Names -> Products \cup {"none"}]
      /\ \A c \in imp.existing \cup imp.before \cup imp.inserted : listed[c] = "this"
  BY AtRowIs DEF SkipRow
<1>2. q \in Import
  <2>1. imp.row + 1 \in Nat /\ imp.imported + 1 \in Nat
    BY <1>1
  <2> QED BY <1>1, <2>1 DEF Import
<1>3. /\ q.at = "rows" /\ q.row = imp.row + 1 /\ q.imported = imp.imported
      /\ q.inserted = imp.inserted /\ q.file = imp.file /\ q.commit = imp.commit
      /\ q.existing = imp.existing /\ q.before = imp.before
  BY <1>1 DEF Import
<1>4. imp' = q /\ listed' = listed /\ iss' = iss
  BY DEF SkipRow
<1> HIDE DEF q
<1>5. /\ Passed(q) = Passed(imp) \cup
           (IF Current.code \in {"bad"} \cup imp.before THEN {} ELSE {imp.row})
  BY <1>1, <1>2, <1>3, PassedGrows DEF Current
<1>6. Current.code \in {"bad"} \cup imp.before \cup imp.inserted
  BY <1>1 DEF SkipRow
<1>7. q.imported < q.row
  BY <1>1, <1>3
<1>8. CASE imp.commit
  <2>1. /\ imp.inserted = {imp.file[i].code : i \in Passed(imp)}
        /\ IsFiniteSet(imp.inserted) /\ imp.imported = Cardinality(imp.inserted)
    BY <1>8 DEF ImportInv, Counts
  <2>2. {q.file[i].code : i \in Passed(q)} = {imp.file[i].code : i \in Passed(imp)}
    BY <1>3, <1>5, <1>6, <2>1 DEF Current
  <2> QED BY <1>1, <1>2, <1>3, <1>4, <1>7, <1>8, <2>1, <2>2, ImportMoves
       DEF Remembers, Counts, ListedStays
<1>9. CASE ~imp.commit
  <2>1. imp.inserted = {} /\ imp.imported = Cardinality(Passed(imp))
    BY <1>9 DEF ImportInv, Counts
  <2>2. Passed(q) = Passed(imp)
    BY <1>5, <1>6, <2>1
  <2>3. Counts(q)
    BY <1>3, <1>7, <1>9, <2>1, <2>2 DEF Counts
  <2>4. Remembers(q)
    BY <1>1, <1>3 DEF Remembers
  <2> QED BY <1>1, <1>2, <1>3, <1>4, <2>3, <2>4, ImportMoves DEF ListedStays
<1> QED BY <1>8, <1>9

\* So does a row that a dry run counts.
LEMMA CountKeeps ==
    ASSUME ImportInv, CountRow
    PROVE  ImportInv'
<1> DEFINE q == [imp EXCEPT !.row = @ + 1, !.imported = @ + 1]
<1>1. /\ imp \in Import /\ imp.row \in Nat \ {0} /\ imp.row + 1 \in 1 .. Len(imp.file) + 1
      /\ imp.existing = imp.before \cup imp.inserted /\ imp.imported \in Nat
      /\ imp.imported < imp.row /\ imp.at = "rows"
      /\ listed \in [Names -> Products \cup {"none"}]
      /\ \A c \in imp.existing \cup imp.before \cup imp.inserted : listed[c] = "this"
  BY AtRowIs DEF CountRow
<1>2. q \in Import
  <2>1. imp.row + 1 \in Nat /\ imp.imported + 1 \in Nat
    BY <1>1
  <2> QED BY <1>1, <2>1 DEF Import
<1>3. /\ q.at = "rows" /\ q.row = imp.row + 1 /\ q.imported = imp.imported + 1
      /\ q.inserted = imp.inserted /\ q.file = imp.file /\ q.commit = imp.commit
      /\ q.existing = imp.existing /\ q.before = imp.before
  BY <1>1 DEF Import
<1>4. imp' = q /\ listed' = listed /\ iss' = iss
  BY DEF CountRow
<1> HIDE DEF q
<1>5. ~imp.commit /\ Current.code \notin {"bad"} \cup imp.before
  BY <1>1 DEF CountRow
<1>6. Passed(q) = Passed(imp) \cup {imp.row} /\ imp.row \notin Passed(imp)
      /\ IsFiniteSet(Passed(imp))
  BY <1>1, <1>2, <1>3, <1>5, PassedGrows DEF Current
<1>7. Cardinality(Passed(q)) = Cardinality(Passed(imp)) + 1
  BY <1>6, FS_AddElement
<1>8. Counts(q)
  BY <1>1, <1>3, <1>5, <1>7 DEF Counts, ImportInv
<1>9. Remembers(q)
  BY <1>1, <1>3 DEF Remembers
<1> QED BY <1>1, <1>2, <1>3, <1>4, <1>8, <1>9, ImportMoves DEF ListedStays

\* A new code that is inserted is one more, or the import breaks off.
LEMMA InsertKeeps ==
    ASSUME ImportInv, InsertRow
    PROVE  ImportInv'
<1> DEFINE c == Current.code
<1>1. /\ imp \in Import /\ imp.row \in Nat \ {0} /\ imp.row + 1 \in 1 .. Len(imp.file) + 1
      /\ imp.existing = imp.before \cup imp.inserted /\ imp.imported \in Nat
      /\ imp.imported < imp.row /\ imp.at = "rows" /\ imp.row \in 1 .. Len(imp.file) + 1
      /\ listed \in [Names -> Products \cup {"none"}]
      /\ \A d \in imp.existing \cup imp.before \cup imp.inserted : d \in Names /\ listed[d] = "this"
  BY AtRowIs DEF InsertRow, ImportInv, ImportShapes
<1>2. c \in Names /\ c \notin {"bad"} \cup imp.existing /\ imp.commit /\ iss' = iss
  BY AtRowIs DEF InsertRow
<1>3. /\ imp.inserted = {imp.file[i].code : i \in Passed(imp)}
      /\ IsFiniteSet(imp.inserted) /\ imp.imported = Cardinality(imp.inserted)
  BY <1>2 DEF ImportInv, Counts
<1>4. ASSUME NEW at \in {"nan", "conflict"}, imp' = [imp EXCEPT !.at = at], listed' = listed
      PROVE  ImportInv'
  <2> DEFINE q == [imp EXCEPT !.at = at]
  <2>1. q \in Import
    BY <1>1 DEF Import
  <2>2. /\ q.at = at /\ q.row = imp.row /\ q.imported = imp.imported
        /\ q.inserted = imp.inserted /\ q.file = imp.file /\ q.commit = imp.commit
        /\ q.existing = imp.existing /\ q.before = imp.before
    BY <1>1 DEF Import
  <2>3. imp' = q
    BY <1>4
  <2> HIDE DEF q
  <2>4. Passed(q) = Passed(imp)
    BY <2>2 DEF Passed
  <2>5. Counts(q)
    BY <1>1, <1>2, <1>3, <2>2, <2>4 DEF Counts
  <2>6. Remembers(q)
    BY <1>1, <1>2, <2>2 DEF Remembers, Current
  <2> QED BY <1>1, <1>2, <1>4, <2>1, <2>2, <2>3, <2>5, <2>6, ImportMoves DEF ListedStays
<1>5. CASE listed[c] = "none" /\ listed' = Inserted(c)
           /\ imp' = [imp EXCEPT !.row = @ + 1, !.imported = @ + 1,
                                 !.existing = Remembered(c), !.inserted = @ \cup {c}]
  <2> DEFINE q == [imp EXCEPT !.row = imp.row + 1, !.imported = imp.imported + 1,
                              !.existing = imp.existing \cup {c},
                              !.inserted = imp.inserted \cup {c}]
  <2>1. q \in Import
    <3>1. /\ imp.row + 1 \in Nat /\ imp.imported + 1 \in Nat
          /\ imp.existing \cup {c} \in SUBSET Names /\ imp.inserted \cup {c} \in SUBSET Names
      BY <1>1, <1>2
    <3> HIDE DEF c
    <3> QED BY <1>1, <3>1 DEF Import
  <2>2. /\ q.at = "rows" /\ q.row = imp.row + 1 /\ q.imported = imp.imported + 1
        /\ q.inserted = imp.inserted \cup {c} /\ q.file = imp.file /\ q.commit = imp.commit
        /\ q.existing = imp.existing \cup {c} /\ q.before = imp.before
    BY <1>1 DEF Import
  <2>3. imp' = q
    BY <1>5 DEF Remembered
  <2> HIDE DEF q
  <2>4. /\ Passed(q) = Passed(imp) \cup {imp.row}
    BY <1>1, <1>2, <2>1, <2>2, PassedGrows DEF Current
  <2>5. {q.file[i].code : i \in Passed(q)} = q.inserted
    BY <1>3, <2>2, <2>4 DEF Current
  <2>6. IsFiniteSet(q.inserted) /\ Cardinality(q.inserted) = imp.imported + 1
    <3>1. c \notin imp.inserted
      BY <1>1, <1>2
    <3> HIDE DEF c
    <3>2. IsFiniteSet(imp.inserted) /\ q.inserted = imp.inserted \cup {c}
      BY <1>3, <2>2
    <3>3. IsFiniteSet(q.inserted) /\ Cardinality(q.inserted) = Cardinality(imp.inserted) + 1
      BY <3>1, <3>2, FS_AddElement
    <3> QED BY <1>3, <3>3, Zenon
  <2>7. Counts(q)
    BY <1>1, <1>2, <2>2, <2>5, <2>6 DEF Counts
  <2>8. Remembers(q)
    BY <1>1, <2>2 DEF Remembers
  <2>9. /\ listed' \in [Names -> Products \cup {"none"}] /\ ListedStays
        /\ \A d \in q.existing \cup q.before \cup q.inserted : listed'[d] = "this"
    <3> HIDE DEF c
    <3>1. listed' = [listed EXCEPT ![c] = "this"]
      BY <1>5 DEF Inserted
    <3> QED BY <1>1, <1>2, <1>5, <2>2, <3>1 DEF Products, ListedStays
  <2>10. q.row \in 1 .. Len(q.file) + 1
    BY <1>1, <2>2
  <2> QED BY <1>2, <2>1, <2>3, <2>7, <2>8, <2>9, <2>10, ImportMoves
<1> QED BY <1>4, <1>5 DEF InsertRow

\* So does the end of an import.
LEMMA AnswerKeeps ==
    ASSUME ImportInv, EndImport
    PROVE  ImportInv'
<1> DEFINE q == [imp EXCEPT !.at = "answered"]
<1>1. /\ imp \in Import /\ imp.row \in 1 .. Len(imp.file) + 1 /\ imp.at = "rows"
      /\ imp.row > Len(imp.file) /\ Len(imp.file) \in Nat
      /\ imp.existing = imp.before \cup imp.inserted
      /\ listed \in [Names -> Products \cup {"none"}]
      /\ \A d \in imp.existing \cup imp.before \cup imp.inserted : listed[d] = "this"
  BY DEF EndImport, ImportInv, ImportShapes, Remembers, InTable, ListedHere, Import
<1>2. q \in Import
  BY <1>1 DEF Import
<1>3. /\ q.at = "answered" /\ q.row = imp.row /\ q.imported = imp.imported
      /\ q.inserted = imp.inserted /\ q.file = imp.file /\ q.commit = imp.commit
      /\ q.existing = imp.existing /\ q.before = imp.before
  BY <1>1 DEF Import
<1>4. imp' = q /\ listed' = listed /\ iss' = iss
  BY DEF EndImport
<1> HIDE DEF q
<1>5. Passed(q) = Passed(imp)
  BY <1>3 DEF Passed
<1>6. Counts(q)
  BY <1>3, <1>5 DEF Counts, ImportInv
<1>7. Remembers(q)
  BY <1>1, <1>3 DEF Remembers
<1> QED BY <1>1, <1>2, <1>3, <1>4, <1>6, <1>7, ImportMoves DEF ListedStays

\* The invariant holds in every reachable state.
THEOREM ImportInvHolds == ImportSpec => []ImportInv
<1>1. ImportInit => ImportInv
  <2> SUFFICES ASSUME ImportInit PROVE ImportInv
    OBVIOUS
  <2>1. imp = NoImport /\ iss = NoIssue /\ listed = [c \in Names |-> "none"]
    BY DEF ImportInit
  <2>2. NoIssue \in Issue /\ NoIssue.at = "idle"
    BY DEF NoIssue, Issue, Products
  <2>3. ImportShapes
    BY <2>1, <2>2, NoImportIs DEF ImportShapes
  <2>4. Remembers(imp) /\ Counts(imp) /\ InTable
    BY <2>1, NoImportIs, FreshIs DEF Remembers, InTable
  <2> QED BY <2>3, <2>4 DEF ImportInv
<1>2. ImportInv /\ [ImportNext]_importVars => ImportInv'
  <2> SUFFICES ASSUME ImportInv, [ImportNext]_importVars PROVE ImportInv'
    OBVIOUS
  <2>1. CASE ImportCrash \/ \E f \in Files, commit \in BOOLEAN : StartImport(f, commit)
    BY <2>1, StartKeeps
  <2>2. CASE Preload
    BY <2>2, PreloadKeeps
  <2>3. CASE SkipRow
    BY <2>3, SkipKeeps
  <2>4. CASE CountRow
    BY <2>4, CountKeeps
  <2>5. CASE InsertRow
    BY <2>5, InsertKeeps
  <2>6. CASE EndImport
    BY <2>6, AnswerKeeps
  <2>7. CASE CheckIssue \/ CreateIssued \/ \E c \in Names, p \in Products : StartIssue(c, p)
    BY <2>7, IssueKeeps
  <2>8. CASE UNCHANGED importVars
    BY <2>8 DEF importVars, ImportInv, ImportShapes, InTable, ListedHere
  <2> QED BY <2>1, <2>2, <2>3, <2>4, <2>5, <2>6, <2>7, <2>8 DEF ImportNext
<1> QED BY <1>1, <1>2, PTL DEF ImportSpec

-----------------------------------------------------------------------------
(* What follows                                                            *)

\* The shapes; and what an import has inserted is listed under its product.
THEOREM ImportTypes == ImportSpec => []ImportTypeOK
<1>1. ImportInv => ImportTypeOK
  <2> SUFFICES ASSUME ImportInv PROVE ImportTypeOK
    OBVIOUS
  <2>1. imp \in Import /\ imp.row \in 1 .. Len(imp.file) + 1 /\ imp.imported < imp.row
        /\ imp.inserted \subseteq ListedHere
    BY DEF ImportInv, ImportShapes, Counts, InTable
  <2>2. imp.file \in Seq(Row) /\ Len(imp.file) \in Nat /\ imp.imported \in Nat
    BY <2>1 DEF Import
  <2>3. imp.imported \in 0 .. Len(imp.file)
    BY <2>1, <2>2
  <2> QED BY <2>1, <2>3 DEF ImportInv, ImportShapes, Import, Issue, ListedHere, ImportTypeOK
<1> QED BY <1>1, ImportInvHolds, PTL

\* The codes a commit has passed are listed under its product: those that were,
\* and those it has inserted, which are all the others.
THEOREM ImportsComplete == ImportSpec => []ImportComplete
<1>1. ImportInv => ImportComplete
  <2> SUFFICES ASSUME ImportInv, imp.commit, NEW i \in 1 .. imp.row - 1,
                      imp.file[i].code # "bad"
               PROVE  listed[imp.file[i].code] = "this"
    BY DEF ImportComplete
  <2>1. CASE imp.file[i].code \in imp.before
    BY <2>1 DEF ImportInv, InTable, ListedHere
  <2>2. CASE imp.file[i].code \notin imp.before
    <3>1. i \in Passed(imp)
      BY <2>2 DEF Passed
    <3>2. imp.file[i].code \in imp.inserted
      BY <3>1 DEF ImportInv, Counts
    <3> QED BY <3>2 DEF ImportInv, InTable, ListedHere
  <2> QED BY <2>1, <2>2
<1> QED BY <1>1, ImportInvHolds, PTL

\* An import never trips over a code it knows to be listed.
THEOREM AbortsNeedConflict == ImportSpec => []AbortNeedsConflict
<1>1. ImportInv => AbortNeedsConflict
  BY DEF ImportInv, Remembers, AbortNeedsConflict, Current
<1> QED BY <1>1, ImportInvHolds, PTL

\* What an import answers does not depend on what is issued while it runs.
THEOREM AnswersCount == ImportSpec => []AnswerCountsNew
<1>1. ImportInv => AnswerCountsNew
  <2> SUFFICES ASSUME ImportInv, imp.at = "answered"
               PROVE  imp.imported = IF imp.commit THEN Cardinality(NewCodes)
                                                   ELSE Cardinality(NewRows)
    BY DEF AnswerCountsNew
  <2>1. imp.row - 1 = Len(imp.file)
    <3>1. imp \in Import /\ imp.row = Len(imp.file) + 1
      BY DEF ImportInv, ImportShapes, Remembers
    <3>2. Len(imp.file) \in Nat
      BY <3>1 DEF Import
    <3> QED BY <3>1, <3>2
  <2>2. NewRows = Passed(imp)
    BY <2>1 DEF NewRows, Passed
  <2> QED BY <2>2 DEF ImportInv, Counts, NewCodes
<1> QED BY <1>1, ImportInvHolds, PTL

=============================================================================
