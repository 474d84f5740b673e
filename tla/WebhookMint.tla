---------------------------- MODULE WebhookMint ----------------------------
(***************************************************************************)
(* The Lemon Squeezy webhook, which mints a purchase code for a paid order *)
(* (apps/license-server/src/webhook).  The provider delivers an event      *)
(* until it gets a 2xx, and may start again before the last delivery has   *)
(* ended.  The handler opens no transaction: each database call is a step. *)
(*                                                                         *)
(* An event is looked up by text: the key "lemon-squeezy:<id>" is found in *)
(* any notes that contain it, so also in those of a longer id.  A minted   *)
(* code is random and collides with nothing.                               *)
(***************************************************************************)
EXTENDS Naturals, FiniteSets

CONSTANTS
    Orders,     \* ids of order_created and subscription_created events
    Within,     \* Within[o]: the ids whose text begins with that of o
    Slots,      \* deliveries of one event that may overlap
    MaxFaults   \* bound: crashes, failed calls, lost answers

ASSUME WebhookAssumption ==
    /\ Within \in [Orders -> SUBSET Orders]
    /\ \A o \in Orders : o \in Within[o]
    /\ IsFiniteSet(Slots)
    /\ MaxFaults \in Nat

VARIABLES
    known,      \* the product the events name exists
    minted,     \* codes in the table for each order
    dlv,        \* the deliveries in progress
    acked,      \* orders the provider has been told 2xx for
    faults,     \* crashes, failed calls and lost answers so far
    peak        \* history: most deliveries of an order in progress at a time

vars == <<known, minted, dlv, acked, faults, peak>>

NoDelivery == "idle"
Delivery == {"idle", "lookup", "create", "reply"}

WebhookTypeOK ==
    /\ known \in BOOLEAN
    /\ minted \in [Orders -> Nat]
    /\ dlv \in [Orders -> [Slots -> Delivery]]
    /\ acked \subseteq Orders
    /\ faults \in 0 .. MaxFaults
    /\ peak \in [Orders -> 0 .. Cardinality(Slots)]
    /\ \A o \in Orders, s \in Slots :
         dlv[o][s] = "reply" => \E p \in Within[o] : minted[p] > 0

Init ==
    /\ known \in BOOLEAN
    /\ minted = [o \in Orders |-> 0]
    /\ dlv = [o \in Orders |-> [s \in Slots |-> NoDelivery]]
    /\ acked = {}
    /\ faults = 0
    /\ peak = [o \in Orders |-> 0]

-----------------------------------------------------------------------------
PutDelivery(o, s, d) == dlv' = [dlv EXCEPT ![o][s] = d]
InProgress(o) == {s \in Slots : dlv[o][s] # "idle"}

\* A signed event of the two kinds that mint arrives, for the first time or
\* again; one that has been acknowledged may be replayed from the dashboard.
Receive(o, s) ==
    /\ dlv[o][s] = "idle"
    /\ PutDelivery(o, s, "lookup")
    /\ peak' = [peak EXCEPT ![o] = IF Cardinality(InProgress(o)) >= @
                                   THEN Cardinality(InProgress(o)) + 1 ELSE @]
    /\ UNCHANGED <<known, minted, acked, faults>>

\* Orders with a code in whose notes the key of o is found.  Mutants: nobody
\* looks; a code that is there is an error.
NoPrior(o) == {}
Prior(o) == {p \in Within[o] : minted[p] > 0}

ReplayRefused == NoDelivery
Replay == "reply"

\* A prior code is the answer, whichever is found first; otherwise one will be
\* made if the product is known, and 404 is the answer if it is not.
Lookup(o, s) ==
    /\ dlv[o][s] = "lookup"
    /\ \/ Prior(o) # {} /\ PutDelivery(o, s, Replay)
       \/ Prior(o) = {} /\ known /\ PutDelivery(o, s, "create")
       \/ Prior(o) = {} /\ ~known /\ PutDelivery(o, s, NoDelivery)
    /\ UNCHANGED <<known, minted, acked, peak, faults>>

\* The insert.  Mutant: it is not awaited, and lost.
MintLost(o) == minted
Minted(o) == [minted EXCEPT ![o] = @ + 1]

Mint(o, s) ==
    /\ dlv[o][s] = "create"
    /\ minted' = Minted(o)
    /\ PutDelivery(o, s, "reply")
    /\ UNCHANGED <<known, acked, peak, faults>>

\* A call of the database fails, the insert with or without its row, and the
\* answer is an error.
CallFails(o, s) ==
    /\ dlv[o][s] \in {"lookup", "create"} /\ faults < MaxFaults
    /\ minted' = minted \/ (dlv[o][s] = "create" /\ minted' = Minted(o))
    /\ PutDelivery(o, s, NoDelivery)
    /\ faults' = faults + 1
    /\ UNCHANGED <<known, acked, peak>>

\* The answer arrives, or it is lost and the provider will deliver again.
Reply(o, s) ==
    /\ dlv[o][s] = "reply"
    /\ acked' = acked \cup {o}
    /\ PutDelivery(o, s, NoDelivery)
    /\ UNCHANGED <<known, minted, peak, faults>>

ReplyLost(o, s) ==
    /\ dlv[o][s] = "reply" /\ faults < MaxFaults
    /\ faults' = faults + 1
    /\ PutDelivery(o, s, NoDelivery)
    /\ UNCHANGED <<known, minted, acked, peak>>

\* The admin creates the product the events name.
CreateProduct ==
    /\ ~known
    /\ known' = TRUE
    /\ UNCHANGED <<minted, dlv, acked, peak, faults>>

\* The process dies and starts again: every request is gone, the table stays.
Crash ==
    /\ faults < MaxFaults
    /\ faults' = faults + 1
    /\ dlv' = [o \in Orders |-> [s \in Slots |-> NoDelivery]]
    /\ UNCHANGED <<known, minted, acked, peak>>

Deliver(o, s) == Lookup(o, s) \/ Mint(o, s) \/ Reply(o, s)

Next ==
    \/ \E o \in Orders, s \in Slots :
         Receive(o, s) \/ Deliver(o, s) \/ CallFails(o, s) \/ ReplyLost(o, s)
    \/ CreateProduct
    \/ Crash

\* The provider goes on delivering an event that has not been acknowledged, and
\* the server goes on with a request it has begun.
Fairness ==
    \A o \in Orders :
      /\ WF_vars(o \notin acked /\ \E s \in Slots : Receive(o, s))
      /\ \A s \in Slots : WF_vars(Deliver(o, s))

Spec == Init /\ [][Next]_vars /\ Fairness

-----------------------------------------------------------------------------
(* Properties                                                              *)

\* Retries, replays, failures and crashes mint no further code by themselves: an order has at most
\* as many codes as deliveries of it were in progress at the same time.
DuplicatesBounded == \A o \in Orders : minted[o] <= peak[o]

\* The provider stops delivering only when a code is in the table for the
\* order, or for one whose id begins with its id.
AckedOrderHasCode == \A o \in acked : \E p \in Within[o] : minted[p] > 0

\* Once the product is known every order is acknowledged, whatever crashed,
\* failed or was lost before.
EveryOrderAcked == \A o \in Orders : known ~> o \in acked
=============================================================================
