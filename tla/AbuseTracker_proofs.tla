------------------------ MODULE AbuseTracker_proofs ------------------------
(* Theorems about AbuseTracker, for every set of addresses, threshold,     *)
(* window and duration.                                                    *)
EXTENDS AbuseTracker, FiniteSetTheorems, TLAPS

\* What is known of the block of an address: it has begun, and loggedAt is the
\* time of its last row.
Spaced(ip) ==
    HasBlock(ip) =>
      /\ Began(ip) <= now
      /\ lines[ip] > 0 => blocks[ip].loggedAt = rowAt[ip]

TrackerInv == TypeOK /\ GuessesBounded /\ \A ip \in Ips : Spaced(ip)

\* Constants in the form the provers use.
LEMMA Constants ==
    /\ Threshold \in Nat /\ Threshold > 1
    /\ LogEvery \in Nat /\ LogEvery > 0
    /\ Window \in Nat /\ Window > 0
    /\ BlockTime \in Nat /\ BlockTime > 0
    /\ MaxInFlight \in Nat /\ MaxTime \in Nat
  BY TrackerAssumption

\* The entries that the tracker writes.
LEMMA Entries ==
    ASSUME TypeOK, NEW ip \in Ips
    PROVE  /\ now \in Nat /\ now <= MaxTime
           /\ NoCounter \in Counter /\ NoBlock \in Block
           /\ [count |-> 1, windowEndAt |-> now + Window] \in Counter
           /\ [until |-> now + BlockTime, loggedAt |-> Epoch] \in Block
           /\ [blocks[ip] EXCEPT !.loggedAt = now] \in Block
           /\ ~ReachesThreshold(ip) => [counters[ip] EXCEPT !.count = @ + 1] \in Counter
  <1> USE Constants
  <1>1. now \in Nat /\ now <= MaxTime
    BY DEF TypeOK, Time
  <1>2. blocks[ip] \in Block /\ counters[ip] \in Counter
    BY DEF TypeOK
  <1>3. NoCounter \in Counter /\ NoBlock \in Block
    BY DEF NoCounter, NoBlock, Counter, Block, Epoch
  <1>4. [count |-> 1, windowEndAt |-> now + Window] \in Counter
    BY <1>1 DEF Counter
  <1>5. [until |-> now + BlockTime, loggedAt |-> Epoch] \in Block
    BY <1>1 DEF Block, Epoch
  <1>6. [blocks[ip] EXCEPT !.loggedAt = now] \in Block
    BY <1>1, <1>2 DEF Block, Epoch
  <1>7. ~ReachesThreshold(ip) => [counters[ip] EXCEPT !.count = @ + 1] \in Counter
    BY <1>2 DEF Counter, ReachesThreshold
  <1> QED
    BY <1>1, <1>3, <1>4, <1>5, <1>6, <1>7

\* What a failing activation does to the requests and the history.
LEMMA EndsTyped ==
    ASSUME TypeOK, NEW ip \in Ips, EndsInvalid(ip)
    PROVE  /\ now' \in Time
           /\ inFlight' \in [Ips -> 0 .. MaxInFlight]
           /\ failed' \in [Ips -> Seq(Time)]
           /\ inFlight[ip] - 1 \in 0 .. MaxInFlight
  <1> USE Constants DEF EndsInvalid, TypeOK
  <1>1. inFlight[ip] - 1 \in 0 .. MaxInFlight /\ now' \in Time
    OBVIOUS
  <1>2. inFlight' \in [Ips -> 0 .. MaxInFlight]
    BY <1>1
  <1>3. Append(failed[ip], now) \in Seq(Time)
    OBVIOUS
  <1>4. failed' \in [Ips -> Seq(Time)]
    BY <1>3
  <1> QED
    BY <1>1, <1>2, <1>4

-----------------------------------------------------------------------------
(* Type correctness                                                        *)

\* The empty tracker is well formed.
LEMMA InitTyped == Init => TypeOK
  BY Constants DEF Init, TypeOK, Time, Counter, Block, NoCounter, NoBlock, Epoch

\* Every step keeps the maps well formed.
LEMMA NextTyped == TypeOK /\ [Next]_vars => TypeOK'
  <1> SUFFICES ASSUME TypeOK, [Next]_vars PROVE TypeOK'
    OBVIOUS
  <1> USE Constants
  <1>1. ASSUME NEW ip \in Ips, Admit(ip) PROVE TypeOK'
    <2>1. (IF BlockOver(ip) THEN NoBlock ELSE blocks[ip]) \in Block
      BY Entries DEF TypeOK
    <2>2. blocks' \in [Ips -> Block]
      BY <1>1, <2>1 DEF Admit, TypeOK
    <2>3. inFlight' \in [Ips -> 0 .. MaxInFlight]
      BY <1>1 DEF Admit, TypeOK
    <2> QED
      BY <1>1, <2>2, <2>3 DEF Admit, TypeOK, history
  <1>2. ASSUME NEW ip \in Ips, Reject(ip) PROVE TypeOK'
    <2>1. [blocks[ip] EXCEPT !.loggedAt = now] \in Block
      BY Entries
    <2>2. blocks' \in [Ips -> Block]
      BY <1>2, <2>1 DEF Reject, HitMarked, TypeOK
    <2>3. lines' \in [Ips -> Nat] /\ rowAt' \in [Ips -> Time]
      BY <1>2 DEF Reject, TypeOK
    <2> QED
      BY <1>2, <2>2, <2>3 DEF Reject, TypeOK
  <1>3. ASSUME NEW ip \in Ips, End(ip) PROVE TypeOK'
    <2>1. inFlight' \in [Ips -> 0 .. MaxInFlight]
      BY <1>3 DEF End, TypeOK
    <2> QED
      BY <1>3, <2>1 DEF End, TypeOK, history
  <1>4. ASSUME NEW ip \in Ips, FailInNewWindow(ip) PROVE TypeOK'
    <2>1. EndsInvalid(ip)
      BY <1>4 DEF FailInNewWindow
    <2>2. counters' \in [Ips -> Counter]
      BY <1>4, Entries DEF FailInNewWindow, TypeOK
    <2>3. since' \in [Ips -> Nat]
      BY <1>4 DEF FailInNewWindow, TypeOK
    <2> QED
      BY <1>4, <2>1, <2>2, <2>3, EndsTyped DEF FailInNewWindow, TypeOK
  <1>5. ASSUME NEW ip \in Ips, FailCounted(ip) PROVE TypeOK'
    <2>1. EndsInvalid(ip)
      BY <1>5 DEF FailCounted
    <2>2. [counters[ip] EXCEPT !.count = @ + 1] \in Counter
      BY <1>5, Entries DEF FailCounted
    <2>3. counters' \in [Ips -> Counter]
      BY <1>5, <2>2 DEF FailCounted, TypeOK
    <2>4. since' \in [Ips -> Nat]
      BY <1>5 DEF FailCounted, TypeOK
    <2> QED
      BY <1>5, <2>1, <2>3, <2>4, EndsTyped DEF FailCounted, TypeOK
  <1>6. ASSUME NEW ip \in Ips, FailBlocks(ip) PROVE TypeOK'
    <2>1. EndsInvalid(ip)
      BY <1>6 DEF FailBlocks
    <2>2. counters' \in [Ips -> Counter] /\ blocks' \in [Ips -> Block]
      BY <1>6, Entries DEF FailBlocks, CounterCleared, TypeOK
    <2>3. carried' \in [Ips -> 0 .. MaxInFlight]
      BY <1>6, <2>1, EndsTyped DEF FailBlocks, TypeOK
    <2>4. since' \in [Ips -> Nat] /\ lines' \in [Ips -> Nat] /\ rowAt' \in [Ips -> Time]
      BY <1>6 DEF FailBlocks, TypeOK
    <2> QED
      BY <2>1, <2>2, <2>3, <2>4, EndsTyped DEF TypeOK
  <1>7. CASE Prune
    <2>1. counters' \in [Ips -> Counter] /\ blocks' \in [Ips -> Block]
      BY <1>7, Entries DEF Prune, CountersPruned, BlocksPruned, TypeOK
    <2> QED
      BY <1>7, <2>1 DEF Prune, TypeOK, history
  <1>8. CASE Tick
    BY <1>8 DEF Tick, TypeOK, Time, history
  <1>9. CASE UNCHANGED vars
    BY <1>9 DEF vars, TypeOK
  <1> QED
    BY <1>1, <1>2, <1>3, <1>4, <1>5, <1>6, <1>7, <1>8, <1>9 DEF Next, Fail

\* The tracker's maps and the history always have the declared shape: no count
\* reaches the threshold.
THEOREM TrackerTypeCorrect == Spec => []TypeOK
  BY InitTyped, NextTyped, PTL DEF Spec

-----------------------------------------------------------------------------
(* Blocks and their rows                                                   *)

\* An address is left alone by the requests of the others.
LEMMA Others ==
    ASSUME TypeOK, NEW ip \in Ips, NEW i \in Ips, i # ip,
           Admit(i) \/ Reject(i) \/ End(i) \/ Fail(i)
    PROVE  /\ now' = now /\ blocks'[ip] = blocks[ip] /\ inFlight'[ip] = inFlight[ip]
           /\ carried'[ip] = carried[ip] /\ since'[ip] = since[ip]
           /\ lines'[ip] = lines[ip] /\ rowAt'[ip] = rowAt[ip]
           /\ counters'[ip] = counters[ip] /\ failed'[ip] = failed[ip]
  <1> USE DEF TypeOK, history
  <1>1. CASE Admit(i)
    BY <1>1 DEF Admit
  <1>2. CASE Reject(i)
    BY <1>2 DEF Reject, HitMarked
  <1>3. CASE End(i)
    BY <1>3 DEF End
  <1>4. CASE Fail(i)
    BY <1>4 DEF Fail, FailInNewWindow, FailCounted, FailBlocks, EndsInvalid, CounterCleared
  <1> QED
    BY <1>1, <1>2, <1>3, <1>4

\* A step that neither begins a block nor writes a row keeps the block with its
\* rows, or forgets one that is over; time may pass.
Kept(ip) ==
    /\ now <= now'
    /\ lines'[ip] = lines[ip] /\ rowAt'[ip] = rowAt[ip]
    /\ \/ blocks'[ip] = blocks[ip]
       \/ BlockOver(ip) /\ blocks'[ip] = NoBlock

\* These steps keep the block of an address and its last line, or drop both.
LEMMA KeptSteps ==
    ASSUME TypeOK, NEW ip \in Ips,
           \/ Admit(ip) \/ End(ip) \/ FailInNewWindow(ip) \/ FailCounted(ip)
           \/ Prune \/ Tick \/ UNCHANGED vars
    PROVE  Kept(ip)
  <1> USE DEF TypeOK, Kept, history
  <1>0. now \in Nat
    BY Entries
  <1>1. CASE Admit(ip)
    <2>1. blocks'[ip] = IF BlockOver(ip) THEN NoBlock ELSE blocks[ip]
      BY <1>1 DEF Admit
    <2> QED
      BY <1>0, <1>1, <2>1 DEF Admit
  <1>2. CASE End(ip) \/ FailInNewWindow(ip) \/ FailCounted(ip)
    BY <1>0, <1>2 DEF End, FailInNewWindow, FailCounted, EndsInvalid
  <1>3. CASE Prune
    <2>1. blocks'[ip] = IF BlockOver(ip) THEN NoBlock ELSE blocks[ip]
      BY <1>3 DEF Prune, BlocksPruned
    <2> QED
      BY <1>0, <1>3, <2>1 DEF Prune
  <1>4. CASE Tick \/ UNCHANGED vars
    BY <1>0, <1>4 DEF Tick, vars
  <1> QED
    BY <1>1, <1>2, <1>3, <1>4

\* Numbers behind an entry of blocks.
LEMMA BlockNumbers ==
    ASSUME TypeOK, NEW ip \in Ips
    PROVE  /\ blocks[ip].until \in Nat /\ blocks[ip].loggedAt \in Int
           /\ lines[ip] \in Nat /\ now \in Nat
  <1>1. blocks[ip] \in Block /\ lines[ip] \in Nat /\ now \in Nat
    BY Entries DEF TypeOK
  <1>2. blocks[ip].until \in Nat /\ blocks[ip].loggedAt \in Int
    BY <1>1, Constants DEF Block, Epoch
  <1> QED
    BY <1>1, <1>2

\* Lines stay apart while blocks are kept or begun.
LEMMA KeptSpaced ==
    ASSUME TypeOK, TypeOK', NEW ip \in Ips, Spaced(ip), Kept(ip)
    PROVE  Spaced(ip)'
  <1>1. now \in Nat /\ now' \in Nat /\ now <= now'
    BY Constants DEF TypeOK, Time, Kept
  <1>2. CASE blocks'[ip] = NoBlock
    BY <1>2 DEF Spaced, HasBlock, NoBlock
  <1>3. CASE blocks'[ip] = blocks[ip]
    <2>1. lines'[ip] = lines[ip] /\ rowAt'[ip] = rowAt[ip]
      BY DEF Kept
    <2> QED
      BY <1>1, <1>3, <2>1, BlockNumbers, Constants DEF Spaced, HasBlock, Began
  <1> QED
    BY <1>2, <1>3 DEF Kept

\* A row is written LogEvery after the last one of its block, and is the last
\* one from then on.
LEMMA RejectSpaced ==
    ASSUME TypeOK, NEW ip \in Ips, Spaced(ip), Reject(ip)
    PROVE  Spaced(ip)' /\ (lines[ip] > 0 => now - rowAt[ip] >= LogEvery)
  <1>1. /\ blocks'[ip] = [blocks[ip] EXCEPT !.loggedAt = now]
        /\ rowAt'[ip] = now /\ now' = now
    BY DEF Reject, HitMarked, TypeOK
  <1>2. /\ blocks'[ip].until = blocks[ip].until
        /\ blocks'[ip].loggedAt = now
    BY <1>1 DEF TypeOK, Block
  <1>3. now - blocks[ip].loggedAt >= LogEvery /\ HasBlock(ip)
    BY DEF Reject, MayLog, IsBlocked, InForce
  <1> QED
    BY <1>1, <1>2, <1>3 DEF Spaced, Began

\* A block that begins has no lines yet.
LEMMA FailBlocksSpaced ==
    ASSUME TypeOK, NEW ip \in Ips, FailBlocks(ip)
    PROVE  Spaced(ip)'
  <1>1. /\ blocks'[ip].until = now + BlockTime
        /\ lines'[ip] = 0 /\ now' = now
    BY DEF FailBlocks, EndsInvalid, TypeOK
  <1> QED
    BY <1>1, BlockNumbers, Constants DEF Spaced, Began

\* Every step keeps the lines apart.
LEMMA NextSpaced ==
    ASSUME TypeOK, TypeOK', \A ip \in Ips : Spaced(ip), [Next]_vars, NEW ip \in Ips
    PROVE  Spaced(ip)'
  <1>1. ASSUME NEW i \in Ips, Admit(i) \/ Reject(i) \/ End(i) \/ Fail(i)
        PROVE  Spaced(ip)'
    <2>1. CASE i # ip
      <3>1. /\ now' = now /\ blocks'[ip] = blocks[ip]
            /\ lines'[ip] = lines[ip] /\ rowAt'[ip] = rowAt[ip]
        BY <1>1, <2>1, Others
      <3>2. Kept(ip)
        BY <3>1, BlockNumbers DEF Kept
      <3> QED
        BY <3>2, KeptSpaced
    <2>2. CASE i = ip
      BY <1>1, <2>2, KeptSteps, KeptSpaced, RejectSpaced, FailBlocksSpaced DEF Fail
    <2> QED
      BY <2>1, <2>2
  <1>2. CASE Prune \/ Tick \/ UNCHANGED vars
    BY <1>2, KeptSteps, KeptSpaced
  <1> QED
    BY <1>1, <1>2 DEF Next

-----------------------------------------------------------------------------
(* Failures during a block                                                 *)

\* The requests that can still fail while the block of ip is in force.
Bounded(ip) == InForce(ip) => since[ip] + inFlight[ip] <= carried[ip]

\* The history of an address is counted in natural numbers.
LEMMA Counts ==
    ASSUME TypeOK, NEW ip \in Ips
    PROVE  since[ip] \in Nat /\ inFlight[ip] \in Nat /\ carried[ip] \in Nat
  BY Constants DEF TypeOK

\* A block that is in force after a step that begins none was so before it.
LEMMA KeptInForce ==
    ASSUME TypeOK, TypeOK', NEW ip \in Ips, Kept(ip), InForce(ip)'
    PROVE  InForce(ip)
  <1>1. blocks'[ip] = blocks[ip]
    BY DEF Kept, InForce, HasBlock, NoBlock
  <1>2. now \in Nat /\ now' \in Nat /\ now <= now'
    BY Constants DEF Kept, TypeOK, Time
  <1>3. blocks'[ip].until > 0 /\ ~(now' >= blocks'[ip].until)
    BY DEF InForce, HasBlock, BlockOver
  <1>4. blocks[ip].until \in Nat
    BY BlockNumbers
  <1> QED
    BY <1>1, <1>2, <1>3, <1>4 DEF InForce, HasBlock, BlockOver

\* Every step keeps the count of guesses within its bound.
LEMMA NextBounded ==
    ASSUME TypeOK, TypeOK', \A ip \in Ips : Bounded(ip), [Next]_vars, NEW ip \in Ips
    PROVE  Bounded(ip)'
  <1> USE Counts, BlockNumbers
  <1>1. ASSUME NEW i \in Ips, i # ip, Admit(i) \/ Reject(i) \/ End(i) \/ Fail(i)
        PROVE  Bounded(ip)'
    BY <1>1, Others DEF Bounded, InForce, HasBlock, BlockOver
  <1>2. CASE Admit(ip)
    \* Only an address without a block in force is admitted.
    BY <1>2, KeptSteps, KeptInForce DEF Admit, IsBlocked, Bounded
  <1>3. CASE Reject(ip)
    <2>1. blocks'[ip] = [blocks[ip] EXCEPT !.loggedAt = now]
      BY <1>3 DEF Reject, HitMarked, TypeOK
    <2>2. blocks'[ip].until = blocks[ip].until
      BY <2>1 DEF TypeOK, Block
    <2> QED
      BY <1>3, <2>2 DEF Reject, Bounded, InForce, HasBlock, BlockOver
  <1>4. CASE End(ip)
    <2>1. inFlight'[ip] = inFlight[ip] - 1 /\ since'[ip] = since[ip] /\ carried'[ip] = carried[ip]
      BY <1>4 DEF End, TypeOK, history
    <2> QED
      BY <1>4, <2>1, KeptSteps, KeptInForce DEF Bounded
  <1>5. CASE FailInNewWindow(ip) \/ FailCounted(ip)
    \* The failure leaves the requests in flight for the failures.
    <2>1. /\ inFlight'[ip] = inFlight[ip] - 1 /\ since'[ip] = since[ip] + 1
          /\ carried'[ip] = carried[ip]
      BY <1>5 DEF FailInNewWindow, FailCounted, EndsInvalid, TypeOK
    <2> QED
      BY <1>5, <2>1, KeptSteps, KeptInForce DEF Bounded
  <1>6. CASE FailBlocks(ip)
    <2>1. /\ inFlight'[ip] = inFlight[ip] - 1 /\ since'[ip] = 0
          /\ carried'[ip] = inFlight[ip] - 1
      BY <1>6 DEF FailBlocks, EndsInvalid, TypeOK
    <2> QED
      BY <2>1 DEF Bounded
  <1>7. CASE Prune \/ Tick \/ UNCHANGED vars
    <2>1. inFlight'[ip] = inFlight[ip] /\ since'[ip] = since[ip] /\ carried'[ip] = carried[ip]
      BY <1>7 DEF Prune, Tick, vars, history
    <2> QED
      BY <1>7, <2>1, KeptSteps, KeptInForce DEF Bounded
  <1> QED
    BY <1>1, <1>2, <1>3, <1>4, <1>5, <1>6, <1>7 DEF Next, Fail

-----------------------------------------------------------------------------
(* Theorems                                                                *)

\* TrackerInv holds at the start, for there is no block, and every step keeps it.
LEMMA TrackerInductive == Spec => []TrackerInv
  <1>1. Init => TrackerInv
    <2> SUFFICES ASSUME Init PROVE TrackerInv
      OBVIOUS
    <2>1. \A ip \in Ips : ~HasBlock(ip)
      BY DEF Init, HasBlock, NoBlock
    <2> QED
      BY <2>1, InitTyped DEF TrackerInv, GuessesBounded, InForce, Spaced
  <1>2. TrackerInv /\ [Next]_vars => TrackerInv'
    <2> SUFFICES ASSUME TrackerInv, [Next]_vars PROVE TrackerInv'
      OBVIOUS
    <2>1. TypeOK /\ TypeOK'
      BY NextTyped DEF TrackerInv
    <2>2. \A ip \in Ips : Spaced(ip)'
      BY <2>1, NextSpaced DEF TrackerInv
    <2>3. \A ip \in Ips : Bounded(ip)'
      BY <2>1, NextBounded DEF TrackerInv, GuessesBounded, Bounded
    <2> QED
      BY <2>1, <2>2, <2>3 DEF TrackerInv, GuessesBounded, Bounded
  <1> QED
    BY <1>1, <1>2, PTL DEF Spec

\* An address that is blocked can fail no more often than it had requests under
\* way when it was blocked.
THEOREM GuessesAreBounded == Spec => []GuessesBounded
  BY TrackerInductive, PTL DEF TrackerInv

\* A row that is not the first of its block is LogEvery or more after the row
\* before it, however many requests are rejected and failures come in late.
THEOREM LinesAreSpaced == Spec => LinesSpaced
  <1>1. ASSUME TrackerInv, [Next]_vars, NEW ip \in Ips, lines'[ip] > lines[ip], lines[ip] > 0
        PROVE  now - rowAt[ip] >= LogEvery
    <2>1. TypeOK /\ Spaced(ip) /\ lines[ip] \in Nat
      BY <1>1, BlockNumbers DEF TrackerInv
    <2>2. lines'[ip] # lines[ip] /\ lines'[ip] # 0
      BY <1>1, <2>1
    <2>3. ~Kept(ip)
      BY <2>2 DEF Kept
    <2>4. ~FailBlocks(ip)
      BY <2>1, <2>2 DEF FailBlocks, TypeOK
    <2>5. ASSUME NEW i \in Ips, i # ip PROVE ~(Admit(i) \/ Reject(i) \/ End(i) \/ Fail(i))
      BY <2>1, <2>2, <2>5, Others
    <2>6. Reject(ip)
      BY <1>1, <2>1, <2>3, <2>4, <2>5, KeptSteps DEF Next, Fail
    <2> QED
      BY <1>1, <2>1, <2>6, RejectSpaced
  <1>2. TrackerInv /\ [Next]_vars =>
          [\A ip \in Ips : lines'[ip] > lines[ip] /\ lines[ip] > 0
                             => now - rowAt[ip] >= LogEvery]_vars
    BY <1>1
  <1> QED
    BY <1>2, TrackerInductive, PTL DEF Spec, LinesSpaced

\* No late failure, rejected request or pruning lifts or shortens a block.
THEOREM BlockIsServed == Spec => BlockServed
  <1>1. ASSUME TrackerInv, [Next]_vars, NEW ip \in Ips, InForce(ip)
        PROVE  blocks'[ip].until >= blocks[ip].until
    <2>1. TypeOK /\ Spaced(ip) /\ HasBlock(ip) /\ ~BlockOver(ip)
      BY <1>1 DEF TrackerInv, InForce
    <2>2. blocks[ip].until \in Nat /\ now \in Nat /\ blocks[ip].until <= now + BlockTime
      BY <2>1, BlockNumbers, Constants DEF Spaced, Began
    <2>3. ASSUME Kept(ip) PROVE blocks'[ip].until >= blocks[ip].until
      BY <2>1, <2>2, <2>3 DEF Kept
    <2>4. CASE Reject(ip)
      <3>1. blocks'[ip] = [blocks[ip] EXCEPT !.loggedAt = now]
        BY <2>1, <2>4 DEF Reject, HitMarked, TypeOK
      <3> QED
        BY <2>1, <2>2, <3>1 DEF TypeOK, Block
    <2>5. CASE FailBlocks(ip)
      <3>1. blocks'[ip].until = now + BlockTime
        BY <2>1, <2>5 DEF FailBlocks, TypeOK
      <3> QED
        BY <2>2, <3>1
    <2>6. ASSUME NEW i \in Ips, i # ip, Admit(i) \/ Reject(i) \/ End(i) \/ Fail(i)
          PROVE  blocks'[ip].until >= blocks[ip].until
      BY <2>1, <2>2, <2>6, Others
    <2> QED
      BY <1>1, <2>1, <2>3, <2>4, <2>5, <2>6, KeptSteps DEF Next, Fail
  <1>2. TrackerInv /\ [Next]_vars =>
          [\A ip \in Ips : InForce(ip) => blocks'[ip].until >= blocks[ip].until]_vars
    BY <1>1
  <1> QED
    BY <1>2, TrackerInductive, PTL DEF Spec, BlockServed

-----------------------------------------------------------------------------
(* The recorded failures and the windows they are counted in               *)

\* The failures of an address are numbered in the order they were recorded: how
\* many there are, which one opened the window that is being counted, and which
\* one began the last block.
Recs(ip) == Len(failed[ip])
Opener(ip) == Recs(ip) - counters[ip].count + 1
LastBlocking(ip) == Recs(ip) - since[ip]

\* Failures after the last block, up to number m and later than t.
Lately(ip, m, t) == {i \in LastBlocking(ip) + 1 .. m : failed[ip][i] > t}

\* The failures are in order, those of the counter are the last, and its window
\* began with the first of them.
Recorded(ip) ==
    /\ counters[ip].count <= since[ip] /\ since[ip] <= Recs(ip)
    /\ \A i \in 1 .. Recs(ip) : failed[ip][i] <= now
    /\ \A i, j \in 1 .. Recs(ip) : i < j => failed[ip][i] <= failed[ip][j]
    /\ HasCounter(ip) => counters[ip].windowEndAt = failed[ip][Opener(ip)] + Window

\* What led to a block is BlockTime past when the block is over.
Answered(ip) == \A i \in 1 .. LastBlocking(ip) :
    \/ failed[ip][i] + BlockTime <= now
    \/ HasBlock(ip) /\ failed[ip][i] + BlockTime <= blocks[ip].until

\* Of the window before the one that is counted, all but the failure that opened
\* it may lie within a Window of the opener, or of now if none is counted.
Few(ip) ==
    /\ HasCounter(ip) =>
         Cardinality(Lately(ip, Opener(ip) - 1, failed[ip][Opener(ip)] - Window)) <= Threshold - 2
    /\ ~HasCounter(ip) =>
         Cardinality(Lately(ip, Recs(ip), now - Window)) <= Threshold - 2

\* BlockEarned for one address.
Earned(ip) ==
    HasBlock(ip) => FailuresIn(ip, Began(ip) - Window + 1 .. Began(ip)) >= Threshold

FailuresInv ==
    /\ TypeOK
    /\ \A ip \in Ips : Recorded(ip) /\ Answered(ip) /\ Few(ip) /\ Earned(ip)

\* An interval has as many elements as its length.
LEMMA SpanCount ==
    ASSUME NEW a \in Int, NEW b \in Int, a <= b
    PROVE  IsFiniteSet(a .. b) /\ Cardinality(a .. b) = b - a + 1
  <1>1. /\ IsFiniteSet(a .. b)
        /\ Cardinality(a .. b) = IF a > b THEN 0 ELSE b - a + 1
    BY FS_Interval
  <1>2. ~(a > b)
    OBVIOUS
  <1> QED
    BY <1>1, <1>2

\* A part of an interval has no more elements than it.
LEMMA SpanBound ==
    ASSUME NEW a \in Int, NEW b \in Int, NEW n \in Nat, b - a + 1 <= n,
           NEW S, S \subseteq a .. b
    PROVE  IsFiniteSet(S) /\ Cardinality(S) \in Nat /\ Cardinality(S) <= n
  <1>0. IsFiniteSet(a .. b) /\ Cardinality(a .. b) = IF a > b THEN 0 ELSE b - a + 1
    BY FS_Interval
  <1>1. IsFiniteSet(a .. b) /\ Cardinality(a .. b) <= n
    BY <1>0
  <1>2. IsFiniteSet(S) /\ Cardinality(S) <= Cardinality(a .. b)
    BY <1>1, FS_Subset
  <1>3. Cardinality(S) \in Nat /\ Cardinality(a .. b) \in Nat
    BY <1>1, <1>2, FS_CardinalityType
  <1> QED
    BY <1>1, <1>2, <1>3

\* A part of a part has no more elements either.
LEMMA PartBound ==
    ASSUME NEW a \in Int, NEW b \in Int, NEW S, NEW T, S \subseteq T, T \subseteq a .. b
    PROVE  /\ IsFiniteSet(T) /\ Cardinality(T) \in Nat
           /\ Cardinality(S) \in Nat /\ Cardinality(S) <= Cardinality(T)
  <1>1. IsFiniteSet(a .. b)
    BY FS_Interval
  <1>2. IsFiniteSet(T)
    BY <1>1, FS_Subset
  <1>3. IsFiniteSet(S) /\ Cardinality(S) <= Cardinality(T)
    BY <1>2, FS_Subset
  <1> QED
    BY <1>2, <1>3, FS_CardinalityType

\* Numbers behind the record of an address.
LEMMA RecNumbers ==
    ASSUME TypeOK, NEW ip \in Ips
    PROVE  /\ now \in Nat /\ since[ip] \in Nat
           /\ counters[ip].count \in Nat /\ counters[ip].count <= Threshold - 1
           /\ counters[ip].windowEndAt \in Nat
           /\ failed[ip] \in Seq(Time) /\ Recs(ip) \in Nat
           /\ \A i \in 1 .. Recs(ip) : failed[ip][i] \in Nat
  <1>1. now \in Nat /\ since[ip] \in Nat /\ counters[ip] \in Counter /\ failed[ip] \in Seq(Time)
    BY Entries DEF TypeOK
  <1>2. /\ counters[ip].count \in Nat /\ counters[ip].count <= Threshold - 1
        /\ counters[ip].windowEndAt \in Nat
    BY <1>1, Constants DEF Counter
  <1>3. Recs(ip) \in Nat /\ \A i \in 1 .. Recs(ip) : failed[ip][i] \in Time
    BY <1>1 DEF Recs
  <1> QED
    BY <1>1, <1>2, <1>3 DEF Time

\* The indices that the invariant speaks of.
LEMMA RecIndices ==
    ASSUME TypeOK, NEW ip \in Ips, Recorded(ip)
    PROVE  /\ LastBlocking(ip) \in Nat /\ Opener(ip) \in Nat
           /\ LastBlocking(ip) < Opener(ip)
           /\ Opener(ip) <= Recs(ip) + 1
           /\ HasCounter(ip) => Opener(ip) \in 1 .. Recs(ip) /\ failed[ip][Opener(ip)] \in Nat
           /\ ~HasCounter(ip) => Opener(ip) = Recs(ip) + 1
  <1>1. /\ since[ip] \in Nat /\ counters[ip].count \in Nat /\ Recs(ip) \in Nat
        /\ \A i \in 1 .. Recs(ip) : failed[ip][i] \in Nat
    BY RecNumbers
  <1>2. counters[ip].count <= since[ip] /\ since[ip] <= Recs(ip)
    BY DEF Recorded
  <1>3. LastBlocking(ip) \in Nat /\ Opener(ip) \in Nat /\ LastBlocking(ip) < Opener(ip)
    BY <1>1, <1>2 DEF LastBlocking, Opener
  <1>4. /\ Opener(ip) <= Recs(ip) + 1
        /\ HasCounter(ip) => Opener(ip) \in 1 .. Recs(ip)
        /\ ~HasCounter(ip) => Opener(ip) = Recs(ip) + 1
    BY <1>1, <1>2 DEF Opener, HasCounter
  <1> QED
    BY <1>1, <1>3, <1>4

\* When the counted window is over, its opener is a Window past: the others are
\* too few for a block.
LEMMA CountedOut ==
    ASSUME TypeOK, NEW ip \in Ips, Recorded(ip), HasCounter(ip), CounterOver(ip)
    PROVE  Cardinality(Lately(ip, Recs(ip), now - Window)) <= Threshold - 2
  <1>n. /\ now \in Nat /\ since[ip] \in Nat /\ Recs(ip) \in Nat
        /\ counters[ip].count \in Nat /\ counters[ip].count <= Threshold - 1
        /\ counters[ip].windowEndAt \in Nat
        /\ \A i \in 1 .. Recs(ip) : failed[ip][i] \in Nat
    BY RecNumbers
  <1>x. /\ LastBlocking(ip) \in Nat /\ Opener(ip) \in Nat
        /\ LastBlocking(ip) < Opener(ip) /\ Opener(ip) <= Recs(ip) + 1
        /\ HasCounter(ip) => Opener(ip) \in 1 .. Recs(ip) /\ failed[ip][Opener(ip)] \in Nat
    BY RecIndices
  <1> USE <1>n, <1>x, Constants
  <1>1. failed[ip][Opener(ip)] <= now - Window
    BY DEF Recorded, CounterOver
  <1>2. ASSUME NEW i \in 1 .. Recs(ip), failed[ip][i] > now - Window
        PROVE  i > Opener(ip)
    BY <1>1, <1>2 DEF Recorded
  <1>3. Lately(ip, Recs(ip), now - Window) \subseteq Opener(ip) + 1 .. Recs(ip)
    BY <1>2 DEF Lately
  <1>4. Recs(ip) - (Opener(ip) + 1) + 1 <= Threshold - 2
    BY DEF Opener
  <1>5. Threshold - 2 \in Nat /\ Opener(ip) + 1 \in Int /\ Recs(ip) \in Int
    OBVIOUS
  <1> QED
    BY <1>3, <1>4, <1>5, SpanBound

\* A step that records no failure of ip and begins no block of it.
Quiet(ip) ==
    /\ failed'[ip] = failed[ip] /\ since'[ip] = since[ip] /\ now <= now'
    /\ \/ counters'[ip] = counters[ip]
       \/ CounterOver(ip) /\ counters'[ip] = NoCounter /\ now' = now
    /\ \/ blocks'[ip].until = blocks[ip].until
       \/ BlockOver(ip) /\ blocks'[ip] = NoBlock

\* Admissions, rejections, ends, prunings and ticks are such steps.
LEMMA QuietSteps ==
    ASSUME TypeOK, NEW ip \in Ips,
           Admit(ip) \/ Reject(ip) \/ End(ip) \/ Prune \/ Tick \/ UNCHANGED vars
    PROVE  Quiet(ip)
  <1> USE DEF TypeOK, Quiet, history
  <1>0. now \in Nat /\ blocks[ip] \in Block
    BY Entries
  <1>1. CASE Admit(ip)
    <2>1. blocks'[ip] = IF BlockOver(ip) THEN NoBlock ELSE blocks[ip]
      BY <1>1 DEF Admit
    <2> QED
      BY <1>0, <1>1, <2>1 DEF Admit
  <1>2. CASE Reject(ip)
    <2>1. blocks'[ip] = [blocks[ip] EXCEPT !.loggedAt = now]
      BY <1>2 DEF Reject, HitMarked
    <2>2. blocks'[ip].until = blocks[ip].until
      BY <1>0, <2>1 DEF Block
    <2> QED
      BY <1>0, <1>2, <2>2 DEF Reject
  <1>3. CASE End(ip)
    BY <1>0, <1>3 DEF End
  <1>4. CASE Prune
    <2>1. /\ counters'[ip] = IF CounterOver(ip) THEN NoCounter ELSE counters[ip]
          /\ blocks'[ip] = IF BlockOver(ip) THEN NoBlock ELSE blocks[ip]
      BY <1>4 DEF Prune, CountersPruned, BlocksPruned
    <2> QED
      BY <1>0, <1>4, <2>1 DEF Prune
  <1>5. CASE Tick \/ UNCHANGED vars
    BY <1>0, <1>5 DEF Tick, vars
  <1> QED
    BY <1>1, <1>2, <1>3, <1>4, <1>5

\* They keep the record: a counter that is forgotten was over.
LEMMA QuietRecorded ==
    ASSUME TypeOK, TypeOK', NEW ip \in Ips, Recorded(ip), Quiet(ip)
    PROVE  Recorded(ip)'
  <1>n. /\ now \in Nat /\ since[ip] \in Nat /\ Recs(ip) \in Nat
        /\ counters[ip].count \in Nat /\ counters[ip].count <= Threshold - 1
        /\ counters[ip].windowEndAt \in Nat
        /\ \A i \in 1 .. Recs(ip) : failed[ip][i] \in Nat
    BY RecNumbers
  <1> USE <1>n, Constants
  <1>1. /\ Recs(ip)' = Recs(ip) /\ failed'[ip] = failed[ip] /\ now' \in Nat /\ now <= now'
        /\ since'[ip] = since[ip]
    BY DEF Quiet, Recs, TypeOK, Time
  <1>2. \A i \in 1 .. Recs(ip) : failed[ip][i] <= now'
    BY <1>1 DEF Recorded
  <1>3. CASE counters'[ip] = counters[ip]
    BY <1>1, <1>2, <1>3 DEF Recorded, HasCounter, Opener
  <1>4. CASE counters'[ip] = NoCounter
    BY <1>1, <1>2, <1>4 DEF Recorded, HasCounter, NoCounter
  <1> QED
    BY <1>3, <1>4 DEF Quiet

\* Failures only grow older, and a block that is forgotten was over.
LEMMA QuietAnswered ==
    ASSUME TypeOK, TypeOK', NEW ip \in Ips, Recorded(ip), Answered(ip), Quiet(ip)
    PROVE  Answered(ip)'
  <1>n. /\ now \in Nat /\ since[ip] \in Nat /\ Recs(ip) \in Nat
        /\ counters[ip].count \in Nat /\ counters[ip].count <= Threshold - 1
        /\ counters[ip].windowEndAt \in Nat
        /\ \A i \in 1 .. Recs(ip) : failed[ip][i] \in Nat
    BY RecNumbers
  <1>x. /\ LastBlocking(ip) \in Nat /\ Opener(ip) \in Nat
        /\ LastBlocking(ip) < Opener(ip) /\ Opener(ip) <= Recs(ip) + 1
        /\ HasCounter(ip) => Opener(ip) \in 1 .. Recs(ip) /\ failed[ip][Opener(ip)] \in Nat
    BY RecIndices
  <1> USE <1>n, <1>x, BlockNumbers, Constants
  <1>1. /\ LastBlocking(ip)' = LastBlocking(ip) /\ failed'[ip] = failed[ip]
        /\ now' \in Nat /\ now <= now'
    BY DEF Quiet, Recs, LastBlocking, TypeOK, Time
  <1>2. LastBlocking(ip) <= Recs(ip)
    BY DEF LastBlocking
  <1> SUFFICES ASSUME NEW i \in 1 .. LastBlocking(ip)
               PROVE  \/ failed[ip][i] + BlockTime <= now'
                      \/ HasBlock(ip)' /\ failed[ip][i] + BlockTime <= blocks'[ip].until
    BY <1>1 DEF Answered
  <1>3. failed[ip][i] \in Nat
    BY <1>2
  <1>4. CASE failed[ip][i] + BlockTime <= now
    BY <1>1, <1>3, <1>4
  <1>5. CASE HasBlock(ip) /\ failed[ip][i] + BlockTime <= blocks[ip].until
    BY <1>1, <1>3, <1>5 DEF Quiet, HasBlock, BlockOver
  <1> QED
    BY <1>4, <1>5 DEF Answered

\* Few stays, for a window that is over leaves few.
LEMMA QuietFew ==
    ASSUME TypeOK, TypeOK', NEW ip \in Ips, Recorded(ip), Few(ip), Quiet(ip)
    PROVE  Few(ip)'
  <1>n. /\ now \in Nat /\ since[ip] \in Nat /\ Recs(ip) \in Nat
        /\ counters[ip].count \in Nat /\ counters[ip].count <= Threshold - 1
        /\ counters[ip].windowEndAt \in Nat
        /\ \A i \in 1 .. Recs(ip) : failed[ip][i] \in Nat
    BY RecNumbers
  <1>x. /\ LastBlocking(ip) \in Nat /\ Opener(ip) \in Nat
        /\ LastBlocking(ip) < Opener(ip) /\ Opener(ip) <= Recs(ip) + 1
        /\ HasCounter(ip) => Opener(ip) \in 1 .. Recs(ip) /\ failed[ip][Opener(ip)] \in Nat
    BY RecIndices
  <1> USE <1>n, <1>x, Constants
  <1>1. /\ Recs(ip)' = Recs(ip) /\ LastBlocking(ip)' = LastBlocking(ip)
        /\ failed'[ip] = failed[ip] /\ now' \in Nat /\ now <= now'
    BY DEF Quiet, Recs, LastBlocking, TypeOK, Time
  <1>2. CASE counters'[ip] = counters[ip] /\ HasCounter(ip)
    <2>1. HasCounter(ip)' /\ Opener(ip)' = Opener(ip)
      BY <1>1, <1>2 DEF HasCounter, Opener
    <2>2. Lately(ip, Opener(ip) - 1, failed[ip][Opener(ip)] - Window)' =
            Lately(ip, Opener(ip) - 1, failed[ip][Opener(ip)] - Window)
      BY <1>1, <2>1 DEF Lately
    <2> QED
      BY <1>2, <2>1, <2>2 DEF Few
  <1>3. ASSUME Cardinality(Lately(ip, Recs(ip), now - Window)) <= Threshold - 2,
               ~HasCounter(ip)'
        PROVE  Few(ip)'
    <2> DEFINE before == Lately(ip, Recs(ip), now - Window)
               after == Lately(ip, Recs(ip), now - Window)'
    <2>1. after \subseteq before
      BY <1>1 DEF Lately
    <2>2. before \subseteq 1 .. Recs(ip)
      BY DEF Lately
    <2>3. Cardinality(after) \in Nat /\ Cardinality(before) \in Nat
          /\ Cardinality(after) <= Cardinality(before)
      <3> HIDE DEF before, after
      <3> QED
        BY <2>1, <2>2, PartBound, 1 \in Int, Recs(ip) \in Int
    <2>4. Cardinality(after) <= Threshold - 2
      <3> HIDE DEF after
      <3> QED
        BY <1>3, <2>3
    <2> QED
      BY <1>3, <2>4 DEF Few
  <1>4. CASE counters'[ip] = counters[ip] /\ ~HasCounter(ip)
    BY <1>3, <1>4 DEF Few, HasCounter
  <1>5. CASE counters'[ip] = NoCounter /\ CounterOver(ip)
    BY <1>3, <1>5, CountedOut DEF Few, HasCounter, NoCounter
  <1> QED
    BY <1>2, <1>4, <1>5 DEF Quiet

\* A block that stays was earned.
LEMMA QuietEarned ==
    ASSUME TypeOK, NEW ip \in Ips, Earned(ip), Quiet(ip)
    PROVE  Earned(ip)'
  <1>1. CASE blocks'[ip].until = blocks[ip].until
    BY <1>1 DEF Earned, Quiet, HasBlock, Began, FailuresIn
  <1>2. CASE blocks'[ip] = NoBlock
    BY <1>2 DEF Earned, HasBlock, NoBlock
  <1> QED
    BY <1>1, <1>2 DEF Quiet

\* A failure is recorded behind the others.
LEMMA Appended ==
    ASSUME TypeOK, NEW ip \in Ips, EndsInvalid(ip)
    PROVE  /\ Recs(ip)' = Recs(ip) + 1 /\ now' = now
           /\ \A i \in 1 .. Recs(ip) : failed'[ip][i] = failed[ip][i]
           /\ failed'[ip][Recs(ip) + 1] = now
  <1>1. failed'[ip] = Append(failed[ip], now) /\ now' = now
    BY DEF EndsInvalid, TypeOK
  <1>2. failed[ip] \in Seq(Time) /\ now \in Time
    BY DEF TypeOK
  <1> QED
    BY <1>1, <1>2 DEF Recs

\* One more failure takes nothing from what earned the block.
LEMMA AppendedEarned ==
    ASSUME TypeOK, NEW ip \in Ips, Earned(ip), EndsInvalid(ip), blocks'[ip] = blocks[ip]
    PROVE  Earned(ip)'
  <1> SUFFICES ASSUME HasBlock(ip)'
               PROVE  FailuresIn(ip, Began(ip) - Window + 1 .. Began(ip))' >= Threshold
    BY DEF Earned
  <1>1. HasBlock(ip) /\ Began(ip)' = Began(ip)
    BY DEF HasBlock, Began
  <1>2. Recs(ip) \in Nat /\ Recs(ip)' = Recs(ip) + 1
    BY Appended, RecNumbers
  <1>3. \A i \in 1 .. Recs(ip) : failed'[ip][i] = failed[ip][i]
    BY Appended
  <1> DEFINE span == Began(ip) - Window + 1 .. Began(ip)
             before == {i \in 1 .. Recs(ip) : failed[ip][i] \in span}
             after == {i \in 1 .. Recs(ip) + 1 : failed'[ip][i] \in span}
  <1>4. FailuresIn(ip, span) = Cardinality(before)
    BY DEF FailuresIn, Recs
  <1>5. FailuresIn(ip, Began(ip) - Window + 1 .. Began(ip))' = Cardinality(after)
    BY <1>1, <1>2 DEF FailuresIn, Recs
  <1>6. before \subseteq after /\ after \subseteq 1 .. Recs(ip) + 1
    BY <1>2, <1>3
  <1>7. Cardinality(before) >= Threshold
    BY <1>1, <1>4 DEF Earned
  <1> HIDE DEF before, after
  <1>8. /\ Cardinality(after) \in Nat /\ Cardinality(before) \in Nat
        /\ Cardinality(before) <= Cardinality(after)
    BY <1>2, <1>6, PartBound, 1 \in Int, Recs(ip) + 1 \in Int
  <1> QED
    BY <1>5, <1>7, <1>8, Constants

\* What was before the last block stays answered while the block stays.
LEMMA AppendedAnswered ==
    ASSUME TypeOK, NEW ip \in Ips, Recorded(ip), Answered(ip), EndsInvalid(ip),
           blocks'[ip] = blocks[ip], since'[ip] = since[ip] + 1
    PROVE  Answered(ip)'
  <1>n. /\ now \in Nat /\ since[ip] \in Nat /\ Recs(ip) \in Nat
        /\ counters[ip].count \in Nat /\ counters[ip].count <= Threshold - 1
        /\ counters[ip].windowEndAt \in Nat
        /\ \A i \in 1 .. Recs(ip) : failed[ip][i] \in Nat
    BY RecNumbers
  <1>x. /\ LastBlocking(ip) \in Nat /\ Opener(ip) \in Nat
        /\ LastBlocking(ip) < Opener(ip) /\ Opener(ip) <= Recs(ip) + 1
        /\ HasCounter(ip) => Opener(ip) \in 1 .. Recs(ip) /\ failed[ip][Opener(ip)] \in Nat
    BY RecIndices
  <1>a. /\ Recs(ip)' = Recs(ip) + 1 /\ now' = now
        /\ \A i \in 1 .. Recs(ip) : failed'[ip][i] = failed[ip][i]
        /\ failed'[ip][Recs(ip) + 1] = now
    BY Appended
  <1>1. LastBlocking(ip)' = LastBlocking(ip)
    BY <1>n, <1>a DEF LastBlocking
  <1>2. LastBlocking(ip) <= Recs(ip) /\ LastBlocking(ip) \in Nat
    BY <1>n, <1>x DEF LastBlocking
  <1>3. \A i \in 1 .. LastBlocking(ip) : failed'[ip][i] = failed[ip][i]
    BY <1>n, <1>a, <1>2
  <1> QED
    BY <1>1, <1>2, <1>3, <1>a DEF Answered, HasBlock

\* The failures stay in order.
LEMMA AppendedOrdered ==
    ASSUME TypeOK, NEW ip \in Ips, Recorded(ip), EndsInvalid(ip)
    PROVE  /\ \A i \in 1 .. Recs(ip)' : failed'[ip][i] <= now'
           /\ \A i, j \in 1 .. Recs(ip)' : i < j => failed'[ip][i] <= failed'[ip][j]
  <1>n. /\ now \in Nat /\ since[ip] \in Nat /\ Recs(ip) \in Nat
        /\ counters[ip].count \in Nat /\ counters[ip].count <= Threshold - 1
        /\ counters[ip].windowEndAt \in Nat
        /\ \A i \in 1 .. Recs(ip) : failed[ip][i] \in Nat
    BY RecNumbers
  <1>a. /\ Recs(ip)' = Recs(ip) + 1 /\ now' = now
        /\ \A i \in 1 .. Recs(ip) : failed'[ip][i] = failed[ip][i]
        /\ failed'[ip][Recs(ip) + 1] = now
    BY Appended
  <1>1. \A i \in 1 .. Recs(ip)' : failed'[ip][i] <= now'
    BY <1>a, <1>n DEF Recorded
  <1> SUFFICES ASSUME NEW i \in 1 .. Recs(ip) + 1, NEW j \in 1 .. Recs(ip) + 1, i < j
               PROVE  failed'[ip][i] <= failed'[ip][j]
    BY <1>1, <1>a
  <1>2. i \in 1 .. Recs(ip) /\ failed'[ip][i] = failed[ip][i]
    BY <1>n, <1>a
  <1>3. CASE j = Recs(ip) + 1
    BY <1>a, <1>2, <1>3 DEF Recorded
  <1>4. CASE j \in 1 .. Recs(ip)
    BY <1>a, <1>2, <1>4 DEF Recorded
  <1> QED
    BY <1>n, <1>3, <1>4

\* A failure that opens a window: fewer than would block lie before it.
LEMMA NewWindowKeeps ==
    ASSUME TypeOK, NEW ip \in Ips, Recorded(ip), Few(ip), FailInNewWindow(ip)
    PROVE  Recorded(ip)' /\ Few(ip)'
  <1>n. /\ now \in Nat /\ since[ip] \in Nat /\ Recs(ip) \in Nat
        /\ counters[ip].count \in Nat /\ counters[ip].count <= Threshold - 1
        /\ counters[ip].windowEndAt \in Nat
        /\ \A i \in 1 .. Recs(ip) : failed[ip][i] \in Nat
    BY RecNumbers
  <1>x. /\ LastBlocking(ip) \in Nat /\ Opener(ip) \in Nat
        /\ LastBlocking(ip) < Opener(ip) /\ Opener(ip) <= Recs(ip) + 1
        /\ HasCounter(ip) => Opener(ip) \in 1 .. Recs(ip) /\ failed[ip][Opener(ip)] \in Nat
    BY RecIndices
  <1>a. /\ Recs(ip)' = Recs(ip) + 1 /\ now' = now
        /\ \A i \in 1 .. Recs(ip) : failed'[ip][i] = failed[ip][i]
        /\ failed'[ip][Recs(ip) + 1] = now
    BY Appended DEF FailInNewWindow
  <1>1. /\ counters'[ip] = [count |-> 1, windowEndAt |-> now + Window]
        /\ since'[ip] = since[ip] + 1
    BY DEF FailInNewWindow, TypeOK
  <1>2. /\ counters'[ip].count = 1 /\ counters'[ip].windowEndAt = now + Window
        /\ HasCounter(ip)' /\ Opener(ip)' = Recs(ip) + 1 /\ failed'[ip][Opener(ip)'] = now
        /\ LastBlocking(ip)' = LastBlocking(ip)
    BY <1>1, <1>n, <1>a DEF HasCounter, Opener, LastBlocking
  <1>3. Recorded(ip)'
    <2>1. counters'[ip].count <= since'[ip] /\ since'[ip] <= Recs(ip)'
      BY <1>1, <1>2, <1>a, <1>n DEF Recorded
    <2> QED
      BY <1>2, <2>1, AppendedOrdered DEF Recorded, FailInNewWindow
  <1> DEFINE lately == Lately(ip, Recs(ip), now - Window)
  <1>4. Cardinality(lately) <= Threshold - 2
    BY CountedOut DEF Few, FailInNewWindow, OpensWindow
  <1>5. Lately(ip, Opener(ip) - 1, failed[ip][Opener(ip)] - Window)' = lately
    BY <1>2, <1>a, <1>n, <1>x DEF Lately
  <1>6. Few(ip)'
    <2> HIDE DEF lately
    <2> QED
      BY <1>2, <1>4, <1>5 DEF Few
  <1> QED
    BY <1>3, <1>6

\* A failure that is counted leaves the window and what was before it.
LEMMA CountedKeeps ==
    ASSUME TypeOK, NEW ip \in Ips, Recorded(ip), Few(ip), FailCounted(ip)
    PROVE  Recorded(ip)' /\ Few(ip)'
  <1>n. /\ now \in Nat /\ since[ip] \in Nat /\ Recs(ip) \in Nat
        /\ counters[ip].count \in Nat /\ counters[ip].count <= Threshold - 1
        /\ counters[ip].windowEndAt \in Nat
        /\ \A i \in 1 .. Recs(ip) : failed[ip][i] \in Nat
    BY RecNumbers
  <1>x. /\ LastBlocking(ip) \in Nat /\ Opener(ip) \in Nat
        /\ LastBlocking(ip) < Opener(ip) /\ Opener(ip) <= Recs(ip) + 1
        /\ HasCounter(ip) => Opener(ip) \in 1 .. Recs(ip) /\ failed[ip][Opener(ip)] \in Nat
    BY RecIndices
  <1>a. /\ Recs(ip)' = Recs(ip) + 1 /\ now' = now
        /\ \A i \in 1 .. Recs(ip) : failed'[ip][i] = failed[ip][i]
        /\ failed'[ip][Recs(ip) + 1] = now
    BY Appended DEF FailCounted
  <1>1. /\ counters'[ip] = [counters[ip] EXCEPT !.count = @ + 1]
        /\ since'[ip] = since[ip] + 1 /\ counters[ip] \in Counter
        /\ HasCounter(ip)
    BY DEF FailCounted, OpensWindow, TypeOK
  <1>2. /\ counters'[ip].count = counters[ip].count + 1
        /\ counters'[ip].windowEndAt = counters[ip].windowEndAt
    BY <1>1 DEF Counter
  <1>3. /\ HasCounter(ip)' /\ Opener(ip)' = Opener(ip) /\ LastBlocking(ip)' = LastBlocking(ip)
        /\ failed'[ip][Opener(ip)] = failed[ip][Opener(ip)]
    BY <1>1, <1>2, <1>n, <1>x, <1>a DEF HasCounter, Opener, LastBlocking
  <1>4. Recorded(ip)'
    <2>1. counters'[ip].count <= since'[ip] /\ since'[ip] <= Recs(ip)'
      BY <1>1, <1>2, <1>a, <1>n DEF Recorded
    <2>2. counters'[ip].windowEndAt = failed'[ip][Opener(ip)'] + Window
      BY <1>1, <1>2, <1>3 DEF Recorded
    <2> QED
      BY <2>1, <2>2, AppendedOrdered DEF Recorded, FailCounted
  <1> DEFINE lately == Lately(ip, Opener(ip) - 1, failed[ip][Opener(ip)] - Window)
  <1>5. Lately(ip, Opener(ip) - 1, failed[ip][Opener(ip)] - Window)' = lately
    BY <1>1, <1>3, <1>a, <1>n, <1>x DEF Lately
  <1>6. Few(ip)'
    <2>1. Cardinality(lately) <= Threshold - 2
      BY <1>1 DEF Few
    <2> HIDE DEF lately
    <2> QED
      BY <1>3, <1>5, <2>1 DEF Few
  <1> QED
    BY <1>4, <1>6

\* The failure that begins a block: the counter starts again, and all failures
\* so far lie before the block.
LEMMA BlockingKeeps ==
    ASSUME TypeOK, NEW ip \in Ips, Recorded(ip), FailBlocks(ip)
    PROVE  Recorded(ip)' /\ Few(ip)' /\ Answered(ip)'
  <1>n. /\ now \in Nat /\ since[ip] \in Nat /\ Recs(ip) \in Nat
        /\ counters[ip].count \in Nat /\ counters[ip].count <= Threshold - 1
        /\ counters[ip].windowEndAt \in Nat
        /\ \A i \in 1 .. Recs(ip) : failed[ip][i] \in Nat
    BY RecNumbers
  <1>x. /\ LastBlocking(ip) \in Nat /\ Opener(ip) \in Nat
        /\ LastBlocking(ip) < Opener(ip) /\ Opener(ip) <= Recs(ip) + 1
        /\ HasCounter(ip) => Opener(ip) \in 1 .. Recs(ip) /\ failed[ip][Opener(ip)] \in Nat
    BY RecIndices
  <1>a. /\ Recs(ip)' = Recs(ip) + 1 /\ now' = now
        /\ \A i \in 1 .. Recs(ip) : failed'[ip][i] = failed[ip][i]
        /\ failed'[ip][Recs(ip) + 1] = now
    BY Appended DEF FailBlocks
  <1>1. /\ counters'[ip] = NoCounter /\ since'[ip] = 0
        /\ blocks'[ip] = [until |-> now + BlockTime, loggedAt |-> Epoch]
    BY DEF FailBlocks, CounterCleared, TypeOK
  <1>2. /\ counters'[ip].count = 0 /\ ~HasCounter(ip)'
        /\ blocks'[ip].until = now + BlockTime /\ HasBlock(ip)'
        /\ LastBlocking(ip)' = Recs(ip)'
    BY <1>1, <1>n, <1>a, Constants DEF HasCounter, HasBlock, NoCounter, LastBlocking
  <1>3. Recorded(ip)'
    BY <1>1, <1>2, <1>n, <1>a, AppendedOrdered DEF Recorded, FailBlocks
  <1>4. Few(ip)'
    <2>1. Lately(ip, Recs(ip), now - Window)' = {}
      BY <1>2, <1>a, <1>n DEF Lately
    <2>2. Cardinality(Lately(ip, Recs(ip), now - Window)') = 0
      BY <2>1, FS_EmptySet
    <2> QED
      BY <1>2, <2>2, Constants DEF Few
  <1>5. Answered(ip)'
    <2>1. \A i \in 1 .. Recs(ip)' : failed'[ip][i] <= now /\ failed'[ip][i] \in Nat
      BY <1>a, <1>n DEF Recorded
    <2> QED
      BY <1>2, <2>1, <1>n, Constants DEF Answered
  <1> QED
    BY <1>3, <1>4, <1>5

\* It is the last of Threshold failures within a Window.
LEMMA BlockingEarned ==
    ASSUME TypeOK, NEW ip \in Ips, Recorded(ip), FailBlocks(ip)
    PROVE  Earned(ip)'
  <1>n. /\ now \in Nat /\ since[ip] \in Nat /\ Recs(ip) \in Nat
        /\ counters[ip].count \in Nat /\ counters[ip].count <= Threshold - 1
        /\ counters[ip].windowEndAt \in Nat
        /\ \A i \in 1 .. Recs(ip) : failed[ip][i] \in Nat
    BY RecNumbers
  <1>x. /\ LastBlocking(ip) \in Nat /\ Opener(ip) \in Nat
        /\ LastBlocking(ip) < Opener(ip) /\ Opener(ip) <= Recs(ip) + 1
        /\ HasCounter(ip) => Opener(ip) \in 1 .. Recs(ip) /\ failed[ip][Opener(ip)] \in Nat
    BY RecIndices
  <1>a. /\ Recs(ip)' = Recs(ip) + 1 /\ now' = now
        /\ \A i \in 1 .. Recs(ip) : failed'[ip][i] = failed[ip][i]
        /\ failed'[ip][Recs(ip) + 1] = now
    BY Appended DEF FailBlocks
  <1>1. blocks'[ip].until = now + BlockTime
    BY DEF FailBlocks, TypeOK
  <1>2. HasCounter(ip) /\ now < counters[ip].windowEndAt /\ counters[ip].count = Threshold - 1
    BY <1>n, Constants DEF FailBlocks, OpensWindow, ReachesThreshold, HasCounter, CounterOver
  <1>3. failed[ip][Opener(ip)] + Window > now
    BY <1>2 DEF Recorded
  <1> DEFINE span == now - Window + 1 .. now
             last == Opener(ip) .. Recs(ip) + 1
             blocking == {i \in 1 .. Recs(ip) + 1 : failed'[ip][i] \in span}
  <1>4. \A i \in last : failed'[ip][i] \in span
    <2> SUFFICES ASSUME NEW i \in last
                 PROVE  failed'[ip][i] \in Int /\ failed'[ip][i] >= now - Window + 1 /\ failed'[ip][i] <= now
      BY <1>n, Constants
    <2>1. CASE i = Recs(ip) + 1
      BY <1>a, <1>n, <2>1, Constants
    <2>2. CASE i \in 1 .. Recs(ip)
      <3>1. failed[ip][Opener(ip)] <= failed[ip][i] /\ failed[ip][i] <= now
        BY <1>2, <1>x, <1>n, <2>2 DEF Recorded
      <3> QED
        BY <1>a, <1>n, <1>x, <1>2, <1>3, <2>2, <3>1, Constants
    <2> QED
      BY <1>n, <1>x, <1>2, <2>1, <2>2
  <1>5. last \subseteq blocking /\ blocking \subseteq 1 .. Recs(ip) + 1
    BY <1>4, <1>n, <1>x, <1>2
  <1>6. Cardinality(last) = Threshold
    <2>1. Opener(ip) \in Int /\ Recs(ip) + 1 \in Int /\ Opener(ip) <= Recs(ip) + 1
      BY <1>n, <1>x
    <2>2. (Recs(ip) + 1) - Opener(ip) + 1 = Threshold
      BY <1>2, <1>n, Constants DEF Opener
    <2>3. Cardinality(last) = (Recs(ip) + 1) - Opener(ip) + 1
      BY <2>1, SpanCount
    <2> HIDE DEF last
    <2> QED
      BY <2>2, <2>3
  <1>7. FailuresIn(ip, Began(ip) - Window + 1 .. Began(ip))' = Cardinality(blocking)
    <2>1. Began(ip)' = now
      BY <1>1, <1>n, Constants DEF Began
    <2> QED
      BY <2>1, <1>a DEF FailuresIn, Recs
  <1> HIDE DEF last, blocking
  <1>8. Cardinality(last) <= Cardinality(blocking) /\ Cardinality(blocking) \in Nat
    BY <1>5, <1>n, PartBound, 1 \in Int, Recs(ip) + 1 \in Int
  <1> QED
    BY <1>6, <1>7, <1>8, Constants DEF Earned

\* Every step keeps the invariant of an address.
LEMMA FailuresStep == FailuresInv /\ [Next]_vars => FailuresInv'
  <1> SUFFICES ASSUME FailuresInv, [Next]_vars PROVE FailuresInv'
    OBVIOUS
  <1>1. TypeOK /\ TypeOK'
    BY NextTyped DEF FailuresInv
  <1> SUFFICES ASSUME NEW ip \in Ips
               PROVE  Recorded(ip)' /\ Answered(ip)' /\ Few(ip)' /\ Earned(ip)'
    BY <1>1 DEF FailuresInv
  <1>2. Recorded(ip) /\ Answered(ip) /\ Few(ip) /\ Earned(ip)
    BY DEF FailuresInv
  <1>3. CASE Quiet(ip)
    BY <1>1, <1>2, <1>3, QuietRecorded, QuietAnswered, QuietFew, QuietEarned
  <1>4. ASSUME NEW i \in Ips, i # ip, Admit(i) \/ Reject(i) \/ End(i) \/ Fail(i)
        PROVE  Quiet(ip)
    BY <1>1, <1>4, Others, RecNumbers DEF Quiet
  <1>5. CASE FailInNewWindow(ip)
    <2>1. EndsInvalid(ip) /\ blocks'[ip] = blocks[ip] /\ since'[ip] = since[ip] + 1
      BY <1>1, <1>5 DEF FailInNewWindow, TypeOK
    <2> QED
      BY <1>1, <1>2, <1>5, <2>1, NewWindowKeeps, AppendedAnswered, AppendedEarned
  <1>6. CASE FailCounted(ip)
    <2>1. EndsInvalid(ip) /\ blocks'[ip] = blocks[ip] /\ since'[ip] = since[ip] + 1
      BY <1>1, <1>6 DEF FailCounted, TypeOK
    <2> QED
      BY <1>1, <1>2, <1>6, <2>1, CountedKeeps, AppendedAnswered, AppendedEarned
  <1>7. CASE FailBlocks(ip)
    BY <1>1, <1>2, <1>7, BlockingKeeps, BlockingEarned
  <1> QED
    BY <1>1, <1>3, <1>4, <1>5, <1>6, <1>7, QuietSteps DEF Next, Fail

\* At the start nothing has failed.
LEMMA FailuresInit == Init => FailuresInv
  <1> SUFFICES ASSUME Init, NEW ip \in Ips
               PROVE  Recorded(ip) /\ Answered(ip) /\ Few(ip) /\ Earned(ip)
    BY InitTyped DEF FailuresInv
  <1>1. /\ failed[ip] = << >> /\ counters[ip].count = 0 /\ since[ip] = 0
        /\ Recs(ip) = 0 /\ LastBlocking(ip) = 0 /\ ~HasCounter(ip) /\ ~HasBlock(ip)
    BY DEF Init, NoCounter, NoBlock, Recs, LastBlocking, HasCounter, HasBlock
  <1>2. Lately(ip, Recs(ip), now - Window) = {}
    BY <1>1 DEF Lately
  <1>3. Cardinality(Lately(ip, Recs(ip), now - Window)) = 0
    BY <1>2, FS_EmptySet
  <1> QED
    BY <1>1, <1>3, Constants DEF Recorded, Answered, Few, Earned

\* FailuresInv is an invariant.
LEMMA FailuresInductive == Spec => []FailuresInv
  BY FailuresInit, FailuresStep, PTL DEF Spec

\* No address is blocked for less than Threshold failures within a Window of the
\* begin of its block, whatever was pruned or recorded late.
THEOREM BlocksAreEarned == Spec => []BlockEarned
  <1>1. FailuresInv => BlockEarned
    BY DEF FailuresInv, Earned, BlockEarned
  <1> QED
    BY <1>1, FailuresInductive, PTL

\* Without a block in force, the last Window holds 2 * Threshold - 3 failures at
\* most: those of the window that is counted, and those of the one before it but
\* for its first.
THEOREM RollingIsBounded == Spec => []RollingBound
  <1>1. FailuresInv => RollingBound
    <2> SUFFICES ASSUME FailuresInv, NEW ip \in Ips, ~InForce(ip)
                 PROVE  FailuresIn(ip, now - Window + 1 .. now) <= (Threshold - 2) + (Threshold - 1)
      BY DEF RollingBound
    <2>0. TypeOK /\ Recorded(ip) /\ Answered(ip) /\ Few(ip)
      BY DEF FailuresInv
    <2>n. /\ now \in Nat /\ Recs(ip) \in Nat
          /\ counters[ip].count \in Nat /\ counters[ip].count <= Threshold - 1
          /\ \A i \in 1 .. Recs(ip) : failed[ip][i] \in Nat
      BY <2>0, RecNumbers
    <2>x. /\ LastBlocking(ip) \in Nat /\ Opener(ip) \in Nat
          /\ LastBlocking(ip) < Opener(ip) /\ Opener(ip) <= Recs(ip) + 1
          /\ HasCounter(ip) => Opener(ip) \in 1 .. Recs(ip) /\ failed[ip][Opener(ip)] \in Nat
      BY <2>0, RecIndices
    <2> DEFINE recent == {i \in 1 .. Recs(ip) : failed[ip][i] \in now - Window + 1 .. now}
    <2>1. \A i \in recent : i > LastBlocking(ip) /\ failed[ip][i] > now - Window
      <3> SUFFICES ASSUME NEW i \in recent PROVE i > LastBlocking(ip)
        BY <2>n, Constants
      <3>1. i \in 1 .. Recs(ip) /\ failed[ip][i] > now - Window
        BY <2>n, Constants
      <3>2. ASSUME i \in 1 .. LastBlocking(ip) PROVE failed[ip][i] + BlockTime <= now
        <4>1. ~HasBlock(ip) \/ now >= blocks[ip].until
          BY DEF InForce, BlockOver
        <4> QED
          BY <2>0, <2>n, <3>1, <3>2, <4>1, BlockNumbers, Constants DEF Answered
      <3>3. Window <= BlockTime
        BY TrackerAssumption
      <3> QED
        BY <2>n, <2>x, <3>1, <3>2, <3>3, Constants
    <2>2. CASE ~HasCounter(ip)
      <3> DEFINE lately == Lately(ip, Recs(ip), now - Window)
      <3>1. recent \subseteq lately /\ lately \subseteq 1 .. Recs(ip)
        BY <2>1, <2>n, <2>x DEF Lately
      <3>2. Cardinality(lately) <= Threshold - 2
        BY <2>0, <2>2 DEF Few
      <3>3. FailuresIn(ip, now - Window + 1 .. now) = Cardinality(recent)
        BY DEF FailuresIn, Recs
      <3> HIDE DEF recent, lately
      <3>4. /\ Cardinality(recent) <= Cardinality(lately)
            /\ Cardinality(lately) \in Nat /\ Cardinality(recent) \in Nat
        BY <2>n, <3>1, PartBound, 1 \in Int, Recs(ip) \in Int
      <3> QED
        BY <3>2, <3>3, <3>4, Constants
    <2>3. CASE HasCounter(ip)
      <3> DEFINE lately == Lately(ip, Opener(ip) - 1, failed[ip][Opener(ip)] - Window)
                 counted == Opener(ip) .. Recs(ip)
      <3>1. recent \subseteq lately \cup counted
        <4>1. failed[ip][Opener(ip)] <= now
          BY <2>0, <2>3, <2>x DEF Recorded
        <4> QED
          BY <2>1, <2>3, <2>n, <2>x, <4>1, Constants DEF Lately
      <3>2. lately \subseteq 1 .. Opener(ip) - 1
        BY <2>x DEF Lately
      <3>3. Cardinality(lately) <= Threshold - 2
        BY <2>0, <2>3 DEF Few
      <3>4. FailuresIn(ip, now - Window + 1 .. now) = Cardinality(recent)
        BY DEF FailuresIn, Recs
      <3>5. IsFiniteSet(counted) /\ Cardinality(counted) = counters[ip].count
        <4>1. Opener(ip) \in Int /\ Recs(ip) \in Int /\ Opener(ip) <= Recs(ip)
          BY <2>n, <2>x, <2>3
        <4>2. Recs(ip) - Opener(ip) + 1 = counters[ip].count
          BY <2>n DEF Opener
        <4>3. IsFiniteSet(counted) /\ Cardinality(counted) = Recs(ip) - Opener(ip) + 1
          BY <4>1, SpanCount
        <4> HIDE DEF counted
        <4> QED
          BY <4>2, <4>3
      <3>6. lately \cup counted \subseteq 1 .. Recs(ip)
        BY <2>n, <2>x, <2>3, <3>2
      <3> HIDE DEF recent, lately, counted
      <3>7. IsFiniteSet(lately) /\ Cardinality(lately) \in Nat
        BY <2>x, <3>2, PartBound, 1 \in Int, Opener(ip) - 1 \in Int
      <3>8. /\ Cardinality(lately \cup counted) =
                 Cardinality(lately) + Cardinality(counted) - Cardinality(lately \cap counted)
        BY <3>5, <3>7, FS_Union
      <3>9. Cardinality(lately \cap counted) \in Nat
        BY <3>7, FS_Intersection, FS_CardinalityType
      <3>10. /\ Cardinality(recent) <= Cardinality(lately \cup counted)
             /\ Cardinality(lately \cup counted) \in Nat /\ Cardinality(recent) \in Nat
        BY <2>n, <3>1, <3>6, PartBound, 1 \in Int, Recs(ip) \in Int
      <3> QED
        BY <2>n, <3>3, <3>4, <3>5, <3>7, <3>8, <3>9, <3>10, Constants
    <2> QED
      BY <2>2, <2>3
  <1> QED
    BY <1>1, FailuresInductive, PTL

=============================================================================
