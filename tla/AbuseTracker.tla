---------------------------- MODULE AbuseTracker ----------------------------
(***************************************************************************)
(* The abuse tracker in front of activate (license/abuse-tracker.ts) and   *)
(* the part of the activate handler that calls it.  The tracker is asked   *)
(* when a request arrives and told when its activation has failed; between *)
(* the two the handler awaits the database, so failures may be recorded    *)
(* long after a block has begun, or has ended.                             *)
(*                                                                         *)
(* Time passes in ticks and stands still during a call of the tracker.     *)
(* The throttler that runs before the handler only takes requests away.    *)
(***************************************************************************)
EXTENDS Integers, Sequences, FiniteSets

CONSTANTS
    Ips,          \* addresses that requests come from
    Threshold,    \* FAIL_THRESHOLD, 10 in the code
    Window,       \* FAIL_WINDOW_MS, 5 minutes
    BlockTime,    \* BLOCK_DURATION_MS, 15 minutes
    LogEvery,     \* LOG_THROTTLE_MS, 1 minute
    MaxInFlight,  \* bound: activations of one address awaiting the database
    MaxTime       \* bound: ticks

ASSUME TrackerAssumption ==
    /\ Threshold \in Nat /\ Threshold > 1
    /\ LogEvery \in Nat \ {0} /\ Window \in Nat \ {0} /\ BlockTime \in Nat
    /\ LogEvery <= Window /\ Window <= BlockTime
    /\ MaxInFlight \in Nat /\ MaxTime \in Nat

VARIABLES
    now,        \* Date.now()
    counters,   \* invalidCounters
    blocks,     \* blocks
    inFlight,   \* activations that were admitted and have not ended
    failed,     \* history: the times of the failures recorded
    carried,    \* history: activations in flight when the block began
    since,      \* history: failures recorded since the block began
    lines,      \* history: IP_BLOCKED rows written since the block began
    rowAt       \* history: the time of the last such row, of whichever block

vars == <<now, counters, blocks, inFlight, failed, carried, since, lines, rowAt>>
history == <<failed, carried, since, lines, rowAt>>

Time == 0 .. MaxTime

\* Maps: an address without an entry has the empty one.
NoCounter == [count |-> 0, windowEndAt |-> 0]
NoBlock == [until |-> 0, loggedAt |-> 0]
HasCounter(ip) == counters[ip].count > 0
HasBlock(ip) == blocks[ip].until > 0

\* A new block's loggedAt is the epoch, long before any request.
Epoch == -LogEvery

Counter == [count : 0 .. Threshold - 1, windowEndAt : 0 .. MaxTime + Window]
Block == [until : 0 .. MaxTime + BlockTime, loggedAt : Epoch .. MaxTime]

TypeOK ==
    /\ now \in Time
    /\ counters \in [Ips -> Counter]
    /\ blocks \in [Ips -> Block]
    /\ inFlight \in [Ips -> 0 .. MaxInFlight]
    /\ failed \in [Ips -> Seq(Time)]
    /\ carried \in [Ips -> 0 .. MaxInFlight]
    /\ since \in [Ips -> Nat]
    /\ lines \in [Ips -> Nat]
    /\ rowAt \in [Ips -> Time]

Init ==
    /\ now = 0
    /\ counters = [ip \in Ips |-> NoCounter]
    /\ blocks = [ip \in Ips |-> NoBlock]
    /\ inFlight = [ip \in Ips |-> 0]
    /\ failed = [ip \in Ips |-> << >>]
    /\ carried = [ip \in Ips |-> 0]
    /\ since = [ip \in Ips |-> 0]
    /\ lines = [ip \in Ips |-> 0]
    /\ rowAt = [ip \in Ips |-> 0]

-----------------------------------------------------------------------------
CounterOver(ip) == now >= counters[ip].windowEndAt
BlockOver(ip) == now >= blocks[ip].until
InForce(ip) == HasBlock(ip) /\ ~BlockOver(ip)

\* isBlocked in the handler of activate.  A block that is over is forgotten and
\* the request goes on to the database.  Mutant: only a first hit is blocked.
FirstHitOnly(ip) == InForce(ip) /\ lines[ip] = 0
IsBlocked(ip) == InForce(ip)

Admit(ip) ==
    /\ ~IsBlocked(ip) /\ inFlight[ip] < MaxInFlight
    /\ inFlight' = [inFlight EXCEPT ![ip] = @ + 1]
    /\ blocks' = [blocks EXCEPT ![ip] = IF BlockOver(ip) THEN NoBlock ELSE @]
    /\ UNCHANGED <<now, counters, history>>

\* markBlockedHit.  Mutant: loggedAt is left as it was.
HitUnmarked(ip) == blocks
HitMarked(ip) == [blocks EXCEPT ![ip].loggedAt = now]
MayLog(ip) == now - blocks[ip].loggedAt >= LogEvery

\* A rejected request leaves a row in the log unless another has just done so.
Reject(ip) ==
    /\ IsBlocked(ip) /\ MayLog(ip)
    /\ blocks' = HitMarked(ip)
    /\ lines' = [lines EXCEPT ![ip] = @ + 1]
    /\ rowAt' = [rowAt EXCEPT ![ip] = now]
    /\ UNCHANGED <<now, counters, inFlight, failed, carried, since>>

\* The activation ends with OK, or with an error other than INVALID_CODE.
End(ip) ==
    /\ inFlight[ip] > 0
    /\ inFlight' = [inFlight EXCEPT ![ip] = @ - 1]
    /\ UNCHANGED <<now, counters, blocks, history>>

\* Whether a failure opens a window of its own.  Mutant: the first failure's
\* window never ends.
OpensFirstOnly(ip) == ~HasCounter(ip)
OpensWindow(ip) == ~HasCounter(ip) \/ CounterOver(ip)

\* The failure that completes Threshold.  Mutant: the one after it.
PassesThreshold(ip) == counters[ip].count >= Threshold
ReachesThreshold(ip) == counters[ip].count + 1 >= Threshold

EndsInvalid(ip) ==
    /\ inFlight[ip] > 0
    /\ inFlight' = [inFlight EXCEPT ![ip] = @ - 1]
    /\ failed' = [failed EXCEPT ![ip] = Append(@, now)]
    /\ UNCHANGED now

\* recordInvalidCode: the failure opens a window, ...
FailInNewWindow(ip) ==
    /\ EndsInvalid(ip) /\ OpensWindow(ip)
    /\ counters' = [counters EXCEPT ![ip] = [count |-> 1, windowEndAt |-> now + Window]]
    /\ since' = [since EXCEPT ![ip] = @ + 1]
    /\ UNCHANGED <<blocks, carried, lines, rowAt>>

\* ... or is counted, ...
FailCounted(ip) ==
    /\ EndsInvalid(ip) /\ ~OpensWindow(ip) /\ ~ReachesThreshold(ip)
    /\ counters' = [counters EXCEPT ![ip].count = @ + 1]
    /\ since' = [since EXCEPT ![ip] = @ + 1]
    /\ UNCHANGED <<blocks, carried, lines, rowAt>>

\* ... or begins a block, or begins it anew, and clears the counter.  Mutant:
\* the counter stays.
CounterKept(ip) == [counters EXCEPT ![ip].count = @ + 1]
CounterCleared(ip) == [counters EXCEPT ![ip] = NoCounter]

FailBlocks(ip) ==
    /\ EndsInvalid(ip) /\ ~OpensWindow(ip) /\ ReachesThreshold(ip)
    /\ blocks' = [blocks EXCEPT ![ip] = [until |-> now + BlockTime, loggedAt |-> Epoch]]
    /\ counters' = CounterCleared(ip)
    /\ carried' = [carried EXCEPT ![ip] = inFlight[ip] - 1]
    /\ since' = [since EXCEPT ![ip] = 0]
    /\ lines' = [lines EXCEPT ![ip] = 0]
    /\ UNCHANGED rowAt

Fail(ip) == FailInNewWindow(ip) \/ FailCounted(ip) \/ FailBlocks(ip)

\* prune, every minute of real time.  Mutants: blocks are dropped with their
\* failures' windows; blocks are not dropped.
BlocksByWindow == [ip \in Ips |-> IF now >= blocks[ip].until - BlockTime + Window
                                  THEN NoBlock ELSE blocks[ip]]
BlocksKept == blocks
BlocksPruned == [ip \in Ips |-> IF BlockOver(ip) THEN NoBlock ELSE blocks[ip]]
CountersPruned == [ip \in Ips |-> IF CounterOver(ip) THEN NoCounter ELSE counters[ip]]

Prune ==
    /\ counters' = CountersPruned
    /\ blocks' = BlocksPruned
    /\ UNCHANGED <<now, inFlight, history>>

Tick ==
    /\ now < MaxTime
    /\ now' = now + 1
    /\ UNCHANGED <<counters, blocks, inFlight, history>>

Next ==
    \/ \E ip \in Ips : Admit(ip) \/ Reject(ip) \/ End(ip) \/ Fail(ip)
    \/ Prune
    \/ Tick

\* The timer of prune goes on for as long as the process lives.
Spec == Init /\ [][Next]_vars /\ WF_vars(Prune)

-----------------------------------------------------------------------------
(* Properties                                                              *)

Began(ip) == blocks[ip].until - BlockTime
FailuresIn(ip, span) == Cardinality({i \in 1 .. Len(failed[ip]) : failed[ip][i] \in span})

\* Nobody is blocked for less: before the begin of every block, and less than a
\* window before it, its address failed Threshold times.
BlockEarned ==
    \A ip \in Ips : HasBlock(ip) =>
      FailuresIn(ip, Began(ip) - Window + 1 .. Began(ip)) >= Threshold

\* What the windows give where the comment of the class speaks of a rolling one:
\* the last Window holds failures of two counting windows at most, and not the
\* one that opened the first, so an address that is not blocked can have had
\* nearly twice the threshold in it, and no more.
RollingBound ==
    \A ip \in Ips : ~InForce(ip) =>
      FailuresIn(ip, now - Window + 1 .. now) <= (Threshold - 2) + (Threshold - 1)

\* Codes that an address can still try when it is blocked: those it had under
\* way.  No failure is answered during a block to a request that came later.
GuessesBounded ==
    \A ip \in Ips : InForce(ip) => since[ip] + inFlight[ip] <= carried[ip]

\* Rejections fill no log: an IP_BLOCKED row of an address is LogEvery or more
\* after the one before it, but for the first row of a block.  That is less than
\* the comment of the class says: a late failure that begins the block anew also
\* forgets when the last row was written.
LinesSpaced ==
    [][\A ip \in Ips : lines'[ip] > lines[ip] /\ lines[ip] > 0
                       => now - rowAt[ip] >= LogEvery]_vars

\* A block is served to its end: no late failure, hit or pruning lifts or
\* shortens it.
BlockServed ==
    [][\A ip \in Ips : InForce(ip) => blocks'[ip].until >= blocks[ip].until]_vars

\* Memory stays bounded: an entry that is over does not stay for good.
Stale(ip) ==
    \/ HasCounter(ip) /\ CounterOver(ip)
    \/ HasBlock(ip) /\ BlockOver(ip)
StalePruned == \A ip \in Ips : Stale(ip) ~> ~Stale(ip)
=============================================================================
