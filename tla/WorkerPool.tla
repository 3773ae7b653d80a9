----------------------------- MODULE WorkerPool -----------------------------
(***************************************************************************)
(* How big the pool gets and how long poll waits: WorkerCostModel,         *)
(* spawnPendingOnRamp, timeUntilSpawnAllowed and shouldSpawnWorker         *)
(* (src/pure.cc), with the part of the event loop that measures time for   *)
(* them (src/coordinator.cc).                                              *)
(*                                                                         *)
(* The clock counts ticks, of which a millisecond has several, and ticks   *)
(* whenever it likes, except that poll returns when its time is up.  What  *)
(* a worker does is reduced to when it says something.                     *)
(***************************************************************************)
EXTENDS Integers, FiniteSets, FiniteSetsExt

CONSTANTS
    MaxWorkers,  \* the ceiling on the pool (maxWorkerCount)
    Attributes,  \* how many attributes there are to be found below the root
    Losses,      \* how many times a worker may be lost and replaced
    TicksPerMs,  \* ticks of the clock per millisecond
    MaxPollMs,   \* maxPollMs
    MeasuredBy,  \* when the last first derivation comes in
    Horizon      \* when the clock stops

ASSUME WorkerPoolAssumption ==
    /\ MaxWorkers \in Nat \ {0}
    /\ Attributes \in Nat /\ Losses \in Nat
    /\ TicksPerMs \in Nat \ {0} /\ MaxPollMs \in Nat \ {0}
    /\ MeasuredBy \in Nat
    /\ Horizon \in Nat

VARIABLES
    now,          \* steady_clock::now() - runStartedAt
    pc,           \* where the loop is
    timeout,      \* what poll was given, in milliseconds, while it waits
    deadline,     \* when that is up
    pool,         \* workers.size()
    queued,       \* todo.size()
    unfound,      \* attributes that no answer has named yet
    losses,       \* what is left of Losses
    evaluatedDerivations,
    state,        \* "starting", "idle", "busy", or "settling" after an answer
    forkedAt,     \* of each Worker; 0 once it has produced a derivation
    jobStartedAt, \* of each Worker; 0 while it has no job
    producedADerivation, \* of each Worker
    attrTotal, attrCount, startupCost,           \* WorkerCostModel
    paid          \* what each slot's first derivation was measured to cost

pool_ == <<pool, state, forkedAt, jobStartedAt, producedADerivation, paid>>
work == <<queued, unfound, losses, evaluatedDerivations>>
costs == <<attrTotal, attrCount, startupCost>>
vars == <<now, pc, timeout, deadline, pool_, work, costs>>

Slot == 1..MaxWorkers
Pool == 1..pool
Idle == {w \in Pool : state[w] = "idle"}
Busy == {w \in Pool : state[w] = "busy"}

Init ==
    /\ now = 0
    /\ pc = "top"
    /\ timeout = 0 /\ deadline = 0
    /\ pool = 0
    /\ queued = 1 /\ unfound = Attributes /\ losses = Losses
    /\ evaluatedDerivations = 0
    /\ state = [w \in Slot |-> "starting"]
    /\ forkedAt = [w \in Slot |-> 0]
    /\ jobStartedAt = [w \in Slot |-> 0]
    /\ producedADerivation = [w \in Slot |-> FALSE]
    /\ attrTotal = 0 /\ attrCount = 0 /\ startupCost = 0
    /\ paid = [w \in Slot |-> 0]

-----------------------------------------------------------------------------
(* The policy *)

\* PoolSizing, as poolSizing() reads it at this moment.
Sizing ==
    [queued |-> queued, poolSize |-> pool, idleWorkers |-> Cardinality(Idle),
     evaluatedDerivations |-> evaluatedDerivations, elapsed |-> now,
     rampInterval |-> startupCost]

BackedByQueue(s) == s.poolSize <= s.evaluatedDerivations + s.queued
WithinEvidenceBound(s) == s.poolSize <= s.evaluatedDerivations

SpawnPendingOnRamp(s) ==
    /\ s.poolSize > 0 /\ s.poolSize < MaxWorkers
    /\ s.queued > 0 /\ s.idleWorkers = 0
    /\ WithinEvidenceBound(s)

AfterOneCost(s) == s.rampInterval
Earliest(s) == s.rampInterval * s.poolSize

TimeUntilSpawnAllowed(s) ==
    IF Earliest(s) <= s.elapsed THEN 0 ELSE Earliest(s) - s.elapsed

ShouldSpawnWorker(s) ==
    /\ s.poolSize < MaxWorkers
    /\ s.poolSize > 0 => SpawnPendingOnRamp(s) /\ TimeUntilSpawnAllowed(s) = 0

\* pollTimeoutMs: rounded down to a millisecond, but not to none.
Truncated(remaining) == Min({remaining \div TicksPerMs, MaxPollMs})
RoundedWait(remaining) ==
    IF remaining > 0 /\ remaining < TicksPerMs
    THEN 1
    ELSE Min({remaining \div TicksPerMs, MaxPollMs})

WaitInFull(s) == MaxPollMs
WaitUnbounded(s) ==
    IF SpawnPendingOnRamp(s) THEN RoundedWait(TimeUntilSpawnAllowed(s)) ELSE -1
PollTimeoutMs(s) ==
    IF SpawnPendingOnRamp(s) THEN RoundedWait(TimeUntilSpawnAllowed(s)) ELSE MaxPollMs

MeanAttr == IF attrCount = 0 THEN 0 ELSE attrTotal \div attrCount

-----------------------------------------------------------------------------
(* One pass of the loop *)

\* forkWorker into slot w; the time it takes to start is its own.
Fork(w) ==
    /\ state' = [state EXCEPT ![w] = "starting"]
    /\ forkedAt' = [forkedAt EXCEPT ![w] = now]
    /\ jobStartedAt' = [jobStartedAt EXCEPT ![w] = 0]
    /\ producedADerivation' = [producedADerivation EXCEPT ![w] = FALSE]
    /\ paid' = [paid EXCEPT ![w] = 0]

GrowPool ==
    /\ pc = "top"
    /\ ShouldSpawnWorker(Sizing)
    /\ pool' = pool + 1
    /\ Fork(pool + 1)
    /\ pc' = "dispatch"
    /\ UNCHANGED <<now, timeout, deadline, work, costs>>

KeepPool ==
    /\ pc = "top"
    /\ ~ShouldSpawnWorker(Sizing)
    /\ pc' = "dispatch"
    /\ UNCHANGED <<now, timeout, deadline, pool_, work, costs>>

\* Each idle worker, in order, takes an attribute while there is one.
Served == {w \in Idle : Cardinality({v \in Idle : v <= w}) <= queued}

Dispatch ==
    /\ pc = "dispatch"
    /\ state' = [w \in Slot |-> IF w \in Served THEN "busy" ELSE state[w]]
    /\ jobStartedAt' = [w \in Slot |-> IF w \in Served THEN now ELSE jobStartedAt[w]]
    /\ queued' = queued - Cardinality(Served)
    /\ pc' = IF queued' = 0 /\ Busy = {} /\ Served = {} THEN "done" ELSE "wait"
    /\ UNCHANGED <<now, timeout, deadline, pool, forkedAt, producedADerivation,
                   paid, unfound, losses, evaluatedDerivations, costs>>

\* The clock is read anew for how long to wait.
StartPoll ==
    /\ pc = "wait"
    /\ timeout' = PollTimeoutMs(Sizing)
    /\ deadline' = now + timeout' * TicksPerMs
    /\ pc' = "poll"
    /\ UNCHANGED <<now, pool_, work, costs>>

PollReturns == timeout' = 0 /\ deadline' = 0

\* poll timed out: around to grow the pool.
BackToPoll == "wait"
AfterTimeout == "top"

TimeUp ==
    /\ pc = "poll"
    /\ now = deadline
    /\ pc' = AfterTimeout
    /\ PollReturns
    /\ UNCHANGED <<now, pool_, work, costs>>

-----------------------------------------------------------------------------
(* What a worker says, which ends the wait.  Several may be heard in one
   pass. *)

Speaks == pc \in {"poll", "service"} /\ pc' = "service" /\ PollReturns

Ready(w) ==
    /\ w \in Pool /\ state[w] \in {"starting", "settling"}
    /\ state' = [state EXCEPT ![w] = "idle"]
    /\ Speaks
    /\ UNCHANGED <<now, pool, forkedAt, jobStartedAt,
                   producedADerivation, paid, work, costs>>

Answers(w) ==
    /\ w \in Busy
    /\ state' = [state EXCEPT ![w] = "settling"]
    /\ jobStartedAt' = [jobStartedAt EXCEPT ![w] = 0]
    /\ Speaks
    /\ UNCHANGED <<now, pool, losses>>

\* recordFirstResult: a largest value, of which the mean of the others is no
\* part.
LargestCost(measured) == Max({startupCost, measured})

\* The first derivation of an incarnation pays for its start-up too.
FirstDerivation(w) ==
    /\ ~producedADerivation[w]
    /\ now <= MeasuredBy
    /\ Answers(w)
    /\ evaluatedDerivations' = evaluatedDerivations + 1
    /\ producedADerivation' = [producedADerivation EXCEPT ![w] = TRUE]
    /\ startupCost' = LargestCost(now - forkedAt[w] - MeanAttr)
    /\ paid' = [paid EXCEPT ![w] = Max({0, now - forkedAt[w] - MeanAttr})]
    /\ forkedAt' = [forkedAt EXCEPT ![w] = 0]
    /\ UNCHANGED <<attrTotal, attrCount, queued, unfound>>

\* recordAttr.
LaterDerivation(w) ==
    /\ producedADerivation[w]
    /\ Answers(w)
    /\ evaluatedDerivations' = evaluatedDerivations + 1
    /\ attrTotal' = attrTotal + (now - jobStartedAt[w])
    /\ attrCount' = attrCount + 1
    /\ UNCHANGED <<startupCost, forkedAt, producedADerivation, paid, queued,
                   unfound>>

\* An attribute set, with any number of attributes, or nothing.
NotADerivation(w) ==
    /\ Answers(w)
    /\ \E n \in 0..unfound : queued' = queued + n /\ unfound' = unfound - n
    /\ UNCHANGED <<evaluatedDerivations, forkedAt, producedADerivation, paid,
                   costs>>

\* Everybody poll reported has been heard.
EndPass ==
    /\ pc = "service"
    /\ pc' = "top"
    /\ UNCHANGED <<now, timeout, deadline, pool_, work, costs>>

\* A worker is lost, and its attribute retried or given up; or it is restarted
\* for its memory.
Replaced(w) ==
    /\ w \in Pool /\ losses > 0
    /\ losses' = losses - 1
    /\ queued' \in IF w \in Busy THEN {queued, queued + 1} ELSE {queued}
    /\ Fork(w)
    /\ Speaks
    /\ UNCHANGED <<now, pool, unfound, evaluatedDerivations, costs>>

-----------------------------------------------------------------------------

Tick ==
    /\ pc # "done"
    /\ now < Horizon
    /\ pc = "poll" => now < deadline
    /\ now' = now + 1
    /\ UNCHANGED <<pc, timeout, deadline, pool, state, forkedAt, jobStartedAt,
                   producedADerivation, paid, work, costs>>

\* The run is over, or the clock has stopped and nobody says anything more.
Stopped == (pc = "done" \/ now = Horizon) /\ UNCHANGED vars

WorkerSpeaks(w) ==
    \/ Ready(w) \/ FirstDerivation(w) \/ LaterDerivation(w)
    \/ NotADerivation(w) \/ Replaced(w)

LoopStep == GrowPool \/ KeepPool \/ Dispatch \/ StartPoll \/ TimeUp \/ EndPass

Next == LoopStep \/ Tick \/ Stopped \/ \E w \in Slot : WorkerSpeaks(w)

Spec == Init /\ [][Next]_vars

\* Time passes and the loop runs.  Workers need not ever say anything.
FairSpec == Spec /\ WF_vars(Tick) /\ WF_vars(LoopStep)

-----------------------------------------------------------------------------
(* Properties *)

\* Type correctness.  poll is never given more than its bound, which is what
\* makes the loop notice a signal ("This bound is what makes the tool answer a
\* SIGTERM", coordinator.cc:493).
TypeOK ==
    /\ now \in 0..Horizon /\ deadline \in Nat
    /\ pc \in {"top", "dispatch", "wait", "poll", "service", "done"}
    /\ timeout \in 0..MaxPollMs
    /\ pool \in 0..MaxWorkers
    /\ queued \in Nat /\ unfound \in 0..Attributes /\ losses \in 0..Losses
    /\ evaluatedDerivations \in Nat
    /\ state \in [Slot -> {"starting", "idle", "busy", "settling"}]
    /\ forkedAt \in [Slot -> 0..now] /\ jobStartedAt \in [Slot -> 0..now]
    /\ producedADerivation \in [Slot -> BOOLEAN]
    /\ attrTotal \in Nat /\ attrCount \in Nat /\ startupCost \in Nat
    /\ paid \in [Slot -> Nat]

\* The loop does not spin: it gives poll no time at all only if the next pass
\* will grow the pool, although the clock was read twice in between
\* ("truncating it to zero would spin on poll() until the clock caught up").
NoSpin == pc = "poll" /\ timeout = 0 => ShouldSpawnWorker(Sizing)

\* Nor does it sleep past the moment at which the pool may grow, by more than
\* the millisecond that poll is measured in.
NoOversleep ==
    pc = "poll" /\ SpawnPendingOnRamp(Sizing) =>
        deadline < Max({now, Earliest(Sizing)}) + TicksPerMs

\* poll is given the right wait (pollTimeoutMs): bounded, not nothing while there
\* is something to do, and not past the moment at which the pool may grow.
WaitIsRight == TypeOK /\ NoSpin /\ NoOversleep

\* "the pool is held to the attributes the run has already seen through": a
\* worker beyond the first is backed by a derivation, whatever is queued.
PoolIsBacked == pool <= evaluatedDerivations + 1

\* "spends at most about half the run's time on worker startup": whenever the
\* pool grows, the run has lasted as long as all its workers were measured to
\* have cost to start.
GrowthIsEarned ==
    [][pool' > pool => MapThenSumSet(LAMBDA w : paid[w], Pool) <= now]_vars

\* A pool is never held back by the passage of time alone for good: it grows
\* even if no worker says another word ("meaning it will grow once the run has
\* lasted long enough", pure.hh:88).
GrowsInTime == []<>~SpawnPendingOnRamp(Sizing)
=============================================================================
