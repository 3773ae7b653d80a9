-------------------------- MODULE WorkerPoolProofs --------------------------
(***************************************************************************)
(* What is proved of WorkerPool, for every number of workers, attributes   *)
(* and losses, and for every resolution of the clock.                      *)
(***************************************************************************)
EXTENDS WorkerPool, InductionFacts

\* What a first derivation was measured to cost has been counted: start-up is
\* reckoned to cost as much as the dearest start there was.
StartsAreCounted == \A w \in Slot : paid[w] <= startupCost

IInv == WaitIsRight /\ PoolIsBacked /\ StartsAreCounted

-----------------------------------------------------------------------------
(* The policy *)

\* What the policy sees is made of numbers.
LEMMA SizingIsNumbers ==
    ASSUME TypeOK
    PROVE  /\ Sizing.queued = queued /\ Sizing.poolSize = pool
           /\ Sizing.evaluatedDerivations = evaluatedDerivations
           /\ Sizing.elapsed = now /\ Sizing.rampInterval = startupCost
           /\ Earliest(Sizing) = startupCost * pool
           /\ Earliest(Sizing) \in Nat
           /\ now \in Nat /\ pool \in Nat
<1>1. now \in Nat /\ pool \in Nat /\ startupCost \in Nat
    BY WorkerPoolAssumption DEF TypeOK
<1>2. startupCost * pool \in Nat
    BY <1>1
<1> QED BY <1>1, <1>2 DEF Sizing, Earliest

\* A whole number of milliseconds is no more ticks than it was cut down from.
LEMMA Milliseconds ==
    ASSUME NEW r \in Nat
    PROVE  /\ r \div TicksPerMs \in Nat
           /\ (r \div TicksPerMs) * TicksPerMs <= r
           /\ r >= TicksPerMs => r \div TicksPerMs >= 1
BY WorkerPoolAssumption

\* What poll is given on the ramp: nothing only if nothing is left to wait for,
\* and less than a millisecond too much.
LEMMA RoundedWaitIsRight ==
    ASSUME NEW r \in Nat
    PROVE  /\ RoundedWait(r) \in 0..MaxPollMs
           /\ RoundedWait(r) = 0 => r = 0
           /\ RoundedWait(r) * TicksPerMs < r + TicksPerMs
<1>a. TicksPerMs \in Nat \ {0} /\ MaxPollMs \in Nat \ {0}
    BY WorkerPoolAssumption
<1>1. CASE r > 0 /\ r < TicksPerMs
    <2>1. RoundedWait(r) = 1
        BY <1>1 DEF RoundedWait
    <2> QED BY <1>a, <1>1, <2>1
<1>2. CASE ~(r > 0 /\ r < TicksPerMs)
    <2> DEFINE d == r \div TicksPerMs
               m == Min({d, MaxPollMs})
    <2>1. RoundedWait(r) = m
        BY <1>2 DEF RoundedWait
    <2>2. d \in Nat /\ d * TicksPerMs <= r /\ (r >= TicksPerMs => d >= 1)
        BY Milliseconds
    <2> HIDE DEF d
    <2>3. m \in {d, MaxPollMs} /\ m <= d /\ m <= MaxPollMs
        BY <1>a, <2>2, MinOfTwo
    <2> HIDE DEF m
    <2>4. m \in 0..MaxPollMs
        BY <1>a, <2>2, <2>3
    <2>5. m = 0 => r = 0
        BY <1>a, <1>2, <2>2, <2>3
    <2>6. m * TicksPerMs <= d * TicksPerMs
        <3>1. \A a, b, c \in Nat : a <= b => a * c <= b * c
            OBVIOUS
        <3> QED BY <1>a, <2>2, <2>3, <2>4, <3>1
    <2>7. m * TicksPerMs < r + TicksPerMs
        <3>1. m * TicksPerMs \in Nat /\ d * TicksPerMs \in Nat
            BY <1>a, <2>2, <2>4
        <3> QED BY <1>a, <2>2, <2>6, <3>1
    <2> QED BY <2>1, <2>4, <2>5, <2>7
<1> QED BY <1>1, <1>2

\* There are no more workers served than attributes to serve them.
LEMMA ServedFit ==
    ASSUME TypeOK
    PROVE  Cardinality(Served) \in Nat /\ Cardinality(Served) <= queued
<1>1. /\ pool \in Nat /\ queued \in Nat
      /\ IsFiniteSet(Pool) /\ Idle \in SUBSET Pool /\ Served \in SUBSET Idle
      /\ Served \in SUBSET Nat /\ \A w \in Served : w <= pool
    <2>1. pool \in Nat /\ queued \in Nat
        BY WorkerPoolAssumption DEF TypeOK
    <2>2. IsFiniteSet(1..pool)
        BY <2>1, FS_Interval
    <2> QED BY <2>1, <2>2 DEF Pool, Idle, Served
<1>2. IsFiniteSet(Served)
    BY <1>1, FS_Subset
<1>3. CASE Served = {}
    BY <1>1, <1>3, FS_EmptySet
<1>4. CASE Served # {}
    <2>1. PICK last \in Served : \A w \in Served : w <= last
        BY <1>1, <1>4, GreatestNumber
    <2> DEFINE upTo == {v \in Idle : v <= last}
    <2>2. Served \subseteq upTo /\ upTo \subseteq Pool
        BY <1>1, <2>1
    <2>3. IsFiniteSet(upTo)
        BY <1>1, <2>2, FS_Subset
    <2>4. Cardinality(Served) <= Cardinality(upTo)
        BY <2>2, <2>3, FS_Subset
    <2>5. Cardinality(upTo) <= queued
        BY <2>1 DEF Served
    <2>6. Cardinality(upTo) \in Nat /\ Cardinality(Served) \in Nat
        BY <1>2, <2>3, FS_CardinalityType
    <2> HIDE DEF upTo
    <2> QED BY <1>1, <2>4, <2>5, <2>6
<1> QED BY <1>3, <1>4

\* A largest cost is a cost, and no less than what it was the largest of.
LEMMA CostsAreNumbers ==
    ASSUME TypeOK, NEW w \in Slot
    PROVE  LET measured == now - forkedAt[w] - MeanAttr
           IN  /\ LargestCost(measured) \in Nat /\ LargestCost(measured) >= startupCost
               /\ Max({0, measured}) \in Nat
               /\ Max({0, measured}) <= LargestCost(measured)
<1> DEFINE measured == now - forkedAt[w] - MeanAttr
<1>1. now \in Nat /\ forkedAt[w] \in Nat /\ startupCost \in Nat
    BY WorkerPoolAssumption DEF TypeOK
<1>2. MeanAttr \in Nat
    <2>1. attrTotal \in Nat /\ attrCount \in Nat
        BY DEF TypeOK
    <2> QED BY <2>1 DEF MeanAttr
<1>3. measured \in Int
    BY <1>1, <1>2
<1> HIDE DEF measured
<1>4. /\ Max({0, measured}) \in {0, measured}
      /\ Max({0, measured}) >= 0 /\ Max({0, measured}) >= measured
    BY <1>3, MaxOfTwo
<1>5. /\ Max({startupCost, measured}) \in {startupCost, measured}
      /\ Max({startupCost, measured}) >= startupCost
      /\ Max({startupCost, measured}) >= measured
    BY <1>1, <1>3, MaxOfTwo
<1>6. /\ LargestCost(measured) \in Nat /\ LargestCost(measured) >= startupCost
      /\ Max({0, measured}) \in Nat
      /\ Max({0, measured}) <= LargestCost(measured)
    BY <1>1, <1>3, <1>4, <1>5 DEF LargestCost
<1> QED BY <1>6 DEF measured

-----------------------------------------------------------------------------
(* One step *)

LEMMA InitIsRight == Init => IInv
<1> SUFFICES ASSUME Init PROVE IInv
    OBVIOUS
<1>1. TypeOK
    BY WorkerPoolAssumption DEF Init, TypeOK
<1>2. NoSpin /\ NoOversleep
    BY DEF Init, NoSpin, NoOversleep
<1>3. PoolIsBacked /\ StartsAreCounted
    BY DEF Init, PoolIsBacked, StartsAreCounted
<1> QED BY <1>1, <1>2, <1>3 DEF IInv, WaitIsRight

\* A worker that is forked has been forked by now.
LEMMA ForkIsTyped ==
    ASSUME TypeOK, StartsAreCounted, NEW w \in Slot, Fork(w)
    PROVE  /\ state' \in [Slot -> {"starting", "idle", "busy", "settling"}]
           /\ forkedAt' \in [Slot -> 0..now] /\ jobStartedAt' \in [Slot -> 0..now]
           /\ producedADerivation' \in [Slot -> BOOLEAN]
           /\ paid' \in [Slot -> Nat]
           /\ \A v \in Slot : paid'[v] <= startupCost
<1>1. now \in Nat /\ 0 \in 0..now /\ now \in 0..now /\ startupCost \in Nat
    BY WorkerPoolAssumption DEF TypeOK
<1>2. /\ state' \in [Slot -> {"starting", "idle", "busy", "settling"}]
      /\ producedADerivation' \in [Slot -> BOOLEAN]
    BY DEF TypeOK, Fork
<1>3. forkedAt' \in [Slot -> 0..now] /\ jobStartedAt' \in [Slot -> 0..now]
    BY <1>1 DEF TypeOK, Fork
<1>4. paid' \in [Slot -> Nat]
    BY DEF TypeOK, Fork
<1>5. \A v \in Slot : paid'[v] <= startupCost
    BY <1>1 DEF TypeOK, Fork, StartsAreCounted
<1> QED BY <1>2, <1>3, <1>4, <1>5

\* An answer leaves the worker without a job.
LEMMA AnswerIsTyped ==
    ASSUME TypeOK, NEW w \in Slot, Answers(w)
    PROVE  /\ state' \in [Slot -> {"starting", "idle", "busy", "settling"}]
           /\ jobStartedAt' \in [Slot -> 0..now]
           /\ now' = now /\ pool' = pool /\ losses' = losses
           /\ pc' = "service" /\ timeout' = 0 /\ deadline' = 0
           /\ w \in Pool
<1>1. 0 \in 0..now
    BY WorkerPoolAssumption DEF TypeOK
<1>2. jobStartedAt' \in [Slot -> 0..now]
    BY <1>1 DEF TypeOK, Answers
<1>3. state' \in [Slot -> {"starting", "idle", "busy", "settling"}]
    BY DEF TypeOK, Answers
<1> QED BY <1>2, <1>3 DEF Answers, Speaks, PollReturns, Busy

LEMMA TypeStep == TypeOK /\ StartsAreCounted /\ [Next]_vars => TypeOK' /\ StartsAreCounted'
<1> SUFFICES ASSUME TypeOK, StartsAreCounted, [Next]_vars
             PROVE  TypeOK' /\ StartsAreCounted'
    OBVIOUS
<1> USE WorkerPoolAssumption
<1>1. CASE UNCHANGED vars
    BY <1>1 DEF TypeOK, StartsAreCounted, vars, pool_, work, costs
<1>2. CASE GrowPool
    <2>1. pool + 1 \in Slot /\ pool + 1 \in 0..MaxWorkers
        BY <1>2 DEF GrowPool, ShouldSpawnWorker, Sizing, TypeOK, Slot
    <2>2. Fork(pool + 1)
        BY <1>2 DEF GrowPool
    <2>3. /\ state' \in [Slot -> {"starting", "idle", "busy", "settling"}]
          /\ forkedAt' \in [Slot -> 0..now] /\ jobStartedAt' \in [Slot -> 0..now]
          /\ producedADerivation' \in [Slot -> BOOLEAN]
          /\ paid' \in [Slot -> Nat]
          /\ \A v \in Slot : paid'[v] <= startupCost
        BY <2>1, <2>2, ForkIsTyped
    <2> QED BY <1>2, <2>1, <2>3 DEF GrowPool, TypeOK, StartsAreCounted, work, costs
<1>3. CASE KeepPool
    BY <1>3 DEF KeepPool, TypeOK, StartsAreCounted, pool_, work, costs
<1>4. CASE Dispatch
    <2>1. queued' \in Nat
        <3>1. Cardinality(Served) \in Nat /\ Cardinality(Served) <= queued
            BY ServedFit
        <3> QED BY <1>4, <3>1 DEF Dispatch, TypeOK
    <2>2. now \in 0..now
        BY DEF TypeOK
    <2>3. /\ state' \in [Slot -> {"starting", "idle", "busy", "settling"}]
          /\ jobStartedAt' \in [Slot -> 0..now]
        BY <1>4, <2>2 DEF Dispatch, TypeOK
    <2>4. pc' \in {"wait", "done"}
        BY <1>4 DEF Dispatch
    <2> QED BY <1>4, <2>1, <2>3, <2>4 DEF Dispatch, TypeOK, StartsAreCounted, costs
<1>5. CASE StartPoll
    <2>1. timeout' \in 0..MaxPollMs
        <3>1. TimeUntilSpawnAllowed(Sizing) \in Nat
            BY SizingIsNumbers DEF TimeUntilSpawnAllowed
        <3>2. RoundedWait(TimeUntilSpawnAllowed(Sizing)) \in 0..MaxPollMs
            BY <3>1, RoundedWaitIsRight
        <3> QED BY <1>5, <3>2 DEF StartPoll, PollTimeoutMs
    <2>2. deadline' \in Nat
        <3>1. now \in Nat /\ TicksPerMs \in Nat /\ timeout' \in Nat
            BY <2>1 DEF TypeOK
        <3>2. \A a, b, c \in Nat : a + b * c \in Nat
            OBVIOUS
        <3> QED BY <1>5, <3>1, <3>2 DEF StartPoll
    <2> QED BY <1>5, <2>1, <2>2 DEF StartPoll, TypeOK, StartsAreCounted, pool_, work, costs
<1>6. CASE TimeUp
    BY <1>6 DEF TimeUp, PollReturns, AfterTimeout, TypeOK, StartsAreCounted, pool_, work, costs
<1>7. CASE EndPass
    BY <1>7 DEF EndPass, TypeOK, StartsAreCounted, pool_, work, costs
<1>8. CASE Tick
    <2>1. now' \in 0..Horizon /\ \A n \in 0..now : n \in 0..now'
        BY <1>8 DEF Tick, TypeOK
    <2>2. forkedAt' \in [Slot -> 0..now'] /\ jobStartedAt' \in [Slot -> 0..now']
        BY <1>8, <2>1 DEF Tick, TypeOK
    <2> QED BY <1>8, <2>1, <2>2 DEF Tick, TypeOK, StartsAreCounted, work, costs
<1>9. CASE Stopped
    BY <1>9 DEF Stopped, TypeOK, StartsAreCounted, vars, pool_, work, costs
<1>10. ASSUME NEW w \in Slot, Ready(w) PROVE TypeOK' /\ StartsAreCounted'
    BY <1>10 DEF Ready, Speaks, PollReturns, TypeOK, StartsAreCounted, work, costs
<1>11. ASSUME NEW w \in Slot, FirstDerivation(w) PROVE TypeOK' /\ StartsAreCounted'
    <2> DEFINE measured == now - forkedAt[w] - MeanAttr
    <2>1. /\ state' \in [Slot -> {"starting", "idle", "busy", "settling"}]
          /\ jobStartedAt' \in [Slot -> 0..now]
          /\ now' = now /\ pool' = pool /\ losses' = losses
          /\ pc' = "service" /\ timeout' = 0 /\ deadline' = 0
        BY <1>11, AnswerIsTyped DEF FirstDerivation
    <2>2. /\ LargestCost(measured) \in Nat /\ LargestCost(measured) >= startupCost
          /\ Max({0, measured}) \in Nat
          /\ Max({0, measured}) <= LargestCost(measured)
        BY CostsAreNumbers
    <2>3. startupCost' = LargestCost(measured)
          /\ paid' = [paid EXCEPT ![w] = Max({0, measured})]
        BY <1>11 DEF FirstDerivation
    <2> HIDE DEF measured
    <2>4. paid' \in [Slot -> Nat] /\ startupCost' \in Nat
        BY <2>2, <2>3 DEF TypeOK
    <2>5. StartsAreCounted'
        BY <2>2, <2>3 DEF TypeOK, StartsAreCounted
    <2>6. /\ forkedAt' \in [Slot -> 0..now]
          /\ producedADerivation' \in [Slot -> BOOLEAN]
          /\ evaluatedDerivations' \in Nat
        BY <1>11 DEF FirstDerivation, TypeOK
    <2>7. TypeOK'
        BY <1>11, <2>1, <2>4, <2>6 DEF FirstDerivation, TypeOK
    <2> QED BY <2>5, <2>7
<1>12. ASSUME NEW w \in Slot, LaterDerivation(w) PROVE TypeOK' /\ StartsAreCounted'
    <2>1. /\ state' \in [Slot -> {"starting", "idle", "busy", "settling"}]
          /\ jobStartedAt' \in [Slot -> 0..now]
          /\ now' = now /\ pool' = pool /\ losses' = losses
          /\ pc' = "service" /\ timeout' = 0 /\ deadline' = 0
        BY <1>12, AnswerIsTyped DEF LaterDerivation
    <2>2. attrTotal' \in Nat /\ attrCount' \in Nat /\ evaluatedDerivations' \in Nat
        <3>1. now \in Nat /\ jobStartedAt[w] \in 0..now /\ attrTotal \in Nat
            BY DEF TypeOK
        <3> QED BY <1>12, <3>1 DEF LaterDerivation, TypeOK
    <2> QED BY <1>12, <2>1, <2>2 DEF LaterDerivation, TypeOK, StartsAreCounted
<1>13. ASSUME NEW w \in Slot, NotADerivation(w) PROVE TypeOK' /\ StartsAreCounted'
    <2>1. /\ state' \in [Slot -> {"starting", "idle", "busy", "settling"}]
          /\ jobStartedAt' \in [Slot -> 0..now]
          /\ now' = now /\ pool' = pool /\ losses' = losses
          /\ pc' = "service" /\ timeout' = 0 /\ deadline' = 0
        BY <1>13, AnswerIsTyped DEF NotADerivation
    <2>2. queued' \in Nat /\ unfound' \in 0..Attributes
        BY <1>13 DEF NotADerivation, TypeOK
    <2> QED BY <1>13, <2>1, <2>2 DEF NotADerivation, TypeOK, StartsAreCounted, costs
<1>14. ASSUME NEW w \in Slot, Replaced(w) PROVE TypeOK' /\ StartsAreCounted'
    <2>1. Fork(w)
        BY <1>14 DEF Replaced
    <2>2. /\ state' \in [Slot -> {"starting", "idle", "busy", "settling"}]
          /\ forkedAt' \in [Slot -> 0..now] /\ jobStartedAt' \in [Slot -> 0..now]
          /\ producedADerivation' \in [Slot -> BOOLEAN]
          /\ paid' \in [Slot -> Nat]
          /\ \A v \in Slot : paid'[v] <= startupCost
        BY <2>1, ForkIsTyped
    <2>3. queued' \in Nat /\ losses' \in 0..Losses
        BY <1>14 DEF Replaced, TypeOK
    <2> QED BY <1>14, <2>2, <2>3
            DEF Replaced, Speaks, PollReturns, TypeOK, StartsAreCounted, costs
<1> QED BY <1>1, <1>2, <1>3, <1>4, <1>5, <1>6, <1>7, <1>8, <1>9, <1>10, <1>11,
           <1>12, <1>13, <1>14 DEF Next, LoopStep, WorkerSpeaks

\* The pool grows only behind a derivation, and none is ever taken back.
LEMMA BackedStep == TypeOK /\ PoolIsBacked /\ [Next]_vars => PoolIsBacked'
<1> SUFFICES ASSUME TypeOK, PoolIsBacked, [Next]_vars PROVE PoolIsBacked'
    OBVIOUS
<1>1. CASE GrowPool
    <2>1. pool \in Nat /\ evaluatedDerivations \in Nat
        BY SizingIsNumbers DEF TypeOK
    <2>2. pool > 0 => pool <= evaluatedDerivations
        BY <1>1 DEF GrowPool, ShouldSpawnWorker, SpawnPendingOnRamp, WithinEvidenceBound, Sizing
    <2> QED BY <1>1, <2>1, <2>2 DEF GrowPool, PoolIsBacked, work
<1>2. ASSUME pool' = pool,
             evaluatedDerivations' \in {evaluatedDerivations, evaluatedDerivations + 1}
      PROVE  PoolIsBacked'
    <2>1. pool \in Nat /\ evaluatedDerivations \in Nat
        BY SizingIsNumbers DEF TypeOK
    <2>2. pool <= evaluatedDerivations + 1
        BY DEF PoolIsBacked
    <2>3. pool' <= evaluatedDerivations' + 1
        <3>1. \A p, e, x \in Nat : p <= e + 1 /\ (x = e \/ x = e + 1) => p <= x + 1
            OBVIOUS
        <3>2. /\ evaluatedDerivations' \in Nat
              /\ \/ evaluatedDerivations' = evaluatedDerivations
                 \/ evaluatedDerivations' = evaluatedDerivations + 1
            BY <1>2, <2>1
        <3> QED BY <1>2, <2>1, <2>2, <3>1, <3>2
    <2> QED BY <2>3 DEF PoolIsBacked
<1>3. CASE UNCHANGED vars \/ KeepPool \/ Dispatch \/ StartPoll \/ TimeUp \/ EndPass
           \/ Tick \/ Stopped
    BY <1>2, <1>3 DEF vars, pool_, work, KeepPool, Dispatch, StartPoll, TimeUp, EndPass,
                      Tick, Stopped
<1>4. ASSUME NEW w \in Slot, WorkerSpeaks(w) PROVE PoolIsBacked'
    BY <1>2, <1>4 DEF WorkerSpeaks, Ready, FirstDerivation, LaterDerivation,
                      NotADerivation, Replaced, Answers, work
<1> QED BY <1>1, <1>3, <1>4 DEF Next, LoopStep

\* What poll is given is right when it is given, and stays right while poll waits.
LEMMA WaitStep ==
    TypeOK /\ NoSpin /\ NoOversleep /\ [Next]_vars => NoSpin' /\ NoOversleep'
<1> SUFFICES ASSUME TypeOK, NoSpin, NoOversleep, [Next]_vars
             PROVE  NoSpin' /\ NoOversleep'
    OBVIOUS
<1>a. TicksPerMs \in Nat \ {0} /\ MaxPollMs \in Nat \ {0}
    BY WorkerPoolAssumption
<1>b. /\ Earliest(Sizing) \in Nat /\ now \in Nat /\ Sizing.elapsed = now
      /\ deadline \in Nat
    BY SizingIsNumbers DEF TypeOK
<1>c. UNCHANGED <<pool, queued, state, evaluatedDerivations, startupCost>> =>
          /\ SpawnPendingOnRamp(Sizing)' <=> SpawnPendingOnRamp(Sizing)
          /\ Earliest(Sizing)' = Earliest(Sizing)
          /\ Sizing'.elapsed = now'
          /\ Sizing'.poolSize = pool
    BY DEF SpawnPendingOnRamp, WithinEvidenceBound, Earliest, Sizing, Idle, Pool
<1>d. Max({now, Earliest(Sizing)}) >= now /\ Max({now, Earliest(Sizing)}) >= Earliest(Sizing)
      /\ Max({now, Earliest(Sizing)}) \in {now, Earliest(Sizing)}
    BY <1>b, MaxOfTwo
<1>1. CASE StartPoll
    <2> DEFINE r == TimeUntilSpawnAllowed(Sizing)
    <2>1. UNCHANGED <<now, pool, queued, state, evaluatedDerivations, startupCost>>
        BY <1>1 DEF StartPoll, pool_, work, costs
    <2>2. CASE ~SpawnPendingOnRamp(Sizing)
        <3>1. timeout' # 0
            BY <1>a, <1>1, <2>2 DEF StartPoll, PollTimeoutMs
        <3> QED BY <1>c, <2>1, <2>2, <3>1 DEF NoSpin, NoOversleep
    <2>3. CASE SpawnPendingOnRamp(Sizing)
        <3>1. r \in Nat /\ (r = 0 => Earliest(Sizing) <= now)
              /\ (r # 0 => now + r = Earliest(Sizing))
            BY <1>b DEF TimeUntilSpawnAllowed
        <3>2. timeout' = RoundedWait(r)
            BY <1>1, <2>3 DEF StartPoll, PollTimeoutMs
        <3> HIDE DEF r
        <3>3. /\ timeout' \in 0..MaxPollMs
              /\ timeout' = 0 => r = 0
              /\ timeout' * TicksPerMs < r + TicksPerMs
            BY <3>1, <3>2, RoundedWaitIsRight
        <3>4. NoSpin'
            <4>1. timeout' = 0 => TimeUntilSpawnAllowed(Sizing') = 0
                <5>1. timeout' = 0 => Earliest(Sizing') <= Sizing'.elapsed
                    BY <1>c, <2>1, <3>1, <3>3
                <5> QED BY <5>1 DEF TimeUntilSpawnAllowed
            <4>2. SpawnPendingOnRamp(Sizing')
                BY <1>c, <2>1, <2>3
            <4> QED BY <4>1, <4>2 DEF NoSpin, ShouldSpawnWorker, SpawnPendingOnRamp
        <3>5. NoOversleep'
            <4>1. deadline' = now + timeout' * TicksPerMs
                BY <1>1 DEF StartPoll
            <4>2. timeout' * TicksPerMs \in Nat
                <5>1. \A a, b \in Nat : a * b \in Nat
                    OBVIOUS
                <5>2. timeout' \in Nat /\ TicksPerMs \in Nat
                    BY <1>a, <3>3
                <5> QED BY <5>1, <5>2
            <4>3. deadline' < Max({now, Earliest(Sizing)}) + TicksPerMs
                <5>1. \A n, e, k, m, t, d \in Nat :
                         /\ (d = 0 => e <= n) /\ (d # 0 => n + d = e)
                         /\ k < d + t /\ m >= n /\ m >= e
                         => n + k < m + t
                    OBVIOUS
                <5>2. Max({now, Earliest(Sizing)}) \in Nat /\ TicksPerMs \in Nat
                    BY <1>a, <1>b, <1>d
                <5> QED BY <1>b, <1>d, <3>1, <3>3, <4>1, <4>2, <5>1, <5>2
            <4>4. Max({now', Earliest(Sizing')}) = Max({now, Earliest(Sizing)})
                BY <1>c, <2>1
            <4> QED BY <4>3, <4>4 DEF NoOversleep
        <3> QED BY <3>4, <3>5
    <2> QED BY <2>2, <2>3
<1>2. CASE Tick
    <2>1. UNCHANGED <<pc, timeout, deadline, pool, queued, state, evaluatedDerivations,
                      startupCost>> /\ now' = now + 1
        BY <1>2 DEF Tick, work, costs
    <2>2. NoSpin'
        <3>1. ShouldSpawnWorker(Sizing) => ShouldSpawnWorker(Sizing')
            <4>1. TimeUntilSpawnAllowed(Sizing) = 0 => TimeUntilSpawnAllowed(Sizing') = 0
                BY <1>b, <1>c, <2>1 DEF TimeUntilSpawnAllowed
            <4>2. Sizing.poolSize = pool
                BY DEF Sizing
            <4> QED BY <1>c, <2>1, <4>1, <4>2 DEF ShouldSpawnWorker
        <3> QED BY <2>1, <3>1 DEF NoSpin
    <2>3. NoOversleep'
        <3>1. Max({now + 1, Earliest(Sizing)}) >= now + 1
              /\ Max({now + 1, Earliest(Sizing)}) >= Earliest(Sizing)
              /\ Max({now + 1, Earliest(Sizing)}) \in {now + 1, Earliest(Sizing)}
            <4>1. now + 1 \in Int /\ Earliest(Sizing) \in Int
                BY <1>b
            <4> QED BY <4>1, MaxOfTwo
        <3>2. deadline < Max({now, Earliest(Sizing)}) + TicksPerMs
              => deadline < Max({now + 1, Earliest(Sizing)}) + TicksPerMs
            BY <1>a, <1>b, <1>d, <3>1
        <3>3. Max({now', Earliest(Sizing')}) = Max({now + 1, Earliest(Sizing)})
            BY <1>c, <2>1
        <3> QED BY <1>c, <2>1, <3>2, <3>3 DEF NoOversleep
    <2> QED BY <2>2, <2>3
<1>3. CASE UNCHANGED vars \/ Stopped
    <2>1. UNCHANGED <<pc, timeout, deadline, pool, queued, state, evaluatedDerivations,
                      startupCost, now>>
        BY <1>3 DEF vars, Stopped, pool_, work, costs
    <2>2. Sizing' = Sizing
        BY <2>1 DEF Sizing, Idle, Pool
    <2> QED BY <2>1, <2>2 DEF NoSpin, NoOversleep
<1>4. ASSUME pc' # "poll" PROVE NoSpin' /\ NoOversleep'
    BY <1>4 DEF NoSpin, NoOversleep
<1>5. GrowPool \/ KeepPool \/ Dispatch \/ TimeUp \/ EndPass => pc' # "poll"
    BY DEF GrowPool, KeepPool, Dispatch, TimeUp, AfterTimeout, EndPass
<1>6. ASSUME NEW w \in Slot, WorkerSpeaks(w) PROVE pc' # "poll"
    BY <1>6 DEF WorkerSpeaks, Ready, FirstDerivation, LaterDerivation, NotADerivation,
                Replaced, Answers, Speaks
<1> QED BY <1>1, <1>2, <1>3, <1>4, <1>5, <1>6 DEF Next, LoopStep

LEMMA IInvStep == IInv /\ [Next]_vars => IInv'
BY TypeStep, BackedStep, WaitStep DEF IInv, WaitIsRight

-----------------------------------------------------------------------------
(* What is shown of the pool *)

LEMMA AlwaysIInv == Spec => []IInv
BY InitIsRight, IInvStep, PTL DEF Spec

\* Whatever the costs and whenever the clock is read, poll is given a bounded
\* time, none only if the pool is about to grow, and less than a millisecond
\* more than there is until the pool may grow (pollTimeoutMs).
THEOREM PollIsGivenTheRightTime == Spec => []WaitIsRight
<1>1. IInv => WaitIsRight
    BY DEF IInv
<1> QED BY AlwaysIInv, <1>1, PTL

\* A worker beyond the first stands behind a derivation (withinEvidenceBound).
THEOREM ThePoolIsBacked == Spec => []PoolIsBacked
<1>1. IInv => PoolIsBacked
    BY DEF IInv
<1> QED BY AlwaysIInv, <1>1, PTL

\* The start-ups that a pool has paid for cost no more together than the ramp
\* charges for it: the largest cost, once for each worker.
LEMMA RampCoversTheStarts ==
    ASSUME IInv
    PROVE  /\ MapThenSumSet(LAMBDA w : paid[w], Pool) \in Nat
           /\ MapThenSumSet(LAMBDA w : paid[w], Pool) <= Earliest(Sizing)
<1>1. /\ pool \in Nat /\ pool <= MaxWorkers /\ startupCost \in Nat
      /\ paid \in [Slot -> Nat]
    BY WorkerPoolAssumption DEF IInv, WaitIsRight, TypeOK
<1>2. IsFiniteSet(Pool) /\ Cardinality(Pool) = pool
    BY <1>1, FS_Interval DEF Pool
<1>3. \A w \in Pool : paid[w] \in Nat /\ paid[w] <= startupCost
    BY <1>1, WorkerPoolAssumption DEF IInv, StartsAreCounted, Pool, Slot
<1>4. /\ Summation(paid, Pool)[Pool] \in Nat
      /\ Summation(paid, Pool)[Pool] <= startupCost * Cardinality(Pool)
    BY <1>1, <1>2, <1>3, SumBounded
<1>5. MapThenSumSet(LAMBDA w : paid[w], Pool) = Summation(paid, Pool)[Pool]
    BY DEF MapThenSumSet, MapThenFoldSet, Summation, IsSummation, Picked
<1>6. Earliest(Sizing) = startupCost * pool
    BY SizingIsNumbers DEF IInv, WaitIsRight
<1> QED BY <1>2, <1>4, <1>5, <1>6

\* The pool grows only when the run has lasted as long as all its workers were
\* measured to have cost to start ("spends at most about half the run's time on
\* worker startup").
THEOREM StartsArePaidFor == Spec => GrowthIsEarned
<1>1. ASSUME IInv, [Next]_vars
      PROVE  [pool' > pool => MapThenSumSet(LAMBDA w : paid[w], Pool) <= now]_vars
    <2> SUFFICES ASSUME Next, pool' > pool
                 PROVE  MapThenSumSet(LAMBDA w : paid[w], Pool) <= now
        BY <1>1
    <2> DEFINE sum == MapThenSumSet(LAMBDA w : paid[w], Pool)
    <2>1. sum \in Nat /\ sum <= Earliest(Sizing)
        BY <1>1, RampCoversTheStarts
    <2>2. GrowPool
        <3>1. ~(pool' = pool)
            BY <1>1, SizingIsNumbers DEF IInv, WaitIsRight
        <3> QED BY <3>1 DEF Next, LoopStep, WorkerSpeaks, KeepPool, Dispatch, StartPoll,
                TimeUp, EndPass, Tick, Stopped, Ready, FirstDerivation, LaterDerivation,
                NotADerivation, Replaced, Answers, vars, pool_
    <2>3. Earliest(Sizing) <= now
        <3>1. /\ Earliest(Sizing) = startupCost * pool /\ now \in Nat
              /\ Sizing.elapsed = now /\ Sizing.poolSize = pool /\ pool \in Nat
              /\ startupCost \in Nat
            BY <1>1, SizingIsNumbers DEF IInv, WaitIsRight, TypeOK
        <3>2. CASE pool = 0
            BY <3>1, <3>2
        <3>3. CASE pool > 0
            <4>1. TimeUntilSpawnAllowed(Sizing) = 0
                BY <2>2, <3>1, <3>3 DEF GrowPool, ShouldSpawnWorker
            <4>2. Earliest(Sizing) \in Nat
                BY <3>1
            <4> QED BY <3>1, <4>1, <4>2 DEF TimeUntilSpawnAllowed
        <3> QED BY <3>1, <3>2, <3>3
    <2>4. Earliest(Sizing) \in Nat /\ now \in Nat
        BY <1>1, SizingIsNumbers DEF IInv, WaitIsRight
    <2> HIDE DEF sum
    <2>5. sum <= now
        BY <2>1, <2>3, <2>4
    <2> QED BY <2>5 DEF sum
<1> QED BY AlwaysIInv, <1>1, PTL DEF Spec, GrowthIsEarned
=============================================================================
