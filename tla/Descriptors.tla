---------------------------- MODULE Descriptors ----------------------------
(***************************************************************************)
(* Who holds which end of which pipe: forkWorker, liveFdsExcept and        *)
(* Worker::shutdown (src/coordinator.cc), down to descriptor numbers.      *)
(*                                                                         *)
(* A fork copies the coordinator's table, so a child starts with its       *)
(* siblings' pipes open, and a number that was closed is given out again.  *)
(* The child acts on numbers that its parent listed before the fork.       *)
(***************************************************************************)
EXTENDS Naturals, FiniteSets, FiniteSetsExt

CONSTANTS
    MaxWorkers,  \* slots
    Forks,       \* how many workers may be forked in all
    Failures,    \* how many calls of pipe and fork may fail
    Descriptor,  \* descriptor numbers
    None

ASSUME DescriptorsAssumption ==
    /\ MaxWorkers \in Nat \ {0} /\ Forks \in Nat /\ Failures \in Nat
    /\ Descriptor \subseteq Nat /\ IsFiniteSet(Descriptor)
    /\ Cardinality(Descriptor) >= 2 * MaxWorkers + 2

VARIABLES
    table,    \* of the coordinator (0) and each child: the end behind a number
    child,    \* how far each child has got
    toClose,  \* the numbers each child is to close
    slots,    \* pid, toChildFd and fromChild->fd() of each Worker
    pool,     \* workers.size()
    pc,       \* where the coordinator is
    at,       \* the slot it is busy with
    failures  \* what is left of Failures

vars == <<table, child, toClose, slots, pool, pc, at, failures>>

Slot == 1..MaxWorkers
Pid == 1..Forks
Process == {0} \cup Pid

\* The pipes of a worker are told apart by its pid.
End == [of: Pid, pipe: {"toChild", "fromChild"}, side: {"read", "write"}]
ASSUME NoneAssumption == None \notin Nat /\ None \notin End

Side(k, pipe, side) == [of |-> k, pipe |-> pipe, side |-> side]

Empty == [pid |-> None, toChild |-> None, fromChild |-> None]
Nothing == [d \in Descriptor |-> None]
Ends(p) == {table[p][d] : d \in Descriptor} \ {None}
HeldBySomeone(end) == \E p \in Process : end \in Ends(p)

\* A child is forked, asks to die with its parent, closes what is not its own,
\* runs, and may have said "restart"; then it is dead, then waited for.
Stage == {"none", "forked", "armed", "running", "leaving", "dead", "reaped"}
Living == {"forked", "armed", "running", "leaving"}

Init ==
    /\ table = [p \in Process |-> Nothing]
    /\ child = [k \in Pid |-> "none"]
    /\ toClose = [k \in Pid |-> {}]
    /\ slots = [s \in Slot |-> Empty]
    /\ pool = 0
    /\ pc = "loop"
    /\ at = 0
    /\ failures = Failures

-----------------------------------------------------------------------------
(* close and pipe *)

Close(t, numbers) == [d \in Descriptor |-> IF d \in numbers THEN None ELSE t[d]]

\* pipe gives out the lowest free numbers, the read end first.
Lowest(t) == Min({d \in Descriptor : t[d] = None})
Open(t, end) == [t EXCEPT ![Lowest(t)] = end]
OpenPipe(t, k, pipe) == Open(Open(t, Side(k, pipe, "read")), Side(k, pipe, "write"))
NumberOf(t, end) == CHOOSE d \in Descriptor : t[d] = end

\* The numbers are enough for two more pipes: their bound is not the code's.
Room == Cardinality({d \in Descriptor : table[0][d] = None}) >= 4

\* The process is gone, and every end it held with it.
Dies(k) ==
    /\ child' = [child EXCEPT ![k] = "dead"]
    /\ table' = [table EXCEPT ![k] = Nothing]

-----------------------------------------------------------------------------
(* forkWorker *)

\* liveFdsExcept, as far as the numbers of the slots are valid.
NothingInherited(skip) == {}
LiveFdsExcept(skip) ==
    (UNION {{slots[s].toChild, slots[s].fromChild} : s \in (1..pool) \ {skip}}) \ {None}

\* Worker::operator=: what the slot still has is shut down, after the new
\* worker's pipes were opened; then it takes the new one over.
Stale(s) == {slots[s].toChild, slots[s].fromChild} \ {None}

\* The ends that the parent closes.
OneOfThem(k) == {Side(k, "toChild", "read")}
ChildsEnds(k) == {Side(k, "toChild", "read"), Side(k, "fromChild", "write")}

ForkWorker(s) ==
    /\ Room
    /\ \E k \in {i \in Pid : child[i] = "none"} :
        LET both == OpenPipe(OpenPipe(table[0], k, "toChild"), k, "fromChild")
            ours(pipe, side) == NumberOf(both, Side(k, pipe, side))
        IN  /\ \A i \in Pid : i < k => child[i] # "none"
            /\ table' = [table EXCEPT
                    ![k] = both,
                    ![0] = Close(both, Stale(s) \cup {d \in Descriptor : both[d] \in ChildsEnds(k)})]
            /\ child' = [child EXCEPT ![k] = "forked"]
            /\ toClose' = [toClose EXCEPT ![k] =
                    {ours("toChild", "write"), ours("fromChild", "read")} \cup LiveFdsExcept(s)]
            /\ slots' = [slots EXCEPT ![s] =
                    [pid |-> k, toChild |-> ours("toChild", "write"),
                     fromChild |-> ours("fromChild", "read")]]
            /\ UNCHANGED failures

\* The first pipe cannot be opened, or the second, or the process cannot be
\* forked; what was opened is closed.
CloseOpened(opened, k) == Close(opened, {d \in Descriptor : opened[d] # None /\ opened[d].of = k})

ForkFails ==
    /\ failures > 0 /\ Room
    /\ failures' = failures - 1
    /\ \E k \in {i \in Pid : child[i] = "none"} :
          LET one == OpenPipe(table[0], k, "toChild")
          IN  \E opened \in {table[0], one, OpenPipe(one, k, "fromChild")} :
                  table' = [table EXCEPT ![0] = CloseOpened(opened, k)]
    /\ UNCHANGED <<child, toClose, slots>>

-----------------------------------------------------------------------------
(* The coordinator *)

\* growPool, whenever the policy has it.  An exception is not caught before
\* main, and every Worker is destroyed on the way, front to back.
GrowPool ==
    /\ pc = "loop" /\ pool < MaxWorkers
    /\ \/ ForkWorker(pool + 1) /\ pool' = pool + 1 /\ UNCHANGED <<pc, at>>
       \/ ForkFails /\ pc' = "unwind" /\ at' = 1 /\ UNCHANGED pool

\* Worker::shutdown up to waitpid: the descriptors are closed and forgotten.
KeepNumbers(slot) == slot
ZeroNumbers(slot) == [slot EXCEPT !.toChild = 0, !.fromChild = 0]
ForgetNumbers(slot) == [Empty EXCEPT !.pid = slot.pid]

CloseEnds(s) ==
    /\ table' = [table EXCEPT ![0] = Close(@, Stale(s))]
    /\ slots' = [slots EXCEPT ![s] = ForgetNumbers(@)]

\* handleLine, "restart": the worker is about to exit by itself, or has.  (A
\* dead one may have said so or not; that is left open.)
Restart(s) ==
    /\ pc = "loop" /\ s \in 1..pool
    /\ child[slots[s].pid] \in {"leaving", "dead"}
    /\ CloseEnds(s)
    /\ pc' = "restart" /\ at' = s
    /\ UNCHANGED <<child, toClose, pool, failures>>

\* handleWorkerDeath, when the worker is gone or not to be trusted: SIGKILL
\* first.  (Only with a fork left, which is a bound of the model.)
Replace(s) ==
    /\ pc = "loop" /\ s \in 1..pool
    /\ \E k \in Pid : child[k] = "none"
    /\ LET k == slots[s].pid
       IN  /\ child' = [child EXCEPT ![k] = "dead"]
           /\ table' = [table EXCEPT ![k] = Nothing, ![0] = Close(@, Stale(s))]
    /\ slots' = [slots EXCEPT ![s] = ForgetNumbers(@)]
    /\ pc' = "death" /\ at' = s
    /\ UNCHANGED <<toClose, pool, failures>>

\* waitpid returns.
Reap ==
    /\ at \in 1..pool /\ slots[at].pid # None
    /\ child[slots[at].pid] = "dead"
    /\ slots[at].toChild = None \/ pc \in {"restart", "death"}
    /\ child' = [child EXCEPT ![slots[at].pid] = "reaped"]
    /\ slots' = [slots EXCEPT ![at].pid = None]
    /\ UNCHANGED <<table, toClose, pool, pc, at, failures>>

\* The replacement.  A first failure after "restart" is caught and handled as
\* a death, which forks again; the next one unwinds.
Refork ==
    /\ pc \in {"restart", "death"} /\ slots[at].pid = None
    /\ \/ ForkWorker(at) /\ pc' = "loop" /\ at' = 0
       \/ ForkFails /\ pc = "restart" /\ pc' = "death" /\ UNCHANGED at
       \/ ForkFails /\ pc = "death" /\ pc' = "unwind" /\ at' = 1
    /\ UNCHANGED pool

\* The end of the run: every worker is killed, then shut down in order.
KillWorkers ==
    /\ pc = "loop"
    /\ LET live == {slots[s].pid : s \in Slot} \ {None}
       IN  /\ child' = [k \in Pid |-> IF k \in live THEN "dead" ELSE child[k]]
           /\ table' = [p \in Process |-> IF p \in live THEN Nothing ELSE table[p]]
    /\ pc' = "unwind" /\ at' = 1
    /\ UNCHANGED <<toClose, slots, pool, failures>>

\* poll fails.
Throw ==
    /\ pc = "loop" /\ failures > 0
    /\ failures' = failures - 1
    /\ pc' = "unwind" /\ at' = 1
    /\ UNCHANGED <<table, child, toClose, slots, pool>>

ShutdownNext ==
    /\ pc = "unwind" /\ at <= pool
    /\ \/ slots[at].toChild # None /\ CloseEnds(at) /\ UNCHANGED at
       \/ slots[at] = Empty /\ at' = at + 1 /\ UNCHANGED <<table, slots>>
    /\ UNCHANGED <<child, toClose, pool, pc, failures>>

Return ==
    /\ pc = "unwind" /\ at > pool
    /\ pc' = "exited" /\ at' = 0
    /\ UNCHANGED <<table, child, toClose, slots, pool, failures>>

\* The coordinator is killed: whoever has asked for it dies with it.
CoordinatorKilled ==
    /\ pc # "exited"
    /\ pc' = "exited" /\ at' = 0
    /\ child' = [k \in Pid |-> IF child[k] \in Living \ {"forked"} THEN "dead" ELSE child[k]]
    /\ table' = [p \in Process |->
           IF p # 0 /\ child[p] = "forked" THEN table[p] ELSE Nothing]
    /\ slots' = [s \in Slot |-> Empty]
    /\ UNCHANGED <<toClose, pool, failures>>

-----------------------------------------------------------------------------
(* A child *)

Arm(k) ==
    /\ child[k] = "forked"
    /\ child' = [child EXCEPT ![k] = "armed"]
    /\ UNCHANGED <<table, toClose, slots, pool, pc, at, failures>>

\* The parent may have died before it could be asked for; otherwise it closes
\* what it was given to close.
AnyParent == TRUE
ParentLives == pc # "exited"

SetUp(k) ==
    /\ child[k] = "armed"
    /\ IF ParentLives
       THEN /\ child' = [child EXCEPT ![k] = "running"]
            /\ table' = [table EXCEPT ![k] = Close(@, toClose[k])]
       ELSE Dies(k)
    /\ toClose' = [toClose EXCEPT ![k] = {}]
    /\ UNCHANGED <<slots, pool, pc, at, failures>>

\* A worker says "restart"; it exits by itself after that, or at the end of
\* its requests.
SayRestart(k) ==
    /\ child[k] = "running"
    /\ \E i \in Pid : child[i] = "none"
    /\ child' = [child EXCEPT ![k] = "leaving"]
    /\ UNCHANGED <<table, toClose, slots, pool, pc, at, failures>>

Leave(k) ==
    /\ \/ child[k] = "leaving"
       \/ child[k] = "running" /\ ~HeldBySomeone(Side(k, "toChild", "write"))
    /\ Dies(k)
    /\ UNCHANGED <<toClose, slots, pool, pc, at, failures>>

Crash(k) ==
    /\ child[k] \in Living
    /\ Dies(k)
    /\ UNCHANGED <<toClose, slots, pool, pc, at, failures>>

-----------------------------------------------------------------------------

Coordinates ==
    \/ GrowPool \/ Reap \/ Refork \/ ShutdownNext \/ Return
    \/ KillWorkers \/ Throw
    \/ \E s \in Slot : Restart(s) \/ Replace(s)

Exited == pc = "exited" /\ (\A k \in Pid : child[k] \notin Living) /\ UNCHANGED vars

Next ==
    \/ Coordinates \/ CoordinatorKilled \/ Exited
    \/ \E k \in Pid : Arm(k) \/ SetUp(k) \/ SayRestart(k) \/ Leave(k) \/ Crash(k)

Spec == Init /\ [][Next]_vars

\* A shutdown under way goes on; children set themselves up, and exit when
\* they have said so or their requests are over.  Nothing has to crash.
Fairness ==
    /\ WF_vars(Reap \/ ShutdownNext \/ Return)
    /\ \A k \in Pid : WF_vars(Arm(k) \/ SetUp(k)) /\ WF_vars(Leave(k))

FairSpec == Spec /\ Fairness

-----------------------------------------------------------------------------
(* Properties *)

\* Type correctness.
TypeOK ==
    /\ table \in [Process -> [Descriptor -> End \cup {None}]]
    /\ child \in [Pid -> Stage]
    /\ toClose \in [Pid -> SUBSET Descriptor]
    /\ slots \in [Slot -> [pid: Pid \cup {None}, toChild: Descriptor \cup {None},
                           fromChild: Descriptor \cup {None}]]
    /\ pool \in 0..MaxWorkers /\ at \in 0..(MaxWorkers + 1)
    /\ pc \in {"loop", "restart", "death", "unwind", "exited"}
    /\ failures \in 0..Failures

\* A worker that runs holds its two ends and no other: what it was told to
\* close was right when it got to closing it, whichever numbers had been
\* closed and given out again in between.
RunningHoldsItsOwn ==
    \A k \in Pid : child[k] \in {"running", "leaving"} =>
        Ends(k) = {Side(k, "toChild", "read"), Side(k, "fromChild", "write")}

\* The coordinator holds what its workers' slots name, and each slot names
\* the pipes of its own worker: no descriptor is leaked by a failure or a
\* replacement, and none is closed twice, for the second close would hit a
\* pipe that has been given the number since.
SlotsAreAccurate ==
    /\ Ends(0) = {table[0][d] : d \in UNION {Stale(s) : s \in Slot}}
    /\ \A s \in Slot : slots[s].toChild # None =>
          /\ table[0][slots[s].toChild] = Side(slots[s].pid, "toChild", "write")
          /\ table[0][slots[s].fromChild] = Side(slots[s].pid, "fromChild", "read")

\* Through forks, failures, restarts and deaths (forkWorker, shutdown), whoever is
\* past its set-up holds its own ends and nobody else's: each running child, and
\* the coordinator, whose slots say which is which.
EachHoldsItsOwn == TypeOK /\ RunningHoldsItsOwn /\ SlotsAreAccurate

\* The death of a worker shows: nobody else can keep its answers' pipe from
\* ending, or poll would never report it.
DeathShows ==
    \A k \in Pid : child[k] \in {"dead", "reaped"} =>
        ~HeldBySomeone(Side(k, "fromChild", "write"))

\* "an exception anywhere in the run cannot orphan a child" (coordinator.cc:68):
\* a child that has not been waited for is in a slot; and none gets as far as
\* evaluating when the coordinator is gone ("closes the window where the parent
\* died before prctl was reached").
NoOrphan ==
    /\ pc # "exited" => \A k \in Pid : child[k] \in Living \cup {"dead"} =>
           \E s \in 1..pool : slots[s].pid = k
    /\ pc = "exited" => \A k \in Pid : child[k] \notin {"running", "leaving"}

\* A shutdown comes to its end although nobody is killed: the worker waited for
\* sees the end of its requests, because no other worker keeps the pipe open.
ShutdownEnds ==
    /\ \A s \in Slot : (at = s /\ pc \in {"restart", "death"}) ~>
           (at # s \/ slots[s].pid = None)
    /\ pc = "unwind" ~> pc = "exited"
=============================================================================
