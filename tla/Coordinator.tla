---------------------------- MODULE Coordinator ----------------------------
(***************************************************************************)
(* The coordinator's event loop (runCoordinator, src/coordinator.cc) over  *)
(* its workers, for a run with --no-dependencies.                          *)
(*                                                                         *)
(* One pass of the loop is top (interrupt check, growPool), dispatch,      *)
(* poll, service (one step per read or line), and back.  Workers take      *)
(* steps between any two steps of the coordinator.  Time is left out: the  *)
(* clock may or may not have let the pool grow, and poll may time out      *)
(* whenever nothing is readable.                                           *)
(***************************************************************************)
EXTENDS Worker

CONSTANTS
    MaxStartupFailures, \* kMaxStartupFailures
    MaxAttempts         \* maxAttempts of shouldRetryAfterWorkerDeath

ASSUME CoordinatorAssumption ==
    /\ MaxStartupFailures \in Nat \ {0}
    /\ MaxAttempts \in Nat

VARIABLES
    pc,                   \* where the loop is
    polled,               \* slots of this pass not serviced yet
    pool,                 \* how many slots have been forked (workers.size())
    todo,                 \* attributes waiting, with the deaths they have seen
    active,               \* attributes dispatched and not settled
    evaluatedDerivations, \* job answers so far
    idle,                 \* Worker::idle
    readySinceFork,       \* Worker::readySinceFork
    startupFailures,      \* Worker::startupFailures
    currentJob,           \* Worker::currentJob
    buffer,               \* LineReader::buffer_ of each slot
    fatal,                \* the run is to be aborted
    interrupted,          \* nix::isInterrupted()
    exitCode,             \* None until the process has exited
    verdict,              \* what the run has concluded about each attribute
    done                  \* whether the done line is out

queue == <<todo, active, verdict>>
pool_ == <<pool, idle, readySinceFork, startupFailures, currentJob, buffer>>
run == <<evaluatedDerivations, fatal, exitCode, done>>
vars == <<child, environment, closed, pc, polled, queue, pool_, run, interrupted>>

Pending == [path: AttrPath, attempts: Nat]

\* A worker without an attribute is told from one that has any.
ASSUME NoneAssumption == None \notin Pending

\* "job", "error", "too deep" and "died" are lines on stdout; "expanded" and
\* "ignored" are silent.
Verdict == {"none", "job", "error", "too deep", "died", "expanded", "ignored"}

PC == {"top", "dispatch", "poll", "service", "teardown", "kill", "finish",
       "unwind", "exited"}

Pool == 1..pool

Init ==
    /\ WorkerInit
    /\ pc = "top"
    /\ polled = {}
    /\ pool = 0
    /\ todo = <<[path |-> <<>>, attempts |-> 0]>>
    /\ active = 0
    /\ evaluatedDerivations = 0
    /\ idle = [w \in Slot |-> FALSE]
    /\ readySinceFork = [w \in Slot |-> FALSE]
    /\ startupFailures = [w \in Slot |-> 0]
    /\ currentJob = [w \in Slot |-> None]
    /\ buffer = [w \in Slot |-> <<>>]
    /\ fatal = FALSE
    /\ interrupted = FALSE
    /\ exitCode = None
    /\ verdict = [p \in AttrPath |-> "none"]
    /\ done = FALSE

-----------------------------------------------------------------------------
(* forkWorker, Worker::operator= *)

\* A worker that has just been forked is not idle until it says it is ready.
KeepsIdleness(w) == idle[w]
StartsIdle(w) == FALSE

\* A new worker in slot w: nothing of the old one survives but the count of
\* startup failures its caller carries over.
NewWorker(w, failures) ==
    /\ Forked(w)
    /\ idle' = [idle EXCEPT ![w] = StartsIdle(w)]
    /\ readySinceFork' = [readySinceFork EXCEPT ![w] = FALSE]
    /\ startupFailures' = [startupFailures EXCEPT ![w] = failures]
    /\ currentJob' = [currentJob EXCEPT ![w] = None]
    /\ buffer' = [buffer EXCEPT ![w] = <<>>]

\* forkWorker throws after the old worker was shut down, and nothing catches
\* it before main does.
ForkFails(w) ==
    /\ "fork" \in Faults
    /\ Reaped(w)
    /\ currentJob' = [currentJob EXCEPT ![w] = None]
    /\ buffer' = [buffer EXCEPT ![w] = <<>>]
    /\ polled' = {}
    /\ pc' = "unwind"
    /\ UNCHANGED <<idle, readySinceFork, startupFailures>>

-----------------------------------------------------------------------------
(* The top of the loop: interruption and growPool *)

NeverInterrupted == FALSE
IsInterrupted == interrupted

StopIfInterrupted ==
    /\ pc = "top"
    /\ IsInterrupted
    /\ fatal' = TRUE
    /\ pc' = "teardown"
    /\ UNCHANGED <<child, environment, closed, polled, queue, pool_,
                   evaluatedDerivations, exitCode, done, interrupted>>

\* shouldSpawnWorker but for the clock.
MaySpawn ==
    /\ pool < MaxWorkers
    /\ pool > 0 =>
          /\ todo # <<>>
          /\ \A w \in Pool : ~idle[w]
          /\ pool <= evaluatedDerivations

GrowPool ==
    /\ pc = "top"
    /\ ~IsInterrupted
    /\ MaySpawn
    /\ \/ /\ NewWorker(pool + 1, 0)
          /\ pool' = pool + 1
          /\ pc' = "dispatch"
          /\ UNCHANGED polled
       \/ /\ ForkFails(pool + 1)
          /\ UNCHANGED pool
    /\ UNCHANGED <<environment, closed, queue, run, interrupted>>

\* The pool does not grow; the first worker does not wait for the clock.
KeepPool ==
    /\ pc = "top"
    /\ ~IsInterrupted
    /\ pool > 0
    /\ pc' = "dispatch"
    /\ UNCHANGED <<child, environment, closed, polled, queue, pool_, run, interrupted>>

-----------------------------------------------------------------------------
(* dispatch, and the decision to stop *)

Dispatchable == {w \in Pool : todo # <<>> /\ idle[w]}

\* The first attribute waiting goes to the first idle worker.  Whether the
\* write succeeds is not looked at: a worker that is gone receives nothing.
Dispatch(w) ==
    /\ pc = "dispatch"
    /\ w \in Dispatchable
    /\ \A v \in Dispatchable : w <= v
    /\ todo' = Tail(todo)
    /\ idle' = [idle EXCEPT ![w] = FALSE]
    /\ currentJob' = [currentJob EXCEPT ![w] = Head(todo)]
    /\ active' = active + 1
    /\ toChild' = IF Alive(w)
                  THEN [toChild EXCEPT ![w] = Append(@, Do(Head(todo).path))]
                  ELSE toChild
    /\ UNCHANGED <<state, line, task, fromChild, environment, closed, pc, polled,
                   verdict, pool, readySinceFork, startupFailures, buffer, run,
                   interrupted>>

\* Nothing is left to dispatch and nobody is still at work.
NothingQueued == todo = <<>>
Finished == todo = <<>> /\ active = 0

EndDispatch ==
    /\ pc = "dispatch"
    /\ Dispatchable = {}
    /\ pc' = IF Finished THEN "teardown" ELSE "poll"
    /\ UNCHANGED <<child, environment, closed, polled, queue, pool_, run, interrupted>>

-----------------------------------------------------------------------------
(* poll *)

\* POLLIN or POLLHUP.
Readable(w) == fromChild[w] # <<>> \/ state[w] = "dead"

Poll ==
    /\ pc = "poll"
    /\ polled' = {w \in Pool : Readable(w)}
    /\ pc' = IF polled' = {} THEN "top" ELSE "service"
    /\ UNCHANGED <<child, environment, closed, queue, pool_, run, interrupted>>

\* Interrupted, poll is called again after another look at the pool; any other
\* failure is thrown.
PollFails ==
    /\ "poll" \in Faults
    /\ pc = "poll"
    /\ pc' \in {"top", "unwind"}
    /\ UNCHANGED <<child, environment, closed, polled, queue, pool_, run, interrupted>>

-----------------------------------------------------------------------------
(* readLine and hasBufferedLine *)

HasNewline(tokens) == \E i \in DOMAIN tokens : tokens[i] = Newline

\* The slot being serviced: pollfds are gone through in order.
Serving(w) == pc = "service" /\ w \in polled /\ \A v \in polled : w <= v

AtEof(w) == fromChild[w] = <<>> /\ state[w] = "dead"

\* A line is there to be returned: up to a newline, or what an ended stream
\* left unterminated.
HasLine(w) == HasNewline(buffer[w]) \/ (AtEof(w) /\ buffer[w] # <<>>)

Message(w) == Head(buffer[w])

\* What the buffer holds behind that line.
Rest(w) == SubSeq(buffer[w], 3, Len(buffer[w]))

\* readLine blocks until there is something to read, and reads any nonempty
\* part of what is there.  The pipe's only token above the limit of a line is
\* the one that is named for it.
FillBuffer(w) ==
    /\ Serving(w)
    /\ ~HasNewline(buffer[w])
    /\ \E n \in 1..Len(fromChild[w]) :
          LET chunk == SubSeq(fromChild[w], 1, n)
          IN  /\ \A i \in DOMAIN chunk : chunk[i].t # "oversized"
              /\ buffer' = [buffer EXCEPT ![w] = @ \o chunk]
              /\ fromChild' = [fromChild EXCEPT ![w] = SubSeq(@, n + 1, Len(@))]
    /\ UNCHANGED <<state, line, task, toChild, environment, closed, pc, polled,
                   queue, pool, idle, readySinceFork, startupFailures,
                   currentJob, run, interrupted>>

\* The loop over pollfds goes on to the next slot, and after the last one to
\* the top or, once the run is to be aborted, to the end.
LeaveSlot(w) ==
    /\ polled' = polled \ {w}
    /\ pc' = IF polled' # {} THEN "service" ELSE IF fatal' THEN "teardown" ELSE "top"

\* The inner loop stays with a slot while its buffer holds another line.
NeverStays(w) == FALSE
StaysWith(w) == ~fatal' /\ HasNewline(buffer'[w])

FinishLine(w) ==
    IF StaysWith(w) THEN UNCHANGED <<pc, polled>> ELSE LeaveSlot(w)

\* The line handleLine is given, consumed.
TakesLine(w, kinds) ==
    /\ Serving(w)
    /\ HasLine(w)
    /\ Message(w).t \in kinds
    /\ buffer' = [buffer EXCEPT ![w] = Rest(w)]

-----------------------------------------------------------------------------
(* handleLine *)

\* The count of attributes in flight, which is not let below zero.
NoneFewer == active
OneFewer == IF active > 0 THEN active - 1 ELSE active

HandleReady(w) ==
    /\ TakesLine(w, {"ready"})
    /\ idle' = [idle EXCEPT ![w] = TRUE]
    /\ readySinceFork' = [readySinceFork EXCEPT ![w] = TRUE]
    /\ UNCHANGED <<child, environment, closed, queue, pool, startupFailures,
                   currentJob, run, interrupted>>
    /\ FinishLine(w)

\* shutdown closes the pipes and waits for the process, which is about to
\* exit, before the next one is forked.  A fork that fails is caught as if the
\* line were malformed, and tried once more by handleWorkerDeath.
HandleRestart(w) ==
    /\ Serving(w)
    /\ HasLine(w)
    /\ Message(w).t = "restart"
    /\ state[w] = "dead"
    /\ UNCHANGED <<environment, closed, queue, pool, run, interrupted>>
    /\ \/ NewWorker(w, 0) /\ LeaveSlot(w)
       \/ ForkFails(w)

HandleFatal(w) ==
    /\ TakesLine(w, {"fatal"})
    /\ fatal' = TRUE
    /\ UNCHANGED <<child, environment, closed, queue, pool, idle, readySinceFork,
                   startupFailures, currentJob, evaluatedDerivations, exitCode,
                   done, interrupted>>
    /\ FinishLine(w)

\* The attribute dispatched to the worker is no longer with it.
ReleaseJob(w) ==
    /\ currentJob' = [currentJob EXCEPT ![w] = None]
    /\ active' = OneFewer

Conclude(path, v) == verdict' = [verdict EXCEPT ![path] = v]

AnswerFrame(w) ==
    /\ UNCHANGED <<child, environment, closed, pool, idle, readySinceFork,
                   startupFailures, fatal, exitCode, done, interrupted>>
    /\ FinishLine(w)

HandleJob(w) ==
    /\ TakesLine(w, {"job"})
    /\ evaluatedDerivations' = evaluatedDerivations + 1
    /\ ReleaseJob(w)
    /\ Conclude(Message(w).path, "job")
    /\ UNCHANGED todo
    /\ AnswerFrame(w)

HandleError(w) ==
    /\ TakesLine(w, {"error"})
    /\ ReleaseJob(w)
    /\ Conclude(Message(w).path, "error")
    /\ UNCHANGED <<todo, evaluatedDerivations>>
    /\ AnswerFrame(w)

HandleIgnore(w) ==
    /\ TakesLine(w, {"ignore"})
    /\ ReleaseJob(w)
    /\ Conclude(Message(w).path, "ignored")
    /\ UNCHANGED <<todo, evaluatedDerivations>>
    /\ AnswerFrame(w)

\* How deep a path may be and still have its children visited.
OneLevelShort(path) == Len(path) >= MaxAttrPathDepth - 1
TooDeep(path) == Len(path) >= MaxAttrPathDepth

\* The children of a path, as attributes that no worker has died on.
DropLastChild(path, names) ==
    [i \in 1..(Len(names) - 1) |-> [path |-> Append(path, names[i]), attempts |-> 0]]
Children(path, names) ==
    [i \in DOMAIN names |-> [path |-> Append(path, names[i]), attempts |-> 0]]

HandleChildren(w) ==
    /\ TakesLine(w, {"children"})
    /\ ~TooDeep(Message(w).path)
    /\ ReleaseJob(w)
    /\ todo' = todo \o Children(Message(w).path, Message(w).children)
    /\ Conclude(Message(w).path, "expanded")
    /\ UNCHANGED evaluatedDerivations
    /\ AnswerFrame(w)

HandleTooDeep(w) ==
    /\ TakesLine(w, {"children"})
    /\ TooDeep(Message(w).path)
    /\ ReleaseJob(w)
    /\ Conclude(Message(w).path, "too deep")
    /\ UNCHANGED <<todo, evaluatedDerivations>>
    /\ AnswerFrame(w)

-----------------------------------------------------------------------------
(* handleWorkerDeath *)

\* "exited unexpectedly": readLine returned an empty string.
SeesEof(w) == AtEof(w) /\ buffer[w] = <<>>

\* "produced malformed output": a line that does not parse.
SeesTornLine(w) == HasLine(w) /\ Message(w).t = "torn"

\* "produced an oversized message": more than kMaxLineBytes without a newline.
SeesOversizedLine(w) ==
    /\ ~HasNewline(buffer[w])
    /\ \E i \in DOMAIN fromChild[w] : fromChild[w][i].t = "oversized"

SeesDeath(w) ==
    /\ Serving(w)
    /\ SeesEof(w) \/ SeesTornLine(w) \/ SeesOversizedLine(w)

RetryOnce(attemptsSoFar) == attemptsSoFar < MaxAttempts - 1
ShouldRetry(attemptsSoFar) == attemptsSoFar < MaxAttempts

\* The attribute the worker held goes back to the front of the queue, or is
\* reported once it has been retried often enough.
ForgetJob(w) == UNCHANGED <<todo, verdict>>
ForgetDeath(w) == todo' = <<currentJob[w]>> \o todo /\ UNCHANGED verdict
RequeueOrBlame(w) ==
    LET job == currentJob[w]
    IN  IF ShouldRetry(job.attempts)
        THEN /\ todo' = <<[job EXCEPT !.attempts = @ + 1]>> \o todo
             /\ UNCHANGED verdict
        ELSE /\ Conclude(job.path, "died")
             /\ UNCHANGED todo

GiveBackJob(w) ==
    IF currentJob[w] = None
    THEN UNCHANGED queue
    ELSE /\ RequeueOrBlame(w)
         /\ active' = OneFewer

\* Consecutive deaths of this slot before it was ever ready.
EveryDeath(w) == startupFailures[w] + 1
Failures(w) == IF readySinceFork[w] THEN 0 ELSE startupFailures[w] + 1

CrashLoopsLate(w) == Failures(w) > MaxStartupFailures
CrashLoops(w) == Failures(w) >= MaxStartupFailures

\* The slot keeps crashing at startup: the run is aborted, and the slot is
\* left as it is.
GiveUp(w) ==
    /\ SeesDeath(w)
    /\ CrashLoops(w)
    /\ GiveBackJob(w)
    /\ fatal' = TRUE
    /\ currentJob' = [currentJob EXCEPT ![w] = None]
    /\ buffer' = [buffer EXCEPT ![w] = <<>>]
    /\ UNCHANGED <<child, environment, closed, pool, idle, readySinceFork,
                   startupFailures, evaluatedDerivations, exitCode, done,
                   interrupted>>
    /\ LeaveSlot(w)

\* Killed, reaped and replaced by a fresh worker.
ReplaceWorker(w) ==
    /\ SeesDeath(w)
    /\ ~CrashLoops(w)
    /\ GiveBackJob(w)
    /\ UNCHANGED <<environment, closed, pool, run, interrupted>>
    /\ \/ NewWorker(w, Failures(w)) /\ LeaveSlot(w)
       \/ ForkFails(w)

-----------------------------------------------------------------------------
(* The end of the run *)

\* Every worker is told to exit, and then killed and reaped without waiting
\* for it to read that.
AskToExit ==
    /\ pc = "teardown"
    /\ toChild' = [w \in Slot |-> IF Alive(w) THEN Append(toChild[w], Exit) ELSE toChild[w]]
    /\ pc' = "kill"
    /\ UNCHANGED <<state, line, task, fromChild, environment, closed, polled,
                   queue, pool_, run, interrupted>>

KillWorkers ==
    /\ pc = "kill"
    /\ state' = [w \in Slot |-> "none"]
    /\ line' = [w \in Slot |-> None]
    /\ task' = [w \in Slot |-> None]
    /\ toChild' = [w \in Slot |-> <<>>]
    /\ fromChild' = [w \in Slot |-> <<>>]
    /\ pc' = "finish"
    /\ UNCHANGED <<environment, closed, polled, queue, pool_, run, interrupted>>

ExitWith(code) == pc' = "exited" /\ exitCode' = code

FinishFatal ==
    /\ pc = "finish"
    /\ fatal
    /\ ExitWith(1)
    /\ UNCHANGED <<child, environment, closed, polled, queue, pool_,
                   evaluatedDerivations, fatal, done, interrupted>>

FinishDone ==
    /\ pc = "finish"
    /\ ~fatal
    /\ done' = TRUE
    /\ ExitWith(0)
    /\ UNCHANGED <<child, environment, closed, polled, queue, pool_,
                   evaluatedDerivations, fatal, interrupted>>

\* An exception on its way to main destroys the workers front to back: each
\* has its pipes closed and is waited for, alive or not.
Abandoned == {}
Unreaped == {w \in Slot : state[w] # "none"}

ClosePipes(w) ==
    /\ pc = "unwind"
    /\ w \in Unreaped \ closed
    /\ \A v \in Unreaped : w <= v
    /\ closed' = closed \cup {w}
    /\ UNCHANGED <<child, environment, pc, polled, queue, pool_, run, interrupted>>

WaitForChild(w) ==
    /\ pc = "unwind"
    /\ w \in closed
    /\ state[w] = "dead"
    /\ Reaped(w)
    /\ closed' = closed \ {w}
    /\ UNCHANGED <<environment, pc, polled, queue, pool_, run, interrupted>>

ExitOnException ==
    /\ pc = "unwind"
    /\ Unreaped = {}
    /\ ExitWith(1)
    /\ UNCHANGED <<child, environment, closed, polled, queue, pool_,
                   evaluatedDerivations, fatal, done, interrupted>>

\* A line cannot be written: the coordinator exits on the spot, and the
\* workers are killed with it (PR_SET_PDEATHSIG).
AboutToEmit ==
    \/ pc = "finish" /\ ~fatal
    \/ \E w \in Pool :
          \/ /\ Serving(w)
             /\ HasLine(w)
             /\ \/ Message(w).t \in {"job", "error"}
                \/ Message(w).t = "children" /\ TooDeep(Message(w).path)
          \/ /\ SeesDeath(w)
             /\ currentJob[w] # None
             /\ ~ShouldRetry(currentJob[w].attempts)

EmitFails ==
    /\ "stdout" \in Faults
    /\ AboutToEmit
    /\ ExitWith(1)
    /\ polled' = {}
    /\ state' = [w \in Slot |-> "none"]
    /\ line' = [w \in Slot |-> None]
    /\ task' = [w \in Slot |-> None]
    /\ toChild' = [w \in Slot |-> <<>>]
    /\ fromChild' = [w \in Slot |-> <<>>]
    /\ UNCHANGED <<environment, closed, queue, pool_, evaluatedDerivations,
                   fatal, done, interrupted>>

-----------------------------------------------------------------------------

\* Nix's signal-handler thread raises the flag at any time.
Interrupt ==
    /\ "signal" \in Faults
    /\ ~interrupted
    /\ pc # "exited"
    /\ interrupted' = TRUE
    /\ UNCHANGED <<child, environment, closed, pc, polled, queue, pool_, run>>

SlotStep(w) ==
    \/ Dispatch(w) \/ FillBuffer(w)
    \/ HandleReady(w) \/ HandleRestart(w) \/ HandleFatal(w) \/ HandleJob(w)
    \/ HandleError(w) \/ HandleIgnore(w) \/ HandleChildren(w) \/ HandleTooDeep(w)
    \/ GiveUp(w) \/ ReplaceWorker(w) \/ ClosePipes(w) \/ WaitForChild(w)

LoopStep ==
    \/ StopIfInterrupted \/ GrowPool \/ KeepPool \/ EndDispatch \/ Poll \/ PollFails
    \/ AskToExit \/ KillWorkers \/ FinishFatal \/ FinishDone \/ ExitOnException

CoordinatorStep == LoopStep \/ EmitFails \/ \E w \in Slot : SlotStep(w)

ChildStep(w) ==
    /\ WorkerStep(w)
    /\ UNCHANGED <<pc, polled, queue, pool_, run, interrupted>>

ChildCrash(w) ==
    /\ Crash(w)
    /\ UNCHANGED <<pc, polled, queue, pool_, run, interrupted>>

\* The process is gone.
Exited == pc = "exited" /\ UNCHANGED vars

Next ==
    \/ CoordinatorStep
    \/ \E w \in Slot : ChildStep(w) \/ ChildCrash(w)
    \/ Interrupt
    \/ Exited

Spec == Init /\ [][Next]_vars

\* Workers evaluate and write, and the coordinator's loop runs; a crash or a
\* signal need never come.
Fairness ==
    /\ WF_vars(CoordinatorStep)
    /\ \A w \in Slot : WF_vars(ChildStep(w))

FairSpec == Spec /\ Fairness

\* The same without supposing that loading the flake or evaluating an
\* attribute ever ends.
PromptStep(w) == state[w] \notin {"starting", "evaluating"} /\ ChildStep(w)

PromptFairness ==
    /\ WF_vars(CoordinatorStep)
    /\ \A w \in Slot : WF_vars(PromptStep(w))

PromptSpec == Spec /\ PromptFairness

-----------------------------------------------------------------------------
(* What the run should conclude *)

Names(path) == ToSet(Dumped(flake[path].children))

\* A path the run has found: the root, or a child of an expanded path.
Discovered(path) ==
    path # <<>> => /\ verdict[Front(path)] = "expanded"
                   /\ Last(path) \in Names(Front(path))

\* A path the flake has, whatever the run has found so far.
InFlake(path) ==
    \A n \in 1..Len(path) :
        LET parent == SubSeq(path, 1, n - 1)
        IN  flake[parent].kind = "children" /\ path[n] \in Names(parent)

\* What evaluating a path of the flake comes to.
Truth(path) ==
    LET kind == flake[path].kind
    IN  CASE ~InFlake(path) -> "none"
          [] kind = "job" -> "job"
          [] kind = "throws" -> "error"
          [] kind = "ignore" -> "ignored"
          [] kind \in {"kills", "oversized"} -> "died"
          [] kind = "children" ->
                 IF Len(path) < MaxAttrPathDepth THEN "expanded" ELSE "too deep"

-----------------------------------------------------------------------------
(* Properties *)

\* Type correctness.
TypeOK ==
    /\ WorkerTypeOK
    /\ pc \in PC
    /\ polled \subseteq Slot
    /\ pool \in 0..MaxWorkers
    /\ todo \in Seq(Pending)
    /\ active \in Nat
    /\ evaluatedDerivations \in Nat
    /\ idle \in [Slot -> BOOLEAN]
    /\ readySinceFork \in [Slot -> BOOLEAN]
    /\ startupFailures \in [Slot -> 0..(MaxStartupFailures - 1)]
    /\ currentJob \in [Slot -> Pending \cup {None}]
    /\ buffer \in [Slot -> Seq(Token)]
    /\ fatal \in BOOLEAN
    /\ interrupted \in BOOLEAN
    /\ exitCode \in {None, 0, 1}
    /\ verdict \in [AttrPath -> Verdict]
    /\ done \in BOOLEAN

Holders == {w \in Slot : currentJob[w] # None}

\* The count of attributes in flight never drifts from the workers that hold
\* one: too low and the loop stops with work outstanding, too high and it
\* never stops.
ActiveCountsJobs == active = Cardinality(Holders)

\* Where an attribute is: waiting, with a worker, or concluded.
Places(path) ==
    Cardinality({i \in DOMAIN todo : todo[i].path = path})
        + Cardinality({w \in Holders : currentJob[w].path = path})
        + (IF verdict[path] = "none" THEN 0 ELSE 1)

\* Every attribute found is in exactly one place, and no other is anywhere:
\* whatever dies, is retried or restarted, none is lost and none is done twice.
NothingLost ==
    \A path \in AttrPath : Places(path) = IF Discovered(path) THEN 1 ELSE 0

\* The done line is the proof of a whole stream (README.md, "Read it as the
\* only proof that you have the whole stream"): everything found has been
\* concluded, and nothing is left with anyone.
DoneMeansComplete ==
    done => /\ exitCode = 0 /\ ~fatal
            /\ todo = <<>> /\ Holders = {}
            /\ \A path \in AttrPath : Discovered(path) => verdict[path] # "none"

\* Nothing found is lost on the way or forgotten at the end: NothingLost at every
\* moment, and at the last DoneMeansComplete.
NothingForgotten == NothingLost /\ DoneMeansComplete

\* What a worker has written and the coordinator has not handled.
StreamOf(w) == buffer[w] \o fromChild[w]

\* The attributes a worker is concerned with, each with where it is: on its way
\* to the worker, being evaluated, or on its way back as an answer.
Traffic(w) ==
    {[at |-> <<"answer", i>>, path |-> StreamOf(w)[i].path] :
        i \in {j \in DOMAIN StreamOf(w) : IsAnswer(StreamOf(w)[j])}}
    \cup {[at |-> <<"request", i>>, path |-> toChild[w][i].path] :
        i \in {j \in DOMAIN toChild[w] : toChild[w][j] # Exit}}
    \cup (IF state[w] = "evaluating" THEN {[at |-> <<"task", 1>>, path |-> task[w]]} ELSE {})
    \cup (IF state[w] = "body" /\ IsAnswer(line[w])
          THEN {[at |-> <<"line", 1>>, path |-> line[w].path]} ELSE {})

\* A worker is never concerned with more than one attribute, and that is the
\* one the coordinator has it down for: an answer is never taken for the
\* answer to something else, and none arrives unasked.
OneJobPerWorker ==
    \A w \in Slot :
        /\ \A one, other \in Traffic(w) : one = other
        /\ \A one \in Traffic(w) :
              currentJob[w] # None /\ currentJob[w].path = one.path

\* A worker taken to be idle has nothing to do and nothing more to say; it is
\* listening, or it has died and the coordinator has yet to notice.
IdleWorkersListen ==
    \A w \in Slot :
        idle[w] /\ pc \in {"top", "dispatch", "poll", "service"} =>
            /\ currentJob[w] = None
            /\ fromChild[w] = <<>> /\ buffer[w] = <<>>
            /\ state[w] \in {"waiting", "dead"}

\* The coordinator and its workers agree on who does what, whatever either has
\* yet to read: each holds one job at most, and the idle ones none.
WorkersInStep == OneJobPerWorker /\ IdleWorkersListen

\* The loop never waits in poll for a line it has already read
\* (hasBufferedLine).
NoStrandedLine == pc = "poll" => \A w \in Slot : ~HasNewline(buffer[w])

\* What is reported is what evaluation gives, except that an attribute may be
\* blamed for the deaths of the workers that held it.
VerdictsAreTrue ==
    \A path \in AttrPath : verdict[path] \in {"none", "died", Truth(path)}

\* As long as no more workers are lost to something ambient than the retries
\* an attribute has, none is blamed that does not kill its workers
\* (shouldRetryAfterWorkerDeath, pure.hh).
OnlyKillersAreBlamed ==
    \A path \in AttrPath : verdict[path] = "died" => Truth(path) = "died"

\* And such crashes never abort the run, whatever else goes wrong beside them: a
\* bad attribute or a lost worker costs itself, never the other results.  Only
\* a signal or the fatal message of a worker makes a run that goes on fatal.
CrashesDoNotAbort ==
    [][~fatal /\ fatal' =>
           interrupted \/ \E w \in Slot : buffer[w] # <<>> /\ Message(w) = Fatal]_vars

\* An attribute is reported because its worker "exited unexpectedly while
\* evaluating this attribute, twice" (coordinator.cc): two workers have died on
\* it, the second while evaluating it.  It is not so: the third death is the
\* one that is reported, and a worker is charged with the attribute it was
\* sent, whether it had read it or not.
Blamed(path) == verdict[path] # "died" /\ verdict'[path] = "died"

BlamedAsReported ==
    [][\A w \in Slot : currentJob[w] # None /\ Blamed(currentJob[w].path) =>
           currentJob[w].attempts + 1 = 2 /\ task[w] = currentJob[w].path]_vars

\* Every output the flake has is in a stream that ends in done (README.md,
\* "Read it as the only proof that you have the whole stream").  It is not so
\* when the name of an attribute is not valid UTF-8: what dumpLossy makes of it
\* is not an attribute the worker can find.
TrulyInFlake(path) ==
    \A n \in 1..Len(path) :
        LET parent == SubSeq(path, 1, n - 1)
        IN  /\ flake[parent].kind = "children"
            /\ path[n] \in ToSet(flake[parent].children)

WholeStream ==
    done => \A path \in AttrPath :
                TrulyInFlake(path) /\ flake[path].kind = "job" => verdict[path] = "job"

\* However the run ends other than on the spot, no worker is left behind.
NoOrphans == pc = "exited" => \A w \in Slot : state[w] = "none"

\* The loop implements the abstract walk over attributes: what it concludes,
\* and when it says that the stream is complete, is what AttributeWalk allows,
\* for a flake whose children have distinct names once dumped.
ChildPaths(path) ==
    IF Len(path) < MaxAttrPathDepth
    THEN {Append(path, name) : name \in Names(path)}
    ELSE {}
Stream == IF done THEN "complete" ELSE IF pc = "exited" THEN "cut" ELSE "open"

Walk == INSTANCE AttributeWalk WITH
    Attribute <- AttrPath, Root <- <<>>, Verdict <- Verdict,
    childrenOf <- [path \in AttrPath |-> ChildPaths(path)],
    mayConclude <- [path \in AttrPath |-> {"died", Truth(path)}],
    stream <- Stream

ImplementsWalk == Walk!Spec

\* The run ends.
Termination == <>(pc = "exited")

\* An exception has destroyed a worker that nobody killed, and that loads the
\* flake or evaluates; its process is waited for (Worker::shutdown).
AwaitsEvaluation ==
    pc = "unwind" /\ \E w \in closed : state[w] \in {"starting", "evaluating"}

\* Once interrupted the run ends, even if no evaluation ever finishes; unless an
\* exception unwinds it, for then it waits as long as an evaluation takes.
InterruptAnswered ==
    <>interrupted => <>(pc = "exited") \/ <>[]AwaitsEvaluation
=============================================================================
