------------------------------- MODULE Worker -------------------------------
(***************************************************************************)
(* Evaluation workers (src/worker.cc) and the two pipes that join each of  *)
(* them to the coordinator (src/line_io.cc).                               *)
(*                                                                         *)
(* A slot is one place of the coordinator's pool; the process in it may be *)
(* replaced.  A worker writes a line's body and its newline in two writes, *)
(* so the pipe holds bodies and newlines as separate tokens, and a process *)
(* that dies in the middle of a body leaves a torn one.  What evaluating   *)
(* an attribute path gives is the environment's choice, made once: flake.  *)
(***************************************************************************)
EXTENDS Naturals, Sequences, FiniteSets, SequencesExt, FiniteSetsExt

CONSTANTS
    MaxWorkers,       \* the ceiling on the pool (maxWorkerCount)
    Name,             \* attribute names
    MaxAttrPathDepth, \* kMaxAttrPathDepth
    Lossy,            \* what dumpLossy makes of a name
    Flakes,           \* what evaluation may give, per attribute path
    Faults,           \* the faults the environment may inject
    CrashBudget,      \* ambient crashes allowed when "crash" is not in Faults
    None

Slot == 1..MaxWorkers

AttrPath == BoundedSeq(Name, MaxAttrPathDepth)

OutcomeKind == {"job", "children", "ignore", "throws", "kills", "oversized"}

Outcome == [kind: OutcomeKind, children: Seq(Name)]

Fault == {"crash",     \* a worker is killed at any time, any number of times
          "evaluator", \* building the Evaluator may throw
          "memory",    \* a worker may be over --max-memory after an answer
          "exception", \* an exception may leave a worker's request loop
          "fork",      \* fork or pipe may fail
          "poll",      \* poll may fail
          "stdout",    \* writing a result may fail
          "signal"}    \* SIGINT or SIGTERM may arrive

ASSUME WorkerAssumption ==
    /\ MaxWorkers \in Nat \ {0}
    /\ MaxAttrPathDepth \in Nat
    /\ Lossy \in [Name -> Name]
    /\ Flakes \subseteq [AttrPath -> Outcome]
    /\ Faults \subseteq Fault
    /\ CrashBudget \in Nat

VARIABLES
    flake,       \* the flake's outcomes; never changes during a run
    crashesLeft, \* what is left of CrashBudget
    state,       \* what the process in each slot is doing
    line,        \* the line it is writing
    task,        \* the attribute it is evaluating or answering
    toChild,     \* the requests in its input pipe
    fromChild,   \* the tokens in its output pipe
    closed       \* the slots whose pipes the coordinator has closed

child == <<state, line, task, toChild, fromChild>>
environment == <<flake, crashesLeft>>

State == {"none", "starting", "body", "newline", "waiting", "evaluating",
          "measuring", "exiting", "dead"}

Alive(w) == state[w] \notin {"none", "dead"}

-----------------------------------------------------------------------------
(* Messages *)

Ready == [t |-> "ready"]
Restart == [t |-> "restart"]
Fatal == [t |-> "fatal"]
Newline == [t |-> "newline"]
Torn == [t |-> "torn"]
Exit == [t |-> "exit"]
Do(path) == [t |-> "do", path |-> path]

Request == {Exit} \cup [t: {"do"}, path: AttrPath]

Answer ==
    [t: {"job", "ignore", "error", "oversized"}, path: AttrPath]
        \cup [t: {"children"}, path: AttrPath, children: Seq(Name)]

Line == {Ready, Restart, Fatal} \cup Answer
Token == Line \cup {Newline, Torn}

IsAnswer(token) == token.t \in {"job", "ignore", "error", "oversized", "children"}

\* A list of names as it arrives at the other end: dumpLossy replaces what is
\* not valid UTF-8.
Dumped(names) == [i \in DOMAIN names |-> Lossy[names[i]]]

\* The line that reports an outcome; one whose evaluation kills has none.
Response(path, outcome) ==
    CASE outcome.kind = "children" ->
             [t |-> "children", path |-> path, children |-> Dumped(outcome.children)]
      [] outcome.kind = "throws" -> [t |-> "error", path |-> path]
      [] OTHER -> [t |-> outcome.kind, path |-> path]

-----------------------------------------------------------------------------

WorkerInit ==
    /\ flake \in Flakes
    /\ crashesLeft = CrashBudget
    /\ state = [w \in Slot |-> "none"]
    /\ line = [w \in Slot |-> None]
    /\ task = [w \in Slot |-> None]
    /\ toChild = [w \in Slot |-> <<>>]
    /\ fromChild = [w \in Slot |-> <<>>]
    /\ closed = {}

\* A fresh process in slot w, with fresh pipes.
Forked(w) ==
    /\ state' = [state EXCEPT ![w] = "starting"]
    /\ line' = [line EXCEPT ![w] = None]
    /\ task' = [task EXCEPT ![w] = None]
    /\ toChild' = [toChild EXCEPT ![w] = <<>>]
    /\ fromChild' = [fromChild EXCEPT ![w] = <<>>]

\* Slot w left without a process.
Reaped(w) ==
    /\ state' = [state EXCEPT ![w] = "none"]
    /\ line' = [line EXCEPT ![w] = None]
    /\ task' = [task EXCEPT ![w] = None]
    /\ toChild' = [toChild EXCEPT ![w] = <<>>]
    /\ fromChild' = [fromChild EXCEPT ![w] = <<>>]

Say(w, message) ==
    /\ state' = [state EXCEPT ![w] = "body"]
    /\ line' = [line EXCEPT ![w] = message]

\* A process that is gone takes what it had not read with it; what it wrote
\* stays in the pipe.
Die(w) ==
    /\ state' = [state EXCEPT ![w] = "dead"]
    /\ line' = [line EXCEPT ![w] = None]
    /\ toChild' = [toChild EXCEPT ![w] = <<>>]

-----------------------------------------------------------------------------
(* runWorkerLoop *)

\* Loading the flake takes however long it takes, and may throw.
StartEvaluator(w) ==
    /\ state[w] = "starting"
    /\ \E message \in {Ready} \cup IF "evaluator" \in Faults THEN {Fatal} ELSE {} :
          Say(w, message)
    /\ UNCHANGED <<environment, task, toChild, fromChild, closed>>

\* What a worker turns to once its line is out.
AfterLine(message) ==
    CASE message = Ready -> "waiting"
      [] IsAnswer(message) -> "measuring"
      [] OTHER -> "exiting"

WriteBody(w) ==
    /\ state[w] = "body"
    /\ w \notin closed
    /\ fromChild' = [fromChild EXCEPT ![w] = Append(@, line[w])]
    /\ state' = [state EXCEPT ![w] = "newline"]
    /\ task' = [task EXCEPT ![w] = None]
    /\ UNCHANGED <<environment, line, toChild, closed>>

WriteNewline(w) ==
    /\ state[w] = "newline"
    /\ w \notin closed
    /\ fromChild' = [fromChild EXCEPT ![w] = Append(@, Newline)]
    /\ state' = [state EXCEPT ![w] = AfterLine(line[w])]
    /\ line' = [line EXCEPT ![w] = None]
    /\ UNCHANGED <<environment, task, toChild, closed>>

\* Nobody is left to read the line.
WriteFails(w) ==
    /\ state[w] \in {"body", "newline"}
    /\ w \in closed
    /\ Die(w)
    /\ UNCHANGED <<environment, task, fromChild, closed>>

\* The check after an answer; what a worker holds is not modelled, so it may
\* be over the ceiling after any answer.
MeasureMemory(w) ==
    /\ state[w] = "measuring"
    /\ \E message \in {Ready} \cup IF "memory" \in Faults THEN {Restart} ELSE {} :
          Say(w, message)
    /\ UNCHANGED <<environment, task, toChild, fromChild, closed>>

\* A request carries an attribute to evaluate.
ReadRequest(w) ==
    /\ state[w] = "waiting"
    /\ toChild[w] # <<>>
    /\ Head(toChild[w]) # Exit
    /\ state' = [state EXCEPT ![w] = "evaluating"]
    /\ task' = [task EXCEPT ![w] = Head(toChild[w]).path]
    /\ toChild' = [toChild EXCEPT ![w] = Tail(@)]
    /\ UNCHANGED <<environment, line, fromChild, closed>>

\* The coordinator asked for it, or has closed the pipe.
ReadExit(w) ==
    /\ state[w] = "waiting"
    /\ IF toChild[w] = <<>> THEN w \in closed ELSE Head(toChild[w]) = Exit
    /\ Die(w)
    /\ UNCHANGED <<environment, task, fromChild, closed>>

Evaluate(w) ==
    /\ state[w] = "evaluating"
    /\ flake[task[w]].kind # "kills"
    /\ Say(w, Response(task[w], flake[task[w]]))
    /\ UNCHANGED <<environment, task, toChild, fromChild, closed>>

EvaluationKills(w) ==
    /\ state[w] = "evaluating"
    /\ flake[task[w]].kind = "kills"
    /\ Die(w)
    /\ UNCHANGED <<environment, task, fromChild, closed>>

\* An exception that evalAttr's handler does not catch, while a request is
\* read, answered or followed by the measurement, becomes a fatal message
\* (runWorker).
LeaveLoop(w) ==
    /\ "exception" \in Faults
    /\ state[w] \in {"evaluating", "measuring"}
    /\ Say(w, Fatal)
    /\ UNCHANGED <<environment, task, toChild, fromChild, closed>>

\* After a fatal or a restart message the worker exits of its own accord.
ExitWorker(w) ==
    /\ state[w] = "exiting"
    /\ Die(w)
    /\ UNCHANGED <<environment, task, fromChild, closed>>

WorkerStep(w) ==
    \/ StartEvaluator(w) \/ WriteBody(w) \/ WriteNewline(w) \/ WriteFails(w)
    \/ MeasureMemory(w) \/ ReadRequest(w) \/ ReadExit(w) \/ Evaluate(w)
    \/ EvaluationKills(w) \/ LeaveLoop(w) \/ ExitWorker(w)

\* A worker killed from outside, by the kernel's OOM killer for instance: at
\* any point, and possibly with part of a body already in the pipe.
Crash(w) ==
    /\ Alive(w)
    /\ IF "crash" \in Faults
       THEN UNCHANGED crashesLeft
       ELSE crashesLeft > 0 /\ crashesLeft' = crashesLeft - 1
    /\ Die(w)
    /\ \/ UNCHANGED fromChild
       \/ /\ state[w] = "body"
          /\ w \notin closed
          /\ fromChild' = [fromChild EXCEPT ![w] = Append(@, Torn)]
    /\ UNCHANGED <<flake, task, closed>>

WorkerTypeOK ==
    /\ flake \in [AttrPath -> Outcome]
    /\ crashesLeft \in 0..CrashBudget
    /\ state \in [Slot -> State]
    /\ line \in [Slot -> Line \cup {None}]
    /\ task \in [Slot -> AttrPath \cup {None}]
    /\ toChild \in [Slot -> Seq(Request)]
    /\ fromChild \in [Slot -> Seq(Token)]
    /\ closed \subseteq Slot
=============================================================================
