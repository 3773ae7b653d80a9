-------------------------- MODULE DiscoveryProofs --------------------------
(***************************************************************************)
(* Proofs about Coordinator, for every flake, every number of workers,     *)
(* every fault and any number of crashes: its types, how the run ends, the *)
(* conversation between the coordinator and its workers, what becomes of   *)
(* the attributes; and, for a bounded number of crashes, who is blamed.    *)
(* Then about Discovery, which adds the edges and the store: what a        *)
(* consumer of stdout may rely on.                                         *)
(*                                                                         *)
(* A worker says one of Ready, Restart and Fatal unasked; once asked, it   *)
(* says the answer and then one of these, or Fatal in place of the answer. *)
(* The invariant of the conversation says how far along that course a slot *)
(* is: what of it is in the stream from the worker, not handled yet, and   *)
(* what the worker is about to do.                                         *)
(*                                                                         *)
(* Every step of the system either leaves the queue, the workers' jobs and *)
(* the verdicts alone or is one of four moves: an attribute is handed out, *)
(* settled by its answer, requeued, or blamed.  What is proved about the   *)
(* attributes is proved of the moves.                                      *)
(*                                                                         *)
(* A step of the run is one of the event loop, one of EdgeDiscovery or     *)
(* both, so that the invariants of both parts are invariants of the run.   *)
(* What the lines say is then told from what the two parts know.           *)
(***************************************************************************)
EXTENDS Discovery, SequenceTheorems, FiniteSetTheorems, TLAPS

-----------------------------------------------------------------------------
(* Attribute paths and messages *)

\* Attribute paths are the sequences of names up to the depth bound.
LEMMA AttrPaths ==
    \A path : path \in AttrPath <=> path \in Seq(Name) /\ Len(path) <= MaxAttrPathDepth
<1>1. AttrPath = UNION {[1..m -> Name] : m \in 0..MaxAttrPathDepth}
    BY DEF AttrPath, BoundedSeq, SeqOf
<1>2. ASSUME NEW path \in AttrPath
      PROVE  path \in Seq(Name) /\ Len(path) <= MaxAttrPathDepth
    <2>1. PICK m \in 0..MaxAttrPathDepth : path \in [1..m -> Name]
        BY <1>1
    <2>2. m \in Nat
        BY <2>1, WorkerAssumption
    <2>3. path \in Seq(Name)
        BY <2>1, <2>2, SeqDef
    <2> QED BY <2>1, <2>2, <2>3, WorkerAssumption
<1>3. ASSUME NEW path \in Seq(Name), Len(path) <= MaxAttrPathDepth
      PROVE  path \in AttrPath
    <2>1. Len(path) \in 0..MaxAttrPathDepth /\ path \in [1..Len(path) -> Name]
        BY <1>3, LenProperties, WorkerAssumption
    <2> QED BY <1>1, <2>1
<1> QED BY <1>2, <1>3

LEMMA RootIsAttrPath == <<>> \in AttrPath
<1>1. <<>> \in Seq(Name) /\ Len(<<>>) = 0 /\ 0 <= MaxAttrPathDepth
    BY WorkerAssumption
<1>2. Len(<<>>) <= MaxAttrPathDepth
    BY <1>1
<1> QED BY <1>1, <1>2, AttrPaths

\* A path above the depth bound has children within it.
LEMMA ChildIsAttrPath ==
    ASSUME NEW path \in AttrPath, ~TooDeep(path), NEW name \in Name
    PROVE  Append(path, name) \in AttrPath
<1>1. path \in Seq(Name) /\ Len(path) \in Nat /\ Len(path) < MaxAttrPathDepth
    <2>1. path \in Seq(Name)
        BY AttrPaths
    <2>2. Len(path) \in Nat
        BY <2>1, LenProperties
    <2>3. ~(Len(path) >= MaxAttrPathDepth)
        BY DEF TooDeep
    <2> QED BY <2>1, <2>2, <2>3, WorkerAssumption
<1>2. Append(path, name) \in Seq(Name) /\ Len(Append(path, name)) = Len(path) + 1
    BY <1>1, AppendProperties
<1>3. Len(Append(path, name)) <= MaxAttrPathDepth
    BY <1>1, <1>2, WorkerAssumption
<1> QED BY <1>2, <1>3, AttrPaths

LEMMA TokenFields ==
    ASSUME NEW token \in Token
    PROVE  /\ IsAnswer(token) => token.path \in AttrPath
           /\ token.t = "children" => token.children \in Seq(Name)
BY DEF Token, Line, Answer, Newline, Torn, Ready, Restart, Fatal, IsAnswer

LEMMA DumpedNames ==
    ASSUME NEW names \in Seq(Name)
    PROVE  Dumped(names) \in Seq(Name)
BY WorkerAssumption DEF Dumped

LEMMA ResponseIsLine ==
    ASSUME NEW path \in AttrPath, NEW outcome \in Outcome, outcome.kind # "kills"
    PROVE  Response(path, outcome) \in Line
<1>1. outcome.kind \in OutcomeKind /\ outcome.children \in Seq(Name)
    BY DEF Outcome
<1>2. CASE outcome.kind = "children"
    <2>1. Dumped(outcome.children) \in Seq(Name)
        BY <1>1, DumpedNames
    <2> QED BY <1>2, <2>1 DEF Response, Line, Answer
<1>3. CASE outcome.kind # "children"
    BY <1>1, <1>3 DEF Response, Line, Answer, OutcomeKind
<1> QED BY <1>2, <1>3

-----------------------------------------------------------------------------
(* Type correctness of the workers and the pipes *)

\* What a worker writes is a line, and what it evaluates is a path.
Occupied ==
    \A w \in Slot :
        /\ state[w] \in {"body", "newline"} => line[w] \in Line
        /\ state[w] = "evaluating" => task[w] \in AttrPath

WorkersTyped == WorkerTypeOK /\ Occupied

LEMMA ForkedTyped ==
    ASSUME WorkersTyped, NEW w \in Slot, Forked(w), UNCHANGED <<environment, closed>>
    PROVE  WorkersTyped'
BY DEF WorkersTyped, WorkerTypeOK, Occupied, Forked, environment, State

LEMMA ReapedTyped ==
    ASSUME WorkersTyped, NEW w \in Slot, Reaped(w), UNCHANGED environment,
           closed' \subseteq Slot
    PROVE  WorkersTyped'
BY DEF WorkersTyped, WorkerTypeOK, Occupied, Reaped, environment, State

LEMMA SayTyped ==
    ASSUME WorkersTyped, NEW w \in Slot, NEW message \in Line, Say(w, message),
           UNCHANGED <<environment, task, toChild, fromChild, closed>>
    PROVE  WorkersTyped'
BY DEF WorkersTyped, WorkerTypeOK, Occupied, Say, environment, State

LEMMA DieTyped ==
    ASSUME WorkersTyped, NEW w \in Slot, Die(w), UNCHANGED <<flake, task, closed>>,
           crashesLeft' \in 0..CrashBudget, fromChild' \in [Slot -> Seq(Token)]
    PROVE  WorkersTyped'
<1>1. WorkerTypeOK'
    <2>1. state' \in [Slot -> State]
        BY DEF WorkersTyped, WorkerTypeOK, Die, State
    <2>2. line' \in [Slot -> Line \cup {None}] /\ toChild' \in [Slot -> Seq(Request)]
        BY DEF WorkersTyped, WorkerTypeOK, Die
    <2> QED BY <2>1, <2>2 DEF WorkersTyped, WorkerTypeOK
<1>2. Occupied'
    <2>1. ASSUME NEW v \in Slot
          PROVE  /\ state'[v] \in {"body", "newline"} => line'[v] \in Line
                 /\ state'[v] = "evaluating" => task'[v] \in AttrPath
        <3>1. CASE v = w
            BY <3>1 DEF WorkersTyped, WorkerTypeOK, Die
        <3>2. CASE v # w
            BY <3>2 DEF WorkersTyped, WorkerTypeOK, Occupied, Die
        <3> QED BY <3>1, <3>2
    <2> QED BY <2>1 DEF Occupied
<1> QED BY <1>1, <1>2 DEF WorkersTyped

LEMMA WorkerStepTyped ==
    ASSUME WorkersTyped, NEW w \in Slot, WorkerStep(w)
    PROVE  WorkersTyped'
<1> USE DEF WorkersTyped
<1>1. CASE StartEvaluator(w)
    <2>1. {Ready} \cup (IF "evaluator" \in Faults THEN {Fatal} ELSE {}) \subseteq Line
        BY DEF Line
    <2> QED BY <1>1, <2>1, SayTyped DEF StartEvaluator
<1>2. CASE WriteBody(w)
    <2>1. line[w] \in Token
        BY <1>2 DEF WriteBody, Occupied, Token
    <2>2. fromChild' \in [Slot -> Seq(Token)]
        BY <1>2, <2>1 DEF WriteBody, WorkerTypeOK
    <2>3. WorkerTypeOK'
        BY <1>2, <2>2 DEF WriteBody, WorkerTypeOK, environment, State
    <2>4. Occupied'
        BY <1>2 DEF WriteBody, WorkerTypeOK, Occupied
    <2> QED BY <2>3, <2>4
<1>3. CASE WriteNewline(w)
    <2>1. fromChild' \in [Slot -> Seq(Token)]
        BY <1>3 DEF WriteNewline, WorkerTypeOK, Token
    <2>2. AfterLine(line[w]) \in {"waiting", "measuring", "exiting"}
        BY DEF AfterLine
    <2>3. WorkerTypeOK'
        BY <1>3, <2>1, <2>2 DEF WriteNewline, WorkerTypeOK, environment, State
    <2>4. Occupied'
        BY <1>3, <2>2 DEF WriteNewline, WorkerTypeOK, Occupied
    <2> QED BY <2>3, <2>4
<1>4. CASE WriteFails(w)
    BY <1>4, DieTyped DEF WriteFails, WorkerTypeOK, environment
<1>5. CASE MeasureMemory(w)
    <2>1. {Ready} \cup (IF "memory" \in Faults THEN {Restart} ELSE {}) \subseteq Line
        BY DEF Line
    <2> QED BY <1>5, <2>1, SayTyped DEF MeasureMemory
<1>6. CASE ReadRequest(w)
    <2>1. Head(toChild[w]) \in Request /\ Tail(toChild[w]) \in Seq(Request)
        BY <1>6, HeadTailProperties DEF ReadRequest, WorkerTypeOK
    <2>2. Head(toChild[w]).path \in AttrPath
        BY <1>6, <2>1 DEF ReadRequest, Request
    <2>3. WorkerTypeOK'
        BY <1>6, <2>1, <2>2 DEF ReadRequest, WorkerTypeOK, environment, State
    <2>4. Occupied'
        BY <1>6, <2>2 DEF ReadRequest, WorkerTypeOK, Occupied
    <2> QED BY <2>3, <2>4
<1>7. CASE ReadExit(w)
    BY <1>7, DieTyped DEF ReadExit, WorkerTypeOK, environment
<1>8. CASE Evaluate(w)
    <2>1. task[w] \in AttrPath /\ flake[task[w]] \in Outcome
        BY <1>8 DEF Evaluate, Occupied, WorkerTypeOK
    <2>2. Response(task[w], flake[task[w]]) \in Line
        BY <1>8, <2>1, ResponseIsLine DEF Evaluate
    <2> QED BY <1>8, <2>2, SayTyped DEF Evaluate
<1>9. CASE EvaluationKills(w)
    BY <1>9, DieTyped DEF EvaluationKills, WorkerTypeOK, environment
<1>10. CASE ExitWorker(w)
    BY <1>10, DieTyped DEF ExitWorker, WorkerTypeOK, environment
<1>11. CASE LeaveLoop(w)
    <2>1. Fatal \in Line
        BY DEF Line
    <2> QED BY <1>11, <2>1, SayTyped DEF LeaveLoop
<1> QED BY <1>1, <1>2, <1>3, <1>4, <1>5, <1>6, <1>7, <1>8, <1>9, <1>10, <1>11 DEF WorkerStep

LEMMA CrashTyped ==
    ASSUME WorkersTyped, NEW w \in Slot, Crash(w)
    PROVE  WorkersTyped'
<1>1. crashesLeft' \in 0..CrashBudget
    BY WorkerAssumption DEF Crash, WorkersTyped, WorkerTypeOK
<1>2. fromChild' \in [Slot -> Seq(Token)]
    <2>1. Torn \in Token
        BY DEF Token
    <2>2. fromChild \in [Slot -> Seq(Token)]
        BY DEF WorkersTyped, WorkerTypeOK
    <2>3. CASE UNCHANGED fromChild
        BY <2>2, <2>3
    <2>4. CASE fromChild' = [fromChild EXCEPT ![w] = Append(@, Torn)]
        BY <2>1, <2>2, <2>4
    <2> QED BY <2>3, <2>4 DEF Crash
<1> QED BY <1>1, <1>2, DieTyped DEF Crash

-----------------------------------------------------------------------------
(* Type correctness of the coordinator, in the parts that steps change
   together *)

QueueTyped ==
    /\ todo \in Seq(Pending)
    /\ active \in Nat
    /\ verdict \in [AttrPath -> Verdict]

PoolTyped ==
    /\ pool \in 0..MaxWorkers
    /\ idle \in [Slot -> BOOLEAN]
    /\ readySinceFork \in [Slot -> BOOLEAN]
    /\ startupFailures \in [Slot -> 0..(MaxStartupFailures - 1)]
    /\ currentJob \in [Slot -> Pending \cup {None}]
    /\ buffer \in [Slot -> Seq(Token)]

LoopTyped == pc \in PC /\ polled \subseteq Slot

RunTyped ==
    /\ evaluatedDerivations \in Nat
    /\ fatal \in BOOLEAN
    /\ interrupted \in BOOLEAN
    /\ exitCode \in {None, 0, 1}
    /\ done \in BOOLEAN

Typed == WorkersTyped /\ QueueTyped /\ PoolTyped /\ LoopTyped /\ RunTyped

LEMMA TypedIsTypeOK == Typed => TypeOK
BY DEF Typed, WorkersTyped, QueueTyped, PoolTyped, LoopTyped, RunTyped, TypeOK

LEMMA InitTyped == Init => Typed
<1> SUFFICES ASSUME Init PROVE Typed
    OBVIOUS
<1> USE DEF Init
<1>1. WorkersTyped
    BY WorkerAssumption DEF WorkerInit, WorkersTyped, WorkerTypeOK, Occupied, State
<1>2. QueueTyped
    <2>1. [path |-> <<>>, attempts |-> 0] \in Pending
        BY RootIsAttrPath DEF Pending
    <2> QED BY <2>1 DEF QueueTyped, Verdict
<1>3. PoolTyped
    BY WorkerAssumption, CoordinatorAssumption DEF PoolTyped
<1>4. LoopTyped /\ RunTyped
    BY DEF LoopTyped, RunTyped, PC
<1> QED BY <1>1, <1>2, <1>3, <1>4 DEF Typed

\* What stays typed because it does not change.
LEMMA UnchangedTyped ==
    /\ WorkersTyped /\ UNCHANGED <<child, environment, closed>> => WorkersTyped'
    /\ QueueTyped /\ UNCHANGED queue => QueueTyped'
    /\ PoolTyped /\ UNCHANGED pool_ => PoolTyped'
    /\ LoopTyped /\ UNCHANGED <<pc, polled>> => LoopTyped'
    /\ RunTyped /\ UNCHANGED <<run, interrupted>> => RunTyped'
<1>1. WorkersTyped /\ UNCHANGED <<child, environment, closed>> => WorkersTyped'
    BY DEF WorkersTyped, WorkerTypeOK, Occupied, child, environment
<1>2. QueueTyped /\ UNCHANGED queue => QueueTyped'
    BY DEF QueueTyped, queue
<1>3. PoolTyped /\ UNCHANGED pool_ => PoolTyped'
    BY DEF PoolTyped, pool_
<1>4. LoopTyped /\ UNCHANGED <<pc, polled>> => LoopTyped'
    BY DEF LoopTyped
<1>5. RunTyped /\ UNCHANGED <<run, interrupted>> => RunTyped'
    BY DEF RunTyped, run
<1> QED BY <1>1, <1>2, <1>3, <1>4, <1>5

LEMMA NewWorkerTyped ==
    ASSUME Typed, NEW w \in Slot, NEW failures \in 0..(MaxStartupFailures - 1),
           NewWorker(w, failures), UNCHANGED <<environment, closed>>,
           pool' \in 0..MaxWorkers
    PROVE  WorkersTyped' /\ PoolTyped'
<1>1. WorkersTyped'
    BY ForkedTyped DEF NewWorker, Typed
<1>2. PoolTyped'
    BY DEF NewWorker, Typed, PoolTyped, StartsIdle
<1> QED BY <1>1, <1>2

LEMMA ForkFailsTyped ==
    ASSUME Typed, NEW w \in Slot, ForkFails(w), UNCHANGED <<environment, closed, pool>>
    PROVE  WorkersTyped' /\ PoolTyped' /\ LoopTyped'
<1>1. WorkersTyped'
    BY ReapedTyped DEF ForkFails, Typed, WorkersTyped, WorkerTypeOK
<1>2. PoolTyped'
    BY DEF ForkFails, Typed, PoolTyped
<1>3. LoopTyped'
    BY DEF ForkFails, LoopTyped, PC
<1> QED BY <1>1, <1>2, <1>3

LEMMA LeaveSlotTyped ==
    ASSUME LoopTyped, NEW w \in Slot, LeaveSlot(w)
    PROVE  LoopTyped'
BY DEF LoopTyped, LeaveSlot, PC

LEMMA FinishLineTyped ==
    ASSUME LoopTyped, NEW w \in Slot, FinishLine(w)
    PROVE  LoopTyped'
<1>1. CASE UNCHANGED <<pc, polled>>
    BY <1>1, UnchangedTyped
<1>2. CASE LeaveSlot(w)
    BY <1>2, LeaveSlotTyped
<1> QED BY <1>1, <1>2 DEF FinishLine

\* A line that is there is a token, and taking it leaves tokens.
LEMMA LineTyped ==
    ASSUME PoolTyped, NEW w \in Slot, HasLine(w)
    PROVE  Message(w) \in Token /\ Rest(w) \in Seq(Token)
<1>1. buffer[w] \in Seq(Token)
    BY DEF PoolTyped
<1>2. buffer[w] # <<>>
    BY DEF HasLine, HasNewline
<1>3. Message(w) \in Token
    BY <1>1, <1>2, HeadTailProperties DEF Message
<1>4. Rest(w) \in Seq(Token)
    <2>1. Len(buffer[w]) \in Nat /\ \A i \in 3..Len(buffer[w]) : buffer[w][i] \in Token
        BY <1>1
    <2> QED BY <2>1, SubSeqProperties DEF Rest
<1> QED BY <1>3, <1>4

LEMMA TakesLineTyped ==
    ASSUME Typed, NEW w \in Slot, NEW kinds, TakesLine(w, kinds)
    PROVE  /\ Message(w) \in Token /\ Message(w).t \in kinds
           /\ buffer' \in [Slot -> Seq(Token)]
<1>1. Message(w) \in Token /\ Rest(w) \in Seq(Token)
    BY LineTyped DEF Typed, TakesLine
<1> QED BY <1>1 DEF TakesLine, Typed, PoolTyped

\* An answer that is taken concludes a path.
LEMMA AnswerTyped ==
    ASSUME Typed, NEW w \in Slot,
           NEW kinds \in SUBSET {"job", "ignore", "error", "children"},
           TakesLine(w, kinds), ReleaseJob(w), NEW v \in Verdict,
           Conclude(Message(w).path, v), AnswerFrame(w)
    PROVE  /\ WorkersTyped' /\ PoolTyped' /\ LoopTyped'
           /\ active' \in Nat /\ verdict' \in [AttrPath -> Verdict]
           /\ Message(w).path \in AttrPath
<1>1. /\ Message(w) \in Token /\ Message(w).t \in kinds
      /\ buffer' \in [Slot -> Seq(Token)]
    BY TakesLineTyped
<1>2. Message(w).path \in AttrPath
    BY <1>1, TokenFields DEF IsAnswer
<1>3. WorkersTyped'
    BY UnchangedTyped DEF AnswerFrame, Typed
<1>4. PoolTyped'
    BY <1>1 DEF AnswerFrame, ReleaseJob, Typed, PoolTyped
<1>5. LoopTyped'
    BY FinishLineTyped DEF AnswerFrame, Typed
<1>6. active' \in Nat
    BY DEF ReleaseJob, OneFewer, Typed, QueueTyped
<1>7. verdict' \in [AttrPath -> Verdict]
    BY <1>2 DEF Conclude, Typed, QueueTyped
<1> QED BY <1>2, <1>3, <1>4, <1>5, <1>6, <1>7

\* A job that comes back is queued again or concluded.
LEMMA GiveBackJobTyped ==
    ASSUME Typed, NEW w \in Slot, GiveBackJob(w)
    PROVE  QueueTyped'
<1>1. CASE currentJob[w] = None
    BY <1>1, UnchangedTyped DEF GiveBackJob, Typed
<1>2. CASE currentJob[w] # None
    <2> DEFINE job == currentJob[w]
               again == [job EXCEPT !.attempts = @ + 1]
    <2>1. job \in Pending /\ again \in Pending /\ job.path \in AttrPath
        <3>1. job \in Pending
            BY <1>2 DEF Typed, PoolTyped
        <3>2. job.path \in AttrPath /\ job.attempts \in Nat
            BY <3>1 DEF Pending
        <3>3. ASSUME NEW j \in Pending
              PROVE  [j EXCEPT !.attempts = @ + 1] \in Pending
            BY DEF Pending
        <3> QED BY <3>1, <3>2, <3>3
    <2>2. active' \in Nat
        BY <1>2 DEF GiveBackJob, OneFewer, Typed, QueueTyped
    <2>3. RequeueOrBlame(w)
        BY <1>2 DEF GiveBackJob
    <2>4. CASE ShouldRetry(job.attempts)
        <3>1. todo' = <<again>> \o todo /\ verdict' = verdict
            BY <2>3, <2>4 DEF RequeueOrBlame
        <3>2. todo' \in Seq(Pending)
            BY <2>1, <3>1, ConcatProperties DEF Typed, QueueTyped
        <3> QED BY <2>2, <3>1, <3>2 DEF Typed, QueueTyped
    <2>5. CASE ~ShouldRetry(job.attempts)
        <3>1. todo' = todo /\ verdict' = [verdict EXCEPT ![job.path] = "died"]
            BY <2>3, <2>5 DEF RequeueOrBlame, Conclude
        <3> QED BY <2>1, <2>2, <3>1 DEF Typed, QueueTyped, Verdict
    <2> QED BY <2>4, <2>5
<1> QED BY <1>1, <1>2

\* One step per action of the coordinator.
LEMMA SlotStepTyped ==
    ASSUME Typed, NEW w \in Slot, SlotStep(w)
    PROVE  Typed'
<1> USE DEF Typed
<1>1. CASE Dispatch(w)
    <2>1. todo \in Seq(Pending) /\ todo # <<>>
        BY <1>1 DEF Dispatch, Dispatchable, QueueTyped
    <2>2. Head(todo) \in Pending /\ Tail(todo) \in Seq(Pending)
        BY <2>1, HeadTailProperties
    <2>3. Do(Head(todo).path) \in Request
        BY <2>2 DEF Do, Request, Pending
    <2>4. toChild' \in [Slot -> Seq(Request)]
        BY <1>1, <2>3 DEF Dispatch, WorkersTyped, WorkerTypeOK
    <2>5. WorkersTyped'
        BY <1>1, <2>4 DEF Dispatch, WorkersTyped, WorkerTypeOK, Occupied, environment
    <2>6. QueueTyped'
        BY <1>1, <2>2 DEF Dispatch, QueueTyped
    <2>7. PoolTyped'
        BY <1>1, <2>2 DEF Dispatch, PoolTyped
    <2>8. LoopTyped' /\ RunTyped'
        BY <1>1 DEF Dispatch, LoopTyped, RunTyped, run
    <2> QED BY <2>5, <2>6, <2>7, <2>8
<1>2. CASE FillBuffer(w)
    <2>1. fromChild[w] \in Seq(Token) /\ buffer[w] \in Seq(Token)
        BY DEF WorkersTyped, WorkerTypeOK, PoolTyped
    <2>2. PICK n \in 1..Len(fromChild[w]) :
              /\ buffer' = [buffer EXCEPT ![w] = @ \o SubSeq(fromChild[w], 1, n)]
              /\ fromChild' = [fromChild EXCEPT ![w] = SubSeq(@, n + 1, Len(@))]
        BY <1>2 DEF FillBuffer
    <2>3. /\ SubSeq(fromChild[w], 1, n) \in Seq(Token)
          /\ SubSeq(fromChild[w], n + 1, Len(fromChild[w])) \in Seq(Token)
        BY <2>1, <2>2, SubSeqProperties
    <2>4. buffer[w] \o SubSeq(fromChild[w], 1, n) \in Seq(Token)
        BY <2>1, <2>3, ConcatProperties
    <2>5. buffer' \in [Slot -> Seq(Token)] /\ fromChild' \in [Slot -> Seq(Token)]
        BY <2>2, <2>3, <2>4 DEF WorkersTyped, WorkerTypeOK, PoolTyped
    <2>6. WorkersTyped'
        BY <1>2, <2>5 DEF FillBuffer, WorkersTyped, WorkerTypeOK, Occupied, environment
    <2>7. PoolTyped'
        BY <1>2, <2>5 DEF FillBuffer, PoolTyped
    <2>8. QueueTyped' /\ LoopTyped' /\ RunTyped'
        BY <1>2, UnchangedTyped DEF FillBuffer
    <2> QED BY <2>6, <2>7, <2>8
<1>3. CASE HandleReady(w)
    <2>1. buffer' \in [Slot -> Seq(Token)]
        BY <1>3, TakesLineTyped DEF HandleReady
    <2>2. PoolTyped'
        BY <1>3, <2>1 DEF HandleReady, PoolTyped
    <2>3. WorkersTyped' /\ QueueTyped' /\ RunTyped'
        BY <1>3, UnchangedTyped DEF HandleReady
    <2>4. LoopTyped'
        BY <1>3, FinishLineTyped DEF HandleReady
    <2> QED BY <2>2, <2>3, <2>4
<1>4. CASE HandleRestart(w)
    <2>1. QueueTyped' /\ RunTyped'
        BY <1>4, UnchangedTyped DEF HandleRestart
    <2>2. CASE NewWorker(w, 0) /\ LeaveSlot(w)
        <3>1. WorkersTyped' /\ PoolTyped'
            BY <1>4, <2>2, NewWorkerTyped, CoordinatorAssumption DEF HandleRestart, PoolTyped
        <3> QED BY <2>1, <2>2, <3>1, LeaveSlotTyped
    <2>3. CASE ForkFails(w)
        BY <1>4, <2>1, <2>3, ForkFailsTyped DEF HandleRestart
    <2> QED BY <1>4, <2>2, <2>3 DEF HandleRestart
<1>5. CASE HandleFatal(w)
    <2>1. buffer' \in [Slot -> Seq(Token)]
        BY <1>5, TakesLineTyped DEF HandleFatal
    <2>2. PoolTyped' /\ RunTyped'
        BY <1>5, <2>1 DEF HandleFatal, PoolTyped, RunTyped
    <2>3. WorkersTyped' /\ QueueTyped'
        BY <1>5, UnchangedTyped DEF HandleFatal
    <2>4. LoopTyped'
        BY <1>5, FinishLineTyped DEF HandleFatal
    <2> QED BY <2>2, <2>3, <2>4
<1>6. CASE HandleJob(w)
    <2>1. "job" \in Verdict
        BY DEF Verdict
    <2>2. /\ WorkersTyped' /\ PoolTyped' /\ LoopTyped'
          /\ active' \in Nat /\ verdict' \in [AttrPath -> Verdict]
        BY <1>6, <2>1, AnswerTyped DEF HandleJob
    <2>3. QueueTyped' /\ RunTyped'
        BY <1>6, <2>2 DEF HandleJob, AnswerFrame, QueueTyped, RunTyped
    <2> QED BY <2>2, <2>3
<1>7. CASE HandleError(w)
    <2>1. "error" \in Verdict
        BY DEF Verdict
    <2>2. /\ WorkersTyped' /\ PoolTyped' /\ LoopTyped'
          /\ active' \in Nat /\ verdict' \in [AttrPath -> Verdict]
        BY <1>7, <2>1, AnswerTyped DEF HandleError
    <2>3. QueueTyped' /\ RunTyped'
        BY <1>7, <2>2 DEF HandleError, AnswerFrame, QueueTyped, RunTyped
    <2> QED BY <2>2, <2>3
<1>8. CASE HandleIgnore(w)
    <2>1. "ignored" \in Verdict
        BY DEF Verdict
    <2>2. /\ WorkersTyped' /\ PoolTyped' /\ LoopTyped'
          /\ active' \in Nat /\ verdict' \in [AttrPath -> Verdict]
        BY <1>8, <2>1, AnswerTyped DEF HandleIgnore
    <2>3. QueueTyped' /\ RunTyped'
        BY <1>8, <2>2 DEF HandleIgnore, AnswerFrame, QueueTyped, RunTyped
    <2> QED BY <2>2, <2>3
<1>9. CASE HandleChildren(w)
    <2> DEFINE path == Message(w).path
               names == Message(w).children
    <2>1. "expanded" \in Verdict
        BY DEF Verdict
    <2>2. /\ WorkersTyped' /\ PoolTyped' /\ LoopTyped'
          /\ active' \in Nat /\ verdict' \in [AttrPath -> Verdict]
          /\ path \in AttrPath
        BY <1>9, <2>1, AnswerTyped DEF HandleChildren
    <2>3. names \in Seq(Name)
        BY <1>9, TakesLineTyped, TokenFields DEF HandleChildren
    <2>4. ASSUME NEW i \in DOMAIN names
          PROVE  [path |-> Append(path, names[i]), attempts |-> 0] \in Pending
        <3>1. names[i] \in Name
            BY <2>3, <2>4
        <3>2. Append(path, names[i]) \in AttrPath
            BY <1>9, <2>2, <3>1, ChildIsAttrPath DEF HandleChildren
        <3> QED BY <3>2 DEF Pending
    <2>5. Children(path, names) \in Seq(Pending)
        BY <2>3, <2>4 DEF Children
    <2>6. todo' \in Seq(Pending)
        BY <1>9, <2>5, ConcatProperties DEF HandleChildren, QueueTyped
    <2>7. QueueTyped' /\ RunTyped'
        BY <1>9, <2>2, <2>6 DEF HandleChildren, AnswerFrame, QueueTyped, RunTyped
    <2> QED BY <2>2, <2>7
<1>10. CASE HandleTooDeep(w)
    <2>1. "too deep" \in Verdict
        BY DEF Verdict
    <2>2. /\ WorkersTyped' /\ PoolTyped' /\ LoopTyped'
          /\ active' \in Nat /\ verdict' \in [AttrPath -> Verdict]
        BY <1>10, <2>1, AnswerTyped DEF HandleTooDeep
    <2>3. QueueTyped' /\ RunTyped'
        BY <1>10, <2>2 DEF HandleTooDeep, AnswerFrame, QueueTyped, RunTyped
    <2> QED BY <2>2, <2>3
<1>11. CASE GiveUp(w)
    <2>1. QueueTyped'
        BY <1>11, GiveBackJobTyped DEF GiveUp
    <2>2. WorkersTyped'
        BY <1>11, UnchangedTyped DEF GiveUp
    <2>3. PoolTyped' /\ RunTyped'
        BY <1>11 DEF GiveUp, PoolTyped, RunTyped
    <2>4. LoopTyped'
        BY <1>11, LeaveSlotTyped DEF GiveUp
    <2> QED BY <2>1, <2>2, <2>3, <2>4
<1>12. CASE ReplaceWorker(w)
    <2>1. QueueTyped'
        BY <1>12, GiveBackJobTyped DEF ReplaceWorker
    <2>2. RunTyped'
        BY <1>12, UnchangedTyped DEF ReplaceWorker
    <2>3. CASE NewWorker(w, Failures(w)) /\ LeaveSlot(w)
        <3>1. Failures(w) \in 0..(MaxStartupFailures - 1)
            BY <1>12, CoordinatorAssumption
               DEF ReplaceWorker, CrashLoops, Failures, PoolTyped
        <3>2. WorkersTyped' /\ PoolTyped'
            BY <1>12, <2>3, <3>1, NewWorkerTyped DEF ReplaceWorker, PoolTyped
        <3> QED BY <2>1, <2>2, <2>3, <3>2, LeaveSlotTyped
    <2>4. CASE ForkFails(w)
        BY <1>12, <2>1, <2>2, <2>4, ForkFailsTyped DEF ReplaceWorker
    <2> QED BY <1>12, <2>3, <2>4 DEF ReplaceWorker
<1>13. CASE ClosePipes(w)
    <2>1. WorkersTyped'
        BY <1>13 DEF ClosePipes, WorkersTyped, WorkerTypeOK, Occupied, child, environment
    <2>2. QueueTyped' /\ PoolTyped' /\ LoopTyped' /\ RunTyped'
        BY <1>13, UnchangedTyped DEF ClosePipes
    <2> QED BY <2>1, <2>2
<1>14. CASE WaitForChild(w)
    <2>1. WorkersTyped'
        BY <1>14, ReapedTyped DEF WaitForChild, WorkersTyped, WorkerTypeOK
    <2>2. QueueTyped' /\ PoolTyped' /\ LoopTyped' /\ RunTyped'
        BY <1>14, UnchangedTyped DEF WaitForChild
    <2> QED BY <2>1, <2>2
<1> QED BY <1>1, <1>2, <1>3, <1>4, <1>5, <1>6, <1>7, <1>8, <1>9, <1>10, <1>11,
           <1>12, <1>13, <1>14 DEF SlotStep

\* At the end of the run every process is gone at once.
LEMMA AllReapedTyped ==
    ASSUME WorkersTyped, UNCHANGED <<environment, closed>>,
           state' = [w \in Slot |-> "none"],
           line' = [w \in Slot |-> None],
           task' = [w \in Slot |-> None],
           toChild' = [w \in Slot |-> <<>>],
           fromChild' = [w \in Slot |-> <<>>]
    PROVE  WorkersTyped'
BY DEF WorkersTyped, WorkerTypeOK, Occupied, State, environment

LEMMA LoopStepTyped ==
    ASSUME Typed, LoopStep \/ EmitFails
    PROVE  Typed'
<1> USE DEF Typed
<1>1. CASE StopIfInterrupted
    <2>1. WorkersTyped' /\ QueueTyped' /\ PoolTyped'
        BY <1>1, UnchangedTyped DEF StopIfInterrupted
    <2>2. LoopTyped' /\ RunTyped'
        BY <1>1 DEF StopIfInterrupted, LoopTyped, RunTyped, PC
    <2> QED BY <2>1, <2>2
<1>2. CASE GrowPool
    <2>1. pool + 1 \in Slot /\ pool + 1 \in 0..MaxWorkers
        BY <1>2, WorkerAssumption DEF GrowPool, MaySpawn, PoolTyped, Slot
    <2>2. QueueTyped' /\ RunTyped'
        BY <1>2, UnchangedTyped DEF GrowPool
    <2>3. CASE NewWorker(pool + 1, 0) /\ pool' = pool + 1 /\ pc' = "dispatch" /\ UNCHANGED polled
        <3>1. WorkersTyped' /\ PoolTyped'
            BY <1>2, <2>1, <2>3, NewWorkerTyped, CoordinatorAssumption DEF GrowPool
        <3>2. LoopTyped'
            BY <2>3 DEF LoopTyped, PC
        <3> QED BY <2>2, <3>1, <3>2
    <2>4. CASE ForkFails(pool + 1) /\ UNCHANGED pool
        BY <1>2, <2>1, <2>2, <2>4, ForkFailsTyped DEF GrowPool
    <2> QED BY <1>2, <2>3, <2>4 DEF GrowPool
<1>3. CASE KeepPool \/ EndDispatch \/ Poll \/ PollFails
    <2>1. WorkersTyped' /\ QueueTyped' /\ PoolTyped' /\ RunTyped'
        BY <1>3, UnchangedTyped DEF KeepPool, EndDispatch, Poll, PollFails
    <2>2. LoopTyped'
        <3>1. CASE Poll
            <4>1. Pool \subseteq Slot
                BY WorkerAssumption DEF Pool, Slot, PoolTyped
            <4>2. polled' \subseteq Slot /\ pc' \in {"top", "service"}
                BY <3>1, <4>1 DEF Poll
            <4> QED BY <4>2 DEF LoopTyped, PC
        <3>2. CASE KeepPool \/ EndDispatch \/ PollFails
            BY <3>2 DEF KeepPool, EndDispatch, PollFails, LoopTyped, PC
        <3> QED BY <1>3, <3>1, <3>2
    <2> QED BY <2>1, <2>2
<1>4. CASE AskToExit
    <2>1. Exit \in Request
        BY DEF Request
    <2>2. toChild' \in [Slot -> Seq(Request)]
        BY <1>4, <2>1 DEF AskToExit, WorkersTyped, WorkerTypeOK
    <2>3. WorkersTyped'
        BY <1>4, <2>2 DEF AskToExit, WorkersTyped, WorkerTypeOK, Occupied, environment
    <2>4. QueueTyped' /\ PoolTyped' /\ RunTyped'
        BY <1>4, UnchangedTyped DEF AskToExit
    <2>5. LoopTyped'
        BY <1>4 DEF AskToExit, LoopTyped, PC
    <2> QED BY <2>3, <2>4, <2>5
<1>5. CASE KillWorkers
    <2>1. WorkersTyped'
        BY <1>5, AllReapedTyped DEF KillWorkers
    <2>2. QueueTyped' /\ PoolTyped' /\ RunTyped'
        BY <1>5, UnchangedTyped DEF KillWorkers
    <2>3. LoopTyped'
        BY <1>5 DEF KillWorkers, LoopTyped, PC
    <2> QED BY <2>1, <2>2, <2>3
<1>6. CASE FinishFatal \/ FinishDone \/ ExitOnException
    <2>1. WorkersTyped' /\ QueueTyped' /\ PoolTyped'
        BY <1>6, UnchangedTyped DEF FinishFatal, FinishDone, ExitOnException
    <2>2. LoopTyped' /\ RunTyped'
        BY <1>6 DEF FinishFatal, FinishDone, ExitOnException, ExitWith, LoopTyped,
                    RunTyped, PC
    <2> QED BY <2>1, <2>2
<1>7. CASE EmitFails
    <2>1. WorkersTyped'
        BY <1>7, AllReapedTyped DEF EmitFails
    <2>2. QueueTyped' /\ PoolTyped'
        BY <1>7, UnchangedTyped DEF EmitFails
    <2>3. LoopTyped' /\ RunTyped'
        BY <1>7 DEF EmitFails, ExitWith, LoopTyped, RunTyped, PC
    <2> QED BY <2>1, <2>2, <2>3
<1> QED BY <1>1, <1>2, <1>3, <1>4, <1>5, <1>6, <1>7 DEF LoopStep

LEMMA StepTyped == Typed /\ [Next]_vars => Typed'
<1> SUFFICES ASSUME Typed, [Next]_vars PROVE Typed'
    OBVIOUS
<1>1. CASE CoordinatorStep
    BY <1>1, LoopStepTyped, SlotStepTyped DEF CoordinatorStep
<1>2. CASE \E w \in Slot : ChildStep(w) \/ ChildCrash(w)
    <2>1. WorkersTyped'
        BY <1>2, WorkerStepTyped, CrashTyped DEF ChildStep, ChildCrash, Typed
    <2>2. QueueTyped' /\ PoolTyped' /\ LoopTyped' /\ RunTyped'
        BY <1>2, UnchangedTyped DEF ChildStep, ChildCrash, Typed
    <2> QED BY <2>1, <2>2 DEF Typed
<1>3. CASE Interrupt
    <2>1. WorkersTyped' /\ QueueTyped' /\ PoolTyped' /\ LoopTyped'
        BY <1>3, UnchangedTyped DEF Interrupt, Typed
    <2>2. RunTyped'
        BY <1>3 DEF Interrupt, Typed, RunTyped, run
    <2> QED BY <2>1, <2>2 DEF Typed
<1>4. CASE UNCHANGED vars
    BY <1>4, UnchangedTyped DEF Typed, vars
<1> QED BY <1>1, <1>2, <1>3, <1>4 DEF Next, Exited

\* The coordinator's and the workers' state stay within their types whatever
\* crashes, is interrupted or fails: no attribute path grows past the depth
\* bound, the pool never past its ceiling, and no slot's count of startup
\* failures (Worker::startupFailures) reaches the number that aborts the run.
THEOREM CoordinatorTypeCorrect == Spec => []TypeOK
BY InitTyped, StepTyped, TypedIsTypeOK, PTL DEF Spec

-----------------------------------------------------------------------------
(* No worker is left behind *)

\* From the killing of the workers on there are none.
AllGone == pc \in {"finish", "exited"} => \A w \in Slot : state[w] = "none"

\* What a worker does it does in a process.
LEMMA GoneStaysGone ==
    ASSUME NEW w \in Slot, WorkerStep(w) \/ Crash(w)
    PROVE  state[w] # "none"
BY DEF WorkerStep, Crash, Alive, StartEvaluator, WriteBody, WriteNewline, WriteFails,
       MeasureMemory, ReadRequest, ReadExit, Evaluate, EvaluationKills, LeaveLoop, ExitWorker

LEMMA SlotStepGoesOn ==
    ASSUME NEW w \in Slot, SlotStep(w)
    PROVE  pc' \notin {"finish", "exited"}
<1>1. CASE pc' = pc
    BY <1>1 DEF SlotStep, Dispatch, FillBuffer, HandleReady, HandleRestart, HandleFatal,
                HandleJob, HandleError, HandleIgnore, HandleChildren, HandleTooDeep,
                TakesLine, GiveUp, ReplaceWorker, SeesDeath, Serving, ClosePipes,
                WaitForChild
<1>2. CASE pc' # pc
    BY <1>2 DEF SlotStep, Dispatch, FillBuffer, HandleReady, HandleRestart, HandleFatal,
                HandleJob, HandleError, HandleIgnore, HandleChildren, HandleTooDeep,
                AnswerFrame, GiveUp, ReplaceWorker, ClosePipes, WaitForChild,
                FinishLine, LeaveSlot, ForkFails
<1> QED BY <1>1, <1>2

LEMMA StepLeavesNone == AllGone /\ [Next]_vars => AllGone'
<1> SUFFICES ASSUME AllGone, [Next]_vars, pc' \in {"finish", "exited"}, NEW w \in Slot
             PROVE  state'[w] = "none"
    BY DEF AllGone
<1>1. CASE LoopStep \/ EmitFails
    BY <1>1 DEF LoopStep, AllGone, StopIfInterrupted, GrowPool, ForkFails, KeepPool,
                EndDispatch, Poll, PollFails, AskToExit, KillWorkers, FinishFatal, FinishDone,
                ExitOnException, Unreaped, ExitWith, EmitFails, child
<1>2. CASE \E v \in Slot : SlotStep(v)
    BY <1>2, SlotStepGoesOn
<1>3. CASE \E v \in Slot : ChildStep(v) \/ ChildCrash(v)
    BY <1>3, GoneStaysGone DEF ChildStep, ChildCrash, AllGone
<1>4. CASE Interrupt \/ UNCHANGED vars
    BY <1>4 DEF Interrupt, AllGone, vars, child
<1> QED BY <1>1, <1>2, <1>3, <1>4 DEF Next, CoordinatorStep, Exited

\* However the coordinator exits (done, a fatal worker, a crash loop, a signal,
\* an exception on its way through the workers' destructors, a result that
\* cannot be written), no worker process outlives it.
THEOREM NoWorkerOutlives == Spec => []NoOrphans
<1>1. Init => AllGone
    BY DEF Init, AllGone
<1>2. AllGone => NoOrphans
    BY DEF AllGone, NoOrphans
<1> QED BY <1>1, <1>2, StepLeavesNone, PTL DEF Spec

-----------------------------------------------------------------------------
(* No line that has been read is waited for *)

\* Only slots that are still to be serviced have lines in their buffers, and
\* a run that is to be aborted does not go back to the top.
LinesInService ==
    /\ pc \in {"top", "dispatch", "poll", "service"} /\ ~fatal =>
           \A w \in Slot : HasNewline(buffer[w]) => pc = "service" /\ w \in polled
    /\ pc \in {"top", "dispatch", "poll"} => ~fatal

LEMMA NoNewlineInNothing == ~HasNewline(<<>>)
BY DEF HasNewline

\* A slot that is left has no line in its buffer, unless the run is aborted.
LEMMA LeavingKeepsLines ==
    ASSUME LinesInService, NEW w \in Slot, Serving(w), LeaveSlot(w),
           \A v \in Slot \ {w} : buffer'[v] = buffer[v],
           fatal => fatal',
           fatal' \/ ~HasNewline(buffer'[w])
    PROVE  LinesInService'
BY DEF LinesInService, LeaveSlot, Serving, HasNewline

LEMMA FinishingKeepsLines ==
    ASSUME LinesInService, NEW w \in Slot, Serving(w), FinishLine(w),
           \A v \in Slot \ {w} : buffer'[v] = buffer[v],
           fatal => fatal'
    PROVE  LinesInService'
<1>1. CASE StaysWith(w)
    BY <1>1 DEF FinishLine, StaysWith, LinesInService, Serving, HasNewline
<1>2. CASE ~StaysWith(w)
    BY <1>2, LeavingKeepsLines DEF FinishLine, StaysWith
<1> QED BY <1>1, <1>2

LEMMA SlotStepKeepsLines ==
    ASSUME Typed, LinesInService, NEW w \in Slot, SlotStep(w)
    PROVE  LinesInService'
<1>1. buffer \in [Slot -> Seq(Token)]
    BY DEF Typed, PoolTyped
<1>2. CASE Dispatch(w) \/ ClosePipes(w) \/ WaitForChild(w)
    BY <1>2 DEF Dispatch, ClosePipes, WaitForChild, pool_, run, LinesInService, HasNewline
<1>3. CASE FillBuffer(w)
    <2>1. \A v \in Slot \ {w} : buffer'[v] = buffer[v]
        BY <1>1, <1>3 DEF FillBuffer
    <2> QED BY <1>3, <2>1 DEF FillBuffer, Serving, run, LinesInService, HasNewline
<1>4. CASE HandleReady(w) \/ HandleFatal(w)
    <2>1. \A v \in Slot \ {w} : buffer'[v] = buffer[v]
        BY <1>1, <1>4 DEF HandleReady, HandleFatal, TakesLine
    <2>2. Serving(w) /\ FinishLine(w) /\ (fatal => fatal')
        BY <1>4 DEF HandleReady, HandleFatal, TakesLine, run
    <2> QED BY <2>1, <2>2, FinishingKeepsLines
<1>5. CASE HandleJob(w) \/ HandleError(w) \/ HandleIgnore(w) \/ HandleChildren(w)
               \/ HandleTooDeep(w)
    <2>1. \E kinds : TakesLine(w, kinds)
        BY <1>5 DEF HandleJob, HandleError, HandleIgnore, HandleChildren, HandleTooDeep
    <2>2. AnswerFrame(w)
        BY <1>5 DEF HandleJob, HandleError, HandleIgnore, HandleChildren, HandleTooDeep
    <2>3. Serving(w) /\ \A v \in Slot \ {w} : buffer'[v] = buffer[v]
        BY <1>1, <2>1 DEF TakesLine
    <2> QED BY <2>2, <2>3, FinishingKeepsLines DEF AnswerFrame
<1>6. CASE GiveUp(w)
    <2>1. Serving(w) /\ \A v \in Slot \ {w} : buffer'[v] = buffer[v]
        BY <1>1, <1>6 DEF GiveUp, SeesDeath
    <2> QED BY <1>6, <2>1, LeavingKeepsLines DEF GiveUp
<1>7. CASE HandleRestart(w) \/ ReplaceWorker(w)
    <2>1. Serving(w) /\ fatal' = fatal
        BY <1>7 DEF HandleRestart, ReplaceWorker, SeesDeath, run
    <2>2. \A v \in Slot \ {w} : buffer'[v] = buffer[v]
        BY <1>1, <1>7 DEF HandleRestart, ReplaceWorker, NewWorker, ForkFails
    <2>3. buffer'[w] = <<>>
        BY <1>1, <1>7 DEF HandleRestart, ReplaceWorker, NewWorker, ForkFails
    <2>4. CASE LeaveSlot(w)
        BY <2>1, <2>2, <2>3, <2>4, LeavingKeepsLines, NoNewlineInNothing
    <2>5. CASE ForkFails(w)
        BY <2>5 DEF ForkFails, LinesInService
    <2> QED BY <1>7, <2>4, <2>5 DEF HandleRestart, ReplaceWorker
<1> QED BY <1>2, <1>3, <1>4, <1>5, <1>6, <1>7 DEF SlotStep

LEMMA LoopStepKeepsLines ==
    ASSUME Typed, LinesInService, LoopStep \/ EmitFails
    PROVE  LinesInService'
<1>1. CASE GrowPool
    <2>1. CASE pc' = "unwind"
        BY <2>1 DEF LinesInService
    <2>2. CASE pc' # "unwind"
        <3>1. NewWorker(pool + 1, 0) /\ pc' = "dispatch" /\ pc = "top" /\ fatal' = fatal
            BY <1>1, <2>2 DEF GrowPool, ForkFails, run
        <3>2. \A v \in Slot : ~HasNewline(buffer[v])
            BY <3>1 DEF LinesInService
        <3>3. \A v \in Slot : buffer'[v] = buffer[v] \/ buffer'[v] = <<>>
            BY <3>1 DEF NewWorker, Typed, PoolTyped
        <3>4. \A v \in Slot : ~HasNewline(buffer'[v])
            BY <3>2, <3>3, NoNewlineInNothing
        <3> QED BY <3>1, <3>4 DEF LinesInService, HasNewline
    <2> QED BY <2>1, <2>2
<1>2. CASE KeepPool \/ EndDispatch
    BY <1>2 DEF KeepPool, EndDispatch, pool_, run, LinesInService, HasNewline
<1>3. CASE Poll \/ PollFails
    BY <1>3 DEF Poll, PollFails, pool_, run, LinesInService, HasNewline
<1>4. CASE StopIfInterrupted \/ AskToExit \/ KillWorkers
    BY <1>4 DEF StopIfInterrupted, AskToExit, KillWorkers, LinesInService
<1>5. CASE FinishFatal \/ FinishDone \/ ExitOnException \/ EmitFails
    BY <1>5 DEF FinishFatal, FinishDone, ExitOnException, EmitFails, ExitWith, LinesInService
<1> QED BY <1>1, <1>2, <1>3, <1>4, <1>5 DEF LoopStep

LEMMA StepKeepsLines == Typed /\ LinesInService /\ [Next]_vars => LinesInService'
<1> SUFFICES ASSUME Typed, LinesInService, [Next]_vars PROVE LinesInService'
    OBVIOUS
<1>1. CASE CoordinatorStep
    BY <1>1, LoopStepKeepsLines, SlotStepKeepsLines DEF CoordinatorStep
<1>2. CASE (\E w \in Slot : ChildStep(w) \/ ChildCrash(w)) \/ Interrupt \/ UNCHANGED vars
    BY <1>2 DEF ChildStep, ChildCrash, Interrupt, vars, pool_, run, LinesInService,
                HasNewline
<1> QED BY <1>1, <1>2 DEF Next, Exited

\* The coordinator never waits in poll while a complete line from a worker is
\* already in that worker's buffer (LineReader::hasBufferedLine), however the
\* worker's writes were split across reads.
THEOREM NoLineStranded == Spec => []NoStrandedLine
<1>1. Init => Typed /\ LinesInService
    BY InitTyped, NoNewlineInNothing DEF Init, LinesInService
<1>2. LinesInService => NoStrandedLine
    BY DEF LinesInService, NoStrandedLine
<1> QED BY <1>1, <1>2, StepTyped, StepKeepsLines, PTL DEF Spec

-----------------------------------------------------------------------------
(* The conversation of the coordinator and its workers *)

\* The coordinator is in its loop, which it never comes back to.
InLoop == pc \in {"top", "dispatch", "poll", "service"}

Holds(w) == currentJob[w] # None

\* The answer to what the worker was asked.
Reply(w) == Response(currentJob[w].path, flake[currentJob[w].path])

Count(w) == Len(StreamOf(w))

Unasked == {Ready, Restart, Fatal}
Parting == {Ready, Restart}

\* What is in the stream: at most a line that answers nothing, or the answer the
\* worker is held to and the line after that; a torn one is the last.
Said(w) ==
    /\ Count(w) \in 0..4
    /\ Count(w) >= 1 =>
          \/ StreamOf(w)[1] = Torn /\ Count(w) = 1 /\ ~Alive(w)
          \/ /\ StreamOf(w)[1] \in Unasked /\ Count(w) <= 2
             /\ Holds(w) => StreamOf(w)[1] = Fatal
          \/ StreamOf(w)[1] = Reply(w) /\ IsAnswer(StreamOf(w)[1]) /\ Holds(w)
    /\ Count(w) >= 2 => StreamOf(w)[2] = Newline
    /\ Count(w) >= 3 =>
          \/ StreamOf(w)[3] = Torn /\ Count(w) = 3 /\ ~Alive(w)
          \/ StreamOf(w)[3] \in Unasked
    /\ Count(w) >= 4 => StreamOf(w)[4] = Newline

\* What the worker is doing goes with what it has said.
Doing(w) ==
    /\ state[w] = "starting" => ~Holds(w) /\ Count(w) = 0
    /\ state[w] = "body" =>
          \/ Holds(w) /\ Count(w) = 0 /\ line[w] = Reply(w) /\ IsAnswer(line[w])
          \/ Count(w) = 0 /\ line[w] \in Unasked /\ (Holds(w) => line[w] = Fatal)
          \/ Holds(w) /\ Count(w) = 2 /\ line[w] \in Unasked /\ IsAnswer(StreamOf(w)[1])
    /\ state[w] = "newline" =>
          \/ Count(w) = 1 /\ line[w] = StreamOf(w)[1]
          \/ Holds(w) /\ Count(w) = 3 /\ line[w] = StreamOf(w)[3]
    /\ state[w] = "waiting" =>
          \/ ~Holds(w) /\ Count(w) = 0
          \/ ~Holds(w) /\ Count(w) = 2 /\ StreamOf(w)[1] = Ready
          \/ Holds(w) /\ Count(w) = 4 /\ StreamOf(w)[3] = Ready
          \/ Holds(w) /\ Count(w) = 0 /\ toChild[w] # <<>> /\ toChild[w][1] # Exit
    /\ state[w] = "evaluating" =>
          Holds(w) /\ Count(w) = 0 /\ task[w] = currentJob[w].path
    /\ state[w] = "measuring" =>
          \/ Holds(w) /\ Count(w) = 2 /\ IsAnswer(StreamOf(w)[1])
          \/ ~Holds(w) /\ Count(w) = 0
    /\ state[w] = "exiting" =>
          \/ Count(w) = 0
          \/ Count(w) = 2 /\ StreamOf(w)[1] \in {Restart, Fatal}
          \/ Holds(w) /\ Count(w) = 4 /\ StreamOf(w)[3] \in {Restart, Fatal}

\* What it has been asked and has not read: the attribute it is held to, and at
\* the end to exit.
Asked(w) ==
    /\ Len(toChild[w]) <= 2
    /\ \A i \in DOMAIN toChild[w] :
          IF toChild[w][i] = Exit
          THEN pc = "kill" /\ i = Len(toChild[w])
          ELSE /\ i = 1 /\ state[w] = "waiting" /\ Holds(w) /\ Count(w) = 0
               /\ toChild[w][i] = Do(currentJob[w].path)

\* What the coordinator takes it for: only a worker that was ready is idle or
\* holds an attribute, and a slot without a process is neither.
Taken(w) ==
    /\ idle[w] => ~Holds(w) /\ Count(w) = 0 /\ state[w] \in {"waiting", "dead", "none"}
    /\ idle[w] \/ Holds(w) => readySinceFork[w]
    /\ InLoop /\ state[w] = "none" => ~Holds(w) /\ ~idle[w] /\ Count(w) = 0
    /\ w > pool => ~Holds(w)

OnCourse(w) == Said(w) /\ Doing(w) /\ Asked(w) /\ Taken(w)

AllOnCourse == \A w \in Slot : OnCourse(w)

-----------------------------------------------------------------------------
(* Messages *)

\* No two kinds of message are the same, and what its kind says a message is,
\* it is.
LEMMA MessagesDiffer ==
    /\ Ready # Restart /\ Ready # Fatal /\ Restart # Fatal
    /\ \A message \in Unasked \cup {Newline, Torn} : ~IsAnswer(message)
    /\ \A message \in Unasked : message # Newline /\ message # Torn
    /\ Newline # Torn
    /\ \A path : Do(path) # Exit
BY DEF Unasked, Ready, Restart, Fatal, Newline, Torn, Do, Exit, IsAnswer

LEMMA MessageByKind ==
    ASSUME NEW message \in Token
    PROVE  /\ message.t = "ready" => message = Ready
           /\ message.t = "restart" => message = Restart
           /\ message.t = "fatal" => message = Fatal
           /\ message.t = "torn" => message = Torn
           /\ message.t \in {"job", "ignore", "error", "oversized", "children"} =>
                  IsAnswer(message)
BY DEF Token, Line, Answer, Ready, Restart, Fatal, Newline, Torn, IsAnswer

\* A response names the path it is about.
LEMMA ResponsePath ==
    ASSUME NEW path, NEW outcome
    PROVE  Response(path, outcome).path = path
BY DEF Response

\* After the newline of each kind of line.
LEMMA AfterEachLine ==
    /\ AfterLine(Ready) = "waiting"
    /\ AfterLine(Restart) = "exiting"
    /\ AfterLine(Fatal) = "exiting"
    /\ \A message : IsAnswer(message) => AfterLine(message) = "measuring"
BY DEF AfterLine, Ready, Restart, Fatal, IsAnswer

-----------------------------------------------------------------------------
(* The stream from a worker *)

\* One sequence after another.  The lemmas about it are stated for an operator
\* whose definition is not looked into where they are used.
Joined(front, back) == front \o back

LEMMA JoinedLength ==
    ASSUME NEW front \in Seq(Token), NEW back \in Seq(Token)
    PROVE  /\ Joined(front, back) \in Seq(Token)
           /\ Len(front) \in Nat /\ Len(back) \in Nat /\ Len(Joined(front, back)) \in Nat
           /\ Len(Joined(front, back)) = Len(front) + Len(back)
<1>1. front \o back \in Seq(Token) /\ Len(front \o back) = Len(front) + Len(back)
    BY ConcatProperties
<1>2. Len(front) \in Nat /\ Len(back) \in Nat
    OBVIOUS
<1>3. Len(front) + Len(back) \in Nat
    BY <1>2
<1> QED BY <1>1, <1>2, <1>3 DEF Joined

LEMMA JoinedElements ==
    ASSUME NEW front \in Seq(Token), NEW back \in Seq(Token)
    PROVE  /\ \A i \in 1..Len(front) : Joined(front, back)[i] = front[i]
           /\ \A i \in 1..Len(back) : Joined(front, back)[Len(front) + i] = back[i]
<1>1. \A i \in 1..(Len(front) + Len(back)) :
          (front \o back)[i] = IF i <= Len(front) THEN front[i] ELSE back[i - Len(front)]
    BY ConcatProperties
<1>2. Len(front) \in Nat /\ Len(back) \in Nat
    OBVIOUS
<1>3. ASSUME NEW i \in 1..Len(front)
      PROVE  (front \o back)[i] = front[i]
    BY <1>1, <1>2
<1>4. ASSUME NEW i \in 1..Len(back)
      PROVE  (front \o back)[Len(front) + i] = back[i]
    <2>1. Len(front) + i \in 1..(Len(front) + Len(back)) /\ ~(Len(front) + i <= Len(front))
        BY <1>2
    <2>2. Len(front) + i - Len(front) = i
        BY <1>2
    <2> QED BY <1>1, <2>1, <2>2
<1> QED BY <1>3, <1>4 DEF Joined

LEMMA JoinedAppend ==
    ASSUME NEW front \in Seq(Token), NEW back \in Seq(Token), NEW last \in Token
    PROVE  Joined(front, Append(back, last)) = Append(Joined(front, back), last)
<1>1. <<last>> \in Seq(Token) /\ front \o back \in Seq(Token)
    OBVIOUS
<1>2. Append(back, last) = back \o <<last>>
    BY AppendIsConcat
<1>3. front \o (back \o <<last>>) = (front \o back) \o <<last>>
    BY <1>1, ConcatAssociative
<1>4. Append(front \o back, last) = (front \o back) \o <<last>>
    BY <1>1, AppendIsConcat
<1> QED BY <1>2, <1>3, <1>4 DEF Joined

LEMMA JoinedAssociative ==
    ASSUME NEW front \in Seq(Token), NEW middle \in Seq(Token), NEW back \in Seq(Token)
    PROVE  Joined(Joined(front, middle), back) = Joined(front, Joined(middle, back))
BY ConcatAssociative DEF Joined

LEMMA JoinedParts ==
    ASSUME NEW whole \in Seq(Token), NEW n \in 1..Len(whole)
    PROVE  /\ SubSeq(whole, 1, n) \in Seq(Token) /\ SubSeq(whole, n + 1, Len(whole)) \in Seq(Token)
           /\ Joined(SubSeq(whole, 1, n), SubSeq(whole, n + 1, Len(whole))) = whole
<1>1. Len(whole) \in Nat /\ n \in Nat /\ n <= Len(whole)
    OBVIOUS
<1>2. SubSeq(whole, 1, n) \in Seq(Token) /\ SubSeq(whole, n + 1, Len(whole)) \in Seq(Token)
    <2>1. \A i \in 1..Len(whole) : whole[i] \in Token
        BY ElementOfSeq
    <2>2. SubSeq(whole, 1, n) \in Seq(Token)
        BY <1>1, <2>1, SubSeqProperties
    <2>3. SubSeq(whole, n + 1, Len(whole)) \in Seq(Token)
        BY <1>1, <2>1, SubSeqProperties
    <2> QED BY <2>2, <2>3
<1>3. SubSeq(whole, 1, n) \o SubSeq(whole, n + 1, Len(whole)) = whole
    BY <1>1, ConcatAdjacentSubSeq, SubSeqFull
<1> QED BY <1>2, <1>3 DEF Joined

\* What is left of a sequence without its first two elements.
LEMMA WithoutTwo ==
    ASSUME NEW seq \in Seq(Token), Len(seq) >= 2, NEW rest,
           rest = SubSeq(seq, 3, Len(seq))
    PROVE  /\ rest \in Seq(Token) /\ Len(rest) = Len(seq) - 2
           /\ \A i \in 1..Len(rest) : rest[i] = seq[i + 2]
<1>1. Len(seq) \in Nat /\ \A i \in 3..Len(seq) : seq[i] \in Token
    BY ElementOfSeq
<1>2. /\ SubSeq(seq, 3, Len(seq)) \in Seq(Token)
      /\ Len(SubSeq(seq, 3, Len(seq))) = IF 3 <= Len(seq) THEN Len(seq) - 3 + 1 ELSE 0
      /\ \A i \in 1..(Len(seq) - 3 + 1) : SubSeq(seq, 3, Len(seq))[i] = seq[3 + i - 1]
    BY <1>1, SubSeqProperties
<1>3. Len(rest) = Len(seq) - 2
    <2>1. \A n \in Nat : n >= 2 => (IF 3 <= n THEN n - 3 + 1 ELSE 0) = n - 2
        OBVIOUS
    <2> QED BY <1>1, <1>2, <2>1, Zenon
<1>4. ASSUME NEW i \in 1..Len(rest)
      PROVE  rest[i] = seq[i + 2]
    <2>1. i \in 1..(Len(seq) - 3 + 1) /\ 3 + i - 1 = i + 2
        BY <1>1, <1>3
    <2> QED BY <1>2, <2>1
<1> QED BY <1>2, <1>3, <1>4

\* Dropping the first two elements of one drops the first two of both.
LEMMA JoinedWithoutTwo ==
    ASSUME NEW front \in Seq(Token), NEW back \in Seq(Token), Len(front) >= 2, NEW rest,
           rest = SubSeq(front, 3, Len(front))
    PROVE  /\ Len(Joined(rest, back)) = Len(Joined(front, back)) - 2
           /\ Len(Joined(front, back)) >= 3 => Joined(rest, back)[1] = Joined(front, back)[3]
           /\ Len(Joined(front, back)) >= 4 => Joined(rest, back)[2] = Joined(front, back)[4]
<1>1. /\ rest \in Seq(Token) /\ Len(rest) = Len(front) - 2
      /\ \A i \in 1..Len(rest) : rest[i] = front[i + 2]
    BY WithoutTwo
<1>2. /\ Len(rest) \in Nat /\ Len(back) \in Nat /\ Len(front) \in Nat
      /\ Len(Joined(rest, back)) = Len(rest) + Len(back)
      /\ Len(Joined(front, back)) = Len(front) + Len(back)
    BY <1>1, JoinedLength
<1>3. Len(Joined(rest, back)) = Len(Joined(front, back)) - 2
    BY <1>1, <1>2
<1>4. ASSUME NEW i \in 1..Len(Joined(rest, back))
      PROVE  Joined(rest, back)[i] = Joined(front, back)[i + 2]
    <2>1. i \in Nat /\ i >= 1 /\ i <= Len(rest) + Len(back)
        BY <1>2
    <2>2. CASE i <= Len(rest)
        <3>1. i \in 1..Len(rest) /\ i + 2 \in 1..Len(front)
            BY <1>1, <1>2, <2>1, <2>2
        <3>2. Joined(rest, back)[i] = rest[i]
            BY <1>1, <3>1, JoinedElements
        <3>3. Joined(front, back)[i + 2] = front[i + 2]
            BY <3>1, JoinedElements
        <3> QED BY <1>1, <3>1, <3>2, <3>3
    <2>3. CASE i > Len(rest)
        <3>1. PICK j \in 1..Len(back) : i = Len(rest) + j
            <4>1. i - Len(rest) \in 1..Len(back) /\ i = Len(rest) + (i - Len(rest))
                BY <1>2, <2>1, <2>3
            <4> QED BY <4>1
        <3>2. Joined(rest, back)[Len(rest) + j] = back[j]
            BY <1>1, JoinedElements
        <3>3. Joined(front, back)[Len(front) + j] = back[j]
            BY <3>1, JoinedElements
        <3>4. i + 2 = Len(front) + j
            BY <1>1, <1>2, <3>1
        <3> QED BY <3>1, <3>2, <3>3, <3>4
    <2> QED BY <1>2, <2>1, <2>2, <2>3
<1>5. 1 + 2 = 3 /\ 2 + 2 = 4
    OBVIOUS
<1>6. ASSUME Len(Joined(front, back)) >= 3
      PROVE  Joined(rest, back)[1] = Joined(front, back)[3]
    <2>1. 1 \in 1..Len(Joined(rest, back))
        BY <1>2, <1>3, <1>6
    <2> QED BY <1>4, <1>5, <2>1
<1>7. ASSUME Len(Joined(front, back)) >= 4
      PROVE  Joined(rest, back)[2] = Joined(front, back)[4]
    <2>1. 2 \in 1..Len(Joined(rest, back))
        BY <1>2, <1>3, <1>7
    <2> QED BY <1>4, <1>5, <2>1
<1> QED BY <1>3, <1>6, <1>7

LEMMA StreamJoined ==
    ASSUME NEW w
    PROVE  StreamOf(w) = Joined(buffer[w], fromChild[w])
BY DEF StreamOf, Joined

LEMMA StreamLength ==
    ASSUME Typed, NEW w \in Slot
    PROVE  /\ StreamOf(w) \in Seq(Token)
           /\ buffer[w] \in Seq(Token) /\ fromChild[w] \in Seq(Token)
           /\ Len(buffer[w]) \in Nat /\ Len(fromChild[w]) \in Nat /\ Count(w) \in Nat
           /\ Count(w) = Len(buffer[w]) + Len(fromChild[w])
           /\ Len(buffer[w]) <= Count(w)
<1>1. buffer[w] \in Seq(Token) /\ fromChild[w] \in Seq(Token)
    BY DEF Typed, PoolTyped, WorkersTyped, WorkerTypeOK
<1>2. \A a, b \in Nat : a <= a + b
    OBVIOUS
<1>3. Len(buffer[w]) <= Len(buffer[w]) + Len(fromChild[w])
    BY <1>1, <1>2, JoinedLength
<1> QED BY <1>1, <1>3, JoinedLength, StreamJoined DEF Count

LEMMA StreamElements ==
    ASSUME Typed, NEW w \in Slot
    PROVE  /\ \A i \in 1..Len(buffer[w]) : StreamOf(w)[i] = buffer[w][i]
           /\ \A i \in 1..Len(fromChild[w]) :
                 StreamOf(w)[Len(buffer[w]) + i] = fromChild[w][i]
           /\ \A i \in 1..Count(w) : StreamOf(w)[i] \in Token
<1>1. \A i \in 1..Len(buffer[w]) : StreamOf(w)[i] = buffer[w][i]
    BY StreamLength, JoinedElements, StreamJoined
<1>2. \A i \in 1..Len(fromChild[w]) : StreamOf(w)[Len(buffer[w]) + i] = fromChild[w][i]
    <2>1. buffer[w] \in Seq(Token) /\ fromChild[w] \in Seq(Token)
        BY StreamLength
    <2>2. \A i \in 1..Len(fromChild[w]) :
              Joined(buffer[w], fromChild[w])[Len(buffer[w]) + i] = fromChild[w][i]
        BY <2>1, JoinedElements, Zenon
    <2> QED BY <2>2, StreamJoined, Zenon
<1>3. \A i \in 1..Count(w) : StreamOf(w)[i] \in Token
    BY StreamLength, ElementOfSeq DEF Count
<1> QED BY <1>1, <1>2, <1>3

\* What is in the pipe is in the stream.
LEMMA PipeInStream ==
    ASSUME Typed, NEW w \in Slot, NEW i \in DOMAIN fromChild[w]
    PROVE  \E j \in 1..Count(w) : StreamOf(w)[j] = fromChild[w][i]
<1>1. /\ Len(buffer[w]) \in Nat /\ Len(fromChild[w]) \in Nat /\ fromChild[w] \in Seq(Token)
      /\ Count(w) = Len(buffer[w]) + Len(fromChild[w])
    BY StreamLength
<1>2. i \in 1..Len(fromChild[w])
    BY <1>1
<1>3. \A a, b \in Nat : \A k \in 1..b : a + k \in 1..(a + b)
    OBVIOUS
<1>4. Len(buffer[w]) + i \in 1..Count(w)
    BY <1>1, <1>2, <1>3
<1>5. StreamOf(w)[Len(buffer[w]) + i] = fromChild[w][i]
    BY <1>2, StreamElements
<1> QED BY <1>4, <1>5

\* A token written to the pipe is the last of the stream.
LEMMA StreamGrows ==
    ASSUME Typed, NEW w \in Slot, NEW token \in Token,
           fromChild' = [fromChild EXCEPT ![w] = Append(@, token)],
           UNCHANGED buffer
    PROVE  /\ Count(w)' = Count(w) + 1
           /\ \A i \in 1..Count(w) : StreamOf(w)'[i] = StreamOf(w)[i]
           /\ StreamOf(w)'[Count(w) + 1] = token
           /\ \A v \in Slot \ {w} : StreamOf(v)' = StreamOf(v)
<1>1. /\ fromChild \in [Slot -> Seq(Token)]
      /\ StreamOf(w) \in Seq(Token) /\ buffer[w] \in Seq(Token) /\ fromChild[w] \in Seq(Token)
    BY StreamLength DEF Typed, WorkersTyped, WorkerTypeOK
<1>2. fromChild'[w] = Append(fromChild[w], token) /\ buffer'[w] = buffer[w]
    BY <1>1
<1>3. StreamOf(w)' = Append(StreamOf(w), token)
    <2>1. StreamOf(w)' = Joined(buffer[w], Append(fromChild[w], token))
        BY <1>2 DEF StreamOf, Joined
    <2>2. Joined(buffer[w], Append(fromChild[w], token))
              = Append(Joined(buffer[w], fromChild[w]), token)
        BY <1>1, JoinedAppend, Zenon
    <2> QED BY <2>1, <2>2, StreamJoined, Zenon
<1>4. \A v \in Slot \ {w} : StreamOf(v)' = StreamOf(v)
    BY <1>1 DEF StreamOf
<1>5. /\ Len(Append(StreamOf(w), token)) = Len(StreamOf(w)) + 1
      /\ \A i \in 1..Len(StreamOf(w)) : Append(StreamOf(w), token)[i] = StreamOf(w)[i]
      /\ Append(StreamOf(w), token)[Len(StreamOf(w)) + 1] = token
    BY <1>1, AppendProperties
<1> QED BY <1>3, <1>4, <1>5 DEF Count

\* Reading from the pipe moves tokens to the buffer and keeps the stream.
LEMMA StreamRead ==
    ASSUME Typed, NEW w \in Slot, FillBuffer(w)
    PROVE  \A v \in Slot : StreamOf(v)' = StreamOf(v)
<1>1. buffer \in [Slot -> Seq(Token)] /\ fromChild \in [Slot -> Seq(Token)]
    BY DEF Typed, PoolTyped, WorkersTyped, WorkerTypeOK
<1>2. PICK n \in 1..Len(fromChild[w]) :
          /\ buffer' = [buffer EXCEPT ![w] = @ \o SubSeq(fromChild[w], 1, n)]
          /\ fromChild' = [fromChild EXCEPT ![w] = SubSeq(@, n + 1, Len(@))]
    BY DEF FillBuffer
<1> DEFINE read == SubSeq(fromChild[w], 1, n)
           left == SubSeq(fromChild[w], n + 1, Len(fromChild[w]))
<1>3. buffer'[w] = Joined(buffer[w], read) /\ fromChild'[w] = left
    BY <1>1, <1>2 DEF Joined
<1>4. /\ buffer[w] \in Seq(Token) /\ read \in Seq(Token) /\ left \in Seq(Token)
      /\ Joined(read, left) = fromChild[w]
    BY <1>1, JoinedParts
<1>5. StreamOf(w)' = Joined(buffer'[w], fromChild'[w])
    BY DEF StreamOf, Joined
<1> HIDE DEF read, left
<1>6. StreamOf(w)' = StreamOf(w)
    BY <1>3, <1>4, <1>5, JoinedAssociative, StreamJoined
<1>7. \A v \in Slot \ {w} : buffer'[v] = buffer[v] /\ fromChild'[v] = fromChild[v]
    BY <1>1, <1>2
<1> QED BY <1>6, <1>7 DEF StreamOf

\* A stream emptied in both its parts is empty.
LEMMA StreamEmpty ==
    ASSUME NEW w, buffer[w] = <<>>, fromChild[w] = <<>>
    PROVE  Count(w) = 0
BY DEF StreamOf, Count

\* A line that is taken is the first of the stream, with its newline behind it
\* or else the last of a stream that has ended.
LEMMA StreamTaken ==
    ASSUME Typed, NEW w \in Slot, Said(w), NEW kinds, TakesLine(w, kinds),
           UNCHANGED fromChild
    PROVE  /\ Count(w) >= 1 /\ StreamOf(w)[1] = Message(w)
           /\ Message(w) \in Token /\ Message(w).t \in kinds
           /\ \/ Count(w) = 1 /\ state[w] = "dead" /\ Count(w)' = 0
              \/ /\ Count(w) >= 2 /\ Count(w)' = Count(w) - 2
                 /\ Count(w) >= 3 => StreamOf(w)'[1] = StreamOf(w)[3]
                 /\ Count(w) >= 4 => StreamOf(w)'[2] = StreamOf(w)[4]
           /\ \A v \in Slot \ {w} : StreamOf(v)' = StreamOf(v)
<1>1. /\ buffer \in [Slot -> Seq(Token)] /\ buffer[w] \in Seq(Token)
      /\ fromChild[w] \in Seq(Token)
    BY DEF Typed, PoolTyped, WorkersTyped, WorkerTypeOK
<1>2. buffer'[w] = SubSeq(buffer[w], 3, Len(buffer[w])) /\ fromChild'[w] = fromChild[w]
    BY <1>1 DEF TakesLine, Rest
<1>3. /\ Count(w) = Len(buffer[w]) + Len(fromChild[w])
      /\ Len(buffer[w]) \in Nat /\ Len(fromChild[w]) \in Nat
      /\ Count(w) \in Nat
    BY StreamLength
<1>4. buffer[w] # <<>> /\ Len(buffer[w]) >= 1 /\ Message(w) = buffer[w][1]
    <2>1. buffer[w] # <<>>
        BY DEF TakesLine, HasLine, HasNewline
    <2> QED BY <1>1, <2>1 DEF Message
<1>5. Count(w) >= 1 /\ StreamOf(w)[1] = Message(w) /\ Message(w) \in Token
    BY <1>1, <1>3, <1>4, StreamElements
<1>6. Message(w).t \in kinds
    BY DEF TakesLine
<1>9. \A v \in Slot \ {w} : StreamOf(v)' = StreamOf(v)
    BY <1>1 DEF StreamOf, TakesLine
<1>7. CASE Len(buffer[w]) >= 2
    <2>1. StreamOf(w)' = Joined(buffer'[w], fromChild[w])
        BY <1>2 DEF StreamOf, Joined
    <2> DEFINE front == buffer[w]
               back == fromChild[w]
               rest == buffer'[w]
    <2>2. /\ front \in Seq(Token) /\ back \in Seq(Token) /\ Len(front) >= 2
          /\ rest = SubSeq(front, 3, Len(front))
        BY <1>1, <1>2, <1>7
    <2>3. /\ Count(w)' = Count(w) - 2
          /\ Count(w) >= 3 => StreamOf(w)'[1] = StreamOf(w)[3]
          /\ Count(w) >= 4 => StreamOf(w)'[2] = StreamOf(w)[4]
        <3> HIDE DEF front, back, rest
        <3>1. Len(Joined(rest, back)) = Len(Joined(front, back)) - 2
            BY <2>2, JoinedWithoutTwo
        <3>2. /\ Len(Joined(front, back)) >= 3 => Joined(rest, back)[1] = Joined(front, back)[3]
              /\ Len(Joined(front, back)) >= 4 => Joined(rest, back)[2] = Joined(front, back)[4]
            BY <2>2, JoinedWithoutTwo
        <3> QED BY <2>1, <3>1, <3>2, StreamJoined, Zenon DEF front, back, rest, Count
    <2>4. Count(w) >= 2
        BY <1>1, <1>3, <1>7
    <2> QED BY <1>5, <1>6, <1>9, <2>3, <2>4, Zenon
<1>8. CASE Len(buffer[w]) < 2
    <2>1. Len(buffer[w]) = 1
        <3>1. \A n \in Nat : n >= 1 /\ n < 2 => n = 1
            OBVIOUS
        <3> QED BY <1>3, <1>4, <1>8, <3>1, Zenon
    <2>2. Message(w) # Newline
        BY <1>5, MessagesDiffer DEF Said, IsAnswer
    <2>3. ~HasNewline(buffer[w])
        BY <1>1, <1>4, <2>1, <2>2 DEF HasNewline
    <2>4. fromChild[w] = <<>> /\ state[w] = "dead"
        BY <2>3 DEF TakesLine, HasLine, AtEof
    <2>5. Count(w) = 1
        BY <1>3, <2>1, <2>4
    <2>6. buffer'[w] = <<>>
        BY <1>2, <2>1, SubSeqEmpty
    <2>7. Count(w)' = 0
        BY <1>2, <2>4, <2>6, StreamEmpty DEF StreamOf, Count
    <2> QED BY <1>5, <1>6, <1>9, <2>4, <2>5, <2>7, Zenon
<1>10. Len(buffer[w]) >= 2 \/ Len(buffer[w]) < 2
    BY <1>3
<1> QED BY <1>7, <1>8, <1>10, Zenon

-----------------------------------------------------------------------------
(* What workers do *)

\* What a slot's course depends on.
Local(w) == <<state[w], line[w], task[w], toChild[w], StreamOf(w), idle[w],
              readySinceFork[w], currentJob[w]>>

\* The coordinator neither leaves off killing the workers nor comes back to its
\* loop.
GoesOn == (pc = "kill" => pc' = "kill") /\ (InLoop' => InLoop)

LEMMA SlotStays ==
    ASSUME Typed, NEW w \in Slot, OnCourse(w), UNCHANGED <<Local(w), flake>>, GoesOn,
           pool' = pool \/ pool' = pool + 1
    PROVE  OnCourse(w)'
<1>1. pool \in Nat /\ w \in Nat
    BY WorkerAssumption DEF Typed, PoolTyped, Slot
<1>2. Said(w)'
    BY DEF OnCourse, Said, Local, Count, Alive, Holds, Reply
<1>3. Doing(w)'
    BY DEF OnCourse, Doing, Local, Count, Holds, Reply
<1>4. Asked(w)'
    BY DEF OnCourse, Asked, Local, Count, Holds, GoesOn
<1>5. Taken(w)'
    BY <1>1 DEF OnCourse, Taken, Local, Count, Holds, GoesOn
<1> QED BY <1>2, <1>3, <1>4, <1>5 DEF OnCourse

LEMMA OneSlotMoves ==
    ASSUME Typed, AllOnCourse, NEW w \in Slot, UNCHANGED <<flake, pool>>, GoesOn,
           \A v \in Slot \ {w} : UNCHANGED Local(v),
           OnCourse(w)'
    PROVE  AllOnCourse'
<1>1. ASSUME NEW v \in Slot \ {w}
      PROVE  OnCourse(v)'
    BY SlotStays DEF AllOnCourse
<1> QED BY <1>1 DEF AllOnCourse

\* A worker that dies leaves its stream as it is, or ends it with a torn line.
LEMMA DyingOnCourse ==
    ASSUME Typed, NEW w \in Slot, OnCourse(w), Die(w), Alive(w),
           UNCHANGED <<flake, pc, idle, readySinceFork, currentJob, pool, buffer>>,
           \/ UNCHANGED fromChild
           \/ /\ state[w] = "body"
              /\ fromChild' = [fromChild EXCEPT ![w] = Append(@, Torn)]
    PROVE  /\ OnCourse(w)'
           /\ \A v \in Slot \ {w} : UNCHANGED <<state[v], line[v], toChild[v], StreamOf(v)>>
<1>1. /\ state'[w] = "dead" /\ line'[w] = None /\ toChild'[w] = <<>>
      /\ \A v \in Slot \ {w} : UNCHANGED <<state[v], line[v], toChild[v]>>
    BY DEF Typed, WorkersTyped, WorkerTypeOK, Die
<1>2. ~Alive(w)'
    BY <1>1 DEF Alive
<1>3. Doing(w)' /\ Asked(w)'
    BY <1>1 DEF Doing, Asked
<1>4. CASE UNCHANGED fromChild
    <2>1. \A v \in Slot : StreamOf(v)' = StreamOf(v)
        BY <1>4 DEF StreamOf
    <2>2. Said(w)'
        BY <1>2, <2>1 DEF OnCourse, Said, Count, Holds, Reply
    <2>3. Taken(w)'
        BY <1>1, <2>1 DEF OnCourse, Taken, Count, Holds
    <2> QED BY <1>1, <1>3, <2>1, <2>2, <2>3 DEF OnCourse
<1>5. CASE state[w] = "body" /\ fromChild' = [fromChild EXCEPT ![w] = Append(@, Torn)]
    <2>1. Torn \in Token
        BY DEF Token
    <2>2. /\ Count(w)' = Count(w) + 1
          /\ \A i \in 1..Count(w) : StreamOf(w)'[i] = StreamOf(w)[i]
          /\ StreamOf(w)'[Count(w) + 1] = Torn
          /\ \A v \in Slot \ {w} : StreamOf(v)' = StreamOf(v)
        BY <1>5, <2>1, StreamGrows
    <2>3. Count(w) = 0 \/ (Count(w) = 2 /\ Holds(w) /\ IsAnswer(StreamOf(w)[1]))
        BY <1>5 DEF OnCourse, Doing
    <2>4. Said(w)'
        <3>1. CASE Count(w) = 0
            BY <1>2, <2>2, <3>1 DEF Said
        <3>2. CASE Count(w) = 2 /\ Holds(w) /\ IsAnswer(StreamOf(w)[1])
            <4>1. StreamOf(w)[1] = Reply(w) /\ StreamOf(w)[2] = Newline
                BY <3>2, MessagesDiffer DEF OnCourse, Said
            <4> QED BY <1>2, <2>2, <3>2, <4>1 DEF Said, Holds, Reply
        <3> QED BY <2>3, <3>1, <3>2
    <2>5. Taken(w)'
        BY <1>1, <1>5 DEF OnCourse, Taken, Holds, InLoop
    <2> QED BY <1>1, <1>3, <2>2, <2>4, <2>5 DEF OnCourse
<1> QED BY <1>4, <1>5

\* A worker that speaks up has said nothing yet, or its answer; asked, it says
\* the answer or Fatal.
LEMMA SayingOnCourse ==
    ASSUME Typed, NEW w \in Slot, OnCourse(w), NEW message, Say(w, message),
           UNCHANGED <<flake, pc, idle, readySinceFork, currentJob, pool, buffer, toChild,
                       fromChild>>,
           \/ Holds(w) /\ Count(w) = 0 /\ message = Reply(w) /\ IsAnswer(message)
           \/ Count(w) = 0 /\ message \in Unasked /\ (Holds(w) => message = Fatal)
           \/ Holds(w) /\ Count(w) = 2 /\ message \in Unasked /\ IsAnswer(StreamOf(w)[1]),
           Alive(w), state[w] # "waiting"
    PROVE  OnCourse(w)'
<1>1. state'[w] = "body" /\ line'[w] = message
    BY DEF Typed, WorkersTyped, WorkerTypeOK, Say
<1>2. StreamOf(w)' = StreamOf(w)
    BY DEF StreamOf
<1>3. Alive(w) /\ Alive(w)'
    BY <1>1 DEF Alive
<1>4. Said(w)'
    BY <1>2, <1>3 DEF OnCourse, Said, Count, Holds, Reply
<1>5. Doing(w)'
    BY <1>1, <1>2 DEF Doing, Count, Holds, Reply
<1>6. Asked(w)'
    BY <1>1, <1>2 DEF OnCourse, Asked, Count, Holds
<1>7. Taken(w)'
    BY <1>1, <1>2 DEF OnCourse, Taken, Count, Holds, Alive
<1> QED BY <1>4, <1>5, <1>6, <1>7 DEF OnCourse

LEMMA WorkerStepOnCourse ==
    ASSUME Typed, NEW w \in Slot, OnCourse(w), WorkerStep(w) \/ Crash(w),
           UNCHANGED <<pc, idle, readySinceFork, currentJob, pool, buffer>>
    PROVE  OnCourse(w)' /\ \A v \in Slot \ {w} : UNCHANGED Local(v)
<1> DEFINE Here == UNCHANGED <<pc, idle, readySinceFork, currentJob, pool, buffer>>
           Others == \A v \in Slot \ {w} : UNCHANGED Local(v)
<1>a. /\ state \in [Slot -> State] /\ line \in [Slot -> Line \cup {None}]
      /\ task \in [Slot -> AttrPath \cup {None}] /\ toChild \in [Slot -> Seq(Request)]
      /\ fromChild \in [Slot -> Seq(Token)]
    BY DEF Typed, WorkersTyped, WorkerTypeOK
<1>b. Said(w) /\ Doing(w) /\ Asked(w) /\ Taken(w)
    BY DEF OnCourse
<1>1. CASE StartEvaluator(w)
    <2>1. PICK message \in Unasked : Say(w, message)
        BY <1>1 DEF StartEvaluator, Unasked
    <2>2. Alive(w) /\ ~Holds(w) /\ Count(w) = 0 /\ state[w] # "waiting"
        BY <1>1, <1>b DEF StartEvaluator, Doing, Alive
    <2>3. OnCourse(w)'
        BY <1>1, <2>1, <2>2, SayingOnCourse DEF StartEvaluator, environment
    <2>4. Others
        BY <1>1, <1>a, <2>1 DEF StartEvaluator, Say, Local, StreamOf
    <2> QED BY <2>3, <2>4
<1>2. CASE WriteBody(w)
    <2>1. line[w] \in Token
        BY <1>2 DEF WriteBody, Typed, WorkersTyped, Occupied, Token
    <2>2. /\ Count(w)' = Count(w) + 1
          /\ \A i \in 1..Count(w) : StreamOf(w)'[i] = StreamOf(w)[i]
          /\ StreamOf(w)'[Count(w) + 1] = line[w]
          /\ \A v \in Slot \ {w} : StreamOf(v)' = StreamOf(v)
        BY <1>2, <2>1, StreamGrows DEF WriteBody
    <2>3. state'[w] = "newline" /\ UNCHANGED <<line, toChild, flake>> /\ state[w] = "body"
        BY <1>2, <1>a DEF WriteBody, environment
    <2>4. \/ Holds(w) /\ Count(w) = 0 /\ line[w] = Reply(w) /\ IsAnswer(line[w])
          \/ Count(w) = 0 /\ line[w] \in Unasked /\ (Holds(w) => line[w] = Fatal)
          \/ Holds(w) /\ Count(w) = 2 /\ line[w] \in Unasked /\ IsAnswer(StreamOf(w)[1])
        BY <1>b, <2>3 DEF Doing
    <2>5. Said(w)' /\ Doing(w)'
        <3>1. CASE Holds(w) /\ Count(w) = 0 /\ line[w] = Reply(w) /\ IsAnswer(line[w])
            BY <2>2, <2>3, <3>1 DEF Said, Doing, Holds, Reply
        <3>2. CASE Count(w) = 0 /\ line[w] \in Unasked /\ (Holds(w) => line[w] = Fatal)
            BY <2>2, <2>3, <3>2 DEF Said, Doing, Holds
        <3>3. CASE /\ Holds(w) /\ Count(w) = 2 /\ line[w] \in Unasked
                   /\ IsAnswer(StreamOf(w)[1])
            <4>1. StreamOf(w)[1] = Reply(w) /\ StreamOf(w)[2] = Newline
                BY <1>b, <3>3, MessagesDiffer DEF Said
            <4> QED BY <2>2, <2>3, <3>3, <4>1 DEF Said, Doing, Holds, Reply
        <3> QED BY <2>4, <3>1, <3>2, <3>3
    <2>6. Asked(w)' /\ Taken(w)'
        BY <1>b, <2>3 DEF Asked, Taken, Holds, InLoop
    <2>7. Others
        BY <1>2, <1>a, <2>2 DEF WriteBody, Local
    <2> QED BY <2>5, <2>6, <2>7 DEF OnCourse
<1>3. CASE WriteNewline(w)
    <2>1. Newline \in Token
        BY DEF Token
    <2>2. /\ Count(w)' = Count(w) + 1
          /\ \A i \in 1..Count(w) : StreamOf(w)'[i] = StreamOf(w)[i]
          /\ StreamOf(w)'[Count(w) + 1] = Newline
          /\ \A v \in Slot \ {w} : StreamOf(v)' = StreamOf(v)
        BY <1>3, <2>1, StreamGrows DEF WriteNewline
    <2>3. /\ state'[w] = AfterLine(line[w]) /\ state[w] = "newline"
          /\ UNCHANGED <<toChild, flake>>
        BY <1>3, <1>a DEF WriteNewline, environment
    <2>4. \/ Count(w) = 1 /\ line[w] = StreamOf(w)[1]
          \/ Holds(w) /\ Count(w) = 3 /\ line[w] = StreamOf(w)[3]
        BY <1>b, <2>3 DEF Doing
    <2>5. Alive(w) /\ Alive(w)' /\ state'[w] \in {"waiting", "measuring", "exiting"}
        BY <2>3 DEF Alive, AfterLine
    <2>6. Said(w)'
        BY <1>b, <2>2, <2>3, <2>4, <2>5 DEF Said, Holds, Reply
    <2>7. Doing(w)'
        <3>1. CASE Count(w) = 1 /\ line[w] = StreamOf(w)[1]
            <4>1. \/ line[w] \in Unasked /\ (Holds(w) => line[w] = Fatal)
                  \/ Holds(w) /\ IsAnswer(line[w])
                BY <1>b, <2>5, <3>1 DEF Said
            <4>2. Count(w)' = 2 /\ StreamOf(w)'[1] = line[w] /\ UNCHANGED Holds(w)
                BY <2>2, <3>1 DEF Holds
            <4>3. CASE Holds(w) /\ IsAnswer(line[w])
                BY <2>3, <4>2, <4>3, AfterEachLine DEF Doing
            <4>4. CASE line[w] = Ready /\ ~Holds(w)
                BY <2>3, <4>2, <4>4, AfterEachLine DEF Doing
            <4>5. CASE line[w] \in {Restart, Fatal}
                BY <2>3, <4>2, <4>5, AfterEachLine DEF Doing
            <4> QED BY <4>1, <4>3, <4>4, <4>5, MessagesDiffer DEF Unasked
        <3>2. CASE Holds(w) /\ Count(w) = 3 /\ line[w] = StreamOf(w)[3]
            <4>1. line[w] \in Unasked
                BY <1>b, <2>5, <3>2 DEF Said
            <4> QED BY <2>2, <2>3, <3>2, <4>1, AfterEachLine DEF Doing, Holds, Unasked
        <3> QED BY <2>4, <3>1, <3>2
    <2>8. Asked(w)' /\ Taken(w)'
        BY <1>b, <2>3, <2>5 DEF Asked, Taken, Holds, InLoop
    <2>9. Others
        BY <1>3, <1>a, <2>2 DEF WriteNewline, Local
    <2> QED BY <2>6, <2>7, <2>8, <2>9 DEF OnCourse
<1>4. CASE WriteFails(w) \/ ReadExit(w) \/ EvaluationKills(w) \/ ExitWorker(w) \/ Crash(w)
    <2>1. Alive(w) /\ Die(w) /\ UNCHANGED <<flake, task>>
        BY <1>4 DEF WriteFails, ReadExit, EvaluationKills, ExitWorker, Crash, Alive, environment
    <2>2. \/ UNCHANGED fromChild
          \/ state[w] = "body" /\ fromChild' = [fromChild EXCEPT ![w] = Append(@, Torn)]
        BY <1>4 DEF WriteFails, ReadExit, EvaluationKills, ExitWorker, Crash
    <2>3. /\ OnCourse(w)'
          /\ \A v \in Slot \ {w} : UNCHANGED <<state[v], line[v], toChild[v], StreamOf(v)>>
        BY <2>1, <2>2, DyingOnCourse
    <2> QED BY <2>1, <2>3 DEF Local
<1>5. CASE MeasureMemory(w)
    <2>1. PICK message \in Parting : Say(w, message)
        BY <1>5 DEF MeasureMemory, Parting
    <2>2. /\ Alive(w) /\ state[w] # "waiting" /\ message \in Unasked
          /\ \/ Holds(w) /\ Count(w) = 2 /\ IsAnswer(StreamOf(w)[1])
             \/ ~Holds(w) /\ Count(w) = 0
        BY <1>5, <1>b DEF MeasureMemory, Doing, Alive, Unasked, Parting
    <2>3. OnCourse(w)'
        BY <1>5, <2>1, <2>2, SayingOnCourse DEF MeasureMemory, environment
    <2>4. Others
        BY <1>5, <1>a, <2>1 DEF MeasureMemory, Say, Local, StreamOf
    <2> QED BY <2>3, <2>4
<1>6. CASE ReadRequest(w)
    <2>1. /\ state[w] = "waiting" /\ state'[w] = "evaluating" /\ task'[w] = Head(toChild[w]).path
          /\ toChild'[w] = Tail(toChild[w]) /\ UNCHANGED <<line, fromChild, flake>>
          /\ toChild[w] # <<>> /\ Head(toChild[w]) # Exit /\ toChild[w] \in Seq(Request)
        BY <1>6, <1>a DEF ReadRequest, environment
    <2>2. 1 \in DOMAIN toChild[w] /\ Head(toChild[w]) = toChild[w][1]
        BY <2>1
    <2>3. Holds(w) /\ Count(w) = 0 /\ Head(toChild[w]) = Do(currentJob[w].path)
        BY <1>b, <2>1, <2>2 DEF Asked
    <2>4. \A v \in Slot : StreamOf(v)' = StreamOf(v)
        BY <2>1 DEF StreamOf
    <2>5. Said(w)' /\ Taken(w)'
        BY <1>b, <2>1, <2>3, <2>4 DEF Said, Taken, Count, Holds, InLoop
    <2>6. Doing(w)'
        BY <2>1, <2>3, <2>4 DEF Doing, Count, Holds, Do
    <2>7. Asked(w)'
        <3>1. /\ Len(Tail(toChild[w])) = Len(toChild[w]) - 1
              /\ \A i \in 1..Len(Tail(toChild[w])) : Tail(toChild[w])[i] = toChild[w][i + 1]
              /\ Tail(toChild[w]) \in Seq(Request)
            BY <2>1, HeadTailProperties
        <3>2. Len(toChild[w]) \in Nat /\ Len(toChild[w]) <= 2
            BY <1>b, <2>1 DEF Asked
        <3>3. ASSUME NEW i \in DOMAIN toChild'[w]
              PROVE  toChild'[w][i] = Exit /\ pc = "kill" /\ i = Len(toChild'[w])
            <4>1. i \in 1..Len(Tail(toChild[w]))
                BY <2>1, <3>1
            <4>2. i + 1 \in DOMAIN toChild[w] /\ i + 1 # 1
                BY <2>1, <3>1, <3>2, <4>1
            <4>3. toChild[w][i + 1] = Exit /\ pc = "kill" /\ i + 1 = Len(toChild[w])
                BY <1>b, <4>2 DEF Asked
            <4> QED BY <2>1, <3>1, <3>2, <4>1, <4>3
        <3>4. Len(toChild'[w]) <= 2
            BY <2>1, <3>1, <3>2
        <3> QED BY <3>3, <3>4 DEF Asked
    <2>8. Others
        BY <1>6, <1>a, <2>4 DEF ReadRequest, Local
    <2> QED BY <2>5, <2>6, <2>7, <2>8 DEF OnCourse
<1>7. CASE Evaluate(w)
    <2>1. Holds(w) /\ Count(w) = 0 /\ Response(task[w], flake[task[w]]) = Reply(w)
        BY <1>7, <1>b DEF Evaluate, Doing, Reply
    <2>2. flake[task[w]].kind \in OutcomeKind
        BY <1>7 DEF Evaluate, Typed, WorkersTyped, WorkerTypeOK, Occupied, Outcome
    <2>3. IsAnswer(Reply(w))
        <3>1. IsAnswer(Response(task[w], flake[task[w]]))
            BY <1>7, <2>2 DEF Evaluate, OutcomeKind, Response, IsAnswer
        <3> QED BY <2>1, <3>1
    <2>4. OnCourse(w)'
        <3>1. Alive(w) /\ state[w] # "waiting" /\ Say(w, Reply(w))
            BY <1>7, <2>1 DEF Evaluate, Alive
        <3> QED BY <1>7, <2>1, <2>3, <3>1, SayingOnCourse DEF Evaluate, environment
    <2>5. Others
        BY <1>7, <1>a DEF Evaluate, Say, Local, StreamOf
    <2> QED BY <2>4, <2>5
<1>8. CASE LeaveLoop(w)
    <2>1. /\ Alive(w) /\ state[w] # "waiting" /\ Say(w, Fatal) /\ Fatal \in Unasked
          /\ \/ Count(w) = 0
             \/ Holds(w) /\ Count(w) = 2 /\ IsAnswer(StreamOf(w)[1])
        BY <1>8, <1>b DEF LeaveLoop, Doing, Alive, Unasked
    <2>2. OnCourse(w)'
        BY <1>8, <2>1, SayingOnCourse DEF LeaveLoop, environment
    <2>3. Others
        BY <1>8, <1>a DEF LeaveLoop, Say, Local, StreamOf
    <2> QED BY <2>2, <2>3
<1> QED BY <1>1, <1>2, <1>3, <1>4, <1>5, <1>6, <1>7, <1>8 DEF WorkerStep

-----------------------------------------------------------------------------
(* What the coordinator does with a slot *)

LEMMA SlotTyped ==
    ASSUME Typed
    PROVE  /\ state \in [Slot -> State] /\ line \in [Slot -> Line \cup {None}]
           /\ task \in [Slot -> AttrPath \cup {None}] /\ toChild \in [Slot -> Seq(Request)]
           /\ fromChild \in [Slot -> Seq(Token)] /\ buffer \in [Slot -> Seq(Token)]
           /\ idle \in [Slot -> BOOLEAN] /\ readySinceFork \in [Slot -> BOOLEAN]
           /\ currentJob \in [Slot -> Pending \cup {None}]
BY DEF Typed, WorkersTyped, WorkerTypeOK, PoolTyped

\* A fresh worker has said nothing and been asked nothing.
LEMMA NewWorkerOnCourse ==
    ASSUME Typed, NEW w \in Slot, NEW failures, NewWorker(w, failures)
    PROVE  OnCourse(w)' /\ \A v \in Slot \ {w} : UNCHANGED Local(v)
<1>1. /\ state'[w] = "starting" /\ toChild'[w] = <<>> /\ idle'[w] = FALSE
      /\ currentJob'[w] = None /\ buffer'[w] = <<>> /\ fromChild'[w] = <<>>
    BY SlotTyped DEF NewWorker, Forked, StartsIdle
<1>2. Count(w)' = 0
    BY <1>1 DEF Count, StreamOf
<1>3. OnCourse(w)'
    BY <1>1, <1>2 DEF OnCourse, Said, Doing, Asked, Taken, Holds
<1>4. \A v \in Slot \ {w} : UNCHANGED Local(v)
    BY SlotTyped DEF NewWorker, Forked, Local, StreamOf
<1> QED BY <1>3, <1>4

\* A slot left without a process is left without an attribute too.
LEMMA ForkFailsOnCourse ==
    ASSUME Typed, NEW w \in Slot, OnCourse(w), ForkFails(w)
    PROVE  /\ OnCourse(w)' /\ \A v \in Slot \ {w} : UNCHANGED Local(v)
           /\ ~InLoop'
<1>1. /\ state'[w] = "none" /\ toChild'[w] = <<>> /\ UNCHANGED <<idle, readySinceFork>>
      /\ currentJob'[w] = None /\ buffer'[w] = <<>> /\ fromChild'[w] = <<>>
    BY SlotTyped DEF ForkFails, Reaped
<1>2. Count(w)' = 0 /\ ~InLoop'
    BY <1>1 DEF Count, StreamOf, ForkFails, InLoop
<1>3. OnCourse(w)'
    BY <1>1, <1>2 DEF OnCourse, Said, Doing, Asked, Taken, Holds
<1>4. \A v \in Slot \ {w} : UNCHANGED Local(v)
    BY SlotTyped DEF ForkFails, Reaped, Local, StreamOf
<1> QED BY <1>2, <1>3, <1>4

\* While a slot is serviced nothing is on its way to a worker that has spoken.
LEMMA ServedIsNotAsked ==
    ASSUME Typed, NEW w \in Slot, OnCourse(w), pc # "kill", Count(w) # 0 \/ ~Holds(w)
    PROVE  toChild[w] = <<>>
<1>1. toChild[w] \in Seq(Request)
    BY SlotTyped
<1>2. 1 \notin DOMAIN toChild[w]
    BY DEF OnCourse, Asked
<1> QED BY <1>1, <1>2

\* An answer that is taken is the answer to what the worker was asked.
LEMMA AnswerIsReply ==
    ASSUME Typed, NEW w \in Slot, OnCourse(w), NEW kinds, TakesLine(w, kinds),
           kinds \subseteq {"job", "ignore", "error", "oversized", "children"},
           UNCHANGED fromChild
    PROVE  Holds(w) /\ Message(w) = Reply(w) /\ IsAnswer(Message(w))
<1>1. /\ Count(w) >= 1 /\ StreamOf(w)[1] = Message(w)
      /\ Message(w) \in Token /\ Message(w).t \in kinds
    BY StreamTaken DEF OnCourse
<1>2. IsAnswer(Message(w))
    BY <1>1, MessageByKind
<1> QED BY <1>1, <1>2, MessagesDiffer DEF OnCourse, Said

LEMMA TakingAnswerOnCourse ==
    ASSUME Typed, NEW w \in Slot, OnCourse(w), NEW kinds, TakesLine(w, kinds),
           kinds \subseteq {"job", "ignore", "error", "oversized", "children"},
           UNCHANGED <<child, flake, pool, idle, readySinceFork>>,
           currentJob' = [currentJob EXCEPT ![w] = None]
    PROVE  OnCourse(w)' /\ \A v \in Slot \ {w} : UNCHANGED Local(v)
<1>1. /\ Count(w) >= 1 /\ StreamOf(w)[1] = Message(w)
      /\ \/ Count(w) = 1 /\ state[w] = "dead" /\ Count(w)' = 0
         \/ /\ Count(w) >= 2 /\ Count(w)' = Count(w) - 2
            /\ Count(w) >= 3 => StreamOf(w)'[1] = StreamOf(w)[3]
            /\ Count(w) >= 4 => StreamOf(w)'[2] = StreamOf(w)[4]
      /\ \A v \in Slot \ {w} : StreamOf(v)' = StreamOf(v)
    BY StreamTaken DEF OnCourse, child
<1>2. Holds(w) /\ IsAnswer(Message(w))
    BY AnswerIsReply DEF child
<1>3. ~Holds(w)' /\ UNCHANGED <<state, line, task, toChild, idle, readySinceFork>>
    BY SlotTyped DEF Holds, child
<1>4. toChild[w] = <<>>
    <2>1. Count(w) # 0
        BY <1>1
    <2> QED BY <2>1, ServedIsNotAsked DEF TakesLine, Serving
<1>5. Said(w) /\ Doing(w) /\ Taken(w)
    BY DEF OnCourse
<1>6. Said(w)'
    BY <1>1, <1>2, <1>3, <1>5, MessagesDiffer DEF Said, Alive
<1>7. Doing(w)'
    <2>1. CASE Count(w) = 1 /\ state[w] = "dead" /\ Count(w)' = 0
        BY <1>3, <2>1 DEF Doing
    <2>2. CASE /\ Count(w) >= 2 /\ Count(w)' = Count(w) - 2
               /\ Count(w) >= 3 => StreamOf(w)'[1] = StreamOf(w)[3]
        <3>1. /\ Count(w) \in 2..4 /\ StreamOf(w)[1] \notin {Restart, Fatal}
              /\ Count(w) >= 3 /\ Alive(w) => StreamOf(w)[3] \in Unasked
            BY <1>1, <1>2, <1>5, <2>2, MessagesDiffer DEF Said, Unasked
        <3> QED BY <1>2, <1>3, <1>5, <2>2, <3>1 DEF Doing
    <2> QED BY <1>1, <2>1, <2>2
<1>8. Asked(w)'
    BY <1>3, <1>4 DEF Asked
<1>9. Taken(w)'
    <2>1. ~idle[w] /\ (InLoop => state[w] # "none") /\ InLoop
        BY <1>2, <1>5 DEF Taken, InLoop, TakesLine, Serving
    <2> QED BY <1>3, <2>1 DEF Taken
<1>10. \A v \in Slot \ {w} : UNCHANGED Local(v)
    BY SlotTyped, <1>1, <1>3 DEF Local
<1> QED BY <1>6, <1>7, <1>8, <1>9, <1>10 DEF OnCourse

\* Ready is said by a worker that holds nothing, and nothing follows it or Fatal.
LEMMA TakingUnaskedOnCourse ==
    ASSUME Typed, NEW w \in Slot, OnCourse(w), NEW kind \in {"ready", "fatal"},
           TakesLine(w, {kind}),
           UNCHANGED <<child, flake, pool, currentJob>>,
           IF kind = "ready"
           THEN idle' = [idle EXCEPT ![w] = TRUE]
                /\ readySinceFork' = [readySinceFork EXCEPT ![w] = TRUE]
           ELSE UNCHANGED <<idle, readySinceFork>>
    PROVE  /\ OnCourse(w)' /\ \A v \in Slot \ {w} : UNCHANGED Local(v)
           /\ Message(w) \in {Ready, Fatal} /\ (kind = "ready" => ~Holds(w))
<1>1. /\ Count(w) >= 1 /\ StreamOf(w)[1] = Message(w)
      /\ Message(w) \in Token /\ Message(w).t \in {kind}
      /\ \/ Count(w) = 1 /\ state[w] = "dead" /\ Count(w)' = 0
         \/ Count(w) >= 2 /\ Count(w)' = Count(w) - 2
      /\ \A v \in Slot \ {w} : StreamOf(v)' = StreamOf(v)
    BY StreamTaken DEF OnCourse, child
<1>2. Message(w) = IF kind = "ready" THEN Ready ELSE Fatal
    BY <1>1, MessageByKind
<1>3. Said(w) /\ Doing(w) /\ Taken(w)
    BY DEF OnCourse
<1>4. /\ StreamOf(w)[1] \in {Ready, Fatal} /\ Count(w) \in {1, 2}
      /\ Holds(w) => StreamOf(w)[1] = Fatal
    BY <1>1, <1>2, <1>3, MessagesDiffer DEF Said, Unasked
<1>5. Count(w)' = 0 /\ (Count(w) = 1 => state[w] = "dead")
    BY <1>1, <1>3, <1>4 DEF Said
<1>6. UNCHANGED <<Holds(w), state, line, task, toChild>>
    BY DEF Holds, child
<1>7. toChild[w] = <<>>
    BY <1>4, ServedIsNotAsked DEF TakesLine, Serving
<1>8. state[w] # "none"
    BY <1>1, <1>3 DEF Taken, InLoop, TakesLine, Serving
<1>9. kind = "ready" => state[w] \in {"waiting", "dead"}
    <2>1. Count(w) = 2 \/ state[w] = "dead"
        BY <1>1, <1>3, <1>4 DEF Said
    <2> QED BY <1>1, <1>2, <1>3, <1>4, <1>8, <2>1, SlotTyped, MessagesDiffer
            DEF Doing, State
<1>10. /\ state[w] \notin {"starting", "body", "newline", "evaluating", "measuring"}
       /\ state[w] = "waiting" => ~Holds(w)
    <2>1. Count(w) = 2 \/ state[w] = "dead"
        BY <1>1, <1>3, <1>4 DEF Said
    <2>2. ~IsAnswer(StreamOf(w)[1])
        BY <1>4, MessagesDiffer DEF Unasked
    <2> QED BY <1>3, <1>4, <2>1, <2>2 DEF Doing
<1>11. Said(w)' /\ Doing(w)' /\ Asked(w)'
    BY <1>5, <1>6, <1>7, <1>10 DEF Said, Doing, Asked
<1>12. Taken(w)'
    <2>1. ~idle[w] /\ (kind = "ready" => ~Holds(w))
        BY <1>1, <1>2, <1>3, <1>4, MessagesDiffer DEF Taken
    <2> QED BY <1>3, <1>5, <1>6, <1>8, <1>9, <2>1, SlotTyped DEF Taken
<1>13. \A v \in Slot \ {w} : UNCHANGED Local(v)
    BY SlotTyped, <1>1, <1>6 DEF Local
<1>14. Message(w) \in {Ready, Fatal}
    BY <1>2
<1>15. kind = "ready" => ~Holds(w)
    BY <1>1, <1>2, <1>4, MessagesDiffer
<1> QED BY <1>11, <1>12, <1>13, <1>14, <1>15 DEF OnCourse

\* A slot whose process and pipes are gone keeps what is in its buffer: a first
\* part of what its worker has said.
LEMMA PipeLost ==
    ASSUME Typed, NEW w \in Slot, OnCourse(w), ~InLoop',
           UNCHANGED <<flake, pool, idle, readySinceFork, currentJob, buffer>>,
           state'[w] = "none", toChild'[w] = <<>>, fromChild'[w] = <<>>
    PROVE  OnCourse(w)'
<1>1. /\ Len(buffer[w]) \in Nat /\ Len(buffer[w]) <= Count(w)
      /\ buffer[w] \in Seq(Token)
    BY StreamLength
<1>2. StreamOf(w)' = buffer[w] /\ Count(w)' = Len(buffer[w])
    BY <1>1, ConcatEmptySeq DEF StreamOf, Count
<1>3. Count(w)' \in Nat /\ Count(w)' <= Count(w)
    BY <1>1, <1>2
<1>4. \A i \in 1..Count(w)' : StreamOf(w)'[i] = StreamOf(w)[i]
    BY <1>2, StreamElements
<1>5. Said(w) /\ Taken(w)
    BY DEF OnCourse
<1>6. ~Alive(w)' /\ UNCHANGED <<Holds(w), Reply(w)>>
    BY DEF Alive, Holds, Reply
<1>7. Said(w)'
    BY <1>3, <1>4, <1>5, <1>6 DEF Said
<1>8. Doing(w)' /\ Asked(w)'
    BY DEF Doing, Asked
<1>9. Taken(w)'
    BY <1>3, <1>5, <1>6 DEF Taken
<1> QED BY <1>7, <1>8, <1>9 DEF OnCourse

\* A line that is handled leaves the loop or goes on in it.
LEMMA FinishLineGoesOn ==
    ASSUME NEW w, Serving(w), FinishLine(w) \/ LeaveSlot(w)
    PROVE  GoesOn
BY DEF Serving, FinishLine, LeaveSlot, GoesOn, InLoop

\* The death of a worker that was never ready leaves nothing unread.
LEMMA NothingSaidBeforeReady ==
    ASSUME Typed, NEW w \in Slot, OnCourse(w), SeesDeath(w), CrashLoops(w)
    PROVE  ~Holds(w) /\ ~idle[w] /\ fromChild[w] = <<>> /\ state[w] = "dead"
<1>1. ~readySinceFork[w]
    <2>1. MaxStartupFailures \in Nat /\ MaxStartupFailures # 0
        BY CoordinatorAssumption
    <2> QED BY <2>1 DEF CrashLoops, Failures
<1>2. ~Holds(w) /\ ~idle[w]
    BY <1>1 DEF OnCourse, Taken
<1>3. Said(w)
    BY DEF OnCourse
<1>4. /\ Len(buffer[w]) \in Nat /\ Count(w) \in Nat /\ Len(buffer[w]) <= Count(w)
      /\ buffer[w] \in Seq(Token)
    BY StreamLength
<1>5. \A i \in 1..Len(buffer[w]) : StreamOf(w)[i] = buffer[w][i]
    BY StreamElements
<1>6. CASE SeesEof(w)
    BY <1>2, <1>6 DEF SeesEof, AtEof
<1>7. CASE SeesTornLine(w)
    <2>1. buffer[w] # <<>> /\ Head(buffer[w]).t = "torn"
        BY <1>7 DEF SeesTornLine, HasLine, HasNewline, Message
    <2>2. 1 \in 1..Len(buffer[w]) /\ Head(buffer[w]) = buffer[w][1]
        BY <1>4, <2>1
    <2>3. Count(w) >= 1 /\ StreamOf(w)[1].t = "torn"
        BY <1>4, <1>5, <2>1, <2>2
    <2>4. StreamOf(w)[1] = Torn /\ Count(w) = 1
        BY <1>2, <1>3, <2>3 DEF Said, Unasked, Ready, Restart, Fatal
    <2>5. ~HasNewline(buffer[w])
        <3>1. ASSUME NEW i \in 1..Len(buffer[w])
              PROVE  buffer[w][i] # Newline
            <4>1. i = 1
                BY <1>4, <2>2, <2>4
            <4> QED BY <1>5, <2>2, <2>4, <4>1, MessagesDiffer
        <3> QED BY <1>4, <3>1 DEF HasNewline
    <2>6. AtEof(w)
        BY <1>7, <2>5 DEF SeesTornLine, HasLine
    <2> QED BY <1>2, <2>6 DEF AtEof
<1>8. CASE SeesOversizedLine(w)
    <2>1. PICK i \in DOMAIN fromChild[w] : fromChild[w][i].t = "oversized"
        BY <1>8 DEF SeesOversizedLine
    <2>2. PICK j \in 1..Count(w) : StreamOf(w)[j].t = "oversized"
        BY <2>1, PipeInStream
    <2>3. /\ Count(w) <= 2 /\ StreamOf(w)[1].t # "oversized"
          /\ Count(w) >= 2 => StreamOf(w)[2].t # "oversized"
        BY <1>2, <1>3, <1>4, <2>2 DEF Said, Unasked, Ready, Restart, Fatal, Torn, Newline
    <2>4. j = 1 \/ (j = 2 /\ Count(w) >= 2)
        BY <1>4, <2>2, <2>3
    <2> QED BY <2>2, <2>3, <2>4
<1> QED BY <1>6, <1>7, <1>8 DEF SeesDeath

LEMMA SlotStepOnCourse ==
    ASSUME Typed, AllOnCourse, NEW w \in Slot, SlotStep(w)
    PROVE  AllOnCourse'
<1> DEFINE Others == \A v \in Slot \ {w} : UNCHANGED Local(v)
<1>a. OnCourse(w)
    BY DEF AllOnCourse
<1>1. CASE Dispatch(w)
    <2>1. idle[w] /\ pc = "dispatch" /\ w \in Pool /\ todo # <<>>
        BY <1>1 DEF Dispatch, Dispatchable
    <2>2. ~Holds(w) /\ Count(w) = 0 /\ state[w] \in {"waiting", "dead"} /\ readySinceFork[w]
        BY <1>a, <2>1 DEF OnCourse, Taken, InLoop
    <2>3. toChild[w] = <<>>
        BY <1>a, <2>1, <2>2, ServedIsNotAsked
    <2>4. Head(todo) \in Pending /\ Head(todo) # None
        <3>1. Head(todo) \in Pending
            BY <2>1, HeadTailProperties DEF Typed, QueueTyped
        <3> QED BY <3>1, NoneAssumption
    <2>5. /\ ~idle'[w] /\ currentJob'[w] = Head(todo)
          /\ toChild'[w] = IF Alive(w) THEN <<Do(Head(todo).path)>> ELSE <<>>
          /\ UNCHANGED <<state, line, fromChild, buffer, pc, readySinceFork, pool, flake, task>>
        BY <1>1, <2>3, SlotTyped DEF Dispatch, environment
    <2>6. StreamOf(w)' = StreamOf(w) /\ Holds(w)'
        BY <2>4, <2>5 DEF StreamOf, Holds
    <2>7. Said(w)' /\ Doing(w)'
        BY <2>2, <2>5, <2>6, MessagesDiffer DEF Said, Doing, Count, Alive
    <2>8. Asked(w)'
        <3>1. CASE state[w] = "waiting"
            BY <2>2, <2>5, <2>6, <3>1, MessagesDiffer DEF Asked, Alive, Count
        <3>2. CASE state[w] = "dead"
            BY <2>5, <3>2 DEF Asked, Alive
        <3> QED BY <2>2, <3>1, <3>2
    <2>9. Taken(w)'
        <3>1. w <= pool /\ pool \in Nat /\ w \in Nat
            BY <2>1 DEF Pool, Typed, PoolTyped
        <3> QED BY <2>2, <2>5, <2>6, <3>1 DEF Taken
    <2>10. Others
        BY <1>1, <2>5, SlotTyped DEF Dispatch, Local, StreamOf
    <2>11. GoesOn
        BY <2>5 DEF GoesOn, InLoop
    <2> QED BY <2>5, <2>7, <2>8, <2>9, <2>10, <2>11, OneSlotMoves DEF OnCourse
<1>2. CASE FillBuffer(w)
    <2>1. \A v \in Slot : StreamOf(v)' = StreamOf(v)
        BY <1>2, StreamRead
    <2>2. /\ UNCHANGED <<state, line, task, toChild, idle, readySinceFork, currentJob, flake, pool>>
          /\ GoesOn
        BY <1>2 DEF FillBuffer, environment, GoesOn, InLoop
    <2>3. \A v \in Slot : UNCHANGED Local(v)
        BY <2>1, <2>2 DEF Local
    <2>4. OnCourse(w)'
        BY <1>a, <2>2, <2>3, SlotStays
    <2> QED BY <2>2, <2>3, <2>4, OneSlotMoves
<1>3. CASE HandleReady(w) \/ HandleFatal(w)
    <2>1. PICK kind \in {"ready", "fatal"} :
              /\ TakesLine(w, {kind})
              /\ IF kind = "ready"
                 THEN idle' = [idle EXCEPT ![w] = TRUE]
                      /\ readySinceFork' = [readySinceFork EXCEPT ![w] = TRUE]
                 ELSE UNCHANGED <<idle, readySinceFork>>
        BY <1>3 DEF HandleReady, HandleFatal
    <2>2. UNCHANGED <<child, flake, pool, currentJob>> /\ FinishLine(w) /\ Serving(w)
        BY <1>3 DEF HandleReady, HandleFatal, TakesLine, environment
    <2>3. OnCourse(w)' /\ Others
        BY <1>a, <2>1, <2>2, TakingUnaskedOnCourse
    <2> QED BY <2>2, <2>3, FinishLineGoesOn, OneSlotMoves
<1>4. CASE HandleJob(w) \/ HandleError(w) \/ HandleIgnore(w) \/ HandleChildren(w)
               \/ HandleTooDeep(w)
    <2>1. PICK kinds \in SUBSET {"job", "ignore", "error", "oversized", "children"} :
              TakesLine(w, kinds)
        <3>1. \E kind \in {"job", "ignore", "error", "children"} : TakesLine(w, {kind})
            BY <1>4 DEF HandleJob, HandleError, HandleIgnore, HandleChildren, HandleTooDeep
        <3> QED BY <3>1
    <2>2. AnswerFrame(w) /\ ReleaseJob(w)
        BY <1>4 DEF HandleJob, HandleError, HandleIgnore, HandleChildren, HandleTooDeep
    <2>3. /\ UNCHANGED <<child, flake, pool, idle, readySinceFork>> /\ FinishLine(w)
          /\ currentJob' = [currentJob EXCEPT ![w] = None] /\ Serving(w)
        BY <2>1, <2>2 DEF AnswerFrame, ReleaseJob, environment, TakesLine
    <2>4. OnCourse(w)' /\ Others
        BY <1>a, <2>1, <2>3, TakingAnswerOnCourse
    <2> QED BY <2>3, <2>4, FinishLineGoesOn, OneSlotMoves
<1>5. CASE HandleRestart(w) \/ ReplaceWorker(w)
    <2>1. Serving(w) /\ UNCHANGED <<flake, pool>>
        BY <1>5 DEF HandleRestart, ReplaceWorker, SeesDeath, environment
    <2>2. CASE ForkFails(w)
        <3>1. OnCourse(w)' /\ Others /\ ~InLoop'
            BY <1>a, <2>2, ForkFailsOnCourse
        <3>2. GoesOn
            BY <2>1, <3>1 DEF GoesOn, Serving
        <3> QED BY <2>1, <3>1, <3>2, OneSlotMoves
    <2>3. CASE (\E failures : NewWorker(w, failures)) /\ LeaveSlot(w)
        <3>1. OnCourse(w)' /\ Others
            BY <2>3, NewWorkerOnCourse
        <3> QED BY <2>1, <2>3, <3>1, FinishLineGoesOn, OneSlotMoves
    <2> QED BY <1>5, <2>2, <2>3 DEF HandleRestart, ReplaceWorker
<1>6. CASE GiveUp(w)
    <2>1. ~Holds(w) /\ ~idle[w] /\ fromChild[w] = <<>> /\ state[w] = "dead"
        BY <1>6, <1>a, NothingSaidBeforeReady DEF GiveUp
    <2>2. /\ UNCHANGED <<child, flake, pool, idle, readySinceFork>> /\ LeaveSlot(w) /\ Serving(w)
          /\ currentJob' = [currentJob EXCEPT ![w] = None]
          /\ buffer' = [buffer EXCEPT ![w] = <<>>]
        BY <1>6 DEF GiveUp, SeesDeath, environment
    <2>3. UNCHANGED <<state, line, task, toChild, fromChild>>
        BY <2>2 DEF child
    <2>4. ~Holds(w)' /\ Count(w)' = 0
        BY <2>1, <2>2, <2>3, SlotTyped, StreamEmpty DEF Holds, StreamOf, Count
    <2>5. toChild[w] = <<>>
        BY <1>a, <2>1, <2>2, ServedIsNotAsked DEF Serving
    <2>6. OnCourse(w)'
        BY <2>1, <2>2, <2>3, <2>4, <2>5 DEF OnCourse, Said, Doing, Asked, Taken
    <2>7. Others
        BY <2>2, <2>3, SlotTyped DEF Local, StreamOf
    <2> QED BY <2>2, <2>6, <2>7, FinishLineGoesOn, OneSlotMoves
<1>7. CASE ClosePipes(w)
    <2>1. UNCHANGED <<child, flake, pool, pool_>> /\ pc' = pc
        BY <1>7 DEF ClosePipes, environment, pool_
    <2>2. \A v \in Slot : UNCHANGED Local(v)
        BY <2>1 DEF child, pool_, Local, StreamOf
    <2>3. GoesOn
        BY <2>1 DEF GoesOn, InLoop
    <2>4. OnCourse(w)'
        BY <1>a, <2>1, <2>2, <2>3, SlotStays
    <2> QED BY <2>1, <2>2, <2>3, <2>4, OneSlotMoves
<1>8. CASE WaitForChild(w)
    <2>1. UNCHANGED <<flake, pool, idle, readySinceFork, currentJob, buffer>> /\ pc' = "unwind"
        BY <1>8 DEF WaitForChild, environment, pool_
    <2>2. state'[w] = "none" /\ toChild'[w] = <<>> /\ fromChild'[w] = <<>>
        BY <1>8, SlotTyped DEF WaitForChild, Reaped
    <2>3. Others
        BY <1>8, <2>1, SlotTyped DEF WaitForChild, Reaped, Local, StreamOf
    <2>4. GoesOn /\ ~InLoop'
        BY <1>8, <2>1 DEF WaitForChild, GoesOn, InLoop
    <2>5. OnCourse(w)'
        BY <1>a, <2>1, <2>2, <2>4, PipeLost
    <2> QED BY <2>1, <2>3, <2>4, <2>5, OneSlotMoves
<1> QED BY <1>1, <1>2, <1>3, <1>4, <1>5, <1>6, <1>7, <1>8 DEF SlotStep

-----------------------------------------------------------------------------
(* The loop itself *)

LEMMA InitOnCourse == Init => AllOnCourse
<1> SUFFICES ASSUME Init, NEW w \in Slot PROVE OnCourse(w)
    BY DEF AllOnCourse
<1>1. /\ state[w] = "none" /\ toChild[w] = <<>> /\ fromChild[w] = <<>> /\ buffer[w] = <<>>
      /\ ~idle[w] /\ ~Holds(w)
    BY DEF Init, WorkerInit, Holds
<1>2. Count(w) = 0
    BY <1>1, StreamEmpty
<1> QED BY <1>1, <1>2 DEF OnCourse, Said, Doing, Asked, Taken

\* The processes and their pipes are gone, all at once.
LEMMA AllLost ==
    ASSUME Typed, AllOnCourse, ~InLoop', UNCHANGED <<flake, pool_>>,
           state' = [w \in Slot |-> "none"], toChild' = [w \in Slot |-> <<>>],
           fromChild' = [w \in Slot |-> <<>>]
    PROVE  AllOnCourse'
<1> SUFFICES ASSUME NEW w \in Slot PROVE OnCourse(w)'
    BY DEF AllOnCourse
<1>1. state'[w] = "none" /\ toChild'[w] = <<>> /\ fromChild'[w] = <<>>
    OBVIOUS
<1>2. OnCourse(w) /\ UNCHANGED <<pool, idle, readySinceFork, currentJob, buffer>>
    BY DEF AllOnCourse, pool_
<1> QED BY <1>1, <1>2, PipeLost

LEMMA LoopStepOnCourse ==
    ASSUME Typed, AllOnCourse, LoopStep \/ EmitFails
    PROVE  AllOnCourse'
<1>1. CASE GrowPool
    <2>1. PICK w \in Slot : w = pool + 1
        BY <1>1, WorkerAssumption DEF GrowPool, MaySpawn, Typed, PoolTyped, Slot
    <2>2. UNCHANGED flake /\ pc = "top" /\ GoesOn
        BY <1>1 DEF GrowPool, environment, GoesOn, InLoop, ForkFails
    <2>3. /\ OnCourse(w)' /\ \A v \in Slot \ {w} : UNCHANGED Local(v)
          /\ pool' = pool \/ pool' = pool + 1
        <3>1. CASE NewWorker(w, 0) /\ pool' = pool + 1
            BY <3>1, NewWorkerOnCourse
        <3>2. CASE ForkFails(w) /\ UNCHANGED pool
            BY <3>2, ForkFailsOnCourse DEF AllOnCourse
        <3> QED BY <1>1, <2>1, <3>1, <3>2 DEF GrowPool
    <2>4. ASSUME NEW v \in Slot \ {w}
          PROVE  OnCourse(v)'
        BY <2>2, <2>3, <2>4, SlotStays DEF AllOnCourse
    <2> QED BY <2>3, <2>4 DEF AllOnCourse
<1>2. CASE StopIfInterrupted \/ KeepPool \/ EndDispatch \/ Poll \/ PollFails \/ FinishFatal
               \/ FinishDone \/ ExitOnException
    <2>1. UNCHANGED <<child, flake, pool_>>
        BY <1>2 DEF StopIfInterrupted, KeepPool, EndDispatch, Poll, PollFails, FinishFatal,
                    FinishDone, ExitOnException, environment
    <2>2. GoesOn
        BY <1>2 DEF StopIfInterrupted, KeepPool, EndDispatch, Poll, PollFails, FinishFatal,
                    FinishDone, ExitOnException, ExitWith, GoesOn, InLoop
    <2>3. ASSUME NEW v \in Slot
          PROVE  OnCourse(v)'
        <3>1. UNCHANGED <<Local(v), pool, flake>>
            BY <2>1 DEF child, pool_, Local, StreamOf
        <3> QED BY <2>2, <3>1, SlotStays DEF AllOnCourse
    <2> QED BY <2>3 DEF AllOnCourse
<1>3. CASE AskToExit
    <2> SUFFICES ASSUME NEW w \in Slot PROVE OnCourse(w)'
        BY DEF AllOnCourse
    <2>1. OnCourse(w) /\ toChild[w] \in Seq(Request)
        BY SlotTyped DEF AllOnCourse
    <2>2. /\ toChild'[w] = IF Alive(w) THEN Append(toChild[w], Exit) ELSE toChild[w]
          /\ pc = "teardown" /\ pc' = "kill"
          /\ UNCHANGED <<state, line, task, fromChild, flake, pool, idle, readySinceFork,
                         currentJob, buffer>>
        BY <1>3 DEF AskToExit, environment, pool_
    <2>3. StreamOf(w)' = StreamOf(w)
        BY <2>2 DEF StreamOf
    <2>4. UNCHANGED <<Count(w), Holds(w), Reply(w), Alive(w)>>
        BY <2>2, <2>3 DEF Count, Holds, Reply, Alive
    <2>5. Said(w)' /\ Taken(w)'
        BY <2>1, <2>2, <2>3, <2>4 DEF OnCourse, Said, Taken, InLoop
    <2>6. \A i \in DOMAIN toChild[w] : i = 1 /\ toChild[w][i] # Exit
        BY <2>1, <2>2 DEF OnCourse, Asked
    <2>7. Len(toChild[w]) \in Nat /\ Len(toChild[w]) <= 1
        <3>1. Len(toChild[w]) \in Nat /\ DOMAIN toChild[w] = 1..Len(toChild[w])
            BY <2>1
        <3>2. \A n \in Nat : (\A i \in 1..n : i = 1) => n <= 1
            <4>1. ASSUME NEW n \in Nat, \A i \in 1..n : i = 1, ~(n <= 1)
                  PROVE  FALSE
                <5>1. 2 \in 1..n
                    BY <4>1
                <5> QED BY <4>1, <5>1
            <4> QED BY <4>1
        <3> QED BY <2>6, <3>1, <3>2
    <2>8. CASE Alive(w)
        <3>1. toChild'[w] = Append(toChild[w], Exit)
            BY <2>2, <2>8
        <3>2. Exit \in Request
            BY DEF Request
        <3>3. /\ Len(toChild'[w]) = Len(toChild[w]) + 1
              /\ DOMAIN toChild'[w] = 1..(Len(toChild[w]) + 1)
              /\ \A i \in 1..Len(toChild[w]) : toChild'[w][i] = toChild[w][i]
              /\ toChild'[w][Len(toChild[w]) + 1] = Exit
            BY <2>1, <3>1, <3>2, AppendProperties
        <3>4. Len(toChild'[w]) <= 2
            BY <2>7, <3>3
        <3>5. ASSUME NEW i \in DOMAIN toChild'[w]
              PROVE  \/ toChild'[w][i] = Exit /\ i = Len(toChild'[w])
                     \/ i \in DOMAIN toChild[w] /\ toChild'[w][i] = toChild[w][i]
            BY <2>7, <3>3
        <3>6. Asked(w)'
            BY <2>1, <2>2, <2>4, <2>6, <3>4, <3>5 DEF OnCourse, Asked
        <3>7. Doing(w)'
            <4>1. toChild[w] # <<>> => toChild'[w] # <<>> /\ toChild'[w][1] = toChild[w][1]
                BY <2>1, <2>7, <3>3
            <4> QED BY <2>1, <2>2, <2>3, <2>4, <4>1 DEF OnCourse, Doing
        <3> QED BY <2>5, <3>6, <3>7 DEF OnCourse
    <2>9. CASE ~Alive(w)
        <3>1. toChild'[w] = toChild[w]
            BY <2>2, <2>9
        <3>2. Doing(w)' /\ Asked(w)'
            BY <2>1, <2>2, <2>3, <2>4, <2>6, <3>1 DEF OnCourse, Doing, Asked
        <3> QED BY <2>5, <3>2 DEF OnCourse
    <2> QED BY <2>8, <2>9
<1>4. CASE KillWorkers
    BY <1>4, AllLost DEF KillWorkers, InLoop, environment
<1>5. CASE EmitFails
    BY <1>5, AllLost DEF EmitFails, ExitWith, InLoop, environment
<1> QED BY <1>1, <1>2, <1>3, <1>4, <1>5 DEF LoopStep

LEMMA StepOnCourse == Typed /\ AllOnCourse /\ [Next]_vars => AllOnCourse'
<1> SUFFICES ASSUME Typed, AllOnCourse, [Next]_vars PROVE AllOnCourse'
    OBVIOUS
<1>1. CASE CoordinatorStep
    BY <1>1, LoopStepOnCourse, SlotStepOnCourse DEF CoordinatorStep
<1>2. ASSUME NEW w \in Slot, ChildStep(w) \/ ChildCrash(w)
      PROVE  AllOnCourse'
    <2>1. /\ WorkerStep(w) \/ Crash(w)
          /\ UNCHANGED <<pc, idle, readySinceFork, currentJob, pool, buffer>>
        BY <1>2 DEF ChildStep, ChildCrash, pool_
    <2>2. OnCourse(w)' /\ \A v \in Slot \ {w} : UNCHANGED Local(v)
        BY <2>1, WorkerStepOnCourse DEF AllOnCourse
    <2>3. UNCHANGED flake
        BY <2>1 DEF WorkerStep, Crash, StartEvaluator, WriteBody, WriteNewline, WriteFails,
                    MeasureMemory, ReadRequest, ReadExit, Evaluate, EvaluationKills,
                    LeaveLoop, ExitWorker, environment
    <2> QED BY <2>1, <2>2, <2>3, OneSlotMoves DEF GoesOn, InLoop
<1>3. CASE Interrupt \/ UNCHANGED vars
    <2>1. UNCHANGED <<child, flake, pool_, pc>>
        BY <1>3 DEF Interrupt, vars, environment
    <2>2. GoesOn
        BY <2>1 DEF GoesOn, InLoop
    <2>3. ASSUME NEW v \in Slot
          PROVE  OnCourse(v)'
        <3>1. UNCHANGED <<Local(v), pool, flake>>
            BY <2>1 DEF child, pool_, Local, StreamOf
        <3> QED BY <2>2, <3>1, SlotStays DEF AllOnCourse
    <2> QED BY <2>3 DEF AllOnCourse
<1> QED BY <1>1, <1>2, <1>3 DEF Next, Exited

-----------------------------------------------------------------------------
(* The coordinator and its workers agree *)

\* A slot that is on course is concerned with one attribute at most, in one
\* place.
LEMMA OnCourseOneJob ==
    ASSUME Typed, NEW w \in Slot, OnCourse(w)
    PROVE  /\ \A one, other \in Traffic(w) : one = other
           /\ \A one \in Traffic(w) : Holds(w) /\ currentJob[w].path = one.path
<1>1. Said(w) /\ Doing(w) /\ Asked(w)
    BY DEF OnCourse
<1>2. /\ StreamOf(w) \in Seq(Token) /\ DOMAIN StreamOf(w) = 1..Count(w) /\ Count(w) \in Nat
      /\ Count(w) <= 4
    <2>1. StreamOf(w) \in Seq(Token)
        BY StreamLength
    <2>2. DOMAIN StreamOf(w) = 1..Len(StreamOf(w)) /\ Len(StreamOf(w)) \in Nat
        BY <2>1, LenProperties
    <2>3. Count(w) <= 4
        BY <1>1 DEF Said
    <2> QED BY <2>1, <2>2, <2>3 DEF Count
<1>3. ASSUME NEW i \in DOMAIN StreamOf(w), IsAnswer(StreamOf(w)[i])
      PROVE  i = 1 /\ Holds(w) /\ StreamOf(w)[1] = Reply(w) /\ Count(w) >= 1
    <2>1. i \in {1, 2, 3, 4}
        BY <1>2
    <2> QED BY <1>1, <1>2, <1>3, <2>1, MessagesDiffer DEF Said, Unasked
<1>4. Reply(w).path = currentJob[w].path
    BY ResponsePath DEF Reply
<1>5. ASSUME NEW i \in DOMAIN toChild[w], toChild[w][i] # Exit
      PROVE  /\ i = 1 /\ Holds(w) /\ Count(w) = 0 /\ state[w] = "waiting"
             /\ toChild[w][i].path = currentJob[w].path
    BY <1>1, <1>5 DEF Asked, Do
<1>6. ASSUME state[w] = "evaluating"
      PROVE  Holds(w) /\ Count(w) = 0 /\ task[w] = currentJob[w].path
    BY <1>1, <1>6 DEF Doing
<1>7. ASSUME state[w] = "body", IsAnswer(line[w])
      PROVE  Holds(w) /\ Count(w) = 0 /\ line[w] = Reply(w)
    BY <1>1, <1>7, MessagesDiffer DEF Doing, Unasked
<1>8. ASSUME NEW one \in Traffic(w)
      PROVE  /\ Holds(w) /\ currentJob[w].path = one.path
             /\ \/ one = [at |-> <<"answer", 1>>, path |-> currentJob[w].path] /\ Count(w) >= 1
                \/ /\ one = [at |-> <<"request", 1>>, path |-> currentJob[w].path]
                   /\ Count(w) = 0 /\ state[w] = "waiting"
                \/ /\ one = [at |-> <<"task", 1>>, path |-> currentJob[w].path]
                   /\ Count(w) = 0 /\ state[w] = "evaluating"
                \/ /\ one = [at |-> <<"line", 1>>, path |-> currentJob[w].path]
                   /\ Count(w) = 0 /\ state[w] = "body"
    <2>1. CASE \E i \in DOMAIN StreamOf(w) :
                   IsAnswer(StreamOf(w)[i])
                   /\ one = [at |-> <<"answer", i>>, path |-> StreamOf(w)[i].path]
        BY <1>3, <1>4, <2>1
    <2>2. CASE \E i \in DOMAIN toChild[w] :
                   toChild[w][i] # Exit
                   /\ one = [at |-> <<"request", i>>, path |-> toChild[w][i].path]
        BY <1>5, <2>2
    <2>3. CASE state[w] = "evaluating" /\ one = [at |-> <<"task", 1>>, path |-> task[w]]
        BY <1>6, <2>3
    <2>4. CASE /\ state[w] = "body" /\ IsAnswer(line[w])
               /\ one = [at |-> <<"line", 1>>, path |-> line[w].path]
        BY <1>4, <1>7, <2>4
    <2> QED BY <1>8, <2>1, <2>2, <2>3, <2>4 DEF Traffic
<1>9. ASSUME NEW one \in Traffic(w), NEW other \in Traffic(w)
      PROVE  one = other
    BY <1>2, <1>8
<1> QED BY <1>8, <1>9

LEMMA OnCourseListens ==
    ASSUME Typed, NEW w \in Slot, OnCourse(w), idle[w], InLoop
    PROVE  /\ currentJob[w] = None /\ fromChild[w] = <<>> /\ buffer[w] = <<>>
           /\ state[w] \in {"waiting", "dead"}
<1>1. ~Holds(w) /\ Count(w) = 0 /\ state[w] \in {"waiting", "dead"}
    BY DEF OnCourse, Taken
<1>2. /\ buffer[w] \in Seq(Token) /\ fromChild[w] \in Seq(Token)
      /\ Len(buffer[w]) \in Nat /\ Len(fromChild[w]) \in Nat
      /\ Count(w) = Len(buffer[w]) + Len(fromChild[w])
    BY StreamLength
<1>3. Len(buffer[w]) = 0 /\ Len(fromChild[w]) = 0
    <2>1. \A a, b \in Nat : a + b = 0 => a = 0 /\ b = 0
        OBVIOUS
    <2> QED BY <1>1, <1>2, <2>1
<1> QED BY <1>1, <1>2, <1>3 DEF Holds

\* Whatever crashes, is restarted or split across reads, a worker is never
\* concerned with more than the one attribute that Worker::currentJob has it
\* down for, no answer is taken for the answer to something else, and a worker
\* taken to be idle (Worker::idle) has nothing to do and nothing more to say.
THEOREM CoordinatorAndWorkersAgree == Spec => []WorkersInStep
<1>1. Init => Typed /\ AllOnCourse
    BY InitTyped, InitOnCourse
<1>2. Typed /\ AllOnCourse => WorkersInStep
    BY OnCourseOneJob, OnCourseListens
       DEF AllOnCourse, WorkersInStep, OneJobPerWorker, IdleWorkersListen, InLoop, Holds
<1> QED BY <1>1, <1>2, StepTyped, StepOnCourse, PTL DEF Spec

-----------------------------------------------------------------------------
(* What a step does to the attributes *)

QueueStays == UNCHANGED <<todo, active, verdict, currentJob>>

\* The first attribute waiting goes to a worker that has none.
HandsOut(w) ==
    /\ ~Holds(w)
    /\ todo # <<>>
    /\ todo' = Tail(todo)
    /\ currentJob' = [currentJob EXCEPT ![w] = Head(todo)]
    /\ active' = active + 1
    /\ UNCHANGED verdict

\* A worker's attribute is taken from it.
LetsGo(w) ==
    /\ Holds(w)
    /\ currentJob' = [currentJob EXCEPT ![w] = None]
    /\ active' = OneFewer

\* What an answer that can be settled concludes.
Conclusion(path) ==
    CASE flake[path].kind = "job" -> "job"
      [] flake[path].kind = "throws" -> "error"
      [] flake[path].kind = "ignore" -> "ignored"
      [] OTHER -> IF TooDeep(path) THEN "too deep" ELSE "expanded"

\* It is settled by the answer of the flake.
Settles(w) ==
    /\ LetsGo(w)
    /\ LET path == currentJob[w].path
       IN  /\ flake[path].kind \in {"job", "throws", "ignore", "children"}
           /\ Conclude(path, Conclusion(path))
           /\ IF Conclusion(path) = "expanded"
              THEN todo' = todo \o Children(path, Dumped(flake[path].children))
              ELSE UNCHANGED todo

Again(job) == [job EXCEPT !.attempts = @ + 1]

\* Its worker has died, and it goes back to the front of the queue.
Requeues(w) ==
    /\ LetsGo(w)
    /\ ShouldRetry(currentJob[w].attempts)
    /\ todo' = <<Again(currentJob[w])>> \o todo
    /\ UNCHANGED verdict

\* Or too many of them have.
Blames(w) ==
    /\ LetsGo(w)
    /\ ~ShouldRetry(currentJob[w].attempts)
    /\ Conclude(currentJob[w].path, "died")
    /\ UNCHANGED todo

Moves == \E w \in Slot : HandsOut(w) \/ Settles(w) \/ Requeues(w) \/ Blames(w)

\* The run is about to say that it is done, or has: nothing is waiting and
\* nothing is with a worker.
Ending ==
    /\ pc \in {"teardown", "kill", "finish"} /\ ~fatal => Finished
    /\ done => pc = "exited" /\ exitCode = 0 /\ ~fatal /\ Finished

-----------------------------------------------------------------------------
(* Every step is a move or leaves the attributes alone *)

\* What was asked about is an attribute path with an outcome.
LEMMA JobTyped ==
    ASSUME Typed, NEW w \in Slot, Holds(w)
    PROVE  /\ currentJob[w] \in Pending /\ currentJob[w].path \in AttrPath
           /\ currentJob[w].attempts \in Nat
           /\ flake[currentJob[w].path] \in Outcome
BY DEF Typed, WorkersTyped, WorkerTypeOK, PoolTyped, Holds, Pending

\* The kind of an answer tells the kind of the outcome.
LEMMA ReplyKinds ==
    ASSUME NEW path, NEW outcome \in Outcome
    PROVE  LET reply == Response(path, outcome)
           IN  /\ reply.path = path
               /\ reply.t = "job" => outcome.kind = "job"
               /\ reply.t = "error" => outcome.kind = "throws"
               /\ reply.t = "ignore" => outcome.kind = "ignore"
               /\ reply.t = "children" =>
                      outcome.kind = "children" /\ reply.children = Dumped(outcome.children)
<1>1. outcome.kind \in OutcomeKind
    BY DEF Outcome
<1>2. CASE outcome.kind = "children"
    BY <1>2 DEF Response
<1>3. CASE outcome.kind = "throws"
    BY <1>3 DEF Response
<1>4. CASE outcome.kind \in {"job", "ignore", "kills", "oversized"}
    BY <1>4 DEF Response
<1> QED BY <1>1, <1>2, <1>3, <1>4 DEF OutcomeKind

LEMMA AnswerSettles ==
    ASSUME Typed, NEW w \in Slot, OnCourse(w),
           HandleJob(w) \/ HandleError(w) \/ HandleIgnore(w) \/ HandleChildren(w)
               \/ HandleTooDeep(w)
    PROVE  Settles(w)
<1>1. PICK kind \in {"job", "error", "ignore", "children"} : TakesLine(w, {kind})
    BY DEF HandleJob, HandleError, HandleIgnore, HandleChildren, HandleTooDeep
<1>2. AnswerFrame(w) /\ ReleaseJob(w) /\ UNCHANGED fromChild
    BY DEF HandleJob, HandleError, HandleIgnore, HandleChildren, HandleTooDeep, AnswerFrame,
           child
<1>3. Holds(w) /\ Message(w) = Reply(w)
    BY <1>1, <1>2, AnswerIsReply
<1> DEFINE path == currentJob[w].path
<1>4. path \in AttrPath /\ flake[path] \in Outcome
    BY <1>3, JobTyped
<1>5. LetsGo(w)
    BY <1>2, <1>3 DEF ReleaseJob, LetsGo
<1>6. /\ Message(w).path = path
      /\ Message(w).t = "job" => flake[path].kind = "job"
      /\ Message(w).t = "error" => flake[path].kind = "throws"
      /\ Message(w).t = "ignore" => flake[path].kind = "ignore"
      /\ Message(w).t = "children" => /\ flake[path].kind = "children"
                                      /\ Message(w).children = Dumped(flake[path].children)
    BY <1>3, <1>4, ReplyKinds DEF Reply
<1>7. CASE HandleJob(w)
    BY <1>5, <1>6, <1>7 DEF HandleJob, TakesLine, Settles, Conclusion
<1>8. CASE HandleError(w)
    BY <1>5, <1>6, <1>8 DEF HandleError, TakesLine, Settles, Conclusion
<1>9. CASE HandleIgnore(w)
    BY <1>5, <1>6, <1>9 DEF HandleIgnore, TakesLine, Settles, Conclusion
<1>10. CASE HandleChildren(w)
    <2>1. Conclusion(path) = "expanded" /\ flake[path].kind = "children"
        BY <1>6, <1>10 DEF HandleChildren, TakesLine, Conclusion
    <2>2. /\ todo' = todo \o Children(path, Dumped(flake[path].children))
          /\ Conclude(path, "expanded")
        BY <1>6, <1>10 DEF HandleChildren, TakesLine
    <2> QED BY <1>5, <2>1, <2>2 DEF Settles
<1>11. CASE HandleTooDeep(w)
    BY <1>5, <1>6, <1>11 DEF HandleTooDeep, TakesLine, Settles, Conclusion
<1> QED BY <1>7, <1>8, <1>9, <1>10, <1>11

\* Taking a job from a worker that has none changes nothing.
LEMMA NothingTaken ==
    ASSUME Typed, NEW w \in Slot, ~Holds(w), currentJob' = [currentJob EXCEPT ![w] = None]
    PROVE  currentJob' = currentJob
BY SlotTyped DEF Holds

LEMMA GivingBackMoves ==
    ASSUME Typed, NEW w \in Slot, GiveBackJob(w),
           currentJob' = [currentJob EXCEPT ![w] = None]
    PROVE  QueueStays \/ Requeues(w) \/ Blames(w)
<1>1. CASE Holds(w)
    BY <1>1 DEF Holds, GiveBackJob, RequeueOrBlame, LetsGo, Requeues, Blames, Again
<1>2. CASE ~Holds(w)
    BY <1>2, NothingTaken DEF Holds, GiveBackJob, QueueStays, queue
<1> QED BY <1>1, <1>2

\* A worker that has asked to be restarted has no attribute.
LEMMA RestartedHoldsNone ==
    ASSUME Typed, NEW w \in Slot, OnCourse(w), HandleRestart(w)
    PROVE  ~Holds(w)
<1>1. buffer[w] \in Seq(Token) /\ buffer[w] # <<>> /\ Message(w).t = "restart"
    BY SlotTyped DEF HandleRestart, HasLine, HasNewline
<1>2. 1 \in 1..Len(buffer[w]) /\ Message(w) = buffer[w][1]
    BY <1>1 DEF Message
<1>3. Count(w) >= 1 /\ StreamOf(w)[1].t = "restart"
    <2>1. Len(buffer[w]) \in Nat /\ Count(w) \in Nat /\ Len(buffer[w]) <= Count(w)
        BY StreamLength
    <2>2. StreamOf(w)[1] = buffer[w][1]
        BY <1>2, StreamElements
    <2> QED BY <1>1, <1>2, <2>1, <2>2
<1>4. ~IsAnswer(StreamOf(w)[1]) /\ StreamOf(w)[1] \notin {Torn, Fatal}
    BY <1>3 DEF IsAnswer, Torn, Fatal
<1> QED BY <1>3, <1>4 DEF OnCourse, Said

LEMMA SlotStepMoves ==
    ASSUME Typed, AllOnCourse, NEW w \in Slot, SlotStep(w)
    PROVE  \/ QueueStays
           \/ (HandsOut(w) \/ Settles(w) \/ Requeues(w) \/ Blames(w))
<1>a. OnCourse(w)
    BY DEF AllOnCourse
<1>1. CASE Dispatch(w)
    <2>1. ~Holds(w)
        BY <1>1, <1>a DEF Dispatch, Dispatchable, OnCourse, Taken
    <2> QED BY <1>1, <2>1 DEF Dispatch, Dispatchable, HandsOut
<1>2. CASE FillBuffer(w) \/ HandleReady(w) \/ HandleFatal(w)
    BY <1>2 DEF FillBuffer, HandleReady, HandleFatal, QueueStays, queue
<1>3. CASE HandleJob(w) \/ HandleError(w) \/ HandleIgnore(w) \/ HandleChildren(w)
               \/ HandleTooDeep(w)
    BY <1>3, <1>a, AnswerSettles
<1>4. CASE HandleRestart(w)
    <2>1. ~Holds(w)
        BY <1>4, <1>a, RestartedHoldsNone
    <2>2. currentJob' = [currentJob EXCEPT ![w] = None] /\ UNCHANGED queue
        BY <1>4 DEF HandleRestart, NewWorker, ForkFails
    <2> QED BY <2>1, <2>2, NothingTaken DEF QueueStays, queue
<1>5. CASE GiveUp(w) \/ ReplaceWorker(w)
    <2>1. GiveBackJob(w) /\ currentJob' = [currentJob EXCEPT ![w] = None]
        BY <1>5 DEF GiveUp, ReplaceWorker, NewWorker, ForkFails
    <2> QED BY <2>1, GivingBackMoves
<1>6. CASE ClosePipes(w) \/ WaitForChild(w)
    BY <1>6 DEF ClosePipes, WaitForChild, QueueStays, queue, pool_
<1> QED BY <1>1, <1>2, <1>3, <1>4, <1>5, <1>6 DEF SlotStep

LEMMA LoopStepMoves ==
    ASSUME Typed, AllOnCourse, LoopStep \/ EmitFails
    PROVE  QueueStays
<1>1. CASE GrowPool
    <2>1. PICK w \in Slot : w = pool + 1
        BY <1>1, WorkerAssumption DEF GrowPool, MaySpawn, Typed, PoolTyped, Slot
    <2>2. ~Holds(w)
        <3>1. w > pool
            BY <2>1 DEF Typed, PoolTyped
        <3> QED BY <3>1 DEF AllOnCourse, OnCourse, Taken
    <2>3. currentJob' = [currentJob EXCEPT ![w] = None] /\ UNCHANGED queue
        BY <1>1, <2>1 DEF GrowPool, NewWorker, ForkFails
    <2> QED BY <2>2, <2>3, NothingTaken DEF QueueStays, queue
<1>2. CASE ~GrowPool
    BY <1>2 DEF LoopStep, StopIfInterrupted, KeepPool, EndDispatch, Poll, PollFails, AskToExit,
                KillWorkers, FinishFatal, FinishDone, ExitOnException, EmitFails,
                QueueStays, queue, pool_
<1> QED BY <1>1, <1>2

\* Moves are made in the loop, by nobody but the coordinator.
LEMMA StepMoves ==
    ASSUME Typed, AllOnCourse, [Next]_vars
    PROVE  /\ QueueStays \/ Moves
           /\ UNCHANGED flake
<1>1. CASE LoopStep \/ EmitFails
    <2>1. UNCHANGED flake
        BY <1>1 DEF LoopStep, StopIfInterrupted, GrowPool, KeepPool, EndDispatch, Poll, PollFails, AskToExit,
                KillWorkers, FinishFatal, FinishDone, ExitOnException, EmitFails, environment
    <2> QED BY <1>1, <2>1, LoopStepMoves
<1>2. ASSUME NEW w \in Slot, SlotStep(w)
      PROVE  (QueueStays \/ Moves) /\ UNCHANGED flake
    <2>1. UNCHANGED flake
        BY <1>2 DEF SlotStep, Dispatch, FillBuffer, HandleReady, HandleRestart, HandleFatal,
                HandleJob, HandleError, HandleIgnore, HandleChildren, HandleTooDeep,
                AnswerFrame, GiveUp, ReplaceWorker, ClosePipes, WaitForChild, environment
    <2> QED BY <1>2, <2>1, SlotStepMoves DEF Moves
<1>3. CASE \E w \in Slot : ChildStep(w) \/ ChildCrash(w)
    BY <1>3 DEF ChildStep, ChildCrash, WorkerStep, Crash, StartEvaluator, WriteBody,
                WriteNewline, WriteFails, MeasureMemory, ReadRequest, ReadExit, Evaluate,
                EvaluationKills, LeaveLoop, ExitWorker, environment, QueueStays, queue, pool_
<1>4. CASE Interrupt \/ UNCHANGED vars
    BY <1>4 DEF Interrupt, vars, environment, QueueStays, queue, pool_
<1> QED BY <1>1, <1>2, <1>3, <1>4 DEF Next, CoordinatorStep, Exited

-----------------------------------------------------------------------------
(* The count of attributes in flight *)

LEMMA HoldersFinite == IsFiniteSet(Holders)
<1>1. IsFiniteSet(Slot)
    BY WorkerAssumption, FS_Interval DEF Slot
<1>2. Holders \in SUBSET Slot
    BY DEF Holders
<1> QED BY <1>1, <1>2, FS_Subset

\* The attribute at the head of the queue is one.
LEMMA HeadIsJob ==
    ASSUME Typed, todo # <<>>
    PROVE  Head(todo) \in Pending /\ Head(todo) # None
<1>1. Head(todo) \in Pending
    BY HeadTailProperties DEF Typed, QueueTyped
<1> QED BY <1>1, NoneAssumption

LEMMA HandingOutHolders ==
    ASSUME Typed, NEW w \in Slot, HandsOut(w)
    PROVE  Holders' = Holders \cup {w} /\ w \notin Holders
<1>1. Head(todo) # None
    BY HeadIsJob DEF HandsOut
<1> QED BY <1>1, SlotTyped DEF HandsOut, Holders, Holds

LEMMA LettingGoHolders ==
    ASSUME Typed, NEW w \in Slot, LetsGo(w)
    PROVE  Holders' = Holders \ {w} /\ w \in Holders
BY SlotTyped DEF LetsGo, Holders, Holds

LEMMA StepCounts ==
    ASSUME Typed, AllOnCourse, ActiveCountsJobs, [Next]_vars
    PROVE  ActiveCountsJobs'
<1>1. CASE QueueStays
    BY <1>1 DEF QueueStays, ActiveCountsJobs, Holders
<1>2. ASSUME NEW w \in Slot, HandsOut(w)
      PROVE  ActiveCountsJobs'
    <2>1. Holders' = Holders \cup {w} /\ w \notin Holders
        BY <1>2, HandingOutHolders
    <2>2. Cardinality(Holders \cup {w}) = Cardinality(Holders) + 1
        BY <2>1, HoldersFinite, FS_AddElement
    <2> QED BY <1>2, <2>1, <2>2 DEF HandsOut, ActiveCountsJobs
<1>3. ASSUME NEW w \in Slot, LetsGo(w)
      PROVE  ActiveCountsJobs'
    <2>1. Holders' = Holders \ {w} /\ w \in Holders
        BY <1>3, LettingGoHolders
    <2>2. /\ Cardinality(Holders \ {w}) = Cardinality(Holders) - 1
          /\ IsFiniteSet(Holders \ {w})
        BY <2>1, HoldersFinite, FS_RemoveElement
    <2>3. Cardinality(Holders) \in Nat /\ Cardinality(Holders \ {w}) \in Nat
        BY <2>2, HoldersFinite, FS_CardinalityType
    <2>4. active > 0 /\ active' = active - 1
        BY <1>3, <2>2, <2>3 DEF LetsGo, OneFewer, ActiveCountsJobs
    <2> QED BY <2>1, <2>2, <2>4 DEF ActiveCountsJobs
<1> QED BY <1>1, <1>2, <1>3, StepMoves DEF Moves, Settles, Requeues, Blames

LEMMA InitCounts == Init => ActiveCountsJobs
<1>1. Init => Holders = {}
    BY DEF Init, Holders
<1> QED BY <1>1, FS_EmptySet DEF Init, ActiveCountsJobs

\* The count of attributes in flight (activeJobs) is the number of workers that
\* hold one, whatever crashes: the clamp at zero in the answers' handlers never
\* bites, and the loop stops exactly when nothing is outstanding.
THEOREM ActiveIsExact == Spec => []ActiveCountsJobs
<1>1. Init => Typed /\ AllOnCourse /\ ActiveCountsJobs
    BY InitTyped, InitOnCourse, InitCounts
<1>2. Typed /\ AllOnCourse /\ ActiveCountsJobs /\ [Next]_vars => ActiveCountsJobs'
    BY StepCounts
<1> QED BY <1>1, <1>2, StepTyped, StepOnCourse, PTL DEF Spec

\* The run ends well only when there is nothing left to do.
LEMMA StepEnds ==
    ASSUME Ending, [Next]_vars
    PROVE  Ending'
<1>1. CASE LoopStep \/ EmitFails
    BY <1>1 DEF LoopStep, StopIfInterrupted, GrowPool, ForkFails, KeepPool, EndDispatch, Poll, PollFails,
                AskToExit, KillWorkers, FinishFatal, FinishDone, ExitOnException, EmitFails,
                AboutToEmit, Serving, SeesDeath, ExitWith, Ending, Finished, queue, run
<1>2. ASSUME NEW w \in Slot, SlotStep(w)
      PROVE  Ending'
    <2>1. ~done /\ UNCHANGED <<done, exitCode>>
        BY <1>2 DEF SlotStep, Dispatch, FillBuffer, HandleReady, HandleRestart, HandleFatal,
                    HandleJob, HandleError, HandleIgnore, HandleChildren, HandleTooDeep,
                    AnswerFrame, GiveUp, ReplaceWorker, ClosePipes, WaitForChild, TakesLine,
                    SeesDeath, Serving, Ending, run
    <2>2. pc' \in {"teardown", "kill", "finish"} => fatal'
        <3>1. CASE pc' = pc
            BY <1>2, <3>1 DEF SlotStep, Dispatch, FillBuffer, HandleReady, HandleRestart,
                    HandleFatal, HandleJob, HandleError, HandleIgnore, HandleChildren,
                    HandleTooDeep, GiveUp, ReplaceWorker, ClosePipes, WaitForChild, TakesLine,
                    SeesDeath, Serving
        <3>2. CASE pc' # pc
            BY <1>2, <3>2 DEF SlotStep, Dispatch, FillBuffer, HandleReady, HandleRestart,
                    HandleFatal, HandleJob, HandleError, HandleIgnore, HandleChildren,
                    HandleTooDeep, AnswerFrame, GiveUp, ReplaceWorker, ClosePipes,
                    WaitForChild, FinishLine, LeaveSlot, ForkFails
        <3> QED BY <3>1, <3>2
    <2> QED BY <2>1, <2>2 DEF Ending
<1>3. CASE (\E w \in Slot : ChildStep(w) \/ ChildCrash(w)) \/ Interrupt \/ UNCHANGED vars
    BY <1>3 DEF ChildStep, ChildCrash, Interrupt, vars, queue, run, Ending, Finished
<1> QED BY <1>1, <1>2, <1>3 DEF Next, CoordinatorStep, Exited

-----------------------------------------------------------------------------
(* The queue *)

\* The paths in a queue, and that none is in it twice.
PathsIn(jobs) == {jobs[i].path : i \in DOMAIN jobs}
Apart(jobs) == \A i, j \in DOMAIN jobs : jobs[i].path = jobs[j].path => i = j

LEMMA TakenFromQueue ==
    ASSUME NEW jobs \in Seq(Pending), jobs # <<>>, Apart(jobs)
    PROVE  /\ Apart(Tail(jobs))
           /\ PathsIn(jobs) = PathsIn(Tail(jobs)) \cup {Head(jobs).path}
           /\ Head(jobs).path \notin PathsIn(Tail(jobs))
<1>1. /\ Tail(jobs) \in Seq(Pending) /\ Len(Tail(jobs)) = Len(jobs) - 1
      /\ \A i \in 1..Len(Tail(jobs)) : Tail(jobs)[i] = jobs[i + 1]
    BY HeadTailProperties
<1>2. /\ Len(jobs) \in Nat /\ Len(jobs) >= 1 /\ Head(jobs) = jobs[1]
      /\ DOMAIN jobs = 1..Len(jobs)
    BY EmptySeq, LenProperties
<1>3. DOMAIN Tail(jobs) = 1..(Len(jobs) - 1)
    BY <1>1, LenProperties
<1>4. \A i \in DOMAIN Tail(jobs) :
          Tail(jobs)[i] = jobs[i + 1] /\ i + 1 \in DOMAIN jobs /\ i + 1 # 1 /\ i \in Nat
    BY <1>1, <1>2, <1>3
<1>5. Apart(Tail(jobs))
    <2>1. ASSUME NEW i \in DOMAIN Tail(jobs), NEW j \in DOMAIN Tail(jobs),
                 Tail(jobs)[i].path = Tail(jobs)[j].path
          PROVE  i = j
        <3>1. i + 1 = j + 1
            BY <1>4, <2>1 DEF Apart
        <3> QED BY <1>4, <3>1
    <2> QED BY <2>1 DEF Apart
<1>6. Head(jobs).path \notin PathsIn(Tail(jobs))
    <2>1. ASSUME NEW i \in DOMAIN Tail(jobs)
          PROVE  Tail(jobs)[i].path # Head(jobs).path
        BY <1>2, <1>4 DEF Apart
    <2> QED BY <2>1 DEF PathsIn
<1>7. ASSUME NEW i \in DOMAIN jobs
      PROVE  jobs[i].path \in PathsIn(Tail(jobs)) \cup {Head(jobs).path}
    <2>1. CASE i = 1
        BY <1>2, <2>1
    <2>2. CASE i # 1
        <3>1. i - 1 \in DOMAIN Tail(jobs) /\ (i - 1) + 1 = i
            BY <1>2, <1>3, <2>2
        <3>2. Tail(jobs)[i - 1] = jobs[i]
            BY <1>4, <3>1
        <3> QED BY <3>1, <3>2 DEF PathsIn
    <2> QED BY <2>1, <2>2
<1>8. Head(jobs).path \in PathsIn(jobs) /\ PathsIn(Tail(jobs)) \subseteq PathsIn(jobs)
    BY <1>2, <1>4 DEF PathsIn
<1>9. PathsIn(jobs) \subseteq PathsIn(Tail(jobs)) \cup {Head(jobs).path}
    BY <1>7 DEF PathsIn
<1> QED BY <1>5, <1>6, <1>8, <1>9

LEMMA QueuesJoined ==
    ASSUME NEW first \in Seq(Pending), NEW second \in Seq(Pending)
    PROVE  /\ PathsIn(first \o second) = PathsIn(first) \cup PathsIn(second)
           /\ Apart(first) /\ Apart(second) /\ PathsIn(first) \cap PathsIn(second) = {} =>
                  Apart(first \o second)
<1> DEFINE both == first \o second
<1>1. /\ both \in Seq(Pending) /\ Len(both) = Len(first) + Len(second)
      /\ \A i \in 1..(Len(first) + Len(second)) :
            both[i] = IF i <= Len(first) THEN first[i] ELSE second[i - Len(first)]
    BY ConcatProperties
<1>2. /\ Len(first) \in Nat /\ DOMAIN first = 1..Len(first)
      /\ Len(second) \in Nat /\ DOMAIN second = 1..Len(second)
    BY LenProperties
<1>3. DOMAIN both = 1..(Len(first) + Len(second))
    BY <1>1, LenProperties
<1> HIDE DEF both
<1>4. ASSUME NEW i \in DOMAIN both
      PROVE  \/ i \in DOMAIN first /\ both[i] = first[i]
             \/ /\ i - Len(first) \in DOMAIN second /\ both[i] = second[i - Len(first)]
                /\ i \in Nat
    BY <1>1, <1>2, <1>3
<1>5. ASSUME NEW i \in DOMAIN first
      PROVE  i \in DOMAIN both /\ both[i] = first[i]
    BY <1>1, <1>2, <1>3
<1>6. ASSUME NEW j \in DOMAIN second
      PROVE  Len(first) + j \in DOMAIN both /\ both[Len(first) + j] = second[j]
    <2>1. Len(first) + j \in 1..(Len(first) + Len(second)) /\ ~(Len(first) + j <= Len(first))
        BY <1>2
    <2>2. Len(first) + j - Len(first) = j
        BY <1>2
    <2> QED BY <1>1, <1>3, <2>1, <2>2
<1>7. PathsIn(both) = PathsIn(first) \cup PathsIn(second)
    <2>1. PathsIn(both) \subseteq PathsIn(first) \cup PathsIn(second)
        BY <1>4 DEF PathsIn
    <2>2. PathsIn(first) \subseteq PathsIn(both)
        BY <1>5 DEF PathsIn
    <2>3. PathsIn(second) \subseteq PathsIn(both)
        BY <1>6 DEF PathsIn
    <2> QED BY <2>1, <2>2, <2>3
<1>8. ASSUME Apart(first), Apart(second), PathsIn(first) \cap PathsIn(second) = {},
             NEW i \in DOMAIN both, NEW j \in DOMAIN both, both[i].path = both[j].path
      PROVE  i = j
    <2>1. \A k \in DOMAIN first, l \in DOMAIN second : first[k].path # second[l].path
        BY <1>8 DEF PathsIn
    <2>2. CASE i \in DOMAIN first /\ both[i] = first[i]
        BY <1>4, <1>8, <2>1, <2>2 DEF Apart
    <2>3. CASE i - Len(first) \in DOMAIN second /\ both[i] = second[i - Len(first)] /\ i \in Nat
        <3>1. j - Len(first) \in DOMAIN second /\ both[j] = second[j - Len(first)] /\ j \in Nat
            BY <1>4, <1>8, <2>1, <2>3
        <3>2. i - Len(first) = j - Len(first)
            BY <1>8, <2>3, <3>1 DEF Apart
        <3> QED BY <1>2, <2>3, <3>1, <3>2
    <2> QED BY <1>4, <2>2, <2>3
<1> QED BY <1>7, <1>8 DEF Apart, both

LEMMA SingleJob ==
    ASSUME NEW job \in Pending
    PROVE  <<job>> \in Seq(Pending) /\ PathsIn(<<job>>) = {job.path} /\ Apart(<<job>>)
<1>1. <<job>> \in Seq(Pending) /\ DOMAIN <<job>> = {1} /\ <<job>>[1] = job
    OBVIOUS
<1> QED BY <1>1 DEF PathsIn, Apart

-----------------------------------------------------------------------------
(* Paths and their children *)

LEMMA AppendedPath ==
    ASSUME NEW path \in Seq(Name), NEW name \in Name
    PROVE  /\ Append(path, name) # <<>> /\ Front(Append(path, name)) = path
           /\ Last(Append(path, name)) = name
<1> DEFINE longer == Append(path, name)
<1>1. /\ longer \in Seq(Name) /\ longer # <<>> /\ Len(longer) = Len(path) + 1
      /\ \A i \in 1..Len(path) : longer[i] = path[i]
      /\ longer[Len(path) + 1] = name
    BY AppendProperties
<1>2. Len(path) \in Nat
    BY LenProperties
<1> HIDE DEF longer
<1>3. Last(longer) = name
    BY <1>1 DEF Last
<1>4. Front(longer) = SubSeq(longer, 1, Len(path))
    <2>1. Len(longer) - 1 = Len(path)
        BY <1>1, <1>2
    <2> QED BY <2>1 DEF Front
<1>5. /\ SubSeq(longer, 1, Len(path)) \in Seq(Name)
      /\ Len(SubSeq(longer, 1, Len(path))) = Len(path)
      /\ \A i \in 1..Len(path) : SubSeq(longer, 1, Len(path))[i] = longer[i]
    <2>1. \A i \in 1..Len(path) : longer[i] \in Name
        BY <1>1, ElementOfSeq
    <2>2. /\ SubSeq(longer, 1, Len(path)) \in Seq(Name)
          /\ Len(SubSeq(longer, 1, Len(path)))
                 = IF 1 <= Len(path) THEN Len(path) - 1 + 1 ELSE 0
          /\ \A i \in 1..(Len(path) - 1 + 1) :
                SubSeq(longer, 1, Len(path))[i] = longer[1 + i - 1]
        BY <1>2, <2>1, SubSeqProperties
    <2>3. (IF 1 <= Len(path) THEN Len(path) - 1 + 1 ELSE 0) = Len(path)
        BY <1>2
    <2>4. Len(path) - 1 + 1 = Len(path) /\ \A i \in 1..Len(path) : 1 + i - 1 = i
        BY <1>2
    <2>5. \A i \in 1..Len(path) : SubSeq(longer, 1, Len(path))[i] = longer[i]
        BY <2>2, <2>4
    <2> QED BY <2>2, <2>3, <2>5
<1>6. SubSeq(longer, 1, Len(path)) = path
    BY <1>1, <1>5, SeqEqual
<1> QED BY <1>1, <1>3, <1>4, <1>6 DEF longer

\* A path below the root is a child of the path in front of it.
LEMMA PathSplits ==
    ASSUME NEW path \in AttrPath, path # <<>>
    PROVE  /\ Front(path) \in AttrPath /\ Last(path) \in Name
           /\ path = Append(Front(path), Last(path))
           /\ Len(Front(path)) < MaxAttrPathDepth
<1>1. path \in Seq(Name) /\ Len(path) <= MaxAttrPathDepth
    BY AttrPaths
<1>2. PICK front \in Seq(Name), last \in Name : path = Append(front, last)
    BY <1>1, SequenceEmptyOrAppend
<1>3. Front(path) = front /\ Last(path) = last
    BY <1>2, AppendedPath
<1>4. Len(path) = Len(front) + 1 /\ Len(front) \in Nat
    BY <1>2, AppendProperties, LenProperties
<1>5. Len(front) < MaxAttrPathDepth /\ Len(front) <= MaxAttrPathDepth
    BY <1>1, <1>4, WorkerAssumption
<1>6. front \in AttrPath
    BY <1>5, AttrPaths
<1> QED BY <1>2, <1>3, <1>5, <1>6

\* The attributes that an expanded path adds to the queue.
LEMMA ChildrenOfPath ==
    ASSUME NEW path \in AttrPath, ~TooDeep(path), NEW names \in Seq(Name)
    PROVE  /\ Children(path, names) \in Seq(Pending)
           /\ PathsIn(Children(path, names)) = {Append(path, name) : name \in ToSet(names)}
           /\ IsInjective(names) => Apart(Children(path, names))
<1> DEFINE kids == Children(path, names)
<1>1. /\ DOMAIN kids = DOMAIN names /\ DOMAIN names = 1..Len(names) /\ Len(names) \in Nat
      /\ \A i \in DOMAIN names : names[i] \in Name
    BY LenProperties DEF Children
<1>2. \A i \in DOMAIN names : kids[i] = [path |-> Append(path, names[i]), attempts |-> 0]
    BY DEF Children
<1>3. ASSUME NEW i \in DOMAIN names
      PROVE  kids[i] \in Pending
    <2>1. Append(path, names[i]) \in AttrPath
        BY <1>1, ChildIsAttrPath
    <2>2. [path |-> Append(path, names[i]), attempts |-> 0] \in Pending
        BY <2>1 DEF Pending
    <2>3. kids[i] = [path |-> Append(path, names[i]), attempts |-> 0]
        BY <1>2
    <2> QED BY <2>2, <2>3, Zenon
<1>4. kids \in Seq(Pending)
    BY <1>1, <1>2, <1>3 DEF Children
<1>5. PathsIn(kids) = {Append(path, name) : name \in ToSet(names)}
    BY <1>1, <1>2 DEF PathsIn, ToSet
<1>6. ASSUME IsInjective(names), NEW i \in DOMAIN kids, NEW j \in DOMAIN kids,
             kids[i].path = kids[j].path
      PROVE  i = j
    <2>1. Append(path, names[i]) = Append(path, names[j])
        BY <1>1, <1>2, <1>6
    <2>2. path \in Seq(Name) /\ names[i] \in Name /\ names[j] \in Name
        BY <1>1, AttrPaths
    <2>3. names[i] = names[j]
        BY <2>1, <2>2, AppendedPath
    <2> QED BY <1>1, <1>6, <2>3 DEF IsInjective
<1> QED BY <1>4, <1>5, <1>6 DEF Apart

-----------------------------------------------------------------------------
(* What is true of the attributes *)

Waiting == PathsIn(todo)
Held == {currentJob[w].path : w \in Holders}

LEMMA MovesTyped ==
    ASSUME Typed, NEW w \in Slot, Holds(w)
    PROVE  currentJob[w].path \in Held /\ w \in Holders /\ currentJob[w].path \in AttrPath
BY JobTyped DEF Holds, Holders, Held

\* What is waiting or with a worker is a path of the flake, and what has been
\* concluded of a path is the truth or that it killed its workers.
Genuine ==
    /\ \A path \in Waiting \cup Held : InFlake(path)
    /\ \A path \in AttrPath : verdict[path] \in {"none", "died", Truth(path)}

LEMMA RootInFlake == InFlake(<<>>)
<1>1. \A n \in 1..Len(<<>>) : FALSE
    OBVIOUS
<1> QED BY <1>1 DEF InFlake

LEMMA ChildInFlake ==
    ASSUME NEW path \in AttrPath, InFlake(path), flake[path].kind = "children",
           NEW name \in Name, name \in Names(path)
    PROVE  InFlake(Append(path, name))
<1> DEFINE longer == Append(path, name)
<1>1. path \in Seq(Name) /\ Len(path) \in Nat
    BY AttrPaths, LenProperties
<1>2. /\ longer \in Seq(Name) /\ Len(longer) = Len(path) + 1
      /\ \A i \in 1..Len(path) : longer[i] = path[i]
      /\ longer[Len(path) + 1] = name
    BY <1>1, AppendProperties
<1>3. \A n \in 1..(Len(path) + 1) : SubSeq(longer, 1, n - 1) = SubSeq(path, 1, n - 1)
    <2>1. SUFFICES ASSUME NEW n \in 1..(Len(path) + 1)
                   PROVE  SubSeq(longer, 1, n - 1) = SubSeq(path, 1, n - 1)
        OBVIOUS
    <2>2. n - 1 \in Int /\ n - 1 <= Len(path) /\ n - 1 >= 0
        BY <1>1
    <2>3. \A i \in 1..(n - 1) : i \in 1..Len(path) /\ longer[i] \in Name /\ path[i] \in Name
        BY <1>1, <1>2, <2>2, ElementOfSeq
    <2>4. /\ SubSeq(longer, 1, n - 1) \in Seq(Name)
          /\ Len(SubSeq(longer, 1, n - 1)) = (IF 1 <= n - 1 THEN (n - 1) - 1 + 1 ELSE 0)
          /\ \A i \in 1..((n - 1) - 1 + 1) : SubSeq(longer, 1, n - 1)[i] = longer[1 + i - 1]
        BY <2>2, <2>3, SubSeqProperties
    <2>5. /\ SubSeq(path, 1, n - 1) \in Seq(Name)
          /\ Len(SubSeq(path, 1, n - 1)) = (IF 1 <= n - 1 THEN (n - 1) - 1 + 1 ELSE 0)
          /\ \A i \in 1..((n - 1) - 1 + 1) : SubSeq(path, 1, n - 1)[i] = path[1 + i - 1]
        BY <2>2, <2>3, SubSeqProperties
    <2>6. /\ (IF 1 <= n - 1 THEN (n - 1) - 1 + 1 ELSE 0) = n - 1
          /\ (n - 1) - 1 + 1 = n - 1
          /\ \A i \in 1..(n - 1) : 1 + i - 1 = i
        BY <2>2
    <2>7. \A i \in 1..(n - 1) : SubSeq(longer, 1, n - 1)[i] = SubSeq(path, 1, n - 1)[i]
        BY <1>2, <2>3, <2>4, <2>5, <2>6
    <2> QED BY <2>4, <2>5, <2>6, <2>7, SeqEqual
<1>4. SubSeq(path, 1, Len(path)) = path
    BY <1>1, SubSeqFull
<1> HIDE DEF longer
<1>5. ASSUME NEW n \in 1..Len(longer)
      PROVE  LET parent == SubSeq(longer, 1, n - 1)
             IN  flake[parent].kind = "children" /\ longer[n] \in Names(parent)
    <2>1. CASE n \in 1..Len(path)
        BY <1>1, <1>2, <1>3, <2>1 DEF InFlake
    <2>2. CASE n = Len(path) + 1
        <3>1. SubSeq(longer, 1, n - 1) = path
            <4>1. n - 1 = Len(path) /\ n \in 1..(Len(path) + 1)
                BY <1>1, <2>2
            <4> QED BY <1>3, <1>4, <4>1
        <3> QED BY <1>2, <2>2, <3>1
    <2> QED BY <1>1, <1>2, <1>5, <2>1, <2>2
<1> QED BY <1>5 DEF InFlake, longer

\* What settling concludes is the truth.
LEMMA ConclusionIsTruth ==
    ASSUME NEW path \in AttrPath, InFlake(path),
           flake[path].kind \in {"job", "throws", "ignore", "children"}
    PROVE  Conclusion(path) = Truth(path)
<1>1. Len(path) \in Nat /\ MaxAttrPathDepth \in Nat
    BY AttrPaths, LenProperties, WorkerAssumption
<1>2. TooDeep(path) <=> ~(Len(path) < MaxAttrPathDepth)
    BY <1>1 DEF TooDeep
<1>3. CASE flake[path].kind = "job"
    BY <1>3 DEF Conclusion, Truth
<1>4. CASE flake[path].kind = "throws"
    BY <1>4 DEF Conclusion, Truth
<1>5. CASE flake[path].kind = "ignore"
    BY <1>5 DEF Conclusion, Truth
<1>6. CASE flake[path].kind = "children"
    BY <1>2, <1>6 DEF Conclusion, Truth
<1> QED BY <1>3, <1>4, <1>5, <1>6

LEMMA DispatchedPaths ==
    ASSUME Typed, NEW w \in Slot, HandsOut(w)
    PROVE  /\ Waiting' \cup Held' \subseteq Waiting \cup Held
           /\ UNCHANGED verdict
<1>1. /\ Waiting = {todo[i].path : i \in DOMAIN todo}
      /\ Waiting' = {todo'[i].path : i \in DOMAIN todo'}
    BY DEF Waiting, PathsIn
<1>2. todo \in Seq(Pending) /\ todo # <<>> /\ todo' = Tail(todo)
    BY DEF HandsOut, Typed, QueueTyped
<1>3. /\ todo' \in Seq(Pending) /\ Len(todo') = Len(todo) - 1
      /\ \A i \in 1..Len(todo') : todo'[i] = todo[i + 1]
    BY <1>2, HeadTailProperties
<1>4. Len(todo) \in Nat /\ DOMAIN todo = 1..Len(todo) /\ DOMAIN todo' = 1..Len(todo')
    BY <1>2, <1>3, LenProperties
<1>5. \A i \in DOMAIN todo' : i + 1 \in DOMAIN todo /\ todo'[i] = todo[i + 1]
    BY <1>3, <1>4
<1>6. Waiting' \subseteq Waiting
    BY <1>1, <1>5
<1>7. Head(todo).path \in Waiting
    <2>1. 1 \in DOMAIN todo /\ Head(todo) = todo[1]
        BY <1>2, <1>4, EmptySeq
    <2> QED BY <1>1, <2>1
<1>8. Held' \subseteq Held \cup {Head(todo).path}
    <2>1. \A v \in Holders' : v = w \/ v \in Holders
        BY HandingOutHolders
    <2>2. /\ currentJob'[w] = Head(todo)
          /\ \A v \in Slot \ {w} : currentJob'[v] = currentJob[v]
        BY SlotTyped DEF HandsOut
    <2>3. Holders \subseteq Slot
        BY DEF Holders
    <2> QED BY <2>1, <2>2, <2>3 DEF Held
<1> QED BY <1>6, <1>7, <1>8 DEF HandsOut

\* What happens to the paths when a worker lets one go.
LEMMA ReleasedPaths ==
    ASSUME Typed, NEW w \in Slot, LetsGo(w)
    PROVE  /\ Held' \subseteq Held
           /\ \A v \in Holders' : v \in Holders /\ v # w /\ currentJob'[v] = currentJob[v]
           /\ \A v \in Holders : v # w => v \in Holders' /\ currentJob'[v] = currentJob[v]
<1>1. Holders' = Holders \ {w} /\ w \in Holders /\ Holders \subseteq Slot
    BY LettingGoHolders DEF Holders
<1>2. \A v \in Slot \ {w} : currentJob'[v] = currentJob[v]
    BY SlotTyped DEF LetsGo
<1> QED BY <1>1, <1>2 DEF Held

LEMMA RequeuedPaths ==
    ASSUME Typed, NEW w \in Slot, Requeues(w)
    PROVE  /\ Waiting' = Waiting \cup {currentJob[w].path}
           /\ Apart(todo) /\ currentJob[w].path \notin Waiting => Apart(todo')
<1>1. currentJob[w] \in Pending
    BY JobTyped DEF Requeues, LetsGo
<1>2. Again(currentJob[w]) \in Pending /\ Again(currentJob[w]).path = currentJob[w].path
    <2>1. \A job \in Pending : Again(job) \in Pending /\ Again(job).path = job.path
        BY DEF Pending, Again
    <2> QED BY <1>1, <2>1
<1> DEFINE job == Again(currentJob[w])
<1>3. /\ <<job>> \in Seq(Pending) /\ PathsIn(<<job>>) = {job.path} /\ Apart(<<job>>)
      /\ todo \in Seq(Pending) /\ todo' = <<job>> \o todo
    BY <1>2, SingleJob DEF Requeues, Typed, QueueTyped
<1> HIDE DEF job
<1>4. /\ PathsIn(<<job>> \o todo) = PathsIn(<<job>>) \cup PathsIn(todo)
      /\ Apart(<<job>>) /\ Apart(todo) /\ PathsIn(<<job>>) \cap PathsIn(todo) = {} =>
             Apart(<<job>> \o todo)
    BY <1>3, QueuesJoined
<1>5. job.path = currentJob[w].path
    BY <1>2 DEF job
<1> QED BY <1>3, <1>4, <1>5 DEF Waiting

\* The new attributes of an expanded path, and the queue with them.
LEMMA ExpandedPaths ==
    ASSUME Typed, NEW w \in Slot, Settles(w), Conclusion(currentJob[w].path) = "expanded"
    PROVE  LET path == currentJob[w].path
               kids == {Append(path, name) : name \in Names(path)}
           IN  /\ flake[path].kind = "children" /\ ~TooDeep(path)
               /\ Names(path) \subseteq Name
               /\ Waiting' = Waiting \cup kids
               /\ /\ Apart(todo) /\ kids \cap Waiting = {}
                  /\ IsInjective(Dumped(flake[path].children))
                  => Apart(todo')
<1> DEFINE path == currentJob[w].path
           names == Dumped(flake[path].children)
           kids == {Append(path, name) : name \in Names(path)}
<1>1. path \in AttrPath /\ flake[path] \in Outcome
    BY JobTyped DEF Settles, LetsGo
<1>2. flake[path].kind = "children" /\ ~TooDeep(path)
    BY DEF Settles, Conclusion
<1>3. names \in Seq(Name) /\ Names(path) = ToSet(names)
    BY <1>1, DumpedNames DEF Outcome, Names
<1>4. Names(path) \subseteq Name
    <2>1. \A i \in DOMAIN names : names[i] \in Name
        BY <1>3, LenProperties
    <2> QED BY <1>3, <2>1 DEF ToSet
<1>5. todo' = todo \o Children(path, names) /\ todo \in Seq(Pending)
    BY DEF Settles, Typed, QueueTyped
<1> HIDE DEF path, names
<1>6. /\ Children(path, names) \in Seq(Pending)
      /\ PathsIn(Children(path, names)) = kids
      /\ IsInjective(names) => Apart(Children(path, names))
    BY <1>1, <1>2, <1>3, ChildrenOfPath
<1>7. /\ PathsIn(todo \o Children(path, names))
             = PathsIn(todo) \cup PathsIn(Children(path, names))
      /\ Apart(todo) /\ Apart(Children(path, names))
             /\ PathsIn(todo) \cap PathsIn(Children(path, names)) = {} =>
             Apart(todo \o Children(path, names))
    BY <1>5, <1>6, QueuesJoined
<1>8. Waiting' = Waiting \cup kids
    BY <1>5, <1>6, <1>7 DEF Waiting
<1>9. Apart(todo) /\ kids \cap Waiting = {} /\ IsInjective(names) => Apart(todo')
    BY <1>5, <1>6, <1>7 DEF Waiting
<1> QED BY <1>2, <1>4, <1>8, <1>9 DEF path, names

LEMMA MoveKeepsGenuine ==
    ASSUME Typed, Genuine, QueueStays \/ Moves, UNCHANGED flake
    PROVE  Genuine'
<1>a. \A path : InFlake(path)' <=> InFlake(path)
    BY DEF InFlake, Names
<1>b. \A path \in AttrPath : Truth(path)' = Truth(path)
    BY <1>a DEF Truth
<1>1. CASE QueueStays
    <2>1. UNCHANGED <<Waiting, Held, verdict>>
        BY <1>1 DEF QueueStays, Waiting, Held, Holders
    <2> QED BY <1>a, <1>b, <2>1 DEF Genuine
<1>2. ASSUME NEW w \in Slot, HandsOut(w)
      PROVE  Genuine'
    BY <1>2, <1>a, <1>b, DispatchedPaths DEF Genuine
<1>3. ASSUME NEW w \in Slot, LetsGo(w), NEW v,
             UNCHANGED verdict \/ Conclude(currentJob[w].path, v),
             v \in {"died", Truth(currentJob[w].path)},
             Waiting' \subseteq Waiting \cup Held
      PROVE  Genuine'
    <2>1. Held' \subseteq Held
        BY <1>3, ReleasedPaths
    <2>2. verdict \in [AttrPath -> Verdict] /\ currentJob[w].path \in AttrPath
        BY <1>3, JobTyped DEF LetsGo, Typed, QueueTyped
    <2>3. \A path \in AttrPath :
              verdict'[path] = verdict[path] \/ verdict'[path] \in {"died", Truth(path)}
        BY <1>3, <2>2 DEF Conclude
    <2> QED BY <1>3, <1>a, <1>b, <2>1, <2>3 DEF Genuine
<1>4. ASSUME NEW w \in Slot, Requeues(w)
      PROVE  Genuine'
    <2>1. LetsGo(w) /\ UNCHANGED verdict /\ currentJob[w].path \in Held
        BY <1>4, MovesTyped DEF Requeues, LetsGo
    <2>2. Waiting' \subseteq Waiting \cup Held
        BY <1>4, <2>1, RequeuedPaths
    <2> QED BY <1>3, <2>1, <2>2
<1>5. ASSUME NEW w \in Slot, Blames(w)
      PROVE  Genuine'
    <2>1. Waiting' = Waiting
        BY <1>5 DEF Blames, Waiting
    <2> QED BY <1>3, <1>5, <2>1 DEF Blames
<1>6. ASSUME NEW w \in Slot, Settles(w)
      PROVE  Genuine'
    <2> DEFINE path == currentJob[w].path
    <2>1. LetsGo(w) /\ path \in Held /\ path \in AttrPath
        BY <1>6, MovesTyped DEF Settles, LetsGo
    <2>2. InFlake(path)
        BY <2>1 DEF Genuine
    <2>3. Conclusion(path) = Truth(path) /\ Conclude(path, Conclusion(path))
        BY <1>6, <2>1, <2>2, ConclusionIsTruth DEF Settles
    <2>4. CASE Conclusion(path) # "expanded"
        <3>1. Waiting' = Waiting
            BY <1>6, <2>4 DEF Settles, Waiting
        <3> QED BY <1>3, <2>1, <2>3, <3>1
    <2>5. CASE Conclusion(path) = "expanded"
        <3>1. /\ flake[path].kind = "children" /\ Names(path) \subseteq Name
              /\ Waiting' = Waiting \cup {Append(path, name) : name \in Names(path)}
            BY <1>6, <2>5, ExpandedPaths
        <3>2. \A name \in Names(path) : InFlake(Append(path, name))
            BY <2>1, <2>2, <3>1, ChildInFlake
        <3>3. Held' \subseteq Held
            BY <2>1, ReleasedPaths
        <3>4. verdict \in [AttrPath -> Verdict]
            BY DEF Typed, QueueTyped
        <3>5. \A other \in AttrPath :
                  verdict'[other] = verdict[other] \/ verdict'[other] = Truth(other)
            BY <2>1, <2>3, <3>4 DEF Conclude
        <3> HIDE DEF path
        <3>6. \A other \in Waiting' \cup Held' : InFlake(other)
            BY <3>1, <3>2, <3>3 DEF Genuine
        <3> QED BY <1>a, <1>b, <3>5, <3>6 DEF Genuine
    <2> QED BY <2>4, <2>5
<1> QED BY <1>1, <1>2, <1>4, <1>5, <1>6 DEF Moves

LEMMA InitGenuine == Init => Genuine
<1> SUFFICES ASSUME Init PROVE Genuine
    OBVIOUS
<1>1. Waiting = {<<>>} /\ Held = {}
    BY DEF Init, Waiting, PathsIn, Held, Holders
<1> QED BY <1>1, RootInFlake DEF Init, Genuine

\* What is reported of an attribute is what evaluating it gives, or that its
\* workers died of it, however often workers are lost and answers cut short:
\* no answer is recorded for an attribute that it is not about.
THEOREM ReportsAreTrue == Spec => []VerdictsAreTrue
<1>1. Init => Typed /\ AllOnCourse /\ Genuine
    BY InitTyped, InitOnCourse, InitGenuine
<1>2. Typed /\ AllOnCourse /\ Genuine /\ [Next]_vars => Genuine'
    BY StepMoves, MoveKeepsGenuine
<1>3. Genuine => VerdictsAreTrue
    BY DEF Genuine, VerdictsAreTrue
<1> QED BY <1>1, <1>2, <1>3, StepTyped, StepOnCourse, PTL DEF Spec

-----------------------------------------------------------------------------
(* Every attribute is in one place *)

\* The children of every path have distinct names once dumped, as they have
\* before: an attribute set has no attribute twice.
DistinctNames ==
    \A outcomes \in Flakes : \A path \in AttrPath :
        outcomes[path].kind = "children" => IsInjective(Dumped(outcomes[path].children))

Placed ==
    /\ flake \in Flakes
    /\ Apart(todo)
    /\ \A v, w \in Holders : currentJob[v].path = currentJob[w].path => v = w
    /\ Waiting \cap Held = {}
    /\ \A path \in Waiting \cup Held : verdict[path] = "none"
    /\ \A path \in AttrPath :
           Discovered(path) <=> path \in Waiting \cup Held \/ verdict[path] # "none"

\* What has been discovered changes only with what has been expanded.
LEMMA SameDiscoveries ==
    ASSUME NEW path, UNCHANGED flake,
           (verdict[Front(path)] = "expanded") <=> (verdict'[Front(path)] = "expanded")
    PROVE  Discovered(path)' <=> Discovered(path)
BY DEF Discovered, Names

LEMMA InitPlaced == Init => Placed
<1> SUFFICES ASSUME Init PROVE Placed
    OBVIOUS
<1>1. Waiting = {<<>>} /\ Holders = {} /\ Held = {}
    BY DEF Init, Waiting, PathsIn, Held, Holders
<1>2. Apart(todo)
    BY DEF Init, Apart
<1>3. ASSUME NEW path \in AttrPath
      PROVE  Discovered(path) <=> path = <<>>
    <2>1. CASE path = <<>>
        BY <2>1 DEF Discovered
    <2>2. CASE path # <<>>
        <3>1. verdict[Front(path)] = "none"
            BY <2>2, PathSplits DEF Init
        <3> QED BY <2>2, <3>1 DEF Discovered
    <2> QED BY <2>1, <2>2
<1>4. \A path \in AttrPath : verdict[path] = "none"
    BY DEF Init
<1>5. flake \in Flakes
    BY DEF Init, WorkerInit
<1> QED BY <1>1, <1>2, <1>3, <1>4, <1>5, RootIsAttrPath DEF Placed

LEMMA HandingOutPlaced ==
    ASSUME Typed, Placed, NEW w \in Slot, HandsOut(w), UNCHANGED flake
    PROVE  Placed'
<1> DEFINE path == Head(todo).path
<1>1. /\ todo \in Seq(Pending) /\ todo # <<>> /\ todo' = Tail(todo) /\ Apart(todo)
    BY DEF HandsOut, Typed, QueueTyped, Placed
<1>2. /\ Apart(todo') /\ Waiting = Waiting' \cup {path} /\ path \notin Waiting'
    BY <1>1, TakenFromQueue DEF Waiting
<1>3. Holders' = Holders \cup {w} /\ w \notin Holders /\ Holders \subseteq Slot
    BY HandingOutHolders DEF Holders
<1>4. currentJob'[w] = Head(todo) /\ \A v \in Slot \ {w} : currentJob'[v] = currentJob[v]
    BY SlotTyped DEF HandsOut
<1>5. Held' = Held \cup {path}
    BY <1>3, <1>4 DEF Held
<1>6. \A v \in Holders : currentJob'[v].path # path
    BY <1>2, <1>3, <1>4 DEF Placed, Held
<1>7. \A u, v \in Holders' : currentJob'[u].path = currentJob'[v].path => u = v
    <2>1. \A v \in Holders : currentJob'[v] = currentJob[v]
        BY <1>3, <1>4
    <2> QED BY <1>3, <1>4, <1>6, <2>1 DEF Placed
<1>8. Waiting' \cap Held' = {} /\ Waiting' \cup Held' = Waiting \cup Held
    BY <1>2, <1>5 DEF Placed
<1>9. UNCHANGED verdict
    BY DEF HandsOut
<1>10. \A other \in AttrPath : Discovered(other)' <=> Discovered(other)
    BY <1>9, SameDiscoveries
<1> QED BY <1>2, <1>7, <1>8, <1>9, <1>10 DEF Placed

\* A path that is let go is held by nobody else.
LEMMA LettingGoHeld ==
    ASSUME Typed, Placed, NEW w \in Slot, LetsGo(w)
    PROVE  /\ Held' = Held \ {currentJob[w].path}
           /\ \A u, v \in Holders' : currentJob'[u].path = currentJob'[v].path => u = v
<1>1. Holders' = Holders \ {w} /\ w \in Holders
    BY LettingGoHolders
<1>2. \A v \in Holders' : v \in Holders /\ v # w /\ currentJob'[v] = currentJob[v]
    BY ReleasedPaths
<1>3. \A v \in Holders : v # w => v \in Holders' /\ currentJob'[v] = currentJob[v]
    BY ReleasedPaths
<1>4. \A v \in Holders : v # w => currentJob[v].path # currentJob[w].path
    BY <1>1 DEF Placed
<1>5. Held' = Held \ {currentJob[w].path}
    <2>1. Held' \subseteq Held \ {currentJob[w].path}
        BY <1>2, <1>4 DEF Held
    <2>2. Held \ {currentJob[w].path} \subseteq Held'
        BY <1>3 DEF Held
    <2> QED BY <2>1, <2>2
<1>6. \A u, v \in Holders' : currentJob'[u].path = currentJob'[v].path => u = v
    BY <1>2 DEF Placed
<1> QED BY <1>5, <1>6

LEMMA RequeueingPlaced ==
    ASSUME Typed, Placed, NEW w \in Slot, Requeues(w), UNCHANGED flake
    PROVE  Placed'
<1> DEFINE path == currentJob[w].path
<1>1. LetsGo(w) /\ UNCHANGED verdict
    BY DEF Requeues
<1>2. path \in Held
    BY <1>1, MovesTyped DEF LetsGo
<1>3. /\ Held' = Held \ {path}
      /\ \A u, v \in Holders' : currentJob'[u].path = currentJob'[v].path => u = v
    BY <1>1, LettingGoHeld
<1>4. path \notin Waiting
    BY <1>2 DEF Placed
<1>5. Waiting' = Waiting \cup {path} /\ Apart(todo')
    BY <1>4, RequeuedPaths DEF Placed
<1>6. Waiting' \cap Held' = {} /\ Waiting' \cup Held' = Waiting \cup Held
    BY <1>2, <1>3, <1>5 DEF Placed
<1>7. \A other \in AttrPath : Discovered(other)' <=> Discovered(other)
    BY <1>1, SameDiscoveries
<1> QED BY <1>1, <1>3, <1>5, <1>6, <1>7 DEF Placed

\* An attribute that is concluded, and expands to nothing.
LEMMA ConcludingPlaced ==
    ASSUME Typed, Placed, NEW w \in Slot, LetsGo(w), UNCHANGED <<flake, todo>>,
           NEW v, v \notin {"none", "expanded"}, Conclude(currentJob[w].path, v)
    PROVE  Placed'
<1> DEFINE path == currentJob[w].path
<1>1. path \in Held /\ path \in AttrPath
    BY MovesTyped DEF LetsGo
<1>2. /\ Held' = Held \ {path}
      /\ \A u, x \in Holders' : currentJob'[u].path = currentJob'[x].path => u = x
    BY LettingGoHeld
<1>3. Waiting' = Waiting /\ Apart(todo')
    BY DEF Waiting, Placed
<1>4. /\ verdict[path] = "none" /\ verdict'[path] = v
      /\ \A other : other # path => verdict'[other] = verdict[other]
    BY <1>1 DEF Conclude, Typed, QueueTyped, Placed
<1>5. \A other \in AttrPath : Discovered(other)' <=> Discovered(other)
    BY <1>4, SameDiscoveries
<1> HIDE DEF path
<1>6. Waiting' \cap Held' = {} /\ path \notin Waiting
    BY <1>1, <1>2, <1>3 DEF Placed
<1>7. \A other \in Waiting' \cup Held' : verdict'[other] = "none"
    BY <1>2, <1>3, <1>4, <1>6 DEF Placed
<1>8. ASSUME NEW other \in AttrPath
      PROVE  Discovered(other)' <=> other \in Waiting' \cup Held' \/ verdict'[other] # "none"
    <2>1. CASE other = path
        BY <1>1, <1>4, <1>5, <2>1 DEF Placed
    <2>2. CASE other # path
        BY <1>2, <1>3, <1>4, <1>5, <2>2 DEF Placed
    <2> QED BY <2>1, <2>2
<1> QED BY <1>2, <1>3, <1>6, <1>7, <1>8 DEF Placed

\* An attribute that is expanded: its children are new.
LEMMA ExpandingPlaced ==
    ASSUME DistinctNames, Typed, Placed, NEW w \in Slot, Settles(w), UNCHANGED flake,
           Conclusion(currentJob[w].path) = "expanded"
    PROVE  Placed'
<1> DEFINE path == currentJob[w].path
           kids == {Append(path, name) : name \in Names(path)}
<1>1. LetsGo(w) /\ path \in Held /\ path \in AttrPath
    BY MovesTyped DEF Settles, LetsGo
<1>2. /\ Held' = Held \ {path}
      /\ \A u, v \in Holders' : currentJob'[u].path = currentJob'[v].path => u = v
    BY <1>1, LettingGoHeld
<1>3. /\ flake[path].kind = "children" /\ ~TooDeep(path) /\ Names(path) \subseteq Name
      /\ Waiting' = Waiting \cup kids
      /\ Apart(todo) /\ kids \cap Waiting = {} /\ IsInjective(Dumped(flake[path].children))
             => Apart(todo')
    BY ExpandedPaths
<1>4. IsInjective(Dumped(flake[path].children))
    BY <1>1, <1>3 DEF DistinctNames, Placed
<1>5. /\ verdict[path] = "none" /\ verdict'[path] = "expanded"
      /\ \A other : other # path => verdict'[other] = verdict[other]
    <2>1. Conclude(path, "expanded")
        BY DEF Settles
    <2>2. verdict[path] = "none" /\ verdict \in [AttrPath -> Verdict]
        BY <1>1 DEF Typed, QueueTyped, Placed
    <2> QED BY <1>1, <2>1, <2>2 DEF Conclude
<1> HIDE DEF path
<1>6. ASSUME NEW kid \in kids
      PROVE  /\ kid \in AttrPath /\ kid # <<>> /\ Front(kid) = path /\ Last(kid) \in Names(path)
             /\ kid # path
    <2>1. PICK name \in Names(path) : kid = Append(path, name)
        BY <1>6
    <2>2. path \in Seq(Name) /\ name \in Name
        BY <1>1, <1>3, <2>1, AttrPaths
    <2>3. kid # <<>> /\ Front(kid) = path /\ Last(kid) = name /\ kid \in AttrPath
        BY <1>1, <1>3, <2>1, <2>2, AppendedPath, ChildIsAttrPath
    <2>4. Len(kid) # Len(path)
        <3>1. Len(kid) = Len(path) + 1 /\ Len(path) \in Nat
            BY <2>1, <2>2, AppendProperties, LenProperties
        <3> QED BY <3>1
    <2> QED BY <2>1, <2>3, <2>4
<1>7. ASSUME NEW kid \in kids
      PROVE  ~Discovered(kid) /\ Discovered(kid)'
    <2>1. ~Discovered(kid)
        BY <1>5, <1>6 DEF Discovered
    <2>2. Discovered(kid)'
        BY <1>5, <1>6 DEF Discovered, Names
    <2> QED BY <2>1, <2>2
<1>8. ASSUME NEW other \in AttrPath, other \notin kids
      PROVE  Discovered(other)' <=> Discovered(other)
    <2>1. CASE other = <<>>
        BY <2>1 DEF Discovered
    <2>2. CASE other # <<>> /\ Front(other) = path
        <3>1. other = Append(path, Last(other))
            BY <2>2, PathSplits
        <3>2. Last(other) \notin Names(path)
            BY <1>8, <3>1
        <3> QED BY <2>2, <3>2 DEF Discovered, Names
    <2>3. CASE Front(other) # path
        BY <1>5, <2>3, SameDiscoveries
    <2> QED BY <2>1, <2>2, <2>3
<1>9. kids \cap (Waiting \cup Held) = {} /\ \A kid \in kids : verdict[kid] = "none"
    BY <1>6, <1>7 DEF Placed
<1>10. Apart(todo') /\ Waiting' \cap Held' = {} /\ path \notin Waiting'
    BY <1>1, <1>2, <1>3, <1>4, <1>6, <1>9 DEF Placed
<1>11. \A other \in Waiting' \cup Held' : verdict'[other] = "none"
    BY <1>2, <1>3, <1>5, <1>9, <1>10 DEF Placed
<1>12. ASSUME NEW other \in AttrPath
       PROVE  Discovered(other)' <=> other \in Waiting' \cup Held' \/ verdict'[other] # "none"
    <2>1. CASE other \in kids
        BY <1>3, <1>7, <2>1
    <2>2. CASE other = path
        BY <1>1, <1>5, <1>6, <1>8, <2>2 DEF Placed
    <2>3. CASE other \notin kids /\ other # path
        BY <1>2, <1>3, <1>5, <1>8, <2>3 DEF Placed
    <2> QED BY <2>1, <2>2, <2>3
<1> QED BY <1>2, <1>10, <1>11, <1>12 DEF Placed

LEMMA MoveKeepsPlaced ==
    ASSUME DistinctNames, Typed, Placed, QueueStays \/ Moves, UNCHANGED flake
    PROVE  Placed'
<1>1. CASE QueueStays
    <2>1. UNCHANGED <<todo, verdict, currentJob, Waiting, Held, Holders>>
        BY <1>1 DEF QueueStays, Waiting, Held, Holders
    <2>2. \A path \in AttrPath : Discovered(path)' <=> Discovered(path)
        BY <2>1, SameDiscoveries
    <2> QED BY <2>1, <2>2 DEF Placed
<1>2. ASSUME NEW w \in Slot, HandsOut(w)
      PROVE  Placed'
    BY <1>2, HandingOutPlaced
<1>3. ASSUME NEW w \in Slot, Settles(w)
      PROVE  Placed'
    <2>1. CASE Conclusion(currentJob[w].path) = "expanded"
        BY <1>3, <2>1, ExpandingPlaced
    <2>2. CASE Conclusion(currentJob[w].path) # "expanded"
        <3>1. Conclusion(currentJob[w].path) # "none"
            BY DEF Conclusion
        <3>2. /\ LetsGo(w) /\ UNCHANGED todo
              /\ Conclude(currentJob[w].path, Conclusion(currentJob[w].path))
            BY <1>3, <2>2 DEF Settles
        <3> QED BY <2>2, <3>1, <3>2, ConcludingPlaced
    <2> QED BY <2>1, <2>2
<1>4. ASSUME NEW w \in Slot, Requeues(w)
      PROVE  Placed'
    BY <1>4, RequeueingPlaced
<1>5. ASSUME NEW w \in Slot, Blames(w)
      PROVE  Placed'
    BY <1>5, ConcludingPlaced DEF Blames
<1> QED BY <1>1, <1>2, <1>3, <1>4, <1>5 DEF Moves

LEMMA OneOrNone ==
    ASSUME NEW S, \A x, y \in S : x = y
    PROVE  IsFiniteSet(S) /\ Cardinality(S) = IF S = {} THEN 0 ELSE 1
<1>1. CASE S = {}
    BY <1>1, FS_EmptySet
<1>2. CASE S # {}
    <2>1. PICK x : S = {x}
        BY <1>2
    <2> QED BY <1>2, <2>1, FS_Singleton
<1> QED BY <1>1, <1>2

\* Each attribute found is in one place, and no other is in any.
LEMMA PlacedIsNotLost == Typed /\ Placed => NothingLost
<1> SUFFICES ASSUME Typed, Placed, NEW path \in AttrPath
             PROVE  Places(path) = IF Discovered(path) THEN 1 ELSE 0
    BY DEF NothingLost
<1> DEFINE waiting == {i \in DOMAIN todo : todo[i].path = path}
           held == {w \in Holders : currentJob[w].path = path}
<1>1. (waiting # {}) <=> path \in Waiting
    BY DEF Waiting, PathsIn
<1>2. (held # {}) <=> path \in Held
    BY DEF Held
<1>3. Cardinality(waiting) = IF path \in Waiting THEN 1 ELSE 0
    <2>1. \A i, j \in waiting : i = j
        BY DEF Placed, Apart
    <2> HIDE DEF waiting
    <2> QED BY <1>1, <2>1, OneOrNone
<1>4. Cardinality(held) = IF path \in Held THEN 1 ELSE 0
    <2>1. \A v, w \in held : v = w
        BY DEF Placed
    <2> HIDE DEF held
    <2> QED BY <1>2, <2>1, OneOrNone
<1>5. Places(path) = (IF path \in Waiting THEN 1 ELSE 0) + (IF path \in Held THEN 1 ELSE 0)
                         + (IF verdict[path] = "none" THEN 0 ELSE 1)
    BY <1>3, <1>4 DEF Places
<1>6. /\ path \in Waiting => path \notin Held /\ verdict[path] = "none"
      /\ path \in Held => verdict[path] = "none"
      /\ Discovered(path) <=> path \in Waiting \/ path \in Held \/ verdict[path] # "none"
    BY DEF Placed
<1> QED BY <1>5, <1>6

\* When there is nothing left to do everything found has been concluded.
LEMMA FinishedIsConcluded ==
    ASSUME Typed, ActiveCountsJobs, Placed, Finished
    PROVE  /\ todo = <<>> /\ Holders = {}
           /\ \A path \in AttrPath : Discovered(path) => verdict[path] # "none"
<1>1. todo = <<>> /\ Cardinality(Holders) = 0
    BY DEF Finished, ActiveCountsJobs
<1>2. Holders = {}
    BY <1>1, HoldersFinite, FS_EmptySet
<1>3. Waiting = {} /\ Held = {}
    BY <1>1, <1>2 DEF Waiting, PathsIn, Held
<1> QED BY <1>1, <1>2, <1>3 DEF Placed

\* What the walk over the attributes rests on, and that every step keeps it.
WalkInv == Typed /\ AllOnCourse /\ ActiveCountsJobs /\ Genuine /\ Placed /\ Ending

LEMMA InitWalk == Init => WalkInv
<1>1. Init => Ending
    BY DEF Init, Ending
<1> QED BY <1>1, InitTyped, InitOnCourse, InitCounts, InitGenuine, InitPlaced DEF WalkInv

LEMMA StepWalk ==
    ASSUME DistinctNames, WalkInv, [Next]_vars
    PROVE  WalkInv'
<1>1. Typed' /\ AllOnCourse' /\ ActiveCountsJobs' /\ Ending'
    BY StepTyped, StepOnCourse, StepCounts, StepEnds DEF WalkInv
<1>2. (QueueStays \/ Moves) /\ UNCHANGED flake
    BY StepMoves DEF WalkInv
<1>3. Genuine' /\ Placed'
    BY <1>2, MoveKeepsGenuine, MoveKeepsPlaced DEF WalkInv
<1> QED BY <1>1, <1>3 DEF WalkInv

\* As long as the names of an attribute set stay distinct in what dumpLossy
\* makes of them, every attribute found is at every moment in exactly one
\* place, waiting, with a worker or concluded, whatever dies, is retried or
\* restarted; and the done line is written only when all are concluded.
THEOREM NoneIsForgotten ==
    ASSUME DistinctNames
    PROVE  Spec => []NothingForgotten
<1>1. WalkInv => NothingForgotten
    BY PlacedIsNotLost, FinishedIsConcluded
       DEF WalkInv, Ending, NothingForgotten, DoneMeansComplete
<1>2. WalkInv /\ [Next]_vars => WalkInv'
    BY StepWalk
<1> QED BY <1>1, <1>2, InitWalk, PTL DEF Spec

-----------------------------------------------------------------------------
(* The loop implements the walk *)

LEMMA NamesAreNames ==
    ASSUME Typed, NEW path \in AttrPath
    PROVE  Names(path) \subseteq Name
<1>1. flake[path].children \in Seq(Name)
    BY DEF Typed, WorkersTyped, WorkerTypeOK, Outcome
<1>2. Dumped(flake[path].children) \in Seq(Name)
    BY <1>1, DumpedNames
<1>3. \A i \in DOMAIN Dumped(flake[path].children) : Dumped(flake[path].children)[i] \in Name
    BY <1>2, LenProperties
<1> QED BY <1>3 DEF Names, ToSet

LEMMA DepthBound ==
    ASSUME NEW path \in AttrPath
    PROVE  TooDeep(path) <=> ~(Len(path) < MaxAttrPathDepth)
<1>1. Len(path) \in Nat /\ MaxAttrPathDepth \in Nat
    BY AttrPaths, LenProperties, WorkerAssumption
<1> QED BY <1>1 DEF TooDeep

\* What the walk finds is what the loop discovers.
LEMMA FoundIsDiscovered ==
    ASSUME Typed, NEW path \in AttrPath
    PROVE  Walk!Found(path) <=> Discovered(path)
<1>1. ASSUME NEW parent \in AttrPath
      PROVE  [p \in AttrPath |-> ChildPaths(p)][parent] = ChildPaths(parent)
    OBVIOUS
<1>2. ASSUME Discovered(path), path # <<>>
      PROVE  Walk!Found(path)
    <2>1. /\ Front(path) \in AttrPath /\ path = Append(Front(path), Last(path))
          /\ Len(Front(path)) < MaxAttrPathDepth
        BY <1>2, PathSplits
    <2>2. verdict[Front(path)] = "expanded" /\ path \in ChildPaths(Front(path))
        BY <1>2, <2>1 DEF Discovered, ChildPaths
    <2> QED BY <1>1, <2>1, <2>2 DEF Walk!Found
<1>3. ASSUME Walk!Found(path), path # <<>>
      PROVE  Discovered(path)
    <2>1. PICK parent \in AttrPath : verdict[parent] = "expanded" /\ path \in ChildPaths(parent)
        BY <1>1, <1>3 DEF Walk!Found
    <2>2. PICK name \in Names(parent) : path = Append(parent, name)
        BY <2>1 DEF ChildPaths
    <2>3. parent \in Seq(Name) /\ name \in Name
        BY <2>2, AttrPaths, NamesAreNames
    <2>4. Front(path) = parent /\ Last(path) = name
        BY <2>2, <2>3, AppendedPath
    <2> QED BY <2>1, <2>2, <2>4 DEF Discovered
<1>4. CASE path = <<>>
    BY <1>4 DEF Walk!Found, Discovered
<1> QED BY <1>2, <1>3, <1>4

LEMMA InitIsWalk == Init => Walk!Init
<1> SUFFICES ASSUME Init PROVE Walk!Init
    OBVIOUS
<1>1. Typed
    BY InitTyped
<1>2. ASSUME NEW path \in AttrPath
      PROVE  ChildPaths(path) \subseteq AttrPath
    <2>1. \A name \in Names(path) : name \in Name
        BY <1>1, NamesAreNames
    <2> QED BY <2>1, DepthBound, ChildIsAttrPath DEF ChildPaths
<1>3. ASSUME NEW path \in AttrPath
      PROVE  Truth(path) \in Verdict
    <2>1. flake[path].kind \in OutcomeKind
        BY <1>1 DEF Typed, WorkersTyped, WorkerTypeOK, Outcome
    <2>2. CASE ~InFlake(path)
        BY <2>2 DEF Truth, Verdict
    <2>3. CASE InFlake(path) /\ flake[path].kind = "job"
        BY <2>3 DEF Truth, Verdict
    <2>4. CASE InFlake(path) /\ flake[path].kind = "throws"
        BY <2>4 DEF Truth, Verdict
    <2>5. CASE InFlake(path) /\ flake[path].kind = "ignore"
        BY <2>5 DEF Truth, Verdict
    <2>6. CASE InFlake(path) /\ flake[path].kind \in {"kills", "oversized"}
        BY <2>6 DEF Truth, Verdict
    <2>7. CASE InFlake(path) /\ flake[path].kind = "children"
        BY <2>7 DEF Truth, Verdict
    <2> QED BY <2>1, <2>2, <2>3, <2>4, <2>5, <2>6, <2>7 DEF OutcomeKind
<1>4. [path \in AttrPath |-> ChildPaths(path)] \in [AttrPath -> SUBSET AttrPath]
    BY <1>2
<1>5. [path \in AttrPath |-> {"died", Truth(path)}] \in [AttrPath -> SUBSET Verdict]
    BY <1>3 DEF Verdict
<1>6. verdict = [path \in AttrPath |-> "none"] /\ Stream = "open"
    BY DEF Init, Stream
<1> QED BY <1>4, <1>5, <1>6 DEF Walk!Init

\* The stream is ended by a step that leaves the attributes alone, and said to
\* be complete only when there is nothing left to do.
LEMMA StreamEnds ==
    ASSUME Ending, LoopStep \/ EmitFails
    PROVE  \/ Stream' = Stream
           \/ Stream = "open" /\ Stream' = "cut"
           \/ Stream = "open" /\ Stream' = "complete" /\ Finished
<1>1. CASE FinishDone
    BY <1>1 DEF FinishDone, Ending, Stream
<1>2. CASE EmitFails
    BY <1>2 DEF EmitFails, ExitWith, AboutToEmit, Serving, SeesDeath, Ending, Stream
<1>3. CASE FinishFatal \/ ExitOnException
    BY <1>3 DEF FinishFatal, ExitOnException, ExitWith, Ending, Stream
<1>4. CASE ~(FinishDone \/ EmitFails \/ FinishFatal \/ ExitOnException)
    BY <1>4 DEF LoopStep, StopIfInterrupted, GrowPool, ForkFails, KeepPool, EndDispatch, Poll, PollFails,
                AskToExit, KillWorkers, run, Stream
<1> QED BY <1>1, <1>2, <1>3, <1>4

\* No other step ends it.
LEMMA SlotStepInStream ==
    ASSUME Ending, NEW w \in Slot, SlotStep(w)
    PROVE  Stream = "open" /\ Stream' = "open"
<1>1. pc # "exited" /\ ~done /\ UNCHANGED done
    BY DEF SlotStep, Dispatch, FillBuffer, HandleReady, HandleRestart, HandleFatal,
           HandleJob, HandleError, HandleIgnore, HandleChildren, HandleTooDeep,
           AnswerFrame, GiveUp, ReplaceWorker, ClosePipes, WaitForChild, TakesLine,
           SeesDeath, Serving, Ending, run
<1>2. pc' # "exited"
    BY SlotStepGoesOn
<1> QED BY <1>1, <1>2 DEF Stream

LEMMA FlakeStays ==
    ASSUME UNCHANGED flake
    PROVE  /\ [path \in AttrPath |-> ChildPaths(path)]' = [path \in AttrPath |-> ChildPaths(path)]
           /\ [path \in AttrPath |-> {"died", Truth(path)}]'
                  = [path \in AttrPath |-> {"died", Truth(path)}]
<1>1. \A path : ChildPaths(path)' = ChildPaths(path)
    BY DEF ChildPaths, Names
<1>2. \A path : Truth(path)' = Truth(path)
    <2>1. \A path : InFlake(path)' <=> InFlake(path)
        BY DEF InFlake, Names
    <2> QED BY <2>1 DEF Truth
<1> QED BY <1>1, <1>2

\* A verdict on a path with a worker is a step of the walk.
LEMMA ConcludingIsWalk ==
    ASSUME Typed, Placed, NEW path \in AttrPath, path \in Held,
           NEW v \in {"died", Truth(path)}, Conclude(path, v),
           Stream = "open", Stream' = "open", UNCHANGED flake
    PROVE  Walk!Next
<1>1. verdict[path] = "none" /\ Discovered(path)
    BY DEF Placed
<1>2. path \in Walk!Unconcluded
    BY <1>1, FoundIsDiscovered DEF Walk!Unconcluded
<1>3. v \in [p \in AttrPath |-> {"died", Truth(p)}][path]
    OBVIOUS
<1>4. Walk!Conclude(path)
    BY <1>2, <1>3, FlakeStays DEF Walk!Conclude, Conclude
<1> QED BY <1>4 DEF Walk!Next

LEMMA StepIsWalk ==
    ASSUME WalkInv, [Next]_vars
    PROVE  [Walk!Next]_(Walk!vars)
<1> USE DEF WalkInv
<1>a. (QueueStays \/ Moves) /\ UNCHANGED flake
    BY StepMoves
<1>1. CASE LoopStep \/ EmitFails
    <2>1. UNCHANGED verdict
        BY <1>1, LoopStepMoves DEF QueueStays
    <2>2. CASE Stream' = Stream
        BY <1>a, <2>1, <2>2, FlakeStays DEF Walk!vars
    <2>3. CASE Stream = "open" /\ Stream' = "cut"
        BY <1>a, <2>1, <2>3, FlakeStays DEF Walk!Next, Walk!Cut
    <2>4. CASE Stream = "open" /\ Stream' = "complete" /\ Finished
        <3>1. \A path \in AttrPath : Discovered(path) => verdict[path] # "none"
            BY <2>4, FinishedIsConcluded
        <3>2. Walk!Unconcluded = {}
            BY <3>1, FoundIsDiscovered DEF Walk!Unconcluded
        <3> QED BY <1>a, <2>1, <2>4, <3>2, FlakeStays DEF Walk!Next, Walk!Complete
    <2> QED BY <1>1, <2>2, <2>3, <2>4, StreamEnds
<1>2. ASSUME NEW w \in Slot, SlotStep(w)
      PROVE  [Walk!Next]_(Walk!vars)
    <2>1. Stream = "open" /\ Stream' = "open"
        BY <1>2, SlotStepInStream
    <2>2. CASE UNCHANGED verdict
        BY <1>a, <2>1, <2>2, FlakeStays DEF Walk!vars
    <2>3. CASE Blames(w)
        <3>1. currentJob[w].path \in Held /\ currentJob[w].path \in AttrPath
            BY <2>3, MovesTyped DEF Blames, LetsGo
        <3> QED BY <1>a, <2>1, <2>3, <3>1, ConcludingIsWalk DEF Blames
    <2>4. CASE Settles(w)
        <3>1. currentJob[w].path \in Held /\ currentJob[w].path \in AttrPath
            BY <2>4, MovesTyped DEF Settles, LetsGo
        <3>2. InFlake(currentJob[w].path)
            BY <3>1 DEF Genuine
        <3>3. Conclusion(currentJob[w].path) = Truth(currentJob[w].path)
            BY <2>4, <3>1, <3>2, ConclusionIsTruth DEF Settles
        <3> QED BY <1>a, <2>1, <2>4, <3>1, <3>3, ConcludingIsWalk DEF Settles
    <2> QED BY <1>2, <2>2, <2>3, <2>4, SlotStepMoves DEF QueueStays, HandsOut, Requeues
<1>3. CASE (\E w \in Slot : ChildStep(w) \/ ChildCrash(w)) \/ Interrupt \/ UNCHANGED vars
    <2>1. UNCHANGED verdict /\ Stream' = Stream
        BY <1>3 DEF ChildStep, ChildCrash, Interrupt, vars, queue, run, Stream
    <2> QED BY <1>a, <2>1, FlakeStays DEF Walk!vars
<1> QED BY <1>1, <1>2, <1>3 DEF Next, CoordinatorStep, Exited

\* The event loop, with its workers, pipes, deaths, retries and restarts,
\* implements the abstract walk over the attributes: each found is concluded
\* once and for all with what it comes to or with the deaths it caused, and
\* done is said only of a stream with nothing left unconcluded.
THEOREM LoopImplementsWalk ==
    ASSUME DistinctNames
    PROVE  Spec => ImplementsWalk
<1>1. Init => Walk!Init
    BY InitIsWalk
<1>2. WalkInv /\ [Next]_vars => WalkInv'
    BY StepWalk
<1>3. WalkInv /\ [Next]_vars => [Walk!Next]_(Walk!vars)
    BY StepIsWalk
<1> QED BY <1>1, <1>2, <1>3, InitWalk, PTL DEF Spec, ImplementsWalk, Walk!Spec

-----------------------------------------------------------------------------
(* Who pays for a crash, when a worker may be killed at any time but only
   CrashBudget times in a run.

   Every death that an attribute of the flake's own making did not cause is a
   crash that has been spent, and is charged once: to the attempts of the
   attribute the coordinator has the worker down for, or to the slot's startup
   failures.  The invariants keep that account. *)

\* The ambient crashes so far.
Spent == CrashBudget - crashesLeft

\* An attribute that a worker does not die of.
Innocent(path) == flake[path].kind \notin {"kills", "oversized"}

\* A slot that may still be serviced: a run that is to be aborted goes through
\* what is left of its pass, and not back to the top.
MayBeServed(w) == fatal => w \in polled

\* A worker that was killed and whose death may yet be charged to an innocent
\* attribute: the one it holds and has not answered, or the one it will be
\* given because its death is only noticed after that.
Chargeable(w) ==
    /\ state[w] = "dead" /\ MayBeServed(w)
    /\ \/ idle[w]
       \/ /\ Holds(w) /\ Innocent(currentJob[w].path)
          /\ Count(w) = 0 \/ StreamOf(w)[1] = Torn
       \/ ~Holds(w) /\ Count(w) >= 1 /\ StreamOf(w)[1] = Ready
       \/ /\ Holds(w) /\ Innocent(currentJob[w].path)
          /\ Count(w) >= 3 /\ StreamOf(w)[3] = Ready

Uncharged == {w \in Slot : Chargeable(w)}

\* The attributes in the queue and with the workers.
Jobs == ToSet(todo) \cup {currentJob[w] : w \in Holders}

\* No innocent attribute has been charged with more deaths than crashes have
\* been spent, those not charged to anything yet left out.
Bearable(job) ==
    Innocent(job.path) => job.attempts + Cardinality(Uncharged) <= Spent

Accounted ==
    InLoop =>
        /\ Cardinality(Uncharged) <= Spent
        /\ \A job \in Jobs : Bearable(job)
        /\ closed = {}

-----------------------------------------------------------------------------
(* What is charged *)

LEMMA UnchargedFinite ==
    /\ IsFiniteSet(Uncharged)
    /\ \A S \in SUBSET Uncharged :
          IsFiniteSet(S) /\ Cardinality(S) \in Nat /\ Cardinality(S) <= Cardinality(Uncharged)
<1>1. IsFiniteSet(Slot)
    BY WorkerAssumption, FS_Interval DEF Slot
<1>2. IsFiniteSet(Uncharged)
    BY <1>1, FS_Subset DEF Uncharged
<1>3. ASSUME NEW S \in SUBSET Uncharged
      PROVE  IsFiniteSet(S) /\ Cardinality(S) \in Nat /\ Cardinality(S) <= Cardinality(Uncharged)
    BY <1>2, FS_Subset, FS_CardinalityType
<1> QED BY <1>2, <1>3

\* A step of the coordinator about one slot leaves the others alone.
LEMMA SlotStepAlone ==
    ASSUME Typed, NEW w \in Slot, SlotStep(w), NEW v \in Slot \ {w}
    PROVE  UNCHANGED <<state[v], buffer[v], fromChild[v], idle[v], readySinceFork[v],
                       currentJob[v], startupFailures[v], flake, crashesLeft>>
<1> USE SlotTyped
<1>a. startupFailures \in [Slot -> 0..(MaxStartupFailures - 1)]
    BY DEF Typed, PoolTyped
<1>1. CASE Dispatch(w) \/ FillBuffer(w)
    BY <1>1 DEF Dispatch, FillBuffer, environment
<1>2. CASE HandleReady(w) \/ HandleFatal(w)
    BY <1>2 DEF HandleReady, HandleFatal, TakesLine, child, environment
<1>3. CASE HandleJob(w) \/ HandleError(w) \/ HandleIgnore(w) \/ HandleChildren(w)
               \/ HandleTooDeep(w)
    <2>1. \E kinds : TakesLine(w, kinds)
        BY <1>3 DEF HandleJob, HandleError, HandleIgnore, HandleChildren, HandleTooDeep
    <2>2. AnswerFrame(w) /\ ReleaseJob(w)
        BY <1>3 DEF HandleJob, HandleError, HandleIgnore, HandleChildren, HandleTooDeep
    <2> QED BY <2>1, <2>2 DEF AnswerFrame, ReleaseJob, TakesLine, child, environment
<1>4. CASE HandleRestart(w) \/ ReplaceWorker(w)
    <2>1. ForkFails(w) \/ \E failures : NewWorker(w, failures)
        BY <1>4 DEF HandleRestart, ReplaceWorker
    <2>2. UNCHANGED environment
        BY <1>4 DEF HandleRestart, ReplaceWorker
    <2> QED BY <1>a, <2>1, <2>2 DEF NewWorker, Forked, ForkFails, Reaped, environment
<1>5. CASE GiveUp(w)
    BY <1>5 DEF GiveUp, child, environment
<1>6. CASE ClosePipes(w)
    BY <1>6 DEF ClosePipes, child, environment, pool_
<1>7. CASE WaitForChild(w)
    BY <1>7 DEF WaitForChild, Reaped, environment, pool_
<1> QED BY <1>1, <1>2, <1>3, <1>4, <1>5, <1>6, <1>7 DEF SlotStep

\* A slot that is not to be serviced any more stays so.
LEMMA ServedNoMore ==
    ASSUME NEW w \in Slot, SlotStep(w), InLoop', NEW v, MayBeServed(v)'
    PROVE  InLoop /\ MayBeServed(v)
<1>1. CASE Dispatch(w) \/ FillBuffer(w)
    BY <1>1 DEF Dispatch, FillBuffer, run, InLoop, MayBeServed
<1>2. CASE HandleReady(w) \/ HandleFatal(w)
    BY <1>2 DEF HandleReady, HandleFatal, TakesLine, Serving, FinishLine, LeaveSlot, run,
                InLoop, MayBeServed
<1>3. CASE HandleJob(w) \/ HandleError(w) \/ HandleIgnore(w) \/ HandleChildren(w)
               \/ HandleTooDeep(w)
    <2>1. \E kinds : TakesLine(w, kinds)
        BY <1>3 DEF HandleJob, HandleError, HandleIgnore, HandleChildren, HandleTooDeep
    <2>2. AnswerFrame(w)
        BY <1>3 DEF HandleJob, HandleError, HandleIgnore, HandleChildren, HandleTooDeep
    <2> QED BY <2>1, <2>2 DEF AnswerFrame, TakesLine, Serving, FinishLine, LeaveSlot, InLoop,
                              MayBeServed
<1>4. CASE HandleRestart(w) \/ GiveUp(w) \/ ReplaceWorker(w)
    BY <1>4 DEF HandleRestart, GiveUp, ReplaceWorker, SeesDeath, Serving, ForkFails, LeaveSlot,
                run, InLoop, MayBeServed
<1>5. CASE ClosePipes(w) \/ WaitForChild(w)
    BY <1>5 DEF ClosePipes, WaitForChild, InLoop
<1> QED BY <1>1, <1>2, <1>3, <1>4, <1>5 DEF SlotStep

LEMMA OthersCharged ==
    ASSUME Typed, NEW w \in Slot, SlotStep(w), InLoop', NEW v \in Slot \ {w}, Chargeable(v)'
    PROVE  Chargeable(v)
<1>1. UNCHANGED <<state[v], buffer[v], fromChild[v], idle[v], currentJob[v], flake>>
    BY SlotStepAlone
<1>2. UNCHANGED StreamOf(v)
    BY <1>1 DEF StreamOf
<1>3. MayBeServed(v)
    BY ServedNoMore DEF Chargeable
<1> QED BY <1>1, <1>2, <1>3 DEF Chargeable, Count, Holds, Innocent

\* A worker's death is seen once it is dead, unless what it holds is an
\* attribute whose answer is too long for a line.
LEMMA DeathIsDeserved ==
    ASSUME Typed, NEW w \in Slot, OnCourse(w), SeesDeath(w),
           Holds(w) => Innocent(currentJob[w].path)
    PROVE  state[w] = "dead" /\ (Count(w) = 0 \/ StreamOf(w)[1] = Torn)
<1>1. Said(w)
    BY DEF OnCourse
<1>2. /\ Len(buffer[w]) \in Nat /\ Count(w) \in Nat /\ Len(buffer[w]) <= Count(w)
      /\ buffer[w] \in Seq(Token)
    BY StreamLength
<1>3. state[w] \in State /\ (Count(w) >= 1 => state[w] # "none")
    BY SlotTyped DEF OnCourse, Taken, SeesDeath, Serving, InLoop
<1>4. CASE SeesEof(w)
    <2>1. buffer[w] = <<>> /\ fromChild[w] = <<>> /\ state[w] = "dead"
        BY <1>4 DEF SeesEof, AtEof
    <2> QED BY <2>1, StreamEmpty
<1>5. CASE SeesTornLine(w)
    <2>1. buffer[w] # <<>> /\ Head(buffer[w]).t = "torn"
        BY <1>5 DEF SeesTornLine, HasLine, HasNewline, Message
    <2>2. 1 \in 1..Len(buffer[w]) /\ Head(buffer[w]) = buffer[w][1]
        BY <1>2, <2>1
    <2>3. Count(w) >= 1 /\ StreamOf(w)[1].t = "torn"
        BY <1>2, <2>1, <2>2, StreamElements
    <2>4. StreamOf(w)[1] = Torn /\ ~Alive(w)
        BY <1>1, <2>3 DEF Said, IsAnswer, Unasked, Ready, Restart, Fatal
    <2> QED BY <1>3, <2>3, <2>4 DEF Alive
<1>6. CASE SeesOversizedLine(w)
    <2>1. PICK i \in DOMAIN fromChild[w] : fromChild[w][i].t = "oversized"
        BY <1>6 DEF SeesOversizedLine
    <2>2. PICK j \in 1..Count(w) : StreamOf(w)[j].t = "oversized"
        BY <2>1, PipeInStream
    <2>3. j \in {1, 2, 3, 4}
        BY <1>1, <1>2 DEF Said
    <2>4. j = 1 /\ StreamOf(w)[1] = Reply(w) /\ Holds(w)
        BY <1>1, <1>2, <2>2, <2>3 DEF Said, Unasked, Ready, Restart, Fatal, Torn, Newline
    <2>5. Reply(w).t = "oversized"
        BY <2>2, <2>4
    <2>6. flake[currentJob[w].path].kind \in OutcomeKind
        BY <2>4, JobTyped DEF Outcome
    <2>7. flake[currentJob[w].path].kind = "oversized"
        BY <2>5, <2>6 DEF Reply, Response, OutcomeKind
    <2> QED BY <2>4, <2>7 DEF Innocent
<1> QED BY <1>4, <1>5, <1>6 DEF SeesDeath

\* No step of the coordinator makes a death chargeable, and one that charges
\* an innocent attribute has a chargeable death for it, which no longer is.
LEMMA SlotStepCharges ==
    ASSUME Typed, AllOnCourse, NEW w \in Slot, SlotStep(w), InLoop'
    PROVE  \/ /\ QueueStays \/ HandsOut(w) \/ Settles(w)
              /\ Chargeable(w)' => Chargeable(w)
           \/ /\ Requeues(w) \/ Blames(w)
              /\ ~Chargeable(w)'
              /\ Innocent(currentJob[w].path) => Chargeable(w)
<1>a. OnCourse(w)
    BY DEF AllOnCourse
<1>b. Said(w) /\ Doing(w) /\ Taken(w)
    BY <1>a DEF OnCourse
<1>1. CASE Dispatch(w)
    <2>1. idle[w] /\ UNCHANGED <<state, fatal, polled>>
        BY <1>1 DEF Dispatch, Dispatchable, run
    <2>2. Chargeable(w)' => Chargeable(w)
        BY <2>1 DEF Chargeable, MayBeServed
    <2>3. QueueStays \/ HandsOut(w)
        <3>1. ~Holds(w)
            BY <1>b, <2>1 DEF Taken
        <3> QED BY <1>1, <3>1 DEF Dispatch, Dispatchable, HandsOut
    <2> QED BY <2>2, <2>3
<1>2. CASE FillBuffer(w)
    <2>1. StreamOf(w)' = StreamOf(w)
        BY <1>2, StreamRead
    <2>2. UNCHANGED <<state, idle, currentJob, flake, queue, fatal, polled>>
        BY <1>2 DEF FillBuffer, environment, run
    <2>3. Chargeable(w)' => Chargeable(w)
        BY <2>1, <2>2 DEF Chargeable, MayBeServed, Count, Holds, Innocent
    <2> QED BY <2>2, <2>3 DEF QueueStays, queue
<1>3. CASE HandleReady(w)
    <2>1. /\ UNCHANGED <<state, currentJob, queue, fromChild>> /\ TakesLine(w, {"ready"})
          /\ idle'[w]
        BY <1>3, SlotTyped DEF HandleReady, child
    <2>2. /\ Count(w) >= 1 /\ StreamOf(w)[1] = Message(w)
          /\ Message(w) \in Token /\ Message(w).t = "ready"
        BY <1>b, <2>1, StreamTaken
    <2>3. Message(w) = Ready
        BY <2>2, MessageByKind
    <2>4. ~Holds(w)
        BY <1>b, <2>2, <2>3, MessagesDiffer DEF Said, Unasked
    <2>5. MayBeServed(w)
        BY <2>1 DEF TakesLine, Serving, MayBeServed
    <2>6. Chargeable(w)' => Chargeable(w)
        BY <2>1, <2>2, <2>3, <2>4, <2>5 DEF Chargeable
    <2> QED BY <2>1, <2>6 DEF QueueStays, queue
<1>4. CASE HandleFatal(w)
    <2>1. ~MayBeServed(w)' /\ UNCHANGED <<currentJob, queue>>
        BY <1>4 DEF HandleFatal, FinishLine, StaysWith, LeaveSlot, MayBeServed
    <2> QED BY <2>1 DEF Chargeable, QueueStays, queue
<1>5. CASE HandleJob(w) \/ HandleError(w) \/ HandleIgnore(w) \/ HandleChildren(w)
               \/ HandleTooDeep(w)
    <2>1. PICK kind \in {"job", "error", "ignore", "children"} : TakesLine(w, {kind})
        BY <1>5 DEF HandleJob, HandleError, HandleIgnore, HandleChildren, HandleTooDeep
    <2>2. AnswerFrame(w) /\ ReleaseJob(w)
        BY <1>5 DEF HandleJob, HandleError, HandleIgnore, HandleChildren, HandleTooDeep
    <2>3. UNCHANGED <<state, idle, fromChild, flake>> /\ ~Holds(w)'
        BY <2>2, SlotTyped DEF AnswerFrame, ReleaseJob, child, environment, Holds
    <2>4. Settles(w)
        BY <1>5, <1>a, AnswerSettles
    <2>5. Holds(w) /\ Innocent(currentJob[w].path)
        BY <2>4 DEF Settles, LetsGo, Innocent
    <2>6. ~idle[w]
        BY <1>b, <2>5 DEF Taken
    <2>7. /\ \/ Count(w) = 1 /\ Count(w)' = 0
             \/ /\ Count(w) >= 2 /\ Count(w)' = Count(w) - 2
                /\ Count(w) >= 3 => StreamOf(w)'[1] = StreamOf(w)[3]
          /\ Count(w) \in Nat
        BY <1>b, <2>1, <2>3, StreamTaken, StreamLength
    <2>8. MayBeServed(w)
        BY <2>1 DEF TakesLine, Serving, MayBeServed
    <2>9. Chargeable(w)' => Chargeable(w)
        BY <2>3, <2>5, <2>6, <2>7, <2>8 DEF Chargeable
    <2> QED BY <2>4, <2>9
<1>6. CASE HandleRestart(w)
    <2>1. NewWorker(w, 0) /\ UNCHANGED queue
        BY <1>6 DEF HandleRestart, ForkFails, InLoop
    <2>2. ~Holds(w)
        BY <1>6, <1>a, RestartedHoldsNone
    <2>3. currentJob' = currentJob
        BY <2>1, <2>2, NothingTaken DEF NewWorker
    <2>4. state'[w] = "starting"
        BY <2>1, SlotTyped DEF NewWorker, Forked
    <2> QED BY <2>1, <2>3, <2>4 DEF QueueStays, queue, Chargeable
<1>7. CASE GiveUp(w) \/ ReplaceWorker(w)
    <2>1. SeesDeath(w) /\ GiveBackJob(w) /\ currentJob' = [currentJob EXCEPT ![w] = None]
        BY <1>7 DEF GiveUp, ReplaceWorker, NewWorker, ForkFails
    <2>2. QueueStays \/ Requeues(w) \/ Blames(w)
        BY <2>1, GivingBackMoves
    <2>3. ~Chargeable(w)'
        <3>1. CASE GiveUp(w)
            <4>1. ~Holds(w) /\ ~idle[w] /\ fromChild[w] = <<>>
                BY <1>a, <3>1, NothingSaidBeforeReady DEF GiveUp
            <4>2. UNCHANGED <<idle, fromChild>> /\ buffer'[w] = <<>> /\ currentJob'[w] = None
                BY <3>1, SlotTyped DEF GiveUp, child
            <4>3. Count(w)' = 0
                BY <4>1, <4>2 DEF StreamOf, Count
            <4> QED BY <4>1, <4>2, <4>3 DEF Chargeable, Holds
        <3>2. CASE ReplaceWorker(w)
            <4>1. NewWorker(w, Failures(w))
                BY <3>2 DEF ReplaceWorker, ForkFails, InLoop
            <4>2. state'[w] = "starting"
                BY <4>1, SlotTyped DEF NewWorker, Forked
            <4> QED BY <4>2 DEF Chargeable
        <3> QED BY <1>7, <3>1, <3>2
    <2>4. Holds(w) /\ Innocent(currentJob[w].path) => Chargeable(w)
        BY <1>a, <2>1, DeathIsDeserved DEF Chargeable, MayBeServed, SeesDeath, Serving
    <2> QED BY <2>2, <2>3, <2>4 DEF Requeues, Blames, LetsGo
<1>8. CASE ClosePipes(w) \/ WaitForChild(w)
    BY <1>8 DEF ClosePipes, WaitForChild, InLoop
<1> QED BY <1>1, <1>2, <1>3, <1>4, <1>5, <1>6, <1>7, <1>8 DEF SlotStep

\* A worker exits by itself only after it has said so, and once that is handled
\* its slot is not serviced any more.
Condemned ==
    InLoop => \A w \in Slot : state[w] = "exiting" /\ Count(w) = 0 => ~MayBeServed(w)

LEMMA SlotStepCondemned ==
    ASSUME Typed, AllOnCourse, Condemned, NEW w \in Slot, SlotStep(w), InLoop',
           NEW v \in Slot, state'[v] = "exiting", Count(v)' = 0, MayBeServed(v)'
    PROVE  FALSE
<1>a. OnCourse(w) /\ Said(w) /\ Doing(w) /\ Taken(w)
    BY DEF AllOnCourse, OnCourse
<1>b. InLoop /\ MayBeServed(v)
    BY ServedNoMore
<1>1. CASE v # w
    <2>1. UNCHANGED <<state[v], StreamOf(v)>>
        BY <1>1, SlotStepAlone DEF StreamOf
    <2> QED BY <1>b, <2>1 DEF Condemned, Count
<1>2. CASE v = w
    <2>1. CASE Dispatch(w)
        BY <1>2, <1>a, <2>1 DEF Dispatch, Dispatchable, Taken
    <2>2. CASE FillBuffer(w)
        <3>1. UNCHANGED <<state, StreamOf(w)>>
            BY <2>2, StreamRead DEF FillBuffer
        <3> QED BY <1>2, <1>b, <3>1 DEF Condemned, Count
    <2>3. CASE HandleReady(w)
        <3>1. UNCHANGED child /\ TakesLine(w, {"ready"})
            BY <2>3 DEF HandleReady
        <3>2. /\ Count(w) >= 1 /\ StreamOf(w)[1] = Message(w)
              /\ Message(w) \in Token /\ Message(w).t = "ready"
            BY <1>a, <3>1, StreamTaken DEF child
        <3>3. StreamOf(w)[1] = Ready /\ ~Holds(w)
            BY <1>a, <3>2, MessageByKind, MessagesDiffer DEF Said, Unasked
        <3> QED BY <1>2, <1>a, <3>1, <3>2, <3>3, MessagesDiffer DEF Doing, child
    <2>4. CASE HandleFatal(w) \/ GiveUp(w)
        BY <1>2, <2>4 DEF HandleFatal, GiveUp, FinishLine, StaysWith, LeaveSlot, MayBeServed
    <2>5. CASE HandleJob(w) \/ HandleError(w) \/ HandleIgnore(w) \/ HandleChildren(w)
                   \/ HandleTooDeep(w)
        <3>1. PICK kinds \in SUBSET {"job", "error", "ignore", "oversized", "children"} :
                  TakesLine(w, kinds)
            <4>1. \E kind \in {"job", "error", "ignore", "children"} : TakesLine(w, {kind})
                BY <2>5 DEF HandleJob, HandleError, HandleIgnore, HandleChildren, HandleTooDeep
            <4> QED BY <4>1
        <3>2. UNCHANGED <<state, fromChild>>
            BY <2>5 DEF HandleJob, HandleError, HandleIgnore, HandleChildren, HandleTooDeep,
                        AnswerFrame, child
        <3>3. IsAnswer(StreamOf(w)[1])
            BY <1>a, <3>1, <3>2, AnswerIsReply, StreamTaken
        <3>4. (Count(w) = 1 /\ state[w] = "dead") \/ (Count(w) >= 2 /\ Count(w)' = Count(w) - 2)
            BY <1>a, <3>1, <3>2, StreamTaken
        <3>5. StreamOf(w)[1] \notin {Restart, Fatal}
            BY <3>3, MessagesDiffer DEF Unasked
        <3> QED BY <1>2, <1>a, <3>2, <3>4, <3>5 DEF Doing
    <2>6. CASE HandleRestart(w) \/ ReplaceWorker(w)
        <3>1. \E failures : NewWorker(w, failures)
            BY <2>6 DEF HandleRestart, ReplaceWorker, ForkFails, InLoop
        <3>2. state'[w] = "starting"
            BY <3>1, SlotTyped DEF NewWorker, Forked
        <3> QED BY <1>2, <3>2
    <2>7. CASE ClosePipes(w) \/ WaitForChild(w)
        BY <2>7 DEF ClosePipes, WaitForChild, InLoop
    <2> QED BY <2>1, <2>2, <2>3, <2>4, <2>5, <2>6, <2>7 DEF SlotStep
<1> QED BY <1>1, <1>2

LEMMA WorkerStepCondemned ==
    ASSUME Typed, AllOnCourse, Condemned, NEW w \in Slot, ChildStep(w) \/ ChildCrash(w), InLoop',
           NEW v \in Slot, state'[v] = "exiting", Count(v)' = 0, MayBeServed(v)'
    PROVE  FALSE
<1>1. /\ WorkerStep(w) \/ Crash(w)
      /\ UNCHANGED <<pc, polled, fatal, idle, readySinceFork, currentJob, pool, buffer>>
    BY DEF ChildStep, ChildCrash, pool_, run
<1>2. InLoop /\ MayBeServed(v)
    BY <1>1 DEF InLoop, MayBeServed
<1>3. CASE v # w
    <2>1. UNCHANGED Local(v)
        BY <1>1, <1>3, WorkerStepOnCourse DEF AllOnCourse
    <2> QED BY <1>2, <2>1 DEF Condemned, Local, Count
<1>4. CASE v = w
    <2>1. WriteNewline(w)
        BY <1>1, <1>4, SlotTyped
           DEF WorkerStep, Crash, StartEvaluator, WriteBody, WriteFails, MeasureMemory,
               ReadRequest, ReadExit, Evaluate, EvaluationKills, LeaveLoop, ExitWorker, Say, Die
    <2>2. Newline \in Token
        BY DEF Token
    <2>3. Count(w)' = Count(w) + 1 /\ Count(w) \in Nat
        BY <1>1, <2>1, <2>2, StreamGrows, StreamLength DEF WriteNewline
    <2> QED BY <1>4, <2>3
<1> QED BY <1>3, <1>4

LEMMA StepKeepsCondemned ==
    Typed /\ AllOnCourse /\ LinesInService /\ Condemned /\ [Next]_vars => Condemned'
<1> SUFFICES ASSUME Typed, AllOnCourse, LinesInService, Condemned, [Next]_vars, InLoop',
                    NEW v \in Slot, state'[v] = "exiting", Count(v)' = 0, MayBeServed(v)'
             PROVE  FALSE
    BY DEF Condemned
<1>1. CASE GrowPool
    <2>1. PICK w \in Slot : w = pool + 1
        BY <1>1, WorkerAssumption DEF GrowPool, MaySpawn, Typed, PoolTyped, Slot
    <2>2. NewWorker(w, 0) /\ InLoop /\ ~fatal
        BY <1>1, <2>1 DEF GrowPool, ForkFails, InLoop, LinesInService
    <2>3. CASE v = w
        BY <2>2, <2>3, SlotTyped DEF NewWorker, Forked
    <2>4. CASE v # w
        <3>1. UNCHANGED Local(v)
            BY <2>2, <2>4, NewWorkerOnCourse
        <3> QED BY <2>2, <3>1 DEF Local, Condemned, Count, MayBeServed
    <2> QED BY <2>3, <2>4
<1>2. CASE KeepPool \/ EndDispatch \/ Poll \/ PollFails
    <2>1. UNCHANGED <<child, buffer>> /\ InLoop /\ ~fatal
        BY <1>2 DEF KeepPool, EndDispatch, Poll, PollFails, pool_, InLoop, LinesInService
    <2>2. UNCHANGED <<state, StreamOf(v)>>
        BY <2>1 DEF child, StreamOf
    <2> QED BY <2>1, <2>2 DEF Condemned, Count, MayBeServed
<1>3. CASE StopIfInterrupted \/ AskToExit \/ KillWorkers \/ FinishFatal \/ FinishDone
               \/ ExitOnException \/ EmitFails
    BY <1>3 DEF StopIfInterrupted, AskToExit, KillWorkers, FinishFatal, FinishDone,
                ExitOnException, EmitFails, ExitWith, InLoop
<1>4. ASSUME NEW w \in Slot, SlotStep(w)
      PROVE  FALSE
    BY <1>4, SlotStepCondemned
<1>5. ASSUME NEW w \in Slot, ChildStep(w) \/ ChildCrash(w)
      PROVE  FALSE
    BY <1>5, WorkerStepCondemned
<1>6. CASE Interrupt \/ UNCHANGED vars
    <2>1. UNCHANGED <<child, buffer, pc, polled, fatal>>
        BY <1>6 DEF Interrupt, vars, pool_, run
    <2>2. UNCHANGED <<state, StreamOf(v), InLoop, MayBeServed(v)>>
        BY <2>1 DEF child, StreamOf, InLoop, MayBeServed
    <2> QED BY <2>2 DEF Condemned, Count
<1> QED BY <1>1, <1>2, <1>3, <1>4, <1>5, <1>6 DEF Next, CoordinatorStep, LoopStep, Exited

\* A worker that dies of its own accord, or of what it evaluates, is not
\* chargeable.
LEMMA WorkerStepCharges ==
    ASSUME Typed, NEW w \in Slot, OnCourse(w), Condemned, WorkerStep(w), InLoop, closed = {},
           UNCHANGED <<pc, polled, fatal, idle, readySinceFork, currentJob, pool, buffer>>,
           NEW v \in Slot, Chargeable(v)'
    PROVE  Chargeable(v)
<1>a. UNCHANGED flake
    BY DEF WorkerStep, StartEvaluator, WriteBody, WriteNewline, WriteFails, MeasureMemory,
           ReadRequest, ReadExit, Evaluate, EvaluationKills, LeaveLoop, ExitWorker, environment
<1>b. Said(w) /\ Doing(w) /\ Asked(w) /\ Taken(w)
    BY DEF OnCourse
<1>1. CASE v # w
    <2>1. UNCHANGED Local(v)
        BY <1>1, WorkerStepOnCourse
    <2> QED BY <1>a, <2>1 DEF Local, Chargeable, MayBeServed, Count, Holds, Innocent
<1>2. CASE v = w
    <2>1. state'[w] = "dead"
        BY <1>2 DEF Chargeable
    <2>2. ~(StartEvaluator(w) \/ WriteBody(w) \/ WriteNewline(w) \/ MeasureMemory(w)
               \/ ReadRequest(w) \/ Evaluate(w) \/ LeaveLoop(w))
        BY <2>1, SlotTyped DEF StartEvaluator, WriteBody, WriteNewline, MeasureMemory,
                               ReadRequest, Evaluate, LeaveLoop, Say, AfterLine
    <2>3. ~WriteFails(w)
        BY DEF WriteFails
    <2>4. ~ReadExit(w)
        <3>1. ASSUME toChild[w] # <<>>
              PROVE  Head(toChild[w]) # Exit
            <4>1. 1 \in DOMAIN toChild[w] /\ Head(toChild[w]) = toChild[w][1]
                BY <3>1, SlotTyped
            <4> QED BY <1>b, <4>1 DEF Asked, InLoop
        <3> QED BY <3>1 DEF ReadExit
    <2>5. state[w] \in {"evaluating", "exiting"} /\ UNCHANGED fromChild
        BY <2>2, <2>3, <2>4 DEF WorkerStep, EvaluationKills, ExitWorker
    <2>6. UNCHANGED <<StreamOf(w), Count(w), Holds(w), idle>> /\ ~idle[w]
        BY <1>b, <2>5 DEF StreamOf, Count, Holds, Taken
    <2>7. CASE EvaluationKills(w)
        <3>1. Holds(w) /\ ~Innocent(currentJob[w].path)
            BY <1>b, <2>7 DEF EvaluationKills, Doing, Innocent
        <3> QED BY <1>a, <1>2, <2>6, <3>1 DEF Chargeable, Innocent
    <2>8. CASE ExitWorker(w)
        <3>1. \/ Count(w) = 0
              \/ Count(w) = 2 /\ StreamOf(w)[1] \in {Restart, Fatal}
              \/ Holds(w) /\ Count(w) = 4 /\ StreamOf(w)[3] \in {Restart, Fatal}
            BY <1>b, <2>8 DEF ExitWorker, Doing
        <3>2. Count(w) # 0
            BY <1>2, <2>8 DEF Condemned, ExitWorker, Chargeable, MayBeServed
        <3>3. Count(w) = 4 => StreamOf(w)[1] # Torn
            BY <1>b, MessagesDiffer DEF Said
        <3> QED BY <1>2, <2>6, <3>1, <3>2, <3>3, MessagesDiffer DEF Chargeable, Unasked
    <2> QED BY <2>2, <2>3, <2>4, <2>7, <2>8 DEF WorkerStep
<1> QED BY <1>1, <1>2

\* Of the loop's own steps none kills.
LEMMA LoopStepCharges ==
    ASSUME Typed, LinesInService, LoopStep \/ EmitFails, InLoop'
    PROVE  /\ InLoop /\ UNCHANGED <<closed, crashesLeft>>
           /\ \A v \in Slot : Chargeable(v)' => Chargeable(v)
<1>1. CASE GrowPool
    <2>1. PICK w \in Slot : w = pool + 1
        BY <1>1, WorkerAssumption DEF GrowPool, MaySpawn, Typed, PoolTyped, Slot
    <2>2. NewWorker(w, 0)
        BY <1>1, <2>1 DEF GrowPool, ForkFails, InLoop
    <2>3. InLoop /\ UNCHANGED <<closed, crashesLeft, flake>> /\ ~fatal
        BY <1>1 DEF GrowPool, InLoop, environment, LinesInService
    <2>4. ASSUME NEW v \in Slot, Chargeable(v)'
          PROVE  Chargeable(v)
        <3>1. CASE v = w
            <4>1. state'[w] = "starting"
                BY <2>2, SlotTyped DEF NewWorker, Forked
            <4> QED BY <2>4, <3>1, <4>1 DEF Chargeable
        <3>2. CASE v # w
            <4>1. UNCHANGED Local(v)
                BY <2>2, <3>2, NewWorkerOnCourse
            <4> QED BY <2>3, <2>4, <4>1 DEF Local, Chargeable, MayBeServed, Count, Holds, Innocent
        <3> QED BY <3>1, <3>2
    <2> QED BY <2>3, <2>4
<1>2. CASE KeepPool \/ EndDispatch \/ Poll \/ PollFails
    <2>1. UNCHANGED <<child, pool_, flake, closed, crashesLeft>> /\ InLoop /\ ~fatal
        BY <1>2 DEF KeepPool, EndDispatch, Poll, PollFails, environment, InLoop, LinesInService
    <2>2. \A v \in Slot : Chargeable(v)' => Chargeable(v)
        BY <2>1 DEF child, pool_, Chargeable, MayBeServed, StreamOf, Count, Holds, Innocent
    <2> QED BY <2>1, <2>2
<1>3. ~(StopIfInterrupted \/ AskToExit \/ KillWorkers \/ FinishFatal \/ FinishDone
            \/ ExitOnException \/ EmitFails)
    BY DEF StopIfInterrupted, AskToExit, KillWorkers, FinishFatal, FinishDone,
           ExitOnException, EmitFails, ExitWith, InLoop
<1> QED BY <1>1, <1>2, <1>3 DEF LoopStep

-----------------------------------------------------------------------------
(* What becomes of the jobs *)

LEMMA TailJobs ==
    ASSUME NEW jobs \in Seq(Pending), jobs # <<>>
    PROVE  ToSet(Tail(jobs)) \subseteq ToSet(jobs) /\ Head(jobs) \in ToSet(jobs)
<1>1. /\ Tail(jobs) \in Seq(Pending) /\ Len(Tail(jobs)) = Len(jobs) - 1
      /\ \A i \in 1..Len(Tail(jobs)) : Tail(jobs)[i] = jobs[i + 1]
    BY HeadTailProperties
<1>2. /\ Len(jobs) \in Nat /\ Len(jobs) >= 1 /\ Head(jobs) = jobs[1]
      /\ DOMAIN jobs = 1..Len(jobs)
    BY EmptySeq, LenProperties
<1>3. DOMAIN Tail(jobs) = 1..(Len(jobs) - 1)
    BY <1>1, LenProperties
<1>4. \A i \in DOMAIN Tail(jobs) : Tail(jobs)[i] = jobs[i + 1] /\ i + 1 \in DOMAIN jobs
    BY <1>1, <1>2, <1>3
<1>5. 1 \in DOMAIN jobs
    BY <1>2
<1> QED BY <1>2, <1>4, <1>5 DEF ToSet

LEMMA JoinedJobs ==
    ASSUME NEW first \in Seq(Pending), NEW second \in Seq(Pending)
    PROVE  ToSet(first \o second) \subseteq ToSet(first) \cup ToSet(second)
<1> DEFINE both == first \o second
<1>1. /\ both \in Seq(Pending) /\ Len(both) = Len(first) + Len(second)
      /\ \A i \in 1..(Len(first) + Len(second)) :
            both[i] = IF i <= Len(first) THEN first[i] ELSE second[i - Len(first)]
    BY ConcatProperties
<1>2. /\ Len(first) \in Nat /\ DOMAIN first = 1..Len(first)
      /\ Len(second) \in Nat /\ DOMAIN second = 1..Len(second)
    BY LenProperties
<1>3. DOMAIN both = 1..(Len(first) + Len(second))
    BY <1>1, LenProperties
<1> HIDE DEF both
<1>4. ASSUME NEW i \in DOMAIN both
      PROVE  \/ i \in DOMAIN first /\ both[i] = first[i]
             \/ i - Len(first) \in DOMAIN second /\ both[i] = second[i - Len(first)]
    BY <1>1, <1>2, <1>3
<1>5. ToSet(both) \subseteq ToSet(first) \cup ToSet(second)
    BY <1>4 DEF ToSet
<1> QED BY <1>5 DEF both

LEMMA JobsTyped ==
    ASSUME Typed
    PROVE  Jobs \subseteq Pending
<1>1. \A i \in DOMAIN todo : todo[i] \in Pending
    BY LenProperties DEF Typed, QueueTyped
<1>2. \A w \in Holders : currentJob[w] \in Pending
    BY JobTyped DEF Holders, Holds
<1> QED BY <1>1, <1>2 DEF Jobs, ToSet

\* What a move makes of the jobs: nothing new but the children of an expanded
\* path, which nobody has died of, and the requeued job.
LEMMA MovesJobs ==
    ASSUME Typed, NEW w \in Slot, NEW job \in Jobs'
    PROVE  /\ HandsOut(w) \/ Settles(w) \/ Blames(w) => job \in Jobs \/ job.attempts = 0
           /\ Requeues(w) => job \in Jobs \/ job = Again(currentJob[w])
<1>1. todo \in Seq(Pending)
    BY DEF Typed, QueueTyped
<1>2. ASSUME HandsOut(w)
      PROVE  job \in Jobs
    <2>1. ToSet(todo') \subseteq ToSet(todo) /\ Head(todo) \in ToSet(todo)
        BY <1>1, <1>2, TailJobs DEF HandsOut
    <2>2. Holders' = Holders \cup {w} /\ Holders \subseteq Slot
        BY <1>2, HandingOutHolders DEF Holders
    <2>3. /\ currentJob'[w] = Head(todo)
          /\ \A v \in Slot \ {w} : currentJob'[v] = currentJob[v]
        BY <1>2, SlotTyped DEF HandsOut
    <2>4. Jobs' = ToSet(todo') \cup {currentJob'[v] : v \in Holders'}
        BY DEF Jobs
    <2> QED BY <2>1, <2>2, <2>3, <2>4 DEF Jobs
<1>3. ASSUME LetsGo(w)
      PROVE  /\ Settles(w) \/ Blames(w) => job \in Jobs \/ job.attempts = 0
             /\ Requeues(w) => job \in Jobs \/ job = Again(currentJob[w])
    <2>1. \A v \in Holders' : v \in Holders /\ currentJob'[v] = currentJob[v]
        BY <1>3, ReleasedPaths
    <2>2. Jobs' = ToSet(todo') \cup {currentJob'[v] : v \in Holders'}
        BY DEF Jobs
    <2>3. job \in Jobs \/ job \in ToSet(todo')
        BY <2>1, <2>2 DEF Jobs
    <2>4. todo' = todo => job \in Jobs
        BY <2>3 DEF Jobs
    <2>5. ASSUME Requeues(w)
          PROVE  job \in Jobs \/ job = Again(currentJob[w])
        <3>1. currentJob[w] \in Pending
            BY <1>3, JobTyped DEF LetsGo
        <3>2. Again(currentJob[w]) \in Pending
            <4>1. \A one \in Pending : Again(one) \in Pending
                BY DEF Pending, Again
            <4> QED BY <3>1, <4>1
        <3>3. <<Again(currentJob[w])>> \in Seq(Pending)
            BY <3>2, SingleJob
        <3>4. ToSet(todo') \subseteq ToSet(<<Again(currentJob[w])>>) \cup ToSet(todo)
            BY <1>1, <2>5, <3>3, JoinedJobs DEF Requeues
        <3>5. ToSet(<<Again(currentJob[w])>>) = {Again(currentJob[w])}
            BY DEF ToSet
        <3> QED BY <2>3, <2>5, <3>4, <3>5 DEF Jobs
    <2>6. ASSUME Settles(w), todo' # todo
          PROVE  job \in Jobs \/ job.attempts = 0
        <3> DEFINE path == currentJob[w].path
                   names == Dumped(flake[path].children)
        <3>1. /\ todo' = todo \o Children(path, names) /\ ~TooDeep(path)
              /\ flake[path].kind = "children"
            BY <2>6 DEF Settles, Conclusion
        <3>2. path \in AttrPath /\ names \in Seq(Name)
            BY <1>3, JobTyped, DumpedNames DEF LetsGo, Outcome
        <3> HIDE DEF path, names
        <3>3. Children(path, names) \in Seq(Pending)
            BY <3>1, <3>2, ChildrenOfPath
        <3>4. ToSet(todo') \subseteq ToSet(todo) \cup ToSet(Children(path, names))
            BY <1>1, <3>1, <3>3, JoinedJobs
        <3>5. \A kid \in ToSet(Children(path, names)) : kid.attempts = 0
            BY DEF ToSet, Children
        <3> QED BY <2>3, <2>6, <3>4, <3>5 DEF Jobs
    <2> QED BY <2>4, <2>5, <2>6 DEF Blames
<1> QED BY <1>2, <1>3 DEF Settles, Requeues, Blames

-----------------------------------------------------------------------------
(* The account is kept *)

\* A job that is another once more, for a death that is now charged.
Charged(job) ==
    \E w \in Uncharged \ Uncharged', old \in Jobs :
        job.path = old.path /\ job.attempts = old.attempts + 1

\* The account stays balanced when no death becomes chargeable and every
\* attempt more is one death less to charge.
LEMMA AccountBalances ==
    ASSUME Typed, Accounted, InLoop, UNCHANGED <<flake, crashesLeft, closed>>,
           Uncharged' \subseteq Uncharged,
           \A job \in Jobs' :
               Innocent(job.path) => job \in Jobs \/ job.attempts = 0 \/ Charged(job)
    PROVE  Accounted'
<1>1. /\ Cardinality(Uncharged') \in Nat /\ Cardinality(Uncharged) \in Nat
      /\ Cardinality(Uncharged') <= Cardinality(Uncharged)
    BY UnchargedFinite
<1>2. Spent' = Spent /\ Spent \in Int
    BY WorkerAssumption DEF Spent, Typed, WorkersTyped, WorkerTypeOK
<1>3. Cardinality(Uncharged') <= Spent' /\ closed' = {}
    BY <1>1, <1>2 DEF Accounted
<1>4. ASSUME NEW old \in Jobs, Innocent(old.path)
      PROVE  old.attempts \in Nat /\ old.attempts + Cardinality(Uncharged) <= Spent
    BY <1>4, JobsTyped DEF Accounted, Bearable, Pending
<1>5. ASSUME NEW job \in Jobs', Innocent(job.path)
      PROVE  job.attempts + Cardinality(Uncharged') <= Spent
    <2>1. CASE job.attempts = 0
        BY <1>1, <1>2, <1>3, <2>1
    <2>2. CASE job \in Jobs
        <3>1. job.attempts \in Nat /\ job.attempts + Cardinality(Uncharged) <= Spent
            BY <1>4, <1>5, <2>2
        <3> QED BY <1>1, <1>2, <3>1
    <2>3. CASE Charged(job)
        <3>1. PICK w \in Uncharged \ Uncharged', old \in Jobs :
                  job.path = old.path /\ job.attempts = old.attempts + 1
            BY <2>3 DEF Charged
        <3>2. Uncharged' \in SUBSET (Uncharged \ {w})
            BY <3>1
        <3>3. /\ IsFiniteSet(Uncharged \ {w})
              /\ Cardinality(Uncharged \ {w}) = Cardinality(Uncharged) - 1
            BY <3>1, UnchargedFinite, FS_RemoveElement
        <3>4. Cardinality(Uncharged') <= Cardinality(Uncharged) - 1
            BY <3>2, <3>3, FS_Subset
        <3>5. old.attempts \in Nat /\ old.attempts + Cardinality(Uncharged) <= Spent
            BY <1>4, <1>5, <3>1
        <3> QED BY <1>1, <1>2, <3>1, <3>4, <3>5
    <2> QED BY <1>5, <2>1, <2>2, <2>3
<1>6. \A job \in Jobs' : Bearable(job)'
    <2>1. \A path : Innocent(path)' <=> Innocent(path)
        BY DEF Innocent
    <2> QED BY <1>2, <1>5, <2>1 DEF Bearable
<1> QED BY <1>3, <1>6 DEF Accounted

\* Nothing is charged while the jobs stay as they are.
LEMMA JobsStay == QueueStays => Jobs' = Jobs
BY DEF QueueStays, Jobs, Holders

LEMMA SlotStepAccounts ==
    ASSUME Typed, AllOnCourse, Accounted, NEW w \in Slot, SlotStep(w), InLoop'
    PROVE  Accounted'
<1>1. InLoop /\ UNCHANGED closed
    BY DEF SlotStep, Dispatch, FillBuffer, HandleReady, HandleRestart, HandleFatal,
           HandleJob, HandleError, HandleIgnore, HandleChildren, HandleTooDeep,
           AnswerFrame, GiveUp, ReplaceWorker, ClosePipes, WaitForChild, TakesLine,
           SeesDeath, Serving, InLoop
<1>2. UNCHANGED <<flake, crashesLeft>>
    BY DEF SlotStep, Dispatch, FillBuffer, HandleReady, HandleRestart, HandleFatal,
           HandleJob, HandleError, HandleIgnore, HandleChildren, HandleTooDeep,
           AnswerFrame, GiveUp, ReplaceWorker, ClosePipes, WaitForChild, environment
<1>3. \A v \in Slot \ {w} : Chargeable(v)' => Chargeable(v)
    BY OthersCharged
<1>4. CASE (QueueStays \/ HandsOut(w) \/ Settles(w)) /\ (Chargeable(w)' => Chargeable(w))
    <2>1. Uncharged' \subseteq Uncharged
        BY <1>3, <1>4 DEF Uncharged
    <2>2. \A job \in Jobs' : job \in Jobs \/ job.attempts = 0
        <3>1. CASE QueueStays
            BY <3>1, JobsStay
        <3>2. CASE HandsOut(w) \/ Settles(w)
            BY <3>2, MovesJobs
        <3> QED BY <1>4, <3>1, <3>2
    <2> QED BY <1>1, <1>2, <2>1, <2>2, AccountBalances
<1>5. CASE /\ Requeues(w) \/ Blames(w)
           /\ ~Chargeable(w)'
           /\ Innocent(currentJob[w].path) => Chargeable(w)
    <2>1. Uncharged' \subseteq Uncharged
        BY <1>3, <1>5 DEF Uncharged
    <2>2. ASSUME NEW job \in Jobs', Innocent(job.path)
          PROVE  job \in Jobs \/ job.attempts = 0 \/ Charged(job)
        <3>1. CASE job = Again(currentJob[w])
            <4>1. currentJob[w] \in Jobs /\ currentJob[w] \in Pending
                BY <1>5, JobTyped DEF Requeues, Blames, LetsGo, Jobs, Holders, Holds
            <4>2. \A old \in Pending :
                      Again(old).path = old.path /\ Again(old).attempts = old.attempts + 1
                BY DEF Pending, Again
            <4>3. w \in Uncharged \ Uncharged'
                BY <1>5, <2>2, <3>1, <4>1, <4>2 DEF Uncharged
            <4> QED BY <3>1, <4>1, <4>2, <4>3 DEF Charged
        <3>2. CASE job # Again(currentJob[w])
            BY <1>5, <3>2, MovesJobs
        <3> QED BY <3>1, <3>2
    <2> QED BY <1>1, <1>2, <2>1, <2>2, AccountBalances
<1> QED BY <1>4, <1>5, SlotStepCharges

\* A crash is spent, and is the one death more that may be charged.
LEMMA CrashAccounts ==
    ASSUME Typed, AllOnCourse, Accounted, "crash" \notin Faults,
           NEW w \in Slot, ChildCrash(w), InLoop
    PROVE  Accounted'
<1>1. /\ UNCHANGED <<pc, idle, readySinceFork, currentJob, pool, buffer, todo, flake, closed>>
      /\ UNCHANGED <<polled, fatal>>
      /\ crashesLeft' = crashesLeft - 1 /\ Crash(w)
    BY DEF ChildCrash, Crash, pool_, queue, run
<1>2. \A v \in Slot \ {w} : UNCHANGED Local(v)
    BY <1>1, WorkerStepOnCourse DEF AllOnCourse
<1>3. \A v \in Slot \ {w} : Chargeable(v)' <=> Chargeable(v)
    BY <1>1, <1>2 DEF Local, Chargeable, MayBeServed, Count, Holds, Innocent
<1>4. Uncharged' \in SUBSET (Uncharged \cup {w})
    BY <1>3 DEF Uncharged
<1>5. Cardinality(Uncharged') <= Cardinality(Uncharged) + 1 /\ Cardinality(Uncharged') \in Nat
    <2>1. IsFiniteSet(Uncharged) /\ Cardinality(Uncharged) \in Nat
        BY UnchargedFinite
    <2>2. /\ IsFiniteSet(Uncharged \cup {w})
          /\ Cardinality(Uncharged \cup {w}) <= Cardinality(Uncharged) + 1
        <3>1. CASE w \in Uncharged
            <4>1. Uncharged \cup {w} = Uncharged
                BY <3>1
            <4> QED BY <2>1, <4>1
        <3>2. CASE w \notin Uncharged
            <4>1. /\ IsFiniteSet(Uncharged \cup {w})
                  /\ Cardinality(Uncharged \cup {w}) = Cardinality(Uncharged) + 1
                BY <2>1, <3>2, FS_AddElement
            <4> QED BY <2>1, <4>1
        <3> QED BY <3>1, <3>2
    <2>3. /\ IsFiniteSet(Uncharged') /\ Cardinality(Uncharged') <= Cardinality(Uncharged \cup {w})
        BY <1>4, <2>2, FS_Subset
    <2>4. Cardinality(Uncharged \cup {w}) \in Nat /\ Cardinality(Uncharged') \in Nat
        BY <2>2, <2>3, FS_CardinalityType
    <2> QED BY <2>1, <2>2, <2>3, <2>4
<1>6. Spent' = Spent + 1 /\ Spent \in Int
    BY <1>1, WorkerAssumption DEF Spent, Typed, WorkersTyped, WorkerTypeOK
<1>7. Cardinality(Uncharged) \in Nat
    BY UnchargedFinite
<1>8. Cardinality(Uncharged') <= Spent' /\ closed' = {}
    BY <1>1, <1>5, <1>6, <1>7 DEF Accounted
<1>9. Jobs' = Jobs
    BY <1>1 DEF Jobs, Holders
<1>10. ASSUME NEW job \in Jobs, Innocent(job.path)
       PROVE  job.attempts + Cardinality(Uncharged') <= Spent'
    <2>1. job.attempts \in Nat /\ job.attempts + Cardinality(Uncharged) <= Spent
        BY <1>10, JobsTyped DEF Accounted, Bearable, Pending
    <2> QED BY <1>5, <1>6, <1>7, <2>1
<1>11. \A job \in Jobs' : Bearable(job)'
    <2>1. \A path : Innocent(path)' <=> Innocent(path)
        BY <1>1 DEF Innocent
    <2> QED BY <1>9, <1>10, <2>1 DEF Bearable
<1> QED BY <1>8, <1>11 DEF Accounted

\* What the account rests on, and that every step keeps it.
BlameInv == Typed /\ AllOnCourse /\ LinesInService /\ Condemned /\ Accounted

LEMMA StepAccounts ==
    ASSUME BlameInv, "crash" \notin Faults, [Next]_vars
    PROVE  BlameInv'
<1> USE DEF BlameInv
<1>a. Typed' /\ AllOnCourse' /\ LinesInService' /\ Condemned'
    BY StepTyped, StepOnCourse, StepKeepsLines, StepKeepsCondemned
<1>b. (QueueStays \/ Moves) /\ UNCHANGED flake
    BY StepMoves
<1> SUFFICES ASSUME InLoop' PROVE Accounted'
    BY <1>a DEF Accounted
<1>1. CASE LoopStep \/ EmitFails
    <2>1. /\ InLoop /\ UNCHANGED <<closed, crashesLeft>>
          /\ \A v \in Slot : Chargeable(v)' => Chargeable(v)
        BY <1>1, LoopStepCharges
    <2>2. Uncharged' \subseteq Uncharged
        BY <2>1 DEF Uncharged
    <2>3. Jobs' = Jobs
        BY <1>1, LoopStepMoves, JobsStay
    <2> QED BY <1>b, <2>1, <2>2, <2>3, AccountBalances
<1>2. ASSUME NEW w \in Slot, SlotStep(w)
      PROVE  Accounted'
    BY <1>2, SlotStepAccounts
<1>3. ASSUME NEW w \in Slot, ChildStep(w)
      PROVE  Accounted'
    <2>1. /\ UNCHANGED <<pc, polled, fatal, idle, readySinceFork, currentJob, pool, buffer, todo>>
          /\ WorkerStep(w)
        BY <1>3 DEF ChildStep, pool_, queue, run
    <2>2. InLoop /\ Jobs' = Jobs
        BY <2>1 DEF InLoop, Jobs, Holders
    <2>3. closed = {}
        BY <2>2 DEF Accounted
    <2>4. UNCHANGED <<closed, crashesLeft>>
        BY <2>1 DEF WorkerStep, StartEvaluator, WriteBody, WriteNewline, WriteFails,
                    MeasureMemory, ReadRequest, ReadExit, Evaluate, EvaluationKills,
                    LeaveLoop, ExitWorker, environment
    <2>5. Uncharged' \subseteq Uncharged
        BY <2>1, <2>2, <2>3, WorkerStepCharges DEF AllOnCourse, Uncharged
    <2> QED BY <1>b, <2>2, <2>4, <2>5, AccountBalances
<1>4. ASSUME NEW w \in Slot, ChildCrash(w)
      PROVE  Accounted'
    BY <1>4, CrashAccounts DEF ChildCrash, InLoop
<1>5. CASE Interrupt \/ UNCHANGED vars
    <2>1. UNCHANGED <<child, environment, closed, pc, polled, fatal, pool_, todo>>
        BY <1>5 DEF Interrupt, vars, queue, run
    <2>2. InLoop /\ Jobs' = Jobs /\ UNCHANGED <<closed, crashesLeft>>
        BY <2>1 DEF InLoop, Jobs, Holders, pool_, environment
    <2>3. \A v \in Slot : Chargeable(v)' <=> Chargeable(v)
        BY <2>1 DEF child, environment, pool_, Chargeable, MayBeServed, StreamOf, Count, Holds,
                    Innocent
    <2>4. Uncharged' \subseteq Uncharged
        BY <2>3 DEF Uncharged
    <2> QED BY <1>b, <2>2, <2>4, AccountBalances
<1> QED BY <1>1, <1>2, <1>3, <1>4, <1>5 DEF Next, CoordinatorStep, Exited

LEMMA InitAccounts == Init => BlameInv
<1> SUFFICES ASSUME Init PROVE BlameInv
    OBVIOUS
<1>1. Typed /\ AllOnCourse /\ LinesInService /\ Condemned
    BY InitTyped, InitOnCourse, NoNewlineInNothing
       DEF Init, WorkerInit, LinesInService, Condemned
<1>2. Uncharged = {}
    BY DEF Init, WorkerInit, Uncharged, Chargeable
<1>3. Cardinality(Uncharged) = 0 /\ Spent = 0 /\ closed = {}
    BY <1>2, FS_EmptySet, WorkerAssumption DEF Init, WorkerInit, Spent
<1>4. \A job \in Jobs : job.attempts = 0
    BY DEF Init, Jobs, ToSet, Holders
<1>5. \A job \in Jobs : Bearable(job)
    BY <1>3, <1>4 DEF Bearable
<1> QED BY <1>1, <1>3, <1>5 DEF BlameInv, Accounted

-----------------------------------------------------------------------------
(* Only what kills its workers is blamed *)

\* What is reported to have killed its workers does.
Guilty == \A path \in AttrPath : verdict[path] = "died" => Truth(path) = "died"

LEMMA StepKeepsGuilty ==
    ASSUME BlameInv, Genuine, Guilty, "crash" \notin Faults, CrashBudget <= MaxAttempts,
           [Next]_vars
    PROVE  Guilty'
<1> USE DEF BlameInv
<1>a. (QueueStays \/ Moves) /\ UNCHANGED flake
    BY StepMoves
<1>b. \A path : Truth(path)' = Truth(path)
    <2>1. \A path : InFlake(path)' <=> InFlake(path)
        BY <1>a DEF InFlake, Names
    <2> QED BY <1>a, <2>1 DEF Truth
<1>c. verdict \in [AttrPath -> Verdict]
    BY DEF Typed, QueueTyped
<1>1. CASE UNCHANGED verdict
    BY <1>1, <1>b DEF Guilty
<1>2. ASSUME NEW w \in Slot, Settles(w)
      PROVE  Guilty'
    <2>1. Conclude(currentJob[w].path, Conclusion(currentJob[w].path))
        BY <1>2 DEF Settles
    <2>2. Conclusion(currentJob[w].path) # "died"
        BY DEF Conclusion
    <2> QED BY <1>b, <1>c, <2>1, <2>2 DEF Conclude, Guilty
<1>3. ASSUME NEW w \in Slot, SeesDeath(w), Blames(w)
      PROVE  Guilty'
    <2> DEFINE job == currentJob[w]
    <2>1. /\ job.path \in AttrPath /\ job.attempts \in Nat /\ flake[job.path] \in Outcome
          /\ Holds(w) /\ job \in Jobs /\ job.path \in Held
        BY <1>3, JobTyped, MovesTyped DEF Blames, LetsGo, Jobs, Holders, Holds
    <2>2. ~Innocent(job.path)
        <3> SUFFICES ASSUME Innocent(job.path) PROVE FALSE
            OBVIOUS
        <3>1. InLoop /\ Chargeable(w)
            BY <1>3, <2>1, DeathIsDeserved
               DEF AllOnCourse, Chargeable, MayBeServed, SeesDeath, Serving, InLoop
        <3>2. {w} \in SUBSET Uncharged
            BY <3>1 DEF Uncharged
        <3>3. Cardinality({w}) <= Cardinality(Uncharged) /\ Cardinality(Uncharged) \in Nat
            BY <3>2, UnchargedFinite
        <3>4. Cardinality({w}) = 1
            BY FS_Singleton
        <3>5. job.attempts + Cardinality(Uncharged) <= Spent
            BY <2>1, <3>1 DEF Accounted, Bearable
        <3>6. Spent \in Int /\ Spent <= CrashBudget
            BY WorkerAssumption DEF Spent, Typed, WorkersTyped, WorkerTypeOK
        <3>7. job.attempts >= MaxAttempts
            BY <1>3, <2>1, CoordinatorAssumption DEF Blames, ShouldRetry
        <3> QED BY <2>1, <3>3, <3>4, <3>5, <3>6, <3>7, CoordinatorAssumption, WorkerAssumption
    <2>3. Truth(job.path) = "died"
        <3>1. InFlake(job.path) /\ flake[job.path].kind \in {"kills", "oversized"}
            BY <2>1, <2>2 DEF Genuine, Innocent
        <3> QED BY <3>1 DEF Truth
    <2> QED BY <1>3, <1>b, <1>c, <2>3 DEF Blames, Conclude, Guilty
<1>4. ASSUME NEW w \in Slot, SlotStep(w)
      PROVE  Guilty'
    <2>1. CASE HandleJob(w) \/ HandleError(w) \/ HandleIgnore(w) \/ HandleChildren(w)
                   \/ HandleTooDeep(w)
        BY <1>2, <2>1, AnswerSettles DEF AllOnCourse
    <2>2. CASE GiveUp(w) \/ ReplaceWorker(w)
        <3>1. /\ SeesDeath(w) /\ GiveBackJob(w)
              /\ currentJob' = [currentJob EXCEPT ![w] = None]
            BY <2>2 DEF GiveUp, ReplaceWorker, NewWorker, ForkFails
        <3>2. UNCHANGED verdict \/ Blames(w)
            BY <3>1, GivingBackMoves DEF QueueStays, Requeues
        <3> QED BY <1>1, <1>3, <3>1, <3>2
    <2>3. CASE Dispatch(w) \/ FillBuffer(w) \/ HandleReady(w) \/ HandleRestart(w)
                   \/ HandleFatal(w) \/ ClosePipes(w) \/ WaitForChild(w)
        BY <1>1, <2>3 DEF Dispatch, FillBuffer, HandleReady, HandleRestart, HandleFatal,
                          ClosePipes, WaitForChild, queue
    <2> QED BY <1>4, <2>1, <2>2, <2>3 DEF SlotStep
<1>5. CASE LoopStep \/ EmitFails
    BY <1>1, <1>5, LoopStepMoves DEF QueueStays
<1>6. CASE (\E w \in Slot : ChildStep(w) \/ ChildCrash(w)) \/ Interrupt \/ UNCHANGED vars
    BY <1>1, <1>6 DEF ChildStep, ChildCrash, Interrupt, vars, queue
<1> QED BY <1>4, <1>5, <1>6 DEF Next, CoordinatorStep, Exited

\* When workers are lost to something ambient no more often than an attribute is
\* retried (shouldRetryAfterWorkerDeath), nothing is reported to have killed its
\* workers that does not, however the deaths fall: while a worker is idle, before
\* it has read what it was sent, while it evaluates or while it answers.
THEOREM OnlyTheGuiltyAreBlamed ==
    ASSUME "crash" \notin Faults, CrashBudget <= MaxAttempts
    PROVE  Spec => []OnlyKillersAreBlamed
<1>1. Init => BlameInv /\ Genuine /\ Guilty
    BY InitAccounts, InitGenuine DEF Init, Guilty
<1>2. BlameInv /\ [Next]_vars => BlameInv'
    BY StepAccounts
<1>3. BlameInv /\ Genuine /\ [Next]_vars => Genuine'
    BY StepMoves, MoveKeepsGenuine DEF BlameInv
<1>4. BlameInv /\ Genuine /\ Guilty /\ [Next]_vars => Guilty'
    BY StepKeepsGuilty
<1>5. Guilty => OnlyKillersAreBlamed
    BY DEF Guilty, OnlyKillersAreBlamed
<1> QED BY <1>1, <1>2, <1>3, <1>4, <1>5, PTL DEF Spec

-----------------------------------------------------------------------------
(* Crashes do not abort the run *)

\* A worker that died before it was ever ready, and the coordinator has yet to
\* see it.
Stillborn(w) ==
    state[w] = "dead" /\ ~readySinceFork[w] /\ (Count(w) = 0 \/ StreamOf(w)[1] = Torn)

\* No slot counts more deaths at startup than there were crashes, the one it
\* has yet to see included.
Mourned ==
    InLoop /\ ~fatal =>
        \A w \in Slot : startupFailures[w] + (IF Stillborn(w) THEN 1 ELSE 0) <= Spent

LEMMA FailuresTyped ==
    ASSUME Typed
    PROVE  /\ startupFailures \in [Slot -> Nat]
           /\ Spent \in Int /\ 0 <= Spent /\ Spent <= CrashBudget
<1>1. \A w \in Slot : startupFailures[w] \in Nat
    BY CoordinatorAssumption DEF Typed, PoolTyped
<1>2. startupFailures \in [Slot -> Nat]
    BY <1>1 DEF Typed, PoolTyped
<1>3. Spent \in Int /\ 0 <= Spent /\ Spent <= CrashBudget
    BY WorkerAssumption DEF Spent, Typed, WorkersTyped, WorkerTypeOK
<1> QED BY <1>2, <1>3

\* A slot that a step leaves alone is mourned as before.
LEMMA MournedStays ==
    ASSUME Typed, Mourned, InLoop, ~fatal, NEW v \in Slot, Spent <= Spent', Spent' \in Int,
           UNCHANGED <<state[v], StreamOf(v), readySinceFork[v], startupFailures[v]>>
    PROVE  startupFailures'[v] + (IF Stillborn(v)' THEN 1 ELSE 0) <= Spent'
<1>1. Stillborn(v)' = Stillborn(v)
    BY DEF Stillborn, Count
<1>2. startupFailures[v] \in Nat /\ Spent \in Int
    BY FailuresTyped
<1>3. startupFailures[v] + (IF Stillborn(v) THEN 1 ELSE 0) <= Spent
    BY DEF Mourned
<1>4. startupFailures[v] + (IF Stillborn(v) THEN 1 ELSE 0) <= Spent'
    BY <1>2, <1>3
<1> QED BY <1>1, <1>4 DEF Mourned

\* The death of a worker that was never ready is one of those at startup.
LEMMA UnreadyDeath ==
    ASSUME Typed, NEW w \in Slot, OnCourse(w), SeesDeath(w), ~readySinceFork[w]
    PROVE  Stillborn(w)
<1>1. ~Holds(w)
    BY DEF OnCourse, Taken
<1> QED BY <1>1, DeathIsDeserved DEF Stillborn

LEMMA SlotStepMourned ==
    ASSUME Typed, AllOnCourse, Mourned, NEW w \in Slot, SlotStep(w), InLoop', ~fatal'
    PROVE  Mourned'
<1>a. OnCourse(w) /\ Said(w) /\ Doing(w) /\ Taken(w)
    BY DEF AllOnCourse, OnCourse
<1>b. InLoop /\ ~fatal
    <2>1. InLoop
        BY DEF SlotStep, Dispatch, FillBuffer, HandleReady, HandleRestart, HandleFatal,
               HandleJob, HandleError, HandleIgnore, HandleChildren, HandleTooDeep,
               GiveUp, ReplaceWorker, ClosePipes, WaitForChild, TakesLine, SeesDeath,
               Serving, InLoop
    <2>2. ~fatal
        BY DEF SlotStep, Dispatch, FillBuffer, HandleReady, HandleRestart, HandleFatal,
               HandleJob, HandleError, HandleIgnore, HandleChildren, HandleTooDeep,
               AnswerFrame, GiveUp, ReplaceWorker, ClosePipes, WaitForChild, run
    <2> QED BY <2>1, <2>2
<1>c. Spent' = Spent
    BY DEF SlotStep, Dispatch, FillBuffer, HandleReady, HandleRestart, HandleFatal,
           HandleJob, HandleError, HandleIgnore, HandleChildren, HandleTooDeep,
           AnswerFrame, GiveUp, ReplaceWorker, ClosePipes, WaitForChild, environment, Spent
<1>d. /\ startupFailures \in [Slot -> Nat] /\ Spent \in Int /\ 0 <= Spent
      /\ startupFailures[w] + (IF Stillborn(w) THEN 1 ELSE 0) <= Spent
    BY <1>b, FailuresTyped DEF Mourned
<1>1. ASSUME NEW v \in Slot \ {w}
      PROVE  startupFailures'[v] + (IF Stillborn(v)' THEN 1 ELSE 0) <= Spent'
    <2>1. UNCHANGED <<state[v], StreamOf(v), readySinceFork[v], startupFailures[v]>>
        BY SlotStepAlone DEF StreamOf
    <2> QED BY <1>b, <1>c, <1>d, <2>1, MournedStays
<1>2. startupFailures'[w] + (IF Stillborn(w)' THEN 1 ELSE 0) <= Spent'
    <2>1. CASE Dispatch(w)
        <3>1. readySinceFork'[w] /\ UNCHANGED startupFailures
            BY <1>a, <2>1 DEF Dispatch, Dispatchable, Taken
        <3>2. startupFailures[w] <= Spent
            BY <1>d
        <3> QED BY <1>c, <1>d, <3>1, <3>2 DEF Stillborn
    <2>2. CASE FillBuffer(w)
        <3>1. UNCHANGED <<state[w], StreamOf(w), readySinceFork[w], startupFailures[w]>>
            BY <2>2, StreamRead DEF FillBuffer
        <3> QED BY <1>b, <1>c, <1>d, <3>1, MournedStays
    <2>3. CASE HandleReady(w)
        <3>1. UNCHANGED startupFailures /\ readySinceFork'[w]
            BY <2>3, SlotTyped DEF HandleReady
        <3>2. startupFailures[w] <= Spent
            BY <1>d
        <3> QED BY <1>c, <1>d, <3>1, <3>2 DEF Stillborn
    <2>4. CASE HandleJob(w) \/ HandleError(w) \/ HandleIgnore(w) \/ HandleChildren(w)
                   \/ HandleTooDeep(w)
        <3>1. UNCHANGED <<readySinceFork, startupFailures>>
            BY <2>4 DEF HandleJob, HandleError, HandleIgnore, HandleChildren, HandleTooDeep,
                        AnswerFrame
        <3>2. Holds(w)
            BY <1>a, <2>4, AnswerSettles DEF Settles, LetsGo
        <3>3. readySinceFork[w]
            BY <1>a, <3>2 DEF Taken
        <3>4. startupFailures[w] <= Spent
            BY <1>d
        <3> QED BY <1>c, <1>d, <3>1, <3>3, <3>4 DEF Stillborn
    <2>5. CASE HandleRestart(w) \/ ReplaceWorker(w)
        <3>1. PICK failures \in {0, Failures(w)} :
                  NewWorker(w, failures) /\ (HandleRestart(w) => failures = 0)
            BY <2>5 DEF HandleRestart, ReplaceWorker, ForkFails, InLoop
        <3>2. state'[w] = "starting" /\ startupFailures'[w] = failures
            BY <1>d, <3>1, SlotTyped DEF NewWorker, Forked
        <3>3. failures \in Nat /\ failures <= Spent
            <4>1. CASE failures = 0 \/ readySinceFork[w]
                BY <1>d, <4>1 DEF Failures
            <4>2. CASE failures # 0 /\ ~readySinceFork[w]
                <5>1. SeesDeath(w)
                    BY <2>5, <3>1, <4>2 DEF ReplaceWorker
                <5>2. Stillborn(w)
                    BY <1>a, <4>2, <5>1, UnreadyDeath
                <5>3. failures = startupFailures[w] + 1
                    BY <4>2 DEF Failures
                <5> QED BY <1>d, <5>2, <5>3
            <4> QED BY <4>1, <4>2
        <3> QED BY <1>c, <3>2, <3>3 DEF Stillborn
    <2>6. CASE HandleFatal(w) \/ GiveUp(w) \/ ClosePipes(w) \/ WaitForChild(w)
        BY <2>6 DEF HandleFatal, GiveUp, ClosePipes, WaitForChild, InLoop
    <2> QED BY <2>1, <2>2, <2>3, <2>4, <2>5, <2>6 DEF SlotStep
<1> QED BY <1>1, <1>2 DEF Mourned

LEMMA LoopStepMourned ==
    ASSUME Typed, LinesInService, Mourned, LoopStep \/ EmitFails, InLoop', ~fatal'
    PROVE  Mourned'
<1>a. /\ startupFailures \in [Slot -> Nat] /\ Spent \in Int /\ 0 <= Spent
      /\ InLoop /\ Spent' = Spent
    BY FailuresTyped, LoopStepCharges DEF Spent
<1>1. CASE GrowPool
    <2>1. PICK w \in Slot : w = pool + 1
        BY <1>1, WorkerAssumption DEF GrowPool, MaySpawn, Typed, PoolTyped, Slot
    <2>2. NewWorker(w, 0) /\ ~fatal
        BY <1>1, <2>1 DEF GrowPool, ForkFails, InLoop, run
    <2>3. ASSUME NEW v \in Slot
          PROVE  startupFailures'[v] + (IF Stillborn(v)' THEN 1 ELSE 0) <= Spent'
        <3>1. CASE v = w
            <4>1. state'[w] = "starting" /\ startupFailures'[w] = 0
                BY <1>a, <2>2, SlotTyped DEF NewWorker, Forked
            <4> QED BY <1>a, <3>1, <4>1 DEF Stillborn
        <3>2. CASE v # w
            <4>1. UNCHANGED Local(v) /\ startupFailures'[v] = startupFailures[v]
                BY <1>a, <2>2, <3>2, NewWorkerOnCourse DEF NewWorker
            <4>2. UNCHANGED <<state[v], StreamOf(v), readySinceFork[v], startupFailures[v]>>
                BY <4>1 DEF Local
            <4> QED BY <1>a, <2>2, <4>2, MournedStays
        <3> QED BY <3>1, <3>2
    <2> QED BY <2>3 DEF Mourned
<1>2. CASE KeepPool \/ EndDispatch \/ Poll \/ PollFails
    <2>1. UNCHANGED <<child, pool_, fatal>>
        BY <1>2 DEF KeepPool, EndDispatch, Poll, PollFails, run
    <2>2. \A v \in Slot :
              UNCHANGED <<state[v], StreamOf(v), readySinceFork[v], startupFailures[v]>>
        BY <2>1 DEF child, pool_, StreamOf
    <2> QED BY <1>a, <2>1, <2>2, MournedStays DEF Mourned
<1>3. ~(StopIfInterrupted \/ AskToExit \/ KillWorkers \/ FinishFatal \/ FinishDone
            \/ ExitOnException \/ EmitFails)
    BY DEF StopIfInterrupted, AskToExit, KillWorkers, FinishFatal, FinishDone,
           ExitOnException, EmitFails, ExitWith, InLoop
<1> QED BY <1>1, <1>2, <1>3 DEF LoopStep

LEMMA WorkerStepMourned ==
    ASSUME Typed, AllOnCourse, Condemned, Mourned, closed = {}, "crash" \notin Faults,
           NEW w \in Slot, ChildStep(w) \/ ChildCrash(w), InLoop', ~fatal'
    PROVE  Mourned'
<1>a. /\ UNCHANGED <<pc, idle, readySinceFork, currentJob, pool, buffer, startupFailures>>
      /\ WorkerStep(w) \/ Crash(w)
      /\ InLoop /\ ~fatal
    BY DEF ChildStep, ChildCrash, pool_, run, InLoop
<1>b. OnCourse(w) /\ Said(w) /\ Doing(w) /\ Asked(w) /\ Taken(w)
    BY DEF AllOnCourse, OnCourse
<1>c. /\ startupFailures \in [Slot -> Nat] /\ Spent \in Int
      /\ startupFailures[w] + (IF Stillborn(w) THEN 1 ELSE 0) <= Spent
    BY <1>a, FailuresTyped DEF Mourned
<1>d. Spent' = (IF Crash(w) THEN Spent + 1 ELSE Spent) \/ (WorkerStep(w) /\ Spent' = Spent)
    <2>1. CASE Crash(w)
        BY <2>1, <1>c, WorkerAssumption
           DEF Crash, Spent, Typed, WorkersTyped, WorkerTypeOK
    <2>2. CASE WorkerStep(w)
        <3>1. UNCHANGED crashesLeft
            BY <2>2 DEF WorkerStep, StartEvaluator, WriteBody, WriteNewline, WriteFails,
                        MeasureMemory, ReadRequest, ReadExit, Evaluate, EvaluationKills,
                        LeaveLoop, ExitWorker, environment
        <3> QED BY <2>2, <3>1 DEF Spent
    <2> QED BY <1>a, <2>1, <2>2
<1>e. Spent' \in Int /\ Spent <= Spent'
    BY <1>c, <1>d
<1>1. ASSUME NEW v \in Slot \ {w}
      PROVE  startupFailures'[v] + (IF Stillborn(v)' THEN 1 ELSE 0) <= Spent'
    <2>1. UNCHANGED Local(v)
        BY <1>a, <1>b, WorkerStepOnCourse
    <2>2. UNCHANGED <<state[v], StreamOf(v), readySinceFork[v], startupFailures[v]>>
        BY <1>a, <2>1 DEF Local
    <2> QED BY <1>a, <1>e, <2>2, MournedStays
<1>f. startupFailures[w] <= Spent
    BY <1>c
<1>2. startupFailures'[w] + (IF Stillborn(w)' THEN 1 ELSE 0) <= Spent'
    <2>1. CASE Crash(w) /\ Spent' = Spent + 1
        <3>1. state'[w] = "dead"
            BY <2>1, SlotTyped DEF Crash, Die
        <3> QED BY <1>a, <1>c, <1>f, <2>1, <3>1
    <2>2. CASE StartEvaluator(w) \/ WriteBody(w) \/ MeasureMemory(w) \/ ReadRequest(w)
                   \/ Evaluate(w) \/ LeaveLoop(w)
        <3>1. state'[w] # "dead"
            BY <2>2, SlotTyped DEF StartEvaluator, WriteBody, MeasureMemory, ReadRequest,
                                   Evaluate, LeaveLoop, Say
        <3> QED BY <1>a, <1>c, <1>e, <1>f, <3>1 DEF Stillborn
    <2>3. CASE WriteNewline(w)
        <3>1. state'[w] = AfterLine(line[w])
            BY <2>3, SlotTyped DEF WriteNewline
        <3>2. state'[w] # "dead"
            BY <3>1 DEF AfterLine
        <3> QED BY <1>a, <1>c, <1>e, <1>f, <3>2 DEF Stillborn
    <2>4. CASE WriteFails(w) \/ ReadExit(w)
        <3>1. CASE WriteFails(w)
            BY <3>1 DEF WriteFails
        <3>2. CASE ReadExit(w)
            <4>1. ASSUME toChild[w] # <<>>
                  PROVE  Head(toChild[w]) # Exit
                <5>1. 1 \in DOMAIN toChild[w] /\ Head(toChild[w]) = toChild[w][1]
                    BY <4>1, SlotTyped
                <5> QED BY <1>a, <1>b, <5>1 DEF Asked, InLoop
            <4> QED BY <3>2, <4>1 DEF ReadExit
        <3> QED BY <2>4, <3>1, <3>2
    <2>5. CASE EvaluationKills(w)
        <3>1. Holds(w)
            BY <1>b, <2>5 DEF EvaluationKills, Doing
        <3>2. readySinceFork'[w] /\ state'[w] = "dead"
            BY <1>a, <1>b, <2>5, <3>1, SlotTyped DEF Taken, EvaluationKills, Die
        <3> QED BY <1>a, <1>c, <1>e, <1>f, <3>2 DEF Stillborn
    <2>6. CASE ExitWorker(w)
        <3>1. state[w] = "exiting" /\ state'[w] = "dead" /\ UNCHANGED StreamOf(w)
            BY <1>a, <2>6, SlotTyped DEF ExitWorker, Die, StreamOf
        <3>2. Count(w) # 0
            BY <1>a, <3>1 DEF Condemned, MayBeServed
        <3>3. StreamOf(w)[1] # Torn
            BY <1>b, <3>1, <3>2, MessagesDiffer DEF Said, Alive, Unasked
        <3> QED BY <1>a, <1>c, <1>e, <1>f, <3>1, <3>2, <3>3 DEF Stillborn, Count
    <2> QED BY <1>a, <1>d, <2>1, <2>2, <2>3, <2>4, <2>5, <2>6 DEF WorkerStep
<1> QED BY <1>1, <1>2 DEF Mourned

LEMMA StepMourned ==
    ASSUME BlameInv, Mourned, "crash" \notin Faults, [Next]_vars
    PROVE  Mourned'
<1> USE DEF BlameInv
<1> SUFFICES ASSUME InLoop', ~fatal' PROVE Mourned'
    BY DEF Mourned
<1>1. CASE LoopStep \/ EmitFails
    BY <1>1, LoopStepMourned
<1>2. ASSUME NEW w \in Slot, SlotStep(w)
      PROVE  Mourned'
    BY <1>2, SlotStepMourned
<1>3. ASSUME NEW w \in Slot, ChildStep(w) \/ ChildCrash(w)
      PROVE  Mourned'
    <2>1. UNCHANGED pc
        BY <1>3 DEF ChildStep, ChildCrash
    <2>2. closed = {}
        BY <2>1 DEF Accounted, InLoop
    <2> QED BY <1>3, <2>2, WorkerStepMourned
<1>4. CASE Interrupt \/ UNCHANGED vars
    <2>1. UNCHANGED <<child, environment, pc, pool_, fatal>>
        BY <1>4 DEF Interrupt, vars, run
    <2>2. InLoop /\ ~fatal /\ Spent' = Spent
        BY <2>1 DEF InLoop, environment, Spent
    <2>3. \A v \in Slot :
              UNCHANGED <<state[v], StreamOf(v), readySinceFork[v], startupFailures[v]>>
        BY <2>1 DEF child, pool_, StreamOf
    <2>4. Spent <= Spent' /\ Spent' \in Int
        BY <2>2, FailuresTyped
    <2> QED BY <2>2, <2>3, <2>4, MournedStays DEF Mourned
<1> QED BY <1>1, <1>2, <1>3, <1>4 DEF Next, CoordinatorStep, Exited

LEMMA InitMourned == Init => Mourned
<1> SUFFICES ASSUME Init PROVE Mourned
    OBVIOUS
<1>1. Spent = 0
    BY WorkerAssumption DEF Init, WorkerInit, Spent
<1>2. \A w \in Slot : state[w] = "none" /\ startupFailures[w] = 0
    BY DEF Init, WorkerInit
<1> QED BY <1>1, <1>2 DEF Mourned, Stillborn

\* Giving up takes more deaths than there are crashes to be spent.
LEMMA StepDoesNotAbort ==
    ASSUME BlameInv, Mourned, CrashBudget < MaxStartupFailures, [Next]_vars, ~fatal, fatal'
    PROVE  interrupted \/ \E w \in Slot : buffer[w] # <<>> /\ Message(w) = Fatal
<1> USE DEF BlameInv
<1>1. CASE StopIfInterrupted
    BY <1>1 DEF StopIfInterrupted, IsInterrupted
<1>2. ASSUME NEW w \in Slot, HandleFatal(w)
      PROVE  buffer[w] # <<>> /\ Message(w) = Fatal
    <2>1. TakesLine(w, {"fatal"})
        BY <1>2 DEF HandleFatal
    <2>2. buffer[w] # <<>>
        BY <2>1 DEF TakesLine, HasLine, HasNewline
    <2>3. Message(w) \in Token /\ Message(w).t = "fatal"
        BY <2>1, TakesLineTyped
    <2> QED BY <2>2, <2>3, MessageByKind
<1>3. ASSUME NEW w \in Slot, GiveUp(w)
      PROVE  FALSE
    <2>1. SeesDeath(w) /\ Failures(w) >= MaxStartupFailures /\ InLoop
        BY <1>3 DEF GiveUp, CrashLoops, SeesDeath, Serving, InLoop
    <2>2. /\ startupFailures \in [Slot -> Nat]
          /\ Spent \in Int /\ Spent <= CrashBudget
        BY FailuresTyped
    <2>3. ~readySinceFork[w] /\ Failures(w) = startupFailures[w] + 1
        BY <2>1, CoordinatorAssumption DEF Failures
    <2>4. Stillborn(w)
        BY <2>1, <2>3, UnreadyDeath DEF AllOnCourse
    <2>5. startupFailures[w] + 1 <= Spent
        BY <2>1, <2>4 DEF Mourned
    <2> QED BY <2>1, <2>2, <2>3, <2>5, CoordinatorAssumption, WorkerAssumption
<1>4. ASSUME NEW w \in Slot, SlotStep(w)
      PROVE  HandleFatal(w) \/ GiveUp(w)
    BY <1>4 DEF SlotStep, Dispatch, FillBuffer, HandleReady, HandleRestart, HandleJob,
                HandleError, HandleIgnore, HandleChildren, HandleTooDeep, AnswerFrame,
                ReplaceWorker, ClosePipes, WaitForChild, run
<1>5. CASE LoopStep \/ EmitFails
    BY <1>1, <1>5 DEF LoopStep, GrowPool, KeepPool, EndDispatch, Poll, PollFails, AskToExit,
                      KillWorkers, FinishFatal, FinishDone, ExitOnException, EmitFails, run
<1>6. CASE (\E w \in Slot : ChildStep(w) \/ ChildCrash(w)) \/ Interrupt \/ UNCHANGED vars
    BY <1>6 DEF ChildStep, ChildCrash, Interrupt, vars, run
<1> QED BY <1>2, <1>3, <1>4, <1>5, <1>6 DEF Next, CoordinatorStep, Exited

\* A bad attribute or a lost worker costs itself, never the other results: as long
\* as fewer workers are lost to something ambient than it takes for a slot to be
\* given up (kMaxStartupFailures), only a signal or the fatal message of a worker
\* makes a run that goes on fatal, whatever dies and whenever, and whichever
\* attributes kill their workers.
THEOREM CrashesNeverAbort ==
    ASSUME "crash" \notin Faults, CrashBudget < MaxStartupFailures
    PROVE  Spec => CrashesDoNotAbort
<1>1. Init => BlameInv /\ Mourned
    BY InitAccounts, InitMourned
<1>2. BlameInv /\ [Next]_vars => BlameInv'
    BY StepAccounts
<1>3. BlameInv /\ Mourned /\ [Next]_vars => Mourned'
    BY StepMourned
<1>4. BlameInv /\ Mourned /\ [Next]_vars =>
          [~fatal /\ fatal' =>
               interrupted \/ \E w \in Slot : buffer[w] # <<>> /\ Message(w) = Fatal]_vars
    BY StepDoesNotAbort
<1> QED BY <1>1, <1>2, <1>3, <1>4, PTL DEF Spec, CrashesDoNotAbort

-----------------------------------------------------------------------------
(* Discovery: the run with its edges *)

\* The theorems about EdgeDiscovery, for the run's attributes and derivations.
EP == INSTANCE EdgeDiscoveryProofs WITH Attr <- AttrPath, Path <- DrvPath

-----------------------------------------------------------------------------
(* The edges of a run are those of EdgeDiscovery *)

LEMMA EdgesAssumed == EP!EdgeAssumption
BY DiscoveryAssumption DEF EP!EdgeAssumption, EP!IsFiniteSet, IsFiniteSet

\* The definitions of the two instances agree.
LEMMA SameIdle == EP!idle <=> E!idle
BY DEF EP!idle, E!idle

LEMMA SameRegistered == EP!Registered = E!Registered
BY DEF EP!Registered, E!Registered, EP!Range, E!Range

LEMMA SameStanding == \A a : EP!Standing(a) <=> E!Standing(a)
BY DEF EP!Standing, E!Standing, EP!Last, E!Last

LEMMA InitOfEdges == E!Init => EP!Init
BY DEF E!Init, EP!Init

LEMMA AddingIsEdges ==
    ASSUME NEW a \in AttrPath, E!AddAlias(a) \/ E!AddOutput(a)
    PROVE  EP!AddAlias(a) \/ EP!AddOutput(a)
BY SameIdle DEF E!AddAlias, EP!AddAlias, E!AddOutput, EP!AddOutput, E!IsAlias, EP!IsAlias,
    E!JoinEarlierWalks, EP!JoinEarlierWalks, E!NewWalk, EP!NewWalk

LEMMA ExpandIsEdges == E!Expand => EP!Expand
BY SameIdle, SameStanding DEF E!Expand, EP!Expand, E!walking, EP!walking, E!Last, EP!Last, E!FreshReferences,
    EP!FreshReferences, E!SetToSeqs, EP!SetToSeqs, E!Front, EP!Front, E!EdgesTo, EP!EdgesTo,
    E!Cardinality, EP!Cardinality

LEMMA NextWalkIsEdges == E!NextWalk => EP!NextWalk
BY SameIdle, SameStanding DEF E!NextWalk, EP!NextWalk, E!walking, EP!walking

LEMMA ReturnIsEdges == E!Return => EP!Return
BY SameIdle, SameStanding DEF E!Return, EP!Return, E!walking, EP!walking

LEMMA NextQueryIsEdges == E!NextQuery => EP!NextQuery
BY SameIdle DEF E!NextQuery, EP!NextQuery, E!Askable, EP!Askable, E!Last, EP!Last

LEMMA AnswerIsEdges ==
    ASSUME NEW p, NEW refs \in E!Answers(p), E!ProvideReferences(p, refs)
    PROVE  refs \in EP!Answers(p) /\ EP!ProvideReferences(p, refs)
BY SameIdle DEF E!Answers, EP!Answers, E!ProvideReferences, EP!ProvideReferences,
    E!FirstWalk, EP!FirstWalk

LEMMA EdgesKept == EP!IInv /\ [E!Next]_walks => EP!IInv'
<1> SUFFICES ASSUME EP!IInv, [E!Next]_walks PROVE EP!IInv'
    OBVIOUS
<1> USE EdgesAssumed
<1>1. ASSUME NEW a \in AttrPath, E!AddAlias(a) \/ E!AddOutput(a)
      PROVE  EP!IInv'
    BY <1>1, AddingIsEdges, EP!AddAliasPreserves, EP!AddOutputPreserves
<1>2. CASE E!Expand
    BY <1>2, ExpandIsEdges, EP!ExpandPreserves
<1>3. CASE E!NextWalk
    BY <1>3, NextWalkIsEdges, EP!NextWalkPreserves
<1>4. CASE E!Return
    BY <1>4, ReturnIsEdges, EP!ReturnPreserves
<1>5. CASE E!NextQuery
    BY <1>5, NextQueryIsEdges, EP!NextQueryPreserves
<1>6. ASSUME NEW path \in DrvPath, NEW refs \in E!Answers(path),
             E!ProvideReferences(path, refs)
      PROVE  EP!IInv'
    BY <1>6, AnswerIsEdges, EP!ProvideReferencesPreserves
<1>7. CASE UNCHANGED walks
    <2>1. UNCHANGED EP!vars
        BY <1>7 DEF walks, EP!vars
    <2> QED BY <2>1, EP!StepPreserves
<1> QED BY <1>1, <1>2, <1>3, <1>4, <1>5, <1>6, <1>7 DEF E!Next

\* What EdgeDiscovery keeps true, in the terms of the run.
LEMMA EdgesKnown ==
    ASSUME EP!IInv
    PROVE  /\ E!TypeOK
           /\ E!Registered \subseteq AttrPath
           /\ edges \subseteq E!Registered \X E!Registered
           /\ reported \subseteq E!Registered \X E!Registered
           /\ edges \cap reported = {}
           /\ E!idle => edges = {}
           /\ \A path \in DrvPath : path \in outstanding => path \notin answered
           /\ \A path \in DrvPath : references[path] \subseteq store[path]
<1>1. E!TypeOK
    BY DEF EP!IInv, EP!TypeOK, E!TypeOK
<1>2. E!Registered \subseteq AttrPath
    BY EdgesAssumed, EP!RegisteredAreAttributes, SameRegistered
<1>3. /\ edges \subseteq E!Registered \X E!Registered
      /\ reported \subseteq E!Registered \X E!Registered
    BY SameRegistered DEF EP!IInv, EP!EdgesAreKnown
<1>4. edges \cap reported = {} /\ (E!idle => edges = {})
    BY SameIdle DEF EP!IInv, EP!EdgesAreNew, EP!CallsFinish
<1>5. \A path \in DrvPath : /\ path \in outstanding => path \notin answered
                           /\ references[path] \subseteq store[path]
    BY DEF EP!IInv, EP!AnswersAreTrue
<1> QED BY <1>1, <1>2, <1>3, <1>4, <1>5

-----------------------------------------------------------------------------
(* A step of the run is one of each part *)

\* The derivation found is of an attribute path.
LEMMA FoundPath ==
    ASSUME Typed, NEW w \in Slot, HandleJob(w)
    PROVE  Message(w).path \in AttrPath
<1>1. Message(w) \in Token /\ Message(w).t = "job"
    BY TakesLineTyped DEF HandleJob
<1> QED BY <1>1, TokenFields DEF IsAnswer

LEMMA StepOfEdges ==
    ASSUME Typed, EP!IInv, [DiscoveryNext]_allVars
    PROVE  [E!Next]_walks
<1>1. ASSUME NEW w \in Slot, JobFound(w)
      PROVE  [E!Next]_walks
    BY <1>1, FoundPath DEF JobFound, Register, E!Next
<1>2. CASE AnswerQuery
    <2>1. outstanding \subseteq DrvPath
        BY EdgesKnown DEF E!TypeOK
    <2> QED BY <1>2, <2>1 DEF AnswerQuery, E!Next
<1>3. CASE AskStore \/ RunCall \/ ReturnCall
    BY <1>3 DEF AskStore, RunCall, ReturnCall, E!Next
<1>4. CASE LoopGoesOn \/ CallCutOff
    BY <1>4 DEF LoopGoesOn, CallCutOff
<1>5. CASE (\E w \in Slot : (ChildStep(w) \/ ChildCrash(w)) /\ Elsewhere)
             \/ ((Interrupt \/ Exited) /\ Elsewhere)
    BY <1>5 DEF Elsewhere
<1>6. CASE UNCHANGED allVars
    BY <1>6 DEF allVars
<1> QED BY <1>1, <1>2, <1>3, <1>4, <1>5, <1>6 DEF DiscoveryNext, RunStep

LEMMA StepOfLoop ==
    ASSUME [DiscoveryNext]_allVars
    PROVE  [Next]_vars \/ CallCutOff
<1>1. ASSUME NEW w \in Slot, JobFound(w)
      PROVE  Next
    BY <1>1 DEF JobFound, Next, CoordinatorStep, SlotStep
<1>2. CASE AskStore \/ AnswerQuery \/ RunCall \/ ReturnCall
    BY <1>2 DEF AskStore, AnswerQuery, RunCall, ReturnCall
<1>3. CASE LoopGoesOn
    BY <1>3 DEF LoopGoesOn, NewPass, SlotStepButJob, Next, CoordinatorStep, LoopStep, SlotStep
<1>4. CASE (\E w \in Slot : (ChildStep(w) \/ ChildCrash(w)) /\ Elsewhere)
             \/ ((Interrupt \/ Exited) /\ Elsewhere)
    BY <1>4 DEF Next
<1>5. CASE UNCHANGED allVars
    BY <1>5 DEF allVars
<1> QED BY <1>1, <1>2, <1>3, <1>4, <1>5 DEF DiscoveryNext, RunStep


-----------------------------------------------------------------------------
(* What the loop keeps true, an edge that cannot be written included *)

Running == pc # "exited"

LEMMA RunKeepsTyped == Typed /\ [DiscoveryNext]_allVars => Typed'
<1> SUFFICES ASSUME Typed, [DiscoveryNext]_allVars PROVE Typed'
    OBVIOUS
<1>1. CASE [Next]_vars
    BY <1>1, StepTyped
<1>2. CASE CallCutOff
    <2>1. WorkersTyped'
        BY <1>2, AllReapedTyped DEF CallCutOff, Typed
    <2>2. QueueTyped' /\ PoolTyped'
        BY <1>2, UnchangedTyped DEF CallCutOff, Typed
    <2>3. LoopTyped' /\ RunTyped'
        BY <1>2 DEF CallCutOff, ExitWith, Typed, LoopTyped, RunTyped, PC
    <2> QED BY <2>1, <2>2, <2>3 DEF Typed
<1> QED BY <1>1, <1>2, StepOfLoop

LEMMA RunLeavesNone == AllGone /\ [DiscoveryNext]_allVars => AllGone'
<1> SUFFICES ASSUME AllGone, [DiscoveryNext]_allVars PROVE AllGone'
    OBVIOUS
<1>1. CASE [Next]_vars
    BY <1>1, StepLeavesNone
<1>2. CASE CallCutOff
    BY <1>2 DEF CallCutOff, AllGone
<1> QED BY <1>1, <1>2, StepOfLoop

\* Once the process has exited nothing happens.
LEMMA NothingAfterExit ==
    ASSUME AllGone, ~Running, [DiscoveryNext]_allVars
    PROVE  UNCHANGED allVars
<1>1. ASSUME NEW w \in Slot
      PROVE  ~ChildStep(w) /\ ~ChildCrash(w)
    BY GoneStaysGone DEF AllGone, Running, ChildStep, ChildCrash
<1>2. ASSUME NEW w \in Slot
      PROVE  ~SlotStepButJob(w) /\ ~JobFound(w)
    BY DEF SlotStepButJob, JobFound, Running, Dispatch, FillBuffer, HandleReady, HandleRestart, HandleFatal,
           HandleJob, HandleError, HandleIgnore, HandleChildren, HandleTooDeep, TakesLine,
           GiveUp, ReplaceWorker, SeesDeath, Serving, ClosePipes, WaitForChild
<1>3. ~LoopGoesOn
    BY <1>2 DEF LoopGoesOn, Running, NewPass, GrowPool, KeepPool, StopIfInterrupted, Poll, PollFails, AskToExit, KillWorkers,
           FinishFatal, FinishDone, ExitOnException, EndDispatch, EmitFails, AboutToEmit, SeesDeath, Serving
<1>4. ~AskStore /\ ~AnswerQuery /\ ~RunCall /\ ~ReturnCall /\ ~CallCutOff /\ ~Interrupt
    BY DEF Running, AskStore, Asking, AnswerQuery, RunCall, ReturnCall, CallCutOff, Interrupt
<1>5. CASE Exited /\ Elsewhere
    BY <1>5 DEF Exited, Elsewhere, allVars
<1> QED BY <1>1, <1>2, <1>3, <1>4, <1>5 DEF DiscoveryNext, RunStep

Course == Running => AllOnCourse

LEMMA StepKeepsCourse ==
    Typed /\ AllGone /\ Course /\ [DiscoveryNext]_allVars => Course'
<1> SUFFICES ASSUME Typed, AllGone, Course, [DiscoveryNext]_allVars, Running'
             PROVE  AllOnCourse'
    BY DEF Course
<1>1. Running
    BY NothingAfterExit DEF Running, allVars, vars
<1>2. ~CallCutOff
    BY DEF CallCutOff, ExitWith, Running
<1> QED BY <1>1, <1>2, StepOfLoop, StepOnCourse DEF Course

\* The attributes, as long as the process runs.
Walking == Running => WalkInv

LEMMA StepKeepsWalking ==
    ASSUME DistinctNames
    PROVE  AllGone /\ Walking /\ [DiscoveryNext]_allVars => Walking'
<1> SUFFICES ASSUME AllGone, Walking, [DiscoveryNext]_allVars, Running'
             PROVE  WalkInv'
    BY DEF Walking
<1>1. Running
    BY NothingAfterExit DEF Running, allVars, vars
<1>2. ~CallCutOff
    BY DEF CallCutOff, ExitWith, Running
<1> QED BY <1>1, <1>2, StepOfLoop, StepWalk DEF Walking


-----------------------------------------------------------------------------
(* What a step says *)

\* The elements of a finite set in some order, each once.
LEMMA SetInOrder ==
    ASSUME NEW S, IsFiniteSet(S)
    PROVE  /\ SetToSeq(S) \in Seq(S)
           /\ \A i, j \in DOMAIN SetToSeq(S) : SetToSeq(S)[i] = SetToSeq(S)[j] => i = j
           /\ \A x \in S : \E i \in DOMAIN SetToSeq(S) : SetToSeq(S)[i] = x
<1> DEFINE D == 1..Cardinality(S)
<1>1. Cardinality(S) \in Nat /\ ExistsBijection(D, S)
    BY FS_CardinalityType
<1>2. PICK b \in Bijection(D, S) : TRUE
    BY <1>1 DEF ExistsBijection
<1>3. b \in [D -> S] /\ IsInjective(b)
    BY <1>2 DEF Bijection, Injection
<1>4. SetToSeq(S) \in [D -> S] /\ IsInjective(SetToSeq(S))
    BY <1>3 DEF SetToSeq
<1> DEFINE f == SetToSeq(S)
<1>5. f \in Injection(D, S)
    BY <1>4 DEF Injection
<1>6. IsFiniteSet(D) /\ Cardinality(D) = Cardinality(S)
    <2> HIDE DEF D
    <2>1. IsFiniteSet(1..Cardinality(S)) /\ Cardinality(1..Cardinality(S)) = Cardinality(S)
        BY <1>1, FS_Interval
    <2> QED BY <2>1 DEF D
<1>7. f \in Surjection(D, S)
    BY <1>5, <1>6, FS_Injection
<1>8. f \in Seq(S)
    BY <1>1, <1>4 
<1> QED BY <1>4, <1>7, <1>8 DEF Surjection, IsInjective

\* One thing alone.
LEMMA NoneInOrder == SetToSeq({}) = <<>>
<1>1. IsFiniteSet({})
    BY FS_EmptySet
<1>2. SetToSeq({}) \in Seq({})
    BY <1>1, SetInOrder
<1> HIDE DEF SetToSeq
<1>3. Len(SetToSeq({})) = 0
    BY <1>2
<1> QED BY <1>2, <1>3

LEMMA OneInOrder ==
    ASSUME NEW x
    PROVE  SetToSeq({x}) = <<x>>
<1>1. IsFiniteSet({x})
    BY FS_Singleton
<1> DEFINE f == SetToSeq({x})
<1>2. f \in Seq({x}) /\ (\A i, j \in DOMAIN f : f[i] = f[j] => i = j)
      /\ \E i \in DOMAIN f : f[i] = x
    BY <1>1, SetInOrder
<1> HIDE DEF f
<1>3. DOMAIN f = 1..Len(f) /\ Len(f) \in Nat /\ \A i \in 1..Len(f) : f[i] = x
    BY <1>2
<1>4. Len(f) = 1
    <2>1. Len(f) >= 1
        BY <1>2, <1>3
    <2>2. ~(Len(f) >= 2)
        <3>1. SUFFICES ASSUME Len(f) >= 2 PROVE FALSE
            OBVIOUS
        <3>2. 1 \in 1..Len(f) /\ 2 \in 1..Len(f)
            BY <1>3, <3>1
        <3>3. f[1] = f[2]
            BY <1>3, <3>2
        <3> QED BY <1>2, <1>3, <3>2, <3>3
    <2> QED BY <1>3, <2>1, <2>2
<1>5. f[1] = x
    BY <1>3, <1>4
<1> QED BY <1>2, <1>3, <1>4, <1>5 DEF f

\* An image of a finite set is finite.
LEMMA FiniteImage ==
    ASSUME NEW S, IsFiniteSet(S), NEW f, DOMAIN f = S
    PROVE  IsFiniteSet({f[x] : x \in S})
<1> DEFINE g == [x \in S |-> f[x]]
           T == {f[x] : x \in S}
<1>1. g \in Surjection(S, T)
    BY DEF Surjection
<1> QED BY <1>1, FS_Surjection

\* A line on stdout.
OutLine ==
    {JobLine(path) : path \in AttrPath} \cup {ErrorLine(path) : path \in AttrPath}
        \cup [type : {"dependency"}, path : AttrPath, on : SUBSET AttrPath]
        \cup {DoneLine}

LEMMA LineFields ==
    ASSUME NEW l \in OutLine
    PROVE  /\ l.type \in {"job", "error", "dependency", "done"}
           /\ l.type = "job" => l.path \in AttrPath /\ l = JobLine(l.path)
           /\ l.type = "error" => l.path \in AttrPath /\ l = ErrorLine(l.path)
           /\ l.type = "dependency" => l.path \in AttrPath /\ l.on \subseteq AttrPath
           /\ l.type = "done" => l = DoneLine
<1>1. CASE l \in {JobLine(path) : path \in AttrPath}
    BY <1>1 DEF JobLine
<1>2. CASE l \in {ErrorLine(path) : path \in AttrPath}
    BY <1>2 DEF ErrorLine
<1>3. CASE l \in [type : {"dependency"}, path : AttrPath, on : SUBSET AttrPath]
    BY <1>3
<1>4. CASE l = DoneLine
    BY <1>4 DEF DoneLine
<1> QED BY <1>1, <1>2, <1>3, <1>4 DEF OutLine

\* What one attribute is told to depend on.
On(path, pairs) == {f[2] : f \in {g \in pairs : g[1] = path}}
DependencyLine(path, pairs) == [type |-> "dependency", path |-> path, on |-> On(path, pairs)]

\* The lines of some edges have each edge once, and each attribute once.
LEMMA EdgesInLines ==
    ASSUME NEW pairs \in SUBSET (AttrPath \X AttrPath), IsFiniteSet(pairs)
    PROVE  LET s == DependencyLines(pairs)
           IN  /\ s \in Seq(OutLine)
               /\ \A i \in DOMAIN s :
                     /\ s[i].type = "dependency"
                     /\ \E e \in pairs : s[i].path = e[1]
                     /\ \A b \in s[i].on : <<s[i].path, b>> \in pairs
                     /\ \A j \in DOMAIN s : s[i].path = s[j].path => i = j
               /\ \A e \in pairs : \E i \in DOMAIN s : s[i].path = e[1] /\ e[2] \in s[i].on
<1> DEFINE lines == {DependencyLine(e[1], pairs) : e \in pairs}
           s == DependencyLines(pairs)
<1>1. s = SetToSeq(lines)
    BY DEF DependencyLines, DependencyLine, On
<1>2. IsFiniteSet(lines)
    <2> DEFINE f == [e \in pairs |-> DependencyLine(e[1], pairs)]
    <2>1. lines = {f[e] : e \in pairs}
        OBVIOUS
    <2>2. DOMAIN f = pairs
        OBVIOUS
    <2> HIDE DEF f, lines
    <2> QED BY <2>1, <2>2, FiniteImage
<1>3. /\ s \in Seq(lines)
      /\ \A i, j \in DOMAIN s : s[i] = s[j] => i = j
      /\ \A x \in lines : \E i \in DOMAIN s : s[i] = x
    <2> HIDE DEF lines
    <2> QED BY <1>1, <1>2, SetInOrder
<1>4. ASSUME NEW e \in pairs
      PROVE  /\ e[1] \in AttrPath /\ e[2] \in AttrPath /\ e = <<e[1], e[2]>>
             /\ \A b : b \in On(e[1], pairs) <=> <<e[1], b>> \in pairs
    BY DEF On
<1>5. lines \subseteq OutLine
    <2> SUFFICES ASSUME NEW e \in pairs
                 PROVE  DependencyLine(e[1], pairs) \in OutLine
        OBVIOUS
    <2>1. On(e[1], pairs) \subseteq AttrPath
        <3> SUFFICES ASSUME NEW b \in On(e[1], pairs) PROVE b \in AttrPath
            OBVIOUS
        <3>1. <<e[1], b>> \in pairs
            BY <1>4
        <3> QED BY <3>1
    <2> QED BY <1>4, <2>1 DEF DependencyLine, OutLine
<1> HIDE DEF s
<1>6. s \in Seq(OutLine)
    BY <1>3, <1>5
<1>7. ASSUME NEW i \in DOMAIN s
      PROVE  /\ s[i].type = "dependency"
             /\ \E e \in pairs : s[i].path = e[1]
             /\ \A b \in s[i].on : <<s[i].path, b>> \in pairs
             /\ s[i] = DependencyLine(s[i].path, pairs)
    <2>1. s[i] \in lines
        BY <1>3
    <2>2. PICK e \in pairs : s[i] = DependencyLine(e[1], pairs)
        BY <2>1
    <2>3. s[i].type = "dependency" /\ s[i].path = e[1] /\ s[i].on = On(e[1], pairs)
        BY <2>2 DEF DependencyLine
    <2> QED BY <1>4, <2>2, <2>3
<1>8. ASSUME NEW i \in DOMAIN s, NEW j \in DOMAIN s, s[i].path = s[j].path
      PROVE  i = j
    BY <1>3, <1>7, <1>8
<1>9. ASSUME NEW e \in pairs
      PROVE  \E i \in DOMAIN s : s[i].path = e[1] /\ e[2] \in s[i].on
    <2>1. PICK i \in DOMAIN s : s[i] = DependencyLine(e[1], pairs)
        BY <1>3
    <2>2. s[i].path = e[1] /\ s[i].on = On(e[1], pairs)
        BY <2>1 DEF DependencyLine
    <2> QED BY <1>4, <2>2
<1> QED BY <1>6, <1>7, <1>8, <1>9 DEF s

OutputTyped == stdout \in Seq(OutLine)

\* A verdict changes by being concluded, one at a time.
LEMMA OneVerdict ==
    ASSUME Typed, AllOnCourse, [Next]_vars
    PROVE  \/ verdict' = verdict
           \/ \E w \in Slot : /\ Holds(w) /\ currentJob[w].path \in AttrPath
                              /\ \A path \in AttrPath : path # currentJob[w].path =>
                                     verdict'[path] = verdict[path]
<1>1. QueueStays \/ Moves
    BY StepMoves
<1>2. verdict \in [AttrPath -> Verdict]
    BY DEF Typed, QueueTyped
<1>3. ASSUME NEW w \in Slot, Settles(w) \/ Blames(w)
      PROVE  /\ Holds(w) /\ currentJob[w].path \in AttrPath
             /\ \A path \in AttrPath : path # currentJob[w].path =>
                    verdict'[path] = verdict[path]
    <2>1. Holds(w)
        BY <1>3 DEF Settles, Blames, LetsGo
    <2>2. PICK v : Conclude(currentJob[w].path, v)
        BY <1>3 DEF Settles, Blames
    <2> QED BY <1>2, <2>1, <2>2, JobTyped DEF Conclude
<1> QED BY <1>1, <1>3 DEF QueueStays, Moves, HandsOut, Requeues

LEMMA NothingSaid ==
    ASSUME NEW T, NEW s \in Seq(T)
    PROVE  s \o <<>> = s
BY ConcatEmptySeq

\* The attribute is told about as an error.
FailedNow(path) ==
    verdict'[path] # verdict[path] /\ verdict'[path] \in {"error", "too deep", "died"}

\* The slots are left alone at the end of the run.
LEMMA SlotStepInLoop ==
    ASSUME NEW w \in Slot, SlotStepButJob(w)
    PROVE  pc # "finish" /\ done' = done
BY DEF SlotStepButJob, Dispatch, FillBuffer, HandleReady, HandleRestart, HandleFatal,
       HandleError, HandleIgnore, HandleChildren, HandleTooDeep, TakesLine, AnswerFrame,
       GiveUp, ReplaceWorker, SeesDeath, Serving, ClosePipes, WaitForChild, run

\* The run is not done before the last walk is.
LEMMA LoopFinishes ==
    ASSUME LoopGoesOn
    PROVE  /\ done' = done \/ FinishDone
           /\ FinishDone => ~WalksOn /\ verdict' = verdict /\ done'
<1>1. done' = done \/ FinishDone
    BY SlotStepInLoop DEF LoopGoesOn, NewPass, GrowPool, KeepPool, StopIfInterrupted, Poll, PollFails, AskToExit,
           KillWorkers, FinishFatal, ExitOnException, EndDispatch, EmitFails, run
<1>2. ASSUME FinishDone
      PROVE  ~WalksOn
    <2>1. pc = "finish" /\ ~fatal
        BY <1>2 DEF FinishDone
    <2>2. FinishDone \/ EmitFails
        BY <2>1, SlotStepInLoop DEF LoopGoesOn, NewPass, GrowPool, KeepPool, StopIfInterrupted, Poll, PollFails,
               AskToExit, KillWorkers, FinishFatal, ExitOnException, EndDispatch
    <2>3. ~(NewPass \/ StopIfInterrupted \/ Poll \/ PollFails \/ AskToExit \/ KillWorkers
                \/ FinishFatal \/ ExitOnException \/ EndDispatch)
        BY <2>1 DEF NewPass, GrowPool, KeepPool, StopIfInterrupted, Poll, PollFails,
               AskToExit, KillWorkers, FinishFatal, ExitOnException, EndDispatch
    <2>4. ~\E w \in Slot : SlotStepButJob(w)
        BY <2>1, SlotStepInLoop
    <2> QED BY <2>1, <2>3, <2>4 DEF LoopGoesOn
<1>3. ASSUME FinishDone
      PROVE  verdict' = verdict /\ done'
    BY <1>3 DEF FinishDone, queue
<1> QED BY <1>1, <1>2, <1>3

\* What the loop says of itself in one step.
LEMMA LoopSays ==
    ASSUME Typed, AllOnCourse, OutputTyped, LoopGoesOn
    PROVE  \/ stdout' = stdout /\ done' = done
           \/ \E path \in AttrPath : /\ FailedNow(path)
                                     /\ stdout' = stdout \o <<ErrorLine(path)>>
                                     /\ done' = done
           \/ ~done /\ done' /\ ~WalksOn /\ verdict' = verdict
              /\ stdout' = stdout \o <<DoneLine>>
<1> DEFINE failed == {path \in AttrPath : FailedNow(path)}
           T == {ErrorLine(path) : path \in failed}
<1>1. ErrorLines = SetToSeq(T)
    BY DEF ErrorLines, FailedNow
<1>2. stdout \in Seq(OutLine) /\ stdout' = (stdout \o ErrorLines) \o DoneLines
    BY DEF LoopGoesOn, OutputTyped
<1>3. CASE verdict' = verdict
    <2>1. failed = {}
        BY <1>3 DEF FailedNow
    <2>2. T = {}
        BY <2>1
    <2>3. ErrorLines = <<>>
        BY <1>1, <2>2, NoneInOrder
    <2>4. stdout' = stdout \o DoneLines
        BY <1>2, <2>3, NothingSaid
    <2>5. CASE done' = done
        <3>1. DoneLines = <<>>
            BY <2>5 DEF DoneLines
        <3> QED BY <1>2, <2>4, <2>5, <3>1, NothingSaid
    <2>6. CASE done' # done
        <3>1. FinishDone /\ ~WalksOn /\ done'
            BY <2>6, LoopFinishes
        <3>2. ~done
            BY <2>6, <3>1 DEF Typed, RunTyped, FinishDone
        <3>3. DoneLines = <<DoneLine>> /\ DoneLine \in OutLine
            BY <3>1, <3>2 DEF DoneLines, OutLine
        <3> QED BY <1>2, <1>3, <2>4, <3>1, <3>2, <3>3
    <2> QED BY <2>5, <2>6
<1>4. CASE verdict' # verdict
    <2>1. done' = done
        BY <1>4, LoopFinishes
    <2>2. DoneLines = <<>>
        BY <2>1 DEF DoneLines
    <2>3. [Next]_vars
        BY DEF LoopGoesOn, NewPass, SlotStepButJob, Next, CoordinatorStep, LoopStep, SlotStep
    <2>4. PICK w \in Slot : \A path \in AttrPath : path # currentJob[w].path =>
                                verdict'[path] = verdict[path]
        BY <1>4, <2>3, OneVerdict
    <2> DEFINE p == currentJob[w].path
    <2>5. \A path \in failed : path = p
        BY <2>4 DEF FailedNow
    <2>6. ErrorLines \in Seq(OutLine)
        <3>1. CASE failed = {}
            <4>1. T = {}
                BY <3>1
            <4>2. ErrorLines = <<>>
                BY <1>1, <4>1, NoneInOrder
            <4> QED BY <4>2
        <3>2. CASE failed # {}
            <4>1. T = {ErrorLine(p)} /\ p \in AttrPath
                BY <2>5, <3>2
            <4>2. ErrorLines = <<ErrorLine(p)>>
                BY <1>1, <4>1, OneInOrder
            <4>3. ErrorLine(p) \in OutLine
                BY <4>1 DEF OutLine
            <4> QED BY <4>2, <4>3
        <3> QED BY <3>1, <3>2
    <2>7. stdout' = stdout \o ErrorLines
        <3>1. stdout \o ErrorLines \in Seq(OutLine)
            BY <1>2, <2>6, ConcatProperties
        <3> QED BY <1>2, <2>2, <3>1, NothingSaid
    <2>8. CASE failed = {}
        <3>1. T = {}
            BY <2>8
        <3>2. ErrorLines = <<>>
            BY <1>1, <3>1, NoneInOrder
        <3> QED BY <1>2, <2>1, <2>7, <3>2, NothingSaid
    <2>9. CASE failed # {}
        <3>1. T = {ErrorLine(p)} /\ p \in AttrPath /\ FailedNow(p)
            BY <2>5, <2>9
        <3>2. ErrorLines = <<ErrorLine(p)>>
            BY <1>1, <3>1, OneInOrder
        <3> QED BY <2>1, <2>7, <3>1, <3>2
    <2> QED BY <2>8, <2>9
<1> QED BY <1>3, <1>4


-----------------------------------------------------------------------------
(* Type correctness, and jobs before edges *)

\* What a call returns is finitely many edges.
LEMMA FewEdges ==
    ASSUME EP!IInv
    PROVE  edges \in SUBSET (AttrPath \X AttrPath) /\ IsFiniteSet(edges)
<1>1. outputs \in Seq(AttrPath) /\ edges \subseteq E!Registered \X E!Registered
      /\ E!Registered \subseteq AttrPath
    BY EdgesKnown DEF E!TypeOK
<1>2. Len(outputs) \in Nat /\ DOMAIN outputs = 1..Len(outputs)
    BY <1>1
<1>3. IsFiniteSet(DOMAIN outputs)
    <2> DEFINE n == Len(outputs)
    <2>1. n \in Nat /\ DOMAIN outputs = 1..n
        BY <1>2
    <2> HIDE DEF n
    <2> QED BY <2>1, FS_Interval
<1>4. E!Registered = {outputs[i] : i \in DOMAIN outputs}
    BY DEF E!Registered, E!Range
<1>5. IsFiniteSet(E!Registered)
    BY <1>3, <1>4, FiniteImage
<1>6. IsFiniteSet(E!Registered \X E!Registered)
    BY <1>5, FS_Product
<1> QED BY <1>1, <1>6, FS_Subset

\* A call that returns says its edges, and one that cannot says some of them.
LEMMA CallSays ==
    ASSUME EP!IInv, OutputTyped, ReturnCall \/ CallCutOff
    PROVE  \E said \in Seq(OutLine) :
              /\ stdout' = stdout \o said
              /\ \A i \in DOMAIN said :
                     /\ said[i].type = "dependency"
                     /\ \E e \in edges : said[i].path = e[1]
                     /\ \A b \in said[i].on : <<said[i].path, b>> \in edges
                     /\ \A j \in DOMAIN said : said[i].path = said[j].path => i = j
              /\ ReturnCall => \A e \in edges : \E i \in DOMAIN said :
                                   said[i].path = e[1] /\ e[2] \in said[i].on
<1> DEFINE s == DependencyLines(edges)
<1>1. /\ s \in Seq(OutLine)
      /\ \A i \in DOMAIN s :
            /\ s[i].type = "dependency"
            /\ \E e \in edges : s[i].path = e[1]
            /\ \A b \in s[i].on : <<s[i].path, b>> \in edges
            /\ \A j \in DOMAIN s : s[i].path = s[j].path => i = j
      /\ \A e \in edges : \E i \in DOMAIN s : s[i].path = e[1] /\ e[2] \in s[i].on
    BY FewEdges, EdgesInLines
<1>2. CASE ReturnCall
    <2>1. stdout' = stdout \o s
        BY <1>2 DEF ReturnCall
    <2> HIDE DEF s
    <2> QED BY <1>1, <2>1
<1>3. CASE CallCutOff
    <2>1. PICK n \in 0..(Len(s) - 1) : stdout' = stdout \o SubSeq(s, 1, n)
        BY <1>3 DEF CallCutOff
    <2> HIDE DEF s
    <2> DEFINE t == SubSeq(s, 1, n)
    <2>2. /\ n \in Int /\ Len(s) \in Nat /\ DOMAIN s = 1..Len(s)
          /\ \A i \in 1..n : i \in DOMAIN s /\ s[i] \in OutLine
        BY <1>1
    <2>3. t \in Seq(OutLine) /\ DOMAIN t = 1..n /\ \A i \in 1..n : t[i] = s[i]
        <3>1. /\ t \in Seq(OutLine) /\ Len(t) = IF 1 <= n THEN n - 1 + 1 ELSE 0
              /\ \A i \in 1..(n - 1 + 1) : t[i] = s[1 + i - 1]
            BY <2>2, SubSeqProperties
        <3> HIDE DEF t
        <3>2. Len(t) = n
            BY <2>1, <3>1
        <3> QED BY <2>1, <2>2, <3>1, <3>2
    <2>4. ~ReturnCall
        BY <1>3 DEF CallCutOff, ReturnCall, vars, ExitWith
    <2>5. stdout' = stdout \o t
        BY <2>1
    <2> HIDE DEF t
    <2>6. ASSUME NEW i \in DOMAIN t
          PROVE  /\ t[i].type = "dependency"
                 /\ \E e \in edges : t[i].path = e[1]
                 /\ \A b \in t[i].on : <<t[i].path, b>> \in edges
                 /\ \A j \in DOMAIN t : t[i].path = t[j].path => i = j
        <3>1. i \in DOMAIN s /\ t[i] = s[i] /\ \A j \in DOMAIN t : j \in DOMAIN s /\ t[j] = s[j]
            BY <2>2, <2>3
        <3> QED BY <1>1, <3>1
    <2> QED BY <2>3, <2>4, <2>5, <2>6
<1> QED BY <1>2, <1>3

\* A derivation found is told about as a job.
LEMMA JobSays ==
    ASSUME Typed, NEW w \in Slot, JobFound(w)
    PROVE  LET path == Message(w).path
           IN  /\ path \in AttrPath
               /\ stdout' = stdout \o <<JobLine(path)>>
               /\ IF wantEdges THEN Register(path) ELSE UNCHANGED walks
               /\ verdict' = [verdict EXCEPT ![path] = "job"]
               /\ UNCHANGED <<wantEdges, edgeStore, budget, done>> /\ cursor = 0
<1>1. Message(w).path \in AttrPath
    BY FoundPath DEF JobFound
<1>2. stdout' = stdout \o <<JobLine(Message(w).path)>>
    BY DEF JobFound, JobThenEdges
<1>3. verdict' = [verdict EXCEPT ![Message(w).path] = "job"] /\ UNCHANGED done
    BY DEF JobFound, HandleJob, Conclude, AnswerFrame
<1>4. IF wantEdges THEN Register(Message(w).path) ELSE UNCHANGED walks
    BY DEF JobFound
<1>5. UNCHANGED <<wantEdges, edgeStore, budget>> /\ cursor = 0
    BY DEF JobFound, edgeRun, Busy
<1> QED BY <1>1, <1>2, <1>3, <1>4, <1>5

\* The rest says nothing.
LEMMA OthersSayNothing ==
    ASSUME [DiscoveryNext]_allVars, ~LoopGoesOn, ~ReturnCall, ~CallCutOff,
           \A w \in Slot : ~JobFound(w)
    PROVE  UNCHANGED <<stdout, verdict, done>>
<1>1. CASE AskStore \/ AnswerQuery \/ RunCall
    BY <1>1 DEF AskStore, AnswerQuery, RunCall, vars, queue, run
<1>2. CASE \E w \in Slot : (ChildStep(w) \/ ChildCrash(w)) /\ Elsewhere
    BY <1>2 DEF Elsewhere, ChildStep, ChildCrash, queue, run
<1>3. CASE (Interrupt \/ Exited) /\ Elsewhere
    BY <1>3 DEF Elsewhere, Interrupt, Exited, vars, queue, run
<1>4. CASE UNCHANGED allVars
    BY <1>4 DEF allVars, vars, queue, run
<1> QED BY <1>1, <1>2, <1>3, <1>4 DEF DiscoveryNext, RunStep

\* What was on stdout stays, and what is said comes behind it.
LEMMA LinesBehind ==
    ASSUME OutputTyped, NEW said \in Seq(OutLine), stdout' = stdout \o said
    PROVE  /\ OutputTyped'
           /\ Len(stdout) \in Nat /\ DOMAIN stdout = 1..Len(stdout)
           /\ \A i \in DOMAIN stdout : i \in DOMAIN stdout' /\ stdout'[i] = stdout[i]
           /\ \A i \in DOMAIN said : /\ i \in Nat \ {0} /\ Len(stdout) + i \in DOMAIN stdout'
                                     /\ stdout'[Len(stdout) + i] = said[i]
           /\ \A j \in DOMAIN stdout' :
                 j \in DOMAIN stdout \/ \E i \in DOMAIN said : j = Len(stdout) + i
<1> DEFINE both == stdout \o said
<1>1. /\ stdout \in Seq(OutLine)
      /\ Len(stdout) \in Nat /\ DOMAIN stdout = 1..Len(stdout)
      /\ Len(said) \in Nat /\ DOMAIN said = 1..Len(said)
    BY DEF OutputTyped
<1>2. /\ both \in Seq(OutLine) /\ Len(both) = Len(stdout) + Len(said)
      /\ \A i \in 1..(Len(stdout) + Len(said)) :
            both[i] = IF i <= Len(stdout) THEN stdout[i] ELSE said[i - Len(stdout)]
    BY <1>1, ConcatProperties
<1>3. stdout' = both
    OBVIOUS
<1> HIDE DEF both
<1>4. DOMAIN both = 1..(Len(stdout) + Len(said))
    BY <1>2
<1>5. \A i \in DOMAIN stdout : i \in DOMAIN both /\ both[i] = stdout[i]
    BY <1>1, <1>2, <1>4
<1>6. ASSUME NEW i \in DOMAIN said
      PROVE  i \in Nat \ {0} /\ Len(stdout) + i \in DOMAIN both /\ both[Len(stdout) + i] = said[i]
    <2> DEFINE k == Len(stdout) + i
    <2>1. i \in Nat \ {0} /\ k \in 1..(Len(stdout) + Len(said)) /\ ~(k <= Len(stdout)) /\ k - Len(stdout) = i
        BY <1>1
    <2> HIDE DEF k
    <2>2. both[k] = said[i]
        BY <1>2, <2>1
    <2> QED BY <1>4, <2>1, <2>2 DEF k
<1>7. ASSUME NEW j \in DOMAIN both, j \notin DOMAIN stdout
      PROVE  \E i \in DOMAIN said : j = Len(stdout) + i
    <2>1. j - Len(stdout) \in DOMAIN said /\ j = Len(stdout) + (j - Len(stdout))
        BY <1>1, <1>4, <1>7
    <2> QED BY <2>1
<1> QED BY <1>1, <1>2, <1>3, <1>5, <1>6, <1>7 DEF OutputTyped

\* Every step says something of one kind.
LEMMA StepSays ==
    ASSUME Typed, AllGone, Course, EP!IInv, OutputTyped, [DiscoveryNext]_allVars
    PROVE  \E said \in Seq(OutLine) :
              /\ stdout' = stdout \o said
              /\ \A i \in DOMAIN said :
                    said[i].type = "dependency" =>
                        /\ ReturnCall \/ CallCutOff
                        /\ \E e \in edges : said[i].path = e[1]
                        /\ \A b \in said[i].on : <<said[i].path, b>> \in edges
              /\ \A i \in DOMAIN said :
                    said[i].type = "job" => \E w \in Slot : JobFound(w)
              /\ ReturnCall => \A e \in edges : \E i \in DOMAIN said :
                     said[i].type = "dependency" /\ said[i].path = e[1] /\ e[2] \in said[i].on
              /\ \A w \in Slot : JobFound(w) => said = <<JobLine(Message(w).path)>>
<1>1. stdout \in Seq(OutLine)
    BY DEF OutputTyped
<1>a. /\ ReturnCall \/ CallCutOff => \A w \in Slot : ~JobFound(w)
      /\ LoopGoesOn => ~ReturnCall
    BY DEF ReturnCall, CallCutOff, JobFound, LoopGoesOn, Busy, E!Return, E!idle
<1>2. CASE stdout' = stdout /\ ~ReturnCall /\ \A w \in Slot : ~JobFound(w)
    <2>1. stdout' = stdout \o <<>> /\ <<>> \in Seq(OutLine) /\ DOMAIN <<>> = {}
        BY <1>1, <1>2, NothingSaid
    <2> QED BY <1>2, <2>1
<1>3. ASSUME NEW l \in OutLine, l.type # "dependency", stdout' = stdout \o <<l>>,
             l.type = "job" => \E w \in Slot : JobFound(w),
             \A w \in Slot : JobFound(w) => l = JobLine(Message(w).path)
      PROVE  \E said \in Seq(OutLine) :
                /\ stdout' = stdout \o said
                /\ \A i \in DOMAIN said : /\ said[i].type # "dependency"
                                          /\ said[i].type = "job" => \E w \in Slot : JobFound(w)
                /\ \A w \in Slot : JobFound(w) => said = <<JobLine(Message(w).path)>>
    <2>1. <<l>> \in Seq(OutLine) /\ DOMAIN <<l>> = {1} /\ <<l>>[1] = l
        OBVIOUS
    <2> QED BY <1>3, <2>1
<1>4. ASSUME NEW w \in Slot, JobFound(w)
      PROVE  \A v \in Slot : JobFound(v) => v = w
    BY <1>4 DEF JobFound, HandleJob, TakesLine, Serving, Slot
<1>5. CASE \E w \in Slot : JobFound(w)
    <2>1. PICK w \in Slot : JobFound(w)
        BY <1>5
    <2>2. Message(w).path \in AttrPath /\ stdout' = stdout \o <<JobLine(Message(w).path)>>
        BY <2>1, JobSays
    <2>3. JobLine(Message(w).path) \in OutLine /\ JobLine(Message(w).path).type # "dependency"
        BY <2>2 DEF OutLine, JobLine
    <2>4. ~ReturnCall
        BY <1>a, <2>1
    <2> QED BY <1>3, <1>4, <2>1, <2>2, <2>3, <2>4
<1>6. CASE ReturnCall \/ CallCutOff
    <2>1. \A w \in Slot : ~JobFound(w)
        BY <1>a, <1>6
    <2>2. PICK said \in Seq(OutLine) :
              /\ stdout' = stdout \o said
              /\ \A i \in DOMAIN said :
                     /\ said[i].type = "dependency"
                     /\ \E e \in edges : said[i].path = e[1]
                     /\ \A b \in said[i].on : <<said[i].path, b>> \in edges
                     /\ \A j \in DOMAIN said : said[i].path = said[j].path => i = j
              /\ ReturnCall => \A e \in edges : \E i \in DOMAIN said :
                                   said[i].path = e[1] /\ e[2] \in said[i].on
        BY <1>6, CallSays
    <2> QED BY <1>6, <2>1, <2>2
<1>7. CASE LoopGoesOn /\ \A w \in Slot : ~JobFound(w)
    <2>a. ~ReturnCall
        BY <1>a, <1>7
    <2>1. CASE ~Running
        <3>1. stdout' = stdout
            BY <2>1, NothingAfterExit DEF allVars
        <3> QED BY <1>2, <1>7, <2>a, <3>1
    <2>2. CASE Running
        <3>1. AllOnCourse
            BY <2>2 DEF Course
        <3>2. CASE stdout' = stdout
            BY <1>2, <1>7, <2>a, <3>2
        <3>3. ASSUME NEW path \in AttrPath, stdout' = stdout \o <<ErrorLine(path)>>
              PROVE  \E said \in Seq(OutLine) :
                        /\ stdout' = stdout \o said
                        /\ \A k \in DOMAIN said : said[k].type \notin {"dependency", "job"}
            <4>1. ErrorLine(path) \in OutLine /\ ErrorLine(path).type \notin {"dependency", "job"}
                BY DEF OutLine, ErrorLine
            <4> QED BY <1>3, <1>7, <3>3, <4>1
        <3>4. CASE stdout' = stdout \o <<DoneLine>>
            <4>1. DoneLine \in OutLine /\ DoneLine.type \notin {"dependency", "job"}
                BY DEF OutLine, DoneLine
            <4> QED BY <1>3, <1>7, <2>a, <3>4, <4>1
        <3> QED BY <1>7, <2>a, <3>1, <3>2, <3>3, <3>4, LoopSays
    <2> QED BY <2>1, <2>2
<1> QED BY <1>2, <1>5, <1>6, <1>7, OthersSayNothing

LEMMA StepKeepsOutput ==
    ASSUME Typed, AllGone, Course, EP!IInv, OutputTyped, [DiscoveryNext]_allVars
    PROVE  OutputTyped'
BY StepSays, LinesBehind

\* The jobs that have been told about.
JobsSaid == {stdout[j].path : j \in {k \in DOMAIN stdout : stdout[k].type = "job"}}

\* Every attribute EdgeDiscovery knows of has had its line.
Named == E!Registered \subseteq added /\ added \subseteq JobsSaid

LEMMA StepAdds ==
    ASSUME Typed, EP!IInv, [DiscoveryNext]_allVars
    PROVE  \/ UNCHANGED <<added, outputs, outputOf>>
           \/ \E w \in Slot :
                 /\ JobFound(w) /\ wantEdges
                 /\ Message(w).path \in AttrPath \ added
                 /\ added' = added \cup {Message(w).path}
                 /\ E!AddAlias(Message(w).path) \/ E!AddOutput(Message(w).path)
<1>1. ASSUME NEW w \in Slot, JobFound(w)
      PROVE  \/ UNCHANGED walks
             \/ /\ wantEdges /\ Message(w).path \in AttrPath \ added
                /\ E!AddAlias(Message(w).path) \/ E!AddOutput(Message(w).path)
    BY <1>1, JobSays DEF Register
<1>2. ASSUME NEW a, E!AddAlias(a) \/ E!AddOutput(a)
      PROVE  added' = added \cup {a}
    BY <1>2 DEF E!AddAlias, E!AddOutput
<1>3. CASE AskStore \/ AnswerQuery \/ RunCall \/ ReturnCall
    BY <1>3 DEF AskStore, AnswerQuery, RunCall, ReturnCall, E!NextQuery, E!ProvideReferences,
           E!Expand, E!NextWalk, E!Return
<1>4. CASE LoopGoesOn \/ CallCutOff
    BY <1>4 DEF LoopGoesOn, CallCutOff, walks
<1>5. CASE (\E w \in Slot : (ChildStep(w) \/ ChildCrash(w)) /\ Elsewhere)
             \/ ((Interrupt \/ Exited) /\ Elsewhere) \/ UNCHANGED allVars
    BY <1>5 DEF Elsewhere, allVars, walks
<1> QED BY <1>1, <1>2, <1>3, <1>4, <1>5 DEF DiscoveryNext, RunStep, walks

\* Registering an output is registering a name.
LEMMA Registering ==
    ASSUME EP!IInv, NEW a \in AttrPath, E!AddAlias(a) \/ E!AddOutput(a)
    PROVE  \/ /\ E!IsAlias(a) /\ UNCHANGED <<outputs, outputOf>>
              /\ E!Registered' = E!Registered
           \/ /\ ~E!IsAlias(a) /\ E!Registered' = E!Registered \cup {a}
              /\ outputOf' = [outputOf EXCEPT ![DrvOf[a]] = a]
<1>1. CASE E!AddAlias(a)
    BY <1>1 DEF E!AddAlias, E!Registered, E!Range
<1>2. CASE E!AddOutput(a)
    <2>1. outputs \in Seq(AttrPath) /\ outputs' = Append(outputs, a)
        BY <1>2, EdgesKnown DEF E!TypeOK, E!AddOutput
    <2>2. EP!Range(Append(outputs, a)) = EP!Range(outputs) \cup {a}
        BY <2>1, EdgesAssumed, EP!RangeOfAppend
    <2>3. E!Registered' = E!Registered \cup {a}
        BY <2>1, <2>2 DEF E!Registered, E!Range, EP!Range
    <2> QED BY <1>2, <2>3 DEF E!AddOutput
<1> QED BY <1>1, <1>2

LEMMA JobsSaidStay ==
    ASSUME OutputTyped, NEW said \in Seq(OutLine), stdout' = stdout \o said
    PROVE  /\ JobsSaid \subseteq JobsSaid'
           /\ \A i \in DOMAIN stdout : JobsBefore(i)' = JobsBefore(i)
           /\ \A k \in DOMAIN stdout' \ DOMAIN stdout : JobsSaid \subseteq JobsBefore(k)'
           /\ \A i \in DOMAIN said : said[i].type = "job" => said[i].path \in JobsSaid'
<1>1. /\ Len(stdout) \in Nat /\ DOMAIN stdout = 1..Len(stdout)
      /\ \A i \in DOMAIN stdout : i \in DOMAIN stdout' /\ stdout'[i] = stdout[i]
      /\ \A i \in DOMAIN said : /\ i \in Nat \ {0} /\ Len(stdout) + i \in DOMAIN stdout'
                                /\ stdout'[Len(stdout) + i] = said[i]
    BY LinesBehind
<1>2. JobsSaid \subseteq JobsSaid'
    BY <1>1 DEF JobsSaid
<1>3. ASSUME NEW i \in DOMAIN stdout
      PROVE  JobsBefore(i)' = JobsBefore(i)
    <2>1. \A k \in 1..(i - 1) : k \in DOMAIN stdout /\ stdout'[k] = stdout[k]
        BY <1>1
    <2> QED BY <2>1 DEF JobsBefore
<1>4. ASSUME NEW k \in DOMAIN stdout' \ DOMAIN stdout
      PROVE  JobsSaid \subseteq JobsBefore(k)'
    <2>1. PICK i \in DOMAIN said : k = Len(stdout) + i
        BY LinesBehind
    <2>2. \A j \in DOMAIN stdout : j \in 1..(k - 1) /\ stdout'[j] = stdout[j]
        BY <1>1, <2>1
    <2> QED BY <2>2 DEF JobsBefore, JobsSaid
<1>5. \A i \in DOMAIN said : said[i].type = "job" => said[i].path \in JobsSaid'
    BY <1>1 DEF JobsSaid
<1> QED BY <1>2, <1>3, <1>4, <1>5

LEMMA StepNames ==
    ASSUME Typed, AllGone, Course, EP!IInv, OutputTyped, Named, [DiscoveryNext]_allVars
    PROVE  Named'
<1>1. PICK said \in Seq(OutLine) :
          /\ stdout' = stdout \o said
          /\ \A w \in Slot : JobFound(w) => said = <<JobLine(Message(w).path)>>
    BY StepSays
<1>2. JobsSaid \subseteq JobsSaid'
    BY <1>1, JobsSaidStay
<1>3. CASE UNCHANGED <<added, outputs>>
    BY <1>2, <1>3 DEF Named, E!Registered, E!Range
<1>4. ASSUME NEW w \in Slot, JobFound(w), Message(w).path \in AttrPath,
             added' = added \cup {Message(w).path},
             E!AddAlias(Message(w).path) \/ E!AddOutput(Message(w).path)
      PROVE  Named'
    <2>1. said = <<JobLine(Message(w).path)>>
        BY <1>1, <1>4
    <2>2. 1 \in DOMAIN said /\ said[1].type = "job" /\ said[1].path = Message(w).path
        BY <2>1 DEF JobLine
    <2>3. Message(w).path \in JobsSaid'
        BY <1>1, <2>2, JobsSaidStay
    <2>4. E!Registered' \subseteq E!Registered \cup {Message(w).path}
        BY <1>4, Registering
    <2> QED BY <1>2, <1>4, <2>3, <2>4 DEF Named
<1> QED BY <1>3, <1>4, StepAdds

LEMMA StepKeepsJobsFirst ==
    ASSUME Typed, AllGone, Course, EP!IInv, OutputTyped, Named, JobsComeFirst,
           [DiscoveryNext]_allVars
    PROVE  JobsComeFirst'
<1>1. PICK said \in Seq(OutLine) :
          /\ stdout' = stdout \o said
          /\ \A i \in DOMAIN said :
                said[i].type = "dependency" =>
                    /\ \E e \in edges : said[i].path = e[1]
                    /\ \A b \in said[i].on : <<said[i].path, b>> \in edges
    BY StepSays
<1>2. edges \subseteq JobsSaid \X JobsSaid
    BY EdgesKnown DEF Named
<1> SUFFICES ASSUME NEW k \in DOMAIN stdout', stdout'[k].type = "dependency"
             PROVE  {stdout'[k].path} \cup stdout'[k].on \subseteq JobsBefore(k)'
    BY DEF JobsComeFirst, DependencyAt
<1>3. CASE k \in DOMAIN stdout
    <2>1. stdout'[k] = stdout[k] /\ JobsBefore(k)' = JobsBefore(k)
        BY <1>1, <1>3, LinesBehind, JobsSaidStay
    <2> QED BY <1>3, <2>1 DEF JobsComeFirst, DependencyAt
<1>4. CASE k \notin DOMAIN stdout
    <2>1. PICK i \in DOMAIN said : k = Len(stdout) + i
        BY <1>1, <1>4, LinesBehind
    <2>2. stdout'[k] = said[i]
        BY <1>1, <2>1, LinesBehind
    <2>3. said[i].path \in JobsSaid /\ said[i].on \subseteq JobsSaid
        BY <1>1, <1>2, <2>2
    <2>4. JobsSaid \subseteq JobsBefore(k)'
        BY <1>1, <1>4, JobsSaidStay
    <2> QED BY <2>2, <2>3, <2>4
<1> QED BY <1>3, <1>4

EdgeRunTyped ==
    wantEdges \in BOOLEAN /\ edgeStore \in BOOLEAN /\ budget \in 0..EdgeQueriesPerPass

LEMMA StepKeepsEdgeRun == EdgeRunTyped /\ [DiscoveryNext]_allVars => EdgeRunTyped'
<1> SUFFICES ASSUME EdgeRunTyped, [DiscoveryNext]_allVars PROVE EdgeRunTyped'
    OBVIOUS
<1> USE DEF EdgeRunTyped
<1>a. EdgeQueriesPerPass \in Nat \ {0}
    BY DiscoveryAssumption
<1>1. CASE AskStore
    <2>1. pc = "dispatch" => budget > 0
        BY <1>1 DEF AskStore, Asking, StepsEdges
    <2>2. wantEdges' \in BOOLEAN /\ edgeStore' \in BOOLEAN
        BY <1>1 DEF AskStore
    <2>3. budget' = IF pc = "dispatch" THEN budget - 1 ELSE budget
        BY <1>1 DEF AskStore
    <2> QED BY <1>a, <2>1, <2>2, <2>3
<1>2. CASE LoopGoesOn
    BY <1>a, <1>2 DEF LoopGoesOn
<1>3. CASE AnswerQuery \/ RunCall \/ ReturnCall \/ CallCutOff \/ \E w \in Slot : JobFound(w)
    BY <1>3 DEF AnswerQuery, RunCall, ReturnCall, CallCutOff, JobFound, edgeRun
<1>4. CASE (\E w \in Slot : (ChildStep(w) \/ ChildCrash(w)) /\ Elsewhere)
             \/ ((Interrupt \/ Exited) /\ Elsewhere) \/ UNCHANGED allVars
    BY <1>4 DEF Elsewhere, allVars, edgeRun
<1> QED BY <1>1, <1>2, <1>3, <1>4 DEF DiscoveryNext, RunStep

\* What jobs come first by.
NamesInv ==
    /\ Typed /\ AllGone /\ Course /\ EP!IInv /\ EdgeRunTyped
    /\ OutputTyped /\ Named /\ JobsComeFirst

LEMMA InitNames == DiscoveryInit => NamesInv
<1> SUFFICES ASSUME DiscoveryInit PROVE NamesInv
    OBVIOUS
<1>1. Init /\ E!Init /\ wantEdges = TRUE /\ edgeStore = FALSE /\ budget = EdgeQueriesPerPass
      /\ stdout = <<>>
    BY DEF DiscoveryInit
<1>2. Typed /\ AllGone /\ Course
    BY <1>1, InitTyped, InitOnCourse DEF Init, AllGone, Course
<1>3. EP!IInv
    BY <1>1, EdgesAssumed, InitOfEdges, EP!InitEstablishes
<1>4. EdgeRunTyped /\ OutputTyped
    <2>1. EdgeQueriesPerPass \in Nat \ {0}
        BY DiscoveryAssumption
    <2>2. EdgeRunTyped
        <3>1. wantEdges \in BOOLEAN /\ edgeStore \in BOOLEAN
            BY <1>1
        <3>2. budget \in 0..EdgeQueriesPerPass
            BY <1>1, <2>1
        <3> QED BY <3>1, <3>2 DEF EdgeRunTyped
    <2>3. OutputTyped
        BY <1>1 DEF OutputTyped
    <2> QED BY <2>2, <2>3
<1>5. Named
    BY <1>1 DEF E!Init, Named, E!Registered, E!Range
<1>6. JobsComeFirst
    BY <1>1 DEF JobsComeFirst, DependencyAt
<1> QED BY <1>2, <1>3, <1>4, <1>5, <1>6 DEF NamesInv

LEMMA StepKeepsNames == NamesInv /\ [DiscoveryNext]_allVars => NamesInv'
<1> SUFFICES ASSUME NamesInv, [DiscoveryNext]_allVars PROVE NamesInv'
    OBVIOUS
<1> USE DEF NamesInv
<1>1. Typed' /\ AllGone' /\ Course' /\ EdgeRunTyped'
    BY RunKeepsTyped, RunLeavesNone, StepKeepsCourse, StepKeepsEdgeRun
<1>2. EP!IInv'
    BY StepOfEdges, EdgesKept
<1>3. OutputTyped' /\ Named' /\ JobsComeFirst'
    BY StepKeepsOutput, StepNames, StepKeepsJobsFirst
<1> QED BY <1>1, <1>2, <1>3

\* The types of a whole run, and that of each line.
LEMMA NamesAreTyped == NamesInv => DiscoveryTypeOK
<1> SUFFICES ASSUME NamesInv PROVE DiscoveryTypeOK
    OBVIOUS
<1>1. TypeOK /\ E!TypeOK
    BY TypedIsTypeOK, EdgesKnown DEF NamesInv
<1>2. ASSUME NEW i \in DOMAIN stdout, stdout[i].type # "done"
      PROVE  stdout[i].path \in AttrPath
    <2>1. stdout[i] \in OutLine
        BY DEF NamesInv, OutputTyped
    <2> QED BY <1>2, <2>1, LineFields
<1> QED BY <1>1, <1>2 DEF NamesInv, EdgeRunTyped, DiscoveryTypeOK

-----------------------------------------------------------------------------
(* The edges on stdout *)

\* An edge has been written if some dependency line has it.
LEMMA EdgeWritten ==
    \A e : e \in EdgesWritten <=>
        \E i \in DOMAIN stdout : /\ stdout[i].type = "dependency"
                                 /\ \E b \in stdout[i].on : e = <<stdout[i].path, b>>
BY DEF EdgesWritten, DependencyAt

LEMMA StepWrites ==
    ASSUME Typed, AllGone, Course, EP!IInv, OutputTyped, [DiscoveryNext]_allVars
    PROVE  /\ EdgesWritten \subseteq EdgesWritten'
           /\ EdgesWritten' \subseteq EdgesWritten \cup edges
           /\ ReturnCall \/ CallCutOff \/ EdgesWritten' = EdgesWritten
           /\ ReturnCall => EdgesWritten' = EdgesWritten \cup edges
<1>1. PICK said \in Seq(OutLine) :
          /\ stdout' = stdout \o said
          /\ \A i \in DOMAIN said :
                said[i].type = "dependency" =>
                    /\ ReturnCall \/ CallCutOff
                    /\ \A b \in said[i].on : <<said[i].path, b>> \in edges
          /\ ReturnCall => \A e \in edges : \E i \in DOMAIN said :
                 said[i].type = "dependency" /\ said[i].path = e[1] /\ e[2] \in said[i].on
    BY StepSays
<1>2. /\ \A i \in DOMAIN stdout : i \in DOMAIN stdout' /\ stdout'[i] = stdout[i]
      /\ \A i \in DOMAIN said : /\ Len(stdout) + i \in DOMAIN stdout'
                                /\ stdout'[Len(stdout) + i] = said[i]
      /\ \A j \in DOMAIN stdout' :
            j \in DOMAIN stdout \/ \E i \in DOMAIN said : j = Len(stdout) + i
    BY <1>1, LinesBehind
<1>3. \A e : e \in EdgesWritten' <=>
          \E i \in DOMAIN stdout' : /\ stdout'[i].type = "dependency"
                                    /\ \E b \in stdout'[i].on : e = <<stdout'[i].path, b>>
    BY DEF EdgesWritten, DependencyAt
<1>4. EdgesWritten \subseteq EdgesWritten'
    <2> SUFFICES ASSUME NEW e \in EdgesWritten PROVE e \in EdgesWritten'
        OBVIOUS
    <2>1. PICK i \in DOMAIN stdout : /\ stdout[i].type = "dependency"
                                     /\ \E b \in stdout[i].on : e = <<stdout[i].path, b>>
        BY EdgeWritten
    <2>2. i \in DOMAIN stdout' /\ stdout'[i] = stdout[i]
        BY <1>2
    <2> QED BY <1>3, <2>1, <2>2
<1>5. ASSUME NEW e \in EdgesWritten', e \notin EdgesWritten
      PROVE  e \in edges /\ (ReturnCall \/ CallCutOff)
    <2>1. PICK k \in DOMAIN stdout' : /\ stdout'[k].type = "dependency"
                                      /\ \E b \in stdout'[k].on : e = <<stdout'[k].path, b>>
        BY <1>3
    <2>2. k \notin DOMAIN stdout
        BY <1>2, <1>5, <2>1, EdgeWritten
    <2>3. PICK i \in DOMAIN said : k = Len(stdout) + i
        BY <1>2, <2>2
    <2>4. stdout'[k] = said[i]
        BY <1>2, <2>3
    <2> QED BY <1>1, <2>1, <2>4
<1>6. ASSUME ReturnCall, NEW e \in edges
      PROVE  e \in EdgesWritten'
    <2>1. PICK i \in DOMAIN said :
              said[i].type = "dependency" /\ said[i].path = e[1] /\ e[2] \in said[i].on
        BY <1>1, <1>6
    <2>2. e = <<e[1], e[2]>>
        BY FewEdges
    <2>3. PICK k \in DOMAIN stdout' : stdout'[k] = said[i]
        BY <1>2
    <2> QED BY <1>3, <2>1, <2>2, <2>3
<1> QED BY <1>4, <1>5, <1>6

\* The edges of a call are returned once.
LEMMA StepReports ==
    ASSUME [DiscoveryNext]_allVars
    PROVE  \/ ReturnCall /\ reported' = reported \cup edges
           \/ ~ReturnCall /\ reported' = reported
<1>1. CASE ReturnCall
    BY <1>1 DEF ReturnCall, E!Return
<1>2. ASSUME AskStore \/ AnswerQuery \/ RunCall
      PROVE  reported' = reported
    BY <1>2 DEF AskStore, AnswerQuery, RunCall, E!NextQuery, E!ProvideReferences, E!Expand, E!NextWalk
<1>3. ASSUME LoopGoesOn \/ CallCutOff
      PROVE  reported' = reported
    BY <1>3 DEF LoopGoesOn, CallCutOff, walks
<1>4. ASSUME NEW w \in Slot, JobFound(w)
      PROVE  reported' = reported
    <2>1. UNCHANGED walks \/ E!AddAlias(Message(w).path) \/ E!AddOutput(Message(w).path)
        BY <1>4 DEF JobFound, Register
    <2> QED BY <2>1 DEF walks, E!AddAlias, E!AddOutput
<1>5. ASSUME (\E w \in Slot : (ChildStep(w) \/ ChildCrash(w)) /\ Elsewhere)
                 \/ ((Interrupt \/ Exited) /\ Elsewhere) \/ UNCHANGED allVars
      PROVE  reported' = reported
    BY <1>5 DEF Elsewhere, allVars, walks
<1> QED BY <1>1, <1>2, <1>3, <1>4, <1>5 DEF DiscoveryNext, RunStep

\* The run is done only when nothing is left to do and every walk has ended,
\* and it is over then.
Finishing ==
    /\ Running => Ending
    /\ done => ~Running /\ cursor = 0 /\ ~WalksOn

\* Only the last step of the loop is done.
LEMMA OnlyLoopFinishes ==
    ASSUME [DiscoveryNext]_allVars, done' # done
    PROVE  LoopGoesOn /\ FinishDone
<1>1. CASE LoopGoesOn
    BY <1>1, LoopFinishes
<1>2. ASSUME NEW w \in Slot, JobFound(w)
      PROVE  done' = done
    BY <1>2 DEF JobFound, HandleJob, AnswerFrame
<1>3. CASE ReturnCall \/ CallCutOff
    BY <1>3 DEF ReturnCall, CallCutOff, vars, run
<1> QED BY <1>1, <1>2, <1>3, OthersSayNothing

LEMMA StepFinishing == AllGone /\ Finishing /\ [DiscoveryNext]_allVars => Finishing'
<1> SUFFICES ASSUME AllGone, Finishing, [DiscoveryNext]_allVars PROVE Finishing'
    OBVIOUS
<1>1. CASE ~Running
    <2>1. UNCHANGED <<pc, exitCode, fatal, done, todo, active, cursor, wantEdges, outputs, stack>>
        BY <1>1, NothingAfterExit DEF allVars, vars, run, queue, walks, edgeRun
    <2> QED BY <1>1, <2>1 DEF Finishing, Running, WalksOn, E!Done, E!Registered, E!Range
<1>2. CASE Running
    <2>1. Ending /\ ~done
        BY <1>2 DEF Finishing
    <2>2. Running' => Ending'
        <3>1. CASE [Next]_vars
            BY <2>1, <3>1, StepEnds
        <3>2. CASE CallCutOff
            BY <3>2 DEF CallCutOff, ExitWith, Running
        <3> QED BY <3>1, <3>2, StepOfLoop
    <2>3. ASSUME done'
          PROVE  ~Running' /\ cursor' = 0 /\ ~WalksOn'
        <3>1. LoopGoesOn /\ FinishDone
            BY <2>1, <2>3, OnlyLoopFinishes
        <3>2. cursor = 0 /\ ~WalksOn /\ UNCHANGED <<cursor, wantEdges, outputs, stack>>
            BY <3>1, LoopFinishes DEF LoopGoesOn, Busy, walks
        <3>3. WalksOn' = WalksOn
            BY <3>2 DEF WalksOn, E!Done, E!Registered, E!Range
        <3> QED BY <3>1, <3>2, <3>3 DEF FinishDone, ExitWith, Running
    <2> QED BY <2>2, <2>3 DEF Finishing
<1> QED BY <1>1, <1>2

\* What has been written is what calls have returned, but for a last call that
\* cannot be written to the end.
Recorded ==
    /\ EdgesWritten \subseteq reported \cup edges
    /\ Running \/ done => EdgesWritten = reported

LEMMA StepRecords ==
    ASSUME Typed, AllGone, Course, EP!IInv, OutputTyped, Finishing, Recorded,
           [DiscoveryNext]_allVars
    PROVE  Recorded'
<1>1. CASE ~Running
    <2>1. UNCHANGED <<pc, done, stdout, edges, reported>>
        BY <1>1, NothingAfterExit DEF allVars, vars, run, walks
    <2> QED BY <2>1 DEF Recorded, Running, EdgesWritten, DependencyAt
<1>2. CASE Running
    <2>1. EdgesWritten = reported /\ ~done
        BY <1>2 DEF Recorded, Finishing
    <2>2. CASE CallCutOff
        <3>1. ~Running' /\ ~done' /\ edges' = edges
            BY <2>1, <2>2 DEF CallCutOff, ExitWith, Running, walks
        <3>2. EdgesWritten' \subseteq EdgesWritten \cup edges /\ reported \subseteq reported'
            BY StepWrites, StepReports
        <3> QED BY <2>1, <3>1, <3>2 DEF Recorded
    <2>3. CASE ~CallCutOff
        <3>1. EdgesWritten' = reported'
            BY <2>1, <2>3, StepWrites, StepReports
        <3> QED BY <3>1 DEF Recorded
    <2> QED BY <2>2, <2>3
<1> QED BY <1>1, <1>2

\* The edges written are of walks.
LEMMA WrittenAreWalked ==
    ASSUME EP!IInv, Recorded
    PROVE  NoFalseEdges
<1> SUFFICES ASSUME NEW e \in EdgesWritten
             PROVE  e[1] # e[2] /\ DrvOf[e[2]] \in E!Reach(store, DrvOf[e[1]])
    BY DEF NoFalseEdges
<1>1. e \in reported \cup edges
    BY DEF Recorded
<1>2. e[1] # e[2] /\ e[1] \in AttrPath /\ DrvOf[e[2]] \in visited[e[1]]
    BY <1>1, EdgesKnown, SameRegistered DEF EP!IInv, EP!EdgesAreKnown
<1>3. DrvOf[e[1]] \in DrvPath
    BY <1>2, DiscoveryAssumption
<1>4. EP!Reach(references, DrvOf[e[1]]) \subseteq EP!Reach(store, DrvOf[e[1]])
    BY <1>3, EdgesAssumed, EdgesKnown, EP!ReachMonotone
<1>5. EP!Reach(store, DrvOf[e[1]]) = E!Reach(store, DrvOf[e[1]])
    BY DEF EP!Reach, E!Reach, EP!Closed, E!Closed
<1> QED BY <1>2, <1>4, <1>5 DEF EP!IInv, EP!WalksStayInClosure

-----------------------------------------------------------------------------
(* No edge is missing *)

LEMMA JobsLater ==
    ASSUME OutputTyped, NEW said \in Seq(OutLine), stdout' = stdout \o said
    PROVE  /\ \A x : FirstName(x) => FirstName(x)'
           /\ (\A i \in DOMAIN said : said[i].type # "job") =>
                  /\ JobsSaid' = JobsSaid
                  /\ \A x : FirstName(x)' => FirstName(x)
           /\ \A path \in AttrPath : said = <<JobLine(path)>> =>
                  /\ JobsSaid' = JobsSaid \cup {path}
                  /\ \A x : FirstName(x)' <=>
                         FirstName(x) \/ /\ x = path
                                         /\ \A other \in JobsSaid : DrvOf[other] # DrvOf[path]
<1>1. /\ Len(stdout) \in Nat /\ DOMAIN stdout = 1..Len(stdout)
      /\ \A i \in DOMAIN stdout : /\ i \in DOMAIN stdout' /\ stdout'[i] = stdout[i]
                                  /\ JobsBefore(i)' = JobsBefore(i)
      /\ \A i \in DOMAIN said : /\ i \in Nat \ {0} /\ Len(stdout) + i \in DOMAIN stdout'
                                /\ stdout'[Len(stdout) + i] = said[i]
      /\ \A j \in DOMAIN stdout' :
            j \in DOMAIN stdout \/ \E i \in DOMAIN said : j = Len(stdout) + i
    BY LinesBehind, JobsSaidStay
<1>2a. JobsSaid \subseteq JobsSaid'
    BY JobsSaidStay
<1>2. \A x : /\ FirstName(x) <=>
                   \E i \in DOMAIN stdout : /\ stdout[i] = JobLine(x)
                                            /\ \A other \in JobsBefore(i) : DrvOf[other] # DrvOf[x]
             /\ FirstName(x)' <=>
                   \E i \in DOMAIN stdout' : /\ stdout'[i] = JobLine(x)
                                             /\ \A other \in JobsBefore(i)' : DrvOf[other] # DrvOf[x]
    BY DEF FirstName
<1>3. \A x : FirstName(x) => FirstName(x)'
    BY <1>1, <1>2
<1>4. \A x : /\ x \in JobsSaid <=> \E i \in DOMAIN stdout : stdout[i].type = "job" /\ stdout[i].path = x
             /\ x \in JobsSaid' <=> \E i \in DOMAIN stdout' : stdout'[i].type = "job" /\ stdout'[i].path = x
    BY DEF JobsSaid
<1>5. ASSUME \A i \in DOMAIN said : said[i].type # "job"
      PROVE  JobsSaid' = JobsSaid /\ \A x : FirstName(x)' => FirstName(x)
    <2>1. \A j \in DOMAIN stdout' : j \in DOMAIN stdout \/ stdout'[j].type # "job"
        BY <1>1, <1>5
    <2>2. \A x : JobLine(x).type = "job"
        BY DEF JobLine
    <2>3. JobsSaid' = JobsSaid
        <3>1. JobsSaid \subseteq JobsSaid'
            BY <1>2a
        <3>2. ASSUME NEW x \in JobsSaid'
              PROVE  x \in JobsSaid
            <4>1. PICK i \in DOMAIN stdout' : stdout'[i].type = "job" /\ stdout'[i].path = x
                BY <1>4
            <4>2. i \in DOMAIN stdout /\ stdout'[i] = stdout[i]
                BY <1>1, <2>1, <4>1
            <4> QED BY <1>4, <4>1, <4>2
        <3> QED BY <3>1, <3>2
    <2>4. ASSUME NEW x, FirstName(x)'
          PROVE  FirstName(x)
        <3>1. PICK i \in DOMAIN stdout' : /\ stdout'[i] = JobLine(x)
                                          /\ \A other \in JobsBefore(i)' : DrvOf[other] # DrvOf[x]
            BY <1>2, <2>4
        <3>2. i \in DOMAIN stdout
            BY <2>1, <2>2, <3>1
        <3> QED BY <1>1, <1>2, <3>1, <3>2
    <2> QED BY <2>3, <2>4
<1>6. ASSUME NEW path \in AttrPath, said = <<JobLine(path)>>
      PROVE  /\ JobsSaid' = JobsSaid \cup {path}
             /\ \A x : FirstName(x)' <=>
                    FirstName(x) \/ /\ x = path
                                    /\ \A other \in JobsSaid : DrvOf[other] # DrvOf[path]
    <2>1. DOMAIN said = {1} /\ said[1] = JobLine(path)
        BY <1>6
    <2>a. PICK k \in Nat : k = Len(stdout) + 1
        BY <1>1
    <2>2. /\ k \in DOMAIN stdout' /\ k \notin DOMAIN stdout /\ stdout'[k] = JobLine(path)
          /\ \A j \in DOMAIN stdout' : j \in DOMAIN stdout \/ j = k
        BY <1>1, <2>1, <2>a
    <2>3. JobLine(path).type = "job" /\ \A x : JobLine(x).path = x
        BY DEF JobLine
    <2>4. JobsBefore(k)' = JobsSaid
        <3>1. 1..(k - 1) = DOMAIN stdout
            BY <1>1, <2>a
        <3>2. \A j \in DOMAIN stdout : stdout'[j] = stdout[j]
            BY <1>1
        <3> QED BY <3>1, <3>2 DEF JobsBefore, JobsSaid
    <2>5. JobsSaid' = JobsSaid \cup {path}
        <3>1. JobsSaid \subseteq JobsSaid' /\ path \in JobsSaid'
            BY <1>2a, <1>4, <2>2, <2>3
        <3>2. ASSUME NEW x \in JobsSaid'
              PROVE  x \in JobsSaid \cup {path}
            <4>1. PICK i \in DOMAIN stdout' : stdout'[i].type = "job" /\ stdout'[i].path = x
                BY <1>4
            <4>2. CASE i \in DOMAIN stdout
                BY <1>1, <1>4, <4>1, <4>2
            <4>3. CASE i = k
                BY <2>2, <2>3, <4>1, <4>3
            <4> QED BY <2>2, <4>2, <4>3
        <3> QED BY <3>1, <3>2
    <2>6. ASSUME NEW x, FirstName(x)', ~FirstName(x)
          PROVE  x = path /\ \A other \in JobsSaid : DrvOf[other] # DrvOf[path]
        <3>1. PICK i \in DOMAIN stdout' : /\ stdout'[i] = JobLine(x)
                                          /\ \A other \in JobsBefore(i)' : DrvOf[other] # DrvOf[x]
            BY <1>2, <2>6
        <3>2. i = k
            BY <1>1, <1>2, <2>2, <2>6, <3>1
        <3>3. x = path
            BY <2>2, <2>3, <3>1, <3>2
        <3> QED BY <2>4, <3>1, <3>2, <3>3
    <2>7. ASSUME \A other \in JobsSaid : DrvOf[other] # DrvOf[path]
          PROVE  FirstName(path)'
        BY <1>2, <2>2, <2>4, <2>7
    <2> QED BY <1>3, <2>5, <2>6, <2>7
<1> QED BY <1>3, <1>5, <1>6

\* As long as edges are wanted EdgeDiscovery hears of every job, and walks the
\* first of each derivation.
FirstNames ==
    wantEdges =>
        /\ JobsSaid \subseteq added
        /\ \A a \in added : outputOf[DrvOf[a]] # NoOutput
        /\ \A a \in AttrPath : FirstName(a) <=> a \in E!Registered

\* Edges are not wanted again once the store could not be opened.
LEMMA StepWants ==
    ASSUME EdgeRunTyped, [DiscoveryNext]_allVars
    PROVE  wantEdges' => wantEdges
<1>1. CASE AskStore \/ AnswerQuery \/ RunCall \/ ReturnCall
    BY <1>1 DEF AskStore, AnswerQuery, RunCall, ReturnCall, edgeRun
<1>2. CASE LoopGoesOn \/ CallCutOff
    BY <1>2 DEF LoopGoesOn, CallCutOff, edgeRun
<1>3. CASE \E w \in Slot : JobFound(w)
    BY <1>3 DEF JobFound, edgeRun
<1>4. CASE (\E w \in Slot : (ChildStep(w) \/ ChildCrash(w)) /\ Elsewhere)
             \/ ((Interrupt \/ Exited) /\ Elsewhere) \/ UNCHANGED allVars
    BY <1>4 DEF Elsewhere, allVars, edgeRun
<1> QED BY <1>1, <1>2, <1>3, <1>4 DEF DiscoveryNext, RunStep, EdgeRunTyped

LEMMA StepFirstNames ==
    ASSUME Typed, AllGone, Course, EP!IInv, EdgeRunTyped, OutputTyped, Named, FirstNames,
           [DiscoveryNext]_allVars
    PROVE  FirstNames'
<1> SUFFICES ASSUME wantEdges'
             PROVE  /\ JobsSaid' \subseteq added'
                    /\ \A a \in added' : outputOf'[DrvOf[a]] # NoOutput
                    /\ \A a \in AttrPath : FirstName(a)' <=> a \in E!Registered'
    BY DEF FirstNames
<1>1. /\ wantEdges /\ JobsSaid \subseteq added
      /\ \A a \in added : outputOf[DrvOf[a]] # NoOutput
      /\ \A a \in AttrPath : FirstName(a) <=> a \in E!Registered
    BY StepWants DEF FirstNames
<1>2. PICK said \in Seq(OutLine) :
          /\ stdout' = stdout \o said
          /\ \A i \in DOMAIN said : said[i].type = "job" => \E w \in Slot : JobFound(w)
          /\ \A w \in Slot : JobFound(w) => said = <<JobLine(Message(w).path)>>
    BY StepSays
<1>3. CASE \A w \in Slot : ~JobFound(w)
    <2>1. UNCHANGED <<added, outputs, outputOf>>
        BY <1>3, StepAdds
    <2>2. \A i \in DOMAIN said : said[i].type # "job"
        BY <1>2, <1>3
    <2>3. JobsSaid' = JobsSaid /\ \A x : FirstName(x)' <=> FirstName(x)
        BY <1>2, <2>2, JobsLater
    <2>4. E!Registered' = E!Registered
        BY <2>1 DEF E!Registered, E!Range
    <2> QED BY <1>1, <2>1, <2>3, <2>4
<1>4. ASSUME NEW w \in Slot, JobFound(w)
      PROVE  /\ JobsSaid' \subseteq added'
             /\ \A a \in added' : outputOf'[DrvOf[a]] # NoOutput
             /\ \A a \in AttrPath : FirstName(a)' <=> a \in E!Registered'
    <2>1. PICK path \in AttrPath : path = Message(w).path
        BY <1>4, JobSays
    <2>2. Register(path)
        BY <1>1, <1>4, <2>1, JobSays
    <2>3. /\ JobsSaid' = JobsSaid \cup {path}
          /\ \A x : FirstName(x)' <=>
                 FirstName(x) \/ /\ x = path
                                 /\ \A other \in JobsSaid : DrvOf[other] # DrvOf[path]
        BY <1>2, <1>4, <2>1, JobsLater
    <2>4. E!Registered \subseteq added /\ added = JobsSaid
        BY <1>1 DEF Named
    <2>5. CASE path \in added
        <3>1. UNCHANGED walks
            BY <2>2, <2>5 DEF Register
        <3>2. UNCHANGED <<added, outputOf>> /\ E!Registered' = E!Registered
            BY <3>1 DEF walks, E!Registered, E!Range
        <3>3. \A x : FirstName(x)' <=> FirstName(x)
            BY <2>3, <2>4, <2>5
        <3> QED BY <1>1, <2>3, <2>5, <3>2, <3>3
    <2>6. CASE path \notin added
        <3>1. E!AddAlias(path) \/ E!AddOutput(path)
            BY <2>2, <2>6 DEF Register
        <3>2. added' = added \cup {path}
            BY <3>1 DEF E!AddAlias, E!AddOutput
        <3>3. /\ DrvOf[path] \in DrvPath /\ NoOutput \notin AttrPath
              /\ outputOf \in [DrvPath -> AttrPath \cup {NoOutput}]
            BY EdgesKnown, DiscoveryAssumption DEF E!TypeOK
        <3>4. CASE E!IsAlias(path) /\ UNCHANGED outputOf /\ E!Registered' = E!Registered
            <4>1. PICK q \in AttrPath : q = outputOf[DrvOf[path]]
                BY <3>3, <3>4 DEF E!IsAlias
            <4>2. DrvOf[q] = DrvOf[path]
                BY <3>3, <3>4, <4>1 DEF E!IsAlias, EP!IInv, EP!NamesAgree
            <4>3. q \in EP!Registered
                BY <4>1, <4>2 DEF EP!IInv, EP!NamesAgree
            <4>4. q \in JobsSaid
                BY <2>4, <4>3, SameRegistered
            <4>5. \A x : FirstName(x)' <=> FirstName(x)
                BY <2>3, <4>2, <4>4
            <4> QED BY <1>1, <2>3, <3>2, <3>4, <4>5 DEF E!IsAlias
        <3>5. CASE /\ ~E!IsAlias(path) /\ E!Registered' = E!Registered \cup {path}
                   /\ outputOf' = [outputOf EXCEPT ![DrvOf[path]] = path]
            <4>1. \A other \in JobsSaid : DrvOf[other] # DrvOf[path]
                BY <1>1, <2>4, <3>5 DEF E!IsAlias
            <4>2. \A x : FirstName(x)' <=> FirstName(x) \/ x = path
                BY <2>3, <4>1
            <4>3. ASSUME NEW a \in added'
                  PROVE  outputOf'[DrvOf[a]] # NoOutput
                <5>1. CASE a = path
                    BY <3>3, <3>5, <5>1
                <5>2. CASE a # path
                    <6>1. a \in added
                        BY <3>2, <4>3, <5>2
                    <6>2. outputOf[DrvOf[a]] # NoOutput /\ DrvOf[a] # DrvOf[path]
                        BY <1>1, <3>5, <6>1 DEF E!IsAlias
                    <6>3. a \in AttrPath
                        BY <6>1, EdgesKnown DEF E!TypeOK
                    <6>4. DrvOf[a] \in DrvPath
                        BY <6>3, DiscoveryAssumption
                    <6> QED BY <3>3, <3>5, <6>2, <6>4
                <5> QED BY <5>1, <5>2
            <4> QED BY <1>1, <2>3, <3>2, <3>5, <4>2, <4>3
        <3> QED BY <3>1, <3>4, <3>5, Registering
    <2> QED BY <2>5, <2>6
<1> QED BY <1>3, <1>4

\* A store that answers says what its references are.
TrueAnswers == ~QueriesMayFail => \A p \in answered : references[p] = store[p]

LEMMA StepAnswers ==
    ASSUME EP!IInv, TrueAnswers, [E!Next]_walks
    PROVE  TrueAnswers'
<1>1. CASE UNCHANGED <<answered, references, store>>
    BY <1>1 DEF TrueAnswers
<1>2. ASSUME NEW p \in DrvPath, NEW refs \in E!Answers(p), E!ProvideReferences(p, refs)
      PROVE  TrueAnswers'
    <2>1. /\ answered' = answered \cup {p} /\ UNCHANGED store
          /\ references' = [references EXCEPT ![p] = refs]
          /\ references \in [DrvPath -> SUBSET DrvPath] /\ answered \subseteq DrvPath
        BY <1>2, EdgesKnown DEF E!ProvideReferences, E!TypeOK
    <2>2. ~QueriesMayFail => refs = store[p]
        BY DEF E!Answers
    <2> QED BY <2>1, <2>2 DEF TrueAnswers
<1>3. ASSUME NEW a \in AttrPath, E!AddAlias(a) \/ E!AddOutput(a)
      PROVE  UNCHANGED <<answered, references, store>>
    BY <1>3 DEF E!AddAlias, E!AddOutput
<1>4. CASE E!Expand \/ E!NextWalk \/ E!Return \/ E!NextQuery \/ UNCHANGED walks
    BY <1>1, <1>4 DEF E!Expand, E!NextWalk, E!Return, E!NextQuery, walks
<1> QED BY <1>1, <1>2, <1>3, <1>4 DEF E!Next

\* A walk that has run dry over true answers has seen the whole closure.
LEMMA DryWalkIsClosure ==
    ASSUME EP!IInv, TrueAnswers, ~QueriesMayFail, NEW a \in E!Registered, stack[a] = <<>>
    PROVE  visited[a] = E!Reach(store, DrvOf[a])
<1>1. a \in AttrPath /\ a \in EP!Registered
    BY EdgesKnown, SameRegistered
<1>2. DrvOf[a] \in DrvPath
    BY <1>1, DiscoveryAssumption
<1>3. visited[a] = EP!Reach(references, DrvOf[a]) /\ visited[a] \subseteq answered
    BY <1>1, EdgesAssumed, EP!DryWalk
<1>4. EP!Reach(references, DrvOf[a]) \subseteq EP!Reach(store, DrvOf[a])
    BY <1>2, EdgesAssumed, EdgesKnown, EP!ReachMonotone
<1>5. EP!Reach(store, DrvOf[a]) \subseteq visited[a]
    <2>1. EP!Range(stack[a]) = {}
        BY DEF EP!Range
    <2>2. \A p \in visited[a] : references[p] \subseteq visited[a]
        BY <1>1, <2>1 DEF EP!IInv, EP!WalksExpandAll
    <2>3. EP!Closed(store, visited[a])
        BY <1>3, <2>2 DEF TrueAnswers, EP!Closed
    <2>4. DrvOf[a] \in visited[a] /\ visited[a] \in SUBSET DrvPath
        BY <1>1 DEF EP!IInv, EP!TypeOK, EP!WalksAreRooted
    <2> QED BY <1>2, <2>3, <2>4, EdgesAssumed, EP!ReachLeast
<1>6. EP!Reach(store, DrvOf[a]) = E!Reach(store, DrvOf[a])
    BY DEF EP!Reach, E!Reach, EP!Closed, E!Closed
<1>7. visited[a] = EP!Reach(store, DrvOf[a])
    BY <1>3, <1>4, <1>5
<1> QED BY <1>6, <1>7

\* In a finished stream an edge is one that a walk has found.
LEMMA FinishedWalks ==
    ASSUME EP!IInv, Recorded, Finishing, FirstNames, done, wantEdges,
           NEW a \in {p \in AttrPath : FirstName(p)},
           NEW b \in {p \in AttrPath : FirstName(p)}
    PROVE  /\ a \in E!Registered /\ stack[a] = <<>>
           /\ <<a, b>> \in EdgesWritten <=> a # b /\ DrvOf[b] \in visited[a]
<1>1. a \in E!Registered /\ b \in E!Registered
    BY DEF FirstNames
<1>2. cursor = 0 /\ E!Done
    BY DEF Finishing, WalksOn
<1>3. EdgesWritten = reported /\ edges = {}
    BY <1>2, EdgesKnown DEF Recorded, E!idle
<1>4. <<a, b>> \in reported <=> a # b /\ DrvOf[b] \in visited[a]
    BY <1>1, <1>3, SameRegistered DEF EP!IInv, EP!EdgesAreKnown
<1> QED BY <1>1, <1>2, <1>3, <1>4 DEF E!Done

LEMMA NoEdgeIsMissing ==
    ASSUME EP!IInv, Recorded, Finishing, FirstNames, TrueAnswers, ~QueriesMayFail
    PROVE  DoneMeansAllEdges
<1> SUFFICES ASSUME done, wantEdges,
                    NEW a \in {p \in AttrPath : FirstName(p)},
                    NEW b \in {p \in AttrPath : FirstName(p)}
             PROVE  <<a, b>> \in EdgesWritten <=>
                        a # b /\ DrvOf[b] \in E!Reach(store, DrvOf[a])
    BY DEF DoneMeansAllEdges
<1>1. /\ a \in E!Registered /\ stack[a] = <<>>
      /\ <<a, b>> \in EdgesWritten <=> a # b /\ DrvOf[b] \in visited[a]
    BY FinishedWalks
<1>2. visited[a] = E!Reach(store, DrvOf[a])
    BY <1>1, DryWalkIsClosure
<1> QED BY <1>1, <1>2

\* The edges of a finished stream are those of what the store has answered; a
\* path it could not tell about counts as one without references.
EdgesAreAsAnswered ==
    done /\ wantEdges =>
        \A a, b \in {p \in AttrPath : FirstName(p)} :
            <<a, b>> \in EdgesWritten <=>
                a # b /\ DrvOf[b] \in E!Reach(references, DrvOf[a])

LEMMA AnswersDecide ==
    ASSUME EP!IInv, Recorded, Finishing, FirstNames
    PROVE  EdgesAreAsAnswered
<1> SUFFICES ASSUME done, wantEdges,
                    NEW a \in {p \in AttrPath : FirstName(p)},
                    NEW b \in {p \in AttrPath : FirstName(p)}
             PROVE  <<a, b>> \in EdgesWritten <=>
                        a # b /\ DrvOf[b] \in E!Reach(references, DrvOf[a])
    BY DEF EdgesAreAsAnswered
<1>1. /\ a \in E!Registered /\ stack[a] = <<>>
      /\ <<a, b>> \in EdgesWritten <=> a # b /\ DrvOf[b] \in visited[a]
    BY FinishedWalks
<1>2. visited[a] = EP!Reach(references, DrvOf[a])
    BY <1>1, EdgesAssumed, SameRegistered, EP!DryWalk
<1>3. EP!Reach(references, DrvOf[a]) = E!Reach(references, DrvOf[a])
    BY DEF EP!Reach, E!Reach, EP!Closed, E!Closed
<1> QED BY <1>1, <1>2, <1>3

-----------------------------------------------------------------------------
(* Nothing twice *)

\* What NothingTwice asks of two lines, the first of which comes before.
Compatible(first, second) ==
    /\ first.type # "done"
    /\ first.type \in {"job", "error"} /\ second.type \in {"job", "error"} =>
           first.path # second.path
    /\ first.type = "dependency" /\ second.type = "dependency" /\ first.path = second.path =>
           first.on \cap second.on = {}

LEMMA TwiceByLines ==
    /\ NothingTwice <=>
           \A i, j \in DOMAIN stdout : i < j => Compatible(stdout[i], stdout[j])
    /\ NothingTwice' <=>
           \A i, j \in DOMAIN stdout' : i < j => Compatible(stdout'[i], stdout'[j])
<1>1. NothingTwice <=>
           \A i, j \in DOMAIN stdout : i < j => Compatible(stdout[i], stdout[j])
    BY DEF NothingTwice, Compatible, DependencyAt
<1>2. NothingTwice' <=>
           \A i, j \in DOMAIN stdout' : i < j => Compatible(stdout'[i], stdout'[j])
    BY DEF NothingTwice, Compatible, DependencyAt
<1> QED BY <1>1, <1>2

\* The attributes that have had their job or error line.
ToldPaths == {stdout[i].path : i \in {k \in DOMAIN stdout : stdout[k].type \in {"job", "error"}}}

DoneSaid == \E i \in DOMAIN stdout : stdout[i].type = "done"

\* A line that says something new.
LEMMA OneMoreLine ==
    ASSUME OutputTyped, NothingTwice, ~DoneSaid, NEW l \in OutLine, l.type # "dependency",
           l.type \in {"job", "error"} => l.path \notin ToldPaths, stdout' = stdout \o <<l>>
    PROVE  /\ NothingTwice'
           /\ ToldPaths' \subseteq ToldPaths \cup (IF l.type = "done" THEN {} ELSE {l.path})
           /\ DoneSaid' <=> l.type = "done"
<1>1. <<l>> \in Seq(OutLine) /\ DOMAIN <<l>> = {1} /\ <<l>>[1] = l
    OBVIOUS
<1>2. /\ Len(stdout) \in Nat /\ DOMAIN stdout = 1..Len(stdout)
      /\ \A i \in DOMAIN stdout : i \in DOMAIN stdout' /\ stdout'[i] = stdout[i]
      /\ Len(stdout) + 1 \in DOMAIN stdout' /\ stdout'[Len(stdout) + 1] = l
      /\ \A j \in DOMAIN stdout' : j \in DOMAIN stdout \/ j = Len(stdout) + 1
    BY <1>1, LinesBehind
<1>3. ASSUME NEW i \in DOMAIN stdout', NEW j \in DOMAIN stdout', i < j
      PROVE  Compatible(stdout'[i], stdout'[j])
    <2>1. i \in DOMAIN stdout
        BY <1>2, <1>3
    <2>2. CASE j \in DOMAIN stdout
        BY <1>2, <1>3, <2>1, <2>2, TwiceByLines
    <2>3. CASE j \notin DOMAIN stdout
        <3>1. stdout'[i] = stdout[i] /\ stdout'[j] = l
            BY <1>2, <2>1, <2>3
        <3>2. stdout[i].type # "done"
            BY <2>1 DEF DoneSaid
        <3>3. stdout[i].type \in {"job", "error"} => stdout[i].path \in ToldPaths
            BY <2>1 DEF ToldPaths
        <3> QED BY <3>1, <3>2, <3>3 DEF Compatible
    <2> QED BY <2>2, <2>3
<1>4. ToldPaths' \subseteq ToldPaths \cup (IF l.type = "done" THEN {} ELSE {l.path})
    <2> SUFFICES ASSUME NEW i \in DOMAIN stdout', stdout'[i].type \in {"job", "error"}
                 PROVE  stdout'[i].path \in ToldPaths \cup (IF l.type = "done" THEN {} ELSE {l.path})
        BY DEF ToldPaths
    <2>1. CASE i \in DOMAIN stdout
        BY <1>2, <2>1 DEF ToldPaths
    <2>2. CASE i \notin DOMAIN stdout
        BY <1>2, <2>2
    <2> QED BY <2>1, <2>2
<1>5. DoneSaid' <=> l.type = "done"
    BY <1>2 DEF DoneSaid
<1>6. NothingTwice'
    BY <1>3, TwiceByLines
<1> QED BY <1>4, <1>5, <1>6

\* Edges that have not been written.
LEMMA MoreEdges ==
    ASSUME OutputTyped, NothingTwice, ~DoneSaid, edges \cap EdgesWritten = {},
           NEW said \in Seq(OutLine), stdout' = stdout \o said,
           \A i \in DOMAIN said :
               /\ said[i].type = "dependency"
               /\ \A b \in said[i].on : <<said[i].path, b>> \in edges
               /\ \A j \in DOMAIN said : said[i].path = said[j].path => i = j
    PROVE  NothingTwice' /\ ToldPaths' = ToldPaths /\ ~DoneSaid'
<1>1. /\ Len(stdout) \in Nat /\ DOMAIN stdout = 1..Len(stdout)
      /\ \A i \in DOMAIN stdout : i \in DOMAIN stdout' /\ stdout'[i] = stdout[i]
      /\ \A i \in DOMAIN said : /\ i \in Nat \ {0} /\ Len(stdout) + i \in DOMAIN stdout'
                                /\ stdout'[Len(stdout) + i] = said[i]
      /\ \A j \in DOMAIN stdout' :
            j \in DOMAIN stdout \/ \E i \in DOMAIN said : j = Len(stdout) + i
    BY LinesBehind
<1>2. ASSUME NEW i \in DOMAIN stdout', NEW j \in DOMAIN stdout', i < j
      PROVE  Compatible(stdout'[i], stdout'[j])
    <2>1. CASE j \in DOMAIN stdout
        <3>1. i \in DOMAIN stdout
            BY <1>1, <1>2, <2>1
        <3> QED BY <1>1, <1>2, <2>1, <3>1, TwiceByLines
    <2>2. CASE j \notin DOMAIN stdout
        <3>1. PICK m \in DOMAIN said : j = Len(stdout) + m
            BY <1>1, <2>2
        <3>2. stdout'[j] = said[m] /\ said[m].type = "dependency"
            BY <1>1, <3>1
        <3>3. CASE i \in DOMAIN stdout
            <4>1. stdout'[i] = stdout[i] /\ stdout[i].type # "done"
                BY <1>1, <3>3 DEF DoneSaid
            <4>2. ASSUME stdout[i].type = "dependency", stdout[i].path = said[m].path,
                         NEW b \in stdout[i].on, b \in said[m].on
                  PROVE  FALSE
                <5>1. <<stdout[i].path, b>> \in EdgesWritten
                    BY <3>3, <4>2, EdgeWritten
                <5> QED BY <4>2, <5>1
            <4> QED BY <3>2, <4>1, <4>2 DEF Compatible
        <3>4. CASE i \notin DOMAIN stdout
            <4>1. PICK n \in DOMAIN said : i = Len(stdout) + n
                BY <1>1, <3>4
            <4>2. stdout'[i] = said[n] /\ said[n].type = "dependency"
                BY <1>1, <4>1
            <4>3. n # m
                BY <1>1, <1>2, <3>1, <4>1
            <4>4. said[n].path # said[m].path
                BY <4>3
            <4> QED BY <3>2, <4>2, <4>4 DEF Compatible
        <3> QED BY <3>3, <3>4
    <2> QED BY <2>1, <2>2
<1>3. \A j \in DOMAIN stdout' : j \in DOMAIN stdout \/ stdout'[j].type = "dependency"
    BY <1>1
<1>4. ToldPaths' = ToldPaths
    <2>1. ToldPaths \subseteq ToldPaths'
        BY <1>1 DEF ToldPaths
    <2>2. ToldPaths' \subseteq ToldPaths
        <3> SUFFICES ASSUME NEW i \in DOMAIN stdout', stdout'[i].type \in {"job", "error"}
                     PROVE  stdout'[i].path \in ToldPaths
            BY DEF ToldPaths
        <3>1. i \in DOMAIN stdout /\ stdout'[i] = stdout[i]
            BY <1>1, <1>3
        <3> QED BY <3>1 DEF ToldPaths
    <2> QED BY <2>1, <2>2
<1>5. ~DoneSaid'
    BY <1>1, <1>3 DEF DoneSaid
<1>6. NothingTwice'
    BY <1>2, TwiceByLines
<1> QED BY <1>4, <1>5, <1>6

\* A verdict once given stays.
LEMMA VerdictStays ==
    ASSUME WalkInv, Running, [DiscoveryNext]_allVars, NEW path \in AttrPath,
           verdict[path] # "none"
    PROVE  verdict'[path] = verdict[path]
<1>1. CASE CallCutOff
    BY <1>1 DEF CallCutOff, queue
<1>2. CASE [Next]_vars
    <2>1. CASE verdict' = verdict
        BY <2>1
    <2>2. ASSUME NEW w \in Slot, Holds(w),
                 \A p \in AttrPath : p # currentJob[w].path => verdict'[p] = verdict[p]
          PROVE  verdict'[path] = verdict[path]
        <3>1. currentJob[w].path \in Held
            BY <2>2 DEF Held, Holders, Holds
        <3>2. verdict[currentJob[w].path] = "none"
            BY <3>1 DEF WalkInv, Placed
        <3> QED BY <2>2, <3>2
    <2> QED BY <1>2, <2>1, <2>2, OneVerdict DEF WalkInv
<1> QED BY <1>1, <1>2, StepOfLoop

\* A job is news.
LEMMA JobIsNews ==
    ASSUME WalkInv, NEW w \in Slot, JobFound(w)
    PROVE  verdict[Message(w).path] = "none" /\ verdict'[Message(w).path] = "job"
<1> DEFINE path == Message(w).path
           held == currentJob[w].path
<1>1. /\ path \in AttrPath /\ verdict' = [verdict EXCEPT ![path] = "job"]
      /\ verdict \in [AttrPath -> Verdict]
    BY JobSays DEF WalkInv, Typed, QueueTyped
<1>2. Settles(w)
    BY AnswerSettles DEF JobFound, WalkInv, AllOnCourse
<1>3. Holds(w) /\ verdict' = [verdict EXCEPT ![held] = Conclusion(held)]
    BY <1>2 DEF Settles, LetsGo, Conclude
<1>4. held \in Held /\ held \in AttrPath
    BY <1>3, JobTyped DEF Held, Holders, Holds, WalkInv
<1>5. verdict[held] = "none"
    BY <1>4 DEF WalkInv, Placed
<1>6. Conclusion(held) # "none"
    BY DEF Conclusion
<1> HIDE DEF path, held
<1>7. path = held
    BY <1>1, <1>3, <1>4, <1>5, <1>6
<1>8. verdict[path] = "none" /\ verdict'[path] = "job"
    BY <1>1, <1>5, <1>7
<1> QED BY <1>8 DEF path

\* Every line is about something concluded, and the last one about the run.
Once ==
    /\ NothingTwice
    /\ Running => \A path \in ToldPaths : verdict[path] # "none"
    /\ DoneSaid => done

LEMMA StepSaysOnce ==
    ASSUME NamesInv, Walking, Finishing, Recorded, Once, [DiscoveryNext]_allVars
    PROVE  Once'
<1>1. CASE ~Running
    <2>1. UNCHANGED <<stdout, pc, done>>
        BY <1>1, NothingAfterExit DEF NamesInv, allVars, vars, run
    <2>2. NothingTwice'
        BY <2>1, TwiceByLines DEF Once
    <2>3. ~Running' /\ (DoneSaid' => done')
        BY <1>1, <2>1 DEF Once, Running, DoneSaid
    <2> QED BY <2>2, <2>3 DEF Once
<1>2. CASE Running
    <2>1. /\ WalkInv /\ ~done /\ OutputTyped /\ NothingTwice /\ ~DoneSaid
          /\ \A path \in ToldPaths : path \in AttrPath /\ verdict[path] # "none"
        <3>1. WalkInv /\ ~done /\ OutputTyped /\ NothingTwice /\ ~DoneSaid
              /\ \A path \in ToldPaths : verdict[path] # "none"
            BY <1>2 DEF Walking, Finishing, NamesInv, Once
        <3>2. ToldPaths \subseteq AttrPath
            <4> SUFFICES ASSUME NEW i \in DOMAIN stdout, stdout[i].type \in {"job", "error"}
                         PROVE  stdout[i].path \in AttrPath
                BY DEF ToldPaths
            <4>1. stdout[i] \in OutLine
                BY <3>1 DEF OutputTyped
            <4> QED BY <4>1, LineFields
        <3> QED BY <3>1, <3>2
    <2>2. \A path \in ToldPaths : verdict'[path] # "none"
        BY <1>2, <2>1, VerdictStays
    <2>3. CASE UNCHANGED <<stdout, done>>
        <3>1. NothingTwice' /\ ToldPaths' = ToldPaths /\ ~DoneSaid'
            BY <2>1, <2>3, TwiceByLines DEF ToldPaths, DoneSaid
        <3> QED BY <2>2, <3>1 DEF Once
    <2>4. ASSUME NEW l \in OutLine, l.type \in {"job", "error"}, stdout' = stdout \o <<l>>,
                 verdict[l.path] = "none", verdict'[l.path] # "none"
          PROVE  Once'
        <3>1. l.path \notin ToldPaths /\ l.type # "dependency" /\ l.type # "done"
            BY <2>1, <2>4
        <3>2. NothingTwice' /\ ToldPaths' \subseteq ToldPaths \cup {l.path} /\ ~DoneSaid'
            BY <2>1, <2>4, <3>1, OneMoreLine
        <3> QED BY <2>2, <2>4, <3>2 DEF Once
    <2>5. ASSUME NEW w \in Slot, JobFound(w)
          PROVE  Once'
        <3>1. PICK path \in AttrPath : path = Message(w).path
            BY <2>1, <2>5, JobSays DEF WalkInv
        <3>2. /\ JobLine(path) \in OutLine /\ JobLine(path).type = "job"
              /\ JobLine(path).path = path
            BY DEF OutLine, JobLine
        <3>3. stdout' = stdout \o <<JobLine(path)>>
            BY <2>1, <2>5, <3>1, JobSays DEF WalkInv
        <3>4. verdict[path] = "none" /\ verdict'[path] # "none"
            BY <2>1, <2>5, <3>1, JobIsNews
        <3> QED BY <2>4, <3>2, <3>3, <3>4
    <2>6. CASE ReturnCall \/ CallCutOff
        <3>1. PICK said \in Seq(OutLine) :
                  /\ stdout' = stdout \o said
                  /\ \A i \in DOMAIN said :
                         /\ said[i].type = "dependency"
                         /\ \A b \in said[i].on : <<said[i].path, b>> \in edges
                         /\ \A j \in DOMAIN said : said[i].path = said[j].path => i = j
            BY <2>6, CallSays DEF NamesInv
        <3>2. edges \cap EdgesWritten = {}
            BY <1>2, EdgesKnown DEF NamesInv, Recorded
        <3>3. NothingTwice' /\ ToldPaths' = ToldPaths /\ ~DoneSaid'
            BY <2>1, <3>1, <3>2, MoreEdges
        <3> QED BY <2>2, <3>3 DEF Once
    <2>7. CASE LoopGoesOn
        <3>1. Typed /\ AllOnCourse
            BY <2>1 DEF WalkInv
        <3>2. ASSUME NEW path \in AttrPath, FailedNow(path), stdout' = stdout \o <<ErrorLine(path)>>
              PROVE  Once'
            <4>1. /\ ErrorLine(path) \in OutLine /\ ErrorLine(path).type = "error"
                  /\ ErrorLine(path).path = path
                BY DEF OutLine, ErrorLine
            <4>2. verdict'[path] # "none" /\ verdict'[path] # verdict[path]
                BY <3>2 DEF FailedNow
            <4>3. verdict[path] = "none"
                BY <1>2, <2>1, <4>2, VerdictStays
            <4> QED BY <2>4, <3>2, <4>1, <4>2, <4>3
        <3>3. CASE done' /\ stdout' = stdout \o <<DoneLine>>
            <4>1. DoneLine \in OutLine /\ DoneLine.type = "done"
                BY DEF OutLine, DoneLine
            <4>2. NothingTwice' /\ ToldPaths' \subseteq ToldPaths
                BY <2>1, <3>3, <4>1, OneMoreLine
            <4> QED BY <2>2, <3>3, <4>2 DEF Once
        <3> QED BY <2>1, <2>3, <2>7, <3>1, <3>2, <3>3, LoopSays
    <2> QED BY <2>3, <2>5, <2>6, <2>7, OthersSayNothing
<1> QED BY <1>1, <1>2

-----------------------------------------------------------------------------
(* The theorems *)

\* What the edges on stdout rest on.
EdgesInv == NamesInv /\ Finishing /\ Recorded /\ FirstNames /\ TrueAnswers

LEMMA InitEdges == DiscoveryInit => EdgesInv
<1> SUFFICES ASSUME DiscoveryInit PROVE EdgesInv
    OBVIOUS
<1>1. Init /\ E!Init /\ stdout = <<>> /\ NamesInv
    BY InitNames DEF DiscoveryInit
<1>2. Finishing
    BY <1>1 DEF Init, Finishing, Ending
<1>3. EdgesWritten = {} /\ JobsSaid = {}
    BY <1>1 DEF EdgesWritten, DependencyAt, JobsSaid
<1>4. Recorded
    BY <1>1, <1>3 DEF Recorded, E!Init
<1>5. FirstNames
    <2>1. added = {} /\ E!Registered = {}
        BY <1>1 DEF E!Init, E!Registered, E!Range
    <2>2. \A a \in AttrPath : ~FirstName(a)
        BY <1>1 DEF FirstName
    <2> QED BY <1>3, <2>1, <2>2 DEF FirstNames
<1>6. TrueAnswers
    BY <1>1 DEF TrueAnswers, E!Init
<1> QED BY <1>1, <1>2, <1>4, <1>5, <1>6 DEF EdgesInv

LEMMA StepEdges == EdgesInv /\ [DiscoveryNext]_allVars => EdgesInv'
<1> SUFFICES ASSUME EdgesInv, [DiscoveryNext]_allVars PROVE EdgesInv'
    OBVIOUS
<1>1. /\ NamesInv /\ Finishing /\ Recorded /\ FirstNames /\ TrueAnswers
      /\ Typed /\ AllGone /\ Course /\ EP!IInv /\ EdgeRunTyped /\ OutputTyped /\ Named
    BY DEF EdgesInv, NamesInv
<1>2. NamesInv' /\ Finishing'
    BY <1>1, StepKeepsNames, StepFinishing
<1>3. Recorded'
    BY <1>1, StepRecords
<1>4. FirstNames'
    BY <1>1, StepFirstNames
<1>5. TrueAnswers'
    BY <1>1, StepOfEdges, StepAnswers
<1> QED BY <1>2, <1>3, <1>4, <1>5 DEF EdgesInv

\* Whatever order answers of workers and of the store come in, whatever crashes,
\* fails or interrupts the run: a dependency line comes behind the job lines of
\* all it names (emitEdges after emit in handleLine), its edges are true of the
\* store, and every line is well formed.
THEOREM EdgesComeAfterJobs ==
    DiscoverySpec => [](DiscoveryTypeOK /\ JobsComeFirst /\ NoFalseEdges)
<1>1. EdgesInv => DiscoveryTypeOK /\ JobsComeFirst /\ NoFalseEdges
    BY NamesAreTyped, WrittenAreWalked DEF EdgesInv, NamesInv
<1> QED BY <1>1, InitEdges, StepEdges, PTL DEF DiscoverySpec

\* Whatever the store fails to answer, a stream that ends in done has exactly
\* the edges of the answers it got: a question that failed costs the edges
\* behind its path and no other, and the passes, the budget and the final walk
\* leave none out.
THEOREM FailedQueriesCostNoOtherEdge == DiscoverySpec => []EdgesAreAsAnswered
<1>1. EdgesInv => EdgesAreAsAnswered
    BY AnswersDecide DEF EdgesInv, NamesInv
<1> QED BY <1>1, InitEdges, StepEdges, PTL DEF DiscoverySpec

\* From a store that answers, a stream that ends in done has exactly the edges
\* between the derivations it named, for every store, flake, number of workers,
\* fault and budget of questions in a pass: what was found late, asked late or
\* left to the final walk is there, and nothing else ever is.
THEOREM EdgesOnStdoutAreExact ==
    ASSUME ~QueriesMayFail
    PROVE  DiscoverySpec => []EdgesAreExact
<1>1. EdgesInv => EdgesAreExact
    BY NoEdgeIsMissing, WrittenAreWalked DEF EdgesInv, NamesInv, EdgesAreExact
<1> QED BY <1>1, InitEdges, StepEdges, PTL DEF DiscoverySpec

\* What a consumer of stdout may rely on line by line.
StreamInv == EdgesInv /\ Walking /\ Once

\* As long as the names of an attribute set stay distinct in what dumpLossy
\* makes of them, stdout can be used line by line: an edge after its jobs, one
\* line for an attribute and one for an edge whatever is retried or restarted,
\* and nothing behind done.
THEOREM StdoutIsUsable ==
    ASSUME DistinctNames
    PROVE  DiscoverySpec => []StreamIsUsable
<1>1. DiscoveryInit => StreamInv
    <2> SUFFICES ASSUME DiscoveryInit PROVE StreamInv
        OBVIOUS
    <2>1. EdgesInv /\ Walking
        BY InitEdges, InitWalk DEF DiscoveryInit, Walking
    <2>2. Once
        BY DEF DiscoveryInit, Once, NothingTwice, ToldPaths, DoneSaid
    <2> QED BY <2>1, <2>2 DEF StreamInv
<1>2. StreamInv /\ [DiscoveryNext]_allVars => StreamInv'
    <2> SUFFICES ASSUME StreamInv, [DiscoveryNext]_allVars PROVE StreamInv'
        OBVIOUS
    <2>1. EdgesInv'
        BY StepEdges DEF StreamInv
    <2>2. Walking'
        BY StepKeepsWalking DEF StreamInv, EdgesInv, NamesInv
    <2>3. Once'
        BY StepSaysOnce DEF StreamInv, EdgesInv
    <2> QED BY <2>1, <2>2, <2>3 DEF StreamInv
<1>3. StreamInv => StreamIsUsable
    BY NamesAreTyped DEF StreamInv, EdgesInv, NamesInv, Once, StreamIsUsable
<1> QED BY <1>1, <1>2, <1>3, PTL DEF DiscoverySpec
=============================================================================
