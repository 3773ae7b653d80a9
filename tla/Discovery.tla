----------------------------- MODULE Discovery -----------------------------
(***************************************************************************)
(* A whole run with dependencies: the event loop of Coordinator together   *)
(* with the EdgeDiscovery it drives (src/coordinator.cc), and stdout as    *)
(* the sequence of lines its consumer reads.                               *)
(*                                                                         *)
(* The loop asks the store about references between dispatching and        *)
(* polling, and once more when the workers are gone.  A call of            *)
(* EdgeDiscovery or a question to the store holds the loop up, never the   *)
(* workers: they go on between any two steps of it.                        *)
(***************************************************************************)
EXTENDS Coordinator

CONSTANTS
    DrvPath,            \* derivation paths
    NoOutput,           \* "this path is not a discovered output's derivation"
    DrvOf,              \* the derivation each attribute evaluates to
    Stores,             \* the reference graphs the store may hold
    QueriesMayFail,     \* whether the store may fail to answer about a path
    StoreMayFail,       \* whether opening the store may fail
    EdgeQueriesPerPass  \* kEdgeQueriesPerPass

ASSUME DiscoveryAssumption ==
    /\ IsFiniteSet(DrvPath)
    /\ NoOutput \notin AttrPath
    /\ DrvOf \in [AttrPath -> DrvPath]
    /\ Stores \subseteq [DrvPath -> SUBSET DrvPath]
    /\ QueriesMayFail \in BOOLEAN /\ StoreMayFail \in BOOLEAN
    /\ EdgeQueriesPerPass \in Nat \ {0}

VARIABLES
    store, added, outputs, outputOf, stack, visited, reachedBy, answered,
    references, outstanding, cursor, edges, reported, \* those of EdgeDiscovery
    wantEdges, \* cleared when the store cannot be opened
    edgeStore, \* whether the store has been opened
    budget,    \* the questions stepEdges may still ask in this pass
    stdout     \* the lines written

E == INSTANCE EdgeDiscovery WITH Attr <- AttrPath, Path <- DrvPath

walks == <<store, added, outputs, outputOf, stack, visited, reachedBy,
           answered, references, outstanding, cursor, edges, reported>>
edgeRun == <<wantEdges, edgeStore, budget>>
allVars == <<vars, walks, edgeRun, stdout>>

DiscoveryInit ==
    /\ Init
    /\ E!Init
    /\ wantEdges = TRUE
    /\ edgeStore = FALSE
    /\ budget = EdgeQueriesPerPass
    /\ stdout = <<>>

-----------------------------------------------------------------------------
(* emit, emitEdges *)

JobLine(path) == [type |-> "job", path |-> path]
ErrorLine(path) == [type |-> "error", path |-> path]
DoneLine == [type |-> "done"]

\* One line for each attribute that depends, with all it is now known to
\* depend on.
DependencyLines(pairs) ==
    SetToSeq({[type |-> "dependency", path |-> e[1],
               on |-> {f[2] : f \in {g \in pairs : g[1] = e[1]}}] : e \in pairs})

\* The line of an attribute that a step has just concluded with an error.
ErrorLines ==
    SetToSeq({ErrorLine(path) : path \in
                 {p \in AttrPath : /\ verdict'[p] # verdict[p]
                                   /\ verdict'[p] \in {"error", "too deep", "died"}}})

DoneBeforeLastEdges == IF pc = "kill" THEN <<DoneLine>> ELSE <<>>
DoneLines == IF done' /\ ~done THEN <<DoneLine>> ELSE <<>>

\* The job goes out before the edges its arrival makes known.
EdgesThenJob(path) ==
    DependencyLines(IF E!IsAlias(path) THEN {} ELSE E!JoinEarlierWalks(path))
        \o <<JobLine(path)>>
JobThenEdges(path) == <<JobLine(path)>>

-----------------------------------------------------------------------------
(* stepEdges and the final walk *)

\* The loop is inside a call of EdgeDiscovery, or waits for the store.
Busy == cursor # 0 \/ (wantEdges /\ outstanding # {})

\* What is left of the budget is spent unless nextQuery has nothing to name.
StepsWithoutEnd == wantEdges /\ E!Askable # {}
StepsEdges == wantEdges /\ budget > 0 /\ E!Askable # {}

\* The walk that the interleaved passes did not get to the end of.
SkipsLastWalk == FALSE
WalksOn == wantEdges /\ ~E!Done

Asking ==
    \/ pc = "dispatch" /\ Dispatchable = {} /\ StepsEdges
    \/ pc = "finish" /\ ~fatal /\ WalksOn

\* A question is put to the store, which is opened for the first one.
AskStore ==
    /\ ~Busy
    /\ Asking
    /\ E!NextQuery
    /\ \/ edgeStore' = TRUE /\ UNCHANGED wantEdges
       \/ /\ StoreMayFail /\ ~edgeStore
          /\ wantEdges' = FALSE
          /\ UNCHANGED edgeStore
    /\ budget' = IF pc = "dispatch" THEN budget - 1 ELSE budget
    /\ UNCHANGED <<vars, stdout>>

\* The answer; a path the store cannot tell about is a leaf.
AnswerQuery ==
    /\ wantEdges
    /\ pc # "exited"
    /\ \E p \in outstanding : \E refs \in E!Answers(p) : E!ProvideReferences(p, refs)
    /\ UNCHANGED <<vars, edgeRun, stdout>>

RunCall ==
    /\ pc # "exited"
    /\ E!Expand \/ E!NextWalk
    /\ UNCHANGED <<vars, edgeRun, stdout>>

ReturnCall ==
    /\ pc # "exited"
    /\ E!Return
    /\ stdout' = stdout \o DependencyLines(edges)
    /\ UNCHANGED <<vars, edgeRun>>

\* One of the call's edges cannot be written: the process exits on the spot,
\* with the lines before it out.
CallCutOff ==
    /\ "stdout" \in Faults
    /\ pc # "exited"
    /\ cursor = Len(outputs) /\ cursor # 0
    /\ E!Standing(E!walking)
    /\ \E n \in 0..(Len(DependencyLines(edges)) - 1) :
          stdout' = stdout \o SubSeq(DependencyLines(edges), 1, n)
    /\ ExitWith(1)
    /\ polled' = {}
    /\ state' = [w \in Slot |-> "none"]
    /\ line' = [w \in Slot |-> None]
    /\ task' = [w \in Slot |-> None]
    /\ toChild' = [w \in Slot |-> <<>>]
    /\ fromChild' = [w \in Slot |-> <<>>]
    /\ UNCHANGED <<environment, closed, queue, pool_, evaluatedDerivations,
                   fatal, done, interrupted, walks, edgeRun>>

-----------------------------------------------------------------------------
(* The steps of the loop, with what they say and register *)

\* A second name for an attribute already added changes nothing.
Register(path) ==
    IF path \in added
    THEN UNCHANGED walks
    ELSE E!AddAlias(path) \/ E!AddOutput(path)

JobFound(w) ==
    /\ ~Busy
    /\ HandleJob(w)
    /\ stdout' = stdout \o JobThenEdges(Message(w).path)
    /\ IF wantEdges THEN Register(Message(w).path) ELSE UNCHANGED walks
    /\ UNCHANGED edgeRun

\* A pass begins with a fresh budget.
NewPass == GrowPool \/ KeepPool

SlotStepButJob(w) ==
    \/ Dispatch(w) \/ FillBuffer(w)
    \/ HandleReady(w) \/ HandleRestart(w) \/ HandleFatal(w)
    \/ HandleError(w) \/ HandleIgnore(w) \/ HandleChildren(w) \/ HandleTooDeep(w)
    \/ GiveUp(w) \/ ReplaceWorker(w) \/ ClosePipes(w) \/ WaitForChild(w)

LoopGoesOn ==
    /\ ~Busy
    /\ \/ NewPass \/ StopIfInterrupted \/ Poll \/ PollFails \/ AskToExit \/ KillWorkers
       \/ FinishFatal \/ ExitOnException
       \/ EndDispatch /\ ~StepsEdges
       \/ (FinishDone \/ EmitFails) /\ (pc = "finish" => ~WalksOn)
       \/ \E w \in Slot : SlotStepButJob(w)
    /\ budget' = IF pc = "top" THEN EdgeQueriesPerPass ELSE budget
    /\ stdout' = stdout \o ErrorLines \o DoneLines
    /\ UNCHANGED <<walks, wantEdges, edgeStore>>

RunStep ==
    \/ LoopGoesOn
    \/ \E w \in Slot : JobFound(w)
    \/ AskStore \/ AnswerQuery \/ RunCall \/ ReturnCall \/ CallCutOff

Elsewhere == UNCHANGED <<walks, edgeRun, stdout>>

DiscoveryNext ==
    \/ RunStep
    \/ \E w \in Slot : (ChildStep(w) \/ ChildCrash(w)) /\ Elsewhere
    \/ (Interrupt \/ Exited) /\ Elsewhere

DiscoverySpec == DiscoveryInit /\ [][DiscoveryNext]_allVars

\* The loop runs and the store answers; workers write, and evaluate.
FairDiscovery ==
    /\ DiscoverySpec
    /\ WF_allVars(RunStep)
    /\ \A w \in Slot : WF_allVars(ChildStep(w) /\ Elsewhere)

\* The same without supposing that an evaluation ever ends.
PromptDiscovery ==
    /\ DiscoverySpec
    /\ WF_allVars(RunStep)
    /\ \A w \in Slot : WF_allVars(PromptStep(w) /\ Elsewhere)

-----------------------------------------------------------------------------
(* Properties *)

JobsBefore(i) == {stdout[j].path : j \in {k \in 1..(i - 1) : stdout[k].type = "job"}}
DependencyAt == {i \in DOMAIN stdout : stdout[i].type = "dependency"}
EdgesWritten ==
    UNION {{<<stdout[i].path, b>> : b \in stdout[i].on} : i \in DependencyAt}

\* Type correctness of what Discovery adds to its parts.
DiscoveryTypeOK ==
    /\ TypeOK /\ E!TypeOK
    /\ wantEdges \in BOOLEAN /\ edgeStore \in BOOLEAN
    /\ budget \in 0..EdgeQueriesPerPass
    /\ \A i \in DOMAIN stdout :
          stdout[i].type # "done" => stdout[i].path \in AttrPath

\* "The job goes out before the edges its arrival makes known, because those
\* edges name it" (coordinator.cc:434): whatever order answers of workers and
\* of the store come in, no dependency line names an attribute that has not
\* been told about yet.
JobsComeFirst ==
    \A i \in DependencyAt : {stdout[i].path} \cup stdout[i].on \subseteq JobsBefore(i)

\* "The last line is always this, and only ever appears once" (README.md), and
\* nothing else is said twice either: an attribute has one job or error line
\* however often it was retried, and an edge is in one dependency line.
NothingTwice ==
    \A i, j \in DOMAIN stdout : i < j =>
        /\ stdout[i].type # "done"
        /\ {stdout[i].type, stdout[j].type} \subseteq {"job", "error"} =>
               stdout[i].path # stdout[j].path
        /\ {i, j} \subseteq DependencyAt /\ stdout[i].path = stdout[j].path =>
               stdout[i].on \cap stdout[j].on = {}

\* A consumer that reads stdout line by line can use each when it comes: an edge
\* after its jobs, nothing a second time, and done last.
StreamIsUsable == DiscoveryTypeOK /\ JobsComeFirst /\ NothingTwice

\* The name a derivation goes by: the first of its job lines.
FirstName(path) ==
    \E i \in DOMAIN stdout :
        /\ stdout[i] = JobLine(path)
        /\ \A other \in JobsBefore(i) : DrvOf[other] # DrvOf[path]

\* A stream that ends in done, from a store that could be read, has exactly
\* the edges between the jobs it named: whatever was found late, asked late or
\* left to the final walk.
DoneMeansAllEdges ==
    done /\ wantEdges =>
        \A a, b \in {p \in AttrPath : FirstName(p)} :
            <<a, b>> \in EdgesWritten <=>
                a # b /\ DrvOf[b] \in E!Reach(store, DrvOf[a])

\* What is written is true even if the run is cut short or the store fails.
NoFalseEdges ==
    \A e \in EdgesWritten : e[1] # e[2] /\ DrvOf[e[2]] \in E!Reach(store, DrvOf[e[1]])

\* The edges of a finished stream are those of the store between its jobs, no
\* fewer and, at any moment, no others.
EdgesAreExact == DoneMeansAllEdges /\ NoFalseEdges

\* The run ends unless loading the flake or an evaluation does not: no death, no
\* question to the store and no walk over its graph keeps it going, and nobody
\* waits for somebody who waits for him.  What a signal ends beyond that says
\* InterruptAnswered.
Stuck == \E w \in Slot : state[w] \in {"starting", "evaluating"}
EndsUnlessStuck == <>(pc = "exited") \/ <>[]Stuck
=============================================================================
