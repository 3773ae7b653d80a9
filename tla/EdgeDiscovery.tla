--------------------------- MODULE EdgeDiscovery ---------------------------
(***************************************************************************)
(* The EdgeDiscovery class (src/pure.hh, src/pure.cc): which discovered    *)
(* outputs lie in which others' derivation closures, each edge reported as *)
(* soon as both of its ends are known.                                     *)
(*                                                                         *)
(* The class is sequential, but its caller decides the order of its three  *)
(* operations, and the interesting cases are orders: an output that        *)
(* arrives after other walks have passed through its derivation, an answer *)
(* that unblocks several walks, two names for one derivation.              *)
(*                                                                         *)
(* addOutput and provideReferences end in a loop over walks that drains    *)
(* each.  Here the call's first step does everything before that loop, and *)
(* each iteration of the loop is a step of its own; `cursor' says where    *)
(* the loop is, and no other operation can start until the call returns.   *)
(* Outputs, walks and interned paths are vectors and integers in the code; *)
(* a walk is named here by its output and a path by itself.                *)
(***************************************************************************)
EXTENDS Naturals, FiniteSets, Sequences, SequencesExt

CONSTANTS
    Attr,      \* attribute paths of outputs
    Path,      \* derivation paths
    NoOutput,  \* "this path is not a discovered output's derivation"
    DrvOf,     \* the derivation each attribute evaluates to
    Stores,    \* the reference graphs the store may hold
    QueriesMayFail \* whether the store may fail to answer about a path

ASSUME EdgeAssumption ==
    /\ IsFiniteSet(Path)
    /\ NoOutput \notin Attr
    /\ DrvOf \in [Attr -> Path]
    /\ Stores \subseteq [Path -> SUBSET Path]
    /\ QueriesMayFail \in BOOLEAN

VARIABLES
    store,       \* the store's reference graph; never changes during a run
    added,       \* the attributes addOutput has been called with
    outputs,     \* outputs_, and the order of walks_: registered, in order
    outputOf,    \* outputByPathId_: the output a path is the derivation of
    stack,       \* Walk::stack of each output's walk
    visited,     \* Walk::visited of each output's walk
    reachedBy,   \* reachedBy_: the walks that have reached each path
    answered,    \* the keys of references_
    references,  \* references_ (nothing for a path not yet answered)
    outstanding, \* outstanding_: handed out by nextQuery, not yet answered
    cursor,      \* the walk the drain loop is at; 0 when no call is running
    edges,       \* the edges the running call will return
    reported     \* the edges that calls have returned so far

vars == <<store, added, outputs, outputOf, stack, visited, reachedBy,
          answered, references, outstanding, cursor, edges, reported>>

idle == cursor = 0

Registered == Range(outputs)

-----------------------------------------------------------------------------

Init ==
    /\ store \in Stores
    /\ added = {}
    /\ outputs = <<>>
    /\ outputOf = [p \in Path |-> NoOutput]
    /\ stack = [a \in Attr |-> <<>>]
    /\ visited = [a \in Attr |-> {}]
    /\ reachedBy = [p \in Path |-> {}]
    /\ answered = {}
    /\ references = [p \in Path |-> {}]
    /\ outstanding = {}
    /\ cursor = 0
    /\ edges = {}
    /\ reported = {}

-----------------------------------------------------------------------------
(* addOutput *)

\* Whether this derivation already has a name: the first output registered
\* for a derivation is the only one that is walked.
NeverAlias(a) == FALSE
IsAlias(a) == outputOf[DrvOf[a]] # NoOutput

\* Walks that already passed through the new output's derivation learn their
\* edge to it now.
JoinNobody(a) == {}
JoinEveryone(a) == {<<other, a>> : other \in Registered}
JoinEarlierWalks(a) == {<<other, a>> : other \in reachedBy[DrvOf[a]] \ {a}}

\* The new walk is drained before addOutput returns.
LeaveNewWalkStanding == 0
PastNewWalk == Len(outputs) + 2
NewWalk == Len(outputs) + 1

AddAlias(a) ==
    /\ idle
    /\ a \in Attr \ added
    /\ IsAlias(a)
    /\ added' = added \cup {a}
    /\ UNCHANGED <<store, outputs, outputOf, stack, visited, reachedBy,
                   answered, references, outstanding, cursor, edges, reported>>

AddOutput(a) ==
    /\ idle
    /\ a \in Attr \ added
    /\ ~IsAlias(a)
    /\ added' = added \cup {a}
    /\ outputs' = Append(outputs, a)
    /\ outputOf' = [outputOf EXCEPT ![DrvOf[a]] = a]
    /\ edges' = JoinEarlierWalks(a)
    /\ stack' = [stack EXCEPT ![a] = <<DrvOf[a]>>]
    /\ visited' = [visited EXCEPT ![a] = {DrvOf[a]}]
    /\ reachedBy' = [reachedBy EXCEPT ![DrvOf[a]] = @ \cup {a}]
    /\ cursor' = NewWalk
    /\ UNCHANGED <<store, answered, references, outstanding, reported>>

-----------------------------------------------------------------------------
(* drain *)

walking == outputs[cursor]

\* A walk stands still when it has run dry or when the references of the path
\* on top of its stack have not been answered yet.
Standing(a) == stack[a] # <<>> => Last(stack[a]) \notin answered

\* The references of a path that this walk has not seen before.
EveryReference(a, p) == references[p]
FreshReferences(a, p) == references[p] \ visited[a]

EdgesTo(a, reached) ==
    {<<a, outputOf[p]>> : p \in {q \in reached : outputOf[q] \notin {NoOutput, a}}}

\* One iteration of drain's loop: expand the path on top of the stack.  The
\* order in which a path's references are pushed is the store's.
Expand ==
    /\ ~idle
    /\ ~Standing(walking)
    /\ LET a == walking
           node == Last(stack[a])
           fresh == FreshReferences(a, node)
       IN  /\ \E pushed \in SetToSeqs(fresh) :
                 stack' = [stack EXCEPT ![a] = Front(@) \o pushed]
           /\ visited' = [visited EXCEPT ![a] = @ \cup fresh]
           /\ reachedBy' = [p \in Path |-> IF p \in fresh
                                           THEN reachedBy[p] \cup {a}
                                           ELSE reachedBy[p]]
           /\ edges' = edges \cup EdgesTo(a, fresh)
    /\ UNCHANGED <<store, added, outputs, outputOf, answered, references,
                   outstanding, cursor, reported>>

\* The walk stands still: on to the next one.
NextWalk ==
    /\ ~idle
    /\ Standing(walking)
    /\ cursor < Len(outputs)
    /\ cursor' = cursor + 1
    /\ UNCHANGED <<store, added, outputs, outputOf, stack, visited, reachedBy,
                   answered, references, outstanding, edges, reported>>

\* The last walk stands still: the call returns its edges.
Return ==
    /\ ~idle
    /\ Standing(walking)
    /\ cursor = Len(outputs)
    /\ cursor' = 0
    /\ reported' = reported \cup edges
    /\ edges' = {}
    /\ UNCHANGED <<store, added, outputs, outputOf, stack, visited, reachedBy,
                   answered, references, outstanding>>

-----------------------------------------------------------------------------
(* nextQuery, provideReferences, done *)

\* The walks whose top path can be asked about.
Askable ==
    {i \in DOMAIN outputs :
        /\ stack[outputs[i]] # <<>>
        /\ Last(stack[outputs[i]]) \notin answered \cup outstanding}

\* nextQuery names the top path of the first such walk.
NextQuery ==
    /\ idle
    /\ \E i \in Askable :
          /\ \A j \in Askable : i <= j
          /\ outstanding' = outstanding \cup {Last(stack[outputs[i]])}
    /\ UNCHANGED <<store, added, outputs, outputOf, stack, visited, reachedBy,
                   answered, references, cursor, edges, reported>>

\* provideReferences drains every walk, not only the one that asked.
DrainNoWalk == 0
FirstWalk == 1

\* provideReferences, told `refs' by a caller that read them from the store.
ProvideReferences(p, refs) ==
    /\ idle
    /\ p \in outstanding
    /\ outstanding' = outstanding \ {p}
    /\ answered' = answered \cup {p}
    /\ references' = [references EXCEPT ![p] = refs]
    /\ edges' = {}
    /\ cursor' = FirstWalk
    /\ UNCHANGED <<store, added, outputs, outputOf, stack, visited, reachedBy,
                   reported>>

\* What the coordinator answers: the path's references, or none when the
\* store cannot be asked about it.
Answers(p) == {store[p]} \cup IF QueriesMayFail THEN {{}} ELSE {}

Done == \A a \in Registered : stack[a] = <<>>

-----------------------------------------------------------------------------

Next ==
    \/ \E a \in Attr : AddAlias(a) \/ AddOutput(a)
    \/ Expand
    \/ NextWalk
    \/ Return
    \/ NextQuery
    \/ \E p \in Path : \E refs \in Answers(p) : ProvideReferences(p, refs)

\* A call in progress returns, and the coordinator's loop keeps asking and
\* answering; nothing obliges another output to be discovered.
Fairness ==
    /\ WF_vars(Expand \/ NextWalk \/ Return)
    /\ WF_vars(NextQuery)
    /\ WF_vars(\E p \in Path : \E refs \in Answers(p) : ProvideReferences(p, refs))

Spec == Init /\ [][Next]_vars

FairSpec == Spec /\ Fairness

-----------------------------------------------------------------------------
(* What the edges should be. *)

\* The paths reachable from p in graph g: those in every set that contains p
\* and all references of its members.
Closed(g, S) == \A x \in S : g[x] \subseteq S
Reach(g, p) == {q \in Path : \A S \in SUBSET Path : p \in S /\ Closed(g, S) => q \in S}

\* outputDependenciesFor: the other outputs found in one output's closure.
OutputDependenciesFor(g, a) ==
    {b \in Registered \ {a} : DrvOf[b] \in Reach(g, DrvOf[a])}

\* Type correctness.
TypeOK ==
    /\ store \in [Path -> SUBSET Path]
    /\ added \subseteq Attr
    /\ outputs \in Seq(Attr)
    /\ outputOf \in [Path -> Attr \cup {NoOutput}]
    /\ stack \in [Attr -> Seq(Path)]
    /\ visited \in [Attr -> SUBSET Path]
    /\ reachedBy \in [Path -> SUBSET Attr]
    /\ answered \subseteq Path
    /\ references \in [Path -> SUBSET Path]
    /\ outstanding \subseteq Path
    /\ cursor \in 0..Len(outputs)
    /\ edges \subseteq Attr \X Attr
    /\ reported \subseteq Attr \X Attr

\* Every reported edge is true of the store, whatever was asked in whatever
\* order (pure.hh: "An edge is final the moment both of its ends are known").
EdgesAreTrue ==
    \A e \in reported \cup edges :
        /\ e[1] # e[2]
        /\ DrvOf[e[2]] \in Reach(store, DrvOf[e[1]])

\* An edge is reported no later than the call that makes its second end known:
\* between calls nothing both ends of which are known is held back
\* (pure.hh: "reporting each edge as soon as both of its ends are known").
EdgesAreEager ==
    idle => \A a, b \in Registered :
        a # b => (<<a, b>> \in reported <=> DrvOf[b] \in visited[a])

\* No call returns an edge that an earlier call has returned.
EdgesAreNew == edges \cap reported = {}

\* Once every walk has run dry, what has been reported is exactly what walking
\* each output's whole closure would have found (outputDependenciesFor), for
\* the references the store answered with.
EdgesAreComplete ==
    idle /\ Done =>
        \A a, b \in Registered :
            <<a, b>> \in reported <=> b \in OutputDependenciesFor(references, a)

\* There is always something to ask until every walk is done, so a caller that
\* loops until done() cannot spin (pure_test.cc: "a spin rather than a wait").
NeverStuck ==
    idle /\ ~Done /\ outstanding = {} => Askable # {}

-----------------------------------------------------------------------------
(* The inductive invariant behind the properties above. *)

\* outputOf names exactly the registered outputs, each registered once.
NamesAgree ==
    /\ \A a \in Attr : a \in Registered <=> outputOf[DrvOf[a]] = a
    /\ \A p \in Path : outputOf[p] # NoOutput => DrvOf[outputOf[p]] = p
    /\ \A i, j \in DOMAIN outputs : outputs[i] = outputs[j] => i = j

\* A walk starts at its output's derivation, and what is on its stack it has
\* seen; an output that is not registered has no walk.
WalksAreRooted ==
    \A a \in Attr :
        /\ a \in Registered => DrvOf[a] \in visited[a]
        /\ a \notin Registered => stack[a] = <<>> /\ visited[a] = {}
        /\ Range(stack[a]) \subseteq visited[a]

\* What a walk has seen and is no longer going to expand, it has expanded.
WalksExpandAll ==
    \A a \in Attr : \A p \in visited[a] \ Range(stack[a]) :
        p \in answered /\ references[p] \subseteq visited[a]

WalksStayInClosure ==
    \A a \in Attr : visited[a] \subseteq Reach(references, DrvOf[a])

ReachersAreKnown ==
    \A p \in Path : reachedBy[p] = {a \in Attr : p \in visited[a]}

AnswersAreTrue ==
    \A p \in Path :
        /\ references[p] \subseteq store[p]
        /\ p \notin answered => references[p] = {}
        /\ p \in outstanding => p \notin answered

\* Questions come from walks.
QuestionsHaveWalks == outstanding # {} => outputs # <<>>

\* The edges known are those between registered outputs of which the first
\* has seen the second's derivation.
EdgesAreKnown ==
    edges \cup reported =
        {e \in Registered \X Registered : e[1] # e[2] /\ DrvOf[e[2]] \in visited[e[1]]}

\* Between calls no edge is held back, and every walk that the running call
\* has been to, or any walk between calls, stands still.
CallsFinish ==
    /\ idle => edges = {}
    /\ \A i \in DOMAIN outputs : idle \/ i < cursor => Standing(outputs[i])

IInv ==
    /\ TypeOK
    /\ NamesAgree
    /\ WalksAreRooted
    /\ WalksExpandAll
    /\ WalksStayInClosure
    /\ ReachersAreKnown
    /\ AnswersAreTrue
    /\ QuestionsHaveWalks
    /\ EdgesAreKnown
    /\ EdgesAreNew
    /\ CallsFinish

-----------------------------------------------------------------------------
\* If the store is asked to the end, then from some point on the edges reported
\* are exactly the pairs of registered outputs with the second in the first's
\* closure, whatever order outputs and answers came in; a path the store could
\* not be asked about is a leaf.
Answered == [p \in Path |-> IF p \in answered THEN references[p] ELSE store[p]]

EventuallyExact ==
    <>[](\A a, b \in Registered :
            <<a, b>> \in reported <=> b \in OutputDependenciesFor(Answered, a))

\* Every output that depends on another is reported to (README.md, "A
\* `dependency` edge to another discovered output, reported as soon as both of
\* its ends are known").  It is not so: an output whose derivation already has
\* a name is not walked, and none of its dependencies are reported.
EveryOutputHasItsEdges ==
    idle /\ Done =>
        \A a \in added : \A b \in Registered :
            DrvOf[b] \in Reach(references, DrvOf[a]) \ {DrvOf[a]} => <<a, b>> \in reported
=============================================================================
