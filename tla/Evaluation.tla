---------------------------- MODULE Evaluation ----------------------------
(***************************************************************************)
(* What a worker's Evaluator answers about one attribute path              *)
(* (src/nix_eval.cc): selectExpr, navigate, evalAttr and queryIsCached,    *)
(* over a graph of lazily forced values and a store that builds, garbage   *)
(* collection and caches change while it is being asked; and whether it    *)
(* asks to be restarted afterwards (src/worker.cc).                        *)
(*                                                                         *)
(* Forcing a value and asking the store are Nix's, as far as this code     *)
(* uses them.  Values may contain each other, or themselves.               *)
(***************************************************************************)
EXTENDS ResidentMemory

CONSTANTS
    Type,      \* the output types selectExpr asks for
    System,    \* args.system
    Name,      \* attribute names, types and system included
    Node,      \* the flake's values
    Output,    \* the outputs of a derivation
    Requests,  \* what may be asked, and where
    MaxMemoryMiB  \* args.maxMemoryMiB

\* A request has a flake, which says what each of its values is and holds; the
\* attribute path asked about; the order in which outputs are looked at and
\* those of them without a static path; how often the store may change
\* meanwhile; and what can be read of the memory afterwards.
Kind == {"attrs", "derivation", "no drvPath", "other", "throws"}

ASSUME EvaluationAssumption ==
    /\ Type \subseteq Name /\ System \in Name
    /\ \A r \in Requests :
          /\ r.flake.self \in Node /\ r.flake.kind \in [Node -> Kind]
          /\ \A n \in Node : /\ DOMAIN r.flake.attrs[n] \subseteq Name
                            /\ Range(r.flake.attrs[n]) \subseteq Node
          /\ r.path \in Seq(Name)
          /\ r.outputs \in Seq(Output) /\ r.floating \subseteq Range(r.outputs)
          /\ r.changes \in Nat
          /\ r.memory.readable \in BOOLEAN /\ r.memory.text \in Seq(STRING)
          /\ r.memory.pageSize \in Int
    /\ MaxMemoryMiB \in Nat

VARIABLES
    request,
    pc,         \* "navigate", "classify", "valid", "substitutable", "answered", "over"
    level,      \* components of the path already taken
    current,    \* the value navigate is at
    looked,     \* outputs already looked at
    toQuery,    \* those the substituters are to be asked about
    answer,     \* what the worker says
    restarts,   \* whether it asks to be restarted
    valid, substitutable, \* outputs in the store, and in a cache
    changes,    \* how often the store may still change
    seen, unbuilt, uncached \* outputs that since the request have at some time been
                            \* available, not in the store, not in a cache

storeState == <<valid, substitutable, changes, seen, unbuilt, uncached>>
vars == <<request, pc, level, current, looked, toQuery, answer, restarts, storeState>>

flake == request.flake
path == request.path
outputs == request.outputs
floating == request.floating

-----------------------------------------------------------------------------
(* The discovery root, which is not a value of the flake *)

Root == [at |-> "root"]
TypeLevel(t) == [at |-> "type", type |-> t]
Value(n) == [at |-> "flake", node |-> n]
Default == [at |-> "default"]
Failing == [at |-> "failing"]

\* flake.<type>.<system> or {}: the default is for what is missing or is not a
\* set, not for what fails.
SetKinds == {"attrs", "derivation", "no drvPath"}

FailingIsDefault(v, name) ==
    IF v.at = "flake" /\ name \in DOMAIN flake.attrs[v.node]
    THEN Value(flake.attrs[v.node][name])
    ELSE Default
OrDefault(v, name) ==
    CASE v.at # "flake" -> v
      [] v.at = "flake" /\ flake.kind[v.node] = "throws" -> Failing
      [] v.at = "flake" /\ flake.kind[v.node] \in SetKinds /\ name \in DOMAIN flake.attrs[v.node] ->
             Value(flake.attrs[v.node][name])
      [] OTHER -> Default

Select(t) == OrDefault(OrDefault(Value(flake.self), t), System)

KindOf(v) ==
    CASE v.at = "flake" -> flake.kind[v.node]
      [] v = Failing -> "throws"
      [] OTHER -> "attrs"

Names(v) ==
    CASE v = Root -> Type
      [] v.at = "type" -> {System}
      [] v.at = "flake" -> DOMAIN flake.attrs[v.node]
      [] OTHER -> {}

Attr(v, name) ==
    CASE v = Root -> TypeLevel(name)
      [] v.at = "type" -> Select(v.type)
      [] OTHER -> Value(flake.attrs[v.node][name])

\* A derivation is a set as well.
IsAttrs(v) == KindOf(v) \in SetKinds
IsDerivation(v) == KindOf(v) \in {"derivation", "no drvPath"}

-----------------------------------------------------------------------------

Init ==
    /\ request \in Requests
    /\ pc = "navigate"
    /\ level = 0
    /\ current = Root
    /\ looked = 0
    /\ toQuery = {}
    /\ answer = [t |-> "none"]
    /\ restarts = FALSE
    /\ valid \in SUBSET Range(outputs)
    /\ substitutable \in SUBSET Range(outputs)
    /\ changes = request.changes
    /\ seen = valid \cup substitutable
    /\ unbuilt = Range(outputs) \ valid
    /\ uncached = Range(outputs) \ substitutable

Answer(a) ==
    /\ answer' = a
    /\ pc' = "answered"
    /\ UNCHANGED <<request, level, current, looked, toQuery, restarts, storeState>>

\* What throws is answered with an "error", whose text says what it was about;
\* the next request is as if nothing had been asked.
Error(cause) == [t |-> "error", cause |-> cause]

ForceThrows ==
    /\ pc \in {"navigate", "classify"}
    /\ KindOf(current) = "throws"
    /\ Answer(Error("value"))

\* One component.
Missing == ~IsAttrs(current) \/ path[level + 1] \notin Names(current)

StepDown ==
    /\ pc = "navigate" /\ level < Len(path)
    /\ KindOf(current) # "throws" /\ ~Missing
    /\ current' = Attr(current, path[level + 1])
    /\ level' = level + 1
    /\ UNCHANGED <<request, pc, looked, toQuery, answer, restarts, storeState>>

NotThere ==
    /\ pc = "navigate" /\ level < Len(path)
    /\ KindOf(current) # "throws" /\ Missing
    /\ Answer([t |-> "ignore"])

Arrive ==
    /\ pc = "navigate" /\ level = Len(path)
    /\ KindOf(current) # "throws"
    /\ pc' = "classify"
    /\ UNCHANGED <<request, level, current, looked, toQuery, answer, restarts, storeState>>

\* getDerivation, requireDrvPath.
NotADerivation ==
    /\ pc = "classify" /\ ~IsDerivation(current)
    /\ Answer(IF IsAttrs(current)
              THEN [t |-> "children", children |-> Names(current)]
              ELSE [t |-> "ignore"])

NoDrvPath ==
    /\ pc = "classify" /\ KindOf(current) = "no drvPath"
    /\ Answer(Error("value"))

ADerivation ==
    /\ pc = "classify" /\ KindOf(current) = "derivation"
    /\ pc' = "valid"
    /\ UNCHANGED <<request, level, current, looked, toQuery, answer, restarts, storeState>>

-----------------------------------------------------------------------------
(* queryIsCached *)

Job(isCached) == Answer([t |-> "job", isCached |-> isCached])

\* isValidPath, output by output; one without a path ends it.
AssumePath(o) == TRUE
HasPath(o) == o \notin floating

LookUp ==
    /\ pc = "valid" /\ looked < Len(outputs)
    /\ LET o == outputs[looked + 1]
       IN  IF ~HasPath(o)
           THEN Job(FALSE)
           ELSE /\ looked' = looked + 1
                /\ toQuery' = IF o \in valid THEN toQuery ELSE toQuery \cup {o}
                /\ UNCHANGED <<request, pc, level, current, answer, restarts, storeState>>

LookedUpAll ==
    /\ pc = "valid" /\ looked = Len(outputs)
    /\ IF toQuery = {}
       THEN Job(TRUE)
       ELSE /\ pc' = "substitutable"
            /\ UNCHANGED <<request, level, current, looked, toQuery, answer, restarts, storeState>>

\* querySubstitutablePathInfos, all at once.  It tells of those it knows.
AnyFound(infos) == infos # {}
AllFound(infos) == Cardinality(infos) = Cardinality(toQuery)

AskSubstituters ==
    /\ pc = "substitutable"
    /\ Job(AllFound(toQuery \cap substitutable))

\* Either question may throw.
StoreThrows ==
    /\ \/ pc = "valid" /\ looked < Len(outputs) /\ HasPath(outputs[looked + 1])
       \/ pc = "substitutable"
    /\ Answer(Error("store"))

\* The store, meanwhile.
StoreChanges ==
    /\ pc \notin {"answered", "over"} /\ changes > 0
    /\ changes' = changes - 1
    /\ \E o \in Range(outputs) :
          \/ valid' = SymDiff(valid, {o}) /\ UNCHANGED substitutable
          \/ substitutable' = SymDiff(substitutable, {o}) /\ UNCHANGED valid
    /\ seen' = seen \cup valid' \cup substitutable'
    /\ unbuilt' = unbuilt \cup (Range(outputs) \ valid')
    /\ uncached' = uncached \cup (Range(outputs) \ substitutable')
    /\ UNCHANGED <<request, pc, level, current, looked, toQuery, answer, restarts>>

-----------------------------------------------------------------------------
(* The worker, after an answer *)

AtCeiling(resident) == resident >= MaxMemoryMiB
OverCeiling(resident) == resident > MaxMemoryMiB

Measure ==
    /\ pc = "answered"
    /\ restarts' = OverCeiling(CurrentResidentMiB(request.memory))
    /\ pc' = "over"
    /\ UNCHANGED <<request, level, current, looked, toQuery, answer, storeState>>

Over == pc = "over" /\ UNCHANGED vars

EvalAttr ==
    \/ ForceThrows \/ StepDown \/ NotThere \/ Arrive
    \/ NotADerivation \/ NoDrvPath \/ ADerivation
    \/ LookUp \/ LookedUpAll \/ AskSubstituters \/ StoreThrows

Next == EvalAttr \/ StoreChanges \/ Measure \/ Over

Spec == Init /\ [][Next]_vars

-----------------------------------------------------------------------------
(* Properties *)

\* Type correctness.
TypeOK ==
    /\ pc \in {"navigate", "classify", "valid", "substitutable", "answered", "over"}
    /\ level \in 0..Len(path)
    /\ current \in {Root, Default, Failing} \cup {TypeLevel(t) : t \in Type}
                      \cup {Value(n) : n \in Node}
    /\ looked \in 0..Len(outputs)
    /\ toQuery \subseteq Range(outputs) /\ toQuery \cap floating = {}
    /\ answer \in [t: {"none", "ignore"}] \cup [t: {"error"}, cause: {"value", "store"}]
                     \cup [t: {"job"}, isCached: BOOLEAN]
                     \cup [t: {"children"}, children: SUBSET Name]
    /\ pc \in {"answered", "over"} <=> answer.t # "none"
    /\ restarts \in BOOLEAN
    /\ valid \cup substitutable \subseteq Range(outputs)

\* The value that the first k components of the path name in the flake itself.
InFlake ==
    LET upTo[k \in 0..Len(path)] ==
            IF k = 0
            THEN {flake.self}
            ELSE {flake.attrs[n][path[k]] :
                      n \in {m \in upTo[k - 1] : /\ flake.kind[m] \in SetKinds
                                                 /\ path[k] \in DOMAIN flake.attrs[m]}}
    IN  upTo

\* "an attribute path reads exactly as it does in the flake (packages.<system>.
\* <name>) and can be handed to `nix build` unchanged" (nix_eval.cc:59): below
\* the system, the answer is about the very value that the path names in the
\* flake; what fails on the way to it is an error, never an absence; only this
\* system, of the types asked for, is answered for; and a store that fails costs
\* derivations only, which are then errors and not jobs.
AnswersReadAsInFlake ==
    LET asked == path[1] \in Type /\ path[2] = System
        failed == \E k \in 0..Len(path) : \E n \in InFlake[k] : flake.kind[n] = "throws"
        is(kinds) == \E n \in InFlake[Len(path)] : flake.kind[n] \in kinds
    IN  answer.t # "none" /\ Len(path) >= 2 =>
            /\ asked /\ (failed \/ is({"no drvPath"})) <=> answer = Error("value")
            /\ asked /\ ~failed /\ is({"derivation"}) <=>
                   answer.t = "job" \/ answer = Error("store")
            /\ asked /\ ~failed /\ is({"attrs"}) =>
                   answer = [t |-> "children",
                             children |-> UNION {DOMAIN flake.attrs[n] : n \in InFlake[Len(path)]}]

\* isCached is only said when every output has been available at some time
\* while the question was being answered, and is only denied when the answer
\* can be explained: an output without a path, or one that was missing from
\* the store at one time and from the caches at one time.
CachedIsTrue ==
    answer.t = "job" =>
        IF answer.isCached
        THEN floating = {} /\ Range(outputs) \subseteq seen
        ELSE floating \cup (unbuilt \cap uncached) # {}

\* What is remembered while queryIsCached asks is of this derivation's outputs,
\* and what it says of them in the end is true.
CacheAnswersHold == TypeOK /\ CachedIsTrue

\* Whether n pages are more than the worker may hold.
TooManyPages(n) == n * request.memory.pageSize >= (MaxMemoryMiB + 1) * MiB

\* A worker is restarted only when it holds too much: whatever wraps is never
\* overstated, and "an unreadable or unexpected /proc leaves the ceiling
\* un-triggered rather than recycling every worker constantly" (pure.hh:223).
RestartIsDue ==
    restarts => \E n \in PagesIn(Statm(request.memory)) : TooManyPages(n)

\* And it is restarted when it holds too much, unless that wraps.
CeilingHolds ==
    pc = "over" /\ request.memory.readable =>
        \A n \in PagesIn(Statm(request.memory)) :
            TooManyPages(n) /\ n * request.memory.pageSize < Word => restarts

\* The ceiling of worker.cc, in both directions.
RestartsWhenDue == RestartIsDue /\ CeilingHolds
=============================================================================
