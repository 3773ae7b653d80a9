-------------------------- MODULE EvaluationProofs --------------------------
(***************************************************************************)
(* What is proved of Evaluation, for every flake, attribute path and       *)
(* order of outputs, however often the store changes, and whatever the     *)
(* text of /proc/self/statm.                                               *)
(***************************************************************************)
EXTENDS Evaluation, SequenceTheorems, InductionFacts

-----------------------------------------------------------------------------
(* The requests *)

LEMMA RequestIsWellFormed ==
    ASSUME request \in Requests
    PROVE  /\ flake.self \in Node /\ flake.kind \in [Node -> Kind]
           /\ \A n \in Node : /\ DOMAIN flake.attrs[n] \subseteq Name
                             /\ \A name \in DOMAIN flake.attrs[n] : flake.attrs[n][name] \in Node
           /\ path \in Seq(Name) /\ Len(path) \in Nat
           /\ \A k \in 1..Len(path) : path[k] \in Name
           /\ outputs \in Seq(Output) /\ Len(outputs) \in Nat
           /\ Range(outputs) = {outputs[i] : i \in 1..Len(outputs)}
           /\ IsFiniteSet(Range(outputs))
           /\ floating \subseteq Range(outputs)
<1>1. /\ flake.self \in Node /\ flake.kind \in [Node -> Kind]
      /\ \A n \in Node : /\ DOMAIN flake.attrs[n] \subseteq Name
                         /\ Range(flake.attrs[n]) \subseteq Node
      /\ path \in Seq(Name)
      /\ outputs \in Seq(Output) /\ floating \subseteq Range(outputs)
    BY EvaluationAssumption DEF flake, path, outputs, floating
<1>2. \A n \in Node : \A name \in DOMAIN flake.attrs[n] : flake.attrs[n][name] \in Node
    BY <1>1 DEF Range
<1>3. Len(path) \in Nat /\ \A k \in 1..Len(path) : path[k] \in Name
    BY <1>1, LenProperties, ElementOfSeq
<1>4. Len(outputs) \in Nat /\ Range(outputs) = {outputs[i] : i \in 1..Len(outputs)}
    BY <1>1, LenProperties, RangeEquality
<1>5. IsFiniteSet(Range(outputs))
    <2>1. IsFiniteSet(1..Len(outputs))
        BY <1>4, FS_Interval
    <2>2. outputs \in [1..Len(outputs) -> Output]
        BY <1>1, LenProperties
    <2>3. outputs \in Surjection(1..Len(outputs), Range(outputs))
        BY <1>4, <2>2 DEF Surjection
    <2> QED BY <2>1, <2>3, FS_Surjection
<1> QED BY <1>1, <1>2, <1>3, <1>4, <1>5

-----------------------------------------------------------------------------
(* The values that a path names in the flake *)

Below(values, name) ==
    {flake.attrs[n][name] : n \in {m \in values : /\ flake.kind[m] \in SetKinds
                                                  /\ name \in DOMAIN flake.attrs[m]}}
Named(g, k) == IF k = 0 THEN {flake.self} ELSE Below(g[k - 1], path[k])
IsNamed(g, length) == g = [k \in 0..length |-> Named(g, k)]

LEMMA InFlakeIsNamed == InFlake = CHOOSE g : IsNamed(g, Len(path))
BY DEF InFlake, IsNamed, Named, Below

LEMMA NamedFromAbove ==
    ASSUME NEW g, NEW h, NEW k \in Nat, k # 0 => g[k - 1] = h[k - 1]
    PROVE  Named(g, k) = Named(h, k)
BY DEF Named

LEMMA NamedExists ==
    ASSUME NEW length \in Nat
    PROVE  \E g : IsNamed(g, length)
<1> DEFINE Good == {n \in Nat : \E g : IsNamed(g, n)}
<1>1. 0 \in Good
    <2> DEFINE g == [k \in 0..0 |-> {flake.self}]
    <2>1. g = [k \in 0..0 |-> Named(g, k)]
        BY DEF Named
    <2>2. IsNamed(g, 0)
        BY <2>1 DEF IsNamed
    <2> QED BY <2>2
<1>2. ASSUME NEW n \in Good PROVE n + 1 \in Good
    <2>1. n \in Nat /\ n + 1 \in Nat
        OBVIOUS
    <2>2. PICK old : IsNamed(old, n)
        OBVIOUS
    <2> DEFINE new == [k \in 0..(n + 1) |-> Named(old, k)]
    <2>3. \A k \in 0..(n + 1) : new[k] = Named(old, k)
        OBVIOUS
    <2>4. \A k \in 0..n : old[k] = Named(old, k)
        <3>1. old = [k \in 0..n |-> Named(old, k)]
            BY <2>2 DEF IsNamed
        <3> QED BY <3>1
    <2>5. \A k \in 0..(n + 1) : k \in Nat /\ (k # 0 => k - 1 \in 0..n)
        BY <2>1
    <2>6. \A k \in 0..n : k \in 0..(n + 1)
        BY <2>1
    <2> HIDE DEF new
    <2>7. \A k \in 0..n : new[k] = old[k]
        BY <2>3, <2>4, <2>6
    <2>8. \A k \in 0..(n + 1) : Named(old, k) = Named(new, k)
        BY <2>5, <2>7, NamedFromAbove
    <2>9. new = [k \in 0..(n + 1) |-> Named(new, k)]
        BY <2>8 DEF new
    <2>10. IsNamed(new, n + 1)
        BY <2>9 DEF IsNamed
    <2> QED BY <2>1, <2>10
<1>3. Good = Nat
    <2>1. Good \in SUBSET Nat
        OBVIOUS
    <2> HIDE DEF Good
    <2> QED BY <1>1, <1>2, <2>1, Induction
<1> QED BY <1>3

LEMMA InFlakeValues ==
    ASSUME Len(path) \in Nat
    PROVE  /\ InFlake[0] = {flake.self}
           /\ \A k \in 1..Len(path) : InFlake[k] = Below(InFlake[k - 1], path[k])
<1>1. IsNamed(InFlake, Len(path))
    BY NamedExists, InFlakeIsNamed
<1>2. \A k \in 0..Len(path) : InFlake[k] = Named(InFlake, k)
    <2>1. InFlake = [k \in 0..Len(path) |-> Named(InFlake, k)]
        BY <1>1 DEF IsNamed
    <2> HIDE DEF InFlake
    <2> QED BY <2>1
<1>3. \A k \in 1..Len(path) : k \in 0..Len(path) /\ k # 0
    OBVIOUS
<1> QED BY <1>2, <1>3 DEF Named

\* Where nothing is named nothing is named below.
LEMMA NothingBelow ==
    ASSUME Len(path) \in Nat, NEW first \in 0..Len(path), InFlake[first] = {}
    PROVE  \A k \in first..Len(path) : InFlake[k] = {}
<1> DEFINE Good == {k \in Nat : k \in first..Len(path) => InFlake[k] = {}}
<1>1. 0 \in Good
    <2>1. 0 \in first..Len(path) => first = 0
        OBVIOUS
    <2> QED BY <2>1
<1>2. ASSUME NEW n \in Good PROVE n + 1 \in Good
    <2>1. n \in Nat /\ n + 1 \in Nat /\ (n \in first..Len(path) => InFlake[n] = {})
        OBVIOUS
    <2>2. ASSUME n + 1 \in first..Len(path) PROVE InFlake[n + 1] = {}
        <3>1. CASE n + 1 = first
            BY <3>1
        <3>2. CASE n + 1 # first
            <4>1. n \in first..Len(path) /\ n + 1 \in 1..Len(path) /\ (n + 1) - 1 = n
                BY <2>1, <2>2, <3>2
            <4>2. InFlake[n + 1] = Below(InFlake[n], path[n + 1])
                BY <4>1, InFlakeValues
            <4>3. InFlake[n] = {}
                BY <2>1, <4>1
            <4> QED BY <4>2, <4>3 DEF Below
        <3> QED BY <3>1, <3>2
    <2> QED BY <2>1, <2>2
<1>3. Good = Nat
    <2>1. Good \in SUBSET Nat
        OBVIOUS
    <2> HIDE DEF Good
    <2> QED BY <1>1, <1>2, <2>1, Induction
<1> QED BY <1>3


-----------------------------------------------------------------------------
(* The invariants *)

\* What has been, is, and has not been in store and caches.
StoreIsObserved ==
    /\ valid \subseteq seen /\ substitutable \subseteq seen
    /\ Range(outputs) \ valid \subseteq unbuilt
    /\ Range(outputs) \ substitutable \subseteq uncached

\* An output that has been looked at has been available, or has not been in the
\* store and is to be asked for.
OutputsAreLookedAt ==
    /\ pc \in {"navigate", "classify"} => looked = 0 /\ toQuery = {}
    /\ pc \in {"valid", "substitutable"} =>
          /\ toQuery \subseteq unbuilt
          /\ \A i \in 1..looked : outputs[i] \notin floating /\ outputs[i] \in toQuery \cup seen
    /\ pc = "substitutable" => looked = Len(outputs)

CacheInv ==
    /\ request \in Requests
    /\ TypeOK /\ StoreIsObserved /\ OutputsAreLookedAt /\ CachedIsTrue

LEMMA RootsAreKinds ==
    /\ Root.at = "root" /\ Default.at = "default" /\ Failing.at = "failing"
    /\ \A t : TypeLevel(t).at = "type" /\ TypeLevel(t).type = t
    /\ \A n : Value(n).at = "flake" /\ Value(n).node = n
BY DEF Root, Default, Failing, TypeLevel, Value

\* What current may be.
Place == {Root, Default, Failing} \cup {TypeLevel(t) : t \in Type} \cup {Value(n) : n \in Node}

LEMMA OneStepInFlake ==
    ASSUME request \in Requests, NEW v \in {Default, Failing} \cup {Value(n) : n \in Node}, NEW name
    PROVE  OrDefault(v, name) \in {Default, Failing} \cup {Value(n) : n \in Node}
<1>1. CASE v \in {Default, Failing}
    BY <1>1, RootsAreKinds DEF OrDefault
<1>2. ASSUME NEW n \in Node, v = Value(n)
      PROVE  OrDefault(v, name) \in {Default, Failing} \cup {Value(m) : m \in Node}
    <2>1. v.at = "flake" /\ v.node = n
        BY <1>2, RootsAreKinds
    <2>2. name \in DOMAIN flake.attrs[n] => flake.attrs[n][name] \in Node
        BY RequestIsWellFormed
    <2>3. OrDefault(v, name) =
            CASE flake.kind[n] = "throws" -> Failing
              [] flake.kind[n] \in SetKinds /\ name \in DOMAIN flake.attrs[n] ->
                     Value(flake.attrs[n][name])
              [] OTHER -> Default
        BY <2>1 DEF OrDefault
    <2>4. OrDefault(v, name) \in {Default, Failing} \/
              (name \in DOMAIN flake.attrs[n] /\ OrDefault(v, name) = Value(flake.attrs[n][name]))
        BY <2>3 DEF SetKinds
    <2> QED BY <2>2, <2>4
<1> QED BY <1>1, <1>2

LEMMA SelectedIsPlace ==
    ASSUME request \in Requests, NEW t
    PROVE  Select(t) \in {Default, Failing} \cup {Value(n) : n \in Node}
<1>1. Value(flake.self) \in {Value(n) : n \in Node}
    BY RequestIsWellFormed
<1> QED BY <1>1, OneStepInFlake DEF Select

LEMMA AttrIsPlace ==
    ASSUME request \in Requests, NEW v \in Place, NEW name \in Names(v)
    PROVE  Attr(v, name) \in Place
<1>1. CASE v = Root
    <2>1. Names(v) = Type /\ Attr(v, name) = TypeLevel(name)
        BY <1>1, RootsAreKinds DEF Attr, Names
    <2> QED BY <2>1 DEF Place
<1>2. CASE v \in {Default, Failing}
    BY <1>2, RootsAreKinds DEF Names, Place
<1>3. ASSUME NEW t \in Type, v = TypeLevel(t) PROVE Attr(v, name) \in Place
    <2>1. v # Root /\ v.at = "type" /\ v.type = t
        BY <1>3, RootsAreKinds
    <2> QED BY <2>1, SelectedIsPlace DEF Attr, Place
<1>4. ASSUME NEW n \in Node, v = Value(n) PROVE Attr(v, name) \in Place
    <2>1. v # Root /\ v.at = "flake" /\ v.node = n
        BY <1>4, RootsAreKinds
    <2>2. name \in DOMAIN flake.attrs[n] /\ Attr(v, name) = Value(flake.attrs[n][name])
        BY <2>1 DEF Names, Attr
    <2> QED BY <2>2, RequestIsWellFormed DEF Place
<1> QED BY <1>1, <1>2, <1>3, <1>4 DEF Place

LEMMA NamesAreNames ==
    ASSUME request \in Requests, NEW v \in Place
    PROVE  Names(v) \subseteq Name
<1>1. CASE v \in {Root, Default, Failing}
    BY <1>1, RootsAreKinds, EvaluationAssumption DEF Names
<1>2. ASSUME NEW t \in Type, v = TypeLevel(t) PROVE Names(v) \subseteq Name
    <2>1. v # Root /\ v.at = "type"
        BY <1>2, RootsAreKinds
    <2> QED BY <2>1, EvaluationAssumption DEF Names
<1>3. ASSUME NEW n \in Node, v = Value(n) PROVE Names(v) \subseteq Name
    <2>1. v # Root /\ v.at = "flake" /\ v.node = n
        BY <1>3, RootsAreKinds
    <2> QED BY <2>1, RequestIsWellFormed DEF Names
<1> QED BY <1>1, <1>2, <1>3 DEF Place

-----------------------------------------------------------------------------
(* Their steps *)

\* The answers that are not about the cache.
NoJob ==
    [t: {"ignore"}] \cup [t: {"error"}, cause: {"value", "store"}]
        \cup [t: {"children"}, children: SUBSET Name]

LEMMA AnswersAreNoJob ==
    /\ [t |-> "ignore"] \in NoJob /\ Error("value") \in NoJob /\ Error("store") \in NoJob
    /\ Error("value").t = "error" /\ Error("store").t = "error"
    /\ Error("value") # Error("store")
<1>1. Error("value").cause = "value" /\ Error("store").cause = "store"
    BY DEF Error
<1> QED BY <1>1 DEF NoJob, Error

LEMMA OtherAnswer ==
    ASSUME CacheInv, pc \notin {"answered", "over"}, \E a \in NoJob : Answer(a)
    PROVE  CacheInv'
<1> USE DEF CacheInv
<1>1. PICK a \in NoJob : Answer(a)
    OBVIOUS
<1>2. /\ answer' = a /\ pc' = "answered"
      /\ UNCHANGED <<request, level, current, looked, toQuery, restarts, valid, substitutable,
                     changes, seen, unbuilt, uncached>>
    BY <1>1 DEF Answer, storeState
<1>3. UNCHANGED <<path, outputs, floating>>
    BY <1>2 DEF path, outputs, floating
<1>4. a.t \in {"error", "ignore", "children"}
    BY DEF NoJob
<1>5. a \in [t: {"none", "ignore"}] \cup [t: {"error"}, cause: {"value", "store"}]
                \cup [t: {"job"}, isCached: BOOLEAN]
                \cup [t: {"children"}, children: SUBSET Name]
    BY DEF NoJob
<1>6. TypeOK'
    BY <1>2, <1>3, <1>4, <1>5 DEF TypeOK
<1>7. StoreIsObserved' /\ OutputsAreLookedAt' /\ CachedIsTrue'
    BY <1>2, <1>3, <1>4 DEF StoreIsObserved, OutputsAreLookedAt, CachedIsTrue
<1> QED BY <1>2, <1>6, <1>7

\* An answer about the cache.
LEMMA JobAnswer ==
    ASSUME CacheInv, pc \in {"valid", "substitutable"}, NEW isCached \in BOOLEAN, Job(isCached),
           isCached => floating = {} /\ Range(outputs) \subseteq seen,
           ~isCached => floating \cup (unbuilt \cap uncached) # {}
    PROVE  CacheInv'
<1> USE DEF CacheInv
<1> DEFINE a == [t |-> "job", isCached |-> isCached]
<1>1. /\ answer' = a /\ pc' = "answered"
      /\ UNCHANGED <<request, level, current, looked, toQuery, restarts, valid, substitutable,
                     changes, seen, unbuilt, uncached>>
    BY DEF Job, Answer, storeState
<1>2. UNCHANGED <<path, outputs, floating>>
    BY <1>1 DEF path, outputs, floating
<1>3. a.t = "job" /\ a.isCached = isCached /\ a \in [t: {"job"}, isCached: BOOLEAN]
    OBVIOUS
<1> HIDE DEF a
<1>4. TypeOK'
    BY <1>1, <1>2, <1>3 DEF TypeOK
<1>5. StoreIsObserved' /\ OutputsAreLookedAt'
    BY <1>1, <1>2 DEF StoreIsObserved, OutputsAreLookedAt
<1>6. CachedIsTrue'
    BY <1>1, <1>2, <1>3 DEF CachedIsTrue
<1> QED BY <1>1, <1>4, <1>5, <1>6

\* navigate.
LEMMA NavigateKeeps ==
    ASSUME CacheInv, ForceThrows \/ StepDown \/ NotThere \/ Arrive
    PROVE  CacheInv'
<1> USE DEF CacheInv
<1>1. ASSUME ForceThrows \/ NotThere PROVE CacheInv'
    <2>1. pc \in {"navigate", "classify"}
        BY <1>1 DEF ForceThrows, NotThere
    <2>2. \E a \in NoJob : Answer(a)
        BY <1>1, AnswersAreNoJob DEF ForceThrows, NotThere
    <2> QED BY <2>1, <2>2, OtherAnswer
<1>2. ASSUME StepDown PROVE CacheInv'
    <2>1. /\ pc = "navigate" /\ level < Len(path) /\ path[level + 1] \in Names(current)
          /\ current' = Attr(current, path[level + 1]) /\ level' = level + 1
          /\ UNCHANGED <<request, pc, looked, toQuery, answer, restarts, valid, substitutable,
                         changes, seen, unbuilt, uncached>>
        BY <1>2 DEF StepDown, Missing, storeState
    <2>2. UNCHANGED <<path, outputs, floating>>
        BY <2>1 DEF path, outputs, floating
    <2>3. current \in Place /\ level \in 0..Len(path) /\ Len(path) \in Nat
        BY RequestIsWellFormed DEF TypeOK, Place
    <2>4. current' \in Place
        BY <2>1, <2>3, AttrIsPlace
    <2>5. level' \in 0..Len(path)
        BY <2>1, <2>3
    <2>6. TypeOK'
        BY <2>1, <2>2, <2>4, <2>5 DEF TypeOK, Place
    <2> QED BY <2>1, <2>2, <2>6 DEF StoreIsObserved, OutputsAreLookedAt, CachedIsTrue
<1>3. ASSUME Arrive PROVE CacheInv'
    <2>1. /\ pc = "navigate" /\ pc' = "classify"
          /\ UNCHANGED <<request, level, current, looked, toQuery, answer, restarts, valid,
                         substitutable, changes, seen, unbuilt, uncached>>
        BY <1>3 DEF Arrive, storeState
    <2>2. UNCHANGED <<path, outputs, floating>>
        BY <2>1 DEF path, outputs, floating
    <2>3. TypeOK'
        BY <2>1, <2>2 DEF TypeOK
    <2> QED BY <2>1, <2>2, <2>3 DEF StoreIsObserved, OutputsAreLookedAt, CachedIsTrue
<1> QED BY <1>1, <1>2, <1>3

\* evalAttr, once the value is there.
LEMMA ClassifyKeeps ==
    ASSUME CacheInv, NotADerivation \/ NoDrvPath \/ ADerivation
    PROVE  CacheInv'
<1> USE DEF CacheInv
<1>1. ASSUME NotADerivation PROVE CacheInv'
    <2>1. current \in Place
        BY DEF TypeOK, Place
    <2>2. [t |-> "children", children |-> Names(current)] \in NoJob
        BY <2>1, NamesAreNames DEF NoJob
    <2>4. pc = "classify"
        BY <1>1 DEF NotADerivation
    <2>5. \/ Answer([t |-> "children", children |-> Names(current)])
          \/ Answer([t |-> "ignore"])
        BY <1>1 DEF NotADerivation
    <2>6. \E a \in NoJob : Answer(a)
        BY <2>2, <2>5, AnswersAreNoJob
    <2> QED BY <2>4, <2>6, OtherAnswer
<1>2. ASSUME NoDrvPath PROVE CacheInv'
    <2>1. pc = "classify" /\ \E a \in NoJob : Answer(a)
        BY <1>2, AnswersAreNoJob DEF NoDrvPath
    <2> QED BY <2>1, OtherAnswer
<1>3. ASSUME ADerivation PROVE CacheInv'
    <2>1. /\ pc = "classify" /\ pc' = "valid"
          /\ UNCHANGED <<request, level, current, looked, toQuery, answer, restarts, valid,
                         substitutable, changes, seen, unbuilt, uncached>>
        BY <1>3 DEF ADerivation, storeState
    <2>2. UNCHANGED <<path, outputs, floating>>
        BY <2>1 DEF path, outputs, floating
    <2>3. looked = 0 /\ toQuery = {}
        BY <2>1 DEF OutputsAreLookedAt
    <2>4. TypeOK'
        BY <2>1, <2>2 DEF TypeOK
    <2>5. OutputsAreLookedAt'
        BY <2>1, <2>2, <2>3 DEF OutputsAreLookedAt
    <2> QED BY <2>1, <2>2, <2>4, <2>5 DEF StoreIsObserved, CachedIsTrue
<1> QED BY <1>1, <1>2, <1>3

\* queryIsCached.  What has been seen to be available of an output may be so no
\* longer when the last is looked at, which is why the property speaks of some
\* time.
LEMMA QueryKeeps ==
    ASSUME CacheInv, LookUp \/ LookedUpAll \/ AskSubstituters \/ StoreThrows
    PROVE  CacheInv'
<1> USE DEF CacheInv
<1>1. /\ Len(outputs) \in Nat /\ Range(outputs) = {outputs[i] : i \in 1..Len(outputs)}
      /\ floating \subseteq Range(outputs) /\ IsFiniteSet(Range(outputs))
      /\ looked \in 0..Len(outputs)
    BY RequestIsWellFormed DEF TypeOK
<1>2. ASSUME LookUp PROVE CacheInv'
    <2> DEFINE o == outputs[looked + 1]
    <2>1. /\ pc = "valid" /\ looked < Len(outputs)
          /\ IF o \in floating
             THEN Job(FALSE)
             ELSE /\ looked' = looked + 1
                  /\ toQuery' = IF o \in valid THEN toQuery ELSE toQuery \cup {o}
                  /\ UNCHANGED <<request, pc, level, current, answer, restarts, valid,
                                 substitutable, changes, seen, unbuilt, uncached>>
        BY <1>2 DEF LookUp, HasPath, storeState
    <2>2. looked + 1 \in 1..Len(outputs) /\ o \in Range(outputs)
        BY <1>1, <2>1
    <2> HIDE DEF o
    <2>3. CASE o \in floating
        <3>1. Job(FALSE) /\ floating # {}
            BY <2>1, <2>3
        <3> QED BY <2>1, <3>1, JobAnswer
    <2>4. CASE o \notin floating
        <3>1. /\ pc = "valid" /\ looked' = looked + 1
              /\ toQuery' = IF o \in valid THEN toQuery ELSE toQuery \cup {o}
              /\ UNCHANGED <<request, pc, level, current, answer, restarts, valid,
                             substitutable, changes, seen, unbuilt, uncached>>
            BY <2>1, <2>4
        <3>2. UNCHANGED <<path, outputs, floating>>
            BY <3>1 DEF path, outputs, floating
        <3>3. toQuery \subseteq toQuery' /\ toQuery' \subseteq toQuery \cup {o}
              /\ (o \in valid \/ o \in toQuery')
            BY <3>1
        <3>4. toQuery' \subseteq unbuilt
            BY <2>2, <3>1 DEF StoreIsObserved, OutputsAreLookedAt
        <3>5. looked' \in 0..Len(outputs)
            BY <2>2, <3>1
        <3>6. TypeOK'
            BY <2>2, <2>4, <3>1, <3>2, <3>3, <3>5 DEF TypeOK
        <3>7. o \in toQuery' \cup seen
            BY <3>3 DEF StoreIsObserved
        <3>8. \A i \in 1..looked' :
                 outputs[i] \notin floating /\ outputs[i] \in toQuery' \cup seen
            <4>1. \A i \in 1..looked :
                     outputs[i] \notin floating /\ outputs[i] \in toQuery' \cup seen
                BY <3>1, <3>3 DEF OutputsAreLookedAt
            <4>2. \A i \in 1..looked' : i \in 1..looked \/ i = looked + 1
                BY <1>1, <3>1
            <4> QED BY <4>1, <4>2, <3>7, <2>4 DEF o
        <3>9. OutputsAreLookedAt'
            BY <3>1, <3>2, <3>4, <3>8 DEF OutputsAreLookedAt
        <3> QED BY <3>1, <3>2, <3>6, <3>9 DEF StoreIsObserved, CachedIsTrue
    <2> QED BY <2>3, <2>4
<1>3. ASSUME pc \in {"valid", "substitutable"}, looked = Len(outputs), toQuery \subseteq seen
      PROVE  floating = {} /\ Range(outputs) \subseteq seen
    <2>1. \A i \in 1..Len(outputs) :
             outputs[i] \notin floating /\ outputs[i] \in seen
        BY <1>3 DEF OutputsAreLookedAt
    <2> QED BY <1>1, <2>1
<1>4. ASSUME LookedUpAll PROVE CacheInv'
    <2>1. pc = "valid" /\ looked = Len(outputs)
        BY <1>4 DEF LookedUpAll
    <2>2. CASE toQuery = {}
        <3>1. Job(TRUE)
            BY <1>4, <2>2 DEF LookedUpAll
        <3>2. floating = {} /\ Range(outputs) \subseteq seen
            BY <1>3, <2>1, <2>2
        <3> QED BY <2>1, <3>1, <3>2, JobAnswer
    <2>3. CASE toQuery # {}
        <3>1. /\ pc' = "substitutable"
              /\ UNCHANGED <<request, level, current, looked, toQuery, answer, restarts, valid,
                             substitutable, changes, seen, unbuilt, uncached>>
            BY <1>4, <2>3 DEF LookedUpAll, storeState
        <3>2. UNCHANGED <<path, outputs, floating>>
            BY <3>1 DEF path, outputs, floating
        <3>3. TypeOK'
            BY <2>1, <3>1, <3>2 DEF TypeOK
        <3>4. OutputsAreLookedAt'
            BY <2>1, <3>1, <3>2 DEF OutputsAreLookedAt
        <3> QED BY <3>1, <3>2, <3>3, <3>4 DEF StoreIsObserved, CachedIsTrue
    <2> QED BY <2>2, <2>3
<1>5. ASSUME AskSubstituters PROVE CacheInv'
    <2> DEFINE found == toQuery \cap substitutable
    <2>1. pc = "substitutable" /\ Job(AllFound(found))
        BY <1>5 DEF AskSubstituters
    <2>2. IsFiniteSet(toQuery)
        BY <1>1, FS_Subset DEF TypeOK
    <2>3. AllFound(found) <=> toQuery \subseteq substitutable
        <3>1. found \in SUBSET toQuery
            OBVIOUS
        <3>2. Cardinality(toQuery) = Cardinality(found) => toQuery = found
            BY <2>2, <3>1, FS_Subset
        <3>3. AllFound(found) <=> toQuery = found
            BY <3>2 DEF AllFound
        <3> QED BY <3>3
    <2>4. AllFound(found) \in BOOLEAN
        BY DEF AllFound
    <2> HIDE DEF found
    <2>5. looked = Len(outputs) /\ toQuery \subseteq unbuilt /\ toQuery \subseteq Range(outputs)
        BY <2>1 DEF OutputsAreLookedAt, TypeOK
    <2>6. ASSUME AllFound(found) PROVE floating = {} /\ Range(outputs) \subseteq seen
        <3>1. toQuery \subseteq seen
            BY <2>3, <2>6 DEF StoreIsObserved
        <3> QED BY <1>3, <2>1, <2>5, <3>1
    <2>7. ASSUME ~AllFound(found) PROVE floating \cup (unbuilt \cap uncached) # {}
        BY <2>3, <2>5, <2>7 DEF StoreIsObserved
    <2>8. PICK isCached \in BOOLEAN : isCached = AllFound(found)
        BY <2>4
    <2>9. Job(isCached)
        BY <2>1, <2>8
    <2> QED BY <2>1, <2>6, <2>7, <2>8, <2>9, JobAnswer
<1>6. ASSUME StoreThrows PROVE CacheInv'
    <2>1. pc \notin {"answered", "over"} /\ Answer(Error("store"))
        BY <1>6 DEF StoreThrows
    <2>2. \E a \in NoJob : Answer(a)
        BY <2>1, AnswersAreNoJob
    <2> QED BY <2>1, <2>2, OtherAnswer
<1> QED BY <1>2, <1>4, <1>5, <1>6

LEMMA OthersKeep ==
    ASSUME CacheInv, StoreChanges \/ Measure \/ Over \/ UNCHANGED vars
    PROVE  CacheInv'
<1> USE DEF CacheInv
<1>1. ASSUME StoreChanges PROVE CacheInv'
    <2>1. /\ pc \notin {"answered", "over"} /\ changes' = changes - 1
          /\ UNCHANGED <<request, pc, level, current, looked, toQuery, answer, restarts>>
          /\ seen' = seen \cup valid' \cup substitutable'
          /\ unbuilt' = unbuilt \cup (Range(outputs) \ valid')
          /\ uncached' = uncached \cup (Range(outputs) \ substitutable')
        BY <1>1 DEF StoreChanges
    <2>2. PICK o \in Range(outputs) :
             \/ valid' = SymDiff(valid, {o}) /\ UNCHANGED substitutable
             \/ substitutable' = SymDiff(substitutable, {o}) /\ UNCHANGED valid
        BY <1>1 DEF StoreChanges
    <2>3. valid' \cup substitutable' \subseteq Range(outputs)
        BY <2>2 DEF TypeOK, SymDiff
    <2>4. UNCHANGED <<path, outputs, floating>>
        BY <2>1 DEF path, outputs, floating
    <2>5. answer.t = "none"
        BY <2>1 DEF TypeOK
    <2>6. TypeOK'
        BY <2>1, <2>3, <2>4 DEF TypeOK
    <2>7. StoreIsObserved'
        BY <2>1, <2>4 DEF StoreIsObserved
    <2>8. seen \subseteq seen' /\ unbuilt \subseteq unbuilt'
        BY <2>1
    <2>9. OutputsAreLookedAt'
        BY <2>1, <2>4, <2>8 DEF OutputsAreLookedAt
    <2> QED BY <2>1, <2>5, <2>6, <2>7, <2>9 DEF CachedIsTrue
<1>2. ASSUME Measure PROVE CacheInv'
    <2>1. /\ pc = "answered" /\ pc' = "over" /\ restarts' \in BOOLEAN
          /\ UNCHANGED <<request, level, current, looked, toQuery, answer, valid, substitutable,
                         changes, seen, unbuilt, uncached>>
        BY <1>2 DEF Measure, OverCeiling, storeState
    <2>2. UNCHANGED <<path, outputs, floating>>
        BY <2>1 DEF path, outputs, floating
    <2>3. TypeOK'
        BY <2>1, <2>2 DEF TypeOK
    <2> QED BY <2>1, <2>2, <2>3 DEF StoreIsObserved, OutputsAreLookedAt, CachedIsTrue
<1>3. ASSUME Over \/ UNCHANGED vars PROVE CacheInv'
    <2>1. UNCHANGED <<request, pc, level, current, looked, toQuery, answer, restarts, valid,
                      substitutable, changes, seen, unbuilt, uncached>>
        BY <1>3 DEF Over, vars, storeState
    <2>2. UNCHANGED <<path, outputs, floating>>
        BY <2>1 DEF path, outputs, floating
    <2>3. TypeOK'
        BY <2>1, <2>2 DEF TypeOK
    <2> QED BY <2>1, <2>2, <2>3 DEF StoreIsObserved, OutputsAreLookedAt, CachedIsTrue
<1> QED BY <1>1, <1>2, <1>3

LEMMA StartsObserved ==
    ASSUME Init
    PROVE  CacheInv
<1>1. request \in Requests
    BY DEF Init
<1>2. Len(path) \in Nat /\ Len(outputs) \in Nat
    BY <1>1, RequestIsWellFormed
<1>3. answer = [t |-> "none"] /\ answer \in [t: {"none", "ignore"}] /\ answer.t = "none"
    BY DEF Init
<1>4. /\ pc = "navigate" /\ level = 0 /\ current = Root /\ looked = 0 /\ toQuery = {}
      /\ restarts = FALSE /\ valid \subseteq Range(outputs) /\ substitutable \subseteq Range(outputs)
    BY DEF Init
<1>5. level \in 0..Len(path) /\ looked \in 0..Len(outputs)
    BY <1>2, <1>4
<1>6. TypeOK
    BY <1>3, <1>4, <1>5 DEF TypeOK
<1> QED BY <1>1, <1>3, <1>6 DEF Init, CacheInv, StoreIsObserved, OutputsAreLookedAt, CachedIsTrue

LEMMA CacheInvIsKept ==
    ASSUME CacheInv, [Next]_vars
    PROVE  CacheInv'
BY NavigateKeeps, ClassifyKeeps, QueryKeeps, OthersKeep DEF Next, EvalAttr


-----------------------------------------------------------------------------
(* Reading the path as the flake does *)

Asked == path[1] \in Type /\ path[2] = System
Throwing(k) == \E n \in InFlake[k] : flake.kind[n] = "throws"
Failed == \E k \in 0..Len(path) : Throwing(k)
Is(kinds) == \E n \in InFlake[Len(path)] : flake.kind[n] \in kinds

\* What AnswersReadAsInFlake asks of an answer.
ReadsAsInFlake(a) ==
    /\ Asked /\ (Failed \/ Is({"no drvPath"})) <=> a = Error("value")
    /\ Asked /\ ~Failed /\ Is({"derivation"}) <=> a.t = "job" \/ a = Error("store")
    /\ Asked /\ ~Failed /\ Is({"attrs"}) =>
           a = [t |-> "children",
                children |-> UNION {DOMAIN flake.attrs[n] : n \in InFlake[Len(path)]}]

\* v is what the first k components lead to in the flake: nothing has failed
\* before it, or it is what failing leads to.
Reads(v, k) ==
    \/ /\ v = Failing
       /\ \E j \in 0..(k - 1) : Throwing(j)
    \/ /\ v = Default
       /\ InFlake[k] = {}
       /\ \A j \in 0..(k - 1) : ~Throwing(j)
    \/ \E n \in Node :
          /\ v = Value(n)
          /\ InFlake[k] = {n}
          /\ \A j \in 0..(k - 1) : ~Throwing(j)

\* Before there is an answer.
OnThePath ==
    pc \notin {"answered", "over"} =>
        /\ level = 0 => current = Root
        /\ level = 1 => path[1] \in Type /\ current = TypeLevel(path[1])
        /\ level >= 2 => Asked /\ Reads(current, level)
        /\ pc # "navigate" => level = Len(path) /\ KindOf(current) # "throws"
        /\ pc \in {"valid", "substitutable"} => KindOf(current) = "derivation"

PathInv == CacheInv /\ OnThePath /\ AnswersReadAsInFlake

LEMMA ReadingIsTheProperty ==
    AnswersReadAsInFlake <=> (answer.t # "none" /\ Len(path) >= 2 => ReadsAsInFlake(answer))
BY DEF AnswersReadAsInFlake, ReadsAsInFlake, Asked, Throwing, Failed, Is

\* The values and what they are.
LEMMA KindsOfPlaces ==
    /\ KindOf(Root) = "attrs" /\ KindOf(Default) = "attrs" /\ KindOf(Failing) = "throws"
    /\ \A t : KindOf(TypeLevel(t)) = "attrs"
    /\ \A n : KindOf(Value(n)) = flake.kind[n]
<1>1. Root # Failing /\ Default # Failing
    BY RootsAreKinds
<1>2. \A t : TypeLevel(t) # Failing
    BY RootsAreKinds
<1> QED BY <1>1, <1>2, RootsAreKinds DEF KindOf

LEMMA NamesOfPlaces ==
    /\ Names(Root) = Type /\ Names(Default) = {} /\ Names(Failing) = {}
    /\ \A t : Names(TypeLevel(t)) = {System}
    /\ \A n : Names(Value(n)) = DOMAIN flake.attrs[n]
<1>1. Root # Default /\ Root # Failing
    BY RootsAreKinds
<1>2. \A t : TypeLevel(t) # Root
    BY RootsAreKinds
<1>3. \A n : Value(n) # Root
    BY RootsAreKinds
<1>4. Names(Root) = Type
    BY RootsAreKinds DEF Names
<1>5. Names(Default) = {}
    BY <1>1, RootsAreKinds DEF Names
<1>6. Names(Failing) = {}
    BY <1>1, RootsAreKinds DEF Names
<1>7. \A t : Names(TypeLevel(t)) = {System}
    BY <1>2, RootsAreKinds DEF Names
<1>8. \A n : Names(Value(n)) = DOMAIN flake.attrs[n]
    BY <1>3, RootsAreKinds DEF Names
<1> QED BY <1>4, <1>5, <1>6, <1>7, <1>8

LEMMA AttrsOfPlaces ==
    /\ \A name : Attr(Root, name) = TypeLevel(name)
    /\ \A t, name : Attr(TypeLevel(t), name) = Select(t)
    /\ \A n, name : Attr(Value(n), name) = Value(flake.attrs[n][name])
<1>1. \A t : TypeLevel(t) # Root
    BY RootsAreKinds
<1>2. \A n : Value(n) # Root
    BY RootsAreKinds
<1>3. \A name : Attr(Root, name) = TypeLevel(name)
    BY RootsAreKinds DEF Attr
<1>4. \A t, name : Attr(TypeLevel(t), name) = Select(t)
    BY <1>1, RootsAreKinds DEF Attr
<1>5. \A n, name : Attr(Value(n), name) = Value(flake.attrs[n][name])
    BY <1>2, RootsAreKinds DEF Attr
<1> QED BY <1>3, <1>4, <1>5

\* One level down, with or without a default.
LEMMA ReadsOn ==
    ASSUME request \in Requests, NEW v, NEW k \in 0..(Len(path) - 1), Reads(v, k)
    PROVE  Reads(OrDefault(v, path[k + 1]), k + 1)
<1>1. /\ Len(path) \in Nat /\ k + 1 \in 1..Len(path) /\ (k + 1) - 1 = k /\ k \in Nat
      /\ InFlake[k + 1] = Below(InFlake[k], path[k + 1])
    <2>1. Len(path) \in Nat
        BY RequestIsWellFormed
    <2>2. k + 1 \in 1..Len(path) /\ (k + 1) - 1 = k /\ k \in Nat
        BY <2>1
    <2> QED BY <2>1, <2>2, InFlakeValues
<1> DEFINE name == path[k + 1]
<1>2. \A j \in 0..((k + 1) - 1) : j \in 0..(k - 1) \/ j = k
    BY <1>1
<1>3. \A j \in 0..(k - 1) : j \in 0..((k + 1) - 1)
    BY <1>1
<1>4. k \in 0..((k + 1) - 1)
    BY <1>1
<1>5. CASE v = Failing /\ \E j \in 0..(k - 1) : Throwing(j)
    <2>1. OrDefault(v, name) = Failing
        BY <1>5, RootsAreKinds DEF OrDefault
    <2> QED BY <1>3, <1>5, <2>1 DEF Reads
<1>6. CASE v = Default /\ InFlake[k] = {} /\ \A j \in 0..(k - 1) : ~Throwing(j)
    <2>1. OrDefault(v, name) = Default
        BY <1>6, RootsAreKinds DEF OrDefault
    <2>2. InFlake[k + 1] = {} /\ ~Throwing(k)
        BY <1>1, <1>6 DEF Below, Throwing
    <2> QED BY <1>2, <1>6, <2>1, <2>2 DEF Reads
<1>7. ASSUME NEW n \in Node, v = Value(n), InFlake[k] = {n}, \A j \in 0..(k - 1) : ~Throwing(j)
      PROVE  Reads(OrDefault(v, name), k + 1)
    <2>1. v.at = "flake" /\ v.node = n
        BY <1>7, RootsAreKinds
    <2>2. Throwing(k) <=> flake.kind[n] = "throws"
        BY <1>7 DEF Throwing
    <2>3. CASE flake.kind[n] = "throws"
        <3>1. OrDefault(v, name) = Failing
            BY <2>1, <2>3 DEF OrDefault, SetKinds
        <3> QED BY <1>4, <2>2, <2>3, <3>1 DEF Reads
    <2>4. CASE flake.kind[n] \in SetKinds /\ name \in DOMAIN flake.attrs[n]
        <3>1. flake.kind[n] # "throws"
            BY <2>4 DEF SetKinds
        <3>2. OrDefault(v, name) = Value(flake.attrs[n][name])
            BY <2>1, <2>4, <3>1 DEF OrDefault
        <3>3. InFlake[k + 1] = {flake.attrs[n][name]} /\ flake.attrs[n][name] \in Node
            BY <1>1, <1>7, <2>4, RequestIsWellFormed DEF Below
        <3> QED BY <1>2, <1>7, <2>2, <3>1, <3>2, <3>3 DEF Reads
    <2>5. CASE flake.kind[n] # "throws" /\ ~(flake.kind[n] \in SetKinds /\ name \in DOMAIN flake.attrs[n])
        <3>1. OrDefault(v, name) = Default
            BY <2>1, <2>5 DEF OrDefault
        <3>2. InFlake[k + 1] = {}
            BY <1>1, <1>7, <2>5 DEF Below
        <3> QED BY <1>2, <1>7, <2>2, <2>5, <3>1, <3>2 DEF Reads
    <2> QED BY <2>3, <2>4, <2>5
<1> QED BY <1>5, <1>6, <1>7 DEF Reads

\* The flake itself, and what is selected of it.
LEMMA SelectReads ==
    ASSUME request \in Requests, Len(path) >= 2, path[2] = System
    PROVE  Reads(Select(path[1]), 2)
<1>1. Len(path) \in Nat /\ flake.self \in Node /\ 0 \in 0..(Len(path) - 1) /\ 1 \in 0..(Len(path) - 1)
    BY RequestIsWellFormed
<1>2. InFlake[0] = {flake.self}
    BY <1>1, InFlakeValues
<1>3. Reads(Value(flake.self), 0)
    BY <1>1, <1>2 DEF Reads
<1>4. Reads(OrDefault(Value(flake.self), path[0 + 1]), 0 + 1)
    BY <1>1, <1>3, ReadsOn
<1>5. 0 + 1 = 1 /\ 1 + 1 = 2
    OBVIOUS
<1> DEFINE v == OrDefault(Value(flake.self), path[1])
<1>6. Reads(v, 1)
    BY <1>4, <1>5
<1> HIDE DEF v
<1>7. Reads(OrDefault(v, path[1 + 1]), 1 + 1)
    BY <1>1, <1>6, ReadsOn
<1> QED BY <1>5, <1>7 DEF Select, v

\* Where the path ends: what was found is what the path names.
LEMMA EndOfPath ==
    ASSUME request \in Requests, NEW v, Reads(v, Len(path)), KindOf(v) # "throws"
    PROVE  /\ ~Failed
           /\ \/ v = Default /\ InFlake[Len(path)] = {}
              \/ \E n \in Node : v = Value(n) /\ InFlake[Len(path)] = {n}
<1>1. Len(path) \in Nat
    BY RequestIsWellFormed
<1>2. \A k \in 0..Len(path) : k \in 0..(Len(path) - 1) \/ k = Len(path)
    BY <1>1
<1>3. CASE v = Default /\ InFlake[Len(path)] = {} /\ \A j \in 0..(Len(path) - 1) : ~Throwing(j)
    <2>1. ~Throwing(Len(path))
        BY <1>3 DEF Throwing
    <2> QED BY <1>2, <1>3, <2>1 DEF Failed
<1>4. ASSUME NEW n \in Node, v = Value(n), InFlake[Len(path)] = {n},
             \A j \in 0..(Len(path) - 1) : ~Throwing(j)
      PROVE  ~Failed
    <2>1. ~Throwing(Len(path))
        BY <1>4, KindsOfPlaces DEF Throwing
    <2> QED BY <1>2, <1>4, <2>1 DEF Failed
<1> QED BY <1>3, <1>4, KindsOfPlaces DEF Reads

\* Where the path leaves what there is: nothing is named by it and nothing fails.
LEMMA OffThePath ==
    ASSUME request \in Requests, NEW k \in 0..(Len(path) - 1), NEW v, Reads(v, k),
           KindOf(v) # "throws", ~IsAttrs(v) \/ path[k + 1] \notin Names(v)
    PROVE  ~Failed /\ InFlake[Len(path)] = {}
<1>1. /\ Len(path) \in Nat /\ k + 1 \in 1..Len(path) /\ (k + 1) - 1 = k /\ k \in Nat
    <2>1. Len(path) \in Nat
        BY RequestIsWellFormed
    <2> QED BY <2>1
<1>2. InFlake[k + 1] = Below(InFlake[k], path[k + 1])
    BY <1>1, InFlakeValues
<1>3. InFlake[k + 1] = {} /\ ~Throwing(k)
    <2>1. CASE v = Default /\ InFlake[k] = {}
        BY <1>2, <2>1 DEF Below, Throwing
    <2>2. ASSUME NEW n \in Node, v = Value(n), InFlake[k] = {n}
          PROVE  InFlake[k + 1] = {} /\ ~Throwing(k)
        <3>1. flake.kind[n] # "throws"
            BY <2>2, KindsOfPlaces
        <3>2. flake.kind[n] \notin SetKinds \/ path[k + 1] \notin DOMAIN flake.attrs[n]
            BY <2>2, KindsOfPlaces, NamesOfPlaces DEF IsAttrs
        <3> QED BY <1>2, <2>2, <3>1, <3>2 DEF Below, Throwing
    <2> QED BY <2>1, <2>2, KindsOfPlaces DEF Reads
<1>4. \A j \in 0..(k - 1) : ~Throwing(j)
    BY KindsOfPlaces DEF Reads
<1>5. \A j \in (k + 1)..Len(path) : InFlake[j] = {}
    <2>1. k + 1 \in 0..Len(path)
        BY <1>1
    <2> QED BY <1>1, <1>3, <2>1, NothingBelow
<1>6. \A j \in 0..Len(path) : j \in 0..(k - 1) \/ j = k \/ j \in (k + 1)..Len(path)
    BY <1>1
<1>7. Len(path) \in (k + 1)..Len(path)
    BY <1>1
<1> QED BY <1>3, <1>4, <1>5, <1>6, <1>7 DEF Failed, Throwing


\* What the path names is the request's.
LEMMA PathStays ==
    ASSUME request' = request
    PROVE  /\ path' = path /\ flake' = flake
           /\ InFlake' = InFlake
BY DEF InFlake, path, flake

\* The answer given at a place that was reached on the path.
LEMMA AnswerReads ==
    ASSUME PathInv, Next, answer'.t # "none", Len(path) >= 2, answer.t = "none"
    PROVE  ReadsAsInFlake(answer')
<1> USE DEF PathInv, CacheInv
<1>1. /\ pc \notin {"answered", "over"} /\ request \in Requests /\ request' = request
      /\ level \in 0..Len(path) /\ Len(path) \in Nat /\ current \in Place
    <2>1. pc \notin {"answered", "over"}
        BY DEF TypeOK
    <2>2. request' = request
        BY DEF Next, EvalAttr, StoreChanges, Measure, Over, vars, ForceThrows, StepDown, NotThere,
               Arrive, NotADerivation, NoDrvPath, ADerivation, LookUp, LookedUpAll,
               AskSubstituters, StoreThrows, Job, Answer
    <2> QED BY <2>1, <2>2, RequestIsWellFormed DEF TypeOK, Place
<1>2. \/ ForceThrows \/ NotThere \/ NotADerivation \/ NoDrvPath
      \/ /\ pc \in {"valid", "substitutable"}
         /\ StoreThrows \/ \E isCached \in BOOLEAN : Job(isCached)
    <2>1. ~(StepDown \/ Arrive \/ ADerivation \/ StoreChanges \/ Measure \/ Over)
        BY <1>1 DEF StepDown, Arrive, ADerivation, StoreChanges, Measure, Over
    <2>2. ASSUME LookUp PROVE pc = "valid" /\ \E isCached \in BOOLEAN : Job(isCached)
        BY <2>2 DEF LookUp
    <2>3. ASSUME LookedUpAll PROVE pc = "valid" /\ \E isCached \in BOOLEAN : Job(isCached)
        BY <2>3 DEF LookedUpAll
    <2>4. ASSUME AskSubstituters PROVE pc = "substitutable" /\ \E isCached \in BOOLEAN : Job(isCached)
        BY <2>4 DEF AskSubstituters, AllFound
    <2>5. StoreThrows => pc \in {"valid", "substitutable"}
        BY DEF StoreThrows
    <2> QED BY <2>1, <2>2, <2>3, <2>4, <2>5 DEF Next, EvalAttr
<1>3. level >= 2 => Asked /\ Reads(current, level)
    BY <1>1 DEF OnThePath
<1>4. KindOf(current) = "throws" => level >= 2
    <2>1. level = 0 => current = Root
        BY <1>1 DEF OnThePath
    <2>2. level = 1 => current = TypeLevel(path[1])
        BY <1>1 DEF OnThePath
    <2> QED BY <1>1, <2>1, <2>2, KindsOfPlaces
<1>5. ASSUME level = Len(path), KindOf(current) # "throws"
      PROVE  /\ Asked /\ ~Failed
             /\ \/ current = Default /\ InFlake[Len(path)] = {}
                \/ \E n \in Node : current = Value(n) /\ InFlake[Len(path)] = {n}
    BY <1>1, <1>3, <1>5, EndOfPath
<1>6. CASE ForceThrows
    <2>1. KindOf(current) = "throws" /\ answer' = Error("value")
        BY <1>6 DEF ForceThrows, Answer
    <2>2. answer'.t = "error" /\ answer' # Error("store")
        BY <2>1, AnswersAreNoJob
    <2>3. Asked /\ Reads(current, level)
        BY <1>3, <1>4, <2>1
    <2>4. Failed
        <3>1. \A j \in 0..(level - 1) : j \in 0..Len(path)
            BY <1>1
        <3>2. current = Failing => Failed
            BY <2>3, <3>1, RootsAreKinds DEF Reads, Failed
        <3>3. current # Default
            BY <2>1, KindsOfPlaces
        <3>4. ASSUME NEW n \in Node, current = Value(n), InFlake[level] = {n} PROVE Failed
            BY <1>1, <2>1, <3>4, KindsOfPlaces DEF Failed, Throwing
        <3> QED BY <2>3, <3>2, <3>3, <3>4 DEF Reads
    <2> QED BY <2>1, <2>2, <2>3, <2>4 DEF ReadsAsInFlake
<1>7. CASE NotThere
    <2>1. /\ level < Len(path) /\ KindOf(current) # "throws" /\ answer' = [t |-> "ignore"]
          /\ ~IsAttrs(current) \/ path[level + 1] \notin Names(current)
        BY <1>7 DEF NotThere, Missing, Answer
    <2>2. answer'.t = "ignore" /\ answer' # Error("value") /\ answer' # Error("store")
        BY <2>1, AnswersAreNoJob
    <2>3. Asked => ~Failed /\ InFlake[Len(path)] = {}
        <3>1. CASE level = 0
            <4>1. current = Root
                BY <1>1, <3>1 DEF OnThePath
            <4>2. path[0 + 1] \notin Type
                BY <2>1, <3>1, <4>1, KindsOfPlaces, NamesOfPlaces DEF IsAttrs, SetKinds
            <4> QED BY <4>2 DEF Asked
        <3>2. CASE level = 1
            <4>1. current = TypeLevel(path[1])
                BY <1>1, <3>2 DEF OnThePath
            <4>2. path[1 + 1] # System
                BY <2>1, <3>2, <4>1, KindsOfPlaces, NamesOfPlaces DEF IsAttrs, SetKinds
            <4> QED BY <4>2 DEF Asked
        <3>3. CASE level >= 2
            <4>1. level \in 0..(Len(path) - 1)
                BY <1>1, <2>1
            <4> QED BY <1>1, <1>3, <2>1, <3>3, <4>1, OffThePath
        <3> QED BY <1>1, <3>1, <3>2, <3>3
    <2>4. Asked => ~Failed /\ \A kinds : ~Is(kinds)
        BY <2>3 DEF Is
    <2> QED BY <2>2, <2>4 DEF ReadsAsInFlake
<1>8. ASSUME pc # "navigate"
      PROVE  /\ Asked /\ ~Failed
             /\ \/ current = Default /\ InFlake[Len(path)] = {}
                \/ \E n \in Node : current = Value(n) /\ InFlake[Len(path)] = {n}
    <2>1. level = Len(path) /\ KindOf(current) # "throws"
        BY <1>1, <1>8 DEF OnThePath
    <2> QED BY <1>5, <2>1
<1>9. CASE NotADerivation
    <2>1. /\ pc = "classify" /\ ~IsDerivation(current)
          /\ answer' = IF IsAttrs(current)
                       THEN [t |-> "children", children |-> Names(current)]
                       ELSE [t |-> "ignore"]
        BY <1>9 DEF NotADerivation, Answer
    <2>2. /\ answer'.t \in {"children", "ignore"}
          /\ answer' # Error("value") /\ answer' # Error("store")
        BY <2>1, AnswersAreNoJob
    <2>3. CASE current = Default /\ InFlake[Len(path)] = {}
        <3>1. \A kinds : ~Is(kinds)
            BY <2>3 DEF Is
        <3> QED BY <1>8, <2>1, <2>2, <3>1 DEF ReadsAsInFlake
    <2>4. ASSUME NEW n \in Node, current = Value(n), InFlake[Len(path)] = {n}
          PROVE  ReadsAsInFlake(answer')
        <3>1. \A kinds : Is(kinds) <=> flake.kind[n] \in kinds
            BY <2>4 DEF Is
        <3>2. flake.kind[n] \notin {"derivation", "no drvPath"}
            BY <2>1, <2>4, KindsOfPlaces DEF IsDerivation
        <3>3. ASSUME flake.kind[n] = "attrs"
              PROVE  answer' = [t |-> "children", children |-> UNION {DOMAIN flake.attrs[m] : m \in InFlake[Len(path)]}]
            <4>1. IsAttrs(current)
                BY <2>4, <3>3, KindsOfPlaces DEF IsAttrs, SetKinds
            <4>2. answer' = [t |-> "children", children |-> Names(current)]
                BY <2>1, <4>1
            <4>3. Names(current) = DOMAIN flake.attrs[n]
                BY <2>4, NamesOfPlaces
            <4>4. UNION {DOMAIN flake.attrs[m] : m \in InFlake[Len(path)]} = DOMAIN flake.attrs[n]
                BY <2>4
            <4> QED BY <4>2, <4>3, <4>4
        <3>4. Is({"attrs"}) => flake.kind[n] = "attrs"
            BY <3>1
        <3>5. ~Is({"no drvPath"}) /\ ~Is({"derivation"}) /\ ~Failed
            BY <1>8, <2>1, <3>1, <3>2
        <3> QED BY <2>2, <3>3, <3>4, <3>5 DEF ReadsAsInFlake
    <2> QED BY <1>8, <2>1, <2>3, <2>4
<1>10. ASSUME pc # "navigate", IsDerivation(current)
       PROVE  \E n \in Node : current = Value(n) /\ InFlake[Len(path)] = {n}
    <2>1. current # Default
        BY <1>10, KindsOfPlaces DEF IsDerivation
    <2> QED BY <1>8, <1>10, <2>1
<1>11. CASE NoDrvPath
    <2>1. pc = "classify" /\ KindOf(current) = "no drvPath" /\ answer' = Error("value")
        BY <1>11 DEF NoDrvPath, Answer
    <2>2. answer'.t = "error" /\ answer' # Error("store")
        BY <2>1, AnswersAreNoJob
    <2>3. PICK n \in Node : current = Value(n) /\ InFlake[Len(path)] = {n}
        BY <1>10, <2>1 DEF IsDerivation
    <2>4. flake.kind[n] = "no drvPath"
        BY <2>1, <2>3, KindsOfPlaces
    <2>5. Is({"no drvPath"}) /\ ~Is({"derivation"}) /\ ~Is({"attrs"})
        BY <2>3, <2>4 DEF Is
    <2>6. Asked /\ ~Failed
        BY <1>8, <2>1
    <2> QED BY <2>1, <2>2, <2>5, <2>6 DEF ReadsAsInFlake
<1>12. ASSUME pc \in {"valid", "substitutable"},
              StoreThrows \/ \E isCached \in BOOLEAN : Job(isCached)
       PROVE  ReadsAsInFlake(answer')
    <2>1. KindOf(current) = "derivation"
        BY <1>12 DEF OnThePath
    <2>2. answer' # Error("value") /\ (answer'.t = "job" \/ answer' = Error("store"))
        BY <1>12, AnswersAreNoJob DEF StoreThrows, Job, Answer
    <2>3. PICK n \in Node : current = Value(n) /\ InFlake[Len(path)] = {n}
        BY <1>10, <1>12, <2>1 DEF IsDerivation
    <2>4. flake.kind[n] = "derivation"
        BY <2>1, <2>3, KindsOfPlaces
    <2>5. ~Is({"no drvPath"}) /\ Is({"derivation"}) /\ ~Is({"attrs"})
        BY <2>3, <2>4 DEF Is
    <2>6. Asked /\ ~Failed
        BY <1>8, <1>12
    <2> QED BY <2>2, <2>5, <2>6 DEF ReadsAsInFlake
<1> QED BY <1>2, <1>6, <1>7, <1>9, <1>11, <1>12

\* A step that stays at the value it has reached.
LEMMA StaysOnThePath ==
    ASSUME PathInv, UNCHANGED <<request, level, current>>, pc \notin {"answered", "over"},
           pc' # "navigate" => level = Len(path) /\ KindOf(current) # "throws",
           pc' \in {"valid", "substitutable"} => KindOf(current) = "derivation"
    PROVE  OnThePath'
<1>1. path' = path /\ flake' = flake /\ InFlake' = InFlake
    BY PathStays
<1>2. KindOf(current)' = KindOf(current)
    BY <1>1 DEF KindOf
<1>3. Asked' = Asked
    BY <1>1 DEF Asked
<1>4. Reads(current, level)' = Reads(current, level)
    BY <1>1 DEF Reads, Throwing
<1> QED BY <1>1, <1>2, <1>3, <1>4 DEF PathInv, OnThePath

LEMMA StepsDownThePath ==
    ASSUME PathInv, StepDown
    PROVE  OnThePath'
<1> USE DEF PathInv, CacheInv
<1> DEFINE name == path[level + 1]
<1>1. /\ pc = "navigate" /\ level < Len(path) /\ IsAttrs(current) /\ name \in Names(current)
      /\ current' = Attr(current, name) /\ level' = level + 1 /\ pc' = pc
      /\ request' = request
    BY DEF StepDown, Missing
<1>2. path' = path /\ flake' = flake /\ InFlake' = InFlake
    BY <1>1, PathStays
<1>3. /\ request \in Requests /\ Len(path) \in Nat /\ level \in 0..(Len(path) - 1)
      /\ current \in Place /\ level \in Nat
    <2>1. Len(path) \in Nat /\ level \in 0..Len(path)
        BY RequestIsWellFormed DEF TypeOK
    <2> QED BY <1>1, <2>1 DEF TypeOK, Place
<1>4. Asked' = Asked
    BY <1>2 DEF Asked
<1>5. \A v, k : Reads(v, k)' = Reads(v, k)
    BY <1>2 DEF Reads, Throwing
<1>6. CASE level = 0
    <2>1. current = Root
        BY <1>1, <1>6 DEF OnThePath
    <2>2. path[1] \in Type /\ current' = TypeLevel(path[1]) /\ level' = 1
        BY <1>1, <1>6, <2>1, NamesOfPlaces, AttrsOfPlaces
    <2> QED BY <1>1, <1>2, <2>2 DEF OnThePath
<1>7. CASE level = 1
    <2>1. path[1] \in Type /\ current = TypeLevel(path[1])
        BY <1>1, <1>7 DEF OnThePath
    <2>2. path[2] = System /\ current' = Select(path[1]) /\ level' = 2
        BY <1>1, <1>7, <2>1, NamesOfPlaces, AttrsOfPlaces
    <2>3. Len(path) >= 2
        BY <1>1, <1>3, <1>7
    <2>4. Reads(current', level')
        BY <1>3, <2>2, <2>3, SelectReads
    <2>5. Asked
        BY <2>1, <2>2 DEF Asked
    <2> QED BY <1>1, <1>4, <1>5, <2>2, <2>4, <2>5 DEF OnThePath
<1>8. CASE level >= 2
    <2>1. Asked /\ Reads(current, level)
        BY <1>1, <1>8 DEF OnThePath
    <2>2. current # Default /\ current # Failing
        BY <1>1, NamesOfPlaces
    <2>3. PICK n \in Node : current = Value(n)
        BY <2>1, <2>2 DEF Reads
    <2>4. flake.kind[n] \in SetKinds /\ name \in DOMAIN flake.attrs[n]
        BY <1>1, <2>3, KindsOfPlaces, NamesOfPlaces DEF IsAttrs
    <2>5. current' = Value(flake.attrs[n][name])
        BY <1>1, <2>3, AttrsOfPlaces
    <2>6. OrDefault(current, name) = Value(flake.attrs[n][name])
        BY <2>3, <2>4, RootsAreKinds DEF OrDefault, SetKinds
    <2>7. Reads(OrDefault(current, path[level + 1]), level + 1)
        BY <1>3, <2>1, ReadsOn
    <2>8. Reads(current', level')
        BY <1>1, <2>5, <2>6, <2>7
    <2>9. level' # 0 /\ level' # 1
        BY <1>1, <1>3, <1>8
    <2> QED BY <1>1, <1>4, <1>5, <2>1, <2>8, <2>9 DEF OnThePath
<1> QED BY <1>3, <1>6, <1>7, <1>8

LEMMA PathInvIsKept ==
    ASSUME PathInv, [Next]_vars
    PROVE  PathInv'
<1> USE DEF PathInv
<1>1. CacheInv'
    BY CacheInvIsKept
<1>2. request' = request
    BY DEF Next, EvalAttr, StoreChanges, Measure, Over, vars, ForceThrows, StepDown, NotThere,
           Arrive, NotADerivation, NoDrvPath, ADerivation, LookUp, LookedUpAll,
           AskSubstituters, StoreThrows, Job, Answer
<1>3. path' = path /\ flake' = flake /\ InFlake' = InFlake
    BY <1>2, PathStays
<1>4. AnswersReadAsInFlake' <=>
          (answer'.t # "none" /\ Len(path) >= 2 => ReadsAsInFlake(answer'))
    BY <1>3, ZenonT(60) DEF AnswersReadAsInFlake, ReadsAsInFlake, Asked, Throwing, Failed, Is
<1>5. ASSUME answer.t # "none"
      PROVE  answer' = answer
    <2>1. pc \in {"answered", "over"}
        BY <1>5 DEF CacheInv, TypeOK
    <2> QED BY <2>1 DEF Next, EvalAttr, StoreChanges, Measure, Over, vars, ForceThrows, StepDown,
           NotThere, Arrive, NotADerivation, NoDrvPath, ADerivation, LookUp, LookedUpAll,
           AskSubstituters, StoreThrows
<1>6. AnswersReadAsInFlake'
    <2>1. CASE answer.t # "none"
        BY <1>4, <1>5, <2>1, ReadingIsTheProperty
    <2>2. CASE answer.t = "none" /\ UNCHANGED vars
        BY <1>4, <2>2 DEF vars
    <2>3. CASE answer.t = "none" /\ Next
        BY <1>4, <2>3, AnswerReads
    <2> QED BY <2>1, <2>2, <2>3
<1>7. OnThePath'
    <2>1. CASE pc' \in {"answered", "over"}
        BY <2>1 DEF OnThePath
    <2>2. CASE StepDown
        BY <2>2, StepsDownThePath
    <2>3. CASE Arrive
        BY <2>3, StaysOnThePath DEF Arrive
    <2>4. CASE ADerivation
        <3>1. /\ pc = "classify" /\ KindOf(current) = "derivation" /\ pc' = "valid"
              /\ UNCHANGED <<request, level, current>>
            BY <2>4 DEF ADerivation
        <3>2. level = Len(path)
            BY <3>1 DEF OnThePath
        <3> QED BY <3>1, <3>2, StaysOnThePath
    <2>5. ASSUME (pc \in {"valid", "substitutable"} /\ pc' \in {"valid", "substitutable"}) \/ pc' = pc,
                 UNCHANGED <<request, level, current>>, pc \notin {"answered", "over"}
          PROVE  OnThePath'
        BY <2>5, StaysOnThePath DEF OnThePath
    <2>6. CASE (LookUp \/ LookedUpAll) /\ pc' \notin {"answered", "over"}
        BY <2>5, <2>6 DEF LookUp, LookedUpAll, Job, Answer
    <2>7. CASE StoreChanges
        BY <2>5, <2>7 DEF StoreChanges
    <2>8. CASE UNCHANGED vars \/ Over
        BY <2>1, <2>5, <2>8 DEF vars, Over
    <2>9. CASE \/ ForceThrows \/ NotThere \/ NotADerivation \/ NoDrvPath \/ AskSubstituters
               \/ StoreThrows \/ Measure
        <3>1. pc' \in {"answered", "over"}
            BY <2>9 DEF ForceThrows, NotThere, NotADerivation, NoDrvPath, AskSubstituters,
                   StoreThrows, Measure, Job, Answer
        <3> QED BY <2>1, <3>1
    <2> QED BY <2>1, <2>2, <2>3, <2>4, <2>6, <2>7, <2>8, <2>9 DEF Next, EvalAttr
<1> QED BY <1>1, <1>6, <1>7

LEMMA StartsOnThePath ==
    ASSUME Init
    PROVE  PathInv
<1>1. CacheInv
    BY StartsObserved
<1>2. pc = "navigate" /\ level = 0 /\ current = Root /\ answer = [t |-> "none"]
    BY DEF Init
<1>3. answer.t = "none"
    BY <1>2
<1> QED BY <1>1, <1>2, <1>3, ReadingIsTheProperty DEF PathInv, OnThePath

-----------------------------------------------------------------------------
(* Numbers in a text *)

Wraps(n, d) == (10 * n + d) % Word

\* Each digit is taken behind those before it.
LEMMA Accumulates ==
    ASSUME NEW digits \in Seq(Digit)
    PROVE  \E p : /\ p[0] = 0 /\ Accumulate(digits) = p[Len(digits)]
                  /\ \A m \in 0..(Len(digits) - 1) : p[m + 1] = Wraps(p[m], DigitValue[digits[m + 1]])
<1> DEFINE n == Len(digits)
           IsIter(iter) ==
               iter = [s \in SUBSET (1..n) |->
                          IF s = {} THEN 0 ELSE Wraps(iter[s \ {Max(s)}], DigitValue[digits[Max(s)]])]
           step == [x \in Nat \X (1..n) |-> Wraps(x[1], DigitValue[digits[x[2]]])]
<1>0. n \in Nat /\ DOMAIN digits = 1..n /\ \A j \in 1..n : digits[j] \in Digit
    BY LenProperties, ElementOfSeq
<1>1. Accumulate(digits) = (CHOOSE iter : IsIter(iter))[1..n]
    <2> HIDE DEF n
    <2> QED BY <1>0 DEF Accumulate, FoldLeft, MapThenFoldSet, Wraps
<1>2. \E iter : IsIter(iter)
    <2>1. \A m \in Nat, j \in 1..n : Wraps(m, DigitValue[digits[j]]) \in Nat
        <3> TAKE m \in Nat, j \in 1..n
        <3>1. DigitValue[digits[j]] \in Nat
            BY <1>0, DigitsHaveValues
        <3>2. 10 * m + DigitValue[digits[j]] \in Nat /\ Word \in Nat \ {0}
            BY <3>1, ResidentMemoryAssumption
        <3> QED BY <3>2 DEF Wraps
    <2>2. /\ step \in [Nat \X (1..n) -> Nat]
          /\ \A m \in Nat, j \in 1..n : step[<<m, j>>] = Wraps(m, DigitValue[digits[j]])
        BY <2>1
    <2> HIDE DEF step, n
    <2>3. PICK iter \in [SUBSET (1..n) -> Nat] : IsFold(iter, 0, step, n)
        BY <1>0, <2>2, FoldExists
    <2>4. \A s \in SUBSET (1..n) :
              iter[s] = IF s = {} THEN 0 ELSE step[<<iter[s \ {Max(s)}], Max(s)>>]
        BY <2>3 DEF IsFold
    <2>5. ASSUME NEW s \in SUBSET (1..n)
          PROVE  iter[s] = IF s = {} THEN 0 ELSE Wraps(iter[s \ {Max(s)}], DigitValue[digits[Max(s)]])
        <3>1. CASE s = {}
            BY <2>4, <3>1
        <3>2. CASE s # {}
            <4>1. Max(s) \in 1..n
                BY <1>0, <3>2, MaxOfSome
            <4>2. iter[s \ {Max(s)}] \in Nat
                BY <2>3
            <4> QED BY <2>2, <2>4, <3>2, <4>1, <4>2
        <3> QED BY <3>1, <3>2
    <2>6. IsIter(iter)
        BY <2>3, <2>5
    <2> QED BY <2>6
<1> DEFINE iter == CHOOSE iter : IsIter(iter)
           p == [m \in 0..n |-> iter[1..m]]
<1>3. IsIter(iter)
    <2> HIDE DEF IsIter
    <2> QED BY <1>2
<1>4. \A s \in SUBSET (1..n) :
          iter[s] = IF s = {} THEN 0 ELSE Wraps(iter[s \ {Max(s)}], DigitValue[digits[Max(s)]])
    <2> HIDE DEF iter
    <2> QED BY <1>3
<1> HIDE DEF iter
<1>5. p[0] = 0
    <2>1. {} \in SUBSET (1..n) /\ 1..0 = {} /\ 0 \in 0..n
        BY <1>0
    <2> QED BY <1>4, <2>1
<1>6. ASSUME NEW m \in 0..(n - 1) PROVE p[m + 1] = Wraps(p[m], DigitValue[digits[m + 1]])
    <2>1. m \in Nat /\ m \in 0..n /\ m + 1 \in 0..n /\ 1..(m + 1) \in SUBSET (1..n)
        BY <1>0
    <2>2. /\ 1..(m + 1) # {} /\ Max(1..(m + 1)) = m + 1
          /\ (1..(m + 1)) \ {m + 1} = 1..m
        BY <2>1, LastOfFirst
    <2>3. iter[1..(m + 1)] = Wraps(iter[1..m], DigitValue[digits[m + 1]])
        BY <1>4, <2>1, <2>2
    <2> QED BY <2>1, <2>3
<1>7. Accumulate(digits) = p[n]
    <2>1. n \in 0..n
        BY <1>0
    <2> QED BY <1>1, <2>1 DEF iter
<1> HIDE DEF p
<1> QED BY <1>5, <1>6, <1>7

\* n times t is the sum, or the sum wraps and it is no more.
Tracks(n, t, sum) ==
    n \in Nat /\ sum \in Nat /\ n * t <= sum /\ (sum < Word => n * t = sum)

LEMMA OneMoreDigit ==
    ASSUME NEW x \in Nat, NEW d \in Nat, NEW t \in Nat, t >= 1, NEW tens, tens = 10 * t,
           NEW before, Tracks(x, tens, before), NEW sum, sum = d * t + before
    PROVE  Tracks(Wraps(x, d), t, sum)
<1> DEFINE n == 10 * x + d
           y == n % Word
           after == d * t + before
<1>0. before \in Nat /\ x * (10 * t) <= before /\ (before < Word => x * (10 * t) = before)
    BY DEF Tracks
<1>1. n \in Nat /\ Word \in Nat \ {0}
    BY ResidentMemoryAssumption
<1>2. n * t = d * t + x * (10 * t)
    OBVIOUS
<1>a. x * (10 * t) \in Nat /\ d * t \in Nat
    OBVIOUS
<1>3. n * t <= after /\ after \in Nat /\ n * t \in Nat
    BY <1>0, <1>2, <1>a
<1> HIDE DEF n
<1>4. y \in Nat /\ y <= n /\ (n < Word => y = n)
    BY <1>1
<1>5. y * t <= n * t
    <2>1. \A a, b, c \in Nat : a <= b => a * c <= b * c
        OBVIOUS
    <2> HIDE DEF y
    <2> QED BY <1>1, <1>4, <2>1
<1>6. n <= n * t
    <2>1. \A a, b \in Nat : b >= 1 => a <= a * b
        OBVIOUS
    <2> QED BY <1>1, <2>1
<1>7. ASSUME after < Word PROVE y * t = after
    <2>1. before < Word
        BY <1>0, <1>7, <1>a, <1>1
    <2>2. n * t = after
        BY <1>0, <1>2, <2>1
    <2>3. n < Word
        BY <1>1, <1>3, <1>6, <1>7, <2>2
    <2> QED BY <1>4, <2>2, <2>3
<1>8. y * t <= after
    <2> HIDE DEF after
    <2>1. y * t \in Nat
        BY <1>4
    <2> HIDE DEF y
    <2> QED BY <1>3, <1>5, <2>1
<1>9. Wraps(x, d) = y
    BY DEF Wraps, n
<1> HIDE DEF y
<1>10. sum = after
    OBVIOUS
<1> HIDE DEF after
<1> QED BY <1>3, <1>4, <1>7, <1>8, <1>9, <1>10 DEF Tracks

\* A text's digits from its k-th character on, and where they end.
EndOfDigits(text, k) ==
    Min({Len(text) + 1} \cup {j \in k..Len(text) : text[j] \notin Digit}) - 1

LEMMA DigitsAreARow ==
    ASSUME NEW text \in Seq(STRING), NEW k \in Nat \ {0}, k <= Len(text)
    PROVE  LET end == EndOfDigits(text, k)
           IN  /\ end \in Nat /\ k <= end + 1 /\ end <= Len(text)
               /\ Digits(text, k) = k..end
               /\ \A j \in k..end : text[j] \in Digit
               /\ LeadingDigits(text, k) \in Seq(Digit)
               /\ Len(LeadingDigits(text, k)) = end + 1 - k
               /\ \A m \in 1..(end + 1 - k) : LeadingDigits(text, k)[m] = text[k + m - 1]
<1> DEFINE end == EndOfDigits(text, k)
           S == {Len(text) + 1} \cup {j \in k..Len(text) : text[j] \notin Digit}
<1>0. Len(text) \in Nat
    BY LenProperties
<1>1. S \in SUBSET Nat /\ S # {} /\ Len(text) + 1 \in S /\ \A j \in S : j >= k
    BY <1>0
<1>2. Min(S) \in S /\ \A x \in S : Min(S) <= x
    <2> HIDE DEF S
    <2> QED BY <1>1, LeastOfSome
<1>3. end = Min(S) - 1
    BY DEF EndOfDigits
<1>4. end \in Nat /\ k <= end + 1 /\ end <= Len(text)
    <2> HIDE DEF end, S
    <2>1. Min(S) \in Nat /\ Min(S) >= k /\ Min(S) <= Len(text) + 1
        BY <1>1, <1>2
    <2> QED BY <1>0, <1>3, <2>1
<1>5. \A j \in k..end : text[j] \in Digit
    <2> SUFFICES ASSUME NEW j \in k..end, text[j] \notin Digit PROVE FALSE
        OBVIOUS
    <2> HIDE DEF end
    <2>1. j \in k..Len(text)
        BY <1>0, <1>4
    <2>2. j \in S
        BY <2>1
    <2>3. Min(S) <= j
        BY <1>2, <2>2
    <2> HIDE DEF S
    <2>4. Min(S) \in Nat
        BY <1>1, <1>2
    <2> QED BY <1>3, <1>4, <2>3, <2>4
<1>6. end < Len(text) => end + 1 \in k..Len(text) /\ text[end + 1] \notin Digit
    <2> HIDE DEF end
    <2>1. Min(S) = end + 1
        <3> HIDE DEF S
        <3>1. Min(S) \in Nat
            BY <1>1, <1>2
        <3> QED BY <1>3, <1>4, <3>1
    <2>2. end + 1 \in S
        BY <1>2, <2>1
    <2> QED BY <1>0, <1>4, <2>2
<1>7. Digits(text, k) = k..end
    <2> HIDE DEF end, S
    <2>1. ASSUME NEW j \in Digits(text, k) PROVE j \in k..end
        <3>1. j \in k..Len(text) /\ \A m \in k..j : text[m] \in Digit
            BY DEF Digits
        <3>2. CASE end < j
            <4>1. end < Len(text) /\ end + 1 \in k..j
                BY <1>0, <1>4, <3>1, <3>2
            <4> QED BY <1>6, <3>1, <4>1
        <3> QED BY <1>4, <3>1, <3>2
    <2>2. ASSUME NEW j \in k..end PROVE j \in Digits(text, k)
        <3>1. j \in k..Len(text) /\ \A m \in k..j : m \in k..end
            BY <1>0, <1>4
        <3> QED BY <1>5, <3>1 DEF Digits
    <2> QED BY <2>1, <2>2
<1>8. /\ LeadingDigits(text, k) \in Seq(Digit)
      /\ Len(LeadingDigits(text, k)) = end + 1 - k
      /\ \A m \in 1..(end + 1 - k) : LeadingDigits(text, k)[m] = text[k + m - 1]
    <2>1. LeadingDigits(text, k) = SubSeq(text, k, end)
        BY DEF LeadingDigits, EndOfDigits
    <2> HIDE DEF end
    <2> DEFINE part == SubSeq(text, k, end)
    <2>2. \A j \in k..end : text[j] \in STRING
        <3>1. \A j \in k..end : j \in 1..Len(text)
            BY <1>0, <1>4
        <3> QED BY <3>1, ElementOfSeq
    <2>3. /\ part \in Seq(STRING) /\ Len(part) = (IF k <= end THEN end - k + 1 ELSE 0)
          /\ \A m \in 1..(end - k + 1) : part[m] = text[k + m - 1]
        <3>1. k \in Int /\ end \in Int
            BY <1>4
        <3> QED BY <2>2, <3>1, SubSeqProperties
    <2> HIDE DEF part
    <2>4. Len(part) = end + 1 - k /\ end + 1 - k \in Nat
        BY <1>4, <2>3
    <2>5. \A m \in 1..(end + 1 - k) : part[m] = text[k + m - 1] /\ part[m] \in Digit
        <3> TAKE m \in 1..(end + 1 - k)
        <3>1. m \in 1..(end - k + 1) /\ k + m - 1 \in k..end
            BY <1>4
        <3> QED BY <1>5, <2>3, <3>1
    <2>6. part \in Seq(Digit)
        <3>1. DOMAIN part = 1..Len(part) /\ part \in [1..Len(part) -> STRING]
            BY <2>3, LenProperties
        <3>2. part \in [1..Len(part) -> Digit]
            BY <2>4, <2>5, <3>1
        <3> QED BY <2>4, <3>2
    <2> QED BY <2>1, <2>4, <2>5, <2>6 DEF part
<1> HIDE DEF end
<1>9. /\ end \in Nat /\ k <= end + 1 /\ end <= Len(text)
      /\ Digits(text, k) = k..end
      /\ \A j \in k..end : text[j] \in Digit
      /\ LeadingDigits(text, k) \in Seq(Digit)
      /\ Len(LeadingDigits(text, k)) = end + 1 - k
      /\ \A m \in 1..(end + 1 - k) : LeadingDigits(text, k)[m] = text[k + m - 1]
    BY <1>4, <1>5, <1>7, <1>8
<1> QED BY <1>9 DEF end

IsRowSum(sum, text, S, last) ==
    sum = [s \in SUBSET S |->
              IF s = {}
              THEN 0
              ELSE DigitValue[text[Picked(s)]] * TenTo[last - Picked(s)] + sum[s \ {Picked(s)}]]
RowSum(text, S, last) == (CHOOSE sum : IsRowSum(sum, text, S, last))[S]

\* The number of a row of digits is a sum over the row, in any order.
LEMMA NumberIsASum ==
    ASSUME NEW text \in Seq(STRING), NEW k \in Nat \ {0}, NEW end \in Nat, k <= end,
           Digits(text, k) = k..end, \A j \in k..end : text[j] \in Digit
    PROVE  \E sum : /\ sum[{}] = 0 /\ Number(text, k) = sum[k..end]
                    /\ \A s \in SUBSET (k..end) : sum[s] \in Nat
                    /\ \A s \in SUBSET (k..end) : \A j \in s :
                          sum[s] = DigitValue[text[j]] * TenTo[end - j] + sum[s \ {j}]
<1> DEFINE S == k..end
           term(j) == DigitValue[text[j]] * TenTo[end - j]
           f == [j \in S |-> term(j)]
           IsSum(sum) == IsRowSum(sum, text, S, end)
<1>1. IsFiniteSet(S) /\ S # {}
    <2>1. end \in S /\ k \in Int /\ end \in Int
        OBVIOUS
    <2>2. IsFiniteSet(k..end)
        BY <2>1, FS_Interval
    <2> QED BY <2>1, <2>2
<1>2. Max(S) = end
    <2>1. S \in SUBSET (1..end) /\ end \in S
        OBVIOUS
    <2>2. Max(S) \in S /\ Max(S) >= end
        BY <1>1, <2>1, MaxOfSome
    <2>3. \A j \in S : j <= end /\ j \in Nat
        OBVIOUS
    <2> HIDE DEF S
    <2> QED BY <2>2, <2>3
<1>3. \A j \in S : term(j) \in Nat
    <2> TAKE j \in S
    <2>1. DigitValue[text[j]] \in Nat
        BY DigitsHaveValues
    <2>2. end - j \in Nat
        OBVIOUS
    <2>3. TenTo[end - j] \in Nat
        BY <2>2, PowersOfTen
    <2> QED BY <2>1, <2>3
<1>4. f \in [S -> Nat] /\ \A j \in S : f[j] = term(j)
    <2> HIDE DEF term, S
    <2> QED BY <1>3
<1>5. Number(text, k) = (CHOOSE sum : IsSum(sum))[S]
    <2>1. Number(text, k) = RowSum(text, Digits(text, k), Max(Digits(text, k)))
        BY DEF Number, MapThenSumSet, MapThenFoldSet, Picked, RowSum, IsRowSum
    <2> QED BY <1>2, <2>1 DEF RowSum
<1>6. \A s \in SUBSET S : s # {} => Picked(s) \in S
    <2> HIDE DEF S
    <2> QED BY PickedIsIn
<1> HIDE DEF S, term, f
<1>7. \A sum : IsSum(sum) <=> IsSummation(sum, f, SUBSET S)
    <2> TAKE sum
    <2>1. \A s \in SUBSET S :
              (IF s = {} THEN 0 ELSE term(Picked(s)) + sum[s \ {Picked(s)}])
                  = IF s = {} THEN 0 ELSE f[Picked(s)] + sum[s \ {Picked(s)}]
        <3> TAKE s \in SUBSET S
        <3>1. CASE s = {}
            BY <3>1
        <3>2. CASE s # {}
            <4>1. f[Picked(s)] = term(Picked(s))
                BY <1>4, <1>6, <3>2
            <4> QED BY <3>2, <4>1
        <3> QED BY <3>1, <3>2
    <2>2. [s \in SUBSET S |-> IF s = {} THEN 0 ELSE term(Picked(s)) + sum[s \ {Picked(s)}]]
              = [s \in SUBSET S |-> IF s = {} THEN 0 ELSE f[Picked(s)] + sum[s \ {Picked(s)}]]
        BY <2>1
    <2>3. IsSum(sum) <=> sum = [s \in SUBSET S |->
              IF s = {} THEN 0 ELSE term(Picked(s)) + sum[s \ {Picked(s)}]]
        BY DEF IsRowSum, term
    <2> QED BY <2>2, <2>3 DEF IsSummation
<1>8. \E sum : IsSum(sum)
    <2> HIDE DEF IsSum
    <2> QED BY <1>1, <1>7, SummationExists
<1> DEFINE sum == CHOOSE sum : IsSum(sum)
<1>9. IsSummation(sum, f, SUBSET S)
    <2> HIDE DEF IsSum
    <2> QED BY <1>7, <1>8
<1> HIDE DEF sum
<1>10. /\ sum[{}] = 0 /\ \A s \in SUBSET S : sum[s] \in Nat
       /\ \A s \in SUBSET S : \A j \in s : sum[s] = f[j] + sum[s \ {j}]
    <2>1. f \in [S -> Nat] /\ IsFiniteSet(S)
        BY <1>1, <1>4
    <2> QED BY <1>9, <2>1, SumTakesAny
<1>11. \A s \in SUBSET S : \A j \in s : f[j] = term(j)
    BY <1>4
<1>12. \A s \in SUBSET S : \A j \in s : sum[s] = term(j) + sum[s \ {j}]
    BY <1>10, <1>11
<1>13. Number(text, k) = sum[S]
    BY <1>5 DEF sum
<1>14. /\ sum[{}] = 0 /\ Number(text, k) = sum[k..end]
       /\ \A s \in SUBSET (k..end) : sum[s] \in Nat
       /\ \A s \in SUBSET (k..end) : \A j \in s :
             sum[s] = DigitValue[text[j]] * TenTo[end - j] + sum[s \ {j}]
    BY <1>10, <1>12, <1>13 DEF S, term
<1> QED BY <1>14

\* What is accumulated never overstates, and understates only what wraps.
LEMMA AccumulatesTheNumber ==
    ASSUME NEW text \in Seq(STRING), NEW k \in Nat \ {0}, k <= Len(text),
           Digits(text, k) # {}
    PROVE  LET held == Accumulate(LeadingDigits(text, k))
           IN  /\ Number(text, k) \in Nat /\ held \in Nat
               /\ held <= Number(text, k)
               /\ Number(text, k) < Word => held = Number(text, k)
<1> DEFINE end == EndOfDigits(text, k)
           digits == LeadingDigits(text, k)
           n == end + 1 - k
<1>1. /\ end \in Nat /\ Digits(text, k) = k..end /\ k <= end + 1
      /\ \A j \in k..end : text[j] \in Digit
      /\ digits \in Seq(Digit) /\ Len(digits) = n
      /\ \A m \in 1..n : digits[m] = text[k + m - 1]
    BY DigitsAreARow
<1> HIDE DEF end, digits
<1>2. k <= end /\ n \in Nat
    BY <1>1
<1>3. PICK sum : /\ sum[{}] = 0 /\ Number(text, k) = sum[k..end]
                 /\ \A s \in SUBSET (k..end) : sum[s] \in Nat
                 /\ \A s \in SUBSET (k..end) : \A j \in s :
                       sum[s] = DigitValue[text[j]] * TenTo[end - j] + sum[s \ {j}]
    BY <1>1, <1>2, NumberIsASum
<1>4. PICK p : /\ p[0] = 0 /\ Accumulate(digits) = p[Len(digits)]
               /\ \A m \in 0..(Len(digits) - 1) : p[m + 1] = Wraps(p[m], DigitValue[digits[m + 1]])
    BY <1>1, Accumulates
<1> DEFINE part(m) == sum[k..(k + m - 1)]
           ten(m) == TenTo[n - m]
           Holds(m) == Tracks(p[m], ten(m), part(m))
           Good == {m \in Nat : m <= n => Holds(m)}
<1>5. 0 \in Good
    <2>1. k..(k + 0 - 1) = {}
        OBVIOUS
    <2>2. part(0) = 0
        BY <1>3, <2>1
    <2>3. ten(0) \in Nat
        <3>1. n - 0 \in Nat
            BY <1>2
        <3> QED BY <3>1, PowersOfTen
    <2> HIDE DEF part, ten
    <2>4. p[0] = 0 /\ p[0] * ten(0) = 0
        BY <1>4, <2>3
    <2>5. Holds(0)
        BY <2>2, <2>4 DEF Tracks
    <2> HIDE DEF Holds
    <2> QED BY <2>5
<1>6. ASSUME NEW m \in Good PROVE m + 1 \in Good
    <2>0. m \in Nat /\ m + 1 \in Nat
        OBVIOUS
    <2>1. ASSUME m + 1 <= n PROVE Holds(m + 1)
        <3> DEFINE x == p[m]
                   d == DigitValue[text[k + m]]
                   t == ten(m + 1)
                   before == part(m)
        <3>1. Holds(m)
            BY <1>2, <2>0, <2>1
        <3>2. k + m \in k..end /\ k + m \in k..(k + m) /\ k..(k + m) \in SUBSET (k..end)
            BY <1>1, <2>0, <2>1
        <3>3. d \in Nat
            <4>1. text[k + m] \in Digit
                BY <1>1, <3>2
            <4> QED BY <4>1, DigitsHaveValues
        <3>4. t \in Nat /\ t >= 1 /\ ten(m) = 10 * t
            <4>1. n - (m + 1) \in Nat /\ n - m = (n - (m + 1)) + 1
                BY <1>2, <2>0, <2>1
            <4> QED BY <4>1, PowersOfTen
        <3>5. part(m + 1) = d * t + before
            <4>1. k + (m + 1) - 1 = k + m /\ (k..(k + m)) \ {k + m} = k..(k + m - 1)
                BY <2>0
            <4>2. end - (k + m) = n - (m + 1)
                BY <1>1, <2>0
            <4>3. sum[k..(k + m)] = d * TenTo[end - (k + m)] + sum[(k..(k + m)) \ {k + m}]
                BY <1>3, <3>2
            <4> QED BY <4>1, <4>2, <4>3
        <3>6. p[m + 1] = Wraps(x, d)
            <4>1. m \in 0..(Len(digits) - 1) /\ m + 1 \in 1..n /\ k + (m + 1) - 1 = k + m
                BY <1>1, <1>2, <2>0, <2>1
            <4>2. digits[m + 1] = text[k + m]
                BY <1>1, <4>1
            <4> QED BY <1>4, <4>1, <4>2
        <3>7. Tracks(x, ten(m), before) /\ x \in Nat
            BY <3>1 DEF Tracks
        <3> DEFINE tens == ten(m)
                   sum_ == part(m + 1)
        <3>8. tens = 10 * t /\ sum_ = d * t + before
            BY <3>4, <3>5
        <3>9. Tracks(x, tens, before)
            BY <3>7
        <3>10. Holds(m + 1) <=> Tracks(p[m + 1], t, sum_)
            <4> HIDE DEF part, ten, before, d, x
            <4> QED OBVIOUS
        <3> HIDE DEF x, d, t, before, part, ten, tens, sum_, Holds
        <3>11. Tracks(Wraps(x, d), t, sum_)
            BY <3>3, <3>4, <3>7, <3>8, <3>9, OneMoreDigit
        <3> QED BY <3>6, <3>10, <3>11
    <2> HIDE DEF Holds
    <2> QED BY <2>0, <2>1
<1>7. Good = Nat
    <2>1. Good \in SUBSET Nat
        OBVIOUS
    <2> HIDE DEF Good
    <2> QED BY <1>5, <1>6, <2>1, Induction
<1>8. Holds(n)
    <2> HIDE DEF Holds, n
    <2>1. n \in Good /\ n <= n
        BY <1>2, <1>7
    <2> QED BY <2>1
<1>9. ten(n) = 1 /\ part(n) = Number(text, k)
    <2>1. n - n = 0 /\ k + n - 1 = end
        BY <1>1
    <2> QED BY <1>3, <2>1, PowersOfTen
<1>10. p[n] = Accumulate(digits)
    BY <1>1, <1>4
<1>11. p[n] * 1 = p[n]
    <2>1. p[n] \in Nat
        BY <1>8 DEF Tracks
    <2> HIDE DEF n
    <2> QED BY <2>1
<1> HIDE DEF n, part, ten
<1>12. /\ Number(text, k) \in Nat /\ Accumulate(digits) \in Nat
       /\ Accumulate(digits) <= Number(text, k)
       /\ Number(text, k) < Word => Accumulate(digits) = Number(text, k)
    BY <1>8, <1>9, <1>10, <1>11 DEF Tracks
<1> QED BY <1>12 DEF digits

-----------------------------------------------------------------------------
(* The second field *)

LEMMA FirstIsLeast ==
    ASSUME NEW S \in SUBSET (Nat \ {0})
    PROVE  IF S = {} THEN First(S) = NPos
           ELSE First(S) \in S /\ First(S) # NPos /\ \A k \in S : First(S) <= k
<1>1. S # {} => Min(S) \in S /\ \A k \in S : Min(S) <= k
    BY LeastOfSome
<1> QED BY <1>1 DEF First, NPos

\* What find_first_not_of and find_first_of stop at.
LEMMA FindsFirst ==
    ASSUME NEW text \in Seq(STRING), NEW from \in Nat \ {0}
    PROVE  /\ LET k == FirstNotOf(text, from)
              IN  IF k = NPos
                  THEN \A j \in from..Len(text) : text[j] \in Blank
                  ELSE /\ k \in from..Len(text) /\ text[k] \notin Blank
                       /\ \A j \in from..(k - 1) : text[j] \in Blank
           /\ LET k == FirstOf(text, from)
              IN  IF k = NPos
                  THEN \A j \in from..Len(text) : text[j] \notin Blank
                  ELSE /\ k \in from..Len(text) /\ text[k] \in Blank
                       /\ \A j \in from..(k - 1) : text[j] \notin Blank
<1>0. Len(text) \in Nat
    BY LenProperties
<1> DEFINE S == {k \in from..Len(text) : text[k] \notin Blank}
           B == {k \in from..Len(text) : text[k] \in Blank}
<1>1. S \in SUBSET (Nat \ {0}) /\ B \in SUBSET (Nat \ {0})
    BY <1>0
<1>2. IF S = {} THEN First(S) = NPos
      ELSE First(S) \in S /\ First(S) # NPos /\ \A k \in S : First(S) <= k
    <2> HIDE DEF S
    <2> QED BY <1>1, FirstIsLeast
<1>3. IF B = {} THEN First(B) = NPos
      ELSE First(B) \in B /\ First(B) # NPos /\ \A k \in B : First(B) <= k
    <2> HIDE DEF B
    <2> QED BY <1>1, FirstIsLeast
<1> DEFINE k == First(S)
           b == First(B)
<1>4. IF k = NPos
      THEN \A j \in from..Len(text) : text[j] \in Blank
      ELSE /\ k \in from..Len(text) /\ text[k] \notin Blank
           /\ \A j \in from..(k - 1) : text[j] \in Blank
    <2> HIDE DEF k
    <2>1. CASE S = {}
        BY <1>2, <2>1 DEF k
    <2>2. CASE S # {}
        <3>1. k \in S /\ k # NPos /\ \A j \in S : k <= j
            BY <1>2, <2>2 DEF k
        <3>2. ASSUME NEW j \in from..(k - 1), text[j] \notin Blank PROVE FALSE
            <4>1. j \in from..Len(text) /\ j < k
                BY <1>0, <3>1
            <4>2. j \in S
                BY <3>2, <4>1
            <4>3. k <= j
                BY <3>1, <4>2
            <4> QED BY <1>1, <3>1, <4>1, <4>3
        <3> QED BY <3>1, <3>2
    <2> QED BY <2>1, <2>2
<1>5. IF b = NPos
      THEN \A j \in from..Len(text) : text[j] \notin Blank
      ELSE /\ b \in from..Len(text) /\ text[b] \in Blank
           /\ \A j \in from..(b - 1) : text[j] \notin Blank
    <2> HIDE DEF b
    <2>1. CASE B = {}
        BY <1>3, <2>1 DEF b
    <2>2. CASE B # {}
        <3>1. b \in B /\ b # NPos /\ \A j \in B : b <= j
            BY <1>3, <2>2 DEF b
        <3>2. ASSUME NEW j \in from..(b - 1), text[j] \in Blank PROVE FALSE
            <4>1. j \in from..Len(text) /\ j < b
                BY <1>0, <3>1
            <4>2. j \in B
                BY <3>2, <4>1
            <4>3. b <= j
                BY <3>1, <4>2
            <4> QED BY <1>1, <3>1, <4>1, <4>3
        <3> QED BY <3>1, <3>2
    <2> QED BY <2>1, <2>2
<1>6. FirstNotOf(text, from) = k /\ FirstOf(text, from) = b
    BY DEF FirstNotOf, FirstOf
<1> HIDE DEF k, b
<1> QED BY <1>4, <1>5, <1>6

\* One field, up to a character before the second, and two up to it.
LEMMA SecondFieldIsFound ==
    ASSUME NEW text \in Seq(STRING)
    PROVE  LET k == SecondStart(text)
               second == {j \in FieldStarts(text) :
                             Cardinality({m \in FieldStarts(text) : m <= j}) = 2}
           IN  IF k = NPos THEN second = {} ELSE k \in 1..Len(text) /\ second = {k}
<1> DEFINE k == SecondStart(text)
           upTo(j) == {m \in FieldStarts(text) : m <= j}
           second == {j \in FieldStarts(text) : Cardinality(upTo(j)) = 2}
           start == FirstNotOf(text, 1)
           end == FirstOf(text, start)
           Right == IF k = NPos THEN second = {} ELSE k \in 1..Len(text) /\ second = {k}
<1> SUFFICES Right
    OBVIOUS
<1>0. Len(text) \in Nat /\ DOMAIN text = 1..Len(text)
    BY LenProperties
<1>1. /\ FieldStarts(text) \subseteq 1..Len(text)
      /\ \A j \in FieldStarts(text) : text[j] \notin Blank /\ (j > 1 => text[j - 1] \in Blank)
      /\ \A j \in 1..Len(text) :
             text[j] \notin Blank /\ (j > 1 => text[j - 1] \in Blank) => j \in FieldStarts(text)
    BY <1>0 DEF FieldStarts
<1>a. NPos = 0
    BY DEF NPos
<1>2. CASE start = NPos
    <2>1. \A j \in 1..Len(text) : text[j] \in Blank
        BY <1>2, FindsFirst
    <2>2. FieldStarts(text) = {}
        BY <1>1, <2>1
    <2>3. k = NPos
        BY <1>2 DEF SecondStart
    <2> QED BY <2>2, <2>3
<1>3. CASE start # NPos
    <2>1. /\ start \in 1..Len(text) /\ text[start] \notin Blank
          /\ \A j \in 1..(start - 1) : text[j] \in Blank
        BY <1>3, FindsFirst
    <2>2. start \in FieldStarts(text)
        <3> HIDE DEF start
        <3>1. start > 1 => start - 1 \in 1..(start - 1)
            BY <2>1
        <3> QED BY <1>1, <2>1, <3>1
    <2>3. \A j \in FieldStarts(text) : j >= start
        <3> HIDE DEF start
        <3> SUFFICES ASSUME NEW j \in FieldStarts(text), j < start PROVE FALSE
            BY <1>1, <2>1
        <3>1. j \in 1..(start - 1)
            BY <1>1, <2>1
        <3> QED BY <1>1, <2>1, <3>1
    <2>4. IF end = NPos
          THEN \A j \in start..Len(text) : text[j] \notin Blank
          ELSE /\ end \in start..Len(text) /\ text[end] \in Blank
               /\ \A j \in start..(end - 1) : text[j] \notin Blank
        <3>1. start \in Nat \ {0}
            BY <2>1
        <3> HIDE DEF start
        <3> QED BY <3>1, FindsFirst
    <2> DEFINE Only(limit) == \A j \in FieldStarts(text) : j <= limit => j = start
    <2>5. ASSUME NEW limit \in Int, limit <= Len(text),
                 \A j \in (start + 1)..limit : text[j - 1] \in Blank => text[j] \in Blank
          PROVE  Only(limit)
        <3> HIDE DEF start
        <3> SUFFICES ASSUME NEW j \in FieldStarts(text), j <= limit, j # start PROVE FALSE
            OBVIOUS
        <3>1. j >= start /\ j \in 1..Len(text)
            BY <1>1, <2>3
        <3>2. j \in (start + 1)..limit /\ j > 1
            BY <2>1, <3>1
        <3> QED BY <1>1, <2>5, <3>2
    <2>6. ASSUME Only(Len(text)), k = NPos PROVE second = {}
        <3>1. FieldStarts(text) = {start}
            BY <1>0, <1>1, <2>2, <2>6
        <3> HIDE DEF start
        <3>2. \A j \in FieldStarts(text) : upTo(j) = {start}
            <4>1. start \in Nat
                BY <2>1
            <4> QED BY <3>1, <4>1
        <3>3. Cardinality({start}) = 1
            BY FS_Singleton
        <3>4. \A j \in FieldStarts(text) : Cardinality(upTo(j)) # 2
            <4> HIDE DEF upTo
            <4> TAKE j \in FieldStarts(text)
            <4> DEFINE only == {start}
            <4>1. upTo(j) = only /\ Cardinality(only) = 1
                BY <3>2, <3>3
            <4> HIDE DEF only
            <4> QED BY <4>1
        <3> HIDE DEF upTo
        <3> QED BY <3>4
    <2>7. CASE end = NPos
        <3>1. k = NPos
            BY <2>7 DEF SecondStart
        <3>2. \A j \in (start + 1)..Len(text) : text[j - 1] \in Blank => text[j] \in Blank
            <4> HIDE DEF start, end
            <4>1. \A j \in (start + 1)..Len(text) : j - 1 \in start..Len(text)
                BY <1>0, <2>1
            <4> QED BY <2>4, <2>7, <4>1
        <3>3. Only(Len(text))
            <4> HIDE DEF Only, start
            <4> QED BY <1>0, <2>5, <3>2
        <3> QED BY <2>6, <3>1, <3>3
    <2>8. CASE end # NPos
        <3>1. k = FirstNotOf(text, end)
            BY <1>3, <2>8 DEF SecondStart
        <3>2. /\ end \in start..Len(text) /\ text[end] \in Blank
              /\ \A j \in start..(end - 1) : text[j] \notin Blank
            BY <2>4, <2>8
        <3>3. IF k = NPos
              THEN \A j \in end..Len(text) : text[j] \in Blank
              ELSE /\ k \in end..Len(text) /\ text[k] \notin Blank
                   /\ \A j \in end..(k - 1) : text[j] \in Blank
            <4>1. end \in Nat \ {0}
                BY <2>1, <3>2
            <4> HIDE DEF end
            <4> QED BY <3>1, <4>1, FindsFirst
        <3> HIDE DEF start, end, k, second
        <3>4. CASE k = NPos
            <4>1. \A j \in (start + 1)..Len(text) : text[j - 1] \in Blank => text[j] \in Blank
                <5> TAKE j \in (start + 1)..Len(text)
                <5>1. j - 1 \in start..(end - 1) \/ j \in end..Len(text)
                    BY <1>0, <2>1, <3>2
                <5> QED BY <3>2, <3>3, <3>4, <5>1
            <4>2. Only(Len(text))
                <5> HIDE DEF Only
                <5> QED BY <1>0, <2>5, <4>1
            <4> QED BY <2>6, <3>4, <4>2
        <3>5. CASE k # NPos
            <4>1. /\ k \in 1..Len(text) /\ k > end /\ start < k /\ start \in Nat
                  /\ k - 1 \in end..(k - 1)
                BY <1>0, <2>1, <3>2, <3>3, <3>5
            <4>2. k \in FieldStarts(text)
                BY <1>1, <3>3, <3>5, <4>1
            <4>3. \A j \in (start + 1)..(k - 1) : text[j - 1] \in Blank => text[j] \in Blank
                <5> TAKE j \in (start + 1)..(k - 1)
                <5>1. j - 1 \in start..(end - 1) \/ j \in end..(k - 1)
                    BY <1>0, <2>1, <3>2, <4>1
                <5> QED BY <3>2, <3>3, <3>5, <5>1
            <4>4. Only(k - 1)
                <5>1. k - 1 \in Int /\ k - 1 <= Len(text)
                    BY <1>0, <4>1
                <5> HIDE DEF Only
                <5> QED BY <2>5, <4>3, <5>1
            <4>5. Cardinality(upTo(k)) = 2
                <5>1. upTo(k) = {start, k}
                    <6>1. \A j \in FieldStarts(text) : j <= k => j = start \/ j = k
                        <7> TAKE j \in FieldStarts(text)
                        <7>1. j \in Nat
                            BY <1>1
                        <7> QED BY <4>1, <4>4, <7>1
                    <6>2. start \in upTo(k) /\ k \in upTo(k)
                        BY <2>2, <4>1, <4>2
                    <6> QED BY <6>1, <6>2
                <5>2. Cardinality({start, k}) = 2
                    <6> DEFINE one == {start}
                               two == one \cup {k}
                    <6>1. Cardinality(one) = 1 /\ IsFiniteSet(one)
                        BY FS_Singleton
                    <6>2. k \notin one
                        BY <4>1
                    <6>3. two = {start, k}
                        OBVIOUS
                    <6> HIDE DEF one
                    <6>4. Cardinality(two) = Cardinality(one) + 1
                        BY <6>1, <6>2, FS_AddElement
                    <6> HIDE DEF two
                    <6>5. Cardinality(two) = 2
                        BY <6>1, <6>4
                    <6> QED BY <6>3, <6>5
                <5> QED BY <5>1, <5>2
            <4>6. ASSUME NEW j \in second PROVE j = k
                <5>0. /\ j \in FieldStarts(text) /\ j \in Nat /\ j \in 1..Len(text)
                      /\ Cardinality(upTo(j)) = 2
                    BY <1>1 DEF second
                <5>1. CASE j < k
                    <6>1. j = start
                        BY <4>1, <4>4, <5>0, <5>1
                    <6>2. upTo(j) = {start}
                        <7>1. \A m \in FieldStarts(text) : m <= j => m = start
                            <8> TAKE m \in FieldStarts(text)
                            <8>1. m \in Nat
                                BY <1>1
                            <8> QED BY <4>1, <4>4, <5>0, <5>1, <8>1
                        <7>2. start \in upTo(j)
                            BY <2>2, <5>0, <6>1
                        <7> QED BY <7>1, <7>2
                    <6>3. Cardinality({start}) = 1
                        BY FS_Singleton
                    <6> HIDE DEF upTo
                    <6> QED BY <5>0, <6>2, <6>3
                <5>2. CASE j > k
                    <6>1. {start, k} \subseteq upTo(j) \ {j} /\ j \in upTo(j)
                        BY <2>2, <4>1, <4>2, <5>0, <5>2
                    <6>2. IsFiniteSet(upTo(j))
                        <7>1. IsFiniteSet(1..Len(text))
                            <8> DEFINE n == Len(text)
                            <8>1. n \in Nat
                                BY <1>0
                            <8> HIDE DEF n
                            <8>2. IsFiniteSet(1..n)
                                BY <8>1, FS_Interval
                            <8> QED BY <8>2 DEF n
                        <7>2. upTo(j) \subseteq 1..Len(text)
                            BY <1>1
                        <7> HIDE DEF upTo
                        <7> QED BY <7>1, <7>2, FS_Subset
                    <6>4. upTo(k) \subseteq upTo(j) \ {j}
                        <7>1. \A m \in FieldStarts(text) : m <= k => m <= j /\ m # j
                            <8> TAKE m \in FieldStarts(text)
                            <8>1. m \in Nat
                                BY <1>1
                            <8> QED BY <4>1, <5>0, <5>2, <8>1
                        <7> QED BY <7>1
                    <6>5. Cardinality(upTo(j)) = 2
                        BY DEF second
                    <6> HIDE DEF upTo
                    <6>6. Cardinality(upTo(j) \ {j}) = Cardinality(upTo(j)) - 1
                          /\ IsFiniteSet(upTo(j) \ {j})
                        BY <6>1, <6>2, FS_RemoveElement
                    <6>7. Cardinality(upTo(k)) <= Cardinality(upTo(j) \ {j})
                        BY <6>4, <6>6, FS_Subset
                    <6> QED BY <4>5, <6>5, <6>6, <6>7
                <5> QED BY <4>1, <5>0, <5>1, <5>2
            <4>7. k \in second
                BY <4>2, <4>5 DEF second
            <4>8. second = {k}
                <5> HIDE DEF second
                <5> QED BY <4>6, <4>7
            <4> QED BY <3>5, <4>1, <4>8
        <3> QED BY <3>4, <3>5
    <2> QED BY <2>7, <2>8
<1> HIDE DEF Right
<1> QED BY <1>2, <1>3

\* The pages that the file has, and what they are taken for.
LEMMA PagesAreOne ==
    ASSUME NEW text \in Seq(STRING)
    PROVE  LET k == SecondStart(text)
               digits == LeadingDigits(text, k)
           IN  IF k = NPos \/ digits = <<>>
               THEN PagesIn(text) = {}
               ELSE /\ PagesIn(text) = {Number(text, k)}
                    /\ Number(text, k) \in Nat /\ Accumulate(digits) \in Nat
                    /\ Accumulate(digits) <= Number(text, k)
                    /\ Number(text, k) < Word => Accumulate(digits) = Number(text, k)
<1> DEFINE k == SecondStart(text)
           digits == LeadingDigits(text, k)
           second == {j \in FieldStarts(text) :
                         Cardinality({m \in FieldStarts(text) : m <= j}) = 2}
           Right == IF k = NPos \/ digits = <<>>
                    THEN PagesIn(text) = {}
                    ELSE /\ PagesIn(text) = {Number(text, k)}
                         /\ Number(text, k) \in Nat /\ Accumulate(digits) \in Nat
                         /\ Accumulate(digits) <= Number(text, k)
                         /\ Number(text, k) < Word => Accumulate(digits) = Number(text, k)
<1> SUFFICES Right
    OBVIOUS
<1>1. IF k = NPos THEN second = {} ELSE k \in 1..Len(text) /\ second = {k}
    BY SecondFieldIsFound
<1>2. PagesIn(text) = {Number(text, j) : j \in {m \in second : Digits(text, m) # {}}}
    BY DEF PagesIn
<1> HIDE DEF second, k
<1>3. CASE k = NPos
    BY <1>1, <1>2, <1>3
<1>4. CASE k # NPos
    <2>0. Len(text) \in Nat
        BY LenProperties
    <2>1. k \in Nat \ {0} /\ k <= Len(text) /\ second = {k}
        BY <1>1, <1>4, <2>0
    <2> DEFINE end == EndOfDigits(text, k)
    <2>2. /\ end \in Nat /\ k <= end + 1 /\ Digits(text, k) = k..end
          /\ digits \in Seq(Digit) /\ Len(digits) = end + 1 - k
        BY <2>1, DigitsAreARow
    <2> HIDE DEF end, digits
    <2>3. digits = <<>> <=> Digits(text, k) = {}
        <3>1. digits = <<>> <=> Len(digits) = 0
            BY <2>2, EmptySeq
        <3>2. Len(digits) = 0 <=> end < k
            BY <2>1, <2>2
        <3>3. k..end = {} <=> end < k
            BY <2>1, <2>2
        <3> QED BY <2>2, <3>1, <3>2, <3>3
    <2>4. CASE digits = <<>>
        <3>1. PagesIn(text) = {}
            BY <1>2, <2>1, <2>3, <2>4
        <3> QED BY <2>4, <3>1
    <2>5. CASE digits # <<>>
        <3>1. Digits(text, k) # {}
            BY <2>3, <2>5
        <3>2. PagesIn(text) = {Number(text, k)}
            BY <1>2, <2>1, <3>1
        <3>3. /\ Number(text, k) \in Nat /\ Accumulate(digits) \in Nat
              /\ Accumulate(digits) <= Number(text, k)
              /\ Number(text, k) < Word => Accumulate(digits) = Number(text, k)
            BY <2>1, <3>1, AccumulatesTheNumber DEF digits
        <3> QED BY <1>4, <2>5, <3>2, <3>3
    <2> QED BY <2>4, <2>5
<1> QED BY <1>3, <1>4

\* A whole number of mebibytes is more than a ceiling when the bytes are.
LEMMA MebibytesOver ==
    ASSUME NEW bytes \in Nat
    PROVE  bytes \div MiB > MaxMemoryMiB <=> bytes >= (MaxMemoryMiB + 1) * MiB
<1>1. MiB \in Nat \ {0} /\ MaxMemoryMiB + 1 \in Nat
    BY ResidentMemoryAssumption, EvaluationAssumption
<1> DEFINE limit == MaxMemoryMiB + 1
<1>2. limit \in Nat
    BY <1>1
<1> HIDE DEF limit
<1>3. bytes \div MiB >= limit <=> bytes >= limit * MiB
    BY <1>1, <1>2
<1>4. bytes \div MiB \in Nat
    BY <1>1
<1>5. bytes \div MiB > MaxMemoryMiB <=> bytes \div MiB >= limit
    BY <1>1, <1>4, EvaluationAssumption DEF limit
<1> QED BY <1>3, <1>5 DEF limit

\* What currentResidentMiB says is over the ceiling only if the pages are, and is
\* if they are and their bytes do not wrap.
LEMMA ResidentIsTold ==
    ASSUME request \in Requests
    PROVE  LET pages == PagesIn(Statm(request.memory))
               over == OverCeiling(CurrentResidentMiB(request.memory))
           IN  /\ over => \E n \in pages : TooManyPages(n)
               /\ request.memory.readable =>
                      \A n \in pages :
                          TooManyPages(n) /\ n * request.memory.pageSize < Word => over
<1> DEFINE memory == request.memory
           text == Statm(memory)
           size == memory.pageSize
           k == SecondStart(text)
           digits == LeadingDigits(text, k)
           held == Accumulate(digits)
           limit == (MaxMemoryMiB + 1) * MiB
           over == OverCeiling(CurrentResidentMiB(memory))
           Right == /\ over => \E n \in PagesIn(text) : TooManyPages(n)
                    /\ memory.readable =>
                           \A n \in PagesIn(text) :
                               TooManyPages(n) /\ n * memory.pageSize < Word => over
<1> SUFFICES Right
    OBVIOUS
<1>1. /\ memory.readable \in BOOLEAN /\ memory.text \in Seq(STRING) /\ size \in Int
      /\ MaxMemoryMiB \in Nat /\ MiB \in Nat \ {0} /\ Word \in Nat \ {0} /\ BufferSize \in Nat
    BY EvaluationAssumption, ResidentMemoryAssumption
<1>2. text \in Seq(STRING)
    <2> DEFINE whole == memory.text
               n == Len(whole)
               m == Min({BufferSize, n})
    <2>1. whole \in Seq(STRING) /\ n \in Nat
        BY <1>1, LenProperties
    <2> HIDE DEF whole
    <2>2. m \in Nat /\ m <= n
        <3> HIDE DEF n
        <3>1. BufferSize \in Int /\ n \in Int
            BY <1>1, <2>1
        <3>2. m \in {BufferSize, n} /\ m <= n
            BY <3>1, MinOfTwo
        <3> QED BY <1>1, <2>1, <3>2
    <2> HIDE DEF m
    <2>3. \A j \in 1..m : whole[j] \in STRING
        <3>1. \A j \in 1..m : j \in 1..Len(whole)
            BY <2>1, <2>2
        <3> QED BY <2>1, <3>1, ElementOfSeq
    <2>4. SubSeq(whole, 1, m) \in Seq(STRING)
        <3>1. 1 \in Int /\ m \in Int
            BY <2>2
        <3> QED BY <2>3, <3>1, SubSeqProperties
    <2> QED BY <2>4 DEF Statm, m, whole
<1>3. \A n \in PagesIn(text) : TooManyPages(n) <=> n * size >= limit
    BY DEF TooManyPages
<1>4. limit \in Nat /\ limit >= 1
    <2>1. \A a, b \in Nat : b >= 1 => (a + 1) * b \in Nat /\ (a + 1) * b >= 1
        OBVIOUS
    <2> QED BY <1>1, <2>1
<1>5. over <=> CurrentResidentMiB(memory) > MaxMemoryMiB
    BY DEF OverCeiling
<1>6. IF k = NPos \/ digits = <<>>
      THEN PagesIn(text) = {}
      ELSE /\ PagesIn(text) = {Number(text, k)}
           /\ Number(text, k) \in Nat /\ held \in Nat
           /\ held <= Number(text, k)
           /\ Number(text, k) < Word => held = Number(text, k)
    BY <1>2, PagesAreOne
<1>7. CurrentResidentMiB(memory) =
          IF ~memory.readable \/ size <= 0
          THEN 0
          ELSE IF k = NPos \/ digits = <<>> THEN 0 ELSE ((held * size) % Word) \div MiB
    BY DEF CurrentResidentMiB, ResidentMiBFromStatm
<1> HIDE DEF memory, text, size, k, digits, held, limit, over
<1>8. CASE ~memory.readable \/ size <= 0
    <2>1. ~over
        BY <1>1, <1>5, <1>7, <1>8
    <2>2. memory.readable => \A n \in PagesIn(text) : ~TooManyPages(n)
        <3> SUFFICES ASSUME memory.readable, NEW n \in PagesIn(text) PROVE ~(n * size >= limit)
            BY <1>3
        <3>1. n \in Nat /\ size <= 0
            BY <1>6, <1>8
        <3>2. n * size <= 0
            <4>1. \A a \in Nat, b \in Int : b <= 0 => a * b <= 0
                OBVIOUS
            <4> QED BY <1>1, <3>1, <4>1
        <3>3. n * size \in Int
            BY <1>1, <3>1
        <3> QED BY <1>4, <3>2, <3>3
    <2> QED BY <2>1, <2>2
<1>9. CASE ~(~memory.readable \/ size <= 0) /\ (k = NPos \/ digits = <<>>)
    <2>1. ~over /\ PagesIn(text) = {}
        BY <1>1, <1>5, <1>6, <1>7, <1>9
    <2> QED BY <2>1
<1>10. CASE ~(~memory.readable \/ size <= 0) /\ ~(k = NPos \/ digits = <<>>)
    <2> DEFINE n == Number(text, k)
               bytes == (held * size) % Word
    <2>1. /\ PagesIn(text) = {n} /\ n \in Nat /\ held \in Nat /\ held <= n
          /\ n < Word => held = n
        BY <1>6, <1>10
    <2>2. size \in Nat /\ size >= 1
        BY <1>1, <1>10
    <2> HIDE DEF n
    <2>3. held * size \in Nat /\ n * size \in Nat /\ held * size <= n * size /\ n <= n * size
        <3>1. \A a, b, c \in Nat : a <= b => a * c <= b * c
            OBVIOUS
        <3>2. \A a, b \in Nat : b >= 1 => a <= a * b
            OBVIOUS
        <3> QED BY <2>1, <2>2, <3>1, <3>2
    <2>4. bytes \in Nat /\ bytes <= held * size /\ (held * size < Word => bytes = held * size)
        <3>1. \A a \in Nat : a % Word \in Nat /\ a % Word <= a /\ (a < Word => a % Word = a)
            BY <1>1
        <3> QED BY <2>3, <3>1
    <2>5. over <=> bytes >= limit
        <3>1. over <=> bytes \div MiB > MaxMemoryMiB
            BY <1>5, <1>7, <1>10
        <3> HIDE DEF bytes
        <3> QED BY <2>4, <3>1, MebibytesOver DEF limit
    <2> HIDE DEF bytes
    <2>6. over => n * size >= limit
        BY <1>4, <2>3, <2>4, <2>5
    <2>7. n * size >= limit /\ n * size < Word => over
        <3> SUFFICES ASSUME n * size >= limit, n * size < Word PROVE over
            OBVIOUS
        <3>1. n < Word
            BY <1>1, <2>1, <2>3
        <3>2. held = n
            BY <2>1, <3>1
        <3>3. bytes = n * size
            BY <2>4, <3>2
        <3> QED BY <2>5, <3>3
    <2>8. n \in PagesIn(text) /\ (TooManyPages(n) <=> n * size >= limit)
        BY <1>3, <2>1
    <2>9. over => \E m \in PagesIn(text) : TooManyPages(m)
        BY <2>6, <2>8
    <2>10. \A m \in PagesIn(text) : TooManyPages(m) /\ m * memory.pageSize < Word => over
        BY <2>1, <2>7, <2>8 DEF size
    <2> QED BY <2>9, <2>10
<1> HIDE DEF Right
<1> QED BY <1>8, <1>9, <1>10

\* Whether the worker asks to be restarted is decided once, after its answer.
MeasuredOnce ==
    /\ request \in Requests
    /\ pc = "over" => (restarts <=> OverCeiling(CurrentResidentMiB(request.memory)))
    /\ pc # "over" => ~restarts

LEMMA MeasuredOnceIsKept ==
    ASSUME MeasuredOnce, [Next]_vars
    PROVE  MeasuredOnce'
<1>1. CASE Measure
    BY <1>1 DEF MeasuredOnce, Measure
<1>2. CASE EvalAttr \/ StoreChanges
    <2>1. pc # "over" /\ pc' # "over" /\ UNCHANGED <<request, restarts>>
        BY <1>2 DEF EvalAttr, StoreChanges, ForceThrows, StepDown, NotThere, Arrive,
               NotADerivation, NoDrvPath, ADerivation, LookUp, LookedUpAll, AskSubstituters,
               StoreThrows, Job, Answer
    <2> QED BY <2>1 DEF MeasuredOnce
<1>3. CASE Over \/ UNCHANGED vars
    BY <1>3 DEF MeasuredOnce, Over, vars
<1> QED BY <1>1, <1>2, <1>3 DEF Next

-----------------------------------------------------------------------------
(* Theorems *)

\* However often store and caches change while queryIsCached asks, and in whatever
\* order the outputs come: isCached is said only when every output was available at
\* some time, and denied only for a reason.
THEOREM TheCacheIsTold == Spec => []CacheAnswersHold
<1>1. CacheInv => CacheAnswersHold
    BY DEF CacheInv, CacheAnswersHold
<1> QED BY <1>1, StartsObserved, CacheInvIsKept, PTL DEF Spec

\* For every flake, cyclic or not, and every path: what navigate and evalAttr answer
\* is about the value that the path names in the flake, below the discovery root of
\* selectExpr with its defaults; what fails on the way is an error, and what is not
\* there is not.
THEOREM ThePathIsReadAsInFlake == Spec => []AnswersReadAsInFlake
<1>1. PathInv => AnswersReadAsInFlake
    BY DEF PathInv
<1> QED BY <1>1, StartsOnThePath, PathInvIsKept, PTL DEF Spec

\* Whatever /proc/self/statm holds and however numbers wrap: a worker asks to be
\* restarted only if the second field says that it holds too much, and does if it
\* says so and the bytes fit (residentMiBFromStatm and the check of worker.cc).
THEOREM TheCeilingIsRight == Spec => []RestartsWhenDue
<1>1. Init => MeasuredOnce
    BY DEF Init, MeasuredOnce
<1>2. MeasuredOnce => RestartsWhenDue
    BY ResidentIsTold DEF MeasuredOnce, RestartsWhenDue, RestartIsDue, CeilingHolds
<1> QED BY <1>1, <1>2, MeasuredOnceIsKept, PTL DEF Spec
=============================================================================
