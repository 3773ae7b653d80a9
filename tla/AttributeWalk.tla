--------------------------- MODULE AttributeWalk ---------------------------
(***************************************************************************)
(* What a run promises its consumer, with no workers, pipes or retries:    *)
(* each attribute found is concluded once, what an expanded one holds is   *)
(* found, and the stream is said to be complete only when nothing found is *)
(* left unconcluded.                                                       *)
(***************************************************************************)
EXTENDS Naturals, Sequences

CONSTANTS
    Attribute,  \* attribute paths
    Root,       \* the path the run starts from
    Verdict     \* what may be concluded about a path

VARIABLES
    childrenOf,   \* the paths found by expanding each path, fixed for the run
    mayConclude,  \* what evaluating each path may come to, fixed for the run
    verdict,      \* what has been concluded about each path, "none" at first
    stream        \* "open", "complete" (done was said) or "cut" (it never will be)

Found(path) ==
    \/ path = Root
    \/ \E parent \in Attribute :
          verdict[parent] = "expanded" /\ path \in childrenOf[parent]

Unconcluded == {path \in Attribute : Found(path) /\ verdict[path] = "none"}

vars == <<childrenOf, mayConclude, verdict, stream>>

Init ==
    /\ childrenOf \in [Attribute -> SUBSET Attribute]
    /\ mayConclude \in [Attribute -> SUBSET Verdict]
    /\ verdict = [path \in Attribute |-> "none"]
    /\ stream = "open"

Conclude(path) ==
    /\ stream = "open"
    /\ path \in Unconcluded
    /\ \E v \in mayConclude[path] : verdict' = [verdict EXCEPT ![path] = v]
    /\ UNCHANGED <<childrenOf, mayConclude, stream>>

Complete ==
    /\ stream = "open"
    /\ Unconcluded = {}
    /\ stream' = "complete"
    /\ UNCHANGED <<childrenOf, mayConclude, verdict>>

Cut ==
    /\ stream = "open"
    /\ stream' = "cut"
    /\ UNCHANGED <<childrenOf, mayConclude, verdict>>

Next == Complete \/ Cut \/ \E path \in Attribute : Conclude(path)

Spec == Init /\ [][Next]_vars
=============================================================================
