--------------------------- MODULE EdgeReporting ---------------------------
(***************************************************************************)
(* What EdgeDiscovery promises (src/pure.hh), without walks or stacks.     *)
(*                                                                         *)
(* Outputs and the references of paths become known one by one, an answer  *)
(* is final, and edges are reported some time after they follow from what  *)
(* is known, each for good.  Edges are settled when nothing the known      *)
(* outputs depend on is unknown and every edge has been reported.          *)
(***************************************************************************)
EXTENDS FiniteSets

CONSTANTS Attr, Path, DrvOf

VARIABLES
    known,     \* the outputs that go by a name of their own
    answered,  \* the paths whose references are known
    graph,     \* the references known
    reported,  \* the edges reported
    settled    \* whether there is nothing left to find out

vars == <<known, answered, graph, reported, settled>>

Closed(S) == \A p \in S : graph[p] \subseteq S
Reach(p) == {q \in Path : \A S \in SUBSET Path : p \in S /\ Closed(S) => q \in S}

\* The edges that follow from what is known.
Edges ==
    {e \in known \X known : e[1] # e[2] /\ DrvOf[e[2]] \in Reach(DrvOf[e[1]])}

Consistent ==
    /\ reported \subseteq Edges
    /\ settled => /\ reported = Edges
                  /\ \A a \in known : Reach(DrvOf[a]) \subseteq answered

Init ==
    /\ known = {} /\ answered = {}
    /\ graph = [p \in Path |-> {}]
    /\ reported = {}
    /\ settled = TRUE

Discover ==
    /\ \E a \in Attr \ known : known' = known \cup {a}
    /\ UNCHANGED <<answered, graph, reported>>

Learn ==
    /\ \E p \in Path \ answered, refs \in SUBSET Path :
          /\ answered' = answered \cup {p}
          /\ graph' = [graph EXCEPT ![p] = refs]
    /\ UNCHANGED <<known, reported>>

Report ==
    /\ reported \subseteq reported'
    /\ UNCHANGED <<known, answered, graph>>

Next ==
    /\ Discover \/ Learn \/ Report
    /\ settled' \in BOOLEAN
    /\ Consistent'

Spec == Init /\ [][Next]_vars
=============================================================================
