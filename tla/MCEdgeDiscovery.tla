-------------------------- MODULE MCEdgeDiscovery --------------------------
(***************************************************************************)
(* Small instances of EdgeDiscovery.                                       *)
(***************************************************************************)
EXTENDS EdgeRefinement

CONSTANTS a1, a2, a3, a4, p1, p2, p3, p4

\* Three outputs with derivations of their own and one alias of the first; any
\* of them may come late or never.  p4 is no output's derivation.
AliasedDrvOf == a1 :> p1 @@ a2 :> p2 @@ a3 :> p3 @@ a4 :> p1

\* Every reference graph over the outputs' paths, cycles included, but for one of
\* two that only differ in the names of p2 and p3.
Graphs == [{p1, p2, p3} -> SUBSET {p1, p2, p3}]
EveryGraph ==
    {[p \in Path |-> IF p = p4 THEN {} ELSE g[p]] :
         g \in {f \in Graphs : /\ \A p \in DOMAIN f : p \notin f[p]
                             /\ Cardinality(f[p2]) <= Cardinality(f[p3])}}

\* A diamond under an output, and cycles through a path that is none, with
\* paths that refer to themselves.
LargerGraphs ==
    { p1 :> {p3, p4} @@ p2 :> {p2} @@ p3 :> {p2} @@ p4 :> {p2},
      p1 :> {p1, p4} @@ p2 :> {p1, p4} @@ p3 :> {} @@ p4 :> {p2, p3} }

EveryStore == EveryGraph \cup LargerGraphs

\* The aliased derivation refers to another output's.
ChainStore == { [p \in Path |-> IF p = p1 THEN {p2} ELSE {}] }
=============================================================================
