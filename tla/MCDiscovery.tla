---------------------------- MODULE MCDiscovery ----------------------------
(***************************************************************************)
(* Small instances of Discovery: a handful of jobs and their derivations.  *)
(***************************************************************************)
EXTENDS Discovery, MCCoordinator

CONSTANTS n3, d1, d2, d3

\* Three attributes under the root.
ThreeAttributes(first, second, third) ==
    [p \in AttrPath |-> CASE p = <<>> -> Node(<<n1, n2, n3>>)
                          [] p = <<n1>> -> first
                          [] p = <<n2>> -> second
                          [] p = <<n3>> -> third
                          [] OTHER -> Leaf("ignore")]

\* Three jobs, or two and between them one that kills its workers.
JobsAndKiller ==
    {ThreeAttributes(Leaf("job"), Leaf(kind), Leaf("job")) : kind \in {"job", "kills"}}

\* The first two have one derivation; d3 is nobody's output.
TwoNamesForOne == [p \in AttrPath |-> IF p = <<n3>> THEN d2 ELSE d1]

\* Either of two derivations may lie in the closure of the other, directly or
\* through one that is no output, and both may through a cycle.
SmallStores ==
    { d1 :> {d2} @@ d2 :> {} @@ d3 :> {},
      d1 :> {} @@ d2 :> {d3} @@ d3 :> {d1},
      d1 :> {d3} @@ d2 :> {d1} @@ d3 :> {d2, d3} }
=============================================================================
