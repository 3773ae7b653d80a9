--------------------------- MODULE MCCoordinator ---------------------------
(***************************************************************************)
(* Small instances of Coordinator: flakes of a few attributes.             *)
(***************************************************************************)
EXTENDS Coordinator

CONSTANTS n1, n2

NoChange == [n \in Name |-> n]

Leaf(kind) == [kind |-> kind, children |-> <<>>]
Node(names) == [kind |-> "children", children |-> names]

\* A flake whose root has two attributes.
TwoAttributes(first, second) ==
    [p \in AttrPath |-> CASE p = <<>> -> Node(<<n1, n2>>)
                          [] p = <<n1>> -> first
                          [] p = <<n2>> -> second
                          [] OTHER -> Leaf("ignore")]

\* A job beside each of the things that can go wrong, a set that contains
\* itself among them.
CyclicFlake ==
    [p \in AttrPath |-> CASE p = <<>> -> Node(<<n1, n2>>)
                           [] p # <<>> /\ Last(p) = n1 -> Leaf("job")
                           [] OTHER -> Node(<<n2>>)]
TroubledFlakes ==
    {TwoAttributes(Leaf("job"), Leaf(kind)) : kind \in {"kills", "oversized"}}
        \cup {CyclicFlake}

\* A job beside something that kills its workers; and no job at all.
KillingFlakes ==
    { TwoAttributes(Leaf("job"), Leaf("kills")),
      TwoAttributes(Leaf("throws"), Leaf("ignore")) }

\* A job beside something that is a job or nothing.
PlainFlakes == {TwoAttributes(Leaf("job"), Leaf(kind)) : kind \in {"job", "ignore"}}

\* A job whose name dumpLossy does not leave alone: n2 stands for a name that
\* is not valid UTF-8, and n1 for what is made of it.
Replaced == [n \in Name |-> n1]
MisnamedFlakes ==
    {[p \in AttrPath |-> CASE p = <<>> -> Node(<<n2>>)
                           [] p = <<n2>> -> Leaf("job")
                           [] OTHER -> Leaf("ignore")]}
=============================================================================
