---------------------------- MODULE MCEvaluation ----------------------------
(***************************************************************************)
(* A small instance of Evaluation.                                         *)
(***************************************************************************)
EXTENDS Evaluation

CONSTANTS packages, checks, sys, other, top, set, leaf

\* A set whose attributes lead to each other and to itself, of any kinds: the
\* packages of two systems, one of which is also the checks.
EveryFlake ==
    [kind: [Node -> Kind], self: {top},
     attrs: {top :> (packages :> set @@ checks :> leaf)
               @@ set :> (sys :> leaf @@ other :> top)
               @@ leaf :> (sys :> set @@ other :> leaf),
             top :> (packages :> set @@ other :> set)
               @@ set :> (sys :> set @@ packages :> leaf)
               @@ leaf :> [n \in {} |-> top]}]

EveryPath == BoundedSeq(Name, 4)

\* A derivation to be asked about whatever happens to its outputs.
OneDerivation ==
    [kind |-> (top :> "attrs" @@ set :> "attrs" @@ leaf :> "derivation"), self |-> top,
     attrs |-> (top :> (packages :> set) @@ set :> (sys :> leaf) @@ leaf :> (sys :> leaf))]

\* Up to six characters of /proc/self/statm, numbers of three digits and more
\* among them.
EveryText == BoundedSeq({"0", "1", "7", " ", "x"}, 6)
Little == [readable |-> TRUE, text |-> <<"7", " ", "1">>, pageSize |-> 4]
Much == [readable |-> TRUE, text |-> <<"7", " ", "1", "0">>, pageSize |-> 4]

\* Every path in flakes of any kinds; every order and lack of paths of three
\* outputs, in a store that changes twice; and everything that can be read of
\* the memory, after one answer.
EveryRequest ==
    [flake: EveryFlake, path: EveryPath, outputs: {<<>>}, floating: {{}}, changes: {0},
     memory: {Little}]
        \cup [flake: {OneDerivation}, path: {<<packages, sys>>}, outputs: SetToSeqs(Output),
              floating: SUBSET Output, changes: {2}, memory: {Little}]
        \cup [flake: {OneDerivation}, path: {<<>>}, outputs: {<<>>}, floating: {{}},
              changes: {0},
              memory: [readable: {TRUE}, text: EveryText, pageSize: {4}]
                          \cup {[Much EXCEPT !.readable = FALSE], [Much EXCEPT !.pageSize = -1]}]
=============================================================================
