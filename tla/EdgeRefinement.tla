--------------------------- MODULE EdgeRefinement ---------------------------
(***************************************************************************)
(* EdgeDiscovery implements EdgeReporting: edges are settled when no call  *)
(* is running and every walk has run dry.                                  *)
(***************************************************************************)
EXTENDS EdgeDiscovery

Reporting == INSTANCE EdgeReporting WITH
    known <- Registered,
    graph <- references,
    settled <- idle /\ Done

\* However outputs, questions and answers interleave, walking the references
\* as the answers come in reports only what follows from them, never takes an
\* edge back, and is done only when there is nothing left to find out
\* ("An edge is final the moment both of its ends are known", pure.hh).
ImplementsReporting == Reporting!Spec
=============================================================================
