---------------------------- MODULE MCLineReader ----------------------------
(***************************************************************************)
(* Small instances of LineReader.                                          *)
(***************************************************************************)
EXTENDS LineReader

\* Up to three messages, from the shortest to ones above the limit.
EveryScript == BoundedSeq(1..(Limit + 1), 3) \ {<<>>}
=============================================================================
