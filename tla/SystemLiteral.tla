--------------------------- MODULE SystemLiteral ---------------------------
(***************************************************************************)
(* The system, from the command line, as a name in the expression that     *)
(* selects the discovery root: nixStringLiteral (src/nix_eval.cc), and how *)
(* Nix reads what it writes.  Texts are sequences of characters.           *)
(***************************************************************************)
EXTENDS Naturals, Sequences, SequencesExt

Quote == "\""
Backslash == "\\"
Newline == "\n"
CarriageReturn == "\r"
Tab == "\t"

EscapeQuotes(c) == IF c \in {Backslash, Quote} THEN <<Backslash, c>> ELSE <<c>>
Escape(c) == IF c \in {Backslash, Quote, "$"} THEN <<Backslash, c>> ELSE <<c>>

NixStringLiteral(value) ==
    FoldLeft(LAMBDA out, c : out \o Escape(c), <<Quote>>, value) \o <<Quote>>

-----------------------------------------------------------------------------
(* Nix reads a string: a backslash takes the next character for itself, or
   for a control character; "${" interpolates, unless the dollar is taken by
   another before it; a carriage return, and a newline behind it, is one
   newline; a quote closes. *)

Interpolates == [t |-> "interpolates"]
Unclosed == [t |-> "unclosed"]
Meant(c) == CASE c = "n" -> Newline [] c = "r" -> CarriageReturn [] c = "t" -> Tab [] OTHER -> c

Before(taken, read) == IF read.t = "string" THEN [read EXCEPT !.value = taken \o @] ELSE read

\* What the text is read as from the k-th character on, and what it leaves.
NixReads(text) ==
    LET is(k, c) == k <= Len(text) /\ text[k] = c
        from[k \in 1..(Len(text) + 2)] ==
            CASE k > Len(text) -> Unclosed
              [] is(k, Quote) ->
                     [t |-> "string", value |-> <<>>, rest |-> SubSeq(text, k + 1, Len(text))]
              [] is(k, Backslash) ->
                     IF k = Len(text) THEN Unclosed ELSE Before(<<Meant(text[k + 1])>>, from[k + 2])
              [] is(k, "$") /\ is(k + 1, "{") -> Interpolates
              [] is(k, "$") /\ is(k + 1, "$") -> Before(<<"$", "$">>, from[k + 2])
              [] is(k, CarriageReturn) ->
                     Before(<<Newline>>, from[IF is(k + 1, Newline) THEN k + 2 ELSE k + 1])
              [] OTHER -> Before(<<text[k]>>, from[k + 1])
    IN  IF is(1, Quote) THEN from[2] ELSE Unclosed
=============================================================================
