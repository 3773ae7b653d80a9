--------------------------- MODULE MCCommandLine ---------------------------
(***************************************************************************)
(* A small instance of CommandLine.                                        *)
(***************************************************************************)
EXTENDS CommandLine

\* What Nix takes them for; "git" stands for a git reference without a url.
GitRefs == {<<"git+https">>, <<"git+file">>, <<"git">>}
UrlRefs == {<<"git+https">>, <<"git+file">>, <<"tarball+https">>, <<"tarball+file">>}
FileRefs == {<<"git+file">>, <<"tarball+file">>}

Words == {<<"--flake">>, <<"--system">>, <<"--workers">>, <<"--no-shallow">>,
          <<"--help">>, <<"7">>, <<"git+https">>}

\* Every command line of up to six of these words.
EveryArgv == BoundedSeq(Words, 6)

\* Every text of up to three characters as a count, and every switch, among
\* what is required.
Texts == BoundedSeq({"0", "1", "7", "-"}, 3)
Counts == {<<"--workers">>, <<"--max-memory-size">>}
CountArgv ==
    {<<<<"--flake">>, <<"path">>, count, text, switch, <<"--system">>, <<"7">>>> :
        count \in Counts, text \in Texts, switch \in Switches \cup Help}
        \cup {<<<<"--flake">>, <<"git+https">>, <<"--workers">>, text, <<"--system">>, <<"7">>,
                <<"--workers">>, last>> : text \in Texts, last \in Texts}

\* Every kind of reference, with a history and without.
RefArgv ==
    {<<<<"--system">>, <<"7">>, switch, <<"--flake">>, ref>> :
        switch \in Switches, ref \in GitRefs \cup UrlRefs \cup {<<"path">>}}

\* Every system of up to five characters, those that mean something to Nix
\* among them.
SystemArgv ==
    {<<<<"--flake">>, <<"path">>, <<"--system">>, system>> :
        system \in BoundedSeq({Backslash, Quote, "$", "{", "n", CarriageReturn}, 5)}

SomeArgv == EveryArgv \cup CountArgv \cup RefArgv \cup SystemArgv
=============================================================================
