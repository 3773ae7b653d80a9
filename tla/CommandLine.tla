---------------------------- MODULE CommandLine ----------------------------
(***************************************************************************)
(* From the command line to what a run is started with: parseArgs and      *)
(* parsePositive (src/args.cc), main, maxWorkerCount (src/coordinator.cc), *)
(* initNixRuntime's settings, shallowIfRemoteGit and the system's part of  *)
(* selectExpr (src/nix_eval.cc).                                           *)
(*                                                                         *)
(* A word is a sequence of characters, except that the spelling of a flag  *)
(* is one character.  One step takes one argument, with its value.         *)
(***************************************************************************)
EXTENDS SystemLiteral, Decimal, FiniteSets, FiniteSetsExt, TLC

CONSTANTS
    Argvs,     \* the command lines, without the program's name
    MaxSize,   \* the largest size_t
    Hardware,  \* what hardware_concurrency may say
    Git,       \* the words that parseFlakeRef takes for git references,
    WithUrl,   \* for references with a "url"
    FileUrl,   \* and for references whose url starts with "file:"
    None       \* no count was given

ASSUME CommandLineAssumption ==
    /\ \A argv \in Argvs : argv \in Seq(Seq(STRING))
    /\ MaxSize \in Nat \ {0} /\ Hardware \subseteq Nat /\ None \notin Nat
    /\ FileUrl \subseteq WithUrl

VARIABLES
    argv,
    i,                     \* the argument parseArgs is at
    args,                  \* Args
    haveFlake, haveSystem,
    outcome,               \* "parsing", "parsed", "help", "error", "started"
    cores,                 \* hardware_concurrency()
    run                    \* what the run is started with

vars == <<argv, i, args, haveFlake, haveSystem, outcome, cores, run>>

WithValue == {<<"--flake">>, <<"--system">>, <<"--workers">>, <<"--max-memory-size">>}
Switches == {<<"--no-dependencies">>, <<"--no-import-from-derivation">>,
             <<"--impure">>, <<"--no-shallow">>}
Help == {<<"--help">>, <<"-h">>}

Init ==
    /\ argv \in Argvs
    /\ i = 1
    /\ args = [flakeRef |-> <<>>, system |-> <<>>, workers |-> None, maxMemoryMiB |-> 4096,
               dependencies |-> TRUE, importFromDerivation |-> TRUE, impure |-> FALSE,
               shallow |-> TRUE]
    /\ haveFlake = FALSE /\ haveSystem = FALSE
    /\ outcome = "parsing"
    /\ cores \in Hardware
    /\ run = None

-----------------------------------------------------------------------------
(* parsePositive *)

Number(text) == FoldLeft(LAMBDA n, c : 10 * n + DigitValue[c], 0, text)
AllDigits(text) == text # <<>> /\ Range(text) \subseteq Digit

\* from_chars does not take what does not fit.
Wrapped(text) == AllDigits(text) /\ Number(text) % (MaxSize + 1) # 0
IsPositive(text) == AllDigits(text) /\ Number(text) \in 1..MaxSize

-----------------------------------------------------------------------------
(* parseArgs *)

Parsing == outcome = "parsing" /\ i <= Len(argv)
HasValue == i < Len(argv)
AfterFlag == i + 1
AfterValue == i + 2

Reject ==
    /\ outcome' = "error"
    /\ UNCHANGED <<argv, i, args, haveFlake, haveSystem, cores, run>>

TakeText ==
    /\ Parsing /\ HasValue
    /\ \/ /\ argv[i] = <<"--flake">>
          /\ args' = [args EXCEPT !.flakeRef = argv[i + 1]]
          /\ haveFlake' = TRUE /\ UNCHANGED haveSystem
       \/ /\ argv[i] = <<"--system">>
          /\ args' = [args EXCEPT !.system = argv[i + 1]]
          /\ haveSystem' = TRUE /\ UNCHANGED haveFlake
    /\ i' = AfterValue
    /\ UNCHANGED <<argv, outcome, cores, run>>

TakeCount ==
    /\ Parsing /\ HasValue
    /\ IsPositive(argv[i + 1])
    /\ \/ /\ argv[i] = <<"--workers">>
          /\ args' = [args EXCEPT !.workers = Number(argv[i + 1])]
       \/ /\ argv[i] = <<"--max-memory-size">>
          /\ args' = [args EXCEPT !.maxMemoryMiB = Number(argv[i + 1])]
    /\ i' = AfterValue
    /\ UNCHANGED <<argv, haveFlake, haveSystem, outcome, cores, run>>

RejectCount ==
    /\ Parsing /\ HasValue
    /\ argv[i] \in {<<"--workers">>, <<"--max-memory-size">>}
    /\ ~IsPositive(argv[i + 1])
    /\ Reject

MissingValue == Parsing /\ ~HasValue /\ argv[i] \in WithValue /\ Reject

Switch ==
    /\ Parsing
    /\ args' = CASE argv[i] = <<"--no-dependencies">> -> [args EXCEPT !.dependencies = FALSE]
                 [] argv[i] = <<"--no-import-from-derivation">> ->
                        [args EXCEPT !.importFromDerivation = FALSE]
                 [] argv[i] = <<"--impure">> -> [args EXCEPT !.impure = TRUE]
                 [] argv[i] = <<"--no-shallow">> -> [args EXCEPT !.shallow = FALSE]
                 [] OTHER -> args
    /\ argv[i] \in Switches
    /\ i' = i + 1
    /\ UNCHANGED <<argv, haveFlake, haveSystem, outcome, cores, run>>

AskForHelp ==
    /\ Parsing /\ argv[i] \in Help
    /\ outcome' = "help"
    /\ UNCHANGED <<argv, i, args, haveFlake, haveSystem, cores, run>>

Unknown == Parsing /\ argv[i] \notin WithValue \cup Switches \cup Help /\ Reject

EndOfArguments ==
    /\ outcome = "parsing" /\ i > Len(argv)
    /\ outcome' = IF haveFlake /\ haveSystem THEN "parsed" ELSE "error"
    /\ UNCHANGED <<argv, i, args, haveFlake, haveSystem, cores, run>>

-----------------------------------------------------------------------------
(* What the run is started with *)

AsManyAsCores == IF args.workers # None THEN args.workers ELSE cores
MaxWorkerCount ==
    IF args.workers # None THEN args.workers ELSE IF cores = 0 THEN 1 ELSE cores

\* What a reference is, is what Nix's fetchers make of it.
Reference(ref) == [isGit |-> ref \in Git, hasUrl |-> ref \in WithUrl, ofFile |-> ref \in FileUrl]

EveryGitUrl(ref) == args.shallow /\ Reference(ref).isGit /\ Reference(ref).hasUrl
ShallowIfRemoteGit(ref) ==
    /\ args.shallow
    /\ Reference(ref).isGit
    /\ Reference(ref).hasUrl /\ ~Reference(ref).ofFile

\* selectExpr puts this behind the system.
EndOfSelection == <<";">>

Start ==
    /\ outcome = "parsed"
    /\ outcome' = "started"
    /\ run' = [maxWorkers |-> MaxWorkerCount, maxMemoryMiB |-> args.maxMemoryMiB,
               fetched |-> args.flakeRef, system |-> args.system,
               selected |-> NixStringLiteral(args.system) \o EndOfSelection,
               shallow |-> ShallowIfRemoteGit(args.flakeRef),
               pureEval |-> ~args.impure, importFromDerivation |-> args.importFromDerivation,
               wantEdges |-> args.dependencies]
    /\ UNCHANGED <<argv, i, args, haveFlake, haveSystem, cores>>

Over == outcome \in {"help", "error", "started"} /\ UNCHANGED vars

Next ==
    \/ TakeText \/ TakeCount \/ RejectCount \/ MissingValue \/ Switch
    \/ AskForHelp \/ Unknown \/ EndOfArguments \/ Start \/ Over

Spec == Init /\ [][Next]_vars

-----------------------------------------------------------------------------
(* Properties *)

\* What the arguments mean, all at once.  A word is a value if the unbroken row
\* of words before it that want one is of odd length.
IsValue(k) ==
    \E j \in 1..(k - 1) :
        /\ \A n \in j..(k - 1) : argv[n] \in WithValue
        /\ j > 1 => argv[j - 1] \notin WithValue
        /\ (k - j) % 2 = 1
Flags == {k \in DOMAIN argv : ~IsValue(k)}

\* The text is n in decimal, perhaps after zeros.
Reads(text, n) ==
    /\ text # <<>> /\ n < TenTo[Len(text)]
    /\ \A k \in DOMAIN text :
          text[k] \in Digit /\ DigitValue[text[k]] = (n \div TenTo[Len(text) - k]) % 10

IsCount(k) == argv[k] \in {<<"--workers">>, <<"--max-memory-size">>}
WellFormed(k) ==
    /\ argv[k] \in WithValue \cup Switches
    /\ argv[k] \in WithValue => k < Len(argv)
    /\ IsCount(k) => \E n \in 1..MaxSize : Reads(argv[k + 1], n)
Offences == {k \in Flags : ~WellFormed(k)}

Given(flag) == \E k \in Flags : argv[k] = flag
LastValue(flag) == argv[Max({k \in Flags : argv[k] = flag}) + 1]

\* Taking one argument after the other accepts exactly the command lines that
\* are well-formed as a whole: whatever stands in a value's place is a value,
\* counts are the positive numbers that fit ("Digits and nothing else",
\* args.cc:52), and help is an answer only when it is asked for before
\* anything is wrong.
AcceptsTheGrammar ==
    outcome # "parsing" =>
        /\ outcome \in {"parsed", "started"} <=>
               Offences = {} /\ Given(<<"--flake">>) /\ Given(<<"--system">>)
        /\ outcome = "help" <=> Offences # {} /\ argv[Min(Offences)] \in Help

\* A run is started with what was asked for last, wherever it was said; the
\* pool may have at least one worker on any machine, and is fetched with its
\* history if that was asked for or it is not a remote repository.
StartsWhatWasAskedFor ==
    outcome = "started" =>
        /\ run.fetched = LastValue(<<"--flake">>)
        /\ run.system = LastValue(<<"--system">>)
        /\ run.maxWorkers >= 1
        /\ IF Given(<<"--workers">>)
           THEN Reads(LastValue(<<"--workers">>), run.maxWorkers)
           ELSE cores > 0 => run.maxWorkers = cores
        /\ IF Given(<<"--max-memory-size">>)
           THEN Reads(LastValue(<<"--max-memory-size">>), run.maxMemoryMiB)
           ELSE run.maxMemoryMiB = 4096
        /\ run.shallow <=> ~Given(<<"--no-shallow">>) /\ run.fetched \in (Git \cap WithUrl) \ FileUrl
        /\ run.pureEval <=> ~Given(<<"--impure">>)
        /\ run.importFromDerivation <=> ~Given(<<"--no-import-from-derivation">>)
        /\ run.wantEdges <=> ~Given(<<"--no-dependencies">>)

\* Whatever the system is called, as long as no carriage return is in it, Nix
\* reads one string from the expression, that string is the system that was
\* asked for, and the rest of the expression is what selectExpr wrote.  (A
\* carriage return is not escaped, and Nix reads it as a newline.)
ReadsBack ==
    outcome = "started" /\ CarriageReturn \notin Range(run.system) =>
        NixReads(run.selected) = [t |-> "string", value |-> LastValue(<<"--system">>),
                                  rest |-> EndOfSelection]
=============================================================================
