# nix-ci-eval: specification, model checking and proofs

`nix-ci-eval` evaluates the outputs of a Nix flake. A coordinator process forks
evaluation workers, hands them attribute paths, and writes one JSON line per
result to stdout: `job`, `error`, `dependency`, and a last line `done`, "the only
proof that you have the whole stream" (`src/README.md:67`). Workers crash, grow
past their memory ceiling and are killed by the kernel; the coordinator's work is
to lose nothing, do nothing twice, blame no attribute wrongly and always stop.

This directory holds TLA+ modules translated from `src/src/*.cc`, the TLC
configurations that check them on small instances, and TLAPS proofs that hold for
every value of the constants. `PROJECT.json` maps each definition to the source
lines it stands for, lists the hazards with the properties that cover them, and
names for each property a change to the model that breaks it.

    tlc -config MCCrashes.cfg MCCoordinator.tla      # and so on, see "Runs"
    tlapm DiscoveryProofs.tla                        # and so on, see "Proofs"

## Inventory

### Event loop (`coordinator.cc`, `coordinator.hh`, `main.cc`)

State: the queue `todo` of attribute paths with the number of worker deaths each
has seen, the count `active` of paths dispatched and not settled, the vector of
`Worker`s (pipes, `idle`, `readySinceFork`, `startupFailures`, `currentJob`, line
buffer, timing), `fatal`, the cost model, and the edge discovery.
Operations, once per pass: look at the interrupt flag; `growPool`; `dispatch` the
queue to idle workers; stop if nothing is queued or active; `stepEdges` with time
that would be spent waiting; `poll`; for each readable worker read and handle
lines (`ready`, `restart`, `fatal`, `job`, `error`, `ignore`, `children`), or
`handleWorkerDeath`. At the end every worker is told to exit, killed and reaped,
remaining edges are walked, and `done` is written unless the run is fatal.
Hard: every step interleaves with the workers' own; what the coordinator believes
of a worker (idle, holding a job) is stale from the moment it is written down;
several lines may be in one read and one line in several; a dead worker may have
answered first; retries must be bounded yet not blame an innocent attribute.
Correct when: each path found is waiting, with a worker, or concluded, and in only
one of these; `active` counts the held jobs; an answer is matched with its job;
`done` means that everything found is concluded; the loop ends; no worker outlives
the run.

### Worker process (`worker.cc`)

State: the evaluator, where it is in its request loop. Operations: load the flake
and say `ready` or `fatal`; read a request; evaluate; answer; measure resident
memory and say `ready` or `restart`. Hard: it may die at any point of this, and in
the middle of a line. Correct when: one answer per request, then one `ready`.

### Processes and descriptors (`forkWorker`, `Worker::shutdown`, `liveFdsExcept`)

State: every process's descriptor table; each slot's pid and two descriptor
numbers. Operations: fork a worker with two pipes (the child closes its parent's
ends and its siblings', the parent its child's), shut a worker down (close, wait),
replace one, tear all down at the end or when an exception unwinds. Hard: a fork
copies the siblings' pipes; a closed number is given out again; a call may fail
after others succeeded; the coordinator may die before its child has asked to die
with it. Correct when: each process holds its own ends and nothing else; a slot's
numbers are its worker's; a death shows; waiting for a worker ends; no child is left.

### Line protocol (`line_io.cc`)

State: a `LineReader` buffer per worker; the pipe. `readLine` returns a line, an
unterminated rest at end of file, nothing at end of file, or throws above a limit.
Hard: reads of any size; a complete line that is already buffered does not make
`poll` return. Correct when: no line is lost, merged or left waiting, and only what
is too long is refused.

### Edge discovery (`EdgeDiscovery` in `pure.cc`)

State: per output a walk (stack, visited set) over the store's references, shared
answers, who has reached which path. Operations: `addOutput`, `nextQuery`,
`provideReferences`, `done`. Hard: outputs and answers arrive in any order; an
output may arrive after others' walks have passed through its derivation; two
outputs may have one derivation; graphs may be cyclic to this code. Correct when:
edges are true, reported as soon as both ends are known, once, and in the end
exactly those that `outputDependenciesFor` finds in whole closures; and there is
always something to ask until done.

### Pool sizing (`shouldSpawnWorker`, `WorkerCostModel`, `pollTimeoutMs`)

State: totals of measured durations, when each worker was forked and given its job.
Operations: measure a first or a later derivation; decide whether to fork one more;
decide how long `poll` may wait. Hard: the clock is read several times in one pass;
waits are rounded to milliseconds; measurements of replaced workers; nobody wakes
the loop when the pool may grow. Correct when: the pool is backed by derivations
seen and by time already spent; a pool held back by the clock grows in time; the loop
neither spins nor sleeps too long.

### Evaluation (`nix_eval.cc`)

State: the discovery root, an expression over the flake; Nix's values, forced as they
are reached. Operations: select the output types for one system; navigate to an
attribute; classify it; ask store and caches whether its outputs are there. Hard:
what is missing has a default and what fails has not; values may contain each other;
the store changes between two questions; the system is text inside an expression.
Correct when: the answer is about the value that the path names in the flake, and
`isCached` was so.

### Text and memory helpers (`pure.cc`, `worker.cc`)

`currentResidentMiB` and `residentMiBFromStatm` decide whether a worker restarts;
`truncateForLine` and `cleanErrorMessage` shape an error's text. Hard: unexpected
text, sums that wrap. Correct when: a worker restarts if it holds too much and not
otherwise.

### Command line and set-up (`args.cc`, `main.cc`, `initNixRuntime`)

One pass over the arguments, then what a run is started with. Hard: flags in the
place of values, counts at the edges of their range, repeated flags. Correct when:
what is accepted is well-formed as a whole and starts what was asked for.

### Interactions

    flake --> Worker --(fromChild: ready/restart/fatal/answers)--> Event loop --> stdout
                ^------(toChild: do/exit)-------------------------'   |    ^
    kernel, signals --> kill / interrupted                  addOutput |    | edges
                                                                      v    |
                                        store <--(references)-- Edge discovery

## Modules

| Module | Models | Role |
| --- | --- | --- |
| `Worker` | `worker.cc`, the pipes of `line_io.cc` | one state machine per slot, plus ambient death |
| `Coordinator` (extends `Worker`) | the event loop of `coordinator.cc`, `LineReader` | one action per step of the loop; properties |
| `AttributeWalk` | what a run promises its consumer | abstract specification |
| `EdgeDiscovery` | `EdgeDiscovery` in `pure.cc` | one action per operation and per iteration of its drain loop; properties; inductive invariant |
| `EdgeReporting`, `EdgeRefinement` | what edge discovery promises its caller | abstract specification, and the mapping under which `EdgeDiscovery` implements it |
| `Discovery` (extends `Coordinator`, instantiates `EdgeDiscovery`) | a whole run with dependencies | composition: `stepEdges`, the store, the final walk, the lines of stdout |
| `LineReader` | `line_io.cc` | bytes, reads, writes, the limit, the death of the writer |
| `MessageStream` | what a pipe of lines promises | abstract specification of `LineReader` |
| `WorkerPool` | cost model and ramp of `pure.cc`, `growPool`, `pollTimeoutMs` | the pool over a clock |
| `Descriptors` | `forkWorker`, `liveFdsExcept`, `Worker` | who holds which end of which pipe |
| `Evaluation` | `Evaluator` in `nix_eval.cc` | one request over a graph of values and a changing store, and whether to restart after it |
| `ResidentMemory` (extended by `Evaluation`) | `residentMiBFromStatm`, `currentResidentMiB` | operators: from the text of `/proc/self/statm` to mebibytes |
| `CommandLine` | `args.cc`, `main.cc`, `maxWorkerCount`, `shallowIfRemoteGit` | from arguments to what a run is started with |
| `SystemLiteral` (extended by `CommandLine`) | `nixStringLiteral` | operators: writing the system, and Nix reading it |
| `Decimal` (extended by `ResidentMemory`, `CommandLine`) | | operators: what digits are worth |
| `MC...` | | flakes, graphs, scripts, texts for TLC |
| `EdgeDiscoveryProofs` (extends `EdgeRefinement`) | | theorems: `EdgeDiscovery` and the refinement of `EdgeReporting` |
| `DiscoveryProofs` (extends `Discovery`, instantiates `EdgeDiscoveryProofs`) | | theorems about `Coordinator`: types, the end of a run, the conversation with each worker, what becomes of the attributes, the refinement of `AttributeWalk`, who is blamed; and about `Discovery`: what a consumer of stdout may rely on |
| `LineReaderProofs`, `WorkerPoolProofs`, `DescriptorProofs`, `EvaluationProofs`, `CommandLineProofs` | | theorems about the module of that name |
| `InductionFacts` | | lemmas: induction and recursion, greatest elements, sums, folds, powers of ten |

The modules meet as the code does. `Discovery` takes every step of the loop from
`Coordinator` and every call of the walk from `EdgeDiscovery` and adds what lies
between. `LineReader`, `WorkerPool`, `Descriptors` and `Evaluation` each look closer at
one thing that `Coordinator` and `Worker` leave open (bytes, the clock, descriptors, an
outcome, a restart), so that `Coordinator` need not repeat them; the choices it makes
freely include all that these allow.

### Worker and Coordinator

A slot is an index of the coordinator's `workers` vector; `Slot` is fixed at
`MaxWorkers` and `pool` says how many have been forked. A slot's process is at one
of nine places (`State`), from `starting` through `waiting`, `evaluating`, `body`,
`newline` and `measuring` to `dead`, and two sequences stand for its pipes.
`writeLine` is two `write`s, so a line is two tokens: the body and the newline. A
process that dies writing a body may leave a `Torn` token, which stands for any
proper part of it. `flake` gives the outcome of every attribute path and is chosen
once; an outcome of `kills` is an evaluation that takes the process with it.

`pc` follows one pass of the loop: `top` (interrupt check, `growPool`), `dispatch`,
`poll`, `service`, `teardown`, `kill`, `finish`, `exited`; and `unwind`, where an
exception is on its way to `main` and destroys workers in order, closing each
one's pipes and waiting for it. Within `service`, reading from a pipe and handling
one line are separate steps, and workers may move between any two. Each
`Handle...` action is one branch of `handleLine` with all that the branch does;
`GiveUp` and `ReplaceWorker` are the two ways through `handleWorkerDeath`.
`Conclude` records in `verdict` what the run says of a path: four of the verdicts
are lines on stdout, `expanded` and `ignored` are silent.

`shouldSpawnWorker` appears as `MaySpawn`: its counts are exact and its clock may
or may not have let it through. The first worker is always forked.

Faults are a CONSTANT set, so that each run says what it supposes: unlimited
kills, a flake that does not load, memory above the ceiling after any answer, an
exception in a worker's request loop (`LeaveLoop`: what nobody else catches, such as
`bad_alloc`, becomes a fatal message), `fork`/`pipe` failing, `poll` interrupted or
failing, stdout failing, a signal; `CrashBudget` bounds kills in runs that are about a
bounded number of them.

### AttributeWalk

No workers, pipes or retries: each path found is concluded once, with its true
verdict or as having killed its workers; an expanded path's children are found;
the stream is called complete only when nothing found is unconcluded; otherwise it
may be cut. `Coordinator!ImplementsWalk` states that the loop implements this under
`stream` = complete once `done` is out, cut if the process is gone without it.

### EdgeDiscovery

`outputs` is `outputs_` (and the order of `walks_`), `outputOf` is
`outputByPathId_`, `reachedBy` and `references` are the vectors of those names with
`answered` for the paths that have an entry. Interned integers are left out: a path
is named by itself. `addOutput` and `provideReferences` end in a loop that drains
walks; `AddOutput` and `ProvideReferences` do all that comes before it, `Expand` and
`NextWalk` are iterations, `Return` is the end of the call, and `cursor` shuts out
other operations meanwhile. `store` is the real graph, chosen at the start;
`Answers` is what the coordinator passes on: the path's references, or none if the
store cannot be asked (`coordinator.cc:553`).

### Discovery

`stdout` is the sequence of lines. `JobFound` writes the job line, then registers
the output; the edges come when the call of `EdgeDiscovery` returns (`ReturnCall`),
one line per attribute (`DependencyLines`). `budget` is the number of questions left
to `stepEdges` in this pass; a pass that has some left and something to ask
(`StepsEdges`) does not go on to `poll`. `Busy` says that the coordinator is inside a
call or waits for the store: its own steps wait, its workers' do not. `WalksOn` is the
condition of the final loop, between the teardown and `done`. A question may fail,
and the store may fail to open at the first one, which clears `wantEdges`.

### EdgeReporting and EdgeRefinement

The abstract reporter knows a set of outputs and a set of pairs that it has
reported. Between two calls, which are one step to it, the pairs grow by exactly
what became known, truthfully, and each pair once. `EdgeRefinement` maps the walk's
stacks, visited sets and drain loop to it.

### LineReader and MessageStream

Message i is i repeated, and 0 is the newline, so that lines tell what they were made
of. `Write` takes any part of what is left, `HangUp` ends the peer at any byte,
`ReadChunk` takes what the pipe holds up to a chunk and compares the buffer with the
limit before anyone looks for a newline in it, or, in a run in which reads may fail
(`faulty`), ends the stream; `TakeLine` and `ReturnRest` are the
two ways `readLine` returns. The caller handles lines while one is buffered and goes
back to `poll` when none is, gives a refused or torn stream up, and takes an empty
line for the end. `MessageStream` counts messages: received are at most those sent,
in order, then perhaps one torn, then nothing.

### WorkerPool

Time is counted in ticks, several to the millisecond, and may pass at any point of the
loop; only `poll` returns when its time is up. Workers are reduced to when they say
something; after one `poll` any number of them are heard before the loop goes around
(`service`). `Sizing` is `poolSizing()` at the moment it is read; the policy's
operators are those of `pure.cc`. `paid` remembers, for the properties, what a
worker's first derivation was measured to cost.

### Descriptors

`table[p]` is what process p has behind each number, `slots` what each `Worker` holds.
`ForkWorker` opens two pipes at the lowest free numbers, copies the table to the child
and closes what the parent closes; the child closes, when it gets to it, the numbers
that the parent listed before the fork. `ForkFails` is each of the three failures
with its clean-up. `Restart`, `Replace` and the end of the run go through `CloseEnds`
and `Reap`, the two halves of `shutdown`. `CoordinatorKilled` takes the children that
have asked for it along; `Arm` and `SetUp` are on the two sides of that window.

### Evaluation, ResidentMemory

A request is an attribute path in a flake, with the order of a derivation's outputs
and what can be read of the worker's memory. A flake is a graph of values, each a set,
a derivation, something else or something that throws. The discovery root is not part
of it: `Root`, `TypeLevel` and `OrDefault` are `selectExpr`'s. Each step forces one
value or asks the store one question, and builds, garbage collection and caches may
change the store in between. `Measure` is what the worker does after its answer;
`CurrentResidentMiB` finds the second field and accumulates its digits in unsigned
arithmetic that wraps, while the properties speak of the fields of the whole text and
their numbers (`PagesIn`).

### CommandLine, SystemLiteral

`CommandLine` takes one argument per step and ends with the record a run is started
with, the expression for the system in it; its properties define from the whole line
which words are values, and what the line means. `NixStringLiteral` writes a system
as `nixStringLiteral` does and `NixReads` reads a literal as Nix's lexer does. A
carriage return is not escaped, and Nix reads it, with a newline behind it, as one
newline: `ReadsBack` is about systems without one. What Nix's fetchers take a reference
for (its type, whether it has a url, and one of a file) is given by three constants.

## Runs

`MaxStartupFailures` = 3 and `MaxAttempts` = 2 are the code's constants.

A property in brackets is a conjunct of the one before it, with a comment of its own
in the module.

| Run (cfg) | Question | Instance | Distinct states |
| --- | --- | --- | --- |
| `crashes` (`MCCrashes`) | Is the bookkeeping right however workers die, and does the run end? `TypeOK`, `ActiveCountsJobs`, `NothingForgotten` (`NothingLost`, `DoneMeansComplete`), `WorkersInStep` (`OneJobPerWorker`, `IdleWorkersListen`), `NoStrandedLine`, `VerdictsAreTrue`, `Termination` | 2 workers, unlimited kills, depth bound 2; a root with a job and a killer, with a job and an oversized answer, or with a set that contains itself | 589 040 |
| `faults` (`MCFaults`) | Do other faults together leave the promise intact, no worker behind and no innocent attribute blamed, and does a signal end the run while workers evaluate, unless an exception waits for one of them? `NoOrphans`, `OnlyKillersAreBlamed`, `ImplementsWalk`, `CrashesDoNotAbort`, `InterruptAnswered` | 2 workers, exceptions, restarts, `fork`, `poll` and stdout that fail, a signal, two kills; a job and a killer, an error and nothing; evaluations that need not end | 376 497 |
| `discovery` (`MCDiscovery`) | Do lines come in a usable order, once, with exactly the edges, and does the run end? `StreamIsUsable` (`DiscoveryTypeOK`, `JobsComeFirst`, `NothingTwice`), `EdgesAreExact` (`DoneMeansAllEdges`, `NoFalseEdges`), `EndsUnlessStuck` | 1 worker, unlimited kills, a flake that may not load, stdout and the store's opening may fail, a signal; three attributes of two derivations or a killer among them, three graphs, one question per pass; evaluations that need not end | 298 392 |
| `edges` (`MCEdgeDiscovery`) | Are edges true, eager, new, complete and what an abstract reporter gives; is there always a question, and an end? `TypeOK`, `EdgesAreTrue`, `EdgesAreEager`, `EdgesAreNew`, `EdgesAreComplete`, `NeverStuck`, `ImplementsReporting`, `EventuallyExact` | 4 outputs, one of them an alias; every graph without self-references over 3 paths (up to a swap of two) and two larger ones with them; failing queries | 512 489 |
| `line_reader` (`MCLineReader`) | Is any byte lost or doubled, any line left waiting, anything short refused, and does what is sent arrive? `NothingMisplaced` (`TypeOK`, `BytesConserved`, `NoLineWaits`, `RefusesOnlyLong`), `ImplementsStream`, `ShortArrive` | up to 3 messages around a limit of 5, reads of 3 that may fail | 145 818 |
| `worker_pool` (`MCWorkerPool`) | Is the pool backed by derivations and by time, does it grow with nobody's help, and does the loop neither spin nor oversleep meanwhile? `WaitIsRight` (`TypeOK`, `NoSpin`, `NoOversleep`), `PoolIsBacked`, `GrowthIsEarned`, `GrowsInTime` | 3 workers, one lost, 4 attributes, 2 ticks per ms, starts that cost nothing or half a ms | 2 002 394 |
| `descriptors` (`MCDescriptors`) | Does every process hold exactly its own ends, no child stay alone, and waiting for one end? `EachHoldsItsOwn` (`TypeOK`, `RunningHoldsItsOwn`, `SlotsAreAccurate`), `DeathShows`, `NoOrphan`, `ShutdownEnds` | 3 slots, 4 forks, 8 numbers, 2 failing calls | 57 206 |
| `evaluation` (`MCEvaluation`) | Is the answer about what the path names in the flake, was it cached, and is a restart made exactly when due? `AnswersReadAsInFlake`, `CacheAnswersHold` (`TypeOK`, `CachedIsTrue`), `RestartsWhenDue` (`RestartIsDue`, `CeilingHolds`) | paths of up to 4 names, 3 values of any kind, 2 shapes with cycles; 3 outputs in any order, any of them floating, 2 changes of the store; texts of up to 6 characters, 6-bit words; questions to the store that throw | 956 028 |
| `command_line` (`MCCommandLine`) | Is exactly the grammar accepted, what was asked for started, and the system read back? `AcceptsTheGrammar`, `StartsWhatWasAskedFor`, `ReadsBack` | every line of up to 6 of 7 words; every count of up to 3 characters, with switches and repeated; six kinds of reference; every system of up to 5 of 6 characters | 913 940 |

Three runs state what a document or a comment says and show that the code does
something else (see "Findings"): `blamed`, `lossy_name`, `alias`.

Why these bounds are enough: two workers give every interleaving of one worker's
death with another's answer, and every branch of the pool's growth but the third
fork, which differs from the second only in its count. Two attributes below a root
put one in the queue while another is held, retried or blamed. Retries (2) and
startup failures (3) are the code's, so both limits are reached. Depth 1 is the
shortest walk with a parent; depth 2 has a node on, one above and one below the
bound. With three paths there are chains, cycles and diamonds through the root; the
larger graphs add references of a path to itself and a path that is nobody's output
between outputs. The depth bound of the code itself, a large number, matters only as a
bound.

A budget of one question per pass makes every place in the loop one at which a walk is
left half done; the graphs have an edge each way, direct and through a path that is
nobody's output. One worker is enough there: how answers of two are interleaved is in
`crashes`, how answers and queries are is in `edges`, and what `discovery` adds is where
in the loop the queries come. The second worker of `faults` is also the one an exception
has to wait for. A limit of five bytes and reads of three put a message below, at and
above the limit, with its newline in the same read and in the next, and with another
message, or two newlines, behind it. Three slots are the fewest at which a pool held
back by the ramp has more than one paid-for worker, and at which a fork inherits two
siblings' pipes; four forks make a replacement meet numbers that were given out again.
Two ticks to the millisecond and a start that costs one make a wait of less than a
millisecond, which must not become none; four attributes let two workers that started
together be paid for while another attribute is queued. The run has no cost high enough
for a wait of several milliseconds, let alone one that poll's bound cuts down: that
`RoundedWait` is right there, truncated and bounded, is shown by
`PollIsGivenTheRightTime` alone, for every cost and bound. Two changes of the store make
an output come and go between the two questions. Six words hold each required flag with
its value and a repeated, misplaced or missing one; the largest size is put between two
texts of the same length. Six-bit words make both the digits and the product wrap.

Deadlock is checked in every run but those of `EdgeDiscovery`; a module that comes to
an end has one stuttering action for it (`Exited`, `Over`, `Stopped`).
`EdgeDiscovery` is a passive class that may simply not be called again, so
its runs do not check it.

### Fairness

`FairSpec` supposes that the coordinator's loop keeps running and each process takes
its steps. It is weak fairness on the coordinator as a whole, which is a single
thread, and on each worker, a process of its own; no kill, signal or fault need ever
happen. `Termination` needs it, since nothing in the code bounds an evaluation.
`EdgeDiscovery!FairSpec` supposes that a call that is running returns and that the
coordinator goes on asking and answering, which it does until `done()`; nothing
obliges a further output.

`PromptDiscovery` drops fairness for `starting` and `evaluating`, for loading a flake
and evaluating an attribute may take for ever, and adds the store: it answers, or
fails, each question, as a call that returns does. `EndsUnlessStuck` says that nothing
but such an evaluation keeps a run from ending. `PromptSpec` is the same without the
store; `InterruptAnswered` is checked under it, in `faults`, because a signal is meant
for exactly that case.
`LineReader!FairSpec` supposes that
a living writer writes what it has and that the caller of `readLine` comes back; the
writer need not die. `WorkerPool!FairSpec` supposes that time passes and the loop
runs, and nothing of workers, since what it is for is a pool whose workers are silent.
`Descriptors!FairSpec` supposes that a shutdown under way goes on, that a child sets
itself up, and that it exits when it has said so or its requests are over; nobody is
supposed to crash or to be killed.

## Findings

- An attribute is reported as having killed its worker "twice"
  (`coordinator.cc:463`, `pure.cc:272`) at the third death, and as having done so
  "while evaluating this attribute" also when no worker had read the request for it:
  the death of an idle worker between its `ready` and the next `dispatch` is charged
  to the attribute (`BlamedAsReported`).
- An output whose name is not valid UTF-8 is missing from a stream that ends in
  `done` (`WholeStream`): the name is replaced when it is serialised, and the
  replaced name does not exist.
- The second of two outputs with one derivation has no `dependency` lines
  (`EveryOutputHasItsEdges`).

Four more things met on the way, which the models show and no run is spent on:

- A signal does not end every run. An exception that leaves `runCoordinator`, when a
  fork or `poll` fails, destroys the workers without killing them, and each is waited for
  with a `waitpid` that is retried when interrupted (`coordinator.cc:91`, `123-128`). A
  worker in an evaluation does not notice that its pipes are closed, so that the wait
  lasts as long as the evaluation, and the interrupted flag is not looked at again. The
  comment says that the bound on poll's wait "is what makes the tool answer a SIGTERM
  while its workers are busy" (`coordinator.cc:494`). `InterruptAnswered` names this wait
  (`AwaitsEvaluation`) and shows that it is the only exception.
- The final walk of the edges (`coordinator.cc:665`) does not look at the interrupted
  flag. `Discovery` asks on after a signal there; `EndsUnlessStuck` shows that the walk
  itself ends.
- `readLine` compares the bytes in its buffer with the limit before it looks for a
  newline in them (`line_io.cc:64`), so that a message of exactly the limit, or a
  shorter one read together with the beginning of the next, may be refused.
  `ShortArrive` and `RefusesOnlyLong` say how much shorter is short enough.
- What a worker's start is measured to cost (`pure.cc:17`) includes the time it stood
  idle before its first attribute. The pool then grows later than it might.

## Proofs

Every theorem is about `Spec` (`DiscoverySpec`), without fairness, and holds for every
value of the constants that meets the assumptions below. What a run shows on a small
instance and a theorem in general is the same definition, named in both.

| Module | Theorem | States |
| --- | --- | --- |
| `DiscoveryProofs`, of `Coordinator` | `CoordinatorTypeCorrect` | `TypeOK` |
| | `NoWorkerOutlives` | `NoOrphans` |
| | `NoLineStranded` | `NoStrandedLine` |
| | `CoordinatorAndWorkersAgree` | `WorkersInStep` |
| | `ActiveIsExact` | `ActiveCountsJobs` |
| | `ReportsAreTrue` | `VerdictsAreTrue` |
| | `NoneIsForgotten` | `NothingForgotten` |
| | `LoopImplementsWalk` | `ImplementsWalk` |
| | `OnlyTheGuiltyAreBlamed` | `OnlyKillersAreBlamed` |
| | `CrashesNeverAbort` | `CrashesDoNotAbort` |
| `EdgeDiscoveryProofs` | `TypeCorrect`, `EdgesTrue`, `EdgesEager`, `EdgesNew`, `EdgesComplete`, `WalkNeverStuck` | `TypeOK`, `EdgesAreTrue`, `EdgesAreEager`, `EdgesAreNew`, `EdgesAreComplete`, `NeverStuck` |
| | `EdgesImplementReporting` | `ImplementsReporting` |
| `DiscoveryProofs`, of `Discovery` | `StdoutIsUsable`, `EdgesOnStdoutAreExact` | `StreamIsUsable`, `EdgesAreExact` |
| | `EdgesComeAfterJobs` | `DiscoveryTypeOK`, `JobsComeFirst`, `NoFalseEdges`, without a hypothesis |
| | `FailedQueriesCostNoOtherEdge` | `EdgesAreAsAnswered`, which is `DoneMeansAllEdges` for the answers instead of the store |
| `LineReaderProofs` | `NothingIsMisplaced` | `NothingMisplaced` |
| | `ReaderImplementsStream` | `ImplementsStream` |
| `WorkerPoolProofs` | `PollIsGivenTheRightTime`, `ThePoolIsBacked`, `StartsArePaidFor` | `WaitIsRight`, `PoolIsBacked`, `GrowthIsEarned` |
| `DescriptorProofs` | `NobodyHoldsAnothersEnds`, `EveryDeathShows`, `NobodyIsOrphaned` | `EachHoldsItsOwn`, `DeathShows`, `NoOrphan` |
| `EvaluationProofs` | `TheCacheIsTold`, `ThePathIsReadAsInFlake`, `TheCeilingIsRight` | `CacheAnswersHold`, `AnswersReadAsInFlake`, `RestartsWhenDue` |
| `CommandLineProofs` | `TheGrammarIsAccepted`, `WhatWasAskedForIsStarted`, `TheSystemIsReadBack` | `AcceptsTheGrammar`, `StartsWhatWasAskedFor`, `ReadsBack` |

### Assumptions

Each is an `ASSUME` of the module that declares the constants, so that the runs
evaluate it, or a hypothesis of the theorem.

- `WorkerAssumption`, `CoordinatorAssumption`, `EdgeAssumption`, `DiscoveryAssumption` and
  their like give the
  constants their types: bounds are positive, what is enumerated is finite.
- `NoneAssumption` (`Coordinator`, `Descriptors`; in `CommandLine` a part of
  `CommandLineAssumption`): the value that stands for "nothing"
  is none of the things that may be there. In the code these are a `std::optional`
  and -1.
- `LineReaderAssumption` has `Chunk <= Limit`: a read fits under the limit. The code
  reads 4096 bytes at a time under a limit of 8 MiB. With a longer read the first one
  of all could be refused, whatever it held.
- `DescriptorsAssumption`: descriptor numbers are finite in number, as a process's are,
  and enough for two pipes per slot and a pair more. Running out of them is one of the
  failing calls that `Failures` counts, not a matter of how many numbers there are.
- `DistinctNames`, a hypothesis of `NoneIsForgotten`, `LoopImplementsWalk` and
  `StdoutIsUsable`: names of one attribute set stay distinct in what `dumpLossy` makes of
  them. Without it one path is queued twice, and has two lines. That names change on the
  way is what `lossy_name` shows.
- `EdgesOnStdoutAreExact` supposes that the store answers about every path (not that it
  can be opened). A path it cannot tell about is a leaf to the code, and the edges behind
  it are missing; `FailedQueriesCostNoOtherEdge` says that no others are.
- `OnlyTheGuiltyAreBlamed` supposes that no more workers are lost to something ambient
  than an attribute is retried, and `CrashesNeverAbort` that fewer are than startup
  failures are allowed. With more, the code does blame and does give up, as it must.

### The coordinator and its workers

`Typed` is `TypeOK` with `Occupied` (a worker that writes has a line, one that
evaluates a path), without which it is not inductive. The depth check keeps child
paths within the bound, the crash-loop check keeps startup failures below theirs.
`AllGone` carries `NoOrphans` through the end of a run. `LinesInService` carries
`NoStrandedLine`: a complete line in a buffer belongs to a slot still to be serviced
in this pass, unless the run is being aborted, which does not come back to `poll`.

`WorkersInStep` compares what the coordinator believes of a worker with where the
worker is, and many steps of either lie between. `OnCourse(w)` says how far along
their conversation a slot is: which of ready, restart, fatal and the answer, or the
fatal message in its place, are in the stream and not handled yet (`Said`), what the
worker is about to do (`Doing`), whether the request is on its way, read or answered
(`Asked`), and what the coordinator has of all that (`Taken`). A worker's stream is what is in its pipe behind what is in its
buffer, so that a read leaves it alone however it cuts the lines. `OnCourse` of one
slot depends on that slot only (`Local`), so each action needs a lemma for the slot it
is about and none for the others.

### What becomes of the attributes

`StepMoves` shows that every step of the system leaves queue, jobs and verdicts alone
(`QueueStays`) or is one of four moves: an attribute is handed out (`HandsOut`),
settled by its answer (`Settles`), put back (`Requeues`) or blamed (`Blames`). That an
answer settles the attribute it is about is where `AllOnCourse` is needed. Everything
else is proved of the moves.

`WalkInv` is `Typed`, `AllOnCourse`, `ActiveCountsJobs`, `Genuine` (what is queued, held
or concluded is an attribute of the flake, and a verdict is the truth or a death),
`Placed` (everything found is in exactly one place, and nothing is in two) and `Ending`
(a run that is over, and neither fatal nor thrown out of, has nothing left). `Placed`
survives `HandleChildren` because children have their parent as a prefix, their parent
is concluded only now, and `DistinctNames`. The refinement follows: a move that
concludes is a step of the walk, any other is a stutter, and `done` is complete
because of `Ending`.

Who is blamed is settled by an account. `Spent` is how many ambient losses there have
been. A worker that has been lost and not noticed is `Uncharged`; every loss
is in at most one place, uncharged or in the attempts of one innocent job. So the
attempts of an innocent job and the uncharged losses together are within `Spent`
(`Accounted`, `Bearable`), and such a job is blamed only when its attempts exceed
`MaxAttempts`. A worker that has said `restart` or `fatal` exits of its own accord, which
is no loss and must not be charged: once its message is handled its slot is not serviced
again, for it has been replaced or the run is fatal (`Condemned`, `MayBeServed`). Startup
failures have the same account (`Stillborn`, `Mourned`): those of one slot, and the loss
it has not noticed, are within `Spent`.

### Edge discovery

All properties rest on one invariant, `EdgeDiscovery!IInv`. None of them is inductive
alone: that edges are complete needs that what a walk has seen and no longer holds on
its stack it has expanded (`WalksExpandAll`), that it sees nothing outside its closure
(`WalksStayInClosure`), and that the edges known are exactly those between registered
outputs of which one has seen the other (`EdgesAreKnown`). The last survives
`addOutput` only because `reachedBy` is the inverse of `visited` (`ReachersAreKnown`)
and each derivation is registered once (`NamesAgree`); and `NeverStuck` needs that
between calls every walk stands (`CallsFinish`). Closures are defined as least closed
sets, so `ReachLeast`, `ReachStep` and `ReachMonotone` replace induction over graphs:
when a walk is done its visited set is closed and contains the root, hence contains
the closure. The refinement adds that what has been reported follows from what is
known between calls (`ReportsAreConsistent`), and that `Return` is the one step the
abstract reporter sees of a call (`StepIsReporting`).

### A whole run

A step of a run is one of `Coordinator` or a stutter of it (`StepOfLoop`), but for a call
whose edges cannot be written (`CallCutOff`), which ends the run; and it is one of
`EdgeDiscovery` or a stutter (`StepOfEdges`). So `EdgeDiscovery!IInv` is an invariant of
the run, `Typed` and `AllGone` are, and `AllOnCourse`, `WalkInv` and `Ending` are as long
as the process runs (`Running`); afterwards nothing changes (`NothingAfterExit`).

What a step says is at most one job, error or done line, or the lines of a call's edges
(`StepSays`). `JobsComeFirst` follows from `Named`: whatever `EdgeDiscovery` has
registered has had its job line. The edges written are those reported, until a call is
cut off (`Recorded`), so none is written twice or false. `EdgesAreExact` needs further
that every job line was registered as long as edges are wanted, the first of each
derivation being the one that is walked (`FirstNames`), and that done is said only
between calls and when no walk is unfinished (`Finishing`). That an attribute has one
line (`Once`) needs that it has a verdict from then on, and that a worker's answer is
about an attribute without one (`JobIsNews`), which is where `WalkInv` comes in.

### The line protocol

`IInv` is `TypeOK`, `StreamIsCut`, `NoLineWaits` and `RefusesOnlyLong`. `StreamIsCut` says
where in the script the reader is: what is buffered, in the pipe and unsent is what is
left of it after some whole lines (`CutAtNewline`), or, when a rest was returned, after
a part of a line (`CutInside`). `BytesConserved` follows by what `FlattenSeq` does to a
longer sequence (`FlattenAppend`), which is proved from its definition by induction.
That only long messages are refused needs that a buffer without a newline
holds nothing but one message (`BufferIsOfOneMessage`): it is a prefix of the rest of
the script, and the first newline of that ends the message (`FirstLine`).

That every step is one of `MessageStream`, or a stutter of it, needs that the counting is
right: what the pipe was given is a whole number of messages and a part of the next
(`SentWholeIsCounted`), and what was returned is never more (`NoMoreIsSent`). As long as the
reader is in use, each line it has returned is a message of the script that has been sent
(`ReturnedAreMessages`), so a step of `TakeLine` receives one (`TakeLineIsReceive`); a
buffer the reader gives up is a proper part of one message (`BufferedMessage`), so it is
torn off and never passes for a message (`ReturnRestIsTear`).

### The pool

`IInv` is `WaitIsRight`, `PoolIsBacked` and `StartsAreCounted` (what a worker's first
derivation was measured to cost has been counted). The waits are an argument about
rounding (`RoundedWaitIsRight`): up to the next millisecond, and never down to none.
`GrowthIsEarned` is about the sum of what workers cost, which is at most their number
times the dearest (`SumBounded`, by induction on the set).

### Descriptors

`IInv` says what each slot and each table holds at each place of the parent's control
(`SlotsAreInStep`), that a worker is in one slot (`SlotsAreOfWorkers`), that a slot's
numbers name its worker's ends in the parent's table (`NumbersAreRight`) and nothing
else there is open (`NumbersAreKept`), that a child which has not set itself up will
hold exactly its own ends once it has closed what it inherited
(`ChildWillHoldItsOwn`), and that who is gone holds nothing. The fork is the hard
step: the child's list of numbers to close was taken before its own pipes were
opened, at numbers which may have been a lost sibling's. Lowest-free allocation is not
needed for any of it, only that a number given out was free.

### Evaluation

`CacheInv` follows the questions: what store and caches were told to hold was observed
at some time (`StoreIsObserved`), and the outputs before the current one have been
looked at (`OutputsAreLookedAt`). `PathInv` follows the path: the value in hand is what
the names so far denote in the flake, or a default, or fails where that fails
(`OnThePath`, `Reads`). `InFlake` is a recursive function over the length of the path;
that there is such a function is proved by induction (`Named`), and then its equations
are what the steps need.

`RestartsWhenDue` compares what the code computes from left to right with what the
file says as a whole. That the code's search ends at the second field
(`SecondFieldIsFound`) is an argument about least positions. Its number is a sum over
the positions of its digits, each times a power of ten, and the code accumulates it in
arithmetic that wraps: `Tracks` says that what has been accumulated, with a place for
each digit still to come, is at most the sum so far, and is that sum as long as it fits
a word. So a worker is never restarted for memory it does not hold, and one that
holds too much is restarted unless the product of pages and their size wraps
(`MebibytesOver`). `MeasuredOnce` carries this through the rest of the request.

### The command line

`AtAFlag` is why taking one argument after the other agrees with a definition that
looks at the whole line: the argument that the loop is at is a flag, not a value, and
all flags before it are well-formed. That it stays so is `ValuesFollowFlags` (a word is
a value exactly if the word before it is a flag that wants one), where the definition
speaks of rows of words of odd length. `Held` says that what has been stored is the last
of each kind so far, `OutcomeInv` why parsing ended: at an offence, which is then the
first, or at the end of the line. `PositiveIsRead` connects the number that is
accumulated with the number whose digits the text has, by quotients by powers of ten.

`LiteralReadsBack` goes through a system without carriage returns from its last
character to its first: behind what has been written of the characters before, Nix reads the rest of the system and
stops at the closing quote. `NixReads` looks one or two characters ahead, so that there
is a function with its equations is proved from the end of the text backwards
(`ReadingExists`).

### Induction

`InductionFacts` states induction about a set of numbers, those of which something
holds, from the well-foundedness of the order on the naturals, so that no theorem with
an operator for a parameter is used. Greatest elements of finite sets, sums
over them in any order, functions defined by recursion and folds over a sequence follow
from it: `NumberRecursion` and `FoldExists` take the step of a recursion as a function,
a table of what each pair of a value and a place comes to.

### Only model-checked

- Everything under fairness: `Termination`, `InterruptAnswered`, `EndsUnlessStuck`,
  `EventuallyExact`, `ShortArrive`, `GrowsInTime`, `ShutdownEnds`. The prover does not
  handle liveness under fairness, nor `ENABLED`.
- What the three runs with a violation are about, which does not hold.

Every other invariant, action property and refinement that a run checks is also a
theorem.

## Not modelled, and why

- Time in `Coordinator` and `Discovery`: there the clock may say anything, which covers
  every timing; `WorkerPool` has the arithmetic.
- JSON text, messages and log lines: a line is a record. What serialisation does to
  names is kept (`Lossy`), since it decides what is asked next. `truncateForLine` and
  `cleanErrorMessage` shape the text of an error, which nothing depends on: 64 KiB of
  it, escaped, stay well below the limit of a line.
- The bytes of a line in `Coordinator`: a body is one token, torn or whole, and an
  oversized line is a token of its own kind; `LineReader` has the bytes.
- Nix: forcing a value, reading a derivation, answering about a path, fetching and
  locking the flake. What this code makes of the answers is modelled, the answers are
  the environment's.
- The rest of `initNixRuntime` (stack size, experimental features, builders, fetcher
  cache): constants of a library, set once before anything runs.
- An exit because stdout failed kills the workers through `PR_SET_PDEATHSIG`; the
  moment between the two is not modelled in `Coordinator`. `Descriptors` has that
  moment for a coordinator that is killed.
- The child's signal mask and handlers (`coordinator.cc:177`): no property tells them
  apart, since a worker is only ever ended by SIGKILL here.
- Wrap-around of durations (`rampInterval` times the pool's size): 64-bit nanoseconds
  last for centuries.
- Tests and packaging.

What some properties leave open, so that nobody takes them for more:

- `EdgesAreExact` is checked and proved for a store that answers, and says nothing once
  `wantEdges` has been cleared because the store did not open. That such a run ends is
  `EndsUnlessStuck`, which does not itself ask for a `done`.
- `EdgesAreComplete` is relative to the answers got: a path that could not be queried is a
  leaf, as the code says.
- `GrowthIsEarned` takes the costs of workers as the code measures them; it would not
  notice a measurement that is wrong.
- `RestartsWhenDue` exempts a product of pages and page size that wraps: then a worker
  that is over its ceiling goes on.
- `ShutdownEnds` is about waiting for children that were not killed. It supposes that
  evaluations end; `AwaitsEvaluation` is what happens when they do not.

## Plan

1. Done: every module above with its runs.
2. Done: proofs about the coordinator and its workers, the fate of the attributes, the
   edges, whole runs with dependencies, lines, the pool, descriptors, evaluation and
   the command line, with the refinements of `AttributeWalk`, `EdgeReporting` and
   `MessageStream`.
3. Open: the properties under fairness, which are only model-checked.
