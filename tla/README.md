# Verification of powdr-verifier in TLA+

These modules model the parts of powdr-verifier whose correctness depends on control: which query is asked, in
which order, against which state that earlier queries left behind, and what happens when one of them fails. TLC
checks the models on small instances; TLAPS proves the main theorems for every value of the constants. All
paths are relative to the directory above this one.

1. [Inventory](#1-inventory) · 2. [Modules and the code they model](#2-modules-and-the-code-they-model) ·
3. [Runs](#3-runs) · 4. [Fairness](#4-fairness) · 5. [Proofs](#5-proofs) · 6. [Findings](#6-findings) ·
7. [Not modelled](#7-not-modelled) · 8. [Plan](#8-plan)

## 1. Inventory

powdr optimizes circuits in passes. The verifier takes two consecutive dumps of a block and asks whether the
optimized circuit is equivalent to the original. The pipeline of one step pair is

    orchestrate.py --(subprocess)--> main.py verify   : encode the pair as SMT verification conditions (VCs)
                   --(subprocess)--> main.py simplify : rewrite each VC, python and rust passes in turn
                   --(subprocess)--> main.py check    : decide each simplified VC
                   --> a tree of Actions with results --> database, report, lens

A VC is a *context* (a conjunction) and a *goal* (a disjunction). "unsat" is the good answer for a completeness
or soundness VC; "sat" is a counterexample, and its model is dumped for the reader.

| Component | State | Operations | What is hard | What makes it correct |
|---|---|---|---|---|
| cone of influence `src/check/coi.py` | inverted indices over the conjuncts | slice of a seed, memory argument, seed of a disjunct | a fixpoint over a cyclic graph, results cached under part of the argument | the slice is the least set closed up to the boundary; the cache key determines it |
| sliced checker `src/check/sliced.py` | three incremental solvers, resident set, verdict cache, learned negations, strategy preferences | batch, push/solve/pop, validate a model, CEGAR, fallbacks, escalate, restart | the solvers outlive a disjunct, and three books (resident, considered, refuted) must describe them; any solver call may answer "unknown" or break its pipe | sound verdicts; the books match; learned facts follow; no disjunct lost; bounded pollution and retries; it ends |
| check dispatch `src/checker.py`, `src/check/rust.py`, `rust/checker` | strategy, running engine, model file | z3 pre-try, rust process, python loop, model dump | engines fail after side effects, timeouts race answers | one sound verdict; the model file belongs to it |
| subprocess supervision `src/utils/process.py` | pipes, read buffer, process tree, deadline | pump, drain, signal, reap | processes fork, orphan, ignore signals; select and readline look at different places | no output lost; the deadline is enforced |
| memory-bus analysis `src/verify/membus_analysis.py` | candidate partners and role flags of every bus interaction | rule out pairs, worklist, exchange across the alignment, recover internal pairs | a set popped in hash order, three-valued facts, two circuits that inform each other | the true matching is never ruled out: the encoder turns what is ruled out into constants, so a wrong one makes the VC vacuously unsat |
| simplifier driver `src/simplifier.py`, `src/simplify/rust.py`, `rust/simplifier` | the current script, as a formula or as a file, and the time budget | group, run, back up, skip, fall back, write | the script changes hands between two processes; a pass may time out half way | the output is the script after exactly the passes reported, each once, and is always written |
| orchestration `orchestrate.py` | pool of work units, per-thread arguments, action tree | run_all with the units of verify or trace | failures of subprocesses, exceptions of pool futures | a block counts as verified only if every VC of it was checked |
| report `src/report` | stack of actions per thread, result database | dump, nest, fold the status | partial reports | the status of an action is not better than what ran below it |
| VC construction `src/verifier.py`, `src/verify` | alignment, pins, choice of the memory encoding, VC list | align two circuits, choose an encoding, encode, Skolem pins | the alignment is completed by guesses; the choice looks at what the analysis found, and has errors of its own | an encoding is chosen that can be built; the VCs imply equivalence |
| bus encoders `src/bus_interactions` | match variables, flags, arrays, inferred ranges | plain, interface and array encoding of memory, relation of two circuits, lookups | match variables are preset by the analysis; facts about keys, clocks and bytes are added | what really happens is admitted; related circuits exchange the same traffic; inferred ranges follow |
| simplification passes `src/simplify`, `rust/simplifier/src/passes` | the script; per-pass tables (ranges, intervals, pins, fresh names) | one pass per tactic, two ports of most of them, in any pipeline | facts read off one assertion justify rewriting another; a later pass sees what an earlier one, of either port, left; new names meet old ones | no model is lost (a refutation is one of the VC), none is added but by the skolem pass; names stay declared; what an analysis knows admits every model |
| membus CLI `src/membus`, `membus.py` | facts of one circuit (bounds, pins, clocks, limbs), cells and claims | propagate, infer bounds, order, recover keys, match cells, force claims, align two circuits, certify | constraints modulo a prime are read as statements about integers; cells over different bases may be one cell; guesses and facts travel in the same reports | extracted facts hold in every model; a forced claim holds whichever cells coincide; what is reported is true |
| SMT layer `src/smt`, `src/smt_backends`, `rust/smt2` | interned terms, a solver pipe | build, print, parse | pipe protocol | printing and parsing are inverse |
| trace encoding, rewriter, lens, plots, utilities | none or presentational | | | |

Interactions: `orchestrate.py` talks to `main.py` by command line, files and a JSON report on stdout. The
checker talks to solvers over pipes, to the rust checker by a file and a JSON report, to one-shot strategies by
subprocess. The analysis asks `membus.py` for
reports, as JSON, on both circuits, and hands its match sets and flags to the encoders in memory (`MemoryEncoding` runs on
what `MembusAnalysis` ends with, which runs on what `MembusReports` is told). `PROJECT.json` lists every component with its
status, and every hazard with its line and the properties that cover it.

## 2. Modules and the code they model

The source of every definition is in `PROJECT.json` under `map`. In the checkers formulas are semantic: a
conjunct is its set of free variables and its set of satisfying assignments. In the modules of the simplification
passes, which look at the shape of formulas, they are syntax trees with an evaluation. Solvers are oracles that may always answer "unknown",
say "unsat" only if what they hold has no model, and "sat" with any model of it.

| Module | Models |
|---|---|
| `Slices` | `ConstraintIndex` as definitions: touching conjuncts, memory argument, cone, closed slice |
| `Coi` | `slice_indices` as the loop it is: one frontier variable per step, in any order of the set |
| `ClassRouter` | `_ClassRouter` as a record with `Route` and `Learn` |
| `ModAbstraction` | the mod abstraction of the "closed" strategy: `_abstract_mods`, `_mod_axioms`, the queries of `_closed_abstract` |
| `SlicedChecker` | `_SlicedChecker`: `run`, `_solve_under`, `_ladder`, CEGAR, fallback strategies, caches |
| `Verdict` | no code: what any checker promises. One answer, given once, "unsat" only without a model, "sat" only with one |
| `CheckDispatch` | `check`, `check_plain`, `check_chunked`, `run_rust_checker` and the rust checker's loop |
| `ProcessTimeout` | `communicate_with_timeout`, with the process tree as an environment (external) |
| `MembusAnalysis` | `run_membus_analysis`: both worklists, the completion of the alignment, the exchange, `internal_pairs_for` |
| `MembusFacts` | `Analysis` of `rules.py`, with `propagate.py` and `linform.py`: what is extracted from the constraints of a circuit, and the columns of a witness, assigned one by one |
| `MembusSolve` | `membus solve` with `smtsolve`, keys and order, and `membus align`; what the memory bus admits of a witness |
| `MembusReports` | the reports on the two circuits of a step, as `_ingest_side` merges them; composes `MembusSolve` with the analysis and the encoding |
| `MemoryEncoding` | the choice of the encoding (preanalysis); the plain, interface and array encodings of a circuit and the relations between two; reconstruction of keys and clocks; range inference |
| `SimplifierDriver` | `simplify` and `simplify_smt_script`: groups, deferred parsing, rust batches, the python fallback, backup and rollback, the output; the rust side of a batch |
| `VerifyPipeline` | `orchestrate.py verify` and `trace`: the pool, the units, their processes, the fold of statuses, exceptions and interrupts |
| `Terms` | the formula language of the passes: builders, meaning, models, substitution, linear forms, ranges, units |
| `NormalForms` | nnf, evaluator, ufnorm: each as the python and as the rust pass does it; `partial_evaluate` |
| `Polynomials` | normalize and diff_vars: polynomials modulo `P` and over the integers |
| `Demod` | demod of both ports: ranges of symbols from top-level facts, mods they make redundant |
| `Gadgets` | bitwise, mod_inv and bounds of both ports |
| `Factoring` | rewrite and factor_reduce (rust); the factorization itself is external |
| `Eliminations` | solve_eqs, solve_store_eqs, rewrite_store_eqs, flatten_outer_array (python) |
| `Probing` | lift of both ports, witness, domain_probe (python) |
| `Skolem` | the skolem pass of both ports with its contributors, and the filter on the pins of the optimizer |
| `Intervals` | intervals and intervals2 (python): domains, propagation, reasoner, what is read off them |
| `Passes` | the pipeline: 22 tactics and the checker's closed query as actions on one script, the port chosen anew for each |

**Sliced checker.** `pc` names the place in `run` and `_solve_under`: `split` (group the disjuncts), `next` (take
the next batch or disjunct), `prefer` (class routing tries a one-shot strategy first), `solve` (push, check),
`fallback` (one-shot strategies after "unknown"), `model` and `resolve` (validate a slice model, add the
conjuncts it violates, solve again), then `refuted`, `validated`, `inconclusive` (pop and do the books),
`close` and `done`. `asserted`, `learned` and `scope` are what the solvers really hold; `resident`,
`job.considered` and `refuted` are what the code believes. The properties compare the two. `SolverDies` is the
broken pipe of `_reported_broken_pipe`, possible whenever a solver is asked.

**Dispatch.** A script is the set of models of its context and the sequence of the models of its disjuncts.
`RustTimesOut` and `RustFails` can strike wherever the rust process is, also after it has written the model file
and before it has reported.

**Supervision.** `pipe` and `buffer` hold complete lines and possibly the beginning of one. One pipe stands for
stdout and stderr, which the code treats alike. `ProcessTree` is the snapshot `psutil` takes: descendants whose
ancestors are all alive. A `tidy` tree writes whole lines only.

**Memory-bus analysis.** A scene is the facts the code ingests (kind, key, time, multiplicity, solved rows)
together with a trace they are true of. The trace is a ghost: no action reads it. `work` is the worklist set,
and `Pop` takes any item of it, as `set.pop` may.

**membus.** A circuit (`Dumps`) is its constraints, range checks and memory interactions; an expression is a sum of
products of linear forms with canonical coefficients. What the program computes of a circuit is a function of it
(`Extracted`, `SolutionsOf`, `Told`), defined in the order in which the rules need each other; the state is a witness of
the circuit, which `Assign` extends by one column at a time: clocks are below `TsMax` and, if that is assumed, `is_valid`
is one, any other column is any element of the field, and a constraint, a range check or a byte received from memory
prunes as soon as its columns are there. So the integers that the facts speak of are compared with the field elements
that the constraints speak of. `smtsolve` asks a solver whether a claim can be denied; `AllReadings` enumerates what the
query allows. When a witness of the earlier circuit is complete, is one of the later circuit too and the bus of both
balances (`IsExecution`), `Report` starts the analysis on the reports of the step. It has a guard, `Truthful`: the
reports are true of the execution, which is a premise of the analysis. `ReportsTrue` says that the guard is not
needed; run `guessed_roles` refutes it, and the step in which it fails is not in `Followed`.

**Memory encoding.** A *world* gives the columns of one circuit; the formulas of the encoder are read as predicates
on worlds, and what a formula quantifies (match variables, flags, arrays) is quantified here. `mode` is `open` while
the analysis runs and then `plain`, `interface` or `error` as `Resolve` decides, or `array`, which needs no analysis.
`Matchings` are the assignments of the match variables that the presets of the analysis leave open. The arrays of the
array encoding are determined by the accesses of each cell, so `ArrayHolds` follows the messages of a cell instead: what
an access leaves is what the next one in the order of the rows finds (`NextIn`).
`TracesExecute` states what the encoders take for granted of an execution: inputs and outputs have times of their own, a
cell is read in first and written out last, memory holds bytes. `AgreesOn` says that both circuits exchange the same
with memory on the trace, in the way the alignment says. `Net` is what a circuit trades on balance: the sends less the
receives of one message. In the plain encoding `RelationIsTraffic` has the premise `BothEnds`, that a match variable which
may be true is listed at both of its ends (see section 6).

**Simplifier driver.** A script is abstracted to the sequence of the passes it went through (`Contents`; `Dirty`
where a pass or a write was cut off half way). `script` is what python holds, `file` what the input, output and
temporary files hold; `deferred` says that the input has not been parsed, so that rust is to read it. `pc` names
the place: `load`, `group` (form the next group), `rust` and `written` (a batch runs in its own process, which
looks at its own clock), `fallback` (the batch failed or cannot run), `pass` and `running` (the python loop,
under an interval timer), `caught` (a pass with a handler for any exception swallowed its interrupt:
`src/simplify/domain_probe.py:599`, `src/simplify/skolem_isolate.py:69`), then `done`, `unparsed` or `failed`.
`report` is what the actions say of each pass; the properties compare it with the output.

**Verify pipeline.** `stage[w]` is what the thread w does next for its unit: `encode`, `simplify`, `check`, or
`dump` when it leaves the `with ActionDumper`. `command` is what `run_all` was called for: `run_verify` skips a VC whose
simplification failed and goes on with the next, `run_trace` raises (`TraceSimplifyFails`). `statuses` is the set of statuses of the actions below the unit,
which is all that `Action.status` looks at. `answers` is a ghost: what the checks of each unit really said. A
process may end in any way at any time; what `check` computes is the subject of the modules above, here it is one
of the answers `classify_expected_vs_result` can give.

**Simplification passes.** `script` is the sequence of declared names and the sequence of assertions; a term is a
tuple of its operator and its arguments. An action is a tactic: it applies the pass, in python or in rust, to the
script at hand (`Turn` names the tactic and the port). Both ports may take turns in one pipeline, because a rust
batch that fails is run again in python. A model is a value for each declared name out of `Values`; `Sat`
evaluates the assertions, quantifiers range over the values of the bound name. What the term libraries do on
construction (a doubled negation, a connective with one argument, folded constants) is in the builders of
`Terms`, since the passes match on it. Answers from outside are nondeterministic or external: any one question of
domain_probe may stay unanswered, the factorization of FLINT is replaced by division by linear forms, and the
equations of the optimizer (`--skolem-pins`) are part of a job. What the passes do in a fixpoint is a recursive
operator with the bound the code has. `ClosedStrategy` is what the checker does after them: a query in which mods are
applications of `umod!abs`, with the axioms of any subset of them (of all when there are at most `EagerApps`), since the
models that choose the subset are the solver's. Only scripts without quantifiers get there. The function is interpreted
as the real mod in `ModelsKept`: a model of the script is then one of the query, so a refuted query refutes the script.

`MC*` modules give the constants values; `*Proofs` modules hold the theorems.

## 3. Runs

Every system here terminates, so all configurations say `CHECK_DEADLOCK FALSE`; that the final states are the
intended ones is checked by the liveness properties. Each property of a passing run has a mutant in
`PROJECT.json`: a plausible bug in a mapped definition under which TLC refutes the property. The mutated bodies
stand next to the definitions they mutate.

| Run | Instance | Shows |
|---|---|---|
| `coi` | six conjuncts over six variables with a chain, a cycle, a boundary variable that bridges two parts; all 64 seeds | `ReturnsTheCone`, `Terminates` |
| `sliced` | six conjuncts, six variables (two arithmetic, two boundary, a witness, an array), four goals of two to four disjuncts, with a duplicate and a trivial one; thresholds of 1 and two CEGAR rounds, so that every limit is crossed; unknowns collected, collected up to a cap of 0, or not | `VerdictSound`, `BookkeepingMatchesSolvers`, `LearnedFollow`, `ResidentBounded`, `EveryDisjunctAccounted`, `TollBounded`, `ImplementsVerdict`, `Terminates` |
| `dispatch` | five scripts over two assignments, every strategy, option and installation | `ModelMatchesVerdict`, `ModelIsGenuine`, `ImplementsVerdict`, `Answers` |
| `process` | a root, a child and a grandchild, a pipe that holds two lines, any number of lines written | `NothingLost`, `TidyReturns` |
| `process_deadline` | the same | violation of `DeadlineEnforced` |
| `membus` | seven circuits of two or three accesses over a field of 29 elements (`MCMembusReports`): comparisons as constraint and as range check, one too wide for the field, symbolic pointers that may coincide, limbs with a carry, an access that is a load or a store, an interior pair that the later circuit lacks; every witness of them; the analysis of what is then reported. Besides, given scenes: blocks of four interactions per circuit with two accesses of one cell, two cells, a disabled access, an interior pair the optimizer dropped; partial facts and solved rows; analysis exchange on and off; no alignment with a right guess, a wrong one or none; symbolic bases; the checks of the interface encoding on and off; worlds that differ from the trace in up to two rows. 75,102 states | `FactsHold`, `ClaimsForced`, `TraceFits`, `RulesSettled`, `InternalPairsRecovered`, `OnePassSuffices`, `OnlyNarrows`, `Chosen`, `TraceAdmitted`, `RelationIsTraffic` |
| `range_inference` | a receive bounded by the time of a send, whose data is not a byte | violation of `RangesFollow` |
| `guessed_roles` | the circuits of `membus`, two bases that coincide | violation of `ReportsTrue` |
| `simplifier` | all pipelines of up to three passes over python and rust executors and two longer mixes, with and without the rust simplifier, passes that catch interrupts | `OutputMatchesReport`, `NoPassAfterDeadline`, `UnparsedOnlyWithoutWork`, `Terminates` |
| `pipeline` | the commands verify and trace on three pairs of two blocks, with two, one and no VCs, on one or two jobs | `SuccessMeansVerified`, `WrongNeverHidden`, `OwnArguments`, `EveryUnitReported`, `Terminates` |
| `passes` | about 140 scripts over a field of five elements: 23 written by hand after the shapes the encoders produce, and 6 sets of bounds times 19 formulas; pipelines of one to three arbitrary tactics and the default prefix and normalization pipelines, some followed by the closed query; both ports at every step | `ModelsKept`, `NoModelAdded`, `Declared`, `KnownBoundsHold`, `Grounded` |
| `fresh_inverses` | two inverses of two columns, in two assertions | violation of `InversesAreFresh` |

Type correctness (`TypeOK`) is a theorem in six of the modules and is not repeated by the runs.

Why the bounds are enough. `sliced`: the books of the checker relate one disjunct to the next, so four
disjuncts reach every pair of outcomes, with a restart of the growing solver and an escalation between them; the
proofs of section 5 remove the bound for the safety properties. `coi`: the only choice is the order of
expansion, and the index has the shapes on which orders differ. `dispatch`: the engines are tried at most once
each, and two assignments distinguish a right model from a wrong one. `process`: three processes are the
smallest tree with an orphan, three lines the smallest output with one line in the buffer, one in the pipe and
one incomplete. `membus`: a pass of the worklist moves facts between a pair and its candidates, and four
interactions are the smallest block with an input, an output and an interior pair. Of the circuits, each is there for a
rule that the others do not reach, and the field is small enough to try all witnesses and large enough for the windows of
the rules: `P = 29` leaves room for comparisons of clocks below `TsMax = 6` (2^29) and for bytes below 2, and
does not for the comparison of the circuit `loose`, nor for the other root of a carry. `ClusterCap = 8` (128) is above the six
interactions of a cluster of two cells. Bases take the values 0 to 2, so that they coincide or do not. `simplifier`: three passes
have every mix of two adjacent groups, and the longer mixes a group of several passes between two others.
The worlds of `membus` change two
rows of the trace because the formulas relate interactions in pairs; data is a byte or not (`Bytes = {0, 1}`, values
0 to 2). `passes`: the passes branch on the shape of terms, on signs and on the ends of ranges, not on the size of the
field: with `P = 5` there are residues that are inverse to each other, non-residues and roots, and integer names
that range over `-1..5` take values on either side of the field, so that a mod dropped without reason is seen.
There is one place where the code drops one by design: demod solves a congruence in one symbol for the symbol itself, as
if it were in the field (section 6). `ModelsKept` and `NoModelAdded` ask this of the symbols it was done for: a history
variable, `taken`, collects them (a difference made by `diff_vars` as the two columns it is measured between), and
`ResiduesInField` is the premise that a model gives each of them a residue. Names over `0..4`, columns and quantified
variables, always satisfy it. The formulas `2x = 0` and `y + 1 # 0` modulo 5 of the family, and the job `Differences`,
which ends in `demod`, meet a symbol outside the field: without the premise TLC finds the model that is lost (x = 5;
a difference of -2 solved to 3) and the one that is added (y = -1, under the negation), on either port. The scripts of the
skolem pass have models: executions after that have none before; in `StillConstrained` a comparison that the pass would
set to its canonical values is still constrained to others.
Larger constants of the code have smaller ones here, so that they are reached: `ByteMax = 3` (255), two `Limbs`
(four), `OrSmallCap = 3` (`DEMOD_OR_SMALL`), `EagerApps = 1` (4000), so that scripts have
more applications than that, or fewer. Pairs and triples of tactics are what one pass can break for the
next. `pipeline`: a unit with two VCs can lose one of them, two threads and three units make a thread change its block
while the other runs.

Bounds in the models: `Capacity` (ProcessTimeout) is the size of the pipe, which blocks a writer when it is full; how much
the tree writes is not bounded. `MaxJobs` and `N` (VerifyPipeline) are the
pool and the work of one call. Everything else is finite because
the code is: strategies are tried once per disjunct, CEGAR rounds are capped by `CegarIters`, and the rounds of
the reasoner, of the fixpoints and of the substitutions of a pass by the constants of the code. `Values` bounds
the models of `Passes`.

## 4. Fairness

`Coi`, `SlicedChecker`, `CheckDispatch` and `MembusAnalysis` are sequential loops: the fairness is `WF_vars(Next)`,
which says that the loop goes on; `MemoryEncoding` adds the choice of an encoding to that loop (`WF_encVars(EncNext)`), and
`MembusReports` assumes the same (`WF_reportVars(Continue)`) and nothing of the assignment of columns, which is no part
of the program. It includes that every solver call comes back, which the code ensures with a
timeout on each query and on each subprocess.

`ProcessTimeout` has an environment. Assumed are `WF(Parent)` (the parent is scheduled), `WF(Deadline)` (time
passes) and, for each process, `WF(killed /\ Exit)` (nothing survives SIGKILL for ever). Nothing is assumed of
what a process does otherwise: it may run, write and fork or hang for ever. `TidyReturns` has two premises. `tidy`: the
tree writes whole lines only; without it the property fails, which is the finding of `process_deadline`.
`SurvivorsFallSilent`: from some moment on nobody writes while the parent drains. `_drain_pipes` has no deadline, so an
orphan that got no signal and writes line after line keeps the parent there, as TLC finds without the premise. The premise is one on the processes, not fairness of the code, and
nothing is assumed of how much they write before.

`SimplifierDriver`: the driver goes on (`WF(Driver)`) and time passes (`WF(Deadline)`, `WF(OwnDeadline)`). Python
passes may hang: only the timer ends them. Nothing interrupts a pass of the rust process, so it is assumed to end
(`WF(RustRuns \/ RustOverruns)`), and so is a python pass that swallowed its interrupt
(`WF(pc = "caught" /\ PassEnds)`): `domain_probe` returns at once, and the loop of `skolem_isolate` is finite.

`VerifyPipeline`: the main thread submits and waits, each thread of the pool runs, and every process comes back,
since `communicate_with_timeout` bounds each. The last is what `process_deadline` shows to fail for a process
that hangs in the middle of a line, and what the premise of `TidyReturns` excludes: a survivor that writes for ever.
Exceptions and interrupts are not assumed to happen.

`Passes` states no fairness and no liveness: a pipeline has an end, and each pass is one step.

## 5. Proofs

`tlapm` checks every leaf. The proofs hold for every finite context, index, goal, solver answer and order.

**`CoiProofs`.** `WorklistInv` (with the types) is inductive: what is picked belongs to the cone, and a seen
variable off the boundary is in a frontier or has all its conjuncts picked. When both frontiers are empty the
picked set is closed, hence `SliceIsTheCone`. `CacheKeyIsComplete` follows because `ClosedUnder` reads the seed
only off the boundary.

**`SlicedCheckerProofs`.** `VerdictSound` is not inductive: "unsat" rests on counters. `SoundInv` adds why they
count: `JobInv` (the disjunct at hand is a member of the batch), `ScopeInv` (only the solver of the current rung
has an open scope, holding context and the disjunct), `BatchInv` and `ConsideredInv` (what the code takes for
asserted is held), `ResidentIsAsserted`, `LearnedFollow` (cached refutations and learned negations are
consequences of the context), `AnswerInv` (what "refuted" and "validated" mean when they are reached) and
`CountInv` (`nRefuted` counts no more than the refuted disjuncts among those processed, so when it reaches the
length all are refuted). Every action has a step, and under it one per conjunct it can disturb. From the
invariant: `TypeCorrect`, `SlicedSound`, `LearnedFactsFollow`, `BooksMatch` and the refinement
`SlicedImplementsVerdict`. The counters have an invariant of their own, `BudgetInv`, which needs the first one: a disjunct
that is worked on is still a member of its batch, so every step that counts one takes exactly one away, and a conjunct
becomes resident only in a step that looks at the threshold before. It gives `NoDisjunctLost`, `PollutionBounded` and
`RouterTollBounded`. `NoStepInVain` is the safety half of `Terminates`: what is left to do is finite, and every step enters
a later rung, round, phase or stage or leaves fewer disjuncts, whatever the solvers answer.

**`CheckDispatchProofs`.** `Inv` strengthens `LoopFollows`, `ModelIsGenuine` and `ModelMatchesVerdict`
with what is found and not yet reported. From it `ModelFileCorrect`, `FileHoldsAModel`, `NegationsFollow` and the
refinement `DispatchImplementsVerdict`. `EnginesOnce` is the safety half of `Answers`: every step goes on to a later engine
or to the next disjunct, whichever engines fail.

**`ProcessTimeoutProofs`.** `OutputConserved` is inductive with the types. `OutputComplete` adds that a drain
which begins without survivors ends only with pipe and buffer empty.

**`MemoryEncodingProofs`, the analysis.** `scene \in Scenes /\ TypeOK /\ TraceFits` is inductive, one lemma per step
(`Ingested`, the cases of `Pop`, both exchanges). It rests on `SceneAssumption` (the facts are true of the trace, which is a
perfect matching with at most one input and one output per cell) and on `KeysNameOneCell`: interactions with the
same key access the same address space. The theorems carry that hypothesis because the code needs it and does
not ensure it, see section 6, and `PositionsCorrespond`: where the alignment was completed by position, aligned
interactions are the same operation (`ScenesAllow` is both). `AnalysisOnlyNarrows` is the action property.

`WorklistSettles` adds `RulesInv`: a rule of an interaction holds, or an item that looks at it again is still to be popped
(`Open`: it is on the worklist, its circuit comes next, or the exchange moved something, so that both run again). The rule
of a settled pair counts as open as long as one of the two is. What others narrow cannot break a rule without putting its
item back. `RemovedPairsRecovered` needs that the candidates of a leg never exceed the ones it began with
(`WithinFirst`) and `RemovedInPairs`, the shape that `_collect_internal_pairs` verifies before it and without which the
program raises; TLC evaluates `RemovedInPairs` for the scenes of `MCMemoryEncoding`.

`OnePassOfExchange` is `OnePassSuffices`. After the flags went across, kept counterparts have the same ones (`FlagsGoAcross`).
While the candidates go across, `PassInv` says that a counterpart that was looked at has one candidate if its origin has: the
rule that spares a candidate with no other one spares only the true partner (`CandidatesGoAcross`). What two resolved sides
have in common stays, because all of it is right and nothing is given up (`TransferredStays`). The theorem says "resolved",
not "by constant multiplicities" as the comment in the code does, see section 6.

`NoStepInVain` has no hypotheses: each
step enters a later stage, narrows, or leaves less work or less to exchange. With `AnalysisOnlyNarrows` this is the variant
for which the analysis ends; that it does end (`Chosen`) also needs fairness and stays with TLC.

**`MemoryEncodingProofs`, the encoding.** `TraceIsAdmitted` extends the invariant of the analysis to the encoding. `TraceFits` makes
the matching of the trace one of the assignments left open, and the presets of flags right; each conjunct of `PlainHolds`
then follows from the facts (`Truthful`) or from `TracesExecute`; the relation follows from `AgreesOn`. In the interface
mode the internal pairs are those of the trace because the match sets of their legs are singletons. The theorem covers
`plain` and `interface`.

`ReplayIsAdmitted` is the array part. The array encoding replays the rows instead of comparing times, so it takes more for
granted: `TracesReplay` says that of two accesses of one cell the earlier row has the earlier time, or sends the message
that the later one receives, and that both circuits exchange the same with the rest. TLC evaluates this premise on the
scenes of `MCMemoryEncoding`. From it the first access of a cell is the input and the last the output (`BoundaryRows`), what
an access leaves is what the next one finds (`MessagesPassOn`, hence `TraceReplays`), and the ends of a cell agree across
the circuits (`SummariesAgree`, `EndsAreUnique`).

`RelatedCircuitsTradeAlike` is `RelationIsTraffic` for all three encodings and circuits of any size. It says that two
circuits trade equal numbers of each message, which calls for an induction over the rows; there is a counting argument
instead. Rows that pair off with opposite multiplicities and one message cancel (`Cancels`: the pairing is a bijection
between the sends and the receives of a message), so the net traffic of a circuit is that of the rest (`NetOfRest`), and
rests that pair off row by row trade alike (`PairsOff`, `SameNet`). The plain encoding gives the pairs by its match
variables (`MatchedCancel`), the interface encoding by the internal pairs. In the array encoding the pairs are an access and
the next one of its cell, which leaves the first and the last of the cell (`NetOfCell`). That there is a first, a last and a
next one is the least-number principle (`LeastNumber`), which the library derives from well-foundedness for a set, and so
needs no operator as a parameter. `WrongAlignmentIsHarmless` is the part for which no hypothesis is needed: plain and array,
whatever the alignment. The interface encoding needs that the removed rows are the pairs of the trace.

**`MembusFactsProofs`.** `FactsAreTrue` is `FactsHold` for every prime, all dumps and all assignments of their columns.
`FactsInv` says of an assignment under way that the columns with values are the first ones and that what reads only them
is respected; `OneMore` keeps it, so that a full assignment satisfies the circuit (`AllRespected`). The rest, `HoldsTrue`,
follows the extraction. Its definitions are recursive functions; `RunsExist` and `VisitsExist` derive, by the least-number
principle and for sets, that such a function exists and obeys its equation, so that "kept at every step" becomes "kept at
the end" without an induction over an operator. On top of that:

- forms and expressions keep their value modulo P when they are normalised (`LinFormValue`), multiplied out
  (`LinearValue`), have pins or aliases written in (`SubstValue`, `AliasedValue`, `FoldIs`) or are varied in one column
  (`EvalAlong`, by which `is_load` is read off two values of its constraint);
- `StaticBoundsTrue`, `PinsTrue`, `KindTrue`, `EvaluatedTrue`, `AliasesTrue`, `RowsOfTrue`, `BoundsTrue`, each from those
  before it, in the order in which the code finds them;
- the rules that read a congruence as an equation: `ExactZero`, `GapsTrue`, `ConstraintUppersTrue`, `CheckUppersTrue`,
  `AffineTrue`. Each has bounds that keep the two sides less than P apart (`RangeHolds`, `SameClose`); a multiple of a
  comparison is scaled back by an inverse, and an address limb is what the one root or, up to the modulus, the other one
  gives (`DividedValue`, `RootsModulus`).

What it rests on, `AllGranted`, is stated at the end of `MembusFacts` and evaluated by TLC for the circuits of the run:
P is a prime (`PrimeField`); the dumps are well-formed (`IsCircuit`); the clocks and witnesses are columns that TS_BOUND
speaks of (`ClocksAreTimes`, `src/membus/facts.py:38`); the selector is the column that ACTIVE_SELECTOR takes to be one
(`SelectorIsValid`); the constraint that gives `is_load` has it in at most one factor of each product (`LoadIsLinear`,
which `src/membus/propagate.py:277` says in a comment); and the constraints that decide an access read only its flags and
pinned columns (`FlagsDecide`). The first four are premises that the code declares. The last two it does not check, and
the last one is needed: see section 6.

**`SimplifierDriverProofs`.** The script at hand went through exactly the passes that are settled as run, in
memory or in the file that is current; while a pass or a batch is under way the backup, or the file the batch
reads, still has that content. From it `OutputIsReported`, `NoWorkIsLost` and `NoTempLeft`, for every pipeline.
`NothingAfterDeadline` needs `TimeInv`: groups are as long as they can be (`GroupsInv`), a python group that is in time has
run all its passes so far (`PassesInv`), and so has a rust process that is in time, while one that is late skips the rest
(`ResultsInv`). `NoPassInVain` is the safety half of `Terminates`: every step settles a pass, or brings the driver further
with the next one, or is one of the two deadlines; a group falls back once.

**`VerifyPipelineProofs`.** As long as no action of a unit failed, the VCs before the current one are checked
(`StatusOf`); a failure stays in the statuses, and `FoldFacts` says that no other status outranks all failures.
`UnitInv` makes a unit the business of one thread, so what another thread reports does not disturb it. From the
invariant: `VerifiedMeansChecked`, `WrongIsReported`, `ThreadsKeepTheirArguments`, `EveryUnitLeavesAReport`, for any
number of pairs, VCs and jobs. `NoStepInVain` is the safety half of `Terminates`: every step brings one unit or the main
thread closer to its end and none of the others back. `PipelineTypeCorrect` is proved only: the run does not repeat it.

Checked by TLC only: all liveness (`Terminates`, `Answers`, `Chosen`, `TidyReturns`; outside the prover's reach, as is
`ENABLED`); `ClaimsForced`, which is about enumerations of matchings; and all properties of `Passes`: terms are trees, and
an induction over them is out of the prover's reach. `Terms` and the modules above it declare RECURSIVE operators; no module
with a theorem reaches one of them. The others have none: fixpoints are state machines there, are defined as least sets, or
are recursive functions. `NoTempLeft`, `OutputConserved`, `NegationsFollow`, the variants (`NoStepInVain`, `EnginesOnce`,
`NoPassInVain`), the worklist invariant of the slices and the lemmas about single facts (`HoldsTrue` and those before it)
are proved only.

## 6. Findings

- `process_deadline`: `readline` blocks on an incomplete line, beyond the deadline (`src/utils/process.py:77`).
- `guessed_roles`: `membus align` passes on the role that `solve` guessed for an interaction whose claims are not forced
  (`src/membus/align.py:263`). Where two bases coincide, a receive of what the circuit itself sent is reported as an
  input; `_apply_local_role` makes a flag of it, and the true partner is ruled out.
- `range_inference`: a receive whose bound is the time of a send is taken for unmatchable with it, as if the bound were
  strict, and its data is asserted to be a byte (`src/bus_interactions/openvm_memory.py:743`).
- `fresh_inverses`: mod_inv numbers its fresh variables anew in every assertion, so the inverses of two terms in
  two assertions become one variable, and a script with a model becomes one without. The rust port does the same
  (`src/simplify/mod_inv.py:289`).

Not findings, but worth knowing. The models do what the code does in each case, or leave the case out where it
says so.

- Processes: `_drain_pipes` loops as long as a line comes within a tenth of a second (`src/utils/process.py:94-98`) and
  looks at no deadline. An orphan that was not in the snapshot of the process tree, survives the root and goes on writing
  whole lines keeps `communicate_with_timeout` from returning; `TidyReturns` names this as its premise.
- Driver: a pass that swallows its interrupt goes on without a timer and is reported as run.
- Orchestration: an interrupted unit can leave a report that folds to "success" although some of its VCs were not
  checked; `SuccessMeansVerified` excepts such units and no others. `run_trace` iterates over `None` after a
  simplification that failed (`orchestrate.py:391`), although the comment above it asks for a skip after a failed
  trace: the unit raises, its report is an error (`TraceSimplifyFails`), and what follows in it is not checked.
- Sliced checker: with `--collect-unknowns 0` an undecided disjunct is neither recorded nor counted, and `run` ends in
  its own assertion instead of "unknown" (`src/check/sliced.py:1190` and `:1202`); modelled as the error it is.
- Dispatch: under the plain strategy, a "sat" whose model cannot be parsed is reported as a timeout
  (`src/checker.py:615`).
- Memory bus: match sets can end asymmetric, depending on the hash order of the worklist
  (`src/verify/membus_analysis.py:632`). `TraceFits` holds all the same: what is lost is precision.
  The comment at `:800` ("keeps matches symmetric") and the one at `src/bus_interactions/permutation_check.py:778` (what is
  outside of a match set is preset false) assume symmetry; `RelationIsTraffic` has it as the premise `BothEnds`.
- Memory bus: "Only the genuine kept map (never the heuristic fill) is trusted here" (`membus_analysis.py:1075`), but with
  `--interface-ignore-checks` the filled map has replaced the kept one by then; `PositionsCorrespond` makes that a premise.
- Memory bus: "`before` is fully resolved by its constant multiplicities" (`membus_analysis.py:804`) is the reason given for a
  single pass of the exchange. A constant multiplicity leaves open whether a receive is an input or matched. If only the
  after side has keys, a forced input of the before side pins a second receive there, which the before side is not told any
  more, and a second pass would move it (TLC finds this where facts differ between the sides). `OnePassSuffices` therefore
  asks that the before side is resolved. As the comment says, what is missed costs precision only.
- Memory bus: `_same_key` compares pointers and not address spaces (`membus_analysis.py:297`, unlike `_keys_cannot_match`
  below it), so an input in one space denies the input role to the same pointer of another; TLC rules the true role out
  then. The premise `KeysNameOneCell` excludes such scenes.
- Key reconstruction: `src/bus_interactions/openvm_memory.py:322` relates pointers of one base by the difference of their
  offsets and calls it a true identity. `recover_key_fact` makes offsets canonical modulo what a carry leaves open, and
  `parse_membus_key` drops that modulus: with a negative immediate the identity can fail by it.
- membus: `surviving_envs` and `_surviving_flag_bits` evaluate the deciding constraints of an access without asking
  that their columns are known (`_deciding_covered`), which the rules for is_load do. `FactsAreTrue` has this as its
  premise `FlagsDecide`, and without it `FactsHold` fails: with the load flag pinned to one and `is_load = f + z`, f
  boolean and z free, f = 1 is decided and a pointer over f becomes a constant, although f = 0, z = 1 satisfies the
  circuit. `recover_key_fact` names a base by the label of its low byte and does not look at the other terms of the
  pointer. The threshold of a receive ignores a constant in its timestamp slot. The circuits have one setting of
  `assume_is_valid`, while the analysis asks for a solution of the earlier circuit with the default, whatever it
  assumes of the later one. `smtsolve` over-approximates the executions of circuits whose interactions come as
  accesses; for others nothing is claimed.
- Encoding choice: `auto` with `--interface-ignore-checks` can pick the interface encoding, which then raises on an
  internal pair with a symbolic multiplicity, although `_interface_mults_const` promises a fallback
  (`src/verify/preanalysis.py:148`); modelled as the mode `error`.
- skolem: the python `contribute_free` gives canonical values to free copies of auxiliary columns without the
  guard `constrained` of the rust port (`src/simplify/skolem_rules.py:572`). `ModelsKept` lets the pass choose the
  auxiliary columns that no assertion outside of a quantifier mentions (`Chosen`) and no others. The job
  `StillConstrained` has one that is mentioned: the rust port keeps its models because of the guard (TLC finds one lost
  without it), the python port loses them, so the job runs on rust only. The rust `witness.rs` takes the factor that is
  not the marker, whatever it is. The docstring of `skolem.py` says that a derived witness is preferred to the fallback
  of the same name; the contributors run in the other order, names first, and the first pin stays. The model does what
  the code does.
- rewrite_store_eqs takes two store chains apart into their values and the equality of their bases, also at the
  indices that were written (`src/simplify/rewrite_store_eqs.py:165`); it loses models where the bases differ
  there. It is in no default pipeline; the jobs have bases that agree.
- flatten_outer_array: a negated equality covers the observed indices only (`src/simplify/flatten_outer_array.py`).
- lift of the rust port substitutes by name in every assertion (`rust/simplifier/src/passes/lift.rs:435`): right as
  long as no two quantifiers bind one name, which `Declared` asks of the result.
- demod turns `mod(a*x + b, p) = 0` into `x = r` with the residue r, wherever the equation stands, and does not ask
  whether x is in the field (`src/simplify/demod.py:147-166`, `rust/simplifier/src/passes/demod.rs:491-521`). For an x
  outside of it models are lost, and below a negation some are added. `rewrite.rs:215-223` tells of the same step
  in its own roots, for the differences of `diff_vars`, as the cause of a spurious "sat", and wraps the variable in a mod
  instead. It is right for columns, which stand for elements of the field (the pass `bounds` asserts it of each, where it
  runs); `ResiduesInField` makes that a premise. The differences are the symbols that need not meet it; `diff_vars` is
  in no default pipeline.
- demod of the rust port can lose the witness of a range that stands inside a top-level `and`; folding in the rust
  evaluator reduces constants modulo the field in integer relations too (`fold.rs`, `int_atom`); normalize turns
  `mod(e, P) = k` with `k` outside of `0..P-1` into `mod(e - k, P) = 0`. The encoders produce none of these.
- intervals: an equality that a nested conjunction forces can be dropped below an `or` or a `not`
  (`src/simplify/intervals/reasoner.py:931`); intervals2 needs at least two assertions
  (`src/simplify/intervals2/script.py:140`) and carries its context into quantifiers without regard to shadowing.
- bitwise: the lemmas for xor hold for arguments in the field, which the encoders ensure.

## 7. Not modelled

Within the modelled components: SMT parsing, logging, statistics and report formats; how the
models of a query choose the axioms of the closed strategy (any subset); the memory limit of subprocesses. Of membus: the certificates and their checker,
abstract timestamps (the report extract, which the scenes of `MembusAnalysis` have and the derived ones do not), memory
statistics, rendering. In the simplifier driver: an output path equal to the
input path, unknown executors, declarations, `--dump-steps`, pretty printing and profiling. In the orchestration:
the commands other than `verify` and `trace`, statistics directories, the job report, and a second interrupt while the pool
is waited for.

Of the simplification passes: `z3` and `cvc5`, which hand the whole system to an external tool; the python
`rewrite` pass, which calls sympy; `domain_probe` of the rust simplifier, which repeats the python pass with
another solver; `model`, which rebuilds models and changes no formula; the wall-clock and component-size limits
of `domain_probe`, which only make it do less; and `skolem_rules.contribute`, which nothing calls. The
factorization of a polynomial itself is external (`factor_reduce` is given the factors).

Of the memory encoders: the busat encoding and its relation (whose two results are unpacked in the other order by
`encode_all`), `--use-memory-order` hints, the incremental presolve, the bound on timestamps and their wrap-around, register
x0, splitting of pointers into limbs, the eligibility test of the presolve for interfaces, differences of key labels as
strings. Values other than "byte or not" are not told apart. The distinct times of inputs and outputs, which the encoder
states as an axiom, are a premise. The other buses (execution, lookups, range checkers) are one formula per interaction.

Other components: parsing, printing, plots and the lens are data conversion or presentation. The rest is planned.

## 8. Plan

Done, in this order: `Slices`, `Coi`, `ClassRouter`, `Verdict`, `SlicedChecker`, `CheckDispatch`,
`ProcessTimeout`, `MembusAnalysis`, `SimplifierDriver`, `VerifyPipeline`, and their proofs; then the passes:
`Terms`, `NormalForms`, `Polynomials`, `Demod`, `Gadgets`, `Factoring`, `Eliminations`, `Probing`, `Skolem`,
`Intervals`, `Passes`; then `MemoryEncoding` with its proofs, the trace command and `ModAbstraction`; then `MembusFacts`, `MembusSolve` and
`MembusReports`, and the proof that the facts are true.

Next:

1. The premise `Truthful` in the theorems about the analysis, replaced by what `MembusReports` derives, once only forced
   roles are reported; `FactsAreTrue` is the first half, `ClaimsForced` the second.
2. The other commands of the orchestration, which share the pool and the processes with `verify`.
