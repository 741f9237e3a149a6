---------------------------- MODULE SlicedChecker ---------------------------
(***************************************************************************)
(* The sliced check: refute every disjunct of the goal against a slice of  *)
(* the context, escalating to larger slices only when a smaller one does   *)
(* not decide.  The script asked about is                                  *)
(*      (conjunction of Ctx) /\ (disjunction of disjuncts).                *)
(*                                                                         *)
(* A formula is the set of assignments that satisfy it.  A solver is an    *)
(* oracle: it may always answer "unknown", answers "unsat" only if what it *)
(* holds has no model, and "sat" with any model of what it holds.          *)
(***************************************************************************)
EXTENDS Slices, ClassRouter, Sequences

CONSTANTS
  Asg,          \* assignments of the variables, functions on Vars
  Sem,          \* Sem[f]: the assignments that satisfy a conjunct or formula
  Scalars,      \* variables whose model value can be read back (not arrays)
  Trivial,      \* formulas that simplify syntactically to false
  Class,        \* Class[f]: structure class of a formula, or NoClass
  Goals,        \* the disjunct sequences a script may ask about
  NoWitness,    \* stands for the witness of an answer that has none
  GcFactor, SmallSlice, CegarIters, CegarBatch,  \* SliceBudgets
  HasTactic,    \* a retry tactic is configured
  Routing,      \* class routing is on
  Collects      \* settings of --collect-unknowns: whether it is given, and
                \* how many unknowns to record (negative: all of them)

ASSUME SlicedAssumption ==
  /\ Sem \in [Ctx \cup Formulas -> SUBSET Asg]
  /\ Trivial \subseteq Formulas
  /\ \A f \in Trivial : Sem[f] = {}
  /\ Goals \subseteq Seq(Formulas)
  /\ Class \in [Formulas -> Classes \cup {NoClass}]
  /\ {GcFactor, SmallSlice, CegarIters, CegarBatch} \subseteq Nat \ {0}
  /\ {HasTactic, Routing} \subseteq BOOLEAN
  /\ Collects \subseteq [given : BOOLEAN, cap : Int]
  /\ NoWitness \notin Asg

VARIABLES
  disjuncts,  \* the goal
  collect,    \* the setting of --collect-unknowns
  pc,         \* where the run loop stands
  todo,       \* indices of disjuncts in batches not started yet
  members,    \* indices left in the current batch
  rung,       \* the current batch: its primary rung ...
  slice,      \* ... its slice ...
  primary,    \* ... and what its solver held when the batch began
  resident,   \* conjuncts recorded as resident in the growing solver
  asserted,   \* conjuncts each solver holds at its base level
  learned,    \* formulas whose negation each solver holds at its base level
  scope,      \* what each solver holds in its open push scope
  refuted,    \* the verdict cache
  nRefuted,   \* disjuncts counted as refuted
  recorded,   \* unknown disjuncts recorded
  prefer, sticky, router,  \* strategy preferences
  job,        \* the disjunct being solved
  result, witness

request == <<disjuncts, collect>>
batching == <<request, todo, members, rung, slice, primary>>
solvers == <<resident, asserted, learned, scope>>
prefs == <<prefer, sticky, router>>
tally == <<refuted, nRefuted, recorded>>
answer == <<result, witness>>
vars == <<batching, pc, solvers, tally, prefs, job, answer>>

Solvers == {"grow", "mem", "full"}
Rungs == {"arith", "mem", "escalated", "full"}

Jobs == [k : Nat, rung : Rungs, considered : SUBSET Ctx, tried : SUBSET Strategies,
         fallback : Choice, via : Choice, round : Nat, model : Asg \cup {NoWitness},
         preempt : Choice, classPrefer : Choice]

-----------------------------------------------------------------------------
\* Semantics.

Models(P, negated) == {a \in Asg : /\ \A f \in P : a \in Sem[f]
                                   /\ \A f \in negated : a \notin Sem[f]}

CtxModels == Models(Ctx, {})
ScriptModels == {a \in CtxModels : \E k \in DOMAIN disjuncts : a \in Sem[disjuncts[k]]}

Agree(a, b, W) == \A v \in W : a[v] = b[v]
TrueUnder(f, a, W) == \A b \in Asg : Agree(a, b, W) => b \in Sem[f]
FalseUnder(f, a, W) == \A b \in Asg : Agree(a, b, W) => b \notin Sem[f]

-----------------------------------------------------------------------------
\* The order of work: arithmetic batches by ascending slice size, one batch
\* per slice seed, then the batch of all disjuncts whose slice is empty.

Seed(k) == SliceSeed(disjuncts[k])
SliceFor(k) == Cone(Seed(k))
SameBatch(j, k) == Seed(j) = Seed(k) \/ (SliceFor(j) = {} /\ SliceFor(k) = {})

Grouped == {k \in DOMAIN disjuncts : disjuncts[k] \notin Trivial}
FirstOfGroup(k) == CHOOSE j \in Grouped :
                     /\ Seed(j) = Seed(k)
                     /\ \A i \in Grouped : Seed(i) = Seed(k) => j <= i
Place(k) == <<IF SliceFor(k) = {} THEN 1 ELSE 0,
              Cardinality(SliceFor(k)), FirstOfGroup(k), k>>
Before(p, q) == \E n \in DOMAIN p : p[n] < q[n] /\ \A m \in 1..(n - 1) : p[m] = q[m]
IsFirst(k, K) == k \in K /\ \A j \in K \ {k} : Before(Place(k), Place(j))

-----------------------------------------------------------------------------
\* The disjunct at hand, its solver, and the strategies.

Working == pc \in {"prefer", "solve", "fallback", "model", "resolve", "refuted",
                  "validated", "inconclusive"}

D == disjuncts[job.k]
SolverOf(r) == CASE r = "arith" -> "grow" [] r = "full" -> "full" [] OTHER -> "mem"
Solver == SolverOf(job.rung)
Held == asserted[Solver] \cup scope[Solver]
Extra(r) == IF r = "escalated" THEN slice ELSE {}

Order == <<"closed", "closed_int">> \o (IF HasTactic THEN <<"tactic">> ELSE <<>>)
Enabled == {Order[n] : n \in DOMAIN Order}
Untried == {st \in Enabled : st \notin job.tried}
IsNextStrategy(st) ==
  /\ st \in Untried
  /\ IF job.fallback \in Untried THEN st = job.fallback
     ELSE \E n \in DOMAIN Order : /\ Order[n] = st
                                  /\ \A m \in 1..(n - 1) : Order[m] \notin Untried

\* The conjuncts a one-shot strategy sends to its subprocess with D.
Query(st) == IF st # "tactic" THEN ClosedSlice(D)
             ELSE IF job.rung \in {"arith", "mem"} THEN slice ELSE job.considered

\* A one-shot strategy may refute D; any other answer of it is inconclusive.
\* In the mutant an unknown answer passes for a refutation.
CanRefuteUnlessSat(st) == st # "tactic" => Query(st) # {}
CanRefute(st) ==
  /\ st # "tactic" => Query(st) # {}
  /\ Models(Query(st) \cup {D}, {}) = {}

-----------------------------------------------------------------------------
Init ==
  /\ disjuncts \in Goals /\ collect \in Collects
  /\ pc = "split"
  /\ todo = {} /\ members = {} /\ slice = {} /\ primary = {} /\ resident = {}
  /\ rung = "arith"
  /\ asserted = [s \in Solvers |-> {}]
  /\ learned = [s \in Solvers |-> {}]
  /\ scope = [s \in Solvers |-> {}]
  /\ refuted = {} /\ nRefuted = 0 /\ recorded = 0
  /\ prefer = None /\ sticky = None /\ router = NewRouter
  /\ job = [k |-> 0, rung |-> "arith", considered |-> {}, tried |-> {},
            fallback |-> None, via |-> None, round |-> 0, model |-> NoWitness,
            preempt |-> None, classPrefer |-> None]
  /\ result = "none" /\ witness = NoWitness

\* Phase 1: discharge the syntactically false disjuncts, group the others.
Split ==
  /\ pc = "split"
  /\ pc' = "next"
  /\ todo' = Grouped
  /\ refuted' = {disjuncts[k] : k \in DOMAIN disjuncts \ Grouped}
  /\ nRefuted' = Cardinality(DOMAIN disjuncts \ Grouped)
  /\ UNCHANGED <<request, members, rung, slice, primary, solvers, recorded, prefs, job, answer>>

\* grow_solver_for(sl): assert what is missing, after a restart when the
\* resident conjuncts exceed GcFactor times the slice.
\* Mutants: the restart keeps the old resident set; there is no restart.
GrowForStale(sl) ==
  /\ asserted' = IF Cardinality(resident \cup sl) > GcFactor * Cardinality(sl)
                 THEN [asserted EXCEPT !["grow"] = sl]
                 ELSE [asserted EXCEPT !["grow"] = @ \cup (sl \ resident)]
  /\ resident' = resident \cup sl
  /\ UNCHANGED learned
GrowForever(sl) ==
  /\ asserted' = [asserted EXCEPT !["grow"] = @ \cup (sl \ resident)]
  /\ resident' = resident \cup sl
  /\ UNCHANGED learned
GrowFor(sl) ==
  IF Cardinality(resident \cup sl) > GcFactor * Cardinality(sl)
  THEN /\ asserted' = [asserted EXCEPT !["grow"] = sl]
       /\ learned' = [learned EXCEPT !["grow"] = {}]
       /\ resident' = sl
  ELSE /\ asserted' = [asserted EXCEPT !["grow"] = @ \cup (sl \ resident)]
       /\ resident' = resident \cup sl
       /\ UNCHANGED learned

StartBatch ==
  /\ pc = "next" /\ members = {}
  /\ \E k \in todo :
       /\ IsFirst(k, todo)
       /\ members' = {j \in todo : SameBatch(j, k)}
       /\ todo' = {j \in todo : ~SameBatch(j, k)}
       /\ IF SliceFor(k) # {}
          THEN /\ rung' = "arith"
               /\ slice' = SliceFor(k)
               /\ GrowFor(SliceFor(k))
               /\ primary' = resident'
          ELSE /\ rung' = "mem"
               /\ slice' = MemIndices
               /\ asserted' = [asserted EXCEPT !["mem"] = MemIndices]
               /\ primary' = MemIndices
               /\ UNCHANGED <<resident, learned>>
  /\ prefer' = None /\ sticky' = None
  /\ UNCHANGED <<request, pc, scope, tally, router, job, answer>>

\* A disjunct that was refuted before is counted without a solver.  In the
\* mutant it is only skipped.
CachedUncounted ==
  /\ pc = "next"
  /\ \E k \in members : /\ IsFirst(k, members) /\ disjuncts[k] \in refuted
                        /\ members' = members \ {k}
  /\ UNCHANGED <<request, todo, rung, slice, primary, pc, solvers, refuted, nRefuted, recorded,
                 prefs, job, answer>>
Cached ==
  /\ pc = "next"
  /\ \E k \in members :
       /\ IsFirst(k, members)
       /\ disjuncts[k] \in refuted
       /\ members' = members \ {k}
  /\ nRefuted' = nRefuted + 1
  /\ UNCHANGED <<request, todo, rung, slice, primary, pc, solvers, refuted, recorded,
                 prefs, job, answer>>

StartDisjunct ==
  /\ pc = "next"
  /\ \E k \in members :
       LET routed == IF Routing THEN Route(router, Class[disjuncts[k]]) ELSE None
           first  == IF prefer # None THEN prefer ELSE routed
       IN  /\ IsFirst(k, members)
           /\ disjuncts[k] \notin refuted
           /\ job' = [k |-> k, rung |-> rung, considered |-> primary, tried |-> {},
                      fallback |-> sticky, via |-> None, round |-> 0,
                      model |-> NoWitness, preempt |-> first, classPrefer |-> routed]
           /\ pc' = IF first \in Enabled THEN "prefer" ELSE "solve"
  /\ UNCHANGED <<batching, solvers, tally, prefs, answer>>

-----------------------------------------------------------------------------
\* _solve_under: the preferred strategy, the solver, the fallback strategies.

TryPreferred ==
  /\ pc = "prefer"
  /\ \/ /\ CanRefute(job.preempt)
        /\ job' = [job EXCEPT !.via = job.preempt]
        /\ pc' = "refuted"
     \/ /\ job' = [job EXCEPT !.tried = {job.preempt}]
        /\ pc' = "solve"
  /\ UNCHANGED <<batching, solvers, tally, prefs, answer>>

\* What the solver of the job holds once pushed is added to its scope, and the
\* three ways its answer can turn out.
SolverAnswers(pushed, onUnknown) ==
  LET models == Models(asserted[Solver] \cup scope[Solver] \cup pushed, learned[Solver])
  IN  \/ models = {} /\ pc' = "refuted" /\ job' = job
      \/ pc' = onUnknown /\ job' = job
      \/ \E a \in models :
           /\ pc' = IF job.rung = "full" THEN "validated" ELSE "model"
           /\ job' = [job EXCEPT !.model = a]

Solve ==
  LET pushed == Extra(job.rung) \cup {D}
  IN  /\ pc = "solve"
      /\ SolverAnswers(pushed, "fallback")
      /\ scope' = [scope EXCEPT ![Solver] = @ \cup pushed]
      /\ UNCHANGED <<batching, resident, asserted, learned, tally, prefs, answer>>

Fallback ==
  /\ pc = "fallback"
  /\ \E st \in Untried :
       /\ IsNextStrategy(st)
       /\ \/ /\ CanRefute(st)
             /\ job' = [job EXCEPT !.via = st]
             /\ pc' = "refuted"
          \/ /\ job' = [job EXCEPT !.tried = @ \cup {st}]
             /\ pc' = IF Untried = {st} THEN "inconclusive" ELSE "fallback"
  /\ UNCHANGED <<batching, solvers, tally, prefs, answer>>

\* The model is a model of the context: every omitted conjunct was evaluated,
\* and to true.  In the mutant the undetermined ones are not counted.
ConfirmedByDecided(decided, known) == \A i \in decided : TrueUnder(i, job.model, known)
Confirmed(decided, known) ==
  \A i \in Ctx \ job.considered : i \in decided /\ TrueUnder(i, job.model, known)

\* _run_cegar: evaluate the omitted conjuncts under the scalar part of the
\* model.  One without a variable of the model is undetermined; one that is
\* not ground under it may be (blind), since it is only simplified.
Validate ==
  LET known   == VarsOf(Held \cup learned[Solver]) \cap Scalars
      omitted == Ctx \ job.considered
      unseen  == {i \in omitted : FV[i] \cap known = {}}
      partial == {i \in omitted : ~(FV[i] \subseteq known)}
  IN  /\ pc = "model" /\ job.round < CegarIters
      /\ \E blind \in SUBSET partial :
           LET decided   == omitted \ (blind \cup unseen)
               falsified == {i \in decided : FalseUnder(i, job.model, known)}
           IN  \/ \E F \in SUBSET falsified :
                    /\ F # {} /\ Cardinality(F) <= CegarBatch
                    /\ Cardinality(F) < CegarBatch => F = falsified
                    /\ scope' = [scope EXCEPT ![Solver] = @ \cup F]
                    /\ job' = [job EXCEPT !.considered = @ \cup F]
                    /\ pc' = "resolve"
               \/ /\ falsified = {}
                  /\ pc' = IF Confirmed(decided, known) THEN "validated" ELSE "inconclusive"
                  /\ UNCHANGED <<scope, job>>
      /\ UNCHANGED <<batching, resident, asserted, learned, tally, prefs, answer>>

\* Solve again with the falsified conjuncts; "unknown" ends the rung.
Resolve ==
  LET models == Models(Held, learned[Solver])
  IN  /\ pc = "resolve"
      /\ \/ models = {} /\ pc' = "refuted" /\ job' = job
         \/ pc' = "inconclusive" /\ job' = job
         \/ \E a \in models :
              /\ pc' = "model"
              /\ job' = [job EXCEPT !.model = a, !.round = @ + 1]
      /\ UNCHANGED <<batching, solvers, tally, prefs, answer>>

CegarExhausted ==
  /\ pc = "model" /\ job.round = CegarIters
  /\ pc' = "inconclusive"
  /\ UNCHANGED <<batching, solvers, tally, prefs, job, answer>>

\* The pipe of a solver breaks under a command: when a batch starts, while a
\* disjunct is solved, or when its scope is popped and its negation asserted.
SolverDies ==
  /\ \/ pc = "next" /\ members = {} /\ todo # {}
     \/ Working /\ pc # "prefer"
  /\ result' = "error-broken-pipe"
  /\ pc' = "close"
  /\ UNCHANGED <<batching, solvers, tally, prefs, job, witness>>

-----------------------------------------------------------------------------
\* _ladder and the end of a disjunct.

Popped == scope' = [scope EXCEPT ![Solver] = {}]

\* The next rung: a small slice is pushed into the mem solver together with
\* the disjunct, anything else goes to the full context.  In the mutant a small
\* slice is escalated whatever the rung.
NextRungBySize == IF Cardinality(slice) <= SmallSlice THEN "escalated" ELSE "full"
NextRung == IF job.rung = "arith" /\ Cardinality(slice) <= SmallSlice
            THEN "escalated" ELSE "full"

Escalate ==
  LET next == NextRung
  IN  /\ pc = "inconclusive" /\ job.rung # "full"
      /\ Popped
      /\ asserted' = IF next = "full" THEN [asserted EXCEPT !["full"] = Ctx]
                     ELSE [asserted EXCEPT !["mem"] = MemIndices]
      /\ job' = [job EXCEPT !.rung = next, !.tried = {}, !.fallback = None, !.round = 0,
                            !.considered = IF next = "full" THEN Ctx ELSE slice \cup MemIndices]
      /\ pc' = "solve"
      /\ UNCHANGED <<batching, resident, learned, tally, prefs, answer>>

\* Router and neighbour preferences after the ladder has an outcome.
LearnPreference ==
  /\ router' = IF ~Routing THEN router
               ELSE Learn(router, Class[D], job.via,
                          prefer = None /\ job.classPrefer # None,
                          job.via # None /\ job.via = job.classPrefer)
  /\ prefer' = job.via
  /\ sticky' = IF job.via # None THEN job.via ELSE sticky

SettleRefuted ==
  /\ pc = "refuted"
  /\ Popped /\ LearnPreference
  /\ refuted' = refuted \cup {D}
  /\ nRefuted' = nRefuted + 1
  /\ learned' = [learned EXCEPT ![SolverOf(rung)] = @ \cup {D}]
  /\ members' = members \ {job.k}
  /\ pc' = "next"
  /\ UNCHANGED <<request, todo, rung, slice, primary, resident, asserted, recorded, job, answer>>

SettleSat ==
  /\ pc = "validated"
  /\ Popped /\ LearnPreference
  /\ result' = "sat"
  /\ witness' = job.model
  /\ pc' = "close"
  /\ UNCHANGED <<batching, resident, asserted, learned, tally, job>>

SettleUnknown ==
  /\ pc = "inconclusive" /\ job.rung = "full"
  /\ Popped /\ LearnPreference
  /\ IF collect.given
     THEN /\ recorded' = IF collect.cap < 0 \/ recorded < collect.cap
                         THEN recorded + 1 ELSE recorded
          /\ members' = members \ {job.k}
          /\ pc' = "next"
          /\ UNCHANGED result
     ELSE /\ result' = "unknown"
          /\ pc' = "close"
          /\ UNCHANGED <<recorded, members>>
  /\ UNCHANGED <<request, todo, rung, slice, primary, resident, asserted, learned,
                 refuted, nRefuted, job, witness>>

\* In the mutant a recorded unknown counts like a refutation.
FinalCountingUnknowns == IF nRefuted + recorded = Len(disjuncts) THEN "unsat" ELSE "assertion-error"
Final == IF recorded > 0 THEN "unknown"
         ELSE IF nRefuted = Len(disjuncts) THEN "unsat" ELSE "assertion-error"

\* All batches are through: "unsat" needs the count to be complete, which the
\* code asserts when no unknown disjunct was recorded.
Finish ==
  /\ pc = "next" /\ members = {} /\ todo = {}
  /\ result' = Final
  /\ pc' = "close"
  /\ UNCHANGED <<batching, solvers, tally, prefs, job, witness>>

\* The solvers are closed on every way out.
Close ==
  /\ pc = "close"
  /\ pc' = "done"
  /\ asserted' = [s \in Solvers |-> {}]
  /\ learned' = [s \in Solvers |-> {}]
  /\ scope' = [s \in Solvers |-> {}]
  /\ UNCHANGED <<batching, resident, tally, prefs, job, answer>>

Next ==
  \/ Split \/ StartBatch \/ Cached \/ StartDisjunct
  \/ TryPreferred \/ Solve \/ Fallback
  \/ Validate \/ Resolve \/ CegarExhausted \/ SolverDies
  \/ Escalate \/ SettleRefuted \/ SettleSat \/ SettleUnknown
  \/ Finish \/ Close

Spec == Init /\ [][Next]_vars /\ WF_vars(Next)

-----------------------------------------------------------------------------
\* Properties.

\* Every variable has its type.
TypeOK ==
  /\ disjuncts \in Goals /\ collect \in Collects
  /\ pc \in {"split", "next", "prefer", "solve", "fallback", "model", "resolve",
             "refuted", "validated", "inconclusive", "close", "done"}
  /\ todo \subseteq DOMAIN disjuncts /\ members \subseteq DOMAIN disjuncts
  /\ rung \in {"arith", "mem"}
  /\ slice \subseteq Ctx /\ primary \subseteq Ctx /\ resident \subseteq Ctx
  /\ asserted \in [Solvers -> SUBSET Ctx]
  /\ learned \in [Solvers -> SUBSET Formulas]
  /\ scope \in [Solvers -> SUBSET (Ctx \cup Formulas)]
  /\ refuted \subseteq Formulas
  /\ nRefuted \in Nat /\ recorded \in Nat
  /\ prefer \in Choice /\ sticky \in Choice /\ router \in Routers
  /\ job \in Jobs
  /\ result \in {"none", "sat", "unsat", "unknown", "error-broken-pipe", "assertion-error"}
  /\ witness \in Asg \cup {NoWitness}

\* The soundness invariants of sliced.py's docstring: "unsat" is reported
\* only if no assignment satisfies the context and a disjunct, "sat" only
\* with a model of ALL of the context, whatever slices, solvers, strategies
\* and learned facts the verdict came through.
VerdictSound ==
  /\ result = "unsat" => ScriptModels = {}
  /\ result = "sat" => witness \in ScriptModels

\* The same promise as a specification of its own: one answer, given once,
\* that is never revised afterwards.
Answered == CASE result = "none" -> "pending"
              [] result \in {"sat", "unsat"} -> result
              [] OTHER -> "unknown"
V == INSTANCE Verdict WITH script <- ScriptModels, verdict <- Answered
ImplementsVerdict == V!Spec

\* What the checker believes a solver holds is what it holds: the resident
\* set across restarts of the growing solver; the conjuncts a slice model is
\* not validated against; and no assertion of one disjunct is left in a
\* solver that the next disjunct will use.
ResidentIsAsserted == pc # "done" => asserted["grow"] = resident
ConsideredIsHeld == pc \in {"model", "resolve"} => job.considered \subseteq Held
ScopesClosed == pc \in {"next", "split"} => \A s \in Solvers : scope[s] = {}
BookkeepingMatchesSolvers == ResidentIsAsserted /\ ConsideredIsHeld /\ ScopesClosed

\* Learned negations and cached refutations are consequences of the context,
\* also when they outlive the slice, the scope or the rung they came from.
LearnedFollow ==
  \A f \in refuted \cup UNION {learned[s] : s \in Solvers} : CtxModels \cap Sem[f] = {}

\* Pollution of the growing solver stays below the GC threshold of the batch
\* that runs on it.
ResidentBounded ==
  pc # "split" /\ rung = "arith" /\ slice # {}
    => Cardinality(resident) <= GcFactor * Cardinality(slice)

\* No disjunct is skipped and none is counted twice: batching, the verdict
\* cache and the collection of unknowns account for every index of the goal.
EveryDisjunctAccounted ==
  pc = "next" /\ collect.cap < 0
    => nRefuted + recorded + Cardinality(todo) + Cardinality(members) = Len(disjuncts)

\* A class whose routed strategy keeps losing is not routed any more: the
\* toll of a wrong preference stays bounded.
TollBounded ==
  \A c \in Classes \ router.disabled : ~Dominated(router.hits[c], router.misses[c])

\* The strengthening of VerdictSound that is inductive.  While a disjunct is
\* solved, its solver holds conjuncts of the context, the disjunct once it is
\* pushed, and negations that follow; the other solvers have no open scope.
InSolver == pc \in {"fallback", "model", "resolve"}
Processed == {k \in DOMAIN disjuncts \ (todo \cup members) : disjuncts[k] \in refuted}

JobInv ==
  /\ todo \cap members = {}
  /\ pc = "split" => members = {}
  /\ Working => job.k \in members
  /\ pc = "prefer" => job.preempt \in Enabled
ScopeInv ==
  /\ pc \in {"split", "next", "prefer", "solve"} => \A s \in Solvers : scope[s] = {}
  /\ Working => \A s \in Solvers : scope[s] \subseteq IF s = Solver THEN Ctx \cup {D} ELSE {}
  /\ InSolver => Extra(job.rung) \cup {D} \subseteq scope[Solver]
BatchInv ==
  members # {} /\ pc \notin {"close", "done"} => primary \subseteq asserted[SolverOf(rung)]
ConsideredInv ==
  Working => /\ job.considered \subseteq Held \cup Extra(job.rung)
             /\ job.rung = "full" => asserted["full"] = Ctx
             /\ job.rung \in {"arith", "mem"} => job.rung = rung
AnswerInv ==
  /\ pc \notin {"close", "done"} => result = "none" /\ witness = NoWitness
  /\ pc = "model" => job.model \in Models(Held, learned[Solver])
  /\ pc = "validated" => job.model \in CtxModels \cap Sem[D]
  /\ pc = "refuted" => CtxModels \cap Sem[D] = {}
CountInv ==
  /\ pc = "split" => refuted = {} /\ nRefuted = 0
  /\ pc # "split" => nRefuted <= Cardinality(Processed)
SoundInv ==
  /\ JobInv /\ ScopeInv /\ BatchInv /\ ConsideredInv /\ AnswerInv /\ CountInv
  /\ ResidentIsAsserted /\ LearnedFollow /\ VerdictSound

\* The strengthening of the three bounds that is inductive: while a disjunct is
\* worked on it is still one of its batch, and nothing is counted before the
\* goal is split.
BudgetInv ==
  /\ pc = "split" => slice = {} /\ recorded = 0
  /\ pc \notin {"split", "close", "done"} /\ collect.cap < 0
       => nRefuted + recorded + Cardinality(todo) + Cardinality(members) = Len(disjuncts)
  /\ ResidentBounded /\ TollBounded

\* Every check ends, given that every solver call comes back.
Terminates == <>(pc = "done")
=============================================================================
