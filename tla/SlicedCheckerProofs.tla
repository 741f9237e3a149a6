------------------------- MODULE SlicedCheckerProofs ------------------------
(***************************************************************************)
(* Soundness of the sliced checker for every context, goal, slice, budget  *)
(* and configuration, and for every behaviour of the solvers.              *)
(***************************************************************************)
EXTENDS SlicedChecker, FiniteSetTheorems, TLAPS

-----------------------------------------------------------------------------
\* Lemmas about the operators.

\* Slices, the memory argument and closed slices are parts of the context.
LEMMA SlicesInCtx ==
  /\ MemIndices \subseteq Ctx
  /\ \A k : SliceFor(k) \subseteq Ctx
  /\ \A s : Cone(s) \subseteq Ctx
  /\ \A d : ClosedSlice(d) \subseteq Ctx
BY DEF MemIndices, Touching, Cone, ClosedSlice, SliceFor

\* The strategies that can be enabled are the known ones.
LEMMA EnabledStrategies == Enabled \subseteq Strategies
BY SlicedAssumption DEF Enabled, Order, Strategies

\* Every disjunct of the goal is a formula.
LEMMA GoalType ==
  ASSUME disjuncts \in Goals
  PROVE  /\ disjuncts \in Seq(Formulas)
         /\ DOMAIN disjuncts = 1..Len(disjuncts)
         /\ Len(disjuncts) \in Nat
         /\ IsFiniteSet(DOMAIN disjuncts)
         /\ Cardinality(DOMAIN disjuncts) = Len(disjuncts)
<1>1. disjuncts \in Seq(Formulas)
  BY SlicedAssumption
<1>2. DOMAIN disjuncts = 1..Len(disjuncts) /\ Len(disjuncts) \in Nat
  BY <1>1
<1>3. QED
  BY <1>1, <1>2, FS_Interval

\* Every table of the router keeps its type.
LEMMA RouterTyped ==
  ASSUME NEW r \in Routers, NEW c \in Classes \cup {NoClass}, NEW via \in Choice,
         NEW routed \in BOOLEAN, NEW hit \in BOOLEAN
  PROVE  /\ Route(r, c) \in Choice
         /\ Learn(r, c, via, routed, hit) \in Routers
<1>1. Route(r, c) \in Choice
  <2>1. r.pref \in [Classes -> Choice] /\ None \in Choice
    BY DEF Routers, Choice
  <2>2. QED
    BY <2>1 DEF Route
<1>2. CASE c \notin Classes
  BY <1>1, <1>2 DEF Learn
<1>3. CASE c \in Classes
  <2> DEFINE pref == IF via # None THEN [r.pref EXCEPT ![c] = via] ELSE r.pref
             hits == [r.hits EXCEPT ![c] = @ + 1]
             misses == [r.misses EXCEPT ![c] = @ + 1]
  <2>1. /\ pref \in [Classes -> Choice]
        /\ hits \in [Classes -> Nat]
        /\ misses \in [Classes -> Nat]
    <3>1. r.pref \in [Classes -> Choice]
      BY DEF Routers
    <3>2. [r.pref EXCEPT ![c] = via] \in [Classes -> Choice]
      BY <3>1
    <3>3. hits \in [Classes -> Nat] /\ misses \in [Classes -> Nat]
      <4>1. r.hits \in [Classes -> Nat] /\ r.misses \in [Classes -> Nat]
        BY DEF Routers
      <4>2. r.hits[c] + 1 \in Nat /\ r.misses[c] + 1 \in Nat
        BY <1>3, <4>1
      <4>3. QED
        BY <4>1, <4>2
    <3>4. QED
      BY <3>1, <3>2, <3>3
  <2>2. QED
    BY <1>1, <1>3, <2>1 DEF Learn, Disabled, Routers
<1>4. QED
  BY <1>2, <1>3

\* What a solver refutes under conjuncts of the context and negations that
\* follow from it is refuted under the context.
LEMMA RefutationTransfers ==
  ASSUME NEW d, NEW P, P \subseteq Ctx \cup {d},
         NEW N, \A f \in N : CtxModels \cap Sem[f] = {},
         Models(P, N) = {}
  PROVE  CtxModels \cap Sem[d] = {}
<1> SUFFICES ASSUME NEW a \in CtxModels \cap Sem[d] PROVE FALSE
  OBVIOUS
<1>1. a \in Asg /\ \A f \in Ctx : a \in Sem[f]
  BY DEF CtxModels, Models
<1>2. \A f \in N : a \notin Sem[f]
  OBVIOUS
<1>3. a \in Models(P, N)
  BY <1>1, <1>2 DEF Models
<1>4. QED
  BY <1>3

\* A conjunct that evaluates to true under the known part of an assignment
\* is satisfied by the assignment.
LEMMA TrueUnderHolds ==
  ASSUME NEW f, NEW a \in Asg, NEW W, TrueUnder(f, a, W)
  PROVE  a \in Sem[f]
BY DEF TrueUnder, Agree

-----------------------------------------------------------------------------
\* Type correctness.

\* Type correctness before the goal is split.
LEMMA InitTyped == Init => TypeOK
<1> SUFFICES ASSUME Init PROVE TypeOK
  OBVIOUS
<1>1. router \in Routers
  BY DEF Init, NewRouter, Routers, Choice, None
<1>2. job \in Jobs
  BY DEF Init, Jobs, Rungs, Choice, None
<1>3. QED
  BY <1>1, <1>2 DEF Init, TypeOK, Choice

\* The disjunct under work and its structure class have their types.
LEMMA WorkedDisjunctTyped ==
  ASSUME TypeOK, JobInv, Working
  PROVE  job.k \in DOMAIN disjuncts /\ D \in Formulas /\ Class[D] \in Classes \cup {NoClass}
<1>1. job.k \in DOMAIN disjuncts
  BY DEF TypeOK, JobInv
<1>2. D \in Formulas
  BY <1>1, GoalType DEF TypeOK, D
<1>3. QED
  BY <1>1, <1>2, SlicedAssumption

\* What is learned about strategies keeps the type of the preferences.
LEMMA PreferencesTyped ==
  ASSUME TypeOK, JobInv, Working, LearnPreference
  PROVE  prefer' \in Choice /\ sticky' \in Choice /\ router' \in Routers
<1>1. job.via \in Choice /\ Class[D] \in Classes \cup {NoClass}
  BY WorkedDisjunctTyped DEF TypeOK, Jobs
<1>2. \A routed, hit \in BOOLEAN : Learn(router, Class[D], job.via, routed, hit) \in Routers
  BY <1>1, RouterTyped DEF TypeOK
<1>3. router' \in Routers
  BY <1>2 DEF LearnPreference, TypeOK
<1>4. QED
  BY <1>1, <1>3 DEF LearnPreference, TypeOK

\* Every step of the sliced check keeps the types.
LEMMA TypeStep ==
  ASSUME TypeOK, JobInv, [Next]_vars
  PROVE  TypeOK'
<1> USE DEF TypeOK, batching, request, solvers, tally, prefs, answer
<1>1. CASE Split
  <2>1. nRefuted' \in Nat
    <3>1. IsFiniteSet(DOMAIN disjuncts \ Grouped)
      BY GoalType, FS_Subset
    <3>2. QED
      BY <1>1, <3>1, FS_CardinalityType DEF Split
  <2>2. todo' \subseteq DOMAIN disjuncts /\ refuted' \subseteq Formulas
    BY <1>1, GoalType DEF Split, Grouped
  <2>3. QED
    BY <1>1, <2>1, <2>2 DEF Split
<1>2. CASE StartBatch
  <2>1. PICK k \in todo : StartBatch!2!(k)
    BY <1>2 DEF StartBatch
  <2>2. /\ asserted' \in [Solvers -> SUBSET Ctx]
        /\ learned' \in [Solvers -> SUBSET Formulas]
        /\ resident' \subseteq Ctx /\ primary' \subseteq Ctx
        /\ slice' \subseteq Ctx /\ rung' \in {"arith", "mem"}
    BY <2>1, SlicesInCtx DEF GrowFor, Solvers
  <2>3. QED
    BY <1>2, <2>1, <2>2 DEF StartBatch, Choice
<1>3. CASE Cached
  BY <1>3 DEF Cached
<1>4. CASE StartDisjunct
  <2>1. PICK k \in members : StartDisjunct!2!(k)
    BY <1>4 DEF StartDisjunct
  <2>2. Class[disjuncts[k]] \in Classes \cup {NoClass}
    BY <2>1, GoalType, SlicedAssumption
  <2>3. (IF Routing THEN Route(router, Class[disjuncts[k]]) ELSE None) \in Choice
    BY <2>2, RouterTyped DEF Choice
  <2>4. job' \in Jobs
    BY <2>1, <2>3, GoalType DEF Jobs, Rungs, Choice
  <2>5. QED
    BY <1>4, <2>1, <2>4 DEF StartDisjunct
<1>5. CASE TryPreferred
  <2>1. {job.preempt} \subseteq Strategies
    BY <1>5, EnabledStrategies DEF TryPreferred, JobInv
  <2>2. job' \in Jobs
    BY <1>5, <2>1 DEF TryPreferred, Jobs
  <2>3. QED
    BY <1>5, <2>2 DEF TryPreferred
<1>6. CASE Solve
  <2>1. job \in Jobs /\ D \in Formulas /\ Solver \in Solvers
    BY <1>6, WorkedDisjunctTyped DEF Solve, Working, Solver, SolverOf, Solvers
  <2>2. job' \in Jobs
    BY <1>6, <2>1 DEF Solve, SolverAnswers, Jobs, Models
  <2>3. Extra(job.rung) \cup {D} \subseteq Ctx \cup Formulas
    BY <2>1 DEF Extra
  <2>4. scope' \in [Solvers -> SUBSET (Ctx \cup Formulas)]
    BY <1>6, <2>1, <2>3 DEF Solve
  <2>5. pc' \in {"refuted", "fallback", "validated", "model"}
    BY <1>6 DEF Solve, SolverAnswers
  <2>6. QED
    BY <1>6, <2>2, <2>4, <2>5 DEF Solve
<1>7. CASE Fallback
  <2>1. PICK st \in Untried : Fallback!2!(st)
    BY <1>7 DEF Fallback
  <2>2. st \in Strategies
    BY <2>1, EnabledStrategies DEF Untried
  <2>3. job' \in Jobs /\ pc' \in {"refuted", "inconclusive", "fallback"}
    BY <2>1, <2>2 DEF Jobs, Choice
  <2>4. QED
    BY <1>7, <2>3 DEF Fallback
<1>8. CASE Validate
  <2> DEFINE known   == VarsOf(Held \cup learned[Solver]) \cap Scalars
             omitted == Ctx \ job.considered
             decided(blind) == omitted \ (blind \cup {i \in omitted : FV[i] \cap known = {}})
             falsified(blind) == {i \in decided(blind) : FalseUnder(i, job.model, known)}
  <2>1. PICK blind : \/ \E F \in SUBSET falsified(blind) :
                            /\ scope' = [scope EXCEPT ![Solver] = @ \cup F]
                            /\ job' = [job EXCEPT !.considered = @ \cup F]
                            /\ pc' = "resolve"
                       \/ /\ pc' \in {"validated", "inconclusive"}
                          /\ UNCHANGED <<scope, job>>
    BY <1>8 DEF Validate
  <2>2. \A F \in SUBSET falsified(blind) : F \subseteq Ctx
    OBVIOUS
  <2>3. scope' \in [Solvers -> SUBSET (Ctx \cup Formulas)]
    BY <2>1, <2>2
  <2>4. job' \in Jobs
    BY <2>1, <2>2 DEF Jobs
  <2>5. QED
    BY <1>8, <2>1, <2>3, <2>4 DEF Validate
<1>9. CASE Resolve
  <2>1. job.round + 1 \in Nat
    BY DEF Jobs
  <2>2. \/ job' = job
        \/ \E a \in Asg : job' = [job EXCEPT !.model = a, !.round = job.round + 1]
    BY <1>9 DEF Resolve, Models
  <2>3. job' \in Jobs
    BY <2>1, <2>2 DEF Jobs
  <2>4. QED
    BY <1>9, <2>3 DEF Resolve
<1>10. CASE CegarExhausted
  BY <1>10 DEF CegarExhausted
<1>11. CASE SolverDies
  BY <1>11 DEF SolverDies
<1>12. CASE Escalate
  <2>1. job' \in Jobs
    <3>1. slice \cup MemIndices \subseteq Ctx
      BY SlicesInCtx
    <3>2. PICK n \in {"escalated", "full"}, C \in SUBSET Ctx :
            job' = [job EXCEPT !.rung = n, !.tried = {}, !.fallback = None, !.round = 0, !.considered = C]
      BY <1>12, <3>1 DEF Escalate, NextRung
    <3>3. QED
      BY <3>2 DEF Jobs, Rungs, Choice
  <2>2. asserted' \in [Solvers -> SUBSET Ctx]
    BY <1>12, SlicesInCtx DEF Escalate, NextRung
  <2>3. scope' \in [Solvers -> SUBSET (Ctx \cup Formulas)]
    BY <1>12 DEF Escalate, NextRung, Popped
  <2>4. QED
    BY <1>12, <2>1, <2>2, <2>3 DEF Escalate, NextRung
<1>13. CASE SettleRefuted
  <2>1. D \in Formulas
    BY <1>13, WorkedDisjunctTyped DEF SettleRefuted, Working
  <2>2. scope' \in [Solvers -> SUBSET (Ctx \cup Formulas)]
    BY <1>13 DEF SettleRefuted, Popped
  <2>3. learned' \in [Solvers -> SUBSET Formulas]
    BY <1>13, <2>1 DEF SettleRefuted
  <2>4. prefer' \in Choice /\ sticky' \in Choice /\ router' \in Routers
    BY <1>13, PreferencesTyped DEF SettleRefuted, Working
  <2>5. QED
    BY <1>13, <2>1, <2>2, <2>3, <2>4 DEF SettleRefuted
<1>14. CASE SettleSat
  <2>1. witness' \in Asg \cup {NoWitness}
    BY <1>14 DEF SettleSat, Jobs
  <2>2. scope' \in [Solvers -> SUBSET (Ctx \cup Formulas)]
    BY <1>14 DEF SettleSat, Popped
  <2>3. prefer' \in Choice /\ sticky' \in Choice /\ router' \in Routers
    BY <1>14, PreferencesTyped DEF SettleSat, Working
  <2>4. QED
    BY <1>14, <2>1, <2>2, <2>3 DEF SettleSat
<1>15. CASE SettleUnknown
  <2>1. scope' \in [Solvers -> SUBSET (Ctx \cup Formulas)]
    BY <1>15 DEF SettleUnknown, Popped
  <2>2. prefer' \in Choice /\ sticky' \in Choice /\ router' \in Routers
    BY <1>15, PreferencesTyped DEF SettleUnknown, Working
  <2>3. /\ recorded' \in Nat /\ members' \subseteq DOMAIN disjuncts
        /\ pc' \in {"next", "close"} /\ result' \in {result, "unknown"}
    BY <1>15 DEF SettleUnknown
  <2>4. QED
    BY <1>15, <2>1, <2>2, <2>3 DEF SettleUnknown
<1>16. CASE Finish
  BY <1>16 DEF Finish, Final
<1>17. CASE Close
  BY <1>17 DEF Close
<1>18. CASE UNCHANGED vars
  BY <1>18 DEF vars
<1>19. QED
  BY <1>1, <1>2, <1>3, <1>4, <1>5, <1>6, <1>7, <1>8, <1>9, <1>10, <1>11, <1>12, <1>13,
     <1>14, <1>15, <1>16, <1>17, <1>18 DEF Next

-----------------------------------------------------------------------------
\* The inductive invariant.  Each lemma is about one action, or about actions
\* that disturb the same parts of it.

Inv == TypeOK /\ SoundInv

\* What a step says about the disjunct at hand carries over as long as the
\* step keeps to the same disjunct and rung.
LEMMA SameJob ==
  ASSUME UNCHANGED disjuncts, UNCHANGED slice, job'.k = job.k, job'.rung = job.rung
  PROVE  D' = D /\ Solver' = Solver /\ Extra(job.rung)' = Extra(job.rung)
BY DEF D, Solver, SolverOf, Extra

\* Facts that follow from the context keep following from it.
LEMMA FactsKept ==
  ASSUME LearnedFollow, learned \in [Solvers -> SUBSET Formulas], UNCHANGED <<refuted, learned>>
  PROVE  LearnedFollow'
BY DEF LearnedFollow, Solvers

\* The count needs no look while the batches and the cache stay as they are.
LEMMA CountKept ==
  ASSUME CountInv, pc # "split", pc' # "split",
         UNCHANGED <<disjuncts, todo, members, refuted, nRefuted>>
  PROVE  CountInv'
BY DEF CountInv, Processed

\* A verdict stays sound as long as neither it nor the goal changes.
LEMMA VerdictKept ==
  ASSUME VerdictSound, UNCHANGED <<disjuncts, result, witness>>
  PROVE  VerdictSound'
BY DEF VerdictSound, ScriptModels

\* While a disjunct is worked on its solver holds conjuncts of the context
\* and the disjunct, so what the solver refutes is refuted.
LEMMA HeldIsContext ==
  ASSUME Inv, Working
  PROVE  /\ Solver \in Solvers
         /\ asserted[Solver] \subseteq Ctx
         /\ scope[Solver] \subseteq Ctx \cup {D}
         /\ Extra(job.rung) \subseteq Ctx
         /\ \A f \in learned[Solver] : CtxModels \cap Sem[f] = {}
<1>1. Solver \in Solvers
  BY DEF Solver, SolverOf, Solvers, Inv, TypeOK, Jobs, Rungs
<1>2. scope[Solver] \subseteq Ctx \cup {D}
  BY <1>1 DEF Inv, SoundInv, ScopeInv
<1>3. Extra(job.rung) \subseteq Ctx
  BY DEF Extra, Inv, TypeOK
<1>4. \A f \in learned[Solver] : CtxModels \cap Sem[f] = {}
  BY <1>1 DEF Inv, SoundInv, LearnedFollow
<1>5. QED
  BY <1>1, <1>2, <1>3, <1>4 DEF Inv, TypeOK

\* A one-shot query is made of conjuncts of the context.
LEMMA OneShotRefutes ==
  ASSUME Inv, NEW st, CanRefute(st)
  PROVE  CtxModels \cap Sem[D] = {}
<1>1. Query(st) \cup {D} \subseteq Ctx \cup {D}
  BY SlicesInCtx DEF Query, Inv, TypeOK, Jobs
<1>2. QED
  BY <1>1, RefutationTransfers DEF CanRefute

-----------------------------------------------------------------------------
\* The invariant holds before the goal is split.
LEMMA InitSound == Init => Inv
<1> SUFFICES ASSUME Init PROVE SoundInv
  BY InitTyped DEF Inv
<1>1. JobInv /\ ScopeInv /\ BatchInv /\ ConsideredInv /\ AnswerInv
  BY DEF Init, JobInv, ScopeInv, BatchInv, ConsideredInv, AnswerInv, Working, InSolver, Solvers
<1>2. CountInv
  BY DEF Init, CountInv
<1>3. ResidentIsAsserted /\ LearnedFollow /\ VerdictSound
  BY DEF Init, ResidentIsAsserted, LearnedFollow, VerdictSound, Solvers
<1>4. QED
  BY <1>1, <1>2, <1>3 DEF SoundInv

\* Trivial disjuncts are false: counting them as refuted is sound.
LEMMA SplitSound == Inv /\ Split => SoundInv'
<1> SUFFICES ASSUME Inv, Split PROVE SoundInv'
  OBVIOUS
<1> USE DEF request, solvers, prefs, answer
<1>1. JobInv' /\ ScopeInv' /\ BatchInv' /\ ConsideredInv' /\ AnswerInv'
  BY DEF Inv, SoundInv, Split, JobInv, ScopeInv, BatchInv, ConsideredInv, AnswerInv, Working,
         InSolver
<1>2. CountInv'
  <2>1. Processed' = DOMAIN disjuncts \ Grouped
    BY DEF Inv, SoundInv, JobInv, Split, Processed, Grouped
  <2>2. Cardinality(Processed') \in Nat
    BY <2>1, GoalType, FS_Subset, FS_CardinalityType DEF Inv, TypeOK
  <2>3. QED
    BY <2>1, <2>2 DEF Split, CountInv
<1>3. LearnedFollow'
  <2>1. \A k \in DOMAIN disjuncts \ Grouped : Sem[disjuncts[k]] = {}
    BY SlicedAssumption DEF Grouped
  <2>2. QED
    BY <2>1 DEF Inv, SoundInv, LearnedFollow, Split
<1>4. ResidentIsAsserted' /\ VerdictSound'
  BY VerdictKept DEF Inv, SoundInv, Split, ResidentIsAsserted
<1>5. QED
  BY <1>1, <1>2, <1>3, <1>4 DEF SoundInv

\* A batch starts with its slice held by its solver; a restarted growing solver
\* forgets its learned negations together with its conjuncts.
LEMMA StartBatchSound == Inv /\ StartBatch => SoundInv'
<1> SUFFICES ASSUME Inv, StartBatch PROVE SoundInv'
  OBVIOUS
<1> USE DEF request, tally, answer
<1>1. PICK k \in todo : StartBatch!2!(k)
  BY DEF StartBatch
<1>2. pc = "next" /\ pc' = "next" /\ members = {}
  BY DEF StartBatch
<1>3. JobInv' /\ ScopeInv' /\ ConsideredInv' /\ AnswerInv' /\ VerdictSound'
  BY <1>1, <1>2, VerdictKept DEF Inv, SoundInv, StartBatch, JobInv, ScopeInv, ConsideredInv, AnswerInv,
     Working, InSolver
<1>4. BatchInv' /\ ResidentIsAsserted'
  BY <1>1, <1>2 DEF Inv, TypeOK, SoundInv, BatchInv, ResidentIsAsserted, GrowFor, SolverOf, Solvers
<1>5. CountInv'
  <2>1. Processed' = Processed
    BY <1>1, <1>2 DEF StartBatch, Processed
  <2>2. QED
    BY <2>1, <1>2 DEF StartBatch, Inv, SoundInv, CountInv
<1>6. LearnedFollow'
  <2>1. \A s \in Solvers : learned'[s] \subseteq learned[s]
    BY <1>1 DEF GrowFor, Inv, TypeOK, Solvers
  <2>2. QED
    BY <2>1 DEF StartBatch, Inv, SoundInv, LearnedFollow
<1>7. QED
  BY <1>3, <1>4, <1>5, <1>6 DEF SoundInv

\* A cached disjunct is counted once.
LEMMA CachedSound == Inv /\ Cached => SoundInv'
<1> SUFFICES ASSUME Inv, Cached PROVE SoundInv'
  OBVIOUS
<1> USE DEF request, solvers, prefs, answer
<1>1. PICK k \in members : Cached!2!(k)
  BY DEF Cached
<1>2. JobInv' /\ ScopeInv' /\ BatchInv' /\ ConsideredInv' /\ AnswerInv' /\ ResidentIsAsserted'
  BY <1>1 DEF Inv, SoundInv, Cached, JobInv, ScopeInv, BatchInv, ConsideredInv, AnswerInv,
     ResidentIsAsserted, Working, InSolver
<1>3. CountInv'
  <2>1. Processed' = Processed \cup {k} /\ k \notin Processed
    BY <1>1 DEF Cached, Inv, TypeOK, SoundInv, JobInv, Processed
  <2>2. IsFiniteSet(Processed)
    BY GoalType, FS_Subset DEF Inv, TypeOK, Processed
  <2>3. Cardinality(Processed') = Cardinality(Processed) + 1 /\ Cardinality(Processed) \in Nat
    BY <2>1, <2>2, FS_AddElement, FS_CardinalityType
  <2>4. QED
    BY <2>3 DEF Cached, Inv, TypeOK, SoundInv, CountInv
<1>4. LearnedFollow' /\ VerdictSound'
  BY FactsKept, VerdictKept DEF Inv, TypeOK, SoundInv, Cached
<1>5. QED
  BY <1>2, <1>3, <1>4 DEF SoundInv

\* A disjunct starts with no open scope and with what the batch holds.
LEMMA StartDisjunctSound == Inv /\ StartDisjunct => SoundInv'
<1> SUFFICES ASSUME Inv, StartDisjunct PROVE SoundInv'
  OBVIOUS
<1> USE DEF batching, request, solvers, tally, prefs, answer
<1>1. PICK k \in members : StartDisjunct!2!(k)
  BY DEF StartDisjunct
<1>2. JobInv' /\ AnswerInv'
  BY <1>1 DEF Inv, SoundInv, StartDisjunct, JobInv, AnswerInv, Working, Enabled, Order
<1>3. ScopeInv' /\ BatchInv'
  BY <1>1 DEF Inv, SoundInv, StartDisjunct, ScopeInv, BatchInv, Working, InSolver, Solvers
<1>4. ConsideredInv'
  BY <1>1 DEF Inv, TypeOK, SoundInv, StartDisjunct, ConsideredInv, BatchInv, Held, Solver, SolverOf
<1>5. CountInv' /\ LearnedFollow' /\ VerdictSound' /\ ResidentIsAsserted'
  BY <1>1, CountKept, FactsKept, VerdictKept
     DEF Inv, TypeOK, SoundInv, StartDisjunct, ResidentIsAsserted
<1>6. QED
  BY <1>2, <1>3, <1>4, <1>5 DEF SoundInv

\* A strategy outside the resident solver refutes only what the context refutes.
LEMMA OneShotSound == Inv /\ (TryPreferred \/ Fallback) => SoundInv'
<1> SUFFICES ASSUME Inv, TryPreferred \/ Fallback PROVE SoundInv'
  OBVIOUS
<1> USE DEF batching, request, solvers, tally, prefs, answer
<1>1. /\ pc \in {"prefer", "fallback"}
      /\ pc' \in {"refuted", "solve", "fallback", "inconclusive"}
      /\ pc' = "solve" => pc = "prefer"
      /\ pc' \in {"fallback", "inconclusive"} => pc = "fallback"
      /\ job'.k = job.k /\ job'.rung = job.rung /\ job'.considered = job.considered
      /\ job'.preempt = job.preempt
      /\ UNCHANGED <<batching, solvers, tally, answer>>
  BY DEF TryPreferred, Fallback, Inv, TypeOK, Jobs
<1>2. D' = D /\ Solver' = Solver /\ Extra(job.rung)' = Extra(job.rung)
  BY <1>1, SameJob
<1>3. JobInv' /\ BatchInv'
  BY <1>1 DEF Inv, SoundInv, JobInv, BatchInv, Working
<1>4. ScopeInv' /\ ConsideredInv'
  BY <1>1, <1>2 DEF Inv, SoundInv, ScopeInv, ConsideredInv, Working, InSolver, Held
<1>5. AnswerInv'
  <2>1. pc' = "refuted" => CtxModels \cap Sem[D] = {}
    BY OneShotRefutes DEF TryPreferred, Fallback
  <2>2. QED
    BY <1>1, <1>2, <2>1 DEF Inv, SoundInv, AnswerInv
<1>6. CountInv' /\ LearnedFollow' /\ VerdictSound' /\ ResidentIsAsserted'
  BY <1>1, CountKept, FactsKept, VerdictKept DEF Inv, TypeOK, SoundInv, ResidentIsAsserted
<1>7. QED
  BY <1>3, <1>4, <1>5, <1>6 DEF SoundInv

\* The disjunct is pushed together with the conjuncts its rung adds.
LEMMA SolveSound == Inv /\ Solve => SoundInv'
<1> SUFFICES ASSUME Inv, Solve PROVE SoundInv'
  OBVIOUS
<1> USE DEF batching, request, tally, prefs, answer
<1> DEFINE pushed == Extra(job.rung) \cup {D}
           models == Models(asserted[Solver] \cup scope[Solver] \cup pushed, learned[Solver])
<1>1. /\ pc = "solve" /\ pc' \in {"refuted", "fallback", "validated", "model"}
      /\ job'.k = job.k /\ job'.rung = job.rung /\ job'.considered = job.considered
      /\ scope' = [scope EXCEPT ![Solver] = @ \cup pushed]
      /\ UNCHANGED <<batching, resident, asserted, learned, tally, answer>>
  BY DEF Solve, SolverAnswers, Inv, TypeOK, Jobs
<1>2. /\ pc' = "refuted" => models = {}
      /\ pc' \in {"validated", "model"} => job'.model \in models
      /\ pc' = "validated" => job.rung = "full"
  BY DEF Solve, SolverAnswers, Inv, TypeOK, Jobs
<1>3. D' = D /\ Solver' = Solver /\ Extra(job.rung)' = Extra(job.rung)
  BY <1>1, SameJob
<1>4. /\ Solver \in Solvers /\ asserted[Solver] \subseteq Ctx
      /\ scope[Solver] \subseteq Ctx \cup {D} /\ Extra(job.rung) \subseteq Ctx
      /\ \A f \in learned[Solver] : CtxModels \cap Sem[f] = {}
  BY <1>1, HeldIsContext DEF Working
<1>5. scope'[Solver] = scope[Solver] \cup pushed
  BY <1>1, <1>4 DEF Inv, TypeOK
<1>6. \A s \in Solvers \ {Solver} : scope'[s] = scope[s]
  BY <1>1, <1>4 DEF Inv, TypeOK
<1>7. JobInv' /\ BatchInv'
  BY <1>1 DEF Inv, SoundInv, JobInv, BatchInv, Working
<1>8. ScopeInv'
  BY <1>1, <1>3, <1>4, <1>5, <1>6 DEF Inv, SoundInv, ScopeInv, Working, InSolver
<1>9. ConsideredInv'
  BY <1>1, <1>3, <1>4, <1>5 DEF Inv, SoundInv, ConsideredInv, Working, Held
<1>10. AnswerInv'
  <2>1. pc' = "refuted" => CtxModels \cap Sem[D] = {}
    BY <1>2, <1>4, RefutationTransfers
  <2>2. pc' = "model" => job'.model \in Models(Held, learned[Solver])'
    BY <1>1, <1>2, <1>3, <1>5 DEF Held, Models
  <2>3. pc' = "validated" => job'.model \in CtxModels \cap Sem[D]
    <3>1. job.rung = "full" => Ctx \subseteq asserted[Solver]
      BY <1>1 DEF Inv, SoundInv, ConsideredInv, Working, Solver, SolverOf
    <3>2. QED
      BY <1>2, <3>1 DEF CtxModels, Models
  <2>4. QED
    BY <1>1, <1>3, <2>1, <2>2, <2>3 DEF Inv, SoundInv, AnswerInv
<1>11. CountInv' /\ LearnedFollow' /\ VerdictSound' /\ ResidentIsAsserted'
  BY <1>1, CountKept, FactsKept, VerdictKept DEF Inv, TypeOK, SoundInv, ResidentIsAsserted
<1>12. QED
  BY <1>7, <1>8, <1>9, <1>10, <1>11 DEF SoundInv

\* The conjuncts a slice model is not checked against are held.
LEMMA ConsideredHeld == Inv /\ InSolver => job.considered \subseteq Held
BY DEF Inv, SoundInv, ConsideredInv, ScopeInv, InSolver, Working, Held

\* A model that passes validation is a model of the context.
LEMMA ValidateSound == Inv /\ Validate => SoundInv'
<1> SUFFICES ASSUME Inv, Validate PROVE SoundInv'
  OBVIOUS
<1> USE DEF batching, request, tally, prefs, answer
<1> DEFINE known == VarsOf(Held \cup learned[Solver]) \cap Scalars
           omitted == Ctx \ job.considered
           Added(F) == /\ scope' = [scope EXCEPT ![Solver] = @ \cup F]
                       /\ job' = [job EXCEPT !.considered = @ \cup F]
                       /\ pc' = "resolve"
           Kept == /\ pc' \in {"validated", "inconclusive"}
                   /\ pc' = "validated" => \A i \in omitted : TrueUnder(i, job.model, known)
                   /\ UNCHANGED <<scope, job>>
<1>1. pc = "model" /\ UNCHANGED <<batching, resident, asserted, learned, tally, answer>>
  BY DEF Validate
<1>2. (\E F \in SUBSET Ctx : Added(F)) \/ Kept
  BY DEF Validate, Confirmed
<1>3. /\ Solver \in Solvers /\ asserted[Solver] \subseteq Ctx
      /\ scope[Solver] \subseteq Ctx \cup {D} /\ Extra(job.rung) \subseteq Ctx
  BY <1>1, HeldIsContext DEF Working
<1>4. CASE \E F \in SUBSET Ctx : Added(F)
  <2>1. PICK F \in SUBSET Ctx : Added(F)
    BY <1>4
  <2>2. /\ job'.k = job.k /\ job'.rung = job.rung /\ job'.considered = job.considered \cup F
    BY <2>1 DEF Inv, TypeOK, Jobs
  <2>3. D' = D /\ Solver' = Solver /\ Extra(job.rung)' = Extra(job.rung)
    BY <1>1, <2>2, SameJob
  <2>4. scope'[Solver] = scope[Solver] \cup F
    BY <1>3, <2>1 DEF Inv, TypeOK
  <2>5. \A s \in Solvers \ {Solver} : scope'[s] = scope[s]
    BY <1>3, <2>1 DEF Inv, TypeOK
  <2>6. JobInv' /\ BatchInv' /\ AnswerInv'
    BY <1>1, <2>1, <2>2 DEF Inv, SoundInv, JobInv, BatchInv, AnswerInv, Working
  <2>7. ScopeInv'
    BY <1>1, <1>3, <2>1, <2>3, <2>4, <2>5 DEF Inv, SoundInv, ScopeInv, Working, InSolver
  <2>8. ConsideredInv'
    BY <1>1, <2>1, <2>2, <2>3, <2>4 DEF Inv, SoundInv, ConsideredInv, Working, Held
  <2>9. CountInv' /\ LearnedFollow' /\ VerdictSound' /\ ResidentIsAsserted'
    BY <1>1, <2>1, CountKept, FactsKept, VerdictKept
       DEF Inv, TypeOK, SoundInv, ResidentIsAsserted
  <2>10. QED
    BY <2>6, <2>7, <2>8, <2>9 DEF SoundInv
<1>5. CASE Kept
  <2>1. D' = D /\ Solver' = Solver /\ Extra(job.rung)' = Extra(job.rung)
    BY <1>1, <1>5, SameJob
  <2>2. JobInv' /\ BatchInv'
    BY <1>1, <1>5 DEF Inv, SoundInv, JobInv, BatchInv, Working
  <2>3. ScopeInv' /\ ConsideredInv'
    BY <1>1, <1>5, <2>1 DEF Inv, SoundInv, ScopeInv, ConsideredInv, Working, InSolver, Held
  <2>4. AnswerInv'
    <3>1. job.model \in Models(Held, learned[Solver]) /\ job.model \in Asg
      BY <1>1 DEF Inv, SoundInv, AnswerInv, Models
    <3>2. D \in Held /\ job.considered \subseteq Held
      BY <1>1, ConsideredHeld DEF Inv, SoundInv, ScopeInv, InSolver, Held
    <3>3. pc' = "validated" => \A i \in Ctx \ job.considered : job.model \in Sem[i]
      BY <1>5, <3>1, TrueUnderHolds
    <3>4. pc' = "validated" => job.model \in CtxModels \cap Sem[D]
      BY <3>1, <3>2, <3>3 DEF CtxModels, Models
    <3>5. QED
      BY <1>1, <1>5, <2>1, <3>4 DEF Inv, SoundInv, AnswerInv
  <2>5. CountInv' /\ LearnedFollow' /\ VerdictSound' /\ ResidentIsAsserted'
    BY <1>1, <1>5, CountKept, FactsKept, VerdictKept
       DEF Inv, TypeOK, SoundInv, ResidentIsAsserted
  <2>6. QED
    BY <2>2, <2>3, <2>4, <2>5 DEF SoundInv
<1>6. QED
  BY <1>2, <1>4, <1>5

\* Solving again with the falsified conjuncts is as sound as solving once.
LEMMA ResolveSound == Inv /\ Resolve => SoundInv'
<1> SUFFICES ASSUME Inv, Resolve PROVE SoundInv'
  OBVIOUS
<1> USE DEF batching, request, solvers, tally, prefs, answer
<1>1. /\ pc = "resolve" /\ pc' \in {"refuted", "inconclusive", "model"}
      /\ job'.k = job.k /\ job'.rung = job.rung /\ job'.considered = job.considered
      /\ pc' = "refuted" => Models(Held, learned[Solver]) = {}
      /\ pc' = "model" => job'.model \in Models(Held, learned[Solver])
      /\ UNCHANGED <<batching, solvers, tally, answer>>
  BY DEF Resolve, Inv, TypeOK, Jobs
<1>2. D' = D /\ Solver' = Solver /\ Extra(job.rung)' = Extra(job.rung)
  BY <1>1, SameJob
<1>3. JobInv' /\ BatchInv'
  BY <1>1 DEF Inv, SoundInv, JobInv, BatchInv, Working
<1>4. ScopeInv' /\ ConsideredInv'
  BY <1>1, <1>2 DEF Inv, SoundInv, ScopeInv, ConsideredInv, Working, InSolver, Held
<1>5. AnswerInv'
  <2>1. Held \subseteq Ctx \cup {D} /\ \A f \in learned[Solver] : CtxModels \cap Sem[f] = {}
    BY <1>1, HeldIsContext DEF Held, Working
  <2>2. pc' = "refuted" => CtxModels \cap Sem[D] = {}
    BY <1>1, <2>1, RefutationTransfers
  <2>3. QED
    BY <1>1, <1>2, <2>2 DEF Inv, SoundInv, AnswerInv, Held
<1>6. CountInv' /\ LearnedFollow' /\ VerdictSound' /\ ResidentIsAsserted'
  BY <1>1, CountKept, FactsKept, VerdictKept DEF Inv, TypeOK, SoundInv, ResidentIsAsserted
<1>7. QED
  BY <1>3, <1>4, <1>5, <1>6 DEF SoundInv

\* Giving up a rung, a broken pipe and the closing of the solvers claim nothing.
LEMMA StopSound ==
  Inv /\ (CegarExhausted \/ SolverDies \/ Close \/ UNCHANGED vars) => SoundInv'
<1> USE DEF batching, request, solvers, tally, prefs, answer
<1>1. ASSUME Inv, CegarExhausted PROVE SoundInv'
  <2>1. JobInv' /\ ScopeInv' /\ BatchInv' /\ ConsideredInv' /\ AnswerInv'
    BY <1>1 DEF CegarExhausted, Inv, SoundInv, JobInv, ScopeInv, BatchInv, ConsideredInv,
       AnswerInv, Working, InSolver, Held, Solver, D, Extra
  <2>2. CountInv' /\ LearnedFollow' /\ VerdictSound' /\ ResidentIsAsserted'
    BY <1>1, CountKept, FactsKept, VerdictKept
       DEF CegarExhausted, Inv, TypeOK, SoundInv, ResidentIsAsserted
  <2>3. QED
    BY <2>1, <2>2 DEF SoundInv
<1>2. ASSUME Inv, SolverDies PROVE SoundInv'
  <2>1. JobInv' /\ ScopeInv' /\ BatchInv' /\ ConsideredInv' /\ AnswerInv'
    BY <1>2 DEF SolverDies, Inv, SoundInv, JobInv, ScopeInv, BatchInv, ConsideredInv,
       AnswerInv, Working, InSolver
  <2>2. CountInv' /\ LearnedFollow' /\ ResidentIsAsserted'
    BY <1>2, CountKept, FactsKept DEF SolverDies, Working, Inv, TypeOK, SoundInv, ResidentIsAsserted
  <2>3. VerdictSound'
    BY <1>2 DEF SolverDies, VerdictSound
  <2>4. QED
    BY <2>1, <2>2, <2>3 DEF SoundInv
<1>3. ASSUME Inv, Close PROVE SoundInv'
  <2>1. JobInv' /\ ScopeInv' /\ BatchInv' /\ ConsideredInv' /\ AnswerInv' /\ ResidentIsAsserted'
    BY <1>3 DEF Close, Inv, SoundInv, JobInv, ScopeInv, BatchInv, ConsideredInv,
       AnswerInv, ResidentIsAsserted, Working, InSolver
  <2>2. CountInv' /\ VerdictSound'
    BY <1>3, CountKept, VerdictKept DEF Close, Inv, SoundInv
  <2>3. LearnedFollow'
    BY <1>3 DEF Close, Inv, SoundInv, LearnedFollow
  <2>4. QED
    BY <2>1, <2>2, <2>3 DEF SoundInv
<1>4. ASSUME Inv, UNCHANGED vars PROVE SoundInv'
  <2>1. JobInv' /\ ScopeInv' /\ BatchInv' /\ ConsideredInv' /\ AnswerInv' /\ ResidentIsAsserted'
    BY <1>4 DEF vars, Inv, SoundInv, JobInv, ScopeInv, BatchInv, ConsideredInv,
       AnswerInv, ResidentIsAsserted, Working, InSolver, Held, Solver, D, Extra
  <2>2. CountInv'
    BY <1>4 DEF vars, Inv, SoundInv, CountInv, Processed
  <2>3. LearnedFollow' /\ VerdictSound'
    BY <1>4, FactsKept, VerdictKept DEF vars, Inv, TypeOK, SoundInv
  <2>4. QED
    BY <2>1, <2>2, <2>3 DEF SoundInv
<1>5. QED
  BY <1>1, <1>2, <1>3, <1>4

\* After the pop no solver has an open scope.
LEMMA PopCloses ==
  ASSUME Inv, Working, Popped
  PROVE  \A s \in Solvers : scope'[s] = {}
<1>1. Solver \in Solvers /\ \A s \in Solvers \ {Solver} : scope[s] = {}
  BY HeldIsContext DEF Inv, SoundInv, ScopeInv
<1>2. QED
  BY <1>1 DEF Popped, Inv, TypeOK

\* A higher rung starts with its own conjuncts held and the lower scope popped.
LEMMA EscalateSound == Inv /\ Escalate => SoundInv'
<1> SUFFICES ASSUME Inv, Escalate PROVE SoundInv'
  OBVIOUS
<1> USE DEF batching, request, tally, prefs, answer
<1>1. /\ pc = "inconclusive" /\ pc' = "solve" /\ Working
      /\ job'.k = job.k
      /\ UNCHANGED <<batching, resident, learned, tally, answer>>
  BY DEF Escalate, NextRung, Inv, TypeOK, Jobs, Working
<1>2. \/ /\ job'.rung = "escalated" /\ job.rung = "arith"
         /\ job'.considered = slice \cup MemIndices
         /\ asserted' = [asserted EXCEPT !["mem"] = MemIndices]
      \/ /\ job'.rung = "full" /\ job'.considered = Ctx
         /\ asserted' = [asserted EXCEPT !["full"] = Ctx]
  BY DEF Escalate, NextRung, Inv, TypeOK, Jobs
<1>3. \A s \in Solvers : scope'[s] = {}
  BY <1>1, PopCloses DEF Escalate, NextRung
<1>4. JobInv' /\ ScopeInv' /\ AnswerInv'
  BY <1>1, <1>3 DEF Inv, SoundInv, JobInv, ScopeInv, AnswerInv, Working, InSolver
<1>5. BatchInv'
  <2>1. rung = "mem" => asserted'["mem"] = asserted["mem"]
    BY <1>1, <1>2 DEF Inv, TypeOK, SoundInv, ConsideredInv, Solvers
  <2>2. asserted'["grow"] = asserted["grow"]
    BY <1>2 DEF Inv, TypeOK, Solvers
  <2>3. QED
    BY <1>1, <2>1, <2>2 DEF Inv, TypeOK, SoundInv, BatchInv, SolverOf
<1>6. ConsideredInv'
  <2>1. CASE job'.rung = "escalated"
    <3>1. asserted'["mem"] = MemIndices
      BY <1>2, <2>1 DEF Inv, TypeOK, Solvers
    <3>2. QED
      BY <1>1, <1>2, <2>1, <3>1 DEF ConsideredInv, Held, Solver, SolverOf, Extra
  <2>2. CASE job'.rung = "full"
    <3>1. asserted'["full"] = Ctx
      BY <1>2, <2>2 DEF Inv, TypeOK, Solvers
    <3>2. QED
      BY <1>1, <1>2, <2>2, <3>1 DEF ConsideredInv, Held, Solver, SolverOf, Extra
  <2>3. QED
    BY <1>2, <2>1, <2>2
<1>7. ResidentIsAsserted'
  BY <1>1, <1>2 DEF Inv, TypeOK, SoundInv, ResidentIsAsserted, Solvers
<1>8. CountInv' /\ LearnedFollow' /\ VerdictSound'
  BY <1>1, CountKept, FactsKept, VerdictKept DEF Inv, TypeOK, SoundInv
<1>9. QED
  BY <1>4, <1>5, <1>6, <1>7, <1>8 DEF SoundInv

\* A refuted disjunct goes to the cache and its negation to the solver of the
\* batch: both follow from the context.
LEMMA SettleRefutedSound == Inv /\ SettleRefuted => SoundInv'
<1> SUFFICES ASSUME Inv, SettleRefuted PROVE SoundInv'
  OBVIOUS
<1> USE DEF request, answer
<1>1. pc = "refuted" /\ pc' = "next" /\ Working
  BY DEF SettleRefuted, Working
<1>2. D \in Formulas /\ job.k \in members /\ job.k \in DOMAIN disjuncts
  BY <1>1, WorkedDisjunctTyped DEF Inv, SoundInv, JobInv
<1>3. \A s \in Solvers : scope'[s] = {}
  BY <1>1, PopCloses DEF SettleRefuted
<1>4. CtxModels \cap Sem[D] = {}
  BY <1>1 DEF Inv, SoundInv, AnswerInv
<1>5. JobInv' /\ ScopeInv' /\ BatchInv' /\ ConsideredInv' /\ AnswerInv'
  BY <1>1, <1>3 DEF SettleRefuted, Inv, SoundInv, JobInv, ScopeInv, BatchInv, ConsideredInv,
     AnswerInv, Working, InSolver
<1>6. ResidentIsAsserted' /\ VerdictSound'
  BY <1>1, VerdictKept DEF SettleRefuted, Inv, SoundInv, ResidentIsAsserted
<1>7. LearnedFollow'
  BY <1>2, <1>4 DEF SettleRefuted, Inv, TypeOK, SoundInv, LearnedFollow
<1>8. CountInv'
  <2>1. Processed \cup {job.k} \subseteq Processed' /\ job.k \notin Processed
    BY <1>2 DEF SettleRefuted, Inv, SoundInv, JobInv, Processed, D
  <2>2. IsFiniteSet(Processed) /\ IsFiniteSet(Processed')
    BY GoalType, FS_Subset DEF SettleRefuted, Inv, TypeOK, Processed
  <2>3. /\ Cardinality(Processed) + 1 <= Cardinality(Processed')
        /\ Cardinality(Processed) \in Nat /\ Cardinality(Processed') \in Nat
    BY <2>1, <2>2, FS_AddElement, FS_Subset, FS_CardinalityType
  <2>4. QED
    BY <1>1, <2>3 DEF SettleRefuted, Inv, TypeOK, SoundInv, CountInv
<1>9. QED
  BY <1>5, <1>6, <1>7, <1>8 DEF SoundInv

\* "sat" is reported with the validated model.
LEMMA SettleSatSound == Inv /\ SettleSat => SoundInv'
<1> SUFFICES ASSUME Inv, SettleSat PROVE SoundInv'
  OBVIOUS
<1> USE DEF batching, request, tally
<1>1. JobInv' /\ ScopeInv' /\ BatchInv' /\ ConsideredInv' /\ AnswerInv'
  BY DEF SettleSat, Inv, SoundInv, JobInv, ScopeInv, BatchInv, ConsideredInv, AnswerInv,
     Working, InSolver
<1>2. CountInv' /\ LearnedFollow' /\ ResidentIsAsserted'
  BY CountKept, FactsKept DEF SettleSat, Inv, TypeOK, SoundInv, ResidentIsAsserted
<1>3. VerdictSound'
  <2>1. job.k \in DOMAIN disjuncts
    BY WorkedDisjunctTyped DEF SettleSat, Inv, SoundInv, Working
  <2>2. job.model \in CtxModels \cap Sem[disjuncts[job.k]]
    BY DEF SettleSat, Inv, SoundInv, AnswerInv, D
  <2>3. QED
    BY <2>1, <2>2 DEF SettleSat, VerdictSound, ScriptModels
<1>4. QED
  BY <1>1, <1>2, <1>3 DEF SoundInv

\* An undecided disjunct is recorded without being counted as refuted.
LEMMA SettleUnknownSound == Inv /\ SettleUnknown => SoundInv'
<1> SUFFICES ASSUME Inv, SettleUnknown PROVE SoundInv'
  OBVIOUS
<1> USE DEF request
<1>1. /\ pc = "inconclusive" /\ Working /\ pc' \in {"next", "close"}
      /\ members' \subseteq members
      /\ pc' = "close" => result' = "unknown"
      /\ pc' = "next" => UNCHANGED result
  BY DEF SettleUnknown, Working
<1>2. \A s \in Solvers : scope'[s] = {}
  BY <1>1, PopCloses DEF SettleUnknown
<1>3. JobInv' /\ ScopeInv' /\ BatchInv' /\ ConsideredInv' /\ AnswerInv'
  BY <1>1, <1>2 DEF SettleUnknown, Inv, SoundInv, JobInv, ScopeInv, BatchInv, ConsideredInv,
     AnswerInv, Working, InSolver
<1>4. LearnedFollow' /\ ResidentIsAsserted'
  BY <1>1, FactsKept DEF SettleUnknown, Inv, TypeOK, SoundInv, ResidentIsAsserted
<1>5. VerdictSound'
  BY <1>1 DEF SettleUnknown, Inv, SoundInv, AnswerInv, VerdictSound
<1>6. CountInv'
  <2>1. Processed \subseteq Processed'
    BY <1>1 DEF SettleUnknown, Processed
  <2>2. IsFiniteSet(Processed')
    BY GoalType, FS_Subset DEF SettleUnknown, Inv, TypeOK, Processed
  <2>3. /\ Cardinality(Processed) <= Cardinality(Processed')
        /\ Cardinality(Processed) \in Nat /\ Cardinality(Processed') \in Nat
    BY <2>1, <2>2, FS_Subset, FS_CardinalityType
  <2>4. QED
    BY <1>1, <2>3 DEF SettleUnknown, Inv, TypeOK, SoundInv, CountInv
<1>7. QED
  BY <1>3, <1>4, <1>5, <1>6 DEF SoundInv

\* "unsat" is safe: as many disjuncts were counted as there are, so all of
\* them are in the cache, and the cache holds refuted formulas only.
LEMMA FinishSound == Inv /\ Finish => SoundInv'
<1> SUFFICES ASSUME Inv, Finish PROVE SoundInv'
  OBVIOUS
<1> USE DEF batching, request, solvers, tally, prefs
<1>1. JobInv' /\ ScopeInv' /\ BatchInv' /\ ConsideredInv' /\ AnswerInv'
  BY DEF Finish, Final, Inv, SoundInv, JobInv, ScopeInv, BatchInv, ConsideredInv, AnswerInv,
     Working, InSolver
<1>2. CountInv' /\ LearnedFollow' /\ ResidentIsAsserted'
  BY CountKept, FactsKept DEF Finish, Final, Inv, TypeOK, SoundInv, ResidentIsAsserted
<1>3. VerdictSound'
  <2>1. SUFFICES ASSUME result' = "unsat" PROVE ScriptModels = {}
    BY DEF Finish, Final, VerdictSound, ScriptModels
  <2>2. nRefuted = Len(disjuncts) /\ nRefuted <= Cardinality(Processed)
    BY <2>1 DEF Finish, Final, Inv, SoundInv, CountInv
  <2>3. Processed \subseteq DOMAIN disjuncts
    BY DEF Processed
  <2>4. Processed = DOMAIN disjuncts
    BY <2>2, <2>3, GoalType, FS_Subset, FS_CardinalityType DEF Inv, TypeOK
  <2>5. \A k \in DOMAIN disjuncts : CtxModels \cap Sem[disjuncts[k]] = {}
    BY <2>4 DEF Processed, Inv, SoundInv, LearnedFollow
  <2>6. QED
    BY <2>5 DEF ScriptModels
<1>4. QED
  BY <1>1, <1>2, <1>3 DEF SoundInv

-----------------------------------------------------------------------------
\* The invariant is inductive.
LEMMA InvInductive == Inv /\ [Next]_vars => Inv'
<1> SUFFICES ASSUME Inv, [Next]_vars PROVE Inv'
  OBVIOUS
<1>1. TypeOK'
  BY TypeStep DEF Inv, SoundInv
<1>2. SoundInv'
  BY SplitSound, StartBatchSound, CachedSound, StartDisjunctSound, OneShotSound, SolveSound,
     ValidateSound, ResolveSound, StopSound, EscalateSound, SettleRefutedSound, SettleSatSound,
     SettleUnknownSound, FinishSound DEF Next
<1>3. QED
  BY <1>1, <1>2 DEF Inv

\* The inductive invariant holds in every state of the sliced check.
THEOREM AlwaysInv == Spec => []Inv
BY InitSound, InvInductive, PTL DEF Spec

\* Every variable keeps its type: solvers hold parts of the context, learned
\* facts and cached refutations are formulas of the goal.
THEOREM TypeCorrect == Spec => []TypeOK
<1>1. Inv => TypeOK
  BY DEF Inv
<1>2. QED
  BY <1>1, AlwaysInv, PTL

\* Soundness of check_smt_script_sliced: "unsat" only if the whole script has
\* no model, "sat" only with a model of the whole script, for every context,
\* goal, boundary, budget and configuration, whatever the solvers answer.
THEOREM SlicedSound == Spec => []VerdictSound
<1>1. Inv => VerdictSound
  BY DEF Inv, SoundInv
<1>2. QED
  BY <1>1, AlwaysInv, PTL

\* What the growing solver holds beyond a restart, and what the cache and the
\* learned negations say, follows from the context in every state.
THEOREM LearnedFactsFollow == Spec => []LearnedFollow
<1>1. Inv => LearnedFollow
  BY DEF Inv, SoundInv
<1>2. QED
  BY <1>1, AlwaysInv, PTL

\* The checker's books agree with its solvers: the resident set, the conjuncts
\* a model is not validated against, and the closed scopes between disjuncts.
THEOREM BooksMatch == Spec => []BookkeepingMatchesSolvers
<1>1. Inv => BookkeepingMatchesSolvers
  <2> SUFFICES ASSUME Inv PROVE BookkeepingMatchesSolvers
    OBVIOUS
  <2>1. ConsideredIsHeld
    BY ConsideredHeld DEF ConsideredIsHeld, InSolver
  <2>2. ResidentIsAsserted /\ ScopesClosed
    BY DEF Inv, SoundInv, ScopeInv, ScopesClosed
  <2>3. QED
    BY <2>1, <2>2 DEF BookkeepingMatchesSolvers
<1>2. QED
  BY <1>1, AlwaysInv, PTL

-----------------------------------------------------------------------------
\* Budgets: the count of disjuncts, the pollution of the growing solver, and
\* the toll of wrong preferences.

\* A miss that makes the misses of a class dominate disables the class.
LEMMA LearnKeepsToll ==
  ASSUME NEW r \in Routers, \A x \in Classes \ r.disabled : ~Dominated(r.hits[x], r.misses[x]),
         NEW c, NEW via, NEW routed, NEW hit,
         NEW x \in Classes \ Learn(r, c, via, routed, hit).disabled
  PROVE  ~Dominated(Learn(r, c, via, routed, hit).hits[x], Learn(r, c, via, routed, hit).misses[x])
<1> DEFINE s == Learn(r, c, via, routed, hit)
<1>1. /\ r.hits \in [Classes -> Nat] /\ r.misses \in [Classes -> Nat]
      /\ DOMAIN r = {"pref", "hits", "misses", "disabled"}
  BY DEF Routers
<1>2. CASE c \notin Classes \/ ~routed
  BY <1>1, <1>2 DEF Learn
<1>3. CASE c \in Classes /\ routed /\ hit
  <2>1. s.hits = [r.hits EXCEPT ![c] = @ + 1] /\ s.misses = r.misses /\ s.disabled = r.disabled
    BY <1>1, <1>3 DEF Learn
  <2>2. ~Dominated(r.hits[x], r.misses[x])
    BY <2>1
  <2>3. s.hits[x] \in {r.hits[x], r.hits[x] + 1} /\ r.hits[x] \in Nat /\ r.misses[x] \in Nat
    BY <1>1, <2>1
  <2>4. QED
    BY <2>1, <2>2, <2>3, RouterAssumption DEF Dominated
<1>4. CASE c \in Classes /\ routed /\ ~hit
  <2> DEFINE misses == [r.misses EXCEPT ![c] = @ + 1]
  <2>1. s.hits = r.hits /\ s.misses = misses /\ s.disabled = Disabled(r, c, misses[c])
    BY <1>1, <1>4 DEF Learn
  <2>2. CASE x = c
    BY <2>1, <2>2 DEF Disabled
  <2>3. CASE x # c
    <3>1. misses[x] = r.misses[x] /\ x \notin r.disabled
      BY <1>1, <2>1, <2>3 DEF Disabled
    <3>2. QED
      BY <2>1, <3>1
  <2>4. QED
    BY <2>2, <2>3
<1>5. QED
  BY <1>2, <1>3, <1>4

\* A step that settles a disjunct keeps the toll bounded.
LEMMA SettleKeepsToll ==
  ASSUME TypeOK, TollBounded, LearnPreference
  PROVE  TollBounded'
<1>1. CASE ~Routing
  BY <1>1 DEF LearnPreference, TollBounded
<1>2. CASE Routing
  <2>1. PICK routed, hit : router' = Learn(router, Class[D], job.via, routed, hit)
    BY <1>2 DEF LearnPreference
  <2>2. QED
    BY <2>1, LearnKeepsToll DEF TypeOK, TollBounded
<1>3. QED
  BY <1>1, <1>2

\* What is left of the goal is finite.
LEMMA LeftIsFinite ==
  ASSUME TypeOK
  PROVE  /\ IsFiniteSet(todo) /\ IsFiniteSet(members)
         /\ Cardinality(todo) \in Nat /\ Cardinality(members) \in Nat
BY GoalType, FS_Subset, FS_CardinalityType DEF TypeOK

\* The parts of a finite set add up.
LEMMA PartsAddUp ==
  ASSUME NEW S, NEW T, IsFiniteSet(S), IsFiniteSet(T), S \cap T = {}
  PROVE  /\ Cardinality(S) \in Nat /\ Cardinality(T) \in Nat
         /\ Cardinality(S) + Cardinality(T) = Cardinality(S \cup T)
<1>1. /\ Cardinality(S) \in Nat /\ Cardinality(T) \in Nat /\ Cardinality(S \cap T) = 0
      /\ Cardinality(S \cup T) = Cardinality(S) + Cardinality(T) - Cardinality(S \cap T)
  BY FS_Union, FS_EmptySet, FS_CardinalityType
<1>2. QED
  BY <1>1

\* A settled disjunct leaves its batch.
LEMMA OneLess ==
  ASSUME TypeOK, NEW k \in members
  PROVE  Cardinality(members \ {k}) + 1 = Cardinality(members) /\ Cardinality(members \ {k}) \in Nat
<1>1. IsFiniteSet(members) /\ IsFiniteSet(members \ {k})
  BY LeftIsFinite, FS_Subset
<1>2. (members \ {k}) \cup {k} = members
  OBVIOUS
<1>3. QED
  BY <1>1, <1>2, FS_AddElement, FS_CardinalityType

\* A batch starts below the GC threshold: it grows up to it, or it restarts
\* with its slice alone.
LEMMA GrowthBounded ==
  ASSUME resident \subseteq Ctx, NEW sl, sl \subseteq Ctx, GrowFor(sl)
  PROVE  Cardinality(resident') <= GcFactor * Cardinality(sl)
<1>1. /\ IsFiniteSet(sl) /\ IsFiniteSet(resident \cup sl)
      /\ Cardinality(sl) \in Nat /\ Cardinality(resident \cup sl) \in Nat
  BY SlicesAssumption, FS_Subset, FS_CardinalityType
<1>2. GcFactor \in Nat /\ GcFactor >= 1
  BY SlicedAssumption
<1>3. Cardinality(sl) <= GcFactor * Cardinality(sl) /\ GcFactor * Cardinality(sl) \in Nat
  <2> DEFINE n == Cardinality(sl)
  <2> HIDE DEF n
  <2>1. n \in Nat
    BY <1>1 DEF n
  <2>2. n <= GcFactor * n /\ GcFactor * n \in Nat
    BY <1>2, <2>1, Z3
  <2>3. QED
    BY <2>2 DEF n
<1>4. QED
  BY <1>1, <1>3 DEF GrowFor

\* Every step keeps the budgets.
LEMMA BudgetStep ==
  ASSUME Inv, BudgetInv, [Next]_vars
  PROVE  BudgetInv'
<1> USE DEF batching, request, solvers, tally, prefs, answer
<1>0. TypeOK /\ JobInv /\ TypeOK'
  BY InvInductive DEF Inv, SoundInv
<1>1. CASE Split
  <2>1. /\ IsFiniteSet(DOMAIN disjuncts \ Grouped) /\ IsFiniteSet(Grouped)
        /\ (DOMAIN disjuncts \ Grouped) \cup Grouped = DOMAIN disjuncts
        /\ (DOMAIN disjuncts \ Grouped) \cap Grouped = {}
    BY <1>0, GoalType, FS_Subset DEF TypeOK, Grouped
  <2>2. /\ Cardinality(DOMAIN disjuncts \ Grouped) + Cardinality(Grouped) = Len(disjuncts)
        /\ Cardinality(DOMAIN disjuncts \ Grouped) \in Nat /\ Cardinality(Grouped) \in Nat
    <3>1. Cardinality(DOMAIN disjuncts) = Len(disjuncts)
      BY <1>0, GoalType DEF TypeOK
    <3>2. QED
      BY <2>1, <3>1, PartsAddUp
  <2>3. members' = {} /\ recorded' = 0 /\ todo' = Grouped /\ slice' = {} /\ pc' = "next"
    BY <1>0, <1>1 DEF Split, BudgetInv, JobInv
  <2>4. nRefuted' + recorded' + Cardinality(todo') + Cardinality(members') = Len(disjuncts')
    BY <1>1, <2>2, <2>3, FS_EmptySet DEF Split
  <2>5. ResidentBounded' /\ TollBounded'
    BY <1>1, <2>3 DEF Split, BudgetInv, ResidentBounded, TollBounded
  <2>6. QED
    BY <2>3, <2>4, <2>5 DEF BudgetInv
<1>2. CASE StartBatch
  <2>1. PICK k \in todo : StartBatch!2!(k)
    BY <1>2 DEF StartBatch
  <2>2. /\ pc = "next" /\ pc' = "next" /\ members = {}
        /\ UNCHANGED <<disjuncts, collect, nRefuted, recorded, router>>
    BY <1>2 DEF StartBatch
  <2>3. Cardinality(todo') + Cardinality(members') = Cardinality(todo)
    <3>1. todo' \cup members' = todo /\ todo' \cap members' = {}
      BY <2>1
    <3>2. IsFiniteSet(todo') /\ IsFiniteSet(members')
      BY <1>0, <3>1, LeftIsFinite, FS_Subset
    <3>3. QED
      BY <3>1, <3>2, PartsAddUp
  <2>4. /\ Cardinality(todo') \in Nat /\ Cardinality(members') \in Nat
        /\ Cardinality(todo) \in Nat /\ Cardinality(members) = 0
    BY <1>0, <2>2, LeftIsFinite, FS_EmptySet, FS_CardinalityType, <2>1, FS_Subset
  <2>5. collect'.cap < 0
          => nRefuted' + recorded' + Cardinality(todo') + Cardinality(members') = Len(disjuncts')
    <3>1. nRefuted \in Nat /\ recorded \in Nat
      BY <1>0 DEF TypeOK
    <3>2. collect.cap < 0
            => nRefuted + recorded + Cardinality(todo) + Cardinality(members) = Len(disjuncts)
      BY <2>2 DEF BudgetInv
    <3>3. QED
      BY <2>2, <2>3, <2>4, <3>1, <3>2
  <2>6. ResidentBounded'
    BY <1>0, <2>1, GrowthBounded, SlicesInCtx DEF ResidentBounded, TypeOK
  <2>7. TollBounded'
    BY <2>2 DEF BudgetInv, TollBounded
  <2>8. QED
    BY <2>2, <2>5, <2>6, <2>7 DEF BudgetInv
<1>3. CASE Cached \/ SettleRefuted
  <2>1. PICK k \in members : members' = members \ {k}
    BY <1>0, <1>3 DEF Cached, SettleRefuted, JobInv, Working
  <2>2. /\ pc \notin {"split", "close", "done"} /\ pc' = "next" /\ nRefuted' = nRefuted + 1
        /\ UNCHANGED <<disjuncts, collect, recorded, todo, slice, rung, resident>>
    BY <1>3 DEF Cached, SettleRefuted
  <2>3. Cardinality(members') + 1 = Cardinality(members) /\ Cardinality(members') \in Nat
    BY <1>0, <2>1, OneLess
  <2>4. collect'.cap < 0
          => nRefuted' + recorded' + Cardinality(todo') + Cardinality(members') = Len(disjuncts')
    <3>1. nRefuted \in Nat /\ recorded \in Nat
      BY <1>0 DEF TypeOK
    <3>2. collect.cap < 0
            => nRefuted + recorded + Cardinality(todo) + Cardinality(members) = Len(disjuncts)
      BY <2>2 DEF BudgetInv
    <3>3. QED
      BY <1>0, <2>2, <2>3, <3>1, <3>2, LeftIsFinite
  <2>5. TollBounded'
    BY <1>0, <1>3, SettleKeepsToll DEF BudgetInv, Cached, SettleRefuted, TollBounded
  <2>6. QED
    BY <2>2, <2>4, <2>5 DEF BudgetInv, ResidentBounded
<1>4. CASE SettleUnknown
  <2>1. /\ pc = "inconclusive" /\ job.k \in members /\ pc' \in {"next", "close"}
        /\ UNCHANGED <<disjuncts, collect, nRefuted, todo, slice, rung, resident>>
    BY <1>0, <1>4 DEF SettleUnknown, JobInv, Working
  <2>2. pc' = "next" /\ collect.cap < 0 => recorded' = recorded + 1 /\ members' = members \ {job.k}
    BY <1>4 DEF SettleUnknown
  <2>3. Cardinality(members \ {job.k}) + 1 = Cardinality(members) /\ Cardinality(members \ {job.k}) \in Nat
    BY <1>0, <2>1, OneLess
  <2>4. pc' = "next" /\ collect'.cap < 0
          => nRefuted' + recorded' + Cardinality(todo') + Cardinality(members') = Len(disjuncts')
    <3>1. nRefuted \in Nat /\ recorded \in Nat
      BY <1>0 DEF TypeOK
    <3>2. collect.cap < 0
            => nRefuted + recorded + Cardinality(todo) + Cardinality(members) = Len(disjuncts)
      BY <2>1 DEF BudgetInv
    <3>3. Cardinality(todo) \in Nat /\ Cardinality(members) \in Nat
      BY <1>0, LeftIsFinite
    <3>4. SUFFICES ASSUME pc' = "next", collect.cap < 0
                   PROVE  nRefuted + (recorded + 1) + Cardinality(todo) + Cardinality(members \ {job.k})
                            = Len(disjuncts)
      BY <2>1, <2>2
    <3>5. QED
      BY <2>3, <3>1, <3>2, <3>3, <3>4
  <2>5. TollBounded'
    BY <1>0, <1>4, SettleKeepsToll DEF BudgetInv, SettleUnknown
  <2>6. QED
    BY <2>1, <2>4, <2>5 DEF BudgetInv, ResidentBounded
<1>5. CASE SettleSat
  <2>1. TollBounded'
    BY <1>0, <1>5, SettleKeepsToll DEF BudgetInv, SettleSat
  <2>2. QED
    BY <1>5, <2>1 DEF BudgetInv, ResidentBounded, SettleSat
<1>6. CASE \/ StartDisjunct \/ TryPreferred \/ Solve \/ Fallback \/ Validate \/ Resolve
           \/ CegarExhausted \/ SolverDies \/ Escalate \/ Finish \/ Close \/ UNCHANGED vars
  <2>1. /\ UNCHANGED <<disjuncts, collect, nRefuted, recorded, todo, members, slice, rung, resident, router>>
        /\ pc = "split" => pc' = pc
        /\ pc' = "split" => pc = "split"
        /\ pc \in {"close", "done"} => pc' \in {"close", "done"}
    BY <1>6 DEF StartDisjunct, TryPreferred, Solve, SolverAnswers, Fallback, Validate, Resolve,
       CegarExhausted, SolverDies, Working, Escalate, Finish, Close, vars
  <2>2. QED
    BY <2>1 DEF BudgetInv, ResidentBounded, TollBounded
<1>7. QED
  BY <1>1, <1>2, <1>3, <1>4, <1>5, <1>6 DEF Next

\* The budgets hold in every state of the sliced check.
LEMMA BudgetsHold == Spec => []BudgetInv
<1>1. Init => BudgetInv
  BY RouterAssumption DEF Init, BudgetInv, ResidentBounded, TollBounded, NewRouter, Dominated
<1>2. Inv /\ BudgetInv /\ [Next]_vars => BudgetInv'
  BY BudgetStep
<1>3. QED
  BY <1>1, <1>2, AlwaysInv, PTL DEF Spec

\* Batching, the verdict cache and the collection of unknowns account for every
\* index of the goal, whatever the solvers answer: none is skipped, none is
\* counted twice.
THEOREM NoDisjunctLost == Spec => []EveryDisjunctAccounted
<1>1. BudgetInv => EveryDisjunctAccounted
  BY DEF BudgetInv, EveryDisjunctAccounted
<1>2. QED
  BY <1>1, BudgetsHold, PTL

\* The growing solver never holds more than GcFactor times the slice of the
\* arithmetic batch that runs on it, for any order and size of the batches.
THEOREM PollutionBounded == Spec => []ResidentBounded
<1>1. BudgetInv => ResidentBounded
  BY DEF BudgetInv
<1>2. QED
  BY <1>1, BudgetsHold, PTL

\* A class whose misses dominate is disabled in the step in which they do.
THEOREM RouterTollBounded == Spec => []TollBounded
<1>1. BudgetInv => TollBounded
  BY DEF BudgetInv
<1>2. QED
  BY <1>1, BudgetsHold, PTL

-----------------------------------------------------------------------------
\* The check comes to an end.

\* How far it is: with the goal, with the disjunct at hand (its rung), and on
\* that rung.
Stage == CASE pc = "split" -> 0 [] pc = "close" -> 2 [] pc = "done" -> 3 [] OTHER -> 1
Level == IF pc = "next" THEN 0
         ELSE CASE job.rung = "full" -> 3 [] job.rung = "escalated" -> 2 [] OTHER -> 1
Phase == CASE pc = "prefer" -> 0 [] pc = "solve" -> 1 [] pc = "fallback" -> 2
           [] pc \in {"model", "resolve"} -> 3 [] OTHER -> 4
\* The answers of the solver that the refinement of a model still waits for.
Rounds == 2 * (CegarIters - job.round) + (IF pc = "model" THEN 1 ELSE 0)
RoundsInv == job.round \in 0..CegarIters /\ (pc = "resolve" => job.round < CegarIters)

Shrinks(S, T) == S \subseteq T /\ S # T
\* A step ends a stage, takes up a batch, disposes of a disjunct, climbs the
\* ladder, gets further on a rung, uses up a strategy, or spends an answer.
Progress ==
  \/ Stage' > Stage
  \/ Stage' = Stage /\ Shrinks(todo', todo)
  \/ Stage' = Stage /\ todo' = todo /\ Shrinks(members', members)
  \/ /\ Stage' = Stage /\ todo' = todo /\ members' = members
     /\ \/ Level' > Level
        \/ Level' = Level /\ Phase' > Phase
        \/ Level' = Level /\ Phase' = Phase /\ Shrinks(Untried', Untried)
        \/ Level' = Level /\ Phase' = Phase /\ Untried' = Untried /\ Rounds' < Rounds

\* All that Progress counts is bounded, so there is no endless descent.
EffortIsFinite ==
  /\ Stage \in 0..3 /\ Level \in 0..3 /\ Phase \in 0..4 /\ Rounds \in Nat
  /\ IsFiniteSet(todo) /\ IsFiniteSet(members) /\ IsFiniteSet(Untried)

LEMMA WorkIsFinite == Inv /\ RoundsInv => EffortIsFinite
<1> SUFFICES ASSUME Inv, RoundsInv PROVE EffortIsFinite
  OBVIOUS
<1>1. Stage \in 0..3 /\ Level \in 0..3 /\ Phase \in 0..4
  BY DEF Stage, Level, Phase
<1>2. Rounds \in Nat
  BY SlicedAssumption DEF RoundsInv, Rounds
<1>3. IsFiniteSet(todo) /\ IsFiniteSet(members)
  BY GoalType, FS_Subset DEF Inv, TypeOK
<1>4. IsFiniteSet(Untried)
  <2>1. IsFiniteSet({"closed"} \cup {"closed_int"} \cup {"tactic"})
    BY FS_EmptySet, FS_AddElement, FS_Union, FS_Singleton
  <2>2. Enabled \subseteq {"closed"} \cup {"closed_int"} \cup {"tactic"}
    BY EnabledStrategies DEF Enabled, Order
  <2>3. QED
    BY <2>1, <2>2, FS_Subset DEF Untried
<1>5. QED
  BY <1>1, <1>2, <1>3, <1>4 DEF EffortIsFinite

LEMMA StepProgresses == Inv /\ RoundsInv /\ Next => Progress /\ RoundsInv'
<1> SUFFICES ASSUME Inv, RoundsInv, Next PROVE Progress /\ RoundsInv'
  OBVIOUS
<1> USE SlicedAssumption
<1>1. CASE Split \/ Finish \/ Close \/ SolverDies \/ SettleSat
  <2>1. /\ job' = job /\ pc' # "resolve"
        /\ \/ pc = "split" /\ pc' = "next"
           \/ pc \notin {"split", "close", "done"} /\ pc' = "close"
           \/ pc = "close" /\ pc' = "done"
    BY <1>1 DEF Split, Finish, Close, SolverDies, SettleSat, Working
  <2>2. Stage' > Stage
    BY <2>1 DEF Stage
  <2>3. QED
    BY <2>1, <2>2 DEF Progress, RoundsInv
<1>2. CASE StartBatch
  <2>1. PICK k \in todo : IsFirst(k, todo) /\ todo' = {j \in todo : ~SameBatch(j, k)}
    BY <1>2 DEF StartBatch
  <2>2. SameBatch(k, k)
    BY DEF SameBatch
  <2>3. Shrinks(todo', todo)
    BY <2>1, <2>2 DEF Shrinks
  <2>4. QED
    BY <1>2, <2>3 DEF StartBatch, Progress, Stage, RoundsInv
<1>3. CASE Cached
  <2>1. Shrinks(members', members)
    BY <1>3 DEF Cached, Shrinks
  <2>2. QED
    BY <1>3, <2>1 DEF Cached, Progress, Stage, RoundsInv
<1>4. CASE StartDisjunct
  <2>1. /\ pc = "next" /\ pc' \in {"prefer", "solve"} /\ todo' = todo /\ members' = members
        /\ job'.round = 0
    BY <1>4 DEF StartDisjunct, batching
  <2>2. Stage' = Stage
    BY <2>1 DEF Stage
  <2>3. Level = 0 /\ Level' \in {1, 2, 3}
    BY <2>1 DEF Level
  <2>4. RoundsInv'
    BY <2>1 DEF RoundsInv
  <2>5. QED
    BY <2>1, <2>2, <2>3, <2>4 DEF Progress
<1>5. CASE TryPreferred
  <2>1. /\ pc = "prefer" /\ pc' \in {"refuted", "solve"} /\ todo' = todo /\ members' = members
        /\ job'.round = job.round /\ job'.rung = job.rung
    BY <1>5 DEF TryPreferred, batching, Inv, TypeOK, Jobs
  <2>2. QED
    BY <2>1 DEF Progress, Stage, Level, Phase, RoundsInv
<1>6. CASE Solve
  <2>1. /\ pc = "solve" /\ pc' \in {"refuted", "fallback", "validated", "model"}
        /\ todo' = todo /\ members' = members
        /\ job'.round = job.round /\ job'.rung = job.rung
    BY <1>6 DEF Solve, SolverAnswers, batching, Inv, TypeOK, Jobs
  <2>2. QED
    BY <2>1 DEF Progress, Stage, Level, Phase, RoundsInv
<1>7. CASE Fallback
  <2>1. PICK st \in Untried :
          \/ pc' = "refuted" /\ job' = [job EXCEPT !.via = st]
          \/ /\ job' = [job EXCEPT !.tried = @ \cup {st}]
             /\ pc' = IF Untried = {st} THEN "inconclusive" ELSE "fallback"
    BY <1>7 DEF Fallback
  <2>2. /\ pc = "fallback" /\ todo' = todo /\ members' = members
        /\ job'.round = job.round /\ job'.rung = job.rung
    BY <1>7, <2>1 DEF Fallback, batching, Inv, TypeOK, Jobs
  <2>3. CASE pc' \in {"refuted", "inconclusive"}
    BY <2>2, <2>3 DEF Progress, Stage, Level, Phase, RoundsInv
  <2>4. CASE pc' = "fallback"
    <3>1. job'.tried = job.tried \cup {st}
      BY <2>1, <2>4 DEF Inv, TypeOK, Jobs
    <3>2. Shrinks(Untried', Untried)
      BY <3>1 DEF Shrinks, Untried, Enabled
    <3>3. QED
      BY <2>2, <2>4, <3>2 DEF Progress, Stage, Level, Phase, RoundsInv
  <2>5. QED
    BY <2>1, <2>3, <2>4
<1>8. CASE Validate
  <2>1. /\ pc = "model" /\ job.round < CegarIters /\ pc' \in {"resolve", "validated", "inconclusive"}
        /\ todo' = todo /\ members' = members
        /\ job'.round = job.round /\ job'.rung = job.rung /\ job'.tried = job.tried
    BY <1>8 DEF Validate, batching, Inv, TypeOK, Jobs
  <2>2. Untried' = Untried
    BY <2>1 DEF Untried, Enabled
  <2>3. CASE pc' = "resolve"
    BY <2>1, <2>2, <2>3 DEF Progress, Stage, Level, Phase, Rounds, RoundsInv
  <2>4. CASE pc' # "resolve"
    BY <2>1, <2>4 DEF Progress, Stage, Level, Phase, RoundsInv
  <2>5. QED
    BY <2>3, <2>4
<1>9. CASE Resolve
  <2>1. /\ pc = "resolve" /\ todo' = todo /\ members' = members
        /\ job'.rung = job.rung /\ job'.tried = job.tried
        /\ \/ pc' \in {"refuted", "inconclusive"} /\ job'.round = job.round
           \/ pc' = "model" /\ job'.round = job.round + 1
    BY <1>9 DEF Resolve, batching, Inv, TypeOK, Jobs
  <2>2. Untried' = Untried
    BY <2>1 DEF Untried, Enabled
  <2>3. CASE pc' = "model"
    BY <2>1, <2>2, <2>3 DEF Progress, Stage, Level, Phase, Rounds, RoundsInv
  <2>4. CASE pc' # "model"
    BY <2>1, <2>4 DEF Progress, Stage, Level, Phase, RoundsInv
  <2>5. QED
    BY <2>3, <2>4
<1>10. CASE CegarExhausted
  BY <1>10 DEF CegarExhausted, batching, Progress, Stage, Level, Phase, RoundsInv
<1>11. CASE Escalate
  <2>1. /\ pc = "inconclusive" /\ pc' = "solve" /\ todo' = todo /\ members' = members
        /\ job.rung # "full" /\ job'.rung = NextRung /\ job'.round = 0
    BY <1>11 DEF Escalate, batching, Inv, TypeOK, Jobs
  <2>2. NextRung = "full" \/ (NextRung = "escalated" /\ job.rung = "arith")
    BY DEF NextRung
  <2>3. Level' > Level
    BY <2>1, <2>2 DEF Level
  <2>4. QED
    BY <2>1, <2>3 DEF Progress, Stage, RoundsInv
<1>12. CASE SettleRefuted
  <2>1. job.k \in members
    BY <1>12 DEF SettleRefuted, Inv, SoundInv, JobInv, Working
  <2>2. Shrinks(members', members)
    BY <1>12, <2>1 DEF SettleRefuted, Shrinks
  <2>3. QED
    BY <1>12, <2>2 DEF SettleRefuted, Progress, Stage, RoundsInv
<1>13. CASE SettleUnknown
  <2>1. job.k \in members
    BY <1>13 DEF SettleUnknown, Inv, SoundInv, JobInv, Working
  <2>2. pc' = "close" \/ (pc' = "next" /\ Shrinks(members', members))
    BY <1>13, <2>1 DEF SettleUnknown, Shrinks
  <2>3. QED
    BY <1>13, <2>2 DEF SettleUnknown, Progress, Stage, RoundsInv
<1>14. QED
  BY <1>1, <1>2, <1>3, <1>4, <1>5, <1>6, <1>7, <1>8, <1>9, <1>10, <1>11, <1>12, <1>13 DEF Next

\* Whatever the solvers answer, every step of the check counts: in each state
\* what is left to do is finite, and each step leaves less of it.
THEOREM NoStepInVain ==
  Spec => []EffortIsFinite /\ [][Progress]_vars
<1>1. Init => RoundsInv
  BY SlicedAssumption DEF Init, RoundsInv
<1>2. Inv /\ RoundsInv /\ [Next]_vars => RoundsInv'
  BY StepProgresses DEF RoundsInv, vars
<1>3. Inv /\ RoundsInv /\ [Next]_vars => [Progress]_vars
  BY StepProgresses
<1>4. QED
  BY <1>1, <1>2, <1>3, AlwaysInv, WorkIsFinite, PTL DEF Spec

-----------------------------------------------------------------------------
\* Refinement of the abstract verdict.

\* A check that has not answered is pending for the abstract verdict.
LEMMA InitAnswers == Init => V!Init
<1> SUFFICES ASSUME Init PROVE V!Init
  OBVIOUS
<1>1. ScriptModels \in SUBSET Asg
  BY DEF ScriptModels, CtxModels, Models
<1>2. QED
  BY <1>1 DEF Init, V!Init, Answered

\* Every step of the sliced check answers soundly or leaves the answer alone.
LEMMA StepAnswersOnce == Inv /\ Inv' /\ [Next]_vars => [V!Next]_(V!vars)
<1> SUFFICES ASSUME Inv, Inv', [Next]_vars PROVE [V!Next]_(V!vars)
  OBVIOUS
<1> USE DEF batching, request, solvers, tally, prefs, answer
<1>1. disjuncts' = disjuncts
  BY DEF Next, vars, Split, StartBatch, Cached, StartDisjunct, TryPreferred, Solve, Fallback,
     Validate, Resolve, CegarExhausted, SolverDies, Escalate, SettleRefuted, SettleSat,
     SettleUnknown, Finish, Close
<1>2. ScriptModels' = ScriptModels
  BY <1>1 DEF ScriptModels
<1>3. CASE UNCHANGED <<result, witness>>
  BY <1>2, <1>3 DEF V!vars, Answered
<1>4. CASE SolverDies \/ SettleUnknown
  <2>1. /\ result = "none" /\ witness = NoWitness /\ witness' = witness
        /\ result' \in {"none", "unknown", "error-broken-pipe"}
    BY <1>4 DEF Inv, SoundInv, AnswerInv, SolverDies, SettleUnknown, Working
  <2>2. CASE result' = "none"
    BY <1>3, <2>1, <2>2
  <2>3. CASE result' # "none"
    <3>1. V!AnswerUnknown
      BY <1>2, <2>1, <2>3 DEF V!AnswerUnknown, V!Answer, Answered
    <3>2. QED
      BY <3>1 DEF V!Next
  <2>4. QED
    BY <2>2, <2>3
<1>5. CASE SettleSat
  <2>1. result = "none" /\ result' = "sat"
    BY <1>5 DEF Inv, SoundInv, AnswerInv, SettleSat
  <2>2. witness' \in ScriptModels
    BY <1>2, <2>1 DEF Inv, SoundInv, VerdictSound
  <2>3. V!AnswerSat
    BY <1>2, <2>1, <2>2 DEF V!AnswerSat, V!Answer, Answered
  <2>4. QED
    BY <2>3 DEF V!Next
<1>6. CASE Finish
  <2>1. /\ result = "none" /\ witness = NoWitness /\ witness' = witness
        /\ result' \in {"unsat", "unknown", "assertion-error"}
    BY <1>6 DEF Inv, SoundInv, AnswerInv, Finish, Final
  <2>2. result' = "unsat" => ScriptModels = {}
    BY <1>2 DEF Inv, SoundInv, VerdictSound
  <2>3. V!AnswerUnsat \/ V!AnswerUnknown
    BY <1>2, <2>1, <2>2 DEF V!AnswerUnsat, V!AnswerUnknown, V!Answer, Answered
  <2>4. QED
    BY <2>3 DEF V!Next
<1>7. QED
  BY <1>3, <1>4, <1>5, <1>6
  DEF Next, vars, Split, StartBatch, Cached, StartDisjunct, TryPreferred, Solve, Fallback,
      Validate, Resolve, CegarExhausted, Escalate, SettleRefuted, Close

\* The sliced checker implements the abstract verdict: it answers once, only
\* as the script allows, and never revises its answer.
THEOREM SlicedImplementsVerdict == Spec => ImplementsVerdict
<1>1. Init => V!Init
  BY InitAnswers
<1>2. Inv /\ Inv' /\ [Next]_vars => [V!Next]_(V!vars)
  BY StepAnswersOnce
<1>3. QED
  BY <1>1, <1>2, AlwaysInv, PTL DEF Spec, ImplementsVerdict, V!Spec

=============================================================================
