------------------------------- MODULE Passes -------------------------------
(***************************************************************************)
(* A pipeline of simplification passes at work on a script. Each tactic    *)
(* name runs the python pass or, where there is one, the rust pass, and    *)
(* the two may take turns: when a rust batch fails its tactics run in      *)
(* python. A verification condition is refuted on the last script, so what *)
(* a pass may never do is lose a model; what most of them may not do       *)
(* either is to add one.                                                   *)
(***************************************************************************)
EXTENDS Skolem, Eliminations, Intervals, ModAbstraction

CONSTANT Jobs   \* a sequence of records: a script, its derived equations (the
                \* skolem-pin set-infos), the pipelines to run and the ports
                \* that may be used, and whether all of its names are integers
ASSUME JobsAssumption ==
  \A j \in DOMAIN Jobs : /\ Jobs[j].ports \subseteq SUBSET {"python", "rust"}
                         /\ \A p \in Jobs[j].pipelines : Len(p) > 0

VARIABLES
  job,        \* which script this is about
  pipeline,   \* the tactics, in order
  ports,      \* the implementations at hand
  done,       \* how many tactics have run
  script,     \* what they have made of the script
  measured,   \* (history) the definitions of the differences that diff_vars has made
  taken       \* (history) the terms that demod has taken for their residues
vars == <<job, pipeline, ports, done, script, measured, taken>>

Init == /\ job \in DOMAIN Jobs
        /\ pipeline \in Jobs[job].pipelines
        /\ ports \in Jobs[job].ports
        /\ done = 0
        /\ script = Jobs[job].script
        /\ measured = {}
        /\ taken = {}

(* One tactic, on the port named.                                          *)
Turn(tactic, port) == done < Len(pipeline) /\ pipeline[done + 1] = tactic /\ port \in ports
Remade(s) == script' = s /\ done' = done + 1 /\ UNCHANGED <<job, pipeline, ports>>
Becomes(s) == Remade(s) /\ UNCHANGED <<measured, taken>>
AssertsBecome(asserts) == Becomes([script EXCEPT !.asserts = asserts])
Asserts == script.asserts
OnEach(F(_)) == AssertsBecome(Each(F, Asserts))

Nnf == \/ Turn("nnf", "python") /\ OnEach(NNFConverter)
       \/ Turn("nnf", "rust") /\ OnEach(convert_to_nnf)
Evaluator == \/ Turn("evaluator", "python") /\ OnEach(LAMBDA t : partial_evaluate(t, <<>>))
             \/ Turn("evaluator", "rust") /\ OnEach(LAMBDA t : fold_constants_fixpoint(t, 3))
\* What a symbol stands for in the given script: itself, or the difference
\* that diff_vars has defined it to be.
Given == Jobs[job].script
StandsFor(x) == IF x[2] \in ToSet(Given.names) THEN {x} ELSE {<<"-", t[2], t[3][2]>> : t \in {u \in measured : u[3][3] = x}}
Demodulated(asserts, solved) == /\ Remade([script EXCEPT !.asserts = asserts])
                                /\ taken' = taken \cup UNION {StandsFor(s[1]) : s \in solved}
                                /\ UNCHANGED measured
Demod == \/ Turn("demod", "python") /\ Demodulated(simplify_demod(Asserts), SolvedOnce(Asserts))
         \/ Turn("demod", "rust") /\ Demodulated(demod_apply(Asserts), SolvedInRounds(Asserts, MaxIters))
Normalize == LET gens == collect_variables(Asserts) IN
             \/ Turn("normalize", "python") /\ OnEach(LAMBDA t : NormalizeWalker(t, gens))
             \/ Turn("normalize", "rust") /\ OnEach(LAMBDA t : normalize_term(t, gens))
WithDifferences(d) == /\ Remade(Script(script.names \o d.names, d.asserts))
                      /\ measured' = measured \cup ToSet(SubSeq(diff_vars(Asserts).asserts, Len(Asserts) + 1, Len(d.asserts)))
                      /\ UNCHANGED taken
DiffVars == \/ Turn("diff_vars", "python") /\ WithDifferences(simplify_diff_vars(Asserts))
            \/ Turn("diff_vars", "rust") /\ WithDifferences(diff_vars(Asserts))
BoundsPass == \E port \in ports : Turn("bounds", port) /\ AssertsBecome(simplify_bounds(Asserts))
Ufnorm == \/ Turn("ufnorm", "python") /\ AssertsBecome(simplify_ufnorm(Asserts))
          \/ Turn("ufnorm", "rust") /\ AssertsBecome(ufnorm_apply(Asserts))
BitwisePass == \/ Turn("bitwise", "python") /\ AssertsBecome(simplify_bitwise(Asserts))
               \/ Turn("bitwise", "rust") /\ AssertsBecome(bitwise_apply(Asserts))
ModInvPass == \/ Turn("mod_inv", "python") /\ Becomes(simplify_mod_inv(script))
              \/ Turn("mod_inv", "rust") /\ Becomes(mod_inv_apply(script))
Rewrite == Turn("rewrite", "rust") /\ AssertsBecome(rewrite_apply(Asserts))
FactorReduce == Turn("factor_reduce", "rust") /\ AssertsBecome(factor_reduce_apply(Asserts))
\* Any one question to the solver may be left without an answer.
Questions == LET c == _collect_choices(Asserts) IN c \cup {<<d[1], Confirm>> : d \in c}
DomainProbe == \E silent \in {{}} \cup {{q} : q \in Questions} :
                 Turn("domain_probe", "python") /\ AssertsBecome(simplify_domain_probe(Asserts, silent))
IntervalsPass == Turn("intervals", "python") /\ AssertsBecome(simplify_intervals(Asserts))
Intervals2 == /\ Turn("intervals2", "python")
              /\ Len(Asserts) > 1
              /\ AssertsBecome(simplify_intervals2(Asserts))
SolveEqs == Turn("solve_eqs", "python") /\ Becomes(simplify_solve_eqs(script))
SolveStoreEqs == Turn("solve_store_eqs", "python") /\ Becomes(simplify_solve_store_eqs(script))
RewriteStoreEqs == Turn("rewrite_store_eqs", "python") /\ AssertsBecome(simplify_rewrite_store_eqs(Asserts))
FlattenOuterArray == /\ Turn("flatten_outer_array", "python")
                     /\ Survivors(simplify_flatten_outer_array(script)) = {}
                     /\ Becomes(simplify_flatten_outer_array(script))
SkolemStep == \/ Turn("skolem", "python") /\ Becomes(simplify_skolem(script, Jobs[job].equations))
              \/ Turn("skolem", "rust") /\ Becomes(skolem_apply(script, Jobs[job].equations))
\* Lifting names the pins, or puts them in place (an option of the pass).
Lift == \E substitute \in BOOLEAN :
          \/ Turn("lift", "python") /\ Becomes(simplify_lift_forall(script, substitute))
          \/ Turn("lift", "rust") /\ Becomes(lift_apply(script, substitute))
Witness == \E port \in ports : Turn("witness", port) /\ Becomes(simplify_witnesses(script))
\* The check that no quantifier is left only reports.
Isqf == \E port \in ports : Turn("isqf", port) /\ Becomes(script)

\* After the passes, the checker: a query of the closed strategy, on a script
\* (a slice of one) without quantifiers.
ClosedStrategy == \E query \in ClosedQueries(script) : Turn("closed", "python") /\ Becomes(query)

Next == \/ Nnf \/ Evaluator \/ Demod \/ Normalize \/ DiffVars \/ BoundsPass \/ Ufnorm
        \/ BitwisePass \/ ModInvPass \/ Rewrite \/ FactorReduce \/ DomainProbe
        \/ IntervalsPass \/ Intervals2 \/ SolveEqs \/ SolveStoreEqs \/ RewriteStoreEqs
        \/ FlattenOuterArray \/ SkolemStep \/ Lift \/ Witness \/ Isqf \/ ClosedStrategy
Spec == Init /\ [][Next]_vars
-----------------------------------------------------------------------------
Past == {pipeline[i] : i \in 1..done}
Original == [j \in DOMAIN Jobs |-> Models(Jobs[j].script)]
Shared == ToSet(script.names) \cap ToSet(Given.names)
\* The auxiliary columns an optimizer left without constraints: the skolem
\* pass chooses their values, and those of no others.
Constrained == UNION {FreeVars(Given.asserts[i]) : i \in DOMAIN Given.asserts}
Chosen == IF "skolem" \in Past THEN {x \in Shared \ Constrained : Naming[x].kind \in {"diff_val", "diff_marker"}} ELSE {}

\* The symbols that demod has taken for their residues are in the field: the
\* columns are, bounds asserts it of each of them; a difference of two columns,
\* say, need not be.
ResiduesInField(m) == \A t \in taken : FreeVars(t) \subseteq DOMAIN m => Eval(t, m) \in 0..P-1

\* No pass loses a model: for every model of the given script in which what
\* demod took for a residue is one, what it says of the names that are left can
\* be completed to a model of the present one. A refutation of the last script,
\* or of its abstraction by the checker, is then one of the verification
\* condition; this is what the comments of the passes call sound.
ModelsKept ==
  LET fixed == Shared \ Chosen
      others == Assignments(ToSet(script.names) \ fixed)
  IN  \A m \in Original[job] :
        ResiduesInField(m) => \E e \in others : Sat(script, e @@ [x \in fixed |-> m[x]])

\* No pass adds a model, the skolem pass excepted, whose instances of a
\* universal formula say less than the formula: a model of the present script,
\* with the same premise, is on the names they share one of the given script.
\* (Of the abstraction by the checker nobody asks that.)
NoModelAdded ==
  LET known == {[x \in Shared |-> m[x]] : m \in Original[job]}
  IN  {"skolem", "closed"} \cap Past = {} =>
        \A m \in Models(script) : ResiduesInField(m) => [x \in Shared |-> m[x]] \in known

\* Every name that occurs is declared, once, and a name that is declared is
\* not one a quantifier binds: new variables, lifted ones and eliminated ones
\* never meet a variable of the same name.
BoundNames(s) == UNION {UNION {ToSet(u[2]) : u \in {v \in Subterms(s.asserts[i]) : IsQuantifier(v)}} : i \in DOMAIN s.asserts}
Declared == /\ UNION {FreeVars(Asserts[i]) : i \in DOMAIN Asserts} \subseteq ToSet(script.names)
            /\ IsInjective(script.names)
            /\ BoundNames(script) \cap ToSet(script.names) = {}

\* Both analyses of the values of a symbol are right on every script the
\* passes make of one another's output: the intervals (after any number of
\* rounds) and the ranges demod drops mods on admit every model.
KnownBoundsHold ==
  LET env == assume_all(Reasoner(<<>>), Asserts, InitialRounds).env
      ranges == extract_symbol_ranges(Asserts)
  IN  Jobs[job].integers =>
        \A m \in Models(script) :
          /\ \A x \in DOMAIN env : Admits(env[x], m[x[2]])
          /\ \A x \in DOMAIN ranges : ranges[x].lo <= m[x[2]] /\ m[x[2]] <= ranges[x].hi

\* What the first tactics of every pipeline are for ("reduce the ForAll
\* soundness obligation to a ground formula"): where every quantified variable
\* has a counterpart of the same name or an equation, no quantifier is left
\* when isqf looks.
Counterpart(q) == \/ swap_prefix(q) \cap ToSet(Given.names) # {}
                  \/ \E e \in ToSet(Jobs[job].equations) : split_equation(e) # <<>> /\ split_equation(e)[1] = q
Grounded == (/\ {"skolem", "isqf"} \subseteq Past
             /\ \A q \in BoundNames(Given) : Counterpart(q)) => BoundNames(script) = {}
-----------------------------------------------------------------------------
\* "Any uf_mod_inv(T) that does not appear inside the pattern above is still
\* replaced with a fresh variable" (mod_inv.py): the inverses of two columns
\* stay two values, in one assertion or in two.
InversesAreFresh == "mod_inv" \in Past => ModelsKept
=============================================================================
