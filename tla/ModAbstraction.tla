--------------------------- MODULE ModAbstraction ---------------------------
(***************************************************************************)
(* The mod abstraction of the "closed" strategy, the first one the sliced  *)
(* checker falls back to: every mod becomes an application of an           *)
(* uninterpreted function, and axioms that are true of mod are added for   *)
(* some of the applications.  Only a refutation of the result counts, so   *)
(* it may have more models than the script, and never fewer.               *)
(***************************************************************************)
EXTENDS Terms

CONSTANT EagerApps   \* up to how many applications get their axioms at once (4000)
ASSUME EagerAssumption == EagerApps \in Nat

umod == "umod!abs"

RECURSIVE AbstractMods(_)
AbstractMods(t) ==
  LET u == MapKids(AbstractMods, t)
  IN  IF Is(t, "mod") THEN <<"app", umod, u[2], u[3]>> ELSE u

\* The applications with a positive constant divisor, arguments rewritten.
Applied(asserts) ==
  {u \in UNION {Subterms(asserts[i]) : i \in DOMAIN asserts} :
     Is(u, "app") /\ u[2] = umod /\ IsNum(u[4]) /\ u[4][2] > 0}

\* The range of a mod, and that it changes nothing within its range.
mod_axioms(u) ==
  <<And(<<Le(Num(0), u), Lt(u, u[4])>>),
    <<"=>", And(<<Le(Num(0), u[3]), Lt(u[3], u[4])>>), Eq(u, u[3])>>>>

\* The queries of the loop. Which applications have their axioms by then
\* depends on the models the solver gave for the queries before: any of them,
\* or all at once when they are few.
ClosedQueries(script) ==
  LET rewritten == [i \in DOMAIN script.asserts |-> AbstractMods(script.asserts[i])]
      apps == Applied(rewritten)
      axiomatized == IF Cardinality(apps) <= EagerApps THEN {apps} ELSE SUBSET apps
      Query(A) == Script(Append(script.names, umod),
                         FlattenSeq([i \in 1..Cardinality(A) |-> mod_axioms(Listed(A)[i])]) \o rewritten)
  IN  {Query(A) : A \in axiomatized}
=============================================================================
