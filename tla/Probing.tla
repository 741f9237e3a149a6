------------------------------ MODULE Probing ------------------------------
(***************************************************************************)
(* Two passes that add or take away what an assertion fixes: lift replaces *)
(* a quantified variable by the term its pin gives it, or makes it a free  *)
(* one; domain_probe asks a solver which values of a small domain are      *)
(* possible and asserts the one that is left. A probe may go unanswered.   *)
(***************************************************************************)
EXTENDS NormalForms

(* lift_forall.py: a pin is a disjunct (not (= q e)) under a forall that   *)
(* binds q, where e mentions no variable that is still bound.              *)
IsPinLike(d) == Is(d, "not") /\ Is(d[2], "=")
_match_lift_pair(d, qvars) ==
  LET Of(i) == IF IsSym(d[2][i]) /\ d[2][i][2] \in qvars /\ FreeVars(d[2][5 - i]) \cap qvars = {}
               THEN <<<<d[2][i][2], d[2][5 - i], d>>>> ELSE <<>>
  IN  IF IsPinLike(d) THEN Of(2) \o Of(3) ELSE <<>>
\* The pins in the order they are found: one can free the term of another.
RECURSIVE Pins(_, _)
Pins(disjuncts, qvars) ==
  LET First(p) == <<p>> \o Pins(SelectSeq(disjuncts, LAMBDA d : d # p[3]), qvars \ {p[1]})
      Of(found) == IF found = <<>> THEN <<>> ELSE First(found[1])
  IN  Of(FlattenSeq(Each(LAMBDA d : _match_lift_pair(d, qvars), disjuncts)))
ForallPins(t) == IF Is(t[3], "or") THEN Pins(Tail(t[3]), ToSet(t[2])) ELSE <<>>
PinMap(pins) == [q \in {p[1] : p \in ToSet(pins)} |-> (CHOOSE p \in ToSet(pins) : p[1] = q)[2]]
RECURSIVE _resolve_chain(_)
_resolve_chain(m) ==
  LET Again(next) == IF next = m THEN m ELSE _resolve_chain(next) IN Again([q \in DOMAIN m |-> Subst(m[q], m)])

\* What is left of the forall: the other disjuncts, under the other variables.
Quantified(qvars, body) == IF qvars = <<>> THEN body ELSE <<"forall", qvars, body>>
Remaining(t, pins) ==
  LET Of(rest) == IF rest = <<>> THEN Truth(FALSE) ELSE Or(rest)
  IN  Of(SelectSeq(Tail(t[3]), LAMBDA d : d \notin {p[3] : p \in ToSet(pins)}))
NamesOf(pins) == {p[1] : p \in ToSet(pins)}
\* Mutant: a lifted variable stays bound.
LiftForallStaysBound(t, substitute) ==
  IF Is(t[3], "or") THEN <<"forall", t[2], Remaining(t, ForallPins(t))>> ELSE t
LiftForallWalker(t, substitute) ==
  LET In(body, pins) == IF substitute THEN Subst(body, _resolve_chain(PinMap(pins))) ELSE body
      Lifted(pins) == Quantified(SelectSeq(t[2], LAMBDA q : q \notin NamesOf(pins)), In(Remaining(t, pins), pins))
  IN  IF Is(t[3], "or") THEN Lifted(ForallPins(t)) ELSE t
\* The outermost foralls of a formula; what is below a quantifier stays.
RECURSIVE AtForalls(_, _), Foralls(_)
AtForalls(F(_), t) == IF IsQuantifier(t) THEN (IF t[1] = "forall" THEN F(t) ELSE t)
                      ELSE MapKids(LAMBDA a : AtForalls(F, a), t)
Foralls(t) == IF IsQuantifier(t) THEN (IF t[1] = "forall" THEN {t} ELSE {})
              ELSE UNION {Foralls(t[i]) : i \in Kids(t)}
AllPins(asserts) ==
  FlattenSeq(Each(ForallPins, Listed(UNION {Foralls(asserts[i]) : i \in DOMAIN asserts})))
simplify_lift_forall(s, substitute) ==
  LET walked == Each(LAMBDA a : AtForalls(LAMBDA t : LiftForallWalker(t, substitute), a), s.asserts)
      pins == AllPins(s.asserts)
  IN  IF substitute THEN Script(s.names, walked)
      ELSE Script(s.names \o Each(LAMBDA p : p[1], pins), Each(LAMBDA p : p[3][2], pins) \o walked)

(* lift.rs: a variable the body no longer mentions is dropped as well, a   *)
(* name is lifted out of one forall only, and a pin is put in place of its *)
(* name in every assertion.                                                *)
process_forall(t, gone) ==
  LET Left(pins, body) == Quantified(SelectSeq(t[2], LAMBDA q : q \notin NamesOf(pins) /\ q \in FreeVars(body)), body)
      Lifted(pins) == [pins |-> pins, term |-> IF pins = <<>> THEN t ELSE Left(pins, Remaining(t, pins))]
  IN  Lifted(SelectSeq(ForallPins(t), LAMBDA p : p[1] \notin gone))
lift_apply(s, substitute) ==
  LET Step(acc, t, r) == [pins |-> acc.pins \o r.pins, terms |-> (t :> r.term) @@ acc.terms]
      Done == FoldLeft(LAMBDA acc, t : Step(acc, t, process_forall(t, NamesOf(acc.pins))),
                       [pins |-> <<>>, terms |-> <<>>], Listed(UNION {Foralls(s.asserts[i]) : i \in DOMAIN s.asserts}))
      Result(pins, walked) ==
        IF substitute THEN Script(s.names, SubstAll(walked, _resolve_chain(PinMap(pins))))
        ELSE Script(s.names \o Each(LAMBDA p : p[1], pins), Each(LAMBDA p : Eq(Sym(p[1]), p[2]), pins) \o walked)
      With(done) == Result(done.pins, Each(LAMBDA a : AtForalls(LAMBDA t : done.terms[t], a), s.asserts))
  IN  With(Done)
-----------------------------------------------------------------------------
(* domain_probe: the candidates of a symbol come from a disjunction of     *)
(* equalities, from bounds, or from the roots of a polynomial.             *)
_MAX_VALUES == 3
\* x = c: the name and the value.
SymbolIsNum(t) ==
  LET Of(sides) == IF sides = {} THEN <<>> ELSE LET i == Max(sides) IN <<t[i][2], t[5 - i][2]>>
  IN  IF Is(t, "=") THEN Of({i \in {2, 3} : IsSym(t[i]) /\ IsNum(t[5 - i])}) ELSE <<>>
_parse_or_equalities(t) ==
  LET Of(pins) == IF <<>> \notin pins /\ Cardinality({p[1] : p \in pins}) = 1 THEN pins ELSE {}
  IN  IF Is(t, "or") THEN Of({SymbolIsNum(t[i]) : i \in Kids(t)}) ELSE {}
\* Of a conjunction's disjunctions about one symbol the last one counts.
_choices_in_assertion(t) ==
  LET NameOf(pins) == {p[1] : p \in pins}
      LastOnes(parsed) == UNION {parsed[i] : i \in {k \in DOMAIN parsed : \A j \in DOMAIN parsed :
                                j > k => NameOf(parsed[j]) \cap NameOf(parsed[k]) = {}}}
  IN  IF Is(t, "and") THEN LastOnes(Each(_parse_or_equalities, Tail(t))) ELSE _parse_or_equalities(t)

\* <<x, "lo", k>> and <<x, "hi", k>>, from the inequalities that hold.
RECURSIVE _bounds_from_atom(_, _)
_bounds_from_atom(t, negated) ==
  LET a == IF negated THEN t[3] ELSE t[2]
      b == IF negated THEN t[2] ELSE t[3]
      gap == IF (t[1] = "<") # negated THEN 1 ELSE 0 IN
  CASE Is(t, "not") -> _bounds_from_atom(t[2], ~negated)
    [] Is(t, "and") /\ ~negated -> UNION {_bounds_from_atom(t[i], FALSE) : i \in Kids(t)}
    [] t[1] \in {"<=", "<"} -> (IF IsSym(a) /\ IsNum(b) THEN {<<a[2], "hi", b[2] - gap>>} ELSE {})
                               \cup (IF IsNum(a) /\ IsSym(b) THEN {<<b[2], "lo", a[2] + gap>>} ELSE {})
    [] OTHER -> {}
_bound_choices(asserts) ==
  LET Of(facts, x, end) == {f[3] : f \in {g \in facts : g[1] = x /\ g[2] = end}}
      Span(x, los, his) == IF los = {} \/ his = {} THEN {} ELSE {x} \X (Max(los)..Min(his))
      OfFacts(facts) == {Span(x, Of(facts, x, "lo"), Of(facts, x, "hi")) : x \in {f[1] : f \in facts}}
  IN  UNION {d \in OfFacts(UNION {_bounds_from_atom(asserts[i], FALSE) : i \in DOMAIN asserts}) :
                Cardinality(d) \in 2.._MAX_VALUES}

RECURSIVE IsPolynomial(_)
IsPolynomial(t) == t[1] \in {"int", "sym"}
                   \/ (t[1] \in {"+", "*", "-"} /\ \A i \in Kids(t) : IsPolynomial(t[i]))
_poly_domain(t) ==
  LET ResidueRoots(x, poly, m) == {v \in 0.._MAX_VALUES : Eval(poly, x :> v) % m = 0}
      Several(x, roots) == IF Cardinality(roots) > 1 THEN {x} \X roots ELSE {}
      Of(poly, m, vars) == IF IsPolynomial(poly) /\ Cardinality(vars) = 1
                           THEN LET x == CHOOSE y \in vars : TRUE IN Several(x, ResidueRoots(x, poly, m)) ELSE {}
      Side(u) == IF Is(u, "mod") THEN Of(u[2], u[3][2], FreeVars(u[2])) ELSE {}
  IN  IF Is(t, "=") /\ Num(0) \in {t[2], t[3]} THEN Side(IF t[2] = Num(0) THEN t[3] ELSE t[2]) ELSE {}
\* The first polynomial of a symbol counts.
_poly_choices(asserts) ==
  LET WithFirst(acc, d) == IF \E c \in d : \E e \in acc : e[1] = c[1] THEN acc ELSE acc \cup d
  IN  FoldLeft(LAMBDA acc, t : WithFirst(acc, _poly_domain(t)), {}, asserts)
_collect_choices(asserts) ==
  LET Few(all) == {c \in all : Cardinality({e \in all : e[1] = c[1]}) \in 2.._MAX_VALUES}
  IN  Few(UNION {_choices_in_assertion(asserts[i]) : i \in DOMAIN asserts}
            \cup _bound_choices(asserts) \cup _poly_choices(asserts))

\* The symbols an assertion mentions, with the functions it applies.
Mentions(t) == FreeVars(t) \cup {u[2] : u \in {v \in Subterms(t) : Is(v, "app")}}
RECURSIVE _const_pinned_in(_)
_const_pinned_in(t) == IF Is(t, "and") THEN UNION {_const_pinned_in(t[i]) : i \in Kids(t)}
                       ELSE IF SymbolIsNum(t) = <<>> THEN {} ELSE {SymbolIsNum(t)[1]}
_const_pinned(asserts) == UNION {_const_pinned_in(asserts[i]) : i \in DOMAIN asserts}
\* The choice symbols that narrow assertions connect.
RECURSIVE Grown(_, _)
Grown(set, links) ==
  LET Again(next) == IF next = set THEN set ELSE Grown(next, links)
  IN  Again(set \cup UNION {l \in links : l \cap set # {}})
_selector_components(asserts, syms, pinned) ==
  LET narrow == {Mentions(asserts[i]) : i \in DOMAIN asserts} \cap SUBSET (syms \cup pinned)
  IN  {Grown({x}, {n \cap syms : n \in narrow}) : x \in syms}
_component_slice(asserts, component, pinned) ==
  LET With(narrow, used) == narrow \o SelectSeq(asserts, LAMBDA t : /\ Mentions(t) # {} /\ Mentions(t) \subseteq used
                                                                    /\ t \notin ToSet(narrow))
      Of(narrow) == With(narrow, pinned \cap UNION {Mentions(narrow[i]) : i \in DOMAIN narrow})
  IN  Of(SelectSeq(asserts, LAMBDA t : Mentions(t) \subseteq component \cup pinned /\ Mentions(t) \cap component # {}))

\* A solver on a set of formulas; a probe in silent runs out of time.
_oneshot(formulas, key, silent) ==
  IF key \in silent THEN "unknown"
  ELSE IF \E m \in Assignments(UNION {FreeVars(f) : f \in formulas}) : \A f \in formulas : Eval(f, m)
       THEN "sat" ELSE "unsat"
Confirm == -1      \* the key of the probe that confirms a value
\* The values of one symbol, then the refutation of all but the one left.
ProbeSymbol(acc, x, values, rel, silent) ==
  LET Equals(v) == Eq(Sym(x), Num(v))
      Answered(a, v, r) == [a EXCEPT ![r] = @ \cup {v}, !.extra = @ \cup (IF r = "unsat" THEN {Not(Equals(v))} ELSE {})]
      Probe(a, v) == Answered(a, v, _oneshot(rel \cup a.extra \cup {Equals(v)}, <<x, v>>, silent))
      Confirmed(pin, extra) ==
        IF pin \in ToSet(acc.batch) \/ _oneshot(rel \cup extra \cup {Not(pin)}, <<x, Confirm>>, silent) # "unsat"
        THEN [acc EXCEPT !.extra = extra] ELSE [batch |-> Append(acc.batch, pin), extra |-> extra \cup {pin}]
      Probed(p) == IF Cardinality(p.sat) = 1 /\ Cardinality(p.unsat) = Len(values) - 1
                   THEN Confirmed(Equals(CHOOSE v \in p.sat : TRUE), p.extra) ELSE [acc EXCEPT !.extra = p.extra]
  IN  Probed(FoldLeft(Probe, [sat |-> {}, unsat |-> {}, unknown |-> {}, extra |-> acc.extra], values))
_probe_component(batch, component, choices, rel, silent) ==
  FoldLeft(LAMBDA acc, x : ProbeSymbol(acc, x, SortedList({c[2] : c \in {d \in choices : d[1] = x}}, <), rel, silent),
           [batch |-> batch, extra |-> {}], Listed(component)).batch
simplify_domain_probe(asserts, silent) ==
  LET Probe(components, choices, pinned) ==
        FoldLeft(LAMBDA batch, c : _probe_component(batch, c, choices, ToSet(_component_slice(asserts, c, pinned)), silent),
                 <<>>, SortedList(components, LAMBDA a, b : Cardinality(a) < Cardinality(b)))
      Of(choices, pinned) == Probe(_selector_components(asserts, {c[1] : c \in choices}, pinned), choices, pinned)
  IN  asserts \o Of(_collect_choices(asserts), _const_pinned(asserts))
=============================================================================
