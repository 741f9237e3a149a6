----------------------------- MODULE Intervals -----------------------------
(***************************************************************************)
(* intervals and intervals2: the possible values of each integer symbol as *)
(* a union of intervals, narrowed from the assertions until nothing        *)
(* changes or the rounds are used up. Whatever is read off them (a mod     *)
(* dropped, a conjunct decided, a bound added) is right only if no value   *)
(* of a model is ever left out. The scripts given to them hold integers.   *)
(***************************************************************************)
EXTENDS Demod

(* domain.py: an interval, a union of intervals (a set in which no two     *)
(* overlap; neighbours such as 0..1 and 2..3 stay apart), and a store of   *)
(* one union for every symbol that is not unconstrained.                   *)
Far(v) == IF v > Inf \div 2 THEN Inf ELSE IF v < -(Inf \div 2) THEN -Inf ELSE v
Finite(i) == i.lo > -Inf /\ i.hi < Inf
Interval(lo, hi) == [lo |-> Far(lo), hi |-> Far(hi)]
AddI(i, j) == Interval(i.lo + j.lo, i.hi + j.hi)
\* Mutant: the ends keep their order under a negative factor.
Unswapped(i, k) == IF k = 0 THEN Const(0) ELSE Interval(k * i.lo, k * i.hi)
ScaleI(i, k) == CASE k = 0 -> Const(0)
                  [] k > 0 -> Interval(k * i.lo, k * i.hi)
                  [] OTHER -> Interval(k * i.hi, k * i.lo)
MulI(i, j) == LET Spread(ends) == [lo |-> Min(ends), hi |-> Max(ends)]
              IN  IF Finite(i) /\ Finite(j) THEN Spread({a * b : a \in {i.lo, i.hi}, b \in {j.lo, j.hi}}) ELSE Unbounded

\* Overlapping intervals become one, empty ones vanish.
IntDomain(parts) ==
  LET live == {i \in parts : i.lo <= i.hi}
      starts == {i.lo : i \in {j \in live : ~\E k \in live : k.lo < j.lo /\ j.lo <= k.hi}}
      ends == {i.hi : i \in {j \in live : ~\E k \in live : k.lo <= j.hi /\ j.hi < k.hi}}
  IN  {[lo |-> s, hi |-> Min({e \in ends : e >= s})] : s \in starts}
Top == {Unbounded}
Bottom == {}
Hull(d) == IF d = Bottom THEN [lo |-> 1, hi |-> 0]
           ELSE [lo |-> Min({i.lo : i \in d}), hi |-> Max({i.hi : i \in d})]
Meet(d, e) == IntDomain({Intersect(i, j) : i \in d, j \in e})
Add(d, e) == IntDomain({AddI(i, j) : i \in d, j \in e})
Mul(d, e) == IntDomain({MulI(i, j) : i \in d, j \in e})
Scale(d, k) == IntDomain({ScaleI(i, k) : i \in d})
Within(d, lo, hi) == d # Bottom /\ \A i \in d : lo <= i.lo /\ i.hi <= hi
Admits(d, v) == \E i \in d : i.lo <= v /\ v <= i.hi
IsSingleton(d) == Cardinality(d) = 1 /\ Hull(d).lo = Hull(d).hi
Value(d) == Hull(d).lo

DomainOf(store, x) == IF x \in DOMAIN store THEN store[x] ELSE Top
Narrow(store, x, d) ==
  LET To(merged) == IF merged = DomainOf(store, x) THEN store ELSE (x :> merged) @@ store
  IN  To(Meet(DomainOf(store, x), d))
MeetStores(store, other) == FoldSet(LAMBDA x, acc : Narrow(acc, x, other[x]), store, DOMAIN other)
Inconsistent(store) == \E x \in DOMAIN store : store[x] = Bottom
\* Up to so many rounds of a step, until one changes nothing.
RECURSIVE Rounds(_, _, _)
Rounds(Step(_), store, left) ==
  LET Again(next) == IF next = store THEN store ELSE Rounds(Step, next, left - 1)
  IN  IF left = 0 \/ Inconsistent(store) THEN store ELSE Again(Step(store))

(* helpers.py *)
Symbols(t) == {Sym(x) : x \in FreeVars(t)}
CeilDiv(a, b) == -((-a) \div b)
_is_mod_p(t) == Is(t, "mod") /\ t[3] = Num(P)
_unique_multiple_in_domain(d, m) ==
  LET Of(h) == IF Finite(h) /\ CeilDiv(h.lo, m) = h.hi \div m THEN {(h.hi \div m) * m} ELSE {}
  IN  {k \in Of(Hull(d)) : Admits(d, k)}
-----------------------------------------------------------------------------
(* reasoner.py: the values of a term, and the truth values of a formula.   *)
RECURSIVE _eval_int(_, _)
_eval_int(t, store) ==
  CASE IsNum(t) -> {Const(t[2])}
    [] IsSym(t) -> DomainOf(store, t)
    [] Is(t, "+") -> FoldLeft(LAMBDA acc, a : Add(acc, _eval_int(a, store)), {Const(0)}, Tail(t))
    [] Is(t, "-") -> Add(_eval_int(t[2], store), Scale(_eval_int(t[3], store), -1))
    [] Is(t, "*") -> FoldLeft(LAMBDA acc, a : Mul(acc, _eval_int(a, store)), {Const(1)}, Tail(t))
    [] Is(t, "mod") /\ IsNum(t[3]) /\ t[3][2] > 0 ->
         LET Reduced(inner) == IF Within(inner, 0, t[3][2] - 1) THEN inner ELSE {[lo |-> 0, hi |-> t[3][2] - 1]}
         IN  Reduced(_eval_int(t[2], store))
    [] OTHER -> Top

\* a - b as a linear form; what it leaves for one of its symbols.
Difference(a, b) == linear_form(<<"-", a, b>>)
Others(f, x, store) ==
  Hull(FoldSet(LAMBDA y, acc : Add(acc, Scale(DomainOf(store, y), f.coef[y])),
               {Const(f.const)}, Support(f) \ {x}))
_refine_affine_eq(a, b, store) ==
  LET Solution(h, c) == IF c > 0 THEN Interval(CeilDiv(-h.hi, c), (-h.lo) \div c)
                         ELSE Interval(CeilDiv(h.lo, -c), h.hi \div (-c))
      Solve(x, c, h, acc) == IF Finite(h) THEN Narrow(acc, x, {Solution(h, c)}) ELSE acc
      OfForm(f) == IF ~f.ok THEN store
                   ELSE FoldSet(LAMBDA x, acc : Solve(x, f.coef[x], Others(f, x, acc), acc), store, Support(f))
  IN  OfForm(Difference(a, b))
\* For both signs of the coefficient the least value of the rest counts.
_refine_affine_ineq(a, b, strict, store) ==
  LET top == IF strict THEN -1 ELSE 0
      Solution(h, c) == IF c > 0 THEN [lo |-> -Inf, hi |-> (top - h.lo) \div c]
                         ELSE [lo |-> CeilDiv(h.lo - top, -c), hi |-> Inf]
      Solve(x, c, h, acc) == IF h.lo > -Inf THEN Narrow(acc, x, {Solution(h, c)}) ELSE acc
      OfForm(f) == IF ~f.ok THEN store
                   ELSE FoldSet(LAMBDA x, acc : Solve(x, f.coef[x], Others(f, x, acc), acc), store, Support(f))
  IN  OfForm(Difference(a, b))

_mod_ineq_is_tautology(t) ==
  \/ _is_mod_p(t[3]) /\ t[2] = Num(0) /\ Is(t, "<=")
  \/ _is_mod_p(t[3]) /\ IsNum(t[2]) /\ t[2][2] < 0 /\ Is(t, "<")
  \/ _is_mod_p(t[2]) /\ IsNum(t[3]) /\ t[3][2] >= (IF Is(t, "<") THEN P ELSE P - 1)
_refine_from_ineq(t, store) ==
  LET Opens(a) == _is_mod_p(a) /\ Within(_eval_int(a[2], store), 0, P - 1)
      Open(a) == IF Opens(a) THEN a[2] ELSE a
      k == IF Is(t, "<") THEN 1 ELSE 0
      Above(a, b, acc) == IF IsSym(a) /\ IsNum(b) THEN Narrow(acc, a, {[lo |-> -Inf, hi |-> b[2] - k]}) ELSE acc
      Below(a, b, acc) == IF IsSym(b) /\ IsNum(a) THEN Narrow(acc, b, {[lo |-> a[2] + k, hi |-> Inf]}) ELSE acc
      Affine(a, b, acc) == IF _is_mod_p(a) \/ _is_mod_p(b) THEN acc ELSE _refine_affine_ineq(a, b, Is(t, "<"), acc)
      Sides(a, b) == Affine(a, b, Below(a, b, Above(a, b, store)))
  IN  IF t[1] \notin {"<", "<="} \/ _mod_ineq_is_tautology(t) THEN store ELSE Sides(Open(t[2]), Open(t[3]))

_refine_from_eq(t, store) ==
  LET Opens(a) == _is_mod_p(a) /\ IsSym(a[2]) /\ Within(DomainOf(store, a[2]), 0, P - 1)
      Side(a, k, acc) == IF ~IsNum(k) THEN acc
                         ELSE IF IsSym(a) THEN Narrow(acc, a, {Const(k[2])})
                         ELSE IF Opens(a) THEN Narrow(acc, a[2], {Const(k[2])}) ELSE acc
  IN  IF ~Is(t, "=") THEN store
      ELSE _refine_affine_eq(t[2], t[3], Side(t[3], t[2], Side(t[2], t[3], store)))

\* A product is zero modulo a prime only where one of its factors is; this
\* bounds a symbol only if it is the one symbol of every factor.
Roots(t, m, store) ==
  LET Of(x, forms) ==
        IF /\ \A i \in DOMAIN forms : forms[i].ok /\ Support(forms[i]) = {x} /\ forms[i].coef[x] \in {1, -1}
           /\ Within(DomainOf(store, x), 0, m - 1)
        THEN <<x, {Const((-forms[i].coef[x] * forms[i].const) % m) : i \in DOMAIN forms}>> ELSE <<>>
      OfForms(forms) == IF Support(forms[1]) = {} THEN <<>> ELSE Of(TheSymbol(forms[1]), forms)
  IN  IF Is(t, "*") THEN OfForms(Each(linear_form, Tail(t))) ELSE <<>>
_refine_from_mod_zero(t, store) ==
  LET i == IF Is(t[2], "mod") /\ t[3] = Num(0) THEN 2 ELSE 3
      Solved(inner, unique) == IF unique = {} THEN store ELSE _refine_affine_eq(inner, Num(Max(unique)), store)
      Rooted(solved, roots) == IF roots = <<>> THEN solved ELSE Narrow(solved, roots[1], roots[2])
      WithRoots(inner, m, solved) == Rooted(solved, Roots(inner, m, solved))
      Vanishes(inner, m) ==
        WithRoots(inner, m, Solved(inner, _unique_multiple_in_domain(_eval_int(inner, store), m)))
  IN  IF Is(t, "=") /\ Is(t[i], "mod") /\ t[5 - i] = Num(0) /\ IsNum(t[i][3]) /\ t[i][3][2] > 0
      THEN Vanishes(t[i][2], t[i][3][2]) ELSE store
_refine_atom(t, store) ==
  _refine_from_mod_zero(t, _refine_from_eq(t, _refine_from_ineq(t, store)))

MaxRounds == 8        \* of an atom, and of a conjunction
_propagate_atom_fixpoint(t, store) == Rounds(LAMBDA s : _refine_atom(t, s), store, MaxRounds)

\* What a formula that holds says of the store.
RECURSIVE _propagate_formula(_, _), _propagate_not(_, _)
_propagate_not(t, store) ==
  LET denied == Each(Not, Tail(t)) IN
  CASE Is(t, "and") -> _propagate_formula(Or(denied), store)
    [] Is(t, "or") -> _propagate_formula(And(denied), store)
    [] Is(t, "=>") -> _propagate_formula(And(<<t[2], Not(t[3])>>), store)
    [] Is(t, "<") -> _propagate_formula(Le(t[3], t[2]), store)
    [] Is(t, "<=") -> _propagate_formula(Lt(t[3], t[2]), store)
    [] OTHER -> store
_propagate_formula(t, store) ==
  LET Conjunct(acc, a) == IF Inconsistent(acc) THEN acc ELSE MeetStores(acc, _propagate_formula(a, acc))
      Joined(branches, x) == IntDomain(UNION {DomainOf(b, x) : b \in branches})
      Join(branches) ==
        IF branches # {} THEN FoldSet(LAMBDA x, acc : Narrow(acc, x, Joined(branches, x)), store,
                                      UNION {DOMAIN b : b \in branches})
        ELSE FoldSet(LAMBDA x, acc : Narrow(acc, x, Bottom), store, Symbols(t)) IN
  CASE Is(t, "and") -> Rounds(LAMBDA s : FoldLeft(Conjunct, s, Tail(t)), store, MaxRounds)
    [] Is(t, "or") -> Join({b \in {_propagate_formula(t[i], store) : i \in Kids(t)} : ~Inconsistent(b)})
    [] Is(t, "=>") -> _propagate_formula(Or(<<Not(t[2]), t[3]>>), store)
    [] Is(t, "not") -> _propagate_not(t[2], store)
    [] IsQuantifier(t) -> store
    [] OTHER -> _propagate_atom_fixpoint(t, store)

\* The rewriting that goes with a store, without any pruning.
RECURSIVE Rewritten(_, _)
Rewritten(t, store) ==
  LET Deeper == MapKids(LAMBDA a : Rewritten(a, store), t)
      i == IF _is_mod_p(t[2]) /\ t[3] = Num(0) THEN 2 ELSE 3
      Multiple(inner, unique) == IF unique # {} THEN Eq(inner, Num(Max(unique))) ELSE Deeper
      Vanishes(inner, values) == IF Within(values, 1 - P, P - 1) THEN Eq(inner, Num(0))
                                 ELSE Multiple(inner, _unique_multiple_in_domain(values, P)) IN
  CASE Is(t, "mod") -> IF IsNum(t[3]) /\ Within(_eval_int(t[2], store), 0, t[3][2] - 1) THEN t[2] ELSE Deeper
    [] Is(t, "=") /\ _is_mod_p(t[i]) /\ t[5 - i] = Num(0) -> Vanishes(t[i][2], _eval_int(t[i][2], store))
    [] t[1] \in {"and", "or", "=>", "not", "="} -> Deeper
    [] OTHER -> t

(* What is known of the assertions so far: the store, those that narrowed  *)
(* it, and the symbols they narrowed.                                      *)
Reasoner(store) == [env |-> store, used |-> {}, tightened |-> {}]
Assume(r, t) ==
  LET To(env) == IF env = r.env THEN r
                 ELSE [env |-> env, used |-> r.used \cup {t},
                       tightened |-> r.tightened \cup {x \in DOMAIN env : env[x] # DomainOf(r.env, x)}]
  IN  To(MeetStores(r.env, _propagate_formula(Rewritten(t, r.env), r.env)))
RECURSIVE assume_all(_, _, _)
assume_all(r, work, left) ==
  LET Again(next) == IF left = 0 \/ next.env = r.env THEN next ELSE assume_all(next, work, left - 1)
  IN  Again(FoldLeft(Assume, r, work))
InitialRounds == 10
LocalRounds == 6

\* A disjunction of negations is true where its members cannot all hold.
Tautology(t, store) ==
  /\ \A i \in Kids(t) : Is(t[i], "not")
  /\ Inconsistent(assume_all(Reasoner(store), Each(LAMBDA a : a[2], Tail(t)), LocalRounds).env)

\* The truth values a formula may take.
RECURSIVE _eval_bool(_, _)
_eval_bool(t, store) ==
  LET Kid(i) == _eval_bool(t[i], store)
      Decided(op, kids) == IF {op # "and"} \in kids THEN {op # "and"}
                           ELSE IF BOOLEAN \in kids THEN BOOLEAN ELSE {op = "and"}
      Disjunction(v) == IF v = BOOLEAN /\ Tautology(t, store) THEN {TRUE} ELSE v
      Implied(a, b) == IF a = {FALSE} \/ b = {TRUE} THEN {TRUE} ELSE IF a = {TRUE} THEN b ELSE BOOLEAN
      Equal(a, b) == IF Meet(a, b) = Bottom THEN {FALSE}
                     ELSE IF IsSingleton(a) /\ IsSingleton(b) THEN {TRUE} ELSE BOOLEAN
      Ordered(a, b, strict) == IF a.hi < b.lo \/ (~strict /\ a.hi = b.lo) THEN {TRUE}
                               ELSE IF a.lo > b.hi \/ (strict /\ a.lo = b.hi) THEN {FALSE} ELSE BOOLEAN IN
  CASE Is(t, "bool") -> {t[2]}
    [] Is(t, "not") -> {~v : v \in Kid(2)}
    [] Is(t, "and") -> Decided("and", {Kid(i) : i \in Kids(t)})
    [] Is(t, "or") -> Disjunction(Decided("or", {Kid(i) : i \in Kids(t)}))
    [] Is(t, "=>") -> Implied(Kid(2), Kid(3))
    [] Is(t, "=") -> Equal(_eval_int(t[2], store), _eval_int(t[3], store))
    [] t[1] \in {"<", "<="} -> Ordered(Hull(_eval_int(t[2], store)), Hull(_eval_int(t[3], store)), Is(t, "<"))
    [] OTHER -> BOOLEAN

\* The same rewriting, after every formula the store decides is replaced.
RECURSIVE Pruned(_, _)
Pruned(t, store) ==
  LET Rebuilt(args) ==
        IF t[1] \in {"=>", "not"} THEN <<t[1]>> \o args
        ELSE IF Truth(t[1] = "or") \in ToSet(args) THEN Truth(t[1] = "or")
        ELSE Connect(t[1], SelectSeq(args, LAMBDA a : a # Truth(t[1] = "and")))
      Undecided == IF t[1] \in {"and", "or", "=>", "not"} THEN Rebuilt(Each(LAMBDA a : Pruned(a, store), Tail(t)))
                   ELSE Rewritten(t, store)
      Decided(v) == IF v = BOOLEAN THEN Undecided ELSE Truth(TRUE \in v)
  IN  Decided(_eval_bool(t, store))
-----------------------------------------------------------------------------
(* The bounds that are written back.                                       *)
Guards(x, i) == (IF i.lo > -Inf THEN <<Le(Num(i.lo), x)>> ELSE <<>>)
                  \o (IF i.hi < Inf THEN <<Le(x, Num(i.hi))>> ELSE <<>>)
InInterval(x, i) == IF i.lo = i.hi THEN Eq(x, Num(i.lo)) ELSE And(Guards(x, i))
\* Nothing for an unconstrained symbol.
_domain_constraint(x, d) ==
  CASE d = Bottom -> <<Truth(FALSE)>>
    [] Unbounded \in d -> <<>>
    [] OTHER -> <<Or(Each(LAMBDA i : InInterval(x, i), Listed(d)))>>
Bounds(store, xs) == FlattenSeq(Each(LAMBDA x : _domain_constraint(x, DomainOf(store, x)), Listed(xs)))

inject_root_bounds(t, r) ==
  LET Joined(bounds) == IF bounds = <<>> THEN t ELSE Simplified(And(Append(bounds, t)))
  IN  Joined(Bounds(r.env, IF Symbols(t) = {} THEN r.tightened ELSE Symbols(t) \cap r.tightened))

Fresh(asserts, store) == assume_all(Reasoner(store), asserts, LocalRounds)
RECURSIVE _inject_quantifier_bounds(_, _), ConjunctionBounds(_, _)
\* A conjunction that forces one value of a symbol says so, and its members
\* are specialised to it.
ConjunctionBounds(t, inherited) ==
  LET Specialised(base, values) ==
        LET equalities == Each(LAMBDA x : Eq(Sym(x), values[x]), Listed(DOMAIN values))
            Special(a) == IF values = <<>> THEN a ELSE Simplified(Subst(a, values))
        IN  Simplified(And(Each(Special, base) \o SelectSeq(equalities, LAMBDA e : e \notin ToSet(base))))
      Fixed(local) == [x \in {y \in FreeVars(t) : IsSingleton(DomainOf(local, Sym(y)))} |-> Num(Value(local[Sym(x)]))]
      Forced(base) == Specialised(base, Fixed(Fresh(base, <<>>).env))
  IN  Forced(Each(LAMBDA a : _inject_quantifier_bounds(a, inherited), Tail(t)))
\* What is known outside guards the body, what the body says joins it.
_inject_quantifier_bounds(t, inherited) ==
  LET free == Symbols(t[3])
      Guarded(body, guard) == IF guard = <<>> \/ Is(t, "exists") THEN body ELSE <<"=>", And(guard), body>>
      Body(local) == And(Append(Bounds(local, free), _inject_quantifier_bounds(t[3], local)))
      Under(outer) == Guarded(Body(Fresh(<<t[3]>>, outer).env), Bounds(outer, DOMAIN outer)) IN
  CASE IsQuantifier(t) ->
         <<t[1], t[2], Under([x \in {y \in free \cap DOMAIN inherited : y[2] \notin ToSet(t[2])} |-> inherited[x]])>>
    [] Is(t, "and") -> ConjunctionBounds(t, inherited)
    [] Is(t, "or") /\ \A i \in Kids(t) : Is(t[i], "not") ->
         Simplified(Not(_inject_quantifier_bounds(And(Each(LAMBDA a : a[2], Tail(t))), inherited)))
    [] t[1] \in {"or", "=>", "not"} -> MapKids(LAMBDA a : _inject_quantifier_bounds(a, inherited), t)
    [] OTHER -> t

(* script.py: the two passes.                                              *)
_is_simple_atomic_bound(t) ==
  t[1] \in {"<", "<=", "="} /\ \E i \in {2, 3} : IsNum(t[i]) /\ IsSym(t[5 - i])
RECURSIVE must_retain_formula(_, _)
must_retain_formula(t, used) ==
  LET OneOf(x, k, values) == IsSym(x) /\ IsNum(k) /\ k[2] \in values IN
  \/ t \in used
  \/ Is(t, "and") /\ \E i \in Kids(t) : must_retain_formula(t[i], used)
  \/ Is(t, "<=") /\ (OneOf(t[3], t[2], {0}) \/ OneOf(t[2], t[3], {P, P - 1}))
  \/ Is(t, "<") /\ OneOf(t[2], t[3], {P, P + 1})
  \/ Is(t, "=") /\ (OneOf(t[3], t[2], {0, P}) \/ OneOf(t[2], t[3], {0, P}))

\* An assertion the bounds come from is rewritten but never decided by them.
RewriteUnder(r, t, retain) ==
  LET Bounded(kept) ==
        IF IsQuantifier(t) \/ (retain /\ _is_simple_atomic_bound(t)) THEN kept ELSE inject_root_bounds(kept, r)
  IN  Bounded(_inject_quantifier_bounds(IF retain THEN Rewritten(t, r.env) ELSE Pruned(t, r.env), r.env))
RewriteAll(r, asserts) ==
  IF Inconsistent(r.env) THEN Each(LAMBDA t : Truth(FALSE), asserts)
  ELSE Each(LAMBDA t : RewriteUnder(r, t, must_retain_formula(t, r.used)), asserts)
simplify_intervals(asserts) ==
  RewriteAll(assume_all(Reasoner(<<>>), asserts, InitialRounds), asserts)
-----------------------------------------------------------------------------
(* bounded_formula.py: a tree of the connectives, a store at every node.   *)
(* A store in which one symbol has no value is Nowhere.                    *)
Nowhere == Sym("") :> Bottom
IntVarDomains(store) == IF Inconsistent(store) THEN Nowhere
                        ELSE [x \in {y \in DOMAIN store : store[y] # Top} |-> store[x]]
Intersection(s, t) == IntVarDomains(MeetStores(s, t))
\* The join keeps only the hull, and a symbol one side leaves out is free.
Union(s, t) ==
  CASE s = Nowhere -> t
    [] t = Nowhere -> s
    [] OTHER -> IntVarDomains([x \in DOMAIN s \cup DOMAIN t |-> IntDomain({Hull(DomainOf(s, x) \cup DomainOf(t, x))})])

Connective(t) == t[1] \in {"and", "or", "not", "=>"} \/ IsQuantifier(t)
RECURSIVE BoundedFormula(_)
BoundedFormula(t) ==
  [formula |-> t, domains |-> <<>>,
   subs |-> IF ~Connective(t) THEN <<>>
            ELSE IF IsQuantifier(t) THEN <<BoundedFormula(t[3])>> ELSE Each(BoundedFormula, Tail(t))]

AtomsOf(n) == {n.subs[i].formula : i \in {j \in DOMAIN n.subs : ~Connective(n.subs[j].formula)}}
Refine(atoms, s) == FoldSet(LAMBDA a, acc : IF Inconsistent(acc) THEN acc ELSE _refine_atom(a, acc), s, atoms)
refine_domains(n, context) ==
  LET atoms == context \cup (IF Connective(n.formula) THEN {} ELSE {n.formula})
  IN  IF n.domains = Nowhere THEN n
      ELSE [n EXCEPT !.domains = IntVarDomains(Rounds(LAMBDA s : Refine(atoms, s), @, MaxRounds))]
push_down(n) ==
  [n EXCEPT !.subs = [i \in DOMAIN @ |-> [@[i] EXCEPT !.domains = Intersection(@, n.domains)]]]
lift_up(n) ==
  LET Lifted(stores) == CASE Is(n.formula, "and") -> FoldLeft(Intersection, <<>>, stores)
                          [] Is(n.formula, "or") -> FoldLeft(Union, Nowhere, stores)
                          [] OTHER -> <<>>
  IN  [n EXCEPT !.domains = Intersection(@, Lifted(Each(LAMBDA s : s.domains, n.subs)))]

RECURSIVE refine_recursive(_, _), Descend(_, _)
refine_recursive(n, context) ==
  LET Inner(m, inner) == IF n.subs = <<>> THEN m ELSE Descend(m, inner)
      Refined(inner) == Inner(refine_domains(n, inner), inner)
  IN  Refined(IF Is(n.formula, "and") THEN context \cup AtomsOf(n) ELSE context)
Descend(n, context) ==
  LET Again(next) == IF next = n THEN n ELSE Descend(next, context)
      Refined(down) == lift_up([down EXCEPT !.subs = Each(LAMBDA s : refine_recursive(s, context), @)])
  IN  IF n.domains = Nowhere THEN n ELSE Again(Refined(push_down(n)))

\* What the store of a node decides of its children.
Decide(n) ==
  LET known == IF n.domains = Nowhere THEN <<>> ELSE n.domains
      Replaced(s, v) == IF v = BOOLEAN THEN s ELSE BoundedFormula(Truth(TRUE \in v))
  IN  [n EXCEPT !.subs = Each(LAMBDA s : Replaced(s, _eval_bool(s.formula, known)), @)]

\* Every store is computed again from the conjuncts around it (not those
\* beside it), and what it decides of the children is written down.
RECURSIVE BoundedSimplify(_, _)
BoundedSimplify(n, context) ==
  LET Inner(m) == IF Is(n.formula, "and") THEN context \cup AtomsOf(m) ELSE context
      Deeper(m) == [m EXCEPT !.subs = Each(LAMBDA s : BoundedSimplify(s, Inner(m)), @)]
  IN  IF n.subs = <<>> THEN n ELSE Deeper(Decide(refine_domains([n EXCEPT !.domains = <<>>], context)))

\* Bounds that only say a symbol is a field element are left out.
RECURSIVE as_fnode(_)
as_fnode(n) ==
  LET full == {{[lo |-> 0, hi |-> P - 1]}, {[lo |-> 0, hi |-> P]}}
      told == {x \in DOMAIN n.domains \cap Symbols(n.formula) : n.domains[x] \notin full}
      bounds == IF n.domains = Nowhere THEN <<Truth(FALSE)>> ELSE Bounds(n.domains, told)
      Rebuilt(kids) ==
        CASE n.subs = <<>> -> n.formula
          [] Is(n.formula, "and") -> And(kids \o SelectSeq(bounds, LAMBDA b : b \notin ToSet(kids)))
          [] IsQuantifier(n.formula) -> <<n.formula[1], n.formula[2], kids[1]>>
          [] OTHER -> <<n.formula[1]>> \o kids
  IN  Rebuilt(Each(as_fnode, n.subs))

\* The script is one conjunction; the pass stops at any other formula.
simplify_intervals2(asserts) ==
  LET Of(tree) == IF refine_recursive(tree, {}).domains = Nowhere THEN <<Truth(FALSE)>>
                  ELSE Tail(as_fnode(BoundedSimplify(tree, {})))
  IN  Of(BoundedFormula(And(asserts)))
=============================================================================
