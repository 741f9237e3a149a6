------------------------------- MODULE Demod -------------------------------
(***************************************************************************)
(* demod: the bounds of single variables are learned from the top-level    *)
(* facts and used to drop the mods they make redundant. The python pass    *)
(* makes one round over the script, the rust pass up to eight, and each    *)
(* must leave in place the facts its eliminations rest on.                 *)
(***************************************************************************)
EXTENDS NormalForms

Inf == 1000000     \* the missing bound; sums of small terms stay below it
Unbounded == [lo |-> -Inf, hi |-> Inf]
Const(v) == [lo |-> v, hi |-> v]
Intersect(i, j) == [lo |-> IF i.lo > j.lo THEN i.lo ELSE j.lo, hi |-> IF i.hi < j.hi THEN i.hi ELSE j.hi]
\* Mutant: the modulus itself passes for a residue.
WithinModulus(i, m) == 0 <= i.lo /\ i.hi <= m
Within0P(i, m) == 0 <= i.lo /\ i.hi < m

RECURSIVE Conjuncts(_)
Conjuncts(t) == IF Is(t, "and") THEN UNION {Conjuncts(t[i]) : i \in Kids(t)} ELSE {t}

\* x = mod(x, m): the witness of the range of x; its symbol and modulus.
IsWitness(t) == Is(t, "=") /\ \E i \in {2, 3} :
                  IsSym(t[i]) /\ Is(t[5 - i], "mod") /\ t[5 - i][2] = t[i] /\ IsNum(t[5 - i][3])
WitnessSide(t) == CHOOSE i \in {2, 3} : IsSym(t[i]) /\ Is(t[5 - i], "mod")
WitnessRange(t) == [lo |-> 0, hi |-> t[5 - WitnessSide(t)][3][2] - 1]

\* A relation with its negation pushed into the operator, or "none".
Relation(t) ==
  LET u == IF Is(t, "not") THEN t[2] ELSE t IN
  CASE Is(u, "=") /\ ~Is(t, "not") -> "="
    [] Is(u, "<") -> IF Is(t, "not") THEN ">=" ELSE "<"
    [] Is(u, "<=") -> IF Is(t, "not") THEN ">" ELSE "<="
    [] OTHER -> "none"
Flip(op) == CASE op = "<" -> ">" [] op = ">" -> "<" [] op = "<=" -> ">=" [] op = ">=" -> "<=" [] OTHER -> op

\* c1*x + c0 op 0, one symbol: the bound on x, rounded to the integers inside.
OneSymbol(f) == IF f.ok /\ Cardinality(Support(f)) = 1 THEN f ELSE NoForm
TheSymbol(f) == CHOOSE a \in Support(f) : TRUE
SingleVar(t) ==
  LET u == IF Is(t, "not") THEN t[2] ELSE t
  IN  IF Relation(t) = "none" \/ IsBool(u[2]) THEN NoForm ELSE OneSymbol(linear_form(<<"-", u[2], u[3]>>))
\* x op n/c
QuotientBound(op, n, c) ==
  CASE op = "<=" -> [Unbounded EXCEPT !.hi = n \div c]
    [] op = "<" -> [Unbounded EXCEPT !.hi = -((-n) \div c) - 1]
    [] op = ">=" -> [Unbounded EXCEPT !.lo = -((-n) \div c)]
    [] op = ">" -> [Unbounded EXCEPT !.lo = n \div c + 1]
    [] OTHER -> IF n % c = 0 THEN Const(n \div c) ELSE Unbounded
Bound(t) ==
  LET Of(c, k, op) == IF c < 0 THEN QuotientBound(Flip(op), k, -c) ELSE QuotientBound(op, -k, c)
      OfForm(f) == Of(f.coef[TheSymbol(f)], f.const, Relation(t))
  IN  OfForm(SingleVar(t))

\* The ranges that the facts give, one entry per symbol of a fact.
Facts(asserts) == UNION {Conjuncts(asserts[i]) : i \in DOMAIN asserts}
FactRange(t) ==
  LET OfForm(f) == IF f.ok THEN TheSymbol(f) :> Bound(t) ELSE <<>>
  IN  IF IsWitness(t) THEN t[WitnessSide(t)] :> WitnessRange(t) ELSE OfForm(SingleVar(t))
extract_symbol_ranges(asserts) ==
  LET Joint(r, s) == [x \in DOMAIN r \cup DOMAIN s |->
                       IF x \notin DOMAIN r THEN s[x] ELSE IF x \notin DOMAIN s THEN r[x] ELSE Intersect(r[x], s[x])]
  IN  FoldSet(LAMBDA t, r : Joint(r, FactRange(t)), <<>>, Facts(asserts))
RangeOf(ranges, x) == IF x \in DOMAIN ranges THEN ranges[x] ELSE Unbounded

\* mod(a*x + b, P) = 0 with one symbol: x is the residue -b/a. The python
\* pass leaves x = 0 as it is written.
SolvedResidue(t) ==
  LET Solution(c, k, x) == <<x, (-k * Inv(c, P)) % P, c, k>>
      OfForm(f) == IF f.ok THEN Solution(f.coef[TheSymbol(f)], f.const, TheSymbol(f)) ELSE <<>>
  IN  IF Is(t[2], "mod") /\ t[2][3] = Num(P) /\ t[3] = Num(0)
      THEN OfForm(OneSymbol(ModForm(linear_form(t[2][2]), P))) ELSE <<>>
RECURSIVE EqModZeroWalker(_)
EqModZeroWalker(t) ==
  LET Solved(u, s) == IF s = <<>> \/ (s # <<>> /\ s[3] = 1 /\ s[4] = 0) THEN u ELSE Eq(s[1], wrap_mod(Num(s[2])))
      Walked(u) == IF Is(u, "=") THEN Solved(u, SolvedResidue(u)) ELSE u
  IN  Walked(MapKids(EqModZeroWalker, t))

-----------------------------------------------------------------------------
(* demod.py *)
RECURSIVE normalize_arith_under_mod(_, _)
normalize_arith_under_mod(t, m) ==
  CASE IsNum(t) -> Num(t[2] % m)
    [] t[1] \in {"+", "*"} -> MapKids(LAMBDA a : normalize_arith_under_mod(a, m), t)
    [] Is(t, "-") -> <<"+", normalize_arith_under_mod(t[2], m),
                       <<"*", Num(m - 1), normalize_arith_under_mod(t[3], m)>>>>
    [] Is(t, "ite") -> <<"ite", t[2], normalize_arith_under_mod(t[3], m), normalize_arith_under_mod(t[4], m)>>
    [] Is(t, "mod") /\ t[3] = Num(m) -> normalize_arith_under_mod(t[2], m)
    [] OTHER -> t

\* A mod whose argument is rewritten already: folded, pushed into the
\* branches of an ite (which are visited again), or dropped by the range.
RECURSIVE DeModSubstituter(_, _, _), walk_mod(_, _, _, _)
walk_mod(arg, modulus, ranges, protected) ==
  LET m == modulus[2]
      Push(a) == DeModSubstituter(Mod(a, m), ranges, protected)
      Reduced(e) ==
        CASE ~IsNum(modulus) -> <<"mod", e, modulus>>
          [] IsNum(e) /\ m # 0 -> Num(e[2] % m)
          [] Is(e, "ite") -> <<"ite", e[2], Push(e[3]), Push(e[4])>>
          [] IsSym(e) /\ Within0P(RangeOf(ranges, e), m) -> e
          [] OTHER -> Mod(e, m)
  IN  Reduced(IF IsNum(modulus) /\ m > 0 THEN normalize_arith_under_mod(arg, m) ELSE arg)
DeModSubstituter(t, ranges, protected) ==
  LET Walk(a) == DeModSubstituter(a, ranges, protected)
      outer == {x \in DOMAIN ranges : x[2] \notin ToSet(t[2])} IN
  CASE t \in protected -> t
    [] Is(t, "mod") -> walk_mod(Walk(t[2]), Walk(t[3]), ranges, protected)
    [] IsQuantifier(t) -> <<t[1], t[2], DeModSubstituter(t[3], [x \in outer |-> ranges[x]], protected)>>
    [] OTHER -> MapKids(Walk, t)
simplify_demod(asserts) ==
  LET Substituted(walked, ranges, protected) == Each(LAMBDA t : DeModSubstituter(t, ranges, protected), walked)
      Ranged(walked) == Substituted(walked, extract_symbol_ranges(walked), {t \in Facts(walked) : IsWitness(t)})
  IN  Ranged(Each(EqModZeroWalker, asserts))
-----------------------------------------------------------------------------
(* demod.rs *)
CONSTANT OrSmallCap      \* DEMOD_OR_SMALL: so many multiples become a disjunction
CONSTANT ScopeGroup      \* the symbols in scope of it (DEMOD_SCOPE_GROUP)
ASSUME DemodAssumption == OrSmallCap \in Nat /\ OrSmallCap >= 1

balance(c, m) == IF c % m > m \div 2 THEN (c % m) - m ELSE c % m
Balanced(f, m) == [f EXCEPT !.const = balance(@, m), !.coef = [a \in DOMAIN @ |-> balance(@[a], m)]]
Extreme(f, ranges, upper) ==
  FoldSet(LAMBDA a, acc : acc + f.coef[a] * (IF (f.coef[a] > 0) = upper THEN ranges[a].hi ELSE ranges[a].lo),
          f.const, Support(f))
\* mod(LIN, P) = R over bounded symbols: LIN is one of the R + m*P in its
\* range. None: false; one: an equation; few, and in scope: a disjunction.
eqmod_range(e, r, ranges) ==
  LET Candidates(f, from, to) == IF from > to THEN <<Truth(FALSE)>> ELSE <<Or([i \in 1..to - from + 1 |-> Eq(f, Num(r + (from + i - 1) * P))])>>
      Cap(f) == IF \E a \in Support(f) : a[2] \in ScopeGroup THEN OrSmallCap ELSE 1
      Spread(f, from, to) == IF to - from + 1 > Cap(f) THEN <<>> ELSE Candidates(FormTerm(f), from, to)
      OfForm(f) == IF \A a \in Support(f) : RangeOf(ranges, a).lo > -Inf /\ RangeOf(ranges, a).hi < Inf
                   THEN Spread(f, -((-(Extreme(f, ranges, FALSE) - r)) \div P), (Extreme(f, ranges, TRUE) - r) \div P)
                   ELSE <<>>
      IfLinear(f) == IF f.ok /\ r \in 0..P-1 THEN OfForm(Balanced(f, P)) ELSE <<>>
  IN  IfLinear(linear_form(e))

RECURSIVE strip_inner_mods(_, _)
strip_inner_mods(t, m) ==
  CASE Is(t, "mod") -> IF t[3] = Num(m) THEN strip_inner_mods(t[2], m) ELSE t
    [] OTHER -> MapKids(LAMBDA a : IF IsBool(a) THEN a ELSE strip_inner_mods(a, m), t)

\* mod(LIN, P) on one side, a number on the other.
FieldModSide(t, i) == Is(t[i], "mod") /\ t[i][3] = Num(P) /\ IsNum(t[5 - i])
\* Quantifiers stay as they are.
RECURSIVE rewrite_bool(_, _), rewrite_int(_, _)
rewrite_int(t, ranges) ==
  LET Reduced(e, m) ==
        CASE IsNum(e) -> Num(e[2] % m)
          [] Is(e, "ite") -> <<"ite", e[2], Mod(e[3], m), Mod(e[4], m)>>
          [] IsSym(e) /\ Within0P(RangeOf(ranges, e), m) -> e
          [] OTHER -> Mod(e, m) IN
  CASE Is(t, "mod") /\ IsNum(t[3]) -> Reduced(strip_inner_mods(rewrite_int(t[2], ranges), t[3][2]), t[3][2])
    [] IsQuantifier(t) -> t
    [] OTHER -> MapKids(LAMBDA a : rewrite_int(a, ranges), t)
rewrite_bool(t, ranges) ==
  LET Deeper == MapKids(LAMBDA a : IF IsBool(a) THEN rewrite_bool(a, ranges) ELSE rewrite_int(a, ranges), t)
      Spread(side) == eqmod_range(t[side][2], t[5 - side][2], ranges)
      Replaced(s, spread) == IF s # <<>> THEN Eq(s[1], Num(s[2])) ELSE IF spread # <<>> THEN spread[1] ELSE Deeper IN
  CASE IsQuantifier(t) -> t
    [] Is(t, "=") -> Replaced(SolvedResidue(t),
                              IF \E i \in {2, 3} : FieldModSide(t, i) THEN Spread(CHOOSE i \in {2, 3} : FieldModSide(t, i)) ELSE <<>>)
    [] OTHER -> Deeper

\* One round; a witness that is an assertion of its own is left alone.
DemodRound(asserts) ==
  LET Ranged(ranges) == Each(LAMBDA t : IF IsWitness(t) THEN t ELSE rewrite_bool(t, ranges), asserts)
  IN  Ranged(extract_symbol_ranges(asserts))
RECURSIVE DemodRounds(_, _)
DemodRounds(asserts, left) ==
  LET Again(next) == IF next = asserts THEN asserts ELSE DemodRounds(next, left - 1)
  IN  IF left = 0 THEN asserts ELSE Again(DemodRound(asserts))
MaxIters == 8
demod_apply(asserts) == DemodRounds(asserts, MaxIters)
-----------------------------------------------------------------------------
(* No code: the congruences in one symbol that a run of the pass solves,   *)
(* for each of which it has taken the symbol for its residue.              *)
TermsOf(asserts) == UNION {Subterms(asserts[i]) : i \in DOMAIN asserts}
SolvedBetween(before, after) ==
  {SolvedResidue(t) : t \in {u \in TermsOf(before) \ TermsOf(after) : Is(u, "=")}} \ {<<>>}
SolvedOnce(asserts) == SolvedBetween(asserts, Each(EqModZeroWalker, asserts))
RECURSIVE SolvedInRounds(_, _)
SolvedInRounds(asserts, left) ==
  LET Again(next) == IF next = asserts THEN {} ELSE SolvedBetween(asserts, next) \cup SolvedInRounds(next, left - 1)
  IN  IF left = 0 THEN {} ELSE Again(DemodRound(asserts))
=============================================================================
