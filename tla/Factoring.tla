----------------------------- MODULE Factoring -----------------------------
(***************************************************************************)
(* rewrite and factor_reduce (rust): an equation of a polynomial with 0    *)
(* modulo P becomes the choice of its factors or of its roots, or is true  *)
(* because an equation that is known to hold divides it. The factorization *)
(* itself is FLINT's; here it divides by linear forms, and takes what none *)
(* divides for irreducible.                                                *)
(***************************************************************************)
EXTENDS Polynomials

unwrap_zero_mod_eq(t) ==
  IF ~Is(t, "=") THEN <<>>
  ELSE LET side == IF t[3] = Num(0) THEN 2 ELSE 3
       IN  IF Num(0) \in {t[2], t[3]} /\ FieldMod(t[side]) THEN <<t[side][2]>> ELSE <<>>
IsZeroEq(t) == unwrap_zero_mod_eq(t) # <<>>
PolyOf(t) == unwrap_zero_mod_eq(t)[1]

\* The degree as it is written, before anything cancels.
RECURSIVE total_degree(_)
total_degree(e) ==
  LET degrees == {total_degree(e[i]) : i \in Kids(e)} IN
  CASE IsNum(e) -> 0
    [] e[1] \in {"+", "-"} -> CHOOSE d \in degrees : \A c \in degrees : c <= d
    [] Is(e, "*") -> FoldLeft(LAMBDA acc, a : acc + total_degree(a), 0, Tail(e))
    [] OTHER -> 1
RECURSIVE free_z3_symbols(_)
free_z3_symbols(e) == IF IsSym(e) THEN {e}
                      ELSE IF Combinator(e) THEN UNION {free_z3_symbols(e[i]) : i \in Kids(e)} ELSE {}
\* Integer variables only: what holds anything else has no polynomial.
extract_terms(e, gens) == expr_to_poly(e, gens, P)
GensOf(es) == Listed(UNION {free_z3_symbols(e) : e \in es})

\* Division by one polynomial, leading term by leading term; NoPoly if it leaves a rest.
Minus(e, f) == SelectSeq([i \in DOMAIN e |-> <<e[i], i>>],
                         LAMBDA ei : Cardinality({j \in 1..ei[2] : e[j] = ei[1]})
                                       > Cardinality({j \in DOMAIN f : f[j] = ei[1]}))
MonoDiv(e, f) == Each(LAMBDA ei : ei[1], Minus(e, f))
MonoDivides(f, e) == \A g \in ToSet(f) : Cardinality({j \in DOMAIN f : f[j] = g})
                                           <= Cardinality({j \in DOMAIN e : e[j] = g})
RECURSIVE Quotient(_, _)
Quotient(p, q) ==
  LET Joined(rest, step) == IF rest = NoPoly THEN NoPoly ELSE poly_add(rest, step, 1, P)
      Without(step) == Joined(Quotient(poly_add(p, poly_mul(step, q, P), -1, P), q), step)
      Divide(e, f) == IF MonoDivides(f, e) THEN Without(MonoDiv(e, f) :> ((p[e] * Inv(q[f], P)) % P)) ELSE NoPoly
  IN  IF p = <<>> THEN <<>> ELSE Divide(LeadExp(p), LeadExp(q))
divides(dividend, divisor) ==
  LET Of(p, q) == NoPoly \notin {p, q} /\ <<>> \notin {p, q} /\ Quotient(p, q) # NoPoly
      Over(gens) == Of(extract_terms(dividend, gens), extract_terms(divisor, gens))
  IN  Over(GensOf({dividend, divisor}))

\* The factors of a polynomial that is not 0, without its constant.
LinearForms(n) ==
  LET First(c) == CHOOSE i \in 1..n : c[i] # 0 /\ \A j \in 1..i-1 : c[j] = 0
      monic == {c \in [1..n -> 0..P-1] : (\E i \in 1..n : c[i] # 0) /\ c[First(c)] = 1}
  IN  {Trim([e \in {<<i>> : i \in 1..n} \cup {<<>>} |-> IF e = <<>> THEN k ELSE c[e[1]]], P)
         : c \in monic, k \in 0..P-1}
RECURSIVE factor(_, _)
factor(p, n) ==
  LET Split(found) == IF found = {} THEN <<p>> ELSE \* <<divisor, quotient>>
                        LET d == CHOOSE f \in found : TRUE IN <<d[1]>> \o factor(d[2], n) IN
  IF DOMAIN p = {<<>>} THEN <<>>
  ELSE IF Len(LeadExp(p)) = 1 THEN <<p>>
  ELSE Split({f \in {<<l, Quotient(p, l)>> : l \in LinearForms(n)} : f[2] # NoPoly})
-----------------------------------------------------------------------------
(* Roots. A square root modulo P is found with Tonelli and Shanks.         *)
mod_sqrt(n) == {r \in 0..P-1 : (r * r) % P = n}
quadratic_roots_mod(a, b, c) ==
  {((r - b) * Inv((2 * a) % P, P)) % P : r \in mod_sqrt((b * b - 4 * a * c) % P)}
\* Factors that are linear in one and the same variable: its residues.
solved_roots(factors) ==
  LET vars == UNION {UNION {ToSet(e) : e \in DOMAIN f} : f \in ToSet(factors)}
      Root(f) == (-At(f, <<>>) * Inv(At(f, LeadExp(f)), P)) % P
  IN  IF Cardinality(vars) = 1 /\ \A f \in ToSet(factors) : Len(LeadExp(f)) = 1
      THEN {Root(f) : f \in ToSet(factors)} ELSE {}
mod_zero_eq(e) == Eq(wrap_mod(e), Num(0))
\* The residue is one of the values; for a selector that is multiplied with
\* another one, only the interval is said, if the values fill it.
roots_with_range(var, values, coupled) ==
  LET least == Min(values)
      most == Max(values)
      residue == wrap_mod(var)
      range == <<Le(Num(least), residue), Le(residue, Num(most))>>
  IN  IF most - least + 1 = Cardinality(values) /\ var \in coupled THEN And(range)
      ELSE And(<<Or(Each(LAMBDA v : Eq(residue, Num(v)), SortedList(values, <)))>> \o range)
rewrite_quadratic(p, gens, coupled) ==
  LET Of(roots) == IF roots = {} THEN <<Truth(FALSE)>> ELSE <<roots_with_range(gens[1], roots, coupled)>>
  IN  IF Len(gens) # 1 \/ Len(LeadExp(p)) # 2 THEN <<>>
      ELSE Of(quadratic_roots_mod(At(p, <<1, 1>>), At(p, <<1>>), At(p, <<>>)))
rewrite_choice(e, coupled) ==
  LET Solved(flat, gens, roots) ==
        IF roots = {} THEN <<Or(Each(LAMBDA f : mod_zero_eq(poly_to_expr(f, gens)), flat))>>
        ELSE <<roots_with_range(gens[CHOOSE i \in DOMAIN gens : \E f \in ToSet(flat) : <<i>> \in DOMAIN f], roots, coupled)>>
      Split(p, gens, flat) == CASE flat = <<>> -> <<Truth(FALSE)>>
                                [] Len(flat) = 1 -> rewrite_quadratic(p, gens, coupled)
                                [] OTHER -> Solved(flat, gens, solved_roots(flat))
      Of(p, gens) == IF p \in {NoPoly, <<>>} THEN <<>> ELSE Split(p, gens, factor(p, Len(gens)))
      Over(gens) == Of(extract_terms(e, gens), gens)
  IN  Over(GensOf({e}))

\* Selectors: the variables with a root product of their own; coupled: two of
\* them in one product.
RECURSIVE collect_selectors(_)
collect_selectors(t) ==
  IF IsZeroEq(t) THEN LET syms == free_z3_symbols(PolyOf(t))
                      IN  IF total_degree(PolyOf(t)) >= 2 /\ Cardinality(syms) = 1 THEN syms ELSE {}
  ELSE IF Is(t, "and") THEN UNION {collect_selectors(t[i]) : i \in Kids(t)} ELSE {}
collect_coupled(t, selectors) ==
  UNION {s \in {free_z3_symbols(u) \cap selectors : u \in {v \in Subterms(t) : Is(v, "*")}} : Cardinality(s) >= 2}
coupled_selectors(asserts) ==
  LET selectors == UNION {collect_selectors(asserts[i]) : i \in DOMAIN asserts}
  IN  UNION {collect_coupled(asserts[i], selectors) : i \in DOMAIN asserts}

\* Boolean structure is opened, atoms are not; connectives are flattened again.
map_bool_children_opt(F(_), t) ==
  CASE t[1] \in {"and", "or"} -> LET args == Each(F, Tail(t))
                                 IN  IF args = Tail(t) THEN t ELSE Flatten(t[1], args)
    [] t[1] \in {"not", "=>", "forall", "exists"} -> MapKids(F, t)
    [] t[1] = "ite" /\ IsBool(t) -> MapKids(F, t)
    [] OTHER -> t
RECURSIVE rewrite_once(_, _), rewrite_formula(_, _, _)
rewrite_once(t, coupled) ==
  LET Of(found) == IF found # <<>> THEN found[1] ELSE map_bool_children_opt(LAMBDA a : rewrite_once(a, coupled), t)
  IN  Of(IF IsZeroEq(t) /\ total_degree(PolyOf(t)) >= 2 THEN rewrite_choice(PolyOf(t), coupled) ELSE <<>>)
rewrite_formula(t, coupled, left) ==
  LET Again(next) == IF next = t THEN t ELSE rewrite_formula(next, coupled, left - 1)
  IN  IF left = 0 THEN t ELSE Again(rewrite_once(t, coupled))
MAX_REWRITE_COUNT == 5
rewrite_apply(asserts) ==
  LET coupled == coupled_selectors(asserts)
  IN  Each(LAMBDA t : rewrite_formula(t, coupled, MAX_REWRITE_COUNT), asserts)
-----------------------------------------------------------------------------
(* factor_reduce: a proper multiple of a polynomial that is known to be 0. *)
\* Mutant: an equation is taken for a fact wherever it stands.
ZerosAnywhere(t) == {PolyOf(u) : u \in {v \in Subterms(t) : IsZeroEq(v)}}
RECURSIVE collect_conjunct_zeros(_), reduce_once(_, _)
collect_conjunct_zeros(t) ==
  IF IsZeroEq(t) THEN {PolyOf(t)}
  ELSE IF Is(t, "and") THEN UNION {collect_conjunct_zeros(t[i]) : i \in Kids(t)} ELSE {}
reduce_once(t, zeros) ==
  IF IsZeroEq(t)
  THEN IF \E b \in zeros : /\ total_degree(b) \in 1..total_degree(PolyOf(t)) - 1
                           /\ divides(PolyOf(t), b)
       THEN Truth(TRUE) ELSE t
  ELSE map_bool_children_opt(LAMBDA a : reduce_once(a, zeros), t)
factor_reduce_apply(asserts) ==
  LET zeros == UNION {collect_conjunct_zeros(asserts[i]) : i \in DOMAIN asserts}
  IN  Each(LAMBDA t : reduce_once(t, zeros), asserts)
=============================================================================
