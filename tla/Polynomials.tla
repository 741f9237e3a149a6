---------------------------- MODULE Polynomials ----------------------------
(***************************************************************************)
(* normalize and diff_vars: relations between polynomials brought to one   *)
(* form. A monomial is a sequence of generator numbers in order, one per   *)
(* factor; a polynomial maps its monomials to coefficients that are not 0. *)
(* m is the modulus, 0 for integers. The generators are the symbols and    *)
(* the maximal terms arithmetic cannot open, in one fixed order.           *)
(***************************************************************************)
EXTENDS NormalForms

Combinator(t) == t[1] \in {"+", "-", "*"}
FieldMod(t) == Is(t, "mod") /\ t[3] = Num(P)
IsInt(t) == ~IsBool(t)

RECURSIVE Generators(_)
Generators(t) ==
  CASE IsNum(t) -> {}
    [] IsInt(t) /\ FieldMod(t) -> Generators(t[2])
    [] IsInt(t) /\ ~Combinator(t) -> {t}
    [] OTHER -> UNION {Generators(t[i]) : i \in Kids(t)}
collect_variables(asserts) == Listed(UNION {Generators(asserts[i]) : i \in DOMAIN asserts})

(* Graded lex: the degree first, then the smaller generator, then its power. *)
RECURSIVE Before(_, _)
Before(e, f) ==
  IF Len(e) # Len(f) THEN Len(e) < Len(f)
  ELSE IF e = <<>> THEN FALSE
  ELSE IF Head(e) # Head(f) THEN Head(f) < Head(e)
  ELSE Before(Tail(e), Tail(f))
LeadExp(p) == CHOOSE e \in DOMAIN p : \A f \in DOMAIN p : f = e \/ Before(f, e)
Descending(p) == SortedList(DOMAIN p, LAMBDA e, f : Before(f, e))

Residue(v, m) == IF m = 0 THEN v ELSE v % m
Trim(p, m) == LET Live == {e \in DOMAIN p : Residue(p[e], m) # 0} IN [e \in Live |-> Residue(p[e], m)]
Mono(k) == Trim(<<>> :> k, 0)
poly_add(p, q, scale, m) == Trim([e \in DOMAIN p \cup DOMAIN q |-> At(p, e) + scale * At(q, e)], m)
MonoMul(e, f) == SortSeq(e \o f, <)
poly_mul(p, q, m) ==
  FoldSet(LAMBDA ef, acc : poly_add(acc, MonoMul(ef[1], ef[2]) :> (p[ef[1]] * q[ef[2]]), 1, m),
          <<>>, (DOMAIN p) \X (DOMAIN q))

\* What has no polynomial: a term that is no generator, such as a nested mod.
NoPoly == <<0>> :> 0
Both(p, q, r) == IF p = NoPoly \/ q = NoPoly THEN NoPoly ELSE r
RECURSIVE expr_to_poly(_, _, _)
expr_to_poly(t, gens, m) ==
  LET Subtract(p, q) == Both(p, q, poly_add(p, q, -1, m))
      Join(p, q) == Both(p, q, IF Is(t, "+") THEN poly_add(p, q, 1, m) ELSE poly_mul(p, q, m)) IN
  CASE IsNum(t) -> Trim(<<>> :> t[2], m)
    [] Is(t, "-") -> Subtract(expr_to_poly(t[2], gens, m), expr_to_poly(t[3], gens, m))
    [] t[1] \in {"+", "*"} -> FoldLeft(LAMBDA acc, a : Join(acc, expr_to_poly(a, gens, m)),
                                       IF Is(t, "+") THEN <<>> ELSE Mono(1), Tail(t))
    [] OTHER -> IF t \in ToSet(gens) THEN <<CHOOSE i \in DOMAIN gens : gens[i] = t>> :> 1 ELSE NoPoly

poly_to_expr(p, gens) ==
  LET Factors(e) == [i \in DOMAIN e |-> gens[e[i]]]
      Summand(e) == IF e = <<>> THEN Num(p[e])
                    ELSE Times((IF p[e] = 1 THEN <<>> ELSE <<Num(p[e])>>) \o Factors(e))
  IN  Plus(Each(Summand, Descending(p)))

RECURSIVE gcd(_, _)
gcd(a, b) == IF b = 0 THEN a ELSE gcd(b, a % b)
Abs(n) == IF n < 0 THEN -n ELSE n
Content(p) == FoldSet(LAMBDA e, acc : gcd(Abs(p[e]), acc), 0, DOMAIN p)
Divided(p, g) == [e \in DOMAIN p |-> IF g < 0 THEN (-p[e]) \div (-g) ELSE p[e] \div g]
rescale_gcd_keep_sign(p) == IF p = <<>> THEN p ELSE Divided(p, Content(p))
rescale_gcd(p) == IF p = <<>> THEN p
                  ELSE Divided(p, IF p[LeadExp(p)] < 0 THEN -Content(p) ELSE Content(p))
rescale_monic(p) == IF p = <<>> THEN p ELSE Trim([e \in DOMAIN p |-> p[e] * Inv(p[LeadExp(p)], P)], P)

(* Both sides field residues, or one of them and a number: "mod"; neither: *)
(* "plain"; a residue and an integer term do not mix.                      *)
relation_modular(a, b) ==
  CASE FieldMod(a) = FieldMod(b) -> IF FieldMod(a) THEN "mod" ELSE "plain"
    [] (FieldMod(a) /\ IsNum(b)) \/ (FieldMod(b) /\ IsNum(a)) -> "mod"
    [] OTHER -> "mixed"
Unwrapped(t) == IF FieldMod(t) THEN t[2] ELSE t
relation_poly_diff(a, b, gens) ==
  LET Subtract(p, q, m) == Both(p, q, poly_add(p, q, -1, m))
      Modulo(m) == Subtract(expr_to_poly(Unwrapped(a), gens, m), expr_to_poly(Unwrapped(b), gens, m), m)
  IN  IF relation_modular(a, b) = "mixed" \/ ~IsInt(a) \/ ~IsInt(b) THEN NoPoly
      ELSE Modulo(IF relation_modular(a, b) = "mod" THEN P ELSE 0)

\* An equality becomes monic (mod P) or primitive with a positive lead; an
\* inequality keeps its sign, and one of residues stays as it is.
normalize_equals(a, b, gens) ==
  LET Field(p) == Eq(wrap_mod(poly_to_expr(rescale_monic(p), gens)), Num(0))
      Plain(p) == Eq(poly_to_expr(rescale_gcd(p), gens), Num(0))
      Of(p) == IF p = NoPoly THEN Eq(a, b) ELSE IF relation_modular(a, b) = "mod" THEN Field(p) ELSE Plain(p)
  IN  Of(relation_poly_diff(a, b, gens))
normalize_int_rel_gcd(op, a, b, gens) ==
  LET Of(p) == IF p = NoPoly THEN <<op, a, b>> ELSE <<op, poly_to_expr(rescale_gcd_keep_sign(p), gens), Num(0)>>
  IN  IF relation_modular(a, b) = "mod" THEN <<op, a, b>> ELSE Of(relation_poly_diff(a, b, gens))

\* The python walker rewrites bottom up, the rust one stops at the relation.
RECURSIVE NormalizeWalker(_, _), normalize_term(_, _)
NormalizeWalker(t, gens) ==
  LET Of(u) == CASE u[1] = "=" -> normalize_equals(u[2], u[3], gens)
                 [] u[1] \in {"<", "<="} -> normalize_int_rel_gcd(u[1], u[2], u[3], gens)
                 [] OTHER -> u
  IN  Of(MapKids(LAMBDA a : NormalizeWalker(a, gens), t))
normalize_term(t, gens) ==
  CASE t[1] = "=" /\ IsInt(t[2]) -> normalize_equals(t[2], t[3], gens)
    [] t[1] \in {"<", "<="} -> normalize_int_rel_gcd(t[1], t[2], t[3], gens)
    [] t[1] \in {"and", "or", "forall", "exists", "not", "=>"} ->
         IF t[1] \in {"and", "or"}
         THEN Flatten(t[1], Each(LAMBDA a : normalize_term(a, gens), Tail(t)))
         ELSE MapKids(LAMBDA a : normalize_term(a, gens), t)
    [] OTHER -> t
-----------------------------------------------------------------------------
(* diff_vars: two generators that the field relations only know as their   *)
(* difference: the square's coefficients and all cross terms agree. One of *)
(* them is then replaced by the other plus a new variable.                 *)
Quadratic(p) == [e \in {f \in DOMAIN p : Len(f) = 2} |-> p[e]]
RECURSIVE Relations(_, _)
Relations(t, gens) ==
  LET Of(p) == IF p # NoPoly /\ Quadratic(p) # <<>> THEN {Quadratic(p)} ELSE {} IN
  (IF Is(t, "=") /\ relation_modular(t[2], t[3]) = "mod" THEN Of(relation_poly_diff(t[2], t[3], gens)) ELSE {})
  \cup UNION {Relations(t[i], gens) : i \in {j \in Kids(t) : IsBool(t[j])}}
CoefOf(q, i, j) == At(q, MonoMul(<<i>>, <<j>>))
pair_reduces(q, i, j) ==
  /\ CoefOf(q, i, i) = CoefOf(q, j, j)
  /\ CoefOf(q, i, j) = (-2 * CoefOf(q, i, i)) % P
  /\ \A k \in UNION {ToSet(e) : e \in DOMAIN q} \ {i, j} : CoefOf(q, i, k) = (-CoefOf(q, j, k)) % P
IsPair(rels, i, j) == /\ \A q \in rels : pair_reduces(q, i, j)
                      /\ \E q \in rels : CoefOf(q, i, i) # 0
\* Pairs in the order of their numbers, none sharing a variable.
detect_pairs(rels) ==
  LET squares == {i \in UNION {ToSet(e) : e \in UNION {DOMAIN q : q \in rels}} :
                    \E q \in rels : <<i, i>> \in DOMAIN q}
      candidates == SortedList({ij \in squares \X squares : ij[1] < ij[2]},
                                 LAMBDA a, b : a[1] < b[1] \/ (a[1] = b[1] /\ a[2] < b[2]))
  IN  FoldLeft(LAMBDA acc, ij : IF \E c \in ToSet(acc) : {c[1], c[2]} \cap {ij[1], ij[2]} # {} THEN acc
                                ELSE IF IsPair(rels, ij[1], ij[2]) THEN Append(acc, ij) ELSE acc,
               <<>>, candidates)
DiffName(x) == x \o "!diff"
\* [names, asserts]: the new variables, and the script with the pins at its end.
diff_vars(asserts) ==
  LET By(x, y) == Plus(<<y, Sym(DiffName(x[2]))>>)
      Replaced(pairs) == \* <<the variable, the one it is measured from>>, in order
        LET s == [x \in {p[1][2] : p \in ToSet(pairs)} |-> LET p == CHOOSE q \in ToSet(pairs) : q[1][2] = x IN By(p[1], p[2])]
        IN  [names |-> Each(LAMBDA p : DiffName(p[1][2]), pairs),
             asserts |-> SubstAll(asserts, s) \o Each(LAMBDA p : Eq(p[1], By(p[1], p[2])), pairs)]
      Named(gens, pairs) == Replaced(SelectSeq(Each(LAMBDA ij : <<gens[ij[1]], gens[ij[2]]>>, pairs), LAMBDA p : IsSym(p[1])))
      Over(gens) == Named(gens, detect_pairs(UNION {Relations(asserts[i], gens) : i \in DOMAIN asserts}))
  IN  Over(collect_variables(asserts))
simplify_diff_vars(asserts) ==
  LET Normalized(d, gens) == [d EXCEPT !.asserts = Each(LAMBDA t : NormalizeWalker(t, gens), @)]
      Of(d) == IF d.names = <<>> THEN d ELSE Normalized(d, collect_variables(d.asserts))
  IN  Of(diff_vars(asserts))
=============================================================================
