------------------------------- MODULE Skolem -------------------------------
(***************************************************************************)
(* The skolem pass: contributors propose a witness for each variable of a  *)
(* forall, and the body gets the disjunct q # witness, which lift turns    *)
(* into an assertion. Any witness is sound for refutation; a wrong one     *)
(* lets in models that the forall excluded.                                *)
(***************************************************************************)
EXTENDS Gadgets, Factoring, Probing
CONSTANTS
  Naming,    \* what a name says: [side, base, kind, track, limb, sort]
  Limbs      \* the limbs of a comparison, from 0 (four in the code)

Base(x) == Naming[x].base
KindOf(x, k) == Naming[x].kind = k
IsMarker(t) == IsSym(t) /\ KindOf(t[2], "diff_inv_marker")
swap_prefix(x) == {y \in DOMAIN Naming : /\ Base(y) = Base(x)
                                         /\ {Naming[x].side, Naming[y].side} = {"before", "after"}}

(* The pins of one forall; the first pin of a variable stays.              *)
SkolemMap(qvars) == [qvars |-> qvars, pins |-> <<>>]
Pin(map, q, e) == IF q \in map.qvars THEN [map EXCEPT !.pins = @ @@ (q :> e)] ELSE map
Unpinned(map) == map.qvars \ DOMAIN map.pins
emit_disjuncts(map, sorts) ==
  LET Witness(q) == IF Naming[q].sort = "Int" THEN wrap_mod(map.pins[q]) ELSE map.pins[q]
  IN  Each(LAMBDA q : Not(Eq(Sym(q), Witness(q))),
           Listed({q \in DOMAIN map.pins : Naming[q].sort \in sorts}))
-----------------------------------------------------------------------------
(* Same name: python takes the last declared symbol of that base name, and *)
(* gives up if it is a variable of this forall; rust prefers the symbol of *)
(* the other side among those that are not.                                *)
SameName(map, Partners(_)) ==
  LET Fits(q, p) == p # <<>> /\ p[1] \notin map.qvars /\ Naming[q].sort = Naming[p[1]].sort
      Found == {q \in Unpinned(map) \cap Columns : Fits(q, Partners(q))}
  IN  [map EXCEPT !.pins = @ @@ [q \in Found |-> Sym(Partners(q)[1])]]
SameBase(names, q) == SelectSeq(names, LAMBDA x : Base(x) = Base(q))
skolem_names(map, names) == SameName(map, LAMBDA q : Reverse(SameBase(names, q)))
names_contribute(map, names) ==
  LET Preferred(q, viable) == SelectSeq(viable, LAMBDA x : x \in swap_prefix(q)) \o viable
  IN  SameName(map, LAMBDA q : Preferred(q, SelectSeq(SameBase(names, q), LAMBDA x : x \notin map.qvars)))

(* Derived columns: equations the verifier leaves beside the script, those *)
(* that mention only symbols of the assertions.                            *)
split_equation(e) == CASE ~Is(e, "=") -> <<>>
                       [] IsSym(e[2]) -> <<e[2][2], e[3]>>
                       [] IsSym(e[3]) -> <<e[3][2], e[2]>>
                       [] OTHER -> <<>>
\* Mutant: the names a quantifier binds do not count.
FreeSymbols(asserts) == UNION {FreeVars(asserts[i]) : i \in DOMAIN asserts}
_collect_assert_symbols(asserts) ==
  LET terms == UNION {Subterms(asserts[i]) : i \in DOMAIN asserts}
  IN  {t[2] : t \in {u \in terms : IsSym(u)}} \cup UNION {ToSet(t[2]) : t \in {u \in terms : IsQuantifier(u)}}
filter_loaded_skolem_pins(equations, live) ==
  SelectSeq(equations, LAMBDA e : FreeVars(e) # {} /\ FreeVars(e) \subseteq live)
filter_live_pins(equations, live) ==
  SelectSeq(equations, LAMBDA e : FreeVars(e) # {} /\ \A x \in FreeVars(e) : ({x} \cup swap_prefix(x)) \cap live # {})
skolem_derived(map, equations) ==
  FoldLeft(LAMBDA m, e : IF split_equation(e) = <<>> THEN m ELSE Pin(m, split_equation(e)[1], split_equation(e)[2]),
           map, equations)
-----------------------------------------------------------------------------
(* Collapsed witness: a constraint  f * (a0 + a1) + cmp = 0  says that f   *)
(* is a witness for both markers of  m0 * a0 + m1 * a1 + cmp = 0.          *)
RECURSIVE Leaves(_, _)
Leaves(op, t) == IF Is(t, op) THEN FlattenSeq(Each(LAMBDA a : Leaves(op, a), Tail(t))) ELSE <<t>>
_split_product(t) ==
  LET Of(leaves) == [coeff |-> FoldLeft(LAMBDA acc, a : IF IsNum(a) THEN (acc * a[2]) % P ELSE acc, 1, leaves),
                     factors |-> SelectSeq(leaves, LAMBDA a : ~IsNum(a))]
  IN  Of(Leaves("*", t))
\* Unlike the rust helper, python's also takes an equation without a mod.
_unwrap_zero_mod_eq(t) ==
  LET side == IF t[3] = Num(0) THEN t[2] ELSE t[3] IN
  CASE ~Is(t, "=") -> <<>>
    [] Num(0) \notin {t[2], t[3]} -> <<>>
    [] Is(side, "mod") -> IF side[3] = Num(P) THEN <<side[2]>> ELSE <<>>
    [] OTHER -> <<side>>
_is_uncollapsed_diff_inv_marker_product(r) ==
  LET NumAndSym(s) == Len(s) = 2 /\ \E j \in {1, 2} : IsNum(s[j]) /\ IsSym(s[3 - j])
  IN  /\ r.coeff = 1 /\ Len(r.factors) = 2
      /\ \E i \in {1, 2} : /\ IsMarker(r.factors[i]) /\ Is(r.factors[3 - i], "+")
                             /\ NumAndSym(Leaves("+", r.factors[3 - i]))
SummandKind(r) == CASE r.coeff = 0 \/ r.factors = <<>> -> "none"
                    [] r.coeff \in {1, P - 1} /\ Len(r.factors) = 1 /\ IsSym(r.factors[1]) -> "cmp"
                    [] _is_uncollapsed_diff_inv_marker_product(r) -> "apart"
                    [] OTHER -> "product"
SummandsOf(t, kind) == SelectSeq(Each(_split_product, Leaves("+", t)), LAMBDA r : SummandKind(r) = kind)
\* A symbol times a sum of other symbols: the symbol and the sum's keys.
_split_symbol_times_sum(r, Key(_)) ==
  LET SumKeys(s) == {Key(s[j][2]) : j \in DOMAIN s}
      Side(a, s) == IF IsSym(a) /\ Len(s) > 1 /\ \A j \in DOMAIN s : IsSym(s[j]) /\ Key(s[j][2]) # Key(a[2])
                    THEN <<<<a, SumKeys(s)>>>> ELSE <<>>
      First(found) == IF found = <<>> THEN <<>> ELSE found[1]
      Of(f) == IF Len(f) = 2 THEN First(Side(f[1], Leaves("+", f[2])) \o Side(f[2], Leaves("+", f[1]))) ELSE <<>>
  IN  Of(r.factors)
\* <<the free variable, the keys it multiplies, the key of cmp>>, if any.
_match_collapsed(lhs, Key(_)) ==
  LET With(split, cmp) == IF split = <<>> THEN {}
                          ELSE IF Key(split[1][2]) = cmp THEN {} ELSE {<<split[1], split[2], cmp>>}
      Of(products, cmps) ==
        IF Len(products) # 1 \/ Len(cmps) # 1 THEN {}
        ELSE IF products[1].coeff # 1 THEN {}
        ELSE With(_split_symbol_times_sum(products[1], Key), Key(cmps[1].factors[1][2]))
  IN  IF lhs = <<>> THEN {} ELSE Of(SummandsOf(lhs[1], "product"), SummandsOf(lhs[1], "cmp"))
collect_candidates(asserts, Unwrap(_), Key(_)) ==
  UNION {_match_collapsed(Unwrap(t), Key) : t \in UNION {Subterms(asserts[i]) : i \in DOMAIN asserts}}

\* The variable among the two factors of a product, and the factor that is
\* compared. Of two symbols rust takes the one that is not the marker, and
\* compares that one too.
PythonSides(r, open) ==
  LET O(i) == IsSym(r.factors[i]) /\ r.factors[i][2] \in open
      q == CASE O(1) /\ O(2) -> IF IsMarker(r.factors[1]) = IsMarker(r.factors[2]) THEN 0
                                ELSE IF IsMarker(r.factors[1]) THEN 1 ELSE 2
             [] O(1) -> 1 [] O(2) -> 2 [] OTHER -> 0
  IN  IF q = 0 THEN <<>> ELSE IF IsSym(r.factors[3 - q]) THEN <<r.factors[q], r.factors[3 - q]>> ELSE <<>>
RustSides(r, open) ==
  LET q == CHOOSE i \in {1, 2} : ~IsMarker(r.factors[i])
  IN  IF /\ IsSym(r.factors[1]) /\ IsSym(r.factors[2]) /\ IsMarker(r.factors[1]) # IsMarker(r.factors[2])
         /\ r.factors[q][2] \in open
      THEN <<r.factors[q], r.factors[q]>> ELSE <<>>
skolem_witness(map, body, candidates, Unwrap(_), Key(_), Sides(_, _)) ==
  LET Witnesses(fits, sides) == IF fits = {} THEN {}
                              ELSE {<<sides[i][1][2], (CHOOSE c \in fits : TRUE)[1]>> : i \in DOMAIN sides}
      With(sides, cmp) == IF <<>> \in ToSet(sides) THEN {}
                          ELSE Witnesses({c \in candidates : c[3] = cmp /\ c[2] = {Key(sides[i][2][2]) : i \in DOMAIN sides}}, sides)
      SidesOf(r) == IF r.coeff = 1 /\ Len(r.factors) = 2 THEN Sides(r, Unpinned(map)) ELSE <<>>
      Rows(products, cmps) == IF Len(products) < 2 \/ Len(cmps) # 1 THEN {}
                              ELSE With(Each(SidesOf, products), Key(cmps[1].factors[1][2]))
      Of(lhs) == IF lhs = <<>> THEN {} ELSE Rows(SummandsOf(lhs[1], "product"), SummandsOf(lhs[1], "cmp"))
      Matched(t) == Of(Unwrap(IF Is(t, "not") THEN t[2] ELSE t))
  IN  FoldSet(LAMBDA pin, m : Pin(m, pin[1], pin[2]), map, UNION {Matched(t) : t \in Subterms(body)})
-----------------------------------------------------------------------------
(* Isolation: variables whose conjuncts mention nothing else take their    *)
(* values from one model of the negated conjuncts.                         *)
_qvar_conjuncts(d, cand) ==
  SelectSeq(IF Is(d, "and") THEN Tail(d) ELSE <<d>>, LAMBDA c : FreeVars(c) \cap cand # {})
Islands(disjuncts, cand) ==
  LET Island(i, rel) == [members |-> i, parts |-> {Not(r) : r \in {s \in rel : FreeVars(s) \cap i # {}}}]
      Tainted(rel) == UNION {FreeVars(r) : r \in {s \in rel : ~(FreeVars(s) \subseteq cand)}}
      Groups(rel) == {Grown({q}, {FreeVars(r) \cap cand : r \in rel}) : q \in UNION {FreeVars(r) : r \in rel} \cap cand}
      Of(rel, tainted) == {Island(i, rel) : i \in {j \in Groups(rel) : j \cap tainted = {}}}
      Over(rel) == Of(rel, Tainted(rel))
  IN  Over({And(_qvar_conjuncts(d, cand)) : d \in {e \in disjuncts : FreeVars(e) \cap cand # {}}})
solve_island(island) ==
  {m \in [island.members -> {Num(v) : v \in 0..P-1} \cup {Truth(b) : b \in BOOLEAN}] :
     /\ \A x \in island.members : Is(m[x], "bool") = (Naming[x].sort = "Bool")
     /\ \A part \in island.parts : Eval(Subst(part, m), <<>>)}
skolem_isolate(map, body) ==
  LET Take(m, models) == IF models = {} THEN m ELSE [m EXCEPT !.pins = @ @@ CHOOSE v \in models : TRUE]
      cand == {q \in Unpinned(map) : Naming[q].sort \in {"Int", "Bool"}}
  IN  IF ~Is(body, "or") THEN map
      ELSE FoldSet(LAMBDA i, m : Take(m, solve_island(i)), map, Islands(ToSet(Tail(body)), cand))
-----------------------------------------------------------------------------
(* The comparison of a word with the constant 1, limb by limb: diff_val is *)
(* the difference at the highest limb that differs, and marker i is 1 at   *)
(* that limb. The optimizer replaces these constraints on one side.        *)
Ite(c, a, b) == <<"ite", c, a, b>>
Target(i) == IF i = 0 THEN 1 ELSE 0
Minus1(e) == Times(<<Num(P - 1), e>>)
LimbsUp == SortedList(Limbs, <)
LimbIs(m, i) == Eq(Sym(m[i].data), Num(Target(i)))
_build_skolem(m, cmp) ==
  LET sign == Plus(<<Num(P - 1), Times(<<Num(2), Sym(cmp)>>)>>)
      Term(i) == IF i = 0 THEN wrap_mod(Times(<<Plus(<<Num(1), Minus1(Sym(m[0].data))>>), sign>>))
                 ELSE wrap_mod(Times(<<Num(P - 1), Sym(m[i].data), sign>>))
  IN  wrap_mod(FoldLeft(LAMBDA acc, i : Ite(LimbIs(m, i), acc, Term(i)), Num(0), LimbsUp))
_build_marker_skolems(m) ==
  LET Marker(i) == FoldLeft(LAMBDA acc, j : IF j < i THEN acc ELSE IF j = i THEN Ite(LimbIs(m, j), Num(0), Num(1))
                                            ELSE Ite(LimbIs(m, j), acc, Num(0)), Num(0), LimbsUp)
  IN  {<<m[i].dm, Marker(i)>> : i \in Limbs}

\* 2 * cmp - 1: the name cmp.
_match_sign(t) ==
  LET Twice(r) == IF r.coeff = 2 /\ Len(r.factors) = 1 /\ IsSym(r.factors[1]) THEN {r.factors[1][2]} ELSE {}
      Pair(k, a) == IF IsNum(k) /\ k[2] % P = P - 1 /\ ~IsNum(a) THEN Twice(_split_product(a)) ELSE {}
      Of(s) == IF Len(s) = 2 THEN Pair(s[1], s[2]) \cup Pair(s[2], s[1]) ELSE {}
  IN  Of(Leaves("+", t))
\* A limb, with what is added to it.
_match_data(t) ==
  LET Offset(s) == FoldLeft(LAMBDA acc, a : IF IsNum(a) THEN (acc + a[2]) % P ELSE acc, 0, s)
      With(syms, offset) == IF Len(syms) # 1 THEN {} ELSE IF IsSym(syms[1]) THEN {<<syms[1][2], offset>>} ELSE {}
      Of(s) == With(SelectSeq(s, LAMBDA a : ~IsNum(a)), Offset(s))
  IN  IF IsSym(t) \/ Is(t, "+") THEN Of(Leaves("+", t)) ELSE {}
\* data * sign + diff_val
_match_inner_with_qvar(t, dv) ==
  LET Made(data, signs) == {[data |-> d[1], offset |-> d[2], cmp |-> c] : d \in data, c \in signs}
      Product(r) == IF r.coeff # 1 \/ Len(r.factors) # 2 THEN {}
                    ELSE UNION {Made(_match_data(r.factors[3 - i]), _match_sign(r.factors[i])) : i \in {1, 2}}
      Rest(n, rest) == IF n = 2 /\ Len(rest) = 1 THEN Product(_split_product(rest[1])) ELSE {}
      Of(s) == Rest(Len(s), SelectSeq(s, LAMBDA a : a # Sym(dv)))
  IN  Of(Leaves("+", t))
MarkerZero(t) ==
  LET sides == IF Is(t, "=") THEN {i \in {2, 3} : t[i] = Num(0) /\ IsSym(t[5 - i])} ELSE {}
  IN  {x \in {t[5 - i][2] : i \in sides} : KindOf(x, "diff_marker")}
\* marker * (data * sign + diff_val) = 0, as it is or split in two.
MarkedProduct(r, dv) ==
  IF r.coeff # 1 \/ Len(r.factors) # 2 THEN {}
  ELSE UNION {{[dm |-> r.factors[i][2], at |-> m] : m \in _match_inner_with_qvar(r.factors[3 - i], dv)} :
                i \in {j \in {1, 2} : IsSym(r.factors[j]) /\ KindOf(r.factors[j][2], "diff_marker")}}
SplitMarker(parts, dv) ==
  LET Pairs(markers, inner) == IF Cardinality(markers) = 1 /\ Cardinality(inner) = 1
                               THEN {[dm |-> x, at |-> m] : x \in markers, m \in inner} ELSE {}
  IN  Pairs(UNION {MarkerZero(d) : d \in parts},
            UNION {_match_inner_with_qvar(PolyOf(d), dv) : d \in {e \in parts : IsZeroEq(e)}})
_match_constraint(t, dv) ==
  CASE IsZeroEq(t) -> MarkedProduct(_split_product(PolyOf(t)), dv)
    [] Is(t, "or") -> SplitMarker(ToSet(Leaves("or", t)), dv)
    [] OTHER -> {}
\* The limbs of a comparison by their names alone, the data in the given row.
_openvm_bundle_from_named_limbs(body, dv, row) ==
  LET Limb(set, i) == CHOOSE x \in set : Naming[x].limb = i
      Full(set) == {Naming[x].limb : x \in set} = Limbs
      Of(cmps, markers, bs) ==
        IF cmps = {} \/ ~Full(markers) \/ ~Full(bs) THEN {}
        ELSE {[cmp |-> CHOOSE x \in cmps : TRUE, limbs |-> [i \in Limbs |-> [dm |-> Limb(markers, i), data |-> Limb(bs, i)]]]}
      Named(names, track) == Of({x \in names : KindOf(x, "cmp_result") /\ Naming[x].track = track},
                                {x \in names : KindOf(x, "diff_marker") /\ Naming[x].track = track},
                                {x \in names : KindOf(x, "b") /\ Naming[x].track = row})
  IN  Named({t[2] : t \in {u \in Subterms(body) : IsSym(u)}}, Naming[dv].track)
_b_row_suffix_for_diff_val_gadget(g) == IF g <= 0 THEN 0 ELSE 2 * (g - 1)
_find_and_build_witnesses(body, dv) ==
  LET Fits(m) == /\ Naming[m.dm].track = Naming[dv].track
                 /\ m.at.offset = IF Naming[m.dm].limb = 0 THEN P - 1 ELSE 0
      Limb(c, i, fits) == CHOOSE m \in fits : m.at.cmp = c /\ Naming[m.dm].limb = i
      Bundle(c, fits) == [cmp |-> c, limbs |-> [i \in Limbs |-> [dm |-> Limb(c, i, fits).dm, data |-> Limb(c, i, fits).at.data]]]
      Whole(fits) == {Bundle(c, fits) : c \in {d \in {m.at.cmp : m \in fits} :
                                              {Naming[m.dm].limb : m \in {n \in fits : n.at.cmp = d}} = Limbs}}
      Else(bundles) == IF bundles # {} THEN bundles
                       ELSE _openvm_bundle_from_named_limbs(body, dv, _b_row_suffix_for_diff_val_gadget(Naming[dv].track))
  IN  Else(Whole({m \in UNION {_match_constraint(t, dv) : t \in Subterms(body)} : Fits(m)}))

\* Free copies of a comparison's columns are set to its canonical values.
\* Find gives the comparisons of a variable, Leftover the copies to set.
SwapIn(x, names) == IF swap_prefix(x) \cap ToSet(names) = {} THEN x ELSE CHOOSE y \in swap_prefix(x) \cap ToSet(names) : TRUE
FreePins(s, qvars, Find(_, _), Leftover(_)) ==
  LET Swapped(b) == [i \in Limbs |-> [dm |-> SwapIn(b.limbs[i].dm, s.names), data |-> SwapIn(b.limbs[i].data, s.names)]]
      PinsTo(dv, limbs, cmp) == {<<dv, _build_skolem(limbs, cmp)>>} \cup {m \in _build_marker_skolems(limbs) : m[1] \notin qvars}
      Copies(b) == {r \in qvars : KindOf(r, "diff_val") /\ Base(r) = Base(b)}
      Free == {x \in ToSet(s.names) \ qvars : KindOf(x, "diff_val") /\ Leftover(x)}
      PinsOf(dv, bundles) == UNION {PinsTo(dv, Swapped(b), SwapIn(b.cmp, s.names)) : b \in bundles}
      In(body) == UNION {PinsOf(dv, UNION {Find(body, q) : q \in Copies(dv)}) : dv \in Free}
      Of(foralls) == IF foralls = {} THEN {} ELSE In((CHOOSE t \in foralls : TRUE)[3])
  IN  Of(UNION {{t \in Subterms(s.asserts[i]) : Is(t, "forall")} : i \in DOMAIN s.asserts})
Everything(x) == TRUE
contribute_free(s, qvars) == FreePins(s, qvars, _find_and_build_witnesses, Everything)

\* rust reads the row off the constraints that mention cmp, and leaves the
\* columns alone whose comparison is still there on their own side.
gadget_scan(asserts) ==
  LET Tracks(t, kind) == {Naming[x].track : x \in {y \in FreeVars(t) : KindOf(y, kind)}}
      Row(cmps, bs) == IF Cardinality(cmps) = 1 /\ Cardinality(bs) = 1 THEN cmps \X bs ELSE {}
      Marker(markers) == IF Len(markers) = 1 THEN {<<Naming[markers[1][2]].side, Naming[markers[1][2]].track>>} ELSE {}
      MarkerIn(t) == Marker(SelectSeq(_split_product(PolyOf(t)).factors, LAMBDA f : IsSym(f) /\ KindOf(f[2], "diff_marker")))
      Of(zeros) == [rows |-> UNION {Row(Tracks(t, "cmp_result"), Tracks(t, "b")) : t \in zeros},
                    constrained |-> UNION {MarkerIn(t) : t \in {u \in zeros : Tracks(u, "diff_val") # {}}}]
  IN  Of({t \in UNION {Subterms(asserts[i]) : i \in DOMAIN asserts} : IsZeroEq(t)})
rust_contribute_free(s, qvars) ==
  LET RowOf(scan, dv) == {r[2] : r \in {q \in scan.rows : q[1] = Naming[dv].track}}
      Found(body, dv, rows) == IF rows = {} THEN {} ELSE _openvm_bundle_from_named_limbs(body, dv, CHOOSE r \in rows : TRUE)
      Of(scan) == FreePins(s, qvars, LAMBDA body, dv : Found(body, dv, RowOf(scan, dv)),
                           LAMBDA x : <<Naming[x].side, Naming[x].track>> \notin scan.constrained)
  IN  Of(gadget_scan(s.asserts))
-----------------------------------------------------------------------------
(* rust, last of all: the markers of  c0*m0 + c1*m1 + rest = 0  become the *)
(* free variable that the other side multiplies with the same limb, or the *)
(* first one with a cofactor that is not zero carries the whole value.     *)
uf_mod_inv(t) == App("uf_mod_inv", <<t>>)
MarkerNames(map, body) ==
  LET RECURSIVE Occurs(_, _)
      Occurs(x, t) == IF t = Sym(x) THEN 1 ELSE MapThenSumSet(LAMBDA i : Occurs(x, t[i]), Kids(t))
  IN  {q \in map.qvars : KindOf(q, "diff_inv_marker") \/ (KindOf(q, "free_var") /\ Occurs(q, body) = 1)}
find_after_free_var(asserts, a) ==
  LET Free(fs) == IF \E f \in fs : a \in FreeVars(f) THEN {f \in fs : IsSym(f) /\ KindOf(f[2], "free_var")} ELSE {}
      FreeIn(t) == UNION {Free(ToSet(_split_product(e).factors)) : e \in ToSet(Leaves("+", PolyOf(t)))}
  IN  UNION {FreeIn(t) : t \in {u \in UNION {Subterms(asserts[i]) : i \in DOMAIN asserts} : IsZeroEq(u)}}
\* A summand: its marker if it has just one, the limb that is all there is
\* besides it, and the product of the other factors.
MarkedSummand(t, names) ==
  LET Product(r, at) == FoldLeft(LAMBDA acc, i : IF i = at THEN acc ELSE <<"*", acc, r.factors[i]>>,
                                 Num(r.coeff), [i \in DOMAIN r.factors |-> i])
      Lone(r) == r.coeff = 1 /\ Len(r.factors) = 2 /\ \A f \in ToSet(r.factors) : IsSym(f)
      Of(r, places) ==
        IF Cardinality(places) # 1 THEN [term |-> t, markers |-> Cardinality(places)]
        ELSE [term |-> t, markers |-> 1, name |-> r.factors[Max(places)][2], cofactor |-> Product(r, Max(places)),
              limbs |-> IF Lone(r) THEN {r.factors[3 - Max(places)][2]} ELSE {}]
      Split(r) == Of(r, {i \in DOMAIN r.factors : IsSym(r.factors[i]) /\ r.factors[i][2] \in names})
  IN  Split(_split_product(t))
\* A marker that is pinned to a term without variables belongs to the rest.
Cascade(m, marked, plain) ==
  LET Known(r) == r.name \in DOMAIN m.pins /\ FreeVars(m.pins[r.name]) \cap m.qvars = {}
      Rest == plain \o Each(LAMBDA r : <<"*", r.cofactor, m.pins[r.name]>>, SelectSeq(marked, Known))
      Witness(c, i) == Ite(And(<<Not(Eq(c[i], Num(0)))>> \o [j \in 1..i - 1 |-> Eq(c[j], Num(0))]),
                           <<"*", wrap_mod(<<"-", Num(0), Plus(Rest)>>), uf_mod_inv(c[i])>>, Num(0))
      Over(open, c) == FoldLeft(LAMBDA acc, i : Pin(acc, open[i].name, Witness(c, i)), m, [i \in DOMAIN open |-> i])
      Open(open) == Over(open, Each(LAMBDA r : wrap_mod(r.cofactor), open))
  IN  Open(SelectSeq(marked, LAMBDA r : r.name \notin DOMAIN m.pins))
PinGadget(m, asserts, marked, plain) ==
  LET FreeAfter(withlimb) == IF withlimb = <<>> THEN {}
                             ELSE UNION {find_after_free_var(asserts, a) : a \in UNION {swap_prefix(x) : x \in withlimb[1].limbs}}
      Pinned(free) == IF free = {} THEN Cascade(m, marked, plain)
                      ELSE FoldLeft(LAMBDA acc, r : Pin(acc, r.name, CHOOSE f \in free : TRUE), m, marked)
  IN  IF marked = <<>> \/ \E r \in ToSet(marked) : r.markers > 1 THEN m
      ELSE Pinned(FreeAfter(SelectSeq(marked, LAMBDA r : r.limbs # {})))
rules_contribute(map, asserts, body) ==
  LET Split(m, summands) == PinGadget(m, asserts, SelectSeq(summands, LAMBDA r : r.markers > 0),
                                      Each(LAMBDA r : r.term, SelectSeq(summands, LAMBDA r : r.markers = 0)))
      Gadgets(names, zeros) ==
        IF names = {} THEN map
        ELSE FoldLeft(LAMBDA acc, t : Split(acc, Each(LAMBDA e : MarkedSummand(e, names), Leaves("+", PolyOf(t)))), map, zeros)
  IN  Gadgets(MarkerNames(map, body), Listed({t \in Subterms(body) : IsZeroEq(t)}))
-----------------------------------------------------------------------------
(* The pass. Contribute gives the disjuncts that one forall gains.         *)
AllForalls(t) == {u \in Subterms(t) : Is(u, "forall")}
Widened(t, new) ==
  IF new = <<>> THEN t ELSE <<"forall", t[2], Or((IF Is(t[3], "or") THEN Tail(t[3]) ELSE <<t[3]>>) \o new)>>
RECURSIVE SkolemWalker(_, _)
SkolemWalker(Contribute(_), t) ==
  LET Of(walked) == IF Is(walked, "forall") THEN Widened(walked, Contribute(walked)) ELSE walked
  IN  Of(MapKids(LAMBDA a : SkolemWalker(Contribute, a), t))
Universals(asserts) == UNION {UNION {ToSet(t[2]) : t \in AllForalls(asserts[i])} : i \in DOMAIN asserts}
SkolemPass(s, Contribute(_), FreeOf(_, _)) ==
  LET Assertions(pins) == Each(LAMBDA p : Eq(Sym(p[1]), p[2]), Listed(pins))
      WithFree(walked) == Script(s.names, walked.asserts \o Assertions(FreeOf(walked, Universals(s.asserts))))
  IN  WithFree(Script(s.names, Each(LAMBDA a : SkolemWalker(Contribute, a), s.asserts)))

\* The contributors in their order; what one has pinned the next leaves alone.
walk_forall(t, names, live, candidates) ==
  LET Witnessed(m) == skolem_witness(m, t[3], candidates, _unwrap_zero_mod_eq, Base, PythonSides)
  IN  emit_disjuncts(skolem_isolate(Witnessed(skolem_derived(skolem_names(SkolemMap(ToSet(t[2])), names), live)), t[3]),
                     {"Int", "Bool", "Array"})
simplify_skolem(s, equations) ==
  LET With(live, candidates) ==
        SkolemPass(s, LAMBDA t : walk_forall(t, s.names, live, candidates), contribute_free)
  IN  With(filter_loaded_skolem_pins(equations, _collect_assert_symbols(s.asserts)),
           collect_candidates(s.asserts, _unwrap_zero_mod_eq, Base))
symbol_key(x) == x
rust_walk_forall(t, s, live, candidates) ==
  LET Witnessed(m) == skolem_witness(m, t[3], candidates, unwrap_zero_mod_eq, symbol_key, RustSides)
      Isolated(m) == skolem_isolate(Witnessed(m), t[3])
  IN  emit_disjuncts(rules_contribute(Isolated(skolem_derived(names_contribute(SkolemMap(ToSet(t[2])), s.names), live)),
                                      s.asserts, t[3]), {"Int", "Bool"})
skolem_apply(s, equations) ==
  LET With(live, candidates) ==
        SkolemPass(s, LAMBDA t : rust_walk_forall(t, s, live, candidates), rust_contribute_free)
  IN  With(filter_live_pins(equations, _collect_assert_symbols(s.asserts)),
           collect_candidates(s.asserts, unwrap_zero_mod_eq, symbol_key))

(* The older pass of its own: the markers are replaced in the body.        *)
\* A sum of one cmp and of products of a variable and a symbol, with the same
\* symbols as a collapsed one has, takes its witness for each variable.
ExpandedWitness(cmps, products, qvars, candidates) ==
  LET Var(r) == {i \in {1, 2} : /\ IsSym(r.factors[i]) /\ r.factors[i][2] \in qvars
                                /\ IsSym(r.factors[3 - i])}
      Fits(r) == r.coeff = 1 /\ Len(r.factors) = 2 /\ Var(r) # {}
      Witnesses(vars, fits) == IF Cardinality(vars) < 2 \/ fits = {} THEN <<>>
                             ELSE [q \in vars |-> (CHOOSE c \in fits : TRUE)[1]]
      Of(rows) == Witnesses({r.factors[Min(Var(r))][2] : r \in rows},
                          {c \in candidates : /\ c[3] = Base(cmps[1].factors[1][2])
                                              /\ c[2] = {Base(r.factors[3 - Min(Var(r))][2]) : r \in rows}})
  IN  IF Len(cmps) # 1 \/ \E r \in products : ~Fits(r) THEN <<>> ELSE Of(products)
_match_expanded_witness(lhs, qvars, candidates) ==
  LET IsCmp(r) == SummandKind(r) = "cmp" /\ r.factors[1][2] \notin qvars
      Of(rows) == ExpandedWitness(SelectSeq(rows, IsCmp), ToSet(SelectSeq(rows, LAMBDA r : ~IsCmp(r))), qvars, candidates)
  IN  IF lhs = <<>> THEN <<>>
      ELSE Of(SelectSeq(Each(_split_product, Leaves("+", lhs[1])), LAMBDA r : SummandKind(r) # "none"))
WitnessSubstituter(t, candidates) ==
  LET Witness(u) == _match_expanded_witness(_unwrap_zero_mod_eq(IF Is(u, "not") THEN u[2] ELSE u), ToSet(t[2]), candidates)
      Without(subst) == Quantified(SelectSeq(t[2], LAMBDA q : q \notin DOMAIN subst), Subst(t[3], subst))
  IN  Without(FoldSet(LAMBDA u, acc : Witness(u) @@ acc, <<>>, Subterms(t[3])))
simplify_witnesses(s) ==
  LET Whole(lhs) == lhs # <<>> /\ SummandsOf(lhs[1], "apart") = <<>>
      Collapsed(lhs) == IF Whole(lhs) THEN _match_collapsed(lhs, Base) ELSE {}
      Substituted(candidates) == Each(LAMBDA a : AtForalls(LAMBDA t : WitnessSubstituter(t, candidates), a), s.asserts)
  IN  Script(s.names, Substituted(UNION {Collapsed(_unwrap_zero_mod_eq(t)) :
                                           t \in UNION {Subterms(s.asserts[i]) : i \in DOMAIN s.asserts}}))
=============================================================================
