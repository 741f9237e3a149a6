---------------------------- MODULE Eliminations ----------------------------
(***************************************************************************)
(* The passes that remove declarations: solve_eqs and solve_store_eqs      *)
(* substitute what a top-level equality defines, rewrite_store_eqs takes   *)
(* equalities of store chains apart, and flatten_outer_array splits an     *)
(* array that is only used at constant indices into one symbol per index.  *)
(***************************************************************************)
EXTENDS NormalForms

CONSTANT Depths     \* the nesting of the arrays, by name; other names are scalars
ASSUME EliminationsAssumption == \A x \in DOMAIN Depths : Depths[x] \in Nat

RECURSIVE Depth(_)
Depth(t) == CASE IsSym(t) -> At(Depths, t[2])
              [] Is(t, "store") -> Depth(t[2])
              [] Is(t, "const") -> 1 + Depth(t[2])
              [] Is(t, "select") -> Depth(t[2]) - 1
              [] Is(t, "ite") -> Depth(t[3])
              [] OTHER -> 0
IsArray(t) == Depth(t) > 0
Select(t, k) == <<"select", t, k>>
Store(t, k, v) == <<"store", t, k, v>>
NotTrue(t) == t # Truth(TRUE)

(* A connective without its neutral arguments, and folded by a dominating  *)
(* one where the walker looks for it.                                      *)
Kept(op, args) == Connect(op, SelectSeq(args, LAMBDA a : a # Truth(op = "and")))
NegationOf(t) == IF Is(t, "bool") THEN Truth(~t[2]) ELSE Not(t)

\* (= e e) is true; solve_eqs cleans the conjunctions, solve_store_eqs also
\* the disjunctions and the negations.
RECURSIVE _FoldRefl(_, _)
_FoldRefl(t, ops) ==
  LET Of(u) == CASE u[1] = "=" -> IF u[2] = u[3] /\ ~IsBool(u[2]) THEN Truth(TRUE) ELSE u
                 [] u[1] \in {"and", "or"} \cap ops -> Kept(u[1], Tail(u))
                 [] u[1] = "not" /\ "not" \in ops -> NegationOf(u[2])
                 [] OTHER -> u
  IN  Of(MapKids(LAMBDA a : _FoldRefl(a, ops), t))

\* The side that is eliminated: of two, the one declared later.
_pick_elim_target(Ok(_, _), t, names) ==
  LET Eligible(x, e) == IsSym(x) /\ x[2] \in ToSet(names) /\ x[2] \notin FreeVars(e) /\ Ok(x, e)
      Place(x) == CHOOSE i \in DOMAIN names : names[i] = x[2]
      left == Eligible(t[2], t[3])
      right == Eligible(t[3], t[2]) IN
  IF IsBool(t[2]) \/ ~(left \/ right) THEN <<>>
  ELSE IF left /\ (right => Place(t[2]) >= Place(t[3])) THEN <<t[2], t[3]>> ELSE <<t[3], t[2]>>
\* The first eligible equality that only conjunctions are above.
RECURSIVE _find_candidate_in_conjunct(_, _, _)
_find_candidate_in_conjunct(Ok(_, _), t, names) ==
  CASE Is(t, "=") -> _pick_elim_target(Ok, t, names)
    [] Is(t, "and") -> FoldLeft(LAMBDA acc, a : IF acc # <<>> THEN acc
                                                ELSE _find_candidate_in_conjunct(Ok, a, names),
                                <<>>, Tail(t))
    [] OTHER -> <<>>
RECURSIVE Eliminated(_, _, _)
Eliminated(Ok(_, _), s, ops) ==
  LET Without(x, e) == Script(SelectSeq(s.names, LAMBDA n : n # x),
                              SelectSeq(Each(LAMBDA t : _FoldRefl(Subst(t, x :> e), ops), s.asserts), NotTrue))
      Of(found) == IF found = <<>> THEN s ELSE Eliminated(Ok, Without(found[1][2], found[2]), ops)
  IN  Of(_find_candidate_in_conjunct(Ok, <<"and">> \o s.asserts, s.names))

_contains_array_store(e) == \E u \in Subterms(e) : Is(u, "store")
simplify_solve_eqs(s) == Eliminated(LAMBDA x, e : ~_contains_array_store(e), s, {"and"})
_pick_2d_target(x, e) == Depth(x) = 2 /\ e[1] \in {"store", "const"}
simplify_solve_store_eqs(s) == Eliminated(_pick_2d_target, s, {"and", "or", "not"})
-----------------------------------------------------------------------------
(* rewrite_store_eqs                                                       *)

\* Indices are compared with sums and products sorted and inner mods dropped.
NoMod == <<"none">>
Sorted(args) == FlattenSeq(Each(LAMBDA a : SelectSeq(args, LAMBDA b : b = a), Listed(ToSet(args))))
RECURSIVE _canon_arith(_, _)
_canon_arith(t, m) ==
  LET Bare(u, k) == IF Is(u, "mod") /\ u[3] = k THEN u[2] ELSE u IN
  CASE Is(t, "mod") -> <<"mod", Bare(_canon_arith(t[2], t[3]), t[3]), t[3]>>
    [] t[1] \in {"+", "*"} -> <<t[1]>> \o Sorted(Each(LAMBDA a : Bare(_canon_arith(a, m), m), Tail(t)))
    [] OTHER -> t
SameIndex(i, j) == i = j \/ _canon_arith(i, NoMod) = _canon_arith(j, NoMod)

\* The value at a constant index, looked up through stores at constants.
RECURSIVE _read(_, _)
_read(t, k) ==
  CASE IsNum(k) /\ Is(t, "store") /\ IsNum(t[3]) -> IF t[3] = k THEN t[4] ELSE _read(t[2], k)
    [] IsNum(k) /\ Is(t, "const") -> t[2]
    [] OTHER -> Select(t, k)

\* An equality of arrays, one store peeled at a time: the values at its index
\* agree, and so do the arrays below.
RECURSIVE _reduce(_, _)
_reduce(a, b) ==
  LET Agree(u, v) == IF IsArray(u) THEN _reduce(u, v) ELSE Eq(u, v)
      stores == Is(a, "store") /\ Is(b, "store") IN
  CASE a = b -> Truth(TRUE)
    [] stores /\ SameIndex(a[3], b[3]) -> Kept("and", <<Agree(a[4], b[4]), _reduce(a[2], b[2])>>)
    [] stores /\ ~SameIndex(a[3], b[3]) /\ IsNum(a[3]) /\ IsNum(b[3]) ->
         Kept("and", <<Agree(a[4], _read(b, a[3])), Agree(_read(a, b[3]), b[4]), _reduce(a[2], b[2])>>)
    [] ~stores /\ Is(a, "store") /\ IsNum(a[3]) -> Kept("and", <<Agree(a[4], _read(b, a[3])), _reduce(a[2], b)>>)
    [] ~stores /\ Is(b, "store") /\ IsNum(b[3]) -> Kept("and", <<Agree(_read(a, b[3]), b[4]), _reduce(a, b[2])>>)
    [] Is(a, "const") /\ Is(b, "const") -> Agree(a[2], b[2])
    [] OTHER -> Eq(a, b)
Dominated(op, args) == IF Truth(op = "or") \in ToSet(args) THEN Truth(op = "or") ELSE Kept(op, args)
RECURSIVE _StoreEqReducer(_)
_StoreEqReducer(t) ==
  LET Of(u) == CASE Is(u, "=") /\ IsArray(u[2]) -> _reduce(u[2], u[3])
                 [] Is(u, "select") -> _read(u[2], u[3])
                 [] u[1] \in {"and", "or"} -> Dominated(u[1], Tail(u))
                 [] Is(u, "not") -> NegationOf(u[2])
                 [] OTHER -> u
  IN  Of(MapKids(_StoreEqReducer, t))
simplify_rewrite_store_eqs(asserts) == SelectSeq(Each(_StoreEqReducer, asserts), NotTrue)
-----------------------------------------------------------------------------
(* flatten_outer_array: the arrays of the greatest depth, one round.       *)
_collect_outer_decls(names) ==
  LET Of(x) == At(Depths, x)
  IN  {x \in ToSet(names) : Of(x) > 0 /\ \A y \in ToSet(names) : Of(y) <= Of(x)}
RECURSIVE Peeled(_)
Peeled(t) == IF Is(t, "store") THEN Peeled(t[2]) ELSE t
Accesses(t, x) == {u \in Subterms(t) : u[1] \in {"select", "store"} /\ Peeled(u[2]) = Sym(x)}
\* A symbol is one node however often it occurs: one use as the array of an
\* access or as a side of an equality speaks for all of an assertion.
UsedAsArray(t, x) == \E u \in Subterms(t) :
  \/ u[1] \in {"select", "store"} /\ u[2] = Sym(x)
  \/ u[1] = "=" /\ Sym(x) \in {u[2], u[3]}
_scan_uses(asserts, outer) ==
  LET Reads(x) == UNION {Accesses(asserts[i], x) : i \in DOMAIN asserts}
      Holds(x) == {i \in DOMAIN asserts : Sym(x) \in Subterms(asserts[i])}
  IN  [indices |-> {u[3][2] : u \in {r \in UNION {Reads(x) : x \in outer} : IsNum(r[3])}},
       referenced |-> {x \in outer : Holds(x) # {}},
       ineligible |-> {x \in outer : \/ \E u \in Reads(x) : ~IsNum(u[3])
                                     \/ \E i \in Holds(x) : ~UsedAsArray(asserts[i], x)}]

Part(x, k) == x \o "__" \o ToString(k)
RECURSIVE _project(_, _, _), _FlattenWalker(_, _, _)
_project(t, k, flat) ==
  CASE IsSym(t) /\ t[2] \in flat -> Sym(Part(t[2], k))
    [] Is(t, "store") /\ IsNum(t[3]) -> IF t[3] = Num(k) THEN t[4] ELSE _project(t[2], k, flat)
    [] Is(t, "const") -> t[2]
    [] Is(t, "ite") -> <<"ite", t[2], _project(t[3], k, flat), _project(t[4], k, flat)>>
    [] OTHER -> Select(t, Num(k))
_FlattenWalker(t, flat, indices) ==
  LET IsFlat(a) == IsSym(a) /\ a[2] \in flat
      Of(u) == CASE Is(u, "select") /\ IsFlat(u[2]) /\ IsNum(u[3]) -> Sym(Part(u[2][2], u[3][2]))
                 [] Is(u, "=") /\ (IsFlat(u[2]) \/ IsFlat(u[3])) ->
                      And(Each(LAMBDA k : Eq(_project(u[2], k, flat), _project(u[3], k, flat)), SortedList(indices, <)))
                 [] OTHER -> u
  IN  Of(MapKids(LAMBDA a : _FlattenWalker(a, flat, indices), t))
_flatten_one_round(s) ==
  LET Parts(flat, indices) == FlattenSeq(Each(LAMBDA x : Each(LAMBDA k : Part(x, k), SortedList(indices, <)),
                                              SelectSeq(s.names, LAMBDA x : x \in flat)))
      Flat(flat, gone, indices) ==
        IF flat = {} \/ indices = {} THEN s
        ELSE Script(SelectSeq(s.names, LAMBDA x : x \notin gone) \o Parts(flat, indices),
                    Each(LAMBDA t : _FlattenWalker(t, flat, indices), s.asserts))
      Of(outer, uses) == Flat(uses.referenced \ uses.ineligible, outer \ uses.ineligible, uses.indices)
      Outer(outer) == Of(outer, _scan_uses(s.asserts, outer))
  IN  Outer(_collect_outer_decls(s.names))
\* The pass fails when an array of arrays is left.
Survivors(s) == {x \in UNION {FreeVars(s.asserts[i]) : i \in DOMAIN s.asserts} : At(Depths, x) >= 2}
simplify_flatten_outer_array(s) == _flatten_one_round(s)
=============================================================================
