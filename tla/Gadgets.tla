------------------------------ MODULE Gadgets ------------------------------
(***************************************************************************)
(* The passes that give the gadgets of the machine their meaning: the      *)
(* bitwise tables (bitwise), the inverse of a field element (mod_inv) and  *)
(* the range of a column (bounds), each as the python and as the rust      *)
(* pipeline does it.                                                       *)
(***************************************************************************)
EXTENDS NormalForms

CONSTANTS
  ByteMax,   \* 255
  Columns    \* the names that end in @ and digits
ASSUME GadgetsAssumption == ByteMax \in Nat

App(f, args) == <<"app", f>> \o args
Implies(a, b) == <<"=>", a, b>>

(* bitwise: lemmas about every application of a table. A term inside a     *)
(* quantifier is not seen from outside; there it counts only when it       *)
(* mentions what the quantifier binds.                                     *)
BitwiseTables == {"uf_xor", "uf_and", "uf_or"}
RECURSIVE bitwise_terms(_)
bitwise_terms(t) ==
  (IF Is(t, "app") /\ t[2] \in BitwiseTables THEN {t} ELSE {})
  \cup (IF IsQuantifier(t) THEN {} ELSE UNION {bitwise_terms(t[i]) : i \in Kids(t)})
_bitwise_terms_for_scope(t, bound) == {a \in bitwise_terms(t) : FreeVars(a) \cap bound # {}}

ByteGuard(x, y) == And(<<Le(Num(0), x), Le(x, Num(ByteMax)), Le(Num(0), y), Le(y, Num(ByteMax))>>)
MaskGuard(x, y) == And(<<Le(Num(0), x), Le(x, Num(ByteMax)), Eq(y, Num(ByteMax))>>)

\* x + y = xor + 2*and, and the ranges of and and or, for bytes.
_ground_linking_lemmas(t) ==
  LET Lemmas(x, y, conj, disj) ==
        <<Eq(Plus(<<x, y>>), Plus(<<t, Times(<<Num(2), conj>>)>>)),
          And(<<Le(Num(0), conj), Le(conj, x), Le(conj, y)>>),
          And(<<Eq(disj, <<"-", Plus(<<x, y>>), conj>>), Le(Num(0), disj), Le(disj, Num(ByteMax))>>)>>
      Of(x, y) == Each(LAMBDA a : Implies(ByteGuard(x, y), a),
                       Lemmas(x, y, App("uf_and", <<x, y>>), App("uf_or", <<x, y>>)))
  IN  IF t[2] # "uf_xor" \/ t[3] = t[4] THEN <<>> ELSE Of(t[3], t[4])
_ground_xor_lemmas(t) ==
  LET x == t[3]
      y == t[4]
  IN  IF x = y THEN <<Eq(t, Num(0))>>
      ELSE <<Eq(Eq(x, y), Eq(t, Num(0))), Eq(Eq(x, Num(0)), Eq(t, y)), Eq(Eq(y, Num(0)), Eq(t, x)),
             Implies(MaskGuard(x, y), Eq(t, <<"-", Num(ByteMax), x>>)),
             Implies(MaskGuard(y, x), Eq(t, <<"-", Num(ByteMax), y>>))>>
_ground_and_lemmas(t) ==
  LET x == t[3]
      y == t[4]
  IN  IF x = y THEN <<Eq(t, x)>>
      ELSE <<Implies(Eq(x, y), Eq(t, x)), Implies(Eq(x, Num(0)), Eq(t, Num(0))),
             Implies(Eq(y, Num(0)), Eq(t, Num(0))),
             Implies(MaskGuard(x, y), Eq(t, x)), Implies(MaskGuard(y, x), Eq(t, y))>>
_ground_or_lemmas(t) ==
  LET x == t[3]
      y == t[4]
  IN  IF x = y THEN <<Eq(t, x)>>
      ELSE <<Implies(Eq(x, y), Eq(t, x)), Implies(Eq(x, Num(0)), Eq(t, y)),
             Implies(Eq(y, Num(0)), Eq(t, x)),
             Implies(MaskGuard(x, y), Eq(t, Num(ByteMax))), Implies(MaskGuard(y, x), Eq(t, Num(ByteMax)))>>
TableLemmas(t) == CASE t[2] = "uf_xor" -> _ground_xor_lemmas(t)
                    [] t[2] = "uf_and" -> _ground_and_lemmas(t)
                    [] t[2] = "uf_or" -> _ground_or_lemmas(t)
LemmasOf(F(_), apps) == FlattenSeq(Each(F, Listed(apps)))

\* An application at 0 or at equal arguments is a value.
FoldTable(t) ==
  LET x == t[3]
      y == t[4]
      zero == x = Num(0) \/ y = Num(0)
      other == IF x = Num(0) THEN y ELSE x IN
  CASE t[2] \in {"uf_xor", "uf_or"} /\ zero -> other
    [] t[2] = "uf_and" /\ zero -> Num(0)
    [] t[2] \in {"uf_and", "uf_or"} /\ x = y -> x
    [] t[2] = "uf_xor" /\ x = y -> Num(0)
    [] OTHER -> t
IsTable(t) == Is(t, "app") /\ t[2] \in BitwiseTables

_conjoin_axioms_flat(body, axioms) ==
  IF axioms = <<>> THEN body ELSE And((IF Is(body, "and") THEN Tail(body) ELSE <<body>>) \o axioms)
RECURSIVE BitwiseQuantifierSubstituter(_, _)
BitwiseQuantifierSubstituter(F(_), t) ==
  LET Of(u) == CASE IsTable(u) -> FoldTable(u)
                 [] IsQuantifier(u) -> <<u[1], u[2], _conjoin_axioms_flat(u[3],
                                          LemmasOf(F, _bitwise_terms_for_scope(u[3], ToSet(u[2]))))>>
                 [] OTHER -> u
  IN  Of(MapKids(LAMBDA a : BitwiseQuantifierSubstituter(F, a), t))

\* One round: an axiom follows the first assertion that needs it. seen holds
\* those that are in the script already.
BitwiseRound(F(_), s) ==
  LET Joined(acc, t, new) == [seen |-> acc.seen \cup ToSet(new), out |-> acc.out \o <<t>> \o new]
      Of(acc, t) == Joined(acc, t, SelectSeq(LemmasOf(F, bitwise_terms(t)), LAMBDA x : x \notin acc.seen))
  IN  FoldLeft(LAMBDA acc, a : Of(acc, BitwiseQuantifierSubstituter(F, a)), [seen |-> s.seen, out |-> <<>>], s.out)
simplify_bitwise(asserts) ==
  BitwiseRound(TableLemmas, BitwiseRound(_ground_linking_lemmas, [seen |-> {}, out |-> asserts])).out

\* rust: no quantifier is opened, and the axioms of all assertions follow the last.
RECURSIVE fold_bitwise_bool(_)
fold_bitwise_bool(t) ==
  LET Of(u) == IF IsTable(u) THEN FoldTable(u) ELSE u
  IN  IF IsQuantifier(t) THEN t ELSE Of(MapKids(fold_bitwise_bool, t))
emit_axioms(t) == _ground_linking_lemmas(t) \o TableLemmas(t)
bitwise_apply(asserts) ==
  LET With(folded) == folded \o LemmasOf(emit_axioms, UNION {bitwise_terms(folded[i]) : i \in DOMAIN folded})
  IN  With(Each(fold_bitwise_bool, asserts))
-----------------------------------------------------------------------------
(* mod_inv: V = (ite (T = 0) 0 (C * inv(T))) becomes two implications on   *)
(* V; any other application becomes a new variable with an axiom.          *)
ModInv(t) == Is(t, "app") /\ t[2] = "uf_mod_inv"
Stripped(t) == IF Is(t, "mod") THEN t[2] ELSE t
Factors(t) == IF Is(t, "*") THEN Tail(t) ELSE <<t>>
ZeroSide(t) == IF t[3] = Num(0) THEN 3 ELSE 2
_match_mod_inv_definition(t) ==
  LET Shaped(ite) == /\ Is(ite, "ite") /\ ite[3] = Num(0) /\ Is(ite[2], "=") /\ Num(0) \in {ite[2][2], ite[2][3]}
      DividedIn(over, factors, k, inv, moduli) ==
        IF Stripped(inv[3]) = Stripped(over) /\ Cardinality(moduli) = 1
        THEN <<t[2], Stripped(over), Times(RemoveAt(factors, k)), CHOOSE m \in moduli : TRUE>> ELSE <<>>
      DividedAt(over, factors, k) ==
        IF k = 0 THEN <<>>
        ELSE DividedIn(over, factors, k, factors[k], {u[3] : u \in {v \in {t[3], over, factors[k][3]} : Is(v, "mod")}})
      Of(over, factors) == DividedAt(over, factors, SelectInSeq(factors, ModInv))
      Whole(ite) == IF Shaped(ite) THEN Of(ite[2][5 - ZeroSide(ite[2])], Factors(ite[4])) ELSE <<>>
  IN  IF Is(t, "=") /\ IsSym(t[2]) THEN Whole(Stripped(t[3])) ELSE <<>>
IsZeroMod(t) == Eq(wrap_mod(t), Num(0))
Folded(d) == <<Implies(IsZeroMod(d[2]), Eq(d[1], Num(0))),
               Implies(Not(IsZeroMod(d[2])), Eq(<<"mod", Times(<<d[2], d[1]>>), d[4]>>, <<"mod", d[3], d[4]>>))>>

\* The applications outside quantifiers, in one fixed order: the i-th of an
\* assertion is replaced by FreshName[i], in every assertion.
FreshName == <<"__mod_inv_0", "__mod_inv_1", "__mod_inv_2", "__mod_inv_3">>
RECURSIVE InvApps(_), Replaced(_, _)
InvApps(t) == IF IsQuantifier(t) THEN {}
              ELSE (IF ModInv(t) THEN {t} ELSE {}) \cup UNION {InvApps(t[i]) : i \in Kids(t)}
Replaced(t, apps) ==
  IF IsQuantifier(t) THEN t
  ELSE IF t \in ToSet(apps) THEN Sym(FreshName[CHOOSE i \in DOMAIN apps : apps[i] = t])
  ELSE MapKids(LAMBDA a : Replaced(a, apps), t)
_FallbackModInvRewriter(t) ==
  LET Axiom(i, arg) == Implies(Not(IsZeroMod(arg)), Eq(wrap_mod(Times(<<Sym(FreshName[i]), arg>>)), Num(1)))
      Of(apps) == Script([i \in DOMAIN apps |-> FreshName[i]],
                         <<Replaced(t, apps)>> \o [i \in DOMAIN apps |-> Axiom(i, Replaced(apps[i][3], apps))])
  IN  Of(Listed(InvApps(t)))
Declare(names, new) == names \o SelectSeq(new, LAMBDA x : x \notin ToSet(names))
ModInvWith(F(_), s) ==
  LET Joined(acc, r) == Script(Declare(acc.names, r.names), acc.asserts \o r.asserts)
  IN  FoldLeft(LAMBDA acc, t : Joined(acc, F(t)), Script(s.names, <<>>), s.asserts)
RewriteModInv(t) ==
  LET Of(d) == IF d # <<>> THEN Script(<<>>, Folded(d)) ELSE _FallbackModInvRewriter(t)
  IN  Of(_match_mod_inv_definition(t))
simplify_mod_inv(s) == ModInvWith(RewriteModInv, s)
mod_inv_apply(s) == ModInvWith(_FallbackModInvRewriter, s)
-----------------------------------------------------------------------------
(* bounds: the columns that occur free are field elements.                 *)
simplify_bounds(asserts) ==
  LET columns == Listed(Columns \cap UNION {FreeVars(asserts[i]) : i \in DOMAIN asserts})
  IN  Each(LAMBDA x : field_symbol(Sym(x)), columns) \o asserts
=============================================================================
