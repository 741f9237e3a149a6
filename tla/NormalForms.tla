---------------------------- MODULE NormalForms ----------------------------
(***************************************************************************)
(* The passes that rewrite a formula without looking at any other: the     *)
(* negation normal form and the constant folding, each as the python       *)
(* pipeline and as the rust pipeline computes it, and the canonical        *)
(* arguments of the bitwise tables. The rust pipeline reads back what      *)
(* another one wrote, so each must keep the meaning of what it is given.   *)
(***************************************************************************)
EXTENDS Terms

(* nnf.py / nnf.rs *)
Flatten(op, args) ==
  Connect(op, FlattenSeq([i \in DOMAIN args |-> IF Is(args[i], op) THEN Tail(args[i]) ELSE <<args[i]>>]))
FlattenAnd(args) == Flatten("and", args)
FlattenOr(args) == Flatten("or", args)
Each(F(_), args) == <<>> \o [i \in DOMAIN args |-> F(args[i])]
SubstAll(asserts, s) == Each(LAMBDA t : Subst(t, s), asserts)

\* The negation of a formula that is in normal form already.
RECURSIVE NegateNnf(_)
NegateNnf(t) == CASE Is(t, "and") -> FlattenOr(Each(NegateNnf, Tail(t)))
                  [] Is(t, "or") -> FlattenAnd(Each(NegateNnf, Tail(t)))
                  [] OTHER -> Not(t)

RECURSIVE NNFConverter(_)
NNFConverter(t) ==
  LET Rebuilt(u) == CASE t[1] \in {"and", "or"} -> Flatten(t[1], Tail(u))
                      [] Is(t, "not") -> NegateNnf(u[2])
                      [] Is(t, "=>") -> FlattenOr(<<NegateNnf(u[2]), u[3]>>)
                      [] OTHER -> u
  IN  Rebuilt(MapKids(NNFConverter, t))

\* The rust converter goes down and pushes a negation as it meets it; below
\* atoms and below a negated quantifier or ite it does not look.
RECURSIVE convert_to_nnf(_), negate(_)
negate(t) ==
  CASE Is(t, "not") -> convert_to_nnf(t[2])
    [] Is(t, "and") -> FlattenOr(Each(negate, Tail(t)))
    [] Is(t, "or") -> FlattenAnd(Each(negate, Tail(t)))
    [] Is(t, "=>") -> FlattenAnd(<<convert_to_nnf(t[2]), negate(t[3])>>)
    [] OTHER -> Not(t)
convert_to_nnf(t) ==
  CASE Is(t, "not") -> negate(t[2])
    [] Is(t, "=>") -> FlattenOr(<<negate(t[2]), convert_to_nnf(t[3])>>)
    [] t[1] \in {"and", "or"} -> Flatten(t[1], Each(convert_to_nnf, Tail(t)))
    [] t[1] \in {"forall", "exists"} -> <<t[1], t[2], convert_to_nnf(t[3])>>
    [] OTHER -> t
-----------------------------------------------------------------------------
(* Constant folding. The python pass calls the simplifier of the term      *)
(* library and reduces a result that is a number; the rust pass folds by   *)
(* itself and reduces every number it folds.                               *)
IsConstant(t) == t[1] \in {"int", "bool"}
Literal(v, boolean) == IF boolean THEN Truth(v) ELSE Num(v)
BoolOps == {"and", "or", "not", "=>", "<=", "<", "="}
RECURSIVE IsBool(_)
IsBool(t) == t[1] \in BoolOps \cup {"bool", "forall", "exists"} \/ (t[1] = "ite" /\ IsBool(t[3]))

FoldNode(u) ==
  CASE u[1] \in {"sym", "int", "bool", "app"} -> u
    [] u[1] \in {"and", "or"} ->
         IF \E i \in Kids(u) : u[i] = Truth(u[1] = "or") THEN Truth(u[1] = "or")
         ELSE Connect(u[1], SelectSeq(Tail(u), LAMBDA a : a # Truth(u[1] = "and")))
    [] u[1] = "ite" /\ IsConstant(u[2]) -> IF u[2][2] THEN u[3] ELSE u[4]
    [] u[1] = "=" /\ u[2] = u[3] -> Truth(TRUE)
    [] IsQuantifier(u) -> IF IsConstant(u[3]) THEN u[3] ELSE u
    [] OTHER -> IF \A i \in Kids(u) : IsConstant(u[i])
                THEN Literal(Eval(u, <<>>), u[1] \in BoolOps)
                ELSE IF Is(u, "not") THEN Not(u[2]) ELSE u
RECURSIVE Simplified(_)
Simplified(t) == FoldNode(MapKids(Simplified, t))

\* Substitution of a model, folded until nothing changes, three times at most.
RECURSIVE PartialRounds(_, _, _)
PartialRounds(t, model, left) ==
  LET Again(next) == IF next = t THEN t ELSE PartialRounds(next, model, left - 1)
  IN  IF left = 0 \/ IsConstant(t) THEN t ELSE Again(Simplified(Subst(t, model)))
partial_evaluate(t, model) ==
  LET Reduced(u) == IF IsNum(u) THEN Num(u[2] % P) ELSE u IN Reduced(PartialRounds(t, model, 3))

IntAtom(v) == Num(v % P)
fold_nary(u) ==
  LET unit == Num(IF Is(u, "*") THEN 1 ELSE 0)
      Joined(rest, total) == IF rest = <<>> THEN total
                             ELSE Connect(u[1], IF total = unit THEN rest ELSE Append(rest, total))
      Of(nums) == IF nums = <<>> THEN u
                  ELSE Joined(SelectSeq(Tail(u), LAMBDA a : ~IsNum(a)), IntAtom(Eval(<<u[1]>> \o nums, <<>>)))
  IN  Of(SelectSeq(Tail(u), IsNum))

RECURSIVE fold_int(_), fold_bool(_)
fold_int(t) ==
  CASE t[1] \in {"+", "*"} ->
         IF \E i \in Kids(t) : IsNum(t[i])
         THEN fold_nary([i \in DOMAIN t |-> IF i = 1 THEN t[1] ELSE fold_int(t[i])]) ELSE t
    [] t[1] \in {"-", "mod", "div"} /\ IsNum(t[2]) /\ IsNum(t[3]) /\ (t[1] = "-" \/ t[3][2] # 0) ->
         IntAtom(Eval(t, <<>>))
    [] t[1] \in {"sym", "int"} -> t
    [] OTHER -> MapKids(LAMBDA a : IF IsBool(a) THEN fold_bool(a) ELSE fold_int(a), t)
fold_bool(t) ==
  LET Remaining(open, n) == IF Len(open) = n THEN t ELSE Connect(t[1], open)
      Rejoined(args) == IF Truth(t[1] = "or") \in ToSet(args) THEN Truth(t[1] = "or")
                          ELSE Remaining(SelectSeq(args, LAMBDA a : ~IsConstant(a)), Len(args))
      Negated(u) == IF IsConstant(u) THEN Truth(~u[2]) ELSE Not(u) IN
  CASE t[1] \in {"bool", "sym", "forall", "exists"} -> t
    [] t[1] \in {"and", "or"} -> Rejoined(Each(fold_bool, Tail(t)))
    [] t[1] = "not" -> Negated(fold_bool(t[2]))
    [] t[1] = "=" /\ IsConstant(t[2]) /\ IsConstant(t[3]) -> Truth(t[2] = t[3])
    [] t[1] = "ite" /\ IsConstant(t[2]) -> fold_bool(IF t[2][2] THEN t[3] ELSE t[4])
    [] OTHER -> MapKids(LAMBDA a : IF IsBool(a) THEN fold_bool(a) ELSE fold_int(a), t)

RECURSIVE fold_constants_fixpoint(_, _)
fold_constants_fixpoint(t, left) ==
  LET Again(next) == IF next = t THEN t ELSE fold_constants_fixpoint(next, left - 1)
  IN  IF left = 0 THEN t ELSE Again(fold_bool(t))
-----------------------------------------------------------------------------
(* ufnorm: the arguments of the bitwise tables reduced to one form. What   *)
(* is kept are the axioms that connect an application with its form; that  *)
(* a table does not tell an argument from its residue is granted, so a     *)
(* model here gives a table on residues.                                   *)
Tables == {"uf_and", "uf_xor"}
canon_arg(a) ==
  LET inner == IF Is(a, "mod") THEN a[2] ELSE a IN
  CASE IsSym(a) \/ (Is(a, "mod") /\ a[3] # Num(P)) -> a
    [] IsNum(a) -> Num(a[2] % P)
    [] OTHER -> wrap_mod(FormTerm(ModForm(LinearOver(inner, TRUE), P)))
\* The python pass leaves an argument alone that holds a product of two terms.
PyCanonArg(a) ==
  IF \E b \in DOMAIN LinearOver(IF Is(a, "mod") THEN a[2] ELSE a, TRUE).coef : Is(b, "*") THEN a ELSE canon_arg(a)
OnArgs(F(_), app) == [i \in DOMAIN app |-> IF i > 2 THEN F(app[i]) ELSE app[i]]

\* The rust pass collects the applications with a stack and stays out of
\* quantifiers; the python one rebuilds every formula and goes into them.
RECURSIVE collect_apps(_)
collect_apps(t) == IF IsQuantifier(t) THEN {}
                   ELSE (IF Is(t, "app") /\ t[2] \in Tables THEN {t} ELSE {})
                          \cup UNION {collect_apps(t[i]) : i \in Kids(t)}
Applications(t) == {a \in Subterms(t) : Is(a, "app") /\ a[2] \in Tables}
Connected(F(_), apps) ==
  LET Joined(a, b) == IF a = b THEN <<>> ELSE <<Eq(a, b)>> IN FlattenSeq(Each(LAMBDA a : Joined(a, OnArgs(F, a)), Listed(apps)))
simplify_ufnorm(asserts) ==
  Connected(PyCanonArg, UNION {Applications(asserts[i]) : i \in DOMAIN asserts}) \o asserts
ufnorm_apply(asserts) ==
  Connected(canon_arg, UNION {collect_apps(asserts[i]) : i \in DOMAIN asserts}) \o asserts
=============================================================================
