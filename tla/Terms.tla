------------------------------- MODULE Terms -------------------------------
(***************************************************************************)
(* The formulas the encoders build and the simplification passes rewrite.  *)
(* A term is a tuple of its operator and its arguments:                    *)
(*   <<"sym", x>>   <<"int", k>>   <<"bool", b>>   <<"app", f, a>>         *)
(*   <<"and", ...>> <<"or", ...>>  <<"not", a>>    <<"=>", a, b>>          *)
(*   <<"=", a, b>>  <<"<=", a, b>> <<"<", a, b>>   <<"+", ...>>            *)
(*   <<"*", ...>>   <<"-", a, b>>  <<"mod", a, m>> <<"div", a, m>>         *)
(*   <<"ite", c, a, b>>  <<"select", v, i>>  <<"store", v, i, a>>          *)
(*   <<"const", a>> (an array that holds a everywhere)                     *)
(*   <<"forall", xs, a>>  <<"exists", xs, a>>                              *)
(* Comments, sorts in declarations and hash-consing are left out.          *)
(***************************************************************************)
EXTENDS Integers, SequencesExt, FiniteSetsExt, TLC

CONSTANTS
  P,       \* the modulus of the field (ARGS().field_type.value), a small prime
  Idx,     \* the indices of the arrays
  Values   \* the values of the names of a script, free or bound: a function to sets
ASSUME PAssumption == P \in Nat /\ P > 1

Sym(x) == <<"sym", x>>
Num(k) == <<"int", k>>
Truth(b) == <<"bool", b>>
Is(t, op) == t[1] = op
IsSym(t) == t[1] = "sym"
IsNum(t) == t[1] = "int"
Args(t) == Tail(t)

\* The builders of the term libraries: a doubled negation and a connective of
\* fewer than two arguments never become nodes.
Not(t) == IF Is(t, "not") THEN t[2] ELSE <<"not", t>>
Connect(op, args) == CASE Len(args) = 0 -> Truth(op = "and")
                       [] Len(args) = 1 -> args[1]
                       [] OTHER -> <<op>> \o args
And(args) == Connect("and", args)
Or(args) == Connect("or", args)
Plus(args) == CASE Len(args) = 0 -> Num(0) [] Len(args) = 1 -> args[1] [] OTHER -> <<"+">> \o args
Times(args) == CASE Len(args) = 0 -> Num(1) [] Len(args) = 1 -> args[1] [] OTHER -> <<"*">> \o args
Eq(a, b) == <<"=", a, b>>
Le(a, b) == <<"<=", a, b>>
Lt(a, b) == <<"<", a, b>>
Mod(a, m) == <<"mod", a, Num(m)>>

wrap_mod(a) == Mod(a, P)
field_eq(a, b) == IF a = b THEN Truth(TRUE) ELSE Eq(wrap_mod(<<"-", a, b>>), Num(0))
field_symbol(x) == And(<<Le(Num(0), x), Lt(x, Num(P))>>)

\* The positions of the arguments that are terms.
Kids(t) == CASE t[1] \in {"sym", "int", "bool"} -> {}
             [] t[1] \in {"app", "forall", "exists"} -> 3..Len(t)
             [] OTHER -> 2..Len(t)
\* (A concatenation is a tuple, whose entries TLC computes once.)
MapKids(F(_), t) == <<t[1]>> \o [i \in 1..Len(t) - 1 |-> IF i + 1 \in Kids(t) THEN F(t[i + 1]) ELSE t[i + 1]]
\* A set in one fixed order, or in a given one. (The enumeration of the
\* community modules looks for it among all functions.)
Listed(S) == FoldSet(LAMBDA x, acc : Append(acc, x), <<>>, S)
SortedList(S, op(_, _)) == SortSeq(Listed(S), op)
IsQuantifier(t) == t[1] \in {"forall", "exists"}

RECURSIVE Subterms(_)
Subterms(t) == {t} \cup UNION {Subterms(t[i]) : i \in Kids(t)}

RECURSIVE FreeVars(_)
FreeVars(t) == IF IsSym(t) THEN {t[2]}
               ELSE UNION {FreeVars(t[i]) : i \in Kids(t)}
                      \ (IF IsQuantifier(t) THEN ToSet(t[2]) ELSE {})

\* Substitution; a quantifier hides the variables it binds.
RECURSIVE Subst(_, _)
Subst(t, s) ==
  IF IsSym(t) THEN (IF t[2] \in DOMAIN s THEN s[t[2]] ELSE t)
  ELSE LET s2 == IF IsQuantifier(t) THEN [x \in DOMAIN s \ ToSet(t[2]) |-> s[x]] ELSE s
       IN  IF DOMAIN s2 = {} THEN t ELSE MapKids(LAMBDA a : Subst(a, s2), t)

-----------------------------------------------------------------------------
(* The meaning of a term in a model: a function from names to values. An   *)
(* array is a function on Idx, and a table (an uninterpreted function) one *)
(* on the argument lists where it is not 0.                                *)
At(f, i) == IF i \in DOMAIN f THEN f[i] ELSE 0
RECURSIVE Eval(_, _), ForEvery(_, _, _)
Eval(t, m) ==
  LET V(i) == Eval(t[i], m) IN
  CASE t[1] \in {"int", "bool"} -> t[2]
    [] t[1] = "sym" -> m[t[2]]
    [] t[1] = "and" -> \A i \in 2..Len(t) : V(i)
    [] t[1] = "or" -> \E i \in 2..Len(t) : V(i)
    [] t[1] = "not" -> ~V(2)
    [] t[1] = "=>" -> V(2) => V(3)
    [] t[1] = "=" -> V(2) = V(3)
    [] t[1] = "<=" -> V(2) <= V(3)
    [] t[1] = "<" -> V(2) < V(3)
    [] t[1] = "+" -> FoldLeft(LAMBDA acc, a : acc + Eval(a, m), 0, Tail(t))
    [] t[1] = "*" -> FoldLeft(LAMBDA acc, a : acc * Eval(a, m), 1, Tail(t))
    [] t[1] = "-" -> V(2) - V(3)
    [] t[1] = "mod" -> V(2) % V(3)
    [] t[1] = "div" -> V(2) \div V(3)
    [] t[1] = "ite" -> IF V(2) THEN V(3) ELSE V(4)
    [] t[1] = "app" -> At(m[t[2]], [i \in 1..Len(t) - 2 |-> V(i + 2)])
    [] t[1] = "select" -> At(V(2), V(3))
    [] t[1] = "store" -> [V(2) EXCEPT ![V(3)] = V(4)]
    [] t[1] = "const" -> [i \in Idx |-> V(2)]
    [] t[1] = "forall" -> ForEvery(t[2], t[3], m)
    [] t[1] = "exists" -> ~ForEvery(t[2], Not(t[3]), m)
ForEvery(xs, t, m) == IF xs = <<>> THEN Eval(t, m)
                      ELSE \A v \in Values[Head(xs)] : ForEvery(Tail(xs), t, (Head(xs) :> v) @@ m)

(* A script: the names it declares, in order, and its assertions.          *)
Script(names, asserts) == [names |-> names, asserts |-> asserts]
Sat(script, m) == \A i \in DOMAIN script.asserts : Eval(script.asserts[i], m)
Assignments(names) ==
  FoldSet(LAMBDA x, acc : {(x :> v) @@ m : v \in Values[x], m \in acc}, {<<>>}, names)
Models(script) == {m \in Assignments(ToSet(script.names)) : Sat(script, m)}
-----------------------------------------------------------------------------
(* Linear forms: coefficients by atom, and a constant; NoForm if there is  *)
(* none. linear_form takes symbols only for atoms; ufnorm takes any term   *)
(* it cannot open.                                                         *)
NoForm == [ok |-> FALSE, coef |-> <<>>, const |-> 0]
Atom(c, t) == [ok |-> TRUE, coef |-> t :> c, const |-> 0]
Constant(k) == [ok |-> TRUE, coef |-> <<>>, const |-> k]
SumForms(f, g) ==
  IF f.ok /\ g.ok
  THEN [ok |-> TRUE, const |-> f.const + g.const,
        coef |-> [a \in DOMAIN f.coef \cup DOMAIN g.coef |-> At(f.coef, a) + At(g.coef, a)]]
  ELSE NoForm
ScaleForm(c, f) == [f EXCEPT !.const = c * @, !.coef = [a \in DOMAIN @ |-> c * @[a]]]

RECURSIVE LinearOver(_, _)
LinearOver(t, opaque) ==
  LET Closed == IF opaque THEN Atom(1, t) ELSE NoForm
      Product(k, open) == CASE open = {} -> Constant(k)
                            [] Cardinality(open) = 1 -> ScaleForm(k, LinearOver(t[Max(open)], opaque))
                            [] OTHER -> Closed IN
  CASE IsNum(t) -> Constant(t[2])
    [] IsSym(t) -> Atom(1, t)
    [] Is(t, "+") -> FoldLeft(LAMBDA acc, a : SumForms(acc, LinearOver(a, opaque)), Constant(0), Tail(t))
    [] Is(t, "-") -> SumForms(LinearOver(t[2], opaque), ScaleForm(-1, LinearOver(t[3], opaque)))
    [] Is(t, "*") -> Product(FoldLeft(LAMBDA acc, a : IF IsNum(a) THEN acc * a[2] ELSE acc, 1, Tail(t)),
                             {i \in 2..Len(t) : ~IsNum(t[i])})
    [] OTHER -> Closed
linear_form(t) == LinearOver(t, FALSE)

\* The atoms with a coefficient that is not zero.
Support(f) == {a \in DOMAIN f.coef : f.coef[a] # 0}
ModForm(f, m) == [f EXCEPT !.const = @ % m, !.coef = [a \in DOMAIN @ |-> @[a] % m]]

\* A linear form as a sum, its atoms in one fixed order.
FormTerm(f) ==
  LET Summand(a) == IF f.coef[a] = 1 THEN a ELSE <<"*", Num(f.coef[a]), a>>
      parts == FoldSet(LAMBDA a, acc : Append(acc, Summand(a)), <<>>, Support(f))
  IN  Plus(IF f.const = 0 THEN parts ELSE Append(parts, Num(f.const)))

\* The inverse of a unit; the code runs Euclid's algorithm.
IsUnit(a, m) == \E b \in 1..m-1 : (a * b) % m = 1
Inv(a, m) == CHOOSE b \in 1..m-1 : (a * b) % m = 1
=============================================================================
