------------------------------ MODULE MCPasses ------------------------------
(***************************************************************************)
(* Small scripts of every shape the encoders produce, and the pipelines    *)
(* that are run on them, modulo 5.                                         *)
(***************************************************************************)
EXTENDS Passes

X == Sym("x")
Y == Sym("y")
C == Sym("c")
D == Sym("d")
U == Sym("u")
V == Sym("v")
q == Sym("q")
r == Sym("r")
n(k) == Num(k)
Sub(s, t) == <<"-", s, t>>
Zero(t) == Eq(Mod(t, 5), n(0))
InField(v) == <<Le(n(0), v), Lt(v, n(5))>>
Imp(s, t) == <<"=>", s, t>>

(* The names of a comparison gadget with two limbs, before and after.      *)
Column(base, kind, track, limb) ==
  [x \in {"b_" \o base, "a_" \o base} |->
     [side |-> IF x = "b_" \o base THEN "before" ELSE "after",
      base |-> base, kind |-> kind, track |-> track, limb |-> limb, sort |-> "Int"]]
Plain(names) == [x \in names |-> [side |-> "", base |-> x, kind |-> "other", track |-> 0, limb |-> 0, sort |-> "Int"]]
MCNaming == Column("b0", "b", 0, 0) @@ Column("b1", "b", 0, 1) @@ Column("c", "cmp_result", 1, 0)
            @@ Column("dv", "diff_val", 1, 0) @@ Column("f", "free_var", 1, 1)
            @@ Column("d0", "diff_marker", 1, 0) @@ Column("d1", "diff_marker", 1, 1)
            @@ Column("m0", "diff_inv_marker", 1, 0) @@ Column("m1", "diff_inv_marker", 1, 1)
            @@ Plain({"x", "y", "q", "r", "uf_xor", "uf_and", "uf_or", "uf_mod_inv"})

AnyPort == {{"python", "rust"}}

(* Values. The tables give residues what the bus gives them.               *)
Bit(k, i) == (k \div 2^i) % 2
Bits(f(_, _), k, l) == f(Bit(k, 0), Bit(l, 0)) + 2 * f(Bit(k, 1), Bit(l, 1)) + 4 * f(Bit(k, 2), Bit(l, 2))
Table(f(_, _)) == [kl \in (0..9) \X (0..9) |-> Bits(f, kl[1] % 5, kl[2] % 5)]
Inverses == [t \in {<<1>>, <<2>>, <<3>>, <<4>>} |-> Inv(t[1], 5)]
Inner == [0..1 -> 0..1]
Ranged == [x \in {"x", "y", "z"} |-> -1..5]
Fields == [x \in {"c", "d", "q", "r", "w", "__mod_inv_0", "__mod_inv_1", "b_dv", "a_dv", "b_m0", "b_m1", "a_f"} |-> 0..4]
Flags == [x \in {"u", "v", "a_b0", "a_b1", "a_c", "a_d0", "a_d1", "b_b0", "b_b1", "b_c", "b_d0", "b_d1"} |-> 0..1]
MCValues == Ranged @@ Fields @@ Flags @@ ("c!diff" :> -4..4) @@ ("d!diff" :> -4..4)
            @@ [x \in {"p1", "p2"} |-> BOOLEAN]
            @@ ("uf_xor" :> {Table(LAMBDA k, l : (k + l) % 2)}) @@ ("uf_and" :> {Table(LAMBDA k, l : k * l)})
            @@ ("uf_or" :> {Table(LAMBDA k, l : k + l - k * l)})
            @@ ("uf_mod_inv" :> {Inverses}) @@ (umod :> {[ab \in (-60..60) \X {3, 5} |-> ab[1] % ab[2]]})
            @@ [x \in {"A", "B"} |-> [0..1 -> Inner]] @@ [x \in {"A__0", "A__1", "B__0", "B__1"} |-> Inner]
MCDepths == ("A" :> 2) @@ ("B" :> 2) @@ [x \in {"A__0", "A__1", "B__0", "B__1"} |-> 1]

OverIntegers(given, tactics) ==
  [script |-> given, equations |-> <<>>, pipelines |-> tactics, ports |-> AnyPort, integers |-> TRUE]
Plainly(given, tactics) == [OverIntegers(given, tactics) EXCEPT !.integers = FALSE]
Pairs(tactics) == [1..2 -> tactics]
Arith == {"nnf", "demod", "normalize", "bounds", "rewrite", "factor_reduce", "intervals2", "domain_probe"}

\* A selector and what it switches; the last assertion is a proper multiple of
\* the third one under a negation.
Selectors ==
  OverIntegers(Script(<<"x", "y">>,
        <<field_symbol(X), field_symbol(Y),
          Zero(Times(<<X, Sub(X, n(1))>>)),
          Zero(Plus(<<X, Times(<<n(2), Y>>), n(-3)>>)),
          Imp(Le(n(1), X), Not(And(<<Lt(Y, n(1)), Zero(Times(<<X, Sub(X, n(1)), Y>>))>>)))>>),
      [1..3 -> Arith])

\* A range that only a witness tells, and mods below an equation and an ite.
Residues ==
  OverIntegers(Script(<<"x", "y">>,
        <<Eq(X, Mod(X, 5)), Le(n(0), Y), Not(Le(n(4), Y)),
          Eq(Mod(Plus(<<X, Times(<<n(2), Y>>)>>), 5), n(3)),
          Or(<<Eq(Mod(X, 5), Y), Eq(Mod(<<"ite", Lt(X, Y), X, n(7)>>, 5), n(2)), Le(Times(<<n(-2), Y>>), Sub(X, n(6)))>>)>>),
      Pairs({"demod", "normalize", "intervals", "intervals2", "factor_reduce", "nnf"})
        \cup {<<t, "closed">> : t \in {"demod", "normalize", "intervals2", "factor_reduce"}})

\* Values at the ends of their ranges: bounds of both signs, strict and not.
Edges ==
  OverIntegers(Script(<<"x", "y">>,
        <<Le(n(-1), X), Lt(Times(<<n(2), X>>), n(7)), Not(Lt(Y, Plus(<<n(1), Times(<<n(-1), X>>)>>))), Le(Y, n(5)),
          Or(<<Not(Le(Mod(X, 5), n(2))), Eq(Mod(Sub(Y, X), 5), n(1))>>),
          Or(<<Lt(X, Y), And(<<Le(n(2), X), Le(Y, X)>>), Eq(n(3), Y)>>)>>),
      Pairs({"demod", "normalize", "intervals", "intervals2", "nnf"}) \cup {<<"demod", "closed">>, <<"closed">>})

\* A quantifier that hides its variable, and one domain for what is outside.
Quantifiers ==
  OverIntegers(Script(<<"x", "y">>,
        <<field_symbol(X), Le(n(1), Y), Le(Y, n(4)),
          <<"forall", <<"q">>, Or(<<Not(Le(n(0), q)), Not(Lt(q, n(5))), Not(Zero(Plus(<<q, X, n(-1)>>))), Eq(Mod(q, 5), n(1)), Lt(q, Y)>>)>>,
          Not(<<"exists", <<"r">>, And(<<Eq(r, Mod(r, 5)), Eq(Mod(Times(<<r, Y>>), 5), n(2)), Lt(X, Sub(r, n(3)))>>)>>),
          Or(<<Le(X, n(1)), Le(n(3), X)>>)>>),
      Pairs({"nnf", "demod", "normalize", "intervals", "intervals2", "rewrite", "lift"}))

\* Constants to fold, connectives to open.
Propositions ==
  Plainly(Script(<<"p1", "p2", "x">>,
        <<Or(<<Sym("p1"), Not(And(<<Sym("p1"), Not(Sym("p2"))>>)), Eq(n(1), n(2))>>),
          Imp(Imp(Sym("p1"), Sym("p2")), <<"and", Or(<<Sym("p2"), Le(X, n(3))>>), Le(Plus(<<n(1), n(2)>>), n(4))>>),
          Or(<<Le(Plus(<<n(1), X, n(2)>>), n(4)), Sym("p1")>>),
          Not(Imp(<<"ite", Le(n(1), n(2)), Sym("p1"), Sym("p2")>>, And(<<Sym("p2"), Lt(X, n(0))>>)))>>),
      {"nnf", "evaluator"} \X {"evaluator", "nnf"})

\* Two columns that only their difference matters of; it may be -2 where it is
\* congruent to 3.
Differences ==
  OverIntegers(Script(<<"c", "d">>,
        <<Or(<<Eq(Mod(Times(<<n(3), Sub(C, D), Sub(C, D)>>), 5), n(2)), Zero(Sub(Times(<<C, C>>), Plus(<<Times(<<n(2), C, D>>), Times(<<n(-1), D, D>>)>>)))>>),
          Or(<<Zero(Plus(<<Sub(D, C), n(2)>>)), Not(Le(C, n(2)))>>), Le(D, Plus(<<C, n(1)>>))>>),
      Pairs({"diff_vars", "normalize", "bounds", "nnf", "demod"}))

\* The cross terms with a third one do not agree.
NoDifference ==
  OverIntegers(Script(<<"c", "d", "u">>,
        <<Zero(Plus(<<Times(<<C, C>>), Times(<<n(-2), C, D>>), Times(<<D, D>>), Times(<<C, U>>)>>)), Lt(D, n(3))>>),
      {<<"diff_vars">>, <<"normalize">>})

\* The tables, on columns and on sums of flags; one application is local to a
\* quantifier.
App2(f, a, b) == App(f, <<a, b>>)
UV == Mod(Plus(<<U, Times(<<n(6), V>>)>>), 5)
Bytewise ==
  Plainly(Script(<<"c", "d", "u", "v", "uf_xor", "uf_and", "uf_or">>,
        <<Eq(App2("uf_xor", C, D), App2("uf_or", C, C)), Le(App2("uf_and", C, UV), n(1)),
          Or(<<Eq(App2("uf_or", UV, n(0)), D), Eq(App2("uf_xor", D, D), U), Eq(App2("uf_and", V, n(0)), V)>>),
          Imp(Le(C, n(2)), Eq(App2("uf_and", D, n(3)), n(0))),
          <<"exists", <<"q">>, And(<<Lt(q, n(2)), Eq(App2("uf_xor", q, U), n(1))>>)>>>>),
      Pairs({"bitwise", "ufnorm", "nnf"}))

\* The inverse of a column, as a definition or in a formula. A script has one
\* assertion with an inverse: what becomes of two is a question of its own.
Definition ==
  Plainly(Script(<<"c", "d", "uf_mod_inv">>,
        <<field_symbol(D),
          Eq(D, Mod(<<"ite", Eq(Mod(C, 5), n(0)), n(0), Times(<<n(2), uf_mod_inv(Mod(C, 5))>>)>>, 5))>>),
      Pairs({"mod_inv", "demod", "bounds", "nnf"}))
Inversions ==
  Plainly(Script(<<"c", "d", "uf_mod_inv">>,
        <<field_symbol(D),
          Or(<<Eq(C, n(0)), Eq(D, n(0)),
               Eq(Mod(Times(<<n(2), uf_mod_inv(C)>>), 5), uf_mod_inv(Mod(Times(<<n(3), D>>), 5)))>>),
          <<"exists", <<"q">>, And(<<Lt(n(0), q), Lt(q, n(3)), Le(uf_mod_inv(q), C)>>)>>>>),
      Pairs({"mod_inv", "demod", "nnf"}))

\* Memory: arrays of arrays, written and read at constants.
A == Sym("A")
B == Sym("B")
Memory ==
  Plainly(Script(<<"u", "v", "A", "B">>,
        <<Eq(V, Times(<<V, V>>)), And(<<Eq(U, Sub(n(1), V)), Le(n(0), U)>>),
          Eq(A, Store(Store(B, n(1), Store(Select(B, n(1)), n(0), U)), n(0), Select(B, n(0)))),
          Or(<<Not(Eq(A, Store(B, n(1), Select(A, n(1))))), Eq(Select(Select(A, n(0)), n(1)), V)>>)>>),
      {<<"flatten_outer_array", "solve_eqs">>, <<"solve_eqs", "solve_store_eqs", "flatten_outer_array">>})
Chain ==
  Plainly(Script(<<"u", "v", "A", "B">>,
        <<Eq(Store(Store(A, n(0), Select(B, n(1))), n(1), Select(B, n(0))), Store(A, n(1), Store(Select(B, n(0)), n(0), V))),
          Or(<<Eq(Store(Select(A, n(0)), n(1), U), Store(Select(A, n(0)), n(1), V)), Not(Eq(Select(B, n(1)), Select(A, n(0))))>>)>>),
      {<<"rewrite_store_eqs", "solve_store_eqs">>, <<"rewrite_store_eqs", "flatten_outer_array">>})
\* Reads through the stores of the other side; the bases agree where both write.
Reads ==
  Plainly(Script(<<"u", "v", "A", "B">>,
        <<Eq(Select(A, n(0)), Select(B, n(1))),
          Eq(Store(Store(A, n(0), Select(B, n(1))), n(1), Select(B, n(0))), Store(A, n(0), Select(B, n(1)))),
          Le(Select(Select(Store(Store(A, n(1), Select(B, n(1))), n(0), Select(B, n(0))), n(1)), n(0)), U), Le(U, V)>>),
      {<<"rewrite_store_eqs">>, <<"rewrite_store_eqs", "solve_eqs">>})

\* A small domain per symbol, from a choice, from bounds, from roots.
Domains ==
  OverIntegers(Script(<<"x", "c", "d">>,
        <<Or(<<Eq(X, n(-1)), Eq(X, n(2))>>), Zero(Times(<<C, Sub(C, n(1))>>)), Le(n(1), D), Not(Le(n(3), D)),
          Eq(Mod(Plus(<<X, C, D>>), 5), n(4)), Not(Eq(C, n(1)))>>),
      {<<"domain_probe", "demod">>, <<"rewrite", "domain_probe">>})

\* Pins that free one another; the variables come back as free ones.
Prefix == <<"nnf", "skolem", "lift", "witness", "demod", "isqf">>
Norm == <<"bounds", "demod", "normalize", "bitwise", "mod_inv", "demod">>
Pinned ==
  [Plainly(Script(<<"x", "y">>,
        <<field_symbol(Y),
          <<"forall", <<"q", "r">>, Or(<<Not(Eq(q, Mod(Plus(<<X, n(1)>>), 5))), Not(Eq(r, Mod(Plus(<<q, n(1)>>), 5))), Eq(r, Y)>>)>>>>),
      {<<"lift", "demod", "isqf">>, Prefix})
   EXCEPT !.equations = <<Eq(q, X), Eq(Y, r)>>]

\* The equations are the only source of a value ...
Derived ==
  [Pinned EXCEPT !.script.asserts[2] =
     <<"forall", <<"q", "r">>, Or(<<Not(Zero(Sub(q, Plus(<<X, n(1)>>)))), Not(Zero(Sub(r, Times(<<n(2), q>>)))), Eq(r, Y)>>)>>,
                 !.pipelines = {Prefix},
                 !.equations = <<Eq(q, X), Eq(Y, Plus(<<X, Y>>)), Eq(r, Plus(<<X, n(1)>>))>>]
\* ... or there is none, and a variable stays whose term is not free.
StaysBound ==
  Plainly(Script(<<"x", "y">>,
        <<field_symbol(Y),
          <<"forall", <<"q", "r">>, Or(<<Not(Eq(q, Mod(Plus(<<r, n(1)>>), 5))), Not(Le(r, X)), Lt(q, Y)>>)>>>>),
      {<<"lift", "demod">>, <<"nnf", "skolem", "lift", "demod">>})

\* The skolem pass. Both sides have the same inputs and outputs, and a model is
\* an execution after that is none before: a comparison with 1 whose columns
\* are auxiliary ...
b(x) == Sym("b_" \o x)
a(x) == Sym("a_" \o x)
Apart(x) == Not(Eq(b(x), a(x)))
Interface == <<Apart("b0"), Apart("b1"), Apart("c")>>
Checked == <<Eq(b("dv"), n(0))>> \o Interface    \* the difference is range-checked to be positive
Sign == Plus(<<n(4), Times(<<n(2), b("c")>>)>>)
Marked(t) == Plus(<<n(1), Minus1(b("d1"))>> \o t)
Comparison ==
  <<Zero(Times(<<b("d0"), Plus(<<Times(<<Plus(<<n(4), b("b0")>>), Sign>>), b("dv")>>)>>)),
    Zero(Times(<<b("d1"), Plus(<<Times(<<b("b1"), Sign>>), b("dv")>>)>>)),
    Zero(Times(<<Plus(<<b("d0"), b("d1")>>), Plus(<<b("d0"), b("d1"), n(4)>>)>>)),
    Zero(Times(<<Marked(<<>>), Minus1(b("b1")), Sign>>)),
    Zero(Times(<<Marked(<<Minus1(b("d0"))>>), Plus(<<n(1), Minus1(b("b0"))>>), Sign>>)),
    Zero(Times(<<Marked(<<Minus1(b("d0"))>>), b("c")>>))>>
Compared ==
  Plainly(Script(<<"a_b0", "a_b1", "a_c", "a_dv", "a_d0", "a_d1">>,
        <<<<"forall", <<"b_b0", "b_b1", "b_c", "b_dv", "b_d0", "b_d1">>, Or(Each(Not, Comparison) \o Checked)>>>>),
      {Prefix})
Or0(m, t) == Not(Or(<<Eq(b(m), n(0)), Zero(t)>>))
ComparedSplit ==
  [Compared EXCEPT !.script.asserts[1][3] =
     Or(<<Or0("d0", Plus(<<b("dv"), Times(<<Plus(<<n(-1), b("b0")>>), Sign>>)>>)),
          Or0("d1", Plus(<<Times(<<Sign, b("b1")>>), b("dv")>>))>> \o SubSeq(Each(Not, Comparison), 3, 6) \o Checked)]
\* ... and is still constrained afterwards, to other values than the canonical
\* ones (the python port sets them all the same) ...
StillConstrained ==
  [Compared EXCEPT !.ports = {{"rust"}},
                   !.script.asserts = @ \o
     <<Zero(Times(<<a("d0"), Plus(<<Times(<<Plus(<<n(4), a("b0")>>), Plus(<<n(4), Times(<<n(2), a("c")>>)>>)>>), a("dv")>>)>>)),
       Zero(Plus(<<a("d0"), n(4)>>))>>]
\* ... an equality whose inverse markers were collapsed into one variable ...
Collapsed ==
  Plainly(Script(<<"a_b0", "a_b1", "a_c", "a_f">>,
        <<Zero(Plus(<<Times(<<a("f"), Plus(<<a("b0"), a("b1")>>)>>), Minus1(a("c"))>>)),
          <<"forall", <<"b_b0", "b_b1", "b_c", "b_m0", "b_m1">>,
            Or(<<Not(Zero(Plus(<<Times(<<b("m0"), b("b0")>>), Times(<<b("m1"), b("b1")>>), Minus1(b("c"))>>))),
                 Not(Eq(b("c"), n(1)))>> \o Interface)>>>>),
      {Prefix, Prefix \o Norm})
\* ... or were not, and the first limb that differs from 0 carries the value ...
Expanded ==
  [Collapsed EXCEPT !.script.names = <<"a_b0", "a_b1", "a_c", "uf_mod_inv">>,
                    !.script.asserts[1] = Imp(Eq(a("c"), n(1)), Not(And(<<Eq(a("b0"), n(0)), Eq(a("b1"), n(0))>>)))]
\* ... and variables that stand alone with their solution.
Alone ==
  Plainly(Script(<<"a_b0">>,
        <<<<"forall", <<"b_m0", "b_m1", "b_b0">>,
            Or(<<Not(Zero(Plus(<<Times(<<b("m0"), b("m1")>>), n(4)>>))), Not(Zero(Plus(<<b("m0"), n(3)>>))),
                 Apart("b0"), Eq(b("b0"), n(1))>>)>>>>),
      {Prefix, <<"skolem", "lift", "isqf">>})

\* One formula of every kind beside bounds of every kind, one pass at a time.
Known ==
  <<<<Le(n(0), X), Le(X, n(4)), Lt(n(1), Times(<<n(2), Y>>)), Le(Y, n(5))>>,
    <<Not(Lt(X, n(0))), Not(Le(n(6), X)), Le(n(0), Y), Lt(Y, n(3))>>,
    <<Eq(X, Mod(X, 5)), Not(Lt(Y, n(1))), Lt(Plus(<<Y, Times(<<n(2), Y>>)>>), n(10))>>,
    <<Le(X, n(2)), Le(n(2), Y), Not(Le(Times(<<n(2), X>>), n(-1)))>>,
    <<Or(<<Zero(Sub(X, n(1))), Lt(Y, n(1))>>), Zero(Times(<<Y, Sub(Y, n(4))>>))>>,
    <<Zero(Sub(X, n(1))), Or(<<Lt(Y, n(0)), Not(Le(Y, n(2)))>>)>>>>
Formulas ==
  <<Or(<<Eq(Mod(X, 5), Y), Le(Y, n(1))>>),
    Eq(Mod(Plus(<<X, Times(<<n(2), Y>>)>>), 5), n(3)),
    Not(Eq(Mod(Sub(Times(<<n(2), X>>), Y), 5), n(1))),
    Or(<<Eq(Mod(Plus(<<X, Y>>), 5), n(1)), Le(X, Y)>>),
    Zero(Plus(<<Times(<<n(2), X>>), n(1)>>)),
    Not(And(<<Lt(X, n(2)), Lt(n(2), Y)>>)),
    Or(<<Le(Times(<<X, Y>>), n(3)), Zero(Times(<<X, Y>>))>>),
    Eq(Mod(Mod(X, 3), 5), Mod(Y, 5)),
    Or(<<Zero(Plus(<<Times(<<X, X>>), n(2)>>)), Zero(Times(<<Y, Sub(Y, n(2))>>))>>),
    Zero(Times(<<Sub(X, n(1)), Sub(Y, n(2))>>)),
    Or(<<Zero(Plus(<<Times(<<X, X, X>>), X, n(1)>>)), Lt(X, Y)>>),
    Eq(Mod(<<"ite", Lt(X, Y), X, n(7)>>, 5), n(2)),
    Or(<<Le(Y, X), Not(Le(Mod(Sub(X, Y), 5), n(2)))>>),
    Zero(Times(<<X, Sub(X, n(4))>>)),
    Or(<<Lt(Mod(X, 5), Y), Eq(n(4), Mod(Y, 5))>>),
    Or(<<Zero(Times(<<n(2), X>>)), Lt(Y, n(1))>>),
    Not(Zero(Plus(<<Y, n(1)>>))),
    <<"exists", <<"q">>, And(<<Le(n(0), q), Lt(q, n(5)), Eq(Mod(Times(<<q, Y>>), 5), X)>>)>>,
    <<"forall", <<"q">>, Or(<<Not(Eq(q, Mod(q, 5))), Not(Lt(X, q)), Not(Zero(Sub(q, Y)))>>)>>>>
Beside(facts, goal) ==
  OverIntegers(Script(<<"x", "y">>, Append(facts, goal)),
      {<<t>> : t \in {"demod", "normalize", "rewrite", "factor_reduce", "intervals", "intervals2", "domain_probe"}
                      \cup IF IsQuantifier(goal) THEN {} ELSE {"closed"}})
Family == FlattenSeq(Each(LAMBDA facts : Each(LAMBDA goal : Beside(facts, goal), Formulas), Known))

MCJobs == Family \o <<Selectors, Residues, Edges, Quantifiers, Propositions, Differences, NoDifference, Bytewise, Definition, Inversions,
            Memory, Chain, Reads, Domains, Pinned, Derived, StaysBound,
            Compared, ComparedSplit, StillConstrained, Collapsed, Expanded, Alone>>

\* Two assertions with an inverse each, neither of them a definition.
TwoInverses ==
  Plainly(Script(<<"c", "d", "uf_mod_inv">>,
        <<Not(Eq(C, n(0))), Not(Eq(D, n(0))), Not(Eq(C, D)), Lt(n(0), uf_mod_inv(C)), Lt(n(0), uf_mod_inv(D))>>),
      {<<"mod_inv">>})
MCInverseJobs == <<TwoInverses>>
=============================================================================
