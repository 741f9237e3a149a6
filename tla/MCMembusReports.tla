--------------------------- MODULE MCMembusReports ---------------------------
(* Small circuits for membus.  Chain: two accesses of one register, with a    *)
(* comparison of constraint form and one of range-check form; ChainLess: the  *)
(* same without what happens in between.  Pointers: an access of one base and *)
(* two of another one, which may coincide, and the same without the interior  *)
(* pair.  Loose: a comparison too wide for the field.  Limbs: pointers with a  *)
(* carry, switched by is_valid.                                               *)
(* Opcode: an access that is a load or a store.                               *)
EXTENDS MCMemoryEncoding, MembusReports

\* The coefficients given are canonical: P is 29.
Lin(m, k) == [coef |-> m @@ <<>>, const |-> k]
One(x) == Lin(x :> 1, 0)
Aff(m, k) == <<<<Lin(m, k)>>>>
Var(x) == Aff(x :> 1, 0)
Const(k) == Aff(<<>>, k)
Prod(ls) == <<ls>>
MemRow(m, s, p, d, t) == [mult |-> m, space |-> s, ptr |-> p, data |-> <<d>>, ts |-> t]
InWidth(e, width, m) == [bus |-> "var", args |-> <<e>>, width |-> width, mult |-> m]
Plain == [subs |-> {}, load |-> <<>>, flags |-> <<>>, access |-> <<>>, assumed |-> TRUE, valid |-> {}]
\* t - p - 1 - l = 0
LaterThan(t, p, l) == Lin([x \in {t, p, l} |-> IF x = t THEN 1 ELSE -1], -1)
Later(t, p, l) == <<<<LaterThan(t, p, l)>>>>
Next1(t, s, d) == Aff([x \in {t, s} |-> IF x = t THEN 1 ELSE -1], -d)

ChainRows ==
  <<MemRow(Const(-1), Const(1), Const(8), Var("a"), Var("p0")), MemRow(Const(1), Const(1), Const(8), Var("a"), Var("t0")),
    MemRow(Const(-1), Const(1), Const(8), Var("b"), Var("p1")), MemRow(Const(1), Const(1), Const(8), Var("b"), Var("t1"))>>
ChainCons == <<Next1("t1", "t0", 2), Later("t0", "p0", "l0")>>
ChainChecks == <<InWidth(Var("l0"), 4, Const(1)), InWidth(Var("m0"), 4, Const(1)),
                 InWidth(Aff([t1 |-> -7, p1 |-> 7, m0 |-> 7], 7), 2, Const(1))>>
Chain1 == Plain @@ [cons |-> ChainCons, checks |-> ChainChecks, rows |-> ChainRows, entry |-> "t0",
                   cols |-> <<"a", "b", "t0", "t1", "p0", "l0", "p1", "m0">>,
                   times |-> {"t0", "t1", "p0", "p1"}]
\* The second send is written over the first clock.
ChainLess ==
  Plain @@ [cons |-> <<Later("t0", "p0", "l0")>>, checks |-> <<InWidth(Var("l0"), 4, Const(1))>>,
           rows |-> <<ChainRows[1], MemRow(Const(1), Const(1), Const(8), Var("a"), Aff([t0 |-> 1], 2))>>,
           entry |-> "t0", cols |-> <<"a", "t0", "p0", "l0">>, times |-> {"t0", "p0"}]

\* x = base + k: the other root of the product is out of reach.
IsAt(x, b, k) == Prod(<<Lin([y \in {x, b} |-> IF y = x THEN 1 ELSE -1], -k),
                        Lin([y \in {x, b} |-> IF y = x THEN 1 ELSE -1], 8 - k)>>)
PtrCons == <<IsAt("xr", "br", 1), IsAt("xs", "bs", 1), Next1("t1", "t0", 1), Next1("t2", "t1", 1),
             Later("t0", "p0", "l0"), Later("t1", "p1", "l1"), Later("t2", "p2", "l2")>>
PtrChecks == <<InWidth(Var("br"), 2, Const(1)), InWidth(Var("bs"), 2, Const(1)), InWidth(Var("xr"), 4, Const(1)),
               InWidth(Var("xs"), 4, Const(1)), InWidth(Var("l0"), 4, Const(1)), InWidth(Var("l1"), 4, Const(1)),
               InWidth(Var("l2"), 4, Const(1))>>
PtrRow(m, x, t) == MemRow(Const(m), Const(2), Var(x), Const(0), Var(t))
PtrRows == <<PtrRow(-1, "xr", "p0"), PtrRow(1, "xr", "t0"), PtrRow(-1, "xs", "p1"),
             PtrRow(1, "xs", "t1"), PtrRow(-1, "xs", "p2"), PtrRow(1, "xs", "t2")>>
Pointers ==
  Plain @@ [cons |-> PtrCons, checks |-> PtrChecks, rows |-> PtrRows, entry |-> "t0",
           cols |-> <<"br", "bs", "xr", "xs", "t0", "t1", "t2", "p0", "l0", "p1", "l1", "p2", "l2">>,
           times |-> {"t0", "t1", "t2", "p0", "p1", "p2"}]
PointersLess ==
  [Pointers EXCEPT !.rows = <<PtrRows[1], PtrRows[2], PtrRows[3], PtrRows[6]>>,
                   !.cons = SubSeq(PtrCons, 1, 6), !.checks = SubSeq(PtrChecks, 1, 6),
                   !.cols = SubSeq(@, 1, 11), !.times = @ \ {"p2"}]

\* A comparison whose range is too wide for the field.
Loose ==
  Plain @@ [cons |-> <<Later("t0", "p0", "l0")>>, checks |-> <<InWidth(Var("l0"), P - 1, Const(1))>>,
           rows |-> SubSeq(ChainRows, 1, 2), entry |-> "t0",
           cols |-> <<"a", "t0", "p0", "l0">>, times |-> {"t0", "p0"}]

\* Low limbs x = b + 2 and y = b + 3 up to a carry of 4; everything is switched
\* by is_valid, v.
WithCarry(x, k) == Prod(<<Lin([z \in {x, "b"} |-> IF z = x THEN 1 ELSE -1], -k),
                          Lin([z \in {x, "b"} |-> IF z = x THEN 1 ELSE -1], 4 - k)>>)
LimbRow(k, x, t) == MemRow(Aff([v |-> k], 0), Const(2), Aff([z \in {x, "h"} |-> IF z = x THEN 1 ELSE 4], 0), Const(0), Var(t))
Limbs4 ==
  [Plain EXCEPT !.valid = {"v"}] @@
  [cons |-> <<WithCarry("x", 2), WithCarry("y", 3), Next1("t1", "t0", 1),
              Later("t0", "p0", "l0"), Later("t1", "p1", "l1")>>,
   checks |-> <<InWidth(Var("b"), 4, Var("v")), InWidth(Var("h"), 2, Var("v")), InWidth(Var("x"), 4, Var("v")),
                InWidth(Var("y"), 4, Var("v")), InWidth(Var("l0"), 4, Var("v")), InWidth(Var("l1"), 4, Var("v"))>>,
   rows |-> <<LimbRow(-1, "x", "p0"), LimbRow(1, "x", "t0"), LimbRow(-1, "y", "p1"), LimbRow(1, "y", "t1")>>,
   entry |-> "t0", times |-> {"t0", "t1", "p0", "p1"},
   cols |-> <<"v", "b", "h", "x", "y", "t0", "t1", "p0", "l0", "p1", "l1">>]

\* Flags f and g of an access decide ld, which decides space, kind and gates.
Opcode ==
  [Plain EXCEPT !.load = [o |-> "ld"], !.flags = [o |-> {"f", "g"}], !.access = [z \in {"f", "g", "ld"} |-> "o"]] @@
  [cons |-> <<Prod(<<One("f"), Lin([f |-> 1], -1)>>), Prod(<<One("g"), Lin([g |-> 1], -1)>>),
              <<<<One("ld")>>, <<Lin([f |-> -1], 0), One("g")>>>>, <<<<One("f"), One("g")>>, <<Lin(<<>>, -1)>>>>,
              Next1("t1", "t0", 1),
              <<<<One("ld"), LaterThan("t0", "p0", "l0")>>>>, <<<<One("f"), LaterThan("t1", "p1", "l1")>>>>>>,
   checks |-> <<InWidth(Var("l0"), 4, Const(1)), InWidth(Var("l1"), 4, Const(1))>>,
   rows |-> <<MemRow(Aff([ld |-> -1], 0), Aff([ld |-> 1], 1), <<<<Lin(<<>>, 3), One("f"), One("g")>>>>, Var("a"), Var("p0")),
              MemRow(Var("ld"), Aff([ld |-> 1], 1), Const(3), Var("a"), Var("t0")),
              MemRow(Aff([ld |-> -1], 1), Aff([ld |-> 1], 1), Const(5), Var("a"), Var("t1")),
              MemRow(Const(-1), Const(2), Const(3), Var("a"), Var("p1")), MemRow(Const(1), Const(2), Const(3), Var("a"), Var("t1"))>>,
   entry |-> "t0", times |-> {"t0", "t1", "p0", "p1"},
   cols |-> <<"a", "f", "g", "ld", "t0", "t1", "p0", "l0", "p1", "l1">>]

MCDumps == [chain |-> Chain1, chain_less |-> ChainLess, pointers |-> Pointers, pointers_less |-> PointersLess,
            loose |-> Loose, limbs |-> Limbs4, opcode |-> Opcode]
MCBaseValues == 0..2
Register == [before |-> "chain", after |-> "chain_less", active |-> TRUE, solved |-> TRUE]
Heap == [before |-> "pointers", after |-> "pointers_less", active |-> TRUE, solved |-> TRUE]
MCSteps == {Register, Heap}
MCFollowed == {Register}
MCRowIds == [before |-> <<"b0", "b1", "b2", "b3", "b4", "b5">>, after |-> <<"a0", "a1", "a2", "a3">>]
\* What the theorems about the facts assume is true of these circuits.
ASSUME GrantedAssumption == AllGranted
=============================================================================
