--------------------------- MODULE MCSlicedChecker --------------------------
(* A context of six conjuncts over two arithmetic variables x and y, a      *)
(* witness variable q, boundary variables m and n and an array variable a.   *)
(* Exactly one assignment satisfies it: all variables true.                  *)
EXTENDS SlicedChecker

MCVars == {"x", "y", "m", "n", "q", "a"}
MCBoundary == {"m", "n"}
MCWitnessVars == {"q"}
MCScalars == {"x", "y", "m", "n", "q"}
MCCtx == {"m->x", "m", "n", "y", "q=x", "a=m"}
MCFormulas == {"!x", "!y", "!q", "!m", "y&m", "x&y&(m|n)", "false"}
MCTrivial == {"false"}

MCFV == [f \in MCCtx \cup MCFormulas |->
  CASE f = "m->x" -> {"m", "x"} [] f = "m" -> {"m"} [] f = "n" -> {"n"} [] f = "y" -> {"y"}
    [] f = "q=x" -> {"q", "x"}  [] f = "a=m" -> {"a", "m"}
    [] f = "!x" -> {"x"} [] f = "!y" -> {"y"} [] f = "!q" -> {"q"} [] f = "!m" -> {"m"}
    [] f = "y&m" -> {"y", "m"} [] f = "x&y&(m|n)" -> {"x", "y", "m", "n"} [] f = "false" -> {}]

MCAsg == [MCVars -> BOOLEAN]

MCHolds(f, v) ==
  CASE f = "m->x" -> v["m"] => v["x"] [] f = "m" -> v["m"] [] f = "n" -> v["n"] [] f = "y" -> v["y"]
    [] f = "q=x" -> v["q"] = v["x"] [] f = "a=m" -> v["a"] = v["m"]
    [] f = "!x" -> ~v["x"] [] f = "!y" -> ~v["y"] [] f = "!q" -> ~v["q"] [] f = "!m" -> ~v["m"]
    [] f = "y&m" -> v["y"] /\ v["m"] [] f = "x&y&(m|n)" -> v["x"] /\ v["y"] /\ (v["m"] \/ v["n"])
    [] f = "false" -> FALSE

MCSem == [f \in MCCtx \cup MCFormulas |-> {v \in MCAsg : MCHolds(f, v)}]

\* A formula depends on its free variables only.
ASSUME \A f \in MCCtx \cup MCFormulas : \A v, w \in MCAsg :
         (\A x \in MCFV[f] : v[x] = w[x]) => (v \in MCSem[f] <=> w \in MCSem[f])

MCCollects == {[given |-> FALSE, cap |-> 0], [given |-> TRUE, cap |-> -1], [given |-> TRUE, cap |-> 0]}
MCClass == [f \in MCFormulas |-> IF f \in {"!q", "!x"} THEN "uf" ELSE "plain"]
MCGoals == { <<"!x", "!y", "!q", "!x">>, <<"!m", "false", "!q">>, <<"!y", "y&m">>,
             <<"!m", "x&y&(m|n)">> }
=============================================================================
