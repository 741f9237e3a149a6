-------------------------- MODULE MCProcessTimeout --------------------------
(* main.py, the solver it runs, and a helper of the solver.                  *)
EXTENDS ProcessTimeout
MCAncestors == [main |-> {}, solver |-> {"main"}, helper |-> {"main", "solver"}]
=============================================================================
