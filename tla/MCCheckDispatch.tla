--------------------------- MODULE MCCheckDispatch --------------------------
(* Scripts with no disjunction, with two and with three disjuncts: without   *)
(* a model, with a model of the last disjunct only, with a model of all.     *)
EXTENDS CheckDispatch

MCAsg == {"a", "b"}
MCScripts == { [ctx |-> {}, goal |-> <<>>], [ctx |-> {"a", "b"}, goal |-> <<>>],
               [ctx |-> {"a"}, goal |-> <<{"b"}, {}, {"b"}>>],
               [ctx |-> {"a"}, goal |-> <<{"b"}, {"a", "b"}>>],
               [ctx |-> {"a", "b"}, goal |-> <<{"a"}, {"a", "b"}>>] }
MCSteps == {"inlining", "other"}
=============================================================================
