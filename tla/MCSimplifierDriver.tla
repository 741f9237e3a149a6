------------------------ MODULE MCSimplifierDriver --------------------------
(* All pipelines of up to three passes, and longer ones in which groups of   *)
(* either executor come first, in between and last.                          *)
EXTENDS SimplifierDriver
MCPipelines == UNION {[1..k -> Executors] : k \in 1..3}
               \cup {<<"", "p", "">>, <<"r", "r", "p", "r">>, <<"p", "r", "r", "p">>}
=============================================================================
