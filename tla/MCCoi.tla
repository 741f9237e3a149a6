------------------------------- MODULE MCCoi --------------------------------
(* One index: a chain and a cycle through x, y and z, a conjunct reachable  *)
(* only through the boundary variable m, and one conjunct over m alone.     *)
EXTENDS Coi

MCCtx == 1..6
MCVars == {"x", "y", "z", "u", "m", "n"}
MCBoundary == {"m", "n"}
MCFV == << {"x", "y"}, {"y", "z", "m"}, {"m", "u"}, {"m"}, {"x", "z"}, {"u", "n"} >>
=============================================================================
