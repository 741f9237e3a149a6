------------------------- MODULE MCVerifyPipeline --------------------------
(* Three pairs of two blocks, with two, one and no VCs, on one or two jobs.  *)
EXTENDS VerifyPipeline, TLC
MCBlocks == {"b1", "b2"}
MCBlockOf == 1 :> "b1" @@ 2 :> "b2" @@ 3 :> "b1"
MCVcs == 1 :> 2 @@ 2 :> 1 @@ 3 :> 0
=============================================================================
