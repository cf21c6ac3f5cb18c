-------------------------------- MODULE MCLive --------------------------------
(* LivePipeline with a few datagrams of two sizes. *)
EXTENDS LivePipeline

SmallAndLarge == {1, 2}

=============================================================================
