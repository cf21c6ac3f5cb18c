-------------------------------- MODULE MCQueue --------------------------------
(* BoundedRawQueue is checked as it is; the constants are in Queue.cfg. *)
EXTENDS BoundedRawQueue

=============================================================================
