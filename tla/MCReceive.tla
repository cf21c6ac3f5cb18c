------------------------------- MODULE MCReceive -------------------------------
(* ReceiveUdp for TLC; its bounds are in Receive.cfg. *)
EXTENDS ReceiveUdp

=============================================================================
