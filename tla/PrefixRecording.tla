---------------------------- MODULE PrefixRecording ----------------------------
(***************************************************************************)
(* What "lossless" means for a recording, without a recorder.  Datagrams   *)
(* are numbered as they are received, and the next one is not received     *)
(* before the last has been recorded.  A recording may be over at any time *)
(* (a cap, Ctrl-C, a deadline, or none was asked for); from then on        *)
(* datagrams may still be received, and none is recorded.                  *)
(***************************************************************************)
EXTENDS Integers, Sequences

VARIABLES
    arrived,     \* how many datagrams have been received
    recording,   \* the numbers of the recorded ones
    over         \* is the recording over?

recordingVars == <<arrived, recording, over>>

PrefixInit == arrived = 0 /\ recording = <<>> /\ over \in BOOLEAN

Arrive ==
    /\ over \/ Len(recording) = arrived
    /\ arrived' = arrived + 1
    /\ UNCHANGED <<recording, over>>

Keep ==
    /\ ~over /\ Len(recording) + 1 = arrived
    /\ recording' = Append(recording, arrived)
    /\ UNCHANGED <<arrived, over>>

Close ==
    /\ ~over
    /\ over' = TRUE
    /\ UNCHANGED <<arrived, recording>>

PrefixNext == Arrive \/ Keep \/ Close

PrefixSpec == PrefixInit /\ [][PrefixNext]_recordingVars

=============================================================================
