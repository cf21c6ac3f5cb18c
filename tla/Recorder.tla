------------------------------- MODULE Recorder -------------------------------
(***************************************************************************)
(* recorder.py, class Recorder: an in-memory recording with a hard cap.    *)
(* A recorded packet is represented by its position among the packets      *)
(* offered to append() and by its size.                                    *)
(***************************************************************************)
EXTENDS Integers, Sequences

CONSTANTS
    NoCap,         \* the None that stands for "unbounded"
    max_packets,   \* cap on the number of packets
    max_bytes      \* cap on the sum of their sizes

ASSUME RecorderAssumption ==
    /\ NoCap \notin Nat
    /\ max_packets \in Nat \cup {NoCap}
    /\ max_bytes \in Nat \cup {NoCap}

VARIABLES
    packets,       \* _packets
    total_bytes,   \* _total_bytes
    capped,        \* _capped
    offered        \* ghost: calls of append() so far

recorderVars == <<packets, total_bytes, capped, offered>>

RecorderInit ==
    /\ packets = <<>>
    /\ total_bytes = 0
    /\ capped = FALSE
    /\ offered = 0

ReachesCap(size) ==
    \/ max_packets # NoCap /\ Len(packets) >= max_packets
    \/ max_bytes # NoCap /\ total_bytes + size > max_bytes

\* Mutant: the cap is not final, so a smaller packet may follow a refused one.
RecorderAppendWhenFits(size) ==
    /\ offered' = offered + 1
    /\ \/ /\ ReachesCap(size)
          /\ capped' = TRUE
          /\ UNCHANGED <<packets, total_bytes>>
       \/ /\ ~ReachesCap(size)
          /\ packets' = Append(packets, [at |-> offered', size |-> size])
          /\ total_bytes' = total_bytes + size
          /\ UNCHANGED capped

\* append(): once a packet does not fit, no later one is recorded.
RecorderAppend(size) ==
    /\ offered' = offered + 1
    /\ \/ /\ capped \/ ReachesCap(size)
          /\ capped' = TRUE
          /\ UNCHANGED <<packets, total_bytes>>
       \/ /\ ~capped /\ ~ReachesCap(size)
          /\ packets' = Append(packets, [at |-> offered', size |-> size])
          /\ total_bytes' = total_bytes + size
          /\ UNCHANGED capped

=============================================================================
