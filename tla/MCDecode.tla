------------------------------- MODULE MCDecode -------------------------------
(* Decode on datagrams around every boundary of the layouts it has to tell. *)
EXTENDS Decode

\* The indicator bit, unused and used fields of 4, 8 and 44 bytes, and a bit
\* that stops the walk.
CifBits == {31, 30, 29, 15, 14, 9}

Headers ==
    [class_id : BOOLEAN, tsi : {0, 1}, tsf : {0, 2}]

ContextPackets ==
    {[length |-> l, packet_type |-> PACKET_TYPE_IF_CONTEXT, class_id |-> h.class_id,
      trailer |-> FALSE, tsi |-> h.tsi, tsf |-> h.tsf, packet_size |-> w, cif |-> c,
      bytes_per_sample |-> 1] :
       l \in {11, 12, 24, 39, 40, 100}, w \in {3, 6, 10, 25},
       h \in Headers, c \in SUBSET CifBits}

OtherPackets ==
    {[length |-> l, packet_type |-> t, class_id |-> h.class_id, trailer |-> tr,
      tsi |-> h.tsi, tsf |-> h.tsf, packet_size |-> w, cif |-> {}, bytes_per_sample |-> b] :
       l \in {0, 4, 8, 19, 20, 28, 31, 32, 36, 41}, w \in {0, 1, 5, 7, 8, 9, 10},
       t \in {0, 1}, tr \in BOOLEAN, h \in Headers, b \in {1, 8}}

AllPackets == ContextPackets \cup OtherPackets

=============================================================================
