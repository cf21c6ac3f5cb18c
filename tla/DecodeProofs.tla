----------------------------- MODULE DecodeProofs -----------------------------
(***************************************************************************)
(* Proofs about the decoding of one datagram, for every datagram there is: *)
(* any length, any flags, any declared size and any context indicator      *)
(* field.  The walk is its own induction: its offset is at any time the    *)
(* number of bytes of the announced fields that it has passed.             *)
(***************************************************************************)
EXTENDS Decode, FiniteSetTheorems, TLAPS

Passed(p, bits) == {rank \in Announced(p) : rank \notin bits}

DecodeTypeOK ==
    /\ packet \in RawPackets
    /\ at \in {"header", "cif", "walk", "trim", "done", "raised"}
    /\ offset \in Nat
    /\ todo \in SUBSET (0..31)

\* After parse_header: the whole header is there and has been passed.
HeaderInv ==
    at \in {"cif", "trim"} =>
        /\ packet.packet_type = IF at = "cif" THEN PACKET_TYPE_IF_CONTEXT
                                ELSE PACKET_TYPE_IF_DATA
        /\ offset = HeaderEnd(packet) /\ HeaderEnd(packet) <= packet.length
        /\ fields = HeaderFields(packet)

\* In the walk: what is left is below what has been passed, the offset is the
\* end of the latter, and of that the used fields have been taken.
WalkInv ==
    at = "walk" =>
        /\ packet.packet_type = PACKET_TYPE_IF_CONTEXT
        /\ HeaderEnd(packet) <= packet.length
        /\ todo \subseteq packet.cif
        /\ \A b \in packet.cif \ todo, c \in todo : b > c
        /\ offset = WORD0_SIZE + SizeOfAll(Passed(packet, todo))
        /\ offset <= EndLimit(packet)
        /\ {f.rank : f \in fields} = Passed(packet, todo) \cap (UsedBits \cup 31..36)

DecodeInv ==
    /\ DecodeTypeOK /\ HeaderInv /\ WalkInv
    /\ FieldsInPlace /\ ReadsInside /\ RefusedIffTruncated /\ NothingLeftOut

-----------------------------------------------------------------------------
(* The layout.                                                              *)

\* Fields have 4, 8, 44 or 52 bytes.
LEMMA SizeOfType ==
    ASSUME NEW rank \in 0..36
    PROVE  SizeOf(rank) \in {4, 8, 44, 52}
BY DEF SizeOf, FIELD_SIZE, CLASS_ID, FRAC_TS

\* An interval has as many elements as its bounds say.
LEMMA IntervalSize ==
    ASSUME NEW a \in Int, NEW b \in Int, a <= b
    PROVE  IsFiniteSet(a..b) /\ Cardinality(a..b) = b - a + 1
<1>1. IsFiniteSet(a..b) /\ Cardinality(a..b) = IF a > b THEN 0 ELSE b - a + 1
  BY FS_Interval, Zenon
<1> QED
  BY <1>1

\* A set of fields has a number of bytes.
LEMMA BytesFinite ==
    ASSUME NEW S \in SUBSET (0..36)
    PROVE  IsFiniteSet(BytesOf(S)) /\ SizeOfAll(S) \in Nat
<1>1. BytesOf(S) \in SUBSET ((0..36) \X (1..52))
  <2> SUFFICES ASSUME NEW b \in BytesOf(S)
               PROVE  b \in (0..36) \X (1..52)
    OBVIOUS
  <2>1. PICK rank \in S : b \in {rank} \X (1..SizeOf(rank))
    BY DEF BytesOf
  <2>2. SizeOf(rank) \in {4, 8, 44, 52}
    BY SizeOfType
  <2> QED
    BY <2>1, <2>2
<1>2. IsFiniteSet(0..36) /\ IsFiniteSet(1..52)
  <2>1. \A a, b \in Int : IsFiniteSet(a..b)
    BY FS_Interval, Zenon
  <2>2. 0 \in Int /\ 1 \in Int /\ 36 \in Int /\ 52 \in Int
    OBVIOUS
  <2> QED
    BY <2>1, <2>2, Zenon
<1>3. IsFiniteSet((0..36) \X (1..52))
  BY <1>2, FS_Product
<1> QED
  BY <1>1, <1>3, FS_Subset, FS_CardinalityType DEF SizeOfAll

\* No fields, no bytes.
LEMMA BytesOfNone == SizeOfAll({}) = 0
BY FS_EmptySet DEF SizeOfAll, BytesOf

\* One more field adds its own bytes.
LEMMA BytesAdd ==
    ASSUME NEW S \in SUBSET (0..36), NEW rank \in 0..36, rank \notin S
    PROVE  SizeOfAll(S \cup {rank}) = SizeOfAll(S) + SizeOf(rank)
<1> DEFINE N == {rank} \X (1..SizeOf(rank))
<1>1. BytesOf(S \cup {rank}) = BytesOf(S) \cup N
  BY DEF BytesOf
<1>2. BytesOf(S) \cap N = {}
  BY DEF BytesOf
<1>3. SizeOf(rank) \in {4, 8, 44, 52}
  BY SizeOfType
<1>4. IsFiniteSet(1..SizeOf(rank)) /\ Cardinality(1..SizeOf(rank)) = SizeOf(rank)
  <2>1. SizeOf(rank) \in Int /\ 1 \in Int /\ 1 <= SizeOf(rank)
    BY <1>3
  <2>2. IsFiniteSet(1..SizeOf(rank)) /\ Cardinality(1..SizeOf(rank)) = SizeOf(rank) - 1 + 1
    BY <2>1, IntervalSize
  <2> QED
    BY <2>1, <2>2
<1>5. IsFiniteSet({rank}) /\ Cardinality({rank}) = 1
  BY FS_Singleton
<1>6. IsFiniteSet(N) /\ Cardinality(N) = 1 * SizeOf(rank)
  <2>1. IsFiniteSet(N) /\ Cardinality(N) = Cardinality({rank}) * Cardinality(1..SizeOf(rank))
    BY <1>4, <1>5, FS_Product, Zenon
  <2> QED
    BY <1>4, <1>5, <2>1, Zenon
<1>7. IsFiniteSet(BytesOf(S)) /\ Cardinality(BytesOf(S)) \in Nat
  BY BytesFinite DEF SizeOfAll
<1>8. Cardinality(BytesOf(S) \cup N) = Cardinality(BytesOf(S)) + Cardinality(N) - Cardinality({})
  BY <1>2, <1>6, <1>7, FS_Union
<1>9. Cardinality({}) = 0
  BY FS_EmptySet
<1> HIDE DEF N
<1>10. SizeOfAll(S \cup {rank}) = Cardinality(BytesOf(S) \cup N)
  BY <1>1 DEF SizeOfAll
<1> QED
  BY <1>3, <1>6, <1>7, <1>8, <1>9, <1>10 DEF SizeOfAll

\* More fields never have fewer bytes.
LEMMA BytesMonotone ==
    ASSUME NEW S \in SUBSET (0..36), NEW T \in SUBSET S
    PROVE  SizeOfAll(T) <= SizeOfAll(S)
<1>1. BytesOf(T) \in SUBSET BytesOf(S)
  BY DEF BytesOf
<1>2. IsFiniteSet(BytesOf(S))
  BY BytesFinite
<1> QED
  BY <1>1, <1>2, FS_Subset DEF SizeOfAll

\* What is announced: the parts of the header that the flags name, and, in a
\* context, the CIF and its bits with a field of fixed size.
LEMMA AnnouncedRanks ==
    ASSUME NEW p \in RawPackets
    PROVE  /\ Announced(p) \in SUBSET (10..36) /\ 31 \notin Announced(p)
           /\ STREAM_ID \in Announced(p) <=> HasStreamId(p)
           /\ CLASS_ID \in Announced(p) <=> p.class_id
           /\ INT_TS \in Announced(p) <=> p.tsi # 0
           /\ FRAC_TS \in Announced(p) <=> p.tsf # 0
           /\ CIF \in Announced(p) <=> p.packet_type = PACKET_TYPE_IF_CONTEXT
           /\ \A bit \in 0..31 : bit \in Announced(p) <=>
                p.packet_type = PACKET_TYPE_IF_CONTEXT /\ bit \in p.cif /\ bit \in 10..30
           /\ Announced(p) \ Walked(p) = {rank \in Announced(p) : rank > CIF}
<1> USE DEF STREAM_ID, CLASS_ID, INT_TS, FRAC_TS, CIF
<1>1. DOMAIN FIELD_SIZE = 10..30
  BY DEF FIELD_SIZE
<1>2. Walked(p) \in SUBSET (10..32) /\ 31 \notin Walked(p)
  BY <1>1 DEF Walked
<1>3. /\ CIF \in Walked(p) <=> p.packet_type = PACKET_TYPE_IF_CONTEXT
      /\ \A bit \in 0..31 : bit \in Walked(p) <=>
           p.packet_type = PACKET_TYPE_IF_CONTEXT /\ bit \in p.cif /\ bit \in 10..30
  BY <1>1 DEF Walked
<1> DEFINE H == {rank \in {STREAM_ID, CLASS_ID, INT_TS, FRAC_TS} :
                    \E f \in HeaderFields(p) : f.rank = rank}
<1>4. /\ STREAM_ID \in H <=> HasStreamId(p)
      /\ CLASS_ID \in H <=> p.class_id
      /\ INT_TS \in H <=> p.tsi # 0
      /\ FRAC_TS \in H <=> p.tsf # 0
  <2>1. HasStreamId(p) => Field(STREAM_ID, WORD0_SIZE, 4) \in HeaderFields(p)
    BY DEF HeaderFields, Field
  <2>2. p.class_id => Field(CLASS_ID, ClassIdAt(p), 8) \in HeaderFields(p)
    BY DEF HeaderFields, Field
  <2>3. p.tsi # 0 => Field(INT_TS, IntTsAt(p), 4) \in HeaderFields(p)
    BY DEF HeaderFields, Field
  <2>4. p.tsf # 0 => Field(FRAC_TS, FracTsAt(p), 8) \in HeaderFields(p)
    BY DEF HeaderFields, Field
  <2>5. \A f \in HeaderFields(p) :
           \/ f.rank = STREAM_ID /\ HasStreamId(p)
           \/ f.rank = CLASS_ID /\ p.class_id
           \/ f.rank = INT_TS /\ p.tsi # 0
           \/ f.rank = FRAC_TS /\ p.tsf # 0
    BY DEF HeaderFields
  <2>6. \A rank, place, size : Field(rank, place, size).rank = rank
    BY DEF Field
  <2> QED
    BY <2>1, <2>2, <2>3, <2>4, <2>5, <2>6
<1>5. Announced(p) = H \cup Walked(p) /\ H \subseteq 33..36
  BY DEF Announced
<1> HIDE DEF H
<1>6. Announced(p) \in SUBSET (10..36) /\ 31 \notin Announced(p)
  <2>1. \A rank \in Walked(p) : rank \in 10..36 /\ rank # 31
    BY <1>2
  <2>2. \A rank \in H : rank \in 10..36 /\ rank # 31
    BY <1>5
  <2> QED
    BY <1>5, <2>1, <2>2
<1>7. \A rank \in 33..36 : rank \in Announced(p) <=> rank \in H
  BY <1>2, <1>5
<1>8. \A rank \in 0..32 : rank \in Announced(p) <=> rank \in Walked(p)
  BY <1>5
<1>9. Announced(p) \ Walked(p) = {rank \in Announced(p) : rank > CIF}
  <2>1. \A rank \in Walked(p) : ~(rank > 32)
    BY <1>2
  <2>2. \A rank \in H : rank > 32
    BY <1>5
  <2> QED
    BY <1>5, <2>1, <2>2
<1>10. CIF \in Announced(p) <=> p.packet_type = PACKET_TYPE_IF_CONTEXT
  BY <1>3, <1>8
<1>11. \A bit \in 0..31 : bit \in Announced(p) <=>
         p.packet_type = PACKET_TYPE_IF_CONTEXT /\ bit \in p.cif /\ bit \in 10..30
  BY <1>3, <1>8
<1> QED
  BY <1>4, <1>6, <1>7, <1>9, <1>10, <1>11

\* The place of a part of the header is the end of the one before it.
LEMMA NextPlace ==
    ASSUME NEW p \in RawPackets, NEW rank \in 33..36
    PROVE  PlaceOf(p, rank - 1) = PlaceOf(p, rank) + SizeIf(rank \in Announced(p), SizeOf(rank))
<1> DEFINE above == {r \in Announced(p) : r > rank}
           from == {r \in Announced(p) : r > rank - 1}
<1>1. Announced(p) \in SUBSET (0..36)
  BY AnnouncedRanks
<1>2. SizeOfAll(above) \in Nat /\ SizeOf(rank) \in Nat
  BY <1>1, BytesFinite, SizeOfType
<1>3. CASE rank \in Announced(p)
  <2>1. from = above \cup {rank} /\ rank \notin above /\ above \in SUBSET (0..36)
    BY <1>1, <1>3
  <2> HIDE DEF above, from
  <2>2. SizeOfAll(above \cup {rank}) = SizeOfAll(above) + SizeOf(rank)
    <3>1. rank \in 0..36
      OBVIOUS
    <3> QED
      BY <2>1, <3>1, BytesAdd
  <2>3. /\ PlaceOf(p, rank - 1) = 4 + SizeOfAll(above \cup {rank})
        /\ PlaceOf(p, rank) = 4 + SizeOfAll(above)
    BY <2>1 DEF PlaceOf, WORD0_SIZE, above, from
  <2> QED
    BY <1>2, <1>3, <2>2, <2>3 DEF SizeIf
<1>4. CASE rank \notin Announced(p)
  <2>1. from = above
    BY <1>1, <1>4
  <2> QED
    BY <1>2, <1>4, <2>1 DEF PlaceOf, SizeIf, WORD0_SIZE
<1> QED
  BY <1>3, <1>4

\* parse_header's offsets are the places of the parts of the header.
LEMMA HeaderPlaces ==
    ASSUME NEW p \in RawPackets
    PROVE  /\ PlaceOf(p, STREAM_ID) = WORD0_SIZE
           /\ PlaceOf(p, CLASS_ID) = ClassIdAt(p)
           /\ PlaceOf(p, INT_TS) = IntTsAt(p)
           /\ PlaceOf(p, FRAC_TS) = FracTsAt(p)
           /\ PlaceOf(p, CIF) = HeaderEnd(p)
           /\ HeaderEnd(p) = header_length(p)
           /\ HeaderEnd(p) \in Nat /\ HeaderEnd(p) >= WORD0_SIZE
           /\ WORD0_SIZE + SizeOfAll(Announced(p) \ Walked(p)) = HeaderEnd(p)
<1> USE DEF STREAM_ID, CLASS_ID, INT_TS, FRAC_TS, CIF, WORD0_SIZE
<1>1. Announced(p) \in SUBSET (10..36)
  BY AnnouncedRanks
<1>2. {r \in Announced(p) : r > 36} = {}
  BY <1>1
<1>3. PlaceOf(p, 36) = 4
  BY <1>2, BytesOfNone DEF PlaceOf
<1>4. SizeOf(36) = 4 /\ SizeOf(35) = 8 /\ SizeOf(34) = 4 /\ SizeOf(33) = 8
  BY DEF SizeOf, FIELD_SIZE
<1>5. PlaceOf(p, 35) = ClassIdAt(p)
  <2>1. PlaceOf(p, 36 - 1) = PlaceOf(p, 36) + SizeIf(36 \in Announced(p), SizeOf(36))
    BY NextPlace
  <2>2. 36 \in Announced(p) <=> HasStreamId(p)
    BY AnnouncedRanks
  <2> QED
    BY <1>3, <1>4, <2>1, <2>2 DEF ClassIdAt, SizeIf
<1>6. PlaceOf(p, 34) = IntTsAt(p)
  <2>1. PlaceOf(p, 35 - 1) = PlaceOf(p, 35) + SizeIf(35 \in Announced(p), SizeOf(35))
    BY NextPlace
  <2>2. 35 \in Announced(p) <=> p.class_id
    BY AnnouncedRanks
  <2> QED
    BY <1>5, <1>4, <2>1, <2>2 DEF IntTsAt, SizeIf
<1>7. PlaceOf(p, 33) = FracTsAt(p)
  <2>1. PlaceOf(p, 34 - 1) = PlaceOf(p, 34) + SizeIf(34 \in Announced(p), SizeOf(34))
    BY NextPlace
  <2>2. 34 \in Announced(p) <=> p.tsi # 0
    BY AnnouncedRanks
  <2> QED
    BY <1>6, <1>4, <2>1, <2>2 DEF FracTsAt, SizeIf
<1>8. PlaceOf(p, 32) = HeaderEnd(p)
  <2>1. PlaceOf(p, 33 - 1) = PlaceOf(p, 33) + SizeIf(33 \in Announced(p), SizeOf(33))
    BY NextPlace
  <2>2. 33 \in Announced(p) <=> p.tsf # 0
    BY AnnouncedRanks
  <2> QED
    BY <1>7, <1>4, <2>1, <2>2 DEF HeaderEnd, SizeIf
<1>9. HeaderEnd(p) = header_length(p) /\ HeaderEnd(p) \in Nat /\ HeaderEnd(p) >= 4
  BY DEF HeaderEnd, FracTsAt, IntTsAt, ClassIdAt, header_length, SizeIf
<1>10. WORD0_SIZE + SizeOfAll(Announced(p) \ Walked(p)) = PlaceOf(p, 32)
  <2>1. Announced(p) \ Walked(p) = {rank \in Announced(p) : rank > 32}
    BY AnnouncedRanks
  <2> QED
    BY <2>1 DEF PlaceOf
<1> QED
  BY <1>3, <1>5, <1>6, <1>7, <1>8, <1>9, <1>10

\* The types of a datagram, and what its end limit is.
LEMMA PacketTypes ==
    ASSUME NEW p \in RawPackets
    PROVE  /\ p.length \in Nat /\ p.packet_size \in Nat /\ p.cif \in SUBSET (0..31)
           /\ p.packet_type \in 0..15 /\ p.bytes_per_sample \in 1..16
           /\ Declared(p) \in Nat /\ EndLimit(p) \in Nat
           /\ EndLimit(p) <= p.length /\ EndLimit(p) <= Declared(p)
           /\ p.length >= Declared(p) => EndLimit(p) = Declared(p)
<1>1. /\ p.length \in Nat /\ p.packet_size \in Nat /\ p.cif \in SUBSET (0..31)
      /\ p.packet_type \in 0..15 /\ p.bytes_per_sample \in 1..16
  <2>1. p \in [length : Nat, packet_type : 0..15, class_id : BOOLEAN, trailer : BOOLEAN,
              tsi : 0..3, tsf : 0..3, packet_size : 0..MaxPacketSize, cif : SUBSET (0..31),
              bytes_per_sample : 1..16]
    BY RawPacketsAssumption, Zenon
  <2>2. p.packet_size \in Nat
    <3>1. MaxPacketSize \in Int
      BY DEF MaxPacketSize
    <3>2. p.packet_size \in 0..MaxPacketSize
      BY <2>1
    <3> QED
      BY <3>1, <3>2
  <2>3. p.length \in Nat /\ p.packet_type \in 0..15 /\ p.bytes_per_sample \in 1..16
    BY <2>1
  <2>4. p.cif \in SUBSET (0..31)
    BY <2>1
  <2> QED
    BY <2>2, <2>3, <2>4
<1>2. Declared(p) \in Nat
  BY <1>1 DEF Declared
<1> QED
  BY <1>1, <1>2 DEF EndLimit

\* The fields of the header lie in their places, inside the header.
LEMMA HeaderFieldsRight ==
    ASSUME NEW p \in RawPackets
    PROVE  /\ \A f \in HeaderFields(p) :
                /\ f.place = PlaceOf(p, f.rank) /\ f.size = SizeOf(f.rank)
                /\ f.place + f.size <= HeaderEnd(p) /\ f.rank \in 33..36
           /\ {f.rank : f \in HeaderFields(p)} = {rank \in Announced(p) : rank > CIF}
<1> USE DEF STREAM_ID, CLASS_ID, INT_TS, FRAC_TS, CIF, WORD0_SIZE
<1>1. SizeOf(36) = 4 /\ SizeOf(35) = 8 /\ SizeOf(34) = 4 /\ SizeOf(33) = 8
  BY DEF SizeOf, FIELD_SIZE
<1>2. ASSUME NEW f \in HeaderFields(p)
      PROVE  /\ f.place = PlaceOf(p, f.rank) /\ f.size = SizeOf(f.rank)
             /\ f.place + f.size <= HeaderEnd(p) /\ f.rank \in 33..36
             /\ f.rank \in Announced(p)
  <2>0. /\ f.rank = 36 \/ f.rank = 35 \/ f.rank = 34 \/ f.rank = 33
        /\ f.rank = 36 => HasStreamId(p) /\ f.place = 4 /\ f.size = 4
        /\ f.rank = 35 => p.class_id /\ f.place = ClassIdAt(p) /\ f.size = 8
        /\ f.rank = 34 => p.tsi # 0 /\ f.place = IntTsAt(p) /\ f.size = 4
        /\ f.rank = 33 => p.tsf # 0 /\ f.place = FracTsAt(p) /\ f.size = 8
    BY DEF HeaderFields, Field
  <2>1. f.place = PlaceOf(p, f.rank) /\ f.size = SizeOf(f.rank) /\ f.rank \in 33..36
    <3>1. /\ PlaceOf(p, 36) = 4 /\ PlaceOf(p, 35) = ClassIdAt(p)
          /\ PlaceOf(p, 34) = IntTsAt(p) /\ PlaceOf(p, 33) = FracTsAt(p)
      BY HeaderPlaces
    <3>2. CASE f.rank = 36
      BY <1>1, <2>0, <3>1, <3>2
    <3>3. CASE f.rank = 35
      BY <1>1, <2>0, <3>1, <3>3
    <3>4. CASE f.rank = 34
      BY <1>1, <2>0, <3>1, <3>4
    <3>5. CASE f.rank = 33
      BY <1>1, <2>0, <3>1, <3>5
    <3> QED
      BY <2>0, <3>2, <3>3, <3>4, <3>5
  <2>2. f.place + f.size <= HeaderEnd(p)
    BY <2>0 DEF HeaderEnd, FracTsAt, IntTsAt, ClassIdAt, SizeIf
  <2>3. f.rank \in Announced(p)
    BY <2>0, AnnouncedRanks
  <2> QED
    BY <2>1, <2>2, <2>3
<1>3. ASSUME NEW rank \in Announced(p), rank > 32
      PROVE  \E f \in HeaderFields(p) : f.rank = rank
  <2>1. rank \in 33..36
    BY <1>3, AnnouncedRanks
  <2>2. rank \notin Walked(p)
    <3>1. Announced(p) \ Walked(p) = {r \in Announced(p) : r > CIF}
      BY AnnouncedRanks
    <3> QED
      BY <1>3, <3>1
  <2> QED
    BY <2>2 DEF Announced
<1> QED
  BY <1>2, <1>3

-----------------------------------------------------------------------------
(* The steps.                                                               *)

\* What depends on the fields and the samples alone, once they are right.
LEMMA FieldsKept ==
    ASSUME FieldsInPlace, ReadsInside, UNCHANGED <<packet, fields, body>>
    PROVE  FieldsInPlace' /\ ReadsInside'
BY DEF FieldsInPlace, ReadsInside

\* The decoder starts before the header.
LEMMA DecodeInitInv == DecodeInit => DecodeInv
<1> SUFFICES ASSUME DecodeInit
             PROVE  DecodeInv
  OBVIOUS
<1>1. DecodeTypeOK /\ HeaderInv /\ WalkInv
  BY DEF DecodeInit, DecodeTypeOK, HeaderInv, WalkInv
<1>2. FieldsInPlace /\ ReadsInside
  BY DEF DecodeInit, FieldsInPlace, ReadsInside
<1>3. RefusedIffTruncated /\ NothingLeftOut
  BY DEF DecodeInit, RefusedIffTruncated, NothingLeftOut
<1> QED
  BY <1>1, <1>2, <1>3 DEF DecodeInv

\* To refuse a truncated datagram is right.
LEMMA RaiseInv ==
    ASSUME DecodeInv, Raise, ~Complete(packet)
    PROVE  DecodeInv'
<1>1. DecodeTypeOK' /\ HeaderInv' /\ WalkInv'
  BY DEF DecodeInv, Raise, DecodeTypeOK, HeaderInv, WalkInv
<1>2. FieldsInPlace' /\ ReadsInside'
  BY FieldsKept DEF DecodeInv, Raise
<1>3. RefusedIffTruncated' /\ NothingLeftOut'
  BY DEF Raise, RefusedIffTruncated, NothingLeftOut
<1> QED
  BY <1>1, <1>2, <1>3 DEF DecodeInv

\* A datagram without its whole header is truncated.
LEMMA ParseRaisesInv ==
    ASSUME DecodeInv, ParseRaises
    PROVE  DecodeInv'
<1>0. packet \in RawPackets
  BY DEF DecodeInv, DecodeTypeOK
<1>1. packet.length < HeaderEnd(packet)
  <2>1. /\ packet.length \in Nat /\ HeaderEnd(packet) \in Nat /\ HeaderEnd(packet) >= 4
        /\ HeaderEnd(packet) = header_length(packet)
    BY <1>0, HeaderPlaces, PacketTypes DEF WORD0_SIZE
  <2>2. packet.length < 4 \/ packet.length < header_length(packet)
    BY DEF ParseRaises, WORD0_SIZE
  <2> QED
    BY <2>1, <2>2
<1>2. ~Complete(packet)
  BY <1>0, <1>1, HeaderPlaces, PacketTypes DEF Complete
<1> QED
  BY <1>2, RaiseInv DEF ParseRaises

\* The header is all there: its fields are in place and inside.
LEMMA ParseHeaderInv ==
    ASSUME DecodeInv, ParseHeader
    PROVE  DecodeInv'
<1>0. packet \in RawPackets /\ packet' = packet
  BY DEF DecodeInv, DecodeTypeOK, ParseHeader
<1> DEFINE p == packet
<1>1. HeaderEnd(p) \in Nat /\ HeaderEnd(p) <= p.length /\ p.length \in Nat
  BY <1>0, HeaderPlaces, PacketTypes DEF ParseHeader
<1>2. DecodeTypeOK' /\ HeaderInv' /\ WalkInv'
  BY <1>0, <1>1 DEF DecodeInv, ParseHeader, DecodeTypeOK, HeaderInv, WalkInv,
     PACKET_TYPE_IF_CONTEXT, PACKET_TYPE_IF_DATA
<1>3. FieldsInPlace'
  BY <1>0, HeaderFieldsRight DEF ParseHeader, FieldsInPlace
<1>4. \A f \in HeaderFields(p) : f.place + f.size <= p.length /\ ~(f.rank <= CIF)
  <2> TAKE f \in HeaderFields(p)
  <2>1. f.place + f.size <= HeaderEnd(p) /\ f.rank \in 33..36 /\ f.place = PlaceOf(p, f.rank)
        /\ f.size = SizeOf(f.rank)
    BY <1>0, HeaderFieldsRight
  <2>2. f.size \in Nat
    BY <2>1, SizeOfType
  <2>3. f.place \in Nat
    <3>1. {r \in Announced(p) : r > f.rank} \in SUBSET (0..36)
      BY <1>0, AnnouncedRanks
    <3> QED
      BY <2>1, <3>1, BytesFinite DEF PlaceOf, WORD0_SIZE
  <2> QED
    BY <1>1, <2>1, <2>2, <2>3 DEF CIF
<1>5. ReadsInside'
  BY <1>0, <1>4 DEF ParseHeader, ReadsInside, DecodeInv
<1>6. at' = "done" => Complete(p)
  <2> SUFFICES ASSUME at' = "done"
               PROVE  Complete(p)
    OBVIOUS
  <2>1. p.packet_type # PACKET_TYPE_IF_CONTEXT /\ p.packet_type # PACKET_TYPE_IF_DATA
    BY DEF ParseHeader
  <2>2. Walked(p) = {}
    BY <2>1 DEF Walked
  <2> QED
    BY <1>0, <1>1, <2>1, <2>2, HeaderPlaces DEF Complete
<1>7. RefusedIffTruncated'
  BY <1>0, <1>6 DEF ParseHeader, RefusedIffTruncated
<1>8. NothingLeftOut'
  BY <1>0 DEF ParseHeader, NothingLeftOut
<1> QED
  BY <1>2, <1>3, <1>5, <1>7, <1>8 DEF DecodeInv


\* A context that ends before its CIF does is truncated.
LEMMA CifRaisesInv ==
    ASSUME DecodeInv, CifRaises
    PROVE  DecodeInv'
<1> DEFINE p == packet
           above == {rank \in Announced(p) : rank > CIF}
<1>0. p \in RawPackets /\ p.packet_type = PACKET_TYPE_IF_CONTEXT /\ offset = HeaderEnd(p)
  BY DEF DecodeInv, DecodeTypeOK, HeaderInv, CifRaises
<1>1. CIF \in Announced(p) /\ Announced(p) \in SUBSET (0..36) /\ CIF \notin above
  BY <1>0, AnnouncedRanks DEF CIF
<1>2. HeaderEnd(p) = WORD0_SIZE + SizeOfAll(above)
  BY <1>0, HeaderPlaces DEF PlaceOf
<1>3. above \in SUBSET (0..36) /\ above \cup {CIF} \in SUBSET Announced(p) /\ CIF \in 0..36
  BY <1>1 DEF CIF
<1> HIDE DEF above
<1>4. SizeOfAll(above \cup {CIF}) = SizeOfAll(above) + SizeOf(CIF)
  BY <1>1, <1>3, BytesAdd
<1>5. SizeOf(CIF) = 4
  BY DEF SizeOf, FIELD_SIZE, CIF, CLASS_ID, FRAC_TS
<1>6. SizeOfAll(above \cup {CIF}) <= SizeOfAll(Announced(p))
  BY <1>1, <1>3, BytesMonotone
<1>7. SizeOfAll(above) \in Nat /\ SizeOfAll(Announced(p)) \in Nat /\ EndLimit(p) \in Nat
  BY <1>0, <1>1, <1>3, BytesFinite, PacketTypes
<1>8. EndLimit(p) < offset + 4
  BY DEF CifRaises
<1>9. ~(WORD0_SIZE + SizeOfAll(Announced(p)) <= EndLimit(p))
  BY <1>0, <1>2, <1>4, <1>5, <1>6, <1>7, <1>8 DEF WORD0_SIZE
<1>10. Walked(p) # {}
  BY <1>0 DEF Walked
<1>11. ~Complete(p)
  BY <1>9, <1>10 DEF Complete
<1> QED
  BY <1>11, RaiseInv DEF CifRaises

\* The CIF follows the header; the walk has then passed all ranks above it.
LEMMA ReadCifInv ==
    ASSUME DecodeInv, ReadCif
    PROVE  DecodeInv'
<1> DEFINE p == packet
           above == {rank \in Announced(p) : rank > CIF}
<1>0. /\ p \in RawPackets /\ packet' = packet
      /\ p.packet_type = PACKET_TYPE_IF_CONTEXT /\ offset = HeaderEnd(p)
      /\ HeaderEnd(p) <= p.length /\ fields = HeaderFields(p)
  BY DEF DecodeInv, DecodeTypeOK, HeaderInv, ReadCif
<1>1. /\ CIF \in Announced(p) /\ Announced(p) \in SUBSET (0..36) /\ 31 \notin Announced(p)
      /\ \A bit \in 0..31 : bit \in Announced(p) => bit \in p.cif
      /\ p.cif \in SUBSET (0..31)
  BY <1>0, AnnouncedRanks, PacketTypes DEF CIF
<1>2. PlaceOf(p, CIF) = HeaderEnd(p) /\ HeaderEnd(p) \in Nat
  BY <1>0, HeaderPlaces
<1>3. Passed(p, p.cif) = above \cup {CIF} /\ CIF \notin above /\ above \in SUBSET (0..36)
  <2>1. CIF \notin above /\ above \in SUBSET (0..36)
    BY <1>1 DEF CIF
  <2>2. ASSUME NEW rank \in Announced(p)
        PROVE  rank \notin p.cif <=> rank > CIF \/ rank = CIF
    BY <1>1 DEF CIF
  <2> QED
    BY <1>1, <2>1, <2>2 DEF Passed
<1>4. HeaderEnd(p) = WORD0_SIZE + SizeOfAll(above)
  BY <1>2 DEF PlaceOf
<1>5. {f.rank : f \in fields} = above
  BY <1>0, HeaderFieldsRight
<1>6. above \subseteq 33..36
  BY <1>1 DEF CIF
<1> HIDE DEF above
<1>7. SizeOf(CIF) = 4 /\ CIF \in 0..36
  BY DEF SizeOf, FIELD_SIZE, CIF, CLASS_ID, FRAC_TS
<1>8. SizeOfAll(above \cup {CIF}) = SizeOfAll(above) + 4 /\ SizeOfAll(above) \in Nat
  BY <1>3, <1>7, BytesAdd, BytesFinite
<1>9. offset' = WORD0_SIZE + SizeOfAll(Passed(p, p.cif)) /\ offset' \in Nat
  BY <1>0, <1>2, <1>3, <1>4, <1>8 DEF ReadCif, WORD0_SIZE
<1>10. {f.rank : f \in fields'} = Passed(p, p.cif) \cap (UsedBits \cup 31..36)
  <2>1. Passed(p, p.cif) \cap (UsedBits \cup 31..36) = above \cup {CIF}
    <3>1. \A rank \in above \cup {CIF} : rank \in 31..36
      BY <1>6 DEF CIF
    <3> QED
      BY <1>3, <3>1
  <2>2. {f.rank : f \in fields'} = {f.rank : f \in fields} \cup {Field(CIF, offset, 4).rank}
    BY DEF ReadCif
  <2>3. Field(CIF, offset, 4).rank = CIF
    BY DEF Field
  <2> QED
    BY <1>5, <2>1, <2>2, <2>3
<1>11. DecodeTypeOK' /\ HeaderInv'
  BY <1>0, <1>1, <1>9 DEF DecodeInv, DecodeTypeOK, HeaderInv, ReadCif
<1>12. WalkInv'
  BY <1>0, <1>9, <1>10 DEF WalkInv, ReadCif
<1>13. FieldsInPlace'
  BY <1>0, <1>2, <1>7 DEF DecodeInv, FieldsInPlace, ReadCif, Field
<1>14. ReadsInside'
  <2>1. EndLimit(p) \in Nat /\ EndLimit(p) <= p.length /\ EndLimit(p) <= Declared(p)
        /\ p.length \in Nat /\ Declared(p) \in Nat /\ offset \in Nat
    BY <1>0, <1>2, PacketTypes
  <2>2. offset + 4 <= p.length /\ offset + 4 <= Declared(p)
    BY <2>1 DEF ReadCif
  <2> QED
    BY <1>0, <2>2 DEF DecodeInv, ReadsInside, ReadCif, Field
<1>15. RefusedIffTruncated' /\ NothingLeftOut'
  BY DEF ReadCif, RefusedIffTruncated, NothingLeftOut
<1> QED
  BY <1>11, <1>12, <1>13, <1>14, <1>15 DEF DecodeInv


\* The walk is at the highest bit it has not passed: all that it has passed is
\* above, so the offset is the place of this bit's field.
LEMMA VisitPlace ==
    ASSUME DecodeInv, NEW bit \in 0..31, Visits(bit)
    PROVE  /\ packet \in RawPackets /\ packet.packet_type = PACKET_TYPE_IF_CONTEXT
           /\ bit \in packet.cif
           /\ Passed(packet, todo) = {rank \in Announced(packet) : rank > bit}
           /\ offset = PlaceOf(packet, bit)
           /\ bit \notin Passed(packet, todo) /\ Passed(packet, todo) \in SUBSET (0..36)
<1>1. /\ packet \in RawPackets /\ packet.packet_type = PACKET_TYPE_IF_CONTEXT
      /\ todo \in SUBSET (0..31) /\ todo \subseteq packet.cif
      /\ \A b \in packet.cif \ todo, c \in todo : b > c
      /\ offset = WORD0_SIZE + SizeOfAll(Passed(packet, todo))
      /\ bit \in todo /\ \A b \in todo : b <= bit
  BY DEF DecodeInv, DecodeTypeOK, WalkInv, Visits
<1>2. /\ Announced(packet) \in SUBSET (10..36)
      /\ \A b \in 0..31 : b \in Announced(packet) => b \in packet.cif
      /\ 31 \notin Announced(packet)
  BY <1>1, AnnouncedRanks
<1>3. ASSUME NEW rank \in Announced(packet)
      PROVE  rank \notin todo <=> rank > bit
  <2>1. CASE rank \in todo
    BY <1>1, <1>2, <2>1
  <2>2. CASE rank \notin todo /\ rank <= 31
    <3>1. rank \in 0..31
      BY <1>2, <2>2
    <3>2. rank \in packet.cif \ todo
      BY <1>2, <2>2, <3>1
    <3>3. rank > bit
      BY <1>1, <3>2
    <3> QED
      BY <2>2, <3>3
  <2>3. CASE rank > 31
    BY <1>1, <1>2, <2>3
  <2> QED
    BY <1>2, <2>1, <2>2, <2>3
<1>4. Passed(packet, todo) = {rank \in Announced(packet) : rank > bit}
  BY <1>3 DEF Passed
<1>5. Passed(packet, todo) \in SUBSET (0..36) /\ bit \notin Passed(packet, todo)
  BY <1>1, <1>2 DEF Passed
<1> QED
  BY <1>1, <1>4, <1>5 DEF PlaceOf

\* The indicator bit has no field.
LEMMA WalkIndicatorInv ==
    ASSUME DecodeInv, NEW bit \in 0..31, WalkIndicator(bit)
    PROVE  DecodeInv'
<1>1. bit \notin Announced(packet)
  BY VisitPlace, AnnouncedRanks DEF WalkIndicator, CONTEXT_FIELD_CHANGE_BIT
<1>2. Passed(packet, todo \ {bit}) = Passed(packet, todo)
  BY <1>1 DEF Passed
<1>3. DecodeTypeOK' /\ HeaderInv'
  BY DEF DecodeInv, DecodeTypeOK, HeaderInv, WalkIndicator, Visits
<1>4. WalkInv'
  <2>1. \A b \in packet.cif \ (todo \ {bit}), c \in todo \ {bit} : b > c
    <3> SUFFICES ASSUME NEW b \in packet.cif \ (todo \ {bit}), NEW c \in todo \ {bit}
                 PROVE  b > c
      OBVIOUS
    <3>1. b = bit \/ b \in packet.cif \ todo
      OBVIOUS
    <3>2. c <= bit /\ c # bit /\ c \in 0..31
      BY DEF WalkIndicator, Visits, DecodeInv, DecodeTypeOK
    <3>3. b \in packet.cif \ todo => b > c
      BY DEF DecodeInv, WalkInv, WalkIndicator, Visits
    <3> QED
      BY <3>1, <3>2, <3>3
  <2> QED
    BY <1>2, <2>1 DEF DecodeInv, WalkInv, WalkIndicator, Visits
<1>5. FieldsInPlace' /\ ReadsInside'
  BY FieldsKept DEF DecodeInv, WalkIndicator
<1>6. RefusedIffTruncated' /\ NothingLeftOut'
  BY DEF WalkIndicator, Visits, RefusedIffTruncated, NothingLeftOut
<1> QED
  BY <1>3, <1>4, <1>5, <1>6 DEF DecodeInv

\* When no field of fixed size is left, everything announced has been passed
\* and fits, and the used fields have all been taken.
LEMMA WalkDone ==
    ASSUME DecodeInv, at = "walk", \A b \in todo : b < 10,
           at' = "done", UNCHANGED <<packet, offset, todo, fields, body>>
    PROVE  DecodeInv'
<1> DEFINE p == packet
<1>0. /\ p \in RawPackets /\ p.packet_type = PACKET_TYPE_IF_CONTEXT
      /\ HeaderEnd(p) <= p.length
      /\ offset = WORD0_SIZE + SizeOfAll(Passed(p, todo)) /\ offset <= EndLimit(p)
      /\ {f.rank : f \in fields} = Passed(p, todo) \cap (UsedBits \cup 31..36)
      /\ todo \in SUBSET (0..31)
  BY DEF DecodeInv, DecodeTypeOK, WalkInv
<1>1. Announced(p) \in SUBSET (10..36)
  BY <1>0, AnnouncedRanks
<1>2. Passed(p, todo) = Announced(p)
  <2>1. \A rank \in Announced(p) : rank \notin todo
    BY <1>0, <1>1
  <2> QED
    BY <2>1 DEF Passed
<1>3. p.packet_type # PACKET_TYPE_IF_DATA
  BY <1>0 DEF PACKET_TYPE_IF_DATA, PACKET_TYPE_IF_CONTEXT
<1>4. Complete(p)
  BY <1>0, <1>2, <1>3, HeaderPlaces, PacketTypes DEF Complete
<1>5. DecodeTypeOK' /\ HeaderInv' /\ WalkInv'
  BY DEF DecodeInv, DecodeTypeOK, HeaderInv, WalkInv
<1>6. FieldsInPlace' /\ ReadsInside'
  BY FieldsKept DEF DecodeInv
<1>7. RefusedIffTruncated'
  BY <1>4 DEF RefusedIffTruncated
<1>8. NothingLeftOut'
  BY <1>0, <1>2, <1>3 DEF NothingLeftOut
<1> QED
  BY <1>5, <1>6, <1>7, <1>8 DEF DecodeInv

\* The walk stops at a bit below 10, and all that it has left is below too.
LEMMA WalkStopsInv ==
    ASSUME DecodeInv, NEW bit \in 0..31, WalkStops(bit)
    PROVE  DecodeInv'
<1>1. DOMAIN FIELD_SIZE = 10..30
  BY DEF FIELD_SIZE
<1>2. bit < 10
  BY <1>1 DEF WalkStops, CONTEXT_FIELD_CHANGE_BIT
<1>3. \A b \in todo : b <= bit /\ b \in 0..31
  BY DEF WalkStops, Visits, DecodeInv, DecodeTypeOK
<1>4. \A b \in todo : b < 10
  BY <1>2, <1>3
<1> QED
  BY <1>4, WalkDone DEF WalkStops, Visits

\* The walk ends when no bit is left.
LEMMA WalkEndsInv ==
    ASSUME DecodeInv, WalkEnds
    PROVE  DecodeInv'
BY WalkDone DEF WalkEnds


\* The bit at which the walk is has a field of fixed size: that is announced,
\* and with it the walk would have passed this much.
LEMMA FieldToPass ==
    ASSUME DecodeInv, NEW bit \in 0..31, Visits(bit), bit \in DOMAIN FIELD_SIZE
    PROVE  /\ bit \in Announced(packet) /\ bit \in 10..30
           /\ SizeOf(bit) = FIELD_SIZE[bit] /\ FIELD_SIZE[bit] \in Nat
           /\ Passed(packet, todo \ {bit}) = Passed(packet, todo) \cup {bit}
           /\ SizeOfAll(Passed(packet, todo) \cup {bit})
                = SizeOfAll(Passed(packet, todo)) + FIELD_SIZE[bit]
           /\ SizeOfAll(Passed(packet, todo)) \in Nat
<1>1. bit \in 10..30
  BY DEF FIELD_SIZE
<1>2. bit \in Announced(packet)
  BY <1>1, VisitPlace, AnnouncedRanks
<1>3. SizeOf(bit) = FIELD_SIZE[bit]
  BY DEF SizeOf
<1>4. SizeOf(bit) \in Nat
  BY SizeOfType
<1>5. Passed(packet, todo \ {bit}) = Passed(packet, todo) \cup {bit}
  BY <1>2 DEF Passed
<1>6. bit \notin Passed(packet, todo) /\ Passed(packet, todo) \in SUBSET (0..36)
  BY VisitPlace
<1>7. bit \in 0..36
  BY <1>1
<1>8. SizeOfAll(Passed(packet, todo) \cup {bit}) = SizeOfAll(Passed(packet, todo)) + SizeOf(bit)
  BY <1>6, <1>7, BytesAdd
<1> QED
  BY <1>1, <1>2, <1>3, <1>4, <1>5, <1>6, <1>8, BytesFinite

\* A field beyond the end limit is announced and does not fit.
LEMMA WalkRaisesInv ==
    ASSUME DecodeInv, NEW bit \in 0..31, WalkRaises(bit)
    PROVE  DecodeInv'
<1> DEFINE p == packet
           passed == Passed(p, todo)
<1>1. Visits(bit) /\ bit \in DOMAIN FIELD_SIZE /\ offset + FIELD_SIZE[bit] > EndLimit(p)
  BY DEF WalkRaises
<1>2. /\ bit \in Announced(p) /\ FIELD_SIZE[bit] \in Nat /\ SizeOfAll(passed) \in Nat
      /\ SizeOfAll(passed \cup {bit}) = SizeOfAll(passed) + FIELD_SIZE[bit]
  BY <1>1, FieldToPass
<1>3. offset = WORD0_SIZE + SizeOfAll(passed)
  BY <1>1 DEF DecodeInv, WalkInv, Visits
<1>4. p \in RawPackets /\ p.packet_type = PACKET_TYPE_IF_CONTEXT
  BY <1>1, VisitPlace
<1>5. Announced(p) \in SUBSET (0..36) /\ passed \cup {bit} \in SUBSET Announced(p)
  BY <1>2, <1>4, AnnouncedRanks DEF Passed
<1> HIDE DEF passed
<1>6. SizeOfAll(passed \cup {bit}) <= SizeOfAll(Announced(p)) /\ SizeOfAll(Announced(p)) \in Nat
  BY <1>5, BytesMonotone, BytesFinite
<1>7. EndLimit(p) \in Nat
  BY <1>4, PacketTypes
<1>8. ~(WORD0_SIZE + SizeOfAll(Announced(p)) <= EndLimit(p))
  BY <1>1, <1>2, <1>3, <1>6, <1>7 DEF WORD0_SIZE
<1>9. Walked(p) # {}
  BY <1>4 DEF Walked
<1>10. ~Complete(p)
  BY <1>8, <1>9 DEF Complete
<1> QED
  BY <1>10, RaiseInv DEF WalkRaises

\* A field that fits is passed over, and taken if it is used.
LEMMA WalkFieldInv ==
    ASSUME DecodeInv, NEW bit \in 0..31, WalkField(bit)
    PROVE  DecodeInv'
<1> DEFINE p == packet
           new == Field(bit, offset, FIELD_SIZE[bit])
<1>1. /\ Visits(bit) /\ bit \in DOMAIN FIELD_SIZE /\ offset + FIELD_SIZE[bit] <= EndLimit(p)
      /\ fields' = IF bit \in UsedBits THEN fields \cup {new} ELSE fields
      /\ offset' = offset + FIELD_SIZE[bit] /\ todo' = todo \ {bit}
      /\ at = "walk" /\ at' = "walk" /\ packet' = packet /\ body' = body
  BY DEF WalkField, Visits
<1>2. /\ bit \in Announced(p) /\ bit \in 10..30
      /\ SizeOf(bit) = FIELD_SIZE[bit] /\ FIELD_SIZE[bit] \in Nat
      /\ Passed(p, todo \ {bit}) = Passed(p, todo) \cup {bit}
      /\ SizeOfAll(Passed(p, todo) \cup {bit}) = SizeOfAll(Passed(p, todo)) + FIELD_SIZE[bit]
      /\ SizeOfAll(Passed(p, todo)) \in Nat
  BY <1>1, FieldToPass
<1>3. /\ p \in RawPackets /\ p.packet_type = PACKET_TYPE_IF_CONTEXT /\ offset = PlaceOf(p, bit)
  BY <1>1, VisitPlace
<1>4. /\ offset = WORD0_SIZE + SizeOfAll(Passed(p, todo)) /\ offset \in Nat
      /\ {f.rank : f \in fields} = Passed(p, todo) \cap (UsedBits \cup 31..36)
      /\ todo \in SUBSET (0..31) /\ todo \subseteq p.cif
      /\ \A b \in p.cif \ todo, c \in todo : b > c
      /\ HeaderEnd(p) <= p.length
  BY <1>1 DEF DecodeInv, DecodeTypeOK, WalkInv
<1>5. new.rank = bit /\ new.place = offset /\ new.size = FIELD_SIZE[bit]
  BY DEF Field
<1> HIDE DEF new
<1>6. DecodeTypeOK' /\ HeaderInv'
  BY <1>1, <1>2, <1>3, <1>4 DEF DecodeTypeOK, HeaderInv
<1>7. offset' = WORD0_SIZE + SizeOfAll(Passed(p, todo \ {bit}))
  <2>1. offset' = (WORD0_SIZE + SizeOfAll(Passed(p, todo))) + FIELD_SIZE[bit]
    BY <1>1, <1>4
  <2>2. SizeOfAll(Passed(p, todo \ {bit})) = SizeOfAll(Passed(p, todo)) + FIELD_SIZE[bit]
    BY <1>2
  <2>3. SizeOfAll(Passed(p, todo)) \in Nat /\ FIELD_SIZE[bit] \in Nat
    BY <1>2
  <2> QED
    BY <2>1, <2>2, <2>3 DEF WORD0_SIZE
<1>8. \A b \in p.cif \ (todo \ {bit}), c \in todo \ {bit} : b > c
  <2> SUFFICES ASSUME NEW b \in p.cif \ (todo \ {bit}), NEW c \in todo \ {bit}
               PROVE  b > c
    OBVIOUS
  <2>1. b = bit \/ b \in p.cif \ todo
    OBVIOUS
  <2>2. c <= bit /\ c # bit /\ c \in 0..31
    BY <1>1, <1>4 DEF Visits
  <2>3. b \in p.cif \ todo => b > c
    BY <1>4
  <2> QED
    BY <2>1, <2>2, <2>3
<1>9. {f.rank : f \in fields'} = Passed(p, todo \ {bit}) \cap (UsedBits \cup 31..36)
  <2>1. CASE bit \in UsedBits
    <3>1. {f.rank : f \in fields'} = {f.rank : f \in fields} \cup {bit}
      BY <1>1, <1>5, <2>1
    <3> QED
      BY <1>2, <1>4, <2>1, <3>1
  <2>2. CASE bit \notin UsedBits
    <3>1. bit \notin 31..36
      BY <1>2
    <3> QED
      BY <1>1, <1>2, <1>4, <2>2, <3>1
  <2> QED
    BY <2>1, <2>2
<1>10. WalkInv'
  BY <1>1, <1>3, <1>4, <1>7, <1>8, <1>9 DEF WalkInv
<1>11. FieldsInPlace'
  BY <1>1, <1>2, <1>3, <1>5 DEF DecodeInv, FieldsInPlace
<1>12. ReadsInside'
  <2>1. /\ EndLimit(p) \in Nat /\ EndLimit(p) <= p.length /\ EndLimit(p) <= Declared(p)
        /\ p.length \in Nat /\ Declared(p) \in Nat
    BY <1>3, PacketTypes
  <2>2. new.place + new.size <= p.length /\ new.place + new.size <= Declared(p)
    BY <1>1, <1>2, <1>4, <1>5, <2>1
  <2> QED
    BY <1>1, <2>2 DEF DecodeInv, ReadsInside
<1>13. RefusedIffTruncated' /\ NothingLeftOut'
  BY <1>1 DEF RefusedIffTruncated, NothingLeftOut
<1> QED
  BY <1>6, <1>10, <1>11, <1>12, <1>13 DEF DecodeInv

\* The whole samples in n bytes, for samples of b bytes.
LEMMA WholeSamples ==
    ASSUME NEW n \in Nat, NEW b \in 1..16
    PROVE  /\ (n \div b) * b \in Nat /\ (n \div b) * b <= n
           /\ n - (n \div b) * b \in 0..(b - 1) /\ ((n \div b) * b) % b = 0
<1>1. \/ b = 1 \/ b = 2 \/ b = 3 \/ b = 4 \/ b = 5 \/ b = 6 \/ b = 7 \/ b = 8 \/ b = 9
      \/ b = 10 \/ b = 11 \/ b = 12 \/ b = 13 \/ b = 14 \/ b = 15 \/ b = 16
  OBVIOUS
<1>2. n \div b \in Int
  OBVIOUS
<1> QED
  BY <1>1, <1>2

\* A data packet that is not all there is truncated.
LEMMA TrimRaisesInv ==
    ASSUME DecodeInv, TrimRaises
    PROVE  DecodeInv'
<1>1. packet \in RawPackets /\ packet.packet_type = PACKET_TYPE_IF_DATA
  BY DEF DecodeInv, DecodeTypeOK, HeaderInv, TrimRaises
<1>2. ~(Declared(packet) <= packet.length)
  BY <1>1, PacketTypes DEF TrimRaises
<1> QED
  BY <1>1, <1>2, RaiseInv DEF TrimRaises, Complete

\* The samples are what lies between the header and the trailer.
LEMMA TrimInv ==
    ASSUME DecodeInv, Trim
    PROVE  DecodeInv'
<1> DEFINE p == packet
           n == SampleEnd(p) - offset
           b == p.bytes_per_sample
           trailer == SizeIf(p.trailer, TRAILER_SIZE)
<1>0. /\ p \in RawPackets /\ packet' = p /\ p.packet_type = PACKET_TYPE_IF_DATA
      /\ offset = HeaderEnd(p) /\ HeaderEnd(p) <= p.length
      /\ at' = "done" /\ fields' = fields /\ offset' = offset /\ todo' = todo
      /\ p.length >= Declared(p)
      /\ body' = [place |-> offset, size |-> (n \div b) * b]
  BY DEF DecodeInv, DecodeTypeOK, HeaderInv, Trim
<1>1. /\ HeaderEnd(p) \in Nat /\ header_length(p) = HeaderEnd(p)
      /\ Declared(p) \in Nat /\ EndLimit(p) = Declared(p) /\ p.length \in Nat
      /\ b \in 1..16
      /\ WORD0_SIZE + SizeOfAll(Announced(p) \ Walked(p)) = HeaderEnd(p)
  BY <1>0, HeaderPlaces, PacketTypes
<1>2. trailer \in Nat
  BY DEF SizeIf, TRAILER_SIZE
<1> HIDE DEF trailer
<1>3. /\ n \in Nat
      /\ n = IF Declared(p) - trailer < HeaderEnd(p) THEN 0
             ELSE Declared(p) - trailer - HeaderEnd(p)
  BY <1>0, <1>1, <1>2 DEF SampleEnd, trailer
<1> HIDE DEF n
<1> DEFINE s == (n \div b) * b
<1>4. s \in Nat /\ s <= n /\ n - s \in 0..(b - 1) /\ s % b = 0
  BY <1>1, <1>3, WholeSamples
<1>5. body'.place = HeaderEnd(p) /\ body'.size = s
  BY <1>0
<1> HIDE DEF s
<1>6. DecodeTypeOK' /\ HeaderInv' /\ WalkInv'
  BY <1>0 DEF DecodeInv, DecodeTypeOK, HeaderInv, WalkInv
<1>7. FieldsInPlace'
  BY <1>0 DEF DecodeInv, FieldsInPlace
<1>8. s > 0 => HeaderEnd(p) + s + trailer <= Declared(p)
  BY <1>1, <1>2, <1>3, <1>4
<1>9. ReadsInside'
  <2>1. \A f \in fields' :
          /\ f.place + f.size <= p.length
          /\ f.rank <= CIF => f.place + f.size <= Declared(p)
    BY <1>0 DEF DecodeInv, ReadsInside
  <2>2. s >= 0 /\ Declared(p) <= p.length
    BY <1>0, <1>1, <1>4
  <2>3. body'.size > 0 =>
          /\ body'.place = header_length(p)
          /\ body'.place + body'.size + SizeIf(p.trailer, TRAILER_SIZE) <= Declared(p)
          /\ Declared(p) <= p.length
    BY <1>1, <1>5, <1>8, <2>2 DEF trailer
  <2>4. body'.size >= 0
    BY <1>5, <2>2
  <2> QED
    BY <1>0, <2>1, <2>3, <2>4 DEF ReadsInside
<1>10. RefusedIffTruncated'
  <2>1. Walked(p) = {}
    BY <1>0 DEF Walked, PACKET_TYPE_IF_CONTEXT, PACKET_TYPE_IF_DATA
  <2>2. Complete(p)
    BY <1>0, <1>1, <2>1 DEF Complete
  <2> QED
    BY <1>0, <2>2 DEF RefusedIffTruncated
<1>11. NothingLeftOut'
  <2>1. p.packet_type # PACKET_TYPE_IF_CONTEXT
    BY <1>0 DEF PACKET_TYPE_IF_CONTEXT, PACKET_TYPE_IF_DATA
  <2> DEFINE payload == Declared(p) - HeaderEnd(p) - trailer
  <2>2. n = IF payload > 0 THEN payload ELSE 0
    BY <1>1, <1>2, <1>3
  <2>3. (IF payload > 0 THEN payload ELSE 0) - s \in 0..(b - 1)
    BY <1>4, <2>2
  <2> QED
    BY <1>0, <1>1, <1>4, <1>5, <2>1, <2>3 DEF NothingLeftOut, trailer
<1> QED
  BY <1>6, <1>7, <1>9, <1>10, <1>11 DEF DecodeInv

\* Every step of the decoder keeps the invariant.
LEMMA DecodeStepInv == DecodeInv /\ [DecodeNext]_decodeVars => DecodeInv'
<1> SUFFICES ASSUME DecodeInv, [DecodeNext]_decodeVars
             PROVE  DecodeInv'
  OBVIOUS
<1>1. CASE ParseRaises
  BY <1>1, ParseRaisesInv
<1>2. CASE ParseHeader
  BY <1>2, ParseHeaderInv
<1>3. CASE CifRaises
  BY <1>3, CifRaisesInv
<1>4. CASE ReadCif
  BY <1>4, ReadCifInv
<1>5. ASSUME NEW bit \in 0..31,
             WalkIndicator(bit) \/ WalkStops(bit) \/ WalkRaises(bit) \/ WalkField(bit)
      PROVE  DecodeInv'
  BY <1>5, WalkIndicatorInv, WalkStopsInv, WalkRaisesInv, WalkFieldInv
<1>6. CASE WalkEnds
  BY <1>6, WalkEndsInv
<1>7. CASE TrimRaises
  BY <1>7, TrimRaisesInv
<1>8. CASE Trim
  BY <1>8, TrimInv
<1>9. CASE UNCHANGED decodeVars
  <2>1. DecodeTypeOK' /\ HeaderInv' /\ WalkInv'
    BY <1>9 DEF DecodeInv, decodeVars, DecodeTypeOK, HeaderInv, WalkInv
  <2>2. FieldsInPlace' /\ ReadsInside'
    BY <1>9, FieldsKept DEF DecodeInv, decodeVars
  <2>3. RefusedIffTruncated' /\ NothingLeftOut'
    BY <1>9 DEF DecodeInv, decodeVars, RefusedIffTruncated, NothingLeftOut
  <2> QED
    BY <2>1, <2>2, <2>3 DEF DecodeInv
<1> QED
  BY <1>1, <1>2, <1>3, <1>4, <1>5, <1>6, <1>7, <1>8, <1>9 DEF DecodeNext

\* The invariant holds of every datagram, at every step of its decoding.
LEMMA DecodeAlways == DecodeSpec => []DecodeInv
BY DecodeInitInv, DecodeStepInv, PTL DEF DecodeSpec

-----------------------------------------------------------------------------
\* parse_header, decode_context: whatever combination of flags and CIF bits is
\* set, every field is taken from its place and with its size.
THEOREM FieldsRight == DecodeSpec => []FieldsInPlace
<1>1. DecodeInv => FieldsInPlace
  BY DEF DecodeInv
<1> QED
  BY <1>1, DecodeAlways, PTL

\* No byte beyond the datagram, nor of a context or a payload beyond the
\* declared packet, is ever read, also if packet_size lies.
THEOREM NeverReadsOutside == DecodeSpec => []ReadsInside
<1>1. DecodeInv => ReadsInside
  BY DEF DecodeInv
<1> QED
  BY <1>1, DecodeAlways, PTL

\* The decoder refuses the truncated datagrams and no others.
THEOREM RefusesTruncated == DecodeSpec => []RefusedIffTruncated
<1>1. DecodeInv => RefusedIffTruncated
  BY DEF DecodeInv
<1> QED
  BY <1>1, DecodeAlways, PTL

\* What is decoded is complete: all used fields of a context that can be
\* reached, all whole samples of a data packet.
THEOREM DecodesEverything == DecodeSpec => []NothingLeftOut
<1>1. DecodeInv => NothingLeftOut
  BY DEF DecodeInv
<1> QED
  BY <1>1, DecodeAlways, PTL

=============================================================================
