-------------------------------- MODULE Decode --------------------------------
(***************************************************************************)
(* interpreter.py below the class Interpreter: where parse_header,         *)
(* decode_context and trim_data look for things in the bytes of one        *)
(* datagram.  Packets and Interpreter take for granted that a datagram is  *)
(* either truncated or decoded right; this module is about that.           *)
(*                                                                         *)
(* A datagram is its length, the flags and the size in its first word, and *)
(* the bits set in its context indicator field (CIF).  A field is known by *)
(* its rank: CIF bits have their own numbers, and the parts of the header  *)
(* that precede them have higher ones.  What a decoded field contains      *)
(* plays no part, only the range of bytes it is taken from.                *)
(***************************************************************************)
EXTENDS Integers, FiniteSets

CONSTANT
    RawPackets     \* the datagrams to decode

PACKET_TYPE_IF_DATA    == 1
PACKET_TYPE_IF_CONTEXT == 4
PACKET_TYPES_WITH_STREAM_ID == {1, 3, 4, 5}

\* packet_size has 16 bits.
MaxPacketSize == 65535

\* packet_size counts words; bytes_per_sample is what the stream's context says.
ASSUME RawPacketsAssumption ==
    RawPackets \subseteq
        [length : Nat, packet_type : 0..15, class_id : BOOLEAN, trailer : BOOLEAN,
         tsi : 0..3, tsf : 0..3, packet_size : 0..MaxPacketSize, cif : SUBSET (0..31),
         bytes_per_sample : 1..16]

STREAM_ID == 36
CLASS_ID  == 35
INT_TS    == 34
FRAC_TS   == 33
CIF       == 32
CONTEXT_FIELD_CHANGE_BIT == 31

WORD0_SIZE   == 4
TRAILER_SIZE == 4

\* The CIF bits with a field of fixed size.
FIELD_SIZE ==
    [bit \in 10..30 |->
        IF bit \in {30, 24, 23, 22, 19, 18, 16, 10} THEN 4
        ELSE IF bit \in {14, 13} THEN 44
        ELSE IF bit \in {12, 11} THEN 52
        ELSE 8]

\* Bandwidth, RF frequency, gain, sample rate and payload format.
UsedBits == {29, 27, 23, 21, 15}

HasStreamId(p) == p.packet_type \in PACKET_TYPES_WITH_STREAM_ID

SizeIf(present, size) == IF present THEN size ELSE 0

header_length(p) ==
    WORD0_SIZE + SizeIf(HasStreamId(p), 4) + SizeIf(p.class_id, 8)
               + SizeIf(p.tsi # 0, 4) + SizeIf(p.tsf # 0, 8)

Declared(p) == p.packet_size * 4

\* Mutant: the bytes that follow the declared packet are decoded too.
EndLimitOfDatagram(p) == p.length

\* end_limit of decode_context.
EndLimit(p) == IF p.length < Declared(p) THEN p.length ELSE Declared(p)

VARIABLES
    packet,    \* the datagram
    at,        \* where the decoder is
    offset,    \* the running byte offset
    todo,      \* the CIF bits that the walk has not visited
    fields,    \* the fields taken so far, each with its place
    body       \* where trim_data found the samples

decodeVars == <<packet, at, offset, todo, fields, body>>

Field(rank, place, size) == [rank |-> rank, place |-> place, size |-> size]

DecodeInit ==
    /\ packet \in RawPackets
    /\ at = "header"
    /\ offset = 0
    /\ todo = {}
    /\ fields = {}
    /\ body = [place |-> 0, size |-> 0]

-----------------------------------------------------------------------------
(* parse_header                                                             *)

Raise ==
    /\ at' = "raised"
    /\ UNCHANGED <<packet, offset, todo, fields, body>>

ParseRaises ==
    /\ at = "header"
    /\ packet.length < WORD0_SIZE \/ packet.length < header_length(packet)
    /\ Raise

\* The offset moves over the parts of the header one after the other.
ClassIdAt(p) == WORD0_SIZE + SizeIf(HasStreamId(p), 4)
IntTsAt(p)   == ClassIdAt(p) + SizeIf(p.class_id, 8)
FracTsAt(p)  == IntTsAt(p) + SizeIf(p.tsi # 0, 4)
HeaderEnd(p) == FracTsAt(p) + SizeIf(p.tsf # 0, 8)

HeaderFields(p) ==
    {f \in {Field(STREAM_ID, WORD0_SIZE, 4), Field(CLASS_ID, ClassIdAt(p), 8),
            Field(INT_TS, IntTsAt(p), 4), Field(FRAC_TS, FracTsAt(p), 8)} :
       \/ f.rank = STREAM_ID /\ HasStreamId(p)
       \/ f.rank = CLASS_ID /\ p.class_id
       \/ f.rank = INT_TS /\ p.tsi # 0
       \/ f.rank = FRAC_TS /\ p.tsf # 0}

\* Packets that are neither context nor data are not looked at any further.
ParseHeader ==
    /\ at = "header"
    /\ packet.length >= WORD0_SIZE /\ packet.length >= header_length(packet)
    /\ fields' = HeaderFields(packet)
    /\ offset' = HeaderEnd(packet)
    /\ at' = IF packet.packet_type = PACKET_TYPE_IF_CONTEXT THEN "cif"
             ELSE IF packet.packet_type = PACKET_TYPE_IF_DATA THEN "trim" ELSE "done"
    /\ UNCHANGED <<packet, todo, body>>

-----------------------------------------------------------------------------
(* decode_context                                                           *)

CifRaises ==
    /\ at = "cif"
    /\ EndLimit(packet) < offset + 4
    /\ Raise

ReadCif ==
    /\ at = "cif"
    /\ EndLimit(packet) >= offset + 4
    /\ fields' = fields \cup {Field(CIF, offset, 4)}
    /\ offset' = offset + 4
    /\ todo' = packet.cif
    /\ at' = "walk"
    /\ UNCHANGED <<packet, body>>

\* The walk visits the bits that are set, from the highest down.
Visits(bit) == at = "walk" /\ bit \in todo /\ \A b \in todo : b <= bit

WalkIndicator(bit) ==
    /\ Visits(bit) /\ bit = CONTEXT_FIELD_CHANGE_BIT
    /\ todo' = todo \ {bit}
    /\ UNCHANGED <<packet, at, offset, fields, body>>

\* Mutant: a bit without a known size discards the context.
WalkStopsRaises(bit) ==
    /\ Visits(bit) /\ bit # CONTEXT_FIELD_CHANGE_BIT /\ bit \notin DOMAIN FIELD_SIZE
    /\ Raise

\* A bit whose field has no fixed size ends the walk; what was decoded stays.
WalkStops(bit) ==
    /\ Visits(bit) /\ bit # CONTEXT_FIELD_CHANGE_BIT /\ bit \notin DOMAIN FIELD_SIZE
    /\ at' = "done"
    /\ UNCHANGED <<packet, offset, todo, fields, body>>

WalkRaises(bit) ==
    /\ Visits(bit) /\ bit \in DOMAIN FIELD_SIZE
    /\ offset + FIELD_SIZE[bit] > EndLimit(packet)
    /\ Raise

\* Mutant: the walk advances only past the fields it uses.
WalkFieldUsedOnly(bit) ==
    /\ Visits(bit) /\ bit \in DOMAIN FIELD_SIZE
    /\ offset + FIELD_SIZE[bit] <= EndLimit(packet)
    /\ fields' = IF bit \in UsedBits
                 THEN fields \cup {Field(bit, offset, FIELD_SIZE[bit])} ELSE fields
    /\ offset' = IF bit \in UsedBits THEN offset + FIELD_SIZE[bit] ELSE offset
    /\ todo' = todo \ {bit}
    /\ UNCHANGED <<packet, at, body>>

\* Every field of fixed size is passed over, only the used ones are decoded.
WalkField(bit) ==
    /\ Visits(bit) /\ bit \in DOMAIN FIELD_SIZE
    /\ offset + FIELD_SIZE[bit] <= EndLimit(packet)
    /\ fields' = IF bit \in UsedBits
                 THEN fields \cup {Field(bit, offset, FIELD_SIZE[bit])} ELSE fields
    /\ offset' = offset + FIELD_SIZE[bit]
    /\ todo' = todo \ {bit}
    /\ UNCHANGED <<packet, at, body>>

WalkEnds ==
    /\ at = "walk" /\ todo = {}
    /\ at' = "done"
    /\ UNCHANGED <<packet, offset, todo, fields, body>>

-----------------------------------------------------------------------------
(* trim_data                                                                *)

TrimRaises ==
    /\ at = "trim"
    /\ packet.length < Declared(packet)
    /\ Raise

\* Mutant: the trailer is taken for samples.
SampleEndWithTrailer(p) ==
    IF EndLimit(p) < HeaderEnd(p) THEN HeaderEnd(p) ELSE EndLimit(p)

\* The end of the samples: before the trailer, and never before the header's end.
SampleEnd(p) ==
    LET end == EndLimit(p) - SizeIf(p.trailer, TRAILER_SIZE)
    IN  IF end < HeaderEnd(p) THEN HeaderEnd(p) ELSE end

Trim ==
    /\ at = "trim"
    /\ packet.length >= Declared(packet)
    /\ LET num_samples == (SampleEnd(packet) - offset) \div packet.bytes_per_sample
       IN  body' = [place |-> offset, size |-> num_samples * packet.bytes_per_sample]
    /\ at' = "done"
    /\ UNCHANGED <<packet, offset, todo, fields>>

DecodeNext ==
    \/ ParseRaises \/ ParseHeader
    \/ CifRaises \/ ReadCif
    \/ \E bit \in 0..31 :
          WalkIndicator(bit) \/ WalkStops(bit) \/ WalkRaises(bit) \/ WalkField(bit)
    \/ WalkEnds
    \/ TrimRaises \/ Trim
    \/ at \in {"done", "raised"} /\ UNCHANGED decodeVars

DecodeSpec == DecodeInit /\ [][DecodeNext]_decodeVars

-----------------------------------------------------------------------------
(* Properties.                                                              *)

\* Reference: everything the flags and the CIF announce, up to the first bit
\* whose field has no fixed size (all of these are below 10), lies one after the
\* other by descending rank.
Walked(p) ==
    IF p.packet_type = PACKET_TYPE_IF_CONTEXT
    THEN {CIF} \cup {bit \in p.cif : bit \in DOMAIN FIELD_SIZE}
    ELSE {}

Announced(p) ==
    {rank \in {STREAM_ID, CLASS_ID, INT_TS, FRAC_TS} :
        \E f \in HeaderFields(p) : f.rank = rank} \cup Walked(p)

SizeOf(rank) ==
    IF rank \in DOMAIN FIELD_SIZE THEN FIELD_SIZE[rank]
    ELSE IF rank \in {CLASS_ID, FRAC_TS} THEN 8 ELSE 4

\* The bytes of a set of fields, each known by its field and its number there.
BytesOf(ranks) == UNION {{rank} \X (1..SizeOf(rank)) : rank \in ranks}

SizeOfAll(ranks) == Cardinality(BytesOf(ranks))

PlaceOf(p, rank) == WORD0_SIZE + SizeOfAll({r \in Announced(p) : r > rank})

\* Every field is taken from its place by the reference: neither an absent part
\* of the header, nor an unused field, nor the indicator bit, which has no
\* field, shifts the ones after it.
FieldsInPlace ==
    \A f \in fields : f.place = PlaceOf(packet, f.rank) /\ f.size = SizeOf(f.rank)

\* "Never read past the DECLARED packet end": context fields and samples come
\* from the declared packet and from the datagram, also if the two disagree;
\* the samples end before the trailer, and not before they begin, whatever
\* packet_size claims.
ReadsInside ==
    /\ \A f \in fields :
         /\ f.place + f.size <= packet.length
         /\ f.rank <= CIF => f.place + f.size <= Declared(packet)
    /\ body.size >= 0
    /\ body.size > 0 =>
         /\ body.place = header_length(packet)
         /\ body.place + body.size + SizeIf(packet.trailer, TRAILER_SIZE) <= Declared(packet)
         /\ Declared(packet) <= packet.length

\* What is announced fits: the header into the datagram, and for a context all
\* its fields also into the declared packet; for data the whole packet is there.
Complete(p) ==
    /\ p.length >= WORD0_SIZE + SizeOfAll(Announced(p) \ Walked(p))
    /\ Walked(p) # {} => WORD0_SIZE + SizeOfAll(Announced(p)) <= EndLimit(p)
    /\ p.packet_type = PACKET_TYPE_IF_DATA => Declared(p) <= p.length

\* A datagram is refused exactly if it is truncated; bits that cannot be walked
\* past do not count against it.
RefusedIffTruncated ==
    /\ at = "raised" => ~Complete(packet)
    /\ at = "done" => Complete(packet)

\* A context holds all the used fields it announces, those above a bit that
\* stops the walk included; data is all the whole samples between header and
\* trailer, with less than one sample left over.
NothingLeftOut ==
    at = "done" =>
        /\ packet.packet_type = PACKET_TYPE_IF_CONTEXT =>
             {f.rank : f \in fields} = Announced(packet) \cap (UsedBits \cup 31..36)
        /\ packet.packet_type = PACKET_TYPE_IF_DATA =>
             LET payload == Declared(packet) - header_length(packet)
                              - SizeIf(packet.trailer, TRAILER_SIZE)
                 rest == (IF payload > 0 THEN payload ELSE 0) - body.size
             IN  body.size % packet.bytes_per_sample = 0
                   /\ rest \in 0..(packet.bytes_per_sample - 1)

=============================================================================
