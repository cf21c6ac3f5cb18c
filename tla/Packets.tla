------------------------------- MODULE Packets -------------------------------
(***************************************************************************)
(* The data the pipeline moves: VITA-49 datagrams as Thread A receives     *)
(* them, the contexts decoded from them, and the typed records that the    *)
(* interpreter hands to the buffers.                                       *)
(*                                                                         *)
(* A datagram is abstracted to what the code's decisions depend on.  A     *)
(* data packet carries seq, the ground-truth position of the packet in its *)
(* sender's stream, which the code never sees: it only sees the four-bit   *)
(* packet counter, seq % 16.  Field values are compared for equality only, *)
(* so they are drawn from the set FieldValues.                             *)
(***************************************************************************)
EXTENDS Integers, FiniteSets, Sequences

CONSTANTS
    Streams,          \* stream identifiers that appear on the socket
    Seqs,             \* positions of data packets in their sender's stream
    PayloadSizes,     \* payload bytes of a data packet: header and trailer off
    FieldValues,      \* values of the scalar context fields
    ContextPayloads,  \* what a context packet can carry
    max_streams,      \* cap on streams, the same for interpreter and router
    None              \* Python's None

-----------------------------------------------------------------------------
(* formats.py: the item formats the decoder implements.  A numpy dtype is   *)
(* its kind and its item size in bytes; byte order plays no part here.      *)

ITEM_FORMAT_SIGNED_FIXED   == 0
ITEM_FORMAT_UNSIGNED_FIXED == 16
ITEM_FORMAT_IEEE_FLOAT32   == 14
ITEM_FORMAT_IEEE_FLOAT64   == 15

RC_TYPE_REAL              == 0
RC_TYPE_COMPLEX_CARTESIAN == 1

Dtypes == [kind : {"i", "u", "f", "S", "invalid"}, itemsize : Nat]

\* The keys of ITEM_FORMAT_DTYPES ...
ItemFormats ==
    ({ITEM_FORMAT_SIGNED_FIXED, ITEM_FORMAT_UNSIGNED_FIXED} \X {8, 16, 32})
      \cup {<<ITEM_FORMAT_IEEE_FLOAT32, 32>>, <<ITEM_FORMAT_IEEE_FLOAT64, 64>>}

\* ... and its values: the kind follows from the format, the size from the bits.
ITEM_FORMAT_DTYPES ==
    [p \in ItemFormats |->
        [kind |-> IF p[1] = ITEM_FORMAT_SIGNED_FIXED THEN "i"
                  ELSE IF p[1] = ITEM_FORMAT_UNSIGNED_FIXED THEN "u" ELSE "f",
         itemsize |-> p[2] \div 8]]

\* A Data Packet Payload Format word by its bit windows.  "framing" stands for
\* the six windows the decoder only compares with zero (event tag, channel tag,
\* component repeat, fraction size, repeat count, vector size).
PayloadFormatWords ==
    [packing_method : 0..1, rc_type : 0..3, data_item_format : 0..31,
     item_bits : 1..64, item_packing_bits : 1..64, framing : BOOLEAN]

ASSUME StreamsAssumption == IsFiniteSet(Streams) /\ None \notin Streams

ASSUME MaxStreamsAssumption == max_streams \in Nat

ASSUME SeqsAssumption == Seqs \subseteq Nat /\ PayloadSizes \subseteq Nat

\* None is Python's None: different from every number, Boolean and record.
ASSUME NoneAssumption ==
    /\ None \notin Nat
    /\ None \notin BOOLEAN
    /\ None \notin Dtypes
    /\ None \notin PayloadFormatWords

\* A context packet that carries no payload format word has word = None.
ASSUME PayloadsAssumption ==
    ContextPayloads \subseteq
        [rf_hz : FieldValues, sample_rate_hz : FieldValues,
         gain_db : FieldValues, word : PayloadFormatWords \cup {None}]

-----------------------------------------------------------------------------
(* interpreter.py: decoding a context packet.                               *)

\* The decision of decode_payload_format: is this sample layout implemented?
SupportedFormat(w) ==
    /\ w.packing_method = 0
    /\ w.rc_type \in {RC_TYPE_REAL, RC_TYPE_COMPLEX_CARTESIAN}
    /\ <<w.data_item_format, w.item_bits>> \in ItemFormats
    /\ w.item_packing_bits = w.item_bits
    /\ ~w.framing

IsComplexFormat(w) == w.rc_type = RC_TYPE_COMPLEX_CARTESIAN

\* An unsupported layout keeps is_complex but loses its dtype and sample size.
decode_payload_format(w) ==
    [supported        |-> SupportedFormat(w),
     is_complex       |-> IsComplexFormat(w),
     component_dtype  |-> IF SupportedFormat(w)
                          THEN ITEM_FORMAT_DTYPES[<<w.data_item_format, w.item_bits>>]
                          ELSE None,
     bytes_per_sample |-> IF SupportedFormat(w)
                          THEN (IF IsComplexFormat(w) THEN 2 ELSE 1) * (w.item_bits \div 8)
                          ELSE None]

\* Without a payload format word the four format fields are simply absent.
NoFormat ==
    [supported |-> None, is_complex |-> None,
     component_dtype |-> None, bytes_per_sample |-> None]

PayloadFormat(p) == IF p.word = None THEN NoFormat ELSE decode_payload_format(p.word)

decode_context(p) ==
    [rf_hz            |-> p.rf_hz,
     sample_rate_hz   |-> p.sample_rate_hz,
     gain_db          |-> p.gain_db,
     supported        |-> PayloadFormat(p).supported,
     is_complex       |-> PayloadFormat(p).is_complex,
     component_dtype  |-> PayloadFormat(p).component_dtype,
     bytes_per_sample |-> PayloadFormat(p).bytes_per_sample]

\* The contexts the decoder can produce.
Contexts == {decode_context(p) : p \in ContextPayloads}

ASSUME NoContextAssumption == None \notin Contexts

\* Mutant: the sample format is left out of the flush fields.
FlushIdTuningOnly(ctx) ==
    [rf_hz |-> ctx.rf_hz, sample_rate_hz |-> ctx.sample_rate_hz,
     component_dtype |-> None, is_complex |-> None]

\* The fields of DEFAULT_FLUSH_FIELDS: what one emitted window may not mix.
FlushId(ctx) ==
    [rf_hz |-> ctx.rf_hz, sample_rate_hz |-> ctx.sample_rate_hz,
     component_dtype |-> ctx.component_dtype, is_complex |-> ctx.is_complex]

-----------------------------------------------------------------------------
(* Datagrams and records.                                                   *)

\* "malformed" cannot be parsed as a header; "other" is a packet type that is
\* neither IF data nor IF context; a truncated packet is shorter than the size
\* its header declares, or than the fields its context indicator announces.
Datagrams ==
    [kind : {"malformed", "other"}]
      \cup [kind : {"context"}, stream : Streams, payload : ContextPayloads,
            truncated : BOOLEAN]
      \cup [kind : {"data"}, stream : Streams, seq : Seqs, size : PayloadSizes,
            truncated : BOOLEAN]

packet_counter(seq) == seq % 16

\* trim_data keeps whole samples only.
trim_data(size, bytes_per_sample) == (size \div bytes_per_sample) * bytes_per_sample

ContextRecord(s, ctx) == [type |-> "context", stream |-> s, context |-> ctx]

\* seq and under are ghosts: the packet's true position, and the flush identity
\* of the context under which the interpreter interpreted its bytes.
DataRecord(s, seq, len, ctx, gap_before) ==
    [type |-> "data", stream |-> s, seq |-> seq, len |-> len,
     dtype |-> ctx.component_dtype, bytes_per_sample |-> ctx.bytes_per_sample,
     is_complex |-> ctx.is_complex, gap_before |-> gap_before,
     under |-> FlushId(ctx)]

=============================================================================
