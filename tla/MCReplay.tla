-------------------------------- MODULE MCReplay --------------------------------
(* Short captures for ReplayPipeline. *)
EXTENDS ReplayPipeline

CONSTANTS s1, s2

Word(rc, fmt, bits) ==
    [packing_method |-> 0, rc_type |-> rc, data_item_format |-> fmt,
     item_bits |-> bits, item_packing_bits |-> bits, framing |-> FALSE]

FieldsOne == {1}
FloatPayload ==
    [rf_hz |-> 1, sample_rate_hz |-> 1, gain_db |-> 1,
     word |-> Word(RC_TYPE_COMPLEX_CARTESIAN, ITEM_FORMAT_IEEE_FLOAT32, 32)]
ReplayPayloads == {FloatPayload}

Ctx(s) == [kind |-> "context", stream |-> s, payload |-> FloatPayload, truncated |-> FALSE]
Data(s, seq) ==
    [kind |-> "data", stream |-> s, seq |-> seq, size |-> 8, truncated |-> FALSE]

\* Empty; two interleaved streams; a stream with a packet lost before it was
\* captured and a malformed datagram in between.
SmallCaptures ==
    {<<>>,
     <<Ctx(s1), Ctx(s2), Data(s1, 0), Data(s2, 0)>>,
     <<Ctx(s1), Data(s1, 0), [kind |-> "malformed"], Data(s1, 2)>>}

=============================================================================
