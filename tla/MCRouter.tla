------------------------------- MODULE MCRouter -------------------------------
(* BufferRouter fed by hand: every record its defensive checks are there for. *)
EXTENDS BufferRouter

Word(rc, fmt, bits) ==
    [packing_method |-> 0, rc_type |-> rc, data_item_format |-> fmt,
     item_bits |-> bits, item_packing_bits |-> bits, framing |-> FALSE]

Payload(w) == [rf_hz |-> 1, sample_rate_hz |-> 1, gain_db |-> 1, word |-> w]

FieldsOne == {1}
RouterPayloads ==
    {Payload(Word(RC_TYPE_COMPLEX_CARTESIAN, ITEM_FORMAT_IEEE_FLOAT32, 32)),
     Payload(Word(RC_TYPE_REAL, ITEM_FORMAT_SIGNED_FIXED, 16)),
     Payload(Word(2, ITEM_FORMAT_IEEE_FLOAT32, 32))}

\* Interpretations: complex float32; the same with a wrong sample size; int16
\* with is_complex missing; bytes; an unparseable dtype; no dtype; no size.
Interpretations ==
    {<<[kind |-> "f", itemsize |-> 4], TRUE, 8>>,
     <<[kind |-> "f", itemsize |-> 4], FALSE, 8>>,
     <<[kind |-> "i", itemsize |-> 2], None, 2>>,
     <<[kind |-> "S", itemsize |-> 4], FALSE, 4>>,
     <<[kind |-> "invalid", itemsize |-> 4], FALSE, 4>>,
     <<None, FALSE, 4>>,
     <<[kind |-> "f", itemsize |-> 4], FALSE, 0>>,
     <<[kind |-> "f", itemsize |-> 4], FALSE, None>>}

HandFedData(s, seq, len, i, gap_before) ==
    [type |-> "data", stream |-> s, seq |-> seq, len |-> len, dtype |-> i[1],
     is_complex |-> i[2], bytes_per_sample |-> i[3], gap_before |-> gap_before,
     under |-> [rf_hz |-> 1, sample_rate_hz |-> 1,
                component_dtype |-> i[1], is_complex |-> i[2]]]

\* Payloads of one and two complex samples, one that splits a sample, and, after
\* a gap, an empty one.
HandFed ==
    {ContextRecord(s, ctx) : s \in Streams, ctx \in Contexts}
      \cup {HandFedData(s, 0, len, i, gap_before) :
              s \in Streams, len \in PayloadSizes, i \in Interpretations,
              gap_before \in BOOLEAN}
      \cup {HandFedData(s, 0, 0, i, TRUE) : s \in Streams, i \in Interpretations}

ASSUME HandFedAssumption == HandFed \subseteq AnyRecords

RouterSpec == RouterInit /\ [][RouterNext(HandFed)]_routerVars

=============================================================================
