------------------------------ MODULE MCIngest ------------------------------
(* Instances of Ingest for TLC. *)
EXTENDS Ingest

Word(rc, fmt, bits) ==
    [packing_method |-> 0, rc_type |-> rc, data_item_format |-> fmt,
     item_bits |-> bits, item_packing_bits |-> bits, framing |-> FALSE]

\* Complex float32 (8 bytes a sample), real int16 (2 bytes), and polar, which
\* the decoder does not implement.
ComplexFloat == Word(RC_TYPE_COMPLEX_CARTESIAN, ITEM_FORMAT_IEEE_FLOAT32, 32)
RealInt16    == Word(RC_TYPE_REAL, ITEM_FORMAT_SIGNED_FIXED, 16)
Polar        == Word(2, ITEM_FORMAT_IEEE_FLOAT32, 32)

Payload(rf, gain, w) == [rf_hz |-> rf, sample_rate_hz |-> 1, gain_db |-> gain, word |-> w]

\* A tuned stream; the same with another gain, which is not a flush field;
\* retuned; with another sample format; unsupported; without a format word.
FieldsSmall == {1, 2}
AllPayloads ==
    {Payload(1, 1, ComplexFloat), Payload(1, 2, ComplexFloat), Payload(2, 1, ComplexFloat),
     Payload(1, 1, RealInt16), Payload(1, 1, Polar), Payload(1, 1, None)}
TwoPayloads == {Payload(1, 1, ComplexFloat), Payload(2, 1, RealInt16)}

=============================================================================
