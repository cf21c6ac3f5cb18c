----------------------------- MODULE IngestProofs -----------------------------
(***************************************************************************)
(* Machine-checked proofs of the safety properties of Ingest, for any set  *)
(* of streams, any packets, any context payloads and any limits; then of   *)
(* BufferRouter fed with any records at all, and of Ingest again through   *)
(* it: what Thread B does to the router, the hand-fed router may do.       *)
(***************************************************************************)
EXTENDS Ingest, FiniteSetTheorems, TLAPS

(* The inductive invariant.                                                 *)

LastOf(q) == q[Len(q)]

\* An open window: latched, labelled and chained as its buffer's context says.
WindowOK(b) ==
    /\ b.context # None
    /\ b.context.component_dtype # None
    /\ b.component_dtype = b.context.component_dtype
    /\ b.is_complex = b.context.is_complex
    /\ b.bytes_per_sample = b.context.bytes_per_sample
    /\ b.num_samples >= 1
    /\ Labelled(b.chunks, b.context)
    /\ b.packets # <<>>
    /\ b.start = b.packets[1]
    /\ Chained(b.packets)

\* A buffer between two steps.
BufferOK(b) ==
    /\ b.dropped = 0
    /\ b.context # None => (b.inert <=> Inert(b.context))
    /\ ~IsOpen(b) => b.packets = <<>> /\ b.num_samples = 0 /\ ~b.overdue
    /\ IsOpen(b) => WindowOK(b) /\ ~IsFull(b)

\* A unit by itself.
UnitOK(u) ==
    /\ u.component_dtype = u.context.component_dtype
    /\ u.is_complex = u.context.is_complex
    /\ u.bytes_per_sample = u.context.bytes_per_sample
    /\ Labelled(u.chunks, u.context)
    /\ Chained(u.packets)
    /\ u.start = Head(u.packets)

\* The buffer of stream s agrees with what the interpreter knows of s.
Agrees(s) ==
    /\ buffers[s] = None <=> contexts[s] = None
    /\ buffers[s] # None =>
         /\ buffers[s].context = contexts[s]
         /\ IsOpen(buffers[s]) =>
              last_counter[s] = packet_counter(LastOf(buffers[s].packets))

\* A data record that extends what buffer b holds: interpreted under the very
\* context of b, whole samples, and the successor of the window's last packet.
Fits(b, r) ==
    /\ b.context # None
    /\ b.context.component_dtype # None
    /\ r.dtype = b.context.component_dtype
    /\ r.is_complex = b.context.is_complex
    /\ r.bytes_per_sample = b.context.bytes_per_sample
    /\ r.under = FlushId(b.context)
    /\ r.len % r.bytes_per_sample = 0
    /\ IsOpen(b) /\ ~r.gap_before =>
         packet_counter(r.seq) = (packet_counter(LastOf(b.packets)) + 1) % 16

\* The record in hand and the buffer it is about to be pushed into.
PendingContext(s) ==
    /\ record \in ContextRecords
    /\ contexts[s] = record.context
    /\ buffers[s] # None =>
         /\ buffers[s].context # None
         /\ IsOpen(buffers[s]) =>
              last_counter[s] = packet_counter(LastOf(buffers[s].packets))

PendingData(s) ==
    /\ record \in DataRecords
    /\ buffers[s] # None
    /\ buffers[s].context = contexts[s]
    /\ Fits(buffers[s], record)
    /\ last_counter[s] = packet_counter(record.seq)

\* Every buffer was created by a context record, so it has a context.
BuffersOK ==
    \A s \in Streams :
        buffers[s] # None => BufferOK(buffers[s]) /\ buffers[s].context # None

OutOK == \A i \in DOMAIN out : UnitOK(out[i])

\* The interpreter's own bookkeeping.
TrackingOK ==
    /\ Cardinality(TrackedStreams) <= max_streams
    /\ \A s \in Streams : last_counter[s] # None => contexts[s] # None

\* Interpreter and buffers, at every place of Thread B's loop.
AgreementOK ==
    /\ pc = "push" <=> record # None
    /\ pc \in {"get", "poll"} => \A s \in Streams : Agrees(s)
    /\ pc = "push" =>
         /\ \A s \in Streams : s # record.stream => Agrees(s)
         /\ PendingContext(record.stream) \/ PendingData(record.stream)

\* The windows that were overdue are still to be visited by the age poll.
StaleOK ==
    /\ pc = "get" => stale = {}
    /\ pc = "push" => stale \subseteq BufferedStreams
    /\ pc = "poll" => stale \subseteq todo

IInv ==
    /\ IngestTypeOK
    /\ router_dropped = 0
    /\ BuffersOK
    /\ OutOK
    /\ TrackingOK
    /\ AgreementOK
    /\ StaleOK

-----------------------------------------------------------------------------
(* What the decoder produces.                                               *)

\* A format in the table has a numeric dtype of a positive size.
LEMMA ItemFormatFacts ==
    ASSUME NEW p \in ItemFormats
    PROVE  /\ ITEM_FORMAT_DTYPES[p] \in Dtypes
           /\ ITEM_FORMAT_DTYPES[p].kind \in {"i", "u", "f"}
           /\ ITEM_FORMAT_DTYPES[p].itemsize = p[2] \div 8
           /\ ITEM_FORMAT_DTYPES[p].itemsize \in Nat \ {0}
BY DEF ItemFormats, ITEM_FORMAT_DTYPES, Dtypes, ITEM_FORMAT_SIGNED_FIXED,
       ITEM_FORMAT_UNSIGNED_FIXED, ITEM_FORMAT_IEEE_FLOAT32, ITEM_FORMAT_IEEE_FLOAT64

\* decode_context either yields a complete, convertible sample format, or none
\* of its parts: the buffer's test (component_dtype) and the interpreter's test
\* (bytes_per_sample) of one context always agree.
LEMMA ContextFacts ==
    ASSUME NEW ctx \in Contexts
    PROVE  /\ ctx.rf_hz \in FieldValues
           /\ ctx.sample_rate_hz \in FieldValues
           /\ ctx.is_complex \in BOOLEAN \cup {None}
           /\ ctx.component_dtype \in Dtypes \cup {None}
           /\ FlushId(ctx) \in FlushIds
           /\ ctx.component_dtype # None =>
                /\ ctx.supported = TRUE
                /\ ctx.is_complex \in BOOLEAN
                /\ ctx.component_dtype \in Dtypes
                /\ ctx.component_dtype.kind \in {"i", "u", "f"}
                /\ ctx.bytes_per_sample \in Nat \ {0}
                /\ ctx.bytes_per_sample
                     = ctx.component_dtype.itemsize * (IF ctx.is_complex THEN 2 ELSE 1)
           /\ ctx.component_dtype = None =>
                /\ ctx.supported # TRUE
                /\ ctx.bytes_per_sample = None
<1>1. PICK p \in ContextPayloads : ctx = decode_context(p)
  BY DEF Contexts
<1>2. /\ p.rf_hz \in FieldValues
      /\ p.sample_rate_hz \in FieldValues
      /\ p.word \in PayloadFormatWords \cup {None}
  BY PayloadsAssumption
<1>3. CASE p.word = None
  BY <1>1, <1>2, <1>3, NoneAssumption
     DEF decode_context, PayloadFormat, NoFormat, FlushId, FlushIds
<1>4. CASE p.word # None
  <2> DEFINE w == p.word
             key == <<w.data_item_format, w.item_bits>>
  <2>1. /\ w \in PayloadFormatWords
        /\ PayloadFormat(p) = decode_payload_format(w)
    BY <1>2, <1>4 DEF PayloadFormat
  <2>2. CASE SupportedFormat(w)
    <3>1. key \in ItemFormats /\ key[2] = w.item_bits
      BY <2>2 DEF SupportedFormat
    <3> DEFINE d == ITEM_FORMAT_DTYPES[key]
    <3>2. /\ d \in Dtypes /\ d.kind \in {"i", "u", "f"}
          /\ d.itemsize = w.item_bits \div 8 /\ d.itemsize \in Nat \ {0}
      BY <3>1, ItemFormatFacts
    <3>3. /\ ctx.supported = TRUE
          /\ ctx.is_complex = IsComplexFormat(w)
          /\ ctx.component_dtype = d
          /\ ctx.bytes_per_sample = (IF IsComplexFormat(w) THEN 2 ELSE 1) * d.itemsize
          /\ ctx.rf_hz = p.rf_hz /\ ctx.sample_rate_hz = p.sample_rate_hz
      BY <1>1, <2>1, <2>2, <3>2 DEF decode_context, decode_payload_format
    <3>4. IsComplexFormat(w) \in BOOLEAN
      BY DEF IsComplexFormat
    <3>5. d # None
      BY <3>2, NoneAssumption
    <3>6. FlushId(ctx) \in FlushIds
      BY <1>2, <3>2, <3>3, <3>4 DEF FlushId, FlushIds
    <3> HIDE DEF d
    <3>7. CASE IsComplexFormat(w)
      <4>1. ctx.is_complex = TRUE /\ ctx.bytes_per_sample = 2 * d.itemsize
        BY <3>3, <3>7
      <4>2. (IF ctx.is_complex THEN 2 ELSE 1) = 2
        BY <4>1
      <4>3. 2 * d.itemsize = d.itemsize * 2 /\ 2 * d.itemsize \in Nat \ {0}
        BY <3>2
      <4>4. ctx.bytes_per_sample
              = ctx.component_dtype.itemsize * (IF ctx.is_complex THEN 2 ELSE 1)
        BY <3>3, <4>1, <4>2, <4>3, Zenon
      <4> QED
        BY <1>2, <3>2, <3>3, <3>5, <3>6, <4>1, <4>3, <4>4, Zenon
    <3>8. CASE ~IsComplexFormat(w)
      <4>1. ctx.is_complex = FALSE /\ ctx.bytes_per_sample = 1 * d.itemsize
        BY <3>3, <3>8
      <4>2. (IF ctx.is_complex THEN 2 ELSE 1) = 1
        BY <4>1
      <4>3. 1 * d.itemsize = d.itemsize * 1 /\ 1 * d.itemsize \in Nat \ {0}
        BY <3>2
      <4>4. ctx.bytes_per_sample
              = ctx.component_dtype.itemsize * (IF ctx.is_complex THEN 2 ELSE 1)
        BY <3>3, <4>1, <4>2, <4>3, Zenon
      <4> QED
        BY <1>2, <3>2, <3>3, <3>5, <3>6, <4>1, <4>3, <4>4, Zenon
    <3> QED
      BY <3>7, <3>8
  <2>3. CASE ~SupportedFormat(w)
    <3>1. /\ ctx.supported = FALSE
          /\ ctx.is_complex = IsComplexFormat(w)
          /\ ctx.component_dtype = None
          /\ ctx.bytes_per_sample = None
          /\ ctx.rf_hz = p.rf_hz /\ ctx.sample_rate_hz = p.sample_rate_hz
      BY <1>1, <2>1, <2>3 DEF decode_context, decode_payload_format
    <3>2. IsComplexFormat(w) \in BOOLEAN
      BY DEF IsComplexFormat
    <3> QED
      BY <1>2, <3>1, <3>2 DEF FlushId, FlushIds
  <2> QED
    BY <2>2, <2>3
<1> QED
  BY <1>3, <1>4

-----------------------------------------------------------------------------
(* What the operations on one buffer preserve.                              *)

\* A buffer just created is empty and well formed.
LEMMA NewBufferFacts ==
    /\ NewBuffer \in Buffers
    /\ BufferOK(NewBuffer)
    /\ ~IsOpen(NewBuffer)
    /\ NewBuffer.context = None
BY DEF NewBuffer, Buffers, BufferOK, IsOpen

\* flush() leaves an empty, well-formed buffer with its context and flags.
LEMMA ResetFacts ==
    ASSUME NEW b \in Buffers,
           b.dropped = 0,
           b.context # None => (b.inert <=> Inert(b.context))
    PROVE  /\ Reset(b) \in Buffers
           /\ BufferOK(Reset(b))
           /\ ~IsOpen(Reset(b))
           /\ ~Reset(b).overdue
           /\ Reset(b).context = b.context
           /\ Reset(b).inert = b.inert
           /\ Reset(b).dropped = 0
<1> DEFINE a == Reset(b)
<1>1. /\ a.context = b.context /\ a.inert = b.inert /\ a.dropped = 0
      /\ a.chunks = <<>> /\ a.packets = <<>> /\ a.num_samples = 0
      /\ a.overdue = FALSE
  BY DEF Reset, NewBuffer
<1>2. a \in Buffers
  <2>1. b.context \in Contexts \cup {None} /\ b.inert \in BOOLEAN /\ b.dropped \in Nat
    BY DEF Buffers
  <2>2. ASSUME NEW n \in Buffers
        PROVE  [n EXCEPT !.context = b.context, !.inert = b.inert, !.dropped = b.dropped]
                 \in Buffers
    BY <2>1 DEF Buffers
  <2> QED
    BY <2>2, NewBufferFacts DEF Reset
<1> HIDE DEF a
<1>3. ~IsOpen(a)
  BY <1>1 DEF IsOpen
<1>4. ~a.overdue
  BY <1>1
<1>5. a.context # None => (a.inert <=> Inert(a.context))
  BY <1>1
<1>6. BufferOK(a)
  BY <1>1, <1>3, <1>4, <1>5 DEF BufferOK
<1> QED
  BY <1>1, <1>2, <1>3, <1>4, <1>6 DEF a

\* A window is left alone only by a context with its own flush identity; then
\* the latched interpretation is the new context's too.
LEMMA AdoptFacts ==
    ASSUME NEW b \in Buffers, BufferOK(b),
           NEW ctx \in Contexts,
           ~(IsOpen(b) /\ Differs(b.context, ctx))
    PROVE  /\ Adopt(b, ctx) \in Buffers
           /\ BufferOK(Adopt(b, ctx))
           /\ Adopt(b, ctx).context = ctx
           /\ Adopt(b, ctx).packets = b.packets
           /\ IsOpen(Adopt(b, ctx)) <=> IsOpen(b)
           /\ Adopt(b, ctx).overdue = b.overdue
<1> DEFINE a == Adopt(b, ctx)
<1>1. /\ a \in Buffers
      /\ a.context = ctx
      /\ a.inert = Inert(ctx)
      /\ a.packets = b.packets /\ a.chunks = b.chunks
      /\ a.dropped = b.dropped /\ a.num_samples = b.num_samples
      /\ a.component_dtype = b.component_dtype /\ a.is_complex = b.is_complex
      /\ a.bytes_per_sample = b.bytes_per_sample
      /\ a.start = b.start /\ a.overdue = b.overdue
  BY DEF Adopt, Buffers, Inert
<1>2. IsOpen(a) <=> IsOpen(b)
  BY <1>1 DEF IsOpen
<1> HIDE DEF a
<1>3. IsOpen(b) => WindowOK(a) /\ ~IsFull(a)
  <2> SUFFICES ASSUME IsOpen(b) PROVE WindowOK(a) /\ ~IsFull(a)
    OBVIOUS
  <2>1. /\ WindowOK(b) /\ ~IsFull(b)
        /\ b.context \in Contexts
        /\ FlushId(b.context) = FlushId(ctx)
    BY DEF BufferOK, Differs, WindowOK, Buffers
  <2>2. /\ ctx.component_dtype = b.context.component_dtype
        /\ ctx.is_complex = b.context.is_complex
    BY <2>1 DEF FlushId
  <2>3. ctx.bytes_per_sample = b.context.bytes_per_sample
    BY <2>1, <2>2, ContextFacts DEF WindowOK
  <2>4. ctx # None
    BY NoContextAssumption
  <2> QED
    BY <1>1, <2>1, <2>2, <2>3, <2>4 DEF WindowOK, IsFull, Labelled
<1>4. BufferOK(a)
  BY <1>1, <1>2, <1>3 DEF BufferOK
<1> QED
  BY <1>1, <1>2, <1>4 DEF a

\* The unit of a well-formed open window is complete and well labelled.
LEMMA UnitFacts ==
    ASSUME NEW s \in Streams, NEW b \in Buffers, WindowOK(b)
    PROVE  Unit(s, b) \in Units /\ UnitOK(Unit(s, b))
<1>1. b.context \in Contexts
  BY DEF WindowOK, Buffers
<1>2. /\ b.component_dtype \in Dtypes
      /\ b.is_complex \in BOOLEAN
      /\ b.bytes_per_sample \in Nat
  BY <1>1, ContextFacts DEF WindowOK
<1>3. /\ b.packets \in Seq(Seqs) /\ b.packets # <<>>
      /\ b.start = b.packets[1] /\ b.start \in Seqs /\ b.start = Head(b.packets)
  BY DEF WindowOK, Buffers
<1>4. /\ b.chunks \in Seq(Chunks)
      /\ b.num_samples \in Nat
  BY DEF Buffers
<1>5. Unit(s, b) \in Units
  BY <1>1, <1>2, <1>3, <1>4 DEF Unit, Units
<1>6. UnitOK(Unit(s, b))
  BY <1>3 DEF Unit, UnitOK, WindowOK
<1> QED
  BY <1>5, <1>6

\* None of the defensive checks of _push_data applies to a record that fits.
LEMMA FitsFacts ==
    ASSUME NEW b \in Buffers, BufferOK(b),
           NEW r \in DataRecords, Fits(b, r)
    PROVE  /\ ~NoUsableContext(b)
           /\ Usable(r)
           /\ Truth(r.is_complex) = r.is_complex
           /\ Latchable(r)
           /\ ClosesFirst(b, r) <=> IsOpen(b) /\ r.gap_before
           /\ r.bytes_per_sample \in Nat \ {0}
<1>1. /\ b.context \in Contexts /\ b.context # None
      /\ b.context.component_dtype # None
      /\ r.dtype = b.context.component_dtype
      /\ r.is_complex = b.context.is_complex
      /\ r.bytes_per_sample = b.context.bytes_per_sample
      /\ r.len % r.bytes_per_sample = 0
  BY DEF Fits, Buffers
<1>2. /\ b.context.supported = TRUE
      /\ b.context.is_complex \in BOOLEAN
      /\ b.context.component_dtype.kind \in {"i", "u", "f"}
      /\ b.context.bytes_per_sample \in Nat \ {0}
      /\ b.context.bytes_per_sample
           = b.context.component_dtype.itemsize * (IF b.context.is_complex THEN 2 ELSE 1)
  BY <1>1, ContextFacts
<1>3. ~NoUsableContext(b)
  BY <1>1, <1>2 DEF NoUsableContext, BufferOK, Inert
<1>4. Usable(r)
  BY <1>1, <1>2, NoneAssumption DEF Usable
<1>5. Truth(r.is_complex) = r.is_complex
  BY <1>1, <1>2 DEF Truth
<1>6. Latchable(r)
  BY <1>1, <1>2, <1>5, Zenon DEF Latchable
<1>7. IsOpen(b) => ~Reinterprets(b, r)
  BY <1>1, <1>5 DEF BufferOK, WindowOK, Reinterprets
<1> QED
  BY <1>1, <1>2, <1>3, <1>4, <1>5, <1>6, <1>7 DEF ClosesFirst

\* The successor of the last packet extends the chain, whose first stays.
LEMMA ChainExtends ==
    ASSUME NEW packets \in Seq(Seqs), Chained(packets), packets # <<>>, NEW seq \in Seqs,
           packet_counter(seq) = (packet_counter(LastOf(packets)) + 1) % 16
    PROVE  Chained(Append(packets, seq)) /\ Append(packets, seq)[1] = packets[1]
<1> DEFINE longer == Append(packets, seq)
           n == Len(packets)
<1>1. n \in Nat /\ n >= 1
  OBVIOUS
<1>2. /\ Len(longer) = n + 1 /\ longer[n + 1] = seq
      /\ \A i \in 1..n : longer[i] = packets[i]
  OBVIOUS
<1>3. \A i \in 1..n - 1 : packet_counter(packets[i + 1]) = (packet_counter(packets[i]) + 1) % 16
  BY Zenon DEF Chained, n
<1>4. packet_counter(seq) = (packet_counter(packets[n]) + 1) % 16
  BY Zenon DEF LastOf, n
<1> HIDE DEF longer, n
<1>5. \A i \in 1..Len(longer) - 1 :
          packet_counter(longer[i + 1]) = (packet_counter(longer[i]) + 1) % 16
  <2> SUFFICES ASSUME NEW i \in 1..Len(longer) - 1
               PROVE  packet_counter(longer[i + 1]) = (packet_counter(longer[i]) + 1) % 16
    OBVIOUS
  <2>1. i \in 1..n /\ longer[i] = packets[i]
    BY <1>1, <1>2
  <2>2. CASE i = n
    BY <1>2, <1>4, <2>1, <2>2, Zenon
  <2>3. CASE i # n
    <3>1. i \in 1..n - 1 /\ i + 1 \in 1..n
      BY <1>1, <2>1, <2>3
    <3> QED
      BY <1>2, <1>3, <2>1, <3>1, Zenon
  <2> QED
    BY <2>2, <2>3
<1>6. longer[1] = packets[1]
  BY <1>1, <1>2
<1> QED
  BY <1>5, <1>6 DEF Chained, longer

\* Appending a record that fits keeps the window labelled and chained.
LEMMA AppendFacts ==
    ASSUME NEW b \in Buffers, BufferOK(b),
           NEW r \in DataRecords, Fits(b, r), r.len # 0,
           IsOpen(b) => ~r.gap_before
    PROVE  /\ AppendChunk(b, r) \in Buffers
           /\ IsOpen(AppendChunk(b, r))
           /\ WindowOK(AppendChunk(b, r))
           /\ AppendChunk(b, r).context = b.context
           /\ AppendChunk(b, r).inert = b.inert
           /\ AppendChunk(b, r).dropped = 0
           /\ AppendChunk(b, r).overdue = b.overdue
           /\ LastOf(AppendChunk(b, r).packets) = r.seq
<1> DEFINE l == Latch(b, r)
           a == AppendChunk(b, r)
           chunk == [len |-> r.len, under |-> r.under]
<1>1. /\ r.dtype \in Dtypes /\ r.is_complex \in BOOLEAN /\ r.seq \in Seqs
      /\ r.bytes_per_sample \in Nat \ {0} /\ r.len \in Nat
      /\ Truth(r.is_complex) = r.is_complex
      /\ chunk \in Chunks
  BY FitsFacts DEF DataRecords, Chunks
<1>2. /\ l \in Buffers
      /\ l.context = b.context /\ l.inert = b.inert /\ l.dropped = b.dropped
      /\ l.overdue = b.overdue /\ l.chunks = b.chunks /\ l.packets = b.packets
      /\ l.num_samples = b.num_samples
      /\ l.component_dtype = r.dtype /\ l.is_complex = r.is_complex
      /\ l.bytes_per_sample = r.bytes_per_sample
      /\ l.start = IF IsOpen(b) THEN b.start ELSE r.seq
  <2>1. CASE IsOpen(b)
    BY <2>1 DEF Latch, BufferOK, WindowOK, Fits
  <2>2. CASE ~IsOpen(b)
    <3>1. l = [b EXCEPT !.component_dtype = r.dtype,
                        !.is_complex = r.is_complex,
                        !.bytes_per_sample = r.bytes_per_sample,
                        !.start = r.seq]
      BY <1>1, <2>2, Zenon DEF Latch
    <3> QED
      BY <1>1, <2>2, <3>1 DEF Buffers
  <2> QED
    BY <2>1, <2>2
<1>3. /\ r.len \div r.bytes_per_sample \in Nat
      /\ r.len \div r.bytes_per_sample >= 1
  BY <1>1 DEF Fits
<1> HIDE DEF l
<1>4. /\ a \in Buffers
      /\ a.context = b.context /\ a.inert = b.inert /\ a.dropped = b.dropped
      /\ a.overdue = b.overdue
      /\ a.chunks = Append(b.chunks, chunk)
      /\ a.packets = Append(b.packets, r.seq)
      /\ a.num_samples = b.num_samples + r.len \div r.bytes_per_sample
      /\ a.component_dtype = r.dtype /\ a.is_complex = r.is_complex
      /\ a.bytes_per_sample = r.bytes_per_sample
      /\ a.start = l.start
  <2>1. /\ Append(l.chunks, chunk) \in Seq(Chunks)
        /\ Append(l.packets, r.seq) \in Seq(Seqs)
        /\ l.num_samples + r.len \div r.bytes_per_sample \in Nat
    <3>1. l.chunks \in Seq(Chunks) /\ l.packets \in Seq(Seqs) /\ l.num_samples \in Nat
      BY <1>2 DEF Buffers
    <3> HIDE DEF chunk
    <3> QED
      BY <1>1, <1>3, <3>1
  <2>2. a = [l EXCEPT !.chunks = Append(l.chunks, chunk),
                      !.packets = Append(l.packets, r.seq),
                      !.num_samples = l.num_samples + r.len \div r.bytes_per_sample]
    BY DEF AppendChunk, l
  <2> HIDE DEF a, chunk
  <2>3. a \in Buffers
    BY <1>2, <2>1, <2>2 DEF Buffers
  <2> QED
    BY <1>2, <2>2, <2>3 DEF Buffers
<1>5. /\ b.chunks \in Seq(Chunks) /\ b.packets \in Seq(Seqs)
      /\ b.num_samples \in Nat /\ b.dropped = 0
      /\ ~IsOpen(b) => b.chunks = <<>> /\ b.packets = <<>>
  BY DEF Buffers, BufferOK, IsOpen
<1> HIDE DEF a
<1>6. IsOpen(a) /\ a.packets # <<>> /\ LastOf(a.packets) = r.seq
  BY <1>1, <1>4, <1>5 DEF IsOpen, LastOf
<1>7. Labelled(a.chunks, a.context)
  <2>1. Labelled(b.chunks, b.context)
    BY <1>5 DEF BufferOK, WindowOK, Labelled
  <2>2. chunk.under = FlushId(b.context)
    BY DEF Fits
  <2> HIDE DEF chunk
  <2> QED
    BY <1>1, <1>4, <1>5, <2>1, <2>2 DEF Labelled
<1>8. Chained(a.packets) /\ a.start = a.packets[1]
  <2>1. CASE IsOpen(b)
    <3>1. /\ Chained(b.packets) /\ b.packets # <<>> /\ b.start = b.packets[1]
          /\ packet_counter(r.seq) = (packet_counter(LastOf(b.packets)) + 1) % 16
      BY <2>1 DEF BufferOK, WindowOK, Fits
    <3>2. /\ Chained(Append(b.packets, r.seq))
          /\ Append(b.packets, r.seq)[1] = b.packets[1]
      BY <1>1, <1>5, <3>1, ChainExtends
    <3> QED
      BY <1>2, <1>4, <2>1, <3>1, <3>2
  <2>2. CASE ~IsOpen(b)
    BY <1>1, <1>2, <1>4, <1>5, <2>2 DEF Chained
  <2> QED
    BY <2>1, <2>2
<1>9. WindowOK(a)
  BY <1>3, <1>4, <1>5, <1>6, <1>7, <1>8 DEF WindowOK, Fits
<1> QED
  BY <1>4, <1>5, <1>6, <1>9 DEF a

\* A packet without samples extends the chain of the open window only.
LEMMA SkipFacts ==
    ASSUME NEW b \in Buffers, BufferOK(b),
           NEW r \in DataRecords, Fits(b, r),
           IsOpen(b) => ~r.gap_before
    PROVE  /\ SkipChunk(b, r) \in Buffers
           /\ BufferOK(SkipChunk(b, r))
           /\ SkipChunk(b, r).context = b.context
           /\ SkipChunk(b, r).overdue = b.overdue
           /\ IsOpen(SkipChunk(b, r)) => LastOf(SkipChunk(b, r).packets) = r.seq
<1>1. CASE ~IsOpen(b)
  BY <1>1 DEF SkipChunk
<1>2. CASE IsOpen(b)
  <2> DEFINE a == SkipChunk(b, r)
  <2>1. r.seq \in Seqs
    BY DEF DataRecords
  <2>2. /\ a \in Buffers
        /\ a.context = b.context /\ a.inert = b.inert /\ a.dropped = b.dropped
        /\ a.overdue = b.overdue /\ a.chunks = b.chunks
        /\ a.packets = Append(b.packets, r.seq)
        /\ a.num_samples = b.num_samples
        /\ a.component_dtype = b.component_dtype /\ a.is_complex = b.is_complex
        /\ a.bytes_per_sample = b.bytes_per_sample /\ a.start = b.start
    <3>1. a = [b EXCEPT !.packets = Append(b.packets, r.seq)]
      BY <1>2 DEF SkipChunk
    <3>2. Append(b.packets, r.seq) \in Seq(Seqs)
      BY <2>1 DEF Buffers
    <3> HIDE DEF a
    <3> QED
      BY <3>1, <3>2 DEF Buffers
  <2> HIDE DEF a
  <2>3. /\ WindowOK(b) /\ ~IsFull(b) /\ b.packets \in Seq(Seqs)
        /\ packet_counter(r.seq) = (packet_counter(LastOf(b.packets)) + 1) % 16
    BY <1>2 DEF BufferOK, Fits, Buffers
  <2>4. /\ Chained(a.packets) /\ a.packets # <<>> /\ a.start = a.packets[1]
        /\ LastOf(a.packets) = r.seq
    BY <2>1, <2>2, <2>3 DEF Chained, LastOf, WindowOK
  <2>5. WindowOK(a) /\ ~IsFull(a)
    BY <2>2, <2>3, <2>4 DEF WindowOK, IsFull
  <2>6. IsOpen(a)
    BY <1>2, <2>2 DEF IsOpen
  <2>7. BufferOK(a)
    BY <2>2, <2>5, <2>6 DEF BufferOK
  <2> QED
    BY <2>2, <2>4, <2>7 DEF a
<1> QED
  BY <1>1, <1>2

-----------------------------------------------------------------------------
(* What the router does to one buffer.                                      *)

\* A sequence of good units.
GoodUnits(q) == q \in Seq(Units) /\ \A i \in DOMAIN q : UnitOK(q[i])

\* The common shape of every step that may flush: one buffer changes to a good
\* one, and everything handed to emit is a good unit.
Emits(s, b) ==
    /\ buffers' = [buffers EXCEPT ![s] = b]
    /\ BufferOK(b)
    /\ b.context # None
    /\ router_dropped' = router_dropped
    /\ GoodUnits(out')
    /\ raised' \in BOOLEAN

\* Emitting nothing is safe.
LEMMA NoUnits == GoodUnits(<<>>)
BY DEF GoodUnits

\* A single good unit makes a good output.
LEMMA OneUnit ==
    ASSUME NEW u \in Units, UnitOK(u)
    PROVE  GoodUnits(<<u>>)
BY DEF GoodUnits

\* Appending a good unit keeps the output good.
LEMMA MoreUnits ==
    ASSUME NEW q, GoodUnits(q), NEW u \in Units, UnitOK(u)
    PROVE  GoodUnits(Append(q, u))
BY DEF GoodUnits

\* emit either raises or returns.
LEMMA EmitOutcomesBoolean == EmitOutcomes \subseteq BOOLEAN
BY RouterAssumption DEF EmitOutcomes

\* flush(): if a window is open it becomes a unit and the buffer is emptied.
LEMMA FlushEffect ==
    ASSUME IInv, NEW s \in Streams, Flush(s)
    PROVE  \E b \in Buffers :
             Emits(s, b) /\ ~IsOpen(b) /\ ~b.overdue /\ b.context = buffers[s].context
<1> DEFINE old == buffers[s]
<1>1. /\ old \in Buffers /\ BufferOK(old) /\ old.context # None
      /\ buffers \in [Streams -> Buffers \cup {None}]
  BY DEF Flush, IInv, IngestTypeOK, BuffersOK
<1> HIDE DEF old
<1>2. CASE ~IsOpen(old)
  <2>1. /\ buffers' = [buffers EXCEPT ![s] = old]
        /\ router_dropped' = router_dropped
        /\ out' = <<>> /\ raised' = FALSE
    BY <1>1, <1>2 DEF Flush, RouterQuiet, SetBuffer, old
  <2>2. Emits(s, old)
    BY <1>1, <2>1, NoUnits DEF Emits, old
  <2> QED
    BY <1>1, <1>2, <2>2 DEF BufferOK, old
<1>3. CASE IsOpen(old)
  <2>1. /\ buffers' = [buffers EXCEPT ![s] = Reset(old)]
        /\ router_dropped' = router_dropped
        /\ out' = <<Unit(s, old)>> /\ raised' \in EmitOutcomes
    BY <1>3 DEF Flush, RouterQuiet, SetBuffer, old
  <2>2. WindowOK(old) /\ old.dropped = 0
        /\ (old.context # None => (old.inert <=> Inert(old.context)))
    BY <1>1, <1>3 DEF BufferOK
  <2>3. GoodUnits(out')
    BY <1>1, <2>1, <2>2, UnitFacts, OneUnit
  <2>4. /\ Reset(old) \in Buffers /\ BufferOK(Reset(old)) /\ ~IsOpen(Reset(old))
        /\ ~Reset(old).overdue /\ Reset(old).context = old.context
    BY <1>1, <2>2, ResetFacts
  <2>5. raised' \in BOOLEAN
    BY <2>1, EmitOutcomesBoolean
  <2>6. Emits(s, Reset(old))
    BY <1>1, <2>1, <2>3, <2>4, <2>5 DEF Emits, old
  <2> QED
    BY <2>4, <2>6 DEF old
<1> QED
  BY <1>2, <1>3

\* The streams the interpreter tracks can be counted.
LEMMA TrackedFinite == IsFiniteSet(TrackedStreams)
<1>1. IsFiniteSet(Streams)
  BY StreamsAssumption
<1>2. TrackedStreams \in SUBSET Streams
  BY DEF TrackedStreams
<1> HIDE DEF TrackedStreams
<1> QED
  BY <1>1, <1>2, FS_Subset, Zenon

\* The router has a buffer, or a free slot, for every stream of which the
\* interpreter lets a record through.
LEMMA PushAdmitted ==
    ASSUME IInv, pc = "push"
    PROVE  Admitted(record.stream)
<1> DEFINE s == record.stream
<1> SUFFICES ASSUME buffers[s] = None
             PROVE  Cardinality(BufferedStreams) < max_streams
  BY DEF Admitted
<1>1. PendingContext(s)
  BY DEF IInv, AgreementOK, PendingData
<1>2. s \in Streams /\ contexts[s] # None
  BY <1>1, NoContextAssumption DEF PendingContext, ContextRecords
<1>3. BufferedStreams \subseteq TrackedStreams \ {s}
  BY DEF IInv, AgreementOK, Agrees, BufferedStreams, TrackedStreams
<1>4. IsFiniteSet(TrackedStreams) /\ s \in TrackedStreams
  BY <1>2, TrackedFinite DEF TrackedStreams
<1>5. /\ IsFiniteSet(TrackedStreams \ {s})
      /\ Cardinality(TrackedStreams \ {s}) = Cardinality(TrackedStreams) - 1
  BY <1>4, FS_RemoveElement
<1>6. /\ Cardinality(BufferedStreams) <= Cardinality(TrackedStreams \ {s})
      /\ IsFiniteSet(BufferedStreams)
  BY <1>3, <1>5, FS_Subset
<1>7. /\ Cardinality(BufferedStreams) \in Nat
      /\ Cardinality(TrackedStreams) \in Nat
  BY <1>4, <1>6, FS_CardinalityType
<1> QED
  BY <1>5, <1>6, <1>7, MaxStreamsAssumption DEF IInv, TrackingOK

\* The buffer once the record has been pushed without an exception.
Pushed(b) ==
    /\ b.context = contexts[record.stream]
    /\ IsOpen(b) => last_counter[record.stream] = packet_counter(LastOf(b.packets))

\* _push_context: the buffer adopts the context, or is emptied by a failed flush.
LEMMA PushContextEffect ==
    ASSUME IInv, pc = "push", PushContext(record)
    PROVE  \E b \in Buffers : Emits(record.stream, b) /\ (~raised' => Pushed(b))
<1> DEFINE s == record.stream
           ctx == record.context
           old == BufferOf(s)
<1>1. PendingContext(s)
  BY DEF IInv, AgreementOK, PendingData, PushContext, DataRecords
<1>2. s \in Streams /\ ctx \in Contexts /\ contexts[s] = ctx /\ ctx # None
  BY <1>1, NoContextAssumption DEF PendingContext, ContextRecords
<1>3. /\ old \in Buffers /\ BufferOK(old)
      /\ IsOpen(old) => /\ last_counter[s] = packet_counter(LastOf(old.packets))
                        /\ old.context # None
  <2>1. CASE buffers[s] = None
    BY <2>1, NewBufferFacts DEF BufferOf
  <2>2. CASE buffers[s] # None
    BY <1>1, <1>2, <2>2 DEF BufferOf, PendingContext, IInv, IngestTypeOK, BuffersOK
  <2> QED
    BY <2>1, <2>2
<1> HIDE DEF old
<1>4. CASE ~(IsOpen(old) /\ Differs(old.context, ctx))
  <2> DEFINE new == Adopt(old, ctx)
  <2>1. /\ buffers' = [buffers EXCEPT ![s] = new]
        /\ router_dropped' = router_dropped
        /\ out' = <<>> /\ raised' = FALSE
    BY <1>4 DEF PushContext, RouterQuiet, SetBuffer, old
  <2>2. /\ new \in Buffers /\ BufferOK(new) /\ new.context = ctx
        /\ new.packets = old.packets /\ (IsOpen(new) <=> IsOpen(old))
    BY <1>2, <1>3, <1>4, AdoptFacts
  <2> HIDE DEF new
  <2>3. Emits(s, new)
    BY <1>2, <2>1, <2>2, NoUnits DEF Emits
  <2>4. Pushed(new)
    BY <1>2, <1>3, <2>2 DEF Pushed
  <2> QED
    BY <2>2, <2>3, <2>4
<1>5. CASE IsOpen(old) /\ Differs(old.context, ctx)
  <2> DEFINE closed == Reset(old)
             new == IF raised' THEN closed ELSE Adopt(closed, ctx)
  <2>1. /\ buffers' = [buffers EXCEPT ![s] = new]
        /\ router_dropped' = router_dropped
        /\ out' = <<Unit(s, old)>> /\ raised' \in EmitOutcomes
    BY <1>5 DEF PushContext, RouterQuiet, SetBuffer, old
  <2>2. WindowOK(old) /\ old.dropped = 0
        /\ (old.context # None => (old.inert <=> Inert(old.context)))
    BY <1>3, <1>5 DEF BufferOK
  <2>3. GoodUnits(out')
    BY <1>2, <1>3, <2>1, <2>2, UnitFacts, OneUnit
  <2>4. /\ closed \in Buffers /\ BufferOK(closed) /\ ~IsOpen(closed)
        /\ closed.context = old.context
    BY <1>3, <2>2, ResetFacts
  <2> HIDE DEF closed
  <2>5. /\ Adopt(closed, ctx) \in Buffers /\ BufferOK(Adopt(closed, ctx))
        /\ Adopt(closed, ctx).context = ctx /\ ~IsOpen(Adopt(closed, ctx))
    BY <1>2, <2>4, AdoptFacts
  <2>6. raised' \in BOOLEAN
    BY <2>1, EmitOutcomesBoolean
  <2>7. /\ new \in Buffers /\ BufferOK(new) /\ new.context # None
        /\ ~raised' => Pushed(new)
    BY <1>2, <1>3, <1>5, <2>4, <2>5, <2>6 DEF Pushed
  <2>8. Emits(s, new)
    BY <2>1, <2>3, <2>6, <2>7 DEF Emits
  <2> QED
    BY <2>7, <2>8
<1> QED
  BY <1>4, <1>5

\* _push_data: a record that fits is appended, and full windows are emitted.
LEMMA PushDataEffect ==
    ASSUME IInv, pc = "push", PushData(record)
    PROVE  \E b \in Buffers : Emits(record.stream, b) /\ (~raised' => Pushed(b))
<1> DEFINE s == record.stream
           r == record
           old == BufferOf(s)
           mid == AfterClose(old, r)
           first == ClosedUnits(s, old, r)
<1>1. PendingData(s)
  BY DEF IInv, AgreementOK, PendingContext, PushData, ContextRecords
<1>2. r \in DataRecords /\ s \in Streams /\ last_counter[s] = packet_counter(r.seq)
  BY <1>1 DEF PendingData, DataRecords
<1>3. /\ old \in Buffers /\ BufferOK(old) /\ Fits(old, r)
      /\ old.context = contexts[s] /\ old.context # None
      /\ old.dropped = 0 /\ (old.inert <=> Inert(old.context))
  <2>1. old = buffers[s] /\ buffers[s] # None
    BY <1>1 DEF PendingData, BufferOf
  <2>2. old \in Buffers /\ BufferOK(old)
    BY <1>2, <2>1 DEF IInv, IngestTypeOK, BuffersOK
  <2>3. Fits(old, r) /\ old.context = contexts[s]
    BY <1>1, <2>1 DEF PendingData
  <2> QED
    BY <2>2, <2>3 DEF Fits, BufferOK
<1> HIDE DEF old
<1>4. /\ Usable(r) /\ Latchable(r) /\ ~NoUsableContext(old)
      /\ ClosesFirst(old, r) <=> IsOpen(old) /\ r.gap_before
  BY <1>2, <1>3, FitsFacts
<1>5. /\ Reset(old) \in Buffers /\ BufferOK(Reset(old)) /\ ~IsOpen(Reset(old))
      /\ Reset(old).context = old.context
  BY <1>3, ResetFacts
<1>6. ClosesFirst(old, r) => Unit(s, old) \in Units /\ UnitOK(Unit(s, old))
  BY <1>2, <1>3, <1>4, UnitFacts DEF BufferOK
<1>7. /\ mid \in Buffers /\ BufferOK(mid) /\ mid.context = old.context
      /\ IsOpen(mid) => ~r.gap_before
      /\ GoodUnits(first)
  BY <1>3, <1>4, <1>5, <1>6, OneUnit, NoUnits DEF AfterClose, ClosedUnits
<1>8. Fits(mid, r)
  <2>1. CASE ClosesFirst(old, r)
    BY <1>3, <1>5, <2>1 DEF AfterClose, Fits
  <2>2. CASE ~ClosesFirst(old, r)
    BY <1>3, <2>2 DEF AfterClose
  <2> QED
    BY <2>1, <2>2
<1>9. /\ router_dropped' = router_dropped
      /\ \/ CloseRaises(s, old, r)
         \/ SkipEmpty(s, old, r)
         \/ RejectFirst(s, old, r)
         \/ AppendData(s, old, r)
  BY DEF PushData, old
<1>10. CASE CloseRaises(s, old, r)
  <2>1. Emits(s, Reset(old)) /\ raised' = TRUE
    BY <1>3, <1>5, <1>6, <1>9, <1>10, OneUnit DEF CloseRaises, SetBuffer, Emits
  <2> QED
    BY <1>5, <2>1
<1> HIDE DEF mid, first
<1>11. CASE SkipEmpty(s, old, r)
  <2> DEFINE new == SkipChunk(mid, r)
  <2>1. /\ new \in Buffers /\ BufferOK(new) /\ new.context = mid.context
        /\ IsOpen(new) => LastOf(new.packets) = r.seq
    BY <1>2, <1>7, <1>8, SkipFacts
  <2>2. buffers' = [buffers EXCEPT ![s] = new] /\ out' = first /\ raised' = FALSE
    BY <1>11 DEF SkipEmpty, SetBuffer, mid, first
  <2> HIDE DEF new
  <2>3. Emits(s, new) /\ Pushed(new)
    BY <1>2, <1>3, <1>7, <1>9, <2>1, <2>2 DEF Emits, Pushed
  <2> QED
    BY <2>1, <2>3
<1>12. CASE RejectFirst(s, old, r)
  BY <1>4, <1>12 DEF RejectFirst
<1>13. CASE AppendData(s, old, r)
  <2> DEFINE new == AppendChunk(mid, r)
  <2>1. /\ new \in Buffers /\ IsOpen(new) /\ WindowOK(new)
        /\ new.context = mid.context /\ new.inert = mid.inert /\ new.dropped = 0
        /\ LastOf(new.packets) = r.seq
    BY <1>2, <1>7, <1>8, <1>13, AppendFacts DEF AppendData
  <2>2. \/ /\ ~IsFull(new)
           /\ out' = first /\ raised' = FALSE
           /\ buffers' = [buffers EXCEPT ![s] = new]
        \/ /\ IsFull(new)
           /\ out' = Append(first, Unit(s, new)) /\ raised' \in EmitOutcomes
           /\ buffers' = [buffers EXCEPT ![s] = Reset(new)]
    BY <1>13 DEF AppendData, SetBuffer, mid, first
  <2> HIDE DEF new
  <2>3. new.context # None => (new.inert <=> Inert(new.context))
    BY <1>7, <2>1 DEF BufferOK
  <2>4. CASE ~IsFull(new)
    <3>1. BufferOK(new)
      BY <2>1, <2>3, <2>4 DEF BufferOK
    <3>2. Emits(s, new) /\ Pushed(new)
      BY <1>2, <1>3, <1>7, <1>9, <2>1, <2>2, <2>4, <3>1 DEF Emits, Pushed
    <3> QED
      BY <2>1, <3>2
  <2>5. CASE IsFull(new)
    <3>1. /\ Reset(new) \in Buffers /\ BufferOK(Reset(new)) /\ ~IsOpen(Reset(new))
          /\ Reset(new).context = new.context
      BY <2>1, <2>3, ResetFacts
    <3>2. GoodUnits(Append(first, Unit(s, new)))
      BY <1>2, <1>7, <2>1, UnitFacts, MoreUnits
    <3>3. raised' \in BOOLEAN
      BY <2>2, <2>5, EmitOutcomesBoolean
    <3>4. Emits(s, Reset(new)) /\ Pushed(Reset(new))
      BY <1>2, <1>3, <1>7, <1>9, <2>1, <2>2, <2>5, <3>1, <3>2, <3>3 DEF Emits, Pushed
    <3> QED
      BY <3>1, <3>4
  <2> QED
    BY <2>4, <2>5
<1> QED
  BY <1>9, <1>10, <1>11, <1>12, <1>13

\* No record of the interpreter is dropped by the router or by a buffer.
LEMMA PushEffect ==
    ASSUME IInv, pc = "push", RouterPush(record)
    PROVE  \E b \in Buffers : Emits(record.stream, b) /\ (~raised' => Pushed(b))
<1>1. ~RouterDrops(record)
  BY PushAdmitted DEF RouterDrops
<1>2. ~RefuseData(record)
  <2> SUFFICES ASSUME record.type = "data"
               PROVE  ~NoUsableContext(BufferOf(record.stream)) /\ Usable(record)
    BY DEF RefuseData
  <2>1. PendingData(record.stream)
    BY DEF IInv, AgreementOK, PendingContext, ContextRecords
  <2>2. /\ record \in DataRecords
        /\ BufferOf(record.stream) = buffers[record.stream]
        /\ buffers[record.stream] \in Buffers
        /\ BufferOK(buffers[record.stream])
        /\ Fits(buffers[record.stream], record)
    BY <2>1 DEF PendingData, DataRecords, BufferOf, IInv, IngestTypeOK, BuffersOK
  <2> QED
    BY <2>2, FitsFacts
<1> QED
  BY <1>1, <1>2, PushContextEffect, PushDataEffect DEF RouterPush

-----------------------------------------------------------------------------
(* Every step preserves the invariant.                                      *)

\* The initial state satisfies the invariant.
LEMMA InitIInv == IngestInit => IInv
<1> SUFFICES ASSUME IngestInit PROVE IInv
  OBVIOUS
<1> USE DEF IngestInit, InterpreterInit, RouterInit
<1>1. IngestTypeOK
  <2>1. out \in Seq(Units)
    BY NoUnits DEF GoodUnits
  <2>2. raised \in BOOLEAN
    OBVIOUS
  <2> QED
    BY <2>1, <2>2 DEF IngestTypeOK
<1>2. BuffersOK /\ OutOK /\ AgreementOK /\ StaleOK
  BY DEF BuffersOK, OutOK, AgreementOK, StaleOK, Agrees
<1>3. TrackingOK
  <2>1. TrackedStreams = {}
    BY DEF TrackedStreams
  <2> QED
    BY <2>1, FS_EmptySet, MaxStreamsAssumption DEF TrackingOK
<1> QED
  BY <1>1, <1>2, <1>3 DEF IInv

\* What a step of the router leaves behind.
LEMMA EmitsFacts ==
    ASSUME IInv, NEW s \in Streams, NEW b \in Buffers, Emits(s, b)
    PROVE  /\ buffers' \in [Streams -> Buffers \cup {None}]
           /\ buffers'[s] = b /\ b # None
           /\ \A t \in Streams : t # s => buffers'[t] = buffers[t]
           /\ router_dropped' = 0
           /\ BuffersOK'
           /\ out' \in Seq(Units) /\ OutOK'
           /\ raised' \in BOOLEAN
<1>1. buffers \in [Streams -> Buffers \cup {None}] /\ BuffersOK /\ router_dropped = 0
  BY DEF IInv, IngestTypeOK
<1>2. /\ buffers' \in [Streams -> Buffers \cup {None}]
      /\ buffers'[s] = b /\ b # None
      /\ \A t \in Streams : t # s => buffers'[t] = buffers[t]
  BY <1>1, NoBufferAssumption DEF Emits
<1>3. BuffersOK'
  BY <1>1, <1>2 DEF BuffersOK, Emits
<1> QED
  BY <1>1, <1>2, <1>3 DEF Emits, GoodUnits, OutOK

\* A step that emits nothing leaves no unit in out.
LEMMA QuietFacts ==
    ASSUME RouterQuiet
    PROVE  out' \in Seq(Units) /\ OutOK' /\ raised' \in BOOLEAN
<1>1. out' = <<>>
  BY DEF RouterQuiet
<1>2. raised' = FALSE
  BY DEF RouterQuiet
<1>3. raised' \in BOOLEAN
  BY <1>2
<1> QED
  BY <1>1, <1>3, NoUnits DEF GoodUnits, OutOK

\* trim_data keeps whole samples.
LEMMA TrimWhole ==
    ASSUME NEW size \in Nat, NEW n \in Nat \ {0}
    PROVE  trim_data(size, n) \in Nat /\ trim_data(size, n) % n = 0
<1>1. ASSUME NEW m \in Nat PROVE m * n \in Nat /\ (m * n) % n = 0
  BY SMTT(30)
<1>2. size \div n \in Nat
  OBVIOUS
<1> QED
  BY <1>1, <1>2 DEF trim_data

\* The record of an accepted data packet fits the buffer of its stream.
LEMMA AcceptedFits ==
    ASSUME IInv, pc = "get", NEW d \in Datagrams, ProcessData(d)
    PROVE  /\ record' \in DataRecords
           /\ record'.stream = d.stream /\ record'.seq = d.seq
           /\ buffers[d.stream] # None
           /\ buffers[d.stream].context = contexts[d.stream]
           /\ Fits(buffers[d.stream], record')
<1> DEFINE s == d.stream
           ctx == contexts[s]
           b == buffers[s]
           gap == GapBefore(s, d.seq)
           len == trim_data(d.size, ctx.bytes_per_sample)
<1>1. d.kind = "data" /\ s \in Streams /\ d.seq \in Seqs /\ d.size \in Nat
  BY SeqsAssumption DEF Datagrams, ProcessData
<1>2. Decodable(ctx)
  BY <1>1 DEF ProcessData, Refused
<1>3. ctx \in Contexts /\ ctx # None /\ ctx.component_dtype # None
  BY <1>1, <1>2, ContextFacts DEF Decodable, IInv, IngestTypeOK
<1>4. /\ ctx.component_dtype \in Dtypes /\ ctx.is_complex \in BOOLEAN
      /\ ctx.bytes_per_sample \in Nat \ {0} /\ FlushId(ctx) \in FlushIds
  BY <1>3, ContextFacts
<1>5. len \in Nat /\ len % ctx.bytes_per_sample = 0
  BY <1>1, <1>4, TrimWhole
<1>6. gap \in BOOLEAN
  BY DEF GapBefore
<1>7. record' = DataRecord(s, d.seq, len, ctx, gap)
  BY DEF ProcessData
<1>8. Agrees(s)
  BY <1>1 DEF IInv, AgreementOK
<1>9. b # None /\ b.context = ctx
  BY <1>3, <1>8 DEF Agrees
<1>10. IsOpen(b) /\ ~gap =>
         packet_counter(d.seq) = (packet_counter(LastOf(b.packets)) + 1) % 16
  <2>1. last_counter[s] \in (0..15) \cup {None}
    BY <1>1 DEF IInv, IngestTypeOK
  <2>2. IsOpen(b) => last_counter[s] = packet_counter(LastOf(b.packets))
                      /\ last_counter[s] # None
    <3>1. IsOpen(b) => LastOf(b.packets) \in Nat
      <4>1. BufferOK(b) /\ b \in Buffers
        BY <1>1, <1>9 DEF IInv, BuffersOK, IngestTypeOK
      <4>2. b.packets \in Seq(Seqs) /\ (IsOpen(b) => b.packets # <<>>)
        BY <4>1 DEF BufferOK, WindowOK, Buffers
      <4>3. ASSUME NEW q \in Seq(Seqs), q # <<>> PROVE q[Len(q)] \in Seqs
        BY <4>3
      <4> QED
        BY <4>2, <4>3, SeqsAssumption DEF LastOf
    <3> QED
      BY <1>8, <1>9, <3>1, NoneAssumption DEF Agrees, packet_counter
  <2> QED
    BY <2>1, <2>2 DEF GapBefore
<1> HIDE DEF gap, len, ctx, b, s
<1>11. /\ record'.type = "data" /\ record'.stream = s /\ record'.seq = d.seq
       /\ record'.len = len /\ record'.dtype = ctx.component_dtype
       /\ record'.bytes_per_sample = ctx.bytes_per_sample
       /\ record'.is_complex = ctx.is_complex /\ record'.gap_before = gap
       /\ record'.under = FlushId(ctx)
  BY <1>7 DEF DataRecord
<1>12. record' \in DataRecords
  BY <1>1, <1>4, <1>5, <1>6, <1>7 DEF DataRecord, DataRecords
<1>13. Fits(b, record')
  BY <1>3, <1>5, <1>9, <1>10, <1>11 DEF Fits
<1> QED
  BY <1>9, <1>11, <1>12, <1>13 DEF s, b, ctx

\* The interpreter's state after one datagram.
LEMMA ProcessTracking ==
    ASSUME IInv, NEW d \in Datagrams, Process(d)
    PROVE  /\ contexts' \in [Streams -> Contexts \cup {None}]
           /\ last_counter' \in [Streams -> (0..15) \cup {None}]
           /\ interpreter_errors' \in Nat
           /\ interpreter_dropped' \in Nat
           /\ TrackingOK'
<1>1. /\ contexts \in [Streams -> Contexts \cup {None}]
      /\ last_counter \in [Streams -> (0..15) \cup {None}]
      /\ interpreter_errors \in Nat /\ interpreter_dropped \in Nat
      /\ TrackingOK
  BY DEF IInv, IngestTypeOK
<1>2. CASE ProcessRaises(d) \/ ProcessDrops(d)
  BY <1>1, <1>2 DEF ProcessRaises, ProcessDrops, TrackingOK, TrackedStreams
<1>3. CASE ProcessContext(d)
  <2> DEFINE s == d.stream
             ctx == decode_context(d.payload)
  <2>1. s \in Streams /\ ctx \in Contexts /\ ctx # None
    BY <1>3, NoContextAssumption DEF ProcessContext, Datagrams, Contexts
  <2> HIDE DEF ctx
  <2>2. /\ contexts' = [contexts EXCEPT ![s] = ctx]
        /\ last_counter' = last_counter
        /\ UNCHANGED <<interpreter_errors, interpreter_dropped>>
    BY <1>3 DEF ProcessContext, ctx
  <2>3. TrackedStreams' = TrackedStreams \cup {s}
    BY <1>1, <2>1, <2>2 DEF TrackedStreams
  <2>4. Cardinality(TrackedStreams') <= max_streams
    <3>1. s \in TrackedStreams \/ Cardinality(TrackedStreams) < max_streams
      <4>1. ~Flooded(s)
        BY <1>3 DEF ProcessContext, Refused
      <4>2. Cardinality(TrackedStreams) \in Nat
        BY TrackedFinite, FS_CardinalityType
      <4> QED
        BY <2>1, <4>1, <4>2, MaxStreamsAssumption DEF Flooded, TrackedStreams
    <3>2. Cardinality(TrackedStreams \cup {s})
            = IF s \in TrackedStreams THEN Cardinality(TrackedStreams)
              ELSE Cardinality(TrackedStreams) + 1
      BY TrackedFinite, FS_AddElement
    <3>3. Cardinality(TrackedStreams) \in Nat
      BY TrackedFinite, FS_CardinalityType
    <3>4. Cardinality(TrackedStreams) <= max_streams
      BY <1>1 DEF TrackingOK
    <3> QED
      BY <2>3, <3>1, <3>2, <3>3, <3>4, MaxStreamsAssumption
  <2>5. \A t \in Streams : last_counter'[t] # None => contexts'[t] # None
    BY <1>1, <2>1, <2>2 DEF TrackingOK
  <2> QED
    BY <1>1, <2>1, <2>2, <2>4, <2>5 DEF TrackingOK
<1>4. CASE ProcessData(d)
  <2>1. d.stream \in Streams /\ d.seq \in Nat /\ contexts[d.stream] # None
    BY <1>4, SeqsAssumption DEF ProcessData, Datagrams, Refused, Decodable
  <2>2. packet_counter(d.seq) \in 0..15
    BY <2>1 DEF packet_counter
  <2>3. /\ last_counter' = [last_counter EXCEPT ![d.stream] = packet_counter(d.seq)]
        /\ UNCHANGED <<contexts, interpreter_errors, interpreter_dropped>>
    BY <1>4 DEF ProcessData
  <2> QED
    BY <1>1, <2>1, <2>2, <2>3 DEF TrackingOK, TrackedStreams
<1> QED
  BY <1>2, <1>3, <1>4 DEF Process

\* Receiving and processing a datagram preserves the invariant.
LEMMA ReceiveStep ==
    ASSUME IInv, NEW d \in Datagrams, Receive(d)
    PROVE  IInv'
<1>1. /\ pc = "get" /\ Process(d) /\ RouterQuiet
      /\ buffers' = buffers /\ router_dropped' = router_dropped
      /\ stale' = {s \in Streams : Overdue(s)}
      /\ IF record' = None
         THEN pc' = "poll" /\ todo' = {s \in Streams : buffers'[s] # None}
         ELSE pc' = "push" /\ todo' = todo
  BY DEF Receive, StartLoop, BeginIteration
<1>2. /\ out' \in Seq(Units) /\ OutOK' /\ raised' \in BOOLEAN
  BY <1>1, QuietFacts
<1>3. /\ contexts' \in [Streams -> Contexts \cup {None}]
      /\ last_counter' \in [Streams -> (0..15) \cup {None}]
      /\ interpreter_errors' \in Nat
      /\ interpreter_dropped' \in Nat
      /\ TrackingOK'
  BY <1>1, ProcessTracking
<1>4. \A s \in Streams : Agrees(s)
  BY <1>1 DEF IInv, AgreementOK
<1>5. /\ record' \in ContextRecords \cup DataRecords \cup {None}
      /\ AgreementOK'
  <2>1. CASE ProcessRaises(d) \/ ProcessDrops(d)
    <3>1. record' = None /\ contexts' = contexts /\ last_counter' = last_counter
      BY <2>1 DEF ProcessRaises, ProcessDrops
    <3> QED
      BY <1>1, <1>4, <3>1 DEF AgreementOK, Agrees
  <2>2. CASE ProcessContext(d)
    <3>1. /\ d.stream \in Streams
          /\ decode_context(d.payload) \in Contexts
          /\ contexts' = [contexts EXCEPT ![d.stream] = decode_context(d.payload)]
          /\ record' = ContextRecord(d.stream, decode_context(d.payload))
          /\ last_counter' = last_counter
      BY <2>2 DEF ProcessContext, Datagrams, Contexts
    <3>2. /\ record' \in ContextRecords
          /\ record'.stream = d.stream
          /\ record'.context = decode_context(d.payload)
      BY <3>1 DEF ContextRecord, ContextRecords
    <3>3. record' # None
      BY <3>2, NoRecordAssumption
    <3>4. contexts \in [Streams -> Contexts \cup {None}]
      BY DEF IInv, IngestTypeOK
    <3>5. PendingContext(d.stream)'
      BY <1>1, <1>4, <3>1, <3>2, <3>4 DEF PendingContext, Agrees
    <3>6. \A s \in Streams : s # d.stream => Agrees(s)'
      BY <1>1, <1>4, <3>1, <3>4 DEF Agrees
    <3> QED
      BY <1>1, <3>2, <3>3, <3>5, <3>6 DEF AgreementOK
  <2>3. CASE ProcessData(d)
    <3>1. /\ record' \in DataRecords
          /\ record'.stream = d.stream /\ record'.seq = d.seq
          /\ buffers[d.stream] # None
          /\ buffers[d.stream].context = contexts[d.stream]
          /\ Fits(buffers[d.stream], record')
      BY <1>1, <2>3, AcceptedFits
    <3>2. /\ d.stream \in Streams /\ contexts' = contexts
          /\ last_counter' = [last_counter EXCEPT ![d.stream] = packet_counter(d.seq)]
      BY <2>3 DEF ProcessData, Datagrams
    <3>3. record' # None
      BY <3>1, NoRecordAssumption
    <3>4. last_counter \in [Streams -> (0..15) \cup {None}]
      BY DEF IInv, IngestTypeOK
    <3>5. PendingData(d.stream)'
      BY <1>1, <3>1, <3>2, <3>4 DEF PendingData, Fits
    <3>6. \A s \in Streams : s # d.stream => Agrees(s)'
      BY <1>1, <1>4, <3>2, <3>4 DEF Agrees
    <3> QED
      BY <1>1, <3>1, <3>3, <3>5, <3>6 DEF AgreementOK
  <2> QED
    BY <1>1, <2>1, <2>2, <2>3 DEF Process
<1>6. StaleOK'
  BY <1>1 DEF StaleOK, Overdue, BufferedStreams
<1>7. IngestTypeOK'
  BY <1>1, <1>2, <1>3, <1>5 DEF IInv, IngestTypeOK
<1>8. BuffersOK' /\ router_dropped' = 0
  BY <1>1 DEF IInv, BuffersOK
<1> QED
  BY <1>2, <1>3, <1>5, <1>6, <1>7, <1>8 DEF IInv

\* Steps of Thread B that neither process, push nor flush.
LEMMA TimeoutStep ==
    ASSUME IInv, Timeout
    PROVE  IInv'
<1>1. /\ pc = "get" /\ pc' = "poll" /\ RouterQuiet
      /\ todo' = {s \in Streams : buffers'[s] # None}
      /\ stale' = {s \in Streams : Overdue(s)}
      /\ UNCHANGED <<contexts, last_counter, interpreter_errors, interpreter_dropped,
                     record, buffers, router_dropped>>
  BY DEF Timeout, StartLoop, BeginIteration, interpreterVars
<1>2. /\ out' \in Seq(Units) /\ OutOK' /\ raised' \in BOOLEAN
  BY <1>1, QuietFacts
<1>3. IngestTypeOK'
  BY <1>1, <1>2 DEF IInv, IngestTypeOK
<1>4. BuffersOK' /\ router_dropped' = 0 /\ TrackingOK'
  BY <1>1 DEF IInv, BuffersOK, TrackingOK, TrackedStreams
<1>5. AgreementOK'
  BY <1>1 DEF IInv, AgreementOK, Agrees
<1>6. StaleOK'
  BY <1>1 DEF StaleOK, Overdue
<1> QED
  BY <1>2, <1>3, <1>4, <1>5, <1>6 DEF IInv

\* So does returning to the head of the loop.
LEMMA EndIterationStep ==
    ASSUME IInv, EndIteration
    PROVE  IInv'
<1>1. /\ pc = "poll" /\ todo = {} /\ pc' = "get" /\ RouterQuiet
      /\ UNCHANGED <<contexts, last_counter, interpreter_errors, interpreter_dropped,
                     record, buffers, router_dropped, todo, stale>>
  BY DEF EndIteration, interpreterVars
<1>2. /\ out' \in Seq(Units) /\ OutOK' /\ raised' \in BOOLEAN
  BY <1>1, QuietFacts
<1>3. IngestTypeOK'
  BY <1>1, <1>2 DEF IInv, IngestTypeOK
<1>4. BuffersOK' /\ router_dropped' = 0 /\ TrackingOK'
  BY <1>1 DEF IInv, BuffersOK, TrackingOK, TrackedStreams
<1>5. AgreementOK'
  BY <1>1 DEF IInv, AgreementOK, Agrees
<1>6. StaleOK'
  BY <1>1 DEF IInv, StaleOK
<1> QED
  BY <1>2, <1>3, <1>4, <1>5, <1>6 DEF IInv

\* Leaving the loop, by SHUTDOWN, stop or interrupt, and leaving run().
LEMMA LeaveStep ==
    ASSUME IInv, LeaveLoop \/ Interrupt \/ LeaveRun
    PROVE  IInv'
<1>1. /\ pc' \in {"finally", "done"} /\ RouterQuiet /\ record' = None
      /\ todo' \subseteq Streams
      /\ UNCHANGED <<contexts, last_counter, interpreter_errors, interpreter_dropped,
                     buffers, router_dropped, stale>>
  <2>1. LeaveRun \/ LeaveLoop => record = None
    BY DEF IInv, AgreementOK, LeaveRun, LeaveLoop
  <2>2. todo \subseteq Streams
    BY DEF IInv, IngestTypeOK
  <2> QED
    BY <2>1, <2>2 DEF LeaveLoop, Interrupt, LeaveRun, StartLoop, interpreterVars
<1>2. /\ out' \in Seq(Units) /\ OutOK' /\ raised' \in BOOLEAN
  BY <1>1, QuietFacts
<1>3. IngestTypeOK'
  BY <1>1, <1>2 DEF IInv, IngestTypeOK
<1>4. BuffersOK' /\ router_dropped' = 0 /\ TrackingOK'
  BY <1>1 DEF IInv, BuffersOK, TrackingOK, TrackedStreams
<1>5. AgreementOK' /\ StaleOK'
  BY <1>1 DEF AgreementOK, StaleOK
<1> QED
  BY <1>2, <1>3, <1>4, <1>5 DEF IInv

\* Time only makes an open window overdue.
LEMMA TimeStep ==
    ASSUME IInv, NEW s \in Streams, TimePasses(s)
    PROVE  IInv'
<1> DEFINE b == buffers[s]
           new == [b EXCEPT !.overdue = TRUE]
<1>1. /\ b # None /\ IsOpen(b) /\ buffers' = [buffers EXCEPT ![s] = new] /\ RouterQuiet
      /\ UNCHANGED <<contexts, last_counter, interpreter_errors, interpreter_dropped,
                     record, router_dropped, pc, todo, stale>>
  BY DEF TimePasses, WindowAges, SetBuffer, interpreterVars, threadVars
<1>2. buffers \in [Streams -> Buffers \cup {None}] /\ b \in Buffers /\ BufferOK(b)
  BY <1>1 DEF IInv, IngestTypeOK, BuffersOK
<1> HIDE DEF b
<1>3. /\ new \in Buffers
      /\ new.context = b.context /\ new.inert = b.inert /\ new.dropped = b.dropped
      /\ new.chunks = b.chunks /\ new.packets = b.packets
      /\ new.num_samples = b.num_samples
      /\ new.component_dtype = b.component_dtype /\ new.is_complex = b.is_complex
      /\ new.bytes_per_sample = b.bytes_per_sample /\ new.start = b.start
  BY <1>2 DEF Buffers
<1> HIDE DEF new
<1>4. IsOpen(new) /\ BufferOK(new) /\ new.context # None
  BY <1>1, <1>2, <1>3 DEF IsOpen, BufferOK, WindowOK, IsFull
<1>5. new # None
  BY <1>3, NoBufferAssumption
<1>6. /\ out' \in Seq(Units) /\ OutOK' /\ raised' \in BOOLEAN
  BY <1>1, QuietFacts
<1>7. IngestTypeOK'
  BY <1>1, <1>2, <1>3, <1>6 DEF IInv, IngestTypeOK
<1>8. BuffersOK' /\ router_dropped' = 0 /\ TrackingOK'
  BY <1>1, <1>2, <1>4 DEF IInv, BuffersOK, TrackingOK, TrackedStreams
<1>9. /\ buffers'[s] = new
      /\ \A t \in Streams : t # s => buffers'[t] = buffers[t]
  BY <1>1, <1>2
<1>10. \A t \in Streams : Agrees(t) => Agrees(t)'
  BY <1>1, <1>3, <1>4, <1>5, <1>9 DEF Agrees, b
<1>11. \A t \in Streams : PendingContext(t) => PendingContext(t)'
  BY <1>1, <1>3, <1>4, <1>5, <1>9 DEF PendingContext, b
<1>12. \A t \in Streams : PendingData(t) => PendingData(t)'
  BY <1>1, <1>3, <1>4, <1>5, <1>9 DEF PendingData, Fits, b
<1>13. pc = "push" => record.stream \in Streams
  BY DEF IInv, AgreementOK, PendingContext, PendingData, ContextRecords, DataRecords
<1>14. AgreementOK'
  BY <1>1, <1>10, <1>11, <1>12, <1>13 DEF IInv, AgreementOK
<1>15. StaleOK'
  <2>1. BufferedStreams' = BufferedStreams
    BY <1>1, <1>5, <1>9 DEF BufferedStreams, b
  <2> QED
    BY <1>1, <2>1 DEF IInv, StaleOK
<1> QED
  BY <1>6, <1>7, <1>8, <1>14, <1>15 DEF IInv

\* Pushing the record in hand preserves the invariant.
LEMMA PushStep ==
    ASSUME IInv, PushRecord
    PROVE  IInv'
<1> DEFINE s == record.stream
<1>1. /\ pc = "push" /\ RouterPush(record) /\ record' = None
      /\ pc' = IF raised' THEN "finally" ELSE "poll"
      /\ todo' = {t \in Streams : buffers'[t] # None}
      /\ stale' = {t \in stale : buffers'[t] # None /\ buffers'[t].overdue}
      /\ UNCHANGED <<contexts, last_counter, interpreter_errors, interpreter_dropped>>
  BY DEF PushRecord, StartLoop, StillStale
<1>2. s \in Streams
  BY <1>1 DEF IInv, AgreementOK, PendingContext, PendingData, ContextRecords, DataRecords
<1>3. PICK b \in Buffers : Emits(s, b) /\ (~raised' => Pushed(b))
  BY <1>1, PushEffect
<1>4. /\ buffers' \in [Streams -> Buffers \cup {None}]
      /\ buffers'[s] = b /\ b # None
      /\ \A t \in Streams : t # s => buffers'[t] = buffers[t]
      /\ router_dropped' = 0
      /\ BuffersOK'
      /\ out' \in Seq(Units) /\ OutOK'
      /\ raised' \in BOOLEAN
  BY <1>2, <1>3, EmitsFacts
<1>5. pc' \in {"poll", "finally"} /\ (pc' = "poll" => ~raised')
  BY <1>1, <1>4
<1>6. IngestTypeOK'
  BY <1>1, <1>4, <1>5 DEF IInv, IngestTypeOK
<1>7. TrackingOK'
  BY <1>1 DEF IInv, TrackingOK, TrackedStreams
<1>8. AgreementOK'
  <2>1. ASSUME ~raised', NEW t \in Streams PROVE Agrees(t)'
    <3>1. CASE t = s
      <4>1. contexts'[s] # None
        BY <1>1, <1>3, <2>1 DEF Emits, Pushed
      <4> QED
        BY <1>1, <1>3, <1>4, <2>1, <3>1, <4>1 DEF Pushed, Agrees
    <3>2. CASE t # s
      <4>1. Agrees(t)
        BY <1>1, <3>2 DEF IInv, AgreementOK
      <4> QED
        BY <1>1, <1>4, <3>2, <4>1 DEF Agrees
    <3> QED
      BY <3>1, <3>2
  <2> QED
    BY <1>1, <1>5, <2>1 DEF AgreementOK
<1>9. StaleOK'
  BY <1>1, <1>5 DEF IInv, IngestTypeOK, StaleOK
<1> QED
  BY <1>4, <1>6, <1>7, <1>8, <1>9 DEF IInv

\* Polling the age trigger of one buffer preserves the invariant.
LEMMA PollStep ==
    ASSUME IInv, NEW s \in Streams, PollBuffer(s)
    PROVE  IInv'
<1>1. /\ pc = "poll" /\ s \in todo /\ MaybeFlushOnAge(s)
      /\ IF raised' THEN pc' = "finally" /\ todo' = {t \in Streams : buffers'[t] # None}
                    ELSE pc' = pc /\ todo' = todo \ {s}
      /\ stale' = {t \in stale : buffers'[t] # None /\ buffers'[t].overdue}
      /\ UNCHANGED <<contexts, last_counter, interpreter_errors, interpreter_dropped, record>>
  BY DEF PollBuffer, StartLoop, StillStale, interpreterVars
<1>2. buffers[s] # None /\ buffers[s] \in Buffers /\ BufferOK(buffers[s])
  BY <1>1 DEF MaybeFlushOnAge, IInv, IngestTypeOK, BuffersOK
<1>3. buffers[s].context # None
  BY <1>2 DEF IInv, BuffersOK
<1>4. \E b \in Buffers :
         /\ Emits(s, b) /\ ~b.overdue /\ b.context = buffers[s].context
         /\ ~IsOpen(b) \/ b = buffers[s]
  <2>1. CASE buffers[s].overdue
    <3>1. Flush(s)
      BY <1>1, <2>1 DEF MaybeFlushOnAge
    <3> QED
      BY <3>1, FlushEffect
  <2>2. CASE ~buffers[s].overdue
    <3>1. RouterQuiet /\ buffers' = buffers /\ router_dropped' = router_dropped
      BY <1>1, <2>2 DEF MaybeFlushOnAge
    <3>2. GoodUnits(out') /\ raised' \in BOOLEAN
      BY <3>1, QuietFacts DEF GoodUnits, OutOK
    <3>3. buffers' = [buffers EXCEPT ![s] = buffers[s]]
      BY <3>1 DEF IInv, IngestTypeOK
    <3> QED
      BY <1>2, <1>3, <2>2, <3>1, <3>2, <3>3 DEF Emits
  <2> QED
    BY <2>1, <2>2
<1>5. PICK b \in Buffers :
         /\ Emits(s, b) /\ ~b.overdue /\ b.context = buffers[s].context
         /\ ~IsOpen(b) \/ b = buffers[s]
  BY <1>4
<1>6. /\ buffers' \in [Streams -> Buffers \cup {None}]
      /\ buffers'[s] = b /\ b # None
      /\ \A t \in Streams : t # s => buffers'[t] = buffers[t]
      /\ router_dropped' = 0
      /\ BuffersOK'
      /\ out' \in Seq(Units) /\ OutOK'
      /\ raised' \in BOOLEAN
  BY <1>5, EmitsFacts
<1>7. pc' \in {"poll", "finally"}
  BY <1>1
<1>8. IngestTypeOK'
  BY <1>1, <1>6, <1>7 DEF IInv, IngestTypeOK
<1>9. TrackingOK'
  BY <1>1 DEF IInv, TrackingOK, TrackedStreams
<1>10. AgreementOK'
  <2>1. ASSUME NEW t \in Streams PROVE Agrees(t)'
    <3>1. Agrees(t)
      BY <1>1 DEF IInv, AgreementOK
    <3>2. CASE t = s
      BY <1>1, <1>2, <1>5, <1>6, <3>1, <3>2 DEF Agrees
    <3>3. CASE t # s
      BY <1>1, <1>6, <3>1, <3>3 DEF Agrees
    <3> QED
      BY <3>2, <3>3
  <2> QED
    BY <1>1, <1>7, <2>1 DEF IInv, AgreementOK
<1>11. StaleOK'
  <2>1. s \notin stale'
    BY <1>1, <1>5, <1>6
  <2> QED
    BY <1>1, <1>7, <2>1 DEF IInv, StaleOK
<1> QED
  BY <1>6, <1>8, <1>9, <1>10, <1>11 DEF IInv

\* Flushing one buffer in the finally clause preserves the invariant.
LEMMA FlushStep ==
    ASSUME IInv, NEW s \in Streams, FlushBuffer(s)
    PROVE  IInv'
<1>1. /\ pc = "finally" /\ Flush(s) /\ pc' = pc
      /\ todo' = IF raised' THEN {} ELSE todo \ {s}
      /\ stale' = {t \in stale : buffers'[t] # None /\ buffers'[t].overdue}
      /\ UNCHANGED <<contexts, last_counter, interpreter_errors, interpreter_dropped, record>>
  BY DEF FlushBuffer, StillStale, interpreterVars
<1>2. PICK b \in Buffers : Emits(s, b)
  BY <1>1, FlushEffect
<1>3. /\ buffers' \in [Streams -> Buffers \cup {None}]
      /\ router_dropped' = 0
      /\ BuffersOK'
      /\ out' \in Seq(Units) /\ OutOK'
      /\ raised' \in BOOLEAN
  BY <1>2, EmitsFacts
<1>4. IngestTypeOK'
  BY <1>1, <1>3 DEF IInv, IngestTypeOK
<1>5. TrackingOK'
  BY <1>1 DEF IInv, TrackingOK, TrackedStreams
<1>6. AgreementOK' /\ StaleOK'
  BY <1>1 DEF IInv, AgreementOK, StaleOK
<1> QED
  BY <1>3, <1>4, <1>5, <1>6 DEF IInv

\* Steps that change nothing preserve the invariant.
LEMMA StutterStep ==
    ASSUME IInv, UNCHANGED ingestVars
    PROVE  IInv'
<1>1. UNCHANGED <<contexts, last_counter, interpreter_errors, interpreter_dropped, record,
                  buffers, router_dropped, out, raised, pc, todo, stale>>
  BY DEF ingestVars, interpreterVars, routerVars, threadVars
<1>2. IngestTypeOK' /\ router_dropped' = 0
  BY <1>1 DEF IInv, IngestTypeOK
<1>3. BuffersOK' /\ OutOK' /\ TrackingOK'
  BY <1>1 DEF IInv, BuffersOK, OutOK, TrackingOK, TrackedStreams
<1>4. AgreementOK'
  BY <1>1 DEF IInv, AgreementOK, Agrees, PendingContext, PendingData
<1>5. StaleOK'
  BY <1>1 DEF IInv, StaleOK, BufferedStreams
<1> QED
  BY <1>2, <1>3, <1>4, <1>5 DEF IInv

\* Every step of Thread B, of the clock and of the user preserves the invariant.
LEMMA NextIInv == IInv /\ [IngestNext]_ingestVars => IInv'
BY ReceiveStep, TimeoutStep, PushStep, PollStep, EndIterationStep, LeaveStep, FlushStep,
   TimeStep, StutterStep
   DEF IngestNext, ThreadB, Terminated

-----------------------------------------------------------------------------
(* The theorems.                                                            *)

\* The inductive invariant holds in every reachable state.
THEOREM IngestInvariant == IngestSpec => []IInv
BY InitIInv, NextIInv, PTL DEF IngestSpec

\* Types: every unit handed to emit is complete.
THEOREM IngestTypeCorrect == IngestSpec => []IngestTypeOK
<1>1. IInv => IngestTypeOK
  BY DEF IInv
<1> QED
  BY <1>1, IngestInvariant, PTL

\* No unit mixes two flush identities, whatever contexts arrive, and in whatever
\* order, while its window is open (buffer.py, _push_context and flush).
THEOREM NoMislabelledUnit == IngestSpec => []UnitsLabelled
<1>1. IInv => UnitsLabelled
  BY DEF IInv, OutOK, UnitOK, UnitsLabelled
<1> QED
  BY <1>1, IngestInvariant, PTL

\* A packet that was lost, delayed, duplicated, truncated or refused never hides
\* inside a unit, up to the counter's modulus (interpreter.py, _process).
THEOREM NoHiddenGap == IngestSpec => []UnitsContiguous
<1>1. IInv => UnitsContiguous
  BY DEF IInv, OutOK, UnitOK, UnitsContiguous
<1> QED
  BY <1>1, IngestInvariant, PTL

\* Samples are converted the way the unit's label says.
THEOREM NoMisinterpretedUnit == IngestSpec => []UnitsInterpretedAsLabelled
<1>1. IInv => UnitsInterpretedAsLabelled
  BY DEF IInv, OutOK, UnitOK, UnitsInterpretedAsLabelled
<1> QED
  BY <1>1, IngestInvariant, PTL

\* With one max_streams for both, what the interpreter accepts is never dropped
\* further down (interpreter.py and buffer.py caps, __main__.py wiring).
THEOREM NoDownstreamDrop == IngestSpec => []NothingDroppedDownstream
<1>1. IInv => NothingDroppedDownstream
  BY DEF IInv, BuffersOK, BufferOK, NothingDroppedDownstream, BufferedStreams
<1> QED
  BY <1>1, IngestInvariant, PTL

\* Buffers label with the contexts the interpreter decodes with.
THEOREM OneContextPerStream == IngestSpec => []ContextsAgree
<1>1. IInv => ContextsAgree
  BY DEF IInv, AgreementOK, Agrees, ContextsAgree, BufferedStreams, TrackedStreams
<1> QED
  BY <1>1, IngestInvariant, PTL

\* A window overdue at the start of an iteration is flushed before its end,
\* however busy the other streams are (runtime.py, maybe_flush_on_age).
THEOREM NoAgeStarvation == IngestSpec => []AgePolled
<1>1. IInv => AgePolled
  BY DEF IInv, StaleOK, AgePolled
<1> QED
  BY <1>1, IngestInvariant, PTL

\* Windows stay below max_samples and inert buffers hold none.
THEOREM WindowLimits == IngestSpec => []WindowsBounded
<1>1. IInv => WindowsBounded
  <2> SUFFICES ASSUME IInv, NEW s \in Streams, buffers[s] # None, IsOpen(buffers[s])
               PROVE  buffers[s].num_samples \in 1..(max_samples - 1) /\ ~buffers[s].inert
    BY DEF WindowsBounded, BufferedStreams
  <2>1. /\ BufferOK(buffers[s]) /\ buffers[s].context \in Contexts
        /\ buffers[s].context # None /\ WindowOK(buffers[s])
    BY DEF IInv, IngestTypeOK, BuffersOK, BufferOK, Buffers
  <2>2. ~Inert(buffers[s].context)
    BY <2>1, ContextFacts DEF WindowOK, Inert
  <2>3. buffers[s].num_samples \in 1..(max_samples - 1)
    BY MaxSamplesAssumption
       DEF IInv, IngestTypeOK, BuffersOK, BufferOK, WindowOK, IsFull, Buffers
  <2> QED
    BY <2>1, <2>2, <2>3 DEF BufferOK
<1> QED
  BY <1>1, IngestInvariant, PTL

-----------------------------------------------------------------------------
(* The finally clause, when the emit callback does not raise.               *)

\* flush_all() leaves no window open among the buffers it has visited.
ExitInv ==
    /\ pc = "finally" =>
         \A s \in Streams : buffers[s] # None /\ s \notin todo => ~IsOpen(buffers[s])
    /\ FlushedOnExit

\* While emit does not raise, every buffer not in todo is empty during flush_all.
LEMMA ExitStep ==
    ASSUME EmitMayRaise = FALSE, IInv, ExitInv, [IngestNext]_ingestVars
    PROVE  ExitInv'
<1> USE DEF ExitInv, FlushedOnExit, BufferedStreams
<1>1. CASE /\ pc' = "finally" /\ todo' = {s \in Streams : buffers'[s] # None}
  BY <1>1
<1>2. CASE pc' \notin {"finally", "done"}
  BY <1>2
<1>3. ASSUME NEW s \in Streams, FlushBuffer(s)
      PROVE  ExitInv'
  <2>1. /\ pc = "finally" /\ pc' = "finally" /\ Flush(s)
        /\ todo' = IF raised' THEN {} ELSE todo \ {s}
    BY <1>3 DEF FlushBuffer
  <2>2. raised' = FALSE
    BY <2>1 DEF Flush, EmitOutcomes, RouterQuiet
  <2>3. PICK b \in Buffers : Emits(s, b) /\ ~IsOpen(b)
    BY <2>1, FlushEffect
  <2>4. buffers'[s] = b /\ \A t \in Streams : t # s => buffers'[t] = buffers[t]
    BY <2>3, EmitsFacts
  <2> QED
    BY <2>1, <2>2, <2>3, <2>4
<1>4. ASSUME LeaveRun PROVE ExitInv'
  BY <1>4 DEF LeaveRun
<1>5. ASSUME NEW s \in Streams, TimePasses(s), pc = "finally"
      PROVE  ExitInv'
  <2>1. /\ pc' = pc /\ todo' = todo /\ IsOpen(buffers[s])
        /\ buffers' = [buffers EXCEPT ![s] = [buffers[s] EXCEPT !.overdue = TRUE]]
        /\ buffers[s] # None
    BY <1>5 DEF TimePasses, WindowAges, SetBuffer, threadVars
  <2>2. \A t \in Streams : t # s => buffers'[t] = buffers[t]
    BY <2>1 DEF IInv, IngestTypeOK
  <2> QED
    BY <1>5, <2>1, <2>2
<1>6. ASSUME UNCHANGED ingestVars PROVE ExitInv'
  BY <1>6 DEF ingestVars, routerVars, threadVars
<1>7. ASSUME PushRecord PROVE ExitInv'
  <2>1. pc' = "poll" \/ (pc' = "finally" /\ todo' = {s \in Streams : buffers'[s] # None})
    BY <1>7 DEF PushRecord, StartLoop
  <2> QED
    BY <1>1, <1>2, <2>1
<1>8. ASSUME NEW s \in Streams, PollBuffer(s) PROVE ExitInv'
  <2>1. pc' = "poll" \/ (pc' = "finally" /\ todo' = {t \in Streams : buffers'[t] # None})
    BY <1>8 DEF PollBuffer, StartLoop
  <2> QED
    BY <1>1, <1>2, <2>1
<1>9. ASSUME NEW d \in Datagrams, Receive(d) PROVE ExitInv'
  BY <1>2, <1>9 DEF Receive, StartLoop
<1>10. ASSUME NEW s \in Streams, TimePasses(s), pc # "finally" PROVE ExitInv'
  BY <1>2, <1>10 DEF TimePasses, threadVars, IInv, IngestTypeOK
<1>11. ASSUME Timeout \/ EndIteration PROVE ExitInv'
  BY <1>2, <1>11 DEF Timeout, EndIteration, StartLoop
<1>12. ASSUME LeaveLoop \/ Interrupt PROVE ExitInv'
  BY <1>1, <1>12 DEF LeaveLoop, Interrupt, StartLoop
<1> QED
  BY <1>3, <1>4, <1>5, <1>6, <1>7, <1>8, <1>9, <1>10, <1>11, <1>12
     DEF IngestNext, ThreadB, Terminated

\* As long as emit does not raise, every exit of run() leaves every window
\* flushed, an interrupt in the middle of an iteration included.
THEOREM ExitFlushes ==
    ASSUME EmitMayRaise = FALSE
    PROVE  IngestSpec => []FlushedOnExit
<1>1. IngestInit => ExitInv
  BY DEF IngestInit, ExitInv, FlushedOnExit
<1>2. IInv /\ ExitInv /\ [IngestNext]_ingestVars => ExitInv'
  BY ExitStep
<1>3. ExitInv => FlushedOnExit
  BY DEF ExitInv
<1> QED
  BY <1>1, <1>2, <1>3, IngestInvariant, PTL DEF IngestSpec

-----------------------------------------------------------------------------
(* The finally clause, whatever emit does.                                  *)

OpenWindows == {s \in BufferedStreams : IsOpen(buffers[s])}

\* The open windows that flush_all() has passed by or will not reach any more.
LeftBehind == IF pc \in {"finally", "done"} THEN OpenWindows \ todo ELSE {}

\* Windows are left behind in one event only: emit raises for the window of one
\* stream, and all that flush_all() had not reached before stays as it is.
LeavesUnreached ==
    LeftBehind' # LeftBehind =>
        /\ LeftBehind = {} /\ raised' = TRUE
        /\ \E s \in todo : /\ out' = <<Unit(s, buffers[s])>>
                           /\ LeftBehind' = OpenWindows \cap (todo \ {s})

\* While flush_all() goes on, all open windows are ahead of it.
ReachInv == pc = "finally" => LeftBehind = {} \/ todo = {}

\* One iteration of flush_all() empties one buffer and touches no other.
LEMMA FlushReaches ==
    ASSUME IInv, ReachInv, NEW s \in Streams, FlushBuffer(s)
    PROVE  LeavesUnreached /\ ReachInv'
<1>1. /\ pc = "finally" /\ pc' = "finally" /\ s \in todo /\ Flush(s)
      /\ todo' = IF raised' THEN {} ELSE todo \ {s}
  BY DEF FlushBuffer
<1>2. PICK b \in Buffers : Emits(s, b) /\ ~IsOpen(b)
  BY <1>1, FlushEffect
<1>3. /\ buffers'[s] = b /\ b # None
      /\ \A t \in Streams : t # s => buffers'[t] = buffers[t]
      /\ raised' \in BOOLEAN
  BY <1>2, EmitsFacts
<1>4. OpenWindows' = OpenWindows \ {s}
  BY <1>2, <1>3 DEF OpenWindows, BufferedStreams
<1>5. LeftBehind = {} /\ OpenWindows \subseteq todo
  BY <1>1 DEF ReachInv, LeftBehind
<1>6. CASE raised' = TRUE
  <2>1. todo' = {} /\ LeftBehind' = OpenWindows \ {s}
    BY <1>1, <1>4, <1>6 DEF LeftBehind
  <2>2. out' = <<Unit(s, buffers[s])>>
    BY <1>1, <1>6 DEF Flush, RouterQuiet
  <2>3. OpenWindows \ {s} = OpenWindows \cap (todo \ {s})
    BY <1>5
  <2>4. LeavesUnreached
    BY <1>1, <1>5, <1>6, <2>1, <2>2, <2>3 DEF LeavesUnreached
  <2> QED
    BY <2>1, <2>4 DEF ReachInv
<1>7. CASE raised' = FALSE
  <2>1. LeftBehind' = {}
    BY <1>1, <1>4, <1>5, <1>7 DEF LeftBehind
  <2> QED
    BY <1>5, <2>1 DEF LeavesUnreached, ReachInv
<1> QED
  BY <1>3, <1>6, <1>7

\* A step that neither empties nor adds anything outside of the loops.
LEMMA NothingReached ==
    ASSUME ReachInv, LeftBehind' = LeftBehind, pc' = "finally" => pc = "finally" /\ todo' = todo
    PROVE  LeavesUnreached /\ ReachInv'
BY DEF LeavesUnreached, ReachInv

\* The step to the finally clause puts all buffers ahead of flush_all().
LEMMA AllAhead ==
    ASSUME pc \notin {"finally", "done"}, pc' = "finally",
           todo' = {s \in Streams : buffers'[s] # None}
    PROVE  LeavesUnreached /\ ReachInv'
<1>1. LeftBehind = {}
  BY DEF LeftBehind
<1>2. LeftBehind' = {}
  BY DEF LeftBehind, OpenWindows, BufferedStreams
<1> QED
  BY <1>1, <1>2 DEF LeavesUnreached, ReachInv

\* The loop itself leaves nothing behind.
LEMMA StillLooping ==
    ASSUME pc \notin {"finally", "done"}, pc' \notin {"finally", "done"}
    PROVE  LeavesUnreached /\ ReachInv'
BY DEF LeavesUnreached, ReachInv, LeftBehind

\* pipeline.run()'s flush_all(), when emit may raise: an exception of emit on the
\* way out costs exactly the windows that the loop over the buffers had not
\* reached; those before it have been emitted, and so has the one it was raised
\* for.  Nothing else leaves a window behind: no interrupt and no exception
\* in the loop, and no step of the finally clause after it.
THEOREM ExitLeavesUnreached == IngestSpec => [][LeavesUnreached]_ingestVars
<1>1. IngestInit => ReachInv
  BY DEF IngestInit, ReachInv
<1>2. ASSUME IInv, ReachInv, [IngestNext]_ingestVars
      PROVE  LeavesUnreached /\ ReachInv'
  <2>1. ASSUME NEW s \in Streams, FlushBuffer(s)
        PROVE  LeavesUnreached /\ ReachInv'
    BY <1>2, <2>1, FlushReaches
  <2>2. CASE LeaveRun
    <3>1. pc = "finally" /\ pc' = "done" /\ UNCHANGED <<buffers, todo>>
      BY <2>2 DEF LeaveRun
    <3>2. LeftBehind' = LeftBehind
      BY <3>1 DEF LeftBehind, OpenWindows, BufferedStreams
    <3> QED
      BY <1>2, <3>1, <3>2, NothingReached
  <2>3. ASSUME NEW s \in Streams, TimePasses(s)
        PROVE  LeavesUnreached /\ ReachInv'
    <3>1. /\ pc' = pc /\ todo' = todo /\ IsOpen(buffers[s]) /\ buffers[s] # None
          /\ buffers' = [buffers EXCEPT ![s] = [buffers[s] EXCEPT !.overdue = TRUE]]
      BY <2>3 DEF TimePasses, WindowAges, SetBuffer, threadVars
    <3>2. buffers \in [Streams -> Buffers \cup {None}] /\ buffers[s] \in Buffers
      BY <1>2, <3>1 DEF IInv, IngestTypeOK
    <3>3. /\ \A t \in Streams : t # s => buffers'[t] = buffers[t]
          /\ buffers'[s] = [buffers[s] EXCEPT !.overdue = TRUE]
      BY <3>1, <3>2
    <3>4. buffers'[s] \in Buffers /\ buffers'[s].chunks = buffers[s].chunks
      BY <3>2, <3>3 DEF Buffers
    <3>5. buffers'[s] # None /\ IsOpen(buffers'[s])
      BY <3>1, <3>4, NoBufferAssumption DEF IsOpen
    <3>6. OpenWindows' = OpenWindows
      BY <3>1, <3>3, <3>5 DEF OpenWindows, BufferedStreams
    <3>7. LeftBehind' = LeftBehind
      BY <3>1, <3>6 DEF LeftBehind
    <3> QED
      BY <1>2, <3>1, <3>7, NothingReached
  <2>4. CASE UNCHANGED ingestVars
    <3>1. UNCHANGED <<pc, todo, buffers>>
      BY <2>4 DEF ingestVars, routerVars, threadVars
    <3>2. LeftBehind' = LeftBehind
      BY <3>1 DEF LeftBehind, OpenWindows, BufferedStreams
    <3> QED
      BY <1>2, <3>1, <3>2, NothingReached
  <2>5. CASE PushRecord
    <3>1. pc = "push" /\ (pc' = "poll" \/ (pc' = "finally" /\ todo' = {s \in Streams : buffers'[s] # None}))
      BY <2>5 DEF PushRecord, StartLoop
    <3> QED
      BY <3>1, AllAhead, StillLooping
  <2>6. ASSUME NEW s \in Streams, PollBuffer(s)
        PROVE  LeavesUnreached /\ ReachInv'
    <3>1. pc = "poll" /\ (pc' = "poll" \/ (pc' = "finally" /\ todo' = {t \in Streams : buffers'[t] # None}))
      BY <2>6 DEF PollBuffer, StartLoop
    <3> QED
      BY <3>1, AllAhead, StillLooping
  <2>7. ASSUME NEW d \in Datagrams, Receive(d)
        PROVE  LeavesUnreached /\ ReachInv'
    <3>1. pc = "get" /\ pc' \in {"push", "poll"}
      BY <2>7 DEF Receive, StartLoop
    <3> QED
      BY <3>1, StillLooping
  <2>8. CASE Timeout \/ EndIteration
    <3>1. pc \in {"get", "poll"} /\ pc' \in {"get", "poll"}
      BY <2>8 DEF Timeout, EndIteration, StartLoop
    <3> QED
      BY <3>1, StillLooping
  <2>9. CASE LeaveLoop \/ Interrupt
    <3>1. /\ pc \in {"get", "push", "poll"} /\ pc' = "finally"
          /\ todo' = {s \in Streams : buffers'[s] # None}
      BY <2>9 DEF LeaveLoop, Interrupt, StartLoop
    <3> QED
      BY <3>1, AllAhead
  <2> QED
    BY <1>2, <2>1, <2>2, <2>3, <2>4, <2>5, <2>6, <2>7, <2>8, <2>9
       DEF IngestNext, ThreadB, Terminated
<1>3. IInv /\ ReachInv /\ [IngestNext]_ingestVars => ReachInv' /\ [LeavesUnreached]_ingestVars
  BY <1>2
<1> QED
  BY <1>1, <1>3, IngestInvariant, PTL DEF IngestSpec

-----------------------------------------------------------------------------
(* Totals, counted element by element.                                      *)

\* One index contributes as many elements as it counts.
LEMMA ColumnSize ==
    ASSUME NEW x, NEW n \in Nat
    PROVE  IsFiniteSet({x} \X (1..n)) /\ Cardinality({x} \X (1..n)) = n
<1>1. IsFiniteSet(1..n) /\ Cardinality(1..n) = n
  <2>1. IsFiniteSet(1..n) /\ Cardinality(1..n) = IF 1 > n THEN 0 ELSE n - 1 + 1
    <3>1. 1 \in Int /\ n \in Int
      OBVIOUS
    <3> QED
      BY <3>1, FS_Interval, Zenon
  <2> QED
    BY <2>1
<1>2. IsFiniteSet({x}) /\ Cardinality({x}) = 1
  BY FS_Singleton
<1>3. IsFiniteSet({x} \X (1..n)) /\ Cardinality({x} \X (1..n)) = 1 * n
  <2>1. /\ IsFiniteSet({x} \X (1..n))
        /\ Cardinality({x} \X (1..n)) = Cardinality({x}) * Cardinality(1..n)
    BY <1>1, <1>2, FS_Product, Zenon
  <2> QED
    BY <1>1, <1>2, <2>1, Zenon
<1> QED
  BY <1>3

\* Finite sets without a common element.
LEMMA DisjointUnion ==
    ASSUME NEW S, NEW T, IsFiniteSet(S), IsFiniteSet(T), S \cap T = {}
    PROVE  IsFiniteSet(S \cup T) /\ Cardinality(S \cup T) = Cardinality(S) + Cardinality(T)
<1>1. /\ IsFiniteSet(S \cup T)
      /\ Cardinality(S \cup T) = Cardinality(S) + Cardinality(T) - Cardinality({})
  BY FS_Union
<1>2. Cardinality({}) = 0 /\ Cardinality(S) \in Nat /\ Cardinality(T) \in Nat
  BY FS_EmptySet, FS_CardinalityType
<1> QED
  BY <1>1, <1>2

\* A total grows by what is appended.
LEMMA CountedAdd ==
    ASSUME NEW f, NEW S, NEW x, x \notin S, f[x] \in Nat, IsFiniteSet(Counted(f, S))
    PROVE  /\ IsFiniteSet(Counted(f, S \cup {x}))
           /\ TotalOver(f, S \cup {x}) = TotalOver(f, S) + f[x]
<1> DEFINE N == {x} \X (1..f[x])
           C == Counted(f, S)
<1>1. Counted(f, S \cup {x}) = C \cup N
  BY DEF Counted
<1>2. C \cap N = {}
  BY DEF Counted
<1>3. IsFiniteSet(N) /\ Cardinality(N) = f[x]
  BY ColumnSize, Zenon
<1>4. IsFiniteSet(C)
  OBVIOUS
<1> HIDE DEF N, C
<1>5. IsFiniteSet(C \cup N) /\ Cardinality(C \cup N) = Cardinality(C) + Cardinality(N)
  BY <1>2, <1>3, <1>4, DisjointUnion, Zenon
<1> QED
  BY <1>1, <1>3, <1>5 DEF TotalOver, C

\* Nothing adds up to nothing.
LEMMA CountedNone ==
    ASSUME NEW f
    PROVE  IsFiniteSet(Counted(f, {})) /\ TotalOver(f, {}) = 0
BY FS_EmptySet DEF Counted, TotalOver

\* The samples of stream s in a list of units.
LEMMA SamplesInFacts ==
    /\ \A s : SamplesIn(<<>>, s) = 0
    /\ \A u : u.num_samples \in Nat => SamplesIn(<<u>>, u.stream) = u.num_samples
    /\ \A u, v : /\ u.num_samples \in Nat /\ v.num_samples \in Nat
                 /\ u.stream = v.stream
                 => SamplesIn(<<u, v>>, u.stream) = u.num_samples + v.num_samples
    /\ \A q, s : (\A i \in DOMAIN q : q[i].stream # s) => SamplesIn(q, s) = 0
<1>1. ASSUME NEW q, NEW s, \A i \in DOMAIN q : q[i].stream # s
      PROVE  SamplesIn(q, s) = 0
  <2>1. {i \in DOMAIN q : q[i].stream = s} = {}
    BY <1>1
  <2> QED
    BY <2>1, CountedNone DEF SamplesIn
<1>2. \A s : SamplesIn(<<>>, s) = 0
  <2>1. DOMAIN <<>> = {}
    OBVIOUS
  <2> QED
    BY <1>1, <2>1, Zenon
<1>3. ASSUME NEW u, u.num_samples \in Nat
      PROVE  SamplesIn(<<u>>, u.stream) = u.num_samples
  <2> DEFINE q == <<u>>
             f == [i \in DOMAIN q |-> q[i].num_samples]
  <2>1. {i \in DOMAIN q : q[i].stream = u.stream} = {} \cup {1} /\ f[1] = u.num_samples
    OBVIOUS
  <2> HIDE DEF f
  <2>2. TotalOver(f, {} \cup {1}) = TotalOver(f, {}) + f[1] /\ TotalOver(f, {}) = 0
    BY <1>3, <2>1, CountedNone, CountedAdd
  <2> QED
    BY <1>3, <2>1, <2>2 DEF SamplesIn, f
<1>4. ASSUME NEW u, NEW v, u.num_samples \in Nat, v.num_samples \in Nat, u.stream = v.stream
      PROVE  SamplesIn(<<u, v>>, u.stream) = u.num_samples + v.num_samples
  <2> DEFINE q == <<u, v>>
             f == [i \in DOMAIN q |-> q[i].num_samples]
  <2>1. /\ {i \in DOMAIN q : q[i].stream = u.stream} = {1} \cup {2}
        /\ f[1] = u.num_samples /\ f[2] = v.num_samples
    BY <1>4
  <2> HIDE DEF f
  <2>2. f[1] \in Nat /\ f[2] \in Nat /\ 1 \notin {} /\ 2 \notin {1} /\ {} \cup {1} = {1}
    BY <1>4, <2>1
  <2>3. IsFiniteSet(Counted(f, {})) /\ TotalOver(f, {}) = 0
    BY CountedNone
  <2>4. /\ IsFiniteSet(Counted(f, {} \cup {1}))
        /\ TotalOver(f, {} \cup {1}) = TotalOver(f, {}) + f[1]
    BY <2>2, <2>3, CountedAdd
  <2>5. IsFiniteSet(Counted(f, {1})) /\ TotalOver(f, {1}) = f[1]
    BY <2>2, <2>3, <2>4
  <2>6. TotalOver(f, {1} \cup {2}) = TotalOver(f, {1}) + f[2]
    <3> DEFINE S == {1}
    <3>1. 2 \notin S /\ IsFiniteSet(Counted(f, S)) /\ f[2] \in Nat
      BY <2>2, <2>5
    <3> HIDE DEF S
    <3>2. TotalOver(f, S \cup {2}) = TotalOver(f, S) + f[2]
      BY <3>1, CountedAdd
    <3> QED
      BY <3>2 DEF S
  <2>7. SamplesIn(q, u.stream) = TotalOver(f, {1} \cup {2})
    BY <2>1, Zenon DEF SamplesIn, f
  <2>8. SamplesIn(q, u.stream) = f[1] + f[2]
    BY <2>5, <2>6, <2>7, Zenon
  <2> QED
    BY <2>1, <2>8
<1> QED
  BY <1>1, <1>2, <1>3, <1>4

-----------------------------------------------------------------------------
(* The router fed with any records.                                         *)

ChunkLengths(chunks) == [i \in DOMAIN chunks |-> chunks[i].len]

\* A list of chunks that converts to exactly num_samples samples.
Converts(b) ==
    /\ b.num_samples > 0
    /\ ConvertsTo(b.component_dtype, b.is_complex, b.bytes_per_sample)
    /\ ChunkBytes(b.chunks) = b.num_samples * b.bytes_per_sample

\* A window, full or not, that flush() can convert.
WholeWindow(b) ==
    /\ b.context # None /\ ~b.inert
    /\ b.bytes_per_sample \in Nat \ {0}
    /\ IsFiniteSet(Counted(ChunkLengths(b.chunks), DOMAIN b.chunks))
    /\ Converts(b)

\* A buffer between two steps, whatever was pushed.
SoundBuffer(b) ==
    /\ b \in Buffers
    /\ b.context # None => (b.inert <=> Inert(b.context))
    /\ ~IsOpen(b) => b.num_samples = 0
    /\ IsOpen(b) => WholeWindow(b) /\ ~IsFull(b)

RouterInv ==
    /\ buffers \in [Streams -> Buffers \cup {None}]
    /\ \A s \in Streams : buffers[s] # None => SoundBuffer(buffers[s])
    /\ UnitsConvertible

\* What happens to the window of a buffer that becomes another one.
LeavesWhole(s, old, new) ==
    \/ ChunksExtend(new.chunks, old.chunks) /\ out' = <<>>
    \/ /\ out' # <<>> /\ Head(out').stream = s
       /\ ChunksExtend(Head(out').chunks, old.chunks)
       /\ Len(new.chunks) <= 1
       /\ raised' => ~IsOpen(new)

\* The common shape of every step on one buffer.
Moves(s, new) ==
    /\ buffers' = [buffers EXCEPT ![s] = new]
    /\ SoundBuffer(new)
    /\ \A i \in DOMAIN out' : out'[i].stream = s /\ Converts(out'[i])
    /\ HeldSamples(s) > 0 => LeavesWhole(s, buffers[s], new)

\* A sequence extends itself, and so does what is appended to it.
LEMMA ChunksExtendFacts ==
    ASSUME NEW q \in Seq(Chunks), NEW c \in Chunks
    PROVE  ChunksExtend(q, q) /\ ChunksExtend(Append(q, c), q)
<1>1. Len(q) \in Nat /\ Len(Append(q, c)) = Len(q) + 1 /\ Append(q, c) \in Seq(Chunks)
  OBVIOUS
<1>2. SubSeq(q, 1, Len(q)) = q
  BY <1>1
<1>3. SubSeq(Append(q, c), 1, Len(q)) = q
  BY <1>1
<1> QED
  BY <1>1, <1>2, <1>3 DEF ChunksExtend

\* A window is emitted as it is.
LEMMA UnitSame ==
    ASSUME NEW s, NEW b
    PROVE  /\ Unit(s, b).stream = s
           /\ Unit(s, b).chunks = b.chunks
           /\ Unit(s, b).num_samples = b.num_samples
           /\ Converts(b) => Converts(Unit(s, b))
BY DEF Unit, Converts

\* A new buffer is empty and sound.
LEMMA NewBufferSound == SoundBuffer(NewBuffer) /\ NewBuffer.num_samples = 0
BY NewBufferFacts DEF SoundBuffer, NewBuffer

\* So is a buffer that has been flushed, and its context is kept.
LEMMA ResetSound ==
    ASSUME NEW b \in Buffers, b.context # None => (b.inert <=> Inert(b.context))
    PROVE  /\ SoundBuffer(Reset(b)) /\ ~IsOpen(Reset(b))
           /\ Reset(b).chunks = <<>> /\ Reset(b).num_samples = 0
           /\ Reset(b).context = b.context /\ Reset(b).inert = b.inert
<1> DEFINE a == Reset(b)
<1>1. /\ a.context = b.context /\ a.inert = b.inert
      /\ a.chunks = <<>> /\ a.num_samples = 0
  BY DEF Reset, NewBuffer
<1>2. a \in Buffers
  <2>1. b.context \in Contexts \cup {None} /\ b.inert \in BOOLEAN /\ b.dropped \in Nat
    BY DEF Buffers
  <2>2. ASSUME NEW n \in Buffers
        PROVE  [n EXCEPT !.context = b.context, !.inert = b.inert, !.dropped = b.dropped]
                 \in Buffers
    BY <2>1 DEF Buffers
  <2> QED
    BY <2>2, NewBufferFacts DEF Reset
<1> HIDE DEF a
<1>3. ~IsOpen(a)
  BY <1>1 DEF IsOpen
<1>4. a.context # None => (a.inert <=> Inert(a.context))
  BY <1>1
<1>5. SoundBuffer(a)
  BY <1>1, <1>2, <1>3, <1>4 DEF SoundBuffer
<1> QED
  BY <1>1, <1>3, <1>5 DEF a

\* A context that does not close the window leaves it sound: an unsupported
\* context never labels a window.
LEMMA AdoptSound ==
    ASSUME NEW b, SoundBuffer(b), NEW ctx \in Contexts,
           ~(IsOpen(b) /\ Differs(b.context, ctx))
    PROVE  /\ SoundBuffer(Adopt(b, ctx))
           /\ Adopt(b, ctx).chunks = b.chunks
           /\ Adopt(b, ctx).num_samples = b.num_samples
<1> DEFINE a == Adopt(b, ctx)
<1>1. b \in Buffers
  BY DEF SoundBuffer
<1>2. /\ a \in Buffers
      /\ a.context = ctx /\ a.inert = Inert(ctx)
      /\ a.chunks = b.chunks /\ a.num_samples = b.num_samples
      /\ a.component_dtype = b.component_dtype /\ a.is_complex = b.is_complex
      /\ a.bytes_per_sample = b.bytes_per_sample
  BY <1>1 DEF Adopt, Buffers, Inert
<1>3. IsOpen(a) <=> IsOpen(b)
  BY <1>2 DEF IsOpen
<1> HIDE DEF a
<1>4. IsOpen(b) => WholeWindow(a) /\ ~IsFull(a)
  <2> SUFFICES ASSUME IsOpen(b) PROVE WholeWindow(a) /\ ~IsFull(a)
    OBVIOUS
  <2>1. /\ WholeWindow(b) /\ ~IsFull(b)
        /\ b.context \in Contexts /\ ~Inert(b.context)
        /\ FlushId(b.context) = FlushId(ctx)
    BY <1>1 DEF SoundBuffer, Differs, WholeWindow, Buffers
  <2>2. ctx.component_dtype = b.context.component_dtype
    BY <2>1 DEF FlushId
  <2>3. ctx.component_dtype # None
    BY <2>1, <2>2 DEF Inert
  <2>4. ~Inert(ctx)
    BY <2>3, ContextFacts DEF Inert
  <2>5. a.context # None /\ ~a.inert
    BY <1>2, <2>4, NoContextAssumption
  <2> QED
    BY <1>2, <2>1, <2>5 DEF WholeWindow, Converts, IsFull
<1>5. a.context # None => (a.inert <=> Inert(a.context))
  BY <1>2
<1>6. ~IsOpen(a) => a.num_samples = 0
  BY <1>2, <1>3 DEF SoundBuffer
<1> QED
  BY <1>2, <1>3, <1>4, <1>5, <1>6 DEF SoundBuffer, a

\* The parts of a data record that the early returns of _push_data let through.
LEMMA UsableFacts ==
    ASSUME NEW r \in AnyRecords, r.type = "data"
    PROVE  /\ r.stream \in Streams /\ r.seq \in Seqs /\ r.len \in Nat
           /\ r.gap_before \in BOOLEAN
           /\ [len |-> r.len, under |-> r.under] \in Chunks
           /\ Usable(r) => /\ r.dtype \in Dtypes
                           /\ r.bytes_per_sample \in Nat \ {0}
                           /\ r.len % r.bytes_per_sample = 0
BY DEF AnyRecords, Chunks, Usable

\* Whole samples: the bytes that are appended are the samples that are counted.
LEMMA WholeQuotient ==
    ASSUME NEW len \in Nat, NEW n \in Nat \ {0}, len % n = 0, NEW k \in Nat
    PROVE  /\ len \div n \in Nat
           /\ len # 0 => len \div n >= 1
           /\ k * n + len = (k + len \div n) * n
<1> DEFINE q == len \div n
<1>1. q \in Nat /\ len = n * q
  OBVIOUS
<1> HIDE DEF q
<1>2. len # 0 => q # 0
  BY <1>1
<1>3. (k + q) * n = k * n + n * q
  BY <1>1
<1>4. n * q \in Nat /\ k * n \in Nat
  BY <1>1
<1> QED
  BY <1>1, <1>2, <1>3, <1>4 DEF q

\* One more chunk adds its own bytes.
LEMMA ChunkAdded ==
    ASSUME NEW q \in Seq(Chunks), NEW c \in Chunks,
           IsFiniteSet(Counted(ChunkLengths(q), DOMAIN q))
    PROVE  /\ IsFiniteSet(Counted(ChunkLengths(Append(q, c)), DOMAIN Append(q, c)))
           /\ ChunkBytes(Append(q, c)) = ChunkBytes(q) + c.len
<1>1. PICK f, g, D, k :
        /\ f = ChunkLengths(q) /\ g = ChunkLengths(Append(q, c))
        /\ D = DOMAIN q /\ k = Len(q) + 1
  OBVIOUS
<1>2. k \notin D /\ DOMAIN Append(q, c) = D \cup {k}
  BY <1>1
<1>3. Counted(g, D) = Counted(f, D)
  <2>1. \A i \in D : g[i] = f[i]
    BY <1>1 DEF ChunkLengths
  <2> QED
    BY <2>1 DEF Counted
<1>4. g[k] = c.len /\ g[k] \in Nat
  BY <1>1 DEF ChunkLengths, Chunks
<1>5. IsFiniteSet(Counted(g, D)) /\ TotalOver(g, D) = TotalOver(f, D)
  BY <1>1, <1>3 DEF TotalOver
<1>6. /\ IsFiniteSet(Counted(g, D \cup {k}))
      /\ TotalOver(g, D \cup {k}) = TotalOver(g, D) + g[k]
  BY <1>2, <1>4, <1>5, CountedAdd
<1>7. /\ ChunkBytes(q) = TotalOver(f, D)
      /\ ChunkBytes(Append(q, c)) = TotalOver(g, D \cup {k})
  BY <1>1, <1>2, Zenon DEF ChunkBytes, ChunkLengths
<1> QED
  BY <1>1, <1>2, <1>4, <1>5, <1>6, <1>7

\* No chunks, no bytes.
LEMMA NoChunks ==
    /\ IsFiniteSet(Counted(ChunkLengths(<<>>), DOMAIN <<>>))
    /\ ChunkBytes(<<>>) = 0
<1>1. DOMAIN <<>> = {}
  OBVIOUS
<1> QED
  BY <1>1, CountedNone DEF ChunkBytes

\* What is appended to a window converts with it.
LEMMA AppendSound ==
    ASSUME NEW b, SoundBuffer(b), NEW r \in AnyRecords, r.type = "data",
           Usable(r), ~NoUsableContext(b), r.len # 0,
           IsOpen(b) => ~Reinterprets(b, r),
           IsOpen(b) \/ Latchable(r)
    PROVE  LET a == AppendChunk(b, r) IN
             /\ a \in Buffers /\ IsOpen(a) /\ WholeWindow(a)
             /\ a.context = b.context /\ a.inert = b.inert
             /\ a.chunks = Append(b.chunks, [len |-> r.len, under |-> r.under])
             /\ a.num_samples = b.num_samples + r.len \div r.bytes_per_sample
<1> DEFINE l == Latch(b, r)
           a == AppendChunk(b, r)
           chunk == [len |-> r.len, under |-> r.under]
           n == r.len \div r.bytes_per_sample
<1>1. /\ r.dtype \in Dtypes /\ r.seq \in Seqs /\ r.len \in Nat
      /\ r.bytes_per_sample \in Nat \ {0} /\ r.len % r.bytes_per_sample = 0
      /\ Truth(r.is_complex) \in BOOLEAN
      /\ chunk \in Chunks /\ chunk.len = r.len
  BY UsableFacts DEF Truth
<1>2. /\ b \in Buffers /\ b.num_samples \in Nat /\ b.chunks \in Seq(Chunks)
      /\ b.packets \in Seq(Seqs) /\ b.context # None /\ ~b.inert
  BY DEF SoundBuffer, Buffers, NoUsableContext
<1>3. /\ l \in Buffers
      /\ l.context = b.context /\ l.inert = b.inert
      /\ l.chunks = b.chunks /\ l.packets = b.packets /\ l.num_samples = b.num_samples
      /\ l.component_dtype = r.dtype /\ l.is_complex = Truth(r.is_complex)
      /\ l.bytes_per_sample = r.bytes_per_sample
  <2>1. CASE IsOpen(b)
    BY <1>2, <2>1 DEF Latch, Reinterprets
  <2>2. CASE ~IsOpen(b)
    <3> DEFINE t == Truth(r.is_complex)
    <3>1. l = [b EXCEPT !.component_dtype = r.dtype, !.is_complex = t,
                        !.bytes_per_sample = r.bytes_per_sample, !.start = r.seq]
      BY <2>2, Zenon DEF Latch
    <3>2. t \in BOOLEAN
      BY <1>1
    <3> HIDE DEF t, l
    <3>3. l \in Buffers /\ l.is_complex = t
      BY <1>1, <1>2, <3>1, <3>2 DEF Buffers
    <3>4. /\ l.context = b.context /\ l.inert = b.inert
          /\ l.chunks = b.chunks /\ l.packets = b.packets /\ l.num_samples = b.num_samples
          /\ l.component_dtype = r.dtype
          /\ l.bytes_per_sample = r.bytes_per_sample
      BY <1>2, <3>1 DEF Buffers
    <3> QED
      BY <3>3, <3>4 DEF t
  <2> QED
    BY <2>1, <2>2
<1>4. /\ n \in Nat /\ n >= 1
      /\ b.num_samples * r.bytes_per_sample + r.len
           = (b.num_samples + n) * r.bytes_per_sample
  BY <1>1, <1>2, WholeQuotient
<1> HIDE DEF l, n
<1>5. /\ a \in Buffers
      /\ a.context = b.context /\ a.inert = b.inert
      /\ a.chunks = Append(b.chunks, chunk)
      /\ a.num_samples = b.num_samples + n
      /\ a.component_dtype = r.dtype /\ a.is_complex = Truth(r.is_complex)
      /\ a.bytes_per_sample = r.bytes_per_sample
  <2>1. a = [l EXCEPT !.chunks = Append(l.chunks, chunk),
                      !.packets = Append(l.packets, r.seq),
                      !.num_samples = l.num_samples + n]
    BY DEF AppendChunk, l, n
  <2> HIDE DEF a, chunk
  <2>2. /\ Append(l.chunks, chunk) \in Seq(Chunks)
        /\ Append(l.packets, r.seq) \in Seq(Seqs)
        /\ l.num_samples + n \in Nat
    BY <1>1, <1>2, <1>3, <1>4
  <2>3. a \in Buffers
    BY <1>3, <2>1, <2>2 DEF Buffers
  <2> QED
    BY <1>3, <2>1, <2>3 DEF Buffers
<1> HIDE DEF a, chunk
<1>6. /\ IsFiniteSet(Counted(ChunkLengths(b.chunks), DOMAIN b.chunks))
      /\ ChunkBytes(b.chunks) = b.num_samples * r.bytes_per_sample
  <2>1. CASE IsOpen(b)
    BY <2>1 DEF SoundBuffer, WholeWindow, Converts, Reinterprets
  <2>2. CASE ~IsOpen(b)
    <3>1. b.chunks = <<>> /\ b.num_samples = 0
      BY <2>2 DEF SoundBuffer, IsOpen
    <3>2. 0 * r.bytes_per_sample = 0
      BY <1>1
    <3> QED
      BY <3>1, <3>2, NoChunks
  <2> QED
    BY <2>1, <2>2
<1>7. /\ IsFiniteSet(Counted(ChunkLengths(a.chunks), DOMAIN a.chunks))
      /\ ChunkBytes(a.chunks) = ChunkBytes(b.chunks) + r.len
  BY <1>1, <1>2, <1>5, <1>6, ChunkAdded
<1>8. ChunkBytes(a.chunks) = a.num_samples * a.bytes_per_sample
  BY <1>4, <1>5, <1>6, <1>7
<1>9. ConvertsTo(a.component_dtype, a.is_complex, a.bytes_per_sample)
  <2>1. CASE IsOpen(b)
    BY <1>5, <2>1 DEF SoundBuffer, WholeWindow, Converts, Reinterprets
  <2>2. CASE Latchable(r)
    BY <1>5, <2>2 DEF Latchable, ConvertsTo
  <2> QED
    BY <2>1, <2>2
<1>10. a.num_samples > 0
  BY <1>2, <1>4, <1>5
<1>11. IsOpen(a)
  BY <1>1, <1>2, <1>5 DEF IsOpen
<1>12. WholeWindow(a)
  BY <1>1, <1>2, <1>5, <1>7, <1>8, <1>9, <1>10 DEF WholeWindow, Converts
<1> QED
  BY <1>5, <1>11, <1>12 DEF a, chunk, n

\* A skipped or a dropped record leaves the window as it is.
LEMMA SkipSound ==
    ASSUME NEW b, SoundBuffer(b), NEW r \in AnyRecords, r.type = "data"
    PROVE  /\ SoundBuffer(SkipChunk(b, r))
           /\ SkipChunk(b, r).chunks = b.chunks
           /\ SkipChunk(b, r).num_samples = b.num_samples
           /\ SoundBuffer(CountDrop(b))
           /\ CountDrop(b).chunks = b.chunks
           /\ CountDrop(b).num_samples = b.num_samples
<1>1. b \in Buffers /\ r.seq \in Seqs
  BY UsableFacts DEF SoundBuffer
<1>2. ASSUME NEW a \in Buffers,
             a.context = b.context, a.inert = b.inert,
             a.chunks = b.chunks, a.num_samples = b.num_samples,
             a.component_dtype = b.component_dtype, a.is_complex = b.is_complex,
             a.bytes_per_sample = b.bytes_per_sample
      PROVE  SoundBuffer(a)
  BY <1>2 DEF SoundBuffer, WholeWindow, Converts, IsFull, IsOpen
<1>3. SoundBuffer(CountDrop(b)) /\ CountDrop(b).chunks = b.chunks
      /\ CountDrop(b).num_samples = b.num_samples
  <2> DEFINE a == CountDrop(b)
  <2>1. /\ a \in Buffers
        /\ a.context = b.context /\ a.inert = b.inert
        /\ a.chunks = b.chunks /\ a.num_samples = b.num_samples
        /\ a.component_dtype = b.component_dtype /\ a.is_complex = b.is_complex
        /\ a.bytes_per_sample = b.bytes_per_sample
    <3>1. a = [b EXCEPT !.dropped = b.dropped + 1]
      BY DEF CountDrop
    <3>2. b.dropped + 1 \in Nat
      BY <1>1 DEF Buffers
    <3> HIDE DEF a
    <3> QED
      BY <1>1, <3>1, <3>2 DEF Buffers
  <2> HIDE DEF a
  <2> QED
    BY <1>2, <2>1 DEF a
<1>4. ASSUME IsOpen(b)
      PROVE  /\ SoundBuffer(SkipChunk(b, r)) /\ SkipChunk(b, r).chunks = b.chunks
             /\ SkipChunk(b, r).num_samples = b.num_samples
  <2> DEFINE a == SkipChunk(b, r)
  <2>1. a = [b EXCEPT !.packets = Append(b.packets, r.seq)]
    BY <1>4 DEF SkipChunk
  <2>2. Append(b.packets, r.seq) \in Seq(Seqs)
    BY <1>1 DEF Buffers
  <2> HIDE DEF a
  <2>3. /\ a \in Buffers
        /\ a.context = b.context /\ a.inert = b.inert
        /\ a.chunks = b.chunks /\ a.num_samples = b.num_samples
        /\ a.component_dtype = b.component_dtype /\ a.is_complex = b.is_complex
        /\ a.bytes_per_sample = b.bytes_per_sample
    BY <1>1, <2>1, <2>2 DEF Buffers
  <2> QED
    BY <1>2, <2>3 DEF a
<1>5. ~IsOpen(b) => SkipChunk(b, r) = b
  BY DEF SkipChunk
<1> QED
  BY <1>3, <1>4, <1>5

\* The buffer that a record of stream s meets.
LEMMA OldBuffer ==
    ASSUME RouterInv, NEW s \in Streams
    PROVE  /\ SoundBuffer(BufferOf(s))
           /\ BufferOf(s).chunks \in Seq(Chunks)
           /\ buffers[s] # None => BufferOf(s) = buffers[s]
           /\ HeldSamples(s) > 0 => BufferOf(s) = buffers[s] /\ IsOpen(BufferOf(s))
<1>1. CASE buffers[s] = None
  BY <1>1, NewBufferSound DEF BufferOf, HeldSamples, SoundBuffer, Buffers
<1>2. CASE buffers[s] # None
  BY <1>2 DEF BufferOf, HeldSamples, RouterInv, SoundBuffer, Buffers
<1> QED
  BY <1>1, <1>2

\* What is the window or the window with one more chunk extends the window.
LEMMA ExtendsOld ==
    ASSUME RouterInv, NEW s \in Streams, NEW q,
           q = BufferOf(s).chunks \/ \E c \in Chunks : q = Append(BufferOf(s).chunks, c)
    PROVE  ChunksExtend(q, BufferOf(s).chunks)
<1>1. PICK old \in Seq(Chunks) : old = BufferOf(s).chunks
  BY OldBuffer
<1>2. ASSUME NEW c \in Chunks
      PROVE  ChunksExtend(old, old) /\ ChunksExtend(Append(old, c), old)
  BY ChunksExtendFacts
<1>3. ChunksExtend(old, old)
  <2>1. SubSeq(old, 1, Len(old)) = old /\ Len(old) \in Nat
    OBVIOUS
  <2> QED
    BY <2>1 DEF ChunksExtend
<1>4. q = old \/ \E c \in Chunks : q = Append(old, c)
  BY <1>1
<1>5. ChunksExtend(q, old)
  BY <1>2, <1>3, <1>4
<1> QED
  BY <1>1, <1>5

\* Emitting nothing and keeping the chunks.
LEMMA QuietMoves ==
    ASSUME RouterInv, NEW s \in Streams, NEW new, SoundBuffer(new),
           buffers' = [buffers EXCEPT ![s] = new],
           \/ new.chunks = BufferOf(s).chunks
           \/ \E c \in Chunks : new.chunks = Append(BufferOf(s).chunks, c),
           out' = <<>>
    PROVE  Moves(s, new)
<1>1. ChunksExtend(new.chunks, BufferOf(s).chunks)
  BY ExtendsOld
<1>2. HeldSamples(s) > 0 => LeavesWhole(s, buffers[s], new)
  BY <1>1, OldBuffer DEF LeavesWhole
<1>3. \A i \in DOMAIN out' : out'[i].stream = s /\ Converts(out'[i])
  OBVIOUS
<1> QED
  BY <1>2, <1>3 DEF Moves

\* Emitting the open window, perhaps extended, and keeping at most one chunk.
LEMMA EmitMoves ==
    ASSUME RouterInv, NEW s \in Streams, NEW new, SoundBuffer(new),
           buffers' = [buffers EXCEPT ![s] = new],
           NEW u, u.stream = s, Converts(u),
           \/ u.chunks = BufferOf(s).chunks
           \/ \E c \in Chunks : u.chunks = Append(BufferOf(s).chunks, c),
           \/ out' = <<u>>
           \/ \E v : v.stream = s /\ Converts(v) /\ out' = <<u, v>>,
           Len(new.chunks) <= 1,
           raised' => ~IsOpen(new)
    PROVE  Moves(s, new)
<1>1. out' # <<>> /\ Head(out') = u
  OBVIOUS
<1>2. \A i \in DOMAIN out' : out'[i].stream = s /\ Converts(out'[i])
  OBVIOUS
<1>3. ChunksExtend(u.chunks, BufferOf(s).chunks)
  BY ExtendsOld
<1>4. HeldSamples(s) > 0 => LeavesWhole(s, buffers[s], new)
  <2>1. HeldSamples(s) > 0 => BufferOf(s) = buffers[s]
    BY OldBuffer
  <2> QED
    BY <1>1, <1>3, <2>1 DEF LeavesWhole
<1> QED
  BY <1>2, <1>4 DEF Moves

\* _push_context: the window leaves before the context is adopted.
LEMMA ContextMoves ==
    ASSUME RouterInv, NEW r \in AnyRecords, PushContext(r)
    PROVE  r.stream \in Streams /\ \E new : Moves(r.stream, new)
<1> DEFINE s == r.stream
           ctx == r.context
           b == BufferOf(s)
<1>1. s \in Streams /\ ctx \in Contexts
  BY DEF PushContext, AnyRecords
<1>2. SoundBuffer(b) /\ b \in Buffers /\ (b.context # None => (b.inert <=> Inert(b.context)))
  BY <1>1, OldBuffer DEF SoundBuffer
<1>3. CASE ~(IsOpen(b) /\ Differs(b.context, ctx))
  <2> DEFINE new == Adopt(b, ctx)
  <2>1. buffers' = [buffers EXCEPT ![s] = new] /\ out' = <<>>
    BY <1>3 DEF PushContext, SetBuffer, RouterQuiet
  <2>2. SoundBuffer(new) /\ new.chunks = b.chunks
    BY <1>1, <1>2, <1>3, AdoptSound
  <2> HIDE DEF new
  <2>3. Moves(s, new)
    BY <1>1, <2>1, <2>2, QuietMoves
  <2> QED
    BY <1>1, <2>3
<1>4. CASE IsOpen(b) /\ Differs(b.context, ctx)
  <2> DEFINE closed == Reset(b)
             new == IF raised' THEN closed ELSE Adopt(closed, ctx)
             u == Unit(s, b)
  <2>1. buffers' = [buffers EXCEPT ![s] = new] /\ out' = <<u>>
    BY <1>4 DEF PushContext, SetBuffer
  <2>2. u.stream = s /\ u.chunks = b.chunks /\ Converts(u)
    BY <1>2, <1>4, UnitSame DEF SoundBuffer, WholeWindow
  <2>3. SoundBuffer(closed) /\ ~IsOpen(closed) /\ closed.chunks = <<>>
    BY <1>2, ResetSound
  <2> HIDE DEF closed, u
  <2>4. SoundBuffer(Adopt(closed, ctx)) /\ Adopt(closed, ctx).chunks = <<>>
    BY <1>1, <2>3, AdoptSound
  <2>5. SoundBuffer(new) /\ Len(new.chunks) <= 1 /\ (raised' => ~IsOpen(new))
    BY <2>3, <2>4
  <2> HIDE DEF new
  <2>6. Moves(s, new)
    BY <1>1, <2>1, <2>2, <2>5, EmitMoves
  <2> QED
    BY <1>1, <2>6
<1> QED
  BY <1>3, <1>4

\* flush() of one buffer.
LEMMA FlushMoves ==
    ASSUME RouterInv, NEW s \in Streams, Flush(s)
    PROVE  \E new : Moves(s, new)
<1> DEFINE b == buffers[s]
<1>1. /\ b # None /\ b = BufferOf(s) /\ SoundBuffer(b) /\ b \in Buffers
      /\ b.context # None => (b.inert <=> Inert(b.context))
  BY OldBuffer DEF Flush, SoundBuffer
<1>2. CASE ~IsOpen(b)
  <2>1. buffers' = [buffers EXCEPT ![s] = b] /\ out' = <<>>
    BY <1>2 DEF Flush, RouterQuiet, RouterInv
  <2>2. Moves(s, b)
    BY <1>1, <2>1, QuietMoves
  <2> QED
    BY <2>2
<1>3. CASE IsOpen(b)
  <2> DEFINE new == Reset(b)
             u == Unit(s, b)
  <2>1. buffers' = [buffers EXCEPT ![s] = new] /\ out' = <<u>>
    BY <1>3 DEF Flush, SetBuffer
  <2>2. u.stream = s /\ u.chunks = b.chunks /\ Converts(u)
    BY <1>1, <1>3, UnitSame DEF SoundBuffer, WholeWindow
  <2>3. SoundBuffer(new) /\ ~IsOpen(new) /\ Len(new.chunks) <= 1
    BY <1>1, ResetSound
  <2> HIDE DEF new, u
  <2>4. Moves(s, new)
    BY <1>1, <2>1, <2>2, <2>3, EmitMoves
  <2> QED
    BY <2>4
<1> QED
  BY <1>2, <1>3

\* Polling the age trigger, and time.
LEMMA AgeMoves ==
    ASSUME RouterInv, NEW s \in Streams, MaybeFlushOnAge(s) \/ WindowAges(s)
    PROVE  \E new : Moves(s, new)
<1> DEFINE b == buffers[s]
<1>1. CASE Flush(s)
  BY <1>1, FlushMoves
<1>2. CASE MaybeFlushOnAge(s) /\ ~Flush(s)
  <2>1. b # None /\ buffers' = [buffers EXCEPT ![s] = b] /\ out' = <<>>
    BY <1>2 DEF MaybeFlushOnAge, RouterQuiet, RouterInv
  <2>2. b = BufferOf(s) /\ SoundBuffer(b)
    BY <2>1, OldBuffer
  <2>3. Moves(s, b)
    BY <2>1, <2>2, QuietMoves
  <2> QED
    BY <2>3
<1>3. CASE WindowAges(s)
  <2> DEFINE new == [b EXCEPT !.overdue = TRUE]
  <2>1. b # None /\ buffers' = [buffers EXCEPT ![s] = new] /\ out' = <<>>
    BY <1>3 DEF WindowAges, SetBuffer, RouterQuiet
  <2>2. b = BufferOf(s) /\ SoundBuffer(b) /\ b \in Buffers
    BY <2>1, OldBuffer DEF SoundBuffer
  <2>3. /\ new \in Buffers
        /\ new.context = b.context /\ new.inert = b.inert
        /\ new.chunks = b.chunks /\ new.num_samples = b.num_samples
        /\ new.component_dtype = b.component_dtype /\ new.is_complex = b.is_complex
        /\ new.bytes_per_sample = b.bytes_per_sample
    BY <2>2 DEF Buffers
  <2> HIDE DEF new
  <2>4. SoundBuffer(new)
    BY <2>2, <2>3 DEF SoundBuffer, WholeWindow, Converts, IsFull, IsOpen
  <2>5. Moves(s, new)
    BY <2>1, <2>2, <2>3, <2>4, QuietMoves
  <2> QED
    BY <2>5
<1> QED
  BY <1>1, <1>2, <1>3

\* A refused record only counts as dropped.
LEMMA RefuseMoves ==
    ASSUME RouterInv, NEW r \in AnyRecords, RefuseData(r)
    PROVE  r.stream \in Streams /\ \E new : Moves(r.stream, new)
<1> DEFINE s == r.stream
           new == CountDrop(BufferOf(s))
<1>1. r.type = "data" /\ s \in Streams
  BY UsableFacts DEF RefuseData
<1>2. SoundBuffer(BufferOf(s))
  BY <1>1, OldBuffer
<1>3. SoundBuffer(new) /\ new.chunks = BufferOf(s).chunks
  BY <1>1, <1>2, SkipSound
<1>4. buffers' = [buffers EXCEPT ![s] = new] /\ out' = <<>>
  BY DEF RefuseData, SetBuffer, RouterQuiet
<1> HIDE DEF new
<1>5. Moves(s, new)
  BY <1>1, <1>3, <1>4, QuietMoves
<1> QED
  BY <1>1, <1>5

\* The buffer that a data record is appended to, skipped in or refused by: the
\* old one, or, when a gap or another interpretation closed the window, empty.
LEMMA AfterCloseFacts ==
    ASSUME RouterInv, NEW r \in AnyRecords, r.type = "data",
           ~NoUsableContext(BufferOf(r.stream))
    PROVE  LET s   == r.stream
               old == BufferOf(s)
               mid == AfterClose(old, r)
               u   == Unit(s, old)
           IN  /\ s \in Streams /\ SoundBuffer(mid) /\ ~NoUsableContext(mid)
               /\ IsOpen(mid) => ~Reinterprets(mid, r)
               /\ ClosesFirst(old, r) =>
                    /\ ClosedUnits(s, old, r) = <<u>>
                    /\ u.stream = s /\ u.chunks = old.chunks /\ Converts(u)
                    /\ mid = Reset(old) /\ mid.chunks = <<>> /\ ~IsOpen(mid)
               /\ ~ClosesFirst(old, r) => mid = old /\ ClosedUnits(s, old, r) = <<>>
<1> DEFINE s == r.stream
           old == BufferOf(s)
           mid == AfterClose(old, r)
           u == Unit(s, old)
<1>1. s \in Streams
  BY UsableFacts
<1>2. /\ SoundBuffer(old) /\ old \in Buffers
      /\ old.context # None => (old.inert <=> Inert(old.context))
  BY <1>1, OldBuffer DEF SoundBuffer
<1>3. /\ SoundBuffer(Reset(old)) /\ ~IsOpen(Reset(old)) /\ Reset(old).chunks = <<>>
      /\ Reset(old).context = old.context /\ Reset(old).inert = old.inert
  BY <1>2, ResetSound
<1>4. CASE ClosesFirst(old, r)
  <2>1. mid = Reset(old) /\ ClosedUnits(s, old, r) = <<u>>
    BY <1>4 DEF AfterClose, ClosedUnits
  <2>2. Converts(old)
    BY <1>2, <1>4 DEF ClosesFirst, SoundBuffer, WholeWindow
  <2>3. u.stream = s /\ u.chunks = old.chunks /\ Converts(u)
    BY <2>2, UnitSame
  <2>4. ~NoUsableContext(Reset(old))
    BY <1>3 DEF NoUsableContext
  <2> HIDE DEF mid, old, u
  <2> QED
    BY <1>1, <1>3, <1>4, <2>1, <2>3, <2>4 DEF mid, old, u
<1>5. CASE ~ClosesFirst(old, r)
  <2>1. mid = old /\ ClosedUnits(s, old, r) = <<>>
    BY <1>5 DEF AfterClose, ClosedUnits
  <2>2. IsOpen(old) => ~Reinterprets(old, r)
    BY <1>5 DEF ClosesFirst
  <2> HIDE DEF mid, old, u
  <2> QED
    BY <1>1, <1>2, <1>5, <2>1, <2>2 DEF mid, old, u
<1> QED
  BY <1>4, <1>5

\* One and two units in a list.
LEMMA AppendUnits ==
    ASSUME NEW u, NEW v
    PROVE  Append(<<>>, v) = <<v>> /\ Append(<<u>>, v) = <<u, v>>
<1> DEFINE T == {u, v}
<1>1. u \in T /\ v \in T
  OBVIOUS
<1> HIDE DEF T
<1>2. ASSUME NEW x \in T, NEW y \in T
      PROVE  Append(<<>>, y) = <<y>> /\ Append(<<x>>, y) = <<x, y>>
  <2>1. <<>> \in Seq(T) /\ <<x>> \in Seq(T)
    OBVIOUS
  <2>2. Len(Append(<<>>, y)) = 1 /\ Append(<<>>, y)[1] = y
    BY <2>1
  <2>3. Append(<<>>, y) = <<y>>
    OBVIOUS
  <2>4. /\ Append(<<x>>, y) \in Seq(T) /\ Len(Append(<<x>>, y)) = 2
        /\ Append(<<x>>, y)[1] = x /\ Append(<<x>>, y)[2] = y
    BY <2>1
  <2>5. /\ <<x, y>> \in Seq(T) /\ Len(<<x, y>>) = 2
        /\ <<x, y>>[1] = x /\ <<x, y>>[2] = y
    OBVIOUS
  <2>6. ASSUME NEW p \in Seq(T), NEW q \in Seq(T), Len(p) = 2, Len(q) = 2,
               p[1] = q[1], p[2] = q[2]
        PROVE  p = q
    <3>1. p \in [1..2 -> T] /\ q \in [1..2 -> T]
      BY <2>6
    <3>2. \A i \in 1..2 : i = 1 \/ i = 2
      OBVIOUS
    <3> QED
      BY <2>6, <3>1, <3>2
  <2>7. Append(<<x>>, y) = <<x, y>>
    BY <2>4, <2>5, <2>6, Zenon
  <2> QED
    BY <2>3, <2>7
<1> QED
  BY <1>1, <1>2

\* _push_data: at most the old window and the one it fills are emitted.
LEMMA DataMoves ==
    ASSUME RouterInv, NEW r \in AnyRecords, PushData(r)
    PROVE  r.stream \in Streams /\ \E new : Moves(r.stream, new)
<1>1. PICK s, old, mid, u :
        /\ s = r.stream /\ old = BufferOf(s) /\ mid = AfterClose(old, r) /\ u = Unit(s, old)
  OBVIOUS
<1>2. r.type = "data" /\ Usable(r) /\ ~NoUsableContext(old)
  BY <1>1 DEF PushData
<1>3. /\ s \in Streams /\ SoundBuffer(mid) /\ ~NoUsableContext(mid)
      /\ IsOpen(mid) => ~Reinterprets(mid, r)
      /\ ClosesFirst(old, r) =>
           /\ ClosedUnits(s, old, r) = <<u>>
           /\ u.stream = s /\ u.chunks = old.chunks /\ Converts(u)
           /\ mid = Reset(old) /\ mid.chunks = <<>> /\ ~IsOpen(mid)
      /\ ~ClosesFirst(old, r) => mid = old /\ ClosedUnits(s, old, r) = <<>>
  BY <1>1, <1>2, AfterCloseFacts
<1>4. SoundBuffer(old)
  BY <1>1, <1>3, OldBuffer
<1>5. \/ CloseRaises(s, old, r) \/ SkipEmpty(s, old, r)
      \/ RejectFirst(s, old, r) \/ AppendData(s, old, r)
  BY <1>1 DEF PushData
<1>6. ASSUME NEW new, SoundBuffer(new), new.chunks = mid.chunks,
             buffers' = [buffers EXCEPT ![s] = new],
             out' = ClosedUnits(s, old, r), raised' = FALSE
      PROVE  Moves(s, new)
  <2>1. CASE ClosesFirst(old, r)
    <3>1. Len(new.chunks) <= 1 /\ out' = <<u>>
      BY <1>3, <1>6, <2>1
    <3> QED
      BY <1>1, <1>3, <1>6, <2>1, <3>1, EmitMoves
  <2>2. CASE ~ClosesFirst(old, r)
    <3>1. new.chunks = BufferOf(s).chunks /\ out' = <<>>
      BY <1>1, <1>3, <1>6, <2>2
    <3> QED
      BY <1>3, <1>6, <3>1, QuietMoves
  <2> QED
    BY <2>1, <2>2
<1>7. CASE CloseRaises(s, old, r)
  <2>1. /\ buffers' = [buffers EXCEPT ![s] = mid] /\ out' = <<u>>
        /\ ClosesFirst(old, r)
    BY <1>1, <1>3, <1>7 DEF CloseRaises, SetBuffer
  <2>2. Len(mid.chunks) <= 1
    BY <1>3, <2>1
  <2>3. Moves(s, mid)
    BY <1>1, <1>3, <2>1, <2>2, EmitMoves
  <2> QED
    BY <1>1, <1>3, <2>3
<1>8. CASE SkipEmpty(s, old, r)
  <2> DEFINE new == SkipChunk(mid, r)
  <2>1. SoundBuffer(new) /\ new.chunks = mid.chunks
    BY <1>2, <1>3, SkipSound
  <2>2. /\ buffers' = [buffers EXCEPT ![s] = new]
        /\ out' = ClosedUnits(s, old, r) /\ raised' = FALSE
    BY <1>1, <1>8 DEF SkipEmpty, SetBuffer
  <2> HIDE DEF new
  <2>3. Moves(s, new)
    BY <1>6, <2>1, <2>2
  <2> QED
    BY <1>1, <1>3, <2>3
<1>9. CASE RejectFirst(s, old, r)
  <2> DEFINE new == CountDrop(mid)
  <2>1. SoundBuffer(new) /\ new.chunks = mid.chunks
    BY <1>2, <1>3, SkipSound
  <2>2. /\ buffers' = [buffers EXCEPT ![s] = new]
        /\ out' = ClosedUnits(s, old, r) /\ raised' = FALSE
    BY <1>1, <1>9 DEF RejectFirst, SetBuffer
  <2> HIDE DEF new
  <2>3. Moves(s, new)
    BY <1>6, <2>1, <2>2
  <2> QED
    BY <1>1, <1>3, <2>3
<1>10. CASE AppendData(s, old, r)
  <2>1. PICK filled, c :
          filled = AppendChunk(mid, r) /\ c = [len |-> r.len, under |-> r.under]
    OBVIOUS
  <2>2. r.len # 0 /\ (IsOpen(mid) \/ Latchable(r))
    BY <1>1, <1>10 DEF AppendData
  <2>3. /\ filled \in Buffers /\ IsOpen(filled) /\ WholeWindow(filled)
        /\ filled.context = mid.context /\ filled.inert = mid.inert
        /\ filled.chunks = Append(mid.chunks, c)
    BY <1>2, <1>3, <2>1, <2>2, AppendSound
  <2>4. c \in Chunks
    BY <1>2, <2>1, UsableFacts
  <2>5. \/ /\ ~IsFull(filled)
           /\ out' = ClosedUnits(s, old, r) /\ raised' = FALSE
           /\ buffers' = [buffers EXCEPT ![s] = filled]
        \/ /\ IsFull(filled)
           /\ out' = Append(ClosedUnits(s, old, r), Unit(s, filled))
           /\ buffers' = [buffers EXCEPT ![s] = Reset(filled)]
    BY <1>1, <1>10, <2>1 DEF AppendData, SetBuffer
  <2>6. filled.context # None => (filled.inert <=> Inert(filled.context))
    BY <1>3, <2>3 DEF SoundBuffer
  <2>7. PICK full, new :
          /\ full = Unit(s, filled) /\ full.stream = s /\ full.chunks = filled.chunks
          /\ Converts(full)
          /\ new = Reset(filled) /\ SoundBuffer(new) /\ ~IsOpen(new) /\ Len(new.chunks) <= 1
    <3>1. /\ Unit(s, filled).stream = s /\ Unit(s, filled).chunks = filled.chunks
          /\ Converts(Unit(s, filled))
      BY <2>3, UnitSame DEF WholeWindow
    <3>2. SoundBuffer(Reset(filled)) /\ ~IsOpen(Reset(filled)) /\ Reset(filled).chunks = <<>>
      BY <2>3, <2>6, ResetSound
    <3>3. Len(Reset(filled).chunks) <= 1
      BY <3>2
    <3> QED
      BY <3>1, <3>2, <3>3
  <2>8. CASE ~IsFull(filled)
    <3>1. SoundBuffer(filled)
      BY <2>3, <2>6, <2>8 DEF SoundBuffer
    <3>2. /\ out' = ClosedUnits(s, old, r) /\ raised' = FALSE
          /\ buffers' = [buffers EXCEPT ![s] = filled]
      BY <2>5, <2>8
    <3>3. CASE ClosesFirst(old, r)
      <4>1. Len(filled.chunks) <= 1 /\ out' = <<u>>
        BY <1>3, <2>3, <2>4, <3>2, <3>3
      <4>2. Moves(s, filled)
        BY <1>1, <1>3, <3>1, <3>2, <3>3, <4>1, EmitMoves
      <4> QED
        BY <1>1, <1>3, <4>2
    <3>4. CASE ~ClosesFirst(old, r)
      <4>1. filled.chunks = Append(BufferOf(s).chunks, c) /\ out' = <<>>
        BY <1>1, <1>3, <2>3, <3>2, <3>4
      <4>2. Moves(s, filled)
        BY <1>3, <2>4, <3>1, <3>2, <4>1, QuietMoves
      <4> QED
        BY <1>1, <1>3, <4>2
    <3> QED
      BY <3>3, <3>4
  <2>9. CASE IsFull(filled)
    <3>1. /\ out' = Append(ClosedUnits(s, old, r), full)
          /\ buffers' = [buffers EXCEPT ![s] = new]
      BY <2>5, <2>7, <2>9
    <3>2. CASE ClosesFirst(old, r)
      <4>1. out' = <<u, full>>
        BY <1>3, <3>1, <3>2, AppendUnits
      <4>2. Moves(s, new)
        BY <1>1, <1>3, <2>7, <3>1, <3>2, <4>1, EmitMoves
      <4> QED
        BY <1>1, <1>3, <4>2
    <3>3. CASE ~ClosesFirst(old, r)
      <4>1. full.chunks = Append(BufferOf(s).chunks, c) /\ out' = <<full>>
        BY <1>1, <1>3, <2>3, <2>7, <3>1, <3>3, AppendUnits
      <4>2. Moves(s, new)
        BY <1>3, <2>4, <2>7, <3>1, <4>1, EmitMoves
      <4> QED
        BY <1>1, <1>3, <4>2
    <3> QED
      BY <3>2, <3>3
  <2> QED
    BY <2>8, <2>9
<1> QED
  BY <1>5, <1>7, <1>8, <1>9, <1>10

\* What a step on one buffer does to the router.
LEMMA MovesStep ==
    ASSUME RouterInv, NEW s \in Streams, NEW new, Moves(s, new)
    PROVE  /\ RouterInv'
           /\ \A t \in Streams : HeldSamples(t) > 0 => StaysOrLeaves(t)
<1>1. /\ buffers \in [Streams -> Buffers \cup {None}]
      /\ \A t \in Streams : buffers[t] # None => SoundBuffer(buffers[t])
      /\ SoundBuffer(new) /\ new \in Buffers
      /\ buffers' = [buffers EXCEPT ![s] = new]
  BY DEF RouterInv, Moves, SoundBuffer
<1>2. /\ buffers' \in [Streams -> Buffers \cup {None}]
      /\ buffers'[s] = new
      /\ \A t \in Streams : t # s => buffers'[t] = buffers[t]
  BY <1>1
<1>3. \A t \in Streams : (buffers[t] # None => SoundBuffer(buffers[t]))'
  BY <1>1, <1>2 DEF SoundBuffer
<1>4. UnitsConvertible'
  BY DEF Moves, Converts, UnitsConvertible
<1>5. ASSUME NEW t \in Streams, HeldSamples(t) > 0
      PROVE  StaysOrLeaves(t)
  <2>1. CASE t = s
    <3>1. LeavesWhole(s, buffers[s], new)
      BY <1>5, <2>1 DEF Moves
    <3> QED
      BY <1>2, <2>1, <3>1 DEF LeavesWhole, StaysOrLeaves
  <2>2. CASE t # s
    <3>1. buffers[t] # None /\ buffers[t] \in Buffers
      BY <1>1, <1>5 DEF HeldSamples, SoundBuffer
    <3>2. BufferOf(t).chunks = buffers[t].chunks
      BY <3>1 DEF BufferOf
    <3>3. ChunksExtend(buffers'[t].chunks, buffers[t].chunks)
      BY <1>2, <2>2, <3>2, ExtendsOld
    <3>4. \A i \in DOMAIN out' : out'[i].stream # t
      BY <2>2 DEF Moves
    <3> QED
      BY <3>3, <3>4 DEF StaysOrLeaves
  <2> QED
    BY <2>1, <2>2
<1> QED
  BY <1>2, <1>3, <1>4, <1>5 DEF RouterInv

\* Steps that leave every buffer alone and emit nothing.
RouterIdle == out' = <<>> /\ buffers' = buffers

\* They keep every window.
LEMMA IdleStep ==
    ASSUME RouterInv, RouterIdle
    PROVE  /\ RouterInv'
           /\ \A t \in Streams : HeldSamples(t) > 0 => StaysOrLeaves(t)
<1>1. RouterInv'
  <2>1. UnitsConvertible'
    BY DEF RouterIdle, UnitsConvertible
  <2>2. \A t \in Streams : (buffers[t] # None => SoundBuffer(buffers[t]))'
    BY DEF RouterIdle, RouterInv, SoundBuffer
  <2> QED
    BY <2>1, <2>2 DEF RouterInv, RouterIdle
<1>2. ASSUME NEW t \in Streams, HeldSamples(t) > 0
      PROVE  StaysOrLeaves(t)
  <2>1. buffers[t] # None
    BY <1>2 DEF HeldSamples
  <2>2. BufferOf(t).chunks = buffers[t].chunks
    BY <2>1 DEF BufferOf
  <2>3. ChunksExtend(buffers'[t].chunks, buffers[t].chunks)
    BY <2>2, ExtendsOld DEF RouterIdle
  <2> QED
    BY <2>3 DEF StaysOrLeaves, RouterIdle
<1> QED
  BY <1>1, <1>2

\* Every step of the router, whatever record it is given.
LEMMA RouterStep ==
    ASSUME RouterInv, RouterNext(AnyRecords) \/ RouterIdle
    PROVE  /\ RouterInv'
           /\ \A t \in Streams : HeldSamples(t) > 0 => StaysOrLeaves(t)
<1>1. ASSUME NEW r \in AnyRecords, RouterPush(r)
      PROVE  RouterIdle \/ \E s \in Streams : \E new : Moves(s, new)
  <2>1. RouterDrops(r) => RouterIdle
    BY DEF RouterDrops, RouterQuiet, RouterIdle
  <2> QED
    BY <1>1, <2>1, ContextMoves, RefuseMoves, DataMoves DEF RouterPush
<1>2. ASSUME NEW s \in Streams, Flush(s) \/ MaybeFlushOnAge(s) \/ WindowAges(s)
      PROVE  \E new : Moves(s, new)
  BY <1>2, FlushMoves, AgeMoves
<1>3. RouterIdle \/ \E s \in Streams : \E new : Moves(s, new)
  BY <1>1, <1>2 DEF RouterNext
<1> QED
  BY <1>3, IdleStep, MovesStep

\* The router starts without buffers.
LEMMA RouterInitInv == RouterInit => RouterInv
BY DEF RouterInit, RouterInv, UnitsConvertible

\* What does not touch the router keeps its invariant.
LEMMA RouterStutter == RouterInv /\ UNCHANGED routerVars => RouterInv'
BY DEF RouterInv, UnitsConvertible, routerVars, SoundBuffer

\* The router's invariant holds whatever records it is given.
LEMMA RouterAlways == AnyRouterSpec => []RouterInv
BY RouterInitInv, RouterStep, RouterStutter, PTL DEF AnyRouterSpec

\* Whatever records are pushed by hand, np.frombuffer(...).view(...) in flush()
\* finds whole samples of a numeric dtype, num_samples of them.
THEOREM AnyFlushConverts == AnyRouterSpec => []UnitsConvertible
<1>1. RouterInv => UnitsConvertible
  BY DEF RouterInv
<1> QED
  BY <1>1, RouterAlways, PTL

\* No open window is ever lost, split, reordered or emitted twice, whatever is
\* pushed and whenever emit raises (buffer.py, push, flush, maybe_flush_on_age).
THEOREM AnyWindowLeavesWhole == AnyRouterSpec => WindowsLeaveWhole
<1>1. RouterInv /\ [RouterNext(AnyRecords)]_routerVars
        => [\A s \in Streams : HeldSamples(s) > 0 => StaysOrLeaves(s)]_routerVars
  BY RouterStep
<1> QED
  BY <1>1, RouterAlways, PTL DEF AnyRouterSpec, WindowsLeaveWhole

\* The size trigger and the inert flag, whatever records are pushed: a window
\* never grows past max_samples, and an unsupported context never labels one
\* (buffer.py, _push_context and _push_data).
THEOREM AnyWindowBounded == AnyRouterSpec => []WindowsBounded
<1>1. RouterInv => WindowsBounded
  <2> SUFFICES ASSUME RouterInv, NEW s \in Streams, buffers[s] # None, IsOpen(buffers[s])
               PROVE  buffers[s].num_samples \in 1..(max_samples - 1) /\ ~buffers[s].inert
    BY DEF WindowsBounded, BufferedStreams
  <2>1. /\ buffers[s].num_samples \in Nat /\ buffers[s].num_samples > 0
        /\ ~IsFull(buffers[s]) /\ ~buffers[s].inert
    BY DEF RouterInv, SoundBuffer, WholeWindow, Converts, Buffers
  <2>2. buffers[s].num_samples \in 1..(max_samples - 1)
    BY <2>1, MaxSamplesAssumption DEF IsFull
  <2> QED
    BY <2>1, <2>2
<1> QED
  BY <1>1, RouterAlways, PTL

-----------------------------------------------------------------------------
(* The router under Thread B.                                               *)

\* What Thread B does to the router, the router fed with any records may do.
LEMMA IngestMovesRouter ==
    ASSUME IInv, IngestNext
    PROVE  RouterNext(AnyRecords) \/ RouterIdle \/ UNCHANGED routerVars
<1>1. ASSUME RouterQuiet, UNCHANGED <<buffers, router_dropped>>
      PROVE  RouterIdle
  BY <1>1 DEF RouterQuiet, RouterIdle
<1>2. CASE PushRecord
  <2>1. record \in ContextRecords \cup DataRecords
    BY <1>2 DEF PushRecord, IInv, AgreementOK, PendingContext, PendingData
  <2>2. record \in AnyRecords
    BY <2>1 DEF ContextRecords, DataRecords, AnyRecords
  <2> QED
    BY <1>2, <2>2 DEF PushRecord, RouterNext
<1>3. ASSUME NEW s \in Streams, PollBuffer(s) \/ FlushBuffer(s) \/ TimePasses(s)
      PROVE  RouterNext(AnyRecords)
  BY <1>3 DEF PollBuffer, FlushBuffer, TimePasses, RouterNext
<1>4. CASE \/ \E d \in Datagrams : Receive(d)
           \/ Timeout \/ EndIteration \/ LeaveLoop \/ Interrupt \/ LeaveRun
  BY <1>1, <1>4 DEF Receive, Timeout, EndIteration, LeaveLoop, Interrupt, LeaveRun
<1>5. CASE Terminated
  BY <1>5 DEF Terminated, ingestVars
<1> QED
  BY <1>2, <1>3, <1>4, <1>5 DEF IngestNext, ThreadB

\* The router's invariant holds under Thread B.
LEMMA IngestRouterAlways == IngestSpec => []RouterInv
<1>1. IngestInit => RouterInv
  BY RouterInitInv DEF IngestInit
<1>2. IInv /\ RouterInv /\ [IngestNext]_ingestVars => RouterInv'
  BY IngestMovesRouter, RouterStep, RouterStutter DEF ingestVars
<1> QED
  BY <1>1, <1>2, IngestInvariant, PTL DEF IngestSpec

\* So flush() converts whatever Thread B buffers (buffer.py, flush) ...
THEOREM IngestFlushConverts == IngestSpec => []UnitsConvertible
<1>1. RouterInv => UnitsConvertible
  BY DEF RouterInv
<1> QED
  BY <1>1, IngestRouterAlways, PTL

\* ... and every window that Thread B opens leaves whole and once, on whichever
\* path through the loop (runtime.py, Pipeline.run).
THEOREM IngestWindowLeavesWhole == IngestSpec => WindowsLeaveWhole
<1>1. IInv /\ RouterInv /\ [IngestNext]_ingestVars
        => [\A s \in Streams : HeldSamples(s) > 0 => StaysOrLeaves(s)]_routerVars
  BY IngestMovesRouter, RouterStep DEF ingestVars
<1> QED
  BY <1>1, IngestRouterAlways, IngestInvariant, PTL DEF IngestSpec, WindowsLeaveWhole

-----------------------------------------------------------------------------
(* Every sample is emitted once.                                            *)

\* A step on the buffer of stream s that takes in gain samples.
Accounts(s, gain) ==
    /\ \E new \in Buffers : buffers' = [buffers EXCEPT ![s] = new]
    /\ \A i \in DOMAIN out' : out'[i].stream = s
    /\ HeldSamples(s)' \in Nat
    /\ SamplesIn(out', s) \in Nat
    /\ HeldSamples(s)' + SamplesIn(out', s) = HeldSamples(s) + gain

\* What a buffer holds is a number of samples.
LEMMA HeldType ==
    ASSUME RouterInv, NEW s \in Streams
    PROVE  /\ HeldSamples(s) \in Nat /\ HeldSamples(s) = BufferOf(s).num_samples
           /\ BufferOf(s) \in Buffers /\ SoundBuffer(BufferOf(s))
           /\ BufferOf(s).context # None => (BufferOf(s).inert <=> Inert(BufferOf(s).context))
<1>1. SoundBuffer(BufferOf(s)) /\ BufferOf(s) \in Buffers
  BY OldBuffer DEF SoundBuffer
<1>2. HeldSamples(s) = BufferOf(s).num_samples
  BY NewBufferSound DEF HeldSamples, BufferOf
<1>3. BufferOf(s).num_samples \in Nat
  BY <1>1 DEF Buffers
<1> QED
  BY <1>1, <1>2, <1>3 DEF SoundBuffer

\* What the new buffer holds.
LEMMA HeldNew ==
    ASSUME RouterInv, NEW s \in Streams, NEW new \in Buffers,
           buffers' = [buffers EXCEPT ![s] = new]
    PROVE  HeldSamples(s)' = new.num_samples /\ HeldSamples(s)' \in Nat
<1>1. buffers'[s] = new /\ new # None /\ new.num_samples \in Nat
  BY NoBufferAssumption DEF RouterInv, Buffers
<1> QED
  BY <1>1 DEF HeldSamples

\* Accounts for a step that emits nothing ...
LEMMA QuietAccounts ==
    ASSUME RouterInv, NEW s \in Streams, NEW new \in Buffers, NEW gain \in Nat,
           buffers' = [buffers EXCEPT ![s] = new], out' = <<>>,
           new.num_samples = BufferOf(s).num_samples + gain
    PROVE  Accounts(s, gain)
<1>1. SamplesIn(out', s) = 0
  BY SamplesInFacts
<1>2. \A i \in DOMAIN out' : out'[i].stream = s
  OBVIOUS
<1>3. HeldSamples(s)' = new.num_samples /\ HeldSamples(s)' \in Nat
  BY HeldNew
<1>4. HeldSamples(s) = BufferOf(s).num_samples /\ HeldSamples(s) \in Nat
  BY HeldType
<1>5. HeldSamples(s)' + SamplesIn(out', s) = HeldSamples(s) + gain
  BY <1>1, <1>3, <1>4
<1>6. SamplesIn(out', s) \in Nat
  BY <1>1
<1>7. \E n \in Buffers : buffers' = [buffers EXCEPT ![s] = n]
  OBVIOUS
<1> QED
  BY <1>2, <1>3, <1>5, <1>6, <1>7, Zenon DEF Accounts

\* ... one unit ...
LEMMA UnitAccounts ==
    ASSUME RouterInv, NEW s \in Streams, NEW new \in Buffers, NEW gain \in Nat,
           buffers' = [buffers EXCEPT ![s] = new],
           NEW b \in Buffers, out' = <<Unit(s, b)>>,
           new.num_samples + b.num_samples = BufferOf(s).num_samples + gain
    PROVE  Accounts(s, gain)
<1>1. PICK u : u = Unit(s, b)
  OBVIOUS
<1>2. u.stream = s /\ u.num_samples = b.num_samples /\ u.num_samples \in Nat
  BY <1>1, UnitSame DEF Buffers
<1>3. SamplesIn(<<u>>, s) = u.num_samples
  BY <1>2, SamplesInFacts
<1>4. SamplesIn(out', s) = b.num_samples /\ SamplesIn(out', s) \in Nat
  BY <1>1, <1>2, <1>3
<1>5. \A i \in DOMAIN out' : out'[i].stream = s
  BY <1>1, <1>2
<1>6. HeldSamples(s)' = new.num_samples /\ HeldSamples(s)' \in Nat
  BY HeldNew
<1>7. HeldSamples(s) = BufferOf(s).num_samples /\ HeldSamples(s) \in Nat
  BY HeldType
<1>8. HeldSamples(s)' + SamplesIn(out', s) = HeldSamples(s) + gain
  BY <1>4, <1>6, <1>7
<1> QED
  BY <1>4, <1>5, <1>6, <1>8 DEF Accounts

\* ... and two.
LEMMA PairAccounts ==
    ASSUME RouterInv, NEW s \in Streams, NEW new \in Buffers, NEW gain \in Nat,
           buffers' = [buffers EXCEPT ![s] = new],
           NEW b \in Buffers, NEW c \in Buffers, out' = <<Unit(s, b), Unit(s, c)>>,
           new.num_samples + b.num_samples + c.num_samples = BufferOf(s).num_samples + gain
    PROVE  Accounts(s, gain)
<1>1. PICK u, v : u = Unit(s, b) /\ v = Unit(s, c)
  OBVIOUS
<1>2. /\ u.stream = s /\ u.num_samples = b.num_samples /\ u.num_samples \in Nat
      /\ v.stream = s /\ v.num_samples = c.num_samples /\ v.num_samples \in Nat
  <2>1. b.num_samples \in Nat /\ c.num_samples \in Nat
    BY DEF Buffers
  <2>2. u.stream = s /\ u.num_samples = b.num_samples
    BY <1>1, UnitSame
  <2>3. v.stream = s /\ v.num_samples = c.num_samples
    BY <1>1, UnitSame
  <2> QED
    BY <2>1, <2>2, <2>3, Zenon
<1>3. SamplesIn(<<u, v>>, s) = u.num_samples + v.num_samples
  BY <1>2, SamplesInFacts
<1>4. SamplesIn(out', s) = b.num_samples + c.num_samples /\ SamplesIn(out', s) \in Nat
  BY <1>1, <1>2, <1>3
<1>5. \A i \in DOMAIN out' : out'[i].stream = s
  BY <1>1, <1>2
<1>6. b.num_samples \in Nat /\ c.num_samples \in Nat
  BY DEF Buffers
<1>7. HeldSamples(s)' = new.num_samples /\ HeldSamples(s)' \in Nat
  BY HeldNew
<1>8. HeldSamples(s) = BufferOf(s).num_samples /\ HeldSamples(s) \in Nat
  BY HeldType
<1>9. HeldSamples(s)' + SamplesIn(out', s) = HeldSamples(s) + gain
  BY <1>4, <1>6, <1>7, <1>8
<1> QED
  BY <1>4, <1>5, <1>7, <1>9 DEF Accounts

\* flush() and the age poll emit what they take out of the buffer.
LEMMA FlushAccounts ==
    ASSUME RouterInv, NEW s \in Streams, Flush(s) \/ MaybeFlushOnAge(s) \/ WindowAges(s)
    PROVE  Accounts(s, 0)
<1> DEFINE b == buffers[s]
<1>1. b # None
  BY DEF Flush, MaybeFlushOnAge, WindowAges
<1>2. /\ b = BufferOf(s) /\ b \in Buffers /\ b.num_samples \in Nat
      /\ b.context # None => (b.inert <=> Inert(b.context))
  BY <1>1, HeldType DEF BufferOf, Buffers
<1>3. CASE buffers' = buffers /\ out' = <<>>
  <2>1. buffers' = [buffers EXCEPT ![s] = b]
    BY <1>3 DEF RouterInv
  <2>2. b.num_samples = BufferOf(s).num_samples + 0 /\ 0 \in Nat
    BY <1>2
  <2> QED
    BY <1>2, <1>3, <2>1, <2>2, QuietAccounts
<1>4. CASE buffers' = [buffers EXCEPT ![s] = Reset(b)] /\ out' = <<Unit(s, b)>>
  <2>1. Reset(b) \in Buffers /\ Reset(b).num_samples = 0
    BY <1>2, ResetSound DEF SoundBuffer
  <2>2. Reset(b).num_samples + b.num_samples = BufferOf(s).num_samples + 0 /\ 0 \in Nat
    BY <1>2, <2>1
  <2> QED
    BY <1>2, <1>4, <2>1, <2>2, UnitAccounts
<1>5. CASE WindowAges(s)
  <2> DEFINE new == [b EXCEPT !.overdue = TRUE]
  <2>1. buffers' = [buffers EXCEPT ![s] = new] /\ out' = <<>>
    BY <1>5 DEF WindowAges, SetBuffer, RouterQuiet
  <2>2. new \in Buffers /\ new.num_samples = b.num_samples
    BY <1>2 DEF Buffers
  <2> HIDE DEF new
  <2>3. new.num_samples = BufferOf(s).num_samples + 0 /\ 0 \in Nat
    BY <1>2, <2>2
  <2> QED
    BY <1>2, <2>1, <2>2, <2>3, QuietAccounts
<1> QED
  BY <1>3, <1>4, <1>5 DEF Flush, MaybeFlushOnAge, RouterQuiet, SetBuffer

\* A context takes in no samples.
LEMMA ContextAccounts ==
    ASSUME RouterInv, NEW r \in AnyRecords, PushContext(r)
    PROVE  r.stream \in Streams /\ Accounts(r.stream, 0)
<1> DEFINE s == r.stream
           ctx == r.context
           b == BufferOf(s)
<1>1. s \in Streams /\ ctx \in Contexts
  BY DEF PushContext, AnyRecords
<1>2. /\ SoundBuffer(b) /\ b \in Buffers /\ b.num_samples \in Nat
      /\ b.context # None => (b.inert <=> Inert(b.context))
  BY <1>1, HeldType DEF Buffers
<1>3. CASE ~(IsOpen(b) /\ Differs(b.context, ctx))
  <2> DEFINE new == Adopt(b, ctx)
  <2>1. buffers' = [buffers EXCEPT ![s] = new] /\ out' = <<>>
    BY <1>3 DEF PushContext, SetBuffer, RouterQuiet
  <2>2. new \in Buffers /\ new.num_samples = b.num_samples
    BY <1>1, <1>2, <1>3, AdoptSound DEF SoundBuffer
  <2> HIDE DEF new
  <2>3. new.num_samples = b.num_samples + 0 /\ 0 \in Nat
    BY <1>2, <2>2
  <2> QED
    BY <1>1, <1>2, <2>1, <2>2, <2>3, QuietAccounts
<1>4. CASE IsOpen(b) /\ Differs(b.context, ctx)
  <2> DEFINE closed == Reset(b)
             new == IF raised' THEN closed ELSE Adopt(closed, ctx)
  <2>1. buffers' = [buffers EXCEPT ![s] = new] /\ out' = <<Unit(s, b)>>
    BY <1>4 DEF PushContext, SetBuffer
  <2>2. SoundBuffer(closed) /\ ~IsOpen(closed) /\ closed.num_samples = 0
    BY <1>2, ResetSound
  <2> HIDE DEF closed
  <2>3. SoundBuffer(Adopt(closed, ctx)) /\ Adopt(closed, ctx).num_samples = 0
    BY <1>1, <2>2, AdoptSound
  <2>4. new \in Buffers /\ new.num_samples = 0
    BY <2>2, <2>3 DEF SoundBuffer
  <2> HIDE DEF new
  <2>5. new.num_samples + b.num_samples = b.num_samples + 0 /\ 0 \in Nat
    BY <1>2, <2>4
  <2> QED
    BY <1>1, <1>2, <2>1, <2>4, <2>5, UnitAccounts
<1> QED
  BY <1>3, <1>4

\* A data record brings its samples, unless the flush before it raises: then the
\* record is lost, and only it.
LEMMA DataAccounts ==
    ASSUME RouterInv, NEW r \in AnyRecords, PushData(r), Latchable(r),
           NEW s, s = r.stream, NEW gain, gain = r.len \div r.bytes_per_sample
    PROVE  /\ s \in Streams /\ gain \in Nat
           /\ Accounts(s, gain) \/ (raised' = TRUE /\ Accounts(s, 0))
<1>1. PICK old, mid :
        /\ s = r.stream /\ old = BufferOf(s) /\ mid = AfterClose(old, r)
        /\ gain = r.len \div r.bytes_per_sample
  OBVIOUS
<1>2. r.type = "data" /\ Usable(r) /\ ~NoUsableContext(old)
  BY <1>1 DEF PushData
<1>3. /\ s \in Streams /\ SoundBuffer(mid) /\ ~NoUsableContext(mid)
      /\ IsOpen(mid) => ~Reinterprets(mid, r)
      /\ ClosesFirst(old, r) =>
           /\ ClosedUnits(s, old, r) = <<Unit(s, old)>>
           /\ mid = Reset(old)
      /\ ~ClosesFirst(old, r) => mid = old /\ ClosedUnits(s, old, r) = <<>>
  BY <1>1, <1>2, AfterCloseFacts
<1>4. /\ old \in Buffers /\ old.num_samples \in Nat
      /\ old.context # None => (old.inert <=> Inert(old.context))
  BY <1>1, <1>3, HeldType DEF Buffers
<1>5. ClosesFirst(old, r) => mid.num_samples = 0
  BY <1>3, <1>4, ResetSound
<1>6. /\ r.len \in Nat /\ r.bytes_per_sample \in Nat \ {0}
      /\ r.len % r.bytes_per_sample = 0
  BY <1>2, UsableFacts
<1>7. gain \in Nat /\ (r.len = 0 => gain = 0)
  <2>1. PICK len, n : len = r.len /\ n = r.bytes_per_sample
    OBVIOUS
  <2>2. len \in Nat /\ n \in Nat \ {0} /\ len % n = 0 /\ gain = len \div n
    BY <1>1, <1>6, <2>1
  <2>3. len \div n \in Nat
    BY <2>2, 0 \in Nat, WholeQuotient
  <2>4. len = 0 => len \div n = 0
    BY <2>2
  <2> QED
    BY <2>1, <2>2, <2>3, <2>4
<1>8. ASSUME NEW new \in Buffers, NEW g \in Nat,
             new.num_samples = mid.num_samples + g,
             buffers' = [buffers EXCEPT ![s] = new],
             out' = ClosedUnits(s, old, r)
      PROVE  Accounts(s, g)
  <2>1. CASE ClosesFirst(old, r)
    <3>1. new.num_samples + old.num_samples = old.num_samples + g
      BY <1>4, <1>5, <1>8, <2>1
    <3> QED
      BY <1>1, <1>3, <1>4, <1>8, <2>1, <3>1, UnitAccounts
  <2>2. CASE ~ClosesFirst(old, r)
    BY <1>1, <1>3, <1>8, <2>2, QuietAccounts
  <2> QED
    BY <2>1, <2>2
<1>9. CASE CloseRaises(s, old, r)
  <2>1. /\ buffers' = [buffers EXCEPT ![s] = mid] /\ raised' = TRUE
        /\ out' = ClosedUnits(s, old, r)
    BY <1>3, <1>9 DEF CloseRaises, SetBuffer
  <2>2. mid \in Buffers /\ mid.num_samples \in Nat
    BY <1>3 DEF SoundBuffer, Buffers
  <2>3. mid.num_samples = mid.num_samples + 0 /\ 0 \in Nat
    BY <2>2
  <2>4. Accounts(s, 0)
    BY <1>8, <2>1, <2>2, <2>3
  <2> QED
    BY <1>3, <1>7, <2>1, <2>4, Zenon
<1>10. ASSUME NEW new \in Buffers, new.num_samples = mid.num_samples, gain = 0,
              buffers' = [buffers EXCEPT ![s] = new],
              out' = ClosedUnits(s, old, r)
       PROVE  Accounts(s, gain)
  <2>1. mid.num_samples \in Nat
    BY <1>3 DEF SoundBuffer, Buffers
  <2>2. new.num_samples = mid.num_samples + gain
    BY <1>10, <2>1
  <2> QED
    BY <1>7, <1>8, <1>10, <2>2
<1>11. CASE SkipEmpty(s, old, r)
  <2> DEFINE new == SkipChunk(mid, r)
  <2>1. new \in Buffers /\ new.num_samples = mid.num_samples
    BY <1>2, <1>3, SkipSound DEF SoundBuffer
  <2>2. /\ buffers' = [buffers EXCEPT ![s] = new]
        /\ out' = ClosedUnits(s, old, r) /\ r.len = 0
    BY <1>1, <1>11 DEF SkipEmpty, SetBuffer
  <2> HIDE DEF new
  <2>3. Accounts(s, gain)
    BY <1>7, <1>10, <2>1, <2>2
  <2> QED
    BY <1>3, <1>7, <2>3, Zenon
<1>12. CASE AppendData(s, old, r)
  <2>1. PICK filled : filled = AppendChunk(mid, r)
    OBVIOUS
  <2>2. r.len # 0 /\ (IsOpen(mid) \/ Latchable(r))
    BY <1>12 DEF AppendData
  <2>3. /\ filled \in Buffers
        /\ filled.context = mid.context /\ filled.inert = mid.inert
        /\ filled.num_samples = mid.num_samples + gain
    BY <1>1, <1>2, <1>3, <2>1, <2>2, AppendSound
  <2>4. \/ /\ out' = ClosedUnits(s, old, r)
           /\ buffers' = [buffers EXCEPT ![s] = filled]
        \/ /\ out' = Append(ClosedUnits(s, old, r), Unit(s, filled))
           /\ buffers' = [buffers EXCEPT ![s] = Reset(filled)]
    BY <1>1, <1>12, <2>1 DEF AppendData, SetBuffer
  <2>5. CASE /\ out' = ClosedUnits(s, old, r)
             /\ buffers' = [buffers EXCEPT ![s] = filled]
    <3>1. Accounts(s, gain)
      BY <1>7, <1>8, <2>3, <2>5
    <3> QED
      BY <1>3, <1>7, <3>1, Zenon
  <2>6. CASE /\ out' = Append(ClosedUnits(s, old, r), Unit(s, filled))
             /\ buffers' = [buffers EXCEPT ![s] = Reset(filled)]
    <3>1. filled.context # None => (filled.inert <=> Inert(filled.context))
      BY <1>3, <2>3 DEF SoundBuffer
    <3>2. PICK new : new = Reset(filled)
      OBVIOUS
    <3>3. new \in Buffers /\ new.num_samples = 0
      BY <2>3, <3>1, <3>2, ResetSound DEF SoundBuffer
    <3>4. mid.num_samples \in Nat
      BY <1>3 DEF SoundBuffer, Buffers
    <3>5. Accounts(s, gain)
      <4>1. CASE ClosesFirst(old, r)
        <5>1. out' = <<Unit(s, old), Unit(s, filled)>>
          BY <1>3, <2>6, <4>1, AppendUnits
        <5>2. filled.num_samples = gain
          BY <1>5, <1>7, <2>3, <4>1
        <5>3. new.num_samples + old.num_samples + filled.num_samples
                = BufferOf(s).num_samples + gain
          BY <1>1, <1>4, <1>7, <3>3, <5>2
        <5>4. buffers' = [buffers EXCEPT ![s] = new]
          BY <2>6, <3>2
        <5> QED
          BY <1>3, <1>4, <1>7, <2>3, <3>3, <5>1, <5>3, <5>4, PairAccounts
      <4>2. CASE ~ClosesFirst(old, r)
        <5>1. out' = <<Unit(s, filled)>>
          BY <1>3, <2>6, <4>2, AppendUnits
        <5>2. new.num_samples + filled.num_samples = old.num_samples + gain
          BY <1>3, <1>4, <1>7, <2>3, <3>3, <4>2
        <5> QED
          BY <1>1, <1>3, <1>7, <2>3, <2>6, <3>2, <3>3, <5>1, <5>2, UnitAccounts
      <4> QED
        BY <4>1, <4>2
    <3> QED
      BY <1>3, <1>7, <3>5, Zenon
  <2> QED
    BY <2>4, <2>5, <2>6
<1>13. ~RejectFirst(s, old, r)
  BY DEF RejectFirst
<1>14. \/ CloseRaises(s, old, r) \/ SkipEmpty(s, old, r)
       \/ RejectFirst(s, old, r) \/ AppendData(s, old, r)
  BY <1>1 DEF PushData
<1> QED
  BY <1>9, <1>11, <1>12, <1>13, <1>14

\* The step leaves the samples of stream t alone.
Untouched(t) ==
    /\ HeldSamples(t) \in Nat /\ HeldSamples(t)' = HeldSamples(t)
    /\ EmittedSamples(t)' = 0

\* What does not touch the buffers, and what touches another stream's buffer.
LEMMA QuietUntouched ==
    ASSUME RouterInv, NEW t \in Streams, buffers' = buffers, out' = <<>>
    PROVE  Untouched(t)
<1>1. HeldSamples(t) \in Nat
  BY HeldType
<1>2. HeldSamples(t)' = HeldSamples(t)
  BY DEF HeldSamples
<1>3. EmittedSamples(t)' = 0
  <2>1. SamplesIn(out', t) = 0
    BY SamplesInFacts
  <2> QED
    BY <2>1 DEF EmittedSamples
<1> QED
  BY <1>1, <1>2, <1>3 DEF Untouched

LEMMA OthersUntouched ==
    ASSUME RouterInv, NEW s \in Streams, NEW t \in Streams, t # s,
           NEW gain, Accounts(s, gain)
    PROVE  Untouched(t)
<1>1. PICK new \in Buffers : buffers' = [buffers EXCEPT ![s] = new]
  BY DEF Accounts
<1>2. buffers'[t] = buffers[t]
  BY <1>1 DEF RouterInv
<1>3. HeldSamples(t)' = HeldSamples(t)
  BY <1>2 DEF HeldSamples
<1>4. EmittedSamples(t)' = 0
  <2>1. \A i \in DOMAIN out' : out'[i].stream # t
    BY DEF Accounts
  <2>2. SamplesIn(out', t) = 0
    BY <2>1, SamplesInFacts
  <2> QED
    BY <2>2 DEF EmittedSamples
<1>5. HeldSamples(t) \in Nat
  BY HeldType
<1> QED
  BY <1>3, <1>4, <1>5 DEF Untouched

\* The record in hand carries whole samples of its stream.
LEMMA PendingType ==
    ASSUME IInv, NEW s \in Streams
    PROVE  /\ PendingSamples(s) \in Nat
           /\ pc # "push" => PendingSamples(s) = 0
<1>1. CASE ~(record # None /\ record.type = "data" /\ record.stream = s)
  BY <1>1 DEF PendingSamples
<1>2. CASE record # None /\ record.type = "data" /\ record.stream = s
  <2>1. pc = "push" /\ PendingData(s)
    BY <1>2 DEF IInv, AgreementOK, PendingContext, ContextRecords
  <2>2. /\ record \in DataRecords
        /\ buffers[s] \in Buffers /\ BufferOK(buffers[s])
        /\ Fits(buffers[s], record)
    BY <2>1 DEF PendingData, IInv, IngestTypeOK, BuffersOK
  <2>3. /\ record.len \in Nat /\ record.bytes_per_sample \in Nat \ {0}
        /\ record.len % record.bytes_per_sample = 0
    BY <2>2, FitsFacts DEF DataRecords, Fits
  <2>4. record.len \div record.bytes_per_sample \in Nat
    BY <2>3, 0 \in Nat, WholeQuotient
  <2> QED
    BY <1>2, <2>1, <2>4 DEF PendingSamples
<1> QED
  BY <1>1, <1>2

PendingOK == \A s \in Streams : PendingSamples(s) \in Nat

LEMMA PendingAlways == IngestSpec => []PendingOK
<1>1. IInv => PendingOK
  BY PendingType DEF PendingOK
<1> QED
  BY <1>1, IngestInvariant, PTL

\* Without a record nothing is pending.
LEMMA NothingPending ==
    \A s \in Streams : /\ record = None => PendingSamples(s) = 0
                       /\ record' = None => PendingSamples(s)' = 0
                       /\ record' = record => PendingSamples(s)' = PendingSamples(s)
BY DEF PendingSamples

\* The books balance if what is held and emitted gains what is no longer pending,
\* or gains nothing when a push is abandoned.
LEMMA Balanced ==
    ASSUME NEW s \in Streams,
           HeldSamples(s) \in Nat, HeldSamples(s)' \in Nat, EmittedSamples(s)' \in Nat,
           PendingSamples(s) \in Nat, PendingSamples(s)' \in Nat,
           NEW gain \in Nat,
           HeldSamples(s)' + EmittedSamples(s)' = HeldSamples(s) + gain,
           \/ gain + PendingSamples(s)'
                = PendingSamples(s) + (IF pc = "get" THEN PendingSamples(s)' ELSE 0)
           \/ gain = 0 /\ PendingSamples(s)' = 0 /\ AbandonsPush
    PROVE  ConservesSamples(s)
BY DEF ConservesSamples, AbandonsPush

LEMMA UntouchedBalanced ==
    ASSUME NEW s \in Streams, Untouched(s),
           PendingSamples(s) \in Nat, PendingSamples(s)' \in Nat,
           \/ PendingSamples(s)'
                = PendingSamples(s) + (IF pc = "get" THEN PendingSamples(s)' ELSE 0)
           \/ PendingSamples(s)' = 0 /\ AbandonsPush
    PROVE  ConservesSamples(s)
BY DEF ConservesSamples, Untouched, AbandonsPush

\* Accounts, as the books of its own stream.
LEMMA AccountsFacts ==
    ASSUME RouterInv, NEW s \in Streams, NEW gain \in Nat, Accounts(s, gain)
    PROVE  /\ HeldSamples(s) \in Nat /\ HeldSamples(s)' \in Nat
           /\ EmittedSamples(s)' \in Nat
           /\ HeldSamples(s)' + EmittedSamples(s)' = HeldSamples(s) + gain
<1>1. EmittedSamples(s)' = SamplesIn(out', s)
  BY DEF EmittedSamples
<1>2. HeldSamples(s) \in Nat
  BY HeldType
<1> QED
  BY <1>1, <1>2 DEF Accounts

\* A step that emits what it takes out of one buffer, and leaves the record.
LEMMA EmittingBalanced ==
    ASSUME IInv, RouterInv, NEW s \in Streams, Accounts(s, 0),
           record' = record, NEW t \in Streams
    PROVE  ConservesSamples(t)
<1>1. /\ PendingSamples(t) \in Nat /\ PendingSamples(t)' = PendingSamples(t)
      /\ pc = "get" => PendingSamples(t) = 0
  BY PendingType, NothingPending
<1>2. PendingSamples(t)' \in Nat
  BY <1>1
<1>3. PendingSamples(t)'
        = PendingSamples(t) + (IF pc = "get" THEN PendingSamples(t)' ELSE 0)
  BY <1>1
<1>4. CASE t = s
  <2>1. /\ HeldSamples(t) \in Nat /\ HeldSamples(t)' \in Nat
        /\ EmittedSamples(t)' \in Nat
        /\ HeldSamples(t)' + EmittedSamples(t)' = HeldSamples(t) + 0
    BY <1>4, 0 \in Nat, AccountsFacts
  <2>2. 0 + PendingSamples(t)'
          = PendingSamples(t) + (IF pc = "get" THEN PendingSamples(t)' ELSE 0)
    BY <1>2, <1>3
  <2> QED
    BY <1>1, <1>2, <2>1, <2>2, 0 \in Nat, Balanced
<1>5. CASE t # s
  BY <1>1, <1>2, <1>3, <1>5, OthersUntouched, UntouchedBalanced
<1> QED
  BY <1>4, <1>5

\* A step that touches neither buffers nor emit: the record in hand stays, has
\* just arrived, or is abandoned.
LEMMA IdleBalanced ==
    ASSUME IInv, PendingOK', RouterInv, buffers' = buffers, RouterQuiet,
           \/ pc = "get"
           \/ record' = record
           \/ record' = None /\ (AbandonsPush \/ pc # "push"),
           NEW t \in Streams
    PROVE  ConservesSamples(t)
<1>1. Untouched(t)
  BY QuietUntouched DEF RouterQuiet
<1>2. /\ PendingSamples(t) \in Nat
      /\ pc # "push" => PendingSamples(t) = 0
  BY PendingType
<1>3. PendingSamples(t)' \in Nat
  BY DEF PendingOK
<1>4. \/ PendingSamples(t)'
           = PendingSamples(t) + (IF pc = "get" THEN PendingSamples(t)' ELSE 0)
      \/ PendingSamples(t)' = 0 /\ AbandonsPush
  BY <1>2, <1>3, NothingPending
<1> QED
  BY <1>1, <1>2, <1>3, <1>4, UntouchedBalanced

\* Pushing the record in hand: its samples are taken in, or the exception that
\* loses them leaves the loop.
LEMMA PushBalanced ==
    ASSUME IInv, RouterInv, PushRecord, NEW t \in Streams
    PROVE  ConservesSamples(t)
<1>1. PICK s, r : s = record.stream /\ r = record
  OBVIOUS
<1>2. /\ pc = "push" /\ RouterPush(r) /\ record' = None
      /\ raised' => pc' = "finally"
  BY <1>1 DEF PushRecord, StartLoop
<1>3. r \in ContextRecords \cup DataRecords
  BY <1>1, <1>2 DEF IInv, AgreementOK, PendingContext, PendingData
<1>4. r \in AnyRecords
  BY <1>3 DEF ContextRecords, DataRecords, AnyRecords
<1>5. PendingSamples(t)' = 0 /\ PendingSamples(t) \in Nat /\ 0 \in Nat
  BY <1>2, NothingPending, PendingType
<1>6. ASSUME s \in Streams, NEW gain \in Nat, Accounts(s, gain),
             t = s => gain = PendingSamples(t) \/ (gain = 0 /\ AbandonsPush),
             t # s => PendingSamples(t) = 0
      PROVE  ConservesSamples(t)
  <2>1. CASE t = s
    <3>1. /\ HeldSamples(t) \in Nat /\ HeldSamples(t)' \in Nat
          /\ EmittedSamples(t)' \in Nat
          /\ HeldSamples(t)' + EmittedSamples(t)' = HeldSamples(t) + gain
      BY <1>6, <2>1, AccountsFacts
    <3>2. \/ gain + PendingSamples(t)'
               = PendingSamples(t) + (IF pc = "get" THEN PendingSamples(t)' ELSE 0)
          \/ gain = 0 /\ PendingSamples(t)' = 0 /\ AbandonsPush
      BY <1>2, <1>5, <1>6, <2>1
    <3>3. PendingSamples(t)' \in Nat
      BY <1>5
    <3> QED
      BY <1>5, <1>6, <3>1, <3>2, <3>3, Balanced
  <2>2. CASE t # s
    <3>1. Untouched(t)
      BY <1>6, <2>2, OthersUntouched
    <3>2. PendingSamples(t)'
            = PendingSamples(t) + (IF pc = "get" THEN PendingSamples(t)' ELSE 0)
      BY <1>2, <1>5, <1>6, <2>2
    <3>3. PendingSamples(t)' \in Nat
      BY <1>5
    <3> QED
      BY <1>5, <3>1, <3>2, <3>3, UntouchedBalanced
  <2> QED
    BY <2>1, <2>2
<1>7. CASE r.type = "context"
  <2>1. PushContext(r)
    <3>1. ~RouterDrops(r)
      BY <1>1, <1>2, PushAdmitted DEF RouterDrops
    <3> QED
      BY <1>2, <1>7, <3>1 DEF RouterPush, RefuseData, PushData
  <2>2. s \in Streams /\ Accounts(s, 0)
    BY <1>1, <1>4, <2>1, ContextAccounts
  <2>3. PendingSamples(t) = 0
    BY <1>1, <1>7 DEF PendingSamples
  <2> QED
    BY <1>5, <1>6, <2>2, <2>3
<1>8. CASE r.type = "data"
  <2>1. /\ r \in DataRecords /\ PendingData(s)
    BY <1>1, <1>2, <1>8 DEF IInv, AgreementOK, PendingContext, PendingData, ContextRecords
  <2>2. /\ s \in Streams
        /\ BufferOf(s) = buffers[s]
        /\ buffers[s] \in Buffers /\ BufferOK(buffers[s]) /\ Fits(buffers[s], r)
    BY <1>1, <2>1 DEF PendingData, DataRecords, BufferOf, IInv, IngestTypeOK, BuffersOK
  <2>3. ~NoUsableContext(BufferOf(s)) /\ Usable(r) /\ Latchable(r)
    BY <2>1, <2>2, FitsFacts
  <2>4. PushData(r)
    <3>1. ~RouterDrops(r) /\ ~RefuseData(r)
      BY <1>1, <1>2, <2>3, PushAdmitted DEF RouterDrops, RefuseData
    <3> QED
      BY <1>2, <1>8, <3>1 DEF RouterPush, PushContext
  <2>5. PICK gain : gain = r.len \div r.bytes_per_sample
    OBVIOUS
  <2>6. gain \in Nat /\ (Accounts(s, gain) \/ (raised' = TRUE /\ Accounts(s, 0)))
    BY <1>1, <1>4, <2>3, <2>4, <2>5, DataAccounts
  <2>7. IF t = s THEN PendingSamples(t) = gain ELSE PendingSamples(t) = 0
    <3>1. r # None
      BY <2>1, NoRecordAssumption
    <3> QED
      BY <1>1, <1>8, <2>5, <3>1 DEF PendingSamples
  <2>8. CASE Accounts(s, gain)
    BY <1>6, <2>2, <2>6, <2>7, <2>8
  <2>9. CASE raised' = TRUE /\ Accounts(s, 0)
    <3>1. AbandonsPush
      BY <1>2, <2>9 DEF AbandonsPush
    <3> QED
      BY <1>5, <1>6, <2>2, <2>7, <2>9, <3>1
  <2> QED
    BY <2>6, <2>8, <2>9
<1> QED
  BY <1>3, <1>7, <1>8 DEF ContextRecords, DataRecords

\* Every sample that the interpreter lets through is emitted once, but for those of
\* a record whose push an exception or an interrupt abandons: these are lost
\* together, and no sample of a window is, on whatever way run() is left
\* (buffer.py, push, flush and maybe_flush_on_age; runtime.py, Pipeline.run).
THEOREM NoSampleLostOrDoubled == IngestSpec => SamplesConserved
<1>1. ASSUME IInv, PendingOK', RouterInv, IngestNext, NEW t \in Streams
      PROVE  ConservesSamples(t) \/ UNCHANGED ingestVars
  <2>1. CASE PushRecord
    BY <1>1, <2>1, PushBalanced
  <2>2. ASSUME NEW s \in Streams, PollBuffer(s) \/ FlushBuffer(s) \/ TimePasses(s)
        PROVE  ConservesSamples(t)
    <3>1. record' = record
      BY <2>2 DEF PollBuffer, FlushBuffer, TimePasses, interpreterVars
    <3>2. Flush(s) \/ MaybeFlushOnAge(s) \/ WindowAges(s)
      BY <2>2 DEF PollBuffer, FlushBuffer, TimePasses
    <3>3. Accounts(s, 0)
      BY <1>1, <3>2, FlushAccounts
    <3> QED
      BY <1>1, <3>1, <3>3, EmittingBalanced
  <2>3. CASE \/ \E d \in Datagrams : Receive(d)
             \/ Timeout \/ EndIteration \/ LeaveLoop \/ Interrupt \/ LeaveRun
    <3>1. buffers' = buffers /\ RouterQuiet
      BY <2>3 DEF Receive, Timeout, EndIteration, LeaveLoop, Interrupt, LeaveRun
    <3>2. \/ pc = "get"
          \/ record' = record
          \/ record' = None /\ (AbandonsPush \/ pc # "push")
      BY <2>3 DEF Receive, Timeout, EndIteration, LeaveLoop, Interrupt, LeaveRun,
                  StartLoop, AbandonsPush, interpreterVars
    <3> QED
      BY <1>1, <3>1, <3>2, IdleBalanced
  <2>4. CASE Terminated
    BY <2>4 DEF Terminated
  <2> QED
    BY <1>1, <2>1, <2>2, <2>3, <2>4 DEF IngestNext, ThreadB
<1>2. IInv /\ PendingOK' /\ RouterInv /\ [IngestNext]_ingestVars
        => [\A s \in Streams : ConservesSamples(s)]_ingestVars
  BY <1>1
<1> QED
  BY <1>2, IngestInvariant, PendingAlways, IngestRouterAlways, PTL DEF IngestSpec, SamplesConserved

=============================================================================
