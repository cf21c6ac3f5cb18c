----------------------------- MODULE BufferRouter -----------------------------
(***************************************************************************)
(* buffer.py, class BufferRouter: one IngestBuffer per stream, created on  *)
(* the first record of the stream and bounded by max_streams.  The units   *)
(* the last step handed to emit are in out, in order; raised says that the *)
(* emit callback of that step's last unit raised, so that the rest of the  *)
(* method was skipped and the exception left push() or flush().            *)
(*                                                                         *)
(* maybe_flush_on_age() and flush_all() loop over the buffers; an action   *)
(* here is one iteration, and the loop belongs to the caller.              *)
(***************************************************************************)
EXTENDS IngestBuffer

CONSTANTS
    EmitMayRaise,   \* can the emit callback raise?
    MaxDrops        \* bound on the two dropped counters, unbounded in the code

ASSUME RouterAssumption == EmitMayRaise \in BOOLEAN /\ MaxDrops \in Nat

VARIABLES
    buffers,          \* _buffers: stream -> IngestBuffer or None
    router_dropped,   \* dropped
    out,              \* the units emitted by the last step
    raised            \* did the last step end in an exception from emit?

routerVars == <<buffers, router_dropped, out, raised>>

RouterInit ==
    /\ buffers = [s \in Streams |-> None]
    /\ router_dropped = 0
    /\ out = <<>>
    /\ raised = FALSE

BufferedStreams == {s \in Streams : buffers[s] # None}

\* push() finds or creates the buffer, unless a new stream exceeds the cap.
Admitted(s) == buffers[s] # None \/ Cardinality(BufferedStreams) < max_streams

BufferOf(s) == IF buffers[s] = None THEN NewBuffer ELSE buffers[s]

SetBuffer(s, b) == buffers' = [buffers EXCEPT ![s] = b]

RouterQuiet == out' = <<>> /\ raised' = FALSE

\* The outcomes of calling emit.
EmitOutcomes == IF EmitMayRaise THEN BOOLEAN ELSE {FALSE}

-----------------------------------------------------------------------------
RouterDrops(r) ==
    /\ ~Admitted(r.stream)
    /\ router_dropped < MaxDrops
    /\ router_dropped' = router_dropped + 1
    /\ RouterQuiet
    /\ UNCHANGED buffers

\* Mutant: the context is adopted before the window is flushed.
PushContextAdoptsFirst(r) ==
    /\ r.type = "context"
    /\ Admitted(r.stream)
    /\ LET s == r.stream
           b == BufferOf(s)
           adopted == Adopt(b, r.context)
       IN  \/ /\ ~(IsOpen(b) /\ Differs(b.context, r.context))
              /\ SetBuffer(s, adopted)
              /\ RouterQuiet
           \/ /\ IsOpen(b) /\ Differs(b.context, r.context)
              /\ out' = <<Unit(s, adopted)>>
              /\ raised' \in EmitOutcomes
              /\ SetBuffer(s, Reset(adopted))
    /\ UNCHANGED router_dropped

\* _push_context: a window that the new context would mislabel is flushed
\* before the context is adopted; if emit raises there, it is not adopted.
PushContext(r) ==
    /\ r.type = "context"
    /\ Admitted(r.stream)
    /\ LET s == r.stream
           b == BufferOf(s)
       IN  \/ /\ ~(IsOpen(b) /\ Differs(b.context, r.context))
              /\ SetBuffer(s, Adopt(b, r.context))
              /\ RouterQuiet
           \/ /\ IsOpen(b) /\ Differs(b.context, r.context)
              /\ out' = <<Unit(s, b)>>
              /\ raised' \in EmitOutcomes
              /\ SetBuffer(s, IF raised' THEN Reset(b) ELSE Adopt(Reset(b), r.context))
    /\ UNCHANGED router_dropped

\* _push_data, the early returns: cold start, inert, or not convertible.
RefuseData(r) ==
    /\ r.type = "data"
    /\ Admitted(r.stream)
    /\ NoUsableContext(BufferOf(r.stream)) \/ ~Usable(r)
    /\ BufferOf(r.stream).dropped < MaxDrops
    /\ SetBuffer(r.stream, CountDrop(BufferOf(r.stream)))
    /\ RouterQuiet
    /\ UNCHANGED router_dropped

\* The window is flushed first and emit raises: the record is lost.
CloseRaises(s, b, r) ==
    /\ ClosesFirst(b, r)
    /\ EmitMayRaise
    /\ out' = <<Unit(s, b)>>
    /\ raised' = TRUE
    /\ SetBuffer(s, Reset(b))

\* What is left of the buffer, and what was emitted, once a gap or a changed
\* interpretation has closed the window.
AfterClose(b, r) == IF ClosesFirst(b, r) THEN Reset(b) ELSE b

ClosedUnits(s, b, r) == IF ClosesFirst(b, r) THEN <<Unit(s, b)>> ELSE <<>>

SkipEmpty(s, b, r) ==
    /\ r.len = 0
    /\ out' = ClosedUnits(s, b, r)
    /\ raised' = FALSE
    /\ SetBuffer(s, SkipChunk(AfterClose(b, r), r))

RejectFirst(s, b, r) ==
    /\ r.len # 0
    /\ ~IsOpen(AfterClose(b, r)) /\ ~Latchable(r)
    /\ b.dropped < MaxDrops
    /\ out' = ClosedUnits(s, b, r)
    /\ raised' = FALSE
    /\ SetBuffer(s, CountDrop(AfterClose(b, r)))

\* The append, and the size trigger: the buffer is reset before emit is called.
AppendData(s, b, r) ==
    /\ r.len # 0
    /\ IsOpen(AfterClose(b, r)) \/ Latchable(r)
    /\ LET filled == AppendChunk(AfterClose(b, r), r)
       IN  \/ /\ ~IsFull(filled)
              /\ out' = ClosedUnits(s, b, r)
              /\ raised' = FALSE
              /\ SetBuffer(s, filled)
           \/ /\ IsFull(filled)
              /\ out' = Append(ClosedUnits(s, b, r), Unit(s, filled))
              /\ raised' \in EmitOutcomes
              /\ SetBuffer(s, Reset(filled))

PushData(r) ==
    /\ r.type = "data"
    /\ Admitted(r.stream)
    /\ LET s == r.stream
           b == BufferOf(s)
       IN  /\ ~NoUsableContext(b) /\ Usable(r)
           /\ \/ CloseRaises(s, b, r)
              \/ SkipEmpty(s, b, r)
              \/ RejectFirst(s, b, r)
              \/ AppendData(s, b, r)
    /\ UNCHANGED router_dropped

RouterPush(r) ==
    \/ RouterDrops(r)
    \/ PushContext(r)
    \/ RefuseData(r)
    \/ PushData(r)

-----------------------------------------------------------------------------
\* Mutant: the buffer is reset after emit returns.
FlushEmitsFirst(s) ==
    /\ buffers[s] # None
    /\ \/ /\ ~IsOpen(buffers[s])
          /\ RouterQuiet
          /\ UNCHANGED buffers
       \/ /\ IsOpen(buffers[s])
          /\ out' = <<Unit(s, buffers[s])>>
          /\ raised' \in EmitOutcomes
          /\ SetBuffer(s, IF raised' THEN buffers[s] ELSE Reset(buffers[s]))
    /\ UNCHANGED router_dropped

\* flush() of one buffer: nothing to do unless a window is open.
Flush(s) ==
    /\ buffers[s] # None
    /\ \/ /\ ~IsOpen(buffers[s])
          /\ RouterQuiet
          /\ UNCHANGED buffers
       \/ /\ IsOpen(buffers[s])
          /\ out' = <<Unit(s, buffers[s])>>
          /\ raised' \in EmitOutcomes
          /\ SetBuffer(s, Reset(buffers[s]))
    /\ UNCHANGED router_dropped

\* maybe_flush_on_age() of one buffer.
MaybeFlushOnAge(s) ==
    \/ /\ buffers[s] # None /\ buffers[s].overdue
       /\ Flush(s)
    \/ /\ buffers[s] # None /\ ~buffers[s].overdue
       /\ RouterQuiet
       /\ UNCHANGED <<buffers, router_dropped>>

\* The clock: an open window reaches max_age_s.
WindowAges(s) ==
    /\ buffers[s] # None
    /\ IsOpen(buffers[s]) /\ ~buffers[s].overdue
    /\ SetBuffer(s, [buffers[s] EXCEPT !.overdue = TRUE])
    /\ RouterQuiet
    /\ UNCHANGED router_dropped

\* A router fed by hand with any of the given records, polled and flushed at
\* any time: what a library user of BufferRouter can do.
RouterNext(records) ==
    \/ \E r \in records : RouterPush(r)
    \/ \E s \in Streams : Flush(s) \/ MaybeFlushOnAge(s) \/ WindowAges(s)

\* Any record that push() can be handed: a context the decoder can produce, or
\* data whose interpretation may be absent, unparseable or inconsistent.
AnyRecords ==
    [type : {"context"}, stream : Streams, context : Contexts]
      \cup [type : {"data"}, stream : Streams, seq : Seqs, len : Nat,
            dtype : Dtypes \cup {None}, is_complex : BOOLEAN \cup {None},
            bytes_per_sample : Nat \cup {None}, gap_before : BOOLEAN, under : FlushIds]

AnyRouterSpec == RouterInit /\ [][RouterNext(AnyRecords)]_routerVars

-----------------------------------------------------------------------------
(* Properties.                                                              *)

ConvertsTo(dtype, is_complex, bytes_per_sample) ==
    /\ dtype.kind \in {"i", "u", "f"}
    /\ bytes_per_sample = dtype.itemsize * (IF is_complex THEN 2 ELSE 1)

\* The sum of f over the indices in S, counted element by element.
Counted(f, S) == UNION {{i} \X (1..f[i]) : i \in S}
TotalOver(f, S) == Cardinality(Counted(f, S))

ChunkBytes(chunks) ==
    TotalOver([i \in DOMAIN chunks |-> chunks[i].len], DOMAIN chunks)

\* np.frombuffer(...).view(complex64) in flush() succeeds and yields exactly
\* num_samples samples, whatever records were fed: the window latched an
\* interpretation that converts, and every chunk is whole samples of it.
UnitsConvertible ==
    \A i \in DOMAIN out :
        LET u == out[i] IN
          /\ u.num_samples > 0
          /\ ConvertsTo(u.component_dtype, u.is_complex, u.bytes_per_sample)
          /\ ChunkBytes(u.chunks) = u.num_samples * u.bytes_per_sample

\* The size trigger and the inert flag: between two steps an open window holds
\* at least one and fewer than max_samples samples, and a buffer that adopted an
\* unsupported context has none, so that such a context never labels one.
WindowsBounded ==
    \A s \in BufferedStreams : IsOpen(buffers[s]) =>
        /\ buffers[s].num_samples \in 1..(max_samples - 1)
        /\ ~buffers[s].inert

\* Samples of stream s in its open window, and in the units of the last step.
HeldSamples(s) == IF buffers[s] = None THEN 0 ELSE buffers[s].num_samples

SamplesIn(units, s) ==
    TotalOver([i \in DOMAIN units |-> units[i].num_samples],
              {i \in DOMAIN units : units[i].stream = s})

EmittedSamples(s) == SamplesIn(out, s)

ChunksExtend(longer, chunks) ==
    Len(chunks) <= Len(longer) /\ SubSeq(longer, 1, Len(chunks)) = chunks

\* The chunks held before the step are still held, or lead what was emitted.
StaysOrLeaves(s) ==
    \/ /\ ChunksExtend(buffers'[s].chunks, buffers[s].chunks)
       /\ \A i \in DOMAIN out' : out'[i].stream # s
    \/ /\ out' # <<>> /\ Head(out').stream = s
       /\ ChunksExtend(Head(out').chunks, buffers[s].chunks)
       /\ Len(buffers'[s].chunks) <= 1
       /\ raised' => ~IsOpen(buffers'[s])

\* An open window either stays, perhaps extended, or leaves whole and once:
\* what is emitted starts with all of its chunks, and what the buffer holds
\* next is at most the one chunk pushed after it.  "An emit failure must not
\* leave the window re-emittable": if emit raised, the buffer is empty.
WindowsLeaveWhole ==
    [][\A s \in Streams : HeldSamples(s) > 0 => StaysOrLeaves(s)]_routerVars

=============================================================================
