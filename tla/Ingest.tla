-------------------------------- MODULE Ingest --------------------------------
(***************************************************************************)
(* runtime.py, Pipeline.run(): Thread B.  Each iteration takes one datagram *)
(* (or times out), lets the interpreter process it, pushes the record it   *)
(* returned through the router, and polls the age trigger of every buffer. *)
(* On every exit the finally clause flushes every buffer.                  *)
(*                                                                         *)
(* Here the queue may deliver any datagram at any time, so loss, reorder   *)
(* and duplication on the network are all included.  The two loops over    *)
(* the buffers are one step per buffer, in any order.                      *)
(***************************************************************************)
EXTENDS Interpreter, BufferRouter

VARIABLES
    pc,      \* where Thread B is
    todo,    \* buffers that the current loop over the buffers has yet to visit
    stale    \* ghost: streams whose window was overdue when this iteration
             \* of the loop began and has not been flushed since

threadVars == <<pc, todo, stale>>

ingestVars == <<interpreterVars, routerVars, threadVars>>

IngestInit ==
    /\ InterpreterInit
    /\ RouterInit
    /\ pc = "get"
    /\ todo = {}
    /\ stale = {}

Overdue(s) == buffers[s] # None /\ buffers[s].overdue

\* The windows that stay overdue across a step.
StillStale == stale' = {s \in stale : buffers'[s] # None /\ buffers'[s].overdue}

BeginIteration == stale' = {s \in Streams : Overdue(s)}

StartLoop(label) == pc' = label /\ todo' = {s \in Streams : buffers'[s] # None}

-----------------------------------------------------------------------------
\* get() returned a datagram and the interpreter processed it.
Receive(d) ==
    /\ pc = "get"
    /\ Process(d)
    /\ RouterQuiet
    /\ UNCHANGED <<buffers, router_dropped>>
    /\ IF record' = None THEN StartLoop("poll") ELSE pc' = "push" /\ UNCHANGED todo
    /\ BeginIteration

\* Mutant: a timeout goes straight back to the head of the loop.
TimeoutWithoutPoll ==
    /\ pc = "get"
    /\ RouterQuiet
    /\ UNCHANGED <<interpreterVars, buffers, router_dropped, pc, todo>>
    /\ BeginIteration

\* get() returned None: nothing arrived, only the age trigger is polled.
Timeout ==
    /\ pc = "get"
    /\ RouterQuiet
    /\ UNCHANGED <<interpreterVars, buffers, router_dropped>>
    /\ StartLoop("poll")
    /\ BeginIteration

\* Mutant: the age trigger is polled only when nothing arrives.
PushWithoutPoll ==
    /\ pc = "push"
    /\ RouterPush(record)
    /\ record' = None
    /\ IF raised' THEN StartLoop("finally") ELSE pc' = "get" /\ UNCHANGED todo
    /\ StillStale
    /\ UNCHANGED <<contexts, last_counter, interpreter_errors, interpreter_dropped>>

\* router.push(record); an exception from emit goes to the finally clause.
PushRecord ==
    /\ pc = "push"
    /\ RouterPush(record)
    /\ record' = None
    /\ StartLoop(IF raised' THEN "finally" ELSE "poll")
    /\ StillStale
    /\ UNCHANGED <<contexts, last_counter, interpreter_errors, interpreter_dropped>>

\* One iteration of router.maybe_flush_on_age().
PollBuffer(s) ==
    /\ pc = "poll" /\ s \in todo
    /\ MaybeFlushOnAge(s)
    /\ IF raised' THEN StartLoop("finally") ELSE pc' = pc /\ todo' = todo \ {s}
    /\ StillStale
    /\ UNCHANGED interpreterVars

\* Back to the head of the loop, where the stop Event is tested.
EndIteration ==
    /\ pc = "poll" /\ todo = {}
    /\ pc' = "get"
    /\ RouterQuiet
    /\ UNCHANGED <<interpreterVars, buffers, router_dropped, todo, stale>>

\* Mutant: the loop ends without flush_all().
LeaveLoopUnflushed ==
    /\ pc = "get"
    /\ RouterQuiet
    /\ UNCHANGED <<interpreterVars, buffers, router_dropped, todo, stale>>
    /\ pc' = "finally"

\* The loop ends: SHUTDOWN was dequeued, or the stop Event is set.
LeaveLoop ==
    /\ pc = "get"
    /\ RouterQuiet
    /\ UNCHANGED <<interpreterVars, buffers, router_dropped, stale>>
    /\ StartLoop("finally")

\* KeyboardInterrupt is delivered to Thread B, the main thread; a record that
\* was not yet pushed is lost.
Interrupt ==
    /\ pc \in {"get", "push", "poll"}
    /\ record' = None
    /\ RouterQuiet
    /\ UNCHANGED <<contexts, last_counter, interpreter_errors, interpreter_dropped,
                   buffers, router_dropped, stale>>
    /\ StartLoop("finally")

\* One iteration of router.flush_all(); an exception ends the loop.
FlushBuffer(s) ==
    /\ pc = "finally" /\ s \in todo
    /\ Flush(s)
    /\ todo' = IF raised' THEN {} ELSE todo \ {s}
    /\ StillStale
    /\ UNCHANGED <<interpreterVars, pc>>

\* The inner finally: source.stop() runs whether or not flush_all raised.
LeaveRun ==
    /\ pc = "finally" /\ todo = {}
    /\ pc' = "done"
    /\ RouterQuiet
    /\ UNCHANGED <<interpreterVars, buffers, router_dropped, todo, stale>>

\* Time passes at any point of run().
TimePasses(s) ==
    /\ pc # "done"
    /\ WindowAges(s)
    /\ UNCHANGED <<interpreterVars, threadVars>>

Terminated == pc = "done" /\ UNCHANGED ingestVars

ThreadB ==
    \/ \E d \in Datagrams : Receive(d)
    \/ Timeout
    \/ PushRecord
    \/ \E s \in Streams : PollBuffer(s)
    \/ EndIteration
    \/ LeaveLoop
    \/ \E s \in Streams : FlushBuffer(s)
    \/ LeaveRun

IngestNext ==
    \/ ThreadB
    \/ Interrupt
    \/ \E s \in Streams : TimePasses(s)
    \/ Terminated

IngestSpec == IngestInit /\ [][IngestNext]_ingestVars

\* Thread B is never blocked for good: get() returns after poll_interval at the
\* latest and no other call of the loop waits.
FairIngestSpec == IngestSpec /\ WF_ingestVars(ThreadB)

-----------------------------------------------------------------------------
(* Properties.                                                              *)

ContextRecords == [type : {"context"}, stream : Streams, context : Contexts]

DataRecords ==
    [type : {"data"}, stream : Streams, seq : Seqs, len : Nat, dtype : Dtypes,
     bytes_per_sample : Nat, is_complex : BOOLEAN, gap_before : BOOLEAN,
     under : FlushIds]

ASSUME NoRecordAssumption == None \notin ContextRecords \cup DataRecords

Units ==
    [stream : Streams, context : Contexts, chunks : Seq(Chunks), packets : Seq(Seqs),
     num_samples : Nat, component_dtype : Dtypes, is_complex : BOOLEAN,
     bytes_per_sample : Nat, start : Seqs]

\* Types of the state of Interpreter, BufferRouter and Pipeline.run().  That a
\* unit is always complete (a context, a latched interpretation and a start)
\* is the part that is not evident from the assignments.
IngestTypeOK ==
    /\ contexts \in [Streams -> Contexts \cup {None}]
    /\ last_counter \in [Streams -> (0..15) \cup {None}]
    /\ interpreter_errors \in Nat
    /\ interpreter_dropped \in Nat
    /\ record \in ContextRecords \cup DataRecords \cup {None}
    /\ buffers \in [Streams -> Buffers \cup {None}]
    /\ router_dropped \in Nat
    /\ out \in Seq(Units)
    /\ raised \in BOOLEAN
    /\ pc \in {"get", "push", "poll", "finally", "done"}
    /\ todo \subseteq Streams
    /\ stale \subseteq Streams

Labelled(chunks, ctx) == \A i \in DOMAIN chunks : chunks[i].under = FlushId(ctx)

Chained(packets) ==
    \A i \in 1..Len(packets) - 1 :
        packet_counter(packets[i + 1]) = (packet_counter(packets[i]) + 1) % 16

\* "A window can never be mis-labeled by its successor's settings": every chunk
\* of an emitted unit was interpreted under the flush identity of the unit's
\* label, whatever contexts arrived while its window was open.
UnitsLabelled == \A i \in DOMAIN out : Labelled(out[i].chunks, out[i].context)

\* Within an emitted unit the packet counters follow each other modulo 16, the
\* packets with an empty payload included, and the unit is stamped with the
\* time of its first packet.  A lost, late, truncated or refused packet closes
\* the window before the next one is appended, unless a multiple of sixteen
\* packets is missing (UnitsGapless).
UnitsContiguous ==
    \A i \in DOMAIN out :
        Chained(out[i].packets) /\ out[i].start = Head(out[i].packets)

\* The samples of a unit are converted the way its own label says.
UnitsInterpretedAsLabelled ==
    \A i \in DOMAIN out :
        LET u == out[i] IN
          /\ u.component_dtype = u.context.component_dtype
          /\ u.is_complex = u.context.is_complex
          /\ u.bytes_per_sample = u.context.bytes_per_sample

\* Interpreter and router, given the same max_streams, refuse the same streams
\* and the same data: what the interpreter lets through is never dropped by
\* the router or by a buffer.
NothingDroppedDownstream ==
    /\ router_dropped = 0
    /\ \A s \in BufferedStreams : buffers[s].dropped = 0

\* Outside of a push, the buffers label windows with the very contexts the
\* interpreter decodes with.
ContextsAgree ==
    pc \in {"get", "poll"} =>
        /\ BufferedStreams = TrackedStreams
        /\ \A s \in BufferedStreams : buffers[s].context = contexts[s]

\* The age trigger is polled in every iteration for every stream, busy or idle:
\* a window that was overdue when an iteration began is gone when it ends.
AgePolled == pc = "get" => stale = {}

\* "On EVERY exit the finally flushes the final partial window of every stream."
FlushedOnExit == pc = "done" => \A s \in BufferedStreams : ~IsOpen(buffers[s])

\* Every packet of an emitted unit is the true successor of the one before:
\* "every emitted array is contiguous in sample time".
UnitsGapless ==
    \A i \in DOMAIN out : \A j \in 1..Len(out[i].packets) - 1 :
        out[i].packets[j + 1] = out[i].packets[j] + 1

PendingSamples(s) ==
    IF record # None /\ record.type = "data" /\ record.stream = s
    THEN record.len \div record.bytes_per_sample
    ELSE 0

\* An exception of emit or an interrupt abandons the loop between the interpreter
\* and the end of the push.
AbandonsPush == pc = "push" /\ pc' = "finally"

\* The samples held, in hand or received in this step are those held, in hand or
\* emitted after it; abandoning a push takes the whole record in hand, and that only.
ConservesSamples(s) ==
    LET before == HeldSamples(s) + PendingSamples(s)
                    + (IF pc = "get" THEN PendingSamples(s)' ELSE 0)
        after  == HeldSamples(s)' + EmittedSamples(s)' + PendingSamples(s)'
    IN  \/ after = before
        \/ AbandonsPush /\ after = before - PendingSamples(s)

\* Between the interpreter and emit no sample is emitted twice, and none is lost
\* but those of the record in hand, when an exception or an interrupt abandons its
\* push.  No exit from the loop, and no exception in it, a poll or flush_all(),
\* takes a sample of a window from its buffer without handing it to emit.
SamplesConserved == [][\A s \in Streams : ConservesSamples(s)]_ingestVars

\* An overdue window does not wait for its own stream's next packet.
OverdueFlushed == \A s \in Streams : Overdue(s) ~> ~Overdue(s)

=============================================================================
