# Verification of sceptre-pipeline

TLA+ models of the ingest pipeline in `src/sceptre_pipeline`, the TLC
configurations that check them, and TLAPS proofs of all their safety
properties. The capture script in `receiver/` is included. Paths below are relative to the repository.

## 1. The system

UDP datagrams (VITA-49, several streams on one socket) become labelled sample
arrays handed to an `emit` callback:

```
 Thread A                    Thread B = caller of Pipeline.run()
 LiveSource / ReplaySource -> BoundedRawQueue -> Interpreter -> BufferRouter -> emit
          \-> Recorder                                          (one IngestBuffer per stream)
```

| Component | State | Operations | Correct when |
|---|---|---|---|
| `queues.BoundedRawQueue` | deque, drop counter, condition variable | `put` (evicts the oldest when full), `get(timeout)` | keeps the newest items, counts the others, delivers in order, never loses a wakeup, never blocks the producer |
| `formats`, decoding in `interpreter` | none | `parse_header`, `decode_context`, `trim_data` | takes every field from its place, never from outside of the packet, and refuses exactly the truncated ones |
| `interpreter.Interpreter` | context and last packet counter per stream, `errors`, `dropped` | `process(datagram)` | never raises, refuses what it cannot interpret, signals every hole in the counters |
| `buffer.IngestBuffer` | open window (chunks, sample count, latched interpretation, start, age), adopted context, inert flag | `push`, `maybe_flush_on_age`, `flush` | a unit is labelled with the settings its samples arrived under, has no hole, converts, and leaves once |
| `buffer.BufferRouter` | buffer per stream, bounded | `push`, `maybe_flush_on_age`, `flush_all` | agrees with the interpreter on the streams it serves |
| `runtime.Pipeline` | stop Event | `run`, `stop` | polls ages under any traffic, flushes on exit, returns |
| `sources.ReplaySource` | `failed`, stop Event | `start`, `stop`, thread body | always ends with SHUTDOWN, also on a bad capture |
| `sources.LiveSource` | `ready`, `bound_address`, `failed` | `start`, `stop`, thread body | feeds queue and recorder; its failure is noticed |
| `recorder.Recorder` | packets, byte count, capped flag | `append`, `save` | holds a prefix of what arrived; saved when nobody writes |
| `__main__` | bind watchdog, exit code | `main` | ends on a bind failure, truthful exit code |
| `metrics.ThroughputMeter` | totals, jitter buffer and loss integral per stream | `__call__`, `capture_summary` | the loss is that of the windows in time order; efficiency at most 100 %; an OK hides no stream |
| `receiver/recieve_udp.py` | recorder, deadline | `receive_udp` | ends in time, keeps what it received |

What is hard here: two threads, a watchdog and Ctrl-C around one queue and one
Event; an `emit` callback that may raise in the middle of a push, a poll or the
final flush; packets lost, reordered, truncated or repeated; contexts that
change while a window is open; a four-bit counter; caps on streams, queue,
window, jitter buffer and recording; sizes that a packet declares and does not
have. `PROJECT.json` lists these hazards line by line, with the
properties aimed at each.

## 2. The modules

| Module | Models | Notes |
|---|---|---|
| `Packets` | `formats.py` tables; what `decode_payload_format`, `decode_context`, `trim_data` and `parse_header` return | Data only. A datagram keeps what decisions depend on: kind, stream, truncated or not, payload size, context payload. `seq` is the sender's true position; the code sees `seq % 16`. |
| `Decode` | `parse_header`, `decode_context`, `trim_data` at the level of byte offsets | One step per field of the walk. Justifies that `Packets` treats a datagram as truncated or decoded right. |
| `Interpreter` | `Interpreter.process` | One action per outcome: raises (counted in `errors`), dropped by policy, context adopted, data accepted. What `process` returns is in `record`. |
| `IngestBuffer` | `IngestBuffer` | A buffer is a record; each method's effect is an operator. |
| `BufferRouter` | `BufferRouter` and the calls of `emit` | One action per way a push can go; `out` holds the units of the last step, `raised` whether `emit` raised. |
| `Ingest` | `Pipeline.run`, composing the previous two | Thread B with its `finally`. The queue delivers any datagram at any time, so all network behaviour is included. The two loops over the buffers take one step per buffer. |
| `NewestWindow` | the promise of the queue, as an interval of item numbers | The abstract specification; no queue in it. |
| `RawQueue` | `BoundedRawQueue`, `put` and `get` atomic | Shown to implement `NewestWindow`. An item is its position among all puts. |
| `BoundedRawQueue` | the same with lock, waiters, notify, timeouts | Shown to implement `RawQueue`. |
| `ReplayPipeline` | `ReplaySource`, queue, `run()` and the exit code together | Shown to implement `Ingest`; of the queue it uses the operations of `RawQueue` only. |
| `Recorder`, `LivePipeline` | `Recorder`, `LiveSource`, the watchdog, `run()` from `source.start()` on and the end of `main()` around `RawQueue` | What Thread B does with one datagram is left to `Ingest`: an iteration completes or raises. Ctrl-C may strike at every step, more than once. |
| `ThroughputMeter` | `ThroughputMeter` and `_StreamStat` | The heap is a set of arrival numbers from which the least window is taken. |
| `ReceiveUdp` | `recieve_udp.py`, on top of `Recorder` | With a clock that moves between any two steps. |
| `PrefixRecording` | the promise of a recording: what has arrived is kept, in order, before more arrives, until the recording is over | The abstract specification of `Recorder` in both programs. No run uses it; `LiveProofs` and `ReceiveProofs` instantiate it as `Prefix`. |
| `MCIngest`, `MCRouter`, `MCQueue`, `MCReplay`, `MCLive`, `MCMeter`, `MCDecode`, `MCReceive` | instances for TLC | |
| `IngestProofs` | theorems about `Ingest`, and about `BufferRouter` fed with any records | |
| `QueueProofs`, `BoundedProofs` | theorems about `RawQueue` and `BoundedRawQueue` | |
| `ReplayProofs`, `LiveProofs` | theorems about `ReplayPipeline` and `LivePipeline` | `ReplayProofs` builds on `QueueProofs`, `LiveProofs` uses `PrefixRecording`. |
| `DecodeProofs`, `MeterProofs`, `ReceiveProofs` | theorems about `Decode`, `ThroughputMeter` and `ReceiveUdp` | |

Correspondence of state: `contexts`/`last_counter` are `_contexts` and
`_last_counter` with `None` for a missing key; `buffers` is `_buffers`; the
fields of a buffer have the names of the attributes without the underscore,
with `start` for `_start_timestamp` (the position of the first packet) and
`overdue` for the comparison of `_first_arrival` with the clock. Ghosts, which
no action of the code reads: `seq`, `under` (the flush identity a chunk was
interpreted under), `packets` in a buffer, `stale`, `puts`, `gets`, `got`,
`offered`, `joined`, `arrived` of a stream in the meter, `late` and
`interrupted` in the capture script.

Definitions whose comment begins with *Mutant* are deliberate slips in the
operation that follows them. No specification uses them; substituting one for
the operation makes the property it is paired with in `PROJECT.json` fail, so
each property is known to depend on the code it is about.

### Decisions worth knowing

* `emit` is arbitrary: with `EmitMayRaise` every call may raise. A raising
  `emit` propagates out of `push`, skips the rest of the method (a context is
  then not adopted) and sends Thread B to its `finally`.
* The guard around `interpreter.process` in `run()` (runtime.py 101-111) is
  unreachable in the model, because `process` itself catches everything.
* A KeyboardInterrupt is delivered between the steps of the models, which is
  coarser than between bytecodes: an interrupt inside `flush()` between its
  reset and `emit` would lose that window. Interrupts around `source.start()`,
  inside the `finally` and in `main()` are in `LivePipeline` only.
* Gain and bandwidth are not in the flush identity; a window relabelled with a
  new gain is intended (`tests/test_buffer_triggers.py` 140-159), and
  `UnitsLabelled` speaks of the flush identity only. `gain_db` stands for every
  such field.
* Interpreter and router have one constant `max_streams`, as `_build_runtime`
  passes the same value to both.
* Time is discrete. In `ThroughputMeter` windows begin and end on ticks and
  their durations are exact; the code has floats, good to about 0.2 µs for
  dates of our time. In `ReceiveUdp` any number of steps fit into one tick and
  a step may take several. The percentage of the report is rounded as
  `round(x, 1)` does.
* `bind()` may raise something other than an `OSError` (`OverflowError` for a
  port out of range); no `except` of the thread sees it, so `failed` stays
  false and only the watchdog notices.
* A context record whose `context` is `None`, which the interpreter never
  produces, is not enumerated.

## 3. The runs

The longest runs take half a minute, and deadlock is checked in all of them.

| Run | Instance | Shows |
|---|---|---|
| `ingest_one_stream` | one stream; positions 0, 1, 2, 17 (17 and 1 have the same counter); payloads of no, one odd and two samples; six context payloads (another gain, retuned, other format, unsupported, no format word); `max_samples` 3; `emit` may raise | types and completeness of units, `UnitsLabelled`, `UnitsContiguous`, `UnitsInterpretedAsLabelled`, `ContextsAgree`, `SamplesConserved` |
| `ingest_streams` | three streams for two slots; `emit` returns; fair Thread B | `NothingDroppedDownstream`, `AgePolled`, `FlushedOnExit`, `OverdueFlushed` |
| `router` | router fed by hand: wrong sample sizes, byte and invalid dtypes, split samples, missing fields, two streams for one slot | `UnitsConvertible`, `WindowsBounded`, `WindowsLeaveWhole` |
| `queue` | three consumers with timeouts, capacity 2, five puts | refinement of `RawQueue` and of `NewestWindow`, `NewestKept`, `NoLostWakeup`, `WaitersServed` (no timeout has to expire) |
| `replay` | three captures (empty, two streams, a hole and a malformed datagram), queue of 2 so that it overflows, failures, stop and interrupts at any time | refinement of `Ingest`, `ReplayComplete`, `ExitTellsBadReplay`; `ReplayEnds` if Thread A is scheduled, `StopReturns` even if it is not |
| `live` | queue of 1, four datagrams of two sizes, recorder of 3 packets and 4 bytes, Ctrl-C anywhere | `RecordingComplete`, `NoFalseBindFailure`, `ExitCodeHonest`, `BindFailureEnds`, `InterruptEnds`, `NoLeakedSource` |
| `meter` | two streams, five units, jitter buffer of 2; windows of one to three ticks at two rates, nested, repeated, with a small and a large gap; units without rate, time or samples | `MeterBounded`, `IntegrationExact`, `OKMasksNothing`, `LateWithoutGap` |
| `decode` | 16 768 datagrams: all flags of the header, 64 sets of context fields, lengths and declared sizes on and next to each boundary | `FieldsInPlace`, `ReadsInside`, `RefusedIffTruncated`, `NothingLeftOut` |
| `receive` | duration of 3 ticks, clock up to 8, five datagrams, Ctrl-C and failures anywhere | `CaptureKept`, `AtMostOneLate`, `CaptureEnds` |

Bounds: `MaxRefusals`, `MaxDrops` and `MaxPuts` cap counters that nothing in
the code compares with anything, so a small cap only shortens behaviours.
Two samples per packet against `max_samples` 3 let a window be partly filled,
filled exactly past its limit, and closed by every trigger; the window is empty
again after each flush, so longer runs repeat the same situations. As far as
safety is concerned, what a bound could hide is proved for all values (section 5).
In the meter, five windows are two more than the jitter buffer can hold while one
is added, so windows come within and beyond its reach, and `finalize` finds it
full. In the capture script `MaxTime` leaves room for a wait
that begins as late as the clock may get outside of a wait; five datagrams
are enough to fill a whole duration and to be late twice.

### Disagreements with the documentation

Three runs are expected to fail; each states what a comment claims.

* `ingest_exit`: `runtime.py` 77 says that on *every* exit the `finally`
  flushes the window of every stream. `flush_all` stops at the first `emit`
  that raises; the windows of the remaining streams are lost.
* `ingest_gapless`: `buffer.py` 24 says that every emitted array is contiguous
  in sample time. The loss of exactly 16 packets is invisible in the counter.
* `live_save`: `recorder.py` 47 says that `save` happens after the source has
  stopped. TLC's trace is a Ctrl-C between `source.start()` and the `try` of `run()`:
  no `finally` runs and nobody joins, `main()` catches it, and Thread A, which
  received a datagram before the Event was set, appends it while `save` pickles the
  list. A join that times out, or is interrupted by a second Ctrl-C, allows the
  same. The property asks only that no append is due; a Thread A that will
  find the Event set before it receives anything would break the wording of the
  comment, but do no harm.

A fourth disagreement has no run of its own, because a property that holds states
it exactly. `__main__.py` 211 promises exit code 1 on a source failure or a live
bind failure. Two failures end Thread A without `failed`: `socket.socket()` raises
(`sources.py` 132, outside of the `try`), or `bind()` raises something other than an
`OSError` (a port out of range). In the first case `ready` is never set, the
watchdog never wakes up, and after the Ctrl-C that is needed to end the session
`main()` returns 0, even though the join saw Thread A dead. In the second the
watchdog notes the failure, but a Ctrl-C may let `main()` read `bind_failed`
before. `ExitCodeHonest` says that, once the join saw the end of Thread A, these are
all such cases (`DiedUnnoted`, ended by Ctrl-C): any failure that was noted gives 1,
one that was not gives 1 unless Ctrl-C ended the session, and nothing else gives 1.

Three behaviours that no document describes showed up on the way. A socket error
after a successful bind, or a failure to create the socket at all, ends Thread A
without SHUTDOWN and without setting the stop Event, and the watchdog looks at
the bind only, so `run()` polls an empty queue until Ctrl-C (`InterruptEnds`: it
does end then). An exception of `emit` leaves `main()` past `recorder.save()`, so
the recording of that session is not written. And `recieve_udp.py` handles the
timeout and Ctrl-C only: another socket error in the middle of a capture discards
what was captured.

## 4. Fairness

* `FairIngestSpec`: weak fairness of Thread B as a whole. `get` returns after
  `poll_interval` at the latest and nothing else in the loop blocks. Ctrl-C and
  the clock have none: nobody has to press it, and a window need not age.
* `FairBoundedSpec`: a consumer that was woken eventually gets the lock. No
  consumer has to call `get` and no producer `put`.
* `FairRunSpec`: Thread B and the timeout of its join. `ThreadAFair`, that of
  Thread A, whose paced waits end with the recorded intervals, is a hypothesis of
  `ReplayEnds` and not of `StopReturns`.
* `FairLiveSpec`: Thread A (`recvfrom` has a timeout of 0.5 s), the main thread,
  the join's timeout, the watchdog. Ctrl-C has none, and no datagram has to
  arrive.
* `FairReceiveSpec`: the steps of the script, and the clock. The sender owes
  nothing, so the wait for the first datagram may last for ever.

## 5. The proofs

`tlapm M.tla` for each of the eight proof modules. Every safety property that a
passing run checks is the statement of a theorem. The theorems hold for all values
of the constants that satisfy the named assumptions, among them: finitely many
streams, natural limits, `max_samples` and the capacity of the queue at least 1,
and `None` different from every other value.

**Ingest.** The properties of emitted units are not inductive: whether a unit is
labelled right depends on the window it was, on the context of its buffer, and on
what the interpreter knew when it made the record that is about to be pushed.
The invariant `IInv` therefore has these parts:

* `BuffersOK`: an open window is latched, labelled and chained as its buffer's
  context says, is not full, and belongs to a buffer that is not inert;
* `AgreementOK`: at the head of the loop and while polling, buffer and
  interpreter agree on the context, and the interpreter's last counter is that
  of the window's last packet; while a record is in hand, all other streams
  agree and the record *fits* its buffer (`Fits`), or is the very context the
  interpreter has just adopted;
* `TrackingOK`: no more than `max_streams` streams are tracked, which with
  `AgreementOK` gives that the router never refuses one;
* `StaleOK`: windows that were overdue when the iteration began are still among
  the buffers to visit;
* `OutOK` and the type invariant.

The lemmas follow the code: what the decoder guarantees (dtype, complexity and
sample size of a context agree: `ContextFacts`), what each operation on a buffer
preserves, what a push or a flush does to the router, and one lemma per action.
From `IInv` follow `IngestTypeCorrect`, `NoMislabelledUnit`, `NoHiddenGap`,
`NoMisinterpretedUnit`, `NoDownstreamDrop`, `OneContextPerStream`,
`NoAgeStarvation` and `WindowLimits`. `ExitFlushes` adds, under the assumption
that `emit` does not raise, that the buffers `flush_all` has visited are empty.
`ExitLeavesUnreached` makes no such assumption and says what an exception costs:
windows are left behind in one event only, a raise for one stream inside
`flush_all`, and they are those of the buffers it had not reached; the window it
raised for has left. This is the exact form of what `ingest_exit` shows.

**Router.** `AnyRouterSpec` is a router that may be handed any record at all: any
length, interpretations that are missing, wrong or not numeric. Its invariant
`RouterInv` says of an open window that its latched interpretation converts, that
the bytes of its chunks are exactly `num_samples` samples of it, and that it is not
full. Every step on a buffer has one shape (`Moves`): what is emitted converts,
and the old chunks are still held or lead what was emitted. This gives
`AnyFlushConverts`, `AnyWindowLeavesWhole` and `AnyWindowBounded`. What
Thread B does to the router the hand-fed router may do (`IngestMovesRouter`), so
`IngestFlushConverts` and `IngestWindowLeavesWhole` follow.
`NoSampleLostOrDoubled` keeps the books (`Accounts`): a step on a buffer emits
what the buffer loses, plus what the record brings; only a flush that raises before the
append, or an interrupt before it, loses the record, and then Thread B leaves the
loop from the push; on every other step, all other ways out of the loop included,
the books balance exactly. Totals over sequences are
defined as sizes of sets (`TotalOver`: the elements counted one by one), because a
recursive sum could not be reasoned about; a total grows by what is appended
(`CountedAdd`).

**Queue.** `QueueInv` is inductive: the queue holds the consecutive newest puts,
so the number evicted is known. It gives `QueueKeepsNewest` and
`QueueDeliversInOrder`. `BoundedImplementsQueue` maps every step of the condition
variable to a step of the queue or to a stutter, and `QueueImplementsWindow` maps
the queue to `NewestWindow`: by `QueueInv` the interval that can still be had is
determined by the number of puts and the length of the queue.
`BoundedLosesNoWakeup` counts: a put adds at most one item and one notified
consumer, a get takes at most one of each, and a consumer starts to wait only on
an empty queue.

**Replay.** Every step of the composition is a step of `Ingest` or leaves its
variables alone (`ReplayImplementsIngest`), for which it must be known that what
`get` returns is a packet of the capture or SHUTDOWN (`GotFromCapture`, from
`QueueInv` and `SourceInv`). So all theorems about `Ingest` hold for replays; by
`ReplayImplementsQueue` those about the queue do, too. `SourceInv` says for each
place of Thread A how many puts there have been: SHUTDOWN is the last one. With
`QueueInv`, a Thread B that has dequeued SHUTDOWN has an empty queue before it,
which is `ReplayLosesNothing`; and `failed` is never written after the sentinel
was put, which is `ReplayExitRight`. Two action properties bound the threads by a
number that every step of theirs decreases and no other thread increases:
`SourceAlwaysEnds` (at most 2n + 3 steps of Thread A for n packets) and
`StopBoundsRun` (at most 2n + 7 steps of Thread B for n streams, once it is told to
stop or leaves its loop).

**Live sessions.** `ControlInv` says for each place of Thread A what `bound`,
`ready` and `failed` are, and for each place of the watchdog what it has seen of
them (`BindInv`, hence `WatchdogRight`); and that before Thread B sets the Event itself
only the watchdog can have set it, after it noted a failed bind, so that a loop
left without an exception means a failed bind (`ExitInv`, hence `ExitCodeRight`, with
the exception that section 3 describes).
`RecordInv` counts: the recorder was offered every datagram that was put, but for
the one between queue and recorder, and is not capped as long as it kept them all
(`RecordingIsPrefix`). `LiveImplementsQueue` is the refinement of `RawQueue`,
`LiveImplementsPrefix` that of `PrefixRecording`: a datagram is received when it is
put on the queue, and the recording is over when it is capped or was not asked for.
`StopAlwaysReached` says that no way past `run()` and no failed bind leaves the
Event clear, by an invariant (`StopInv`) on the place of each thread. From
then on Thread A has at most eight steps left (`StopEndsSource`) and the main thread
at most eleven, also after an exception and under further Ctrl-C (`StopEndsMain`).

**Capture script.** A late datagram leaves a clock that the next test of the
deadline sees (`DeadlineInv`, hence `CaptureInTime`). `CaptureInv` counts for each
place of the script what was received, recorded and is in hand (`CaptureComplete`).
`CaptureImplementsPrefix` is the refinement of `PrefixRecording`. `WaitsAreBounded`:
`settimeout` never gets zero or less, nor more than the duration. After the deadline
at most five steps are left, however many datagrams arrive (`DeadlineEndsCapture`).

**Decoding.** The walk over the fields is its own induction: at any time the
offset is the size of the announced fields that have been passed, the bits
still to do are below them, and of the passed ones the used fields have been taken
(`WalkInv`). The place of a field is defined as the size of the announced
fields before it, so that the next step of the walk takes the field from its
place. Sizes are again set sizes. `FieldsRight`, `NeverReadsOutside`, `RefusesTruncated`
and `DecodesEverything` speak of all lengths, flags, declared sizes and indicators.

**Meter.** `IntegrationIsExact` relates the incremental integration to a loss that
is defined instant by instant over all windows. Within the reach of the
jitter buffer, windows are committed in the order of their times (`OrderInv`): were one
committed too early, the buffer was full then (`FullInv`), and all that it held would
have overtaken the late one, which is more than the reach allows. In this order
a new window adds exactly the instants between the frontier and its beginning,
at the rate of the window at the frontier (`LossOfNext`, `CommitInOrder`). Out of
that order only the frontier is known (`FrontierInv`), which is enough for
`EfficiencyAndMemoryBounded`; `LateAddsNoLoss` is an action property of one
commit. `NoStreamIsMasked` combines exactness with the choice of the worst stream
and the rounding of its percentage. That a window's samples fill a whole number of
ticks is an assumption on the units (`MeterAssumption`), see section 2.

**Only model-checked.** Liveness, which the prover cannot treat: `OverdueFlushed`,
`WaitersServed`, `ReplayEnds`, `StopReturns`, `BindFailureEnds`, `InterruptEnds`,
`NoLeakedSource` and `CaptureEnds`. For the last six the counting part is proved: the
threads run down in a known number of steps. What only TLC shows is that at
each place before the end some step is enabled, and that fairness takes it.
The properties of these countings (`SourceRunsDown`, `RunRunsDown`, `MainRunsDown`,
`CaptureRunsDown`), `StopSetInTime`, `WaitBounded`, `LeavesUnreached` and the two
refinements of `PrefixRecording` are stated in the proof modules only and appear
in no run, because the proofs cover every instance.

## 6. Not modelled

* Numbers: the fixed-point scaling of context fields, the conversion of samples in
  `flush()` (the models keep the conditions under which numpy accepts it), and the
  rounding of float timestamps.
* Argument parsing, printing, `summary()` (one line with a wall-clock rate),
  logging and its rate limits, among them the bounded set of format words already
  logged.
* Pickling: a capture loads or it does not, a file is written or it is not.
* Interrupts between bytecodes inside one step.
* The build scripts, which are no part of the running system.

## 7. What could follow

* Interrupts between the bytecodes of `flush()` and of the `finally` clause, which
  needs a finer grain than one step per statement with an effect.
* Timestamps as floats in the meter: an error bound on the efficiency in terms of
  the resolution of the dates.
* A live session composed with `Ingest`, as `ReplayPipeline` is; `LivePipeline`
  leaves an iteration's work abstract.
* The remaining half of the liveness properties, with a prover that supports
  ENABLED.
