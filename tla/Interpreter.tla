----------------------------- MODULE Interpreter -----------------------------
(***************************************************************************)
(* interpreter.py, class Interpreter: one call of process() per datagram.  *)
(* A call either raises inside the guard (errors), is refused by policy    *)
(* (dropped), adopts a context, or accepts a data packet.  What process()  *)
(* returns is left in the variable record.                                 *)
(***************************************************************************)
EXTENDS Packets

CONSTANT
    MaxRefusals    \* bound on errors + dropped, both unbounded in the code

ASSUME MaxRefusalsAssumption == MaxRefusals \in Nat

VARIABLES
    contexts,              \* _contexts: stream -> adopted context or None
    last_counter,          \* _last_counter: stream -> last data counter or None
    interpreter_errors,    \* errors
    interpreter_dropped,   \* dropped
    record                 \* the value process() returned

interpreterVars ==
    <<contexts, last_counter, interpreter_errors, interpreter_dropped, record>>

InterpreterInit ==
    /\ contexts = [s \in Streams |-> None]
    /\ last_counter = [s \in Streams |-> None]
    /\ interpreter_errors = 0
    /\ interpreter_dropped = 0
    /\ record = None

TrackedStreams == {s \in Streams : contexts[s] # None}

-----------------------------------------------------------------------------
\* Mutant: one stream too many is tracked.
FloodedLate(s) == contexts[s] = None /\ Cardinality(TrackedStreams) > max_streams

\* A new stream when every slot is taken.
Flooded(s) == contexts[s] = None /\ Cardinality(TrackedStreams) >= max_streams

\* Data is interpreted only under a context with a usable payload format.
Decodable(ctx) == ctx # None /\ ctx.supported # FALSE /\ ctx.bytes_per_sample # None

\* The policy drops of _process, in the order of its early returns: the flood
\* check precedes decoding, the context checks precede trimming.
Refused(d) ==
    \/ d.kind = "other"
    \/ d.kind = "context" /\ Flooded(d.stream)
    \/ d.kind = "data" /\ ~Decodable(contexts[d.stream])

\* What raises: the header, a context cut short, or trim_data on a cut packet.
Raises(d) ==
    \/ d.kind = "malformed"
    \/ ~Refused(d) /\ d.kind \in {"context", "data"} /\ d.truncated

\* gap_before: the counter is not the successor, modulo 16, of the last one.
GapBefore(s, seq) ==
    /\ last_counter[s] # None
    /\ packet_counter(seq) # (last_counter[s] + 1) % 16

-----------------------------------------------------------------------------
\* Mutant: the counter is recorded before trim_data, so a truncated packet
\* erases the gap it leaves.
ProcessRaisesAdvances(d) ==
    /\ Raises(d)
    /\ interpreter_errors + interpreter_dropped < MaxRefusals
    /\ interpreter_errors' = interpreter_errors + 1
    /\ record' = None
    /\ last_counter' = IF d.kind = "data"
                       THEN [last_counter EXCEPT ![d.stream] = packet_counter(d.seq)]
                       ELSE last_counter
    /\ UNCHANGED <<contexts, interpreter_dropped>>

ProcessRaises(d) ==
    /\ Raises(d)
    /\ interpreter_errors + interpreter_dropped < MaxRefusals
    /\ interpreter_errors' = interpreter_errors + 1
    /\ record' = None
    /\ UNCHANGED <<contexts, last_counter, interpreter_dropped>>

ProcessDrops(d) ==
    /\ Refused(d)
    /\ interpreter_errors + interpreter_dropped < MaxRefusals
    /\ interpreter_dropped' = interpreter_dropped + 1
    /\ record' = None
    /\ UNCHANGED <<contexts, last_counter, interpreter_errors>>

\* An unsupported context is adopted and passed on like any other.
ProcessContext(d) ==
    /\ d.kind = "context" /\ ~Refused(d) /\ ~Raises(d)
    /\ contexts' = [contexts EXCEPT ![d.stream] = decode_context(d.payload)]
    /\ record' = ContextRecord(d.stream, decode_context(d.payload))
    /\ UNCHANGED <<last_counter, interpreter_errors, interpreter_dropped>>

ProcessData(d) ==
    /\ d.kind = "data" /\ ~Refused(d) /\ ~Raises(d)
    /\ LET ctx == contexts[d.stream] IN
         record' = DataRecord(d.stream, d.seq, trim_data(d.size, ctx.bytes_per_sample),
                              ctx, GapBefore(d.stream, d.seq))
    /\ last_counter' = [last_counter EXCEPT ![d.stream] = packet_counter(d.seq)]
    /\ UNCHANGED <<contexts, interpreter_errors, interpreter_dropped>>

Process(d) ==
    \/ ProcessRaises(d)
    \/ ProcessDrops(d)
    \/ ProcessContext(d)
    \/ ProcessData(d)

=============================================================================
