---------------------------- MODULE ThroughputMeter ----------------------------
(***************************************************************************)
(* metrics.py: ThroughputMeter sits between the buffers and the consumer,  *)
(* tallies every emitted unit, and at the end judges per stream how much   *)
(* of the declared sample stream arrived.  A _StreamStat integrates its    *)
(* windows over sample time behind a jitter buffer of fixed size, a heap   *)
(* that puts reordered windows back into order.                            *)
(*                                                                         *)
(* Sample time is discrete here and windows fill whole ticks; the code     *)
(* computes with floats.  arrived numbers the windows of a stream by their *)
(* arrival and the heap holds their numbers, so that what the heap did can *)
(* be compared with what arrived.  Bytes, bandwidth and wall-clock rates   *)
(* only appear in log lines and are left out.                              *)
(***************************************************************************)
EXTENDS Integers, Sequences, FiniteSets

CONSTANTS
    Streams,          \* stream identifiers
    EmittedUnits,     \* the units that may be emitted
    REORDER_WINDOW,   \* _REORDER_WINDOW, the depth of the jitter buffer
    MaxUnits,         \* bound on the number of units, unbounded in the code
    None              \* Python's None

\* A unit's rate or start may be missing, and a decoded rate may be zero or
\* negative; a missing sample count is 0.
Units ==
    [stream : Streams, num_samples : Nat, rate : Int \cup {None}, start : Nat \cup {None}]

\* Only such a unit has a place in sample time.
IsPlaced(u) ==
    u.rate # None /\ u.start # None /\ u.rate > 0 /\ u.num_samples > 0

ASSUME MeterAssumption ==
    /\ None \notin Int
    /\ REORDER_WINDOW \in Nat /\ MaxUnits \in Nat
    /\ EmittedUnits \subseteq Units
    /\ \A u \in EmittedUnits : IsPlaced(u) => u.num_samples % u.rate = 0

VARIABLES
    streams,         \* _streams: stream -> _StreamStat or None
    total_samples,   \* total_samples
    unit_count,      \* unit_count
    phase,           \* "run", then "finalize" in capture_summary(), then "done"
    report           \* what capture_summary() returned

meterVars == <<streams, total_samples, unit_count, phase, report>>

NewStat ==
    [total_samples |-> 0, delivered |-> 0, expected |-> 0, last_end |-> None,
     cur_rate |-> None, arrived |-> <<>>, pending |-> {},
     rate |-> None, rate_changed |-> FALSE]

ASSUME NoStatAssumption == None # NewStat

MeterInit ==
    /\ streams = [s \in Streams |-> None]
    /\ total_samples = 0
    /\ unit_count = 0
    /\ phase = "run"
    /\ report = None

-----------------------------------------------------------------------------
(* _StreamStat.                                                             *)

\* The order of the tuples (ts, rate, n) in the heap.
Earlier(v, w) ==
    \/ v.ts < w.ts
    \/ v.ts = w.ts /\ v.rate < w.rate
    \/ v.ts = w.ts /\ v.rate = w.rate /\ v.n < w.n

End(w) == w.ts + w.n \div w.rate

Extends(st, w) == st.last_end = None \/ End(w) > st.last_end

\* The samples the stream produced in the gap before w, at the rate in effect.
GapLoss(st, w) ==
    IF st.last_end # None /\ w.ts > st.last_end
    THEN st.cur_rate * (w.ts - st.last_end)
    ELSE 0

\* Mutant: the gap is charged whatever its sign.
commit_signed_gap(st, w) ==
    [st EXCEPT !.expected = @ + w.n + (IF st.last_end = None THEN 0
                                       ELSE st.cur_rate * (w.ts - st.last_end)),
               !.delivered = @ + w.n,
               !.last_end = IF Extends(st, w) THEN End(w) ELSE @,
               !.cur_rate = IF Extends(st, w) THEN w.rate ELSE @]

\* Mutant: every window becomes the frontier, also one that is nested or late.
commit_moves_back(st, w) ==
    [st EXCEPT !.expected = @ + GapLoss(st, w) + w.n,
               !.delivered = @ + w.n,
               !.last_end = End(w),
               !.cur_rate = w.rate]

\* _commit(): a window adds its samples and the loss before it; the frontier
\* and its rate move only if the window ends beyond the frontier.
commit(st, w) ==
    [st EXCEPT !.expected = @ + GapLoss(st, w) + w.n,
               !.delivered = @ + w.n,
               !.last_end = IF Extends(st, w) THEN End(w) ELSE @,
               !.cur_rate = IF Extends(st, w) THEN w.rate ELSE @]

\* Mutant: first in, first out.
OldestByArrival(st) == CHOOSE i \in st.pending : \A j \in st.pending : i <= j

\* The least element of the heap.
Oldest(st) ==
    CHOOSE i \in st.pending : \A j \in st.pending : ~Earlier(st.arrived[j], st.arrived[i])

HeapPush(st, w) ==
    [st EXCEPT !.arrived = Append(@, w), !.pending = @ \cup {Len(st.arrived) + 1}]

\* heappop() and _commit().
CommitOldest(st) ==
    commit([st EXCEPT !.pending = @ \ {Oldest(st)}], st.arrived[Oldest(st)])

IsOverfull(st) == Cardinality(st.pending) > REORDER_WINDOW

add(st, w) == IF IsOverfull(HeapPush(st, w)) THEN CommitOldest(HeapPush(st, w))
                                             ELSE HeapPush(st, w)

-----------------------------------------------------------------------------
(* ThroughputMeter.                                                         *)

StatOf(s) == IF streams[s] = None THEN NewStat ELSE streams[s]

\* A declared rate replaces the one before and marks a retuned stream.
Tally(st, u) ==
    [st EXCEPT !.total_samples = @ + u.num_samples,
               !.rate = IF u.rate = None THEN @ ELSE u.rate,
               !.rate_changed = @ \/ (u.rate # None /\ st.rate # None /\ u.rate # st.rate)]

\* __call__(): counted before the consumer is called, so it does not matter
\* whether the consumer raises.
Call(u) ==
    /\ phase = "run" /\ unit_count < MaxUnits
    /\ unit_count' = unit_count + 1
    /\ total_samples' = total_samples + u.num_samples
    /\ LET st == Tally(StatOf(u.stream), u)
           w  == [ts |-> u.start, rate |-> u.rate, n |-> u.num_samples]
       IN  streams' = [streams EXCEPT ![u.stream] = IF IsPlaced(u) THEN add(st, w) ELSE st]
    /\ UNCHANGED <<phase, report>>

\* capture_summary() after run() is over; without samples it returns None.
BeginSummary ==
    /\ phase = "run"
    /\ phase' = IF total_samples = 0 THEN "done" ELSE "finalize"
    /\ UNCHANGED <<streams, total_samples, unit_count, report>>

\* One iteration of finalize().
Finalize(s) ==
    /\ phase = "finalize"
    /\ streams[s] # None /\ streams[s].pending # {}
    /\ streams' = [streams EXCEPT ![s] = CommitOldest(streams[s])]
    /\ UNCHANGED <<total_samples, unit_count, phase, report>>

Seen == {s \in Streams : streams[s] # None}

Declared == {s \in Seen : streams[s].rate # None}

Measurable == {s \in Declared : streams[s].expected > 0}

Finalized == \A s \in Seen : streams[s].pending = {}

Returns(r) ==
    /\ phase = "finalize" /\ Finalized
    /\ report' = r
    /\ phase' = "done"
    /\ UNCHANGED <<streams, total_samples, unit_count>>

\* Stream t lost a larger share than stream s.
LostMore(t, s) ==
    streams[t].delivered * streams[s].expected < streams[s].delivered * streams[t].expected

\* Mutant: the best stream speaks for all.
BestStream == CHOOSE s \in Measurable : \A t \in Measurable : ~LostMore(s, t)

WorstStream == CHOOSE s \in Measurable : \A t \in Measurable : ~LostMore(t, s)

\* round(100.0 * delivered / expected, 1), in tenths of a percent.
Tenths(st) ==
    LET q == (1000 * st.delivered) \div st.expected
        r == 2 * ((1000 * st.delivered) % st.expected)
    IN  IF r > st.expected \/ (r = st.expected /\ q % 2 = 1) THEN q + 1 ELSE q

Verdict(tenths) ==
    IF tenths >= 900 THEN "OK" ELSE IF tenths >= 500 THEN "PARTIAL" ELSE "SEVERE"

ReportUnknown == Declared = {} /\ Returns([kind |-> "rate unknown"])

ReportTooShort == Declared # {} /\ Measurable = {} /\ Returns([kind |-> "too short"])

\* The clean form names one steady stream; every other form carries the flags.
ReportVerdict ==
    /\ Measurable # {}
    /\ Returns([kind |-> "assessed",
                verdict |-> Verdict(Tenths(streams[WorstStream])),
                clean |-> /\ Cardinality(Declared) = 1
                          /\ Seen = Measurable
                          /\ \A s \in Declared : ~streams[s].rate_changed,
                retuned |-> \E s \in Declared : streams[s].rate_changed,
                not_assessable |-> Cardinality(Declared) - Cardinality(Measurable),
                undeclared |-> Cardinality(Seen \ Declared)])

MeterNext ==
    \/ \E u \in EmittedUnits : Call(u)
    \/ BeginSummary
    \/ \E s \in Streams : Finalize(s)
    \/ ReportUnknown \/ ReportTooShort \/ ReportVerdict
    \/ phase = "done" /\ UNCHANGED meterVars

MeterSpec == MeterInit /\ [][MeterNext]_meterVars

-----------------------------------------------------------------------------
(* Properties.                                                              *)

\* "Efficiency can never exceed 100%", whatever duplicates, overlaps, retunes
\* and reordering the units show; and memory is bounded however they arrive: a
\* jitter buffer never holds more than REORDER_WINDOW windows.
MeterBounded ==
    \A s \in Seen :
        /\ streams[s].delivered <= streams[s].expected
        /\ Cardinality(streams[s].pending) <= REORDER_WINDOW

Committed(st) == DOMAIN st.arrived \ st.pending

\* "A very late window commits with no gap": if a window with a later place in
\* sample time was committed before it, it adds its own samples and no loss.
LateWithoutGap ==
    [][\A s \in Seen :
         \A i \in Committed(streams'[s]) \ Committed(streams[s]) :
            (\E j \in Committed(streams[s]) :
                Earlier(streams'[s].arrived[i], streams[s].arrived[j]))
            => streams'[s].expected = streams[s].expected + streams'[s].arrived[i].n]_meterVars

\* Reference.  The windows arrived in an order that the jitter buffer can undo:
\* nobody is overtaken by more than REORDER_WINDOW later ones.
WithinJitterBuffer(st) ==
    \A i \in DOMAIN st.arrived :
        Cardinality({j \in 1..(i - 1) : Earlier(st.arrived[i], st.arrived[j])})
            <= REORDER_WINDOW

SamplesOf(st, some) == UNION {{i} \X (1..st.arrived[i].n) : i \in some}

Samples(st) == Cardinality(SamplesOf(st, DOMAIN st.arrived))

\* The instants before the end of a window and not before the start of all that
\* no window covers.
LostInstants(windows) ==
    {t \in UNION {0..(End(w) - 1) : w \in windows} :
       /\ \E w \in windows : w.ts <= t
       /\ \A w \in windows : ~(w.ts <= t /\ t < End(w))}

\* The rate in effect at a lost instant: that of the window that reached
\* furthest before it, of the earliest such window if there are several.
RateAt(windows, t) ==
    LET before == {w \in windows : End(w) <= t}
        last   == {w \in before : \A v \in before : End(v) <= End(w)}
    IN  (CHOOSE w \in last : \A v \in last : ~Earlier(v, w)).rate

\* The samples that were produced at the lost instants.
LossOf(windows) ==
    UNION {{t} \X (1..RateAt(windows, t)) : t \in LostInstants(windows)}

WindowsOf(st, some) == {st.arrived[i] : i \in some}

Loss(st) == Cardinality(LossOf(WindowsOf(st, DOMAIN st.arrived)))

\* What the incremental integration arrives at is the loss defined instant by
\* instant, in whatever order within the jitter buffer's reach the windows
\* came, across retunes, rates that recur, nested and repeated windows.
IntegrationExact ==
    phase = "done" /\ report # None =>
        \A s \in Seen :
            WithinJitterBuffer(streams[s]) =>
                /\ streams[s].delivered = Samples(streams[s])
                /\ streams[s].expected = Samples(streams[s]) + Loss(streams[s])

\* "No stream masks another's loss": when the report says OK, every stream that
\* emitted anything either delivered at least 89.95 % of what it declared, by
\* the reference, or was reordered beyond the jitter buffer, or is flagged as
\* undeclared or not assessable, and then the report is not the clean form.
OKMasksNothing ==
    phase = "done" /\ report # None /\ report.kind = "assessed" /\ report.verdict = "OK" =>
        \A s \in Seen :
            LET st == streams[s] IN
              \/ st.rate = None /\ report.undeclared > 0 /\ ~report.clean
              \/ st.arrived = <<>> /\ report.not_assessable > 0 /\ ~report.clean
              \/ ~WithinJitterBuffer(st)
              \/ /\ st.arrived # <<>>
                 /\ 2000 * Samples(st) >= 1799 * (Samples(st) + Loss(st))

=============================================================================
