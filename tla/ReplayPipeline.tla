---------------------------- MODULE ReplayPipeline ----------------------------
(***************************************************************************)
(* A replay: Thread A (sources.py, ReplaySource) puts the packets of a     *)
(* capture into the raw queue and ends with SHUTDOWN; Thread B (runtime.py,*)
(* Pipeline.run) takes them out, and joins Thread A on its way out.  The   *)
(* two share the queue and the stop Event, which anyone may set.           *)
(*                                                                         *)
(* Thread B is the one of Ingest; what this module adds is where its       *)
(* datagrams come from and when it leaves its loop.                        *)
(***************************************************************************)
EXTENDS Ingest, RawQueue

CONSTANT
    Captures       \* the captures a replay may be given

ASSUME CapturesAssumption == Captures \subseteq Seq(Datagrams)

VARIABLES
    capture,       \* the packets of the capture
    source,        \* where Thread A is
    sent,          \* packets of the capture put so far
    failed,        \* ReplaySource.failed
    shutdown_at,   \* position of SHUTDOWN among the puts, 0 before it is put
    stop,          \* the stop Event
    tested,        \* Thread B has tested the stop Event and is about to get()
    ending,        \* how Thread B left its loop
    returned,      \* run() has returned or raised
    escapes,       \* an exception of emit is on its way out of run()
    exit_code      \* what main() returns, -1 before it is known

sourceVars == <<capture, source, sent, failed, shutdown_at>>
runVars == <<tested, ending, returned, escapes, exit_code>>
replayVars == <<ingestVars, queueVars, sourceVars, stop, runVars>>

\* A ReplaySource whose thread has just been started.
SourceInit ==
    /\ capture \in Captures
    /\ source = "load"
    /\ sent = 0
    /\ failed = FALSE
    /\ shutdown_at = 0

\* The parts as _build_runtime() wires them.
ReplayInit ==
    /\ IngestInit
    /\ QueueInit
    /\ SourceInit
    /\ stop = FALSE
    /\ tested = FALSE
    /\ ending = "none"
    /\ returned = FALSE
    /\ escapes = FALSE
    /\ exit_code = -1

-----------------------------------------------------------------------------
(* Thread A: ReplaySource._run().                                           *)

\* The capture is opened and unpickled.
Load ==
    /\ source = "load"
    /\ source' = "test"
    /\ UNCHANGED <<capture, sent, failed, shutdown_at, queueVars>>

\* Mutant: the failure is noted only after end-of-stream was signalled.
SourceFailsLate ==
    \/ /\ source \in {"load", "put"}
       /\ Put
       /\ shutdown_at' = puts'
       /\ source' = "failing"
       /\ UNCHANGED <<capture, sent, failed>>
    \/ /\ source = "failing"
       /\ failed' = TRUE
       /\ source' = "done"
       /\ UNCHANGED <<capture, sent, shutdown_at, queueVars>>

\* Opening the capture, or reading one of its packets, raises.
SourceFails ==
    /\ source \in {"load", "put"}
    /\ failed' = TRUE
    /\ source' = "finally"
    /\ UNCHANGED <<capture, sent, shutdown_at, queueVars>>

\* Mutant: the last packet of the capture is left out.
TestStopEarly ==
    /\ source = "test"
    /\ source' = IF stop \/ sent + 1 >= Len(capture) THEN "finally" ELSE "put"
    /\ UNCHANGED <<capture, sent, failed, shutdown_at, queueVars>>

\* The head of the loop; a paced replay also waits on the stop Event here and
\* leaves the loop if it is set meanwhile.
TestStop ==
    /\ source = "test"
    /\ source' = IF stop \/ sent = Len(capture) THEN "finally" ELSE "put"
    /\ UNCHANGED <<capture, sent, failed, shutdown_at, queueVars>>

PacedWaitStopped ==
    /\ source = "put" /\ stop
    /\ source' = "finally"
    /\ UNCHANGED <<capture, sent, failed, shutdown_at, queueVars>>

PutPacket ==
    /\ source = "put"
    /\ Put
    /\ sent' = sent + 1
    /\ source' = "test"
    /\ UNCHANGED <<capture, failed, shutdown_at>>

\* Mutant: end-of-stream is signalled only after a good capture.
PutShutdownOnSuccess ==
    /\ source = "finally"
    /\ \/ ~failed /\ Put /\ shutdown_at' = puts'
       \/ failed /\ UNCHANGED <<queueVars, shutdown_at>>
    /\ source' = "done"
    /\ UNCHANGED <<capture, sent, failed>>

\* The finally clause: end-of-stream is always signalled.
PutShutdown ==
    /\ source = "finally"
    /\ Put
    /\ shutdown_at' = puts'
    /\ source' = "done"
    /\ UNCHANGED <<capture, sent, failed>>

ThreadA ==
    /\ Load \/ SourceFails \/ TestStop \/ PacedWaitStopped \/ PutPacket \/ PutShutdown
    /\ UNCHANGED <<ingestVars, stop, runVars>>

-----------------------------------------------------------------------------
(* Thread B: Pipeline.run().                                                *)

\* while not stop.is_set()
LoopHead ==
    /\ pc = "get" /\ ~tested /\ ~stop
    /\ tested' = TRUE
    /\ UNCHANGED <<ingestVars, queueVars, stop, ending, returned, escapes, exit_code>>

\* Mutant: stop() returns from run() past the finally clause.
LeaveOnStopUnflushed ==
    /\ pc = "get" /\ ~tested /\ stop
    /\ pc' = "done"
    /\ ending' = "stop"
    /\ UNCHANGED <<interpreterVars, routerVars, todo, stale, queueVars, stop, tested,
                   returned, escapes, exit_code>>

LeaveOnStop ==
    /\ pc = "get" /\ ~tested /\ stop
    /\ LeaveLoop
    /\ ending' = "stop"
    /\ UNCHANGED <<queueVars, stop, tested, returned, escapes, exit_code>>

GetPacket ==
    /\ tested
    /\ Get
    /\ got' # shutdown_at
    /\ Receive(capture[got'])
    /\ tested' = FALSE
    /\ UNCHANGED <<stop, ending, returned, escapes, exit_code>>

GetShutdown ==
    /\ tested
    /\ Get
    /\ got' = shutdown_at
    /\ LeaveLoop
    /\ ending' = "shutdown"
    /\ tested' = FALSE
    /\ UNCHANGED <<stop, returned, escapes, exit_code>>

GetTimesOut ==
    /\ tested
    /\ GetNothing
    /\ Timeout
    /\ tested' = FALSE
    /\ UNCHANGED <<stop, ending, returned, escapes, exit_code>>

\* The rest of an iteration, and of the finally clause, is Ingest's.
Iterate ==
    /\ \/ PushRecord
       \/ \E s \in Streams : PollBuffer(s)
       \/ EndIteration
       \/ \E s \in Streams : FlushBuffer(s)
    /\ ending' = IF pc # "finally" /\ pc' = "finally" THEN "exception" ELSE ending
    /\ escapes' = (escapes \/ raised')
    /\ UNCHANGED <<queueVars, stop, tested, returned, exit_code>>

\* source.stop(): the Event is set before Thread A is joined.
StopSource ==
    /\ LeaveRun
    /\ stop' = TRUE
    /\ UNCHANGED <<queueVars, runVars>>

\* join(timeout): Thread A has ended, or two seconds have passed.
JoinSource ==
    /\ pc = "done" /\ ~returned
    /\ source = "done"
    /\ returned' = TRUE
    /\ UNCHANGED <<ingestVars, queueVars, stop, tested, ending, escapes, exit_code>>

\* Mutant: join() without a timeout waits for the end of Thread A.
JoinForever ==
    /\ pc = "done" /\ ~returned
    /\ source = "done"
    /\ returned' = TRUE
    /\ UNCHANGED <<ingestVars, queueVars, stop, tested, ending, escapes, exit_code>>

JoinTimesOut ==
    /\ pc = "done" /\ ~returned
    /\ source # "done"
    /\ returned' = TRUE
    /\ UNCHANGED <<ingestVars, queueVars, stop, tested, ending, escapes, exit_code>>

\* KeyboardInterrupt in the loop.
InterruptRun ==
    /\ Interrupt
    /\ ending' = "exception"
    /\ tested' = FALSE
    /\ UNCHANGED <<queueVars, stop, returned, escapes, exit_code>>

\* The rest of main(), which an exception of emit does not reach.
DecideExit ==
    /\ returned /\ ~escapes /\ exit_code = -1
    /\ exit_code' = IF failed THEN 1 ELSE 0
    /\ UNCHANGED <<ingestVars, queueVars, stop, tested, ending, returned, escapes>>

RunB ==
    /\ LoopHead \/ LeaveOnStop \/ GetPacket \/ GetShutdown \/ GetTimesOut
         \/ Iterate \/ StopSource \/ JoinSource \/ DecideExit
    /\ UNCHANGED sourceVars

\* Pipeline.stop(), from any thread.
CallStop ==
    /\ ~stop
    /\ stop' = TRUE
    /\ UNCHANGED <<ingestVars, queueVars, sourceVars, runVars>>

ReplayNext ==
    \/ ThreadA
    \/ RunB
    \/ (InterruptRun \/ JoinTimesOut) /\ UNCHANGED sourceVars
    \/ CallStop
    \/ /\ \E s \in Streams : TimePasses(s)
       /\ UNCHANGED <<queueVars, sourceVars, stop, runVars>>
    \/ returned /\ UNCHANGED replayVars

ReplaySpec == ReplayInit /\ [][ReplayNext]_replayVars

\* Thread B is scheduled, its waits in get() and join() end with their timeouts.
FairRunSpec ==
    ReplaySpec /\ WF_replayVars(RunB)
               /\ WF_replayVars(JoinTimesOut /\ UNCHANGED sourceVars)

\* Thread A is scheduled too: its paced waits are as long as the capture says.
ThreadAFair == WF_replayVars(ThreadA)

-----------------------------------------------------------------------------
(* Properties.                                                              *)

\* A replay that ends with SHUTDOWN has lost nothing silently: every packet
\* the source put was processed or counted in the queue's dropped, none is
\* left behind, and unless the source failed or was told to stop that is the
\* whole capture.
ReplayComplete ==
    ending = "shutdown" =>
        /\ items = <<>>
        /\ sent + 1 = gets + queue_dropped
        /\ failed \/ stop \/ sent = Len(capture)

\* "1 on a source failure (bad replay ...)", 0 otherwise: Thread B learns of the
\* end from SHUTDOWN and may give up the join, and still main() does not read
\* failed too early.
ExitTellsBadReplay ==
    ending = "shutdown" /\ exit_code # -1 => exit_code = IF failed THEN 1 ELSE 0

\* run() returns and Thread A ends, so that no put follows: a missing or corrupt
\* capture, an overflowing queue, a stop() at any time or an interrupt cannot
\* leave either of them waiting for ever.
ReplayEnds == ThreadAFair => <>(returned /\ source = "done")

\* stop() needs no help from Thread A: even if it is stuck, in unpickling a
\* large capture say, run() flushes, gives up the join, and returns.
StopReturns == stop ~> returned

=============================================================================
