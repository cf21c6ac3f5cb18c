----------------------------- MODULE LivePipeline -----------------------------
(***************************************************************************)
(* A live session of the command line: Thread A (sources.py, LiveSource)   *)
(* receives datagrams and hands each to the raw queue and to the recorder; *)
(* Thread B, the main thread, is in Pipeline.run(); a watchdog (__main__)  *)
(* ends the run if the socket could not be bound.  When run() is over,     *)
(* main() computes the exit code and saves the recording.                  *)
(*                                                                         *)
(* What Thread B does with a datagram is the subject of Ingest; here one   *)
(* iteration of its loop completes or ends in an exception of emit.        *)
(***************************************************************************)
EXTENDS RawQueue, Recorder

CONSTANTS
    Recording,       \* was --record given?
    DatagramSizes,   \* sizes of the datagrams that arrive
    EmitMayRaise     \* can the emit callback raise?

ASSUME LiveAssumption ==
    Recording \in BOOLEAN /\ DatagramSizes \subseteq Nat /\ EmitMayRaise \in BOOLEAN

VARIABLES
    source,        \* where Thread A is
    datagram,      \* size of the datagram Thread A has in hand
    bound,         \* bound_address is set
    ready,         \* the ready Event
    failed,        \* LiveSource.failed
    stop,          \* the stop Event
    pc,            \* where Thread B is, in run() and then in main()
    exception,     \* the exception that is leaving run()
    joined,        \* ghost: the join saw the end of Thread A
    watchdog,      \* where the watchdog is
    bind_failed,   \* the bind_failed Event
    exit_code,     \* what main() will return
    saved          \* the recording was written

sourceVars == <<source, datagram, bound, ready, failed>>
mainVars == <<pc, exception, joined, exit_code, saved>>
watchVars == <<watchdog, bind_failed>>
liveVars ==
    <<queueVars, recorderVars, sourceVars, stop, mainVars, watchVars>>

\* A LiveSource, not started.
SourceInit ==
    /\ source = "unstarted" /\ datagram = 0
    /\ bound = FALSE /\ ready = FALSE /\ failed = FALSE

\* _build_runtime() has wired the parts; main() is about to call run(), and the
\* watchdog is under way.
LiveInit ==
    /\ QueueInit
    /\ RecorderInit
    /\ SourceInit
    /\ stop = FALSE
    /\ pc = "start" /\ exception = "none" /\ joined = FALSE
    /\ exit_code = 0 /\ saved = FALSE
    /\ watchdog = "wait" /\ bind_failed = FALSE

-----------------------------------------------------------------------------
(* Thread A: LiveSource._run().                                             *)

SourceGoes(from, to) == source = from /\ source' = to

\* Only the place of Thread A changes.
SourceOnly == UNCHANGED <<datagram, bound, ready, failed, queueVars, recorderVars>>

\* Mutant: ready is set before the socket is bound.
CreateSocketReady ==
    /\ SourceGoes("socket", "bind")
    /\ ready' = TRUE
    /\ UNCHANGED <<datagram, bound, failed, queueVars, recorderVars>>

CreateSocket == SourceGoes("socket", "bind") /\ SourceOnly

\* socket.socket() is outside of the try: the thread dies without a trace.
CreateSocketFails == SourceGoes("socket", "done") /\ SourceOnly

Bind ==
    /\ SourceGoes("bind", "bound")
    /\ bound' = TRUE
    /\ UNCHANGED <<datagram, ready, failed, queueVars, recorderVars>>

\* bind() raises OSError, or OverflowError for a port out of range, which no
\* except clause of the thread is for.
BindFails ==
    /\ source = "bind"
    /\ source' \in {"unbound", "uncaught"}
    /\ SourceOnly

\* Where Thread A goes from the finally clause around bind().
AfterReady(from) ==
    CASE from = "bound" -> "test" [] from = "unbound" -> "abort" [] from = "uncaught" -> "done"

\* Mutant: ready is set only if the bind succeeded.
SetReadyOnSuccess ==
    /\ source \in {"bound", "unbound", "uncaught"}
    /\ ready' = bound
    /\ source' = AfterReady(source)
    /\ UNCHANGED <<datagram, bound, failed, queueVars, recorderVars>>

\* ready is set whether or not the bind succeeded, and after bound_address.
SetReady ==
    /\ source \in {"bound", "unbound", "uncaught"}
    /\ ready' = TRUE
    /\ source' = AfterReady(source)
    /\ UNCHANGED <<datagram, bound, failed, queueVars, recorderVars>>

\* except OSError, the only place that notes the failure.
Abort ==
    /\ SourceGoes("abort", "done")
    /\ failed' = TRUE
    /\ UNCHANGED <<datagram, bound, ready, queueVars, recorderVars>>

SourceTestsStop == SourceGoes("test", IF stop THEN "done" ELSE "recv") /\ SourceOnly

\* recvfrom(): its timeout, an error, or a datagram.
RecvTimesOut == SourceGoes("recv", "test") /\ SourceOnly

RecvFails == SourceGoes("recv", "abort") /\ SourceOnly

Recv(size) ==
    /\ SourceGoes("recv", "put")
    /\ puts < MaxPuts
    /\ datagram' = size
    /\ UNCHANGED <<bound, ready, failed, queueVars, recorderVars>>

\* The two sinks, the lossy one first.
PutDatagram ==
    /\ source = "put"
    /\ Put
    /\ source' = IF Recording THEN "append" ELSE "test"
    /\ UNCHANGED <<datagram, bound, ready, failed, recorderVars>>

RecordDatagram ==
    /\ SourceGoes("append", "test")
    /\ RecorderAppend(datagram)
    /\ UNCHANGED <<datagram, bound, ready, failed, queueVars>>

ThreadA ==
    /\ \/ CreateSocket \/ CreateSocketFails
       \/ Bind \/ BindFails \/ SetReady \/ Abort
       \/ SourceTestsStop \/ RecvTimesOut \/ RecvFails
       \/ \E size \in DatagramSizes : Recv(size)
       \/ PutDatagram \/ RecordDatagram
    /\ UNCHANGED <<stop, mainVars, watchVars>>

-----------------------------------------------------------------------------
(* Thread B: Pipeline.run(), then the rest of main().                       *)

Goes(from, to) == pc = from /\ pc' = to

\* source.start(), the only step of run() in front of its try.
StartSource ==
    /\ Goes("start", "started")
    /\ source' = "socket"
    /\ UNCHANGED <<datagram, bound, ready, failed>>
    /\ UNCHANGED <<queueVars, stop, exception, joined, exit_code, saved>>

TestStop ==
    /\ \/ Goes("test", IF stop THEN "flush" ELSE "get")
       \/ Goes("started", "test")
    /\ UNCHANGED <<queueVars, stop, exception, joined, exit_code, saved>>

\* A datagram or a timeout; either way the router is called next.
GetItem ==
    /\ Goes("get", "work")
    /\ Get \/ GetNothing
    /\ UNCHANGED <<stop, exception, joined, exit_code, saved>>

Work ==
    /\ Goes("work", "test")
    /\ UNCHANGED <<queueVars, stop, exception, joined, exit_code, saved>>

WorkRaises ==
    /\ Goes("work", "flush") /\ EmitMayRaise
    /\ exception' = "emit"
    /\ UNCHANGED <<queueVars, stop, joined, exit_code, saved>>

\* Mutant: no finally clause around flush_all(), so that an exception of emit
\* skips the join.
FlushAllBare ==
    /\ pc = "flush"
    /\ \/ pc' = "stop" /\ UNCHANGED exception
       \/ EmitMayRaise /\ pc' = "returned" /\ exception' = "emit"
    /\ UNCHANGED <<queueVars, stop, joined, exit_code, saved>>

\* flush_all(); an exception replaces the one that is being handled.
FlushAll ==
    /\ Goes("flush", "stop")
    /\ \/ UNCHANGED exception
       \/ EmitMayRaise /\ exception' = "emit"
    /\ UNCHANGED <<queueVars, stop, joined, exit_code, saved>>

StopSource ==
    /\ Goes("stop", "join")
    /\ stop' = TRUE
    /\ UNCHANGED <<queueVars, exception, joined, exit_code, saved>>

JoinSource ==
    /\ Goes("join", "returned") /\ source = "done"
    /\ joined' = TRUE
    /\ UNCHANGED <<queueVars, stop, exception, exit_code, saved>>

\* main() survives a KeyboardInterrupt and sets the Event again; an exception
\* of emit ends the program here.
LeaveRun ==
    /\ Goes("returned", IF exception = "emit" THEN "crashed" ELSE "exit")
    /\ stop' = (stop \/ exception = "interrupt")
    /\ UNCHANGED <<queueVars, exception, joined, exit_code, saved>>

\* Mutant: only the watchdog's verdict counts.
DecideExitBindOnly ==
    /\ Goes("exit", IF Recording THEN "save" ELSE "done")
    /\ exit_code' = IF bind_failed THEN 1 ELSE 0
    /\ UNCHANGED <<queueVars, stop, exception, joined, saved>>

DecideExit ==
    /\ Goes("exit", IF Recording THEN "save" ELSE "done")
    /\ exit_code' = IF bind_failed \/ failed THEN 1 ELSE 0
    /\ UNCHANGED <<queueVars, stop, exception, joined, saved>>

Save ==
    /\ Goes("save", "done")
    /\ saved' = TRUE
    /\ UNCHANGED <<queueVars, stop, exception, joined, exit_code>>

\* The file cannot be written: the exception leaves main().
SaveFails ==
    /\ Goes("save", "crashed")
    /\ UNCHANGED <<queueVars, stop, exception, joined, exit_code, saved>>

Main ==
    /\ \/ StartSource
       \/ /\ \/ TestStop \/ GetItem \/ Work \/ WorkRaises
             \/ FlushAll \/ StopSource \/ JoinSource
             \/ LeaveRun \/ DecideExit \/ Save \/ SaveFails
          /\ UNCHANGED sourceVars
    /\ UNCHANGED <<recorderVars, watchVars>>

\* Two seconds pass before Thread A ends.
JoinTimesOut ==
    /\ Goes("join", "returned") /\ source # "done"
    /\ UNCHANGED <<queueVars, recorderVars, sourceVars, watchVars, stop, exception,
                   joined, exit_code, saved>>

\* Mutant: a guard of the loop that catches KeyboardInterrupt as well.
InterruptSwallowed ==
    /\ pc = "work" /\ pc' = "test"
    /\ exception' = "interrupt"
    /\ UNCHANGED <<queueVars, recorderVars, sourceVars, watchVars, stop, joined,
                   exit_code, saved>>

\* Ctrl-C.  In the loop it starts the finally clause; before its try, around
\* source.start(), it leaves run() at once; in flush_all() it is no different
\* from an exception of emit; it cuts source.stop() short, before the Event is
\* set or in the join.  main() survives it only around run(): not in its own
\* except clause, nor in the lines that follow.
Interrupt ==
    /\ \/ pc \in {"start", "started"} /\ pc' = "returned"
       \/ pc \in {"test", "get", "work"} /\ pc' = "flush"
       \/ pc = "flush" /\ pc' = "stop"
       \/ pc \in {"stop", "join", "returned"} /\ pc' = "returned"
       \/ pc = "returned" /\ exception = "interrupt" /\ pc' = "crashed"
       \/ pc \in {"exit", "save"} /\ pc' = "crashed"
    /\ exception' = "interrupt"
    /\ UNCHANGED <<queueVars, recorderVars, sourceVars, watchVars, stop, joined,
                   exit_code, saved>>

-----------------------------------------------------------------------------
(* The watchdog: _watch_bind().                                             *)

WatchReady ==
    /\ watchdog = "wait" /\ ready
    /\ watchdog' = "check"
    /\ UNCHANGED <<bind_failed, stop>>

WatchCheck ==
    /\ watchdog = "check"
    /\ bind_failed' = ~bound
    /\ watchdog' = IF bound THEN "done" ELSE "stop"
    /\ UNCHANGED stop

WatchStop ==
    /\ watchdog = "stop"
    /\ stop' = TRUE
    /\ watchdog' = "done"
    /\ UNCHANGED bind_failed

Watchdog ==
    /\ WatchReady \/ WatchCheck \/ WatchStop
    /\ UNCHANGED <<queueVars, recorderVars, sourceVars, mainVars>>

Finished == pc \in {"done", "crashed"} /\ UNCHANGED liveVars

LiveNext == ThreadA \/ Main \/ JoinTimesOut \/ Interrupt \/ Watchdog \/ Finished

LiveSpec == LiveInit /\ [][LiveNext]_liveVars

\* All threads are scheduled; recvfrom(), get() and join() have timeouts.
FairLiveSpec ==
    /\ LiveSpec
    /\ WF_liveVars(ThreadA)
    /\ WF_liveVars(Main)
    /\ WF_liveVars(JoinTimesOut)
    /\ WF_liveVars(Watchdog)

-----------------------------------------------------------------------------
(* Properties.                                                              *)

\* "A raw_queue overflow can never cost the recorder a packet", and the cap
\* keeps a prefix: the recording is exactly the first packets received, all of
\* them as long as it is not capped, whatever the queue has evicted.
RecordingComplete ==
    /\ \A i \in DOMAIN packets : packets[i].at = i
    /\ Recording /\ ~capped =>
         Len(packets) = IF source = "append" THEN puts - 1 ELSE puts
    /\ max_packets # NoCap => Len(packets) <= max_packets
    /\ max_bytes # NoCap => total_bytes <= max_bytes

\* The watchdog never takes a socket that is bound for one that is not, although
\* it reads bound_address from another thread.
NoFalseBindFailure == bind_failed => ~bound

\* Thread A died of an exception that none of its except clauses is for: from
\* socket.socket(), which is outside of the try, or from a bind() that raised
\* something other than OSError.
DiedUnnoted == source = "done" /\ ~bound /\ ~failed

\* The exit code, provided that the join saw the end of Thread A.  It is 1 for every
\* failure that Thread A noted, an OSError of bind() or of a later call, also
\* when Ctrl-C beats the watchdog; for one that it did not note, unless Ctrl-C
\* ended the session; and for nothing else.  ("Returns 0 on success, 1 on a source
\* failure (bad replay / live bind failure)", says main(): the second conjunct is as
\* much of that as the code keeps.)
ExitCodeHonest ==
    pc = "done" /\ joined =>
        /\ failed => exit_code = 1
        /\ DiedUnnoted /\ exception # "interrupt" => exit_code = 1
        /\ exit_code = 1 => failed \/ DiedUnnoted

Over == pc \in {"done", "crashed"}

\* A failed bind ends the session, although nothing arrives on the queue.
BindFailureEnds == source \in {"unbound", "uncaught"} ~> Over

\* "Ctrl-C stops it cleanly", wherever it strikes, and also a session that has
\* nothing else to end it: one whose Thread A died without SHUTDOWN.
InterruptEnds == exception = "interrupt" ~> Over

\* No "leaked recv loop": once main() is past run(), or an exception of emit has
\* left it, Thread A comes to its end, also where nobody joined it.
NoLeakedSource ==
    (pc \in {"exit", "save", "done"} \/ (pc = "crashed" /\ exception = "emit"))
        ~> source \in {"unstarted", "done"}

\* "save/reads happen after the source has stopped": while save() pickles the
\* packets, Thread A is not about to append another one to them.  (Where it is
\* still alive, but will find the Event set before it receives anything,
\* that does no harm.)
SavedAfterSource == pc = "save" => source # "append"

=============================================================================
