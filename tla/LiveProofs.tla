------------------------------ MODULE LiveProofs ------------------------------
(***************************************************************************)
(* Proofs about live sessions, for every capacity of the queue, every cap  *)
(* of the recorder and every interleaving of Thread A, Thread B, the       *)
(* watchdog and Ctrl-C.                                                    *)
(***************************************************************************)
EXTENDS LivePipeline, TLAPS

SourcePlaces ==
    {"unstarted", "socket", "bind", "bound", "unbound", "uncaught", "abort", "test", "recv",
     "put", "append", "done"}

MainPlaces ==
    {"start", "started", "test", "get", "work", "flush", "stop", "join", "returned", "exit",
     "save", "done", "crashed"}

LiveTypeOK ==
    /\ source \in SourcePlaces
    /\ pc \in MainPlaces
    /\ watchdog \in {"wait", "check", "stop", "done"}
    /\ exception \in {"none", "emit", "interrupt"}
    /\ bound \in BOOLEAN /\ ready \in BOOLEAN /\ failed \in BOOLEAN /\ stop \in BOOLEAN
    /\ joined \in BOOLEAN /\ bind_failed \in BOOLEAN
    /\ exit_code \in {0, 1}

\* What the place of Thread A says about bound_address and ready, and what the
\* place of the watchdog says about what it has seen of them.
BindInv ==
    /\ source \in {"unstarted", "socket", "bind", "unbound", "uncaught"} => ~bound
    /\ source \in {"bound", "test", "recv", "put", "append"} => bound
    /\ source \in {"unstarted", "socket", "bind", "bound", "unbound", "uncaught"} => ~ready
    /\ watchdog # "wait" => ready
    /\ watchdog \in {"wait", "check"} => ~bind_failed
    /\ watchdog = "stop" => bind_failed
    /\ bind_failed => ready /\ ~bound /\ source \in {"abort", "done"}
    /\ pc = "start" => source = "unstarted"

InLoop == {"start", "started", "test", "get", "work"}

\* Thread B leaves its loop without an exception only if the Event is set, and
\* until it sets the Event itself only the watchdog does, which has noted the
\* failed bind before; the join sees the last thing that Thread A does.
ExitInv ==
    /\ failed => source = "done"
    /\ joined => source = "done"
    /\ pc \in InLoop => exception = "none" /\ ~joined
    /\ stop /\ pc \in InLoop \cup {"flush", "stop"} => bind_failed
    /\ exception = "none" /\ pc \notin InLoop => bind_failed
    /\ exception = "emit" => pc \notin {"exit", "save", "done"}
    /\ pc \in {"save", "done"} =>
         /\ joined /\ failed => exit_code = 1
         /\ exception = "none" => exit_code = 1
         /\ exit_code = 1 => failed \/ bind_failed

\* The recorder has been offered every datagram that was put, but for the one
\* on its way from the queue to the recorder, and has kept a prefix of them.
RecordInv ==
    /\ packets \in Seq([at : Nat, size : Nat])
    /\ offered \in Nat /\ total_bytes \in Nat /\ puts \in Nat /\ datagram \in Nat
    /\ capped \in BOOLEAN
    /\ \A i \in 1..Len(packets) : packets[i].at = i
    /\ Recording => offered = IF source = "append" THEN puts - 1 ELSE puts
    /\ ~Recording => source # "append"
    /\ ~capped => Len(packets) = offered
    /\ max_packets # NoCap => Len(packets) <= max_packets
    /\ max_bytes # NoCap => total_bytes <= max_bytes

ControlInv == LiveTypeOK /\ BindInv /\ ExitInv

-----------------------------------------------------------------------------
(* Threads, watchdog and exit code.                                         *)

\* What main() has wired before run() satisfies the invariant.
LEMMA ControlInit == LiveInit => ControlInv
<1> SUFFICES ASSUME LiveInit
             PROVE  ControlInv
  OBVIOUS
<1> USE DEF LiveInit, SourceInit
<1>1. LiveTypeOK
  BY DEF LiveTypeOK, SourcePlaces, MainPlaces
<1>2. BindInv
  BY DEF BindInv
<1>3. ExitInv
  BY DEF ExitInv, InLoop
<1> QED
  BY <1>1, <1>2, <1>3 DEF ControlInv

\* Thread A never moves what the watchdog or a join that saw its end rely on.
LEMMA ThreadAControl ==
    ASSUME ControlInv, ThreadA
    PROVE  ControlInv'
<1> USE DEF ThreadA, mainVars, watchVars, SourceGoes, SourceOnly, CreateSocket,
       CreateSocketFails, Bind, BindFails, SetReady, AfterReady, Abort, SourceTestsStop,
       RecvTimesOut, RecvFails, Recv, PutDatagram, RecordDatagram
<1>1. LiveTypeOK'
  <2>1. source' \in SourcePlaces
    BY DEF ControlInv, LiveTypeOK, SourcePlaces
  <2>2. bound' \in BOOLEAN /\ ready' \in BOOLEAN /\ failed' \in BOOLEAN
    BY DEF ControlInv, LiveTypeOK
  <2> QED
    BY <2>1, <2>2 DEF ControlInv, LiveTypeOK
<1>2. BindInv'
  BY DEF ControlInv, LiveTypeOK, SourcePlaces, BindInv
<1>3. ExitInv'
  BY DEF ControlInv, LiveTypeOK, SourcePlaces, BindInv, ExitInv, InLoop
<1> QED
  BY <1>1, <1>2, <1>3 DEF ControlInv

\* Thread B, from the start of the source to the exit code.
LEMMA MainControl ==
    ASSUME ControlInv, Main \/ JoinTimesOut \/ Interrupt
    PROVE  ControlInv'
<1> USE DEF Main, sourceVars, watchVars, Goes, StartSource, TestStop, GetItem, Work,
       WorkRaises, FlushAll, StopSource, JoinSource, LeaveRun, DecideExit, Save, SaveFails,
       JoinTimesOut, Interrupt
<1>1. LiveTypeOK'
  <2>1. /\ source' \in SourcePlaces /\ pc' \in MainPlaces /\ exit_code' \in {0, 1}
        /\ exception' \in {"none", "emit", "interrupt"}
    BY DEF ControlInv, LiveTypeOK, SourcePlaces, MainPlaces
  <2>2. stop' \in BOOLEAN /\ joined' \in BOOLEAN
    BY DEF ControlInv, LiveTypeOK
  <2>3. UNCHANGED <<bound, ready, failed, watchdog, bind_failed>>
    OBVIOUS
  <2> QED
    BY <2>1, <2>2, <2>3 DEF ControlInv, LiveTypeOK
<1>2. BindInv'
  BY DEF ControlInv, LiveTypeOK, SourcePlaces, MainPlaces, BindInv
<1>3. ExitInv'
  BY DEF ControlInv, LiveTypeOK, SourcePlaces, MainPlaces, BindInv, ExitInv, InLoop
<1> QED
  BY <1>1, <1>2, <1>3 DEF ControlInv

\* The watchdog acts on what it saw when ready was set.
LEMMA WatchdogControl ==
    ASSUME ControlInv, Watchdog
    PROVE  ControlInv'
<1> USE DEF Watchdog, WatchReady, WatchCheck, WatchStop, sourceVars, mainVars
<1>1. LiveTypeOK'
  BY DEF ControlInv, LiveTypeOK, BindInv
<1>2. BindInv'
  BY DEF ControlInv, LiveTypeOK, SourcePlaces, BindInv
<1>3. ExitInv'
  BY DEF ControlInv, LiveTypeOK, MainPlaces, BindInv, ExitInv, InLoop
<1> QED
  BY <1>1, <1>2, <1>3 DEF ControlInv

\* The invariant of the threads holds throughout a session.
LEMMA ControlInvariant == LiveSpec => []ControlInv
<1>1. ControlInv /\ [LiveNext]_liveVars => ControlInv'
  <2> SUFFICES ASSUME ControlInv, [LiveNext]_liveVars
               PROVE  ControlInv'
    OBVIOUS
  <2>1. CASE UNCHANGED liveVars
    BY <2>1 DEF liveVars, sourceVars, mainVars, watchVars, ControlInv, LiveTypeOK, BindInv,
       ExitInv
  <2> QED
    BY <2>1, ThreadAControl, MainControl, WatchdogControl DEF LiveNext, Finished
<1> QED
  BY <1>1, ControlInit, PTL DEF LiveSpec

\* _watch_bind() reads bound_address while Thread A may be anywhere: since it
\* waits for ready, it never reports a bind that succeeded as failed.
THEOREM WatchdogRight == LiveSpec => []NoFalseBindFailure
<1>1. ControlInv => NoFalseBindFailure
  BY DEF ControlInv, BindInv, NoFalseBindFailure
<1> QED
  BY <1>1, ControlInvariant, PTL

\* main(), as far as the join saw the end of Thread A: it returns 1 for every
\* failure the source noted, whatever watchdog and Ctrl-C do, for one that it did
\* not note unless Ctrl-C ended the session, and for nothing else.
THEOREM ExitCodeRight == LiveSpec => []ExitCodeHonest
<1>1. ControlInv => ExitCodeHonest
  BY DEF ControlInv, LiveTypeOK, BindInv, ExitInv, InLoop, ExitCodeHonest, DiedUnnoted
<1> QED
  BY <1>1, ControlInvariant, PTL

-----------------------------------------------------------------------------
(* The recording.                                                           *)

\* An empty recorder, an empty queue.
LEMMA RecordInit == LiveInit => RecordInv
<1> SUFFICES ASSUME LiveInit
             PROVE  RecordInv
  OBVIOUS
<1>1. /\ packets = <<>> /\ total_bytes = 0 /\ capped = FALSE /\ offered = 0
      /\ puts = 0 /\ datagram = 0 /\ source = "unstarted"
  BY DEF LiveInit, SourceInit, RecorderInit, QueueInit
<1>2. packets \in Seq([at : Nat, size : Nat]) /\ Len(packets) = 0
  BY <1>1
<1>3. capped \in BOOLEAN
  BY <1>1
<1> QED
  BY <1>1, <1>2, <1>3, RecorderAssumption DEF RecordInv

\* append() keeps the recording a prefix of what it was offered, within its caps.
LEMMA AppendKeepsPrefix ==
    ASSUME RecordInv, NEW size \in Nat, RecorderAppend(size)
    PROVE  /\ packets' \in Seq([at : Nat, size : Nat])
           /\ offered' = offered + 1 /\ total_bytes' \in Nat /\ capped' \in BOOLEAN
           /\ \A i \in 1..Len(packets') : packets'[i].at = i
           /\ ~capped' => Len(packets') = offered'
           /\ max_packets # NoCap => Len(packets') <= max_packets
           /\ max_bytes # NoCap => total_bytes' <= max_bytes
<1> DEFINE w == [at |-> offered + 1, size |-> size]
<1>1. /\ packets \in Seq([at : Nat, size : Nat]) /\ w \in [at : Nat, size : Nat]
      /\ offered \in Nat /\ total_bytes \in Nat
      /\ offered' = offered + 1
  BY DEF RecordInv, RecorderAppend
<1>2. CASE capped' = TRUE /\ UNCHANGED <<packets, total_bytes>>
  BY <1>1, <1>2 DEF RecordInv
<1>3. CASE /\ ~capped /\ ~ReachesCap(size)
           /\ packets' = Append(packets, w)
           /\ total_bytes' = total_bytes + size
           /\ UNCHANGED capped
  <2> HIDE DEF w
  <2>1. packets' \in Seq([at : Nat, size : Nat]) /\ Len(packets') = Len(packets) + 1
    BY <1>1, <1>3
  <2>2. ASSUME NEW i \in 1..Len(packets')
        PROVE  packets'[i].at = i
    <3>1. CASE i \in 1..Len(packets)
      BY <1>1, <1>3, <3>1 DEF RecordInv
    <3>2. CASE i = Len(packets) + 1
      BY <1>1, <1>3, <3>2 DEF RecordInv, w
    <3> QED
      BY <1>1, <2>1, <3>1, <3>2
  <2>3. ~capped' /\ capped' \in BOOLEAN /\ Len(packets') = offered'
    BY <1>1, <1>3, <2>1 DEF RecordInv
  <2>4. /\ max_packets # NoCap => Len(packets') <= max_packets
        /\ max_bytes # NoCap => total_bytes' <= max_bytes
    BY <1>1, <1>3, <2>1, RecorderAssumption DEF ReachesCap
  <2> QED
    BY <1>1, <1>3, <2>1, <2>2, <2>3, <2>4
<1> QED
  BY <1>2, <1>3, <1>1 DEF RecorderAppend

\* Thread A serves the queue first and the recorder next; nobody else does.
LEMMA RecordNext == ControlInv /\ RecordInv /\ [LiveNext]_liveVars => RecordInv'
<1> SUFFICES ASSUME ControlInv, RecordInv, [LiveNext]_liveVars
             PROVE  RecordInv'
  OBVIOUS
<1> USE LiveAssumption
<1>1. CASE PutDatagram
  BY <1>1 DEF PutDatagram, Put, recorderVars, RecordInv
<1>2. CASE RecordDatagram
  <2>1. /\ source = "append" /\ source' = "test" /\ puts' = puts /\ datagram' = datagram
        /\ datagram \in Nat /\ RecorderAppend(datagram)
    BY <1>2 DEF RecordDatagram, SourceGoes, queueVars, RecordInv
  <2>2. /\ packets' \in Seq([at : Nat, size : Nat])
        /\ offered' = offered + 1 /\ total_bytes' \in Nat /\ capped' \in BOOLEAN
        /\ \A i \in 1..Len(packets') : packets'[i].at = i
        /\ ~capped' => Len(packets') = offered'
        /\ max_packets # NoCap => Len(packets') <= max_packets
        /\ max_bytes # NoCap => total_bytes' <= max_bytes
    BY <2>1, AppendKeepsPrefix
  <2> QED
    BY <2>1, <2>2 DEF RecordInv
<1>3. ASSUME UNCHANGED <<recorderVars, puts>>, datagram' \in Nat,
             source # "append", source' # "append"
      PROVE  RecordInv'
  BY <1>3 DEF recorderVars, RecordInv
<1>4. ASSUME UNCHANGED <<recorderVars, puts, datagram, source>>
      PROVE  RecordInv'
  BY <1>4 DEF recorderVars, RecordInv
<1>5. CASE ThreadA
  <2>1. CASE PutDatagram \/ RecordDatagram
    BY <1>1, <1>2, <2>1
  <2>2. CASE ~(PutDatagram \/ RecordDatagram)
    <3>1. UNCHANGED <<recorderVars, puts>> /\ datagram' \in Nat
      BY <1>5, <2>2
         DEF ThreadA, SourceOnly, CreateSocket, CreateSocketFails, Bind, BindFails, SetReady,
             Abort, SourceTestsStop, RecvTimesOut, RecvFails, Recv, queueVars, RecordInv
    <3>2. source # "append" /\ source' # "append"
      BY <1>5, <2>2
         DEF ThreadA, SourceGoes, CreateSocket, CreateSocketFails, Bind, BindFails, SetReady,
             AfterReady, Abort, SourceTestsStop, RecvTimesOut, RecvFails, Recv
    <3> QED
      BY <1>3, <3>1, <3>2
  <2> QED
    BY <2>1, <2>2
<1>6. CASE Main \/ JoinTimesOut \/ Interrupt \/ Watchdog \/ Finished \/ UNCHANGED liveVars
  <2>1. CASE StartSource /\ UNCHANGED recorderVars
    BY <1>3, <2>1 DEF StartSource, Goes, queueVars, ControlInv, BindInv, RecordInv
  <2> QED
    BY <1>4, <1>6, <2>1
       DEF Main, TestStop, GetItem, Get, GetNothing, Work, WorkRaises, FlushAll, StopSource,
           JoinSource, LeaveRun, DecideExit, Save, SaveFails, JoinTimesOut, Interrupt,
           Watchdog, Finished, liveVars, sourceVars, queueVars
<1> QED
  BY <1>5, <1>6 DEF LiveNext

\* LiveSource._run() hands every datagram to the recorder, whatever the queue
\* evicts: the recording is the prefix of what arrived, up to its cap.
THEOREM RecordingIsPrefix == LiveSpec => []RecordingComplete
<1>1. RecordInv => RecordingComplete
  BY DEF RecordInv, RecordingComplete
<1> QED
  BY <1>1, ControlInvariant, RecordInit, RecordNext, PTL DEF LiveSpec

\* The datagrams of the recording, by their positions among those received.
Kept == [i \in DOMAIN packets |-> packets[i].at]

Prefix == INSTANCE PrefixRecording
    WITH arrived <- puts, recording <- Kept, over <- capped \/ ~Recording

\* A recording is its own enumeration.
LEMMA KeptInOrder ==
    ASSUME RecordInv
    PROVE  /\ Kept = [i \in 1..Len(packets) |-> i] /\ Len(Kept) = Len(packets)
           /\ Kept \in Seq(Nat)
<1>1. packets \in Seq([at : Nat, size : Nat]) /\ DOMAIN packets = 1..Len(packets)
      /\ Len(packets) \in Nat
  BY DEF RecordInv
<1>2. Kept = [i \in 1..Len(packets) |-> i]
  BY <1>1 DEF Kept, RecordInv
<1> QED
  BY <1>1, <1>2

\* One more packet is one more number.
LEMMA KeptAppended ==
    ASSUME RecordInv, RecordInv', Len(packets') = Len(packets) + 1
    PROVE  Kept' = Append(Kept, Len(packets) + 1)
<1>1. /\ Kept = [i \in 1..Len(packets) |-> i] /\ Len(Kept) = Len(packets)
      /\ Kept \in Seq(Nat)
  BY KeptInOrder
<1>2. Kept' = [i \in 1..Len(packets) + 1 |-> i]
  <2>1. packets' \in Seq([at : Nat, size : Nat]) /\ DOMAIN packets' = 1..Len(packets')
    BY DEF RecordInv
  <2> QED
    BY <2>1 DEF Kept, RecordInv
<1>3. Len(packets) \in Nat
  BY DEF RecordInv
<1>4. PICK n \in Nat : n = Len(packets)
  BY <1>3
<1> QED
  BY <1>1, <1>2, <1>4

\* Each step records the datagram in hand, receives the next, ends the recording
\* or has nothing to do with it.
LEMMA PrefixStep ==
    ASSUME ControlInv, RecordInv, RecordInv', [LiveNext]_liveVars
    PROVE  [Prefix!PrefixNext]_Prefix!recordingVars
<1> USE DEF Prefix!recordingVars
<1>1. CASE PutDatagram
  <2>1. puts' = puts + 1 /\ source = "put" /\ UNCHANGED <<packets, capped>>
    BY <1>1 DEF PutDatagram, Put, recorderVars
  <2>2. Kept' = Kept
    BY <2>1 DEF Kept
  <2>3. capped \/ ~Recording \/ Len(Kept) = puts
    BY <2>1, KeptInOrder DEF RecordInv
  <2> QED
    BY <2>1, <2>2, <2>3 DEF Prefix!PrefixNext, Prefix!Arrive
<1>2. CASE RecordDatagram
  <2>1. source = "append" /\ Recording /\ puts' = puts /\ RecorderAppend(datagram)
    BY <1>2, LiveAssumption DEF RecordDatagram, SourceGoes, queueVars, RecordInv
  <2>2. CASE UNCHANGED <<packets, capped>>
    <3>1. Kept' = Kept
      BY <2>2 DEF Kept
    <3> QED
      BY <2>1, <2>2, <3>1
  <2>3. CASE ~capped /\ capped' = TRUE /\ UNCHANGED packets
    <3>1. Kept' = Kept
      BY <2>3 DEF Kept
    <3> QED
      BY <2>1, <2>3, <3>1 DEF Prefix!PrefixNext, Prefix!Close
  <2>4. CASE /\ ~capped /\ capped' = capped
             /\ packets' = Append(packets, [at |-> offered', size |-> datagram])
    <3>1. packets \in Seq([at : Nat, size : Nat]) /\ Len(packets) = puts - 1 /\ puts \in Nat
      BY <2>1, <2>4 DEF RecordInv
    <3>2. Len(packets') = Len(packets) + 1
      BY <2>4, <3>1
    <3>3. Kept' = Append(Kept, puts) /\ Len(Kept) + 1 = puts
      BY <3>1, <3>2, KeptAppended, KeptInOrder
    <3> QED
      BY <2>1, <2>4, <3>3 DEF Prefix!PrefixNext, Prefix!Keep
  <2> QED
    BY <2>1, <2>2, <2>3, <2>4 DEF RecorderAppend, RecordInv
<1>3. CASE UNCHANGED <<packets, capped, puts>>
  BY <1>3 DEF Kept
<1>4. CASE ThreadA /\ ~PutDatagram /\ ~RecordDatagram
  <2>1. UNCHANGED <<packets, capped, puts>>
    BY <1>4 DEF ThreadA, SourceOnly, CreateSocket, CreateSocketFails, Bind, BindFails, SetReady,
       Abort, SourceTestsStop, RecvTimesOut, RecvFails, Recv, queueVars, recorderVars
  <2> QED
    BY <1>3, <2>1
<1>5. CASE ~ThreadA
  <2>1. UNCHANGED <<packets, capped>>
    BY <1>5 DEF LiveNext, Main, JoinTimesOut, Interrupt, Watchdog, Finished, liveVars,
       recorderVars
  <2>2. UNCHANGED puts
    BY <1>5 DEF LiveNext, Main, StartSource, TestStop, GetItem, Get, GetNothing, Work,
       WorkRaises, FlushAll, StopSource, JoinSource, LeaveRun, DecideExit, Save, SaveFails,
       JoinTimesOut, Interrupt, Watchdog, Finished, liveVars, queueVars
  <2> QED
    BY <1>3, <2>1, <2>2
<1> QED
  BY <1>1, <1>2, <1>4, <1>5 DEF ThreadA

\* LiveSource and Recorder implement a lossless recording: every datagram is
\* recorded before the next one is received, until the cap is reached, and from
\* then on none is, whatever the queue evicts, Thread B does or Ctrl-C strikes.
THEOREM LiveImplementsPrefix == LiveSpec => Prefix!PrefixSpec
<1>1. LiveInit => Prefix!PrefixInit
  <2> SUFFICES ASSUME LiveInit
               PROVE  puts = 0 /\ Kept = <<>> /\ (capped \/ ~Recording) \in BOOLEAN
    BY DEF Prefix!PrefixInit
  <2>1. puts = 0 /\ packets = <<>> /\ capped = FALSE
    BY DEF LiveInit, QueueInit, RecorderInit
  <2>2. Kept = <<>>
    BY <2>1 DEF Kept
  <2> QED
    BY <2>1, <2>2, Zenon
<1> QED
  BY <1>1, PrefixStep, RecordInit, RecordNext, ControlInvariant, PTL
     DEF LiveSpec, Prefix!PrefixSpec

-----------------------------------------------------------------------------
(* The queue.                                                               *)

\* Whatever threads, watchdog and Ctrl-C do, the raw queue of a live session is
\* used through put() and get() only: what RawQueue promises holds there too.
THEOREM LiveImplementsQueue == LiveSpec => QueueSpec
<1>1. LiveInit => QueueInit
  BY DEF LiveInit
<1>2. [LiveNext]_liveVars => [QueueNext]_queueVars
  <2> SUFFICES ASSUME [LiveNext]_liveVars, ~UNCHANGED queueVars
               PROVE  QueueNext
    OBVIOUS
  <2>1. CASE ThreadA
    BY <2>1 DEF ThreadA, SourceOnly, CreateSocket, CreateSocketFails, Bind, BindFails,
       SetReady, Abort, SourceTestsStop, RecvTimesOut, RecvFails, Recv, PutDatagram,
       RecordDatagram, QueueNext
  <2>2. CASE Main
    BY <2>2 DEF Main, StartSource, TestStop, GetItem, Work, WorkRaises, FlushAll, StopSource,
       JoinSource, LeaveRun, DecideExit, Save, SaveFails, QueueNext
  <2> QED
    BY <2>1, <2>2 DEF LiveNext, JoinTimesOut, Interrupt, Watchdog, Finished, liveVars
<1> QED
  BY <1>1, <1>2, PTL DEF LiveSpec, QueueSpec

-----------------------------------------------------------------------------
(* What the liveness of a session rests on besides fairness: the Event is   *)
(* set in time, and once it is each thread has a bounded number of steps.   *)

\* run() is over: main() is past it, or an exception of emit has left it.
PastRun == pc \in {"exit", "save", "done"} \/ (pc = "crashed" /\ exception = "emit")

\* ready is set, and no bound_address.
BindRaised == ready /\ ~bound

\* Whoever must end Thread A, or the session, has set the Event.
StopSetInTime ==
    /\ PastRun => stop
    /\ BindRaised /\ watchdog = "done" => stop

\* The Event is set where the finally clause of run() has passed source.stop(),
\* and only Ctrl-C keeps main() from joining behind it.
StopInv ==
    /\ pc = "join" => stop
    /\ pc = "returned" => stop \/ exception = "interrupt"
    /\ StopSetInTime

\* Steps that Thread A has left at most, once the Event is set.
SourceLeft ==
    CASE source = "unstarted" -> 8
      [] source = "socket" -> 7
      [] source = "bind" -> 6
      [] source \in {"bound", "unbound", "uncaught"} -> 5
      [] source = "recv" -> 4
      [] source = "put" -> 3
      [] source = "append" -> 2
      [] source \in {"test", "abort"} -> 1
      [] source = "done" -> 0

\* Steps that the main thread has left at most, once the Event is set or an
\* exception is on its way.
MainLeft ==
    CASE pc = "start" -> 11
      [] pc = "started" -> 10
      [] pc = "get" -> 9
      [] pc = "work" -> 8
      [] pc = "test" -> 7
      [] pc = "flush" -> 6
      [] pc = "stop" -> 5
      [] pc = "join" -> 4
      [] pc = "returned" -> 3
      [] pc = "exit" -> 2
      [] pc = "save" -> 1
      [] pc \in {"done", "crashed"} -> 0

\* The Event is never cleared, every step of Thread A brings it nearer to its
\* end, and no step of another thread sets it back.
SourceRunsDown ==
    stop => /\ stop'
            /\ SourceLeft' <= SourceLeft
            /\ ThreadA => SourceLeft' < SourceLeft

\* So does every step of the main thread; Ctrl-C never sends it back either.
MainRunsDown ==
    stop \/ exception # "none" =>
        /\ MainLeft' <= MainLeft
        /\ Main \/ JoinTimesOut => MainLeft' < MainLeft

\* Once the Event is set only source.stop(), main() and the watchdog set it.
LEMMA StopStep == ControlInv /\ StopInv /\ [LiveNext]_liveVars => StopInv'
<1> SUFFICES ASSUME ControlInv, StopInv, [LiveNext]_liveVars
             PROVE  StopInv'
  OBVIOUS
<1> USE DEF StopInv, StopSetInTime, PastRun, BindRaised
<1>1. CASE ThreadA
  <2> USE DEF ThreadA, mainVars, watchVars, SourceGoes, SourceOnly, CreateSocket,
         CreateSocketFails, Bind, BindFails, SetReady, AfterReady, Abort, SourceTestsStop,
         RecvTimesOut, RecvFails, Recv, PutDatagram, RecordDatagram
  <2>1. UNCHANGED <<pc, exception, stop, watchdog>>
    BY <1>1
  <2>2. watchdog = "done" => ready
    BY DEF ControlInv, BindInv
  <2>3. ready => bound' = bound
    BY <1>1 DEF ControlInv, BindInv
  <2> QED
    BY <2>1, <2>2, <2>3
<1>2. CASE Main \/ JoinTimesOut \/ Interrupt
  <2> USE DEF Main, sourceVars, watchVars, Goes, StartSource, TestStop, GetItem, Work,
         WorkRaises, FlushAll, StopSource, JoinSource, LeaveRun, DecideExit, Save, SaveFails,
         JoinTimesOut, Interrupt
  <2>1. UNCHANGED <<bound, ready, watchdog>> /\ (stop => stop')
    BY <1>2
  <2>2. /\ pc' = "join" => stop'
        /\ pc' = "returned" => stop' \/ exception' = "interrupt"
    BY <1>2
  <2>3. PastRun' => stop'
    BY <1>2 DEF ControlInv, LiveTypeOK
  <2> QED
    BY <2>1, <2>2, <2>3
<1>3. CASE Watchdog
  <2> USE DEF Watchdog, WatchReady, WatchCheck, WatchStop, sourceVars, mainVars
  <2>1. UNCHANGED <<bound, ready, pc, exception>> /\ (stop => stop')
    BY <1>3
  <2>2. watchdog' = "done" => bound \/ stop'
    BY <1>3
  <2> QED
    BY <2>1, <2>2
<1>4. CASE UNCHANGED liveVars
  BY <1>4 DEF liveVars, sourceVars, mainVars, watchVars
<1> QED
  BY <1>1, <1>2, <1>3, <1>4 DEF LiveNext, Finished

\* Pipeline.run() is not left, and _watch_bind() does not return from a failed
\* bind, before the stop Event is set: no part of main() that follows, no
\* exception of emit and no watchdog leaves a source behind that nobody has told
\* to stop.  (An interrupt inside of source.stop() is survived by main(), which
\* sets the Event itself.)
THEOREM StopAlwaysReached == LiveSpec => []StopSetInTime
<1>1. LiveInit => StopInv
  BY DEF LiveInit, SourceInit, StopInv, StopSetInTime, PastRun, BindRaised
<1>2. StopInv => StopSetInTime
  BY DEF StopInv
<1> QED
  BY <1>1, <1>2, StopStep, ControlInvariant, PTL DEF LiveSpec

\* LiveSource._run() after the Event is set: at most eight steps of its own
\* separate it from its end, at most one datagram is received in them, and
\* nothing another thread does adds to them.
THEOREM StopEndsSource == LiveSpec => [][SourceRunsDown]_liveVars
<1>1. ASSUME ControlInv, [LiveNext]_liveVars, stop, ~UNCHANGED liveVars
      PROVE  stop' /\ SourceLeft' <= SourceLeft /\ (ThreadA => SourceLeft' < SourceLeft)
  <2>1. CASE ThreadA
    <3>1. stop' = stop
      BY <2>1 DEF ThreadA
    <3>2. SourceLeft' < SourceLeft
      BY <1>1, <2>1
         DEF ThreadA, SourceGoes, SourceOnly, CreateSocket, CreateSocketFails, Bind, BindFails,
         SetReady, AfterReady, Abort, SourceTestsStop, RecvTimesOut, RecvFails, Recv,
         PutDatagram, RecordDatagram, SourceLeft
    <3>3. SourceLeft \in Int /\ SourceLeft' \in Int
      BY <1>1, ThreadAControl, <2>1 DEF ControlInv, LiveTypeOK, SourcePlaces, SourceLeft
    <3> QED
      BY <1>1, <3>1, <3>2, <3>3
  <2>2. CASE ~ThreadA
    <3>1. stop'
      BY <1>1, <2>2
         DEF LiveNext, Main, StartSource, TestStop, GetItem, Work, WorkRaises, FlushAll,
         StopSource, JoinSource, LeaveRun, DecideExit, Save, SaveFails, JoinTimesOut, Interrupt,
         Watchdog, WatchReady, WatchCheck, WatchStop, Finished
    <3>2. source' = source \/ (source = "unstarted" /\ source' = "socket")
      BY <1>1, <2>2
         DEF LiveNext, Main, StartSource, Goes, sourceVars, JoinTimesOut, Interrupt, Watchdog,
         Finished, ControlInv, BindInv
    <3>3. source \in SourcePlaces
      BY <1>1 DEF ControlInv, LiveTypeOK
    <3>4. SourceLeft' <= SourceLeft
      <4>1. CASE source' = source
        BY <3>3, <4>1 DEF SourcePlaces, SourceLeft
      <4>2. CASE source = "unstarted" /\ source' = "socket"
        BY <4>2 DEF SourceLeft
      <4> QED
        BY <3>2, <4>1, <4>2
    <3> QED
      BY <2>2, <3>1, <3>4
  <2> QED
    BY <2>1, <2>2
<1>2. ControlInv /\ [LiveNext]_liveVars => [SourceRunsDown]_liveVars
  BY <1>1 DEF SourceRunsDown
<1> QED
  BY <1>2, ControlInvariant, PTL DEF LiveSpec

\* Pipeline.run() and main() after the Event is set, after Ctrl-C or after an
\* exception of emit: at most eleven steps separate the main thread from its
\* end, and neither Ctrl-C again nor another thread adds to them.
THEOREM StopEndsMain == LiveSpec => [][MainRunsDown]_liveVars
<1>1. ASSUME ControlInv, [LiveNext]_liveVars, stop \/ exception # "none", ~UNCHANGED liveVars
      PROVE  MainLeft' <= MainLeft /\ (Main \/ JoinTimesOut => MainLeft' < MainLeft)
  <2>0. MainLeft \in Int
    BY <1>1 DEF ControlInv, LiveTypeOK, MainPlaces, MainLeft
  <2>1. CASE Main \/ JoinTimesOut
    <3>1. pc \in InLoop => stop
      BY <1>1 DEF ControlInv, ExitInv
    <3>2. MainLeft' < MainLeft /\ MainLeft' \in Int
      BY <2>1, <3>1
         DEF InLoop, Main, Goes, StartSource, TestStop, GetItem, Work, WorkRaises, FlushAll,
         StopSource, JoinSource, LeaveRun, DecideExit, Save, SaveFails, JoinTimesOut, MainLeft
    <3> QED
      BY <2>0, <3>2
  <2>2. CASE Interrupt
    <3>1. MainLeft' <= MainLeft
      BY <2>2 DEF Interrupt, MainLeft
    <3>2. ~(Main \/ JoinTimesOut) \/ MainLeft' < MainLeft
      BY <2>1
    <3> QED
      BY <3>1, <3>2
  <2>3. CASE ThreadA \/ Watchdog \/ Finished
    <3>1. pc' = pc
      BY <2>3 DEF ThreadA, Watchdog, Finished, mainVars, liveVars
    <3>2. MainLeft' = MainLeft
      BY <3>1 DEF MainLeft
    <3> QED
      BY <2>0, <2>1, <3>2
  <2> QED
    BY <1>1, <2>1, <2>2, <2>3 DEF LiveNext
<1>2. ControlInv /\ [LiveNext]_liveVars => [MainRunsDown]_liveVars
  BY <1>1 DEF MainRunsDown
<1> QED
  BY <1>2, ControlInvariant, PTL DEF LiveSpec

=============================================================================
