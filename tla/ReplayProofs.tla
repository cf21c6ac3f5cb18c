----------------------------- MODULE ReplayProofs -----------------------------
(***************************************************************************)
(* Proofs about replays, for every set of captures, every capacity of the  *)
(* queue and every interleaving of Thread A, Thread B, stop() and Ctrl-C:  *)
(* a replay implements Ingest, so all that is proved of Ingest holds for   *)
(* it, it accounts for every packet, and its exit code is right.           *)
(***************************************************************************)
EXTENDS ReplayPipeline, QueueProofs, FiniteSetTheorems

\* Where Thread A is tells how many of the puts were packets of the capture;
\* SHUTDOWN is the last of all puts.
SourceInv ==
    /\ capture \in Seq(Datagrams)
    /\ source \in {"load", "test", "put", "finally", "done"}
    /\ sent \in Nat /\ sent <= Len(capture)
    /\ source = "put" => sent < Len(capture)
    /\ source # "done" => shutdown_at = 0 /\ puts = sent
    /\ source = "done" => shutdown_at = sent + 1 /\ puts = sent + 1
    /\ source \in {"finally", "done"} => failed \/ stop \/ sent = Len(capture)

\* SHUTDOWN has been dequeued only if nothing is behind it, and main() reads
\* failed only when run() is over.
EndInv ==
    /\ ending = "shutdown" => source = "done" /\ items = <<>>
    /\ exit_code # -1 => returned
    /\ returned => pc = "done"
    /\ ExitTellsBadReplay

ReplayInv == QueueInv /\ SourceInv /\ EndInv

-----------------------------------------------------------------------------
\* What get() returns was put: a packet of the capture, or SHUTDOWN.
LEMMA GotFromCapture ==
    ASSUME QueueInv, SourceInv, Get
    PROVE  /\ got' \in 1..puts /\ got' = puts - Len(items) + 1
           /\ got' # shutdown_at => capture[got'] \in Datagrams
           /\ got' = shutdown_at => source = "done" /\ items' = <<>>
<1>1. /\ items \in Seq(Nat) /\ items # <<>> /\ Len(items) <= puts /\ puts \in Nat
      /\ \A i \in 1..Len(items) : items[i] = puts - Len(items) + i
      /\ got' = Head(items) /\ items' = Tail(items)
  BY DEF QueueInv, QueueTypeOK, NewestKept, Get
<1>2. Len(items) \in Nat \ {0} /\ got' = items[1]
  BY <1>1
<1>3. got' = puts - Len(items) + 1 /\ got' \in 1..puts
  BY <1>1, <1>2
<1>4. ASSUME got' # shutdown_at
      PROVE  capture[got'] \in Datagrams
  <2>1. got' \in 1..sent
    BY <1>3, <1>4 DEF SourceInv
  <2>2. got' \in 1..Len(capture) /\ capture \in Seq(Datagrams)
    BY <2>1 DEF SourceInv
  <2> QED
    BY <2>2
<1>5. ASSUME got' = shutdown_at
      PROVE  source = "done" /\ items' = <<>>
  <2>0. shutdown_at # 0
    BY <1>3, <1>5, <1>1
  <2>1. source = "done"
    BY <2>0 DEF SourceInv
  <2>2. shutdown_at = puts
    BY <2>1 DEF SourceInv
  <2>3. puts - Len(items) + 1 = puts
    BY <1>3, <1>5, <2>2
  <2>4. \A m, n \in Nat : m - n + 1 = m => n = 1
    OBVIOUS
  <2>5. Len(items) = 1
    BY <1>1, <1>2, <2>3, <2>4
  <2> QED
    BY <1>1, <2>1, <2>5
<1> QED
  BY <1>3, <1>4, <1>5

\* Every step of a replay is a step of the raw queue or leaves it alone.
LEMMA ReplayQueueStep ==
    ASSUME [ReplayNext]_replayVars
    PROVE  [QueueNext]_queueVars
<1>1. CASE ThreadA
  BY <1>1 DEF ThreadA, Load, SourceFails, TestStop, PacedWaitStopped, PutPacket, PutShutdown,
     QueueNext
<1>2. CASE RunB
  BY <1>2 DEF RunB, LoopHead, LeaveOnStop, GetPacket, GetShutdown, GetTimesOut, Iterate,
     StopSource, JoinSource, DecideExit, QueueNext
<1> QED
  BY <1>1, <1>2 DEF ReplayNext, InterruptRun, JoinTimesOut, CallStop, replayVars

\* The parts as they are wired.
LEMMA ReplayInitInv == ReplayInit => ReplayInv
<1> SUFFICES ASSUME ReplayInit
             PROVE  ReplayInv
  OBVIOUS
<1>1. QueueInv
  BY QueueInitInv DEF ReplayInit
<1>2. SourceInv
  BY CapturesAssumption DEF ReplayInit, SourceInit, QueueInit, SourceInv
<1>3. EndInv
  BY DEF ReplayInit, EndInv, ExitTellsBadReplay
<1> QED
  BY <1>1, <1>2, <1>3 DEF ReplayInv

\* Thread A puts each packet of the capture once and SHUTDOWN last.
LEMMA ThreadAInv ==
    ASSUME SourceInv, EndInv, ThreadA
    PROVE  SourceInv' /\ EndInv'
<1> USE DEF ThreadA, Load, SourceFails, TestStop, PacedWaitStopped, PutPacket, PutShutdown,
       runVars, queueVars, Put
<1>1. SourceInv'
  BY DEF SourceInv
<1>2. source # "done" /\ UNCHANGED <<ending, exit_code, returned, pc>>
  BY DEF ingestVars, threadVars
<1>3. EndInv'
  BY <1>2 DEF EndInv, ExitTellsBadReplay
<1> QED
  BY <1>1, <1>3

\* Thread B leaves the source alone and comes to its end only once.
LEMMA RunBInv ==
    ASSUME QueueInv, SourceInv, EndInv, RunB
    PROVE  SourceInv' /\ EndInv'
<1>1. UNCHANGED <<capture, source, sent, failed, shutdown_at, puts>>
  BY DEF RunB, sourceVars, LoopHead, LeaveOnStop, GetPacket, GetShutdown, GetTimesOut,
     Iterate, StopSource, JoinSource, DecideExit, Get, GetNothing, queueVars
<1>2. stop' = stop \/ stop' = TRUE
  BY DEF RunB, LoopHead, LeaveOnStop, GetPacket, GetShutdown, GetTimesOut,
     Iterate, StopSource, JoinSource, DecideExit
<1>3. SourceInv'
  BY <1>1, <1>2 DEF SourceInv
<1>4. CASE GetShutdown
  <2>1. source = "done" /\ items' = <<>>
    BY <1>4, GotFromCapture DEF GetShutdown
  <2>2. pc = "get" /\ UNCHANGED <<exit_code, returned>>
    BY <1>4 DEF GetShutdown, LeaveLoop
  <2> QED
    BY <1>1, <1>3, <2>1, <2>2 DEF EndInv, ExitTellsBadReplay
<1>5. CASE GetPacket \/ GetTimesOut
  <2>1. pc = "get" /\ UNCHANGED <<exit_code, returned, ending>>
    BY <1>5 DEF GetPacket, GetTimesOut, Receive, Timeout
  <2>2. items = <<>> => items' = <<>>
    BY <1>5 DEF GetPacket, GetTimesOut, Get, GetNothing
  <2> QED
    BY <1>1, <1>3, <2>1, <2>2 DEF EndInv, ExitTellsBadReplay
<1>6. CASE LoopHead \/ LeaveOnStop
  BY <1>1, <1>3, <1>6
     DEF LoopHead, LeaveOnStop, ingestVars, threadVars, queueVars, EndInv, ExitTellsBadReplay
<1>7. CASE Iterate \/ StopSource
  <2>1. pc \in {"push", "poll", "finally"}
    BY <1>7 DEF Iterate, StopSource, PushRecord, PollBuffer, EndIteration, FlushBuffer, LeaveRun
  <2>2. ending' = "shutdown" => ending = "shutdown"
    BY <1>7 DEF Iterate, StopSource, runVars
  <2>3. UNCHANGED <<items, exit_code, returned>>
    BY <1>7 DEF Iterate, StopSource, runVars, queueVars
  <2> QED
    BY <1>1, <1>3, <2>1, <2>2, <2>3 DEF EndInv, ExitTellsBadReplay
<1>8. CASE JoinSource \/ DecideExit
  BY <1>1, <1>3, <1>8
     DEF JoinSource, DecideExit, ingestVars, threadVars, queueVars, EndInv, ExitTellsBadReplay
<1> QED
  BY <1>3, <1>4, <1>5, <1>6, <1>7, <1>8 DEF RunB

\* Ctrl-C, the timeout of the join, stop() and the clock.
LEMMA OthersInv ==
    ASSUME SourceInv, EndInv, ReplayNext, ~ThreadA, ~RunB
    PROVE  SourceInv' /\ EndInv'
<1>1. UNCHANGED <<sourceVars, queueVars, exit_code>> /\ (stop' = stop \/ stop' = TRUE)
  BY DEF ReplayNext, InterruptRun, JoinTimesOut, CallStop, runVars, replayVars
<1>2. SourceInv'
  BY <1>1 DEF sourceVars, queueVars, SourceInv
<1>3. ending' = "shutdown" => ending = "shutdown"
  BY DEF ReplayNext, InterruptRun, JoinTimesOut, CallStop, runVars, replayVars
<1>4. /\ returned => returned'
      /\ returned' => pc' = "done"
  BY DEF ReplayNext, InterruptRun, Interrupt, JoinTimesOut, CallStop, TimePasses, runVars,
     replayVars, ingestVars, threadVars, EndInv
<1> QED
  BY <1>1, <1>2, <1>3, <1>4 DEF sourceVars, queueVars, EndInv, ExitTellsBadReplay

\* The invariant holds throughout a replay.
LEMMA ReplayInvariant == ReplaySpec => []ReplayInv
<1>1. ReplayInv /\ [ReplayNext]_replayVars => ReplayInv'
  <2> SUFFICES ASSUME ReplayInv, [ReplayNext]_replayVars
               PROVE  ReplayInv'
    OBVIOUS
  <2>1. QueueInv'
    BY ReplayQueueStep, QueueNextInv DEF ReplayInv
  <2>2. CASE UNCHANGED replayVars
    BY <2>1, <2>2 DEF replayVars, sourceVars, runVars, ingestVars, threadVars, queueVars,
       ReplayInv, SourceInv, EndInv, ExitTellsBadReplay
  <2> QED
    BY <2>1, <2>2, ThreadAInv, RunBInv, OthersInv DEF ReplayInv
<1> QED
  BY <1>1, ReplayInitInv, PTL DEF ReplaySpec

-----------------------------------------------------------------------------
\* ReplaySource, queue and Pipeline.run() together do nothing that run() by
\* itself could not do: what is proved of Ingest holds for every replay.
THEOREM ReplayImplementsIngest == ReplaySpec => IngestSpec
<1>1. ReplayInit => IngestInit
  BY DEF ReplayInit
<1>2. ASSUME ReplayInv, [ReplayNext]_replayVars
      PROVE  [IngestNext]_ingestVars
  <2>1. CASE GetPacket
    <3>1. capture[got'] \in Datagrams /\ Receive(capture[got'])
      BY <1>2, <2>1, GotFromCapture DEF GetPacket, ReplayInv
    <3> QED
      BY <3>1 DEF IngestNext, ThreadB
  <2>2. CASE Iterate
    BY <2>2 DEF Iterate, IngestNext, ThreadB
  <2>3. CASE LeaveOnStop \/ GetShutdown \/ GetTimesOut \/ StopSource
    BY <2>3 DEF LeaveOnStop, GetShutdown, GetTimesOut, StopSource, IngestNext, ThreadB
  <2>4. CASE LoopHead \/ JoinSource \/ JoinTimesOut \/ DecideExit \/ CallStop \/ ThreadA
    BY <2>4 DEF LoopHead, JoinSource, JoinTimesOut, DecideExit, CallStop, ThreadA
  <2>5. CASE InterruptRun \/ \E s \in Streams : TimePasses(s)
    BY <2>5 DEF InterruptRun, IngestNext
  <2>6. CASE UNCHANGED replayVars
    BY <2>6 DEF replayVars
  <2> QED
    BY <1>2, <2>1, <2>2, <2>3, <2>4, <2>5, <2>6 DEF ReplayNext, RunB
<1> QED
  BY <1>1, <1>2, ReplayInvariant, PTL DEF ReplaySpec, IngestSpec

\* And nothing that the raw queue does not allow.
THEOREM ReplayImplementsQueue == ReplaySpec => QueueSpec
<1>1. ReplayInit => QueueInit
  BY DEF ReplayInit
<1> QED
  BY <1>1, ReplayQueueStep, PTL DEF ReplaySpec, QueueSpec

\* When run() sees SHUTDOWN, every packet that ReplaySource put was dequeued or
\* counted as dropped, and unless it failed or was stopped that is the capture.
THEOREM ReplayLosesNothing == ReplaySpec => []ReplayComplete
<1>1. ReplayInv => ReplayComplete
  <2> SUFFICES ASSUME ReplayInv, ending = "shutdown"
               PROVE  /\ items = <<>>
                      /\ sent + 1 = gets + queue_dropped
                      /\ failed \/ stop \/ sent = Len(capture)
    BY DEF ReplayComplete
  <2>1. source = "done" /\ items = <<>> /\ puts = sent + 1
    BY DEF ReplayInv, EndInv, SourceInv
  <2>2. puts = gets + queue_dropped + Len(items) /\ gets \in Nat /\ queue_dropped \in Nat
    BY DEF ReplayInv, QueueInv, ItemsAccounted, QueueTypeOK
  <2>3. Len(items) = 0
    BY <2>1
  <2>4. failed \/ stop \/ sent = Len(capture)
    BY <2>1 DEF ReplayInv, SourceInv
  <2> QED
    BY <2>1, <2>2, <2>3, <2>4
<1> QED
  BY <1>1, ReplayInvariant, PTL

\* main() reports a bad capture, even if the join of Thread A timed out.
THEOREM ReplayExitRight == ReplaySpec => []ExitTellsBadReplay
<1>1. ReplayInv => ExitTellsBadReplay
  BY DEF ReplayInv, EndInv
<1> QED
  BY <1>1, ReplayInvariant, PTL

-----------------------------------------------------------------------------
(* What the liveness of a replay rests on besides fairness: both threads    *)
(* run down, in a number of steps that is known beforehand.                 *)

\* Steps that Thread A has left at most.
SourceLeft ==
    CASE source = "load" -> 2 * (Len(capture) - sent) + 3
      [] source = "test" -> 2 * (Len(capture) - sent) + 2
      [] source = "put" -> 2 * (Len(capture) - sent) + 1
      [] source = "finally" -> 1
      [] source = "done" -> 0

\* Each step of Thread A brings it nearer to its end, none of another thread
\* sets it back.
SourceRunsDown ==
    /\ SourceLeft' <= SourceLeft
    /\ ThreadA => SourceLeft' < SourceLeft

\* Where Thread B is, as far as it matters for what it has left to do.
RunInv ==
    /\ pc \in {"get", "push", "poll", "finally", "done"}
    /\ todo \subseteq Streams
    /\ tested = FALSE \/ (tested = TRUE /\ pc = "get")
    /\ returned = FALSE \/ (returned = TRUE /\ pc = "done")

\* Steps that Thread B has left at most, once it has been told to stop.
RunLeft ==
    CASE pc = "get" /\ tested -> 2 * Cardinality(Streams) + 7
      [] pc = "push" -> 2 * Cardinality(Streams) + 6
      [] pc = "poll" -> Cardinality(Streams) + 5 + Cardinality(todo)
      [] pc = "get" /\ ~tested -> Cardinality(Streams) + 4
      [] pc = "finally" -> 3 + Cardinality(todo)
      [] pc = "done" /\ ~returned -> 2
      [] pc = "done" /\ returned -> IF exit_code = -1 THEN 1 ELSE 0

Stopping == stop \/ pc \in {"finally", "done"}

\* Once it stops it does not resume, each step brings it nearer to its end, and
\* nothing else sets it back.
RunRunsDown ==
    Stopping => /\ Stopping'
                /\ RunLeft' <= RunLeft
                /\ RunB \/ JoinTimesOut => RunLeft' < RunLeft

\* ReplaySource._run() always comes to its end: every step of its own, a failure
\* to read and the stop Event included, is one of at most 2n + 3 for a capture
\* of n packets, whatever the other threads do.
THEOREM SourceAlwaysEnds == ReplaySpec => [][SourceRunsDown]_replayVars
<1>1. ASSUME ReplayInv, [ReplayNext]_replayVars, ~UNCHANGED replayVars
      PROVE  SourceRunsDown
  <2>1. /\ Len(capture) \in Nat /\ sent \in Nat /\ sent <= Len(capture)
        /\ source \in {"load", "test", "put", "finally", "done"}
        /\ source = "put" => sent < Len(capture)
    BY <1>1 DEF ReplayInv, SourceInv
  <2> DEFINE rest == Len(capture) - sent
  <2>2. rest \in Nat /\ (source = "put" => rest > 0)
    BY <2>1
  <2>3. CASE ThreadA
    <3>1. capture' = capture
      BY <2>3 DEF ThreadA, Load, SourceFails, TestStop, PacedWaitStopped, PutPacket, PutShutdown
    <3>2. CASE Load \/ TestStop
      <4>1. sent' = sent /\ \/ source = "load" /\ source' = "test"
                            \/ source = "test" /\ source' \in {"put", "finally"}
        BY <3>2 DEF Load, TestStop
      <4> QED
        BY <2>1, <2>2, <3>1, <4>1 DEF SourceRunsDown, SourceLeft
    <3>3. CASE SourceFails \/ PacedWaitStopped
      <4>1. sent' = sent /\ source \in {"load", "put"} /\ source' = "finally"
        BY <3>3 DEF SourceFails, PacedWaitStopped
      <4> QED
        BY <2>1, <2>2, <3>1, <4>1 DEF SourceRunsDown, SourceLeft
    <3>4. CASE PutPacket
      <4>1. sent' = sent + 1 /\ source = "put" /\ source' = "test"
        BY <3>4 DEF PutPacket
      <4> QED
        BY <2>1, <2>2, <3>1, <4>1 DEF SourceRunsDown, SourceLeft
    <3>5. CASE PutShutdown
      BY <3>5 DEF PutShutdown, SourceRunsDown, SourceLeft
    <3> QED
      BY <2>3, <3>2, <3>3, <3>4, <3>5 DEF ThreadA
  <2>4. CASE ~ThreadA
    <3>1. UNCHANGED sourceVars
      BY <1>1, <2>4 DEF ReplayNext, RunB, CallStop, replayVars
    <3>2. SourceLeft' = SourceLeft /\ SourceLeft \in Int
      BY <2>1, <2>2, <3>1 DEF sourceVars, SourceLeft
    <3> QED
      BY <2>4, <3>2 DEF SourceRunsDown
  <2> QED
    BY <2>3, <2>4
<1>2. ReplayInv /\ [ReplayNext]_replayVars => [SourceRunsDown]_replayVars
  BY <1>1
<1> QED
  BY <1>2, ReplayInvariant, PTL DEF ReplaySpec

\* Sets of streams are counted, one stream less is one less.
LEMMA TodoCount ==
    ASSUME NEW S \in SUBSET Streams
    PROVE  /\ Cardinality(S) \in Nat /\ Cardinality(S) <= Cardinality(Streams)
           /\ Cardinality(Streams) \in Nat
           /\ \A s \in S : Cardinality(S \ {s}) = Cardinality(S) - 1
<1>1. IsFiniteSet(Streams) /\ Cardinality(Streams) \in Nat
  BY StreamsAssumption, FS_CardinalityType
<1>2. IsFiniteSet(S) /\ Cardinality(S) <= Cardinality(Streams)
  BY <1>1, FS_Subset
<1>3. Cardinality(S) \in Nat
  BY <1>2, FS_CardinalityType
<1>4. ASSUME NEW s \in S
      PROVE  Cardinality(S \ {s}) = Cardinality(S) - 1
  BY <1>2, <1>4, FS_RemoveElement
<1> QED
  BY <1>1, <1>2, <1>3, <1>4

\* The loops over the buffers visit streams; run() is tested and left in place.
LEMMA RunStep == RunInv /\ [ReplayNext]_replayVars => RunInv'
<1> SUFFICES ASSUME RunInv, [ReplayNext]_replayVars
             PROVE  RunInv'
  OBVIOUS
<1> USE DEF RunInv
<1>1. CASE UNCHANGED replayVars
  BY <1>1 DEF replayVars, ingestVars, threadVars, runVars
<1>2. CASE ThreadA \/ CallStop \/ \E s \in Streams : TimePasses(s) /\ UNCHANGED runVars
  <2>1. UNCHANGED <<pc, todo>>
    BY <1>2 DEF ThreadA, CallStop, TimePasses, ingestVars, threadVars
  <2>2. tested' = tested /\ returned' = returned
    BY <1>2 DEF ThreadA, CallStop, runVars
  <2> QED
    BY <2>1, <2>2
<1>3. CASE LoopHead \/ JoinSource \/ JoinTimesOut \/ DecideExit
  <2>1. pc' = pc /\ todo' = todo
    BY <1>3 DEF LoopHead, JoinSource, JoinTimesOut, DecideExit, ingestVars, threadVars
  <2>2. tested' = tested \/ (tested' = TRUE /\ pc = "get")
    BY <1>3 DEF LoopHead, JoinSource, JoinTimesOut, DecideExit
  <2>3. returned' = returned \/ (returned' = TRUE /\ pc = "done")
    BY <1>3 DEF LoopHead, JoinSource, JoinTimesOut, DecideExit
  <2> QED
    BY <2>1, <2>2, <2>3
<1>4. CASE LeaveOnStop \/ GetShutdown \/ InterruptRun
  <2>1. pc # "done" /\ pc' = "finally" /\ todo' \subseteq Streams
    BY <1>4 DEF LeaveOnStop, GetShutdown, InterruptRun, LeaveLoop, Interrupt, StartLoop
  <2>2. tested' = FALSE /\ returned' = returned
    BY <1>4 DEF LeaveOnStop, GetShutdown, InterruptRun
  <2> QED
    BY <2>1, <2>2
<1>5. CASE GetPacket
  BY <1>5 DEF GetPacket, Receive, StartLoop
<1>6. CASE GetTimesOut
  BY <1>6 DEF GetTimesOut, Timeout, StartLoop
<1>7. CASE Iterate
  BY <1>7 DEF Iterate, PushRecord, PollBuffer, EndIteration, FlushBuffer, StartLoop
<1>8. CASE StopSource
  BY <1>8 DEF StopSource, LeaveRun, runVars
<1> QED
  BY <1>1, <1>2, <1>3, <1>4, <1>5, <1>6, <1>7, <1>8 DEF ReplayNext, RunB

\* A step that leaves Thread B where it is.
LEMMA RunStays ==
    ASSUME RunInv, UNCHANGED <<pc, todo, tested, returned, exit_code>>
    PROVE  RunLeft' = RunLeft /\ RunLeft \in Nat
<1>1. Cardinality(Streams) \in Nat /\ Cardinality(todo) \in Nat
  BY TodoCount DEF RunInv
<1> QED
  BY <1>1 DEF RunInv, RunLeft

\* The steps of an iteration and of the finally clause.
LEMMA IterateRunsDown ==
    ASSUME RunInv, RunInv', Iterate \/ InterruptRun
    PROVE  RunLeft' < RunLeft /\ RunLeft' \in Nat /\ RunLeft \in Nat
<1>1. PICK n, k, m : n = Cardinality(Streams) /\ k = Cardinality(todo) /\ m = Cardinality(todo')
  OBVIOUS
<1>2. n \in Nat /\ k \in Nat /\ m \in Nat /\ k <= n /\ m <= n
  BY <1>1, TodoCount DEF RunInv
<1>3. CASE PushRecord
  <2>1. pc = "push" /\ pc' \in {"poll", "finally"}
    BY <1>3 DEF PushRecord, StartLoop
  <2> QED
    BY <1>1, <1>2, <2>1 DEF RunLeft
<1>4. CASE EndIteration /\ Iterate
  <2>1. pc = "poll" /\ pc' = "get" /\ ~tested'
    BY <1>4 DEF EndIteration, Iterate, RunInv
  <2> QED
    BY <1>1, <1>2, <2>1 DEF RunLeft
<1>5. ASSUME NEW s \in Streams, PollBuffer(s)
      PROVE  RunLeft' < RunLeft /\ RunLeft' \in Nat /\ RunLeft \in Nat
  <2>1. pc = "poll" /\ s \in todo
    BY <1>5 DEF PollBuffer
  <2>2. pc' = "finally" \/ (pc' = "poll" /\ todo' = todo \ {s})
    BY <1>5 DEF PollBuffer, StartLoop
  <2>3. todo' = todo \ {s} => m = k - 1
    BY <1>1, <2>1, TodoCount DEF RunInv
  <2> QED
    BY <1>1, <1>2, <2>1, <2>2, <2>3 DEF RunLeft
<1>6. ASSUME NEW s \in Streams, FlushBuffer(s)
      PROVE  RunLeft' < RunLeft /\ RunLeft' \in Nat /\ RunLeft \in Nat
  <2>1. pc = "finally" /\ s \in todo /\ pc' = "finally"
    BY <1>6 DEF FlushBuffer
  <2>2. todo' = {} \/ todo' = todo \ {s}
    BY <1>6 DEF FlushBuffer
  <2>3. m < k
    <3>1. Cardinality(todo \ {s}) = k - 1
      BY <1>1, <2>1, TodoCount DEF RunInv
    <3>2. Cardinality({}) = 0
      BY FS_EmptySet
    <3>3. k - 1 \in Nat
      BY <1>1, <2>1, <3>1, TodoCount DEF RunInv
    <3> QED
      BY <1>1, <1>2, <2>2, <3>1, <3>2, <3>3
  <2> QED
    BY <1>1, <1>2, <2>1, <2>3 DEF RunLeft
<1>7. CASE InterruptRun
  <2>1. /\ pc \in {"get", "push", "poll"} /\ pc' = "finally"
        /\ tested \in BOOLEAN
    BY <1>7 DEF InterruptRun, Interrupt, StartLoop, RunInv
  <2> QED
    BY <1>1, <1>2, <2>1 DEF RunLeft
<1> QED
  BY <1>3, <1>4, <1>5, <1>6, <1>7 DEF Iterate

\* The other steps of Thread B, but for the test of the Event at the loop head.
LEMMA ThreadBRunsDown ==
    ASSUME RunInv, RunInv', EndInv,
           LeaveOnStop \/ GetPacket \/ GetShutdown \/ GetTimesOut \/ StopSource
             \/ JoinSource \/ JoinTimesOut \/ DecideExit
    PROVE  RunLeft' < RunLeft /\ RunLeft' \in Nat /\ RunLeft \in Nat
<1>1. PICK n, k, m : n = Cardinality(Streams) /\ k = Cardinality(todo) /\ m = Cardinality(todo')
  OBVIOUS
<1>2. n \in Nat /\ k \in Nat /\ m \in Nat /\ k <= n /\ m <= n
  BY <1>1, TodoCount DEF RunInv
<1>3. CASE LeaveOnStop
  <2>1. pc = "get" /\ ~tested /\ pc' = "finally"
    BY <1>3 DEF LeaveOnStop, LeaveLoop, StartLoop
  <2> QED
    BY <1>1, <1>2, <2>1 DEF RunLeft
<1>4. CASE GetPacket \/ GetShutdown \/ GetTimesOut
  <2>1. pc = "get" /\ tested /\ pc' \in {"push", "poll", "finally"}
    BY <1>4 DEF GetPacket, GetShutdown, GetTimesOut, Receive, LeaveLoop, Timeout, StartLoop
  <2> QED
    BY <1>1, <1>2, <2>1 DEF RunLeft
<1>5. CASE StopSource
  <2>1. pc = "finally" /\ pc' = "done" /\ ~returned'
    BY <1>5 DEF StopSource, LeaveRun, runVars, RunInv
  <2> QED
    BY <1>1, <1>2, <2>1 DEF RunLeft
<1>6. CASE JoinSource \/ JoinTimesOut
  <2>1. pc = "done" /\ pc' = "done" /\ ~returned /\ returned'
    BY <1>6 DEF JoinSource, JoinTimesOut, ingestVars, threadVars
  <2> QED
    BY <2>1 DEF RunLeft
<1>7. CASE DecideExit
  <2>1. /\ pc = "done" /\ pc' = "done" /\ returned /\ returned'
        /\ exit_code = -1 /\ exit_code' # -1
    BY <1>7 DEF DecideExit, ingestVars, threadVars, RunInv
  <2> QED
    BY <2>1 DEF RunLeft
<1> QED
  BY <1>3, <1>4, <1>5, <1>6, <1>7

\* Pipeline.run() after stop(), SHUTDOWN, an interrupt or an exception of emit:
\* for n streams at most 2n + 7 of its own steps separate Thread B from the
\* return of run() and the exit code, and neither Thread A, which may be stuck,
\* nor stop() again, Ctrl-C or the clock adds to them.
THEOREM StopBoundsRun == ReplaySpec => [][RunRunsDown]_replayVars
<1>1. ReplayInit => RunInv
  BY DEF ReplayInit, IngestInit, RunInv
<1>2. ASSUME RunInv, RunInv', ReplayInv, [ReplayNext]_replayVars, ~UNCHANGED replayVars, Stopping
      PROVE  Stopping' /\ RunLeft' <= RunLeft /\ (RunB \/ JoinTimesOut => RunLeft' < RunLeft)
  <2>1. stop => stop'
    BY <1>2 DEF ReplayNext, ThreadA, RunB, LoopHead, LeaveOnStop, GetPacket, GetShutdown,
       GetTimesOut, Iterate, StopSource, JoinSource, DecideExit, InterruptRun, JoinTimesOut,
       CallStop
  <2>2. CASE LoopHead \/ LeaveOnStop \/ GetPacket \/ GetShutdown \/ GetTimesOut \/ StopSource
               \/ JoinSource \/ JoinTimesOut \/ DecideExit
    <3>1. ~LoopHead
      BY <1>2 DEF LoopHead, Stopping
    <3>2. RunLeft' < RunLeft /\ RunLeft' \in Nat /\ RunLeft \in Nat
      BY <1>2, <2>2, <3>1, ThreadBRunsDown DEF ReplayInv
    <3>3. pc \in {"finally", "done"} => pc' = "done"
      <4>1. CASE LoopHead \/ LeaveOnStop \/ GetPacket \/ GetShutdown \/ GetTimesOut
        <5>1. pc = "get"
          BY <4>1 DEF LoopHead, LeaveOnStop, GetPacket, GetShutdown, GetTimesOut, LeaveLoop,
             Receive, Timeout
        <5> QED
          BY <5>1
      <4>2. CASE StopSource
        BY <4>2 DEF StopSource, LeaveRun
      <4>3. CASE JoinSource \/ JoinTimesOut \/ DecideExit
        <5>1. pc' = pc /\ pc = "done"
          BY <1>2, <4>3 DEF JoinSource, JoinTimesOut, DecideExit, ingestVars, threadVars, RunInv
        <5> QED
          BY <5>1
      <4> QED
        BY <2>2, <4>1, <4>2, <4>3
    <3> QED
      BY <1>2, <2>1, <3>2, <3>3 DEF Stopping
  <2>3. CASE Iterate \/ InterruptRun
    <3>1. RunLeft' < RunLeft /\ RunLeft' \in Nat /\ RunLeft \in Nat
      BY <1>2, <2>3, IterateRunsDown
    <3>2. pc \in {"finally", "done"} => pc' = "finally"
      BY <2>3 DEF Iterate, InterruptRun, PushRecord, PollBuffer, EndIteration, FlushBuffer,
         Interrupt
    <3> QED
      BY <1>2, <2>1, <3>1, <3>2 DEF Stopping
  <2>4. CASE ThreadA \/ CallStop \/ \E s \in Streams : TimePasses(s) /\ UNCHANGED runVars
    <3>1. UNCHANGED <<pc, todo, tested, returned, exit_code>>
      BY <2>4 DEF ThreadA, CallStop, TimePasses, ingestVars, threadVars, runVars
    <3>2. RunLeft' = RunLeft /\ RunLeft \in Nat
      BY <1>2, <3>1, RunStays
    <3>3. RunB \/ JoinTimesOut => RunLeft' < RunLeft
      BY <2>2, <2>3 DEF RunB
    <3>4. Stopping'
      BY <1>2, <2>1, <3>1 DEF Stopping
    <3> QED
      BY <3>2, <3>3, <3>4
  <2> QED
    BY <1>2, <2>2, <2>3, <2>4 DEF ReplayNext, RunB
<1>3. ReplayInv /\ RunInv /\ RunInv' /\ [ReplayNext]_replayVars => [RunRunsDown]_replayVars
  BY <1>2 DEF RunRunsDown
<1> QED
  BY <1>1, <1>3, RunStep, ReplayInvariant, PTL DEF ReplaySpec

=============================================================================
