----------------------------- MODULE ReceiveProofs -----------------------------
(***************************************************************************)
(* Proofs about the capture script, for every duration, every number of    *)
(* datagrams and every way the clock can advance.                          *)
(***************************************************************************)
EXTENDS ReceiveUdp, TLAPS

Places ==
    {"bind", "first", "start", "loop", "arm", "recv", "append", "save", "done", "quit", "failed"}

Recorded == [at : Nat, size : Nat]

ReceiveTypeOK ==
    /\ packets \in Seq(Recorded) /\ file \in Seq(Recorded)
    /\ capped = FALSE /\ offered \in Nat /\ total_bytes \in Nat
    /\ clock \in Nat /\ received \in Nat /\ deadline \in Nat /\ late \in Nat
    /\ remaining \in Int /\ timeout_at \in Int
    /\ at \in Places
    /\ interrupted \in BOOLEAN

\* A datagram returned at or after the deadline leaves a clock that the next
\* test of the deadline sees: past that test nothing is late yet.
DeadlineInv ==
    /\ late <= 1
    /\ at \in {"bind", "first", "start", "arm", "recv"} => late = 0
    /\ late = 1 => clock >= deadline

\* What was received and not recorded is the one datagram in hand, unless
\* Ctrl-C has thrown that one away.
InHand == IF at \in {"start", "append"} THEN 1 ELSE 0

CaptureInv ==
    /\ Len(packets) = offered
    /\ \A i \in 1..Len(packets) : packets[i].at = i
    /\ at \in {"bind", "first", "quit"} => received = 0
    /\ at \in Places \ {"bind", "first", "quit", "failed"} => received > 0
    /\ at \in {"bind", "first", "quit", "start"} => offered = 0
    /\ at \in {"loop", "arm", "recv", "append", "save", "done"} => offered > 0
    /\ at \in {"bind", "first", "start", "loop", "arm", "recv", "append"} =>
         ~interrupted /\ received = offered + InHand
    /\ at \in {"save", "done"} =>
         received = offered \/ (interrupted /\ received = offered + 1)
    /\ at = "done" => file = packets

ReceiveInv == ReceiveTypeOK /\ DeadlineInv /\ CaptureInv

-----------------------------------------------------------------------------
\* Before bind() nothing is received, recorded or late.
LEMMA ReceiveInitInv == ReceiveInit => ReceiveInv
<1> SUFFICES ASSUME ReceiveInit
             PROVE  ReceiveInv
  OBVIOUS
<1> USE DEF ReceiveInit, RecorderInit, Places
<1>1. ReceiveTypeOK
  <2>1. packets \in Seq(Recorded) /\ file \in Seq(Recorded)
    OBVIOUS
  <2>2. capped = FALSE /\ interrupted \in BOOLEAN
    OBVIOUS
  <2>3. /\ offered \in Nat /\ total_bytes \in Nat
        /\ clock \in Nat /\ received \in Nat /\ deadline \in Nat /\ late \in Nat
        /\ remaining \in Int /\ timeout_at \in Int
        /\ at \in Places
    OBVIOUS
  <2> QED
    BY <2>1, <2>2, <2>3 DEF ReceiveTypeOK
<1>2. DeadlineInv
  BY DEF DeadlineInv
<1>3. CaptureInv
  BY DEF CaptureInv, InHand
<1> QED
  BY <1>1, <1>2, <1>3 DEF ReceiveInv

\* Without a cap append() records every datagram it is given.
LEMMA AppendRecords ==
    ASSUME ReceiveInv, RecorderAppend(1)
    PROVE  /\ packets' = Append(packets, [at |-> offered + 1, size |-> 1])
           /\ packets' \in Seq(Recorded)
           /\ Len(packets') = Len(packets) + 1
           /\ \A i \in 1..Len(packets') : packets'[i].at = i
           /\ offered' = offered + 1 /\ capped' = FALSE /\ total_bytes' = total_bytes + 1
<1>1. /\ packets' = Append(packets, [at |-> offered + 1, size |-> 1])
      /\ offered' = offered + 1 /\ capped' = FALSE /\ total_bytes' = total_bytes + 1
  BY ReceiveAssumption DEF ReceiveInv, ReceiveTypeOK, RecorderAppend, ReachesCap
<1>2. packets \in Seq(Recorded) /\ [at |-> offered + 1, size |-> 1] \in Recorded
  BY DEF ReceiveInv, ReceiveTypeOK, Recorded
<1>3. packets' \in Seq(Recorded) /\ Len(packets') = Len(packets) + 1
  BY <1>1, <1>2
<1>4. ASSUME NEW i \in 1..Len(packets')
      PROVE  packets'[i].at = i
  <2>1. CASE i \in 1..Len(packets)
    BY <1>1, <1>2, <2>1 DEF ReceiveInv, CaptureInv
  <2>2. CASE i = Len(packets) + 1
    BY <1>1, <1>2, <2>2 DEF ReceiveInv, CaptureInv
  <2> QED
    BY <1>2, <1>3, <2>1, <2>2
<1> QED
  BY <1>1, <1>3, <1>4

\* Every step of the script, of the clock and of Ctrl-C keeps the invariant.
LEMMA ReceiveNextInv == ReceiveInv /\ [ReceiveNext]_receiveVars => ReceiveInv'
<1> SUFFICES ASSUME ReceiveInv, [ReceiveNext]_receiveVars
             PROVE  ReceiveInv'
  OBVIOUS
<1> USE ReceiveAssumption
<1>1. CASE StartCapture \/ Record
  <2> USE DEF Moves
  <2>0. RecorderAppend(1)
    BY <1>1 DEF StartCapture, Record
  <2>1. /\ packets' \in Seq(Recorded) /\ Len(packets') = Len(packets) + 1
        /\ \A i \in 1..Len(packets') : packets'[i].at = i
        /\ offered' = offered + 1 /\ capped' = FALSE /\ total_bytes' = total_bytes + 1
    BY <2>0, AppendRecords
  <2>2. ReceiveTypeOK'
    BY <1>1, <2>1 DEF StartCapture, Record, ReceiveInv, ReceiveTypeOK, Places
  <2>3. DeadlineInv'
    BY <1>1 DEF StartCapture, Record, ReceiveInv, ReceiveTypeOK, DeadlineInv, Places
  <2>4. CaptureInv'
    BY <1>1, <2>1
       DEF StartCapture, Record, ReceiveInv, ReceiveTypeOK, CaptureInv, Places, InHand
  <2> QED
    BY <2>2, <2>3, <2>4 DEF ReceiveInv
<1>2. ASSUME UNCHANGED <<recorderVars, file>>,
             Bind \/ RecvFirst \/ TestDeadline \/ Wait \/ RecvTimesOut \/ Recv \/ Fails
               \/ Interrupt \/ Tick
      PROVE  ReceiveInv'
  <2> USE DEF recorderVars, Moves
  <2>1. ReceiveTypeOK'
    <3>1. interrupted' \in BOOLEAN
      BY <1>2 DEF Bind, RecvFirst, TestDeadline, Wait, RecvTimesOut, Recv, Fails, Interrupt,
         Tick, ReceiveInv, ReceiveTypeOK
    <3>2. clock' \in Nat /\ received' \in Nat
      BY <1>2 DEF Bind, RecvFirst, TestDeadline, Wait, RecvTimesOut, Recv, Fails, Interrupt,
         Tick, ReceiveInv, ReceiveTypeOK
    <3>4. deadline' \in Nat /\ late' \in Nat
      BY <1>2 DEF Bind, RecvFirst, TestDeadline, Wait, RecvTimesOut, Recv, Fails, Interrupt,
         Tick, ReceiveInv, ReceiveTypeOK
    <3>5. remaining' \in Int /\ timeout_at' \in Int
      BY <1>2 DEF Bind, RecvFirst, TestDeadline, Wait, RecvTimesOut, Recv, Fails, Interrupt,
         Tick, ReceiveInv, ReceiveTypeOK
    <3>6. at' \in Places
      BY <1>2 DEF Bind, RecvFirst, TestDeadline, Wait, RecvTimesOut, Recv, Fails, Interrupt,
         Tick, ReceiveInv, ReceiveTypeOK, Places
    <3>3. /\ packets' \in Seq(Recorded) /\ file' \in Seq(Recorded)
          /\ capped' = FALSE /\ offered' \in Nat /\ total_bytes' \in Nat
      BY <1>2 DEF ReceiveInv, ReceiveTypeOK
    <3> QED
      BY <3>1, <3>2, <3>3, <3>4, <3>5, <3>6 DEF ReceiveTypeOK
  <2>2. DeadlineInv'
    BY <1>2 DEF Bind, RecvFirst, TestDeadline, Wait, RecvTimesOut, Recv, Fails, Interrupt,
       Tick, ReceiveInv, ReceiveTypeOK, DeadlineInv, Places
  <2>3. CaptureInv'
    BY <1>2 DEF Bind, RecvFirst, TestDeadline, Wait, RecvTimesOut, Recv, Fails, Interrupt,
       Tick, ReceiveInv, ReceiveTypeOK, CaptureInv, Places, InHand
  <2> QED
    BY <2>1, <2>2, <2>3 DEF ReceiveInv
<1>3. CASE Save
  BY <1>3 DEF Save, Moves, recorderVars, ReceiveInv, ReceiveTypeOK, DeadlineInv, CaptureInv,
     Places, InHand
<1>4. CASE UNCHANGED receiveVars
  BY <1>4 DEF receiveVars, recorderVars, ReceiveInv, ReceiveTypeOK, DeadlineInv, CaptureInv,
     Places, InHand
<1> QED
  BY <1>1, <1>2, <1>3, <1>4
     DEF ReceiveNext, Steps, Bind, RecvFirst, TestDeadline, Wait, RecvTimesOut, Recv, Fails,
         Interrupt, Tick

\* The invariant holds throughout receive_udp().
LEMMA ReceiveInvariant == ReceiveSpec => []ReceiveInv
BY ReceiveInitInv, ReceiveNextInv, PTL DEF ReceiveSpec

\* receive_udp() overruns its deadline by one datagram at most: a wait computed
\* before the deadline may return one after it, and then the test ends the loop.
THEOREM CaptureInTime == ReceiveSpec => []AtMostOneLate
<1>1. ReceiveInv => AtMostOneLate
  BY DEF ReceiveInv, DeadlineInv, AtMostOneLate
<1> QED
  BY <1>1, ReceiveInvariant, PTL

\* What receive_udp() saves is what it received, from the first datagram on and
\* in order; Ctrl-C costs at most the datagram in hand.
THEOREM CaptureComplete == ReceiveSpec => []CaptureKept
<1>1. ReceiveInv => CaptureKept
  BY DEF ReceiveInv, ReceiveTypeOK, CaptureInv, CaptureKept, Places
<1> QED
  BY <1>1, ReceiveInvariant, PTL

-----------------------------------------------------------------------------
(* The end of a capture.                                                    *)

\* What settimeout() is given is a positive number of at most duration, and the
\* wait it limits ends that soon.
WaitBounded ==
    /\ at = "arm" => remaining \in 1..duration
    /\ at = "recv" => timeout_at <= clock + duration

WaitInv ==
    /\ at \in {"loop", "arm", "recv", "append", "save", "done"} /\ received > 0 =>
         deadline <= clock + duration
    /\ WaitBounded

\* settimeout() of zero would poll and of less would raise: receive_udp() computes
\* remaining, tests it and only then waits, so it does neither, and no wait for a
\* datagram outlasts the whole duration, however late it begins.
THEOREM WaitsAreBounded == ReceiveSpec => []WaitBounded
<1>1. ReceiveInit => WaitInv
  BY DEF ReceiveInit, WaitInv, WaitBounded
<1>2. ASSUME ReceiveInv, WaitInv, [ReceiveNext]_receiveVars
      PROVE  WaitInv'
  <2>0. /\ clock \in Nat /\ deadline \in Nat /\ received \in Nat /\ remaining \in Int
        /\ timeout_at \in Int /\ at \in Places /\ duration \in Nat \ {0}
    BY <1>2, ReceiveAssumption DEF ReceiveInv, ReceiveTypeOK
  <2>1. at \in {"loop", "arm", "recv", "append", "save", "done"} => received > 0
    BY <1>2 DEF ReceiveInv, CaptureInv, Places
  <2>2. CASE StartCapture
    BY <2>0, <2>2 DEF StartCapture, Moves, WaitInv, WaitBounded
  <2>3. CASE TestDeadline
    <3>1. /\ at = "loop" /\ UNCHANGED <<clock, deadline, received>>
          /\ remaining' = deadline - clock
          /\ (at' = "arm" /\ deadline - clock > 0) \/ at' = "save"
      BY <2>0, <2>3 DEF TestDeadline, Moves
    <3>2. deadline <= clock + duration
      BY <1>2, <2>1, <3>1 DEF WaitInv
    <3> QED
      BY <2>0, <3>1, <3>2 DEF WaitInv, WaitBounded
  <2>4. CASE Wait
    <3>1. /\ at = "arm" /\ at' = "recv" /\ UNCHANGED <<clock, deadline, received>>
          /\ timeout_at' = clock + remaining
      BY <2>4 DEF Wait, Moves
    <3> QED
      BY <1>2, <2>0, <2>1, <3>1 DEF WaitInv, WaitBounded
  <2>5. CASE Tick
    <3>1. clock' = clock + 1 /\ UNCHANGED <<at, deadline, received, remaining, timeout_at>>
      BY <2>5 DEF Tick
    <3> QED
      BY <1>2, <2>0, <3>1 DEF WaitInv, WaitBounded
  <2>6. CASE Bind \/ RecvFirst \/ RecvTimesOut \/ Recv \/ Record \/ Save \/ Fails \/ Interrupt
    <3>1. UNCHANGED <<clock, deadline>> /\ at' \notin {"arm", "recv"}
      BY <2>6 DEF Bind, RecvFirst, RecvTimesOut, Recv, Record, Save, Fails, Interrupt, Moves
    <3>2. at' \in {"loop", "append", "save", "done"} =>
            at \in {"loop", "arm", "recv", "append", "save", "done"}
      BY <2>6 DEF Bind, RecvFirst, RecvTimesOut, Recv, Record, Save, Fails, Interrupt, Moves
    <3> QED
      BY <1>2, <2>1, <3>1, <3>2 DEF WaitInv, WaitBounded
  <2>7. CASE UNCHANGED receiveVars
    BY <1>2, <2>7 DEF receiveVars, WaitInv, WaitBounded
  <2> QED
    BY <1>2, <2>2, <2>3, <2>4, <2>5, <2>6, <2>7 DEF ReceiveNext, Steps
<1>3. WaitInv => WaitBounded
  BY DEF WaitInv
<1> QED
  BY <1>1, <1>2, <1>3, ReceiveInvariant, PTL DEF ReceiveSpec

\* Steps that receive_udp() has left at most, once the deadline has passed.
StepsLeft ==
    CASE at = "arm" -> 5
      [] at = "recv" -> 4
      [] at = "append" -> 3
      [] at = "loop" -> 2
      [] at = "save" -> 1
      [] at \in {"done", "failed"} -> 0

PastDeadline ==
    clock >= deadline /\ at \in {"loop", "arm", "recv", "append", "save", "done", "failed"}

\* The deadline stays passed, and every step brings the script nearer to its end.
CaptureRunsDown ==
    PastDeadline =>
        /\ PastDeadline'
        /\ StepsLeft' <= StepsLeft
        /\ Steps \/ Recv => StepsLeft' < StepsLeft

\* After the deadline receive_udp() has at most five steps of its own left before
\* the capture is saved or has failed, however many datagrams keep coming: a
\* steady stream cannot prolong a capture for ever.
THEOREM DeadlineEndsCapture == ReceiveSpec => [][CaptureRunsDown]_receiveVars
<1>1. ASSUME ReceiveInv, [ReceiveNext]_receiveVars, ~UNCHANGED receiveVars, PastDeadline
      PROVE  PastDeadline' /\ StepsLeft' <= StepsLeft /\ (Steps \/ Recv => StepsLeft' < StepsLeft)
  <2>0. clock \in Nat /\ deadline \in Nat /\ clock >= deadline
    BY <1>1 DEF ReceiveInv, ReceiveTypeOK, PastDeadline
  <2>1. CASE Steps \/ Recv
    <3>1. /\ clock' = clock /\ deadline' = deadline
          /\ \/ at = "loop" /\ at' = "save"
             \/ at = "arm" /\ at' = "recv"
             \/ at = "recv" /\ at' \in {"append", "save"}
             \/ at = "append" /\ at' = "loop"
             \/ at = "save" /\ at' = "done"
      BY <1>1, <2>0, <2>1 DEF Steps, Bind, StartCapture, TestDeadline, Wait, RecvTimesOut, Recv,
         Record, Save, Moves, PastDeadline
    <3> QED
      BY <2>0, <3>1 DEF StepsLeft, PastDeadline
  <2>2. CASE Fails \/ Interrupt
    <3>1. /\ clock' = clock /\ deadline' = deadline
          /\ \/ at \in {"loop", "arm", "recv", "append"} /\ at' = "save"
             \/ at \in {"recv", "save"} /\ at' = "failed"
      BY <1>1, <2>2 DEF Fails, Interrupt, Moves, PastDeadline
    <3> QED
      BY <2>0, <2>1, <3>1 DEF StepsLeft, PastDeadline
  <2>3. CASE Tick
    <3>1. clock' = clock + 1 /\ deadline' = deadline /\ at' = at
      BY <2>3 DEF Tick
    <3>2. StepsLeft' = StepsLeft /\ StepsLeft \in Int
      BY <1>1, <3>1 DEF StepsLeft, PastDeadline
    <3> QED
      BY <1>1, <2>0, <2>1, <3>1, <3>2 DEF PastDeadline
  <2>4. ~RecvFirst
    BY <1>1 DEF RecvFirst, Moves, PastDeadline
  <2> QED
    BY <1>1, <2>1, <2>2, <2>3, <2>4 DEF ReceiveNext
<1>2. ReceiveInv /\ [ReceiveNext]_receiveVars => [CaptureRunsDown]_receiveVars
  BY <1>1 DEF CaptureRunsDown
<1> QED
  BY <1>2, ReceiveInvariant, PTL DEF ReceiveSpec

-----------------------------------------------------------------------------
(* The capture as a recording.                                              *)

\* The datagrams of the capture, by their positions among those received.
Kept == [i \in DOMAIN packets |-> packets[i].at]

Closed == at \in {"save", "done", "quit", "failed"}

Prefix == INSTANCE PrefixRecording
    WITH arrived <- received, recording <- Kept, over <- Closed

\* A capture is its own enumeration.
LEMMA KeptInOrder ==
    ASSUME ReceiveInv
    PROVE  /\ Kept = [i \in 1..Len(packets) |-> i] /\ Len(Kept) = Len(packets)
           /\ Len(packets) \in Nat /\ Kept \in Seq(Nat)
<1>1. packets \in Seq(Recorded) /\ DOMAIN packets = 1..Len(packets) /\ Len(packets) \in Nat
  BY DEF ReceiveInv, ReceiveTypeOK
<1>2. Kept = [i \in 1..Len(packets) |-> i]
  BY <1>1 DEF Kept, ReceiveInv, CaptureInv
<1> QED
  BY <1>1, <1>2

\* A step that records and receives nothing.
LEMMA PrefixStays ==
    ASSUME UNCHANGED <<packets, received>>,
           \/ at' = at
           \/ at' \in {"save", "done", "quit", "failed"}
           \/ at \in {"bind", "first", "loop", "arm"} /\ at' \in {"first", "arm", "recv"}
    PROVE  [Prefix!PrefixNext]_Prefix!recordingVars
<1> USE DEF Prefix!recordingVars
<1>1. Kept' = Kept
  BY DEF Kept
<1>2. CASE Closed' = Closed
  BY <1>1, <1>2
<1>3. CASE ~Closed /\ Closed' = TRUE
  BY <1>1, <1>3 DEF Prefix!PrefixNext, Prefix!Close
<1>4. Closed' = Closed \/ (~Closed /\ Closed' = TRUE)
  <2>1. CASE at' = at
    BY <2>1, Zenon DEF Closed
  <2>2. CASE at' \in {"save", "done", "quit", "failed"}
    BY <2>2, Zenon DEF Closed
  <2>3. CASE at \in {"bind", "first", "loop", "arm"} /\ at' \in {"first", "arm", "recv"}
    <3>1. Closed = FALSE /\ Closed' = FALSE
      BY <2>3 DEF Closed
    <3> QED
      BY <3>1
  <2> QED
    BY <2>1, <2>2, <2>3
<1> QED
  BY <1>2, <1>3, <1>4

\* Each step records the datagram in hand, receives the next, ends the capture or
\* has nothing to do with it.
LEMMA PrefixStep ==
    ASSUME ReceiveInv, ReceiveInv', [ReceiveNext]_receiveVars
    PROVE  [Prefix!PrefixNext]_Prefix!recordingVars
<1> USE DEF Prefix!recordingVars
<1>1. CASE RecvFirst \/ Recv
  <2>1. /\ at \in {"first", "recv"} /\ at' \in {"start", "append"}
        /\ packets' = packets
        /\ received' = received + 1
    BY <1>1 DEF RecvFirst, Recv, Moves, recorderVars, ReceiveInv, CaptureInv
  <2>2. Kept' = Kept
    BY <2>1 DEF Kept
  <2>3. Len(Kept) = received
    <3>1. InHand = 0
      BY <2>1 DEF InHand
    <3>2. offered \in Nat /\ received = offered + InHand /\ Len(packets) = offered
      BY <2>1 DEF ReceiveInv, ReceiveTypeOK, CaptureInv
    <3> QED
      BY <3>1, <3>2, KeptInOrder
  <2>4. Closed' = Closed
    BY <2>1 DEF Closed
  <2> QED
    BY <2>1, <2>2, <2>3, <2>4 DEF Prefix!PrefixNext, Prefix!Arrive
<1>2. CASE StartCapture \/ Record
  <2>1. at \in {"start", "append"} /\ at' = "loop" /\ received' = received /\ RecorderAppend(1)
    BY <1>2 DEF StartCapture, Record, Moves
  <2>2. Len(packets') = Len(packets) + 1
    BY <2>1, AppendRecords
  <2>3. PICK n \in Nat : n = Len(packets)
    BY KeptInOrder
  <2>4. received = n + 1
    BY <2>1, <2>3 DEF ReceiveInv, ReceiveTypeOK, CaptureInv, InHand
  <2>5. Kept = [i \in 1..n |-> i] /\ Kept \in Seq(Nat) /\ Len(Kept) = n
    BY <2>3, KeptInOrder
  <2>6. Kept' = [i \in 1..n + 1 |-> i]
    <3>1. packets' \in Seq(Recorded) /\ DOMAIN packets' = 1..Len(packets')
      BY DEF ReceiveInv, ReceiveTypeOK
    <3> QED
      BY <2>2, <2>3, <3>1 DEF Kept, ReceiveInv, CaptureInv
  <2>7. Kept' = Append(Kept, received)
    BY <2>4, <2>5, <2>6
  <2>8. ~Closed /\ Closed' = Closed
    BY <2>1 DEF Closed
  <2> QED
    BY <2>1, <2>4, <2>5, <2>7, <2>8 DEF Prefix!PrefixNext, Prefix!Keep
<1>4. CASE Bind \/ TestDeadline \/ Wait \/ RecvTimesOut \/ Save \/ Fails \/ Interrupt \/ Tick
  <2>1. UNCHANGED <<packets, received>>
    BY <1>4 DEF Bind, TestDeadline, Wait, RecvTimesOut, Save, Fails, Interrupt, Tick, recorderVars
  <2>2. \/ at' = at
        \/ at' \in {"save", "done", "quit", "failed"}
        \/ at \in {"bind", "first", "loop", "arm"} /\ at' \in {"first", "arm", "recv"}
    BY <1>4 DEF Bind, TestDeadline, Wait, RecvTimesOut, Save, Fails, Interrupt, Tick, Moves
  <2> QED
    BY <2>1, <2>2, PrefixStays
<1>3. CASE UNCHANGED receiveVars
  <2>1. UNCHANGED <<packets, received>> /\ at' = at
    BY <1>3 DEF receiveVars, recorderVars
  <2> QED
    BY <2>1, PrefixStays
<1> QED
  BY <1>1, <1>2, <1>3, <1>4 DEF ReceiveNext, Steps

\* receive_udp() implements a lossless recording: every datagram is recorded
\* before the next is received, until the deadline, a timeout, a failure or
\* Ctrl-C; after that none is received or recorded.
THEOREM CaptureImplementsPrefix == ReceiveSpec => Prefix!PrefixSpec
<1>1. ReceiveInit => Prefix!PrefixInit
  <2> SUFFICES ASSUME ReceiveInit
               PROVE  received = 0 /\ Kept = <<>> /\ Closed \in BOOLEAN
    BY DEF Prefix!PrefixInit
  <2>1. received = 0 /\ packets = <<>>
    BY DEF ReceiveInit, RecorderInit
  <2>2. Kept = <<>>
    BY <2>1 DEF Kept
  <2>3. Closed = FALSE
    BY DEF ReceiveInit, Closed
  <2> QED
    BY <2>1, <2>2, <2>3
<1> QED
  BY <1>1, PrefixStep, ReceiveInvariant, PTL DEF ReceiveSpec, Prefix!PrefixSpec

=============================================================================
