------------------------------ MODULE ReceiveUdp ------------------------------
(***************************************************************************)
(* receiver/recieve_udp.py: capture datagrams for some time after the      *)
(* first one and save them.  One thread, a socket, a clock, and Ctrl-C.    *)
(*                                                                         *)
(* Time is discrete.  Any number of steps fit into one tick and a step may *)
(* take any number of ticks, so the clock moves between a test of the      *)
(* deadline and the wait that follows it.  Sizes play no part here, the    *)
(* recorder has no cap: every datagram has size 1.                         *)
(***************************************************************************)
EXTENDS Recorder

CONSTANTS
    duration,       \* --duration, in ticks
    MaxTime,        \* bound: the clock stops here
    MaxReceived     \* bound: datagrams the sender sends

\* main() refuses a duration that is not positive.
ASSUME ReceiveAssumption ==
    /\ duration \in Nat \ {0} /\ MaxTime \in Nat /\ MaxReceived \in Nat
    /\ MaxTime >= 2 * duration
    /\ max_packets = NoCap /\ max_bytes = NoCap

VARIABLES
    clock,          \* time.monotonic()
    at,             \* where receive_udp() is
    received,       \* datagrams that recvfrom() has returned
    deadline,
    remaining,      \* the timeout of the socket
    timeout_at,     \* when the wait in recvfrom() ends with that timeout
    late,           \* ghost: datagrams returned at or after the deadline
    interrupted,    \* ghost: Ctrl-C came
    file            \* the capture that was saved, <<>> if none

receiveVars ==
    <<recorderVars, clock, at, received, deadline, remaining, timeout_at, late,
      interrupted, file>>

ReceiveInit ==
    /\ RecorderInit
    /\ clock = 0
    /\ at = "bind"
    /\ received = 0
    /\ deadline = 0
    /\ remaining = 0
    /\ timeout_at = 0
    /\ late = 0
    /\ interrupted = FALSE
    /\ file = <<>>

-----------------------------------------------------------------------------
(* receive_udp()                                                            *)

Moves(from, to) == at = from /\ at' = to

Bind ==
    /\ Moves("bind", "first")
    /\ UNCHANGED <<recorderVars, clock, received, deadline, remaining, timeout_at, late,
                   interrupted, file>>

\* The first wait has no timeout.
RecvFirst ==
    /\ Moves("first", "start")
    /\ MaxReceived > 0
    /\ received' = 1
    /\ UNCHANGED <<recorderVars, clock, deadline, remaining, timeout_at, late,
                   interrupted, file>>

StartCapture ==
    /\ Moves("start", "loop")
    /\ deadline' = clock + duration
    /\ RecorderAppend(1)
    /\ UNCHANGED <<clock, received, remaining, timeout_at, late, interrupted, file>>

\* Mutant: only a timeout ends the loop, not the deadline.
TestDeadlineNever ==
    /\ Moves("loop", "arm")
    /\ remaining' = duration
    /\ UNCHANGED <<recorderVars, clock, received, deadline, timeout_at, late,
                   interrupted, file>>

TestDeadline ==
    /\ Moves("loop", IF deadline - clock <= 0 THEN "save" ELSE "arm")
    /\ remaining' = deadline - clock
    /\ UNCHANGED <<recorderVars, clock, received, deadline, timeout_at, late,
                   interrupted, file>>

\* Mutant: the socket stays without a timeout.
WaitForever ==
    /\ Moves("arm", "recv")
    /\ timeout_at' = MaxTime + 1
    /\ UNCHANGED <<recorderVars, clock, received, deadline, remaining, late,
                   interrupted, file>>

\* The wait begins when recvfrom() is called, not when remaining was computed.
Wait ==
    /\ Moves("arm", "recv")
    /\ timeout_at' = clock + remaining
    /\ UNCHANGED <<recorderVars, clock, received, deadline, remaining, late,
                   interrupted, file>>

\* recvfrom(): a datagram, also one that arrives with the timeout; the timeout.
Recv ==
    /\ Moves("recv", "append")
    /\ received < MaxReceived
    /\ received' = received + 1
    /\ late' = IF clock >= deadline THEN late + 1 ELSE late
    /\ UNCHANGED <<recorderVars, clock, deadline, remaining, timeout_at, interrupted, file>>

RecvTimesOut ==
    /\ Moves("recv", "save")
    /\ clock >= timeout_at
    /\ UNCHANGED <<recorderVars, clock, received, deadline, remaining, timeout_at, late,
                   interrupted, file>>

\* Mutant: a datagram that comes with the deadline is thrown away.
RecordInTime ==
    /\ Moves("append", "loop")
    /\ IF clock >= deadline THEN UNCHANGED recorderVars ELSE RecorderAppend(1)
    /\ UNCHANGED <<clock, received, deadline, remaining, timeout_at, late, interrupted, file>>

Record ==
    /\ Moves("append", "loop")
    /\ RecorderAppend(1)
    /\ UNCHANGED <<clock, received, deadline, remaining, timeout_at, late, interrupted, file>>

Save ==
    /\ Moves("save", "done")
    /\ file' = packets
    /\ UNCHANGED <<recorderVars, clock, received, deadline, remaining, timeout_at, late,
                   interrupted>>

Steps ==
    \/ Bind \/ StartCapture \/ TestDeadline \/ Wait \/ RecvTimesOut \/ Record \/ Save

\* bind(), recvfrom() or save() raises: nothing handles it.
Fails ==
    /\ at \in {"bind", "first", "recv", "save"} /\ at' = "failed"
    /\ UNCHANGED <<recorderVars, clock, received, deadline, remaining, timeout_at, late,
                   interrupted, file>>

\* Ctrl-C is handled in the wait for the first datagram and in the loop.
Interrupt ==
    /\ \/ Moves("first", "quit")
       \/ at \in {"loop", "arm", "recv", "append"} /\ at' = "save"
       \/ at \in {"bind", "start", "save"} /\ at' = "failed"
    /\ interrupted' = TRUE
    /\ UNCHANGED <<recorderVars, clock, received, deadline, remaining, timeout_at, late, file>>

\* The clock matters once there is a deadline.  Outside of the wait it leaves
\* room for a whole duration, so that every timeout lies within the bound.
Tick ==
    /\ at \in {"loop", "arm", "recv", "append", "save"}
    /\ clock < IF at = "recv" THEN MaxTime ELSE MaxTime - duration
    /\ clock' = clock + 1
    /\ UNCHANGED <<recorderVars, at, received, deadline, remaining, timeout_at, late,
                   interrupted, file>>

Ended == at \in {"done", "quit", "failed"}

ReceiveNext ==
    \/ Steps \/ RecvFirst \/ Recv \/ Fails \/ Interrupt \/ Tick
    \/ Ended /\ UNCHANGED receiveVars

ReceiveSpec == ReceiveInit /\ [][ReceiveNext]_receiveVars

\* The program runs and time passes; the sender owes nothing.
FairReceiveSpec == ReceiveSpec /\ WF_receiveVars(Steps) /\ WF_receiveVars(Tick)

-----------------------------------------------------------------------------
(* Properties.                                                              *)

\* "Saving packets received so far": a saved capture is what was received, in
\* order and from the first datagram on; Ctrl-C may cost the one datagram that
\* was received and not yet recorded.  "Stopped before receiving any packets"
\* is the truth.
CaptureKept ==
    /\ at = "done" =>
         /\ \A i \in DOMAIN file : file[i].at = i
         /\ Len(file) = received \/ (interrupted /\ Len(file) = received - 1)
         /\ Len(file) > 0
    /\ at = "quit" => received = 0

\* A steady stream does not prolong the capture: however late a wait begins, at
\* most one datagram is returned at or after the deadline.
AtMostOneLate == late <= 1

\* After the first datagram the capture ends, also if no other ever comes.
CaptureEnds == received > 0 ~> Ended

=============================================================================
