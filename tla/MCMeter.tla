-------------------------------- MODULE MCMeter --------------------------------
(* ThroughputMeter with a jitter buffer of two windows. *)
EXTENDS ThroughputMeter, TLC

Placed(s, ts, rate, n) == [stream |-> s, num_samples |-> n, rate |-> rate, start |-> ts]

\* Windows of one tick at two rates, a long one that can enclose others and one
\* that leaves a gap; a unit without a rate, one without a time, one whose rate
\* is zero, and one without samples.
MeterUnits ==
    UNION {{Placed(s, 0, 1, 1), Placed(s, 1, 2, 2), Placed(s, 1, 1, 3),
            Placed(s, 2, 1, 1), Placed(s, 3, 2, 2), Placed(s, 20, 1, 1),
            Placed(s, 0, None, 1), Placed(s, None, 1, 1),
            Placed(s, 1, 0, 2), Placed(s, 2, 1, 0)} : s \in Streams}

StreamSymmetry == Permutations(Streams)

=============================================================================
