------------------------------- MODULE RawQueue -------------------------------
(***************************************************************************)
(* What queues.py promises: a bounded FIFO that never blocks its producer, *)
(* keeps the newest items and counts the ones it evicts.  put and get are  *)
(* atomic here; BoundedRawQueue shows how the condition variable achieves  *)
(* that.  An item is represented by its position among all puts, from 1.   *)
(***************************************************************************)
EXTENDS Integers, Sequences

CONSTANTS
    maxsize,   \* capacity
    MaxPuts    \* bound on the number of puts, unbounded in the code

ASSUME MaxsizeAssumption == maxsize \in Nat \ {0} /\ MaxPuts \in Nat

VARIABLES
    items,           \* _items
    queue_dropped,   \* _dropped
    puts,            \* ghost: calls of put() so far
    gets,            \* ghost: items returned by get() so far
    got              \* ghost: what the last get() returned, 0 for None

queueVars == <<items, queue_dropped, puts, gets, got>>

QueueInit ==
    /\ items = <<>>
    /\ queue_dropped = 0
    /\ puts = 0
    /\ gets = 0
    /\ got = 0

\* Mutant: a full queue refuses the newest item.
PutRefusesNewest ==
    /\ puts < MaxPuts
    /\ puts' = puts + 1
    /\ \/ /\ Len(items) >= maxsize
          /\ queue_dropped' = queue_dropped + 1
          /\ UNCHANGED items
       \/ /\ Len(items) < maxsize
          /\ items' = Append(items, puts')
          /\ UNCHANGED queue_dropped
    /\ UNCHANGED <<gets, got>>

\* Mutant: one place of the queue is never used.
PutEvictsEarly ==
    /\ puts < MaxPuts
    /\ puts' = puts + 1
    /\ \/ /\ Len(items) >= maxsize - 1 /\ items # <<>>
          /\ items' = Append(Tail(items), puts')
          /\ queue_dropped' = queue_dropped + 1
       \/ /\ Len(items) < maxsize - 1
          /\ items' = Append(items, puts')
          /\ UNCHANGED queue_dropped
    /\ UNCHANGED <<gets, got>>

Put ==
    /\ puts < MaxPuts
    /\ puts' = puts + 1
    /\ \/ /\ Len(items) >= maxsize
          /\ items' = Append(Tail(items), puts')
          /\ queue_dropped' = queue_dropped + 1
       \/ /\ Len(items) < maxsize
          /\ items' = Append(items, puts')
          /\ UNCHANGED queue_dropped
    /\ UNCHANGED <<gets, got>>

Get ==
    /\ items # <<>>
    /\ got' = Head(items)
    /\ items' = Tail(items)
    /\ gets' = gets + 1
    /\ UNCHANGED <<queue_dropped, puts>>

\* None is returned only when there is nothing to return.
GetNothing ==
    /\ items = <<>>
    /\ got' = 0
    /\ UNCHANGED <<items, queue_dropped, puts, gets>>

QueueNext == Put \/ Get \/ GetNothing

QueueSpec == QueueInit /\ [][QueueNext]_queueVars

-----------------------------------------------------------------------------
QueueTypeOK ==
    /\ items \in Seq(Nat)
    /\ queue_dropped \in Nat
    /\ puts \in Nat
    /\ gets \in Nat
    /\ got \in Nat

\* The queue holds exactly the newest puts, in order and at most maxsize of
\* them: eviction takes from the old end only.
NewestKept ==
    /\ Len(items) <= maxsize
    /\ Len(items) <= puts
    /\ \A i \in 1..Len(items) : items[i] = puts - Len(items) + i

\* Every item put is returned, still queued, or counted in dropped.
ItemsAccounted == puts = gets + queue_dropped + Len(items)

\* get() returns the oldest item that was not evicted: the one right after all
\* those that have already been returned or evicted.  So nothing is returned
\* twice, out of order, or after it was counted as dropped.
DeliveredInOrder == [][gets' # gets => got' = gets + queue_dropped + 1]_queueVars

Window == INSTANCE NewestWindow
    WITH size <- maxsize, gone <- gets + queue_dropped, last <- puts, taken <- got

\* "Thread-safe bounded FIFO that drops the OLDEST item when full": what callers
\* see of the deque and its counter is a sliding window over all puts, which
\* uses its capacity to the full and evicts no sooner than it must.
ImplementsWindow == Window!WindowSpec

=============================================================================
