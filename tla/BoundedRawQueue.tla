---------------------------- MODULE BoundedRawQueue ----------------------------
(***************************************************************************)
(* queues.py, class BoundedRawQueue: the lock and the condition variable   *)
(* behind put() and get().  A consumer that finds the queue empty releases *)
(* the lock and joins the waiters; put() appends and notifies one waiter;  *)
(* a waiter that is notified, or whose timeout expires, has to take the    *)
(* lock again before it re-evaluates the predicate, and others may get in  *)
(* between.                                                                *)
(***************************************************************************)
EXTENDS RawQueue, FiniteSets

CONSTANTS
    Consumers,   \* threads that call get()
    Timed        \* does get() have a timeout?

ASSUME ConsumersAssumption == IsFiniteSet(Consumers) /\ Timed \in BOOLEAN

VARIABLE
    getter       \* consumer -> where it is in get()

boundedVars == <<queueVars, getter>>

AtState(label) == {c \in Consumers : getter[c] = label}

BoundedInit ==
    /\ QueueInit
    /\ getter = [c \in Consumers |-> "idle"]

\* Mutant: put() does not notify.
notify_nobody == UNCHANGED getter

\* put(): the eviction, the append and notify() under one lock.
notify ==
    \/ /\ AtState("waiting") = {}
       /\ UNCHANGED getter
    \/ \E c \in AtState("waiting") : getter' = [getter EXCEPT ![c] = "notified"]

BoundedPut == Put /\ notify

\* get() when the predicate holds at once, or when it does not.
GetAtOnce(c) ==
    /\ getter[c] = "idle"
    /\ Get
    /\ UNCHANGED getter

Wait(c) ==
    /\ getter[c] = "idle"
    /\ items = <<>>
    /\ getter' = [getter EXCEPT ![c] = "waiting"]
    /\ UNCHANGED queueVars

\* The timeout of a waiter expires before it is notified.
Expire(c) ==
    /\ Timed
    /\ getter[c] = "waiting"
    /\ getter' = [getter EXCEPT ![c] = "expired"]
    /\ UNCHANGED queueVars

\* wait_for() evaluates the predicate again once the waiter has the lock, also
\* after a timeout; a notified waiter that finds the queue empty waits again.
GetAwake(c) ==
    /\ getter[c] \in {"notified", "expired"}
    /\ Get
    /\ getter' = [getter EXCEPT ![c] = "idle"]

WaitAgain(c) ==
    /\ getter[c] = "notified"
    /\ items = <<>>
    /\ getter' = [getter EXCEPT ![c] = "waiting"]
    /\ UNCHANGED queueVars

\* Mutant: the predicate is not evaluated again after a timeout.
GiveUpUnchecked(c) ==
    /\ getter[c] = "expired"
    /\ got' = 0
    /\ getter' = [getter EXCEPT ![c] = "idle"]
    /\ UNCHANGED <<items, queue_dropped, puts, gets>>

GiveUp(c) ==
    /\ getter[c] = "expired"
    /\ GetNothing
    /\ getter' = [getter EXCEPT ![c] = "idle"]

Awaken(c) == GetAwake(c) \/ WaitAgain(c) \/ GiveUp(c)

BoundedNext ==
    \/ BoundedPut
    \/ \E c \in Consumers :
          GetAtOnce(c) \/ Wait(c) \/ Expire(c) \/ Awaken(c)

BoundedSpec == BoundedInit /\ [][BoundedNext]_boundedVars

\* A runnable consumer eventually gets the lock; nobody has to call get().
FairBoundedSpec == BoundedSpec /\ \A c \in Consumers : WF_boundedVars(Awaken(c))

-----------------------------------------------------------------------------
BoundedTypeOK ==
    /\ QueueTypeOK
    /\ getter \in [Consumers -> {"idle", "waiting", "notified", "expired"}]

\* No lost wakeup: while some consumer waits, every queued item has a notified
\* consumer on its way to it.  get() evaluates the predicate before it waits
\* and put() notifies under the same lock.
NoLostWakeup ==
    AtState("waiting") # {} => Len(items) <= Cardinality(AtState("notified"))

\* A consumer blocked in get() while an item is there does not sleep on it for
\* good, even if its timeout never comes: the item is taken or evicted.
WaitersServed ==
    \A c \in Consumers : \A n \in 1..MaxPuts :
        (getter[c] = "waiting" /\ items # <<>> /\ Head(items) = n)
            ~> (items = <<>> \/ Head(items) # n)

=============================================================================
