----------------------------- MODULE QueueProofs -----------------------------
(***************************************************************************)
(* Proofs about the raw queue with put and get atomic: what it keeps, in   *)
(* which order it delivers, and that it implements the sliding window, for *)
(* any capacity.                                                           *)
(***************************************************************************)
EXTENDS RawQueue, TLAPS

\* The inductive invariant: the three queue properties support each other.
QueueInv ==
    /\ QueueTypeOK
    /\ NewestKept
    /\ ItemsAccounted

\* The empty queue of __init__ satisfies the invariant.
LEMMA QueueInitInv == QueueInit => QueueInv
BY MaxsizeAssumption DEF QueueInit, QueueInv, QueueTypeOK, NewestKept, ItemsAccounted

\* A put evicts the oldest item of a full queue and appends the newest.
LEMMA PutInv ==
    ASSUME QueueInv, Put
    PROVE  QueueInv'
<1> USE MaxsizeAssumption
<1>1. /\ items \in Seq(Nat) /\ puts \in Nat /\ gets \in Nat /\ queue_dropped \in Nat
      /\ got \in Nat /\ Len(items) <= maxsize /\ Len(items) <= puts
      /\ \A i \in 1..Len(items) : items[i] = puts - Len(items) + i
      /\ puts = gets + queue_dropped + Len(items)
  BY DEF QueueInv, QueueTypeOK, NewestKept, ItemsAccounted
<1>2. puts' = puts + 1 /\ gets' = gets /\ got' = got
  BY DEF Put
<1>3. CASE Len(items) < maxsize
  <2>1. items' = Append(items, puts') /\ queue_dropped' = queue_dropped
    BY <1>1, <1>3 DEF Put
  <2>2. /\ items' \in Seq(Nat) /\ Len(items') = Len(items) + 1
        /\ \A i \in 1..Len(items') :
             items'[i] = IF i <= Len(items) THEN items[i] ELSE puts'
    BY <1>1, <1>2, <2>1
  <2> QED
    BY <1>1, <1>2, <1>3, <2>1, <2>2 DEF QueueInv, QueueTypeOK, NewestKept, ItemsAccounted
<1>4. CASE Len(items) >= maxsize
  <2>0. queue_dropped' = queue_dropped + 1
    BY <1>1, <1>4 DEF Put
  <2>1. items' = Append(Tail(items), puts')
    BY <1>1, <1>4 DEF Put
  <2>2. items # <<>> /\ Len(items) \in Nat \ {0}
    BY <1>1, <1>4
  <2> DEFINE t == Tail(items)
  <2>3. /\ t \in Seq(Nat) /\ Len(t) = Len(items) - 1
        /\ \A i \in 1..Len(items) - 1 : t[i] = items[i + 1]
    BY <1>1, <2>2
  <2> HIDE DEF t
  <2>4. items' = Append(t, puts + 1)
    BY <1>2, <2>1 DEF t
  <2>5. /\ items' \in Seq(Nat) /\ Len(items') = Len(items)
        /\ \A i \in 1..Len(t) : items'[i] = t[i]
        /\ items'[Len(items)] = puts + 1
    BY <1>1, <2>2, <2>3, <2>4
  <2>6. ASSUME NEW i \in 1..Len(items)
        PROVE  items'[i] = puts + 1 - Len(items) + i
    <3>1. CASE i = Len(items)
      BY <1>1, <2>5, <3>1
    <3>2. CASE i # Len(items)
      <4>1. i \in 1..Len(items) - 1 /\ i + 1 \in 1..Len(items)
        BY <2>2, <3>2
      <4>2. items'[i] = items[i + 1]
        BY <2>3, <2>5, <4>1
      <4> QED
        BY <1>1, <4>1, <4>2
    <3> QED
      BY <3>1, <3>2
  <2>7. QueueTypeOK'
    BY <1>1, <1>2, <2>0, <2>5 DEF QueueTypeOK
  <2>8. NewestKept'
    BY <1>1, <1>2, <2>5, <2>6 DEF NewestKept
  <2>9. ItemsAccounted'
    BY <1>1, <1>2, <2>0, <2>5 DEF ItemsAccounted
  <2> QED
    BY <2>7, <2>8, <2>9 DEF QueueInv
<1> QED
  BY <1>1, <1>3, <1>4

\* get() takes the oldest item, which is the successor of all those that left.
LEMMA GetInv ==
    ASSUME QueueInv, Get
    PROVE  /\ QueueInv'
           /\ got' = gets + queue_dropped + 1
           /\ Len(items') = Len(items) - 1
<1>1. /\ items \in Seq(Nat) /\ puts \in Nat /\ gets \in Nat /\ queue_dropped \in Nat
      /\ Len(items) <= maxsize /\ Len(items) <= puts
      /\ \A i \in 1..Len(items) : items[i] = puts - Len(items) + i
      /\ puts = gets + queue_dropped + Len(items)
  BY DEF QueueInv, QueueTypeOK, NewestKept, ItemsAccounted
<1>2. /\ items # <<>> /\ got' = Head(items) /\ items' = Tail(items) /\ gets' = gets + 1
      /\ queue_dropped' = queue_dropped /\ puts' = puts
  BY DEF Get
<1>3. /\ items' \in Seq(Nat) /\ Len(items') = Len(items) - 1
      /\ \A i \in 1..Len(items) - 1 : items'[i] = items[i + 1]
      /\ got' = items[1] /\ Len(items) \in Nat \ {0}
  BY <1>1, <1>2
<1>4. QueueInv'
  BY <1>1, <1>2, <1>3, MaxsizeAssumption
     DEF QueueInv, QueueTypeOK, NewestKept, ItemsAccounted
<1> QED
  BY <1>1, <1>2, <1>3, <1>4

\* Every step of the queue preserves its invariant.
LEMMA QueueNextInv == QueueInv /\ [QueueNext]_queueVars => QueueInv'
<1>1. ASSUME QueueInv, GetNothing \/ UNCHANGED queueVars PROVE QueueInv'
  BY <1>1 DEF GetNothing, queueVars, QueueInv, QueueTypeOK, NewestKept, ItemsAccounted
<1> QED
  BY <1>1, PutInv, GetInv DEF QueueNext

\* A queue of any capacity keeps the newest items and accounts for the others.
THEOREM QueueKeepsNewest == QueueSpec => [](QueueTypeOK /\ NewestKept /\ ItemsAccounted)
<1>1. QueueInv => QueueTypeOK /\ NewestKept /\ ItemsAccounted
  BY DEF QueueInv
<1> QED
  BY <1>1, QueueInitInv, QueueNextInv, PTL DEF QueueSpec

\* get() delivers in order and never what was returned or evicted before.
THEOREM QueueDeliversInOrder == QueueSpec => DeliveredInOrder
<1>1. ASSUME QueueInv, [QueueNext]_queueVars
      PROVE  [gets' # gets => got' = gets + queue_dropped + 1]_queueVars
  BY <1>1, GetInv DEF QueueNext, Put, GetNothing, queueVars
<1> QED
  BY <1>1, QueueInitInv, QueueNextInv, PTL DEF QueueSpec, DeliveredInOrder

\* In a state that satisfies the invariant, the queue is full, or empty, exactly
\* if the window is.
LEMMA WindowLength ==
    ASSUME QueueInv
    PROVE  /\ items \in Seq(Nat) /\ puts \in Nat /\ gets \in Nat /\ queue_dropped \in Nat
           /\ puts - (gets + queue_dropped) = Len(items)
           /\ Len(items) \in Nat /\ Len(items) <= maxsize
           /\ items = <<>> <=> Len(items) = 0
BY DEF QueueInv, QueueTypeOK, NewestKept, ItemsAccounted

\* Every step of the queue is a step of the window or leaves it as it is.
LEMMA WindowStep ==
    ASSUME QueueInv, [QueueNext]_queueVars
    PROVE  [Window!WindowNext]_Window!windowVars
<1> USE MaxsizeAssumption, WindowLength
<1>1. CASE Put
  BY <1>1 DEF Put, Window!WindowNext, Window!WindowPut
<1>2. CASE Get
  BY <1>2, GetInv DEF Get, Window!WindowNext, Window!WindowGet
<1>3. CASE GetNothing
  BY <1>3 DEF GetNothing, Window!WindowNext, Window!WindowGetNothing
<1>4. CASE UNCHANGED queueVars
  BY <1>4 DEF queueVars, Window!windowVars
<1> QED
  BY <1>1, <1>2, <1>3, <1>4 DEF QueueNext

\* The deque with its counter implements the sliding window, for any capacity.
THEOREM QueueImplementsWindow == QueueSpec => ImplementsWindow
<1>1. QueueInit => Window!WindowInit
  BY DEF QueueInit, Window!WindowInit
<1> QED
  BY <1>1, QueueInitInv, QueueNextInv, WindowStep, PTL
     DEF QueueSpec, ImplementsWindow, Window!WindowSpec

=============================================================================
