----------------------------- MODULE BoundedProofs -----------------------------
(***************************************************************************)
(* Proofs about the lock and the condition variable of the raw queue: they *)
(* keep the promise of RawQueue and lose no wakeup, for any capacity and   *)
(* any number of consumers.                                                *)
(***************************************************************************)
EXTENDS BoundedRawQueue, QueueProofs, FiniteSetTheorems

\* The lock-and-condition implementation takes only steps of the atomic queue.
THEOREM BoundedImplementsQueue == BoundedSpec => QueueSpec
<1>1. BoundedInit => QueueInit
  BY DEF BoundedInit
<1>2. [BoundedNext]_boundedVars => [QueueNext]_queueVars
  BY DEF BoundedNext, BoundedPut, GetAtOnce, Wait, Expire, Awaken, GetAwake, WaitAgain,
         GiveUp, QueueNext, boundedVars
<1> QED
  BY <1>1, <1>2, PTL DEF BoundedSpec, QueueSpec

\* Every consumer is at one of the four points of get().
GetterOK == getter \in [Consumers -> {"idle", "waiting", "notified", "expired"}]

\* The consumers at a given point of get() can be counted.
LEMMA AtStateFinite ==
    ASSUME NEW label
    PROVE  IsFiniteSet(AtState(label)) /\ Cardinality(AtState(label)) \in Nat
<1>1. AtState(label) \in SUBSET Consumers /\ IsFiniteSet(Consumers)
  BY ConsumersAssumption DEF AtState
<1> HIDE DEF AtState
<1>2. IsFiniteSet(AtState(label))
  BY <1>1, FS_Subset, Zenon
<1> QED
  BY <1>2, FS_CardinalityType

\* While a consumer waits, the notified ones can take every queued item.
LEMMA WakeupStep ==
    ASSUME QueueInv, GetterOK, NoLostWakeup, BoundedNext
    PROVE  GetterOK' /\ NoLostWakeup'
<1> DEFINE N == AtState("notified")
<1>1. items \in Seq(Nat) /\ Len(items) \in Nat
  BY DEF QueueInv, QueueTypeOK
<1>2. IsFiniteSet(N) /\ Cardinality(N) \in Nat
  BY AtStateFinite
<1>3. ASSUME BoundedPut
      PROVE  GetterOK' /\ NoLostWakeup'
  <2>1. CASE AtState("waiting") = {}
    <3>1. getter' = getter
      BY <1>3, <2>1 DEF BoundedPut, notify, AtState
    <3> QED
      BY <2>1, <3>1 DEF GetterOK, NoLostWakeup, AtState
  <2>2. CASE AtState("waiting") # {}
    <3>1. PICK c \in AtState("waiting") : getter' = [getter EXCEPT ![c] = "notified"]
      BY <1>3, <2>2 DEF BoundedPut, notify
    <3>2. c \in Consumers /\ getter[c] = "waiting"
      BY DEF AtState
    <3>3. GetterOK' /\ N' = N \cup {c} /\ c \notin N
      BY <3>1, <3>2 DEF GetterOK, AtState
    <3>4. Cardinality(N') = Cardinality(N) + 1
      BY <1>2, <3>3, FS_AddElement
    <3>5. Len(items') <= Len(items) + 1
      BY <1>1, <1>3, MaxsizeAssumption DEF BoundedPut, Put
    <3>6. Len(items') \in Nat
      BY <1>3, PutInv DEF BoundedPut, QueueInv, QueueTypeOK
    <3>7. Len(items) <= Cardinality(N)
      BY <2>2 DEF NoLostWakeup
    <3> QED
      BY <1>1, <1>2, <3>3, <3>4, <3>5, <3>6, <3>7 DEF NoLostWakeup
  <2> QED
    BY <2>1, <2>2
<1>4. ASSUME NEW c \in Consumers, GetAtOnce(c)
      PROVE  GetterOK' /\ NoLostWakeup'
  <2>1. getter' = getter /\ Len(items') = Len(items) - 1
    BY <1>4, GetInv DEF GetAtOnce
  <2> QED
    BY <1>1, <1>2, <2>1 DEF GetterOK, NoLostWakeup, AtState
<1>5. ASSUME NEW c \in Consumers, Wait(c) \/ WaitAgain(c)
      PROVE  GetterOK' /\ NoLostWakeup'
  <2>1. items' = <<>> /\ getter' = [getter EXCEPT ![c] = "waiting"]
    BY <1>5 DEF Wait, WaitAgain, queueVars
  <2>2. Cardinality(N') \in Nat
    <3>1. N' \in SUBSET Consumers /\ IsFiniteSet(Consumers)
      BY ConsumersAssumption DEF AtState
    <3> HIDE DEF N
    <3>2. IsFiniteSet(N')
      BY <3>1, FS_Subset, Zenon
    <3> QED
      BY <3>2, FS_CardinalityType
  <2> QED
    BY <2>1, <2>2 DEF GetterOK, NoLostWakeup
<1>6. ASSUME NEW c \in Consumers, Expire(c) \/ GiveUp(c)
      PROVE  GetterOK' /\ NoLostWakeup'
  <2>1. /\ getter[c] # "notified" /\ items' = items
        /\ \/ getter' = [getter EXCEPT ![c] = "expired"]
           \/ getter' = [getter EXCEPT ![c] = "idle"]
    BY <1>6 DEF Expire, GiveUp, GetNothing, queueVars
  <2>2. GetterOK' /\ N' = N /\ AtState("waiting")' \subseteq AtState("waiting")
    BY <2>1 DEF GetterOK, AtState
  <2> QED
    BY <2>1, <2>2 DEF NoLostWakeup
<1>7. ASSUME NEW c \in Consumers, GetAwake(c)
      PROVE  GetterOK' /\ NoLostWakeup'
  <2>1. /\ getter[c] \in {"notified", "expired"}
        /\ getter' = [getter EXCEPT ![c] = "idle"]
        /\ Len(items') = Len(items) - 1
    BY <1>7, GetInv DEF GetAwake
  <2>2. /\ GetterOK' /\ N' = N \ {c}
        /\ AtState("waiting")' = AtState("waiting")
    BY <2>1 DEF GetterOK, AtState
  <2>3. Cardinality(N') >= Cardinality(N) - 1 /\ Cardinality(N') \in Int
    BY <1>2, <2>2, FS_RemoveElement
  <2> QED
    BY <1>1, <1>2, <2>1, <2>2, <2>3 DEF NoLostWakeup
<1> QED
  BY <1>3, <1>4, <1>5, <1>6, <1>7 DEF BoundedNext, Awaken

\* No wakeup is lost, for any number of consumers, timeouts included.
THEOREM BoundedLosesNoWakeup == BoundedSpec => [](BoundedTypeOK /\ NoLostWakeup)
<1> DEFINE Inv == QueueInv /\ GetterOK /\ NoLostWakeup
<1>1. BoundedInit => Inv
  <2> SUFFICES ASSUME BoundedInit PROVE Inv
    OBVIOUS
  <2>1. AtState("waiting") = {}
    BY DEF BoundedInit, AtState
  <2> QED
    BY <2>1, QueueInitInv DEF BoundedInit, GetterOK, NoLostWakeup
<1>2. Inv /\ [BoundedNext]_boundedVars => Inv'
  <2>1. [BoundedNext]_boundedVars => [QueueNext]_queueVars
    BY DEF BoundedNext, BoundedPut, GetAtOnce, Wait, Expire, Awaken, GetAwake, WaitAgain,
           GiveUp, QueueNext, boundedVars
  <2>2. ASSUME Inv, UNCHANGED boundedVars PROVE GetterOK' /\ NoLostWakeup'
    BY <2>2 DEF boundedVars, queueVars, GetterOK, NoLostWakeup, AtState
  <2> QED
    BY <2>1, <2>2, WakeupStep, QueueNextInv
<1>3. Inv => BoundedTypeOK /\ NoLostWakeup
  BY DEF QueueInv, GetterOK, BoundedTypeOK
<1> QED
  BY <1>1, <1>2, <1>3, PTL DEF BoundedSpec

=============================================================================
