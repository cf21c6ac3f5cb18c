------------------------------ MODULE MeterProofs ------------------------------
(***************************************************************************)
(* Proofs about the throughput meter, for every number of streams and      *)
(* units, every depth of the jitter buffer and every order in which        *)
(* windows arrive: the incremental integration of a stream computes the    *)
(* loss that the reference defines instant by instant, and the verdict     *)
(* speaks for every stream.                                                *)
(***************************************************************************)
EXTENDS ThroughputMeter, FiniteSetTheorems, SequenceTheorems, TLAPS

\* What a placed unit adds: some whole ticks of samples.
Windows ==
    {w \in [ts : Nat, rate : Nat \ {0}, n : Nat \ {0}] : w.n % w.rate = 0}

-----------------------------------------------------------------------------
(* Numbers and sets.                                                        *)

\* Natural numbers have a least one.
LEMMA LeastNatural ==
    ASSUME NEW T \in SUBSET Nat, T # {}
    PROVE  \E x \in T : \A y \in T : x <= y
<1>1. \E x \in T : \A y \in T : ~ (<<y, x>> \in OpToRel(<, Nat))
  BY WFMin, NatLessThanWellFounded, Zenon
<1>2. PICK x \in T : \A y \in T : ~ (<<y, x>> \in OpToRel(<, Nat))
  BY <1>1
<1>3. ASSUME NEW y \in T
      PROVE  x <= y
  <2>1. ~ (<<y, x>> \in {ss \in Nat \X Nat : ss[1] < ss[2]})
    BY <1>2, Zenon DEF OpToRel
  <2>2. x \in Nat /\ y \in Nat
    OBVIOUS
  <2> QED
    BY <2>1, <2>2
<1> QED
  BY <1>3

\* An interval has as many elements as its bounds say.
LEMMA IntervalSize ==
    ASSUME NEW a \in Int, NEW b \in Int
    PROVE  /\ IsFiniteSet(a..b)
           /\ a <= b + 1 => Cardinality(a..b) = b - a + 1
           /\ a > b => Cardinality(a..b) = 0
<1>1. IsFiniteSet(a..b) /\ Cardinality(a..b) = IF a > b THEN 0 ELSE b - a + 1
  BY FS_Interval, Zenon
<1> QED
  BY <1>1

\* Finite sets without a common element.
LEMMA DisjointUnion ==
    ASSUME NEW S, NEW T, IsFiniteSet(S), IsFiniteSet(T), S \cap T = {}
    PROVE  IsFiniteSet(S \cup T) /\ Cardinality(S \cup T) = Cardinality(S) + Cardinality(T)
<1>1. /\ IsFiniteSet(S \cup T)
      /\ Cardinality(S \cup T) = Cardinality(S) + Cardinality(T) - Cardinality({})
  BY FS_Union
<1>2. Cardinality({}) = 0 /\ Cardinality(S) \in Nat /\ Cardinality(T) \in Nat
  BY FS_EmptySet, FS_CardinalityType
<1> QED
  BY <1>1, <1>2

-----------------------------------------------------------------------------
(* Windows.                                                                 *)

\* A window ends after it starts.
LEMMA WindowTypes ==
    ASSUME NEW w \in Windows
    PROVE  /\ w.ts \in Nat /\ w.rate \in Nat \ {0} /\ w.n \in Nat \ {0}
           /\ End(w) \in Nat /\ End(w) > w.ts
<1>1. w.ts \in Nat /\ w.rate \in Nat \ {0} /\ w.n \in Nat \ {0} /\ w.n % w.rate = 0
  BY DEF Windows
<1>2. \A n, r \in Nat \ {0} : n % r = 0 => n \div r \in Nat /\ n \div r > 0
  OBVIOUS
<1>3. w.n \div w.rate \in Nat /\ w.n \div w.rate > 0
  BY <1>1, <1>2
<1> QED
  BY <1>1, <1>3 DEF End

\* The order of the heap is a strict one, and total.
LEMMA EarlierOrder ==
    ASSUME NEW u \in Windows, NEW v \in Windows, NEW w \in Windows
    PROVE  /\ ~Earlier(v, v)
           /\ Earlier(u, v) /\ Earlier(v, w) => Earlier(u, w)
           /\ ~Earlier(v, u) /\ ~Earlier(w, v) => ~Earlier(w, u)
           /\ Earlier(v, w) => ~Earlier(w, v)
           /\ Earlier(v, w) \/ Earlier(w, v) \/ v = w
           /\ ~Earlier(w, v) => v.ts <= w.ts
<1>1. \A x \in Windows : x.ts \in Nat /\ x.rate \in Nat /\ x.n \in Nat
  BY DEF Windows
<1>2. v.ts = w.ts /\ v.rate = w.rate /\ v.n = w.n => v = w
  BY DEF Windows
<1> QED
  BY <1>1, <1>2 DEF Earlier

\* Among some windows of a stream there is one that none is earlier than.
LEMMA EarliestExists ==
    ASSUME NEW I, I # {}, NEW f, \A i \in I : f[i] \in Windows
    PROVE  \E i \in I : \A j \in I : ~Earlier(f[j], f[i])
<1>0. \A i \in I : f[i].ts \in Nat /\ f[i].rate \in Nat /\ f[i].n \in Nat
  BY WindowTypes
<1>1. PICK a \in {f[i].ts : i \in I} : \A y \in {f[i].ts : i \in I} : a <= y
  BY <1>0, LeastNatural
<1> DEFINE A == {i \in I : f[i].ts = a}
<1>2. A # {} /\ \A i \in I : a <= f[i].ts
  BY <1>1
<1>3. PICK b \in {f[i].rate : i \in A} : \A y \in {f[i].rate : i \in A} : b <= y
  <2>1. {f[i].rate : i \in A} # {} /\ {f[i].rate : i \in A} \in SUBSET Nat
    BY <1>0, <1>2
  <2> QED
    BY <2>1, LeastNatural
<1> DEFINE B == {i \in A : f[i].rate = b}
<1>4. B # {} /\ \A i \in A : b <= f[i].rate
  BY <1>3
<1>5. PICK c \in {f[i].n : i \in B} : \A y \in {f[i].n : i \in B} : c <= y
  <2>1. {f[i].n : i \in B} # {} /\ {f[i].n : i \in B} \in SUBSET Nat
    BY <1>0, <1>4
  <2> QED
    BY <2>1, LeastNatural
<1>6. PICK i \in B : f[i].n = c
  BY <1>5
<1>7. ASSUME NEW j \in I
      PROVE  ~Earlier(f[j], f[i])
  <2>1. f[i].ts = a /\ f[i].rate = b /\ f[i].n = c /\ a \in Nat /\ b \in Nat /\ c \in Nat
    BY <1>0, <1>6
  <2>2. a <= f[j].ts
    BY <1>2
  <2>3. f[j].ts = a => b <= f[j].rate
    BY <1>4
  <2>4. f[j].ts = a /\ f[j].rate = b => c <= f[j].n
    BY <1>5
  <2>5. f[j].ts \in Nat /\ f[j].rate \in Nat /\ f[j].n \in Nat
    BY <1>0
  <2> QED
    BY <2>1, <2>2, <2>3, <2>4, <2>5 DEF Earlier
<1> QED
  BY <1>6, <1>7


-----------------------------------------------------------------------------
(* The loss of some windows, and of one more that none of them is after.    *)

\* What the definition of a lost instant says.
LEMMA LostMembers ==
    ASSUME NEW W \in SUBSET Windows, NEW t
    PROVE  t \in LostInstants(W) <=>
             /\ \E u \in W, v \in W : t \in u.ts..(End(v) - 1)
             /\ \A v \in W : ~(v.ts <= t /\ t < End(v))
<1>1. \A w \in W : w.ts \in Nat /\ End(w) \in Nat
  BY WindowTypes
<1>2. t \in UNION {0..(End(w) - 1) : w \in W} <=> \E v \in W : t \in 0..(End(v) - 1)
  BY Zenon
<1>3. t \in LostInstants(W) <=>
        /\ \E v \in W : t \in 0..(End(v) - 1)
        /\ \E u \in W : u.ts <= t
        /\ \A v \in W : ~(v.ts <= t /\ t < End(v))
  BY <1>2, Zenon DEF LostInstants
<1>4. \A u, v \in W : t \in u.ts..(End(v) - 1) <=> t \in 0..(End(v) - 1) /\ u.ts <= t
  BY <1>1
<1> QED
  BY <1>3, <1>4, Zenon

\* One window has no gap.
LEMMA LossOfOne ==
    ASSUME NEW w \in Windows
    PROVE  LossOf({w}) = {}
<1>1. ASSUME NEW t \in LostInstants({w})
      PROVE  FALSE
  <2>1. t \in w.ts..(End(w) - 1) /\ ~(w.ts <= t /\ t < End(w))
    BY LostMembers
  <2> QED
    BY <2>1, WindowTypes
<1> QED
  BY <1>1 DEF LossOf

\* A window that is not earlier than any of the others adds the loss of the gap
\* between the furthest of their ends and its start, at the rate of the earliest
\* window that reaches this end.
LEMMA LossOfNext ==
    ASSUME NEW W \in SUBSET Windows, NEW w \in Windows, NEW f \in W,
           \A v \in W : ~Earlier(w, v),
           \A v \in W : End(v) <= End(f),
           \A v \in W : End(v) = End(f) => ~Earlier(v, f),
           IsFiniteSet(LossOf(W))
    PROVE  /\ IsFiniteSet(LossOf(W \cup {w}))
           /\ Cardinality(LossOf(W \cup {w})) =
                Cardinality(LossOf(W))
                  + (IF w.ts > End(f) THEN f.rate * (w.ts - End(f)) ELSE 0)
<1> DEFINE gap == End(f)..(w.ts - 1)
           all == W \cup {w}
<1>1. /\ \A v \in all : v.ts \in Nat /\ End(v) \in Nat /\ v.ts < End(v)
      /\ \A v \in W : v.ts <= w.ts
      /\ f.rate \in Nat \ {0}
  BY WindowTypes, EarlierOrder
<1>2. ASSUME NEW t \in LostInstants(W)
      PROVE  t \in Int /\ t < End(f) /\ t < w.ts
  <2>1. PICK u \in W, v \in W : t \in u.ts..(End(v) - 1)
    BY LostMembers
  <2>2. ~(f.ts <= t /\ t < End(f))
    BY LostMembers
  <2>3. t \in Int /\ t < End(f)
    BY <1>1, <2>1
  <2> QED
    BY <1>1, <2>2, <2>3
<1>3. LostInstants(all) = LostInstants(W) \cup gap
  <2>1. ASSUME NEW t \in LostInstants(W)
        PROVE  t \in LostInstants(all)
    <3>1. ~(w.ts <= t /\ t < End(w))
      BY <1>1, <1>2
    <3> QED
      BY <3>1, LostMembers
  <2>2. ASSUME NEW t \in gap
        PROVE  t \in LostInstants(all)
    <3>1. t \in f.ts..(End(w) - 1)
      BY <1>1
    <3>2. \A v \in all : ~(v.ts <= t /\ t < End(v))
      BY <1>1
    <3> QED
      BY <3>1, <3>2, LostMembers
  <2>3. ASSUME NEW t \in LostInstants(all), t \notin gap
        PROVE  t \in LostInstants(W)
    <3>1. PICK u \in all, v \in all : t \in u.ts..(End(v) - 1)
      BY LostMembers
    <3>2. \A x \in all : ~(x.ts <= t /\ t < End(x))
      BY LostMembers
    <3>3. t \in Int /\ u.ts <= t /\ t < End(v)
      BY <1>1, <3>1
    <3>4. t < w.ts \/ t >= End(w)
      BY <1>1, <3>2, <3>3
    <3>5. t < End(f)
      <4>1. CASE v \in W
        BY <1>1, <3>3, <4>1
      <4>2. CASE v = w
        <5>1. t < w.ts
          BY <1>1, <3>3, <3>4, <4>2
        <5> QED
          BY <1>1, <2>3, <3>3, <5>1
      <4> QED
        BY <4>1, <4>2
    <3>6. u \in W
      <4> SUFFICES ASSUME u = w
                   PROVE  FALSE
        OBVIOUS
      <4>1. f.ts <= t
        BY <1>1, <3>3
      <4> QED
        BY <3>2, <3>5, <4>1
    <3>7. t \in u.ts..(End(f) - 1)
      BY <1>1, <3>3, <3>5, <3>6
    <3> QED
      BY <3>2, <3>6, <3>7, LostMembers
  <2> HIDE DEF gap, all
  <2> QED
    BY <2>1, <2>2, <2>3
<1>4. ASSUME NEW t \in LostInstants(W)
      PROVE  RateAt(all, t) = RateAt(W, t)
  <2>1. ~(End(w) <= t)
    BY <1>1, <1>2
  <2>2. {v \in all : End(v) <= t} = {v \in W : End(v) <= t}
    BY <2>1
  <2> QED
    BY <2>2, Zenon DEF RateAt
<1>5. ASSUME NEW t \in gap
      PROVE  RateAt(all, t) = f.rate
  <2> DEFINE before == {v \in all : End(v) <= t}
             last == {v \in before : \A x \in before : End(x) <= End(v)}
  <2>1. before = W
    BY <1>1
  <2>2. last = {v \in W : End(v) = End(f)}
    BY <1>1, <2>1
  <2>3. f \in last /\ \A v \in last : ~Earlier(v, f)
    BY <2>2
  <2>4. \A x \in last : (\A v \in last : ~Earlier(v, x)) => x = f
    <3>1. last \subseteq Windows
      BY <2>2
    <3> QED
      BY <2>3, <3>1, EarlierOrder
  <2> HIDE DEF last
  <2>5. (CHOOSE x \in last : \A v \in last : ~Earlier(v, x)) = f
    BY <2>3, <2>4, Zenon
  <2> QED
    BY <2>5, Zenon DEF RateAt, last
<1>6. LossOf(all) = LossOf(W) \cup (gap \X (1..f.rate))
  <2>1. \A x : x \in LossOf(all) <=> \E t \in LostInstants(all) : x \in {t} \X (1..RateAt(all, t))
    BY DEF LossOf
  <2>2. \A x : x \in LossOf(W) <=> \E t \in LostInstants(W) : x \in {t} \X (1..RateAt(W, t))
    BY DEF LossOf
  <2>3. \A x : x \in gap \X (1..f.rate) <=> \E t \in gap : x \in {t} \X (1..f.rate)
    OBVIOUS
  <2> HIDE DEF gap, all
  <2> QED
    BY <1>3, <1>4, <1>5, <2>1, <2>2, <2>3
<1>7. LossOf(W) \cap (gap \X (1..f.rate)) = {}
  <2>1. \A t \in LostInstants(W) : t \notin gap
    BY <1>1, <1>2
  <2> HIDE DEF gap
  <2> QED
    BY <2>1 DEF LossOf
<1>8. IsFiniteSet(gap) /\ Cardinality(gap) = IF w.ts > End(f) THEN w.ts - End(f) ELSE 0
  <2>1. w.ts - 1 \in Int /\ End(f) \in Int /\ w.ts \in Int
    BY <1>1
  <2>2. /\ IsFiniteSet(gap)
        /\ End(f) <= w.ts - 1 + 1 => Cardinality(gap) = w.ts - 1 - End(f) + 1
        /\ End(f) > w.ts - 1 => Cardinality(gap) = 0
    BY <2>1, IntervalSize
  <2> QED
    BY <2>1, <2>2
<1>9. IsFiniteSet(1..f.rate) /\ Cardinality(1..f.rate) = f.rate
  <2>1. 1 \in Int /\ f.rate \in Int /\ 1 <= f.rate + 1
    BY <1>1
  <2>2. IsFiniteSet(1..f.rate) /\ Cardinality(1..f.rate) = f.rate - 1 + 1
    BY <2>1, IntervalSize
  <2> QED
    BY <2>1, <2>2
<1>14. w.ts - End(f) \in Int /\ f.rate \in Int
  BY <1>1
<1> HIDE DEF gap, all
<1>10. /\ IsFiniteSet(gap \X (1..f.rate))
       /\ Cardinality(gap \X (1..f.rate)) = Cardinality(gap) * Cardinality(1..f.rate)
  BY <1>8, <1>9, FS_Product
<1>11. /\ IsFiniteSet(LossOf(all))
       /\ Cardinality(LossOf(all)) = Cardinality(LossOf(W)) + Cardinality(gap \X (1..f.rate))
  <2>1. /\ IsFiniteSet(LossOf(W) \cup (gap \X (1..f.rate)))
        /\ Cardinality(LossOf(W) \cup (gap \X (1..f.rate))) =
             Cardinality(LossOf(W)) + Cardinality(gap \X (1..f.rate))
    BY <1>7, <1>10, DisjointUnion
  <2> QED
    BY <1>6, <2>1
<1>12. \A d, r \in Int : d * r = r * d
  OBVIOUS
<1>13. Cardinality(gap \X (1..f.rate)) = IF w.ts > End(f) THEN f.rate * (w.ts - End(f)) ELSE 0
  <2>1. CASE w.ts > End(f)
    <3>2. Cardinality(gap \X (1..f.rate)) = (w.ts - End(f)) * f.rate
      BY <1>8, <1>9, <1>10, <2>1
    <3>3. (w.ts - End(f)) * f.rate = f.rate * (w.ts - End(f))
      BY <1>12, <1>14
    <3> QED
      BY <2>1, <3>2, <3>3
  <2>2. CASE ~(w.ts > End(f))
    BY <1>1, <1>8, <1>9, <1>10, <2>2
  <2> QED
    BY <2>1, <2>2
<1> QED
  BY <1>11, <1>13 DEF all


-----------------------------------------------------------------------------
(* The invariant of one stream.                                             *)

Stats ==
    [total_samples : Nat, delivered : Nat, expected : Nat,
     last_end : Nat \cup {None}, cur_rate : Nat \cup {None},
     arrived : Seq(Windows), pending : SUBSET Nat,
     rate : Int \cup {None}, rate_changed : BOOLEAN]

StatTypeOK(st) == st \in Stats /\ st.pending \subseteq DOMAIN st.arrived

\* The committed samples are counted once each.
CountInv(st) ==
    /\ IsFiniteSet(SamplesOf(st, Committed(st)))
    /\ st.delivered = Cardinality(SamplesOf(st, Committed(st)))

\* The frontier is as far as any committed window reaches.
FrontierInv(st) ==
    /\ Committed(st) = {} => st.last_end = None /\ st.expected = 0
    /\ Committed(st) # {} =>
         /\ st.last_end \in Nat /\ st.cur_rate \in Nat \ {0} /\ st.expected > 0
         /\ \A i \in Committed(st) : End(st.arrived[i]) <= st.last_end
    /\ st.delivered <= st.expected

\* Within the reach of the jitter buffer the windows are committed in order: what
\* is pending is not earlier than what is committed, and the loss so far is that
\* of the committed windows.
OrderInv(st) ==
    WithinJitterBuffer(st) =>
        /\ \A i \in Committed(st), j \in st.pending : ~Earlier(st.arrived[j], st.arrived[i])
        /\ IsFiniteSet(LossOf(WindowsOf(st, Committed(st))))
        /\ st.expected = st.delivered + Cardinality(LossOf(WindowsOf(st, Committed(st))))
        /\ Committed(st) # {} =>
             \E f \in WindowsOf(st, Committed(st)) :
                /\ End(f) = st.last_end /\ f.rate = st.cur_rate
                /\ \A v \in WindowsOf(st, Committed(st)) :
                     End(v) = st.last_end => ~Earlier(v, f)

StatInv(st) == StatTypeOK(st) /\ CountInv(st) /\ FrontierInv(st) /\ OrderInv(st)

\* While units come in, a window is committed only when the buffer is full.
FullInv(st) ==
    /\ Cardinality(st.pending) <= REORDER_WINDOW
    /\ Committed(st) # {} => Cardinality(st.pending) = REORDER_WINDOW

\* What the type says of the parts.
LEMMA StatTypes ==
    ASSUME NEW st, StatTypeOK(st)
    PROVE  /\ st.arrived \in Seq(Windows) /\ Len(st.arrived) \in Nat
           /\ DOMAIN st.arrived = 1..Len(st.arrived)
           /\ \A i \in DOMAIN st.arrived : st.arrived[i] \in Windows
           /\ st.pending \subseteq DOMAIN st.arrived /\ IsFiniteSet(st.pending)
           /\ Cardinality(st.pending) \in Nat
           /\ st.delivered \in Nat /\ st.expected \in Nat
           /\ Committed(st) \subseteq DOMAIN st.arrived
           /\ WindowsOf(st, Committed(st)) \in SUBSET Windows
<1>1. /\ st.arrived \in Seq(Windows) /\ st.pending \subseteq DOMAIN st.arrived
      /\ st.delivered \in Nat /\ st.expected \in Nat
  BY DEF StatTypeOK, Stats
<1>2. Len(st.arrived) \in Nat /\ DOMAIN st.arrived = 1..Len(st.arrived)
  BY <1>1
<1>3. \A i \in DOMAIN st.arrived : st.arrived[i] \in Windows
  BY <1>1, <1>2, ElementOfSeq
<1>4. IsFiniteSet(DOMAIN st.arrived)
  BY <1>2, IntervalSize
<1>5. IsFiniteSet(st.pending) /\ Cardinality(st.pending) \in Nat
  BY <1>1, <1>4, FS_Subset, FS_CardinalityType
<1>6. Committed(st) \subseteq DOMAIN st.arrived
  BY DEF Committed
<1>7. WindowsOf(st, Committed(st)) \in SUBSET Windows
  BY <1>3, <1>6 DEF WindowsOf
<1> QED
  BY <1>1, <1>2, <1>3, <1>5, <1>6, <1>7

\* The heap gives its least element.
LEMMA OldestIsLeast ==
    ASSUME NEW st, StatTypeOK(st), st.pending # {}
    PROVE  /\ Oldest(st) \in st.pending
           /\ \A j \in st.pending : ~Earlier(st.arrived[j], st.arrived[Oldest(st)])
<1>1. \A i \in st.pending : st.arrived[i] \in Windows
  BY StatTypes
<1>2. \E i \in st.pending : \A j \in st.pending : ~Earlier(st.arrived[j], st.arrived[i])
  BY <1>1, EarliestExists
<1> QED
  BY <1>2, Zenon DEF Oldest

\* One more window's samples.
LEMMA SamplesOfNext ==
    ASSUME NEW st, NEW I, NEW i, i \notin I, st.arrived[i] \in Windows,
           IsFiniteSet(SamplesOf(st, I))
    PROVE  /\ IsFiniteSet(SamplesOf(st, I \cup {i}))
           /\ Cardinality(SamplesOf(st, I \cup {i}))
                = Cardinality(SamplesOf(st, I)) + st.arrived[i].n
<1> DEFINE n == st.arrived[i].n
           mine == {i} \X (1..n)
<1>1. n \in Nat \ {0}
  BY WindowTypes
<1>2. SamplesOf(st, I \cup {i}) = SamplesOf(st, I) \cup mine
  BY DEF SamplesOf
<1>3. SamplesOf(st, I) \cap mine = {}
  BY DEF SamplesOf
<1> HIDE DEF n
<1>4. IsFiniteSet(1..n) /\ Cardinality(1..n) = n
  <2>1. 1 \in Int /\ n \in Int /\ 1 <= n + 1
    BY <1>1
  <2>2. IsFiniteSet(1..n) /\ Cardinality(1..n) = n - 1 + 1
    BY <2>1, IntervalSize
  <2> QED
    BY <2>1, <2>2
<1>5. IsFiniteSet({i}) /\ Cardinality({i}) = 1
  BY FS_Singleton
<1>6. IsFiniteSet(mine) /\ Cardinality(mine) = Cardinality({i}) * Cardinality(1..n)
  BY <1>4, <1>5, FS_Product, Zenon
<1> HIDE DEF mine
<1>7. /\ IsFiniteSet(SamplesOf(st, I) \cup mine)
      /\ Cardinality(SamplesOf(st, I) \cup mine) = Cardinality(SamplesOf(st, I)) + Cardinality(mine)
  BY <1>3, <1>6, DisjointUnion
<1>8. Cardinality(mine) = n
  <2>1. Cardinality(mine) = 1 * n
    BY <1>4, <1>5, <1>6, Zenon
  <2> QED
    BY <1>1, <2>1
<1> QED
  BY <1>2, <1>7, <1>8 DEF n


\* What heappop() and _commit() leave behind, field by field.
LEMMA CommitFields ==
    ASSUME NEW st, StatTypeOK(st), st.pending # {}
    PROVE  LET o   == Oldest(st)
               w   == st.arrived[o]
               new == CommitOldest(st)
           IN  /\ new.arrived = st.arrived /\ new.pending = st.pending \ {o}
               /\ new.delivered = st.delivered + w.n
               /\ new.expected = st.expected + GapLoss(st, w) + w.n
               /\ new.last_end = IF Extends(st, w) THEN End(w) ELSE st.last_end
               /\ new.cur_rate = IF Extends(st, w) THEN w.rate ELSE st.cur_rate
               /\ new.rate = st.rate
               /\ Committed(new) = Committed(st) \cup {o} /\ o \notin Committed(st)
               /\ DOMAIN new = DOMAIN st /\ new.rate_changed = st.rate_changed
               /\ new.total_samples = st.total_samples
<1> DEFINE o == Oldest(st)
           w == st.arrived[o]
           rest == [st EXCEPT !.pending = @ \ {o}]
           new == commit(rest, w)
<1>0. CommitOldest(st) = new
  BY Zenon DEF CommitOldest
<1>1. o \in st.pending /\ st.pending \subseteq DOMAIN st.arrived
  BY OldestIsLeast DEF StatTypeOK
<1> HIDE DEF o
<1>2. st \in Stats
  BY DEF StatTypeOK
<1>3. /\ rest.arrived = st.arrived /\ rest.pending = st.pending \ {o}
      /\ rest.delivered = st.delivered /\ rest.expected = st.expected
      /\ rest.last_end = st.last_end /\ rest.cur_rate = st.cur_rate /\ rest.rate = st.rate
      /\ DOMAIN rest = DOMAIN st /\ rest.rate_changed = st.rate_changed
      /\ rest.total_samples = st.total_samples
  BY <1>2 DEF Stats
<1>4. DOMAIN rest = {"total_samples", "delivered", "expected", "last_end", "cur_rate",
                     "arrived", "pending", "rate", "rate_changed"}
  BY <1>2, <1>3 DEF Stats
<1> HIDE DEF w, rest
<1>5. GapLoss(rest, w) = GapLoss(st, w) /\ (Extends(rest, w) <=> Extends(st, w))
  BY <1>3 DEF GapLoss, Extends
<1>6. /\ new.arrived = rest.arrived /\ new.pending = rest.pending
      /\ new.delivered = rest.delivered + w.n
      /\ new.expected = rest.expected + GapLoss(rest, w) + w.n
      /\ new.last_end = IF Extends(rest, w) THEN End(w) ELSE rest.last_end
      /\ new.cur_rate = IF Extends(rest, w) THEN w.rate ELSE rest.cur_rate
      /\ new.rate = rest.rate
      /\ DOMAIN new = DOMAIN rest /\ new.rate_changed = rest.rate_changed
      /\ new.total_samples = rest.total_samples
  BY <1>4 DEF commit
<1> HIDE DEF new
<1>7. Committed(new) = Committed(st) \cup {o} /\ o \notin Committed(st)
  BY <1>1, <1>3, <1>6 DEF Committed
<1> QED
  BY <1>0, <1>3, <1>5, <1>6, <1>7 DEF o, w


\* The gap before a window: none before the first one, and none before one that
\* starts inside what is already covered.
LEMMA GapTypes ==
    ASSUME NEW st, StatTypeOK(st), FrontierInv(st), NEW w \in Windows
    PROVE  /\ GapLoss(st, w) \in Nat
           /\ Committed(st) = {} => GapLoss(st, w) = 0 /\ Extends(st, w)
           /\ Committed(st) # {} =>
                /\ GapLoss(st, w) = IF w.ts > st.last_end THEN st.cur_rate * (w.ts - st.last_end)
                                                          ELSE 0
                /\ Extends(st, w) <=> End(w) > st.last_end
<1>1. w.ts \in Nat /\ End(w) \in Nat
  BY WindowTypes
<1>2. CASE Committed(st) = {}
  BY <1>2 DEF FrontierInv, GapLoss, Extends
<1>3. CASE Committed(st) # {}
  <2>1. st.last_end \in Nat /\ st.cur_rate \in Nat
    BY <1>3 DEF FrontierInv
  <2>2. st.last_end # None
    BY <2>1, MeterAssumption
  <2>3. w.ts > st.last_end => st.cur_rate * (w.ts - st.last_end) \in Nat
    <3>1. \A a, b \in Nat : a * b \in Nat
      OBVIOUS
    <3>2. w.ts > st.last_end => w.ts - st.last_end \in Nat
      BY <1>1, <2>1
    <3> QED
      BY <2>1, <3>1, <3>2
  <2> QED
    BY <1>3, <2>1, <2>2, <2>3 DEF GapLoss, Extends
<1> QED
  BY <1>2, <1>3

\* A committed window is counted, the frontier reaches to its end, and if it is
\* earlier than one committed before, it adds no loss.
LEMMA CommitCounts ==
    ASSUME NEW st, StatTypeOK(st), CountInv(st), FrontierInv(st), st.pending # {}
    PROVE  LET o   == Oldest(st)
               new == CommitOldest(st)
           IN  /\ StatTypeOK(new) /\ CountInv(new) /\ FrontierInv(new)
               /\ (\E j \in Committed(st) : Earlier(st.arrived[o], st.arrived[j]))
                    => new.expected = st.expected + st.arrived[o].n
<1> DEFINE o == Oldest(st)
           w == st.arrived[o]
           new == CommitOldest(st)
           C == Committed(st)
<1>1. /\ new.arrived = st.arrived /\ new.pending = st.pending \ {o}
      /\ new.delivered = st.delivered + w.n
      /\ new.expected = st.expected + GapLoss(st, w) + w.n
      /\ new.last_end = IF Extends(st, w) THEN End(w) ELSE st.last_end
      /\ new.cur_rate = IF Extends(st, w) THEN w.rate ELSE st.cur_rate
      /\ Committed(new) = C \cup {o} /\ o \notin C
  BY CommitFields, Zenon
<1>2. o \in st.pending /\ o \in DOMAIN st.arrived /\ w \in Windows
  BY OldestIsLeast, StatTypes
<1>3. /\ w.ts \in Nat /\ w.rate \in Nat \ {0} /\ w.n \in Nat \ {0}
      /\ End(w) \in Nat /\ w.ts < End(w)
  BY <1>2, WindowTypes
<1>4. /\ GapLoss(st, w) \in Nat
      /\ C = {} => GapLoss(st, w) = 0 /\ Extends(st, w)
      /\ C # {} =>
           /\ GapLoss(st, w) = IF w.ts > st.last_end THEN st.cur_rate * (w.ts - st.last_end)
                                                     ELSE 0
           /\ Extends(st, w) <=> End(w) > st.last_end
  BY <1>2, GapTypes
<1>5. /\ st.arrived \in Seq(Windows) /\ st.pending \subseteq DOMAIN st.arrived
      /\ st.delivered \in Nat /\ st.expected \in Nat /\ C \subseteq DOMAIN st.arrived
      /\ \A i \in DOMAIN st.arrived : st.arrived[i] \in Windows
  BY StatTypes
<1>6. /\ C = {} => st.last_end = None /\ st.expected = 0
      /\ C # {} =>
           /\ st.last_end \in Nat /\ st.cur_rate \in Nat \ {0} /\ st.expected > 0
           /\ \A i \in C : End(st.arrived[i]) <= st.last_end
      /\ st.delivered <= st.expected
  BY DEF FrontierInv
<1>7. new \in Stats
  <2>1. st \in Stats
    BY DEF StatTypeOK
  <2> DEFINE rest == [st EXCEPT !.pending = @ \ {o}]
  <2>2. rest \in Stats
    BY <2>1 DEF Stats
  <2>3. rest.last_end = st.last_end /\ rest.cur_rate = st.cur_rate
    BY <2>1 DEF Stats
  <2> HIDE DEF rest, w
  <2>4. GapLoss(rest, w) = GapLoss(st, w)
    BY <2>3 DEF GapLoss
  <2>5. commit(rest, w) \in Stats
    <3>1. rest.expected + GapLoss(rest, w) + w.n \in Nat /\ rest.delivered + w.n \in Nat
      BY <1>3, <1>4, <2>2, <2>4 DEF Stats
    <3>2. (IF Extends(rest, w) THEN End(w) ELSE rest.last_end) \in Nat \cup {None}
      BY <1>3, <2>2 DEF Stats
    <3>3. (IF Extends(rest, w) THEN w.rate ELSE rest.cur_rate) \in Nat \cup {None}
      BY <1>3, <2>2 DEF Stats
    <3> QED
      BY <2>2, <3>1, <3>2, <3>3 DEF commit, Stats
  <2>6. new = commit(rest, w)
    BY Zenon DEF CommitOldest, rest, w
  <2> QED
    BY <2>5, <2>6
<1> HIDE DEF o, w, new, C
<1>8. StatTypeOK(new)
  BY <1>1, <1>5, <1>7 DEF StatTypeOK
<1>9. CountInv(new)
  <2>1. SamplesOf(new, C \cup {o}) = SamplesOf(st, C \cup {o})
    BY <1>1 DEF SamplesOf
  <2>2. IsFiniteSet(SamplesOf(st, C)) /\ st.delivered = Cardinality(SamplesOf(st, C))
    BY DEF CountInv, C
  <2>3. /\ IsFiniteSet(SamplesOf(st, C \cup {o}))
        /\ Cardinality(SamplesOf(st, C \cup {o})) = Cardinality(SamplesOf(st, C)) + w.n
    BY <1>1, <1>2, <2>2, SamplesOfNext DEF w
  <2> QED
    BY <1>1, <2>1, <2>2, <2>3 DEF CountInv
<1>10. FrontierInv(new)
  <2>1. CASE C = {}
    <3>1. new.last_end = End(w) /\ new.cur_rate = w.rate /\ new.expected = w.n
      BY <1>1, <1>3, <1>4, <1>6, <2>1
    <3>2. Committed(new) = {o} /\ new.arrived[o] = w
      BY <1>1, <2>1 DEF w
    <3>3. new.delivered <= new.expected
      BY <1>1, <1>3, <1>4, <1>5, <1>6
    <3> QED
      BY <1>3, <3>1, <3>2, <3>3 DEF FrontierInv
  <2>2. CASE C # {}
    <3>0. /\ st.last_end \in Nat /\ st.cur_rate \in Nat \ {0} /\ st.expected > 0
          /\ (Extends(st, w) <=> End(w) > st.last_end)
      BY <1>4, <1>6, <2>2, Zenon
    <3>3. /\ new.last_end \in Nat /\ new.cur_rate \in Nat \ {0}
          /\ new.last_end >= st.last_end /\ new.last_end >= End(w)
      <4>1. CASE Extends(st, w)
        <5>1. new.last_end = End(w) /\ new.cur_rate = w.rate /\ End(w) > st.last_end
          BY <1>1, <3>0, <4>1, Zenon
        <5> QED
          BY <1>3, <3>0, <5>1
      <4>2. CASE ~Extends(st, w)
        <5>1. new.last_end = st.last_end /\ new.cur_rate = st.cur_rate /\ ~(End(w) > st.last_end)
          BY <1>1, <3>0, <4>2, Zenon
        <5> QED
          BY <1>3, <3>0, <5>1
      <4> QED
        BY <4>1, <4>2, Zenon
    <3>4. new.expected > 0 /\ new.delivered <= new.expected
      <4>1. PICK g, n : g = GapLoss(st, w) /\ n = w.n
        OBVIOUS
      <4>2. /\ g \in Nat /\ n \in Nat /\ st.expected \in Nat /\ st.delivered \in Nat
            /\ st.expected > 0 /\ st.delivered <= st.expected
        BY <1>3, <1>4, <1>5, <1>6, <3>0, <4>1
      <4>3. new.expected = st.expected + g + n /\ new.delivered = st.delivered + n
        BY <1>1, <4>1, Zenon
      <4> QED
        BY <4>2, <4>3
    <3>1. /\ new.last_end \in Nat /\ new.cur_rate \in Nat \ {0} /\ new.expected > 0
          /\ new.last_end >= st.last_end /\ new.last_end >= End(w)
          /\ new.delivered <= new.expected
      BY <3>3, <3>4, Zenon
    <3>2. \A i \in C \cup {o} : End(new.arrived[i]) <= new.last_end
      <4>1. \A i \in C : End(st.arrived[i]) \in Nat /\ End(st.arrived[i]) <= st.last_end
        BY <1>5, <1>6, <2>2, WindowTypes
      <4>2. End(st.arrived[o]) <= new.last_end
        BY <3>1 DEF w
      <4> QED
        BY <1>1, <1>6, <2>2, <3>1, <4>1, <4>2
    <3> QED
      BY <1>1, <3>1, <3>2 DEF FrontierInv
  <2> QED
    BY <2>1, <2>2
<1>11. ASSUME NEW j \in C, Earlier(w, st.arrived[j])
       PROVE  new.expected = st.expected + w.n
  <2>1. /\ st.arrived[j] \in Windows /\ End(st.arrived[j]) <= st.last_end
        /\ st.last_end \in Nat
    BY <1>5, <1>6
  <2>2. w.ts <= st.arrived[j].ts
    BY <1>2, <1>11, <2>1, EarlierOrder
  <2>3. st.arrived[j].ts \in Nat /\ End(st.arrived[j]) \in Nat
        /\ st.arrived[j].ts < End(st.arrived[j])
    BY <2>1, WindowTypes
  <2>4. ~(w.ts > st.last_end)
    BY <1>3, <2>1, <2>2, <2>3
  <2>5. GapLoss(st, w) = 0
    BY <1>4, <2>4
  <2> QED
    BY <1>1, <1>3, <1>5, <2>5
<1> QED
  BY <1>8, <1>9, <1>10, <1>11 DEF o, w, new, C


\* Committed in order, windows add up to the loss of the reference.
LEMMA CommitInOrder ==
    ASSUME NEW st, StatInv(st), st.pending # {}
    PROVE  OrderInv(CommitOldest(st))
<1> DEFINE o == Oldest(st)
           w == st.arrived[o]
           new == CommitOldest(st)
           C == Committed(st)
           W == WindowsOf(st, C)
<1>0. StatTypeOK(st) /\ CountInv(st) /\ FrontierInv(st) /\ OrderInv(st)
  BY DEF StatInv
<1>1. /\ new.arrived = st.arrived /\ new.pending = st.pending \ {o}
      /\ new.delivered = st.delivered + w.n
      /\ new.expected = st.expected + GapLoss(st, w) + w.n
      /\ new.last_end = IF Extends(st, w) THEN End(w) ELSE st.last_end
      /\ new.cur_rate = IF Extends(st, w) THEN w.rate ELSE st.cur_rate
      /\ Committed(new) = C \cup {o} /\ o \notin C
  BY <1>0, CommitFields, Zenon
<1>2. /\ o \in st.pending /\ o \in DOMAIN st.arrived /\ w \in Windows
      /\ \A j \in st.pending : ~Earlier(st.arrived[j], w)
  BY <1>0, OldestIsLeast, StatTypes
<1>3. w.ts \in Nat /\ w.n \in Nat \ {0} /\ End(w) \in Nat
  BY <1>2, WindowTypes
<1>4. /\ C = {} => GapLoss(st, w) = 0 /\ Extends(st, w)
      /\ C # {} =>
           /\ GapLoss(st, w) = IF w.ts > st.last_end THEN st.cur_rate * (w.ts - st.last_end)
                                                     ELSE 0
           /\ Extends(st, w) <=> End(w) > st.last_end
      /\ GapLoss(st, w) \in Nat
  BY <1>0, <1>2, GapTypes
<1>5. /\ st.delivered \in Nat /\ st.expected \in Nat /\ C \subseteq DOMAIN st.arrived
      /\ \A i \in DOMAIN st.arrived : st.arrived[i] \in Windows
      /\ W \in SUBSET Windows
  BY <1>0, StatTypes
<1>6. /\ C = {} => st.last_end = None /\ st.expected = 0
      /\ C # {} =>
           /\ st.last_end \in Nat
           /\ \A i \in C : End(st.arrived[i]) <= st.last_end
      /\ st.delivered <= st.expected
  BY <1>0 DEF FrontierInv
<1>7. WindowsOf(new, C \cup {o}) = W \cup {w}
  BY <1>1 DEF WindowsOf
<1>8. WithinJitterBuffer(new) <=> WithinJitterBuffer(st)
  BY <1>1 DEF WithinJitterBuffer
<1> SUFFICES ASSUME WithinJitterBuffer(st)
             PROVE  /\ \A i \in C \cup {o}, j \in st.pending \ {o} :
                         ~Earlier(st.arrived[j], st.arrived[i])
                    /\ IsFiniteSet(LossOf(W \cup {w}))
                    /\ new.expected = new.delivered + Cardinality(LossOf(W \cup {w}))
                    /\ \E f \in W \cup {w} :
                         /\ End(f) = new.last_end /\ f.rate = new.cur_rate
                         /\ \A v \in W \cup {w} : End(v) = new.last_end => ~Earlier(v, f)
  BY <1>1, <1>7, <1>8, Zenon DEF OrderInv
<1>9. /\ \A i \in C, j \in st.pending : ~Earlier(st.arrived[j], st.arrived[i])
      /\ IsFiniteSet(LossOf(W))
      /\ st.expected = st.delivered + Cardinality(LossOf(W))
      /\ C # {} =>
           \E f \in W :
              /\ End(f) = st.last_end /\ f.rate = st.cur_rate
              /\ \A v \in W : End(v) = st.last_end => ~Earlier(v, f)
  BY <1>0, Zenon DEF OrderInv
<1> HIDE DEF o, w, new, C, W
<1>10. \A i \in C \cup {o}, j \in st.pending \ {o} : ~Earlier(st.arrived[j], st.arrived[i])
  BY <1>2, <1>9 DEF w
<1>11. CASE C = {}
  <2>1. W \cup {w} = {w}
    BY <1>11 DEF W, WindowsOf
  <2>2. LossOf({w}) = {} /\ IsFiniteSet({}) /\ Cardinality({}) = 0
    BY <1>2, LossOfOne, FS_EmptySet
  <2>3. new.last_end = End(w) /\ new.cur_rate = w.rate
    BY <1>1, <1>4, <1>11
  <2>4. new.expected = new.delivered + 0
    BY <1>1, <1>3, <1>4, <1>5, <1>6, <1>11
  <2>5. ~Earlier(w, w)
    BY <1>2, EarlierOrder
  <2> QED
    BY <1>10, <2>1, <2>2, <2>3, <2>4, <2>5
<1>12. CASE C # {}
  <2>1. PICK f \in W :
           /\ End(f) = st.last_end /\ f.rate = st.cur_rate
           /\ \A v \in W : End(v) = st.last_end => ~Earlier(v, f)
    BY <1>9, <1>12
  <2>2. \A v \in W : v \in Windows /\ End(v) <= End(f) /\ ~Earlier(w, v)
    BY <1>2, <1>5, <1>6, <1>9, <1>12, <2>1 DEF W, WindowsOf, w
  <2>3. /\ IsFiniteSet(LossOf(W \cup {w}))
        /\ Cardinality(LossOf(W \cup {w})) =
             Cardinality(LossOf(W)) + (IF w.ts > End(f) THEN f.rate * (w.ts - End(f)) ELSE 0)
    BY <1>2, <1>5, <1>9, <2>1, <2>2, LossOfNext
  <2>4. Cardinality(LossOf(W \cup {w})) = Cardinality(LossOf(W)) + GapLoss(st, w)
    BY <1>4, <1>12, <2>1, <2>3
  <2>5. Cardinality(LossOf(W)) \in Nat
    BY <1>9, FS_CardinalityType
  <2>6. new.expected = new.delivered + Cardinality(LossOf(W \cup {w}))
    BY <1>1, <1>3, <1>4, <1>5, <1>9, <2>4, <2>5
  <2>7. \E x \in W \cup {w} :
           /\ End(x) = new.last_end /\ x.rate = new.cur_rate
           /\ \A v \in W \cup {w} : End(v) = new.last_end => ~Earlier(v, x)
    <3>1. st.last_end \in Nat /\ \A v \in W : End(v) \in Nat /\ End(v) <= st.last_end
      BY <1>6, <1>12, <2>1, <2>2, WindowTypes
    <3>2. CASE Extends(st, w)
      <4>1. new.last_end = End(w) /\ new.cur_rate = w.rate /\ End(w) > st.last_end
        BY <1>1, <1>4, <1>12, <3>2
      <4>2. \A v \in W : End(v) # End(w)
        BY <1>3, <3>1, <4>1
      <4>3. ~Earlier(w, w)
        BY <1>2, EarlierOrder
      <4> QED
        BY <4>1, <4>2, <4>3
    <3>3. CASE ~Extends(st, w)
      <4>1. new.last_end = st.last_end /\ new.cur_rate = st.cur_rate
        BY <1>1, <3>3
      <4> QED
        BY <2>1, <2>2, <4>1
    <3> QED
      BY <3>2, <3>3
  <2> QED
    BY <1>10, <2>3, <2>6, <2>7
<1> QED
  BY <1>11, <1>12

\* A window goes into the heap.  If the windows stay within the reach of the
\* buffer, the new one is not earlier than one that is already committed: the
\* whole buffer would have overtaken it.
LEMMA PushInv ==
    ASSUME NEW st, StatInv(st), FullInv(st), NEW w \in Windows
    PROVE  LET new == HeapPush(st, w)
           IN  /\ StatInv(new) /\ Committed(new) = Committed(st)
               /\ Cardinality(new.pending) = Cardinality(st.pending) + 1
               /\ Len(st.arrived) + 1 \in new.pending
               /\ \A i \in DOMAIN st.arrived : new.arrived[i] = st.arrived[i]
               /\ new.expected = st.expected
               /\ new.rate = st.rate
<1> DEFINE new == HeapPush(st, w)
           last == Len(st.arrived) + 1
           C == Committed(st)
<1>0. StatTypeOK(st) /\ CountInv(st) /\ FrontierInv(st) /\ OrderInv(st)
  BY DEF StatInv
<1>1. /\ st.arrived \in Seq(Windows) /\ Len(st.arrived) \in Nat
      /\ DOMAIN st.arrived = 1..Len(st.arrived)
      /\ \A i \in DOMAIN st.arrived : st.arrived[i] \in Windows
      /\ st.pending \subseteq DOMAIN st.arrived /\ IsFiniteSet(st.pending)
      /\ Cardinality(st.pending) \in Nat /\ C \subseteq DOMAIN st.arrived
  BY <1>0, StatTypes
<1>2. st \in Stats
  BY <1>0 DEF StatTypeOK
<1>3. /\ new.arrived = Append(st.arrived, w) /\ new.pending = st.pending \cup {last}
      /\ new.delivered = st.delivered /\ new.expected = st.expected
      /\ new.last_end = st.last_end /\ new.cur_rate = st.cur_rate /\ new.rate = st.rate
  BY <1>2 DEF HeapPush, Stats
<1>4. /\ Append(st.arrived, w) \in Seq(Windows) /\ Len(new.arrived) = last
      /\ DOMAIN new.arrived = 1..last /\ new.arrived[last] = w
      /\ \A i \in DOMAIN st.arrived : new.arrived[i] = st.arrived[i]
  BY <1>1, <1>3, AppendProperties
<1>5. new \in Stats
  <2>1. st.pending \cup {last} \in SUBSET Nat
    BY <1>1
  <2> QED
    BY <1>2, <1>4, <2>1 DEF HeapPush, Stats
<1> HIDE DEF new
<1>6. StatTypeOK(new)
  BY <1>1, <1>3, <1>4, <1>5 DEF StatTypeOK
<1>7. Committed(new) = C
  BY <1>1, <1>3, <1>4 DEF Committed
<1>8. last \notin st.pending
  BY <1>1
<1>9. Cardinality(new.pending) = Cardinality(st.pending) + 1
  <2>1. IsFiniteSet(st.pending)
    BY <1>1
  <2>2. /\ IsFiniteSet(st.pending \cup {last})
        /\ Cardinality(st.pending \cup {last})
             = IF last \in st.pending THEN Cardinality(st.pending) ELSE Cardinality(st.pending) + 1
    BY <2>1, FS_AddElement, Zenon
  <2> QED
    BY <1>3, <1>8, <2>2, Zenon
<1>10. \A i \in C : new.arrived[i] = st.arrived[i]
  BY <1>1, <1>4
<1>11. CountInv(new)
  <2>1. SamplesOf(new, C) = SamplesOf(st, C)
    BY <1>10 DEF SamplesOf
  <2> QED
    BY <1>0, <1>3, <1>7, <2>1 DEF CountInv
<1>12. FrontierInv(new)
  BY <1>0, <1>3, <1>7, <1>10 DEF FrontierInv
<1>13. OrderInv(new)
  <2> SUFFICES ASSUME WithinJitterBuffer(new)
               PROVE  OrderInv(new)
    BY DEF OrderInv
  <2>1. WindowsOf(new, C) = WindowsOf(st, C)
    BY <1>10 DEF WindowsOf
  <2>2. WithinJitterBuffer(st)
    <3> SUFFICES ASSUME NEW i \in DOMAIN st.arrived
                 PROVE  Cardinality({j \in 1..(i - 1) : Earlier(st.arrived[i], st.arrived[j])})
                          <= REORDER_WINDOW
      BY DEF WithinJitterBuffer
    <3>1. i \in DOMAIN new.arrived /\ \A j \in 1..(i - 1) : j \in DOMAIN st.arrived
      BY <1>1, <1>4
    <3>2. {j \in 1..(i - 1) : Earlier(new.arrived[i], new.arrived[j])}
            = {j \in 1..(i - 1) : Earlier(st.arrived[i], st.arrived[j])}
      BY <1>4, <3>1
    <3> QED
      BY <3>1, <3>2, Zenon DEF WithinJitterBuffer
  <2>3. /\ \A i \in C, j \in st.pending : ~Earlier(st.arrived[j], st.arrived[i])
        /\ IsFiniteSet(LossOf(WindowsOf(st, C)))
        /\ st.expected = st.delivered + Cardinality(LossOf(WindowsOf(st, C)))
        /\ C # {} =>
             \E f \in WindowsOf(st, C) :
                /\ End(f) = st.last_end /\ f.rate = st.cur_rate
                /\ \A v \in WindowsOf(st, C) : End(v) = st.last_end => ~Earlier(v, f)
    BY <1>0, <2>2, Zenon DEF OrderInv
  <2>4. ASSUME NEW i \in C, Earlier(w, st.arrived[i])
        PROVE  FALSE
    <3> DEFINE overtakers == {j \in 1..(last - 1) : Earlier(new.arrived[last], new.arrived[j])}
    <3>1. Cardinality(overtakers) <= REORDER_WINDOW
      <4>1. last \in DOMAIN new.arrived
        BY <1>1, <1>4
      <4> QED
        BY <4>1, Zenon DEF WithinJitterBuffer
    <3>2. \A j \in st.pending : Earlier(w, st.arrived[j])
      <4> TAKE j \in st.pending
      <4>1. ~Earlier(st.arrived[j], st.arrived[i])
        BY <2>3
      <4>2. st.arrived[j] \in Windows /\ st.arrived[i] \in Windows
        BY <1>1
      <4>3. Earlier(st.arrived[i], st.arrived[j]) \/ st.arrived[i] = st.arrived[j]
        BY <4>1, <4>2, EarlierOrder
      <4> QED
        BY <2>4, <4>2, <4>3, EarlierOrder
    <3>3. st.pending \cup {i} \in SUBSET overtakers
      <4>1. st.pending \cup {i} \subseteq DOMAIN st.arrived
        BY <1>1
      <4>2. 1..(last - 1) = DOMAIN st.arrived
        BY <1>1
      <4>3. \A j \in st.pending \cup {i} : Earlier(new.arrived[last], new.arrived[j])
        BY <1>4, <2>4, <3>2, <4>1
      <4> QED
        BY <4>1, <4>2, <4>3
    <3>4. IsFiniteSet(overtakers)
      <4>0. 1 \in Int /\ last - 1 \in Int
        BY <1>1
      <4>1. IsFiniteSet(1..(last - 1))
        BY <4>0, IntervalSize
      <4> QED
        BY <4>1, FS_Subset
    <3> HIDE DEF overtakers
    <3>5. i \notin st.pending
      BY DEF Committed
    <3>6. Cardinality(st.pending \cup {i}) = Cardinality(st.pending) + 1
      BY <1>1, <3>5, FS_AddElement
    <3>7. Cardinality(st.pending) = REORDER_WINDOW
      BY DEF FullInv
    <3>8. Cardinality(st.pending \cup {i}) <= Cardinality(overtakers)
      BY <3>3, <3>4, FS_Subset
    <3>9. Cardinality(overtakers) \in Nat /\ REORDER_WINDOW \in Nat
      BY <3>4, FS_CardinalityType, MeterAssumption
    <3> QED
      BY <3>1, <3>6, <3>7, <3>8, <3>9
  <2>5. \A i \in C, j \in new.pending : ~Earlier(new.arrived[j], new.arrived[i])
    BY <1>1, <1>3, <1>4, <1>10, <2>3, <2>4
  <2> QED
    BY <1>3, <1>7, <2>1, <2>3, <2>5, Zenon DEF OrderInv
<1> QED
  BY <1>3, <1>4, <1>6, <1>7, <1>9, <1>11, <1>12, <1>13, Zenon DEF StatInv, new


\* heappop() and _commit() keep the invariant of the stream.
LEMMA CommitInv ==
    ASSUME NEW st, StatInv(st), st.pending # {}
    PROVE  LET o   == Oldest(st)
               new == CommitOldest(st)
           IN  /\ StatInv(new) /\ new.rate = st.rate /\ new.arrived = st.arrived
               /\ Committed(new) = Committed(st) \cup {o}
               /\ Cardinality(new.pending) = Cardinality(st.pending) - 1
               /\ (\E j \in Committed(st) : Earlier(st.arrived[o], st.arrived[j]))
                    => new.expected = st.expected + st.arrived[o].n
<1> DEFINE o == Oldest(st)
           new == CommitOldest(st)
<1>0. StatTypeOK(st) /\ CountInv(st) /\ FrontierInv(st)
  BY DEF StatInv
<1>1. /\ StatTypeOK(new) /\ CountInv(new) /\ FrontierInv(new)
      /\ (\E j \in Committed(st) : Earlier(st.arrived[o], st.arrived[j]))
           => new.expected = st.expected + st.arrived[o].n
  BY <1>0, CommitCounts, Zenon
<1>2. OrderInv(new)
  BY CommitInOrder
<1>3. /\ new.arrived = st.arrived /\ new.pending = st.pending \ {o} /\ new.rate = st.rate
      /\ Committed(new) = Committed(st) \cup {o}
  BY <1>0, CommitFields, Zenon
<1>4. o \in st.pending /\ IsFiniteSet(st.pending)
  BY <1>0, OldestIsLeast, StatTypes
<1>5. Cardinality(new.pending) = Cardinality(st.pending) - 1
  BY <1>3, <1>4, FS_RemoveElement
<1> QED
  BY <1>1, <1>2, <1>3, <1>5, Zenon DEF StatInv

\* add() keeps the invariant of the stream and the bound of its buffer, and a
\* window that it commits late adds no loss.
LEMMA AddInv ==
    ASSUME NEW st, StatInv(st), FullInv(st), NEW w \in Windows
    PROVE  LET new == add(st, w)
           IN  /\ StatInv(new) /\ FullInv(new) /\ new.rate = st.rate
               /\ \A i \in Committed(new) \ Committed(st) :
                    (\E j \in Committed(st) : Earlier(new.arrived[i], st.arrived[j]))
                      => new.expected = st.expected + new.arrived[i].n
<1> DEFINE push == HeapPush(st, w)
           new == add(st, w)
<1>1. /\ StatInv(push) /\ Committed(push) = Committed(st)
      /\ Cardinality(push.pending) = Cardinality(st.pending) + 1
      /\ Len(st.arrived) + 1 \in push.pending
      /\ \A i \in DOMAIN st.arrived : push.arrived[i] = st.arrived[i]
      /\ push.expected = st.expected /\ push.rate = st.rate
  BY PushInv, Zenon
<1>2. Cardinality(st.pending) \in Nat /\ Committed(st) \subseteq DOMAIN st.arrived
  BY StatTypes DEF StatInv
<1>3. /\ Cardinality(st.pending) <= REORDER_WINDOW
      /\ Committed(st) # {} => Cardinality(st.pending) = REORDER_WINDOW
      /\ REORDER_WINDOW \in Nat
  BY MeterAssumption DEF FullInv
<1>4. push.pending # {}
  BY <1>1
<1>5. CASE IsOverfull(push)
  <2> DEFINE o == Oldest(push)
  <2>1. new = CommitOldest(push)
    BY <1>5, Zenon DEF add
  <2>2. /\ StatInv(new) /\ new.rate = push.rate /\ new.arrived = push.arrived
        /\ Committed(new) = Committed(push) \cup {o}
        /\ Cardinality(new.pending) = Cardinality(push.pending) - 1
        /\ (\E j \in Committed(push) : Earlier(push.arrived[o], push.arrived[j]))
             => new.expected = push.expected + push.arrived[o].n
    BY <1>1, <1>4, <2>1, CommitInv, Zenon
  <2> HIDE DEF push, new, o
  <2>3. Cardinality(push.pending) > REORDER_WINDOW
    BY <1>5 DEF IsOverfull, push
  <2>4. Cardinality(new.pending) = REORDER_WINDOW
    BY <1>1, <1>2, <1>3, <2>2, <2>3
  <2>5. FullInv(new)
    BY <1>3, <2>4 DEF FullInv
  <2>6. ASSUME NEW i \in Committed(new) \ Committed(st),
               NEW j \in Committed(st), Earlier(new.arrived[i], st.arrived[j])
        PROVE  new.expected = st.expected + new.arrived[i].n
    <3>1. i = o
      BY <1>1, <2>2
    <3>2. Earlier(push.arrived[o], push.arrived[j])
      BY <1>1, <1>2, <2>2, <2>6, <3>1
    <3> QED
      BY <1>1, <2>2, <3>1, <3>2
  <2> QED
    BY <1>1, <2>2, <2>5, <2>6 DEF new
<1>6. CASE ~IsOverfull(push)
  <2>1. new = push
    BY <1>6, Zenon DEF add
  <2> HIDE DEF push, new
  <2>2. ~(Cardinality(push.pending) > REORDER_WINDOW)
    BY <1>6 DEF IsOverfull, push
  <2>3. FullInv(push)
    BY <1>1, <1>2, <1>3, <2>2 DEF FullInv
  <2> QED
    BY <1>1, <2>1, <2>3 DEF new
<1> QED
  BY <1>5, <1>6

\* A declared rate does not touch the integration.
LEMMA TallyInv ==
    ASSUME NEW st, StatInv(st), NEW u \in Units
    PROVE  LET new == Tally(st, u)
           IN  /\ StatInv(new) /\ Committed(new) = Committed(st)
               /\ FullInv(new) <=> FullInv(st)
               /\ new.arrived = st.arrived /\ new.pending = st.pending
               /\ new.expected = st.expected
<1> DEFINE new == Tally(st, u)
<1>1. st \in Stats /\ st.pending \subseteq DOMAIN st.arrived
  BY DEF StatInv, StatTypeOK
<1>2. /\ new.delivered = st.delivered /\ new.expected = st.expected
      /\ new.last_end = st.last_end /\ new.cur_rate = st.cur_rate
      /\ new.arrived = st.arrived /\ new.pending = st.pending
  BY <1>1 DEF Tally, Stats
<1>3. new \in Stats
  <2>1. u.num_samples \in Nat /\ u.rate \in Int \cup {None}
    BY DEF Units
  <2>2. st.total_samples + u.num_samples \in Nat
    BY <1>1, <2>1 DEF Stats
  <2>3. (IF u.rate = None THEN st.rate ELSE u.rate) \in Int \cup {None}
    BY <1>1, <2>1 DEF Stats
  <2>4. (st.rate_changed \/ (u.rate # None /\ st.rate # None /\ u.rate # st.rate)) \in BOOLEAN
    OBVIOUS
  <2> QED
    BY <1>1, <2>2, <2>3, <2>4 DEF Tally, Stats
<1> HIDE DEF new
<1>4. Committed(new) = Committed(st)
  BY <1>2 DEF Committed
<1>5. StatTypeOK(new)
  BY <1>1, <1>2, <1>3 DEF StatTypeOK
<1>6. CountInv(new)
  BY <1>2, <1>4 DEF StatInv, CountInv, SamplesOf
<1>7. FrontierInv(new)
  BY <1>2, <1>4 DEF StatInv, FrontierInv
<1>8. OrderInv(new)
  <2>1. WindowsOf(new, Committed(new)) = WindowsOf(st, Committed(st))
    BY <1>2, <1>4 DEF WindowsOf
  <2>2. WithinJitterBuffer(new) <=> WithinJitterBuffer(st)
    BY <1>2 DEF WithinJitterBuffer
  <2>3. OrderInv(st)
    BY DEF StatInv
  <2> QED
    BY <1>2, <1>4, <2>1, <2>2, <2>3, Zenon DEF OrderInv
<1>9. FullInv(new) <=> FullInv(st)
  BY <1>2, <1>4 DEF FullInv
<1> QED
  BY <1>2, <1>4, <1>5, <1>6, <1>7, <1>8, <1>9 DEF StatInv, new

\* A new stream has nothing committed and nothing pending.
LEMMA NewStatInv == StatInv(NewStat) /\ FullInv(NewStat) /\ Committed(NewStat) = {}
<1>1. NewStat \in Stats
  BY DEF NewStat, Stats
<1>2. /\ NewStat.arrived = <<>> /\ NewStat.pending = {} /\ NewStat.delivered = 0
      /\ NewStat.expected = 0 /\ NewStat.last_end = None
  BY DEF NewStat
<1>3. DOMAIN NewStat.arrived = {} /\ Committed(NewStat) = {}
  BY <1>2 DEF Committed
<1>4. StatTypeOK(NewStat)
  BY <1>1, <1>2 DEF StatTypeOK
<1>5. SamplesOf(NewStat, Committed(NewStat)) = {}
  BY <1>3 DEF SamplesOf
<1>6. WindowsOf(NewStat, Committed(NewStat)) = {}
  BY <1>3 DEF WindowsOf
<1>7. LossOf({}) = {}
  BY DEF LossOf, LostInstants
<1>8. IsFiniteSet({}) /\ Cardinality({}) = 0
  BY FS_EmptySet
<1>9. CountInv(NewStat)
  BY <1>2, <1>5, <1>8 DEF CountInv
<1>10. FrontierInv(NewStat)
  BY <1>2, <1>3 DEF FrontierInv
<1>11. OrderInv(NewStat)
  <2>1. LossOf(WindowsOf(NewStat, Committed(NewStat))) = {}
    BY <1>6, <1>7
  <2>2. NewStat.expected = NewStat.delivered + Cardinality({})
    BY <1>2, <1>8
  <2> QED
    BY <1>3, <1>8, <2>1, <2>2 DEF OrderInv
<1>12. FullInv(NewStat)
  BY <1>2, <1>3, <1>8, MeterAssumption DEF FullInv
<1> QED
  BY <1>3, <1>4, <1>9, <1>10, <1>11, <1>12 DEF StatInv


-----------------------------------------------------------------------------
(* The meter.                                                               *)

\* What the report says, of streams that do not change any more.
ReportInv ==
    report # None =>
        /\ phase = "done"
        /\ \A s \in Seen : streams[s].pending = {}
        /\ report.kind = "assessed" =>
             /\ Measurable # {}
             /\ report.verdict = Verdict(Tenths(streams[WorstStream]))
             /\ report.clean => Seen = Measurable
             /\ report.not_assessable = Cardinality(Declared) - Cardinality(Measurable)
             /\ report.undeclared = Cardinality(Seen \ Declared)

StreamsInv ==
    /\ streams \in [Streams -> Stats \cup {None}]
    /\ IsFiniteSet(Seen)
    /\ \A s \in Seen : StatInv(streams[s]) /\ Cardinality(streams[s].pending) <= REORDER_WINDOW
    /\ phase = "run" => \A s \in Seen : FullInv(streams[s])

MeterInv == StreamsInv /\ ReportInv

\* No stream has been seen.
LEMMA MeterInitInv == MeterInit => MeterInv
<1> SUFFICES ASSUME MeterInit
             PROVE  MeterInv
  OBVIOUS
<1>1. Seen = {} /\ streams \in [Streams -> Stats \cup {None}]
  BY DEF MeterInit, Seen
<1>2. IsFiniteSet({})
  BY FS_EmptySet
<1> QED
  BY <1>1, <1>2 DEF MeterInit, MeterInv, StreamsInv, ReportInv

\* One stream changes: its statistics were and are right, so all are.
LEMMA OneStream ==
    ASSUME StreamsInv, NEW s \in Streams, NEW new, StatInv(new),
           streams' = [streams EXCEPT ![s] = new],
           Cardinality(new.pending) <= REORDER_WINDOW,
           phase' = "run" => FullInv(new) /\ phase = "run"
    PROVE  StreamsInv'
<1>1. new \in Stats
  BY DEF StatInv, StatTypeOK
<1>2. streams' \in [Streams -> Stats \cup {None}]
  BY <1>1 DEF StreamsInv
<1>3. streams'[s] = new /\ \A t \in Streams \ {s} : streams'[t] = streams[t]
  BY DEF StreamsInv
<1>4. \A t \in Seen' : t \in Streams /\ (t # s => t \in Seen /\ streams'[t] = streams[t])
  BY <1>3 DEF Seen
<1>5. IsFiniteSet(Seen')
  <2>1. Seen' \in SUBSET (Seen \cup {s})
    BY <1>4
  <2>2. IsFiniteSet(Seen \cup {s})
    BY FS_AddElement DEF StreamsInv
  <2> QED
    BY <2>1, <2>2, FS_Subset
<1>6. ASSUME NEW t \in Seen'
      PROVE  /\ StatInv(streams'[t]) /\ Cardinality(streams'[t].pending) <= REORDER_WINDOW
             /\ phase' = "run" => FullInv(streams'[t])
  <2>1. CASE t = s
    BY <1>3, <2>1
  <2>2. CASE t # s
    BY <1>4, <2>2 DEF StreamsInv
  <2> QED
    BY <2>1, <2>2
<1> QED
  BY <1>2, <1>5, <1>6 DEF StreamsInv

\* The statistics that a unit meets.
LEMMA StatOfInv ==
    ASSUME StreamsInv, phase = "run", NEW s \in Streams
    PROVE  StatInv(StatOf(s)) /\ FullInv(StatOf(s))
<1>1. CASE streams[s] = None
  BY <1>1, NewStatInv DEF StatOf
<1>2. CASE streams[s] # None
  BY <1>2 DEF StatOf, StreamsInv, Seen
<1> QED
  BY <1>1, <1>2

\* A placed unit is a window.
LEMMA PlacedIsWindow ==
    ASSUME NEW u \in EmittedUnits, IsPlaced(u)
    PROVE  [ts |-> u.start, rate |-> u.rate, n |-> u.num_samples] \in Windows
<1>1. /\ u \in Units /\ u.num_samples % u.rate = 0 /\ None \notin Int
  BY MeterAssumption
<1>2. u.start \in Nat /\ u.rate \in Nat \ {0} /\ u.num_samples \in Nat \ {0}
  BY <1>1 DEF Units, IsPlaced
<1> QED
  BY <1>1, <1>2 DEF Windows

\* What a unit does to its stream.
LEMMA CallStat ==
    ASSUME StreamsInv, NEW u \in EmittedUnits, Call(u)
    PROVE  \E new :
              /\ streams' = [streams EXCEPT ![u.stream] = new] /\ u.stream \in Streams
              /\ StatInv(new) /\ FullInv(new)
              /\ u.stream \in Seen =>
                   \A i \in Committed(new) \ Committed(streams[u.stream]) :
                      (\E j \in Committed(streams[u.stream]) :
                          Earlier(new.arrived[i], streams[u.stream].arrived[j]))
                        => new.expected = streams[u.stream].expected + new.arrived[i].n
<1> DEFINE s == u.stream
           st == Tally(StatOf(s), u)
           w == [ts |-> u.start, rate |-> u.rate, n |-> u.num_samples]
           new == IF IsPlaced(u) THEN add(st, w) ELSE st
<1>1. u \in Units /\ s \in Streams
  BY MeterAssumption DEF Units
<1>2. StatInv(StatOf(s)) /\ FullInv(StatOf(s))
  BY <1>1, StatOfInv DEF Call
<1>3. /\ StatInv(st) /\ Committed(st) = Committed(StatOf(s)) /\ FullInv(st)
      /\ st.arrived = StatOf(s).arrived /\ st.expected = StatOf(s).expected
  BY <1>1, <1>2, TallyInv, Zenon
<1>4. streams' = [streams EXCEPT ![s] = new]
  BY Zenon DEF Call
<1>5. s \in Seen => StatOf(s) = streams[s]
  BY DEF Seen, StatOf
<1> HIDE DEF st
<1>6. CASE IsPlaced(u)
  <2>1. w \in Windows
    BY <1>6, PlacedIsWindow
  <2>2. new = add(st, w)
    BY <1>6
  <2> HIDE DEF w, new
  <2>3. /\ StatInv(new) /\ FullInv(new)
        /\ \A i \in Committed(new) \ Committed(st) :
             (\E j \in Committed(st) : Earlier(new.arrived[i], st.arrived[j]))
               => new.expected = st.expected + new.arrived[i].n
    BY <1>3, <2>1, <2>2, AddInv, Zenon
  <2>4. ASSUME s \in Seen, NEW i \in Committed(new) \ Committed(streams[s]),
               \E j \in Committed(streams[s]) : Earlier(new.arrived[i], streams[s].arrived[j])
        PROVE  new.expected = streams[s].expected + new.arrived[i].n
    BY <1>3, <1>5, <2>3, <2>4
  <2> QED
    BY <1>1, <1>4, <2>3, <2>4
<1>7. CASE ~IsPlaced(u)
  <2>1. new = st
    BY <1>7
  <2> HIDE DEF new
  <2> QED
    BY <1>1, <1>3, <1>4, <1>5, <2>1
<1> QED
  BY <1>6, <1>7

\* What finalize() does to a stream.
LEMMA FinalizeStat ==
    ASSUME StreamsInv, NEW s \in Streams, Finalize(s)
    PROVE  \E new :
              /\ streams' = [streams EXCEPT ![s] = new] /\ s \in Seen
              /\ StatInv(new) /\ Cardinality(new.pending) <= REORDER_WINDOW
              /\ \A i \in Committed(new) \ Committed(streams[s]) :
                   (\E j \in Committed(streams[s]) :
                       Earlier(new.arrived[i], streams[s].arrived[j]))
                     => new.expected = streams[s].expected + new.arrived[i].n
<1> DEFINE st == streams[s]
           new == CommitOldest(st)
           o == Oldest(st)
<1>1. s \in Seen /\ st.pending # {} /\ streams' = [streams EXCEPT ![s] = new]
  BY DEF Finalize, Seen
<1>2. StatInv(st) /\ Cardinality(st.pending) <= REORDER_WINDOW
  BY <1>1 DEF StreamsInv
<1>3. /\ StatInv(new) /\ new.arrived = st.arrived
      /\ Committed(new) = Committed(st) \cup {o}
      /\ Cardinality(new.pending) = Cardinality(st.pending) - 1
      /\ (\E j \in Committed(st) : Earlier(st.arrived[o], st.arrived[j]))
           => new.expected = st.expected + st.arrived[o].n
  BY <1>1, <1>2, CommitInv, Zenon
<1>4. Cardinality(st.pending) \in Nat /\ REORDER_WINDOW \in Nat
  BY <1>2, StatTypes, MeterAssumption DEF StatInv
<1> HIDE DEF new, o
<1>5. Cardinality(new.pending) <= REORDER_WINDOW
  BY <1>2, <1>3, <1>4
<1>6. ASSUME NEW i \in Committed(new) \ Committed(st),
             \E j \in Committed(st) : Earlier(new.arrived[i], st.arrived[j])
      PROVE  new.expected = st.expected + new.arrived[i].n
  <2>1. i = o
    BY <1>3
  <2> QED
    BY <1>3, <1>6, <2>1
<1> QED
  BY <1>1, <1>3, <1>5, <1>6


\* While the meter runs and drains there is no report; afterwards nothing
\* changes.
LEMMA NoReportYet ==
    ASSUME ReportInv, phase # "done"
    PROVE  report = None
BY DEF ReportInv

\* Every step keeps what is known of the streams.
LEMMA StreamsStep == StreamsInv /\ [MeterNext]_meterVars => StreamsInv'
<1> SUFFICES ASSUME StreamsInv, [MeterNext]_meterVars
             PROVE  StreamsInv'
  OBVIOUS
<1>1. ASSUME NEW u \in EmittedUnits, Call(u)
      PROVE  StreamsInv'
  <2>1. PICK new :
           /\ streams' = [streams EXCEPT ![u.stream] = new] /\ u.stream \in Streams
           /\ StatInv(new) /\ FullInv(new)
    BY <1>1, CallStat, Zenon
  <2>2. Cardinality(new.pending) <= REORDER_WINDOW
    BY <2>1 DEF FullInv
  <2>3. phase' = "run" /\ phase = "run"
    BY <1>1 DEF Call
  <2> QED
    BY <2>1, <2>2, <2>3, OneStream
<1>2. ASSUME NEW s \in Streams, Finalize(s)
      PROVE  StreamsInv'
  <2>1. PICK new :
           /\ streams' = [streams EXCEPT ![s] = new]
           /\ StatInv(new) /\ Cardinality(new.pending) <= REORDER_WINDOW
    BY <1>2, FinalizeStat, Zenon
  <2>2. phase' # "run"
    BY <1>2 DEF Finalize
  <2> QED
    BY <2>1, <2>2, OneStream
<1>3. ASSUME streams' = streams, phase' = "run" => phase = "run"
      PROVE  StreamsInv'
  <2>1. Seen' = Seen
    BY <1>3 DEF Seen
  <2> QED
    BY <1>3, <2>1 DEF StreamsInv
<1>4. CASE BeginSummary
  BY <1>3, <1>4 DEF BeginSummary
<1>5. CASE ReportUnknown \/ ReportTooShort \/ ReportVerdict
  BY <1>3, <1>5 DEF ReportUnknown, ReportTooShort, ReportVerdict, Returns
<1>6. CASE UNCHANGED meterVars
  BY <1>3, <1>6 DEF meterVars
<1> QED
  BY <1>1, <1>2, <1>4, <1>5, <1>6 DEF MeterNext

\* The report is made when all is drained, of the worst stream.
LEMMA ReportStep == ReportInv /\ [MeterNext]_meterVars => ReportInv'
<1> SUFFICES ASSUME ReportInv, [MeterNext]_meterVars
             PROVE  ReportInv'
  OBVIOUS
<1>1. ASSUME UNCHANGED <<streams, report>>, phase' = phase
      PROVE  ReportInv'
  <2>1. /\ Seen' = Seen /\ Declared' = Declared /\ Measurable' = Measurable
        /\ WorstStream' = WorstStream
    BY <1>1 DEF Seen, Declared, Measurable, WorstStream, LostMore
  <2> QED
    BY <1>1, <2>1, Zenon DEF ReportInv
<1>2. ASSUME report' = None
      PROVE  ReportInv'
  BY <1>2 DEF ReportInv
<1>3. ASSUME NEW u \in EmittedUnits, Call(u)
      PROVE  ReportInv'
  BY <1>2, <1>3, NoReportYet DEF Call
<1>4. ASSUME NEW s \in Streams, Finalize(s)
      PROVE  ReportInv'
  BY <1>2, <1>4, NoReportYet DEF Finalize
<1>5. CASE BeginSummary
  BY <1>2, <1>5, NoReportYet DEF BeginSummary
<1>6. ASSUME NEW r, Returns(r), r.kind # "assessed"
      PROVE  ReportInv'
  <2>1. Seen' = Seen /\ streams' = streams /\ phase' = "done" /\ report' = r
    BY <1>6 DEF Returns, Seen
  <2> QED
    BY <1>6, <2>1 DEF Returns, Finalized, ReportInv
<1>7. CASE ReportUnknown
  BY <1>6, <1>7 DEF ReportUnknown
<1>8. CASE ReportTooShort
  BY <1>6, <1>8 DEF ReportTooShort
<1>9. CASE ReportVerdict
  <2>1. streams' = streams /\ phase' = "done" /\ Finalized
    BY <1>9 DEF ReportVerdict, Returns
  <2>2. /\ Seen' = Seen /\ Declared' = Declared /\ Measurable' = Measurable
        /\ WorstStream' = WorstStream
    BY <2>1 DEF Seen, Declared, Measurable, WorstStream, LostMore
  <2>3. /\ report'.verdict = Verdict(Tenths(streams[WorstStream]))
        /\ report'.not_assessable = Cardinality(Declared) - Cardinality(Measurable)
        /\ report'.undeclared = Cardinality(Seen \ Declared)
    BY <1>9 DEF ReportVerdict, Returns
  <2>4. report'.clean => Seen = Measurable
    BY <1>9 DEF ReportVerdict, Returns
  <2>5. Measurable # {} /\ \A s \in Seen : streams[s].pending = {}
    BY <1>9 DEF ReportVerdict, Returns, Finalized
  <2> QED
    BY <2>1, <2>2, <2>3, <2>4, <2>5, Zenon DEF ReportInv
<1>10. CASE UNCHANGED meterVars
  BY <1>1, <1>10 DEF meterVars
<1> QED
  BY <1>3, <1>4, <1>5, <1>7, <1>8, <1>9, <1>10 DEF MeterNext

\* The invariant of the meter.
LEMMA MeterAlways == MeterSpec => []MeterInv
<1>1. MeterInv /\ [MeterNext]_meterVars => MeterInv'
  BY StreamsStep, ReportStep DEF MeterInv
<1> QED
  BY <1>1, MeterInitInv, PTL DEF MeterSpec

-----------------------------------------------------------------------------
\* _commit(), add(): however windows are duplicated, overlapped, retuned or
\* reordered, efficiency is at most 100 % and the jitter buffer keeps its depth.
THEOREM EfficiencyAndMemoryBounded == MeterSpec => []MeterBounded
<1>1. MeterInv => MeterBounded
  BY DEF MeterInv, StreamsInv, StatInv, FrontierInv, MeterBounded
<1> QED
  BY <1>1, MeterAlways, PTL

\* _commit(): a window that comes after a later one was committed adds its own
\* samples and no loss, in every step of the meter.
THEOREM LateAddsNoLoss == MeterSpec => LateWithoutGap
<1> DEFINE Right == \A s \in Seen :
                      \A i \in Committed(streams'[s]) \ Committed(streams[s]) :
                         (\E j \in Committed(streams[s]) :
                             Earlier(streams'[s].arrived[i], streams[s].arrived[j]))
                         => streams'[s].expected
                              = streams[s].expected + streams'[s].arrived[i].n
<1>1. ASSUME StreamsInv, [MeterNext]_meterVars
      PROVE  Right
  <2>0. \A s \in Streams : streams'[s] = streams[s] =>
          Committed(streams'[s]) \ Committed(streams[s]) = {}
    OBVIOUS
  <2>1. ASSUME NEW t \in Streams, NEW new,
               streams' = [streams EXCEPT ![t] = new],
               t \in Seen =>
                 \A i \in Committed(new) \ Committed(streams[t]) :
                    (\E j \in Committed(streams[t]) :
                        Earlier(new.arrived[i], streams[t].arrived[j]))
                      => new.expected = streams[t].expected + new.arrived[i].n
        PROVE  Right
    <3>1. streams'[t] = new /\ \A s \in Streams \ {t} : streams'[s] = streams[s]
      BY <1>1, <2>1 DEF StreamsInv
    <3>2. Seen \subseteq Streams
      BY DEF Seen
    <3>3. ASSUME NEW s \in Seen
          PROVE  \A i \in Committed(streams'[s]) \ Committed(streams[s]) :
                   (\E j \in Committed(streams[s]) :
                       Earlier(streams'[s].arrived[i], streams[s].arrived[j]))
                     => streams'[s].expected = streams[s].expected + streams'[s].arrived[i].n
      <4>1. CASE s = t
        BY <2>1, <3>1, <4>1
      <4>2. CASE s # t
        BY <2>0, <3>1, <3>2, <4>2
      <4> QED
        BY <4>1, <4>2
    <3> QED
      BY <3>3
  <2>2. ASSUME NEW u \in EmittedUnits, Call(u)
        PROVE  Right
    BY <1>1, <2>1, <2>2, CallStat
  <2>3. ASSUME NEW s \in Streams, Finalize(s)
        PROVE  Right
    BY <1>1, <2>1, <2>3, FinalizeStat
  <2>4. ASSUME streams' = streams
        PROVE  Right
    BY <2>4
  <2>5. CASE BeginSummary \/ ReportUnknown \/ ReportTooShort \/ ReportVerdict
    BY <2>4, <2>5 DEF BeginSummary, ReportUnknown, ReportTooShort, ReportVerdict, Returns
  <2>6. CASE UNCHANGED meterVars
    BY <2>4, <2>6 DEF meterVars
  <2> HIDE DEF Right
  <2> QED
    BY <1>1, <2>2, <2>3, <2>5, <2>6 DEF MeterNext
<1>2. MeterInv /\ [MeterNext]_meterVars => [Right]_meterVars
  BY <1>1 DEF MeterInv
<1>3. MeterSpec => [][Right]_meterVars
  BY <1>2, MeterAlways, PTL DEF MeterSpec
<1> QED
  BY <1>3 DEF LateWithoutGap


-----------------------------------------------------------------------------
(* The integration and the verdict.                                         *)

\* At the end all windows of a stream are committed, and if the jitter buffer
\* could undo their order, delivered and expected are those of the reference.
LEMMA DrainedIsExact ==
    ASSUME NEW st, StatInv(st), st.pending = {}, WithinJitterBuffer(st)
    PROVE  st.delivered = Samples(st) /\ st.expected = Samples(st) + Loss(st)
<1>1. Committed(st) = DOMAIN st.arrived
  BY DEF Committed
<1>2. st.delivered = Samples(st)
  BY <1>1 DEF StatInv, CountInv, Samples
<1>3. st.expected = st.delivered + Cardinality(LossOf(WindowsOf(st, DOMAIN st.arrived)))
  BY <1>1, Zenon DEF StatInv, OrderInv
<1> QED
  BY <1>2, <1>3 DEF Loss

\* _commit(), add(), finalize(): the incremental integration computes the loss
\* that is defined instant by instant, in whatever order within the jitter
\* buffer's reach the windows came.
THEOREM IntegrationIsExact == MeterSpec => []IntegrationExact
<1>1. MeterInv => IntegrationExact
  <2> SUFFICES ASSUME MeterInv, report # None, NEW s \in Seen, WithinJitterBuffer(streams[s])
               PROVE  /\ streams[s].delivered = Samples(streams[s])
                      /\ streams[s].expected = Samples(streams[s]) + Loss(streams[s])
    BY DEF IntegrationExact
  <2>1. StatInv(streams[s]) /\ streams[s].pending = {}
    BY DEF MeterInv, StreamsInv, ReportInv
  <2> QED
    BY <2>1, DrainedIsExact
<1> QED
  BY <1>1, MeterAlways, PTL

\* Arithmetic with products and quotients.
LEMMA Products ==
    /\ \A a, b \in Nat, c \in Nat \ {0} : a < b <=> a * c < b * c
    /\ \A a, b \in Int, c \in Nat \ {0} : a >= b <=> a * c >= b * c
    /\ \A a, b, c \in Int : (a * b) * c = (a * c) * b
    /\ \A a, b \in Nat : a * b \in Nat
OBVIOUS

\* Quotient and remainder.
LEMMA Quotient ==
    \A a \in Nat, b \in Nat \ {0} :
       a = b * (a \div b) + (a % b) /\ a % b \in 0..(b - 1) /\ a \div b \in Nat
OBVIOUS

\* What rounds to 90.0 % is at least 89.95 %.
LEMMA RoundedShare ==
    ASSUME NEW d \in Nat, NEW e \in Nat \ {0}, NEW q \in Nat, NEW m \in 0..(e - 1),
           1000 * d = e * q + m,
           (IF 2 * m > e \/ (2 * m = e /\ q % 2 = 1) THEN q + 1 ELSE q) >= 900
    PROVE  2000 * d >= 1799 * e
<1>1. CASE q >= 900
  <2>1. e * q >= e * 900
    BY <1>1
  <2> QED
    BY <2>1
<1>2. CASE q = 899
  <2>1. e * q = e * 899
    BY <1>2
  <2> QED
    BY <2>1, <1>2
<1> QED
  BY <1>1, <1>2

\* A stream that is judged OK delivered 89.95 %.
LEMMA VerdictOK ==
    ASSUME NEW st, st.delivered \in Nat, st.expected \in Nat \ {0}, Verdict(Tenths(st)) = "OK"
    PROVE  2000 * st.delivered >= 1799 * st.expected
<1> DEFINE d == st.delivered
           e == st.expected
           n == 1000 * d
           q == n \div e
           m == n % e
<1>1. n \in Nat /\ e \in Nat \ {0}
  OBVIOUS
<1>2. Tenths(st) = IF 2 * m > e \/ (2 * m = e /\ q % 2 = 1) THEN q + 1 ELSE q
  BY DEF Tenths
<1>3. Tenths(st) >= 900
  BY DEF Verdict
<1>4. n = e * q + m /\ m \in 0..(e - 1) /\ q \in Nat
  <2> HIDE DEF n, e
  <2> QED
    BY <1>1, Quotient
<1>5. 1000 * d = e * q + m
  BY <1>4
<1> HIDE DEF q, m
<1> QED
  BY <1>2, <1>3, <1>4, <1>5, RoundedShare

\* There is a worst stream: no other lost a larger share.
LEMMA WorstExists ==
    ASSUME StreamsInv, Measurable # {}
    PROVE  /\ WorstStream \in Measurable
           /\ \A t \in Measurable : ~LostMore(t, WorstStream)
<1>1. \A s \in Measurable : streams[s].delivered \in Nat /\ streams[s].expected \in Nat \ {0}
  <2> TAKE s \in Measurable
  <2>1. s \in Seen /\ streams[s].expected > 0
    BY DEF Measurable, Declared
  <2>2. StatTypeOK(streams[s])
    BY <2>1 DEF StreamsInv, StatInv
  <2> QED
    BY <2>1, <2>2, StatTypes
<1>2. ASSUME NEW r \in Measurable, NEW s \in Measurable, NEW t \in Measurable,
             LostMore(t, s), LostMore(s, r)
      PROVE  LostMore(t, r)
  <2> DEFINE dr == streams[r].delivered
             er == streams[r].expected
             ds == streams[s].delivered
             es == streams[s].expected
             dt == streams[t].delivered
             et == streams[t].expected
  <2>1. /\ dr \in Nat /\ ds \in Nat /\ dt \in Nat
        /\ er \in Nat \ {0} /\ es \in Nat \ {0} /\ et \in Nat \ {0}
    BY <1>1
  <2>2. dt * es < ds * et /\ ds * er < dr * es
    BY <1>2 DEF LostMore
  <2> HIDE DEF dr, er, ds, es, dt, et
  <2>3. (dt * es) * er < (ds * et) * er
    BY <2>1, <2>2, Products
  <2>4. (ds * er) * et < (dr * es) * et
    BY <2>1, <2>2, Products
  <2>5. /\ (dt * es) * er = (dt * er) * es /\ (ds * et) * er = (ds * er) * et
        /\ (dr * es) * et = (dr * et) * es
    BY <2>1, Products
  <2>6. /\ dt * er \in Nat /\ dr * et \in Nat /\ (dt * er) * es \in Nat
        /\ (ds * er) * et \in Nat /\ (dr * et) * es \in Nat
    BY <2>1, Products
  <2>7. (dt * er) * es < (dr * et) * es
    BY <2>3, <2>4, <2>5, <2>6
  <2>8. dt * er < dr * et
    BY <2>1, <2>6, <2>7, Products
  <2> QED
    BY <2>8 DEF LostMore, dr, er, dt, et
<1>3. \A s \in Measurable : ~LostMore(s, s)
  BY <1>1 DEF LostMore
<1> DEFINE worse(s) == {t \in Measurable : LostMore(t, s)}
           sizes == {Cardinality(worse(s)) : s \in Measurable}
<1>4. \A s \in Measurable : IsFiniteSet(worse(s)) /\ Cardinality(worse(s)) \in Nat
  <2> TAKE s \in Measurable
  <2>1. worse(s) \in SUBSET Seen
    BY DEF Measurable, Declared
  <2>2. IsFiniteSet(Seen)
    BY DEF StreamsInv
  <2> QED
    BY <2>1, <2>2, FS_Subset, FS_CardinalityType
<1>5. PICK n \in sizes : \A k \in sizes : n <= k
  <2>1. sizes \in SUBSET Nat /\ sizes # {}
    BY <1>4
  <2> QED
    BY <2>1, LeastNatural
<1>6. PICK s \in Measurable : n = Cardinality(worse(s))
  BY <1>5
<1>7. ASSUME NEW t \in Measurable, LostMore(t, s)
      PROVE  FALSE
  <2>1. worse(t) \in SUBSET worse(s)
    BY <1>2, <1>7
  <2>2. t \in worse(s) /\ t \notin worse(t)
    BY <1>3, <1>7
  <2>3. Cardinality(worse(t)) <= Cardinality(worse(s)) /\ worse(t) # worse(s)
    BY <1>4, <2>1, <2>2, FS_Subset
  <2>4. Cardinality(worse(t)) # Cardinality(worse(s))
    BY <1>4, <2>1, <2>3, FS_Subset
  <2>5. n <= Cardinality(worse(t))
    BY <1>5
  <2> QED
    BY <1>4, <1>6, <2>3, <2>4, <2>5
<1>8. \E x \in Measurable : \A t \in Measurable : ~LostMore(t, x)
  BY <1>7
<1> QED
  BY <1>8, Zenon DEF WorstStream

\* capture_summary(): "OK" is said of the worst stream, so it holds of every
\* stream that could be measured, and the others are flagged.
THEOREM NoStreamIsMasked == MeterSpec => []OKMasksNothing
<1>1. MeterInv => OKMasksNothing
  <2> SUFFICES ASSUME MeterInv, report # None, report.kind = "assessed", report.verdict = "OK",
                      NEW s \in Seen
               PROVE  \/ streams[s].rate = None /\ report.undeclared > 0 /\ ~report.clean
                      \/ streams[s].arrived = <<>> /\ report.not_assessable > 0 /\ ~report.clean
                      \/ ~WithinJitterBuffer(streams[s])
                      \/ /\ streams[s].arrived # <<>>
                         /\ 2000 * Samples(streams[s])
                              >= 1799 * (Samples(streams[s]) + Loss(streams[s]))
    BY DEF OKMasksNothing
  <2> DEFINE st == streams[s]
             w == streams[WorstStream]
  <2>1. /\ Measurable # {} /\ st.pending = {} /\ Verdict(Tenths(w)) = "OK"
        /\ report.clean => Seen = Measurable
        /\ report.not_assessable = Cardinality(Declared) - Cardinality(Measurable)
        /\ report.undeclared = Cardinality(Seen \ Declared)
    BY DEF MeterInv, ReportInv
  <2>2. StreamsInv /\ StatInv(st) /\ IsFiniteSet(Seen)
    BY DEF MeterInv, StreamsInv
  <2>3. Measurable \subseteq Declared /\ Declared \subseteq Seen
    BY DEF Measurable, Declared
  <2>4. IsFiniteSet(Declared) /\ IsFiniteSet(Seen \ Declared) /\ IsFiniteSet(Measurable)
    BY <2>2, <2>3, FS_Subset
  <2>5. CASE st.rate = None
    <3>1. s \in Seen \ Declared /\ s \notin Measurable
      BY <2>3, <2>5 DEF Declared
    <3>2. Cardinality(Seen \ Declared) \in Nat /\ Cardinality(Seen \ Declared) # 0
      BY <2>4, <3>1, FS_EmptySet, FS_CardinalityType
    <3>3. report.undeclared > 0 /\ ~report.clean
      BY <2>1, <3>1, <3>2
    <3> QED
      BY <2>5, <3>3
  <2>6. CASE st.rate # None /\ s \notin Measurable
    <3>1. s \in Declared /\ ~(st.expected > 0)
      BY <2>6 DEF Declared, Measurable
    <3>2. st.arrived = <<>>
      <4>1. Committed(st) = {}
        BY <2>2, <3>1 DEF StatInv, FrontierInv
      <4>2. DOMAIN st.arrived = {}
        BY <2>1, <4>1 DEF Committed
      <4>3. st.arrived \in Seq(Windows) /\ DOMAIN st.arrived = 1..Len(st.arrived)
            /\ Len(st.arrived) \in Nat
        BY <2>2, StatTypes DEF StatInv
      <4>4. Len(st.arrived) = 0
        <5> SUFFICES ASSUME Len(st.arrived) # 0
                     PROVE  FALSE
          OBVIOUS
        <5>1. 1 \in 1..Len(st.arrived)
          BY <4>3
        <5> QED
          BY <4>2, <4>3, <5>1
      <4> QED
        BY <4>3, <4>4, EmptySeq
    <3>3. Cardinality(Measurable) <= Cardinality(Declared) /\ Measurable # Declared
      BY <2>3, <2>4, <2>6, <3>1, FS_Subset
    <3>4. Cardinality(Measurable) # Cardinality(Declared)
      BY <2>3, <2>4, <3>3, FS_Subset
    <3>5. Cardinality(Measurable) \in Nat /\ Cardinality(Declared) \in Nat
      BY <2>4, FS_CardinalityType
    <3>6. report.not_assessable > 0 /\ ~report.clean
      BY <2>1, <2>6, <3>3, <3>4, <3>5
    <3> QED
      BY <3>2, <3>6
  <2>7. CASE s \in Measurable /\ WithinJitterBuffer(st)
    <3>1. WorstStream \in Measurable /\ ~LostMore(s, WorstStream)
      BY <2>1, <2>2, <2>7, WorstExists
    <3>2. /\ st.expected > 0 /\ st.delivered \in Nat /\ st.expected \in Nat
      BY <2>2, <2>7, StatTypes DEF Measurable, StatInv
    <3>3. w.expected > 0 /\ w.delivered \in Nat /\ w.expected \in Nat
      <4>1. StatTypeOK(w)
        BY <2>2, <2>3, <3>1 DEF StreamsInv, StatInv
      <4> QED
        BY <3>1, <4>1, StatTypes DEF Measurable
    <3>4. 2000 * w.delivered >= 1799 * w.expected
      BY <2>1, <3>3, VerdictOK
    <3>5. ~(st.delivered * w.expected < w.delivered * st.expected)
      BY <3>1 DEF LostMore
    <3>6. 2000 * st.delivered >= 1799 * st.expected
      <4> DEFINE d == st.delivered
                 e == st.expected
                 D == w.delivered
                 E == w.expected
      <4>1. d \in Nat /\ e \in Nat \ {0} /\ D \in Nat /\ E \in Nat \ {0}
        BY <3>2, <3>3
      <4>2. 2000 * D >= 1799 * E /\ d * E >= D * e
        BY <3>2, <3>3, <3>4, <3>5, Products
      <4> HIDE DEF d, e, D, E
      <4>3. (2000 * D) * e >= (1799 * E) * e
        BY <4>1, <4>2, Products
      <4>4. 2000 * (d * E) >= 2000 * (D * e)
        BY <4>1, <4>2, Products
      <4>5. (2000 * d) * E >= (1799 * e) * E
        BY <4>1, <4>3, <4>4
      <4>6. 2000 * d >= 1799 * e
        BY <4>1, <4>5, Products
      <4> QED
        BY <4>6 DEF d, e
    <3>7. st.delivered = Samples(st) /\ st.expected = Samples(st) + Loss(st)
      BY <2>1, <2>2, <2>7, DrainedIsExact
    <3>8. st.arrived # <<>>
      <4> SUFFICES ASSUME st.arrived = <<>>
                   PROVE  FALSE
        OBVIOUS
      <4>1. Committed(st) = {}
        BY DEF Committed
      <4> QED
        BY <2>2, <3>2, <4>1 DEF StatInv, FrontierInv
    <3> QED
      BY <3>6, <3>7, <3>8
  <2> QED
    BY <2>5, <2>6, <2>7
<1> QED
  BY <1>1, MeterAlways, PTL

=============================================================================
