-------------------------- MODULE FreshnessProofs ---------------------------
(***************************************************************************)
(* What is learnt and later acted upon is not stale.                       *)
(*                                                                         *)
(* The directory keeps a running bootstrap gateway for any number of       *)
(* peers, any ttl and any fetch timeout, if one round of the refresh task  *)
(* fits into the ttl.  The invariant bounds the age of the entry of the    *)
(* i-th peer by what has passed since the task was done with it.           *)
(*                                                                         *)
(* The estimator and those who build transports from it, for any set of    *)
(* readings, any number of builders and any window of up to 1000 samples.  *)
(* The inductive invariant CcSound says that the window is the end of what *)
(* was observed, that a builder's reading is the window of a moment at     *)
(* which it held the lock, and that a transport was built from such a      *)
(* reading.  The rest is about order statistics: Nth is a sample of the    *)
(* window, it grows with its rank, and the measured threshold covers the   *)
(* largest of them.                                                        *)
(***************************************************************************)
EXTENDS Autopilot, MeasuredCc, FiniteSetTheorems, WellFoundedInduction, TLAPS

\* Every set of numbers that is not empty has a least element.
LEMMA LeastNat ==
  ASSUME NEW T \in SUBSET Nat, T # {}
  PROVE  \E x \in T : \A y \in T : x <= y
<1> DEFINE R == OpToRel(<, Nat)
<1>1. \E x \in T : \A y \in T : ~ (<<y, x>> \in R)
  <2> HIDE DEF R
  <2>1. IsWellFoundedOn(R, Nat)
    BY NatLessThanWellFounded DEF R
  <2> QED
    BY <2>1, WFMin
<1>2. \A x, y \in Nat : <<y, x>> \in R <=> y < x
  BY DEF OpToRel
<1> HIDE DEF R
<1>3. PICK x \in T : \A y \in T : ~ (<<y, x>> \in R)
  BY <1>1
<1>4. \A y \in T : x \in Nat /\ y \in Nat /\ ~ (y < x)
  BY <1>2, <1>3
<1>5. \A y \in T : x <= y
  BY <1>4
<1> QED
  BY <1>5

\* How many samples of a window are at most v.
UpTo(w, v) == {j \in DOMAIN w : w[j] <= v}
Below(w, v) == {j \in DOMAIN w : w[j] < v}

\* Sets of samples are finite and no larger than the window.
LEMMA Counts ==
  ASSUME NEW w \in Seq(Nat), NEW S \in SUBSET DOMAIN w
  PROVE  /\ IsFiniteSet(S) /\ Cardinality(S) \in 0..Len(w)
         /\ Cardinality(DOMAIN w) = Len(w)
         /\ Cardinality(S) = Len(w) => S = DOMAIN w
         /\ \A U \in SUBSET S : Cardinality(U) <= Cardinality(S)
<1>1. IsFiniteSet(DOMAIN w) /\ Cardinality(DOMAIN w) = Len(w) /\ Len(w) \in Nat
  <2>1. DOMAIN w = 1..Len(w) /\ Len(w) \in Nat /\ 1 \in Int /\ Len(w) \in Int
    OBVIOUS
  <2>2. IsFiniteSet(1..Len(w)) /\ Cardinality(1..Len(w)) = IF 1 > Len(w) THEN 0 ELSE Len(w) - 1 + 1
    BY <2>1, FS_Interval
  <2> QED
    BY <2>1, <2>2
<1>2. IsFiniteSet(S) /\ Cardinality(S) <= Len(w)
  BY <1>1, FS_Subset
<1>3. Cardinality(S) \in Nat
  BY <1>2, FS_CardinalityType
<1>4. Cardinality(S) = Len(w) => S = DOMAIN w
  BY <1>1, <1>2, FS_Subset
<1>5. \A U \in SUBSET S : Cardinality(U) <= Cardinality(S)
  BY <1>2, FS_Subset
<1> QED
  BY <1>1, <1>2, <1>3, <1>4, <1>5

\* A window has an upper bound.
LEMMA Bounded ==
  ASSUME NEW w \in Seq(Nat)
  PROVE  \E v \in Nat : \A j \in DOMAIN w : w[j] <= v
<1> DEFINE T == {n \in 0..Len(w) : ~ \E v \in Nat : \A j \in 1..n : w[j] <= v}
<1>1. SUFFICES T = {}
  <2>1. Len(w) \in 0..Len(w) /\ DOMAIN w = 1..Len(w)
    OBVIOUS
  <2> QED
    BY <1>1, <2>1
<1>2. SUFFICES ASSUME T # {} PROVE FALSE
  OBVIOUS
<1>3. PICK n \in T : \A m \in T : n <= m
  <2>1. T \in SUBSET Nat
    OBVIOUS
  <2> HIDE DEF T
  <2> QED
    BY <1>2, <2>1, LeastNat
<1>4. n \in 1..Len(w)
  <2>1. 0 \in Nat /\ \A j \in 1..0 : w[j] <= 0
    OBVIOUS
  <2> QED
    BY <2>1
<1>5. PICK v \in Nat : \A j \in 1..(n - 1) : w[j] <= v
  <2>1. n - 1 \in 0..Len(w) /\ ~ (n <= n - 1)
    BY <1>4
  <2>2. n - 1 \notin T
    BY <1>3, <2>1
  <2> QED
    BY <2>1, <2>2
<1> HIDE DEF T
<1>6. \A j \in 1..n : w[j] \in Nat
  BY <1>4
<1>7. \A j \in 1..n : w[j] <= v + w[n]
  <2> TAKE j \in 1..n
  <2>1. w[j] \in Nat /\ w[n] \in Nat /\ (j = n \/ j \in 1..(n - 1))
    BY <1>4, <1>6
  <2> QED
    BY <1>5, <2>1
<1>8. v + w[n] \in Nat
  BY <1>4, <1>6
<1> QED
  BY <1>3, <1>7, <1>8 DEF T

\* sorted: there is a sample in every place of the sorted window.
LEMMA NthExists ==
  ASSUME NEW w \in Seq(Nat), NEW i \in 0..(Len(w) - 1)
  PROVE  /\ Nth(w, i) \in Nat /\ \E j \in DOMAIN w : w[j] = Nth(w, i)
         /\ Cardinality(Below(w, Nth(w, i))) <= i
         /\ i < Cardinality(UpTo(w, Nth(w, i)))
<1> DEFINE T == {v \in Nat : i < Cardinality(UpTo(w, v))}
<1>0. \A v : UpTo(w, v) \in SUBSET DOMAIN w /\ Below(w, v) \in SUBSET DOMAIN w
  BY DEF UpTo, Below
<1>1. T # {}
  <2>1. PICK v \in Nat : \A j \in DOMAIN w : w[j] <= v
    BY Bounded
  <2>2. UpTo(w, v) = DOMAIN w
    BY <2>1 DEF UpTo
  <2>3. Cardinality(UpTo(w, v)) = Len(w)
    BY <2>2, Counts
  <2> QED
    BY <2>3
<1>2. PICK v \in T : \A u \in T : v <= u
  <2>1. T \in SUBSET Nat
    OBVIOUS
  <2> HIDE DEF T
  <2> QED
    BY <1>1, <2>1, LeastNat
<1>3. Cardinality(Below(w, v)) <= i
  <2>1. CASE v = 0
    <3>1. Below(w, v) = {}
      BY <2>1 DEF Below
    <3> QED
      BY <3>1, FS_EmptySet
  <2>2. CASE v # 0
    <3>1. v - 1 \in Nat /\ v - 1 \notin T
      BY <1>2, <2>2
    <3>2. Below(w, v) = UpTo(w, v - 1)
      BY <2>2 DEF Below, UpTo
    <3>3. Cardinality(UpTo(w, v - 1)) \in Nat
      BY <1>0, Counts
    <3> QED
      BY <3>1, <3>2, <3>3
  <2> QED
    BY <2>1, <2>2
<1>4. \E j \in DOMAIN w : w[j] = v
  <2> SUFFICES ASSUME \A j \in DOMAIN w : w[j] # v PROVE FALSE
    OBVIOUS
  <2>1. Below(w, v) = UpTo(w, v)
    BY DEF Below, UpTo
  <2>2. Cardinality(UpTo(w, v)) \in Nat
    BY <1>0, Counts
  <2> QED
    BY <1>3, <2>1, <2>2
<1>5. v \in {w[j] : j \in DOMAIN w} /\ i < Cardinality(UpTo(w, v))
  BY <1>4
<1>6. /\ Nth(w, i) \in {w[j] : j \in DOMAIN w}
      /\ Cardinality(Below(w, Nth(w, i))) <= i
      /\ i < Cardinality(UpTo(w, Nth(w, i)))
  <2> DEFINE P(x) == Cardinality(Below(w, x)) <= i /\ i < Cardinality(UpTo(w, x))
  <2>1. Nth(w, i) = CHOOSE x \in {w[j] : j \in DOMAIN w} : P(x)
    BY DEF Nth, Below, UpTo
  <2>2. P(v)
    BY <1>3, <1>5
  <2> HIDE DEF P
  <2>3. Nth(w, i) \in {w[j] : j \in DOMAIN w} /\ P(Nth(w, i))
    BY <1>5, <2>1, <2>2
  <2> QED
    BY <2>3 DEF P
<1> QED
  BY <1>6

\* The places of the sorted window are in ascending order.
LEMMA NthMonotone ==
  ASSUME NEW w \in Seq(Nat), NEW k \in 0..(Len(w) - 1), NEW i \in 0..k
  PROVE  Nth(w, i) <= Nth(w, k)
<1> DEFINE x == Nth(w, i)
           y == Nth(w, k)
<1>1. /\ x \in Nat /\ Cardinality(Below(w, x)) <= i
      /\ y \in Nat /\ k < Cardinality(UpTo(w, y))
  <2>1. i \in 0..(Len(w) - 1)
    OBVIOUS
  <2> QED
    BY <2>1, NthExists
<1> HIDE DEF x, y
<1>2. SUFFICES ASSUME y < x PROVE FALSE
  BY <1>1 DEF x, y
<1>3. UpTo(w, y) \in SUBSET Below(w, x) /\ Below(w, x) \in SUBSET DOMAIN w
  BY <1>1, <1>2 DEF UpTo, Below
<1>4. /\ Cardinality(UpTo(w, y)) <= Cardinality(Below(w, x))
      /\ Cardinality(Below(w, x)) \in Nat /\ Cardinality(UpTo(w, y)) \in Nat
  BY <1>3, Counts
<1> QED
  BY <1>1, <1>4

\* The last place of the sorted window holds its slowest sample.
LEMMA NthLast ==
  ASSUME NEW w \in Seq(Nat), w # <<>>, NEW j \in DOMAIN w
  PROVE  w[j] <= Nth(w, Len(w) - 1)
<1> DEFINE x == Nth(w, Len(w) - 1)
<1>1. x \in Nat /\ Len(w) - 1 < Cardinality(UpTo(w, x)) /\ Len(w) \in Nat
  <2>1. Len(w) - 1 \in 0..(Len(w) - 1)
    OBVIOUS
  <2> QED
    BY <2>1, NthExists
<1> HIDE DEF x
<1>2. UpTo(w, x) \in SUBSET DOMAIN w
  BY DEF UpTo
<1>3. Cardinality(UpTo(w, x)) = Len(w)
  BY <1>1, <1>2, Counts
<1>4. UpTo(w, x) = DOMAIN w
  BY <1>2, <1>3, Counts
<1> QED
  BY <1>4 DEF UpTo, x

\* Rounded division.
LEMMA Division ==
  ASSUME NEW a \in Nat, NEW m \in Nat, m # 0
  PROVE  /\ a \div m \in Nat /\ (a \div m) * m <= a /\ (a \div m) * m > a - m
OBVIOUS

-----------------------------------------------------------------------------
\* Everything derived from a window is a number.
LEMMA EstimateTypes ==
  ASSUME NEW w \in Seq(Nat)
  PROVE  /\ median_rtt(w) \in Nat /\ jitter_ratio(w) \in Nat
         /\ (median_rtt(w) \div 2) \div max(Hops, 1) \in Nat
<1>1. median_rtt(w) \in Nat
  <2>1. CASE w = <<>>
    BY <2>1 DEF median_rtt
  <2>2. CASE w # <<>>
    <3>1. Len(w) \div 2 \in 0..(Len(w) - 1)
      BY <2>2
    <3> QED
      BY <2>2, <3>1, NthExists DEF median_rtt
  <2> QED
    BY <2>1, <2>2
<1>2. jitter_ratio(w) \in Nat
  <2>1. CASE Len(w) < 2 \/ median_rtt(w) = 0
    BY <2>1 DEF jitter_ratio
  <2>2. CASE ~ (Len(w) < 2 \/ median_rtt(w) = 0)
    <3>1. HighRank(Len(w)) \in 0..(Len(w) - 1)
      BY <2>2 DEF HighRank, min
    <3> DEFINE x == Nth(w, HighRank(Len(w)))
               med == median_rtt(w)
    <3>2. x \in Nat /\ med \in Nat /\ med # 0
      BY <1>1, <2>2, <3>1, NthExists
    <3>3. (x * 1000) \div med \in Nat
      <4> HIDE DEF x, med
      <4> DEFINE y == x * 1000
      <4>1. y \in Nat
        BY <3>2
      <4> HIDE DEF y
      <4>2. y \div med \in Nat
        BY <3>2, <4>1, Division
      <4> QED
        BY <4>2 DEF y
    <3> QED
      BY <2>2, <3>3 DEF jitter_ratio, max
  <2> QED
    BY <2>1, <2>2
<1>3. median_rtt(w) \div 2 \in Nat /\ max(Hops, 1) \in Nat /\ max(Hops, 1) # 0
  BY <1>1, CcAssumption DEF max
<1>4. (median_rtt(w) \div 2) \div max(Hops, 1) \in Nat
  BY <1>3, Division
<1> QED
  BY <1>1, <1>2, <1>4

\* Where a set of numbers up to k that contains k begins.
LEMMA Begins ==
  ASSUME NEW k \in Nat, NEW T \in SUBSET (0..k), k \in T
  PROVE  \E t \in T : t = 0 \/ (t \in 1..k /\ t - 1 \notin T)
<1>1. PICK t \in T : \A u \in T : t <= u
  <2>1. T \in SUBSET Nat /\ T # {}
    OBVIOUS
  <2> QED
    BY <2>1, LeastNat
<1>2. t \in 0..k /\ ~ (t <= t - 1)
  OBVIOUS
<1>3. t = 0 \/ (t \in 1..k /\ t - 1 \notin T)
  BY <1>1, <1>2
<1> QED
  BY <1>3

\* loss_time_threshold has its floor, whatever the number of hops: the root under it
\* exists.
LEMMA ThresholdFloor ==
  ASSUME NEW hops \in 1..max(Hops, 1)
  PROVE  loss_time_threshold[hops] \in Nat /\ loss_time_threshold[hops] >= 1500
<1>0. max(Hops, 1) \in Nat
  BY CcAssumption, SMT DEF max
<1> DEFINE n == 2 * hops
           K == 3100
           Over(t) == (t + 1) * (t + 1) * n > 9610000
           P(t) == t * t * n <= 9610000 /\ Over(t)
           T == {t \in 0..K : Over(t)}
           root == CHOOSE r \in 0..K : P(r)
<1>1. n \in Nat /\ n >= 1
  BY <1>0, SMT
<1>2. Over(K) /\ K \in Nat
  BY <1>1, SMT
<1>3. \A t \in 0..K : t = 0 \/ ~ Over(t - 1) => t * t * n <= 9610000
  BY <1>1, SMT
<1>4. loss_time_threshold[hops] = max(1000 + root, 1500)
  BY SMT DEF loss_time_threshold
<1> HIDE DEF K, Over
<1>5. PICK t \in T : t = 0 \/ (t \in 1..K /\ t - 1 \notin T)
  <2>1. T \in SUBSET (0..K) /\ K \in T
    BY <1>2
  <2> HIDE DEF T
  <2> QED
    BY <1>2, <2>1, Begins
<1>6. P(t) /\ t \in 0..K
  <2>1. t \in 0..K /\ Over(t)
    BY <1>5
  <2>2. t = 0 \/ ~ Over(t - 1)
    BY <1>2, <1>5
  <2> QED
    BY <1>3, <2>1, <2>2, SMT
<1>7. root \in 0..K
  <2> HIDE DEF P
  <2> QED
    BY <1>6
<1> HIDE DEF root
<1> QED
  BY <1>2, <1>4, <1>7 DEF max

\* What quicmix_transport_with_jitter builds.
SoundTransports ==
  {t \in [initial_rtt : Nat, time_threshold : Nat, idle : Nat, window : Nat] :
     t.window >= 2 * Mtu /\ t.time_threshold >= 1500 /\ t.idle >= max(30000, 40 * t.initial_rtt)}

\* quicmix_transport_with_jitter keeps its floors, whatever was measured.
LEMMA TransportFloors ==
  ASSUME NEW p, p.hops = max(Hops, 1), p.mean_hop_delay \in Nat, NEW jitter \in Nat
  PROVE  /\ quicmix_transport_with_jitter(p, jitter) \in SoundTransports
         /\ quicmix_transport_with_jitter(p, jitter).initial_rtt = rtt_of(p)
<1> DEFINE rtt == rtt_of(p)
           thr == IF jitter >= 1500 THEN jitter ELSE loss_time_threshold[p.hops]
           win == bdp_bytes(p)
<1>1. p.hops \in Nat /\ p.hops \in 1..max(Hops, 1)
  BY CcAssumption DEF max
<1>2. rtt \in Nat
  <2>1. p.mean_hop_delay * p.hops \in Nat
    BY <1>1
  <2> QED
    BY <2>1 DEF rtt_of
<1>3. thr \in Nat /\ thr >= 1500
  BY <1>1, ThresholdFloor
<1>4. win \in Nat /\ win >= 2 * Mtu
  <2>1. CASE SlotInterval = 0
    BY <2>1, CcAssumption DEF bdp_bytes
  <2>2. CASE SlotInterval # 0
    <3> HIDE DEF rtt
    <3>1. Mtu \in Nat /\ SlotInterval \in Nat /\ SlotInterval # 0
      BY <2>2, CcAssumption
    <3>2. Mtu * rtt \in Nat
      BY <1>2, <3>1
    <3>3. (Mtu * rtt) \div SlotInterval \in Nat
      BY <3>1, <3>2, Division
    <3> QED
      BY <2>2, <3>1, <3>3 DEF bdp_bytes, max, rtt
  <2> QED
    BY <2>1, <2>2
<1>5. quicmix_transport_with_jitter(p, jitter) =
        [initial_rtt |-> rtt, time_threshold |-> thr, idle |-> max(30000, rtt * 40), window |-> win]
  BY DEF quicmix_transport_with_jitter, tolerant
<1> HIDE DEF rtt, thr, win
<1>6. max(30000, rtt * 40) \in Nat /\ max(30000, rtt * 40) >= max(30000, 40 * rtt)
  BY <1>2 DEF max
<1>7. quicmix_transport_with_jitter(p, jitter) \in SoundTransports
  BY <1>2, <1>3, <1>4, <1>5, <1>6 DEF SoundTransports
<1> QED
  BY <1>5, <1>7 DEF rtt

-----------------------------------------------------------------------------
\* The invariant of MeasuredCc.
Rtts == {c.rtt : c \in Readings}
\* The window as it was when k samples had been seen.
WindowAt(k) == SubSeq(seen, max(1, k - MaxSamples + 1), k)
Mean(w) == (median_rtt(w) \div 2) \div max(Hops, 1)

EstimatorOK ==
  /\ seen \in Seq(Rtts) /\ rtts = WindowAt(Len(seen))
  /\ acks \in Nat \X Nat /\ acks[2] <= acks[1]
LocksOK ==
  /\ est \in Builders \cup {"free"} /\ last_l \in Builders \cup {"free"}
  /\ pc \in [Builders -> {"idle", "read", "unlock", "last", "log", "remember", "build"}]
\* What a builder has read is an estimate from the window of that moment.
ReadingOK ==
  /\ DOMAIN reading = Builders /\ at \in [Builders -> Nat]
  /\ \A b \in Builders : pc[b] \notin {"idle", "read"} =>
       /\ at[b] <= Len(seen)
       /\ reading[b][1].hops = max(Hops, 1)
       /\ reading[b][1].mean_hop_delay = Mean(WindowAt(at[b]))
       /\ reading[b][2] \in Nat
BuiltOK == built \in [Builders -> Seq(SoundTransports)]
CcSound == EstimatorOK /\ LocksOK /\ ReadingOK /\ BuiltOK

\* Sequences over a larger set.
LEMMA SeqMono ==
  ASSUME NEW S, NEW R, S \subseteq R, NEW s \in Seq(S)
  PROVE  s \in Seq(R)
<1>1. Len(s) \in Nat /\ s \in [1..Len(s) -> S]
  OBVIOUS
<1>2. s \in [1..Len(s) -> R]
  BY <1>1
<1> QED
  BY <1>1, <1>2

\* The end of a sequence, when an element is appended.
LEMMA EndMoves ==
  ASSUME NEW S, NEW s \in Seq(S), NEW x \in S, NEW m \in 1..(Len(s) + 1)
  PROVE  /\ Append(SubSeq(s, m, Len(s)), x) = SubSeq(Append(s, x), m, Len(s) + 1)
         /\ m <= Len(s) => Tail(SubSeq(s, m, Len(s))) = SubSeq(s, m + 1, Len(s))
<1>1. Append(SubSeq(s, m, Len(s)), x) = SubSeq(Append(s, x), m, Len(s) + 1)
  OBVIOUS
<1>2. ASSUME m <= Len(s) PROVE Tail(SubSeq(s, m, Len(s))) = SubSeq(s, m + 1, Len(s))
  BY <1>2
<1> QED
  BY <1>1, <1>2

\* The window of any moment is a sequence of at most MaxSamples samples.
LEMMA WindowTypes ==
  ASSUME seen \in Seq(Rtts), NEW k \in 0..Len(seen)
  PROVE  /\ WindowAt(k) \in Seq(Rtts) /\ Len(WindowAt(k)) <= MaxSamples
         /\ WindowAt(k) \in Seq(Nat)
<1> DEFINE m == max(1, k - MaxSamples + 1)
<1>1. m \in 1..(k + 1) /\ m >= k - MaxSamples + 1 /\ k \in Nat /\ MaxSamples \in Nat
  BY CcAssumption DEF max
<1> HIDE DEF m
<1>2. Rtts \subseteq Nat
  BY ReadingsAssumption DEF Rtts
<1>3. /\ SubSeq(seen, m, k) \in Seq(Rtts) /\ Len(SubSeq(seen, m, k)) = k - m + 1
  BY <1>1
<1>4. SubSeq(seen, m, k) \in Seq(Nat)
  BY <1>2, <1>3, SeqMono
<1> QED
  BY <1>1, <1>3, <1>4 DEF WindowAt, m

\* A sample that is seen later does not change the windows of earlier moments.
LEMMA WindowStays ==
  ASSUME seen \in Seq(Rtts), NEW x \in Rtts, seen' = Append(seen, x), NEW k \in 0..Len(seen)
  PROVE  WindowAt(k)' = WindowAt(k)
<1> DEFINE m == max(1, k - MaxSamples + 1)
<1>1. m \in 1..(k + 1) /\ k \in Nat
  BY CcAssumption DEF max
<1> HIDE DEF m
<1>2. SubSeq(Append(seen, x), m, k) = SubSeq(seen, m, k)
  BY <1>1
<1> QED
  BY <1>2 DEF WindowAt, m

\* record_rtt moves the window by one.
LEMMA WindowMoves ==
  ASSUME EstimatorOK, NEW x \in Rtts, seen' = Append(seen, x), rtts' = record_rtt(rtts, x)
  PROVE  rtts' = WindowAt(Len(seen))'
<1> DEFINE k == Len(seen)
           m == max(1, k - MaxSamples + 1)
           M == max(1, k + 1 - MaxSamples + 1)
<1>1. /\ k \in Nat /\ m \in 1..(k + 1) /\ M \in 1..(k + 1)
      /\ M = IF k >= MaxSamples THEN m + 1 ELSE m
      /\ k - m + 1 >= MaxSamples <=> k >= MaxSamples
      /\ k >= MaxSamples => m <= k
  BY CcAssumption DEF EstimatorOK, max
<1>2. seen \in Seq(Rtts) /\ rtts = SubSeq(seen, m, k) /\ Len(seen') = k + 1
  BY DEF EstimatorOK, WindowAt
<1>3. WindowAt(Len(seen))' = SubSeq(Append(seen, x), M, k + 1)
  <2>1. WindowAt(Len(seen))' = SubSeq(seen', max(1, Len(seen') - MaxSamples + 1), Len(seen'))
    BY DEF WindowAt
  <2>2. max(1, Len(seen') - MaxSamples + 1) = M
    BY <1>1, <1>2, CcAssumption DEF max
  <2> QED
    BY <1>2, <2>1, <2>2, Zenon
<1> HIDE DEF m, M
<1>4. Len(rtts) = k - m + 1
  BY <1>1, <1>2
<1>5. CASE k >= MaxSamples
  <2>1. rtts' = Append(Tail(SubSeq(seen, m, k)), x)
    BY <1>1, <1>2, <1>4, <1>5 DEF record_rtt
  <2>2. Append(Tail(SubSeq(seen, m, k)), x) = SubSeq(Append(seen, x), m + 1, k + 1)
    BY <1>1, <1>2, <1>5, EndMoves
  <2> QED
    BY <1>1, <1>3, <1>5, <2>1, <2>2
<1>6. CASE ~ (k >= MaxSamples)
  <2>1. rtts' = Append(SubSeq(seen, m, k), x)
    BY <1>1, <1>2, <1>4, <1>6 DEF record_rtt
  <2>2. Append(SubSeq(seen, m, k), x) = SubSeq(Append(seen, x), m, k + 1)
    BY <1>1, <1>2, EndMoves
  <2> QED
    BY <1>1, <1>3, <1>6, <2>1, <2>2
<1> QED
  BY <1>5, <1>6

\* Nothing is seen at first, and nobody builds.
LEMMA CcInitSound == CcInit => CcSound
<1> SUFFICES ASSUME CcInit PROVE CcSound
  OBVIOUS
<1>1. EstimatorOK
  <2>1. SubSeq(<<>>, max(1, 0 - MaxSamples + 1), 0) = <<>>
    BY CcAssumption DEF max
  <2>2. seen = <<>> /\ Len(seen) = 0 /\ rtts = <<>> /\ acks = <<0, 0>>
    BY DEF CcInit
  <2>3. WindowAt(Len(seen)) = <<>>
    BY <2>1, <2>2 DEF WindowAt
  <2> QED
    BY <2>2, <2>3 DEF EstimatorOK
<1>2. LocksOK /\ ReadingOK /\ BuiltOK
  BY DEF CcInit, LocksOK, ReadingOK, BuiltOK
<1> QED
  BY <1>1, <1>2 DEF CcSound

\* A connection is observed.
LEMMA ObserveSound ==
  ASSUME CcSound, NEW conn \in Readings, observe(conn)
  PROVE  CcSound'
<1> USE DEF CcSound
<1>1. conn.rtt \in Rtts /\ seen \in Seq(Rtts) /\ seen' = Append(seen, conn.rtt)
  BY DEF Rtts, EstimatorOK, observe
<1>2. EstimatorOK'
  <2>1. seen' \in Seq(Rtts)
    BY <1>1
  <2>2. rtts' = WindowAt(Len(seen))'
    BY <1>1, WindowMoves DEF observe
  <2>3. acks' \in Nat \X Nat /\ acks'[2] <= acks'[1]
    BY ReadingsAssumption DEF observe, record_acks
  <2> QED
    BY <2>1, <2>2, <2>3 DEF EstimatorOK
<1>3. ReadingOK'
  <2>1. \A k \in 0..Len(seen) : WindowAt(k)' = WindowAt(k)
    BY <1>1, WindowStays
  <2>2. Len(seen') = Len(seen) + 1 /\ Len(seen) \in Nat
    BY <1>1
  <2>3. \A b \in Builders : pc[b] \notin {"idle", "read"} => at[b] \in 0..Len(seen)
    BY <2>2 DEF ReadingOK
  <2>4. \A b \in Builders : pc[b] \notin {"idle", "read"} => WindowAt(at[b])' = WindowAt(at[b])
    <3> SUFFICES ASSUME NEW b \in Builders, pc[b] \notin {"idle", "read"}
                 PROVE  WindowAt(at[b])' = WindowAt(at[b])
      OBVIOUS
    <3>1. SubSeq(seen', max(1, at[b] - MaxSamples + 1), at[b]) = WindowAt(at[b])
      BY <2>1, <2>3 DEF WindowAt
    <3> QED
      BY <3>1 DEF WindowAt, observe
  <2> QED
    BY <2>2, <2>3, <2>4 DEF ReadingOK, observe, Mean
<1>4. LocksOK' /\ BuiltOK'
  BY DEF LocksOK, BuiltOK, observe
<1> QED
  BY <1>2, <1>3, <1>4

\* A builder reads under the lock.
LEMMA LockSound ==
  ASSUME CcSound, NEW b \in Builders, Lock(b)
  PROVE  CcSound'
<1> USE DEF CcSound
<1>1. EstimatorOK' /\ LocksOK' /\ BuiltOK'
  BY DEF EstimatorOK, LocksOK, BuiltOK, Lock, Goto, shared, WindowAt
<1>2. ReadingOK'
  <2>1. Len(seen) \in 0..Len(seen) /\ Len(seen) \in Nat
    BY DEF EstimatorOK
  <2>2. rtts \in Seq(Nat)
    BY <2>1, WindowTypes DEF EstimatorOK
  <2>3. jitter_ratio(rtts) \in Nat
    BY <2>2, EstimateTypes
  <2>4. Params(rtts, acks).hops = max(Hops, 1) /\ Params(rtts, acks).mean_hop_delay = Mean(rtts)
    BY DEF Params, Mean
  <2>5. /\ reading'[b][1] = Params(rtts, acks) /\ reading'[b][2] = jitter_ratio(rtts)
        /\ at'[b] = Len(seen) /\ \A c \in Builders \ {b} : reading'[c] = reading[c] /\ at'[c] = at[c]
        /\ DOMAIN reading' = Builders /\ at' \in [Builders -> Nat]
        /\ \A c \in Builders \ {b} : pc'[c] = pc[c]
    BY <2>1 DEF Lock, ReadingOK, Goto, LocksOK
  <2>6. seen' = seen /\ \A k : WindowAt(k)' = WindowAt(k)
    BY DEF Lock, shared, WindowAt
  <2>7. rtts = WindowAt(at'[b])
    BY <2>5 DEF EstimatorOK
  <2>8. /\ reading'[b][1].hops = max(Hops, 1) /\ reading'[b][2] \in Nat
        /\ reading'[b][1].mean_hop_delay = Mean(WindowAt(at'[b]))
    BY <2>3, <2>4, <2>5, <2>7
  <2> QED
    BY <2>1, <2>5, <2>6, <2>8 DEF ReadingOK, Mean, WindowAt
<1> QED
  BY <1>1, <1>2

\* The steps of a builder that neither read nor build.
LEMMA BetweenSound ==
  ASSUME CcSound, NEW b \in Builders, 
         Call(b) \/ Unlock(b) \/ LockLast(b) \/ Samples(b) \/ Remember(b)
  PROVE  CcSound'
<1> USE DEF CcSound
<1>1. /\ seen' = seen /\ rtts' = rtts /\ acks' = acks /\ reading' = reading
      /\ built' = built /\ at' = at
      /\ \A c \in Builders : pc'[c] \notin {"idle", "read"} => pc[c] \notin {"idle", "read"}
  BY DEF Call, Unlock, LockLast, Samples, Remember, Goto, shared, LocksOK
<1>2. EstimatorOK' /\ ReadingOK' /\ BuiltOK'
  BY <1>1 DEF EstimatorOK, ReadingOK, BuiltOK, WindowAt, Mean
<1>3. LocksOK'
  BY DEF Call, Unlock, LockLast, Samples, Remember, Goto, LocksOK, Release
<1> QED
  BY <1>2, <1>3

\* The transport is built.
LEMMA BuildSound ==
  ASSUME CcSound, NEW b \in Builders, Build(b)
  PROVE  /\ CcSound'
         /\ BuildFrom(b).initial_rtt = rtt_of(reading[b][1])
<1> USE DEF CcSound
<1>1. /\ reading[b][1].hops = max(Hops, 1) /\ reading[b][2] \in Nat
      /\ reading[b][1].mean_hop_delay = Mean(WindowAt(at[b])) /\ at[b] \in 0..Len(seen)
  BY DEF Build, ReadingOK, EstimatorOK
<1>2. reading[b][1].mean_hop_delay \in Nat
  <2>1. WindowAt(at[b]) \in Seq(Nat)
    BY <1>1, WindowTypes DEF EstimatorOK
  <2> QED
    BY <1>1, <2>1, EstimateTypes DEF Mean
<1>3. BuildFrom(b) \in SoundTransports /\ BuildFrom(b).initial_rtt = rtt_of(reading[b][1])
  BY <1>1, <1>2, TransportFloors DEF BuildFrom
<1>4. BuiltOK'
  <2>1. Append(built[b], BuildFrom(b)) \in Seq(SoundTransports)
    BY <1>3 DEF BuiltOK
  <2> QED
    BY <2>1 DEF BuiltOK, Build
<1>5. EstimatorOK' /\ LocksOK'
  BY DEF EstimatorOK, LocksOK, Build, Goto, shared, WindowAt
<1>6. ReadingOK'
  <2>1. /\ \A c \in Builders \ {b} : reading'[c] = reading[c] /\ at'[c] = at[c] /\ pc'[c] = pc[c]
        /\ pc'[b] = "idle" /\ DOMAIN reading' = Builders /\ at' \in [Builders -> Nat]
        /\ seen' = seen
    BY DEF Build, Goto, shared, ReadingOK, LocksOK
  <2> QED
    BY <2>1 DEF ReadingOK, WindowAt, Mean
<1> QED
  BY <1>3, <1>4, <1>5, <1>6

\* Every step of the estimator and of the builders keeps the invariant.
LEMMA CcStep ==
  ASSUME CcSound, [CcNext]_ccVars
  PROVE  CcSound'
<1>1. CASE \E conn \in Readings : observe(conn)
  BY <1>1, ObserveSound
<1>2. CASE \E b \in Builders : Builder(b)
  BY <1>2, LockSound, BetweenSound, BuildSound DEF Builder
<1>3. CASE UNCHANGED ccVars
  BY <1>3
  DEF ccVars, shared, CcSound, EstimatorOK, LocksOK, ReadingOK, BuiltOK, WindowAt, Mean
<1> QED
  BY <1>1, <1>2, <1>3 DEF CcNext

\* The percentiles of a window.
LEMMA PercentilesOrdered ==
  ASSUME NEW w \in Seq(Nat)
  PROVE  LET p == rtt_percentiles(w)
         IN p[1] <= p[2] /\ p[2] <= p[3] /\ p[1] = median_rtt(w)
<1>1. CASE w = <<>>
  BY <1>1 DEF rtt_percentiles, median_rtt
<1>2. CASE w # <<>>
  <2> DEFINE n == Len(w)
  <2>1. n \in Nat /\ n >= 1
    BY <1>2
  <2>2. /\ Rank(n, 50) = n \div 2
        /\ Rank(n, 50) \in 0..Rank(n, 90) /\ Rank(n, 90) \in 0..Rank(n, 99)
        /\ Rank(n, 99) \in 0..(n - 1) /\ Rank(n, 90) \in 0..(n - 1)
    BY <2>1 DEF Rank
  <2>3. /\ rtt_percentiles(w)[1] = Nth(w, Rank(n, 50))
        /\ rtt_percentiles(w)[2] = Nth(w, Rank(n, 90))
        /\ rtt_percentiles(w)[3] = Nth(w, Rank(n, 99))
    BY <1>2 DEF rtt_percentiles
  <2>4. Nth(w, Rank(n, 50)) <= Nth(w, Rank(n, 90)) /\ Nth(w, Rank(n, 90)) <= Nth(w, Rank(n, 99))
    BY <2>2, NthMonotone
  <2>5. median_rtt(w) = Nth(w, n \div 2)
    BY <1>2 DEF median_rtt
  <2> QED
    BY <2>2, <2>3, <2>4, <2>5
<1> QED
  BY <1>1, <1>2

\* jitter_ratio covers the slowest sample of a window.
LEMMA JitterCovers ==
  ASSUME NEW w \in Seq(Nat), Len(w) \in 2..MaxSamples, median_rtt(w) > 0, NEW i \in DOMAIN w
  PROVE  jitter_ratio(w) * median_rtt(w) > 1000 * w[i] - median_rtt(w)
<1> DEFINE n == Len(w)
           med == median_rtt(w)
           top == Nth(w, n - 1)
           jit == jitter_ratio(w)
           y == top * 1000
           q == y \div med
<1>1. n \in Nat /\ 2 <= n /\ n <= 1000 /\ n - 1 \in 0..(n - 1)
  BY CcAssumption
<1>2. HighRank(n) = n - 1 /\ w # <<>>
  BY <1>1 DEF HighRank, min
<1>3. med \in Nat /\ med # 0 /\ top \in Nat /\ jit \in Nat
  <2>1. top \in Nat
    BY <1>1, NthExists
  <2>2. med \in Nat /\ jit \in Nat
    BY EstimateTypes
  <2> QED
    BY <2>1, <2>2
<1>4. w[i] <= top /\ w[i] \in Nat
  BY <1>2, NthLast
<1>5. jit = max(q, 1500)
  BY <1>1, <1>2, <1>3 DEF jitter_ratio
<1> HIDE DEF med, top, jit, n
<1>6. y \in Nat
  BY <1>3
<1> HIDE DEF y
<1>7. q \in Nat /\ q * med > y - med
  BY <1>3, <1>6, Division
<1> HIDE DEF q
<1>8. jit >= q
  BY <1>5, <1>7 DEF max
<1>9. jit * med >= q * med /\ jit * med \in Nat /\ q * med \in Nat
  BY <1>3, <1>7, <1>8
<1>10. jit * med > 1000 * top - med
  BY <1>3, <1>6, <1>7, <1>9 DEF y
<1> DEFINE z == jit * med
<1>11. z \in Nat /\ z > 1000 * top - med
  BY <1>9, <1>10
<1> HIDE DEF z
<1>12. z > 1000 * w[i] - med
  BY <1>3, <1>4, <1>11
<1> QED
  BY <1>12 DEF jit, med, z

\* The invariant of the estimator and its builders.
THEOREM CcInvariant == CcSpec => []CcSound
<1> QED
  BY CcInitSound, CcStep, PTL DEF CcSpec

\* OracleEstimator and the transports that are built from it: the window holds the
\* newest samples, the percentiles are ordered and agree with the median, the
\* measured threshold covers the slowest sample of the window, and every transport
\* has its floors, for every set of readings, any number of builders and any window
\* of up to 1000 samples (256 in the code).
THEOREM EstimatorIsSound == CcSpec => []EstimateSound
<1>1. CcSound => EstimateSound
  <2> SUFFICES ASSUME CcSound PROVE EstimateSound
    OBVIOUS
  <2> USE DEF CcSound
  <2>1. Len(seen) \in 0..Len(seen) /\ seen \in Seq(Rtts)
    BY DEF EstimatorOK
  <2>2. rtts \in Seq(Rtts) /\ rtts \in Seq(Nat) /\ Len(rtts) <= MaxSamples /\ Len(rtts) \in Nat
    BY <2>1, WindowTypes DEF EstimatorOK
  <2>3. Params(rtts, acks).drop_prob \in 0..1000
    <3> DEFINE a == acks[1]
               l == acks[2]
    <3>1. a \in Nat /\ l \in Nat /\ l <= a
      BY DEF EstimatorOK
    <3>2. Params(rtts, acks).drop_prob = IF a > 0 THEN (l * 1000) \div a ELSE 0
      BY DEF Params
    <3> HIDE DEF a, l
    <3>3. CASE a > 0
      <4> DEFINE y == l * 1000
                 d == y \div a
      <4>1. y \in Nat /\ a \in Nat /\ a # 0
        BY <3>1, <3>3
      <4> HIDE DEF y
      <4>2. d \in Nat /\ d * a <= y
        BY <4>1, Division
      <4> HIDE DEF d
      <4>3. d * a <= 1000 * a
        BY <3>1, <4>1, <4>2 DEF y
      <4>4. d <= 1000
        BY <4>1, <4>2, <4>3
      <4> QED
        BY <3>2, <3>3, <4>2, <4>4 DEF d, y
    <3> QED
      BY <3>1, <3>2, <3>3
  <2>4. CcTypeOK
    BY <2>2, <2>3 DEF CcTypeOK, LocksOK, Rtts
  <2>5. RecentWindow
    BY DEF RecentWindow, EstimatorOK, WindowAt
  <2>6. PercentilesAgree
    BY <2>2, PercentilesOrdered DEF PercentilesAgree
  <2>7. SlowestTolerated
    BY <2>2, JitterCovers, CcAssumption DEF SlowestTolerated
  <2>8. TransportSound
    <3> SUFFICES ASSUME NEW b \in Builders, NEW i \in DOMAIN built[b]
                 PROVE  LET t == built[b][i]
                        IN /\ t.window >= 2 * Mtu /\ t.time_threshold >= 1500
                           /\ t.idle >= max(30000, 40 * t.initial_rtt)
      BY DEF TransportSound
    <3>1. built[b][i] \in SoundTransports
      BY DEF BuiltOK
    <3> QED
      BY <3>1 DEF SoundTransports
  <2> QED
    BY <2>4, <2>5, <2>6, <2>7, <2>8 DEF EstimateSound
<1> QED
  BY <1>1, CcInvariant, PTL

\* MeasuredCc::transport: what a call returns reflects the window of a moment of the
\* call itself, whatever the other builders read, remember or build meanwhile.
THEOREM TransportIsFresh == CcSpec => FreshTransport
<1> DEFINE A(b) ==
      pc[b] = "build" /\ pc'[b] = "idle" =>
        built'[b][Len(built'[b])].initial_rtt =
          rtt_of(Params(SubSeq(seen, max(1, at[b] - MaxSamples + 1), at[b]), <<0, 0>>))
<1>1. ASSUME CcSound, CcNext, NEW b \in Builders PROVE A(b)
  <2> SUFFICES ASSUME pc[b] = "build", pc'[b] = "idle"
               PROVE  built'[b][Len(built'[b])].initial_rtt = rtt_of(Params(WindowAt(at[b]), <<0, 0>>))
    BY DEF WindowAt
  <2>1. pc \in [Builders -> {"idle", "read", "unlock", "last", "log", "remember", "build"}]
    BY <1>1 DEF CcSound, LocksOK
  <2>2. Build(b)
    BY <1>1, <2>1
    DEF CcNext, observe, Builder, Call, Lock, Unlock, LockLast, Samples, Remember, Build, Goto
  <2>3. BuildFrom(b).initial_rtt = rtt_of(reading[b][1])
    BY <1>1, <2>2, BuildSound
  <2>4. built[b] \in Seq(SoundTransports) /\ built'[b] = Append(built[b], BuildFrom(b))
    BY <1>1, <2>2 DEF CcSound, BuiltOK, Build
  <2>5. built'[b][Len(built'[b])] = BuildFrom(b)
    BY <2>4
  <2>6. reading[b][1].hops = max(Hops, 1) /\ reading[b][1].mean_hop_delay = Mean(WindowAt(at[b]))
    BY <1>1 DEF CcSound, ReadingOK
  <2>7. rtt_of(reading[b][1]) = rtt_of(Params(WindowAt(at[b]), <<0, 0>>))
    BY <2>6 DEF rtt_of, Params, Mean
  <2> QED
    BY <2>3, <2>5, <2>7
<1>2. ASSUME CcSound, [CcNext]_ccVars PROVE [\A b \in Builders : A(b)]_ccVars
  BY <1>1, <1>2
<1>3. CcSpec => [][\A b \in Builders : A(b)]_ccVars
  <2> HIDE DEF A
  <2> QED
    BY <1>2, CcInvariant, PTL DEF CcSpec
<1> QED
  BY <1>3 DEF FreshTransport

-----------------------------------------------------------------------------
N == Len(Peers)

\* The most that can have passed since the refresh task was done with peer i.
SinceAt(x, t, i) ==
  IF x = 0 THEN (N - i) * FetchMax + (Pause - t)
  ELSE IF i < x THEN (x - 1 - i) * FetchMax + t
  ELSE (N - i) * FetchMax + Pause + (x - 1) * FetchMax + t
Since(i) == SinceAt(idx, timer, i)

\* The refresh task's own part of TypeOK.
TaskOK ==
  /\ idx \in 0..N /\ got \in Certs \cup {None}
  /\ timer \in 0..(IF idx = 0 THEN Pause ELSE FetchMax)
  /\ got # None => idx # 0 /\ Peers[idx] # Self

Aged ==
  \A i \in 1..N : Peers[i] \in steady =>
    dir[Peers[i]] # None /\ dir[Peers[i]].age <= Since(i)

\* A steady gateway was announced by the refresh task, so it is one of Peers.
Refreshed == \A g \in steady : g # Self /\ \E i \in 1..N : Peers[i] = g

DirOK == dir \in [Gateways -> Entry \cup {None}]

Fresh == DirOK /\ TaskOK /\ Aged /\ Refreshed

-----------------------------------------------------------------------------
LEMMA Sizes ==
  /\ N \in Nat /\ Pause \in Nat /\ FetchMax \in Nat /\ Ttl \in Nat \ {0}
  /\ \A i \in 1..N : Peers[i] \in Gateways
  /\ None \notin Entry /\ None \notin Certs
<1>1. N \in Nat /\ \A i \in 1..N : Peers[i] \in Gateways
  BY AutopilotAssumption DEF N
<1>2. Pause \in Nat
  BY AutopilotAssumption DEF Pause
<1>3. None \notin Entry /\ None \notin Certs
  BY AutopilotAssumption DEF Entry, Certs
<1> QED
  BY <1>1, <1>2, <1>3, AutopilotAssumption

\* Multiplication by the fetch timeout is monotone.
LEMMA TimesMono ==
  ASSUME NEW f \in Nat, NEW a \in Int, NEW b \in Int, a <= b
  PROVE  a * f <= b * f
<1>1. b - a \in Nat
  OBVIOUS
<1>2. (b - a) * f \in Nat
  BY <1>1
<1>3. b * f = a * f + (b - a) * f
  OBVIOUS
<1> QED
  BY <1>2, <1>3

\* If a round fits, nothing in the list is as old as the ttl.
LEMMA SinceBound ==
  ASSUME RoundFits, TaskOK, NEW i \in 1..N
  PROVE  Since(i) \in Int /\ Since(i) < Ttl
<1>1. /\ N \in Nat /\ Pause \in Nat /\ FetchMax \in Nat /\ Ttl \in Nat
      /\ idx \in Int /\ timer \in Int /\ i \in Int
      /\ Pause + N * FetchMax < Ttl
  BY Sizes DEF RoundFits, N, TaskOK
<1>2. CASE idx = 0
  <2>1. (N - i) * FetchMax <= N * FetchMax /\ (N - i) * FetchMax \in Int
    BY <1>1, TimesMono
  <2>2. 0 <= timer
    BY <1>2 DEF TaskOK
  <2> QED
    BY <1>1, <1>2, <2>1, <2>2 DEF Since, SinceAt
<1>3. CASE idx # 0 /\ i < idx
  <2>1. idx - i <= N /\ timer <= FetchMax
    BY <1>1, <1>3 DEF TaskOK
  <2>2. (idx - i) * FetchMax <= N * FetchMax
    BY <1>1, <2>1, TimesMono
  <2>3. (idx - 1 - i) * FetchMax = (idx - i) * FetchMax - FetchMax
    BY <1>1
  <2>4. (idx - i) * FetchMax \in Int
    BY <1>1
  <2> QED
    BY <1>1, <1>3, <2>1, <2>2, <2>3, <2>4 DEF Since, SinceAt
<1>4. CASE idx # 0 /\ ~(i < idx)
  <2>1. idx - i <= 0 /\ timer <= FetchMax
    BY <1>1, <1>4 DEF TaskOK
  <2>2. (N - i) * FetchMax + (idx - 1) * FetchMax = (N + (idx - i)) * FetchMax - FetchMax
    BY <1>1
  <2>3. (N + (idx - i)) * FetchMax <= N * FetchMax
    BY <1>1, <2>1, TimesMono
  <2>4. /\ (N - i) * FetchMax \in Int /\ (idx - 1) * FetchMax \in Int
        /\ (N + (idx - i)) * FetchMax \in Int
    BY <1>1
  <2> QED
    BY <1>1, <1>4, <2>1, <2>2, <2>3, <2>4 DEF Since, SinceAt
<1> QED
  BY <1>2, <1>3, <1>4

\* Hence nothing that Aged speaks of is pruned or unlisted.
LEMMA FreshIsLive ==
  ASSUME RoundFits, Fresh
  PROVE  \A g \in steady : g \in Live
<1> SUFFICES ASSUME NEW g \in steady PROVE g \in Live
  OBVIOUS
<1>1. PICK i \in 1..N : Peers[i] = g
  BY DEF Fresh, Refreshed
<1>2. dir[g] # None /\ dir[g].age <= Since(i)
  BY <1>1 DEF Fresh, Aged
<1>3. g \in Gateways /\ dir[g] \in Entry
  BY <1>1, <1>2, Sizes DEF Fresh, DirOK
<1>4. Since(i) \in Int /\ Since(i) < Ttl
  BY SinceBound DEF Fresh
<1>5. dir[g].age \in Int /\ Ttl \in Int
  BY <1>3, Sizes DEF Entry
<1> QED
  BY <1>2, <1>3, <1>4, <1>5 DEF Live

LEMMA SinceNat ==
  ASSUME NEW x \in 0..N, NEW t \in 0..(IF x = 0 THEN Pause ELSE FetchMax), NEW i \in 1..N
  PROVE  SinceAt(x, t, i) \in Nat
<1>1. N \in Nat /\ Pause \in Nat /\ FetchMax \in Nat /\ t \in Nat
  BY Sizes
<1>2. (N - i) * FetchMax \in Nat
  BY <1>1
<1>3. CASE x = 0
  BY <1>1, <1>2, <1>3 DEF SinceAt
<1>4. CASE x # 0 /\ i < x
  <2>1. x - 1 - i \in Nat
    BY <1>1, <1>4
  <2>2. (x - 1 - i) * FetchMax \in Nat
    BY <1>1, <2>1
  <2> QED
    BY <1>1, <1>4, <2>2 DEF SinceAt
<1>5. CASE x # 0 /\ ~(i < x)
  <2>1. x - 1 \in Nat
    BY <1>5
  <2>2. (x - 1) * FetchMax \in Nat
    BY <1>1, <2>1
  <2> QED
    BY <1>1, <1>2, <1>5, <2>2 DEF SinceAt
<1> QED
  BY <1>3, <1>4, <1>5

\* The task moves on to the next peer: for every other peer no time is lost.
LEMMA MovesOn ==
  ASSUME TaskOK, idx # 0, NextPeer
  PROVE  /\ TaskOK'
         /\ \A i \in 1..N : i # idx => Since(i) <= Since(i)'
<1>1. /\ N \in Nat /\ Pause \in Nat /\ FetchMax \in Nat /\ Len(Peers) = N
      /\ idx \in 1..N /\ timer \in 0..FetchMax
  BY Sizes DEF TaskOK, N
<1>2. TaskOK'
  <2>1. CASE idx = N
    BY <1>1, <2>1 DEF TaskOK, NextPeer
  <2>2. CASE idx # N
    BY <1>1, <2>2 DEF TaskOK, NextPeer
  <2> QED
    BY <2>1, <2>2
<1>3. ASSUME NEW i \in 1..N, i # idx
      PROVE  Since(i) <= Since(i)'
  <2>1. /\ (idx - 1 - i) * FetchMax = (idx - i) * FetchMax - FetchMax
        /\ (idx - 1) * FetchMax = idx * FetchMax - FetchMax
        /\ (idx - i) * FetchMax \in Int /\ idx * FetchMax \in Int
        /\ (N - i) * FetchMax \in Int
    BY <1>1
  <2>2. CASE idx = N
    <3>1. idx' = 0 /\ timer' = Pause
      BY <1>1, <2>2 DEF NextPeer
    <3>2. Since(i)' = (N - i) * FetchMax
      BY <1>1, <2>1, <3>1 DEF Since, SinceAt
    <3>3. Since(i) = (idx - 1 - i) * FetchMax + timer
      BY <1>1, <1>3, <2>2 DEF Since, SinceAt
    <3> QED
      BY <1>1, <2>1, <2>2, <3>2, <3>3
  <2>3. CASE idx # N
    <3>1. idx' = idx + 1 /\ timer' = 0
      BY <1>1, <2>3 DEF NextPeer
    <3>2. CASE i < idx
      <4>1. Since(i)' = (idx - i) * FetchMax
        BY <1>1, <2>1, <3>1, <3>2 DEF Since, SinceAt
      <4>2. Since(i) = (idx - 1 - i) * FetchMax + timer
        BY <1>1, <3>2 DEF Since, SinceAt
      <4> QED
        BY <1>1, <2>1, <4>1, <4>2
    <3>3. CASE idx < i
      <4>1. Since(i)' = (N - i) * FetchMax + Pause + idx * FetchMax
        BY <1>1, <2>1, <3>1, <3>3 DEF Since, SinceAt
      <4>2. Since(i) = (N - i) * FetchMax + Pause + (idx - 1) * FetchMax + timer
        BY <1>1, <3>3 DEF Since, SinceAt
      <4> QED
        BY <1>1, <2>1, <4>1, <4>2
    <3> QED
      BY <1>1, <1>3, <3>2, <3>3
  <2> QED
    BY <2>2, <2>3
<1> QED
  BY <1>2, <1>3

-----------------------------------------------------------------------------
LEMMA InitFresh ==
  ASSUME Init
  PROVE  Fresh
<1>1. DirOK
  <2>1. [cert |-> "current", age |-> 0] \in Entry
    BY Sizes DEF Entry, Certs
  <2> QED
    BY <2>1 DEF Init, DirOK, Certs
<1>2. TaskOK
  <2>1. CASE Peers = <<>>
    BY <2>1, Sizes DEF Init, TaskOK, N
  <2>2. CASE Peers # <<>>
    <3>1. N # 0
      BY <2>2, AutopilotAssumption DEF N
    <3> QED
      BY <2>2, <3>1, Sizes DEF Init, TaskOK, N
  <2> QED
    BY <2>1, <2>2
<1> QED
  BY <1>1, <1>2 DEF Init, Fresh, Aged, Refreshed

\* An entry that does not change stays within its bound if the bound grows.
LEMMA AgedKept ==
  ASSUME DirOK, TaskOK, TaskOK', Aged,
         \A i \in 1..N : Peers[i] \in steady' =>
           /\ Peers[i] \in steady
           /\ dir'[Peers[i]] = dir[Peers[i]]
           /\ Since(i) <= Since(i)'
  PROVE  Aged'
<1> SUFFICES ASSUME NEW i \in 1..N, Peers[i] \in steady'
             PROVE  dir'[Peers[i]] # None /\ dir'[Peers[i]].age <= Since(i)'
  BY DEF Aged
<1>1. dir[Peers[i]] # None /\ dir[Peers[i]].age <= Since(i) /\ Since(i) <= Since(i)'
  BY DEF Aged
<1>2. dir[Peers[i]] \in Entry
  BY <1>1, Sizes DEF DirOK
<1>3. dir[Peers[i]].age \in Int
  BY <1>2, Sizes DEF Entry
<1>4. Since(i) \in Nat /\ Since(i)' \in Nat
  BY SinceNat DEF Since, TaskOK
<1> QED
  BY <1>1, <1>3, <1>4

LEMMA RefreshFresh ==
  ASSUME Fresh, Refresh
  PROVE  Fresh'
<1> USE DEF Fresh
<1>1. CASE SkipSelf
  <2>1. idx # 0 /\ Peers[idx] = Self /\ NextPeer /\ UNCHANGED <<dir, steady>>
    BY <1>1 DEF SkipSelf
  <2>2. TaskOK' /\ \A i \in 1..N : i # idx => Since(i) <= Since(i)'
    BY <2>1, MovesOn
  <2>3. Peers[idx] \notin steady
    BY <2>1 DEF Refreshed
  <2>4. Aged'
    BY <2>1, <2>2, <2>3, AgedKept
  <2> QED
    BY <2>1, <2>2, <2>4 DEF DirOK, Refreshed
<1>2. CASE FetchReply
  <2>1. /\ idx # 0 /\ Peers[idx] # Self /\ got' \in Certs
        /\ UNCHANGED <<dir, idx, timer, steady>>
    BY <1>2 DEF FetchReply, Certs
  <2>2. TaskOK'
    BY <2>1 DEF TaskOK
  <2> QED
    BY <2>1, <2>2 DEF DirOK, Aged, Refreshed, Since
<1>3. CASE FetchOk
  <2> DEFINE p == Peers[idx]
  <2>1. /\ idx # 0 /\ got # None /\ dir' = Announce(p, got) /\ NextPeer
        /\ steady' \subseteq steady \cup {p}
    BY <1>3 DEF FetchOk
  <2>2. TaskOK' /\ \A i \in 1..N : i # idx => Since(i) <= Since(i)'
    BY <2>1, MovesOn
  <2>3. idx \in 1..N /\ p \in Gateways /\ p # Self /\ got \in Certs
    BY <2>1, Sizes DEF TaskOK
  <2>4. [cert |-> got, age |-> 0] \in Entry
    BY <2>3, Sizes DEF Entry
  <2>5. /\ dir'[p] = [cert |-> got, age |-> 0]
        /\ \A g \in Gateways : g # p => dir'[g] = dir[g]
        /\ dir' \in [Gateways -> Entry \cup {None}]
    BY <2>1, <2>3, <2>4 DEF DirOK, Announce
  <2> HIDE DEF p
  <2>6. Aged'
    <3> SUFFICES ASSUME NEW i \in 1..N, Peers[i] \in steady'
                 PROVE  dir'[Peers[i]] # None /\ dir'[Peers[i]].age <= Since(i)'
      BY DEF Aged
    <3>1. Since(i) \in Nat /\ Since(i)' \in Nat
      BY <2>2, SinceNat DEF Since, TaskOK
    <3>2. CASE Peers[i] = p
      BY <2>4, <2>5, <3>1, <3>2, Sizes
    <3>3. CASE Peers[i] # p
      <4>1. Peers[i] \in steady /\ dir'[Peers[i]] = dir[Peers[i]] /\ i # idx
        BY <2>1, <2>5, <3>3, Sizes DEF p
      <4>2. dir[Peers[i]] # None /\ dir[Peers[i]].age <= Since(i)
        BY <4>1 DEF Aged
      <4>3. dir[Peers[i]].age \in Int
        BY <4>2, Sizes DEF DirOK, Entry
      <4> QED
        BY <2>2, <3>1, <4>1, <4>2, <4>3
    <3> QED
      BY <3>2, <3>3
  <2>7. Refreshed'
    BY <2>1, <2>3 DEF Refreshed, p
  <2> QED
    BY <2>1, <2>2, <2>5, <2>6, <2>7 DEF DirOK
<1>4. CASE FetchErr
  <2>1. idx # 0 /\ Peers[idx] \notin steady /\ NextPeer /\ UNCHANGED <<dir, steady>>
    BY <1>4 DEF FetchErr
  <2>2. TaskOK' /\ \A i \in 1..N : i # idx => Since(i) <= Since(i)'
    BY <2>1, MovesOn
  <2>3. Aged'
    BY <2>1, <2>2, AgedKept
  <2> QED
    BY <2>1, <2>2, <2>3 DEF DirOK, Refreshed
<1>5. CASE Wake
  <2>1. /\ idx = 0 /\ timer = 0 /\ UNCHANGED <<dir, got, steady>>
        /\ IF Peers = <<>> THEN timer' = Pause /\ idx' = idx ELSE idx' = 1 /\ timer' = 0
    BY <1>5 DEF Wake
  <2>2. TaskOK'
    <3>1. CASE Peers = <<>>
      BY <2>1, <3>1, Sizes DEF TaskOK
    <3>2. CASE Peers # <<>>
      <4>1. N # 0
        BY <3>2, AutopilotAssumption DEF N
      <4> QED
        BY <2>1, <3>2, <4>1, Sizes DEF TaskOK
    <3> QED
      BY <3>1, <3>2
  <2>3. ASSUME NEW i \in 1..N PROVE Since(i) <= Since(i)'
    <3>1. Peers # <<>>
      BY <2>3, AutopilotAssumption DEF N
    <3>2. (N - i) * FetchMax \in Nat /\ (1 - 1) * FetchMax = 0 /\ Pause \in Nat
      BY Sizes
    <3>3. Since(i) = (N - i) * FetchMax + (Pause - 0)
      BY <2>1 DEF Since, SinceAt
    <3>4. Since(i)' = (N - i) * FetchMax + Pause + (1 - 1) * FetchMax + 0
      BY <2>1, <3>1 DEF Since, SinceAt
    <3> QED
      BY <3>2, <3>3, <3>4
  <2>4. Aged'
    BY <2>1, <2>2, <2>3, AgedKept
  <2> QED
    BY <2>1, <2>2, <2>4 DEF DirOK, Refreshed
<1> QED
  BY <1>1, <1>2, <1>3, <1>4, <1>5 DEF Refresh

\* Time: an entry ages by one, and so does every bound.
LEMMA TimeFresh ==
  ASSUME Fresh, Time
  PROVE  Fresh'
<1> USE DEF Fresh
<1>1. /\ IF idx = 0 THEN timer > 0 /\ timer' = timer - 1
                    ELSE timer < FetchMax /\ timer' = timer + 1
      /\ dir' = [g \in Gateways |-> IF dir[g] # None /\ dir[g].age < Ttl
                                   THEN [dir[g] EXCEPT !.age = @ + 1] ELSE dir[g]]
      /\ UNCHANGED <<idx, got, steady>>
  BY DEF Time
<1>2. ASSUME NEW g \in Gateways
      PROVE  /\ dir'[g] \in Entry \cup {None}
             /\ dir[g] # None => dir'[g] # None /\ dir'[g].age <= dir[g].age + 1
                                /\ dir[g].age \in Nat /\ dir'[g].age \in Nat
  <2>1. CASE dir[g] = None
    BY <1>1, <2>1
  <2>2. CASE dir[g] # None
    <3>1. dir[g] \in Entry /\ dir[g].age \in 0..Ttl /\ Ttl \in Nat
      BY <2>2, Sizes DEF DirOK, Entry
    <3>2. CASE dir[g].age < Ttl
      <4> DEFINE a == dir[g].age + 1
      <4>1. a \in 0..Ttl /\ dir'[g] = [dir[g] EXCEPT !.age = a]
        BY <1>1, <2>2, <3>1, <3>2
      <4> HIDE DEF a
      <4>2. dir'[g] \in Entry /\ dir'[g].age = a
        BY <3>1, <4>1 DEF Entry
      <4> QED
        BY <3>1, <4>1, <4>2, Sizes DEF a
    <3>3. CASE ~(dir[g].age < Ttl)
      <4>1. dir'[g] = dir[g]
        BY <1>1, <3>3
      <4> QED
        BY <2>2, <3>1, <4>1
    <3> QED
      BY <3>2, <3>3
  <2> QED
    BY <2>1, <2>2
<1>3. DirOK'
  BY <1>1, <1>2 DEF DirOK
<1>4. TaskOK'
  BY <1>1, Sizes DEF TaskOK
<1>5. Aged'
  <2> SUFFICES ASSUME NEW i \in 1..N, Peers[i] \in steady
               PROVE  dir'[Peers[i]] # None /\ dir'[Peers[i]].age <= Since(i)'
    BY <1>1 DEF Aged
  <2>1. Since(i) \in Nat
    BY SinceNat DEF Since, TaskOK
  <2>2. Since(i)' = Since(i) + 1
    <3>1. /\ N \in Nat /\ Pause \in Nat /\ FetchMax \in Nat /\ idx \in Nat /\ timer \in Nat
      BY Sizes DEF TaskOK
    <3>2. /\ (N - i) * FetchMax \in Int /\ (idx - 1 - i) * FetchMax \in Int
          /\ (idx - 1) * FetchMax \in Int
      BY <3>1
    <3>3. idx' = idx /\ timer' = IF idx = 0 THEN timer - 1 ELSE timer + 1
      BY <1>1
    <3>4. CASE idx = 0
      BY <3>1, <3>2, <3>3, <3>4 DEF Since, SinceAt
    <3>5. CASE idx # 0 /\ i < idx
      BY <3>1, <3>2, <3>3, <3>5 DEF Since, SinceAt
    <3>6. CASE idx # 0 /\ ~(i < idx)
      BY <3>1, <3>2, <3>3, <3>6 DEF Since, SinceAt
    <3> QED
      BY <3>4, <3>5, <3>6
  <2>3. Peers[i] \in Gateways /\ dir[Peers[i]] # None /\ dir[Peers[i]].age <= Since(i)
    BY Sizes DEF Aged
  <2>4. /\ dir'[Peers[i]] # None /\ dir'[Peers[i]].age <= dir[Peers[i]].age + 1
        /\ dir[Peers[i]].age \in Nat /\ dir'[Peers[i]].age \in Nat
    BY <1>2, <2>3
  <2> QED
    BY <2>1, <2>2, <2>3, <2>4
<1> QED
  BY <1>1, <1>3, <1>4, <1>5 DEF Refreshed

\* The ingress task only reads the directory and prunes what is not live.
LEMMA IngressFresh ==
  ASSUME RoundFits, Fresh, Sampling \/ Serve \/ GiveUp
  PROVE  Fresh'
<1> USE DEF Fresh
<1>1. UNCHANGED <<idx, timer, got, steady>> /\ (dir' = Pruned \/ dir' = dir)
  BY DEF Sampling, SampleNone, Sample, Serve, GiveUp, refreshVars, ingressVars
<1>2. \A g \in steady : g \in Live
  BY FreshIsLive
<1>3. \A i \in 1..N : Peers[i] \in steady => dir'[Peers[i]] = dir[Peers[i]]
  BY <1>1, <1>2, Sizes DEF Pruned
<1>4. DirOK'
  BY <1>1 DEF DirOK, Pruned
<1> QED
  BY <1>1, <1>3, <1>4 DEF TaskOK, Aged, Refreshed, Since

LEMMA FaultFresh ==
  ASSUME Fresh, NEW g \in Gateways, Crash(g) \/ Restart(g)
  PROVE  Fresh'
<1> USE DEF Fresh
<1>1. CASE Crash(g)
  <2>1. UNCHANGED <<dir, idx, timer>> /\ steady' \subseteq steady
        /\ got' \in {got, None} \cup Certs /\ (got' # got => idx # 0 /\ Peers[idx] = g /\ g # Self)
    BY <1>1 DEF Crash, Certs
  <2> QED
    BY <2>1 DEF DirOK, TaskOK, Aged, Refreshed, Since
<1>2. CASE Restart(g)
  <2>1. /\ UNCHANGED <<idx, timer, steady>>
        /\ dir' = [dir EXCEPT ![g] = IF @ = None THEN None ELSE [@ EXCEPT !.cert = "other"]]
        /\ got' = IF got # None /\ Peers[idx] = g THEN "other" ELSE got
    BY <1>2 DEF Restart
  <2>2. TaskOK'
    BY <2>1, Sizes DEF TaskOK, Certs
  <2>3. ASSUME NEW h \in Gateways, dir[h] # None
        PROVE  dir'[h] \in Entry /\ dir'[h].age = dir[h].age
    <3>1. dir[h] \in Entry
      BY <2>3 DEF DirOK
    <3>2. dir'[h] = dir[h] \/ dir'[h] = [dir[h] EXCEPT !.cert = "other"]
      BY <2>1, <2>3 DEF DirOK
    <3> QED
      BY <3>1, <3>2 DEF Entry, Certs
  <2>4. DirOK'
    BY <2>1, <2>3 DEF DirOK
  <2>5. Aged'
    BY <2>1, <2>3, Sizes DEF Aged, Since
  <2> QED
    BY <2>1, <2>2, <2>4, <2>5 DEF Refreshed
<1> QED
  BY <1>1, <1>2

\* A bootstrap gateway that keeps running stays listed, whatever the number of
\* peers and whatever the others do, if one round of spawn_bootstrap_refresh
\* with every fetch_cert timing out fits into DIR_TTL.  With the code's 120 s,
\* 60 s and 10 s that is so for up to five bootstrap peers.
THEOREM DirectoryStaysFresh ==
  ASSUME RoundFits
  PROVE  Spec => []StaysFresh
<1>1. Init => Fresh
  BY InitFresh
<1>2. Fresh /\ [Next]_vars => Fresh'
  <2> SUFFICES ASSUME Fresh, [Next]_vars PROVE Fresh'
    OBVIOUS
  <2>1. CASE UNCHANGED vars
    BY <2>1 DEF vars, refreshVars, Fresh, DirOK, TaskOK, Aged, Refreshed, Since
  <2>2. CASE Refresh
    BY <2>2, RefreshFresh
  <2>3. CASE Time
    BY <2>3, TimeFresh
  <2>4. CASE Sampling \/ Serve \/ GiveUp
    BY <2>4, IngressFresh
  <2>5. CASE \E g \in Gateways : Crash(g) \/ Restart(g)
    BY <2>5, FaultFresh
  <2> QED
    BY <2>1, <2>2, <2>3, <2>4, <2>5 DEF Next
<1>3. Fresh => StaysFresh
  BY FreshIsLive DEF StaysFresh
<1> QED
  BY <1>1, <1>2, <1>3, PTL DEF Spec

-----------------------------------------------------------------------------
\* The refresh task holds a certificate only while it is at a peer: with that,
\* types are inductive.
Typed == TypeOK /\ TaskOK

LEMMA RefreshTyped ==
  ASSUME Typed, Refresh
  PROVE  Typed'
<1> USE DEF Typed
<1>1. UNCHANGED <<up, stage, gw, pin, linkUp>>
  BY DEF Refresh, SkipSelf, FetchReply, FetchOk, FetchErr, Wake, ingressVars
<1>2. TaskOK'
  <2>1. CASE SkipSelf \/ FetchOk \/ FetchErr
    <3>1. idx # 0 /\ NextPeer
      BY <2>1 DEF SkipSelf, FetchOk, FetchErr
    <3> QED
      BY <3>1, MovesOn
  <2>2. CASE FetchReply
    BY <2>2 DEF FetchReply, TaskOK, Certs
  <2>3. CASE Wake
    <3>1. CASE Peers = <<>>
      BY <2>3, <3>1, Sizes DEF Wake, TaskOK
    <3>2. CASE Peers # <<>>
      <4>1. N # 0
        BY <3>2, AutopilotAssumption DEF N
      <4> QED
        BY <2>3, <3>2, <4>1, Sizes DEF Wake, TaskOK
    <3> QED
      BY <3>1, <3>2
  <2> QED
    BY <2>1, <2>2, <2>3 DEF Refresh
<1>3. dir' \in [Gateways -> Entry \cup {None}] /\ steady' \subseteq up'
  <2>1. CASE FetchOk
    <3>1. idx \in 1..N /\ Peers[idx] \in Gateways /\ got \in Certs
      BY <2>1, Sizes DEF FetchOk, TaskOK
    <3>2. [cert |-> got, age |-> 0] \in Entry
      BY <3>1, Sizes DEF Entry
    <3> QED
      BY <2>1, <3>1, <3>2 DEF FetchOk, Announce, TypeOK
  <2>2. CASE ~FetchOk
    BY <2>2 DEF Refresh, SkipSelf, FetchReply, FetchErr, Wake, TypeOK
  <2> QED
    BY <2>1, <2>2
<1> QED
  BY <1>1, <1>2, <1>3 DEF TypeOK, TaskOK, N

LEMMA TimeTyped ==
  ASSUME Typed, Time
  PROVE  Typed'
<1> USE DEF Typed
<1>1. UNCHANGED <<up, idx, got, stage, gw, pin, linkUp, steady>>
  BY DEF Time, ingressVars
<1>2. TaskOK'
  BY <1>1, Sizes DEF Time, TaskOK
<1>3. ASSUME NEW g \in Gateways
      PROVE  (IF dir[g] # None /\ dir[g].age < Ttl
              THEN [dir[g] EXCEPT !.age = @ + 1] ELSE dir[g]) \in Entry \cup {None}
  <2>1. CASE dir[g] # None /\ dir[g].age < Ttl
    <3>1. dir[g] \in Entry /\ dir[g].age + 1 \in 0..Ttl
      BY <2>1, Sizes DEF TypeOK, Entry
    <3> QED
      BY <2>1, <3>1 DEF Entry
  <2> QED
    BY <2>1 DEF TypeOK
<1>4. dir' \in [Gateways -> Entry \cup {None}]
  BY <1>3 DEF Time
<1> QED
  BY <1>1, <1>2, <1>4 DEF TypeOK, TaskOK, N

LEMMA IngressTyped ==
  ASSUME Typed, Sampling \/ Serve \/ GiveUp
  PROVE  Typed'
<1> USE DEF Typed
<1>1. UNCHANGED <<up, idx, timer, got, steady>> /\ (dir' = Pruned \/ dir' = dir)
  BY DEF Sampling, SampleNone, Sample, Serve, GiveUp, refreshVars, ingressVars
<1>2. dir' \in [Gateways -> Entry \cup {None}]
  BY <1>1 DEF TypeOK, Pruned
<1>3. /\ stage' \in {"sample", "dial", "serving"} /\ gw' \in Gateways \cup {None}
      /\ pin' \in Certs \cup {None} /\ linkUp' \in BOOLEAN
  <2>1. CASE SampleNone \/ Serve \/ GiveUp
    BY <2>1, Zenon DEF SampleNone, Serve, GiveUp, ingressVars, TypeOK
  <2>2. ASSUME NEW g \in Gateways, Sample(g)
        PROVE  /\ stage' \in {"sample", "dial", "serving"} /\ gw' \in Gateways \cup {None}
               /\ pin' \in Certs \cup {None} /\ linkUp' \in BOOLEAN
    <3>1. dir[g] \in Entry
      BY <2>2 DEF Sample, Live, TypeOK
    <3> QED
      BY <2>2, <3>1 DEF Sample, Entry, TypeOK
  <2> QED
    BY <2>1, <2>2 DEF Sampling
<1> QED
  BY <1>1, <1>2, <1>3 DEF TypeOK, TaskOK

LEMMA FaultTyped ==
  ASSUME Typed, NEW g \in Gateways, Crash(g) \/ Restart(g)
  PROVE  Typed'
<1> USE DEF Typed
<1>1. CASE Crash(g)
  <2>1. /\ UNCHANGED <<dir, idx, timer, stage, gw, pin>> /\ linkUp' \in BOOLEAN
        /\ up' = up \ {g} /\ steady' = steady \ {g}
        /\ got' \in {got, None} \cup Certs /\ (got' # got => idx # 0 /\ Peers[idx] # Self)
    BY <1>1 DEF Crash, Certs
  <2> QED
    BY <2>1 DEF TypeOK, TaskOK
<1>2. CASE Restart(g)
  <2>1. /\ UNCHANGED <<idx, timer, stage, gw, linkUp, steady>> /\ up' = up \cup {g}
        /\ got' = (IF got # None /\ Peers[idx] = g THEN "other" ELSE got)
        /\ pin' \in {pin} \cup Certs
    BY <1>2 DEF Restart, Certs
  <2>2. dir' = [dir EXCEPT ![g] = IF @ = None THEN None ELSE [@ EXCEPT !.cert = "other"]]
    BY <1>2 DEF Restart
  <2>3. dir[g] # None => [dir[g] EXCEPT !.cert = "other"] \in Entry
    BY DEF TypeOK, Entry, Certs
  <2>4. dir' \in [Gateways -> Entry \cup {None}]
    BY <2>2, <2>3 DEF TypeOK
  <2>5. TaskOK'
    BY <2>1, Sizes DEF TaskOK, Certs
  <2> QED
    BY <2>1, <2>4, <2>5 DEF TypeOK, TaskOK
<1> QED
  BY <1>1, <1>2

\* The node's state is well typed for every list of peers: the refresh task stays
\* within the list and its timeouts, the directory holds what announce writes, and
\* a gateway counts as steady only while it runs.
THEOREM NodeTypeSafe == Spec => []TypeOK
<1>1. Init => Typed
  <2> SUFFICES ASSUME Init PROVE Typed
    OBVIOUS
  <2>1. DirOK /\ TaskOK
    BY InitFresh DEF Fresh
  <2> QED
    BY <2>1, Zenon DEF Typed, Init, TypeOK, DirOK, TaskOK, N
<1>2. Typed /\ [Next]_vars => Typed'
  <2> SUFFICES ASSUME Typed, [Next]_vars PROVE Typed'
    OBVIOUS
  <2>1. CASE UNCHANGED vars
    BY <2>1 DEF vars, refreshVars, ingressVars, Typed, TypeOK, TaskOK
  <2>2. CASE Refresh
    BY <2>2, RefreshTyped
  <2>3. CASE Time
    BY <2>3, TimeTyped
  <2>4. CASE Sampling \/ Serve \/ GiveUp
    BY <2>4, IngressTyped
  <2>5. CASE \E g \in Gateways : Crash(g) \/ Restart(g)
    BY <2>5, FaultTyped
  <2> QED
    BY <2>1, <2>2, <2>3, <2>4, <2>5 DEF Next
<1>3. Typed => TypeOK
  BY DEF Typed
<1> QED
  BY <1>1, <1>2, <1>3, PTL DEF Spec

=============================================================================
