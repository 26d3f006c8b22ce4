----------------------------- MODULE MeasuredCc -----------------------------
(***************************************************************************)
(* Congestion control from live measurements: the estimator of             *)
(* crates/quicmix/src/oracle.rs, the operators of client.rs and lib.rs     *)
(* that turn its estimate into the transport of a circuit, and             *)
(* MeasuredCc, which tasks share: some observe connections, others build   *)
(* transports, under two mutexes.  Times are in milliseconds, ratios and   *)
(* probabilities in thousandths, rounded down.                             *)
(***************************************************************************)
EXTENDS Integers, Sequences, FiniteSets

CONSTANTS
  Builders,    \* tasks that call transport(), again and again
  Readings,    \* what a connection may show: round-trip, packets sent and lost
  Hops, Mtu, SlotInterval,
  MaxSamples,  \* MAX_RTT_SAMPLES, 256 in the code
  MaxRecords,  \* bound of the model: observations
  MaxBuilds    \* bound of the model: calls of transport()

\* A connection has lost no more packets than it sent.
ASSUME ReadingsAssumption ==
  \A c \in Readings : c.rtt \in Nat /\ c.sent \in Nat /\ c.lost \in Nat /\ c.lost <= c.sent
\* The 99.9 % sample is the slowest one in windows of up to 1000; two packets fit into
\* the window of an emulator that has no slots.
ASSUME CcAssumption ==
  /\ Hops \in Nat /\ SlotInterval \in Nat
  /\ Mtu \in Nat /\ Mtu <= 8 * 1024 * 1024
  /\ MaxSamples \in Nat /\ 1 <= MaxSamples /\ MaxSamples <= 1000

VARIABLES
  rtts, acks,    \* the estimator: samples, and <<sent, lost>>
  est, last_l,   \* holders of the two mutexes, "free" or a builder
  last,          \* the parameters of the last transport, or <<>>
  pc,            \* of each builder: idle, read, last, log, build
  reading,       \* of each builder: parameters and jitter it has read
  built,         \* the transports it returned, latest last
  seen,          \* history: every sample recorded
  at             \* history: samples seen when its call read them

shared == <<rtts, acks, last, seen>>
ccVars == <<shared, est, last_l, pc, reading, built, at>>

max(a, b) == IF a > b THEN a ELSE b
min(a, b) == IF a < b THEN a ELSE b

-----------------------------------------------------------------------------
\* OracleEstimator::record_rtt: the window keeps the newest samples (the bug: a
\* full window keeps the oldest).
record_rtt_keep(w, rtt) == IF Len(w) >= MaxSamples THEN w ELSE Append(w, rtt)
record_rtt(w, rtt) == Append(IF Len(w) >= MaxSamples THEN Tail(w) ELSE w, rtt)
record_acks(all, lost) == <<all, lost>>

\* sorted, indexed from 0 as in the code: the sample of w that is in place i once
\* all of them are in ascending order.
Nth(w, i) ==
  CHOOSE x \in {w[j] : j \in DOMAIN w} :
    /\ Cardinality({j \in DOMAIN w : w[j] < x}) <= i
    /\ i < Cardinality({j \in DOMAIN w : w[j] <= x})
\* rtt_percentiles: (n - 1) q, rounded (the bug: rounded down).
RankDown(n, q) == ((n - 1) * q) \div 100
Rank(n, q) == ((n - 1) * q + 50) \div 100
rtt_percentiles(w) ==
  IF w = <<>> THEN <<0, 0, 0>>
  ELSE [i \in 1..3 |-> Nth(w, Rank(Len(w), <<50, 90, 99>>[i]))]
median_rtt(w) == IF w = <<>> THEN 0 ELSE Nth(w, Len(w) \div 2)
\* jitter_ratio: the 99.9 % sample over the median (the bug: ranked as the
\* percentiles, but rounded down).
HighRankDown(n) == ((n - 1) * 999) \div 1000
HighRank(n) == min((n * 999) \div 1000, n - 1)
jitter_ratio(w) ==
  IF Len(w) < 2 \/ median_rtt(w) = 0 THEN 0
  ELSE max((Nth(w, HighRank(Len(w))) * 1000) \div median_rtt(w), 1500)

\* OracleParams; estimate.
Params(w, a) ==
  [hops |-> max(Hops, 1),
   mean_hop_delay |-> (median_rtt(w) \div 2) \div max(Hops, 1),
   drop_prob |-> IF a[1] > 0 THEN (a[2] * 1000) \div a[1] ELSE 0]
rtt_of(p) == p.mean_hop_delay * p.hops * 2
\* loss_time_threshold: 1 + 3.1 / sqrt(2 hops), at least 1.5.
loss_time_threshold ==
  LET root(n) == CHOOSE t \in 0..3100 : t * t * n <= 9610000 /\ (t + 1) * (t + 1) * n > 9610000
  IN [hops \in 1..max(Hops, 1) |-> max(1000 + root(2 * hops), 1500)]
\* bdp_bytes: the window of OracleCc, which never changes it (the bug: no floor).
bdp_bytes_bare(p) ==
  IF SlotInterval = 0 THEN 16 * 1024 * 1024 ELSE (Mtu * rtt_of(p)) \div SlotInterval
bdp_bytes(p) ==
  IF SlotInterval = 0 THEN 16 * 1024 * 1024
  ELSE max((Mtu * rtt_of(p)) \div SlotInterval, Mtu * 2)
\* tolerant, and quicmix_transport_with_jitter around it.
tolerant(p, time_threshold, window) ==
  [initial_rtt |-> rtt_of(p), time_threshold |-> time_threshold,
   idle |-> max(30000, rtt_of(p) * 40), window |-> window]
quicmix_transport_with_jitter(p, jitter) ==
  tolerant(p, IF jitter >= 1500 THEN jitter ELSE loss_time_threshold[p.hops], bdp_bytes(p))

-----------------------------------------------------------------------------
CcInit ==
  /\ rtts = <<>> /\ acks = <<0, 0>> /\ last = <<>> /\ seen = <<>>
  /\ est = "free" /\ last_l = "free"
  /\ pc = [b \in Builders |-> "idle"] /\ reading = [b \in Builders |-> <<>>]
  /\ built = [b \in Builders |-> <<>>]
  /\ at = [b \in Builders |-> 0]

\* MeasuredCc::observe: both records under one lock.
observe(conn) ==
  /\ est = "free" /\ Len(seen) < MaxRecords
  /\ rtts' = record_rtt(rtts, conn.rtt) /\ acks' = record_acks(conn.sent, conn.lost)
  /\ seen' = Append(seen, conn.rtt)
  /\ UNCHANGED <<last, est, last_l, pc, reading, built, at>>

\* transport() is called; then estimate and jitter are read under the lock of the
\* estimator, which is released before the next is taken (the bug: it is not).
Goto(b, label) == pc' = [pc EXCEPT ![b] = label]
Call(b) ==
  /\ pc[b] = "idle" /\ Len(built[b]) < MaxBuilds
  /\ Goto(b, "read")
  /\ UNCHANGED <<shared, est, last_l, reading, built, at>>
Lock(b) ==
  /\ pc[b] = "read" /\ est = "free"
  /\ est' = b
  /\ Goto(b, "unlock")
  /\ reading' = [reading EXCEPT ![b] = <<Params(rtts, acks), jitter_ratio(rtts)>>]
  /\ at' = [at EXCEPT ![b] = Len(seen)]
  /\ UNCHANGED <<shared, last_l, built>>
ReleaseNot(b) == est
Release(b) == "free"
Unlock(b) ==
  /\ pc[b] = "unlock"
  /\ est' = Release(b) /\ Goto(b, "last")
  /\ UNCHANGED <<shared, last_l, reading, built, at>>
\* The lock of `last`; a change is logged with samples(), which locks the
\* estimator again, and remembered.
LockLast(b) ==
  /\ pc[b] = "last" /\ last_l = "free"
  /\ last_l' = b
  /\ Goto(b, IF last # <<>> /\ last # reading[b][1] THEN "log" ELSE "remember")
  /\ UNCHANGED <<shared, est, reading, built, at>>
Samples(b) ==
  /\ pc[b] = "log" /\ est = "free"
  /\ Goto(b, "remember")
  /\ UNCHANGED <<shared, est, last_l, reading, built, at>>
Remember(b) ==
  /\ pc[b] = "remember"
  /\ last' = reading[b][1] /\ last_l' = "free"
  /\ Goto(b, "build")
  /\ UNCHANGED <<rtts, acks, seen, est, reading, built, at>>
\* The transport is built from the reading, without a lock (the bug: from what
\* is remembered).
BuildFromLast(b) == quicmix_transport_with_jitter(last, reading[b][2])
BuildFrom(b) == quicmix_transport_with_jitter(reading[b][1], reading[b][2])
Build(b) ==
  /\ pc[b] = "build"
  /\ built' = [built EXCEPT ![b] = Append(@, BuildFrom(b))]
  /\ reading' = [reading EXCEPT ![b] = <<>>] /\ at' = [at EXCEPT ![b] = 0]
  /\ Goto(b, "idle")
  /\ UNCHANGED <<shared, est, last_l>>

Builder(b) ==
  Call(b) \/ Lock(b) \/ Unlock(b) \/ LockLast(b) \/ Samples(b) \/ Remember(b) \/ Build(b)
CcNext ==
  \/ \E conn \in Readings : observe(conn)
  \/ \E b \in Builders : Builder(b)

\* Builders run; a mutex that is free again and again is obtained.
CcFairness == \A b \in Builders : SF_ccVars(Builder(b))
CcSpec == CcInit /\ [][CcNext]_ccVars /\ CcFairness

-----------------------------------------------------------------------------
\* Types; a drop probability is one.
CcTypeOK ==
  /\ rtts \in Seq({c.rtt : c \in Readings}) /\ Len(rtts) <= MaxSamples
  /\ Params(rtts, acks).drop_prob \in 0..1000
  /\ est \in Builders \cup {"free"} /\ last_l \in Builders \cup {"free"}
  /\ pc \in [Builders -> {"idle", "read", "unlock", "last", "log", "remember", "build"}]

\* "recent observations win": the window holds the newest samples, in order.
RecentWindow == rtts = SubSeq(seen, max(1, Len(seen) - MaxSamples + 1), Len(seen))

\* The exported percentiles are ordered, and the exported p50 is the median the
\* oracle uses, although the code ranks the two in different ways.
PercentilesAgree ==
  LET p == rtt_percentiles(rtts)
  IN p[1] <= p[2] /\ p[2] <= p[3] /\ p[1] = median_rtt(rtts)

\* A packet as late as the slowest sample of the window is not taken for lost:
\* with two samples or more, the threshold times the median covers it.
SlowestTolerated ==
  Len(rtts) >= 2 /\ median_rtt(rtts) > 0 =>
    \A i \in DOMAIN rtts :
      jitter_ratio(rtts) * median_rtt(rtts) > 1000 * rtts[i] - median_rtt(rtts)

\* Every transport has a window of two packets or more, a threshold of 1.5 or
\* more, and does not idle out within 30 s or 40 of its round-trips.
TransportSound ==
  \A b \in Builders : \A i \in DOMAIN built[b] :
    LET t == built[b][i]
    IN t.window >= 2 * Mtu /\ t.time_threshold >= 1500 /\ t.idle >= max(30000, 40 * t.initial_rtt)

\* The estimator as a whole, over well-typed states: from the window of samples to
\* the transports that were built, no measured value is misjudged at the edges.
EstimateSound == CcTypeOK /\ RecentWindow /\ PercentilesAgree /\ SlowestTolerated /\ TransportSound

\* "rebuilt from the latest measured oracle": what a call returns reflects the
\* samples of a moment of the call itself, whatever other builders remember.
FreshTransport ==
  [][\A b \in Builders : pc[b] = "build" /\ pc'[b] = "idle" =>
       built'[b][Len(built'[b])].initial_rtt =
         rtt_of(Params(SubSeq(seen, max(1, at[b] - MaxSamples + 1), at[b]), <<0, 0>>))]_ccVars

\* Two mutexes, one taken inside the other: a call always ends.
BuildEnds == \A b \in Builders : []<>(pc[b] = "idle")

=============================================================================
