--------------------------- MODULE WarmPoolProofs ---------------------------
(***************************************************************************)
(* Theorems about WarmPool, for every number of circuits, requests and     *)
(* fronts and every PoolConfig, from the inductive invariant Sound of      *)
(* WarmPoolSteps; and, with Accounted, that the counters it exports add    *)
(* up, modulo their width, to the circuits in the pool.                    *)
(***************************************************************************)
EXTENDS WarmPoolSteps

-----------------------------------------------------------------------------
\* A lease is dropped: the count goes down by the one it stood for.
LEMMA ReleaseSound ==
  ASSUME Sound, NEW r \in Requests, Release(r)
  PROVE  Sound'
<1> USE DEF Sound
<1> DEFINE c == lease[r]
<1>1. /\ c # None
      /\ active' = [active EXCEPT ![c] = @ - 1]
      /\ lease' = [lease EXCEPT ![r] = None] /\ held' = [held EXCEPT ![r] = 0]
      /\ open' \subseteq open
      /\ UNCHANGED <<slots, hand, rr, pc, sleep, todo, front, transport, frontRr, started,
                     built, retired, buildErrors, lost, est>>
  BY DEF Release, Drop, poolVars, taskVars, counters
<1>2. c \in Circuits
  BY <1>1 DEF TypeOK
<1>3. active[c] \in Nat /\ active[c] # 0
  BY <1>2, LeasedIsActive, SMTT(30)
<1>4. \A q \in Requests : lease'[q] = (IF q = r THEN None ELSE lease[q])
                          /\ held'[q] = (IF q = r THEN 0 ELSE held[q])
  BY <1>1, SMTT(30) DEF TypeOK
<1>5. TypeOK'
  <2>1. active' \in [Circuits -> Nat]
    <3>1. active \in [Circuits -> Nat]
      BY DEF TypeOK
    <3> HIDE DEF c, Sound
    <3>2. active[c] - 1 \in Nat
      BY <1>3
    <3> QED
      BY <1>1, <3>1, <3>2, Zenon
  <2>2. held' \in [Requests -> 0..DrainTimeout]
    <3>1. held \in [Requests -> 0..DrainTimeout] /\ 0 \in 0..DrainTimeout
      BY PoolAssumption, SMTT(30) DEF TypeOK
    <3> QED
      BY <1>1, <3>1, SMTT(30)
  <2>3. lease' \in [Requests -> Circuits \cup {None}] /\ open' \subseteq Circuits
    BY <1>1, Zenon DEF TypeOK
  <2> QED
    BY <1>1, <2>1, <2>2, <2>3, Zenon DEF TypeOK
<1>6. ActiveExact'
  <2> SUFFICES ASSUME NEW d \in Circuits
               PROVE  active'[d] = Cardinality({q \in Requests : lease'[q] = d})
    BY SMTT(30) DEF ActiveExact
  <2> DEFINE R == {q \in Requests : lease[q] = d}
  <2>1. IsFiniteSet(R) /\ Cardinality(R) \in Nat /\ active[d] = Cardinality(R)
    <3>1. IsFiniteSet(R)
      BY PoolAssumption, FS_Subset, SMTT(30)
    <3> QED
      BY <3>1, FS_CardinalityType DEF ActiveExact
  <2>2. CASE d = c
    <3>1. {q \in Requests : lease'[q] = d} = R \ {r} /\ r \in R
      BY <1>1, <1>4, <2>2
    <3>2. Cardinality(R \ {r}) = Cardinality(R) - 1
      BY <2>1, <3>1, FS_RemoveElement, Zenon
    <3> QED
      BY <1>1, <2>1, <2>2, <3>1, <3>2, Zenon DEF TypeOK
  <2>3. CASE d # c
    <3>1. {q \in Requests : lease'[q] = d} = R
      BY <1>4, <2>3, PoolAssumption
    <3> QED
      BY <1>1, <2>1, <2>3, <3>1, Zenon DEF TypeOK
  <2> QED
    BY <2>2, <2>3, SMTT(30)
<1>7. \A i \in DOMAIN slots : slots[i].id # None
  <2>1. \A i \in DOMAIN slots : slots[i] \in Slot
    BY SMTT(30) DEF TypeOK
  <2> QED
    BY <2>1, PoolAssumption, SMTT(30) DEF Slot
<1>8. OneSlotEach(slots)' /\ GraceLeft(slots)'
  BY <1>1, <1>4, <1>7, SMTT(30) DEF OneSlotEach, GraceLeft
<1>9. Shape'
  BY <1>1, SMTT(30) DEF Shape
<1>10. HandNew'
  <2>1. pc = "push" => hand.id # None
    BY PoolAssumption, SMTT(30) DEF Shape, Slot
  <2> QED
    BY <1>1, <1>4, <2>1, SMTT(30) DEF HandNew
<1>11. MinGrace'
  <2>1. None \notin open
    BY PoolAssumption, SMTT(30) DEF TypeOK
  <2> QED
    BY <1>1, <1>4, <2>1, SMTT(30) DEF MinGrace
<1>12. Ready' \subseteq Ready
  BY <1>1, SMTT(30) DEF Ready
<1>13. Room'
  BY <1>1, <1>5, <1>12, RoomKept, SMTT(30)
<1> QED
  BY <1>5, <1>6, <1>8, <1>9, <1>10, <1>11, <1>13, SMTT(30)

\* The network closes a circuit; the pool learns of it later.
LEMMA CloseSound ==
  ASSUME Sound, NEW c \in Circuits, Close(c)
  PROVE  Sound'
<1> USE DEF Sound
<1>1. /\ open' \subseteq open
      /\ UNCHANGED <<slots, hand, rr, pc, sleep, todo, front, transport, frontRr, started,
                     lease, held, active, built, retired, buildErrors, lost, est>>
  BY SMTT(30) DEF Close, taskVars, leaseVars, counters
<1>2. TypeOK'
  BY <1>1, Zenon DEF TypeOK
<1>3. Shape' /\ ActiveExact' /\ OneSlotEach(slots)' /\ HandNew' /\ GraceLeft(slots)' /\ MinGrace'
  BY <1>1, SMTT(30) DEF Shape, ActiveExact, OneSlotEach, HandNew, GraceLeft, MinGrace, Ids
<1>4. Ready' \subseteq Ready
  BY <1>1 DEF Ready
<1>5. Room'
  BY <1>1, <1>2, <1>4, RoomKept
<1> QED
  BY <1>2, <1>3, <1>5

-----------------------------------------------------------------------------
\* One unit of time on a slot.
LEMMA OlderSlot ==
  ASSUME NEW s \in Slot
  PROVE  /\ Older(s) \in Slot /\ Older(s).id = s.id
         /\ Older(s).draining = None <=> s.draining = None
         /\ s.draining # None => /\ s.draining \in Nat /\ Older(s).draining \in Nat
                                 /\ s.draining <= Older(s).draining + 1
<1> DEFINE a == IF MaxAge # None /\ s.age < MaxAge THEN s.age + 1 ELSE s.age
           d == IF s.draining = None \/ s.draining = 0 THEN s.draining ELSE s.draining - 1
           l == IF s.lastSampled = None \/ s.lastSampled >= SampleEvery
                THEN s.lastSampled ELSE s.lastSampled + 1
<1>1. /\ s.age \in Nat /\ s.draining \in Nat \cup {None}
      /\ s.lastSampled \in Nat \cup {None}
  BY DEF Slot
<1>2. a \in Nat /\ d \in Nat \cup {None} /\ l \in Nat \cup {None}
  BY <1>1
<1>3. /\ d = None <=> s.draining = None
      /\ s.draining # None => s.draining \in Nat /\ d \in Nat /\ s.draining <= d + 1
  BY <1>1, PoolAssumption
<1>4. Older(s) = [s EXCEPT !.age = a, !.draining = d, !.lastSampled = l]
  BY DEF Older
<1> HIDE DEF a, d, l
<1>5. Older(s) \in Slot /\ Older(s).id = s.id /\ Older(s).draining = d
  BY <1>2, <1>4, Zenon DEF Slot
<1> QED
  BY <1>3, <1>5

\* Grace that elapses in the slot is grace the lease has been given.
LEMMA TimeSound ==
  ASSUME Sound, Time
  PROVE  Sound'
<1> USE DEF Sound
<1>1. /\ slots' = [i \in DOMAIN slots |-> Older(slots[i])]
      /\ hand' = IF hand = None THEN None ELSE Older(hand)
      /\ held' = [r \in Requests |->
                    IF lease[r] # None /\ held[r] < DrainTimeout THEN held[r] + 1 ELSE held[r]]
      /\ sleep' = IF sleep = 0 THEN 0 ELSE sleep - 1
      /\ UNCHANGED <<open, pc, todo, front, transport, frontRr, started, lease, active, rr,
                     built, retired, buildErrors, lost, est>>
  BY DEF Time, counters
<1>2. slots \in Seq(Slot) /\ \A i \in DOMAIN slots : slots[i] \in Slot
  BY DEF TypeOK
<1>3. slots' \in Seq(Slot) /\ DOMAIN slots' = DOMAIN slots
      /\ \A i \in DOMAIN slots : slots'[i] = Older(slots[i])
  <2>1. \A i \in DOMAIN slots : Older(slots[i]) \in Slot
    BY <1>2, OlderSlot
  <2> QED
    BY <1>1, <1>2, <2>1
<1>4. \A i \in DOMAIN slots :
        slots'[i].id = slots[i].id /\ (slots'[i].draining = None <=> slots[i].draining = None)
  BY <1>2, <1>3, OlderSlot
<1>5. Ids(slots') = Ids(slots) /\ Ready' = Ready
  <2>1. Ids(slots') = Ids(slots)
    BY <1>3, <1>4 DEF Ids
  <2>2. {j \in DOMAIN slots' : slots'[j].draining = None}
          = {j \in DOMAIN slots : slots[j].draining = None}
    BY <1>3, <1>4
  <2>3. Ready' = Ready
    BY <1>1, <1>3, <1>4, <2>2, Zenon DEF Ready
  <2> QED
    BY <2>1, <2>3
<1>6. \A r \in Requests :
        /\ held[r] \in 0..DrainTimeout /\ held'[r] \in 0..DrainTimeout /\ held'[r] >= held[r]
        /\ lease[r] # None => held'[r] > held[r] \/ held'[r] = DrainTimeout
  <2>1. held \in [Requests -> 0..DrainTimeout] /\ DrainTimeout \in Nat
    BY PoolAssumption DEF TypeOK
  <2> SUFFICES ASSUME NEW r \in Requests
               PROVE  /\ held[r] \in 0..DrainTimeout /\ held'[r] \in 0..DrainTimeout
                      /\ held'[r] >= held[r]
                      /\ lease[r] # None => held'[r] > held[r] \/ held'[r] = DrainTimeout
    OBVIOUS
  <2>2. held[r] \in 0..DrainTimeout
    BY <2>1
  <2>3. held'[r] = IF lease[r] # None /\ held[r] < DrainTimeout THEN held[r] + 1 ELSE held[r]
    BY <1>1
  <2> HIDE DEF Sound
  <2> QED
    BY <2>1, <2>2, <2>3
<1>7. TypeOK'
  <2>1. hand' \in Slot \cup {None}
    BY <1>1, OlderSlot DEF TypeOK
  <2>2. held' \in [Requests -> 0..DrainTimeout]
    BY <1>1, <1>6
  <2>3. sleep' \in 0..TickLen
    BY <1>1, PoolAssumption DEF TypeOK
  <2> QED
    BY <1>1, <1>3, <2>1, <2>2, <2>3, SMTT(30) DEF TypeOK
<1>8. Shape' /\ HandNew'
  <2>1. ASSUME pc = "push" PROVE hand' \in Slot /\ hand'.id = hand.id
                                 /\ (hand'.draining = None <=> hand.draining = None)
    BY <1>1, <2>1, OlderSlot DEF Shape
  <2> QED
    BY <1>1, <1>5, <2>1 DEF Shape, HandNew
<1>9. ActiveExact' /\ OneSlotEach(slots)'
  BY <1>1, <1>3, <1>4, SMTT(30) DEF ActiveExact, OneSlotEach
<1>10. MinGrace'
  BY <1>1, <1>5, <1>6, PoolAssumption, SMTT(30) DEF MinGrace
<1>11. GraceLeft(slots)'
  <2> SUFFICES ASSUME NEW r \in Requests, NEW i \in DOMAIN slots,
                      slots'[i].id = lease[r], slots'[i].draining # None
               PROVE  held'[r] + slots'[i].draining >= DrainTimeout
    BY <1>1, <1>3 DEF GraceLeft
  <2>1. slots[i].id = lease[r] /\ slots[i].draining # None
    BY <1>4
  <2>2. held[r] + slots[i].draining >= DrainTimeout
    BY <2>1 DEF GraceLeft
  <2>3. /\ slots[i].draining \in Nat /\ slots'[i].draining \in Nat
        /\ slots[i].draining <= slots'[i].draining + 1
    BY <1>2, <1>3, <2>1, OlderSlot, SMTT(30)
  <2>4. lease[r] # None
    BY <1>2, <2>1, PoolAssumption, SMTT(30) DEF Slot
  <2>5. held[r] \in Nat /\ held'[r] \in Nat /\ (held'[r] > held[r] \/ held'[r] = DrainTimeout)
    BY <1>6, <2>4
  <2> HIDE DEF Sound
  <2> QED
    BY <2>2, <2>3, <2>5, PoolAssumption
<1>12. Room'
  BY <1>1, <1>5, <1>7, RoomKept
<1> QED
  BY <1>7, <1>8, <1>9, <1>10, <1>11, <1>12

\* What a tick does to a slot before it reaps.
LEMMA VisitSlot ==
  ASSUME NEW s \in Slot
  PROVE  /\ Visit(s) \in Slot /\ Visit(s).id = s.id
         /\ Visit(s).draining = IF Retiring(s) THEN DrainTimeout ELSE s.draining
<1> DEFINE d == IF Retiring(s) THEN DrainTimeout ELSE s.draining
           l == IF Due(s) THEN 0 ELSE s.lastSampled
<1>1. s.draining \in Nat \cup {None} /\ s.lastSampled \in Nat \cup {None}
  BY DEF Slot
<1>2. d \in Nat \cup {None} /\ l \in Nat \cup {None}
  BY <1>1, PoolAssumption
<1>3. Visit(s) = [s EXCEPT !.draining = d, !.lastSampled = l]
  BY DEF Visit
<1> HIDE DEF d, l
<1>4. Visit(s) \in Slot /\ Visit(s).id = s.id /\ Visit(s).draining = d
  BY <1>2, <1>3, Zenon DEF Slot
<1> QED
  BY <1>4 DEF d

\* maintain: a reaped circuit has no lease, or one that has had its grace.
LEMMA MaintainSound ==
  ASSUME Sound, Maintain
  PROVE  Sound'
<1> USE DEF Sound
<1> DEFINE s == [i \in DOMAIN slots |-> Visit(slots[i])]
           kept == {i \in DOMAIN s : ~Reaped(s[i])}
<1>1. /\ pc = "sleep" /\ pc' = "count" /\ slots' = Retain(s, kept) /\ open' \subseteq open
      /\ retired' = Bump(retired, Cardinality({i \in DOMAIN s : Retiring(slots[i])}))
      /\ est' = Bump(est, Cardinality({i \in DOMAIN s : Due(slots[i])}))
      /\ lost' = Bump(lost, Cardinality(Unretired(s, DOMAIN s \ kept)))
      /\ UNCHANGED <<hand, sleep, todo, front, transport, frontRr, started,
                     lease, held, active, rr, built, buildErrors>>
  BY DEF Maintain, leaseVars
<1>2. slots \in Seq(Slot) /\ \A i \in DOMAIN slots : slots[i] \in Slot
  BY DEF TypeOK
<1>3. /\ s \in Seq(Slot) /\ DOMAIN s = DOMAIN slots
      /\ \A i \in DOMAIN slots :
           s[i].id = slots[i].id
           /\ s[i].draining = IF Retiring(slots[i]) THEN DrainTimeout ELSE slots[i].draining
  <2>1. \A i \in DOMAIN slots : Visit(slots[i]) \in Slot
    BY <1>2, VisitSlot
  <2> QED
    BY <1>2, <2>1, VisitSlot
<1> HIDE DEF s
<1>4. OneSlotEach(s)
  BY <1>3 DEF OneSlotEach
<1>5. kept \in SUBSET DOMAIN s
  OBVIOUS
<1>6. /\ slots' \in Seq(Slot) /\ OneSlotEach(slots')
      /\ \A j \in DOMAIN slots' : \E i \in DOMAIN slots : slots'[j] = s[i]
      /\ \A i \in kept : \E j \in DOMAIN slots' : slots'[j] = s[i]
  <2>1. s \in Seq(Slot) /\ slots' = Retain(s, kept)
    BY <1>1, <1>3
  <2> HIDE DEF kept, Sound
  <2>2. /\ slots' \in Seq(Slot) /\ OneSlotEach(slots')
        /\ \A j \in DOMAIN slots' : \E i \in kept : slots'[j] = s[i]
        /\ \A i \in kept : \E j \in DOMAIN slots' : slots'[j] = s[i]
    BY <1>4, <1>5, <2>1, Retained, Zenon
  <2> QED
    BY <1>3, <1>5, <2>2, Zenon
<1>7. TypeOK'
  <2>1. \A I \in SUBSET DOMAIN s : Cardinality(I) \in Nat
    BY <1>3, DomainFinite
  <2>2. /\ {i \in DOMAIN s : Retiring(slots[i])} \in SUBSET DOMAIN s
        /\ {i \in DOMAIN s : Due(slots[i])} \in SUBSET DOMAIN s
        /\ Unretired(s, DOMAIN s \ kept) \in SUBSET DOMAIN s
    BY DEF Unretired
  <2>3. {retired, est, lost} \subseteq 0..(CounterMod - 1)
    BY DEF TypeOK
  <2>4. {retired', est', lost'} \subseteq 0..(CounterMod - 1)
    BY <1>1, <2>1, <2>2, <2>3, BumpRange, Zenon
  <2> QED
    BY <1>1, <1>6, <2>4, Zenon DEF TypeOK
<1>8. Shape' /\ HandNew' /\ ActiveExact' /\ OneSlotEach(slots)'
  <2>1. pc' = "count" /\ UNCHANGED <<lease, active>>
    BY <1>1
  <2>2. Shape' /\ HandNew'
    BY <2>1 DEF Shape, HandNew
  <2>3. ActiveExact'
    BY <2>1, Zenon DEF ActiveExact
  <2>4. OneSlotEach(slots)'
    BY <1>6, Zenon DEF OneSlotEach
  <2> QED
    BY <2>2, <2>3, <2>4
<1>9. ASSUME NEW r \in Requests, NEW i \in DOMAIN slots,
             s[i].id = lease[r], s[i].draining # None
      PROVE  held[r] + s[i].draining >= DrainTimeout
  <2>1. held[r] \in Nat /\ slots[i].id = lease[r]
    BY <1>3, <1>9, SMTT(30) DEF TypeOK
  <2>2. CASE Retiring(slots[i])
    BY <1>3, <2>1, <2>2, PoolAssumption, SMTT(30)
  <2>3. CASE ~Retiring(slots[i])
    BY <1>3, <1>9, <2>1, <2>3, Zenon DEF GraceLeft
  <2> QED
    BY <2>2, <2>3
<1>10. GraceLeft(slots)'
  <2> HIDE DEF Sound, kept
  <2> SUFFICES ASSUME NEW r \in Requests, NEW j \in DOMAIN slots',
                      slots'[j].id = lease[r], slots'[j].draining # None
               PROVE  held[r] + slots'[j].draining >= DrainTimeout
    BY <1>1 DEF GraceLeft
  <2>1. PICK i \in DOMAIN slots : slots'[j] = s[i]
    BY <1>6
  <2> QED
    BY <1>9, <2>1, Zenon
<1>11. MinGrace'
  <2> SUFFICES ASSUME NEW r \in Requests, lease[r] \in open, lease[r] \notin Ids(slots')
               PROVE  held[r] >= DrainTimeout
    BY <1>1 DEF MinGrace
  <2>1. CASE lease[r] \notin Ids(slots)
    BY <2>1 DEF MinGrace
  <2>2. CASE lease[r] \in Ids(slots)
    <3>1. PICK i \in DOMAIN slots : slots[i].id = lease[r]
      BY <2>2 DEF Ids
    <3>2. s[i].id = lease[r]
      BY <1>3, <3>1
    <3>3. i \notin kept
      BY <1>6, <3>2 DEF Ids
    <3>4. Reaped(s[i])
      BY <1>3, <3>3
    <3>5. lease[r] \in Circuits
      BY DEF TypeOK
    <3>6. active[lease[r]] # 0
      BY <3>5, LeasedIsActive
    <3>7. s[i].draining # None /\ s[i].draining = 0
      BY <3>2, <3>4, <3>6 DEF Reaped
    <3>8. held[r] + 0 >= DrainTimeout /\ held[r] \in Nat
      BY <1>9, <3>2, <3>7, SMTT(30) DEF TypeOK
    <3> QED
      BY <3>8, PoolAssumption
  <2> QED
    BY <2>1, <2>2, Zenon
<1>12. Room'
  <2>1. Ready' \subseteq Ready
    <3>1. \A i \in DOMAIN slots : s[i].draining = None =>
                                  slots[i].draining = None /\ s[i].id = slots[i].id
      BY <1>3, PoolAssumption
    <3> QED
      BY <1>1, <1>6, <3>1, Zenon DEF Ready
  <2>2. Cardinality(Ready) \in Nat
    BY ReadyFinite
  <2>3. Cardinality(Ready') \in Nat /\ Cardinality(Ready') <= Cardinality(Ready)
    BY <1>7, <2>1, ReadyShrinks
  <2> QED
    BY <1>1, <2>2, <2>3, PoolAssumption, SMTT(30) DEF Room
<1> QED
  BY <1>7, <1>8, <1>10, <1>11, <1>12

-----------------------------------------------------------------------------
\* Every step keeps the invariant.
LEMMA StepSound ==
  ASSUME Sound, [Next]_vars
  PROVE  Sound'
<1>1. CASE Refill
  BY <1>1, RefillCountSound, BuildOkSound, BuildErrSound, PushSound DEF Refill
<1>2. CASE Maintain
  BY <1>2, MaintainSound
<1>3. ASSUME NEW r \in Requests, Pick(r) \/ PickNone(r) \/ Release(r) PROVE Sound'
  BY <1>3, PickSound, PickNoneSound, ReleaseSound
<1>4. ASSUME NEW c \in Circuits, Close(c) PROVE Sound'
  BY <1>4, CloseSound, SMTT(30)
<1>5. CASE Time
  BY <1>5, TimeSound, Zenon
<1>6. CASE UNCHANGED vars
  BY <1>6 DEF Sound, TypeOK, Shape, ActiveExact, OneSlotEach, HandNew, GraceLeft, MinGrace, Room,
              Ready, Ids, vars, poolVars, taskVars, leaseVars, counters
<1> QED
  BY <1>1, <1>2, <1>3, <1>4, <1>5, <1>6, SMTT(30) DEF Next

\* The pool is always in a sound state: the inductive invariant holds.
THEOREM AlwaysSound == Spec => []Sound
<1> QED
  BY InitSound, StepSound, PTL DEF Spec

\* Every variable of the pool keeps its type; in particular the in-flight count
\* never goes below zero, whatever the order of picks, drops and reaps.
THEOREM PoolTypeSafe == Spec => []TypeOK
<1>1. Sound => TypeOK
  BY DEF Sound
<1> QED
  BY <1>1, AlwaysSound, PTL

\* Slot::active is exactly the number of leases on the circuit.
THEOREM ActiveCountExact == Spec => []ActiveExact
<1>1. Sound => ActiveExact
  BY DEF Sound
<1> QED
  BY <1>1, AlwaysSound, PTL

\* Production-safe rotation: maintain never drops a live circuit from under a
\* request that has leased it for less than the drain timeout.
THEOREM GracefulDrain == Spec => []MinGrace
<1>1. Sound => MinGrace
  BY DEF Sound
<1> QED
  BY <1>1, AlwaysSound, PTL

\* The ready circuits never exceed PoolConfig::target, although refill builds
\* on a count it took before it let go of the lock.
THEOREM ReadyWithinTarget == Spec => []ReadyBounded
<1>1. Sound => ReadyBounded
  <2> SUFFICES ASSUME Sound PROVE ReadyBounded
    OBVIOUS
  <2>1. Cardinality(Ready) \in Nat
    BY ReadyFinite DEF Sound
  <2>2. todo \in Nat
    BY DEF Sound, TypeOK
  <2> QED
    BY <2>1, <2>2, PoolAssumption DEF Sound, Room, ReadyBounded
<1> QED
  BY <1>1, AlwaysSound, PTL

-----------------------------------------------------------------------------
\* A counter may be reduced before or after it is added to.
LEMMA ModAdd ==
  ASSUME NEW m \in Nat \ {0}, NEW a \in Nat, NEW k \in Nat
  PROVE  ((a % m) + k) % m = (a + k) % m
<1> DEFINE q == a \div m
           r == a % m
           q1 == (r + k) \div m
           r1 == (r + k) % m
           q2 == (a + k) \div m
           r2 == (a + k) % m
<1>1. q \in Int /\ r \in 0..(m - 1) /\ a = m * q + r
  OBVIOUS
<1>2. q1 \in Int /\ r1 \in 0..(m - 1) /\ r + k = m * q1 + r1
  BY <1>1
<1>3. q2 \in Int /\ r2 \in 0..(m - 1) /\ a + k = m * q2 + r2
  OBVIOUS
<1> HIDE DEF q, r, q1, r1, q2, r2
<1>4. m * (q2 - q - q1) = r1 - r2
  BY <1>1, <1>2, <1>3
<1>5. q2 - q - q1 = 0
  <2> DEFINE d == q2 - q - q1
  <2>0. d \in Int /\ m * d = r1 - r2
    BY <1>1, <1>2, <1>3, <1>4
  <2> HIDE DEF d
  <2>1. ~(d >= 1)
    <3> SUFFICES ASSUME d >= 1 PROVE FALSE
      OBVIOUS
    <3>1. m * d >= m
      BY <2>0
    <3> QED BY <3>1, <1>2, <1>3, <2>0
  <2>2. ~(d <= -1)
    <3> SUFFICES ASSUME d <= -1 PROVE FALSE
      OBVIOUS
    <3>1. m * d <= -m
      BY <2>0
    <3> QED BY <3>1, <1>2, <1>3, <2>0
  <2>3. d = 0
    BY <2>0, <2>1, <2>2
  <2> QED BY <2>3 DEF d
<1>6. r1 = r2
  BY <1>2, <1>3, <1>4, <1>5
<1> QED
  BY <1>6 DEF r, r1, r2

\* The same on the right.
LEMMA ModAddRight ==
  ASSUME NEW m \in Nat \ {0}, NEW n \in Nat, NEW b \in Nat
  PROVE  (n + (b % m)) % m = (n + b) % m
<1>1. ((b % m) + n) % m = (b + n) % m
  BY ModAdd, Zenon
<1>2. b % m \in Nat
  OBVIOUS
<1>3. (b % m) + n = n + (b % m) /\ b + n = n + b
  BY <1>2
<1> QED
  BY <1>1, <1>3

\* A slot that retain keeps is counted where it was counted before.
LEMMA RetainCounts ==
  ASSUME NEW s \in Seq(Slot), NEW I \in SUBSET DOMAIN s
  PROVE  Cardinality(Unretired(Retain(s, I), DOMAIN Retain(s, I)))
           = Cardinality(Unretired(s, I))
<1> DEFINE t == Retain(s, I)
           A == Unretired(t, DOMAIN t)
           B == Unretired(s, I)
           f == [j \in A |-> Nth(I, j)]
<1>1. /\ \A j \in DOMAIN t : Nth(I, j) \in I /\ t[j] = s[Nth(I, j)]
      /\ \A i \in I : \E j \in DOMAIN t : Nth(I, j) = i
      /\ \A j, k \in DOMAIN t : j < k => Nth(I, j) < Nth(I, k)
      /\ t \in Seq(Slot) /\ DOMAIN t \subseteq Nat /\ I \subseteq Nat
  BY RetainCorrect
<1> HIDE DEF t
<1>2. f \in [A -> B]
  BY <1>1 DEF Unretired
<1>3. \A a, b \in A : f[a] = f[b] => a = b
  <2> SUFFICES ASSUME NEW a \in A, NEW b \in A, a # b PROVE Nth(I, a) # Nth(I, b)
    OBVIOUS
  <2>1. a \in DOMAIN t /\ b \in DOMAIN t /\ (a < b \/ b < a)
    BY <1>1 DEF Unretired
  <2>2. Nth(I, a) \in Nat /\ Nth(I, b) \in Nat
    BY <1>1, <2>1
  <2> QED
    BY <1>1, <2>1, <2>2
<1>4. \A i \in B : \E a \in A : f[a] = i
  BY <1>1 DEF Unretired
<1>5. f \in Bijection(A, B)
  BY <1>2, <1>3, <1>4, Zenon DEF Bijection, Injection, Surjection, IsInjective
<1>6. IsFiniteSet(A)
  <2>1. A \in SUBSET DOMAIN t
    BY DEF Unretired
  <2> QED
    BY <1>1, <2>1, DomainFinite
<1>7. ExistsBijection(A, B)
  BY <1>5 DEF ExistsBijection
<1>8. Cardinality(B) = Cardinality(A)
  BY <1>6, <1>7, FS_Bijection
<1> QED
  BY <1>8 DEF t

\* What a list has in rotation, in two parts.
LEMMA CountSplit ==
  ASSUME NEW s \in Seq(Slot), NEW I \in SUBSET DOMAIN s
  PROVE  LET all == Cardinality(Unretired(s, DOMAIN s))
             kept == Cardinality(Unretired(s, I))
             gone == Cardinality(Unretired(s, DOMAIN s \ I))
         IN  all \in Nat /\ kept \in Nat /\ gone \in Nat /\ all = kept + gone
<1> DEFINE A == Unretired(s, I)
           B == Unretired(s, DOMAIN s \ I)
           C == Unretired(s, DOMAIN s)
<1>1. A \in SUBSET DOMAIN s /\ B \in SUBSET DOMAIN s /\ C = A \cup B /\ A \cap B = {}
  BY DEF Unretired
<1>2. /\ IsFiniteSet(A) /\ IsFiniteSet(B) /\ Cardinality(A) \in Nat /\ Cardinality(B) \in Nat
  BY <1>1, DomainFinite, Zenon
<1>3. Cardinality(C) = Cardinality(A) + Cardinality(B)
  <2>1. Cardinality(A \cap B) = 0
    BY <1>1, FS_EmptySet, Zenon
  <2> HIDE DEF A, B, C
  <2>2. Cardinality(A \cup B) = Cardinality(A) + Cardinality(B) - Cardinality(A \cap B)
    BY <1>2, FS_Union, Zenon
  <2> QED
    BY <1>1, <1>2, <2>1, <2>2
<1> QED
  BY <1>2, <1>3

-----------------------------------------------------------------------------
\* The inductive invariant behind RotationAccounting: besides the sum, refill has a
\* slot in hand in no other state than just before its push.
InRotation(s) == Cardinality(Unretired(s, DOMAIN s))
InHand(h) == IF h = None THEN 0 ELSE 1
Accounted == (pc # "push" => hand = None) /\ RotationAccounting

\* A step that changes the metrics as the change of the pool requires.
LEMMA AccountedStep ==
  ASSUME Sound, TypeOK', Accounted, NEW db \in Nat, NEW dr \in Nat, NEW dl \in Nat,
         built' = Bump(built, db), retired' = Bump(retired, dr), lost' = Bump(lost, dl),
         InRotation(slots') + InHand(hand') + dr + dl = InRotation(slots) + InHand(hand) + db
  PROVE  RotationAccounting'
<1> DEFINE u == InRotation(slots) + InHand(hand)
           v == InRotation(slots') + InHand(hand')
<1>1. /\ slots \in Seq(Slot) /\ slots' \in Seq(Slot)
      /\ built \in Nat /\ retired \in Nat /\ lost \in Nat
      /\ CounterMod \in Nat \ {0}
  BY PoolAssumption DEF Sound, TypeOK
<1>2. InRotation(slots) \in Nat /\ InRotation(slots') \in Nat
  <2>1. Unretired(slots, DOMAIN slots) \in SUBSET DOMAIN slots
        /\ Unretired(slots', DOMAIN slots') \in SUBSET DOMAIN slots'
    BY DEF Unretired
  <2> QED
    BY <1>1, <2>1, DomainFinite DEF InRotation
<1>3. u \in Nat /\ v \in Nat
  BY <1>2 DEF InHand
<1>4. built = (u + retired + lost) % CounterMod
  BY DEF Accounted, RotationAccounting, InRotation, InHand
<1>5. v + dr + dl = u + db
  BY <1>2
<1> DEFINE m == CounterMod
           l == lost + dl
           R == (retired + dr) % m
           L == l % m
<1> HIDE DEF u, v
<1>6. l \in Nat /\ R \in Nat /\ L \in Nat
  BY <1>1
<1>7. (v + R + L) % m = (v + R + l) % m
  <2> HIDE DEF R, l, m
  <2>1. v + R \in Nat /\ m \in Nat \ {0}
    BY <1>1, <1>3, <1>6 DEF m
  <2> QED
    BY <1>6, <2>1, ModAddRight, Zenon
<1>8. (v + R + l) % m = (v + l + (retired + dr)) % m
  <2>1. v + l \in Nat /\ retired + dr \in Nat
    BY <1>1, <1>3, <1>6
  <2>2. ((v + l) + R) % m = ((v + l) + (retired + dr)) % m
    BY <1>1, <2>1, ModAddRight, Zenon
  <2>3. v + R + l = (v + l) + R
    BY <1>3, <1>6
  <2> QED
    BY <2>2, <2>3
<1>9. (built + db) % m = (u + retired + lost + db) % m
  <2>1. u + retired + lost \in Nat
    BY <1>1, <1>3
  <2>2. (((u + retired + lost) % m) + db) % m = ((u + retired + lost) + db) % m
    BY <1>1, <2>1, ModAdd, Zenon
  <2> QED
    BY <1>4, <2>2, Zenon
<1>10. u + retired + lost + db = v + l + (retired + dr)
  BY <1>1, <1>3, <1>5
<1>11. (built + db) % m = (v + R + L) % m
  <2> HIDE DEF R, L, l, m
  <2> QED
    BY <1>7, <1>8, <1>9, <1>10, Zenon
<1>12. built' = (v + retired' + lost') % CounterMod
  BY <1>11, Zenon DEF Bump
<1> QED
  BY <1>12 DEF v, RotationAccounting, InRotation, InHand

\* A counter in range is bumped by nothing at all.
LEMMA BumpNone ==
  ASSUME NEW n \in 0..(CounterMod - 1)
  PROVE  Bump(n, 0) = n
<1>1. CounterMod \in Nat \ {0}
  BY PoolAssumption
<1> DEFINE q == n \div CounterMod
           r == n % CounterMod
<1>2. q \in Int /\ r \in 0..(CounterMod - 1) /\ n = CounterMod * q + r
  BY <1>1
<1> HIDE DEF q, r
<1>3. ~(q >= 1) /\ ~(q <= -1)
  BY <1>1, <1>2
<1>4. q = 0
  BY <1>2, <1>3
<1>5. r = n
  BY <1>1, <1>2, <1>4
<1> QED
  BY <1>5 DEF Bump, r

\* What the metrics are bumped by when they do not change.
LEMMA SameCounters ==
  ASSUME TypeOK
  PROVE  built = Bump(built, 0) /\ retired = Bump(retired, 0) /\ lost = Bump(lost, 0)
BY BumpNone DEF TypeOK

\* Lists that agree on who is draining have as many in rotation.
LEMMA SameRotation ==
  ASSUME NEW s, NEW t, DOMAIN t = DOMAIN s,
         \A i \in DOMAIN s : t[i].draining = None <=> s[i].draining = None
  PROVE  InRotation(t) = InRotation(s)
<1>1. Unretired(t, DOMAIN t) = Unretired(s, DOMAIN s)
  BY DEF Unretired
<1> QED
  BY <1>1 DEF InRotation

\* A circuit is counted when it is built, and once: in the hand, then in the pool.
LEMMA RefillAccounted ==
  ASSUME Sound, Accounted, Sound', Refill
  PROVE  Accounted'
<1>1. TypeOK /\ TypeOK' /\ 0 \in Nat /\ 1 \in Nat
  BY DEF Sound
<1>2. slots \in Seq(Slot) /\ InRotation(slots) \in Nat
  <2>1. Unretired(slots, DOMAIN slots) \in SUBSET DOMAIN slots
    BY DEF Unretired
  <2> QED
    BY <1>1, <2>1, DomainFinite, Zenon DEF InRotation, TypeOK
<1>3. CASE RefillCount
  <2>1. UNCHANGED <<slots, hand, built, retired, lost>> /\ pc' # "push" /\ pc # "push"
    BY <1>3 DEF RefillCount, Proceed, poolVars, counters
  <2> QED
    BY <2>1 DEF Accounted, RotationAccounting
<1>4. CASE BuildErr
  <2>1. UNCHANGED <<slots, hand, built, retired, lost>> /\ pc' # "push" /\ pc # "push"
    BY <1>4 DEF BuildErr, Proceed, poolVars
  <2> QED
    BY <2>1 DEF Accounted, RotationAccounting
<1>5. CASE BuildOk
  <2>1. /\ UNCHANGED <<slots, retired, lost>> /\ pc' = "push" /\ pc = "dial"
        /\ built' = Bump(built, 1) /\ hand' \in Slot
    BY <1>5 DEF BuildOk, Sound, Shape
  <2>2. InHand(hand) = 0 /\ InHand(hand') = 1
    BY <2>1, PoolAssumption DEF Accounted, InHand
  <2>3. InRotation(slots') + InHand(hand') + 0 + 0 = InRotation(slots) + InHand(hand) + 1
    BY <1>2, <2>1, <2>2
  <2>4. RotationAccounting'
    BY <1>1, <2>1, <2>3, SameCounters, AccountedStep
  <2> QED
    BY <2>1, <2>4 DEF Accounted
<1>6. CASE Push
  <2>1. /\ slots' = Append(slots, hand) /\ hand' = None /\ hand \in Slot
        /\ UNCHANGED <<built, retired, lost>> /\ pc' # "push" /\ hand.draining = None
    BY <1>6 DEF Push, Proceed, counters, Sound, Shape, HandNew
  <2>2. InHand(hand) = 1 /\ InHand(hand') = 0
    BY <2>1, PoolAssumption DEF InHand
  <2>3. InRotation(slots') = InRotation(slots) + 1
    <3> DEFINE n == Len(slots) + 1
               U == Unretired(slots, DOMAIN slots)
    <3>1. Unretired(slots', DOMAIN slots') = U \cup {n} /\ n \notin U
      BY <1>2, <2>1 DEF Unretired
    <3>2. IsFiniteSet(U)
      <4>1. U \in SUBSET DOMAIN slots
        BY DEF Unretired
      <4> QED
        BY <1>2, <4>1, DomainFinite
    <3> HIDE DEF U, n
    <3>3. Cardinality(U \cup {n}) = Cardinality(U) + 1
      BY <3>1, <3>2, FS_AddElement
    <3> QED
      BY <3>1, <3>3 DEF InRotation, U
  <2>4. InRotation(slots') + InHand(hand') + 0 + 0 = InRotation(slots) + InHand(hand) + 0
    BY <1>2, <2>2, <2>3
  <2>5. RotationAccounting'
    BY <1>1, <2>1, <2>4, SameCounters, AccountedStep
  <2> QED
    BY <2>1, <2>5 DEF Accounted
<1> QED
  BY <1>3, <1>4, <1>5, <1>6 DEF Refill

\* A circuit leaves the rotation when it is retired or dropped dead, and is counted there.
LEMMA MaintainAccounted ==
  ASSUME Sound, Accounted, Sound', Maintain
  PROVE  Accounted'
<1> DEFINE s == [i \in DOMAIN slots |-> Visit(slots[i])]
           kept == {i \in DOMAIN s : ~Reaped(s[i])}
           R == {i \in DOMAIN s : Retiring(slots[i])}
           gone == Unretired(s, DOMAIN s \ kept)
<1>1. /\ pc # "push" /\ pc' # "push" /\ slots' = Retain(s, kept)
      /\ retired' = Bump(retired, Cardinality(R)) /\ lost' = Bump(lost, Cardinality(gone))
      /\ UNCHANGED <<hand, built>>
  BY DEF Maintain
<1>2. slots \in Seq(Slot) /\ \A i \in DOMAIN slots : slots[i] \in Slot
  <2>1. slots \in Seq(Slot)
    BY Zenon DEF Sound, TypeOK
  <2> QED
    BY <2>1
<1>3. /\ s \in Seq(Slot) /\ DOMAIN s = DOMAIN slots
      /\ \A i \in DOMAIN slots :
           s[i].draining = IF Retiring(slots[i]) THEN DrainTimeout ELSE slots[i].draining
  <2>1. \A i \in DOMAIN slots : Visit(slots[i]) \in Slot
    BY <1>2, VisitSlot, Zenon
  <2> QED
    BY <1>2, <2>1, VisitSlot
<1>4. kept \in SUBSET DOMAIN s /\ R \in SUBSET DOMAIN slots /\ gone \in SUBSET DOMAIN s
  BY <1>3, Zenon DEF Unretired
<1> HIDE DEF s, kept
<1>5. Cardinality(R) \in Nat /\ Cardinality(gone) \in Nat /\ IsFiniteSet(R)
  BY <1>2, <1>3, <1>4, DomainFinite, Zenon
<1>6. /\ InRotation(slots) = InRotation(s) + Cardinality(R)
      /\ InRotation(slots) \in Nat /\ InRotation(s) \in Nat
  <2> DEFINE A == Unretired(s, DOMAIN s)
             B == Unretired(slots, DOMAIN slots)
  <2>1. B = A \cup R /\ A \cap R = {} /\ A \in SUBSET DOMAIN s /\ B \in SUBSET DOMAIN slots
    BY <1>3, PoolAssumption DEF Unretired, Retiring
  <2>2. IsFiniteSet(A) /\ Cardinality(A) \in Nat /\ Cardinality(B) \in Nat
    BY <1>2, <1>3, <2>1, DomainFinite
  <2> HIDE DEF A, B, R
  <2>3. Cardinality(A \cup R) = Cardinality(A) + Cardinality(R) - Cardinality(A \cap R)
    BY <1>5, <2>2, FS_Union, Zenon
  <2>4. Cardinality(A \cap R) = 0
    BY <2>1, FS_EmptySet
  <2>5. Cardinality(B) = Cardinality(A) + Cardinality(R)
    BY <1>5, <2>1, <2>2, <2>3, <2>4
  <2>6. InRotation(s) = Cardinality(A) /\ InRotation(slots) = Cardinality(B)
    BY Zenon DEF A, B, InRotation
  <2> QED
    BY <2>2, <2>5, <2>6, Zenon
<1>7. InRotation(s) = InRotation(slots') + Cardinality(gone) /\ InRotation(slots') \in Nat
  BY <1>1, <1>3, <1>4, RetainCounts, CountSplit DEF InRotation
<1>8. InRotation(slots') + InHand(hand') + Cardinality(R) + Cardinality(gone)
        = InRotation(slots) + InHand(hand) + 0
  <2>1. InHand(hand') = InHand(hand) /\ InHand(hand) \in Nat
    BY <1>1, Zenon DEF InHand
  <2> HIDE DEF R, gone
  <2> QED
    BY <1>5, <1>6, <1>7, <2>1
<1>9. built' = Bump(built, 0) /\ TypeOK' /\ 0 \in Nat
  BY <1>1, SameCounters DEF Sound
<1> HIDE DEF R, gone
<1>10. RotationAccounting'
  BY <1>1, <1>5, <1>8, <1>9, AccountedStep
<1> QED
  BY <1>1, <1>10, Zenon DEF Accounted

\* pick's sweep takes out of rotation what it counts as lost.
LEMMA SweepAccounted ==
  ASSUME Sound, Accounted, Sound', UNCHANGED <<hand, pc, built, retired>>, lost' = SweptLost,
         DOMAIN slots' = DOMAIN Swept,
         \A j \in DOMAIN Swept : slots'[j].draining = Swept[j].draining
  PROVE  Accounted'
<1> DEFINE gone == Unretired(slots, DOMAIN slots \ LiveAt)
<1>1. slots \in Seq(Slot) /\ LiveAt \in SUBSET DOMAIN slots /\ gone \in SUBSET DOMAIN slots
  BY Zenon DEF Sound, TypeOK, LiveAt, Unretired
<1>2. /\ InRotation(slots) = InRotation(Swept) + Cardinality(gone)
      /\ InRotation(slots) \in Nat /\ InRotation(Swept) \in Nat /\ Cardinality(gone) \in Nat
  BY <1>1, RetainCounts, CountSplit DEF InRotation, Swept
<1>3. InRotation(slots') = InRotation(Swept)
  BY SameRotation
<1>4. lost' = Bump(lost, Cardinality(gone))
  BY DEF SweptLost
<1>5. /\ InHand(hand') = InHand(hand) /\ InHand(hand) \in Nat /\ 0 \in Nat /\ TypeOK'
      /\ built' = Bump(built, 0) /\ retired' = Bump(retired, 0)
  BY SameCounters DEF InHand, Sound
<1> HIDE DEF gone
<1>6. InRotation(slots') + InHand(hand') + 0 + Cardinality(gone)
        = InRotation(slots) + InHand(hand) + 0
  BY <1>2, <1>3, <1>5
<1>7. RotationAccounting'
  BY <1>2, <1>4, <1>5, <1>6, AccountedStep
<1> QED
  BY <1>7, Zenon DEF Accounted

\* Requests change the pool by the sweep only.
LEMMA RequestAccounted ==
  ASSUME Sound, Accounted, Sound', NEW r \in Requests, Pick(r) \/ PickNone(r) \/ Release(r)
  PROVE  Accounted'
<1>1. CASE Pick(r)
  <2>1. PICK i \in Pickable : slots' = [Swept EXCEPT ![i].uses = @ + 1]
    BY <1>1, PickChoice, Zenon DEF Pick
  <2>2. UNCHANGED <<hand, pc, built, retired>> /\ lost' = SweptLost
    BY <1>1 DEF Pick, taskVars
  <2>3. \A j \in DOMAIN Swept : Swept[j] \in Slot
    BY SweptFacts
  <2>4. slots' = [Swept EXCEPT ![i] = [Swept[i] EXCEPT !.uses = @ + 1]] /\ i \in DOMAIN Swept
    BY <2>1 DEF Pickable
  <2>5. DOMAIN slots' = DOMAIN Swept
        /\ \A j \in DOMAIN Swept : slots'[j].draining = Swept[j].draining
    BY <2>3, <2>4, CountUse
  <2> QED
    BY <2>2, <2>5, SweepAccounted, Zenon
<1>2. CASE PickNone(r)
  <2>1. UNCHANGED <<hand, pc, built, retired>> /\ lost' = SweptLost /\ slots' = Swept
    BY <1>2 DEF PickNone, taskVars
  <2> QED
    BY <2>1, SweepAccounted
<1>3. CASE Release(r)
  BY <1>3 DEF Release, poolVars, taskVars, counters, Accounted, RotationAccounting
<1> QED
  BY <1>1, <1>2, <1>3, Zenon

\* Every step keeps the account.
LEMMA StepAccounted ==
  ASSUME Sound, Accounted, [Next]_vars
  PROVE  Accounted'
<1>1. Sound'
  BY StepSound
<1>2. CASE Refill
  BY <1>1, <1>2, RefillAccounted
<1>3. CASE Maintain
  BY <1>1, <1>3, MaintainAccounted
<1>4. ASSUME NEW r \in Requests, Pick(r) \/ PickNone(r) \/ Release(r) PROVE Accounted'
  BY <1>1, <1>4, RequestAccounted
<1>5. ASSUME NEW c \in Circuits, Close(c) PROVE Accounted'
  BY <1>5 DEF Close, taskVars, counters, Accounted, RotationAccounting
<1>6. CASE Time
  <2>1. /\ slots' = [i \in DOMAIN slots |-> Older(slots[i])]
        /\ hand' = IF hand = None THEN None ELSE Older(hand)
        /\ UNCHANGED <<pc, built, retired, lost>>
    BY <1>6, Zenon DEF Time, counters
  <2>2. /\ \A i \in DOMAIN slots : slots[i] \in Slot
        /\ hand # None => hand \in Slot
    BY DEF Sound, TypeOK
  <2>3. InRotation(slots') = InRotation(slots)
    BY <2>1, <2>2, OlderSlot, SameRotation, Zenon
  <2>4. hand' = None <=> hand = None
    BY <2>1, <2>2, OlderSlot, PoolAssumption
  <2> QED
    BY <2>1, <2>3, <2>4, Zenon DEF Accounted, RotationAccounting, InRotation
<1>7. CASE UNCHANGED vars
  BY <1>7 DEF vars, poolVars, taskVars, counters, Accounted, RotationAccounting
<1> QED
  BY <1>2, <1>3, <1>4, <1>5, <1>6, <1>7 DEF Next

\* circuits_built_total and circuits_retired_total add up, for any wrap-around of
\* the counters and any order of builds, sweeps, retirements and reaps: every
\* circuit built is accounted for exactly once.
THEOREM RotationAddsUp == Spec => []RotationAccounting
<1>1. Init => Accounted
  <2> SUFFICES ASSUME Init PROVE Accounted
    OBVIOUS
  <2>1. Unretired(slots, DOMAIN slots) = {}
    BY DEF Init, Unretired
  <2>2. Cardinality(Unretired(slots, DOMAIN slots)) = 0
    BY <2>1, FS_EmptySet
  <2>3. 0 % CounterMod = 0
    BY BumpNone, PoolAssumption DEF Bump
  <2> QED
    BY <2>2, <2>3 DEF Init, Accounted, RotationAccounting
<1>2. Accounted => RotationAccounting
  BY DEF Accounted
<1> QED
  BY <1>1, <1>2, AlwaysSound, StepAccounted, PTL DEF Spec

=============================================================================
