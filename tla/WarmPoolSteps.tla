--------------------------- MODULE WarmPoolSteps ----------------------------
(***************************************************************************)
(* What the operators of Vec compute, for every sequence; the inductive    *)
(* invariant of WarmPool; and the lemmas that its initial state and the    *)
(* steps of the refill loop and of pick establish it.  WarmPoolProofs has  *)
(* the other steps and the theorems.                                       *)
(*                                                                         *)
(* Sound: the types, the shape of the refill loop, the exact in-flight     *)
(* count, the distinctness of the circuits in the pool, the grace that     *)
(* each lease was already given and the room the running refill still has. *)
(***************************************************************************)
EXTENDS WarmPool, FiniteSetTheorems, TLAPS

-----------------------------------------------------------------------------
LEMMA DomainFinite ==
  ASSUME NEW S, NEW s \in Seq(S), NEW I \in SUBSET DOMAIN s
  PROVE  IsFiniteSet(I) /\ I \subseteq Nat /\ Cardinality(I) \in Nat
         /\ Cardinality(I) <= Len(s)
<1>1. DOMAIN s = 1..Len(s) /\ Len(s) \in Nat
  OBVIOUS
<1>2. IsFiniteSet(1..Len(s)) /\ Cardinality(1..Len(s)) = Len(s)
  <2>1. 1 \in Int /\ Len(s) \in Int
    BY <1>1
  <2>2. /\ IsFiniteSet(1..Len(s))
        /\ Cardinality(1..Len(s)) = IF 1 > Len(s) THEN 0 ELSE Len(s) - 1 + 1
    BY <2>1, FS_Interval
  <2> QED
    BY <1>1, <2>2
<1>3. IsFiniteSet(I) /\ Cardinality(I) <= Len(s)
  BY <1>1, <1>2, FS_Subset
<1> QED
  BY <1>1, <1>3, FS_CardinalityType

\* Two positions of I have different ranks.
LEMMA RankInjective ==
  ASSUME NEW I \in SUBSET Nat, IsFiniteSet(I), NEW i \in I, NEW k \in I, i < k
  PROVE  Rank(I, i) < Rank(I, k)
<1> DEFINE A == {m \in I : m <= i}
           B == {m \in I : m <= k}
<1>1. IsFiniteSet(B) /\ A \in SUBSET B /\ k \in B /\ k \notin A
  <2>1. B \in SUBSET I
    OBVIOUS
  <2>2. IsFiniteSet(B)
    BY <2>1, FS_Subset
  <2>3. \A m \in I : m <= i => m <= k
    OBVIOUS
  <2>4. k <= k /\ ~(k <= i)
    OBVIOUS
  <2>5. A \in SUBSET B
    BY <2>3, Zenon
  <2> QED
    BY <2>2, <2>4, <2>5
<1>2. IsFiniteSet(A) /\ Cardinality(A) <= Cardinality(B) /\ Cardinality(A) # Cardinality(B)
  BY <1>1, FS_Subset
<1>3. Cardinality(A) \in Nat /\ Cardinality(B) \in Nat
  BY <1>1, <1>2, FS_CardinalityType
<1> QED
  BY <1>2, <1>3 DEF Rank

\* A rank is a position of the list of I's elements.
LEMMA RankRange ==
  ASSUME NEW I \in SUBSET Nat, IsFiniteSet(I), NEW i \in I
  PROVE  Rank(I, i) \in 1..Cardinality(I)
<1> DEFINE A == {m \in I : m <= i}
<1>1. A \in SUBSET I /\ i \in A
  OBVIOUS
<1>2. IsFiniteSet(A) /\ Cardinality(A) <= Cardinality(I)
  BY <1>1, FS_Subset
<1>3. Cardinality(A) \in Nat /\ Cardinality(I) \in Nat /\ Cardinality(A) # 0
  BY <1>1, <1>2, FS_CardinalityType, FS_EmptySet
<1> QED
  BY <1>2, <1>3 DEF Rank

\* Every place of that list is taken: an injection into a set of the same size
\* is onto.
LEMMA NthOfPlace ==
  ASSUME NEW I \in SUBSET Nat, IsFiniteSet(I), NEW j \in 1..Cardinality(I)
  PROVE  Nth(I, j) \in I /\ Rank(I, Nth(I, j)) = j
<1> DEFINE n == Cardinality(I)
           f == [i \in I |-> Rank(I, i)]
<1>1. n \in Nat /\ IsFiniteSet(1..n) /\ Cardinality(1..n) = n
  BY FS_CardinalityType, FS_Interval
<1>2. f \in [I -> 1..n]
  BY RankRange
<1>3. \A a, b \in I : f[a] = f[b] => a = b
  <2> SUFFICES ASSUME NEW a \in I, NEW b \in I, f[a] = f[b], a # b PROVE FALSE
    OBVIOUS
  <2>1. f[a] \in Nat /\ f[b] \in Nat
    BY <1>1, <1>2
  <2>2. a < b \/ b < a
    OBVIOUS
  <2>3. CASE a < b
    BY <2>1, <2>3, RankInjective
  <2>4. CASE b < a
    BY <2>1, <2>4, RankInjective
  <2> QED
    BY <2>2, <2>3, <2>4
<1>4. f \in Injection(I, 1..n)
  BY <1>2, <1>3 DEF Injection, IsInjective
<1>5. f \in Surjection(I, 1..n)
  BY <1>1, <1>4, FS_Injection
<1>6. \E i \in I : Rank(I, i) = j
  <2>1. \E i \in I : f[i] = j
    <3> HIDE DEF f
    <3> QED BY <1>5 DEF Surjection
  <2> QED
    BY <2>1
<1> QED
  BY <1>6 DEF Nth

\* Nth is the inverse of Rank.
LEMMA NthOfRank ==
  ASSUME NEW I \in SUBSET Nat, IsFiniteSet(I), NEW i \in I
  PROVE  Nth(I, Rank(I, i)) = i
<1> DEFINE k == Nth(I, Rank(I, i))
<1>1. Rank(I, i) \in 1..Cardinality(I) /\ Cardinality(I) \in Nat
  BY RankRange, FS_CardinalityType
<1>2. k \in I /\ Rank(I, k) = Rank(I, i)
  BY <1>1, NthOfPlace
<1> HIDE DEF k
<1>3. i \in Nat /\ k \in Nat /\ Rank(I, i) \in Nat
  BY <1>1, <1>2
<1>4. ~(k < i) /\ ~(i < k)
  BY <1>2, <1>3, RankInjective
<1>5. k = i
  BY <1>3, <1>4
<1> QED
  BY <1>5 DEF k

\* Vec::retain keeps exactly the elements at the chosen positions, one place
\* each, in the order they had: the maintainer's reap and the sweep of pick
\* neither duplicate, lose nor reorder a slot.
THEOREM RetainCorrect ==
  ASSUME NEW S, NEW s \in Seq(S), NEW I \in SUBSET DOMAIN s
  PROVE  LET t == Retain(s, I)
             at(j) == Nth(I, j)
         IN  /\ t \in Seq(S) /\ Len(t) = Cardinality(I) /\ DOMAIN t = 1..Cardinality(I)
             /\ \A j \in DOMAIN t : at(j) \in I /\ t[j] = s[at(j)]
             /\ \A i \in I : \E j \in DOMAIN t : at(j) = i
             /\ \A j, k \in DOMAIN t : j < k => at(j) < at(k)
<1> DEFINE t == Retain(s, I)
           n == Cardinality(I)
<1>1. IsFiniteSet(I) /\ I \in SUBSET Nat /\ n \in Nat
  BY DomainFinite
<1>2. \A j \in 1..n : Nth(I, j) \in I /\ Rank(I, Nth(I, j)) = j
  BY <1>1, NthOfPlace
<1>3. t = [j \in 1..n |-> s[Nth(I, j)]]
  BY DEF Retain
<1>4. t \in Seq(S) /\ Len(t) = n /\ DOMAIN t = 1..n
  <2>1. \A j \in 1..n : s[Nth(I, j)] \in S
    BY <1>2
  <2> QED
    BY <1>1, <1>3, <2>1
<1>5. \A j \in 1..n : Nth(I, j) \in I /\ t[j] = s[Nth(I, j)]
  BY <1>2, <1>3
<1>6. \A i \in I : \E j \in 1..n : Nth(I, j) = i
  BY <1>1, RankRange, NthOfRank
<1>7. \A j, k \in 1..n : j < k => Nth(I, j) < Nth(I, k)
  <2> SUFFICES ASSUME NEW j \in 1..n, NEW k \in 1..n, j < k, ~(Nth(I, j) < Nth(I, k))
               PROVE  FALSE
    OBVIOUS
  <2> DEFINE a == Nth(I, j)
             b == Nth(I, k)
  <2>1. a \in I /\ b \in I /\ Rank(I, a) = j /\ Rank(I, b) = k
    BY <1>2
  <2>2. b < a \/ a = b
    BY <1>1, <2>1
  <2>3. CASE b < a
    BY <1>1, <2>1, <2>3, RankInjective
  <2> QED
    BY <2>1, <2>2, <2>3
<1> QED
  BY <1>4, <1>5, <1>6, <1>7, Zenon

-----------------------------------------------------------------------------
\* Where the refill loop stands: a build in progress has at least one to do,
\* and between build and push the new slot is in hand.
Shape ==
  /\ pc \in {"dial", "push"} => todo >= 1
  /\ pc = "push" => hand \in Slot

\* No circuit is in the pool twice.
OneSlotEach(s) == \A i, j \in DOMAIN s : s[i].id = s[j].id => i = j

\* The circuit in hand is new: not in the pool, not leased, not retired.
HandNew ==
  pc = "push" => /\ hand.id \notin Ids(slots) /\ hand.draining = None
                 /\ \A r \in Requests : lease[r] # hand.id

\* What is left of a draining circuit's time, with what a request on it has
\* already had, makes up a whole DrainTimeout.
GraceLeft(s) ==
  \A r \in Requests : \A i \in DOMAIN s :
    s[i].id = lease[r] /\ s[i].draining # None => held[r] + s[i].draining >= DrainTimeout

\* The builds still to do fit under the target.
Room == Cardinality(Ready) + (IF pc \in {"dial", "push"} THEN todo ELSE 0) <= Target

Sound ==
  /\ TypeOK /\ Shape /\ ActiveExact /\ OneSlotEach(slots) /\ HandNew
  /\ GraceLeft(slots) /\ MinGrace /\ Room

-----------------------------------------------------------------------------
LEMMA ModRange ==
  ASSUME NEW a \in Nat, NEW b \in Nat \ {0}
  PROVE  a % b \in 0..(b - 1)
OBVIOUS

\* The slots a retain keeps are slots of the old list, each once.
LEMMA Retained ==
  ASSUME NEW s \in Seq(Slot), NEW I \in SUBSET DOMAIN s
  PROVE  /\ Retain(s, I) \in Seq(Slot)
         /\ \A j \in DOMAIN Retain(s, I) : \E i \in I : Retain(s, I)[j] = s[i]
         /\ \A i \in I : \E j \in DOMAIN Retain(s, I) : Retain(s, I)[j] = s[i]
         /\ OneSlotEach(s) => OneSlotEach(Retain(s, I))
<1> DEFINE t == Retain(s, I)
<1>1. /\ t \in Seq(Slot)
      /\ \A j \in DOMAIN t : Nth(I, j) \in I /\ t[j] = s[Nth(I, j)]
      /\ \A i \in I : \E j \in DOMAIN t : Nth(I, j) = i
      /\ \A j, k \in DOMAIN t : j < k => Nth(I, j) < Nth(I, k)
  BY RetainCorrect
<1>2. DOMAIN t \subseteq Nat /\ I \subseteq Nat
  BY <1>1
<1> HIDE DEF t
<1>3. ASSUME OneSlotEach(s) PROVE OneSlotEach(t)
  <2> SUFFICES ASSUME NEW j \in DOMAIN t, NEW k \in DOMAIN t, t[j].id = t[k].id, j # k
               PROVE  FALSE
    BY DEF OneSlotEach
  <2>1. Nth(I, j) = Nth(I, k)
    BY <1>1, <1>3 DEF OneSlotEach
  <2>2. j < k \/ k < j
    BY <1>2
  <2>3. Nth(I, j) \in Nat
    BY <1>1, <1>2
  <2> QED
    BY <1>1, <2>1, <2>2, <2>3
<1>4. \A j \in DOMAIN t : \E i \in I : t[j] = s[i]
  BY <1>1
<1>5. \A i \in I : \E j \in DOMAIN t : t[j] = s[i]
  BY <1>1
<1> QED
  BY <1>1, <1>3, <1>4, <1>5 DEF t

\* The ready circuits are finitely many.
LEMMA ReadyFinite ==
  ASSUME TypeOK
  PROVE  IsFiniteSet(Ready) /\ Cardinality(Ready) \in Nat
<1> DEFINE J == {j \in DOMAIN slots : slots[j].draining = None}
           f == [i \in J |-> slots[i].id]
           D == {slots[i].id : i \in J}
<1>1. J \in SUBSET DOMAIN slots /\ slots \in Seq(Slot)
  BY DEF TypeOK
<1>2. IsFiniteSet(J)
  BY <1>1, DomainFinite
<1>3. f \in Surjection(J, D)
  BY DEF Surjection
<1>4. IsFiniteSet(D)
  BY <1>2, <1>3, FS_Surjection
<1>5. Ready \in SUBSET D
  BY DEF Ready
<1> QED
  BY <1>4, <1>5, FS_Subset, FS_CardinalityType

\* Fewer ready circuits, smaller count.
LEMMA ReadyShrinks ==
  ASSUME TypeOK, TypeOK', Ready' \subseteq Ready
  PROVE  Cardinality(Ready') \in Nat /\ Cardinality(Ready') <= Cardinality(Ready)
<1>1. IsFiniteSet(Ready)
  BY ReadyFinite
<1>2. IsFiniteSet(Ready') /\ Cardinality(Ready') <= Cardinality(Ready)
  BY <1>1, FS_Subset
<1> QED
  BY <1>2, FS_CardinalityType

\* A leased circuit has a positive in-flight count.
LEMMA LeasedIsActive ==
  ASSUME TypeOK, ActiveExact, NEW r \in Requests, lease[r] \in Circuits
  PROVE  active[lease[r]] \in Nat /\ active[lease[r]] # 0
<1> DEFINE R == {q \in Requests : lease[q] = lease[r]}
<1>1. R \in SUBSET Requests /\ r \in R /\ IsFiniteSet(Requests)
  BY PoolAssumption
<1>2. IsFiniteSet(R) /\ R # {}
  BY <1>1, FS_Subset
<1>3. Cardinality(R) \in Nat /\ Cardinality(R) # 0
  BY <1>2, FS_CardinalityType, FS_EmptySet
<1> QED
  BY <1>3 DEF ActiveExact

-----------------------------------------------------------------------------
LEMMA InitSound ==
  Init => Sound
<1> SUFFICES ASSUME Init PROVE Sound
  OBVIOUS
<1>1. TypeOK
  <2>1. slots \in Seq(Slot) /\ hand \in Slot \cup {None} /\ open \subseteq Circuits
    BY DEF Init
  <2>2. /\ held \in [Requests -> 0..DrainTimeout] /\ active \in [Circuits -> Nat]
        /\ lease \in [Requests -> Circuits \cup {None}]
    BY PoolAssumption DEF Init
  <2>3. /\ pc \in {"count", "dial", "push", "sleep"} /\ sleep \in 0..TickLen
        /\ todo \in 0..Target /\ front \in 0..(NumFronts - 1)
    BY PoolAssumption DEF Init
  <2>4. 0 \in 0..(CursorMod - 1) /\ 0 \in 0..(CounterMod - 1)
    BY PoolAssumption
  <2>5. /\ {rr, frontRr} \subseteq 0..(CursorMod - 1)
        /\ {built, retired, buildErrors, lost, est, transport} \subseteq 0..(CounterMod - 1)
    BY <2>4 DEF Init
  <2>6. started \in BOOLEAN
    BY Zenon DEF Init
  <2> QED
    BY <2>1, <2>2, <2>3, <2>5, <2>6 DEF TypeOK
<1>2. Shape /\ OneSlotEach(slots) /\ HandNew /\ GraceLeft(slots) /\ MinGrace
  BY DEF Init, Shape, OneSlotEach, HandNew, GraceLeft, MinGrace, Ids
<1>3. ActiveExact
  <2> SUFFICES ASSUME NEW c \in Circuits
               PROVE  active[c] = Cardinality({r \in Requests : lease[r] = c})
    BY DEF ActiveExact
  <2>1. {r \in Requests : lease[r] = c} = {}
    BY PoolAssumption DEF Init
  <2> QED
    BY <2>1, FS_EmptySet, Zenon DEF Init
<1>4. Room
  <2>1. Ready = {}
    BY DEF Init, Ready
  <2>2. Cardinality(Ready) = 0
    BY <2>1, FS_EmptySet
  <2> QED
    BY <2>2, PoolAssumption DEF Init, Room
<1> QED
  BY <1>1, <1>2, <1>3, <1>4 DEF Sound

\* What Proceed leaves behind.
LEMMA ProceedShape ==
  ASSUME TypeOK, NEW n \in 0..Target, Proceed(n)
  PROVE  /\ todo' = n /\ pc' \in {"dial", "sleep"} /\ (pc' = "dial" <=> n # 0)
         /\ sleep' \in 0..TickLen /\ front' \in 0..(NumFronts - 1)
         /\ frontRr' \in 0..(CursorMod - 1) /\ started' \in BOOLEAN
         /\ transport' \in 0..(CounterMod - 1)
<1>1. CASE n = 0
  BY <1>1, PoolAssumption DEF Proceed, TypeOK
<1>2. CASE n # 0
  <2>1. frontRr \in Nat /\ frontRr + 1 \in Nat
    BY SMTT(30) DEF TypeOK
  <2>2. front' \in 0..(NumFronts - 1)
    BY <1>2, <2>1, ModRange, PoolAssumption DEF Proceed
  <2>3. frontRr' \in 0..(CursorMod - 1)
    BY <1>2, <2>1, ModRange, PoolAssumption DEF Proceed, Step
  <2> QED
    BY <1>2, <2>2, <2>3 DEF Proceed, LatestTransport, TypeOK
<1> QED
  BY <1>1, <1>2

LEMMA BumpRange ==
  ASSUME NEW n \in 0..(CounterMod - 1), NEW k \in Nat
  PROVE  Bump(n, k) \in 0..(CounterMod - 1)
BY ModRange, PoolAssumption DEF Bump

LEMMA RefillCountSound ==
  ASSUME Sound, RefillCount
  PROVE  Sound'
<1> USE DEF Sound
<1>1. PICK n \in 0..Target : Proceed(n) /\ Cardinality(Ready) + n <= Target
  <2>1. Cardinality(Ready) \in Nat /\ Cardinality(Ready) <= Target
    BY ReadyFinite DEF Room, RefillCount
  <2> DEFINE n == Shortage
  <2>2. n \in 0..Target /\ Cardinality(Ready) + n <= Target
    BY <2>1, PoolAssumption DEF Shortage
  <2>3. Proceed(n)
    BY DEF RefillCount
  <2> QED
    BY <2>2, <2>3
<1>2. UNCHANGED <<slots, hand, open, lease, held, active, rr, built, retired, buildErrors,
                  lost, est>>
  BY DEF RefillCount, poolVars, leaseVars, counters
<1>3. Ready' = Ready
  BY <1>2 DEF Ready
<1>4. TypeOK'
  BY <1>1, <1>2, ProceedShape, Zenon DEF TypeOK
<1>5. Shape' /\ ActiveExact' /\ OneSlotEach(slots)' /\ HandNew' /\ GraceLeft(slots)' /\ MinGrace'
  BY <1>1, <1>2, ProceedShape DEF Shape, ActiveExact, OneSlotEach, HandNew, GraceLeft, MinGrace, Ids
<1>6. Room'
  BY <1>1, <1>3, ProceedShape, ReadyFinite DEF Room
<1> QED
  BY <1>4, <1>5, <1>6

LEMMA BuildErrSound ==
  ASSUME Sound, BuildErr
  PROVE  Sound'
<1> USE DEF Sound
<1>1. Proceed(0) /\ 0 \in 0..Target
  BY PoolAssumption DEF BuildErr
<1>2. UNCHANGED <<slots, hand, open, lease, held, active, rr, built, retired, lost, est>>
  BY DEF BuildErr, poolVars, leaseVars
<1>3. Ready' = Ready
  BY <1>2 DEF Ready
<1>4. buildErrors' \in 0..(CounterMod - 1)
  BY BumpRange DEF BuildErr, TypeOK
<1>5. TypeOK'
  BY <1>1, <1>2, <1>4, ProceedShape, Zenon DEF TypeOK
<1>6. Shape' /\ ActiveExact' /\ OneSlotEach(slots)' /\ HandNew' /\ GraceLeft(slots)' /\ MinGrace'
  BY <1>1, <1>2, ProceedShape DEF Shape, ActiveExact, OneSlotEach, HandNew, GraceLeft, MinGrace, Ids
<1>7. Room'
  <2>1. Cardinality(Ready) \in Nat
    BY ReadyFinite
  <2>2. todo \in Nat
    BY DEF TypeOK
  <2>3. pc' = "sleep"
    BY <1>1, ProceedShape
  <2> QED
    BY <1>3, <2>1, <2>2, <2>3, PoolAssumption DEF Room
<1> QED
  BY <1>5, <1>6, <1>7

\* Admitting a freshly dialled circuit: its identity is held by nothing.
LEMMA BuildOkSound ==
  ASSUME Sound, BuildOk
  PROVE  Sound'
<1> USE DEF Sound
<1>1. PICK c \in Unused :
        /\ hand' = [id |-> c, age |-> 0, uses |-> 0, draining |-> None, lastSampled |-> None]
        /\ open' = open \cup {c}
  BY Zenon DEF BuildOk
<1>2. c \in Circuits /\ c \notin Ids(slots) /\ \A r \in Requests : lease[r] # c
  BY PoolAssumption DEF Unused, Referenced
<1>3. pc = "dial" /\ pc' = "push" /\ built' = Bump(built, 1)
      /\ UNCHANGED <<slots, sleep, todo, front, transport, frontRr, started,
                     lease, held, active, rr, retired, buildErrors, lost, est>>
  BY DEF BuildOk, leaseVars
<1>4. hand' \in Slot
  BY <1>1, <1>2 DEF Slot
<1>5. built' \in 0..(CounterMod - 1)
  BY <1>3, BumpRange, Zenon DEF TypeOK
<1>6. TypeOK'
  BY <1>1, <1>2, <1>3, <1>4, <1>5, Zenon DEF TypeOK
<1>7. Shape' /\ ActiveExact' /\ OneSlotEach(slots)' /\ HandNew' /\ GraceLeft(slots)'
  BY <1>1, <1>2, <1>3, <1>4, Zenon DEF Shape, ActiveExact, OneSlotEach, HandNew, GraceLeft, Ids
<1>8. MinGrace'
  BY <1>1, <1>2, <1>3 DEF MinGrace, Ids
<1>9. Ready' = Ready
  BY <1>1, <1>2, <1>3 DEF Ready, Ids
<1>10. Room'
  BY <1>3, <1>9 DEF Room
<1> QED
  BY <1>6, <1>7, <1>8, <1>10

LEMMA PushSound ==
  ASSUME Sound, Push
  PROVE  Sound'
<1> USE DEF Sound
<1>1. pc = "push" /\ slots' = Append(slots, hand) /\ hand' = None /\ Proceed(todo - 1)
      /\ UNCHANGED <<open, lease, held, active, rr, built, retired, buildErrors, lost, est>>
  BY DEF Push, leaseVars, counters
<1>2. todo \in 1..Target /\ todo - 1 \in 0..Target /\ hand \in Slot
  BY <1>1, PoolAssumption DEF Shape, TypeOK
<1>3. /\ slots' \in Seq(Slot) /\ DOMAIN slots' = 1..(Len(slots) + 1) /\ DOMAIN slots = 1..Len(slots)
      /\ slots'[Len(slots) + 1] = hand /\ \A i \in DOMAIN slots : slots'[i] = slots[i]
  BY <1>1, <1>2, SMTT(30) DEF TypeOK
<1>4. TypeOK'
  BY <1>1, <1>2, <1>3, ProceedShape, Zenon DEF TypeOK
<1>5. \A i \in DOMAIN slots' : i \in DOMAIN slots \/ i = Len(slots) + 1
  BY <1>3, SMTT(30) DEF TypeOK
<1>6. OneSlotEach(slots)'
  <2>1. \A i \in DOMAIN slots : slots[i].id # hand.id
    BY <1>1 DEF HandNew, Ids
  <2> QED
    BY <2>1, <1>3, <1>5 DEF OneSlotEach
<1>7. Ids(slots') = Ids(slots) \cup {hand.id}
  BY <1>3, <1>5 DEF Ids
<1>8. GraceLeft(slots)' /\ MinGrace'
  BY <1>1, <1>3, <1>5, <1>7 DEF GraceLeft, MinGrace, HandNew
<1>9. Shape' /\ HandNew' /\ ActiveExact'
  BY <1>1, <1>2, ProceedShape DEF Shape, HandNew, ActiveExact
<1>10. Ready' \subseteq Ready \cup {hand.id}
  BY <1>1, <1>3, <1>5 DEF Ready
<1>11. Cardinality(Ready') <= Cardinality(Ready) + 1 /\ Cardinality(Ready') \in Nat
  <2>1. IsFiniteSet(Ready) /\ Cardinality(Ready) \in Nat
    BY ReadyFinite
  <2>2. IsFiniteSet(Ready \cup {hand.id})
        /\ Cardinality(Ready \cup {hand.id}) <= Cardinality(Ready) + 1
    BY <2>1, FS_AddElement
  <2>3. IsFiniteSet(Ready') /\ Cardinality(Ready') <= Cardinality(Ready \cup {hand.id})
    BY <1>10, <2>2, FS_Subset
  <2>4. Cardinality(Ready \cup {hand.id}) \in Nat /\ Cardinality(Ready') \in Nat
    BY <2>2, <2>3, FS_CardinalityType
  <2> QED
    BY <2>1, <2>2, <2>3, <2>4
<1>12. Room'
  <2>1. Cardinality(Ready) \in Nat /\ Cardinality(Ready) + todo <= Target
    BY <1>1, ReadyFinite DEF Room
  <2> QED
    BY <1>1, <1>2, <1>11, <2>1, ProceedShape, PoolAssumption, SMTT(30) DEF Room
<1> QED
  BY <1>4, <1>6, <1>8, <1>9, <1>12

\* With no more ready circuits and the same builds to do, there is room still.
LEMMA RoomKept ==
  ASSUME TypeOK, Room, TypeOK', Ready' \subseteq Ready, UNCHANGED <<pc, todo>>
  PROVE  Room'
<1>1. Cardinality(Ready) \in Nat
  BY ReadyFinite
<1>2. Cardinality(Ready') \in Nat /\ Cardinality(Ready') <= Cardinality(Ready)
  BY ReadyShrinks
<1>3. todo \in Nat
  BY DEF TypeOK
<1> QED
  BY <1>1, <1>2, <1>3, PoolAssumption DEF Room

-----------------------------------------------------------------------------
\* What pick's sweep of the closed circuits keeps.
LEMMA SweptFacts ==
  ASSUME Sound
  PROVE  /\ Swept \in Seq(Slot) /\ OneSlotEach(Swept)
         /\ \A j \in DOMAIN Swept : \E i \in DOMAIN slots : Swept[j] = slots[i]
         /\ Ids(Swept) = Ids(slots) \cap open
         /\ SweptLost \in 0..(CounterMod - 1)
<1> USE DEF Sound
<1>1. slots \in Seq(Slot) /\ LiveAt \in SUBSET DOMAIN slots
  BY DEF TypeOK, LiveAt
<1>2. /\ Swept \in Seq(Slot) /\ OneSlotEach(Swept)
      /\ \A j \in DOMAIN Swept : \E i \in LiveAt : Swept[j] = slots[i]
      /\ \A i \in LiveAt : \E j \in DOMAIN Swept : Swept[j] = slots[i]
  BY <1>1, Retained DEF Swept
<1>3. Ids(Swept) = Ids(slots) \cap open
  BY <1>2 DEF Ids, LiveAt
<1>4. SweptLost \in 0..(CounterMod - 1)
  <2> DEFINE U == Unretired(slots, DOMAIN slots \ LiveAt)
  <2>1. U \in SUBSET DOMAIN slots
    BY DEF Unretired
  <2>2. Cardinality(U) \in Nat
    BY <1>1, <2>1, DomainFinite, Zenon
  <2> QED
    BY <2>2, BumpRange DEF SweptLost, TypeOK
<1> QED
  BY <1>1, <1>2, <1>3, <1>4, SMTT(30) DEF LiveAt

\* Dropping closed circuits, with no other change to the slots' ids and drain
\* deadlines, keeps what Sound says of them.
LEMMA SweepSound ==
  ASSUME Sound, TypeOK', UNCHANGED <<hand, open, pc, todo>>,
         DOMAIN slots' = DOMAIN Swept,
         \A j \in DOMAIN Swept :
           slots'[j].id = Swept[j].id /\ slots'[j].draining = Swept[j].draining
  PROVE  /\ OneSlotEach(slots') /\ Ids(slots') = Ids(slots) \cap open /\ Room'
         /\ \A j \in DOMAIN slots' : \E i \in DOMAIN slots :
              slots'[j].id = slots[i].id /\ slots'[j].draining = slots[i].draining
<1> USE DEF Sound
<1>1. OneSlotEach(slots') /\ Ids(slots') = Ids(slots) \cap open
  <2>1. Ids(slots') = Ids(Swept)
    BY DEF Ids
  <2> QED
    BY <2>1, SweptFacts DEF OneSlotEach
<1>2. \A j \in DOMAIN slots' : \E i \in DOMAIN slots :
              slots'[j].id = slots[i].id /\ slots'[j].draining = slots[i].draining
  BY SweptFacts
<1>3. Ready' \subseteq Ready
  BY <1>2 DEF Ready
<1>4. Room'
  BY <1>3, RoomKept
<1> QED
  BY <1>1, <1>2, <1>4

LEMMA PickNoneSound ==
  ASSUME Sound, NEW r \in Requests, PickNone(r)
  PROVE  Sound'
<1> USE DEF Sound
<1>1. /\ slots' = Swept /\ lost' = SweptLost
      /\ UNCHANGED <<hand, open, pc, sleep, todo, front, transport, frontRr, started,
                     lease, held, active, rr, built, retired, buildErrors, est>>
  BY Zenon DEF PickNone, taskVars, leaseVars
<1>2. TypeOK'
  BY <1>1, SweptFacts, Zenon DEF TypeOK
<1>3. /\ OneSlotEach(slots') /\ Ids(slots') = Ids(slots) \cap open /\ Room'
      /\ \A j \in DOMAIN slots' : \E i \in DOMAIN slots :
           slots'[j].id = slots[i].id /\ slots'[j].draining = slots[i].draining
  BY <1>1, <1>2, SweepSound
<1>4. Shape' /\ ActiveExact' /\ HandNew' /\ MinGrace'
  BY <1>1, <1>3 DEF Shape, ActiveExact, HandNew, MinGrace
<1>5. GraceLeft(slots)'
  <2> SUFFICES ASSUME NEW q \in Requests, NEW j \in DOMAIN slots',
                      slots'[j].id = lease[q], slots'[j].draining # None
               PROVE  held[q] + slots'[j].draining >= DrainTimeout
    BY <1>1, Zenon DEF GraceLeft
  <2>1. PICK i \in DOMAIN slots :
          slots'[j].id = slots[i].id /\ slots'[j].draining = slots[i].draining
    BY <1>3, Zenon
  <2> QED
    BY <2>1, Zenon DEF GraceLeft
<1>6. OneSlotEach(slots)'
  BY <1>3 DEF OneSlotEach
<1> QED
  BY <1>2, <1>3, <1>4, <1>5, <1>6

\* The circuit that pick chooses is live, in rotation, and in the swept list.
LEMMA PickChoice ==
  ASSUME Sound, Pickable # {}
  PROVE  Nth(Pickable, (rr % Cardinality(Pickable)) + 1) \in Pickable
<1> USE DEF Sound
<1>1. Pickable \in SUBSET DOMAIN Swept /\ Swept \in Seq(Slot)
  BY SweptFacts DEF Pickable
<1>2. IsFiniteSet(Pickable) /\ Pickable \in SUBSET Nat
  BY <1>1, DomainFinite
<1>3. Cardinality(Pickable) \in Nat \ {0}
  BY <1>2, FS_CardinalityType, FS_EmptySet
<1>4. rr \in Nat
  BY DEF TypeOK
<1>5. (rr % Cardinality(Pickable)) + 1 \in 1..Cardinality(Pickable)
  <2>1. rr % Cardinality(Pickable) \in 0..(Cardinality(Pickable) - 1)
    BY <1>3, <1>4, ModRange
  <2> QED
    BY <1>3, <2>1
<1> QED
  BY <1>2, <1>5, NthOfPlace

LEMMA CountUse ==
  ASSUME NEW s \in Slot
  PROVE  LET t == [s EXCEPT !.uses = @ + 1]
         IN  t \in Slot /\ t.id = s.id /\ t.draining = s.draining
BY DEF Slot

LEMMA PickSound ==
  ASSUME Sound, NEW r \in Requests, Pick(r)
  PROVE  Sound'
<1> USE DEF Sound
<1>1. PICK i \in Pickable :
        LET c == Swept[i].id
        IN /\ slots' = [Swept EXCEPT ![i].uses = @ + 1]
           /\ active' = [active EXCEPT ![c] = @ + 1]
           /\ lease' = [lease EXCEPT ![r] = c]
  BY PickChoice, Zenon DEF Pick
<1> DEFINE c == Swept[i].id
<1>2. /\ lease[r] = None /\ held' = [held EXCEPT ![r] = 0] /\ lost' = SweptLost
      /\ rr' = Step(rr)
      /\ UNCHANGED <<hand, open, pc, sleep, todo, front, transport, frontRr, started,
                     built, retired, buildErrors, est>>
  BY DEF Pick, taskVars
<1>3. i \in DOMAIN Swept /\ Swept[i].draining = None /\ Swept \in Seq(Slot) /\ Swept[i] \in Slot
  BY SweptFacts DEF Pickable
<1>4. c \in Circuits /\ c \in Ids(slots)
  <2>1. c \in Ids(Swept)
    BY <1>3 DEF Ids
  <2> QED
    BY <1>3, <2>1, SweptFacts DEF Slot
<1>5. slots' \in Seq(Slot)
  <2>1. [Swept[i] EXCEPT !.uses = @ + 1] \in Slot
    BY <1>3, CountUse
  <2>2. slots' = [Swept EXCEPT ![i] = [Swept[i] EXCEPT !.uses = @ + 1]]
    BY <1>1
  <2> QED
    BY <1>3, <2>1, <2>2
<1>6. /\ DOMAIN slots' = DOMAIN Swept
      /\ \A j \in DOMAIN Swept :
           slots'[j].id = Swept[j].id /\ slots'[j].draining = Swept[j].draining
  <2>1. \A j \in DOMAIN Swept : Swept[j] \in Slot
    BY <1>3, SMTT(30)
  <2>2. slots' = [Swept EXCEPT ![i] = [Swept[i] EXCEPT !.uses = @ + 1]]
    BY <1>1, Zenon
  <2> QED
    BY <1>3, <2>1, <2>2, CountUse
<1>7. TypeOK'
  <2>1. rr' \in 0..(CursorMod - 1)
    <3>1. rr + 1 \in Nat
      BY DEF TypeOK
    <3> QED
      BY <1>2, <3>1, ModRange, PoolAssumption, SMTT(30) DEF Step
  <2>2. lease' \in [Requests -> Circuits \cup {None}]
    BY <1>1, <1>4, SMTT(30) DEF TypeOK
  <2>3. active' \in [Circuits -> Nat]
    <3>1. active \in [Circuits -> Nat] /\ active' = [active EXCEPT ![c] = @ + 1]
      BY <1>1 DEF TypeOK
    <3> HIDE DEF c, Sound
    <3> QED
      BY <1>4, <3>1
  <2>4. held' \in [Requests -> 0..DrainTimeout]
    <3>1. held \in [Requests -> 0..DrainTimeout] /\ 0 \in 0..DrainTimeout
      BY PoolAssumption DEF TypeOK
    <3> QED
      BY <1>2, <3>1, SMTT(30)
  <2>5. lost' \in 0..(CounterMod - 1)
    BY <1>2, SweptFacts, Zenon
  <2> QED
    BY <1>2, <1>5, <2>1, <2>2, <2>3, <2>4, <2>5, Zenon DEF TypeOK
<1>8. /\ OneSlotEach(slots') /\ Ids(slots') = Ids(slots) \cap open /\ Room'
      /\ \A j \in DOMAIN slots' : \E k \in DOMAIN slots :
           slots'[j].id = slots[k].id /\ slots'[j].draining = slots[k].draining
  BY <1>2, <1>6, <1>7, SweepSound
<1>9. \A q \in Requests : lease'[q] = (IF q = r THEN c ELSE lease[q])
                          /\ held'[q] = (IF q = r THEN 0 ELSE held[q])
  BY <1>1, <1>2, Zenon DEF TypeOK
<1>10. ActiveExact'
  <2> SUFFICES ASSUME NEW d \in Circuits
               PROVE  active'[d] = Cardinality({q \in Requests : lease'[q] = d})
    BY DEF ActiveExact
  <2> DEFINE R == {q \in Requests : lease[q] = d}
  <2>1. IsFiniteSet(R) /\ Cardinality(R) \in Nat /\ active[d] = Cardinality(R)
    <3>1. IsFiniteSet(R)
      BY PoolAssumption, FS_Subset
    <3> QED
      BY <3>1, FS_CardinalityType, Zenon DEF ActiveExact
  <2>2. CASE d = c
    <3>1. {q \in Requests : lease'[q] = d} = R \cup {r} /\ r \notin R
      BY <1>2, <1>4, <1>9, <2>2, PoolAssumption
    <3>2. Cardinality(R \cup {r}) = Cardinality(R) + 1
      BY <2>1, <3>1, FS_AddElement, Zenon
    <3> QED
      BY <1>1, <2>1, <2>2, <3>1, <3>2, Zenon DEF TypeOK
  <2>3. CASE d # c
    <3>1. {q \in Requests : lease'[q] = d} = R
      BY <1>2, <1>9, <2>3, PoolAssumption
    <3> QED
      BY <1>1, <2>1, <2>3, <3>1, Zenon DEF TypeOK
  <2> QED
    BY <2>2, <2>3, Zenon
<1>11. c \in Ids(slots')
  BY <1>3, <1>6, SMTT(30) DEF Ids
<1>12. Shape' /\ HandNew' /\ MinGrace'
  BY <1>2, <1>4, <1>8, <1>9, <1>11, Zenon DEF Shape, HandNew, MinGrace
<1>13. GraceLeft(slots)'
  <2> SUFFICES ASSUME NEW q \in Requests, NEW j \in DOMAIN slots',
                      slots'[j].id = lease'[q], slots'[j].draining # None
               PROVE  held'[q] + slots'[j].draining >= DrainTimeout
    BY <1>2, Zenon DEF GraceLeft
  <2>1. CASE q = r
    BY <1>3, <1>6, <1>8, <1>9, <2>1, SMTT(30) DEF OneSlotEach
  <2>2. CASE q # r
    BY <1>8, <1>9, <2>2 DEF GraceLeft
  <2> QED
    BY <2>1, <2>2, Zenon
<1>14. OneSlotEach(slots)'
  BY <1>8 DEF OneSlotEach
<1> QED
  BY <1>7, <1>8, <1>10, <1>12, <1>13, <1>14, Zenon

=============================================================================
