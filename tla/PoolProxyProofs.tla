-------------------------- MODULE PoolProxyProofs --------------------------
(***************************************************************************)
(* What the pool guarantees to those around it, from its invariant Sound.  *)
(*                                                                         *)
(*   The promise  Every step of the pool is a step of PoolPromise, whose   *)
(*                two sets are read off the slots, or is not seen there.   *)
(*   The proxy    Sound carries over to the composition, since a step of   *)
(*                the proxy is a step of the pool or leaves it alone;      *)
(*                Matched ties the proxy's stages to the pool's leases.    *)
(***************************************************************************)
EXTENDS PoolProxy, PoolRefinement, WarmPoolProofs

-----------------------------------------------------------------------------
\* The abstract state: the circuits in rotation and the circuits that drain.
InPool(s) == {s[i].id : i \in Unretired(s, DOMAIN s)}
Drain(s) == {s[i].id : i \in {j \in DOMAIN s : s[j].draining # None}}

\* Each circuit is in one of the two.
LEMMA PoolParts ==
  ASSUME NEW s \in Seq(Slot)
  PROVE  /\ Ids(s) = InPool(s) \cup Drain(s)
         /\ \A c : c \in InPool(s) <=> \E i \in DOMAIN s : s[i].id = c /\ s[i].draining = None
         /\ \A c : c \in Drain(s) <=> \E i \in DOMAIN s : s[i].id = c /\ s[i].draining # None
BY DEF Ids, InPool, Drain, Unretired

\* A step of the pool that the promise does not show.
LEMMA HiddenStep ==
  ASSUME UNCHANGED <<slots, open, lease, held>>
  PROVE  UNCHANGED Promise!pvars
BY DEF Promise!pvars, Draining

\* The refill loop: Connect when a circuit is built, Admit when it is pushed.
LEMMA RefillPromised ==
  ASSUME Sound, Refill
  PROVE  [Promise!Next]_(Promise!pvars)
<1>1. CASE RefillCount
  BY <1>1, HiddenStep DEF RefillCount, poolVars, leaseVars
<1>2. CASE BuildErr
  BY <1>2, HiddenStep DEF BuildErr, poolVars, leaseVars
<1>3. CASE BuildOk
  <2>1. PICK c \in Unused : open' = open \cup {c}
    BY <1>3, Zenon DEF BuildOk
  <2>2. UNCHANGED <<slots, lease, held>>
    BY <1>3 DEF BuildOk, leaseVars
  <2>3. c \in Circuits /\ c \notin Ids(slots) /\ c \notin open
        /\ \A r \in Requests : lease[r] # c
    BY PoolAssumption DEF Unused, Referenced
  <2>4. c \notin InPool(slots) \cup Drain(slots)
    BY <2>3, PoolParts DEF Sound, TypeOK
  <2>5. Promise!Connect(c)
    BY <2>1, <2>2, <2>3, <2>4 DEF Promise!Connect, Promise!Pool, InPool, Drain, Draining
  <2> QED
    BY <2>3, <2>5 DEF Promise!Next
<1>4. CASE Push
  <2>1. /\ pc = "push" /\ slots' = Append(slots, hand) /\ UNCHANGED <<open, lease, held>>
        /\ slots \in Seq(Slot) /\ hand \in Slot /\ todo \in Nat
    BY <1>4 DEF Push, leaseVars, Sound, Shape, TypeOK
  <2>2. PICK c \in Circuits : c = hand.id
    BY <2>1 DEF Slot
  <2>3. c \notin Ids(slots) /\ hand.draining = None /\ \A r \in Requests : lease[r] # c
    BY <2>1, <2>2 DEF Sound, HandNew
  <2>4. c \notin InPool(slots) \cup Drain(slots)
    BY <2>1, <2>3, PoolParts
  <2>5. InPool(slots') = InPool(slots) \cup {c} /\ Drain(slots') = Drain(slots)
    <3> DEFINE n == Len(slots) + 1
    <3>1. /\ slots' \in Seq(Slot) /\ DOMAIN slots' = DOMAIN slots \cup {n} /\ slots'[n] = hand
          /\ n \notin DOMAIN slots /\ \A i \in DOMAIN slots : slots'[i] = slots[i]
      BY <2>1
    <3> HIDE DEF n
    <3>2. Unretired(slots', DOMAIN slots') = Unretired(slots, DOMAIN slots) \cup {n}
      BY <2>3, <3>1 DEF Unretired
    <3>3. {j \in DOMAIN slots' : slots'[j].draining # None}
            = {j \in DOMAIN slots : slots[j].draining # None}
      BY <2>3, <3>1
    <3>4. InPool(slots') = InPool(slots) \cup {c}
      <4>1. Unretired(slots, DOMAIN slots) \subseteq DOMAIN slots
        BY DEF Unretired
      <4>2. \A d : d \in InPool(slots') <=> d \in InPool(slots) \/ d = c
        BY <2>2, <3>1, <3>2, <4>1, Zenon DEF InPool
      <4> QED
        BY <4>2
    <3>5. Drain(slots') = Drain(slots)
      <4> DEFINE J == {j \in DOMAIN slots : slots[j].draining # None}
      <4>1. \A j \in J : slots'[j] = slots[j]
        BY <3>1
      <4>2. Drain(slots') = {slots'[j].id : j \in J} /\ Drain(slots) = {slots[j].id : j \in J}
        BY <3>3, Zenon DEF Drain
      <4> HIDE DEF J
      <4>3. \A d : d \in {slots'[j].id : j \in J} <=> d \in {slots[j].id : j \in J}
        BY <4>1
      <4> QED
        BY <4>2, <4>3
    <3> QED
      BY <3>4, <3>5
  <2>6. Cardinality(InPool(slots) \cap open) < Target
    <3>1. InPool(slots) \cap open = Ready
      BY DEF InPool, Ready, Unretired
    <3>2. Cardinality(Ready) + todo <= Target /\ todo >= 1 /\ Cardinality(Ready) \in Nat
      BY <2>1, ReadyFinite DEF Sound, Room, Shape
    <3>3. todo \in Nat /\ Target \in Nat
      BY <2>1, PoolAssumption
    <3>4. Cardinality(Ready) < Target
      BY <3>2, <3>3
    <3> QED
      BY <3>1, <3>4, Zenon
  <2>7. Promise!Cardinality(InPool(slots) \cap open) = Cardinality(InPool(slots) \cap open)
    BY Zenon DEF Promise!Cardinality, Cardinality
  <2>8. Promise!Admit(c)
    BY <2>1, <2>3, <2>4, <2>5, <2>6, <2>7, Zenon
    DEF Promise!Admit, Promise!Pool, InPool, Drain, Draining
  <2> QED
    BY <2>8 DEF Promise!Next
<1> QED
  BY <1>1, <1>2, <1>3, <1>4 DEF Refill

\* The rotated pool: which circuits a tick leaves, and where.
LEMMA MaintainPromised ==
  ASSUME Sound, Sound', Maintain
  PROVE  Promise!Rotate
<1> DEFINE s == [i \in DOMAIN slots |-> Visit(slots[i])]
           kept == {i \in DOMAIN s : ~Reaped(s[i])}
<1>1. slots' = Retain(s, kept) /\ UNCHANGED <<open, lease, held>>
  BY DEF Maintain, leaseVars
<1>2. /\ slots \in Seq(Slot) /\ slots' \in Seq(Slot) /\ OneSlotEach(slots')
      /\ \A r \in Requests : held[r] \in Nat
  BY PoolAssumption DEF Sound, TypeOK
<1>3. /\ s \in Seq(Slot) /\ DOMAIN s = DOMAIN slots
      /\ \A i \in DOMAIN slots :
           s[i].id = slots[i].id
           /\ s[i].draining = IF Retiring(slots[i]) THEN DrainTimeout ELSE slots[i].draining
  <2>1. \A i \in DOMAIN slots : slots[i] \in Slot
    BY <1>2
  <2>2. \A i \in DOMAIN slots : Visit(slots[i]) \in Slot
    BY <2>1, VisitSlot
  <2> QED
    BY <1>2, <2>1, <2>2, VisitSlot
<1>4. \A j \in DOMAIN slots' : \E i \in DOMAIN slots : slots'[j] = s[i]
  <2>1. kept \in SUBSET DOMAIN s
    OBVIOUS
  <2> HIDE DEF s, kept
  <2> QED
    BY <1>1, <1>3, <2>1, Retained
<1> HIDE DEF s
<1>5. InPool(slots') \subseteq InPool(slots)
  <2> SUFFICES ASSUME NEW c \in InPool(slots') PROVE c \in InPool(slots)
    OBVIOUS
  <2>1. PICK j \in DOMAIN slots' : slots'[j].id = c /\ slots'[j].draining = None
    BY <1>2, PoolParts
  <2>2. PICK i \in DOMAIN slots : slots'[j] = s[i]
    BY <1>4
  <2>3. slots[i].id = c /\ slots[i].draining = None
    BY <1>3, <2>1, <2>2, PoolAssumption
  <2> QED
    BY <1>2, <2>3, PoolParts
<1>6. Drain(slots') \subseteq Ids(slots)
  BY <1>2, <1>3, <1>4, PoolParts DEF Ids
<1>7. InPool(slots') \cap Drain(slots') = {}
  BY <1>2, PoolParts DEF OneSlotEach
<1>8. \A c \in Ids(slots) \ Ids(slots') :
        c \notin open \/ \A r \in Requests : lease[r] = c => held[r] >= DrainTimeout
  <2> SUFFICES ASSUME NEW r \in Requests, lease[r] \in open, lease[r] \notin Ids(slots')
               PROVE  held[r] >= DrainTimeout
    OBVIOUS
  <2> QED
    BY <1>1 DEF Sound, MinGrace
<1>9. /\ Ids(slots) = InPool(slots) \cup Drain(slots)
      /\ Ids(slots') = InPool(slots') \cup Drain(slots')
  BY <1>2, PoolParts
<1> QED
  BY <1>1, <1>5, <1>6, <1>7, <1>8, <1>9, Zenon
  DEF Promise!Rotate, Promise!Pool, InPool, Drain, Draining

\* pick is the promise of a lease on a circuit in rotation; a drop is its release.
LEMMA RequestPromised ==
  ASSUME Sound, Sound', NEW r \in Requests, Pick(r) \/ PickNone(r) \/ Release(r)
  PROVE  [Promise!Next]_(Promise!pvars)
<1>1. ASSUME DOMAIN slots' = DOMAIN Swept,
             \A j \in DOMAIN Swept :
               slots'[j].id = Swept[j].id /\ slots'[j].draining = Swept[j].draining
      PROVE  InPool(slots') = InPool(slots) \cap open /\ Drain(slots') = Drain(slots) \cap open
  <2>1. slots \in Seq(Slot) /\ slots' \in Seq(Slot) /\ LiveAt \in SUBSET DOMAIN slots
    BY DEF Sound, TypeOK, LiveAt
  <2>2. /\ \A j \in DOMAIN Swept : \E i \in LiveAt : Swept[j] = slots[i]
        /\ \A i \in LiveAt : \E j \in DOMAIN Swept : Swept[j] = slots[i]
    BY <2>1, Retained DEF Swept
  <2>3. /\ \A j \in DOMAIN slots' : \E i \in LiveAt :
             slots'[j].id = slots[i].id /\ slots'[j].draining = slots[i].draining
        /\ \A i \in LiveAt : \E j \in DOMAIN slots' :
             slots'[j].id = slots[i].id /\ slots'[j].draining = slots[i].draining
    BY <1>1, <2>2
  <2>4. \A i : i \in LiveAt <=> i \in DOMAIN slots /\ slots[i].id \in open
    BY DEF LiveAt
  <2>5. /\ \A c : c \in InPool(slots) <=>
             \E i \in DOMAIN slots : slots[i].id = c /\ slots[i].draining = None
        /\ \A c : c \in InPool(slots') <=>
             \E i \in DOMAIN slots' : slots'[i].id = c /\ slots'[i].draining = None
        /\ \A c : c \in Drain(slots) <=>
             \E i \in DOMAIN slots : slots[i].id = c /\ slots[i].draining # None
        /\ \A c : c \in Drain(slots') <=>
             \E i \in DOMAIN slots' : slots'[i].id = c /\ slots'[i].draining # None
    BY <2>1, PoolParts
  <2>6. \A c : c \in InPool(slots') <=> c \in InPool(slots) /\ c \in open
    BY <2>3, <2>4, <2>5
  <2>7. \A c : c \in Drain(slots') <=> c \in Drain(slots) /\ c \in open
    BY <2>3, <2>4, <2>5
  <2> QED
    BY <2>6, <2>7, Zenon
<1>2. CASE Pick(r)
  <2>1. PICK i \in Pickable : /\ slots' = [Swept EXCEPT ![i].uses = @ + 1]
                              /\ lease' = [lease EXCEPT ![r] = Swept[i].id]
    BY <1>2, PickChoice, Zenon DEF Pick
  <2>2. lease[r] = None /\ held' = [held EXCEPT ![r] = 0] /\ open' = open
    BY <1>2 DEF Pick
  <2>3. \A j \in DOMAIN Swept : Swept[j] \in Slot
    BY SweptFacts
  <2>4. /\ slots' = [Swept EXCEPT ![i] = [Swept[i] EXCEPT !.uses = @ + 1]] /\ i \in DOMAIN Swept
        /\ Swept[i].draining = None
    BY <2>1 DEF Pickable
  <2>5. DOMAIN slots' = DOMAIN Swept
        /\ \A j \in DOMAIN Swept :
             slots'[j].id = Swept[j].id /\ slots'[j].draining = Swept[j].draining
    BY <2>3, <2>4, CountUse
  <2>6. PICK c \in Circuits : c = Swept[i].id
    BY <2>3, <2>4 DEF Slot
  <2>7. c \in InPool(slots) /\ c \in open
    <3>1. c \in InPool(slots')
      BY <2>4, <2>5, <2>6, PoolParts, Zenon DEF Sound, TypeOK
    <3> QED
      BY <1>1, <2>5, <3>1
  <2>8. Promise!Take(r, c)
    BY <1>1, <2>1, <2>2, <2>5, <2>6, <2>7, Zenon DEF Promise!Take, InPool, Drain, Draining
  <2> QED
    BY <2>8, Zenon DEF Promise!Next
<1>3. CASE PickNone(r)
  <2>1. slots' = Swept /\ UNCHANGED <<open, lease, held>>
    BY <1>3 DEF PickNone, leaseVars
  <2>2. Promise!Sweep
    BY <1>1, <2>1, Zenon DEF Promise!Sweep, InPool, Drain, Draining
  <2> QED
    BY <2>2 DEF Promise!Next
<1>4. CASE Release(r)
  <2>1. Promise!GiveBack(r)
    BY <1>4 DEF Release, poolVars, Promise!GiveBack, Draining
  <2> QED
    BY <2>1 DEF Promise!Next
<1> QED
  BY <1>2, <1>3, <1>4

\* Every step of the pool is one of the promise, or is not seen there.
LEMMA StepPromised ==
  ASSUME Sound, [Next]_vars
  PROVE  [Promise!Next]_(Promise!pvars)
<1>1. Sound'
  BY StepSound
<1>2. CASE Refill
  BY <1>2, RefillPromised
<1>3. CASE Maintain
  <2>1. Promise!Rotate
    BY <1>1, <1>3, MaintainPromised
  <2> QED
    BY <2>1 DEF Promise!Next
<1>4. ASSUME NEW r \in Requests, Pick(r) \/ PickNone(r) \/ Release(r)
      PROVE  [Promise!Next]_(Promise!pvars)
  BY <1>1, <1>4, RequestPromised
<1>5. ASSUME NEW c \in Circuits, Close(c) PROVE [Promise!Next]_(Promise!pvars)
  <2>1. Promise!Fail(c)
    BY <1>5 DEF Close, leaseVars, Promise!Fail, Draining
  <2> QED
    BY <2>1 DEF Promise!Next
<1>6. CASE Time
  <2>1. /\ slots' = [i \in DOMAIN slots |-> Older(slots[i])]
        /\ held' = [r \in Requests |->
                      IF lease[r] # None /\ held[r] < DrainTimeout THEN held[r] + 1 ELSE held[r]]
        /\ UNCHANGED <<open, lease>>
    BY <1>6 DEF Time
  <2>2. \A i \in DOMAIN slots : slots[i] \in Slot
    BY DEF Sound, TypeOK
  <2>3. /\ DOMAIN slots' = DOMAIN slots
        /\ \A i \in DOMAIN slots :
             slots'[i].id = slots[i].id /\ (slots'[i].draining = None <=> slots[i].draining = None)
    BY <2>1, <2>2, OlderSlot
  <2>4. InPool(slots') = InPool(slots) /\ Drain(slots') = Drain(slots)
    <3>1. Unretired(slots', DOMAIN slots') = Unretired(slots, DOMAIN slots)
          /\ {j \in DOMAIN slots' : slots'[j].draining # None}
               = {j \in DOMAIN slots : slots[j].draining # None}
      BY <2>3 DEF Unretired
    <3>2. Unretired(slots, DOMAIN slots) \subseteq DOMAIN slots
      BY DEF Unretired
    <3> QED
      BY <2>3, <3>1, <3>2 DEF InPool, Drain
  <2>5. Promise!Elapse
    BY <2>1, <2>4, Zenon DEF Promise!Elapse, InPool, Drain, Draining
  <2> QED
    BY <2>5 DEF Promise!Next
<1>7. CASE UNCHANGED vars
  BY <1>7, HiddenStep DEF vars, poolVars, leaseVars
<1> QED
  BY <1>2, <1>3, <1>4, <1>5, <1>6, <1>7 DEF Next

\* The pool keeps its promise: with all its slots, stale counts, relative
\* deadlines and cursors it implements PoolPromise, step by step.
THEOREM PoolKeepsPromise == Spec => KeepsPromise
<1>1. Init => Promise!Init
  BY DEF Init, Promise!Init, Unretired, Draining
<1> QED
  BY <1>1, AlwaysSound, StepPromised, PTL DEF Spec, KeepsPromise, Promise!Spec

-----------------------------------------------------------------------------
\* A request holds a lease exactly while a handler that owns one serves it; the
\* stream is on the leased circuit and the two clocks agree.
Matched ==
  \A r \in Requests :
    /\ stage[r] \in Leasing <=> lease[r] # None
    /\ stage[r] \in Leasing => via[r] = lease[r] /\ busy[r] = held[r]

ProxySound == Sound /\ ProxyTypeOK /\ Matched

\* A step of the proxy, seen by the pool.
LEMMA ProxyStepOfPool ==
  ASSUME ProxyNext
  PROVE  [Next]_vars
<1>1. ASSUME NEW r \in Requests, OpenTunnel(r) \/ BodyDone(r) PROVE UNCHANGED vars
  BY <1>1 DEF OpenTunnel, BodyDone
<1>2. ASSUME NEW r \in Requests, Unavailable(r) \/ End(r) \/ Headers(r)
      PROVE  PickNone(r) \/ Release(r)
  BY <1>2 DEF Unavailable, End, Headers
<1>3. ASSUME NEW r \in Requests, NEW s \in Leasing, Accept(r, s) PROVE Pick(r)
  BY <1>3 DEF Accept
<1>4. ASSUME NEW c \in Circuits, CutOff(c) PROVE Close(c)
  BY <1>4 DEF CutOff
<1>5. Elapse => Time
  BY DEF Elapse
<1> QED
  BY <1>1, <1>2, <1>3, <1>4, <1>5 DEF ProxyNext, Next

\* No request is served yet.
LEMMA ProxyInitSound == ProxyInit => ProxySound
<1> SUFFICES ASSUME ProxyInit PROVE ProxySound
  OBVIOUS
<1>1. Sound
  BY InitSound DEF ProxyInit
<1>2. ProxyTypeOK
  BY <1>1, PoolAssumption DEF ProxyInit, ProxyTypeOK, Sound, Stages
<1>3. Matched
  BY DEF ProxyInit, Init, Matched, Leasing
<1> QED
  BY <1>1, <1>2, <1>3 DEF ProxySound

\* Steps of the pool that concern no request leave the match as it is.
LEMMA OthersMatched ==
  ASSUME ProxySound, Sound', UNCHANGED proxyVars, UNCHANGED <<lease, held>>
  PROVE  ProxyTypeOK' /\ Matched'
BY DEF ProxySound, ProxyTypeOK, Matched, proxyVars, Sound

\* A request that gets a circuit holds its lease from then on.
LEMMA AcceptMatched ==
  ASSUME ProxySound, Sound', NEW r \in Requests, NEW s \in Leasing, Accept(r, s)
  PROVE  ProxyTypeOK' /\ Matched'
<1>1. /\ stage[r] = "idle" /\ stage' = [stage EXCEPT ![r] = s]
      /\ via' = [via EXCEPT ![r] = lease'[r]] /\ busy' = [busy EXCEPT ![r] = 0]
  BY Zenon DEF Accept, Move
<1>2. PICK i \in Pickable : lease' = [lease EXCEPT ![r] = Swept[i].id]
  BY PickChoice, Zenon DEF Accept, Pick, ProxySound
<1>3. held' = [held EXCEPT ![r] = 0]
  BY DEF Accept, Pick
<1>4. Swept[i].id \in Circuits /\ Swept[i].id # None
  <2>1. Swept \in Seq(Slot) /\ i \in DOMAIN Swept
    BY SweptFacts DEF ProxySound, Pickable
  <2>2. Swept[i] \in Slot
    BY <2>1
  <2> QED
    BY <2>2, PoolAssumption DEF Slot
<1>5. /\ stage \in [Requests -> Stages] /\ via \in [Requests -> Circuits \cup {None}]
      /\ busy \in [Requests -> 0..DrainTimeout] /\ DrainTimeout \in Nat
      /\ lease \in [Requests -> Circuits \cup {None}] /\ held \in [Requests -> 0..DrainTimeout]
  BY PoolAssumption, Zenon DEF ProxySound, ProxyTypeOK, TypeOK
<1>6. ProxyTypeOK'
  BY <1>1, <1>2, <1>4, <1>5 DEF ProxyTypeOK, Sound, Stages
<1>7. \A q \in Requests :
        IF q = r
        THEN stage'[q] = s /\ via'[q] = lease'[q] /\ busy'[q] = held'[q] /\ lease'[q] # None
        ELSE /\ stage'[q] = stage[q] /\ via'[q] = via[q] /\ busy'[q] = busy[q]
             /\ lease'[q] = lease[q] /\ held'[q] = held[q]
  BY <1>1, <1>2, <1>3, <1>4, <1>5, Zenon
<1>8. Matched'
  BY <1>7 DEF ProxySound, Matched
<1> QED
  BY <1>6, <1>8

\* A handler that moves on keeps its lease, one that returns drops it, and a body
\* that streams after that has none.
LEMMA LeaveMatched ==
  ASSUME ProxySound, Sound', NEW r \in Requests,
         End(r) \/ Headers(r) \/ BodyDone(r) \/ OpenTunnel(r)
  PROVE  ProxyTypeOK' /\ Matched'
<1>1. /\ stage \in [Requests -> Stages] /\ via \in [Requests -> Circuits \cup {None}]
      /\ busy \in [Requests -> 0..DrainTimeout] /\ DrainTimeout \in Nat
      /\ lease \in [Requests -> Circuits \cup {None}] /\ held \in [Requests -> 0..DrainTimeout]
  BY PoolAssumption, Zenon DEF ProxySound, ProxyTypeOK, TypeOK
<1>2. PICK s \in Stages :
        /\ stage' = [stage EXCEPT ![r] = s] /\ busy' = busy
        /\ via' = [via EXCEPT ![r] = None] \/ (via' = via /\ s # "idle")
        /\ \/ s \notin Leasing /\ Release(r)
           \/ s \notin Leasing /\ stage[r] \notin Leasing /\ UNCHANGED vars
           \/ s \in Leasing /\ stage[r] \in Leasing /\ UNCHANGED vars /\ via' = via
  BY DEF End, Headers, BodyDone, OpenTunnel, Move, Stages, Leasing
<1>3. ProxyTypeOK'
  BY <1>1, <1>2 DEF ProxyTypeOK, Sound
<1>4. Matched'
  <2>1. CASE s \notin Leasing /\ Release(r)
    <3>1. lease' = [lease EXCEPT ![r] = None] /\ held' = [held EXCEPT ![r] = 0]
      BY <2>1 DEF Release
    <3>2. \A q \in Requests :
            IF q = r THEN stage'[q] = s /\ lease'[q] = None
            ELSE /\ stage'[q] = stage[q] /\ via'[q] = via[q] /\ busy'[q] = busy[q]
                 /\ lease'[q] = lease[q] /\ held'[q] = held[q]
      BY <1>1, <1>2, <3>1, Zenon
    <3> QED
      BY <2>1, <3>2 DEF ProxySound, Matched
  <2>2. CASE s \notin Leasing /\ stage[r] \notin Leasing /\ UNCHANGED vars
    <3>1. \A q \in Requests :
            IF q = r THEN stage'[q] = s
            ELSE stage'[q] = stage[q] /\ via'[q] = via[q] /\ busy'[q] = busy[q]
      BY <1>1, <1>2
    <3>2. lease' = lease /\ held' = held
      BY <2>2, Zenon DEF vars, leaseVars
    <3> QED
      BY <2>2, <3>1, <3>2 DEF ProxySound, Matched
  <2>3. CASE s \in Leasing /\ stage[r] \in Leasing /\ UNCHANGED vars /\ via' = via
    <3>1. \A q \in Requests : stage'[q] = IF q = r THEN s ELSE stage[q]
      BY <1>1, <1>2
    <3>2. lease' = lease /\ held' = held
      BY <2>3 DEF vars, leaseVars
    <3> QED
      BY <1>2, <2>3, <3>1, <3>2, Zenon DEF ProxySound, Matched
  <2> QED
    BY <1>2, <2>1, <2>2, <2>3, Zenon
<1> QED
  BY <1>3, <1>4, Zenon

\* A connection that closes cuts off bodies only, which hold no lease.
LEMMA CutOffMatched ==
  ASSUME ProxySound, Sound', NEW c \in Circuits, CutOff(c)
  PROVE  ProxyTypeOK' /\ Matched'
<1> DEFINE cut == {r \in Requests : stage[r] = "body" /\ via[r] = c}
<1>1. /\ stage' = [r \in Requests |-> IF r \in cut THEN "idle" ELSE stage[r]]
      /\ via' = [r \in Requests |-> IF r \in cut THEN None ELSE via[r]]
      /\ busy' = busy /\ lease' = lease /\ held' = held
  BY DEF CutOff, Close, leaseVars
<1>2. ProxyTypeOK'
  BY <1>1 DEF ProxySound, ProxyTypeOK, Sound, Stages
<1>3. \A r \in Requests : stage[r] \in Leasing \/ stage'[r] \in Leasing =>
                          stage'[r] = stage[r] /\ via'[r] = via[r]
  BY <1>1 DEF Leasing
<1>4. Matched'
  BY <1>1, <1>3 DEF ProxySound, Matched
<1> QED
  BY <1>2, <1>4, Zenon

\* Service and lease began together, and both of their clocks stop at DrainTimeout.
LEMMA ElapseMatched ==
  ASSUME ProxySound, Sound', Elapse
  PROVE  ProxyTypeOK' /\ Matched'
<1>1. /\ busy' = [r \in Requests |->
                    IF stage[r] # "idle" /\ busy[r] < DrainTimeout THEN busy[r] + 1 ELSE busy[r]]
      /\ held' = [r \in Requests |->
                    IF lease[r] # None /\ held[r] < DrainTimeout THEN held[r] + 1 ELSE held[r]]
      /\ UNCHANGED <<stage, via, lease>>
  BY DEF Elapse, Time
<1>2. busy \in [Requests -> 0..DrainTimeout] /\ DrainTimeout \in Nat
  BY PoolAssumption DEF ProxySound, ProxyTypeOK
<1>3. ProxyTypeOK'
  BY <1>1, <1>2 DEF ProxySound, ProxyTypeOK, Sound
<1>4. Matched'
  BY <1>1 DEF ProxySound, Matched, Leasing
<1> QED
  BY <1>3, <1>4

\* Every step of the composition keeps its invariant.
LEMMA ProxyStepSound ==
  ASSUME ProxySound, [ProxyNext]_allVars
  PROVE  ProxySound'
<1>1. CASE UNCHANGED allVars
  <2>1. UNCHANGED vars /\ UNCHANGED proxyVars
    BY <1>1 DEF allVars
  <2>2. Sound'
    BY <2>1, StepSound DEF ProxySound
  <2>3. UNCHANGED <<lease, held>>
    BY <2>1 DEF vars, leaseVars
  <2> QED
    BY <2>1, <2>2, <2>3, OthersMatched DEF ProxySound
<1>2. CASE ProxyNext
  <2>1. Sound'
    BY <1>2, ProxyStepOfPool, StepSound DEF ProxySound
  <2>2. CASE (Refill \/ Maintain) /\ UNCHANGED proxyVars
    <3>1. UNCHANGED <<lease, held>>
      BY <2>2 DEF Refill, RefillCount, BuildOk, BuildErr, Push, Maintain, leaseVars
    <3> QED
      BY <2>1, <2>2, <3>1, OthersMatched, Zenon DEF ProxySound
  <2>3. ASSUME NEW r \in Requests, Unavailable(r) PROVE ProxySound'
    <3>1. UNCHANGED <<lease, held>> /\ UNCHANGED proxyVars
      BY <2>3 DEF Unavailable, PickNone, leaseVars
    <3> QED
      BY <2>1, <3>1, OthersMatched, Zenon DEF ProxySound
  <2>4. ASSUME NEW r \in Requests, OpenTunnel(r) \/ End(r) \/ Headers(r) \/ BodyDone(r)
        PROVE  ProxySound'
    BY <2>1, <2>4, LeaveMatched DEF ProxySound
  <2>5. ASSUME NEW r \in Requests, NEW s \in Leasing, Accept(r, s) PROVE ProxySound'
    BY <2>1, <2>5, AcceptMatched DEF ProxySound
  <2>6. ASSUME NEW c \in Circuits, CutOff(c) PROVE ProxySound'
    BY <2>1, <2>6, CutOffMatched DEF ProxySound
  <2>7. CASE Elapse
    BY <2>1, <2>7, ElapseMatched DEF ProxySound
  <2> QED
    BY <1>2, <2>2, <2>3, <2>4, <2>5, <2>6, <2>7, Zenon DEF ProxyNext
<1> QED
  BY <1>1, <1>2

\* On every way out of a handler - refusal, failed upgrade, failed upstream, client
\* gone, tunnel over, headers passed on - the lease is given back exactly when the
\* handler ends; and as long as a handler has it, the pool keeps the circuit for
\* its DrainTimeout.
THEOREM LeasesFollowHandlers == ProxySpec => []LeasesMatchService
<1>1. ProxySound => LeasesMatchService
  <2> SUFFICES ASSUME ProxySound PROVE LeasesMatchService
    OBVIOUS
  <2>1. BusyIffServing
    <3> SUFFICES ASSUME NEW c \in Circuits
                 PROVE  active[c] =
                          Cardinality({r \in Requests : via[r] = c /\ stage[r] \in Leasing})
      BY DEF BusyIffServing
    <3>1. {r \in Requests : via[r] = c /\ stage[r] \in Leasing} = {r \in Requests : lease[r] = c}
      BY PoolAssumption DEF ProxySound, Matched
    <3> QED
      BY <3>1 DEF ProxySound, Sound, ActiveExact
  <2>2. ServingKept
    BY DEF ServingKept, Kept, ProxySound, Sound, MinGrace, Matched
  <2> QED
    BY <2>1, <2>2 DEF LeasesMatchService, ProxySound
<1> QED
  BY <1>1, ProxyInitSound, ProxyStepSound, PTL DEF ProxySpec

=============================================================================
