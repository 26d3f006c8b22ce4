------------------------------ MODULE WarmPool ------------------------------
(***************************************************************************)
(* The self-refilling pool of pre-warmed circuits behind the ingress proxy *)
(* (crates/quicmix-eval/src/proxy.rs).  Three kinds of actor share it: the *)
(* requests, which lease a circuit and drop the lease when they are done;  *)
(* the maintainer task, which retires, reaps and refills; and the network, *)
(* which closes connections.  Every critical section of the slots mutex is *)
(* one action, and the maintainer's refill, which counts under the lock    *)
(* and builds outside it, is one action per section.                       *)
(*                                                                         *)
(* Instants are kept relative: a slot's age stops at MaxAge, its drain     *)
(* deadline counts down to 0 and the time since its last sample stops at   *)
(* SampleEvery, which is all that the code's comparisons can tell apart.   *)
(* So the clock needs no bound and circuits may rotate forever.            *)
(***************************************************************************)
EXTENDS Vec

CONSTANTS
  Circuits,      \* identities of QUIC connections; one is reused when nothing holds it
  Requests,      \* the proxy's concurrent requests
  NumFronts,     \* fronts.len()
  GoodFronts,    \* the fronts that always connect; any other may fail each time
  Target, MaxUses, MaxAge, TickLen, DrainTimeout,   \* PoolConfig, in clock units
  SampleEvery,   \* SAMPLE_EVERY, in clock units
  Measured,      \* TRUE for start_measured, FALSE for start
  CounterMod,    \* where the AtomicU64 metrics wrap
  CursorMod,     \* where the AtomicUsize round-robin cursors wrap
  UseBound,      \* bound of the model: uses of one circuit
  None

Slot == [id : Circuits, age : Nat, uses : Nat,
         draining : Nat \cup {None}, lastSampled : Nat \cup {None}]

ASSUME PoolAssumption ==
  /\ NumFronts \in Nat \ {0}
  /\ GoodFronts \subseteq 0..(NumFronts - 1)
  /\ Target \in Nat /\ TickLen \in Nat /\ DrainTimeout \in Nat
  /\ SampleEvery \in Nat /\ UseBound \in Nat
  /\ MaxUses \in Nat \cup {None} /\ MaxAge \in Nat \cup {None}
  /\ Measured \in BOOLEAN
  /\ CounterMod \in Nat \ {0} /\ CursorMod \in Nat \ {0}
  /\ IsFiniteSet(Requests)
  /\ None \notin Nat /\ None \notin Circuits /\ None \notin Slot

VARIABLES
  slots,        \* the Vec<Slot> behind the mutex
  rr, frontRr,  \* round-robin cursors over the ready circuits and over the fronts
  built, retired, buildErrors,   \* the pool's metrics
  active,       \* Slot::active, shared with the leases
  open,         \* circuits whose connection has no close_reason
  lease,        \* the circuit each request holds a Lease on, or None
  held,         \* how long each request has held its lease, up to DrainTimeout
  pc, sleep,    \* the maintainer: its next section, the time it still sleeps
  todo,         \* builds left in the running refill
  front, transport,  \* the dial in progress: its front, the estimate it was configured from
  hand,         \* the slot built but not pushed yet, or None
  started,      \* the pre-warm is over: the pool was returned to its caller
  est,          \* the measured estimate, as the number of its observations
  lost          \* history: circuits dropped dead without having been retired

poolVars == <<slots, hand, open>>
taskVars == <<pc, sleep, todo, front, transport, frontRr, started>>
leaseVars == <<lease, held, active, rr>>
counters == <<built, retired, buildErrors, lost, est>>
vars == <<poolVars, taskVars, leaseVars, counters>>

\* fetch_add, wrapping: on the metrics and on the cursors
Bump(n, k) == (n + k) % CounterMod
\* (the first form is a bug: a cursor that stays where it is)
StepStuck(n) == n
Step(n) == (n + 1) % CursorMod

Ids(s) == {s[i].id : i \in DOMAIN s}

\* Circuits something holds: a slot, a lease or the refill that just built it.
Referenced ==
  Ids(slots) \cup {lease[r] : r \in {q \in Requests : lease[q] # None}}
             \cup (IF hand = None THEN {} ELSE {hand.id})

\* The non-draining, live circuits, which refill and len count.
Ready == {slots[i].id : i \in {j \in DOMAIN slots : slots[j].draining = None}} \cap open

\* The circuits that were retired and are still kept.
Draining == {slots[i].id : i \in {j \in DOMAIN slots : slots[j].draining # None}}

\* Slots among I that were never retired.
Unretired(s, I) == {i \in I : s[i].draining = None}

-----------------------------------------------------------------------------
\* spawn: an empty pool about to run its first refill.
Init ==
  /\ slots = <<>> /\ hand = None /\ open = {}
  /\ rr = 0 /\ frontRr = 0
  /\ built = 0 /\ retired = 0 /\ buildErrors = 0 /\ lost = 0 /\ est = 0
  /\ active = [c \in Circuits |-> 0]
  /\ lease = [r \in Requests |-> None]
  /\ held = [r \in Requests |-> 0]
  /\ pc = "count" /\ sleep = 0 /\ todo = 0 /\ front = 0 /\ transport = 0
  /\ started = FALSE

\* build_one reads the estimate.
LatestTransport == est

\* The refill loop with n builds to go: start the next one (build_one reads the
\* estimate, next_front moves the cursor), or leave the loop, and sleep.
Proceed(n) ==
  /\ todo' = n
  /\ IF n = 0
     THEN /\ pc' = "sleep" /\ sleep' = TickLen /\ started' = TRUE
          /\ UNCHANGED <<front, frontRr, transport>>
     ELSE /\ pc' = "dial"
          /\ front' = frontRr % NumFronts
          /\ frontRr' = Step(frontRr)
          /\ transport' = LatestTransport
          /\ UNCHANGED <<sleep, started>>

\* target.saturating_sub(ready) (the bug: counting nothing as ready).
ShortageUncounted == Target
Shortage == LET ready == Cardinality(Ready) IN IF ready < Target THEN Target - ready ELSE 0

\* refill: count the ready circuits under the lock, then start on the shortage.
RefillCount ==
  /\ pc = "count"
  /\ Proceed(Shortage)
  /\ UNCHANGED <<poolVars, leaseVars, counters>>

\* build_one: the handshake succeeded.  The identity is any that nothing holds.
Unused == Circuits \ (Referenced \cup open)
BuildOk ==
  /\ pc = "dial" /\ Unused # {}
  /\ LET c == CHOOSE d \in Unused : TRUE
     IN /\ hand' = [id |-> c, age |-> 0, uses |-> 0, draining |-> None, lastSampled |-> None]
        /\ open' = open \cup {c}
  /\ built' = Bump(built, 1)
  /\ pc' = "push"
  /\ UNCHANGED <<slots, sleep, todo, front, transport, frontRr, started, leaseVars,
                 retired, buildErrors, lost, est>>

\* build_one failed: count it and give up until the next tick.
BuildErr ==
  /\ pc = "dial" /\ front \notin GoodFronts
  /\ buildErrors' = Bump(buildErrors, 1)
  /\ Proceed(0)
  /\ UNCHANGED <<poolVars, leaseVars, built, retired, lost, est>>

\* refill: push the new slot under the lock, then go on.
Push ==
  /\ pc = "push"
  /\ slots' = Append(slots, hand)
  /\ hand' = None
  /\ Proceed(todo - 1)
  /\ UNCHANGED <<open, leaseVars, counters>>

-----------------------------------------------------------------------------
\* The sections of maintain: who is retired now (the bug: also who already was), ...
RetiringAgain(s) ==
  \/ MaxAge # None /\ s.age >= MaxAge
  \/ MaxUses # None /\ s.uses >= MaxUses
Retiring(s) ==
  /\ s.draining = None
  /\ \/ MaxAge # None /\ s.age >= MaxAge
     \/ MaxUses # None /\ s.uses >= MaxUses

\* ... who is sampled into the estimate, ...
Due(s) ==
  /\ Measured
  /\ s.lastSampled = None \/ s.lastSampled >= SampleEvery
  /\ s.id \in open

\* ... and who is reaped (the bugs: in-flight requests, or the deadline, ignored).
ReapedBusy(s) == s.id \notin open \/ s.draining # None
ReapedIdle(s) == s.id \notin open \/ (s.draining # None /\ active[s.id] = 0)
Reaped(s) ==
  \/ s.id \notin open
  \/ s.draining # None /\ (active[s.id] = 0 \/ s.draining = 0)

Visit(s) ==
  [s EXCEPT !.draining = IF Retiring(s) THEN DrainTimeout ELSE @,
            !.lastSampled = IF Due(s) THEN 0 ELSE @]

\* maintain: one tick's critical section.
Maintain ==
  /\ pc = "sleep" /\ sleep = 0
  /\ LET s == [i \in DOMAIN slots |-> Visit(slots[i])]
         kept == {i \in DOMAIN s : ~Reaped(s[i])}
     IN /\ slots' = Retain(s, kept)
        /\ retired' = Bump(retired, Cardinality({i \in DOMAIN s : Retiring(slots[i])}))
        /\ est' = Bump(est, Cardinality({i \in DOMAIN s : Due(slots[i])}))
        /\ lost' = Bump(lost, Cardinality(Unretired(s, DOMAIN s \ kept)))
  /\ pc' = "count"
  /\ UNCHANGED <<hand, open, sleep, todo, front, transport, frontRr, started, leaseVars,
                 built, buildErrors>>

-----------------------------------------------------------------------------
\* pick drops the closed circuits first, wherever they are in the pool.
LiveAt == {i \in DOMAIN slots : slots[i].id \in open}
Swept == Retain(slots, LiveAt)
SweptLost == Bump(lost, Cardinality(Unretired(slots, DOMAIN slots \ LiveAt)))
\* (the bug: draining circuits are given out too)
PickableAny == DOMAIN Swept
Pickable == {i \in DOMAIN Swept : Swept[i].draining = None}

\* pick: lease the next ready circuit in turn.
Pick(r) ==
  /\ started /\ lease[r] = None /\ Pickable # {}
  /\ LET i == Nth(Pickable, (rr % Cardinality(Pickable)) + 1)
         c == Swept[i].id
     IN /\ Swept[i].uses < UseBound
        /\ slots' = [Swept EXCEPT ![i].uses = @ + 1]
        /\ active' = [active EXCEPT ![c] = @ + 1]
        /\ lease' = [lease EXCEPT ![r] = c]
  /\ held' = [held EXCEPT ![r] = 0]
  /\ rr' = Step(rr)
  /\ lost' = SweptLost
  /\ UNCHANGED <<hand, open, taskVars, built, retired, buildErrors, est>>

\* pick with nothing ready: the request is answered 503.
PickNone(r) ==
  /\ started /\ lease[r] = None /\ Pickable = {}
  /\ slots' = Swept
  /\ lost' = SweptLost
  /\ UNCHANGED <<hand, open, taskVars, leaseVars, built, retired, buildErrors, est>>

\* Lease::drop gives the in-flight count back (the bug: it does not).
DropLeaky(c) == active
Drop(c) == [active EXCEPT ![c] = @ - 1]

\* A request is done with its lease.
Release(r) ==
  /\ lease[r] # None
  /\ active' = Drop(lease[r])
  /\ lease' = [lease EXCEPT ![r] = None]
  /\ held' = [held EXCEPT ![r] = 0]
  /\ UNCHANGED <<poolVars, rr, taskVars, counters>>

-----------------------------------------------------------------------------
\* A connection closes: the peer, an error, the idle timeout, or because its
\* last handle was dropped.
Close(c) ==
  /\ c \in open
  /\ open' = open \ {c}
  /\ UNCHANGED <<slots, hand, taskVars, leaseVars, counters>>
LetGo == \E c \in Circuits \ Referenced : Close(c)

\* Time on a slot.
Older(s) ==
  [s EXCEPT !.age = IF MaxAge # None /\ @ < MaxAge THEN @ + 1 ELSE @,
            !.draining = IF @ = None \/ @ = 0 THEN @ ELSE @ - 1,
            !.lastSampled = IF @ = None \/ @ >= SampleEvery THEN @ ELSE @ + 1]

\* One unit of time passes.
Time ==
  /\ sleep' = IF sleep = 0 THEN 0 ELSE sleep - 1
  /\ slots' = [i \in DOMAIN slots |-> Older(slots[i])]
  /\ hand' = IF hand = None THEN None ELSE Older(hand)
  /\ held' = [r \in Requests |->
                IF lease[r] # None /\ held[r] < DrainTimeout THEN held[r] + 1 ELSE held[r]]
  /\ UNCHANGED <<open, pc, todo, front, transport, frontRr, started, lease, active, rr,
                 counters>>

Refill == RefillCount \/ BuildOk \/ BuildErr \/ Push

Next ==
  \/ Refill
  \/ Maintain
  \/ \E r \in Requests : Pick(r) \/ PickNone(r) \/ Release(r)
  \/ \E c \in Circuits : Close(c)
  \/ Time

Spec == Init /\ [][Next]_vars

\* The maintainer task and the clock go on; a dial ends, one way or the other; a
\* connection without handles closes.  Nothing is assumed of requests (a lease
\* may be held forever) or of the other connections.
FairSpec ==
  Spec /\ WF_vars(Refill) /\ WF_vars(Maintain) /\ WF_vars(Time) /\ WF_vars(LetGo)

-----------------------------------------------------------------------------
TypeOK ==
  /\ slots \in Seq(Slot) /\ hand \in Slot \cup {None}
  /\ open \subseteq Circuits
  /\ lease \in [Requests -> Circuits \cup {None}]
  /\ held \in [Requests -> 0..DrainTimeout]
  /\ active \in [Circuits -> Nat]
  /\ pc \in {"count", "dial", "push", "sleep"}
  /\ sleep \in 0..TickLen /\ todo \in 0..Target
  /\ front \in 0..(NumFronts - 1) /\ started \in BOOLEAN
  /\ {rr, frontRr} \subseteq 0..(CursorMod - 1)
  /\ {built, retired, buildErrors, lost, est, transport} \subseteq 0..(CounterMod - 1)

\* The in-flight count that reaping trusts is exact: it is the number of leases
\* on the circuit, whatever the order of picks, drops and reaps (the counter
\* outlives the slot, in the Arc that pick clones and Lease::drop decrements).
ActiveExact ==
  \A c \in Circuits : active[c] = Cardinality({r \in Requests : lease[r] = c})

\* The drain promise: while its connection is up, the circuit a request leased
\* stays in the pool for at least DrainTimeout from the moment of the lease.
\* It rests on pick refusing draining circuits, on the deadline that maintain
\* sets when it retires one, and on both conditions of the reap.
MinGrace ==
  \A r \in Requests :
    lease[r] \in open /\ lease[r] \notin Ids(slots) => held[r] >= DrainTimeout

\* refill counts the ready circuits, lets go of the lock and builds what was
\* missing then; the stale count never takes the pool over its target.
ReadyBounded == Cardinality(Ready) <= Target

\* Every circuit built is in rotation, in the hands of refill, retired (once) or
\* was dropped dead before it was retired: the counters that
\* circuits_built_total and circuits_retired_total export add up.
RotationAccounting ==
  built = (Cardinality(Unretired(slots, DOMAIN slots)) + (IF hand = None THEN 0 ELSE 1)
           + retired + lost) % CounterMod

\* A retired circuit leaves the pool even when its request never finishes: the
\* drain deadline is reached, and the maintainer gets to it.
Drains ==
  \A c \in Circuits : c \in Draining ~> c \notin Draining

\* Self-healing: once no circuit is retired or closes any more, the pool
\* comes back to its target and stays there, although some fronts may fail
\* forever; next_front moves on after a failure, so a good one gets its turn.
Usable == Ready \cup (IF hand = None THEN {} ELSE {hand.id} \cap open)
Heals ==
  <>[][Usable \subseteq Usable']_vars => <>[](Cardinality(Ready) = Target)

=============================================================================
