---------------------------- MODULE PoolPromise ----------------------------
(***************************************************************************)
(* What the warm pool promises the proxy, without saying how: no slots, no *)
(* maintainer, no counts, no deadlines.  Circuits are in rotation (ready)  *)
(* or draining; requests lease the live ones that are in rotation; and a   *)
(* live circuit leaves the pool only when every request that still leases  *)
(* it has had it for DrainTimeout.  WarmPool implements this.              *)
(***************************************************************************)
EXTENDS Naturals, FiniteSets

CONSTANTS Circuits, Requests, Target, DrainTimeout, None

VARIABLES
  ready,     \* circuits in rotation, dead ones that were not noticed included
  draining,  \* circuits rotated out, kept for their requests
  up,        \* circuits whose connection is open
  lease,     \* the circuit each request leases, or None
  held       \* for how long it has, up to DrainTimeout

pvars == <<ready, draining, up, lease, held>>

Pool == ready \cup draining

Init ==
  /\ ready = {} /\ draining = {} /\ up = {}
  /\ lease = [r \in Requests |-> None]
  /\ held = [r \in Requests |-> 0]

\* A new connection is established; it is nobody's yet.
Connect(c) ==
  /\ c \notin Pool /\ c \notin up /\ \A r \in Requests : lease[r] # c
  /\ up' = up \cup {c}
  /\ UNCHANGED <<ready, draining, lease, held>>

\* It joins the rotation, if there is room for one more live circuit.
Admit(c) ==
  /\ Cardinality(ready \cap up) < Target
  /\ c \notin Pool /\ \A r \in Requests : lease[r] # c
  /\ ready' = ready \cup {c}
  /\ UNCHANGED <<draining, up, lease, held>>

\* A request is given a live circuit of the rotation; dead ones may be dropped.
Take(r, c) ==
  /\ lease[r] = None /\ c \in ready \cap up
  /\ lease' = [lease EXCEPT ![r] = c]
  /\ held' = [held EXCEPT ![r] = 0]
  /\ ready' = ready \cap up /\ draining' = draining \cap up
  /\ UNCHANGED up

\* Nothing to give; dead circuits may be dropped.
Sweep ==
  /\ ready' = ready \cap up /\ draining' = draining \cap up
  /\ UNCHANGED <<up, lease, held>>

GiveBack(r) ==
  /\ lease[r] # None
  /\ lease' = [lease EXCEPT ![r] = None]
  /\ held' = [held EXCEPT ![r] = 0]
  /\ UNCHANGED <<ready, draining, up>>

\* Rotation: circuits go from ready to draining, never back, and leave the pool
\* when they are dead or every request on them had its DrainTimeout.
Rotate ==
  /\ ready' \subseteq ready
  /\ draining' \subseteq Pool
  /\ ready' \cap draining' = {}
  /\ \A c \in Pool \ (ready' \cup draining') :
       \/ c \notin up
       \/ \A r \in Requests : lease[r] = c => held[r] >= DrainTimeout
  /\ UNCHANGED <<up, lease, held>>

Fail(c) ==
  /\ up' = up \ {c}
  /\ UNCHANGED <<ready, draining, lease, held>>

Elapse ==
  /\ held' = [r \in Requests |->
                IF lease[r] # None /\ held[r] < DrainTimeout THEN held[r] + 1 ELSE held[r]]
  /\ UNCHANGED <<ready, draining, up, lease>>

Next ==
  \/ \E c \in Circuits : Connect(c) \/ Admit(c) \/ Fail(c)
  \/ \E r \in Requests : GiveBack(r) \/ \E c \in Circuits : Take(r, c)
  \/ Sweep \/ Rotate \/ Elapse

Spec == Init /\ [][Next]_pvars

=============================================================================
