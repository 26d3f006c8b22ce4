--------------------------- MODULE PoolRefinement ---------------------------
(* WarmPool as an implementation of PoolPromise: the circuits in rotation   *)
(* and the draining ones are read off the slots.                            *)
EXTENDS WarmPool

\* The pool keeps the promise stated by PoolPromise, step by step: its slots,
\* its stale counts and its deadlines implement it.
Promise == INSTANCE PoolPromise WITH
  ready <- {slots[i].id : i \in Unretired(slots, DOMAIN slots)},
  draining <- Draining, up <- open
KeepsPromise == Promise!Spec

=============================================================================
