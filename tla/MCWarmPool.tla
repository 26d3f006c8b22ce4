----------------------------- MODULE MCWarmPool -----------------------------
(* Instances of WarmPool for TLC. *)
EXTENDS PoolRefinement, TLC

Interchangeable == Permutations(Circuits) \cup Permutations(Requests)

=============================================================================
