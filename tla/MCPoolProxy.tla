---------------------------- MODULE MCPoolProxy ----------------------------
(* Instances of PoolProxy for TLC. *)
EXTENDS PoolProxy, TLC

Interchangeable == Permutations(Circuits) \cup Permutations(Requests)

=============================================================================
