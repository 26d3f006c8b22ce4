----------------------------- MODULE MCMeasure -----------------------------
(* Measure on a small instance: a chunk holds a line end, the plain page is  *)
(* longer than the cap, one probe is above the gateway's limit and one below. *)
EXTENDS Measure
MCChunks == << <<EOL>>, <<1>> >>
MCPlain == [i \in 1..13 |-> 20 + i]
=============================================================================
