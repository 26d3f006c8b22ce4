---------------------------- MODULE MCAutopilot ----------------------------
(* Instances of Autopilot for TLC: model values for the addresses. *)
EXTENDS Autopilot

CONSTANTS g1, g2, g3

SelfAndTwoPeers == <<g1, g3, g2>>

=============================================================================
