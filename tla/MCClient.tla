------------------------------ MODULE MCClient ------------------------------
(***************************************************************************)
(* Four parts of the client side that share no state, on small instances:  *)
(* the measured congestion control, circuit rotation, the mix relay, and   *)
(* the choice and launch of a front.  An initial state chooses the part    *)
(* that runs; the others stand still.                                      *)
(***************************************************************************)
EXTENDS MeasuredCc, Rotation, Relay, MCFronts

VARIABLE part  \* cc, rotation, relay or front

\* A fast connection with some loss, and a slow one that loses everything.
MCReadings == {[rtt |-> 100, sent |-> 10, lost |-> 1], [rtt |-> 2800, sent |-> 4, lost |-> 4]}

MCvars == <<part, ccVars, rotationVars, relayVars, frontVars>>
MCInit ==
  /\ part \in {"cc", "rotation", "relay", "front"} /\ CcInit /\ RotationInit /\ RelayInit /\ FrontsInit
  /\ part # "front" => env = Env("unset", "unset", "unset")
MCNext ==
  \/ part = "cc" /\ CcNext /\ UNCHANGED <<part, rotationVars, relayVars, frontVars>>
  \/ part = "rotation" /\ RotationNext /\ UNCHANGED <<part, ccVars, relayVars, frontVars>>
  \/ part = "relay" /\ RelayNext /\ UNCHANGED <<part, ccVars, rotationVars, frontVars>>
  \/ part = "front" /\ FrontsNext /\ UNCHANGED <<part, ccVars, rotationVars, relayVars>>

\* The fairness of the builders, the relay and the front while they run; the modules
\* say what justifies it.
MCFairness ==
  /\ \A b \in Builders : SF_ccVars(part = "cc" /\ Builder(b))
  /\ \A l \in Legs : WF_relayVars(part = "relay" /\ LegStep(l))
  /\ WF_frontVars(part = "front" /\ Timeout)
  /\ \A i \in Tries, p \in {"side", "tor"} : WF_frontVars(part = "front" /\ Drain(p, i))
MCSpec == MCInit /\ [][MCNext]_MCvars /\ MCFairness
=============================================================================
