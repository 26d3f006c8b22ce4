----------------------------- MODULE MCBridges -----------------------------
(***************************************************************************)
(* The two bridges of a Tor circuit on small instances: the front on the   *)
(* client's side and the stream bridge on the gateway's.  They share no    *)
(* state here; an initial state chooses the one that runs.                 *)
(***************************************************************************)
EXTENDS FrontBridge, StreamBridge

VARIABLE part  \* front or stream

MCvars == <<part, allVars, streamVars>>
MCInit ==
  /\ part \in {"front", "stream"} /\ BridgeInit /\ StreamInit
  /\ part = "stream" => slot = 0
\* A stream may come to its end; a front goes on.
MCNext ==
  \/ part = "front" /\ BridgeNext /\ UNCHANGED <<part, streamVars>>
  \/ part = "stream" /\ StreamNext /\ UNCHANGED <<part, allVars>>
  \/ part = "stream" /\ UNCHANGED MCvars

\* The fairness of each bridge while it runs; the modules say what justifies it.
MCFairness ==
  /\ WF_allVars(part = "front" /\ (Listen \/ PassOn))
  /\ WF_allVars(part = "front" /\ (TakeReply \/ Deliver))
  /\ WF_allVars(part = "front" /\ Pump /\ UNCHANGED bridgeVars)
  /\ WF_allVars(part = "front" /\ Time /\ UNCHANGED bridgeVars)
  /\ WF_allVars(part = "front" /\ (Forward \/ ForwardFails) /\ UNCHANGED bridgeVars)
  /\ WF_allVars(part = "front" /\ Teardown)
  /\ \A w \in Writers : WF_streamVars(part = "stream" /\ Write(w))
  /\ WF_streamVars(part = "stream" /\ (Read("up") \/ HandOver("up")))
  /\ WF_streamVars(part = "stream" /\ Finish)
MCSpec == MCInit /\ [][MCNext]_MCvars /\ MCFairness
=============================================================================
