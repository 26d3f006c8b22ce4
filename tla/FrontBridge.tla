---------------------------- MODULE FrontBridge ----------------------------
(***************************************************************************)
(* spawn_substrate_front (crates/quicmix/src/front.rs): a local UDP socket *)
(* that quinn dials, bridged to a linked substrate by two tasks around the *)
(* boundary of Substrate.tla.  Three parties hold the boundary: the Front  *)
(* that resolve returned, and each task for as long as it runs.  The       *)
(* client bridge of quicmix-nym has the same two tasks.                    *)
(***************************************************************************)
EXTENDS Substrate

CONSTANTS
  Clients,   \* local addresses quinn may send from
  SockBuf,   \* packets the front's socket buffers (UDP drops the others)
  outTask    \* the quinn -> substrate task, as a caller of Substrate::send

ASSUME BridgeAssumption ==
  outTask \in Callers /\ SockBuf \in Nat \ {0} /\ None \notin Clients

VARIABLES
  sock,      \* senders of the packets in the socket's buffer
  peer,      \* the learned address of the quinn client, or None
  outStage,  \* quinn -> substrate: "listen", "send" (one packet in hand) or "done"
  inStage,   \* substrate -> quinn: "recv", "deliver" (one reply in hand) or "done"
  guard,     \* the Front is held by the circuit
  heard,     \* history: packets that got into the socket's buffer
  returned   \* history: replies sent to a client

bridgeVars == <<sock, peer, outStage, inStage, guard, heard, returned>>
allVars == <<vars, bridgeVars>>

\* queue sized by bdp_packets, both tasks spawned, no peer yet
BridgeInit ==
  /\ Init
  /\ sock = <<>> /\ peer = None
  /\ outStage = "listen" /\ inStage = "recv" /\ guard = TRUE
  /\ heard = 0 /\ returned = 0

\* quinn sends a packet to the front.  (Offers bounds the model.)
Packet(a) ==
  /\ heard < Offers /\ outStage # "done" /\ Len(sock) < SockBuf
  /\ sock' = Append(sock, a)
  /\ heard' = heard + 1
  /\ UNCHANGED <<vars, peer, outStage, inStage, guard, returned>>

\* front.recv_from: the peer is learned before the packet is queued.
Listen ==
  /\ outStage = "listen" /\ sock # <<>>
  /\ peer' = Head(sock)
  /\ sock' = Tail(sock)
  /\ outStage' = "send"
  /\ UNCHANGED <<vars, inStage, guard, heard, returned>>

\* sub.send(..).await: at once, or after waiting for room (the bug: the lossy
\* send of the MixTransport impl, which has the same name).
PassOnLossy ==
  /\ outStage = "send"
  /\ SendNow(outTask) \/ SendLossy(outTask)
  /\ outStage' = "listen"
  /\ UNCHANGED <<sock, peer, inStage, guard, heard, returned>>
PassOn ==
  /\ outStage = "send"
  /\ \/ SendNow(outTask) /\ outStage' = "listen"
     \/ SendBlock(outTask) /\ UNCHANGED outStage
     \/ \E k \in DOMAIN waiting : Unblock(k) /\ outStage' = "listen"
  /\ UNCHANGED <<sock, peer, inStage, guard, heard, returned>>

\* front.recv_from fails: the task ends.
SocketErr ==
  /\ outStage = "listen"
  /\ outStage' = "done" /\ sock' = <<>>
  /\ UNCHANGED <<vars, peer, inStage, guard, heard, returned>>

\* sub.recv().await: a reply, or the error that ends the task.
TakeReply ==
  /\ inStage = "recv"
  /\ Recv
  /\ inStage' = IF Head(recvQ) \in Errors THEN "done" ELSE "deliver"
  /\ UNCHANGED <<sock, peer, outStage, guard, heard, returned>>

\* front.send_to, if a peer is known; the reply is dropped otherwise (the bug:
\* it waits for a peer).
DeliverLater ==
  /\ inStage = "deliver" /\ peer # None
  /\ inStage' = "recv"
  /\ returned' = returned + 1
  /\ UNCHANGED <<vars, sock, peer, outStage, guard, heard>>
Deliver ==
  /\ inStage = "deliver"
  /\ inStage' = "recv"
  /\ returned' = IF peer = None THEN returned ELSE returned + 1
  /\ UNCHANGED <<vars, sock, peer, outStage, guard, heard>>

\* The circuit drops its Front: one handle fewer.
DropFront ==
  /\ guard
  /\ guard' = FALSE
  /\ UNCHANGED <<vars, sock, peer, outStage, inStage, heard, returned>>

\* The last of the three handles is gone: the boundary is dropped.
Teardown ==
  /\ ~guard /\ outStage = "done" /\ inStage = "done"
  /\ Discard
  /\ UNCHANGED bridgeVars

Around == Pump \/ Inner \/ Forward \/ ForwardFails \/ Time
Tasks == Listen \/ PassOn \/ TakeReply \/ Deliver

BridgeNext ==
  \/ \E a \in Clients : Packet(a)
  \/ Tasks \/ SocketErr \/ DropFront \/ Teardown
  \/ (Around \/ \E s \in Slots : UpdateOracle(s)) /\ UNCHANGED bridgeVars

BridgeSpec == BridgeInit /\ [][BridgeNext]_allVars

\* Tasks and pumps that can go on do; nobody needs to send, nor to drop the circuit.
BridgeFairSpec ==
  /\ BridgeSpec
  /\ WF_allVars(Listen \/ PassOn) /\ WF_allVars(TakeReply \/ Deliver)
  /\ WF_allVars(Pump /\ UNCHANGED bridgeVars) /\ WF_allVars(Time /\ UNCHANGED bridgeVars)
  /\ WF_allVars((Forward \/ ForwardFails) /\ UNCHANGED bridgeVars)
  /\ WF_allVars(Teardown)

-----------------------------------------------------------------------------
BridgeTypeOK ==
  /\ TypeOK
  /\ sock \in Seq(Clients) /\ peer \in Clients \cup {None}
  /\ outStage \in {"listen", "send", "done"} /\ inStage \in {"recv", "deliver", "done"}
  /\ guard \in BOOLEAN /\ heard \in Nat /\ returned \in Nat

\* Over well-typed states, a packet that reached the front's socket is in its buffer, in the hands of
\* the task or accepted by the boundary: a full substrate queue blocks the task
\* and never loses a packet ("backpressured paced enqueue").
NothingLostBehindSocket ==
  /\ BridgeTypeOK
  /\ outStage # "done" =>
       heard = Len(sock) + (IF outStage = "send" THEN 1 ELSE 0) + accepted /\ dropped = 0

\* As long as the circuit holds its front, every packet in the socket's buffer is
\* eventually sent over the substrate, in spite of backpressure and of an end of the
\* replies, unless the socket fails.
Carried ==
  \A n \in 1..Offers : heard >= n ~> Finished >= n \/ outStage = "done" \/ ~guard

\* As long as the circuit holds its front, a reply from the substrate never stops the
\* replies after it: it is delivered or, when no client was heard of yet, dropped.
RepliesFlow ==
  \A n \in 1..Arrivals : received >= n ~> (taken >= n /\ inStage # "deliver") \/ ~guard

\* Both tasks of spawn_substrate_front keep going while the circuit lives, whatever
\* becomes of the other.
CarriedBothWays == Carried /\ RepliesFlow

\* "we keep it explicitly so the front is torn down deterministically with the
\* circuit" (FrontGuard::Bridge): once the circuit has dropped its front, both tasks
\* end, and the boundary with them.
TornDown == ~guard ~> outStage = "done" /\ inStage = "done"

=============================================================================
