------------------------------- MODULE Relay -------------------------------
(***************************************************************************)
(* A mix relay between a client and a server                               *)
(* (crates/quicmix/src/relay.rs): four tasks around two Substrate          *)
(* boundaries, one for each direction.  Behind each boundary is a Striped  *)
(* transport over emulated mixnets (crates/quicmix-eval/src/striped.rs and *)
(* emulator.rs), as in the multipath example; one path is the plain        *)
(* emulator of emulated_front.                                             *)
(*                                                                         *)
(* Delays are random, so a delay may end at any time; Substrate.tla has    *)
(* the pacing of the boundary.  The datagrams of a direction are numbered  *)
(* as the relay hears them.  Nobody drops the transports: the tasks hold   *)
(* them for good.                                                          *)
(***************************************************************************)
EXTENDS Integers, Sequences

CONSTANTS
  Addrs,     \* addresses the client may send from
  NPaths,    \* transports that are striped
  Depth,     \* bdp_packets, of either boundary
  MaxQueue,  \* egress buffer of a path, in packets
  Paced,     \* paths with a slot_interval above zero
  Requests, Replies,  \* bounds of the model: datagrams of each direction
  None

ASSUME RelayAssumption ==
  /\ {Depth, MaxQueue, Requests, Replies} \subseteq Nat /\ NPaths \in Nat /\ NPaths # 0
  /\ None \notin Addrs

Legs == {"up", "down"}
Paths == 0..(NPaths - 1)
Offers(l) == IF l = "up" THEN Requests ELSE Replies

VARIABLES
  client_addr,  \* the relay's idea of the client
  src,          \* where the datagram in the hand of the client's task came from,
                \* until it is written into client_addr
  heard,        \* datagrams heard, per leg
  held,         \* the one its task waits to enqueue, or 0
  sendQ,        \* the boundary's queue
  next,         \* Striped::next
  mixing,       \* per path: datagrams that wait out their delay
  egress,       \* per path: the egress buffer
  out,          \* per path: what its recv has not returned yet
  merged,       \* Striped::merged
  recvQ,        \* the boundary's received datagrams
  dropped,      \* history: those the mix dropped
  done,         \* history: those sent out of the other socket, in order
  sentTo, srcs  \* history: where each reply went, and each request came from

queues == <<held, sendQ, next, mixing, egress, out, merged, recvQ>>
from == <<src, srcs>>
relayVars == <<client_addr, heard, queues, dropped, done, sentTo, from>>

RelayInit ==
  /\ client_addr = None /\ heard = [l \in Legs |-> 0] /\ held = [l \in Legs |-> 0]
  /\ sendQ = [l \in Legs |-> <<>>] /\ next = [l \in Legs |-> 0]
  /\ mixing = [l \in Legs |-> [p \in Paths |-> {}]]
  /\ egress = [l \in Legs |-> [p \in Paths |-> <<>>]]
  /\ out = [l \in Legs |-> [p \in Paths |-> <<>>]]
  /\ merged = [l \in Legs |-> <<>>] /\ recvQ = [l \in Legs |-> <<>>]
  /\ dropped = [l \in Legs |-> {}] /\ done = [l \in Legs |-> <<>>]
  /\ sentTo = <<>> /\ src = None /\ srcs = <<>>

-----------------------------------------------------------------------------
\* recv_from of the leg's task, which then sends into the boundary.
Hears(l) ==
  /\ held[l] = 0 /\ heard[l] < Offers(l)
  /\ heard' = [heard EXCEPT ![l] = @ + 1]
  /\ held' = [held EXCEPT ![l] = heard[l] + 1]

\* recv_from of the client's task ...
FromClient(addr) ==
  /\ Hears("up") /\ src = None
  /\ src' = addr /\ srcs' = Append(srcs, addr)
  /\ UNCHANGED <<client_addr, sendQ, next, mixing, egress, out, merged, recvQ, dropped, done, sentTo>>
\* ... which then waits for the lock on client_addr; replies may leave meanwhile.
LearnAddr ==
  /\ src # None
  /\ client_addr' = src /\ src' = None
  /\ UNCHANGED <<heard, queues, dropped, done, sentTo, srcs>>
\* The server knows the relay once it got something from it.
FromServer ==
  /\ Hears("down") /\ done["up"] # <<>>
  /\ UNCHANGED <<client_addr, sendQ, next, mixing, egress, out, merged, recvQ, dropped, done, sentTo, from>>

\* The datagram is sent into the boundary once its address is written (the bug: the
\* address is written at any time after recv_from).
LearnedLater(l) == TRUE
Learned(l) == l = "up" => src = None
\* Substrate::send: wait for room.
Enqueue(l) ==
  /\ held[l] # 0 /\ Learned(l) /\ Len(sendQ[l]) < Depth
  /\ sendQ' = [sendQ EXCEPT ![l] = Append(@, held[l])]
  /\ held' = [held EXCEPT ![l] = 0]
  /\ UNCHANGED <<client_addr, heard, next, mixing, egress, out, merged, recvQ, dropped, done, sentTo, from>>

\* The send pump and Striped::send: the next path in turn (the bug: the turn is
\* taken twice).
TurnTwice(l) == next[l] + 2
Turn(l) == next[l] + 1
Pump(l) ==
  /\ sendQ[l] # <<>>
  /\ sendQ' = [sendQ EXCEPT ![l] = Tail(@)]
  /\ next' = [next EXCEPT ![l] = Turn(l)]
  /\ mixing' = [mixing EXCEPT ![l][next[l] % NPaths] = @ \cup {Head(sendQ[l])}]
  /\ UNCHANGED <<client_addr, heard, held, egress, out, merged, recvQ, dropped, done, sentTo, from>>

-----------------------------------------------------------------------------
\* EmulatedMixnet, stage 1: a datagram is dropped ...
Drop(l, p, d) ==
  /\ d \in mixing[l][p]
  /\ mixing' = [mixing EXCEPT ![l][p] = @ \ {d}]
  /\ dropped' = [dropped EXCEPT ![l] = @ \cup {d}]
  /\ UNCHANGED <<client_addr, heard, held, sendQ, next, egress, out, merged, recvQ, done, sentTo, from>>
\* ... or its delay ends.  Stage 2: without a slot it passes through; otherwise
\* the buffer takes it, or, when it is full, drops it (the bug: it drops the
\* oldest).
PushHead(q, d) == IF Len(q) < MaxQueue THEN Append(q, d) ELSE Append(Tail(q), d)
Push(q, d) == IF Len(q) < MaxQueue THEN Append(q, d) ELSE q
Ready(l, p, d) ==
  /\ d \in mixing[l][p]
  /\ mixing' = [mixing EXCEPT ![l][p] = @ \ {d}]
  /\ IF p \in Paced
     THEN /\ egress' = [egress EXCEPT ![l][p] = Push(@, d)]
          /\ dropped' = [dropped EXCEPT ![l] = IF Len(egress[l][p]) < MaxQueue THEN @ ELSE @ \cup {d}]
          /\ UNCHANGED out
     ELSE out' = [out EXCEPT ![l][p] = Append(@, d)] /\ UNCHANGED <<egress, dropped>>
  /\ UNCHANGED <<client_addr, heard, held, sendQ, next, merged, recvQ, done, sentTo, from>>
Tick(l, p) ==
  /\ egress[l][p] # <<>>
  /\ out' = [out EXCEPT ![l][p] = Append(@, Head(egress[l][p]))]
  /\ egress' = [egress EXCEPT ![l][p] = Tail(@)]
  /\ UNCHANGED <<client_addr, heard, held, sendQ, next, mixing, merged, recvQ, dropped, done, sentTo, from>>

\* Striped: the task that merges a path (the bug: only the first path has one).
MergesFirst(p) == p = 0
Merges(p) == p \in Paths
Merge(l, p) ==
  /\ Merges(p) /\ out[l][p] # <<>>
  /\ merged' = [merged EXCEPT ![l] = Append(@, Head(out[l][p]))]
  /\ out' = [out EXCEPT ![l][p] = Tail(@)]
  /\ UNCHANGED <<client_addr, heard, held, sendQ, next, mixing, egress, recvQ, dropped, done, sentTo, from>>

\* The boundary's receive pump.
Receive(l) ==
  /\ merged[l] # <<>> /\ Len(recvQ[l]) < Depth
  /\ recvQ' = [recvQ EXCEPT ![l] = Append(@, Head(merged[l]))]
  /\ merged' = [merged EXCEPT ![l] = Tail(@)]
  /\ UNCHANGED <<client_addr, heard, held, sendQ, next, mixing, egress, out, dropped, done, sentTo, from>>

\* The task behind it: to the server, or to the client if it is known.
Deliver(l) ==
  /\ recvQ[l] # <<>>
  /\ recvQ' = [recvQ EXCEPT ![l] = Tail(@)]
  /\ done' = [done EXCEPT ![l] = Append(@, Head(recvQ[l]))]
  /\ sentTo' = IF l = "down" THEN Append(sentTo, client_addr) ELSE sentTo
  /\ UNCHANGED <<client_addr, heard, held, sendQ, next, mixing, egress, out, merged, dropped, from>>

PathStep(l, p) == Tick(l, p) \/ Merge(l, p) \/ \E d \in mixing[l][p] : Ready(l, p, d)
LegStep(l) == (l = "up" /\ LearnAddr) \/ Enqueue(l) \/ Pump(l) \/ Receive(l) \/ Deliver(l) \/ \E p \in Paths : PathStep(l, p)
RelayNext ==
  \/ \E addr \in Addrs : FromClient(addr)
  \/ FromServer
  \/ \E l \in Legs : LegStep(l) \/ \E p \in Paths : \E d \in mixing[l][p] : Drop(l, p, d)

RelaySpec == RelayInit /\ [][RelayNext]_relayVars
\* Tasks and timers go on; nothing forces a drop, and nobody needs to send.
RelayFairSpec == RelaySpec /\ \A l \in Legs : WF_relayVars(LegStep(l))

-----------------------------------------------------------------------------
\* Types; both queues of a boundary and the egress buffers are bounded.
RelayTypeOK ==
  /\ client_addr \in Addrs \cup {None}
  /\ \A l \in Legs : heard[l] \in 0..Offers(l) /\ held[l] \in 0..heard[l]
  /\ \A l \in Legs : Len(sendQ[l]) <= Depth /\ Len(recvQ[l]) <= Depth
  /\ \A l \in Legs, p \in Paths : Len(egress[l][p]) <= MaxQueue /\ mixing[l][p] \subseteq 1..heard[l]

\* Every datagram heard is in one place: it waits in the relay, is inside one
\* path, was dropped by the mix, or has been sent on.  The relay itself loses and
\* duplicates nothing, however full its queues are.
Items(q) == {q[i] : i \in DOMAIN q}
Distinct(q) == \A i, j \in DOMAIN q : q[i] = q[j] => i = j
Inside(l, k, p, d) ==
  \/ k = "mixing" /\ d \in mixing[l][p]
  \/ k = "egress" /\ d \in Items(egress[l][p])
  \/ k = "out" /\ d \in Items(out[l][p])
Outside(l, k, d) ==
  \/ k = "held" /\ d = held[l]
  \/ k = "sendQ" /\ d \in Items(sendQ[l])
  \/ k = "merged" /\ d \in Items(merged[l])
  \/ k = "recvQ" /\ d \in Items(recvQ[l])
  \/ k = "dropped" /\ d \in dropped[l]
  \/ k = "done" /\ d \in Items(done[l])
Stations == {"mixing", "egress", "out"}
Places == (Stations \X Paths) \cup ({"held", "sendQ", "merged", "recvQ", "dropped", "done"} \X {0})
At(l, x, d) == IF x[1] \in Stations THEN Inside(l, x[1], x[2], d) ELSE Outside(l, x[1], d)
Conserved ==
  \A l \in Legs :
    /\ \A d \in 1..heard[l] : \E x \in Places : \A y \in Places : At(l, y, d) <=> y = x
    /\ \A q \in {sendQ[l], merged[l], recvQ[l], done[l]} : Distinct(q) /\ Items(q) \subseteq 1..heard[l]
    /\ \A p \in Paths : \A q \in {egress[l][p], out[l][p]} : Distinct(q) /\ Items(q) \subseteq 1..heard[l]
    /\ dropped[l] \subseteq 1..heard[l]

\* Round robin: the paths take turns, in the order in which the boundary released
\* the datagrams, so that no path ever has more than one above its share.
RoundRobin ==
  \A l \in Legs, p \in Paths : \A d \in 1..heard[l] :
    (\E k \in Stations : Inside(l, k, p, d)) => (d - 1) % NPaths = p

\* Over well-typed states the relay neither loses, doubles nor crowds: every
\* datagram has one place, in the path whose turn it was.
InItsPlace == RelayTypeOK /\ Conserved /\ RoundRobin

\* A reply never goes back to an address the client has left, as far as the server
\* can know: for every request that reached the server, the reply goes to where that
\* request or a later one came from.  It may miss a request the relay has just read,
\* whose address waits for the lock, but not one that went on; and none is discarded
\* because there is no address yet.
AnswersLatest ==
  sentTo' # sentTo =>
    LET to == sentTo'[Len(sentTo')] IN
    /\ to # None
    /\ \A d \in Items(done["up"]) : \E k \in d..heard["up"] : srcs[k] = to
ToLatestAddress == [][AnswersLatest]_relayVars

\* What the relay hears it sends on, unless the mix dropped it: again and again
\* nothing that was heard is still under way.
Forwarded == []<>(\A l \in Legs : \A d \in 1..heard[l] : d \in dropped[l] \cup Items(done[l]))

=============================================================================
