---------------------------- MODULE StreamBridge ----------------------------
(***************************************************************************)
(* Datagrams over one byte stream: the client's StreamDatagram             *)
(* (crates/quicmix/src/tor.rs) and the gateway's stream bridge             *)
(* (stream_bridge.rs), which puts what it de-frames into the local QUIC    *)
(* listener and frames the replies.  A frame is a length and that many     *)
(* bytes; the stream takes and yields any number of them at a time, so     *)
(* everything moves unit by unit: the length field is one unit, each byte  *)
(* of the datagram another.                                                *)
(***************************************************************************)
EXTENDS Naturals, Sequences

CONSTANTS
  Senders,   \* tasks that call try_send on the client's side
  toTcp,     \* the bridge's writer, half of its handle future
  Sizes,     \* lengths of datagrams
  Max,       \* MAX_DATAGRAM, 1 << 20
  Window,    \* units the stream holds in each direction
  UdpBuf,    \* replies the bridge's UDP socket holds
  MaxFrames  \* bound of the model: datagrams sent in each direction

ASSUME StreamAssumption ==
  Sizes \subseteq Nat /\ {Max, Window, UdpBuf, MaxFrames} \subseteq Nat /\ toTcp \notin Senders

Dirs == {"up", "down"}
Writers == Senders \cup {toTcp}
DirOf(w) == IF w = toTcp THEN "down" ELSE "up"

VARIABLES
  out,        \* what each writer still has to write of its frame
  buf,        \* the stream, in each direction
  inn,        \* what each reader has read of the frame it is at
  framed,     \* history: the lengths of the datagrams framed, in order
  delivered,  \* history: how many were delivered whole
  replies,    \* what the gateway sent to the bridge's socket
  clientUp, bridgeUp,  \* the client holds its end, the bridge is in handle
  wire        \* the connection between them works

framing == <<out, buf, inn, framed, delivered>>
streamVars == <<framing, replies, clientUp, bridgeUp, wire>>

\* Length, then datagram.
Frame(i, n) == [j \in 1..(n + 1) |-> [id |-> i, at |-> j - 1, len |-> n]]

StreamInit ==
  /\ out = [w \in Writers |-> <<>>]
  /\ buf = [d \in Dirs |-> <<>>] /\ inn = buf /\ framed = buf
  /\ delivered = [d \in Dirs |-> 0]
  /\ replies = <<>> /\ clientUp = TRUE /\ bridgeUp = TRUE /\ wire = TRUE

-----------------------------------------------------------------------------
\* try_send holds the write lock over length, datagram and flush (the bug: each
\* write takes it anew).
MayWriteAnew(s) == out[s] = <<>>
MayWrite(s) == \A t \in Senders : out[t] = <<>>

Start(w, n) ==
  /\ out' = [out EXCEPT ![w] = Frame(Len(framed[DirOf(w)]) + 1, n)]
  /\ framed' = [framed EXCEPT ![DirOf(w)] = Append(@, n)]
  /\ UNCHANGED <<buf, inn, delivered, clientUp, bridgeUp, wire>>

TrySend(s, n) ==
  /\ clientUp /\ MayWrite(s) /\ Len(framed["up"]) < MaxFrames
  /\ Start(s, n)
  /\ UNCHANGED replies

\* to_tcp takes a reply off the UDP socket and frames it.
FrameReply ==
  /\ bridgeUp /\ out[toTcp] = <<>> /\ replies # <<>>
  /\ Start(toTcp, Head(replies))
  /\ replies' = Tail(replies)

\* write_all goes on where the stream has room, ...
Write(w) ==
  /\ wire /\ out[w] # <<>> /\ Len(buf[DirOf(w)]) < Window
  /\ buf' = [buf EXCEPT ![DirOf(w)] = Append(@, Head(out[w]))]
  /\ out' = [out EXCEPT ![w] = Tail(@)]
  /\ UNCHANGED <<inn, framed, delivered, replies, clientUp, bridgeUp, wire>>

\* ... or fails, and try_send with it.
SendFails(s) ==
  /\ ~wire \/ ~bridgeUp
  /\ out[s] # <<>>
  /\ out' = [out EXCEPT ![s] = <<>>]
  /\ UNCHANGED <<buf, inn, framed, delivered, replies, clientUp, bridgeUp, wire>>

-----------------------------------------------------------------------------
\* What each reader lets pass: to_udp no empty datagram, try_recv any up to Max.
Accepts(d, n) == n <= Max /\ (d = "up" => n > 0)
Length(d) == Head(inn[d]).len
Refuses(d) == inn[d] # <<>> /\ ~Accepts(d, Length(d))
\* (the bug: read instead of read_exact, which may return early)
WholeOrLess(d) == inn[d] # <<>> /\ ~Refuses(d) /\ (Length(d) > 0 => Len(inn[d]) > 1)
Whole(d) == inn[d] # <<>> /\ ~Refuses(d) /\ Len(inn[d]) = Length(d) + 1
Reads(d) == IF d = "up" THEN bridgeUp ELSE clientUp

\* read_exact, first for the length, then for the datagram.
Read(d) ==
  /\ Reads(d) /\ buf[d] # <<>> /\ ~Refuses(d) /\ ~Whole(d)
  /\ inn' = [inn EXCEPT ![d] = Append(@, Head(buf[d]))]
  /\ buf' = [buf EXCEPT ![d] = Tail(@)]
  /\ UNCHANGED <<out, framed, delivered, replies, clientUp, bridgeUp, wire>>

\* udp.send to the gateway; try_recv back with a datagram.
\* (the bug: one loop for both directions, which waits for its own writes)
HandOverInTurn(d) ==
  /\ Reads(d) /\ Whole(d)
  /\ d = "up" => out[toTcp] = <<>>
  /\ inn' = [inn EXCEPT ![d] = <<>>]
  /\ delivered' = [delivered EXCEPT ![d] = @ + 1]
  /\ UNCHANGED <<out, buf, framed, replies, clientUp, bridgeUp, wire>>
HandOver(d) ==
  /\ Reads(d) /\ Whole(d)
  /\ inn' = [inn EXCEPT ![d] = <<>>]
  /\ delivered' = [delivered EXCEPT ![d] = @ + 1]
  /\ UNCHANGED <<out, buf, framed, replies, clientUp, bridgeUp, wire>>

\* The gateway answers one of the bridge's datagrams; a full socket drops it.
Reply(n) ==
  /\ bridgeUp /\ delivered["up"] > 0
  /\ Len(replies) < UdpBuf /\ Len(framed["down"]) + Len(replies) < MaxFrames
  /\ replies' = Append(replies, n)
  /\ UNCHANGED <<framing, clientUp, bridgeUp, wire>>

-----------------------------------------------------------------------------
\* How the two halves of handle end by themselves.
ToUdpEnds == Refuses("up") \/ ~wire \/ (~clientUp /\ buf["up"] = <<>> /\ ~Whole("up"))
ToTcpEnds == out[toTcp] # <<>> /\ (~wire \/ ~clientUp)
\* select!: either ends handle (the bug: join!, which waits for both).
HandleEndsJoined == ToUdpEnds /\ ToTcpEnds
HandleEnds == ToUdpEnds \/ ToTcpEnds

\* handle returns and drops both halves, whatever the other one is at.
EndBridge ==
  /\ bridgeUp' = FALSE
  /\ out' = [out EXCEPT ![toTcp] = <<>>]
  /\ inn' = [inn EXCEPT !["up"] = <<>>]
  /\ replies' = <<>>
  /\ UNCHANGED <<buf, framed, delivered, clientUp, wire>>
Finish == bridgeUp /\ HandleEnds /\ EndBridge

\* udp.send or udp.recv fails (nothing listens at quic_local).
UdpFails == bridgeUp /\ EndBridge

\* The client drops its end, in the middle of a frame or not.
ClientEnds ==
  /\ clientUp
  /\ clientUp' = FALSE
  /\ out' = [w \in Writers |-> IF w = toTcp THEN out[w] ELSE <<>>]
  /\ inn' = [inn EXCEPT !["down"] = <<>>]
  /\ UNCHANGED <<buf, framed, delivered, replies, bridgeUp, wire>>

\* The circuit under the stream breaks, and what was on its way is lost.
WireBreaks ==
  /\ wire
  /\ wire' = FALSE
  /\ buf' = [d \in Dirs |-> <<>>]
  /\ UNCHANGED <<out, inn, framed, delivered, replies, clientUp, bridgeUp>>

StreamNext ==
  \/ \E s \in Senders : SendFails(s) \/ \E n \in Sizes : TrySend(s, n)
  \/ \E w \in Writers : Write(w)
  \/ \E d \in Dirs : Read(d) \/ HandOver(d)
  \/ FrameReply \/ \E n \in Sizes : Reply(n)
  \/ Finish \/ UdpFails \/ ClientEnds \/ WireBreaks

StreamSpec == StreamInit /\ [][StreamNext]_streamVars

\* Every future that can go on is polled.  The client may stop reading.
StreamFairSpec ==
  /\ StreamSpec
  /\ \A w \in Writers : WF_streamVars(Write(w))
  /\ WF_streamVars(Read("up") \/ HandOver("up")) /\ WF_streamVars(Finish)

-----------------------------------------------------------------------------
Unit == [id : Nat, at : Nat, len : Sizes]
StreamTypeOK ==
  /\ out \in [Writers -> Seq(Unit)]
  /\ buf \in [Dirs -> Seq(Unit)] /\ inn \in [Dirs -> Seq(Unit)]
  /\ \A d \in Dirs : Len(buf[d]) <= Window
  /\ framed \in [Dirs -> Seq(Sizes)] /\ delivered \in [Dirs -> Nat]
  /\ replies \in Seq(Sizes) /\ Len(replies) <= UdpBuf
  /\ {clientUp, bridgeUp, wire} \subseteq BOOLEAN

\* The readers never lose the place in the stream: what a reader has in hand is
\* the beginning of the next frame, in the order in which the frames were
\* begun, and it is the whole frame when it is delivered, however the
\* writes of concurrent try_send calls and the partial reads interleave.
Next1(d) == delivered[d] + 1
InStep ==
  \A d \in Dirs : inn[d] # <<>> =>
    /\ Next1(d) <= Len(framed[d])
    /\ inn[d] = SubSeq(Frame(Next1(d), framed[d][Next1(d)]), 1, Len(inn[d]))

\* No frame is delivered in part, not even the last one before the bridge's
\* select! drops a half-written reply or the client leaves in mid-frame.
OnlyWhole ==
  \A d \in Dirs : delivered'[d] # delivered[d] =>
    inn[d] = Frame(Next1(d), framed[d][Next1(d)])

\* Both, for every step and into well-typed states: frames keep their bounds on
\* the way through the stream.
FramesKept == [][StreamTypeOK' /\ InStep' /\ OnlyWhole]_streamVars

\* While the connection holds, what the client began to send reaches the
\* gateway, also when the client reads none of the replies and the bridge's
\* writer is stuck behind a full stream.
Ended == ~clientUp \/ ~bridgeUp \/ ~wire
UpFlows == \A k \in 1..MaxFrames : Len(framed["up"]) >= k ~> delivered["up"] >= k \/ Ended

\* "When either direction ends (stream closed / peer gone), drop the other": a
\* client that left does not leave a task and a UDP socket behind.
Closes == ~clientUp ~> ~bridgeUp

=============================================================================
