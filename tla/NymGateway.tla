----------------------------- MODULE NymGateway -----------------------------
(***************************************************************************)
(* The two ends of the Nym substrate (substrates/quicmix-nym/src/lib.rs):  *)
(* clients, each an ephemeral Nym identity with its own sender tag, send   *)
(* datagrams through the mix; the gateway's loop gives every tag a UDP     *)
(* socket of its own towards the local QUIC server, and one task per       *)
(* socket sends the server's answers back under that tag, through a        *)
(* bounded reply boundary (Substrate.tla, here a queue and a pump).        *)
(*                                                                         *)
(* The Nym SDK is external: the mix delays, reorders and loses, the        *)
(* client's stream may end, and a call of send_reply may succeed, fail or  *)
(* never return, each tag's independently of the others'.                  *)
(***************************************************************************)
EXTENDS Integers, Sequences

CONSTANTS
  Tags,      \* sender tags: one per rotated circuit
  MaxFds,    \* the most UDP sockets the gateway process can open
  Depth,     \* bdp_packets: the queue of a reply boundary
  SockBuf,   \* answers a socket buffers (UDP drops the others)
  Msgs,      \* bound of the model: datagrams of the clients
  Answers,   \* bound of the model: answers of the server, on all sockets
  None

ASSUME GatewayAssumption ==
  /\ {MaxFds, SockBuf, Msgs, Answers} \subseteq Nat /\ Depth \in Nat \ {0}
  /\ None \notin Tags \cup Nat

VARIABLES
  mix,       \* datagrams on their way to the gateway: [tag, n]
  inbox,     \* what the gateway's Nym client has not yielded yet
  up,        \* the gateway's loop runs
  socks,     \* the HashMap: the socket of each tag, or None
  tagOf,     \* by socket: the tag its reply transport is keyed with
  answers,   \* by socket: answers in its receive buffer
  reader,    \* by socket: "recv", "send" (one answer in hand) or "done"
  replyQ,    \* by socket: answers in the queue of the reply boundary
  pump,      \* by socket: "idle", "send" (in send_reply) or "stuck" (for good)
  back,      \* answers on their way to a client: [tag, sock]
  sent,      \* history: datagrams sent by the clients
  origin,    \* history, by socket: the tags whose datagrams left through it
  answered, shipped  \* history, by socket: answers received, answers sent off

mixVars == <<mix, inbox, back, sent>>
legVars == <<tagOf, answers, reader, replyQ, pump, answered, shipped>>
vars == <<mixVars, legVars, up, socks, origin>>

Opened == DOMAIN tagOf

Init ==
  /\ mix = {} /\ inbox = <<>> /\ back = {} /\ sent = 0
  /\ up = TRUE /\ socks = [t \in Tags |-> None]
  /\ tagOf = <<>> /\ answers = <<>> /\ reader = <<>> /\ replyQ = <<>>
  /\ answered = <<>> /\ shipped = <<>> /\ origin = <<>> /\ pump = <<>>

-----------------------------------------------------------------------------
\* A client sends a datagram, which carries its tag; a message of another origin
\* may carry none.
ClientSend(t) ==
  /\ sent < Msgs
  /\ sent' = sent + 1
  /\ mix' = mix \cup {[tag |-> t, n |-> sent + 1]}
  /\ UNCHANGED <<inbox, back, legVars, up, socks, origin>>

\* The mix delivers in any order, ...
Deliver(m) ==
  /\ m \in mix
  /\ mix' = mix \ {m}
  /\ inbox' = Append(inbox, m)
  /\ UNCHANGED <<back, sent, legVars, up, socks, origin>>

\* ... or not at all.
Lose(m) ==
  /\ m \in mix
  /\ mix' = mix \ {m}
  /\ UNCHANGED <<inbox, back, sent, legVars, up, socks, origin>>

-----------------------------------------------------------------------------
\* The loop takes a message whenever there is one (the bug: replies are sent
\* by the loop itself, which then waits for room).
LoopReadyInline == up /\ inbox # <<>> /\ \A s \in Opened : reader[s] # "send"
LoopReady == up /\ inbox # <<>>

\* The socket of a tag: the one on file, or the next one (the bug: always).
SocketFresh(t) == Len(tagOf) + 1
Socket(t) == IF socks[t] # None THEN socks[t] ELSE Len(tagOf) + 1

\* A message without a tag cannot be answered: skip it.
Skip ==
  /\ LoopReady /\ Head(inbox).tag = None
  /\ inbox' = Tail(inbox)
  /\ UNCHANGED <<mix, back, sent, legVars, up, socks, origin>>

\* A known tag: pass the datagram on through its socket.
PassOn ==
  /\ LoopReady /\ Head(inbox).tag # None
  /\ LET t == Head(inbox).tag
         s == Socket(t)
     IN /\ s \in Opened
        /\ origin' = [origin EXCEPT ![s] = @ \cup {t}]
  /\ inbox' = Tail(inbox)
  /\ UNCHANGED <<mix, back, sent, legVars, up, socks>>

\* A new tag: bind a socket, put it on file, start its reply leg, pass on.
Bind ==
  /\ LoopReady /\ Head(inbox).tag # None
  /\ LET t == Head(inbox).tag
         s == Socket(t)
     IN /\ s \notin Opened /\ s <= MaxFds
        /\ socks' = [socks EXCEPT ![t] = s]
        /\ tagOf' = Append(tagOf, t)
        /\ origin' = Append(origin, {t})
  /\ answers' = Append(answers, 0) /\ reader' = Append(reader, "recv")
  /\ replyQ' = Append(replyQ, 0) /\ pump' = Append(pump, "idle")
  /\ answered' = Append(answered, 0) /\ shipped' = Append(shipped, 0)
  /\ inbox' = Tail(inbox)
  /\ UNCHANGED <<mix, back, sent, up>>

\* bind or connect fails for a new tag: `?` ends the loop, with the message
\* taken.  The reply legs hold their sockets and go on.
OpenFails ==
  /\ LoopReady /\ Head(inbox).tag # None
  /\ Socket(Head(inbox).tag) \notin Opened
  /\ up' = FALSE
  /\ inbox' = Tail(inbox)
  /\ UNCHANGED <<mix, back, sent, legVars, socks, origin>>

\* The client's stream yields None: the loop returns.
StreamEnds ==
  /\ up /\ inbox = <<>>
  /\ up' = FALSE
  /\ UNCHANGED <<mixVars, legVars, socks, origin>>

-----------------------------------------------------------------------------
\* The server answers on a socket it heard of; a full buffer drops the answer.
AllAnswered ==
  LET upTo[k \in 0..Len(answered)] == IF k = 0 THEN 0 ELSE upTo[k - 1] + answered[k]
  IN upTo[Len(answered)]
Answer(s) ==
  /\ answers[s] < SockBuf /\ AllAnswered < Answers
  /\ answers' = [answers EXCEPT ![s] = @ + 1]
  /\ answered' = [answered EXCEPT ![s] = @ + 1]
  /\ UNCHANGED <<mixVars, tagOf, reader, replyQ, pump, shipped, up, socks, origin>>

\* reader.recv
Read(s) ==
  /\ reader[s] = "recv" /\ answers[s] > 0
  /\ answers' = [answers EXCEPT ![s] = @ - 1]
  /\ reader' = [reader EXCEPT ![s] = "send"]
  /\ UNCHANGED <<mixVars, tagOf, replyQ, pump, answered, shipped, up, socks, origin>>

\* reader.recv fails: the task ends.  The socket stays on file, open and unread.
ReadFails(s) ==
  /\ reader[s] = "recv"
  /\ reader' = [reader EXCEPT ![s] = "done"]
  /\ UNCHANGED <<mixVars, tagOf, answers, replyQ, pump, answered, shipped, up, socks, origin>>

\* reply.send: wait for room in the boundary.
Room(s) == replyQ[s] < Depth

Queue(s) ==
  /\ reader[s] = "send" /\ Room(s)
  /\ replyQ' = [replyQ EXCEPT ![s] = @ + 1]
  /\ reader' = [reader EXCEPT ![s] = "recv"]
  /\ UNCHANGED <<mixVars, tagOf, answers, pump, answered, shipped, up, socks, origin>>

\* The boundary of a tag has a pump of its own (the bug: one for all of them, so
\* that a reply that hangs holds up the other clients').
PumpReadyShared(s) == replyQ[s] > 0 /\ \A q \in Opened : pump[q] = "idle"
PumpReady(s) == replyQ[s] > 0 /\ pump[s] = "idle"

\* The pump takes an answer off the queue and calls send_reply, ...
Take(s) ==
  /\ PumpReady(s)
  /\ replyQ' = [replyQ EXCEPT ![s] = @ - 1]
  /\ pump' = [pump EXCEPT ![s] = "send"]
  /\ UNCHANGED <<mixVars, tagOf, answers, reader, answered, shipped, up, socks, origin>>

\* The tag a reply is sent under (the bug: that of the first client).
ReplyTagFirst(s) == tagOf[1]
ReplyTag(s) == tagOf[s]

\* A finished call is counted, as sent or as an error (the bug: errors are not).
CountedOk(s, ok) == shipped[s] + (IF ok THEN 1 ELSE 0)
Counted(s, ok) == shipped[s] + 1

\* ... which succeeds, or fails and is counted, ...
Ship(s, ok) ==
  /\ pump[s] = "send"
  /\ pump' = [pump EXCEPT ![s] = "idle"]
  /\ shipped' = [shipped EXCEPT ![s] = Counted(s, ok)]
  /\ back' = IF ok THEN back \cup {[tag |-> ReplyTag(s), sock |-> s]} ELSE back
  /\ UNCHANGED <<mix, inbox, sent, tagOf, answers, reader, replyQ, answered, up, socks, origin>>

\* ... or never returns.
Hang(s) ==
  /\ pump[s] = "send"
  /\ pump' = [pump EXCEPT ![s] = "stuck"]
  /\ UNCHANGED <<mixVars, tagOf, answers, reader, replyQ, answered, shipped, up, socks, origin>>

Next ==
  \/ \E t \in Tags \cup {None} : ClientSend(t)
  \/ \E m \in mix : Deliver(m) \/ Lose(m)
  \/ Skip \/ PassOn \/ Bind \/ OpenFails \/ StreamEnds
  \/ \E s \in Opened :
       \/ Answer(s) \/ Read(s) \/ ReadFails(s) \/ Queue(s) \/ Take(s) \/ Hang(s)
       \/ \E ok \in BOOLEAN : Ship(s, ok)

Spec == Init /\ [][Next]_vars

\* The loop, the readers and the pumps go on where they can.
FairSpec ==
  /\ Spec
  /\ WF_vars(Skip \/ PassOn \/ Bind \/ OpenFails)
  /\ \A s \in 1..MaxFds :
       WF_vars(s \in Opened /\ (Read(s) \/ Queue(s)))
       /\ WF_vars(s \in Opened /\ (Take(s) \/ \E ok \in BOOLEAN : Ship(s, ok)))

-----------------------------------------------------------------------------
TypeOK ==
  /\ mix \subseteq [tag : Tags \cup {None}, n : 1..Msgs]
  /\ inbox \in Seq([tag : Tags \cup {None}, n : 1..Msgs])
  /\ up \in BOOLEAN /\ socks \in [Tags -> Opened \cup {None}]
  /\ tagOf \in Seq(Tags) /\ Len(tagOf) <= MaxFds
  /\ answers \in [Opened -> 0..SockBuf] /\ replyQ \in [Opened -> 0..Depth]
  /\ reader \in [Opened -> {"recv", "send", "done"}]
  /\ pump \in [Opened -> {"idle", "send", "stuck"}]
  /\ back \subseteq [tag : Tags, sock : Opened]
  /\ origin \in [Opened -> SUBSET Tags]

\* "each distinct sender_tag gets a dedicated UDP socket ... (so the quinn
\* server distinguishes QUIC connections by source address)": the server sees
\* one source per client and one client per source, however the mix interleaves
\* the clients' datagrams.
OneSourcePerClient ==
  /\ TypeOK
  /\ \A s \in Opened : \A t, u \in origin[s] : t = u
  /\ \A s, q \in Opened : origin[s] \cap origin[q] # {} => s = q

\* What the server answered on a socket goes back to the client whose datagrams
\* left through it, and to no other.
RepliesToOwner == \A r \in back : origin[r.sock] = {r.tag}

\* Nothing the reply leg has taken in is lost or doubled on the way: an answer
\* is in the socket, with the reader, in the queue, with the pump, or its call of
\* send_reply has returned.
RepliesConserved ==
  \A s \in Opened :
    answered[s] = answers[s] + (IF reader[s] = "send" THEN 1 ELSE 0)
                    + replyQ[s] + (IF pump[s] = "idle" THEN 0 ELSE 1) + shipped[s]

\* Each answer goes back once, and to its owner.
OnceToOwner == RepliesToOwner /\ RepliesConserved

\* A client whose reply hangs holds up neither the datagrams of the others
\* on their way to the server ...
NotHeldUp == inbox # <<>> ~> inbox = <<>> \/ ~up

\* ... nor their replies: what a leg has in hand is sent off, unless its own call
\* hangs or its own reader has ended, which leaves the socket unread.
Shipped(s) ==
  /\ replyQ[s] = 0 /\ reader[s] # "send" /\ pump[s] = "idle"
  /\ answers[s] = 0 \/ reader[s] = "done"
LegsFlow ==
  \A s \in 1..MaxFds :
    (s \in Opened /\ ~Shipped(s)) ~> (s \in Opened /\ (Shipped(s) \/ pump[s] = "stuck"))

\* A client whose reply hangs holds up nobody else, in neither direction.
NobodyHeldUp == NotHeldUp /\ LegsFlow

=============================================================================
