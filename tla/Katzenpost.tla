----------------------------- MODULE Katzenpost -----------------------------
(***************************************************************************)
(* The Katzenpost thin client (substrates/quicmix-katzenpost/src/lib.rs):  *)
(* concurrent request_reply calls, each over a socket of its own, and one  *)
(* KatzenpostSubstrate whose socket several tasks write to.  Every await   *)
(* is a step.  The daemon and the mixnet behind it are external: sessions  *)
(* are known by the client's instance token, replies are routed by the     *)
(* SURB id of the request, are lost, overtake each other and come late.    *)
(***************************************************************************)
EXTENDS Integers, Sequences, SequencesExt, Bitwise

CONSTANTS
  Calls,     \* calls of request_reply
  Sub,       \* the connection of the KatzenpostSubstrate
  Senders,   \* tasks that call its try_send, one datagram each
  Starts,    \* the sets of connections a behaviour may begin with
  Greetings, \* the status and PKI document a daemon may greet with
  Events,    \* bound of the model: unasked frames and hang-ups of the daemon
  None

Conns == Calls \cup {Sub}
Msgs == Calls \cup Senders
ConnOf(m) == IF m \in Calls THEN m ELSE Sub

VARIABLES
  stage,     \* of each connection's client: see the actions; "closed" when dropped
  up, down,  \* the two directions of each socket: halves of frames, frames
  ctr,       \* CTR of instance_token
  draw,      \* halves of the token each connection or sender is drawing
  doc, online, \* the handshake's facts
  lock,      \* holder of the substrate's write lock, or None
  written,   \* senders: halves of the frame written so far
  session,   \* external: the connection each instance token is bound to
  surbs,     \* external: what each SURB id leads back to
  flying,    \* external: requests in the mixnet
  gone,      \* external: connections the daemon has closed
  asked,     \* external: unasked frames and hang-ups so far
  reply,     \* what each call returned, or None
  heard      \* payloads that the substrate's try_recv returned

link == <<stage, up, down, doc, online>>
tokens == <<ctr, draw>>
daemon == <<session, surbs, flying, gone, asked>>
out == <<reply, heard>>
vars == <<link, tokens, lock, written, daemon, out>>

-----------------------------------------------------------------------------
\* PKI documents.  A document is wrapped in byte strings and tags, outermost
\* first, around a map, or around something else; its service nodes are
\* undecodable or have a key (or an empty one) and, for the capability asked
\* for, a text endpoint, another value or none.
Wrappers == {"bytes", "tagged bytes"}

\* decode_document: a loop that looks at four layers and takes one off each time.
Layers == 4
decode_document(d) ==
  LET look[i \in 1..(Layers + 1)] ==
        IF i > Layers THEN FALSE
        ELSE IF i = Len(d.wrap) + 1 THEN d.core = "map"
        ELSE d.wrap[i] \in Wrappers /\ look[i + 1]
  IN look[1]

\* resolve_service: a loop over the service nodes.  One that cannot be decoded
\* is skipped, and so is one without the capability at a text endpoint; the
\* first other one ends the loop, with an error when its key is empty (the bug:
\* an endpoint of any type will do).
VisitAny(found, n) ==
  IF found # None \/ ~n.decodes \/ n.endpoint = "none" THEN found ELSE n
Visit(found, n) ==
  IF found # None \/ ~n.decodes \/ n.endpoint # "text" THEN found ELSE n
resolve_service(d) ==
  LET found == FoldLeft(Visit, None, d.nodes)
  IN IF decode_document(d) /\ found # None /\ found.key THEN found ELSE None

-----------------------------------------------------------------------------
\* instance_token: two steps of the shared counter, each mixed by an xor with
\* its high bits, an odd multiplier and another xor.  Width stands for 64, the
\* other numbers for the constants of the code.
Width == 6
\* (the bug: an even increment)
StepEven == 32
Step == 21
Mix == [x \in 0..(2^Width - 1) |->
          LET a == x ^^ shiftR(x, 3)
              b == (a * 57) % (2^Width)
          IN b ^^ shiftR(b, 2)]
\* wrapping_add of the atomic counter.
Wrap(x) == x % (2^Width)
DrawHalf(p) ==
  /\ Len(draw[p]) < 2
  /\ draw' = [draw EXCEPT ![p] = Append(@, Mix[ctr])]
  /\ ctr' = Wrap(ctr + Step)
Drawn(p) == Len(draw[p]) = 2

DrawToken(c) == stage[c] \in {"token", "surb"} /\ DrawHalf(c)
                /\ UNCHANGED <<link, lock, written, daemon, out>>

Init ==
  /\ \E S \in Starts : stage = [c \in Conns |-> IF c \in S THEN "connect" ELSE "closed"]
  /\ up = [c \in Conns |-> <<>>] /\ down = [c \in Conns |-> <<>>]
  /\ ctr = 37 /\ draw = [p \in Conns \cup Senders |-> <<>>]
  /\ doc = [c \in Conns |-> None] /\ online = [c \in Conns |-> FALSE]
  /\ lock = None /\ written = [s \in Senders |-> 0]
  /\ session = {} /\ surbs = {} /\ flying = {} /\ gone = {} /\ asked = 0
  /\ reply = [c \in Calls |-> None] /\ heard = <<>>

-----------------------------------------------------------------------------
Go(c, next) == stage' = [stage EXCEPT ![c] = next]
\* An early return drops the stream.
Fail(c) == Go(c, "closed")

\* read_frame: the next frame; the end of the stream, a length above 2^24 or a
\* body that is not CBOR is an error.
Has(c) == down[c] # <<>> \/ c \in gone
Frame(c) == IF down[c] # <<>> THEN Head(down[c]) ELSE [kind |-> "bad"]
Consume(c) == down' = [down EXCEPT ![c] = IF @ = <<>> THEN @ ELSE Tail(@)]
\* write_frame is the length and then the body, of one frame f.  It fails once
\* the daemon has closed the socket.
Halves(f) == <<[half |-> "len", of |-> f], [half |-> "body", of |-> f]>>
Write(c, f, next) ==
  IF c \in gone THEN Fail(c) /\ UNCHANGED up
  ELSE Go(c, next) /\ up' = [up EXCEPT ![c] = @ \o Halves(f)]

\* TcpStream::connect; the daemon greets with its status and the document.
Connect(c) ==
  /\ stage[c] = "connect"
  /\ \/ Fail(c) /\ UNCHANGED down
     \/ \E g \in Greetings :
          /\ Go(c, "status")
          /\ down' = [down EXCEPT ![c] = <<[kind |-> "status", on |-> g.on], [kind |-> "pki", doc |-> g.doc]>>]
  /\ UNCHANGED <<up, doc, online, tokens, lock, written, daemon, out>>

\* connect_and_handshake: each frame must be the one expected next.
ReadStatus(c) ==
  /\ stage[c] = "status" /\ Has(c) /\ Consume(c)
  /\ IF Frame(c).kind = "status"
     THEN Go(c, "pki") /\ online' = [online EXCEPT ![c] = Frame(c).on]
     ELSE Fail(c) /\ UNCHANGED online
  /\ UNCHANGED <<up, doc, tokens, lock, written, daemon, out>>
ReadDoc(c) ==
  /\ stage[c] = "pki" /\ Has(c) /\ Consume(c)
  /\ IF Frame(c).kind = "pki"
     THEN Go(c, "token") /\ doc' = [doc EXCEPT ![c] = Frame(c).doc]
     ELSE Fail(c) /\ UNCHANGED doc
  /\ UNCHANGED <<up, online, tokens, lock, written, daemon, out>>
SendToken(c) ==
  /\ stage[c] = "token" /\ Drawn(c)
  /\ Write(c, [token |-> draw[c]], "tokenreply")
  /\ draw' = [draw EXCEPT ![c] = <<>>]
  /\ UNCHANGED <<down, doc, online, ctr, lock, written, daemon, out>>

\* The end of the handshake and what follows before the next await: a call also
\* wants the daemon to be online; both need the service.
Usable(c) == (c \in Calls => online[c]) /\ resolve_service(doc[c]) # None
ReadTokenReply(c) ==
  /\ stage[c] = "tokenreply" /\ Has(c) /\ Consume(c)
  /\ IF Frame(c).kind = "token" /\ Usable(c)
     THEN Go(c, IF c \in Calls THEN "surb" ELSE "open")
     ELSE Fail(c)
  /\ UNCHANGED <<up, doc, online, tokens, lock, written, daemon, out>>

\* request_reply: one message with a reply SURB, then wait for a reply.
Request(m, c) == [to |-> resolve_service(doc[c]), surb |-> draw[m], msg |-> m]
SendRequest(c) ==
  /\ stage[c] = "surb" /\ Drawn(c)
  /\ Write(c, Request(c, c), "wait")
  /\ UNCHANGED <<down, doc, online, tokens, lock, written, daemon, out>>

\* read_until_reply: other events are skipped, the first reply is returned and
\* the stream dropped.
ReadReply(c) ==
  /\ stage[c] = "wait" /\ Has(c) /\ Consume(c)
  /\ CASE Frame(c).kind = "reply" ->
            Go(c, "closed") /\ reply' = [reply EXCEPT ![c] = Frame(c).msg]
       [] Frame(c).kind = "bad" -> Fail(c) /\ UNCHANGED reply
       [] OTHER -> UNCHANGED <<stage, reply>>
  /\ UNCHANGED <<up, doc, online, tokens, lock, written, daemon, heard>>

\* The timeout around it; the stream is dropped with the call (the bug: none).
ExpireNever(c) == FALSE /\ UNCHANGED vars
Expire(c) ==
  /\ stage[c] = "wait"
  /\ Fail(c)
  /\ UNCHANGED <<up, down, doc, online, tokens, lock, written, daemon, out>>

-----------------------------------------------------------------------------
\* try_send of the substrate: the request is built, then written under the lock,
\* which is held to the end of the write or its error.
Sending(s) == stage[Sub] \in {"open", "deaf"} /\ written[s] < 2
BuildSend(s) ==
  /\ Sending(s) /\ DrawHalf(s)
  /\ UNCHANGED <<link, lock, written, daemon, out>>
WriteHalf(s) ==
  /\ Sending(s) /\ Drawn(s) /\ lock \in {None, s}
  /\ lock' = s
  /\ IF Sub \in gone
     THEN written' = [written EXCEPT ![s] = 2] /\ UNCHANGED up
     ELSE /\ up' = [up EXCEPT ![Sub] = Append(@, Halves(Request(s, Sub))[written[s] + 1])]
          /\ written' = [written EXCEPT ![s] = @ + 1]
  /\ UNCHANGED <<stage, down, doc, online, tokens, daemon, out>>
\* (the bug: the lock is taken for each write)
UnlockEarly(s) ==
  /\ lock = s
  /\ lock' = None
  /\ UNCHANGED <<link, tokens, written, daemon, out>>
Unlock(s) ==
  /\ lock = s /\ written[s] = 2
  /\ lock' = None
  /\ UNCHANGED <<link, tokens, written, daemon, out>>

\* try_recv: read_until_reply again; every error is Closed, after which the
\* boundary around the substrate receives no more, but still sends.
TryRecv ==
  /\ stage[Sub] = "open" /\ Has(Sub) /\ Consume(Sub)
  /\ CASE Frame(Sub).kind = "reply" -> heard' = Append(heard, Frame(Sub).msg) /\ UNCHANGED stage
       [] Frame(Sub).kind = "bad" -> Go(Sub, "deaf") /\ UNCHANGED heard
       [] OTHER -> UNCHANGED <<stage, heard>>
  /\ UNCHANGED <<up, doc, online, tokens, lock, written, daemon, reply>>

-----------------------------------------------------------------------------
\* External: the daemon reads a whole frame.  A known token is bound to the new
\* connection (the session is resumed); a request leaves for the mixnet, with
\* its SURB leading back to the session of the connection.
InStepAt(c) == up[c][1].half = "len" /\ up[c][2] = [half |-> "body", of |-> up[c][1].of]
Bound(t) == {p \in session : p[1] = t}
DaemonReads(c) ==
  /\ c \notin gone /\ Len(up[c]) >= 2 /\ InStepAt(c)
  /\ up' = [up EXCEPT ![c] = SubSeq(@, 3, Len(@))]
  /\ LET f == up[c][1].of IN
     IF "token" \in DOMAIN f
     THEN /\ session' = (session \ Bound(f.token)) \cup {<<f.token, c>>}
          /\ down' = [down EXCEPT ![c] = Append(@, [kind |-> "token"])]
          /\ UNCHANGED <<surbs, flying>>
     ELSE /\ surbs' = {p \in surbs : p[1] # f.surb}
                        \cup {<<f.surb, t>> : t \in {p[1] : p \in {q \in session : q[2] = c}}}
          /\ flying' = flying \cup {f}
          /\ UNCHANGED <<session, down>>
  /\ UNCHANGED <<stage, doc, online, tokens, lock, written, gone, asked, out>>

\* External: a request is answered, if the service it was sent to is the one
\* that was meant, and the reply reaches whoever is bound to the session now.
Answer(f) ==
  /\ f \in flying
  /\ flying' = flying \ {f}
  /\ LET to == {p[2] : p \in {q \in session : <<f.surb, q[1]>> \in surbs}} IN
     down' = [c \in Conns |-> IF c \in to \ gone /\ stage[c] # "closed"
                              THEN Append(down[c], [kind |-> "reply", msg |-> f.msg]) ELSE down[c]]
  /\ UNCHANGED <<stage, up, doc, online, tokens, lock, written, session, surbs, gone, asked, out>>
\* External: a request or its reply is lost.
Lose(f) ==
  /\ f \in flying
  /\ flying' = flying \ {f}
  /\ UNCHANGED <<link, tokens, lock, written, session, surbs, gone, asked, out>>

\* External: an event nobody asked for, or a frame that cannot be read.
Unasked(c, k) ==
  /\ asked < Events /\ stage[c] \notin {"connect", "closed"} /\ c \notin gone
  /\ asked' = asked + 1
  /\ down' = [down EXCEPT ![c] = Append(@, [kind |-> k])]
  /\ UNCHANGED <<stage, up, doc, online, tokens, lock, written, session, surbs, flying, gone, out>>
\* External: the daemon closes the connection.
HangUp(c) ==
  /\ asked < Events /\ stage[c] \notin {"connect", "closed"} /\ c \notin gone
  /\ asked' = asked + 1 /\ gone' = gone \cup {c}
  /\ UNCHANGED <<link, tokens, lock, written, session, surbs, flying, out>>

ClientStep(c) ==
  \/ Connect(c) \/ ReadStatus(c) \/ ReadDoc(c) \/ DrawToken(c) \/ SendToken(c)
  \/ ReadTokenReply(c)
CallStep(c) == SendRequest(c) \/ ReadReply(c) \/ Expire(c)
SenderStep(s) == BuildSend(s) \/ WriteHalf(s) \/ Unlock(s)

Next ==
  \/ \E c \in Conns : ClientStep(c) \/ DaemonReads(c) \/ HangUp(c) \/ \E k \in {"event", "bad"} : Unasked(c, k)
  \/ \E c \in Calls : CallStep(c)
  \/ \E s \in Senders : SenderStep(s)
  \/ TryRecv
  \/ \E f \in flying : Answer(f) \/ Lose(f)

Spec == Init /\ [][Next]_vars

\* Client tasks go on when they can, and the timer fires; the daemon need not.
FairSpec == Spec /\ \A c \in Calls : WF_vars(SendRequest(c) \/ DrawToken(c)) /\ WF_vars(Expire(c))

-----------------------------------------------------------------------------
\* Types; the counter behind the tokens stays within its width.
TypeOK ==
  /\ stage \in [Conns -> {"connect", "status", "pki", "token", "tokenreply", "surb", "wait",
                          "open", "deaf", "closed"}]
  /\ ctr \in 0..(2^Width - 1) /\ \A p \in DOMAIN draw : draw[p] \in Seq(0..(2^Width - 1))
  /\ online \in [Conns -> BOOLEAN]
  /\ lock \in Senders \cup {None} /\ written \in [Senders -> 0..2]
  /\ reply \in [Calls -> Msgs \cup {None}] /\ heard \in Seq(Msgs)

\* "Only one request is ever in flight, so the first reply is ours": a call
\* returns the reply to its own request, also when the reply of a call that
\* timed out comes late.  It rests on the tokens being distinct: a repeated one
\* would resume the session of the other call.  Likewise the substrate gets the
\* replies to its own datagrams, each once.
OwnReply ==
  /\ TypeOK
  /\ \A c \in Calls : reply[c] \in {c, None}
  /\ \A i \in DOMAIN heard : heard[i] \in Senders /\ \A j \in 1..(i - 1) : heard[j] # heard[i]

\* Concurrent senders never split each other's frames: what the daemon reads is
\* a length followed by the body it belongs to.
FramesWhole == \A c \in Conns \ gone : Len(up[c]) >= 2 => InStepAt(c)

\* A message goes to a node of the document that can be decoded, has a key and
\* offers the capability at a text endpoint, and no earlier node does.
RightService ==
  \A c \in Conns : stage[c] \in {"surb", "wait", "open", "deaf"} =>
    \E i \in DOMAIN doc[c].nodes :
      LET n == doc[c].nodes[i] IN
      /\ resolve_service(doc[c]) = n
      /\ n.decodes /\ n.key /\ n.endpoint = "text"
      /\ \A j \in 1..(i - 1) : doc[c].nodes[j].decodes => doc[c].nodes[j].endpoint # "text"
      /\ Len(doc[c].wrap) < 4

\* What is written to the daemon makes sense to it: whole frames, addressed to a
\* node that offers the service.
DaemonUnderstands == FramesWhole /\ RightService

\* Once the handshake is done a call ends, whatever the daemon does.
CallEnds == \A c \in Calls : stage[c] = "surb" ~> stage[c] = "closed"

=============================================================================
