----------------------------- MODULE NymProofs ------------------------------
(***************************************************************************)
(* Two parts that speak Nym.                                               *)
(*                                                                         *)
(* The server behind the gateway sees one source per client, and what it   *)
(* answers goes back once and to its owner, for any number of clients,     *)
(* sockets and answers.  The inductive invariant says that the HashMap of  *)
(* the gateway's loop and the tags its reply legs are keyed with are       *)
(* inverse to each other (Keyed); the accounts of every leg                *)
(* (RepliesConserved) are inductive over well-typed legs.                  *)
(*                                                                         *)
(* The program that rotates carries a session over to a circuit of the     *)
(* pool, for any number of cold and of warm connections.  The inductive    *)
(* invariant RotationSound reads off where main is how many circuits and   *)
(* session ids there are, which of them are left in the pool, whose        *)
(* message is under way and what the server has recorded of the session    *)
(* that moves.                                                             *)
(***************************************************************************)
EXTENDS NymGateway, Rotation, TLAPS

Message == [tag : Tags \cup {None}, n : 1..Msgs]

\* What travels between the clients and the loop.
MixTypes ==
  /\ mix \subseteq Message /\ inbox \in Seq(Message)
  /\ up \in BOOLEAN /\ sent \in 0..Msgs

\* The reply legs: one entry per opened socket in each of these.
Legs(n) ==
  /\ answers \in [1..n -> 0..SockBuf] /\ replyQ \in [1..n -> 0..Depth]
  /\ reader \in [1..n -> {"recv", "send", "done"}]
  /\ pump \in [1..n -> {"idle", "send", "stuck"}]
  /\ answered \in [1..n -> Nat] /\ shipped \in [1..n -> Nat]

\* The map from tags to sockets and the tags of the sockets are inverse to each
\* other; a socket carries the datagrams of its own tag, and its replies too.
Keyed ==
  /\ tagOf \in Seq(Tags) /\ Len(tagOf) <= MaxFds
  /\ socks \in [Tags -> Opened \cup {None}]
  /\ \A t \in Tags : socks[t] # None => tagOf[socks[t]] = t
  /\ \A s \in Opened : socks[tagOf[s]] = s
  /\ origin = [s \in Opened |-> {tagOf[s]}]
  /\ back \subseteq {[tag |-> tagOf[s], sock |-> s] : s \in Opened}

\* The account of one leg.
WithReader(s) == IF reader[s] = "send" THEN 1 ELSE 0
WithPump(s) == IF pump[s] = "idle" THEN 0 ELSE 1
Account(s) ==
  answered[s] = answers[s] + WithReader(s) + replyQ[s] + WithPump(s) + shipped[s]

GatewaySound ==
  MixTypes /\ Legs(Len(tagOf)) /\ Keyed /\ \A s \in Opened : Account(s)

\* The clients of the table are numbered from 1.
LEMMA OpenedRange ==
  ASSUME Keyed
  PROVE  Len(tagOf) \in Nat /\ Opened = 1..Len(tagOf) /\ Len(tagOf) + 1 \notin Opened
BY DEF Keyed, Opened

\* A vector with one entry more.
Extended(f, g, n, x) == g[n + 1] = x /\ \A i \in 1..n : g[i] = f[i]

\* A function that is extended by one point.
LEMMA Grown ==
  ASSUME NEW S, NEW n \in Nat, NEW f \in [1..n -> S], NEW x \in S
  PROVE  Append(f, x) \in [1..(n + 1) -> S] /\ Extended(f, Append(f, x), n, x)
<1>1. f \in Seq(S) /\ Len(f) = n
  OBVIOUS
<1>2. Append(f, x) \in Seq(S) /\ Len(Append(f, x)) = n + 1
  BY <1>1
<1>3. Extended(f, Append(f, x), n, x)
  BY <1>1 DEF Extended
<1>4. \A g \in Seq(S) : g \in [1..Len(g) -> S]
  OBVIOUS
<1> QED
  BY <1>2, <1>3, <1>4, Zenon

-----------------------------------------------------------------------------
\* No client, nothing on the way.
LEMMA GatewayInit == Init => GatewaySound
<1> SUFFICES ASSUME Init PROVE GatewaySound
  OBVIOUS
<1>1. MixTypes
  BY GatewayAssumption DEF Init, MixTypes
<1>2. Opened = {} /\ Len(tagOf) = 0 /\ 1..0 = {} /\ tagOf \in Seq(Tags)
  BY DEF Init, Opened
<1>3. Legs(0)
  <2>1. \A S : <<>> \in [1..0 -> S]
    BY <1>2
  <2> QED
    BY <2>1 DEF Init, Legs
<1>4. Keyed
  <2>1. origin = [s \in Opened |-> {tagOf[s]}]
    BY <1>2 DEF Init
  <2>2. Len(tagOf) <= MaxFds
    BY <1>2, GatewayAssumption
  <2>3. socks \in [Tags -> Opened \cup {None}] /\ back = {} /\ \A t \in Tags : socks[t] = None
    BY DEF Init
  <2> QED
    BY <1>2, <2>1, <2>2, <2>3 DEF Keyed
<1> QED
  BY <1>1, <1>2, <1>3, <1>4 DEF GatewaySound

\* What only moves datagrams, and leaves tables and legs alone, keeps the invariant.
LEMMA SameTables ==
  ASSUME GatewaySound, MixTypes', UNCHANGED <<back, legVars, socks, origin>>
  PROVE  GatewaySound'
<1>1. Legs(Len(tagOf))' /\ (\A s \in Opened : Account(s))'
  BY DEF GatewaySound, legVars, Legs, Account, WithReader, WithPump, Opened
<1>2. Keyed'
  BY DEF GatewaySound, legVars, Keyed, Opened
<1> QED
  BY <1>1, <1>2 DEF GatewaySound

\* Clients, the mix, and the loop when it skips a datagram or ends.
LEMMA MixSound ==
  ASSUME GatewaySound,
         \/ \E t \in Tags \cup {None} : ClientSend(t)
         \/ \E m \in mix : Deliver(m) \/ Lose(m)
         \/ Skip \/ OpenFails \/ StreamEnds
  PROVE  GatewaySound'
<1> USE DEF MixTypes
<1>0. MixTypes
  BY DEF GatewaySound
<1>1. ASSUME NEW t \in Tags \cup {None}, ClientSend(t) PROVE GatewaySound'
  <2>1. /\ sent < Msgs /\ sent' = sent + 1 /\ mix' = mix \cup {[tag |-> t, n |-> sent + 1]}
        /\ UNCHANGED <<inbox, back, legVars, up, socks, origin>>
    BY <1>1 DEF ClientSend
  <2>2. sent + 1 \in 1..Msgs /\ sent' \in 0..Msgs
    BY <1>0, <2>1, GatewayAssumption
  <2>3. [tag |-> t, n |-> sent + 1] \in Message
    BY <2>2 DEF Message
  <2>4. MixTypes'
    BY <1>0, <2>1, <2>2, <2>3
  <2> QED
    BY <2>1, <2>4, SameTables
<1>2. ASSUME NEW m \in mix, Deliver(m) \/ Lose(m) PROVE GatewaySound'
  <2>1. /\ mix' = mix \ {m} /\ inbox' \in {inbox, Append(inbox, m)}
        /\ UNCHANGED <<sent, back, legVars, up, socks, origin>>
    BY <1>2 DEF Deliver, Lose
  <2>2. m \in Message
    BY <1>0
  <2>3. Append(inbox, m) \in Seq(Message)
    BY <1>0, <2>2
  <2>4. MixTypes'
    BY <1>0, <2>1, <2>3
  <2> QED
    BY <2>1, <2>4, SameTables
<1>3. CASE Skip \/ OpenFails \/ StreamEnds
  <2>1. /\ inbox' = inbox \/ (inbox # <<>> /\ inbox' = Tail(inbox))
        /\ up' \in {up, FALSE} /\ UNCHANGED <<mix, sent, back, legVars, socks, origin>>
    BY <1>3, Zenon DEF Skip, OpenFails, StreamEnds, LoopReady, mixVars
  <2>2. inbox # <<>> => Tail(inbox) \in Seq(Message)
    BY <1>0
  <2>3. MixTypes'
    BY <1>0, <2>1, <2>2, Zenon
  <2> QED
    BY <2>1, <2>3, SameTables
<1> QED
  BY <1>1, <1>2, <1>3

\* What the loop takes off its inbox.
LEMMA TakenMessage ==
  ASSUME MixTypes, inbox # <<>>, inbox' = Tail(inbox), UNCHANGED <<mix, sent, up>>
  PROVE  MixTypes' /\ Head(inbox).tag \in Tags \cup {None}
<1>1. Head(inbox) \in Message /\ Tail(inbox) \in Seq(Message)
  BY DEF MixTypes
<1> QED
  BY <1>1 DEF MixTypes, Message

\* A datagram of a known tag leaves through the socket of that tag.
LEMMA PassOnSound ==
  ASSUME GatewaySound, PassOn
  PROVE  GatewaySound'
<1>1. MixTypes /\ Keyed /\ inbox # <<>> /\ inbox' = Tail(inbox) /\ Head(inbox).tag # None
      /\ UNCHANGED <<mix, back, sent, legVars, up, socks>>
  BY DEF GatewaySound, PassOn, LoopReady
<1>2. PICK t \in Tags : t = Head(inbox).tag
  BY <1>1, TakenMessage
<1>3. PICK s \in Opened : s = Socket(t) /\ origin' = [origin EXCEPT ![s] = @ \cup {t}]
  BY <1>2, Zenon DEF PassOn
<1>4. socks[t] = s /\ tagOf[s] = t
  BY <1>1, <1>3, OpenedRange DEF Socket, Keyed
<1>5. origin[s] \cup {t} = origin[s] /\ origin' = origin
  BY <1>1, <1>3, <1>4, Zenon DEF Keyed
<1> QED
  BY <1>1, <1>5, TakenMessage, SameTables

\* A datagram of a new tag opens a socket, and the tables stay inverse.
LEMMA BindKeyed ==
  ASSUME MixTypes, Keyed, Bind
  PROVE  Keyed' /\ Opened' = 1..(Len(tagOf) + 1)
<1> DEFINE n == Len(tagOf)
<1>1. inbox # <<>> /\ inbox' = Tail(inbox) /\ Head(inbox).tag # None
      /\ UNCHANGED <<mix, back, sent, up>>
  BY DEF Bind, LoopReady
<1>2. PICK t \in Tags : t = Head(inbox).tag
  BY <1>1, TakenMessage
<1>3. n \in Nat /\ Opened = 1..n /\ n + 1 \notin Opened
  BY OpenedRange
<1>4. /\ Socket(t) \notin Opened /\ Socket(t) <= MaxFds
      /\ socks' = [socks EXCEPT ![t] = Socket(t)]
      /\ tagOf' = Append(tagOf, t) /\ origin' = Append(origin, {t})
  BY <1>2 DEF Bind
<1>5. socks[t] = None /\ Socket(t) = n + 1
  BY <1>4 DEF Socket, Keyed
<1>6. /\ tagOf' \in Seq(Tags) /\ Len(tagOf') = n + 1 /\ Opened' = 1..(n + 1)
      /\ tagOf'[n + 1] = t /\ \A s \in Opened : tagOf'[s] = tagOf[s]
  BY <1>3, <1>4 DEF Keyed, Opened
<1>7. \A s \in Opened' : s \in Opened \/ s = n + 1
  BY <1>3, <1>6
<1>8. /\ socks' \in [Tags -> Opened' \cup {None}] /\ socks'[t] = n + 1
      /\ \A u \in Tags \ {t} : socks'[u] = socks[u]
  BY <1>3, <1>4, <1>5, <1>6 DEF Keyed
<1>9. \A u \in Tags : socks'[u] # None => tagOf'[socks'[u]] = u
  BY <1>5, <1>6, <1>8 DEF Keyed
<1>10. \A s \in Opened' : socks'[tagOf'[s]] = s
  <2>1. \A s \in Opened : tagOf[s] \in Tags /\ tagOf[s] # t
    BY <1>3, <1>5, GatewayAssumption DEF Keyed, Opened
  <2> QED
    BY <1>6, <1>7, <1>8, <2>1 DEF Keyed
<1>11. origin' = [s \in Opened' |-> {tagOf'[s]}]
  <2>1. origin \in [1..n -> SUBSET Tags] /\ {t} \in SUBSET Tags
    BY <1>3 DEF Keyed, Opened
  <2>2. /\ origin' \in [1..(n + 1) -> SUBSET Tags]
        /\ Extended(origin, origin', n, {t})
    <3>1. origin' = Append(origin, {t}) /\ n \in Nat
      BY <1>3, <1>4
    <3> QED
      BY <2>1, <3>1, Grown, Zenon
  <2>3. \A s \in Opened' : origin'[s] = {tagOf'[s]}
    BY <1>3, <1>6, <1>7, <2>2 DEF Keyed, Extended
  <2> QED
    BY <1>6, <2>2, <2>3
<1>12. back' \subseteq {[tag |-> tagOf'[s], sock |-> s] : s \in Opened'}
  BY <1>1, <1>3, <1>6 DEF Keyed
<1>13. Len(tagOf') <= MaxFds
  BY <1>4, <1>5, <1>6
<1> QED
  BY <1>6, <1>8, <1>9, <1>10, <1>11, <1>12, <1>13 DEF Keyed

\* A client that is not known yet is bound to a source of its own.
LEMMA BindSound ==
  ASSUME GatewaySound, Bind
  PROVE  GatewaySound'
<1> DEFINE n == Len(tagOf)
<1>1. MixTypes /\ Keyed /\ Legs(n) /\ \A s \in Opened : Account(s)
  BY DEF GatewaySound
<1>2. MixTypes'
  BY <1>1, TakenMessage DEF Bind, LoopReady
<1>3. Keyed' /\ Opened' = 1..(n + 1) /\ Opened = 1..n /\ n \in Nat
  BY <1>1, BindKeyed, OpenedRange
<1>4. Len(tagOf') = n + 1
  BY <1>3, OpenedRange DEF Opened, Keyed
<1>5. /\ answers' = Append(answers, 0) /\ reader' = Append(reader, "recv")
      /\ replyQ' = Append(replyQ, 0) /\ pump' = Append(pump, "idle")
      /\ answered' = Append(answered, 0) /\ shipped' = Append(shipped, 0)
  BY DEF Bind
<1>6. /\ answers \in [1..n -> 0..SockBuf] /\ replyQ \in [1..n -> 0..Depth]
      /\ reader \in [1..n -> {"recv", "send", "done"}]
      /\ pump \in [1..n -> {"idle", "send", "stuck"}]
      /\ answered \in [1..n -> Nat] /\ shipped \in [1..n -> Nat]
      /\ 0 \in 0..SockBuf /\ 0 \in 0..Depth /\ 0 \in Nat /\ n \in Nat
  BY <1>1, <1>3, GatewayAssumption DEF Legs
<1>7. /\ answers' \in [1..(n + 1) -> 0..SockBuf]
      /\ Extended(answers, answers', n, 0)
  BY <1>5, <1>6, Grown, Zenon
<1>8. /\ replyQ' \in [1..(n + 1) -> 0..Depth]
      /\ Extended(replyQ, replyQ', n, 0)
  BY <1>5, <1>6, Grown, Zenon
<1>9. /\ reader' \in [1..(n + 1) -> {"recv", "send", "done"}]
      /\ Extended(reader, reader', n, "recv")
  BY <1>5, <1>6, Grown, Zenon
<1>10. /\ pump' \in [1..(n + 1) -> {"idle", "send", "stuck"}]
      /\ Extended(pump, pump', n, "idle")
  BY <1>5, <1>6, Grown, Zenon
<1>11. /\ answered' \in [1..(n + 1) -> Nat]
      /\ Extended(answered, answered', n, 0)
  BY <1>5, <1>6, Grown, Zenon
<1>12. /\ shipped' \in [1..(n + 1) -> Nat]
      /\ Extended(shipped, shipped', n, 0)
  BY <1>5, <1>6, Grown, Zenon
<1>13. Legs(Len(tagOf))'
  BY <1>4, <1>7, <1>8, <1>9, <1>10, <1>11, <1>12 DEF Legs
<1>14. ASSUME NEW s \in Opened' PROVE Account(s)'
  <2>1. CASE s \in 1..n
    <3>1. /\ answers'[s] = answers[s] /\ replyQ'[s] = replyQ[s] /\ reader'[s] = reader[s]
          /\ pump'[s] = pump[s] /\ answered'[s] = answered[s] /\ shipped'[s] = shipped[s]
      BY <1>7, <1>8, <1>9, <1>10, <1>11, <1>12, <2>1 DEF Extended
    <3>2. Account(s)
      BY <1>1, <1>3, <2>1
    <3> QED
      BY <3>1, <3>2 DEF Account, WithReader, WithPump
  <2>2. CASE s = n + 1
    BY <1>7, <1>8, <1>9, <1>10, <1>11, <1>12, <2>2
       DEF Account, WithReader, WithPump, Extended
  <2> QED
    BY <1>3, <1>14, <2>1, <2>2
<1> QED
  BY <1>2, <1>3, <1>13, <1>14 DEF GatewaySound

-----------------------------------------------------------------------------
\* A step of one leg balances its own account and touches no other's.
LEMMA LegSound ==
  ASSUME GatewaySound, NEW s \in Opened, Legs(Len(tagOf))', Keyed', Account(s)',
         UNCHANGED <<mix, inbox, sent, up, tagOf>>,
         \A q \in Opened \ {s} :
           /\ answered'[q] = answered[q] /\ answers'[q] = answers[q] /\ reader'[q] = reader[q]
           /\ replyQ'[q] = replyQ[q] /\ pump'[q] = pump[q] /\ shipped'[q] = shipped[q]
  PROVE  GatewaySound'
<1>1. Opened' = Opened
  BY DEF Opened
<1>2. \A q \in Opened : Account(q)'
  BY DEF GatewaySound, Account, WithReader, WithPump
<1>3. MixTypes'
  BY DEF GatewaySound, MixTypes
<1> QED
  BY <1>1, <1>2, <1>3 DEF GatewaySound

\* What an action of leg s reads and writes.
LEMMA LegTypes ==
  ASSUME GatewaySound, NEW s \in Opened
  PROVE  /\ Len(tagOf) \in Nat /\ s \in 1..Len(tagOf) /\ Opened = 1..Len(tagOf)
         /\ answers[s] \in 0..SockBuf /\ replyQ[s] \in 0..Depth
         /\ SockBuf \in Nat /\ Depth \in Nat /\ answered[s] \in Nat /\ shipped[s] \in Nat
         /\ WithReader(s) \in Nat /\ WithPump(s) \in Nat /\ Account(s) /\ Keyed
BY GatewayAssumption, OpenedRange DEF GatewaySound, Legs, WithReader, WithPump

\* Steps that leave the table alone keep its keys distinct.
LEMMA SameKeys ==
  ASSUME Keyed, UNCHANGED <<tagOf, socks, origin, back>>
  PROVE  Keyed'
BY DEF Keyed, Opened

\* A reply goes out under the tag of its own socket.
LEMMA ReplyKeyed ==
  ASSUME Keyed, NEW s \in Opened, back' \subseteq back \cup {[tag |-> tagOf[s], sock |-> s]},
         UNCHANGED <<tagOf, socks, origin>>
  PROVE  Keyed'
<1>1. back' \subseteq {[tag |-> tagOf[r], sock |-> r] : r \in Opened}
  BY DEF Keyed
<1>2. Opened' = Opened
  BY DEF Opened
<1> QED
  BY <1>1, <1>2 DEF Keyed

\* The server's answer, and the reader's steps.
LEMMA ReaderSound ==
  ASSUME GatewaySound, NEW s \in Opened, Answer(s) \/ Read(s) \/ ReadFails(s) \/ Queue(s)
  PROVE  GatewaySound'
<1> USE DEF mixVars
<1>1. Legs(Len(tagOf))
  BY DEF GatewaySound
<1>2. /\ answers[s] \in Nat /\ replyQ[s] \in Nat /\ answered[s] \in Nat /\ shipped[s] \in Nat
      /\ WithReader(s) \in Nat /\ WithPump(s) \in Nat /\ Account(s)
  BY LegTypes
<1>3. CASE Answer(s)
  <2>1. /\ answers[s] < SockBuf
        /\ answers' = [answers EXCEPT ![s] = @ + 1] /\ answered' = [answered EXCEPT ![s] = @ + 1]
        /\ UNCHANGED <<mixVars, tagOf, reader, replyQ, pump, shipped, up, socks, origin>>
    BY <1>3 DEF Answer
  <2>2. answers[s] + 1 \in 0..SockBuf /\ answered[s] + 1 \in Nat
    BY <2>1, LegTypes
  <2>3. Legs(Len(tagOf))' /\ answers'[s] = answers[s] + 1 /\ answered'[s] = answered[s] + 1
    BY <1>1, <2>1, <2>2, LegTypes, Zenon DEF Legs
  <2>4. Account(s)'
    <3>1. WithReader(s)' = WithReader(s) /\ WithPump(s)' = WithPump(s)
      BY <2>1, <2>3 DEF WithReader, WithPump
    <3>2. /\ answers'[s] = answers[s] + 1 /\ replyQ'[s] = replyQ[s]
          /\ answered'[s] = answered[s] + 1 /\ shipped'[s] = shipped[s]
      BY <2>1, <2>3
    <3> QED
      BY <1>2, <3>1, <3>2, SMT DEF Account
  <2> QED
    BY <1>1, <2>1, <2>3, <2>4, LegTypes, SameKeys, LegSound, Zenon DEF Legs
<1>4. CASE Read(s)
  <2>1. /\ reader[s] = "recv" /\ answers[s] > 0
        /\ answers' = [answers EXCEPT ![s] = @ - 1] /\ reader' = [reader EXCEPT ![s] = "send"]
        /\ UNCHANGED <<mixVars, tagOf, replyQ, pump, answered, shipped, up, socks, origin>>
    BY <1>4 DEF Read
  <2>2. answers[s] - 1 \in 0..SockBuf
    BY <2>1, LegTypes
  <2>3. Legs(Len(tagOf))' /\ answers'[s] = answers[s] - 1 /\ reader'[s] = "send"
    BY <1>1, <2>1, <2>2, LegTypes DEF Legs
  <2>4. Account(s)'
    <3>1. WithReader(s) = 0 /\ WithReader(s)' = 1 /\ WithPump(s)' = WithPump(s)
      BY <2>1, <2>3 DEF WithReader, WithPump
    <3>2. /\ answers'[s] = answers[s] - 1 /\ replyQ'[s] = replyQ[s]
          /\ answered'[s] = answered[s] /\ shipped'[s] = shipped[s]
      BY <2>1, <2>3
    <3> QED
      BY <1>2, <3>1, <3>2, SMT DEF Account
  <2> QED
    BY <1>1, <2>1, <2>3, <2>4, LegTypes, SameKeys, LegSound, Zenon DEF Legs
<1>5. CASE ReadFails(s)
  <2>1. /\ reader[s] = "recv" /\ reader' = [reader EXCEPT ![s] = "done"]
        /\ UNCHANGED <<mixVars, tagOf, answers, replyQ, pump, answered, shipped, up, socks, origin>>
    BY <1>5 DEF ReadFails
  <2>2. Legs(Len(tagOf))' /\ reader'[s] = "done"
    BY <1>1, <2>1, LegTypes DEF Legs
  <2>3. Account(s)'
    <3>1. WithReader(s) = 0 /\ WithReader(s)' = 0 /\ WithPump(s)' = WithPump(s)
      BY <2>1, <2>2 DEF WithReader, WithPump
    <3>2. /\ answers'[s] = answers[s] /\ replyQ'[s] = replyQ[s]
          /\ answered'[s] = answered[s] /\ shipped'[s] = shipped[s]
      BY <2>1, <2>2
    <3> QED
      BY <1>2, <3>1, <3>2, SMT DEF Account
  <2> QED
    BY <1>1, <2>1, <2>2, <2>3, LegTypes, SameKeys, LegSound, Zenon DEF Legs
<1>6. CASE Queue(s)
  <2>1. /\ reader[s] = "send" /\ replyQ[s] < Depth
        /\ replyQ' = [replyQ EXCEPT ![s] = @ + 1] /\ reader' = [reader EXCEPT ![s] = "recv"]
        /\ UNCHANGED <<mixVars, tagOf, answers, pump, answered, shipped, up, socks, origin>>
    BY <1>6 DEF Queue, Room
  <2>2. replyQ[s] + 1 \in 0..Depth
    BY <2>1, LegTypes
  <2>3. Legs(Len(tagOf))' /\ replyQ'[s] = replyQ[s] + 1 /\ reader'[s] = "recv"
    BY <1>1, <2>1, <2>2, LegTypes DEF Legs
  <2>4. Account(s)'
    <3>1. WithReader(s) = 1 /\ WithReader(s)' = 0 /\ WithPump(s)' = WithPump(s)
      BY <2>1, <2>3 DEF WithReader, WithPump
    <3>2. /\ answers'[s] = answers[s] /\ replyQ'[s] = replyQ[s] + 1
          /\ answered'[s] = answered[s] /\ shipped'[s] = shipped[s]
      BY <2>1, <2>3
    <3> QED
      BY <1>2, <3>1, <3>2, SMT DEF Account
  <2> QED
    BY <1>1, <2>1, <2>3, <2>4, LegTypes, SameKeys, LegSound, Zenon DEF Legs
<1> QED
  BY <1>3, <1>4, <1>5, <1>6

\* The pump's steps: an answer is sent off under the tag of its own socket.
LEMMA ReplyPumpSound ==
  ASSUME GatewaySound, NEW s \in Opened,
         Take(s) \/ Hang(s) \/ \E ok \in BOOLEAN : Ship(s, ok)
  PROVE  GatewaySound'
<1> USE DEF mixVars
<1>1. Legs(Len(tagOf))
  BY DEF GatewaySound
<1>2. /\ answers[s] \in Nat /\ replyQ[s] \in Nat /\ answered[s] \in Nat /\ shipped[s] \in Nat
      /\ WithReader(s) \in Nat /\ WithPump(s) \in Nat /\ Account(s)
  BY LegTypes
<1>3. CASE Take(s)
  <2>1. /\ replyQ[s] > 0 /\ pump[s] = "idle"
        /\ replyQ' = [replyQ EXCEPT ![s] = @ - 1] /\ pump' = [pump EXCEPT ![s] = "send"]
        /\ UNCHANGED <<mixVars, tagOf, answers, reader, answered, shipped, up, socks, origin>>
    BY <1>3 DEF Take, PumpReady
  <2>2. replyQ[s] - 1 \in 0..Depth
    BY <2>1, LegTypes
  <2>3. Legs(Len(tagOf))' /\ replyQ'[s] = replyQ[s] - 1 /\ pump'[s] = "send"
    BY <1>1, <2>1, <2>2, LegTypes DEF Legs
  <2>4. Account(s)'
    <3>1. WithPump(s) = 0 /\ WithPump(s)' = 1 /\ WithReader(s)' = WithReader(s)
      BY <2>1, <2>3 DEF WithReader, WithPump
    <3>2. /\ answers'[s] = answers[s] /\ replyQ'[s] = replyQ[s] - 1
          /\ answered'[s] = answered[s] /\ shipped'[s] = shipped[s]
      BY <2>1, <2>3
    <3> QED
      BY <1>2, <3>1, <3>2, SMT DEF Account
  <2> QED
    BY <1>1, <2>1, <2>3, <2>4, LegTypes, SameKeys, LegSound, Zenon DEF Legs
<1>4. CASE Hang(s)
  <2>1. /\ pump[s] = "send" /\ pump' = [pump EXCEPT ![s] = "stuck"]
        /\ UNCHANGED <<mixVars, tagOf, answers, reader, replyQ, answered, shipped, up, socks,
                       origin>>
    BY <1>4 DEF Hang
  <2>2. Legs(Len(tagOf))' /\ pump'[s] = "stuck"
    BY <1>1, <2>1, LegTypes DEF Legs
  <2>3. Account(s)'
    <3>1. WithPump(s) = 1 /\ WithPump(s)' = 1 /\ WithReader(s)' = WithReader(s)
      BY <2>1, <2>2 DEF WithReader, WithPump
    <3>2. /\ answers'[s] = answers[s] /\ replyQ'[s] = replyQ[s]
          /\ answered'[s] = answered[s] /\ shipped'[s] = shipped[s]
      BY <2>1, <2>2
    <3> QED
      BY <1>2, <3>1, <3>2, SMT DEF Account
  <2> QED
    BY <1>1, <2>1, <2>2, <2>3, LegTypes, SameKeys, LegSound, Zenon DEF Legs
<1>5. ASSUME NEW ok \in BOOLEAN, Ship(s, ok) PROVE GatewaySound'
  <2>1. /\ pump[s] = "send" /\ pump' = [pump EXCEPT ![s] = "idle"]
        /\ shipped' = [shipped EXCEPT ![s] = shipped[s] + 1]
        /\ back' \subseteq back \cup {[tag |-> tagOf[s], sock |-> s]}
        /\ UNCHANGED <<mix, inbox, sent, tagOf, answers, reader, replyQ, answered, up, socks,
                       origin>>
    BY <1>5 DEF Ship, Counted, ReplyTag
  <2>2. Legs(Len(tagOf))' /\ pump'[s] = "idle" /\ shipped'[s] = shipped[s] + 1
    BY <1>1, <2>1, LegTypes DEF Legs
  <2>3. Account(s)'
    <3>1. WithPump(s) = 1 /\ WithPump(s)' = 0 /\ WithReader(s)' = WithReader(s)
      BY <2>1, <2>2 DEF WithReader, WithPump
    <3>2. /\ answers'[s] = answers[s] /\ replyQ'[s] = replyQ[s]
          /\ answered'[s] = answered[s] /\ shipped'[s] = shipped[s] + 1
      BY <2>1, <2>2, Zenon
    <3> QED
      BY <1>2, <3>1, <3>2, SMT DEF Account
  <2>4. Keyed'
    BY <2>1, LegTypes, ReplyKeyed
  <2> QED
    BY <1>1, <2>1, <2>2, <2>3, <2>4, LegTypes, LegSound, Zenon DEF Legs
<1> QED
  BY <1>3, <1>4, <1>5

\* Every step keeps the invariant: one lemma above per task.
LEMMA GatewayStepSound ==
  ASSUME GatewaySound, [Next]_vars
  PROVE  GatewaySound'
<1>1. CASE UNCHANGED vars
  <2>1. MixTypes'
    BY <1>1 DEF vars, mixVars, GatewaySound, MixTypes
  <2> QED
    BY <1>1, <2>1, SameTables DEF vars, mixVars
<1>2. CASE Next
  BY <1>2, MixSound, PassOnSound, BindSound, ReaderSound, ReplyPumpSound DEF Next
<1> QED
  BY <1>1, <1>2

\* The tables of the gateway and what is on the way are always sound.
THEOREM GatewayAlwaysSound == Spec => []GatewaySound
BY GatewayInit, GatewayStepSound, PTL DEF Spec

-----------------------------------------------------------------------------
\* The quinn server sees one source address per client and one client per
\* source, however the mix loses, delays and reorders the clients' datagrams.
THEOREM SourcesAreDistinct == Spec => []OneSourcePerClient
<1>1. ASSUME GatewaySound PROVE OneSourcePerClient
  <2>1. Keyed /\ MixTypes /\ Legs(Len(tagOf)) /\ Opened = 1..Len(tagOf)
    BY <1>1, OpenedRange DEF GatewaySound
  <2>2. \A s \in Opened : origin[s] = {tagOf[s]} /\ socks[tagOf[s]] = s /\ tagOf[s] \in Tags
    BY <2>1 DEF Keyed, Opened
  <2>3. back \subseteq [tag : Tags, sock : Opened] /\ origin \in [Opened -> SUBSET Tags]
    BY <2>1, <2>2 DEF Keyed
  <2>4. TypeOK
    BY <2>1, <2>3 DEF TypeOK, MixTypes, Message, Keyed, Legs
  <2>5. \A s \in Opened : \A t, u \in origin[s] : t = u
    BY <2>2
  <2>6. \A s, q \in Opened : origin[s] \cap origin[q] # {} => s = q
    BY <2>2
  <2> QED
    BY <2>4, <2>5, <2>6 DEF OneSourcePerClient
<1> QED
  BY <1>1, GatewayAlwaysSound, PTL

\* An answer of the server goes back once, to the client whose datagrams left
\* through the socket it came in on; failing and hanging replies included.
THEOREM AnswersReachOwner == Spec => []OnceToOwner
<1>1. ASSUME GatewaySound PROVE OnceToOwner
  <2>1. RepliesConserved
    BY <1>1 DEF GatewaySound, RepliesConserved, Account, WithReader, WithPump
  <2>2. RepliesToOwner
    BY <1>1 DEF GatewaySound, Keyed, RepliesToOwner
  <2> QED
    BY <2>1, <2>2 DEF OnceToOwner
<1> QED
  BY <1>1, GatewayAlwaysSound, PTL

-----------------------------------------------------------------------------
Stages == {"none", "sent", "recorded", "acked"}
Total == NCold + NWarm + 1
busy == IF wait = 0 THEN 0 ELSE 1

\* What main holds: the pool is a stretch of circuits, each with a port of its own.
HoldsOK ==
  /\ step \in {"cold", "prewarm", "warm", "first", "second", "done", "failed"}
  /\ loop \in Nat /\ ids \in 0..Total /\ made \in 0..Total /\ kept \in Nat /\ wait \in Nat
  /\ DOMAIN circuits \subseteq 1..made
  /\ \A c \in DOMAIN circuits : circuits[c] \in Ports
  /\ \A c, d \in DOMAIN circuits : circuits[c] = circuits[d] => c = d
  /\ pool \in Seq(Nat)
  /\ \A i \in DOMAIN pool : pool[i] = NCold + i /\ pool[i] \in DOMAIN circuits
  /\ kept # 0 => kept \in DOMAIN circuits
  /\ wait # 0 => wait \in DOMAIN circuits

\* Where main is tells how many circuits and sessions there are.
Progress ==
  /\ step = "cold" =>
       /\ pool = <<>> /\ made = loop + busy /\ ids = made /\ kept = loop
       /\ wait \in {0, made} /\ made <= NCold
  /\ step = "prewarm" =>
       /\ loop <= NWarm + 1 /\ made = NCold + loop /\ ids = NCold /\ wait = 0
       /\ Len(pool) = loop
  /\ step = "warm" =>
       /\ loop + busy <= NWarm /\ made = Total /\ ids = NCold + loop + busy
       /\ Len(pool) = NWarm + 1 - loop - busy /\ wait \in {0, NCold + Len(pool) + 1}
  /\ step = "first" =>
       made = Total /\ ids = NCold + NWarm + busy /\ Len(pool) = 1 /\ wait \in {0, NCold}
  /\ step = "second" =>
       made = Total /\ ids = Total /\ Len(pool) = 1 - busy /\ wait \in {0, NCold + 1}
  /\ step = "done" => ids = Total /\ wait = 0 /\ NCold + 1 \in DOMAIN circuits
  /\ step \notin {"cold", "failed"} => kept = NCold
  /\ step = "failed" => wait = 0

\* Only the circuit that main waits for has a message under way.
StreamsOK ==
  /\ stream \in [Circuits -> (0..ids) \X Stages]
  /\ \A c \in Circuits : stream[c][2] # "none" => stream[c][1] # 0
  /\ step # "failed" => \A c \in Circuits : c # wait => stream[c][2] \in {"none", "acked"}
  /\ wait # 0 => stream[wait][1] = ids /\ stream[wait][2] # "none"

\* The server has a record for each message it has read.
Recorded(s) == {c \in Circuits : stream[c][1] = s /\ stream[c][2] \in {"recorded", "acked"}}
LogOK ==
  /\ log \in [Sids -> Seq(Circuits)]
  /\ \A s \in Sids : s > ids => log[s] = <<>>
  /\ \A s \in Sids : Recorded(s) \subseteq Entries(log[s])

\* The record of the session that is carried over.
Carried ==
  /\ step = "first" /\ wait # 0 =>
       log[Total] = IF stream[NCold][2] = "sent" THEN <<>> ELSE <<NCold>>
  /\ step = "second" /\ wait = 0 => log[Total] = <<NCold>>
  /\ step = "second" /\ wait # 0 =>
       log[Total] = IF stream[NCold + 1][2] = "sent" THEN <<NCold>> ELSE <<NCold, NCold + 1>>
  /\ step = "done" => log[Total] = <<NCold, NCold + 1>> /\ stream[NCold + 1][1] = Total

RotationSound == HoldsOK /\ Progress /\ StreamsOK /\ LogOK /\ Carried

-----------------------------------------------------------------------------
\* The sizes of the run, from RotationAssumption.
LEMMA Sets ==
  /\ NCold \in Nat /\ NCold >= 1 /\ NWarm \in Nat /\ Total \in Nat
  /\ Sids = 1..Total /\ Circuits = 1..(Total + 1)
<1>1. NCold \in Nat /\ NCold >= 1 /\ NWarm \in Nat /\ Total \in Nat
  BY RotationAssumption DEF Total
<1>2. Sids = 1..Total /\ Circuits = 1..(Total + 1)
  BY <1>1 DEF Total, Sids, Circuits
<1> QED
  BY <1>1, <1>2

\* Elements are added and taken at the end of a sequence.
LEMMA Prefixes ==
  ASSUME NEW S, NEW s \in Seq(S), NEW k \in Nat, k <= Len(s)
  PROVE  Len(SubSeq(s, 1, k)) = k
OBVIOUS

\* The pool after CircuitPool::take: the last element is gone.
LEMMA PrefixLen ==
  ASSUME NEW S, NEW s \in Seq(S), Len(s) >= 1
  PROVE  Len(SubSeq(s, 1, Len(s) - 1)) = Len(s) - 1
<1> DEFINE k == Len(s) - 1
<1>1. k \in Nat /\ k <= Len(s)
  OBVIOUS
<1> HIDE DEF k
<1>2. Len(SubSeq(s, 1, k)) = k
  BY <1>1, Prefixes
<1> QED
  BY <1>2 DEF k

\* The record of a session that a second address is added to.
LEMMA TwoLong ==
  ASSUME NEW a, NEW b
  PROVE  Append(<<a>>, b) = <<a, b>>
<1>1. <<a>> \in Seq({a, b}) /\ Len(<<a>>) = 1 /\ <<a>>[1] = a
  OBVIOUS
<1> DEFINE s == <<a>>
<1> HIDE DEF s
<1>2. Append(s, b) \in Seq({a, b}) /\ Len(Append(s, b)) = 2 /\ Append(s, b)[1] = a /\ Append(s, b)[2] = b
  BY <1>1 DEF s
<1> DEFINE t == Append(s, b)
<1> HIDE DEF t
<1>3. t \in Seq({a, b}) /\ Len(t) = 2 /\ t[1] = a /\ t[2] = b
  BY <1>2 DEF t
<1>4. t = <<a, b>>
  BY <1>3
<1> QED
  BY <1>4 DEF s, t

\* What an appended element changes.
LEMMA AtTheEnd ==
  ASSUME NEW S, NEW s \in Seq(S), NEW x \in S
  PROVE  /\ Append(s, x) \in Seq(S) /\ Len(Append(s, x)) = Len(s) + 1
         /\ \A i \in DOMAIN Append(s, x) :
              \/ i \in DOMAIN s /\ Append(s, x)[i] = s[i]
              \/ i = Len(s) + 1 /\ Append(s, x)[i] = x
         /\ s # <<>> =>
              /\ SubSeq(s, 1, Len(s) - 1) \in Seq(S) /\ Len(SubSeq(s, 1, Len(s) - 1)) = Len(s) - 1
              /\ \A i \in DOMAIN SubSeq(s, 1, Len(s) - 1) :
                   i \in DOMAIN s /\ SubSeq(s, 1, Len(s) - 1)[i] = s[i]
<1>1. ASSUME s # <<>>
      PROVE  /\ SubSeq(s, 1, Len(s) - 1) \in Seq(S) /\ Len(SubSeq(s, 1, Len(s) - 1)) = Len(s) - 1
             /\ \A i \in DOMAIN SubSeq(s, 1, Len(s) - 1) :
                  i \in DOMAIN s /\ SubSeq(s, 1, Len(s) - 1)[i] = s[i]
  <2>1. Len(s) \in Nat /\ Len(s) >= 1
    BY <1>1
  <2>2. SubSeq(s, 1, Len(s) - 1) \in Seq(S)
    BY <2>1
  <2>3. Len(SubSeq(s, 1, Len(s) - 1)) = Len(s) - 1
    BY <2>1, PrefixLen
  <2>4. \A i \in 1..(Len(s) - 1) : i \in DOMAIN s /\ SubSeq(s, 1, Len(s) - 1)[i] = s[i]
    BY <2>1
  <2>5. DOMAIN SubSeq(s, 1, Len(s) - 1) = 1..(Len(s) - 1)
    BY <2>2, <2>3
  <2> QED
    BY <2>2, <2>3, <2>4, <2>5
<1> QED
  BY <1>1

\* The record of a session after one more entry.
LEMMA AllOfAppend ==
  ASSUME NEW S, NEW s \in Seq(S), NEW x \in S
  PROVE  Entries(Append(s, x)) = Entries(s) \cup {x}
<1> DEFINE t == Append(s, x)
<1>1. DOMAIN t = 1..(Len(s) + 1) /\ DOMAIN s = 1..Len(s) /\ Len(s) \in Nat
  OBVIOUS
<1>2. \A i \in DOMAIN s : i \in DOMAIN t /\ t[i] = s[i]
  BY <1>1
<1>3. \A i \in DOMAIN t : i \in DOMAIN s \/ i = Len(s) + 1
  BY <1>1
<1>4. Len(s) + 1 \in DOMAIN t /\ t[Len(s) + 1] = x
  BY <1>1
<1> HIDE DEF t
<1>5. Entries(t) = Entries(s) \cup {x}
  BY <1>2, <1>3, <1>4 DEF Entries
<1> QED
  BY <1>5 DEF t

\* session_send: main waits for the circuit it sends on.
LEMMA Sent ==
  ASSUME RotationSound, NEW c \in Circuits, NEW sid \in 1..Total, ids' = sid, ids <= sid,
         Send(c, sid), log' = log, wait = 0, step' = step
  PROVE  StreamsOK' /\ LogOK'
<1> USE Sets DEF RotationSound
<1>1. /\ stream' = [stream EXCEPT ![c] = <<sid, "sent">>] /\ wait' = c
      /\ stream \in [Circuits -> (0..ids) \X Stages] /\ ids \in Nat
  BY DEF Send, StreamsOK, HoldsOK
<1>2. \A d \in Circuits : stream'[d] = IF d = c THEN <<sid, "sent">> ELSE stream[d]
  BY <1>1
<1>3. stream' \in [Circuits -> (0..sid) \X Stages]
  <2>1. <<sid, "sent">> \in (0..sid) \X Stages
    BY DEF Stages
  <2>2. \A d \in Circuits : stream[d] \in (0..sid) \X Stages
    BY <1>1
  <2> QED
    BY <1>1, <2>1, <2>2
<1>4. StreamsOK'
  BY <1>1, <1>2, <1>3 DEF StreamsOK
<1>5. \A s : Recorded(s)' \in SUBSET Recorded(s)
  BY <1>2 DEF Recorded
<1>7. \A s \in Sids : Recorded(s)' \subseteq Entries(log'[s])
  <2>1. \A s \in Sids : Recorded(s) \subseteq Entries(log[s])
    BY DEF LogOK
  <2> QED
    BY <1>5, <2>1, Zenon
<1>8. \A s \in Sids : s > sid => log[s] = <<>>
  BY <1>1 DEF LogOK
<1>9. LogOK'
  BY <1>7, <1>8 DEF LogOK
<1> QED
  BY <1>4, <1>9

\* connect_fresh_with: the new circuit has a port of its own.
LEMMA FreshCircuit ==
  ASSUME RotationSound, NEW port \in Ports, Fresh(made + 1, port), made + 1 <= Total
  PROVE  /\ made' = made + 1 /\ made' \in 0..Total /\ DOMAIN circuits' \subseteq 1..made'
         /\ DOMAIN circuits' = DOMAIN circuits \cup {made'}
         /\ \A c \in DOMAIN circuits' : circuits'[c] \in Ports
         /\ \A c, d \in DOMAIN circuits' : circuits'[c] = circuits'[d] => c = d
<1>1. /\ circuits' = [d \in DOMAIN circuits \cup {made + 1} |-> IF d = made + 1 THEN port ELSE circuits[d]]
      /\ made' = made + 1 /\ \A d \in DOMAIN circuits : circuits[d] # port
      /\ made \in Nat /\ DOMAIN circuits \subseteq 1..made
  BY Sets DEF RotationSound, HoldsOK, Fresh
<1>2. made + 1 \notin DOMAIN circuits
  BY <1>1
<1> QED
  BY <1>1, <1>2, Sets DEF RotationSound, HoldsOK

\* main starts with nothing.
LEMMA RotationInitSound == RotationInit => RotationSound
<1> SUFFICES ASSUME RotationInit PROVE RotationSound
  OBVIOUS
<1> USE Sets DEF RotationInit
<1>1. HoldsOK
  BY DEF HoldsOK
<1>2. Progress
  BY DEF Progress, busy
<1>3. StreamsOK
  BY DEF StreamsOK, Stages
<1>4. LogOK
  <2>1. \A s : Recorded(s) = {}
    BY DEF Recorded
  <2>2. \A s \in Sids : log[s] = <<>>
    OBVIOUS
  <2> QED
    BY <2>1, <2>2 DEF LogOK
<1> QED
  BY <1>1, <1>2, <1>3, <1>4 DEF RotationSound, Carried

\* A circuit is built on the hot path.
LEMMA ColdSound ==
  ASSUME RotationSound, NEW port \in Ports, Cold(port)
  PROVE  RotationSound'
<1> USE Sets DEF Cold
<1>1. step = "cold" /\ made = loop /\ ids = loop /\ kept = loop /\ pool = <<>> /\ loop < NCold /\ loop \in Nat
  BY DEF RotationSound, HoldsOK, Progress, busy
<1>2. /\ made' = made + 1 /\ made' \in 0..Total /\ DOMAIN circuits' \subseteq 1..made'
      /\ DOMAIN circuits' = DOMAIN circuits \cup {made'}
      /\ \A c \in DOMAIN circuits' : circuits'[c] \in Ports
      /\ \A c, d \in DOMAIN circuits' : circuits'[c] = circuits'[d] => c = d
  <2>1. made + 1 <= Total
    BY <1>1 DEF Total
  <2> QED
    BY <2>1, FreshCircuit
<1>3. wait' = made + 1 /\ made + 1 \in Circuits /\ ids + 1 \in 1..Total
  BY <1>1 DEF Send, Total
<1>4. StreamsOK' /\ LogOK'
  BY <1>1, <1>3, Sent DEF RotationSound, HoldsOK
<1>5. HoldsOK'
  BY <1>1, <1>2, <1>3 DEF HoldsOK, RotationSound
<1>6. Progress'
  BY <1>1, <1>2, <1>3 DEF Progress, busy
<1>7. Carried'
  BY <1>1 DEF Carried
<1> QED
  BY <1>4, <1>5, <1>6, <1>7 DEF RotationSound

\* The pool holds the circuits built after the cold ones, in that order.
LEMMA PoolGrows ==
  ASSUME NEW p \in Seq(Nat), NEW m \in Nat, NEW x \in Nat,
         x = m + (Len(p) + 1), \A i \in DOMAIN p : p[i] = m + i
  PROVE  /\ Append(p, x) \in Seq(Nat) /\ Len(Append(p, x)) = Len(p) + 1
         /\ \A i \in DOMAIN Append(p, x) :
              Append(p, x)[i] = m + i /\ (i \in DOMAIN p \/ Append(p, x)[i] = x)
<1> DEFINE q == Append(p, x)
<1>1. /\ q \in Seq(Nat) /\ Len(q) = Len(p) + 1
      /\ \A i \in DOMAIN q : (i \in DOMAIN p /\ q[i] = p[i]) \/ (i = Len(p) + 1 /\ q[i] = x)
  BY AtTheEnd
<1> HIDE DEF q
<1>2. ASSUME NEW i \in DOMAIN q PROVE q[i] = m + i /\ (i \in DOMAIN p \/ q[i] = x)
  <2>1. CASE i \in DOMAIN p /\ q[i] = p[i]
    BY <2>1
  <2>2. CASE i = Len(p) + 1 /\ q[i] = x
    BY <2>2
  <2> QED
    BY <1>1, <2>1, <2>2
<1> QED
  BY <1>1, <1>2 DEF q

\* A circuit is built for the pool.
LEMMA PrewarmSound ==
  ASSUME RotationSound, NEW port \in Ports, Prewarm(port)
  PROVE  RotationSound'
<1> USE Sets DEF Prewarm, Spare
<1>1. /\ step = "prewarm" /\ made = NCold + loop /\ ids = NCold /\ wait = 0 /\ loop \in Nat
      /\ Len(pool) = loop /\ loop <= NWarm /\ pool \in Seq(Nat)
  BY DEF RotationSound, HoldsOK, Progress
<1>2. /\ made' = made + 1 /\ made' \in 0..Total /\ DOMAIN circuits' \subseteq 1..made'
      /\ DOMAIN circuits' = DOMAIN circuits \cup {made'}
      /\ \A c \in DOMAIN circuits' : circuits'[c] \in Ports
      /\ \A c, d \in DOMAIN circuits' : circuits'[c] = circuits'[d] => c = d
  <2>1. made + 1 <= Total
    BY <1>1 DEF Total
  <2> QED
    BY <2>1, FreshCircuit
<1>3. /\ pool' \in Seq(Nat) /\ Len(pool') = loop + 1
      /\ \A i \in DOMAIN pool' : pool'[i] = NCold + i /\ (i \in DOMAIN pool \/ pool'[i] = made + 1)
  <2>1. pool' = Append(pool, made + 1)
    OBVIOUS
  <2>2. \A i \in DOMAIN pool : pool[i] = NCold + i
    BY <1>1 DEF RotationSound, HoldsOK
  <2> HIDE DEF Prewarm
  <2>3. /\ pool \in Seq(Nat) /\ NCold \in Nat /\ made \in Nat /\ made = NCold + Len(pool)
        /\ Len(pool) = loop
    BY <1>1
  <2> DEFINE x == made + 1
  <2>4. x \in Nat /\ x = NCold + (Len(pool) + 1)
    BY <2>3
  <2> HIDE DEF x
  <2>5. /\ Append(pool, x) \in Seq(Nat) /\ Len(Append(pool, x)) = Len(pool) + 1
        /\ \A i \in DOMAIN Append(pool, x) :
             Append(pool, x)[i] = NCold + i /\ (i \in DOMAIN pool \/ Append(pool, x)[i] = x)
    BY <2>2, <2>3, <2>4, PoolGrows
  <2>6. pool' = Append(pool, x)
    BY <2>1 DEF x
  <2>7. /\ pool' \in Seq(Nat) /\ Len(pool') = Len(pool) + 1
        /\ \A i \in DOMAIN pool' : pool'[i] = NCold + i /\ (i \in DOMAIN pool \/ pool'[i] = x)
    BY <2>5, <2>6
  <2> QED
    BY <2>3, <2>7 DEF x
<1>4. \A i \in DOMAIN pool' : pool'[i] \in DOMAIN circuits'
  BY <1>2, <1>3 DEF RotationSound, HoldsOK
<1>5. HoldsOK'
  <2>1. /\ loop' \in Nat /\ kept' = kept /\ wait' = wait /\ ids' = ids /\ step' = step
    BY <1>1
  <2> QED
    BY <1>1, <1>2, <1>3, <1>4, <2>1 DEF HoldsOK, RotationSound
<1>6. Progress'
  BY <1>1, <1>2, <1>3 DEF Progress, RotationSound
<1>7. StreamsOK' /\ LogOK'
  <2>1. \A s : Recorded(s)' = Recorded(s)
    BY DEF Recorded
  <2>2. StreamsOK'
    BY <1>1 DEF RotationSound, StreamsOK
  <2>3. LogOK'
    BY <1>1, <2>1 DEF RotationSound, LogOK
  <2> QED
    BY <2>2, <2>3
<1> QED
  BY <1>1, <1>5, <1>6, <1>7 DEF RotationSound, Carried

\* main returns an error.
LEMMA FailedSound ==
  ASSUME RotationSound, Failed
  PROVE  RotationSound'
<1> USE Sets DEF Failed
<1>1. HoldsOK'
  BY DEF HoldsOK, RotationSound
<1>2. StreamsOK' /\ LogOK'
  <2>1. \A s : Recorded(s)' = Recorded(s)
    BY DEF Recorded
  <2>2. StreamsOK'
    BY DEF RotationSound, StreamsOK
  <2>3. LogOK'
    BY <2>1 DEF RotationSound, LogOK
  <2> QED
    BY <2>2, <2>3
<1> QED
  BY <1>1, <1>2 DEF RotationSound, Progress, Carried

\* A loop of main ends.
LEMMA NextLoopSound ==
  ASSUME RotationSound, NextLoop
  PROVE  RotationSound'
<1> USE Sets DEF NextLoop, Spare
<1>1. HoldsOK'
  BY DEF HoldsOK, RotationSound
<1>2. Progress'
  <2>1. busy = 0 /\ busy' = 0
    BY DEF busy
  <2>2. CASE step = "cold"
    BY <2>1, <2>2 DEF HoldsOK, RotationSound, Progress
  <2>3. CASE step = "prewarm"
    BY <2>1, <2>3 DEF HoldsOK, RotationSound, Progress, Total
  <2>4. CASE step = "warm"
    <3>1. step' = "first" /\ loop = NWarm /\ wait' = 0 /\ made' = made /\ ids' = ids /\ pool' = pool /\ kept' = kept
      BY <2>4
    <3>2. made = Total /\ ids = NCold + loop + busy /\ Len(pool) = NWarm + 1 - loop - busy /\ kept = NCold
      BY <2>4 DEF RotationSound, Progress
    <3>3. ids = NCold + NWarm /\ Len(pool) = 1
      BY <2>1, <3>1, <3>2
    <3> QED
      BY <2>1, <3>1, <3>2, <3>3 DEF Progress
  <2> QED
    BY <2>2, <2>3, <2>4
<1>3. StreamsOK' /\ LogOK'
  <2>1. \A s : Recorded(s)' = Recorded(s)
    BY DEF Recorded
  <2>2. StreamsOK'
    BY DEF RotationSound, StreamsOK
  <2>3. LogOK'
    BY <2>1 DEF RotationSound, LogOK
  <2> QED
    BY <2>2, <2>3
<1> QED
  BY <1>1, <1>2, <1>3 DEF RotationSound, Carried

\* CircuitPool::take.
LEMMA Taken ==
  ASSUME RotationSound, pool # <<>>, pool' = SubSeq(pool, 1, Len(pool) - 1)
  PROVE  /\ pool' \in Seq(Nat) /\ Len(pool') = Len(pool) - 1 /\ Len(pool) \in Nat
         /\ \A i \in DOMAIN pool' : pool'[i] = NCold + i /\ pool'[i] \in DOMAIN circuits
         /\ pool[Len(pool)] = NCold + Len(pool) /\ pool[Len(pool)] \in DOMAIN circuits
         /\ pool[Len(pool)] \in Circuits /\ pool[Len(pool)] # 0
<1>1. pool \in Seq(Nat) /\ Len(pool) \in DOMAIN pool /\ Len(pool) \in Nat
  BY DEF RotationSound, HoldsOK
<1>2. pool[Len(pool)] = NCold + Len(pool) /\ pool[Len(pool)] \in DOMAIN circuits
  BY <1>1 DEF RotationSound, HoldsOK
<1>3. /\ pool' \in Seq(Nat) /\ Len(pool') = Len(pool) - 1
      /\ \A i \in DOMAIN pool' : i \in DOMAIN pool /\ pool'[i] = pool[i]
  <2> DEFINE q == SubSeq(pool, 1, Len(pool) - 1)
  <2>1. /\ q \in Seq(Nat) /\ Len(q) = Len(pool) - 1
        /\ \A i \in DOMAIN q : i \in DOMAIN pool /\ q[i] = pool[i]
    BY <1>1, AtTheEnd
  <2> HIDE DEF q
  <2>2. pool' = q
    BY DEF q
  <2> QED
    BY <2>1, <2>2, Zenon
<1>4. pool[Len(pool)] \in Circuits /\ pool[Len(pool)] # 0
  BY <1>1, <1>2, Sets DEF RotationSound, HoldsOK
<1> QED
  BY <1>1, <1>2, <1>3, <1>4 DEF RotationSound, HoldsOK

\* A warm circuit is taken and used.
LEMMA WarmSound ==
  ASSUME RotationSound, Warm
  PROVE  RotationSound'
<1> USE Sets DEF Warm
<1>1. /\ step = "warm" /\ made = Total /\ ids = NCold + loop /\ wait = 0 /\ loop \in Nat
      /\ Len(pool) = NWarm + 1 - loop /\ loop < NWarm /\ kept = NCold
  BY DEF RotationSound, HoldsOK, Progress, busy
<1>2. /\ pool' \in Seq(Nat) /\ Len(pool') = Len(pool) - 1 /\ Len(pool) \in Nat
      /\ \A i \in DOMAIN pool' : pool'[i] = NCold + i /\ pool'[i] \in DOMAIN circuits
      /\ pool[Len(pool)] = NCold + Len(pool) /\ pool[Len(pool)] \in DOMAIN circuits
      /\ pool[Len(pool)] \in Circuits /\ pool[Len(pool)] # 0
  BY Taken
<1>3. wait' = pool[Len(pool)] /\ ids + 1 \in 1..Total
  BY <1>1 DEF Send, Total
<1>4. StreamsOK' /\ LogOK'
  BY <1>1, <1>2, <1>3, Sent DEF RotationSound, HoldsOK
<1>5. HoldsOK'
  <2>1. /\ step' = "warm" /\ loop' = loop /\ made' = made /\ ids' = ids + 1 /\ kept' = kept
        /\ circuits' = circuits
    BY <1>1
  <2> HIDE DEF Warm
  <2> QED
    BY <1>1, <1>2, <1>3, <2>1 DEF HoldsOK, RotationSound
<1>6. Progress'
  <2>1. /\ step' = "warm" /\ busy' = 1 /\ loop' = loop /\ made' = made /\ ids' = ids + 1 /\ kept' = kept
        /\ wait' # 0
    BY <1>1, <1>2, <1>3 DEF busy
  <2> HIDE DEF Warm
  <2>2. /\ loop' + busy' <= NWarm /\ ids' = NCold + loop' + busy'
        /\ Len(pool') = NWarm + 1 - loop' - busy' /\ wait' = NCold + Len(pool') + 1
    BY <1>1, <1>2, <1>3, <2>1, RotationAssumption
  <2> QED
    BY <1>1, <2>1, <2>2 DEF Progress
<1> QED
  BY <1>1, <1>4, <1>5, <1>6 DEF RotationSound, Carried

\* The session that is carried over: the message on the cold circuit.
LEMMA FirstSound ==
  ASSUME RotationSound, First
  PROVE  RotationSound'
<1> USE Sets DEF First
<1>1. /\ step = "first" /\ made = Total /\ ids = NCold + NWarm /\ wait = 0
      /\ Len(pool) = 1 /\ kept = NCold /\ kept \in Circuits /\ ids + 1 = Total
  BY DEF RotationSound, HoldsOK, Progress, busy, Total
<1>2. wait' = kept /\ stream' = [stream EXCEPT ![kept] = <<Total, "sent">>]
  BY <1>1 DEF Send
<1>3. StreamsOK' /\ LogOK'
  BY <1>1, Sent DEF RotationSound, HoldsOK
<1>4. HoldsOK'
  BY <1>1, <1>2 DEF HoldsOK, RotationSound
<1>5. Progress'
  BY <1>1, <1>2 DEF Progress, busy
<1>6. Carried'
  <2>1. Total \in Sids /\ Total > ids
    BY <1>1
  <2>2. log[Total] = <<>>
    BY <2>1 DEF RotationSound, LogOK
  <2>3. stream'[NCold][2] = "sent"
    BY <1>1, <1>2 DEF RotationSound, StreamsOK
  <2> QED
    BY <1>1, <2>2, <2>3 DEF Carried
<1> QED
  BY <1>3, <1>4, <1>5, <1>6 DEF RotationSound

\* ... and the one on a warm circuit, of which there is one.
LEMMA SecondSound ==
  ASSUME RotationSound, Second
  PROVE  RotationSound'
<1> USE Sets DEF Second
<1>1. /\ step = "second" /\ made = Total /\ ids = Total /\ wait = 0
      /\ Len(pool) = 1 /\ kept = NCold /\ pool # <<>>
  BY DEF RotationSound, HoldsOK, Progress, busy
<1>2. /\ pool' \in Seq(Nat) /\ Len(pool') = Len(pool) - 1 /\ Len(pool) \in Nat
      /\ \A i \in DOMAIN pool' : pool'[i] = NCold + i /\ pool'[i] \in DOMAIN circuits
      /\ pool[Len(pool)] = NCold + Len(pool) /\ pool[Len(pool)] \in DOMAIN circuits
      /\ pool[Len(pool)] \in Circuits /\ pool[Len(pool)] # 0
  BY <1>1, Taken
<1>3. /\ Send(pool[Len(pool)], ids) /\ made' = made /\ circuits' = circuits /\ log' = log
      /\ step' = step /\ ids' = ids /\ kept' = kept /\ loop' = loop
  BY <1>1
<1>4. wait' = NCold + 1 /\ stream' = [stream EXCEPT ![NCold + 1] = <<Total, "sent">>]
  BY <1>1, <1>2, <1>3 DEF Send
<1>5. StreamsOK' /\ LogOK'
  BY <1>1, <1>2, <1>3, Sent
<1>6. HoldsOK'
  BY <1>1, <1>2, <1>3, <1>4 DEF HoldsOK, RotationSound
<1>7. Progress'
  BY <1>1, <1>2, <1>3, <1>4 DEF Progress, busy
<1>8. Carried'
  <2>1. stream'[NCold + 1][2] = "sent"
    BY <1>1, <1>2, <1>4 DEF RotationSound, StreamsOK
  <2> QED
    BY <1>1, <1>3, <1>4, <2>1 DEF Carried, RotationSound
<1> QED
  BY <1>5, <1>6, <1>7, <1>8 DEF RotationSound

\* session_send returns with the ack.
LEMMA ReadAckSound ==
  ASSUME RotationSound, ReadAck
  PROVE  RotationSound'
<1> USE Sets DEF ReadAck
<1>0. /\ wait \in Circuits /\ step \notin {"prewarm", "done", "failed"} /\ wait' = 0
      /\ busy = 1 /\ busy' = 0 /\ stream[wait][2] = "acked"
  BY DEF RotationSound, HoldsOK, Progress, busy
<1>1. StreamsOK' /\ LogOK'
  <2>1. StreamsOK'
    <3>1. \A c \in Circuits : stream[c][2] \in {"none", "acked"}
      BY <1>0 DEF RotationSound, StreamsOK
    <3> QED
      BY <3>1, <1>0 DEF RotationSound, StreamsOK
  <2>2. LogOK'
    BY DEF RotationSound, LogOK, Recorded
  <2> QED
    BY <2>1, <2>2
<1>2. CASE step = "cold"
  <2>1. HoldsOK'
    BY <1>2 DEF HoldsOK, Progress, RotationSound, Without, busy
  <2>2. Progress'
    BY <1>0, <1>2 DEF HoldsOK, Progress, RotationSound
  <2>3. Carried'
    BY <1>2 DEF Carried
  <2> QED
    BY <1>1, <2>1, <2>2, <2>3 DEF RotationSound
<1>3. CASE step = "warm"
  <2>0. wait = NCold + Len(pool) + 1 /\ kept = NCold /\ Len(pool) \in Nat /\ DOMAIN pool = 1..Len(pool)
    BY <1>3 DEF HoldsOK, Progress, RotationSound
  <2>1. HoldsOK'
    BY <1>3, <2>0 DEF HoldsOK, RotationSound, Without
  <2>2. Progress'
    <3>1. /\ loop + 1 <= NWarm /\ made = Total /\ ids = NCold + loop + 1
          /\ Len(pool) = NWarm + 1 - (loop + 1) /\ loop \in Nat /\ NWarm \in Nat /\ NCold \in Nat
      <4>1. /\ loop + 1 <= NWarm /\ made = Total /\ ids = NCold + loop + 1
            /\ Len(pool) = NWarm + 1 - loop - 1
        BY <1>0, <1>3 DEF Progress, RotationSound
      <4>2. loop \in Nat
        BY DEF HoldsOK, RotationSound
      <4>3. NWarm \in Nat /\ NCold \in Nat
        BY RotationAssumption
      <4> QED
        BY <4>1, <4>2, <4>3
    <3>2. /\ step' = "warm" /\ loop' = loop + 1 /\ made' = made /\ ids' = ids /\ pool' = pool /\ kept' = kept
      BY <1>3
    <3>3. loop' + busy' <= NWarm /\ ids' = NCold + loop' + busy' /\ Len(pool') = NWarm + 1 - loop' - busy'
      <4>1. busy' = 0 /\ loop' = loop + 1
        BY <1>0, <3>2
      <4>2. ids' = NCold + (loop + 1) /\ Len(pool') = NWarm + 1 - (loop + 1)
        BY <3>1, <3>2
      <4> QED
        BY <3>1, <4>1, <4>2
    <3> QED
      BY <1>0, <2>0, <3>1, <3>2, <3>3 DEF Progress
  <2>3. Carried'
    BY <1>3 DEF Carried
  <2> QED
    BY <1>1, <2>1, <2>2, <2>3 DEF RotationSound
<1>4. CASE step = "first"
  <2>1. HoldsOK'
    BY <1>4 DEF HoldsOK, RotationSound
  <2>2. Progress'
    BY <1>0, <1>4 DEF HoldsOK, Progress, RotationSound, Total
  <2>3. Carried'
    BY <1>0, <1>4 DEF Carried, Progress, RotationSound
  <2> QED
    BY <1>1, <2>1, <2>2, <2>3 DEF RotationSound
<1>5. CASE step = "second"
  <2>1. HoldsOK'
    BY <1>5 DEF HoldsOK, RotationSound
  <2>2. Progress'
    BY <1>0, <1>5 DEF HoldsOK, Progress, RotationSound, Total
  <2>3. Carried'
    BY <1>0, <1>5 DEF Carried, Progress, StreamsOK, RotationSound
  <2> QED
    BY <1>1, <2>1, <2>2, <2>3 DEF RotationSound
<1> QED
  BY <1>0, <1>2, <1>3, <1>4, <1>5 DEF RotationSound, HoldsOK

\* The message under way gets on.
LEMMA StageMoves ==
  ASSUME StreamsOK, NEW c \in Circuits, NEW to \in {"recorded", "acked"},
         stream[c][2] \notin {"none", "acked"},
         \A d \in Circuits : stream'[d][1] = stream[d][1],
         \A d \in Circuits : stream'[d][2] = IF d = c THEN to ELSE stream[d][2],
         stream' \in [Circuits -> (0..ids) \X Stages], step' = step, wait' = wait, ids' = ids,
         wait \in Circuits \cup {0}
  PROVE  StreamsOK'
<1>1. \A d \in Circuits : stream'[d][2] # "none" => stream'[d][1] # 0
  BY DEF StreamsOK
<1>2. step # "failed" => \A d \in Circuits : d # wait => stream'[d][2] \in {"none", "acked"}
  BY DEF StreamsOK
<1>3. wait # 0 => stream'[wait][1] = ids /\ stream'[wait][2] # "none"
  BY DEF StreamsOK
<1> QED
  BY <1>1, <1>2, <1>3 DEF StreamsOK

\* The server reads a message to its end and records the session.
LEMMA RecordSound ==
  ASSUME RotationSound, NEW c \in Circuits, Record(c)
  PROVE  RotationSound'
<1> USE Sets DEF Record, Source
<1> DEFINE sid == stream[c][1]
<1>1. /\ stream \in [Circuits -> (0..ids) \X Stages] /\ ids \in 0..Total
      /\ stream[c] \in (0..ids) \X Stages /\ sid \in 1..ids /\ sid \in Sids
  <2>1. stream \in [Circuits -> (0..ids) \X Stages] /\ ids \in 0..Total
    BY DEF RotationSound, StreamsOK, HoldsOK
  <2>2. stream[c] \in (0..ids) \X Stages
    BY <2>1
  <2>3. sid \in 0..ids
    BY <2>2
  <2>4. sid # 0
    BY DEF RotationSound, StreamsOK
  <2> HIDE DEF sid, Record
  <2> QED
    BY <2>1, <2>2, <2>3, <2>4
<1>2. /\ \A d \in Circuits : stream'[d][1] = stream[d][1]
      /\ \A d \in Circuits : stream'[d][2] = IF d = c THEN "recorded" ELSE stream[d][2]
      /\ stream' \in [Circuits -> (0..ids) \X Stages]
  <2>1. stream' = [stream EXCEPT ![c] = [stream[c] EXCEPT ![2] = "recorded"]]
    BY <1>1
  <2>2. [stream[c] EXCEPT ![2] = "recorded"] = <<sid, "recorded">> /\ <<sid, "recorded">> \in (0..ids) \X Stages
    <3>1. PICK a \in 0..ids, b \in Stages : stream[c] = <<a, b>>
      BY <1>1
    <3> QED
      BY <3>1 DEF Stages
  <2> QED
    BY <1>1, <2>1, <2>2
<1>3. /\ step' = step /\ wait' = wait /\ ids' = ids /\ made' = made /\ circuits' = circuits
      /\ pool' = pool /\ kept' = kept /\ loop' = loop
  BY DEF client
<1>4. HoldsOK' /\ Progress'
  <2> HIDE DEF Record
  <2>1. HoldsOK'
    BY <1>3 DEF RotationSound, HoldsOK
  <2>2. Progress'
    BY <1>3 DEF RotationSound, Progress, busy
  <2> QED
    BY <2>1, <2>2
<1>5. StreamsOK'
  <2>1. StreamsOK /\ stream[c][2] \notin {"none", "acked"}
    BY DEF RotationSound
  <2>2. wait \in Circuits \cup {0}
    BY DEF RotationSound, HoldsOK
  <2> QED
    BY <1>2, <1>3, <2>1, <2>2, StageMoves
<1>6. /\ log \in [Sids -> Seq(Circuits)] /\ log' = [log EXCEPT ![sid] = Append(@, c)]
      /\ log' \in [Sids -> Seq(Circuits)] /\ log'[sid] = Append(log[sid], c)
      /\ \A s \in Sids \ {sid} : log'[s] = log[s]
  <2>1. log \in [Sids -> Seq(Circuits)] /\ log' = [log EXCEPT ![sid] = Append(@, c)]
    BY DEF RotationSound, LogOK
  <2>2. Append(log[sid], c) \in Seq(Circuits)
    BY <1>1, <2>1
  <2> HIDE DEF sid
  <2> QED
    BY <1>1, <2>1, <2>2
<1>7. LogOK'
  <2>1. \A s \in Sids : s > ids' => log'[s] = <<>>
    <3>1. \A s \in Sids : s > ids => s # sid /\ log[s] = <<>>
      <4>1. \A s \in Sids : s > ids => log[s] = <<>>
        BY DEF RotationSound, LogOK
      <4> HIDE DEF sid
      <4>2. \A s \in Sids : s > ids => s # sid
        BY <1>1
      <4> QED
        BY <4>1, <4>2
    <3> QED
      BY <1>3, <1>6, <3>1
  <2>2. ASSUME NEW s \in Sids PROVE Recorded(s)' \subseteq Entries(log'[s])
    <3>1. Recorded(s) \subseteq Entries(log[s])
      BY DEF RotationSound, LogOK
    <3>2. CASE s # sid
      <4>1. Recorded(s)' = Recorded(s)
        BY <1>2, <3>2 DEF Recorded
      <4>2. Entries(log'[s]) = Entries(log[s])
        BY <1>6, <3>2 
      <4> QED
        BY <3>1, <4>1, <4>2
    <3>3. CASE s = sid
      <4>1. Recorded(s)' = Recorded(s) \cup {c}
        BY <1>2, <3>3 DEF Recorded
      <4>2. Entries(log'[s]) = Entries(log[s]) \cup {c}
        <5>1. log[s] \in Seq(Circuits) /\ log'[s] = Append(log[s], c)
          BY <1>6, <3>3
        <5>2. \A q \in Seq(Circuits) : Entries(Append(q, c)) = Entries(q) \cup {c}
          BY AllOfAppend
        <5>3. Entries(Append(log[s], c)) = Entries(log[s]) \cup {c}
          BY <5>1, <5>2
        <5> QED
          BY <5>1, <5>3
      <4> QED
        BY <3>1, <4>1, <4>2
    <3> QED
      BY <3>2, <3>3
  <2> QED
    BY <1>6, <2>1, <2>2 DEF LogOK
<1>8. Carried'
  <2>1. CASE step = "first" /\ wait # 0
    <3>1. c = NCold /\ sid = Total
      BY <1>1, <2>1 DEF RotationSound, StreamsOK, Progress, busy, Total
    <3> QED
      BY <1>2, <1>3, <1>6, <2>1, <3>1 DEF Carried, RotationSound
  <2>2. CASE step = "second" /\ wait # 0
    <3>1. c = NCold + 1 /\ sid = Total
      BY <1>1, <2>2 DEF RotationSound, StreamsOK, Progress
    <3>2. log[Total] = <<NCold>> /\ stream'[NCold + 1][2] = "recorded"
      BY <1>2, <2>2, <3>1 DEF Carried, RotationSound
    <3>3. log'[Total] = <<NCold, NCold + 1>>
      <4>1. log'[Total] = Append(<<NCold>>, NCold + 1)
        BY <1>6, <3>1, <3>2
      <4>2. Append(<<NCold>>, NCold + 1) = <<NCold, NCold + 1>>
        BY TwoLong
      <4> QED
        BY <4>1, <4>2
    <3> QED
      BY <1>3, <2>2, <3>2, <3>3 DEF Carried
  <2>3. CASE (step = "second" /\ wait = 0) \/ step = "done"
    <3>1. wait = 0 /\ c # 0 /\ step # "failed"
      BY <2>3 DEF RotationSound, Progress
    <3>2. FALSE
      BY <3>1 DEF RotationSound, StreamsOK
    <3> QED
      BY <3>2
  <2> QED
    BY <1>3, <2>1, <2>2, <2>3 DEF Carried
<1> QED
  BY <1>4, <1>5, <1>7, <1>8 DEF RotationSound

\* The server acknowledges a message.
LEMMA AckSound ==
  ASSUME RotationSound, NEW c \in Circuits, Ack(c)
  PROVE  RotationSound'
<1> USE Sets DEF Ack, AckReady
<1> DEFINE sid == stream[c][1]
<1>1. /\ stream \in [Circuits -> (0..ids) \X Stages] /\ ids \in 0..Total
      /\ stream[c] \in (0..ids) \X Stages
  BY DEF RotationSound, StreamsOK, HoldsOK
<1>2. /\ \A d \in Circuits : stream'[d][1] = stream[d][1]
      /\ \A d \in Circuits : stream'[d][2] = IF d = c THEN "acked" ELSE stream[d][2]
      /\ stream' \in [Circuits -> (0..ids) \X Stages]
  <2>1. stream' = [stream EXCEPT ![c] = [stream[c] EXCEPT ![2] = "acked"]]
    BY <1>1
  <2>2. [stream[c] EXCEPT ![2] = "acked"] = <<sid, "acked">> /\ <<sid, "acked">> \in (0..ids) \X Stages
    <3>1. PICK a \in 0..ids, b \in Stages : stream[c] = <<a, b>>
      BY <1>1
    <3> QED
      BY <3>1 DEF Stages
  <2> QED
    BY <1>1, <2>1, <2>2
<1>3. /\ step' = step /\ wait' = wait /\ ids' = ids /\ made' = made /\ circuits' = circuits
      /\ pool' = pool /\ kept' = kept /\ loop' = loop /\ log' = log
  BY DEF client
<1>4. HoldsOK' /\ Progress'
  <2> HIDE DEF Ack
  <2>1. HoldsOK'
    BY <1>3 DEF RotationSound, HoldsOK
  <2>2. Progress'
    BY <1>3 DEF RotationSound, Progress, busy
  <2> QED
    BY <2>1, <2>2
<1>5. StreamsOK'
  <2>1. StreamsOK /\ stream[c][2] \notin {"none", "acked"}
    BY DEF RotationSound
  <2>2. wait \in Circuits \cup {0}
    BY DEF RotationSound, HoldsOK
  <2> QED
    BY <1>2, <1>3, <2>1, <2>2, StageMoves
<1>6. LogOK'
  <2>1. \A s : Recorded(s)' = Recorded(s)
    BY <1>2 DEF Recorded
  <2> QED
    BY <1>3, <2>1, Zenon DEF RotationSound, LogOK
<1>7. Carried'
  <2>1. Carried /\ stream[c][2] = "recorded"
    BY DEF RotationSound
  <2>2. \A d \in Circuits : stream'[d][2] = "sent" <=> stream[d][2] = "sent"
    BY <1>2, <2>1
  <2>3. NCold \in Circuits /\ NCold + 1 \in Circuits
    BY DEF Total
  <2> HIDE DEF Ack, AckReady
  <2> QED
    BY <1>2, <1>3, <2>1, <2>2, <2>3 DEF Carried
<1> QED
  BY <1>4, <1>5, <1>6, <1>7 DEF RotationSound

\* Every step of main, of the server and of the network keeps the invariant.
LEMMA RotationStep ==
  ASSUME RotationSound, [RotationNext]_rotationVars
  PROVE  RotationSound'
<1>1. CASE Main \/ ConnectFails
  BY <1>1, ColdSound, PrewarmSound, NextLoopSound, WarmSound, FirstSound, SecondSound, ReadAckSound,
     FailedSound
  DEF Main, SendFails, ConnectFails
<1>2. CASE \E c \in Circuits : Record(c) \/ Ack(c)
  BY <1>2, RecordSound, AckSound
<1>3. CASE (\E c \in Circuits : IdleOut(c)) \/ UNCHANGED rotationVars
  <2>1. UNCHANGED <<client, stream, log>>
    BY <1>3 DEF IdleOut, rotationVars
  <2>2. HoldsOK' /\ Progress'
    BY <2>1 DEF client, RotationSound, HoldsOK, Progress, busy
  <2>3. StreamsOK' /\ LogOK' /\ Carried'
    BY <2>1 DEF client, RotationSound, StreamsOK, LogOK, Recorded, Carried
  <2> QED
    BY <2>2, <2>3 DEF RotationSound
<1> QED
  BY <1>1, <1>2, <1>3 DEF RotationNext

\* The inductive invariant of the program that rotates.
THEOREM RotationInvariant == RotationSpec => []RotationSound
<1> QED
  BY RotationInitSound, RotationStep, PTL DEF RotationSpec

\* connect_fresh_with, CircuitPool and session_send: for any number of cold and warm
\* circuits the pool has one for every take, every ack was recorded before it was
\* sent, and the session that is carried over is recorded once from each of two
\* addresses, over circuits with ports of their own.
THEOREM RotationCarriesSession == RotationSpec => []SessionMoves
<1>1. RotationSound => SessionMoves
  <2> SUFFICES ASSUME RotationSound PROVE SessionMoves
    OBVIOUS
  <2> USE Sets DEF RotationSound
  <2>1. RotationTypeOK
    <3>1. \A i \in DOMAIN pool : pool[i] \in DOMAIN circuits
      BY DEF HoldsOK
    <3>2. {pool[i] : i \in DOMAIN pool} \cup ({kept, wait} \ {0}) \subseteq DOMAIN circuits
      BY <3>1 DEF HoldsOK
    <3> QED
      BY <3>2 DEF RotationTypeOK, HoldsOK, Total
  <2>2. AckedIsRecorded
    <3>1. \A s \in Sids : \A c \in Circuits : stream[c] = <<s, "acked">> => c \in Recorded(s)
      <4> SUFFICES ASSUME NEW s \in Sids, NEW c \in Circuits, stream[c] = <<s, "acked">>
                   PROVE  c \in Recorded(s)
        OBVIOUS
      <4>1. stream[c][1] = s /\ stream[c][2] = "acked"
        OBVIOUS
      <4> QED
        BY <4>1, Zenon DEF Recorded
    <3> QED
      BY <3>1 DEF LogOK, AckedIsRecorded, Source
  <2>3. PoolSuffices
    <3> SUFFICES ASSUME wait = 0, (step = "warm" /\ loop < NWarm) \/ step = "second"
                 PROVE  pool # <<>>
      BY DEF PoolSuffices
    <3>1. busy = 0 /\ loop \in Nat
      BY DEF busy, HoldsOK
    <3>2. Len(pool) >= 1
      BY <3>1 DEF Progress
    <3> QED
      BY <3>2
  <2>4. SessionCarried
    <3> SUFFICES ASSUME step = "done"
                 PROVE  /\ Len(log[ids]) = 2 /\ log[ids][1] # log[ids][2]
                        /\ \E c \in DOMAIN circuits \ {kept} :
                             stream[c][1] = ids /\ circuits[c] # circuits[kept]
      BY DEF SessionCarried
    <3>1. ids = Total /\ kept = NCold /\ NCold + 1 \in DOMAIN circuits /\ kept \in DOMAIN circuits
      BY DEF Progress, HoldsOK
    <3>2. log[ids] = <<NCold, NCold + 1>> /\ stream[NCold + 1][1] = ids
      BY <3>1 DEF Carried
    <3>3. circuits[NCold + 1] # circuits[kept] /\ NCold + 1 # kept
      BY <3>1 DEF HoldsOK
    <3>4. Len(log[ids]) = 2 /\ log[ids][1] # log[ids][2]
      BY <3>2
    <3> QED
      BY <3>1, <3>2, <3>3, <3>4
  <2> QED
    BY <2>1, <2>2, <2>3, <2>4 DEF SessionMoves
<1> QED
  BY <1>1, RotationInvariant, PTL

=============================================================================
