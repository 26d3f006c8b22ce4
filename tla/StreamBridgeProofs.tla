------------------------- MODULE StreamBridgeProofs -------------------------
(***************************************************************************)
(* Frames keep their bounds on the way through the byte stream, for any    *)
(* number of concurrent senders, any sizes and any window of the stream.   *)
(*                                                                         *)
(* The inductive invariant follows the units of one direction from the     *)
(* reader's hands through the stream to the writer: each is followed by    *)
(* its successor (Chained), and what the writer still holds ends with the  *)
(* frame that was begun last (AtEnd).  The part that reaches into the      *)
(* writer is lost when a write fails or an end goes away, and what is      *)
(* already in the stream stays a chain as long as anybody reads it.        *)
(***************************************************************************)
EXTENDS StreamBridge, TLAPS

\* v comes next after u, in a direction whose frames have the lengths s.
Follows(s, u, v) ==
  /\ v.id \in 1..Len(s)
  /\ v = IF u.at = u.len THEN [id |-> u.id + 1, at |-> 0, len |-> s[u.id + 1]]
                         ELSE [id |-> u.id, at |-> u.at + 1, len |-> u.len]

\* The units b come next after u, one after the other; the last of u and b.
Chained(s, u, b) ==
  b # <<>> => Follows(s, u, b[1]) /\ \A i \in 1..(Len(b) - 1) : Follows(s, b[i], b[i + 1])
Tip(u, b) == IF b = <<>> THEN u ELSE b[Len(b)]

\* The last unit of the frame that was begun last.
AtEnd(s, u) == u.at = u.len /\ u.id = Len(s)

\* A beginning of frame k.
Begun(s, k, q) ==
  q # <<>> => /\ k \in 1..Len(s) /\ Len(q) <= s[k] + 1
              /\ \A i \in 1..Len(q) : q[i] = [id |-> k, at |-> i - 1, len |-> s[k]]

\* What the reader read last; after a delivery, the end of that frame.
LastRead(d) == IF inn[d] = <<>> THEN [id |-> delivered[d], at |-> 0, len |-> 0]
                                ELSE inn[d][Len(inn[d])]

WritersOf(d) == {w \in Writers : DirOf(w) = d}
WriterUp(d) == IF d = "up" THEN clientUp ELSE bridgeUp
Only(d, w) == \A v \in WritersOf(d) \ {w} : out[v] = <<>>

\* The writer's rest continues the stream, up to the end of its frame.
Joined(d) ==
  \A w \in WritersOf(d) :
    Only(d, w) => /\ Chained(framed[d], Tip(LastRead(d), buf[d]), out[w])
                  /\ AtEnd(framed[d], Tip(Tip(LastRead(d), buf[d]), out[w]))

\* One direction of the stream.
InOrder(d) ==
  /\ Begun(framed[d], Next1(d), inn[d])
  /\ Reads(d) => Chained(framed[d], LastRead(d), buf[d])
  /\ Reads(d) /\ wire /\ WriterUp(d) => Joined(d)
  /\ ~Reads(d) => inn[d] = <<>>
  /\ ~WriterUp(d) => \A w \in WritersOf(d) : out[w] = <<>>
  /\ ~wire => buf[d] = <<>>
  /\ \A v, w \in WritersOf(d) : out[v] # <<>> /\ out[w] # <<>> => v = w

StreamSound == StreamTypeOK /\ \A d \in Dirs : InOrder(d)

-----------------------------------------------------------------------------
\* Sequences of lengths and of units.
LEMMA LengthsAreNat ==
  ASSUME NEW s \in Seq(Sizes)
  PROVE  Len(s) \in Nat /\ \A k \in 1..Len(s) : s[k] \in Nat
<1>1. Len(s) \in Nat
  OBVIOUS
<1>2. \A k \in 1..Len(s) : s[k] \in Sizes
  OBVIOUS
<1>3. Sizes \subseteq Nat
  BY StreamAssumption
<1> QED
  BY <1>1, <1>2, <1>3, Zenon

\* The unit that is written last.
LEMMA UnitAppended ==
  ASSUME NEW b \in Seq(Unit), NEW v \in Unit
  PROVE  /\ Append(b, v) \in Seq(Unit) /\ Append(b, v) # <<>>
         /\ Len(Append(b, v)) = Len(b) + 1 /\ Len(b) \in Nat
         /\ Append(b, v)[Len(b) + 1] = v /\ \A i \in 1..Len(b) : Append(b, v)[i] = b[i]
         /\ b # <<>> => Len(b) >= 1 /\ Head(b) = b[1]
<1>1. Append(b, v) \in Seq(Unit) /\ Len(Append(b, v)) = Len(b) + 1 /\ Len(b) \in Nat
  OBVIOUS
<1>2. Append(b, v) # <<>>
  BY <1>1
<1>3. Append(b, v)[Len(b) + 1] = v /\ \A i \in 1..Len(b) : Append(b, v)[i] = b[i]
  OBVIOUS
<1>4. b # <<>> => Len(b) >= 1 /\ Head(b) = b[1]
  OBVIOUS
<1> QED
  BY <1>1, <1>2, <1>3, <1>4

\* A chain grows at its end ...
LEMMA ChainAppend ==
  ASSUME NEW s, NEW u, NEW b \in Seq(Unit), NEW v \in Unit,
         Chained(s, u, b), Follows(s, Tip(u, b), v)
  PROVE  Chained(s, u, Append(b, v)) /\ Tip(u, Append(b, v)) = v
<1> DEFINE c == Append(b, v)
<1>1. /\ c \in Seq(Unit) /\ Len(c) = Len(b) + 1 /\ Len(b) \in Nat /\ c # <<>>
      /\ c[Len(b) + 1] = v /\ \A i \in 1..Len(b) : c[i] = b[i]
  OBVIOUS
<1>2. Tip(u, c) = v
  BY <1>1 DEF Tip
<1>3. CASE b = <<>>
  <2>1. Len(b) = 0 /\ c[1] = v
    BY <1>1, <1>3
  <2> QED
    BY <1>1, <1>2, <1>3, <2>1 DEF Chained, Tip
<1>4. CASE b # <<>>
  <2>1. Len(b) >= 1 /\ c[1] = b[1]
    BY <1>1, <1>4
  <2>2. ASSUME NEW i \in 1..(Len(c) - 1) PROVE Follows(s, c[i], c[i + 1])
    <3>1. CASE i = Len(b)
      BY <1>1, <1>4, <2>1, <3>1 DEF Tip
    <3>2. CASE i # Len(b)
      <4>1. i \in 1..(Len(b) - 1) /\ i \in 1..Len(b) /\ i + 1 \in 1..Len(b)
        BY <1>1, <2>1, <3>2
      <4>2. c[i] = b[i] /\ c[i + 1] = b[i + 1]
        BY <1>1, <4>1
      <4> QED
        BY <1>4, <4>1, <4>2 DEF Chained
    <3> QED
      BY <3>1, <3>2
  <2> QED
    BY <1>2, <1>4, <2>1, <2>2 DEF Chained
<1> QED
  BY <1>3, <1>4

\* ... and is taken from at its front.
LEMMA ChainTail ==
  ASSUME NEW s, NEW u, NEW b \in Seq(Unit), b # <<>>, Chained(s, u, b)
  PROVE  /\ Chained(s, Head(b), Tail(b)) /\ Tip(Head(b), Tail(b)) = Tip(u, b)
         /\ Follows(s, u, Head(b)) /\ Head(b) \in Unit /\ Tail(b) \in Seq(Unit)
<1> DEFINE c == Tail(b)
<1>1. /\ c \in Seq(Unit) /\ Len(c) = Len(b) - 1 /\ Len(b) \in Nat /\ Len(b) >= 1
      /\ Head(b) = b[1] /\ b[1] \in Unit /\ \A i \in 1..Len(c) : c[i] = b[i + 1]
  OBVIOUS
<1>2. Follows(s, u, b[1]) /\ \A i \in 1..(Len(b) - 1) : Follows(s, b[i], b[i + 1])
  BY DEF Chained
<1>3. CASE c = <<>>
  <2>1. Len(b) = 1
    BY <1>1, <1>3
  <2> QED
    BY <1>1, <1>2, <1>3, <2>1 DEF Chained, Tip
<1>4. CASE c # <<>>
  <2>1. Len(b) >= 2 /\ c[1] = b[2] /\ c[Len(c)] = b[Len(b)]
    BY <1>1, <1>4
  <2>2. Follows(s, b[1], c[1])
    BY <1>1, <1>2, <2>1
  <2>3. ASSUME NEW i \in 1..(Len(c) - 1) PROVE Follows(s, c[i], c[i + 1])
    <3>1. i + 1 \in 1..(Len(b) - 1) /\ c[i] = b[i + 1] /\ c[i + 1] = b[(i + 1) + 1]
      BY <1>1
    <3> QED
      BY <1>2, <3>1
  <2> QED
    BY <1>1, <1>2, <1>4, <2>1, <2>2, <2>3 DEF Chained, Tip
<1> QED
  BY <1>3, <1>4

\* A frame that is begun later changes nothing for the units before it.
LEMMA FollowsOn ==
  ASSUME NEW s \in Seq(Sizes), NEW n \in Sizes, NEW u, NEW v, Follows(s, u, v)
  PROVE  Follows(Append(s, n), u, v)
<1>1. /\ v.id \in 1..Len(s)
      /\ \A k \in 1..Len(s) : Append(s, n)[k] = s[k] /\ k \in 1..Len(Append(s, n))
  BY DEF Follows
<1>2. CASE u.at = u.len
  <2>1. v = [id |-> u.id + 1, at |-> 0, len |-> s[u.id + 1]] /\ u.id + 1 = v.id
    BY <1>2 DEF Follows
  <2> QED
    BY <1>1, <1>2, <2>1 DEF Follows
<1>3. CASE u.at # u.len
  BY <1>1, <1>3 DEF Follows
<1> QED
  BY <1>2, <1>3

\* A chain stays one when further frames are begun.
LEMMA ChainOn ==
  ASSUME NEW s \in Seq(Sizes), NEW n \in Sizes, NEW u, NEW b, Chained(s, u, b)
  PROVE  Chained(Append(s, n), u, b)
BY FollowsOn DEF Chained

\* A new frame follows the end of the one before.
LEMMA FrameFollows ==
  ASSUME NEW s \in Seq(Sizes), NEW n \in Sizes, NEW u, AtEnd(s, u)
  PROVE  /\ Frame(Len(s) + 1, n) # <<>>
         /\ Chained(Append(s, n), u, Frame(Len(s) + 1, n))
         /\ AtEnd(Append(s, n), Tip(u, Frame(Len(s) + 1, n)))
<1> DEFINE m == Len(s) + 1
           f == Frame(m, n)
           t == Append(s, n)
<1>1. /\ n \in Nat /\ Len(s) \in Nat /\ m \in Nat /\ t \in Seq(Sizes) /\ Len(t) = m
      /\ t[m] = n /\ m \in 1..Len(t)
  BY StreamAssumption
<1>2. f = [j \in 1..(n + 1) |-> [id |-> m, at |-> j - 1, len |-> n]]
  BY DEF Frame
<1>3. \A j \in 1..(n + 1) : [id |-> m, at |-> j - 1, len |-> n] \in Unit
  BY <1>1 DEF Unit
<1>4. f \in [1..(n + 1) -> Unit]
  BY <1>2, <1>3
<1>5. f \in Seq(Unit) /\ Len(f) = n + 1 /\ f # <<>>
  BY <1>1, <1>4
<1>6. \A j \in 1..(n + 1) : f[j] = [id |-> m, at |-> j - 1, len |-> n]
  BY <1>2, Zenon
<1>7. f[1] = [id |-> m, at |-> 0, len |-> n] /\ f[n + 1] = [id |-> m, at |-> n, len |-> n]
  BY <1>1, <1>6
<1> HIDE DEF f, m, t
<1>8. Follows(t, u, f[1])
  BY <1>1, <1>7 DEF Follows, AtEnd, m
<1>9. ASSUME NEW i \in 1..(Len(f) - 1) PROVE Follows(t, f[i], f[i + 1])
  <2>1. /\ i \in 1..(n + 1) /\ i + 1 \in 1..(n + 1) /\ i \in Nat /\ i - 1 # n
        /\ (i + 1) - 1 = (i - 1) + 1
    BY <1>1, <1>5
  <2>2. /\ f[i] = [id |-> m, at |-> i - 1, len |-> n]
        /\ f[i + 1] = [id |-> m, at |-> (i - 1) + 1, len |-> n]
    BY <1>6, <2>1
  <2> QED
    BY <1>1, <2>1, <2>2 DEF Follows
<1>10. Chained(t, u, f) /\ AtEnd(t, Tip(u, f))
  BY <1>1, <1>5, <1>7, <1>8, <1>9 DEF Chained, AtEnd, Tip
<1> QED
  BY <1>5, <1>10 DEF f, m, t

\* A frame is a sequence of units.
LEMMA FrameType ==
  ASSUME NEW i \in Nat, NEW n \in Sizes
  PROVE  Frame(i, n) \in Seq(Unit)
<1>1. n \in Nat
  BY StreamAssumption
<1>2. \A j \in 1..(n + 1) : [id |-> i, at |-> j - 1, len |-> n] \in Unit
  BY <1>1 DEF Unit
<1>3. Frame(i, n) \in [1..(n + 1) -> Unit]
  BY <1>2 DEF Frame
<1> QED
  BY <1>1, <1>3

-----------------------------------------------------------------------------
\* The client's senders write up the stream, the bridge down.
LEMMA Directions ==
  /\ WritersOf("up") = Senders /\ WritersOf("down") = {toTcp}
  /\ \A w \in Writers : DirOf(w) \in Dirs /\ w \in WritersOf(DirOf(w))
  /\ \A d \in Dirs : WritersOf(d) \subseteq Writers /\ \A w \in WritersOf(d) : DirOf(w) = d
BY StreamAssumption DEF WritersOf, Writers, DirOf, Dirs

\* The stream starts empty.
LEMMA StreamStarts == StreamInit => StreamSound
<1> SUFFICES ASSUME StreamInit PROVE StreamSound
  OBVIOUS
<1>1. StreamTypeOK
  <2>1. \A S : <<>> \in Seq(S)
    OBVIOUS
  <2>2. Len(<<>>) = 0 /\ 0 <= Window /\ 0 <= UdpBuf
    BY StreamAssumption
  <2>3. out \in [Writers -> Seq(Unit)]
    BY <2>1 DEF StreamInit
  <2>4. buf \in [Dirs -> Seq(Unit)] /\ inn \in [Dirs -> Seq(Unit)] /\ framed \in [Dirs -> Seq(Sizes)]
        /\ \A d \in Dirs : buf[d] = <<>>
    BY <2>1 DEF StreamInit
  <2>5. delivered \in [Dirs -> Nat] /\ replies \in Seq(Sizes) /\ Len(replies) <= UdpBuf
    BY <2>1, <2>2 DEF StreamInit
  <2> QED
    BY <2>2, <2>3, <2>4, <2>5 DEF StreamInit, StreamTypeOK
<1>2. ASSUME NEW d \in Dirs PROVE InOrder(d)
  <2>1. /\ inn[d] = <<>> /\ buf[d] = <<>> /\ framed[d] = <<>> /\ delivered[d] = 0
        /\ \A w \in WritersOf(d) : out[w] = <<>>
    BY Directions DEF StreamInit
  <2>2. Begun(framed[d], Next1(d), inn[d]) /\ Chained(framed[d], LastRead(d), buf[d])
    BY <2>1 DEF Begun, Chained
  <2>3. LastRead(d) = [id |-> 0, at |-> 0, len |-> 0] /\ Tip(LastRead(d), buf[d]) = LastRead(d)
    BY <2>1 DEF LastRead, Tip
  <2>4. AtEnd(framed[d], LastRead(d))
    BY <2>1, <2>3 DEF AtEnd
  <2>5. Joined(d)
    BY <2>1, <2>3, <2>4 DEF Joined, Chained, Tip
  <2> QED
    BY <2>1, <2>2, <2>5 DEF InOrder
<1> QED
  BY <1>1, <1>2 DEF StreamSound

-----------------------------------------------------------------------------
\* Types.
LEMMA StartTypes ==
  ASSUME StreamTypeOK, NEW w \in Writers, NEW n \in Sizes, Start(w, n),
         replies' \in Seq(Sizes), Len(replies') <= UdpBuf
  PROVE  StreamTypeOK'
<1>1. DirOf(w) \in Dirs /\ framed[DirOf(w)] \in Seq(Sizes)
  BY Directions DEF StreamTypeOK
<1>2. Len(framed[DirOf(w)]) + 1 \in Nat /\ Append(framed[DirOf(w)], n) \in Seq(Sizes)
  BY <1>1
<1>3. out' \in [Writers -> Seq(Unit)]
  BY <1>2, FrameType, Zenon DEF Start, StreamTypeOK
<1>4. framed' \in [Dirs -> Seq(Sizes)]
  BY <1>1, <1>2 DEF Start, StreamTypeOK
<1> QED
  BY <1>3, <1>4 DEF Start, StreamTypeOK

\* A write moves a unit to the stream, within its window.
LEMMA WriteTypes ==
  ASSUME StreamTypeOK, NEW w \in Writers, Write(w)
  PROVE  StreamTypeOK'
<1>1. DirOf(w) \in Dirs /\ buf[DirOf(w)] \in Seq(Unit) /\ out[w] \in Seq(Unit)
  BY Directions DEF StreamTypeOK
<1>2. out[w] # <<>> /\ Len(buf[DirOf(w)]) < Window /\ Window \in Nat
  BY StreamAssumption DEF Write
<1>3. Head(out[w]) \in Unit /\ Tail(out[w]) \in Seq(Unit)
  BY <1>1, <1>2
<1>4. Append(buf[DirOf(w)], Head(out[w])) \in Seq(Unit)
      /\ Len(Append(buf[DirOf(w)], Head(out[w]))) <= Window
  BY <1>1, <1>2, <1>3
<1>5. buf' \in [Dirs -> Seq(Unit)] /\ \A d \in Dirs : Len(buf'[d]) <= Window
  BY <1>1, <1>4 DEF Write, StreamTypeOK
<1>6. out' \in [Writers -> Seq(Unit)]
  BY <1>3 DEF Write, StreamTypeOK
<1> QED
  BY <1>5, <1>6 DEF Write, StreamTypeOK

\* A read takes one from it.
LEMMA ReadTypes ==
  ASSUME StreamTypeOK, NEW d \in Dirs, Read(d)
  PROVE  StreamTypeOK'
<1>1. buf[d] \in Seq(Unit) /\ inn[d] \in Seq(Unit) /\ buf[d] # <<>> /\ Len(buf[d]) <= Window
      /\ Window \in Nat
  BY StreamAssumption DEF StreamTypeOK, Read
<1>2. /\ Head(buf[d]) \in Unit /\ Tail(buf[d]) \in Seq(Unit) /\ Len(Tail(buf[d])) <= Window
      /\ Append(inn[d], Head(buf[d])) \in Seq(Unit)
  BY <1>1
<1>3. buf' \in [Dirs -> Seq(Unit)] /\ \A e \in Dirs : Len(buf'[e]) <= Window
  BY <1>2 DEF Read, StreamTypeOK
<1>4. inn' \in [Dirs -> Seq(Unit)]
  BY <1>2 DEF Read, StreamTypeOK
<1> QED
  BY <1>3, <1>4 DEF Read, StreamTypeOK

\* Every step keeps the types.
LEMMA StreamTypes ==
  ASSUME StreamTypeOK, [StreamNext]_streamVars
  PROVE  StreamTypeOK'
<1>0. \A S : <<>> \in Seq(S)
  OBVIOUS
<1>1. ASSUME NEW s \in Senders, NEW n \in Sizes, TrySend(s, n) PROVE StreamTypeOK'
  BY <1>1, StartTypes, Zenon DEF TrySend, Writers, StreamTypeOK
<1>2. ASSUME NEW s \in Senders, SendFails(s) PROVE StreamTypeOK'
  BY <1>0, <1>2 DEF SendFails, Writers, StreamTypeOK
<1>3. ASSUME NEW w \in Writers, Write(w) PROVE StreamTypeOK'
  BY <1>3, WriteTypes
<1>4. ASSUME NEW d \in Dirs, Read(d) PROVE StreamTypeOK'
  BY <1>4, ReadTypes
<1>5. ASSUME NEW d \in Dirs, HandOver(d) PROVE StreamTypeOK'
  <2>1. inn' \in [Dirs -> Seq(Unit)] /\ delivered' \in [Dirs -> Nat]
    BY <1>0, <1>5 DEF HandOver, StreamTypeOK
  <2> QED
    BY <1>5, <2>1 DEF HandOver, StreamTypeOK
<1>6. CASE FrameReply
  <2>1. replies \in Seq(Sizes) /\ replies # <<>> /\ Len(replies) <= UdpBuf /\ UdpBuf \in Nat
    BY <1>6, StreamAssumption DEF FrameReply, StreamTypeOK
  <2>2. Head(replies) \in Sizes /\ Tail(replies) \in Seq(Sizes) /\ Len(Tail(replies)) <= UdpBuf
    BY <2>1
  <2> QED
    BY <1>6, <2>2, StartTypes, Zenon DEF FrameReply, Writers
<1>7. ASSUME NEW n \in Sizes, Reply(n) PROVE StreamTypeOK'
  <2>1. replies \in Seq(Sizes) /\ Len(replies) < UdpBuf /\ UdpBuf \in Nat
    BY <1>7, StreamAssumption DEF Reply, StreamTypeOK
  <2>2. Append(replies, n) \in Seq(Sizes) /\ Len(Append(replies, n)) <= UdpBuf
    BY <2>1
  <2> QED
    BY <1>7, <2>2 DEF Reply, framing, StreamTypeOK
<1>8. CASE Finish \/ UdpFails
  <2>1. EndBridge
    BY <1>8 DEF Finish, UdpFails
  <2>2. inn' \in [Dirs -> Seq(Unit)] /\ out' \in [Writers -> Seq(Unit)]
    BY <1>0, <2>1, Zenon DEF EndBridge, StreamTypeOK
  <2>3. replies' \in Seq(Sizes) /\ Len(replies') <= UdpBuf
    BY <1>0, <2>1, StreamAssumption DEF EndBridge
  <2> QED
    BY <2>1, <2>2, <2>3, Zenon DEF EndBridge, StreamTypeOK
<1>9. CASE ClientEnds
  <2>1. inn' \in [Dirs -> Seq(Unit)] /\ out' \in [Writers -> Seq(Unit)]
    BY <1>0, <1>9, Zenon DEF ClientEnds, StreamTypeOK
  <2> QED
    BY <1>9, <2>1, Zenon DEF ClientEnds, StreamTypeOK
<1>10. CASE WireBreaks
  <2>1. Len(<<>>) <= Window
    BY StreamAssumption
  <2>2. buf' \in [Dirs -> Seq(Unit)] /\ \A d \in Dirs : Len(buf'[d]) <= Window
    BY <1>0, <1>10, <2>1 DEF WireBreaks
  <2> QED
    BY <1>10, <2>2, Zenon DEF WireBreaks, StreamTypeOK
<1>11. CASE UNCHANGED streamVars
  BY <1>11 DEF streamVars, framing, StreamTypeOK
<1> QED
  BY <1>1, <1>2, <1>3, <1>4, <1>5, <1>6, <1>7, <1>8, <1>9, <1>10, <1>11 DEF StreamNext

-----------------------------------------------------------------------------
\* A direction that a step does not touch.
LEMMA Untouched ==
  ASSUME NEW d \in Dirs, InOrder(d), inn'[d] = inn[d], buf'[d] = buf[d], framed'[d] = framed[d],
         delivered'[d] = delivered[d], \A w \in WritersOf(d) : out'[w] = out[w],
         UNCHANGED <<clientUp, bridgeUp, wire>>
  PROVE  InOrder(d)'
<1>1. LastRead(d)' = LastRead(d) /\ Next1(d)' = Next1(d)
  BY DEF LastRead, Next1
<1>2. Joined(d) => Joined(d)'
  BY <1>1 DEF Joined, Only, WritersOf
<1> QED
  BY <1>1, <1>2 DEF InOrder, Reads, WriterUp, WritersOf

\* A frame is begun while nobody else writes in its direction.
LEMMA StartInOrder ==
  ASSUME StreamSound, NEW w \in Writers, NEW n \in Sizes, Start(w, n), WriterUp(DirOf(w)),
         \A v \in WritersOf(DirOf(w)) : out[v] = <<>>
  PROVE  \A d \in Dirs : InOrder(d)'
<1> DEFINE d == DirOf(w)
           s == framed[d]
           tip == Tip(LastRead(d), buf[d])
           f == Frame(Len(s) + 1, n)
<1>1. d \in Dirs /\ w \in WritersOf(d) /\ WritersOf(d) \subseteq Writers
  BY Directions
<1>2. /\ s \in Seq(Sizes) /\ InOrder(d)
      /\ out \in [Writers -> Seq(Unit)] /\ framed \in [Dirs -> Seq(Sizes)]
  BY <1>1 DEF StreamSound, StreamTypeOK
<1>3. /\ out' = [out EXCEPT ![w] = f] /\ framed' = [framed EXCEPT ![d] = Append(s, n)]
      /\ UNCHANGED <<buf, inn, delivered, clientUp, bridgeUp, wire>>
  BY DEF Start
<1>4. /\ framed'[d] = Append(s, n) /\ out'[w] = f
      /\ \A v \in WritersOf(d) \ {w} : out'[v] = <<>>
      /\ \A e \in Dirs \ {d} : framed'[e] = framed[e] /\ \A v \in WritersOf(e) : out'[v] = out[v]
  BY <1>1, <1>2, <1>3, Directions
<1>5. ASSUME NEW e \in Dirs, e # d PROVE InOrder(e)'
  <2>1. InOrder(e) /\ framed'[e] = framed[e] /\ \A v \in WritersOf(e) : out'[v] = out[v]
    BY <1>4, <1>5 DEF StreamSound
  <2> QED
    BY <1>3, <2>1, Untouched
<1>6. LastRead(d)' = LastRead(d) /\ Next1(d)' = Next1(d)
  BY <1>3 DEF LastRead, Next1
<1>7. Begun(framed'[d], Next1(d), inn[d])
  <2>1. \A k \in 1..Len(s) : Append(s, n)[k] = s[k] /\ k \in 1..Len(Append(s, n))
    BY <1>2
  <2> QED
    BY <1>2, <1>4, <2>1 DEF InOrder, Begun
<1>8. Reads(d) => Chained(framed'[d], LastRead(d), buf[d])
  BY <1>2, <1>4, ChainOn DEF InOrder
<1>9. ASSUME Reads(d), wire PROVE Joined(d)'
  <2>1. AtEnd(s, Tip(tip, out[w])) /\ out[w] = <<>>
    BY <1>1, <1>2, <1>9 DEF InOrder, Joined, Only
  <2>2. AtEnd(s, tip)
    BY <2>1 DEF Tip
  <2>3. Chained(framed'[d], tip, f) /\ AtEnd(framed'[d], Tip(tip, f)) /\ f # <<>>
    BY <1>2, <1>4, <2>2, FrameFollows
  <2>4. ASSUME NEW v \in WritersOf(d), Only(d, v)' PROVE v = w
    BY <1>1, <1>4, <2>3, <2>4, Zenon DEF Only, WritersOf
  <2> QED
    BY <1>3, <1>4, <1>6, <2>3, <2>4, Zenon DEF Joined, WritersOf
<1>10. InOrder(d)'
  <2>1. Reads(d)' = Reads(d) /\ WriterUp(d)' = WriterUp(d) /\ WriterUp(d)
    BY <1>3 DEF Reads, WriterUp
  <2>2. (\A u, v \in WritersOf(d) : out[u] # <<>> /\ out[v] # <<>> => u = v)'
    BY <1>4 DEF WritersOf
  <2> QED
    BY <1>2, <1>3, <1>4, <1>6, <1>7, <1>8, <1>9, <2>1, <2>2 DEF InOrder
<1> QED
  BY <1>1, <1>5, <1>10

\* A unit goes from the writer's hands into the stream.
LEMMA WriteInOrder ==
  ASSUME StreamSound, NEW w \in Writers, Write(w)
  PROVE  \A d \in Dirs : InOrder(d)'
<1> DEFINE d == DirOf(w)
           s == framed[d]
           tip == Tip(LastRead(d), buf[d])
           o == out[w]
<1>1. d \in Dirs /\ w \in WritersOf(d) /\ WritersOf(d) \subseteq Writers
  BY Directions
<1>2. /\ InOrder(d) /\ out \in [Writers -> Seq(Unit)] /\ buf \in [Dirs -> Seq(Unit)]
      /\ o \in Seq(Unit) /\ buf[d] \in Seq(Unit)
  BY <1>1 DEF StreamSound, StreamTypeOK
<1>3. /\ wire /\ o # <<>> /\ buf' = [buf EXCEPT ![d] = Append(buf[d], Head(o))]
      /\ out' = [out EXCEPT ![w] = Tail(o)]
      /\ UNCHANGED <<inn, framed, delivered, clientUp, bridgeUp, wire>>
  BY DEF Write
<1>4. /\ buf'[d] = Append(buf[d], Head(o)) /\ out'[w] = Tail(o)
      /\ \A v \in WritersOf(d) \ {w} : out'[v] = out[v]
      /\ \A e \in Dirs \ {d} : buf'[e] = buf[e] /\ \A v \in WritersOf(e) : out'[v] = out[v]
  BY <1>1, <1>2, <1>3, Directions
<1>5. ASSUME NEW e \in Dirs, e # d PROVE InOrder(e)'
  <2>1. InOrder(e) /\ buf'[e] = buf[e] /\ \A v \in WritersOf(e) : out'[v] = out[v]
    BY <1>4, <1>5, Zenon DEF StreamSound
  <2> QED
    BY <1>3, <2>1, Untouched
<1>6. WriterUp(d) /\ Only(d, w)
  BY <1>1, <1>2, <1>3, Zenon DEF InOrder, Only
<1>7. LastRead(d)' = LastRead(d) /\ Next1(d)' = Next1(d) /\ Reads(d)' = Reads(d)
      /\ WriterUp(d)' = WriterUp(d)
  BY <1>3 DEF LastRead, Next1, Reads, WriterUp
<1>8. ASSUME Reads(d) PROVE Chained(s, LastRead(d), buf'[d]) /\ Joined(d)'
  <2>1. Chained(s, tip, o) /\ AtEnd(s, Tip(tip, o)) /\ Chained(s, LastRead(d), buf[d])
    BY <1>1, <1>2, <1>3, <1>6, <1>8 DEF InOrder, Joined
  <2>2. /\ Chained(s, Head(o), Tail(o)) /\ Tip(Head(o), Tail(o)) = Tip(tip, o)
        /\ Follows(s, tip, Head(o)) /\ Head(o) \in Unit
    BY <1>2, <1>3, <2>1, ChainTail
  <2>3. Chained(s, LastRead(d), buf'[d]) /\ Tip(LastRead(d), buf'[d]) = Head(o)
    BY <1>2, <1>4, <2>1, <2>2, ChainAppend
  <2>4. ASSUME NEW v \in WritersOf(d), Only(d, v)'
        PROVE  Chained(s, Head(o), out'[v]) /\ AtEnd(s, Tip(Head(o), out'[v]))
    <3>1. CASE v = w
      BY <1>4, <2>1, <2>2, <3>1, Zenon
    <3>2. CASE v # w
      <4>1. out'[v] = <<>> /\ Tail(o) = <<>>
        BY <1>1, <1>4, <1>6, <2>4, <3>2, Zenon DEF Only, WritersOf
      <4> QED
        BY <2>1, <2>2, <4>1 DEF Chained, Tip
    <3> QED
      BY <3>1, <3>2, Zenon
  <2> QED
    BY <1>3, <1>7, <2>3, <2>4, Zenon DEF Joined, WritersOf
<1>9. (\A u, v \in WritersOf(d) : out[u] # <<>> /\ out[v] # <<>> => u = v)'
  BY <1>4, <1>6 DEF Only, WritersOf
<1>10. InOrder(d)'
  BY <1>2, <1>3, <1>6, <1>7, <1>8, <1>9 DEF InOrder
<1> QED
  BY <1>1, <1>5, <1>10

\* The last unit in the reader's hands q, once k frames are delivered.
Last(k, q) == IF q = <<>> THEN [id |-> k, at |-> 0, len |-> 0] ELSE q[Len(q)]

\* One more unit of a frame that was begun.
LEMMA BegunOn ==
  ASSUME NEW s \in Seq(Sizes), NEW k \in Nat, NEW q \in Seq(Unit), NEW h \in Unit,
         Begun(s, k + 1, q), Follows(s, Last(k, q), h), q # <<>> => Len(q) # Head(q).len + 1
  PROVE  Begun(s, k + 1, Append(q, h)) /\ Last(k, Append(q, h)) = h
<1> DEFINE m == k + 1
           c == Append(q, h)
<1>1. /\ Len(c) = Len(q) + 1 /\ Len(q) \in Nat /\ c # <<>>
      /\ c[Len(q) + 1] = h /\ \A i \in 1..Len(q) : c[i] = q[i]
      /\ q # <<>> => Len(q) >= 1 /\ Head(q) = q[1]
  BY UnitAppended, Zenon
<1>2. \A j \in 1..Len(s) : s[j] \in Nat
  BY LengthsAreNat, Zenon
<1>3. CASE q = <<>>
  <2>1. h = [id |-> m, at |-> 0, len |-> s[m]] /\ m \in 1..Len(s)
    BY <1>3 DEF Follows, Last
  <2>2. Len(c) = 1 /\ c[1] = h /\ 1 <= s[m] + 1
    BY <1>1, <1>2, <1>3, <2>1
  <2> QED
    BY <1>1, <2>1, <2>2 DEF Begun, Last
<1>4. CASE q # <<>>
  <2>1. /\ m \in 1..Len(s) /\ Len(q) <= s[m] + 1
        /\ \A i \in 1..Len(q) : q[i] = [id |-> m, at |-> i - 1, len |-> s[m]]
    BY <1>4 DEF Begun
  <2>2. Len(q) >= 1 /\ Head(q) = q[1] /\ 1 \in 1..Len(q) /\ Len(q) \in 1..Len(q)
    BY <1>1, <1>4
  <2>3. q[1].len = s[m] /\ Last(k, q) = [id |-> m, at |-> Len(q) - 1, len |-> s[m]]
    <3>1. q[1] = [id |-> m, at |-> 1 - 1, len |-> s[m]]
      BY <2>1, <2>2, Zenon
    <3>2. q[Len(q)] = [id |-> m, at |-> Len(q) - 1, len |-> s[m]]
      BY <2>1, <2>2, Zenon
    <3>3. q[1].len = s[m]
      BY <3>1
    <3> QED
      BY <1>4, <3>2, <3>3, Zenon DEF Last
  <2>4. s[m] \in Nat /\ Len(q) # s[m] + 1
    BY <1>2, <1>4, <2>1, <2>2, <2>3
  <2>5. Len(q) - 1 # s[m] /\ Len(q) + 1 <= s[m] + 1 /\ (Len(q) - 1) + 1 = (Len(q) + 1) - 1
    BY <1>1, <2>1, <2>4
  <2>6. h = [id |-> m, at |-> (Len(q) + 1) - 1, len |-> s[m]]
    BY <2>3, <2>5 DEF Follows
  <2>7. \A i \in 1..(Len(q) + 1) : i \in 1..Len(q) \/ i = Len(q) + 1
    BY <1>1
  <2> QED
    BY <1>1, <2>1, <2>5, <2>6, <2>7 DEF Begun, Last
<1> QED
  BY <1>3, <1>4

\* As many units as the first one announces are the whole frame.
LEMMA BegunWhole ==
  ASSUME NEW s \in Seq(Sizes), NEW k \in Nat, NEW q \in Seq(Unit),
         Begun(s, k + 1, q), q # <<>>, Len(q) = Head(q).len + 1
  PROVE  /\ q = Frame(k + 1, s[k + 1])
         /\ Last(k, q) = [id |-> k + 1, at |-> s[k + 1], len |-> s[k + 1]]
<1> DEFINE m == k + 1
<1>1. /\ m \in 1..Len(s) /\ \A i \in 1..Len(q) : q[i] = [id |-> m, at |-> i - 1, len |-> s[m]]
  BY DEF Begun
<1>2. Len(q) >= 1 /\ Head(q) = q[1] /\ Len(q) \in Nat
  OBVIOUS
<1>3. s[m] \in Nat /\ q[1].len = s[m]
  <2>1. 1 \in 1..Len(q)
    BY <1>2
  <2>2. q[1] = [id |-> m, at |-> 1 - 1, len |-> s[m]]
    BY <1>1, <2>1, Zenon
  <2>3. q[1].len = s[m]
    BY <2>2
  <2> QED
    BY <1>1, <2>3, LengthsAreNat, Zenon
<1>4. Len(q) = s[m] + 1
  BY <1>2, <1>3
<1>5. q[s[m] + 1] = [id |-> m, at |-> s[m], len |-> s[m]]
  BY <1>1, <1>2, <1>3, <1>4
<1>6. q = [j \in 1..Len(q) |-> q[j]]
  OBVIOUS
<1>7. q = Frame(m, s[m])
  BY <1>1, <1>4, <1>6, Zenon DEF Frame
<1> QED
  BY <1>4, <1>5, <1>7 DEF Last

\* A unit goes from the stream into the reader's hands.
LEMMA ReadInOrder ==
  ASSUME StreamSound, NEW d \in Dirs, Read(d)
  PROVE  \A e \in Dirs : InOrder(e)'
<1> DEFINE s == framed[d]
           k == delivered[d] + 1
           q == inn[d]
           h == Head(buf[d])
<1>1. /\ InOrder(d) /\ inn \in [Dirs -> Seq(Unit)] /\ buf \in [Dirs -> Seq(Unit)]
      /\ q \in Seq(Unit) /\ buf[d] \in Seq(Unit) /\ delivered[d] \in Nat /\ s \in Seq(Sizes)
  BY DEF StreamSound, StreamTypeOK
<1>2. /\ Reads(d) /\ buf[d] # <<>> /\ ~Refuses(d) /\ ~Whole(d)
      /\ inn' = [inn EXCEPT ![d] = Append(q, h)] /\ buf' = [buf EXCEPT ![d] = Tail(buf[d])]
      /\ UNCHANGED <<out, framed, delivered, clientUp, bridgeUp, wire>>
  BY DEF Read
<1>3. /\ inn'[d] = Append(q, h) /\ buf'[d] = Tail(buf[d])
      /\ \A e \in Dirs \ {d} : inn'[e] = inn[e] /\ buf'[e] = buf[e]
  BY <1>1, <1>2
<1>4. ASSUME NEW e \in Dirs, e # d PROVE InOrder(e)'
  <2>1. InOrder(e) /\ inn'[e] = inn[e] /\ buf'[e] = buf[e]
    BY <1>3, <1>4 DEF StreamSound
  <2> QED
    BY <1>2, <2>1, Untouched
<1>5. Chained(s, LastRead(d), buf[d]) /\ Begun(s, k, q)
  BY <1>1, <1>2 DEF InOrder, Next1
<1>6. /\ Chained(s, h, buf'[d]) /\ Tip(h, buf'[d]) = Tip(LastRead(d), buf[d])
      /\ Follows(s, LastRead(d), h) /\ h \in Unit
  BY <1>1, <1>2, <1>3, <1>5, ChainTail
<1>7. LastRead(d) = Last(delivered[d], q) /\ LastRead(d)' = Last(delivered[d], inn'[d])
  BY <1>2 DEF LastRead, Last
<1>8. q # <<>> => Len(q) # Head(q).len + 1
  BY <1>2, Zenon DEF Whole, Length
<1>9. Begun(s, k, inn'[d]) /\ LastRead(d)' = h
  BY <1>1, <1>3, <1>5, <1>6, <1>7, <1>8, BegunOn
<1>10. Joined(d) => Joined(d)'
  BY <1>2, <1>6, <1>9 DEF Joined, Only, WritersOf
<1>11. Next1(d)' = k /\ Reads(d)' = Reads(d) /\ WriterUp(d)' = WriterUp(d)
  BY <1>2 DEF Next1, Reads, WriterUp
<1>12. ~wire => buf'[d] = <<>>
  BY <1>1, <1>2, Zenon DEF InOrder
<1>13. InOrder(d)'
  BY <1>1, <1>2, <1>6, <1>9, <1>10, <1>11, <1>12, Zenon DEF InOrder, WritersOf
<1> QED
  BY <1>4, <1>13

\* Two units that end the same frame have the same successors.
LEMMA SamePlace ==
  ASSUME NEW s, NEW u, NEW v, NEW b, u.at = u.len, v.at = v.len, u.id = v.id
  PROVE  /\ Chained(s, u, b) => Chained(s, v, b)
         /\ AtEnd(s, Tip(u, b)) => AtEnd(s, Tip(v, b))
BY Zenon DEF Chained, Follows, AtEnd, Tip

\* A whole frame is delivered, and the next one is expected.
LEMMA DeliverInOrder ==
  ASSUME StreamSound, NEW d \in Dirs, HandOver(d)
  PROVE  /\ \A e \in Dirs : InOrder(e)'
         /\ inn[d] = Frame(Next1(d), framed[d][Next1(d)])
<1> DEFINE s == framed[d]
           k == delivered[d] + 1
           q == inn[d]
           u == [id |-> k, at |-> s[k], len |-> s[k]]
           v == [id |-> k, at |-> 0, len |-> 0]
<1>1. /\ InOrder(d) /\ inn \in [Dirs -> Seq(Unit)] /\ delivered \in [Dirs -> Nat]
      /\ q \in Seq(Unit) /\ delivered[d] \in Nat /\ s \in Seq(Sizes)
  BY DEF StreamSound, StreamTypeOK
<1>2. /\ Reads(d) /\ q # <<>> /\ Len(q) = Head(q).len + 1
      /\ inn' = [inn EXCEPT ![d] = <<>>] /\ delivered' = [delivered EXCEPT ![d] = @ + 1]
      /\ UNCHANGED <<out, buf, framed, clientUp, bridgeUp, wire>>
  BY DEF HandOver, Whole, Length
<1>3. /\ inn'[d] = <<>> /\ delivered'[d] = k
      /\ \A e \in Dirs \ {d} : inn'[e] = inn[e] /\ delivered'[e] = delivered[e]
  BY <1>1, <1>2
<1>4. ASSUME NEW e \in Dirs, e # d PROVE InOrder(e)'
  <2>1. InOrder(e) /\ inn'[e] = inn[e] /\ delivered'[e] = delivered[e]
    BY <1>3, <1>4 DEF StreamSound
  <2> QED
    BY <1>2, <2>1, Untouched
<1>5. Begun(s, k, q)
  BY <1>1 DEF InOrder, Next1
<1>6. q = Frame(k, s[k]) /\ Last(delivered[d], q) = u
  BY <1>1, <1>2, <1>5, BegunWhole, Zenon
<1>7. LastRead(d) = u /\ LastRead(d)' = v
  BY <1>2, <1>3, <1>6 DEF LastRead, Last
<1>8. u.at = u.len /\ v.at = v.len /\ u.id = v.id
  OBVIOUS
<1> HIDE DEF u, v
<1>9. Chained(s, u, buf[d])
  BY <1>1, <1>2, <1>7 DEF InOrder
<1>10. Chained(s, v, buf[d])
  BY <1>8, <1>9, SamePlace, Zenon
<1>11. ASSUME Joined(d) PROVE Joined(d)'
  <2>1. ASSUME NEW w \in WritersOf(d), Only(d, w)
        PROVE  Chained(s, Tip(v, buf[d]), out[w]) /\ AtEnd(s, Tip(Tip(v, buf[d]), out[w]))
    <3>1. Chained(s, Tip(u, buf[d]), out[w]) /\ AtEnd(s, Tip(Tip(u, buf[d]), out[w]))
      BY <1>7, <1>11, <2>1 DEF Joined
    <3>2. CASE buf[d] = <<>>
      <4>1. Tip(u, buf[d]) = u /\ Tip(v, buf[d]) = v
        BY <3>2 DEF Tip
      <4> QED
        BY <1>8, <3>1, <4>1, SamePlace
    <3>3. CASE buf[d] # <<>>
      BY <3>1, <3>3, Zenon DEF Tip
    <3> QED
      BY <3>2, <3>3
  <2> QED
    BY <1>2, <1>7, <2>1, Zenon DEF Joined, Only, WritersOf
<1>12. Reads(d)' = Reads(d) /\ WriterUp(d)' = WriterUp(d) /\ Begun(s, k + 1, <<>>)
  BY <1>2, Zenon DEF Reads, WriterUp, Begun
<1>13. InOrder(d)'
  BY <1>1, <1>2, <1>3, <1>7, <1>10, <1>11, <1>12 DEF InOrder, WritersOf, Begun
<1> QED
  BY <1>4, <1>6, <1>13 DEF Next1

\* A write fails: the rest of the frame is dropped, and the wire or the reader is gone.
LEMMA FailInOrder ==
  ASSUME StreamSound, NEW s \in Senders, SendFails(s)
  PROVE  \A d \in Dirs : InOrder(d)'
<1>1. /\ out \in [Writers -> Seq(Unit)] /\ out' = [out EXCEPT ![s] = <<>>]
      /\ ~wire \/ ~bridgeUp
      /\ UNCHANGED <<buf, inn, framed, delivered, clientUp, bridgeUp, wire>>
  BY DEF StreamSound, StreamTypeOK, SendFails
<1>2. \A w \in Writers : out'[w] # out[w] => out'[w] = <<>>
  BY <1>1
<1>3. \A w \in WritersOf("down") : out'[w] = out[w]
  BY <1>1, Directions, StreamAssumption DEF Writers
<1>4. InOrder("down")'
  BY <1>1, <1>3, Untouched, Zenon DEF StreamSound, Dirs
<1>5. InOrder("up")'
  <2>1. InOrder("up") /\ WritersOf("up") \subseteq Writers /\ ~(Reads("up") /\ wire)
    BY <1>1, Directions DEF StreamSound, Dirs, Reads
  <2>2. LastRead("up")' = LastRead("up") /\ Next1("up")' = Next1("up")
        /\ Reads("up")' = Reads("up") /\ WriterUp("up")' = WriterUp("up")
    BY <1>1 DEF LastRead, Next1, Reads, WriterUp
  <2>3. (\A v, w \in WritersOf("up") : out[v] # <<>> /\ out[w] # <<>> => v = w)'
    BY <1>2, <2>1 DEF InOrder, WritersOf
  <2>4. ~WriterUp("up") => \A w \in WritersOf("up") : out'[w] = <<>>
    BY <1>2, <2>1 DEF InOrder
  <2> QED
    BY <1>1, <2>1, <2>2, <2>3, <2>4 DEF InOrder, WritersOf
<1> QED
  BY <1>4, <1>5 DEF Dirs

\* handle ends: nobody reads up the stream or writes down it any more.
LEMMA EndBridgeInOrder ==
  ASSUME StreamSound, EndBridge
  PROVE  \A d \in Dirs : InOrder(d)'
<1>1. /\ out \in [Writers -> Seq(Unit)] /\ inn \in [Dirs -> Seq(Unit)]
      /\ out' = [out EXCEPT ![toTcp] = <<>>] /\ inn' = [inn EXCEPT !["up"] = <<>>]
      /\ bridgeUp' = FALSE /\ UNCHANGED <<buf, framed, delivered, clientUp, wire>>
  BY DEF StreamSound, StreamTypeOK, EndBridge
<1>2. /\ inn'["up"] = <<>> /\ inn'["down"] = inn["down"] /\ out'[toTcp] = <<>>
      /\ \A w \in WritersOf("up") : out'[w] = out[w]
  BY <1>1, Directions, StreamAssumption DEF Dirs, Writers
<1>3. InOrder("up")'
  <2>1. InOrder("up") /\ Reads("up")' = FALSE /\ WriterUp("up")' = WriterUp("up")
    BY <1>1, Zenon DEF StreamSound, Dirs, Reads, WriterUp
  <2> QED
    BY <1>1, <1>2, <2>1 DEF InOrder, Begun, WritersOf
<1>4. InOrder("down")'
  <2>1. InOrder("down") /\ Reads("down")' = Reads("down") /\ WriterUp("down")' = FALSE
    BY <1>1 DEF StreamSound, Dirs, Reads, WriterUp
  <2>2. LastRead("down")' = LastRead("down") /\ Next1("down")' = Next1("down")
    BY <1>1, <1>2 DEF LastRead, Next1
  <2>3. WritersOf("down")' = {toTcp}
    BY Directions DEF WritersOf
  <2> QED
    BY <1>1, <1>2, <2>1, <2>2, <2>3 DEF InOrder
<1> QED
  BY <1>3, <1>4 DEF Dirs

\* The client leaves: the same, the other way round.
LEMMA ClientEndsInOrder ==
  ASSUME StreamSound, ClientEnds
  PROVE  \A d \in Dirs : InOrder(d)'
<1>1. /\ out \in [Writers -> Seq(Unit)] /\ inn \in [Dirs -> Seq(Unit)]
      /\ out' = [w \in Writers |-> IF w = toTcp THEN out[w] ELSE <<>>]
      /\ inn' = [inn EXCEPT !["down"] = <<>>]
      /\ clientUp' = FALSE /\ UNCHANGED <<buf, framed, delivered, bridgeUp, wire>>
  BY DEF StreamSound, StreamTypeOK, ClientEnds
<1>2. /\ inn'["down"] = <<>> /\ inn'["up"] = inn["up"] /\ out'[toTcp] = out[toTcp]
      /\ \A w \in WritersOf("up") : out'[w] = <<>>
  BY <1>1, Directions, StreamAssumption DEF Dirs, Writers
<1>3. InOrder("down")'
  <2>1. InOrder("down") /\ Reads("down")' = FALSE /\ WriterUp("down")' = WriterUp("down")
    BY <1>1 DEF StreamSound, Dirs, Reads, WriterUp
  <2>2. WritersOf("down") = {toTcp} /\ WritersOf("down")' = {toTcp}
    BY Directions DEF WritersOf
  <2> QED
    BY <1>1, <1>2, <2>1, <2>2, Zenon DEF InOrder, Begun
<1>4. InOrder("up")'
  <2>1. InOrder("up") /\ Reads("up")' = Reads("up") /\ WriterUp("up")' = FALSE
    BY <1>1 DEF StreamSound, Dirs, Reads, WriterUp
  <2>2. LastRead("up")' = LastRead("up") /\ Next1("up")' = Next1("up")
    BY <1>1, <1>2 DEF LastRead, Next1
  <2> QED
    BY <1>1, <1>2, <2>1, <2>2 DEF InOrder, WritersOf
<1> QED
  BY <1>3, <1>4 DEF Dirs

\* The wire breaks: what was on it is gone, and nothing follows.
LEMMA BreakInOrder ==
  ASSUME StreamSound, NEW d \in Dirs, WireBreaks
  PROVE  InOrder(d)'
<1>1. InOrder(d) /\ buf'[d] = <<>> /\ wire' = FALSE
      /\ UNCHANGED <<out, inn, framed, delivered, clientUp, bridgeUp>>
  BY DEF StreamSound, WireBreaks
<1>2. Next1(d)' = Next1(d) /\ Reads(d)' = Reads(d) /\ WriterUp(d)' = WriterUp(d)
  BY <1>1 DEF Next1, Reads, WriterUp
<1> QED
  BY <1>1, <1>2 DEF InOrder, Chained, WritersOf

\* Every step keeps the order: one lemma above per action.
LEMMA StreamStepSound ==
  ASSUME StreamSound, [StreamNext]_streamVars
  PROVE  StreamSound'
<1> SUFFICES \A d \in Dirs : InOrder(d)'
  BY StreamTypes DEF StreamSound
<1>2. ASSUME NEW s \in Senders, NEW n \in Sizes, TrySend(s, n) PROVE \A d \in Dirs : InOrder(d)'
  <2>1. /\ s \in Writers /\ DirOf(s) = "up" /\ WriterUp("up") /\ Start(s, n)
        /\ \A v \in WritersOf("up") : out[v] = <<>>
    BY <1>2, Directions, StreamAssumption DEF TrySend, MayWrite, Writers, DirOf, WriterUp
  <2> QED
    BY <2>1, StartInOrder
<1>3. CASE FrameReply
  <2>1. /\ toTcp \in Writers /\ DirOf(toTcp) = "down" /\ WriterUp("down")
        /\ Start(toTcp, Head(replies)) /\ \A v \in WritersOf("down") : out[v] = <<>>
    BY <1>3, Directions DEF FrameReply, Writers, DirOf, WriterUp
  <2>2. Head(replies) \in Sizes
    <3>1. replies \in Seq(Sizes) /\ replies # <<>>
      BY <1>3 DEF FrameReply, StreamSound, StreamTypeOK
    <3> QED
      BY <3>1
  <2> QED
    BY <2>1, <2>2, StartInOrder
<1>4. ASSUME UNCHANGED <<framing, clientUp, bridgeUp, wire>> PROVE \A d \in Dirs : InOrder(d)'
  <2>1. UNCHANGED <<out, buf, inn, framed, delivered>>
    BY <1>4 DEF framing
  <2> QED
    BY <1>4, <2>1, Untouched DEF StreamSound
<1>5. CASE (\E n \in Sizes : Reply(n)) \/ UNCHANGED streamVars
  BY <1>4, <1>5 DEF Reply, streamVars
<1>6. CASE Finish \/ UdpFails
  BY <1>6, EndBridgeInOrder DEF Finish, UdpFails
<1>7. CASE \E w \in Writers : Write(w)
  BY <1>7, WriteInOrder
<1>8. CASE \E d \in Dirs : Read(d) \/ HandOver(d)
  BY <1>8, ReadInOrder, DeliverInOrder
<1>9. CASE \E s \in Senders : SendFails(s)
  BY <1>9, FailInOrder
<1>10. CASE ClientEnds \/ WireBreaks
  BY <1>10, ClientEndsInOrder, BreakInOrder
<1> QED
  BY <1>2, <1>3, <1>5, <1>6, <1>7, <1>8, <1>9, <1>10 DEF StreamNext

\* The units on the way always chain up, whole frames one after the other.
THEOREM StreamAlwaysSound == StreamSpec => []StreamSound
BY StreamStarts, StreamStepSound, PTL DEF StreamSpec

-----------------------------------------------------------------------------
\* What the reader holds begins the next frame.
LEMMA SoundInStep == StreamSound => InStep
<1> SUFFICES ASSUME StreamSound, NEW d \in Dirs, inn[d] # <<>>
             PROVE  /\ Next1(d) <= Len(framed[d])
                    /\ inn[d] = SubSeq(Frame(Next1(d), framed[d][Next1(d)]), 1, Len(inn[d]))
  BY DEF InStep
<1> DEFINE q == inn[d]
           k == Next1(d)
           n == framed[d][k]
<1>1. /\ k \in 1..Len(framed[d]) /\ Len(q) <= n + 1
      /\ \A i \in 1..Len(q) : q[i] = [id |-> k, at |-> i - 1, len |-> n]
  BY DEF StreamSound, InOrder, Begun
<1>2. q \in Seq(Unit) /\ framed[d] \in Seq(Sizes)
  BY DEF StreamSound, StreamTypeOK
<1>3. n \in Nat /\ Len(framed[d]) \in Nat
  BY <1>1, <1>2, LengthsAreNat, Zenon
<1>4. q = [j \in 1..Len(q) |-> q[j]] /\ Len(q) \in Nat
  BY <1>2
<1> QED
  BY <1>1, <1>3, <1>4 DEF Frame

\* Only a completed frame is handed on: Deliver is the one step that counts one.
LEMMA OnlyDeliverHands ==
  ASSUME StreamSound, [StreamNext]_streamVars
  PROVE  OnlyWhole
<1> SUFFICES ASSUME NEW d \in Dirs, delivered'[d] # delivered[d]
             PROVE  inn[d] = Frame(Next1(d), framed[d][Next1(d)])
  BY DEF OnlyWhole
<1>1. PICK e \in Dirs : HandOver(e)
  BY DEF StreamNext, streamVars, framing, TrySend, Start, SendFails, Write, Read, FrameReply, Reply, Finish,
         UdpFails, EndBridge, ClientEnds, WireBreaks
<1>2. e = d
  BY <1>1 DEF HandOver, StreamSound, StreamTypeOK
<1> QED
  BY <1>1, <1>2, DeliverInOrder

\* Every step keeps the frames' bounds: the units in the reader's hands begin the
\* next frame, and are the whole of it when it is handed on.
THEOREM FramesStayWhole == StreamSpec => FramesKept
<1>1. StreamSound' => InStep'
  BY SoundInStep, PTL
<1>2. ASSUME StreamSound, StreamSound', [StreamNext]_streamVars
      PROVE  [StreamTypeOK' /\ InStep' /\ OnlyWhole]_streamVars
  BY <1>1, <1>2, OnlyDeliverHands DEF StreamSound
<1> QED
  BY <1>2, StreamAlwaysSound, PTL DEF StreamSpec, FramesKept
=============================================================================
