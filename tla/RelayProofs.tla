---------------------------- MODULE RelayProofs -----------------------------
(***************************************************************************)
(* The relay forwards what it hears, for any number of paths, any depth of *)
(* the queues, any number of requests and replies and any addresses: no    *)
(* datagram is lost or doubled, a path carries only those whose turn it    *)
(* was, and a reply goes to where the client sent from no earlier than     *)
(* what the server got.                                                    *)
(*                                                                         *)
(* The inductive invariant RelaySound gives every datagram heard on a leg  *)
(* exactly one place (Placed), a path that is its number modulo the number *)
(* of paths (Striped), and makes the queue of the boundary the stretch of  *)
(* numbers that follows the last one striped (InTurn).  Most steps move    *)
(* one datagram from one place to another: Shift says so, and Moves shows  *)
(* once that such a step keeps the accounts of its leg.                    *)
(***************************************************************************)
EXTENDS Relay, TLAPS

Rest == {"held", "sendQ", "merged", "recvQ", "dropped", "done"}

\* The variables of the relay, by type.
RelayTypes ==
  /\ heard \in [Legs -> Nat] /\ held \in [Legs -> Nat] /\ next \in [Legs -> Nat]
  /\ sendQ \in [Legs -> Seq(Nat)] /\ merged \in [Legs -> Seq(Nat)] /\ recvQ \in [Legs -> Seq(Nat)]
  /\ done \in [Legs -> Seq(Nat)] /\ dropped \in [Legs -> SUBSET Nat]
  /\ mixing \in [Legs -> [Paths -> SUBSET Nat]]
  /\ egress \in [Legs -> [Paths -> Seq(Nat)]] /\ out \in [Legs -> [Paths -> Seq(Nat)]]
  /\ client_addr \in Addrs \cup {None} /\ sentTo \in Seq(Addrs \cup {None})

\* The bounds of a leg, and the order in which it takes turns: what waits for the
\* boundary is what was heard last, without a gap.
Bounded(l) ==
  /\ heard[l] <= Offers(l) /\ Len(sendQ[l]) <= Depth /\ Len(recvQ[l]) <= Depth
  /\ \A p \in Paths : Len(egress[l][p]) <= MaxQueue
InTurn(l) ==
  /\ held[l] # 0 => held[l] = heard[l]
  /\ next[l] + Len(sendQ[l]) + (IF held[l] = 0 THEN 0 ELSE 1) = heard[l]
  /\ \A i \in DOMAIN sendQ[l] : sendQ[l][i] = next[l] + i
\* A queue holds no datagram twice, and only such as were heard.
Neat(q, n) == Distinct(q) /\ Items(q) \subseteq 1..n
AllNeat(l) ==
  /\ Neat(sendQ[l], heard[l]) /\ Neat(merged[l], heard[l])
  /\ Neat(recvQ[l], heard[l]) /\ Neat(done[l], heard[l]) /\ dropped[l] \subseteq 1..heard[l]
  /\ \A p \in Paths :
       Neat(egress[l][p], heard[l]) /\ Neat(out[l][p], heard[l]) /\ mixing[l][p] \subseteq 1..heard[l]
\* A datagram has one place, and inside a path it is the one whose turn it was.
Placed(l) ==
  \A d \in 1..heard[l] : \E x \in Places : \A y \in Places : At(l, y, d) <=> y = x
Striped(l) ==
  \A d \in 1..heard[l] : \A k \in Stations, p \in Paths :
    At(l, <<k, p>>, d) => (d - 1) % NPaths = p
LegSound(l) == Bounded(l) /\ InTurn(l) /\ AllNeat(l) /\ Placed(l) /\ Striped(l)

\* The address is that of the datagram heard last or, while that one is in the hand
\* of the client's task, of the one before it; whoever is answered is known.
Known ==
  /\ src \in Addrs \cup {None} /\ srcs \in Seq(Addrs) /\ Len(srcs) = heard["up"]
  /\ src = None => heard["up"] = 0 \/ client_addr = srcs[heard["up"]]
  /\ src # None =>
       /\ heard["up"] # 0 /\ held["up"] = heard["up"] /\ src = srcs[heard["up"]]
       /\ heard["up"] = 1 \/ client_addr = srcs[heard["up"] - 1]
  /\ heard["down"] # 0 => client_addr # None

RelaySound == RelayTypes /\ (\A l \in Legs : LegSound(l)) /\ Known

-----------------------------------------------------------------------------
\* The constants of the relay are numbers, and there is a path.
LEMMA Bounds ==
  /\ Depth \in Nat /\ MaxQueue \in Nat /\ Requests \in Nat /\ Replies \in Nat
  /\ NPaths \in Nat /\ NPaths # 0 /\ None \notin Addrs
BY RelayAssumption

\* The head of a queue is taken, ...
LEMMA TakeHead ==
  ASSUME NEW q \in Seq(Nat), q # <<>>
  PROVE  /\ Tail(q) \in Seq(Nat) /\ Len(Tail(q)) = Len(q) - 1 /\ Len(q) \in Nat /\ Len(q) >= 1
         /\ Head(q) \in Items(q) /\ Head(q) = q[1] /\ Head(q) \in Nat
         /\ DOMAIN q = 1..Len(q) /\ DOMAIN Tail(q) = 1..(Len(q) - 1)
         /\ \A i \in 1..(Len(q) - 1) : Tail(q)[i] = q[i + 1]
<1>1. Len(q) \in Nat /\ Len(q) >= 1 /\ Head(q) = q[1] /\ DOMAIN q = 1..Len(q)
  OBVIOUS
<1>2. Tail(q) \in Seq(Nat) /\ Len(Tail(q)) = Len(q) - 1
  OBVIOUS
<1>3. 1 \in DOMAIN q /\ q[1] \in Nat
  BY <1>1
<1>4. DOMAIN Tail(q) = 1..(Len(q) - 1)
  BY <1>1, <1>2
<1>5. \A i \in 1..(Len(q) - 1) : Tail(q)[i] = q[i + 1]
  BY <1>1
<1> QED
  BY <1>1, <1>2, <1>3, <1>4, <1>5 DEF Items

\* ... which leaves the others ...
LEMMA NeatTail ==
  ASSUME NEW q \in Seq(Nat), q # <<>>, NEW n \in Nat, Neat(q, n)
  PROVE  /\ Tail(q) \in Seq(Nat) /\ Len(Tail(q)) = Len(q) - 1 /\ Len(q) \in Nat /\ Head(q) \in Items(q)
         /\ Neat(Tail(q), n) /\ Items(Tail(q)) = Items(q) \ {Head(q)} /\ Head(q) \in 1..n /\ Head(q) \in Nat
<1> DEFINE t == Tail(q)
           h == Head(q)
<1>0. t \in Seq(Nat) /\ Len(t) = Len(q) - 1 /\ h \in Nat
  BY TakeHead
<1>1. /\ Len(q) \in Nat /\ Len(q) >= 1 /\ h \in Items(q) /\ h = q[1]
      /\ DOMAIN q = 1..Len(q) /\ DOMAIN t = 1..(Len(q) - 1)
      /\ \A i \in 1..(Len(q) - 1) : t[i] = q[i + 1]
  BY TakeHead
<1> HIDE DEF t, h
<1>2. Items(t) \subseteq Items(q) \ {h}
  <2> SUFFICES ASSUME NEW i \in DOMAIN t PROVE t[i] \in Items(q) /\ t[i] # h
    BY DEF Items
  <2>1. i + 1 \in DOMAIN q /\ i + 1 # 1 /\ 1 \in DOMAIN q /\ t[i] = q[i + 1]
    BY <1>1
  <2> QED
    BY <1>1, <2>1, Zenon DEF Items, Neat, Distinct
<1>3. Items(q) \ {h} \subseteq Items(t)
  <2> SUFFICES ASSUME NEW i \in DOMAIN q, q[i] # h PROVE q[i] \in Items(t)
    BY DEF Items
  <2>1. i - 1 \in DOMAIN t /\ i - 1 \in 1..(Len(q) - 1) /\ (i - 1) + 1 = i
    BY <1>1
  <2>2. t[i - 1] = q[i]
    BY <1>1, <2>1
  <2> QED
    BY <2>1, <2>2 DEF Items
<1>4. Distinct(t)
  <2> SUFFICES ASSUME NEW i \in DOMAIN t, NEW j \in DOMAIN t, t[i] = t[j] PROVE i = j
    BY DEF Distinct
  <2>1. i \in 1..(Len(q) - 1) /\ j \in 1..(Len(q) - 1) /\ i + 1 \in DOMAIN q /\ j + 1 \in DOMAIN q
    BY <1>1
  <2>2. q[i + 1] = q[j + 1]
    BY <1>1, <2>1
  <2>3. i + 1 = j + 1
    BY <2>1, <2>2 DEF Neat, Distinct
  <2> QED
    BY <2>1, <2>3
<1> QED
  BY <1>0, <1>1, <1>2, <1>3, <1>4 DEF Neat, t, h

\* ... and a datagram is put at the end of a queue it is not in.
LEMMA PutLast ==
  ASSUME NEW q \in Seq(Nat), NEW d \in Nat
  PROVE  /\ Append(q, d) \in Seq(Nat) /\ Len(Append(q, d)) = Len(q) + 1
         /\ DOMAIN q = 1..Len(q) /\ DOMAIN Append(q, d) = 1..(Len(q) + 1) /\ Len(q) \in Nat
         /\ \A i \in 1..Len(q) : Append(q, d)[i] = q[i]
         /\ Append(q, d)[Len(q) + 1] = d
<1>1. Append(q, d) \in Seq(Nat) /\ Len(Append(q, d)) = Len(q) + 1 /\ Len(q) \in Nat
  OBVIOUS
<1>2. DOMAIN q = 1..Len(q) /\ DOMAIN Append(q, d) = 1..(Len(q) + 1)
  BY <1>1
<1>3. \A i \in 1..Len(q) : Append(q, d)[i] = q[i]
  OBVIOUS
<1>4. Append(q, d)[Len(q) + 1] = d
  OBVIOUS
<1> QED
  BY <1>1, <1>2, <1>3, <1>4

\* A datagram that is not in a queue is put at its end.
LEMMA NeatAppend ==
  ASSUME NEW q \in Seq(Nat), NEW n \in Nat, NEW d \in 1..n, Neat(q, n), d \notin Items(q)
  PROVE  /\ Neat(Append(q, d), n) /\ Items(Append(q, d)) = Items(q) \cup {d}
         /\ Append(q, d) \in Seq(Nat) /\ Len(Append(q, d)) = Len(q) + 1 /\ Len(q) \in Nat
<1> DEFINE t == Append(q, d)
<1>0. d \in Nat
  OBVIOUS
<1>7. t \in Seq(Nat) /\ Len(t) = Len(q) + 1
  BY <1>0, PutLast
<1>1. /\ DOMAIN q = 1..Len(q) /\ DOMAIN t = 1..(Len(q) + 1) /\ Len(q) \in Nat
      /\ \A i \in 1..Len(q) : t[i] = q[i]
      /\ t[Len(q) + 1] = d
  BY <1>0, PutLast
<1> HIDE DEF t
<1>2. \A i \in DOMAIN t : i \in DOMAIN q \/ i = Len(q) + 1
  BY <1>1
<1>3. \A i \in DOMAIN q : i \in DOMAIN t /\ t[i] = q[i]
  BY <1>1
<1>4. Len(q) + 1 \in DOMAIN t
  BY <1>1
<1>5. Items(t) = Items(q) \cup {d}
  BY <1>1, <1>2, <1>3, <1>4 DEF Items
<1>6. Distinct(t)
  <2> SUFFICES ASSUME NEW i \in DOMAIN t, NEW j \in DOMAIN t, t[i] = t[j] PROVE i = j
    BY DEF Distinct
  <2>1. CASE i \in DOMAIN q /\ j \in DOMAIN q
    BY <2>1, <1>3 DEF Neat, Distinct
  <2>2. CASE i \in DOMAIN q /\ j = Len(q) + 1
    BY <2>2, <1>1, <1>3 DEF Items
  <2>3. CASE j \in DOMAIN q /\ i = Len(q) + 1
    BY <2>3, <1>1, <1>3 DEF Items
  <2> QED
    BY <1>2, <2>1, <2>2, <2>3
<1> QED
  BY <1>1, <1>5, <1>6, <1>7 DEF Neat, t

-----------------------------------------------------------------------------
\* A leg in which nothing happens stays sound.
LEMMA OtherLeg ==
  ASSUME NEW l \in Legs, LegSound(l),
         heard'[l] = heard[l], held'[l] = held[l], next'[l] = next[l], sendQ'[l] = sendQ[l],
         merged'[l] = merged[l], recvQ'[l] = recvQ[l], done'[l] = done[l], dropped'[l] = dropped[l],
         mixing'[l] = mixing[l], egress'[l] = egress[l], out'[l] = out[l]
  PROVE  LegSound(l)'
<1>1. Bounded(l)' /\ InTurn(l)' /\ AllNeat(l)'
  BY DEF LegSound, Bounded, InTurn, AllNeat
<1>2. \A x \in Places : \A d \in 1..heard[l] : At(l, x, d)' <=> At(l, x, d)
  BY DEF At, Inside, Outside
<1>3. Placed(l)'
  BY <1>2 DEF LegSound, Placed
<1>4. Striped(l)'
  <2>1. \A k \in Stations, p \in Paths : <<k, p>> \in Places
    BY DEF Places
  <2> QED
    BY <1>2, <2>1 DEF LegSound, Striped
<1> QED
  BY <1>1, <1>3, <1>4 DEF LegSound

\* Datagram e of leg l goes from place X to place Y, and no other moves.
Shift(l, e, X, Y) ==
  \A x \in Places : \A d \in 1..heard[l] :
    At(l, x, d)' <=> ((x = Y /\ d = e) \/ (At(l, x, d) /\ ~(x = X /\ d = e)))

\* Then every datagram still has one place, if e was in X, and each is in the path
\* whose turn it was, if e is.
LEMMA Shifted ==
  ASSUME NEW l \in Legs, NEW e \in 1..heard[l], NEW X \in Places, NEW Y \in Places,
         Placed(l), Striped(l), At(l, X, e), Shift(l, e, X, Y), heard'[l] = heard[l],
         \A k \in Stations, p \in Paths : Y = <<k, p>> => (e - 1) % NPaths = p
  PROVE  Placed(l)' /\ Striped(l)'
<1>1. ASSUME NEW d \in 1..heard[l] PROVE \E x \in Places : \A y \in Places : At(l, y, d)' <=> y = x
  <2>1. PICK x \in Places : \A y \in Places : At(l, y, d) <=> y = x
    BY DEF Placed
  <2>2. CASE d = e
    <3>1. x = X
      BY <2>1, <2>2
    <3>2. \A y \in Places : At(l, y, d)' <=> y = Y
      BY <2>1, <2>2, <3>1 DEF Shift
    <3> QED
      BY <3>2
  <2>3. CASE d # e
    BY <2>1, <2>3 DEF Shift
  <2> QED
    BY <2>2, <2>3
<1>2. ASSUME NEW d \in 1..heard[l], NEW k \in Stations, NEW p \in Paths, At(l, <<k, p>>, d)'
      PROVE  (d - 1) % NPaths = p
  <2>1. <<k, p>> \in Places
    BY DEF Places
  <2>2. (<<k, p>> = Y /\ d = e) \/ At(l, <<k, p>>, d)
    BY <1>2, <2>1 DEF Shift
  <2> QED
    BY <2>2 DEF Striped
<1> QED
  BY <1>1, <1>2 DEF Placed, Striped

\* A place is known by its kind and its path.
LEMMA Kinds ==
  ASSUME NEW l \in Legs, NEW e, NEW k1, NEW p1, NEW k2, NEW p2,
         \A k \in Stations, p \in Paths : \A d \in 1..heard[l] :
           Inside(l, k, p, d)' <=>
             ((k = k2 /\ p = p2 /\ d = e) \/ (Inside(l, k, p, d) /\ ~(k = k1 /\ p = p1 /\ d = e))),
         \A k \in Rest : \A d \in 1..heard[l] :
           Outside(l, k, d)' <=>
             ((k = k2 /\ p2 = 0 /\ d = e) \/ (Outside(l, k, d) /\ ~(k = k1 /\ p1 = 0 /\ d = e)))
  PROVE  Shift(l, e, <<k1, p1>>, <<k2, p2>>)
<1> SUFFICES ASSUME NEW x \in Places, NEW d \in 1..heard[l]
             PROVE  At(l, x, d)' <=>
                      ((x = <<k2, p2>> /\ d = e) \/ (At(l, x, d) /\ ~(x = <<k1, p1>> /\ d = e)))
  BY DEF Shift
<1>1. Rest \cap Stations = {}
  BY DEF Rest, Stations
<1>2. CASE x \in Stations \X Paths
  <2>1. PICK k \in Stations, p \in Paths : x = <<k, p>>
    BY <1>2
  <2>2. (At(l, x, d)' <=> Inside(l, k, p, d)') /\ (At(l, x, d) <=> Inside(l, k, p, d))
    BY <2>1 DEF At
  <2> QED
    BY <2>1, <2>2
<1>3. CASE x \in Rest \X {0}
  <2>1. PICK k \in Rest : x = <<k, 0>>
    BY <1>3
  <2>2. (At(l, x, d)' <=> Outside(l, k, d)') /\ (At(l, x, d) <=> Outside(l, k, d))
    BY <1>1, <2>1 DEF At
  <2> QED
    BY <2>1, <2>2
<1> QED
  BY <1>2, <1>3 DEF Places, Rest

\* A datagram is not in two places.
LEMMA Once ==
  ASSUME NEW l \in Legs, Placed(l), NEW d \in 1..heard[l], NEW x \in Places, NEW y \in Places,
         At(l, x, d), At(l, y, d)
  PROVE  x = y
BY DEF Placed

\* What is at one place is at no other.
LEMMA NotElsewhere ==
  ASSUME NEW l \in Legs, Placed(l), NEW e \in 1..heard[l], NEW x \in Places, At(l, x, e)
  PROVE  /\ \A k \in Rest : <<k, 0>> # x => ~Outside(l, k, e)
         /\ \A k \in Stations, p \in Paths : <<k, p>> # x => ~Inside(l, k, p, e)
<1>1. ASSUME NEW k \in Rest, <<k, 0>> # x, Outside(l, k, e) PROVE FALSE
  <2>1. <<k, 0>> \in Places /\ At(l, <<k, 0>>, e)
    BY <1>1 DEF Places, At, Rest, Stations
  <2> QED
    BY <1>1, <2>1, Once
<1>2. ASSUME NEW k \in Stations, NEW p \in Paths, <<k, p>> # x, Inside(l, k, p, e) PROVE FALSE
  <2>1. <<k, p>> \in Places /\ At(l, <<k, p>>, e)
    BY <1>2 DEF Places, At
  <2> QED
    BY <1>2, <2>1, Once
<1> QED
  BY <1>1, <1>2

\* What is known of a leg.
LEMMA AtLeg ==
  ASSUME RelaySound, NEW l \in Legs
  PROVE  /\ heard[l] \in Nat /\ held[l] \in Nat /\ next[l] \in Nat /\ dropped[l] \in SUBSET Nat
         /\ sendQ[l] \in Seq(Nat) /\ merged[l] \in Seq(Nat) /\ recvQ[l] \in Seq(Nat) /\ done[l] \in Seq(Nat)
         /\ \A p \in Paths :
              mixing[l][p] \in SUBSET Nat /\ egress[l][p] \in Seq(Nat) /\ out[l][p] \in Seq(Nat)
         /\ Bounded(l) /\ InTurn(l) /\ AllNeat(l) /\ Placed(l) /\ Striped(l)
<1>1. /\ heard[l] \in Nat /\ held[l] \in Nat /\ next[l] \in Nat /\ dropped[l] \in SUBSET Nat
      /\ sendQ[l] \in Seq(Nat) /\ merged[l] \in Seq(Nat) /\ recvQ[l] \in Seq(Nat) /\ done[l] \in Seq(Nat)
  BY DEF RelaySound, RelayTypes
<1>2. \A p \in Paths :
        mixing[l][p] \in SUBSET Nat /\ egress[l][p] \in Seq(Nat) /\ out[l][p] \in Seq(Nat)
  BY DEF RelaySound, RelayTypes
<1> QED
  BY <1>1, <1>2 DEF RelaySound, LegSound

\* A step of one leg.
LEMMA OneLeg ==
  ASSUME RelaySound, NEW l \in Legs, RelayTypes', LegSound(l)', Known',
         \A m \in Legs \ {l} :
           /\ heard'[m] = heard[m] /\ held'[m] = held[m] /\ next'[m] = next[m] /\ sendQ'[m] = sendQ[m]
           /\ merged'[m] = merged[m] /\ recvQ'[m] = recvQ[m] /\ done'[m] = done[m]
           /\ dropped'[m] = dropped[m] /\ mixing'[m] = mixing[m] /\ egress'[m] = egress[m] /\ out'[m] = out[m]
  PROVE  RelaySound'
<1>1. ASSUME NEW m \in Legs, m # l PROVE LegSound(m)'
  <2>1. LegSound(m)
    BY DEF RelaySound
  <2> QED
    BY <1>1, <2>1, OtherLeg
<1> QED
  BY <1>1 DEF RelaySound

\* One path of one leg is changed.
LEMMA PathUpdate ==
  ASSUME NEW S, NEW f \in [Legs -> [Paths -> S]], NEW l \in Legs, NEW p \in Paths, NEW v \in S
  PROVE  [f EXCEPT ![l] = [f[l] EXCEPT ![p] = v]] \in [Legs -> [Paths -> S]]
OBVIOUS

\* Substrate::send, once there is room.
LEMMA EnqueueSound ==
  ASSUME RelaySound, NEW l \in Legs, Enqueue(l)
  PROVE  RelaySound'
<1> DEFINE e == held[l]
<1>1. /\ heard' = heard /\ next' = next /\ mixing' = mixing /\ egress' = egress /\ out' = out
      /\ merged' = merged /\ recvQ' = recvQ /\ dropped' = dropped /\ done' = done
      /\ client_addr' = client_addr /\ sentTo' = sentTo /\ from' = from
      /\ sendQ' = [sendQ EXCEPT ![l] = Append(sendQ[l], e)] /\ held' = [held EXCEPT ![l] = 0]
      /\ e # 0 /\ Len(sendQ[l]) < Depth /\ (l = "up" => src = None)
  BY DEF Enqueue, Learned
<1>2. /\ heard[l] \in Nat /\ e = heard[l] /\ e \in 1..heard[l] /\ e \in Nat /\ sendQ[l] \in Seq(Nat)
      /\ Bounded(l) /\ InTurn(l) /\ AllNeat(l) /\ Placed(l) /\ Striped(l)
  BY <1>1, AtLeg DEF InTurn
<1> HIDE DEF e
<1>3. sendQ'[l] = Append(sendQ[l], e) /\ held'[l] = 0
      /\ \A m \in Legs \ {l} : sendQ'[m] = sendQ[m] /\ held'[m] = held[m]
  BY <1>1 DEF RelaySound, RelayTypes
<1>4. <<"held", 0>> \in Places /\ <<"sendQ", 0>> \in Places /\ At(l, <<"held", 0>>, e)
  BY DEF Places, At, Outside, Stations, e
<1>5. e \notin Items(sendQ[l])
  <2>1. ~Outside(l, "sendQ", e)
    BY <1>2, <1>4, NotElsewhere DEF Rest
  <2> QED
    BY <2>1 DEF Outside
<1>6. Neat(sendQ'[l], heard[l]) /\ Items(sendQ'[l]) = Items(sendQ[l]) \cup {e}
  BY <1>2, <1>3, <1>5, NeatAppend DEF AllNeat
<1>7. /\ Append(sendQ[l], e) \in Seq(Nat) /\ Len(sendQ'[l]) = Len(sendQ[l]) + 1
      /\ DOMAIN sendQ[l] = 1..Len(sendQ[l]) /\ DOMAIN sendQ'[l] = 1..(Len(sendQ[l]) + 1) /\ Len(sendQ[l]) \in Nat
      /\ \A i \in 1..Len(sendQ[l]) : sendQ'[l][i] = sendQ[l][i]
      /\ sendQ'[l][Len(sendQ[l]) + 1] = e
  BY <1>2, <1>3, PutLast
<1>8. RelayTypes'
  BY <1>1, <1>7 DEF RelaySound, RelayTypes
<1>9. Shift(l, e, <<"held", 0>>, <<"sendQ", 0>>)
  <2>1. \A k \in Stations, p \in Paths : \A d \in 1..heard[l] :
          /\ Inside(l, k, p, d)' <=> Inside(l, k, p, d)
          /\ k # "held" /\ k # "sendQ"
    BY <1>1 DEF Inside, Stations
  <2>2. \A k \in Rest : \A d \in 1..heard[l] :
          Outside(l, k, d)' <=>
            ((k = "sendQ" /\ d = e) \/ (Outside(l, k, d) /\ ~(k = "held" /\ d = e)))
    BY <1>1, <1>3, <1>6 DEF Outside, Rest, e
  <2> QED
    BY <2>1, <2>2, Kinds
<1>10. Placed(l)' /\ Striped(l)'
  <2>1. \A k \in Stations, p \in Paths : <<"sendQ", 0>> # <<k, p>>
    BY DEF Stations
  <2> QED
    BY <1>1, <1>2, <1>4, <1>9, <2>1, Shifted
<1>11. Bounded(l)' /\ AllNeat(l)'
  <2>1. Len(sendQ'[l]) <= Depth
    BY <1>1, <1>7, Bounds
  <2> QED
    BY <1>1, <1>2, <1>6, <2>1 DEF Bounded, AllNeat
<1>12. InTurn(l)'
  <2>1. next[l] \in Nat /\ next[l] + Len(sendQ[l]) + 1 = heard[l]
    BY <1>1, <1>2, AtLeg DEF InTurn, e
  <2>2. \A i \in DOMAIN sendQ'[l] : sendQ'[l][i] = next[l] + i
    <3>1. \A i \in 1..Len(sendQ[l]) : sendQ[l][i] = next[l] + i
      BY <1>2, <1>7 DEF InTurn
    <3> SUFFICES ASSUME NEW i \in DOMAIN sendQ'[l] PROVE sendQ'[l][i] = next[l] + i
      OBVIOUS
    <3>2. CASE i \in 1..Len(sendQ[l])
      BY <1>7, <3>1, <3>2
    <3>3. CASE i = Len(sendQ[l]) + 1
      BY <1>2, <1>7, <2>1, <3>3
    <3> QED
      BY <1>7, <3>2, <3>3
  <2> QED
    BY <1>1, <1>3, <1>7, <2>1, <2>2 DEF InTurn
<1>13. Known'
  <2>1. src' = src /\ srcs' = srcs /\ (src # None => held'["up"] = held["up"])
    BY <1>1, <1>3 DEF from, Legs
  <2> QED
    BY <1>1, <2>1 DEF Known, RelaySound
<1> QED
  BY <1>1, <1>3, <1>8, <1>10, <1>11, <1>12, <1>13, OneLeg DEF LegSound

\* The send pump hands the next datagram to the path whose turn it is.
LEMMA PumpSound ==
  ASSUME RelaySound, NEW l \in Legs, Pump(l)
  PROVE  RelaySound'
<1> DEFINE e == Head(sendQ[l])
           t == Tail(sendQ[l])
           q == next[l] % NPaths
<1>1. /\ heard' = heard /\ held' = held /\ egress' = egress /\ out' = out
      /\ merged' = merged /\ recvQ' = recvQ /\ dropped' = dropped /\ done' = done
      /\ client_addr' = client_addr /\ sentTo' = sentTo /\ from' = from
      /\ sendQ' = [sendQ EXCEPT ![l] = t] /\ next' = [next EXCEPT ![l] = next[l] + 1]
      /\ mixing' = [mixing EXCEPT ![l] = [mixing[l] EXCEPT ![q] = mixing[l][q] \cup {e}]]
      /\ sendQ[l] # <<>>
  BY DEF Pump, Turn
<1>2. /\ heard[l] \in Nat /\ next[l] \in Nat /\ sendQ[l] \in Seq(Nat)
      /\ Bounded(l) /\ InTurn(l) /\ AllNeat(l) /\ Placed(l) /\ Striped(l)
  BY AtLeg
<1>3. q \in Paths
  <2>1. \A a \in Nat : a % NPaths \in 0..(NPaths - 1)
    BY Bounds
  <2> QED
    BY <1>2, <2>1, Zenon DEF Paths
<1>4. /\ t \in Seq(Nat) /\ Len(t) = Len(sendQ[l]) - 1 /\ Len(sendQ[l]) \in Nat /\ Len(sendQ[l]) >= 1
      /\ e \in Items(sendQ[l]) /\ e = sendQ[l][1] /\ e \in Nat
      /\ DOMAIN sendQ[l] = 1..Len(sendQ[l]) /\ DOMAIN t = 1..(Len(sendQ[l]) - 1)
      /\ \A i \in 1..(Len(sendQ[l]) - 1) : t[i] = sendQ[l][i + 1]
  BY <1>1, <1>2, TakeHead
<1>5. Neat(t, heard[l]) /\ Items(t) = Items(sendQ[l]) \ {e} /\ e \in 1..heard[l]
  BY <1>1, <1>2, NeatTail DEF AllNeat
<1>6. e = next[l] + 1 /\ (e - 1) % NPaths = q
  <2>1. sendQ[l][1] = next[l] + 1
    BY <1>2, <1>4 DEF InTurn
  <2>2. e - 1 = next[l]
    BY <1>2, <1>4, <2>1
  <2> QED
    BY <1>4, <2>1, <2>2
<1> HIDE DEF e, t, q
<1>7. /\ sendQ'[l] = t /\ next'[l] = next[l] + 1 /\ mixing'[l][q] = mixing[l][q] \cup {e}
      /\ \A p \in Paths \ {q} : mixing'[l][p] = mixing[l][p]
      /\ \A m \in Legs \ {l} : sendQ'[m] = sendQ[m] /\ next'[m] = next[m] /\ mixing'[m] = mixing[m]
  BY <1>1, <1>3 DEF RelaySound, RelayTypes
<1>8. RelayTypes'
  <2>1. mixing \in [Legs -> [Paths -> SUBSET Nat]] /\ mixing[l][q] \cup {e} \in SUBSET Nat
    BY <1>3, <1>4, AtLeg, Zenon DEF RelaySound, RelayTypes
  <2>2. mixing' \in [Legs -> [Paths -> SUBSET Nat]]
    BY <1>1, <1>3, <2>1, PathUpdate
  <2>3. next' \in [Legs -> Nat] /\ sendQ' \in [Legs -> Seq(Nat)]
    <3>1. next \in [Legs -> Nat] /\ next[l] + 1 \in Nat
      BY <1>2 DEF RelaySound, RelayTypes
    <3>2. sendQ \in [Legs -> Seq(Nat)]
      BY DEF RelaySound, RelayTypes
    <3> QED
      BY <1>1, <1>4, <3>1, <3>2
  <2> QED
    BY <1>1, <2>2, <2>3, Zenon DEF RelaySound, RelayTypes
<1>9. <<"sendQ", 0>> \in Places /\ <<"mixing", q>> \in Places /\ At(l, <<"sendQ", 0>>, e)
  BY <1>3, <1>4 DEF Places, At, Outside, Stations
<1>10. Shift(l, e, <<"sendQ", 0>>, <<"mixing", q>>)
  <2>1. \A k \in Stations, p \in Paths : \A d \in 1..heard[l] :
          Inside(l, k, p, d)' <=> ((k = "mixing" /\ p = q /\ d = e) \/ Inside(l, k, p, d))
    BY <1>1, <1>7 DEF Inside, Stations
  <2>2. \A k \in Rest : \A d \in 1..heard[l] :
          Outside(l, k, d)' <=> (Outside(l, k, d) /\ ~(k = "sendQ" /\ d = e))
    BY <1>1, <1>5, <1>7 DEF Outside, Rest
  <2>3. "sendQ" \notin Stations /\ "mixing" \notin Rest
    BY DEF Stations, Rest
  <2> QED
    BY <2>1, <2>2, <2>3, Kinds
<1>11. Placed(l)' /\ Striped(l)'
  BY <1>1, <1>2, <1>5, <1>6, <1>9, <1>10, Shifted
<1>12. Bounded(l)' /\ AllNeat(l)'
  <2>1. Len(sendQ'[l]) <= Depth
    <3>1. Len(sendQ[l]) <= Depth
      BY <1>2 DEF Bounded
    <3> QED
      BY <1>4, <1>7, <3>1, Bounds
  <2>2. \A p \in Paths : mixing'[l][p] \subseteq 1..heard[l]
    <3>1. \A p \in Paths : mixing[l][p] \subseteq 1..heard[l]
      BY <1>2 DEF AllNeat
    <3> QED
      BY <1>3, <1>5, <1>7, <3>1
  <2> QED
    BY <1>1, <1>2, <1>5, <1>7, <2>1, <2>2 DEF Bounded, AllNeat
<1>13. InTurn(l)'
  <2> DEFINE n == next[l]
             g == Len(sendQ[l])
  <2>0. n \in Nat /\ g \in Nat /\ g >= 1 /\ Len(t) = g - 1
    BY <1>2, <1>4
  <2>1. \A i \in DOMAIN t : i \in 1..(g - 1) /\ t[i] = sendQ[l][i + 1]
    BY <1>4, Zenon
  <2>2. \A i \in 1..g : sendQ[l][i] = n + i
    BY <1>2, <1>4 DEF InTurn
  <2> HIDE DEF n, g
  <2>3. \A i \in DOMAIN t : t[i] = (n + 1) + i
    <3> SUFFICES ASSUME NEW i \in DOMAIN t PROVE t[i] = (n + 1) + i
      OBVIOUS
    <3>1. i \in Nat /\ i + 1 \in 1..g /\ t[i] = sendQ[l][i + 1]
      BY <2>0, <2>1
    <3>2. sendQ[l][i + 1] = n + (i + 1)
      BY <2>2, <3>1
    <3> QED
      BY <2>0, <3>1, <3>2
  <2>4. n + g = (n + 1) + Len(t)
    BY <2>0
  <2>5. next'[l] = n + 1 /\ sendQ'[l] = t
    BY <1>7 DEF n
  <2>6. /\ held[l] # 0 => held[l] = heard[l]
        /\ n + g + (IF held[l] = 0 THEN 0 ELSE 1) = heard[l]
    BY <1>2 DEF InTurn, n, g
  <2>7. (n + 1) + Len(t) + (IF held[l] = 0 THEN 0 ELSE 1) = heard[l]
    BY <2>4, <2>6
  <2> QED
    BY <1>1, <2>3, <2>5, <2>6, <2>7 DEF InTurn
<1>14. Known'
  BY <1>1 DEF Known, RelaySound, from
<1> QED
  BY <1>1, <1>7, <1>8, <1>11, <1>12, <1>13, <1>14, OneLeg DEF LegSound

\* Every other step takes a datagram from one place behind the send pump to another.
LEMMA Moves ==
  ASSUME RelaySound, NEW l \in Legs, NEW e \in 1..heard[l], NEW X \in Places, NEW Y \in Places,
         At(l, X, e), Shift(l, e, X, Y),
         \A k \in Stations, p \in Paths : Y = <<k, p>> => (e - 1) % NPaths = p,
         RelayTypes', Bounded(l)', AllNeat(l)',
         heard' = heard, held' = held, next' = next, sendQ' = sendQ,
         client_addr' = client_addr, from' = from,
         \A m \in Legs \ {l} :
           /\ merged'[m] = merged[m] /\ recvQ'[m] = recvQ[m] /\ done'[m] = done[m]
           /\ dropped'[m] = dropped[m] /\ mixing'[m] = mixing[m] /\ egress'[m] = egress[m] /\ out'[m] = out[m]
  PROVE  RelaySound'
<1>1. LegSound(l)'
  <2>1. Placed(l)' /\ Striped(l)'
    BY AtLeg, Shifted
  <2>2. InTurn(l)'
    BY AtLeg DEF InTurn
  <2> QED
    BY <2>1, <2>2 DEF LegSound
<1>2. Known'
  BY DEF Known, RelaySound, from
<1> QED
  BY <1>1, <1>2, OneLeg

\* Stage 1 of the emulator drops a datagram, ...
Dropped(l, p, e) ==
  /\ mixing' = [mixing EXCEPT ![l] = [mixing[l] EXCEPT ![p] = mixing[l][p] \ {e}]]
  /\ dropped' = [dropped EXCEPT ![l] = dropped[l] \cup {e}]
  /\ UNCHANGED <<client_addr, heard, held, sendQ, next, egress, out, merged, recvQ, done, sentTo, from>>
LEMMA DropSound ==
  ASSUME RelaySound, NEW l \in Legs, NEW p \in Paths, NEW e \in mixing[l][p],
         Dropped(l, p, e)
  PROVE  RelaySound'
<1>0. /\ mixing' = [mixing EXCEPT ![l] = [mixing[l] EXCEPT ![p] = mixing[l][p] \ {e}]]
      /\ dropped' = [dropped EXCEPT ![l] = dropped[l] \cup {e}]
      /\ client_addr' = client_addr /\ heard' = heard /\ held' = held /\ sendQ' = sendQ /\ next' = next
      /\ egress' = egress /\ out' = out /\ merged' = merged /\ recvQ' = recvQ /\ done' = done
      /\ sentTo' = sentTo /\ from' = from
  BY DEF Dropped
<1>1. /\ heard[l] \in Nat /\ e \in 1..heard[l] /\ e \in Nat /\ dropped[l] \in SUBSET Nat
      /\ mixing[l][p] \ {e} \in SUBSET Nat
      /\ Bounded(l) /\ InTurn(l) /\ AllNeat(l) /\ Placed(l) /\ Striped(l)
  BY AtLeg DEF AllNeat
<1>2. /\ mixing'[l][p] = mixing[l][p] \ {e} /\ \A q \in Paths \ {p} : mixing'[l][q] = mixing[l][q]
      /\ dropped'[l] = dropped[l] \cup {e}
      /\ \A m \in Legs \ {l} : mixing'[m] = mixing[m] /\ dropped'[m] = dropped[m]
  BY <1>0 DEF RelaySound, RelayTypes
<1>3. RelayTypes'
  <2>1. mixing' \in [Legs -> [Paths -> SUBSET Nat]]
    BY <1>0, <1>1, PathUpdate DEF RelaySound, RelayTypes
  <2>2. dropped' \in [Legs -> SUBSET Nat]
    BY <1>0, <1>1, Zenon DEF RelaySound, RelayTypes
  <2> QED
    BY <1>0, <2>1, <2>2, Zenon DEF RelaySound, RelayTypes
<1>4. <<"mixing", p>> \in Places /\ <<"dropped", 0>> \in Places /\ At(l, <<"mixing", p>>, e)
  BY DEF Places, At, Inside, Stations
<1>5. Shift(l, e, <<"mixing", p>>, <<"dropped", 0>>)
  <2>1. \A k \in Stations, q \in Paths : \A d \in 1..heard[l] :
          Inside(l, k, q, d)' <=> (Inside(l, k, q, d) /\ ~(k = "mixing" /\ q = p /\ d = e))
    BY <1>0, <1>2 DEF Inside, Stations
  <2>2. \A k \in Rest : \A d \in 1..heard[l] :
          Outside(l, k, d)' <=> ((k = "dropped" /\ d = e) \/ Outside(l, k, d))
    BY <1>0, <1>2 DEF Outside, Rest
  <2>3. "dropped" \notin Stations /\ "mixing" \notin Rest
    BY DEF Stations, Rest
  <2> QED
    BY <2>1, <2>2, <2>3, Kinds
<1>6. Bounded(l)' /\ AllNeat(l)'
  BY <1>0, <1>1, <1>2 DEF Bounded, AllNeat
<1>7. \A k \in Stations, q \in Paths : <<"dropped", 0>> # <<k, q>>
  BY DEF Stations
<1> QED
  BY <1>0, <1>1, <1>2, <1>3, <1>4, <1>5, <1>6, <1>7, Moves

\* ... or it passes to the egress buffer of a paced path, ...
Pushed(l, p, e) ==
  /\ Len(egress[l][p]) < MaxQueue
  /\ mixing' = [mixing EXCEPT ![l] = [mixing[l] EXCEPT ![p] = mixing[l][p] \ {e}]]
  /\ egress' = [egress EXCEPT ![l] = [egress[l] EXCEPT ![p] = Append(egress[l][p], e)]]
  /\ UNCHANGED <<client_addr, heard, held, sendQ, next, out, merged, recvQ, dropped, done, sentTo, from>>
LEMMA PushedSound ==
  ASSUME RelaySound, NEW l \in Legs, NEW p \in Paths, NEW e \in mixing[l][p],
         Pushed(l, p, e)
  PROVE  RelaySound'
<1>0. /\ mixing' = [mixing EXCEPT ![l] = [mixing[l] EXCEPT ![p] = mixing[l][p] \ {e}]]
      /\ egress' = [egress EXCEPT ![l] = [egress[l] EXCEPT ![p] = Append(egress[l][p], e)]]
      /\ Len(egress[l][p]) < MaxQueue /\ client_addr' = client_addr /\ heard' = heard /\ held' = held /\ sendQ' = sendQ
      /\ next' = next /\ out' = out /\ merged' = merged /\ recvQ' = recvQ /\ dropped' = dropped
      /\ done' = done /\ sentTo' = sentTo /\ from' = from
  BY DEF Pushed
<1> DEFINE b == egress[l][p]
           t == Append(b, e)
<1>1. /\ heard[l] \in Nat /\ e \in 1..heard[l] /\ e \in Nat /\ b \in Seq(Nat)
      /\ mixing[l][p] \ {e} \in SUBSET Nat
      /\ Bounded(l) /\ InTurn(l) /\ AllNeat(l) /\ Placed(l) /\ Striped(l)
  BY AtLeg DEF AllNeat
<1>2. <<"mixing", p>> \in Places /\ <<"egress", p>> \in Places /\ At(l, <<"mixing", p>>, e)
  BY DEF Places, At, Inside, Stations
<1>3. e \notin Items(b)
  <2>1. ~Inside(l, "egress", p, e)
    BY <1>1, <1>2, NotElsewhere DEF Stations
  <2> QED
    BY <2>1 DEF Inside
<1>4. Neat(t, heard[l]) /\ Items(t) = Items(b) \cup {e} /\ t \in Seq(Nat) /\ Len(t) = Len(b) + 1 /\ Len(b) \in Nat
  BY <1>1, <1>3, NeatAppend DEF AllNeat
<1> HIDE DEF t
<1>5. /\ mixing'[l][p] = mixing[l][p] \ {e} /\ \A q \in Paths \ {p} : mixing'[l][q] = mixing[l][q]
      /\ egress'[l][p] = t /\ \A q \in Paths \ {p} : egress'[l][q] = egress[l][q]
      /\ \A m \in Legs \ {l} : mixing'[m] = mixing[m] /\ egress'[m] = egress[m]
  BY <1>0 DEF RelaySound, RelayTypes, t
<1>6. RelayTypes'
  <2>1. mixing' \in [Legs -> [Paths -> SUBSET Nat]]
    BY <1>0, <1>1, PathUpdate DEF RelaySound, RelayTypes
  <2>2. egress' \in [Legs -> [Paths -> Seq(Nat)]]
    BY <1>0, <1>4, PathUpdate DEF RelaySound, RelayTypes, t
  <2> QED
    BY <1>0, <2>1, <2>2 DEF RelaySound, RelayTypes
<1>7. Shift(l, e, <<"mixing", p>>, <<"egress", p>>)
  <2>1. \A k \in Stations, q \in Paths : \A d \in 1..heard[l] :
          Inside(l, k, q, d)' <=>
            ((k = "egress" /\ q = p /\ d = e) \/ (Inside(l, k, q, d) /\ ~(k = "mixing" /\ q = p /\ d = e)))
    <3>1. \A q \in Paths : \A d \in 1..heard[l] :
            /\ d \in mixing'[l][q] <=> (d \in mixing[l][q] /\ ~(q = p /\ d = e))
            /\ d \in Items(egress'[l][q]) <=> ((q = p /\ d = e) \/ d \in Items(egress[l][q]))
      BY <1>4, <1>5
    <3> QED
      BY <1>0, <3>1 DEF Inside, Stations
  <2>2. \A k \in Rest : \A d \in 1..heard[l] : Outside(l, k, d)' <=> Outside(l, k, d)
    BY <1>0 DEF Outside, Rest
  <2>3. "egress" \notin Rest /\ "mixing" \notin Rest
    BY DEF Rest
  <2> QED
    BY <2>1, <2>2, <2>3, Kinds
<1>8. Bounded(l)' /\ AllNeat(l)'
  <2>1. \A q \in Paths : /\ Len(egress'[l][q]) <= MaxQueue /\ Neat(egress'[l][q], heard[l])
                         /\ mixing'[l][q] \subseteq 1..heard[l]
    <3>1. Len(t) <= MaxQueue
      BY <1>0, <1>4, Bounds
    <3>2. \A q \in Paths : /\ Len(egress[l][q]) <= MaxQueue /\ Neat(egress[l][q], heard[l])
                           /\ mixing[l][q] \subseteq 1..heard[l]
      BY <1>0, <1>1 DEF Bounded, AllNeat
    <3> QED
      BY <1>4, <1>5, <3>1, <3>2, Zenon
  <2> QED
    BY <1>0, <1>1, <2>1 DEF Bounded, AllNeat
<1>9. \A k \in Stations, q \in Paths : <<"egress", p>> = <<k, q>> => (e - 1) % NPaths = q
  BY <1>1, <1>2 DEF Striped, Stations
<1> QED
  BY <1>0, <1>1, <1>2, <1>5, <1>6, <1>7, <1>8, <1>9, Moves

\* ... or leaves a path without slots.
Passed(l, p, e) ==
  /\ mixing' = [mixing EXCEPT ![l] = [mixing[l] EXCEPT ![p] = mixing[l][p] \ {e}]]
  /\ out' = [out EXCEPT ![l] = [out[l] EXCEPT ![p] = Append(out[l][p], e)]]
  /\ UNCHANGED <<client_addr, heard, held, sendQ, next, egress, merged, recvQ, dropped, done, sentTo, from>>
LEMMA PassedSound ==
  ASSUME RelaySound, NEW l \in Legs, NEW p \in Paths, NEW e \in mixing[l][p],
         Passed(l, p, e)
  PROVE  RelaySound'
<1>0. /\ mixing' = [mixing EXCEPT ![l] = [mixing[l] EXCEPT ![p] = mixing[l][p] \ {e}]]
      /\ out' = [out EXCEPT ![l] = [out[l] EXCEPT ![p] = Append(out[l][p], e)]]
      /\ client_addr' = client_addr /\ heard' = heard /\ held' = held /\ sendQ' = sendQ /\ next' = next
      /\ egress' = egress /\ merged' = merged /\ recvQ' = recvQ /\ dropped' = dropped /\ done' = done
      /\ sentTo' = sentTo /\ from' = from
  BY DEF Passed
<1> DEFINE b == out[l][p]
           t == Append(b, e)
<1>1. /\ heard[l] \in Nat /\ e \in 1..heard[l] /\ e \in Nat /\ b \in Seq(Nat)
      /\ mixing[l][p] \ {e} \in SUBSET Nat
      /\ Bounded(l) /\ InTurn(l) /\ AllNeat(l) /\ Placed(l) /\ Striped(l)
  BY AtLeg DEF AllNeat
<1>2. <<"mixing", p>> \in Places /\ <<"out", p>> \in Places /\ At(l, <<"mixing", p>>, e)
  BY DEF Places, At, Inside, Stations
<1>3. e \notin Items(b)
  <2>1. ~Inside(l, "out", p, e)
    BY <1>1, <1>2, NotElsewhere DEF Stations
  <2> QED
    BY <2>1 DEF Inside
<1>4. Neat(t, heard[l]) /\ Items(t) = Items(b) \cup {e} /\ t \in Seq(Nat)
  BY <1>1, <1>3, NeatAppend, Zenon DEF AllNeat
<1> HIDE DEF t
<1>5. /\ mixing'[l][p] = mixing[l][p] \ {e} /\ \A q \in Paths \ {p} : mixing'[l][q] = mixing[l][q]
      /\ out'[l][p] = t /\ \A q \in Paths \ {p} : out'[l][q] = out[l][q]
      /\ \A m \in Legs \ {l} : mixing'[m] = mixing[m] /\ out'[m] = out[m]
  BY <1>0 DEF RelaySound, RelayTypes, t
<1>6. RelayTypes'
  <2>1. mixing' \in [Legs -> [Paths -> SUBSET Nat]]
    BY <1>0, <1>1, PathUpdate DEF RelaySound, RelayTypes
  <2>2. out' \in [Legs -> [Paths -> Seq(Nat)]]
    BY <1>0, <1>4, PathUpdate DEF RelaySound, RelayTypes, t
  <2> QED
    BY <1>0, <2>1, <2>2, Zenon DEF RelaySound, RelayTypes
<1>7. Shift(l, e, <<"mixing", p>>, <<"out", p>>)
  <2>1. \A k \in Stations, q \in Paths : \A d \in 1..heard[l] :
          Inside(l, k, q, d)' <=>
            ((k = "out" /\ q = p /\ d = e) \/ (Inside(l, k, q, d) /\ ~(k = "mixing" /\ q = p /\ d = e)))
    <3>1. \A q \in Paths : \A d \in 1..heard[l] :
            /\ d \in mixing'[l][q] <=> (d \in mixing[l][q] /\ ~(q = p /\ d = e))
            /\ d \in Items(out'[l][q]) <=> ((q = p /\ d = e) \/ d \in Items(out[l][q]))
      BY <1>4, <1>5
    <3> QED
      BY <1>0, <3>1 DEF Inside, Stations
  <2>2. \A k \in Rest : \A d \in 1..heard[l] : Outside(l, k, d)' <=> Outside(l, k, d)
    BY <1>0 DEF Outside, Rest
  <2>3. "out" \notin Rest /\ "mixing" \notin Rest
    BY DEF Rest
  <2> QED
    BY <2>1, <2>2, <2>3, Kinds
<1>8. Bounded(l)' /\ AllNeat(l)'
  <2>1. \A q \in Paths : Neat(out'[l][q], heard[l]) /\ mixing'[l][q] \subseteq 1..heard[l]
    <3>1. \A q \in Paths : Neat(out[l][q], heard[l]) /\ mixing[l][q] \subseteq 1..heard[l]
      BY <1>1 DEF AllNeat
    <3> QED
      BY <1>4, <1>5, <3>1
  <2> QED
    BY <1>0, <1>1, <2>1 DEF Bounded, AllNeat
<1>9. \A k \in Stations, q \in Paths : <<"out", p>> = <<k, q>> => (e - 1) % NPaths = q
  BY <1>1, <1>2 DEF Striped, Stations
<1> QED
  BY <1>0, <1>1, <1>2, <1>5, <1>6, <1>7, <1>8, <1>9, Moves, Zenon

\* Stage 2 of the emulator: a slot sends the oldest datagram of the buffer.
LEMMA TickSound ==
  ASSUME RelaySound, NEW l \in Legs, NEW p \in Paths, Tick(l, p)
  PROVE  RelaySound'
<1>0. /\ out' = [out EXCEPT ![l] = [out[l] EXCEPT ![p] = Append(out[l][p], Head(egress[l][p]))]]
      /\ egress' = [egress EXCEPT ![l] = [egress[l] EXCEPT ![p] = Tail(egress[l][p])]]
      /\ egress[l][p] # <<>>
      /\ client_addr' = client_addr /\ heard' = heard /\ held' = held /\ sendQ' = sendQ /\ next' = next
      /\ mixing' = mixing /\ merged' = merged /\ recvQ' = recvQ /\ dropped' = dropped /\ done' = done
      /\ sentTo' = sentTo /\ from' = from
  BY DEF Tick
<1> DEFINE a == egress[l][p]
           e == Head(a)
           u == Tail(a)
           b == out[l][p]
           t == Append(b, e)
<1>1. /\ heard[l] \in Nat /\ a \in Seq(Nat) /\ b \in Seq(Nat)
      /\ Bounded(l) /\ InTurn(l) /\ AllNeat(l) /\ Placed(l) /\ Striped(l)
      /\ Neat(a, heard[l]) /\ Neat(b, heard[l])
  BY AtLeg DEF AllNeat
<1>2. /\ u \in Seq(Nat) /\ Len(u) = Len(a) - 1 /\ Len(a) \in Nat
      /\ e \in Items(a) /\ Neat(u, heard[l]) /\ Items(u) = Items(a) \ {e} /\ e \in 1..heard[l] /\ e \in Nat
  BY <1>0, <1>1, NeatTail
<1> HIDE DEF e, u
<1>3. <<"egress", p>> \in Places /\ <<"out", p>> \in Places /\ At(l, <<"egress", p>>, e)
  BY <1>2 DEF Places, At, Inside, Stations
<1>4. e \notin Items(b)
  <2>1. ~Inside(l, "out", p, e)
    BY <1>1, <1>2, <1>3, NotElsewhere DEF Stations
  <2> QED
    BY <2>1 DEF Inside
<1>5. Neat(t, heard[l]) /\ Items(t) = Items(b) \cup {e} /\ t \in Seq(Nat)
  BY <1>1, <1>2, <1>4, NeatAppend
<1> HIDE DEF t
<1>6. /\ egress'[l][p] = u /\ \A q \in Paths \ {p} : egress'[l][q] = egress[l][q]
      /\ out'[l][p] = t /\ \A q \in Paths \ {p} : out'[l][q] = out[l][q]
      /\ \A m \in Legs \ {l} : egress'[m] = egress[m] /\ out'[m] = out[m]
  BY <1>0 DEF RelaySound, RelayTypes, t, u, e
<1>7. RelayTypes'
  <2>1. egress' \in [Legs -> [Paths -> Seq(Nat)]]
    BY <1>0, <1>2, PathUpdate DEF RelaySound, RelayTypes, u
  <2>2. out' \in [Legs -> [Paths -> Seq(Nat)]]
    BY <1>0, <1>5, PathUpdate DEF RelaySound, RelayTypes, t, e
  <2> QED
    BY <1>0, <2>1, <2>2, Zenon DEF RelaySound, RelayTypes
<1>8. Shift(l, e, <<"egress", p>>, <<"out", p>>)
  <2>1. \A k \in Stations, q \in Paths : \A d \in 1..heard[l] :
          Inside(l, k, q, d)' <=>
            ((k = "out" /\ q = p /\ d = e) \/ (Inside(l, k, q, d) /\ ~(k = "egress" /\ q = p /\ d = e)))
    <3>1. \A q \in Paths : \A d \in 1..heard[l] :
            /\ d \in Items(egress'[l][q]) <=> (d \in Items(egress[l][q]) /\ ~(q = p /\ d = e))
            /\ d \in Items(out'[l][q]) <=> ((q = p /\ d = e) \/ d \in Items(out[l][q]))
      BY <1>2, <1>5, <1>6
    <3> QED
      BY <1>0, <3>1 DEF Inside, Stations
  <2>2. \A k \in Rest : \A d \in 1..heard[l] : Outside(l, k, d)' <=> Outside(l, k, d)
    BY <1>0 DEF Outside, Rest
  <2>3. "out" \notin Rest /\ "egress" \notin Rest
    BY DEF Rest
  <2> QED
    BY <2>1, <2>2, <2>3, Kinds
<1>9. Bounded(l)' /\ AllNeat(l)'
  <2>1. \A q \in Paths : Neat(out'[l][q], heard[l]) /\ Neat(egress'[l][q], heard[l])
    <3>1. \A q \in Paths : Neat(out[l][q], heard[l]) /\ Neat(egress[l][q], heard[l])
      BY <1>1, Zenon DEF AllNeat
    <3> QED
      BY <1>2, <1>5, <1>6, <3>1
  <2>2. \A q \in Paths : Len(egress'[l][q]) <= MaxQueue
    <3>1. \A q \in Paths : Len(egress[l][q]) <= MaxQueue
      BY <1>0, <1>1 DEF Bounded
    <3>2. Len(u) <= MaxQueue
      BY <1>2, <3>1, Bounds
    <3>3. \A q \in Paths : egress'[l][q] = u \/ egress'[l][q] = egress[l][q]
      BY <1>6, Zenon
    <3> QED
      BY <3>1, <3>2, <3>3, Zenon
  <2> QED
    BY <1>0, <1>1, <2>1, <2>2 DEF Bounded, AllNeat
<1>10. \A k \in Stations, q \in Paths : <<"out", p>> = <<k, q>> => (e - 1) % NPaths = q
  BY <1>1, <1>2, <1>3 DEF Striped, Stations
<1>11. e \in 1..heard[l]
  BY <1>2
<1>12. \A m \in Legs \ {l} :
         /\ merged'[m] = merged[m] /\ recvQ'[m] = recvQ[m] /\ done'[m] = done[m]
         /\ dropped'[m] = dropped[m] /\ mixing'[m] = mixing[m] /\ egress'[m] = egress[m] /\ out'[m] = out[m]
  BY <1>0, <1>6
<1> QED
  BY <1>0, <1>3, <1>7, <1>8, <1>9, <1>10, <1>11, <1>12, Moves

\* The task of a path hands what it received to the striped transport.
LEMMA MergeSound ==
  ASSUME RelaySound, NEW l \in Legs, NEW p \in Paths, Merge(l, p)
  PROVE  RelaySound'
<1>0. /\ merged' = [merged EXCEPT ![l] = Append(merged[l], Head(out[l][p]))]
      /\ out' = [out EXCEPT ![l] = [out[l] EXCEPT ![p] = Tail(out[l][p])]]
      /\ out[l][p] # <<>>
      /\ client_addr' = client_addr /\ heard' = heard /\ held' = held /\ sendQ' = sendQ /\ next' = next
      /\ mixing' = mixing /\ egress' = egress /\ recvQ' = recvQ /\ dropped' = dropped /\ done' = done
      /\ sentTo' = sentTo /\ from' = from
  BY DEF Merge
<1> DEFINE a == out[l][p]
           e == Head(a)
           u == Tail(a)
           t == Append(merged[l], e)
<1>1. /\ heard[l] \in Nat /\ a \in Seq(Nat) /\ merged[l] \in Seq(Nat)
      /\ Bounded(l) /\ InTurn(l) /\ AllNeat(l) /\ Placed(l) /\ Striped(l)
      /\ Neat(a, heard[l]) /\ Neat(merged[l], heard[l])
  BY AtLeg, Zenon DEF AllNeat
<1>2. /\ u \in Seq(Nat) /\ e \in Items(a) /\ Neat(u, heard[l]) /\ Items(u) = Items(a) \ {e}
      /\ e \in 1..heard[l] /\ e \in Nat
  BY <1>0, <1>1, NeatTail
<1> HIDE DEF e, u
<1>3. <<"out", p>> \in Places /\ <<"merged", 0>> \in Places /\ At(l, <<"out", p>>, e)
  BY <1>2 DEF Places, At, Inside, Stations
<1>4. e \notin Items(merged[l])
  <2>1. ~Outside(l, "merged", e)
    BY <1>1, <1>2, <1>3, NotElsewhere DEF Rest
  <2> QED
    BY <2>1 DEF Outside
<1>5. Neat(t, heard[l]) /\ Items(t) = Items(merged[l]) \cup {e} /\ t \in Seq(Nat)
  BY <1>1, <1>2, <1>4, NeatAppend
<1> HIDE DEF t
<1>6. /\ out'[l][p] = u /\ \A q \in Paths \ {p} : out'[l][q] = out[l][q]
      /\ merged'[l] = t
      /\ \A m \in Legs \ {l} : merged'[m] = merged[m] /\ out'[m] = out[m]
  BY <1>0 DEF RelaySound, RelayTypes, t, u, e
<1>7. RelayTypes'
  <2>1. out' \in [Legs -> [Paths -> Seq(Nat)]]
    BY <1>0, <1>2, PathUpdate DEF RelaySound, RelayTypes, u
  <2>2. merged' \in [Legs -> Seq(Nat)]
    BY <1>0, <1>5 DEF RelaySound, RelayTypes, t, e
  <2> QED
    BY <1>0, <2>1, <2>2, Zenon DEF RelaySound, RelayTypes
<1>8. Shift(l, e, <<"out", p>>, <<"merged", 0>>)
  <2>1. \A k \in Stations, q \in Paths : \A d \in 1..heard[l] :
          Inside(l, k, q, d)' <=> (Inside(l, k, q, d) /\ ~(k = "out" /\ q = p /\ d = e))
    <3>1. \A q \in Paths : \A d \in 1..heard[l] :
            d \in Items(out'[l][q]) <=> (d \in Items(out[l][q]) /\ ~(q = p /\ d = e))
      BY <1>2, <1>6
    <3> QED
      BY <1>0, <3>1 DEF Inside, Stations
  <2>2. \A k \in Rest : \A d \in 1..heard[l] :
          Outside(l, k, d)' <=> ((k = "merged" /\ d = e) \/ Outside(l, k, d))
    <3>1. \A d \in 1..heard[l] : d \in Items(merged'[l]) <=> (d = e \/ d \in Items(merged[l]))
      BY <1>5, <1>6
    <3> QED
      BY <1>0, <3>1 DEF Outside, Rest
  <2>3. "merged" \notin Stations /\ "out" \notin Rest
    BY DEF Stations, Rest
  <2> QED
    BY <2>1, <2>2, <2>3, Kinds
<1>9. Bounded(l)' /\ AllNeat(l)'
  <2>1. \A q \in Paths : Neat(out'[l][q], heard[l])
    <3>1. \A q \in Paths : Neat(out[l][q], heard[l])
      BY <1>1 DEF AllNeat
    <3> QED
      BY <1>2, <1>6, <3>1
  <2> QED
    BY <1>0, <1>1, <1>5, <1>6, <2>1, Zenon DEF Bounded, AllNeat
<1>10. \A k \in Stations, q \in Paths : <<"merged", 0>> # <<k, q>>
  BY DEF Stations
<1>11. e \in 1..heard[l]
  BY <1>2
<1>12. \A m \in Legs \ {l} :
         /\ merged'[m] = merged[m] /\ recvQ'[m] = recvQ[m] /\ done'[m] = done[m]
         /\ dropped'[m] = dropped[m] /\ mixing'[m] = mixing[m] /\ egress'[m] = egress[m] /\ out'[m] = out[m]
  BY <1>0, <1>6
<1> QED
  BY <1>0, <1>3, <1>7, <1>8, <1>9, <1>10, <1>11, <1>12, Moves

\* The receive pump of the boundary, while there is room.
LEMMA ReceiveSound ==
  ASSUME RelaySound, NEW l \in Legs, Receive(l)
  PROVE  RelaySound'
<1> DEFINE a == merged[l]
           e == Head(a)
           u == Tail(a)
           t == Append(recvQ[l], e)
<1>0. /\ a # <<>> /\ Len(recvQ[l]) < Depth
      /\ recvQ' = [recvQ EXCEPT ![l] = t] /\ merged' = [merged EXCEPT ![l] = u]
      /\ client_addr' = client_addr /\ heard' = heard /\ held' = held /\ sendQ' = sendQ /\ next' = next
      /\ mixing' = mixing /\ egress' = egress /\ out' = out /\ dropped' = dropped /\ done' = done
      /\ sentTo' = sentTo /\ from' = from
  BY DEF Receive
<1>1. /\ heard[l] \in Nat /\ a \in Seq(Nat) /\ recvQ[l] \in Seq(Nat)
      /\ Bounded(l) /\ InTurn(l) /\ AllNeat(l) /\ Placed(l) /\ Striped(l)
      /\ Neat(a, heard[l]) /\ Neat(recvQ[l], heard[l])
  BY AtLeg DEF AllNeat
<1>2. /\ u \in Seq(Nat) /\ e \in Items(a) /\ Neat(u, heard[l]) /\ Items(u) = Items(a) \ {e}
      /\ e \in 1..heard[l] /\ e \in Nat
  BY <1>0, <1>1, NeatTail
<1> HIDE DEF e, u
<1>3. <<"merged", 0>> \in Places /\ <<"recvQ", 0>> \in Places /\ At(l, <<"merged", 0>>, e)
  BY <1>2 DEF Places, At, Outside, Stations
<1>4. e \notin Items(recvQ[l])
  <2>1. ~Outside(l, "recvQ", e)
    BY <1>1, <1>2, <1>3, NotElsewhere DEF Rest
  <2> QED
    BY <2>1 DEF Outside
<1>5. /\ Neat(t, heard[l]) /\ Items(t) = Items(recvQ[l]) \cup {e} /\ t \in Seq(Nat)
      /\ Len(t) = Len(recvQ[l]) + 1 /\ Len(recvQ[l]) \in Nat
  BY <1>1, <1>2, <1>4, NeatAppend
<1> HIDE DEF t
<1>6. /\ merged'[l] = u /\ recvQ'[l] = t
      /\ \A m \in Legs \ {l} : merged'[m] = merged[m] /\ recvQ'[m] = recvQ[m]
  BY <1>0 DEF RelaySound, RelayTypes
<1>7. RelayTypes'
  <2>1. merged' \in [Legs -> Seq(Nat)] /\ recvQ' \in [Legs -> Seq(Nat)]
    BY <1>0, <1>2, <1>5 DEF RelaySound, RelayTypes
  <2> QED
    BY <1>0, <2>1 DEF RelaySound, RelayTypes
<1>8. Shift(l, e, <<"merged", 0>>, <<"recvQ", 0>>)
  <2>1. \A k \in Stations, q \in Paths : \A d \in 1..heard[l] : Inside(l, k, q, d)' <=> Inside(l, k, q, d)
    BY <1>0, Zenon DEF Inside, Stations
  <2>2. \A k \in Rest : \A d \in 1..heard[l] :
          Outside(l, k, d)' <=>
            ((k = "recvQ" /\ d = e) \/ (Outside(l, k, d) /\ ~(k = "merged" /\ d = e)))
    <3>1. \A d \in 1..heard[l] :
            /\ d \in Items(recvQ'[l]) <=> (d = e \/ d \in Items(recvQ[l]))
            /\ d \in Items(merged'[l]) <=> (d # e /\ d \in Items(merged[l]))
      BY <1>2, <1>5, <1>6
    <3>2. ASSUME NEW k \in Rest, NEW d \in 1..heard[l]
          PROVE  Outside(l, k, d)' <=>
                   ((k = "recvQ" /\ d = e) \/ (Outside(l, k, d) /\ ~(k = "merged" /\ d = e)))
      BY <1>0, <3>1 DEF Outside, Rest
    <3> QED
      BY <3>2
  <2>3. "merged" \notin Stations /\ "recvQ" \notin Stations
    BY DEF Stations
  <2> QED
    BY <2>1, <2>2, <2>3, Kinds
<1>9. Bounded(l)' /\ AllNeat(l)'
  <2>1. Len(recvQ'[l]) <= Depth
    <3>1. Len(recvQ[l]) < Depth /\ recvQ'[l] = t
      BY <1>0, <1>6
    <3> QED
      <4>1. Len(recvQ[l]) \in Nat /\ Len(t) = Len(recvQ[l]) + 1
        BY <1>5
      <4> QED
        BY <3>1, <4>1, Bounds
  <2> QED
    BY <1>0, <1>1, <1>2, <1>5, <1>6, <2>1, Zenon DEF Bounded, AllNeat
<1>10. \A k \in Stations, q \in Paths : <<"recvQ", 0>> # <<k, q>>
  BY DEF Stations
<1>11. e \in 1..heard[l]
  BY <1>2
<1> QED
  BY <1>0, <1>3, <1>6, <1>7, <1>8, <1>9, <1>10, <1>11, Moves, Zenon

\* The task behind the boundary sends a datagram on.
LEMMA DeliverSound ==
  ASSUME RelaySound, NEW l \in Legs, Deliver(l)
  PROVE  RelaySound'
<1> DEFINE a == recvQ[l]
           e == Head(a)
           u == Tail(a)
           t == Append(done[l], e)
<1>0. /\ a # <<>>
      /\ recvQ' = [recvQ EXCEPT ![l] = u] /\ done' = [done EXCEPT ![l] = t]
      /\ sentTo' = IF l = "down" THEN Append(sentTo, client_addr) ELSE sentTo
      /\ client_addr' = client_addr /\ heard' = heard /\ held' = held /\ sendQ' = sendQ /\ next' = next
      /\ mixing' = mixing /\ egress' = egress /\ out' = out /\ dropped' = dropped /\ merged' = merged
      /\ from' = from
  BY DEF Deliver
<1>1. /\ heard[l] \in Nat /\ a \in Seq(Nat) /\ done[l] \in Seq(Nat)
      /\ Bounded(l) /\ InTurn(l) /\ AllNeat(l) /\ Placed(l) /\ Striped(l)
      /\ Neat(a, heard[l]) /\ Neat(done[l], heard[l])
  BY AtLeg DEF AllNeat
<1>2. /\ u \in Seq(Nat) /\ Len(u) = Len(a) - 1 /\ Len(a) \in Nat
      /\ e \in Items(a) /\ Neat(u, heard[l]) /\ Items(u) = Items(a) \ {e} /\ e \in 1..heard[l] /\ e \in Nat
  BY <1>0, <1>1, NeatTail
<1> HIDE DEF e, u
<1>3. <<"recvQ", 0>> \in Places /\ <<"done", 0>> \in Places /\ At(l, <<"recvQ", 0>>, e)
  BY <1>2, Zenon DEF Places, At, Outside, Stations
<1>4. e \notin Items(done[l])
  <2>1. ~Outside(l, "done", e)
    BY <1>1, <1>2, <1>3, NotElsewhere DEF Rest
  <2> QED
    BY <2>1 DEF Outside
<1>5. Neat(t, heard[l]) /\ Items(t) = Items(done[l]) \cup {e} /\ t \in Seq(Nat)
  BY <1>1, <1>2, <1>4, NeatAppend
<1> HIDE DEF t
<1>6. /\ recvQ'[l] = u /\ done'[l] = t
      /\ \A m \in Legs \ {l} : recvQ'[m] = recvQ[m] /\ done'[m] = done[m]
  BY <1>0 DEF RelaySound, RelayTypes
<1>7. RelayTypes'
  <2>1. done' \in [Legs -> Seq(Nat)] /\ recvQ' \in [Legs -> Seq(Nat)]
    BY <1>0, <1>2, <1>5 DEF RelaySound, RelayTypes
  <2>2. sentTo' \in Seq(Addrs \cup {None})
    BY <1>0 DEF RelaySound, RelayTypes
  <2> QED
    BY <1>0, <2>1, <2>2 DEF RelaySound, RelayTypes
<1>8. Shift(l, e, <<"recvQ", 0>>, <<"done", 0>>)
  <2>1. \A k \in Stations, q \in Paths : \A d \in 1..heard[l] : Inside(l, k, q, d)' <=> Inside(l, k, q, d)
    BY <1>0 DEF Inside, Stations
  <2>2. \A k \in Rest : \A d \in 1..heard[l] :
          Outside(l, k, d)' <=>
            ((k = "done" /\ d = e) \/ (Outside(l, k, d) /\ ~(k = "recvQ" /\ d = e)))
    <3>1. \A d \in 1..heard[l] :
            /\ d \in Items(done'[l]) <=> (d = e \/ d \in Items(done[l]))
            /\ d \in Items(recvQ'[l]) <=> (d # e /\ d \in Items(recvQ[l]))
      BY <1>2, <1>5, <1>6
    <3>2. ASSUME NEW k \in Rest, NEW d \in 1..heard[l]
          PROVE  Outside(l, k, d)' <=>
                   ((k = "done" /\ d = e) \/ (Outside(l, k, d) /\ ~(k = "recvQ" /\ d = e)))
      BY <1>0, <3>1 DEF Outside, Rest
    <3> QED
      BY <3>2
  <2>3. "done" \notin Stations /\ "recvQ" \notin Stations
    BY DEF Stations
  <2> QED
    BY <2>1, <2>2, <2>3, Kinds
<1>9. Bounded(l)' /\ AllNeat(l)'
  <2>1. Len(recvQ'[l]) <= Depth
    <3>1. Len(a) <= Depth /\ recvQ'[l] = u
      BY <1>1, <1>6 DEF Bounded
    <3> QED
      BY <1>2, <3>1, Bounds
  <2> QED
    BY <1>0, <1>1, <1>2, <1>5, <1>6, <2>1, Zenon DEF Bounded, AllNeat
<1>10. \A k \in Stations, q \in Paths : <<"done", 0>> # <<k, q>>
  BY DEF Stations
<1>11. e \in 1..heard[l]
  BY <1>2
<1> QED
  BY <1>0, <1>3, <1>6, <1>7, <1>8, <1>9, <1>10, <1>11, Moves

\* recv_from of a leg's task.
QueuesRest == UNCHANGED <<sendQ, next, mixing, egress, out, merged, recvQ, dropped, done, sentTo>>
LEMMA HearsSound ==
  ASSUME RelaySound, NEW l \in Legs, Hears(l), Known', client_addr' \in Addrs \cup {None}, QueuesRest
  PROVE  RelaySound'
<1> DEFINE n == heard[l]
<1>0. /\ held[l] = 0 /\ n < Offers(l)
      /\ heard' = [heard EXCEPT ![l] = n + 1] /\ held' = [held EXCEPT ![l] = n + 1]
      /\ sendQ' = sendQ /\ next' = next /\ mixing' = mixing /\ egress' = egress /\ out' = out
      /\ merged' = merged /\ recvQ' = recvQ /\ dropped' = dropped /\ done' = done /\ sentTo' = sentTo
  BY DEF Hears, QueuesRest
<1>1. /\ n \in Nat /\ Bounded(l) /\ InTurn(l) /\ AllNeat(l) /\ Placed(l) /\ Striped(l)
      /\ next[l] \in Nat /\ sendQ[l] \in Seq(Nat)
  BY AtLeg
<1>2. /\ heard'[l] = n + 1 /\ held'[l] = n + 1
      /\ \A m \in Legs \ {l} : heard'[m] = heard[m] /\ held'[m] = held[m]
  BY <1>0 DEF RelaySound, RelayTypes
<1>3. RelayTypes'
  <2>1. heard' \in [Legs -> Nat] /\ held' \in [Legs -> Nat]
    BY <1>0, <1>1 DEF RelaySound, RelayTypes
  <2> QED
    BY <1>0, <2>1 DEF RelaySound, RelayTypes
<1> HIDE DEF n
<1>4. Bounded(l)' /\ AllNeat(l)' /\ InTurn(l)'
  <2>1. Bounded(l)'
    <3>1. n + 1 <= Offers(l)
      BY <1>0, <1>1, Bounds DEF Offers
    <3> QED
      BY <1>0, <1>1, <1>2, <3>1, Zenon DEF Bounded
  <2>2. \A q : Neat(q, n) => Neat(q, n + 1)
    BY <1>1 DEF Neat
  <2>3. 1..n \subseteq 1..(n + 1)
    BY <1>1
  <2>4. AllNeat(l)'
    BY <1>0, <1>1, <1>2, <2>2, <2>3, Zenon DEF AllNeat, n
  <2>5. InTurn(l)'
    <3>1. next[l] + Len(sendQ[l]) = n
      <4>1. held[l] = 0 /\ next[l] + Len(sendQ[l]) + (IF held[l] = 0 THEN 0 ELSE 1) = n
        BY <1>0, <1>1, Zenon DEF InTurn, n
      <4>2. Len(sendQ[l]) \in Nat /\ next[l] \in Nat
        BY <1>1
      <4> QED
        BY <4>1, <4>2
    <3> QED
      <4>1. next'[l] + Len(sendQ'[l]) + (IF held'[l] = 0 THEN 0 ELSE 1) = heard'[l]
        <5>1. n + (IF n + 1 = 0 THEN 0 ELSE 1) = n + 1
          BY <1>1
        <5> QED
          BY <1>0, <1>2, <3>1, <5>1
      <4> QED
        BY <1>0, <1>1, <1>2, <4>1, Zenon DEF InTurn
  <2> QED
    BY <2>1, <2>4, <2>5
<1>5. \A k \in Stations, p \in Paths : \A d \in 1..(n + 1) :
        (Inside(l, k, p, d)' <=> Inside(l, k, p, d)) /\ (Inside(l, k, p, d) => d \in 1..n)
  <2>1. \A k \in Stations, p \in Paths : \A d : Inside(l, k, p, d)' <=> Inside(l, k, p, d)
    BY <1>0 DEF Inside
  <2>2. \A k \in Stations, p \in Paths : \A d : Inside(l, k, p, d) => d \in 1..n
    BY <1>1 DEF Inside, AllNeat, Neat, n
  <2> QED
    BY <2>1, <2>2
<1>6. \A k \in Rest : \A d \in 1..(n + 1) :
        Outside(l, k, d)' <=> IF d = n + 1 THEN k = "held" ELSE Outside(l, k, d)
  <2>1. \A k \in Rest : \A d \in 1..(n + 1) : Outside(l, k, d) => d \in 1..n
    <3>1. \A d : (\/ d \in Items(sendQ[l]) \/ d \in Items(merged[l]) \/ d \in Items(recvQ[l])
                  \/ d \in dropped[l] \/ d \in Items(done[l])) => d \in 1..n
      BY <1>1, Zenon DEF AllNeat, Neat, n
    <3>2. \A d \in 1..(n + 1) : d # held[l]
      <4>1. held[l] = 0
        BY <1>0
      <4> QED
        BY <1>1, <4>1
    <3> QED
      BY <3>1, <3>2, Zenon DEF Outside
  <2>2. \A k \in Rest : \A d \in 1..(n + 1) :
          Outside(l, k, d)' <=> IF k = "held" THEN d = n + 1 ELSE Outside(l, k, d)
    <3>1. /\ held'[l] = n + 1 /\ sendQ'[l] = sendQ[l] /\ merged'[l] = merged[l] /\ recvQ'[l] = recvQ[l]
          /\ dropped'[l] = dropped[l] /\ done'[l] = done[l]
      BY <1>0, <1>2
    <3>2. ASSUME NEW k \in Rest, NEW d \in 1..(n + 1)
          PROVE  Outside(l, k, d)' <=> IF k = "held" THEN d = n + 1 ELSE Outside(l, k, d)
      BY <3>1 DEF Outside, Rest
    <3> QED
      BY <3>2
  <2>3. \A d \in 1..(n + 1) : ~Outside(l, "held", d)
    <3>1. held[l] = 0
      BY <1>0
    <3>2. \A d \in 1..(n + 1) : d # 0
      BY <1>1
    <3>3. \A d : Outside(l, "held", d) => d = held[l]
      BY DEF Outside
    <3> QED
      BY <3>1, <3>2, <3>3, Zenon
  <2>4. n + 1 \notin 1..n /\ n + 1 \in 1..(n + 1)
    BY <1>1
  <2> QED
    BY <2>1, <2>2, <2>3, <2>4
<1>7. \A x \in Places : \A d \in 1..(n + 1) :
        At(l, x, d)' <=> IF d = n + 1 THEN x = <<"held", 0>> ELSE At(l, x, d)
  <2> SUFFICES ASSUME NEW x \in Places, NEW d \in 1..(n + 1)
               PROVE  At(l, x, d)' <=> IF d = n + 1 THEN x = <<"held", 0>> ELSE At(l, x, d)
    OBVIOUS
  <2>0. n + 1 \notin 1..n
    BY <1>1
  <2>1. CASE x \in Stations \X Paths
    <3>1. PICK k \in Stations, p \in Paths : x = <<k, p>>
      BY <2>1
    <3>2. (At(l, x, d)' <=> Inside(l, k, p, d)') /\ (At(l, x, d) <=> Inside(l, k, p, d)) /\ k # "held"
      BY <3>1 DEF At, Stations
    <3> QED
      BY <1>5, <2>0, <3>1, <3>2
  <2>2. CASE x \in Rest \X {0}
    <3>1. PICK k \in Rest : x = <<k, 0>>
      BY <2>2
    <3>2. (At(l, x, d)' <=> Outside(l, k, d)') /\ (At(l, x, d) <=> Outside(l, k, d))
      BY <3>1 DEF At, Stations, Rest
    <3> QED
      BY <1>6, <3>1, <3>2
  <2> QED
    BY <2>1, <2>2 DEF Places, Rest
<1>8. Placed(l)' /\ Striped(l)'
  <2>1. ASSUME NEW d \in 1..(n + 1) PROVE \E x \in Places : \A y \in Places : At(l, y, d)' <=> y = x
    <3>1. CASE d = n + 1
      <4>1. <<"held", 0>> \in Places
        BY DEF Places
      <4> QED
        BY <1>7, <3>1, <4>1
    <3>2. CASE d # n + 1
      <4>1. d \in 1..heard[l]
        BY <1>1, <3>2 DEF n
      <4> QED
        BY <1>1, <1>7, <3>2, <4>1 DEF Placed
    <3> QED
      BY <3>1, <3>2
  <2>2. ASSUME NEW d \in 1..(n + 1), NEW k \in Stations, NEW p \in Paths, At(l, <<k, p>>, d)'
        PROVE  (d - 1) % NPaths = p
    <3>1. At(l, <<k, p>>, d)' <=> Inside(l, k, p, d)'
      BY DEF At
    <3>2. Inside(l, k, p, d) /\ d \in 1..n
      BY <1>5, <2>2, <3>1
    <3>3. At(l, <<k, p>>, d)
      BY <3>2 DEF At
    <3> QED
      BY <1>1, <3>2, <3>3, Zenon DEF Striped, n
  <2> QED
    BY <1>2, <2>1, <2>2 DEF Placed, Striped
<1> QED
  BY <1>0, <1>2, <1>3, <1>4, <1>8, OneLeg, Zenon DEF LegSound

-----------------------------------------------------------------------------
\* The relay starts with nothing heard.
LEMMA RelayStarts == RelayInit => RelaySound
<1> SUFFICES ASSUME RelayInit PROVE RelaySound
  OBVIOUS
<1> USE DEF RelayInit
<1>1. RelayTypes
  BY DEF RelayTypes
<1>2. Known
  BY DEF Known, Legs
<1>3. ASSUME NEW l \in Legs PROVE LegSound(l)
  <2>1. Offers(l) \in Nat /\ Depth \in Nat /\ MaxQueue \in Nat
    BY Bounds DEF Offers
  <2>2. Bounded(l)
    BY <2>1 DEF Bounded
  <2>3. InTurn(l)
    BY DEF InTurn
  <2>4. AllNeat(l)
    <3>1. Neat(<< >>, 0)
      BY DEF Neat, Distinct, Items
    <3> QED
      BY <3>1 DEF AllNeat
  <2>5. Placed(l) /\ Striped(l)
    BY DEF Placed, Striped
  <2> QED
    BY <2>2, <2>3, <2>4, <2>5 DEF LegSound
<1> QED
  BY <1>1, <1>2, <1>3 DEF RelaySound

\* The delay of a datagram ends.
LEMMA ReadySound ==
  ASSUME RelaySound, NEW l \in Legs, NEW p \in Paths, NEW d \in mixing[l][p], Ready(l, p, d)
  PROVE  RelaySound'
<1>1. mixing' = [mixing EXCEPT ![l] = [mixing[l] EXCEPT ![p] = mixing[l][p] \ {d}]]
  BY DEF Ready
<1>2. CASE p \notin Paced
  <2>1. /\ out' = [out EXCEPT ![l] = [out[l] EXCEPT ![p] = Append(out[l][p], d)]]
        /\ UNCHANGED <<client_addr, heard, held, sendQ, next, egress, merged, recvQ, dropped, done, sentTo, from>>
    BY <1>2 DEF Ready
  <2> QED
    BY <1>1, <2>1, PassedSound, Zenon DEF Passed
<1>3. CASE p \in Paced /\ Len(egress[l][p]) < MaxQueue
  <2>1. /\ egress' = [egress EXCEPT ![l] = [egress[l] EXCEPT ![p] = Append(egress[l][p], d)]]
        /\ UNCHANGED <<client_addr, heard, held, sendQ, next, out, merged, recvQ, done, sentTo, from>>
    BY <1>3 DEF Ready, Push
  <2>2. dropped' = dropped
    BY <1>3, Zenon DEF Ready, RelaySound, RelayTypes
  <2> QED
    BY <1>1, <1>3, <2>1, <2>2, PushedSound, Zenon DEF Pushed
<1>4. CASE p \in Paced /\ ~(Len(egress[l][p]) < MaxQueue)
  <2>1. /\ dropped' = [dropped EXCEPT ![l] = dropped[l] \cup {d}]
        /\ UNCHANGED <<client_addr, heard, held, sendQ, next, out, merged, recvQ, done, sentTo, from>>
    BY <1>4 DEF Ready
  <2>2. egress' = egress
    <3>1. egress' = [egress EXCEPT ![l] = [egress[l] EXCEPT ![p] = egress[l][p]]]
      BY <1>4 DEF Ready, Push
    <3>2. egress \in [Legs -> [Paths -> Seq(Nat)]] /\ egress[l] \in [Paths -> Seq(Nat)]
      BY DEF RelaySound, RelayTypes
    <3>3. [egress[l] EXCEPT ![p] = egress[l][p]] = egress[l]
      BY <3>2
    <3> QED
      BY <3>1, <3>2, <3>3
  <2> QED
    BY <1>1, <2>1, <2>2, DropSound, Zenon DEF Dropped
<1> QED
  BY <1>2, <1>3, <1>4

\* The address the relay knows is that of some datagram at least as late as any that
\* reached the server.
LEMMA Reached ==
  ASSUME RelaySound, NEW d \in Items(done["up"])
  PROVE  client_addr # None /\ \E k \in d..heard["up"] : srcs[k] = client_addr
<1>1. /\ "up" \in Legs /\ heard["up"] \in Nat /\ Neat(done["up"], heard["up"]) /\ Placed("up") /\ Known
  <2>1. "up" \in Legs
    BY DEF Legs
  <2> QED
    BY <2>1, AtLeg DEF AllNeat, RelaySound
<1>2. d \in 1..heard["up"]
  BY <1>1 DEF Neat
<1>3. d # held["up"]
  <2>1. At("up", <<"done", 0>>, d) /\ <<"done", 0>> \in Places /\ <<"held", 0>> \in Places
    BY DEF At, Outside, Places, Stations
  <2>2. ~At("up", <<"held", 0>>, d)
    <3>1. PICK x \in Places : \A y \in Places : At("up", y, d) <=> y = x
      BY <1>1, <1>2 DEF Placed
    <3>2. <<"done", 0>> # <<"held", 0>>
      OBVIOUS
    <3> QED
      BY <2>1, <3>1, <3>2, Zenon
  <2> QED
    BY <2>2 DEF At, Outside, Stations
<1>4. \A k \in 1..heard["up"] : srcs[k] \in Addrs /\ srcs[k] # None
  BY <1>1, Bounds DEF Known
<1>5. CASE src = None
  BY <1>1, <1>2, <1>4, <1>5 DEF Known
<1>6. CASE src # None
  <2>1. d # heard["up"]
    BY <1>1, <1>3, <1>6 DEF Known
  <2>2. heard["up"] - 1 \in 1..heard["up"] /\ heard["up"] - 1 \in d..heard["up"] /\ heard["up"] # 1
    BY <1>1, <1>2, <2>1
  <2> QED
    BY <1>1, <1>4, <1>6, <2>2 DEF Known
<1> QED
  BY <1>5, <1>6

\* Every step of the relay keeps the invariant.
LEMMA RelaySteps == RelaySound /\ [RelayNext]_relayVars => RelaySound'
<1> SUFFICES ASSUME RelaySound, [RelayNext]_relayVars PROVE RelaySound'
  OBVIOUS
<1>1. ASSUME NEW addr \in Addrs, FromClient(addr) PROVE RelaySound'
  <2>1. /\ Hears("up") /\ src = None /\ src' = addr /\ srcs' = Append(srcs, addr)
        /\ client_addr' = client_addr /\ "up" \in Legs /\ "down" \in Legs /\ QueuesRest
    BY <1>1 DEF FromClient, Legs, QueuesRest
  <2>2. /\ heard["up"] \in Nat /\ client_addr \in Addrs \cup {None} /\ Known
        /\ heard'["up"] = heard["up"] + 1 /\ held'["up"] = heard["up"] + 1 /\ heard'["down"] = heard["down"]
    BY <2>1 DEF Hears, RelaySound, RelayTypes
  <2>3. Known'
    <3>1. /\ srcs' \in Seq(Addrs) /\ Len(srcs') = heard["up"] + 1 /\ srcs'[heard["up"] + 1] = addr
          /\ \A i \in 1..heard["up"] : srcs'[i] = srcs[i]
      BY <2>1, <2>2 DEF Known
    <3>2. heard["up"] + 1 = 1 \/ client_addr' = srcs'[heard["up"] + 1 - 1]
      BY <2>1, <2>2, <3>1 DEF Known
    <3> QED
      BY <2>1, <2>2, <3>1, <3>2, Bounds DEF Known
  <2> QED
    BY <2>1, <2>2, <2>3, HearsSound
<1>2. ASSUME FromServer PROVE RelaySound'
  <2>1. /\ Hears("down") /\ client_addr' = client_addr /\ from' = from /\ "down" \in Legs /\ "up" \in Legs
        /\ done["up"] # <<>>
        /\ QueuesRest
    BY <1>2 DEF FromServer, Legs, QueuesRest
  <2>2. heard'["up"] = heard["up"] /\ held'["up"] = held["up"]
    BY <2>1 DEF Hears, RelaySound, RelayTypes
  <2>3. client_addr # None
    <3>1. done["up"] \in Seq(Nat)
      BY <2>1, AtLeg
    <3>2. Head(done["up"]) \in Items(done["up"])
      BY <2>1, <3>1, TakeHead
    <3> QED
      BY <3>2, Reached
  <2>4. Known'
    BY <2>1, <2>2, <2>3 DEF Known, RelaySound, from
  <2>5. client_addr' \in Addrs \cup {None}
    BY <2>1 DEF RelaySound, RelayTypes
  <2> QED
    BY <2>1, <2>4, <2>5, HearsSound
<1>3. ASSUME NEW l \in Legs, NEW p \in Paths, NEW d \in mixing[l][p], Drop(l, p, d) PROVE RelaySound'
  <2>1. Dropped(l, p, d)
    BY <1>3 DEF Drop, Dropped
  <2> QED
    BY <2>1, DropSound
<1>4. ASSUME NEW l \in Legs, NEW p \in Paths, PathStep(l, p) PROVE RelaySound'
  <2>1. CASE Tick(l, p)
    BY <2>1, TickSound
  <2>2. CASE Merge(l, p)
    BY <2>2, MergeSound
  <2>3. CASE \E d \in mixing[l][p] : Ready(l, p, d)
    BY <2>3, ReadySound
  <2> QED
    BY <1>4, <2>1, <2>2, <2>3 DEF PathStep
<1>5. ASSUME LearnAddr PROVE RelaySound'
  <2>1. /\ heard' = heard /\ held' = held /\ next' = next /\ sendQ' = sendQ /\ merged' = merged
        /\ recvQ' = recvQ /\ done' = done /\ dropped' = dropped /\ mixing' = mixing /\ egress' = egress
        /\ out' = out /\ sentTo' = sentTo /\ srcs' = srcs
        /\ src # None /\ client_addr' = src /\ src' = None
    BY <1>5 DEF LearnAddr, queues
  <2>2. RelayTypes' /\ Known'
    BY <2>1 DEF RelaySound, RelayTypes, Known
  <2>3. \A l \in Legs : LegSound(l)'
    BY <2>1, OtherLeg, Zenon DEF RelaySound
  <2> QED
    BY <2>2, <2>3 DEF RelaySound
<1>6. ASSUME NEW l \in Legs, LegStep(l) PROVE RelaySound'
  BY <1>4, <1>6, <1>5, EnqueueSound, PumpSound, ReceiveSound, DeliverSound DEF LegStep
<1>7. CASE UNCHANGED relayVars
  <2>1. /\ heard' = heard /\ held' = held /\ next' = next /\ sendQ' = sendQ /\ merged' = merged
        /\ recvQ' = recvQ /\ done' = done /\ dropped' = dropped /\ mixing' = mixing /\ egress' = egress
        /\ out' = out /\ client_addr' = client_addr /\ from' = from /\ sentTo' = sentTo
    BY <1>7 DEF relayVars, queues
  <2>2. RelayTypes' /\ Known'
    BY <2>1 DEF RelaySound, RelayTypes, Known, from
  <2>3. \A l \in Legs : LegSound(l)'
    BY <2>1, OtherLeg, Zenon DEF RelaySound
  <2> QED
    BY <2>2, <2>3 DEF RelaySound
<1> QED
  BY <1>1, <1>2, <1>3, <1>6, <1>7 DEF RelayNext

\* The invariant of the relay holds throughout, for any number of paths and any
\* queue bounds.
THEOREM RelayInvariant == RelaySpec => []RelaySound
<1> QED
  BY RelayStarts, RelaySteps, PTL DEF RelaySpec

\* start_relay and Striped: every datagram heard is in exactly one place, and inside
\* a path only in the one whose turn it was.
THEOREM NothingLostInTheRelay == RelaySpec => []InItsPlace
<1>1. RelaySound => InItsPlace
  <2> SUFFICES ASSUME RelaySound PROVE InItsPlace
    OBVIOUS
  <2>1. RelayTypeOK
    <3>1. ASSUME NEW l \in Legs PROVE heard[l] \in 0..Offers(l) /\ held[l] \in 0..heard[l]
      <4>1. Offers(l) \in Nat
        BY Bounds DEF Offers
      <4> QED
        <5>1. heard[l] \in Nat /\ heard[l] <= Offers(l) /\ held[l] \in Nat /\ (held[l] # 0 => held[l] = heard[l])
          BY AtLeg DEF Bounded, InTurn
        <5> QED
          BY <4>1, <5>1
    <3>2. \A l \in Legs : Len(sendQ[l]) <= Depth /\ Len(recvQ[l]) <= Depth
      BY AtLeg, Zenon DEF Bounded
    <3>3. \A l \in Legs, p \in Paths : Len(egress[l][p]) <= MaxQueue /\ mixing[l][p] \subseteq 1..heard[l]
      BY AtLeg DEF Bounded, AllNeat
    <3> QED
      BY <3>1, <3>2, <3>3 DEF RelayTypeOK, RelaySound, RelayTypes
  <2>2. Conserved
    BY AtLeg, Zenon DEF Conserved, Placed, AllNeat, Neat
  <2>3. RoundRobin
    <3> SUFFICES ASSUME NEW l \in Legs, NEW p \in Paths, NEW d \in 1..heard[l],
                        NEW k \in Stations, Inside(l, k, p, d)
                 PROVE  (d - 1) % NPaths = p
      BY DEF RoundRobin
    <3>1. At(l, <<k, p>>, d)
      BY DEF At
    <3> QED
      BY <3>1, AtLeg, Zenon DEF Striped
  <2> QED
    BY <2>1, <2>2, <2>3 DEF InItsPlace
<1> QED
  BY <1>1, RelayInvariant, PTL

\* start_relay: a reply goes to where the client sent from no earlier than what the
\* server has got, and there is always such an address.
THEOREM RepliesReachTheClient == RelaySpec => ToLatestAddress
<1>1. RelaySound /\ [RelayNext]_relayVars => AnswersLatest
  <2> SUFFICES ASSUME RelaySound, [RelayNext]_relayVars, sentTo' # sentTo
               PROVE  /\ sentTo'[Len(sentTo')] # None
                      /\ \A d \in Items(done["up"]) :
                           \E k \in d..heard["up"] : srcs[k] = sentTo'[Len(sentTo')]
    BY DEF AnswersLatest
  <2>1. PICK l \in Legs : Deliver(l)
    <3>1. ~LearnAddr /\ \A addr \in Addrs : ~FromClient(addr)
      BY DEF FromClient, LearnAddr
    <3>2. ~FromServer
      BY DEF FromServer
    <3>3. \A l \in Legs : ~Enqueue(l) /\ ~Pump(l) /\ ~Receive(l)
      BY DEF Enqueue, Pump, Receive
    <3>4. \A l \in Legs, p \in Paths : ~Tick(l, p) /\ ~Merge(l, p)
      BY DEF Tick, Merge
    <3>5. \A l \in Legs, p \in Paths : \A d \in mixing[l][p] : ~Ready(l, p, d) /\ ~Drop(l, p, d)
      BY DEF Ready, Drop
    <3>6. ~UNCHANGED relayVars
      BY DEF relayVars
    <3> QED
      BY <3>1, <3>2, <3>3, <3>4, <3>5, <3>6 DEF RelayNext, LegStep, PathStep
  <2>2. l = "down" /\ sentTo' = Append(sentTo, client_addr) /\ recvQ[l] # <<>> /\ l \in Legs
    BY <2>1 DEF Deliver
  <2>3. sentTo \in Seq(Addrs \cup {None}) /\ client_addr \in Addrs \cup {None} /\ Known
    BY DEF RelaySound, RelayTypes
  <2>4. sentTo'[Len(sentTo')] = client_addr
    BY <2>2, <2>3
  <2>5. heard[l] # 0
    <3>1. recvQ[l] \in Seq(Nat) /\ Items(recvQ[l]) \subseteq 1..heard[l]
      BY AtLeg DEF AllNeat, Neat
    <3>2. Head(recvQ[l]) \in Items(recvQ[l])
      BY <2>2, <3>1, TakeHead
    <3> QED
      BY <3>1, <3>2
  <2>6. client_addr # None
    BY <2>2, <2>3, <2>5 DEF Known
  <2> QED
    BY <2>4, <2>6, Reached
<1> QED
  BY <1>1, RelayInvariant, PTL DEF RelaySpec, ToLatestAddress

=============================================================================
