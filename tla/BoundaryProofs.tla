--------------------------- MODULE BoundaryProofs ---------------------------
(***************************************************************************)
(* The way of a datagram into a substrate: the substrate boundary, the     *)
(* front's bridge onto it, and the front that the node resolves.           *)
(*                                                                         *)
(* The boundary, for any number of callers, queue depth, set of slot       *)
(* intervals and run length: SendSide and RecvSide are the inductive       *)
(* invariants of the two directions, which share only the life of the      *)
(* Substrate.                                                              *)
(*                                                                         *)
(* The front's bridge uses the boundary as its contract allows, so all     *)
(* that is proved of the boundary holds behind a front; and no packet that *)
(* reached the front's socket is lost on the way into it.                  *)
(*                                                                         *)
(* The front that the ingress task resolves is dialled only once what is   *)
(* behind it stands, and its sidecar does not outlive the attempt, for any *)
(* environment, any number of attempts and any capacity of the pipes.  The *)
(* invariant follows the announcement back: only a sidecar that runs has   *)
(* written one, and only a sidecar whose tor is drained gets there.        *)
(***************************************************************************)
EXTENDS FrontBridge, Fronts, TLAPS

\* The pump's sleep and the time since the last send add up to the slot it owes.
Owed == sending = None => nap + gap >= due

LEMMA SumIsNat == ASSUME NEW a \in Nat, NEW b \in Nat PROVE a + b \in Nat
OBVIOUS

LEMMA DepthType == Depth \in Nat /\ Depth >= 1
BY BoundaryAssumption DEF Depth

LEMMA LongestType == Longest \in Nat /\ \A t \in Slots : t \in Nat /\ t <= Longest
BY BoundaryAssumption, Zenon DEF Longest

LEMMA InitTypes == Init => TypeOK
<1> SUFFICES ASSUME Init PROVE TypeOK
  OBVIOUS
<1>1. /\ sendQ \in Seq(Nat) /\ waiting \in Seq(Callers) /\ sending \in Nat \cup {None}
      /\ recvQ \in Seq(Nat \cup Errors) /\ arriving \in Nat \cup Errors \cup {None}
      /\ failed \in Errors \cup {None}
  BY DEF Init
<1>2. /\ {nap, slot, due, gap} \subseteq Nat
      /\ {sent, sendErrors, dropped, received, queueDepth, accepted, taken} \subseteq Nat
  BY BoundaryAssumption DEF Init
<1>3. recvUp \in BOOLEAN /\ alive \in BOOLEAN /\ told \in BOOLEAN /\ eof \in BOOLEAN
  BY Zenon DEF Init
<1> QED
  BY <1>1, <1>2, <1>3 DEF TypeOK

\* The types of the send side, and of the receive side.
SendTypes ==
  /\ sendQ \in Seq(Nat) /\ waiting \in Seq(Callers) /\ sending \in Nat \cup {None}
  /\ {nap, slot, due, gap, sent, sendErrors, dropped, queueDepth, accepted} \subseteq Nat
RecvTypes ==
  /\ recvQ \in Seq(Nat \cup Errors) /\ arriving \in Nat \cup Errors \cup {None}
  /\ failed \in Errors \cup {None} /\ {received, taken} \subseteq Nat
Flags == recvUp \in BOOLEAN /\ alive \in BOOLEAN /\ told \in BOOLEAN /\ eof \in BOOLEAN

SendSide ==
  /\ SendTypes /\ SendConserved /\ Len(sendQ) <= Depth /\ Owed
  /\ due <= Longest /\ slot \in Slots

\* Where the end of the transport stands: in the pump, at the end of the queue,
\* or with the consumer.
EndOnItsWay ==
  /\ arriving # None => recvUp
  /\ arriving \in Nat => arriving = received
  /\ arriving \in Errors => arriving = failed
  /\ alive /\ ~recvUp /\ ~told => recvQ # <<>> /\ recvQ[Len(recvQ)] \in Errors
  /\ told => ~recvUp /\ recvQ = <<>>

RecvSide ==
  /\ RecvTypes /\ Flags /\ Len(recvQ) <= Depth
  /\ RecvConserved /\ ClosedIsLast /\ EndOnItsWay
  /\ ~alive => recvQ = <<>>

LEMMA TypesSplit == TypeOK <=> SendTypes /\ RecvTypes /\ Flags
BY DEF TypeOK, SendTypes, RecvTypes, Flags

\* Removing a waiter leaves a sequence of callers.
LEMMA WaiterRemoved ==
  ASSUME waiting \in Seq(Callers), NEW k \in DOMAIN waiting
  PROVE  Without(waiting, k) \in Seq(Callers)
<1>1. Len(waiting) \in Nat /\ k \in 1..Len(waiting)
  OBVIOUS
<1>2. Len(waiting) - 1 \in Nat
  BY <1>1
<1>3. \A j \in 1..(Len(waiting) - 1) :
        (IF j < k THEN waiting[j] ELSE waiting[j + 1]) \in Callers
  BY <1>1
<1> QED
  BY <1>2, <1>3 DEF Without

LEMMA EnqueueConserves ==
  ASSUME SendTypes, SendConserved, Enqueue, UNCHANGED <<sent, sendErrors, sending>>
  PROVE  sendQ' \in Seq(Nat) /\ accepted' \in Nat /\ SendConserved' /\ Len(sendQ') = Len(sendQ) + 1
<1>1. /\ sendQ' \in Seq(Nat) /\ Len(sendQ') = Len(sendQ) + 1 /\ accepted' \in Nat
      /\ DOMAIN sendQ' = 1..(Len(sendQ) + 1) /\ DOMAIN sendQ = 1..Len(sendQ)
      /\ \A i \in DOMAIN sendQ : sendQ'[i] = sendQ[i]
      /\ sendQ'[Len(sendQ) + 1] = accepted + 1
  BY SMTT(30) DEF Enqueue, SendTypes
<1>2. \A i \in DOMAIN sendQ' : i \in DOMAIN sendQ \/ i = Len(sendQ) + 1
  BY <1>1, SMTT(30) DEF SendTypes
<1>3. /\ sent \in Nat /\ sendErrors \in Nat /\ InPump \in Nat /\ Finished \in Nat
      /\ Len(sendQ) \in Nat /\ accepted \in Nat /\ accepted' = accepted + 1
      /\ Finished' = Finished /\ InPump' = InPump
  BY SMTT(30) DEF SendTypes, InPump, Finished, Enqueue
<1>4. SendConserved'
  BY <1>1, <1>2, <1>3 DEF SendConserved
<1> QED
  BY <1>1, <1>4

-----------------------------------------------------------------------------
LEMMA SendSideInit == Init => SendSide
<1> SUFFICES ASSUME Init PROVE SendSide
  OBVIOUS
<1>1. SendTypes
  BY InitTypes, TypesSplit
<1>2. SendConserved
  BY DEF Init, SendConserved, Finished, InPump
<1>3. Len(sendQ) <= Depth /\ Owed /\ due <= Longest /\ slot \in Slots
  BY DepthType, LongestType DEF Init, Owed
<1> QED
  BY <1>1, <1>2, <1>3 DEF SendSide

LEMMA CallsSide ==
  ASSUME SendSide, Calls \/ \E k \in DOMAIN waiting : Unblock(k)
  PROVE  SendSide'
<1> USE DEF SendSide
<1>1. ASSUME NEW c \in Callers, SendNow(c) PROVE SendSide'
  <2>1. Enqueue /\ UNCHANGED <<waiting, sending, nap, sent, sendErrors, dropped, queueDepth,
                               gap, due, slot>> /\ Len(sendQ) < Depth
    BY <1>1 DEF SendNow, HasRoom
  <2>2. sendQ' \in Seq(Nat) /\ accepted' \in Nat /\ SendConserved' /\ Len(sendQ') = Len(sendQ) + 1
    BY <2>1, EnqueueConserves
  <2>3. SendTypes' /\ Len(sendQ)' <= Depth
    BY <2>1, <2>2, DepthType DEF SendTypes
  <2> QED
    BY <2>1, <2>2, <2>3 DEF Owed
<1>2. ASSUME NEW c \in Callers, SendBlock(c) PROVE SendSide'
  <2>1. waiting' \in Seq(Callers)
        /\ UNCHANGED <<sendQ, sending, nap, sent, sendErrors, dropped, queueDepth, accepted,
                       gap, due, slot>>
    BY <1>2 DEF SendBlock, SendTypes
  <2> QED
    BY <2>1 DEF SendTypes, SendConserved, Finished, InPump, Owed
<1>3. ASSUME NEW c \in Callers, SendLossy(c) PROVE SendSide'
  <2>1. dropped' \in Nat
        /\ UNCHANGED <<sendQ, waiting, sending, nap, sent, sendErrors, queueDepth, accepted,
                       gap, due, slot>>
    BY <1>3 DEF SendLossy, SendTypes
  <2> QED
    BY <2>1 DEF SendTypes, SendConserved, Finished, InPump, Owed
<1>4. ASSUME NEW k \in DOMAIN waiting, SendExpires(k) PROVE SendSide'
  <2>1. waiting' \in Seq(Callers)
        /\ UNCHANGED <<sendQ, sending, nap, sent, sendErrors, dropped, queueDepth, accepted,
                       gap, due, slot>>
    BY <1>4, WaiterRemoved DEF SendExpires, SendTypes
  <2> QED
    BY <2>1 DEF SendTypes, SendConserved, Finished, InPump, Owed
<1>5. ASSUME NEW k \in DOMAIN waiting, Unblock(k) PROVE SendSide'
  <2>1. Enqueue /\ UNCHANGED <<sending, nap, sent, sendErrors, dropped, queueDepth,
                               gap, due, slot>> /\ k <= Depth - Len(sendQ)
    BY <1>5 DEF Unblock
  <2>2. sendQ' \in Seq(Nat) /\ accepted' \in Nat /\ SendConserved' /\ Len(sendQ') = Len(sendQ) + 1
    BY <2>1, EnqueueConserves
  <2>3. waiting' \in Seq(Callers) /\ k \in Nat /\ k >= 1
    BY <1>5, WaiterRemoved DEF Unblock, SendTypes
  <2>4. SendTypes' /\ Len(sendQ)' <= Depth
    BY <2>1, <2>2, <2>3, DepthType, SMTT(30) DEF SendTypes
  <2> QED
    BY <2>1, <2>2, <2>4 DEF Owed
<1> QED
  BY <1>1, <1>2, <1>3, <1>4, <1>5 DEF Calls

LEMMA PumpTakeSide ==
  ASSUME SendSide, PumpTake
  PROVE  SendSide'
<1> USE DEF SendSide
<1>1. /\ sending = None /\ sendQ # <<>> /\ sending' = Head(sendQ) /\ sendQ' = Tail(sendQ)
      /\ queueDepth' = Len(sendQ) - 1
      /\ UNCHANGED <<waiting, nap, sent, sendErrors, dropped, accepted, gap, due, slot>>
  BY DEF PumpTake, PumpReady, DepthGauge
<1>2. /\ sendQ' \in Seq(Nat) /\ Len(sendQ') = Len(sendQ) - 1 /\ sending' \in Nat
      /\ DOMAIN sendQ' = 1..(Len(sendQ) - 1) /\ sending' = sendQ[1]
      /\ \A i \in DOMAIN sendQ' : sendQ'[i] = sendQ[i + 1] /\ i + 1 \in DOMAIN sendQ
      /\ Len(sendQ) \in Nat /\ Len(sendQ) >= 1 /\ 1 \in DOMAIN sendQ
  BY <1>1, SMTT(30) DEF SendTypes
<1>3. SendTypes'
  BY <1>1, <1>2 DEF SendTypes
<1>4. sending' # None
  BY <1>2, BoundaryAssumption
<1>5. Finished' = Finished /\ Finished \in Nat /\ InPump = 0 /\ InPump' = 1
  BY <1>1, <1>4, SMTT(30) DEF Finished, InPump, SendTypes
<1>6. SendConserved'
  <2>1. /\ Finished + Len(sendQ) = accepted
        /\ \A i \in DOMAIN sendQ : sendQ[i] = Finished + i
    BY <1>5 DEF SendConserved, SendTypes
  <2>2. Finished' + InPump' + Len(sendQ') = accepted'
    BY <1>1, <1>2, <1>5, <2>1
  <2>3. sending' = Finished' + 1
    BY <1>2, <1>5, <2>1
  <2>4. \A i \in DOMAIN sendQ' : sendQ'[i] = Finished' + InPump' + i
    <3> TAKE i \in DOMAIN sendQ'
    <3>1. sendQ'[i] = Finished + (i + 1) /\ i \in Nat
      BY <1>2, <2>1
    <3> QED
      BY <1>5, <3>1
  <2> QED
    BY <2>2, <2>3, <2>4 DEF SendConserved
<1>7. Len(sendQ)' <= Depth /\ Owed'
  BY <1>2, <1>4, DepthType DEF Owed
<1> QED
  BY <1>1, <1>3, <1>6, <1>7

LEMMA PumpDoneSide ==
  ASSUME SendSide, PumpDone(TRUE) \/ PumpDone(FALSE)
  PROVE  SendSide'
<1> USE DEF SendSide
<1>1. /\ sending # None /\ sending' = None /\ nap' = slot /\ due' = slot /\ gap' = 0
      /\ UNCHANGED <<sendQ, waiting, dropped, queueDepth, accepted, slot>>
  BY Zenon DEF PumpDone
<1>2. /\ sent \in Nat /\ sendErrors \in Nat /\ sent' \in Nat /\ sendErrors' \in Nat
      /\ sent' + sendErrors' = sent + sendErrors + 1
  <2>1. sent \in Nat /\ sendErrors \in Nat
    BY DEF SendTypes
  <2>2. CASE PumpDone(TRUE)
    BY <2>1, <2>2 DEF PumpDone, Failures
  <2>3. CASE PumpDone(FALSE)
    BY <2>1, <2>3 DEF PumpDone, Failures
  <2> QED
    BY <2>2, <2>3, Zenon
<1>3. slot \in Nat /\ slot <= Longest
  BY LongestType
<1>4. SendTypes'
  BY <1>1, <1>2, <1>3 DEF SendTypes
<1>5. Finished' = Finished + 1 /\ Finished \in Nat /\ InPump = 1 /\ InPump' = 0
  <2>1. Finished' = Finished + 1 /\ Finished \in Nat
    <3>1. Finished' = sent' + sendErrors' /\ Finished = sent + sendErrors
      BY DEF Finished
    <3>2. Finished \in Nat /\ Finished' \in Nat
      BY <1>2, <3>1, SumIsNat, Zenon
    <3> QED
      BY <1>2, <3>1, <3>2, Zenon
  <2>2. InPump = 1 /\ InPump' = 0
    BY <1>1 DEF InPump
  <2> QED
    BY <2>1, <2>2
<1>6. SendConserved'
  BY <1>1, <1>5 DEF SendConserved, SendTypes
<1>7. Owed'
  BY <1>1, <1>3 DEF Owed
<1> QED
  BY <1>1, <1>3, <1>4, <1>6, <1>7

LEMMA TimeSide ==
  ASSUME SendSide, Time
  PROVE  SendSide'
<1> USE DEF SendSide
<1>1. /\ nap' = (IF nap = 0 THEN 0 ELSE nap - 1) /\ gap' = (IF gap < Longest THEN gap + 1 ELSE gap)
      /\ UNCHANGED <<sendQ, waiting, sending, sent, sendErrors, dropped, queueDepth, accepted,
                     due, slot>>
  BY DEF Time
<1>2. nap \in Nat /\ gap \in Nat /\ due \in Nat /\ nap' \in Nat /\ gap' \in Nat /\ Longest \in Nat
  <2>1. nap \in Nat /\ gap \in Nat /\ due \in Nat
    BY DEF SendTypes
  <2>2. nap' \in Nat
    BY <1>1, <2>1
  <2>3. Longest \in Nat /\ gap' \in Nat
    BY <1>1, <2>1, LongestType
  <2> QED
    BY <2>1, <2>2, <2>3
<1>3. SendTypes'
  BY <1>1, <1>2 DEF SendTypes
<1>4. SendConserved'
  BY <1>1 DEF SendConserved, Finished, InPump
<1>5. Owed'
  BY <1>1, <1>2 DEF Owed
<1> QED
  BY <1>1, <1>3, <1>4, <1>5

\* No step of any actor disturbs the send side.
LEMMA SendSideStep ==
  ASSUME SendSide, [Next]_vars
  PROVE  SendSide'
<1>1. CASE Calls \/ \E k \in DOMAIN waiting : Unblock(k)
  BY <1>1, CallsSide
<1>2. CASE Pump
  BY <1>2, PumpTakeSide, PumpDoneSide, Zenon DEF Pump
<1>3. ASSUME NEW t \in Slots, UpdateOracle(t) PROVE SendSide'
  <2>1. slot' \in Slots /\ UNCHANGED sendVars
    BY <1>3 DEF UpdateOracle
  <2> QED
    BY <2>1, BoundaryAssumption
    DEF SendSide, SendTypes, SendConserved, Finished, InPump, Owed, sendVars
<1>4. ASSUME UNCHANGED <<sendVars, slot>> PROVE SendSide'
  BY <1>4 DEF SendSide, SendTypes, SendConserved, Finished, InPump, Owed, sendVars
<1>5. CASE Inner \/ Forward \/ ForwardFails \/ Consumer \/ Discard
  BY <1>4, <1>5 DEF Inner, InnerOk, InnerErr, Forward, ForwardFails, Consumer, Recv, RecvClosed,
                    Discard
<1>6. CASE Time
  BY <1>6, TimeSide
<1>7. CASE UNCHANGED vars
  BY <1>4, <1>7 DEF vars
<1> QED
  BY <1>1, <1>2, <1>3, <1>5, <1>6, <1>7 DEF Next

\* The invariant of the sending side holds.
THEOREM SendSideHolds == Spec => []SendSide
<1> QED
  BY SendSideInit, SendSideStep, PTL DEF Spec

\* Nothing that the boundary accepted is lost, duplicated or overtaken on its
\* way to the inner transport.
THEOREM NothingLostOnSend == Spec => []SendConserved
<1>1. SendSide => SendConserved
  BY DEF SendSide
<1> QED
  BY <1>1, SendSideHolds, PTL

\* Two sends to the inner transport are at least the slot apart that was in
\* force when the first one ended.
THEOREM SendsArePaced == Spec => Paced
<1>1. ASSUME SendSide, [Next]_vars
      PROVE  [sending = None /\ sending' # None => gap >= due]_vars
  <2> SUFFICES ASSUME sending = None, sending' # None PROVE gap >= due
    OBVIOUS
  <2>1. PumpTake => gap >= due
    BY <1>1 DEF PumpTake, PumpReady, SendSide, Owed, SendTypes
  <2>2. CASE UNCHANGED sending
    BY <2>2
  <2> QED
    BY <1>1, <2>1, <2>2
       DEF Next, Calls, SendNow, SendBlock, SendLossy, SendExpires, Unblock, Pump, PumpDone,
           UpdateOracle, Inner, InnerOk, InnerErr, Forward, ForwardFails, Consumer, Recv,
           RecvClosed, Discard, Time, vars, sendVars
<1> QED
  BY <1>1, SendSideHolds, PTL DEF Spec, Paced

-----------------------------------------------------------------------------
LEMMA RecvSideInit == Init => RecvSide
<1> SUFFICES ASSUME Init PROVE RecvSide
  OBVIOUS
<1>1. RecvTypes /\ Flags
  BY InitTypes, TypesSplit
<1>2. Len(recvQ) <= Depth
  BY DepthType DEF Init
<1>3. RecvConserved
  BY BoundaryAssumption DEF Init, RecvConserved, Datagrams
<1>4. ClosedIsLast /\ EndOnItsWay /\ (~alive => recvQ = <<>>)
  BY BoundaryAssumption DEF Init, ClosedIsLast, EndOnItsWay
<1> QED
  BY <1>1, <1>2, <1>3, <1>4 DEF RecvSide

\* While the pump runs, its queue holds datagrams only.
LEMMA RunningQueue ==
  ASSUME RecvSide, alive, recvUp
  PROVE  /\ \A i \in DOMAIN recvQ : recvQ[i] \notin Errors /\ recvQ[i] = taken + i
         /\ Datagrams = Len(recvQ) /\ Len(recvQ) \in Nat /\ ~told /\ ~eof
<1>1. \A i \in DOMAIN recvQ : recvQ[i] \notin Errors /\ recvQ[i] = taken + i
  BY DEF RecvSide, RecvConserved, Arrived
<1>2. Len(recvQ) \in Nat /\ (recvQ # <<>> => Len(recvQ) \in DOMAIN recvQ)
  BY DEF RecvSide, RecvTypes
<1>3. Datagrams = Len(recvQ)
  BY <1>1, <1>2 DEF Datagrams
<1>4. ~told /\ ~eof
  BY DEF RecvSide, EndOnItsWay, ClosedIsLast
<1> QED
  BY <1>1, <1>2, <1>3, <1>4

LEMMA InnerOkSide ==
  ASSUME RecvSide, InnerOk
  PROVE  RecvSide'
<1> USE DEF RecvSide
<1>1. /\ recvUp /\ arriving = None /\ received' = received + 1 /\ arriving' = received + 1
      /\ UNCHANGED <<recvQ, recvUp, failed, taken, told, eof, alive>>
  BY DEF InnerOk
<1>2. received \in Nat /\ received' \in Nat /\ arriving' \in Nat /\ arriving' \notin Errors
      /\ arriving \notin Nat
  BY <1>1, BoundaryAssumption DEF RecvTypes
<1>3. RecvTypes' /\ Flags'
  BY <1>1, <1>2 DEF RecvTypes, Flags
<1>4. RecvConserved'
  <2> SUFFICES ASSUME alive PROVE RecvConserved'
    BY <1>1 DEF RecvConserved
  <2>1. \A i \in DOMAIN recvQ : Arrived(i)'
    BY <1>1 DEF RecvConserved, Arrived
  <2>2. received = taken + Len(recvQ) /\ Datagrams = Len(recvQ) /\ Datagrams' = Datagrams
    BY <1>1, <1>2, RunningQueue DEF RecvConserved, Datagrams, RecvTypes
  <2>3. taken \in Nat /\ Len(recvQ) \in Nat
    BY DEF RecvTypes
  <2>4. received' = taken' + Datagrams' + 1
    BY <1>1, <2>2, <2>3
  <2> QED
    BY <1>1, <1>2, <2>1, <2>4 DEF RecvConserved
<1>5. ~eof /\ ~told
  BY <1>1 DEF ClosedIsLast, EndOnItsWay
<1>6. ClosedIsLast' /\ EndOnItsWay'
  BY <1>1, <1>2, <1>5 DEF ClosedIsLast, EndOnItsWay
<1> QED
  BY <1>1, <1>3, <1>4, <1>6

LEMMA InnerErrSide ==
  ASSUME RecvSide, NEW e \in Errors, InnerErr(e)
  PROVE  RecvSide'
<1> USE DEF RecvSide
<1>1. /\ recvUp /\ arriving = None /\ failed' = e /\ arriving' = e
      /\ UNCHANGED <<received, recvQ, recvUp, taken, told, eof, alive>>
  BY DEF InnerErr
<1>2. e \notin Nat /\ arriving \notin Nat
  BY <1>1, BoundaryAssumption
<1>3. RecvTypes' /\ Flags'
  BY <1>1 DEF RecvTypes, Flags
<1>4. ~eof /\ ~told
  BY <1>1 DEF ClosedIsLast, EndOnItsWay
<1>5. RecvConserved'
  <2> SUFFICES ASSUME alive PROVE RecvConserved'
    BY <1>1 DEF RecvConserved
  <2>1. \A i \in DOMAIN recvQ : Arrived(i)'
    BY <1>1, RunningQueue DEF Arrived
  <2>2. Datagrams' = Datagrams
    BY <1>1 DEF Datagrams
  <2> QED
    BY <1>1, <1>2, <2>1, <2>2 DEF RecvConserved
<1>6. ClosedIsLast' /\ EndOnItsWay'
  BY <1>1, <1>2, <1>4 DEF ClosedIsLast, EndOnItsWay
<1> QED
  BY <1>1, <1>3, <1>5, <1>6

LEMMA ForwardSide ==
  ASSUME RecvSide, Forward
  PROVE  RecvSide'
<1> USE DEF RecvSide
<1> DEFINE n == Len(recvQ)
<1>1. /\ arriving # None /\ alive /\ n < Depth /\ recvQ' = Append(recvQ, arriving)
      /\ recvUp' = (arriving \notin Errors) /\ arriving' = None
      /\ UNCHANGED <<received, failed, taken, told, eof, alive>>
  BY DEF Forward, Passed
<1>2. arriving \in Nat \cup Errors
  BY <1>1 DEF RecvTypes
<1>3. /\ recvQ' \in Seq(Nat \cup Errors) /\ Len(recvQ') = n + 1 /\ n \in Nat
      /\ DOMAIN recvQ' = 1..(n + 1) /\ DOMAIN recvQ = 1..n /\ recvQ'[n + 1] = arriving
      /\ \A i \in DOMAIN recvQ : recvQ'[i] = recvQ[i]
  BY <1>1, <1>2 DEF RecvTypes
<1>4. \A i \in DOMAIN recvQ' : i \in DOMAIN recvQ \/ i = n + 1
  BY <1>3
<1>5. /\ \A i \in DOMAIN recvQ : recvQ[i] \notin Errors /\ recvQ[i] = taken + i
      /\ Datagrams = n /\ ~told /\ ~eof /\ recvUp
  BY <1>1, RunningQueue DEF EndOnItsWay
<1>6. RecvTypes'
  BY <1>1, <1>3 DEF RecvTypes
<1>7. recvUp' \in BOOLEAN
  BY <1>1
<1>8. Flags'
  BY <1>1, <1>7 DEF Flags
<1>9. recvQ' # <<>> /\ recvQ'[Len(recvQ')] = arriving
  BY <1>3
<1>10. RecvConserved'
  <2>1. taken \in Nat /\ received \in Nat /\ None \notin Nat
    BY BoundaryAssumption DEF RecvTypes
  <2>2. CASE arriving \in Errors
    <3>1. arriving \notin Nat /\ ~recvUp' /\ failed' = arriving
      BY <1>1, <2>2, BoundaryAssumption, Zenon DEF EndOnItsWay
    <3>2. received = taken + n
      BY <1>1, <1>3, <1>5, <2>1, <3>1 DEF RecvConserved
    <3>3. Datagrams' = n
      BY <1>3, <1>9, <2>2 DEF Datagrams
    <3>4. \A i \in DOMAIN recvQ' : Arrived(i)'
      BY <1>1, <1>3, <1>4, <1>5, <2>2, <3>1 DEF Arrived
    <3> QED
      BY <1>1, <1>3, <2>1, <3>2, <3>3, <3>4 DEF RecvConserved
  <2>3. CASE arriving \notin Errors
    <3>1. arriving \in Nat /\ arriving = received
      BY <1>2, <2>3 DEF EndOnItsWay
    <3>2. received = taken + n + 1
      BY <1>1, <1>3, <1>5, <2>1, <3>1 DEF RecvConserved
    <3>3. Datagrams' = n + 1
      BY <1>3, <1>9, <2>3 DEF Datagrams
    <3>4. \A i \in DOMAIN recvQ' : Arrived(i)'
      BY <1>1, <1>3, <1>4, <1>5, <2>1, <2>3, <3>1, <3>2 DEF Arrived
    <3> QED
      BY <1>1, <1>3, <2>1, <3>2, <3>3, <3>4 DEF RecvConserved
  <2> QED
    BY <2>2, <2>3
<1>11. ClosedIsLast' /\ EndOnItsWay'
  BY <1>1, <1>5, <1>9, BoundaryAssumption, Zenon DEF ClosedIsLast, EndOnItsWay
<1>12. Len(recvQ)' <= Depth
  BY <1>1, <1>3, DepthType
<1> QED
  BY <1>1, <1>6, <1>8, <1>10, <1>11, <1>12

LEMMA RecvTakesSide ==
  ASSUME RecvSide, Recv
  PROVE  RecvSide'
<1> USE DEF RecvSide
<1> DEFINE n == Len(recvQ)
<1>1. /\ alive /\ recvQ # <<>> /\ recvQ' = Tail(recvQ)
      /\ UNCHANGED <<received, arriving, recvUp, failed, eof, alive>>
  BY DEF Recv
<1>2. /\ recvQ' \in Seq(Nat \cup Errors) /\ n \in Nat /\ n >= 1 /\ Len(recvQ') = n - 1
      /\ DOMAIN recvQ' = 1..(n - 1) /\ DOMAIN recvQ = 1..n /\ Head(recvQ) = recvQ[1]
      /\ \A i \in DOMAIN recvQ' : recvQ'[i] = recvQ[i + 1] /\ i + 1 \in DOMAIN recvQ
  BY <1>1 DEF RecvTypes
<1>3. ~eof /\ ~told /\ taken \in Nat
  BY <1>1 DEF ClosedIsLast, EndOnItsWay, RecvTypes
<1>4. CASE Head(recvQ) \in Errors
  <2>1. told' = TRUE /\ taken' = taken
    BY <1>4 DEF Recv
  <2>2. 1 \in DOMAIN recvQ
    BY <1>2
  <2>3. n = 1 /\ ~recvUp
    BY <1>1, <1>2, <1>4, <2>2 DEF RecvConserved, Arrived
  <2>4. recvQ' = <<>>
    BY <1>1, <1>2, <2>3 DEF RecvTypes
  <2>5. Datagrams = 0 /\ Datagrams' = 0
    BY <1>1, <1>2, <1>4, <2>3, <2>4 DEF Datagrams
  <2>6. RecvConserved'
    BY <1>1, <2>1, <2>4, <2>5 DEF RecvConserved
  <2>7. RecvTypes' /\ Flags'
    BY <1>1, <1>2, <2>1 DEF RecvTypes, Flags
  <2>8. ClosedIsLast' /\ EndOnItsWay'
    BY <1>1, <1>3, <2>1, <2>3, <2>4 DEF ClosedIsLast, EndOnItsWay
  <2>9. Len(recvQ)' <= Depth /\ (~alive => recvQ = <<>>)'
    BY <1>1, <1>2, <2>3, DepthType
  <2> QED
    BY <2>6, <2>7, <2>8, <2>9
<1>5. CASE Head(recvQ) \notin Errors
  <2>1. taken' = taken + 1 /\ told' = told
    BY <1>5 DEF Recv
  <2>2. RecvTypes' /\ Flags'
    BY <1>1, <1>2, <1>3, <2>1 DEF RecvTypes, Flags
  <2>3. \A i \in DOMAIN recvQ' : Arrived(i)'
    <3> TAKE i \in DOMAIN recvQ'
    <3>1. Arrived(i + 1) /\ i \in Nat
      BY <1>1, <1>2 DEF RecvConserved
    <3> QED
      BY <1>1, <1>2, <1>3, <2>1, <3>1, SMTT(30) DEF Arrived
  <2>4. n >= 2 => recvQ' # <<>> /\ recvQ'[Len(recvQ')] = recvQ[n]
    BY <1>2
  <2>5. n = 1 => recvQ' = <<>>
    BY <1>2
  <2>6. Datagrams' = Datagrams - 1 /\ Datagrams \in Nat
    <3>1. CASE n = 1
      BY <1>1, <1>2, <1>5, <2>5, <3>1 DEF Datagrams
    <3>2. CASE n >= 2
      BY <1>1, <1>2, <2>4, <3>2 DEF Datagrams
    <3> QED
      BY <1>2, <3>1, <3>2
  <2>7. RecvConserved'
    <3>1. taken' + Datagrams' = taken + Datagrams
      BY <1>3, <2>1, <2>6
    <3> QED
      BY <1>1, <2>3, <3>1 DEF RecvConserved
  <2>8. ~recvUp => recvQ' # <<>> /\ recvQ'[Len(recvQ')] \in Errors
    <3>1. ~recvUp => recvQ[n] \in Errors
      BY <1>1, <1>3 DEF EndOnItsWay
    <3>2. ~recvUp => n # 1
      BY <1>2, <1>5, <3>1
    <3> QED
      BY <1>2, <2>4, <3>1, <3>2
  <2>9. ClosedIsLast' /\ EndOnItsWay'
    BY <1>1, <1>3, <2>1, <2>8 DEF ClosedIsLast, EndOnItsWay
  <2>10. Len(recvQ)' <= Depth /\ (~alive => recvQ = <<>>)'
    BY <1>1, <1>2, DepthType
  <2> QED
    BY <2>2, <2>7, <2>9, <2>10
<1> QED
  BY <1>4, <1>5

LEMMA ClosingSide ==
  ASSUME RecvSide, RecvClosed \/ ForwardFails \/ Discard
  PROVE  RecvSide'
<1> USE DEF RecvSide
<1>1. CASE RecvClosed
  <2>1. /\ alive /\ recvQ = <<>> /\ ~recvUp /\ eof' = TRUE
        /\ UNCHANGED <<received, recvQ, arriving, recvUp, failed, taken, told, alive>>
    BY <1>1 DEF RecvClosed
  <2>2. told /\ arriving = None /\ arriving \notin Nat
    BY <2>1, BoundaryAssumption DEF EndOnItsWay
  <2>3. taken = received
    <3>1. Datagrams = 0
      BY <2>1 DEF Datagrams
    <3> QED
      BY <2>1, <2>2, <3>1 DEF RecvConserved, RecvTypes
  <2>4. ClosedIsLast'
    BY <2>1, <2>2, <2>3 DEF ClosedIsLast
  <2>5. RecvTypes' /\ Flags'
    BY <2>1 DEF RecvTypes, Flags
  <2>6. RecvConserved' /\ EndOnItsWay'
    BY <2>1 DEF RecvConserved, Arrived, Datagrams, EndOnItsWay
  <2> QED
    BY <2>1, <2>4, <2>5, <2>6
<1>2. CASE ForwardFails
  <2>1. /\ arriving # None /\ ~alive /\ arriving' = None /\ recvUp' = FALSE
        /\ UNCHANGED <<received, recvQ, failed, taken, told, eof, alive>>
    BY <1>2 DEF ForwardFails
  <2>2. RecvTypes' /\ Flags'
    BY <2>1, Zenon DEF RecvTypes, Flags
  <2>3. RecvConserved' /\ ClosedIsLast' /\ EndOnItsWay'
    BY <2>1, BoundaryAssumption DEF RecvConserved, ClosedIsLast, EndOnItsWay
  <2> QED
    BY <2>1, <2>2, <2>3
<1>3. CASE Discard
  <2>1. /\ alive' = FALSE /\ recvQ' = <<>>
        /\ UNCHANGED <<received, arriving, recvUp, failed, taken, told, eof>>
    BY <1>3 DEF Discard
  <2>2. RecvTypes' /\ Flags'
    <3>1. RecvTypes'
      BY <2>1 DEF RecvTypes
    <3>2. Flags'
      BY <2>1, Zenon DEF Flags
    <3> QED
      BY <3>1, <3>2
  <2>3. RecvConserved' /\ ClosedIsLast' /\ EndOnItsWay'
    BY <2>1 DEF RecvConserved, ClosedIsLast, EndOnItsWay
  <2>4. Len(recvQ)' <= Depth
    BY <2>1, DepthType
  <2> QED
    BY <2>1, <2>2, <2>3, <2>4
<1> QED
  BY <1>1, <1>2, <1>3

\* No step of any actor disturbs the receive side.
LEMMA RecvSideStep ==
  ASSUME RecvSide, [Next]_vars
  PROVE  RecvSide'
<1>1. ASSUME UNCHANGED <<recvVars, alive>> PROVE RecvSide'
  BY <1>1 DEF RecvSide, RecvTypes, Flags, RecvConserved, Arrived, Datagrams, ClosedIsLast,
              EndOnItsWay, recvVars
<1>2. CASE Calls \/ (\E k \in DOMAIN waiting : Unblock(k)) \/ Pump \/ Time
           \/ \E t \in Slots : UpdateOracle(t)
  BY <1>1, <1>2 DEF Calls, SendNow, SendBlock, SendLossy, SendExpires, Unblock, Pump, PumpTake,
                    PumpDone, UpdateOracle, Time
<1>3. CASE Inner
  BY <1>3, InnerOkSide, InnerErrSide DEF Inner
<1>4. CASE Forward
  BY <1>4, ForwardSide
<1>5. CASE Recv
  BY <1>5, RecvTakesSide
<1>6. CASE RecvClosed \/ ForwardFails \/ Discard
  BY <1>6, ClosingSide
<1>7. CASE UNCHANGED vars
  BY <1>1, <1>7 DEF vars
<1> QED
  BY <1>2, <1>3, <1>4, <1>5, <1>6, <1>7 DEF Next, Consumer

\* The invariant of the receiving side holds.
THEOREM RecvSideHolds == Spec => []RecvSide
<1> QED
  BY RecvSideInit, RecvSideStep, PTL DEF Spec

\* Every variable of the boundary keeps its type; in particular no counter or
\* gauge underflows.
THEOREM BoundaryTypeSafe == Spec => []TypeOK
<1>1. SendSide /\ RecvSide => TypeOK
  BY TypesSplit DEF SendSide, RecvSide
<1> QED
  BY <1>1, SendSideHolds, RecvSideHolds, PTL

\* Both queues stay within the depth that Substrate::new was given.
THEOREM BackpressureBounds == Spec => []QueuesBounded
<1>1. SendSide /\ RecvSide => QueuesBounded
  BY DEF SendSide, RecvSide, QueuesBounded
<1> QED
  BY <1>1, SendSideHolds, RecvSideHolds, PTL

\* What the inner transport yielded reaches the consumer in order, without a
\* gap, with the error that ended it last.
THEOREM NothingLostOnReceive == Spec => []RecvConserved
<1>1. RecvSide => RecvConserved
  BY DEF RecvSide
<1> QED
  BY <1>1, RecvSideHolds, PTL

\* The consumer sees Closed only after every datagram and the typed error.
THEOREM ClosedComesLast == Spec => []ClosedIsLast
<1>1. RecvSide => ClosedIsLast
  BY DEF RecvSide
<1> QED
  BY <1>1, RecvSideHolds, PTL

-----------------------------------------------------------------------------
\* Every step of the two tasks is a call of the boundary that some caller may
\* make, or leaves the boundary alone.
LEMMA BridgeStepOfBoundary ==
  ASSUME [BridgeNext]_allVars
  PROVE  [Next]_vars
<1>1. ASSUME NEW a \in Clients, Packet(a) PROVE UNCHANGED vars
  BY <1>1 DEF Packet
<1>2. CASE Listen \/ Deliver \/ SocketErr \/ DropFront
  BY <1>2 DEF Listen, Deliver, SocketErr, DropFront
<1>3. CASE PassOn
  <2>1. SendNow(outTask) \/ SendBlock(outTask) \/ \E k \in DOMAIN waiting : Unblock(k)
    BY <1>3 DEF PassOn
  <2> QED
    BY <2>1, BridgeAssumption DEF Next, Calls
<1>4. CASE TakeReply \/ Teardown
  BY <1>4 DEF TakeReply, Teardown, Next, Consumer
<1>5. CASE Around \/ \E s \in Slots : UpdateOracle(s)
  BY <1>5 DEF Around, Next
<1>6. CASE UNCHANGED allVars
  BY <1>6 DEF allVars
<1> QED
  BY <1>1, <1>2, <1>3, <1>4, <1>5, <1>6 DEF BridgeNext, Tasks

\* spawn_substrate_front implements the specification of the boundary: pacing,
\* order, backpressure and the end of the transport are those of Substrate.
THEOREM FrontKeepsBoundary == BridgeSpec => Spec
<1>1. BridgeInit => Init
  BY DEF BridgeInit
<1> QED
  BY <1>1, BridgeStepOfBoundary, PTL DEF BridgeSpec, Spec

-----------------------------------------------------------------------------
\* The types of the bridge's own variables.
BridgeTypes ==
  /\ sock \in Seq(Clients) /\ peer \in Clients \cup {None}
  /\ outStage \in {"listen", "send", "done"} /\ inStage \in {"recv", "deliver", "done"}
  /\ guard \in BOOLEAN /\ heard \in Nat /\ returned \in Nat

InTask == IF outStage = "send" THEN 1 ELSE 0

\* What the tasks keep up, given the boundary's own invariants.
Carrying ==
  /\ BridgeTypes
  /\ outStage # "done" => heard = Len(sock) + InTask + accepted /\ dropped = 0

\* The front starts with nothing on the way.
LEMMA CarryingInit == BridgeInit => Carrying
BY DEF BridgeInit, Init, Carrying, BridgeTypes, InTask

\* The socket's buffer at its two ends.
LEMMA SocketEnds ==
  ASSUME sock \in Seq(Clients)
  PROVE  /\ Len(sock) \in Nat
         /\ \A a \in Clients : Append(sock, a) \in Seq(Clients)
                               /\ Len(Append(sock, a)) = Len(sock) + 1
         /\ sock # <<>> => /\ Head(sock) \in Clients /\ Tail(sock) \in Seq(Clients)
                           /\ Len(Tail(sock)) = Len(sock) - 1
OBVIOUS

\* A packet comes in, and the task takes one: the packet changes its place.
LEMMA SocketCarries ==
  ASSUME Carrying, accepted \in Nat, Listen \/ SocketErr \/ \E a \in Clients : Packet(a)
  PROVE  Carrying'
<1> USE DEF Carrying, BridgeTypes, InTask
<1>1. ASSUME NEW a \in Clients, Packet(a) PROVE Carrying'
  <2>1. /\ sock' = Append(sock, a) /\ heard' = heard + 1 /\ outStage # "done"
        /\ UNCHANGED <<accepted, dropped, peer, outStage, inStage, guard, returned>>
    BY <1>1 DEF Packet, vars, sendVars
  <2> QED
    BY <2>1, SocketEnds
<1>2. CASE Listen
  <2>1. /\ sock # <<>> /\ outStage = "listen" /\ outStage' = "send"
        /\ peer' = Head(sock) /\ sock' = Tail(sock)
        /\ UNCHANGED <<accepted, dropped, inStage, guard, heard, returned>>
    BY <1>2 DEF Listen, vars, sendVars
  <2> QED
    BY <2>1, SocketEnds
<1>3. CASE SocketErr
  BY <1>3 DEF SocketErr
<1> QED
  BY <1>1, <1>2, <1>3

\* sub.send: the packet is in the queue when the task goes on, in hand until then.
LEMMA PassOnCarries ==
  ASSUME Carrying, accepted \in Nat, PassOn
  PROVE  Carrying'
<1> USE DEF Carrying, BridgeTypes, InTask
<1>1. outStage = "send" /\ UNCHANGED <<sock, peer, inStage, guard, heard, returned>>
  BY DEF PassOn
<1>2. CASE (SendNow(outTask) \/ \E k \in DOMAIN waiting : Unblock(k)) /\ outStage' = "listen"
  <2>1. accepted' = accepted + 1 /\ UNCHANGED dropped
    BY <1>2 DEF SendNow, Unblock, Enqueue
  <2> QED
    BY <1>1, <1>2, <2>1, SocketEnds
<1>3. CASE SendBlock(outTask) /\ UNCHANGED outStage
  <2>1. UNCHANGED <<accepted, dropped>>
    BY <1>3 DEF SendBlock
  <2> QED
    BY <1>1, <1>3, <2>1
<1> QED
  BY <1>2, <1>3 DEF PassOn

\* Nobody else touches a packet before the boundary has accepted it.
LEMMA OthersCarry ==
  ASSUME Carrying, UNCHANGED <<sock, outStage, heard, peer, accepted, dropped>>,
         inStage' \in {"recv", "deliver", "done"}, guard' \in BOOLEAN, returned' \in Nat
  PROVE  Carrying'
BY DEF Carrying, BridgeTypes, InTask

\* Every step of the composition keeps Carrying.
LEMMA BridgeStepCarries ==
  ASSUME Carrying, accepted \in Nat, [BridgeNext]_allVars
  PROVE  Carrying'
<1>1. CASE Listen \/ SocketErr \/ \E a \in Clients : Packet(a)
  BY <1>1, SocketCarries
<1>2. CASE PassOn
  BY <1>2, PassOnCarries
<1>3. CASE TakeReply
  BY <1>3, OthersCarry DEF TakeReply, Recv, sendVars, Carrying, BridgeTypes
<1>4. CASE Deliver \/ DropFront
  <2>1. /\ UNCHANGED <<sock, outStage, heard, peer, accepted, dropped>>
        /\ inStage' \in {inStage, "recv"} /\ guard' \in {guard, FALSE}
        /\ returned' \in {returned, returned + 1}
    BY <1>4, Zenon DEF Deliver, DropFront, vars, sendVars
  <2>2. inStage' \in {"recv", "deliver", "done"} /\ guard' \in BOOLEAN
    BY <2>1, Zenon DEF Carrying, BridgeTypes
  <2>3. returned' \in Nat
    BY <2>1, SMT DEF Carrying, BridgeTypes
  <2> QED
    BY <2>1, <2>2, <2>3, OthersCarry
<1>5. CASE Teardown
  BY <1>5, OthersCarry DEF Teardown, Discard, sendVars, bridgeVars, Carrying, BridgeTypes
<1>6. CASE (Around \/ \E s \in Slots : UpdateOracle(s)) /\ UNCHANGED bridgeVars
  <2>1. UNCHANGED <<accepted, dropped>>
    BY <1>6 DEF Around, Pump, PumpTake, PumpDone, Inner, InnerOk, InnerErr, Forward, ForwardFails,
                Time, UpdateOracle, sendVars
  <2> QED
    BY <1>6, <2>1, OthersCarry DEF bridgeVars, Carrying, BridgeTypes
<1>7. CASE UNCHANGED allVars
  BY <1>7, OthersCarry DEF allVars, vars, sendVars, bridgeVars, Carrying, BridgeTypes
<1> QED
  BY <1>1, <1>2, <1>3, <1>4, <1>5, <1>6, <1>7 DEF BridgeNext, Tasks

\* A packet that reached the front's socket is in its buffer, in the hands of
\* the task or accepted by the boundary, for any queue depth, buffer and number
\* of packets: a full queue holds the task up and loses nothing.
THEOREM NothingLostAtFront == BridgeSpec => []NothingLostBehindSocket
<1>1. TypeOK => accepted \in Nat
  BY DEF TypeOK
<1>2. TypeOK /\ Carrying => NothingLostBehindSocket
  BY DEF Carrying, BridgeTypes, InTask, NothingLostBehindSocket, BridgeTypeOK
<1> QED
  BY <1>1, <1>2, CarryingInit, BridgeStepCarries, FrontKeepsBoundary, BoundaryTypeSafe, PTL
     DEF BridgeSpec

-----------------------------------------------------------------------------
\* The front of the ingress task.

\* What the processes write.
Lines == {"front", "bad front", "log", "Bootstrapped 100%"}
Pipes == {"side", "tor"}

\* Types, in full.
StateTypes ==
  /\ env \in Envs /\ attempt \in 0..MaxTries
  /\ phase \in {"idle", "announce", "open", "dial", "serve", "over"}
  /\ dialled \in {"none", "gateway", "front"}
  /\ side \in [Tries -> {"none", "up", "exited", "killed"}]
  /\ tor \in [Tries -> {"none", "up", "exited", "killed"}]
  /\ main \in [Tries -> {"boot", "wait", "circuit", "print", "run"}]
  /\ skew = [i \in Tries |-> 0] /\ sessions \subseteq Tries
PipeTypes ==
  /\ pipe \in [Pipes -> [Tries -> Seq(Lines)]]
  /\ \A p \in Pipes, i \in Tries : Len(pipe[p][i]) <= PipeCap

\* An attempt is under way; what it is waiting for is what was chosen.
UnderWay ==
  /\ phase \notin {"idle", "over"} => attempt \in Tries
  /\ phase = "announce" => choice = "SidecarCmd"
  /\ phase = "open" => choice = "Named"
  /\ choice = "error" => phase = "over"
  /\ \A i \in Tries : i > attempt => side[i] = "none"

\* A sidecar says that its front is there only when it has come to its end, and
\* asks for a circuit only when its tor's output is drained.
Logs(s) == \A k \in DOMAIN s : s[k] = "log"
ToldInTime == \A i \in Tries : main[i] # "run" => Logs(pipe["side"][i])
DrainedInTime ==
  \A i \in Tries : main[i] \in {"circuit", "print", "run"} => <<"tor", i>> \in drained

FrontsSound ==
  /\ StateTypes /\ PipeTypes /\ UnderWay /\ ToldInTime /\ DrainedInTime
  /\ NoSilentDirect /\ FrontReady /\ SidecarOwned /\ TorSupervised

-----------------------------------------------------------------------------
\* socks5_connect reads the reply to CONNECT to its last byte and no further.
LEMMA ReplyRead ==
  ASSUME NEW atyp \in {1, 3, 4}, NEW n \in Nat
  PROVE  ReplyLen(atyp, n) - ReadOfReply(atyp, n) = 0
BY DEF ReplyLen, ReadOfReply

\* from_env chooses the gateway itself only when no substrate but direct is named.
LEMMA ChoiceFacts ==
  /\ choice \in {"Direct", "SidecarAt", "SidecarCmd", "Named", "error"}
  /\ choice = "Direct" => ~Named(env)
BY DEF choice, from_env

\* A reader takes the oldest line of one pipe.
LEMMA LineTaken ==
  ASSUME PipeTypes, NEW p \in Pipes, NEW i \in Tries, pipe[p][i] # <<>>,
         pipe' = [pipe EXCEPT ![p][i] = Tail(@)]
  PROVE  /\ PipeTypes'
         /\ Head(pipe[p][i]) = pipe[p][i][1] /\ 1 \in DOMAIN pipe[p][i]
         /\ \A q \in Pipes, j \in Tries : Logs(pipe[q][j]) => Logs(pipe'[q][j])
<1> DEFINE s == pipe[p][i]
<1>1. s \in Seq(Lines) /\ Len(s) <= PipeCap /\ s # <<>>
  BY DEF PipeTypes
<1>2. /\ Tail(s) \in Seq(Lines) /\ Len(Tail(s)) <= PipeCap
      /\ \A k \in DOMAIN Tail(s) : k + 1 \in DOMAIN s /\ Tail(s)[k] = s[k + 1]
      /\ Head(s) = s[1] /\ 1 \in DOMAIN s
  BY <1>1, FrontsAssumption
<1>3. \A q \in Pipes, j \in Tries :
        pipe'[q][j] = IF q = p /\ j = i THEN Tail(s) ELSE pipe[q][j]
  BY DEF PipeTypes
<1>4. pipe' \in [Pipes -> [Tries -> Seq(Lines)]]
  <2> HIDE DEF s
  <2>1. pipe[p] \in [Tries -> Seq(Lines)] /\ [pipe[p] EXCEPT ![i] = Tail(s)] \in [Tries -> Seq(Lines)]
    BY <1>2 DEF PipeTypes
  <2>2. pipe' = [pipe EXCEPT ![p] = [pipe[p] EXCEPT ![i] = Tail(s)]]
    BY DEF s, PipeTypes
  <2> QED
    BY <2>1, <2>2 DEF PipeTypes
<1>5. PipeTypes'
  BY <1>2, <1>3, <1>4 DEF PipeTypes
<1>6. Logs(s) => Logs(Tail(s))
  BY <1>2 DEF Logs
<1> QED
  BY <1>2, <1>3, <1>5, <1>6

\* A writer puts a line into one pipe, when there is room.
LEMMA LinePut ==
  ASSUME PipeTypes, NEW p \in Pipes, NEW i \in Tries, NEW line \in Lines, Put(p, i, line)
  PROVE  /\ PipeTypes'
         /\ \A q \in Pipes, j \in Tries :
              Logs(pipe[q][j]) /\ (q = p /\ j = i => line = "log") => Logs(pipe'[q][j])
<1> DEFINE s == pipe[p][i]
<1>1. s \in Seq(Lines) /\ Len(s) < PipeCap
  BY DEF PipeTypes, Put
<1>2. /\ Append(s, line) \in Seq(Lines) /\ Len(Append(s, line)) <= PipeCap
      /\ \A k \in DOMAIN Append(s, line) :
           Append(s, line)[k] = line \/ (k \in DOMAIN s /\ Append(s, line)[k] = s[k])
  BY <1>1, FrontsAssumption
<1>3. \A q \in Pipes, j \in Tries :
        pipe'[q][j] = IF q = p /\ j = i THEN Append(s, line) ELSE pipe[q][j]
  BY DEF PipeTypes, Put
<1>4. pipe' \in [Pipes -> [Tries -> Seq(Lines)]]
  <2> HIDE DEF s
  <2>1. pipe[p] \in [Tries -> Seq(Lines)] /\ [pipe[p] EXCEPT ![i] = Append(s, line)] \in [Tries -> Seq(Lines)]
    BY <1>2 DEF PipeTypes
  <2>2. pipe' = [pipe EXCEPT ![p] = [pipe[p] EXCEPT ![i] = Append(s, line)]]
    BY DEF s, PipeTypes, Put
  <2> QED
    BY <2>1, <2>2 DEF PipeTypes
<1>5. PipeTypes'
  BY <1>2, <1>3, <1>4 DEF PipeTypes
<1>6. Logs(s) /\ line = "log" => Logs(Append(s, line))
  BY <1>2 DEF Logs
<1> QED
  BY <1>3, <1>5, <1>6

\* The node starts in a sound state.
LEMMA FrontsInitSound == FrontsInit => FrontsSound
<1> SUFFICES ASSUME FrontsInit PROVE FrontsSound
  OBVIOUS
<1> USE FrontsAssumption DEF FrontsInit
<1>1. StateTypes
  BY DEF StateTypes, Tries
<1>2. PipeTypes
  BY DEF PipeTypes, Tries, Pipes
<1>3. UnderWay /\ ToldInTime /\ DrainedInTime
  BY DEF UnderWay, ToldInTime, DrainedInTime, Logs
<1>4. NoSilentDirect /\ FrontReady /\ SidecarOwned /\ TorSupervised
  BY DEF NoSilentDirect, FrontReady, SidecarOwned, TorSupervised
<1> QED
  BY <1>1, <1>2, <1>3, <1>4 DEF FrontsSound

\* An attempt begins.
LEMMA ResolveSound ==
  ASSUME FrontsSound, Resolve
  PROVE  FrontsSound'
<1> USE FrontsAssumption, ChoiceFacts DEF FrontsSound, Resolve, ResolveStart, Linked
<1>c. choice' = choice
  BY DEF choice
<1>1. StateTypes'
  <2>1. attempt + 1 \in Tries
    BY DEF StateTypes, Tries
  <2>2. side' \in [Tries -> {"none", "up", "exited", "killed"}]
    BY <2>1 DEF StateTypes
  <2> QED
    BY <2>1, <2>2 DEF StateTypes, Tries
<1>2. PipeTypes' /\ ToldInTime'
  BY DEF PipeTypes, ToldInTime, StateTypes
<1>3. UnderWay'
  <2>1. attempt + 1 \in Tries /\ attempt \in Nat
    BY DEF StateTypes, Tries
  <2>2. \A i \in Tries : i > attempt + 1 => side'[i] = side[i]
    BY <2>1 DEF StateTypes
  <2> QED
    BY <1>c, <2>1, <2>2 DEF UnderWay, Tries
<1>4. DrainedInTime'
  BY DEF DrainedInTime, StateTypes
<1>5. NoSilentDirect'
  BY DEF NoSilentDirect
<1>6. FrontReady'
  BY <1>c DEF FrontReady, StateTypes, UnderWay, DrainedInTime, Tries, SidecarOwned
<1>7. SidecarOwned' /\ TorSupervised'
  <2>1. attempt + 1 \in Tries /\ attempt \in Nat
    BY DEF StateTypes, Tries
  <2>2. CASE side' = side
    BY <2>1, <2>2 DEF SidecarOwned, TorSupervised, StateTypes, UnderWay, Tries
  <2>3. CASE phase' = "announce" /\ side' = [side EXCEPT ![attempt + 1] = "up"]
    <3>1. \A i \in Tries : side'[i] = IF i = attempt + 1 THEN "up" ELSE side[i]
      BY <2>1, <2>3 DEF StateTypes
    <3>2. SidecarOwned'
      BY <2>1, <2>3, <3>1 DEF SidecarOwned, UnderWay, Tries
    <3> QED
      BY <3>1, <3>2 DEF TorSupervised
  <2> QED
    BY <2>2, <2>3
<1> QED
  BY <1>1, <1>2, <1>3, <1>4, <1>5, <1>6, <1>7

\* A line of the sidecar is read.
LEMMA ReadLineSound ==
  ASSUME FrontsSound, ReadLine
  PROVE  FrontsSound'
<1> USE FrontsAssumption, ChoiceFacts DEF FrontsSound, ReadLine, Abandon, DropChild
<1>c. choice' = choice
  BY DEF choice
<1>p. attempt \in Tries /\ "side" \in Pipes
  BY DEF UnderWay, Pipes
<1>q. /\ PipeTypes'
      /\ Head(pipe["side"][attempt]) = pipe["side"][attempt][1] /\ 1 \in DOMAIN pipe["side"][attempt]
      /\ \A q \in Pipes, j \in Tries : Logs(pipe[q][j]) => Logs(pipe'[q][j])
  BY <1>p, LineTaken
<1>1. StateTypes'
  BY DEF StateTypes, Tries, UnderWay
<1>2. PipeTypes' /\ ToldInTime'
  BY <1>p, <1>q DEF ToldInTime
<1>3. UnderWay'
  BY <1>c DEF StateTypes, UnderWay, Tries, SidecarOwned
<1>4. DrainedInTime'
  BY DEF DrainedInTime, StateTypes
<1>5. NoSilentDirect'
  BY DEF NoSilentDirect
<1>6. FrontReady'
  <2>1. Head(pipe["side"][attempt]) = "front" => main[attempt] = "run"
    BY <1>p, <1>q DEF ToldInTime, Logs
  <2> QED
    BY <1>c, <1>p, <2>1 DEF FrontReady, StateTypes, UnderWay, DrainedInTime
<1>7. SidecarOwned' /\ TorSupervised'
  BY DEF SidecarOwned, TorSupervised, StateTypes, UnderWay, Tries
<1> QED
  BY <1>1, <1>2, <1>3, <1>4, <1>5, <1>6, <1>7

\* The sidecar is gone before it announces a front.
LEMMA SidecarGoneSound ==
  ASSUME FrontsSound, SidecarGone
  PROVE  FrontsSound'
<1> USE FrontsAssumption, ChoiceFacts DEF FrontsSound, SidecarGone, Abandon, DropChild
<1>c. choice' = choice
  BY DEF choice
<1>1. StateTypes'
  BY DEF StateTypes, Tries, UnderWay
<1>2. PipeTypes' /\ ToldInTime'
  BY DEF PipeTypes, ToldInTime, StateTypes
<1>3. UnderWay'
  BY <1>c DEF StateTypes, UnderWay, Tries, SidecarOwned
<1>4. DrainedInTime'
  BY DEF DrainedInTime, StateTypes
<1>5. NoSilentDirect'
  BY DEF NoSilentDirect
<1>6. FrontReady'
  BY <1>c DEF FrontReady, StateTypes, UnderWay, DrainedInTime, Tries, SidecarOwned
<1>7. SidecarOwned' /\ TorSupervised'
  BY DEF SidecarOwned, TorSupervised, StateTypes, UnderWay, Tries
<1> QED
  BY <1>1, <1>2, <1>3, <1>4, <1>5, <1>6, <1>7

\* The 30 s are over.
LEMMA TimeoutSound ==
  ASSUME FrontsSound, Timeout
  PROVE  FrontsSound'
<1> USE FrontsAssumption, ChoiceFacts DEF FrontsSound, Timeout, Abandon, DropChild
<1>c. choice' = choice
  BY DEF choice
<1>1. StateTypes'
  BY DEF StateTypes, Tries, UnderWay
<1>2. PipeTypes' /\ ToldInTime'
  BY DEF PipeTypes, ToldInTime, StateTypes
<1>3. UnderWay'
  BY <1>c DEF StateTypes, UnderWay, Tries, SidecarOwned
<1>4. DrainedInTime'
  BY DEF DrainedInTime, StateTypes
<1>5. NoSilentDirect'
  BY DEF NoSilentDirect
<1>6. FrontReady'
  BY <1>c DEF FrontReady, StateTypes, UnderWay, DrainedInTime, Tries, SidecarOwned
<1>7. SidecarOwned' /\ TorSupervised'
  BY DEF SidecarOwned, TorSupervised, StateTypes, UnderWay, Tries
<1> QED
  BY <1>1, <1>2, <1>3, <1>4, <1>5, <1>6, <1>7

\* A session is asked for.
LEMMA OpenSessionSound ==
  ASSUME NEW o, NEW ip, FrontsSound, OpenSession(o, ip)
  PROVE  FrontsSound'
<1> USE FrontsAssumption, ChoiceFacts DEF FrontsSound, OpenSession, Abandon, DropChild, Opened
<1>c. choice' = choice
  BY DEF choice
<1>1. StateTypes'
  BY DEF StateTypes, Tries, UnderWay
<1>2. PipeTypes' /\ ToldInTime'
  BY DEF PipeTypes, ToldInTime, StateTypes
<1>3. UnderWay'
  BY <1>c DEF StateTypes, UnderWay, Tries, SidecarOwned
<1>4. DrainedInTime'
  BY DEF DrainedInTime, StateTypes
<1>5. NoSilentDirect'
  BY DEF NoSilentDirect
<1>6. FrontReady'
  BY <1>c DEF FrontReady, StateTypes, UnderWay, DrainedInTime, Tries, SidecarOwned
<1>7. SidecarOwned' /\ TorSupervised'
  BY DEF SidecarOwned, TorSupervised, StateTypes, UnderWay, Tries
<1> QED
  BY <1>1, <1>2, <1>3, <1>4, <1>5, <1>6, <1>7

\* The link is dialled.
LEMMA DialSound ==
  ASSUME FrontsSound, Dial
  PROVE  FrontsSound'
<1> USE FrontsAssumption, ChoiceFacts DEF FrontsSound, Dial, Abandon, DropChild, KeepFront
<1>c. choice' = choice
  BY DEF choice
<1>1. StateTypes'
  BY DEF StateTypes, Tries, UnderWay
<1>2. PipeTypes' /\ ToldInTime'
  BY DEF PipeTypes, ToldInTime, StateTypes
<1>3. UnderWay'
  BY <1>c DEF StateTypes, UnderWay, Tries, SidecarOwned
<1>4. DrainedInTime'
  BY DEF DrainedInTime, StateTypes
<1>5. NoSilentDirect'
  BY DEF NoSilentDirect
<1>6. FrontReady'
  BY <1>c DEF FrontReady, StateTypes, UnderWay, DrainedInTime, Tries, SidecarOwned
<1>7. SidecarOwned' /\ TorSupervised'
  BY DEF SidecarOwned, TorSupervised, StateTypes, UnderWay, Tries
<1> QED
  BY <1>1, <1>2, <1>3, <1>4, <1>5, <1>6, <1>7

\* The node ends.
LEMMA CtrlCSound ==
  ASSUME FrontsSound, CtrlC
  PROVE  FrontsSound'
<1> USE FrontsAssumption, ChoiceFacts DEF FrontsSound, CtrlC, DropChild
<1>c. choice' = choice
  BY DEF choice
<1>1. StateTypes'
  BY DEF StateTypes, Tries, UnderWay
<1>2. PipeTypes' /\ ToldInTime'
  BY DEF PipeTypes, ToldInTime, StateTypes
<1>3. UnderWay'
  BY <1>c DEF StateTypes, UnderWay, Tries, SidecarOwned
<1>4. DrainedInTime'
  BY DEF DrainedInTime, StateTypes
<1>5. NoSilentDirect'
  BY DEF NoSilentDirect
<1>6. FrontReady'
  BY <1>c DEF FrontReady, StateTypes, UnderWay, DrainedInTime, Tries, SidecarOwned
<1>7. SidecarOwned' /\ TorSupervised'
  BY DEF SidecarOwned, TorSupervised, StateTypes, UnderWay, Tries
<1> QED
  BY <1>1, <1>2, <1>3, <1>4, <1>5, <1>6, <1>7

\* A drain task reads a line.
LEMMA DrainSound ==
  ASSUME NEW i \in Tries, NEW p \in Pipes, FrontsSound, Drain(p, i)
  PROVE  FrontsSound'
<1> USE FrontsAssumption, ChoiceFacts DEF FrontsSound, Drain
<1>c. choice' = choice
  BY DEF choice
<1>1. StateTypes'
  BY DEF StateTypes, Tries, UnderWay
<1>2. PipeTypes' /\ ToldInTime'
  BY LineTaken DEF ToldInTime, Pipes
<1>3. UnderWay'
  BY <1>c DEF StateTypes, UnderWay, Tries, SidecarOwned
<1>4. DrainedInTime'
  BY DEF DrainedInTime, StateTypes
<1>5. NoSilentDirect'
  BY DEF NoSilentDirect
<1>6. FrontReady'
  BY <1>c DEF FrontReady, StateTypes, UnderWay, DrainedInTime, Tries, SidecarOwned
<1>7. SidecarOwned' /\ TorSupervised'
  BY DEF SidecarOwned, TorSupervised, StateTypes, UnderWay, Tries
<1> QED
  BY <1>1, <1>2, <1>3, <1>4, <1>5, <1>6, <1>7

\* A process logs.
LEMMA LogSound ==
  ASSUME NEW i \in Tries, NEW p \in Pipes, FrontsSound, Log(p, i)
  PROVE  FrontsSound'
<1> USE FrontsAssumption, ChoiceFacts DEF FrontsSound, Log, Put
<1>c. choice' = choice
  BY DEF choice
<1>1. StateTypes'
  BY DEF StateTypes, Tries, UnderWay
<1>2. PipeTypes' /\ ToldInTime'
  <2>1. Put(p, i, "log") /\ "log" \in Lines
    BY DEF Lines
  <2> QED
    BY <2>1, LinePut DEF ToldInTime, Pipes
<1>3. UnderWay'
  BY <1>c DEF StateTypes, UnderWay, Tries, SidecarOwned
<1>4. DrainedInTime'
  BY DEF DrainedInTime, StateTypes
<1>5. NoSilentDirect'
  BY DEF NoSilentDirect
<1>6. FrontReady'
  BY <1>c DEF FrontReady, StateTypes, UnderWay, DrainedInTime, Tries, SidecarOwned
<1>7. SidecarOwned' /\ TorSupervised'
  BY DEF SidecarOwned, TorSupervised, StateTypes, UnderWay, Tries
<1> QED
  BY <1>1, <1>2, <1>3, <1>4, <1>5, <1>6, <1>7

\* The sidecar starts its tor.
LEMMA LaunchTorSound ==
  ASSUME NEW i \in Tries, FrontsSound, LaunchTor(i)
  PROVE  FrontsSound'
<1> USE FrontsAssumption, ChoiceFacts DEF FrontsSound, LaunchTor, Exit, TorAfterExit
<1>c. choice' = choice
  BY DEF choice
<1>1. StateTypes'
  BY DEF StateTypes, Tries, UnderWay
<1>2. PipeTypes' /\ ToldInTime'
  BY DEF PipeTypes, ToldInTime, StateTypes
<1>3. UnderWay'
  <2>1. phase' = phase /\ attempt' = attempt
    OBVIOUS
  <2>2. \A j \in Tries : side[j] = "none" => side'[j] = "none"
    BY DEF StateTypes, SidecarOwned
  <2> HIDE DEF LaunchTor
  <2> QED
    BY <1>c, <2>1, <2>2 DEF UnderWay
<1>4. DrainedInTime'
  BY DEF DrainedInTime, StateTypes
<1>5. NoSilentDirect'
  BY DEF NoSilentDirect
<1>6. FrontReady'
  BY <1>c DEF FrontReady, StateTypes, UnderWay, DrainedInTime, Tries, SidecarOwned
<1>7. SidecarOwned' /\ TorSupervised'
  BY DEF SidecarOwned, TorSupervised, StateTypes, UnderWay, Tries
<1> QED
  BY <1>1, <1>2, <1>3, <1>4, <1>5, <1>6, <1>7

\* The sidecar reads a line of its tor.
LEMMA ReadBootSound ==
  ASSUME NEW i \in Tries, FrontsSound, ReadBoot(i)
  PROVE  FrontsSound'
<1> USE FrontsAssumption, ChoiceFacts DEF FrontsSound, ReadBoot
<1>c. choice' = choice
  BY DEF choice
<1>1. StateTypes'
  BY DEF StateTypes, Tries, UnderWay
<1>2. PipeTypes' /\ ToldInTime'
  <2>1. "tor" \in Pipes /\ "side" \in Pipes
    BY DEF Pipes
  <2>2. /\ PipeTypes' 
        /\ \A q \in Pipes, j \in Tries : Logs(pipe[q][j]) => Logs(pipe'[q][j])
    BY <2>1, LineTaken
  <2> QED
    BY <2>1, <2>2 DEF ToldInTime, StateTypes
<1>3. UnderWay'
  BY <1>c DEF StateTypes, UnderWay, Tries, SidecarOwned
<1>4. DrainedInTime'
  BY DEF DrainedInTime, StateTypes
<1>5. NoSilentDirect'
  BY DEF NoSilentDirect
<1>6. FrontReady'
  BY <1>c DEF FrontReady, StateTypes, UnderWay, DrainedInTime, Tries, SidecarOwned
<1>7. SidecarOwned' /\ TorSupervised'
  BY DEF SidecarOwned, TorSupervised, StateTypes, UnderWay, Tries
<1> QED
  BY <1>1, <1>2, <1>3, <1>4, <1>5, <1>6, <1>7

\* The bootstrap fails.
LEMMA BootFailsSound ==
  ASSUME NEW i \in Tries, FrontsSound, BootFails(i)
  PROVE  FrontsSound'
<1> USE FrontsAssumption, ChoiceFacts DEF FrontsSound, BootFails, Exit, TorAfterExit
<1>c. choice' = choice
  BY DEF choice
<1>1. StateTypes'
  BY DEF StateTypes, Tries, UnderWay
<1>2. PipeTypes' /\ ToldInTime'
  BY DEF PipeTypes, ToldInTime, StateTypes
<1>3. UnderWay'
  BY <1>c DEF StateTypes, UnderWay, Tries, SidecarOwned
<1>4. DrainedInTime'
  BY DEF DrainedInTime, StateTypes
<1>5. NoSilentDirect'
  BY DEF NoSilentDirect
<1>6. FrontReady'
  BY <1>c DEF FrontReady, StateTypes, UnderWay, DrainedInTime, Tries, SidecarOwned
<1>7. SidecarOwned' /\ TorSupervised'
  BY DEF SidecarOwned, TorSupervised, StateTypes, UnderWay, Tries
<1> QED
  BY <1>1, <1>2, <1>3, <1>4, <1>5, <1>6, <1>7

\* The sidecar asks for a circuit.
LEMMA CircuitSound ==
  ASSUME NEW i \in Tries, FrontsSound, Circuit(i)
  PROVE  FrontsSound'
<1> USE FrontsAssumption, ChoiceFacts DEF FrontsSound, Circuit, Exit, TorAfterExit
<1>c. choice' = choice
  BY DEF choice
<1>1. StateTypes'
  <2>1. skew' = skew
    BY ReplyRead DEF StateTypes
  <2> QED
    BY <2>1 DEF StateTypes
<1>2. PipeTypes' /\ ToldInTime'
  BY DEF PipeTypes, ToldInTime, StateTypes
<1>3. UnderWay'
  BY <1>c DEF StateTypes, UnderWay, Tries, SidecarOwned
<1>4. DrainedInTime'
  BY DEF DrainedInTime, StateTypes
<1>5. NoSilentDirect'
  BY DEF NoSilentDirect
<1>6. FrontReady'
  BY <1>c DEF FrontReady, StateTypes, UnderWay, DrainedInTime, Tries, SidecarOwned
<1>7. SidecarOwned'
  <2>1. phase' = phase /\ attempt' = attempt
    OBVIOUS
  <2>2. \A j \in Tries : side'[j] \in {"up", "killed"} => side'[j] = side[j]
    BY DEF StateTypes
  <2> HIDE DEF Circuit
  <2> QED
    BY <2>1, <2>2 DEF SidecarOwned
<1>8. TorSupervised'
  BY DEF SidecarOwned, TorSupervised, StateTypes, UnderWay, Tries
<1> QED
  BY <1>1, <1>2, <1>3, <1>4, <1>5, <1>6, <1>7, <1>8

\* The sidecar announces its front.
LEMMA AnnounceFrontSound ==
  ASSUME NEW i \in Tries, FrontsSound, AnnounceFront(i)
  PROVE  FrontsSound'
<1> USE FrontsAssumption, ChoiceFacts DEF FrontsSound, AnnounceFront, Announces
<1>c. choice' = choice
  BY DEF choice
<1>1. StateTypes'
  BY DEF StateTypes, Tries, UnderWay
<1>2. PipeTypes' /\ ToldInTime'
  <2>1. PICK line \in {"front", "bad front"} : Put("side", i, line)
    OBVIOUS
  <2>2. line \in Lines /\ "side" \in Pipes
    BY DEF Lines, Pipes
  <2>3. /\ PipeTypes'
        /\ \A j \in Tries : Logs(pipe["side"][j]) /\ j # i => Logs(pipe'["side"][j])
    BY <2>1, <2>2, LinePut
  <2> QED
    BY <2>3 DEF ToldInTime, StateTypes
<1>3. UnderWay'
  BY <1>c DEF StateTypes, UnderWay, Tries, SidecarOwned
<1>4. DrainedInTime'
  BY DEF DrainedInTime, StateTypes
<1>5. NoSilentDirect'
  BY DEF NoSilentDirect
<1>6. FrontReady'
  BY <1>c DEF FrontReady, StateTypes, UnderWay, DrainedInTime, Tries, SidecarOwned
<1>7. SidecarOwned' /\ TorSupervised'
  BY DEF SidecarOwned, TorSupervised, StateTypes, UnderWay, Tries
<1> QED
  BY <1>1, <1>2, <1>3, <1>4, <1>5, <1>6, <1>7

\* The tor is bootstrapped.
LEMMA TorBootsSound ==
  ASSUME NEW i \in Tries, FrontsSound, TorBoots(i)
  PROVE  FrontsSound'
<1> USE FrontsAssumption, ChoiceFacts DEF FrontsSound, TorBoots
<1>c. choice' = choice
  BY DEF choice
<1>1. StateTypes'
  BY DEF StateTypes, Tries, UnderWay
<1>2. PipeTypes' /\ ToldInTime'
  <2>1. "Bootstrapped 100%" \in Lines /\ "side" \in Pipes /\ "tor" \in Pipes /\ "side" # "tor"
    BY DEF Lines, Pipes
  <2>2. /\ PipeTypes'
        /\ \A j \in Tries : Logs(pipe["side"][j]) => Logs(pipe'["side"][j])
    BY <2>1, LinePut
  <2> QED
    BY <2>2 DEF ToldInTime
<1>3. UnderWay'
  BY <1>c DEF StateTypes, UnderWay, Tries, SidecarOwned
<1>4. DrainedInTime'
  BY DEF DrainedInTime, StateTypes
<1>5. NoSilentDirect'
  BY DEF NoSilentDirect
<1>6. FrontReady'
  BY <1>c DEF FrontReady, StateTypes, UnderWay, DrainedInTime, Tries, SidecarOwned
<1>7. SidecarOwned' /\ TorSupervised'
  BY DEF SidecarOwned, TorSupervised, StateTypes, UnderWay, Tries
<1> QED
  BY <1>1, <1>2, <1>3, <1>4, <1>5, <1>6, <1>7

\* The tor exits.
LEMMA TorExitsSound ==
  ASSUME NEW i \in Tries, FrontsSound, TorExits(i)
  PROVE  FrontsSound'
<1> USE FrontsAssumption, ChoiceFacts DEF FrontsSound, TorExits
<1>c. choice' = choice
  BY DEF choice
<1>1. StateTypes'
  BY DEF StateTypes, Tries, UnderWay
<1>2. PipeTypes' /\ ToldInTime'
  BY DEF PipeTypes, ToldInTime, StateTypes
<1>3. UnderWay'
  BY <1>c DEF StateTypes, UnderWay, Tries, SidecarOwned
<1>4. DrainedInTime'
  BY DEF DrainedInTime, StateTypes
<1>5. NoSilentDirect'
  BY DEF NoSilentDirect
<1>6. FrontReady'
  BY <1>c DEF FrontReady, StateTypes, UnderWay, DrainedInTime, Tries, SidecarOwned
<1>7. SidecarOwned' /\ TorSupervised'
  BY DEF SidecarOwned, TorSupervised, StateTypes, UnderWay, Tries
<1> QED
  BY <1>1, <1>2, <1>3, <1>4, <1>5, <1>6, <1>7

\* Every step of the node, of its sidecars and of what is outside.
LEMMA FrontsStep ==
  ASSUME FrontsSound, [FrontsNext]_frontVars
  PROVE  FrontsSound'
<1>1. CASE Ingress
  BY <1>1, ResolveSound, ReadLineSound, SidecarGoneSound, TimeoutSound, DialSound, OpenSessionSound
  DEF Ingress
<1>2. CASE CtrlC
  BY <1>2, CtrlCSound
<1>3. CASE \E i \in Tries : Sidecar(i) \/ ProcessStep(i) \/ \E p \in {"side", "tor"} : Drain(p, i)
  BY <1>3, LaunchTorSound, ReadBootSound, BootFailsSound, CircuitSound, AnnounceFrontSound,
     TorBootsSound, TorExitsSound, LogSound, DrainSound
  DEF Sidecar, ProcessStep, Pipes
<1>4. CASE UNCHANGED frontVars
  BY <1>4
  DEF frontVars, procs, FrontsSound, StateTypes, PipeTypes, UnderWay, ToldInTime, DrainedInTime,
      NoSilentDirect, FrontReady, SidecarOwned, TorSupervised, choice
<1> QED
  BY <1>1, <1>2, <1>3, <1>4 DEF FrontsNext

\* The inductive invariant of the front.
THEOREM FrontsInvariant == FrontsSpec => []FrontsSound
<1> QED
  BY FrontsInitSound, FrontsStep, PTL DEF FrontsSpec

\* front::resolve and the ingress loop: a node that was asked for a substrate never
\* dials the gateway itself, and dials a front only once what is behind it stands.
THEOREM NodeDialsTheSubstrate == FrontsSpec => []DialsTheSubstrate
<1>1. FrontsSound => DialsTheSubstrate
  BY DEF FrontsSound, StateTypes, PipeTypes, DialsTheSubstrate, FrontsTypeOK, Pipes
<1> QED
  BY <1>1, FrontsInvariant, PTL

\* spawn_sidecar and TorDaemon: no sidecar outlives its attempt, and one that ends by
\* itself takes its tor with it (one that is killed does not).
THEOREM OwnersEndChildren == FrontsSpec => []OwnersClean
<1>1. FrontsSound => OwnersClean
  BY DEF FrontsSound, OwnersClean
<1> QED
  BY <1>1, FrontsInvariant, PTL

=============================================================================
