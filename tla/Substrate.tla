----------------------------- MODULE Substrate -----------------------------
(***************************************************************************)
(* The boundary that wraps every mix transport                             *)
(* (crates/quicmix/src/substrate.rs): a bounded queue in front of a send   *)
(* pump that releases one datagram per slot_interval, and a receive pump   *)
(* in front of a bounded queue for the consumer.  Callers, the two pumps,  *)
(* the consumer, the inner transport and whoever publishes the oracle run  *)
(* concurrently; every step between two awaits is one action.              *)
(*                                                                         *)
(* A datagram is the number of its acceptance into the send queue (or of   *)
(* its arrival from the inner transport), which is all that order, loss    *)
(* and duplication depend on.                                              *)
(***************************************************************************)
EXTENDS Integers, Sequences

CONSTANTS
  Callers,       \* tasks that send
  TimedCallers,  \* those that use send_timeout instead of send
  QueueDepth,    \* the argument of Substrate::new
  Slots,         \* the slot intervals the oracle may publish, in clock units
  Errors,        \* the typed errors the inner transport may end with
  Offers,        \* bound of the model: datagrams offered for sending
  Arrivals,      \* bound of the model: datagrams the inner transport yields
  None

\* queue_depth.max(1)
Depth == IF QueueDepth >= 1 THEN QueueDepth ELSE 1

ASSUME BoundaryAssumption ==
  /\ TimedCallers \subseteq Callers
  /\ QueueDepth \in Nat /\ Offers \in Nat /\ Arrivals \in Nat
  /\ Slots \subseteq Nat /\ \E s \in Slots : \A t \in Slots : t <= s
  /\ Errors \cap Nat = {} /\ None \notin Nat \cup Errors

VARIABLES
  sendQ,      \* the paced queue
  waiting,    \* callers blocked for room, in the order they came
  sending,    \* the datagram the send pump is handing to the inner transport, or None
  nap,        \* what the pump still sleeps of its slot
  slot,       \* the oracle's slot_interval, as last published
  sent, sendErrors, dropped, received, queueDepth,   \* Metrics
  recvQ,      \* what the consumer has not taken yet
  arriving,   \* what the receive pump waits to put there, or None
  recvUp,     \* the receive pump is still in its loop
  alive,      \* somebody holds the Substrate
  accepted,   \* history: datagrams let into the queue
  gap, due,   \* history: time since the last inner send ended, the slot read then
  failed,     \* history: the error the inner transport ended with, or None
  taken, told, eof  \* history: what the consumer got (datagrams; the error; Closed)

sendVars == <<sendQ, waiting, sending, nap, sent, sendErrors, dropped, queueDepth,
              accepted, gap, due>>
recvVars == <<received, recvQ, arriving, recvUp, failed, taken, told, eof>>
vars == <<sendVars, recvVars, slot, alive>>

\* The longest slot: history needs no longer memory.
Longest == CHOOSE s \in Slots : \A t \in Slots : t <= s

Init ==
  /\ sendQ = <<>> /\ waiting = <<>> /\ sending = None /\ nap = 0
  /\ slot \in Slots
  /\ sent = 0 /\ sendErrors = 0 /\ dropped = 0 /\ received = 0 /\ queueDepth = 0
  /\ recvQ = <<>> /\ arriving = None /\ recvUp = TRUE /\ alive = TRUE
  /\ accepted = 0 /\ gap = 0 /\ due = 0
  /\ failed = None /\ taken = 0 /\ told = FALSE /\ eof = FALSE

-----------------------------------------------------------------------------
\* tokio's mpsc: a free place goes to those who wait for one first.
Blocked(c) == \E i \in DOMAIN waiting : waiting[i] = c
HasRoom == Len(sendQ) < Depth /\ waiting = <<>>
Offer(c) == alive /\ ~Blocked(c) /\ accepted + dropped + Len(waiting) < Offers

Enqueue ==
  /\ accepted' = accepted + 1
  /\ sendQ' = Append(sendQ, accepted + 1)

\* send, send_timeout, try_send and the lossy send, with room in the queue.
SendNow(c) ==
  /\ Offer(c) /\ HasRoom
  /\ Enqueue
  /\ UNCHANGED <<waiting, sending, nap, sent, sendErrors, dropped, queueDepth, gap, due,
                 recvVars, slot, alive>>

\* send and send_timeout without room: wait for it.
SendBlock(c) ==
  /\ Offer(c) /\ ~HasRoom
  /\ waiting' = Append(waiting, c)
  /\ UNCHANGED <<sendQ, sending, nap, sent, sendErrors, dropped, queueDepth, accepted,
                 gap, due, recvVars, slot, alive>>

\* MixTransport::send without room: drop it and count it.  (try_send without
\* room reports Backpressure and changes nothing.)
SendLossy(c) ==
  /\ Offer(c) /\ ~HasRoom
  /\ dropped' = dropped + 1
  /\ UNCHANGED <<sendQ, waiting, sending, nap, sent, sendErrors, queueDepth, accepted,
                 gap, due, recvVars, slot, alive>>

\* Whoever waits at place k of the channel's semaphore leaves it.
Without(q, k) == [j \in 1..(Len(q) - 1) |-> IF j < k THEN q[j] ELSE q[j + 1]]

\* As many of those waiting as there are free places may go on, in any order.
Unblock(k) ==
  /\ k \in DOMAIN waiting /\ k <= Depth - Len(sendQ)
  /\ Enqueue
  /\ waiting' = Without(waiting, k)
  /\ UNCHANGED <<sending, nap, sent, sendErrors, dropped, queueDepth, gap, due,
                 recvVars, slot, alive>>

\* send_timeout gives up (never when a place is already its own): Backpressure,
\* and the datagram is not queued.
SendExpires(k) ==
  /\ k \in DOMAIN waiting /\ waiting[k] \in TimedCallers /\ k > Depth - Len(sendQ)
  /\ waiting' = Without(waiting, k)
  /\ UNCHANGED <<sendQ, sending, nap, sent, sendErrors, dropped, queueDepth, accepted,
                 gap, due, recvVars, slot, alive>>

-----------------------------------------------------------------------------
\* When the send pump takes the next datagram (the bugs: without waiting its slot
\* out; only while the Substrate is held; not after a failed send).
PumpReadyAtOnce == sending = None
PumpReadyHeld == sending = None /\ nap = 0 /\ alive
PumpReadyClean == sending = None /\ nap = 0 /\ sendErrors = 0
PumpReady == sending = None /\ nap = 0

\* The gauge is stored when a datagram leaves.
DepthGauge == Len(sendQ) - 1

PumpTake ==
  /\ PumpReady /\ sendQ # <<>>
  /\ sending' = Head(sendQ)
  /\ sendQ' = Tail(sendQ)
  /\ queueDepth' = DepthGauge
  /\ UNCHANGED <<waiting, nap, sent, sendErrors, dropped, accepted, gap, due,
                 recvVars, slot, alive>>

\* The count of failed sends (the bug: a failure goes unnoticed).
FailuresQuiet(ok) == sendErrors
Failures(ok) == IF ok THEN sendErrors ELSE sendErrors + 1

\* inner.try_send is back: count the outcome, then sleep the slot in force now.
PumpDone(ok) ==
  /\ sending # None
  /\ sending' = None
  /\ sent' = IF ok THEN sent + 1 ELSE sent
  /\ sendErrors' = Failures(ok)
  /\ nap' = slot /\ due' = slot /\ gap' = 0
  /\ UNCHANGED <<sendQ, waiting, dropped, queueDepth, accepted, recvVars, slot, alive>>

\* update_oracle: the watch channel holds the last value only.
UpdateOracle(s) ==
  /\ alive /\ slot' = s
  /\ UNCHANGED <<sendVars, recvVars, alive>>

Time ==
  /\ nap' = IF nap = 0 THEN 0 ELSE nap - 1
  /\ gap' = IF gap < Longest THEN gap + 1 ELSE gap
  /\ UNCHANGED <<sendQ, waiting, sending, sent, sendErrors, dropped, queueDepth, accepted,
                 due, recvVars, slot, alive>>

-----------------------------------------------------------------------------
\* inner.try_recv is back with a datagram: it is counted, then sent on (the bug:
\* dropped when the consumer's queue is full).
InnerOkLossy ==
  /\ recvUp /\ arriving = None /\ received < Arrivals
  /\ received' = received + 1
  /\ arriving' = IF Len(recvQ) < Depth THEN received + 1 ELSE None
  /\ UNCHANGED <<recvQ, recvUp, failed, taken, told, eof, sendVars, slot, alive>>
InnerOk ==
  /\ recvUp /\ arriving = None /\ received < Arrivals
  /\ received' = received + 1
  /\ arriving' = received + 1
  /\ UNCHANGED <<recvQ, recvUp, failed, taken, told, eof, sendVars, slot, alive>>

\* inner.try_recv is back with an error: the last thing to send on.
InnerErr(e) ==
  /\ recvUp /\ arriving = None
  /\ failed' = e
  /\ arriving' = e
  /\ UNCHANGED <<received, recvQ, recvUp, taken, told, eof, sendVars, slot, alive>>

\* What the consumer's queue becomes (the bug: the error is not passed on).
PassedMute == IF arriving \in Errors THEN recvQ ELSE Append(recvQ, arriving)
Passed == Append(recvQ, arriving)

\* recv_tx.send: wait for room; after an error the pump ends.
Forward ==
  /\ arriving # None /\ alive /\ Len(recvQ) < Depth
  /\ recvQ' = Passed
  /\ recvUp' = (arriving \notin Errors)
  /\ arriving' = None
  /\ UNCHANGED <<received, failed, taken, told, eof, sendVars, slot, alive>>

\* ... or the receiver is gone, and the pump ends.
ForwardFails ==
  /\ arriving # None /\ ~alive
  /\ arriving' = None /\ recvUp' = FALSE
  /\ UNCHANGED <<received, recvQ, failed, taken, told, eof, sendVars, slot, alive>>

\* Substrate::recv (MixTransport::recv maps an error to None).
Recv ==
  /\ alive /\ recvQ # <<>>
  /\ recvQ' = Tail(recvQ)
  /\ IF Head(recvQ) \in Errors
     THEN told' = TRUE /\ UNCHANGED taken
     ELSE taken' = taken + 1 /\ UNCHANGED told
  /\ UNCHANGED <<received, arriving, recvUp, failed, eof, sendVars, slot, alive>>

\* The pump is over and nothing is left: Closed, every time.
RecvClosed ==
  /\ alive /\ recvQ = <<>> /\ ~recvUp
  /\ eof' = TRUE
  /\ UNCHANGED <<received, recvQ, arriving, recvUp, failed, taken, told, sendVars, slot, alive>>

\* The last holder drops the Substrate: no caller can be inside it.  Both
\* channels close; the send pump still drains what was accepted.
Discard ==
  /\ alive /\ waiting = <<>>
  /\ alive' = FALSE
  /\ recvQ' = <<>>
  /\ UNCHANGED <<received, arriving, recvUp, failed, taken, told, eof, sendVars, slot>>

Calls ==
  \/ \E c \in Callers : SendNow(c) \/ SendBlock(c) \/ SendLossy(c)
  \/ \E k \in DOMAIN waiting : SendExpires(k)
Pump == PumpTake \/ \E ok \in BOOLEAN : PumpDone(ok)
Inner == InnerOk \/ \E e \in Errors : InnerErr(e)
Consumer == Recv \/ RecvClosed

Next ==
  \/ Calls \/ \E k \in DOMAIN waiting : Unblock(k)
  \/ Pump \/ \E s \in Slots : UpdateOracle(s)
  \/ Inner \/ Forward \/ ForwardFails \/ Consumer
  \/ Discard \/ Time

Spec == Init /\ [][Next]_vars

\* The pumps, a woken caller and the clock go on.  It is assumed of the inner
\* transport that a send returns: the pump has no timeout of its own.
FairSpec ==
  /\ Spec
  /\ WF_vars(Pump) /\ WF_vars(Unblock(1)) /\ WF_vars(Time)
  /\ WF_vars(Forward \/ ForwardFails)

-----------------------------------------------------------------------------
TypeOK ==
  /\ sendQ \in Seq(Nat) /\ waiting \in Seq(Callers) /\ sending \in Nat \cup {None}
  /\ {nap, slot, due, gap} \subseteq Nat
  /\ {sent, sendErrors, dropped, received, queueDepth, accepted, taken} \subseteq Nat
  /\ recvQ \in Seq(Nat \cup Errors) /\ arriving \in Nat \cup Errors \cup {None}
  /\ failed \in Errors \cup {None}
  /\ recvUp \in BOOLEAN /\ alive \in BOOLEAN /\ told \in BOOLEAN /\ eof \in BOOLEAN

\* Whatever the boundary accepted is sent, reported as a send error, in the
\* hands of the pump or in the queue, and in the order of acceptance: "real
\* errors are counted, never dropped", nothing is duplicated or overtaken.
Finished == sent + sendErrors
InPump == IF sending = None THEN 0 ELSE 1
SendConserved ==
  /\ Finished + InPump + Len(sendQ) = accepted
  /\ sending # None => sending = Finished + 1
  /\ \A i \in DOMAIN sendQ : sendQ[i] = Finished + InPump + i

\* Backpressure bounds the memory of both directions: one datagram in the hands
\* of each pump, Depth in each queue.
QueuesBounded == Len(sendQ) <= Depth /\ Len(recvQ) <= Depth

\* Pacing: after an inner send the next one waits out the slot that was in
\* force when it ended, also after a failed send and whatever is published in
\* the meantime.
Paced == [][sending = None /\ sending' # None => gap >= due]_vars

\* While the Substrate is held, what the inner transport yielded is with the
\* consumer, in its queue or in the pump, in order and without gaps; an error
\* comes after all of it.
Arrived(i) == IF recvQ[i] \in Errors THEN recvQ[i] = failed /\ i = Len(recvQ) /\ ~recvUp
                                     ELSE recvQ[i] = taken + i
Datagrams == IF recvQ # <<>> /\ recvQ[Len(recvQ)] \in Errors THEN Len(recvQ) - 1
                                                             ELSE Len(recvQ)
RecvConserved ==
  alive => /\ \A i \in DOMAIN recvQ : Arrived(i)
           /\ received = taken + Datagrams + (IF arriving \in Nat THEN 1 ELSE 0)

\* Closed is the end: the consumer sees it only after every datagram, and after
\* the typed error that ended the transport, which is neither lost nor turned
\* into Closed.
ClosedIsLast == eof => taken = received /\ told /\ recvQ = <<>> /\ ~recvUp

\* Every accepted datagram is eventually handed to the inner transport, even
\* when the Substrate is dropped with the queue full.
Drained == \A n \in 1..Offers : accepted >= n ~> Finished >= n

\* No caller of send is blocked forever.
Admitted == \A c \in Callers : Blocked(c) ~> ~Blocked(c)

\* The send direction makes progress at both of its ends: callers get in, and
\* what got in gets out, in spite of failing sends, a full queue and the drop.
SendsGetThrough == Drained /\ Admitted

=============================================================================
