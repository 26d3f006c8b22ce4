------------------------------ MODULE Rotation ------------------------------
(***************************************************************************)
(* Circuit rotation (crates/quicmix/src/rotation.rs) in the program that   *)
(* exercises it over Nym (nym_rotate.rs): fresh circuits one after the     *)
(* other, a pre-warmed pool, and then one session carried over two         *)
(* circuits.  The server that records sessions, one task for each          *)
(* connection, runs beside it; that of rotate.rs is the same.  A circuit   *)
(* is known by its number.                                                 *)
(***************************************************************************)
EXTENDS Integers, Sequences

CONSTANTS
  NCold, NWarm,  \* n_cold.max(1), n_warm
  Ports          \* ephemeral ports of the client's host

ASSUME RotationAssumption == NCold \in Nat \ {0} /\ NWarm \in Nat

Circuits == 1..(NCold + NWarm + 2)
Sids == 1..(NCold + NWarm + 1)

VARIABLES
  step,      \* of main: cold, prewarm, warm, first, second, done or failed
  loop,      \* iterations of its loop
  ids,       \* session ids drawn by rand_id, which never repeats one
  made,      \* circuits built so far
  circuits,  \* circuits in scope: their local ports
  pool,      \* CircuitPool::warm
  kept,      \* cold_c, or 0
  wait,      \* the circuit whose ack main awaits, or 0
  stream,    \* per circuit: the session id and the stage of its last message
  dead,      \* connections that idled out
  log        \* the server's sessions: per id the source addresses

client == <<step, loop, ids, made, circuits, pool, kept, wait>>
rotationVars == <<client, stream, dead, log>>

\* The source address that the server sees: that of the relay or Nym client that
\* make_front set up for this circuit (the bug: one front for all of them).
SourceShared(c) == 0
Source(c) == c

RotationInit ==
  /\ step = "cold"
  /\ loop = 0 /\ ids = 0 /\ made = 0 /\ circuits = <<>> /\ pool = <<>> /\ kept = 0 /\ wait = 0
  /\ stream = [c \in Circuits |-> <<0, "none">>] /\ dead = {} /\ log = [s \in Sids |-> <<>>]

-----------------------------------------------------------------------------
\* main returns an error: everything it holds is dropped.
Failed ==
  /\ step' = "failed" /\ circuits' = <<>> /\ pool' = <<>> /\ kept' = 0 /\ wait' = 0
  /\ UNCHANGED <<loop, ids, made, stream, dead, log>>

\* connect_fresh_with: a new front, a new endpoint on a port that is free.
Fresh(c, port) ==
  /\ c = made + 1 /\ made' = c
  /\ \A d \in DOMAIN circuits : circuits[d] # port
  /\ circuits' = [d \in DOMAIN circuits \cup {c} |-> IF d = c THEN port ELSE circuits[d]]

\* session_send: one stream with id and message, then the ack is awaited.
Send(c, sid) == wait' = c /\ stream' = [stream EXCEPT ![c] = <<sid, "sent">>]

\* A circuit is built on the hot path and used at once.
Cold(port) ==
  /\ step = "cold" /\ wait = 0 /\ loop < NCold
  /\ Fresh(made + 1, port) /\ ids' = ids + 1 /\ Send(made + 1, ids + 1)
  /\ UNCHANGED <<step, loop, pool, kept, dead, log>>
\* prewarm_with builds one more than the warm loop takes (the bug: it does not).
SpareNone == 0
Spare == 1
Prewarm(port) ==
  /\ step = "prewarm" /\ loop < NWarm + Spare
  /\ Fresh(made + 1, port) /\ pool' = Append(pool, made + 1)
  /\ loop' = loop + 1
  /\ UNCHANGED <<step, ids, kept, wait, stream, dead, log>>
\* Either may fail.
ConnectFails == step \in {"cold", "prewarm"} /\ wait = 0 /\ Failed

NextLoop ==
  /\ wait = 0
  /\ \/ step = "cold" /\ loop = NCold /\ step' = "prewarm"
     \/ step = "prewarm" /\ loop = NWarm + Spare /\ step' = "warm"
     \/ step = "warm" /\ loop = NWarm /\ step' = "first"
  /\ loop' = 0
  /\ UNCHANGED <<ids, made, circuits, pool, kept, wait, stream, dead, log>>

\* take pops the last circuit; it is dropped at the end of the iteration.
Warm ==
  /\ step = "warm" /\ wait = 0 /\ loop < NWarm /\ pool # <<>>
  /\ pool' = SubSeq(pool, 1, Len(pool) - 1) /\ ids' = ids + 1 /\ Send(pool[Len(pool)], ids + 1)
  /\ UNCHANGED <<step, loop, made, circuits, kept, dead, log>>
\* The session that is carried over: first on the last cold circuit, ...
First ==
  /\ step = "first" /\ wait = 0
  /\ ids' = ids + 1 /\ Send(kept, ids + 1)
  /\ UNCHANGED <<step, loop, made, circuits, pool, kept, dead, log>>
\* ... then on one of the pool, or a fresh one if there were none.
Second ==
  /\ step = "second" /\ wait = 0
  /\ IF pool # <<>>
     THEN pool' = SubSeq(pool, 1, Len(pool) - 1) /\ Send(pool[Len(pool)], ids) /\ UNCHANGED <<made, circuits>>
     ELSE /\ \E port \in Ports : Fresh(made + 1, port)
          /\ Send(made + 1, ids) /\ UNCHANGED pool
  /\ UNCHANGED <<step, loop, ids, kept, dead, log>>

\* session_send returns: with the ack, or with the loss of the connection.
Without(c) == [d \in DOMAIN circuits \ {c} |-> circuits[d]]
ReadAck ==
  /\ wait # 0 /\ stream[wait][2] = "acked" /\ wait' = 0
  /\ CASE step = "cold"  -> kept' = wait /\ circuits' = Without(kept) /\ loop' = loop + 1 /\ UNCHANGED step
       [] step = "warm"  -> circuits' = Without(wait) /\ loop' = loop + 1 /\ UNCHANGED <<step, kept>>
       [] step = "first" -> step' = "second" /\ UNCHANGED <<loop, circuits, kept>>
       [] OTHER          -> step' = "done" /\ UNCHANGED <<loop, circuits, kept>>
  /\ UNCHANGED <<ids, made, pool, stream, dead, log>>
SendFails == wait # 0 /\ wait \in dead /\ Failed

-----------------------------------------------------------------------------
\* The server's task of a connection: the stream is read to its end, the session
\* recorded, the ack written (the bug: the ack comes first).
AckEarly(c) == stream[c][2] \in {"sent", "recorded"}
AckReady(c) == stream[c][2] = "recorded"
Record(c) ==
  /\ stream[c][2] = "sent" /\ c \notin dead
  /\ log' = [log EXCEPT ![stream[c][1]] = Append(@, Source(c))]
  /\ stream' = [stream EXCEPT ![c][2] = "recorded"]
  /\ UNCHANGED <<client, dead>>
Ack(c) ==
  /\ AckReady(c) /\ c \notin dead
  /\ stream' = [stream EXCEPT ![c][2] = "acked"]
  /\ UNCHANGED <<client, dead, log>>

\* The idle timeout that tolerant sets, on a path that has gone silent.
IdleOut(c) ==
  /\ c \in DOMAIN circuits \ dead
  /\ dead' = dead \cup {c}
  /\ UNCHANGED <<client, stream, log>>

Main ==
  \/ \E port \in Ports : Cold(port) \/ Prewarm(port)
  \/ NextLoop \/ Warm \/ First \/ Second \/ ReadAck \/ SendFails
RotationNext ==
  \/ Main \/ ConnectFails
  \/ \E c \in Circuits : Record(c) \/ Ack(c) \/ IdleOut(c)

RotationSpec == RotationInit /\ [][RotationNext]_rotationVars

-----------------------------------------------------------------------------
RotationTypeOK ==
  /\ step \in {"cold", "prewarm", "warm", "first", "second", "done", "failed"}
  /\ made \in 0..(NCold + NWarm + 2) /\ ids \in {0} \cup Sids
  /\ DOMAIN circuits \subseteq 1..made
  /\ \A c \in DOMAIN circuits : circuits[c] \in Ports
  /\ {pool[i] : i \in DOMAIN pool} \cup ({kept, wait} \ {0}) \subseteq DOMAIN circuits

\* A message is acknowledged only when the server has recorded it, so a session
\* has the source of every circuit it was acknowledged on.
Entries(q) == {q[i] : i \in DOMAIN q}
AckedIsRecorded ==
  \A s \in Sids : \A c \in Circuits : stream[c] = <<s, "acked">> => Source(c) \in Entries(log[s])

\* Rotation never waits for a new circuit: the pool has one for every take.
PoolSuffices ==
  wait = 0 /\ ((step = "warm" /\ loop < NWarm) \/ step = "second") => pool # <<>>

\* "session seen on both circuits", "the two circuits look unrelated on the wire"
\* and "fresh endpoint per circuit": at the end the session was recorded once from
\* each of two addresses, over two circuits with ports of their own.
SessionCarried ==
  step = "done" =>
    /\ Len(log[ids]) = 2 /\ log[ids][1] # log[ids][2]
    /\ \E c \in DOMAIN circuits \ {kept} : stream[c][1] = ids /\ circuits[c] # circuits[kept]

\* All of it, over well-typed states: the session moves to a warm circuit without
\* waiting, and the server has what the client believes it has.
SessionMoves == RotationTypeOK /\ AckedIsRecorded /\ PoolSuffices /\ SessionCarried

=============================================================================
