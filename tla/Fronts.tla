------------------------------- MODULE Fronts -------------------------------
(***************************************************************************)
(* How a node gets the UDP front of a circuit (crates/quicmix/src/front.rs *)
(* resolve, called by the ingress loop of autopilot.rs), and the processes *)
(* and sessions behind it: a sidecar that is spawned and announces its     *)
(* front on a pipe (the Tor sidecar, which in turn runs a native tor and   *)
(* waits for its bootstrap on another pipe), or a session on a HOPR node.  *)
(* A process is known by the attempt that started it.  Operating system,   *)
(* tor, SOCKS proxy and HOPR node are external.                            *)
(***************************************************************************)
EXTENDS Integers, Sequences

CONSTANTS
  Envs,      \* the environments a node may be started in
  MaxTries,  \* bound of the model: attempts of the ingress loop
  PipeCap,   \* lines a pipe holds before its writer blocks
  Chatter    \* bound of the model: log lines of each process

ASSUME FrontsAssumption == {MaxTries, PipeCap, Chatter} \subseteq Nat

Tries == 1..MaxTries

VARIABLES
  env,       \* QUICMIX_SUBSTRATE, QUICMIX_SIDECAR_FRONT, QUICMIX_SIDECAR_CMD
  phase,     \* of the ingress task: idle, announce, open, dial, serve, over
  attempt,   \* its attempt
  dialled,   \* what connect_via is given: "gateway", "front" or "none"
  side,      \* each attempt's sidecar: none, up, exited or killed
  main,      \* where its main is: boot, wait, circuit, print or run
  tor,       \* the tor it started: none, up, exited or killed
  pipe,      \* unread stdout of sidecar ("side") and tor ("tor")
  chat,      \* lines each of them still logs
  drained,   \* the pipes that have a task which drains them
  skew,      \* bytes of the SOCKS reply the sidecar left unread
  sessions   \* attempts whose session is open on the HOPR node

procs == <<side, main, tor, pipe, chat, drained, skew>>
frontVars == <<env, phase, attempt, dialled, procs, sessions>>

-----------------------------------------------------------------------------
\* SubstrateChoice::from_env.  A name is "unset" or that of a substrate, the other
\* variables are "unset", "bad" or "ok".  (the bug: a front that cannot be parsed is
\* as good as none)
Named(e) == e.name \notin {"unset", "direct"}
from_env_lenient(e) ==
  CASE ~Named(e)          -> "Direct"
    [] e.front = "ok"     -> "SidecarAt"
    [] e.cmd = "ok"       -> "SidecarCmd"
    [] OTHER              -> "Direct"
from_env(e) ==
  CASE ~Named(e)          -> "Direct"
    [] e.front # "unset"  -> IF e.front = "ok" THEN "SidecarAt" ELSE "error"
    [] e.cmd # "unset"    -> IF e.cmd = "ok" THEN "SidecarCmd" ELSE "error"
    [] OTHER              -> "Named"
choice == from_env(env)

\* LinkedSubstrates::build: HOPR is linked (Katzenpost.tla has the other one).
Linked(name) == name = "hopr"

FrontsInit ==
  /\ env \in Envs
  /\ phase = IF choice = "error" THEN "over" ELSE "idle"
  /\ attempt = 0 /\ dialled = "none"
  /\ side = [i \in Tries |-> "none"] /\ main = [i \in Tries |-> "boot"]
  /\ tor = [i \in Tries |-> "none"]
  /\ pipe = [p \in {"side", "tor"} |-> [i \in Tries |-> <<>>]]
  /\ chat = [p \in {"side", "tor"} |-> [i \in Tries |-> Chatter]]
  /\ drained = {} /\ skew = [i \in Tries |-> 0] /\ sessions = {}

-----------------------------------------------------------------------------
\* Dropping a Child that was spawned with kill_on_drop: SIGKILL, so nothing of
\* the sidecar's own runs any more (the bug: without kill_on_drop).
DropChildAlive(i) == side
DropChild(i) == IF side[i] = "up" THEN [side EXCEPT ![i] = "killed"] ELSE side

\* An attempt fails: the front, and the child in it, are dropped; two seconds
\* later the loop goes on.
Abandon ==
  /\ phase' = "idle" /\ dialled' = "none"
  /\ side' = DropChild(attempt)

\* front::resolve, up to its first await.
ResolveStart(i) ==
  CASE choice = "Direct"     -> phase' = "dial" /\ dialled' = "gateway" /\ UNCHANGED side
    [] choice = "SidecarAt"  -> phase' = "dial" /\ dialled' = "front" /\ UNCHANGED side
    [] choice = "SidecarCmd" -> \/ phase' = "announce" /\ side' = [side EXCEPT ![i] = "up"]
                                   /\ UNCHANGED dialled
                                \/ UNCHANGED <<phase, side, dialled>>
    [] OTHER                 -> /\ phase' = IF Linked(env.name) THEN "open" ELSE "idle"
                                /\ UNCHANGED <<side, dialled>>

Resolve ==
  /\ phase = "idle" /\ attempt < MaxTries
  /\ attempt' = attempt + 1
  /\ ResolveStart(attempt + 1)
  /\ UNCHANGED <<env, main, tor, pipe, chat, drained, skew, sessions>>

\* spawn_sidecar: lines are read until one announces a front.
ReadLine ==
  /\ phase = "announce" /\ pipe["side"][attempt] # <<>>
  /\ pipe' = [pipe EXCEPT !["side"][attempt] = Tail(@)]
  /\ CASE Head(pipe["side"][attempt]) = "front" ->
            /\ phase' = "dial" /\ dialled' = "front"
            /\ drained' = drained \cup {<<"side", attempt>>}
            /\ UNCHANGED side
       [] Head(pipe["side"][attempt]) = "bad front" -> Abandon /\ UNCHANGED drained
       [] OTHER -> UNCHANGED <<phase, dialled, side, drained>>
  /\ UNCHANGED <<env, attempt, main, tor, chat, skew, sessions>>
\* The sidecar exits before that.
SidecarGone ==
  /\ phase = "announce" /\ pipe["side"][attempt] = <<>> /\ side[attempt] # "up"
  /\ Abandon
  /\ UNCHANGED <<env, attempt, main, tor, pipe, chat, drained, skew, sessions>>
\* The 30 s around both (the bug: none).
TimeoutNever == FALSE /\ UNCHANGED frontVars
Timeout ==
  /\ phase = "announce"
  /\ Abandon
  /\ UNCHANGED <<env, attempt, main, tor, pipe, chat, drained, skew, sessions>>

\* What the HTTP request of HoprSubstrate::connect comes to; from the timeout on
\* (the answer is lost) the node has opened the session.
Outcomes == {"unreachable", "unauthorized", "rejected", "timeout", "malformed", "answered"}
Opened(o) == o \in {"timeout", "malformed", "answered"}
\* The address that the node tells is used once a wildcard is replaced; one that
\* is IPv6 does not parse next to a port.
SessionAddr(ip) == IF ip \in {"0.0.0.0", "::"} THEN "127.0.0.1" ELSE ip
Parses(host) == host \notin {"::", "fd00::1"}
OpenSession(o, ip) ==
  /\ phase = "open"
  /\ sessions' = IF Opened(o) THEN sessions \cup {attempt} ELSE sessions
  /\ \/ Abandon   \* an error of the request, of the address or of the bind
     \/ /\ o = "answered" /\ Parses(SessionAddr(ip))
        /\ phase' = "dial" /\ dialled' = "front" /\ UNCHANGED side
  /\ UNCHANGED <<env, attempt, main, tor, pipe, chat, drained, skew>>

\* connect_via and serve_ingress; the front is kept beside the link.
KeepFront == side
Dial ==
  /\ phase = "dial"
  /\ \/ Abandon
     \/ phase' = "serve" /\ side' = KeepFront /\ UNCHANGED dialled
  /\ UNCHANGED <<env, attempt, main, tor, pipe, chat, drained, skew, sessions>>

\* ctrl_c: the runtime drops the task, and with it whatever it holds.
CtrlC ==
  /\ phase # "over"
  /\ phase' = "over" /\ dialled' = "none"
  /\ side' = IF attempt = 0 THEN side ELSE DropChild(attempt)
  /\ UNCHANGED <<env, attempt, main, tor, pipe, chat, drained, skew, sessions>>

-----------------------------------------------------------------------------
\* Both drain tasks: lines are read and forgotten as long as there are any.  The
\* one for tor lives in the sidecar (the bug: there is none).
DrainNot(p, i) == FALSE /\ UNCHANGED frontVars
Drain(p, i) ==
  /\ <<p, i>> \in drained /\ pipe[p][i] # <<>>
  /\ p = "tor" => side[i] = "up"
  /\ pipe' = [pipe EXCEPT ![p][i] = Tail(@)]
  /\ UNCHANGED <<env, phase, attempt, dialled, side, main, tor, chat, drained, skew, sessions>>

Put(p, i, line) ==
  /\ Len(pipe[p][i]) < PipeCap
  /\ pipe' = [pipe EXCEPT ![p][i] = Append(@, line)]
Log(p, i) ==
  /\ IF p = "side" THEN side[i] = "up" ELSE tor[i] = "up"
  /\ chat[p][i] > 0 /\ Put(p, i, "log")
  /\ chat' = [chat EXCEPT ![p][i] = @ - 1]
  /\ UNCHANGED <<env, phase, attempt, dialled, side, main, tor, drained, skew, sessions>>

\* The sidecar's main returns an error: what it holds is dropped, the tor too (the
\* bug: TorDaemon without its Drop and kill_on_drop).
TorAfterExitUp(i) == tor
TorAfterExit(i) == IF tor[i] = "up" THEN [tor EXCEPT ![i] = "killed"] ELSE tor
Exit(i) ==
  /\ side' = [side EXCEPT ![i] = "exited"]
  /\ tor' = TorAfterExit(i)

\* TorDaemon::launch: spawn, then read until the bootstrap is complete; the end of
\* the pipe and the timeout of 90 s are errors.
LaunchTor(i) ==
  /\ side[i] = "up" /\ main[i] = "boot"
  /\ \/ Exit(i) /\ UNCHANGED main
     \/ tor' = [tor EXCEPT ![i] = "up"] /\ main' = [main EXCEPT ![i] = "wait"] /\ UNCHANGED side
  /\ UNCHANGED <<env, phase, attempt, dialled, pipe, chat, drained, skew, sessions>>
ReadBoot(i) ==
  /\ side[i] = "up" /\ main[i] = "wait" /\ pipe["tor"][i] # <<>>
  /\ pipe' = [pipe EXCEPT !["tor"][i] = Tail(@)]
  /\ IF Head(pipe["tor"][i]) = "Bootstrapped 100%"
     THEN main' = [main EXCEPT ![i] = "circuit"] /\ drained' = drained \cup {<<"tor", i>>}
     ELSE UNCHANGED <<main, drained>>
  /\ UNCHANGED <<env, phase, attempt, dialled, side, tor, chat, skew, sessions>>
BootFails(i) ==
  /\ side[i] = "up" /\ main[i] = "wait"
  /\ Exit(i)
  /\ UNCHANGED <<env, phase, attempt, dialled, main, pipe, chat, drained, skew, sessions>>

\* socks5_connect: the reply to CONNECT is four bytes, an address by its type
\* (a domain has a length byte of its own) and a port; what is not read of it
\* would be taken for the first bytes of the tunnel (the bug: the address is taken
\* to be one of IPv4).
ReplyLen(atyp, n) == 4 + (CASE atyp = 1 -> 4 [] atyp = 4 -> 16 [] atyp = 3 -> 1 + n) + 2
ReadOfReplyV4(atyp, n) == 4 + 4 + 2
ReadOfReply(atyp, n) ==
  LET addr_len == CASE atyp = 1 -> 4 [] atyp = 4 -> 16 [] atyp = 3 -> n
  IN 4 + (IF atyp = 3 THEN 1 ELSE 0) + addr_len + 2
Circuit(i) ==
  /\ side[i] = "up" /\ main[i] = "circuit"
  /\ \/ Exit(i) /\ UNCHANGED <<main, skew>>
     \/ \E atyp \in {1, 3, 4}, n \in {0, 9} :
          /\ tor[i] = "up"
          /\ main' = [main EXCEPT ![i] = "print"]
          /\ skew' = [skew EXCEPT ![i] = ReplyLen(atyp, n) - ReadOfReply(atyp, n)]
          /\ UNCHANGED <<side, tor>>
  /\ UNCHANGED <<env, phase, attempt, dialled, pipe, chat, drained, sessions>>

\* The front is announced and the sidecar runs until it is killed.  A sidecar of
\* another make may announce something else (the bug: announce first).
AnnouncesEarly(i) == main[i] \in {"wait", "print"}
Announces(i) == main[i] = "print"
AnnounceFront(i) ==
  /\ side[i] = "up" /\ Announces(i)
  /\ \E line \in {"front", "bad front"} : Put("side", i, line)
  /\ main' = [main EXCEPT ![i] = "run"]
  /\ UNCHANGED <<env, phase, attempt, dialled, side, tor, chat, drained, skew, sessions>>

\* External: tor reports its bootstrap, or exits.
TorBoots(i) ==
  /\ tor[i] = "up" /\ Put("tor", i, "Bootstrapped 100%")
  /\ main[i] = "wait"
  /\ UNCHANGED <<env, phase, attempt, dialled, side, main, tor, chat, drained, skew, sessions>>
TorExits(i) ==
  /\ tor[i] = "up"
  /\ tor' = [tor EXCEPT ![i] = "exited"]
  /\ UNCHANGED <<env, phase, attempt, dialled, side, main, pipe, chat, drained, skew, sessions>>

Sidecar(i) == LaunchTor(i) \/ ReadBoot(i) \/ BootFails(i) \/ Circuit(i) \/ AnnounceFront(i)
ProcessStep(i) == TorBoots(i) \/ TorExits(i) \/ \E p \in {"side", "tor"} : Log(p, i)
Ingress ==
  \/ Resolve \/ ReadLine \/ SidecarGone \/ Timeout \/ Dial
  \/ \E o \in Outcomes, ip \in {"0.0.0.0", "::", "10.0.0.1", "fd00::1"} : OpenSession(o, ip)

FrontsNext ==
  \/ Ingress \/ CtrlC
  \/ \E i \in Tries : Sidecar(i) \/ ProcessStep(i) \/ \E p \in {"side", "tor"} : Drain(p, i)

FrontsSpec == FrontsInit /\ [][FrontsNext]_frontVars

\* The drain tasks and the timer of spawn_sidecar run; nothing is assumed of the
\* sidecar, of tor or of the network.
FrontsFairSpec ==
  /\ FrontsSpec /\ WF_frontVars(Timeout)
  /\ \A i \in Tries : WF_frontVars(Drain("side", i)) /\ WF_frontVars(Drain("tor", i))

-----------------------------------------------------------------------------
\* Types; a SOCKS reply is never read past its end.
FrontsTypeOK ==
  /\ env \in Envs /\ attempt \in 0..MaxTries
  /\ phase \in {"idle", "announce", "open", "dial", "serve", "over"}
  /\ dialled \in {"none", "gateway", "front"}
  /\ side \in [Tries -> {"none", "up", "exited", "killed"}]
  /\ tor \in [Tries -> {"none", "up", "exited", "killed"}]
  /\ main \in [Tries -> {"boot", "wait", "circuit", "print", "run"}]
  /\ \A p \in {"side", "tor"}, i \in Tries : Len(pipe[p][i]) <= PipeCap
  /\ skew \in [Tries -> Nat] /\ sessions \subseteq Tries

\* A node whose QUICMIX_SUBSTRATE names a mix substrate never dials the gateway in
\* the open, whatever else of the configuration, or of the front, fails.
NoSilentDirect == dialled = "gateway" => ~Named(env)

\* "If a sidecar is configured explicitly [...], that wins" (the comment of from_env):
\* the gateway is dialled in the open only when no sidecar is configured.
SidecarWins == dialled = "gateway" => env.front = "unset" /\ env.cmd = "unset"

\* No sidecar outlives its attempt: every exit of spawn_sidecar and of the loop
\* drops the Child, and the one that serves is kept.
SidecarOwned ==
  \A i \in Tries :
    /\ side[i] = "up" => i = attempt /\ phase \in {"announce", "dial", "serve"}
    /\ side[i] = "killed" => i < attempt \/ phase \in {"idle", "over"}

\* QUIC is dialled only once the substrate behind the front stands: the sidecar
\* has announced it, after its tor was bootstrapped and had a circuit, whose
\* stream is read from its first byte on; or the session is open on the HOPR node.
FrontReady ==
  phase \in {"dial", "serve"} =>
    /\ choice = "Named" => attempt \in sessions
    /\ choice = "SidecarCmd" =>
         main[attempt] = "run" /\ <<"tor", attempt>> \in drained /\ skew[attempt] = 0

\* A sidecar that ends by itself, from an error of its main, takes its tor with it.
\* One that is killed runs no destructor, and its tor goes on.
TorSupervised == \A i \in Tries : side[i] = "exited" => tor[i] # "up"

\* What is dialled, in every state of the right types: never the gateway by
\* mistake, and never a front before its substrate stands.
DialsTheSubstrate == FrontsTypeOK /\ NoSilentDirect /\ FrontReady

\* Owners end what they own wherever they get to drop it: the node its sidecar on
\* every way out of an attempt, a sidecar that fails its tor.
OwnersClean == SidecarOwned /\ TorSupervised

\* spawn_sidecar ends, although the sidecar may hang without a word.
AnnounceEnds == phase = "announce" ~> phase # "announce"

\* "so the child never blocks writing logs to a full pipe": a sidecar that runs,
\* and a tor once bootstrapped, wait for room in their pipes for a while only.
Full(p, i) == Len(pipe[p][i]) = PipeCap
NeverBlocked ==
  \A i \in Tries :
    /\ side[i] = "up" /\ main[i] = "run" /\ Full("side", i)
         ~> side[i] # "up" \/ ~Full("side", i)
    /\ side[i] = "up" /\ main[i] \in {"circuit", "print", "run"} /\ Full("tor", i)
         ~> side[i] # "up" \/ ~Full("tor", i)

\* Neither side waits for the other for ever: the node for the announcement, the
\* sidecar and tor for a reader of what they log.
NobodyWaitsForever == AnnounceEnds /\ NeverBlocked

=============================================================================
