----------------------------- MODULE Autopilot -----------------------------
(***************************************************************************)
(* A node's runtime (crates/quicmix/src/autopilot.rs) around its directory *)
(* of gateways (directory.rs): it announces itself if it has a public      *)
(* address, a task fetches the certificate of every bootstrap gateway in   *)
(* turn, again and again, and the ingress task samples a live gateway,     *)
(* dials it trusting the certificate on file, and serves the local proxy   *)
(* over that link.  The other gateways crash, and come back with a new     *)
(* self-signed identity.                                                   *)
(*                                                                         *)
(* Time is relative: an entry's age stops at the ttl.  Timers are prompt:  *)
(* time does not pass a fetch's timeout or the refresh task's wake-up.     *)
(***************************************************************************)
EXTENDS Integers, Sequences

CONSTANTS
  Gateways,   \* addresses
  Peers,      \* cfg.bootstrap
  Self,       \* self_public: this node's own address, or None
  Ttl,        \* DIR_TTL
  FetchMax,   \* the timeouts of fetch_cert together
  None

ASSUME AutopilotAssumption ==
  /\ Peers \in Seq(Gateways) /\ Self \in Gateways \cup {None} /\ None \notin Gateways
  /\ Ttl \in Nat \ {0} /\ FetchMax \in Nat
  /\ None \notin {"current", "other"} \cup [cert : {"current", "other"}, age : 0..Ttl]

VARIABLES
  dir,     \* GatewayDirectory: the entry of each gateway, or None
  up,      \* the gateways that run
  idx, timer, got,  \* refresh task: the peer it is at (0: asleep), the time spent on
                    \* its fetch or left to sleep, the certificate it was answered
  stage, gw, pin,   \* ingress task: its next step, the gateway, the certificate on file
  linkUp,  \* the link it serves over still works
  steady   \* history: the gateways that ran all the time since they were announced

refreshVars == <<idx, timer, got>>
ingressVars == <<stage, gw, pin, linkUp>>
vars == <<dir, up, refreshVars, ingressVars, steady>>

\* A certificate on file, or in hand, is the one its gateway presents now, or it
\* is another: from before a restart, or only the first part of one.
Certs == {"current", "other"}

\* DIR_TTL / 2 between two rounds (the bug: the whole ttl).
PauseLong == Ttl
Pause == Ttl \div 2

\* GatewayDirectory::announce: insert or refresh.
Announce(g, c) == [dir EXCEPT ![g] = [cert |-> c, age |-> 0]]

\* GatewayDirectory::live: what is younger than the ttl (the bug: everything).
LiveForever == {g \in Gateways : dir[g] # None}
Live == {g \in Gateways : dir[g] # None /\ dir[g].age < Ttl}
Pruned == [g \in Gateways |-> IF g \in Live THEN dir[g] ELSE None]

\* run: promoted and announced if Self is public; both tasks spawned.
Init ==
  /\ up \in {u \in SUBSET Gateways : Self = None \/ Self \in u}
  /\ dir = [g \in Gateways |-> IF g = Self THEN [cert |-> "current", age |-> 0] ELSE None]
  /\ idx = (IF Peers = <<>> THEN 0 ELSE 1) /\ got = None
  /\ timer = (IF Peers = <<>> THEN Pause ELSE 0)
  /\ stage = "sample" /\ gw = None /\ pin = None /\ linkUp = FALSE
  /\ steady = {}

-----------------------------------------------------------------------------
\* The refresh loop is done with one peer.
NextPeer ==
  /\ got' = None
  /\ IF idx = Len(Peers) THEN idx' = 0 /\ timer' = Pause
                         ELSE idx' = idx + 1 /\ timer' = 0

\* "Skips self_addr (already announced)."
SkipSelf ==
  /\ idx # 0 /\ Peers[idx] = Self
  /\ NextPeer
  /\ UNCHANGED <<dir, up, ingressVars, steady>>

\* fetch_cert: the peer answers with the certificate it has now, ...
FetchReply ==
  /\ idx # 0 /\ Peers[idx] # Self /\ got = None /\ Peers[idx] \in up
  /\ got' = "current"
  /\ UNCHANGED <<dir, up, idx, timer, ingressVars, steady>>

\* ... which is announced when it has been read.
FetchOk ==
  /\ idx # 0 /\ got # None
  /\ dir' = Announce(Peers[idx], got)
  /\ steady' = IF Peers[idx] \in up THEN steady \cup {Peers[idx]} ELSE steady \ {Peers[idx]}
  /\ NextPeer
  /\ UNCHANGED <<up, ingressVars>>

\* fetch_cert fails or times out; it does not for a peer that runs steadily.
FetchErr ==
  /\ idx # 0 /\ Peers[idx] # Self /\ got = None /\ Peers[idx] \notin steady
  /\ NextPeer
  /\ UNCHANGED <<dir, up, ingressVars, steady>>

\* The sleep is over: the next round.
Wake ==
  /\ idx = 0 /\ timer = 0
  /\ IF Peers = <<>> THEN timer' = Pause /\ UNCHANGED idx
                     ELSE idx' = 1 /\ timer' = 0
  /\ UNCHANGED <<dir, up, got, ingressVars, steady>>

Time ==
  /\ IF idx = 0 THEN timer > 0 /\ timer' = timer - 1
                ELSE Peers[idx] # Self /\ timer < FetchMax /\ timer' = timer + 1
  /\ dir' = [g \in Gateways |->
               IF dir[g] # None /\ dir[g].age < Ttl
               THEN [dir[g] EXCEPT !.age = @ + 1] ELSE dir[g]]
  /\ UNCHANGED <<up, idx, got, ingressVars, steady>>

-----------------------------------------------------------------------------
\* The ingress loop: nothing to sample (it sleeps 2 s and tries again), ...
SampleNone ==
  /\ stage = "sample" /\ Live = {}
  /\ dir' = Pruned
  /\ UNCHANGED <<up, refreshVars, ingressVars, steady>>

\* ... or any live gateway.
Sample(g) ==
  /\ stage = "sample" /\ g \in Live
  /\ dir' = Pruned
  /\ stage' = "dial" /\ gw' = g /\ pin' = dir[g].cert
  /\ UNCHANGED <<up, refreshVars, linkUp, steady>>

\* front::resolve, connect_via and serve_ingress all succeed: the gateway runs
\* and has the certificate on file.
Serve ==
  /\ stage = "dial" /\ gw \in up /\ pin = "current"
  /\ stage' = "serving" /\ linkUp' = TRUE /\ pin' = None
  /\ UNCHANGED <<dir, up, refreshVars, gw, steady>>

\* One of them fails: sleep 2 s and sample again (the bug: dial the same gateway
\* again, with the certificate that was on file).
GiveUpSame ==
  /\ stage = "dial"
  /\ UNCHANGED vars
GiveUp ==
  /\ stage = "dial"
  /\ stage' = "sample" /\ gw' = None /\ pin' = None
  /\ UNCHANGED <<dir, up, refreshVars, linkUp, steady>>

-----------------------------------------------------------------------------
\* A gateway dies, perhaps while its certificate is being read: fetch_cert does
\* not compare what it got with the Content-Length.
Crash(g) ==
  /\ g \in up \ {Self}
  /\ up' = up \ {g} /\ steady' = steady \ {g}
  /\ linkUp' = (linkUp /\ gw # g)
  /\ got' \in IF idx # 0 /\ Peers[idx] = g THEN {got, None, "other"} ELSE {got}
  /\ UNCHANGED <<dir, idx, timer, stage, gw, pin>>

\* Node::new makes a new certificate: what is known of the old one is outdated.
Restart(g) ==
  /\ g \notin up
  /\ up' = up \cup {g}
  /\ dir' = [dir EXCEPT ![g] = IF @ = None THEN None ELSE [@ EXCEPT !.cert = "other"]]
  /\ got' = IF got # None /\ Peers[idx] = g THEN "other" ELSE got
  /\ pin' = IF pin # None /\ gw = g THEN "other" ELSE pin
  /\ UNCHANGED <<idx, timer, stage, gw, linkUp, steady>>

Refresh == SkipSelf \/ FetchReply \/ FetchOk \/ FetchErr \/ Wake
Sampling == SampleNone \/ \E g \in Gateways : Sample(g)

Next ==
  \/ Refresh \/ Time
  \/ Sampling \/ Serve \/ GiveUp
  \/ \E g \in Gateways : Crash(g) \/ Restart(g)

Spec == Init /\ [][Next]_vars

\* Tasks and clock go on; a fetch ends (it has timeouts).  A fetch or a dial that
\* could succeed, tried again and again, succeeds in the end.
FairSpec ==
  /\ Spec
  /\ WF_vars(Refresh) /\ WF_vars(Time) /\ SF_vars(FetchOk \/ FetchErr)
  /\ WF_vars(Sampling \/ Serve \/ GiveUp) /\ SF_vars(Serve)
  /\ \A i \in DOMAIN Peers : SF_vars(idx = i /\ FetchReply)

-----------------------------------------------------------------------------
Entry == [cert : Certs, age : 0..Ttl]
TypeOK ==
  /\ dir \in [Gateways -> Entry \cup {None}]
  /\ up \subseteq Gateways /\ steady \subseteq up
  /\ idx \in 0..Len(Peers) /\ got \in Certs \cup {None}
  /\ timer \in 0..(IF idx = 0 THEN Pause ELSE FetchMax)
  /\ stage \in {"sample", "dial", "serving"}
  /\ gw \in Gateways \cup {None} /\ pin \in Certs \cup {None} /\ linkUp \in BOOLEAN

\* "so live gateways stay fresh": a bootstrap gateway that keeps running is
\* never dropped for its age, however long the fetches from the others take.
\* That needs a whole round, every fetch timing out, to fit into the ttl.
RoundFits == Pause + Len(Peers) * FetchMax < Ttl
StaysFresh == \A g \in steady : g \in Live

\* "crashed ones expire", also when the certificate of one was being fetched
\* while it crashed.
CrashedExpire ==
  \A g \in Gateways \ {Self} : <>[](g \notin up) => <>[](g \notin Live)

\* Once the bootstrap gateways settle and one of them runs, the node gets to
\* serve its proxy: crashed gateways and outdated certificates in the directory
\* do not keep it from finding the one that works.
Settled ==
  /\ <>[][up' = up]_vars
  /\ \E i \in DOMAIN Peers : Peers[i] # Self /\ <>[](Peers[i] \in up)
Joins == Settled => <>(stage = "serving")

=============================================================================
