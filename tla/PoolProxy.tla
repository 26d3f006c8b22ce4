----------------------------- MODULE PoolProxy -----------------------------
(***************************************************************************)
(* The pooled ingress proxy: the hyper front end                           *)
(* (crates/quicmix/src/ingress.rs) over the warm pool.  A request leases a *)
(* circuit with pick and moves the lease into the future that serves it;   *)
(* the lease is given back where that future drops it, which differs for   *)
(* tunnels (CONNECT), for cleartext requests and for refusals.             *)
(***************************************************************************)
EXTENDS WarmPool

VARIABLES
  stage,   \* what serves each request
  via,     \* the circuit whose stream carries it, or None
  busy     \* history: time since it was given the circuit, up to DrainTimeout

proxyVars == <<stage, via, busy>>
allVars == <<vars, proxyVars>>

\* "refused": being answered 400; "upgrade": answered 200, hyper still owns the
\* socket; "body": the headers were passed on, the response body streams.
Leasing == {"refused", "upgrade", "tunnel", "forward"}
Stages == Leasing \cup {"idle", "body"}

ProxyInit ==
  /\ Init
  /\ stage = [r \in Requests |-> "idle"]
  /\ via = [r \in Requests |-> None]
  /\ busy = [r \in Requests |-> 0]

Move(r, s) == stage' = [stage EXCEPT ![r] = s]

\* serve_with and proxy: a circuit is leased, the request goes its way.
Accept(r, s) ==
  /\ stage[r] = "idle" /\ s \in {"refused", "upgrade", "forward"}
  /\ Pick(r)
  /\ Move(r, s)
  /\ via' = [via EXCEPT ![r] = lease'[r]]
  /\ busy' = [busy EXCEPT ![r] = 0]

\* No warm circuit: 503.
Unavailable(r) ==
  /\ stage[r] = "idle"
  /\ PickNone(r)
  /\ UNCHANGED proxyVars

\* tunnel: the stream is opened and the target named; the lease stays with the
\* future until the splice is over.
OpenTunnel(r) ==
  /\ stage[r] = "upgrade" /\ via[r] \in open
  /\ Move(r, "tunnel")
  /\ UNCHANGED <<vars, via, busy>>

\* The future that holds the lease ends: refused; the upgrade, the stream or the
\* upstream failed or timed out (502); the client left; the tunnel is over.
\* (The bug: a failed request forgets to give its lease back.)
EndForgetful(r) ==
  /\ stage[r] \in Leasing
  /\ IF via[r] \in open THEN Release(r) ELSE UNCHANGED vars
  /\ Move(r, "idle")
  /\ via' = [via EXCEPT ![r] = None]
  /\ UNCHANGED busy
End(r) ==
  /\ stage[r] \in Leasing
  /\ Release(r)
  /\ Move(r, "idle")
  /\ via' = [via EXCEPT ![r] = None]
  /\ UNCHANGED busy

\* forward returns at the response headers, and drops the lease; hyper's
\* connection task goes on streaming the body.
Headers(r) ==
  /\ stage[r] = "forward" /\ via[r] \in open
  /\ Release(r)
  /\ Move(r, "body")
  /\ UNCHANGED <<via, busy>>

\* The body is complete, or the client left.
BodyDone(r) ==
  /\ stage[r] = "body"
  /\ Move(r, "idle")
  /\ via' = [via EXCEPT ![r] = None]
  /\ UNCHANGED <<vars, busy>>

\* A connection closes, and cuts off the bodies that stream over it.  Those are
\* handles too: it is not closed for want of others.
CutOff(c) ==
  /\ Close(c)
  /\ LET cut == {r \in Requests : stage[r] = "body" /\ via[r] = c}
     IN /\ stage' = [r \in Requests |-> IF r \in cut THEN "idle" ELSE stage[r]]
        /\ via' = [r \in Requests |-> IF r \in cut THEN None ELSE via[r]]
  /\ UNCHANGED busy

Elapse ==
  /\ Time
  /\ busy' = [r \in Requests |->
                IF stage[r] # "idle" /\ busy[r] < DrainTimeout THEN busy[r] + 1 ELSE busy[r]]
  /\ UNCHANGED <<stage, via>>

ProxyNext ==
  \/ (Refill \/ Maintain) /\ UNCHANGED proxyVars
  \/ \E r \in Requests :
       \/ Unavailable(r) \/ OpenTunnel(r) \/ End(r) \/ Headers(r) \/ BodyDone(r)
       \/ \E s \in Leasing : Accept(r, s)
  \/ \E c \in Circuits : CutOff(c)
  \/ Elapse

ProxySpec == ProxyInit /\ [][ProxyNext]_allVars

\* As FairSpec of WarmPool.  A connection is closed for want of handles when no
\* body streams over it either; nothing is assumed of requests.
CloseUnheld ==
  \E c \in Circuits \ Referenced : (\A r \in Requests : via[r] # c) /\ CutOff(c)
ProxyFairSpec ==
  /\ ProxySpec
  /\ WF_allVars(Refill /\ UNCHANGED proxyVars) /\ WF_allVars(Maintain /\ UNCHANGED proxyVars)
  /\ WF_allVars(Elapse) /\ WF_allVars(CloseUnheld)

-----------------------------------------------------------------------------
ProxyTypeOK ==
  /\ TypeOK
  /\ stage \in [Requests -> Stages]
  /\ via \in [Requests -> Circuits \cup {None}]
  /\ busy \in [Requests -> 0..DrainTimeout]

\* A circuit is marked busy for exactly the requests that the proxy is serving
\* on it, on every way out of a handler: once nobody is in a leasing stage on
\* it, nothing keeps a retired circuit from being reaped at once.
BusyIffServing ==
  \A c \in Circuits :
    active[c] = Cardinality({r \in Requests : via[r] = c /\ stage[r] \in Leasing})

\* "a forced rotation never kills a healthy in-flight request": a circuit that
\* serves a tunnel, or a request whose response has not begun, is kept in the
\* pool for DrainTimeout at least, if its connection is up.
Kept(r) == via[r] \in open /\ via[r] \notin Ids(slots) => busy[r] >= DrainTimeout
ServingKept == \A r \in Requests : stage[r] \in Leasing => Kept(r)

\* The two together, over well-typed states: a lease lasts exactly as long as the
\* handler that took it, and as long as it lasts the circuit is not let go early.
LeasesMatchService == ProxyTypeOK /\ BusyIffServing /\ ServingKept

\* "kept - endpoint and all - until its in-flight requests finish or a drain
\* timeout elapses": the same for every request the proxy has not finished.
InFlightKept == \A r \in Requests : stage[r] # "idle" => Kept(r)

=============================================================================
