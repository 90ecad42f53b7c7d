------------------------------ MODULE Breaker ------------------------------
(***************************************************************************)
(* The dead-channel breaker of one channel (internal/proxy/breaker.go), as *)
(* the concurrent request handlers of forwardFacade drive it.              *)
(*                                                                         *)
(* A handler asks the breaker once (allow), then talks to the upstream any *)
(* number of times, and reports what it saw: every response closes the     *)
(* breaker, a dial-level failure ends the request and is counted.  Between *)
(* what a handler saw and what it reports, other handlers run, and so do   *)
(* Disable and Enable (a proxy stop and a fresh start).                    *)
(*                                                                         *)
(* The entries of breakerStore.channels never meet, so one entry is kept.  *)
(* Clock readings are kept as ages, exact up to the period each of them is *)
(* compared with, so that the model needs no bound on time.                *)
(***************************************************************************)
EXTENDS Integers

CONSTANTS Request,      \* request handlers (a handler is reused when idle)
          Policy,       \* breakerParams: [on: BOOLEAN, threshold: Nat \ {0}]
          Cooldown,     \* deadChannelCooldown, in ticks
          Lease,        \* deadChannelProbeLease, in ticks
          MaxThreshold  \* the largest threshold of Policy

ASSUME BreakerAssumption ==
  /\ Policy # {}
  /\ Policy \subseteq [on : BOOLEAN, threshold : 1..MaxThreshold]
  /\ MaxThreshold \in Nat \ {0}
  /\ Cooldown \in Nat \ {0}
  /\ Lease \in Nat \ {0}
  /\ Lease <= Cooldown

VARIABLES
  breaker,   \* the entry: failures, open (openedAt set), probing, and the ages
             \* of openedAt and probeStarted
  enabled,   \* Server.enabled
  live,      \* the upstream lifecycle context is not cancelled
  channelPolicy, \* the policy of the channel's current route
  req,       \* each handler: pc, the policy of the route it was handed,
             \* and whether its upstream context is cancelled
  up,        \* environment: the upstream accepts connections
  sinceProbe,\* history: age of the last probe let through an open breaker
  streak     \* history: dial failures counted since the last response
             \* reported or the last reset, up to MaxThreshold

breakerVars == <<breaker, enabled, live, channelPolicy, req, up, sinceProbe, streak>>

Pc == {"idle", "gate", "admitted", "sending", "answered", "failed", "counting"}
InFlight == {"sending", "answered", "failed"}

\* The zero upstreamBreaker, which a missing entry behaves as.
Closed == [failures |-> 0, open |-> FALSE, openAge |-> 0,
           probing |-> FALSE, probeAge |-> 0]

\* The values the entry ranges over.
Entry == [failures : 0..(MaxThreshold - 1), open : BOOLEAN, openAge : 0..Cooldown,
          probing : BOOLEAN, probeAge : 0..Lease]

Older(age, cap) == IF age < cap THEN age + 1 ELSE cap

SetPc(r, pc) == req' = [req EXCEPT ![r].pc = pc]

\* The handler returned; the policy it held no longer matters.
Idle == [pc |-> "idle", policy |-> CHOOSE p \in Policy : TRUE, cancelled |-> FALSE]

End(r) == req' = [req EXCEPT ![r] = Idle]

-----------------------------------------------------------------------------

BreakerInit ==
  /\ breaker = Closed
  /\ enabled = TRUE
  /\ live = TRUE
  /\ channelPolicy \in Policy
  /\ req = [r \in Request |-> Idle]
  /\ up \in BOOLEAN
  /\ sinceProbe = Lease
  /\ streak = 0

\* servePath: a channel request that finds the proxy enabled is handed a copy
\* of the channel's route.
Arrive(r) ==
  /\ req[r].pc = "idle"
  /\ enabled
  /\ req' = [req EXCEPT ![r] = [pc |-> "gate", policy |-> channelPolicy, cancelled |-> FALSE]]
  /\ UNCHANGED <<breaker, enabled, live, channelPolicy, up, sinceProbe, streak>>

\* allow, for a request that did not opt in or finds the breaker closed.
Pass(r) ==
  /\ req[r].pc = "gate"
  /\ ~req[r].policy.on \/ ~breaker.open
  /\ SetPc(r, "admitted")
  /\ UNCHANGED <<breaker, enabled, live, channelPolicy, up, sinceProbe, streak>>

Gated(r) == req[r].pc = "gate" /\ req[r].policy.on /\ breaker.open

\* Mutant: without the lease, a lost probe keeps the flag for ever.
ProbeDueUnleased == breaker.openAge >= Cooldown /\ ~breaker.probing

\* A probe is due: the cooldown is over, and no probe holds the lease.
ProbeDue == breaker.openAge >= Cooldown /\ (breaker.probing => breaker.probeAge >= Lease)

\* allow, releasing a probe through the open breaker.
Probe(r) ==
  /\ Gated(r)
  /\ ProbeDue
  /\ breaker' = [breaker EXCEPT !.probing = TRUE, !.probeAge = 0]
  /\ SetPc(r, "admitted")
  /\ sinceProbe' = 0
  /\ UNCHANGED <<enabled, live, channelPolicy, up, streak>>

\* allow, rejecting: the handler answers proxy_circuit_open and ends.
FastFail(r) ==
  /\ Gated(r)
  /\ ~ProbeDue
  /\ End(r)
  /\ UNCHANGED <<breaker, enabled, live, channelPolicy, up, sinceProbe, streak>>

\* The handler derives its upstream context from the lifecycle current now.
Bind(r) ==
  /\ req[r].pc = "admitted"
  /\ req' = [req EXCEPT ![r].pc = "sending", ![r].cancelled = ~live]
  /\ UNCHANGED <<breaker, enabled, live, channelPolicy, up, sinceProbe, streak>>

\* doRequest returns a response.
Answer(r) ==
  /\ req[r].pc = "sending" /\ up /\ ~req[r].cancelled
  /\ SetPc(r, "answered")
  /\ UNCHANGED <<breaker, enabled, live, channelPolicy, up, sinceProbe, streak>>

\* Mutant: a response closes an open breaker only and forgets no failure.
RecordSuccessKeepsCount(r) ==
  /\ req[r].pc = "answered"
  /\ breaker' = IF breaker.open THEN Closed ELSE breaker
  /\ streak' = 0
  /\ End(r) \/ SetPc(r, "sending")
  /\ UNCHANGED <<enabled, live, channelPolicy, up, sinceProbe>>

\* recordSuccess; the handler then finishes or resends (an absorbed or
\* rewritten attempt) without asking the breaker again.
RecordSuccess(r) ==
  /\ req[r].pc = "answered"
  /\ breaker' = Closed
  /\ streak' = 0
  /\ End(r) \/ SetPc(r, "sending")
  /\ UNCHANGED <<enabled, live, channelPolicy, up, sinceProbe>>

\* doRequest returns a dial-level failure.
DialFail(r) ==
  /\ req[r].pc = "sending" /\ ~up /\ ~req[r].cancelled
  /\ SetPc(r, "failed")
  /\ UNCHANGED <<breaker, enabled, live, channelPolicy, up, sinceProbe, streak>>

\* The request ends with nothing to report: a soft failure, a header timeout
\* past the absorb window, a client that left, a cancelled context.
Abandon(r) ==
  /\ req[r].pc = "sending"
  /\ End(r)
  /\ UNCHANGED <<breaker, enabled, live, channelPolicy, up, sinceProbe, streak>>

\* onRequestError: a request cancelled by a stop that is still in force is
\* answered proxy_stopped; any other dial-level failure goes on to be counted.
OnRequestError(r) ==
  /\ req[r].pc = "failed"
  /\ IF req[r].cancelled /\ ~enabled THEN End(r) ELSE SetPc(r, "counting")
  /\ UNCHANGED <<breaker, enabled, live, channelPolicy, up, sinceProbe, streak>>

\* Mutant: a failure while open clears the probe but does not re-arm the cooldown.
CountedNotRearmed(b, threshold) ==
  IF b.open
  THEN [b EXCEPT !.probing = FALSE]
  ELSE IF b.failures + 1 >= threshold
       THEN [b EXCEPT !.open = TRUE, !.openAge = 0, !.failures = 0]
       ELSE [b EXCEPT !.failures = @ + 1]

\* The entry recordFailure leaves under a threshold.
Counted(b, threshold) ==
  IF b.open
  THEN [b EXCEPT !.openAge = 0, !.probing = FALSE]
  ELSE IF b.failures + 1 >= threshold
       THEN [b EXCEPT !.open = TRUE, !.openAge = 0, !.failures = 0]
       ELSE [b EXCEPT !.failures = @ + 1]

\* recordFailure.
RecordFailure(r) ==
  /\ req[r].pc = "counting"
  /\ IF req[r].policy.on
     THEN /\ breaker' = Counted(breaker, req[r].policy.threshold)
          /\ streak' = Older(streak, MaxThreshold)
     ELSE UNCHANGED <<breaker, streak>>
  /\ End(r)
  /\ UNCHANGED <<enabled, live, channelPolicy, up, sinceProbe>>

-----------------------------------------------------------------------------

\* Disable clears enabled first ...
Disable ==
  /\ enabled
  /\ enabled' = FALSE
  /\ UNCHANGED <<breaker, live, channelPolicy, req, up, sinceProbe, streak>>

\* ... then cancels the lifecycle context and with it every bound request.
CancelUpstream ==
  /\ ~enabled /\ live
  /\ live' = FALSE
  /\ req' = [r \in Request |-> [req[r] EXCEPT !.cancelled = @ \/ req[r].pc \in InFlight]]
  /\ UNCHANGED <<breaker, enabled, channelPolicy, up, sinceProbe, streak>>

\* SetRoutes and Enable: a reloaded route, a fresh lifecycle, a reset breaker.
Enable ==
  /\ ~enabled /\ ~live
  /\ channelPolicy' \in Policy
  /\ live' = TRUE
  /\ enabled' = TRUE
  /\ breaker' = Closed
  /\ streak' = 0
  /\ UNCHANGED <<req, up, sinceProbe>>

\* The environment: the upstream comes and goes, time passes.
Reachable ==
  /\ up' = ~up
  /\ UNCHANGED <<breaker, enabled, live, channelPolicy, req, sinceProbe, streak>>

Tick ==
  /\ breaker' = [breaker EXCEPT !.openAge = Older(@, Cooldown), !.probeAge = Older(@, Lease)]
  /\ sinceProbe' = Older(sinceProbe, Lease)
  /\ UNCHANGED <<enabled, live, channelPolicy, req, up, streak>>

Handler(r) ==
  \/ Arrive(r) \/ Pass(r) \/ Probe(r) \/ FastFail(r) \/ Bind(r) \/ Answer(r)
  \/ RecordSuccess(r) \/ DialFail(r) \/ Abandon(r) \/ OnRequestError(r) \/ RecordFailure(r)

BreakerNext ==
  \/ \E r \in Request : Handler(r)
  \/ Disable \/ CancelUpstream \/ Enable \/ Reachable \/ Tick

BreakerSpec == BreakerInit /\ [][BreakerNext]_breakerVars

\* Time passes, handlers do not stall (a header timeout or the client ends an
\* attempt that hangs), and Grok Build keeps retrying.
FairBreakerSpec ==
  /\ BreakerSpec
  /\ WF_breakerVars(Tick) /\ WF_breakerVars(CancelUpstream) /\ WF_breakerVars(Enable)
  /\ \A r \in Request : WF_breakerVars(Handler(r)) /\ WF_breakerVars(Abandon(r))

-----------------------------------------------------------------------------

TypeOK ==
  /\ breaker \in Entry
  /\ enabled \in BOOLEAN /\ live \in BOOLEAN /\ up \in BOOLEAN
  /\ channelPolicy \in Policy
  /\ req \in [Request -> [pc : Pc, policy : Policy, cancelled : BOOLEAN]]
  /\ sinceProbe \in 0..Lease
  /\ streak \in 0..MaxThreshold

(***************************************************************************)
(* While the breaker is open, whatever stray reports arrive from requests  *)
(* admitted before it opened or before a restart, two probes are at least  *)
(* a lease apart (allow, breaker.go:161-185: "a single probe is allowed    *)
(* through").  The stray failure that clears the probing flag also re-arms *)
(* the cooldown, which is why Lease <= Cooldown is needed.                 *)
(***************************************************************************)
ProbesLeaseApart == [][\A r \in Request : Probe(r) => sinceProbe >= Lease]_breakerVars

(***************************************************************************)
(* An open breaker stands for consecutive failures: since the last response*)
(* any request of the channel reported, at least the smallest opted-in     *)
(* threshold of dial failures was counted (breaker.go:27-30, 187-223).     *)
(***************************************************************************)
OpenAfterStreak ==
  breaker.open => \E p \in Policy : p.on /\ streak >= p.threshold

(***************************************************************************)
(* An open breaker never latches: a client that keeps retrying an opted-in *)
(* route gets a probe through, again and again until the breaker closes,   *)
(* whatever became of the earlier probes (the lease, breaker.go:34-40).    *)
(***************************************************************************)
NeverLatched == breaker.open ~> (~breaker.open \/ sinceProbe = 0 \/ ~channelPolicy.on)
=============================================================================
