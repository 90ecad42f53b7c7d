------------------------------ MODULE Recovery ------------------------------
(***************************************************************************)
(* One request in forwardFacade (internal/proxy/facade.go) and the         *)
(* recoveryDecider that answers its failures (facade_recovery.go): an      *)
(* attempt that fails is waited out and repeated inside the absorb window  *)
(* (absorb.go), repeated with a rewritten body, or handed to the client.   *)
(* The upstream may answer anything; a proxy stop or a client that leaves  *)
(* cancels the upstream context at any moment.                             *)
(*                                                                         *)
(* Of a body the model keeps what a rewrite can take away; of a failure,   *)
(* what the decisions read.  Time is counted in ticks.                     *)
(***************************************************************************)
EXTENDS Integers

CONSTANTS Reply,       \* what the upstream may answer (see ReplyShape)
          Route,       \* [balanced, responses : BOOLEAN, budget : Nat]
          Bodies,      \* the bodies clients send (a subset of Body)
          Delays,      \* how long an attempt may take
          MinBackoff, BackoffCap, FirstWait, RepeatWait, MaxRetryAfter

\* Statuses, as 3-digit codes.
OriginTLS == {525, 526}
Status == 400..599

\* The kind tells how far the attempt came; the rest describes a failure: its
\* status, an X-Should-Retry header, a structured error classified transient
\* or terminal, the complaint its body makes, and Retry-After.
Kind == {"success", "wrapped", "held", "error", "unusable", "timeout", "unreachable"}
ReplyShape ==
  [kind : Kind, status : Status, hint : {"none", "true", "false"},
   structured : {"none", "transient", "terminal"},
   complaint : {"none", "include", "tools", "vision", "budget", "reasoning", "challenge"},
   after : Nat]

\* What the attempt ends with once the upstream context is cancelled: no
\* response at all, a body cut short, or a held stream cut short.
CutKind == {"cancelled", "unusable", "cut"}

Body == [images : BOOLEAN, opaque : BOOLEAN, include : BOOLEAN, undeclared : BOOLEAN,
         clamped : BOOLEAN]

ASSUME RecoveryAssumption ==
  /\ Reply \subseteq ReplyShape
  /\ Route \subseteq [balanced : BOOLEAN, responses : BOOLEAN, budget : Nat]
  /\ Bodies \subseteq {b \in Body : ~b.clamped}
  /\ Delays \subseteq Nat
  /\ MinBackoff \in Nat \ {0} /\ BackoffCap \in Nat
  /\ FirstWait \in Nat \ {0} /\ RepeatWait \in Nat \ {0} /\ MaxRetryAfter \in Nat \ {0}

VARIABLES
  pc,        \* where the handler is
  route,     \* the route it was handed
  original,  \* originalBody
  body,      \* request.Body
  reply,     \* what the attempt ended with
  decider,   \* the recoveryDecider's memory
  absorb,    \* the absorbState
  enabled,   \* Server.enabled
  cancelled, \* the upstream context is done
  client,    \* the client still waits for its response
  outcome,   \* what the client was given
  waited,    \* history: the time spent in absorb waits
  tried      \* history: the bodies sent

vars == <<pc, route, original, body, reply, decider, absorb, enabled, cancelled, client,
          outcome, waited, tried>>

Nobody == [kind |-> "none", status |-> 400, hint |-> "none", structured |-> "none",
           complaint |-> "none", after |-> 0]
CutShort(kind) == [Nobody EXCEPT !.kind = kind]

Outcome == [kind : {"none", "response", "failure", "gateway", "stopped", "silent"},
            retry : BOOLEAN]
Ends(kind, retry) ==
  /\ pc' = "done" /\ outcome' = [kind |-> kind, retry |-> retry]
  /\ UNCHANGED reply

Init ==
  /\ pc = "inFlight"
  /\ route \in Route
  /\ original \in Bodies /\ body = original
  /\ reply = Nobody
  /\ decider = [stripped |-> FALSE, budgeted |-> FALSE, recovered |-> FALSE, rejected |-> FALSE]
  /\ absorb = [started |-> FALSE, elapsed |-> 0, backoff |-> MinBackoff, again |-> FALSE,
               pause |-> 0]
  /\ enabled = TRUE /\ cancelled = FALSE /\ client = TRUE
  /\ outcome = [kind |-> "none", retry |-> FALSE]
  /\ waited = 0 /\ tried = {body}

-----------------------------------------------------------------------------
(* The absorb layer.                                                       *)

Least(a, b) == IF a < b THEN a ELSE b

\* Mutant: only a disabled window is closed.
WindowNeverShut == route.budget > 0

\* wait returns false at once when the budget is spent.
WindowOpen == route.budget > 0 /\ absorb.elapsed < route.budget

\* absorbFamilyFor: authentication and validation failures wait in fixed steps.
Semantic(status) == status \in 400..499 \ {408, 429}

\* nextWait; backoff is what its doubling loop comes to at this attempt.
NextWait(status, after) ==
  IF after > 0 THEN Least(after, MaxRetryAfter)
  ELSE IF Semantic(status) THEN IF absorb.again THEN RepeatWait ELSE FirstWait
  ELSE absorb.backoff

Doubled == IF absorb.backoff < BackoffCap THEN Least(2 * absorb.backoff, BackoffCap)
           ELSE absorb.backoff

\* Mutant: the last wait is not cut to what is left of the window.
WaitUncut(status, after) ==
  /\ pc' = "waiting"
  /\ absorb' = [absorb EXCEPT !.started = TRUE, !.again = TRUE, !.backoff = Doubled,
                              !.pause = NextWait(status, after)]
  /\ reply' = Nobody /\ UNCHANGED outcome

\* wait: the next wait, or what is left of the window.
Wait(status, after) ==
  /\ pc' = "waiting"
  /\ absorb' = [absorb EXCEPT !.started = TRUE, !.again = TRUE, !.backoff = Doubled,
                              !.pause = Least(NextWait(status, after),
                                              route.budget - absorb.elapsed)]
  /\ reply' = Nobody /\ UNCHANGED outcome

\* No wait: a request cancelled meanwhile is dropped, any other is answered.
GiveUp(kind, retry) ==
  /\ Ends(IF cancelled THEN "silent" ELSE kind, retry)
  /\ absorb' = [absorb EXCEPT !.started = TRUE]

Absorb(status, after, kind, retry) ==
  IF WindowOpen THEN Wait(status, after) ELSE GiveUp(kind, retry)

\* The sleep ends; the same body is sent again.
Wake ==
  /\ pc = "waiting"
  /\ pc' = "inFlight"
  /\ absorb' = [absorb EXCEPT !.elapsed = @ + absorb.pause, !.pause = 0]
  /\ waited' = waited + absorb.pause
  /\ UNCHANGED <<route, original, body, reply, decider, enabled, cancelled, client, outcome,
                 tried>>

\* The context ends first.
Interrupted ==
  /\ pc = "waiting" /\ cancelled
  /\ Ends("silent", FALSE)
  /\ UNCHANGED <<route, original, body, decider, absorb, enabled, cancelled, client, waited,
                 tried>>

-----------------------------------------------------------------------------
(* The attempt.                                                            *)

\* A held stream is a Responses stream of a route with an absorb window.
MayReply(r) == r.kind = "held" => route.responses /\ route.budget > 0

\* doUpstreamRequest, and the reading of the body.
Receive ==
  /\ pc = "inFlight"
  /\ pc' = "decide"
  /\ reply' \in IF cancelled THEN {CutShort(k) : k \in CutKind} ELSE {r \in Reply : MayReply(r)}
  /\ \E d \in Delays :
       absorb' = IF absorb.started
                 THEN [absorb EXCEPT !.elapsed = Least(@ + d, route.budget)]
                 ELSE absorb
  /\ UNCHANGED <<route, original, body, decider, enabled, cancelled, client, outcome, waited,
                 tried>>

Deciding(kinds) ==
  /\ pc = "decide" /\ reply.kind \in kinds
  /\ UNCHANGED <<route, original, enabled, cancelled, client, waited>>

\* A usable response goes to the client, whatever becomes of it on the way.
Respond ==
  /\ Deciding({"success"})
  /\ Ends("response", FALSE)
  /\ UNCHANGED <<body, decider, absorb, tried>>

\* Encodings, redirects and bodies that cannot be read.
Refuse ==
  /\ Deciding({"unusable"})
  /\ \E retry \in BOOLEAN : Ends("gateway", retry)
  /\ UNCHANGED <<body, decider, absorb, tried>>

\* A Responses stream that was still held back when the context ended.
HoldCut ==
  /\ Deciding({"cut"})
  /\ Ends("silent", FALSE)
  /\ UNCHANGED <<body, decider, absorb, tried>>

\* onRequestError.
OnRequestError ==
  /\ Deciding({"timeout", "unreachable", "cancelled"})
  /\ decider' = [decider EXCEPT !.rejected = FALSE]
  /\ IF cancelled /\ ~enabled
     THEN Ends("stopped", FALSE) /\ UNCHANGED absorb
     ELSE IF reply.kind = "timeout"
          THEN Absorb(599, 0, "gateway", TRUE)
          ELSE Ends("gateway", TRUE) /\ UNCHANGED absorb
  /\ UNCHANGED <<body, tried>>

-----------------------------------------------------------------------------
(* Failures with a response.                                               *)

RejectsReasoning == reply.complaint = "reasoning"

\* absorbEligible.
Eligible(status, retry) ==
  \/ retry
  \/ status \in OriginTLS \cup {408}
  \/ route.balanced /\ status \in 400..499

\* onSuccessEnvelope: an error envelope with a success status.
OnSuccessEnvelope ==
  /\ Deciding({"wrapped"})
  /\ LET transient == reply.structured = "transient"
         status == IF transient THEN 503 ELSE 400
     IN IF ~RejectsReasoning /\ Eligible(status, transient)
        THEN /\ decider' = [decider EXCEPT !.rejected = FALSE]
             /\ Absorb(status, reply.after, "failure", transient)
        ELSE /\ decider' = [decider EXCEPT !.rejected = RejectsReasoning]
             /\ Ends(IF cancelled THEN "silent" ELSE "failure", transient /\ ~RejectsReasoning)
             /\ UNCHANGED absorb
  /\ UNCHANGED <<body, tried>>

\* The rewrites, in the order forwardFacade tries them.
StripsInclude == route.responses /\ reply.complaint = "include" /\ body.include
Sanitizes == route.responses /\ reply.complaint = "tools" /\ body.undeclared
StripsImages == reply.complaint = "vision" /\ ~decider.stripped /\ body.images
Clamps == reply.complaint = "budget" /\ ~decider.budgeted /\ ~body.clamped
DropsReasoning == RejectsReasoning /\ ~decider.recovered /\ body.opaque

Rewrite(new) ==
  /\ Deciding({"error"})
  /\ pc' = "inFlight" /\ reply' = Nobody
  /\ body' = new /\ tried' = tried \cup {new}
  /\ UNCHANGED <<absorb, outcome>>

\* strictSchemaRetry.
StrictSchemaRetry ==
  /\ \/ StripsInclude /\ Rewrite([body EXCEPT !.include = FALSE])
     \/ Sanitizes /\ Rewrite([body EXCEPT !.undeclared = FALSE])
  /\ UNCHANGED decider

\* Mutant: the strip is repeated whether or not an image was left to remove.
StripVisionAlways ==
  /\ reply.complaint = "vision" /\ ~decider.stripped
  /\ Rewrite([body EXCEPT !.images = FALSE])
  /\ decider' = [decider EXCEPT !.stripped = TRUE, !.rejected = FALSE]

\* onErrorResponse: an upstream that takes no images.
StripVision ==
  /\ StripsImages
  /\ Rewrite([body EXCEPT !.images = FALSE])
  /\ decider' = [decider EXCEPT !.stripped = TRUE, !.rejected = FALSE]

\* onErrorResponse: an output allowance the context window has no room for.
ClampBudget ==
  /\ Clamps
  /\ Rewrite([body EXCEPT !.clamped = TRUE])
  /\ decider' = [decider EXCEPT !.budgeted = TRUE, !.rejected = FALSE]

\* Mutant: the request is adapted again without the limit learned before.
RecoverReasoningUnclamped ==
  /\ DropsReasoning
  /\ Rewrite([original EXCEPT !.opaque = FALSE])
  /\ decider' = [decider EXCEPT !.recovered = TRUE, !.rejected = TRUE]

\* onErrorResponse: foreign reasoning history; the request is adapted again
\* from the original body, and keeps only the clamped limit.
RecoverReasoning ==
  /\ DropsReasoning
  /\ Rewrite([original EXCEPT !.opaque = FALSE, !.clamped = decider.budgeted])
  /\ decider' = [decider EXCEPT !.recovered = TRUE, !.rejected = TRUE]

Rewrites == StrictSchemaRetry \/ StripVision \/ ClampBudget \/ RecoverReasoning

\* setRetryDisposition.
Retryable ==
  IF reply.hint # "none" THEN reply.hint = "true"
  ELSE IF reply.status = 408 THEN TRUE
  ELSE IF reply.structured # "none" THEN reply.structured = "transient"
  ELSE reply.status = 429 \/ reply.status \in 500..599 \ OriginTLS

\* onDisposition, under the verdict on the reasoning history.
OnDisposition(rejected) ==
  LET shield == ~rejected /\ reply.complaint = "challenge" /\ reply.status \in {403, 503}
      status == IF shield THEN 503 ELSE reply.status
      retry == shield \/ (Retryable /\ ~rejected)
  IN IF ~rejected /\ Eligible(status, retry)
     THEN Absorb(status, reply.after, "failure", retry)
     ELSE Ends(IF cancelled THEN "silent" ELSE "failure", retry) /\ UNCHANGED absorb

\* An error response no rewrite answers.
Dispose ==
  /\ Deciding({"error"})
  /\ ~(StripsInclude \/ Sanitizes \/ StripsImages \/ Clamps \/ DropsReasoning)
  /\ decider' = [decider EXCEPT !.rejected = RejectsReasoning]
  /\ OnDisposition(RejectsReasoning)
  /\ UNCHANGED <<body, tried>>

\* A held stream that failed is disposed of under the verdict of an earlier
\* attempt: nothing resets it in between.
DisposeHeld ==
  /\ Deciding({"held"})
  /\ OnDisposition(decider.rejected)
  /\ UNCHANGED <<body, decider, tried>>

Handle ==
  \/ Respond \/ Refuse \/ HoldCut \/ OnRequestError \/ OnSuccessEnvelope
  \/ Rewrites \/ Dispose \/ DisposeHeld

-----------------------------------------------------------------------------
(* The proxy is stopped and started again; the client leaves.              *)

Request == <<pc, route, original, body, reply, decider, absorb, outcome, waited, tried>>

Disable == enabled /\ enabled' = FALSE /\ UNCHANGED <<cancelled, client, Request>>

CancelUpstream == ~enabled /\ ~cancelled /\ cancelled' = TRUE
                  /\ UNCHANGED <<enabled, client, Request>>

Enable == ~enabled /\ cancelled /\ enabled' = TRUE /\ UNCHANGED <<cancelled, client, Request>>

ClientLeaves == client /\ client' = FALSE /\ cancelled' = TRUE /\ UNCHANGED <<enabled, Request>>

Environment == pc # "done" /\ (Disable \/ CancelUpstream \/ Enable \/ ClientLeaves)

Next == Receive \/ Handle \/ Wake \/ Interrupted \/ Environment

Spec == Init /\ [][Next]_vars

\* Attempts end (a header timeout bounds them), sleeps end, handlers run.
FairSpec == Spec /\ WF_vars(Receive) /\ WF_vars(Handle) /\ WF_vars(Wake \/ Interrupted)

-----------------------------------------------------------------------------

Decider == [stripped : BOOLEAN, budgeted : BOOLEAN, recovered : BOOLEAN, rejected : BOOLEAN]
AbsorbState == [started : BOOLEAN, elapsed : 0..route.budget, backoff : Nat \ {0},
                again : BOOLEAN, pause : 0..route.budget]

TypeOK ==
  /\ pc \in {"inFlight", "decide", "waiting", "done"}
  /\ route \in Route /\ original \in Bodies /\ body \in Body
  /\ reply \in Reply \cup {Nobody} \cup {CutShort(k) : k \in CutKind}
  /\ decider \in Decider /\ absorb \in AbsorbState
  /\ enabled \in BOOLEAN /\ cancelled \in BOOLEAN /\ client \in BOOLEAN
  /\ outcome \in Outcome /\ waited \in Nat /\ tried \subseteq Body

(***************************************************************************)
(* However failures of all families and Retry-After hints are mixed, the   *)
(* waits of one request never add up to more than its window               *)
(* (absorb_retry_max_secs, README.md:204; absorb.go:178-199).              *)
(***************************************************************************)
WindowKept == waited <= route.budget

(***************************************************************************)
(* A request nothing cancelled is always answered: returning in silence is *)
(* for cancelled ones (planAbortSilent, facade_recovery.go:20-24).         *)
(***************************************************************************)
AnsweredUnlessCancelled == outcome.kind = "silent" => cancelled

(***************************************************************************)
(* A rewrite always makes progress: it never sends a body that was sent    *)
(* before, so no order of complaints makes the rewrites go round in        *)
(* circles (the single-shot flags, facade_recovery.go:183-219,             *)
(* facade_request.go:509-528).                                             *)
(***************************************************************************)
RewritesAreFresh ==
  [][pc = "decide" /\ pc' = "inFlight" => body' \notin tried]_vars

(***************************************************************************)
(* A completion limit that was clamped to the context window stays clamped *)
(* in every later body, also in one adapted again from the original        *)
(* (contextOutputLimit, facade_recovery.go:206-213).                       *)
(***************************************************************************)
LimitKept == [][body.clamped => body'.clamped]_vars

(***************************************************************************)
(* Every request ends: the window closes, and the rewrites run out.        *)
(***************************************************************************)
Terminates == <>(pc = "done")

=============================================================================
