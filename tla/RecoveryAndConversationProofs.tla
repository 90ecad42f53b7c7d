------------------ MODULE RecoveryAndConversationProofs ------------------
(***************************************************************************)
(* What a request and a conversation may rely on.                          *)
(*                                                                         *)
(* The first part has the safety properties of Recovery, for every         *)
(* upstream, route, body and delay.  The second has what a conversation    *)
(* that changes models may rely on, for every number of requests, channels *)
(* and seconds, every limit of the index and every order of captures,      *)
(* flushes, crashes and starts.                                            *)
(***************************************************************************)
EXTENDS Recovery, Conversation, FiniteSetTheorems, TLAPS

-----------------------------------------------------------------------------
(* Recovery.                                                               *)

\* The time spent waiting is part of the time elapsed, and a wait fits what is
\* left of the window.
Waits ==
  /\ waited <= absorb.elapsed
  /\ pc = "waiting" => absorb.elapsed + absorb.pause <= route.budget

\* Silence, and what an attempt ends with when it is cut short.
Answers ==
  /\ AnsweredUnlessCancelled
  /\ reply.kind \in {"cancelled", "cut"} => cancelled

\* The limit is remembered as long as a body carries it.
Limits == body.clamped => decider.budgeted

\* b could have come before body: everything body still has, b had.
Before(b) ==
  /\ body.images => b.images
  /\ body.include => b.include
  /\ body.undeclared => b.undeclared
  /\ b.clamped => body.clamped

\* The bodies sent fall into two descending rows: those with the reasoning
\* history, and, after its recovery, those without.
Rows ==
  /\ \A b \in tried : b.opaque = body.opaque => Before(b)
  /\ ~decider.recovered => \A b \in tried : b.opaque = body.opaque
  /\ decider.recovered => ~body.opaque

-----------------------------------------------------------------------------
(* Lemmas about the operators.                                             *)

\* Least is a lower bound.
LEMMA LeastBound ==
  ASSUME NEW a \in Nat, NEW b \in Nat
  PROVE  Least(a, b) \in Nat /\ Least(a, b) <= a /\ Least(a, b) <= b
         /\ (Least(a, b) = a \/ Least(a, b) = b)
  BY DEF Least

\* What an attempt may end with has a Retry-After.
LEMMA AfterTyped ==
  ASSUME TypeOK
  PROVE  reply.after \in Nat
<1>1. CASE reply \in Reply
  BY <1>1, RecoveryAssumption DEF ReplyShape
<1>2. CASE reply = Nobody
  BY <1>2 DEF Nobody
<1>3. ASSUME NEW k \in CutKind, reply = CutShort(k)
      PROVE  reply.after \in Nat
  BY <1>3 DEF CutShort, Nobody
<1> QED
  BY <1>1, <1>2, <1>3 DEF TypeOK

\* The next wait is a number of ticks, and so is the doubled backoff.
LEMMA NextWaitTyped ==
  ASSUME TypeOK, NEW status, NEW after \in Nat
  PROVE  NextWait(status, after) \in Nat /\ Doubled \in Nat \ {0}
<1>1. absorb.backoff \in Nat \ {0}
  BY DEF TypeOK, AbsorbState
<1>2. NextWait(status, after) \in Nat
  BY <1>1, RecoveryAssumption, LeastBound DEF NextWait
<1>3. Doubled \in Nat \ {0}
  BY <1>1, RecoveryAssumption DEF Doubled, Least
<1> QED
  BY <1>2, <1>3

\* What the absorb layer does to a failure, waiting or giving up.
LEMMA AbsorbStep ==
  ASSUME TypeOK, route' = route,
         NEW status, NEW after \in Nat, NEW kind \in {"failure", "gateway"},
         NEW retry \in BOOLEAN,
         Absorb(status, after, kind, retry)
  PROVE  /\ pc' \in {"waiting", "done"}
         /\ reply' \in {reply, Nobody}
         /\ (absorb \in AbsorbState)'
         /\ absorb'.elapsed = absorb.elapsed
         /\ pc' = "waiting" => absorb'.elapsed + absorb'.pause <= route.budget
         /\ outcome' \in Outcome
         /\ outcome'.kind = "silent" => (outcome.kind = "silent" \/ cancelled)
<1>0. /\ absorb \in AbsorbState /\ outcome \in Outcome /\ route.budget \in Nat
      /\ absorb.elapsed \in Nat /\ absorb.elapsed <= route.budget
  BY RecoveryAssumption DEF TypeOK, AbsorbState
<1>1. CASE WindowOpen
  <2> DEFINE pause == Least(NextWait(status, after), route.budget - absorb.elapsed)
  <2>1. /\ pc' = "waiting" /\ reply' = Nobody /\ outcome' = outcome
        /\ absorb' = [absorb EXCEPT !.started = TRUE, !.again = TRUE, !.backoff = Doubled,
                                    !.pause = pause]
    BY <1>1 DEF Absorb, Wait
  <2>2. route.budget - absorb.elapsed \in Nat
    BY <1>0
  <2>3. pause \in Nat /\ pause <= route.budget - absorb.elapsed
    BY <2>2, LeastBound, NextWaitTyped
  <2>4. pause \in 0..route.budget
    BY <1>0, <2>3
  <2>5. absorb' = [started |-> TRUE, elapsed |-> absorb.elapsed, backoff |-> Doubled,
                   again |-> TRUE, pause |-> pause]
    BY <2>1, <1>0 DEF AbsorbState
  <2> HIDE DEF pause
  <2>6. absorb' \in AbsorbState
    BY <2>4, <2>5, <1>0, NextWaitTyped DEF AbsorbState
  <2>7. (absorb \in AbsorbState)'
    BY <2>6 DEF AbsorbState
  <2>8. absorb'.elapsed + absorb'.pause <= route.budget
    BY <2>5, <2>3, <1>0
  <2> QED
    BY <2>1, <2>5, <2>7, <2>8, <1>0
<1>2. CASE ~WindowOpen
  <2>1. /\ pc' = "done" /\ reply' = reply
        /\ outcome' = [kind |-> IF cancelled THEN "silent" ELSE kind, retry |-> retry]
        /\ absorb' = [absorb EXCEPT !.started = TRUE]
    BY <1>2 DEF Absorb, GiveUp, Ends
  <2>2. absorb' \in AbsorbState /\ absorb'.elapsed = absorb.elapsed
    BY <2>1, <1>0 DEF AbsorbState
  <2>3. (absorb \in AbsorbState)'
    BY <2>2 DEF AbsorbState
  <2> QED
    BY <2>1, <2>2, <2>3 DEF Outcome
<1> QED
  BY <1>1, <1>2

-----------------------------------------------------------------------------
(* Types, and the window.                                                  *)

\* A failure handed to the absorb layer keeps the types and the window.
LEMMA AbsorbKeepsTypes ==
  ASSUME TypeOK, Waits, NEW status, NEW after \in Nat, NEW kind \in {"failure", "gateway"},
         NEW retry \in BOOLEAN,
         Absorb(status, after, kind, retry),
         UNCHANGED <<route, original, body, enabled, cancelled, client, waited, tried>>,
         decider' \in Decider
  PROVE  TypeOK' /\ Waits'
<1>1. /\ pc' \in {"waiting", "done"} /\ reply' \in {reply, Nobody}
      /\ (absorb \in AbsorbState)' /\ absorb'.elapsed = absorb.elapsed
      /\ pc' = "waiting" => absorb'.elapsed + absorb'.pause <= route.budget
      /\ outcome' \in Outcome
  BY AbsorbStep
<1>2. TypeOK'
  BY <1>1 DEF TypeOK
<1>3. Waits'
  BY <1>1 DEF Waits
<1> QED
  BY <1>2, <1>3

\* A failure, or a response, handed to the client.
LEMMA EndKeepsTypes ==
  ASSUME TypeOK, Waits, NEW kind \in {"response", "failure", "gateway", "stopped", "silent"},
         NEW retry \in BOOLEAN, Ends(kind, retry),
         UNCHANGED <<route, original, body, absorb, enabled, cancelled, client, waited, tried>>,
         decider' \in Decider
  PROVE  TypeOK' /\ Waits'
<1>1. pc' = "done" /\ reply' = reply /\ outcome' \in Outcome
  BY DEF Ends, Outcome
<1>2. (absorb \in AbsorbState)'
  BY DEF TypeOK, AbsorbState
<1>3. TypeOK'
  BY <1>1, <1>2 DEF TypeOK
<1>4. Waits'
  BY <1>1 DEF Waits
<1> QED
  BY <1>3, <1>4

\* Another body is sent.
LEMMA RewriteKeepsTypes ==
  ASSUME TypeOK, Waits, NEW new \in Body, Rewrite(new), decider' \in Decider
  PROVE  TypeOK' /\ Waits'
<1>1. /\ pc' = "inFlight" /\ reply' = Nobody /\ body' = new /\ tried' = tried \cup {new}
      /\ UNCHANGED <<route, original, enabled, cancelled, client, waited, absorb, outcome>>
  BY DEF Rewrite, Deciding
<1>2. (absorb \in AbsorbState)'
  BY <1>1 DEF TypeOK, AbsorbState
<1>3. TypeOK'
  BY <1>1, <1>2 DEF TypeOK
<1>4. Waits'
  BY <1>1 DEF Waits
<1> QED
  BY <1>3, <1>4

\* Every body a rewrite produces is a body.
LEMMA BodiesTyped ==
  ASSUME TypeOK
  PROVE  /\ body \in Body /\ original \in Body
         /\ [body EXCEPT !.include = FALSE] \in Body
         /\ [body EXCEPT !.undeclared = FALSE] \in Body
         /\ [body EXCEPT !.images = FALSE] \in Body
         /\ [body EXCEPT !.clamped = TRUE] \in Body
         /\ [original EXCEPT !.opaque = FALSE, !.clamped = decider.budgeted] \in Body
<1>1. body \in Body /\ original \in Body /\ decider.budgeted \in BOOLEAN
  BY RecoveryAssumption DEF TypeOK, Decider
<1> QED
  BY <1>1 DEF Body

\* Whatever onDisposition does to a failure.
LEMMA DispositionKeepsTypes ==
  ASSUME TypeOK, Waits, NEW rejected \in BOOLEAN, OnDisposition(rejected),
         UNCHANGED <<route, original, body, enabled, cancelled, client, waited, tried>>,
         decider' \in Decider
  PROVE  TypeOK' /\ Waits'
<1> DEFINE shield == ~rejected /\ reply.complaint = "challenge" /\ reply.status \in {403, 503}
           status == IF shield THEN 503 ELSE reply.status
           retry == shield \/ (Retryable /\ ~rejected)
<1>1. retry \in BOOLEAN
  BY DEF Retryable
<1>2. reply.after \in Nat
  BY AfterTyped
<1>3. \/ Absorb(status, reply.after, "failure", retry)
      \/ Ends(IF cancelled THEN "silent" ELSE "failure", retry) /\ UNCHANGED absorb
  BY DEF OnDisposition
<1> HIDE DEF shield, status, retry
<1>4. CASE Absorb(status, reply.after, "failure", retry)
  BY <1>1, <1>2, <1>4, AbsorbKeepsTypes
<1>5. CASE Ends(IF cancelled THEN "silent" ELSE "failure", retry) /\ UNCHANGED absorb
  BY <1>1, <1>5, EndKeepsTypes
<1> QED
  BY <1>3, <1>4, <1>5

\* The types and the window are kept by every step.
LEMMA TypesKept ==
  ASSUME TypeOK, Waits, [Next]_vars
  PROVE  TypeOK' /\ Waits'
<1>0. /\ absorb \in AbsorbState /\ decider \in Decider /\ outcome \in Outcome
      /\ route.budget \in Nat /\ waited \in Nat
      /\ absorb.elapsed \in Nat /\ absorb.elapsed <= route.budget
      /\ absorb.pause \in Nat /\ absorb.pause <= route.budget
  BY RecoveryAssumption DEF TypeOK, AbsorbState
<1>1. ASSUME Receive
      PROVE  TypeOK' /\ Waits'
  <2>1. PICK d \in Delays :
          absorb' = IF absorb.started
                    THEN [absorb EXCEPT !.elapsed = Least(@ + d, route.budget)]
                    ELSE absorb
    BY <1>1 DEF Receive
  <2>2. absorb.elapsed + d \in Nat /\ absorb.elapsed + d >= absorb.elapsed
    BY <1>0, RecoveryAssumption
  <2>3. /\ Least(absorb.elapsed + d, route.budget) \in 0..route.budget
        /\ Least(absorb.elapsed + d, route.budget) >= absorb.elapsed
    BY <1>0, <2>2 DEF Least
  <2>4. absorb' \in AbsorbState /\ absorb'.elapsed >= absorb.elapsed
    BY <1>0, <2>1, <2>3 DEF AbsorbState
  <2>5. /\ pc' = "decide"
        /\ reply' \in Reply \cup {CutShort(k) : k \in CutKind}
        /\ UNCHANGED <<route, original, body, decider, enabled, cancelled, client, outcome,
                       waited, tried>>
    BY <1>1 DEF Receive
  <2>6. (absorb \in AbsorbState)'
    BY <2>4, <2>5 DEF AbsorbState
  <2>7. TypeOK'
    BY <2>5, <2>6 DEF TypeOK
  <2>8. Waits'
    BY <1>0, <2>4, <2>5, <2>6 DEF Waits, AbsorbState
  <2> QED
    BY <2>7, <2>8
<1>2. ASSUME Respond
      PROVE  TypeOK' /\ Waits'
  BY <1>0, <1>2, EndKeepsTypes DEF Respond, Deciding
<1>3. ASSUME Refuse
      PROVE  TypeOK' /\ Waits'
  BY <1>0, <1>3, EndKeepsTypes DEF Refuse, Deciding
<1>4. ASSUME HoldCut
      PROVE  TypeOK' /\ Waits'
  BY <1>0, <1>4, EndKeepsTypes DEF HoldCut, Deciding
<1>5. ASSUME OnRequestError
      PROVE  TypeOK' /\ Waits'
  <2>1. decider' \in Decider
    BY <1>0, <1>5 DEF OnRequestError, Decider
  <2>2. UNCHANGED <<route, original, body, enabled, cancelled, client, waited, tried>>
    BY <1>5 DEF OnRequestError, Deciding
  <2>3. \/ Ends("stopped", FALSE) /\ UNCHANGED absorb
        \/ Absorb(599, 0, "gateway", TRUE)
        \/ Ends("gateway", TRUE) /\ UNCHANGED absorb
    BY <1>5 DEF OnRequestError
  <2> QED
    BY <2>1, <2>2, <2>3, EndKeepsTypes, AbsorbKeepsTypes
<1>6. ASSUME OnSuccessEnvelope
      PROVE  TypeOK' /\ Waits'
  <2> DEFINE transient == reply.structured = "transient"
             status == IF transient THEN 503 ELSE 400
             retry == transient /\ ~RejectsReasoning
             kind == IF cancelled THEN "silent" ELSE "failure"
  <2>1. decider' \in Decider
    <3>1. \/ decider' = [decider EXCEPT !.rejected = FALSE]
          \/ decider' = [decider EXCEPT !.rejected = RejectsReasoning]
      BY <1>6 DEF OnSuccessEnvelope
    <3>2. RejectsReasoning \in BOOLEAN
      BY DEF RejectsReasoning
    <3> QED
      BY <1>0, <3>1, <3>2 DEF Decider
  <2>2. UNCHANGED <<route, original, body, enabled, cancelled, client, waited, tried>>
    BY <1>6 DEF OnSuccessEnvelope, Deciding
  <2>3. \/ Absorb(status, reply.after, "failure", transient)
        \/ Ends(kind, retry) /\ UNCHANGED absorb
    BY <1>6 DEF OnSuccessEnvelope
  <2>4. transient \in BOOLEAN /\ retry \in BOOLEAN /\ kind \in {"silent", "failure"}
    BY DEF RejectsReasoning
  <2> HIDE DEF transient, status, retry, kind
  <2> QED
    BY <2>1, <2>2, <2>3, <2>4, EndKeepsTypes, AbsorbKeepsTypes, AfterTyped
<1>7. ASSUME StrictSchemaRetry
      PROVE  TypeOK' /\ Waits'
  BY <1>0, <1>7, BodiesTyped, RewriteKeepsTypes DEF StrictSchemaRetry
<1>8. ASSUME StripVision
      PROVE  TypeOK' /\ Waits'
  <2>1. decider' \in Decider
    BY <1>0, <1>8 DEF StripVision, Decider
  <2> QED
    BY <1>8, <2>1, BodiesTyped, RewriteKeepsTypes DEF StripVision
<1>9. ASSUME ClampBudget
      PROVE  TypeOK' /\ Waits'
  <2>1. decider' \in Decider
    BY <1>0, <1>9 DEF ClampBudget, Decider
  <2> QED
    BY <1>9, <2>1, BodiesTyped, RewriteKeepsTypes DEF ClampBudget
<1>10. ASSUME RecoverReasoning
       PROVE  TypeOK' /\ Waits'
  <2>1. decider' \in Decider
    BY <1>0, <1>10 DEF RecoverReasoning, Decider
  <2> QED
    BY <1>10, <2>1, BodiesTyped, RewriteKeepsTypes DEF RecoverReasoning
<1>11. ASSUME Dispose
       PROVE  TypeOK' /\ Waits'
  <2>1. RejectsReasoning \in BOOLEAN
    BY DEF RejectsReasoning
  <2>2. decider' \in Decider
    BY <1>0, <1>11, <2>1 DEF Dispose, Decider
  <2>3. /\ UNCHANGED <<route, original, body, enabled, cancelled, client, waited, tried>>
        /\ OnDisposition(RejectsReasoning)
    BY <1>11 DEF Dispose, Deciding
  <2> QED
    BY <2>1, <2>2, <2>3, DispositionKeepsTypes
<1>12. ASSUME DisposeHeld
       PROVE  TypeOK' /\ Waits'
  <2>1. decider.rejected \in BOOLEAN
    BY <1>0 DEF Decider
  <2>2. /\ UNCHANGED <<route, original, body, enabled, cancelled, client, waited, tried, decider>>
        /\ OnDisposition(decider.rejected)
    BY <1>12 DEF DisposeHeld, Deciding
  <2>3. decider' \in Decider
    BY <1>0, <2>2
  <2> QED
    BY <2>1, <2>2, <2>3, DispositionKeepsTypes
<1>13. ASSUME Wake
       PROVE  TypeOK' /\ Waits'
  <2>1. absorb.elapsed + absorb.pause \in 0..route.budget
    BY <1>0, <1>13 DEF Wake, Waits
  <2>2. absorb' = [absorb EXCEPT !.elapsed = absorb.elapsed + absorb.pause, !.pause = 0]
    BY <1>13 DEF Wake
  <2>3. absorb' \in AbsorbState /\ absorb'.elapsed = absorb.elapsed + absorb.pause
    <3>1. absorb' = [started |-> absorb.started, elapsed |-> absorb.elapsed + absorb.pause,
                     backoff |-> absorb.backoff, again |-> absorb.again, pause |-> 0]
      BY <1>0, <2>2 DEF AbsorbState
    <3>2. 0 \in 0..route.budget
      BY <1>0
    <3> QED
      BY <1>0, <2>1, <3>1, <3>2 DEF AbsorbState
  <2>4. /\ pc' = "inFlight" /\ waited' = waited + absorb.pause
        /\ UNCHANGED <<route, original, body, reply, decider, enabled, cancelled, client,
                       outcome, tried>>
    BY <1>13 DEF Wake
  <2>5. (absorb \in AbsorbState)'
    BY <2>3, <2>4 DEF AbsorbState
  <2>6. TypeOK'
    BY <1>0, <2>4, <2>5 DEF TypeOK
  <2>7. Waits'
    BY <1>0, <2>3, <2>4 DEF Waits
  <2> QED
    BY <2>6, <2>7
<1>14. ASSUME Interrupted
       PROVE  TypeOK' /\ Waits'
  BY <1>0, <1>14, EndKeepsTypes DEF Interrupted
<1>15. ASSUME Environment
       PROVE  TypeOK' /\ Waits'
  <2>1. UNCHANGED <<pc, route, original, body, reply, decider, absorb, outcome, waited, tried>>
    BY <1>15 DEF Environment, Disable, CancelUpstream, Enable, ClientLeaves, Request
  <2>2. enabled' \in BOOLEAN /\ cancelled' \in BOOLEAN /\ client' \in BOOLEAN
    BY <1>15 DEF Environment, Disable, CancelUpstream, Enable, ClientLeaves, TypeOK
  <2>3. (absorb \in AbsorbState)'
    BY <1>0, <2>1 DEF AbsorbState
  <2> QED
    BY <2>1, <2>2, <2>3 DEF TypeOK, Waits
<1>16. ASSUME UNCHANGED vars
       PROVE  TypeOK' /\ Waits'
  <2>1. (absorb \in AbsorbState)'
    BY <1>0, <1>16 DEF AbsorbState, vars
  <2> QED
    BY <1>16, <2>1 DEF TypeOK, Waits, vars
<1> QED
  BY <1>1, <1>2, <1>3, <1>4, <1>5, <1>6, <1>7, <1>8, <1>9, <1>10, <1>11, <1>12, <1>13, <1>14,
     <1>15, <1>16 DEF Next, Handle, Rewrites

-----------------------------------------------------------------------------
(* Silence, the learned limit, and the bodies sent.                        *)

\* Silence needs a cancellation, and so does an attempt that is cut short.
LEMMA AnswersKept ==
  ASSUME TypeOK, Answers, [Next]_vars
  PROVE  Answers'
<1> USE DEF Answers, AnsweredUnlessCancelled
<1>1. ASSUME Receive
      PROVE  Answers'
  <2>1. cancelled \/ (reply' \in Reply)
    BY <1>1 DEF Receive
  <2>2. cancelled \/ reply'.kind \notin {"cancelled", "cut"}
    BY <2>1, RecoveryAssumption DEF ReplyShape, Kind
  <2> QED
    BY <1>1, <2>2 DEF Receive
<1>2. ASSUME NEW kind, NEW retry, Ends(kind, retry), kind = "silent" => cancelled,
             UNCHANGED cancelled
      PROVE  Answers'
  BY <1>2 DEF Ends
<1>3. ASSUME NEW status, NEW after \in Nat, NEW kind \in {"failure", "gateway"},
             NEW retry \in BOOLEAN,
             Absorb(status, after, kind, retry), UNCHANGED <<route, cancelled>>
      PROVE  Answers'
  <2>1. /\ reply' \in {reply, Nobody}
        /\ outcome'.kind = "silent" => (outcome.kind = "silent" \/ cancelled)
    BY <1>3, AbsorbStep
  <2>2. Nobody.kind = "none"
    BY DEF Nobody
  <2> QED
    BY <1>3, <2>1, <2>2
<1>4. ASSUME NEW rejected \in BOOLEAN, OnDisposition(rejected), UNCHANGED <<route, cancelled>>
      PROVE  Answers'
  <2> DEFINE shield == ~rejected /\ reply.complaint = "challenge" /\ reply.status \in {403, 503}
             status == IF shield THEN 503 ELSE reply.status
             retry == shield \/ (Retryable /\ ~rejected)
  <2>1. retry \in BOOLEAN
    BY DEF Retryable
  <2>2. reply.after \in Nat
    BY AfterTyped
  <2>3. \/ Absorb(status, reply.after, "failure", retry)
        \/ Ends(IF cancelled THEN "silent" ELSE "failure", retry)
    BY <1>4 DEF OnDisposition
  <2> HIDE DEF shield, status, retry
  <2>4. CASE Absorb(status, reply.after, "failure", retry)
    BY <1>3, <1>4, <2>1, <2>2, <2>4
  <2>5. CASE Ends(IF cancelled THEN "silent" ELSE "failure", retry)
    BY <1>2, <1>4, <2>5
  <2> QED
    BY <2>3, <2>4, <2>5
<1>5. ASSUME Respond \/ Refuse
      PROVE  Answers'
  BY <1>2, <1>5 DEF Respond, Refuse, Deciding
<1>6. ASSUME HoldCut
      PROVE  Answers'
  BY <1>2, <1>6 DEF HoldCut, Deciding
<1>7. ASSUME OnRequestError
      PROVE  Answers'
  <2>1. \/ Ends("stopped", FALSE)
        \/ Absorb(599, 0, "gateway", TRUE)
        \/ Ends("gateway", TRUE)
    BY <1>7 DEF OnRequestError
  <2> QED
    BY <1>2, <1>3, <1>7, <2>1 DEF OnRequestError, Deciding
<1>8. ASSUME OnSuccessEnvelope
      PROVE  Answers'
  <2> DEFINE transient == reply.structured = "transient"
             status == IF transient THEN 503 ELSE 400
             retry == transient /\ ~RejectsReasoning
             kind == IF cancelled THEN "silent" ELSE "failure"
  <2>1. Absorb(status, reply.after, "failure", transient) \/ Ends(kind, retry)
    BY <1>8 DEF OnSuccessEnvelope
  <2>2. transient \in BOOLEAN /\ (kind = "silent" => cancelled)
    OBVIOUS
  <2>3. UNCHANGED <<route, cancelled>> /\ reply.after \in Nat
    BY <1>8, AfterTyped DEF OnSuccessEnvelope, Deciding
  <2> HIDE DEF transient, status, retry, kind
  <2> QED
    BY <1>2, <1>3, <2>1, <2>2, <2>3
<1>9. ASSUME Rewrites
      PROVE  Answers'
  <2>1. /\ reply' = Nobody /\ outcome' = outcome /\ cancelled' = cancelled
    BY <1>9 DEF Rewrites, StrictSchemaRetry, StripVision, ClampBudget, RecoverReasoning, Rewrite,
                Deciding
  <2> QED
    BY <2>1 DEF Nobody
<1>10. ASSUME Dispose
       PROVE  Answers'
  BY <1>4, <1>10 DEF Dispose, Deciding, RejectsReasoning
<1>11. ASSUME DisposeHeld
       PROVE  Answers'
  BY <1>4, <1>11 DEF DisposeHeld, Deciding, TypeOK, Decider
<1>12. ASSUME Wake
       PROVE  Answers'
  BY <1>12 DEF Wake
<1>13. ASSUME Interrupted
       PROVE  Answers'
  BY <1>2, <1>13 DEF Interrupted
<1>14. ASSUME Environment
       PROVE  Answers'
  BY <1>14 DEF Environment, Disable, CancelUpstream, Enable, ClientLeaves, Request
<1>15. ASSUME UNCHANGED vars
       PROVE  Answers'
  BY <1>15 DEF vars
<1> QED
  BY <1>1, <1>5, <1>6, <1>7, <1>8, <1>9, <1>10, <1>11, <1>12, <1>13, <1>14, <1>15
     DEF Next, Handle

\* Only the four rewrites touch the bodies and the flags that go with them.
LEMMA OtherStepsKeepBodies ==
  ASSUME TypeOK, [Next]_vars, ~Rewrites
  PROVE  /\ UNCHANGED <<body, tried>>
         /\ decider'.budgeted = decider.budgeted /\ decider'.recovered = decider.recovered
         /\ ~(pc = "decide" /\ pc' = "inFlight")
<1>0. decider \in Decider
  BY DEF TypeOK
<1>1. ASSUME NEW status, NEW after, NEW kind, NEW retry, Absorb(status, after, kind, retry)
      PROVE  pc' # "inFlight"
  BY <1>1 DEF Absorb, Wait, GiveUp, Ends
<1>2. ASSUME NEW kind, NEW retry, Ends(kind, retry)
      PROVE  pc' # "inFlight"
  BY <1>2 DEF Ends
<1>3. ASSUME NEW rejected, OnDisposition(rejected)
      PROVE  pc' # "inFlight"
  BY <1>1, <1>2, <1>3 DEF OnDisposition
<1> DEFINE Goal == /\ UNCHANGED <<body, tried>>
                   /\ decider'.budgeted = decider.budgeted /\ decider'.recovered = decider.recovered
                   /\ ~(pc = "decide" /\ pc' = "inFlight")
<1>4. ASSUME Receive \/ Interrupted \/ Wake \/ Environment \/ UNCHANGED vars
      PROVE  Goal
  BY <1>4 DEF Receive, Interrupted, Wake, Environment, Disable, CancelUpstream, Enable,
              ClientLeaves, Request, Ends, vars
<1>5. ASSUME Respond \/ Refuse \/ HoldCut
      PROVE  Goal
  BY <1>2, <1>5 DEF Respond, Refuse, HoldCut, Deciding
<1>6. ASSUME OnRequestError
      PROVE  Goal
  <2>1. UNCHANGED <<body, tried>> /\ decider' = [decider EXCEPT !.rejected = FALSE]
    BY <1>6 DEF OnRequestError
  <2>2. pc' # "inFlight"
    BY <1>1, <1>2, <1>6 DEF OnRequestError
  <2> QED
    BY <1>0, <2>1, <2>2 DEF Decider
<1>7. ASSUME OnSuccessEnvelope
      PROVE  Goal
  <2>1. /\ UNCHANGED <<body, tried>>
        /\ \/ decider' = [decider EXCEPT !.rejected = FALSE]
           \/ decider' = [decider EXCEPT !.rejected = RejectsReasoning]
    BY <1>7 DEF OnSuccessEnvelope
  <2>2. pc' # "inFlight"
    BY <1>1, <1>2, <1>7 DEF OnSuccessEnvelope
  <2> QED
    BY <1>0, <2>1, <2>2 DEF Decider
<1>8. ASSUME Dispose
      PROVE  Goal
  <2>1. UNCHANGED <<body, tried>> /\ decider' = [decider EXCEPT !.rejected = RejectsReasoning]
    BY <1>8 DEF Dispose
  <2>2. pc' # "inFlight"
    BY <1>3, <1>8 DEF Dispose
  <2> QED
    BY <1>0, <2>1, <2>2 DEF Decider
<1>9. ASSUME DisposeHeld
      PROVE  Goal
  BY <1>3, <1>9 DEF DisposeHeld
<1> QED
  BY <1>4, <1>5, <1>6, <1>7, <1>8, <1>9 DEF Next, Handle, Rewrites

\* new takes one thing away from the body, or clamps its limit.
Lower(new) ==
  /\ new \in Body /\ new.opaque = body.opaque /\ new # body
  /\ new.images => body.images
  /\ new.include => body.include
  /\ new.undeclared => body.undeclared
  /\ body.clamped => new.clamped

\* Such a rewrite goes down its row by a body that is not in it.
LEMMA DownTheRow ==
  ASSUME TypeOK, Rows, NEW new, Lower(new), Rewrite(new),
         decider'.recovered = decider.recovered
  PROVE  Rows' /\ body' \notin tried
<1> USE DEF Lower
<1>0. body' = new /\ tried' = tried \cup {new} /\ body \in Body
  BY DEF Rewrite, TypeOK
<1>1. ASSUME NEW b \in tried, b.opaque = body.opaque
      PROVE  Before(b)'
  BY <1>0, <1>1 DEF Rows, Before
<1>2. Before(new)'
  BY <1>0 DEF Before
<1>3. Rows'
  BY <1>0, <1>1, <1>2 DEF Rows
<1>4. ~(/\ body.images => new.images
        /\ body.include => new.include
        /\ body.undeclared => new.undeclared
        /\ new.clamped => body.clamped)
  BY <1>0 DEF Body
<1>5. new \notin tried
  BY <1>4 DEF Rows, Before
<1> QED
  BY <1>0, <1>3, <1>5

\* Every step keeps the rows, and a rewrite sends a body not sent before.
LEMMA RowsKept ==
  ASSUME TypeOK, Rows, [Next]_vars
  PROVE  Rows' /\ (pc = "decide" /\ pc' = "inFlight" => body' \notin tried)
<1>0. body \in Body /\ decider \in Decider
  BY DEF TypeOK
<1>1. CASE ~Rewrites
  <2>1. /\ UNCHANGED <<body, tried>> /\ decider'.recovered = decider.recovered
        /\ ~(pc = "decide" /\ pc' = "inFlight")
    BY <1>1, OtherStepsKeepBodies
  <2> QED
    BY <2>1 DEF Rows, Before
<1>2. CASE StrictSchemaRetry
  <2>1. PICK new \in {[body EXCEPT !.include = FALSE], [body EXCEPT !.undeclared = FALSE]} :
          /\ Rewrite(new)
          /\ \/ new = [body EXCEPT !.include = FALSE] /\ body.include
             \/ new = [body EXCEPT !.undeclared = FALSE] /\ body.undeclared
    BY <1>2 DEF StrictSchemaRetry, StripsInclude, Sanitizes
  <2>2. Lower(new)
    BY <1>0, <2>1 DEF Body, Lower
  <2>3. decider'.recovered = decider.recovered
    BY <1>2 DEF StrictSchemaRetry
  <2> QED
    BY <2>1, <2>2, <2>3, DownTheRow
<1>3. CASE StripVision
  <2> DEFINE new == [body EXCEPT !.images = FALSE]
  <2>1. Rewrite(new) /\ body.images /\ decider'.recovered = decider.recovered
    BY <1>0, <1>3 DEF StripVision, StripsImages, Decider
  <2>2. Lower(new)
    BY <1>0, <2>1 DEF Body, Lower
  <2> HIDE DEF new
  <2> QED
    BY <2>1, <2>2, DownTheRow
<1>4. CASE ClampBudget
  <2> DEFINE new == [body EXCEPT !.clamped = TRUE]
  <2>1. Rewrite(new) /\ ~body.clamped /\ decider'.recovered = decider.recovered
    BY <1>0, <1>4 DEF ClampBudget, Clamps, Decider
  <2>2. Lower(new)
    BY <1>0, <2>1 DEF Body, Lower
  <2> HIDE DEF new
  <2> QED
    BY <2>1, <2>2, DownTheRow
<1>5. CASE RecoverReasoning
  <2>1. /\ Rewrite([original EXCEPT !.opaque = FALSE, !.clamped = decider.budgeted])
        /\ ~decider.recovered /\ body.opaque
        /\ decider' = [decider EXCEPT !.recovered = TRUE, !.rejected = TRUE]
    BY <1>5 DEF RecoverReasoning, DropsReasoning
  <2>2. decider'.recovered
    BY <1>0, <2>1 DEF Decider
  <2>3. body'.opaque = FALSE
    BY <2>1, BodiesTyped DEF Rewrite, Body
  <2>4. tried' = tried \cup {body'}
    BY <2>1 DEF Rewrite
  <2>5. \A b \in tried : b.opaque # body'.opaque
    BY <2>1, <2>3 DEF Rows
  <2> QED
    BY <2>2, <2>3, <2>4, <2>5 DEF Rows, Before
<1> QED
  BY <1>1, <1>2, <1>3, <1>4, <1>5 DEF Rewrites

\* A limit, once clamped, stays, because the decider remembers it.
LEMMA LimitsKept ==
  ASSUME TypeOK, Limits, [Next]_vars
  PROVE  Limits' /\ (body.clamped => body'.clamped)
<1>0. body \in Body /\ original \in Body /\ decider \in Decider
  BY BodiesTyped DEF TypeOK
<1>1. CASE ~Rewrites
  <2>1. body' = body /\ decider'.budgeted = decider.budgeted
    BY <1>1, OtherStepsKeepBodies
  <2> QED
    BY <2>1 DEF Limits
<1>2. CASE StrictSchemaRetry
  <2>1. /\ body' \in {[body EXCEPT !.include = FALSE], [body EXCEPT !.undeclared = FALSE]}
        /\ decider' = decider
    BY <1>2 DEF StrictSchemaRetry, Rewrite
  <2>2. body'.clamped = body.clamped
    BY <1>0, <2>1 DEF Body
  <2> QED
    BY <2>1, <2>2 DEF Limits
<1>3. CASE StripVision
  <2>1. /\ body' = [body EXCEPT !.images = FALSE]
        /\ decider' = [decider EXCEPT !.stripped = TRUE, !.rejected = FALSE]
    BY <1>3 DEF StripVision, Rewrite
  <2>2. body'.clamped = body.clamped /\ decider'.budgeted = decider.budgeted
    BY <1>0, <2>1 DEF Body, Decider
  <2> QED
    BY <2>2 DEF Limits
<1>4. CASE ClampBudget
  <2>1. /\ body' = [body EXCEPT !.clamped = TRUE]
        /\ decider' = [decider EXCEPT !.budgeted = TRUE, !.rejected = FALSE]
    BY <1>4 DEF ClampBudget, Rewrite
  <2>2. body'.clamped /\ decider'.budgeted
    BY <1>0, <2>1 DEF Body, Decider
  <2> QED
    BY <2>2 DEF Limits
<1>5. CASE RecoverReasoning
  <2>1. /\ body' = [original EXCEPT !.opaque = FALSE, !.clamped = decider.budgeted]
        /\ decider' = [decider EXCEPT !.recovered = TRUE, !.rejected = TRUE]
    BY <1>5 DEF RecoverReasoning, Rewrite
  <2>2. body'.clamped = decider.budgeted /\ decider'.budgeted = decider.budgeted
    BY <1>0, <2>1 DEF Body, Decider
  <2> QED
    BY <2>2 DEF Limits
<1> QED
  BY <1>1, <1>2, <1>3, <1>4, <1>5 DEF Rewrites

-----------------------------------------------------------------------------
(* The theorems.                                                           *)

\* What the first attempt finds.
LEMMA InitialFacts ==
  ASSUME Init
  PROVE  TypeOK /\ Waits /\ Answers /\ Limits /\ Rows
<1>1. /\ pc = "inFlight" /\ route \in Route /\ original \in Bodies /\ body = original
      /\ reply = Nobody /\ tried = {body} /\ waited = 0
      /\ decider = [stripped |-> FALSE, budgeted |-> FALSE, recovered |-> FALSE,
                    rejected |-> FALSE]
      /\ absorb = [started |-> FALSE, elapsed |-> 0, backoff |-> MinBackoff, again |-> FALSE,
                   pause |-> 0]
      /\ enabled = TRUE /\ cancelled = FALSE /\ client = TRUE
      /\ outcome = [kind |-> "none", retry |-> FALSE]
  BY DEF Init
<1>2. route.budget \in Nat /\ body \in Body /\ ~body.clamped
  BY <1>1, RecoveryAssumption
<1>3. 0 \in 0..route.budget /\ MinBackoff \in Nat \ {0}
  BY <1>2, RecoveryAssumption
<1>4. absorb \in AbsorbState /\ decider \in Decider /\ outcome \in Outcome
  BY <1>1, <1>3 DEF AbsorbState, Decider, Outcome
<1>5. TypeOK
  BY <1>1, <1>2, <1>4 DEF TypeOK
<1>6. Waits /\ Answers
  BY <1>1, <1>2 DEF Waits, Answers, AnsweredUnlessCancelled, Nobody
<1>7. Limits /\ Rows
  BY <1>1, <1>2 DEF Limits, Rows, Before
<1> QED
  BY <1>5, <1>6, <1>7

(***************************************************************************)
(* The request, its decider and its window keep their types; in particular *)
(* no wait and no attempt takes the window past its budget.                *)
(***************************************************************************)
THEOREM TypeCorrect == Spec => []TypeOK
<1>1. Init => TypeOK /\ Waits
  BY InitialFacts
<1>2. (TypeOK /\ Waits) /\ [Next]_vars => (TypeOK /\ Waits)'
  BY TypesKept
<1> QED
  BY <1>1, <1>2, PTL DEF Spec

(***************************************************************************)
(* For every window, mix of failures and Retry-After hint, the waits of a  *)
(* request fit the window: absorbState.wait never oversleeps it.           *)
(***************************************************************************)
THEOREM WaitsFitTheWindow == Spec => []WindowKept
<1>1. Init => TypeOK /\ Waits
  BY InitialFacts
<1>2. (TypeOK /\ Waits) /\ [Next]_vars => (TypeOK /\ Waits)'
  BY TypesKept
<1>3. TypeOK /\ Waits => WindowKept
  BY RecoveryAssumption DEF TypeOK, Waits, WindowKept, AbsorbState
<1> QED
  BY <1>1, <1>2, <1>3, PTL DEF Spec

(***************************************************************************)
(* forwardFacade returns without an answer only for a request whose        *)
(* upstream context was cancelled.                                         *)
(***************************************************************************)
THEOREM SilenceNeedsCancellation == Spec => []AnsweredUnlessCancelled
<1>1. Init => TypeOK /\ Waits /\ Answers
  BY InitialFacts
<1>2. (TypeOK /\ Waits /\ Answers) /\ [Next]_vars => (TypeOK /\ Waits /\ Answers)'
  BY TypesKept, AnswersKept
<1>3. Answers => AnsweredUnlessCancelled
  BY DEF Answers
<1> QED
  BY <1>1, <1>2, <1>3, PTL DEF Spec

(***************************************************************************)
(* No upstream can make the rewrites of forwardFacade send a body twice.   *)
(***************************************************************************)
THEOREM RewritesNeverRepeat == Spec => RewritesAreFresh
<1>1. Init => TypeOK /\ Waits /\ Rows
  BY InitialFacts
<1>2. (TypeOK /\ Waits /\ Rows) /\ [Next]_vars => (TypeOK /\ Waits /\ Rows)'
  BY TypesKept, RowsKept
<1>3. (TypeOK /\ Rows) /\ [Next]_vars
      => [pc = "decide" /\ pc' = "inFlight" => body' \notin tried]_vars
  BY RowsKept
<1> QED
  BY <1>1, <1>2, <1>3, PTL DEF Spec, RewritesAreFresh

(***************************************************************************)
(* Once a completion limit is clamped, every later body of the request     *)
(* carries the clamped limit.                                              *)
(***************************************************************************)
THEOREM ClampedLimitKept == Spec => LimitKept
<1>1. Init => TypeOK /\ Waits /\ Limits
  BY InitialFacts
<1>2. (TypeOK /\ Waits /\ Limits) /\ [Next]_vars => (TypeOK /\ Waits /\ Limits)'
  BY TypesKept, LimitsKept
<1>3. (TypeOK /\ Limits) /\ [Next]_vars => [body.clamped => body'.clamped]_vars
  BY LimitsKept
<1> QED
  BY <1>1, <1>2, <1>3, PTL DEF Spec, LimitKept

-----------------------------------------------------------------------------
(* Conversation.                                                           *)

Entry == [domains : SUBSET Domains, seen : Nat]

\* What pruneLocked keeps of an index, in memory and in the file.
Sized(index) ==
  /\ DOMAIN index \subseteq Items
  /\ Cardinality(DOMAIN index) <= Limit
  /\ index \in [DOMAIN index -> Entry]

\* An index names the items of requests that were made, each with the one
\* domain its request went to.
Truthful(index) ==
  \A i \in DOMAIN index : stage[i] # "new" /\ index[i].domains = {asked[i].channel}

\* A request that was made has a channel.
SentAsked == \A r \in Requests : stage[r] # "new" => asked[r] \in Asked

\* What a flush promised is in the file, and in memory while the process runs.
PromiseKept ==
  /\ promised \subseteq DOMAIN file
  /\ up => promised \subseteq DOMAIN entries

\* Grok Build has items of requests that were made.
HistorySent == \A i \in history : stage[i] # "new"

\* What a projection removed is of another channel's request.
DroppedSent ==
  /\ \A r \in Requests : stage[r] = "new" => dropped[r] = {}
  /\ \A r \in Requests : \A i \in dropped[r] : stage[i] # "new"

IInv ==
  /\ ConversationTypeOK /\ Sized(file)
  /\ Truthful(entries) /\ Truthful(file)
  /\ SentAsked /\ HistorySent /\ DroppedSent
  /\ PromiseKept /\ CleanMeansSaved /\ OwnNeverDropped

-----------------------------------------------------------------------------
(* The index.                                                              *)

\* The empty index is well formed (newReasoningProvenanceStore).
LEMMA EmptyIndex ==
  /\ DOMAIN Empty = {} /\ Sized(Empty)
<1>1. DOMAIN Empty = {}
  BY DEF Empty
<1>2. Empty \in [DOMAIN Empty -> Entry]
  BY <1>1 DEF Empty
<1> QED
  BY <1>1, <1>2, FS_EmptySet, IndexAssumption DEF Sized

\* Emitted adds one record and leaves the others alone (captureCanonical).
LEMMA EmittedIndex ==
  ASSUME Sized(entries), clock \in Nat, NEW i \in Items, NEW domain \in Domains
  PROVE  /\ DOMAIN Emitted(i, domain) = DOMAIN entries \cup {i}
         /\ Emitted(i, domain) \in [DOMAIN Emitted(i, domain) -> Entry]
         /\ \A j \in DOMAIN Emitted(i, domain) :
              Emitted(i, domain)[j].domains =
                IF j # i THEN entries[j].domains
                ELSE {domain} \cup IF i \in DOMAIN entries THEN entries[i].domains ELSE {}
<1>1. \A j \in DOMAIN entries : entries[j] \in Entry
  BY DEF Sized
<1> DEFINE new == [domains |-> {domain} \cup IF Known(i) THEN entries[i].domains ELSE {},
                   seen |-> clock]
<1>2. new \in Entry
  BY <1>1 DEF Entry, Known
<1>3. Emitted(i, domain) = [j \in DOMAIN entries \cup {i} |-> IF j # i THEN entries[j] ELSE new]
  BY DEF Emitted
<1>4. new.domains = {domain} \cup IF i \in DOMAIN entries THEN entries[i].domains ELSE {}
  BY DEF Known
<1> HIDE DEF new
<1> QED
  BY <1>1, <1>2, <1>3, <1>4

\* What pruning leaves of an index at most one above the limit is within it and
\* holds nothing else (pruneLocked).
LEMMA PrunedIndex ==
  ASSUME NEW index, DOMAIN index \subseteq Items, index \in [DOMAIN index -> Entry],
         Cardinality(DOMAIN index) <= Limit + 1, NEW left \in Pruned(index)
  PROVE  /\ Sized(left) /\ DOMAIN left \subseteq DOMAIN index
         /\ \A j \in DOMAIN left : left[j] = index[j]
<1>0. IsFiniteSet(DOMAIN index) /\ Cardinality(DOMAIN index) \in Nat
  BY IndexAssumption, FS_Subset, FS_CardinalityType
<1>1. CASE Cardinality(DOMAIN index) <= Limit
  BY <1>1 DEF Pruned, Sized
<1>2. CASE ~(Cardinality(DOMAIN index) <= Limit)
  <2>1. PICK o \in DOMAIN index : left = Without(index, o)
    BY <1>2 DEF Pruned
  <2>2. /\ DOMAIN left = DOMAIN index \ {o}
        /\ \A j \in DOMAIN left : left[j] = index[j]
        /\ left \in [DOMAIN left -> Entry]
    BY <2>1 DEF Without
  <2>3. Cardinality(DOMAIN left) = Cardinality(DOMAIN index) - 1
    BY <1>0, <2>2, FS_RemoveElement
  <2>4. Cardinality(DOMAIN left) <= Limit
    BY <1>0, <2>3, IndexAssumption
  <2> QED
    BY <2>2, <2>4 DEF Sized
<1> QED
  BY <1>1, <1>2

\* A capture leaves a well-formed index, whose records but the item's are the
\* old ones.
LEMMA CapturedIndex ==
  ASSUME Sized(entries), clock \in Nat, NEW i \in Items, NEW domain \in Domains,
         Captured(i, domain)
  PROVE  /\ Sized(entries') /\ DOMAIN entries' \subseteq DOMAIN entries \cup {i}
         /\ \A j \in DOMAIN entries' :
              entries'[j].domains =
                IF j # i THEN entries[j].domains
                ELSE {domain} \cup IF i \in DOMAIN entries THEN entries[i].domains ELSE {}
<1> DEFINE index == Emitted(i, domain)
<1>1. /\ DOMAIN index = DOMAIN entries \cup {i}
      /\ index \in [DOMAIN index -> Entry]
      /\ \A j \in DOMAIN index :
           index[j].domains =
             IF j # i THEN entries[j].domains
             ELSE {domain} \cup IF i \in DOMAIN entries THEN entries[i].domains ELSE {}
  BY EmittedIndex
<1>2. entries' \in Pruned(index)
  BY DEF Captured
<1>3. IsFiniteSet(DOMAIN entries) /\ Cardinality(DOMAIN entries) \in Nat
  BY IndexAssumption, FS_Subset, FS_CardinalityType DEF Sized
<1>4. Cardinality(DOMAIN index) <= Limit + 1
  <2>1. Cardinality(DOMAIN entries \cup {i}) =
          IF i \in DOMAIN entries THEN Cardinality(DOMAIN entries) ELSE Cardinality(DOMAIN entries) + 1
    BY <1>3, FS_AddElement, Zenon
  <2> QED
    BY <1>1, <1>3, <2>1, IndexAssumption DEF Sized
<1>5. DOMAIN index \subseteq Items
  BY <1>1 DEF Sized
<1> HIDE DEF index
<1>6. /\ Sized(entries') /\ DOMAIN entries' \subseteq DOMAIN index
      /\ \A j \in DOMAIN entries' : entries'[j] = index[j]
  BY <1>1, <1>2, <1>4, <1>5, PrunedIndex
<1> QED
  BY <1>1, <1>6

\* A flush that reports success leaves the memory in the file, and one that
\* fails or has nothing to do leaves both alone.
LEMMA FlushIndex ==
  ASSUME NEW ok \in BOOLEAN, dirty \in BOOLEAN, ~dirty => file = entries, Flush(ok)
  PROVE  /\ UNCHANGED <<entries, clock>> /\ dirty' \in BOOLEAN
         /\ file' = file \/ file' = entries
         /\ ~dirty' => file' = entries'
         /\ ~(dirty /\ ~ok) => file' = entries
  BY DEF Flush

-----------------------------------------------------------------------------
(* The steps.                                                              *)

\* What is said of an index holds on while requests that were made stay made
\* and keep their channels.
Steady == \A r \in Requests : stage[r] # "new" => stage'[r] # "new" /\ asked'[r].channel = asked[r].channel

\* The index was created empty, and no request was made.
LEMMA InitIInv == ConversationInit => IInv
<1> SUFFICES ASSUME ConversationInit PROVE IInv
  OBVIOUS
<1> USE ConversationAssumption, IndexAssumption
<1>1. Sized(entries) /\ Sized(file) /\ DOMAIN entries = {} /\ DOMAIN file = {}
  BY EmptyIndex DEF ConversationInit, IndexInit
<1>2. ConversationTypeOK
  BY <1>1 DEF ConversationInit, IndexInit, ConversationTypeOK, Sized, Entry
<1>3. Truthful(entries) /\ Truthful(file) /\ PromiseKept
  BY <1>1 DEF ConversationInit, Truthful, PromiseKept
<1>4. SentAsked /\ HistorySent /\ DroppedSent /\ OwnNeverDropped
  BY DEF ConversationInit, SentAsked, HistorySent, DroppedSent, OwnNeverDropped
<1>5. CleanMeansSaved
  BY DEF ConversationInit, IndexInit, CleanMeansSaved
<1> QED
  BY <1>1, <1>2, <1>3, <1>4, <1>5 DEF IInv

\* The invariant after a step that leaves the index alone.
LEMMA IndexLeft ==
  ASSUME IInv, Steady, ConversationTypeOK', UNCHANGED <<entries, dirty, file, up, promised>>
  PROVE  Sized(file)' /\ Truthful(entries)' /\ Truthful(file)' /\ PromiseKept' /\ CleanMeansSaved'
<1> USE ConversationAssumption
<1>1. Sized(file)'
  BY DEF IInv, Sized
<1>2. DOMAIN entries \subseteq Requests /\ DOMAIN file \subseteq Requests
  BY DEF IInv, ConversationTypeOK, Sized
<1>3. Truthful(entries)' /\ Truthful(file)'
  BY <1>2 DEF IInv, Truthful, Steady
<1>4. PromiseKept' /\ CleanMeansSaved'
  BY DEF IInv, PromiseKept, CleanMeansSaved
<1> QED
  BY <1>1, <1>3, <1>4

\* The invariant after a step that leaves the requests alone, or takes from
\* what they dropped.
LEMMA RequestsLeft ==
  ASSUME IInv, UNCHANGED <<asked, history>>,
         \A r \in Requests : (stage'[r] = "new") = (stage[r] = "new"),
         \A r \in Requests : dropped'[r] \subseteq dropped[r]
  PROVE  Steady /\ SentAsked' /\ HistorySent' /\ DroppedSent' /\ OwnNeverDropped'
<1> USE ConversationAssumption
<1>1. Steady /\ SentAsked'
  BY DEF IInv, Steady, SentAsked
<1>2. HistorySent'
  BY DEF IInv, ConversationTypeOK, HistorySent
<1>3. DroppedSent'
  <2>1. \A r \in Requests : dropped[r] \subseteq Requests
    BY DEF IInv, ConversationTypeOK
  <2> QED
    BY <2>1 DEF IInv, DroppedSent
<1>4. OwnNeverDropped'
  BY DEF IInv, OwnNeverDropped
<1> QED
  BY <1>1, <1>2, <1>3, <1>4

\* Arrive: nothing an index or another request says is about the request that
\* is made, and what its projection removes is known to be another channel's.
LEMMA ArriveIInv ==
  ASSUME IInv, NEW r \in Requests, Arrive(r)
  PROVE  IInv'
<1> USE ConversationAssumption
<1>1. PICK a \in [channel : Channels, bytes : workload.sizes, guarded : {r \in workload.checked}] :
        /\ asked' = [asked EXCEPT ![r] = a]
        /\ kept' = [kept EXCEPT ![r] = Filtered(history, a.channel)]
        /\ dropped' = [dropped EXCEPT ![r] = history \ Filtered(history, a.channel)]
  BY DEF Arrive
<1>2. a \in Asked
  <2>1. workload.sizes \subseteq Nat
    BY DEF IInv, ConversationTypeOK, Workload
  <2> QED
    BY <2>1 DEF Asked
<1>3. /\ stage[r] = "new" /\ stage' = [stage EXCEPT ![r] = "sent"]
      /\ UNCHANGED <<entries, dirty, file, clock, up, lives, workload, captured, history, promised>>
  BY DEF Arrive, indexVars, process
<1>4. ConversationTypeOK'
  <2>1. Filtered(history, a.channel) \subseteq history /\ history \subseteq Items
    BY DEF IInv, ConversationTypeOK, Filtered
  <2>2. stage' \in [Requests -> {"new", "sent", "answered", "ended"}] /\ asked' \in [Requests -> Asked \cup {Unasked}]
    BY <1>1, <1>2, <1>3 DEF IInv, ConversationTypeOK
  <2>3. kept' \in [Requests -> SUBSET Items] /\ dropped' \in [Requests -> SUBSET Items]
    BY <1>1, <2>1 DEF IInv, ConversationTypeOK
  <2> QED
    BY <1>3, <2>2, <2>3 DEF IInv, ConversationTypeOK
<1>5. Steady
  BY <1>1, <1>3 DEF Steady, IInv, ConversationTypeOK
<1>6. SentAsked' /\ HistorySent'
  BY <1>1, <1>2, <1>3 DEF IInv, ConversationTypeOK, SentAsked, HistorySent
<1>7. \A i \in dropped'[r] : stage[i] # "new" /\ i # r /\ asked[i].channel # a.channel
  <2>1. dropped'[r] = history \ Filtered(history, a.channel)
    BY <1>1 DEF IInv, ConversationTypeOK
  <2>2. SUFFICES ASSUME NEW i \in history, Known(i), ~Compatible(i, a.channel)
                 PROVE  stage[i] # "new" /\ i # r /\ asked[i].channel # a.channel
    BY <2>1 DEF Filtered
  <2>3. stage[i] # "new"
    BY DEF IInv, HistorySent
  <2>4. entries[i].domains = {asked[i].channel}
    BY <2>2 DEF IInv, Truthful, Known
  <2>5. a.channel \notin entries[i].domains
    BY <2>2 DEF Compatible
  <2> QED
    BY <1>3, <2>3, <2>4, <2>5
<1>8. \A q \in Requests \ {r} : dropped'[q] = dropped[q]
  BY <1>1 DEF IInv, ConversationTypeOK
<1>9. DroppedSent'
  BY <1>3, <1>7, <1>8 DEF IInv, ConversationTypeOK, DroppedSent
<1>10. OwnNeverDropped'
  <2> SUFFICES ASSUME NEW q \in Requests, NEW i \in dropped'[q]
               PROVE  asked'[i].channel # asked'[q].channel
    BY DEF OwnNeverDropped
  <2>1. CASE q = r
    <3>1. i \in Requests
      BY <1>4 DEF ConversationTypeOK
    <3> QED
      BY <1>1, <1>7, <2>1, <3>1 DEF IInv, ConversationTypeOK
  <2>2. CASE q # r
    <3>1. i \in dropped[q] /\ stage[q] # "new" /\ stage[i] # "new" /\ i \in Requests
      BY <1>8, <2>2 DEF IInv, ConversationTypeOK, DroppedSent
    <3>2. asked'[q] = asked[q] /\ asked'[i] = asked[i]
      BY <1>1, <1>3, <2>2, <3>1 DEF IInv, ConversationTypeOK
    <3> QED
      BY <3>1, <3>2 DEF IInv, OwnNeverDropped
  <2> QED
    BY <2>1, <2>2
<1> QED
  BY <1>3, <1>4, <1>5, <1>6, <1>9, <1>10, IndexLeft DEF IInv

\* Recover: the request keeps its channel.
LEMMA RecoverIInv ==
  ASSUME IInv, NEW r \in Requests, Recover(r)
  PROVE  IInv'
<1> USE ConversationAssumption
<1>1. stage[r] # "new" /\ asked[r] \in Asked
  BY DEF Recover, IInv, SentAsked
<1>2. asked' = [asked EXCEPT ![r].guarded = FALSE]
  BY DEF Recover
<1>3. asked'[r] = [channel |-> asked[r].channel, bytes |-> asked[r].bytes, guarded |-> FALSE]
  BY <1>1, <1>2 DEF IInv, ConversationTypeOK, Asked
<1>4. asked'[r] \in Asked /\ asked'[r].channel = asked[r].channel
  BY <1>1, <1>3 DEF Asked
<1>5. asked' \in [Requests -> Asked \cup {Unasked}]
      /\ \A q \in Requests \ {r} : asked'[q] = asked[q]
  <2>1. asked' = [q \in Requests |-> IF q = r THEN asked'[r] ELSE asked[q]]
    BY <1>2 DEF IInv, ConversationTypeOK
  <2> QED
    BY <1>4, <2>1 DEF IInv, ConversationTypeOK
<1>6. /\ UNCHANGED <<entries, dirty, file, clock, up, lives, workload, stage, dropped, captured, history, promised>>
      /\ kept' = [kept EXCEPT ![r] = {}]
  BY DEF Recover, indexVars, process
<1>7. \A q \in Requests : asked'[q].channel = asked[q].channel
  BY <1>4, <1>5
<1>8. ConversationTypeOK'
  <2>1. kept' \in [Requests -> SUBSET Items]
    BY <1>6 DEF IInv, ConversationTypeOK
  <2> QED
    BY <1>5, <1>6, <2>1 DEF IInv, ConversationTypeOK
<1>9. Steady
  BY <1>6, <1>7 DEF Steady
<1>10. SentAsked' /\ HistorySent' /\ DroppedSent'
  BY <1>4, <1>5, <1>6 DEF IInv, SentAsked, HistorySent, DroppedSent
<1>11. OwnNeverDropped'
  <2>1. \A q \in Requests : dropped[q] \subseteq Requests
    BY DEF IInv, ConversationTypeOK
  <2> QED
    BY <1>6, <1>7, <2>1 DEF IInv, OwnNeverDropped
<1> QED
  BY <1>6, <1>8, <1>9, <1>10, <1>11, IndexLeft DEF IInv

\* Report, Deliver, Prune and Second touch neither index nor channels.
LEMMA ReportIInv ==
  ASSUME IInv, NEW r \in Requests, Report(r)
  PROVE  IInv'
<1>1. /\ UNCHANGED <<entries, dirty, file, clock, up, lives, asked, kept, dropped, captured, history, promised>>
      /\ stage[r] # "new" /\ stage' = [stage EXCEPT ![r] = "answered"]
  BY DEF Report, Answering, indexVars
<1>2. workload' \in Workload
  <2>1. /\ workload' = [workload EXCEPT !.reports = @ - 1]
        /\ workload.reports > 0 /\ workload \in Workload
    BY DEF Report, IInv, ConversationTypeOK
  <2>2. workload' = [opaque |-> workload.opaque, checked |-> workload.checked,
                       sizes |-> workload.sizes,
                     reports |-> workload.reports - 1]
    BY <2>1 DEF Workload
  <2> QED
    BY <2>1, <2>2 DEF Workload
<1>3. ConversationTypeOK'
  BY <1>1, <1>2 DEF IInv, ConversationTypeOK
<1>4. Steady /\ SentAsked' /\ HistorySent' /\ DroppedSent' /\ OwnNeverDropped'
  <2>1. \A q \in Requests : (stage'[q] = "new") = (stage[q] = "new")
    BY <1>1 DEF IInv, ConversationTypeOK
  <2> QED
    BY <1>1, <2>1, RequestsLeft
<1> QED
  BY <1>1, <1>3, <1>4, IndexLeft DEF IInv

\* Deliver: the item is that of a request that was made.
LEMMA DeliverIInv ==
  ASSUME IInv, NEW r \in Requests, Deliver(r)
  PROVE  IInv'
<1>1. /\ UNCHANGED <<entries, dirty, file, clock, up, lives, workload, asked, kept, dropped, captured, promised>>
      /\ history' = history \cup {r} /\ stage[r] # "new" /\ stage' = [stage EXCEPT ![r] = "answered"]
  BY DEF Deliver, Answering, indexVars, process
<1>2. ConversationTypeOK'
  BY <1>1, ConversationAssumption DEF IInv, ConversationTypeOK
<1>3. Steady /\ SentAsked' /\ HistorySent' /\ DroppedSent' /\ OwnNeverDropped'
  <2>1. \A q \in Requests : (stage'[q] = "new") = (stage[q] = "new")
    BY <1>1 DEF IInv, ConversationTypeOK
  <2>2. DOMAIN stage = Requests /\ \A q \in Requests : dropped[q] \subseteq Requests
    BY ConversationAssumption DEF IInv, ConversationTypeOK
  <2>3. history' \subseteq Requests
    BY <1>2, ConversationAssumption DEF ConversationTypeOK
  <2> QED
    BY <1>1, <2>1, <2>2, <2>3 DEF IInv, Steady, SentAsked, HistorySent, DroppedSent, OwnNeverDropped
<1> QED
  BY <1>1, <1>2, <1>3, IndexLeft DEF IInv

\* Second: the clock is no part of what an index says.
LEMMA SecondIInv ==
  ASSUME IInv, Second
  PROVE  IInv'
<1>1. /\ UNCHANGED <<entries, dirty, file, up, lives, workload, stage, asked, kept, dropped, captured, history, promised>>
      /\ clock' = clock + 1
  BY DEF Second, Tick, process, requestVars
<1>2. ConversationTypeOK'
  BY <1>1 DEF IInv, ConversationTypeOK
<1>3. Steady /\ SentAsked' /\ HistorySent' /\ DroppedSent' /\ OwnNeverDropped'
  BY <1>1, RequestsLeft
<1> QED
  BY <1>1, <1>2, <1>3, IndexLeft DEF IInv

\* Prune, and a step that changes nothing.
LEMMA QuietIInv ==
  ASSUME IInv, UNCHANGED <<indexVars, process, requestVars, history, promised>>
  PROVE  IInv'
<1>1. UNCHANGED <<entries, dirty, file, clock, up, lives, workload, stage, asked, kept, dropped, captured, history, promised>>
  BY DEF indexVars, process, requestVars
<1>2. ConversationTypeOK'
  BY <1>1 DEF IInv, ConversationTypeOK
<1>3. Steady /\ SentAsked' /\ HistorySent' /\ DroppedSent' /\ OwnNeverDropped'
  BY <1>1, RequestsLeft
<1> QED
  BY <1>1, <1>2, <1>3, IndexLeft DEF IInv

\* Capture: the record says the channel of the request that was made, and a
\* promise is given up only for what is evicted.
LEMMA CaptureIInv ==
  ASSUME IInv, NEW r \in Requests, Capture(r)
  PROVE  IInv'
<1>0. Items = Requests /\ Domains = Channels
  BY ConversationAssumption
<1> USE <1>0
<1>1. /\ up /\ stage[r] # "new" /\ stage' = [stage EXCEPT ![r] = "answered"]
      /\ Captured(r, asked[r].channel)
      /\ captured' = [captured EXCEPT ![r] = TRUE]
      /\ promised' = promised \cap DOMAIN entries'
      /\ UNCHANGED <<up, lives, workload, asked, kept, dropped, history, file, clock>>
      /\ dirty' = (dirty \/ Emitted(r, asked[r].channel) # entries)
  BY DEF Capture, Answering, Captured, process
<1>12. \A q \in Requests : (stage'[q] = "new") = (stage[q] = "new")
  BY <1>1 DEF IInv, ConversationTypeOK
<1>2. asked[r].channel \in Domains
  BY <1>1 DEF IInv, SentAsked, Asked
<1>3. Sized(entries) /\ clock \in Nat
  BY DEF IInv, ConversationTypeOK, Sized, Entry
<1>4. /\ Sized(entries') /\ DOMAIN entries' \subseteq DOMAIN entries \cup {r}
      /\ \A j \in DOMAIN entries' :
           entries'[j].domains =
             IF j # r THEN entries[j].domains
             ELSE {asked[r].channel} \cup IF r \in DOMAIN entries THEN entries[r].domains ELSE {}
  BY <1>1, <1>2, <1>3, CapturedIndex
<1>5. Sized(entries)' /\ Sized(file)'
  BY <1>1, <1>4 DEF IInv, Sized
<1>6. ConversationTypeOK'
  <2>1. captured' \in [Requests -> BOOLEAN] /\ dirty' \in BOOLEAN /\ promised' \subseteq Items
    BY <1>1 DEF IInv, ConversationTypeOK
  <2> QED
    BY <1>1, <1>5, <2>1 DEF IInv, ConversationTypeOK, Sized, Entry
<1>7. Truthful(entries)'
  <2> SUFFICES ASSUME NEW j \in DOMAIN entries'
               PROVE  stage[j] # "new" /\ entries'[j].domains = {asked[j].channel}
    BY <1>1, <1>5, <1>12 DEF Truthful, Sized
  <2>1. CASE j = r
    BY <1>1, <1>4, <2>1 DEF IInv, Truthful
  <2>2. CASE j # r
    BY <1>4, <2>2 DEF IInv, Truthful
  <2> QED
    BY <2>1, <2>2
<1>8. Truthful(file)'
  BY <1>1, <1>5, <1>12 DEF IInv, Truthful, Sized
<1>9. CleanMeansSaved'
  <2> SUFFICES ASSUME ~dirty' PROVE file = entries'
    BY <1>1 DEF CleanMeansSaved
  <2>1. Emitted(r, asked[r].channel) = entries /\ ~dirty
    BY <1>1
  <2>2. entries' \in Pruned(entries)
    BY <1>1, <2>1 DEF Captured
  <2>3. entries' = entries
    BY <1>3, <2>2 DEF Pruned, Sized
  <2> QED
    BY <1>1, <2>1, <2>3 DEF IInv, CleanMeansSaved
<1>10. PromiseKept'
  BY <1>1 DEF IInv, PromiseKept
<1>11. SentAsked' /\ HistorySent' /\ DroppedSent' /\ OwnNeverDropped'
  BY <1>1, <1>12, RequestsLeft
<1> QED
  BY <1>5, <1>6, <1>7, <1>8, <1>9, <1>10, <1>11 DEF IInv

\* A flush and what it promises: the file holds what it held or all of the
\* memory.
LEMMA FlushPromise ==
  ASSUME IInv, up, up', NEW ok \in BOOLEAN, Flush(ok), Promise(ok), Steady
  PROVE  /\ Sized(file)' /\ Sized(entries)' /\ promised' \subseteq Items
         /\ Truthful(entries)' /\ Truthful(file)' /\ PromiseKept' /\ CleanMeansSaved'
<1> USE ConversationAssumption
<1>1. Sized(entries) /\ Sized(file) /\ dirty \in BOOLEAN /\ (~dirty => file = entries)
  BY DEF IInv, ConversationTypeOK, Sized, Entry, CleanMeansSaved
<1>2. /\ UNCHANGED entries /\ (file' = file \/ file' = entries)
      /\ ~dirty' => file' = entries'
      /\ ~(dirty /\ ~ok) => file' = entries
  BY <1>1, FlushIndex
<1>3. Sized(entries)' /\ Sized(file)'
  BY <1>1, <1>2 DEF Sized
<1>4. Truthful(entries)' /\ Truthful(file)'
  <2>1. DOMAIN entries \subseteq Requests /\ DOMAIN file \subseteq Requests
    BY <1>1 DEF Sized
  <2> QED
    BY <1>2, <2>1 DEF IInv, Truthful, Steady
<1>5. promised' \subseteq Items /\ PromiseKept'
  <2>1. CASE dirty /\ ~ok
    <3>1. file' = file
      BY <2>1 DEF Flush
    <3> QED
      BY <1>2, <2>1, <3>1 DEF IInv, ConversationTypeOK, PromiseKept, Promise
  <2>2. CASE ~(dirty /\ ~ok)
    <3>1. file' = entries /\ promised' = promised \cup DOMAIN entries
      BY <1>2, <2>2 DEF Promise
    <3> QED
      BY <1>1, <1>2, <3>1 DEF IInv, PromiseKept, Sized
  <2> QED
    BY <2>1, <2>2
<1>6. CleanMeansSaved'
  BY <1>2 DEF CleanMeansSaved
<1> QED
  BY <1>3, <1>4, <1>5, <1>6

\* End: the handler's deferred flush, whatever it comes to.
LEMMA EndIInv ==
  ASSUME IInv, NEW r \in Requests, End(r)
  PROVE  IInv'
<1>1. PICK ok \in BOOLEAN : Flush(ok) /\ Promise(ok)
  BY DEF End
<1>2. /\ up /\ stage[r] # "new" /\ stage' = [stage EXCEPT ![r] = "ended"]
      /\ kept' = [kept EXCEPT ![r] = {}] /\ dropped' = [dropped EXCEPT ![r] = {}]
      /\ UNCHANGED <<up, lives, workload, asked, captured, history>>
  BY DEF End, process
<1>3. Steady /\ SentAsked' /\ HistorySent' /\ DroppedSent' /\ OwnNeverDropped'
  <2>1. \A q \in Requests : (stage'[q] = "new") = (stage[q] = "new")
    BY <1>2 DEF IInv, ConversationTypeOK
  <2>2. \A q \in Requests : dropped'[q] \subseteq dropped[q]
    BY <1>2 DEF IInv, ConversationTypeOK
  <2> QED
    BY <1>2, <2>1, <2>2, RequestsLeft
<1>4. /\ Sized(file)' /\ Sized(entries)' /\ promised' \subseteq Items
      /\ Truthful(entries)' /\ Truthful(file)' /\ PromiseKept' /\ CleanMeansSaved'
  BY <1>1, <1>2, <1>3, FlushPromise
<1>5. ConversationTypeOK'
  <2>1. stage' \in [Requests -> {"new", "sent", "answered", "ended"}]
        /\ kept' \in [Requests -> SUBSET Items] /\ dropped' \in [Requests -> SUBSET Items]
    BY <1>2 DEF IInv, ConversationTypeOK
  <2>2. dirty' \in BOOLEAN /\ clock' \in Nat
    BY <1>1 DEF Flush, IInv, ConversationTypeOK
  <2> QED
    BY <1>2, <1>4, <2>1, <2>2 DEF IInv, ConversationTypeOK, Sized, Entry
<1> QED
  BY <1>3, <1>4, <1>5 DEF IInv

\* StopFlush: the flush alone (Server.Stop).
LEMMA StopFlushIInv ==
  ASSUME IInv, StopFlush
  PROVE  IInv'
<1>1. PICK ok \in BOOLEAN : Flush(ok) /\ Promise(ok)
  BY DEF StopFlush
<1>2. up /\ UNCHANGED <<up, lives, workload, stage, asked, kept, dropped, captured, history>>
  BY DEF StopFlush, process, requestVars
<1>3. Steady /\ SentAsked' /\ HistorySent' /\ DroppedSent' /\ OwnNeverDropped'
  BY <1>2, RequestsLeft
<1>4. /\ Sized(file)' /\ Sized(entries)' /\ promised' \subseteq Items
      /\ Truthful(entries)' /\ Truthful(file)' /\ PromiseKept' /\ CleanMeansSaved'
  BY <1>1, <1>2, <1>3, FlushPromise
<1>5. ConversationTypeOK'
  <2>1. dirty' \in BOOLEAN /\ clock' \in Nat
    BY <1>1 DEF Flush, IInv, ConversationTypeOK
  <2> QED
    BY <1>2, <1>4, <2>1 DEF IInv, ConversationTypeOK, Sized, Entry
<1> QED
  BY <1>3, <1>4, <1>5 DEF IInv

\* Crash: what is left is the file.
LEMMA CrashIInv ==
  ASSUME IInv, Crash
  PROVE  IInv'
<1>1. /\ ~up' /\ entries' = Empty /\ dirty' = FALSE
      /\ stage' = [r \in Requests |-> IF stage[r] = "new" THEN "new" ELSE "ended"]
      /\ kept' = [r \in Requests |-> {}] /\ dropped' = [r \in Requests |-> {}]
      /\ UNCHANGED <<file, clock, lives, workload, asked, captured, history, promised>>
  BY DEF Crash, Killed, Lost
<1>2. Steady /\ SentAsked' /\ HistorySent' /\ DroppedSent' /\ OwnNeverDropped'
  <2>1. \A q \in Requests : (stage'[q] = "new") = (stage[q] = "new")
    BY <1>1
  <2>2. \A q \in Requests : dropped'[q] \subseteq dropped[q]
    BY <1>1
  <2> QED
    BY <1>1, <2>1, <2>2, RequestsLeft
<1>3. Sized(file)' /\ Sized(entries)' /\ DOMAIN entries' = {}
  BY <1>1, EmptyIndex DEF IInv, Sized
<1>4. Truthful(entries)' /\ PromiseKept' /\ CleanMeansSaved'
  BY <1>1, <1>3 DEF IInv, Truthful, PromiseKept, CleanMeansSaved
<1>5. Truthful(file)'
  BY <1>1, <1>2, ConversationAssumption DEF IInv, Truthful, Steady, Sized
<1>6. ConversationTypeOK'
  <2>1. stage' \in [Requests -> {"new", "sent", "answered", "ended"}]
        /\ kept' \in [Requests -> SUBSET Items] /\ dropped' \in [Requests -> SUBSET Items]
    BY <1>1 DEF IInv, ConversationTypeOK
  <2>2. up' \in BOOLEAN
    BY DEF Crash
  <2> QED
    BY <1>1, <1>3, <2>1, <2>2 DEF IInv, ConversationTypeOK, Sized, Entry
<1> QED
  BY <1>2, <1>3, <1>4, <1>5, <1>6 DEF IInv

\* Start: the memory is the file, or empty and waits to be saved.
LEMMA StartIInv ==
  ASSUME IInv, Start
  PROVE  IInv'
<1>1. PICK readable \in BOOLEAN :
        Load(readable) /\ promised' = IF readable THEN promised ELSE {}
  BY DEF Start
<1>2. /\ up' = TRUE /\ lives' = lives + 1
      /\ UNCHANGED <<file, clock, workload, stage, asked, kept, dropped, captured, history>>
      /\ dirty' = ~readable
  BY <1>1 DEF Start, Load, requestVars
<1>3. Steady /\ SentAsked' /\ HistorySent' /\ DroppedSent' /\ OwnNeverDropped'
  BY <1>2, RequestsLeft
<1>4. Sized(file)' /\ Truthful(file)'
  BY <1>2 DEF IInv, Sized, Truthful
<1>5. Sized(entries)' /\ Truthful(entries)' /\ promised' \subseteq Items /\ PromiseKept' /\ CleanMeansSaved'
  <2>1. CASE readable
    <3>1. entries' = file /\ promised' = promised
      BY <1>1, <2>1 DEF Load
    <3>2. Sized(entries)' /\ Truthful(entries)'
      BY <1>2, <3>1 DEF IInv, Sized, Truthful
    <3>3. promised' \subseteq Items /\ PromiseKept' /\ CleanMeansSaved'
      BY <1>2, <3>1 DEF IInv, ConversationTypeOK, PromiseKept, CleanMeansSaved
    <3> QED
      BY <3>2, <3>3
  <2>2. CASE ~readable
    <3>1. entries' = Empty /\ promised' = {} /\ dirty'
      BY <1>1, <1>2, <2>2 DEF Load
    <3>2. Sized(entries)' /\ DOMAIN entries' = {}
      BY <3>1, EmptyIndex DEF Sized
    <3> QED
      BY <3>1, <3>2 DEF Truthful, PromiseKept, CleanMeansSaved
  <2> QED
    BY <2>1, <2>2
<1>6. ConversationTypeOK'
  <2>1. up' \in BOOLEAN /\ dirty' \in BOOLEAN /\ lives' \in Nat
    BY <1>2 DEF IInv, ConversationTypeOK
  <2> QED
    BY <1>2, <1>5, <2>1 DEF IInv, ConversationTypeOK, Sized, Entry
<1> QED
  BY <1>3, <1>4, <1>5, <1>6 DEF IInv

\* Every step keeps the invariant.
LEMMA StepIInv == IInv /\ [ConversationNext]_conversationVars => IInv'
<1> SUFFICES ASSUME IInv, [ConversationNext]_conversationVars PROVE IInv'
  OBVIOUS
<1>1. ASSUME NEW r \in Requests, RequestStep(r)
      PROVE  IInv'
  <2>1. CASE Arrive(r)  BY <2>1, ArriveIInv
  <2>2. CASE Recover(r) BY <2>2, RecoverIInv
  <2>3. CASE Report(r)  BY <2>3, ReportIInv
  <2>4. CASE Capture(r) BY <2>4, CaptureIInv
  <2>5. CASE Deliver(r) BY <2>5, DeliverIInv
  <2>6. CASE End(r)     BY <2>6, EndIInv
  <2> QED
    BY <1>1, <2>1, <2>2, <2>3, <2>4, <2>5, <2>6 DEF RequestStep
<1>2. CASE StopFlush BY <1>2, StopFlushIInv
<1>3. CASE Crash     BY <1>3, CrashIInv
<1>4. CASE Start     BY <1>4, StartIInv
<1>5. CASE Second    BY <1>5, SecondIInv
<1>6. ASSUME NEW c \in Channels, Prune(c)
      PROVE  IInv'
  <2>1. UNCHANGED <<indexVars, process, requestVars, history, promised>>
    BY <1>6 DEF Prune
  <2> QED
    BY <2>1, QuietIInv
<1>7. CASE UNCHANGED conversationVars
  <2>1. UNCHANGED <<indexVars, process, requestVars, history, promised>>
    BY <1>7 DEF conversationVars, indexVars, process, requestVars
  <2> QED
    BY <2>1, QuietIInv
<1> QED
  BY <1>1, <1>2, <1>3, <1>4, <1>5, <1>6, <1>7 DEF ConversationNext

-----------------------------------------------------------------------------
(* What the conversation may rely on.                                      *)

\* The inductive invariant.
THEOREM Invariant == ConversationSpec => []IInv
  BY InitIInv, StepIInv, PTL DEF ConversationSpec

\* The index and the requests have their types, and the index stays within its
\* limit (maxReasoningProvenanceItems).
THEOREM Typed == ConversationSpec => []ConversationTypeOK
<1>1. IInv => ConversationTypeOK
  BY DEF IInv
<1> QED
  BY <1>1, Invariant, PTL

\* While the index says it is clean, the file holds all of it (flush,
\* captureCanonical, newReasoningProvenanceStore).
THEOREM CleanIsSaved == ConversationSpec => []CleanMeansSaved
<1>1. IInv => CleanMeansSaved
  BY DEF IInv
<1> QED
  BY <1>1, Invariant, PTL

\* No item is removed from a request to the channel it came from
\* (filterReasoningInput), whatever the interleaving, evictions and crashes.
THEOREM OwnStays == ConversationSpec => []OwnNeverDropped
<1>1. IInv => OwnNeverDropped
  BY DEF IInv
<1> QED
  BY <1>1, Invariant, PTL

\* A request that is made keeps nothing that a flush promised and another
\* channel emitted.
LEMMA StepFiltered ==
  ASSUME IInv, [ConversationNext]_conversationVars, NEW r \in Requests, stage[r] = "new", stage'[r] = "sent",
         NEW i \in kept'[r] \cap promised
  PROVE  asked'[i].channel = asked'[r].channel
<1> USE ConversationAssumption
<1>1. Arrive(r)
  <2>1. ASSUME NEW q \in Requests, RequestStep(q)
        PROVE  q = r \/ stage'[r] = stage[r]
    <3>1. \/ stage' = stage \/ stage' = [stage EXCEPT ![q] = "sent"]
          \/ stage' = [stage EXCEPT ![q] = "answered"] \/ stage' = [stage EXCEPT ![q] = "ended"]
      BY <2>1 DEF RequestStep, Arrive, Recover, Report, Capture, Deliver, End, Answering
    <3> QED
      BY <3>1 DEF IInv, ConversationTypeOK
  <2>2. StopFlush \/ Start \/ Second \/ (\E c \in Channels : Prune(c)) => stage' = stage
    BY DEF StopFlush, Start, Second, Prune, requestVars
  <2>3. Crash => stage'[r] # "sent"
    BY DEF Crash, Killed
  <2>4. UNCHANGED conversationVars => stage' = stage
    BY DEF conversationVars
  <2>5. RequestStep(r)
    BY <2>1, <2>2, <2>3, <2>4 DEF ConversationNext
  <2> QED
    BY <2>5 DEF RequestStep, Recover, Report, Capture, Deliver, End, Answering
<1>2. PICK a \in [channel : Channels, bytes : workload.sizes, guarded : {r \in workload.checked}] :
        /\ asked' = [asked EXCEPT ![r] = a]
        /\ kept' = [kept EXCEPT ![r] = Filtered(history, a.channel)]
  BY <1>1 DEF Arrive
<1>3. i \in Filtered(history, a.channel) /\ i \in promised /\ asked'[r] = a
  BY <1>2 DEF IInv, ConversationTypeOK
<1>4. i \in DOMAIN entries
  BY <1>1, <1>3 DEF Arrive, IInv, PromiseKept
<1>5. a.channel \in entries[i].domains
  BY <1>3, <1>4 DEF Filtered, Known, Compatible
<1>6. stage[i] # "new" /\ entries[i].domains = {asked[i].channel}
  BY <1>4 DEF IInv, Truthful
<1>7. asked'[i] = asked[i]
  BY <1>2, <1>6, <1>4 DEF IInv, ConversationTypeOK
<1> QED
  BY <1>3, <1>5, <1>6, <1>7

\* What a successful flush stood for is never sent to another channel again
\* while the index has room and the file can be read.
THEOREM FilteredForGood == ConversationSpec => FlushedStaysFiltered
<1>1. IInv /\ [ConversationNext]_conversationVars =>
        [\A r \in Requests : stage[r] = "new" /\ stage'[r] = "sent" =>
           \A i \in kept'[r] \cap promised : asked'[i].channel = asked'[r].channel]_conversationVars
  BY StepFiltered
<1> QED
  BY <1>1, Invariant, PTL DEF ConversationSpec, FlushedStaysFiltered

-----------------------------------------------------------------------------
(* Usage reports.                                                          *)

\* The checked report that was shown last on a channel is what the guard has
\* learned of it; the one suppressed since is too high for it; and a request the
\* guard looks at has a size.
MeterLearned(c) ==
  /\ \/ meter[c].bytes = 0 /\ meter[c].factor = 0 /\ meter[c].hidden = 0 /\ baseline[c] = Unlearned
     \/ /\ meter[c].bytes \in Nat \ {0} /\ meter[c].factor \in Factors
        /\ baseline[c] = [bytes |-> meter[c].bytes, tokens |-> meter[c].factor * meter[c].bytes]
  /\ meter[c].hidden # 0 => 4 * meter[c].hidden > 5 * meter[c].factor

Meter == [bytes : Nat, factor : Nat, hidden : Nat, unchecked : Nat]

MeterInv ==
  /\ meter \in [Channels -> Meter]
  /\ baseline \in [Channels -> [bytes : Nat, tokens : Nat]]
  /\ \A c \in Channels : MeterLearned(c)
  /\ \A r \in Requests : asked[r].guarded => asked[r].channel \in Channels /\ asked[r].bytes \in Nat \ {0}

\* Two reports on bodies of any sizes compare as their factors do
\* (suppressInconsistentUsage).
LEMMA FactorsCompare ==
  ASSUME NEW f \in Nat, NEW h \in Nat, NEW b \in Nat \ {0}, NEW B \in Nat \ {0}
  PROVE  4 * (f * b) * B > 5 * b * (h * B) <=> 4 * f > 5 * h
<1> DEFINE p == b * B
           x == 4 * f
           y == 5 * h
<1>1. p \in Nat \ {0}
  OBVIOUS
<1>2. 4 * (f * b) * B = x * p /\ 5 * b * (h * B) = y * p
  OBVIOUS
<1>3. x \in Nat /\ y \in Nat
  OBVIOUS
<1> HIDE DEF p, x, y
<1>4. ASSUME x > y
      PROVE  x * p > y * p
  BY <1>1, <1>3, <1>4
<1>5. ASSUME x <= y
      PROVE  x * p <= y * p
  BY <1>1, <1>3, <1>5
<1>6. x * p \in Nat /\ y * p \in Nat
  BY <1>1, <1>3
<1>7. x * p > y * p <=> x > y
  BY <1>3, <1>4, <1>5, <1>6
<1> QED
  BY <1>2, <1>7 DEF x, y

\* With something learned, a report is judged by its factor alone.
LEMMA JudgedByFactor ==
  ASSUME MeterInv, NEW c \in Channels, NEW b \in Nat \ {0}, NEW f \in Factors, baseline[c] # Unlearned
  PROVE  /\ meter[c].bytes \in Nat \ {0} /\ meter[c].factor \in Factors
         /\ baseline[c].bytes = meter[c].bytes
         /\ Overshoots(c, b, f * b) <=> 4 * f > 5 * meter[c].factor
<1> DEFINE h == meter[c].factor
           B == meter[c].bytes
<1>1. /\ B \in Nat \ {0} /\ h \in Factors /\ baseline[c] = [bytes |-> B, tokens |-> h * B]
  BY DEF MeterInv, MeterLearned
<1>2. f \in Nat /\ h \in Nat
  BY <1>1, ConversationAssumption
<1>3. Overshoots(c, b, f * b) <=> 4 * (f * b) * B > 5 * b * (h * B)
  BY <1>1 DEF Overshoots
<1> HIDE DEF h, B
<1>4. Overshoots(c, b, f * b) <=> 4 * f > 5 * h
  BY <1>1, <1>2, <1>3, FactorsCompare
<1> QED
  BY <1>1, <1>4 DEF h, B

\* A report, judged by what was learned (Judge).
LEMMA JudgeLearns ==
  ASSUME MeterInv, NEW c \in Channels, NEW b \in Nat \ {0}, NEW f \in Factors, Judge(c, b, f)
  PROVE  /\ meter' \in [Channels -> Meter] /\ baseline' \in [Channels -> [bytes : Nat, tokens : Nat]]
         /\ \A d \in Channels : MeterLearned(d)'
<1>1. f \in Nat \ {0} /\ f * b \in Nat
  BY ConversationAssumption
<1>2. \A d \in Channels \ {c} : meter'[d] = meter[d] /\ baseline'[d] = baseline[d]
  BY DEF Judge, Learn, MeterInv
<1>3. \A d \in Channels \ {c} : MeterLearned(d)'
  BY <1>2 DEF MeterInv, MeterLearned
<1>4. CASE Coherent(c, b, f * b)
  <2>1. /\ meter' = [meter EXCEPT ![c] = [bytes |-> b, factor |-> f, hidden |-> 0, unchecked |-> 0]]
        /\ baseline' = [baseline EXCEPT ![c] = [bytes |-> b, tokens |-> f * b]]
    BY <1>4 DEF Judge, Learn
  <2>2. meter' \in [Channels -> Meter] /\ baseline' \in [Channels -> [bytes : Nat, tokens : Nat]]
    BY <1>1, <2>1 DEF MeterInv, Meter
  <2>3. MeterLearned(c)'
    BY <1>1, <2>1 DEF MeterInv, MeterLearned
  <2> QED
    BY <1>3, <2>2, <2>3
<1>5. CASE ~Coherent(c, b, f * b)
  <2>1. meter' = [meter EXCEPT ![c].hidden = f] /\ baseline' = baseline
    BY <1>5 DEF Judge, Learn
  <2>2. meter' \in [Channels -> Meter]
    BY <1>1, <2>1 DEF MeterInv, Meter
  <2>3. baseline[c] # Unlearned /\ Overshoots(c, b, f * b)
    BY <1>5 DEF Coherent
  <2>4. meter'[c].bytes = meter[c].bytes /\ meter'[c].factor = meter[c].factor /\ meter'[c].hidden = f
    BY <2>1 DEF MeterInv, Meter
  <2>5. /\ meter[c].bytes \in Nat \ {0} /\ meter[c].factor \in Factors
        /\ 4 * f > 5 * meter[c].factor
    BY <2>3, JudgedByFactor
  <2>6. baseline[c] = [bytes |-> meter[c].bytes, tokens |-> meter[c].factor * meter[c].bytes]
    BY <2>3 DEF MeterInv, MeterLearned
  <2>7. MeterLearned(c)'
    BY <2>1, <2>4, <2>5, <2>6 DEF MeterLearned
  <2> QED
    BY <1>3, <2>1, <2>2, <2>7 DEF MeterInv
<1> QED
  BY <1>4, <1>5

\* A report that nobody checks teaches nothing (PassUnchecked).
LEMMA UncheckedLearns ==
  ASSUME MeterInv, NEW c \in Channels, NEW f \in Factors, PassUnchecked(c, f)
  PROVE  /\ meter' \in [Channels -> Meter] /\ baseline' \in [Channels -> [bytes : Nat, tokens : Nat]]
         /\ \A d \in Channels : MeterLearned(d)'
<1>1. meter' = [meter EXCEPT ![c].unchecked = f] /\ baseline' = baseline /\ f \in Nat
  BY ConversationAssumption DEF PassUnchecked
<1>2. meter' \in [Channels -> Meter]
  BY <1>1 DEF MeterInv, Meter
<1>3. \A d \in Channels :
        meter'[d].bytes = meter[d].bytes /\ meter'[d].factor = meter[d].factor /\ meter'[d].hidden = meter[d].hidden
  BY <1>1 DEF MeterInv, Meter
<1>4. \A d \in Channels : MeterLearned(d)'
  BY <1>1, <1>3 DEF MeterInv, MeterLearned
<1> QED
  BY <1>1, <1>2, <1>4 DEF MeterInv

\* No report, and nothing learned.
LEMMA NoneReported ==
  /\ NoReport \in Meter
  /\ Unlearned \in [bytes : Nat, tokens : Nat]
BY DEF NoReport, Unlearned, Meter

\* At the start nothing was reported.
LEMMA MeterInit == ConversationInit => MeterInv
<1> SUFFICES ASSUME ConversationInit PROVE MeterInv
  OBVIOUS
<1>1. /\ meter = [c \in Channels |-> NoReport] /\ baseline = [c \in Channels |-> Unlearned]
      /\ asked = [r \in Requests |-> Unasked]
  BY DEF ConversationInit, GuardInit
<1>2. \A c \in Channels : MeterLearned(c)
  BY <1>1 DEF MeterLearned, NoReport
<1> QED
  BY <1>1, <1>2, NoneReported DEF MeterInv, Unasked

\* What a step does to the reports of a channel: nothing, or it forgets them, or it
\* judges one.
LEMMA MeterMoves ==
  ASSUME IInv, MeterInv, [ConversationNext]_conversationVars
  PROVE  \/ UNCHANGED <<meter, baseline>>
         \/ \E c \in Channels : /\ baseline' = [baseline EXCEPT ![c] = Unlearned]
                                /\ meter' = [meter EXCEPT ![c] = NoReport]
         \/ /\ baseline' = [c \in Channels |-> Unlearned]
            /\ meter' = [c \in Channels |-> NoReport]
         \/ \E c \in Channels, b \in Nat \ {0}, f \in Factors : Judge(c, b, f)
         \/ \E c \in Channels, f \in Factors : PassUnchecked(c, f)
<1>1. ASSUME NEW r \in Requests, RequestStep(r)
      PROVE  \/ UNCHANGED <<meter, baseline>>
             \/ \E c \in Channels, b \in Nat \ {0}, f \in Factors : Judge(c, b, f)
             \/ \E c \in Channels, f \in Factors : PassUnchecked(c, f)
  <2>1. CASE Report(r)
    <3>1. PICK f \in Factors : IF asked[r].guarded THEN Judge(asked[r].channel, asked[r].bytes, f)
                               ELSE PassUnchecked(asked[r].channel, f)
      BY <2>1 DEF Report
    <3>2. asked[r].channel \in Channels
      BY <2>1 DEF Report, Answering, IInv, SentAsked, Asked
    <3>3. asked[r].guarded => asked[r].bytes \in Nat \ {0}
      BY DEF MeterInv
    <3> QED
      BY <3>1, <3>2, <3>3
  <2>2. CASE Arrive(r) \/ Recover(r) \/ Capture(r) \/ Deliver(r) \/ End(r)
    BY <2>2 DEF Arrive, Recover, Capture, Deliver, End
  <2> QED
    BY <1>1, <2>1, <2>2 DEF RequestStep
<1>2. CASE StopFlush \/ Start \/ Second
  BY <1>2 DEF StopFlush, Start, Second
<1>3. CASE Crash
  BY <1>3 DEF Crash
<1>4. CASE \E c \in Channels : Prune(c)
  BY <1>4 DEF Prune, PruneBaseline
<1>5. CASE UNCHANGED conversationVars
  BY <1>5 DEF conversationVars
<1> QED
  BY <1>1, <1>2, <1>3, <1>4, <1>5 DEF ConversationNext

\* What a step does to the requests the guard looks at.
LEMMA GuardedSized ==
  ASSUME IInv, MeterInv, [ConversationNext]_conversationVars, NEW r \in Requests, asked'[r].guarded
  PROVE  asked'[r].channel \in Channels /\ asked'[r].bytes \in Nat \ {0}
<1>1. CASE asked'[r] = asked[r]
  BY <1>1 DEF MeterInv
<1>2. ASSUME NEW q \in Requests, Arrive(q)
      PROVE  asked'[r].channel \in Channels /\ asked'[r].bytes \in Nat \ {0}
  <2>1. PICK a \in [channel : Channels, bytes : workload.sizes, guarded : {q \in workload.checked}] :
          asked' = [asked EXCEPT ![q] = a]
    BY <1>2 DEF Arrive
  <2>2. workload.sizes \subseteq Nat \ {0}
    BY DEF IInv, ConversationTypeOK, Workload
  <2>3. CASE r = q
    BY <2>1, <2>2, <2>3 DEF IInv, ConversationTypeOK
  <2>4. CASE r # q
    BY <1>1, <2>1, <2>4 DEF IInv, ConversationTypeOK
  <2> QED
    BY <2>3, <2>4
<1>3. ASSUME NEW q \in Requests, Recover(q)
      PROVE  asked'[r].channel \in Channels /\ asked'[r].bytes \in Nat \ {0}
  <2>1. asked' = [asked EXCEPT ![q].guarded = FALSE]
    BY <1>3 DEF Recover
  <2>2. r # q
    BY <2>1 DEF IInv, ConversationTypeOK, Asked, Unasked
  <2> QED
    BY <1>1, <2>1, <2>2 DEF IInv, ConversationTypeOK
<1>4. ASSUME NEW q \in Requests, Report(q) \/ Capture(q) \/ Deliver(q) \/ End(q)
      PROVE  asked' = asked
  BY <1>4 DEF Report, Capture, Deliver, End
<1>5. CASE StopFlush \/ Crash \/ Start \/ Second \/ \E c \in Channels : Prune(c)
  BY <1>1, <1>5 DEF StopFlush, Crash, Start, Second, Prune, requestVars
<1>6. CASE UNCHANGED conversationVars
  BY <1>1, <1>6 DEF conversationVars, requestVars
<1> QED
  BY <1>1, <1>2, <1>3, <1>4, <1>5, <1>6 DEF ConversationNext, RequestStep

\* Every step keeps what was shown and what was learned together.
LEMMA MeterStep == IInv /\ MeterInv /\ [ConversationNext]_conversationVars => MeterInv'
<1> SUFFICES ASSUME IInv, MeterInv, [ConversationNext]_conversationVars PROVE MeterInv'
  OBVIOUS
<1>1. \A r \in Requests : asked'[r].guarded => asked'[r].channel \in Channels /\ asked'[r].bytes \in Nat \ {0}
  BY GuardedSized
<1>2. CASE UNCHANGED <<meter, baseline>>
  BY <1>1, <1>2 DEF MeterInv, MeterLearned
<1>3. ASSUME NEW c \in Channels, baseline' = [baseline EXCEPT ![c] = Unlearned],
             meter' = [meter EXCEPT ![c] = NoReport]
      PROVE  MeterInv'
  <2>1. /\ meter' \in [Channels -> Meter]
        /\ baseline' \in [Channels -> [bytes : Nat, tokens : Nat]]
    BY <1>3, NoneReported DEF MeterInv
  <2>2. \A d \in Channels : MeterLearned(d)'
    BY <1>3 DEF MeterInv, MeterLearned, NoReport
  <2> QED
    BY <1>1, <2>1, <2>2 DEF MeterInv
<1>4. CASE baseline' = [c \in Channels |-> Unlearned] /\ meter' = [c \in Channels |-> NoReport]
  <2>1. \A d \in Channels : MeterLearned(d)'
    BY <1>4 DEF MeterLearned, NoReport
  <2> QED
    BY <1>1, <1>4, <2>1, NoneReported DEF MeterInv
<1>5. ASSUME NEW c \in Channels, NEW b \in Nat \ {0}, NEW f \in Factors, Judge(c, b, f)
      PROVE  MeterInv'
  BY <1>1, <1>5, JudgeLearns DEF MeterInv
<1>6. ASSUME NEW c \in Channels, NEW f \in Factors, PassUnchecked(c, f)
      PROVE  MeterInv'
  BY <1>1, <1>6, UncheckedLearns DEF MeterInv
<1> QED
  BY <1>2, <1>3, <1>4, <1>5, <1>6, MeterMoves

\* A report that is judged after an honest one was shown.
LEMMA JudgeFollows ==
  ASSUME MeterInv, NEW c \in Channels, NEW b \in Nat \ {0}, NEW f \in Factors, Judge(c, b, f),
         meter[c].factor \in Honest
  PROVE  Follows(meter[c], meter'[c])
<1> DEFINE h == meter[c].factor
<1>1. h \in Nat \ {0} /\ f \in Nat \ {0} /\ h \in Honest
  BY ConversationAssumption
<1>2. baseline[c] # Unlearned
  BY <1>1 DEF MeterInv, MeterLearned, Unlearned
<1>3. /\ meter[c].bytes \in Nat \ {0} /\ baseline[c].bytes = meter[c].bytes
      /\ Overshoots(c, b, f * b) <=> 4 * f > 5 * h
  BY <1>2, JudgedByFactor
<1>4. CASE Coherent(c, b, f * b)
  <2>1. meter'[c] = [bytes |-> b, factor |-> f, hidden |-> 0, unchecked |-> 0]
    BY <1>4 DEF Judge, MeterInv
  <2>2. 4 * b < 3 * meter[c].bytes \/ ~(4 * f > 5 * h)
    BY <1>2, <1>3, <1>4 DEF Coherent, Rewritten
  <2>3. Inflated(f) => 4 * b < 3 * meter[c].bytes
    BY <1>1, <2>2 DEF Inflated
  <2> QED
    BY <2>1, <2>3 DEF Follows, Shown
<1>5. CASE ~Coherent(c, b, f * b)
  <2>1. /\ meter'[c].hidden = f /\ meter'[c].factor = h
        /\ meter'[c].bytes = meter[c].bytes /\ meter'[c].unchecked = meter[c].unchecked
    BY <1>5 DEF Judge, MeterInv, Meter
  <2>2. 4 * f > 5 * h
    BY <1>3, <1>5 DEF Coherent
  <2>3. ~Inflated(h)
    BY <1>1 DEF Inflated
  <2> QED
    BY <2>1, <2>2, <2>3 DEF Follows, Shown
<1> QED
  BY <1>4, <1>5

\* A report that is not checked after an honest one was shown.
LEMMA UncheckedFollows ==
  ASSUME MeterInv, NEW c \in Channels, NEW f \in Factors, PassUnchecked(c, f)
  PROVE  Follows(meter[c], meter'[c])
<1>1. meter'[c].unchecked = f /\ meter'[c].hidden = meter[c].hidden /\ f # 0
  BY ConversationAssumption DEF PassUnchecked, MeterInv, Meter
<1>2. meter[c].hidden # 0 => 4 * meter[c].hidden > 5 * meter[c].factor
  BY DEF MeterInv, MeterLearned
<1> QED
  BY <1>1, <1>2 DEF Follows

\* After an honest report every step keeps the promise.
LEMMA StepFollows ==
  ASSUME IInv, MeterInv, [ConversationNext]_conversationVars, NEW c \in Channels,
         meter[c].factor \in Honest, meter'[c] # meter[c]
  PROVE  Follows(meter[c], meter'[c])
<1>1. CASE meter'[c] = NoReport
  <2>1. meter[c].factor \in Nat \ {0}
    BY ConversationAssumption
  <2>2. ~(4 * 0 > 5 * meter[c].factor)
    BY <2>1
  <2>3. ~Inflated(0)
    BY <2>2 DEF Inflated
  <2> QED
    BY <1>1, <2>3 DEF NoReport, Follows, Shown
<1>2. ASSUME NEW d \in Channels, NEW b \in Nat \ {0}, NEW f \in Factors, Judge(d, b, f)
      PROVE  d = c
  BY <1>2 DEF Judge, MeterInv
<1>3. ASSUME NEW d \in Channels, meter' = [meter EXCEPT ![d] = NoReport]
      PROVE  meter'[c] = NoReport
  BY <1>3 DEF MeterInv
<1>4. ASSUME NEW d \in Channels, NEW f \in Factors, PassUnchecked(d, f)
      PROVE  d = c
  BY <1>4 DEF PassUnchecked, MeterInv
<1> QED
  BY <1>1, <1>2, <1>3, <1>4, MeterMoves, JudgeFollows, UncheckedFollows

\* After an honest report that was checked Grok Build is shown no inflated one on
\* that channel, and only one more than a quarter above it is suppressed, however
\* requests overlap (contextUsageGuard); but for a report nobody checks and for a
\* body under 3/4 of the last.
THEOREM HonestReportsShown == ConversationSpec => MeterFollowsHonest
<1>1. IInv /\ MeterInv /\ [ConversationNext]_conversationVars =>
        [\A c \in Channels :
           meter[c].factor \in Honest /\ meter'[c] # meter[c] => Follows(meter[c], meter'[c])]_conversationVars
  BY StepFollows
<1> QED
  BY <1>1, Invariant, MeterInit, MeterStep, PTL DEF ConversationSpec, MeterFollowsHonest
=============================================================================
