---------------------- MODULE BreakerAndWorkersProofs ----------------------
(***************************************************************************)
(* Of what the proxy keeps from request to request.  The breaker of a      *)
(* channel, for every set of handlers, policies and periods that satisfy   *)
(* BreakerAssumption; then what is learned of the models and told the      *)
(* sessions, which is not lost between the queues, the workers, the cache  *)
(* and a stop that fails, for every number of models, sessions, retries    *)
(* and observations.                                                       *)
(***************************************************************************)
EXTENDS Breaker, Workers, TLAPS

-----------------------------------------------------------------------------
(* The breaker.                                                            *)

\* A probe younger than the lease is remembered by an open breaker: either
\* the breaker opened or was re-armed after it, or it still holds the flag.
ProbeInv ==
  breaker.open /\ sinceProbe < Lease =>
    \/ breaker.openAge <= sinceProbe
    \/ breaker.probing /\ breaker.probeAge <= sinceProbe

\* A closed breaker has counted no more failures than the current streak has.
StreakInv ==
  /\ ~breaker.open => breaker.failures <= streak
  /\ OpenAfterStreak

\* An age grows by one up to its cap.
LEMMA OlderBounds ==
  ASSUME NEW cap \in Nat, NEW age \in 0..cap
  PROVE  /\ Older(age, cap) \in 0..cap
         /\ Older(age, cap) <= age + 1
         /\ Older(age, cap) < cap => Older(age, cap) = age + 1
         /\ Older(age, cap) >= age
         /\ Older(age, cap) = cap \/ Older(age, cap) = age + 1
  BY DEF Older

\* An idle handler has a handler's type.
LEMMA IdleTyped ==
  Idle \in [pc : Pc, policy : Policy, cancelled : BOOLEAN]
  <1>1. (CHOOSE p \in Policy : TRUE) \in Policy
    BY BreakerAssumption
  <1>2. QED
    BY <1>1 DEF Idle, Pc

\* A closed breaker has an entry's type.
LEMMA ClosedTyped ==
  Closed \in Entry
  BY BreakerAssumption DEF Closed, Entry

\* What recordFailure makes of a well-typed entry under a threshold of Policy.
LEMMA CountedTyped ==
  ASSUME NEW b \in Entry, NEW t \in 1..MaxThreshold
  PROVE  /\ Counted(b, t) \in Entry
         /\ Counted(b, t).open => Counted(b, t).openAge = 0
         /\ b.open => Counted(b, t).open
         /\ ~b.open /\ Counted(b, t).open => b.failures + 1 >= t
         /\ ~b.open /\ ~Counted(b, t).open => Counted(b, t).failures = b.failures + 1
  <1>1. /\ b.failures \in 0..(MaxThreshold - 1)
        /\ b.openAge \in 0..Cooldown /\ b.probeAge \in 0..Lease
        /\ b.open \in BOOLEAN /\ b.probing \in BOOLEAN
    BY DEF Entry
  <1>2. CASE b.open
    <2>1. Counted(b, t) = [b EXCEPT !.openAge = 0, !.probing = FALSE]
      BY <1>2 DEF Counted
    <2>2. Counted(b, t) = [failures |-> b.failures, open |-> b.open, openAge |-> 0,
                           probing |-> FALSE, probeAge |-> b.probeAge]
      BY <2>1 DEF Entry
    <2>3. QED
      BY <1>1, <1>2, <2>2, BreakerAssumption DEF Entry
  <1>3. CASE ~b.open /\ b.failures + 1 >= t
    <2>1. Counted(b, t) = [b EXCEPT !.open = TRUE, !.openAge = 0, !.failures = 0]
      BY <1>3 DEF Counted
    <2>2. Counted(b, t) = [failures |-> 0, open |-> TRUE, openAge |-> 0,
                           probing |-> b.probing, probeAge |-> b.probeAge]
      BY <2>1 DEF Entry
    <2>3. QED
      BY <1>1, <1>3, <2>2, BreakerAssumption DEF Entry
  <1>4. CASE ~b.open /\ ~(b.failures + 1 >= t)
    <2>1. Counted(b, t) = [b EXCEPT !.failures = @ + 1]
      BY <1>4 DEF Counted
    <2>2. b.failures + 1 \in 0..(MaxThreshold - 1)
      BY <1>1, <1>4, BreakerAssumption
    <2>3. QED
      BY <1>1, <1>4, <2>1, <2>2 DEF Entry
  <1>5. QED
    BY <1>2, <1>3, <1>4

(***************************************************************************)
(* Every reachable state is well typed.                                    *)
(***************************************************************************)
THEOREM TypeCorrect == BreakerSpec => []TypeOK
<1>1. BreakerInit => TypeOK
  BY IdleTyped, ClosedTyped, BreakerAssumption DEF BreakerInit, TypeOK
<1>2. TypeOK /\ [BreakerNext]_breakerVars => TypeOK'
  <2> SUFFICES ASSUME TypeOK, [BreakerNext]_breakerVars
               PROVE  TypeOK'
    OBVIOUS
  <2> USE DEF TypeOK
  <2>1. ASSUME NEW r \in Request, Handler(r)
        PROVE  TypeOK'
    <3>1. CASE Arrive(r)
      BY <3>1 DEF Arrive, Pc
    <3>2. CASE Pass(r)
      BY <3>2 DEF Pass, SetPc, Pc
    <3>3. CASE Probe(r)
      <4>1. breaker' \in Entry
        <5>1. breaker' = [failures |-> breaker.failures, open |-> breaker.open,
                          openAge |-> breaker.openAge, probing |-> TRUE, probeAge |-> 0]
          BY <3>3 DEF Probe, Entry
        <5>2. QED
          BY <5>1, BreakerAssumption DEF Entry
      <4>2. req' \in [Request -> [pc : Pc, policy : Policy, cancelled : BOOLEAN]]
        BY <3>3 DEF Probe, SetPc, Pc
      <4>3. QED
        BY <3>3, <4>1, <4>2, BreakerAssumption DEF Probe
    <3>4. CASE FastFail(r)
      BY <3>4, IdleTyped DEF FastFail, End
    <3>5. CASE Bind(r)
      BY <3>5 DEF Bind, Pc
    <3>6. CASE Answer(r)
      BY <3>6 DEF Answer, SetPc, Pc
    <3>7. CASE RecordSuccess(r)
      BY <3>7, IdleTyped, ClosedTyped, BreakerAssumption DEF RecordSuccess, SetPc, End, Pc
    <3>8. CASE DialFail(r)
      BY <3>8 DEF DialFail, SetPc, Pc
    <3>9. CASE Abandon(r)
      BY <3>9, IdleTyped DEF Abandon, End
    <3>10. CASE OnRequestError(r)
      BY <3>10, IdleTyped DEF OnRequestError, SetPc, End, Pc
    <3>11. CASE RecordFailure(r)
      <4>1. req[r].policy.threshold \in 1..MaxThreshold
        BY BreakerAssumption
      <4>2. Older(streak, MaxThreshold) \in 0..MaxThreshold
        BY OlderBounds, BreakerAssumption
      <4>3. QED
        BY <3>11, <4>1, <4>2, CountedTyped, IdleTyped DEF RecordFailure, End
    <3>12. QED
      BY <2>1, <3>1, <3>2, <3>3, <3>4, <3>5, <3>6, <3>7, <3>8, <3>9, <3>10, <3>11 DEF Handler
  <2>2. CASE Disable
    BY <2>2 DEF Disable
  <2>3. CASE CancelUpstream
    <3>1. \A r \in Request : (req[r].cancelled \/ req[r].pc \in InFlight) \in BOOLEAN
      OBVIOUS
    <3>2. QED
      BY <2>3, <3>1 DEF CancelUpstream
  <2>4. CASE Enable
    BY <2>4, ClosedTyped, BreakerAssumption DEF Enable
  <2>5. CASE Reachable
    BY <2>5 DEF Reachable
  <2>6. CASE Tick
    <3>1. breaker' = [failures |-> breaker.failures, open |-> breaker.open,
                      openAge |-> Older(breaker.openAge, Cooldown),
                      probing |-> breaker.probing, probeAge |-> Older(breaker.probeAge, Lease)]
      BY <2>6 DEF Tick, Entry
    <3>2. /\ Older(breaker.openAge, Cooldown) \in 0..Cooldown
          /\ Older(breaker.probeAge, Lease) \in 0..Lease
          /\ Older(sinceProbe, Lease) \in 0..Lease
      BY OlderBounds, BreakerAssumption DEF Entry
    <3>3. QED
      BY <2>6, <3>1, <3>2 DEF Tick, Entry
  <2>7. CASE UNCHANGED breakerVars
    BY <2>7 DEF breakerVars
  <2>8. QED
    BY <2>1, <2>2, <2>3, <2>4, <2>5, <2>6, <2>7 DEF BreakerNext
<1>3. QED
  BY <1>1, <1>2, PTL DEF BreakerSpec

\* The breaker remembers every probe that is younger than the lease.
LEMMA ProbeInvariant == BreakerSpec => []ProbeInv
<1>1. BreakerInit => ProbeInv
  BY DEF BreakerInit, ProbeInv, Closed
<1>2. TypeOK /\ ProbeInv /\ [BreakerNext]_breakerVars => ProbeInv'
  <2> SUFFICES ASSUME TypeOK, ProbeInv, [BreakerNext]_breakerVars
               PROVE  ProbeInv'
    OBVIOUS
  <2> USE DEF ProbeInv
  <2>1. ASSUME NEW r \in Request, Handler(r)
        PROVE  ProbeInv'
    <3>1. CASE Probe(r)
      BY <3>1, BreakerAssumption DEF Probe, TypeOK, Entry
    <3>2. CASE RecordSuccess(r)
      BY <3>2 DEF RecordSuccess, Closed
    <3>3. CASE RecordFailure(r)
      <4>1. req[r].policy.threshold \in 1..MaxThreshold
        BY BreakerAssumption DEF TypeOK, Entry
      <4>2. sinceProbe' = sinceProbe /\ sinceProbe >= 0
        BY <3>3, BreakerAssumption DEF RecordFailure, TypeOK
      <4>3. CASE req[r].policy.on
        BY <3>3, <4>1, <4>2, <4>3, CountedTyped DEF RecordFailure, TypeOK
      <4>4. CASE ~req[r].policy.on
        BY <3>3, <4>4 DEF RecordFailure
      <4>5. QED
        BY <4>3, <4>4
    <3>4. CASE UNCHANGED <<breaker, sinceProbe>>
      BY <3>4
    <3>5. QED
      BY <2>1, <3>1, <3>2, <3>3, <3>4
      DEF Handler, Arrive, Pass, FastFail, Bind, Answer, DialFail, Abandon, OnRequestError
  <2>2. CASE Tick
    <3>1. sinceProbe \in 0..Lease /\ breaker.openAge \in 0..Cooldown /\ breaker.probeAge \in 0..Lease
      BY DEF TypeOK, Entry
    <3>2. /\ breaker'.open = breaker.open
          /\ breaker'.probing = breaker.probing
          /\ breaker'.openAge = Older(breaker.openAge, Cooldown)
          /\ breaker'.probeAge = Older(breaker.probeAge, Lease)
          /\ sinceProbe' = Older(sinceProbe, Lease)
      BY <2>2 DEF Tick, TypeOK, Entry
    <3>3. /\ Older(breaker.openAge, Cooldown) <= breaker.openAge + 1
          /\ Older(breaker.probeAge, Lease) <= breaker.probeAge + 1
          /\ Older(breaker.openAge, Cooldown) \in Int
          /\ Older(breaker.probeAge, Lease) \in Int
      BY <3>1, BreakerAssumption DEF Older
    <3>4. sinceProbe' < Lease => sinceProbe' = sinceProbe + 1 /\ sinceProbe < Lease
      BY <3>1, <3>2, OlderBounds, BreakerAssumption
    <3>5. QED
      BY <3>1, <3>2, <3>3, <3>4, BreakerAssumption
  <2>3. CASE Enable
    BY <2>3 DEF Enable, Closed
  <2>4. CASE Disable \/ CancelUpstream \/ Reachable \/ UNCHANGED breakerVars
    BY <2>4 DEF Disable, CancelUpstream, Reachable, breakerVars
  <2>5. QED
    BY <2>1, <2>2, <2>3, <2>4 DEF BreakerNext
<1>3. QED
  BY <1>1, <1>2, TypeCorrect, PTL DEF BreakerSpec

(***************************************************************************)
(* No two probes of an open breaker are closer than the lease (allow,      *)
(* breaker.go:161-185), whatever stray reports come in between.            *)
(***************************************************************************)
THEOREM ProbeSpacing == BreakerSpec => ProbesLeaseApart
<1>1. TypeOK /\ ProbeInv /\ [BreakerNext]_breakerVars => [\A r \in Request : Probe(r) => sinceProbe >= Lease]_breakerVars
  <2> SUFFICES ASSUME TypeOK, ProbeInv, NEW r \in Request, Probe(r)
               PROVE  sinceProbe >= Lease
    OBVIOUS
  <2>1. breaker.open /\ breaker.openAge >= Cooldown
        /\ (breaker.probing => breaker.probeAge >= Lease)
    BY DEF Probe, Gated, ProbeDue
  <2>2. QED
    BY <2>1, BreakerAssumption DEF TypeOK, Entry, ProbeInv
<1>2. QED
  BY <1>1, TypeCorrect, ProbeInvariant, PTL DEF BreakerSpec, ProbesLeaseApart

(***************************************************************************)
(* An open breaker stands for at least a threshold of dial failures with   *)
(* no response reported in between (recordFailure and recordSuccess,       *)
(* breaker.go:187-223).                                                    *)
(***************************************************************************)
THEOREM OpensAfterStreak == BreakerSpec => []OpenAfterStreak
<1>1. BreakerInit => StreakInv
  BY DEF BreakerInit, StreakInv, OpenAfterStreak, Closed
<1>2. TypeOK /\ StreakInv /\ [BreakerNext]_breakerVars => StreakInv'
  <2> SUFFICES ASSUME TypeOK, StreakInv, [BreakerNext]_breakerVars
               PROVE  StreakInv'
    OBVIOUS
  <2> USE DEF StreakInv, OpenAfterStreak
  <2>1. ASSUME NEW r \in Request, Handler(r)
        PROVE  StreakInv'
    <3>1. CASE Probe(r)
      BY <3>1 DEF Probe, TypeOK, Entry
    <3>2. CASE RecordSuccess(r)
      BY <3>2 DEF RecordSuccess, Closed
    <3>3. CASE RecordFailure(r) /\ req[r].policy.on
      <4> DEFINE p == req[r].policy
      <4>1. p \in Policy /\ p.on /\ p.threshold \in 1..MaxThreshold
        BY <3>3, BreakerAssumption DEF TypeOK, Entry
      <4>2. breaker' = Counted(breaker, p.threshold) /\ streak' = Older(streak, MaxThreshold)
        BY <3>3 DEF RecordFailure
      <4>3. /\ streak \in 0..MaxThreshold
            /\ streak' \in 0..MaxThreshold
            /\ streak' >= streak
            /\ streak' = MaxThreshold \/ streak' = streak + 1
        BY <4>2, OlderBounds, BreakerAssumption DEF TypeOK, Entry
      <4>4. CASE breaker.open
        <5>1. breaker'.open
          BY <4>1, <4>2, <4>4, CountedTyped DEF TypeOK, Entry
        <5>2. PICK q \in Policy : q.on /\ streak >= q.threshold
          BY <4>4
        <5>3. q.threshold \in 1..MaxThreshold
          BY BreakerAssumption
        <5>4. streak' >= q.threshold
          BY <4>3, <5>2, <5>3, BreakerAssumption
        <5>5. QED
          BY <5>1, <5>2, <5>4
      <4>5. CASE ~breaker.open /\ breaker'.open
        <5>1. breaker.failures + 1 >= p.threshold /\ breaker.failures <= streak
          BY <4>1, <4>2, <4>5, CountedTyped DEF TypeOK, Entry
        <5>2. streak' >= p.threshold
          BY <4>1, <4>3, <5>1, BreakerAssumption DEF TypeOK, Entry
        <5>3. QED
          BY <4>1, <4>5, <5>2
      <4>6. CASE ~breaker.open /\ ~breaker'.open
        <5>1. breaker'.failures = breaker.failures + 1 /\ breaker'.failures \in 0..(MaxThreshold - 1)
          BY <4>1, <4>2, <4>6, CountedTyped DEF TypeOK, Entry
        <5>2. breaker.failures <= streak /\ breaker.failures \in Nat
          BY <4>6 DEF TypeOK, Entry
        <5>3. breaker'.failures <= streak'
          BY <4>3, <5>1, <5>2, BreakerAssumption
        <5>4. QED
          BY <4>6, <5>3
      <4>7. QED
        BY <4>4, <4>5, <4>6
    <3>4. CASE UNCHANGED <<breaker, streak>>
      BY <3>4
    <3>5. QED
      BY <2>1, <3>1, <3>2, <3>3, <3>4
      DEF Handler, Arrive, Pass, FastFail, Bind, Answer, DialFail, Abandon, OnRequestError,
          RecordFailure
  <2>2. CASE Tick
    BY <2>2 DEF Tick, TypeOK, Entry
  <2>3. CASE Enable
    BY <2>3 DEF Enable, Closed
  <2>4. CASE Disable \/ CancelUpstream \/ Reachable \/ UNCHANGED breakerVars
    BY <2>4 DEF Disable, CancelUpstream, Reachable, breakerVars
  <2>5. QED
    BY <2>1, <2>2, <2>3, <2>4 DEF BreakerNext
<1>3. StreakInv => OpenAfterStreak
  BY DEF StreakInv
<1>4. QED
  BY <1>1, <1>2, <1>3, TypeCorrect, PTL DEF BreakerSpec

-----------------------------------------------------------------------------
(* The workers.                                                            *)

\* An entry of the cache: a value has a source.
Evidence ==
  {e \in [window : Nat, windowSource : 0..2, output : Nat, outputSource : 0..2] :
     (e.window = 0 <=> e.windowSource = 0) /\ (e.output = 0 <=> e.outputSource = 0)}

EvidenceTyped ==
  /\ cache \in [Models -> Evidence] /\ batch \in [Models -> Evidence]
  /\ capacityPending \in [Models -> Evidence] /\ want \in [Models -> Evidence]

\* The worker holds something only while it applies it, and without workers
\* nothing is held or queued.
HeldOK ==
  /\ learner # "apply" => \A m \in Models : batch[m] = Nothing
  /\ app = "stopped" => learner = "off" /\ \A m \in Models : capacityPending[m] = Nothing

EvidenceInv == EvidenceTyped /\ HeldOK /\ EvidenceKept

SessionsTyped ==
  /\ catalog \in Nat /\ sees \in [Sessions -> Nat]
  /\ active \subseteq Sessions /\ gaveUp \subseteq Sessions
  /\ roster \in [catalog : Nat, skipped : SUBSET Sessions]
  /\ refreshPending \in BOOLEAN

\* Until a start is over nobody has been told to refresh.
StartQuiet == app = "starting" => refresher = "wait" /\ ~refreshSignal /\ ~refreshPosting

\* A refresh under way tells the present configuration, or another is queued.
FreshRoster ==
  app = "running" /\ refresher = "refresh" => refreshPending \/ roster.catalog = catalog

\* A session that lags is still to be told.
StillToTell(s) ==
  \/ refreshPending \/ refresher \in {"delay", "refresh"}
  \/ refresher = "record" /\ s \in roster.skipped
Lagging == app = "running" => \A s \in Sessions \ gaveUp : sees[s] = catalog \/ StillToTell(s)

SessionsInv == SessionsTyped /\ StartQuiet /\ FreshRoster /\ Lagging

-----------------------------------------------------------------------------
(* Merging evidence.                                                       *)

\* The value and the source of one number after a merge (mergeObservedValue).
Value(v, s, old, oldSource) == IF Outranks(v, s, old, oldSource) THEN v ELSE old
Source(v, s, old, oldSource) == IF Outranks(v, s, old, oldSource) THEN s ELSE oldSource

\* Merging one number twice is merging what the second and the third make.
LEMMA NumbersMerge ==
  ASSUME NEW v \in Nat, NEW s \in 0..2, NEW w \in Nat, NEW p \in 0..2, w = 0 <=> p = 0,
         NEW x \in Nat, NEW q \in 0..2
  PROVE  /\ Value(x, q, Value(w, p, v, s), Source(w, p, v, s)) =
              Value(Value(x, q, w, p), Source(x, q, w, p), v, s)
         /\ Source(x, q, Value(w, p, v, s), Source(w, p, v, s)) =
              Source(Value(x, q, w, p), Source(x, q, w, p), v, s)
  BY DEF Value, Source, Outranks, Unknown, FromRequest, FromResponse

\* A merge has the value and the source of each number.
LEMMA MergedNumbers ==
  ASSUME NEW e, NEW o
  PROVE  /\ Merged(e, o).window = Value(o.window, o.windowSource, e.window, e.windowSource)
         /\ Merged(e, o).windowSource = Source(o.window, o.windowSource, e.window, e.windowSource)
         /\ Merged(e, o).output = Value(o.output, o.outputSource, e.output, e.outputSource)
         /\ Merged(e, o).outputSource = Source(o.output, o.outputSource, e.output, e.outputSource)
         /\ Merged(e, o) = [window |-> Merged(e, o).window, windowSource |-> Merged(e, o).windowSource,
                            output |-> Merged(e, o).output, outputSource |-> Merged(e, o).outputSource]
  BY DEF Merged, Value, Source

\* What can be observed.
Told == [window : Nat, windowSource : 0..2, output : Nat, outputSource : 0..2]

\* A merge of evidence with what is observed is evidence (Observe).
LEMMA MergedTyped ==
  ASSUME NEW e \in Evidence, NEW o \in Told
  PROVE  Merged(e, o) \in Evidence
<1>1. /\ e.window \in Nat /\ e.windowSource \in 0..2 /\ e.output \in Nat /\ e.outputSource \in 0..2
      /\ o.window \in Nat /\ o.windowSource \in 0..2 /\ o.output \in Nat /\ o.outputSource \in 0..2
      /\ (e.window = 0 <=> e.windowSource = 0) /\ (e.output = 0 <=> e.outputSource = 0)
  BY DEF Evidence, Told
<1>2. ASSUME NEW v \in Nat, NEW s \in 0..2, NEW x \in Nat, NEW q \in 0..2, v = 0 <=> s = 0
      PROVE  /\ Value(x, q, v, s) \in Nat /\ Source(x, q, v, s) \in 0..2
             /\ Value(x, q, v, s) = 0 <=> Source(x, q, v, s) = 0
  BY <1>2 DEF Value, Source, Outranks, Unknown, FromRequest
<1> DEFINE m == Merged(e, o)
<1>3. /\ m.window \in Nat /\ m.windowSource \in 0..2 /\ (m.window = 0 <=> m.windowSource = 0)
      /\ m.output \in Nat /\ m.outputSource \in 0..2 /\ (m.output = 0 <=> m.outputSource = 0)
  BY <1>1, <1>2, MergedNumbers
<1>4. m = [window |-> m.window, windowSource |-> m.windowSource,
           output |-> m.output, outputSource |-> m.outputSource]
  BY MergedNumbers
<1> HIDE DEF m
<1>5. m \in [window : Nat, windowSource : 0..2, output : Nat, outputSource : 0..2]
  BY <1>3, <1>4
<1> QED
  BY <1>3, <1>5 DEF Evidence, m

\* Nothing is evidence that changes nothing.
LEMMA NothingMerged ==
  /\ Nothing \in Evidence
  /\ \A e \in Evidence : Merged(e, Nothing) = e /\ Merged(Nothing, e) = e
<1>1. Nothing \in Evidence
  BY DEF Nothing, Evidence, Unknown
<1>2. ASSUME NEW e \in Evidence
      PROVE  Merged(e, Nothing) = e /\ Merged(Nothing, e) = e
  <2>1. /\ e.window \in Nat /\ e.windowSource \in 0..2 /\ e.output \in Nat /\ e.outputSource \in 0..2
        /\ (e.window = 0 <=> e.windowSource = 0) /\ (e.output = 0 <=> e.outputSource = 0)
        /\ e = [window |-> e.window, windowSource |-> e.windowSource,
                output |-> e.output, outputSource |-> e.outputSource]
    BY DEF Evidence
  <2>2. /\ Nothing.window = 0 /\ Nothing.windowSource = 0
        /\ Nothing.output = 0 /\ Nothing.outputSource = 0
    BY DEF Nothing, Unknown
  <2>3. ASSUME NEW v \in Nat, NEW s \in 0..2, v = 0 <=> s = 0
        PROVE  /\ Value(0, 0, v, s) = v /\ Source(0, 0, v, s) = s
               /\ Value(v, s, 0, 0) = v /\ Source(v, s, 0, 0) = s
    BY <2>3 DEF Value, Source, Outranks, Unknown, FromRequest
  <2>4. /\ Merged(e, Nothing).window = e.window /\ Merged(e, Nothing).windowSource = e.windowSource
        /\ Merged(e, Nothing).output = e.output /\ Merged(e, Nothing).outputSource = e.outputSource
    BY <2>1, <2>2, <2>3, MergedNumbers
  <2>5. /\ Merged(Nothing, e).window = e.window /\ Merged(Nothing, e).windowSource = e.windowSource
        /\ Merged(Nothing, e).output = e.output /\ Merged(Nothing, e).outputSource = e.outputSource
    BY <2>1, <2>2, <2>3, MergedNumbers
  <2>6. Merged(e, Nothing) = e
    BY <2>1, <2>4, MergedNumbers
  <2>7. Merged(Nothing, e) = e
    BY <2>1, <2>5, MergedNumbers
  <2> QED
    BY <2>6, <2>7
<1> QED
  BY <1>1, <1>2

\* Merging while waiting and merging one by one come to the same
\* (MergeObservations and Cache.Observe).
LEMMA MergesAssociate ==
  ASSUME NEW e \in Evidence, NEW f \in Evidence, NEW o \in Told
  PROVE  Merged(e, Merged(f, o)) = Merged(Merged(e, f), o)
<1>1. /\ e.window \in Nat /\ e.windowSource \in 0..2 /\ e.output \in Nat /\ e.outputSource \in 0..2
      /\ f.window \in Nat /\ f.windowSource \in 0..2 /\ f.output \in Nat /\ f.outputSource \in 0..2
      /\ o.window \in Nat /\ o.windowSource \in 0..2 /\ o.output \in Nat /\ o.outputSource \in 0..2
      /\ (f.window = 0 <=> f.windowSource = 0) /\ (f.output = 0 <=> f.outputSource = 0)
  BY DEF Evidence, Told
<1> DEFINE a == Merged(e, Merged(f, o))
           b == Merged(Merged(e, f), o)
<1>2. a.window = b.window /\ a.windowSource = b.windowSource
  BY <1>1, MergedNumbers, NumbersMerge
<1>3. a.output = b.output /\ a.outputSource = b.outputSource
  BY <1>1, MergedNumbers, NumbersMerge
<1>4. /\ a = [window |-> a.window, windowSource |-> a.windowSource,
              output |-> a.output, outputSource |-> a.outputSource]
      /\ b = [window |-> b.window, windowSource |-> b.windowSource,
              output |-> b.output, outputSource |-> b.outputSource]
  BY MergedNumbers
<1> HIDE DEF a, b
<1>5. a = b
  BY <1>2, <1>3, <1>4
<1> QED
  BY <1>5 DEF a, b

\* Evidence can be observed.
LEMMA EvidenceTold == Evidence \subseteq Told
  BY DEF Evidence, Told

-----------------------------------------------------------------------------
(* The evidence.                                                           *)

\* Observe: what is merged into the queue is merged into the sum.
LEMMA ObserveKeeps ==
  ASSUME EvidenceInv, NEW m \in Models, NEW o \in Observations, Observe(m, o)
  PROVE  EvidenceInv'
<1>1. /\ capacityPending' = [capacityPending EXCEPT ![m] = Merged(capacityPending[m], o)]
      /\ want' = [want EXCEPT ![m] = Merged(want[m], o)]
      /\ UNCHANGED <<cache, batch, learner, app>> /\ app \in {"starting", "running"}
  BY DEF Observe, Coalesced, capacityWorker, Live
<1>2. o \in Told
  BY WorkersAssumption DEF Told
<1>3. /\ cache[m] \in Evidence /\ batch[m] \in Evidence
      /\ capacityPending[m] \in Evidence /\ want[m] \in Evidence
  BY DEF EvidenceInv, EvidenceTyped
<1>4. EvidenceTyped'
  <2>1. Merged(capacityPending[m], o) \in Evidence /\ Merged(want[m], o) \in Evidence
    BY <1>2, <1>3, MergedTyped
  <2> QED
    BY <1>1, <2>1 DEF EvidenceInv, EvidenceTyped
<1>5. HeldOK'
  BY <1>1 DEF EvidenceInv, HeldOK
<1>6. EvidenceKept'
  <2>1. Merged(cache[m], batch[m]) \in Evidence
    BY <1>3, EvidenceTold, MergedTyped
  <2>2. Merged(Merged(cache[m], batch[m]), Merged(capacityPending[m], o)) =
          Merged(Merged(Merged(cache[m], batch[m]), capacityPending[m]), o)
    BY <1>2, <1>3, <2>1, MergesAssociate
  <2>3. Merged(Merged(cache[m], batch[m]), capacityPending[m]) = want[m]
    BY DEF EvidenceInv, EvidenceKept
  <2>4. capacityPending'[m] = Merged(capacityPending[m], o) /\ want'[m] = Merged(want[m], o)
    BY <1>1 DEF EvidenceInv, EvidenceTyped
  <2>5. \A n \in Models \ {m} : capacityPending'[n] = capacityPending[n] /\ want'[n] = want[n]
    BY <1>1 DEF EvidenceInv, EvidenceTyped
  <2>6. ASSUME NEW n \in Models
        PROVE  Merged(Merged(cache'[n], batch'[n]), capacityPending'[n]) = want'[n]
    <3>1. CASE n = m
      BY <1>1, <2>2, <2>3, <2>4, <3>1
    <3>2. CASE n # m
      BY <1>1, <2>5, <3>2 DEF EvidenceInv, EvidenceKept
    <3> QED
      BY <3>1, <3>2
  <2> QED
    BY <2>6 DEF EvidenceKept
<1> QED
  BY <1>4, <1>5, <1>6 DEF EvidenceInv

\* Take: the worker holds what was queued.
LEMMA TakeKeeps ==
  ASSUME EvidenceInv, Take
  PROVE  EvidenceInv'
<1>1. /\ learner = "wait" /\ learner' = "apply"
      /\ batch' = capacityPending /\ capacityPending' = [m \in Models |-> Nothing]
      /\ UNCHANGED <<cache, app, want>>
  BY DEF Take
<1>2. EvidenceTyped'
  BY <1>1, NothingMerged DEF EvidenceInv, EvidenceTyped
<1>3. HeldOK'
  BY <1>1 DEF EvidenceInv, HeldOK
<1>4. ASSUME NEW m \in Models
      PROVE  Merged(Merged(cache'[m], batch'[m]), capacityPending'[m]) = want'[m]
  <2>1. cache[m] \in Evidence /\ capacityPending[m] \in Evidence /\ batch[m] = Nothing
    BY <1>1 DEF EvidenceInv, EvidenceTyped, HeldOK
  <2>2. Merged(cache[m], capacityPending[m]) \in Evidence
    BY <2>1, EvidenceTold, MergedTyped
  <2>3. Merged(Merged(cache[m], capacityPending[m]), Nothing) = Merged(cache[m], capacityPending[m])
    BY <2>2, NothingMerged
  <2>4. Merged(cache[m], batch[m]) = cache[m]
    BY <2>1, NothingMerged
  <2>5. Merged(cache[m], capacityPending[m]) = want[m]
    BY <2>4 DEF EvidenceInv, EvidenceKept
  <2> QED
    BY <1>1, <2>3, <2>5
<1> QED
  BY <1>2, <1>3, <1>4 DEF EvidenceInv, EvidenceKept

\* What the worker held of m is in the cache, or given up with what was wanted.
LEMMA HeldGoes ==
  ASSUME EvidenceInv, NEW m \in Models, learner = "apply", UNCHANGED <<learner, app, capacityPending>>,
         batch' = [batch EXCEPT ![m] = Nothing],
         \/ /\ cache' = [cache EXCEPT ![m] = Merged(cache[m], batch[m])] /\ want' = want
         \/ /\ cache' = cache
            /\ want' = [want EXCEPT ![m] = Merged(cache[m], capacityPending[m])]
  PROVE  EvidenceInv'
<1>1. /\ cache[m] \in Evidence /\ batch[m] \in Evidence /\ capacityPending[m] \in Evidence
  BY DEF EvidenceInv, EvidenceTyped
<1>2. Merged(cache[m], batch[m]) \in Evidence /\ Merged(cache[m], capacityPending[m]) \in Evidence
  BY <1>1, EvidenceTold, MergedTyped
<1>3. EvidenceTyped'
  BY <1>2, NothingMerged DEF EvidenceInv, EvidenceTyped
<1>4. HeldOK'
  BY DEF EvidenceInv, HeldOK
<1>5. batch'[m] = Nothing /\ \A n \in Models \ {m} : batch'[n] = batch[n]
  BY DEF EvidenceInv, EvidenceTyped
<1>6. ASSUME NEW n \in Models
      PROVE  Merged(Merged(cache'[n], batch'[n]), capacityPending'[n]) = want'[n]
  <2>1. Merged(Merged(cache[n], batch[n]), capacityPending[n]) = want[n]
    BY DEF EvidenceInv, EvidenceKept
  <2>2. CASE n # m
    <3>1. cache'[n] = cache[n] /\ want'[n] = want[n]
      BY <2>2 DEF EvidenceInv, EvidenceTyped
    <3> QED
      BY <1>5, <2>1, <2>2, <3>1
  <2>3. CASE n = m /\ cache' = [cache EXCEPT ![m] = Merged(cache[m], batch[m])] /\ want' = want
    <3>1. cache'[m] = Merged(cache[m], batch[m])
      BY <2>3 DEF EvidenceInv, EvidenceTyped
    <3>2. Merged(cache'[m], Nothing) = cache'[m]
      BY <1>2, <3>1, NothingMerged
    <3> QED
      BY <1>5, <2>1, <2>3, <3>1, <3>2
  <2>4. CASE n = m /\ cache' = cache /\ want' = [want EXCEPT ![m] = Merged(cache[m], capacityPending[m])]
    <3>1. Merged(cache[m], Nothing) = cache[m]
      BY <1>1, NothingMerged
    <3>2. want'[m] = Merged(cache[m], capacityPending[m])
      BY <2>4 DEF EvidenceInv, EvidenceTyped
    <3> QED
      BY <1>5, <2>4, <3>1, <3>2
  <2> QED
    BY <2>2, <2>3, <2>4
<1> QED
  BY <1>3, <1>4, <1>6 DEF EvidenceInv, EvidenceKept

\* The queues are emptied, and what they held is no longer wanted or was nothing.
LEMMA QueuesGo ==
  ASSUME EvidenceInv, NEW worker \in {"wait", "off"}, EmptyQueues(worker), UNCHANGED cache,
         want' = cache \/ (app = "stopped" /\ want' = want), app' = "stopped" => worker = "off"
  PROVE  EvidenceInv'
<1>1. /\ capacityPending' = [m \in Models |-> Nothing] /\ batch' = [m \in Models |-> Nothing]
      /\ learner' = worker
  BY DEF EmptyQueues
<1>2. EvidenceTyped'
  BY <1>1, NothingMerged DEF EvidenceInv, EvidenceTyped
<1>3. HeldOK'
  BY <1>1 DEF HeldOK
<1>4. ASSUME NEW m \in Models
      PROVE  Merged(Merged(cache'[m], batch'[m]), capacityPending'[m]) = want'[m]
  <2>1. cache[m] \in Evidence
    BY DEF EvidenceInv, EvidenceTyped
  <2>2. Merged(Merged(cache[m], Nothing), Nothing) = cache[m]
    BY <2>1, NothingMerged
  <2>3. want'[m] = cache[m]
    <3>1. CASE want' = cache
      BY <3>1
    <3>2. CASE app = "stopped" /\ want' = want
      <4>1. batch[m] = Nothing /\ capacityPending[m] = Nothing
        BY <3>2 DEF EvidenceInv, HeldOK
      <4>2. Merged(Merged(cache[m], batch[m]), capacityPending[m]) = want[m]
        BY DEF EvidenceInv, EvidenceKept
      <4> QED
        BY <2>2, <3>2, <4>1, <4>2
    <3> QED
      BY <3>1, <3>2
  <2> QED
    BY <1>1, <2>2, <2>3
<1> QED
  BY <1>2, <1>3, <1>4 DEF EvidenceInv, EvidenceKept

\* Forget: an entry that expires takes with it what was wanted of it.
LEMMA ForgetKeeps ==
  ASSUME EvidenceInv, NEW m \in Models, Forget(m)
  PROVE  EvidenceInv'
<1>1. /\ app = "stopped" /\ cache' = [cache EXCEPT ![m] = Nothing] /\ want' = [want EXCEPT ![m] = Nothing]
      /\ UNCHANGED <<batch, capacityPending, learner, app>>
  BY DEF Forget, capacityQueue, capacityWorker
<1>2. EvidenceTyped'
  BY <1>1, NothingMerged DEF EvidenceInv, EvidenceTyped
<1>3. HeldOK'
  BY <1>1 DEF EvidenceInv, HeldOK
<1>4. ASSUME NEW n \in Models
      PROVE  Merged(Merged(cache'[n], batch'[n]), capacityPending'[n]) = want'[n]
  <2>1. CASE n = m
    <3>1. batch[m] = Nothing /\ capacityPending[m] = Nothing
      BY <1>1 DEF EvidenceInv, HeldOK
    <3>2. cache'[m] = Nothing /\ want'[m] = Nothing
      BY <1>1 DEF EvidenceInv, EvidenceTyped
    <3>3. Merged(Merged(Nothing, Nothing), Nothing) = Nothing
      BY NothingMerged
    <3> QED
      BY <1>1, <2>1, <3>1, <3>2, <3>3
  <2>2. CASE n # m
    <3>1. cache'[n] = cache[n] /\ want'[n] = want[n]
      BY <1>1, <2>2 DEF EvidenceInv, EvidenceTyped
    <3> QED
      BY <1>1, <3>1 DEF EvidenceInv, EvidenceKept
  <2> QED
    BY <2>1, <2>2
<1> QED
  BY <1>2, <1>3, <1>4 DEF EvidenceInv, EvidenceKept

\* A step that leaves the evidence alone, with the worker where it was or empty
\* at its place, and no start or stop that ends.
LEMMA EvidenceLeft ==
  ASSUME EvidenceInv, UNCHANGED <<cache, batch, capacityPending, want>>,
         learner' = learner \/ (\A m \in Models : batch[m] = Nothing),
         \/ app' = app /\ (learner' = learner \/ app # "stopped")
         \/ app' # "stopped" /\ learner' = learner
  PROVE  EvidenceInv'
<1>1. EvidenceTyped' /\ EvidenceKept'
  BY DEF EvidenceInv, EvidenceTyped, EvidenceKept
<1>2. HeldOK'
  BY DEF EvidenceInv, HeldOK
<1> QED
  BY <1>1, <1>2 DEF EvidenceInv

\* At the start nothing was observed.
LEMMA EvidenceInit == Init => EvidenceInv
<1> SUFFICES ASSUME Init PROVE EvidenceInv
  OBVIOUS
<1>1. /\ cache = [m \in Models |-> Nothing] /\ capacityPending = cache /\ batch = cache /\ want = cache
      /\ learner = "off" /\ app = "stopped"
  BY DEF Init
<1>2. Merged(Merged(Nothing, Nothing), Nothing) = Nothing
  BY NothingMerged
<1> QED
  BY <1>1, <1>2, NothingMerged DEF EvidenceInv, EvidenceTyped, HeldOK, EvidenceKept

\* Every step keeps the evidence.
LEMMA EvidenceStep == EvidenceInv /\ [Next]_vars => EvidenceInv'
<1> SUFFICES ASSUME EvidenceInv, [Next]_vars PROVE EvidenceInv'
  OBVIOUS
<1>1. CASE CapacityWorks
  <2>1. CASE PostCapacity
    BY <2>1, EvidenceLeft DEF PostCapacity, capacityWorker
  <2>2. CASE Take
    BY <2>2, TakeKeeps
  <2>3. CASE BatchEnds
    <3>1. app # "stopped"
      BY <2>3 DEF BatchEnds, EvidenceInv, HeldOK
    <3> QED
      BY <2>3, <3>1, EvidenceLeft DEF BatchEnds, capacityQueue
  <2>4. ASSUME NEW m \in Models, Apply(m)
        PROVE  EvidenceInv'
    <3>1. /\ batch' = [batch EXCEPT ![m] = Nothing] /\ learner = "apply"
          /\ cache' = [cache EXCEPT ![m] = Merged(cache[m], batch[m])]
          /\ UNCHANGED <<capacityPending, learner, app, want>>
      BY <2>4 DEF Apply, Applying, Drop, capacityQueue
    <3> QED
      BY <3>1, HeldGoes
  <2> QED
    BY <1>1, <2>1, <2>2, <2>3, <2>4 DEF CapacityWorks
<1>2. CASE RefreshStep
  BY <1>2, EvidenceLeft DEF RefreshStep, capacityQueue, capacityWorker
<1>3. CASE Leaving
  <2>1. CASE LearnerLeaves
    <3>1. \A m \in Models : batch[m] = Nothing
      BY <2>1 DEF LearnerLeaves, EvidenceInv, HeldOK
    <3> QED
      BY <2>1, <3>1, EvidenceLeft DEF LearnerLeaves, capacityQueue
  <2>2. CASE ~LearnerLeaves
    BY <1>3, <2>2, EvidenceLeft DEF Leaving, capacityQueue, capacityWorker
  <2> QED
    BY <2>1, <2>2
<1>4. CASE StartRefreshes
  BY <1>4, EvidenceLeft DEF StartRefreshes, capacityQueue, capacityWorker
<1>5. CASE StopRestores
  BY <1>5, QueuesGo DEF StopRestores
<1>6. CASE StopFails
  BY <1>6, QueuesGo DEF StopFails, StartWorkers
<1>7. CASE World
  <2>1. ASSUME NEW m \in Models, Edit(m)
        PROVE  EvidenceInv'
    BY <2>1, EvidenceLeft DEF Edit, capacityQueue, capacityWorker
  <2>2. ASSUME NEW m \in Models, Forget(m)
        PROVE  EvidenceInv'
    BY <2>2, ForgetKeeps
  <2>3. ASSUME NEW m \in Models, ObserveFails(m)
        PROVE  EvidenceInv'
    <3>1. /\ batch' = [batch EXCEPT ![m] = Nothing] /\ learner = "apply"
          /\ want' = [want EXCEPT ![m] = Merged(cache[m], capacityPending[m])]
          /\ UNCHANGED <<cache, capacityPending, learner, app>>
      BY <2>3 DEF ObserveFails, Applying, Drop, capacityQueue
    <3> QED
      BY <3>1, HeldGoes
  <2>4. ASSUME NEW m \in Models, NEW o \in Observations, Observe(m, o)
        PROVE  EvidenceInv'
    BY <2>4, ObserveKeeps
  <2>5. CASE Start
    BY <2>5, QueuesGo DEF Start, StartWorkers
  <2>6. CASE Stop
    BY <2>6, EvidenceLeft DEF Stop, capacityQueue, capacityWorker
  <2>7. CASE UNCHANGED <<projection, cache, capacityQueue, capacityWorker, app, observed, want, failed>>
    BY <2>7, EvidenceLeft DEF capacityQueue, capacityWorker
  <2> QED
    BY <1>7, <2>1, <2>2, <2>3, <2>4, <2>5, <2>6, <2>7 DEF World
<1>8. CASE UNCHANGED vars
  BY <1>8, EvidenceLeft DEF vars, capacityQueue, capacityWorker
<1> QED
  BY <1>1, <1>2, <1>3, <1>4, <1>5, <1>6, <1>7, <1>8 DEF Next

\* What is queued, held and cached amounts to every observation, one by one,
\* whatever is merged on the way (queueCapacityObservation, runCapacityWorker).
THEOREM NoEvidenceLost == Spec => []EvidenceKept
<1>1. EvidenceInv => EvidenceKept
  BY DEF EvidenceInv
<1> QED
  BY <1>1, EvidenceInit, EvidenceStep, PTL DEF Spec

-----------------------------------------------------------------------------
(* The sessions.                                                           *)

\* A step that leaves the sessions, their worker and its queue alone, and starts
\* or ends no start.
LEMMA SessionsLeft ==
  ASSUME SessionsInv, UNCHANGED refreshVars, app' = app \/ app' \in {"stopping", "stopped"}
  PROVE  SessionsInv'
<1>1. SessionsTyped'
  BY DEF SessionsInv, SessionsTyped, refreshVars, refreshQueue, refreshWorker
<1>2. StartQuiet' /\ FreshRoster'
  BY DEF SessionsInv, StartQuiet, FreshRoster, refreshVars, refreshQueue, refreshWorker
<1>3. Lagging'
  BY DEF SessionsInv, Lagging, StillToTell, refreshVars, refreshQueue, refreshWorker
<1> QED
  BY <1>1, <1>2, <1>3 DEF SessionsInv

\* What is queued anew is taken up in full (Wake, Renewed): whoever lags is told
\* after the delay.
LEMMA TakenUp ==
  ASSUME SessionsInv, refreshSignal, refresher \in {"wait", "delay"}, app' = app,
         IF refreshPending THEN Takes ELSE UNCHANGED <<refreshPending, refresher, attempt>>,
         UNCHANGED <<catalog, sees, active, roster, gaveUp>>
  PROVE  SessionsInv'
<1>1. app # "starting"
  BY DEF SessionsInv, StartQuiet
<1>2. SessionsTyped'
  BY DEF SessionsInv, SessionsTyped, Takes
<1>3. StartQuiet'
  BY <1>1 DEF StartQuiet
<1>4. FreshRoster'
  BY DEF FreshRoster, Takes
<1>5. Lagging'
  BY DEF SessionsInv, Lagging, StillToTell, Takes
<1> QED
  BY <1>2, <1>3, <1>4, <1>5 DEF SessionsInv

\* A refresh returns: what it did not skip and did not fail for works with the
\* configuration it loaded, which is the present one or asked for again.
LEMMA ToldOnReturn ==
  ASSUME SessionsInv, Refreshed, app' = app
  PROVE  SessionsInv'
<1> USE DEF Refreshed, Selected, refreshQueue
<1>1. PICK failing \in SUBSET Sessions : Selected(failing)
  OBVIOUS
<1>2. SessionsTyped'
  BY <1>1 DEF SessionsInv, SessionsTyped
<1>3. StartQuiet' /\ FreshRoster'
  BY DEF SessionsInv, StartQuiet, FreshRoster
<1>4. ASSUME app' = "running", NEW s \in Sessions \ gaveUp', ~refreshPending', s \notin roster'.skipped
      PROVE  sees'[s] = catalog'
  <2>1. s \notin failing /\ s \notin roster.skipped
    BY <1>1, <1>4
  <2>2. roster.catalog = catalog
    BY <1>4 DEF SessionsInv, FreshRoster
  <2> QED
    BY <1>1, <1>4, <2>1, <2>2
<1>5. Lagging'
  BY <1>4 DEF Lagging, StillToTell
<1> QED
  BY <1>2, <1>3, <1>5 DEF SessionsInv

\* The attempt after which the worker rests leaves nobody out but whom it gives up.
LEMMA GivenUpAtRest ==
  ASSUME SessionsInv, NEW cancelled \in BOOLEAN, Record(cancelled), app' = app
  PROVE  SessionsInv'
<1>1. SessionsTyped'
  BY DEF SessionsInv, SessionsTyped, Record, Takes, NoRoster
<1>2. StartQuiet' /\ FreshRoster'
  BY DEF SessionsInv, StartQuiet, FreshRoster, Record, Takes
<1>3. CASE refresher' = "delay"
  BY <1>1, <1>2, <1>3 DEF SessionsInv, Lagging, StillToTell
<1>4. CASE refresher' # "delay"
  <2>1. /\ refresher = "record" /\ ~refreshPending /\ gaveUp' = gaveUp \cup roster.skipped
        /\ UNCHANGED <<catalog, sees>>
    BY <1>4 DEF Record, Takes
  <2>2. Lagging'
    BY <2>1 DEF SessionsInv, Lagging, StillToTell
  <2> QED
    BY <1>1, <1>2, <2>2 DEF SessionsInv
<1> QED
  BY <1>1, <1>2, <1>3, <1>4 DEF SessionsInv

\* The worker's own steps keep what is owed to the sessions.
LEMMA RefreshKeeps ==
  ASSUME SessionsInv, RefreshStep
  PROVE  SessionsInv'
<1>1. app' = app /\ RefreshWorks(app = "stopping")
  BY DEF RefreshStep
<1>2. CASE PostRefresh
  <2>1. app # "starting"
    BY <1>2 DEF PostRefresh, SessionsInv, StartQuiet
  <2>2. SessionsTyped'
    BY <1>2 DEF PostRefresh, SessionsInv, SessionsTyped, refreshWorker
  <2>3. StartQuiet' /\ FreshRoster'
    BY <1>1, <1>2, <2>1 DEF PostRefresh, SessionsInv, StartQuiet, FreshRoster, refreshWorker
  <2>4. Lagging'
    BY <1>1, <1>2 DEF PostRefresh, SessionsInv, Lagging, StillToTell, refreshWorker
  <2> QED
    BY <2>2, <2>3, <2>4 DEF SessionsInv
<1>3. CASE Wake
  BY <1>1, <1>3, TakenUp DEF Wake
<1>4. CASE Renewed
  BY <1>1, <1>4, TakenUp DEF Renewed
<1>5. CASE DelayEnds
  <2>1. SessionsTyped'
    BY <1>5 DEF DelayEnds, Found, SessionsInv, SessionsTyped, refreshQueue
  <2>2. StartQuiet' /\ FreshRoster'
    BY <1>1, <1>5 DEF DelayEnds, Found, SessionsInv, StartQuiet, FreshRoster, refreshQueue
  <2>3. Lagging'
    BY <1>5 DEF DelayEnds, Lagging, StillToTell
  <2> QED
    BY <2>1, <2>2, <2>3 DEF SessionsInv
<1>6. CASE Refreshed
  BY <1>1, <1>6, ToldOnReturn
<1>7. CASE Unreachable
  <2>1. SessionsTyped'
    BY <1>7 DEF Unreachable, SessionsInv, SessionsTyped, refreshQueue
  <2>2. StartQuiet' /\ FreshRoster'
    BY <1>1, <1>7 DEF Unreachable, SessionsInv, StartQuiet, FreshRoster, refreshQueue
  <2>3. Lagging'
    BY <1>7 DEF Unreachable, Lagging
  <2> QED
    BY <2>1, <2>2, <2>3 DEF SessionsInv
<1>8. CASE Record(app = "stopping")
  BY <1>1, <1>8, GivenUpAtRest
<1> QED
  BY <1>1, <1>2, <1>3, <1>4, <1>5, <1>6, <1>7, <1>8 DEF RefreshWorks

\* An update of the running proxy changes the configuration and asks for a
\* refresh in one step under App.mu.
LEMMA UpdateAsks ==
  ASSUME SessionsInv, NEW m \in Models, Apply(m)
  PROVE  SessionsInv'
<1>1. app' = app /\ app # "starting"
  BY DEF Apply, Applying
<1>2. CASE UNCHANGED refreshVars
  BY <1>1, <1>2, SessionsLeft
<1>3. CASE ~UNCHANGED refreshVars
  <2>1. /\ catalog' = catalog + 1
        /\ IF app = "running" THEN QueueRefresh ELSE UNCHANGED <<refreshPending, refreshPosting>>
        /\ UNCHANGED <<sees, active, refreshSignal, refreshWorker, gaveUp>>
    BY <1>3 DEF Apply, Update
  <2>2. SessionsTyped'
    <3>1. SessionsTyped /\ catalog' \in Nat
      BY <2>1 DEF SessionsInv, SessionsTyped
    <3>2. refreshPending' \in BOOLEAN
      BY <2>1, <3>1 DEF QueueRefresh, SessionsTyped
    <3> QED
      BY <2>1, <3>1, <3>2 DEF SessionsTyped, refreshWorker
  <2>3. StartQuiet' /\ FreshRoster' /\ Lagging'
    BY <1>1, <2>1 DEF QueueRefresh, StartQuiet, FreshRoster, Lagging, StillToTell
  <2> QED
    BY <2>2, <2>3 DEF SessionsInv
<1> QED
  BY <1>2, <1>3

\* A start tells every idle session at once and asks for the others.
LEMMA StartTells ==
  ASSUME SessionsInv, StartRefreshes
  PROVE  SessionsInv'
<1>1. PICK failing \in SUBSET (Sessions \ active) :
        /\ sees' = [s \in Sessions |-> IF s \in active \cup failing THEN sees[s] ELSE catalog]
        /\ gaveUp' = failing
  BY DEF StartRefreshes
<1>2. /\ app = "starting" /\ app' = "running"
      /\ IF active # {} THEN QueueRefresh ELSE UNCHANGED <<refreshPending, refreshPosting>>
      /\ UNCHANGED <<catalog, active, refreshSignal, refreshWorker>>
  BY DEF StartRefreshes
<1>3. refresher' = "wait"
  BY <1>2 DEF SessionsInv, StartQuiet, refreshWorker
<1>4. SessionsTyped'
  BY <1>1, <1>2 DEF QueueRefresh, SessionsInv, SessionsTyped, refreshWorker
<1>5. StartQuiet' /\ FreshRoster'
  BY <1>2, <1>3 DEF StartQuiet, FreshRoster
<1>6. CASE active # {}
  BY <1>2, <1>4, <1>5, <1>6 DEF QueueRefresh, SessionsInv, Lagging, StillToTell
<1>7. CASE active = {}
  <2>1. \A s \in Sessions \ gaveUp' : sees'[s] = catalog'
    BY <1>1, <1>2, <1>7
  <2> QED
    BY <1>4, <1>5, <2>1 DEF SessionsInv, Lagging
<1> QED
  BY <1>6, <1>7

\* Before the first start there is nothing to tell.
LEMMA SessionsInit == Init => SessionsInv
<1> SUFFICES ASSUME Init PROVE SessionsInv
  OBVIOUS
<1>1. SessionsTyped
  BY DEF Init, RefreshInit, NoRoster, SessionsTyped
<1>2. app = "stopped"
  BY DEF Init
<1> QED
  BY <1>1, <1>2 DEF SessionsInv, StartQuiet, FreshRoster, Lagging

\* Every step keeps what is owed to the sessions.
LEMMA SessionsStep == SessionsInv /\ [Next]_vars => SessionsInv'
<1> SUFFICES ASSUME SessionsInv, [Next]_vars PROVE SessionsInv'
  OBVIOUS
<1>1. CASE CapacityWorks
  <2>1. ASSUME NEW m \in Models, Apply(m)
        PROVE  SessionsInv'
    BY <2>1, UpdateAsks
  <2>2. CASE PostCapacity \/ Take \/ BatchEnds
    BY <2>2, SessionsLeft DEF PostCapacity, Take, BatchEnds
  <2> QED
    BY <1>1, <2>1, <2>2 DEF CapacityWorks
<1>2. CASE RefreshStep
  BY <1>2, RefreshKeeps
<1>3. CASE Leaving
  <2>1. CASE LearnerLeaves
    BY <2>1, SessionsLeft DEF LearnerLeaves
  <2>2. CASE ~LearnerLeaves
    <3>1. app = "stopping" /\ app' = app /\ RefresherLeaves
      BY <1>3, <2>2 DEF Leaving
    <3>2. SessionsTyped'
      BY <3>1 DEF RefresherLeaves, SessionsInv, SessionsTyped, refreshQueue
    <3> QED
      BY <3>1, <3>2 DEF SessionsInv, StartQuiet, FreshRoster, Lagging
  <2> QED
    BY <2>1, <2>2
<1>4. CASE StartRefreshes
  BY <1>4, StartTells
<1>5. CASE StopRestores
  <2>1. /\ catalog' = catalog + 1 /\ refreshPending' = FALSE /\ roster' = NoRoster
        /\ sees' = [s \in Sessions |-> IF s \in active THEN sees[s] ELSE catalog']
        /\ UNCHANGED <<active, gaveUp>>
    BY <1>5 DEF StopRestores, EmptyQueues
  <2>2. SessionsTyped'
    <3>1. catalog' \in Nat
      BY <2>1 DEF SessionsInv, SessionsTyped
    <3>2. sees' \in [Sessions -> Nat]
      BY <2>1, <3>1 DEF SessionsInv, SessionsTyped
    <3> QED
      BY <2>1, <3>1, <3>2 DEF NoRoster, SessionsInv, SessionsTyped
  <2> QED
    BY <1>5, <2>2 DEF StopRestores, SessionsInv, StartQuiet, FreshRoster, Lagging
<1>6. CASE StopFails
  <2>1. /\ app' = "running" /\ refresher' = "wait" /\ refreshPending' = FALSE /\ roster' = NoRoster
        /\ gaveUp' = {s \in Sessions : sees[s] # catalog} \cup gaveUp
        /\ UNCHANGED <<catalog, sees, active>>
    BY <1>6 DEF StopFails, StartWorkers, EmptyQueues
  <2>2. SessionsTyped'
    BY <2>1 DEF NoRoster, SessionsInv, SessionsTyped
  <2> QED
    BY <2>1, <2>2 DEF SessionsInv, StartQuiet, FreshRoster, Lagging
<1>7. CASE World
  <2>1. CASE Start
    <3>1. /\ app' = "starting" /\ catalog' = catalog + 1
          /\ UNCHANGED <<sees, active, gaveUp>>
      BY <2>1 DEF Start
    <3>2. /\ refreshPending' = FALSE /\ refreshSignal' = FALSE /\ refreshPosting' = FALSE
          /\ refresher' = "wait" /\ roster' = NoRoster
      BY <2>1 DEF Start, StartWorkers, EmptyQueues
    <3>3. catalog' \in Nat
      BY <3>1 DEF SessionsInv, SessionsTyped
    <3>4. SessionsTyped'
      BY <3>1, <3>2, <3>3 DEF NoRoster, SessionsInv, SessionsTyped
    <3> QED
      BY <3>1, <3>2, <3>4 DEF SessionsInv, StartQuiet, FreshRoster, Lagging
  <2>2. CASE Stop
    BY <2>2, SessionsLeft DEF Stop
  <2>3. ASSUME NEW m \in Models, Edit(m) \/ Forget(m) \/ ObserveFails(m)
        PROVE  SessionsInv'
    BY <2>3, SessionsLeft DEF Edit, Forget, ObserveFails
  <2>4. ASSUME NEW m \in Models, NEW o \in Observations, Observe(m, o)
        PROVE  SessionsInv'
    BY <2>4, SessionsLeft DEF Observe
  <2>5. ASSUME NEW s \in Sessions, Turn(s), app' = app
        PROVE  SessionsInv'
    <3>1. SessionsTyped'
      BY <2>5 DEF Turn, SessionsInv, SessionsTyped, refreshQueue, refreshWorker
    <3>2. StartQuiet' /\ FreshRoster' /\ Lagging'
      BY <2>5 DEF Turn, SessionsInv, StartQuiet, FreshRoster, Lagging, StillToTell,
                  refreshQueue, refreshWorker
    <3> QED
      BY <3>1, <3>2 DEF SessionsInv
  <2> QED
    BY <1>7, <2>1, <2>2, <2>3, <2>4, <2>5 DEF World
<1>8. CASE UNCHANGED vars
  BY <1>8, SessionsLeft DEF vars
<1> QED
  BY <1>1, <1>2, <1>3, <1>4, <1>5, <1>6, <1>7, <1>8 DEF Next

\* When the refresh worker rests, every session that it did not give up works
\* with the present configuration (runGrokRefreshWorker, queueGrokRefresh).
THEOREM SessionsTold == Spec => []SessionsCatchUp
<1>1. SessionsInv => SessionsCatchUp
  BY DEF SessionsInv, Lagging, StillToTell, SessionsCatchUp, Resting
<1> QED
  BY <1>1, SessionsInit, SessionsStep, PTL DEF Spec

-----------------------------------------------------------------------------
(* The room that is left in a window.                                      *)

\* What the user may configure for a model, and what is projected.
Own == [window : Nat, output : Nat, threshold : 0..100]
Ours == [window : Nat, threshold : Nat]

\* The values in config.toml.
ProjectionTyped ==
  /\ config \in [Models -> Own] /\ route \in [Models -> Own]
  /\ managed \in [Models -> Ours] /\ written = managed

\* A model nobody edited is configured as it was at the start, and a window of
\* ours stands for one a response told.
Configured(m) ==
  /\ config[m] = route[m]
  /\ config[m].window = 0 /\ managed[m].window > 0 => cache[m].windowSource = FromResponse

RoomInv ==
  /\ ProjectionTyped
  /\ app # "stopped" =>
       \A m \in Models \ edited : Configured(m) /\ (m \notin failed => Agrees(m))

\* What is left of a window once the share that is safe is taken (Calculate).
LEMMA SafeShare ==
  ASSUME NEW window \in Nat, NEW output \in Nat, Ready(window, output), NEW t \in Nat,
         t <= Safe(window, output)
  PROVE  t * window <= 100 * Left(window, output)
<1> DEFINE whole == 100 * Left(window, output)
           share == whole \div window
<1>1. window > 0 /\ Left(window, output) \in Int /\ Left(window, output) > 0
  BY DEF Ready, Known, Left, Margin, LeastMargin
<1>2. whole \in Nat /\ window \in Nat /\ window > 0
  BY <1>1
<1> HIDE DEF whole
<1>3. share \in Nat /\ share * window <= whole
  BY <1>2
<1>4. t <= share
  BY DEF Safe, whole
<1> HIDE DEF share
<1>5. t * window <= share * window
  BY <1>2, <1>3, <1>4
<1> QED
  BY <1>2, <1>3, <1>5 DEF whole

\* A share that is ready is a number (Calculate).
LEMMA SafeTyped ==
  ASSUME NEW window \in Nat, NEW output \in Nat, Ready(window, output)
  PROVE  Safe(window, output) \in Nat
<1> DEFINE whole == 100 * Left(window, output)
<1>1. window > 0 /\ whole \in Nat
  BY DEF Ready, Known, Left, Margin, LeastMargin
<1> HIDE DEF whole
<1>2. whole \div window \in Nat
  BY <1>1
<1> QED
  BY <1>2 DEF Safe, whole

\* The values computed for a model are values (budgetForRoute).
LEMMA ManagedTyped ==
  ASSUME NEW s \in Own, NEW c \in Evidence, NEW now \in Ours
  PROVE  Managed(s, c, now) \in Ours
<1>1. /\ s.window \in Nat /\ s.output \in Nat /\ s.threshold \in Nat
      /\ now.window \in Nat /\ now.threshold \in Nat /\ c.window \in Nat /\ c.output \in Nat
  BY DEF Evidence, Own, Ours
<1>2. Projected(s, c, now.window) \in Nat
  BY <1>1 DEF Projected
<1>3. Prefer(s.window, c.window) \in Nat /\ Prefer(s.output, c.output) \in Nat
  BY <1>1 DEF Prefer
<1>4. Needed(s, c, now.threshold) \in Nat
  BY <1>1, <1>3, SafeTyped DEF Needed
<1> QED
  BY <1>2, <1>4 DEF Managed, Ours

\* The values computed for a model leave room, and show the window that is known
\* (budgetForRoute, Start, applyCapacityObservation).
LEMMA ManagedLeavesRoom ==
  ASSUME NEW s \in Own, NEW c \in Evidence,
         NEW now \in Ours,
         s.window = 0 /\ now.window > 0 => c.windowSource = FromResponse
  PROVE  LET n == Managed(s, c, now)
             window == Prefer(s.window, n.window)
             output == Prefer(s.output, c.output)
             threshold == Prefer(n.threshold, s.threshold) IN
         /\ n \in Ours
         /\ s.window = 0 /\ n.window > 0 => c.windowSource = FromResponse
         /\ s.window = 0 /\ c.windowSource = FromResponse => n.window = c.window
         /\ Ready(window, output) => threshold * window <= 100 * (window - output - Margin(window))
<1> DEFINE n == Managed(s, c, now)
           window == Prefer(s.window, n.window)
           output == Prefer(s.output, c.output)
           threshold == Prefer(n.threshold, s.threshold)
           known == Prefer(s.window, c.window)
<1>1. /\ s.window \in Nat /\ s.output \in Nat /\ s.threshold \in 0..100
      /\ now.window \in Nat /\ now.threshold \in Nat
      /\ c.window \in Nat /\ c.output \in Nat /\ c.windowSource \in 0..2
      /\ c.window = 0 <=> c.windowSource = 0
  BY DEF Evidence, Own, Ours
<1>2. /\ n.window = Projected(s, c, now.window) /\ n.threshold = Needed(s, c, now.threshold)
      /\ n = [window |-> n.window, threshold |-> n.threshold]
  BY DEF Managed
<1> HIDE DEF n
<1>4. known \in Nat /\ output \in Nat
  BY <1>1 DEF Prefer
<1>5. Ready(known, output) => Safe(known, output) \in Nat /\ Safe(known, output) > 0
  BY <1>4, SafeTyped DEF Ready
<1>6. n.threshold = IF ~Ready(known, output) THEN now.threshold
                    ELSE IF s.threshold > Safe(known, output) THEN Safe(known, output)
                    ELSE IF now.threshold = 0 THEN 0 ELSE s.threshold
  BY <1>2 DEF Needed
<1>7. n \in Ours /\ n.threshold \in Nat
  <2>1. Managed(s, c, now) \in Ours
    BY ManagedTyped
  <2> QED
    BY <2>1 DEF n, Ours
<1>9. s.window = 0 /\ c.windowSource = FromResponse => n.window = c.window
  BY <1>1, <1>2 DEF Projected, FromResponse
<1>10. s.window = 0 /\ n.window > 0 => c.windowSource = FromResponse
  BY <1>1, <1>2 DEF Projected, FromResponse
<1>11. ASSUME Ready(window, output)
       PROVE  threshold * window <= 100 * (window - output - Margin(window))
  <2>1. window > 0
    BY <1>11 DEF Ready, Known
  <2>2. window = known
    BY <1>1, <1>9, <1>10, <2>1 DEF Prefer
  <2>3. threshold \in Nat /\ threshold <= Safe(known, output)
    <3>1. Ready(known, output)
      BY <1>11, <2>2
    <3> HIDE DEF known, output
    <3> QED
      BY <1>1, <1>5, <1>6, <1>7, <3>1 DEF Prefer
  <2> HIDE DEF known, output, threshold, window
  <2>4. threshold * known <= 100 * Left(known, output)
    BY <1>4, <1>11, <2>2, <2>3, SafeShare
  <2> QED
    BY <2>2, <2>4 DEF Left
<1> QED
  BY <1>7, <1>9, <1>10, <1>11 DEF n

\* A step that leaves the configuration and the cache alone, and at most adds to
\* what is edited or failed.
LEMMA RoomLeftAlone ==
  ASSUME RoomInv, UNCHANGED <<route, managed, written, cache>>, ProjectionTyped',
         edited \subseteq edited', failed \subseteq failed', app' # "stopped" => app # "stopped",
         \A m \in Models \ edited' : config'[m] = config[m]
  PROVE  RoomInv'
BY DEF RoomInv, Configured, Agrees

\* What an update computes agrees with what was learned.
LEMMA ManagedAgrees ==
  ASSUME NEW m \in Models, cache'[m] \in Evidence,
         config'[m] \in Own,
         NEW now \in Ours,
         config'[m].window = 0 /\ now.window > 0 => cache'[m].windowSource = FromResponse,
         managed'[m] = Managed(config'[m], cache'[m], now), written'[m] = managed'[m],
         config'[m] = route'[m]
  PROVE  /\ Configured(m)' /\ Agrees(m)'
         /\ managed'[m] \in Ours
<1> DEFINE s == config'[m]
           c == cache'[m]
           n == managed'[m]
<1>1. /\ n \in Ours
      /\ s.window = 0 /\ n.window > 0 => c.windowSource = FromResponse
      /\ s.window = 0 /\ c.windowSource = FromResponse => n.window = c.window
      /\ LET window == Prefer(s.window, n.window)
             output == Prefer(s.output, c.output)
             threshold == Prefer(n.threshold, s.threshold) IN
         Ready(window, output) => threshold * window <= 100 * (window - output - Margin(window))
  <2>1. n = Managed(s, c, now)
    OBVIOUS
  <2>2. /\ s \in Own /\ c \in Evidence
        /\ s.window = 0 /\ now.window > 0 => c.windowSource = FromResponse
    OBVIOUS
  <2> HIDE DEF s, c, n
  <2> QED
    BY ONLY <2>1, <2>2, ManagedLeavesRoom, now \in Ours
<1> QED
  BY <1>1 DEF Configured, Agrees

\* A merge never gives a window from a response up (mergeObservedValue).
LEMMA ResponseStays ==
  ASSUME NEW e \in Evidence, NEW o \in Evidence, e.windowSource = FromResponse
  PROVE  Merged(e, o).windowSource = FromResponse
BY DEF Merged, Evidence, Outranks, FromResponse

\* A start computes everything anew (Start).
LEMMA StartLeavesRoom ==
  ASSUME EvidenceTyped, Start
  PROVE  RoomInv'
<1>1. /\ config' \in [Models -> Settings] /\ route' = config' /\ cache' = cache
      /\ managed' = [m \in Models |-> Managed(config'[m], cache[m], Unmanaged)]
      /\ written' = managed'
  BY DEF Start
<1>2. config' \in [Models -> Own]
  BY <1>1, WorkersAssumption DEF Own
<1>3. ASSUME NEW m \in Models
      PROVE  /\ Configured(m)' /\ Agrees(m)'
             /\ managed'[m] \in Ours
  <2>1. /\ Unmanaged \in Ours /\ Unmanaged.window = 0
    BY DEF Unmanaged, Ours
  <2>2. cache'[m] \in Evidence /\ config'[m] \in Own
    BY <1>1, <1>2 DEF EvidenceTyped
  <2>3. /\ managed'[m] = Managed(config'[m], cache'[m], Unmanaged) /\ written'[m] = managed'[m]
        /\ config'[m] = route'[m]
    BY <1>1
  <2> QED
    BY <2>1, <2>2, <2>3, ManagedAgrees
<1>4. ProjectionTyped'
  <2>1. managed' \in [Models -> Ours]
    BY <1>1, <1>3
  <2> QED
    BY <1>1, <1>2, <2>1 DEF ProjectionTyped
<1> QED
  BY <1>3, <1>4 DEF RoomInv

\* An observation that is applied, with the update it may call for
\* (applyCapacityObservation).
LEMMA ApplyLeavesRoom ==
  ASSUME EvidenceInv, RoomInv, NEW m \in Models, Apply(m)
  PROVE  RoomInv'
<1> DEFINE next == Managed(Current(m), cache'[m], managed[m])
<1>1. /\ cache' = [cache EXCEPT ![m] = Merged(cache[m], batch[m])]
      /\ UNCHANGED <<config, edited, route, app>>
  BY DEF Apply, Update, projection
<1>2. /\ app # "stopped" /\ cache'[m] \in Evidence
      /\ cache[m].windowSource = FromResponse => cache'[m].windowSource = FromResponse
      /\ \A o \in Models \ {m} : cache'[o] = cache[o]
  <2>1. cache[m] \in Evidence /\ batch[m] \in Evidence /\ cache'[m] = Merged(cache[m], batch[m])
    BY <1>1 DEF EvidenceInv, EvidenceTyped
  <2>2. batch[m] \in Told
    BY <2>1, EvidenceTold
  <2>3. app # "stopped"
    BY DEF Apply, Applying, EvidenceInv, HeldOK
  <2>4. \A o \in Models \ {m} : cache'[o] = cache[o]
    BY <1>1 DEF EvidenceInv, EvidenceTyped
  <2> QED
    BY <2>1, <2>2, <2>3, <2>4, MergedTyped, ResponseStays
<1>3. /\ config[m] \in Own
      /\ managed[m] \in Ours
  BY DEF RoomInv, ProjectionTyped
<1>4. ASSUME m \notin edited
      PROVE  /\ Current(m) = config[m]
             /\ config[m].window = 0 /\ managed[m].window > 0 => cache'[m].windowSource = FromResponse
  <2>1. Configured(m)
    BY <1>2, <1>4 DEF RoomInv
  <2>2. config[m] = [window |-> config[m].window, output |-> config[m].output,
                     threshold |-> config[m].threshold]
    BY <1>3 DEF Own
  <2>3. Current(m) = config[m]
    BY <2>1, <2>2 DEF Current, Configured
  <2> QED
    BY <1>2, <2>1, <2>3 DEF Configured
<1>5. ASSUME m \notin edited, managed'[m] = next, written'[m] = managed'[m]
      PROVE  Configured(m)' /\ Agrees(m)'
  <2>1. Configured(m)
    BY <1>2, <1>5 DEF RoomInv
  <2>2. managed'[m] = Managed(config'[m], cache'[m], managed[m]) /\ config'[m] = route'[m]
    BY <1>1, <1>4, <1>5, <2>1 DEF Configured
  <2> HIDE DEF next
  <2> QED
    BY <1>1, <1>2, <1>3, <1>4, <1>5, <2>2, ManagedAgrees
<1>6. ASSUME UNCHANGED <<managed, written>>, NEW o \in Models \ edited, o # m
      PROVE  Configured(o)' /\ (Agrees(o) => Agrees(o)')
  BY <1>1, <1>2, <1>6 DEF RoomInv, Configured, Agrees
<1>7. CASE cache'[m] = cache[m]
  <2>1. UNCHANGED <<managed, written, failed>> /\ cache' = cache
    <3>1. UNCHANGED <<managed, written, failed>>
      BY <1>7 DEF Apply, projection
    <3> QED
      BY <1>1, <1>7, <3>1 DEF EvidenceInv, EvidenceTyped
  <2>2. ProjectionTyped'
    BY <1>1, <2>1 DEF RoomInv, ProjectionTyped
  <2> QED
    BY <1>1, <2>1, <2>2, RoomLeftAlone
<1>8. CASE UNCHANGED <<managed, written>> /\ (m \in failed' \/ next = managed[m]) /\ failed \subseteq failed'
  <2>1. ProjectionTyped'
    BY <1>1, <1>8 DEF RoomInv, ProjectionTyped
  <2>2. ASSUME m \notin edited
        PROVE  Configured(m)' /\ (m \notin failed' => Agrees(m)')
    <3>1. CASE m \in failed'
      BY <1>1, <1>4, <1>8, <2>2, <3>1, <1>2 DEF RoomInv, Configured
    <3>2. CASE next = managed[m]
      <4>1. managed'[m] = next /\ written'[m] = managed'[m]
        BY <1>8, <3>2 DEF RoomInv, ProjectionTyped
      <4> QED
        BY <1>5, <2>2, <4>1
    <3> QED
      BY <1>8, <3>1, <3>2
  <2>3. ASSUME NEW o \in Models \ edited, o # m
        PROVE  Configured(o)' /\ (o \notin failed' => Agrees(o)')
    BY <1>1, <1>2, <1>6, <1>8, <2>3 DEF RoomInv
  <2> QED
    BY <1>1, <1>2, <2>1, <2>2, <2>3 DEF RoomInv
<1>9. CASE /\ managed' = [managed EXCEPT ![m] = next] /\ written' = managed'
           /\ failed' = failed \ {m}
  <2>1. managed'[m] = next /\ written'[m] = managed'[m] /\ managed[m] \in Ours
    BY <1>3, <1>9 DEF RoomInv, ProjectionTyped
  <2>2. next \in Ours
    <3>1. Current(m) \in Own
      <4>1. config[m] \in Own /\ route[m] \in Own
        BY DEF RoomInv, ProjectionTyped
      <4> QED
        BY <4>1 DEF Current, Own
    <3> QED
      BY <1>2, <1>3, <3>1, ManagedTyped
  <2>3. ProjectionTyped'
    BY <1>1, <1>9, <2>2 DEF RoomInv, ProjectionTyped
  <2>4. ASSUME NEW o \in Models \ edited, o # m
        PROVE  Configured(o)' /\ (o \notin failed' => Agrees(o)')
    <3>1. managed'[o] = managed[o] /\ written'[o] = written[o] /\ (o \notin failed' => o \notin failed)
      BY <1>9, <2>4 DEF RoomInv, ProjectionTyped
    <3> QED
      BY <1>1, <1>2, <2>4, <3>1 DEF RoomInv, Configured, Agrees
  <2> QED
    BY <1>1, <1>2, <1>5, <2>1, <2>3, <2>4 DEF RoomInv
<1> QED
  BY <1>7, <1>8, <1>9 DEF Apply, Update, projection

\* At the start nothing is configured.
LEMMA RoomInit == Init => RoomInv
BY DEF Init, RoomInv, ProjectionTyped, Own, Ours, Removed, Unmanaged

\* Every step leaves room.
LEMMA RoomStep == EvidenceInv /\ RoomInv /\ [Next]_vars => RoomInv'
<1> SUFFICES ASSUME EvidenceInv, RoomInv, [Next]_vars PROVE RoomInv'
  OBVIOUS
<1>0. ASSUME UNCHANGED projection, UNCHANGED cache, failed \subseteq failed',
             app' # "stopped" => app # "stopped"
      PROVE  RoomInv'
  <2>1. UNCHANGED <<config, edited, route, managed, written>>
    BY <1>0 DEF projection
  <2>2. ProjectionTyped'
    BY <2>1 DEF RoomInv, ProjectionTyped
  <2> QED
    BY <1>0, <2>1, <2>2, RoomLeftAlone
<1>1. CASE CapacityWorks
  BY <1>0, <1>1, ApplyLeavesRoom DEF CapacityWorks, PostCapacity, Take, BatchEnds
<1>2. CASE RefreshStep \/ Leaving
  BY <1>0, <1>2 DEF RefreshStep, Leaving, LearnerLeaves
<1>3. CASE StartRefreshes
  BY <1>0, <1>3 DEF StartRefreshes
<1>4. CASE StopFails
  BY <1>0, <1>4 DEF StopFails, Joined
<1>5. CASE StopRestores
  <2>1. /\ app' = "stopped" /\ UNCHANGED <<config, route>>
        /\ managed' = [m \in Models |-> Unmanaged] /\ written' = managed'
    BY <1>5 DEF StopRestores
  <2> QED
    BY <2>1 DEF RoomInv, ProjectionTyped, Unmanaged, Ours
<1>6. CASE World
  <2>1. ASSUME NEW m \in Models, Edit(m)
        PROVE  RoomInv'
    <3>1. PICK s \in Settings \cup {Removed} : config' = [config EXCEPT ![m] = s]
      BY <2>1 DEF Edit
    <3>2. s \in Own
      BY WorkersAssumption DEF Own, Removed
    <3>3. ProjectionTyped'
      BY <2>1, <3>1, <3>2 DEF Edit, RoomInv, ProjectionTyped
    <3>4. edited' = edited \cup {m} /\ \A o \in Models \ {m} : config'[o] = config[o]
      BY <2>1, <3>1 DEF Edit, RoomInv, ProjectionTyped
    <3> QED
      BY <2>1, <3>3, <3>4, RoomLeftAlone DEF Edit
  <2>2. ASSUME NEW m \in Models, Forget(m)
        PROVE  RoomInv'
    BY <2>2 DEF Forget, RoomInv, ProjectionTyped, projection
  <2>3. ASSUME NEW m \in Models, ObserveFails(m)
        PROVE  RoomInv'
    BY <1>0, <2>3 DEF ObserveFails
  <2>4. ASSUME NEW m \in Models, NEW o \in Observations, Observe(m, o)
        PROVE  RoomInv'
    BY <1>0, <2>4 DEF Observe
  <2>5. CASE Start
    BY <2>5, StartLeavesRoom DEF EvidenceInv
  <2>6. CASE Stop
    BY <1>0, <2>6 DEF Stop
  <2>7. CASE UNCHANGED <<projection, cache, app, failed>>
    BY <1>0, <2>7
  <2> QED
    BY <1>6, <2>1, <2>2, <2>3, <2>4, <2>5, <2>6, <2>7 DEF World
<1>7. CASE UNCHANGED vars
  BY <1>0, <1>7 DEF vars
<1> QED
  BY <1>1, <1>2, <1>3, <1>4, <1>5, <1>6, <1>7 DEF Next

\* Whatever is learned, configured and edited in whatever order, the thresholds
\* in config.toml leave room for the largest output (applyCapacityObservation,
\* budgetForRoute).
THEOREM RoomIsLeft == Spec => []RoomLeft
<1>1. RoomInv => RoomLeft
  BY DEF RoomInv, RoomLeft
<1> QED
  BY <1>1, EvidenceInit, EvidenceStep, RoomInit, RoomStep, PTL DEF Spec
=============================================================================
