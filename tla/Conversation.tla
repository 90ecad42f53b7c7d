----------------------------- MODULE Conversation -----------------------------
(***************************************************************************)
(* One conversation of Grok Build that changes models: its requests in      *)
(* forwardFacade (internal/proxy/facade.go) as far as the proxy's two       *)
(* memories of a conversation go, the index of opaque reasoning             *)
(* (ReasoningIndex) and the check of usage reports (UsageGuard).  Each      *)
(* response may bring one opaque item, which Grok Build replays with every  *)
(* later request, whatever the channel.                                     *)
(*                                                                         *)
(* Requests overlap: Grok Build repeats one whose handler still runs.  The  *)
(* process may exit or crash between any two steps, and a write or a read   *)
(* of the file may fail.                                                    *)
(***************************************************************************)
EXTENDS ReasoningIndex, UsageGuard

CONSTANTS Requests,    \* the requests, which also name the items they bring
          Factors,     \* reported prompt tokens per byte
          Honest,      \* the factors of a provider that counts the context
          Early,       \* the channels whose path captures an item before it writes it
                       \* (native protocols, buffered answers), not after
          Workloads,   \* conversations (see Workload)
          MaxClock, MaxLives   \* bounds: seconds, starts of the process

\* The requests whose responses bring an opaque item, those whose usage is
\* checked when they are answered as they came (not those without a session's
\* identity, nor on the native path of Messages), the tokenizable bytes a body
\* may have, and how often usage is reported.
Workload ==
  [opaque : SUBSET Requests, checked : SUBSET Requests, sizes : SUBSET (Nat \ {0}), reports : Nat]

ASSUME ConversationAssumption ==
  /\ Items = Requests /\ Domains = Channels
  /\ Early \subseteq Channels /\ Workloads \subseteq Workload
  /\ Factors \subseteq Nat \ {0} /\ Honest \subseteq Factors

VARIABLES
  up,        \* the process runs
  lives,     \* bound: its starts
  workload,  \* the conversation; its reports count down
  stage,     \* per request: "new", "sent", "answered" (its response came) or "ended"
  asked,     \* per request: what it asks with (see Asked)
  kept,      \* per request: the opaque items the body sent upstream holds
  dropped,   \* per request: those the first projection removed
  captured,  \* per request: its item was captured
  history,   \* the opaque items Grok Build has
  meter,     \* history: per channel, the last checked report that was shown to Grok
             \* Build, and since then the last suppressed and the last unchecked one
  promised   \* history: the items a flush saved that nothing destroyed since

conversationVars ==
  <<indexVars, baseline, up, lives, workload, stage, asked, kept, dropped, captured, history, meter,
    promised>>
requestVars == <<stage, asked, kept, dropped, captured>>
process == <<up, lives, workload>>

\* guarded: the usage of the response is checked.
Asked == [channel : Channels, bytes : Nat, guarded : BOOLEAN]

Unasked == [channel |-> "none", bytes |-> 0, guarded |-> FALSE]

\* Of the checked report the size of the body and the factor, of the suppressed
\* and the unchecked one the factor; 0 for none.
NoReport == [bytes |-> 0, factor |-> 0, hidden |-> 0, unchecked |-> 0]

ConversationInit ==
  /\ IndexInit /\ GuardInit
  /\ up = TRUE /\ lives = 1 /\ workload \in Workloads
  /\ stage = [r \in Requests |-> "new"]
  /\ asked = [r \in Requests |-> Unasked]
  /\ kept = [r \in Requests |-> {}] /\ dropped = [r \in Requests |-> {}]
  /\ captured = [r \in Requests |-> FALSE]
  /\ history = {} /\ promised = {}
  /\ meter = [c \in Channels |-> NoReport]

-----------------------------------------------------------------------------
(* A request.                                                              *)

\* adaptFacadeRequestWithReasoning removes what is known to be another
\* domain's.
Arrive(r) ==
  /\ up /\ stage[r] = "new"
  /\ stage' = [stage EXCEPT ![r] = "sent"]
  /\ \E a \in [channel : Channels, bytes : workload.sizes, guarded : {r \in workload.checked}] :
       /\ asked' = [asked EXCEPT ![r] = a]
       /\ kept' = [kept EXCEPT ![r] = Filtered(history, a.channel)]
       /\ dropped' = [dropped EXCEPT ![r] = history \ Filtered(history, a.channel)]
  /\ UNCHANGED <<indexVars, baseline, process, captured, history, meter, promised>>

\* The upstream rejects the opaque items and the recovery sends the request
\* once more without any.  The request it builds has neither session key nor
\* guard.
Recover(r) ==
  /\ up /\ stage[r] = "sent" /\ kept[r] # {}
  /\ kept' = [kept EXCEPT ![r] = {}]
  /\ asked' = [asked EXCEPT ![r].guarded = FALSE]
  /\ UNCHANGED <<indexVars, baseline, process, stage, dropped, captured, history, meter, promised>>

\* What is done with a response comes after its headers.
Answering(r) ==
  /\ up /\ stage[r] \in {"sent", "answered"}
  /\ stage' = [stage EXCEPT ![r] = "answered"]

\* guardNativeChatUsage, guardResponsesUsage, suppressInconsistentUsage: the
\* response's usage report, which Grok Build sees or not.
Judge(c, bytes, factor) ==
  /\ Learn(c, bytes, factor * bytes)
  /\ meter' = IF Coherent(c, bytes, factor * bytes)
              THEN [meter EXCEPT ![c] =
                      [bytes |-> bytes, factor |-> factor, hidden |-> 0, unchecked |-> 0]]
              ELSE [meter EXCEPT ![c].hidden = factor]

\* Without guard or session key they return at once, and native Messages have no
\* check: the report is shown, and nothing learned.
PassUnchecked(c, factor) ==
  /\ UNCHANGED baseline
  /\ meter' = [meter EXCEPT ![c].unchecked = factor]

Report(r) ==
  /\ Answering(r)
  /\ workload.reports > 0 /\ workload' = [workload EXCEPT !.reports = @ - 1]
  /\ \E factor \in Factors :
       IF asked[r].guarded THEN Judge(asked[r].channel, asked[r].bytes, factor)
       ELSE PassUnchecked(asked[r].channel, factor)
  /\ UNCHANGED <<indexVars, up, lives, asked, kept, dropped, captured, history, promised>>

\* The item of the response is captured ...
Capture(r) ==
  /\ Answering(r)
  /\ r \in workload.opaque
  /\ asked[r].channel \in Early \/ r \in history
  /\ Captured(r, asked[r].channel)
  /\ captured' = [captured EXCEPT ![r] = TRUE]
  /\ promised' = promised \cap DOMAIN entries'
  /\ UNCHANGED <<baseline, process, asked, kept, dropped, history, meter>>

\* ... and given to Grok Build, in either order.
Deliver(r) ==
  /\ Answering(r) /\ r \in workload.opaque \ history
  /\ asked[r].channel \notin Early \/ captured[r]
  /\ history' = history \cup {r}
  /\ UNCHANGED <<indexVars, baseline, process, asked, kept, dropped, captured, meter, promised>>

\* What a flush that reported success stands for.
Promise(ok) ==
  promised' = IF dirty /\ ~ok THEN promised ELSE promised \cup DOMAIN entries

\* The handler ends, however far it came: its deferred flush.
End(r) ==
  /\ up /\ stage[r] \in {"sent", "answered"}
  /\ stage' = [stage EXCEPT ![r] = "ended"]
  /\ kept' = [kept EXCEPT ![r] = {}] /\ dropped' = [dropped EXCEPT ![r] = {}]
  /\ \E ok \in BOOLEAN : Flush(ok) /\ Promise(ok)
  /\ UNCHANGED <<baseline, process, asked, captured, history, meter>>

-----------------------------------------------------------------------------
(* The process.                                                            *)

Killed ==
  /\ stage' = [r \in Requests |-> IF stage[r] = "new" THEN "new" ELSE "ended"]
  /\ kept' = [r \in Requests |-> {}] /\ dropped' = [r \in Requests |-> {}]

\* Server.Stop's flush at the end; handlers that still run keep running.
StopFlush ==
  /\ up
  /\ \E ok \in BOOLEAN : Flush(ok) /\ Promise(ok)
  /\ UNCHANGED <<baseline, process, requestVars, history, meter>>

\* The process ends: by an exit, after its flush, or by a crash.
Crash ==
  /\ up /\ lives < MaxLives
  /\ up' = FALSE /\ Killed /\ Lost
  /\ baseline' = [c \in Channels |-> Unlearned]
  /\ meter' = [c \in Channels |-> NoReport]
  /\ UNCHANGED <<lives, workload, asked, captured, history, promised>>

\* newServer.
Start ==
  /\ ~up
  /\ up' = TRUE /\ lives' = lives + 1
  /\ \E readable \in BOOLEAN :
       Load(readable) /\ promised' = IF readable THEN promised ELSE {}
  /\ UNCHANGED <<baseline, workload, requestVars, history, meter>>

Second ==
  /\ clock < MaxClock /\ Tick
  /\ UNCHANGED <<baseline, process, requestVars, history, meter, promised>>

\* A baseline that is pruned leaves nothing to compare with.
Prune(c) ==
  /\ up /\ PruneBaseline(c)
  /\ meter' = [meter EXCEPT ![c] = NoReport]
  /\ UNCHANGED <<indexVars, process, requestVars, history, promised>>

RequestStep(r) ==
  \/ Arrive(r) \/ Recover(r) \/ Report(r) \/ Capture(r) \/ Deliver(r) \/ End(r)

ConversationNext ==
  \/ \E r \in Requests : RequestStep(r)
  \/ StopFlush \/ Crash \/ Start \/ Second
  \/ \E c \in Channels : Prune(c)

ConversationSpec == ConversationInit /\ [][ConversationNext]_conversationVars

-----------------------------------------------------------------------------
ConversationTypeOK ==
  /\ Cardinality(DOMAIN entries) <= Limit /\ DOMAIN entries \subseteq Items
  /\ entries \in [DOMAIN entries -> [domains : SUBSET Domains, seen : Nat]]
  /\ dirty \in BOOLEAN /\ clock \in Nat /\ up \in BOOLEAN /\ lives \in Nat
  /\ workload \in Workload
  /\ stage \in [Requests -> {"new", "sent", "answered", "ended"}]
  /\ asked \in [Requests -> Asked \cup {Unasked}]
  /\ kept \in [Requests -> SUBSET Items] /\ dropped \in [Requests -> SUBSET Items]
  /\ captured \in [Requests -> BOOLEAN]
  /\ history \subseteq Items /\ promised \subseteq Items

\* While the index says it is clean, the file holds all of it: captures of one
\* handler may be saved by another's flush, a failed write is made up for by
\* the next flush, and an unreadable file is not taken for a saved one.
CleanMeansSaved == (up /\ ~dirty) => file = entries

\* No item a channel emitted itself is removed from a request to that channel
\* by the first projection, whatever was evicted, lost in a crash, captured
\* again or unreadable in between.
OwnNeverDropped ==
  \A r \in Requests : \A i \in dropped[r] : asked[i].channel # asked[r].channel

\* An item of another channel that a successful flush stood for is never sent
\* again, across exits and crashes, unless the index outgrew its limit or the
\* file could not be read.
FlushedStaysFiltered ==
  [][\A r \in Requests : stage[r] = "new" /\ stage'[r] = "sent" =>
       \A i \in kept'[r] \cap promised : asked'[i].channel = asked'[r].channel]_conversationVars

\* What Grok Build is shown after an honest report that was checked: nothing
\* inflated on that channel, however many are reported, however requests overlap
\* and whatever unchecked reports came in between; and only a report more than a
\* quarter above it is suppressed.  There are two exceptions, as in the code: a
\* report nobody checks is shown as it is (of a request rebuilt by reasoning
\* recovery, of one without identity, of native Messages), and a body under 3/4 of
\* the last passes for a rewritten context, also when it is that of an older
\* request which is late.
Shown(m) == IF m.unchecked # 0 THEN m.unchecked ELSE m.factor
Inflated(factor) == \A h \in Honest : 4 * factor > 5 * h

Follows(m, n) ==
  /\ n.hidden # 0 => 4 * n.hidden > 5 * m.factor
  /\ Inflated(Shown(n)) => n.unchecked # 0 \/ 4 * n.bytes < 3 * m.bytes

MeterFollowsHonest ==
  [][\A c \in Channels :
       meter[c].factor \in Honest /\ meter'[c] # meter[c] => Follows(meter[c], meter'[c])]_conversationVars

=============================================================================
