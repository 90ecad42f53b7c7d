-------------------------- MODULE ResponsesStream --------------------------
(***************************************************************************)
(* One streaming Responses request that is passed through natively:        *)
(* streamResponsesSSE (internal/proxy/server.go), called again by          *)
(* forwardFacade for every attempt, with its hold (responses_hold.go), its *)
(* registry of item ids (response_ids.go) and its thought gate             *)
(* (thought_gate.go).                                                      *)
(*                                                                         *)
(* The upstream may send any frame, close or fail at any moment; the       *)
(* client may leave, or the proxy be stopped, at any moment.  Of a frame   *)
(* the model keeps what the handler decides on; a response with several    *)
(* output items names one of them, and a function call's call id, which    *)
(* shares the registry of item ids, is left out.                           *)
(***************************************************************************)
EXTENDS Naturals, Sequences

CONSTANTS Slots,        \* output indexes
          NoSlot,       \* a frame that names no output index
          Ids,          \* item ids
          NoId,         \* a missing id
          Fresh,        \* the id the proxy makes up for a slot (compatID)
          Frames,       \* what the upstream may send (see FrameShape)
          MaxHold,      \* maxResponsesHoldFrames
          MaxFrames,    \* bound: frames of one attempt that are no heartbeats
          MaxAttempts   \* bound: attempts of the request

\* "flag": a lifecycle event whose snapshot is finished or has output, a
\* reasoning item with encrypted content, a transient error, or a terminal
\* event with a valid envelope.  "failed" is a transient response.failed;
\* "garbled" cannot be decoded or has no place for its item; "done" is [DONE].
Kind == {"heartbeat", "done", "garbled", "lifecycle", "text", "thought", "reasoningAdded",
         "reasoningDone", "item", "searchDone", "error", "failed", "terminal"}
FrameShape == [kind : Kind, slot : Slots \cup {NoSlot}, id : Ids \cup {NoId}, flag : BOOLEAN]

ASSUME StreamAssumption ==
  /\ NoSlot \notin Slots /\ NoId \notin Ids
  /\ Fresh \in [Slots -> Ids]
  /\ \A s, o \in Slots : Fresh[s] = Fresh[o] => s = o
  /\ Frames \subseteq FrameShape
  /\ \A f \in Frames, s \in Slots : f.id # Fresh[s]
  /\ \A f \in Frames :
       f.kind \in {"reasoningAdded", "reasoningDone", "item", "searchDone"} => f.slot # NoSlot
  /\ MaxHold \in Nat /\ MaxFrames \in Nat /\ MaxAttempts \in Nat \ {0}

VARIABLES
  client,     \* what the client was shown: the state of an EventStream
  live,       \* upstreamContext is not done: the client is there, the proxy runs
  phase,      \* "holding", "streaming", "draining", "completing", "withheld" or "ended"
  over,       \* the scan of the upstream body has ended
  queue,      \* pending, and the frame being handled
  failed,     \* streamErr: "none", "upstream", or "write" (clientWriteFailed)
  terminal,   \* terminal # ""
  events,     \* the next sequence number
  deferred,   \* deferredSearchDone: slots
  registry,   \* itemIDs: the id of each slot
  gate,       \* responsesThought: text was seen, ids of dropped items
  seen,       \* outputItems, and whether lastResponse is finished or has output
  absorbs,    \* the route has an absorb window that takes transient failures
  attempt,    \* the attempt under way
  frames,     \* frames of this attempt so far
  shown,      \* history: the ids each slot was shown under
  late        \* history: the slots whose reasoning began after text

attemptVars == <<phase, over, queue, failed, terminal, events, deferred, registry, gate, seen,
                 frames, late>>
vars == <<attemptVars, client, live, absorbs, attempt, shown>>

NoName == [s \in Slots |-> NoId]
NoText == [sawText |-> FALSE, dropped |-> {}]
Nothing == [items |-> {}, produced |-> FALSE]

Init ==
  /\ phase = "holding" /\ over = FALSE /\ queue = <<>> /\ failed = "none"
  /\ terminal = FALSE /\ events = 0 /\ deferred = <<>>
  /\ registry = NoName /\ gate = NoText /\ seen = Nothing
  /\ frames = 0 /\ late = {}
  /\ client = [phase |-> "silent", number |-> 0, last |-> "none", spoken |-> FALSE]
  /\ live = TRUE /\ absorbs \in BOOLEAN /\ attempt = 1
  /\ shown = [s \in Slots |-> {}]

-----------------------------------------------------------------------------
(* bufferOrWrite: what happens to a frame before anything is released.     *)

Transient(f) == f.kind = "failed" \/ (f.kind = "error" /\ f.flag)
Closing(f) == f.kind \in {"failed", "terminal"}

Opened == client' = [client EXCEPT !.phase = "open"]

\* The scanner reads a frame.  Heartbeats are not counted: they may go on for
\* ever as long as the request is live.
Reads(f) ==
  /\ ~over /\ phase \in {"holding", "streaming"}
  /\ phase = "streaming" => queue = <<>>
  /\ IF f.kind = "heartbeat" THEN live /\ UNCHANGED frames
     ELSE frames < MaxFrames /\ frames' = frames + 1
  /\ UNCHANGED <<over, failed, terminal, events, deferred, registry, gate, seen, late,
                 live, absorbs, attempt, shown>>

Holdable(f) == f.kind \in {"heartbeat", "lifecycle"} /\ Len(queue) < MaxHold

Hold(f) ==
  /\ phase = "holding" /\ Holdable(f)
  /\ queue' = Append(queue, f) /\ UNCHANGED <<phase, client>>

\* A failure the facade loop may repeat is not shown to the client.
Withhold(f) ==
  /\ phase = "holding" /\ Transient(f) /\ absorbs
  /\ phase' = "withheld" /\ UNCHANGED <<queue, client>>

\* releaseStream writes the headers; the held frames and this one follow.
Release(f) ==
  /\ phase = "holding" /\ ~Holdable(f) /\ ~(Transient(f) /\ absorbs)
  /\ phase' = "streaming" /\ Opened /\ queue' = Append(queue, f)

Take(f) ==
  /\ phase = "streaming"
  /\ queue' = <<f>> /\ UNCHANGED <<phase, client>>

Receive(f) == Reads(f) /\ (Hold(f) \/ Withhold(f) \/ Release(f) \/ Take(f))

\* The upstream body ends cleanly, or with a read error: broken off, idle for
\* too long, a frame too large, or cancelled with the request.
UpstreamEnds ==
  /\ ~over /\ phase \in {"holding", "streaming"}
  /\ phase = "streaming" => queue = <<>>
  /\ over' = TRUE /\ failed' \in {"none", "upstream"}
  /\ UNCHANGED <<phase, queue, terminal, events, deferred, registry, gate, seen, frames, late,
                 client, live, absorbs, attempt, shown>>

-----------------------------------------------------------------------------
(* responseIDs: the id an event carries once the registry has seen it.     *)

Placed(f) == f.slot # NoSlot

Collides(s, id) == \E o \in Slots \ {s} : registry[o] = id

Conflicting(f) ==
  /\ Placed(f) /\ registry[f.slot] # NoId
  /\ f.id \notin {NoId, registry[f.slot]} /\ ~Collides(f.slot, f.id)

AssignedAsSent(f) ==
  IF registry[f.slot] # NoId THEN registry[f.slot]
  ELSE IF f.id = NoId THEN Fresh[f.slot] ELSE f.id

Assigned(f) ==
  IF registry[f.slot] # NoId THEN registry[f.slot]
  ELSE IF f.id = NoId \/ Collides(f.slot, f.id) THEN Fresh[f.slot] ELSE f.id

Registered(f) ==
  IF Placed(f) THEN [registry EXCEPT ![f.slot] = Assigned(f)] ELSE registry

\* responsesThoughtRectifier: what passes, and what the gate remembers.
Dropped(f) == Placed(f) /\ Assigned(f) \in gate.dropped

KeptUnlessDropped(f) ==
  /\ f.kind = "thought" => ~Dropped(f)
  /\ f.kind \in {"reasoningAdded", "reasoningDone"} => ~gate.sawText \/ f.flag

Kept(f) ==
  /\ f.kind = "thought" => ~gate.sawText /\ ~Dropped(f)
  /\ f.kind \in {"reasoningAdded", "reasoningDone"} => ~gate.sawText \/ f.flag

LateItem(f) == f.kind = "reasoningAdded" /\ gate.sawText

Gated(f) ==
  [sawText |-> gate.sawText \/ f.kind = "text",
   dropped |-> gate.dropped \cup (IF LateItem(f) THEN {Assigned(f)} ELSE {})]

\* What assembleResponsesStreamTerminal may later need.
Noted(f) ==
  [items |-> seen.items \cup
     (IF f.kind \in {"reasoningAdded", "reasoningDone", "item", "searchDone"}
      THEN {f.slot} ELSE {}),
   produced |-> IF f.kind = "lifecycle" THEN f.flag ELSE seen.produced]

\* What the client is shown: a reasoning item after text has been emptied.
Visible(f) ==
  IF Closing(f) THEN "terminal"
  ELSE IF f.kind = "text" THEN "text"
  ELSE IF \/ f.kind = "thought"
          \/ f.kind \in {"reasoningAdded", "reasoningDone"} /\ ~gate.sawText
       THEN "thought"
  ELSE "other"

-----------------------------------------------------------------------------
(* writeFrame: the frame at the head of the queue.                         *)

\* Once the request is cancelled, a write may fail or still get through.
Reaches == IF live THEN {TRUE} ELSE BOOLEAN

\* The loop goes on, or it is left for good.
Proceed == queue' = Tail(queue) /\ UNCHANGED <<over, failed>>
Quit(why) == queue' = <<>> /\ over' = TRUE /\ failed' = why
Stop == queue' = <<>> /\ over' = TRUE /\ UNCHANGED failed

\* writeJSONFrame numbers the event even if the write then fails.
Shows(kind, slot, id) ==
  /\ events' = events + 1
  /\ client' = [phase |-> IF kind \in {"terminal", "error"} THEN "closed" ELSE client.phase,
                number |-> events + 1, last |-> kind,
                spoken |-> client.spoken \/ kind = "text"]
  /\ shown' = IF slot = NoSlot THEN shown ELSE [shown EXCEPT ![slot] = @ \cup {id}]

Loses == events' = events + 1 /\ Quit("write") /\ UNCHANGED <<client, shown>>

Memory == <<registry, gate, seen, late>>

Admit(f) ==
  /\ registry' = Registered(f)
  /\ gate' = Gated(f)
  /\ seen' = IF Kept(f) THEN Noted(f) ELSE seen
  /\ late' = late \cup (IF LateItem(f) THEN {f.slot} ELSE {})

IdOf(f) == IF Placed(f) THEN Assigned(f) ELSE NoId

\* A comment or [DONE], which take no number.
Unnumbered(f) ==
  /\ f.kind \in {"heartbeat", "done"}
  /\ \E ok \in Reaches : IF ok THEN Proceed ELSE Quit("write")
  /\ UNCHANGED <<phase, terminal, events, deferred, Memory, frames, client, shown>>

\* What cannot be decoded, placed or named ends the stream.
Reject(f) ==
  /\ (f.kind = "garbled" \/ Conflicting(f))
  /\ Quit("upstream")
  /\ UNCHANGED <<phase, terminal, events, deferred, Memory, frames, client, shown>>

Admissible(f) == f.kind \notin {"heartbeat", "done", "garbled"} /\ ~Conflicting(f)

Drop(f) ==
  /\ Admissible(f) /\ ~Kept(f)
  /\ Admit(f) /\ Proceed
  /\ UNCHANGED <<phase, terminal, events, deferred, frames, client, shown>>

\* A finished search without sources waits for the terminal event's.
Defer(f) ==
  /\ Admissible(f) /\ f.kind = "searchDone"
  /\ Admit(f) /\ Proceed /\ deferred' = Append(deferred, f.slot)
  /\ UNCHANGED <<phase, terminal, events, frames, client, shown>>

Write(f) ==
  /\ Admissible(f) /\ Kept(f) /\ f.kind # "searchDone" /\ ~Closing(f)
  /\ Admit(f)
  /\ \E ok \in Reaches :
       IF ok THEN Shows(Visible(f), f.slot, IdOf(f)) /\ Proceed ELSE Loses
  /\ UNCHANGED <<phase, terminal, deferred, frames>>

FlushedButOne == Len(deferred) <= 1

Flushed == deferred = <<>>

\* The deferred searches go out before the terminal event, one by one.
FlushOne ==
  \E ok \in Reaches :
    IF ok THEN /\ Shows("other", Head(deferred), registry[Head(deferred)])
               /\ deferred' = Tail(deferred) /\ UNCHANGED <<queue, over, failed>>
    ELSE Loses /\ UNCHANGED deferred

Flush(f) ==
  /\ Admissible(f) /\ Closing(f) /\ ~Flushed
  /\ FlushOne
  /\ UNCHANGED <<phase, terminal, Memory, frames>>

\* terminal is set before the event is validated and written.
Finish(f) ==
  /\ Admissible(f) /\ Closing(f) /\ Flushed
  /\ Admit(f) /\ terminal' = TRUE
  /\ IF ~f.flag THEN Quit("upstream") /\ UNCHANGED <<events, client, shown>>
     ELSE \E ok \in Reaches :
            IF ok THEN Shows("terminal", f.slot, IdOf(f)) /\ Stop ELSE Loses
  /\ UNCHANGED <<phase, deferred, frames>>

Handle ==
  /\ phase \in {"streaming", "draining"} /\ queue # <<>>
  /\ LET f == Head(queue) IN
       Unnumbered(f) \/ Reject(f) \/ Drop(f) \/ Defer(f) \/ Write(f) \/ Flush(f) \/ Finish(f)
  /\ UNCHANGED <<live, absorbs, attempt>>

-----------------------------------------------------------------------------
(* After the loop.                                                         *)

Drained == over /\ queue = <<>>

\* The stream was still held: nobody is left, or it is released now, and the
\* request no longer counts as cancelled when its frames are written.
Abandon ==
  /\ phase = "holding" /\ over /\ ~live
  /\ phase' = "ended"
  /\ UNCHANGED <<queue, client, over, failed, terminal, events, deferred, shown>>

ReleaseLate ==
  /\ phase = "holding" /\ over /\ live
  /\ phase' = "draining" /\ Opened
  /\ UNCHANGED <<queue, over, failed, terminal, events, deferred, shown>>

\* assembleResponsesStreamTerminal: the stream closed cleanly after output.
Assemblable ==
  /\ ~terminal /\ failed = "none"
  /\ seen.items # {} \/ gate.sawText \/ seen.produced

Continues == phase = "draining" \/ (phase = "streaming" /\ live)

Complete ==
  /\ Continues /\ Drained /\ Assemblable
  /\ phase' = "completing"
  /\ UNCHANGED <<queue, client, over, failed, terminal, events, deferred, shown>>

FlushLate ==
  /\ phase = "completing" /\ failed = "none" /\ ~Flushed
  /\ FlushOne
  /\ UNCHANGED <<phase, terminal>>

\* The terminal event made up here may still fail its validation.
Synthesize ==
  /\ phase = "completing" /\ failed = "none" /\ ~terminal /\ Flushed
  /\ \/ Quit("upstream") /\ UNCHANGED <<terminal, events, client, shown>>
     \/ \E ok \in Reaches :
          IF ok THEN Shows("terminal", NoSlot, NoId) /\ Stop /\ terminal' = TRUE
          ELSE Loses /\ UNCHANGED terminal
  /\ UNCHANGED <<phase, deferred>>

\* Without a terminal event a request that is still live gets an error event.
Settled ==
  \/ phase \in {"streaming", "draining"} /\ Drained /\ ~(Assemblable /\ Continues)
  \/ phase = "completing" /\ (terminal \/ failed # "none")

Aborted == failed = "write" \/ ~live

End ==
  /\ Settled /\ phase' = "ended"
  /\ IF terminal \/ Aborted THEN UNCHANGED <<client, events, shown>>
     ELSE Shows("error", NoSlot, NoId)
  /\ UNCHANGED <<queue, over, failed, terminal, deferred>>

After ==
  /\ Abandon \/ ReleaseLate \/ Complete \/ FlushLate \/ Synthesize \/ End
  /\ UNCHANGED <<Memory, frames, live, absorbs, attempt>>

-----------------------------------------------------------------------------
(* forwardFacade, after a failure was withheld: what the recoveryDecider   *)
(* says is free here (see Recovery).  A repeated call has fresh locals.    *)

Retry ==
  /\ phase = "withheld" /\ live /\ attempt < MaxAttempts
  /\ phase' = "holding" /\ over' = FALSE /\ queue' = <<>> /\ failed' = "none"
  /\ terminal' = FALSE /\ events' = 0 /\ deferred' = <<>>
  /\ registry' = NoName /\ gate' = NoText /\ seen' = Nothing
  /\ frames' = 0 /\ late' = {}
  /\ attempt' = attempt + 1
  /\ UNCHANGED <<client, live, absorbs, shown>>

PassThrough ==
  /\ phase = "withheld" /\ phase' = "ended"
  /\ client' = [client EXCEPT !.phase = "refused"]
  /\ UNCHANGED <<over, queue, failed, terminal, events, deferred, Memory, frames, live,
                 absorbs, attempt, shown>>

Vanish ==
  /\ phase = "withheld" /\ ~live /\ phase' = "ended"
  /\ UNCHANGED <<over, queue, failed, terminal, events, deferred, Memory, frames, client,
                 live, absorbs, attempt, shown>>

\* The client leaves, or Disable or Stop cancels the upstream requests.
Cancel ==
  /\ live /\ phase # "ended" /\ live' = FALSE
  /\ UNCHANGED <<attemptVars, client, absorbs, attempt, shown>>

-----------------------------------------------------------------------------
Upstream == UpstreamEnds \/ \E f \in Frames : Receive(f)
Handler == Handle \/ After \/ Retry \/ PassThrough \/ Vanish

Next == Upstream \/ Handler \/ Cancel

Spec == Init /\ [][Next]_vars

-----------------------------------------------------------------------------
(* Properties.                                                             *)

\* Every variable has its type, what is held stays within maxResponsesHoldFrames,
\* and nothing is shown while the stream is held or withheld.
TypeOK ==
  /\ client \in [phase : {"silent", "refused", "open", "closed"}, number : Nat,
                 last : {"none", "thought", "text", "other", "terminal", "error"},
                 spoken : BOOLEAN]
  /\ live \in BOOLEAN /\ absorbs \in BOOLEAN /\ over \in BOOLEAN /\ terminal \in BOOLEAN
  /\ phase \in {"holding", "streaming", "draining", "completing", "withheld", "ended"}
  /\ queue \in Seq(Frames)
  /\ Len(queue) <= IF phase = "holding" THEN MaxHold ELSE MaxHold + 1
  /\ failed \in {"none", "upstream", "write"} /\ events \in Nat
  /\ deferred \in Seq(Slots)
  /\ registry \in [Slots -> Ids \cup {NoId}]
  /\ gate \in [sawText : BOOLEAN, dropped : SUBSET Ids]
  /\ seen \in [items : SUBSET Slots, produced : BOOLEAN]
  /\ attempt \in 1..MaxAttempts /\ frames \in 0..MaxFrames
  /\ shown \in [Slots -> SUBSET (Ids \cup {NoId})] /\ late \subseteq Slots
  /\ phase \in {"holding", "withheld"} => client.phase = "silent"

\* What the client is shown, over all attempts, is one EventStream: withheld
\* attempts leave no trace in it, its numbers have no gap although the counter
\* also counts failed writes and starts again with every attempt, nothing
\* follows its end, and no visible reasoning follows text.
Client == INSTANCE EventStream
            WITH phase <- client.phase, number <- client.number, last <- client.last,
                 spoken <- client.spoken
ClientSeesOneStream == Client!Spec

\* The client knows every slot under one id and never two slots under the
\* same one, even if the upstream reuses an id or leaves it out (response_ids.go).
IdsApart ==
  \A s, o \in Slots : \A i \in shown[s], j \in shown[o] : i = j <=> s = o

\* The thought gate, which remembers dropped items by id, drops the thoughts
\* of exactly those items whose reasoning began after text: an id that the
\* upstream reuses does not take another item's thoughts with it.
DropsOnlyLate ==
  \A s \in Slots : registry[s] \in gate.dropped <=> s \in late

\* A stream that ends in a terminal event has shown every finished search it
\* had put off until then, also where the proxy made the terminal event up.
SearchesReported == client.last = "terminal" => deferred = <<>>

\* When the handler is through and nobody cancelled the request, the client has a
\* terminal event, an error event or an HTTP error, unless the upstream's
\* terminal event was itself found invalid.
AnsweredUnlessInvalid ==
  phase = "ended" /\ live /\ ~(terminal /\ failed = "upstream")
    => client.phase \in {"closed", "refused"}

=============================================================================
