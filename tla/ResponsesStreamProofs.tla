----------------------- MODULE ResponsesStreamProofs -----------------------
(***************************************************************************)
(* The safety properties of ResponsesStream, for any number of slots, ids, *)
(* frames, held frames and attempts, and its refinement of EventStream.    *)
(***************************************************************************)
EXTENDS ResponsesStream, SequenceTheorems, TLAPS

-----------------------------------------------------------------------------
(* Lemmas about the operators.                                             *)

\* The frame at the head of the queue, and what is left behind it.
LEMMA HeadOfQueue ==
  ASSUME TypeOK, queue # <<>>
  PROVE  /\ Head(queue) \in Frames /\ Tail(queue) \in Seq(Frames)
         /\ Len(Tail(queue)) = Len(queue) - 1 /\ Len(queue) \in Nat
<1>1. queue \in Seq(Frames)
  BY DEF TypeOK
<1> QED
  BY <1>1, HeadTailProperties, LenProperties

\* The first of the searches that were put off.
LEMMA HeadOfDeferred ==
  ASSUME TypeOK, ~Flushed
  PROVE  Head(deferred) \in Slots /\ Tail(deferred) \in Seq(Slots)
<1>1. deferred \in Seq(Slots) /\ deferred # <<>>
  BY DEF TypeOK, Flushed
<1> QED
  BY <1>1, HeadTailProperties

\* A placed frame gets an id, and the registry keeps its type.
LEMMA Naming ==
  ASSUME TypeOK, NEW f \in Frames
  PROVE  /\ Placed(f) => f.slot \in Slots /\ Assigned(f) \in Ids
         /\ Registered(f) \in [Slots -> Ids \cup {NoId}]
<1>1. f \in FrameShape
  BY StreamAssumption
<1>2. Placed(f) => f.slot \in Slots
  BY <1>1 DEF FrameShape, Placed
<1>3. Placed(f) => Assigned(f) \in Ids
  BY <1>1, <1>2, StreamAssumption DEF FrameShape, Assigned, TypeOK
<1>4. Registered(f) \in [Slots -> Ids \cup {NoId}]
  BY <1>2, <1>3 DEF Registered, TypeOK
<1> QED
  BY <1>2, <1>3, <1>4

\* The frames that carry an item have a place.
LEMMA ItemsPlaced ==
  ASSUME NEW f \in Frames,
         f.kind \in {"reasoningAdded", "reasoningDone", "item", "searchDone"}
  PROVE  Placed(f)
  BY StreamAssumption DEF Placed

\* Everything a frame is remembered by keeps its type.
LEMMA Remembering ==
  ASSUME TypeOK, NEW f \in Frames, Admit(f)
  PROVE  /\ registry' \in [Slots -> Ids \cup {NoId}]
         /\ gate' \in [sawText : BOOLEAN, dropped : SUBSET Ids]
         /\ seen' \in [items : SUBSET Slots, produced : BOOLEAN]
         /\ late' \subseteq Slots
<1>1. f \in FrameShape
  BY StreamAssumption
<1>2. registry' \in [Slots -> Ids \cup {NoId}]
  BY Naming DEF Admit
<1>3. LateItem(f) => Assigned(f) \in Ids /\ f.slot \in Slots
  BY Naming, ItemsPlaced DEF LateItem
<1>4. gate' \in [sawText : BOOLEAN, dropped : SUBSET Ids]
  <2>1. gate.dropped \cup (IF LateItem(f) THEN {Assigned(f)} ELSE {}) \in SUBSET Ids
    BY <1>3 DEF TypeOK
  <2>2. (gate.sawText \/ f.kind = "text") \in BOOLEAN
    BY DEF TypeOK
  <2> QED
    BY <2>1, <2>2 DEF Admit, Gated
<1>5. seen' \in [items : SUBSET Slots, produced : BOOLEAN]
  <2>1. Noted(f).items \subseteq Slots
    BY Naming, ItemsPlaced DEF Noted, TypeOK
  <2>2. Noted(f).produced \in BOOLEAN
    BY <1>1 DEF Noted, FrameShape, TypeOK
  <2>3. Noted(f) \in [items : SUBSET Slots, produced : BOOLEAN]
    BY <2>1, <2>2 DEF Noted
  <2> QED
    BY <2>3 DEF Admit, TypeOK
<1>6. late' \subseteq Slots
  BY <1>3 DEF Admit, TypeOK
<1> QED
  BY <1>2, <1>4, <1>5, <1>6

\* What a client can be shown.
Showable(kind, slot, id) ==
  /\ kind \in {"thought", "text", "other", "terminal", "error"}
  /\ \/ slot = NoSlot
     \/ slot \in Slots /\ id \in Ids \cup {NoId}

\* A client that is shown something keeps its type.
LEMMA Showing ==
  ASSUME TypeOK, NEW kind, NEW slot, NEW id,
         Showable(kind, slot, id), Shows(kind, slot, id)
  PROVE  /\ client' \in [phase : {"silent", "refused", "open", "closed"}, number : Nat,
                         last : {"none", "thought", "text", "other", "terminal", "error"},
                         spoken : BOOLEAN]
         /\ events' \in Nat /\ shown' \in [Slots -> SUBSET (Ids \cup {NoId})]
<1>1. events' \in Nat
  BY DEF Shows, TypeOK
<1>2. client' \in [phase : {"silent", "refused", "open", "closed"}, number : Nat,
                   last : {"none", "thought", "text", "other", "terminal", "error"},
                   spoken : BOOLEAN]
  <2>1. (IF kind \in {"terminal", "error"} THEN "closed" ELSE client.phase)
          \in {"silent", "refused", "open", "closed"}
    BY DEF TypeOK
  <2>2. (client.spoken \/ kind = "text") \in BOOLEAN
    BY DEF TypeOK
  <2> QED
    BY <2>1, <2>2 DEF Shows, Showable, TypeOK
<1>3. shown' \in [Slots -> SUBSET (Ids \cup {NoId})]
  BY DEF Shows, Showable, TypeOK
<1> QED
  BY <1>1, <1>2, <1>3

-----------------------------------------------------------------------------
(* The type invariant.                                                     *)

\* A frame that is read.
LEMMA TypeReceive ==
  ASSUME TypeOK, NEW f \in Frames, Receive(f)
  PROVE  TypeOK'
<1> USE DEF TypeOK, Reads, Opened
<1>1. frames' \in 0..MaxFrames
  BY StreamAssumption DEF Receive
<1>2. Append(queue, f) \in Seq(Frames) /\ Len(Append(queue, f)) = Len(queue) + 1
  BY AppendProperties
<1>3. CASE Hold(f)
  BY <1>1, <1>2, <1>3, LenProperties, StreamAssumption DEF Receive, Hold, Holdable
<1>4. CASE Withhold(f)
  BY <1>1, <1>4, LenProperties, StreamAssumption DEF Receive, Withhold
<1>5. CASE Release(f)
  <2>1. client' \in [phase : {"silent", "refused", "open", "closed"}, number : Nat,
                     last : {"none", "thought", "text", "other", "terminal", "error"},
                     spoken : BOOLEAN]
    BY <1>5 DEF Release
  <2> QED
    BY <1>1, <1>2, <1>5, <2>1, LenProperties, StreamAssumption DEF Receive, Release
<1>6. CASE Take(f)
  <2>1. <<f>> \in Seq(Frames) /\ Len(<<f>>) = 1
    OBVIOUS
  <2> QED
    BY <1>1, <1>6, <2>1, StreamAssumption DEF Receive, Take
<1> QED
  BY <1>3, <1>4, <1>5, <1>6 DEF Receive

\* The loop goes on or is left.
LEMMA TypeLoop ==
  ASSUME TypeOK, queue # <<>>, phase \in {"streaming", "draining"},
         Proceed \/ Stop \/ Quit("upstream") \/ Quit("write")
  PROVE  /\ queue' \in Seq(Frames) /\ Len(queue') <= MaxHold + 1
         /\ over' \in BOOLEAN /\ failed' \in {"none", "upstream", "write"}
<1>1. <<>> \in Seq(Frames) /\ Len(<<>>) = 0
  OBVIOUS
<1>2. Len(queue) <= MaxHold + 1 /\ MaxHold \in Nat
  BY StreamAssumption DEF TypeOK
<1>3. CASE Proceed
  <2>1. Tail(queue) \in Seq(Frames) /\ Len(Tail(queue)) <= MaxHold + 1
    BY <1>2, HeadOfQueue
  <2> QED
    BY <1>3, <2>1 DEF Proceed, TypeOK
<1>4. CASE Stop \/ Quit("upstream") \/ Quit("write")
  <2>1. queue' = <<>> /\ over' = TRUE /\ failed' \in {failed, "upstream", "write"}
    BY <1>4 DEF Stop, Quit
  <2>2. Len(queue') <= MaxHold + 1
    BY <1>1, <1>2, <2>1
  <2> QED
    BY <1>1, <2>1, <2>2 DEF TypeOK
<1> QED
  BY <1>3, <1>4

\* What writing a search leaves behind.
TypeFlushed ==
  /\ client \in [phase : {"silent", "refused", "open", "closed"}, number : Nat,
                 last : {"none", "thought", "text", "other", "terminal", "error"},
                 spoken : BOOLEAN]
  /\ events \in Nat /\ shown \in [Slots -> SUBSET (Ids \cup {NoId})]
  /\ deferred \in Seq(Slots) /\ queue \in Seq(Frames) /\ Len(queue) <= MaxHold + 1
  /\ over \in BOOLEAN /\ failed \in {"none", "upstream", "write"}

\* A search that was put off is written, or its client is lost.
LEMMA TypeFlush ==
  ASSUME TypeOK, phase # "holding", ~Flushed, FlushOne
  PROVE  TypeFlushed'
<1>1. Head(deferred) \in Slots /\ Tail(deferred) \in Seq(Slots)
  BY HeadOfDeferred
<1>2. Showable("other", Head(deferred), registry[Head(deferred)])
  BY <1>1 DEF Showable, TypeOK
<1>3. CASE /\ Shows("other", Head(deferred), registry[Head(deferred)])
           /\ deferred' = Tail(deferred) /\ UNCHANGED <<queue, over, failed>>
  BY <1>1, <1>2, <1>3, Showing DEF TypeOK, TypeFlushed
<1>4. CASE Loses /\ UNCHANGED deferred
  <2>1. <<>> \in Seq(Frames) /\ Len(<<>>) = 0
    OBVIOUS
  <2> QED
    BY <1>4, <2>1, StreamAssumption DEF TypeOK, TypeFlushed, Loses, Quit
<1> QED
  BY <1>3, <1>4 DEF FlushOne

\* A frame that is handled.
LEMMA TypeHandle ==
  ASSUME TypeOK, Handle
  PROVE  TypeOK'
<1> DEFINE f == Head(queue)
<1>0. phase \in {"streaming", "draining"} /\ queue # <<>> /\ f \in Frames
  BY HeadOfQueue DEF Handle
<1>1. phase \in {"streaming", "draining"} /\ queue # <<>> /\ UNCHANGED <<live, absorbs, attempt>>
  BY DEF Handle
<1>2. Placed(f) \/ f.slot = NoSlot
  BY DEF Placed
<1>3. Showable(Visible(f), f.slot, IdOf(f))
  BY <1>0, <1>2, Naming DEF Showable, Visible, IdOf, Placed
<1> HIDE DEF f
<1>4. CASE Unnumbered(f) \/ Reject(f)
  <2>1. Proceed \/ Quit("upstream") \/ Quit("write")
    BY <1>4 DEF Unnumbered, Reject
  <2>2. UNCHANGED <<phase, terminal, events, deferred, Memory, frames, client, shown>>
    BY <1>4 DEF Unnumbered, Reject
  <2> QED
    BY <1>1, <2>1, <2>2, TypeLoop DEF TypeOK, Memory
<1>5. CASE Drop(f)
  BY <1>0, <1>1, <1>5, TypeLoop, Remembering DEF TypeOK, Drop
<1>6. CASE Defer(f)
  <2>1. f.slot \in Slots
    BY <1>0, <1>6, ItemsPlaced, Naming DEF Defer
  <2>2. deferred' \in Seq(Slots)
    BY <1>6, <2>1, AppendProperties DEF Defer, TypeOK
  <2> QED
    BY <1>0, <1>1, <1>6, <2>2, TypeLoop, Remembering DEF TypeOK, Defer
<1>7. CASE Write(f)
  <2>1. Admit(f) /\ UNCHANGED <<phase, terminal, deferred, frames>>
    BY <1>7 DEF Write
  <2>2. \/ Shows(Visible(f), f.slot, IdOf(f)) /\ Proceed
        \/ Loses
    BY <1>7 DEF Write
  <2>3. CASE Shows(Visible(f), f.slot, IdOf(f)) /\ Proceed
    BY <1>0, <1>1, <1>3, <2>1, <2>3, Showing, TypeLoop, Remembering DEF TypeOK
  <2>4. CASE Loses
    BY <1>0, <1>1, <2>1, <2>4, TypeLoop, Remembering DEF TypeOK, Loses
  <2> QED
    BY <2>2, <2>3, <2>4
<1>8. CASE Flush(f)
  <2>1. ~Flushed /\ UNCHANGED <<phase, terminal, Memory, frames>>
    BY <1>8 DEF Flush
  <2>2. TypeFlushed'
    BY <1>1, <1>8, <2>1, TypeFlush DEF Flush
  <2> QED
    BY <1>1, <2>1, <2>2 DEF TypeOK, TypeFlushed, Memory
<1>9. CASE Finish(f)
  <2>1. Admit(f) /\ terminal' = TRUE /\ UNCHANGED <<phase, deferred, frames>>
    BY <1>9 DEF Finish
  <2>2. \/ Quit("upstream") /\ UNCHANGED <<events, client, shown>>
        \/ Shows("terminal", f.slot, IdOf(f)) /\ Stop
        \/ Loses
    BY <1>9 DEF Finish
  <2>3. CASE Quit("upstream") /\ UNCHANGED <<events, client, shown>>
    BY <1>0, <1>1, <2>1, <2>3, TypeLoop, Remembering DEF TypeOK
  <2>4. CASE Shows("terminal", f.slot, IdOf(f)) /\ Stop
    <3>1. Showable("terminal", f.slot, IdOf(f))
      BY <1>3 DEF Showable
    <3> QED
      BY <1>0, <1>1, <2>1, <2>4, <3>1, Showing, TypeLoop, Remembering DEF TypeOK
  <2>5. CASE Loses
    BY <1>0, <1>1, <2>1, <2>5, TypeLoop, Remembering DEF TypeOK, Loses
  <2> QED
    BY <2>2, <2>3, <2>4, <2>5
<1> QED
  BY <1>4, <1>5, <1>6, <1>7, <1>8, <1>9 DEF Handle, f


\* A step after the loop.
LEMMA TypeAfter ==
  ASSUME TypeOK, After
  PROVE  TypeOK'
<1>1. UNCHANGED <<registry, gate, seen, late, frames, live, absorbs, attempt>>
  BY DEF After, Memory
<1>2. MaxHold \in Nat
  BY StreamAssumption
<1>3. CASE Abandon
  BY <1>1, <1>2, <1>3, LenProperties DEF Abandon, TypeOK
<1>4. CASE ReleaseLate
  <2>1. client' \in [phase : {"silent", "refused", "open", "closed"}, number : Nat,
                     last : {"none", "thought", "text", "other", "terminal", "error"},
                     spoken : BOOLEAN]
    BY <1>4 DEF ReleaseLate, Opened, TypeOK
  <2> QED
    BY <1>1, <1>2, <1>4, <2>1, LenProperties DEF ReleaseLate, TypeOK
<1>5. CASE Complete
  BY <1>1, <1>2, <1>5 DEF Complete, Continues, TypeOK
<1>6. CASE FlushLate
  <2>1. TypeFlushed'
    BY <1>6, TypeFlush DEF FlushLate
  <2> QED
    BY <1>1, <1>6, <2>1 DEF FlushLate, TypeOK, TypeFlushed
<1>7. CASE Synthesize
  <2>1. phase = "completing" /\ UNCHANGED <<phase, deferred>>
    BY <1>7 DEF Synthesize
  <2>2. queue' = <<>> => queue' \in Seq(Frames) /\ Len(queue') <= MaxHold + 1
    BY <1>2
  <2>3. CASE Quit("upstream") /\ UNCHANGED <<terminal, events, client, shown>>
    BY <1>1, <2>1, <2>2, <2>3 DEF Quit, TypeOK
  <2>4. CASE Shows("terminal", NoSlot, NoId) /\ Stop /\ terminal' = TRUE
    <3>1. Showable("terminal", NoSlot, NoId)
      BY DEF Showable
    <3> QED
      BY <1>1, <2>1, <2>2, <2>4, <3>1, Showing DEF Stop, TypeOK
  <2>5. CASE Loses /\ UNCHANGED terminal
    BY <1>1, <2>1, <2>2, <2>5 DEF Loses, Quit, TypeOK
  <2> QED
    BY <1>7, <2>3, <2>4, <2>5 DEF Synthesize
<1>8. CASE End
  <2>1. phase \in {"streaming", "draining", "completing"} /\ phase' = "ended"
        /\ UNCHANGED <<queue, over, failed, terminal, deferred>>
    BY <1>8 DEF End, Settled, Continues
  <2>2. Showable("error", NoSlot, NoId)
    BY DEF Showable
  <2>3. CASE UNCHANGED <<client, events, shown>>
    BY <1>1, <2>1, <2>3 DEF TypeOK
  <2>4. CASE Shows("error", NoSlot, NoId)
    BY <1>1, <2>1, <2>2, <2>4, Showing DEF TypeOK
  <2> QED
    BY <1>8, <2>3, <2>4 DEF End
<1> QED
  BY <1>3, <1>4, <1>5, <1>6, <1>7, <1>8 DEF After

\* Every step keeps the types.
LEMMA TypeStep ==
  ASSUME TypeOK, [Next]_vars
  PROVE  TypeOK'
<1>1. ASSUME NEW f \in Frames, Receive(f)
      PROVE  TypeOK'
  BY <1>1, TypeReceive
<1>2. CASE UpstreamEnds
  BY <1>2 DEF UpstreamEnds, TypeOK
<1>3. CASE Retry
  <2>1. <<>> \in Seq(Frames) /\ <<>> \in Seq(Slots) /\ Len(<<>>) = 0
    OBVIOUS
  <2>2. NoName \in [Slots -> Ids \cup {NoId}]
        /\ NoText \in [sawText : BOOLEAN, dropped : SUBSET Ids]
        /\ Nothing \in [items : SUBSET Slots, produced : BOOLEAN]
    BY DEF NoName, NoText, Nothing
  <2>3. attempt' \in 1..MaxAttempts /\ frames' \in 0..MaxFrames
    BY <1>3, StreamAssumption DEF Retry, TypeOK
  <2>4. client.phase = "silent"
    BY <1>3 DEF Retry, TypeOK
  <2>5. Len(<<>>) <= MaxHold
    BY <2>1, StreamAssumption
  <2>6. /\ phase' = "holding" /\ over' = FALSE /\ queue' = <<>> /\ failed' = "none"
        /\ terminal' = FALSE /\ events' = 0 /\ deferred' = <<>>
        /\ registry' = NoName /\ gate' = NoText /\ seen' = Nothing /\ late' = {}
        /\ UNCHANGED <<client, live, absorbs, shown>>
    BY <1>3 DEF Retry
  <2> QED
    BY <2>1, <2>2, <2>3, <2>4, <2>5, <2>6 DEF TypeOK
<1>4. CASE PassThrough
  <2>1. client' \in [phase : {"silent", "refused", "open", "closed"}, number : Nat,
                     last : {"none", "thought", "text", "other", "terminal", "error"},
                     spoken : BOOLEAN]
    BY <1>4 DEF PassThrough, TypeOK
  <2> QED
    BY <1>4, <2>1 DEF PassThrough, TypeOK, Memory
<1>5. CASE Vanish
  <2>1. phase = "withheld" /\ phase' = "ended"
        /\ UNCHANGED <<over, queue, failed, terminal, events, deferred, frames, client,
                       live, absorbs, attempt, shown>>
    BY <1>5 DEF Vanish
  <2>2. UNCHANGED <<registry, gate, seen, late>>
    BY <1>5 DEF Vanish, Memory
  <2> QED
    BY <2>1, <2>2 DEF TypeOK
<1>6. CASE Cancel
  <2>1. live' \in BOOLEAN /\ UNCHANGED <<phase, over, queue, failed, terminal, events,
          deferred, registry, gate, seen, frames, late, client, absorbs, attempt, shown>>
    BY <1>6 DEF Cancel, attemptVars
  <2> QED
    BY <2>1 DEF TypeOK
<1>7. CASE UNCHANGED vars
  BY <1>7 DEF vars, attemptVars, TypeOK
<1> QED
  BY <1>1, <1>2, <1>3, <1>4, <1>5, <1>6, <1>7, TypeHandle, TypeAfter
  DEF Next, Upstream, Handler

\* The first state has the types.
LEMMA TypeInit ==
  Init => TypeOK
<1> SUFFICES ASSUME Init PROVE TypeOK
  OBVIOUS
<1>1. <<>> \in Seq(Frames) /\ <<>> \in Seq(Slots) /\ Len(<<>>) = 0
  OBVIOUS
<1>2. NoName \in [Slots -> Ids \cup {NoId}]
      /\ NoText \in [sawText : BOOLEAN, dropped : SUBSET Ids]
      /\ Nothing \in [items : SUBSET Slots, produced : BOOLEAN]
  BY DEF NoName, NoText, Nothing
<1>3. Len(<<>>) <= MaxHold /\ 0 \in 0..MaxFrames /\ 1 \in 1..MaxAttempts
  BY <1>1, StreamAssumption
<1>4. [s \in Slots |-> {}] \in [Slots -> SUBSET (Ids \cup {NoId})]
  OBVIOUS
<1>5. client \in [phase : {"silent", "refused", "open", "closed"}, number : Nat,
                  last : {"none", "thought", "text", "other", "terminal", "error"},
                  spoken : BOOLEAN] /\ client.phase = "silent"
  BY DEF Init
<1>6. /\ phase = "holding" /\ over = FALSE /\ queue = <<>> /\ failed = "none"
      /\ terminal = FALSE /\ events = 0 /\ deferred = <<>> /\ frames = 0 /\ late = {}
      /\ live = TRUE /\ absorbs \in BOOLEAN /\ attempt = 1
  BY DEF Init
<1>7. registry = NoName /\ gate = NoText /\ seen = Nothing
      /\ shown \in [Slots -> SUBSET (Ids \cup {NoId})]
  BY <1>4 DEF Init
<1> QED
  BY <1>1, <1>2, <1>3, <1>5, <1>6, <1>7 DEF TypeOK

\* Every variable of a stream keeps its type, what is held stays within its
\* limit, and nothing is shown before it is released.
THEOREM TypeInvariant == Spec => []TypeOK
<1>1. Init => TypeOK
  BY TypeInit
<1>2. TypeOK /\ [Next]_vars => TypeOK'
  BY TypeStep
<1> QED
  BY <1>1, <1>2, PTL DEF Spec

-----------------------------------------------------------------------------
(* What the client has been shown, and how far the handler is.             *)

\* Nothing was shown before the release; afterwards the counter is what the
\* client has counted, until a write fails, and the gate has seen any text
\* the client has.
Shown ==
  /\ phase \in {"holding", "withheld"} =>
       /\ client = [phase |-> "silent", number |-> 0, last |-> "none", spoken |-> FALSE]
       /\ events = 0 /\ ~terminal /\ failed # "write"
  /\ phase \in {"streaming", "draining", "completing"} =>
       /\ client.phase \in {"open", "closed"}
       /\ failed # "write" => client.number = events
       /\ client.spoken => gate.sawText

\* The end of the stream: what terminal and a failed write mean for the rest.
Ending ==
  /\ terminal => over /\ queue = <<>> /\ Flushed
  /\ failed = "write" => over /\ queue = <<>> /\ ~live
  /\ phase # "ended" /\ client.phase = "closed" => terminal
  /\ client.last = "terminal" => terminal
  /\ terminal => client.phase = "closed" \/ failed = "upstream" \/ ~live
  /\ AnsweredUnlessInvalid

StreamInv == TypeOK /\ Shown /\ Ending

\* Whatever is shown to an open client is a step of an EventStream.
LEMMA TellingSteps ==
  ASSUME TypeOK, client.phase = "open", client.number = events, NEW kind, NEW slot, NEW id,
         kind \in {"thought", "text", "other", "terminal", "error"},
         kind = "thought" => ~client.spoken, Shows(kind, slot, id)
  PROVE  Client!Next
<1>1. /\ client'.number = client.number + 1 /\ client'.last = kind
      /\ client'.spoken = (client.spoken \/ kind = "text")
      /\ client'.phase = IF kind \in {"terminal", "error"} THEN "closed" ELSE client.phase
  BY DEF Shows
<1>2. client.spoken \in BOOLEAN
  BY DEF TypeOK
<1>3. CASE kind = "thought"
  BY <1>1, <1>2, <1>3 DEF Client!Next, Client!Thought, Client!Tell
<1>4. CASE kind = "text"
  BY <1>1, <1>2, <1>4 DEF Client!Next, Client!Text, Client!Tell
<1>5. CASE kind = "other"
  BY <1>1, <1>2, <1>5 DEF Client!Next, Client!Other, Client!Tell
<1>6. CASE kind \in {"terminal", "error"}
  BY <1>1, <1>2, <1>6 DEF Client!Next, Client!Close, Client!Tell
<1> QED
  BY <1>3, <1>4, <1>5, <1>6

\* A client to whom something is written that does not end the stream.
LEMMA ShownStep ==
  ASSUME TypeOK, client.phase = "open", client.number = events, NEW kind, NEW slot, NEW id,
         kind \in {"thought", "text", "other"}, Shows(kind, slot, id)
  PROVE  /\ client'.phase = "open" /\ client'.number = events' /\ client'.last # "terminal"
         /\ client'.spoken <=> client.spoken \/ kind = "text"
  BY DEF Shows

\* A client to whom the end is written.
LEMMA ShownEnd ==
  ASSUME TypeOK, client.number = events, NEW kind, NEW slot, NEW id,
         kind \in {"terminal", "error"}, Shows(kind, slot, id)
  PROVE  /\ client'.phase = "closed" /\ client'.number = events' /\ client'.last = kind
         /\ client'.spoken <=> client.spoken
  BY DEF Shows

\* As long as there is something to write, the client listens.
LEMMA Listening ==
  ASSUME StreamInv,
         \/ phase \in {"streaming", "draining"} /\ queue # <<>>
         \/ phase \in {"streaming", "draining", "completing"} /\ failed # "write" /\ ~terminal
         \/ phase = "completing" /\ failed = "none" /\ ~Flushed
  PROVE  /\ client.phase = "open" /\ client.number = events /\ ~terminal
         /\ client.spoken => gate.sawText
         /\ client.last # "terminal"
  BY DEF StreamInv, Shown, Ending

\* A client is lost only if it has left.
LEMMA Losing ==
  ASSUME NEW A, \E ok \in Reaches : IF ok THEN A ELSE Loses
  PROVE  A \/ (Loses /\ ~live)
  BY DEF Reaches

\* What a step must do: keep the invariant, and show the client an EventStream.
Good == Shown' /\ Ending' /\ (Client!Next \/ UNCHANGED client)

\* Opening the stream to a client that was shown nothing.
LEMMA Opening ==
  ASSUME StreamInv, phase = "holding", Opened
  PROVE  /\ Client!Next /\ client'.phase = "open" /\ client'.number = events
         /\ ~client'.spoken /\ client'.last # "terminal"
<1>1. client = [phase |-> "silent", number |-> 0, last |-> "none", spoken |-> FALSE]
      /\ events = 0
  BY DEF StreamInv, Shown
<1>2. client' = [phase |-> "open", number |-> 0, last |-> "none", spoken |-> FALSE]
  BY <1>1 DEF Opened
<1> QED
  BY <1>1, <1>2 DEF Client!Next, Client!Open

\* Reading a frame is good.
LEMMA StreamReceive ==
  ASSUME StreamInv, NEW f \in Frames, Receive(f)
  PROVE  Good
<1>1. /\ ~over /\ UNCHANGED <<over, failed, terminal, events, deferred, gate, live>>
      /\ phase \in {"holding", "streaming"}
  BY DEF Receive, Reads
<1>2. ~terminal /\ failed # "write"
  BY <1>1 DEF StreamInv, Ending
<1>3. CASE Hold(f) \/ Withhold(f)
  <2>1. phase = "holding" /\ phase' \in {"holding", "withheld"} /\ UNCHANGED client
    BY <1>3 DEF Hold, Withhold
  <2> QED
    BY <1>1, <1>2, <2>1 DEF Good, StreamInv, Shown, Ending, AnsweredUnlessInvalid
<1>4. CASE Release(f)
  <2>1. phase = "holding" /\ phase' = "streaming" /\ Opened
    BY <1>4 DEF Release
  <2> QED
    BY <1>1, <1>2, <2>1, Opening DEF Good, StreamInv, Shown, Ending, AnsweredUnlessInvalid
<1>5. CASE Take(f)
  <2>1. phase = "streaming" /\ UNCHANGED <<phase, client>>
    BY <1>5 DEF Take
  <2> QED
    BY <1>1, <1>2, <2>1 DEF Good, StreamInv, Shown, Ending, AnsweredUnlessInvalid
<1> QED
  BY <1>3, <1>4, <1>5 DEF Receive

\* One of the searches that were put off is written.
LEMMA StreamFlush ==
  ASSUME StreamInv, ~Flushed, FlushOne, UNCHANGED <<phase, terminal, gate, live>>,
         \/ phase \in {"streaming", "draining"} /\ queue # <<>>
         \/ phase = "completing" /\ failed = "none"
  PROVE  Good
<1>1. /\ client.phase = "open" /\ client.number = events /\ ~terminal
      /\ client.spoken => gate.sawText
      /\ client.last # "terminal" /\ failed # "write" /\ phase \in {"streaming", "draining", "completing"}
  BY Listening DEF StreamInv, Ending
<1>2. CASE Shows("other", Head(deferred), registry[Head(deferred)])
           /\ deferred' = Tail(deferred) /\ UNCHANGED <<queue, over, failed>>
  <2>1. client'.phase = "open" /\ client'.number = events' /\ client'.last # "terminal"
        /\ (client'.spoken <=> client.spoken)
    BY <1>1, <1>2, ShownStep DEF StreamInv
  <2>2. Client!Next
    BY <1>1, <1>2, TellingSteps DEF StreamInv
  <2> QED
    BY <1>1, <1>2, <2>1, <2>2 DEF Good, Shown, Ending, AnsweredUnlessInvalid
<1>3. CASE Loses /\ UNCHANGED deferred /\ ~live
  BY <1>1, <1>3 DEF Loses, Quit, Good, Shown, Ending, AnsweredUnlessInvalid
<1> QED
  BY <1>2, <1>3 DEF FlushOne, Reaches

\* Handling a frame is good.
LEMMA StreamHandle ==
  ASSUME StreamInv, Handle
  PROVE  Good
<1> DEFINE f == Head(queue)
<1>1. phase \in {"streaming", "draining"} /\ queue # <<>> /\ UNCHANGED <<live, absorbs, attempt>>
  BY DEF Handle
<1>2. /\ client.phase = "open" /\ client.number = events /\ ~terminal
      /\ client.spoken => gate.sawText
      /\ client.last # "terminal" /\ failed # "write"
  BY <1>1, Listening DEF StreamInv, Ending
<1>3. Admit(f) => (gate.sawText => gate'.sawText) /\ (f.kind = "text" => gate'.sawText)
  <2> SUFFICES ASSUME Admit(f)
               PROVE  (gate.sawText => gate'.sawText) /\ (f.kind = "text" => gate'.sawText)
    OBVIOUS
  <2>1. gate'.sawText = (gate.sawText \/ f.kind = "text")
    BY DEF Admit, Gated
  <2> QED
    BY <2>1
<1> HIDE DEF f
<1>4. CASE Unnumbered(f)
  <2>1. UNCHANGED <<phase, terminal, events, deferred, gate, client>>
    BY <1>4 DEF Unnumbered, Memory
  <2>2. Proceed \/ (Quit("write") /\ ~live)
    BY <1>4 DEF Unnumbered, Reaches
  <2> QED
    BY <1>1, <1>2, <2>1, <2>2
    DEF Proceed, Quit, Good, Shown, Ending, AnsweredUnlessInvalid
<1>5. CASE Reject(f)
  <2>1. UNCHANGED <<phase, terminal, events, deferred, gate, client>>
    BY <1>5 DEF Reject, Memory
  <2> QED
    BY <1>1, <1>2, <1>5, <2>1 DEF Reject, Quit, Good, Shown, Ending, AnsweredUnlessInvalid
<1>6. CASE Drop(f) \/ Defer(f)
  <2>1. Admit(f) /\ Proceed /\ UNCHANGED <<phase, terminal, events, client>>
    BY <1>6 DEF Drop, Defer
  <2> QED
    BY <1>1, <1>2, <1>3, <2>1 DEF Proceed, Good, Shown, Ending, AnsweredUnlessInvalid
<1>7. CASE Write(f)
  <2>1. Admit(f) /\ UNCHANGED <<phase, terminal, deferred, frames>> /\ Kept(f) /\ ~Closing(f)
    BY <1>7 DEF Write
  <2>2. Visible(f) \in {"thought", "text", "other"}
    BY <2>1 DEF Visible
  <2>3. Visible(f) = "thought" => ~client.spoken
    BY <1>2, <2>1 DEF Visible, Kept
  <2>4. Visible(f) = "text" => gate'.sawText
    BY <1>3, <2>1 DEF Visible
  <2>5. CASE Shows(Visible(f), f.slot, IdOf(f)) /\ Proceed
    <3>1. Client!Next
      BY <1>2, <2>2, <2>3, <2>5, TellingSteps DEF StreamInv
    <3>2. client'.phase = "open" /\ client'.number = events' /\ client'.last # "terminal"
          /\ (client'.spoken <=> client.spoken \/ Visible(f) = "text")
      BY <1>2, <2>2, <2>5, ShownStep DEF StreamInv
    <3> QED
      BY <1>1, <1>2, <1>3, <2>1, <2>4, <2>5, <3>1, <3>2
      DEF Proceed, Good, Shown, Ending, AnsweredUnlessInvalid
  <2>6. CASE Loses /\ ~live
    BY <1>1, <1>2, <1>3, <2>1, <2>6 DEF Loses, Quit, Good, Shown, Ending, AnsweredUnlessInvalid
  <2> QED
    BY <1>7, <2>5, <2>6 DEF Write, Reaches
<1>8. CASE Flush(f)
  <2>1. ~Flushed /\ FlushOne /\ UNCHANGED <<phase, terminal, gate, live>>
    BY <1>1, <1>8 DEF Flush, Memory
  <2> QED
    BY <1>1, <2>1, StreamFlush
<1>9. CASE Finish(f)
  <2>1. Admit(f) /\ terminal' = TRUE /\ UNCHANGED <<phase, deferred, frames>> /\ Flushed
    BY <1>9 DEF Finish
  <2>2. CASE Quit("upstream") /\ UNCHANGED <<events, client, shown>>
    BY <1>1, <1>2, <1>3, <2>1, <2>2
    DEF Quit, Flushed, Good, Shown, Ending, AnsweredUnlessInvalid
  <2>3. CASE Shows("terminal", f.slot, IdOf(f)) /\ Stop
    <3>1. Client!Next
      BY <1>2, <2>3, TellingSteps DEF StreamInv
    <3>2. client'.phase = "closed" /\ client'.number = events' /\ client'.last = "terminal"
          /\ (client'.spoken <=> client.spoken)
      BY <1>2, <2>3, ShownEnd DEF StreamInv
    <3> QED
      BY <1>1, <1>2, <1>3, <2>1, <2>3, <3>1, <3>2
      DEF Stop, Flushed, Good, Shown, Ending, AnsweredUnlessInvalid
  <2>4. CASE Loses /\ ~live
    BY <1>1, <1>2, <1>3, <2>1, <2>4
    DEF Loses, Quit, Flushed, Good, Shown, Ending, AnsweredUnlessInvalid
  <2> QED
    BY <1>9, <2>2, <2>3, <2>4 DEF Finish, Reaches
<1> QED
  BY <1>4, <1>5, <1>6, <1>7, <1>8, <1>9 DEF Handle, f

\* A step after the loop is good.
LEMMA StreamAfter ==
  ASSUME StreamInv, After
  PROVE  Good
<1>1. UNCHANGED <<gate, live>>
  BY DEF After, Memory
<1>2. CASE Abandon
  BY <1>1, <1>2 DEF Abandon, Good, StreamInv, Shown, Ending, AnsweredUnlessInvalid, Flushed
<1>3. CASE ReleaseLate
  <2>1. ~terminal /\ failed # "write"
    BY <1>3 DEF ReleaseLate, StreamInv, Shown
  <2> QED
    BY <1>1, <1>3, <2>1, Opening
    DEF ReleaseLate, Good, StreamInv, Shown, Ending, AnsweredUnlessInvalid, Flushed
<1>4. CASE Complete
  BY <1>1, <1>4 DEF Complete, Continues, Good, StreamInv, Shown, Ending, AnsweredUnlessInvalid, Flushed
<1>5. CASE FlushLate
  BY <1>1, <1>5, StreamFlush DEF FlushLate
<1>6. CASE Synthesize
  <2>1. phase = "completing" /\ failed = "none" /\ ~terminal /\ Flushed
        /\ UNCHANGED <<phase, deferred>>
    BY <1>6 DEF Synthesize
  <2>2. /\ client.phase = "open" /\ client.number = events
        /\ client.spoken => gate.sawText
        /\ client.last # "terminal"
    BY <2>1, Listening
  <2>3. CASE Quit("upstream") /\ UNCHANGED <<terminal, events, client, shown>>
    BY <1>1, <2>1, <2>2, <2>3 DEF Quit, Flushed, Good, Shown, Ending, AnsweredUnlessInvalid
  <2>4. CASE Shows("terminal", NoSlot, NoId) /\ Stop /\ terminal' = TRUE
    <3>1. Client!Next
      BY <2>2, <2>4, TellingSteps DEF StreamInv
    <3>2. client'.phase = "closed" /\ client'.number = events' /\ client'.last = "terminal"
          /\ (client'.spoken <=> client.spoken)
      BY <2>2, <2>4, ShownEnd DEF StreamInv
    <3> QED
      BY <1>1, <2>1, <2>2, <2>4, <3>1, <3>2
      DEF Stop, Flushed, Good, Shown, Ending, AnsweredUnlessInvalid
  <2>5. CASE Loses /\ ~live /\ UNCHANGED terminal
    BY <1>1, <2>1, <2>2, <2>5
    DEF Loses, Quit, Flushed, Good, Shown, Ending, AnsweredUnlessInvalid
  <2> QED
    BY <1>6, <2>3, <2>4, <2>5 DEF Synthesize, Reaches
<1>7. CASE End
  <2>1. phase \in {"streaming", "draining", "completing"} /\ phase' = "ended"
        /\ UNCHANGED <<queue, over, failed, terminal, deferred>>
    BY <1>7 DEF End, Settled, Continues
  <2>2. CASE (terminal \/ Aborted) /\ UNCHANGED <<client, events, shown>>
    BY <1>1, <2>1, <2>2
    DEF Good, StreamInv, Shown, Ending, AnsweredUnlessInvalid, Flushed, Aborted
  <2>3. CASE ~terminal /\ ~Aborted /\ Shows("error", NoSlot, NoId)
    <3>1. client.phase = "open" /\ client.number = events
      BY <2>1, <2>3, Listening DEF Aborted
    <3>2. Client!Next
      BY <2>3, <3>1, TellingSteps DEF StreamInv
    <3>3. client'.phase = "closed" /\ client'.last = "error"
      BY <2>3, <3>1, ShownEnd DEF StreamInv
    <3> QED
      BY <1>1, <2>1, <2>3, <3>2, <3>3
      DEF Good, StreamInv, Shown, Ending, AnsweredUnlessInvalid, Flushed, Aborted
  <2> QED
    BY <1>7, <2>2, <2>3 DEF End
<1> QED
  BY <1>2, <1>3, <1>4, <1>5, <1>6, <1>7 DEF After

\* The facade's steps are good, and so is a client that leaves.
LEMMA StreamFacade ==
  ASSUME StreamInv, \/ Retry \/ PassThrough \/ Vanish \/ Cancel \/ UpstreamEnds
                    \/ UNCHANGED vars
  PROVE  Good
<1>1. CASE Retry
  <2>1. client = [phase |-> "silent", number |-> 0, last |-> "none", spoken |-> FALSE]
    BY <1>1 DEF Retry, StreamInv, Shown
  <2> QED
    BY <1>1, <2>1 DEF Retry, Good, Shown, Ending, AnsweredUnlessInvalid
<1>2. CASE PassThrough
  <2>1. client = [phase |-> "silent", number |-> 0, last |-> "none", spoken |-> FALSE]
        /\ ~terminal
    BY <1>2 DEF PassThrough, StreamInv, Shown
  <2>2. client' = [phase |-> "refused", number |-> 0, last |-> "none", spoken |-> FALSE]
    BY <1>2, <2>1 DEF PassThrough
  <2>3. Client!Next
    BY <2>1, <2>2 DEF Client!Next, Client!Refuse
  <2>4. phase' = "ended" /\ UNCHANGED <<over, queue, failed, terminal, deferred, live>>
    BY <1>2 DEF PassThrough
  <2> QED
    BY <2>1, <2>2, <2>3, <2>4 DEF Good, StreamInv, Shown, Ending, AnsweredUnlessInvalid
<1>3. CASE Vanish
  <2>1. phase = "withheld" /\ phase' = "ended" /\ ~live
        /\ UNCHANGED <<over, queue, failed, terminal, events, deferred, client, live>>
    BY <1>3 DEF Vanish
  <2> QED
    BY <2>1 DEF Good, StreamInv, Shown, Ending, AnsweredUnlessInvalid, Flushed
<1>4. CASE Cancel
  <2>1. live' = FALSE /\ phase # "ended"
        /\ UNCHANGED <<phase, over, queue, failed, terminal, events, deferred, gate, client>>
    BY <1>4 DEF Cancel, attemptVars
  <2> QED
    BY <2>1 DEF Good, StreamInv, Shown, Ending, AnsweredUnlessInvalid, Flushed
<1>5. CASE UpstreamEnds
  <2>1. /\ ~over /\ phase \in {"holding", "streaming"} /\ failed' \in {"none", "upstream"}
        /\ over' = TRUE
        /\ UNCHANGED <<phase, queue, terminal, events, deferred, gate, client, live>>
    BY <1>5 DEF UpstreamEnds
  <2> QED
    BY <2>1 DEF Good, StreamInv, Shown, Ending, AnsweredUnlessInvalid, Flushed
<1>6. CASE UNCHANGED vars
  <2>1. UNCHANGED <<phase, over, queue, failed, terminal, events, deferred, gate, client,
                    live>>
    BY <1>6 DEF vars, attemptVars
  <2> QED
    BY <2>1 DEF Good, StreamInv, Shown, Ending, AnsweredUnlessInvalid, Flushed
<1> QED
  BY <1>1, <1>2, <1>3, <1>4, <1>5, <1>6

\* Every step keeps the invariant and is good.
LEMMA StreamStep ==
  ASSUME StreamInv, [Next]_vars
  PROVE  StreamInv' /\ Good
<1>1. Good
  BY StreamReceive, StreamHandle, StreamAfter, StreamFacade DEF Next, Upstream, Handler
<1> QED
  BY <1>1, TypeStep DEF StreamInv, Good

\* The invariant holds throughout.
THEOREM StreamInvariant == Spec => []StreamInv
<1>1. Init => StreamInv
  <2>1. Init => TypeOK
    BY TypeInit
  <2> QED
    BY <2>1 DEF Init, StreamInv, Shown, Ending, AnsweredUnlessInvalid
<1>2. StreamInv /\ [Next]_vars => StreamInv'
  BY StreamStep
<1> QED
  BY <1>1, <1>2, PTL DEF Spec

\* Whatever the upstream sends, and however often the request is repeated,
\* what the client is shown is one EventStream.
THEOREM StreamRefinement == Spec => ClientSeesOneStream
<1>1. Init => Client!Init
  BY DEF Init, Client!Init
<1>2. StreamInv /\ [Next]_vars => [Client!Next]_Client!vars
  BY StreamStep DEF Good, Client!vars
<1> QED
  BY <1>1, <1>2, StreamInvariant, PTL DEF Spec, ClientSeesOneStream, Client!Spec

\* A stream that ends in a terminal event owes no search.
THEOREM SearchesInvariant == Spec => []SearchesReported
<1>1. StreamInv => SearchesReported
  BY DEF StreamInv, Ending, SearchesReported, Flushed
<1> QED
  BY <1>1, StreamInvariant, PTL

\* A client that stays is answered, unless the terminal event was invalid.
THEOREM AnswerInvariant == Spec => []AnsweredUnlessInvalid
<1>1. StreamInv => AnsweredUnlessInvalid
  BY DEF StreamInv, Ending
<1> QED
  BY <1>1, StreamInvariant, PTL

-----------------------------------------------------------------------------
(* Names.                                                                  *)

\* No two slots share an id, and a made-up id stays with the slot it was made
\* up for.
Apart ==
  /\ \A s, o \in Slots : registry[s] # NoId /\ registry[s] = registry[o] => s = o
  /\ \A s, o \in Slots : registry[o] = Fresh[s] => s = o

\* A slot is shown under its id only; nothing is shown before the release.
ShownAsNamed ==
  /\ \A s \in Slots : shown[s] \subseteq {registry[s]} \ {NoId}
  /\ phase \in {"holding", "withheld"} => \A s \in Slots : shown[s] = {}

\* The searches that were put off have ids.
OwedAreNamed == \A i \in 1..Len(deferred) : registry[deferred[i]] # NoId

\* The gate remembers the ids of the late items.
LateAreNamed ==
  /\ \A s \in late : registry[s] # NoId
  /\ gate.dropped = {registry[s] : s \in late}

NameInv == TypeOK /\ Apart /\ ShownAsNamed /\ OwedAreNamed /\ LateAreNamed

\* A name that was given stays.
Lasting == \A s \in Slots : registry[s] # NoId => registry'[s] = registry[s]

\* The registry names a slot once, and no two alike.
LEMMA Registering ==
  ASSUME TypeOK, Apart, NEW f \in Frames, registry' = Registered(f)
  PROVE  /\ Apart' /\ Lasting
         /\ Placed(f) => f.slot \in Slots /\ registry'[f.slot] = Assigned(f)
                         /\ Assigned(f) # NoId
<1>1. CASE ~Placed(f)
  BY <1>1 DEF Registered, Apart, Lasting
<1>2. CASE Placed(f) /\ registry[f.slot] # NoId
  <2>1. f.slot \in Slots /\ registry' = registry
    BY <1>2, Naming DEF Registered, Assigned, TypeOK
  <2> QED
    BY <1>2, <2>1 DEF Apart, Lasting, Assigned
<1>3. CASE Placed(f) /\ registry[f.slot] = NoId
  <2>1. f.slot \in Slots /\ Assigned(f) \in Ids
        /\ registry' = [registry EXCEPT ![f.slot] = Assigned(f)]
    BY <1>3, Naming DEF Registered
  <2>2. \A s \in Slots : registry'[s] = IF s = f.slot THEN Assigned(f) ELSE registry[s]
    BY <2>1 DEF TypeOK
  <2>3. Assigned(f) # NoId
    BY <2>1, StreamAssumption
  <2>4. CASE f.id = NoId \/ Collides(f.slot, f.id)
    <3>1. Assigned(f) = Fresh[f.slot]
      BY <1>3, <2>4 DEF Assigned
    <3>2. \A o \in Slots : registry[o] # Fresh[f.slot]
      BY <1>3, <2>1, <2>3, <3>1 DEF Apart
    <3>3. \A s \in Slots : Fresh[s] = Fresh[f.slot] => s = f.slot
      BY <2>1, StreamAssumption
    <3> QED
      BY <1>3, <2>1, <2>2, <2>3, <3>1, <3>2, <3>3 DEF Apart, Lasting
  <2>5. CASE f.id # NoId /\ ~Collides(f.slot, f.id)
    <3>1. Assigned(f) = f.id /\ \A o \in Slots \ {f.slot} : registry[o] # f.id
      BY <1>3, <2>5 DEF Assigned, Collides
    <3>2. \A s \in Slots : Fresh[s] # f.id
      BY StreamAssumption
    <3> QED
      BY <1>3, <2>1, <2>2, <2>3, <3>1, <3>2 DEF Apart, Lasting
  <2> QED
    BY <2>4, <2>5
<1> QED
  BY <1>1, <1>2, <1>3

\* What is named stays named, whatever is handled.
LEMMA Staying ==
  ASSUME NameInv, Lasting
  PROVE  /\ \A s \in Slots : shown[s] \subseteq {registry'[s]} \ {NoId}
         /\ \A i \in 1..Len(deferred) : registry'[deferred[i]] # NoId
         /\ \A s \in late : registry'[s] # NoId
         /\ gate.dropped = {registry'[s] : s \in late}
<1>1. \A s \in Slots : shown[s] \subseteq {registry'[s]} \ {NoId}
  BY DEF NameInv, ShownAsNamed, Lasting
<1>2. \A i \in 1..Len(deferred) : deferred[i] \in Slots
  BY ElementOfSeq DEF NameInv, TypeOK
<1>3. \A i \in 1..Len(deferred) : registry'[deferred[i]] # NoId
  BY <1>2 DEF NameInv, OwedAreNamed, Lasting
<1>4. \A s \in late : s \in Slots /\ registry'[s] = registry[s] /\ registry'[s] # NoId
  BY DEF NameInv, TypeOK, LateAreNamed, Lasting
<1> QED
  BY <1>1, <1>3, <1>4 DEF NameInv, LateAreNamed

\* A frame that is admitted.
LEMMA NameAdmit ==
  ASSUME NameInv, NEW f \in Frames, Admit(f)
  PROVE  /\ Apart' /\ Lasting /\ LateAreNamed'
         /\ Placed(f) => f.slot \in Slots /\ registry'[f.slot] = Assigned(f)
                         /\ Assigned(f) # NoId
<1>1. /\ Apart' /\ Lasting
      /\ Placed(f) => f.slot \in Slots /\ registry'[f.slot] = Assigned(f)
                      /\ Assigned(f) # NoId
  BY Registering DEF NameInv, Admit
<1>2. LateAreNamed'
  <2>1. /\ \A s \in late : registry'[s] # NoId
        /\ gate.dropped = {registry'[s] : s \in late}
    BY <1>1, Staying
  <2>2. gate'.dropped = gate.dropped \cup (IF LateItem(f) THEN {Assigned(f)} ELSE {})
    BY DEF Admit, Gated
  <2>3. CASE LateItem(f)
    <3>1. registry'[f.slot] = Assigned(f) /\ Assigned(f) # NoId
      BY <1>1, <2>3, ItemsPlaced DEF LateItem
    <3>2. late' = late \cup {f.slot}
      BY <2>3 DEF Admit
    <3> QED
      BY <2>1, <2>2, <2>3, <3>1, <3>2 DEF LateAreNamed
  <2>4. CASE ~LateItem(f)
    <3>1. late' = late
      BY <2>4 DEF Admit
    <3> QED
      BY <2>1, <2>2, <2>4, <3>1 DEF LateAreNamed
  <2> QED
    BY <2>3, <2>4
<1> QED
  BY <1>1, <1>2

\* An event that is shown under its slot's name.
LEMMA NameShown ==
  ASSUME NameInv, Lasting, NEW kind, NEW slot, NEW id, Shows(kind, slot, id),
         slot = NoSlot \/ (slot \in Slots /\ id = registry'[slot] /\ id # NoId)
  PROVE  \A s \in Slots : shown'[s] \subseteq {registry'[s]} \ {NoId}
<1>1. \A s \in Slots : shown[s] \subseteq {registry'[s]} \ {NoId}
  BY Staying
<1>2. CASE slot = NoSlot
  BY <1>1, <1>2 DEF Shows
<1>3. CASE slot # NoSlot
  <2>1. shown' = [shown EXCEPT ![slot] = @ \cup {id}]
    BY <1>3 DEF Shows
  <2>2. \A s \in Slots : shown'[s] = IF s = slot THEN shown[s] \cup {id} ELSE shown[s]
    BY <2>1 DEF NameInv, TypeOK
  <2> QED
    BY <1>1, <1>3, <2>2
<1> QED
  BY <1>2, <1>3

\* The names that a flush uses.
LEMMA NameFlush ==
  ASSUME NameInv, ~Flushed, FlushOne, UNCHANGED <<registry, gate, seen, late>>,
         phase' \notin {"holding", "withheld"}
  PROVE  Apart' /\ ShownAsNamed' /\ OwedAreNamed' /\ LateAreNamed'
<1>1. Apart' /\ LateAreNamed' /\ Lasting
  BY DEF NameInv, Apart, LateAreNamed, Lasting
<1>2. CASE Shows("other", Head(deferred), registry[Head(deferred)])
           /\ deferred' = Tail(deferred)
  <2>1. deferred \in Seq(Slots) /\ deferred # <<>>
    BY DEF NameInv, TypeOK, Flushed
  <2>2. Head(deferred) = deferred[1] /\ 1 \in 1..Len(deferred) /\ Head(deferred) \in Slots
    BY <2>1, HeadTailProperties, LenProperties, EmptySeq
  <2>3. registry[Head(deferred)] # NoId
    BY <2>2 DEF NameInv, OwedAreNamed
  <2>4. ShownAsNamed'
    BY <1>1, <1>2, <2>2, <2>3, NameShown DEF ShownAsNamed
  <2>5. OwedAreNamed'
    <3>1. \A i \in 1..Len(Tail(deferred)) :
             Tail(deferred)[i] = deferred[i + 1] /\ i + 1 \in 1..Len(deferred)
      BY <2>1, HeadTailProperties, LenProperties
    <3> QED
      BY <1>2, <3>1 DEF NameInv, OwedAreNamed
  <2> QED
    BY <1>1, <2>4, <2>5
<1>3. CASE Loses /\ UNCHANGED deferred
  BY <1>1, <1>3 DEF Loses, NameInv, ShownAsNamed, OwedAreNamed
<1> QED
  BY <1>2, <1>3 DEF FlushOne

\* A frame that is handled keeps the names.
LEMMA NameHandle ==
  ASSUME NameInv, Handle
  PROVE  Apart' /\ ShownAsNamed' /\ OwedAreNamed' /\ LateAreNamed'
<1> DEFINE f == Head(queue)
<1>1. phase \in {"streaming", "draining"} /\ f \in Frames
  BY HeadOfQueue DEF Handle, NameInv
<1> HIDE DEF f
<1>2. CASE Unnumbered(f) \/ Reject(f)
  <2>1. UNCHANGED <<phase, registry, gate, late, deferred, shown>>
    BY <1>2 DEF Unnumbered, Reject, Memory
  <2> QED
    BY <2>1 DEF NameInv, Apart, ShownAsNamed, OwedAreNamed, LateAreNamed
<1>3. CASE Flush(f)
  BY <1>1, <1>3, NameFlush DEF Flush, Memory
<1>4. CASE Drop(f) \/ Defer(f) \/ Write(f) \/ Finish(f)
  <2>1. Admit(f) /\ UNCHANGED phase
    BY <1>4 DEF Drop, Defer, Write, Finish
  <2>2. /\ Apart' /\ Lasting /\ LateAreNamed'
        /\ Placed(f) => f.slot \in Slots /\ registry'[f.slot] = Assigned(f)
                        /\ Assigned(f) # NoId
    BY <1>1, <2>1, NameAdmit
  <2>3. \A i \in 1..Len(deferred) : registry'[deferred[i]] # NoId
    BY <2>2, Staying
  <2>4. \A s \in Slots : shown[s] \subseteq {registry'[s]} \ {NoId}
    BY <2>2, Staying
  <2>5. OwedAreNamed'
    <3>1. CASE UNCHANGED deferred
      BY <2>3, <3>1 DEF OwedAreNamed
    <3>2. CASE Defer(f)
      <4>1. deferred' = Append(deferred, f.slot) /\ Placed(f)
        BY <1>1, <3>2, ItemsPlaced DEF Defer
      <4>2. deferred \in Seq(Slots) /\ f.slot \in Slots /\ registry'[f.slot] # NoId
        BY <2>2, <4>1 DEF NameInv, TypeOK
      <4>3. /\ Len(deferred') = Len(deferred) + 1 /\ Len(deferred) \in Nat
            /\ \A i \in 1..Len(deferred) : deferred'[i] = deferred[i]
            /\ deferred'[Len(deferred) + 1] = f.slot
        BY <4>1, <4>2, AppendProperties, LenProperties
      <4>4. \A i \in 1..Len(deferred') : i \in 1..Len(deferred) \/ i = Len(deferred) + 1
        BY <4>3
      <4> QED
        BY <2>3, <4>2, <4>3, <4>4 DEF OwedAreNamed
    <3> QED
      BY <1>4, <3>1, <3>2 DEF Drop, Write, Finish
  <2>6. ShownAsNamed'
    <3>1. CASE UNCHANGED shown
      BY <1>1, <2>1, <2>4, <3>1 DEF ShownAsNamed
    <3>2. ASSUME NEW kind, Shows(kind, f.slot, IdOf(f))
          PROVE  ShownAsNamed'
      <4>1. f.slot = NoSlot
            \/ (f.slot \in Slots /\ IdOf(f) = registry'[f.slot] /\ IdOf(f) # NoId)
        BY <2>2 DEF Placed, IdOf
      <4> QED
        BY <1>1, <2>1, <2>2, <3>2, <4>1, NameShown DEF ShownAsNamed
    <3>3. UNCHANGED shown \/ \E kind \in {"terminal", Visible(f)} : Shows(kind, f.slot, IdOf(f))
      BY <1>4 DEF Drop, Defer, Write, Finish, Loses
    <3> QED
      BY <3>1, <3>2, <3>3
  <2> QED
    BY <2>2, <2>5, <2>6
<1> QED
  BY <1>2, <1>3, <1>4 DEF Handle, f

\* Every step keeps the names.
LEMMA NameStep ==
  ASSUME NameInv, [Next]_vars
  PROVE  NameInv'
<1>1. CASE Handle
  BY <1>1, NameHandle, TypeStep DEF NameInv
<1>2. CASE FlushLate /\ UNCHANGED <<Memory, frames, live, absorbs, attempt>>
  <2>1. ~Flushed /\ FlushOne /\ phase' \notin {"holding", "withheld"}
        /\ UNCHANGED <<registry, gate, seen, late>>
    BY <1>2 DEF FlushLate, Memory
  <2> QED
    BY <2>1, NameFlush, TypeStep DEF NameInv
<1>3. CASE Retry
  <2>1. /\ registry' = NoName /\ gate' = NoText /\ late' = {} /\ deferred' = <<>>
        /\ UNCHANGED shown /\ phase = "withheld"
    BY <1>3 DEF Retry
  <2>2. \A s \in Slots : shown[s] = {} /\ registry'[s] = NoId
    BY <2>1 DEF NameInv, ShownAsNamed, NoName
  <2>3. Apart'
    BY <2>2, StreamAssumption DEF Apart
  <2>4. ShownAsNamed' /\ OwedAreNamed' /\ LateAreNamed'
    BY <2>1, <2>2 DEF ShownAsNamed, OwedAreNamed, LateAreNamed, NoText
  <2> QED
    BY <2>3, <2>4, TypeStep DEF NameInv
<1>4. ASSUME UNCHANGED <<registry, gate, late, deferred>>,
             shown' = shown, phase' \in {"holding", "withheld"} => phase = "holding" \/ phase' = phase
      PROVE  NameInv'
  BY <1>4, TypeStep DEF NameInv, Apart, ShownAsNamed, OwedAreNamed, LateAreNamed
<1>5. ASSUME NEW f \in Frames, Receive(f)
      PROVE  NameInv'
  <2>1. phase' \in {"holding", "withheld"} => phase = "holding"
    BY <1>5 DEF Receive, Reads, Hold, Withhold, Release, Take
  <2> QED
    BY <1>4, <1>5, <2>1 DEF Receive, Reads
<1>6. CASE UpstreamEnds \/ PassThrough \/ Vanish \/ Cancel \/ UNCHANGED vars
  <2>1. UNCHANGED <<registry, gate, late, deferred>> /\ shown' = shown
        /\ (phase' = phase \/ phase' = "ended")
    BY <1>6 DEF UpstreamEnds, PassThrough, Vanish, Cancel, vars, attemptVars, Memory
  <2> QED
    BY <1>4, <2>1
<1>7. CASE /\ Abandon \/ ReleaseLate \/ Complete \/ Synthesize \/ End
           /\ UNCHANGED <<Memory, frames, live, absorbs, attempt>>
  <2>1. shown' = shown /\ deferred' = deferred
    BY <1>7 DEF Abandon, ReleaseLate, Complete, Synthesize, End, Shows, Loses
  <2>2. UNCHANGED <<registry, gate, late>>
    BY <1>7 DEF Memory
  <2>3. phase' \in {"streaming", "draining", "completing", "ended"}
    BY <1>7 DEF Abandon, ReleaseLate, Complete, Synthesize, End
  <2> QED
    BY <1>4, <2>1, <2>2, <2>3
<1> QED
  BY <1>1, <1>2, <1>3, <1>5, <1>6, <1>7 DEF Next, Upstream, Handler, After

\* The names hold throughout.
THEOREM NameInvariant == Spec => []NameInv
<1>1. Init => NameInv
  <2> SUFFICES ASSUME Init PROVE NameInv
    OBVIOUS
  <2>1. \A s \in Slots : registry[s] = NoId /\ shown[s] = {}
    BY DEF Init, NoName
  <2>2. Apart
    BY <2>1, StreamAssumption DEF Apart
  <2> QED
    BY <2>1, <2>2, TypeInit
    DEF Init, NameInv, ShownAsNamed, OwedAreNamed, LateAreNamed, NoText
<1>2. NameInv /\ [Next]_vars => NameInv'
  BY NameStep
<1> QED
  BY <1>1, <1>2, PTL DEF Spec

\* The client never sees two slots under one id, nor one under two.
THEOREM IdsInvariant == Spec => []IdsApart
<1>1. NameInv => IdsApart
  BY DEF NameInv, Apart, ShownAsNamed, IdsApart
<1> QED
  BY <1>1, NameInvariant, PTL

\* The gate drops the thoughts of late items and of no others.
THEOREM GateInvariant == Spec => []DropsOnlyLate
<1>1. NameInv => DropsOnlyLate
  <2> SUFFICES ASSUME NameInv, NEW s \in Slots
               PROVE  registry[s] \in gate.dropped <=> s \in late
    BY DEF DropsOnlyLate
  <2>1. gate.dropped = {registry[o] : o \in late}
        /\ \A o \in late : o \in Slots /\ registry[o] # NoId
    BY DEF NameInv, TypeOK, LateAreNamed
  <2>2. \A o \in late : registry[o] = registry[s] => o = s
    BY <2>1 DEF NameInv, Apart
  <2> QED
    BY <2>1, <2>2
<1> QED
  BY <1>1, NameInvariant, PTL
=============================================================================
