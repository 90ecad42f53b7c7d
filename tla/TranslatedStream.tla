-------------------------- MODULE TranslatedStream --------------------------
(***************************************************************************)
(* A streaming Responses request whose upstream speaks another protocol:   *)
(* streamMessagesSSE and streamChatSSE (internal/proxy/facade_stream.go)   *)
(* with their writer, their content watchdog and the translation of the    *)
(* frames (MessagesTranslation, ChatTranslation); or, if the upstream      *)
(* ignored stream=true, writeTranslatedResponse (BufferedAnswer).          *)
(*                                                                         *)
(* What a handler changes before it comes to a loop, or in one turn of it, *)
(* is one step, and the events it emits follow one by one: if a write      *)
(* fails, nothing reads the state any more.                                *)
(* The watchdog's timer runs in a goroutine of its own; frames the scanner *)
(* has buffered are still handled after it has closed the body.            *)
(***************************************************************************)
EXTENDS BufferedAnswer, ChatTranslation

CONSTANTS MessagesFrames, ChatFrames,  \* what an upstream may send
          MessagesBodies, ChatBodies,  \* or answer at once
          MaxFrames                    \* bound: frames that are no heartbeats

ASSUME TranslatedAssumption ==
  /\ Blocks \subseteq Nat /\ Tools \subseteq Nat /\ NoCallId \notin CallIds
  /\ MessagesFrames \subseteq MessagesFrame /\ ChatFrames \subseteq ChatFrame
  /\ MessagesBodies \subseteq [blocks : Seq(BodyBlock), evidence : BOOLEAN]
  /\ ChatBodies \subseteq [thought : BOOLEAN, searched : BOOLEAN, calls : Nat,
                          text : {"none", "blank", "text"}]
  /\ MaxFrames \in Nat

VARIABLES
  protocol,  \* the upstream's: "messages" or "chat"
  client,    \* what the client was shown: the state of an ItemStream
  live,      \* the request's context is not done
  phase,     \* "starting", "scanning", "finishing", "judging", "completing",
             \* "concluding", "converting", "buffered" or "ended"
  over,      \* scanSSEPayloads has returned
  state,     \* messagesStreamState, chatStreamState or the body of a buffered answer
  out,       \* the events the running handler has yet to emit
  outcome,   \* what it returns then: "ok" or "bad", or "none" when none runs
  failed,    \* streamErr: "none", "upstream" or "write" (writeFailed)
  sequence,  \* the writer's next sequence number
  watched,   \* the route has a content watchdog
  fired,     \* it has fired and closed the body
  frames     \* frames so far

scan == <<over, failed>>
vars == <<protocol, client, live, phase, scan, state, out, outcome, sequence, watched, fired, frames>>

Initial(p, hosted) == IF p = "messages" THEN MessagesInit(hosted) ELSE ChatInit(hosted)

Init ==
  /\ protocol \in {"messages", "chat"} /\ watched \in BOOLEAN /\ live = TRUE
  /\ state \in {Initial(protocol, hosted) : hosted \in BOOLEAN}
  /\ client = [phase |-> "silent", number |-> 0, last |-> "none", spoken |-> FALSE, about |-> 0,
               items |-> <<>>]
  /\ phase = "starting" /\ out = <<>> /\ outcome = "none"
  /\ over = FALSE /\ failed = "none" /\ fired = FALSE
  /\ sequence = 0 /\ frames = 0

-----------------------------------------------------------------------------
(* The writer, as the client sees it.                                      *)

Kept(e) ==
  CASE e.kind = "terminal" -> "terminal" [] e.kind = "error" -> "error"
    [] e.kind = "text" -> "text" [] e.kind = "thought" -> "thought"
    [] e.kind = "added" /\ e.type = "reasoning" -> "thought"
    [] OTHER -> "other"

ItemAfter(item, kind) ==
  CASE kind = "part" -> [item EXCEPT !.part = "open"]
    [] kind = "partDone" -> [item EXCEPT !.part = "closed"]
    [] kind = "done" -> [item EXCEPT !.done = TRUE]
    [] OTHER -> item

ItemsAfter(items, e) ==
  IF e.kind = "added"
  THEN [i \in DOMAIN items \cup {e.item} |->
          IF i = e.item THEN [type |-> e.type, part |-> "none", done |-> FALSE] ELSE items[i]]
  ELSE [i \in DOMAIN items |-> IF i = e.item THEN ItemAfter(items[i], e.kind) ELSE items[i]]

\* A client that has seen the end of its stream reads no further.
Shows(e) ==
  /\ sequence' = sequence + 1
  /\ client' =
       IF client.phase = "closed" THEN client
       ELSE [phase |-> IF e.kind \in {"terminal", "error"} THEN "closed" ELSE "open",
             number |-> sequence + 1, last |-> Kept(e),
             spoken |-> client.spoken \/ e.kind = "text", about |-> e.item,
             items |-> ItemsAfter(client.items, e)]

\* Once the request is cancelled, a write may fail or still get through.
Reaches == IF live THEN {TRUE} ELSE BOOLEAN

\* A failed write is the error its handler returns; of a buffered answer the
\* rest is written all the same, and lost.
WriteFails == failed' = "write" /\ outcome' = "bad" /\ out' = <<>>

Emit ==
  /\ out # <<>>
  /\ \E ok \in Reaches :
       IF ok THEN Shows(Head(out)) /\ out' = Tail(out) /\ UNCHANGED <<failed, outcome>>
       ELSE WriteFails /\ UNCHANGED <<client, sequence>>
  /\ UNCHANGED <<protocol, live, phase, over, state, watched, fired, frames>>

\* beginTranslatedStream sends the headers; emitStart follows.
Begin ==
  /\ phase = "starting" /\ client.phase = "silent"
  /\ client' = [client EXCEPT !.phase = "open"]
  /\ out' = Opening /\ outcome' = "ok"
  /\ UNCHANGED <<protocol, live, phase, scan, state, sequence, watched, fired, frames>>

\* A body that is unreadable, a page or invalid is answered with 502.
Refuse ==
  /\ phase = "starting" /\ client.phase = "silent"
  /\ \E ok \in Reaches : client' = IF ok THEN [client EXCEPT !.phase = "refused"] ELSE client
  /\ phase' = "ended"
  /\ UNCHANGED <<protocol, live, scan, state, out, outcome, sequence, watched, fired, frames>>

\* The whole answer is at hand.  It is converted before anything is sent; a
\* message of Chat Completions in one step, as its parts have fixed places.
Answers(converted) ==
  /\ phase = "starting" /\ client.phase = "silent" /\ phase' = "converting"
  /\ state' = converted
  /\ UNCHANGED <<protocol, client, live, scan, out, outcome, sequence, watched, fired, frames>>

BufferedMessages(body) ==
  /\ protocol = "messages" /\ ValidBody(body, state.hosted)
  /\ Answers(Answer(body, state.hosted))
BufferedChat(body) == protocol = "chat" /\ Answers(FromChat(body, state.hosted))

\* Then it is replayed; no watchdog is set up.
Replay(converted) ==
  /\ client' = [client EXCEPT !.phase = "open"]
  /\ phase' = "buffered" /\ watched' = FALSE
  /\ state' = converted /\ out' = Opening /\ outcome' = "ok"

Convert ==
  /\ phase = "converting"
  /\ IF protocol = "chat" THEN Replay(state)
     ELSE IF state.taken = Len(state.body.blocks) THEN Replay(Converted(state))
     ELSE /\ state' = TakeBlock(state, state.body.blocks[state.taken + 1])
          /\ UNCHANGED <<client, phase, watched, out, outcome>>
  /\ UNCHANGED <<protocol, live, scan, sequence, fired, frames>>

-----------------------------------------------------------------------------
(* scanSSEPayloads and the frames.                                         *)

Reading == phase = "scanning" /\ ~over /\ outcome = "none"

\* Heartbeats are passed on without a number and leave no trace; a closed body,
\* or a cancelled request, gives no more of them.
BodyOpenWhileLive == live
BodyOpen == live /\ ~fired

Runs(results) == \E r \in results :
  state' = r.state /\ out' = r.out /\ outcome' = IF r.bad THEN "bad" ELSE "ok"

Take(f, results) ==
  /\ frames < MaxFrames /\ frames' = frames + 1
  /\ Runs(results)
  /\ UNCHANGED <<protocol, client, live, phase, scan, sequence, watched, fired>>

TakeMessages(f) ==
  /\ Reading /\ protocol = "messages" /\ MessagesSends(state, f)
  /\ Take(f, HandleMessages(state, f))
TakeChat(f) == Reading /\ protocol = "chat" /\ Take(f, HandleChat(state, f))

\* The body ends cleanly or with a read error.
BodyEnds ==
  /\ Reading
  /\ over' = TRUE /\ failed' \in {"none", "upstream"}
  /\ UNCHANGED <<protocol, client, live, phase, state, out, outcome, sequence, watched, fired, frames>>

\* The next turn of a loop of finish or of the replay.
NextTurn ==
  IF phase = "buffered" THEN ReplayTurn(state)
  ELSE IF protocol = "messages" THEN MessagesFinishTurn(state) ELSE ChatFinishTurn(state)

Continue ==
  /\ out = <<>> /\ outcome = "ok" /\ state.finishing
  /\ Runs(NextTurn)
  /\ UNCHANGED <<protocol, client, live, phase, scan, sequence, watched, fired, frames>>

\* The handler of a frame returns: an error or the end of the stream stops the
\* scan (errSSEStreamComplete).
Return ==
  /\ out = <<>> /\ (outcome = "bad" \/ (outcome = "ok" /\ ~state.finishing))
  /\ outcome' = "none"
  /\ failed' = IF outcome = "bad" /\ failed = "none" THEN "upstream" ELSE failed
  /\ CASE phase = "starting" ->
            phase' = (IF failed = "write" THEN "ended" ELSE "scanning") /\ UNCHANGED over
       [] phase = "scanning" -> over' = (outcome = "bad" \/ state.terminal) /\ UNCHANGED phase
       [] phase = "finishing" -> phase' = "judging" /\ UNCHANGED over
       [] phase = "buffered" -> phase' = "ended" /\ UNCHANGED over
       [] phase = "completing" -> phase' = "concluding" /\ UNCHANGED over
  /\ UNCHANGED <<protocol, client, live, state, out, sequence, watched, fired, frames>>

-----------------------------------------------------------------------------
(* After the scan.                                                         *)

Aborted == failed = "write" \/ ~live

StoppedChat == failed = "none" /\ ~state.terminal /\ state.finishReason /\ ~Aborted

\* streamChatSSE: a finish reason stands for the missing [DONE].
Review ==
  /\ phase = "scanning" /\ over
  /\ IF protocol = "chat" /\ StoppedChat
     THEN phase' = "finishing" /\ Runs(ChatFinish(state))
     ELSE phase' = "judging" /\ UNCHANGED <<state, out, outcome>>
  /\ UNCHANGED <<protocol, client, live, scan, sequence, watched, fired, frames>>

\* emitStreamError, whose own write may fail unnoticed.
Breaks ==
  /\ IF failed = "write" THEN UNCHANGED <<client, sequence>>
     ELSE \E ok \in Reaches :
            IF ok THEN Shows(ErrorEvent) ELSE UNCHANGED <<client, sequence>>
  /\ phase' = "ended"

Ends == phase' = "ended" /\ UNCHANGED <<client, sequence>>

Unended == ~state.terminal

\* The watchdog is asked first, then whether anyone is left, then for errors.
\* streamMessagesSSE: a stop reason stands for the missing message_stop.
Judge ==
  /\ phase = "judging" /\ outcome = "none"
  /\ UNCHANGED <<protocol, live, scan, watched, fired, frames>>
  /\ \/ fired /\ Breaks /\ UNCHANGED <<state, out, outcome>>
     \/ ~fired /\ Aborted /\ Ends /\ UNCHANGED <<state, out, outcome>>
     \/ ~fired /\ ~Aborted /\ failed = "upstream" /\ Breaks /\ UNCHANGED <<state, out, outcome>>
     \/ /\ ~fired /\ ~Aborted /\ failed = "none"
        /\ IF Unended /\ protocol = "messages" /\ state.stopReason
           THEN /\ phase' = "completing" /\ Runs(MessagesFinish(state))
                /\ UNCHANGED <<client, sequence>>
           ELSE /\ IF Unended THEN Breaks ELSE Ends
                /\ UNCHANGED <<state, out, outcome>>

\* After the late finish the watchdog is not asked again.
Conclusion ==
  /\ phase = "concluding"
  /\ IF failed = "none" \/ Aborted THEN Ends ELSE Breaks
  /\ UNCHANGED <<protocol, live, scan, state, out, outcome, watched, fired, frames>>

\* The timer of the watchdog, which everything that is emitted sets back: it
\* does not run out between the last event and the end of the handler.
Fire ==
  /\ watched /\ ~fired /\ phase \notin {"starting", "converting", "ended"} /\ outcome = "none"
  /\ client.phase # "closed"
  /\ fired' = TRUE
  /\ UNCHANGED <<protocol, client, live, phase, scan, state, out, outcome, sequence, watched, frames>>

\* The client leaves, or Disable or Stop cancels the upstream requests.
Cancel ==
  /\ live /\ phase # "ended" /\ live' = FALSE
  /\ UNCHANGED <<protocol, client, phase, scan, state, out, outcome, sequence, watched, fired, frames>>

-----------------------------------------------------------------------------
Upstream ==
  \/ BodyEnds
  \/ \E f \in MessagesFrames : TakeMessages(f)
  \/ \E f \in ChatFrames : TakeChat(f)
  \/ phase = "starting" /\ \E body \in MessagesBodies : BufferedMessages(body)
  \/ phase = "starting" /\ \E body \in ChatBodies : BufferedChat(body)
  \/ Refuse
Handler == Begin \/ Convert \/ Emit \/ Continue \/ Return \/ Review \/ Judge \/ Conclusion

Next == Upstream \/ Handler \/ Fire \/ Cancel

Spec == Init /\ [][Next]_vars

\* An upstream that sends nothing but heartbeats owes us nothing; the timer, a
\* closed body or a cancelled request, and the handler do.
FairSpec ==
  /\ Spec /\ WF_vars(Handler) /\ WF_vars(Fire)
  /\ WF_vars(~BodyOpen /\ BodyEnds)
-----------------------------------------------------------------------------
(* Properties.                                                             *)

\* What the client is shown is one ItemStream: items are announced under their
\* index, parts are opened and closed around their deltas, nothing is said of an
\* item that is done, no visible reasoning follows text, and a terminal event
\* leaves nothing open -- whatever blocks, calls and searches the upstream mixes,
\* and although done blocks are stopped again and searches end in several places.
Client == INSTANCE ItemStream
            WITH phase <- client.phase, number <- client.number, last <- client.last,
                 spoken <- client.spoken, about <- client.about, items <- client.items
ClientSeesItems == Client!Spec

\* A completed answer has reported every tool call and every search that the
\* upstream began, also those that were still waiting for a name, arguments,
\* sources or their stop.
Reported(item, type) ==
  item \in DOMAIN client.items /\ client.items[item].type = type /\ client.items[item].done

ReportedOf(type) == Cardinality({i \in DOMAIN client.items : Reported(i, type)})

CallsReported ==
  client.last = "terminal" =>
    CASE "body" \in DOMAIN state ->
           /\ ReportedOf("function_call") = CallsIn(state.body)
           /\ ReportedOf("web_search_call") >= SearchesIn(state.body)
      [] protocol = "chat" /\ "body" \notin DOMAIN state ->
           \A i \in Tools : state.tools[i].seen => Reported(state.tools[i].item, "function_call")
      [] OTHER ->
           /\ \A i \in Blocks : state.blocks[i].kind = "tool_use"
                                => Reported(state.blocks[i].item, "function_call")
           /\ \A c \in state.calls : Reported(c.item, "web_search_call")

\* A stream that is over, cancelled or watched ends; a watched one ends although
\* the upstream goes on sending heartbeats for ever.  Whoever has stayed until
\* then has the end of the stream, or the refusal.
StreamEnds ==
  (over \/ ~live \/ watched) ~> phase = "ended" /\ (live => client.phase \in {"closed", "refused"})
=============================================================================
