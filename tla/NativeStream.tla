---------------------------- MODULE NativeStream ----------------------------
(***************************************************************************)
(* A streaming request whose upstream speaks the client's own protocol,    *)
(* Chat Completions or Messages: streamNativeSSE                           *)
(* (internal/proxy/facade_stream.go) with its rectifiers (ChatRectifier,   *)
(* MessagesRectifier), its content watchdog and what it puts in place of a *)
(* missing end.                                                            *)
(*                                                                         *)
(* The rectifiers' work on a frame is one step, and the frames it results  *)
(* in are written one by one.                                              *)
(***************************************************************************)
EXTENDS ChatRectifier, MessagesRectifier

CONSTANTS ChatFrames, MessagesFrames,  \* what an upstream may send
          MessagesBodies, ChatBodies,  \* or answer at once
          MaxFrames                    \* bound: frames that are no heartbeats

ASSUME NativeAssumption ==
  /\ Calls \subseteq Nat /\ Demanding \subseteq Calls /\ Blocks \subseteq Nat
  /\ ChatFrames \subseteq ChatFrame /\ MessagesFrames \subseteq MessagesFrame
  /\ ChatBodies \subseteq ChatBody /\ MessagesBodies \subseteq Seq(BodyBlock)
  /\ MaxFrames \in Nat

VARIABLES
  protocol,  \* "chat" or "messages"
  client,    \* what the client was shown: an EventStream, and its calls or blocks
  live,      \* the request's context is not done
  phase,     \* "starting", "scanning", "flushing", "judging", "buffered"
             \* or "ended"
  over,      \* scanSSEPayloads has returned
  state,     \* the state of the rectifiers, terminal and protocolTerminal
  out,       \* the burst the running handler has yet to write
  outcome,   \* what it returns then: "ok" or "bad", or "none" when none runs
  failed,    \* streamErr: "none", "upstream" or "write" (clientWriteFailed)
  fired,     \* the watchdog has closed the body
  frames,    \* frames so far
  afterEnd   \* history: frames written after the end of the client's stream

\* The blocks and calls a client may be told of.
Places == Calls \cup Blocks \cup UNION {DOMAIN blocks : blocks \in MessagesBodies}

vars == <<protocol, client, live, phase, over, state, out, outcome, failed, fired, frames, afterEnd>>

Init ==
  /\ \/ protocol = "chat" /\ state = ChatInit
     \/ protocol = "messages" /\ state \in {MessagesInit(hosted) : hosted \in BOOLEAN}
  /\ client = [phase |-> "silent", number |-> 0, last |-> "none", spoken |-> FALSE, texts |-> 0,
               blocks |-> [i \in Places |-> "none"], confused |-> FALSE]
  /\ live = TRUE /\ phase = "starting" /\ over = FALSE /\ failed = "none" /\ fired = FALSE
  /\ out = Only(<<>>) /\ outcome = "none" /\ frames = 0 /\ afterEnd = 0

-----------------------------------------------------------------------------
(* Writing, as the client sees it.                                         *)

\* A block or call is started, continued and stopped, in this order.
Follows == [start |-> {"none"}, delta |-> {"open"}, stop |-> {"open"}]
BlockAfter(about) == IF about = "stop" THEN "stopped" ELSE "open"

\* A client that has seen the end of its stream reads no further.
Shows(e) ==
  IF client.phase = "closed" THEN afterEnd' = afterEnd + 1 /\ UNCHANGED client
  ELSE
    /\ client' =
         [phase |-> IF e.kind \in {"terminal", "error"} THEN "closed" ELSE "open",
          number |-> client.number + 1, last |-> e.kind,
          spoken |-> client.spoken \/ e.kind = "text",
          texts |-> client.texts + (IF e.kind = "text" THEN 1 ELSE 0),
          blocks |-> IF e.type = "none" THEN client.blocks
                     ELSE [client.blocks EXCEPT ![e.item] = BlockAfter(e.type)],
          confused |-> client.confused
                       \/ (e.type # "none" /\ client.blocks[e.item] \notin Follows[e.type])]
    /\ UNCHANGED afterEnd

\* Once the request is cancelled, a write may fail or still get through; after
\* one that failed none does.
Reaches == IF live THEN {TRUE} ELSE IF failed = "write" THEN {FALSE} ELSE BOOLEAN

\* A failed write ends its handler with an error.
Write ==
  /\ out.frames # <<>>
  /\ \E ok \in Reaches :
       IF ok THEN Shows(Head(out.frames)) /\ out' = Rest(out) /\ UNCHANGED <<failed, outcome>>
       ELSE failed' = "write" /\ outcome' = "bad" /\ out' = Only(<<>>) /\ UNCHANGED <<client, afterEnd>>
  /\ UNCHANGED <<protocol, live, phase, over, state, fired, frames>>

-----------------------------------------------------------------------------
(* The scan.                                                               *)

\* The headers are sent before anything else.
Begin ==
  /\ phase = "starting" /\ phase' = "scanning"
  /\ client' = [client EXCEPT !.phase = "open"]
  /\ UNCHANGED <<protocol, live, over, state, out, outcome, failed, fired, frames, afterEnd>>

\* An unreadable or invalid body is answered with an error.
Refuse ==
  /\ phase = "starting" /\ phase' = "ended"
  /\ \E ok \in Reaches : client' = IF ok THEN [client EXCEPT !.phase = "refused"] ELSE client
  /\ UNCHANGED <<protocol, live, over, state, out, outcome, failed, fired, frames, afterEnd>>

\* The upstream ignored stream=true, and the whole answer is replayed; a failed
\* write ends it.
AnswerBuffered(answered, replay) ==
  /\ phase = "starting" /\ phase' = "buffered"
  /\ client' = [client EXCEPT !.phase = "open"]
  /\ state' = answered /\ out' = Settled(replay) /\ outcome' = "ok"
  /\ UNCHANGED <<protocol, live, over, failed, fired, frames, afterEnd>>

BufferedChat(body) ==
  protocol = "chat" /\ AnswerBuffered(ChatAtOnce(state, body), ReplayChat(body))
BufferedMessages(blocks) ==
  LET content == Aligned(blocks, state.hosted) IN
  /\ protocol = "messages" /\ ValidBody(blocks, state.hosted)
  /\ AnswerBuffered(MessagesAtOnce(state, content), ReplayMessages(content))

Reading == phase = "scanning" /\ ~over /\ outcome = "none"

Runs(results) == \E r \in results :
  state' = r.state /\ out' = Settled(r.out) /\ outcome' = IF r.bad THEN "bad" ELSE "ok"

Take(results) ==
  /\ frames < MaxFrames /\ frames' = frames + 1
  /\ Runs(results)
  /\ UNCHANGED <<protocol, client, live, phase, over, failed, fired, afterEnd>>

TakeChat(f) == Reading /\ protocol = "chat" /\ Take(HandleChat(state, f))
TakeMessages(f) ==
  /\ Reading /\ protocol = "messages" /\ MessagesSends(state, f)
  /\ Take(HandleMessages(state, f))

\* The body ends cleanly or with a read error; heartbeats are passed on before.
BodyEnds ==
  /\ Reading
  /\ over' = TRUE /\ failed' \in {"none", "upstream"}
  /\ UNCHANGED <<protocol, client, live, phase, state, out, outcome, fired, frames, afterEnd>>

\* The handler of a frame, or the last flush, returns.
Return ==
  /\ out.frames = <<>> /\ outcome # "none" /\ outcome' = "none"
  /\ failed' = IF outcome = "bad" /\ failed = "none" THEN "upstream" ELSE failed
  /\ CASE phase = "scanning" -> over' = (outcome = "bad" \/ state.terminal) /\ UNCHANGED phase
       [] phase = "flushing" -> phase' = "judging" /\ UNCHANGED over
       [] phase = "buffered" -> phase' = "ended" /\ UNCHANGED over
  /\ UNCHANGED <<protocol, client, live, state, out, fired, frames, afterEnd>>

-----------------------------------------------------------------------------
(* After the scan.                                                         *)

\* The calls a Chat Completions stream still holds.
LastFlush == Flush(state, <<>>)

Finish ==
  /\ phase = "scanning" /\ over
  /\ IF protocol = "chat" THEN phase' = "flushing" /\ Runs(LastFlush)
     ELSE phase' = "judging" /\ UNCHANGED <<state, out, outcome>>
  /\ UNCHANGED <<protocol, client, live, over, failed, fired, frames, afterEnd>>

Aborted == failed = "write" \/ ~live

Says(e) == \E ok \in Reaches : IF ok THEN Shows(e) ELSE UNCHANGED <<client, afterEnd>>

UnendedOrStopped == ~state.terminal \/ state.stopped
Unended == ~state.terminal

\* synthesizeNativeStreamTerminal: a finish_reason or stop_reason stands for the
\* missing [DONE] or message_stop.
Synthesized == Unended /\ state.stopped

\* The watchdog is asked first, then whether anyone is left, then for errors.
Judge ==
  /\ phase = "judging" /\ outcome = "none" /\ phase' = "ended"
  /\ \/ fired /\ Says(Plain("error"))
     \/ ~fired /\ Aborted /\ UNCHANGED <<client, afterEnd>>
     \/ ~fired /\ ~Aborted /\ failed = "upstream" /\ Says(Plain("error"))
     \/ ~fired /\ ~Aborted /\ failed = "none" /\ Synthesized /\ Says(Plain("terminal"))
     \/ ~fired /\ ~Aborted /\ failed = "none" /\ Unended /\ ~Synthesized /\ Says(Plain("error"))
     \/ ~fired /\ ~Aborted /\ failed = "none" /\ ~Unended /\ UNCHANGED <<client, afterEnd>>
  /\ UNCHANGED <<protocol, live, over, state, out, outcome, failed, fired, frames>>

\* The watchdog's timer, which content for the client sets back: it does not run
\* out between the last frame and the end of the handler.
Fire ==
  /\ ~fired /\ phase \notin {"starting", "ended"} /\ outcome = "none" /\ client.phase # "closed"
  /\ fired' = TRUE
  /\ UNCHANGED <<protocol, client, live, phase, over, state, out, outcome, failed, frames, afterEnd>>

\* The client leaves, or Disable or Stop cancels the upstream requests.
Cancel ==
  /\ live /\ phase # "ended" /\ live' = FALSE
  /\ UNCHANGED <<protocol, client, phase, over, state, out, outcome, failed, fired, frames, afterEnd>>

-----------------------------------------------------------------------------
Next ==
  \/ Refuse
  \/ phase = "starting" /\ \E body \in ChatBodies : BufferedChat(body)
  \/ phase = "starting" /\ \E blocks \in MessagesBodies : BufferedMessages(blocks)
  \/ Begin \/ Write \/ BodyEnds \/ Return \/ Finish \/ Judge \/ Fire \/ Cancel
  \/ \E f \in ChatFrames : TakeChat(f)
  \/ \E f \in MessagesFrames : TakeMessages(f)

Spec == Init /\ [][Next]_vars
-----------------------------------------------------------------------------
(* Properties.                                                             *)

\* Whatever is held back, split, filtered and put in order, the client is shown
\* one EventStream: no visible reasoning after text, and one end.
Client == INSTANCE EventStream
            WITH phase <- client.phase, number <- client.number, last <- client.last,
                 spoken <- client.spoken
ClientSeesOneStream == Client!Init /\ [][Client!Next]_(Client!vars)

\* Of a block or call the client sees its start, then its deltas, then its stop,
\* each start once: nothing of a block whose start was left out, and no call
\* released twice by its stop, the end of the stream and the last flush.
BlocksInOrder == ~client.confused

\* A completed answer has shown every call the upstream finished, also when the
\* end had to be made up: for Chat Completions every call with a name, an id or
\* arguments that the rectifier does not discard, for Messages every block that
\* was stopped, and those still open before the upstream's own message_stop.
Shown(i) == client.blocks[i] # "none"
CallsReported ==
  client.last = "terminal" =>
    IF protocol = "chat" THEN \A i \in Calls : Discarded(state, i) \/ Shown(i)
    ELSE \A i \in DOMAIN state.began : state.began[i] = "tool_use" /\ (i \in state.ended \/ state.terminal)
                                         => Shown(i)

\* Whoever stays until the handler is through has the end of the stream, and it
\* stands: only the watchdog's error may follow it, and the calls that were still
\* held when DeepSeek's insufficient_system_resource ended the stream.
EndStands ==
  /\ phase = "ended" /\ live => client.phase \in {"closed", "refused"}
  /\ afterEnd > 0 => fired \/ (protocol = "chat" /\ client.last = "error")

\* No text is lost: integration_test.go:1205, "content was dropped".
TextArrives == protocol = "chat" /\ client.last = "terminal" => client.texts = state.texts
=============================================================================
