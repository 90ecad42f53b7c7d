------------------------ MODULE MessagesTranslation ------------------------
(***************************************************************************)
(* messagesStreamState (internal/proxy/facade_stream.go): a Messages       *)
(* stream of content blocks becomes a Responses stream of output items.    *)
(*                                                                         *)
(* Of a frame the model keeps its type, the block index, and for a block   *)
(* its kind, the id it names and a flag: whether it starts with content, a *)
(* delta is more than white space, a search result has sources or failed,  *)
(* or a message_delta reports searches.                                    *)
(***************************************************************************)
EXTENDS StreamTranslation, FiniteSetsExt

CONSTANTS Blocks,  \* content block indexes
          CallIds, \* ids of server_tool_use blocks
          NoCallId

BlockKind == {"text", "thinking", "redacted_thinking", "tool_use", "server_tool_use",
              "web_search_tool_result", "unknown"}
MessagesFrame ==
  [type : {"message_start", "content_block_start", "content_block_delta", "content_block_stop",
           "message_delta", "message_stop", "error", "ping", "garbled"},
   index : Blocks, kind : BlockKind, id : CallIds \cup {NoCallId}, flag : BOOLEAN]

\* items: len(output); calls: webCalls; urls: allURLs or the usage show a search;
\* finishing: finish is under way.
NoBlock == [kind |-> "none"]
MessagesInit(hosted) ==
  [blocks |-> [i \in Blocks |-> NoBlock], calls |-> {}, items |-> 0, stopReason |-> FALSE,
   sawStart |-> FALSE, terminal |-> FALSE, sawText |-> FALSE, urls |-> FALSE,
   finishing |-> FALSE, hosted |-> hosted]

\* item: outputIndex counted from 1, or 0 when the block has no item.
Block(kind, item, f) ==
  [kind |-> kind, item |-> item, done |-> FALSE, id |-> f.id, flag |-> f.flag]

SetBlock(m, i, block) == [m EXCEPT !.blocks[i] = block]
WithItem(m, f) == [SetBlock(m, f.index, Block(f.kind, m.items + 1, f)) EXCEPT !.items = @ + 1]
WithoutItem(m, f) == SetBlock(m, f.index, Block(f.kind, 0, f))

Call(id, item) == [id |-> id, item |-> item, emitted |-> FALSE]

-----------------------------------------------------------------------------
(* appendMessageText and appendThinking, behind the thought gate.          *)

AppendText(m, item, text) ==
  IF text = "none" \/ item = 0 THEN Quiet(m)
  ELSE Emits([m EXCEPT !.sawText = @ \/ text = "text"], <<TextDelta(item, text)>>)

AppendThinking(m, item) ==
  IF item = 0 \/ m.sawText THEN Quiet(m) ELSE Emits(m, <<ThoughtDelta(item)>>)

-----------------------------------------------------------------------------
(* startBlock, deltaBlock and stopBlock.                                   *)

StartBlock(m, f) ==
  LET item == m.items + 1 IN
  IF m.blocks[f.index] # NoBlock THEN Fails(m)
  ELSE CASE f.kind = "text" ->
              Then(Emits(WithItem(m, f), PartBegins(item, "message")),
                   LAMBDA n : AppendText(n, item, IF f.flag THEN "text" ELSE "none"))
         [] f.kind = "thinking" /\ ~m.sawText ->
              Then(Emits(WithItem(m, f), PartBegins(item, "reasoning")),
                   LAMBDA n : IF f.flag THEN AppendThinking(n, item) ELSE Quiet(n))
         [] f.kind = "redacted_thinking" -> Emits(WithItem(m, f), <<Added(item, "sealed")>>)
         [] f.kind = "tool_use" -> Emits(WithItem(m, f), <<Added(item, "function_call")>>)
         [] f.kind = "server_tool_use" ->
              Emits([WithItem(m, f) EXCEPT !.calls = @ \cup {Call(f.id, item)}], SearchBegins(item))
         [] OTHER -> Quiet(WithoutItem(m, f))

\* A delta has the kind of its block.
DeltaBlock(m, f) ==
  LET block == m.blocks[f.index] IN
  CASE block = NoBlock -> Fails(m)
    [] block.kind = "text" -> AppendText(m, block.item, IF f.flag THEN "text" ELSE "blank")
    [] block.kind = "thinking" -> AppendThinking(m, block.item)
    [] block.kind = "tool_use" -> Emits(m, <<About("progress", block.item)>>)
    [] OTHER -> Quiet(m)

FinishWebCall(m, call) ==
  IF call.emitted THEN Quiet(m)
  ELSE Emits([m EXCEPT !.calls = (@ \ {call}) \cup {[call EXCEPT !.emitted = TRUE]}],
             SearchEnds(call.item))

\* A result without sources leaves its call to finish; one for an unknown call
\* makes the call up.
FinishWebResult(m, block) ==
  LET known == {c \in m.calls : c.id = block.id /\ block.id # NoCallId}
      call == IF known # {} THEN CHOOSE c \in known : TRUE ELSE Call(block.id, m.items + 1)
      begun == IF known # {} THEN Quiet(m)
               ELSE Emits([m EXCEPT !.calls = @ \cup {call}, !.items = @ + 1],
                          SearchBegins(call.item))
  IN Then(begun, LAMBDA n : IF block.flag THEN FinishWebCall(n, call) ELSE Quiet(n))

StopStarted(m, block) ==
  CASE block.kind = "text" -> Emits(m, PartEnds(block.item))
    [] block.kind = "thinking" -> IF block.item = 0 THEN Quiet(m) ELSE Emits(m, PartEnds(block.item))
    [] block.kind = "redacted_thinking" -> Emits(m, <<About("done", block.item)>>)
    [] block.kind = "tool_use" -> Emits(m, <<About("progress", block.item), About("done", block.item)>>)
    [] block.kind = "web_search_tool_result" -> FinishWebResult(m, block)
    [] OTHER -> Quiet(m)

StopBlockAgain(m, i) ==
  IF m.blocks[i] = NoBlock THEN Fails(m)
  ELSE StopStarted([m EXCEPT !.blocks[i].done = TRUE], m.blocks[i])

StopBlock(m, i) ==
  IF m.blocks[i] = NoBlock THEN Fails(m)
  ELSE IF m.blocks[i].done THEN Quiet(m)
  ELSE StopStarted([m EXCEPT !.blocks[i].done = TRUE], m.blocks[i])

-----------------------------------------------------------------------------
(* finish: blocks in the order of their index, searches in any order; one  *)
(* turn of a loop at a time.                                               *)

Unstopped(m) == {i \in Blocks : m.blocks[i] # NoBlock /\ ~m.blocks[i].done}
Unfinished(m) == {call \in m.calls : ~call.emitted}

\* A hosted search that only URLs or usage tell of.
InferSearch(m) ==
  IF m.calls = {} /\ m.hosted /\ m.urls
  THEN Emits([m EXCEPT !.items = @ + 1], SearchBegins(m.items + 1) \o SearchEnds(m.items + 1))
  ELSE Quiet(m)

Conclude(m) == Emits([m EXCEPT !.terminal = TRUE, !.finishing = FALSE], <<Terminal>>)

MessagesFinishTurn(m) ==
  IF Unstopped(m) # {} THEN StopBlock(m, Min(Unstopped(m)))
  ELSE IF Unfinished(m) # {} THEN UNION {FinishWebCall(m, call) : call \in Unfinished(m)}
  ELSE Then(InferSearch(m), Conclude)

MessagesFinish(m) == MessagesFinishTurn([m EXCEPT !.finishing = TRUE])

\* handle.  A message_start may bring a block, whole.
HandleMessages(m, f) ==
  CASE f.type = "ping" -> Quiet(m)
    [] f.type = "garbled" -> Fails(m)
    [] f.type = "error" -> Emits([m EXCEPT !.terminal = TRUE], <<ErrorEvent>>)
    [] f.type = "message_start" ->
         IF f.kind = "unknown" THEN Quiet([m EXCEPT !.sawStart = TRUE])
          ELSE Then(StartBlock([m EXCEPT !.sawStart = TRUE], f), LAMBDA n : StopBlock(n, f.index))
    [] f.type = "content_block_start" -> StartBlock(m, f)
    [] f.type = "content_block_delta" -> DeltaBlock(m, f)
    [] f.type = "content_block_stop" -> StopBlock(m, f.index)
    [] f.type = "message_delta" -> Quiet([m EXCEPT !.stopReason = TRUE, !.urls = @ \/ f.flag])
    [] f.type = "message_stop" -> IF m.sawStart THEN MessagesFinish(m) ELSE Fails(m)

\* What an upstream that speaks the protocol does not send: a delta after the
\* stop of its block, and a second search call under one id.
MessagesSends(m, f) ==
  /\ f.type = "content_block_delta" /\ m.blocks[f.index] # NoBlock => ~m.blocks[f.index].done
  /\ f.type \in {"content_block_start", "message_start"} /\ f.kind = "server_tool_use"
       => \A c \in m.calls : c.id # f.id \/ f.id = NoCallId
=============================================================================
