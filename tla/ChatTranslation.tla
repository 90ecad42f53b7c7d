-------------------------- MODULE ChatTranslation --------------------------
(***************************************************************************)
(* chatStreamState (internal/proxy/facade_stream.go): a Chat Completions   *)
(* stream of chunks becomes a Responses stream of at most one reasoning    *)
(* item, one message, one search and the tool calls.                       *)
(*                                                                         *)
(* Of a chunk the model keeps whether it has a thought, content, a piece   *)
(* of a tool call, signs of a search and a finish reason.  What the        *)
(* splitter of inline reasoning makes of the content is free here; what it *)
(* does is the subject of InlineThink.                                     *)
(***************************************************************************)
EXTENDS StreamTranslation, FiniteSetsExt

CONSTANTS Tools   \* indexes of tool calls

\* A piece of a call: its index, and whether it names the function (with a name
\* that can be resolved, or one that cannot) and has arguments.
NoPiece == [name |-> "none"]
Piece == [index : Tools, name : {"none", "good", "blank"}, args : BOOLEAN]
ChatFrame ==
  [type : {"chunk", "done", "error", "garbled"}, thought : BOOLEAN, content : BOOLEAN,
   call : Piece \cup {NoPiece},
   search : {"none", "root", "choice"}, finish : BOOLEAN]

\* reasoning, message and search are items, or 0; held: the splitter's buffer;
\* finishing: finish is under way; left: the calls its loop has still to come to.
NoTool == [item |-> 0, name |-> "none", args |-> FALSE, seen |-> FALSE]
ChatInit(hosted) ==
  [reasoning |-> 0, message |-> 0, search |-> 0, tools |-> [i \in Tools |-> NoTool],
   items |-> 0, sawChunk |-> FALSE, finishReason |-> FALSE, terminal |-> FALSE,
   sawText |-> FALSE, held |-> FALSE, urls |-> FALSE,
   finishing |-> FALSE, left |-> {}, hosted |-> hosted]

-----------------------------------------------------------------------------
(* appendReasoning and appendText, behind the thought gate.                *)

AppendReasoning(c) ==
  IF c.sawText THEN Quiet(c)
  ELSE IF c.reasoning # 0 THEN Emits(c, <<ThoughtDelta(c.reasoning)>>)
  ELSE Emits([c EXCEPT !.reasoning = c.items + 1, !.items = @ + 1],
             PartBegins(c.items + 1, "reasoning") \o <<ThoughtDelta(c.items + 1)>>)

AppendMessage(c, text) ==
  LET noted == [c EXCEPT !.sawText = @ \/ text = "text"] IN
  IF text = "none" THEN Quiet(c)
  ELSE IF c.message # 0 THEN Emits(noted, <<TextDelta(c.message, text)>>)
  ELSE Emits([noted EXCEPT !.message = c.items + 1, !.items = @ + 1],
             PartBegins(c.items + 1, "message") \o <<TextDelta(c.items + 1, text)>>)

\* thinks.feed and thinks.flush: reasoning, text and whether something is held.
Splits == [thought : BOOLEAN, text : {"none", "blank", "text"}, held : BOOLEAN]
FeedSplits(c, content) ==
  IF content THEN Splits ELSE {[thought |-> FALSE, text |-> "none", held |-> c.held]}
FlushSplits(c) ==
  {s \in Splits : ~s.held /\ (c.held \/ (~s.thought /\ s.text = "none"))}

Split(c, s) ==
  Then(IF s.thought THEN AppendReasoning([c EXCEPT !.held = s.held])
       ELSE Quiet([c EXCEPT !.held = s.held]),
       LAMBDA n : AppendMessage(n, s.text))

-----------------------------------------------------------------------------
(* Tool calls and searches.                                                *)

\* A call is announced once it has an id, a name and arguments.
StartToolCall(c, i) ==
  IF c.tools[i].name # "good" THEN Fails(c)
  ELSE Emits([c EXCEPT !.tools[i].item = c.items + 1, !.items = @ + 1],
             <<Added(c.items + 1, "function_call")>>)

ArgumentsOf(c, i) == Emits(c, <<About("progress", c.tools[i].item)>>)

Joined(name, more) == IF "good" \in {name, more} THEN "good" ELSE IF more = "none" THEN name ELSE more

AppendToolCall(c, p) ==
  LET t == c.tools[p.index]
      n == [c EXCEPT !.tools[p.index] =
              [t EXCEPT !.name = Joined(t.name, p.name), !.args = @ \/ p.args, !.seen = TRUE]]
  IN IF t.item = 0 /\ n.tools[p.index].name # "none" /\ n.tools[p.index].args
     THEN Then(StartToolCall(n, p.index), LAMBDA s : ArgumentsOf(s, p.index))
     ELSE IF p.args /\ t.item # 0 THEN ArgumentsOf(n, p.index) ELSE Quiet(n)

\* observeSearch: the first sign of a hosted search starts its item.
ObserveSearch(c, sign) ==
  LET n == [c EXCEPT !.urls = @ \/ sign] IN
  IF sign /\ c.hosted /\ c.search = 0
  THEN Emits([n EXCEPT !.search = c.items + 1, !.items = @ + 1], SearchBegins(c.items + 1))
  ELSE Quiet(n)

-----------------------------------------------------------------------------
(* finish: reasoning, message, tools by index, search; one turn of the     *)
(* loop over the tools at a time.                                          *)

FinishPart(c, item) == IF item = 0 THEN Quiet(c) ELSE Emits(c, PartEnds(item))

FinishStartedTool(c, i) ==
  IF c.tools[i].item = 0 THEN Quiet(c)
  ELSE Emits(c, <<About("progress", c.tools[i].item), About("done", c.tools[i].item)>>)

FinishTool(c, i) ==
  Then(Then(IF c.tools[i].item = 0 THEN StartToolCall(c, i) ELSE Quiet(c),
            LAMBDA n : IF c.tools[i].item = 0 /\ c.tools[i].args THEN ArgumentsOf(n, i) ELSE Quiet(n)),
       LAMBDA n : Emits(n, <<About("progress", n.tools[i].item), About("done", n.tools[i].item)>>))

FinishSearch(c) ==
  Then(ObserveSearch(c, c.urls),
       LAMBDA n : IF n.search = 0 THEN Quiet(n) ELSE Emits(n, SearchEnds(n.search)))

ConcludeChat(c) == Emits([c EXCEPT !.terminal = TRUE, !.finishing = FALSE], <<Terminal>>)

FlushThinks(c) == UNION {Split(c, s) : s \in FlushSplits(c)}

ToCalls(c) == Quiet([c EXCEPT !.finishing = TRUE, !.left = {i \in Tools : c.tools[i].seen}])

ChatFinish(c) ==
  IF ~c.sawChunk THEN Fails(c)
  ELSE Then(Then(Then(FlushThinks(c), LAMBDA n : FinishPart(n, n.reasoning)),
                 LAMBDA n : FinishPart(n, n.message)), ToCalls)

ChatFinishTurn(c) ==
  IF c.left # {} THEN FinishTool([c EXCEPT !.left = @ \ {Min(c.left)}], Min(c.left))
  ELSE Then(FinishSearch(c), ConcludeChat)

\* A chunk, in the order of the code: a search the root tells of, thought,
\* content, held content before a call or the end, call, search.
HandleChunk(c, f) ==
  LET begun == ObserveSearch([c EXCEPT !.sawChunk = TRUE], f.search = "root")
      thought(n) == IF f.thought THEN AppendReasoning(n) ELSE Quiet(n)
      fed(n) == UNION {Split(n, s) : s \in FeedSplits(n, f.content)}
      flushed(n) == IF f.call # NoPiece \/ f.finish THEN FlushThinks(n) ELSE Quiet(n)
      called(n) == IF f.call = NoPiece THEN Quiet(n) ELSE AppendToolCall(n, f.call)
      searched(n) == ObserveSearch([n EXCEPT !.finishReason = @ \/ f.finish], f.search # "none")
  IN Then(Then(Then(Then(Then(begun, thought), fed), flushed), called), searched)

HandleChat(c, f) ==
  CASE f.type = "done" -> ChatFinish(c)
    [] f.type = "error" -> Emits([c EXCEPT !.terminal = TRUE], <<ErrorEvent>>)
    [] f.type = "garbled" -> Fails(c)
    [] f.type = "chunk" -> HandleChunk(c, f)
=============================================================================
