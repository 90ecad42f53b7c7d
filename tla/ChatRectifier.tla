--------------------------- MODULE ChatRectifier ---------------------------
(***************************************************************************)
(* chatToolRectifier (internal/proxy/chat_stream_rectifier.go): in a Chat  *)
(* Completions stream that is passed on as Chat Completions, reasoning is  *)
(* kept before the text, and tool calls are held back until the end of the *)
(* stream, when their pieces are complete.                                 *)
(*                                                                         *)
(* Of a chunk the model keeps whether it has a thought, content, a piece   *)
(* of a tool call and a finish reason.  What the splitter of inline        *)
(* reasoning makes of the content is free (InlineThink).                   *)
(***************************************************************************)
EXTENDS FrameBurst

CONSTANTS Calls,     \* indexes of tool calls
          Demanding  \* those whose tool has required properties

Thought == Plain("thought")

NoPiece == [index |-> 0, id |-> FALSE, name |-> FALSE, args |-> FALSE, present |-> FALSE]
Piece == [index : Calls, id : BOOLEAN, name : BOOLEAN, args : BOOLEAN, present : {TRUE}]
ChatFrame ==
  [type : {"chunk", "invalid", "done", "error", "exhausted", "garbled"}, thought : BOOLEAN,
   content : BOOLEAN, call : Piece \cup {NoPiece}, finish : BOOLEAN]

\* stopped: protocolTerminal; held: the splitter holds a span or half a tag;
\* texts: the pieces of text it has released.
NoCall == [id |-> FALSE, name |-> FALSE, args |-> FALSE]
ChatInit ==
  [calls |-> [i \in Calls |-> NoCall], flushed |-> FALSE, sawText |-> FALSE, held |-> FALSE,
   texts |-> 0, terminal |-> FALSE, stopped |-> FALSE]

\* thinks.feed and thinks.flush.
Nothing(held) == [thought |-> FALSE, text |-> "none", held |-> held]
Splits == [thought : BOOLEAN, text : {"none", "blank", "text"}, held : BOOLEAN]
FeedSplits(c, content) == IF content THEN Splits ELSE {Nothing(c.held)}
FlushSplits(held) == IF held THEN {s \in Splits : ~s.held} ELSE {Nothing(FALSE)}

\* mergeChatThinkDelta, once for what was fed and once more, before a call or
\* the end, for what was held: the second overwrites the content of the first.
\* texts counts what the splitter has released.
Releases(split) == IF split.text = "text" THEN 1 ELSE 0
Merged(c, f) ==
  UNION {IF f.finish \/ f.call.present
         THEN {[thought |-> f.thought \/ s.thought \/ h.thought, text |-> h.text, held |-> FALSE,
                texts |-> Releases(s) + Releases(h)] : h \in FlushSplits(s.held)}
         ELSE {[thought |-> f.thought \/ s.thought, text |-> s.text, held |-> s.held,
                texts |-> Releases(s)]} : s \in FeedSplits(c, f.content)}

Gated(c, thought) == IF thought /\ ~c.sawText THEN <<Thought>> ELSE <<>>

-----------------------------------------------------------------------------
(* flush.                                                                  *)

\* flushThinks: what the splitter of inline reasoning still holds.
FlushThinks(c, split) ==
  [c EXCEPT !.held = FALSE, !.sawText = @ \/ split.text = "text", !.texts = @ + Releases(split)]
Withheld(c, split) ==
  Gated(c, split.thought)
  \o (IF split.text = "none" THEN <<>> ELSE <<Plain(IF split.text = "text" THEN "text" ELSE "other")>>)

\* A named call without arguments that its tool requires is discarded; one
\* without a name is inferred, or routed to a tool that fails cleanly.
Discarded(c, i) ==
  c.calls[i] = NoCall \/ (c.calls[i].name /\ ~c.calls[i].args /\ i \in Demanding)

CallFrames(c, i) ==
  IF Discarded(c, i) THEN <<>>
  ELSE <<Frame("other", "start", i)>>
       \o (IF c.calls[i].args \/ ~c.calls[i].name THEN <<Frame("other", "delta", i)>> ELSE <<>>)

FlushCalls(c) == [c EXCEPT !.flushed = @ \/ \E i \in Calls : c.calls[i] # NoCall]
Due(c) == {i \in Calls : ~c.flushed /\ ~Discarded(c, i)}

\* What comes after the flush waits for the calls.
Flush(c, after) ==
  {Outcome(FlushCalls(FlushThinks(c, s)),
           Burst(Withheld(c, s), [i \in Due(c) |-> CallFrames(c, i)], after), FALSE) :
     s \in FlushSplits(c.held)}

-----------------------------------------------------------------------------
(* ingest.                                                                 *)

Observe(c, piece) ==
  IF ~piece.present THEN c
  ELSE [c EXCEPT !.calls[piece.index] =
          [id |-> @.id \/ piece.id, name |-> @.name \/ piece.name, args |-> @.args \/ piece.args]]

\* takeReasoningPrefix and the chunk itself, which without a payload may still
\* bring a role or usage.
PassedUngated(c, thought, text, finish) ==
  IF text = "text"
  THEN Gives([c EXCEPT !.sawText = TRUE], <<Plain("text")>> \o Gated(c, thought))
  ELSE IF thought THEN Gives(c, <<Thought>>) ELSE Gives(c, <<Plain("other")>>)

Passed(c, thought, text, finish) ==
  IF text = "text"
  THEN Gives([c EXCEPT !.sawText = TRUE], Gated(c, thought) \o <<Plain("text")>>)
  ELSE IF thought /\ ~c.sawText THEN Gives(c, <<Thought>>)
  ELSE Gives(c, <<Plain("other")>>) \cup (IF text = "blank" \/ finish THEN {} ELSE Quiet(c))

IngestChunk(c, f) ==
  UNION {Passed(Observe([c EXCEPT !.stopped = @ \/ f.finish, !.held = s.held, !.texts = @ + s.texts],
                        f.call), s.thought, s.text, f.finish) : s \in Merged(c, f)}

\* validateNativeSSEFrame refuses the chunk, behind its reasoning prefix.
WithoutLast(frames) == SubSeq(frames, 1, Len(frames) - 1)
Refused(r) ==
  IF r.out.frames = <<>> THEN r ELSE [r EXCEPT !.out = Only(WithoutLast(@.frames)), !.bad = TRUE]

Ending(c, frame) ==
  {[r EXCEPT !.state = [@ EXCEPT !.terminal = TRUE]] : r \in Flush([c EXCEPT !.stopped = TRUE], <<frame>>)}

\* "exhausted": DeepSeek's insufficient_system_resource, answered before the
\* rectifier sees it.
HandleChat(c, f) ==
  CASE f.type = "chunk" -> IngestChunk(c, f)
    [] f.type = "invalid" -> {Refused(r) : r \in IngestChunk(c, f)}
    [] f.type = "done" -> Ending(c, Plain("terminal"))
    [] f.type = "error" -> Ending(c, Plain("error"))
    [] f.type = "exhausted" ->
         Gives([c EXCEPT !.terminal = TRUE, !.stopped = TRUE], <<Plain("error")>>)
    [] f.type = "garbled" -> Fails(c)

-----------------------------------------------------------------------------
(* An upstream that ignored stream=true: writeChatSSEFallback makes one    *)
(* chunk of the message, behind its reasoning, and ends it with [DONE].    *)
(* The calls of that chunk are shown one after the other.                  *)

ChatBody == [thought : BOOLEAN, content : BOOLEAN, calls : SUBSET Calls]

ReplayChat(body) ==
  Burst((IF body.thought THEN <<Thought>> ELSE <<>>) \o (IF body.content THEN <<Plain("text")>> ELSE <<>>),
        [i \in body.calls |-> <<Frame("other", "start", i)>>], <<Plain("terminal")>>)

ChatAtOnce(c, body) ==
  [c EXCEPT !.calls = [i \in Calls |-> [NoCall EXCEPT !.id = i \in body.calls]],
            !.flushed = TRUE, !.terminal = TRUE, !.texts = IF body.content THEN 1 ELSE 0]
=============================================================================
