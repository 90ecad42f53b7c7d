------------------------- MODULE MessagesRectifier -------------------------
(***************************************************************************)
(* A Messages stream that is passed on as Messages: what                   *)
(* messagesHostedSearchStreamFilter (internal/proxy/facade_stream.go),     *)
(* messagesThoughtRectifier (thought_gate.go) and messagesToolRectifier    *)
(* (stream_tool_rectifiers.go) make of its frames, in this order.  Blocks  *)
(* of hosted searches and reasoning after text are left out, with all      *)
(* their frames; a tool call is held back until its block stops.           *)
(***************************************************************************)
EXTENDS FrameBurst

CONSTANTS Blocks  \* content block indexes

BlockKind == {"none", "text", "thinking", "tool_use", "server_tool_use"}
MessagesFrame ==
  [type : {"message_start", "content_block_start", "content_block_delta", "content_block_stop",
           "message_delta", "message_stop", "error", "garbled"},
   index : Blocks, kind : BlockKind, flag : BOOLEAN]

\* filtered and dropped: the blocks left out by the search filter and by the
\* thought rectifier; held: the tool calls held back, with or without arguments.
\* began and ended: what the upstream has sent.
NoHeld == [i \in {} |-> FALSE]
MessagesInit(hosted) ==
  [hosted |-> hosted, filtered |-> {}, dropped |-> {}, held |-> NoHeld,
   sawText |-> FALSE, terminal |-> FALSE, stopped |-> FALSE,
   began |-> [i \in Blocks |-> "none"], ended |-> {}]

-----------------------------------------------------------------------------
(* What the search filter and the thought rectifier leave out.             *)

Starts(f, kind) == f.type = "content_block_start" /\ f.kind = kind
Continues(f, blocks) ==
  f.type \in {"content_block_delta", "content_block_stop"} /\ f.index \in blocks

Searches(m, f) == m.hosted /\ (Starts(f, "server_tool_use") \/ Continues(f, m.filtered))
FilterSearch(m, f) ==
  [m EXCEPT !.filtered = IF f.type = "content_block_start" THEN @ \cup {f.index}
                         ELSE IF f.type = "content_block_stop" THEN @ \ {f.index} ELSE @]

LateThought(m, f) ==
  \/ Starts(f, "thinking") /\ m.sawText
  \/ Continues(f, m.dropped)
  \/ f.type = "content_block_delta" /\ f.kind = "thinking" /\ m.sawText
DropStartOnly(m, f) == m
DropThought(m, f) ==
  [m EXCEPT !.dropped = IF f.type = "content_block_start" THEN @ \cup {f.index} ELSE @]

\* Blank text does not close the gate.
NoteText(m, f) == [m EXCEPT !.sawText = @ \/ (f.kind = "text" /\ f.flag)]

-----------------------------------------------------------------------------
(* messagesToolRectifier.                                                  *)

\* emit: the start, and the arguments in one piece.
Resolved(m, i) ==
  <<Frame("other", "start", i)>>
  \o (IF m.held[i] THEN <<Frame("other", "delta", i)>> ELSE <<>>)

Release(m, i) == [m EXCEPT !.held = [j \in DOMAIN @ \ {i} |-> @[j]]]

FlushHeldNever(m) == NoBlocks

FlushHeld(m) == [i \in DOMAIN m.held |-> Resolved(m, i)]

\* The frame itself.
Content(f) ==
  IF f.kind = "thinking" THEN "thought" ELSE IF f.kind = "text" /\ f.flag THEN "text" ELSE "other"

Passing(f) ==
  CASE f.type = "content_block_start" -> Frame(Content(f), "start", f.index)
    [] f.type = "content_block_delta" -> Frame(Content(f), "delta", f.index)
    [] f.type = "content_block_stop" -> Frame("other", "stop", f.index)
    [] f.type = "message_stop" -> Plain("terminal")
    [] f.type = "error" -> Plain("error")
    [] OTHER -> Plain("other")

HoldTool(m, f) ==
  CASE f.type = "content_block_start" /\ f.kind = "tool_use" ->
         Quiet([m EXCEPT !.held = [i \in DOMAIN @ \cup {f.index} |-> i # f.index /\ @[i]]])
    [] f.type = "content_block_delta" /\ f.index \in DOMAIN m.held ->
         Quiet([m EXCEPT !.held[f.index] = TRUE])
    [] f.type = "content_block_stop" /\ f.index \in DOMAIN m.held ->
         Gives(Release(m, f.index), Resolved(m, f.index) \o <<Passing(f)>>)
    [] f.type \in {"message_stop", "error"} ->
         {Outcome([m EXCEPT !.held = NoHeld, !.terminal = TRUE],
                  Burst(<<>>, FlushHeld(m), <<Passing(f)>>), FALSE)}
    [] OTHER -> Gives(m, <<Passing(f)>>)

-----------------------------------------------------------------------------
(* A frame, with what is noted of the upstream first.                      *)

Noted(m, f) ==
  [m EXCEPT !.stopped = @ \/ f.type \in {"message_stop", "error"} \/ (f.type = "message_delta" /\ f.flag),
            !.began[f.index] = IF f.type = "content_block_start" THEN f.kind ELSE @,
            !.ended = IF f.type = "content_block_stop" THEN @ \cup {f.index} ELSE @]

HandleMessages(m, f) ==
  LET n == Noted(m, f) IN
  CASE f.type = "garbled" -> Fails(m)
    [] Searches(n, f) -> Quiet(FilterSearch(n, f))
    [] ~Searches(n, f) /\ LateThought(n, f) -> Quiet(DropThought(n, f))
    [] OTHER -> HoldTool(NoteText(n, f), f)

\* What an upstream that speaks the protocol sends: each block once, in its own
\* kind, deltas and a stop only while it is open, and nothing after a message_stop.
MessagesSends(m, f) ==
  CASE f.type = "content_block_start" -> m.began[f.index] = "none" /\ f.kind # "none"
    [] f.type \in {"content_block_delta", "content_block_stop"} ->
         m.began[f.index] # "none" /\ f.index \notin m.ended
         /\ f.kind = m.began[f.index]
    [] OTHER -> TRUE

-----------------------------------------------------------------------------
(* An upstream that ignored stream=true: normalizeNativeJSON and           *)
(* writeMessagesSSEFallback.                                               *)

\* A text may be led by a think span, or be nothing but one; a thinking block may
\* be empty, and a tool_use block lack a name.
BlockForm == {"plain", "led", "span", "blank", "odd"}
BodyBlock == [kind : BlockKind \ {"none"}, form : BlockForm]

Spoken(blocks, k) ==
  \E j \in DOMAIN blocks : j < k /\ blocks[j].kind = "text" /\ blocks[j].form \notin {"blank", "span"}

\* What stripMessagesHostedSearchBlocks and then alignMessagesContentThoughts
\* leave of it, each block at the place it had.
Kept(blocks, hosted, k) ==
  /\ blocks[k].kind = "server_tool_use" => ~hosted
  /\ blocks[k].kind = "text" => blocks[k].form # "span"
  /\ blocks[k].kind = "thinking" => blocks[k].form # "blank" /\ ~Spoken(blocks, k)
Aligned(blocks, hosted) == [k \in {j \in DOMAIN blocks : Kept(blocks, hosted, j)} |-> blocks[k]]

\* validateNativeMessagesEnvelope: the thought that alignment makes of a span
\* before any text has no signature, and is refused like any other without.
ValidBody(blocks, hosted) ==
  \A k \in DOMAIN blocks :
    /\ blocks[k].kind = "text" /\ blocks[k].form \in {"led", "span"} => Spoken(blocks, k)
    /\ blocks[k].kind \in {"tool_use", "thinking"} /\ Kept(blocks, hosted, k) => blocks[k].form # "odd"

\* messagesFallbackBlock: what a block brings is moved from its start to deltas.
Carries(b) ==
  CASE b.kind = "text" -> <<IF b.form = "blank" THEN "other" ELSE "text">>
    [] b.kind = "thinking" -> <<"thought", "other">>
    [] b.kind \in {"tool_use", "server_tool_use"} -> <<"other">>
    [] OTHER -> <<>>

Replayed(b, i) ==
  <<Frame(IF b.kind = "thinking" THEN "thought" ELSE "other", "start", i)>>
  \o [d \in DOMAIN Carries(b) |-> Frame(Carries(b)[d], "delta", i)]
  \o <<Frame("other", "stop", i)>>

\* message_start and message_delta around the blocks, then message_stop.
ReplayMessages(content) ==
  Burst(<<Plain("other")>>, [i \in DOMAIN content |-> Replayed(content[i], i)],
        <<Plain("other"), Plain("terminal")>>)

MessagesAtOnce(m, content) ==
  [m EXCEPT !.terminal = TRUE,
            !.began = [i \in DOMAIN content |-> content[i].kind], !.ended = DOMAIN content]
=============================================================================
