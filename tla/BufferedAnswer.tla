--------------------------- MODULE BufferedAnswer ---------------------------
(***************************************************************************)
(* The upstream ignored stream=true and answered with one JSON body, which *)
(* the facade turns into output items and replays as a Responses stream:   *)
(* canonicalFromMessages, canonicalFromChat and writeCanonicalResponse     *)
(* (internal/proxy/facade_response.go).                                    *)
(*                                                                         *)
(* Of a Messages body the model keeps its blocks and whether it cites or   *)
(* counts a search; of a Chat body what its message holds.                 *)
(***************************************************************************)
EXTENDS MessagesTranslation, SequencesExt

\* How a block is made: "plain"; "led", a text led by a think span; "span", no
\* text but the span; "blank", no text or no thought; "odd", what is not expected
\* of its kind: a call without a name, a server tool that is no search.
BlockForm == {"plain", "led", "span", "blank", "odd"}
BodyBlock == [kind : BlockKind, id : CallIds \cup {NoCallId}, form : BlockForm]

MessagesBody(blocks, evidence) == [blocks |-> blocks, evidence |-> evidence]
ChatBody(thought, searched, calls, text) ==
  [thought |-> thought, searched |-> searched, calls |-> calls, text |-> text]

IsSearch(b) == b.kind \in {"server_tool_use", "web_search_tool_result"}

\* validateMessagesEnvelope; on a hosted route stripMessagesHostedSearchBlocks
\* hides the search blocks from it.
ValidBlock(b, hosted) ==
  /\ b.kind # "unknown" /\ (IsSearch(b) => hosted)
  /\ b.kind = "tool_use" => b.form # "odd"
ValidBody(body, hosted) == \A i \in DOMAIN body.blocks : ValidBlock(body.blocks[i], hosted)

-----------------------------------------------------------------------------
(* canonicalFromMessages, block by block: text is held until a block of     *)
(* another kind.                                                           *)

\* The answer at hand: the items it is converted to, the blocks taken so far, and
\* for the replay what its texts are and how many items were shown.
Answer(body, hosted) ==
  [body |-> body, hosted |-> hosted, items |-> <<>>, held |-> FALSE, sawText |-> FALSE, calls |-> {},
   taken |-> 0, text |-> "text", shown |-> 0, finishing |-> TRUE]

Output(r, type) == [r EXCEPT !.items = Append(@, type)]
FlushText(r) == IF r.held THEN [Output(r, "message") EXCEPT !.held = FALSE] ELSE r
Searches(r, id) == [Output(r, "web_search_call") EXCEPT !.calls = @ \cup {id}]

TakeText(r, b) ==
  LET s == IF b.form \in {"led", "span"} /\ ~r.sawText THEN Output(FlushText(r), "reasoning") ELSE r
  IN  IF b.form \in {"span", "blank"} THEN s ELSE [s EXCEPT !.held = TRUE, !.sawText = TRUE]

TakeOther(r, b) ==
  CASE b.kind = "thinking" /\ b.form # "blank" /\ ~r.sawText -> Output(r, "reasoning")
    [] b.kind = "redacted_thinking" -> Output(r, "sealed")
    [] b.kind = "tool_use" -> Output(r, "function_call")
    [] b.kind = "server_tool_use" /\ b.form # "odd" -> Searches(r, b.id)
    [] b.kind = "web_search_tool_result" /\ b.id \notin r.calls -> Output(r, "web_search_call")
    [] OTHER -> r

TakeBlock(r, b) ==
  [IF b.kind = "text" THEN TakeText(r, b) ELSE TakeOther(FlushText(r), b) EXCEPT !.taken = @ + 1]

\* A search that only the citations or the usage tell of comes before the first
\* message; backfillResponseSearchSources then finds a search and adds none.
WithEvidence(items) ==
  LET messages == {i \in DOMAIN items : items[i] = "message"}
      place == IF messages = {} THEN Len(items) + 1 ELSE Min(messages)
  IN  InsertAt(items, place, "web_search_call")

\* All blocks are taken.
Converted(r) ==
  LET f == FlushText(r)
  IN  IF f.hosted /\ f.calls = {} /\ f.body.evidence THEN [f EXCEPT !.items = WithEvidence(@)] ELSE f

ItemsOfChat(body, hosted) ==
  (IF body.thought THEN <<"reasoning">> ELSE <<>>)
  \o (IF hosted /\ body.searched THEN <<"web_search_call">> ELSE <<>>)
  \o [i \in 1..body.calls |-> "function_call"]
  \o (IF body.text # "none" THEN <<"message">> ELSE <<>>)

FromChat(body, hosted) ==
  [Answer(body, hosted) EXCEPT !.items = ItemsOfChat(body, hosted), !.text = body.text]

-----------------------------------------------------------------------------
(* writeCanonicalResponse and emitOutputItem.                              *)

OutputItem(i, type, text) ==
  CASE type = "message" -> PartBegins(i, type) \o <<TextDelta(i, text)>> \o PartEnds(i)
    [] type = "reasoning" -> PartBegins(i, type) \o <<ThoughtDelta(i)>> \o PartEnds(i)
    [] type = "web_search_call" -> SearchBegins(i) \o SearchEnds(i)
    [] type = "function_call" -> 
           <<Added(i, type), About("progress", i), About("progress", i), About("done", i)>>
    [] OTHER -> <<Added(i, type), About("done", i)>>

ReplayTurn(r) ==
  IF r.shown < Len(r.items)
  THEN Emits([r EXCEPT !.shown = @ + 1], OutputItem(r.shown + 1, r.items[r.shown + 1], r.text))
  ELSE Emits([r EXCEPT !.finishing = FALSE], <<Terminal>>)

\* The calls and the searches that a body announces.
CallsIn(body) ==
  IF "calls" \in DOMAIN body THEN body.calls
  ELSE Cardinality({i \in DOMAIN body.blocks : body.blocks[i].kind = "tool_use"})
SearchesIn(body) ==
  IF "calls" \in DOMAIN body THEN 0
  ELSE Cardinality({i \in DOMAIN body.blocks :
         body.blocks[i].kind = "server_tool_use" /\ body.blocks[i].form # "odd"})
=============================================================================
