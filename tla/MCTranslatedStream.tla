------------------------ MODULE MCTranslatedStream ------------------------
(* Two content blocks with one search id; two tool calls.                  *)
EXTENDS TranslatedStream, SequencesExt

CONSTANT w

MFrame(type, index, kind, id, flag) ==
  [type |-> type, index |-> index, kind |-> kind, id |-> id, flag |-> flag]

MPlain(type, flag) == MFrame(type, 0, "unknown", NoCallId, flag)

\* Blocks that name a search, and the others.
Named == {"server_tool_use", "web_search_tool_result"}

MCMessagesFrames ==
  {MPlain(t, FALSE) : t \in {"message_start", "message_stop", "error", "garbled"}}
  \cup {MPlain("message_delta", TRUE), MFrame("message_start", 0, "text", NoCallId, TRUE)}
  \cup {MFrame("content_block_start", i, k, NoCallId, TRUE) : i \in Blocks, k \in {"text", "thinking"}}
  \cup {MFrame("content_block_start", 1, k, NoCallId, FALSE) :
          k \in {"text", "redacted_thinking", "tool_use", "unknown"}}
  \cup {MFrame("content_block_start", 0, "server_tool_use", w, FALSE),
        MFrame("content_block_start", 1, "server_tool_use", NoCallId, FALSE)}
  \cup {MFrame("content_block_start", 1, "web_search_tool_result", id, flag) :
          id \in {w, NoCallId}, flag \in BOOLEAN}
  \cup {MFrame("content_block_delta", i, "unknown", NoCallId, flag) : i \in Blocks, flag \in BOOLEAN}
  \cup {MFrame("content_block_stop", i, "unknown", NoCallId, FALSE) : i \in Blocks}

Chunk(thought, content, call, search, finish) ==
  [type |-> "chunk", thought |-> thought, content |-> content, call |-> call, search |-> search,
   finish |-> finish]

APiece(i, name, args) == [index |-> i, name |-> name, args |-> args]

MCChatFrames ==
  {[Chunk(FALSE, FALSE, NoPiece, "none", FALSE) EXCEPT !.type = t] : t \in {"done", "error", "garbled"}}
  \cup {Chunk(TRUE, FALSE, NoPiece, "none", FALSE), Chunk(TRUE, TRUE, NoPiece, "none", TRUE),
        Chunk(FALSE, TRUE, NoPiece, "none", FALSE), Chunk(FALSE, FALSE, NoPiece, "choice", TRUE),
        Chunk(TRUE, FALSE, NoPiece, "root", FALSE)}
  \cup {Chunk(FALSE, FALSE, APiece(0, name, args), "none", FALSE) :
          name \in {"none", "good", "blank"}, args \in BOOLEAN}
  \cup {Chunk(FALSE, FALSE, APiece(1, "good", args), "none", FALSE) : args \in BOOLEAN}

ABlock(kind, form) ==
  [kind |-> kind, form |-> form,
   id |-> IF kind \in Named THEN w ELSE NoCallId]

MCBlocks ==
  {ABlock("text", f) : f \in {"plain", "led", "span"}}
  \cup {ABlock(k, "plain") : k \in {"thinking", "redacted_thinking", "tool_use", "server_tool_use",
                                    "web_search_tool_result"}}
  \cup {ABlock("tool_use", "odd"), ABlock("server_tool_use", "odd")}

\* Bodies of three blocks are made of the kinds whose order matters.
MCOrdered == {b \in MCBlocks : b.form \in {"plain", "led"} /\ b.kind # "redacted_thinking"}

MCMessagesBodies ==
  {MessagesBody(blocks, evidence) :
     blocks \in BoundedSeq(MCBlocks, 2) \cup [1..3 -> MCOrdered], evidence \in BOOLEAN}

MCChatBodies ==
  {ChatBody(thought, searched, calls, text) : thought \in BOOLEAN, searched \in BOOLEAN,
     calls \in 0..2, text \in {"none", "blank", "text"}}
=============================================================================
