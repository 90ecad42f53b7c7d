--------------------------- MODULE MCNativeStream ---------------------------
(* Two calls, one of a tool that requires arguments; two content blocks.   *)
EXTENDS NativeStream, SequencesExt

Chunk(thought, content, call, finish) ==
  [type |-> "chunk", thought |-> thought, content |-> content, call |-> call, finish |-> finish]

APiece(i, name, args) ==
  [index |-> i, id |-> name, name |-> name, args |-> args, present |-> TRUE]

MCChatFrames ==
  {[Chunk(FALSE, FALSE, NoPiece, FALSE) EXCEPT !.type = t] : t \in {"done", "error", "garbled"}}
  \cup {[Chunk(TRUE, TRUE, NoPiece, TRUE) EXCEPT !.type = t] : t \in {"invalid", "exhausted"}}
  \cup {Chunk(thought, content, NoPiece, finish) : thought, content, finish \in BOOLEAN}
  \cup {Chunk(FALSE, FALSE, APiece(0, name, args), FALSE) : name, args \in BOOLEAN}
  \cup {Chunk(FALSE, TRUE, APiece(1, name, TRUE), FALSE) : name \in BOOLEAN}
  \cup {Chunk(FALSE, FALSE, APiece(1, TRUE, FALSE), TRUE)}

MFrame(type, index, kind, flag) == [type |-> type, index |-> index, kind |-> kind, flag |-> flag]

MCMessagesFrames ==
  {MFrame(t, 0, "none", FALSE) : t \in {"message_start", "message_stop", "error", "garbled"}}
  \cup {MFrame("message_delta", 0, "none", flag) : flag \in BOOLEAN}
  \cup {MFrame(t, i, kind, flag) :
          t \in {"content_block_start", "content_block_delta"}, i \in Blocks,
          kind \in BlockKind \ {"none"}, flag \in BOOLEAN}
  \cup {MFrame("content_block_stop", i, kind, FALSE) :
          i \in Blocks, kind \in BlockKind \ {"none"}}

MCChatBodies == [thought : BOOLEAN, content : BOOLEAN, calls : SUBSET Calls]

MCBlocks ==
  {[kind |-> "text", form |-> f] : f \in {"plain", "led", "span", "blank"}}
  \cup {[kind |-> k, form |-> "plain"] : k \in {"thinking", "tool_use", "server_tool_use"}}
  \cup {[kind |-> "thinking", form |-> "blank"], [kind |-> "tool_use", form |-> "odd"]}

MCMessagesBodies == BoundedSeq(MCBlocks, 3)
=============================================================================
