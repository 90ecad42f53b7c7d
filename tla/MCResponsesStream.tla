------------------------- MODULE MCResponsesStream -------------------------
(* Two output slots; ids the upstream repeats, changes or leaves out.      *)
EXTENDS ResponsesStream, TLC

CONSTANTS s1, s2, a, b, n1, n2

MCFresh == (s1 :> n1) @@ (s2 :> n2)

MCIds == {a, b, n1, n2}

Frame(kind, slot, id, flag) == [kind |-> kind, slot |-> slot, id |-> id, flag |-> flag]

\* A frame that names no slot carries no id; a named slot's id may be missing.
Names == {<<NoSlot, NoId>>} \cup (Slots \X {a, b, NoId})
Items == Slots \X {a, b, NoId}

MCFrames ==
  {Frame(k, NoSlot, NoId, FALSE) : k \in {"heartbeat", "done", "garbled", "error", "lifecycle"}}
  \cup {Frame(k, NoSlot, NoId, TRUE) : k \in {"error", "failed"}}
  \cup {Frame(k, n[1], n[2], TRUE) : k \in {"lifecycle", "text", "thought", "terminal"}, n \in Names}
  \cup {Frame(k, n[1], n[2], FALSE) : k \in {"item", "searchDone"}, n \in Items}
  \cup {Frame(k, n[1], n[2], sealed) :
          k \in {"reasoningAdded", "reasoningDone"}, n \in Items, sealed \in BOOLEAN}
  \cup {Frame("terminal", NoSlot, NoId, FALSE)}
=============================================================================
