----------------------------- MODULE ItemStream -----------------------------
(***************************************************************************)
(* What the client of a translated stream is promised: an EventStream that *)
(* speaks of output items.  An item is announced under the next index; a   *)
(* message or a visible reasoning item gets one content part, which is     *)
(* opened before and closed after all it carries; an item is done once,    *)
(* nothing is said of it afterwards, and a terminal event leaves no item   *)
(* open.                                                                   *)
(***************************************************************************)
EXTENDS Naturals, Sequences

VARIABLES phase, number, last, spoken,  \* as in EventStream
          about,  \* the item of the last event, or 0
          items   \* the items by index: type, part and whether they are done

vars == <<phase, number, last, spoken, about, items>>

\* "sealed" reasoning is encrypted and shows nothing.
ItemType == {"message", "reasoning", "sealed", "function_call", "web_search_call"}
HasPart(type) == type \in {"message", "reasoning"}

Fresh(type) == [type |-> type, part |-> "none", done |-> FALSE]

\* Leaving the items aside, it is an EventStream: each step is one of it.
Events == INSTANCE EventStream

Init == Events!Init /\ about = 0 /\ items = <<>>

Open == Events!Open /\ UNCHANGED <<about, items>>

Refuse == Events!Refuse /\ UNCHANGED <<about, items>>

Other(i) == Events!Other /\ about' = i
Thought(i) == Events!Thought /\ about' = i

\* response.created and response.in_progress come before any item.
Announce == items = <<>> /\ Other(0) /\ UNCHANGED items

Add(type) ==
  /\ items' = Append(items, Fresh(type))
  /\ IF type = "reasoning" THEN Thought(Len(items) + 1) ELSE Other(Len(items) + 1)

Mark(i, item) == items' = [items EXCEPT ![i] = item]

OpenPart(i) ==
  /\ HasPart(items[i].type) /\ items[i].part = "none"
  /\ Mark(i, [items[i] EXCEPT !.part = "open"]) /\ Other(i)

\* A text delta; one of white space only leaves the answer unspoken.
Say(i) ==
  /\ items[i].type = "message" /\ items[i].part = "open"
  /\ Events!Text /\ about' = i /\ UNCHANGED items

SayBlank(i) ==
  /\ items[i].type = "message" /\ items[i].part = "open"
  /\ Other(i) /\ UNCHANGED items

Think(i) ==
  /\ items[i].type = "reasoning" /\ items[i].part = "open"
  /\ Thought(i) /\ UNCHANGED items

\* Arguments of a call, and the progress of a search.
Progress(i) ==
  /\ ~HasPart(items[i].type) /\ ~items[i].done
  /\ Other(i) /\ UNCHANGED items

\* The whole text of a part is repeated before the part is closed.
Repeat(i) ==
  /\ items[i].part = "open" /\ ~items[i].done
  /\ Other(i) /\ UNCHANGED items

ClosePart(i) ==
  /\ items[i].part = "open"
  /\ Mark(i, [items[i] EXCEPT !.part = "closed"]) /\ Other(i)

Done(i) ==
  /\ HasPart(items[i].type) => items[i].part = "closed"
  /\ ~items[i].done
  /\ Mark(i, [items[i] EXCEPT !.done = TRUE]) /\ Other(i)

AllDone == \A i \in DOMAIN items : items[i].done

Close(kind) == Events!Close /\ last' = kind /\ about' = 0 /\ UNCHANGED items
Complete == AllDone /\ Close("terminal")
Break == Close("error")

Touch(i) ==
  OpenPart(i) \/ Say(i) \/ SayBlank(i) \/ Think(i) \/ Progress(i) \/ Repeat(i) \/ ClosePart(i) \/ Done(i)

Next ==
  \/ Open \/ Refuse \/ Announce \/ Complete \/ Break
  \/ \E type \in ItemType : Add(type)
  \/ \E i \in DOMAIN items : Touch(i)

Spec == Init /\ [][Next]_vars
=============================================================================
