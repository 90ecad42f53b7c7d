------------------------- MODULE StreamTranslation -------------------------
(***************************************************************************)
(* What the two stream translations of internal/proxy/facade_stream.go     *)
(* share: a call turns a state into a new state, the events it emits on    *)
(* the way, and an error or none.  Where the order of a map or the         *)
(* contents of a text decide, there are several such outcomes: a call      *)
(* stands for the set of them.  Calls in a row stop at the first error.    *)
(***************************************************************************)
EXTENDS Naturals, Sequences

Event(kind, item, type) == [kind |-> kind, item |-> item, type |-> type]

About(kind, item) == Event(kind, item, "none")

Added(item, type) == Event("added", item, type)

\* response.created and response.in_progress; the end of the stream.
Opening == <<About("announce", 0), About("announce", 0)>>
Terminal == About("terminal", 0)
ErrorEvent == About("error", 0)

Outcome(state, out, bad) == [state |-> state, out |-> out, bad |-> bad]
Emits(state, out) == {Outcome(state, out, FALSE)}
Quiet(state) == Emits(state, <<>>)
Fails(state) == {Outcome(state, <<>>, TRUE)}

\* The next call, unless the one before returned an error.
Then(outcomes, Op(_)) ==
  UNION {IF r.bad THEN {r}
         ELSE {[n EXCEPT !.out = r.out \o @] : n \in Op(r.state)} : r \in outcomes}

\* A web search item: added, in_progress, searching ... completed and done.
SearchBegins(item) ==
  <<Added(item, "web_search_call"), About("progress", item), About("progress", item)>>
SearchEnds(item) == <<About("progress", item), About("done", item)>>

\* An item with a content part: its opening and its end.
PartBegins(item, type) == <<Added(item, type), About("part", item)>>
PartEnds(item) == <<About("repeat", item), About("partDone", item), About("done", item)>>

\* thoughtGate and the deltas of text and reasoning.
TextDelta(item, text) == About(IF text = "blank" THEN "blank" ELSE "text", item)
ThoughtDelta(item) == About("thought", item)
=============================================================================
