---------------------------- MODULE InlineThink ----------------------------
(***************************************************************************)
(* inlineThinkState (internal/proxy/inline_think.go): answers that carry   *)
(* their reasoning as <think>...</think> inside the text are split while   *)
(* they stream, whatever the borders of the deltas.                        *)
(*                                                                         *)
(* An answer is a sequence of tokens: letters, quotes, and tags.  A tag is *)
(* two tokens, so that a delta may end inside one.  What the code holds or *)
(* hands on of it is a set of its places, read in their order.  White      *)
(* space, which the code trims around a span, is left out.                 *)
(***************************************************************************)
EXTENDS Naturals, Sequences

CONSTANTS Letters,  \* tokens that are plain text
          Texts     \* the answers that may stream in

Quote == "quote"
OpenTag == <<"<thi", "nk>">>
CloseTag == <<"</thi", "nk>">>
Heads == {OpenTag[1], CloseTag[1]}
Tokens == Letters \cup Heads \cup {Quote, "nk>"}

ASSUME ThinkAssumption ==
  Texts \subseteq Seq(Tokens) /\ Letters \cap (Heads \cup {Quote, "nk>"}) = {}

VARIABLES answer,   \* the whole text
          arrived,  \* how many of its tokens have
          mode,     \* inlineThinkState.mode: "detecting", "reasoning" or "text"
          buf,      \* inlineThinkState.buf
          feeding,  \* feed is in its loop
          shown,    \* what was handed on as reasoning and as text, and whether in order
          ended     \* flush was called

thinkVars == <<answer, arrived, mode, buf, feeding, shown, ended>>

-----------------------------------------------------------------------------
(* Pieces of the answer.                                                   *)

Adjacent(s, i, j) == i \in s /\ j \in s /\ i < j /\ ~\E k \in s : i < k /\ k < j

\* The tag begins at place i of s and ends at j.
TagAt(s, i, j, tag) == Adjacent(s, i, j) /\ answer[i] = tag[1] /\ answer[j] = tag[2]

IsLiteral(s, i, j) ==
  \E q \in s : answer[q] = Quote /\ (Adjacent(s, q, i) \/ Adjacent(s, j, q))

\* indexTagSkippingLiterals: the first tag of s that is not quoted, if any.
Tags(s, tag) == {t \in s \X s : TagAt(s, t[1], t[2], tag) /\ ~IsLiteral(s, t[1], t[2])}
FirstTag(s, tag) == {t \in Tags(s, tag) : \A u \in Tags(s, tag) : t[1] <= u[1]}

Before(s, t) == {p \in s : p < t[1]}
After(s, t) == {p \in s : p > t[2]}

\* splitThinkSpan and splitLeadingThinkBlock: an opening tag, and the first
\* closing one of what follows it.  A body is searched without what precedes it.
Spans(s, opens) == {<<t, u>> : t \in opens, u \in s \X s}
FirstSpan(s, opens) == {d \in Spans(s, opens) : d[2] \in FirstTag(After(s, d[1]), CloseTag)}

StripClose(s) == s \ UNION {{t[1], t[2]} : t \in Tags(s, CloseTag)}

\* heldTagSuffixLen: a tag that may go on in the next delta.
Held(s) == {i \in s : answer[i] \in Heads /\ \A j \in s : j <= i}

\* leadingThinkDecision; the second form overlooks a tag that is cut in two.
Opens(s) == {t \in s \X s : TagAt(s, t[1], t[2], OpenTag) /\ \A p \in s : t[1] <= p}

LeadingWhole(s) ==
  IF s = {} THEN "detecting" ELSE IF Opens(s) # {} THEN "reasoning" ELSE "text"

Leading(s) ==
  IF \A p \in s : s = {p} /\ answer[p] = OpenTag[1] THEN "detecting"
  ELSE IF Opens(s) # {} THEN "reasoning" ELSE "text"

-----------------------------------------------------------------------------
(* feed: a delta, and the turns of its loop.                               *)

\* The next delta, cut anywhere, even inside a tag.
Delta(n) ==
  /\ ~feeding /\ ~ended
  /\ arrived' = arrived + n /\ buf' = buf \cup (arrived + 1)..(arrived + n)
  /\ feeding' = TRUE
  /\ UNCHANGED <<answer, mode, shown, ended>>

Behind(piece, given) == \A p \in piece, q \in given : q < p

HandsOn(reasoning, text) ==
  shown' = [reasoning |-> shown.reasoning \cup reasoning, text |-> shown.text \cup text,
            ordered |-> shown.ordered /\ Behind(reasoning, shown.reasoning) /\ Behind(text, shown.text)]

\* What a turn leaves in the buffer, and hands on.
Turn(next, rest, reasoning, text) ==
  /\ mode' = next /\ buf' = rest
  /\ HandsOn(reasoning, text)
  /\ UNCHANGED <<answer, arrived, ended>>

Wait == feeding' = FALSE /\ UNCHANGED <<answer, arrived, mode, buf, shown, ended>>

\* The head of the answer decides; a closing tag without an opening one ends
\* reasoning that a relay has misrouted.  A span behind other text is left to the
\* turn in the mode "text", which cuts it out in the same way.
Detect ==
  /\ feeding /\ mode = "detecting"
  /\ LET closes == FirstTag(buf, CloseTag)
         opens == FirstTag(buf, OpenTag)
     IN
     \/ Leading(buf) = "detecting" /\ Wait
     \/ Leading(buf) = "reasoning" /\ Turn("reasoning", buf, {}, {}) /\ UNCHANGED feeding
     \/ /\ Leading(buf) = "text"
        /\ \E t \in closes : /\ \A u \in opens : t[1] < u[1]
                             /\ Turn("text", After(buf, t), Before(buf, t), {})
        /\ UNCHANGED feeding
     \/ /\ Leading(buf) = "text"
        /\ ~\E t \in closes : \A u \in opens : t[1] < u[1]
        /\ mode' = "text" /\ UNCHANGED <<answer, arrived, buf, feeding, shown, ended>>

\* The first span of s is cut out.
Cut(s, opens) ==
  \E d \in FirstSpan(s, opens) :
    Turn("text", After(s, d[2]), After(s, d[1]) \cap Before(s, d[2]), Before(s, d[1]))

SplitLeading ==
  /\ feeding /\ mode = "reasoning"
  /\ \/ Cut(buf, Opens(buf)) /\ UNCHANGED feeding
     \/ FirstSpan(buf, Opens(buf)) = {} /\ Wait

SplitText ==
  /\ feeding /\ mode = "text"
  /\ LET opens == FirstTag(buf, OpenTag)
         stripped == StripClose(buf)
     IN \/ Cut(buf, opens) /\ UNCHANGED feeding
        \/ /\ FirstSpan(buf, opens) = {}
           /\ Turn("text", Held(stripped), {}, stripped \ Held(stripped)) /\ feeding' = FALSE

-----------------------------------------------------------------------------
(* flush: an open span at the end of the answer is reasoning.              *)

OpenSpanNever == {}
OpenSpan == IF mode = "reasoning" THEN UNION {After(buf, t) : t \in Opens(buf)} ELSE {}

Flush ==
  /\ ~feeding /\ ~ended /\ arrived = Len(answer)
  /\ mode' = "text" /\ buf' = {} /\ ended' = TRUE
  /\ HandsOn(OpenSpan, IF mode = "reasoning" THEN {} ELSE buf)
  /\ UNCHANGED <<answer, arrived, feeding>>

ThinkInit ==
  /\ answer \in Texts /\ arrived = 0
  /\ mode = "detecting" /\ buf = {} /\ feeding = FALSE /\ ended = FALSE
  /\ shown = [reasoning |-> {}, text |-> {}, ordered |-> TRUE]

ThinkNext ==
  \/ \E n \in 1..(Len(answer) - arrived) : Delta(n)
  \/ Detect \/ SplitLeading \/ SplitText \/ Flush

ThinkSpec == ThinkInit /\ [][ThinkNext]_thinkVars

-----------------------------------------------------------------------------
(* Properties.                                                             *)

\* Every letter of the answer is handed on exactly once, as reasoning or as
\* text, in the order in which it arrived; none is lost in the buffer, whatever
\* the borders of the deltas (feed, flush).
EveryLetterOnce ==
  /\ shown.ordered /\ shown.reasoning \cap shown.text = {}
  /\ ended => \A p \in DOMAIN answer :
                answer[p] \in Letters => p \in shown.reasoning \cup shown.text

\* What a span at the head of the answer encloses is never shown as text, not
\* even for a moment (leadingThinkDecision).
LeadingSpanApart ==
  LET sent == 1..arrived IN
  \A t \in Opens(sent) :
    (\A p \in sent : answer[p] # Quote) =>
      LET closes == FirstTag(After(sent, t), CloseTag)
          body == {p \in After(sent, t) : \A u \in closes : p < u[1]}
      IN \A p \in body : answer[p] \in Letters => p \notin shown.text

=============================================================================
