----------------------------- MODULE UsageGuard -----------------------------
(***************************************************************************)
(* contextUsageGuard (internal/proxy/context_usage_guard.go): whether the   *)
(* prompt count a provider reports fits the request body it was sent, by    *)
(* the ratio of bytes to tokens learned for the conversation on a channel.  *)
(* The ratio is kept as the pair it was computed from, so that every        *)
(* comparison is one of integers.                                           *)
(***************************************************************************)
EXTENDS Integers

CONSTANT Channels

VARIABLE baseline   \* per channel of the conversation: [bytes, tokens]

\* No entry for the channel.
Unlearned == [bytes |-> 0, tokens |-> 1]

GuardInit == baseline = [c \in Channels |-> Unlearned]

\* guardRewriteShrink: the body is under 3/4 of the one learned from.  With
\* nothing learned no body is.
Rewritten(c, bytes) == 4 * bytes < 3 * baseline[c].bytes

\* guardOverReportRatio: more than 5/4 of what the ratio makes of the body.
Overshoots(c, bytes, tokens) ==
  4 * tokens * baseline[c].bytes > 5 * bytes * baseline[c].tokens

\* observe's verdict, and what it learns.
Coherent(c, bytes, tokens) ==
  \/ baseline[c] = Unlearned
  \/ Rewritten(c, bytes)
  \/ ~Overshoots(c, bytes, tokens)

LearnAnyway(c, bytes, tokens) ==
  baseline' = [baseline EXCEPT ![c] = [bytes |-> bytes, tokens |-> tokens]]
Learn(c, bytes, tokens) ==
  baseline' = IF Coherent(c, bytes, tokens)
              THEN [baseline EXCEPT ![c] = [bytes |-> bytes, tokens |-> tokens]]
              ELSE baseline

\* pruneLocked, which any conversation's report runs: an entry idle for a day
\* goes when the table is half full.
PruneBaseline(c) ==
  /\ baseline[c] # Unlearned
  /\ baseline' = [baseline EXCEPT ![c] = Unlearned]

=============================================================================
