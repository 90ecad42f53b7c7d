----------------------------- MODULE MCRecovery -----------------------------
(* A window of 3 ticks, with waits in the proportions of the code's; at    *)
(* least one failure for every branch of every decision.                    *)
EXTENDS Recovery

Fail(kind, status, hint, structured, complaint, after) ==
  [kind |-> kind, status |-> status, hint |-> hint, structured |-> structured,
   complaint |-> complaint, after |-> after]

Plain(kind, status) == Fail(kind, status, "none", "none", "none", 0)

MCReply ==
  {Plain("success", 400), Plain("unusable", 400), Plain("timeout", 400),
   Plain("unreachable", 400)}
  \cup {Fail("wrapped", 400, "none", s, "none", 0) : s \in {"transient", "terminal"}}
  \cup {Fail("wrapped", 400, "none", "none", "reasoning", 0)}
  \cup {Fail("held", 429, "none", "transient", "none", 2)}
  \cup {Plain("error", s) : s \in {401, 408, 525}}
  \cup {Fail("error", 503, "none", "none", "none", 9),
        Fail("error", 503, "false", "none", "none", 0),
        Fail("error", 429, "none", "terminal", "none", 0),
        Fail("error", 403, "none", "none", "challenge", 0)}
  \cup {Fail("error", 400, "none", "none", c, 0) :
          c \in {"include", "tools", "vision", "budget", "reasoning"}}

\* A balanced channel with a window, one without, and one that is not balanced.
MCRoute == {[balanced |-> TRUE, responses |-> TRUE, budget |-> 3],
            [balanced |-> TRUE, responses |-> FALSE, budget |-> 0],
            [balanced |-> FALSE, responses |-> TRUE, budget |-> 3]}

\* A body with everything a rewrite can take away, and one with nothing to strip.
MCBodies == {[images |-> b, opaque |-> TRUE, include |-> b, undeclared |-> b,
              clamped |-> FALSE] : b \in BOOLEAN}
=============================================================================
