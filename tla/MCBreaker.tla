----------------------------- MODULE MCBreaker -----------------------------
(* Breaker with thresholds of two and three, and an opted-out route the     *)
(* reload may switch to.                                                    *)
EXTENDS Breaker

MCPolicies == {[on |-> TRUE, threshold |-> 2], [on |-> TRUE, threshold |-> 3],
               [on |-> FALSE, threshold |-> 2]}
=============================================================================
