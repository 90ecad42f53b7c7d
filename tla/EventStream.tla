---------------------------- MODULE EventStream ----------------------------
(***************************************************************************)
(* What the client of one streaming Responses request is promised,         *)
(* whatever attempts, held frames and failures lie behind it: one stream   *)
(* of events, numbered without a gap, that is opened and closed at most    *)
(* once, in which no visible reasoning follows the answer's text; or one   *)
(* plain HTTP error and no stream at all.                                  *)
(***************************************************************************)
EXTENDS Naturals

VARIABLES phase,   \* "silent", "refused", "open" or "closed"
          number,  \* the events received
          last,    \* the kind of the last one
          spoken   \* text has been received

vars == <<phase, number, last, spoken>>

Init == phase = "silent" /\ number = 0 /\ last = "none" /\ spoken = FALSE

Open ==
  /\ phase = "silent" /\ phase' = "open"
  /\ UNCHANGED <<number, last, spoken>>

Refuse ==
  /\ phase = "silent" /\ phase' = "refused"
  /\ UNCHANGED <<number, last, spoken>>

Tell(kind) ==
  /\ phase = "open"
  /\ number' = number + 1
  /\ last' = kind

Thought == ~spoken /\ Tell("thought") /\ UNCHANGED <<phase, spoken>>

Text == Tell("text") /\ spoken' = TRUE /\ UNCHANGED phase

Other == Tell("other") /\ UNCHANGED <<phase, spoken>>

\* The terminal event of the protocol, or the proxy's own error event.
Close == \E kind \in {"terminal", "error"} : Tell(kind) /\ phase' = "closed" /\ UNCHANGED spoken

Next == Open \/ Refuse \/ Thought \/ Text \/ Other \/ Close

Spec == Init /\ [][Next]_vars
=============================================================================
