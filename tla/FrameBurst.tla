----------------------------- MODULE FrameBurst -----------------------------
(***************************************************************************)
(* What a rectifier of a native stream (chatToolRectifier,                 *)
(* messagesToolRectifier) makes of one frame of the upstream: a new state, *)
(* an error or none, and a burst of frames for the client.  In a burst     *)
(* some frames come first, then those of the calls or blocks that were     *)
(* held back, in the order of their indexes, then what was waiting for     *)
(* them.                                                                   *)
(***************************************************************************)
EXTENDS Naturals, Sequences, FiniteSetsExt

\* What a frame shows the client, and which call or block it starts, continues
\* or stops.
Frame(shows, about, i) == [kind |-> shows, type |-> about, item |-> i]
Plain(shows) == Frame(shows, "none", 0)

NoBlocks == [i \in {} |-> <<>>]
Burst(frames, blocks, after) == [frames |-> frames, blocks |-> blocks, after |-> after]
Only(frames) == Burst(frames, NoBlocks, <<>>)

\* A burst whose first frame, when it has one, is the next to be written.
First(b) == Min(DOMAIN b.blocks)
Settled(b) ==
  IF b.frames # <<>> THEN b
  ELSE IF DOMAIN b.blocks = {} THEN [b EXCEPT !.frames = b.after, !.after = <<>>]
  ELSE [b EXCEPT !.frames = b.blocks[First(b)],
                 !.blocks = [i \in DOMAIN b.blocks \ {First(b)} |-> b.blocks[i]]]

Rest(b) == Settled([b EXCEPT !.frames = Tail(@)])

Outcome(state, out, bad) == [state |-> state, out |-> out, bad |-> bad]
Gives(state, frames) == {Outcome(state, Only(frames), FALSE)}
Quiet(state) == Gives(state, <<>>)
Fails(state) == {Outcome(state, Only(<<>>), TRUE)}
=============================================================================
