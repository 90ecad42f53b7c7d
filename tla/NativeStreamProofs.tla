------------------------- MODULE NativeStreamProofs -------------------------
(***************************************************************************)
(* The client's view of a native stream, for any calls, blocks, frames and *)
(* bodies.                                                                 *)
(*                                                                         *)
(* The invariant is about the burst that is being written: within itself   *)
(* and behind what the client already has it keeps the order of the        *)
(* blocks' frames, thoughts before texts, and the end at the end; and what *)
(* the client will have when it is written (Reached) matches what the      *)
(* rectifier knows of each call or block.  Writing a frame keeps that, so  *)
(* each handler answers for its own burst only.                            *)
(***************************************************************************)
EXTENDS NativeStream, WellFoundedInduction, TLAPS

-----------------------------------------------------------------------------
(* What is written, and what is yet to be.                                 *)

AnyFrame == [kind : {"thought", "text", "other", "terminal", "error"},
             type : {"none", "start", "delta", "stop"}, item : Nat]
Placed(e) == e.type # "none" => e.item \in Places
FrameSeq == {s \in Seq(AnyFrame) : \A p \in DOMAIN s : Placed(s[p])}
AnyBurst ==
  [frames : FrameSeq, blocks : UNION {[S -> FrameSeq \ {<<>>}] : S \in SUBSET Places}, after : FrameSeq]

\* Of what is written next: a block starts with the first frame or is open, and
\* a stop is the last.
InOrder(s, blocks) ==
  \A p \in DOMAIN s :
    /\ s[p].type = "start" => p = 1 /\ blocks[s[p].item] = "none"
    /\ s[p].type \in {"delta", "stop"} =>
         IF s[1].type = "start" THEN p # 1 /\ s[p].item = s[1].item ELSE blocks[s[p].item] = "open"
    /\ s[p].type = "stop" => p = Len(s)

\* A block that was held back is shown from its start on.
Whole(s, i) ==
  /\ s # <<>> /\ s[1].type = "start"
  /\ \A p \in DOMAIN s : /\ s[p].item = i /\ s[p].type # "none"
                         /\ p # 1 => s[p].type \in {"delta", "stop"}
                         /\ s[p].type = "stop" => p = Len(s)

BlocksFollow(b, blocks) ==
  /\ InOrder(b.frames, blocks)
  /\ \A i \in DOMAIN b.blocks :
       /\ blocks[i] = "none" /\ Whole(b.blocks[i], i)
       /\ \A p \in DOMAIN b.frames : b.frames[p].type # "none" => b.frames[p].item # i
  /\ \A p \in DOMAIN b.after : b.after[p].type = "none"

\* No thought after a text, neither one that was shown nor one that will be.
Shy(s, spoken) ==
  \A p \in DOMAIN s : s[p].kind = "thought" => ~spoken /\ \A q \in 1..(p - 1) : s[q].kind # "text"
Holds(s, kind) == \E p \in DOMAIN s : s[p].kind = kind
ThoughtsLead(b, spoken) ==
  /\ Shy(b.frames, spoken)
  /\ \A i \in DOMAIN b.blocks :
       /\ Shy(b.blocks[i], spoken)
       /\ Holds(b.blocks[i], "thought") =>
            /\ ~Holds(b.frames, "text")
            /\ \A j \in DOMAIN b.blocks : j < i => ~Holds(b.blocks[j], "text")
  /\ ~Holds(b.after, "thought")

\* The end of the stream comes last.
Ends(e) == e.kind \in {"terminal", "error"}
EndLast(b) ==
  /\ \A p \in DOMAIN b.frames :
       Ends(b.frames[p]) => p = Len(b.frames) /\ DOMAIN b.blocks = {} /\ b.after = <<>>
  /\ \A i \in DOMAIN b.blocks : \A p \in DOMAIN b.blocks[i] : ~Ends(b.blocks[i][p])
  /\ \A p \in DOMAIN b.after : Ends(b.after[p]) => p = Len(b.after)

Ready(b) == b.frames = <<>> => DOMAIN b.blocks = {} /\ b.after = <<>>

\* The event it ends the stream with.
EndsWith(b, kind) ==
  \/ b.after # <<>> /\ b.after[Len(b.after)].kind = kind
  \/ b.after = <<>> /\ DOMAIN b.blocks = {} /\ b.frames # <<>> /\ b.frames[Len(b.frames)].kind = kind
EndComes(b) == EndsWith(b, "terminal") \/ EndsWith(b, "error")

\* How the client will see a block when all is written.
About(s, i) == \E p \in DOMAIN s : s[p].type # "none" /\ s[p].item = i
Left(s, before, i) ==
  IF s # <<>> /\ s[Len(s)].type = "stop" /\ s[Len(s)].item = i THEN "stopped"
  ELSE IF About(s, i) THEN "open" ELSE before
Reached(b, blocks, i) ==
  Left(IF i \in DOMAIN b.blocks THEN b.blocks[i] ELSE b.frames, blocks[i], i)

-----------------------------------------------------------------------------
(* The invariant.                                                          *)

Flags == [id : BOOLEAN, name : BOOLEAN, args : BOOLEAN]
ChatState ==
  [calls : [Calls -> Flags], flushed : BOOLEAN, sawText : BOOLEAN, held : BOOLEAN, texts : Nat,
   terminal : BOOLEAN, stopped : BOOLEAN]
MessagesState ==
  [hosted : BOOLEAN, filtered : SUBSET Nat, dropped : SUBSET Nat,
   held : UNION {[S -> BOOLEAN] : S \in SUBSET Nat}, sawText : BOOLEAN, terminal : BOOLEAN,
   stopped : BOOLEAN, began : UNION {[S -> BlockKind] : S \in SUBSET Places}, ended : SUBSET Nat]

Typed ==
  /\ protocol \in {"chat", "messages"}
  /\ client \in [phase : {"silent", "open", "closed", "refused"}, number : Nat,
                 last : {"none", "thought", "text", "other", "terminal", "error"}, spoken : BOOLEAN,
                 texts : Nat, blocks : [Places -> {"none", "open", "stopped"}], confused : BOOLEAN]
  /\ live \in BOOLEAN /\ over \in BOOLEAN /\ fired \in BOOLEAN
  /\ phase \in {"starting", "scanning", "flushing", "judging", "buffered", "ended"}
  /\ protocol = "chat" => state \in ChatState
  /\ protocol = "messages" => state \in MessagesState
  /\ out \in AnyBurst /\ outcome \in {"ok", "bad", "none"}
  /\ failed \in {"none", "upstream", "write"}
  /\ frames \in Nat /\ afterEnd \in Nat

Scans == phase \in {"scanning", "flushing", "judging"}
Answering == Scans \/ phase = "buffered"

\* The handler's phases.
Orderly ==
  /\ outcome = "none" => out = Only(<<>>)
  /\ phase \in {"starting", "judging", "ended"} => outcome = "none"
  /\ phase = "starting" => /\ client.phase = "silent" /\ ~client.spoken /\ failed = "none"
                           /\ \A i \in Places : client.blocks[i] = "none"
                           /\ ~state.terminal /\ ~state.sawText
                           /\ \/ protocol = "chat" /\ state = ChatInit
                              \/ protocol = "messages" /\ state \in {MessagesInit(h) : h \in BOOLEAN}
  /\ Answering => client.phase \in {"open", "closed"}
  /\ phase = "flushing" => protocol = "chat"
  /\ failed = "write" => ~live
  /\ phase = "scanning" /\ outcome # "none" => ~over
  /\ phase = "scanning" /\ ~over => /\ outcome = "none" => ~state.terminal
                                    /\ outcome # "bad" => failed = "none"

\* The end the client has or will be given.
EndInv ==
  /\ client.phase = "closed" <=> client.last \in {"terminal", "error"}
  /\ Answering => (EndComes(out) \/ client.phase = "closed" => state.terminal)
  /\ Answering /\ state.terminal =>
       /\ failed = "write" \/ client.phase = "closed" \/ EndComes(out)
       /\ failed # "upstream" /\ (outcome = "bad" => failed = "write")
  /\ phase = "buffered" => state.terminal
  /\ phase = "scanning" /\ client.phase = "closed" => failed # "write"

\* The burst, while anyone reads it.
Read == client.phase = "open" /\ failed # "write"
BurstInv ==
  Answering =>
    /\ Ready(out)
    /\ Read =>
         BlocksFollow(out, client.blocks) /\ ThoughtsLead(out, client.spoken) /\ EndLast(out)
    /\ client.phase = "closed" /\ out.frames # <<>> =>
         protocol = "chat" /\ client.last = "error" /\ phase = "flushing"

\* Text that was or will be shown is noted.
TextNoted ==
  client.phase = "open" =>
  /\ ~Holds(out.after, "text")
  /\ Scans => /\ client.spoken \/ Holds(out.frames, "text") => state.sawText
              /\ \A i \in DOMAIN out.blocks : ~Holds(out.blocks[i], "text")

\* The calls of a Chat Completions stream are held until they are flushed.
FlushedOut == ~state.held /\ (state.flushed \/ \A i \in Calls : state.calls[i] = NoCall)
ChatInv ==
  protocol = "chat" /\ Scans =>
    /\ phase \in {"flushing", "judging"} => FlushedOut
    /\ state.terminal /\ ~FlushedOut =>
         failed = "write" \/ (client.phase = "closed" /\ client.last = "error") \/ EndsWith(out, "error")
    /\ Read /\ ~state.flushed => \A i \in Calls : Reached(out, client.blocks, i) = "none"
    /\ Read /\ state.flushed =>
         \A i \in Calls : Discarded(state, i) \/ Reached(out, client.blocks, i) # "none"
    /\ state.flushed => state.terminal \/ phase # "scanning"

\* The blocks of a Messages stream, by what the upstream has sent of them.
LeftOut(m) == m.filtered \cup m.dropped
Tracked(m) ==
  /\ DOMAIN m.began = Blocks /\ DOMAIN m.held \subseteq Blocks /\ m.filtered \subseteq Blocks
  /\ m.dropped \subseteq Blocks /\ m.ended \subseteq Blocks
  /\ m.filtered # {} => m.hosted
  /\ m.terminal => DOMAIN m.held = {}
  /\ \A i \in Blocks :
       /\ m.began[i] = "none" => i \notin m.ended \cup DOMAIN m.held \cup LeftOut(m)
       /\ i \in DOMAIN m.held => m.began[i] = "tool_use" /\ i \notin m.ended
       /\ i \in LeftOut(m) => m.began[i] # "tool_use"

\* And what the client has, or will have, of each.
Matches(m, b, blocks) ==
  \A i \in Blocks :
    /\ m.began[i] = "none" \/ i \in DOMAIN m.held => Reached(b, blocks, i) = "none"
    /\ m.began[i] # "none" /\ i \notin m.ended \cup DOMAIN m.held \cup LeftOut(m) =>
         Reached(b, blocks, i) = "open"
    /\ m.began[i] = "tool_use" /\ i \in m.ended => Reached(b, blocks, i) # "none"

MessagesInv ==
  protocol = "messages" /\ Scans =>
    Tracked(state) /\ (Read => Matches(state, out, client.blocks))

\* What CallsReported demands.
Demands(i) ==
  IF protocol = "chat" THEN i \in Calls /\ ~Discarded(state, i)
  ELSE /\ i \in DOMAIN state.began /\ state.began[i] = "tool_use"
       /\ i \in state.ended \/ state.terminal
AtOnceInv ==
  phase = "buffered" /\ Read => \A i \in Places : Demands(i) => Reached(out, client.blocks, i) # "none"

IInv ==
  /\ Typed /\ Orderly /\ EndInv /\ BurstInv /\ TextNoted /\ ChatInv /\ MessagesInv /\ AtOnceInv
  /\ BlocksInOrder /\ CallsReported /\ EndStands

-----------------------------------------------------------------------------
(* Bursts.                                                                 *)

\* A set of natural numbers has a least one.
LEMMA MinIsLeast ==
  ASSUME NEW S \in SUBSET Nat, S # {}
  PROVE  Min(S) \in S /\ \A i \in S : Min(S) <= i
<1>1. OpToRel(<, Nat) = {ss \in Nat \X Nat : ss[1] < ss[2]}
  BY DEF OpToRel
<1>2. PICK x \in S : \A y \in S : <<y, x>> \notin OpToRel(<, Nat)
  BY WFMin, NatLessThanWellFounded
<1>3. ASSUME NEW y \in S, y < x
      PROVE  FALSE
  <2> DEFINE pair == <<y, x>>
  <2>1. pair \in Nat \X Nat /\ pair[1] < pair[2]
    BY <1>3
  <2>2. pair \in OpToRel(<, Nat)
    BY <1>1, <2>1, Zenon
  <2> QED
    BY <1>2, <2>2
<1>4. \A y \in S : x <= y
  BY <1>3
<1> QED
  BY <1>4 DEF Min

\* The places of calls and blocks have an order.
LEMMA PlacesAreNumbers == Places \subseteq Nat
<1>1. \A blocks \in MessagesBodies : DOMAIN blocks \subseteq Nat
  BY NativeAssumption
<1> QED
  BY <1>1, NativeAssumption DEF Places

\* What Settled makes of a burst.
LEMMA SettledParts ==
  ASSUME NEW b \in AnyBurst
  PROVE  /\ b.frames # <<>> => Settled(b) = b
         /\ b.frames = <<>> /\ DOMAIN b.blocks = {} =>
              Settled(b).frames = b.after /\ Settled(b).blocks = b.blocks /\ Settled(b).after = <<>>
         /\ b.frames = <<>> /\ DOMAIN b.blocks # {} =>
              /\ First(b) \in DOMAIN b.blocks /\ \A i \in DOMAIN b.blocks : First(b) <= i
              /\ Settled(b).frames = b.blocks[First(b)]
              /\ Settled(b).blocks = [i \in DOMAIN b.blocks \ {First(b)} |-> b.blocks[i]]
              /\ Settled(b).after = b.after
<1>1. DOMAIN b.blocks \in SUBSET Nat
  BY PlacesAreNumbers DEF AnyBurst
<1>2. DOMAIN b.blocks # {} => First(b) \in DOMAIN b.blocks /\ \A i \in DOMAIN b.blocks : First(b) <= i
  BY <1>1, MinIsLeast DEF First
<1> QED
  BY <1>2 DEF Settled, AnyBurst

\* A settled burst is a burst.
LEMMA SettledTyped ==
  ASSUME NEW b \in AnyBurst
  PROVE  Settled(b) \in AnyBurst
<1> DEFINE t == Settled(b)
<1>1. CASE b.frames # <<>>
  BY <1>1, SettledParts
<1>2. CASE b.frames = <<>> /\ DOMAIN b.blocks = {}
  <2>1. <<>> \in FrameSeq
    BY DEF FrameSeq
  <2> QED
    BY <1>2, <2>1 DEF Settled, AnyBurst
<1>3. CASE b.frames = <<>> /\ DOMAIN b.blocks # {}
  <2>1. PICK S \in SUBSET Places : b.blocks \in [S -> FrameSeq \ {<<>>}]
    BY DEF AnyBurst
  <2>2. First(b) \in S
    BY <1>3, <2>1, SettledParts
  <2> DEFINE rest == [i \in DOMAIN b.blocks \ {First(b)} |-> b.blocks[i]]
  <2>3. rest \in [S \ {First(b)} -> FrameSeq \ {<<>>}] /\ S \ {First(b)} \in SUBSET Places
    BY <2>1
  <2>4. b.blocks[First(b)] \in FrameSeq
    BY <2>1, <2>2
  <2>5. t = [b EXCEPT !.frames = b.blocks[First(b)], !.blocks = rest]
    BY <1>3 DEF Settled
  <2> HIDE DEF rest, t
  <2>6. rest \in UNION {[T -> FrameSeq \ {<<>>}] : T \in SUBSET Places}
    BY <2>3
  <2>7. t \in AnyBurst
    BY <2>4, <2>5, <2>6 DEF AnyBurst
  <2> QED
    BY <2>7 DEF t
<1> QED
  BY <1>1, <1>2, <1>3

\* Its parts are functions and sequences of frames.
LEMMA BurstParts ==
  ASSUME NEW b \in AnyBurst
  PROVE  /\ b.frames \in Seq(AnyFrame) /\ b.after \in Seq(AnyFrame)
         /\ DOMAIN b.blocks \subseteq Places
         /\ \A i \in DOMAIN b.blocks : b.blocks[i] \in Seq(AnyFrame) /\ b.blocks[i] # <<>>
         /\ \A p \in DOMAIN b.frames : Placed(b.frames[p])
         /\ \A p \in DOMAIN b.after : Placed(b.after[p])
<1>1. PICK S \in SUBSET Places : b.blocks \in [S -> FrameSeq \ {<<>>}]
  BY DEF AnyBurst
<1>2. b.frames \in FrameSeq /\ b.after \in FrameSeq
  BY DEF AnyBurst
<1> QED
  BY <1>1, <1>2 DEF FrameSeq

\* Its next frame, when there is one, is at hand.
LEMMA SettledReady ==
  ASSUME NEW b \in AnyBurst
  PROVE  Ready(Settled(b))
  BY SettledParts, BurstParts DEF Ready

\* It keeps the order of each block's frames.
LEMMA SettledFollows ==
  ASSUME NEW b \in AnyBurst, NEW blocks, BlocksFollow(b, blocks)
  PROVE  BlocksFollow(Settled(b), blocks) /\ Ready(Settled(b))
<1> DEFINE t == Settled(b)
<1>0. /\ b.frames \in Seq(AnyFrame) /\ b.after \in Seq(AnyFrame)
      /\ \A i \in DOMAIN b.blocks : b.blocks[i] \in Seq(AnyFrame)
  BY BurstParts
<1>1. CASE b.frames # <<>>
  BY <1>1, SettledParts DEF Ready
<1>2. CASE b.frames = <<>> /\ DOMAIN b.blocks = {}
  <2>1. t.frames = b.after /\ DOMAIN t.blocks = {} /\ t.after = <<>>
    BY <1>2, SettledParts
  <2>2. InOrder(b.after, blocks)
    BY DEF BlocksFollow, InOrder
  <2> QED
    BY <2>1, <2>2 DEF BlocksFollow, Ready
<1>3. CASE b.frames = <<>> /\ DOMAIN b.blocks # {}
  <2> DEFINE f == First(b)
  <2>1. /\ f \in DOMAIN b.blocks /\ t.frames = b.blocks[f] /\ t.after = b.after
        /\ DOMAIN t.blocks = DOMAIN b.blocks \ {f}
        /\ \A i \in DOMAIN t.blocks : t.blocks[i] = b.blocks[i]
    BY <1>3, SettledParts
  <2>2. Whole(b.blocks[f], f) /\ blocks[f] = "none"
    BY <2>1 DEF BlocksFollow
  <2>3. InOrder(b.blocks[f], blocks)
    <3> DEFINE s == b.blocks[f]
    <3>1. s \in Seq(AnyFrame) /\ s # <<>>
      BY <1>0, <2>1, <2>2 DEF Whole
    <3>2. 1 \in DOMAIN s
      BY <3>1
    <3>3. s[1].type = "start" /\ blocks[f] = "none" /\ \A p \in DOMAIN s : s[p].item = f
      BY <2>2 DEF Whole
    <3>4. \A p \in DOMAIN s : /\ p # 1 => s[p].type \in {"delta", "stop"}
                              /\ s[p].type = "stop" => p = Len(s)
      BY <2>2 DEF Whole
    <3> HIDE DEF s, f
    <3>5. ASSUME NEW p \in DOMAIN s
          PROVE  /\ s[p].type = "start" => p = 1 /\ blocks[s[p].item] = "none"
                 /\ s[p].type \in {"delta", "stop"} => p # 1 /\ s[p].item = s[1].item
                 /\ s[p].type = "stop" => p = Len(s)
      BY <3>2, <3>3, <3>4
    <3>6. InOrder(s, blocks)
      BY <3>3, <3>5 DEF InOrder
    <3> QED
      BY <3>6 DEF s
  <2>4. \A p \in DOMAIN b.blocks[f] : b.blocks[f][p].item = f
    BY <2>2 DEF Whole
  <2>5. b.blocks[f] # <<>>
    BY <2>2 DEF Whole
  <2> HIDE DEF t, f
  <2>6. BlocksFollow(t, blocks) /\ Ready(t)
    BY <2>1, <2>3, <2>4, <2>5 DEF BlocksFollow, Ready
  <2> QED
    BY <2>6 DEF t
<1> QED
  BY <1>1, <1>2, <1>3

\* It keeps the thoughts before the texts.
LEMMA SettledLeads ==
  ASSUME NEW b \in AnyBurst, NEW spoken, ThoughtsLead(b, spoken), ~Holds(b.after, "text")
  PROVE  /\ ThoughtsLead(Settled(b), spoken) /\ ~Holds(Settled(b).after, "text")
         /\ Holds(Settled(b).frames, "text") =>
              Holds(b.frames, "text") \/ \E i \in DOMAIN b.blocks : Holds(b.blocks[i], "text")
         /\ \A i \in DOMAIN Settled(b).blocks :
              i \in DOMAIN b.blocks /\ Settled(b).blocks[i] = b.blocks[i]
<1> DEFINE t == Settled(b)
<1>1. CASE b.frames # <<>>
  BY <1>1, SettledParts
<1>2. CASE b.frames = <<>> /\ DOMAIN b.blocks = {}
  <2>1. t.frames = b.after /\ DOMAIN t.blocks = {} /\ t.after = <<>>
    BY <1>2, SettledParts
  <2>2. Shy(b.after, spoken)
    BY DEF Shy, ThoughtsLead, Holds
  <2> QED
    BY <2>1, <2>2 DEF ThoughtsLead, Holds
<1>3. CASE b.frames = <<>> /\ DOMAIN b.blocks # {}
  <2> DEFINE f == First(b)
  <2>0. DOMAIN b.blocks \subseteq Nat
    BY BurstParts, PlacesAreNumbers
  <2>1. /\ f \in DOMAIN b.blocks /\ \A i \in DOMAIN b.blocks : f <= i
        /\ t.frames = b.blocks[f] /\ t.after = b.after
        /\ DOMAIN t.blocks = DOMAIN b.blocks \ {f}
        /\ \A i \in DOMAIN t.blocks : t.blocks[i] = b.blocks[i]
    BY <1>3, SettledParts
  <2>2. \A i \in DOMAIN t.blocks : f < i
    BY <2>0, <2>1
  <2> HIDE DEF t, f
  <2>3. ThoughtsLead(t, spoken)
    BY <2>1, <2>2 DEF ThoughtsLead
  <2> QED
    BY <2>1, <2>3 DEF t
<1> QED
  BY <1>1, <1>2, <1>3

\* It keeps the end of the stream at its end.
LEMMA SettledEnds ==
  ASSUME NEW b \in AnyBurst, NEW blocks, BlocksFollow(b, blocks), EndLast(b)
  PROVE  /\ EndLast(Settled(b))
         /\ \A kind \in {"terminal", "error"} : EndsWith(Settled(b), kind) <=> EndsWith(b, kind)
<1> DEFINE t == Settled(b)
<1>0. /\ b.frames \in Seq(AnyFrame) /\ b.after \in Seq(AnyFrame)
      /\ \A i \in DOMAIN b.blocks : b.blocks[i] \in Seq(AnyFrame)
  BY BurstParts
<1>1. CASE b.frames # <<>>
  BY <1>1, SettledParts
<1>2. CASE b.frames = <<>> /\ DOMAIN b.blocks = {}
  <2>1. t.frames = b.after /\ DOMAIN t.blocks = {} /\ t.after = <<>>
    BY <1>2, SettledParts
  <2> QED
    BY <1>2, <2>1 DEF EndLast, EndsWith
<1>3. CASE b.frames = <<>> /\ DOMAIN b.blocks # {}
  <2> DEFINE f == First(b)
  <2>1. /\ f \in DOMAIN b.blocks /\ t.frames = b.blocks[f] /\ t.after = b.after
        /\ DOMAIN t.blocks = DOMAIN b.blocks \ {f}
        /\ \A i \in DOMAIN t.blocks : t.blocks[i] = b.blocks[i]
    BY <1>3, SettledParts
  <2>2. \A p \in DOMAIN b.blocks[f] : ~Ends(b.blocks[f][p])
    BY <2>1 DEF EndLast
  <2>3. b.blocks[f] # <<>> /\ Len(b.blocks[f]) \in DOMAIN b.blocks[f]
    BY <1>0, <2>1 DEF BlocksFollow, Whole
  <2> HIDE DEF t, f
  <2>4. EndLast(t)
    BY <2>1, <2>2 DEF EndLast
  <2>5. \A kind \in {"terminal", "error"} : b.blocks[f][Len(b.blocks[f])].kind # kind
    BY <2>2, <2>3 DEF Ends
  <2>6. \A kind \in {"terminal", "error"} : EndsWith(t, kind) <=> EndsWith(b, kind)
    BY <1>3, <2>1, <2>5 DEF EndsWith
  <2> QED
    BY <2>4, <2>6 DEF t
<1> QED
  BY <1>1, <1>2, <1>3

\* The client will have the same of each block.
LEMMA SettledReached ==
  ASSUME NEW b \in AnyBurst, NEW blocks, BlocksFollow(b, blocks), NEW i
  PROVE  Reached(Settled(b), blocks, i) = Reached(b, blocks, i)
<1> DEFINE t == Settled(b)
<1>0. /\ b.frames \in Seq(AnyFrame) /\ b.after \in Seq(AnyFrame)
      /\ \A j \in DOMAIN b.blocks : b.blocks[j] \in Seq(AnyFrame)
  BY BurstParts
<1>1. CASE b.frames # <<>>
  BY <1>1, SettledParts
<1>2. CASE b.frames = <<>> /\ DOMAIN b.blocks = {}
  <2>1. t.frames = b.after /\ DOMAIN t.blocks = {} /\ t.after = <<>>
    BY <1>2, SettledParts
  <2>2. \A p \in DOMAIN b.after : b.after[p].type = "none"
    BY DEF BlocksFollow
  <2>3. ~About(b.after, i) /\ (b.after # <<>> => b.after[Len(b.after)].type # "stop") /\ ~About(<<>>, i)
    BY <1>0, <2>2 DEF About
  <2> QED
    BY <1>2, <2>1, <2>3 DEF Reached, Left
<1>3. CASE b.frames = <<>> /\ DOMAIN b.blocks # {}
  <2> DEFINE f == First(b)
  <2>1. /\ f \in DOMAIN b.blocks /\ t.frames = b.blocks[f] /\ t.after = b.after
        /\ DOMAIN t.blocks = DOMAIN b.blocks \ {f}
        /\ \A j \in DOMAIN t.blocks : t.blocks[j] = b.blocks[j]
    BY <1>3, SettledParts
  <2>2. \A p \in DOMAIN b.blocks[f] : b.blocks[f][p].item = f
    BY <2>1 DEF BlocksFollow, Whole
  <2>3. b.blocks[f] # <<>> /\ Len(b.blocks[f]) \in DOMAIN b.blocks[f]
    BY <1>0, <2>1 DEF BlocksFollow, Whole
  <2>4. i # f => Left(b.blocks[f], blocks[i], i) = blocks[i] /\ Left(<<>>, blocks[i], i) = blocks[i]
    BY <2>2, <2>3 DEF Left, About
  <2> HIDE DEF t, f
  <2>5. Reached(t, blocks, i) = Reached(b, blocks, i)
    BY <1>3, <2>1, <2>4 DEF Reached
  <2> QED
    BY <2>5 DEF t
<1> QED
  BY <1>1, <1>2, <1>3

\* A sequence is empty when it has no length.
LEMMA EmptyWhenShort ==
  ASSUME NEW X, NEW s \in Seq(X)
  PROVE  s = <<>> <=> Len(s) = 0
OBVIOUS

\* The burst that is left when a frame is written.
After(b) == [b EXCEPT !.frames = Tail(@)]
BlocksAfter(blocks, e) ==
  IF e.type = "none" THEN blocks ELSE [blocks EXCEPT ![e.item] = BlockAfter(e.type)]

\* What is left when a frame is written, part by part.
LEMMA AfterParts ==
  ASSUME NEW b \in AnyBurst, b.frames # <<>>
  PROVE  /\ After(b) \in AnyBurst
         /\ b.frames \in Seq(AnyFrame) /\ Tail(b.frames) \in Seq(AnyFrame)
         /\ After(b).frames = Tail(b.frames) /\ After(b).blocks = b.blocks /\ After(b).after = b.after
         /\ Head(b.frames) = b.frames[1] /\ Head(b.frames) \in AnyFrame /\ Placed(Head(b.frames))
         /\ 1 \in DOMAIN b.frames /\ Len(b.frames) \in DOMAIN b.frames
         /\ Len(Tail(b.frames)) = Len(b.frames) - 1 /\ Len(b.frames) \in Nat \ {0}
         /\ DOMAIN b.frames = 1..Len(b.frames)
         /\ DOMAIN Tail(b.frames) = 1..(Len(b.frames) - 1)
         /\ \A p \in DOMAIN Tail(b.frames) : Tail(b.frames)[p] = b.frames[p + 1] /\ p + 1 \in DOMAIN b.frames
<1>1. b.frames \in Seq(AnyFrame) /\ \A p \in DOMAIN b.frames : Placed(b.frames[p])
  BY BurstParts
<1>2. Tail(b.frames) \in Seq(AnyFrame) /\ \A p \in DOMAIN Tail(b.frames) :
        Tail(b.frames)[p] = b.frames[p + 1] /\ p + 1 \in DOMAIN b.frames
  BY <1>1
<1>3. Tail(b.frames) \in FrameSeq
  BY <1>1, <1>2 DEF FrameSeq
<1>4. After(b) \in AnyBurst
  BY <1>3 DEF After, AnyBurst
<1>5. After(b).frames = Tail(b.frames) /\ After(b).blocks = b.blocks /\ After(b).after = b.after
  BY DEF After, AnyBurst
<1> QED
  BY <1>1, <1>2, <1>4, <1>5

\* A frame that is written continues its block, and the rest follows on it.
LEMMA AfterFollows ==
  ASSUME NEW b \in AnyBurst, b.frames # <<>>,
         NEW blocks \in [Places -> {"none", "open", "stopped"}], BlocksFollow(b, blocks)
  PROVE  /\ BlocksAfter(blocks, Head(b.frames)) \in [Places -> {"none", "open", "stopped"}]
         /\ Head(b.frames).type # "none" =>
              blocks[Head(b.frames).item] \in Follows[Head(b.frames).type]
         /\ BlocksFollow(After(b), BlocksAfter(blocks, Head(b.frames)))
<1> DEFINE s == b.frames
           e == Head(s)
           n == BlocksAfter(blocks, e)
<1>1. /\ e = s[1] /\ e \in AnyFrame /\ Placed(e) /\ 1 \in DOMAIN s
      /\ Len(Tail(s)) = Len(s) - 1 /\ Len(s) \in Nat \ {0}
      /\ DOMAIN s = 1..Len(s) /\ DOMAIN Tail(s) = 1..(Len(s) - 1)
      /\ \A p \in DOMAIN Tail(s) : Tail(s)[p] = s[p + 1] /\ p + 1 \in DOMAIN s
  BY AfterParts
<1>2. /\ InOrder(s, blocks)
      /\ \A i \in DOMAIN b.blocks :
           /\ blocks[i] = "none" /\ Whole(b.blocks[i], i)
           /\ \A p \in DOMAIN s : s[p].type # "none" => s[p].item # i
      /\ \A p \in DOMAIN b.after : b.after[p].type = "none"
  BY DEF BlocksFollow
<1>3. After(b).frames = Tail(s) /\ After(b).blocks = b.blocks /\ After(b).after = b.after
  BY AfterParts
<1>4. e.type \in {"none", "start", "delta", "stop"} /\ (e.type # "none" => e.item \in Places)
  BY <1>1 DEF AnyFrame, Placed
<1>5. n \in [Places -> {"none", "open", "stopped"}]
  BY <1>4 DEF BlocksAfter, BlockAfter
<1>6. /\ e.type = "start" => blocks[e.item] = "none"
      /\ e.type \in {"delta", "stop"} => blocks[e.item] = "open"
      /\ e.type = "stop" => Len(s) = 1
  BY <1>1, <1>2 DEF InOrder
<1>7. e.type # "none" => blocks[e.item] \in Follows[e.type]
  BY <1>4, <1>6 DEF Follows
<1>8. \A i \in Places : n[i] = IF e.type # "none" /\ i = e.item THEN BlockAfter(e.type) ELSE blocks[i]
  BY <1>4 DEF BlocksAfter
<1>9. \A i \in DOMAIN b.blocks : i \in Places /\ n[i] = blocks[i]
  <2>1. DOMAIN b.blocks \subseteq Places
    BY BurstParts
  <2> QED
    BY <1>1, <1>2, <1>8, <2>1
<1>10. ASSUME NEW p \in DOMAIN Tail(s)
       PROVE  LET f == Tail(s)[p] IN
              /\ f.type # "start"
              /\ f.type \in {"delta", "stop"} => n[f.item] = "open"
              /\ f.type = "stop" => p = Len(Tail(s))
  <2> DEFINE f == s[p + 1]
  <2>1. p + 1 \in DOMAIN s /\ p + 1 # 1 /\ f = Tail(s)[p]
    BY <1>1
  <2>2. /\ f.type # "start"
        /\ f.type \in {"delta", "stop"} =>
             IF e.type = "start" THEN f.item = e.item ELSE blocks[f.item] = "open"
        /\ f.type = "stop" => p + 1 = Len(s)
    BY <1>1, <1>2, <2>1 DEF InOrder
  <2>3. Placed(f)
    BY <2>1, BurstParts
  <2>4. e.type # "stop"
    BY <1>1, <1>6, <2>1
  <2>5. f.type \in {"delta", "stop"} => n[f.item] = "open"
    BY <1>4, <1>8, <2>2, <2>3, <2>4 DEF BlockAfter, Placed
  <2> QED
    BY <1>1, <2>1, <2>2, <2>5
<1> DEFINE r == Tail(s)
<1>11. InOrder(r, n)
  <2> HIDE DEF r, n
  <2>1. \A p \in DOMAIN r : /\ r[p].type # "start"
                            /\ r[p].type \in {"delta", "stop"} => n[r[p].item] = "open"
                            /\ r[p].type = "stop" => p = Len(r)
    BY <1>10 DEF r
  <2>2. ASSUME NEW p \in DOMAIN r
        PROVE  1 \in DOMAIN r
    BY <1>1 DEF r
  <2>3. ASSUME NEW p \in DOMAIN r
        PROVE  r[1].type # "start"
    BY <2>1, <2>2
  <2> QED
    BY <2>1, <2>3 DEF InOrder
<1>12. \A i \in DOMAIN b.blocks : \A p \in DOMAIN r : r[p].type # "none" => r[p].item # i
  BY <1>1, <1>2
<1> HIDE DEF s, e, n, r
<1>13. BlocksFollow(After(b), n)
  BY <1>2, <1>3, <1>9, <1>11, <1>12 DEF BlocksFollow, r
<1> QED
  BY <1>5, <1>7, <1>13 DEF s, e, n

\* What the client will have of a block stays the same.
LEMMA AfterReached ==
  ASSUME NEW b \in AnyBurst, b.frames # <<>>,
         NEW blocks \in [Places -> {"none", "open", "stopped"}], BlocksFollow(b, blocks),
         NEW i \in Places
  PROVE  Reached(After(b), BlocksAfter(blocks, Head(b.frames)), i) = Reached(b, blocks, i)
<1> DEFINE s == b.frames
           e == Head(s)
           n == BlocksAfter(blocks, e)
           r == Tail(s)
<1>1. /\ s \in Seq(AnyFrame) /\ r \in Seq(AnyFrame)
      /\ e = s[1] /\ e \in AnyFrame /\ Placed(e) /\ 1 \in DOMAIN s
      /\ Len(r) = Len(s) - 1 /\ Len(s) \in Nat \ {0}
      /\ DOMAIN s = 1..Len(s) /\ DOMAIN r = 1..(Len(s) - 1)
      /\ \A p \in DOMAIN r : r[p] = s[p + 1] /\ p + 1 \in DOMAIN s
  BY AfterParts
<1>2. After(b).frames = r /\ After(b).blocks = b.blocks
  BY AfterParts
<1>3. e.type \in {"none", "start", "delta", "stop"} /\ (e.type # "none" => e.item \in Places)
  BY <1>1 DEF AnyFrame, Placed
<1>4. n[i] = IF e.type # "none" /\ i = e.item THEN BlockAfter(e.type) ELSE blocks[i]
  BY <1>3 DEF BlocksAfter
<1>5. InOrder(s, blocks)
  BY DEF BlocksFollow
<1>6. i \in DOMAIN b.blocks => n[i] = blocks[i]
  BY <1>1, <1>4 DEF BlocksFollow
<1>7. Left(r, n[i], i) = Left(s, blocks[i], i)
  <2>1. e.type = "stop" => Len(s) = 1
    BY <1>1, <1>5 DEF InOrder
  <2>2. About(s, i) <=> (e.type # "none" /\ e.item = i) \/ About(r, i)
    <3>1. ASSUME NEW p \in DOMAIN s, s[p].type # "none", s[p].item = i, p # 1
          PROVE  About(r, i)
      <4>1. p - 1 \in DOMAIN r /\ r[p - 1] = s[p]
        BY <1>1, <3>1
      <4> QED
        BY <3>1, <4>1 DEF About
    <3>2. About(r, i) => About(s, i)
      BY <1>1 DEF About
    <3> HIDE DEF s, e, r
    <3> QED
      BY <1>1, <3>1, <3>2 DEF About
  <2>3. CASE Len(s) = 1
    <3>1. r = <<>> /\ ~About(r, i) /\ s # <<>> /\ s[Len(s)] = e
      BY <1>1, <2>3 DEF About
    <3> HIDE DEF s, e, r, n
    <3> QED
      BY <1>3, <1>4, <2>2, <3>1 DEF Left, BlockAfter
  <2>4. CASE Len(s) # 1
    <3>1. r # <<>> /\ s # <<>>
      <4>1. (r = <<>> <=> Len(r) = 0) /\ (s = <<>> <=> Len(s) = 0)
        BY <1>1, EmptyWhenShort
      <4> HIDE DEF r, s
      <4> QED
        BY <1>1, <2>4, <4>1
    <3>2. r[Len(r)] = s[Len(s)]
      <4> HIDE DEF r, s
      <4>1. Len(r) \in DOMAIN r /\ Len(r) + 1 = Len(s)
        BY <1>1, <2>4
      <4> QED
        BY <1>1, <4>1
    <3>3. e.type # "stop"
      BY <2>1, <2>4
    <3> HIDE DEF s, e, r, n
    <3> QED
      BY <1>3, <1>4, <2>2, <3>1, <3>2, <3>3 DEF Left, BlockAfter
  <2> QED
    BY <2>3, <2>4
<1> HIDE DEF s, e, n, r
<1>8. Reached(After(b), n, i) = Reached(b, blocks, i)
  BY <1>2, <1>6, <1>7 DEF Reached, s
<1> QED
  BY <1>8 DEF s, e, n

\* A thought is written before any text, and none is left once a text is.
LEMMA AfterLeads ==
  ASSUME NEW b \in AnyBurst, b.frames # <<>>, NEW spoken \in BOOLEAN, ThoughtsLead(b, spoken)
  PROVE  /\ Head(b.frames).kind = "thought" => ~spoken
         /\ ThoughtsLead(After(b), spoken \/ Head(b.frames).kind = "text")
         /\ Head(b.frames).kind = "text" \/ Holds(After(b).frames, "text") => Holds(b.frames, "text")
<1> DEFINE s == b.frames
           e == Head(s)
           r == Tail(s)
           said == spoken \/ e.kind = "text"
<1>1. /\ s \in Seq(AnyFrame) /\ r \in Seq(AnyFrame)
      /\ e = s[1] /\ 1 \in DOMAIN s /\ Len(s) \in Nat \ {0}
      /\ DOMAIN s = 1..Len(s) /\ DOMAIN r = 1..(Len(s) - 1)
      /\ \A p \in DOMAIN r : r[p] = s[p + 1] /\ p + 1 \in DOMAIN s
  BY AfterParts
<1>2. After(b).frames = r /\ After(b).blocks = b.blocks /\ After(b).after = b.after
  BY AfterParts
<1>3. Shy(s, spoken)
  BY DEF ThoughtsLead
<1>4. e.kind = "text" \/ Holds(r, "text") => Holds(s, "text")
  BY <1>1 DEF Holds
<1>5. e.kind = "thought" => ~spoken
  BY <1>1, <1>3 DEF Shy
<1>6. Shy(r, said)
  <2> SUFFICES ASSUME NEW p \in DOMAIN r, r[p].kind = "thought"
               PROVE  ~said /\ \A q \in 1..(p - 1) : r[q].kind # "text"
    BY DEF Shy
  <2>1. p + 1 \in DOMAIN s /\ s[p + 1].kind = "thought"
    BY <1>1
  <2>2. ~spoken /\ \A q \in 1..((p + 1) - 1) : s[q].kind # "text"
    BY <1>3, <2>1 DEF Shy
  <2>3. 1 \in 1..((p + 1) - 1)
    BY <1>1
  <2>4. ASSUME NEW q \in 1..(p - 1)
        PROVE  r[q].kind # "text"
    <3>1. q \in DOMAIN r /\ r[q] = s[q + 1] /\ q + 1 \in 1..((p + 1) - 1)
      BY <1>1
    <3> QED
      BY <2>2, <3>1
  <2> QED
    BY <1>1, <2>2, <2>3, <2>4
<1>7. ASSUME NEW i \in DOMAIN b.blocks
      PROVE  /\ Shy(b.blocks[i], said)
             /\ Holds(b.blocks[i], "thought") =>
                  /\ ~Holds(r, "text")
                  /\ \A j \in DOMAIN b.blocks : j < i => ~Holds(b.blocks[j], "text")
  <2>1. /\ Shy(b.blocks[i], spoken)
        /\ Holds(b.blocks[i], "thought") =>
             /\ ~Holds(s, "text")
             /\ \A j \in DOMAIN b.blocks : j < i => ~Holds(b.blocks[j], "text")
    BY DEF ThoughtsLead
  <2>2. ~Holds(b.blocks[i], "thought") => Shy(b.blocks[i], said)
    BY DEF Shy, Holds
  <2>3. Holds(b.blocks[i], "thought") => said = spoken
    BY <1>4, <2>1
  <2> QED
    BY <1>4, <2>1, <2>2, <2>3
<1> HIDE DEF s, e, r, said
<1>8. ThoughtsLead(After(b), said)
  BY <1>2, <1>6, <1>7 DEF ThoughtsLead
<1> QED
  BY <1>2, <1>4, <1>5, <1>8 DEF s, e, r, said

\* The end of the stream is written last.
LEMMA AfterEnds ==
  ASSUME NEW b \in AnyBurst, b.frames # <<>>, EndLast(b)
  PROVE  /\ EndLast(After(b))
         /\ Ends(Head(b.frames)) =>
              After(b).frames = <<>> /\ DOMAIN After(b).blocks = {} /\ After(b).after = <<>>
         /\ \A kind \in {"terminal", "error"} :
              /\ EndsWith(b, kind) => EndsWith(After(b), kind) \/ Head(b.frames).kind = kind
              /\ EndsWith(After(b), kind) \/ Head(b.frames).kind = kind => EndsWith(b, kind)
<1> DEFINE s == b.frames
           e == Head(s)
           r == Tail(s)
<1>1. /\ s \in Seq(AnyFrame) /\ r \in Seq(AnyFrame)
      /\ e = s[1] /\ 1 \in DOMAIN s /\ Len(s) \in Nat \ {0} /\ Len(r) = Len(s) - 1
      /\ DOMAIN s = 1..Len(s) /\ DOMAIN r = 1..(Len(s) - 1)
      /\ \A p \in DOMAIN r : r[p] = s[p + 1] /\ p + 1 \in DOMAIN s
  BY AfterParts
<1>2. After(b).frames = r /\ After(b).blocks = b.blocks /\ After(b).after = b.after
  BY AfterParts
<1>3. /\ \A p \in DOMAIN s : Ends(s[p]) => p = Len(s) /\ DOMAIN b.blocks = {} /\ b.after = <<>>
      /\ \A i \in DOMAIN b.blocks : \A p \in DOMAIN b.blocks[i] : ~Ends(b.blocks[i][p])
      /\ \A p \in DOMAIN b.after : Ends(b.after[p]) => p = Len(b.after)
  BY DEF EndLast
<1>4. \A p \in DOMAIN r : Ends(r[p]) => p = Len(r) /\ DOMAIN b.blocks = {} /\ b.after = <<>>
  <2> SUFFICES ASSUME NEW p \in DOMAIN r, Ends(r[p])
               PROVE  p = Len(r) /\ DOMAIN b.blocks = {} /\ b.after = <<>>
    OBVIOUS
  <2>1. p + 1 = Len(s) /\ DOMAIN b.blocks = {} /\ b.after = <<>>
    BY <1>1, <1>3
  <2> QED
    BY <1>1, <2>1
<1>5. r = <<>> <=> Len(s) = 1
  <2>1. r = <<>> <=> Len(r) = 0
    BY <1>1, EmptyWhenShort
  <2> HIDE DEF r, s
  <2> QED
    BY <1>1, <2>1
<1>6. r # <<>> => r[Len(r)] = s[Len(s)]
  BY <1>1, <1>5
<1>7. Ends(e) => r = <<>> /\ DOMAIN b.blocks = {} /\ b.after = <<>>
  BY <1>1, <1>3, <1>5
<1>8. s # <<>> /\ (r = <<>> => e = s[Len(s)])
  BY <1>1, <1>5
<1> HIDE DEF s, e, r
<1>9. EndLast(After(b))
  BY <1>2, <1>3, <1>4 DEF EndLast
<1>10. ASSUME NEW kind \in {"terminal", "error"}
       PROVE  /\ EndsWith(b, kind) => EndsWith(After(b), kind) \/ e.kind = kind
              /\ EndsWith(After(b), kind) \/ e.kind = kind => EndsWith(b, kind)
  <2>1. e.kind = kind => Ends(e)
    BY DEF Ends
  <2> QED
    BY <1>2, <1>6, <1>7, <1>8, <2>1 DEF EndsWith, s
<1> QED
  BY <1>2, <1>7, <1>9, <1>10 DEF s, e, r

\* A burst of frames that belong to nothing held.
LEMMA OnlyParts ==
  ASSUME NEW s \in FrameSeq
  PROVE  /\ Only(s) \in AnyBurst
         /\ Only(s).frames = s /\ DOMAIN Only(s).blocks = {} /\ Only(s).after = <<>>
<1>1. NoBlocks \in [{} -> FrameSeq \ {<<>>}] /\ {} \in SUBSET Places
  BY DEF NoBlocks
<1>2. NoBlocks \in UNION {[S -> FrameSeq \ {<<>>}] : S \in SUBSET Places}
  BY <1>1
<1>3. <<>> \in FrameSeq
  BY DEF FrameSeq
<1> QED
  BY <1>1, <1>2, <1>3 DEF Only, Burst, AnyBurst

\* The empty burst breaks no rule.
LEMMA EmptyBurst ==
  /\ Only(<<>>) \in AnyBurst
  /\ Only(<<>>).frames = <<>> /\ DOMAIN Only(<<>>).blocks = {} /\ Only(<<>>).after = <<>>
  /\ \A blocks, i : Reached(Only(<<>>), blocks, i) = blocks[i]
  /\ \A blocks : BlocksFollow(Only(<<>>), blocks)
  /\ \A spoken : ThoughtsLead(Only(<<>>), spoken)
  /\ EndLast(Only(<<>>)) /\ ~EndComes(Only(<<>>)) /\ Ready(Only(<<>>))
  /\ ~Holds(Only(<<>>).frames, "text") /\ ~Holds(Only(<<>>).after, "text")
<1>1. <<>> \in FrameSeq
  BY DEF FrameSeq
<1>2. /\ Only(<<>>) \in AnyBurst
      /\ Only(<<>>).frames = <<>> /\ DOMAIN Only(<<>>).blocks = {} /\ Only(<<>>).after = <<>>
  BY <1>1, OnlyParts
<1> HIDE DEF Only
<1>3. \A blocks, i : Reached(Only(<<>>), blocks, i) = blocks[i]
  BY <1>2 DEF Reached, Left, About
<1>4. \A blocks : BlocksFollow(Only(<<>>), blocks)
  BY <1>2 DEF BlocksFollow, InOrder
<1>5. \A spoken : ThoughtsLead(Only(<<>>), spoken)
  BY <1>2 DEF ThoughtsLead, Shy, Holds
<1>6. EndLast(Only(<<>>)) /\ Ready(Only(<<>>))
  BY <1>2 DEF EndLast, Ready
<1>7. ~EndComes(Only(<<>>))
  BY <1>2 DEF EndComes, EndsWith
<1>8. ~Holds(Only(<<>>).frames, "text") /\ ~Holds(Only(<<>>).after, "text")
  BY <1>2 DEF Holds
<1> QED
  BY <1>2, <1>3, <1>4, <1>5, <1>6, <1>7, <1>8

\* While the upstream is read, the client has all there is, and listens.
LEMMA ReadingFacts ==
  ASSUME IInv, Reading
  PROVE  /\ phase = "scanning" /\ outcome = "none" /\ out = Only(<<>>) /\ Scans /\ Answering
         /\ ~state.terminal /\ failed = "none" /\ client.phase = "open" /\ Read
         /\ client.last \notin {"terminal", "error"}
         /\ client.blocks \in [Places -> {"none", "open", "stopped"}] /\ client.spoken \in BOOLEAN
         /\ client.spoken => state.sawText
         /\ \A i : Reached(out, client.blocks, i) = client.blocks[i]
<1>1. phase = "scanning" /\ outcome = "none" /\ ~over /\ Scans /\ Answering
  BY DEF Reading, Scans, Answering
<1>2. out = Only(<<>>) /\ ~state.terminal /\ failed = "none" /\ client.phase \in {"open", "closed"}
  BY <1>1 DEF IInv, Orderly
<1>3. client.phase = "open" /\ client.last \notin {"terminal", "error"}
  BY <1>1, <1>2 DEF IInv, EndInv
<1>4. client.blocks \in [Places -> {"none", "open", "stopped"}] /\ client.spoken \in BOOLEAN
  BY DEF IInv, Typed
<1>5. client.spoken => state.sawText
  BY <1>1, <1>3 DEF IInv, TextNoted
<1>6. \A i : Reached(out, client.blocks, i) = client.blocks[i]
  BY <1>2, EmptyBurst
<1> QED
  BY <1>1, <1>2, <1>3, <1>4, <1>5, <1>6 DEF Read

\* What a handler must do for the rest of the invariant, whatever the protocol.
LEMMA TakenKeeps ==
  ASSUME IInv, Reading, NEW r,
         r.out \in AnyBurst, r.bad \in BOOLEAN, r.state.terminal \in BOOLEAN,
         protocol = "chat" => r.state \in ChatState,
         protocol = "messages" => r.state \in MessagesState,
         state' = r.state, out' = Settled(r.out), outcome' = IF r.bad THEN "bad" ELSE "ok",
         frames' \in Nat,
         UNCHANGED <<protocol, client, live, phase, over, failed, fired, afterEnd>>,
         BlocksFollow(r.out, client.blocks), ThoughtsLead(r.out, client.spoken), EndLast(r.out),
         client.spoken \/ Holds(r.out.frames, "text") => r.state.sawText,
         ~Holds(r.out.after, "text"),
         \A i \in DOMAIN r.out.blocks : ~Holds(r.out.blocks[i], "text"),
         r.state.terminal <=> EndComes(r.out), r.state.terminal => ~r.bad
  PROVE  /\ Typed' /\ Orderly' /\ EndInv' /\ BurstInv' /\ TextNoted' /\ AtOnceInv'
         /\ BlocksInOrder' /\ CallsReported' /\ EndStands'
         /\ \A i : Reached(out', client'.blocks, i) = Reached(r.out, client.blocks, i)
         /\ phase' = "scanning" /\ client' = client /\ client.phase = "open" /\ failed' = "none"
         /\ \A kind \in {"terminal", "error"} : EndsWith(out', kind) <=> EndsWith(r.out, kind)
<1>0. /\ phase = "scanning" /\ outcome = "none" /\ client.phase = "open" /\ failed = "none"
      /\ client.last \notin {"terminal", "error"} /\ Scans /\ Answering
      /\ ~over
  BY ReadingFacts DEF Reading
<1>1. /\ out' \in AnyBurst /\ Ready(out') /\ BlocksFollow(out', client.blocks)
      /\ ThoughtsLead(out', client.spoken) /\ EndLast(out') /\ ~Holds(out'.after, "text")
      /\ Holds(out'.frames, "text") => Holds(r.out.frames, "text")
      /\ \A i \in DOMAIN out'.blocks : ~Holds(out'.blocks[i], "text")
      /\ \A i : Reached(out', client.blocks, i) = Reached(r.out, client.blocks, i)
      /\ \A kind \in {"terminal", "error"} : EndsWith(out', kind) <=> EndsWith(r.out, kind)
  BY SettledTyped, SettledFollows, SettledLeads, SettledEnds, SettledReached
<1>2. /\ phase' = "scanning" /\ client' = client /\ failed' = "none" /\ outcome' \in {"ok", "bad"}
      /\ Scans' /\ Answering' /\ state'.terminal = r.state.terminal
  BY <1>0 DEF Scans, Answering
<1>3. EndComes(out') <=> EndComes(r.out)
  BY <1>1 DEF EndComes
<1>4. Typed'
  BY <1>1, <1>2 DEF IInv, Typed
<1>5. Orderly'
  BY <1>0, <1>2 DEF IInv, Orderly
<1>6. EndInv'
  BY <1>0, <1>2, <1>3 DEF IInv, EndInv
<1>7. BurstInv'
  BY <1>0, <1>1, <1>2 DEF BurstInv
<1>8. TextNoted'
  BY <1>1, <1>2 DEF TextNoted
<1>9. AtOnceInv' /\ BlocksInOrder' /\ CallsReported' /\ EndStands'
  BY <1>0, <1>2 DEF IInv, AtOnceInv, BlocksInOrder, CallsReported, EndStands
<1> QED
  BY <1>0, <1>1, <1>2, <1>4, <1>5, <1>6, <1>7, <1>8, <1>9

\* What the end of a completed answer owes the client.
LEMMA EndOwes ==
  ASSUME IInv, Answering, Read, EndsWith(out, "terminal"), NEW i \in Places, Demands(i)
  PROVE  Reached(out, client.blocks, i) # "none"
<1>1. state.terminal
  BY DEF IInv, EndInv, EndComes
<1>2. CASE phase = "buffered"
  BY <1>2 DEF IInv, AtOnceInv
<1>3. CASE Scans /\ protocol = "chat"
  <2>1. ~EndsWith(out, "error")
    BY DEF EndsWith
  <2>2. client.phase = "open" /\ failed # "write"
    BY DEF Read
  <2>3. FlushedOut
    BY <1>1, <1>3, <2>1, <2>2 DEF IInv, ChatInv
  <2>4. state.flushed \/ Discarded(state, i)
    BY <1>3, <2>3 DEF FlushedOut, Discarded, Demands
  <2> QED
    BY <1>3, <2>4 DEF IInv, ChatInv, Demands
<1>4. CASE Scans /\ protocol = "messages"
  <2>1. i \in Blocks /\ state.began[i] = "tool_use" /\ DOMAIN state.held = {}
    BY <1>1, <1>4 DEF IInv, MessagesInv, Tracked, Demands
  <2>2. i \notin LeftOut(state)
    BY <1>4, <2>1 DEF IInv, MessagesInv, Tracked
  <2> QED
    BY <1>4, <2>1, <2>2 DEF IInv, MessagesInv, Matches
<1> QED
  BY <1>2, <1>3, <1>4 DEF Answering, IInv, Typed

\* A write that fails takes the rest of the burst with it.
LEMMA WriteFails ==
  ASSUME IInv, out.frames # <<>>, ~live \/ failed = "write",
         failed' = "write", outcome' = "bad", out' = Only(<<>>), UNCHANGED <<client, afterEnd>>,
         UNCHANGED <<protocol, live, phase, over, state, fired, frames>>
  PROVE  IInv'
<1>1. outcome # "none"
  BY EmptyBurst DEF IInv, Orderly
<1>2. phase \notin {"starting", "judging", "ended"} /\ ~live /\ phase \in {"scanning", "flushing", "buffered"}
  BY <1>1 DEF IInv, Orderly, Typed
<1>3. Answering /\ Answering' /\ (Scans' <=> Scans)
  BY <1>2 DEF Answering, Scans
<1>4. /\ out' \in AnyBurst /\ Ready(out') /\ BlocksFollow(out', client.blocks)
      /\ ThoughtsLead(out', client.spoken) /\ EndLast(out') /\ ~EndComes(out')
      /\ out'.frames = <<>> /\ DOMAIN out'.blocks = {}
      /\ ~Holds(out'.frames, "text") /\ ~Holds(out'.after, "text")
  BY EmptyBurst
<1>5. Typed'
  BY <1>4 DEF IInv, Typed
<1>6. Orderly'
  BY <1>1, <1>2, <1>3 DEF IInv, Orderly
<1>7. EndInv'
  <2>1. client.phase = "closed" => phase # "scanning"
    BY <1>3 DEF IInv, BurstInv
  <2> QED
    BY <1>3, <1>4, <2>1 DEF IInv, EndInv
<1>8. BurstInv'
  BY <1>4 DEF BurstInv
<1>9. TextNoted'
  BY <1>3, <1>4 DEF IInv, TextNoted
<1>10. ~Read'
  BY DEF Read
<1>11. ChatInv'
  BY <1>3, <1>10 DEF IInv, ChatInv, FlushedOut
<1>12. MessagesInv'
  BY <1>3, <1>10 DEF IInv, MessagesInv
<1>13. AtOnceInv'
  BY <1>10 DEF AtOnceInv
<1>14. BlocksInOrder' /\ CallsReported' /\ EndStands'
  BY <1>2 DEF IInv, BlocksInOrder, CallsReported, EndStands, Shown
<1> QED
  BY <1>5, <1>6, <1>7, <1>8, <1>9, <1>11, <1>12, <1>13, <1>14 DEF IInv

\* A frame behind the end: of calls that were still held.
LEMMA WriteUnseen ==
  ASSUME IInv, out.frames # <<>>, client.phase = "closed",
         out' = Rest(out), afterEnd' = afterEnd + 1, UNCHANGED <<client, failed, outcome>>,
         UNCHANGED <<protocol, live, phase, over, state, fired, frames>>
  PROVE  IInv'
<1>1. outcome # "none"
  BY EmptyBurst DEF IInv, Orderly
<1>2. phase \in {"scanning", "flushing", "buffered"}
  BY <1>1 DEF IInv, Orderly, Typed
<1>3. Answering /\ Answering' /\ (Scans' <=> Scans)
  BY <1>2 DEF Answering, Scans
<1>4. protocol = "chat" /\ client.last = "error" /\ phase = "flushing"
  BY <1>3 DEF IInv, BurstInv
<1>5. out \in AnyBurst /\ After(out) \in AnyBurst
  BY AfterParts DEF IInv, Typed
<1>6. out' \in AnyBurst /\ Ready(out')
  BY <1>5, SettledTyped, SettledReady DEF Rest, After
<1>7. Typed'
  BY <1>6 DEF IInv, Typed
<1>8. Orderly'
  BY <1>1, <1>3, <1>4 DEF IInv, Orderly
<1>9. EndInv'
  BY <1>3, <1>4 DEF IInv, EndInv, EndComes
<1>10. BurstInv'
  BY <1>4, <1>6 DEF BurstInv, Read
<1>11. TextNoted' /\ ~Read'
  BY DEF TextNoted, Read
<1>12. ChatInv'
  BY <1>3, <1>4, <1>11 DEF IInv, ChatInv, FlushedOut
<1>13. MessagesInv' /\ AtOnceInv'
  BY <1>4 DEF MessagesInv, AtOnceInv
<1>14. BlocksInOrder' /\ CallsReported' /\ EndStands'
  BY <1>4 DEF IInv, BlocksInOrder, CallsReported, EndStands, Shown
<1> QED
  BY <1>7, <1>8, <1>9, <1>10, <1>11, <1>12, <1>13, <1>14 DEF IInv

\* A frame the client reads.
LEMMA WriteSeen ==
  ASSUME IInv, out.frames # <<>>, client.phase # "closed", live \/ failed # "write",
         Shows(Head(out.frames)), out' = Rest(out), UNCHANGED <<failed, outcome>>,
         UNCHANGED <<protocol, live, phase, over, state, fired, frames>>
  PROVE  IInv'
<1> DEFINE e == Head(out.frames)
           u == After(out)
           n == BlocksAfter(client.blocks, e)
           said == client.spoken \/ e.kind = "text"
<1>1. outcome # "none"
  BY EmptyBurst DEF IInv, Orderly
<1>2. phase \in {"scanning", "flushing", "buffered"}
  BY <1>1 DEF IInv, Orderly, Typed
<1>3. Answering /\ Answering' /\ (Scans' <=> Scans)
  BY <1>2 DEF Answering, Scans
<1>4. client.phase = "open" /\ failed # "write" /\ Read /\ client.last \notin {"terminal", "error"}
  BY <1>3 DEF IInv, Orderly, EndInv, Read
<1>5. /\ out \in AnyBurst /\ client.blocks \in [Places -> {"none", "open", "stopped"}]
      /\ client.spoken \in BOOLEAN
      /\ BlocksFollow(out, client.blocks) /\ ThoughtsLead(out, client.spoken) /\ EndLast(out)
  BY <1>3, <1>4 DEF IInv, Typed, BurstInv
<1>6. u \in AnyBurst /\ e \in AnyFrame /\ Placed(e) /\ u.after = out.after /\ u.blocks = out.blocks
  BY <1>5, AfterParts
<1>7. /\ n \in [Places -> {"none", "open", "stopped"}] /\ BlocksFollow(u, n)
      /\ e.type # "none" => client.blocks[e.item] \in Follows[e.type]
  BY <1>5, AfterFollows
<1>8. /\ ThoughtsLead(u, said) /\ said \in BOOLEAN
      /\ e.kind = "text" \/ Holds(u.frames, "text") => Holds(out.frames, "text")
  BY <1>5, AfterLeads
<1>9. /\ EndLast(u)
      /\ Ends(e) => u.frames = <<>> /\ DOMAIN u.blocks = {} /\ u.after = <<>>
      /\ \A kind \in {"terminal", "error"} :
           /\ EndsWith(out, kind) => EndsWith(u, kind) \/ e.kind = kind
           /\ EndsWith(u, kind) \/ e.kind = kind => EndsWith(out, kind)
  BY <1>5, AfterEnds
<1>10. \A i \in Places : Reached(u, n, i) = Reached(out, client.blocks, i)
  BY <1>5, AfterReached
<1>11. out' = Settled(u)
  BY DEF Rest, After
<1>12. /\ out' \in AnyBurst /\ Ready(out') /\ BlocksFollow(out', n) /\ EndLast(out')
       /\ \A kind \in {"terminal", "error"} : EndsWith(out', kind) <=> EndsWith(u, kind)
       /\ \A i \in Places : Reached(out', n, i) = Reached(out, client.blocks, i)
  BY <1>6, <1>7, <1>9, <1>10, <1>11, SettledTyped, SettledReady, SettledFollows, SettledEnds,
     SettledReached
<1>13. /\ ~Holds(out.after, "text")
       /\ Scans => /\ client.spoken \/ Holds(out.frames, "text") => state.sawText
                   /\ \A i \in DOMAIN out.blocks : ~Holds(out.blocks[i], "text")
  BY <1>4 DEF IInv, TextNoted
<1>14. /\ ThoughtsLead(out', said) /\ ~Holds(out'.after, "text")
       /\ Holds(out'.frames, "text") =>
            Holds(u.frames, "text") \/ \E i \in DOMAIN u.blocks : Holds(u.blocks[i], "text")
       /\ \A i \in DOMAIN out'.blocks : i \in DOMAIN u.blocks /\ out'.blocks[i] = u.blocks[i]
  BY <1>6, <1>8, <1>11, <1>13, SettledLeads
<1> DEFINE shown == [phase |-> IF Ends(e) THEN "closed" ELSE "open",
                     number |-> client.number + 1, last |-> e.kind, spoken |-> said,
                     texts |-> client.texts + (IF e.kind = "text" THEN 1 ELSE 0),
                     blocks |-> n, confused |-> client.confused]
<1>15. client' = shown /\ afterEnd' = afterEnd
  <2>1. /\ client' =
             [phase |-> IF e.kind \in {"terminal", "error"} THEN "closed" ELSE "open",
              number |-> client.number + 1, last |-> e.kind,
              spoken |-> client.spoken \/ e.kind = "text",
              texts |-> client.texts + (IF e.kind = "text" THEN 1 ELSE 0),
              blocks |-> IF e.type = "none" THEN client.blocks
                         ELSE [client.blocks EXCEPT ![e.item] = BlockAfter(e.type)],
              confused |-> client.confused
                           \/ (e.type # "none" /\ client.blocks[e.item] \notin Follows[e.type])]
        /\ afterEnd' = afterEnd
    BY <1>4 DEF Shows
  <2>2. (client.confused \/ (e.type # "none" /\ client.blocks[e.item] \notin Follows[e.type]))
          = client.confused
    BY <1>7 DEF IInv, Typed
  <2> HIDE DEF e
  <2> QED
    BY <2>1, <2>2 DEF BlocksAfter, Ends
<1>16. /\ client'.phase = IF Ends(e) THEN "closed" ELSE "open"
       /\ client'.last = e.kind /\ client'.spoken = said /\ client'.blocks = n
       /\ client'.confused = client.confused
  BY <1>15
<1>17. Typed'
  <2>1. e.kind \in {"thought", "text", "other", "terminal", "error"}
    BY <1>6 DEF AnyFrame
  <2>2. client.number + 1 \in Nat /\ client.texts + (IF e.kind = "text" THEN 1 ELSE 0) \in Nat
        /\ client.confused \in BOOLEAN
    BY DEF IInv, Typed
  <2> HIDE DEF e, n, said
  <2>3. shown \in [phase : {"silent", "open", "closed", "refused"}, number : Nat,
                   last : {"none", "thought", "text", "other", "terminal", "error"},
                   spoken : BOOLEAN, texts : Nat, blocks : [Places -> {"none", "open", "stopped"}],
                   confused : BOOLEAN]
    BY <1>7, <1>8, <2>1, <2>2
  <2> HIDE DEF shown
  <2> QED
    BY <1>12, <1>15, <2>3 DEF IInv, Typed
<1> HIDE DEF e, n, said, shown, u
<1>18. Orderly'
  BY <1>1, <1>2, <1>3, <1>16 DEF IInv, Orderly
<1>19. Ends(e) <=> e.kind \in {"terminal", "error"}
  BY DEF Ends
<1>20. EndComes(out) <=> EndComes(u) \/ Ends(e)
  BY <1>9, <1>19 DEF EndComes
<1>21. EndComes(out') <=> EndComes(u)
  BY <1>12 DEF EndComes
<1>22. EndInv'
  BY <1>3, <1>4, <1>16, <1>19, <1>20, <1>21 DEF IInv, EndInv
<1>23. Ends(e) => out'.frames = <<>>
  <2>1. ASSUME Ends(e)
        PROVE  Settled(u).frames = u.after
    BY <1>6, <1>9, <2>1, SettledParts
  <2> QED
    BY <1>9, <1>11, <2>1
<1>24. BurstInv'
  BY <1>12, <1>14, <1>16, <1>23 DEF BurstInv
<1>25. TextNoted'
  BY <1>3, <1>6, <1>8, <1>13, <1>14, <1>16 DEF TextNoted, said
<1>26. client'.phase = "open" => Read'
  BY <1>4 DEF Read
<1>27. Calls \subseteq Places /\ Blocks \subseteq Places
  BY DEF Places
<1>28. EndsWith(out, "error") => EndsWith(out', "error") \/ (client'.phase = "closed" /\ client'.last = "error")
  BY <1>9, <1>12, <1>16, <1>19
<1>29. ChatInv'
  BY <1>3, <1>4, <1>12, <1>16, <1>27, <1>28 DEF IInv, ChatInv, FlushedOut, Read
<1>30. MessagesInv'
  <2> SUFFICES ASSUME protocol = "messages", Scans
               PROVE  MessagesInv'
    BY <1>3 DEF MessagesInv
  <2>1. Tracked(state) /\ Matches(state, out, client.blocks)
    BY <1>4 DEF IInv, MessagesInv
  <2>2. \A i \in Blocks : Reached(out', client'.blocks, i) = Reached(out, client.blocks, i)
    BY <1>12, <1>16, <1>27
  <2>3. Matches(state, out', client'.blocks)
    BY <2>1, <2>2 DEF Matches
  <2> QED
    BY <2>1, <2>3 DEF MessagesInv
<1>31. AtOnceInv'
  BY <1>4, <1>12, <1>16 DEF IInv, AtOnceInv, Demands, Read
<1>32. BlocksInOrder'
  BY <1>16 DEF IInv, BlocksInOrder
<1>33. EndStands'
  BY <1>2, <1>4, <1>15 DEF IInv, EndStands
<1>34. CallsReported'
  <2>0. protocol = "messages" => DOMAIN state.began \subseteq Places
    BY DEF IInv, Typed, MessagesState
  <2> SUFFICES ASSUME e.kind = "terminal", NEW i \in Places, Demands(i)
               PROVE  n[i] # "none"
    BY <1>16, <1>27, <2>0 DEF CallsReported, Demands, Shown, IInv, Typed
  <2>1. EndsWith(out, "terminal")
    BY <1>9
  <2>2. Reached(out, client.blocks, i) # "none"
    BY <1>3, <1>4, <2>1, EndOwes
  <2>3. out'.frames = <<>> /\ DOMAIN out'.blocks = {}
    BY <1>12, <1>19, <1>23 DEF Ready
  <2>4. Reached(out', n, i) = n[i]
    BY <2>3 DEF Reached, Left, About
  <2> QED
    BY <1>12, <2>2, <2>4
<1> QED
  BY <1>17, <1>18, <1>22, <1>24, <1>25, <1>29, <1>30, <1>31, <1>32, <1>33, <1>34 DEF IInv

\* A write, seen or unseen or failed.
LEMMA WriteIInv == ASSUME IInv, Write PROVE IInv'
<1>1. out.frames # <<>> /\ UNCHANGED <<protocol, live, phase, over, state, fired, frames>>
  BY DEF Write
<1>2. PICK ok \in Reaches :
        IF ok THEN Shows(Head(out.frames)) /\ out' = Rest(out) /\ UNCHANGED <<failed, outcome>>
        ELSE failed' = "write" /\ outcome' = "bad" /\ out' = Only(<<>>) /\ UNCHANGED <<client, afterEnd>>
  BY DEF Write
<1>3. ok \in BOOLEAN /\ (ok => live \/ failed # "write") /\ (~ok => ~live)
  BY <1>2 DEF Reaches
<1>4. CASE ok /\ client.phase # "closed"
  BY <1>1, <1>2, <1>3, <1>4, WriteSeen
<1>5. CASE ok /\ client.phase = "closed"
  <2>1. afterEnd' = afterEnd + 1 /\ UNCHANGED client
    BY <1>2, <1>5 DEF Shows
  <2> QED
    BY <1>1, <1>2, <1>5, <2>1, WriteUnseen
<1>6. CASE ~ok
  BY <1>1, <1>2, <1>3, <1>6, WriteFails
<1> QED
  BY <1>3, <1>4, <1>5, <1>6

\* A request that has just come in.
LEMMA InitIInv == Init => IInv
<1> SUFFICES ASSUME Init
             PROVE  IInv
  OBVIOUS
<1>1. /\ out = Only(<<>>) /\ outcome = "none" /\ phase = "starting" /\ failed = "none" /\ fired = FALSE
      /\ live = TRUE /\ over = FALSE /\ frames = 0 /\ afterEnd = 0
      /\ client = [phase |-> "silent", number |-> 0, last |-> "none", spoken |-> FALSE, texts |-> 0,
                   blocks |-> [i \in Places |-> "none"], confused |-> FALSE]
  BY DEF Init
<1>2. \/ protocol = "chat" /\ state = ChatInit
      \/ protocol = "messages" /\ state \in {MessagesInit(h) : h \in BOOLEAN}
  BY DEF Init
<1>3. ChatInit \in ChatState /\ ~ChatInit.terminal /\ ~ChatInit.sawText
  BY DEF ChatInit, ChatState, Flags, NoCall
<1>4. ASSUME NEW h \in BOOLEAN
      PROVE  /\ MessagesInit(h) \in MessagesState
             /\ ~MessagesInit(h).terminal /\ ~MessagesInit(h).sawText
  <2> DEFINE began == [i \in Blocks |-> "none"]
  <2>1. began \in [Blocks -> BlockKind] /\ Blocks \in SUBSET Places
    BY DEF BlockKind, Places
  <2>2. NoHeld \in [{} -> BOOLEAN] /\ {} \in SUBSET Nat
    BY DEF NoHeld
  <2> HIDE DEF began
  <2>3. /\ began \in UNION {[S -> BlockKind] : S \in SUBSET Places}
        /\ NoHeld \in UNION {[S -> BOOLEAN] : S \in SUBSET Nat}
    BY <2>1, <2>2
  <2> QED
    BY <2>3 DEF MessagesInit, MessagesState, began
<1>5. Typed
  <2>1. client.blocks \in [Places -> {"none", "open", "stopped"}]
    BY <1>1
  <2> QED
    BY <1>1, <1>2, <1>3, <1>4, <2>1, EmptyBurst DEF Typed
<1>6. ~Answering /\ ~Scans
  BY <1>1 DEF Answering, Scans
<1>7. Orderly
  BY <1>1, <1>2, <1>3, <1>4, <1>6 DEF Orderly
<1>8. EndInv /\ BurstInv /\ TextNoted /\ ChatInv /\ MessagesInv /\ AtOnceInv
  BY <1>1, <1>6 DEF EndInv, BurstInv, TextNoted, ChatInv, MessagesInv, AtOnceInv
<1>9. BlocksInOrder /\ CallsReported /\ EndStands
  BY <1>1 DEF BlocksInOrder, CallsReported, EndStands
<1> QED
  BY <1>5, <1>7, <1>8, <1>9 DEF IInv

\* The headers are sent.
LEMMA BeginIInv == ASSUME IInv, Begin PROVE IInv'
<1>1. /\ phase = "starting" /\ phase' = "scanning" /\ client' = [client EXCEPT !.phase = "open"]
      /\ UNCHANGED <<protocol, live, over, state, out, outcome, failed, fired, frames, afterEnd>>
  BY DEF Begin
<1>2. /\ client.phase = "silent" /\ ~client.spoken /\ failed = "none" /\ outcome = "none"
      /\ \A i \in Places : client.blocks[i] = "none"
      /\ ~state.terminal /\ ~state.sawText /\ out = Only(<<>>)
      /\ \/ protocol = "chat" /\ state = ChatInit
         \/ protocol = "messages" /\ state \in {MessagesInit(h) : h \in BOOLEAN}
  BY <1>1 DEF IInv, Orderly
<1>3. /\ client'.phase = "open" /\ client'.last = client.last /\ client'.spoken = client.spoken
      /\ client'.blocks = client.blocks /\ client'.confused = client.confused
      /\ client.last \notin {"terminal", "error"}
  BY <1>1, <1>2 DEF IInv, Typed, EndInv
<1>4. Scans' /\ Answering' /\ Read' /\ out' = Only(<<>>)
  BY <1>1, <1>2, <1>3 DEF Scans, Answering, Read
<1>5. Typed'
  BY <1>1 DEF IInv, Typed
<1>6. Orderly'
  BY <1>1, <1>2, <1>3 DEF IInv, Orderly
<1>7. EndInv' /\ BurstInv' /\ TextNoted' /\ AtOnceInv'
  BY <1>1, <1>2, <1>3, <1>4, EmptyBurst DEF EndInv, BurstInv, TextNoted, AtOnceInv
<1>8. \A i \in Places : Reached(out', client'.blocks, i) = "none"
  BY <1>2, <1>3, <1>4, EmptyBurst
<1>9. ChatInv'
  <2>1. protocol = "chat" => ~state.flushed
    BY <1>2 DEF ChatInit
  <2>2. Calls \subseteq Places
    BY DEF Places
  <2> QED
    BY <1>1, <1>2, <1>8, <2>1, <2>2 DEF ChatInv
<1>10. MessagesInv'
  <2> SUFFICES ASSUME protocol = "messages"
               PROVE  MessagesInv'
    BY <1>1 DEF MessagesInv
  <2>1. /\ state.began = [i \in Blocks |-> "none"] /\ state.filtered = {} /\ state.dropped = {}
        /\ state.ended = {} /\ state.held = NoHeld /\ DOMAIN NoHeld = {}
    BY <1>2 DEF MessagesInit, NoHeld
  <2>2. Blocks \subseteq Places
    BY DEF Places
  <2> QED
    BY <1>1, <1>2, <1>8, <2>1, <2>2 DEF MessagesInv, Tracked, Matches, LeftOut
<1>11. BlocksInOrder' /\ CallsReported' /\ EndStands'
  BY <1>1, <1>3 DEF IInv, BlocksInOrder, CallsReported, EndStands
<1> QED
  BY <1>5, <1>6, <1>7, <1>9, <1>10, <1>11 DEF IInv

\* The request is refused.
LEMMA RefuseIInv == ASSUME IInv, Refuse PROVE IInv'
<1>1. /\ phase = "starting" /\ phase' = "ended"
      /\ UNCHANGED <<protocol, live, over, state, out, outcome, failed, fired, frames, afterEnd>>
  BY DEF Refuse
<1>2. PICK ok \in Reaches : client' = IF ok THEN [client EXCEPT !.phase = "refused"] ELSE client
  BY DEF Refuse
<1>3. client.phase = "silent" /\ client.last \notin {"terminal", "error"} /\ outcome = "none"
  BY <1>1 DEF IInv, Orderly, EndInv
<1>4. /\ client'.phase \in {"refused", "silent"} /\ client'.last = client.last
      /\ client'.confused = client.confused /\ (live => client'.phase = "refused")
  BY <1>2, <1>3 DEF IInv, Typed, Reaches
<1>5. Typed'
  BY <1>1, <1>2 DEF IInv, Typed
<1>6. ~Answering' /\ ~Scans'
  BY <1>1 DEF Answering, Scans
<1>7. Orderly'
  BY <1>1, <1>3, <1>6 DEF IInv, Orderly
<1>8. EndInv' /\ BurstInv' /\ TextNoted' /\ ChatInv' /\ MessagesInv' /\ AtOnceInv'
  BY <1>1, <1>3, <1>4, <1>6 DEF EndInv, BurstInv, TextNoted, ChatInv, MessagesInv, AtOnceInv
<1>9. BlocksInOrder' /\ CallsReported' /\ EndStands'
  BY <1>1, <1>3, <1>4 DEF IInv, BlocksInOrder, CallsReported, EndStands
<1> QED
  BY <1>5, <1>7, <1>8, <1>9 DEF IInv

\* The upstream's body ends.
LEMMA BodyEndsIInv == ASSUME IInv, BodyEnds PROVE IInv'
<1>1. /\ Reading /\ over' = TRUE /\ failed' \in {"none", "upstream"}
      /\ UNCHANGED <<protocol, client, live, phase, state, out, outcome, fired, frames, afterEnd>>
  BY DEF BodyEnds
<1>2. /\ phase = "scanning" /\ outcome = "none" /\ Read /\ failed = "none" /\ ~state.terminal
      /\ Answering /\ Scans
  BY <1>1, ReadingFacts
<1>3. Answering' /\ Scans' /\ Read'
  BY <1>1, <1>2 DEF Answering, Scans, Read
<1>4. Typed' /\ Orderly'
  BY <1>1, <1>2 DEF IInv, Typed, Orderly, Answering
<1>5. EndInv' /\ TextNoted' /\ BurstInv' /\ AtOnceInv'
  BY <1>1, <1>2, <1>3 DEF IInv, EndInv, TextNoted, BurstInv, AtOnceInv
<1>6. ChatInv'
  BY <1>1, <1>2, <1>3 DEF IInv, ChatInv, FlushedOut
<1>7. MessagesInv'
  BY <1>1, <1>2, <1>3 DEF IInv, MessagesInv
<1>8. BlocksInOrder' /\ CallsReported' /\ EndStands'
  BY <1>1 DEF IInv, BlocksInOrder, CallsReported, EndStands, Shown
<1> QED
  BY <1>4, <1>5, <1>6, <1>7, <1>8 DEF IInv

\* The request is cancelled.
LEMMA CancelIInv == ASSUME IInv, Cancel PROVE IInv'
<1>1. /\ live' = FALSE /\ phase # "ended"
      /\ UNCHANGED <<protocol, client, phase, over, state, out, outcome, failed, fired, frames, afterEnd>>
  BY DEF Cancel
<1>2. (Answering' <=> Answering) /\ (Scans' <=> Scans) /\ (Read' <=> Read)
  BY <1>1 DEF Answering, Scans, Read
<1>9. /\ live' \in BOOLEAN /\ protocol' = protocol /\ client' = client /\ phase' = phase /\ over' = over
      /\ state' = state /\ out' = out /\ outcome' = outcome /\ failed' = failed /\ fired' = fired
      /\ frames' = frames /\ afterEnd' = afterEnd
  BY <1>1
<1>3. Typed'
  BY <1>9 DEF IInv, Typed
<1>8. Orderly'
  BY <1>1, <1>2 DEF IInv, Orderly
<1>4. EndInv' /\ TextNoted' /\ BurstInv' /\ AtOnceInv'
  BY <1>1, <1>2 DEF IInv, EndInv, TextNoted, BurstInv, AtOnceInv, Demands
<1>5. ChatInv'
  BY <1>1, <1>2 DEF IInv, ChatInv, FlushedOut
<1>6. MessagesInv'
  BY <1>1, <1>2 DEF IInv, MessagesInv
<1>7. BlocksInOrder' /\ CallsReported' /\ EndStands'
  BY <1>1 DEF IInv, BlocksInOrder, CallsReported, EndStands, Shown
<1> QED
  BY <1>3, <1>4, <1>5, <1>6, <1>7, <1>8 DEF IInv

\* The watchdog fires.
LEMMA FireIInv == ASSUME IInv, Fire PROVE IInv'
<1>1. /\ fired' = TRUE /\ phase # "ended"
      /\ UNCHANGED <<protocol, client, live, phase, over, state, out, outcome, failed, frames, afterEnd>>
  BY DEF Fire
<1>2. (Answering' <=> Answering) /\ (Scans' <=> Scans) /\ (Read' <=> Read)
  BY <1>1 DEF Answering, Scans, Read
<1>3. Typed'
  BY <1>1 DEF IInv, Typed
<1>8. Orderly'
  BY <1>1, <1>2 DEF IInv, Orderly
<1>4. EndInv' /\ TextNoted' /\ BurstInv' /\ AtOnceInv'
  BY <1>1, <1>2 DEF IInv, EndInv, TextNoted, BurstInv, AtOnceInv, Demands
<1>5. ChatInv'
  BY <1>1, <1>2 DEF IInv, ChatInv, FlushedOut
<1>6. MessagesInv'
  BY <1>1, <1>2 DEF IInv, MessagesInv
<1>7. BlocksInOrder' /\ CallsReported' /\ EndStands'
  BY <1>1 DEF IInv, BlocksInOrder, CallsReported, EndStands, Shown
<1> QED
  BY <1>3, <1>4, <1>5, <1>6, <1>7, <1>8 DEF IInv

\* A burst that has been written leaves nothing.
LEMMA WrittenIsNothing ==
  ASSUME NEW b \in AnyBurst, Ready(b), b.frames = <<>>
  PROVE  b = Only(<<>>)
<1>1. DOMAIN b.blocks = {} /\ b.after = <<>>
  BY DEF Ready
<1>2. b.blocks = NoBlocks
  <2>1. PICK S \in SUBSET Places : b.blocks \in [S -> FrameSeq \ {<<>>}]
    BY DEF AnyBurst
  <2>2. S = {}
    BY <1>1, <2>1
  <2> QED
    BY <2>1, <2>2 DEF NoBlocks
<1>3. b = [frames |-> b.frames, blocks |-> b.blocks, after |-> b.after]
  BY DEF AnyBurst
<1> QED
  BY <1>1, <1>2, <1>3 DEF Only, Burst

\* A handler that returns has written its burst, or failed to.
LEMMA ReturnIInv == ASSUME IInv, Return PROVE IInv'
<1>1. /\ out.frames = <<>> /\ outcome # "none" /\ outcome' = "none"
      /\ failed' = IF outcome = "bad" /\ failed = "none" THEN "upstream" ELSE failed
      /\ UNCHANGED <<protocol, client, live, state, out, fired, frames, afterEnd>>
  BY DEF Return
<1>2. phase \in {"scanning", "flushing", "buffered"}
  BY <1>1 DEF IInv, Orderly, Typed
<1>3. \/ phase = "scanning" /\ over' = (outcome = "bad" \/ state.terminal) /\ UNCHANGED phase
      \/ phase = "flushing" /\ phase' = "judging" /\ UNCHANGED over
      \/ phase = "buffered" /\ phase' = "ended" /\ UNCHANGED over
  BY <1>2 DEF Return
<1>4. Answering /\ (Scans' => Scans /\ Answering') /\ (Answering' => Scans')
  BY <1>2, <1>3 DEF Answering, Scans
<1>5. out = Only(<<>>)
  BY <1>1, <1>4, WrittenIsNothing DEF IInv, BurstInv, Typed
<1>6. ~EndComes(out) /\ out' = out /\ (failed' = "write" <=> failed = "write") /\ (Read' <=> Read)
  BY <1>1, <1>5, EmptyBurst DEF Read
<1>7. state.terminal => failed' # "upstream" /\ (failed' = "write" \/ client.phase = "closed")
  BY <1>1, <1>4, <1>6 DEF IInv, EndInv
<1>8. Typed'
  <2>1. phase' \in {"scanning", "judging", "ended"}
    BY <1>3
  <2>2. over' \in BOOLEAN
    <3>1. state.terminal \in BOOLEAN
      BY DEF IInv, Typed, ChatState, MessagesState
    <3> QED
      BY <1>3, <3>1 DEF IInv, Typed
  <2>3. failed' \in {"none", "upstream", "write"}
    BY <1>1 DEF IInv, Typed
  <2> QED
    BY <1>1, <2>1, <2>2, <2>3 DEF IInv, Typed
<1>9. Orderly'
  <2>1. ASSUME phase' = "scanning", ~over'
        PROVE  ~state.terminal /\ failed' = "none"
    <3>1. phase = "scanning" /\ outcome # "bad" /\ ~state.terminal
      BY <1>3, <2>1
    <3>2. ~over /\ failed = "none"
      BY <1>1, <3>1 DEF IInv, Orderly
    <3> QED
      BY <1>1, <3>1, <3>2
  <2>2. (Answering' => client.phase \in {"open", "closed"}) /\ phase' # "starting" /\ phase' # "flushing"
    BY <1>3, <1>4 DEF IInv, Orderly
  <2> QED
    BY <1>1, <1>5, <2>1, <2>2 DEF IInv, Orderly
<1>10. EndInv'
  BY <1>1, <1>3, <1>4, <1>6, <1>7 DEF IInv, EndInv
<1>11. BurstInv' /\ TextNoted' /\ AtOnceInv'
  BY <1>1, <1>3, <1>4, <1>5, EmptyBurst DEF IInv, BurstInv, TextNoted, AtOnceInv
<1>12. ChatInv'
  BY <1>1, <1>3, <1>4, <1>6 DEF IInv, ChatInv, FlushedOut
<1>13. MessagesInv'
  BY <1>1, <1>4, <1>6 DEF IInv, MessagesInv
<1>14. EndStands'
  <2>1. phase' = "ended" /\ live => client.phase = "closed"
    BY <1>3, <1>4, <1>6 DEF IInv, EndInv, Orderly
  <2> QED
    BY <1>1, <2>1 DEF IInv, EndStands
<1>15. BlocksInOrder' /\ CallsReported'
  BY <1>1 DEF IInv, BlocksInOrder, CallsReported, Shown
<1> QED
  BY <1>8, <1>9, <1>10, <1>11, <1>12, <1>13, <1>14, <1>15 DEF IInv

\* The end the handler puts in place of a missing one, or the watchdog's error.
LEMMA SaidAtTheEnd ==
  ASSUME IInv, Answering, NEW kind \in {"terminal", "error"}, Shows(Plain(kind))
  PROVE  /\ client' \in [phase : {"silent", "open", "closed", "refused"}, number : Nat,
              last : {"none", "thought", "text", "other", "terminal", "error"}, spoken : BOOLEAN,
              texts : Nat, blocks : [Places -> {"none", "open", "stopped"}], confused : BOOLEAN]
         /\ client'.phase = "closed" /\ client'.blocks = client.blocks /\ client'.confused = client.confused
         /\ client.phase = "closed" => client' = client /\ afterEnd' = afterEnd + 1
         /\ client.phase # "closed" => client'.last = kind /\ afterEnd' = afterEnd
<1>1. client.phase \in {"open", "closed"}
  BY DEF IInv, Orderly
<1>2. Plain(kind).kind = kind /\ Plain(kind).type = "none"
  BY DEF Plain, Frame
<1>3. CASE client.phase = "closed"
  <2>1. client' = client /\ afterEnd' = afterEnd + 1
    BY <1>3 DEF Shows
  <2> QED
    BY <1>3, <2>1 DEF IInv, Typed
<1>4. CASE client.phase = "open"
  <2> DEFINE shown == [phase |-> "closed", number |-> client.number + 1, last |-> kind,
                       spoken |-> client.spoken, texts |-> client.texts,
                       blocks |-> client.blocks, confused |-> client.confused]
  <2>2. /\ client.number + 1 \in Nat /\ client.texts \in Nat /\ client.spoken \in BOOLEAN
        /\ client.confused \in BOOLEAN /\ client.blocks \in [Places -> {"none", "open", "stopped"}]
    BY DEF IInv, Typed
  <2>1. client' = shown /\ afterEnd' = afterEnd
    <3>1. (client.spoken \/ FALSE) = client.spoken /\ (client.confused \/ FALSE) = client.confused
          /\ client.texts + 0 = client.texts
      BY <2>2
    <3> QED
      BY <1>2, <1>4, <3>1 DEF Shows
  <2>3. shown \in [phase : {"silent", "open", "closed", "refused"}, number : Nat,
              last : {"none", "thought", "text", "other", "terminal", "error"}, spoken : BOOLEAN,
              texts : Nat, blocks : [Places -> {"none", "open", "stopped"}], confused : BOOLEAN]
    BY <2>2
  <2>4. /\ shown.phase = "closed" /\ shown.blocks = client.blocks /\ shown.last = kind
        /\ shown.confused = client.confused
    BY <2>2
  <2> HIDE DEF shown
  <2> QED
    BY <1>4, <2>1, <2>3, <2>4
<1> QED
  BY <1>1, <1>3, <1>4

\* What is made of the end of the stream.
LEMMA JudgeIInv == ASSUME IInv, Judge PROVE IInv'
<1>1. /\ phase = "judging" /\ outcome = "none" /\ phase' = "ended"
      /\ UNCHANGED <<protocol, live, over, state, out, outcome, failed, fired, frames>>
  BY DEF Judge
<1>2. Answering /\ Scans /\ ~Answering' /\ ~Scans'
  BY <1>1 DEF Answering, Scans
<1>3. out = Only(<<>>) /\ client.phase \in {"open", "closed"} /\ ~EndComes(out) /\ (failed = "write" => ~live)
  BY <1>1, <1>2, EmptyBurst DEF IInv, Orderly
<1>4. client.phase = "closed" => state.terminal
  BY <1>2 DEF IInv, EndInv
<1>5. state.terminal => failed # "upstream" /\ (failed = "write" \/ client.phase = "closed")
  BY <1>2, <1>3 DEF IInv, EndInv
<1>6. \/ fired /\ Says(Plain("error"))
      \/ ~fired /\ Aborted /\ UNCHANGED <<client, afterEnd>>
      \/ ~fired /\ failed = "upstream" /\ Says(Plain("error"))
      \/ ~fired /\ failed = "none" /\ Synthesized /\ Says(Plain("terminal"))
      \/ ~fired /\ failed = "none" /\ Unended /\ Says(Plain("error"))
      \/ ~fired /\ ~Aborted /\ failed = "none" /\ ~Unended /\ UNCHANGED <<client, afterEnd>>
  BY DEF Judge
\* Either nothing is said, and then nobody listens or the end was there, or an end is.
<1>7. \/ UNCHANGED <<client, afterEnd>> /\ (live => client.phase = "closed")
      \/ fired /\ Shows(Plain("error"))
      \/ client.phase = "open" /\ Shows(Plain("error"))
      \/ client.phase = "open" /\ failed = "none" /\ Synthesized /\ Shows(Plain("terminal"))
  <2>1. \A ok \in Reaches : live => ok
    BY DEF Reaches
  <2>2. ASSUME NEW e, Says(e)
        PROVE  Shows(e) \/ (UNCHANGED <<client, afterEnd>> /\ ~live)
    <3>1. PICK ok \in Reaches : IF ok THEN Shows(e) ELSE UNCHANGED <<client, afterEnd>>
      BY <2>2 DEF Says
    <3>2. CASE ok
      BY <3>1, <3>2
    <3>3. CASE ~ok
      BY <2>1, <3>1, <3>3
    <3> QED
      BY <3>2, <3>3
  <2>3. Aborted => ~live
    BY <1>3 DEF Aborted
  <2>4. Unended \/ Synthesized \/ failed = "upstream" => client.phase = "open"
    BY <1>3, <1>4, <1>5 DEF Unended, Synthesized
  <2>5. ~Unended /\ failed = "none" => client.phase = "closed"
    BY <1>5 DEF Unended
  <2>6. CASE fired /\ Says(Plain("error"))
    BY <2>2, <2>6
  <2>7. CASE Aborted /\ UNCHANGED <<client, afterEnd>>
    BY <2>3, <2>7
  <2>8. CASE failed = "upstream" /\ Says(Plain("error"))
    BY <2>2, <2>4, <2>8
  <2>9. CASE failed = "none" /\ Synthesized /\ Says(Plain("terminal"))
    BY <2>2, <2>4, <2>9
  <2>10. CASE failed = "none" /\ Unended /\ Says(Plain("error"))
    BY <2>2, <2>4, <2>10
  <2>11. CASE failed = "none" /\ ~Unended /\ UNCHANGED <<client, afterEnd>>
    BY <2>5, <2>11
  <2> QED
    BY <1>6, <2>6, <2>7, <2>8, <2>9, <2>10, <2>11
<1> DEFINE Ended == Typed' /\ CallsReported' /\ EndStands' /\ EndInv' /\ BlocksInOrder'
                    /\ (client'.phase = "open" => client.phase = "open")
<1>8. ASSUME UNCHANGED <<client, afterEnd>> /\ (live => client.phase = "closed")
      PROVE  Ended
  <2>0. client' = client
    BY <1>8
  <2>1. Typed'
    BY <1>1, <1>8 DEF IInv, Typed
  <2>2. EndStands'
    BY <1>1, <1>8 DEF IInv, EndStands
  <2>3. CallsReported' /\ BlocksInOrder'
    BY <1>1, <1>8 DEF IInv, CallsReported, Shown, BlocksInOrder
  <2>4. EndInv'
    BY <1>1, <1>2, <1>8 DEF IInv, EndInv
  <2> QED
    BY <2>0, <2>1, <2>2, <2>3, <2>4
<1>9. ASSUME NEW kind \in {"terminal", "error"}, Shows(Plain(kind)),
             fired \/ client.phase = "open",
             kind = "terminal" => client.phase = "open" /\ failed = "none" /\ Synthesized
      PROVE  Ended
  <2>1. /\ client' \in [phase : {"silent", "open", "closed", "refused"}, number : Nat,
              last : {"none", "thought", "text", "other", "terminal", "error"}, spoken : BOOLEAN,
              texts : Nat, blocks : [Places -> {"none", "open", "stopped"}], confused : BOOLEAN]
        /\ client'.phase = "closed" /\ client'.blocks = client.blocks /\ client'.confused = client.confused
        /\ client.phase = "closed" => client' = client /\ afterEnd' = afterEnd + 1
        /\ client.phase # "closed" => client'.last = kind /\ afterEnd' = afterEnd
    BY <1>2, <1>9, SaidAtTheEnd
  <2>2. Typed'
    <3>1. afterEnd' \in Nat
      BY <1>3, <2>1 DEF IInv, Typed
    <3> QED
      BY <1>1, <2>1, <3>1 DEF IInv, Typed
  <2>3. client'.last \in {"terminal", "error"}
    BY <1>2, <1>9, <2>1 DEF IInv, EndInv
  <2>4. EndInv'
    BY <1>1, <1>2, <2>1, <2>3 DEF EndInv
  <2>5. EndStands'
    <3>1. client.phase # "closed" /\ afterEnd > 0 => fired
      BY DEF IInv, EndStands, EndInv
    <3> QED
      BY <1>1, <1>9, <2>1, <3>1 DEF EndStands
  <2>6. CallsReported'
    <3>1. CASE client.phase = "closed"
      BY <1>1, <2>1, <3>1 DEF IInv, CallsReported, Shown
    <3>2. CASE kind = "error" /\ client.phase = "open"
      BY <2>1, <3>2 DEF CallsReported
    <3>3. CASE kind = "terminal"
      <4>1. Read /\ ~state.terminal /\ client.phase = "open" /\ \A i : Reached(out, client.blocks, i) = client.blocks[i]
        BY <1>3, <1>9, <3>3, EmptyBurst DEF Read, Synthesized, Unended
      <4>2. CASE protocol = "chat"
        <5>1. FlushedOut
          BY <1>1, <1>2, <4>2 DEF IInv, ChatInv
        <5>2. \A i \in Calls : Discarded(state, i) \/ client.blocks[i] # "none"
          BY <1>2, <4>1, <4>2, <5>1 DEF IInv, ChatInv, FlushedOut, Discarded
        <5> QED
          BY <1>1, <2>1, <4>2, <5>2 DEF CallsReported, Shown
      <4>3. CASE protocol = "messages"
        <5>1. \A i \in DOMAIN state.began :
                state.began[i] = "tool_use" /\ i \in state.ended => client.blocks[i] # "none"
          BY <1>2, <4>1, <4>3 DEF IInv, MessagesInv, Tracked, Matches
        <5> QED
          BY <1>1, <2>1, <4>1, <4>3, <5>1 DEF CallsReported, Shown
      <4> QED
        BY <4>2, <4>3 DEF IInv, Typed
    <3> QED
      BY <1>3, <1>9, <3>1, <3>2, <3>3
  <2>7. BlocksInOrder'
    BY <2>1 DEF IInv, BlocksInOrder
  <2> QED
    BY <2>1, <2>2, <2>4, <2>5, <2>6, <2>7
<1>10. Ended
  <2>1. CASE fired /\ Shows(Plain("error"))
    BY <1>9, <2>1
  <2>2. CASE client.phase = "open" /\ Shows(Plain("error"))
    BY <1>9, <2>2
  <2>3. CASE client.phase = "open" /\ failed = "none" /\ Synthesized /\ Shows(Plain("terminal"))
    BY <1>9, <2>3
  <2> QED
    BY <1>7, <1>8, <2>1, <2>2, <2>3
<1>11. Orderly'
  BY <1>1, <1>2 DEF IInv, Orderly
<1>12. BurstInv' /\ ChatInv' /\ MessagesInv' /\ AtOnceInv'
  BY <1>1, <1>2 DEF BurstInv, ChatInv, MessagesInv, AtOnceInv
<1>13. TextNoted'
  BY <1>1, <1>2, <1>3, EmptyBurst DEF TextNoted
<1> QED
  BY <1>10, <1>11, <1>12, <1>13 DEF IInv

-----------------------------------------------------------------------------
(* What the rectifier of a Chat Completions stream sends.                  *)

\* Frames in sequence.
LEMMA SequencesOfFrames ==
  /\ <<>> \in FrameSeq
  /\ \A e \in AnyFrame : Placed(e) => <<e>> \in FrameSeq
  /\ \A s, t \in FrameSeq : s \o t \in FrameSeq
<1>1. <<>> \in FrameSeq
  BY DEF FrameSeq
<1>2. ASSUME NEW e \in AnyFrame, Placed(e)
      PROVE  <<e>> \in FrameSeq
  BY <1>2 DEF FrameSeq
<1>3. ASSUME NEW s \in FrameSeq, NEW t \in FrameSeq
      PROVE  s \o t \in FrameSeq
  <2>1. s \in Seq(AnyFrame) /\ t \in Seq(AnyFrame)
    BY DEF FrameSeq
  <2>2. s \o t \in Seq(AnyFrame)
    BY <2>1
  <2>3. ASSUME NEW p \in DOMAIN (s \o t)
        PROVE  Placed((s \o t)[p])
    <3>1. CASE p \in DOMAIN s
      <4>1. (s \o t)[p] = s[p]
        BY <2>1, <3>1
      <4> QED
        BY <3>1, <4>1 DEF FrameSeq
    <3>2. CASE p \notin DOMAIN s
      <4>1. p - Len(s) \in DOMAIN t /\ (s \o t)[p] = t[p - Len(s)]
        BY <2>1, <3>2
      <4> QED
        BY <4>1 DEF FrameSeq
    <3> QED
      BY <3>1, <3>2
  <2> QED
    BY <2>2, <2>3 DEF FrameSeq
<1> QED
  BY <1>1, <1>2, <1>3

\* A frame that is about no call or block.
LEMMA PlainFrames ==
  ASSUME NEW kind \in {"thought", "text", "other", "terminal", "error"}
  PROVE  /\ Plain(kind) \in AnyFrame /\ Placed(Plain(kind)) /\ <<Plain(kind)>> \in FrameSeq
         /\ Plain(kind).kind = kind /\ Plain(kind).type = "none"
<1>1. Plain(kind) \in AnyFrame /\ Placed(Plain(kind))
  BY DEF Plain, Frame, AnyFrame, Placed
<1> QED
  BY <1>1, SequencesOfFrames DEF Plain, Frame

\* Loose frames, of no call or block and before the end: a thought, then text.
Loose(s, spoken) ==
  /\ s \in FrameSeq /\ Shy(s, spoken)
  /\ \A p \in DOMAIN s : s[p].type = "none" /\ s[p].kind \in {"thought", "text", "other"}

\* The frames a piece of content is split into.
LEMMA LooseFrames ==
  ASSUME NEW kind \in {"text", "other"}, NEW spoken
  PROVE  /\ Loose(<<>>, spoken) /\ Loose(<<Plain(kind)>>, spoken)
         /\ ~spoken => Loose(<<Thought>>, spoken) /\ Loose(<<Thought>> \o <<Plain(kind)>>, spoken)
         /\ ~Holds(<<>>, "text") /\ ~Holds(<<Thought>>, "text")
         /\ kind = "other" => ~Holds(<<Plain(kind)>>, "text")
<1>1. /\ Plain(kind).kind = kind /\ Plain(kind).type = "none" /\ <<Plain(kind)>> \in FrameSeq
      /\ Thought.kind = "thought" /\ Thought.type = "none" /\ <<Thought>> \in FrameSeq
  BY PlainFrames DEF Thought
<1>2. <<>> \in FrameSeq /\ <<Thought>> \o <<Plain(kind)>> \in FrameSeq
  BY <1>1, SequencesOfFrames
<1> DEFINE both == <<Thought>> \o <<Plain(kind)>>
<1>3. DOMAIN both = 1..2 /\ both[1] = Thought /\ both[2] = Plain(kind)
  <2>1. ASSUME NEW X, NEW a \in X, NEW b \in X
        PROVE  /\ Len(<<a>> \o <<b>>) = 2 /\ (<<a>> \o <<b>>)[1] = a /\ (<<a>> \o <<b>>)[2] = b
               /\ DOMAIN (<<a>> \o <<b>>) = 1..2
    <3>1. <<a>> \in Seq(X) /\ <<b>> \in Seq(X) /\ Len(<<a>>) = 1 /\ Len(<<b>>) = 1
      OBVIOUS
    <3>2. Len(<<a>> \o <<b>>) = 2 /\ <<a>> \o <<b>> \in Seq(X)
      BY <3>1
    <3> QED
      BY <3>1, <3>2
  <2>2. Thought \in AnyFrame /\ Plain(kind) \in AnyFrame
    BY PlainFrames DEF Thought
  <2> QED
    BY <2>1, <2>2
<1> HIDE DEF both
<1>4. both \in FrameSeq
  BY <1>2 DEF both
<1>5. ~spoken => Loose(both, spoken)
  BY <1>1, <1>3, <1>4 DEF Loose, Shy
<1> QED
  BY <1>1, <1>2, <1>5 DEF Loose, Shy, Holds, both

\* The empty sequence changes nothing.
LEMMA EmptyConcat ==
  ASSUME NEW X, NEW s \in Seq(X)
  PROVE  <<>> \o s = s /\ s \o <<>> = s
OBVIOUS

\* What the splitter held goes before everything else.
LEMMA WithheldIsLoose ==
  ASSUME NEW c \in ChatState, NEW split \in Splits, NEW spoken \in BOOLEAN, spoken => c.sawText
  PROVE  /\ Loose(Withheld(c, split), spoken)
         /\ Holds(Withheld(c, split), "text") => split.text = "text"
<1> DEFINE kind == IF split.text = "text" THEN "text" ELSE "other"
           thought == Gated(c, split.thought)
           text == IF split.text = "none" THEN <<>> ELSE <<Plain(kind)>>
<1>1. Withheld(c, split) = thought \o text
  BY DEF Withheld
<1>2. thought = <<>> \/ (thought = <<Thought>> /\ ~spoken)
  BY DEF Gated
<1>3. kind \in {"text", "other"} /\ (kind = "text" => split.text = "text")
  OBVIOUS
<1>4. text = <<>> \/ text = <<Plain(kind)>>
  OBVIOUS
<1>5. <<>> \in Seq(AnyFrame) /\ <<Thought>> \in Seq(AnyFrame) /\ <<Plain(kind)>> \in Seq(AnyFrame)
  BY PlainFrames DEF Thought
<1> HIDE DEF kind
<1>6. \/ thought \o text = <<>>
      \/ thought \o text = <<Thought>> /\ ~spoken
      \/ thought \o text = <<Plain(kind)>>
      \/ thought \o text = <<Thought>> \o <<Plain(kind)>> /\ ~spoken
  BY <1>2, <1>4, <1>5, EmptyConcat
<1>7. Loose(thought \o text, spoken)
  BY <1>3, <1>6, LooseFrames
<1>8. Holds(thought \o text, "text") => split.text = "text"
  <2>1. CASE kind = "text"
    BY <1>3, <2>1
  <2>2. CASE kind = "other" /\ split.text # "none"
    <3>1. <<Thought>> \in Seq(AnyFrame) /\ Thought.kind # "text" /\ Plain(kind).kind # "text"
      BY <1>5, <2>2, PlainFrames DEF Thought
    <3> QED
      BY <1>5, <1>6, <3>1, <2>2, LooseFrames DEF Holds
  <2>3. CASE split.text = "none"
    <3>1. text = <<>>
      BY <2>3
    <3>2. thought \o text = <<>> \/ thought \o text = <<Thought>>
      BY <1>2, <1>5, <3>1, EmptyConcat
    <3> QED
      BY <3>2, LooseFrames
  <2> QED
    BY <1>3, <2>1, <2>2, <2>3
<1> QED
  BY <1>1, <1>7, <1>8

\* A call that was held is shown from its start, and has neither thought nor text.
Started(i, args) ==
  <<Frame("other", "start", i)>> \o (IF args THEN <<Frame("other", "delta", i)>> ELSE <<>>)

\* A call that was held is shown from its start on.
LEMMA StartedWhole ==
  ASSUME NEW i \in Places, NEW arguments
  PROVE  /\ Started(i, arguments) \in FrameSeq \ {<<>>} /\ Whole(Started(i, arguments), i)
         /\ \A p \in DOMAIN Started(i, arguments) :
              /\ Started(i, arguments)[p].kind = "other" /\ Started(i, arguments)[p].item = i
              /\ Started(i, arguments)[p].type = IF p = 1 THEN "start" ELSE "delta"
         /\ \A before : Left(Started(i, arguments), before, i) = "open"
<1> DEFINE start == Frame("other", "start", i)
           delta == Frame("other", "delta", i)
           args == IF arguments THEN <<delta>> ELSE <<>>
           s == <<start>> \o args
<1>1. Started(i, arguments) = s
  BY DEF Started
<1>2. start \in AnyFrame /\ delta \in AnyFrame /\ Placed(start) /\ Placed(delta)
  BY PlacesAreNumbers DEF AnyFrame, Placed, Frame
<1>3. <<start>> \in FrameSeq /\ args \in FrameSeq
  BY <1>2, SequencesOfFrames
<1>4. s \in FrameSeq
  BY <1>3, SequencesOfFrames
<1>5. /\ start.kind = "other" /\ start.type = "start" /\ start.item = i
      /\ delta.kind = "other" /\ delta.type = "delta" /\ delta.item = i
  BY DEF Frame
<1>6. args = <<>> \/ args = <<delta>>
  OBVIOUS
<1> HIDE DEF start, delta, args
<1>7. /\ DOMAIN s \in {1..1, 1..2} /\ 1 \in DOMAIN s /\ s[1] = start /\ Len(s) \in {1, 2}
      /\ DOMAIN s = 1..Len(s) /\ (2 \in DOMAIN s => s[2] = delta)
  <2>1. <<start>> \in Seq(AnyFrame) /\ <<delta>> \in Seq(AnyFrame) /\ Len(<<start>>) = 1 /\ Len(<<delta>>) = 1
    BY <1>2
  <2>2. CASE args = <<>>
    <3>1. s = <<start>>
      BY <2>1, <2>2, EmptyConcat
    <3> QED
      BY <2>1, <3>1
  <2>3. CASE args = <<delta>>
    <3>1. Len(s) = 2 /\ s \in Seq(AnyFrame)
      BY <2>1, <2>3
    <3> QED
      BY <2>1, <2>3, <3>1
  <2> QED
    BY <1>6, <2>2, <2>3
<1> HIDE DEF s
<1>8. \A p \in DOMAIN s : (p = 1 /\ s[p] = start) \/ (p = 2 /\ s[p] = delta)
  <2>1. \A p \in DOMAIN s : p \in 1..Len(s)
    BY <1>7
  <2>2. ASSUME NEW p \in DOMAIN s
        PROVE  p = 1 \/ p = 2
    BY <1>7, <2>1
  <2> QED
    BY <1>7, <2>2
<1>9. s # <<>> /\ Len(s) \in DOMAIN s
  BY <1>7
<1>10. Whole(s, i)
  BY <1>5, <1>7, <1>8, <1>9 DEF Whole
<1>11. \A p \in DOMAIN s : /\ s[p].kind = "other" /\ s[p].item = i
                            /\ s[p].type = IF p = 1 THEN "start" ELSE "delta"
  BY <1>5, <1>8
<1>12. \A before : Left(s, before, i) = "open"
  BY <1>7, <1>9, <1>11 DEF Left, About
<1> QED
  BY <1>1, <1>4, <1>9, <1>10, <1>11, <1>12

\* What is shown of a call that is due.
LEMMA CallFramesWhole ==
  ASSUME NEW c, NEW i \in Calls, ~Discarded(c, i)
  PROVE  /\ CallFrames(c, i) \in FrameSeq \ {<<>>} /\ Whole(CallFrames(c, i), i)
         /\ \A p \in DOMAIN CallFrames(c, i) : CallFrames(c, i)[p].kind = "other"
         /\ \A before : Left(CallFrames(c, i), before, i) = "open"
<1>1. i \in Places
  BY DEF Places
<1>2. CallFrames(c, i) = Started(i, c.calls[i].args \/ ~c.calls[i].name)
  BY DEF CallFrames, Started
<1> QED
  BY <1>1, <1>2, StartedWhole

\* What flush makes of the rectifier and shows the client.
FlushResult(r, c, blocks, spoken, after) ==
  /\ r.out \in AnyBurst /\ r.bad = FALSE /\ r.state \in ChatState
  /\ r.state.calls = c.calls /\ ~r.state.held /\ r.state.terminal = c.terminal
  /\ r.state.flushed <=> c.flushed \/ \E i \in Calls : c.calls[i] # NoCall
  /\ r.out.after = after /\ DOMAIN r.out.blocks = Due(c)
  /\ ThoughtsLead(r.out, spoken) /\ EndLast(r.out)
  /\ spoken \/ Holds(r.out.frames, "text") => r.state.sawText
  /\ ~Holds(r.out.after, "text")
  /\ \A i \in DOMAIN r.out.blocks : ~Holds(r.out.blocks[i], "text")
  /\ \A kind \in {"terminal", "error"} : EndsWith(r.out, kind) <=> after = <<Plain(kind)>>
  /\ (\A i \in Due(c) : blocks[i] = "none") =>
       /\ BlocksFollow(r.out, blocks)
       /\ \A i \in Places : Reached(r.out, blocks, i) = IF i \in Due(c) THEN "open" ELSE blocks[i]

\* A flush sends what was withheld, then every call that is due, then what waits
\* for them.
LEMMA FlushSends ==
  ASSUME NEW c \in ChatState, NEW blocks \in [Places -> {"none", "open", "stopped"}],
         NEW spoken \in BOOLEAN, spoken => c.sawText,
         NEW after \in {<<>>, <<Plain("terminal")>>, <<Plain("error")>>}, NEW r \in Flush(c, after)
  PROVE  FlushResult(r, c, blocks, spoken, after)
<1>1. PICK s \in FlushSplits(c.held) :
        r = Outcome(FlushCalls(FlushThinks(c, s)),
                    Burst(Withheld(c, s), [i \in Due(c) |-> CallFrames(c, i)], after), FALSE)
  BY DEF Flush
<1>2. s \in Splits
  <2>1. Nothing(FALSE) \in Splits
    BY DEF Nothing, Splits
  <2> QED
    BY <1>1, <2>1 DEF FlushSplits
<1> DEFINE frs == Withheld(c, s)
           bls == [i \in Due(c) |-> CallFrames(c, i)]
<1>3. /\ r.state = FlushCalls(FlushThinks(c, s)) /\ r.bad = FALSE
      /\ r.out.frames = frs /\ r.out.blocks = bls /\ r.out.after = after
      /\ r.out = Burst(frs, bls, after)
  BY <1>1 DEF Outcome, Burst
<1>4. Loose(frs, spoken) /\ (Holds(frs, "text") => s.text = "text")
  BY <1>2, WithheldIsLoose
<1>5. /\ Due(c) \subseteq Calls /\ Calls \subseteq Places /\ Calls \subseteq Nat
      /\ \A i \in Due(c) : ~Discarded(c, i)
  BY NativeAssumption DEF Due, Places
<1>6. \A i \in Due(c) :
        /\ bls[i] \in FrameSeq \ {<<>>} /\ Whole(bls[i], i)
        /\ \A p \in DOMAIN bls[i] : bls[i][p].kind = "other"
        /\ \A before : Left(bls[i], before, i) = "open"
  BY <1>5, CallFramesWhole
<1>7. bls \in UNION {[S -> FrameSeq \ {<<>>}] : S \in SUBSET Places}
  BY <1>5, <1>6
<1>8. /\ after \in FrameSeq
      /\ \A p \in DOMAIN after : p = Len(after) /\ after[p].type = "none" /\ Ends(after[p])
      /\ \A kind \in {"terminal", "error"} :
           after # <<>> /\ after[Len(after)].kind = kind <=> after = <<Plain(kind)>>
  <2>1. <<>> \in FrameSeq
    BY SequencesOfFrames
  <2>2. \A kind \in {"terminal", "error"} :
          <<Plain(kind)>> \in FrameSeq /\ Plain(kind).kind = kind /\ Plain(kind).type = "none"
    BY PlainFrames
  <2> QED
    BY <2>1, <2>2 DEF Ends
<1>9. r.out \in AnyBurst
  BY <1>3, <1>4, <1>7, <1>8 DEF AnyBurst, Burst, Loose
<1>10. /\ r.state \in ChatState /\ r.state.calls = c.calls /\ ~r.state.held
       /\ r.state.terminal = c.terminal
       /\ r.state.flushed <=> c.flushed \/ \E i \in Calls : c.calls[i] # NoCall
       /\ r.state.sawText <=> c.sawText \/ s.text = "text"
  <2> DEFINE t == FlushThinks(c, s)
  <2>1. Releases(s) \in Nat
    BY DEF Releases
  <2>2. c.texts + Releases(s) \in Nat /\ (c.sawText \/ s.text = "text") \in BOOLEAN
    BY <2>1 DEF ChatState
  <2>3. /\ t \in ChatState /\ t.calls = c.calls /\ ~t.held /\ t.terminal = c.terminal
        /\ t.flushed = c.flushed /\ t.sawText = (c.sawText \/ s.text = "text")
    BY <2>2 DEF FlushThinks, ChatState
  <2> HIDE DEF t
  <2>4. r.state = [t EXCEPT !.flushed = @ \/ \E i \in Calls : t.calls[i] # NoCall]
    BY <1>3 DEF FlushCalls, t
  <2>5. (t.flushed \/ \E i \in Calls : t.calls[i] # NoCall) \in BOOLEAN
    BY <2>3 DEF ChatState
  <2>6. r.state.flushed = (t.flushed \/ \E i \in Calls : t.calls[i] # NoCall)
    BY <2>3, <2>4 DEF ChatState
  <2>7. /\ r.state \in ChatState /\ r.state.calls = t.calls /\ r.state.held = t.held
        /\ r.state.terminal = t.terminal /\ r.state.sawText = t.sawText
    BY <2>3, <2>4, <2>5 DEF ChatState
  <2> QED
    BY <2>3, <2>6, <2>7
<1> HIDE DEF frs, bls
<1>11. DOMAIN bls = Due(c)
  BY DEF bls
<1>12. ThoughtsLead(r.out, spoken)
  BY <1>3, <1>4, <1>6, <1>8, <1>11 DEF ThoughtsLead, Loose, Shy, Holds, Ends
<1>13. EndLast(r.out)
  BY <1>3, <1>4, <1>6, <1>8, <1>11 DEF EndLast, Loose, Ends
<1>14. ~Holds(r.out.after, "text") /\ \A i \in DOMAIN r.out.blocks : ~Holds(r.out.blocks[i], "text")
  BY <1>3, <1>6, <1>8, <1>11 DEF Holds, Ends
<1>15. ASSUME NEW kind \in {"terminal", "error"}
       PROVE  EndsWith(r.out, kind) <=> after = <<Plain(kind)>>
  <2>1. frs # <<>> => frs[Len(frs)].kind # kind
    <3>1. frs \in Seq(AnyFrame)
      BY <1>4 DEF Loose, FrameSeq
    <3>2. frs # <<>> => Len(frs) \in DOMAIN frs
      BY <3>1
    <3> QED
      BY <1>4, <3>2 DEF Loose
  <2>2. after # <<>> /\ after[Len(after)].kind = kind <=> after = <<Plain(kind)>>
    BY <1>8
  <2> QED
    BY <1>3, <2>1, <2>2 DEF EndsWith
<1>16. ASSUME \A i \in Due(c) : blocks[i] = "none"
       PROVE  /\ BlocksFollow(r.out, blocks)
              /\ \A i \in Places : Reached(r.out, blocks, i) = IF i \in Due(c) THEN "open" ELSE blocks[i]
  <2>1. InOrder(frs, blocks)
    BY <1>4 DEF InOrder, Loose
  <2>2. BlocksFollow(r.out, blocks)
    BY <1>3, <1>4, <1>6, <1>8, <1>11, <1>16, <2>1 DEF BlocksFollow, Loose
  <2>3. ASSUME NEW i
        PROVE  Left(frs, blocks[i], i) = blocks[i]
    <3>1. frs \in Seq(AnyFrame)
      BY <1>4 DEF Loose, FrameSeq
    <3>2. frs # <<>> => Len(frs) \in DOMAIN frs
      BY <3>1
    <3> QED
      BY <1>4, <3>2 DEF Left, About, Loose
  <2> QED
    BY <1>3, <1>6, <1>11, <2>2, <2>3 DEF Reached
<1> QED
  BY <1>3, <1>4, <1>9, <1>10, <1>11, <1>12, <1>13, <1>14, <1>15, <1>16 DEF FlushResult

\* A burst of loose frames disturbs no block and does not end the stream.
LEMMA OnlyLoose ==
  ASSUME NEW s, NEW spoken \in BOOLEAN, Loose(s, spoken), NEW blocks
  PROVE  /\ Only(s) \in AnyBurst /\ Only(s).frames = s /\ DOMAIN Only(s).blocks = {}
         /\ Only(s).after = <<>>
         /\ BlocksFollow(Only(s), blocks) /\ ThoughtsLead(Only(s), spoken) /\ EndLast(Only(s))
         /\ ~EndComes(Only(s)) /\ ~Holds(Only(s).after, "text")
         /\ \A i : Reached(Only(s), blocks, i) = blocks[i]
<1>1. s \in FrameSeq /\ Shy(s, spoken) /\ s \in Seq(AnyFrame)
      /\ \A p \in DOMAIN s : s[p].type = "none" /\ s[p].kind \in {"thought", "text", "other"}
  BY DEF Loose, FrameSeq
<1>2. /\ Only(s) \in AnyBurst /\ Only(s).frames = s /\ DOMAIN Only(s).blocks = {}
      /\ Only(s).after = <<>>
  BY <1>1, OnlyParts
<1>3. s # <<>> => Len(s) \in DOMAIN s
  BY <1>1
<1> HIDE DEF Only
<1>4. BlocksFollow(Only(s), blocks)
  BY <1>1, <1>2 DEF BlocksFollow, InOrder
<1>5. ThoughtsLead(Only(s), spoken) /\ ~Holds(Only(s).after, "text")
  BY <1>1, <1>2 DEF ThoughtsLead, Holds
<1>6. EndLast(Only(s)) /\ ~EndComes(Only(s))
  BY <1>1, <1>2, <1>3 DEF EndLast, Ends, EndComes, EndsWith
<1>7. \A i : Reached(Only(s), blocks, i) = blocks[i]
  BY <1>1, <1>2, <1>3 DEF Reached, Left, About
<1> QED
  BY <1>2, <1>4, <1>5, <1>6, <1>7

\* A piece of a call is kept, and nothing else.
LEMMA ObserveKeeps ==
  ASSUME NEW c \in ChatState, NEW piece \in Piece \cup {NoPiece}
  PROVE  /\ Observe(c, piece) \in ChatState
         /\ Observe(c, piece).terminal = c.terminal /\ Observe(c, piece).flushed = c.flushed
         /\ Observe(c, piece).sawText = c.sawText
<1>1. CASE ~piece.present
  BY <1>1 DEF Observe
<1>2. CASE piece.present
  <2>1. piece \in Piece
    BY <1>2 DEF NoPiece
  <2> DEFINE old == c.calls[piece.index]
             new == [id |-> old.id \/ piece.id, name |-> old.name \/ piece.name, args |-> old.args \/ piece.args]
             all == [c.calls EXCEPT ![piece.index] = new]
  <2>2. piece.index \in Calls /\ c.calls \in [Calls -> Flags] /\ new \in Flags
    BY <2>1 DEF Piece, ChatState, Flags
  <2>3. Observe(c, piece) = [c EXCEPT !.calls = all]
    BY <1>2, <2>2 DEF Observe
  <2> HIDE DEF new
  <2>4. all \in [Calls -> Flags]
    BY <2>2
  <2> HIDE DEF all
  <2> QED
    BY <2>3, <2>4 DEF ChatState
<1> QED
  BY <1>1, <1>2

\* What a chunk brings, after the splitter.
LEMMA MergedParts ==
  ASSUME NEW c \in ChatState, NEW f \in ChatFrame, NEW s \in Merged(c, f)
  PROVE  /\ s.thought \in BOOLEAN /\ s.text \in {"none", "blank", "text"} /\ s.held \in BOOLEAN
         /\ s.texts \in Nat
<1>1. \A held \in BOOLEAN : Nothing(held) \in Splits
  BY DEF Nothing, Splits
<1>2. FeedSplits(c, f.content) \subseteq Splits
  BY <1>1 DEF FeedSplits, ChatState
<1>3. \A held : FlushSplits(held) \subseteq Splits
  BY <1>1 DEF FlushSplits
<1>4. \A split \in Splits : Releases(split) \in Nat
  BY DEF Releases
<1>5. PICK fed \in FeedSplits(c, f.content) :
        s \in IF f.finish \/ f.call.present
              THEN {[thought |-> f.thought \/ fed.thought \/ h.thought, text |-> h.text, held |-> FALSE,
                     texts |-> Releases(fed) + Releases(h)] : h \in FlushSplits(fed.held)}
              ELSE {[thought |-> f.thought \/ fed.thought, text |-> fed.text, held |-> fed.held,
                     texts |-> Releases(fed)]}
  BY DEF Merged
<1>6. fed \in Splits
  BY <1>2, <1>5
<1>7. CASE f.finish \/ f.call.present
  <2>1. PICK h \in FlushSplits(fed.held) :
          s = [thought |-> f.thought \/ fed.thought \/ h.thought, text |-> h.text, held |-> FALSE,
               texts |-> Releases(fed) + Releases(h)]
    BY <1>5, <1>7
  <2>2. h \in Splits
    BY <1>3, <2>1
  <2>3. Releases(fed) + Releases(h) \in Nat
    BY <1>4, <1>6, <2>2
  <2> QED
    BY <2>1, <2>2, <2>3 DEF Splits
<1>8. CASE ~(f.finish \/ f.call.present)
  <2>1. s = [thought |-> f.thought \/ fed.thought, text |-> fed.text, held |-> fed.held,
             texts |-> Releases(fed)]
    BY <1>5, <1>8
  <2> QED
    BY <1>4, <1>6, <2>1 DEF Splits
<1> QED
  BY <1>7, <1>8

\* What comes of a chunk: loose frames, and neither a flush nor an end.
LooseResult(r, c, spoken) ==
  /\ r.out = Only(r.out.frames) /\ Loose(r.out.frames, spoken)
  /\ spoken \/ Holds(r.out.frames, "text") => r.state.sawText
  /\ r.state \in ChatState /\ r.state.terminal = c.terminal /\ r.state.flushed = c.flushed
  /\ r = Outcome(r.state, r.out, r.bad) /\ r.bad \in BOOLEAN

\* A result that sends loose frames only.
LEMMA LooseOutcome ==
  ASSUME NEW spoken \in BOOLEAN, NEW s, Loose(s, spoken), NEW c \in ChatState, NEW d \in ChatState,
         spoken \/ Holds(s, "text") => d.sawText,
         d.terminal = c.terminal, d.flushed = c.flushed, NEW bad \in BOOLEAN
  PROVE  LooseResult(Outcome(d, Only(s), bad), c, spoken)
<1>1. Only(s).frames = s
  BY DEF Only, Burst
<1>2. /\ Outcome(d, Only(s), bad).out = Only(s) /\ Outcome(d, Only(s), bad).state = d
      /\ Outcome(d, Only(s), bad).bad = bad
  BY DEF Outcome
<1> DEFINE r == Outcome(d, Only(s), bad)
<1>3. r = Outcome(r.state, r.out, r.bad)
  BY <1>2
<1> HIDE DEF r
<1> QED
  BY <1>1, <1>2, <1>3 DEF LooseResult, r

\* What is passed on of a chunk is loose.
LEMMA PassedIsLoose ==
  ASSUME NEW c \in ChatState, NEW thought, NEW text, NEW finish, NEW r \in Passed(c, thought, text, finish),
         NEW spoken \in BOOLEAN, spoken => c.sawText
  PROVE  LooseResult(r, c, spoken)
<1> DEFINE spoke == [c EXCEPT !.sawText = TRUE]
<1>1. spoke \in ChatState /\ spoke.terminal = c.terminal /\ spoke.flushed = c.flushed
      /\ spoke.calls = c.calls /\ spoke.sawText
  BY DEF ChatState
<1>2. Gated(c, thought) = <<>> \/ (Gated(c, thought) = <<Thought>> /\ ~spoken)
  BY DEF Gated
<1>3. <<Plain("text")>> \in Seq(AnyFrame)
  BY PlainFrames
<1>4. CASE text = "text"
  <2> DEFINE s == Gated(c, thought) \o <<Plain("text")>>
  <2>1. r = Outcome(spoke, Only(s), FALSE)
    BY <1>4 DEF Passed, Gives
  <2>2. Loose(s, spoken)
    BY <1>2, <1>3, EmptyConcat, LooseFrames
  <2> HIDE DEF s, spoke
  <2> QED
    BY <1>1, <2>1, <2>2, LooseOutcome
<1>5. CASE text # "text"
  <2>1. \/ r = Outcome(c, Only(<<Thought>>), FALSE) /\ ~c.sawText
        \/ r = Outcome(c, Only(<<Plain("other")>>), FALSE)
        \/ r = Outcome(c, Only(<<>>), FALSE)
    BY <1>5 DEF Passed, Gives, Quiet
  <2>2. ASSUME NEW s, Loose(s, spoken), ~Holds(s, "text")
        PROVE  LooseResult(Outcome(c, Only(s), FALSE), c, spoken)
    BY <2>2, LooseOutcome
  <2>3. /\ ~c.sawText => Loose(<<Thought>>, spoken)
        /\ Loose(<<Plain("other")>>, spoken) /\ Loose(<<>>, spoken)
        /\ ~Holds(<<Thought>>, "text") /\ ~Holds(<<Plain("other")>>, "text") /\ ~Holds(<<>>, "text")
    BY LooseFrames
  <2> QED
    BY <2>1, <2>2, <2>3
<1> QED
  BY <1>4, <1>5

\* A chunk brings loose frames, and notes of the calls what it has of them.
LEMMA ChunkIsLoose ==
  ASSUME NEW c \in ChatState, NEW f \in ChatFrame, NEW r \in IngestChunk(c, f),
         NEW spoken \in BOOLEAN, spoken => c.sawText
  PROVE  LooseResult(r, c, spoken)
<1>1. PICK m \in Merged(c, f) :
        r \in Passed(Observe([c EXCEPT !.stopped = @ \/ f.finish, !.held = m.held, !.texts = @ + m.texts],
                             f.call), m.thought, m.text, f.finish)
  BY DEF IngestChunk
<1> DEFINE d == [c EXCEPT !.stopped = @ \/ f.finish, !.held = m.held, !.texts = @ + m.texts]
           o == Observe(d, f.call)
<1>2. m.held \in BOOLEAN /\ c.texts + m.texts \in Nat /\ (c.stopped \/ f.finish) \in BOOLEAN
  BY <1>1, MergedParts DEF ChatState
<1>3. d \in ChatState /\ d.terminal = c.terminal /\ d.flushed = c.flushed /\ d.sawText = c.sawText
  BY <1>2 DEF ChatState
<1>4. f.call \in Piece \cup {NoPiece}
  BY DEF ChatFrame
<1> HIDE DEF d
<1>5. o \in ChatState /\ o.terminal = c.terminal /\ o.flushed = c.flushed /\ o.sawText = c.sawText
  BY <1>3, <1>4, ObserveKeeps
<1>6. r \in Passed(o, m.thought, m.text, f.finish)
  BY <1>1 DEF d
<1> HIDE DEF o
<1>7. spoken => o.sawText
  BY <1>5
<1>8. LooseResult(r, o, spoken)
  BY <1>5, <1>6, <1>7, PassedIsLoose
<1> QED
  BY <1>5, <1>8 DEF LooseResult

\* A chunk that is refused gives no more than its reasoning.
LEMMA RefusedIsLoose ==
  ASSUME NEW c \in ChatState, NEW spoken \in BOOLEAN, NEW r, LooseResult(r, c, spoken)
  PROVE  LooseResult(Refused(r), c, spoken)
<1> DEFINE s == r.out.frames
<1>1. s \in FrameSeq /\ s \in Seq(AnyFrame) /\ Loose(s, spoken)
  BY DEF LooseResult, Loose, FrameSeq
<1>2. CASE s = <<>>
  BY <1>2 DEF Refused
<1>3. CASE s # <<>>
  <2> DEFINE t == WithoutLast(s)
  <2>1. Len(s) \in Nat /\ Len(s) > 0
    <3> HIDE DEF s
    <3> QED
      BY <1>1, <1>3
  <2>2. /\ t \in Seq(AnyFrame) /\ DOMAIN t = 1..(Len(s) - 1)
        /\ \A p \in DOMAIN t : p \in DOMAIN s /\ t[p] = s[p]
    <3> HIDE DEF s
    <3> QED
      BY <1>1, <2>1 DEF WithoutLast
  <2> HIDE DEF t
  <2>3. t \in FrameSeq
    BY <1>1, <2>2 DEF FrameSeq
  <2>4. Shy(t, spoken)
    <3> SUFFICES ASSUME NEW p \in DOMAIN t, t[p].kind = "thought"
                 PROVE  ~spoken /\ \A q \in 1..(p - 1) : t[q].kind # "text"
      BY DEF Shy
    <3>1. ~spoken /\ \A q \in 1..(p - 1) : s[q].kind # "text"
      BY <1>1, <2>2 DEF Loose, Shy
    <3>2. \A q \in 1..(p - 1) : q \in DOMAIN t
      BY <2>1, <2>2
    <3> QED
      BY <2>2, <3>1, <3>2
  <2>5. Loose(t, spoken) /\ (Holds(t, "text") => Holds(s, "text"))
    BY <1>1, <2>2, <2>3, <2>4 DEF Loose, Holds
  <2>6. Refused(r) = [r EXCEPT !.out = Only(t), !.bad = TRUE]
    BY <1>3 DEF Refused, t
  <2>7. r = Outcome(r.state, r.out, r.bad)
    BY DEF LooseResult
  <2>8. Refused(r) = Outcome(r.state, Only(t), TRUE)
    BY <2>6, <2>7 DEF Outcome
  <2>9. /\ r.state \in ChatState /\ r.state.terminal = c.terminal /\ r.state.flushed = c.flushed
        /\ spoken \/ Holds(t, "text") => r.state.sawText
    BY <2>5 DEF LooseResult
  <2> QED
    BY <2>5, <2>8, <2>9, LooseOutcome
<1> QED
  BY <1>2, <1>3

\* A frame of a Chat Completions stream.
LEMMA TakeChatIInv == ASSUME IInv, NEW f \in ChatFrames, TakeChat(f) PROVE IInv'
<1>1. /\ Reading /\ protocol = "chat" /\ frames' = frames + 1
      /\ UNCHANGED <<protocol, client, live, phase, over, failed, fired, afterEnd>>
  BY DEF TakeChat, Take
<1>2. PICK r \in HandleChat(state, f) :
        state' = r.state /\ out' = Settled(r.out) /\ outcome' = IF r.bad THEN "bad" ELSE "ok"
  BY DEF TakeChat, Take, Runs
<1>3. /\ state \in ChatState /\ f \in ChatFrame /\ frames' \in Nat /\ client.spoken \in BOOLEAN
      /\ client.blocks \in [Places -> {"none", "open", "stopped"}]
      /\ client.spoken => state.sawText
      /\ ~state.terminal /\ phase = "scanning" /\ Scans /\ Read
  BY <1>1, ReadingFacts, NativeAssumption DEF IInv, Typed
<1>4. ~state.flushed
  BY <1>1, <1>3 DEF IInv, ChatInv
<1>5. Calls \subseteq Places /\ \A i \in Calls : client.blocks[i] = "none"
  BY <1>1, <1>3, <1>4, ReadingFacts DEF IInv, ChatInv, Places
<1> DEFINE Sound ==
      /\ r.out \in AnyBurst /\ r.bad \in BOOLEAN /\ r.state \in ChatState
      /\ BlocksFollow(r.out, client.blocks) /\ ThoughtsLead(r.out, client.spoken) /\ EndLast(r.out)
      /\ client.spoken \/ Holds(r.out.frames, "text") => r.state.sawText
      /\ ~Holds(r.out.after, "text")
      /\ \A i \in DOMAIN r.out.blocks : ~Holds(r.out.blocks[i], "text")
      /\ r.state.terminal <=> EndComes(r.out)
      /\ r.state.terminal => ~r.bad
      /\ r.state.flushed => r.state.terminal
      /\ ~r.state.flushed => \A i \in Calls : Reached(r.out, client.blocks, i) = "none"
      /\ r.state.flushed =>
           \A i \in Calls : Discarded(r.state, i) \/ Reached(r.out, client.blocks, i) # "none"
      /\ r.state.terminal =>
           (~r.state.held /\ \A i \in Calls : r.state.flushed \/ r.state.calls[i] = NoCall)
             \/ EndsWith(r.out, "error")
<1>6. ASSUME LooseResult(r, state, client.spoken)
      PROVE  Sound
  <2> DEFINE s == r.out.frames
  <2>1. /\ Loose(s, client.spoken) /\ r.out = Only(s) /\ r.bad \in BOOLEAN /\ r.state \in ChatState
        /\ client.spoken \/ Holds(s, "text") => r.state.sawText
        /\ ~r.state.terminal /\ ~r.state.flushed
    BY <1>3, <1>4, <1>6 DEF LooseResult
  <2>2. /\ Only(s) \in AnyBurst /\ Only(s).frames = s /\ DOMAIN Only(s).blocks = {}
        /\ BlocksFollow(Only(s), client.blocks) /\ ThoughtsLead(Only(s), client.spoken)
        /\ EndLast(Only(s)) /\ ~EndComes(Only(s)) /\ ~Holds(Only(s).after, "text")
        /\ \A i : Reached(Only(s), client.blocks, i) = client.blocks[i]
    BY <1>3, <2>1, OnlyLoose
  <2> HIDE DEF Only, s
  <2> QED
    BY <1>5, <2>1, <2>2
<1>7. ASSUME f.type \in {"chunk", "invalid"}
      PROVE  Sound
  <2>1. PICK q \in IngestChunk(state, f) : r = q \/ r = Refused(q)
    BY <1>2, <1>7 DEF HandleChat
  <2>2. LooseResult(q, state, client.spoken)
    BY <1>3, ChunkIsLoose
  <2> HIDE DEF Sound
  <2> QED
    BY <1>3, <1>6, <2>1, <2>2, RefusedIsLoose
<1>8. ASSUME f.type = "garbled"
      PROVE  Sound
  <2>1. r = Outcome(state, Only(<<>>), TRUE)
    BY <1>2, <1>8 DEF HandleChat, Fails
  <2>2. Loose(<<>>, client.spoken) /\ ~Holds(<<>>, "text")
    BY <1>3, LooseFrames
  <2>3. LooseResult(r, state, client.spoken)
    BY <1>3, <2>1, <2>2, LooseOutcome
  <2> HIDE DEF Sound
  <2> QED
    BY <1>6, <2>3
<1>9. ASSUME f.type \in {"done", "error"}
      PROVE  Sound
  <2> DEFINE kind == IF f.type = "done" THEN "terminal" ELSE "error"
             after == <<Plain(kind)>>
             c == [state EXCEPT !.stopped = TRUE]
  <2>1. kind \in {"terminal", "error"} /\ r \in Ending(state, Plain(kind))
    BY <1>2, <1>9 DEF HandleChat
  <2>2. PICK q \in Flush(c, after) : r = [q EXCEPT !.state = [@ EXCEPT !.terminal = TRUE]]
    BY <2>1 DEF Ending
  <2>3. /\ c \in ChatState /\ c.calls = state.calls /\ c.flushed = state.flushed
        /\ c.sawText = state.sawText
    BY <1>3 DEF ChatState
  <2> HIDE DEF c, kind
  <2>4. Due(c) \subseteq Calls
    BY DEF Due
  <2>5. \A i \in Due(c) : client.blocks[i] = "none"
    BY <1>5, <2>4
  <2>6. after \in {<<>>, <<Plain("terminal")>>, <<Plain("error")>>}
    BY <2>1
  <2> HIDE DEF after
  <2>15. client.spoken => c.sawText
    BY <1>3, <2>3
  <2>16. FlushResult(q, c, client.blocks, client.spoken, after)
    BY <1>3, <2>2, <2>3, <2>6, <2>15, FlushSends
  <2>7. /\ q.out \in AnyBurst /\ q.bad = FALSE /\ q.state \in ChatState
        /\ q.state.calls = c.calls /\ ~q.state.held
        /\ q.state.flushed <=> c.flushed \/ \E i \in Calls : c.calls[i] # NoCall
        /\ ThoughtsLead(q.out, client.spoken) /\ EndLast(q.out)
        /\ client.spoken \/ Holds(q.out.frames, "text") => q.state.sawText
        /\ ~Holds(q.out.after, "text")
        /\ \A i \in DOMAIN q.out.blocks : ~Holds(q.out.blocks[i], "text")
        /\ \A k \in {"terminal", "error"} : EndsWith(q.out, k) <=> after = <<Plain(k)>>
        /\ BlocksFollow(q.out, client.blocks)
        /\ \A i \in Places :
             Reached(q.out, client.blocks, i) = IF i \in Due(c) THEN "open" ELSE client.blocks[i]
    BY <2>5, <2>16 DEF FlushResult
  <2>8. q = Outcome(q.state, q.out, q.bad)
    <3>1. PICK a, b, d : q = Outcome(a, b, d)
      BY <2>2 DEF Flush
    <3> QED
      BY <3>1 DEF Outcome
  <2> DEFINE t == [q.state EXCEPT !.terminal = TRUE]
  <2>9. r.out = q.out /\ r.bad = q.bad /\ r.state = t
    BY <2>2, <2>8 DEF Outcome
  <2>10. /\ t \in ChatState /\ t.terminal /\ t.calls = q.state.calls /\ t.held = q.state.held
         /\ t.flushed = q.state.flushed /\ t.sawText = q.state.sawText
    BY <2>7 DEF ChatState
  <2> HIDE DEF t
  <2>11. EndComes(r.out)
    BY <2>1, <2>7, <2>9 DEF EndComes, after
  <2>12. ASSUME ~r.state.flushed, NEW i \in Calls
         PROVE  Reached(r.out, client.blocks, i) = "none"
    <3>1. c.calls[i] = NoCall
      BY <2>7, <2>9, <2>10, <2>12
    <3>2. i \notin Due(c)
      BY <3>1 DEF Due, Discarded
    <3> QED
      BY <1>5, <2>7, <2>9, <3>2
  <2>13. ASSUME NEW i \in Calls
         PROVE  Discarded(r.state, i) \/ Reached(r.out, client.blocks, i) # "none"
    <3>1. Discarded(r.state, i) <=> Discarded(c, i)
      BY <2>7, <2>9, <2>10 DEF Discarded
    <3>2. ~Discarded(c, i) => i \in Due(c)
      BY <1>4, <2>3 DEF Due
    <3> QED
      BY <1>5, <2>7, <2>9, <3>1, <3>2
  <2>14. \A i \in Calls : r.state.flushed \/ r.state.calls[i] = NoCall
    BY <2>7, <2>9, <2>10
  <2> QED
    BY <2>7, <2>9, <2>10, <2>11, <2>12, <2>13, <2>14
<1>10. ASSUME f.type = "exhausted"
       PROVE  Sound
  <2> DEFINE c == [state EXCEPT !.terminal = TRUE, !.stopped = TRUE]
             s == <<Plain("error")>>
  <2>1. r = Outcome(c, Only(s), FALSE)
    BY <1>2, <1>10 DEF HandleChat, Gives
  <2>2. r.out = Only(s) /\ r.bad = FALSE /\ r.state = c
    BY <2>1 DEF Outcome
  <2>3. /\ c \in ChatState /\ c.terminal /\ c.flushed = state.flushed /\ c.sawText = state.sawText
    BY <1>3 DEF ChatState
  <2> HIDE DEF c
  <2>4. s \in FrameSeq /\ DOMAIN s = {1} /\ s # <<>> /\ Len(s) = 1
        /\ s[1].kind = "error" /\ s[1].type = "none"
    BY PlainFrames
  <2> HIDE DEF s
  <2>5. /\ Only(s) \in AnyBurst /\ Only(s).frames = s /\ DOMAIN Only(s).blocks = {}
        /\ Only(s).after = <<>>
    BY <2>4, OnlyParts
  <2> HIDE DEF Only
  <2>6. BlocksFollow(Only(s), client.blocks)
    BY <2>4, <2>5 DEF BlocksFollow, InOrder
  <2>7. ThoughtsLead(Only(s), client.spoken) /\ ~Holds(s, "text") /\ ~Holds(Only(s).after, "text")
    BY <2>4, <2>5 DEF ThoughtsLead, Shy, Holds
  <2>8. EndLast(Only(s)) /\ EndsWith(Only(s), "error") /\ EndComes(Only(s))
    <3>1. \A p \in DOMAIN <<>> : FALSE
      OBVIOUS
    <3>2. EndLast(Only(s))
      BY <2>4, <2>5, <3>1 DEF EndLast
    <3>3. s[Len(s)].kind = "error"
      BY <2>4
    <3>4. EndsWith(Only(s), "error")
      BY <2>4, <2>5, <3>3 DEF EndsWith
    <3> QED
      BY <3>2, <3>4 DEF EndComes
  <2>9. \A i \in Calls : Reached(Only(s), client.blocks, i) = client.blocks[i]
    BY <2>4, <2>5 DEF Reached, Left, About
  <2> QED
    BY <1>3, <1>4, <1>5, <2>2, <2>3, <2>5, <2>6, <2>7, <2>8, <2>9
<1>11. Sound
  BY <1>3, <1>7, <1>8, <1>9, <1>10 DEF ChatFrame
<1>12. /\ Typed' /\ Orderly' /\ EndInv' /\ BurstInv' /\ TextNoted' /\ AtOnceInv'
       /\ BlocksInOrder' /\ CallsReported' /\ EndStands'
       /\ \A i : Reached(out', client'.blocks, i) = Reached(r.out, client.blocks, i)
       /\ phase' = "scanning" /\ client' = client /\ client.phase = "open" /\ failed' = "none"
       /\ \A kind \in {"terminal", "error"} : EndsWith(out', kind) <=> EndsWith(r.out, kind)
  <2>1. r.state.terminal \in BOOLEAN
    BY <1>11 DEF ChatState
  <2> QED
    BY <1>1, <1>2, <1>3, <1>11, <2>1, TakenKeeps
<1>13. ChatInv'
  BY <1>2, <1>11, <1>12 DEF ChatInv, FlushedOut
<1>14. MessagesInv'
  BY <1>1 DEF MessagesInv
<1> QED
  BY <1>12, <1>13, <1>14 DEF IInv

\* When all was flushed, another flush shows nothing.
LEMMA FlushesNothing ==
  ASSUME NEW c \in ChatState, ~c.held, c.flushed \/ \A i \in Calls : c.calls[i] = NoCall,
         NEW r \in Flush(c, <<>>), r.out \in AnyBurst
  PROVE  Settled(r.out).frames = <<>>
<1>1. PICK s \in FlushSplits(c.held) :
        r = Outcome(FlushCalls(FlushThinks(c, s)),
                    Burst(Withheld(c, s), [i \in Due(c) |-> CallFrames(c, i)], <<>>), FALSE)
  BY DEF Flush
<1>2. s = Nothing(FALSE)
  BY <1>1 DEF FlushSplits
<1>3. Withheld(c, s) = <<>>
  <2>1. Gated(c, s.thought) = <<>> /\ s.text = "none"
    BY <1>2 DEF Gated, Nothing
  <2> QED
    BY <2>1, EmptyConcat DEF Withheld
<1>4. Due(c) = {}
  BY DEF Due, Discarded
<1> DEFINE bls == [i \in Due(c) |-> CallFrames(c, i)]
<1>5. r.out.frames = <<>> /\ r.out.blocks = bls /\ r.out.after = <<>> /\ DOMAIN bls = {}
  BY <1>1, <1>3, <1>4 DEF Outcome, Burst
<1> HIDE DEF bls
<1> QED
  BY <1>5, SettledParts

\* The last flush, after the scan.
LEMMA FlushIInv ==
  ASSUME IInv, phase = "scanning", over, protocol = "chat", phase' = "flushing",
         NEW r \in Flush(state, <<>>),
         state' = r.state, out' = Settled(r.out), outcome' = IF r.bad THEN "bad" ELSE "ok",
         UNCHANGED <<protocol, client, live, over, failed, fired, frames, afterEnd>>
  PROVE  IInv'
<1>1. /\ state \in ChatState /\ outcome = "none" /\ out = Only(<<>>) /\ Scans /\ Answering
      /\ client.phase \in {"open", "closed"}
      /\ client.blocks \in [Places -> {"none", "open", "stopped"}] /\ client.spoken \in BOOLEAN
  BY DEF IInv, Typed, Orderly, Scans, Answering
<1>2. Scans' /\ Answering' /\ (Read' <=> Read) /\ Calls \subseteq Places
  BY DEF Scans, Answering, Read, Places
<1>3. ~EndComes(out) /\ ~EndsWith(out, "error") /\ \A i : Reached(out, client.blocks, i) = client.blocks[i]
  BY <1>1, EmptyBurst DEF EndComes
<1> DEFINE none == [i \in Places |-> "none"]
           spoken == client.phase = "open" /\ client.spoken
<1>4. /\ none \in [Places -> {"none", "open", "stopped"}] /\ \A i \in Due(state) : none[i] = "none"
      /\ spoken \in BOOLEAN /\ (spoken => state.sawText)
  BY <1>1, <1>2 DEF Due, IInv, TextNoted
<1> HIDE DEF none, spoken
<1>5. FlushResult(r, state, none, spoken, <<>>) /\ FlushResult(r, state, client.blocks, spoken, <<>>)
  BY <1>1, <1>4, FlushSends
<1>6. /\ r.out \in AnyBurst /\ r.bad = FALSE /\ r.state \in ChatState
      /\ r.state.calls = state.calls /\ ~r.state.held /\ r.state.terminal = state.terminal
      /\ r.state.flushed <=> state.flushed \/ \E i \in Calls : state.calls[i] # NoCall
      /\ ThoughtsLead(r.out, spoken) /\ EndLast(r.out)
      /\ spoken \/ Holds(r.out.frames, "text") => r.state.sawText
      /\ ~Holds(r.out.after, "text")
      /\ \A i \in DOMAIN r.out.blocks : ~Holds(r.out.blocks[i], "text")
      /\ BlocksFollow(r.out, none)
  BY <1>4, <1>5 DEF FlushResult
<1>7. \A kind \in {"terminal", "error"} : ~EndsWith(r.out, kind)
  <2>1. \A kind : <<>> # <<Plain(kind)>>
    OBVIOUS
  <2> QED
    BY <1>5, <2>1 DEF FlushResult
<1>8. /\ out' \in AnyBurst /\ Ready(out') /\ ThoughtsLead(out', spoken) /\ EndLast(out')
      /\ ~Holds(out'.after, "text")
      /\ Holds(out'.frames, "text") => Holds(r.out.frames, "text")
      /\ \A i \in DOMAIN out'.blocks : ~Holds(out'.blocks[i], "text")
      /\ ~EndComes(out')
  BY <1>6, <1>7, SettledTyped, SettledReady, SettledLeads, SettledEnds DEF EndComes
<1>9. Read => /\ BlocksFollow(out', client.blocks)
              /\ \A i \in Places :
                   Reached(out', client.blocks, i) = IF i \in Due(state) THEN "open" ELSE client.blocks[i]
  <2> SUFFICES ASSUME Read
               PROVE  /\ BlocksFollow(out', client.blocks)
                      /\ \A i \in Places : Reached(out', client.blocks, i)
                           = IF i \in Due(state) THEN "open" ELSE client.blocks[i]
    OBVIOUS
  <2>1. \A i \in Due(state) : client.blocks[i] = "none"
    BY <1>1, <1>3 DEF IInv, ChatInv, Due
  <2>2. /\ BlocksFollow(r.out, client.blocks)
        /\ \A i \in Places :
             Reached(r.out, client.blocks, i) = IF i \in Due(state) THEN "open" ELSE client.blocks[i]
    BY <1>5, <2>1 DEF FlushResult
  <2> QED
    BY <1>6, <2>2, SettledFollows, SettledReached
<1>10. Typed'
  BY <1>6, <1>8 DEF IInv, Typed
<1>11. Orderly'
  BY <1>1, <1>6 DEF IInv, Orderly
<1>12. state.terminal => failed # "upstream" /\ (failed = "write" \/ client.phase = "closed")
  BY <1>1, <1>3 DEF IInv, EndInv
<1>13. EndInv'
  BY <1>1, <1>2, <1>6, <1>8, <1>12 DEF IInv, EndInv
<1>14. client.phase = "closed" /\ out'.frames # <<>> => client.last = "error"
  <2> SUFFICES ASSUME client.phase = "closed", out'.frames # <<>>
               PROVE  client.last = "error"
    OBVIOUS
  <2>1. state.terminal /\ failed # "write"
    BY <1>1 DEF IInv, EndInv
  <2>2. ~FlushedOut
    BY <1>1, <1>6, FlushesNothing DEF FlushedOut
  <2> QED
    BY <1>1, <1>3, <2>1, <2>2 DEF IInv, ChatInv
<1>15. BurstInv'
  <2>1. Read => spoken = client.spoken
    BY <1>1 DEF Read, spoken
  <2> QED
    BY <1>2, <1>8, <1>9, <1>14, <2>1 DEF BurstInv
<1>16. TextNoted'
  <2>1. client.phase = "open" => spoken = client.spoken
    BY <1>1 DEF spoken
  <2> QED
    BY <1>6, <1>8, <2>1 DEF TextNoted
<1>17. ChatInv'
  <2>1. FlushedOut'
    BY <1>6 DEF FlushedOut
  <2>2. ASSUME Read, ~r.state.flushed, NEW i \in Calls
        PROVE  Reached(out', client.blocks, i) = "none"
    <3>1. ~state.flushed /\ state.calls[i] = NoCall
      BY <1>6, <2>2
    <3>2. i \notin Due(state) /\ client.blocks[i] = "none"
      BY <1>1, <1>3, <2>2, <3>1 DEF Due, Discarded, IInv, ChatInv
    <3> QED
      BY <1>2, <1>9, <2>2, <3>2
  <2>3. ASSUME Read, r.state.flushed, NEW i \in Calls, ~Discarded(r.state, i)
        PROVE  Reached(out', client.blocks, i) # "none"
    <3>1. ~Discarded(state, i)
      BY <1>6, <2>3 DEF Discarded
    <3>2. i \in Due(state) \/ client.blocks[i] # "none"
      BY <1>1, <1>3, <2>3, <3>1 DEF Due, IInv, ChatInv
    <3> QED
      BY <1>2, <1>9, <2>3, <3>2
  <2> QED
    BY <1>2, <2>1, <2>2, <2>3 DEF ChatInv
<1>18. MessagesInv' /\ AtOnceInv'
  BY DEF MessagesInv, AtOnceInv
<1>19. BlocksInOrder' /\ EndStands'
  BY DEF IInv, BlocksInOrder, EndStands
<1>20. CallsReported'
  BY <1>1, <1>6 DEF IInv, CallsReported, Shown, Discarded
<1> QED
  BY <1>10, <1>11, <1>13, <1>15, <1>16, <1>17, <1>18, <1>19, <1>20 DEF IInv

\* The scan is over.
LEMMA FinishIInv == ASSUME IInv, Finish PROVE IInv'
<1>1. /\ phase = "scanning" /\ over
      /\ UNCHANGED <<protocol, client, live, over, failed, fired, frames, afterEnd>>
  BY DEF Finish
<1>2. CASE protocol = "chat"
  <2>1. phase' = "flushing" /\ Runs(Flush(state, <<>>))
    BY <1>2 DEF Finish, LastFlush
  <2>2. PICK r \in Flush(state, <<>>) :
          state' = r.state /\ out' = Settled(r.out) /\ outcome' = IF r.bad THEN "bad" ELSE "ok"
    BY <2>1 DEF Runs
  <2> QED
    BY <1>1, <1>2, <2>1, <2>2, FlushIInv
<1>3. CASE protocol = "messages"
  <2>1. phase' = "judging" /\ UNCHANGED <<state, out, outcome>> /\ outcome = "none" /\ out = Only(<<>>)
    BY <1>1, <1>3 DEF Finish, IInv, Orderly
  <2>2. Answering /\ Scans /\ Answering' /\ Scans' /\ (Read' <=> Read)
    BY <1>1, <2>1 DEF Answering, Scans, Read
  <2>3. Typed'
    BY <1>1, <2>1 DEF IInv, Typed
  <2>4. Orderly'
    BY <1>1, <2>1, <2>2 DEF IInv, Orderly
  <2>5. EndInv' /\ BurstInv' /\ TextNoted'
    BY <1>1, <2>1, <2>2, EmptyBurst DEF IInv, EndInv, BurstInv, TextNoted
  <2>6. ChatInv' /\ AtOnceInv'
    BY <1>1, <1>3, <2>1 DEF ChatInv, AtOnceInv
  <2>7. MessagesInv'
    BY <1>1, <2>1, <2>2 DEF IInv, MessagesInv
  <2>8. BlocksInOrder' /\ CallsReported' /\ EndStands'
    BY <1>1, <2>1 DEF IInv, BlocksInOrder, CallsReported, EndStands, Shown
  <2> QED
    BY <2>3, <2>4, <2>5, <2>6, <2>7, <2>8 DEF IInv
<1> QED
  BY <1>2, <1>3 DEF IInv, Typed

-----------------------------------------------------------------------------
(* Answers that come at once.                                              *)

\* An answer that comes at once is one burst, which ends the stream.
LEMMA AtOnceIInv ==
  ASSUME IInv, NEW answered, NEW replay, AnswerBuffered(answered, replay),
         UNCHANGED protocol, replay \in AnyBurst,
         protocol = "chat" => answered \in ChatState,
         protocol = "messages" => answered \in MessagesState,
         answered.terminal = TRUE,
         BlocksFollow(replay, client.blocks), ThoughtsLead(replay, FALSE), EndLast(replay),
         ~Holds(replay.after, "text"), EndComes(replay),
         \A i \in Places : Demands(i)' => Reached(replay, client.blocks, i) # "none"
  PROVE  IInv'
<1>1. /\ phase = "starting" /\ phase' = "buffered" /\ client' = [client EXCEPT !.phase = "open"]
      /\ state' = answered /\ out' = Settled(replay) /\ outcome' = "ok"
      /\ UNCHANGED <<protocol, live, over, failed, fired, frames, afterEnd>>
  BY DEF AnswerBuffered
<1>2. client.phase = "silent" /\ ~client.spoken /\ failed = "none"
  BY <1>1 DEF IInv, Orderly
<1>3. /\ client'.phase = "open" /\ client'.last = client.last /\ client'.spoken = client.spoken
      /\ client'.blocks = client.blocks /\ client'.confused = client.confused
      /\ client.last \notin {"terminal", "error"} /\ client.spoken = FALSE
  BY <1>1, <1>2 DEF IInv, Typed, EndInv
<1>4. ~Scans' /\ Answering' /\ Read'
  BY <1>1, <1>2, <1>3 DEF Scans, Answering, Read
<1>5. /\ out' \in AnyBurst /\ Ready(out') /\ BlocksFollow(out', client.blocks)
      /\ ThoughtsLead(out', FALSE) /\ EndLast(out') /\ ~Holds(out'.after, "text") /\ EndComes(out')
      /\ \A i : Reached(out', client.blocks, i) = Reached(replay, client.blocks, i)
  <2>1. out' \in AnyBurst
    BY <1>1, SettledTyped
  <2>2. BlocksFollow(out', client.blocks) /\ Ready(out')
    BY <1>1, SettledFollows
  <2>3. ThoughtsLead(out', FALSE) /\ ~Holds(out'.after, "text")
    BY <1>1, SettledLeads
  <2>4. EndLast(out') /\ \A kind \in {"terminal", "error"} : EndsWith(out', kind) <=> EndsWith(replay, kind)
    BY <1>1, SettledEnds
  <2>5. \A i : Reached(out', client.blocks, i) = Reached(replay, client.blocks, i)
    BY <1>1, SettledReached
  <2> QED
    BY <2>1, <2>2, <2>3, <2>4, <2>5 DEF EndComes
<1>6. Typed'
  BY <1>1, <1>5 DEF IInv, Typed
<1>7. Orderly'
  BY <1>1, <1>2, <1>3 DEF IInv, Orderly
<1>8. EndInv'
  BY <1>1, <1>2, <1>3, <1>4, <1>5 DEF EndInv
<1>9. BurstInv' /\ TextNoted'
  BY <1>3, <1>4, <1>5 DEF BurstInv, TextNoted
<1>10. ChatInv' /\ MessagesInv'
  BY <1>4 DEF ChatInv, MessagesInv
<1>11. AtOnceInv'
  BY <1>3, <1>5 DEF AtOnceInv
<1>12. BlocksInOrder' /\ CallsReported' /\ EndStands'
  BY <1>1, <1>2, <1>3 DEF IInv, BlocksInOrder, CallsReported, EndStands
<1> QED
  BY <1>6, <1>7, <1>8, <1>9, <1>10, <1>11, <1>12 DEF IInv

\* A whole Chat Completions answer.
LEMMA BufferedChatIInv ==
  ASSUME IInv, phase = "starting", NEW body \in ChatBodies, BufferedChat(body)
  PROVE  IInv'
<1> DEFINE answered == ChatAtOnce(state, body)
           replay == ReplayChat(body)
           frs == (IF body.thought THEN <<Thought>> ELSE <<>>) \o (IF body.content THEN <<Plain("text")>> ELSE <<>>)
           bls == [i \in body.calls |-> <<Frame("other", "start", i)>>]
           aft == <<Plain("terminal")>>
<1>1. protocol = "chat" /\ AnswerBuffered(answered, replay) /\ UNCHANGED protocol /\ state' = answered
  BY DEF BufferedChat, AnswerBuffered
<1>2. state \in ChatState /\ body \in ChatBody /\ \A i \in Places : client.blocks[i] = "none"
  BY <1>1, NativeAssumption DEF IInv, Typed, Orderly
<1>3. Loose(frs, FALSE)
  <2>1. <<Thought>> \in Seq(AnyFrame) /\ <<Plain("text")>> \in Seq(AnyFrame) /\ <<>> \in Seq(AnyFrame)
    BY PlainFrames DEF Thought
  <2>2. \/ frs = <<>> \/ frs = <<Thought>> \/ frs = <<Plain("text")>>
        \/ frs = <<Thought>> \o <<Plain("text")>>
    BY <2>1, EmptyConcat
  <2> QED
    BY <2>2, LooseFrames
<1>4. replay.frames = frs /\ replay.blocks = bls /\ replay.after = aft /\ replay = Burst(frs, bls, aft)
  BY DEF ReplayChat, Burst
<1>5. body.calls \subseteq Calls /\ Calls \subseteq Places /\ Calls \subseteq Nat
  BY <1>2, NativeAssumption DEF ChatBody, Places
<1>6. \A i \in body.calls :
        /\ bls[i] \in FrameSeq \ {<<>>} /\ Whole(bls[i], i)
        /\ \A p \in DOMAIN bls[i] : bls[i][p].kind = "other"
        /\ Left(bls[i], "none", i) = "open"
  <2> SUFFICES ASSUME NEW i \in body.calls
               PROVE  /\ bls[i] \in FrameSeq \ {<<>>} /\ Whole(bls[i], i)
                      /\ \A p \in DOMAIN bls[i] : bls[i][p].kind = "other"
                      /\ Left(bls[i], "none", i) = "open"
    OBVIOUS
  <2> DEFINE e == Frame("other", "start", i)
             s == <<e>>
  <2>1. e \in AnyFrame /\ Placed(e) /\ e.kind = "other" /\ e.type = "start" /\ e.item = i
    BY <1>5 DEF Frame, AnyFrame, Placed
  <2>2. s \in FrameSeq /\ s # <<>>
    BY <2>1, SequencesOfFrames
  <2>3. DOMAIN s = {1} /\ s[1] = e /\ Len(s) = 1
    OBVIOUS
  <2>4. bls[i] = s
    OBVIOUS
  <2> HIDE DEF s, e, bls
  <2> QED
    BY <2>1, <2>2, <2>3, <2>4 DEF Whole, Left, About
<1>7. bls \in UNION {[S -> FrameSeq \ {<<>>}] : S \in SUBSET Places} /\ DOMAIN bls = body.calls
  <2>1. body.calls \in SUBSET Places
    BY <1>5
  <2>2. bls \in [body.calls -> FrameSeq \ {<<>>}]
    BY <1>6
  <2> HIDE DEF bls
  <2> QED
    BY <2>1, <2>2
<1>8. aft \in FrameSeq /\ DOMAIN aft = {1} /\ Len(aft) = 1 /\ aft # <<>>
      /\ aft[1].kind = "terminal" /\ aft[1].type = "none"
  BY PlainFrames
<1>9. answered \in ChatState /\ answered.terminal = TRUE
      /\ \A i \in Calls : answered.calls[i] = [NoCall EXCEPT !.id = i \in body.calls]
  <2> DEFINE all == [i \in Calls |-> [NoCall EXCEPT !.id = i \in body.calls]]
  <2>4. ASSUME NEW b \in BOOLEAN
        PROVE  [NoCall EXCEPT !.id = b] \in Flags
    BY DEF NoCall, Flags
  <2>5. \A i \in Calls : (i \in body.calls) \in BOOLEAN
    OBVIOUS
  <2>1. all \in [Calls -> Flags]
    BY <2>4, <2>5
  <2>2. \A i \in Calls : all[i] = [NoCall EXCEPT !.id = i \in body.calls]
    OBVIOUS
  <2> HIDE DEF all
  <2>3. (IF body.content THEN 1 ELSE 0) \in Nat
    OBVIOUS
  <2> QED
    BY <1>2, <2>1, <2>2, <2>3 DEF ChatAtOnce, ChatState, all
<1> HIDE DEF answered, replay, frs, bls, aft
<1>10. replay \in AnyBurst
  BY <1>3, <1>4, <1>7, <1>8 DEF AnyBurst, Burst, Loose
<1>11. BlocksFollow(replay, client.blocks)
  <2>1. InOrder(frs, client.blocks)
    BY <1>3 DEF Loose, InOrder
  <2>2. \A i \in DOMAIN bls : client.blocks[i] = "none" /\ Whole(bls[i], i)
    BY <1>2, <1>5, <1>6, <1>7
  <2>3. \A p \in DOMAIN frs : frs[p].type = "none"
    BY <1>3 DEF Loose
  <2>4. \A p \in DOMAIN aft : aft[p].type = "none"
    BY <1>8
  <2> QED
    BY <1>4, <2>1, <2>2, <2>3, <2>4 DEF BlocksFollow
<1>12. ThoughtsLead(replay, FALSE) /\ ~Holds(replay.after, "text")
  BY <1>3, <1>4, <1>6, <1>7, <1>8 DEF ThoughtsLead, Loose, Shy, Holds
<1>13. EndLast(replay)
  BY <1>3, <1>4, <1>6, <1>7, <1>8 DEF EndLast, Loose, Ends
<1>14. EndComes(replay)
  BY <1>4, <1>8 DEF EndComes, EndsWith
<1>15. ASSUME NEW i \in Places, Demands(i)'
       PROVE  Reached(replay, client.blocks, i) # "none"
  <2>1. i \in Calls /\ ~(answered.calls[i] = NoCall)
    BY <1>1, <1>15 DEF Demands, Discarded
  <2>2. i \in body.calls
    <3>1. CASE ~(i \in body.calls)
      <4>1. [NoCall EXCEPT !.id = FALSE] = NoCall
        <5> DEFINE e == [NoCall EXCEPT !.id = FALSE]
        <5>1. e \in Flags /\ e.id = FALSE /\ e.name = FALSE /\ e.args = FALSE
          BY DEF NoCall, Flags
        <5> HIDE DEF e
        <5>2. e = [id |-> FALSE, name |-> FALSE, args |-> FALSE]
          BY <5>1 DEF Flags
        <5> QED
          BY <5>2 DEF e, NoCall
      <4>2. (i \in body.calls) = FALSE
        BY <3>1
      <4> QED
        BY <1>9, <2>1, <4>1, <4>2
    <3> QED
      BY <3>1
  <2> QED
    BY <1>2, <1>4, <1>6, <1>7, <2>2 DEF Reached
<1> QED
  BY <1>1, <1>9, <1>10, <1>11, <1>12, <1>13, <1>14, <1>15, AtOnceIInv

\* A sequence with one element before and one behind.
LEMMA Framed ==
  ASSUME NEW X, NEW a \in X, NEW m \in Seq(X), NEW z \in X
  PROVE  LET t == <<a>> \o m \o <<z>> IN
         /\ t \in Seq(X) /\ Len(t) = Len(m) + 2 /\ t # <<>> /\ t[1] = a /\ t[Len(t)] = z
         /\ \A p \in DOMAIN t : \/ p = 1 /\ t[p] = a
                                \/ p = Len(t) /\ t[p] = z
                                \/ p # 1 /\ p # Len(t) /\ p - 1 \in DOMAIN m /\ t[p] = m[p - 1]
<1> DEFINE am == <<a>> \o m
           t == am \o <<z>>
<1>1. <<a>> \in Seq(X) /\ Len(<<a>>) = 1 /\ <<z>> \in Seq(X) /\ Len(<<z>>) = 1 /\ Len(m) \in Nat
      /\ <<a>>[1] = a /\ <<z>>[1] = z
  OBVIOUS
<1>2. /\ am \in Seq(X) /\ Len(am) = Len(m) + 1 /\ am[1] = a
      /\ \A p \in 2..(Len(m) + 1) : am[p] = m[p - 1]
  BY <1>1
<1> HIDE DEF am
<1>3. /\ t \in Seq(X) /\ Len(t) = Len(m) + 2 /\ t[Len(m) + 2] = z
      /\ \A p \in 1..(Len(m) + 1) : t[p] = am[p]
  BY <1>1, <1>2
<1>4. t[1] = a /\ t[Len(t)] = z
  BY <1>1, <1>2, <1>3
<1>5. t # <<>>
  BY <1>1, <1>3
<1> HIDE DEF t
<1>6. ASSUME NEW p \in DOMAIN t
      PROVE  \/ p = 1 /\ t[p] = a
             \/ p = Len(t) /\ t[p] = z
             \/ p # 1 /\ p # Len(t) /\ p - 1 \in DOMAIN m /\ t[p] = m[p - 1]
  <2>1. p \in 1..(Len(m) + 2)
    BY <1>1, <1>3
  <2>2. CASE p = 1
    BY <1>4, <2>2
  <2>3. CASE p = Len(m) + 2
    BY <1>3, <2>3
  <2>4. CASE p \in 2..(Len(m) + 1)
    <3>1. t[p] = m[p - 1] /\ p - 1 \in 1..Len(m)
      BY <1>1, <1>2, <1>3, <2>4
    <3>2. DOMAIN m = 1..Len(m)
      OBVIOUS
    <3> QED
      BY <1>1, <1>3, <2>4, <3>1, <3>2
  <2> QED
    BY <1>1, <2>1, <2>2, <2>3, <2>4
<1> QED
  BY <1>3, <1>4, <1>5, <1>6 DEF t, am

\* A block of the body is replayed whole.
LEMMA ReplayedWhole ==
  ASSUME NEW b \in BodyBlock, NEW i \in Places
  PROVE  /\ Replayed(b, i) \in FrameSeq \ {<<>>} /\ Whole(Replayed(b, i), i)
         /\ \A p \in DOMAIN Replayed(b, i) : ~Ends(Replayed(b, i)[p])
         /\ Holds(Replayed(b, i), "thought") => b.kind = "thinking"
         /\ Holds(Replayed(b, i), "text") => b.kind = "text" /\ b.form # "blank"
         /\ \A before : Left(Replayed(b, i), before, i) = "stopped"
<1> DEFINE a == Frame(IF b.kind = "thinking" THEN "thought" ELSE "other", "start", i)
           c == Carries(b)
           m == [d \in DOMAIN c |-> Frame(c[d], "delta", i)]
           z == Frame("other", "stop", i)
           t == <<a>> \o m \o <<z>>
<1>0. i \in Nat
  BY PlacesAreNumbers
<1>1. /\ c \in Seq({"thought", "text", "other"})
      /\ \A d \in DOMAIN c : /\ c[d] = "thought" => b.kind = "thinking"
                             /\ c[d] = "text" => b.kind = "text" /\ b.form # "blank"
  <2>1. b.kind \in {"text", "thinking", "tool_use", "server_tool_use"} /\ b.form \in BlockForm
    BY DEF BodyBlock, BlockKind
  <2>2. CASE b.kind = "text"
    <3>1. c = <<IF b.form = "blank" THEN "other" ELSE "text">>
      BY <2>2 DEF Carries
    <3> QED
      BY <2>2, <3>1
  <2>3. CASE b.kind = "thinking"
    <3>1. c = <<"thought", "other">>
      BY <2>3 DEF Carries
    <3> QED
      BY <2>3, <3>1
  <2>4. CASE b.kind \in {"tool_use", "server_tool_use"}
    <3>1. c = <<"other">>
      BY <2>4 DEF Carries
    <3> QED
      BY <3>1
  <2> QED
    BY <2>1, <2>2, <2>3, <2>4
<1>2. /\ a \in AnyFrame /\ a.type = "start" /\ a.item = i
      /\ a.kind = IF b.kind = "thinking" THEN "thought" ELSE "other"
      /\ z \in AnyFrame /\ z.type = "stop" /\ z.item = i /\ z.kind = "other"
  BY <1>0 DEF Frame, AnyFrame
<1>3. \A d \in DOMAIN c : /\ Frame(c[d], "delta", i) \in AnyFrame
                          /\ Frame(c[d], "delta", i).kind = c[d] /\ Frame(c[d], "delta", i).type = "delta"
                          /\ Frame(c[d], "delta", i).item = i
  BY <1>0, <1>1 DEF Frame, AnyFrame
<1> HIDE DEF c
<1>4. /\ m \in Seq(AnyFrame)
      /\ \A d \in DOMAIN m : d \in DOMAIN c /\ m[d].kind = c[d] /\ m[d].type = "delta" /\ m[d].item = i
  BY <1>1, <1>3
<1>5. Replayed(b, i) = t
  BY DEF Replayed, c
<1> HIDE DEF a, m, z
<1>6. /\ t \in Seq(AnyFrame) /\ t # <<>> /\ t[1] = a /\ t[Len(t)] = z /\ Len(t) = Len(m) + 2
      /\ \A p \in DOMAIN t : \/ p = 1 /\ t[p] = a
                             \/ p = Len(t) /\ t[p] = z
                             \/ p # 1 /\ p # Len(t) /\ p - 1 \in DOMAIN m /\ t[p] = m[p - 1]
  BY <1>2, <1>4, Framed
<1> HIDE DEF t
<1>7. ASSUME NEW p \in DOMAIN t
      PROVE  /\ t[p].item = i /\ t[p].type # "none"
             /\ p # 1 => t[p].type \in {"delta", "stop"}
             /\ t[p].type = "stop" => p = Len(t)
             /\ t[p].kind \in {"thought", "text", "other"}
             /\ t[p].kind = "thought" => b.kind = "thinking"
             /\ t[p].kind = "text" => b.kind = "text" /\ b.form # "blank"
  <2>1. CASE p = 1 /\ t[p] = a
    BY <1>2, <2>1
  <2>2. CASE p = Len(t) /\ t[p] = z
    <3>1. p # 1
      BY <1>4, <1>6, <2>2
    <3> QED
      BY <1>2, <2>2, <3>1
  <2>3. CASE p # 1 /\ p # Len(t) /\ p - 1 \in DOMAIN m /\ t[p] = m[p - 1]
    <3>1. c[p - 1] \in {"thought", "text", "other"} /\ p - 1 \in DOMAIN c
      BY <1>1, <1>4, <2>3
    <3> QED
      BY <1>1, <1>4, <2>3, <3>1
  <2> QED
    BY <1>6, <2>1, <2>2, <2>3
<1>8. t \in FrameSeq \ {<<>>}
  BY <1>6, <1>7 DEF FrameSeq, Placed
<1>9. Whole(t, i)
  BY <1>2, <1>6, <1>7 DEF Whole
<1>10. /\ Holds(t, "thought") => b.kind = "thinking"
       /\ Holds(t, "text") => b.kind = "text" /\ b.form # "blank"
  BY <1>7 DEF Holds
<1>11. \A before : Left(t, before, i) = "stopped"
  BY <1>2, <1>6 DEF Left
<1>12. \A p \in DOMAIN t : ~Ends(t[p])
  BY <1>7 DEF Ends
<1> QED
  BY <1>5, <1>8, <1>9, <1>10, <1>11, <1>12

\* A whole Messages answer.
LEMMA BufferedMessagesIInv ==
  ASSUME IInv, phase = "starting", NEW blocks \in MessagesBodies, BufferedMessages(blocks)
  PROVE  IInv'
<1> DEFINE content == Aligned(blocks, state.hosted)
           answered == MessagesAtOnce(state, content)
           replay == ReplayMessages(content)
           bls == [i \in DOMAIN content |-> Replayed(content[i], i)]
           frs == <<Plain("other")>>
           aft == <<Plain("other"), Plain("terminal")>>
<1>1. protocol = "messages" /\ AnswerBuffered(answered, replay) /\ UNCHANGED protocol /\ state' = answered
  BY DEF BufferedMessages, AnswerBuffered
<1>2. /\ state \in MessagesState /\ blocks \in Seq(BodyBlock)
      /\ \A i \in Places : client.blocks[i] = "none"
  BY <1>1, NativeAssumption DEF IInv, Typed, Orderly
<1>3. /\ DOMAIN content \subseteq DOMAIN blocks /\ DOMAIN content \subseteq Places
      /\ \A i \in DOMAIN content : content[i] = blocks[i] /\ Kept(blocks, state.hosted, i) /\ blocks[i] \in BodyBlock
      /\ DOMAIN content \subseteq Nat
  <2>1. DOMAIN blocks \subseteq Places
    BY DEF Places
  <2> QED
    BY <1>2, <2>1, PlacesAreNumbers DEF Aligned
<1>4. replay.frames = frs /\ replay.blocks = bls /\ replay.after = aft /\ replay = Burst(frs, bls, aft)
  BY DEF ReplayMessages, Burst
<1>5. \A i \in DOMAIN content :
        /\ bls[i] \in FrameSeq \ {<<>>} /\ Whole(bls[i], i)
        /\ \A p \in DOMAIN bls[i] : ~Ends(bls[i][p])
        /\ Holds(bls[i], "thought") => blocks[i].kind = "thinking"
        /\ Holds(bls[i], "text") => blocks[i].kind = "text" /\ blocks[i].form # "blank"
        /\ Left(bls[i], "none", i) = "stopped"
  BY <1>3, ReplayedWhole
<1>6. bls \in UNION {[S -> FrameSeq \ {<<>>}] : S \in SUBSET Places} /\ DOMAIN bls = DOMAIN content
  <2>1. DOMAIN content \in SUBSET Places
    BY <1>3
  <2>2. bls \in [DOMAIN content -> FrameSeq \ {<<>>}]
    BY <1>5
  <2> HIDE DEF bls, content
  <2> QED
    BY <2>1, <2>2
<1>7. /\ Plain("other").kind = "other" /\ Plain("other").type = "none"
      /\ Plain("terminal").kind = "terminal" /\ Plain("terminal").type = "none"
      /\ Plain("other") \in AnyFrame /\ Placed(Plain("other"))
      /\ Plain("terminal") \in AnyFrame /\ Placed(Plain("terminal"))
  BY PlainFrames
<1>8. frs \in FrameSeq /\ DOMAIN frs = {1} /\ frs[1] = Plain("other")
  BY <1>7 DEF FrameSeq
<1>9. /\ aft \in FrameSeq /\ DOMAIN aft = {1, 2} /\ Len(aft) = 2 /\ aft # <<>>
      /\ aft[1] = Plain("other") /\ aft[2] = Plain("terminal")
  BY <1>7 DEF FrameSeq
<1>10. answered \in MessagesState /\ answered.terminal = TRUE /\ answered.began = [i \in DOMAIN content |-> content[i].kind]
  <2> DEFINE began == [i \in DOMAIN content |-> content[i].kind]
  <2>1. began \in [DOMAIN content -> BlockKind] /\ DOMAIN content \in SUBSET Places
    BY <1>3 DEF BodyBlock
  <2>2. DOMAIN content \in SUBSET Nat
    BY <1>3
  <2> HIDE DEF began, content
  <2>3. began \in UNION {[S -> BlockKind] : S \in SUBSET Places}
    BY <2>1
  <2> QED
    BY <1>2, <2>2, <2>3 DEF MessagesAtOnce, MessagesState, began
<1> HIDE DEF answered, replay, frs, bls, aft, content
<1>11. replay \in AnyBurst
  BY <1>4, <1>6, <1>8, <1>9 DEF AnyBurst, Burst
<1>12. BlocksFollow(replay, client.blocks)
  <2>1. InOrder(frs, client.blocks)
    BY <1>7, <1>8 DEF InOrder
  <2>2. \A i \in DOMAIN bls : client.blocks[i] = "none" /\ Whole(bls[i], i)
    BY <1>2, <1>3, <1>5, <1>6
  <2>3. \A p \in DOMAIN frs : frs[p].type = "none"
    BY <1>7, <1>8
  <2>4. \A p \in DOMAIN aft : aft[p].type = "none"
    BY <1>7, <1>9
  <2> QED
    BY <1>4, <2>1, <2>2, <2>3, <2>4 DEF BlocksFollow
<1>13. ASSUME NEW i \in DOMAIN bls, NEW j \in DOMAIN bls, Holds(bls[i], "thought"), j < i
       PROVE  ~Holds(bls[j], "text")
  <2>1. blocks[i].kind = "thinking" /\ Kept(blocks, state.hosted, i)
    BY <1>3, <1>5, <1>6, <1>13
  <2>2. ~Spoken(blocks, i)
    BY <2>1 DEF Kept
  <2>3. SUFFICES ASSUME Holds(bls[j], "text")
                 PROVE  FALSE
    OBVIOUS
  <2>4. blocks[j].kind = "text" /\ blocks[j].form # "blank" /\ Kept(blocks, state.hosted, j) /\ j \in DOMAIN blocks
    BY <1>3, <1>5, <1>6, <2>3
  <2>5. blocks[j].form # "span"
    BY <2>4 DEF Kept
  <2> QED
    BY <1>13, <2>2, <2>4, <2>5 DEF Spoken
<1>14. \A i \in DOMAIN bls : Shy(bls[i], FALSE)
  <2> SUFFICES ASSUME NEW i \in DOMAIN bls
               PROVE  Shy(bls[i], FALSE)
    OBVIOUS
  <2>1. ~(Holds(bls[i], "thought") /\ Holds(bls[i], "text"))
    BY <1>5, <1>6
  <2>2. bls[i] \in Seq(AnyFrame)
    BY <1>5, <1>6 DEF FrameSeq
  <2>3. \A p \in DOMAIN bls[i] : \A q \in 1..(p - 1) : q \in DOMAIN bls[i]
    BY <2>2
  <2> QED
    BY <2>1, <2>3 DEF Shy, Holds
<1>15. ThoughtsLead(replay, FALSE) /\ ~Holds(replay.after, "text")
  <2>1. Shy(frs, FALSE) /\ ~Holds(frs, "text")
    BY <1>7, <1>8 DEF Shy, Holds
  <2>2. ~Holds(aft, "text") /\ ~Holds(aft, "thought")
    BY <1>7, <1>9 DEF Holds
  <2> QED
    BY <1>4, <1>13, <1>14, <2>1, <2>2 DEF ThoughtsLead
<1>16. EndLast(replay)
  BY <1>4, <1>5, <1>6, <1>7, <1>8, <1>9 DEF EndLast, Ends
<1>17. EndComes(replay)
  BY <1>4, <1>7, <1>9 DEF EndComes, EndsWith
<1>18. ASSUME NEW i \in Places, Demands(i)'
       PROVE  Reached(replay, client.blocks, i) # "none"
  <2>1. i \in DOMAIN content
    BY <1>1, <1>10, <1>18 DEF Demands
  <2> QED
    BY <1>2, <1>4, <1>5, <1>6, <2>1 DEF Reached
<1> QED
  BY <1>1, <1>10, <1>11, <1>12, <1>15, <1>16, <1>17, <1>18, AtOnceIInv

-----------------------------------------------------------------------------
(* What the rectifiers of a Messages stream send.                          *)

\* A frame that may be written now.
LEMMA OneFrame ==
  ASSUME NEW blocks \in [Places -> {"none", "open", "stopped"}], NEW spoken \in BOOLEAN,
         NEW e \in AnyFrame, Placed(e),
         e.type # "none" => blocks[e.item] \in Follows[e.type], e.kind = "thought" => ~spoken
  PROVE  /\ Only(<<e>>) \in AnyBurst /\ BlocksFollow(Only(<<e>>), blocks)
         /\ ThoughtsLead(Only(<<e>>), spoken) /\ EndLast(Only(<<e>>))
         /\ DOMAIN Only(<<e>>).blocks = {} /\ ~Holds(Only(<<e>>).after, "text")
         /\ Holds(Only(<<e>>).frames, "text") => e.kind = "text"
         /\ EndComes(Only(<<e>>)) <=> Ends(e)
         /\ \A i : Reached(Only(<<e>>), blocks, i) =
                     IF e.type # "none" /\ e.item = i THEN BlockAfter(e.type) ELSE blocks[i]
<1> DEFINE s == <<e>>
           b == Only(s)
<1>1. s \in FrameSeq /\ DOMAIN s = {1} /\ s[1] = e /\ Len(s) = 1 /\ s # <<>>
  BY SequencesOfFrames
<1> HIDE DEF s
<1>2. b \in AnyBurst /\ b.frames = s /\ DOMAIN b.blocks = {} /\ b.after = <<>>
  BY <1>1, OnlyParts
<1> HIDE DEF b
<1>3. e.type \in {"none", "start", "delta", "stop"}
  BY DEF AnyFrame
<1>4. InOrder(s, blocks)
  BY <1>1, <1>3 DEF InOrder, Follows
<1>5. \A p \in DOMAIN <<>> : FALSE
  OBVIOUS
<1>6. BlocksFollow(b, blocks)
  BY <1>2, <1>4, <1>5 DEF BlocksFollow
<1>7. ThoughtsLead(b, spoken) /\ ~Holds(b.after, "text") /\ (Holds(s, "text") => e.kind = "text")
  <2>1. Shy(s, spoken)
    BY <1>1 DEF Shy
  <2> QED
    BY <1>1, <1>2, <1>5, <2>1 DEF ThoughtsLead, Holds
<1>8. EndLast(b)
  BY <1>1, <1>2, <1>5 DEF EndLast
<1>9. EndComes(b) <=> Ends(e)
  BY <1>1, <1>2 DEF EndComes, EndsWith, Ends
<1>10. \A i : Reached(b, blocks, i) =
                IF e.type # "none" /\ e.item = i THEN BlockAfter(e.type) ELSE blocks[i]
  <2>1. \A i : About(s, i) <=> e.type # "none" /\ e.item = i
    BY <1>1 DEF About
  <2> QED
    BY <1>1, <1>2, <1>3, <2>1 DEF Reached, Left, BlockAfter
<1> QED
  BY <1>2, <1>6, <1>7, <1>8, <1>9, <1>10 DEF b, s

\* A call that was held, with its stop.
LEMMA StartedAndStopped ==
  ASSUME NEW blocks \in [Places -> {"none", "open", "stopped"}], NEW spoken \in BOOLEAN,
         NEW i \in Places, blocks[i] = "none", NEW args
  PROVE  LET b == Only(Started(i, args) \o <<Frame("other", "stop", i)>>) IN
         /\ b \in AnyBurst /\ BlocksFollow(b, blocks) /\ ThoughtsLead(b, spoken) /\ EndLast(b)
         /\ DOMAIN b.blocks = {} /\ ~Holds(b.after, "text") /\ ~Holds(b.frames, "text") /\ ~EndComes(b)
         /\ \A j : Reached(b, blocks, j) = IF j = i THEN "stopped" ELSE blocks[j]
<1> DEFINE t == Started(i, args)
           z == Frame("other", "stop", i)
           s == t \o <<z>>
           b == Only(s)
<1>1. /\ t \in FrameSeq /\ t # <<>> /\ t \in Seq(AnyFrame)
      /\ \A p \in DOMAIN t : /\ t[p].kind = "other" /\ t[p].item = i
                             /\ t[p].type = IF p = 1 THEN "start" ELSE "delta"
  BY StartedWhole DEF FrameSeq
<1>2. z \in AnyFrame /\ Placed(z) /\ z.kind = "other" /\ z.type = "stop" /\ z.item = i
  BY PlacesAreNumbers DEF AnyFrame, Placed, Frame
<1>3. <<z>> \in FrameSeq
  BY <1>2, SequencesOfFrames
<1> HIDE DEF t, z
<1>4. s \in FrameSeq
  BY <1>1, <1>3, SequencesOfFrames
<1>5. Len(t) \in Nat \ {0} /\ DOMAIN t = 1..Len(t)
  BY <1>1
<1>6. /\ Len(s) = Len(t) + 1 /\ DOMAIN s = 1..(Len(t) + 1) /\ s[Len(s)] = z
      /\ \A p \in DOMAIN t : s[p] = t[p]
  <2>1. <<z>> \in Seq(AnyFrame) /\ Len(<<z>>) = 1 /\ <<z>>[1] = z
    BY <1>2
  <2> QED
    BY <1>1, <1>5, <2>1
<1> HIDE DEF s
<1>7. \A p \in DOMAIN s : /\ s[p].kind = "other" /\ s[p].item = i
                          /\ s[p].type = IF p = 1 THEN "start" ELSE IF p = Len(s) THEN "stop" ELSE "delta"
  <2> SUFFICES ASSUME NEW p \in DOMAIN s
               PROVE  /\ s[p].kind = "other" /\ s[p].item = i
                      /\ s[p].type = IF p = 1 THEN "start" ELSE IF p = Len(s) THEN "stop" ELSE "delta"
    OBVIOUS
  <2>1. CASE p = Len(s)
    BY <1>2, <1>5, <1>6, <2>1
  <2>2. CASE p # Len(s)
    <3>1. p \in DOMAIN t
      BY <1>5, <1>6, <2>2
    <3> QED
      BY <1>1, <1>6, <2>2, <3>1
  <2> QED
    BY <2>1, <2>2
<1>8. 1 \in DOMAIN s /\ Len(s) \in DOMAIN s /\ Len(s) # 1 /\ s # <<>>
  BY <1>5, <1>6
<1>9. b \in AnyBurst /\ b.frames = s /\ DOMAIN b.blocks = {} /\ b.after = <<>>
  BY <1>4, OnlyParts
<1> HIDE DEF b
<1>10. \A p \in DOMAIN <<>> : FALSE
  OBVIOUS
<1>11. BlocksFollow(b, blocks)
  <2>1. InOrder(s, blocks)
    BY <1>7, <1>8 DEF InOrder
  <2> QED
    BY <1>9, <1>10, <2>1 DEF BlocksFollow
<1>12. ThoughtsLead(b, spoken) /\ ~Holds(b.after, "text") /\ ~Holds(b.frames, "text")
  BY <1>7, <1>9, <1>10 DEF ThoughtsLead, Shy, Holds
<1>13. EndLast(b)
  BY <1>7, <1>9, <1>10 DEF EndLast, Ends
<1>14. ~EndComes(b)
  BY <1>7, <1>8, <1>9 DEF EndComes, EndsWith
<1>15. \A j : Reached(b, blocks, j) = IF j = i THEN "stopped" ELSE blocks[j]
  <2>1. \A j : About(s, j) => j = i
    BY <1>7 DEF About
  <2> QED
    BY <1>7, <1>8, <1>9, <2>1 DEF Reached, Left
<1> QED
  BY <1>9, <1>11, <1>12, <1>13, <1>14, <1>15 DEF b, s, t, z

\* What is held is released before the end of the stream.
LEMMA HeldReleased ==
  ASSUME NEW blocks \in [Places -> {"none", "open", "stopped"}], NEW spoken \in BOOLEAN,
         NEW m, DOMAIN m.held \subseteq Blocks, \A i \in DOMAIN m.held : blocks[i] = "none",
         NEW kind \in {"terminal", "error"}
  PROVE  LET b == Burst(<<>>, FlushHeld(m), <<Plain(kind)>>) IN
         /\ b \in AnyBurst /\ BlocksFollow(b, blocks) /\ ThoughtsLead(b, spoken) /\ EndLast(b)
         /\ ~Holds(b.after, "text") /\ ~Holds(b.frames, "text")
         /\ \A i \in DOMAIN b.blocks : ~Holds(b.blocks[i], "text")
         /\ EndComes(b)
         /\ \A i : Reached(b, blocks, i) = IF i \in DOMAIN m.held THEN "open" ELSE blocks[i]
<1> DEFINE bls == FlushHeld(m)
           aft == <<Plain(kind)>>
           b == Burst(<<>>, bls, aft)
<1>1. b.frames = <<>> /\ b.blocks = bls /\ b.after = aft
  BY DEF Burst
<1>2. DOMAIN bls = DOMAIN m.held /\ \A i \in DOMAIN m.held : bls[i] = Started(i, m.held[i])
  BY DEF FlushHeld, Resolved, Started
<1>3. \A i \in DOMAIN m.held : i \in Places
  BY DEF Places
<1> HIDE DEF bls
<1>4. \A i \in DOMAIN bls :
        /\ bls[i] \in FrameSeq \ {<<>>} /\ Whole(bls[i], i)
        /\ \A p \in DOMAIN bls[i] : bls[i][p].kind = "other"
        /\ \A before : Left(bls[i], before, i) = "open"
  BY <1>2, <1>3, StartedWhole
<1>5. /\ aft \in FrameSeq /\ aft # <<>> /\ DOMAIN aft = {1} /\ Len(aft) = 1
      /\ aft[1].kind = kind /\ aft[1].type = "none"
  BY PlainFrames
<1> HIDE DEF aft
<1>6. bls \in UNION {[S -> FrameSeq \ {<<>>}] : S \in SUBSET Places}
  <2>1. DOMAIN bls \in SUBSET Places
    BY <1>2, <1>3
  <2>2. bls = [i \in DOMAIN bls |-> bls[i]]
    BY DEF bls, FlushHeld
  <2>3. bls \in [DOMAIN bls -> FrameSeq \ {<<>>}]
    BY <1>4, <2>2
  <2> QED
    BY <2>1, <2>3
<1>7. <<>> \in FrameSeq /\ \A p \in DOMAIN <<>> : FALSE
  BY SequencesOfFrames
<1>8. b \in AnyBurst
  BY <1>5, <1>6, <1>7 DEF AnyBurst, Burst
<1> HIDE DEF b
<1>9. BlocksFollow(b, blocks)
  <2>1. InOrder(<<>>, blocks)
    BY <1>7 DEF InOrder
  <2> QED
    BY <1>1, <1>2, <1>4, <1>5, <1>7, <2>1 DEF BlocksFollow
<1>10. /\ ThoughtsLead(b, spoken) /\ ~Holds(b.after, "text") /\ ~Holds(b.frames, "text")
       /\ \A i \in DOMAIN b.blocks : ~Holds(b.blocks[i], "text")
  BY <1>1, <1>4, <1>5, <1>7 DEF ThoughtsLead, Shy, Holds
<1>11. EndLast(b)
  BY <1>1, <1>4, <1>5, <1>7 DEF EndLast, Ends
<1>12. EndComes(b)
  BY <1>1, <1>5 DEF EndComes, EndsWith
<1>13. \A i : Reached(b, blocks, i) = IF i \in DOMAIN m.held THEN "open" ELSE blocks[i]
  <2>1. \A i : Left(<<>>, blocks[i], i) = blocks[i]
    BY <1>7 DEF Left, About
  <2> QED
    BY <1>1, <1>2, <1>4, <2>1 DEF Reached
<1> QED
  BY <1>8, <1>9, <1>10, <1>11, <1>12, <1>13 DEF b, bls, aft

\* What a frame of the upstream adds to what is known of the blocks.
LEMMA NotedParts ==
  ASSUME NEW m \in MessagesState, Tracked(m), NEW f \in MessagesFrame
  PROVE  LET n == Noted(m, f) IN
         /\ n \in MessagesState /\ n.hosted = m.hosted /\ n.filtered = m.filtered
         /\ n.dropped = m.dropped /\ n.held = m.held /\ n.sawText = m.sawText
         /\ n.terminal = m.terminal /\ DOMAIN n.began = Blocks
         /\ \A i \in Blocks : n.began[i] = IF i = f.index /\ f.type = "content_block_start" THEN f.kind
                                           ELSE m.began[i]
         /\ n.ended = m.ended \cup (IF f.type = "content_block_stop" THEN {f.index} ELSE {})
<1> DEFINE began == [m.began EXCEPT ![f.index] = IF f.type = "content_block_start" THEN f.kind ELSE @]
           ended == IF f.type = "content_block_stop" THEN m.ended \cup {f.index} ELSE m.ended
           stopped == m.stopped \/ f.type \in {"message_stop", "error"}
                        \/ (f.type = "message_delta" /\ f.flag)
<1>1. f.index \in Blocks /\ f.kind \in BlockKind /\ f.index \in Nat /\ f.flag \in BOOLEAN
  BY NativeAssumption DEF MessagesFrame
<1>2. DOMAIN m.began = Blocks /\ m.began \in [Blocks -> BlockKind]
  BY DEF Tracked, MessagesState
<1>3. /\ began \in [Blocks -> BlockKind]
      /\ \A i \in Blocks : began[i] = IF i = f.index /\ f.type = "content_block_start" THEN f.kind
                                      ELSE m.began[i]
  BY <1>1, <1>2
<1>4. Blocks \in SUBSET Places
  BY DEF Places
<1>5. began \in UNION {[S -> BlockKind] : S \in SUBSET Places} /\ DOMAIN began = Blocks
  <2> HIDE DEF began
  <2> QED
    BY <1>3, <1>4
<1>6. ended \in SUBSET Nat
  BY <1>1 DEF MessagesState
<1>7. stopped \in BOOLEAN
  BY <1>1 DEF MessagesState
<1>8. Noted(m, f) = [m EXCEPT !.stopped = stopped, !.began = began, !.ended = ended]
  BY DEF Noted, MessagesState
<1> HIDE DEF began, stopped
<1>9. ended = m.ended \cup (IF f.type = "content_block_stop" THEN {f.index} ELSE {})
  OBVIOUS
<1> HIDE DEF ended
<1>10. /\ Noted(m, f) \in MessagesState
       /\ Noted(m, f).hosted = m.hosted /\ Noted(m, f).filtered = m.filtered
       /\ Noted(m, f).dropped = m.dropped /\ Noted(m, f).held = m.held
       /\ Noted(m, f).sawText = m.sawText /\ Noted(m, f).terminal = m.terminal
       /\ Noted(m, f).began = began /\ Noted(m, f).ended = ended
  BY <1>5, <1>6, <1>7, <1>8 DEF MessagesState
<1> QED
  BY <1>3, <1>5, <1>9, <1>10

\* What the step needs of a handler's result.
MessagesSound(r) ==
  /\ r.out \in AnyBurst /\ r.bad \in BOOLEAN /\ r.state \in MessagesState
  /\ BlocksFollow(r.out, client.blocks) /\ ThoughtsLead(r.out, client.spoken) /\ EndLast(r.out)
  /\ client.spoken \/ Holds(r.out.frames, "text") => r.state.sawText
  /\ ~Holds(r.out.after, "text")
  /\ \A i \in DOMAIN r.out.blocks : ~Holds(r.out.blocks[i], "text")
  /\ r.state.terminal <=> EndComes(r.out)
  /\ r.state.terminal => ~r.bad
  /\ Tracked(r.state) /\ Matches(r.state, r.out, client.blocks)

\* Before the handler the client has seen what is known of each block.
ReadsMessages(f) ==
  /\ IInv /\ Reading /\ protocol = "messages" /\ f \in MessagesFrame /\ MessagesSends(state, f)

\* What that is, part by part.
LEMMA MessagesRead ==
  ASSUME NEW f, ReadsMessages(f)
  PROVE  /\ state \in MessagesState /\ Tracked(state) /\ ~state.terminal
         /\ client.blocks \in [Places -> {"none", "open", "stopped"}] /\ client.spoken \in BOOLEAN
         /\ client.spoken => state.sawText
         /\ f.index \in Blocks /\ f.kind \in BlockKind /\ f.index \in Nat
         /\ Blocks \subseteq Places /\ Blocks \subseteq Nat
         /\ \A i \in Blocks :
              /\ state.began[i] = "none" \/ i \in DOMAIN state.held => client.blocks[i] = "none"
              /\ state.began[i] # "none" /\ i \notin state.ended \cup DOMAIN state.held \cup LeftOut(state) =>
                   client.blocks[i] = "open"
              /\ state.began[i] = "tool_use" /\ i \in state.ended => client.blocks[i] # "none"
<1>1. IInv /\ Reading /\ protocol = "messages" /\ f \in MessagesFrame
  BY DEF ReadsMessages
<1>2. /\ Scans /\ Read /\ ~state.terminal /\ client.spoken \in BOOLEAN /\ (client.spoken => state.sawText)
      /\ client.blocks \in [Places -> {"none", "open", "stopped"}]
      /\ \A i : Reached(out, client.blocks, i) = client.blocks[i]
  BY <1>1, ReadingFacts
<1>3. Tracked(state) /\ Matches(state, out, client.blocks) /\ state \in MessagesState
  BY <1>1, <1>2 DEF IInv, Typed, MessagesInv
<1>4. f.index \in Blocks /\ f.kind \in BlockKind
  BY <1>1 DEF MessagesFrame
<1>5. Blocks \subseteq Places /\ Blocks \subseteq Nat
  BY NativeAssumption DEF Places
<1> QED
  BY <1>2, <1>3, <1>4, <1>5 DEF Matches

\* A handler that sends nothing.
LEMMA QuietSound ==
  ASSUME NEW f, ReadsMessages(f), NEW m \in MessagesState, Tracked(m), ~m.terminal,
         client.spoken => m.sawText, NEW bad \in BOOLEAN,
         \A i \in Blocks :
           /\ m.began[i] = "none" \/ i \in DOMAIN m.held => client.blocks[i] = "none"
           /\ m.began[i] # "none" /\ i \notin m.ended \cup DOMAIN m.held \cup LeftOut(m) =>
                client.blocks[i] = "open"
           /\ m.began[i] = "tool_use" /\ i \in m.ended => client.blocks[i] # "none"
  PROVE  MessagesSound(Outcome(m, Only(<<>>), bad))
<1>1. /\ Outcome(m, Only(<<>>), bad).out = Only(<<>>) /\ Outcome(m, Only(<<>>), bad).state = m
      /\ Outcome(m, Only(<<>>), bad).bad = bad
  BY DEF Outcome
<1> DEFINE b == Only(<<>>)
<1>2. /\ b \in AnyBurst /\ b.frames = <<>> /\ DOMAIN b.blocks = {} /\ b.after = <<>>
      /\ \A i : Reached(b, client.blocks, i) = client.blocks[i]
      /\ BlocksFollow(b, client.blocks) /\ ThoughtsLead(b, client.spoken)
      /\ EndLast(b) /\ ~EndComes(b) /\ ~Holds(b.frames, "text") /\ ~Holds(b.after, "text")
  BY EmptyBurst
<1> HIDE DEF b
<1>3. Matches(m, b, client.blocks)
  BY <1>2 DEF Matches
<1> DEFINE r == Outcome(m, b, bad)
<1>4. r.out = b /\ r.state = m /\ r.bad = bad
  BY <1>1 DEF b
<1> HIDE DEF r
<1>5. MessagesSound(r)
  BY <1>2, <1>3, <1>4 DEF MessagesSound
<1> QED
  BY <1>5 DEF r, b

\* A frame of a hosted search is left out.
LEMMA SearchSound ==
  ASSUME NEW f, ReadsMessages(f), Searches(Noted(state, f), f)
  PROVE  MessagesSound(Outcome(FilterSearch(Noted(state, f), f), Only(<<>>), FALSE))
<1> DEFINE n == Noted(state, f)
           m == FilterSearch(n, f)
           filtered == IF f.type = "content_block_start" THEN n.filtered \cup {f.index}
                       ELSE IF f.type = "content_block_stop" THEN n.filtered \ {f.index} ELSE n.filtered
<1>1. /\ state \in MessagesState /\ Tracked(state) /\ ~state.terminal
      /\ client.spoken => state.sawText
      /\ f.index \in Blocks /\ f.index \in Nat
      /\ \A i \in Blocks :
           /\ state.began[i] = "none" \/ i \in DOMAIN state.held => client.blocks[i] = "none"
           /\ state.began[i] # "none" /\ i \notin state.ended \cup DOMAIN state.held \cup LeftOut(state) =>
                client.blocks[i] = "open"
           /\ state.began[i] = "tool_use" /\ i \in state.ended => client.blocks[i] # "none"
  BY MessagesRead
<1>2. f \in MessagesFrame /\ MessagesSends(state, f)
  BY DEF ReadsMessages
<1>3. /\ n \in MessagesState /\ n.hosted = state.hosted /\ n.filtered = state.filtered
      /\ n.dropped = state.dropped /\ n.held = state.held /\ n.sawText = state.sawText
      /\ n.terminal = state.terminal /\ DOMAIN n.began = Blocks
      /\ \A i \in Blocks : n.began[i] = IF i = f.index /\ f.type = "content_block_start" THEN f.kind
                                        ELSE state.began[i]
      /\ n.ended = state.ended \cup (IF f.type = "content_block_stop" THEN {f.index} ELSE {})
  BY <1>1, <1>2, NotedParts
<1> HIDE DEF n
<1>4. filtered \in SUBSET Nat
  BY <1>1, <1>3 DEF MessagesState
<1>5. m = [n EXCEPT !.filtered = filtered]
  BY <1>3 DEF FilterSearch, MessagesState
<1> HIDE DEF filtered
<1>6. /\ m \in MessagesState /\ m.hosted = n.hosted /\ m.filtered = filtered /\ m.dropped = n.dropped
      /\ m.held = n.held /\ m.sawText = n.sawText /\ m.terminal = n.terminal /\ m.began = n.began
      /\ m.ended = n.ended
  BY <1>3, <1>4, <1>5 DEF MessagesState
<1> HIDE DEF m
<1>7. \/ f.type = "content_block_start" /\ f.kind = "server_tool_use" /\ n.hosted
      \/ f.type = "content_block_delta" /\ f.index \in state.filtered
      \/ f.type = "content_block_stop" /\ f.index \in state.filtered
  BY <1>3 DEF Searches, Starts, Continues, n
<1>8. CASE f.type = "content_block_start" /\ f.kind = "server_tool_use" /\ n.hosted
  <2>1. filtered = state.filtered \cup {f.index} /\ m.ended = state.ended
    BY <1>3, <1>6, <1>8 DEF filtered
  <2>2. state.began[f.index] = "none"
    BY <1>2, <1>8 DEF MessagesSends
  <2>3. Tracked(m)
    BY <1>1, <1>3, <1>6, <1>8, <2>1, <2>2 DEF Tracked, LeftOut
  <2>4. \A i \in Blocks :
           /\ m.began[i] = "none" \/ i \in DOMAIN m.held => client.blocks[i] = "none"
           /\ m.began[i] # "none" /\ i \notin m.ended \cup DOMAIN m.held \cup LeftOut(m) =>
                client.blocks[i] = "open"
           /\ m.began[i] = "tool_use" /\ i \in m.ended => client.blocks[i] # "none"
    BY <1>1, <1>3, <1>6, <1>8, <2>1, <2>2 DEF Tracked, LeftOut
  <2>5. MessagesSound(Outcome(m, Only(<<>>), FALSE))
    BY <1>1, <1>3, <1>6, <2>3, <2>4, QuietSound
  <2> QED
    BY <2>5 DEF m, n
<1>9. CASE f.type = "content_block_delta" /\ f.index \in state.filtered
  <2>1. filtered = state.filtered /\ m.ended = state.ended /\ \A i \in Blocks : m.began[i] = state.began[i]
    BY <1>3, <1>6, <1>9 DEF filtered
  <2>2. Tracked(m)
    BY <1>1, <1>3, <1>6, <2>1 DEF Tracked, LeftOut
  <2>3. \A i \in Blocks :
           /\ m.began[i] = "none" \/ i \in DOMAIN m.held => client.blocks[i] = "none"
           /\ m.began[i] # "none" /\ i \notin m.ended \cup DOMAIN m.held \cup LeftOut(m) =>
                client.blocks[i] = "open"
           /\ m.began[i] = "tool_use" /\ i \in m.ended => client.blocks[i] # "none"
    BY <1>1, <1>3, <1>6, <2>1 DEF LeftOut
  <2>4. MessagesSound(Outcome(m, Only(<<>>), FALSE))
    BY <1>1, <1>3, <1>6, <2>2, <2>3, QuietSound
  <2> QED
    BY <2>4 DEF m, n
<1>10. CASE f.type = "content_block_stop" /\ f.index \in state.filtered
  <2>1. /\ filtered = state.filtered \ {f.index} /\ m.ended = state.ended \cup {f.index}
        /\ \A i \in Blocks : m.began[i] = state.began[i]
    BY <1>3, <1>6, <1>10 DEF filtered
  <2>2. state.began[f.index] \notin {"none", "tool_use"}
    BY <1>1, <1>2, <1>10 DEF MessagesSends, Tracked, LeftOut
  <2>3. Tracked(m)
    BY <1>1, <1>3, <1>6, <2>1, <2>2 DEF Tracked, LeftOut
  <2>4. \A i \in Blocks :
           /\ m.began[i] = "none" \/ i \in DOMAIN m.held => client.blocks[i] = "none"
           /\ m.began[i] # "none" /\ i \notin m.ended \cup DOMAIN m.held \cup LeftOut(m) =>
                client.blocks[i] = "open"
           /\ m.began[i] = "tool_use" /\ i \in m.ended => client.blocks[i] # "none"
    BY <1>1, <1>3, <1>6, <2>1, <2>2 DEF LeftOut
  <2>5. MessagesSound(Outcome(m, Only(<<>>), FALSE))
    BY <1>1, <1>3, <1>6, <2>3, <2>4, QuietSound
  <2> QED
    BY <2>5 DEF m, n
<1> QED
  BY <1>7, <1>8, <1>9, <1>10

\* Reasoning that comes after text is left out.
LEMMA LateThoughtSound ==
  ASSUME NEW f, ReadsMessages(f), LateThought(Noted(state, f), f)
  PROVE  MessagesSound(Outcome(DropThought(Noted(state, f), f), Only(<<>>), FALSE))
<1> DEFINE n == Noted(state, f)
           m == DropThought(n, f)
           dropped == IF f.type = "content_block_start" THEN n.dropped \cup {f.index} ELSE n.dropped
<1>1. /\ state \in MessagesState /\ Tracked(state) /\ ~state.terminal
      /\ client.spoken => state.sawText
      /\ f.index \in Blocks /\ f.index \in Nat
      /\ \A i \in Blocks :
           /\ state.began[i] = "none" \/ i \in DOMAIN state.held => client.blocks[i] = "none"
           /\ state.began[i] # "none" /\ i \notin state.ended \cup DOMAIN state.held \cup LeftOut(state) =>
                client.blocks[i] = "open"
           /\ state.began[i] = "tool_use" /\ i \in state.ended => client.blocks[i] # "none"
  BY MessagesRead
<1>2. f \in MessagesFrame /\ MessagesSends(state, f)
  BY DEF ReadsMessages
<1>3. /\ n \in MessagesState /\ n.hosted = state.hosted /\ n.filtered = state.filtered
      /\ n.dropped = state.dropped /\ n.held = state.held /\ n.sawText = state.sawText
      /\ n.terminal = state.terminal /\ DOMAIN n.began = Blocks
      /\ \A i \in Blocks : n.began[i] = IF i = f.index /\ f.type = "content_block_start" THEN f.kind
                                        ELSE state.began[i]
      /\ n.ended = state.ended \cup (IF f.type = "content_block_stop" THEN {f.index} ELSE {})
  BY <1>1, <1>2, NotedParts
<1> HIDE DEF n
<1>4. dropped \in SUBSET Nat
  BY <1>1, <1>3 DEF MessagesState
<1>5. m = [n EXCEPT !.dropped = dropped]
  BY <1>3 DEF DropThought, MessagesState
<1> HIDE DEF dropped
<1>6. /\ m \in MessagesState /\ m.hosted = n.hosted /\ m.filtered = n.filtered /\ m.dropped = dropped
      /\ m.held = n.held /\ m.sawText = n.sawText /\ m.terminal = n.terminal /\ m.began = n.began
      /\ m.ended = n.ended
  BY <1>3, <1>4, <1>5 DEF MessagesState
<1> HIDE DEF m
<1>7. \/ f.type = "content_block_start" /\ f.kind = "thinking"
      \/ f.type = "content_block_delta"
      \/ f.type = "content_block_stop" /\ f.index \in state.dropped
  BY <1>3 DEF LateThought, Starts, Continues, n
<1>8. CASE f.type = "content_block_start" /\ f.kind = "thinking"
  <2>1. dropped = state.dropped \cup {f.index} /\ m.ended = state.ended
    BY <1>3, <1>6, <1>8 DEF dropped
  <2>2. state.began[f.index] = "none"
    BY <1>2, <1>8 DEF MessagesSends
  <2>3. Tracked(m)
    BY <1>1, <1>3, <1>6, <1>8, <2>1, <2>2 DEF Tracked, LeftOut
  <2>4. \A i \in Blocks :
           /\ m.began[i] = "none" \/ i \in DOMAIN m.held => client.blocks[i] = "none"
           /\ m.began[i] # "none" /\ i \notin m.ended \cup DOMAIN m.held \cup LeftOut(m) =>
                client.blocks[i] = "open"
           /\ m.began[i] = "tool_use" /\ i \in m.ended => client.blocks[i] # "none"
    BY <1>1, <1>3, <1>6, <1>8, <2>1, <2>2 DEF Tracked, LeftOut
  <2>5. MessagesSound(Outcome(m, Only(<<>>), FALSE))
    BY <1>1, <1>3, <1>6, <2>3, <2>4, QuietSound
  <2> QED
    BY <2>5 DEF m, n
<1>9. CASE f.type = "content_block_delta"
  <2>1. dropped = state.dropped /\ m.ended = state.ended /\ \A i \in Blocks : m.began[i] = state.began[i]
    BY <1>3, <1>6, <1>9 DEF dropped
  <2>2. Tracked(m)
    BY <1>1, <1>3, <1>6, <2>1 DEF Tracked, LeftOut
  <2>3. \A i \in Blocks :
           /\ m.began[i] = "none" \/ i \in DOMAIN m.held => client.blocks[i] = "none"
           /\ m.began[i] # "none" /\ i \notin m.ended \cup DOMAIN m.held \cup LeftOut(m) =>
                client.blocks[i] = "open"
           /\ m.began[i] = "tool_use" /\ i \in m.ended => client.blocks[i] # "none"
    BY <1>1, <1>3, <1>6, <2>1 DEF LeftOut
  <2>4. MessagesSound(Outcome(m, Only(<<>>), FALSE))
    BY <1>1, <1>3, <1>6, <2>2, <2>3, QuietSound
  <2> QED
    BY <2>4 DEF m, n
<1>10. CASE f.type = "content_block_stop" /\ f.index \in state.dropped
  <2>1. /\ dropped = state.dropped /\ m.ended = state.ended \cup {f.index}
        /\ \A i \in Blocks : m.began[i] = state.began[i]
    BY <1>3, <1>6, <1>10 DEF dropped
  <2>2. state.began[f.index] \notin {"none", "tool_use"}
    BY <1>1, <1>2, <1>10 DEF MessagesSends, Tracked, LeftOut
  <2>3. Tracked(m)
    BY <1>1, <1>3, <1>6, <2>1, <2>2 DEF Tracked, LeftOut
  <2>4. \A i \in Blocks :
           /\ m.began[i] = "none" \/ i \in DOMAIN m.held => client.blocks[i] = "none"
           /\ m.began[i] # "none" /\ i \notin m.ended \cup DOMAIN m.held \cup LeftOut(m) =>
                client.blocks[i] = "open"
           /\ m.began[i] = "tool_use" /\ i \in m.ended => client.blocks[i] # "none"
    BY <1>1, <1>3, <1>6, <2>1, <2>2 DEF LeftOut
  <2>5. MessagesSound(Outcome(m, Only(<<>>), FALSE))
    BY <1>1, <1>3, <1>6, <2>3, <2>4, QuietSound
  <2> QED
    BY <2>5 DEF m, n
<1> QED
  BY <1>7, <1>8, <1>9, <1>10

\* A frame that neither the search filter nor the thought rectifier leaves out.
Passes(f) ==
  /\ ReadsMessages(f) /\ ~Searches(Noted(state, f), f) /\ ~LateThought(Noted(state, f), f)

\* What is known when it comes to messagesToolRectifier.
LEMMA PassesOn ==
  ASSUME NEW f, Passes(f)
  PROVE  LET t == NoteText(Noted(state, f), f) IN
         /\ t \in MessagesState /\ t.hosted = state.hosted /\ t.filtered = state.filtered
         /\ t.dropped = state.dropped /\ t.held = state.held /\ ~t.terminal
         /\ client.spoken \/ (f.kind = "text" /\ f.flag) => t.sawText
         /\ DOMAIN t.began = Blocks
         /\ \A i \in Blocks : t.began[i] = IF i = f.index /\ f.type = "content_block_start" THEN f.kind
                                           ELSE state.began[i]
         /\ t.ended = state.ended \cup (IF f.type = "content_block_stop" THEN {f.index} ELSE {})
         /\ f.type = "content_block_start" => state.began[f.index] = "none" /\ f.kind # "none"
         /\ f.type \in {"content_block_delta", "content_block_stop"} =>
              /\ state.began[f.index] # "none" /\ state.began[f.index] = f.kind
              /\ f.index \notin state.ended \cup LeftOut(state)
         /\ f.type \in {"content_block_start", "content_block_delta"} /\ f.kind = "thinking" =>
              ~client.spoken
<1> DEFINE n == Noted(state, f)
           t == NoteText(n, f)
           sawText == n.sawText \/ (f.kind = "text" /\ f.flag)
<1>1. ReadsMessages(f) /\ f \in MessagesFrame /\ MessagesSends(state, f)
  BY DEF Passes, ReadsMessages
<1>2. /\ state \in MessagesState /\ Tracked(state) /\ ~state.terminal
      /\ client.spoken => state.sawText
      /\ f.index \in Blocks /\ f.index \in Nat
  BY <1>1, MessagesRead
<1>3. /\ n \in MessagesState /\ n.hosted = state.hosted /\ n.filtered = state.filtered
      /\ n.dropped = state.dropped /\ n.held = state.held /\ n.sawText = state.sawText
      /\ n.terminal = state.terminal /\ DOMAIN n.began = Blocks
      /\ \A i \in Blocks : n.began[i] = IF i = f.index /\ f.type = "content_block_start" THEN f.kind
                                        ELSE state.began[i]
      /\ n.ended = state.ended \cup (IF f.type = "content_block_stop" THEN {f.index} ELSE {})
  BY <1>1, <1>2, NotedParts
<1>4. ~Searches(n, f) /\ ~LateThought(n, f)
  BY DEF Passes
<1> HIDE DEF n
<1>5. sawText \in BOOLEAN
  BY <1>3 DEF MessagesState
<1>6. t = [n EXCEPT !.sawText = sawText]
  BY <1>3 DEF NoteText, MessagesState
<1>7. client.spoken \/ (f.kind = "text" /\ f.flag) => sawText
  BY <1>2, <1>3
<1> HIDE DEF sawText
<1>8. /\ t \in MessagesState /\ t.hosted = n.hosted /\ t.filtered = n.filtered /\ t.dropped = n.dropped
      /\ t.held = n.held /\ t.sawText = sawText /\ t.terminal = n.terminal /\ t.began = n.began
      /\ t.ended = n.ended
  BY <1>3, <1>5, <1>6 DEF MessagesState
<1> HIDE DEF t
<1>9. f.type = "content_block_start" => state.began[f.index] = "none" /\ f.kind # "none"
  BY <1>1 DEF MessagesSends
<1>10. f.type \in {"content_block_delta", "content_block_stop"} =>
         /\ state.began[f.index] # "none" /\ state.began[f.index] = f.kind
         /\ f.index \notin state.ended \cup LeftOut(state)
  <2>1. SUFFICES ASSUME f.type \in {"content_block_delta", "content_block_stop"}
                 PROVE  /\ state.began[f.index] # "none" /\ state.began[f.index] = f.kind
                        /\ f.index \notin state.ended \cup LeftOut(state)
    OBVIOUS
  <2>2. state.began[f.index] # "none" /\ state.began[f.index] = f.kind /\ f.index \notin state.ended
    BY <1>1, <2>1 DEF MessagesSends
  <2>3. f.index \notin state.dropped
    BY <1>3, <1>4, <2>1 DEF LateThought, Continues
  <2>4. f.index \notin state.filtered
    BY <1>2, <1>3, <1>4, <2>1 DEF Searches, Continues, Tracked
  <2> QED
    BY <2>2, <2>3, <2>4 DEF LeftOut
<1>11. f.type \in {"content_block_start", "content_block_delta"} /\ f.kind = "thinking" =>
         ~client.spoken
  BY <1>2, <1>3, <1>4 DEF LateThought, Starts
<1> QED
  BY <1>2, <1>3, <1>7, <1>8, <1>9, <1>10, <1>11 DEF t, n

\* The start of a call is held back, and so are its arguments.
LEMMA HeldSound ==
  ASSUME NEW f, Passes(f), NEW held,
         LET t == NoteText(Noted(state, f), f) IN
           \/ /\ f.type = "content_block_start" /\ f.kind = "tool_use"
              /\ held = [i \in DOMAIN t.held \cup {f.index} |-> i # f.index /\ t.held[i]]
           \/ /\ f.type = "content_block_delta" /\ f.index \in DOMAIN t.held
              /\ held = [t.held EXCEPT ![f.index] = TRUE]
  PROVE  MessagesSound(Outcome([NoteText(Noted(state, f), f) EXCEPT !.held = held], Only(<<>>), FALSE))
<1> DEFINE t == NoteText(Noted(state, f), f)
           m == [t EXCEPT !.held = held]
<1>1. ReadsMessages(f)
  BY DEF Passes
<1>2. /\ t \in MessagesState /\ t.hosted = state.hosted /\ t.filtered = state.filtered
      /\ t.dropped = state.dropped /\ t.held = state.held /\ ~t.terminal
      /\ client.spoken => t.sawText
      /\ DOMAIN t.began = Blocks
      /\ \A i \in Blocks : t.began[i] = IF i = f.index /\ f.type = "content_block_start" THEN f.kind
                                        ELSE state.began[i]
      /\ t.ended = state.ended \cup (IF f.type = "content_block_stop" THEN {f.index} ELSE {})
      /\ f.type = "content_block_start" => state.began[f.index] = "none"
      /\ f.type = "content_block_delta" => f.index \notin state.ended \cup LeftOut(state)
  BY PassesOn
<1>3. /\ state \in MessagesState /\ Tracked(state) /\ f.index \in Blocks /\ f.index \in Nat
      /\ Blocks \subseteq Nat
      /\ \A i \in Blocks :
           /\ state.began[i] = "none" \/ i \in DOMAIN state.held => client.blocks[i] = "none"
           /\ state.began[i] # "none" /\ i \notin state.ended \cup DOMAIN state.held \cup LeftOut(state) =>
                client.blocks[i] = "open"
           /\ state.began[i] = "tool_use" /\ i \in state.ended => client.blocks[i] # "none"
  BY <1>1, MessagesRead
<1>4. \/ /\ f.type = "content_block_start" /\ f.kind = "tool_use"
         /\ held = [i \in DOMAIN t.held \cup {f.index} |-> i # f.index /\ t.held[i]]
      \/ /\ f.type = "content_block_delta" /\ f.index \in DOMAIN t.held
         /\ held = [t.held EXCEPT ![f.index] = TRUE]
  OBVIOUS
<1> HIDE DEF t
<1>5. PICK S \in SUBSET Nat : t.held \in [S -> BOOLEAN]
  BY <1>2 DEF MessagesState
<1>6. \/ f.type = "content_block_start" /\ f.kind = "tool_use" /\ DOMAIN held = DOMAIN t.held \cup {f.index}
      \/ f.type = "content_block_delta" /\ f.index \in DOMAIN t.held /\ DOMAIN held = DOMAIN t.held
  BY <1>4
<1>7. held \in UNION {[Q -> BOOLEAN] : Q \in SUBSET Nat}
  <2>1. held \in [DOMAIN held -> BOOLEAN]
    <3>1. CASE f.type = "content_block_start"
      BY <1>4, <1>5, <3>1
    <3>2. CASE f.type # "content_block_start"
      BY <1>4, <1>5, <3>2
    <3> QED
      BY <3>1, <3>2
  <2>2. DOMAIN held \in SUBSET Nat
    BY <1>3, <1>5, <1>6
  <2> QED
    BY <2>1, <2>2
<1>8. /\ m \in MessagesState /\ m.hosted = t.hosted /\ m.filtered = t.filtered /\ m.dropped = t.dropped
      /\ m.held = held /\ m.sawText = t.sawText /\ m.terminal = t.terminal /\ m.began = t.began
      /\ m.ended = t.ended
  BY <1>2, <1>7 DEF MessagesState
<1> HIDE DEF m
<1>9. m.ended = state.ended
  BY <1>2, <1>6, <1>8
<1>10. Tracked(m)
  <2>1. CASE f.type = "content_block_start"
    <3>1. DOMAIN m.held = DOMAIN state.held \cup {f.index} /\ f.kind = "tool_use"
      BY <1>2, <1>6, <1>8, <2>1
    <3>2. state.began[f.index] = "none"
      BY <1>2, <2>1
    <3>3. f.index \notin state.ended \cup DOMAIN state.held \cup LeftOut(state)
      BY <1>3, <3>2 DEF Tracked
    <3>4. LeftOut(m) = LeftOut(state)
      BY <1>2, <1>8 DEF LeftOut
    <3>5. m.began[f.index] = "tool_use" /\ \A i \in Blocks \ {f.index} : m.began[i] = state.began[i]
      BY <1>2, <1>3, <1>8, <2>1, <3>1
    <3>6. ~m.terminal
      BY <1>2, <1>8
    <3>7. /\ DOMAIN m.began = Blocks /\ DOMAIN m.held \subseteq Blocks /\ m.filtered \subseteq Blocks
          /\ m.dropped \subseteq Blocks /\ m.ended \subseteq Blocks /\ (m.filtered # {} => m.hosted)
      BY <1>2, <1>3, <1>8, <1>9, <3>1 DEF Tracked
    <3>8. ASSUME NEW i \in Blocks
          PROVE  /\ m.began[i] = "none" => i \notin m.ended \cup DOMAIN m.held \cup LeftOut(m)
                 /\ i \in DOMAIN m.held => m.began[i] = "tool_use" /\ i \notin m.ended
                 /\ i \in LeftOut(m) => m.began[i] # "tool_use"
      BY <1>3, <1>9, <3>1, <3>3, <3>4, <3>5 DEF Tracked
    <3> QED
      BY <3>6, <3>7, <3>8 DEF Tracked
  <2>2. CASE f.type = "content_block_delta"
    BY <1>2, <1>3, <1>6, <1>8, <1>9, <2>2 DEF Tracked, LeftOut
  <2> QED
    BY <1>6, <2>1, <2>2
<1>11. \A i \in Blocks :
         /\ m.began[i] = "none" \/ i \in DOMAIN m.held => client.blocks[i] = "none"
         /\ m.began[i] # "none" /\ i \notin m.ended \cup DOMAIN m.held \cup LeftOut(m) =>
              client.blocks[i] = "open"
         /\ m.began[i] = "tool_use" /\ i \in m.ended => client.blocks[i] # "none"
  <2>1. CASE f.type = "content_block_start"
    BY <1>2, <1>3, <1>6, <1>8, <1>9, <2>1 DEF Tracked, LeftOut
  <2>2. CASE f.type = "content_block_delta"
    BY <1>2, <1>3, <1>6, <1>8, <1>9, <2>2 DEF LeftOut
  <2> QED
    BY <1>6, <2>1, <2>2
<1>12. MessagesSound(Outcome(m, Only(<<>>), FALSE))
  BY <1>1, <1>2, <1>8, <1>10, <1>11, QuietSound
<1> QED
  BY <1>12 DEF m, t

\* A call is shown whole when its block stops.
LEMMA ReleasedSound ==
  ASSUME NEW f, Passes(f), f.type = "content_block_stop", f.index \in DOMAIN state.held
  PROVE  LET t == NoteText(Noted(state, f), f) IN
         MessagesSound(Outcome(Release(t, f.index),
                               Only(Resolved(t, f.index) \o <<Frame("other", "stop", f.index)>>), FALSE))
<1> DEFINE t == NoteText(Noted(state, f), f)
           held == [j \in DOMAIN t.held \ {f.index} |-> t.held[j]]
           m == Release(t, f.index)
           b == Only(Resolved(t, f.index) \o <<Frame("other", "stop", f.index)>>)
<1>1. ReadsMessages(f)
  BY DEF Passes
<1>2. /\ t \in MessagesState /\ t.hosted = state.hosted /\ t.filtered = state.filtered
      /\ t.dropped = state.dropped /\ t.held = state.held /\ ~t.terminal
      /\ client.spoken => t.sawText
      /\ DOMAIN t.began = Blocks
      /\ \A i \in Blocks : t.began[i] = state.began[i]
      /\ t.ended = state.ended \cup {f.index}
  BY PassesOn
<1>3. /\ state \in MessagesState /\ Tracked(state) /\ f.index \in Blocks /\ f.index \in Nat
      /\ Blocks \subseteq Nat /\ Blocks \subseteq Places
      /\ client.blocks \in [Places -> {"none", "open", "stopped"}] /\ client.spoken \in BOOLEAN
      /\ \A i \in Blocks :
           /\ state.began[i] = "none" \/ i \in DOMAIN state.held => client.blocks[i] = "none"
           /\ state.began[i] # "none" /\ i \notin state.ended \cup DOMAIN state.held \cup LeftOut(state) =>
                client.blocks[i] = "open"
           /\ state.began[i] = "tool_use" /\ i \in state.ended => client.blocks[i] # "none"
  BY <1>1, MessagesRead
<1> HIDE DEF t
<1>4. PICK S \in SUBSET Nat : t.held \in [S -> BOOLEAN]
  BY <1>2 DEF MessagesState
<1>5. /\ held \in UNION {[Q -> BOOLEAN] : Q \in SUBSET Nat}
      /\ DOMAIN held = DOMAIN state.held \ {f.index}
  <2>1. held \in [S \ {f.index} -> BOOLEAN] /\ S \ {f.index} \in SUBSET Nat
    BY <1>4
  <2>2. DOMAIN held = DOMAIN state.held \ {f.index}
    BY <1>2
  <2> HIDE DEF held
  <2> QED
    BY <2>1, <2>2
<1>6. m = [t EXCEPT !.held = held]
  BY <1>2 DEF Release, MessagesState
<1> HIDE DEF held
<1>7. /\ m \in MessagesState /\ m.hosted = t.hosted /\ m.filtered = t.filtered /\ m.dropped = t.dropped
      /\ m.held = held /\ m.sawText = t.sawText /\ m.terminal = t.terminal /\ m.began = t.began
      /\ m.ended = t.ended
  BY <1>2, <1>5, <1>6 DEF MessagesState
<1> HIDE DEF m
<1>8. state.began[f.index] = "tool_use" /\ f.index \notin state.ended \cup LeftOut(state)
  BY <1>3 DEF Tracked
<1>9. /\ LeftOut(m) = LeftOut(state) /\ m.ended = state.ended \cup {f.index} /\ ~m.terminal
      /\ DOMAIN m.held = DOMAIN state.held \ {f.index}
      /\ \A i \in Blocks : m.began[i] = state.began[i]
  BY <1>2, <1>5, <1>7 DEF LeftOut
<1>10. Tracked(m)
  BY <1>2, <1>3, <1>7, <1>8, <1>9 DEF Tracked
<1>11. client.blocks[f.index] = "none"
  BY <1>3
<1>12. b = Only(Started(f.index, t.held[f.index]) \o <<Frame("other", "stop", f.index)>>)
  BY DEF Resolved, Started
<1>13. /\ b \in AnyBurst /\ BlocksFollow(b, client.blocks) /\ ThoughtsLead(b, client.spoken) /\ EndLast(b)
       /\ DOMAIN b.blocks = {} /\ ~Holds(b.after, "text") /\ ~Holds(b.frames, "text") /\ ~EndComes(b)
       /\ \A j : Reached(b, client.blocks, j) = IF j = f.index THEN "stopped" ELSE client.blocks[j]
  BY <1>3, <1>11, <1>12, StartedAndStopped
<1> HIDE DEF b
<1>14. Matches(m, b, client.blocks)
  BY <1>3, <1>8, <1>9, <1>13 DEF Matches
<1> DEFINE r == Outcome(m, b, FALSE)
<1>15. r.out = b /\ r.state = m /\ r.bad = FALSE
  BY DEF Outcome
<1> HIDE DEF r
<1>16. MessagesSound(r)
  BY <1>2, <1>7, <1>9, <1>10, <1>13, <1>14, <1>15 DEF MessagesSound
<1> QED
  BY <1>16 DEF r, b, m, t

\* The end of the stream, after whatever was still held.
LEMMA EndSound ==
  ASSUME NEW f, Passes(f), f.type \in {"message_stop", "error"},
         NEW kind \in {"terminal", "error"}
  PROVE  LET t == NoteText(Noted(state, f), f) IN
         MessagesSound(Outcome([t EXCEPT !.held = NoHeld, !.terminal = TRUE],
                               Burst(<<>>, FlushHeld(t), <<Plain(kind)>>), FALSE))
<1> DEFINE t == NoteText(Noted(state, f), f)
           m == [t EXCEPT !.held = NoHeld, !.terminal = TRUE]
           b == Burst(<<>>, FlushHeld(t), <<Plain(kind)>>)
<1>1. ReadsMessages(f)
  BY DEF Passes
<1>2. /\ t \in MessagesState /\ t.hosted = state.hosted /\ t.filtered = state.filtered
      /\ t.dropped = state.dropped /\ t.held = state.held /\ ~t.terminal
      /\ client.spoken => t.sawText
      /\ DOMAIN t.began = Blocks
      /\ \A i \in Blocks : t.began[i] = state.began[i]
      /\ t.ended = state.ended
  BY PassesOn
<1>3. /\ state \in MessagesState /\ Tracked(state)
      /\ Blocks \subseteq Nat /\ Blocks \subseteq Places
      /\ client.blocks \in [Places -> {"none", "open", "stopped"}] /\ client.spoken \in BOOLEAN
      /\ \A i \in Blocks :
           /\ state.began[i] = "none" \/ i \in DOMAIN state.held => client.blocks[i] = "none"
           /\ state.began[i] # "none" /\ i \notin state.ended \cup DOMAIN state.held \cup LeftOut(state) =>
                client.blocks[i] = "open"
           /\ state.began[i] = "tool_use" /\ i \in state.ended => client.blocks[i] # "none"
  BY <1>1, MessagesRead
<1> HIDE DEF t
<1>4. NoHeld \in UNION {[Q -> BOOLEAN] : Q \in SUBSET Nat} /\ DOMAIN NoHeld = {}
  <2>1. NoHeld \in [{} -> BOOLEAN] /\ {} \in SUBSET Nat
    BY DEF NoHeld
  <2>2. DOMAIN NoHeld = {}
    BY DEF NoHeld
  <2> QED
    BY <2>1, <2>2
<1>5. /\ m \in MessagesState /\ m.hosted = t.hosted /\ m.filtered = t.filtered /\ m.dropped = t.dropped
      /\ m.held = NoHeld /\ m.sawText = t.sawText /\ m.terminal = TRUE /\ m.began = t.began
      /\ m.ended = t.ended
  BY <1>2, <1>4 DEF MessagesState
<1> HIDE DEF m
<1>6. /\ LeftOut(m) = LeftOut(state) /\ m.ended = state.ended /\ DOMAIN m.held = {}
      /\ \A i \in Blocks : m.began[i] = state.began[i]
  BY <1>2, <1>4, <1>5 DEF LeftOut
<1>7. Tracked(m)
  BY <1>2, <1>3, <1>5, <1>6 DEF Tracked
<1>8. DOMAIN t.held \subseteq Blocks /\ \A i \in DOMAIN t.held : client.blocks[i] = "none"
  BY <1>2, <1>3 DEF Tracked
<1>9. /\ b \in AnyBurst /\ BlocksFollow(b, client.blocks) /\ ThoughtsLead(b, client.spoken) /\ EndLast(b)
      /\ ~Holds(b.after, "text") /\ ~Holds(b.frames, "text")
      /\ \A i \in DOMAIN b.blocks : ~Holds(b.blocks[i], "text")
      /\ EndComes(b)
      /\ \A i : Reached(b, client.blocks, i) = IF i \in DOMAIN t.held THEN "open" ELSE client.blocks[i]
  BY <1>3, <1>8, HeldReleased
<1> HIDE DEF b
<1>10. Matches(m, b, client.blocks)
  BY <1>2, <1>3, <1>6, <1>9 DEF Matches, Tracked
<1> DEFINE r == Outcome(m, b, FALSE)
<1>11. r.out = b /\ r.state = m /\ r.bad = FALSE
  BY DEF Outcome
<1> HIDE DEF r
<1>12. MessagesSound(r)
  BY <1>2, <1>5, <1>7, <1>9, <1>10, <1>11 DEF MessagesSound
<1> QED
  BY <1>12 DEF r, b, m, t

\* Any other frame is passed on.
LEMMA PassedSound ==
  ASSUME NEW f, Passes(f), f.type \notin {"message_stop", "error"},
         ~(f.type = "content_block_start" /\ f.kind = "tool_use"),
         f.type \in {"content_block_delta", "content_block_stop"} => f.index \notin DOMAIN state.held
  PROVE  MessagesSound(Outcome(NoteText(Noted(state, f), f), Only(<<Passing(f)>>), FALSE))
<1> DEFINE m == NoteText(Noted(state, f), f)
           e == Passing(f)
           b == Only(<<e>>)
<1>1. ReadsMessages(f) /\ f \in MessagesFrame
  BY DEF Passes, ReadsMessages
<1>2. /\ m \in MessagesState /\ m.hosted = state.hosted /\ m.filtered = state.filtered
      /\ m.dropped = state.dropped /\ m.held = state.held /\ ~m.terminal
      /\ client.spoken \/ (f.kind = "text" /\ f.flag) => m.sawText
      /\ DOMAIN m.began = Blocks
      /\ \A i \in Blocks : m.began[i] = IF i = f.index /\ f.type = "content_block_start" THEN f.kind
                                        ELSE state.began[i]
      /\ m.ended = state.ended \cup (IF f.type = "content_block_stop" THEN {f.index} ELSE {})
      /\ f.type = "content_block_start" => state.began[f.index] = "none" /\ f.kind # "none"
      /\ f.type \in {"content_block_delta", "content_block_stop"} =>
           /\ state.began[f.index] # "none" /\ state.began[f.index] = f.kind
           /\ f.index \notin state.ended \cup LeftOut(state)
      /\ f.type \in {"content_block_start", "content_block_delta"} /\ f.kind = "thinking" =>
           ~client.spoken
  BY PassesOn
<1>3. /\ state \in MessagesState /\ Tracked(state) /\ f.index \in Blocks /\ f.index \in Nat
      /\ Blocks \subseteq Nat /\ Blocks \subseteq Places
      /\ client.blocks \in [Places -> {"none", "open", "stopped"}] /\ client.spoken \in BOOLEAN
      /\ \A i \in Blocks :
           /\ state.began[i] = "none" \/ i \in DOMAIN state.held => client.blocks[i] = "none"
           /\ state.began[i] # "none" /\ i \notin state.ended \cup DOMAIN state.held \cup LeftOut(state) =>
                client.blocks[i] = "open"
           /\ state.began[i] = "tool_use" /\ i \in state.ended => client.blocks[i] # "none"
  BY <1>1, MessagesRead
<1> HIDE DEF m
<1> DEFINE shows == IF f.type = "content_block_start" THEN "start"
                    ELSE IF f.type = "content_block_delta" THEN "delta"
                    ELSE IF f.type = "content_block_stop" THEN "stop" ELSE "none"
<1>4. /\ e.kind \in {"thought", "text", "other"} /\ e.type = shows
      /\ e.kind = "thought" => shows \in {"start", "delta"} /\ f.kind = "thinking"
      /\ e.kind = "text" => f.kind = "text" /\ f.flag
      /\ shows # "none" => e.item = f.index
      /\ e.item \in Nat
  BY <1>1, <1>3 DEF Passing, Content, Frame, Plain, MessagesFrame
<1> HIDE DEF e
<1>5. e \in AnyFrame /\ Placed(e)
  <2>1. \E q, y, i : e = Frame(q, y, i)
    BY <1>1 DEF e, Passing, Plain, MessagesFrame
  <2>2. e = [kind |-> e.kind, type |-> e.type, item |-> e.item]
    BY <2>1 DEF Frame
  <2> QED
    BY <1>3, <1>4, <2>2 DEF AnyFrame, Placed
<1>6. e.type # "none" => client.blocks[e.item] \in Follows[e.type]
  <2>1. CASE f.type = "content_block_start"
    BY <1>2, <1>3, <1>4, <2>1 DEF Follows
  <2>2. CASE f.type \in {"content_block_delta", "content_block_stop"}
    <3>1. client.blocks[f.index] = "open"
      BY <1>2, <1>3, <2>2
    <3> QED
      BY <1>4, <2>2, <3>1 DEF Follows
  <2> QED
    BY <1>4, <2>1, <2>2
<1>7. e.kind = "thought" => ~client.spoken
  BY <1>2, <1>4
<1>8. /\ b \in AnyBurst /\ BlocksFollow(b, client.blocks)
      /\ ThoughtsLead(b, client.spoken) /\ EndLast(b)
      /\ DOMAIN b.blocks = {} /\ ~Holds(b.after, "text")
      /\ Holds(b.frames, "text") => e.kind = "text"
      /\ EndComes(b) <=> Ends(e)
      /\ \A i : Reached(b, client.blocks, i) =
                  IF e.type # "none" /\ e.item = i THEN BlockAfter(e.type) ELSE client.blocks[i]
  BY <1>3, <1>5, <1>6, <1>7, OneFrame
<1> HIDE DEF b
<1>9. ~EndComes(b)
  BY <1>4, <1>8 DEF Ends
<1>10. client.spoken \/ Holds(b.frames, "text") => m.sawText
  BY <1>2, <1>4, <1>8
<1>11. LeftOut(m) = LeftOut(state) /\ DOMAIN m.held = DOMAIN state.held
  BY <1>2 DEF LeftOut
<1>12. Tracked(m) /\ Matches(m, b, client.blocks)
  <2>1. CASE f.type = "content_block_start"
    <3>1. f.index \notin state.ended \cup DOMAIN state.held \cup LeftOut(state)
      BY <1>2, <1>3, <2>1 DEF Tracked
    <3>2. m.ended = state.ended /\ m.began[f.index] = f.kind /\ f.kind \notin {"none", "tool_use"}
      BY <1>2, <1>3, <2>1
    <3>3. \A i \in Blocks \ {f.index} : m.began[i] = state.began[i]
      BY <1>2, <2>1
    <3>4. /\ Reached(b, client.blocks, f.index) = "open"
          /\ \A i \in Blocks \ {f.index} : Reached(b, client.blocks, i) = client.blocks[i]
      BY <1>4, <1>8, <2>1 DEF BlockAfter
    <3>5. Tracked(m)
      BY <1>2, <1>3, <1>11, <3>1, <3>2, <3>3 DEF Tracked
    <3>6. Matches(m, b, client.blocks)
      BY <1>3, <1>11, <3>1, <3>2, <3>3, <3>4 DEF Matches
    <3> QED
      BY <3>5, <3>6
  <2>2. CASE f.type = "content_block_delta"
    <3>1. m.ended = state.ended /\ \A i \in Blocks : m.began[i] = state.began[i]
      BY <1>2, <2>2
    <3>2. client.blocks[f.index] = "open"
      BY <1>2, <1>3, <2>2
    <3>3. \A i \in Blocks : Reached(b, client.blocks, i) = client.blocks[i]
      BY <1>4, <1>8, <2>2, <3>2 DEF BlockAfter
    <3>4. Tracked(m)
      BY <1>2, <1>3, <1>11, <3>1 DEF Tracked
    <3>5. Matches(m, b, client.blocks)
      BY <1>3, <1>11, <3>1, <3>3 DEF Matches
    <3> QED
      BY <3>4, <3>5
  <2>3. CASE f.type = "content_block_stop"
    <3>1. m.ended = state.ended \cup {f.index} /\ \A i \in Blocks : m.began[i] = state.began[i]
      BY <1>2, <2>3
    <3>2. state.began[f.index] # "none" /\ f.index \notin DOMAIN state.held
      BY <1>2, <2>3
    <3>3. /\ Reached(b, client.blocks, f.index) = "stopped"
          /\ \A i \in Blocks \ {f.index} : Reached(b, client.blocks, i) = client.blocks[i]
      BY <1>4, <1>8, <2>3 DEF BlockAfter
    <3>4. Tracked(m)
      BY <1>2, <1>3, <1>11, <3>1, <3>2 DEF Tracked
    <3>5. Matches(m, b, client.blocks)
      BY <1>3, <1>11, <3>1, <3>2, <3>3 DEF Matches
    <3> QED
      BY <3>4, <3>5
  <2>4. CASE f.type \notin {"content_block_start", "content_block_delta", "content_block_stop"}
    <3>1. m.ended = state.ended /\ \A i \in Blocks : m.began[i] = state.began[i]
      BY <1>2, <2>4
    <3>2. \A i \in Blocks : Reached(b, client.blocks, i) = client.blocks[i]
      BY <1>4, <1>8, <2>4
    <3>3. Tracked(m)
      BY <1>2, <1>3, <1>11, <3>1 DEF Tracked
    <3>4. Matches(m, b, client.blocks)
      BY <1>3, <1>11, <3>1, <3>2 DEF Matches
    <3> QED
      BY <3>3, <3>4
  <2> QED
    BY <2>1, <2>2, <2>3, <2>4
<1> DEFINE r == Outcome(m, b, FALSE)
<1>13. r.out = b /\ r.state = m /\ r.bad = FALSE
  BY DEF Outcome
<1> HIDE DEF r
<1>14. MessagesSound(r)
  BY <1>2, <1>8, <1>9, <1>10, <1>12, <1>13 DEF MessagesSound
<1> QED
  BY <1>14 DEF r, b, e, m

\* Whatever the rectifiers make of a frame, the client can be shown it.
LEMMA HandledSound ==
  ASSUME NEW f, ReadsMessages(f), NEW r \in HandleMessages(state, f)
  PROVE  MessagesSound(r)
<1> DEFINE n == Noted(state, f)
           t == NoteText(n, f)
<1>1. /\ state \in MessagesState /\ Tracked(state) /\ ~state.terminal
      /\ client.spoken => state.sawText
      /\ \A i \in Blocks :
           /\ state.began[i] = "none" \/ i \in DOMAIN state.held => client.blocks[i] = "none"
           /\ state.began[i] # "none" /\ i \notin state.ended \cup DOMAIN state.held \cup LeftOut(state) =>
                client.blocks[i] = "open"
           /\ state.began[i] = "tool_use" /\ i \in state.ended => client.blocks[i] # "none"
  BY MessagesRead
<1>2. f \in MessagesFrame
  BY DEF ReadsMessages
<1>3. CASE f.type = "garbled"
  <2>1. ~Searches(n, f) /\ ~LateThought(n, f)
    BY <1>3 DEF Searches, LateThought, Starts, Continues
  <2>2. r \in Fails(state)
    BY <1>3, <2>1 DEF HandleMessages
  <2>3. r = Outcome(state, Only(<<>>), TRUE)
    BY <2>2 DEF Fails
  <2>4. MessagesSound(Outcome(state, Only(<<>>), TRUE))
    BY <1>1, QuietSound
  <2> QED
    BY <2>3, <2>4
<1>4. CASE f.type # "garbled" /\ Searches(n, f)
  <2>1. r \in Quiet(FilterSearch(n, f))
    BY <1>4 DEF HandleMessages
  <2>2. r = Outcome(FilterSearch(n, f), Only(<<>>), FALSE)
    BY <2>1 DEF Quiet, Gives
  <2>3. MessagesSound(Outcome(FilterSearch(n, f), Only(<<>>), FALSE))
    BY <1>4, SearchSound
  <2> QED
    BY <2>2, <2>3
<1>5. CASE f.type # "garbled" /\ ~Searches(n, f) /\ LateThought(n, f)
  <2>1. r \in Quiet(DropThought(n, f))
    BY <1>5 DEF HandleMessages
  <2>2. r = Outcome(DropThought(n, f), Only(<<>>), FALSE)
    BY <2>1 DEF Quiet, Gives
  <2>3. MessagesSound(Outcome(DropThought(n, f), Only(<<>>), FALSE))
    BY <1>5, LateThoughtSound
  <2> QED
    BY <2>2, <2>3
<1>6. CASE f.type # "garbled" /\ ~Searches(n, f) /\ ~LateThought(n, f)
  <2>1. Passes(f)
    BY <1>6 DEF Passes
  <2>2. t.held = state.held
    BY <2>1, PassesOn
  <2>3. r \in HoldTool(t, f)
    BY <1>6 DEF HandleMessages
  <2> HIDE DEF n, t
  <2>4. CASE f.type = "content_block_start" /\ f.kind = "tool_use"
    <3> DEFINE held == [i \in DOMAIN t.held \cup {f.index} |-> i # f.index /\ t.held[i]]
    <3>1. r \in Quiet([t EXCEPT !.held = held])
      BY <2>3, <2>4 DEF HoldTool
    <3>2. r = Outcome([t EXCEPT !.held = held], Only(<<>>), FALSE)
      BY <3>1 DEF Quiet, Gives
    <3>3. MessagesSound(Outcome([t EXCEPT !.held = held], Only(<<>>), FALSE))
      BY <2>1, <2>4, HeldSound DEF n, t
    <3> QED
      BY <3>2, <3>3
  <2>5. CASE f.type = "content_block_delta" /\ f.index \in DOMAIN t.held
    <3> DEFINE held == [t.held EXCEPT ![f.index] = TRUE]
    <3>1. r \in Quiet([t EXCEPT !.held = held])
      BY <2>3, <2>5 DEF HoldTool
    <3>2. r = Outcome([t EXCEPT !.held = held], Only(<<>>), FALSE)
      BY <3>1 DEF Quiet, Gives
    <3>3. MessagesSound(Outcome([t EXCEPT !.held = held], Only(<<>>), FALSE))
      BY <2>1, <2>5, HeldSound DEF n, t
    <3> QED
      BY <3>2, <3>3
  <2>6. CASE f.type = "content_block_stop" /\ f.index \in DOMAIN t.held
    <3>1. Passing(f) = Frame("other", "stop", f.index)
      BY <2>6 DEF Passing
    <3>2. r \in Gives(Release(t, f.index), Resolved(t, f.index) \o <<Passing(f)>>)
      BY <2>3, <2>6 DEF HoldTool
    <3>3. r = Outcome(Release(t, f.index),
                      Only(Resolved(t, f.index) \o <<Frame("other", "stop", f.index)>>), FALSE)
      BY <3>1, <3>2 DEF Gives
    <3>4. MessagesSound(Outcome(Release(t, f.index),
                                Only(Resolved(t, f.index) \o <<Frame("other", "stop", f.index)>>), FALSE))
      BY <2>1, <2>2, <2>6, ReleasedSound DEF n, t
    <3> QED
      BY <3>3, <3>4
  <2>7. CASE f.type \in {"message_stop", "error"}
    <3> DEFINE kind == IF f.type = "error" THEN "error" ELSE "terminal"
    <3>1. Passing(f) = Plain(kind) /\ kind \in {"terminal", "error"}
      BY <2>7 DEF Passing
    <3>2. r = Outcome([t EXCEPT !.held = NoHeld, !.terminal = TRUE],
                      Burst(<<>>, FlushHeld(t), <<Passing(f)>>), FALSE)
      BY <2>3, <2>7 DEF HoldTool
    <3> HIDE DEF kind
    <3>3. MessagesSound(Outcome([t EXCEPT !.held = NoHeld, !.terminal = TRUE],
                                Burst(<<>>, FlushHeld(t), <<Plain(kind)>>), FALSE))
      BY <2>1, <2>7, <3>1, EndSound DEF n, t
    <3> QED
      BY <3>1, <3>2, <3>3
  <2>8. CASE /\ f.type \notin {"message_stop", "error"}
             /\ ~(f.type = "content_block_start" /\ f.kind = "tool_use")
             /\ f.type \in {"content_block_delta", "content_block_stop"} => f.index \notin DOMAIN t.held
    <3>1. r \in Gives(t, <<Passing(f)>>)
      BY <2>3, <2>8 DEF HoldTool
    <3>2. r = Outcome(t, Only(<<Passing(f)>>), FALSE)
      BY <3>1 DEF Gives
    <3>3. MessagesSound(Outcome(t, Only(<<Passing(f)>>), FALSE))
      BY <2>1, <2>2, <2>8, PassedSound DEF n, t
    <3> QED
      BY <3>2, <3>3
  <2> QED
    BY <2>4, <2>5, <2>6, <2>7, <2>8
<1> QED
  BY <1>3, <1>4, <1>5, <1>6

\* A frame of a Messages stream.
LEMMA TakeMessagesIInv == ASSUME IInv, NEW f \in MessagesFrames, TakeMessages(f) PROVE IInv'
<1>1. /\ Reading /\ protocol = "messages" /\ MessagesSends(state, f) /\ frames' = frames + 1
      /\ UNCHANGED <<protocol, client, live, phase, over, failed, fired, afterEnd>>
  BY DEF TakeMessages, Take
<1>2. PICK r \in HandleMessages(state, f) :
        state' = r.state /\ out' = Settled(r.out) /\ outcome' = IF r.bad THEN "bad" ELSE "ok"
  BY DEF TakeMessages, Take, Runs
<1>3. ReadsMessages(f)
  BY <1>1, NativeAssumption DEF ReadsMessages
<1>4. MessagesSound(r)
  BY <1>2, <1>3, HandledSound
<1>5. /\ r.out \in AnyBurst /\ r.bad \in BOOLEAN /\ r.state \in MessagesState
      /\ BlocksFollow(r.out, client.blocks) /\ ThoughtsLead(r.out, client.spoken) /\ EndLast(r.out)
      /\ client.spoken \/ Holds(r.out.frames, "text") => r.state.sawText
      /\ ~Holds(r.out.after, "text")
      /\ \A i \in DOMAIN r.out.blocks : ~Holds(r.out.blocks[i], "text")
      /\ r.state.terminal <=> EndComes(r.out)
      /\ r.state.terminal => ~r.bad
      /\ Tracked(r.state) /\ Matches(r.state, r.out, client.blocks)
  BY <1>4 DEF MessagesSound
<1>6. frames' \in Nat /\ r.state.terminal \in BOOLEAN
  BY <1>1, <1>5 DEF IInv, Typed, MessagesState
<1>7. /\ Typed' /\ Orderly' /\ EndInv' /\ BurstInv' /\ TextNoted' /\ AtOnceInv'
      /\ BlocksInOrder' /\ CallsReported' /\ EndStands'
      /\ \A i : Reached(out', client'.blocks, i) = Reached(r.out, client.blocks, i)
      /\ client' = client
  BY <1>1, <1>2, <1>5, <1>6, TakenKeeps
<1>8. MessagesInv'
  BY <1>2, <1>5, <1>7 DEF MessagesInv, Matches
<1>9. ChatInv'
  BY <1>1 DEF ChatInv
<1> QED
  BY <1>7, <1>8, <1>9 DEF IInv

\* Every step of the specification keeps the invariant.
LEMMA NextIInv == IInv /\ [Next]_vars => IInv'
<1> SUFFICES ASSUME IInv, [Next]_vars
             PROVE  IInv'
  OBVIOUS
<1>1. CASE Refuse
  BY <1>1, RefuseIInv
<1>2. ASSUME phase = "starting", NEW body \in ChatBodies, BufferedChat(body)
      PROVE  IInv'
  BY <1>2, BufferedChatIInv
<1>3. ASSUME phase = "starting", NEW blocks \in MessagesBodies, BufferedMessages(blocks)
      PROVE  IInv'
  BY <1>3, BufferedMessagesIInv
<1>4. CASE Begin
  BY <1>4, BeginIInv
<1>5. CASE Write
  BY <1>5, WriteIInv
<1>6. CASE BodyEnds
  BY <1>6, BodyEndsIInv
<1>7. CASE Return
  BY <1>7, ReturnIInv
<1>8. CASE Finish
  BY <1>8, FinishIInv
<1>9. CASE Judge
  BY <1>9, JudgeIInv
<1>10. CASE Fire
  BY <1>10, FireIInv
<1>11. CASE Cancel
  BY <1>11, CancelIInv
<1>12. ASSUME NEW f \in ChatFrames, TakeChat(f)
       PROVE  IInv'
  BY <1>12, TakeChatIInv
<1>13. ASSUME NEW f \in MessagesFrames, TakeMessages(f)
       PROVE  IInv'
  BY <1>13, TakeMessagesIInv
<1>14. CASE UNCHANGED vars
  <2>1. UNCHANGED <<protocol, client, live, phase, over, state, out, outcome, failed, fired, frames, afterEnd>>
    BY <1>14 DEF vars
  <2>2. Typed' /\ Orderly' /\ EndInv' /\ BurstInv' /\ TextNoted'
    BY <2>1 DEF IInv, Typed, Orderly, EndInv, BurstInv, TextNoted, Answering, Scans, Read
  <2>3. ChatInv' /\ MessagesInv' /\ AtOnceInv'
    BY <2>1 DEF IInv, ChatInv, MessagesInv, AtOnceInv, Scans, Read, FlushedOut, Demands
  <2>4. BlocksInOrder' /\ CallsReported' /\ EndStands'
    BY <2>1 DEF IInv, BlocksInOrder, CallsReported, EndStands, Shown
  <2> QED
    BY <2>2, <2>3, <2>4 DEF IInv
<1> QED
  BY <1>1, <1>2, <1>3, <1>4, <1>5, <1>6, <1>7, <1>8, <1>9, <1>10, <1>11, <1>12, <1>13, <1>14 DEF Next

\* The invariant holds of every behaviour.
LEMMA InvHolds == Spec => []IInv
<1> QED
  BY InitIInv, NextIInv, PTL DEF Spec

\* Of every block and call the client sees a start, then deltas, then a stop:
\* the burst a handler sends respects the order within itself and with what the
\* client already has, whatever was held back, released or left out.
THEOREM BlocksComeInOrder == Spec => []BlocksInOrder
<1>1. IInv => BlocksInOrder
  BY DEF IInv
<1> QED
  BY InvHolds, <1>1, PTL

\* A completed answer has shown every call the upstream finished, for Chat
\* Completions every one that the rectifier does not discard.
THEOREM CallsAreReported == Spec => []CallsReported
<1>1. IInv => CallsReported
  BY DEF IInv
<1> QED
  BY InvHolds, <1>1, PTL

\* Whoever stays until the handler is through has the end of the stream, and
\* nothing but the watchdog's error, or what DeepSeek left held, comes after it.
THEOREM TheEndStands == Spec => []EndStands
<1>1. IInv => EndStands
  BY DEF IInv
<1> QED
  BY InvHolds, <1>1, PTL

-----------------------------------------------------------------------------
(* The client's EventStream.                                               *)

\* A frame that is shown is an event, and nothing when the stream has ended.
LEMMA ShownIsTold ==
  ASSUME Typed, client.phase \in {"open", "closed"},
         NEW e, e.kind \in {"thought", "text", "other", "terminal", "error"},
         client.phase = "open" /\ e.kind = "thought" => ~client.spoken, Shows(e)
  PROVE  [Client!Next]_(Client!vars)
<1>1. CASE client.phase = "closed"
  <2>1. client' = client
    BY <1>1 DEF Shows
  <2> QED
    BY <2>1 DEF Client!vars
<1>2. CASE client.phase = "open"
  <2>1. /\ client'.phase = IF e.kind \in {"terminal", "error"} THEN "closed" ELSE "open"
        /\ client'.number = client.number + 1 /\ client'.last = e.kind
        /\ client'.spoken = (client.spoken \/ e.kind = "text")
    BY <1>2 DEF Shows
  <2>2. client.spoken \in BOOLEAN
    BY DEF Typed
  <2>3. CASE e.kind = "thought"
    <3>1. client'.spoken = client.spoken
      BY <2>1, <2>2, <2>3
    <3> QED
      BY <1>2, <2>1, <2>3, <3>1 DEF Client!Next, Client!Thought, Client!Tell
  <2>4. CASE e.kind = "text"
    <3>1. client'.spoken = TRUE
      BY <2>1, <2>4
    <3> QED
      BY <1>2, <2>1, <2>4, <3>1 DEF Client!Next, Client!Text, Client!Tell
  <2>5. CASE e.kind = "other"
    <3>1. client'.spoken = client.spoken
      BY <2>1, <2>2, <2>5
    <3> QED
      BY <1>2, <2>1, <2>5, <3>1 DEF Client!Next, Client!Other, Client!Tell
  <2>6. CASE e.kind \in {"terminal", "error"}
    <3>1. client'.spoken = client.spoken
      BY <2>1, <2>2, <2>6
    <3> QED
      BY <1>2, <2>1, <2>6, <3>1 DEF Client!Next, Client!Close, Client!Tell
  <2> QED
    BY <2>3, <2>4, <2>5, <2>6
<1> QED
  BY <1>1, <1>2

\* The headers open the stream.
LEMMA OpenedIsTold ==
  ASSUME IInv, phase = "starting", client' = [client EXCEPT !.phase = "open"]
  PROVE  [Client!Next]_(Client!vars)
<1>1. client.phase = "silent"
  BY DEF IInv, Orderly
<1>2. /\ client'.phase = "open" /\ client'.number = client.number /\ client'.last = client.last
      /\ client'.spoken = client.spoken
  BY DEF IInv, Typed
<1> QED
  BY <1>1, <1>2 DEF Client!Next, Client!Open

\* What a handler writes next may be written.
LEMMA WriteIsTold == ASSUME IInv, Write PROVE [Client!Next]_(Client!vars)
<1>1. out.frames # <<>>
  BY DEF Write
<1>2. PICK ok \in Reaches :
        IF ok THEN Shows(Head(out.frames)) /\ out' = Rest(out) /\ UNCHANGED <<failed, outcome>>
        ELSE failed' = "write" /\ outcome' = "bad" /\ out' = Only(<<>>) /\ UNCHANGED <<client, afterEnd>>
  BY DEF Write
<1>3. CASE ~ok
  BY <1>2, <1>3 DEF Client!vars
<1>4. CASE ok
  <2> DEFINE e == Head(out.frames)
  <2>1. phase \in {"scanning", "flushing", "buffered"}
    BY <1>1, EmptyBurst DEF IInv, Orderly, Typed
  <2>2. Answering /\ client.phase \in {"open", "closed"}
    BY <2>1 DEF IInv, Orderly, Answering, Scans
  <2>3. out \in AnyBurst /\ client.spoken \in BOOLEAN /\ Typed
    BY DEF IInv, Typed
  <2>4. e \in AnyFrame
    BY <1>1, <2>3, AfterParts
  <2>5. failed # "write"
    BY <1>2, <1>4 DEF Reaches, IInv, Orderly
  <2>6. client.phase = "open" => ThoughtsLead(out, client.spoken)
    BY <2>2, <2>5 DEF IInv, BurstInv, Read
  <2>7. client.phase = "open" /\ e.kind = "thought" => ~client.spoken
    BY <1>1, <2>3, <2>6, AfterLeads
  <2>8. e.kind \in {"thought", "text", "other", "terminal", "error"}
    BY <2>4 DEF AnyFrame
  <2>9. Shows(e)
    BY <1>2, <1>4
  <2> HIDE DEF e
  <2> QED
    BY <2>2, <2>3, <2>7, <2>8, <2>9, ShownIsTold
<1> QED
  BY <1>2, <1>3, <1>4 DEF Reaches

\* Nor does the verdict at the end show more than the end.
LEMMA JudgeIsTold == ASSUME IInv, Judge PROVE [Client!Next]_(Client!vars)
<1>1. phase = "judging" /\ Typed /\ client.phase \in {"open", "closed"}
  BY DEF Judge, IInv, Orderly, Answering, Scans
<1>2. \/ UNCHANGED <<client, afterEnd>>
      \/ Says(Plain("error"))
      \/ Says(Plain("terminal"))
  BY DEF Judge
<1>3. ASSUME NEW kind \in {"error", "terminal"}, Says(Plain(kind))
      PROVE  [Client!Next]_(Client!vars)
  <2>1. PICK ok \in Reaches : IF ok THEN Shows(Plain(kind)) ELSE UNCHANGED <<client, afterEnd>>
    BY <1>3 DEF Says
  <2>2. Plain(kind).kind = kind
    BY DEF Plain, Frame
  <2>3. CASE ok
    <3>1. Shows(Plain(kind))
      BY <2>1, <2>3
    <3> QED
      BY <1>1, <2>2, <3>1, ShownIsTold
  <2>4. CASE ~ok
    BY <2>1, <2>4 DEF Client!vars
  <2> QED
    BY <2>1, <2>3, <2>4 DEF Reaches
<1>4. CASE UNCHANGED <<client, afterEnd>>
  BY <1>4 DEF Client!vars
<1> QED
  BY <1>2, <1>3, <1>4

\* Every step shows the client at most one event.
LEMMA ClientStep == IInv /\ [Next]_vars => [Client!Next]_(Client!vars)
<1> SUFFICES ASSUME IInv, [Next]_vars
             PROVE  [Client!Next]_(Client!vars)
  OBVIOUS
<1>1. CASE UNCHANGED client
  BY <1>1 DEF Client!vars
<1>2. CASE Refuse
  <2>1. PICK ok \in Reaches : client' = IF ok THEN [client EXCEPT !.phase = "refused"] ELSE client
    BY <1>2 DEF Refuse
  <2>2. client.phase = "silent"
    BY <1>2 DEF Refuse, IInv, Orderly
  <2>3. CASE ok
    <3>1. /\ client'.phase = "refused" /\ client'.number = client.number /\ client'.last = client.last
          /\ client'.spoken = client.spoken
      BY <2>1, <2>3 DEF IInv, Typed
    <3> QED
      BY <2>2, <3>1 DEF Client!Next, Client!Refuse
  <2>4. CASE ~ok
    BY <1>1, <2>1, <2>4
  <2> QED
    BY <2>3, <2>4
<1>3. ASSUME NEW body \in ChatBodies, phase = "starting", BufferedChat(body)
      PROVE  [Client!Next]_(Client!vars)
  BY <1>3, OpenedIsTold DEF BufferedChat, AnswerBuffered
<1>4. ASSUME NEW blocks \in MessagesBodies, phase = "starting", BufferedMessages(blocks)
      PROVE  [Client!Next]_(Client!vars)
  BY <1>4, OpenedIsTold DEF BufferedMessages, AnswerBuffered
<1>5. CASE Begin
  BY <1>5, OpenedIsTold DEF Begin
<1>6. CASE Write
  BY <1>6, WriteIsTold
<1>7. CASE BodyEnds \/ Return \/ Finish \/ Fire \/ Cancel
  BY <1>1, <1>7 DEF BodyEnds, Return, Finish, Fire, Cancel
<1>8. CASE Judge
  BY <1>8, JudgeIsTold
<1>9. ASSUME NEW f \in ChatFrames, TakeChat(f)
      PROVE  [Client!Next]_(Client!vars)
  BY <1>1, <1>9 DEF TakeChat, Take
<1>10. ASSUME NEW f \in MessagesFrames, TakeMessages(f)
       PROVE  [Client!Next]_(Client!vars)
  BY <1>1, <1>10 DEF TakeMessages, Take
<1>11. CASE UNCHANGED vars
  BY <1>1, <1>11 DEF vars
<1> QED
  BY <1>2, <1>3, <1>4, <1>5, <1>6, <1>7, <1>8, <1>9, <1>10, <1>11 DEF Next

\* The client sees one EventStream, whatever the rectifiers hold back, split and
\* put in order: no reasoning after the answer's text, one end, no gap.
THEOREM OneStream == Spec => ClientSeesOneStream
<1>1. Init => Client!Init
  BY DEF Init, Client!Init
<1> QED
  BY <1>1, ClientStep, InvHolds, PTL DEF Spec, ClientSeesOneStream
=============================================================================
