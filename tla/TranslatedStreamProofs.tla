------------------------- MODULE TranslatedStreamProofs -------------------------
(***************************************************************************)
(* What the client of a translated stream sees, for any blocks, calls,     *)
(* frames and bodies.                                                      *)
(*                                                                         *)
(* What the client has seen is a view; a sequence of events leads from one *)
(* view to another if each of them suits the view the one before has left  *)
(* (Leads).  The invariant is that the events yet to be written lead to a  *)
(* view that fits the handler's state: every item the client will have is  *)
(* done, or known to the state as open.  Writing an event keeps that, so   *)
(* each call answers for its own events only.                              *)
(*                                                                         *)
(* The last part is about the splitter of think spans (InlineThink).       *)
(***************************************************************************)
EXTENDS TranslatedStream, InlineThink, SequenceTheorems, FiniteSetTheorems, WellFoundedInduction, TLAPS

-----------------------------------------------------------------------------
(* Views and events.                                                       *)

Parts == {"none", "open", "closed"}
Item == [type : Client!ItemType, part : Parts, done : BOOLEAN]
View == [items : Seq(Item), spoken : BOOLEAN, end : {"none", "terminal", "error"}]

ItemKinds == {"part", "repeat", "partDone", "done", "progress", "text", "blank", "thought"}
AnyEvent == [kind : ItemKinds \cup {"announce", "terminal", "error", "added"}, item : Nat,
             type : Client!ItemType \cup {"none"}]

\* What may be told of an item.
ItemSuits(item, kind) ==
  CASE kind = "part" -> Client!HasPart(item.type) /\ item.part = "none"
    [] kind \in {"text", "blank"} -> item.type = "message" /\ item.part = "open"
    [] kind = "thought" -> item.type = "reasoning" /\ item.part = "open"
    [] kind = "progress" -> ~Client!HasPart(item.type) /\ ~item.done
    [] kind = "repeat" -> item.part = "open" /\ ~item.done
    [] kind = "partDone" -> item.part = "open"
    [] kind = "done" -> ~item.done /\ (Client!HasPart(item.type) => item.part = "closed")

Suits(v, e) ==
  /\ v.end = "none"
  /\ e.kind = "announce" => v.items = <<>> /\ e.item = 0 /\ e.type = "none"
  /\ e.kind = "terminal" => e.item = 0 /\ \A i \in DOMAIN v.items : v.items[i].done
  /\ e.kind = "error" => e.item = 0
  /\ e.kind = "added" => /\ e.item = Len(v.items) + 1 /\ e.type \in Client!ItemType
                         /\ e.type = "reasoning" => ~v.spoken
  /\ e.kind \in ItemKinds => e.item \in DOMAIN v.items /\ ItemSuits(v.items[e.item], e.kind)
  /\ e.kind = "thought" => ~v.spoken

Seen(v, e) ==
  [items |-> ItemsAfter(v.items, e), spoken |-> v.spoken \/ e.kind = "text",
   end |-> IF e.kind \in {"terminal", "error"} THEN e.kind ELSE "none"]

Leads(v, s, w) ==
  /\ s \in Seq(AnyEvent)
  /\ \E h \in [0..Len(s) -> View] :
       /\ h[0] = v /\ h[Len(s)] = w
       /\ \A p \in 1..Len(s) : Suits(h[p - 1], s[p]) /\ h[p] = Seen(h[p - 1], s[p])

-----------------------------------------------------------------------------
(* One event.                                                              *)

Shown(type, part, done) == [type |-> type, part |-> part, done |-> done]
Grown(v, item) == [items |-> Append(v.items, item), spoken |-> v.spoken, end |-> v.end]
Turned(v, i, item) == [items |-> [v.items EXCEPT ![i] = item], spoken |-> v.spoken, end |-> v.end]

\* A view that has grown is a view.
LEMMA GrownView ==
  ASSUME NEW v \in View, NEW item \in Item
  PROVE  /\ Grown(v, item) \in View /\ Len(Grown(v, item).items) = Len(v.items) + 1
         /\ DOMAIN v.items = 1..Len(v.items) /\ DOMAIN Grown(v, item).items = 1..(Len(v.items) + 1)
         /\ Grown(v, item).items[Len(v.items) + 1] = item
         /\ \A j \in 1..Len(v.items) : Grown(v, item).items[j] = v.items[j]
         /\ Grown(v, item).spoken = v.spoken /\ Grown(v, item).end = v.end
<1>1. v.items \in Seq(Item) /\ Grown(v, item).items = Append(v.items, item)
  BY DEF View, Grown
<1>2. /\ Append(v.items, item) \in Seq(Item) /\ Len(Append(v.items, item)) = Len(v.items) + 1
      /\ Append(v.items, item)[Len(v.items) + 1] = item
      /\ \A j \in 1..Len(v.items) : Append(v.items, item)[j] = v.items[j]
  BY <1>1, AppendProperties
<1> QED
  BY <1>1, <1>2, LenProperties DEF View, Grown

\* So is one an item of which has changed.
LEMMA TurnedView ==
  ASSUME NEW v \in View, NEW i \in DOMAIN v.items, NEW item \in Item
  PROVE  /\ Turned(v, i, item) \in View /\ Len(Turned(v, i, item).items) = Len(v.items)
         /\ DOMAIN v.items = 1..Len(v.items) /\ DOMAIN Turned(v, i, item).items = 1..Len(v.items)
         /\ Turned(v, i, item).items[i] = item
         /\ \A j \in 1..Len(v.items) : j # i => Turned(v, i, item).items[j] = v.items[j]
         /\ Turned(v, i, item).spoken = v.spoken /\ Turned(v, i, item).end = v.end
<1> DEFINE t == [v.items EXCEPT ![i] = item]
<1>1. v.items \in Seq(Item) /\ Len(v.items) \in Nat /\ DOMAIN v.items = 1..Len(v.items)
  BY LenProperties DEF View
<1>2. t \in Seq(Item) /\ Len(t) = Len(v.items) /\ DOMAIN t = 1..Len(v.items)
  BY <1>1, ExceptSeq
<1>3. t[i] = item /\ \A j \in 1..Len(v.items) : j # i => t[j] = v.items[j]
  BY <1>1
<1>4. Turned(v, i, item) = [items |-> t, spoken |-> v.spoken, end |-> v.end]
  BY DEF Turned
<1> HIDE DEF t
<1> QED
  BY <1>1, <1>2, <1>3, <1>4 DEF View

\* An item is announced.
LEMMA SeesAdded ==
  ASSUME NEW v \in View, v.end = "none", NEW type \in Client!ItemType, type = "reasoning" => ~v.spoken
  PROVE  LET e == Added(Len(v.items) + 1, type) IN
         e \in AnyEvent /\ Suits(v, e) /\ Seen(v, e) = Grown(v, Shown(type, "none", FALSE))
<1> DEFINE n == Len(v.items)
           e == Added(n + 1, type)
           item == Shown(type, "none", FALSE)
           a == ItemsAfter(v.items, e)
<1>1. e.kind = "added" /\ e.item = n + 1 /\ e.type = type
  BY DEF Added, Event
<1>2. n \in Nat /\ v.items \in Seq(Item) /\ DOMAIN v.items = 1..n
  BY LenProperties DEF View
<1>3. item \in Item
  BY DEF Shown, Item, Parts
<1>4. e \in AnyEvent
  BY <1>2 DEF Added, Event, AnyEvent
<1>5. Suits(v, e)
  BY <1>1, <1>2 DEF Suits, ItemKinds
<1>6. a = [j \in 1..n \cup {n + 1} |-> IF j = n + 1 THEN item ELSE v.items[j]]
  BY <1>1, <1>2 DEF ItemsAfter, Shown
<1>7. 1..n \cup {n + 1} = 1..(n + 1)
  BY <1>2
<1>8. a = [j \in 1..(n + 1) |-> IF j = n + 1 THEN item ELSE v.items[j]]
  BY <1>6, <1>7
<1> HIDE DEF item
<1>9. /\ Append(v.items, item) \in Seq(Item) /\ Len(Append(v.items, item)) = n + 1
      /\ Append(v.items, item)[n + 1] = item
      /\ \A j \in 1..n : Append(v.items, item)[j] = v.items[j]
  BY <1>2, <1>3, AppendProperties
<1>10. a = Append(v.items, item)
  <2>1. \A j \in 1..(n + 1) : (IF j = n + 1 THEN item ELSE v.items[j]) \in Item
    BY <1>2, <1>3
  <2>2. a \in Seq(Item) /\ Len(a) = n + 1
    BY <1>2, <1>8, <2>1, IsASeq
  <2>3. \A j \in 1..(n + 1) : a[j] = Append(v.items, item)[j]
    BY <1>2, <1>8, <1>9
  <2> QED
    BY <1>9, <2>2, <2>3, SeqEqual
<1>11. Seen(v, e) = [items |-> Append(v.items, item), spoken |-> v.spoken, end |-> v.end]
  BY <1>1, <1>10 DEF Seen, View
<1> QED
  BY <1>4, <1>5, <1>11 DEF Grown, item
\* An event about an item leaves the others alone.
LEMMA SeesItem ==
  ASSUME NEW v \in View, v.end = "none", NEW i \in DOMAIN v.items, NEW kind \in ItemKinds,
         ItemSuits(v.items[i], kind), kind = "thought" => ~v.spoken
  PROVE  LET e == About(kind, i)
             t == Turned(v, i, ItemAfter(v.items[i], kind))
         IN /\ e \in AnyEvent /\ Suits(v, e) /\ ItemAfter(v.items[i], kind) \in Item
            /\ Seen(v, e).items = t.items /\ Seen(v, e).end = "none"
            /\ Seen(v, e).spoken = (v.spoken \/ kind = "text")
<1> DEFINE e == About(kind, i)
           item == ItemAfter(v.items[i], kind)
<1>1. e.kind = kind /\ e.item = i /\ e.type = "none" /\ kind \notin {"announce", "terminal", "error", "added"}
  BY DEF About, Event, ItemKinds
<1>2. v.items \in Seq(Item) /\ DOMAIN v.items = 1..Len(v.items) /\ Len(v.items) \in Nat
  BY LenProperties DEF View
<1>3. i \in Nat /\ v.items[i] \in Item
  BY <1>2
<1>4. item \in Item
  BY <1>3 DEF ItemAfter, Item, Parts
<1>5. e \in AnyEvent
  BY <1>3 DEF About, Event, AnyEvent
<1>6. Suits(v, e)
  BY <1>1 DEF Suits
<1>7. ItemsAfter(v.items, e) = [j \in DOMAIN v.items |-> IF j = i THEN item ELSE v.items[j]]
  BY <1>1 DEF ItemsAfter
<1>8. [v.items EXCEPT ![i] = item] = [j \in DOMAIN v.items |-> IF j = i THEN item ELSE v.items[j]]
  OBVIOUS
<1> HIDE DEF item, e
<1>9. Seen(v, e).items = [v.items EXCEPT ![i] = item]
  BY <1>7, <1>8 DEF Seen
<1> QED
  BY <1>1, <1>4, <1>5, <1>6, <1>9 DEF Seen, Turned, e, item

\* The announcements and the ends concern no item.
LEMMA SeesPlain ==
  ASSUME NEW v \in View, v.end = "none", NEW kind \in {"announce", "terminal", "error"},
         kind = "announce" => v.items = <<>>,
         kind = "terminal" => \A i \in DOMAIN v.items : v.items[i].done
  PROVE  LET e == About(kind, 0) IN
         /\ e \in AnyEvent /\ Suits(v, e)
         /\ Seen(v, e) = [items |-> v.items, spoken |-> v.spoken,
                          end |-> IF kind = "announce" THEN "none" ELSE kind]
<1> DEFINE e == About(kind, 0)
<1>1. e.kind = kind /\ e.item = 0 /\ e.type = "none" /\ kind \notin ItemKinds /\ kind # "added"
  BY DEF About, Event, ItemKinds
<1>2. v.items \in Seq(Item) /\ DOMAIN v.items = 1..Len(v.items) /\ Len(v.items) \in Nat
      /\ v.spoken \in BOOLEAN
  BY LenProperties DEF View
<1>3. e \in AnyEvent
  BY DEF About, Event, AnyEvent
<1>4. Suits(v, e)
  BY <1>1 DEF Suits
<1>5. ItemsAfter(v.items, e) = [j \in DOMAIN v.items |-> v.items[j]]
  BY <1>1, <1>2 DEF ItemsAfter
<1>6. v.items = [j \in DOMAIN v.items |-> v.items[j]]
  BY <1>2
<1>7. (v.spoken \/ kind = "text") = v.spoken
  BY <1>2
<1> QED
  BY <1>1, <1>3, <1>4, <1>5, <1>6, <1>7 DEF Seen
-----------------------------------------------------------------------------
(* Events in a row.                                                        *)

\* An event put before others.
LEMMA PutBefore ==
  ASSUME NEW S, NEW e \in S, NEW t \in Seq(S), NEW u \in Seq(S), Len(u) = Len(t) + 1, u[1] = e,
         \A p \in 1..Len(t) : u[p + 1] = t[p]
  PROVE  <<e>> \o t = u
<1> DEFINE s == <<e>>
<1>1. s \in Seq(S) /\ Len(s) = 1 /\ s[1] = e /\ Len(t) \in Nat
  BY LenProperties
<1> HIDE DEF s
<1>2. /\ s \o t \in Seq(S) /\ Len(s \o t) = 1 + Len(t)
      /\ \A p \in 1..(1 + Len(t)) : (s \o t)[p] = IF p <= 1 THEN s[p] ELSE t[p - 1]
  <2>1. /\ s \o t \in Seq(S) /\ Len(s \o t) = Len(s) + Len(t)
        /\ \A p \in 1..Len(s) + Len(t) : (s \o t)[p] = IF p <= Len(s) THEN s[p] ELSE t[p - Len(s)]
    BY <1>1, ConcatProperties
  <2> QED
    BY <1>1, <2>1
<1>3. ASSUME NEW p \in 1..(Len(t) + 1)
      PROVE  (s \o t)[p] = u[p]
  <2>1. CASE p = 1
    BY <1>1, <1>2, <2>1
  <2>2. CASE p # 1
    <3>1. p - 1 \in 1..Len(t) /\ (p - 1) + 1 = p /\ ~(p <= 1)
      BY <1>1, <2>2
    <3> QED
      BY <1>2, <3>1
  <2> QED
    BY <2>1, <2>2
<1>4. s \o t = u
  BY <1>2, <1>3, SeqEqual
<1> QED
  BY <1>4 DEF s

\* Events put in a row.
LEMMA InARow ==
  ASSUME NEW a, NEW b, NEW c, NEW d
  PROVE  /\ <<a>> \o <<b>> = <<a, b>> /\ <<a>> \o <<b, c>> = <<a, b, c>>
         /\ <<a>> \o <<b, c, d>> = <<a, b, c, d>>
<1> DEFINE S == {a, b, c, d}
<1>1. <<a>> \o <<b>> = <<a, b>>
  <2> DEFINE t == <<b>>
             u == <<a, b>>
  <2>1. t \in Seq(S) /\ u \in Seq(S) /\ a \in S /\ Len(t) = 1 /\ Len(u) = 2 /\ u[1] = a /\ u[2] = b /\ t[1] = b
    OBVIOUS
  <2> HIDE DEF S, t, u
  <2>2. Len(u) = Len(t) + 1 /\ \A p \in 1..Len(t) : u[p + 1] = t[p]
    BY <2>1
  <2>3. <<a>> \o t = u
    BY <2>1, <2>2, PutBefore
  <2> QED
    BY <2>3 DEF t, u
<1>2. <<a>> \o <<b, c>> = <<a, b, c>>
  <2> DEFINE t == <<b, c>>
             u == <<a, b, c>>
  <2>1. t \in Seq(S) /\ u \in Seq(S) /\ a \in S /\ Len(t) = 2 /\ Len(u) = 3 /\ u[1] = a /\ u[2] = b /\ u[3] = c
        /\ t[1] = b /\ t[2] = c
    OBVIOUS
  <2> HIDE DEF S, t, u
  <2>2. Len(u) = Len(t) + 1 /\ \A p \in 1..Len(t) : u[p + 1] = t[p]
    BY <2>1
  <2>3. <<a>> \o t = u
    BY <2>1, <2>2, PutBefore
  <2> QED
    BY <2>3 DEF t, u
<1>3. <<a>> \o <<b, c, d>> = <<a, b, c, d>>
  <2> DEFINE t == <<b, c, d>>
             u == <<a, b, c, d>>
  <2>1. t \in Seq(S) /\ u \in Seq(S) /\ a \in S /\ Len(t) = 3 /\ Len(u) = 4 /\ u[1] = a /\ u[2] = b /\ u[3] = c
        /\ u[4] = d /\ t[1] = b /\ t[2] = c /\ t[3] = d
    OBVIOUS
  <2> HIDE DEF S, t, u
  <2>2. Len(u) = Len(t) + 1 /\ \A p \in 1..Len(t) : u[p + 1] = t[p]
    BY <2>1
  <2>3. <<a>> \o t = u
    BY <2>1, <2>2, PutBefore
  <2> QED
    BY <2>3 DEF t, u
<1> QED
  BY <1>1, <1>2, <1>3

\* No event leads nowhere else.
LEMMA LeadsNowhere ==
  ASSUME NEW v \in View
  PROVE  Leads(v, <<>>, v) /\ \A w : Leads(v, <<>>, w) => w = v
<1>1. Len(<<>>) = 0 /\ <<>> \in Seq(AnyEvent)
  BY EmptySeq
<1>2. [p \in 0..0 |-> v] \in [0..0 -> View] /\ [p \in 0..0 |-> v][0] = v
  OBVIOUS
<1> DEFINE h == [p \in 0..0 |-> v]
<1>4. 1..Len(<<>>) = {} /\ 0..Len(<<>>) = 0..0
  BY <1>1
<1>5. h \in [0..Len(<<>>) -> View] /\ h[0] = v /\ h[Len(<<>>)] = v
  BY <1>1, <1>2
<1> HIDE DEF h
<1>3. Leads(v, <<>>, v)
  BY <1>1, <1>4, <1>5 DEF Leads
<1> QED
  BY <1>1, <1>3 DEF Leads

\* One event leads to what it shows.
LEMMA LeadsByOne ==
  ASSUME NEW v \in View, NEW e \in AnyEvent, Suits(v, e), Seen(v, e) \in View
  PROVE  Leads(v, <<e>>, Seen(v, e))
<1> DEFINE h == [p \in 0..1 |-> IF p = 0 THEN v ELSE Seen(v, e)]
<1>1. <<e>> \in Seq(AnyEvent) /\ Len(<<e>>) = 1 /\ <<e>>[1] = e
  OBVIOUS
<1>2. h \in [0..1 -> View] /\ h[0] = v /\ h[1] = Seen(v, e)
  OBVIOUS
<1> HIDE DEF h
<1>3. \A p \in 1..1 : Suits(h[p - 1], <<e>>[p]) /\ h[p] = Seen(h[p - 1], <<e>>[p])
  BY <1>1, <1>2
<1> QED
  BY <1>1, <1>2, <1>3 DEF Leads

\* One way leads on to the next.
LEMMA LeadsOn ==
  ASSUME NEW v, NEW s, NEW u, NEW t, NEW w, Leads(v, s, u), Leads(u, t, w)
  PROVE  Leads(v, s \o t, w)
<1>1. PICK g \in [0..Len(s) -> View] :
        /\ g[0] = v /\ g[Len(s)] = u
        /\ \A p \in 1..Len(s) : Suits(g[p - 1], s[p]) /\ g[p] = Seen(g[p - 1], s[p])
  BY DEF Leads
<1>2. PICK h \in [0..Len(t) -> View] :
        /\ h[0] = u /\ h[Len(t)] = w
        /\ \A p \in 1..Len(t) : Suits(h[p - 1], t[p]) /\ h[p] = Seen(h[p - 1], t[p])
  BY DEF Leads
<1>3. s \in Seq(AnyEvent) /\ t \in Seq(AnyEvent) /\ Len(s) \in Nat /\ Len(t) \in Nat
  BY LenProperties DEF Leads
<1>4. /\ s \o t \in Seq(AnyEvent) /\ Len(s \o t) = Len(s) + Len(t)
      /\ \A p \in 1..(Len(s) + Len(t)) : (s \o t)[p] = IF p <= Len(s) THEN s[p] ELSE t[p - Len(s)]
  BY <1>3, ConcatProperties
<1> DEFINE n == Len(s)
           k == [p \in 0..(n + Len(t)) |-> IF p <= n THEN g[p] ELSE h[p - n]]
<1>5. k \in [0..(n + Len(t)) -> View]
  BY <1>1, <1>2, <1>3
<1>6. k[0] = v /\ k[n + Len(t)] = w
  <2>1. k[0] = v
    BY <1>1, <1>3
  <2>2. CASE Len(t) = 0
    BY <1>1, <1>2, <1>3, <2>2
  <2>3. CASE Len(t) # 0
    <3>1. ~(n + Len(t) <= n) /\ (n + Len(t)) - n = Len(t) /\ n + Len(t) \in 0..(n + Len(t))
      BY <1>3, <2>3
    <3> QED
      BY <1>2, <2>1, <3>1
  <2> QED
    BY <2>1, <2>2, <2>3
<1>7. ASSUME NEW p \in 1..(n + Len(t))
      PROVE  Suits(k[p - 1], (s \o t)[p]) /\ k[p] = Seen(k[p - 1], (s \o t)[p])
  <2>1. CASE p <= n
    <3>1. p \in 1..n /\ (s \o t)[p] = s[p] /\ k[p] = g[p] /\ k[p - 1] = g[p - 1]
      BY <1>3, <1>4, <2>1
    <3> QED
      BY <1>1, <3>1
  <2>2. CASE p > n
    <3>1. p - n \in 1..Len(t) /\ (s \o t)[p] = t[p - n] /\ k[p] = h[p - n]
      BY <1>3, <1>4, <2>2
    <3>2. k[p - 1] = h[(p - n) - 1]
      <4>1. CASE p = n + 1
        <5>1. k[p - 1] = g[n] /\ (p - n) - 1 = 0
          BY <1>3, <4>1
        <5> QED
          BY <1>1, <1>2, <5>1
      <4>2. CASE p # n + 1
        <5>1. p - 1 \in 0..(n + Len(t)) /\ ~(p - 1 <= n) /\ (p - 1) - n = (p - n) - 1
          BY <1>3, <2>2, <4>2
        <5> QED
          BY <5>1
      <4> QED
        BY <4>1, <4>2
    <3> QED
      BY <1>2, <3>1, <3>2
  <2> QED
    BY <1>3, <2>1, <2>2
<1> HIDE DEF k
<1> QED
  BY <1>4, <1>5, <1>6, <1>7 DEF Leads

\* The first event of a way, and the rest of it.
LEMMA LeadsFirst ==
  ASSUME NEW v, NEW s, NEW w, Leads(v, s, w), s # <<>>
  PROVE  /\ s \in Seq(AnyEvent) /\ Head(s) \in AnyEvent /\ Suits(v, Head(s)) /\ Seen(v, Head(s)) \in View
         /\ Leads(Seen(v, Head(s)), Tail(s), w)
<1>1. PICK h \in [0..Len(s) -> View] :
        /\ h[0] = v /\ h[Len(s)] = w
        /\ \A p \in 1..Len(s) : Suits(h[p - 1], s[p]) /\ h[p] = Seen(h[p - 1], s[p])
  BY DEF Leads
<1>2. s \in Seq(AnyEvent)
  BY DEF Leads
<1>3. /\ Head(s) = s[1] /\ Head(s) \in AnyEvent /\ Len(s) \in Nat \ {0} /\ Tail(s) \in Seq(AnyEvent)
      /\ Len(Tail(s)) = Len(s) - 1 /\ \A p \in 1..Len(Tail(s)) : Tail(s)[p] = s[p + 1]
  BY <1>2, HeadTailProperties, LenProperties, EmptySeq
<1>4. Suits(v, s[1]) /\ h[1] = Seen(v, s[1]) /\ h[1] \in View
  <2>1. 1 \in 1..Len(s) /\ 1 - 1 = 0 /\ 1 \in 0..Len(s)
    BY <1>3
  <2> QED
    BY <1>1, <2>1
<1> DEFINE k == [p \in 0..(Len(s) - 1) |-> h[p + 1]]
<1>5. k \in [0..Len(Tail(s)) -> View] /\ k[0] = h[1] /\ k[Len(Tail(s))] = w
  BY <1>1, <1>3
<1>6. ASSUME NEW p \in 1..Len(Tail(s))
      PROVE  Suits(k[p - 1], Tail(s)[p]) /\ k[p] = Seen(k[p - 1], Tail(s)[p])
  <2>1. p + 1 \in 1..Len(s) /\ k[p] = h[p + 1] /\ k[p - 1] = h[(p + 1) - 1] /\ Tail(s)[p] = s[p + 1]
    BY <1>3
  <2> QED
    BY <1>1, <2>1
<1> HIDE DEF k
<1> QED
  BY <1>2, <1>3, <1>4, <1>5, <1>6 DEF Leads

\* A way ends in a view, and starts from one that has seen no end unless it is
\* none.
LEMMA LeadsViews ==
  ASSUME NEW v, NEW s, NEW w, Leads(v, s, w)
  PROVE  v \in View /\ w \in View /\ s \in Seq(AnyEvent) /\ (s # <<>> => v.end = "none")
<1>1. v \in View /\ w \in View /\ s \in Seq(AnyEvent)
  <2>1. s \in Seq(AnyEvent) /\ Len(s) \in Nat /\ 0 \in 0..Len(s) /\ Len(s) \in 0..Len(s)
    BY LenProperties DEF Leads
  <2> QED
    BY <2>1 DEF Leads
<1>2. s # <<>> => v.end = "none"
  BY LeadsFirst DEF Suits
<1> QED
  BY <1>1, <1>2
-----------------------------------------------------------------------------
(* What the translations emit.                                             *)

Told(v) == [items |-> v.items, spoken |-> TRUE, end |-> v.end]

\* A view is made of its fields, and is another once text was told.
LEMMA ViewFields ==
  ASSUME NEW v \in View
  PROVE  /\ v = [items |-> v.items, spoken |-> v.spoken, end |-> v.end] /\ Told(v) \in View
         /\ v.items \in Seq(Item) /\ v.spoken \in BOOLEAN /\ Len(v.items) \in Nat
         /\ DOMAIN v.items = 1..Len(v.items) /\ \A i \in DOMAIN v.items : v.items[i] \in Item
         /\ \A i \in DOMAIN v.items : [v.items EXCEPT ![i] = v.items[i]] = v.items
<1>1. v.items \in Seq(Item) /\ Len(v.items) \in Nat /\ DOMAIN v.items = 1..Len(v.items)
  BY LenProperties DEF View
<1>2. \A i \in DOMAIN v.items : v.items[i] \in Item
  BY <1>1
<1>3. \A i \in DOMAIN v.items : [v.items EXCEPT ![i] = v.items[i]] = v.items
  BY <1>1
<1> QED
  BY <1>1, <1>2, <1>3 DEF View, Told

\* An item that is announced is the next one.
LEMMA AddedLeads ==
  ASSUME NEW v \in View, v.end = "none", NEW type \in Client!ItemType, type = "reasoning" => ~v.spoken
  PROVE  Leads(v, <<Added(Len(v.items) + 1, type)>>, Grown(v, Shown(type, "none", FALSE)))
<1> DEFINE e == Added(Len(v.items) + 1, type)
<1>1. e \in AnyEvent /\ Suits(v, e) /\ Seen(v, e) = Grown(v, Shown(type, "none", FALSE))
  BY SeesAdded
<1>2. Shown(type, "none", FALSE) \in Item
  BY DEF Shown, Item, Parts
<1>3. Seen(v, e) \in View
  BY <1>1, <1>2, GrownView
<1> HIDE DEF e
<1>4. Leads(v, <<e>>, Seen(v, e))
  BY <1>1, <1>3, LeadsByOne
<1> QED
  BY <1>1, <1>4 DEF e

\* A part is opened or closed, or an item is done.
LEMMA MarkLeads ==
  ASSUME NEW v \in View, v.end = "none", NEW i \in DOMAIN v.items, NEW kind \in {"part", "partDone", "done"},
         ItemSuits(v.items[i], kind)
  PROVE  Leads(v, <<About(kind, i)>>, Turned(v, i, ItemAfter(v.items[i], kind)))
<1> DEFINE e == About(kind, i)
           t == Turned(v, i, ItemAfter(v.items[i], kind))
<1>1. /\ e \in AnyEvent /\ Suits(v, e) /\ ItemAfter(v.items[i], kind) \in Item
      /\ Seen(v, e).items = t.items /\ Seen(v, e).end = "none"
      /\ Seen(v, e).spoken = (v.spoken \/ kind = "text")
  BY SeesItem DEF ItemKinds
<1>2. t \in View /\ t.spoken = v.spoken /\ t.end = v.end
  BY <1>1, TurnedView
<1> HIDE DEF e
<1>3. Seen(v, e) = t
  <2>1. v.spoken \in BOOLEAN
    BY ViewFields
  <2>2. (v.spoken \/ kind = "text") = v.spoken
    BY <2>1
  <2>3. Seen(v, e) = [items |-> Seen(v, e).items, spoken |-> Seen(v, e).spoken, end |-> Seen(v, e).end]
    BY DEF Seen
  <2>4. t = [items |-> t.items, spoken |-> t.spoken, end |-> t.end]
    BY <1>2, ViewFields
  <2> HIDE DEF t
  <2>5. Seen(v, e).items = t.items /\ Seen(v, e).spoken = t.spoken /\ Seen(v, e).end = t.end
    BY <1>1, <1>2, <2>2
  <2> QED
    BY <2>3, <2>4, <2>5
<1> HIDE DEF t
<1>4. Leads(v, <<e>>, t)
  BY <1>1, <1>2, <1>3, LeadsByOne
<1> QED
  BY <1>4 DEF e, t

\* A delta or a repetition leaves the item as it is.
LEMMA TouchLeads ==
  ASSUME NEW v \in View, v.end = "none", NEW i \in DOMAIN v.items,
         NEW kind \in {"progress", "repeat", "blank", "thought", "text"},
         ItemSuits(v.items[i], kind), kind = "thought" => ~v.spoken
  PROVE  Leads(v, <<About(kind, i)>>, IF kind = "text" THEN Told(v) ELSE v)
<1> DEFINE e == About(kind, i)
           t == IF kind = "text" THEN Told(v) ELSE v
<1>1. /\ e \in AnyEvent /\ Suits(v, e)
      /\ Seen(v, e).items = Turned(v, i, ItemAfter(v.items[i], kind)).items /\ Seen(v, e).end = "none"
      /\ Seen(v, e).spoken = (v.spoken \/ kind = "text")
  BY SeesItem DEF ItemKinds
<1>2. ItemAfter(v.items[i], kind) = v.items[i]
  BY DEF ItemAfter
<1>3. Seen(v, e).items = v.items
  <2>1. Turned(v, i, v.items[i]).items = [v.items EXCEPT ![i] = v.items[i]]
    BY DEF Turned
  <2> QED
    BY <1>1, <1>2, <2>1, ViewFields
<1> HIDE DEF e
<1>4. Seen(v, e) = t /\ t \in View
  <2>1. Seen(v, e) = [items |-> Seen(v, e).items, spoken |-> Seen(v, e).spoken, end |-> Seen(v, e).end]
    BY DEF Seen
  <2>2. kind # "text" => (v.spoken \/ kind = "text") = v.spoken
    BY ViewFields
  <2> QED
    BY <1>1, <1>3, <2>1, <2>2, ViewFields DEF Told
<1> HIDE DEF t
<1>5. Leads(v, <<e>>, t)
  BY <1>1, <1>4, LeadsByOne
<1> QED
  BY <1>5 DEF e, t

\* An announcement, or an end.
LEMMA PlainLeads ==
  ASSUME NEW v \in View, v.end = "none", NEW kind \in {"announce", "terminal", "error"},
         kind = "announce" => v.items = <<>>,
         kind = "terminal" => \A i \in DOMAIN v.items : v.items[i].done
  PROVE  LET w == [items |-> v.items, spoken |-> v.spoken, end |-> IF kind = "announce" THEN "none" ELSE kind]
         IN Leads(v, <<About(kind, 0)>>, w) /\ w \in View
<1> DEFINE e == About(kind, 0)
           w == [items |-> v.items, spoken |-> v.spoken, end |-> IF kind = "announce" THEN "none" ELSE kind]
<1>1. e \in AnyEvent /\ Suits(v, e) /\ Seen(v, e) = w
  BY SeesPlain
<1>2. w \in View
  BY ViewFields DEF View
<1> HIDE DEF e, w
<1>3. Leads(v, <<e>>, w)
  BY <1>1, <1>2, LeadsByOne
<1> QED
  BY <1>2, <1>3 DEF e, w

\* Turning the item that was announced last.
LEMMA TurnedGrown ==
  ASSUME NEW v \in View, NEW item \in Item, NEW other \in Item
  PROVE  Turned(Grown(v, item), Len(v.items) + 1, other) = Grown(v, other)
<1> DEFINE n == Len(v.items)
<1>1. v.items \in Seq(Item) /\ n \in Nat
  BY ViewFields
<1>2. Append(v.items, item) \in Seq(Item) /\ Append(v.items, other) \in Seq(Item)
      /\ Len(Append(v.items, item)) = n + 1 /\ Len(Append(v.items, other)) = n + 1
      /\ Append(v.items, other)[n + 1] = other
      /\ \A j \in 1..n : Append(v.items, item)[j] = v.items[j] /\ Append(v.items, other)[j] = v.items[j]
  BY <1>1, AppendProperties
<1> DEFINE t == [Append(v.items, item) EXCEPT ![n + 1] = other]
<1>3. n + 1 \in 1..Len(Append(v.items, item)) /\ DOMAIN Append(v.items, item) = 1..(n + 1)
  BY <1>1, <1>2, LenProperties
<1>4. t \in Seq(Item) /\ Len(t) = n + 1
  BY <1>2, <1>3, ExceptSeq
<1>5. \A j \in 1..(n + 1) : t[j] = Append(v.items, other)[j]
  <2> DEFINE a == Append(v.items, item)
             b == Append(v.items, other)
  <2> HIDE DEF a, b
  <2>1. DOMAIN a = 1..(n + 1) /\ b[n + 1] = other /\ \A j \in 1..n : a[j] = b[j]
    BY <1>2, <1>3 DEF a, b
  <2>2. \A j \in 1..(n + 1) : [a EXCEPT ![n + 1] = other][j] = b[j]
    BY <1>1, <2>1
  <2> QED
    BY <2>2 DEF a, b
<1>6. t = Append(v.items, other)
  BY <1>2, <1>4, <1>5, SeqEqual
<1> QED
  BY <1>6 DEF Turned, Grown

\* An item with a part is announced and its part opened.
LEMMA PartBeginsLeads ==
  ASSUME NEW v \in View, v.end = "none", NEW type \in {"message", "reasoning"}, type = "reasoning" => ~v.spoken
  PROVE  Leads(v, PartBegins(Len(v.items) + 1, type), Grown(v, Shown(type, "open", FALSE)))
<1> DEFINE n == Len(v.items)
           g == Grown(v, Shown(type, "none", FALSE))
<1>1. /\ type \in Client!ItemType /\ Shown(type, "none", FALSE) \in Item /\ Shown(type, "open", FALSE) \in Item
      /\ Client!HasPart(type)
  BY DEF Client!ItemType, Client!HasPart, Shown, Item, Parts
<1>2. Leads(v, <<Added(n + 1, type)>>, g)
  BY <1>1, AddedLeads
<1>3. g \in View /\ n + 1 \in DOMAIN g.items /\ g.items[n + 1] = Shown(type, "none", FALSE) /\ g.end = "none"
  <2>1. n \in Nat
    BY ViewFields
  <2>2. 1..(n + 1) = DOMAIN g.items /\ g \in View /\ g.items[n + 1] = Shown(type, "none", FALSE) /\ g.end = "none"
    BY <1>1, GrownView
  <2> HIDE DEF g
  <2> QED
    BY <2>1, <2>2
<1>4. /\ ItemSuits(g.items[n + 1], "part")
      /\ ItemAfter(g.items[n + 1], "part") = Shown(type, "open", FALSE)
  <2>1. /\ ItemSuits(Shown(type, "none", FALSE), "part")
        /\ ItemAfter(Shown(type, "none", FALSE), "part") = Shown(type, "open", FALSE)
    BY <1>1 DEF ItemSuits, ItemAfter, Shown
  <2> HIDE DEF g
  <2> QED
    BY <1>3, <2>1
<1>5. Leads(g, <<About("part", n + 1)>>, Turned(g, n + 1, Shown(type, "open", FALSE)))
  <2> HIDE DEF g
  <2> QED
    BY <1>3, <1>4, MarkLeads
<1>6. Turned(g, n + 1, Shown(type, "open", FALSE)) = Grown(v, Shown(type, "open", FALSE))
  BY <1>1, TurnedGrown
<1>7. Leads(v, <<Added(n + 1, type)>> \o <<About("part", n + 1)>>, Grown(v, Shown(type, "open", FALSE)))
  <2> HIDE DEF g
  <2> QED
    BY <1>2, <1>5, <1>6, LeadsOn
<1> QED
  BY <1>7, InARow DEF PartBegins
\* What may be told of an item, by what it is.
LEMMA ItemFacts ==
  ASSUME NEW type \in Client!ItemType, NEW done \in BOOLEAN, NEW part \in Parts
  PROVE  /\ Shown(type, part, done) \in Item
         /\ ItemAfter(Shown(type, part, done), "partDone") = Shown(type, "closed", done)
         /\ ItemAfter(Shown(type, part, done), "done") = Shown(type, part, TRUE)
         /\ part = "open" /\ ~done =>
              ItemSuits(Shown(type, part, done), "repeat") /\ ItemSuits(Shown(type, part, done), "partDone")
         /\ part = "open" /\ type = "message" =>
              ItemSuits(Shown(type, part, done), "text") /\ ItemSuits(Shown(type, part, done), "blank")
         /\ part = "open" /\ type = "reasoning" => ItemSuits(Shown(type, part, done), "thought")
         /\ ~done /\ part = "closed" => ItemSuits(Shown(type, part, done), "done")
         /\ ~done /\ type \in {"sealed", "function_call", "web_search_call"} =>
              ItemSuits(Shown(type, part, done), "done") /\ ItemSuits(Shown(type, part, done), "progress")
<1> DEFINE item == Shown(type, part, done)
<1>1. item.type = type /\ item.part = part /\ item.done = done
  BY DEF Shown
<1>2. item \in Item
  BY DEF Shown, Item
<1>3. /\ ItemAfter(item, "partDone") = Shown(type, "closed", done)
      /\ ItemAfter(item, "done") = Shown(type, part, TRUE)
  BY DEF ItemAfter, Shown
<1> HIDE DEF item
<1>4. part = "open" /\ ~done => ItemSuits(item, "repeat") /\ ItemSuits(item, "partDone")
  BY <1>1 DEF ItemSuits
<1>5. part = "open" /\ type = "message" => ItemSuits(item, "text") /\ ItemSuits(item, "blank")
  BY <1>1 DEF ItemSuits
<1>6. part = "open" /\ type = "reasoning" => ItemSuits(item, "thought")
  BY <1>1 DEF ItemSuits
<1>7. ~done /\ part = "closed" => ItemSuits(item, "done")
  BY <1>1 DEF ItemSuits
<1>8. ~done /\ type \in {"sealed", "function_call", "web_search_call"} =>
        ItemSuits(item, "done") /\ ItemSuits(item, "progress")
  BY <1>1 DEF ItemSuits, Client!HasPart
<1> QED
  BY <1>2, <1>3, <1>4, <1>5, <1>6, <1>7, <1>8 DEF item

\* What an item was turned to is overwritten by what it is turned to next.
LEMMA TurnedTwice ==
  ASSUME NEW v \in View, NEW i \in DOMAIN v.items, NEW item \in Item, NEW other \in Item
  PROVE  Turned(Turned(v, i, item), i, other) = Turned(v, i, other)
<1>1. [[v.items EXCEPT ![i] = item] EXCEPT ![i] = other] = [v.items EXCEPT ![i] = other]
  BY ViewFields
<1> QED
  BY <1>1 DEF Turned

\* The end of an item with a part.
LEMMA PartEndsLeads ==
  ASSUME NEW v \in View, v.end = "none", NEW i \in DOMAIN v.items, NEW type \in {"message", "reasoning"},
         v.items[i] = Shown(type, "open", FALSE)
  PROVE  Leads(v, PartEnds(i), Turned(v, i, Shown(type, "closed", TRUE)))
<1> DEFINE closed == Shown(type, "closed", FALSE)
           finished == Shown(type, "closed", TRUE)
           u == Turned(v, i, closed)
<1>1. type \in Client!ItemType
  BY DEF Client!ItemType
<1>2. /\ closed \in Item /\ finished \in Item
      /\ ItemAfter(v.items[i], "partDone") = closed /\ ItemAfter(closed, "done") = finished
      /\ ItemSuits(v.items[i], "repeat") /\ ItemSuits(v.items[i], "partDone") /\ ItemSuits(closed, "done")
  BY <1>1, ItemFacts DEF Parts
<1> HIDE DEF closed, finished
<1>3. Leads(v, <<About("repeat", i)>>, v)
  BY <1>2, TouchLeads
<1>4. Leads(v, <<About("partDone", i)>>, u)
  BY <1>2, MarkLeads
<1>5. u \in View /\ u.end = "none" /\ u.items[i] = closed /\ i \in DOMAIN u.items
  BY <1>2, TurnedView
<1>6. Turned(u, i, finished) = Turned(v, i, finished)
  BY <1>2, TurnedTwice
<1> HIDE DEF u
<1>7. Leads(u, <<About("done", i)>>, Turned(v, i, finished))
  BY <1>2, <1>5, <1>6, MarkLeads
<1>8. Leads(v, <<About("partDone", i)>> \o <<About("done", i)>>, Turned(v, i, finished))
  BY <1>4, <1>7, LeadsOn
<1>9. Leads(v, <<About("repeat", i)>> \o (<<About("partDone", i)>> \o <<About("done", i)>>), Turned(v, i, finished))
  BY <1>3, <1>8, LeadsOn
<1>10. <<About("partDone", i)>> \o <<About("done", i)>> = <<About("partDone", i), About("done", i)>>
  BY InARow
<1>11. <<About("repeat", i)>> \o <<About("partDone", i), About("done", i)>> = PartEnds(i)
  BY InARow DEF PartEnds
<1> QED
  BY <1>9, <1>10, <1>11 DEF finished

\* The end of an item that has none: a call, a search or sealed reasoning.
LEMMA DoneLeads ==
  ASSUME NEW v \in View, v.end = "none", NEW i \in DOMAIN v.items,
         NEW type \in {"sealed", "function_call", "web_search_call"},
         v.items[i] = Shown(type, "none", FALSE)
  PROVE  /\ Leads(v, <<About("done", i)>>, Turned(v, i, Shown(type, "none", TRUE)))
         /\ Leads(v, <<About("progress", i)>>, v)
         /\ Leads(v, <<About("progress", i), About("done", i)>>, Turned(v, i, Shown(type, "none", TRUE)))
<1>1. type \in Client!ItemType
  BY DEF Client!ItemType
<1>2. /\ ItemAfter(v.items[i], "done") = Shown(type, "none", TRUE)
      /\ ItemSuits(v.items[i], "done") /\ ItemSuits(v.items[i], "progress")
  BY <1>1, ItemFacts DEF Parts
<1>3. Leads(v, <<About("done", i)>>, Turned(v, i, Shown(type, "none", TRUE)))
  BY <1>2, MarkLeads
<1>4. Leads(v, <<About("progress", i)>>, v)
  BY <1>2, TouchLeads
<1>5. Leads(v, <<About("progress", i)>> \o <<About("done", i)>>, Turned(v, i, Shown(type, "none", TRUE)))
  BY <1>3, <1>4, LeadsOn
<1> QED
  BY <1>3, <1>4, <1>5, InARow

\* A search is announced, and ends.
LEMMA SearchLeads ==
  ASSUME NEW v \in View, v.end = "none"
  PROVE  /\ Leads(v, SearchBegins(Len(v.items) + 1), Grown(v, Shown("web_search_call", "none", FALSE)))
         /\ \A i \in DOMAIN v.items : v.items[i] = Shown("web_search_call", "none", FALSE) =>
              Leads(v, SearchEnds(i), Turned(v, i, Shown("web_search_call", "none", TRUE)))
<1> DEFINE n == Len(v.items)
           item == Shown("web_search_call", "none", FALSE)
           g == Grown(v, item)
<1>1. "web_search_call" \in Client!ItemType /\ item \in Item
  BY ItemFacts DEF Client!ItemType, Parts
<1>2. Leads(v, <<Added(n + 1, "web_search_call")>>, g)
  BY <1>1, AddedLeads
<1> HIDE DEF item
<1>3. g \in View /\ g.end = "none" /\ DOMAIN g.items = 1..(n + 1) /\ g.items[n + 1] = item /\ n \in Nat
  BY <1>1, GrownView, ViewFields
<1> HIDE DEF g
<1>4. n + 1 \in DOMAIN g.items
  BY <1>3
<1>5. Leads(g, <<About("progress", n + 1)>>, g)
  BY <1>3, <1>4, DoneLeads DEF item
<1>6. Leads(g, <<About("progress", n + 1)>> \o <<About("progress", n + 1)>>, g)
  BY <1>5, LeadsOn
<1>7. Leads(v, <<Added(n + 1, "web_search_call")>> \o (<<About("progress", n + 1)>> \o <<About("progress", n + 1)>>), g)
  BY <1>2, <1>6, LeadsOn
<1>8. Leads(v, SearchBegins(n + 1), g)
  <2>1. <<About("progress", n + 1)>> \o <<About("progress", n + 1)>> = <<About("progress", n + 1), About("progress", n + 1)>>
    BY InARow
  <2>2. <<Added(n + 1, "web_search_call")>> \o <<About("progress", n + 1), About("progress", n + 1)>> = SearchBegins(n + 1)
    BY InARow DEF SearchBegins
  <2> QED
    BY <1>7, <2>1, <2>2
<1>9. \A i \in DOMAIN v.items : v.items[i] = item =>
        Leads(v, SearchEnds(i), Turned(v, i, Shown("web_search_call", "none", TRUE)))
  BY DoneLeads DEF SearchEnds, item
<1> QED
  BY <1>8, <1>9 DEF g, item

\* The deltas of a part.
LEMMA DeltaLeads ==
  ASSUME NEW v \in View, v.end = "none", NEW i \in DOMAIN v.items
  PROVE  /\ \A text : v.items[i] = Shown("message", "open", FALSE) =>
              Leads(v, <<TextDelta(i, text)>>, IF text = "blank" THEN v ELSE Told(v))
         /\ v.items[i] = Shown("reasoning", "open", FALSE) /\ ~v.spoken =>
              Leads(v, <<ThoughtDelta(i)>>, v)
<1>1. ASSUME NEW text, v.items[i] = Shown("message", "open", FALSE)
      PROVE  Leads(v, <<TextDelta(i, text)>>, IF text = "blank" THEN v ELSE Told(v))
  <2>1. ItemSuits(v.items[i], "text") /\ ItemSuits(v.items[i], "blank")
    BY <1>1, ItemFacts DEF Parts, Client!ItemType
  <2>2. Leads(v, <<About("text", i)>>, Told(v))
    BY <2>1, TouchLeads
  <2>3. Leads(v, <<About("blank", i)>>, v)
    BY <2>1, TouchLeads
  <2> QED
    BY <2>2, <2>3 DEF TextDelta
<1>2. ASSUME v.items[i] = Shown("reasoning", "open", FALSE), ~v.spoken
      PROVE  Leads(v, <<ThoughtDelta(i)>>, v)
  <2>1. ItemSuits(v.items[i], "thought")
    BY <1>2, ItemFacts DEF Parts, Client!ItemType
  <2> QED
    BY <1>2, <2>1, TouchLeads DEF ThoughtDelta
<1> QED
  BY <1>1, <1>2
-----------------------------------------------------------------------------
(* messagesStreamState and what the client knows.                          *)

BlockState == [kind : BlockKind, item : Nat, done : BOOLEAN, id : CallIds \cup {NoCallId}, flag : BOOLEAN]
CallState == [id : CallIds \cup {NoCallId}, item : Nat, emitted : BOOLEAN]
MessagesState ==
  [blocks : [Blocks -> BlockState \cup {NoBlock}], calls : SUBSET CallState, items : Nat,
   stopReason : BOOLEAN, sawStart : BOOLEAN, terminal : BOOLEAN, sawText : BOOLEAN, urls : BOOLEAN,
   finishing : BOOLEAN, hosted : BOOLEAN]

\* Blocks that have an item of their own; that of a search belongs to its call.
OwnKinds == {"text", "thinking", "redacted_thinking", "tool_use"}
Owns(b) == b # NoBlock /\ b.kind \in OwnKinds /\ b.item # 0
Owed(b) == b # NoBlock /\ b.kind \in OwnKinds \ {"thinking"} => b.item # 0

TypeOf(kind) ==
  CASE kind = "text" -> "message" [] kind = "thinking" -> "reasoning"
    [] kind = "redacted_thinking" -> "sealed" [] kind = "tool_use" -> "function_call"
BlockItem(kind, done) ==
  Shown(TypeOf(kind), IF kind \notin {"text", "thinking"} THEN "none" ELSE IF done THEN "closed" ELSE "open", done)
CallItem(emitted) == Shown("web_search_call", "none", emitted)

BlocksFit(m, v) ==
  /\ \A i \in Blocks : Owed(m.blocks[i])
  /\ \A i \in Blocks : Owns(m.blocks[i]) =>
       /\ m.blocks[i].item \in DOMAIN v.items
       /\ v.items[m.blocks[i].item] = BlockItem(m.blocks[i].kind, m.blocks[i].done)
  /\ \A i, j \in Blocks :
       Owns(m.blocks[i]) /\ Owns(m.blocks[j]) /\ m.blocks[i].item = m.blocks[j].item => i = j
CallsFit(m, v) ==
  /\ \A c \in m.calls : c.item \in DOMAIN v.items /\ v.items[c.item] = CallItem(c.emitted)
  /\ \A c, d \in m.calls : c.item = d.item => c = d

\* Every item is done, or some block or call will see to it.
Accounted(m, v) ==
  \A j \in DOMAIN v.items : \/ v.items[j].done
                            \/ \E i \in Blocks : Owns(m.blocks[i]) /\ m.blocks[i].item = j
                            \/ \E c \in m.calls : c.item = j

MessagesFit(m, v) ==
  /\ m \in MessagesState /\ v \in View /\ m.items = Len(v.items) /\ (v.spoken => m.sawText)
  /\ BlocksFit(m, v) /\ CallsFit(m, v) /\ Accounted(m, v)
  /\ v.end # "none" <=> m.terminal
  /\ v.end = "terminal" => Unstopped(m) = {} /\ Unfinished(m) = {}
  /\ m.finishing => ~m.terminal

-----------------------------------------------------------------------------
(* chatStreamState and what the client knows.                              *)

ToolState == [item : Nat, name : {"none", "good", "blank"}, args : BOOLEAN, seen : BOOLEAN]
ChatState ==
  [reasoning : Nat, message : Nat, search : Nat, tools : [Tools -> ToolState], items : Nat,
   sawChunk : BOOLEAN, finishReason : BOOLEAN, terminal : BOOLEAN, sawText : BOOLEAN, held : BOOLEAN,
   urls : BOOLEAN, finishing : BOOLEAN, left : SUBSET Tools, hosted : BOOLEAN]

PartItem(type, done) == Shown(type, IF done THEN "closed" ELSE "open", done)
ToolItem(done) == Shown("function_call", "none", done)

Placed(v, item, what) == item # 0 => item \in DOMAIN v.items /\ v.items[item] = what

\* How far finish has come: to nothing ("open"), past the reasoning ("thought"),
\* past the message ("told"), to the calls, past the search ("searched").
Stage == {"open", "thought", "told", "calls", "searched"}
Past(stage) == stage \in {"calls", "searched"}
Ended(stage, i, left) == Past(stage) /\ i \notin left

PartsFit(c, v, stage) ==
  /\ Placed(v, c.reasoning, PartItem("reasoning", stage # "open"))
  /\ Placed(v, c.message, PartItem("message", stage \notin {"open", "thought"}))
  /\ Placed(v, c.search, CallItem(stage = "searched"))
ToolsFit(c, v, stage) ==
  /\ \A i \in Tools : Placed(v, c.tools[i].item, ToolItem(Ended(stage, i, c.left)))
  /\ \A i \in Tools : c.tools[i].item # 0 => c.tools[i].seen
  /\ \A i \in Tools : c.tools[i].seen /\ Ended(stage, i, c.left) => c.tools[i].item # 0
  /\ \A i \in Tools : Past(stage) /\ i \in c.left => c.tools[i].seen
  /\ \A i, j \in Tools : c.tools[i].item = c.tools[j].item /\ c.tools[i].item # 0 => i = j
Known(c, v) ==
  \A j \in DOMAIN v.items : j \in {c.reasoning, c.message, c.search} \/ \E i \in Tools : c.tools[i].item = j

ChatFitsAt(c, v, stage) ==
  /\ c \in ChatState /\ v \in View /\ c.items = Len(v.items) /\ (v.spoken => c.sawText)
  /\ PartsFit(c, v, stage) /\ ToolsFit(c, v, stage) /\ Known(c, v)
  /\ v.end # "none" <=> c.terminal
  /\ stage = "searched" => c.left = {}
  /\ c.finishing = (Past(stage) /\ ~c.terminal)

ChatFit(c, v) ==
  ChatFitsAt(c, v, IF c.finishing THEN "calls" ELSE IF v.end = "terminal" THEN "searched" ELSE "open")
-----------------------------------------------------------------------------
(* A buffered answer and what the client knows.                            *)

AnswerState ==
  [body : MessagesBodies \cup ChatBodies, hosted : BOOLEAN, items : Seq(Client!ItemType), held : BOOLEAN,
   sawText : BOOLEAN, calls : SUBSET (CallIds \cup {NoCallId}), taken : Nat,
   text : {"none", "blank", "text"}, shown : Nat, finishing : BOOLEAN]

\* Output items of a type, and their number.
Those(items, type) == {i \in DOMAIN items : items[i] = type}
Count(items, type) == Cardinality(Those(items, type))

\* No thought follows a message.
Ordered(items) == \A i, j \in DOMAIN items : i < j /\ items[i] = "message" => items[j] # "reasoning"

\* The items report all calls and searches of the body.
Reports(r) ==
  /\ Count(r.items, "function_call") = CallsIn(r.body)
  /\ Count(r.items, "web_search_call") >= SearchesIn(r.body)

\* An item that was shown was shown whole.
Whole(type) == Shown(type, IF Client!HasPart(type) THEN "closed" ELSE "none", TRUE)

BodyFit(r, v) ==
  /\ r \in AnswerState /\ v \in View /\ Ordered(r.items) /\ Reports(r)
  /\ r.shown = Len(v.items) /\ r.shown <= Len(r.items)
  /\ \A i \in 1..r.shown : v.items[i] = Whole(r.items[i])
  /\ v.spoken => \E i \in 1..r.shown : r.items[i] = "message"
  /\ v.end \in {"none", "terminal"} /\ (v.end = "none" <=> r.finishing)
  /\ ~r.finishing => r.shown = Len(r.items)

\* The handler's state fits what the client has seen.
Fit(kind, s, v) ==
  CASE kind = "messages" -> MessagesFit(s, v) [] kind = "chat" -> ChatFit(s, v) [] kind = "body" -> BodyFit(s, v)

-----------------------------------------------------------------------------
(* What calls come to.                                                     *)

Fits(stage, s, v) == IF stage = "messages" THEN MessagesFit(s, v) ELSE ChatFitsAt(s, v, stage)

\* Events the client can be shown, which do not end the stream; after them its
\* view fits the state again, unless an error is returned.
IsOutcome(r) == r = Outcome(r.state, r.out, r.bad) /\ r.bad \in BOOLEAN
KeptIn(stage, r, v, w) == Leads(v, r.out, w) /\ w.end = "none" /\ (~r.bad => Fits(stage, r.state, w))
KeptBy(stage, r, v) == IsOutcome(r) /\ \E w \in View : KeptIn(stage, r, v, w)
Keep(stage, results, v) == \A r \in results : KeptBy(stage, r, v)

\* What comes of a call whose events follow those of another.
Following(q, x) == [x EXCEPT !.out = q.out \o @]

\* Calls in a row.
LEMMA Joins ==
  ASSUME NEW v, NEW u, NEW w, NEW q, NEW n, IsOutcome(n), Leads(v, q.out, u), Leads(u, n.out, w),
         NEW r, r = Following(q, n)
  PROVE  IsOutcome(r) /\ r.state = n.state /\ r.bad = n.bad /\ Leads(v, r.out, w)
<1>1. PICK a, b, c : n = [state |-> a, out |-> b, bad |-> c]
  BY DEF IsOutcome, Outcome
<1>2. n.state = a /\ n.out = b /\ n.bad = c
  BY <1>1
<1>5. r = [state |-> a, out |-> q.out \o b, bad |-> c]
  <2> DEFINE s == q.out \o b
  <2>1. r = [n EXCEPT !.out = s]
    BY <1>2 DEF Following
  <2> HIDE DEF s
  <2>2. r = [state |-> a, out |-> s, bad |-> c]
    BY <1>1, <2>1
  <2> QED
    BY <2>2 DEF s
<1>4. n.bad \in BOOLEAN
  BY DEF IsOutcome
<1>3. Leads(v, q.out \o n.out, w)
  BY LeadsOn
<1> QED
  BY <1>2, <1>3, <1>4, <1>5 DEF IsOutcome, Outcome

\* One call.
LEMMA KeepsOne ==
  ASSUME NEW stage, NEW v, NEW n, NEW s, NEW w \in View, Leads(v, s, w), w.end = "none", Fits(stage, n, w)
  PROVE  Keep(stage, Emits(n, s), v)
<1> SUFFICES ASSUME NEW r \in Emits(n, s)
             PROVE  KeptBy(stage, r, v)
  BY DEF Keep
<1>1. r = Outcome(n, s, FALSE)
  BY DEF Emits
<1>3. r.state = n /\ r.out = s /\ r.bad = FALSE /\ IsOutcome(r)
  BY <1>1 DEF IsOutcome, Outcome
<1> QED
  BY <1>3 DEF KeptBy, KeptIn

\* A call that emits nothing, and one that fails.
LEMMA KeepsQuiet ==
  ASSUME NEW stage, NEW v \in View, NEW n, v.end = "none"
  PROVE  /\ Fits(stage, n, v) => Keep(stage, Quiet(n), v)
         /\ Keep(stage, Fails(n), v)
<1>1. Leads(v, <<>>, v)
  BY LeadsNowhere
<1>2. Fits(stage, n, v) => Keep(stage, Quiet(n), v)
  BY <1>1, KeepsOne DEF Quiet
<1>3. ASSUME NEW r \in Fails(n)
      PROVE  r.out = <<>> /\ r.bad = TRUE /\ IsOutcome(r)
  <2>1. r = Outcome(n, <<>>, TRUE)
    BY DEF Fails
  <2> QED
    BY <2>1 DEF IsOutcome, Outcome
<1>4. Keep(stage, Fails(n), v)
  BY <1>1, <1>3 DEF Keep, KeptBy, KeptIn
<1> QED
  BY <1>2, <1>4

\* What calls after a call come to: its error, or what follows it wherever its
\* state fits.
GoesOn(stage, next, q, r) ==
  \/ q.bad /\ r = q
  \/ /\ ~q.bad
     /\ \E x : /\ r = Following(q, x)
               /\ \A u \in View : u.end = "none" /\ Fits(stage, q.state, u) => Keep(next, {x}, u)

\* The calls after a call.
LEMMA KeepsThen ==
  ASSUME NEW stage, NEW next, NEW v, NEW first, Keep(stage, first, v), NEW later,
         \A r \in later : \E q \in first : GoesOn(stage, next, q, r)
  PROVE  Keep(next, later, v)
<1> SUFFICES ASSUME NEW r \in later
             PROVE  KeptBy(next, r, v)
  BY DEF Keep
<1>1. PICK q \in first :
        \/ q.bad /\ r = q
        \/ /\ ~q.bad
           /\ \E x : /\ r = Following(q, x)
                     /\ \A u \in View : u.end = "none" /\ Fits(stage, q.state, u) => Keep(next, {x}, u)
  BY DEF GoesOn
<1>2. IsOutcome(q)
  BY DEF Keep, KeptBy
<1>3. PICK u \in View : KeptIn(stage, q, v, u)
  BY DEF Keep, KeptBy
<1>4. CASE q.bad
  BY <1>1, <1>2, <1>3, <1>4 DEF KeptBy, KeptIn
<1>5. CASE ~q.bad
  <2>1. PICK x : r = Following(q, x) /\ Keep(next, {x}, u)
    BY <1>1, <1>3, <1>5 DEF KeptIn
  <2>2. IsOutcome(x)
    BY <2>1 DEF Keep, KeptBy
  <2>3. PICK w \in View : KeptIn(next, x, u, w)
    BY <2>1 DEF Keep, KeptBy
  <2>5. Leads(v, q.out, u) /\ Leads(u, x.out, w) /\ r = Following(q, x)
    BY <1>3, <2>1, <2>3 DEF KeptIn
  <2>4. IsOutcome(r) /\ r.state = x.state /\ r.bad = x.bad /\ Leads(v, r.out, w)
    BY <2>2, <2>5, Joins
  <2> QED
    BY <2>3, <2>4 DEF KeptBy, KeptIn
<1> QED
  BY <1>4, <1>5

\* The calls after a call, given by what it came to.
LEMMA KeepsInTurn ==
  ASSUME NEW stage, NEW next, NEW v, NEW first, Keep(stage, first, v), NEW later, NEW F,
         \A r \in later : \E q \in first :
           r \in IF q.bad THEN {q} ELSE {[x EXCEPT !.out = q.out \o @] : x \in F[q]},
         \A q \in first : \A u \in View :
           u.end = "none" /\ Fits(stage, q.state, u) => Keep(next, F[q], u)
  PROVE  Keep(next, later, v)
<1>1. ASSUME NEW r \in later
      PROVE  \E q \in first : GoesOn(stage, next, q, r)
  <2>1. PICK q \in first : r \in IF q.bad THEN {q} ELSE {[x EXCEPT !.out = q.out \o @] : x \in F[q]}
    OBVIOUS
  <2>2. CASE q.bad
    BY <2>1, <2>2 DEF GoesOn
  <2>3. CASE ~q.bad
    <3>1. PICK x \in F[q] : r = Following(q, x)
      BY <2>1, <2>3 DEF Following
    <3>2. \A u \in View : u.end = "none" /\ Fits(stage, q.state, u) => Keep(next, {x}, u)
      BY <3>1 DEF Keep
    <3> QED
      BY <2>3, <3>1, <3>2 DEF GoesOn
  <2> QED
    BY <2>2, <2>3
<1>2. \A r \in later : \E q \in first : GoesOn(stage, next, q, r)
  BY <1>1
<1> QED
  BY <1>2, KeepsThen

\* One call, and calls after it.
LEMMA KeepsAfter ==
  ASSUME NEW stage, NEW v, NEW n, NEW s, NEW u, Leads(v, s, u), NEW results, Keep(stage, results, u),
         NEW later,
         \A r \in later : \E q \in Emits(n, s), x \in results : r = Following(q, x)
  PROVE  Keep(stage, later, v)
<1> SUFFICES ASSUME NEW r \in later
             PROVE  KeptBy(stage, r, v)
  BY DEF Keep
<1>1. PICK q \in Emits(n, s), x \in results : r = Following(q, x)
  OBVIOUS
<1>2. IsOutcome(x)
  BY DEF Keep, KeptBy
<1>3. PICK w \in View : KeptIn(stage, x, u, w)
  BY DEF Keep, KeptBy
<1>4. q.out = s
  BY DEF Emits, Outcome
<1>5. Leads(v, q.out, u)
  BY <1>4
<1>7. Leads(u, x.out, w) /\ r = Following(q, x)
  BY <1>1, <1>3 DEF KeptIn
<1>6. IsOutcome(r) /\ r.state = x.state /\ r.bad = x.bad /\ Leads(v, r.out, w)
  BY <1>2, <1>5, <1>7, Joins
<1> QED
  BY <1>3, <1>6 DEF KeptBy, KeptIn

\* What the blocks' items and calls' items look like.
LEMMA ItemKindsApart ==
  ASSUME NEW kind \in OwnKinds, NEW done \in BOOLEAN
  PROVE  /\ BlockItem(kind, done) \in Item /\ CallItem(done) \in Item
         /\ BlockItem(kind, done).done = done /\ CallItem(done).done = done
         /\ BlockItem(kind, done).type = TypeOf(kind) /\ BlockItem(kind, done).type # "web_search_call"
         /\ CallItem(done).type = "web_search_call"
         /\ TypeOf(kind) \in Client!ItemType
<1>1. TypeOf(kind) \in {"message", "reasoning", "sealed", "function_call"}
  BY DEF TypeOf, OwnKinds
<1>2. TypeOf(kind) \in Client!ItemType /\ "web_search_call" \in Client!ItemType
  BY <1>1 DEF Client!ItemType
<1> HIDE DEF TypeOf
<1>3. CallItem(done) \in Item /\ CallItem(done).done = done /\ CallItem(done).type = "web_search_call"
  BY <1>2 DEF CallItem, Shown, Item, Parts
<1>4. BlockItem(kind, done) \in Item /\ BlockItem(kind, done).done = done /\ BlockItem(kind, done).type = TypeOf(kind)
  BY <1>2 DEF BlockItem, Shown, Item, Parts
<1> QED
  BY <1>1, <1>2, <1>3, <1>4
-----------------------------------------------------------------------------
(* How the fit survives a change.                                          *)

\* Blocks without an item may come and go, and flags be set.
SameOwners(m, n) ==
  \A i \in Blocks :
    /\ Owed(n.blocks[i])
    /\ n.blocks[i] = m.blocks[i] \/ (~Owns(m.blocks[i]) /\ ~Owns(n.blocks[i]))

\* It survives what concerns neither items nor calls.
LEMMA SameFits ==
  ASSUME NEW m, NEW v, MessagesFit(m, v), NEW n \in MessagesState,
         SameOwners(m, n), n.calls = m.calls, n.items = m.items, m.sawText => n.sawText,
         n.terminal = m.terminal, n.finishing => ~n.terminal, ~m.terminal
  PROVE  MessagesFit(n, v)
<1>1. v.end = "none"
  BY DEF MessagesFit, View
<1>2. \A i \in Blocks : Owns(n.blocks[i]) => n.blocks[i] = m.blocks[i]
  BY DEF SameOwners
<1>3. \A i \in Blocks : Owns(m.blocks[i]) => n.blocks[i] = m.blocks[i]
  BY DEF SameOwners
<1> USE DEF MessagesFit
<1>4. BlocksFit(n, v)
  <2>1. \A i \in Blocks : Owed(n.blocks[i])
    BY DEF SameOwners
  <2>2. BlocksFit(m, v)
    OBVIOUS
  <2> QED
    BY <1>2, <2>1, <2>2 DEF BlocksFit
<1>5. CallsFit(n, v)
  BY DEF CallsFit
<1>6. Accounted(n, v)
  BY <1>3 DEF Accounted
<1> QED
  BY <1>1, <1>4, <1>5, <1>6

\* It survives a new block with an item of its own.
LEMMA BlockBeginsFits ==
  ASSUME NEW m, NEW v, MessagesFit(m, v), ~m.terminal, NEW i \in Blocks, m.blocks[i] = NoBlock,
         NEW n \in MessagesState, n.items = m.items + 1, n.calls = m.calls, n.sawText = m.sawText,
         ~n.terminal, n.blocks[i].kind \in OwnKinds, n.blocks[i].item = m.items + 1,
         n.blocks[i] # NoBlock, n.blocks[i].done = FALSE,
         \A j \in Blocks : j # i => n.blocks[j] = m.blocks[j]
  PROVE  MessagesFit(n, Grown(v, BlockItem(n.blocks[i].kind, FALSE)))
<1> DEFINE item == BlockItem(n.blocks[i].kind, FALSE)
           w == Grown(v, item)
           last == m.items + 1
<1>1. item \in Item /\ v \in View
  BY ItemKindsApart DEF MessagesFit
<1> HIDE DEF item
<1>2. /\ w \in View /\ Len(w.items) = last /\ DOMAIN v.items = 1..m.items /\ DOMAIN w.items = 1..last
      /\ w.items[last] = item /\ m.items \in Nat
      /\ \A j \in 1..m.items : w.items[j] = v.items[j]
      /\ w.spoken = v.spoken /\ w.end = v.end
  <2>1. m.items = Len(v.items) /\ m.items \in Nat
    BY <1>1, ViewFields DEF MessagesFit
  <2> QED
    BY <1>1, <2>1, GrownView
<1> HIDE DEF w
<1>3. 1..last = 1..m.items \cup {last} /\ last \notin 1..m.items /\ last # 0
  BY <1>2
<1>4. v.end = "none"
  BY <1>1 DEF MessagesFit, View
<1>5. Owns(n.blocks[i]) /\ ~Owns(m.blocks[i]) /\ Owed(n.blocks[i])
  BY <1>3 DEF Owns, Owed
<1>6. BlocksFit(n, w)
  <2>1. BlocksFit(m, v)
    BY DEF MessagesFit
  <2>2. \A j \in Blocks : Owed(n.blocks[j])
    BY <1>5, <2>1 DEF BlocksFit
  <2>3. ASSUME NEW j \in Blocks, Owns(n.blocks[j])
        PROVE  /\ n.blocks[j].item \in DOMAIN w.items
               /\ w.items[n.blocks[j].item] = BlockItem(n.blocks[j].kind, n.blocks[j].done)
    <3>1. CASE j = i
      BY <1>2, <1>3, <3>1 DEF item
    <3>2. CASE j # i
      <4>1. n.blocks[j] = m.blocks[j] /\ Owns(m.blocks[j])
        BY <2>3, <3>2
      <4>2. /\ m.blocks[j].item \in 1..m.items
            /\ v.items[m.blocks[j].item] = BlockItem(m.blocks[j].kind, m.blocks[j].done)
        BY <1>2, <2>1, <4>1 DEF BlocksFit
      <4> QED
        BY <1>2, <1>3, <4>1, <4>2
    <3> QED
      BY <3>1, <3>2
  <2>4. \A j \in Blocks : j # i /\ Owns(n.blocks[j]) => n.blocks[j].item \in 1..m.items
    BY <1>2, <2>1 DEF BlocksFit
  <2>5. ASSUME NEW j \in Blocks, NEW k \in Blocks, Owns(n.blocks[j]), Owns(n.blocks[k]),
               n.blocks[j].item = n.blocks[k].item
        PROVE  j = k
    <3>1. CASE j # i /\ k # i
      BY <2>1, <2>5, <3>1 DEF BlocksFit
    <3>2. CASE j = i \/ k = i
      BY <1>3, <2>4, <2>5, <3>2
    <3> QED
      BY <3>1, <3>2
  <2> QED
    BY <2>2, <2>3, <2>5 DEF BlocksFit
<1>7. CallsFit(n, w)
  BY <1>2, <1>3 DEF CallsFit, MessagesFit
<1>8. Accounted(n, w)
  <2> SUFFICES ASSUME NEW j \in DOMAIN w.items
               PROVE  \/ w.items[j].done
                      \/ \E k \in Blocks : Owns(n.blocks[k]) /\ n.blocks[k].item = j
                      \/ \E c \in n.calls : c.item = j
    BY DEF Accounted
  <2>1. CASE j = last
    BY <1>5, <2>1
  <2>2. CASE j # last
    <3>1. j \in DOMAIN v.items /\ w.items[j] = v.items[j]
      BY <1>2, <1>3, <2>2
    <3>2. \A k \in Blocks : Owns(m.blocks[k]) => n.blocks[k] = m.blocks[k]
      BY <1>5
    <3> QED
      BY <3>1, <3>2 DEF MessagesFit, Accounted
  <2> QED
    BY <2>1, <2>2
<1>9. MessagesFit(n, w)
  BY <1>2, <1>4, <1>6, <1>7, <1>8 DEF MessagesFit
<1> QED
  BY <1>9 DEF w, item
\* A view that fits a state that has not ended, and what it grows to.
LEMMA FitGrows ==
  ASSUME NEW m, NEW v, MessagesFit(m, v), ~m.terminal
  PROVE  /\ v \in View /\ v.end = "none" /\ m.items = Len(v.items) /\ m.items \in Nat
         /\ DOMAIN v.items = 1..m.items
         /\ 1..(m.items + 1) = 1..m.items \cup {m.items + 1} /\ m.items + 1 \notin 1..m.items
         /\ \A item \in Item :
              /\ Grown(v, item) \in View /\ Len(Grown(v, item).items) = m.items + 1
              /\ DOMAIN Grown(v, item).items = 1..(m.items + 1)
              /\ Grown(v, item).items[m.items + 1] = item
              /\ \A j \in 1..m.items : Grown(v, item).items[j] = v.items[j]
              /\ Grown(v, item).spoken = v.spoken /\ Grown(v, item).end = "none"
<1>1. v \in View /\ v.end = "none" /\ m.items = Len(v.items)
  BY DEF MessagesFit, View
<1>2. m.items \in Nat /\ DOMAIN v.items = 1..m.items
  BY <1>1, ViewFields
<1>3. 1..(m.items + 1) = 1..m.items \cup {m.items + 1} /\ m.items + 1 \notin 1..m.items
  BY <1>2
<1> QED
  BY <1>1, <1>2, <1>3, GrownView

\* It survives the stop of a block with an item of its own.
LEMMA BlockStopsFits ==
  ASSUME NEW m, NEW v, MessagesFit(m, v), ~m.terminal, NEW i \in Blocks, Owns(m.blocks[i]),
         NEW n \in MessagesState, n.items = m.items, n.calls = m.calls, n.sawText = m.sawText,
         ~n.terminal, n.blocks[i].kind = m.blocks[i].kind, n.blocks[i].item = m.blocks[i].item,
         n.blocks[i] # NoBlock, n.blocks[i].done = TRUE,
         \A j \in Blocks : j # i => n.blocks[j] = m.blocks[j]
  PROVE  MessagesFit(n, Turned(v, m.blocks[i].item, BlockItem(m.blocks[i].kind, TRUE)))
<1> DEFINE k == m.blocks[i].item
           item == BlockItem(m.blocks[i].kind, TRUE)
           w == Turned(v, k, item)
<1>1. v \in View /\ v.end = "none" /\ m.items = Len(v.items) /\ DOMAIN v.items = 1..m.items
  BY FitGrows
<1>2. BlocksFit(m, v) /\ CallsFit(m, v) /\ Accounted(m, v) /\ (v.spoken => m.sawText) /\ m \in MessagesState
  BY DEF MessagesFit
<1>3. k \in DOMAIN v.items /\ v.items[k] = BlockItem(m.blocks[i].kind, m.blocks[i].done)
  BY <1>2 DEF BlocksFit
<1>4. m.blocks[i].kind \in OwnKinds /\ m.blocks[i].done \in BOOLEAN
  <2>1. m.blocks[i] \in BlockState \cup {NoBlock}
    BY <1>2 DEF MessagesState
  <2> QED
    BY <2>1 DEF Owns, BlockState
<1>5. item \in Item /\ item.done = TRUE /\ v.items[k].type # "web_search_call"
  BY <1>3, <1>4, ItemKindsApart
<1>6. /\ w \in View /\ Len(w.items) = m.items /\ DOMAIN w.items = 1..m.items /\ w.items[k] = item
      /\ \A j \in 1..m.items : j # k => w.items[j] = v.items[j]
      /\ w.spoken = v.spoken /\ w.end = v.end
  <2> HIDE DEF item
  <2> QED
    BY <1>1, <1>3, <1>5, TurnedView
<1>7. \A j \in Blocks : (Owns(n.blocks[j]) <=> Owns(m.blocks[j])) /\ n.blocks[j].item = m.blocks[j].item
                        /\ n.blocks[j].kind = m.blocks[j].kind
  BY DEF Owns
<1> HIDE DEF w
<1>8. BlocksFit(n, w)
  <2>1. ASSUME NEW j \in Blocks
        PROVE  Owed(n.blocks[j])
    <3>1. CASE j = i
      BY <1>7, <3>1 DEF Owed, Owns
    <3>2. CASE j # i
      BY <1>2, <3>2 DEF BlocksFit
    <3> QED
      BY <3>1, <3>2
  <2>2. ASSUME NEW j \in Blocks, Owns(n.blocks[j])
        PROVE  /\ n.blocks[j].item \in DOMAIN w.items
               /\ w.items[n.blocks[j].item] = BlockItem(n.blocks[j].kind, n.blocks[j].done)
    <3>1. CASE j = i
      BY <1>1, <1>3, <1>6, <3>1
    <3>2. CASE j # i
      <4>1. n.blocks[j] = m.blocks[j] /\ Owns(m.blocks[j])
        BY <2>2, <3>2
      <4>2. m.blocks[j].item # k
        BY <1>2, <3>2, <4>1 DEF BlocksFit
      <4>3. /\ m.blocks[j].item \in 1..m.items
            /\ v.items[m.blocks[j].item] = BlockItem(m.blocks[j].kind, m.blocks[j].done)
        BY <1>1, <1>2, <4>1 DEF BlocksFit
      <4> QED
        BY <1>6, <4>1, <4>2, <4>3
    <3> QED
      BY <3>1, <3>2
  <2>3. \A a, b \in Blocks :
          Owns(n.blocks[a]) /\ Owns(n.blocks[b]) /\ n.blocks[a].item = n.blocks[b].item => a = b
    BY <1>2, <1>7 DEF BlocksFit
  <2> QED
    BY <2>1, <2>2, <2>3 DEF BlocksFit
<1>9. CallsFit(n, w)
  <2>1. \A c \in m.calls : c.item # k
    <3>1. \A c \in m.calls : v.items[c.item] = CallItem(c.emitted) /\ c.emitted \in BOOLEAN
      BY <1>2 DEF CallsFit, MessagesState, CallState
    <3> QED
      BY <1>4, <1>5, <3>1, ItemKindsApart
  <2> QED
    BY <1>1, <1>2, <1>6, <2>1 DEF CallsFit
<1>10. Accounted(n, w)
  <2> SUFFICES ASSUME NEW j \in DOMAIN w.items
               PROVE  \/ w.items[j].done
                      \/ \E b \in Blocks : Owns(n.blocks[b]) /\ n.blocks[b].item = j
                      \/ \E c \in n.calls : c.item = j
    BY DEF Accounted
  <2>1. CASE j = k
    BY <1>5, <1>6, <2>1
  <2>2. CASE j # k
    <3>1. j \in DOMAIN v.items /\ w.items[j] = v.items[j]
      BY <1>1, <1>6, <2>2
    <3> QED
      BY <1>2, <1>7, <3>1 DEF Accounted
  <2> QED
    BY <2>1, <2>2
<1>11. MessagesFit(n, w)
  BY <1>1, <1>2, <1>6, <1>8, <1>9, <1>10 DEF MessagesFit
<1> QED
  BY <1>11 DEF w

\* It survives a new search call.
LEMMA CallBeginsFits ==
  ASSUME NEW m, NEW v, MessagesFit(m, v), ~m.terminal, NEW n \in MessagesState, NEW id,
         SameOwners(m, n), n.calls = m.calls \cup {Call(id, m.items + 1)}, n.items = m.items + 1,
         n.sawText = m.sawText, ~n.terminal
  PROVE  MessagesFit(n, Grown(v, CallItem(FALSE)))
<1> DEFINE item == CallItem(FALSE)
           w == Grown(v, item)
           last == m.items + 1
           call == Call(id, last)
<1>1. item \in Item
  <2>1. "text" \in OwnKinds
    BY DEF OwnKinds
  <2> QED
    BY <2>1, ItemKindsApart
<1> HIDE DEF item
<1>2. /\ v \in View /\ v.end = "none" /\ m.items = Len(v.items) /\ m.items \in Nat
      /\ DOMAIN v.items = 1..m.items /\ 1..last = 1..m.items \cup {last} /\ last \notin 1..m.items
      /\ w \in View /\ Len(w.items) = last /\ DOMAIN w.items = 1..last /\ w.items[last] = item
      /\ \A j \in 1..m.items : w.items[j] = v.items[j]
      /\ w.spoken = v.spoken /\ w.end = "none"
  BY <1>1, FitGrows
<1> HIDE DEF w
<1>3. BlocksFit(m, v) /\ CallsFit(m, v) /\ Accounted(m, v) /\ (v.spoken => m.sawText)
  BY DEF MessagesFit
<1>4. \A i \in Blocks : Owed(n.blocks[i]) /\ (Owns(n.blocks[i]) \/ Owns(m.blocks[i]) => n.blocks[i] = m.blocks[i])
  BY DEF SameOwners
<1>5. BlocksFit(n, w)
  <2>1. \A i \in Blocks : Owns(n.blocks[i]) => n.blocks[i] = m.blocks[i]
    BY <1>4
  <2>2. ASSUME NEW i \in Blocks, Owns(n.blocks[i])
        PROVE  /\ n.blocks[i].item \in DOMAIN w.items
               /\ w.items[n.blocks[i].item] = BlockItem(n.blocks[i].kind, n.blocks[i].done)
    <3>1. /\ n.blocks[i].item \in 1..m.items
          /\ v.items[n.blocks[i].item] = BlockItem(n.blocks[i].kind, n.blocks[i].done)
      BY <1>2, <1>3, <2>1, <2>2 DEF BlocksFit
    <3> QED
      BY <1>2, <3>1
  <2>3. \A i, j \in Blocks :
          Owns(n.blocks[i]) /\ Owns(n.blocks[j]) /\ n.blocks[i].item = n.blocks[j].item => i = j
    BY <1>3, <2>1 DEF BlocksFit
  <2> QED
    BY <1>4, <2>2, <2>3 DEF BlocksFit
<1>6. call.item = last /\ call.emitted = FALSE
  BY DEF Call
<1> HIDE DEF call, last
<1>7. CallsFit(n, w)
  <2>1. \A c \in n.calls : c = call \/ c \in m.calls
    BY DEF call, last
  <2>2. \A c \in m.calls : c.item \in 1..m.items /\ v.items[c.item] = CallItem(c.emitted)
    BY <1>2, <1>3 DEF CallsFit
  <2>3. ASSUME NEW c \in n.calls
        PROVE  c.item \in DOMAIN w.items /\ w.items[c.item] = CallItem(c.emitted)
    BY <1>2, <1>6, <2>1, <2>2 DEF item
  <2>4. ASSUME NEW c \in n.calls, NEW d \in n.calls, c.item = d.item
        PROVE  c = d
    BY <1>2, <1>3, <1>6, <2>1, <2>2, <2>4 DEF CallsFit
  <2> QED
    BY <2>3, <2>4 DEF CallsFit
<1>8. Accounted(n, w)
  <2> SUFFICES ASSUME NEW j \in DOMAIN w.items
               PROVE  \/ w.items[j].done
                      \/ \E b \in Blocks : Owns(n.blocks[b]) /\ n.blocks[b].item = j
                      \/ \E c \in n.calls : c.item = j
    BY DEF Accounted
  <2>1. m.calls \subseteq n.calls /\ call \in n.calls
    BY DEF call, last
  <2>2. CASE j = last
    BY <1>6, <2>1, <2>2
  <2>3. CASE j # last
    <3>1. j \in DOMAIN v.items /\ w.items[j] = v.items[j]
      BY <1>2, <2>3
    <3> QED
      BY <1>3, <1>4, <2>1, <3>1 DEF Accounted
  <2> QED
    BY <2>2, <2>3
<1>9. n.items = last
  BY DEF last
<1>10. MessagesFit(n, w)
  BY <1>2, <1>3, <1>5, <1>7, <1>8, <1>9 DEF MessagesFit
<1> QED
  BY <1>10 DEF w, item
\* It survives the end of a search call.
LEMMA CallEndsFits ==
  ASSUME NEW m, NEW v, MessagesFit(m, v), ~m.terminal, NEW call \in m.calls, ~call.emitted,
         NEW n \in MessagesState, n.blocks = m.blocks, n.items = m.items, n.sawText = m.sawText, ~n.terminal,
         n.calls = (m.calls \ {call}) \cup {[call EXCEPT !.emitted = TRUE]}
  PROVE  MessagesFit(n, Turned(v, call.item, CallItem(TRUE)))
<1> DEFINE k == call.item
           item == CallItem(TRUE)
           w == Turned(v, k, item)
           done == [call EXCEPT !.emitted = TRUE]
<1>1. v \in View /\ v.end = "none" /\ m.items = Len(v.items) /\ DOMAIN v.items = 1..m.items
  BY FitGrows
<1>2. BlocksFit(m, v) /\ CallsFit(m, v) /\ Accounted(m, v) /\ (v.spoken => m.sawText) /\ m \in MessagesState
  BY DEF MessagesFit
<1>3. k \in 1..m.items /\ v.items[k] = CallItem(FALSE)
  <2>1. call.emitted = FALSE
    BY <1>2 DEF MessagesState, CallState
  <2> QED
    BY <1>1, <1>2, <2>1 DEF CallsFit
<1>4. done.item = k /\ done.emitted = TRUE
  BY <1>2 DEF MessagesState, CallState
<1>5. item \in Item /\ item.done = TRUE /\ v.items[k].type = "web_search_call"
  <2>1. "text" \in OwnKinds
    BY DEF OwnKinds
  <2> QED
    BY <1>3, <2>1, ItemKindsApart
<1> HIDE DEF item
<1>6. /\ w \in View /\ Len(w.items) = m.items /\ DOMAIN w.items = 1..m.items /\ w.items[k] = item
      /\ \A j \in 1..m.items : j # k => w.items[j] = v.items[j]
      /\ w.spoken = v.spoken /\ w.end = v.end
  <2>1. k \in DOMAIN v.items
    BY <1>1, <1>3
  <2> HIDE DEF k
  <2> QED
    BY <1>1, <1>5, <2>1, TurnedView
<1> HIDE DEF w, done
<1>7. BlocksFit(n, w)
  <2>1. \A i \in Blocks : Owns(m.blocks[i]) => m.blocks[i].item # k
    <3>1. ASSUME NEW i \in Blocks, Owns(m.blocks[i])
          PROVE  v.items[m.blocks[i].item].type # "web_search_call"
      <4>1. m.blocks[i].kind \in OwnKinds /\ m.blocks[i].done \in BOOLEAN
        <5>1. m.blocks[i] \in BlockState \cup {NoBlock}
          BY <1>2 DEF MessagesState
        <5> QED
          BY <3>1, <5>1 DEF Owns, BlockState
      <4>2. v.items[m.blocks[i].item] = BlockItem(m.blocks[i].kind, m.blocks[i].done)
        BY <1>2, <3>1 DEF BlocksFit
      <4> QED
        BY <4>1, <4>2, ItemKindsApart
    <3> QED
      BY <1>5, <3>1
  <2> QED
    BY <1>1, <1>2, <1>6, <2>1 DEF BlocksFit
<1>8. CallsFit(n, w)
  <2>1. \A c \in n.calls : c = done \/ (c \in m.calls /\ c # call)
    BY DEF done
  <2>2. \A c \in m.calls : c # call => c.item \in 1..m.items /\ c.item # k /\ v.items[c.item] = CallItem(c.emitted)
    BY <1>1, <1>2 DEF CallsFit
  <2>3. ASSUME NEW c \in n.calls
        PROVE  c.item \in DOMAIN w.items /\ w.items[c.item] = CallItem(c.emitted)
    BY <1>3, <1>4, <1>6, <2>1, <2>2 DEF item
  <2>4. ASSUME NEW c \in n.calls, NEW d \in n.calls, c.item = d.item
        PROVE  c = d
    BY <1>2, <1>4, <2>1, <2>2, <2>4 DEF CallsFit
  <2> QED
    BY <2>3, <2>4 DEF CallsFit
<1>9. Accounted(n, w)
  <2> SUFFICES ASSUME NEW j \in DOMAIN w.items
               PROVE  \/ w.items[j].done
                      \/ \E b \in Blocks : Owns(n.blocks[b]) /\ n.blocks[b].item = j
                      \/ \E c \in n.calls : c.item = j
    BY DEF Accounted
  <2>1. CASE j = k
    BY <1>5, <1>6, <2>1
  <2>2. CASE j # k
    <3>1. j \in DOMAIN v.items /\ w.items[j] = v.items[j]
      BY <1>1, <1>6, <2>2
    <3>2. \A c \in m.calls : c.item = j => c \in n.calls
      BY <2>2
    <3> QED
      BY <1>2, <3>1, <3>2 DEF Accounted
  <2> QED
    BY <2>1, <2>2
<1>10. MessagesFit(n, w)
  BY <1>1, <1>2, <1>6, <1>7, <1>8, <1>9 DEF MessagesFit
<1> QED
  BY <1>10 DEF w, item

\* It survives an item that is done at once.
LEMMA DoneItemFits ==
  ASSUME NEW m, NEW v, MessagesFit(m, v), ~m.terminal, NEW item \in Item, item.done,
         NEW n \in MessagesState, n.blocks = m.blocks, n.calls = m.calls, n.items = m.items + 1,
         n.sawText = m.sawText, ~n.terminal
  PROVE  MessagesFit(n, Grown(v, item))
<1> DEFINE w == Grown(v, item)
<1>2. /\ v \in View /\ v.end = "none" /\ m.items = Len(v.items) /\ m.items \in Nat
      /\ DOMAIN v.items = 1..m.items /\ 1..(m.items + 1) = 1..m.items \cup {m.items + 1}
      /\ w \in View /\ Len(w.items) = m.items + 1 /\ DOMAIN w.items = 1..(m.items + 1)
      /\ w.items[m.items + 1] = item
      /\ \A j \in 1..m.items : w.items[j] = v.items[j]
      /\ w.spoken = v.spoken /\ w.end = "none"
  BY FitGrows
<1> HIDE DEF w
<1>3. BlocksFit(m, v) /\ CallsFit(m, v) /\ Accounted(m, v) /\ (v.spoken => m.sawText)
  BY DEF MessagesFit
<1>4. BlocksFit(n, w)
  BY <1>2, <1>3 DEF BlocksFit
<1>5. CallsFit(n, w)
  BY <1>2, <1>3 DEF CallsFit
<1>6. Accounted(n, w)
  BY <1>2, <1>3 DEF Accounted
<1>7. MessagesFit(n, w)
  BY <1>2, <1>3, <1>4, <1>5, <1>6 DEF MessagesFit
<1> QED
  BY <1>7 DEF w

\* It survives that text is told.
LEMMA ToldFits ==
  ASSUME NEW m, NEW v, MessagesFit(m, v), m.sawText
  PROVE  MessagesFit(m, Told(v))
<1>1. v \in View /\ Told(v).items = v.items /\ Told(v).end = v.end
  BY DEF MessagesFit, Told
<1>2. Told(v) \in View
  BY <1>1, ViewFields
<1> QED
  BY <1>1, <1>2 DEF MessagesFit, BlocksFit, CallsFit, Accounted
-----------------------------------------------------------------------------
(* What the calls of messagesStreamState come to.                          *)

\* appendMessageText and appendThinking.
LEMMA TextKeeps ==
  ASSUME NEW m, NEW v, MessagesFit(m, v), ~m.terminal, NEW item, NEW text \in {"none", "blank", "text"},
         item # 0 => item \in DOMAIN v.items /\ v.items[item] = Shown("message", "open", FALSE)
  PROVE  Keep("messages", AppendText(m, item, text), v)
<1>1. v \in View /\ v.end = "none" /\ m \in MessagesState
  BY FitGrows DEF MessagesFit
<1>2. CASE text = "none" \/ item = 0
  <2>1. Keep("messages", Quiet(m), v)
    BY <1>1, KeepsQuiet DEF Fits
  <2> QED
    BY <1>2, <2>1 DEF AppendText
<1>3. CASE ~(text = "none" \/ item = 0)
  <2> DEFINE n == [m EXCEPT !.sawText = @ \/ text = "text"]
             w == IF text = "blank" THEN v ELSE Told(v)
  <2>1. Leads(v, <<TextDelta(item, text)>>, w)
    BY <1>1, <1>3, DeltaLeads
  <2>2. /\ n \in MessagesState /\ n.blocks = m.blocks /\ n.calls = m.calls /\ n.items = m.items
        /\ n.terminal = m.terminal /\ n.finishing = m.finishing
        /\ n.sawText = (m.sawText \/ text = "text")
    BY <1>1 DEF MessagesState
  <2> HIDE DEF n
  <2>3. SameOwners(m, n)
    BY <2>2 DEF SameOwners, MessagesFit, BlocksFit
  <2>4. MessagesFit(n, v)
    BY <2>2, <2>3, SameFits
  <2>5. MessagesFit(n, w)
    BY <1>3, <2>2, <2>4, ToldFits
  <2>6. w \in View /\ w.end = "none"
    BY <1>1, ViewFields DEF Told
  <2> HIDE DEF w
  <2>7. Keep("messages", Emits(n, <<TextDelta(item, text)>>), v)
    BY <2>1, <2>5, <2>6, KeepsOne DEF Fits
  <2> QED
    BY <1>3, <2>7 DEF AppendText, n
<1> QED
  BY <1>2, <1>3

\* Reasoning is dropped once text has been told.
LEMMA ThinkingKeeps ==
  ASSUME NEW m, NEW v, MessagesFit(m, v), ~m.terminal, NEW item,
         item # 0 => item \in DOMAIN v.items /\ v.items[item] = Shown("reasoning", "open", FALSE)
  PROVE  Keep("messages", AppendThinking(m, item), v)
<1>1. v \in View /\ v.end = "none"
  BY FitGrows
<1>2. CASE item = 0 \/ m.sawText
  <2>1. Keep("messages", Quiet(m), v)
    BY <1>1, KeepsQuiet DEF Fits
  <2> QED
    BY <1>2, <2>1 DEF AppendThinking
<1>3. CASE ~(item = 0 \/ m.sawText)
  <2>1. ~v.spoken
    BY <1>3 DEF MessagesFit
  <2>2. Leads(v, <<ThoughtDelta(item)>>, v)
    BY <1>1, <1>3, <2>1, DeltaLeads
  <2>3. Keep("messages", Emits(m, <<ThoughtDelta(item)>>), v)
    BY <1>1, <2>2, KeepsOne DEF Fits
  <2> QED
    BY <1>3, <2>3 DEF AppendThinking
<1> QED
  BY <1>2, <1>3
\* A block that is put down, with an item of its own or without.
LEMMA BlockPutDown ==
  ASSUME NEW m \in MessagesState, NEW f \in MessagesFrame
  PROVE  /\ \A n \in {WithItem(m, f), WithoutItem(m, f)} :
              /\ n \in MessagesState /\ n.calls = m.calls /\ n.sawText = m.sawText
              /\ n.terminal = m.terminal /\ n.finishing = m.finishing
              /\ n.blocks[f.index] # NoBlock /\ n.blocks[f.index].kind = f.kind
              /\ n.blocks[f.index].done = FALSE
              /\ \A j \in Blocks : j # f.index => n.blocks[j] = m.blocks[j]
         /\ WithItem(m, f).items = m.items + 1 /\ WithItem(m, f).blocks[f.index].item = m.items + 1
         /\ WithoutItem(m, f).items = m.items /\ WithoutItem(m, f).blocks[f.index].item = 0
         /\ f.index \in Blocks /\ f.kind \in BlockKind
<1>1. /\ f.index \in Blocks /\ f.kind \in BlockKind /\ f.id \in CallIds \cup {NoCallId} /\ f.flag \in BOOLEAN
      /\ m.items \in Nat /\ m.blocks \in [Blocks -> BlockState \cup {NoBlock}]
  BY DEF MessagesFrame, MessagesState
<1>2. \A item \in Nat :
        /\ Block(f.kind, item, f) \in BlockState /\ Block(f.kind, item, f) # NoBlock
        /\ Block(f.kind, item, f).kind = f.kind /\ Block(f.kind, item, f).item = item
        /\ Block(f.kind, item, f).done = FALSE
  BY <1>1 DEF Block, BlockState, NoBlock, BlockKind
<1>3. m.items + 1 \in Nat /\ 0 \in Nat
  BY <1>1
<1> DEFINE put(block) == [m.blocks EXCEPT ![f.index] = block]
<1>4. \A block \in BlockState :
        /\ put(block) \in [Blocks -> BlockState \cup {NoBlock}] /\ put(block)[f.index] = block
        /\ \A j \in Blocks : j # f.index => put(block)[j] = m.blocks[j]
  BY <1>1
<1> HIDE DEF put
<1>6. \A block \in BlockState :
        LET n == [m EXCEPT !.blocks = put(block)] IN
        /\ n \in MessagesState /\ n.blocks = put(block) /\ n.items = m.items
        /\ n.calls = m.calls /\ n.sawText = m.sawText /\ n.terminal = m.terminal /\ n.finishing = m.finishing
  BY <1>4 DEF MessagesState
<1> DEFINE a == Block(f.kind, m.items + 1, f)
           b == Block(f.kind, 0, f)
<1>7. /\ WithItem(m, f) = [[m EXCEPT !.blocks = put(a)] EXCEPT !.items = m.items + 1]
      /\ WithoutItem(m, f) = [m EXCEPT !.blocks = put(b)]
  BY DEF WithItem, WithoutItem, SetBlock, put, MessagesState
<1>8. /\ a \in BlockState /\ a # NoBlock /\ a.kind = f.kind /\ a.item = m.items + 1 /\ a.done = FALSE
      /\ b \in BlockState /\ b # NoBlock /\ b.kind = f.kind /\ b.item = 0 /\ b.done = FALSE
  BY <1>2, <1>3
<1> HIDE DEF a, b
<1>9. /\ WithItem(m, f) \in MessagesState /\ WithItem(m, f).blocks = put(a) /\ WithItem(m, f).items = m.items + 1
      /\ WithItem(m, f).calls = m.calls /\ WithItem(m, f).sawText = m.sawText
      /\ WithItem(m, f).terminal = m.terminal /\ WithItem(m, f).finishing = m.finishing
  <2> DEFINE k == m.items + 1
             w == WithItem(m, f)
  <2>1. w = [[m EXCEPT !.blocks = put(a)] EXCEPT !.items = k] /\ k \in Nat /\ a \in BlockState
    BY <1>3, <1>7, <1>8
  <2> HIDE DEF w, k
  <2>2. /\ w \in MessagesState /\ w.blocks = put(a) /\ w.items = k /\ w.calls = m.calls
        /\ w.sawText = m.sawText /\ w.terminal = m.terminal /\ w.finishing = m.finishing
    <3> DEFINE p == put(a)
    <3>1. p \in [Blocks -> BlockState \cup {NoBlock}] /\ w = [[m EXCEPT !.blocks = p] EXCEPT !.items = k]
      BY <1>4, <2>1
    <3> HIDE DEF p
    <3>2. /\ w \in MessagesState /\ w.blocks = p /\ w.items = k /\ w.calls = m.calls
          /\ w.sawText = m.sawText /\ w.terminal = m.terminal /\ w.finishing = m.finishing
      BY <2>1, <3>1 DEF MessagesState
    <3> QED
      BY <3>2 DEF p
  <2> QED
    BY <2>2 DEF w, k
<1>10. /\ WithoutItem(m, f) \in MessagesState /\ WithoutItem(m, f).blocks = put(b)
       /\ WithoutItem(m, f).items = m.items
       /\ WithoutItem(m, f).calls = m.calls /\ WithoutItem(m, f).sawText = m.sawText
       /\ WithoutItem(m, f).terminal = m.terminal /\ WithoutItem(m, f).finishing = m.finishing
  BY <1>6, <1>7, <1>8
<1> QED
  BY <1>1, <1>4, <1>8, <1>9, <1>10

\* startBlock.
LEMMA StartBlockKeeps ==
  ASSUME NEW m, NEW v, MessagesFit(m, v), ~m.terminal, NEW f \in MessagesFrame
  PROVE  Keep("messages", StartBlock(m, f), v)
<1> DEFINE item == m.items + 1
           i == f.index
           n == WithItem(m, f)
           g == Grown(v, BlockItem(f.kind, FALSE))
<1>1. v \in View /\ v.end = "none" /\ m \in MessagesState /\ m.items = Len(v.items)
  BY FitGrows DEF MessagesFit
<1>2. i \in Blocks /\ f.kind \in BlockKind
  BY <1>1, BlockPutDown
<1>3. CASE m.blocks[i] # NoBlock
  <2>1. Keep("messages", Fails(m), v)
    BY <1>1, KeepsQuiet
  <2> QED
    BY <1>3, <2>1 DEF StartBlock
<1> SUFFICES ASSUME m.blocks[i] = NoBlock
             PROVE  Keep("messages", StartBlock(m, f), v)
  BY <1>3
<1>4. ~Owns(m.blocks[i])
  BY DEF Owns
<1>5. f.kind \in OwnKinds =>
        /\ MessagesFit(n, g) /\ ~n.terminal /\ g \in View /\ g.end = "none"
        /\ item \in DOMAIN g.items /\ g.items[item] = BlockItem(f.kind, FALSE)
        /\ n.sawText = m.sawText
  <2> SUFFICES ASSUME f.kind \in OwnKinds
               PROVE  /\ MessagesFit(n, g) /\ ~n.terminal /\ g \in View /\ g.end = "none"
                      /\ item \in DOMAIN g.items /\ g.items[item] = BlockItem(f.kind, FALSE)
                      /\ n.sawText = m.sawText
    OBVIOUS
  <2>1. /\ n \in MessagesState /\ n.items = m.items + 1 /\ n.calls = m.calls /\ n.sawText = m.sawText
        /\ ~n.terminal /\ n.blocks[i].kind = f.kind /\ n.blocks[i].item = m.items + 1
        /\ n.blocks[i] # NoBlock /\ n.blocks[i].done = FALSE
        /\ \A j \in Blocks : j # i => n.blocks[j] = m.blocks[j]
    BY <1>1, BlockPutDown
  <2> HIDE DEF n
  <2>2. MessagesFit(n, Grown(v, BlockItem(n.blocks[i].kind, FALSE)))
    BY <1>2, <2>1, BlockBeginsFits
  <2>3. BlockItem(f.kind, FALSE) \in Item
    BY ItemKindsApart
  <2> DEFINE b == BlockItem(f.kind, FALSE)
  <2> HIDE DEF b
  <2>4. /\ Grown(v, b) \in View /\ Grown(v, b).end = "none" /\ m.items \in Nat
        /\ DOMAIN Grown(v, b).items = 1..(m.items + 1) /\ Grown(v, b).items[item] = b
    <3>1. b \in Item
      BY <2>3 DEF b
    <3> QED
      BY <3>1, FitGrows
  <2>5. item \in 1..(m.items + 1)
    BY <2>4
  <2>6. g = Grown(v, b)
    BY DEF b
  <2> HIDE DEF g
  <2>7. MessagesFit(n, g)
    BY <2>1, <2>2, <2>6 DEF b
  <2> QED
    BY <2>1, <2>4, <2>5, <2>6, <2>7 DEF b
<1> HIDE DEF n
<1>6. CASE f.kind = "text"
  <2>1. BlockItem(f.kind, FALSE) = Shown("message", "open", FALSE) /\ f.kind \in OwnKinds
    BY <1>6 DEF BlockItem, TypeOf, OwnKinds
  <2>2. Leads(v, PartBegins(item, "message"), g)
    BY <1>1, <2>1, PartBeginsLeads
  <2> HIDE DEF g
  <2> DEFINE rest == AppendText(n, item, IF f.flag THEN "text" ELSE "none")
  <2>3. Keep("messages", rest, g)
    BY <1>5, <2>1, TextKeeps
  <2>4. StartBlock(m, f) = Then(Emits(n, PartBegins(item, "message")),
                                LAMBDA x : AppendText(x, item, IF f.flag THEN "text" ELSE "none"))
    BY <1>6 DEF StartBlock, n
  <2>5. \A r \in StartBlock(m, f) :
          \E q \in Emits(n, PartBegins(item, "message")), x \in rest : r = Following(q, x)
    <3> SUFFICES ASSUME NEW r \in StartBlock(m, f)
                 PROVE  \E q \in Emits(n, PartBegins(item, "message")), x \in rest : r = Following(q, x)
      OBVIOUS
    <3>1. PICK q \in Emits(n, PartBegins(item, "message")) :
            r \in IF q.bad THEN {q}
                  ELSE {[x EXCEPT !.out = q.out \o @] : x \in AppendText(q.state, item, IF f.flag THEN "text" ELSE "none")}
      BY <2>4 DEF Then
    <3>2. q.state = n /\ q.bad = FALSE
      BY DEF Emits, Outcome
    <3>3. PICK x \in rest : r = [x EXCEPT !.out = q.out \o @]
      BY <3>1, <3>2
    <3> QED
      BY <3>3 DEF Following
  <2> HIDE DEF rest
  <2> QED
    BY <2>2, <2>3, <2>5, KeepsAfter
<1>7. CASE f.kind = "thinking" /\ ~m.sawText
  <2>1. BlockItem(f.kind, FALSE) = Shown("reasoning", "open", FALSE) /\ f.kind \in OwnKinds
    BY <1>7 DEF BlockItem, TypeOf, OwnKinds
  <2>6. ~v.spoken
    BY <1>7 DEF MessagesFit
  <2>2. Leads(v, PartBegins(item, "reasoning"), g)
    BY <1>1, <2>1, <2>6, PartBeginsLeads
  <2> HIDE DEF g
  <2> DEFINE rest == IF f.flag THEN AppendThinking(n, item) ELSE Quiet(n)
  <2>3. Keep("messages", rest, g)
    <3>1. Keep("messages", AppendThinking(n, item), g)
      BY <1>5, <2>1, ThinkingKeeps
    <3>2. Keep("messages", Quiet(n), g)
      BY <1>5, <2>1, KeepsQuiet DEF Fits
    <3> QED
      BY <3>1, <3>2
  <2>4. StartBlock(m, f) = Then(Emits(n, PartBegins(item, "reasoning")),
                                LAMBDA x : IF f.flag THEN AppendThinking(x, item) ELSE Quiet(x))
    BY <1>7 DEF StartBlock, n
  <2>5. \A r \in StartBlock(m, f) :
          \E q \in Emits(n, PartBegins(item, "reasoning")), x \in rest : r = Following(q, x)
    <3> SUFFICES ASSUME NEW r \in StartBlock(m, f)
                 PROVE  \E q \in Emits(n, PartBegins(item, "reasoning")), x \in rest : r = Following(q, x)
      OBVIOUS
    <3>1. PICK q \in Emits(n, PartBegins(item, "reasoning")) :
            r \in IF q.bad THEN {q}
                  ELSE {[x EXCEPT !.out = q.out \o @] : x \in (IF f.flag THEN AppendThinking(q.state, item) ELSE Quiet(q.state))}
      BY <2>4 DEF Then
    <3>2. q.state = n /\ q.bad = FALSE
      BY DEF Emits, Outcome
    <3>3. PICK x \in rest : r = [x EXCEPT !.out = q.out \o @]
      BY <3>1, <3>2
    <3> QED
      BY <3>3 DEF Following
  <2> HIDE DEF rest
  <2> QED
    BY <2>2, <2>3, <2>5, KeepsAfter
<1>8. CASE f.kind \in {"redacted_thinking", "tool_use"}
  <2> DEFINE type == IF f.kind = "tool_use" THEN "function_call" ELSE "sealed"
  <2>1. BlockItem(f.kind, FALSE) = Shown(type, "none", FALSE) /\ f.kind \in OwnKinds
    BY <1>8 DEF BlockItem, TypeOf, OwnKinds
  <2>2. type \in Client!ItemType /\ type # "reasoning"
    BY DEF Client!ItemType
  <2>3. StartBlock(m, f) = Emits(n, <<Added(item, type)>>)
    BY <1>8 DEF StartBlock, n
  <2> HIDE DEF type
  <2>4. Leads(v, <<Added(item, type)>>, g)
    BY <1>1, <2>1, <2>2, AddedLeads
  <2> HIDE DEF g
  <2> QED
    BY <1>5, <2>1, <2>3, <2>4, KeepsOne DEF Fits
<1>9. CASE f.kind = "server_tool_use"
  <2> DEFINE s == [n EXCEPT !.calls = @ \cup {Call(f.id, item)}]
             u == Grown(v, CallItem(FALSE))
  <2>1. /\ n \in MessagesState /\ n.items = m.items + 1 /\ n.calls = m.calls /\ n.sawText = m.sawText
        /\ ~n.terminal /\ n.blocks[i].kind = f.kind
        /\ \A j \in Blocks : j # i => n.blocks[j] = m.blocks[j]
    BY <1>1, BlockPutDown DEF n
  <2>2. item \in Nat /\ Call(f.id, item) \in CallState
    BY <1>1 DEF MessagesState, CallState, Call, MessagesFrame
  <2>3. /\ s \in MessagesState /\ s.items = n.items /\ s.calls = m.calls \cup {Call(f.id, item)}
        /\ s.sawText = m.sawText /\ ~s.terminal /\ s.blocks = n.blocks
    BY <2>1, <2>2 DEF MessagesState
  <2>4. SameOwners(m, n)
    <3>1. ~Owns(n.blocks[i]) /\ Owed(n.blocks[i])
      BY <1>9, <2>1 DEF Owns, Owed, OwnKinds
    <3> QED
      BY <1>4, <2>1, <3>1 DEF SameOwners, MessagesFit, BlocksFit
  <2>5. StartBlock(m, f) = Emits(s, SearchBegins(item))
    BY <1>9 DEF StartBlock, n
  <2> HIDE DEF s
  <2>6. SameOwners(m, s)
    BY <2>3, <2>4 DEF SameOwners
  <2>7. MessagesFit(s, u)
    BY <2>1, <2>3, <2>6, CallBeginsFits
  <2>8. Leads(v, SearchBegins(item), u)
    BY <1>1, SearchLeads DEF CallItem
  <2>9. u \in View /\ u.end = "none"
    BY <2>3, <2>7 DEF MessagesFit, View
  <2> HIDE DEF u
  <2> QED
    BY <2>5, <2>7, <2>8, <2>9, KeepsOne DEF Fits
<1>10. CASE f.kind \in {"thinking", "web_search_tool_result", "unknown"} /\ (f.kind = "thinking" => m.sawText)
  <2> DEFINE s == WithoutItem(m, f)
  <2>1. /\ s \in MessagesState /\ s.items = m.items /\ s.calls = m.calls /\ s.sawText = m.sawText
        /\ s.terminal = m.terminal /\ s.blocks[i].kind = f.kind /\ s.blocks[i].item = 0
        /\ s.finishing = m.finishing
        /\ \A j \in Blocks : j # i => s.blocks[j] = m.blocks[j]
    BY <1>1, BlockPutDown
  <2>2. SameOwners(m, s)
    <3>1. ~Owns(s.blocks[i]) /\ Owed(s.blocks[i])
      BY <1>10, <2>1 DEF Owns, Owed, OwnKinds
    <3> QED
      BY <1>4, <2>1, <3>1 DEF SameOwners, MessagesFit, BlocksFit
  <2>3. StartBlock(m, f) = Quiet(s)
    BY <1>10 DEF StartBlock
  <2> HIDE DEF s
  <2>4. MessagesFit(s, v)
    BY <2>1, <2>2, SameFits
  <2> QED
    BY <1>1, <2>3, <2>4, KeepsQuiet DEF Fits
<1> QED
  BY <1>2, <1>6, <1>7, <1>8, <1>9, <1>10 DEF BlockKind
\* What a block with an item of its own shows.
LEMMA OwnedItem ==
  ASSUME NEW m, NEW v, MessagesFit(m, v), NEW i \in Blocks, m.blocks[i] # NoBlock
  PROVE  /\ m.blocks[i] \in BlockState
         /\ Owns(m.blocks[i]) => /\ m.blocks[i].item \in DOMAIN v.items
                                 /\ v.items[m.blocks[i].item] = BlockItem(m.blocks[i].kind, m.blocks[i].done)
         /\ m.blocks[i].kind \in OwnKinds \ {"thinking"} => Owns(m.blocks[i])
<1>1. m.blocks[i] \in BlockState
  BY DEF MessagesFit, MessagesState
<1>2. BlocksFit(m, v)
  BY DEF MessagesFit
<1> QED
  BY <1>1, <1>2 DEF BlocksFit, Owed, Owns

\* deltaBlock, of a block that has not been stopped.
LEMMA DeltaBlockKeeps ==
  ASSUME NEW m, NEW v, MessagesFit(m, v), ~m.terminal, NEW f \in MessagesFrame,
         m.blocks[f.index] # NoBlock => ~m.blocks[f.index].done
  PROVE  Keep("messages", DeltaBlock(m, f), v)
<1> DEFINE block == m.blocks[f.index]
<1>1. v \in View /\ v.end = "none" /\ f.index \in Blocks /\ f.flag \in BOOLEAN
  BY FitGrows DEF MessagesFrame
<1>2. CASE block = NoBlock
  <2>1. Keep("messages", Fails(m), v)
    BY <1>1, KeepsQuiet
  <2> QED
    BY <1>2, <2>1 DEF DeltaBlock, NoBlock
<1>3. CASE block # NoBlock
  <2>1. /\ block \in BlockState /\ block.done = FALSE
        /\ Owns(block) => block.item \in DOMAIN v.items /\ v.items[block.item] = BlockItem(block.kind, FALSE)
        /\ block.kind \in OwnKinds \ {"thinking"} => Owns(block)
    <3>1. block \in BlockState
      BY <1>1, <1>3, OwnedItem
    <3>2. block.done = FALSE
      BY <1>3, <3>1 DEF BlockState
    <3> QED
      BY <1>1, <1>3, <3>1, <3>2, OwnedItem
  <2> HIDE DEF block
  <2>2. CASE block.kind = "text"
    <3>1. block.item \in DOMAIN v.items /\ v.items[block.item] = Shown("message", "open", FALSE)
      BY <2>1, <2>2 DEF OwnKinds, BlockItem, TypeOf
    <3>2. Keep("messages", AppendText(m, block.item, IF f.flag THEN "text" ELSE "blank"), v)
      BY <3>1, TextKeeps
    <3> QED
      BY <1>3, <2>2, <3>2 DEF DeltaBlock, block
  <2>3. CASE block.kind = "thinking"
    <3>1. block.item # 0 =>
            block.item \in DOMAIN v.items /\ v.items[block.item] = Shown("reasoning", "open", FALSE)
      BY <1>3, <2>1, <2>3 DEF OwnKinds, BlockItem, TypeOf, Owns
    <3>2. Keep("messages", AppendThinking(m, block.item), v)
      BY <3>1, ThinkingKeeps
    <3> QED
      BY <1>3, <2>3, <3>2 DEF DeltaBlock, block
  <2>4. CASE block.kind = "tool_use"
    <3>1. block.item \in DOMAIN v.items /\ v.items[block.item] = Shown("function_call", "none", FALSE)
      BY <2>1, <2>4 DEF OwnKinds, BlockItem, TypeOf
    <3>2. Leads(v, <<About("progress", block.item)>>, v)
      BY <1>1, <3>1, DoneLeads
    <3>3. Keep("messages", Emits(m, <<About("progress", block.item)>>), v)
      BY <1>1, <3>2, KeepsOne DEF Fits
    <3> QED
      BY <1>3, <2>4, <3>3 DEF DeltaBlock, block
  <2>5. CASE block.kind \notin {"text", "thinking", "tool_use"}
    <3>1. Keep("messages", Quiet(m), v)
      BY <1>1, KeepsQuiet DEF Fits
    <3> QED
      BY <1>3, <2>5, <3>1 DEF DeltaBlock, block
  <2> QED
    BY <2>2, <2>3, <2>4, <2>5
<1> QED
  BY <1>2, <1>3

\* A search call ends once.
LEMMA FinishWebCallKeeps ==
  ASSUME NEW m, NEW v, MessagesFit(m, v), ~m.terminal, NEW call \in m.calls
  PROVE  Keep("messages", FinishWebCall(m, call), v)
<1>1. v \in View /\ v.end = "none" /\ m \in MessagesState /\ call \in CallState
  BY FitGrows DEF MessagesFit, MessagesState
<1>2. CASE call.emitted
  <2>1. Keep("messages", Quiet(m), v)
    BY <1>1, KeepsQuiet DEF Fits
  <2> QED
    BY <1>2, <2>1 DEF FinishWebCall
<1>3. CASE ~call.emitted
  <2> DEFINE calls == (m.calls \ {call}) \cup {[call EXCEPT !.emitted = TRUE]}
             n == [m EXCEPT !.calls = calls]
             w == Turned(v, call.item, CallItem(TRUE))
  <2>1. calls \in SUBSET CallState
    <3>1. [call EXCEPT !.emitted = TRUE] \in CallState
      BY <1>1 DEF CallState
    <3> QED
      BY <1>1, <3>1 DEF MessagesState
  <2>2. FinishWebCall(m, call) = Emits(n, SearchEnds(call.item))
    BY <1>3 DEF FinishWebCall
  <2>3. /\ n.calls = calls /\ n \in MessagesState /\ n.blocks = m.blocks /\ n.items = m.items
        /\ n.sawText = m.sawText /\ n.terminal = m.terminal
    <3> HIDE DEF calls
    <3> QED
      BY <1>1, <2>1 DEF MessagesState
  <2>4. n.calls = (m.calls \ {call}) \cup {[call EXCEPT !.emitted = TRUE]}
    BY <2>3
  <2> HIDE DEF n
  <2>5. MessagesFit(n, w)
    BY <1>3, <2>3, <2>4, CallEndsFits
  <2>6. call.item \in DOMAIN v.items /\ v.items[call.item] = Shown("web_search_call", "none", FALSE)
    <3>1. call.emitted = FALSE
      BY <1>1, <1>3 DEF CallState
    <3> QED
      BY <3>1 DEF MessagesFit, CallsFit, CallItem
  <2>7. Leads(v, SearchEnds(call.item), w)
    BY <1>1, <2>6, SearchLeads DEF CallItem
  <2>8. w \in View /\ w.end = "none"
    BY <2>3, <2>5 DEF MessagesFit, View
  <2> HIDE DEF w
  <2> QED
    BY <2>2, <2>5, <2>7, <2>8, KeepsOne DEF Fits
<1> QED
  BY <1>2, <1>3

\* The result of a search ends its call, or one that is made up for it.
LEMMA FinishWebResultKeeps ==
  ASSUME NEW m, NEW v, MessagesFit(m, v), ~m.terminal, NEW block \in BlockState
  PROVE  Keep("messages", FinishWebResult(m, block), v)
<1> DEFINE known == {c \in m.calls : c.id = block.id /\ block.id # NoCallId}
           found == CHOOSE c \in known : TRUE
           made == Call(block.id, m.items + 1)
           call == IF known # {} THEN found ELSE made
           n == [m EXCEPT !.calls = @ \cup {call}, !.items = @ + 1]
           begun == IF known # {} THEN Quiet(m) ELSE Emits(n, SearchBegins(call.item))
<1>1. v \in View /\ v.end = "none" /\ m \in MessagesState /\ m.items = Len(v.items)
  BY FitGrows DEF MessagesFit
<1>2. FinishWebResult(m, block) =
        Then(begun, LAMBDA x : IF block.flag THEN FinishWebCall(x, call) ELSE Quiet(x))
  BY DEF FinishWebResult
<1>3. ASSUME NEW s, NEW e, begun = Emits(s, e), NEW u \in View, Leads(v, e, u), u.end = "none",
             MessagesFit(s, u), ~s.terminal, call \in s.calls
      PROVE  Keep("messages", FinishWebResult(m, block), v)
  <2> HIDE DEF begun, call
  <2> DEFINE rest == IF block.flag THEN FinishWebCall(s, call) ELSE Quiet(s)
  <2>1. Keep("messages", rest, u)
    <3>1. Keep("messages", FinishWebCall(s, call), u)
      BY <1>3, FinishWebCallKeeps
    <3>2. Keep("messages", Quiet(s), u)
      BY <1>3, KeepsQuiet DEF Fits
    <3> QED
      BY <3>1, <3>2
  <2>2. ASSUME NEW r \in FinishWebResult(m, block)
        PROVE  \E q \in Emits(s, e), x \in rest : r = Following(q, x)
    <3>1. PICK q \in Emits(s, e) :
            r \in IF q.bad THEN {q}
                  ELSE {[x EXCEPT !.out = q.out \o @] :
                          x \in (IF block.flag THEN FinishWebCall(q.state, call) ELSE Quiet(q.state))}
      BY <1>2, <1>3 DEF Then
    <3>2. q.state = s /\ q.bad = FALSE
      BY DEF Emits, Outcome
    <3>3. PICK x \in rest : r = [x EXCEPT !.out = q.out \o @]
      BY <3>1, <3>2
    <3> QED
      BY <3>3 DEF Following
  <2> HIDE DEF rest
  <2> QED
    BY <1>3, <2>1, <2>2, KeepsAfter
<1>4. CASE known # {}
  <2>1. found \in known
    BY <1>4
  <2>2. call \in m.calls /\ begun = Emits(m, <<>>)
    BY <1>4, <2>1 DEF Quiet
  <2> HIDE DEF call, begun
  <2> QED
    BY <1>1, <1>3, <2>2, LeadsNowhere
<1>5. CASE known = {}
  <2> DEFINE u == Grown(v, CallItem(FALSE))
             a == [m EXCEPT !.calls = m.calls \cup {made}, !.items = m.items + 1]
  <2>1. call = made /\ made.item = m.items + 1
    BY <1>5 DEF Call
  <2>2. begun = Emits(a, SearchBegins(m.items + 1))
    BY <1>5, <2>1
  <2>3. made \in CallState /\ m.items + 1 \in Nat
    BY <1>1 DEF Call, CallState, MessagesState, BlockState
  <2> HIDE DEF known, call, begun, made
  <2>4. /\ a \in MessagesState /\ a.calls = m.calls \cup {made} /\ a.items = m.items + 1
        /\ a.blocks = m.blocks /\ a.sawText = m.sawText /\ ~a.terminal
    BY <1>1, <2>3 DEF MessagesState
  <2> HIDE DEF a
  <2>5. SameOwners(m, a)
    BY <2>4 DEF SameOwners, MessagesFit, BlocksFit
  <2>6. MessagesFit(a, u)
    BY <2>4, <2>5, CallBeginsFits DEF made
  <2>7. Leads(v, SearchBegins(m.items + 1), u)
    BY <1>1, SearchLeads DEF CallItem
  <2>8. u \in View /\ u.end = "none"
    BY <2>4, <2>6 DEF MessagesFit, View
  <2> HIDE DEF u
  <2> QED
    BY <1>3, <2>1, <2>2, <2>4, <2>6, <2>7, <2>8
<1> QED
  BY <1>4, <1>5
\* stopBlock.
LEMMA StopBlockKeeps ==
  ASSUME NEW m, NEW v, MessagesFit(m, v), ~m.terminal, NEW i \in Blocks
  PROVE  Keep("messages", StopBlock(m, i), v)
<1> DEFINE block == m.blocks[i]
           n == [m EXCEPT !.blocks[i].done = TRUE]
<1>1. v \in View /\ v.end = "none" /\ m \in MessagesState /\ m.items = Len(v.items)
  BY FitGrows DEF MessagesFit
<1>2. CASE block = NoBlock \/ block.done
  <2>1. Keep("messages", Fails(m), v) /\ Keep("messages", Quiet(m), v)
    BY <1>1, KeepsQuiet DEF Fits
  <2> QED
    BY <1>2, <2>1 DEF StopBlock
<1> SUFFICES ASSUME block # NoBlock, ~block.done
             PROVE  Keep("messages", StopBlock(m, i), v)
  BY <1>2
<1>3. StopBlock(m, i) = StopStarted(n, block)
  BY DEF StopBlock
<1>4. /\ block \in BlockState /\ block.done = FALSE
      /\ Owns(block) => block.item \in DOMAIN v.items /\ v.items[block.item] = BlockItem(block.kind, FALSE)
      /\ block.kind \in OwnKinds \ {"thinking"} => Owns(block)
  <2>1. block \in BlockState
    BY OwnedItem
  <2>2. block.done = FALSE
    BY <2>1 DEF BlockState
  <2> QED
    BY <2>1, <2>2, OwnedItem
<1>5. /\ n \in MessagesState /\ n.items = m.items /\ n.calls = m.calls /\ n.sawText = m.sawText
      /\ ~n.terminal /\ n.finishing = m.finishing /\ n.terminal = m.terminal
      /\ n.blocks[i].kind = block.kind /\ n.blocks[i].item = block.item
      /\ n.blocks[i] # NoBlock /\ n.blocks[i].done = TRUE
      /\ \A j \in Blocks : j # i => n.blocks[j] = m.blocks[j]
  <2> DEFINE stopped == [block EXCEPT !.done = TRUE]
             blocks == [m.blocks EXCEPT ![i] = stopped]
  <2>1. n = [m EXCEPT !.blocks = blocks]
    BY <1>1 DEF MessagesState
  <2>2. /\ stopped \in BlockState /\ stopped # NoBlock /\ stopped.kind = block.kind
        /\ stopped.item = block.item /\ stopped.done = TRUE
    BY <1>4 DEF BlockState, BlockKind, NoBlock
  <2> HIDE DEF stopped
  <2>3. /\ blocks \in [Blocks -> BlockState \cup {NoBlock}] /\ blocks[i] = stopped
        /\ \A j \in Blocks : j # i => blocks[j] = m.blocks[j]
    BY <1>1, <2>2 DEF MessagesState
  <2> HIDE DEF blocks
  <2>4. /\ n \in MessagesState /\ n.blocks = blocks /\ n.items = m.items /\ n.calls = m.calls
        /\ n.sawText = m.sawText /\ n.finishing = m.finishing /\ n.terminal = m.terminal
    BY <1>1, <2>1, <2>3 DEF MessagesState
  <2> HIDE DEF n
  <2> QED
    BY <2>2, <2>3, <2>4
<1> HIDE DEF n
<1>6. ASSUME Owns(block), NEW s, StopStarted(n, block) = Emits(n, s),
             Leads(v, s, Turned(v, block.item, BlockItem(block.kind, TRUE)))
      PROVE  Keep("messages", StopBlock(m, i), v)
  <2> DEFINE w == Turned(v, block.item, BlockItem(block.kind, TRUE))
  <2>1. MessagesFit(n, w)
    BY <1>5, <1>6, BlockStopsFits
  <2>2. w \in View /\ w.end = "none"
    BY <1>5, <2>1 DEF MessagesFit, View
  <2> HIDE DEF block
  <2>3. Leads(v, s, w)
    BY <1>6
  <2> HIDE DEF w
  <2> QED
    BY <1>3, <1>6, <2>1, <2>2, <2>3, KeepsOne DEF Fits
<1>7. ~Owns(block) => MessagesFit(n, v)
  <2> SUFFICES ASSUME ~Owns(block)
               PROVE  MessagesFit(n, v)
    OBVIOUS
  <2>1. ~Owns(n.blocks[i]) /\ Owed(n.blocks[i])
    BY <1>4, <1>5 DEF Owns, Owed
  <2>2. SameOwners(m, n)
    BY <1>5, <2>1 DEF SameOwners, MessagesFit, BlocksFit
  <2>3. n.finishing => ~n.terminal
    BY <1>5
  <2> QED
    BY <1>5, <2>2, <2>3, SameFits
<1>8. CASE block.kind \in {"text", "thinking"} /\ Owns(block)
  <2> DEFINE type == TypeOf(block.kind)
  <2>1. /\ type \in {"message", "reasoning"}
        /\ BlockItem(block.kind, FALSE) = Shown(type, "open", FALSE)
        /\ BlockItem(block.kind, TRUE) = Shown(type, "closed", TRUE)
    BY <1>8 DEF TypeOf, BlockItem
  <2>2. StopStarted(n, block) = Emits(n, PartEnds(block.item))
    BY <1>8 DEF StopStarted, Owns
  <2> HIDE DEF type, block
  <2>3. Leads(v, PartEnds(block.item), Turned(v, block.item, Shown(type, "closed", TRUE)))
    BY <1>1, <1>4, <1>8, <2>1, PartEndsLeads
  <2> QED
    BY <1>6, <1>8, <2>1, <2>2, <2>3
<1>9. CASE block.kind \in {"redacted_thinking", "tool_use"}
  <2> DEFINE type == TypeOf(block.kind)
  <2>1. /\ type \in {"sealed", "function_call", "web_search_call"}
        /\ BlockItem(block.kind, FALSE) = Shown(type, "none", FALSE)
        /\ BlockItem(block.kind, TRUE) = Shown(type, "none", TRUE)
        /\ Owns(block)
    BY <1>4, <1>9 DEF TypeOf, BlockItem, OwnKinds
  <2>2. \E s \in {<<About("done", block.item)>>, <<About("progress", block.item), About("done", block.item)>>} :
          StopStarted(n, block) = Emits(n, s)
    BY <1>9 DEF StopStarted
  <2> HIDE DEF type, block
  <2>3. \A s \in {<<About("done", block.item)>>, <<About("progress", block.item), About("done", block.item)>>} :
          Leads(v, s, Turned(v, block.item, Shown(type, "none", TRUE)))
    BY <1>1, <1>4, <2>1, DoneLeads
  <2> QED
    BY <1>6, <2>1, <2>2, <2>3
<1>10. CASE block.kind = "web_search_tool_result"
  <2>1. MessagesFit(n, v)
    BY <1>7, <1>10 DEF Owns, OwnKinds
  <2>2. Keep("messages", FinishWebResult(n, block), v)
    BY <1>4, <1>5, <2>1, FinishWebResultKeeps
  <2>3. StopStarted(n, block) = FinishWebResult(n, block)
    BY <1>10 DEF StopStarted
  <2> QED
    BY <1>3, <2>2, <2>3
<1>11. CASE block.kind \in {"server_tool_use", "unknown"} \/ (block.kind = "thinking" /\ ~Owns(block))
  <2>1. MessagesFit(n, v)
    BY <1>7, <1>11 DEF Owns, OwnKinds
  <2>2. StopStarted(n, block) = Quiet(n)
    BY <1>4, <1>11 DEF StopStarted, Owns, OwnKinds
  <2>3. Keep("messages", Quiet(n), v)
    BY <1>1, <2>1, KeepsQuiet DEF Fits
  <2> QED
    BY <1>3, <2>2, <2>3
<1>12. block.kind \in BlockKind
  BY <1>4 DEF BlockState
<1>13. block.kind = "text" => Owns(block)
  BY <1>4 DEF OwnKinds
<1> QED
  BY <1>8, <1>9, <1>10, <1>11, <1>12, <1>13 DEF BlockKind
\* The least of some numbers.
LEMMA MinIsLeast ==
  ASSUME NEW S \in SUBSET Nat, S # {}
  PROVE  Min(S) \in S /\ \A i \in S : Min(S) <= i
<1>1. OpToRel(<, Nat) = {ss \in Nat \X Nat : ss[1] < ss[2]}
  BY DEF OpToRel
<1>2. PICK x \in S : \A y \in S : <<y, x>> \notin OpToRel(<, Nat)
  BY WFMin, NatLessThanWellFounded
<1>3. ASSUME NEW y \in S, y < x
      PROVE  FALSE
  <2> DEFINE pair == <<y, x>>
  <2>1. pair \in Nat \X Nat /\ pair[1] < pair[2]
    BY <1>3
  <2>2. pair \in OpToRel(<, Nat)
    BY <1>1, <2>1, Zenon
  <2> QED
    BY <1>2, <2>2
<1>4. \A y \in S : x <= y
  BY <1>3
<1> QED
  BY <1>4 DEF Min

\* What a handler may come to: as above, but the stream may end.
CameTo(kind, r, v, w) ==
  /\ Leads(v, r.out, w) /\ (r.bad => w.end = "none")
  /\ ~r.bad => Fit(kind, r.state, w)
ComesBy(kind, r, v) == IsOutcome(r) /\ \E w \in View : CameTo(kind, r, v, w)
Comes(kind, results, v) == \A r \in results : ComesBy(kind, r, v)

\* What a call comes to, a handler may.
LEMMA KeptComes ==
  ASSUME NEW v, NEW results, Keep("messages", results, v)
  PROVE  Comes("messages", results, v)
<1> SUFFICES ASSUME NEW r \in results
             PROVE  ComesBy("messages", r, v)
  BY DEF Comes
<1>1. IsOutcome(r)
  BY DEF Keep, KeptBy
<1>2. PICK w \in View : KeptIn("messages", r, v, w)
  BY DEF Keep, KeptBy
<1> QED
  BY <1>1, <1>2 DEF ComesBy, CameTo, KeptIn, Fits, Fit

\* When every block is stopped and every call finished, all items are done.
LEMMA ConcludeFits ==
  ASSUME NEW m, NEW v, MessagesFit(m, v), ~m.terminal, Unstopped(m) = {}, Unfinished(m) = {},
         NEW r \in Conclude(m)
  PROVE  IsOutcome(r) /\ \E w \in View : CameTo("messages", r, v, w)
<1> DEFINE n == [m EXCEPT !.terminal = TRUE, !.finishing = FALSE]
           w == [items |-> v.items, spoken |-> v.spoken, end |-> "terminal"]
<1>1. v \in View /\ v.end = "none" /\ m \in MessagesState
  BY FitGrows DEF MessagesFit
<1>2. \A j \in DOMAIN v.items : v.items[j].done
  <2> SUFFICES ASSUME NEW j \in DOMAIN v.items, ~v.items[j].done
               PROVE  FALSE
    OBVIOUS
  <2>1. CASE \E i \in Blocks : Owns(m.blocks[i]) /\ m.blocks[i].item = j
    <3>1. PICK i \in Blocks : Owns(m.blocks[i]) /\ m.blocks[i].item = j
      BY <2>1
    <3>2. m.blocks[i] # NoBlock
      BY <3>1 DEF Owns
    <3>3. m.blocks[i] \in BlockState /\ v.items[j] = BlockItem(m.blocks[i].kind, m.blocks[i].done)
      BY <3>1, <3>2, OwnedItem
    <3>4. m.blocks[i].done = TRUE /\ m.blocks[i].kind \in OwnKinds
      BY <3>1, <3>2, <3>3 DEF Unstopped, BlockState, Owns
    <3> QED
      BY <3>3, <3>4, ItemKindsApart
  <2>2. CASE \E c \in m.calls : c.item = j
    <3>1. PICK c \in m.calls : c.item = j
      BY <2>2
    <3>2. c.emitted = TRUE /\ v.items[j] = CallItem(c.emitted)
      BY <1>1, <3>1 DEF Unfinished, MessagesState, CallState, MessagesFit, CallsFit
    <3> QED
      BY <3>2 DEF CallItem, Shown
  <2> QED
    BY <2>1, <2>2 DEF MessagesFit, Accounted
<1>3. r = Outcome(n, <<Terminal>>, FALSE)
  BY DEF Conclude, Emits
<1>4. Leads(v, <<Terminal>>, w) /\ w \in View
  BY <1>1, <1>2, PlainLeads DEF Terminal
<1>5. /\ n \in MessagesState /\ n.blocks = m.blocks /\ n.calls = m.calls /\ n.items = m.items
      /\ n.sawText = m.sawText /\ n.terminal = TRUE /\ n.finishing = FALSE
  BY <1>1 DEF MessagesState
<1> HIDE DEF n
<1>6. w.items = v.items /\ w.spoken = v.spoken /\ w.end = "terminal"
  OBVIOUS
<1> HIDE DEF w
<1>7. Unstopped(n) = {} /\ Unfinished(n) = {}
  BY <1>5 DEF Unstopped, Unfinished
<1>8. BlocksFit(n, w) /\ CallsFit(n, w) /\ Accounted(n, w)
  BY <1>5, <1>6 DEF MessagesFit, BlocksFit, CallsFit, Accounted
<1>9. MessagesFit(n, w)
  <2>1. m.items = Len(v.items) /\ (v.spoken => m.sawText)
    BY DEF MessagesFit
  <2> QED
    BY <1>4, <1>5, <1>6, <1>7, <1>8, <2>1 DEF MessagesFit
<1>10. r.state = n /\ r.out = <<Terminal>> /\ r.bad = FALSE /\ IsOutcome(r)
  BY <1>3 DEF IsOutcome, Outcome
<1> QED
  BY <1>4, <1>9, <1>10 DEF CameTo, Fit
\* One turn of finish: a block, a search, or the end.
LEMMA MessagesFinishTurnComes ==
  ASSUME NEW m, NEW v, MessagesFit(m, v), ~m.terminal
  PROVE  Comes("messages", MessagesFinishTurn(m), v)
<1>1. v \in View /\ v.end = "none" /\ m \in MessagesState /\ m.items = Len(v.items) /\ m.items \in Nat
  BY FitGrows DEF MessagesFit
<1>2. CASE Unstopped(m) # {}
  <2>1. Unstopped(m) \in SUBSET Nat /\ Unstopped(m) \subseteq Blocks
    BY TranslatedAssumption DEF Unstopped
  <2>2. Min(Unstopped(m)) \in Blocks
    BY <1>2, <2>1, MinIsLeast
  <2>3. Keep("messages", StopBlock(m, Min(Unstopped(m))), v)
    BY <2>2, StopBlockKeeps
  <2> QED
    BY <1>2, <2>3, KeptComes DEF MessagesFinishTurn
<1>3. CASE Unstopped(m) = {} /\ Unfinished(m) # {}
  <2>1. MessagesFinishTurn(m) = UNION {FinishWebCall(m, call) : call \in Unfinished(m)}
    BY <1>3 DEF MessagesFinishTurn
  <2>2. \A call \in Unfinished(m) : Keep("messages", FinishWebCall(m, call), v)
    BY FinishWebCallKeeps DEF Unfinished
  <2>3. Keep("messages", MessagesFinishTurn(m), v)
    BY <2>1, <2>2 DEF Keep
  <2> QED
    BY <2>3, KeptComes
<1>4. CASE Unstopped(m) = {} /\ Unfinished(m) = {}
  <2>1. MessagesFinishTurn(m) = Then(InferSearch(m), Conclude)
    BY <1>4 DEF MessagesFinishTurn
  <2>2. ASSUME NEW n, NEW s, InferSearch(m) = Emits(n, s), NEW u \in View, Leads(v, s, u),
               MessagesFit(n, u), ~n.terminal, Unstopped(n) = {}, Unfinished(n) = {}
        PROVE  Comes("messages", MessagesFinishTurn(m), v)
    <3> SUFFICES ASSUME NEW r \in MessagesFinishTurn(m)
                 PROVE  ComesBy("messages", r, v)
      BY DEF Comes
    <3>1. PICK q \in Emits(n, s) :
            r \in IF q.bad THEN {q} ELSE {[x EXCEPT !.out = q.out \o @] : x \in Conclude(q.state)}
      BY <2>1, <2>2 DEF Then
    <3>2. q.state = n /\ q.bad = FALSE /\ q.out = s
      BY DEF Emits, Outcome
    <3>3. PICK x \in Conclude(n) : r = Following(q, x)
      BY <3>1, <3>2 DEF Following
    <3>4. IsOutcome(x)
      BY <2>2, ConcludeFits
    <3>5. PICK w \in View : CameTo("messages", x, u, w)
      BY <2>2, ConcludeFits
    <3>6. Leads(u, x.out, w) /\ Leads(v, q.out, u)
      BY <2>2, <3>2, <3>5 DEF CameTo
    <3>7. IsOutcome(r) /\ r.state = x.state /\ r.bad = x.bad /\ Leads(v, r.out, w)
      BY <3>3, <3>4, <3>6, Joins
    <3> QED
      BY <3>5, <3>7 DEF CameTo, ComesBy
  <2>3. CASE m.calls = {} /\ m.hosted /\ m.urls
    <3> DEFINE n == [m EXCEPT !.items = m.items + 1]
               i == m.items + 1
               u == Grown(v, CallItem(FALSE))
               w == Grown(v, CallItem(TRUE))
    <3>1. InferSearch(m) = Emits(n, SearchBegins(i) \o SearchEnds(i))
      BY <2>3 DEF InferSearch
    <3>2. CallItem(FALSE) \in Item /\ CallItem(TRUE) \in Item /\ CallItem(TRUE).done
      <4>1. "text" \in OwnKinds
        BY DEF OwnKinds
      <4> QED
        BY <4>1, ItemKindsApart
    <3>3. Leads(v, SearchBegins(i), u)
      BY <1>1, SearchLeads DEF CallItem
    <3>4. u \in View /\ u.end = "none" /\ i \in DOMAIN u.items /\ u.items[i] = CallItem(FALSE)
      <4> DEFINE c == CallItem(FALSE)
      <4> HIDE DEF c
      <4>1. /\ Grown(v, c) \in View /\ Grown(v, c).end = "none" /\ DOMAIN Grown(v, c).items = 1..(m.items + 1)
            /\ Grown(v, c).items[m.items + 1] = c
        <5>1. c \in Item
          BY <3>2 DEF c
        <5> QED
          BY <5>1, FitGrows
      <4>2. i \in 1..(m.items + 1)
        BY <1>1
      <4> QED
        BY <4>1, <4>2 DEF c
    <3>5. Turned(u, i, CallItem(TRUE)) = w
      BY <1>1, <3>2, TurnedGrown
    <3> HIDE DEF u
    <3>6. Leads(u, SearchEnds(i), w)
      BY <3>4, <3>5, SearchLeads DEF CallItem
    <3>7. Leads(v, SearchBegins(i) \o SearchEnds(i), w)
      BY <3>3, <3>6, LeadsOn
    <3>8. /\ n \in MessagesState /\ n.blocks = m.blocks /\ n.calls = m.calls /\ n.items = m.items + 1
          /\ n.sawText = m.sawText /\ ~n.terminal
      BY <1>1 DEF MessagesState
    <3> HIDE DEF n, i
    <3>9. MessagesFit(n, w)
      BY <3>2, <3>8, DoneItemFits
    <3>10. Unstopped(n) = {} /\ Unfinished(n) = {}
      BY <1>4, <3>8 DEF Unstopped, Unfinished
    <3>11. w \in View
      BY <3>9 DEF MessagesFit
    <3> HIDE DEF w
    <3> QED
      BY <2>2, <3>1, <3>7, <3>8, <3>9, <3>10, <3>11
  <2>4. CASE ~(m.calls = {} /\ m.hosted /\ m.urls)
    <3>1. InferSearch(m) = Emits(m, <<>>)
      BY <2>4 DEF InferSearch, Quiet
    <3> QED
      BY <1>1, <1>4, <2>2, <3>1, LeadsNowhere
  <2> QED
    BY <2>3, <2>4
<1> QED
  BY <1>2, <1>3, <1>4

\* finish begins.
LEMMA MessagesFinishComes ==
  ASSUME NEW m, NEW v, MessagesFit(m, v), ~m.terminal
  PROVE  Comes("messages", MessagesFinish(m), v)
<1> DEFINE n == [m EXCEPT !.finishing = TRUE]
<1>1. /\ n \in MessagesState /\ n.blocks = m.blocks /\ n.calls = m.calls /\ n.items = m.items
      /\ n.sawText = m.sawText /\ n.terminal = m.terminal
  BY DEF MessagesFit, MessagesState
<1> HIDE DEF n
<1>2. MessagesFit(n, v)
  <2>1. SameOwners(m, n)
    BY <1>1 DEF SameOwners, MessagesFit, BlocksFit
  <2> QED
    BY <1>1, <2>1, SameFits
<1>3. Comes("messages", MessagesFinishTurn(n), v)
  BY <1>1, <1>2, MessagesFinishTurnComes
<1> QED
  BY <1>3 DEF MessagesFinish, n

\* A frame of the Messages protocol.
LEMMA HandleMessagesComes ==
  ASSUME NEW m, NEW v, MessagesFit(m, v), ~m.terminal, ~m.finishing, NEW f \in MessagesFrame,
         MessagesSends(m, f)
  PROVE  Comes("messages", HandleMessages(m, f), v)
<1>1. v \in View /\ v.end = "none" /\ m \in MessagesState /\ f.index \in Blocks /\ f.flag \in BOOLEAN
  BY FitGrows DEF MessagesFit, MessagesFrame
<1>2. Keep("messages", Quiet(m), v) /\ Keep("messages", Fails(m), v)
  BY <1>1, KeepsQuiet DEF Fits
<1>3. ASSUME NEW n \in MessagesState, n.blocks = m.blocks, n.calls = m.calls, n.items = m.items,
             n.sawText = m.sawText, n.terminal = m.terminal, n.finishing = m.finishing
      PROVE  MessagesFit(n, v)
  <2>1. SameOwners(m, n)
    BY <1>3 DEF SameOwners, MessagesFit, BlocksFit
  <2> QED
    BY <1>3, <2>1, SameFits
<1>4. CASE f.type \in {"ping", "garbled"}
  <2>1. HandleMessages(m, f) = IF f.type = "ping" THEN Quiet(m) ELSE Fails(m)
    BY <1>4 DEF HandleMessages
  <2> QED
    BY <1>2, <2>1, KeptComes
<1>5. CASE f.type = "error"
  <2> DEFINE n == [m EXCEPT !.terminal = TRUE]
             w == [items |-> v.items, spoken |-> v.spoken, end |-> "error"]
  <2>1. HandleMessages(m, f) = Emits(n, <<ErrorEvent>>)
    BY <1>5 DEF HandleMessages
  <2>2. Leads(v, <<ErrorEvent>>, w) /\ w \in View
    BY <1>1, PlainLeads DEF ErrorEvent
  <2>3. /\ n \in MessagesState /\ n.blocks = m.blocks /\ n.calls = m.calls /\ n.items = m.items
        /\ n.sawText = m.sawText /\ n.terminal = TRUE /\ n.finishing = m.finishing
    BY <1>1 DEF MessagesState
  <2>4. w.items = v.items /\ w.spoken = v.spoken /\ w.end = "error"
    OBVIOUS
  <2> HIDE DEF n, w
  <2>5. BlocksFit(n, w) /\ CallsFit(n, w) /\ Accounted(n, w)
    BY <2>3, <2>4 DEF MessagesFit, BlocksFit, CallsFit, Accounted
  <2>6. MessagesFit(n, w)
    <3>1. m.items = Len(v.items) /\ (v.spoken => m.sawText)
      BY DEF MessagesFit
    <3> QED
      BY <2>2, <2>3, <2>4, <2>5, <3>1 DEF MessagesFit
  <2>7. ASSUME NEW r \in Emits(n, <<ErrorEvent>>)
        PROVE  ComesBy("messages", r, v)
    <3>2. r = Outcome(n, <<ErrorEvent>>, FALSE)
      BY DEF Emits
    <3>1. r.state = n /\ r.out = <<ErrorEvent>> /\ r.bad = FALSE /\ IsOutcome(r)
      BY <3>2 DEF Outcome, IsOutcome
    <3> QED
      BY <2>2, <2>6, <3>1 DEF ComesBy, CameTo, Fit
  <2> QED
    BY <2>1, <2>7 DEF Comes
<1>6. CASE f.type = "message_start"
  <2> DEFINE n == [m EXCEPT !.sawStart = TRUE]
             first == StartBlock(n, f)
             later == Then(first, LAMBDA x : StopBlock(x, f.index))
  <2>1. HandleMessages(m, f) = IF f.kind = "unknown" THEN Quiet(n) ELSE later
    BY <1>6 DEF HandleMessages
  <2>2. /\ n \in MessagesState /\ n.blocks = m.blocks /\ n.calls = m.calls /\ n.items = m.items
        /\ n.sawText = m.sawText /\ n.terminal = m.terminal /\ n.finishing = m.finishing
    BY <1>1 DEF MessagesState
  <2> HIDE DEF n
  <2>3. MessagesFit(n, v)
    BY <1>3, <2>2
  <2>4. Keep("messages", Quiet(n), v)
    BY <1>1, <2>3, KeepsQuiet DEF Fits
  <2>5. Keep("messages", first, v)
    BY <2>2, <2>3, StartBlockKeeps
  <2> HIDE DEF first
  <2>6. ASSUME NEW r \in later
        PROVE  \E q \in first : GoesOn("messages", "messages", q, r)
    <3>1. PICK q \in first :
            r \in IF q.bad THEN {q}
                  ELSE {[x EXCEPT !.out = q.out \o @] : x \in StopBlock(q.state, f.index)}
      BY DEF Then
    <3>2. CASE q.bad
      BY <3>1, <3>2 DEF GoesOn
    <3>3. CASE ~q.bad
      <4>1. PICK x \in StopBlock(q.state, f.index) : r = Following(q, x)
        BY <3>1, <3>3 DEF Following
      <4>2. ASSUME NEW u \in View, u.end = "none", Fits("messages", q.state, u)
            PROVE  Keep("messages", {x}, u)
        <5>1. MessagesFit(q.state, u) /\ ~q.state.terminal
          BY <4>2 DEF Fits, MessagesFit
        <5>2. Keep("messages", StopBlock(q.state, f.index), u)
          BY <1>1, <5>1, StopBlockKeeps
        <5> QED
          BY <5>2 DEF Keep
      <4> QED
        BY <3>3, <4>1, <4>2 DEF GoesOn
    <3> QED
      BY <3>2, <3>3
  <2>7. Keep("messages", later, v)
    <3> HIDE DEF later
    <3>1. \A r \in later : \E q \in first : GoesOn("messages", "messages", q, r)
      BY <2>6
    <3> QED
      BY <2>5, <3>1, KeepsThen
  <2> HIDE DEF later
  <2> QED
    BY <2>1, <2>4, <2>7, KeptComes
<1>7. CASE f.type = "content_block_start"
  <2>1. HandleMessages(m, f) = StartBlock(m, f)
    BY <1>7 DEF HandleMessages
  <2> QED
    BY <2>1, StartBlockKeeps, KeptComes
<1>8. CASE f.type = "content_block_delta"
  <2>1. HandleMessages(m, f) = DeltaBlock(m, f)
    BY <1>8 DEF HandleMessages
  <2>2. m.blocks[f.index] # NoBlock => ~m.blocks[f.index].done
    BY <1>8 DEF MessagesSends
  <2>3. Keep("messages", DeltaBlock(m, f), v)
    BY <2>2, DeltaBlockKeeps
  <2> QED
    BY <2>1, <2>3, KeptComes
<1>9. CASE f.type = "content_block_stop"
  <2>1. HandleMessages(m, f) = StopBlock(m, f.index)
    BY <1>9 DEF HandleMessages
  <2>2. Keep("messages", StopBlock(m, f.index), v)
    BY <1>1, StopBlockKeeps
  <2> QED
    BY <2>1, <2>2, KeptComes
<1>10. CASE f.type = "message_delta"
  <2> DEFINE n == [m EXCEPT !.stopReason = TRUE, !.urls = @ \/ f.flag]
  <2>1. HandleMessages(m, f) = Quiet(n)
    BY <1>10 DEF HandleMessages
  <2>2. /\ n \in MessagesState /\ n.blocks = m.blocks /\ n.calls = m.calls /\ n.items = m.items
        /\ n.sawText = m.sawText /\ n.terminal = m.terminal /\ n.finishing = m.finishing
    BY <1>1 DEF MessagesState
  <2> HIDE DEF n
  <2>3. MessagesFit(n, v)
    BY <1>3, <2>2
  <2>4. Keep("messages", Quiet(n), v)
    BY <1>1, <2>3, KeepsQuiet DEF Fits
  <2> QED
    BY <2>1, <2>4, KeptComes
<1>11. CASE f.type = "message_stop"
  <2>1. HandleMessages(m, f) = IF m.sawStart THEN MessagesFinish(m) ELSE Fails(m)
    BY <1>11 DEF HandleMessages
  <2>2. Comes("messages", MessagesFinish(m), v)
    BY MessagesFinishComes
  <2>3. Comes("messages", Fails(m), v)
    BY <1>2, KeptComes
  <2> QED
    BY <2>1, <2>2, <2>3
<1> QED
  BY <1>4, <1>5, <1>6, <1>7, <1>8, <1>9, <1>10, <1>11 DEF MessagesFrame
-----------------------------------------------------------------------------
(* How the fit of chatStreamState survives a change.                       *)

\* A view that fits a state that has not ended.
LEMMA ChatBasics ==
  ASSUME NEW c, NEW v, NEW stage, ChatFitsAt(c, v, stage), ~c.terminal
  PROVE  /\ v \in View /\ v.end = "none" /\ c \in ChatState /\ c.items = Len(v.items) /\ c.items \in Nat
         /\ DOMAIN v.items = 1..c.items /\ c.terminal = FALSE
<1>1. v \in View /\ v.end = "none" /\ c \in ChatState /\ c.items = Len(v.items)
  BY DEF ChatFitsAt, View
<1> QED
  BY <1>1, ViewFields DEF ChatState

\* A place survives that the view grows.
LEMMA PlacedGrows ==
  ASSUME NEW v \in View, NEW item \in Item, NEW old, NEW new, NEW what, Placed(v, old, what),
         new = old \/ (new = Len(v.items) + 1 /\ item = what)
  PROVE  Placed(Grown(v, item), new, what)
<1> DEFINE w == Grown(v, item)
<1>1. /\ DOMAIN v.items = 1..Len(v.items) /\ DOMAIN w.items = 1..(Len(v.items) + 1)
      /\ w.items[Len(v.items) + 1] = item
      /\ \A j \in 1..Len(v.items) : w.items[j] = v.items[j]
  BY GrownView
<1>2. Len(v.items) \in Nat
  BY ViewFields
<1> HIDE DEF w
<1>3. Placed(w, new, what)
  BY <1>1, <1>2 DEF Placed
<1> QED
  BY <1>3 DEF w

\* The item of a place is turned, or shows the same as before.
Moved(k, item, place, old, new) == place # 0 => IF place = k THEN item = new ELSE old = new

\* So for all places.
Turns(k, item, c, stage, rest, next) ==
  /\ Moved(k, item, c.reasoning, PartItem("reasoning", stage # "open"), PartItem("reasoning", next # "open"))
  /\ Moved(k, item, c.message, PartItem("message", stage \notin {"open", "thought"}),
           PartItem("message", next \notin {"open", "thought"}))
  /\ Moved(k, item, c.search, CallItem(stage = "searched"), CallItem(next = "searched"))
  /\ \A i \in Tools : Moved(k, item, c.tools[i].item, ToolItem(Ended(stage, i, c.left)),
                            ToolItem(Ended(next, i, rest)))

\* The calls that are left are those that were seen and are not reported yet.
Leaves(c, rest, next) ==
  /\ \A i \in Tools : c.tools[i].seen /\ Ended(next, i, rest) => c.tools[i].item # 0
  /\ \A i \in Tools : Past(next) /\ i \in rest => c.tools[i].seen

\* A place moves with the item that is turned.
LEMMA PlacedMoves ==
  ASSUME NEW v \in View, NEW k \in DOMAIN v.items, NEW item \in Item, NEW place, NEW old, NEW new,
         Placed(v, place, old), Moved(k, item, place, old, new)
  PROVE  Placed(Turned(v, k, item), place, new)
<1> DEFINE w == Turned(v, k, item)
<1>1. /\ DOMAIN v.items = 1..Len(v.items) /\ DOMAIN w.items = 1..Len(v.items) /\ w.items[k] = item
      /\ \A j \in 1..Len(v.items) : j # k => w.items[j] = v.items[j]
  BY TurnedView
<1> HIDE DEF w
<1>2. Placed(w, place, new)
  BY <1>1 DEF Placed, Moved
<1> QED
  BY <1>2 DEF w

\* What the items of the parts, calls and the search are.
LEMMA ChatShown ==
  ASSUME NEW stage, NEW done \in BOOLEAN
  PROVE  /\ \A type \in {"message", "reasoning"} :
              PartItem(type, done) \in Item /\ PartItem(type, done).type = type
              /\ PartItem(type, done).done = done
         /\ ToolItem(done) \in Item /\ ToolItem(done).type = "function_call" /\ ToolItem(done).done = done
         /\ CallItem(done) \in Item /\ CallItem(done).type = "web_search_call" /\ CallItem(done).done = done
         /\ PartItem("message", FALSE) = Shown("message", "open", FALSE)
         /\ PartItem("reasoning", FALSE) = Shown("reasoning", "open", FALSE)
         /\ PartItem("message", TRUE) = Shown("message", "closed", TRUE)
         /\ PartItem("reasoning", TRUE) = Shown("reasoning", "closed", TRUE)
<1>1. {"message", "reasoning", "function_call", "web_search_call"} \subseteq Client!ItemType
  BY DEF Client!ItemType
<1>2. \A type \in {"message", "reasoning"} :
        PartItem(type, done) \in Item /\ PartItem(type, done).type = type /\ PartItem(type, done).done = done
  BY <1>1 DEF PartItem, Shown, Item, Parts
<1>3. ToolItem(done) \in Item /\ ToolItem(done).type = "function_call" /\ ToolItem(done).done = done
  BY <1>1 DEF ToolItem, Shown, Item, Parts
<1>4. CallItem(done) \in Item /\ CallItem(done).type = "web_search_call" /\ CallItem(done).done = done
  BY <1>1 DEF CallItem, Shown, Item, Parts
<1> QED
  BY <1>2, <1>3, <1>4 DEF PartItem

\* Different things have different items, for items have types.
LEMMA ChatApart ==
  ASSUME NEW c, NEW v, NEW stage, ChatFitsAt(c, v, stage)
  PROVE  /\ c.reasoning # 0 => c.reasoning \in DOMAIN v.items /\ v.items[c.reasoning].type = "reasoning"
         /\ c.message # 0 => c.message \in DOMAIN v.items /\ v.items[c.message].type = "message"
         /\ c.search # 0 => c.search \in DOMAIN v.items /\ v.items[c.search].type = "web_search_call"
         /\ \A i \in Tools : c.tools[i].item # 0 =>
              c.tools[i].item \in DOMAIN v.items /\ v.items[c.tools[i].item].type = "function_call"
<1> USE DEF ChatFitsAt
<1>1. c.reasoning # 0 => c.reasoning \in DOMAIN v.items /\ v.items[c.reasoning].type = "reasoning"
  BY DEF PartsFit, Placed, PartItem, Shown
<1>2. c.message # 0 => c.message \in DOMAIN v.items /\ v.items[c.message].type = "message"
  BY DEF PartsFit, Placed, PartItem, Shown
<1>3. c.search # 0 => c.search \in DOMAIN v.items /\ v.items[c.search].type = "web_search_call"
  BY DEF PartsFit, Placed, CallItem, Shown
<1>4. \A i \in Tools : c.tools[i].item # 0 =>
        c.tools[i].item \in DOMAIN v.items /\ v.items[c.tools[i].item].type = "function_call"
  <2> SUFFICES ASSUME NEW i \in Tools, c.tools[i].item # 0
               PROVE  c.tools[i].item \in DOMAIN v.items /\ v.items[c.tools[i].item].type = "function_call"
    OBVIOUS
  <2>1. Placed(v, c.tools[i].item, ToolItem(Ended(stage, i, c.left)))
    BY DEF ToolsFit
  <2>2. ToolItem(Ended(stage, i, c.left)).type = "function_call"
    BY DEF ToolItem, Shown
  <2> QED
    BY <2>1, <2>2 DEF Placed
<1> QED
  BY <1>1, <1>2, <1>3, <1>4

\* It survives what concerns no item; a call may be seen for the first time.
LEMMA ChatSame ==
  ASSUME NEW c, NEW v, NEW stage, ChatFitsAt(c, v, stage), ~c.terminal, NEW n \in ChatState,
         n.reasoning = c.reasoning, n.message = c.message, n.search = c.search, n.items = c.items,
         n.left = c.left, n.finishing = c.finishing, n.terminal = c.terminal, c.sawText => n.sawText,
         \A i \in Tools : n.tools[i].item = c.tools[i].item /\ (c.tools[i].seen => n.tools[i].seen),
         Past(stage) => n.tools = c.tools
  PROVE  ChatFitsAt(n, v, stage)
<1>1. PartsFit(n, v, stage)
  BY DEF ChatFitsAt, PartsFit
<1>2. ToolsFit(n, v, stage)
  BY DEF ChatFitsAt, ToolsFit, Ended
<1>3. Known(n, v)
  BY DEF ChatFitsAt, Known
<1> QED
  BY <1>1, <1>2, <1>3 DEF ChatFitsAt

\* It survives that text is told.
LEMMA ChatTold ==
  ASSUME NEW c, NEW v, NEW stage, ChatFitsAt(c, v, stage), c.sawText
  PROVE  ChatFitsAt(c, Told(v), stage)
<1>1. v \in View /\ Told(v).items = v.items /\ Told(v).end = v.end
  BY DEF ChatFitsAt, Told
<1>2. Told(v) \in View
  BY <1>1, ViewFields
<1> QED
  BY <1>1, <1>2 DEF ChatFitsAt, PartsFit, ToolsFit, Known, Placed

\* It survives an item for something that had none.
LEMMA ChatGrows ==
  ASSUME NEW c, NEW v, NEW stage, ChatFitsAt(c, v, stage), ~c.terminal, NEW item \in Item,
         NEW n \in ChatState, n.items = c.items + 1, n.left = c.left, n.finishing = c.finishing, n.terminal = c.terminal,
         c.sawText => n.sawText,
         n.reasoning = c.reasoning \/ (n.reasoning = c.items + 1 /\ item = PartItem("reasoning", stage # "open")),
         n.message = c.message
           \/ (n.message = c.items + 1 /\ item = PartItem("message", stage \notin {"open", "thought"})),
         n.search = c.search \/ (n.search = c.items + 1 /\ item = CallItem(stage = "searched")),
         \A i \in Tools : /\ \/ n.tools[i].item = c.tools[i].item
                             \/ /\ n.tools[i].item = c.items + 1 /\ n.tools[i].seen
                                /\ item = ToolItem(Ended(stage, i, c.left))
                          /\ n.tools[i].seen = c.tools[i].seen,
         \A i, j \in Tools : n.tools[i].item = c.items + 1 /\ n.tools[j].item = c.items + 1 => i = j,
         c.items + 1 \in {n.reasoning, n.message, n.search} \/ \E i \in Tools : n.tools[i].item = c.items + 1,
         \A i \in Tools : c.tools[i].item # 0 => n.tools[i].item = c.tools[i].item,
         c.reasoning # 0 => n.reasoning = c.reasoning, c.message # 0 => n.message = c.message,
         c.search # 0 => n.search = c.search
  PROVE  ChatFitsAt(n, Grown(v, item), stage)
<1> DEFINE w == Grown(v, item)
           new == c.items + 1
<1>1. /\ v \in View /\ v.end = "none" /\ c.items = Len(v.items) /\ c.items \in Nat /\ DOMAIN v.items = 1..c.items
      /\ c.terminal = FALSE
  BY ChatBasics
<1>2. PartsFit(c, v, stage) /\ ToolsFit(c, v, stage) /\ Known(c, v) /\ (v.spoken => c.sawText)
  BY DEF ChatFitsAt
<1>3. /\ w \in View /\ Len(w.items) = new /\ DOMAIN w.items = 1..new /\ w.spoken = v.spoken /\ w.end = v.end
      /\ 1..new = 1..c.items \cup {new} /\ new \notin 1..c.items /\ new # 0
  BY <1>1, GrownView
<1>4. PartsFit(n, w, stage)
  BY <1>1, <1>2, PlacedGrows DEF PartsFit
<1>5. ToolsFit(n, w, stage)
  <2>1. \A i \in Tools : Placed(w, n.tools[i].item, ToolItem(Ended(stage, i, n.left)))
    BY <1>1, <1>2, PlacedGrows DEF ToolsFit
  <2>2. \A i \in Tools : n.tools[i].item # 0 => n.tools[i].seen
    BY <1>2 DEF ToolsFit
  <2>3. \A i \in Tools : n.tools[i].seen /\ Ended(stage, i, n.left) => n.tools[i].item # 0
    BY <1>2, <1>3 DEF ToolsFit
  <2>4. \A i \in Tools : n.tools[i].item # 0 => n.tools[i].item = new
                           \/ (n.tools[i].item = c.tools[i].item /\ n.tools[i].item \in 1..c.items)
    BY <1>1, <1>2 DEF ToolsFit, Placed
  <2>5. \A i, j \in Tools : n.tools[i].item = n.tools[j].item /\ n.tools[i].item # 0 => i = j
    BY <1>2, <1>3, <2>4 DEF ToolsFit
  <2>6. \A i \in Tools : Past(stage) /\ i \in n.left => n.tools[i].seen
    BY <1>2 DEF ToolsFit
  <2> QED
    BY <2>1, <2>2, <2>3, <2>5, <2>6 DEF ToolsFit
<1>6. Known(n, w)
  <2> SUFFICES ASSUME NEW j \in DOMAIN w.items
               PROVE  j \in {n.reasoning, n.message, n.search} \/ \E i \in Tools : n.tools[i].item = j
    BY DEF Known
  <2>1. CASE j = new
    BY <2>1
  <2>2. CASE j # new
    <3>1. j \in DOMAIN v.items /\ j # 0
      BY <1>1, <1>3, <2>2
    <3> QED
      BY <1>2, <3>1 DEF Known
  <2> QED
    BY <2>1, <2>2
<1> HIDE DEF w
<1>7. ChatFitsAt(n, w, stage)
  BY <1>1, <1>2, <1>3, <1>4, <1>5, <1>6 DEF ChatFitsAt
<1> QED
  BY <1>7 DEF w

\* It survives an item's end, with finish further on.
LEMMA ChatTurns ==
  ASSUME NEW c, NEW v, NEW stage, NEW next, ChatFitsAt(c, v, stage), ~c.terminal,
         NEW k \in DOMAIN v.items, NEW item \in Item, NEW n \in ChatState,
         n.reasoning = c.reasoning, n.message = c.message, n.search = c.search, n.tools = c.tools,
         n.items = c.items, n.terminal = c.terminal, n.sawText = c.sawText, n.finishing = Past(next),
         next = "searched" => n.left = {},
         Turns(k, item, c, stage, n.left, next),
         Leaves(c, n.left, next)
  PROVE  ChatFitsAt(n, Turned(v, k, item), next)
<1> DEFINE w == Turned(v, k, item)
<1>1. /\ v \in View /\ v.end = "none" /\ c.items = Len(v.items) /\ DOMAIN v.items = 1..c.items
      /\ c.terminal = FALSE
  BY ChatBasics
<1>2. PartsFit(c, v, stage) /\ ToolsFit(c, v, stage) /\ Known(c, v) /\ (v.spoken => c.sawText)
  BY DEF ChatFitsAt
<1>3. /\ w \in View /\ Len(w.items) = c.items /\ DOMAIN w.items = 1..c.items
      /\ w.spoken = v.spoken /\ w.end = v.end
  <2>2. k \in DOMAIN v.items /\ item \in Item
    OBVIOUS
  <2>1. /\ Turned(v, k, item) \in View /\ Len(Turned(v, k, item).items) = Len(v.items)
        /\ DOMAIN Turned(v, k, item).items = 1..Len(v.items)
        /\ Turned(v, k, item).spoken = v.spoken /\ Turned(v, k, item).end = v.end
    BY <1>1, <2>2, TurnedView
  <2> QED
    BY <1>1, <2>1
<1>4. PartsFit(n, w, next)
  BY <1>1, <1>2, PlacedMoves DEF PartsFit, Turns
<1>5. ToolsFit(n, w, next)
  <2>1. \A i \in Tools : Placed(w, n.tools[i].item, ToolItem(Ended(next, i, n.left)))
    BY <1>1, <1>2, PlacedMoves DEF ToolsFit, Turns
  <2> QED
    BY <1>2, <2>1 DEF ToolsFit, Leaves
<1>6. Known(n, w)
  BY <1>1, <1>2, <1>3 DEF Known
<1> HIDE DEF w
<1>7. ChatFitsAt(n, w, next)
  <2>1. n.finishing = (Past(next) /\ ~n.terminal)
    BY <1>1 DEF Past
  <2> QED
    BY <1>1, <1>2, <1>3, <1>4, <1>5, <1>6, <2>1 DEF ChatFitsAt
<1> QED
  BY <1>7 DEF w
-----------------------------------------------------------------------------
(* What the calls of chatStreamState come to.                              *)

\* appendReasoning.
LEMMA AppendReasoningKeeps ==
  ASSUME NEW c, NEW v, ChatFitsAt(c, v, "open"), ~c.terminal
  PROVE  Keep("open", AppendReasoning(c), v)
<1>1. /\ v \in View /\ v.end = "none" /\ c \in ChatState /\ c.items = Len(v.items) /\ c.items \in Nat
      /\ c.terminal = FALSE /\ DOMAIN v.items = 1..c.items
  BY ChatBasics
<1>2. PartItem("reasoning", FALSE) = Shown("reasoning", "open", FALSE) /\ PartItem("reasoning", FALSE) \in Item
  BY ChatShown
<1>3. CASE c.sawText
  <2>1. Keep("open", Quiet(c), v)
    BY <1>1, KeepsQuiet DEF Fits
  <2> QED
    BY <1>3, <2>1 DEF AppendReasoning
<1>4. ~c.sawText => ~v.spoken
  BY DEF ChatFitsAt
<1>5. CASE ~c.sawText /\ c.reasoning # 0
  <2>1. c.reasoning \in DOMAIN v.items /\ v.items[c.reasoning] = Shown("reasoning", "open", FALSE)
    BY <1>2, <1>5 DEF ChatFitsAt, PartsFit, Placed
  <2>2. Leads(v, <<ThoughtDelta(c.reasoning)>>, v)
    BY <1>1, <1>4, <1>5, <2>1, DeltaLeads
  <2>3. Keep("open", Emits(c, <<ThoughtDelta(c.reasoning)>>), v)
    BY <1>1, <2>2, KeepsOne DEF Fits
  <2> QED
    BY <1>5, <2>3 DEF AppendReasoning
<1>6. CASE ~c.sawText /\ c.reasoning = 0
  <2> DEFINE new == c.items + 1
             item == PartItem("reasoning", FALSE)
             n == [c EXCEPT !.reasoning = c.items + 1, !.items = @ + 1]
             g == Grown(v, item)
             sent == PartBegins(new, "reasoning") \o <<ThoughtDelta(new)>>
  <2>1. AppendReasoning(c) = Emits(n, sent)
    BY <1>6 DEF AppendReasoning
  <2>2. Leads(v, PartBegins(new, "reasoning"), g)
    BY <1>1, <1>2, <1>4, <1>6, PartBeginsLeads
  <2> HIDE DEF item
  <2>3. /\ g \in View /\ g.end = "none" /\ DOMAIN g.items = 1..new /\ g.items[new] = item
        /\ g.spoken = v.spoken /\ new \in 1..new
    <3>1. item \in Item
      BY <1>2 DEF item
    <3>2. new = Len(v.items) + 1 /\ new \in 1..new
      BY <1>1
    <3> QED
      BY <1>1, <3>1, <3>2, GrownView
  <2> HIDE DEF g
  <2>4. Leads(g, <<ThoughtDelta(new)>>, g)
    BY <1>2, <1>4, <1>6, <2>3, DeltaLeads DEF item
  <2>5. Leads(v, sent, g)
    BY <2>2, <2>4, LeadsOn
  <2>6. /\ n \in ChatState /\ n.reasoning = new /\ n.message = c.message /\ n.search = c.search
        /\ n.tools = c.tools /\ n.items = new /\ n.left = c.left /\ n.finishing = c.finishing /\ n.terminal = c.terminal
        /\ n.sawText = c.sawText
    <3>1. n = [c EXCEPT !.reasoning = new, !.items = new] /\ new \in Nat
      BY <1>1 DEF ChatState
    <3> HIDE DEF new, n
    <3> QED
      BY <1>1, <3>1 DEF ChatState
  <2> HIDE DEF n, sent
  <2>7. \A i \in Tools : c.tools[i].item # new
    <3>1. \A i \in Tools : c.tools[i].item = 0 \/ c.tools[i].item \in 1..c.items
      BY <1>1, ChatApart
    <3> QED
      BY <1>1, <3>1
  <2>8. item = PartItem("reasoning", "open" # "open")
    BY DEF item
  <2>9. ChatFitsAt(n, Grown(v, item), "open")
    BY <1>1, <1>2, <1>6, <2>6, <2>7, <2>8, ChatGrows DEF item
  <2>10. Keep("open", Emits(n, sent), v)
    BY <2>3, <2>5, <2>9, KeepsOne DEF Fits, g
  <2> QED
    BY <2>1, <2>10
<1> QED
  BY <1>3, <1>5, <1>6

\* appendText.
LEMMA AppendMessageKeeps ==
  ASSUME NEW c, NEW v, ChatFitsAt(c, v, "open"), ~c.terminal, NEW text \in {"none", "blank", "text"}
  PROVE  Keep("open", AppendMessage(c, text), v)
<1> DEFINE noted == [c EXCEPT !.sawText = @ \/ text = "text"]
<1>1. /\ v \in View /\ v.end = "none" /\ c \in ChatState /\ c.items = Len(v.items) /\ c.items \in Nat
      /\ c.terminal = FALSE /\ DOMAIN v.items = 1..c.items
  BY ChatBasics
<1>2. PartItem("message", FALSE) = Shown("message", "open", FALSE) /\ PartItem("message", FALSE) \in Item
  BY ChatShown
<1>3. CASE text = "none"
  <2>1. Keep("open", Quiet(c), v)
    BY <1>1, KeepsQuiet DEF Fits
  <2> QED
    BY <1>3, <2>1 DEF AppendMessage
<1>4. /\ noted \in ChatState /\ noted.reasoning = c.reasoning /\ noted.message = c.message
      /\ noted.search = c.search /\ noted.tools = c.tools /\ noted.items = c.items
      /\ noted.left = c.left /\ noted.finishing = c.finishing /\ noted.terminal = c.terminal /\ noted.sawText = (c.sawText \/ text = "text")
  BY <1>1 DEF ChatState
<1>5. CASE text # "none" /\ c.message # 0
  <2> DEFINE w == IF text = "blank" THEN v ELSE Told(v)
  <2>1. AppendMessage(c, text) = Emits(noted, <<TextDelta(c.message, text)>>)
    BY <1>5 DEF AppendMessage
  <2> HIDE DEF noted
  <2>2. c.message \in DOMAIN v.items /\ v.items[c.message] = Shown("message", "open", FALSE)
    BY <1>2, <1>5 DEF ChatFitsAt, PartsFit, Placed
  <2>3. Leads(v, <<TextDelta(c.message, text)>>, w)
    BY <1>1, <2>2, DeltaLeads
  <2>4. ChatFitsAt(noted, v, "open")
    BY <1>1, <1>4, ChatSame
  <2>5. ChatFitsAt(noted, w, "open")
    BY <1>4, <1>5, <2>4, ChatTold
  <2>6. w \in View /\ w.end = "none"
    BY <1>1, ViewFields DEF Told
  <2> HIDE DEF w
  <2> QED
    BY <2>1, <2>3, <2>5, <2>6, KeepsOne DEF Fits
<1>6. CASE text # "none" /\ c.message = 0
  <2> DEFINE new == c.items + 1
             item == PartItem("message", FALSE)
             n == [noted EXCEPT !.message = c.items + 1, !.items = @ + 1]
             g == Grown(v, item)
             w == IF text = "blank" THEN g ELSE Told(g)
             sent == PartBegins(new, "message") \o <<TextDelta(new, text)>>
  <2>1. AppendMessage(c, text) = Emits(n, sent)
    BY <1>6 DEF AppendMessage
  <2> HIDE DEF noted
  <2>2. Leads(v, PartBegins(new, "message"), g)
    BY <1>1, <1>2, PartBeginsLeads
  <2> HIDE DEF item
  <2>3. /\ g \in View /\ g.end = "none" /\ DOMAIN g.items = 1..new /\ g.items[new] = item
        /\ new \in 1..new
    <3>1. item \in Item
      BY <1>2 DEF item
    <3>2. new = Len(v.items) + 1 /\ new \in 1..new
      BY <1>1
    <3> QED
      BY <1>1, <3>1, <3>2, GrownView
  <2> HIDE DEF g
  <2>4. Leads(g, <<TextDelta(new, text)>>, w)
    BY <1>2, <2>3, DeltaLeads DEF item
  <2>5. Leads(v, sent, w)
    BY <2>2, <2>4, LeadsOn
  <2>6. /\ n \in ChatState /\ n.message = new /\ n.reasoning = c.reasoning /\ n.search = c.search
        /\ n.tools = c.tools /\ n.items = new /\ n.left = c.left /\ n.finishing = c.finishing /\ n.terminal = c.terminal
        /\ n.sawText = (c.sawText \/ text = "text")
    <3>1. n = [noted EXCEPT !.message = new, !.items = new] /\ new \in Nat
      BY <1>1, <1>4 DEF ChatState
    <3> HIDE DEF new, n
    <3> QED
      BY <1>4, <3>1 DEF ChatState
  <2> HIDE DEF n, sent
  <2>7. \A i \in Tools : c.tools[i].item # new
    <3>1. \A i \in Tools : c.tools[i].item = 0 \/ c.tools[i].item \in 1..c.items
      BY <1>1, ChatApart
    <3> QED
      BY <1>1, <3>1
  <2>8. item = PartItem("message", "open" \notin {"open", "thought"})
    BY DEF item
  <2>9. ChatFitsAt(n, Grown(v, item), "open")
    BY <1>1, <1>2, <1>6, <2>6, <2>7, <2>8, ChatGrows DEF item
  <2>10. ChatFitsAt(n, w, "open")
    BY <1>6, <2>6, <2>9, ChatTold DEF g
  <2>11. w \in View /\ w.end = "none"
    BY <2>3, ViewFields DEF Told
  <2> HIDE DEF w
  <2>12. Keep("open", Emits(n, sent), v)
    BY <2>5, <2>10, <2>11, KeepsOne DEF Fits
  <2> QED
    BY <2>1, <2>12
<1> QED
  BY <1>3, <1>5, <1>6
\* What the splitter makes of content.
LEMMA SplitKeeps ==
  ASSUME NEW c, NEW v, ChatFitsAt(c, v, "open"), ~c.terminal, NEW s \in Splits
  PROVE  Keep("open", Split(c, s), v)
<1> DEFINE h == [c EXCEPT !.held = s.held]
           first == IF s.thought THEN AppendReasoning(h) ELSE Quiet(h)
           F == [q \in first |-> AppendMessage(q.state, s.text)]
<1>1. s.thought \in BOOLEAN /\ s.text \in {"none", "blank", "text"} /\ s.held \in BOOLEAN
  BY DEF Splits
<1>2. /\ h \in ChatState /\ h.reasoning = c.reasoning /\ h.message = c.message /\ h.search = c.search
      /\ h.tools = c.tools /\ h.items = c.items /\ h.left = c.left /\ h.finishing = c.finishing /\ h.terminal = c.terminal
      /\ h.sawText = c.sawText
  BY <1>1 DEF ChatFitsAt, ChatState
<1>3. \A r \in Split(c, s) : \E q \in first :
        r \in IF q.bad THEN {q} ELSE {[x EXCEPT !.out = q.out \o @] : x \in F[q]}
  BY DEF Split, Then
<1> HIDE DEF h
<1>4. ChatFitsAt(h, v, "open") /\ v \in View /\ v.end = "none"
  BY <1>2, ChatSame, ChatBasics
<1>5. Keep("open", first, v)
  <2>1. Keep("open", AppendReasoning(h), v)
    BY <1>2, <1>4, AppendReasoningKeeps
  <2>2. Keep("open", Quiet(h), v)
    BY <1>4, KeepsQuiet DEF Fits
  <2> QED
    BY <2>1, <2>2
<1> HIDE DEF first
<1>6. ASSUME NEW q \in first, NEW u \in View, u.end = "none", Fits("open", q.state, u)
      PROVE  Keep("open", F[q], u)
  <2>1. ChatFitsAt(q.state, u, "open") /\ ~q.state.terminal
    BY <1>6 DEF Fits, ChatFitsAt
  <2> QED
    BY <1>1, <2>1, AppendMessageKeeps
<1> HIDE DEF F
<1> QED
  BY <1>3, <1>5, <1>6, KeepsInTurn

\* What is fed, and what is flushed.
LEMMA SplitsKeep ==
  ASSUME NEW c, NEW v, ChatFitsAt(c, v, "open"), ~c.terminal
  PROVE  /\ \A content : Keep("open", UNION {Split(c, s) : s \in FeedSplits(c, content)}, v)
         /\ Keep("open", FlushThinks(c), v)
<1>1. c.held \in BOOLEAN
  BY DEF ChatFitsAt, ChatState
<1>2. \A content : FeedSplits(c, content) \subseteq Splits
  <2>1. [thought |-> FALSE, text |-> "none", held |-> c.held] \in Splits
    BY <1>1 DEF Splits
  <2> HIDE DEF Splits
  <2> QED
    BY <2>1 DEF FeedSplits
<1>3. FlushSplits(c) \subseteq Splits
  BY DEF FlushSplits
<1>4. \A s \in Splits : Keep("open", Split(c, s), v)
  BY SplitKeeps
<1> QED
  BY <1>2, <1>3, <1>4 DEF Keep, FlushThinks

\* startToolCall, of a call that finish has not passed.
LEMMA StartToolCallKeeps ==
  ASSUME NEW c, NEW v, NEW stage \in {"open", "calls"}, ChatFitsAt(c, v, stage), ~c.terminal,
         NEW i \in Tools, c.tools[i].item = 0, c.tools[i].seen, Past(stage) => i \in c.left
  PROVE  LET n == [c EXCEPT !.tools[i].item = c.items + 1, !.items = @ + 1]
             g == Grown(v, ToolItem(FALSE))
         IN /\ ChatFitsAt(n, g, stage) /\ g \in View /\ g.end = "none" /\ n.terminal = FALSE
            /\ n.tools[i].item = c.items + 1 /\ c.items + 1 \in DOMAIN g.items
            /\ g.items[c.items + 1] = Shown("function_call", "none", FALSE)
            /\ n.tools[i].seen = c.tools[i].seen /\ n.left = c.left /\ n.finishing = c.finishing
            /\ Leads(v, <<Added(c.items + 1, "function_call")>>, g)
<1> DEFINE new == c.items + 1
           n == [c EXCEPT !.tools[i].item = c.items + 1, !.items = @ + 1]
           item == ToolItem(FALSE)
           g == Grown(v, item)
           tool == [c.tools[i] EXCEPT !.item = new]
           tools == [c.tools EXCEPT ![i] = tool]
<1>1. /\ v \in View /\ v.end = "none" /\ c \in ChatState /\ c.items = Len(v.items) /\ c.items \in Nat
      /\ c.terminal = FALSE /\ DOMAIN v.items = 1..c.items
  BY ChatBasics
<1>2. item \in Item /\ item = Shown("function_call", "none", FALSE)
  BY ChatShown DEF ToolItem
<1>3. Leads(v, <<Added(new, "function_call")>>, g)
  <2>1. "function_call" \in Client!ItemType
    BY DEF Client!ItemType
  <2> QED
    BY <1>1, <2>1, AddedLeads DEF ToolItem
<1>4. new \in Nat /\ new = Len(v.items) + 1 /\ new \in 1..new
  BY <1>1
<1>5. n = [c EXCEPT !.tools = tools, !.items = new]
  BY <1>1 DEF ChatState
<1>6. tool \in ToolState /\ tool.item = new /\ tool.seen = c.tools[i].seen
  BY <1>1, <1>4 DEF ChatState, ToolState
<1> HIDE DEF tool
<1>7. /\ tools \in [Tools -> ToolState] /\ tools[i] = tool
      /\ \A j \in Tools : j # i => tools[j] = c.tools[j]
  BY <1>1, <1>6 DEF ChatState
<1> HIDE DEF tools, n, new
<1>8. /\ n \in ChatState /\ n.tools = tools /\ n.items = new /\ n.reasoning = c.reasoning
      /\ n.message = c.message /\ n.search = c.search /\ n.left = c.left /\ n.finishing = c.finishing /\ n.terminal = FALSE
      /\ n.sawText = c.sawText
  BY <1>1, <1>4, <1>5, <1>7 DEF ChatState
<1>9. \A j \in Tools : c.tools[j].item # new
  <2>1. \A j \in Tools : c.tools[j].item = 0 \/ c.tools[j].item \in 1..c.items
    BY <1>1, ChatApart
  <2>2. new # 0 /\ new \notin 1..c.items
    BY <1>1 DEF new
  <2> QED
    BY <2>1, <2>2
<1>10. Ended(stage, i, c.left) = FALSE
  BY DEF Ended
<1> HIDE DEF item
<1>11. /\ g \in View /\ g.end = "none" /\ DOMAIN g.items = 1..new /\ g.items[new] = item
  <2>1. item \in Item
    BY <1>2
  <2>2. /\ g \in View /\ g.end = v.end /\ DOMAIN g.items = 1..(Len(v.items) + 1)
        /\ g.items[Len(v.items) + 1] = item
    BY <1>1, <2>1, GrownView
  <2> HIDE DEF g
  <2> QED
    BY <1>1, <1>4, <2>2
<1>12. ChatFitsAt(n, g, stage)
  <2>1. \A j \in Tools : /\ \/ n.tools[j].item = c.tools[j].item
                            \/ /\ n.tools[j].item = c.items + 1 /\ n.tools[j].seen
                               /\ item = ToolItem(Ended(stage, j, c.left))
                         /\ n.tools[j].seen = c.tools[j].seen
    BY <1>6, <1>7, <1>8, <1>10 DEF item, new
  <2>2. \A j, k \in Tools : n.tools[j].item = c.items + 1 /\ n.tools[k].item = c.items + 1 => j = k
    BY <1>6, <1>7, <1>8, <1>9 DEF new
  <2>3. \E j \in Tools : n.tools[j].item = c.items + 1
    BY <1>6, <1>7, <1>8 DEF new
  <2>4. \A j \in Tools : c.tools[j].item # 0 => n.tools[j].item = c.tools[j].item
    BY <1>6, <1>7, <1>8
  <2>5. n.items = c.items + 1
    BY <1>8 DEF new
  <2>6. /\ n \in ChatState /\ n.left = c.left /\ n.finishing = c.finishing /\ n.terminal = c.terminal /\ (c.sawText => n.sawText)
        /\ n.reasoning = c.reasoning /\ n.message = c.message /\ n.search = c.search
    BY <1>1, <1>8
  <2>7. item \in Item
    BY <1>2
  <2> QED
    BY <2>1, <2>2, <2>3, <2>4, <2>5, <2>6, <2>7, ChatGrows
<1> HIDE DEF g
<1>13. n.tools[i].item = new /\ n.tools[i].seen = c.tools[i].seen /\ new \in DOMAIN g.items
  BY <1>4, <1>6, <1>7, <1>8, <1>11
<1> QED
  BY <1>2, <1>3, <1>8, <1>11, <1>12, <1>13 DEF n, new, g, item
\* Arguments of a call that was announced.
LEMMA ArgumentsKeep ==
  ASSUME NEW c, NEW v, ChatFitsAt(c, v, "open"), ~c.terminal, NEW i \in Tools, c.tools[i].item # 0
  PROVE  Keep("open", ArgumentsOf(c, i), v)
<1>1. v \in View /\ v.end = "none"
  BY ChatBasics
<1>2. c.tools[i].item \in DOMAIN v.items /\ v.items[c.tools[i].item] = ToolItem(Ended("open", i, c.left))
  BY DEF ChatFitsAt, ToolsFit, Placed
<1>3. ToolItem(Ended("open", i, c.left)) = Shown("function_call", "none", FALSE)
  BY DEF ToolItem, Ended, Past
<1>4. Leads(v, <<About("progress", c.tools[i].item)>>, v)
  BY <1>1, <1>2, <1>3, DoneLeads
<1> QED
  BY <1>1, <1>4, KeepsOne DEF ArgumentsOf, Fits

\* appendToolCall.
LEMMA AppendToolCallKeeps ==
  ASSUME NEW c, NEW v, ChatFitsAt(c, v, "open"), ~c.terminal, NEW p \in Piece
  PROVE  Keep("open", AppendToolCall(c, p), v)
<1> DEFINE i == p.index
           t == c.tools[i]
           tool == [t EXCEPT !.name = Joined(t.name, p.name), !.args = @ \/ p.args, !.seen = TRUE]
           n == [c EXCEPT !.tools[i] = tool]
           first == StartToolCall(n, i)
           F == [q \in first |-> ArgumentsOf(q.state, i)]
           later == Then(first, LAMBDA s : ArgumentsOf(s, i))
<1>1. /\ v \in View /\ v.end = "none" /\ c \in ChatState /\ i \in Tools /\ t \in ToolState
      /\ p.name \in {"none", "good", "blank"} /\ p.args \in BOOLEAN
  <2>1. v \in View /\ v.end = "none" /\ c \in ChatState
    BY ChatBasics
  <2>2. i \in Tools /\ p.name \in {"none", "good", "blank"} /\ p.args \in BOOLEAN
    BY DEF Piece
  <2> QED
    BY <2>1, <2>2 DEF ChatState
<1>2. AppendToolCall(c, p) =
        IF t.item = 0 /\ n.tools[i].name # "none" /\ n.tools[i].args THEN later
        ELSE IF p.args /\ t.item # 0 THEN ArgumentsOf(n, i) ELSE Quiet(n)
  BY DEF AppendToolCall
<1>3. tool \in ToolState /\ tool.item = t.item /\ tool.seen = TRUE
  BY <1>1 DEF ToolState, Joined
<1> HIDE DEF tool
<1>4. /\ n \in ChatState /\ n.tools[i] = tool /\ \A j \in Tools : j # i => n.tools[j] = c.tools[j]
      /\ n.reasoning = c.reasoning /\ n.message = c.message /\ n.search = c.search /\ n.items = c.items
      /\ n.left = c.left /\ n.finishing = c.finishing /\ n.terminal = c.terminal /\ n.sawText = c.sawText
  <2> DEFINE tools == [c.tools EXCEPT ![i] = tool]
  <2>1. n = [c EXCEPT !.tools = tools]
    BY <1>1 DEF ChatState
  <2>2. tools \in [Tools -> ToolState] /\ tools[i] = tool /\ \A j \in Tools : j # i => tools[j] = c.tools[j]
    BY <1>1, <1>3 DEF ChatState
  <2> HIDE DEF tools, n
  <2> QED
    BY <1>1, <2>1, <2>2 DEF ChatState
<1> HIDE DEF n
<1>5. ChatFitsAt(n, v, "open")
  <2>1. \A j \in Tools : n.tools[j].item = c.tools[j].item /\ (c.tools[j].seen => n.tools[j].seen)
    BY <1>3, <1>4
  <2>2. ~Past("open")
    BY DEF Past
  <2> QED
    BY <1>4, <2>1, <2>2, ChatSame
<1>6. ~n.terminal
  BY <1>4
<1>7. t.item = 0 => Keep("open", later, v)
  <2> SUFFICES ASSUME t.item = 0
               PROVE  Keep("open", later, v)
    OBVIOUS
  <2> DEFINE k == [n EXCEPT !.tools[i].item = n.items + 1, !.items = @ + 1]
             g == Grown(v, ToolItem(FALSE))
  <2>1. n.tools[i].item = 0 /\ n.tools[i].seen /\ ~Past("open")
    BY <1>3, <1>4 DEF Past
  <2>2. /\ ChatFitsAt(k, g, "open") /\ g \in View /\ g.end = "none" /\ k.terminal = FALSE
        /\ k.tools[i].item = n.items + 1
        /\ Leads(v, <<Added(n.items + 1, "function_call")>>, g)
    <3>1. i \in Tools
      BY <1>1
    <3>2. "open" \in {"open", "calls"}
      OBVIOUS
    <3> HIDE DEF i
    <3> QED
      BY <1>5, <1>6, <2>1, <3>1, <3>2, StartToolCallKeeps
  <2>3. first = IF n.tools[i].name # "good" THEN Fails(n)
                ELSE Emits(k, <<Added(n.items + 1, "function_call")>>)
    BY DEF StartToolCall
  <2> HIDE DEF k, g, first
  <2>4. Keep("open", first, v)
    <3>1. Keep("open", Fails(n), v)
      BY <1>1, KeepsQuiet
    <3>2. Keep("open", Emits(k, <<Added(n.items + 1, "function_call")>>), v)
      BY <2>2, KeepsOne DEF Fits
    <3> QED
      BY <2>3, <3>1, <3>2
  <2>5. \A q \in first : q.bad \/ q.state = k
    <3>1. \A q \in Fails(n) : q.bad
      BY DEF Fails, Outcome
    <3>2. \A q \in Emits(k, <<Added(n.items + 1, "function_call")>>) : q.state = k
      BY DEF Emits, Outcome
    <3> QED
      BY <2>3, <3>1, <3>2
  <2>6. k.tools[i].item # 0
    <3>1. n.items \in Nat
      BY <1>4 DEF ChatState
    <3> QED
      BY <2>2, <3>1
  <2> DEFINE G == [q \in first |-> IF q.bad THEN {} ELSE ArgumentsOf(q.state, i)]
  <2>7. \A r \in later : \E q \in first :
          r \in IF q.bad THEN {q} ELSE {[x EXCEPT !.out = q.out \o @] : x \in G[q]}
    BY DEF Then
  <2>8. ASSUME NEW q \in first, NEW u \in View, u.end = "none", Fits("open", q.state, u)
        PROVE  Keep("open", G[q], u)
    <3>1. CASE q.bad
      BY <3>1 DEF Keep
    <3>2. CASE ~q.bad
      <4>1. ChatFitsAt(k, u, "open") /\ ~k.terminal /\ q.state = k
        BY <2>2, <2>5, <2>8, <3>2 DEF Fits
      <4>2. Keep("open", ArgumentsOf(k, i), u)
        BY <1>1, <2>6, <4>1, ArgumentsKeep
      <4> QED
        BY <3>2, <4>1, <4>2
    <3> QED
      BY <3>1, <3>2
  <2> HIDE DEF G, later
  <2> QED
    BY <2>4, <2>7, <2>8, KeepsInTurn
<1>8. Keep("open", Quiet(n), v)
  BY <1>1, <1>5, KeepsQuiet DEF Fits
<1>9. t.item # 0 => Keep("open", ArgumentsOf(n, i), v)
  BY <1>1, <1>3, <1>4, <1>5, <1>6, ArgumentsKeep
<1> HIDE DEF later, t
<1> QED
  BY <1>2, <1>7, <1>8, <1>9

\* observeSearch.
LEMMA ObserveSearchKeeps ==
  ASSUME NEW c, NEW v, NEW stage \in {"open", "calls"}, ChatFitsAt(c, v, stage), ~c.terminal,
         NEW sign \in BOOLEAN
  PROVE  Keep(stage, ObserveSearch(c, sign), v)
<1> DEFINE n == [c EXCEPT !.urls = @ \/ sign]
<1>1. /\ v \in View /\ v.end = "none" /\ c \in ChatState /\ c.items = Len(v.items) /\ c.items \in Nat
      /\ c.terminal = FALSE /\ DOMAIN v.items = 1..c.items
  BY ChatBasics
<1>2. /\ n \in ChatState /\ n.reasoning = c.reasoning /\ n.message = c.message /\ n.search = c.search
      /\ n.tools = c.tools /\ n.items = c.items /\ n.left = c.left /\ n.finishing = c.finishing /\ n.terminal = FALSE
      /\ n.sawText = c.sawText
  BY <1>1 DEF ChatState
<1>3. CASE ~(sign /\ c.hosted /\ c.search = 0)
  <2>1. ObserveSearch(c, sign) = Quiet(n)
    BY <1>3 DEF ObserveSearch
  <2> HIDE DEF n
  <2>2. ChatFitsAt(n, v, stage)
    BY <1>1, <1>2, ChatSame
  <2>3. stage # "messages"
    OBVIOUS
  <2> QED
    BY <1>1, <2>1, <2>2, <2>3, KeepsQuiet DEF Fits
<1>4. CASE sign /\ c.hosted /\ c.search = 0
  <2> DEFINE new == c.items + 1
             item == CallItem(FALSE)
             s == [n EXCEPT !.search = c.items + 1, !.items = @ + 1]
             g == Grown(v, item)
  <2>1. ObserveSearch(c, sign) = Emits(s, SearchBegins(new))
    BY <1>4 DEF ObserveSearch
  <2> HIDE DEF n
  <2>2. Leads(v, SearchBegins(new), g)
    BY <1>1, SearchLeads DEF CallItem
  <2>3. /\ s \in ChatState /\ s.reasoning = n.reasoning /\ s.message = n.message /\ s.search = new
        /\ s.tools = n.tools /\ s.items = new /\ s.left = n.left /\ s.finishing = n.finishing /\ s.terminal = n.terminal
        /\ s.sawText = n.sawText
    <3>1. s = [n EXCEPT !.search = new, !.items = new] /\ new \in Nat
      BY <1>1, <1>2 DEF ChatState
    <3> HIDE DEF s, new
    <3> QED
      BY <1>2, <3>1 DEF ChatState
  <2> HIDE DEF s
  <2>4. \A i \in Tools : c.tools[i].item # new
    <3>1. \A i \in Tools : c.tools[i].item = 0 \/ c.tools[i].item \in 1..c.items
      BY <1>1, ChatApart
    <3> QED
      BY <1>1, <3>1
  <2>5. item \in Item /\ item = CallItem(stage = "searched")
    BY ChatShown
  <2> HIDE DEF item
  <2>6. g \in View /\ g.end = "none"
    BY <1>1, <2>5, GrownView
  <2>7. /\ s.items = c.items + 1 /\ s.left = c.left /\ s.finishing = c.finishing /\ s.terminal = c.terminal /\ (c.sawText => s.sawText)
        /\ s.reasoning = c.reasoning /\ s.message = c.message /\ s.search = c.items + 1
        /\ s.tools = c.tools
    BY <1>1, <1>2, <2>3
  <2>8. \A i, j \in Tools : s.tools[i].item = c.items + 1 /\ s.tools[j].item = c.items + 1 => i = j
    BY <2>4, <2>7
  <2>9. ChatFitsAt(s, Grown(v, item), stage)
    BY <1>4, <2>3, <2>5, <2>7, <2>8, ChatGrows
  <2>10. stage # "messages"
    OBVIOUS
  <2>11. ChatFitsAt(s, g, stage)
    BY <2>9
  <2> HIDE DEF g
  <2> QED
    BY <2>1, <2>2, <2>6, <2>10, <2>11, KeepsOne DEF Fits
<1> QED
  BY <1>3, <1>4
\* A chunk, part by part.
LEMMA HandleChunkKeeps ==
  ASSUME NEW c, NEW v, ChatFitsAt(c, v, "open"), ~c.terminal, NEW f \in ChatFrame
  PROVE  Keep("open", HandleChunk(c, f), v)
<1> DEFINE b == [c EXCEPT !.sawChunk = TRUE]
           begun == ObserveSearch(b, f.search = "root")
           thought(n) == IF f.thought THEN AppendReasoning(n) ELSE Quiet(n)
           fed(n) == UNION {Split(n, s) : s \in FeedSplits(n, f.content)}
           flushed(n) == IF f.call # NoPiece \/ f.finish THEN FlushThinks(n) ELSE Quiet(n)
           called(n) == IF f.call = NoPiece THEN Quiet(n) ELSE AppendToolCall(n, f.call)
           searched(n) == ObserveSearch([n EXCEPT !.finishReason = @ \/ f.finish], f.search # "none")
           s1 == Then(begun, thought)
           s2 == Then(s1, fed)
           s3 == Then(s2, flushed)
           s4 == Then(s3, called)
           s5 == Then(s4, searched)
<1>1. HandleChunk(c, f) = s5
  BY DEF HandleChunk
<1>2. /\ v \in View /\ v.end = "none" /\ c \in ChatState /\ c.terminal = FALSE
      /\ f.finish \in BOOLEAN /\ f.call \in Piece \cup {NoPiece}
  BY ChatBasics DEF ChatFrame
<1>3. Keep("open", begun, v)
  <2>1. /\ b \in ChatState /\ b.reasoning = c.reasoning /\ b.message = c.message /\ b.search = c.search
        /\ b.tools = c.tools /\ b.items = c.items /\ b.left = c.left /\ b.finishing = c.finishing /\ b.terminal = FALSE
        /\ b.sawText = c.sawText
    BY <1>2 DEF ChatState
  <2> HIDE DEF b
  <2>2. ChatFitsAt(b, v, "open")
    BY <1>2, <2>1, ChatSame
  <2>3. (f.search = "root") \in BOOLEAN
    OBVIOUS
  <2> QED
    BY <2>1, <2>2, <2>3, ObserveSearchKeeps
<1>4. ASSUME NEW n, NEW u \in View, u.end = "none", Fits("open", n, u)
      PROVE  /\ Keep("open", thought(n), u) /\ Keep("open", fed(n), u) /\ Keep("open", flushed(n), u)
             /\ Keep("open", called(n), u) /\ Keep("open", searched(n), u)
  <2>1. ChatFitsAt(n, u, "open") /\ ~n.terminal
    BY <1>4 DEF Fits, ChatFitsAt
  <2>2. Keep("open", Quiet(n), u)
    BY <1>4, KeepsQuiet
  <2>3. Keep("open", thought(n), u)
    BY <2>1, <2>2, AppendReasoningKeeps
  <2>4. Keep("open", fed(n), u)
    BY <2>1, SplitsKeep
  <2>5. Keep("open", flushed(n), u)
    BY <2>1, <2>2, SplitsKeep
  <2>6. Keep("open", called(n), u)
    BY <1>2, <2>1, <2>2, AppendToolCallKeeps
  <2>7. Keep("open", searched(n), u)
    <3> DEFINE m == [n EXCEPT !.finishReason = @ \/ f.finish]
    <3>1. /\ m \in ChatState /\ m.reasoning = n.reasoning /\ m.message = n.message /\ m.search = n.search
          /\ m.tools = n.tools /\ m.items = n.items /\ m.left = n.left /\ m.finishing = n.finishing /\ m.terminal = n.terminal
          /\ m.sawText = n.sawText
      BY <1>2, <2>1 DEF ChatFitsAt, ChatState
    <3> HIDE DEF m
    <3>2. ChatFitsAt(m, u, "open")
      BY <2>1, <3>1, ChatSame
    <3>3. (f.search # "none") \in BOOLEAN
      OBVIOUS
    <3>4. Keep("open", ObserveSearch(m, f.search # "none"), u)
      BY <2>1, <3>1, <3>2, <3>3, ObserveSearchKeeps
    <3> QED
      BY <3>4 DEF m
  <2> QED
    BY <2>3, <2>4, <2>5, <2>6, <2>7
<1> HIDE DEF begun
<1>5. Keep("open", s1, v)
  <2> DEFINE F == [q \in begun |-> thought(q.state)]
  <2>1. \A r \in s1 : \E q \in begun :
          r \in IF q.bad THEN {q} ELSE {[x EXCEPT !.out = q.out \o @] : x \in F[q]}
    BY DEF Then
  <2>2. \A q \in begun : \A u \in View : u.end = "none" /\ Fits("open", q.state, u) => Keep("open", F[q], u)
    BY <1>4
  <2> HIDE DEF F, s1
  <2> QED
    BY <1>3, <2>1, <2>2, KeepsInTurn
<1> HIDE DEF s1
<1>6. Keep("open", s2, v)
  <2> DEFINE F == [q \in s1 |-> fed(q.state)]
  <2>1. \A r \in s2 : \E q \in s1 :
          r \in IF q.bad THEN {q} ELSE {[x EXCEPT !.out = q.out \o @] : x \in F[q]}
    BY DEF Then
  <2>2. \A q \in s1 : \A u \in View : u.end = "none" /\ Fits("open", q.state, u) => Keep("open", F[q], u)
    BY <1>4
  <2> HIDE DEF F, s2
  <2> QED
    BY <1>5, <2>1, <2>2, KeepsInTurn
<1> HIDE DEF s2
<1>7. Keep("open", s3, v)
  <2> DEFINE F == [q \in s2 |-> flushed(q.state)]
  <2>1. \A r \in s3 : \E q \in s2 :
          r \in IF q.bad THEN {q} ELSE {[x EXCEPT !.out = q.out \o @] : x \in F[q]}
    BY DEF Then
  <2>2. \A q \in s2 : \A u \in View : u.end = "none" /\ Fits("open", q.state, u) => Keep("open", F[q], u)
    BY <1>4
  <2> HIDE DEF F, s3
  <2> QED
    BY <1>6, <2>1, <2>2, KeepsInTurn
<1> HIDE DEF s3
<1>8. Keep("open", s4, v)
  <2> DEFINE F == [q \in s3 |-> called(q.state)]
  <2>1. \A r \in s4 : \E q \in s3 :
          r \in IF q.bad THEN {q} ELSE {[x EXCEPT !.out = q.out \o @] : x \in F[q]}
    BY DEF Then
  <2>2. \A q \in s3 : \A u \in View : u.end = "none" /\ Fits("open", q.state, u) => Keep("open", F[q], u)
    BY <1>4
  <2> HIDE DEF F, s4
  <2> QED
    BY <1>7, <2>1, <2>2, KeepsInTurn
<1> HIDE DEF s4
<1>9. Keep("open", s5, v)
  <2> DEFINE F == [q \in s4 |-> searched(q.state)]
  <2>1. \A r \in s5 : \E q \in s4 :
          r \in IF q.bad THEN {q} ELSE {[x EXCEPT !.out = q.out \o @] : x \in F[q]}
    BY DEF Then
  <2>2. \A q \in s4 : \A u \in View : u.end = "none" /\ Fits("open", q.state, u) => Keep("open", F[q], u)
    BY <1>4
  <2> HIDE DEF F, s5
  <2> QED
    BY <1>8, <2>1, <2>2, KeepsInTurn
<1> QED
  BY <1>1, <1>9
\* The end of the reasoning, and of the message.
LEMMA FinishPartKeeps ==
  ASSUME NEW c, NEW v, ~c.terminal
  PROVE  /\ ChatFitsAt(c, v, "open") => Keep("thought", FinishPart(c, c.reasoning), v)
         /\ ChatFitsAt(c, v, "thought") => Keep("told", FinishPart(c, c.message), v)
<1>1. ASSUME ChatFitsAt(c, v, "open")
      PROVE  Keep("thought", FinishPart(c, c.reasoning), v)
  <2>1. v \in View /\ v.end = "none" /\ c \in ChatState /\ c.finishing = FALSE
    BY <1>1, ChatBasics DEF ChatFitsAt, Past
  <2>2. CASE c.reasoning = 0
    <3>1. ChatFitsAt(c, v, "thought")
      BY <1>1, <2>1, <2>2 DEF ChatFitsAt, PartsFit, ToolsFit, Placed, Ended, Past
    <3>2. Keep("thought", Quiet(c), v)
      BY <2>1, <3>1, KeepsQuiet DEF Fits
    <3> QED
      BY <2>2, <3>2 DEF FinishPart
  <2>3. CASE c.reasoning # 0
    <3> DEFINE k == c.reasoning
               item == PartItem("reasoning", TRUE)
               w == Turned(v, k, item)
    <3>1. k \in DOMAIN v.items /\ v.items[k] = PartItem("reasoning", FALSE)
      BY <1>1, <2>3 DEF ChatFitsAt, PartsFit, Placed
    <3>2. /\ item \in Item /\ item = Shown("reasoning", "closed", TRUE)
          /\ PartItem("reasoning", FALSE) = Shown("reasoning", "open", FALSE)
      BY ChatShown
    <3>3. Leads(v, PartEnds(k), w)
      <4>1. "reasoning" \in {"message", "reasoning"}
        OBVIOUS
      <4> HIDE DEF k, item
      <4> QED
        BY <2>1, <3>1, <3>2, <4>1, PartEndsLeads
    <3>4. v.items[k].type = "reasoning"
      BY <1>1, <2>3, ChatApart
    <3>5. /\ c.message # 0 => c.message # k
          /\ c.search # 0 => c.search # k
          /\ \A i \in Tools : c.tools[i].item # 0 => c.tools[i].item # k
      BY <1>1, <3>4, ChatApart
    <3> HIDE DEF item
    <3>6. /\ Moved(k, item, c.reasoning, PartItem("reasoning", FALSE), PartItem("reasoning", TRUE))
          /\ Moved(k, item, c.message, PartItem("message", FALSE), PartItem("message", FALSE))
          /\ Moved(k, item, c.search, CallItem(FALSE), CallItem(FALSE))
          /\ \A i \in Tools : Moved(k, item, c.tools[i].item, ToolItem(Ended("open", i, c.left)),
                                    ToolItem(Ended("thought", i, c.left)))
      BY <3>5 DEF Moved, item, Ended, Past
    <3>7. \A i \in Tools : ~Ended("thought", i, c.left)
      BY DEF Ended, Past
    <3>8. ChatFitsAt(c, w, "thought")
      <4>1. c.finishing = Past("thought")
        <5>1. Past("thought") = FALSE
          BY DEF Past
        <5> QED
          BY <2>1, <5>1
      <4>2. /\ ("open" # "open") = FALSE /\ ("thought" # "open") = TRUE
            /\ ("open" \notin {"open", "thought"}) = FALSE /\ ("thought" \notin {"open", "thought"}) = FALSE
            /\ ("open" = "searched") = FALSE /\ ("thought" = "searched") = FALSE
        OBVIOUS
      <4> HIDE DEF k
      <4> QED
        <5>1. Turns(k, item, c, "open", c.left, "thought")
          BY <3>6, <4>2 DEF Turns
        <5>2. k \in DOMAIN v.items /\ item \in Item
          BY <3>1, <3>2
        <5>3. \A i \in Tools : ~(Past("thought") /\ i \in c.left)
          BY DEF Past
        <5> QED
          BY <1>1, <2>1, <3>7, <4>1, <5>1, <5>2, <5>3, ChatTurns DEF Leaves
    <3>9. w \in View /\ w.end = "none"
      BY <2>1, <3>1, <3>2, TurnedView
    <3> HIDE DEF w, k
    <3>10. Keep("thought", Emits(c, PartEnds(k)), v)
      BY <3>3, <3>8, <3>9, KeepsOne DEF Fits
    <3> QED
      BY <2>3, <3>10 DEF FinishPart, k
  <2> QED
    BY <2>2, <2>3
<1>2. ASSUME ChatFitsAt(c, v, "thought")
      PROVE  Keep("told", FinishPart(c, c.message), v)
  <2>1. v \in View /\ v.end = "none" /\ c \in ChatState /\ c.finishing = FALSE
    BY <1>2, ChatBasics DEF ChatFitsAt, Past
  <2>2. CASE c.message = 0
    <3>1. ChatFitsAt(c, v, "told")
      BY <1>2, <2>1, <2>2 DEF ChatFitsAt, PartsFit, ToolsFit, Placed, Ended, Past
    <3>2. Keep("told", Quiet(c), v)
      BY <2>1, <3>1, KeepsQuiet DEF Fits
    <3> QED
      BY <2>2, <3>2 DEF FinishPart
  <2>3. CASE c.message # 0
    <3> DEFINE k == c.message
               item == PartItem("message", TRUE)
               w == Turned(v, k, item)
    <3>1. k \in DOMAIN v.items /\ v.items[k] = PartItem("message", FALSE)
      BY <1>2, <2>3 DEF ChatFitsAt, PartsFit, Placed
    <3>2. /\ item \in Item /\ item = Shown("message", "closed", TRUE)
          /\ PartItem("message", FALSE) = Shown("message", "open", FALSE)
      BY ChatShown
    <3>3. Leads(v, PartEnds(k), w)
      <4>1. "message" \in {"message", "reasoning"}
        OBVIOUS
      <4> HIDE DEF k, item
      <4> QED
        BY <2>1, <3>1, <3>2, <4>1, PartEndsLeads
    <3>4. v.items[k].type = "message"
      BY <1>2, <2>3, ChatApart
    <3>5. /\ c.reasoning # 0 => c.reasoning # k
          /\ c.search # 0 => c.search # k
          /\ \A i \in Tools : c.tools[i].item # 0 => c.tools[i].item # k
      BY <1>2, <3>4, ChatApart
    <3> HIDE DEF item
    <3>6. /\ Moved(k, item, c.reasoning, PartItem("reasoning", TRUE), PartItem("reasoning", TRUE))
          /\ Moved(k, item, c.message, PartItem("message", FALSE), PartItem("message", TRUE))
          /\ Moved(k, item, c.search, CallItem(FALSE), CallItem(FALSE))
          /\ \A i \in Tools : Moved(k, item, c.tools[i].item, ToolItem(Ended("thought", i, c.left)),
                                    ToolItem(Ended("told", i, c.left)))
      BY <3>5 DEF Moved, item, Ended, Past
    <3>7. \A i \in Tools : ~Ended("told", i, c.left)
      BY DEF Ended, Past
    <3>8. ChatFitsAt(c, w, "told")
      <4>1. c.finishing = Past("told")
        <5>1. Past("told") = FALSE
          BY DEF Past
        <5> QED
          BY <2>1, <5>1
      <4>2. /\ ("thought" # "open") = TRUE /\ ("told" # "open") = TRUE
            /\ ("thought" \notin {"open", "thought"}) = FALSE /\ ("told" \notin {"open", "thought"}) = TRUE
            /\ ("thought" = "searched") = FALSE /\ ("told" = "searched") = FALSE
        OBVIOUS
      <4> HIDE DEF k
      <4> QED
        <5>1. Turns(k, item, c, "thought", c.left, "told")
          BY <3>6, <4>2 DEF Turns
        <5>2. k \in DOMAIN v.items /\ item \in Item
          BY <3>1, <3>2
        <5>3. \A i \in Tools : ~(Past("told") /\ i \in c.left)
          BY DEF Past
        <5> QED
          BY <1>2, <2>1, <3>7, <4>1, <5>1, <5>2, <5>3, ChatTurns DEF Leaves
    <3>9. w \in View /\ w.end = "none"
      BY <2>1, <3>1, <3>2, TurnedView
    <3> HIDE DEF w, k
    <3>10. Keep("told", Emits(c, PartEnds(k)), v)
      BY <3>3, <3>8, <3>9, KeepsOne DEF Fits
    <3> QED
      BY <2>3, <3>10 DEF FinishPart, k
  <2> QED
    BY <2>2, <2>3
<1> QED
  BY <1>1, <1>2
\* finish comes to the calls.
LEMMA ToCallsKeeps ==
  ASSUME NEW c, NEW v, ChatFitsAt(c, v, "told"), ~c.terminal
  PROVE  Keep("calls", ToCalls(c), v)
<1> DEFINE seen == {i \in Tools : c.tools[i].seen}
           n == [c EXCEPT !.finishing = TRUE, !.left = seen]
<1>1. v \in View /\ v.end = "none" /\ c \in ChatState /\ c.terminal = FALSE
  BY ChatBasics
<1>2. seen \subseteq Tools /\ \A i \in Tools : i \in seen <=> c.tools[i].seen
  OBVIOUS
<1>3. ToCalls(c) = Quiet(n)
  BY DEF ToCalls
<1> HIDE DEF seen
<1>4. /\ n \in ChatState /\ n.reasoning = c.reasoning /\ n.message = c.message /\ n.search = c.search
      /\ n.tools = c.tools /\ n.items = c.items /\ n.left = seen /\ n.finishing = TRUE /\ n.terminal = FALSE
      /\ n.sawText = c.sawText
  BY <1>1, <1>2 DEF ChatState
<1> HIDE DEF n
<1>5. PartsFit(n, v, "calls")
  <2>1. /\ ("told" # "open") = ("calls" # "open") /\ ("told" = "searched") = ("calls" = "searched")
        /\ ("told" \notin {"open", "thought"}) = ("calls" \notin {"open", "thought"})
    OBVIOUS
  <2>2. PartsFit(c, v, "told")
    BY DEF ChatFitsAt
  <2> QED
    BY <1>4, <2>1, <2>2 DEF PartsFit
<1>6. ToolsFit(n, v, "calls")
  <2>1. ToolsFit(c, v, "told")
    BY DEF ChatFitsAt
  <2>2. \A i \in Tools : Ended("told", i, c.left) = FALSE
    BY DEF Ended, Past
  <2>3. \A i \in Tools : c.tools[i].seen => Ended("calls", i, n.left) = FALSE
    BY <1>2, <1>4 DEF Ended
  <2>4. \A i \in Tools : Placed(v, n.tools[i].item, ToolItem(Ended("calls", i, n.left)))
    BY <1>4, <2>1, <2>2, <2>3 DEF ToolsFit, Placed
  <2>5. \A i \in Tools : n.tools[i].seen /\ Ended("calls", i, n.left) => n.tools[i].item # 0
    BY <1>4, <2>3
  <2>6. \A i \in Tools : i \in n.left => n.tools[i].seen
    BY <1>2, <1>4
  <2> QED
    BY <1>4, <2>1, <2>4, <2>5, <2>6 DEF ToolsFit
<1>7. Known(n, v)
  BY <1>4 DEF ChatFitsAt, Known
<1>8. n.finishing = (Past("calls") /\ ~n.terminal)
  <2>1. Past("calls") = TRUE
    BY DEF Past
  <2> QED
    BY <1>4, <2>1
<1>9. ChatFitsAt(n, v, "calls")
  BY <1>1, <1>4, <1>5, <1>6, <1>7, <1>8 DEF ChatFitsAt
<1> QED
  BY <1>1, <1>3, <1>9, KeepsQuiet DEF Fits

\* finish, up to its loop.
LEMMA ChatFinishKeeps ==
  ASSUME NEW c, NEW v, ChatFitsAt(c, v, "open"), ~c.terminal
  PROVE  Keep("calls", ChatFinish(c), v)
<1> DEFINE s0 == FlushThinks(c)
           ends(n) == FinishPart(n, n.reasoning)
           tells(n) == FinishPart(n, n.message)
           s1 == Then(s0, ends)
           s2 == Then(s1, tells)
           s3 == Then(s2, ToCalls)
<1>1. v \in View /\ v.end = "none"
  BY ChatBasics
<1>2. CASE ~c.sawChunk
  <2>1. Keep("calls", Fails(c), v)
    BY <1>1, KeepsQuiet
  <2> QED
    BY <1>2, <2>1 DEF ChatFinish
<1>3. ASSUME NEW n, NEW u \in View, u.end = "none"
      PROVE  /\ Fits("open", n, u) => Keep("thought", ends(n), u)
             /\ Fits("thought", n, u) => Keep("told", tells(n), u)
             /\ Fits("told", n, u) => Keep("calls", ToCalls(n), u)
  <2>1. ASSUME NEW stage \in {"open", "thought", "told"}, Fits(stage, n, u)
        PROVE  ChatFitsAt(n, u, stage) /\ ~n.terminal
    BY <1>3, <2>1 DEF Fits, ChatFitsAt
  <2>2. Fits("open", n, u) => Keep("thought", ends(n), u)
    BY <2>1, FinishPartKeeps
  <2>3. Fits("thought", n, u) => Keep("told", tells(n), u)
    BY <2>1, FinishPartKeeps
  <2>4. Fits("told", n, u) => Keep("calls", ToCalls(n), u)
    BY <2>1, ToCallsKeeps
  <2> QED
    BY <2>2, <2>3, <2>4
<1>4. Keep("open", s0, v)
  BY SplitsKeep
<1>5. CASE c.sawChunk
  <2>1. ChatFinish(c) = s3
    BY <1>5 DEF ChatFinish
  <2> HIDE DEF s0
  <2>2. Keep("thought", s1, v)
    <3> DEFINE F == [q \in s0 |-> ends(q.state)]
    <3>1. \A r \in s1 : \E q \in s0 :
            r \in IF q.bad THEN {q} ELSE {[x EXCEPT !.out = q.out \o @] : x \in F[q]}
      BY DEF Then
    <3>2. \A q \in s0 : \A u \in View : u.end = "none" /\ Fits("open", q.state, u) => Keep("thought", F[q], u)
      BY <1>3
    <3> HIDE DEF F, s1
    <3> QED
      BY <1>4, <3>1, <3>2, KeepsInTurn
  <2> HIDE DEF s1
  <2>3. Keep("told", s2, v)
    <3> DEFINE F == [q \in s1 |-> tells(q.state)]
    <3>1. \A r \in s2 : \E q \in s1 :
            r \in IF q.bad THEN {q} ELSE {[x EXCEPT !.out = q.out \o @] : x \in F[q]}
      BY DEF Then
    <3>2. \A q \in s1 : \A u \in View : u.end = "none" /\ Fits("thought", q.state, u) => Keep("told", F[q], u)
      BY <1>3
    <3> HIDE DEF F, s2
    <3> QED
      BY <2>2, <3>1, <3>2, KeepsInTurn
  <2> HIDE DEF s2
  <2>4. Keep("calls", s3, v)
    <3> DEFINE F == [q \in s2 |-> ToCalls(q.state)]
    <3>1. \A r \in s3 : \E q \in s2 :
            r \in IF q.bad THEN {q} ELSE {[x EXCEPT !.out = q.out \o @] : x \in F[q]}
      BY DEF Then
    <3>2. \A q \in s2 : \A u \in View : u.end = "none" /\ Fits("told", q.state, u) => Keep("calls", F[q], u)
      BY <1>3
    <3> HIDE DEF F, s3
    <3> QED
      BY <2>3, <3>1, <3>2, KeepsInTurn
  <2> QED
    BY <2>1, <2>4
<1> QED
  BY <1>2, <1>5

\* What a call comes to, a handler may.
LEMMA ChatKeptComes ==
  ASSUME NEW v, NEW results, NEW stage \in {"open", "calls"}, Keep(stage, results, v)
  PROVE  Comes("chat", results, v)
<1> SUFFICES ASSUME NEW r \in results
             PROVE  ComesBy("chat", r, v)
  BY DEF Comes
<1>1. IsOutcome(r)
  BY DEF Keep, KeptBy
<1>2. PICK w \in View : KeptIn(stage, r, v, w)
  BY DEF Keep, KeptBy
<1>3. Leads(v, r.out, w) /\ w.end = "none" /\ (~r.bad => ChatFitsAt(r.state, w, stage))
  BY <1>2 DEF KeptIn, Fits
<1>4. ASSUME ChatFitsAt(r.state, w, stage)
      PROVE  ChatFit(r.state, w)
  <2>1. (stage = "open" => ~Past(stage)) /\ (stage = "calls" => Past(stage))
    BY DEF Past
  <2>2. r.state.finishing <=> stage = "calls"
    BY <1>3, <1>4, <2>1 DEF ChatFitsAt
  <2> QED
    BY <1>3, <1>4, <2>2 DEF ChatFit
<1> QED
  BY <1>1, <1>3, <1>4 DEF ComesBy, CameTo, Fit
\* The end of a call that was announced, in the loop of finish.
LEMMA ToolEnds ==
  ASSUME NEW c, NEW v, ChatFitsAt(c, v, "calls"), ~c.terminal, NEW i \in Tools, i \in c.left,
         c.tools[i].item # 0
  PROVE  LET k == c.tools[i].item
             n == [c EXCEPT !.left = @ \ {i}]
             w == Turned(v, k, ToolItem(TRUE))
         IN /\ Leads(v, <<About("progress", k)>>, v)
            /\ Leads(v, <<About("progress", k), About("done", k)>>, w)
            /\ w \in View /\ w.end = "none" /\ ChatFitsAt(n, w, "calls")
<1> DEFINE k == c.tools[i].item
           item == ToolItem(TRUE)
           rest == c.left \ {i}
           n == [c EXCEPT !.left = rest]
           w == Turned(v, k, item)
<1>1. v \in View /\ v.end = "none" /\ c \in ChatState /\ c.terminal = FALSE /\ c.finishing = TRUE
  <2>1. Past("calls") = TRUE
    BY DEF Past
  <2> QED
    BY <2>1, ChatBasics DEF ChatFitsAt
<1>2. ToolItem(FALSE) = Shown("function_call", "none", FALSE) /\ item = Shown("function_call", "none", TRUE)
      /\ item \in Item
  BY ChatShown DEF ToolItem
<1>3. k \in DOMAIN v.items /\ v.items[k] = ToolItem(Ended("calls", i, c.left))
  BY DEF ChatFitsAt, ToolsFit, Placed
<1>4. Ended("calls", i, c.left) = FALSE
  BY DEF Ended
<1>5. v.items[k] = Shown("function_call", "none", FALSE) /\ v.items[k].type = "function_call"
  BY <1>2, <1>3, <1>4, ChatApart
<1>6. Leads(v, <<About("progress", k)>>, v) /\ Leads(v, <<About("progress", k), About("done", k)>>, w)
  <2> HIDE DEF k, item
  <2> QED
    BY <1>1, <1>2, <1>3, <1>5, DoneLeads
<1>7. rest \subseteq Tools /\ i \notin rest /\ \A j \in Tools : j # i => (j \in rest <=> j \in c.left)
  BY <1>1 DEF ChatState
<1> HIDE DEF rest
<1>8. /\ n \in ChatState /\ n.reasoning = c.reasoning /\ n.message = c.message /\ n.search = c.search
      /\ n.tools = c.tools /\ n.items = c.items /\ n.left = rest /\ n.finishing = TRUE /\ n.terminal = FALSE
      /\ n.sawText = c.sawText
  BY <1>1, <1>7 DEF ChatState
<1>9. /\ c.reasoning # 0 => c.reasoning # k
      /\ c.message # 0 => c.message # k
      /\ c.search # 0 => c.search # k
  BY <1>5, ChatApart
<1>10. \A j \in Tools : c.tools[j].item # 0 /\ c.tools[j].item = k => j = i
  BY DEF ChatFitsAt, ToolsFit
<1>11. \A j \in Tools : Moved(k, item, c.tools[j].item, ToolItem(Ended("calls", j, c.left)),
                              ToolItem(Ended("calls", j, n.left)))
  <2> SUFFICES ASSUME NEW j \in Tools, c.tools[j].item # 0
               PROVE  IF c.tools[j].item = k THEN item = ToolItem(Ended("calls", j, n.left))
                      ELSE ToolItem(Ended("calls", j, c.left)) = ToolItem(Ended("calls", j, n.left))
    BY DEF Moved
  <2>1. CASE j = i
    <3>1. Ended("calls", j, n.left) = TRUE
      BY <1>7, <1>8, <2>1 DEF Ended, Past
    <3> QED
      BY <2>1, <3>1
  <2>2. CASE j # i
    <3>1. Ended("calls", j, n.left) = Ended("calls", j, c.left)
      BY <1>7, <1>8, <2>2 DEF Ended
    <3> QED
      BY <1>10, <2>2, <3>1
  <2> QED
    BY <2>1, <2>2
<1>12. \A j \in Tools : c.tools[j].seen /\ Ended("calls", j, n.left) => c.tools[j].item # 0
  <2> SUFFICES ASSUME NEW j \in Tools, c.tools[j].seen, Ended("calls", j, n.left), j # i
               PROVE  c.tools[j].item # 0
    OBVIOUS
  <2>1. Ended("calls", j, c.left)
    BY <1>7, <1>8 DEF Ended
  <2> QED
    BY <2>1 DEF ChatFitsAt, ToolsFit
<1>13. w \in View /\ w.end = "none"
  <2>1. item \in Item /\ k \in DOMAIN v.items
    BY <1>2, <1>3
  <2> HIDE DEF k, item
  <2>2. w \in View /\ w.end = v.end
    BY <1>1, <2>1, TurnedView
  <2> QED
    BY <1>1, <2>2
<1> HIDE DEF n, item, k
<1>14. ChatFitsAt(n, w, "calls")
  <2>1. /\ Moved(k, item, c.reasoning, PartItem("reasoning", "calls" # "open"), PartItem("reasoning", "calls" # "open"))
        /\ Moved(k, item, c.message, PartItem("message", "calls" \notin {"open", "thought"}),
                 PartItem("message", "calls" \notin {"open", "thought"}))
        /\ Moved(k, item, c.search, CallItem("calls" = "searched"), CallItem("calls" = "searched"))
    BY <1>9 DEF Moved
  <2>2. n.finishing = Past("calls")
    <3>1. Past("calls") = TRUE
      BY DEF Past
    <3> QED
      BY <1>8, <3>1
  <2>3. /\ k \in DOMAIN v.items /\ item \in Item /\ n.terminal = c.terminal /\ "calls" # "searched"
    BY <1>1, <1>2, <1>3, <1>8
  <2>5. \A j \in Tools : Past("calls") /\ j \in n.left => c.tools[j].seen
    BY <1>7, <1>8 DEF ChatFitsAt, ToolsFit, Past
  <2>4. ChatFitsAt(n, Turned(v, k, item), "calls")
    <3>1. Turns(k, item, c, "calls", n.left, "calls")
      BY <1>11, <2>1 DEF Turns
    <3> QED
      BY <1>8, <1>12, <2>2, <2>3, <2>5, <3>1, ChatTurns DEF Leaves
  <2> QED
    BY <2>4
<1> HIDE DEF w
<1> QED
  BY <1>6, <1>13, <1>14 DEF n, item, k, w, rest

\* What a call that was announced comes to, whatever it was announced with.
LEMMA ToolEndsAfter ==
  ASSUME NEW d, NEW i, NEW v, NEW n, NEW s, NEW u, NEW w \in View, Leads(v, s, u), w.end = "none",
         (IF d.tools[i].item = 0 THEN StartToolCall(d, i) ELSE Quiet(d)) = Emits(n, s),
         Leads(u, <<About("progress", n.tools[i].item)>>, u), u \in View,
         Leads(u, <<About("progress", n.tools[i].item), About("done", n.tools[i].item)>>, w),
         ChatFitsAt(n, w, "calls")
  PROVE  Keep("calls", FinishTool(d, i), v)
<1> DEFINE begun == IF d.tools[i].item = 0 THEN StartToolCall(d, i) ELSE Quiet(d)
           argued(m) == IF d.tools[i].item = 0 /\ d.tools[i].args THEN ArgumentsOf(m, i) ELSE Quiet(m)
           ends == <<About("progress", n.tools[i].item), About("done", n.tools[i].item)>>
           first == Then(begun, argued)
<1> SUFFICES ASSUME NEW r \in FinishTool(d, i)
             PROVE  KeptBy("calls", r, v)
  BY DEF Keep
<1>1. FinishTool(d, i) =
        Then(first, LAMBDA m : Emits(m, <<About("progress", m.tools[i].item), About("done", m.tools[i].item)>>))
  BY DEF FinishTool
<1>2. PICK p \in first :
        r \in IF p.bad THEN {p}
              ELSE {[x EXCEPT !.out = p.out \o @] :
                      x \in Emits(p.state, <<About("progress", p.state.tools[i].item),
                                             About("done", p.state.tools[i].item)>>)}
  <2> HIDE DEF first
  <2> QED
    BY <1>1 DEF Then
<1>3. PICK q \in begun : p \in IF q.bad THEN {q} ELSE {[x EXCEPT !.out = q.out \o @] : x \in argued(q.state)}
  BY DEF Then
<1>4. q.state = n /\ q.out = s /\ q.bad = FALSE
  <2>1. q = Outcome(n, s, FALSE)
    BY <1>3 DEF Emits
  <2> QED
    BY <2>1 DEF Outcome
<1>5. PICK x \in argued(n) : p = Following(q, x)
  BY <1>3, <1>4 DEF Following
<1>6. x.state = n /\ x.bad = FALSE /\ IsOutcome(x) /\ Leads(u, x.out, u)
  <2>1. Leads(u, <<>>, u)
    BY LeadsNowhere
  <2>2. PICK t : x = Outcome(n, t, FALSE) /\ Leads(u, t, u)
    <3>1. x \in Emits(n, <<About("progress", n.tools[i].item)>>) \/ x \in Emits(n, <<>>)
      BY <1>5 DEF ArgumentsOf, Quiet
    <3> QED
      BY <2>1, <3>1 DEF Emits
  <2> QED
    BY <2>2 DEF IsOutcome, Outcome
<1>7. p.state = n /\ p.bad = FALSE /\ Leads(v, p.out, u)
  <2>1. Leads(v, q.out, u)
    BY <1>4
  <2>2. p.state = x.state /\ p.bad = x.bad /\ Leads(v, p.out, u)
    BY <1>5, <1>6, <2>1, Joins
  <2> QED
    BY <1>6, <2>2
<1>8. PICK y \in Emits(n, ends) : r = Following(p, y)
  BY <1>2, <1>7 DEF Following
<1>9. y.state = n /\ y.bad = FALSE /\ IsOutcome(y) /\ Leads(u, y.out, w)
  <2>1. y = Outcome(n, ends, FALSE)
    BY <1>8 DEF Emits
  <2> HIDE DEF ends
  <2>2. y.state = n /\ y.bad = FALSE /\ IsOutcome(y) /\ y.out = ends
    BY <2>1 DEF IsOutcome, Outcome
  <2> QED
    BY <2>2 DEF ends
<1>10. IsOutcome(r) /\ r.state = y.state /\ r.bad = y.bad /\ Leads(v, r.out, w)
  BY <1>7, <1>8, <1>9, Joins
<1> QED
  BY <1>9, <1>10 DEF KeptBy, KeptIn, Fits

\* A call of finish's loop: it is announced now if it was not.
LEMMA FinishToolKeeps ==
  ASSUME NEW c, NEW v, ChatFitsAt(c, v, "calls"), ~c.terminal, NEW i \in Tools, i \in c.left, c.tools[i].seen
  PROVE  Keep("calls", FinishTool([c EXCEPT !.left = @ \ {i}], i), v)
<1> DEFINE rest == c.left \ {i}
           d == [c EXCEPT !.left = rest]
<1>1. v \in View /\ v.end = "none" /\ c \in ChatState /\ c.terminal = FALSE
  BY ChatBasics
<1>2. rest \subseteq Tools
  BY <1>1 DEF ChatState
<1> HIDE DEF rest
<1>3. d \in ChatState /\ d.tools = c.tools /\ d.items = c.items
  BY <1>1, <1>2 DEF ChatState
<1>4. CASE c.tools[i].item # 0
  <2> DEFINE k == c.tools[i].item
             w == Turned(v, k, ToolItem(TRUE))
  <2>1. /\ Leads(v, <<About("progress", k)>>, v) /\ Leads(v, <<About("progress", k), About("done", k)>>, w)
        /\ w \in View /\ w.end = "none" /\ ChatFitsAt(d, w, "calls")
    BY <1>4, ToolEnds DEF rest
  <2> HIDE DEF w, d
  <2>2. Leads(v, <<>>, v)
    BY <1>1, LeadsNowhere
  <2>3. (IF d.tools[i].item = 0 THEN StartToolCall(d, i) ELSE Quiet(d)) = Emits(d, <<>>)
    BY <1>3, <1>4 DEF Quiet
  <2>4. d.tools[i].item = k
    BY <1>3
  <2> HIDE DEF k
  <2>5. Keep("calls", FinishTool(d, i), v)
    BY <1>1, <2>1, <2>2, <2>3, <2>4, ToolEndsAfter
  <2> QED
    BY <2>5 DEF d, rest
<1>5. CASE c.tools[i].item = 0 /\ c.tools[i].name # "good"
  <2> HIDE DEF d
  <2>1. StartToolCall(d, i) = Fails(d)
    BY <1>3, <1>5 DEF StartToolCall
  <2>2. Keep("calls", Fails(d), v)
    BY <1>1, KeepsQuiet
  <2> DEFINE argued(m) == IF d.tools[i].item = 0 /\ d.tools[i].args THEN ArgumentsOf(m, i) ELSE Quiet(m)
             first == Then(Fails(d), argued)
  <2>3. \A r \in FinishTool(d, i) : r \in Fails(d)
    <3>1. \A q \in Fails(d) : q.bad = TRUE
      BY DEF Fails, Outcome
    <3>2. \A p \in first : p \in Fails(d)
      BY <3>1 DEF Then
    <3>3. FinishTool(d, i) =
            Then(first, LAMBDA m : Emits(m, <<About("progress", m.tools[i].item), About("done", m.tools[i].item)>>))
      BY <1>3, <1>5, <2>1 DEF FinishTool
    <3> HIDE DEF first
    <3> QED
      BY <3>1, <3>2, <3>3 DEF Then
  <2>4. Keep("calls", FinishTool(d, i), v)
    BY <2>2, <2>3 DEF Keep
  <2> QED
    BY <2>4 DEF d, rest
<1>6. CASE c.tools[i].item = 0 /\ c.tools[i].name = "good"
  <2> DEFINE k == c.items + 1
             n == [c EXCEPT !.tools[i].item = c.items + 1, !.items = @ + 1]
             m == [n EXCEPT !.left = @ \ {i}]
             u == Grown(v, ToolItem(FALSE))
             w == Turned(u, k, ToolItem(TRUE))
  <2>1. /\ ChatFitsAt(n, u, "calls") /\ u \in View /\ n.terminal = FALSE
        /\ n.tools[i].item = c.items + 1 /\ n.left = c.left
        /\ Leads(v, <<Added(k, "function_call")>>, u)
    <3>1. "calls" \in {"open", "calls"}
      OBVIOUS
    <3>2. c.tools[i].item = 0 /\ c.tools[i].seen /\ (Past("calls") => i \in c.left)
      BY <1>6
    <3>3. c.terminal = FALSE
      BY <1>1
    <3> QED
      BY <3>1, <3>2, <3>3, StartToolCallKeeps
  <2>2. k # 0
    BY <1>1 DEF ChatState
  <2>3. m = [d EXCEPT !.tools[i].item = d.items + 1, !.items = @ + 1]
    <3>1. n = [c EXCEPT !.tools = [c.tools EXCEPT ![i].item = k], !.items = k]
      BY <1>1 DEF ChatState
    <3>2. [d EXCEPT !.tools[i].item = d.items + 1, !.items = @ + 1] = [d EXCEPT !.tools = [c.tools EXCEPT ![i].item = k], !.items = k]
      BY <1>3 DEF ChatState
    <3> DEFINE tools == [c.tools EXCEPT ![i].item = k]
    <3> HIDE DEF tools, k
    <3>3. [n EXCEPT !.left = rest] = [d EXCEPT !.tools = tools, !.items = k]
      <4>1. n = [c EXCEPT !.tools = tools, !.items = k]
        BY <3>1 DEF tools
      <4> HIDE DEF n
      <4> QED
        BY <1>1, <4>1 DEF ChatState
    <3>4. m = [n EXCEPT !.left = rest]
      BY <2>1 DEF rest
    <3> QED
      BY <3>2, <3>3, <3>4 DEF tools
  <2> HIDE DEF n
  <2>4. m.tools = n.tools
    <3>1. n \in ChatState
      BY <2>1 DEF ChatFitsAt
    <3> QED
      BY <3>1 DEF ChatState
  <2>9. n.tools[i].item = k /\ Leads(v, <<Added(k, "function_call")>>, u)
    BY <2>1
  <2> HIDE DEF u, k
  <2>5. /\ Leads(u, <<About("progress", k)>>, u) /\ Leads(u, <<About("progress", k), About("done", k)>>, w)
        /\ w \in View /\ w.end = "none" /\ ChatFitsAt(m, w, "calls")
    BY <2>1, <2>2, <2>9, ToolEnds
  <2> HIDE DEF m, w
  <2>6. (IF d.tools[i].item = 0 THEN StartToolCall(d, i) ELSE Quiet(d)) = Emits(m, <<Added(k, "function_call")>>)
    <3>1. StartToolCall(d, i) = Emits([d EXCEPT !.tools[i].item = d.items + 1, !.items = @ + 1],
                                      <<Added(d.items + 1, "function_call")>>)
      <4> HIDE DEF d
      <4> QED
        BY <1>3, <1>6 DEF StartToolCall
    <3> QED
      BY <1>3, <1>6, <2>3, <3>1 DEF k
  <2> HIDE DEF d
  <2>7. m.tools[i].item = k
    BY <2>4, <2>9
  <2>8. Keep("calls", FinishTool(d, i), v)
    BY <2>1, <2>5, <2>6, <2>7, <2>9, ToolEndsAfter
  <2> QED
    BY <2>8 DEF d, rest
<1> QED
  BY <1>4, <1>5, <1>6
\* The end of the search, after the calls.
LEMMA SearchEndKeeps ==
  ASSUME NEW c, NEW v, ChatFitsAt(c, v, "calls"), ~c.terminal, c.left = {}
  PROVE  Keep("searched", IF c.search = 0 THEN Quiet(c) ELSE Emits(c, SearchEnds(c.search)), v)
<1>1. /\ v \in View /\ v.end = "none" /\ c \in ChatState /\ c.terminal = FALSE
      /\ PartsFit(c, v, "calls") /\ ToolsFit(c, v, "calls") /\ Known(c, v)
  BY ChatBasics DEF ChatFitsAt
<1>2. Past("calls") = TRUE /\ Past("searched") = TRUE
  BY DEF Past
<1>3. c.finishing = TRUE
  BY <1>1, <1>2 DEF ChatFitsAt
<1>4. \A i \in Tools : Ended("calls", i, c.left) = TRUE /\ Ended("searched", i, c.left) = TRUE
  BY <1>2 DEF Ended
<1>5. /\ ("calls" # "open") = ("searched" # "open") /\ ("searched" = "searched") = TRUE /\ ("calls" = "searched") = FALSE
      /\ ("calls" \notin {"open", "thought"}) = ("searched" \notin {"open", "thought"})
  OBVIOUS
<1>6. CASE c.search = 0
  <2>1. PartsFit(c, v, "searched")
    BY <1>1, <1>5, <1>6 DEF PartsFit, Placed
  <2>2. ToolsFit(c, v, "searched")
    BY <1>1, <1>4 DEF ToolsFit
  <2>3. c.finishing = (Past("searched") /\ ~c.terminal)
    BY <1>1, <1>2, <1>3
  <2>4. ChatFitsAt(c, v, "searched")
    BY <1>1, <2>1, <2>2, <2>3 DEF ChatFitsAt
  <2>5. Keep("searched", Quiet(c), v)
    BY <1>1, <2>4, KeepsQuiet DEF Fits
  <2> QED
    BY <1>6, <2>5
<1>7. CASE c.search # 0
  <2> DEFINE k == c.search
             item == CallItem(TRUE)
             w == Turned(v, k, item)
  <2>1. k \in DOMAIN v.items /\ v.items[k] = CallItem(FALSE)
    BY <1>1, <1>5, <1>7 DEF PartsFit, Placed
  <2>2. /\ CallItem(FALSE) = Shown("web_search_call", "none", FALSE) /\ item = Shown("web_search_call", "none", TRUE)
        /\ item \in Item
    BY ChatShown DEF CallItem
  <2>3. Leads(v, SearchEnds(k), w)
    <3> HIDE DEF k, item
    <3> QED
      BY <1>1, <2>1, <2>2, SearchLeads
  <2>4. /\ c.reasoning # 0 => c.reasoning # k
        /\ c.message # 0 => c.message # k
        /\ \A i \in Tools : c.tools[i].item # 0 => c.tools[i].item # k
    BY <1>7, ChatApart
  <2> HIDE DEF item
  <2>5. /\ Moved(k, item, c.reasoning, PartItem("reasoning", "calls" # "open"), PartItem("reasoning", "searched" # "open"))
        /\ Moved(k, item, c.message, PartItem("message", "calls" \notin {"open", "thought"}),
                 PartItem("message", "searched" \notin {"open", "thought"}))
        /\ \A i \in Tools : Moved(k, item, c.tools[i].item, ToolItem(Ended("calls", i, c.left)),
                                  ToolItem(Ended("searched", i, c.left)))
    BY <1>4, <1>5, <2>4 DEF Moved
  <2>6. Moved(k, item, c.search, CallItem(FALSE), CallItem(TRUE))
    BY DEF Moved, item
  <2>7. \A i \in Tools : c.tools[i].seen /\ Ended("searched", i, c.left) => c.tools[i].item # 0
    BY <1>1, <1>4 DEF ToolsFit
  <2>8. c.finishing = Past("searched") /\ item \in Item
    BY <1>2, <1>3, <2>2
  <2>12. \A i \in Tools : Past("searched") /\ i \in c.left => c.tools[i].seen
    OBVIOUS
  <2> HIDE DEF k
  <2>9. ChatFitsAt(c, w, "searched")
    <3>1. k \in DOMAIN v.items /\ item \in Item /\ c \in ChatState
      BY <1>1, <2>1, <2>8
    <3>3. Turns(k, item, c, "calls", c.left, "searched")
      BY <1>5, <2>5, <2>6 DEF Turns
    <3>2. ChatFitsAt(c, Turned(v, k, item), "searched")
      BY <2>7, <2>8, <2>12, <3>1, <3>3, ChatTurns DEF Leaves
    <3> QED
      BY <3>2
  <2>10. w \in View /\ w.end = "none"
    <3>1. w \in View /\ w.end = v.end
      BY <1>1, <2>1, <2>8, TurnedView
    <3> QED
      BY <1>1, <3>1
  <2> HIDE DEF w
  <2>11. Keep("searched", Emits(c, SearchEnds(k)), v)
    BY <2>3, <2>9, <2>10, KeepsOne DEF Fits
  <2> QED
    BY <1>7, <2>11 DEF k
<1> QED
  BY <1>6, <1>7

\* When reasoning, message, calls and search are done, all items are.
LEMMA ConcludeChatFits ==
  ASSUME NEW c, NEW v, ChatFitsAt(c, v, "searched"), ~c.terminal, NEW r \in ConcludeChat(c)
  PROVE  IsOutcome(r) /\ \E w \in View : CameTo("chat", r, v, w)
<1> DEFINE n == [c EXCEPT !.terminal = TRUE, !.finishing = FALSE]
           w == [items |-> v.items, spoken |-> v.spoken, end |-> "terminal"]
<1>1. /\ v \in View /\ v.end = "none" /\ c \in ChatState /\ c.items = Len(v.items) /\ DOMAIN v.items = 1..c.items
      /\ PartsFit(c, v, "searched") /\ ToolsFit(c, v, "searched") /\ Known(c, v) /\ (v.spoken => c.sawText)
      /\ c.left = {}
  BY ChatBasics DEF ChatFitsAt
<1>2. \A j \in DOMAIN v.items : v.items[j].done
  <2> SUFFICES ASSUME NEW j \in DOMAIN v.items
               PROVE  v.items[j].done = TRUE
    OBVIOUS
  <2>1. j # 0
    BY <1>1
  <2>2. /\ ("searched" # "open") = TRUE /\ ("searched" \notin {"open", "thought"}) = TRUE
        /\ ("searched" = "searched") = TRUE
    OBVIOUS
  <2>3. /\ PartItem("reasoning", TRUE).done = TRUE /\ PartItem("message", TRUE).done = TRUE
        /\ CallItem(TRUE).done = TRUE /\ ToolItem(TRUE).done = TRUE
    BY ChatShown
  <2>4. CASE j \in {c.reasoning, c.message, c.search}
    BY <1>1, <2>1, <2>2, <2>3, <2>4 DEF PartsFit, Placed
  <2>5. CASE \E i \in Tools : c.tools[i].item = j
    <3>1. PICK i \in Tools : c.tools[i].item = j
      BY <2>5
    <3>2. Ended("searched", i, c.left) = TRUE
      BY <1>1 DEF Ended, Past
    <3> QED
      BY <1>1, <2>1, <2>3, <3>1, <3>2 DEF ToolsFit, Placed
  <2> QED
    BY <1>1, <2>4, <2>5 DEF Known
<1>3. r = Outcome(n, <<Terminal>>, FALSE)
  BY DEF ConcludeChat, Emits
<1>4. Leads(v, <<Terminal>>, w) /\ w \in View
  BY <1>1, <1>2, PlainLeads DEF Terminal
<1>5. /\ n \in ChatState /\ n.reasoning = c.reasoning /\ n.message = c.message /\ n.search = c.search
      /\ n.tools = c.tools /\ n.items = c.items /\ n.left = {} /\ n.finishing = FALSE /\ n.terminal = TRUE
      /\ n.sawText = c.sawText
  BY <1>1 DEF ChatState
<1> HIDE DEF n
<1>6. w.items = v.items /\ w.spoken = v.spoken /\ w.end = "terminal"
  OBVIOUS
<1> HIDE DEF w
<1>7. PartsFit(n, w, "searched") /\ ToolsFit(n, w, "searched") /\ Known(n, w)
  <2>1. PartsFit(n, w, "searched")
    BY <1>1, <1>5, <1>6 DEF PartsFit, Placed
  <2>2. \A i \in Tools : Placed(w, n.tools[i].item, ToolItem(Ended("searched", i, n.left)))
    BY <1>1, <1>5, <1>6 DEF ToolsFit, Placed
  <2>3. ToolsFit(n, w, "searched")
    BY <1>1, <1>5, <2>2 DEF ToolsFit
  <2>4. Known(n, w)
    BY <1>1, <1>5, <1>6 DEF Known
  <2> QED
    BY <2>1, <2>3, <2>4
<1>8. ChatFitsAt(n, w, "searched")
  <2>1. n.finishing = (Past("searched") /\ ~n.terminal)
    BY <1>5
  <2> QED
    BY <1>1, <1>4, <1>5, <1>6, <1>7, <2>1 DEF ChatFitsAt
<1>9. ChatFit(n, w)
  BY <1>5, <1>6, <1>8 DEF ChatFit
<1>10. r.state = n /\ r.out = <<Terminal>> /\ r.bad = FALSE /\ IsOutcome(r)
  BY <1>3 DEF IsOutcome, Outcome
<1> QED
  BY <1>4, <1>9, <1>10 DEF CameTo, Fit

\* One turn of finish: a call, or the search and the end.
LEMMA ChatFinishTurnComes ==
  ASSUME NEW c, NEW v, ChatFitsAt(c, v, "calls"), ~c.terminal
  PROVE  Comes("chat", ChatFinishTurn(c), v)
<1>1. v \in View /\ v.end = "none" /\ c \in ChatState /\ c.terminal = FALSE
  BY ChatBasics
<1>2. CASE c.left # {}
  <2>1. c.left \in SUBSET Nat /\ c.left \subseteq Tools
    BY <1>1, TranslatedAssumption DEF ChatState
  <2>2. PICK i : i = Min(c.left) /\ i \in c.left /\ i \in Tools
    BY <1>2, <2>1, MinIsLeast
  <2>3. ChatFinishTurn(c) = FinishTool([c EXCEPT !.left = @ \ {i}], i)
    BY <1>2, <2>2 DEF ChatFinishTurn
  <2>4. CASE c.tools[i].seen
    BY <2>2, <2>3, <2>4, FinishToolKeeps, ChatKeptComes
  <2>5. c.tools[i].seen
    BY <2>2 DEF ChatFitsAt, ToolsFit, Past
  <2> QED
    BY <2>4, <2>5
<1>3. CASE c.left = {}
  <2> DEFINE s0 == ObserveSearch(c, c.urls)
             ends(n) == IF n.search = 0 THEN Quiet(n) ELSE Emits(n, SearchEnds(n.search))
             s1 == Then(s0, ends)
  <2>1. ChatFinishTurn(c) = Then(s1, ConcludeChat)
    BY <1>3 DEF ChatFinishTurn, FinishSearch
  <2>2. Keep("calls", s0, v)
    <3>1. c.urls \in BOOLEAN /\ "calls" \in {"open", "calls"}
      BY <1>1 DEF ChatState
    <3> QED
      BY <1>1, <3>1, ObserveSearchKeeps
  <2>3. \A q \in s0 : q.state.left = {}
    <3> DEFINE n == [c EXCEPT !.urls = @ \/ c.urls]
               m == [n EXCEPT !.search = c.items + 1, !.items = @ + 1]
    <3>1. \A q \in s0 : q.state = n \/ q.state = m
      BY DEF ObserveSearch, Quiet, Emits, Outcome
    <3>2. n.left = {} /\ m.left = {}
      BY <1>1, <1>3 DEF ChatState
    <3> QED
      BY <3>1, <3>2
  <2> HIDE DEF s0
  <2>4. Keep("searched", s1, v)
    <3> DEFINE F == [q \in s0 |-> ends(q.state)]
    <3>1. \A r \in s1 : \E q \in s0 :
            r \in IF q.bad THEN {q} ELSE {[x EXCEPT !.out = q.out \o @] : x \in F[q]}
      BY DEF Then
    <3>2. ASSUME NEW q \in s0, NEW u \in View, u.end = "none", Fits("calls", q.state, u)
          PROVE  Keep("searched", F[q], u)
      <4>1. ChatFitsAt(q.state, u, "calls") /\ ~q.state.terminal
        BY <3>2 DEF Fits, ChatFitsAt
      <4> QED
        BY <2>3, <4>1, SearchEndKeeps
    <3>3. \A q \in s0 : \A u \in View : u.end = "none" /\ Fits("calls", q.state, u) => Keep("searched", F[q], u)
      BY <3>2
    <3> HIDE DEF F, s1
    <3> QED
      BY <2>2, <3>1, <3>3, KeepsInTurn
  <2> HIDE DEF s1
  <2> SUFFICES ASSUME NEW r \in ChatFinishTurn(c)
               PROVE  ComesBy("chat", r, v)
    BY DEF Comes
  <2>5. PICK q \in s1 : r \in IF q.bad THEN {q} ELSE {[x EXCEPT !.out = q.out \o @] : x \in ConcludeChat(q.state)}
    BY <2>1 DEF Then
  <2>6. IsOutcome(q)
    BY <2>4 DEF Keep, KeptBy
  <2>7. PICK u \in View : KeptIn("searched", q, v, u)
    BY <2>4 DEF Keep, KeptBy
  <2>8. Leads(v, q.out, u) /\ u.end = "none" /\ (~q.bad => ChatFitsAt(q.state, u, "searched"))
    BY <2>7 DEF KeptIn, Fits
  <2>9. CASE q.bad
    <3>1. r = q
      BY <2>5, <2>9
    <3> QED
      BY <2>6, <2>8, <2>9, <3>1 DEF ComesBy, CameTo
  <2>10. CASE ~q.bad
    <3>1. PICK x \in ConcludeChat(q.state) : r = Following(q, x)
      BY <2>5, <2>10 DEF Following
    <3>2. ChatFitsAt(q.state, u, "searched") /\ ~q.state.terminal
      BY <2>8, <2>10 DEF ChatFitsAt
    <3>3. IsOutcome(x)
      BY <3>2, ConcludeChatFits
    <3>4. PICK w \in View : CameTo("chat", x, u, w)
      BY <3>2, ConcludeChatFits
    <3>5. Leads(v, q.out, u) /\ Leads(u, x.out, w)
      BY <2>8, <3>4 DEF CameTo
    <3>6. IsOutcome(r) /\ r.state = x.state /\ r.bad = x.bad /\ Leads(v, r.out, w)
      BY <3>1, <3>3, <3>5, Joins
    <3> QED
      BY <3>4, <3>6 DEF CameTo, ComesBy
  <2> QED
    BY <2>9, <2>10
<1> QED
  BY <1>2, <1>3
\* A frame of the Chat Completions protocol.
LEMMA HandleChatComes ==
  ASSUME NEW c, NEW v, ChatFitsAt(c, v, "open"), ~c.terminal, NEW f \in ChatFrame
  PROVE  Comes("chat", HandleChat(c, f), v)
<1>1. /\ v \in View /\ v.end = "none" /\ c \in ChatState /\ c.terminal = FALSE
      /\ PartsFit(c, v, "open") /\ ToolsFit(c, v, "open") /\ Known(c, v) /\ c.items = Len(v.items)
      /\ (v.spoken => c.sawText)
  BY ChatBasics DEF ChatFitsAt
<1>2. CASE f.type = "done"
  <2>1. Keep("calls", ChatFinish(c), v)
    BY ChatFinishKeeps
  <2> QED
    BY <1>2, <2>1, ChatKeptComes DEF HandleChat
<1>3. CASE f.type = "garbled"
  <2>1. Keep("open", Fails(c), v)
    BY <1>1, KeepsQuiet
  <2> QED
    BY <1>3, <2>1, ChatKeptComes DEF HandleChat
<1>4. CASE f.type = "chunk"
  <2>1. Keep("open", HandleChunk(c, f), v)
    BY HandleChunkKeeps
  <2> QED
    BY <1>4, <2>1, ChatKeptComes DEF HandleChat
<1>5. CASE f.type = "error"
  <2> DEFINE n == [c EXCEPT !.terminal = TRUE]
             w == [items |-> v.items, spoken |-> v.spoken, end |-> "error"]
  <2>1. HandleChat(c, f) = Emits(n, <<ErrorEvent>>)
    BY <1>5 DEF HandleChat
  <2>2. Leads(v, <<ErrorEvent>>, w) /\ w \in View
    BY <1>1, PlainLeads DEF ErrorEvent
  <2>3. /\ n \in ChatState /\ n.reasoning = c.reasoning /\ n.message = c.message /\ n.search = c.search
        /\ n.tools = c.tools /\ n.items = c.items /\ n.left = c.left /\ n.finishing = c.finishing /\ n.terminal = TRUE
        /\ n.sawText = c.sawText
    BY <1>1 DEF ChatState
  <2>4. w.items = v.items /\ w.spoken = v.spoken /\ w.end = "error"
    OBVIOUS
  <2> HIDE DEF n, w
  <2>5. c.finishing = FALSE /\ Past("open") = FALSE
    <3>1. Past("open") = FALSE
      BY DEF Past
    <3>2. c.finishing = (Past("open") /\ ~c.terminal)
      BY DEF ChatFitsAt
    <3> QED
      BY <3>1, <3>2
  <2>6. PartsFit(n, w, "open") /\ ToolsFit(n, w, "open") /\ Known(n, w)
    <3>1. PartsFit(n, w, "open")
      BY <1>1, <2>3, <2>4 DEF PartsFit, Placed
    <3>2. \A i \in Tools : Placed(w, n.tools[i].item, ToolItem(Ended("open", i, n.left)))
      BY <1>1, <2>3, <2>4 DEF ToolsFit, Placed
    <3>3. ToolsFit(n, w, "open")
      BY <1>1, <2>3, <3>2 DEF ToolsFit
    <3>4. Known(n, w)
      BY <1>1, <2>3, <2>4 DEF Known
    <3> QED
      BY <3>1, <3>3, <3>4
  <2>7. ChatFitsAt(n, w, "open")
    <3>1. n.finishing = (Past("open") /\ ~n.terminal)
      BY <2>3, <2>5
    <3> QED
      BY <1>1, <2>2, <2>3, <2>4, <2>6, <3>1 DEF ChatFitsAt
  <2>8. ChatFit(n, w)
    BY <2>3, <2>4, <2>5, <2>7 DEF ChatFit
  <2> SUFFICES ASSUME NEW r \in Emits(n, <<ErrorEvent>>)
               PROVE  ComesBy("chat", r, v)
    BY <2>1 DEF Comes
  <2>9. r = Outcome(n, <<ErrorEvent>>, FALSE)
    BY DEF Emits
  <2>10. r.state = n /\ r.out = <<ErrorEvent>> /\ r.bad = FALSE /\ IsOutcome(r)
    BY <2>9 DEF IsOutcome, Outcome
  <2> QED
    BY <2>2, <2>8, <2>10 DEF ComesBy, CameTo, Fit
<1> QED
  BY <1>2, <1>3, <1>4, <1>5 DEF ChatFrame
-----------------------------------------------------------------------------
(* Counting the items of a buffered answer.                                *)

\* Items put in a row.
LEMMA CountJoined ==
  ASSUME NEW S, NEW s \in Seq(S), NEW t \in Seq(S), NEW type
  PROVE  Count(s \o t, type) = Count(s, type) + Count(t, type) /\ Count(s, type) \in Nat
<1> DEFINE m == Len(s)
           n == Len(t)
           A == Those(s, type)
           B == Those(t, type)
           C == Those(s \o t, type)
           D == C \ A
           f == [j \in B |-> m + j]
<1>1. m \in Nat /\ n \in Nat /\ DOMAIN s = 1..m /\ DOMAIN t = 1..n
  BY LenProperties
<1>2. /\ s \o t \in Seq(S) /\ Len(s \o t) = m + n
      /\ \A i \in 1..(m + n) : (s \o t)[i] = IF i <= m THEN s[i] ELSE t[i - m]
  BY ConcatProperties
<1>3. DOMAIN (s \o t) = 1..(m + n)
  BY <1>2, LenProperties
<1>4. /\ A \subseteq 1..m /\ B \subseteq 1..n
      /\ IsFiniteSet(A) /\ IsFiniteSet(B) /\ Cardinality(A) \in Nat /\ Cardinality(B) \in Nat
  <2>1. A \subseteq 1..m /\ B \subseteq 1..n
    BY <1>1 DEF Those
  <2>2. IsFiniteSet(1..m) /\ IsFiniteSet(1..n)
    BY <1>1, FS_Interval
  <2> HIDE DEF A, B
  <2>3. IsFiniteSet(A) /\ IsFiniteSet(B)
    BY <2>1, <2>2, FS_Subset
  <2> QED
    BY <2>1, <2>3, FS_CardinalityType
<1>5. \A i : i \in A <=> i \in 1..m /\ s[i] = type
  BY <1>1 DEF Those
<1>6. \A j : j \in B <=> j \in 1..n /\ t[j] = type
  BY <1>1 DEF Those
<1>7. \A i : i \in C <=> i \in 1..(m + n) /\ (s \o t)[i] = type
  BY <1>3 DEF Those
<1> HIDE DEF A, B, C
<1>8. A \subseteq C
  BY <1>1, <1>2, <1>5, <1>7
<1>9. \A i : i \in D <=> i \in (m + 1)..(m + n) /\ i - m \in B
  <2> SUFFICES ASSUME NEW i
               PROVE  i \in C \ A <=> i \in (m + 1)..(m + n) /\ i - m \in B
    OBVIOUS
  <2>1. CASE i \in 1..m
    <3>1. i \in C <=> i \in A
      BY <1>1, <1>2, <1>5, <1>7, <2>1
    <3> QED
      BY <1>1, <2>1, <3>1
  <2>2. CASE i \in (m + 1)..(m + n)
    <3>1. i \in 1..(m + n) /\ ~(i <= m) /\ i - m \in 1..n /\ i \notin 1..m
      BY <1>1, <2>2
    <3> QED
      BY <1>2, <1>5, <1>6, <1>7, <2>2, <3>1
  <2>3. CASE i \notin 1..m /\ i \notin (m + 1)..(m + n)
    <3>1. i \notin 1..(m + n)
      BY <1>1, <2>3
    <3> QED
      BY <1>7, <2>3, <3>1
  <2> QED
    BY <2>1, <2>2, <2>3
<1> HIDE DEF D
<1>10. f \in Bijection(B, D)
  <2>1. \A j \in B : j \in Nat /\ j \in 1..n
    BY <1>1, <1>4
  <2>2. f \in [B -> D]
    <3>1. \A j \in B : m + j \in (m + 1)..(m + n) /\ (m + j) - m = j
      BY <1>1, <2>1
    <3> QED
      BY <1>9, <3>1
  <2>3. \A a, b \in B : f[a] = f[b] => a = b
    BY <1>1, <2>1
  <2>4. \A i \in D : \E j \in B : f[j] = i
    <3> SUFFICES ASSUME NEW i \in D
                 PROVE  \E j \in B : f[j] = i
      OBVIOUS
    <3>1. i - m \in B /\ m + (i - m) = i
      BY <1>1, <1>9
    <3> QED
      BY <3>1
  <2> HIDE DEF f
  <2> QED
    BY <2>2, <2>3, <2>4 DEF Bijection, Injection, Surjection, IsInjective
<1>11. IsFiniteSet(D) /\ Cardinality(D) = Cardinality(B)
  BY <1>4, <1>10, FS_Bijection DEF ExistsBijection
<1>12. C = A \cup D /\ A \cap D = {}
  <2>1. A \cap D = {}
    BY DEF D
  <2> QED
    BY <1>8, <2>1 DEF D
<1>13. Cardinality(C) = Cardinality(A) + Cardinality(D) - Cardinality(A \cap D)
  BY <1>4, <1>11, <1>12, FS_Union
<1>14. Cardinality(A \cap D) = 0
  BY <1>12, FS_EmptySet
<1>15. Cardinality(C) = Cardinality(A) + Cardinality(B)
  BY <1>4, <1>11, <1>13, <1>14
<1> QED
  BY <1>4, <1>15 DEF Count, A, B, C
\* No items, and one.
LEMMA CountFew ==
  ASSUME NEW x, NEW type
  PROVE  Count(<<>>, type) = 0 /\ Count(<<x>>, type) = IF x = type THEN 1 ELSE 0
<1>1. Those(<<>>, type) = {}
  BY DEF Those
<1>2. Those(<<x>>, type) = IF x = type THEN {1} ELSE {}
  <2> DEFINE s == <<x>>
  <2>1. DOMAIN s = {1} /\ s[1] = x
    OBVIOUS
  <2> HIDE DEF s
  <2>2. Those(s, type) = IF x = type THEN {1} ELSE {}
    BY <2>1 DEF Those
  <2> QED
    BY <2>2 DEF s
<1>3. Cardinality({}) = 0 /\ Cardinality({1}) = 1
  BY FS_EmptySet, FS_Singleton
<1> QED
  BY <1>1, <1>2, <1>3 DEF Count

\* An item appended.
LEMMA CountAppended ==
  ASSUME NEW S, NEW s \in Seq(S), NEW x \in S, NEW type
  PROVE  Count(Append(s, x), type) = Count(s, type) + (IF x = type THEN 1 ELSE 0)
<1>1. Append(s, x) = s \o <<x>> /\ <<x>> \in Seq(S)
  BY AppendIsConcat
<1>2. Count(s \o <<x>>, type) = Count(s, type) + Count(<<x>>, type)
  BY <1>1, CountJoined
<1> QED
  BY <1>1, <1>2, CountFew

\* Copies of one item.
LEMMA CountCopies ==
  ASSUME NEW n \in Nat, NEW x, NEW type
  PROVE  Count([i \in 1..n |-> x], type) = IF x = type THEN n ELSE 0
<1> DEFINE s == [i \in 1..n |-> x]
<1>1. Those(s, type) = IF x = type THEN 1..n ELSE {}
  BY DEF Those
<1>2. Cardinality(1..n) = n /\ Cardinality({}) = 0
  <2>1. Cardinality(1..n) = IF 1 > n THEN 0 ELSE n - 1 + 1
    BY FS_Interval
  <2> QED
    BY <2>1, FS_EmptySet
<1> QED
  BY <1>1, <1>2 DEF Count

\* An item put between others.
LEMMA CountInserted ==
  ASSUME NEW S, NEW s \in Seq(S), NEW x \in S, NEW p \in 1..(Len(s) + 1), NEW type
  PROVE  /\ InsertAt(s, p, x) \in Seq(S) /\ Len(InsertAt(s, p, x)) = Len(s) + 1
         /\ \A i \in 1..(Len(s) + 1) :
              InsertAt(s, p, x)[i] = IF i < p THEN s[i] ELSE IF i = p THEN x ELSE s[i - 1]
         /\ Count(InsertAt(s, p, x), type) = Count(s, type) + (IF x = type THEN 1 ELSE 0)
<1> DEFINE n == Len(s)
           a == SubSeq(s, 1, p - 1)
           b == <<x>>
           c == SubSeq(s, p, n)
<1>1. n \in Nat /\ DOMAIN s = 1..n /\ \A i \in 1..n : s[i] \in S
  BY LenProperties, ElementOfSeq
<1>2. /\ a \in Seq(S) /\ Len(a) = p - 1 /\ \A i \in 1..(p - 1) : a[i] = s[i]
  <2>1. 1 \in Int /\ p - 1 \in Int /\ \A i \in 1..(p - 1) : s[i] \in S
    BY <1>1
  <2>2. /\ a \in Seq(S) /\ Len(a) = (IF 1 <= p - 1 THEN (p - 1) - 1 + 1 ELSE 0)
        /\ \A i \in 1..((p - 1) - 1 + 1) : a[i] = s[1 + i - 1]
    BY <2>1, SubSeqProperties
  <2> HIDE DEF a
  <2> QED
    BY <1>1, <2>2
<1>3. /\ c \in Seq(S) /\ Len(c) = n - p + 1 /\ \A i \in 1..(n - p + 1) : c[i] = s[p + i - 1]
  <2>1. p \in Int /\ n \in Int /\ \A i \in p..n : s[i] \in S
    BY <1>1
  <2>2. /\ c \in Seq(S) /\ Len(c) = (IF p <= n THEN n - p + 1 ELSE 0)
        /\ \A i \in 1..(n - p + 1) : c[i] = s[p + i - 1]
    BY <2>1, SubSeqProperties
  <2> HIDE DEF c
  <2> QED
    BY <1>1, <2>2
<1>4. b \in Seq(S) /\ Len(b) = 1 /\ b[1] = x
  OBVIOUS
<1>5. a \o c = s
  <2>1. 1 \in 1..(n + 1) /\ p - 1 \in (1 - 1)..n /\ n \in (p - 1)..n /\ (p - 1) + 1 = p
    BY <1>1
  <2>2. SubSeq(s, 1, p - 1) \o SubSeq(s, (p - 1) + 1, n) = SubSeq(s, 1, n)
    BY <2>1, ConcatAdjacentSubSeq
  <2>3. SubSeq(s, 1, n) = s
    BY SubSeqFull
  <2> QED
    BY <2>1, <2>2, <2>3
<1>6. InsertAt(s, p, x) = (a \o b) \o c
  BY DEF InsertAt
<1>12. Count(<<x>>, type) = IF x = type THEN 1 ELSE 0
  BY CountFew
<1>13. Count(b, type) = IF x = type THEN 1 ELSE 0
  BY <1>12
<1> HIDE DEF a, b, c
<1>7. a \o b \in Seq(S) /\ Len(a \o b) = p /\ \A i \in 1..p : (a \o b)[i] = IF i <= p - 1 THEN a[i] ELSE b[i - (p - 1)]
  <2>1. /\ a \o b \in Seq(S) /\ Len(a \o b) = Len(a) + Len(b)
        /\ \A i \in 1..(Len(a) + Len(b)) : (a \o b)[i] = IF i <= Len(a) THEN a[i] ELSE b[i - Len(a)]
    BY <1>2, <1>4, ConcatProperties
  <2> QED
    BY <1>1, <1>2, <1>4, <2>1
<1>8. /\ (a \o b) \o c \in Seq(S) /\ Len((a \o b) \o c) = n + 1
      /\ \A i \in 1..(n + 1) : ((a \o b) \o c)[i] = IF i <= p THEN (a \o b)[i] ELSE c[i - p]
  <2> DEFINE ab == a \o b
  <2>1. ab \in Seq(S) /\ Len(ab) = p
    BY <1>7
  <2> HIDE DEF ab
  <2>2. /\ ab \o c \in Seq(S) /\ Len(ab \o c) = Len(ab) + Len(c)
        /\ \A i \in 1..(Len(ab) + Len(c)) : (ab \o c)[i] = IF i <= Len(ab) THEN ab[i] ELSE c[i - Len(ab)]
    BY <1>3, <2>1, ConcatProperties
  <2>3. Len(ab) + Len(c) = n + 1
    BY <1>1, <1>3, <2>1
  <2>4. /\ ab \o c \in Seq(S) /\ Len(ab \o c) = n + 1
        /\ \A i \in 1..(n + 1) : (ab \o c)[i] = IF i <= p THEN ab[i] ELSE c[i - p]
    BY <2>1, <2>2, <2>3
  <2> QED
    BY <2>4 DEF ab
<1>9. \A i \in 1..(n + 1) : ((a \o b) \o c)[i] = IF i < p THEN s[i] ELSE IF i = p THEN x ELSE s[i - 1]
  <2> SUFFICES ASSUME NEW i \in 1..(n + 1)
               PROVE  ((a \o b) \o c)[i] = IF i < p THEN s[i] ELSE IF i = p THEN x ELSE s[i - 1]
    OBVIOUS
  <2>1. CASE i < p
    <3>1. i \in 1..p /\ i \in 1..(p - 1) /\ i <= p /\ i <= p - 1
      BY <1>1, <2>1
    <3> QED
      BY <1>2, <1>7, <1>8, <2>1, <3>1
  <2>2. CASE i = p
    <3>1. i \in 1..p /\ i <= p /\ ~(i <= p - 1) /\ i - (p - 1) = 1 /\ ~(i < p)
      BY <1>1, <2>2
    <3> QED
      BY <1>4, <1>7, <1>8, <2>2, <3>1
  <2>3. CASE i > p
    <3>1. i - p \in 1..(n - p + 1) /\ ~(i <= p) /\ p + (i - p) - 1 = i - 1 /\ ~(i < p) /\ i # p
      BY <1>1, <2>3
    <3> QED
      BY <1>3, <1>8, <3>1
  <2>4. i < p \/ i = p \/ i > p
    BY <1>1
  <2> QED
    BY <2>1, <2>2, <2>3, <2>4
<1>10. Count((a \o b) \o c, type) = Count(a, type) + Count(b, type) + Count(c, type)
  <2>1. Count((a \o b) \o c, type) = Count(a \o b, type) + Count(c, type)
    <3> DEFINE ab == a \o b
    <3>1. ab \in Seq(S)
      BY <1>7
    <3> HIDE DEF ab
    <3>2. Count(ab \o c, type) = Count(ab, type) + Count(c, type)
      BY <1>3, <3>1, CountJoined
    <3> QED
      BY <3>2 DEF ab
  <2>2. Count(a \o b, type) = Count(a, type) + Count(b, type)
    BY <1>2, <1>4, CountJoined
  <2> QED
    BY <2>1, <2>2
<1>11. Count(s, type) = Count(a, type) + Count(c, type) /\ Count(a, type) \in Nat /\ Count(c, type) \in Nat
  BY <1>2, <1>3, <1>5, CountJoined
<1>14. Count((a \o b) \o c, type) = Count(s, type) + (IF x = type THEN 1 ELSE 0)
  BY <1>10, <1>11, <1>13
<1> QED
  BY <1>6, <1>8, <1>9, <1>14
-----------------------------------------------------------------------------
(* Converting a Messages answer, block by block.                           *)

\* The blocks taken so far that begin a call, and a search.
CallBlocks(blocks, n) == {i \in 1..n : blocks[i].kind = "tool_use"}
SearchBlocks(blocks, n) == {i \in 1..n : blocks[i].kind = "server_tool_use" /\ blocks[i].form # "odd"}

\* An answer at hand: nothing is shown, and text that will be or is an item ends
\* the thoughts.
Sound(r) ==
  /\ r \in AnswerState /\ r.shown = 0 /\ r.finishing = TRUE /\ Ordered(r.items)
  /\ r.held => r.sawText
  /\ \A i \in DOMAIN r.items : r.items[i] = "message" => r.sawText

Converting(r) ==
  /\ Sound(r) /\ r.body \in MessagesBodies /\ r.taken <= Len(r.body.blocks)
  /\ Count(r.items, "function_call") = Cardinality(CallBlocks(r.body.blocks, r.taken))
  /\ Count(r.items, "web_search_call") >= Cardinality(SearchBlocks(r.body.blocks, r.taken))

\* Some calls and searches were put out.
Grew(r, n, calls, searches) ==
  /\ Sound(n) /\ n.body = r.body /\ n.hosted = r.hosted /\ n.taken = r.taken
  /\ Count(n.items, "function_call") = Count(r.items, "function_call") + calls
  /\ Count(n.items, "web_search_call") = Count(r.items, "web_search_call") + searches

\* An item put out: a message once text was seen, reasoning before.
LEMMA OutputGrows ==
  ASSUME NEW r, Sound(r), NEW type \in Client!ItemType, type = "reasoning" => ~r.sawText,
         type = "message" => r.sawText
  PROVE  /\ Grew(r, Output(r, type), IF type = "function_call" THEN 1 ELSE 0,
                 IF type = "web_search_call" THEN 1 ELSE 0)
         /\ Output(r, type).sawText = r.sawText /\ Output(r, type).held = r.held
         /\ Output(r, type).calls = r.calls /\ Output(r, type) \in AnswerState
<1> DEFINE items == Append(r.items, type)
           n == [r EXCEPT !.items = items]
           k == Len(r.items)
<1>1. r \in AnswerState /\ r.items \in Seq(Client!ItemType) /\ k \in Nat /\ DOMAIN r.items = 1..k
  BY LenProperties DEF Sound, AnswerState
<1>2. /\ items \in Seq(Client!ItemType) /\ Len(items) = k + 1 /\ items[k + 1] = type
      /\ \A i \in 1..k : items[i] = r.items[i]
  BY <1>1, AppendProperties
<1>3. DOMAIN items = 1..(k + 1)
  BY <1>2, LenProperties
<1>4. /\ Count(items, "function_call") = Count(r.items, "function_call") + (IF type = "function_call" THEN 1 ELSE 0)
      /\ Count(items, "web_search_call") = Count(r.items, "web_search_call") + (IF type = "web_search_call" THEN 1 ELSE 0)
  BY <1>1, CountAppended
<1> HIDE DEF items
<1>5. /\ n \in AnswerState /\ n.items = items /\ n.body = r.body /\ n.hosted = r.hosted /\ n.taken = r.taken
      /\ n.sawText = r.sawText /\ n.held = r.held /\ n.calls = r.calls /\ n.shown = r.shown
      /\ n.finishing = r.finishing
  BY <1>1, <1>2 DEF AnswerState
<1>6. Output(r, type) = n
  BY DEF Output, items
<1> HIDE DEF n
<1>7. \A i \in 1..(k + 1) : items[i] = "message" => r.sawText
  <2> SUFFICES ASSUME NEW i \in 1..(k + 1), items[i] = "message"
               PROVE  r.sawText
    OBVIOUS
  <2>1. CASE i = k + 1
    BY <1>2, <2>1
  <2>2. CASE i # k + 1
    <3>1. i \in 1..k
      BY <1>1, <2>2
    <3> QED
      BY <1>1, <1>2, <3>1 DEF Sound
  <2> QED
    BY <2>1, <2>2
<1>8. Ordered(items)
  <2> SUFFICES ASSUME NEW i \in 1..(k + 1), NEW j \in 1..(k + 1), i < j, items[i] = "message", items[j] = "reasoning"
               PROVE  FALSE
    BY <1>3 DEF Ordered
  <2>1. r.sawText
    BY <1>7
  <2>2. CASE j = k + 1
    BY <1>2, <2>1, <2>2
  <2>3. CASE j # k + 1
    <3>1. i \in 1..k /\ j \in 1..k
      BY <1>1, <2>3
    <3> QED
      BY <1>1, <1>2, <3>1 DEF Sound, Ordered
  <2> QED
    BY <2>2, <2>3
<1>9. Sound(n)
  BY <1>3, <1>5, <1>7, <1>8 DEF Sound
<1> QED
  BY <1>4, <1>5, <1>6, <1>9 DEF Grew
\* Numbers of items are numbers.
LEMMA CountType ==
  ASSUME NEW S, NEW s \in Seq(S), NEW type
  PROVE  Count(s, type) \in Nat
BY CountJoined

\* What changes nothing of the items.
LEMMA SoundSame ==
  ASSUME NEW r, Sound(r), NEW n \in AnswerState, n.items = r.items, n.body = r.body, n.hosted = r.hosted,
         n.taken = r.taken, n.shown = r.shown, n.finishing = r.finishing, n.held => n.sawText,
         r.sawText => n.sawText
  PROVE  Grew(r, n, 0, 0)
<1>1. Sound(n)
  BY DEF Sound
<1>2. r.items \in Seq(Client!ItemType)
  BY DEF Sound, AnswerState
<1>3. Count(r.items, "function_call") \in Nat /\ Count(r.items, "web_search_call") \in Nat
  BY <1>2, CountType
<1> QED
  BY <1>1, <1>3 DEF Grew

\* One growth after another.
LEMMA GrewOn ==
  ASSUME NEW r, NEW n, NEW m, NEW a \in Nat, NEW b \in Nat, NEW c \in Nat, NEW d \in Nat,
         Sound(r), Grew(r, n, a, b), Grew(n, m, c, d)
  PROVE  Grew(r, m, a + c, b + d)
<1>1. r.items \in Seq(Client!ItemType)
  BY DEF Sound, AnswerState
<1>2. Count(r.items, "function_call") \in Nat /\ Count(r.items, "web_search_call") \in Nat
  BY <1>1, CountType
<1> QED
  BY <1>2 DEF Grew

\* The text held back becomes a message.
LEMMA FlushGrows ==
  ASSUME NEW r, Sound(r)
  PROVE  /\ Grew(r, FlushText(r), 0, 0) /\ FlushText(r).held = FALSE
         /\ FlushText(r).sawText = r.sawText /\ FlushText(r).calls = r.calls
<1>1. r \in AnswerState
  BY DEF Sound
<1>2. CASE ~r.held
  <2>1. FlushText(r) = r
    BY <1>2 DEF FlushText
  <2>2. Grew(r, r, 0, 0)
    BY <1>1, SoundSame DEF Sound
  <2> QED
    BY <1>1, <1>2, <2>1, <2>2 DEF AnswerState
<1>3. CASE r.held
  <2> DEFINE o == Output(r, "message")
             n == [o EXCEPT !.held = FALSE]
  <2>1. FlushText(r) = n
    BY <1>3 DEF FlushText
  <2>2. "message" \in Client!ItemType
    BY DEF Client!ItemType
  <2>3. Grew(r, o, 0, 0) /\ o.sawText = r.sawText /\ o.calls = r.calls /\ o \in AnswerState
    BY <1>3, <2>2, OutputGrows DEF Sound
  <2> HIDE DEF o
  <2>4. /\ n \in AnswerState /\ n.items = o.items /\ n.body = o.body /\ n.hosted = o.hosted /\ n.taken = o.taken
        /\ n.shown = o.shown /\ n.finishing = o.finishing /\ n.held = FALSE /\ n.sawText = o.sawText
        /\ n.calls = o.calls
    BY <2>3 DEF AnswerState
  <2> HIDE DEF n
  <2>5. Grew(o, n, 0, 0)
    BY <2>3, <2>4, SoundSame DEF Grew
  <2>6. Grew(r, n, 0 + 0, 0 + 0)
    BY <2>3, <2>5, GrewOn
  <2> QED
    BY <2>1, <2>3, <2>4, <2>6
<1> QED
  BY <1>2, <1>3

\* A block of text.
LEMMA TakeTextGrows ==
  ASSUME NEW r, Sound(r), NEW b
  PROVE  Grew(r, TakeText(r, b), 0, 0)
<1> DEFINE f == FlushText(r)
           led == b.form \in {"led", "span"} /\ ~r.sawText
           s == IF led THEN Output(f, "reasoning") ELSE r
           n == [s EXCEPT !.held = TRUE, !.sawText = TRUE]
<1>1. "reasoning" \in Client!ItemType
  BY DEF Client!ItemType
<1>2. Grew(r, f, 0, 0) /\ f.sawText = r.sawText
  BY FlushGrows
<1>3. Sound(f)
  BY <1>2 DEF Grew
<1> HIDE DEF f
<1>4. Grew(r, s, 0, 0)
  <2>1. CASE led
    <3>1. Grew(f, Output(f, "reasoning"), 0, 0)
      BY <1>1, <1>2, <1>3, <2>1, OutputGrows
    <3>2. Grew(r, Output(f, "reasoning"), 0 + 0, 0 + 0)
      BY <1>2, <3>1, GrewOn
    <3> QED
      BY <2>1, <3>2
  <2>2. CASE ~led
    <3>1. Grew(r, r, 0, 0)
      BY SoundSame DEF Sound
    <3> QED
      BY <2>2, <3>1
  <2> QED
    BY <2>1, <2>2
<1>5. TakeText(r, b) = IF b.form \in {"span", "blank"} THEN s ELSE n
  BY DEF TakeText, f
<1> HIDE DEF s
<1>6. Sound(s) /\ s \in AnswerState
  BY <1>4 DEF Grew, Sound
<1>7. /\ n \in AnswerState /\ n.items = s.items /\ n.body = s.body /\ n.hosted = s.hosted /\ n.taken = s.taken
      /\ n.shown = s.shown /\ n.finishing = s.finishing /\ n.sawText = TRUE
  BY <1>6 DEF AnswerState
<1> HIDE DEF n
<1>8. Grew(s, n, 0, 0)
  BY <1>6, <1>7, SoundSame
<1>9. Grew(r, n, 0 + 0, 0 + 0)
  BY <1>4, <1>8, GrewOn
<1> QED
  BY <1>4, <1>5, <1>9

\* A block of another kind.
LEMMA TakeOtherGrows ==
  ASSUME NEW r, Sound(r), NEW b \in BodyBlock, b.kind # "text"
  PROVE  \E searches \in Nat :
           /\ Grew(r, TakeOther(r, b), IF b.kind = "tool_use" THEN 1 ELSE 0, searches)
           /\ b.kind = "server_tool_use" /\ b.form # "odd" => searches = 1
<1> DEFINE n == TakeOther(r, b)
<1>1. {"reasoning", "sealed", "function_call", "web_search_call"} \subseteq Client!ItemType
  BY DEF Client!ItemType
<1>2. Grew(r, r, 0, 0)
  BY SoundSame DEF Sound
<1>3. /\ ~r.sawText => Grew(r, Output(r, "reasoning"), 0, 0)
      /\ Grew(r, Output(r, "sealed"), 0, 0)
      /\ Grew(r, Output(r, "function_call"), 1, 0)
      /\ Grew(r, Output(r, "web_search_call"), 0, 1) /\ Output(r, "web_search_call") \in AnswerState
  BY <1>1, OutputGrows
<1>4. Grew(r, Output(r, "web_search_call"), 0, 1) => Grew(r, Searches(r, b.id), 0, 1)
  <2> DEFINE o == Output(r, "web_search_call")
             calls == o.calls \cup {b.id}
             m == [o EXCEPT !.calls = calls]
  <2>1. o \in AnswerState /\ Grew(r, o, 0, 1)
    BY <1>3
  <2> HIDE DEF o
  <2>2. b.id \in CallIds \cup {NoCallId}
    BY DEF BodyBlock
  <2>3. calls \in SUBSET (CallIds \cup {NoCallId})
    BY <2>1, <2>2 DEF AnswerState
  <2>4. Searches(r, b.id) = m
    BY DEF Searches, o
  <2> HIDE DEF calls
  <2>5. /\ m \in AnswerState /\ m.items = o.items /\ m.body = o.body /\ m.hosted = o.hosted /\ m.taken = o.taken
        /\ m.shown = o.shown /\ m.finishing = o.finishing /\ m.sawText = o.sawText /\ m.held = o.held
    BY <2>1, <2>3 DEF AnswerState
  <2> HIDE DEF m
  <2>6. Grew(o, m, 0, 0)
    BY <2>1, <2>5, SoundSame DEF Grew, Sound
  <2>7. Grew(r, m, 0 + 0, 1 + 0)
    BY <2>1, <2>6, GrewOn
  <2> QED
    BY <2>4, <2>7
<1>5. b.kind \in BlockKind /\ 0 \in Nat /\ 1 \in Nat
  BY DEF BodyBlock
<1>6. CASE b.kind = "thinking"
  <2>1. n = IF b.form # "blank" /\ ~r.sawText THEN Output(r, "reasoning") ELSE r
    BY <1>6 DEF TakeOther
  <2> QED
    BY <1>2, <1>3, <1>6, <2>1
<1>7. CASE b.kind = "redacted_thinking"
  <2>1. n = Output(r, "sealed")
    BY <1>7 DEF TakeOther
  <2> QED
    BY <1>3, <1>7, <2>1
<1>8. CASE b.kind = "tool_use"
  <2>1. n = Output(r, "function_call")
    BY <1>8 DEF TakeOther
  <2> QED
    BY <1>3, <1>8, <2>1
<1>9. CASE b.kind = "server_tool_use"
  <2>1. n = IF b.form # "odd" THEN Searches(r, b.id) ELSE r
    BY <1>9 DEF TakeOther
  <2>2. CASE b.form # "odd"
    BY <1>3, <1>4, <1>9, <2>1, <2>2
  <2>3. CASE b.form = "odd"
    BY <1>2, <1>9, <2>1, <2>3
  <2> QED
    BY <2>2, <2>3
<1>10. CASE b.kind = "web_search_tool_result"
  <2>1. n = IF b.id \notin r.calls THEN Output(r, "web_search_call") ELSE r
    BY <1>10 DEF TakeOther
  <2>2. CASE b.id \notin r.calls
    BY <1>3, <1>10, <2>1, <2>2
  <2>3. CASE b.id \in r.calls
    BY <1>2, <1>10, <2>1, <2>3
  <2> QED
    BY <2>2, <2>3
<1>11. CASE b.kind = "unknown"
  <2>1. n = r
    BY <1>11 DEF TakeOther
  <2> QED
    BY <1>2, <1>11, <2>1
<1> QED
  BY <1>5, <1>6, <1>7, <1>8, <1>9, <1>10, <1>11 DEF BlockKind
\* The blocks counted once another is taken.
LEMMA BlocksCounted ==
  ASSUME NEW blocks \in Seq(BodyBlock), NEW n \in Nat
  PROVE  /\ Cardinality(CallBlocks(blocks, n)) \in Nat /\ Cardinality(SearchBlocks(blocks, n)) \in Nat
         /\ Cardinality(CallBlocks(blocks, n + 1)) =
              Cardinality(CallBlocks(blocks, n)) + (IF blocks[n + 1].kind = "tool_use" THEN 1 ELSE 0)
         /\ Cardinality(SearchBlocks(blocks, n + 1)) =
              Cardinality(SearchBlocks(blocks, n))
              + (IF blocks[n + 1].kind = "server_tool_use" /\ blocks[n + 1].form # "odd" THEN 1 ELSE 0)
         /\ CallBlocks(blocks, 0) = {} /\ SearchBlocks(blocks, 0) = {}
<1> DEFINE A == CallBlocks(blocks, n)
           B == SearchBlocks(blocks, n)
<1>1. A \subseteq 1..n /\ B \subseteq 1..n
  BY DEF CallBlocks, SearchBlocks
<1>2. IsFiniteSet(1..n)
  BY FS_Interval
<1>3. 1..(n + 1) = 1..n \cup {n + 1} /\ n + 1 \notin 1..n /\ 1..0 = {}
  OBVIOUS
<1>4. /\ CallBlocks(blocks, n + 1) = IF blocks[n + 1].kind = "tool_use" THEN A \cup {n + 1} ELSE A
      /\ SearchBlocks(blocks, n + 1) =
           IF blocks[n + 1].kind = "server_tool_use" /\ blocks[n + 1].form # "odd" THEN B \cup {n + 1} ELSE B
  BY <1>3 DEF CallBlocks, SearchBlocks
<1> HIDE DEF A, B
<1>5. IsFiniteSet(A) /\ IsFiniteSet(B)
  BY <1>1, <1>2, FS_Subset
<1>6. Cardinality(A) \in Nat /\ Cardinality(B) \in Nat
  BY <1>5, FS_CardinalityType
<1>7. Cardinality(A \cup {n + 1}) = Cardinality(A) + 1 /\ Cardinality(B \cup {n + 1}) = Cardinality(B) + 1
  <2>1. n + 1 \notin A /\ n + 1 \notin B
    BY <1>1, <1>3
  <2> QED
    BY <1>5, <2>1, FS_AddElement
<1>8. CallBlocks(blocks, 0) = {} /\ SearchBlocks(blocks, 0) = {}
  BY <1>3 DEF CallBlocks, SearchBlocks
<1> QED
  BY <1>4, <1>6, <1>7, <1>8 DEF A, B

\* canonicalFromMessages takes a block.
LEMMA TakeBlockConverts ==
  ASSUME NEW r, Converting(r), r.taken # Len(r.body.blocks)
  PROVE  Converting(TakeBlock(r, r.body.blocks[r.taken + 1]))
<1> DEFINE blocks == r.body.blocks
           k == r.taken
           b == blocks[k + 1]
           f == FlushText(r)
           s == IF b.kind = "text" THEN TakeText(r, b) ELSE TakeOther(f, b)
           n == [s EXCEPT !.taken = @ + 1]
<1>1. /\ blocks \in Seq(BodyBlock) /\ Len(blocks) \in Nat /\ k \in Nat /\ k + 1 \in 1..Len(blocks) /\ b \in BodyBlock
      /\ r.body \in MessagesBodies /\ k + 1 <= Len(blocks) /\ Sound(r)
  <2>1. r.body \in MessagesBodies /\ k \in Nat /\ k <= Len(blocks) /\ Sound(r)
    BY DEF Converting, Sound, AnswerState
  <2>2. blocks \in Seq(BodyBlock)
    BY <2>1, TranslatedAssumption
  <2>3. Len(blocks) \in Nat
    BY <2>2, LenProperties
  <2>4. k + 1 \in 1..Len(blocks) /\ k + 1 <= Len(blocks)
    BY <2>1, <2>3
  <2>5. b \in BodyBlock
    BY <2>2, <2>4, ElementOfSeq
  <2> QED
    BY <2>1, <2>2, <2>3, <2>4, <2>5
<1>2. TakeBlock(r, b) = n
  BY DEF TakeBlock
<1> HIDE DEF b, k, blocks
<1>3. PICK searches \in Nat : /\ Grew(r, s, IF b.kind = "tool_use" THEN 1 ELSE 0, searches)
                              /\ b.kind = "server_tool_use" /\ b.form # "odd" => searches = 1
  <2>1. CASE b.kind = "text"
    <3>1. Grew(r, s, 0, 0)
      BY <1>1, <2>1, TakeTextGrows
    <3> QED
      BY <2>1, <3>1
  <2>2. CASE b.kind # "text"
    <3>1. Grew(r, f, 0, 0)
      BY <1>1, FlushGrows
    <3>2. Sound(f)
      BY <3>1 DEF Grew
    <3> HIDE DEF f
    <3>3. PICK more \in Nat : /\ Grew(f, s, IF b.kind = "tool_use" THEN 1 ELSE 0, more)
                              /\ b.kind = "server_tool_use" /\ b.form # "odd" => more = 1
      BY <1>1, <2>2, <3>2, TakeOtherGrows
    <3>4. Grew(r, s, 0 + (IF b.kind = "tool_use" THEN 1 ELSE 0), 0 + more)
      <4> DEFINE one == IF b.kind = "tool_use" THEN 1 ELSE 0
      <4>1. one \in Nat /\ Grew(f, s, one, more)
        BY <3>3
      <4> HIDE DEF one, s
      <4>2. Grew(r, s, 0 + one, 0 + more)
        BY <1>1, <3>1, <4>1, GrewOn
      <4> QED
        BY <4>2 DEF one
    <3> HIDE DEF s
    <3> QED
      BY <3>3, <3>4
  <2> QED
    BY <2>1, <2>2
<1> HIDE DEF s
<1>4. /\ s \in AnswerState /\ s.body = r.body /\ s.taken = k /\ Sound(s)
  BY <1>3 DEF Grew, Sound, k
<1>5. /\ n \in AnswerState /\ n.items = s.items /\ n.body = r.body /\ n.taken = k + 1 /\ n.shown = s.shown
      /\ n.finishing = s.finishing /\ n.sawText = s.sawText /\ n.held = s.held
  BY <1>1, <1>4 DEF AnswerState
<1> HIDE DEF n
<1>6. Sound(n)
  BY <1>4, <1>5 DEF Sound
<1>7. /\ Cardinality(CallBlocks(blocks, k)) \in Nat /\ Cardinality(SearchBlocks(blocks, k)) \in Nat
      /\ Cardinality(CallBlocks(blocks, k + 1)) =
           Cardinality(CallBlocks(blocks, k)) + (IF b.kind = "tool_use" THEN 1 ELSE 0)
      /\ Cardinality(SearchBlocks(blocks, k + 1)) =
           Cardinality(SearchBlocks(blocks, k)) + (IF b.kind = "server_tool_use" /\ b.form # "odd" THEN 1 ELSE 0)
  BY <1>1, BlocksCounted DEF b
<1>8. /\ Count(r.items, "function_call") = Cardinality(CallBlocks(blocks, k))
      /\ Count(r.items, "web_search_call") >= Cardinality(SearchBlocks(blocks, k))
      /\ Count(r.items, "web_search_call") \in Nat
  <2>1. r.items \in Seq(Client!ItemType)
    BY <1>1 DEF Sound, AnswerState
  <2> QED
    BY <2>1, CountType DEF Converting, blocks, k
<1>9. /\ Count(s.items, "function_call") = Count(r.items, "function_call") + (IF b.kind = "tool_use" THEN 1 ELSE 0)
      /\ Count(s.items, "web_search_call") = Count(r.items, "web_search_call") + searches
  BY <1>3 DEF Grew
<1>10. /\ Count(n.items, "function_call") = Cardinality(CallBlocks(blocks, k + 1))
       /\ Count(n.items, "web_search_call") >= Cardinality(SearchBlocks(blocks, k + 1))
  BY <1>3, <1>5, <1>7, <1>8, <1>9
<1>11. Converting(n)
  BY <1>1, <1>5, <1>6, <1>10 DEF Converting, blocks
<1> QED
  BY <1>2, <1>11 DEF b, blocks, k

\* What the client sees before anything is sent.
NothingSeen == [items |-> <<>>, spoken |-> FALSE, end |-> "none"]

\* An answer of which nothing is shown yet.
LEMMA NothingShownFits ==
  ASSUME NEW r, Sound(r), Reports(r)
  PROVE  BodyFit(r, NothingSeen)
<1>1. NothingSeen \in View /\ Len(NothingSeen.items) = 0
  BY EmptySeq DEF NothingSeen, View
<1>2. r.shown = 0 /\ r.finishing = TRUE /\ r \in AnswerState /\ Ordered(r.items)
  BY DEF Sound
<1>3. Len(r.items) \in Nat
  BY <1>2, LenProperties DEF AnswerState
<1>4. 1..0 = {} /\ 0 <= Len(r.items)
  BY <1>3
<1> QED
  BY <1>1, <1>2, <1>4 DEF BodyFit, NothingSeen
\* A Messages answer before its first block.
LEMMA AnswerConverts ==
  ASSUME NEW body \in MessagesBodies, NEW hosted \in BOOLEAN
  PROVE  Converting(Answer(body, hosted))
<1> DEFINE r == Answer(body, hosted)
<1>1. body.blocks \in Seq(BodyBlock) /\ Len(body.blocks) \in Nat
  <2>1. body.blocks \in Seq(BodyBlock)
    BY TranslatedAssumption
  <2> QED
    BY <2>1, LenProperties
<1>2. <<>> \in Seq(Client!ItemType) /\ DOMAIN <<>> = {}
  BY EmptySeq
<1>3. /\ r \in AnswerState /\ r.body = body /\ r.items = <<>> /\ r.held = FALSE /\ r.taken = 0
      /\ r.shown = 0 /\ r.finishing = TRUE
  BY <1>2 DEF Answer, AnswerState
<1> HIDE DEF r
<1>4. Sound(r)
  BY <1>2, <1>3 DEF Sound, Ordered
<1>5. Count(<<>>, "function_call") = 0 /\ Count(<<>>, "web_search_call") = 0
  BY CountFew
<1>6. CallBlocks(body.blocks, 0) = {} /\ SearchBlocks(body.blocks, 0) = {} /\ Cardinality({}) = 0
  BY <1>1, BlocksCounted, FS_EmptySet
<1>7. /\ r.taken <= Len(r.body.blocks)
      /\ Count(r.items, "function_call") = Cardinality(CallBlocks(r.body.blocks, r.taken))
      /\ Count(r.items, "web_search_call") >= Cardinality(SearchBlocks(r.body.blocks, r.taken))
  <2>1. Cardinality(CallBlocks(r.body.blocks, r.taken)) = 0 /\ Cardinality(SearchBlocks(r.body.blocks, r.taken)) = 0
    BY <1>3, <1>6
  <2>2. Count(r.items, "function_call") = 0 /\ Count(r.items, "web_search_call") = 0
    BY <1>3, <1>5
  <2>3. r.taken = 0 /\ Len(r.body.blocks) \in Nat
    BY <1>1, <1>3
  <2> QED
    BY <2>1, <2>2, <2>3
<1>8. Converting(r)
  BY <1>3, <1>4, <1>7 DEF Converting
<1> QED
  BY <1>8 DEF r

\* A search put before the first message.
LEMMA EvidenceKeepsOrder ==
  ASSUME NEW items \in Seq(Client!ItemType), Ordered(items)
  PROVE  /\ WithEvidence(items) \in Seq(Client!ItemType) /\ Ordered(WithEvidence(items))
         /\ Count(WithEvidence(items), "function_call") = Count(items, "function_call")
         /\ Count(WithEvidence(items), "web_search_call") = Count(items, "web_search_call") + 1
<1> DEFINE n == Len(items)
           messages == {i \in DOMAIN items : items[i] = "message"}
           p == IF messages = {} THEN n + 1 ELSE Min(messages)
           w == InsertAt(items, p, "web_search_call")
<1>1. n \in Nat /\ DOMAIN items = 1..n
  BY LenProperties
<1>2. messages \in SUBSET Nat /\ messages \subseteq 1..n
  BY <1>1
<1>3. p \in 1..(n + 1) /\ \A i \in 1..n : items[i] = "message" => p <= i
  <2>1. CASE messages = {}
    <3>1. \A i \in 1..n : items[i] # "message"
      BY <1>1, <2>1
    <3> QED
      BY <1>1, <2>1, <3>1
  <2>2. CASE messages # {}
    <3>1. Min(messages) \in messages /\ \A i \in messages : Min(messages) <= i
      <4> HIDE DEF messages
      <4> QED
        BY <1>2, <2>2, MinIsLeast
    <3>2. Min(messages) \in 1..n
      BY <1>2, <3>1
    <3> QED
      BY <1>1, <2>2, <3>1, <3>2
  <2> QED
    BY <2>1, <2>2
<1>4. WithEvidence(items) = w
  BY DEF WithEvidence
<1> HIDE DEF p
<1>5. "web_search_call" \in Client!ItemType
  BY DEF Client!ItemType
<1>6. /\ w \in Seq(Client!ItemType) /\ Len(w) = n + 1
      /\ \A i \in 1..(n + 1) : w[i] = IF i < p THEN items[i] ELSE IF i = p THEN "web_search_call" ELSE items[i - 1]
      /\ Count(w, "web_search_call") = Count(items, "web_search_call") + 1
  BY <1>3, <1>5, CountInserted
<1>7. Count(w, "function_call") = Count(items, "function_call")
  <2>1. Count(w, "function_call") = Count(items, "function_call") + 0
    BY <1>3, <1>5, CountInserted
  <2>2. Count(items, "function_call") \in Nat
    BY CountType
  <2> QED
    BY <2>1, <2>2
<1> HIDE DEF w
<1>8. DOMAIN w = 1..(n + 1)
  BY <1>6, LenProperties
<1>9. Ordered(w)
  <2> SUFFICES ASSUME NEW i \in 1..(n + 1), NEW j \in 1..(n + 1), i < j, w[i] = "message", w[j] = "reasoning"
               PROVE  FALSE
    BY <1>8 DEF Ordered
  <2>1. p \in Nat
    BY <1>1, <1>3
  <2>2. ~(i < p)
    <3>1. i < p => i \in 1..n
      BY <1>1, <1>3
    <3> QED
      BY <1>3, <1>6, <2>1, <3>1
  <2>3. i # p /\ i > p /\ j > p
    <3>1. i # p
      BY <1>6, <2>1
    <3> QED
      BY <2>1, <2>2, <3>1
  <2>4. items[i - 1] = "message" /\ items[j - 1] = "reasoning" /\ i - 1 \in 1..n /\ j - 1 \in 1..n /\ i - 1 < j - 1
    <3>1. ~(j < p) /\ j # p
      BY <2>1, <2>3
    <3>2. items[i - 1] = "message" /\ items[j - 1] = "reasoning"
      BY <1>6, <2>2, <2>3, <3>1
    <3>3. p >= 1
      BY <1>1, <1>3
    <3>4. i - 1 \in 1..n /\ j - 1 \in 1..n /\ i - 1 < j - 1
      BY <1>1, <2>1, <2>3, <3>3
    <3> QED
      BY <3>2, <3>4
  <2> QED
    BY <1>1, <2>4 DEF Ordered
<1> QED
  BY <1>4, <1>6, <1>7, <1>9

\* A Messages answer once all its blocks are taken.
LEMMA ConvertedFits ==
  ASSUME NEW r, Converting(r), r.taken = Len(r.body.blocks)
  PROVE  BodyFit(Converted(r), NothingSeen)
<1> DEFINE f == FlushText(r)
           blocks == r.body.blocks
           told == f.hosted /\ f.calls = {} /\ f.body.evidence
           items == WithEvidence(f.items)
           n == [f EXCEPT !.items = items]
<1>1. Sound(r) /\ r.body \in MessagesBodies /\ blocks \in Seq(BodyBlock)
  BY TranslatedAssumption DEF Converting
<1>2. Grew(r, f, 0, 0)
  BY <1>1, FlushGrows
<1> HIDE DEF f
<1>3. Sound(f) /\ f \in AnswerState /\ f.body = r.body
  BY <1>2 DEF Grew, Sound
<1>4. /\ Count(r.items, "function_call") = Cardinality(CallBlocks(blocks, Len(blocks)))
      /\ Count(r.items, "web_search_call") >= Cardinality(SearchBlocks(blocks, Len(blocks)))
  BY DEF Converting
<1>5. CallsIn(r.body) = Cardinality(CallBlocks(blocks, Len(blocks)))
      /\ SearchesIn(r.body) = Cardinality(SearchBlocks(blocks, Len(blocks)))
  <2>1. DOMAIN blocks = 1..Len(blocks)
    BY <1>1, LenProperties
  <2>2. "calls" \notin DOMAIN r.body
    <3>1. r.body \in [blocks : Seq(BodyBlock), evidence : BOOLEAN]
      BY <1>1, TranslatedAssumption
    <3> QED
      BY <3>1
  <2> QED
    BY <2>1, <2>2 DEF CallsIn, SearchesIn, CallBlocks, SearchBlocks
<1>6. /\ Count(r.items, "function_call") \in Nat /\ Count(r.items, "web_search_call") \in Nat
      /\ Cardinality(SearchBlocks(blocks, Len(blocks))) \in Nat
  <2>1. r.items \in Seq(Client!ItemType)
    BY <1>1 DEF Sound, AnswerState
  <2>2. Len(blocks) \in Nat
    BY <1>1, LenProperties
  <2> QED
    BY <1>1, <2>1, <2>2, CountType, BlocksCounted
<1>7. /\ Count(f.items, "function_call") = CallsIn(f.body)
      /\ Count(f.items, "web_search_call") >= SearchesIn(f.body)
      /\ Count(f.items, "web_search_call") \in Nat /\ SearchesIn(f.body) \in Nat
  BY <1>2, <1>3, <1>4, <1>5, <1>6 DEF Grew
<1>8. Converted(r) = IF told THEN n ELSE f
  BY DEF Converted, f
<1>9. CASE ~told
  <2>1. BodyFit(f, NothingSeen)
    BY <1>3, <1>7, NothingShownFits DEF Reports
  <2> QED
    BY <1>8, <1>9, <2>1
<1>10. CASE told
  <2>1. /\ items \in Seq(Client!ItemType) /\ Ordered(items)
        /\ Count(items, "function_call") = Count(f.items, "function_call")
        /\ Count(items, "web_search_call") = Count(f.items, "web_search_call") + 1
    <3>1. f.items \in Seq(Client!ItemType) /\ Ordered(f.items)
      BY <1>3 DEF Sound, AnswerState
    <3> QED
      BY <3>1, EvidenceKeepsOrder
  <2> HIDE DEF items
  <2>2. /\ n \in AnswerState /\ n.items = items /\ n.body = f.body /\ n.shown = f.shown
        /\ n.finishing = f.finishing
    BY <1>3, <2>1 DEF AnswerState
  <2> HIDE DEF n
  <2>3. Reports(n)
    BY <1>7, <2>1, <2>2 DEF Reports
  <2>4. BodyFit(n, NothingSeen)
    <3>1. NothingSeen \in View /\ Len(NothingSeen.items) = 0
      BY EmptySeq DEF NothingSeen, View
    <3>2. n.shown = 0 /\ n.finishing = TRUE
      BY <1>3, <2>2 DEF Sound
    <3>3. Len(n.items) \in Nat
      BY <2>1, <2>2, LenProperties
    <3>4. 1..0 = {} /\ 0 <= Len(n.items)
      BY <3>3
    <3> QED
      BY <2>1, <2>2, <2>3, <3>1, <3>2, <3>4 DEF BodyFit, NothingSeen
  <2> QED
    BY <1>8, <1>10, <2>4
<1> QED
  BY <1>9, <1>10
\* An answer of Chat Completions, converted.
LEMMA FromChatFits ==
  ASSUME NEW body \in ChatBodies, NEW hosted \in BOOLEAN
  PROVE  BodyFit(FromChat(body, hosted), NothingSeen)
<1> DEFINE S == Client!ItemType \ {"message"}
           a == IF body.thought THEN <<"reasoning">> ELSE <<>>
           b == IF hosted /\ body.searched THEN <<"web_search_call">> ELSE <<>>
           c == [i \in 1..body.calls |-> "function_call"]
           d == IF body.text # "none" THEN <<"message">> ELSE <<>>
           items == ItemsOfChat(body, hosted)
           n == FromChat(body, hosted)
<1>1. /\ body \in [thought : BOOLEAN, searched : BOOLEAN, calls : Nat, text : {"none", "blank", "text"}]
      /\ body.calls \in Nat /\ body.text \in {"none", "blank", "text"} /\ "calls" \in DOMAIN body
  <2>1. body \in [thought : BOOLEAN, searched : BOOLEAN, calls : Nat, text : {"none", "blank", "text"}]
    BY TranslatedAssumption
  <2> QED
    BY <2>1
<1>2. items = ((a \o b) \o c) \o d
  BY DEF ItemsOfChat
<1>3. {"reasoning", "web_search_call", "function_call"} \subseteq S /\ "message" \in Client!ItemType /\ S \subseteq Client!ItemType
      /\ "message" \notin S
  BY DEF Client!ItemType
<1>4. a \in Seq(S) /\ b \in Seq(S) /\ c \in Seq(S)
  <2>1. <<>> \in Seq(S) /\ <<"reasoning">> \in Seq(S) /\ <<"web_search_call">> \in Seq(S)
    <3> HIDE DEF S
    <3> QED
      BY <1>3, EmptySeq
  <2>2. c \in Seq(S)
    <3>1. \A i \in 1..body.calls : "function_call" \in S
      BY <1>3
    <3> HIDE DEF S
    <3> QED
      BY <1>1, <3>1, IsASeq
  <2> QED
    BY <2>1, <2>2
<1>5. d \in Seq(Client!ItemType) /\ Len(d) \in Nat /\ Len(d) <= 1
  <2>1. <<>> \in Seq(Client!ItemType) /\ <<"message">> \in Seq(Client!ItemType) /\ Len(<<>>) = 0 /\ Len(<<"message">>) = 1
    BY <1>3, EmptySeq
  <2> QED
    BY <2>1
<1>6. /\ Count(a, "function_call") = 0 /\ Count(b, "function_call") = 0 /\ Count(d, "function_call") = 0
      /\ Count(c, "function_call") = body.calls
  BY <1>1, CountFew, CountCopies
<1> HIDE DEF S, a, b, c, d, items
<1>7. (a \o b) \in Seq(S) /\ Count(a \o b, "function_call") = 0
  BY <1>4, <1>6, CountJoined, ConcatProperties
<1> DEFINE ab == a \o b
<1> HIDE DEF ab
<1>8. ab \o c \in Seq(S) /\ Count(ab \o c, "function_call") = body.calls
  <2>1. ab \in Seq(S) /\ Count(ab, "function_call") = 0
    BY <1>7 DEF ab
  <2> QED
    BY <1>1, <1>4, <1>6, <2>1, CountJoined, ConcatProperties
<1> DEFINE abc == ab \o c
           k == Len(abc)
<1> HIDE DEF abc
<1>9. abc \in Seq(S) /\ abc \in Seq(Client!ItemType) /\ k \in Nat /\ DOMAIN abc = 1..k /\ \A i \in 1..k : abc[i] # "message"
  <2>1. abc \in Seq(S)
    BY <1>8 DEF abc
  <2>2. k \in Nat /\ DOMAIN abc = 1..k
    BY <2>1, LenProperties
  <2>3. \A i \in 1..k : abc[i] \in S
    BY <2>1, ElementOfSeq
  <2>4. abc \in Seq(Client!ItemType)
    <3>1. \A i \in 1..k : abc[i] \in Client!ItemType
      BY <1>3, <2>3
    <3>2. abc = [i \in 1..k |-> abc[i]]
      BY <2>1, <2>2
    <3>3. [i \in 1..k |-> abc[i]] \in Seq(Client!ItemType)
      BY <2>2, <3>1, IsASeq
    <3> QED
      BY <3>2, <3>3
  <2> QED
    BY <1>3, <2>1, <2>2, <2>3, <2>4
<1>10. items = abc \o d
  BY <1>2 DEF abc, ab
<1>11. Count(items, "function_call") = body.calls
  <2>1. Count(abc, "function_call") = body.calls
    BY <1>8 DEF abc
  <2>2. Count(items, "function_call") = Count(abc, "function_call") + Count(d, "function_call")
    BY <1>5, <1>9, <1>10, CountJoined
  <2> QED
    BY <1>1, <1>6, <2>1, <2>2
<1>12. /\ items \in Seq(Client!ItemType) /\ Len(items) = k + Len(d)
       /\ \A i \in 1..(k + Len(d)) : items[i] = IF i <= k THEN abc[i] ELSE d[i - k]
  BY <1>5, <1>9, <1>10, ConcatProperties
<1>13. Ordered(items)
  <2>1. DOMAIN items = 1..(k + Len(d))
    BY <1>12, LenProperties
  <2> SUFFICES ASSUME NEW i \in 1..(k + Len(d)), NEW j \in 1..(k + Len(d)), i < j, items[i] = "message"
               PROVE  FALSE
    BY <2>1 DEF Ordered
  <2>2. i <= k
    <3>1. k \in Nat /\ Len(d) \in Nat /\ Len(d) <= 1
      BY <1>5, <1>9
    <3> DEFINE l == Len(d)
    <3>2. \A x, y \in 1..(k + l) : x < y => x <= k
      <4>1. k \in Nat /\ l \in Nat /\ l <= 1
        BY <3>1
      <4> HIDE DEF k, l
      <4> QED
        BY <4>1
    <3> QED
      BY <3>2
  <2>3. i \in 1..k
    BY <1>9, <2>2
  <2> QED
    BY <1>9, <1>12, <2>2, <2>3
<1>14. Count(items, "web_search_call") \in Nat
  BY <1>12, CountType
<1>15. /\ n \in AnswerState /\ n.items = items /\ n.body = body /\ n.shown = 0 /\ n.finishing = TRUE
  BY <1>1, <1>12 DEF FromChat, Answer, AnswerState, items
<1> HIDE DEF n
<1>16. Reports(n)
  <2>1. CallsIn(body) = body.calls /\ SearchesIn(body) = 0
    BY <1>1 DEF CallsIn, SearchesIn
  <2> QED
    BY <1>11, <1>14, <1>15, <2>1 DEF Reports
<1>17. BodyFit(n, NothingSeen)
  <2>1. NothingSeen \in View /\ Len(NothingSeen.items) = 0
    BY EmptySeq DEF NothingSeen, View
  <2>2. Len(n.items) \in Nat
    BY <1>12, <1>15, LenProperties
  <2>3. 1..0 = {} /\ 0 <= Len(n.items)
    BY <2>2
  <2> QED
    BY <1>13, <1>15, <1>16, <2>1, <2>3 DEF BodyFit, NothingSeen
<1> QED
  BY <1>17 DEF n
-----------------------------------------------------------------------------
(* Replaying a buffered answer.                                            *)

\* emitOutputItem: an item of a buffered answer is shown whole.
LEMMA OutputItemLeads ==
  ASSUME NEW v \in View, v.end = "none", NEW type \in Client!ItemType, type = "reasoning" => ~v.spoken, NEW text
  PROVE  LET w == Grown(v, Whole(type))
             s == OutputItem(Len(v.items) + 1, type, text)
         IN Leads(v, s, w) \/ (type = "message" /\ Leads(v, s, Told(w)))
<1> DEFINE n == Len(v.items) + 1
           w == Grown(v, Whole(type))
           s == OutputItem(n, type, text)
           none == Shown(type, "none", FALSE)
           open == Shown(type, "open", FALSE)
           g == Grown(v, none)
           h == Grown(v, open)
<1>1. Len(v.items) \in Nat
  BY ViewFields
<1>2. none \in Item /\ open \in Item /\ Shown(type, "closed", TRUE) \in Item /\ Shown(type, "none", TRUE) \in Item
  BY DEF Shown, Item, Parts
<1>3. g \in View /\ g.end = "none" /\ n \in DOMAIN g.items /\ g.items[n] = none
  <2>1. g \in View /\ g.end = "none" /\ DOMAIN g.items = 1..(Len(v.items) + 1) /\ g.items[n] = none
    BY <1>2, GrownView
  <2>2. n \in 1..(Len(v.items) + 1)
    BY <1>1
  <2> QED
    BY <2>1, <2>2
<1>4. h \in View /\ h.end = "none" /\ n \in DOMAIN h.items /\ h.items[n] = open /\ h.spoken = v.spoken
  <2>1. h \in View /\ h.end = "none" /\ DOMAIN h.items = 1..(Len(v.items) + 1) /\ h.items[n] = open /\ h.spoken = v.spoken
    BY <1>2, GrownView
  <2>2. n \in 1..(Len(v.items) + 1)
    BY <1>1
  <2> QED
    BY <2>1, <2>2
<1>5. Turned(g, n, Shown(type, "none", TRUE)) = Grown(v, Shown(type, "none", TRUE))
      /\ Turned(h, n, Shown(type, "closed", TRUE)) = Grown(v, Shown(type, "closed", TRUE))
  BY <1>2, TurnedGrown
<1>6. Whole(type) = Shown(type, IF type \in {"message", "reasoning"} THEN "closed" ELSE "none", TRUE)
  BY DEF Whole, Client!HasPart
<1>7. Leads(v, <<Added(n, type)>>, g)
  BY AddedLeads
<1>8. ASSUME type \in {"message", "reasoning"}
      PROVE  Leads(v, PartBegins(n, type), h)
  BY <1>8, PartBeginsLeads
<1> HIDE DEF g, h, none, open, n
<1>9. CASE type = "message"
  <2> DEFINE t == Told(h)
             u == IF text = "blank" THEN h ELSE t
  <2>1. s = (PartBegins(n, type) \o <<TextDelta(n, text)>>) \o PartEnds(n)
    BY <1>9 DEF OutputItem
  <2>2. Leads(h, <<TextDelta(n, text)>>, u)
    BY <1>4, <1>9, DeltaLeads DEF open
  <2>3. t \in View /\ t.end = "none" /\ n \in DOMAIN t.items /\ t.items[n] = open
    BY <1>4, ViewFields DEF Told
  <2>4. u \in View /\ u.end = "none" /\ n \in DOMAIN u.items /\ u.items[n] = open
    BY <1>4, <2>3
  <2>5. Turned(u, n, Shown(type, "closed", TRUE)) \in {w, Told(w)}
    <3>1. Turned(t, n, Shown(type, "closed", TRUE)) = Told(Turned(h, n, Shown(type, "closed", TRUE)))
      BY DEF Turned, Told
    <3>2. w = Grown(v, Shown(type, "closed", TRUE))
      BY <1>6, <1>9
    <3> HIDE DEF t, w
    <3> QED
      BY <1>5, <3>1, <3>2
  <2> HIDE DEF u, t
  <2>6. Leads(u, PartEnds(n), Turned(u, n, Shown(type, "closed", TRUE)))
    BY <1>9, <2>4, PartEndsLeads DEF open
  <2>7. Leads(v, PartBegins(n, type) \o <<TextDelta(n, text)>>, u)
    BY <1>8, <1>9, <2>2, LeadsOn
  <2>8. Leads(v, s, Turned(u, n, Shown(type, "closed", TRUE)))
    <3> DEFINE a == PartBegins(n, type) \o <<TextDelta(n, text)>>
    <3>1. s = a \o PartEnds(n)
      BY <2>1
    <3>2. Leads(v, a, u)
      BY <2>7
    <3> HIDE DEF a
    <3> QED
      BY <2>6, <3>1, <3>2, LeadsOn
  <2> HIDE DEF s, w
  <2>9. Leads(v, s, w) \/ (type = "message" /\ Leads(v, s, Told(w)))
    BY <1>9, <2>5, <2>8
  <2> QED
    BY <2>9 DEF s, w, n
<1>10. CASE type = "reasoning"
  <2>1. s = (PartBegins(n, type) \o <<ThoughtDelta(n)>>) \o PartEnds(n)
    BY <1>10 DEF OutputItem
  <2>2. Leads(h, <<ThoughtDelta(n)>>, h)
    BY <1>4, <1>10, DeltaLeads DEF open
  <2>3. Leads(h, PartEnds(n), w)
    <3>1. Leads(h, PartEnds(n), Turned(h, n, Shown(type, "closed", TRUE)))
      BY <1>4, <1>10, PartEndsLeads DEF open
    <3>2. w = Grown(v, Shown(type, "closed", TRUE))
      BY <1>6, <1>10
    <3> QED
      BY <1>5, <3>1, <3>2
  <2> HIDE DEF w
  <2>4. Leads(v, PartBegins(n, type) \o <<ThoughtDelta(n)>>, h)
    BY <1>8, <1>10, <2>2, LeadsOn
  <2>5. Leads(v, s, w)
    <3> DEFINE a == PartBegins(n, type) \o <<ThoughtDelta(n)>>
    <3>1. s = a \o PartEnds(n)
      BY <2>1
    <3>2. Leads(v, a, h)
      BY <2>4
    <3> HIDE DEF a
    <3> QED
      BY <2>3, <3>1, <3>2, LeadsOn
  <2> QED
    BY <2>5 DEF s, w, n
<1>11. CASE type \in {"sealed", "function_call", "web_search_call"}
  <2>1. w = Turned(g, n, Shown(type, "none", TRUE))
    BY <1>5, <1>6, <1>11
  <2>2. /\ Leads(g, <<About("done", n)>>, w) /\ Leads(g, <<About("progress", n)>>, g)
        /\ Leads(g, <<About("progress", n), About("done", n)>>, w)
    BY <1>3, <1>11, <2>1, DoneLeads DEF none
  <2> HIDE DEF w
  <2>3. CASE type = "sealed"
    <3>1. s = <<Added(n, type)>> \o <<About("done", n)>>
      BY <2>3, InARow DEF OutputItem
    <3>2. Leads(v, s, w)
      BY <1>7, <2>2, <3>1, LeadsOn
    <3> QED
      BY <3>2 DEF s, w, n
  <2>4. CASE type = "function_call"
    <3>1. s = <<Added(n, type), About("progress", n), About("progress", n), About("done", n)>>
      BY <2>4 DEF OutputItem
    <3>2. Leads(g, <<About("progress", n)>> \o <<About("progress", n), About("done", n)>>, w)
      BY <2>2, LeadsOn
    <3>3. Leads(g, <<About("progress", n), About("progress", n), About("done", n)>>, w)
      BY <3>2, InARow
    <3>4. Leads(v, <<Added(n, type)>> \o <<About("progress", n), About("progress", n), About("done", n)>>, w)
      BY <1>7, <3>3, LeadsOn
    <3>5. <<Added(n, type)>> \o <<About("progress", n), About("progress", n), About("done", n)>> = s
      <4> DEFINE x == Added(n, type)
                 y == About("progress", n)
                 z == About("done", n)
      <4>1. <<x>> \o <<y, y, z>> = <<x, y, y, z>>
        <5> HIDE DEF x, y, z
        <5>1. \A X, Y, Z : <<X>> \o <<Y, Y, Z>> = <<X, Y, Y, Z>>
          <6> SUFFICES ASSUME NEW X, NEW Y, NEW Z
                       PROVE  <<X>> \o <<Y, Y, Z>> = <<X, Y, Y, Z>>
            OBVIOUS
          <6> DEFINE S == {X, Y, Z}
                     t == <<Y, Y, Z>>
                     u == <<X, Y, Y, Z>>
          <6>1. /\ t \in Seq(S) /\ u \in Seq(S) /\ X \in S /\ Len(t) = 3 /\ Len(u) = 4
                /\ u[1] = X /\ u[2] = Y /\ u[3] = Y /\ u[4] = Z /\ t[1] = Y /\ t[2] = Y /\ t[3] = Z
            OBVIOUS
          <6> HIDE DEF S, t, u
          <6>2. Len(u) = Len(t) + 1 /\ \A p \in 1..Len(t) : u[p + 1] = t[p]
            BY <6>1
          <6>3. <<X>> \o t = u
            BY <6>1, <6>2, PutBefore
          <6> QED
            BY <6>3 DEF t, u
        <5> QED
          BY <5>1
      <4> QED
        BY <3>1, <4>1
    <3>6. Leads(v, s, w)
      BY <3>4, <3>5
    <3> QED
      BY <3>6 DEF s, w, n
  <2>5. CASE type = "web_search_call"
    <3>1. s = SearchBegins(n) \o SearchEnds(n)
      BY <2>5 DEF OutputItem
    <3>2. Leads(v, SearchBegins(n), g)
      BY <2>5, SearchLeads DEF g, none, n
    <3>3. Leads(g, SearchEnds(n), w)
      BY <2>2 DEF SearchEnds
    <3>4. Leads(v, s, w)
      BY <3>1, <3>2, <3>3, LeadsOn
    <3> QED
      BY <3>4 DEF s, w, n
  <2> QED
    BY <1>11, <2>3, <2>4, <2>5
<1> QED
  BY <1>9, <1>10, <1>11 DEF Client!ItemType

\* A turn of the replay shows the next item, or ends the stream.
LEMMA ReplayTurnComes ==
  ASSUME NEW r, NEW v, BodyFit(r, v), r.finishing
  PROVE  Comes("body", ReplayTurn(r), v)
<1> DEFINE k == r.shown
           total == Len(r.items)
<1>1. /\ r \in AnswerState /\ v \in View /\ Ordered(r.items) /\ Reports(r) /\ k = Len(v.items) /\ k <= total
      /\ \A i \in 1..k : v.items[i] = Whole(r.items[i])
      /\ v.spoken => \E i \in 1..k : r.items[i] = "message"
      /\ v.end = "none"
  BY DEF BodyFit
<1>2. /\ r.items \in Seq(Client!ItemType) /\ total \in Nat /\ k \in Nat /\ DOMAIN r.items = 1..total
      /\ r.finishing \in BOOLEAN
  BY <1>1, LenProperties DEF AnswerState
<1>3. DOMAIN v.items = 1..k /\ v.items \in Seq(Item)
  BY <1>1, ViewFields
<1>4. CASE k < total
  <2> DEFINE type == r.items[k + 1]
             s == OutputItem(k + 1, type, r.text)
             w == Grown(v, Whole(type))
             up == k + 1
             n == [r EXCEPT !.shown = up]
  <2>1. k + 1 \in 1..total /\ type \in Client!ItemType
    <3>1. k + 1 \in 1..total
      BY <1>2, <1>4
    <3> QED
      BY <1>2, <3>1, ElementOfSeq
  <2>2. type = "reasoning" => ~v.spoken
    <3> SUFFICES ASSUME type = "reasoning", v.spoken
                 PROVE  FALSE
      OBVIOUS
    <3>1. PICK i \in 1..k : r.items[i] = "message"
      BY <1>1
    <3>2. i \in 1..total /\ i < k + 1
      BY <1>2, <1>4
    <3> QED
      BY <1>1, <1>2, <2>1, <3>1, <3>2 DEF Ordered
  <2>3. Leads(v, s, w) \/ (type = "message" /\ Leads(v, s, Told(w)))
    BY <1>1, <2>1, <2>2, OutputItemLeads
  <2>4. ReplayTurn(r) = {Outcome(n, s, FALSE)}
    BY <1>4 DEF ReplayTurn, Emits
  <2> HIDE DEF s
  <2>5. n \in AnswerState /\ n.items = r.items /\ n.body = r.body /\ n.shown = k + 1 /\ n.finishing = r.finishing
    <3>1. up \in Nat /\ up = k + 1
      BY <1>2
    <3> HIDE DEF up
    <3>2. n.shown = up
      BY <1>1 DEF AnswerState
    <3> QED
      BY <1>1, <3>1, <3>2 DEF AnswerState
  <2> HIDE DEF n
  <2>6. Whole(type) \in Item
    BY <2>1 DEF Whole, Shown, Item, Parts
  <2>7. /\ w \in View /\ Len(w.items) = k + 1 /\ w.items[k + 1] = Whole(type)
        /\ \A j \in 1..k : w.items[j] = v.items[j]
        /\ w.spoken = v.spoken /\ w.end = "none"
    BY <1>1, <2>6, GrownView
  <2>8. Told(w) \in View /\ Told(w).items = w.items /\ Told(w).end = w.end /\ Told(w).spoken = TRUE
    BY <2>7, ViewFields DEF Told
  <2>9. Reports(n)
    BY <1>1, <2>5 DEF Reports
  <2> HIDE DEF w
  <2>10. \A x \in View : /\ x.items = w.items /\ x.end = "none"
                         /\ x.spoken => v.spoken \/ type = "message"
                         => BodyFit(n, x)
    <3> SUFFICES ASSUME NEW x \in View, x.items = w.items, x.end = "none", x.spoken => v.spoken \/ type = "message"
                 PROVE  BodyFit(n, x)
      OBVIOUS
    <3>1. \A j \in 1..(k + 1) : x.items[j] = Whole(r.items[j])
      <4> SUFFICES ASSUME NEW j \in 1..(k + 1)
                   PROVE  x.items[j] = Whole(r.items[j])
        OBVIOUS
      <4>1. j = k + 1 \/ j \in 1..k
        BY <1>2
      <4> QED
        BY <1>1, <2>7, <4>1
    <3>2. x.spoken => \E j \in 1..(k + 1) : r.items[j] = "message"
      <4>1. k + 1 \in 1..(k + 1) /\ \A j \in 1..k : j \in 1..(k + 1)
        BY <1>2
      <4> QED
        BY <1>1, <4>1
    <3>3. k + 1 <= total
      BY <1>2, <1>4
    <3> QED
      BY <1>1, <2>5, <2>7, <2>9, <3>1, <3>2, <3>3 DEF BodyFit
  <2>11. BodyFit(n, w) /\ (type = "message" => BodyFit(n, Told(w)))
    BY <2>7, <2>8, <2>10
  <2> DEFINE q == Outcome(n, s, FALSE)
  <2>12. IsOutcome(q) /\ q.state = n /\ q.out = s /\ q.bad = FALSE
    BY DEF IsOutcome, Outcome
  <2> HIDE DEF q
  <2>13. ComesBy("body", q, v)
    BY <2>3, <2>7, <2>8, <2>11, <2>12 DEF ComesBy, CameTo, Fit
  <2> QED
    BY <2>4, <2>13 DEF Comes, q
<1>5. CASE ~(k < total)
  <2> DEFINE n == [r EXCEPT !.finishing = FALSE]
             w == [items |-> v.items, spoken |-> v.spoken, end |-> "terminal"]
             q == Outcome(n, <<Terminal>>, FALSE)
  <2>1. ReplayTurn(r) = {q}
    BY <1>5 DEF ReplayTurn, Emits
  <2>2. n \in AnswerState /\ n.items = r.items /\ n.body = r.body /\ n.shown = k /\ n.finishing = FALSE
    BY <1>1, <1>2 DEF AnswerState
  <2>3. k = total
    BY <1>1, <1>2, <1>5
  <2>4. \A i \in DOMAIN v.items : v.items[i].done
    <3> SUFFICES ASSUME NEW i \in 1..k
                 PROVE  v.items[i].done
      BY <1>3
    <3>1. v.items[i] = Whole(r.items[i])
      BY <1>1
    <3>2. Whole(r.items[i]).done = TRUE
      BY DEF Whole, Shown
    <3> QED
      BY <3>1, <3>2
  <2>5. Leads(v, <<Terminal>>, w) /\ w \in View
    <3>1. "terminal" \in {"announce", "terminal", "error"}
      OBVIOUS
    <3> QED
      BY <1>1, <2>4, <3>1, PlainLeads DEF Terminal
  <2>6. w.items = v.items /\ w.spoken = v.spoken /\ w.end = "terminal"
    OBVIOUS
  <2>7. IsOutcome(q) /\ q.state = n /\ q.out = <<Terminal>> /\ q.bad = FALSE
    BY DEF IsOutcome, Outcome
  <2> HIDE DEF q, w, n
  <2>8. Reports(n)
    BY <1>1, <2>2 DEF Reports
  <2>9. BodyFit(n, w)
    BY <1>1, <2>2, <2>3, <2>5, <2>6, <2>8 DEF BodyFit
  <2>10. ComesBy("body", q, v)
    BY <2>5, <2>7, <2>9 DEF ComesBy, CameTo, Fit
  <2> QED
    BY <2>1, <2>10 DEF Comes
<1> QED
  BY <1>4, <1>5
-----------------------------------------------------------------------------
(* The handler's state and the client's view, whatever the protocol.       *)

Protocols == {"messages", "chat"}
Kinds == Protocols \cup {"body"}

\* When the stream is over, and when a loop of finish or of the replay goes on.
LEMMA FitEnds ==
  ASSUME NEW kind \in Kinds, NEW s, NEW v, Fit(kind, s, v)
  PROVE  /\ v \in View /\ (s.finishing => v.end = "none")
         /\ kind # "body" => (s.terminal <=> v.end # "none")
<1>1. CASE kind = "messages"
  <2>1. MessagesFit(s, v)
    BY <1>1 DEF Fit
  <2> QED
    BY <1>1, <2>1 DEF MessagesFit, MessagesState
<1>2. CASE kind = "chat"
  <2>1. PICK stage : ChatFitsAt(s, v, stage)
    BY <1>2 DEF Fit, ChatFit
  <2>2. v \in View /\ s \in ChatState /\ (v.end # "none" <=> s.terminal) /\ s.finishing = (Past(stage) /\ ~s.terminal)
    BY <2>1 DEF ChatFitsAt
  <2>3. s.terminal \in BOOLEAN
    BY <2>2 DEF ChatState
  <2> QED
    BY <1>2, <2>2, <2>3
<1>3. CASE kind = "body"
  <2>1. BodyFit(s, v)
    BY <1>3 DEF Fit
  <2> QED
    BY <1>3, <2>1 DEF BodyFit
<1> QED
  BY <1>1, <1>2, <1>3 DEF Kinds, Protocols

\* Before the first frame nothing is known, and nothing was seen.
LEMMA InitialFits ==
  ASSUME NEW p \in Protocols, NEW hosted \in BOOLEAN
  PROVE  LET s == Initial(p, hosted) IN
         Fit(p, s, NothingSeen) /\ s.terminal = FALSE /\ s.finishing = FALSE /\ s.hosted = hosted
<1> DEFINE s == Initial(p, hosted)
<1>1. /\ NothingSeen \in View /\ NothingSeen.items = <<>> /\ Len(NothingSeen.items) = 0 /\ NothingSeen.spoken = FALSE
      /\ NothingSeen.end = "none" /\ DOMAIN NothingSeen.items = {}
  BY EmptySeq DEF NothingSeen, View
<1>2. CASE p = "messages"
  <2>1. s = MessagesInit(hosted)
    BY <1>2 DEF Initial
  <2>2. /\ s \in MessagesState /\ s.calls = {} /\ s.items = 0 /\ s.terminal = FALSE /\ s.finishing = FALSE
        /\ s.hosted = hosted /\ \A i \in Blocks : s.blocks[i] = NoBlock
    BY <2>1 DEF MessagesInit, MessagesState
  <2> HIDE DEF s
  <2>3. BlocksFit(s, NothingSeen) /\ CallsFit(s, NothingSeen) /\ Accounted(s, NothingSeen)
    <3>1. \A i \in Blocks : Owed(s.blocks[i]) /\ ~Owns(s.blocks[i])
      BY <2>2 DEF Owed, Owns
    <3> QED
      BY <1>1, <2>2, <3>1 DEF BlocksFit, CallsFit, Accounted
  <2>4. MessagesFit(s, NothingSeen)
    BY <1>1, <2>2, <2>3 DEF MessagesFit
  <2> QED
    BY <1>2, <2>2, <2>4 DEF Fit, s
<1>3. CASE p = "chat"
  <2>1. s = ChatInit(hosted)
    BY <1>3 DEF Initial
  <2>2. /\ s \in ChatState /\ s.reasoning = 0 /\ s.message = 0 /\ s.search = 0 /\ s.items = 0 /\ s.terminal = FALSE
        /\ s.finishing = FALSE /\ s.hosted = hosted /\ \A i \in Tools : s.tools[i].item = 0
    <3>1. NoTool \in ToolState /\ NoTool.item = 0
      BY DEF NoTool, ToolState
    <3> HIDE DEF NoTool
    <3> QED
      BY <2>1, <3>1 DEF ChatInit, ChatState
  <2> HIDE DEF s
  <2>3. Past("open") = FALSE /\ \A i, left : ~Ended("open", i, left)
    BY DEF Past, Ended
  <2>4. PartsFit(s, NothingSeen, "open") /\ ToolsFit(s, NothingSeen, "open") /\ Known(s, NothingSeen)
    BY <1>1, <2>2, <2>3 DEF PartsFit, ToolsFit, Known, Placed
  <2>5. ChatFitsAt(s, NothingSeen, "open")
    BY <1>1, <2>2, <2>3, <2>4 DEF ChatFitsAt
  <2>6. ChatFit(s, NothingSeen)
    BY <1>1, <2>2, <2>5 DEF ChatFit
  <2> QED
    BY <1>3, <2>2, <2>6 DEF Fit, s
<1> QED
  BY <1>2, <1>3 DEF Protocols

\* response.created and response.in_progress are no items.
LEMMA OpeningLeads == Leads(NothingSeen, Opening, NothingSeen) /\ NothingSeen \in View
<1>1. NothingSeen \in View /\ NothingSeen.items = <<>> /\ NothingSeen.end = "none"
  BY EmptySeq DEF NothingSeen, View
<1>2. Leads(NothingSeen, <<About("announce", 0)>>, NothingSeen)
  <2>1. [items |-> NothingSeen.items, spoken |-> NothingSeen.spoken, end |-> "none"] = NothingSeen
    BY DEF NothingSeen
  <2>2. "announce" \in {"announce", "terminal", "error"}
    OBVIOUS
  <2> QED
    BY <1>1, <2>1, <2>2, PlainLeads
<1>3. Leads(NothingSeen, <<About("announce", 0)>> \o <<About("announce", 0)>>, NothingSeen)
  BY <1>2, LeadsOn
<1> QED
  BY <1>1, <1>3, InARow DEF Opening

\* A frame of the upstream.
FrameOutcomes(p, s, f) == IF p = "messages" THEN HandleMessages(s, f) ELSE HandleChat(s, f)

\* What a frame comes to.
LEMMA FrameComes ==
  ASSUME NEW p \in Protocols, NEW s, NEW v, Fit(p, s, v), ~s.terminal, ~s.finishing, NEW f,
         p = "messages" => f \in MessagesFrame /\ MessagesSends(s, f),
         p = "chat" => f \in ChatFrame
  PROVE  Comes(p, FrameOutcomes(p, s, f), v)
<1>1. v.end = "none"
  BY FitEnds DEF Kinds, Protocols
<1>2. CASE p = "messages"
  BY <1>2, HandleMessagesComes DEF Fit, FrameOutcomes
<1>3. CASE p = "chat"
  <2>1. ChatFitsAt(s, v, "open")
    BY <1>1, <1>3 DEF Fit, ChatFit
  <2> QED
    BY <1>3, <2>1, HandleChatComes DEF FrameOutcomes
<1> QED
  BY <1>2, <1>3 DEF Protocols

\* The next turn of a loop.
TurnOutcomes(kind, s) ==
  IF kind = "body" THEN ReplayTurn(s) ELSE IF kind = "messages" THEN MessagesFinishTurn(s) ELSE ChatFinishTurn(s)

\* What a turn comes to.
LEMMA TurnComes ==
  ASSUME NEW kind \in Kinds, NEW s, NEW v, Fit(kind, s, v), s.finishing
  PROVE  Comes(kind, TurnOutcomes(kind, s), v)
<1>1. v.end = "none" /\ (kind # "body" => ~s.terminal)
  BY FitEnds
<1>2. CASE kind = "messages"
  BY <1>1, <1>2, MessagesFinishTurnComes DEF Fit, TurnOutcomes
<1>3. CASE kind = "chat"
  <2>1. ChatFitsAt(s, v, "calls")
    BY <1>3 DEF Fit, ChatFit
  <2> QED
    BY <1>1, <1>3, <2>1, ChatFinishTurnComes DEF TurnOutcomes
<1>4. CASE kind = "body"
  BY <1>4, ReplayTurnComes DEF Fit, TurnOutcomes
<1> QED
  BY <1>2, <1>3, <1>4 DEF Kinds, Protocols

\* finish stands in for the end that the upstream did not send.
LEMMA LateFinishComes ==
  ASSUME NEW p \in Protocols, NEW s, NEW v, Fit(p, s, v), ~s.terminal, p = "chat" => ~s.finishing
  PROVE  Comes(p, IF p = "messages" THEN MessagesFinish(s) ELSE ChatFinish(s), v)
<1>1. v.end = "none" /\ v \in View
  BY FitEnds DEF Kinds, Protocols
<1>2. CASE p = "messages"
  BY <1>2, MessagesFinishComes DEF Fit
<1>3. CASE p = "chat"
  <2>1. ChatFitsAt(s, v, "open")
    BY <1>1, <1>3 DEF Fit, ChatFit
  <2>2. Keep("calls", ChatFinish(s), v)
    BY <2>1, ChatFinishKeeps
  <2>3. "calls" \in {"open", "calls"}
    OBVIOUS
  <2> QED
    BY <1>1, <1>3, <2>2, <2>3, ChatKeptComes
<1> QED
  BY <1>2, <1>3 DEF Protocols

\* What a completed answer has reported, given what the client has seen.
DoneItem(items, item, type) == item \in DOMAIN items /\ items[item].type = type /\ items[item].done
AllReported(p, s, items) ==
  CASE "body" \in DOMAIN s ->
         /\ Cardinality({i \in DOMAIN items : DoneItem(items, i, "function_call")}) = CallsIn(s.body)
         /\ Cardinality({i \in DOMAIN items : DoneItem(items, i, "web_search_call")}) >= SearchesIn(s.body)
    [] p = "chat" /\ "body" \notin DOMAIN s ->
         \A i \in Tools : s.tools[i].seen => DoneItem(items, s.tools[i].item, "function_call")
    [] OTHER ->
         /\ \A i \in Blocks : s.blocks[i].kind = "tool_use" => DoneItem(items, s.blocks[i].item, "function_call")
         /\ \A c \in s.calls : DoneItem(items, c.item, "web_search_call")

\* A state that fits an ended stream has reported everything.
LEMMA FitReports ==
  ASSUME NEW p \in Protocols, NEW kind \in {p, "body"}, NEW s, NEW v, Fit(kind, s, v), v.end = "terminal"
  PROVE  AllReported(p, s, v.items)
<1>1. CASE kind = "messages"
  <2>1. MessagesFit(s, v) /\ p = "messages"
    BY <1>1 DEF Fit
  <2>2. s \in MessagesState /\ "body" \notin DOMAIN s
    BY <2>1 DEF MessagesFit, MessagesState
  <2>3. Unstopped(s) = {} /\ Unfinished(s) = {} /\ BlocksFit(s, v) /\ CallsFit(s, v)
    BY <2>1 DEF MessagesFit
  <2>4. ASSUME NEW i \in Blocks, s.blocks[i].kind = "tool_use"
        PROVE  DoneItem(v.items, s.blocks[i].item, "function_call")
    <3>1. s.blocks[i] # NoBlock
      BY <2>4 DEF NoBlock
    <3>2. s.blocks[i] \in BlockState
      BY <2>2, <3>1 DEF MessagesState
    <3>3. s.blocks[i].done = TRUE
      BY <2>3, <3>1, <3>2 DEF Unstopped, BlockState
    <3>4. Owns(s.blocks[i])
      BY <2>3, <2>4, <3>1 DEF BlocksFit, Owed, Owns, OwnKinds
    <3>5. s.blocks[i].item \in DOMAIN v.items /\ v.items[s.blocks[i].item] = BlockItem("tool_use", TRUE)
      BY <2>3, <2>4, <3>3, <3>4 DEF BlocksFit
    <3>6. BlockItem("tool_use", TRUE) = Shown("function_call", "none", TRUE)
      BY DEF BlockItem, TypeOf
    <3>7. Shown("function_call", "none", TRUE).type = "function_call" /\ Shown("function_call", "none", TRUE).done = TRUE
      BY DEF Shown
    <3>8. /\ v.items[s.blocks[i].item].type = "function_call"
          /\ v.items[s.blocks[i].item].done = TRUE
      BY <3>5, <3>6, <3>7
    <3> QED
      BY <3>5, <3>8 DEF DoneItem
  <2>5. ASSUME NEW c \in s.calls
        PROVE  DoneItem(v.items, c.item, "web_search_call")
    <3>1. c \in CallState
      BY <2>2 DEF MessagesState
    <3>2. c.emitted = TRUE
      BY <2>3, <3>1 DEF Unfinished, CallState
    <3>3. c.item \in DOMAIN v.items /\ v.items[c.item] = CallItem(TRUE)
      BY <2>3, <3>2 DEF CallsFit
    <3> QED
      BY <3>3 DEF DoneItem, CallItem, Shown
  <2> QED
    BY <2>1, <2>2, <2>4, <2>5 DEF AllReported
<1>2. CASE kind = "chat"
  <2>1. ChatFit(s, v) /\ p = "chat"
    BY <1>2 DEF Fit
  <2>2. ~s.finishing
    BY <1>2, FitEnds DEF Kinds, Protocols
  <2>3. ChatFitsAt(s, v, "searched")
    BY <2>1, <2>2 DEF ChatFit
  <2>4. s \in ChatState /\ "body" \notin DOMAIN s /\ s.left = {} /\ ToolsFit(s, v, "searched")
    BY <2>3 DEF ChatFitsAt, ChatState
  <2>5. \A i : Ended("searched", i, s.left) = TRUE
    BY <2>4 DEF Ended, Past
  <2>6. ASSUME NEW i \in Tools, s.tools[i].seen
        PROVE  DoneItem(v.items, s.tools[i].item, "function_call")
    <3>1. s.tools[i].item # 0 /\ Placed(v, s.tools[i].item, ToolItem(Ended("searched", i, s.left)))
      BY <2>4, <2>5, <2>6 DEF ToolsFit
    <3>2. s.tools[i].item \in DOMAIN v.items /\ v.items[s.tools[i].item] = ToolItem(TRUE)
      BY <2>5, <3>1 DEF Placed
    <3> QED
      BY <3>2 DEF DoneItem, ToolItem, Shown
  <2> QED
    BY <2>1, <2>4, <2>6 DEF AllReported
<1>3. CASE kind = "body"
  <2>1. BodyFit(s, v)
    BY <1>3 DEF Fit
  <2>2. /\ s \in AnswerState /\ "body" \in DOMAIN s /\ v \in View /\ Reports(s) /\ s.shown = Len(v.items)
        /\ s.shown = Len(s.items) /\ \A i \in 1..s.shown : v.items[i] = Whole(s.items[i])
    <3>1. s \in AnswerState
      BY <2>1 DEF BodyFit
    <3>2. "body" \in DOMAIN s /\ s.finishing \in BOOLEAN
      BY <3>1 DEF AnswerState
    <3> QED
      BY <2>1, <3>1, <3>2 DEF BodyFit
  <2>3. DOMAIN v.items = 1..s.shown /\ DOMAIN s.items = 1..s.shown
    <3>1. s.items \in Seq(Client!ItemType)
      BY <2>2 DEF AnswerState
    <3>2. DOMAIN s.items = 1..Len(s.items)
      BY <3>1, LenProperties
    <3>3. DOMAIN v.items = 1..Len(v.items)
      BY <2>2, ViewFields
    <3> QED
      BY <2>2, <3>2, <3>3
  <2>4. \A type : {i \in DOMAIN v.items : DoneItem(v.items, i, type)} = Those(s.items, type)
    <3> SUFFICES ASSUME NEW type, NEW i \in 1..s.shown
                 PROVE  DoneItem(v.items, i, type) <=> s.items[i] = type
      BY <2>3 DEF Those
    <3>1. v.items[i] = Whole(s.items[i])
      BY <2>2
    <3>2. Whole(s.items[i]).type = s.items[i] /\ Whole(s.items[i]).done = TRUE
      BY DEF Whole, Shown
    <3> QED
      BY <2>3, <3>1, <3>2 DEF DoneItem
  <2> QED
    BY <2>2, <2>4 DEF AllReported, Reports, Count
<1> QED
  BY <1>1, <1>2, <1>3 DEF Protocols
-----------------------------------------------------------------------------
(* The inductive invariant.                                                *)

\* What the client has seen, and whose state the handler has.
Sight ==
  [items |-> client.items, spoken |-> client.spoken,
   end |-> IF client.phase = "closed" THEN client.last ELSE "none"]
Kind == IF phase = "buffered" THEN "body" ELSE protocol

ClientState ==
  [phase : {"silent", "refused", "open", "closed"}, number : Nat,
   last : {"none", "terminal", "error", "text", "thought", "other"}, spoken : BOOLEAN, about : Nat,
   items : Seq(Item)]

\* The client's stream is numbered by the writer, and ends with its last event.
ClientInv ==
  /\ client \in ClientState /\ sequence \in Nat
  /\ client.phase \in {"silent", "refused"} =>
       client.number = 0 /\ client.last = "none" /\ client.spoken = FALSE /\ client.items = <<>>
  /\ client.phase = "silent" => sequence = 0 /\ client.about = 0
  /\ client.phase = "open" => client.number = sequence
  /\ client.phase = "closed" <=> client.last \in {"terminal", "error"}

Phases ==
  {"starting", "scanning", "finishing", "judging", "completing", "concluding", "converting", "buffered", "ended"}

\* Where the handler is.
PhaseInv ==
  /\ protocol \in Protocols /\ phase \in Phases /\ outcome \in {"none", "ok", "bad"}
  /\ client.phase \in {"silent", "refused"} => phase \in {"starting", "converting", "ended"} /\ outcome = "none"
  /\ phase \in {"judging", "concluding", "converting", "ended"} => outcome = "none"
  /\ phase = "converting" => client.phase = "silent"
  /\ outcome = "none" => out = <<>>
  /\ outcome = "ok" \/ out # <<>> => failed = "none"

\* What it knows there.
StateInv ==
  /\ phase \in {"starting", "converting"} => ~over /\ failed = (IF outcome = "bad" THEN "write" ELSE "none")
  /\ phase = "starting" => \E hosted \in BOOLEAN : state = Initial(protocol, hosted)
  /\ phase = "converting" =>
       IF protocol = "chat" THEN BodyFit(state, NothingSeen) ELSE Converting(state)
  /\ phase = "scanning" /\ outcome # "none" => ~over
  /\ phase = "scanning" /\ ~over /\ outcome = "none" => failed = "none" /\ ~state.terminal
  /\ phase = "scanning" /\ outcome = "none" /\ failed = "none" => ~state.finishing

\* The events yet to be written lead to a view that fits the state.
Awaits(w) ==
  /\ Leads(Sight, out, w)
  /\ IF outcome = "bad" THEN w.end = "none" ELSE Fit(Kind, state, w)
ViewInv ==
  client.phase \in {"open", "closed"} /\ phase # "ended" /\ failed = "none" => \E w \in View : Awaits(w)

IInv == ClientInv /\ PhaseInv /\ StateInv /\ ViewInv /\ CallsReported

-----------------------------------------------------------------------------
(* What the client is shown.                                               *)

\* An open stream is a view that has no end.
LEMMA SightOpen ==
  ASSUME ClientInv
  PROVE  /\ Sight \in View /\ Sight.items = client.items /\ Sight.spoken = client.spoken
         /\ (client.phase # "closed" <=> Sight.end = "none")
         /\ (client.last = "terminal" <=> Sight.end = "terminal")
<1>1. client.items \in Seq(Item) /\ client.spoken \in BOOLEAN
  BY DEF ClientInv, ClientState
<1>2. client.phase = "closed" => client.last \in {"terminal", "error"}
  BY DEF ClientInv
<1>3. Sight \in View
  BY <1>1, <1>2 DEF Sight, View
<1> QED
  BY <1>2, <1>3 DEF Sight, ClientInv

\* An event that suits the client's view is a step of the promised stream.
LEMMA ShowsStep ==
  ASSUME ClientInv, client.phase = "open", NEW e \in AnyEvent, Suits(Sight, e), Seen(Sight, e) \in View, Shows(e)
  PROVE  Client!Next /\ ClientInv' /\ Sight' = Seen(Sight, e) /\ client'.phase \in {"open", "closed"}
<1> DEFINE items == ItemsAfter(client.items, e)
           i == e.item
<1>1. /\ client.items \in Seq(Item) /\ client.spoken \in BOOLEAN /\ client.number = sequence /\ sequence \in Nat
      /\ DOMAIN client.items = 1..Len(client.items) /\ Len(client.items) \in Nat
  <2>1. client.items \in Seq(Item) /\ client.spoken \in BOOLEAN /\ client.number = sequence /\ sequence \in Nat
    BY DEF ClientInv, ClientState
  <2> QED
    BY <2>1, LenProperties
<1>2. /\ sequence' = sequence + 1
      /\ client' = [phase |-> IF e.kind \in {"terminal", "error"} THEN "closed" ELSE "open",
                    number |-> sequence + 1, last |-> Kept(e),
                    spoken |-> client.spoken \/ e.kind = "text", about |-> e.item,
                    items |-> items]
  BY DEF Shows
<1>3. /\ Sight.items = client.items /\ Sight.spoken = client.spoken /\ Sight.end = "none"
      /\ Seen(Sight, e).items = items
  BY SightOpen DEF Seen, Sight
<1>4. items \in Seq(Item)
  BY <1>3 DEF View
<1>5. e.kind \in ItemKinds \cup {"announce", "terminal", "error", "added"} /\ e.item \in Nat
  BY DEF AnyEvent
<1> HIDE DEF items
<1>6. /\ client'.phase = IF e.kind \in {"terminal", "error"} THEN "closed" ELSE "open"
      /\ client'.number = client.number + 1 /\ client'.last = Kept(e)
      /\ client'.spoken = (client.spoken \/ e.kind = "text") /\ client'.about = i /\ client'.items = items
  BY <1>1, <1>2
<1>7. Kept(e) \in {"terminal", "error", "text", "thought", "other"}
      /\ (Kept(e) \in {"terminal", "error"} <=> e.kind \in {"terminal", "error"})
      /\ (e.kind \in {"terminal", "error"} => Kept(e) = e.kind)
  BY <1>5 DEF Kept, ItemKinds
<1>8. ClientInv'
  <2>1. client' \in ClientState
    <3>1. (client.spoken \/ e.kind = "text") \in BOOLEAN /\ sequence + 1 \in Nat
      BY <1>1
    <3> DEFINE kept == Kept(e)
               spoke == client.spoken \/ e.kind = "text"
    <3> HIDE DEF kept, spoke
    <3> QED
      BY <1>2, <1>4, <1>5, <1>7, <3>1 DEF ClientState
  <2>2. client'.phase \in {"open", "closed"} /\ (client'.phase = "closed" <=> e.kind \in {"terminal", "error"})
    BY <1>6
  <2>3. client'.number = sequence' /\ sequence' \in Nat
    BY <1>1, <1>2
  <2> QED
    BY <1>6, <1>7, <2>1, <2>2, <2>3 DEF ClientInv
<1>9. Sight' = Seen(Sight, e)
  <2>1. Sight' = [items |-> items, spoken |-> (client.spoken \/ e.kind = "text"),
                  end |-> IF client'.phase = "closed" THEN client'.last ELSE "none"]
    BY <1>6 DEF Sight
  <2>2. (IF client'.phase = "closed" THEN client'.last ELSE "none") =
          IF e.kind \in {"terminal", "error"} THEN e.kind ELSE "none"
    BY <1>6, <1>7
  <2>3. Seen(Sight, e) = [items |-> items, spoken |-> (client.spoken \/ e.kind = "text"),
                          end |-> IF e.kind \in {"terminal", "error"} THEN e.kind ELSE "none"]
    BY <1>3 DEF Seen, items
  <2> QED
    BY <2>1, <2>2, <2>3
<1>10. client'.phase \in {"open", "closed"}
  BY <1>6
<1>11. Client!Next
  <2>1. CASE e.kind = "announce"
    <3>1. client.items = <<>> /\ i = 0
      BY <1>3, <2>1 DEF Suits
    <3>2. Kept(e) = "other" /\ client'.phase = client.phase /\ client'.spoken = client.spoken
      BY <1>1, <1>6, <2>1 DEF Kept
    <3>3. items = client.items
      BY <2>1, <3>1 DEF items, ItemsAfter
    <3>4. Client!Announce
      BY <1>6, <3>1, <3>2, <3>3 DEF Client!Announce, Client!Other, Client!Events!Other, Client!Events!Tell
    <3> QED
      BY <3>4 DEF Client!Next
  <2>2. CASE e.kind = "terminal"
    <3>1. i = 0 /\ \A j \in DOMAIN client.items : client.items[j].done
      BY <1>3, <2>2 DEF Suits
    <3>2. Kept(e) = "terminal" /\ client'.phase = "closed" /\ client'.spoken = client.spoken
      BY <1>1, <1>6, <2>2 DEF Kept
    <3>3. items = client.items
      <4>1. items = [j \in DOMAIN client.items |-> client.items[j]]
        BY <1>1, <2>2, <3>1 DEF items, ItemsAfter
      <4> QED
        BY <1>1, <4>1
    <3>4. Client!Events!Close
      BY <1>6, <3>2 DEF Client!Events!Close, Client!Events!Tell
    <3>5. Client!Complete
      BY <1>6, <3>1, <3>2, <3>3, <3>4 DEF Client!Complete, Client!AllDone, Client!Close
    <3> QED
      BY <3>5 DEF Client!Next
  <2>3. CASE e.kind = "error"
    <3>1. i = 0
      BY <2>3 DEF Suits
    <3>2. Kept(e) = "error" /\ client'.phase = "closed" /\ client'.spoken = client.spoken
      BY <1>1, <1>6, <2>3 DEF Kept
    <3>3. items = client.items
      <4>1. items = [j \in DOMAIN client.items |-> client.items[j]]
        BY <1>1, <2>3, <3>1 DEF items, ItemsAfter
      <4> QED
        BY <1>1, <4>1
    <3>4. Client!Events!Close
      BY <1>6, <3>2 DEF Client!Events!Close, Client!Events!Tell
    <3>5. Client!Break
      BY <1>6, <3>1, <3>2, <3>3, <3>4 DEF Client!Break, Client!Close
    <3> QED
      BY <3>5 DEF Client!Next
  <2>4. CASE e.kind = "added"
    <3> DEFINE type == e.type
    <3>1. i = Len(client.items) + 1 /\ type \in Client!ItemType /\ (type = "reasoning" => ~client.spoken)
      BY <1>3, <2>4 DEF Suits
    <3>2. e = Added(i, type)
      BY <2>4 DEF AnyEvent, Added, Event
    <3>3. items = Append(client.items, Client!Fresh(type))
      <4>1. Seen(Sight, e) = Grown(Sight, Shown(type, "none", FALSE))
        BY <1>3, <3>1, <3>2, SightOpen, SeesAdded
      <4>2. Shown(type, "none", FALSE) = Client!Fresh(type)
        BY DEF Shown, Client!Fresh
      <4>3. Grown(Sight, Shown(type, "none", FALSE)).items = Append(client.items, Shown(type, "none", FALSE))
        BY <1>3 DEF Grown
      <4> QED
        BY <1>3, <4>1, <4>2, <4>3
    <3>4. Kept(e) = (IF type = "reasoning" THEN "thought" ELSE "other") /\ client'.phase = client.phase
          /\ client'.spoken = client.spoken
      BY <1>1, <1>6, <2>4 DEF Kept
    <3>5. Client!Add(type)
      <4>1. CASE type = "reasoning"
        <5>1. Client!Thought(i)
          BY <1>6, <3>1, <3>4, <4>1 DEF Client!Thought, Client!Events!Thought, Client!Events!Tell
        <5> QED
          BY <1>6, <3>1, <3>3, <4>1, <5>1 DEF Client!Add
      <4>2. CASE type # "reasoning"
        <5>1. Client!Other(i)
          BY <1>6, <3>4, <4>2 DEF Client!Other, Client!Events!Other, Client!Events!Tell
        <5> QED
          BY <1>6, <3>1, <3>3, <4>2, <5>1 DEF Client!Add
      <4> QED
        BY <4>1, <4>2
    <3> QED
      BY <3>1, <3>5 DEF Client!Next
  <2>5. CASE e.kind \in ItemKinds
    <3> DEFINE old == client.items[i]
    <3>1. /\ i \in DOMAIN client.items /\ ItemSuits(old, e.kind) /\ (e.kind = "thought" => ~client.spoken)
      BY <1>3, <2>5 DEF Suits
    <3>2. e.kind \notin {"added", "terminal", "error", "announce"}
      BY <2>5 DEF ItemKinds
    <3>3. items = [client.items EXCEPT ![i] = ItemAfter(old, e.kind)]
      BY <1>1, <3>2 DEF items, ItemsAfter
    <3>4. /\ client'.phase = client.phase
          /\ e.kind \notin {"text", "thought"} => Kept(e) = "other" /\ client'.spoken = client.spoken
      BY <1>1, <1>6, <3>2 DEF Kept
    <3>5. e.kind \notin {"text", "thought"} => Client!Other(i)
      BY <1>6, <3>4 DEF Client!Other, Client!Events!Other, Client!Events!Tell
    <3>6. e.kind \notin {"part", "partDone", "done"} => client'.items = client.items
      <4>1. e.kind \notin {"part", "partDone", "done"} => ItemAfter(old, e.kind) = old
        BY DEF ItemAfter
      <4>2. [client.items EXCEPT ![i] = old] = client.items
        BY <1>1, <3>1
      <4> QED
        BY <1>6, <3>3, <4>1, <4>2
    <3>7. Client!Mark(i, ItemAfter(old, e.kind))
      BY <1>6, <3>3 DEF Client!Mark
    <3>8. Client!Touch(i)
      <4>1. CASE e.kind = "part"
        BY <3>1, <3>5, <3>7, <4>1 DEF ItemSuits, ItemAfter, Client!OpenPart, Client!Touch
      <4>2. CASE e.kind = "repeat"
        BY <3>1, <3>5, <3>6, <4>2 DEF ItemSuits, Client!Repeat, Client!Touch
      <4>3. CASE e.kind = "partDone"
        BY <3>1, <3>5, <3>7, <4>3 DEF ItemSuits, ItemAfter, Client!ClosePart, Client!Touch
      <4>4. CASE e.kind = "done"
        BY <3>1, <3>5, <3>7, <4>4 DEF ItemSuits, ItemAfter, Client!Done, Client!Touch
      <4>5. CASE e.kind = "progress"
        BY <3>1, <3>5, <3>6, <4>5 DEF ItemSuits, Client!Progress, Client!Touch
      <4>6. CASE e.kind = "blank"
        BY <3>1, <3>5, <3>6, <4>6 DEF ItemSuits, Client!SayBlank, Client!Touch
      <4>7. CASE e.kind = "text"
        <5>1. Kept(e) = "text" /\ client'.spoken = TRUE
          BY <1>6, <4>7 DEF Kept
        <5>2. Client!Events!Text
          BY <1>6, <3>4, <5>1 DEF Client!Events!Text, Client!Events!Tell
        <5> QED
          BY <1>6, <3>1, <3>6, <4>7, <5>2 DEF ItemSuits, Client!Say, Client!Touch
      <4>8. CASE e.kind = "thought"
        <5>1. Kept(e) = "thought" /\ client'.spoken = client.spoken
          BY <1>1, <1>6, <4>8 DEF Kept
        <5>2. Client!Thought(i)
          BY <1>6, <3>1, <3>4, <4>8, <5>1 DEF Client!Thought, Client!Events!Thought, Client!Events!Tell
        <5> QED
          BY <3>1, <3>6, <4>8, <5>2 DEF ItemSuits, Client!Think, Client!Touch
      <4> QED
        BY <2>5, <4>1, <4>2, <4>3, <4>4, <4>5, <4>6, <4>7, <4>8 DEF ItemKinds
    <3> QED
      BY <3>1, <3>8 DEF Client!Next
  <2> QED
    BY <1>5, <2>1, <2>2, <2>3, <2>4, <2>5
<1> QED
  BY <1>8, <1>9, <1>10, <1>11
-----------------------------------------------------------------------------
(* What a step leaves as it is, and what it adds.                          *)

\* CallsReported, by what it depends on.
LEMMA ReportedNext ==
  /\ (client'.last = "terminal" => AllReported(protocol', state', client'.items)) => CallsReported'
  /\ CallsReported => (client.last = "terminal" => AllReported(protocol, state, client.items))
BY DEF CallsReported, ReportedOf, Reported, AllReported, DoneItem

\* A step that leaves the client and the handler's state alone.
LEMMA ReportedSame ==
  ASSUME CallsReported, UNCHANGED <<client, protocol, state>>
  PROVE  CallsReported'
BY ReportedNext

\* Neither the timer nor a cancellation touches what the invariant is about.
LEMMA SameInv ==
  ASSUME IInv, UNCHANGED <<protocol, client, phase, over, failed, state, out, outcome, sequence>>
  PROVE  IInv' /\ UNCHANGED Client!vars
<1>1. ClientInv'
  BY DEF IInv, ClientInv
<1>2. PhaseInv'
  BY DEF IInv, PhaseInv, Phases
<1>3. StateInv'
  BY DEF IInv, StateInv
<1>4. ViewInv'
  BY DEF IInv, ViewInv, Awaits, Sight, Kind
<1>5. CallsReported'
  BY ReportedSame DEF IInv
<1> QED
  BY <1>1, <1>2, <1>3, <1>4, <1>5 DEF IInv, Client!vars

\* What the handler does at the end of a step: the events that follow and the
\* state they leave.
LEMMA RunsAwaits ==
  ASSUME ClientInv, client.phase = "open", NEW results, Comes(Kind', results, Sight), Runs(results),
         UNCHANGED client
  PROVE  /\ outcome' \in {"ok", "bad"} /\ \E w \in View : Awaits(w)' /\ CallsReported'
<1>1. PICK r \in results : state' = r.state /\ out' = r.out /\ outcome' = IF r.bad THEN "bad" ELSE "ok"
  BY DEF Runs
<1>2. IsOutcome(r) /\ \E w \in View : CameTo(Kind', r, Sight, w)
  BY DEF Comes, ComesBy
<1>3. PICK w \in View : CameTo(Kind', r, Sight, w)
  BY <1>2
<1>4. r.bad \in BOOLEAN
  BY <1>2 DEF IsOutcome
<1>5. Sight' = Sight
  BY DEF Sight
<1>6. Leads(Sight', out', w) /\ IF outcome' = "bad" THEN w.end = "none" ELSE Fit(Kind', state', w)
  BY <1>1, <1>3, <1>4, <1>5 DEF CameTo
<1>7. Awaits(w)'
  BY <1>6 DEF Awaits
<1>8. client'.last # "terminal"
  BY DEF ClientInv
<1> QED
  BY <1>1, <1>4, <1>7, <1>8, ReportedNext

\* A handler that is not running has a state that fits what was seen.
LEMMA RestFits ==
  ASSUME IInv, outcome = "none", failed = "none", client.phase \in {"open", "closed"}, phase # "ended"
  PROVE  Fit(Kind, state, Sight) /\ out = <<>>
<1>1. out = <<>>
  BY DEF IInv, PhaseInv
<1>2. PICK w \in View : Awaits(w)
  BY DEF IInv, ViewInv
<1>3. w = Sight
  <2>1. Sight \in View
    BY SightOpen DEF IInv
  <2> QED
    BY <1>1, <1>2, <2>1, LeadsNowhere DEF Awaits
<1> QED
  BY <1>1, <1>2, <1>3 DEF Awaits
-----------------------------------------------------------------------------
(* The steps.                                                              *)

\* Emit.
LEMMA EmitStep == ASSUME IInv, Emit PROVE IInv' /\ [Client!Next]_(Client!vars)
<1>1. /\ out # <<>> /\ UNCHANGED <<protocol, phase, over, state>>
      /\ ClientInv /\ PhaseInv /\ StateInv /\ ViewInv /\ CallsReported
  BY DEF Emit, IInv
<1>2. /\ outcome \in {"ok", "bad"} /\ failed = "none" /\ client.phase \in {"open", "closed"}
      /\ phase \notin {"judging", "concluding", "converting", "ended"}
  BY <1>1 DEF PhaseInv, ClientInv, ClientState
<1>3. PICK w \in View : Awaits(w)
  BY <1>1, <1>2 DEF ViewInv
<1>4. CASE WriteFails /\ UNCHANGED <<client, sequence>>
  <2>1. failed' = "write" /\ outcome' = "bad" /\ out' = <<>> /\ client' = client /\ sequence' = sequence
    BY <1>4 DEF WriteFails
  <2>2. ClientInv'
    BY <1>1, <2>1 DEF ClientInv
  <2>3. PhaseInv'
    BY <1>1, <1>2, <2>1 DEF PhaseInv, Phases
  <2>4. StateInv'
    BY <1>1, <1>2, <2>1 DEF StateInv
  <2>5. ViewInv'
    BY <2>1 DEF ViewInv
  <2>6. CallsReported'
    BY <1>1, <2>1, ReportedSame
  <2> QED
    BY <2>1, <2>2, <2>3, <2>4, <2>5, <2>6 DEF IInv, Client!vars
<1>5. CASE Shows(Head(out)) /\ out' = Tail(out) /\ UNCHANGED <<failed, outcome>>
  <2> DEFINE e == Head(out)
             v == Seen(Sight, e)
  <2>1. e \in AnyEvent /\ Suits(Sight, e) /\ v \in View /\ Leads(v, Tail(out), w)
    BY <1>1, <1>3, LeadsFirst DEF Awaits
  <2>2. client.phase = "open"
    <3>1. Sight.end = "none"
      BY <2>1 DEF Suits
    <3> QED
      BY <1>1, <1>2, <3>1, SightOpen
  <2>3. Client!Next /\ ClientInv' /\ Sight' = v /\ client'.phase \in {"open", "closed"}
    BY <1>1, <1>5, <2>1, <2>2, ShowsStep
  <2> HIDE DEF e, v
  <2>4. PhaseInv'
    BY <1>1, <1>2, <1>5, <2>3 DEF PhaseInv, Phases
  <2>5. StateInv'
    BY <1>1, <1>2, <1>5 DEF StateInv
  <2>6. Kind' = Kind
    BY <1>1 DEF Kind
  <2>7. Awaits(w)'
    BY <1>1, <1>3, <1>5, <2>1, <2>3, <2>6 DEF Awaits
  <2>8. ViewInv'
    BY <2>7 DEF ViewInv
  <2>9. CallsReported'
    <3> SUFFICES ASSUME client'.last = "terminal"
                 PROVE  AllReported(protocol', state', client'.items)
      BY ReportedNext
    <3>1. v.end = "terminal" /\ v.items = client'.items
      BY <2>3 DEF Sight, ClientInv
    <3>2. Tail(out) = <<>> /\ w = v
      <4> DEFINE rest == Tail(out)
      <4>1. Leads(v, rest, w)
        BY <2>1
      <4> HIDE DEF rest
      <4>2. rest = <<>>
        BY <3>1, <4>1, LeadsViews
      <4>3. w = v
        BY <2>1, <4>1, <4>2, LeadsNowhere
      <4> QED
        BY <4>2, <4>3 DEF rest
    <3>3. Fit(Kind, state, v)
      BY <1>3, <3>1, <3>2 DEF Awaits
    <3>4. protocol \in Protocols /\ Kind \in {protocol, "body"}
      BY <1>1 DEF PhaseInv, Kind
    <3>5. AllReported(protocol, state, v.items)
      BY <3>1, <3>3, <3>4, FitReports
    <3> QED
      BY <1>1, <3>1, <3>5
  <2> QED
    BY <2>3, <2>4, <2>5, <2>8, <2>9 DEF IInv
<1> QED
  BY <1>4, <1>5 DEF Emit, Reaches

\* Begin.
LEMMA BeginStep == ASSUME IInv, Begin PROVE IInv' /\ [Client!Next]_(Client!vars)
<1>1. /\ phase = "starting" /\ client.phase = "silent" /\ client' = [client EXCEPT !.phase = "open"]
      /\ out' = Opening /\ outcome' = "ok" /\ UNCHANGED <<protocol, phase, over, failed, state, sequence>>
      /\ ClientInv /\ PhaseInv /\ StateInv /\ CallsReported
  BY DEF Begin, IInv, scan
<1>2. outcome = "none" /\ failed = "none" /\ ~over /\ protocol \in Protocols
  BY <1>1 DEF PhaseInv, StateInv
<1>3. /\ client'.phase = "open" /\ client'.number = client.number /\ client'.last = client.last
      /\ client'.spoken = client.spoken /\ client'.about = client.about /\ client'.items = client.items
      /\ client' \in ClientState
  BY <1>1 DEF ClientInv, ClientState
<1>4. client.number = 0 /\ client.last = "none" /\ client.spoken = FALSE /\ client.items = <<>> /\ sequence = 0
  BY <1>1 DEF ClientInv
<1>5. ClientInv'
  BY <1>1, <1>3, <1>4 DEF ClientInv
<1>6. PhaseInv'
  BY <1>1, <1>2, <1>3 DEF PhaseInv, Phases
<1>7. StateInv'
  BY <1>1, <1>2 DEF StateInv
<1>8. ViewInv'
  <2>1. PICK hosted \in BOOLEAN : state = Initial(protocol, hosted)
    BY <1>1 DEF StateInv
  <2>2. Fit(protocol, state, NothingSeen)
    BY <1>2, <2>1, InitialFits
  <2>3. Sight' = NothingSeen
    BY <1>3, <1>4 DEF Sight, NothingSeen
  <2>4. Kind' = protocol
    BY <1>1 DEF Kind
  <2>5. Awaits(NothingSeen)'
    <3>1. Leads(Sight', out', NothingSeen) /\ outcome' # "bad" /\ Fit(Kind', state', NothingSeen)
      BY <1>1, <2>2, <2>3, <2>4, OpeningLeads
    <3> QED
      BY <3>1 DEF Awaits, NothingSeen
  <2> QED
    BY <2>5, OpeningLeads DEF ViewInv, NothingSeen
<1>9. CallsReported'
  BY <1>3, <1>4, ReportedNext
<1>10. Client!Next
  BY <1>1, <1>3 DEF Client!Next, Client!Open, Client!Events!Open
<1> QED
  BY <1>5, <1>6, <1>7, <1>8, <1>9, <1>10 DEF IInv

\* Refuse.
LEMMA RefuseStep == ASSUME IInv, Refuse PROVE IInv' /\ [Client!Next]_(Client!vars)
<1>1. /\ phase = "starting" /\ client.phase = "silent" /\ phase' = "ended"
      /\ UNCHANGED <<protocol, over, failed, state, out, outcome, sequence>>
      /\ client' = [client EXCEPT !.phase = "refused"] \/ client' = client
      /\ ClientInv /\ PhaseInv /\ StateInv /\ CallsReported
  BY DEF Refuse, IInv, scan
<1>2. outcome = "none" /\ failed = "none"
  BY <1>1 DEF PhaseInv, StateInv
<1>3. /\ client'.number = client.number /\ client'.last = client.last
      /\ client'.spoken = client.spoken /\ client'.about = client.about /\ client'.items = client.items
      /\ client' \in ClientState /\ client'.phase \in {"silent", "refused"}
      /\ client' = client \/ client'.phase = "refused"
  BY <1>1 DEF ClientInv, ClientState
<1>4. ClientInv'
  BY <1>1, <1>3 DEF ClientInv
<1>5. PhaseInv'
  BY <1>1, <1>2, <1>3 DEF PhaseInv, Phases
<1>6. StateInv'
  BY <1>1 DEF StateInv
<1>7. ViewInv'
  BY <1>1 DEF ViewInv
<1>8. CallsReported'
  <2>1. client.last = "none"
    BY <1>1 DEF ClientInv
  <2> QED
    BY <1>3, <2>1, ReportedNext
<1>9. Client!Next \/ client' = client
  BY <1>1, <1>3 DEF Client!Next, Client!Refuse, Client!Events!Refuse
<1> QED
  BY <1>4, <1>5, <1>6, <1>7, <1>8, <1>9 DEF IInv, Client!vars
\* A buffered answer is at hand.
LEMMA AnswersStep ==
  ASSUME IInv, NEW converted, Answers(converted),
         protocol = "chat" => BodyFit(converted, NothingSeen), protocol = "messages" => Converting(converted)
  PROVE  IInv' /\ [Client!Next]_(Client!vars)
<1>1. /\ phase = "starting" /\ client.phase = "silent" /\ phase' = "converting" /\ state' = converted
      /\ UNCHANGED <<protocol, client, over, failed, out, outcome, sequence>>
      /\ ClientInv /\ PhaseInv /\ StateInv
  BY DEF Answers, IInv, scan
<1>2. outcome = "none" /\ protocol \in Protocols
  BY <1>1 DEF PhaseInv
<1>3. ClientInv'
  BY <1>1 DEF ClientInv
<1>4. PhaseInv'
  BY <1>1, <1>2 DEF PhaseInv, Phases
<1>5. StateInv'
  BY <1>1, <1>2 DEF StateInv, Protocols
<1>6. ViewInv'
  BY <1>1 DEF ViewInv
<1>7. CallsReported'
  BY <1>1, ReportedNext DEF ClientInv
<1> QED
  BY <1>1, <1>3, <1>4, <1>5, <1>6, <1>7 DEF IInv, Client!vars

\* What the route says of hosted search, before anything is read.
LEMMA StartingHosted ==
  ASSUME IInv, phase = "starting"
  PROVE  state.hosted \in BOOLEAN
<1>1. protocol \in Protocols
  BY DEF IInv, PhaseInv
<1>2. PICK hosted \in BOOLEAN : state = Initial(protocol, hosted)
  BY DEF IInv, StateInv
<1> QED
  BY <1>1, <1>2, InitialFits

\* BufferedMessages and BufferedChat.
LEMMA BufferedStep ==
  ASSUME IInv, phase = "starting",
         \/ \E body \in MessagesBodies : BufferedMessages(body)
         \/ \E body \in ChatBodies : BufferedChat(body)
  PROVE  IInv' /\ [Client!Next]_(Client!vars)
<1>1. state.hosted \in BOOLEAN
  BY StartingHosted
<1>2. ASSUME NEW body \in MessagesBodies, BufferedMessages(body)
      PROVE  IInv' /\ [Client!Next]_(Client!vars)
  <2>1. protocol = "messages" /\ Answers(Answer(body, state.hosted))
    BY <1>2 DEF BufferedMessages
  <2>2. Converting(Answer(body, state.hosted))
    BY <1>1, AnswerConverts
  <2> QED
    BY <2>1, <2>2, AnswersStep
<1>3. ASSUME NEW body \in ChatBodies, BufferedChat(body)
      PROVE  IInv' /\ [Client!Next]_(Client!vars)
  <2>1. protocol = "chat" /\ Answers(FromChat(body, state.hosted))
    BY <1>3 DEF BufferedChat
  <2>2. BodyFit(FromChat(body, state.hosted), NothingSeen)
    BY <1>1, FromChatFits
  <2> QED
    BY <2>1, <2>2, AnswersStep
<1> QED
  BY <1>2, <1>3

\* The answer is converted and its replay begins.
LEMMA ReplayStep ==
  ASSUME IInv, phase = "converting", NEW converted, Replay(converted), BodyFit(converted, NothingSeen),
         UNCHANGED <<protocol, over, failed, sequence>>
  PROVE  IInv' /\ [Client!Next]_(Client!vars)
<1>1. /\ client' = [client EXCEPT !.phase = "open"] /\ phase' = "buffered" /\ state' = converted
      /\ out' = Opening /\ outcome' = "ok"
      /\ ClientInv /\ PhaseInv /\ StateInv
  BY DEF Replay, IInv
<1>2. outcome = "none" /\ failed = "none" /\ client.phase = "silent" /\ protocol \in Protocols
  BY <1>1 DEF PhaseInv, StateInv
<1>3. /\ client'.phase = "open" /\ client'.number = client.number /\ client'.last = client.last
      /\ client'.spoken = client.spoken /\ client'.about = client.about /\ client'.items = client.items
      /\ client' \in ClientState
  BY <1>1 DEF ClientInv, ClientState
<1>4. client.number = 0 /\ client.last = "none" /\ client.spoken = FALSE /\ client.items = <<>> /\ sequence = 0
  BY <1>1, <1>2 DEF ClientInv
<1>5. ClientInv'
  BY <1>1, <1>3, <1>4 DEF ClientInv
<1>6. PhaseInv'
  BY <1>1, <1>2, <1>3 DEF PhaseInv, Phases
<1>7. StateInv'
  BY <1>1 DEF StateInv
<1>8. ViewInv'
  <2>1. Sight' = NothingSeen
    BY <1>3, <1>4 DEF Sight, NothingSeen
  <2>2. Kind' = "body"
    BY <1>1 DEF Kind
  <2>3. Leads(Sight', out', NothingSeen) /\ outcome' # "bad" /\ Fit(Kind', state', NothingSeen)
    BY <1>1, <2>1, <2>2, OpeningLeads DEF Fit
  <2>4. Awaits(NothingSeen)'
    BY <2>3 DEF Awaits, NothingSeen
  <2> QED
    BY <2>4, OpeningLeads DEF ViewInv, NothingSeen
<1>9. CallsReported'
  BY <1>3, <1>4, ReportedNext
<1>10. Client!Next
  BY <1>2, <1>3 DEF Client!Next, Client!Open, Client!Events!Open
<1> QED
  BY <1>5, <1>6, <1>7, <1>8, <1>9, <1>10 DEF IInv

\* Convert.
LEMMA ConvertStep == ASSUME IInv, Convert PROVE IInv' /\ [Client!Next]_(Client!vars)
<1>1. /\ phase = "converting" /\ UNCHANGED <<protocol, over, failed, sequence>>
      /\ ClientInv /\ PhaseInv /\ StateInv /\ CallsReported
  BY DEF Convert, IInv, scan
<1>2. outcome = "none" /\ client.phase = "silent" /\ protocol \in Protocols
  BY <1>1 DEF PhaseInv
<1>3. CASE protocol = "chat"
  <2>1. Replay(state) /\ BodyFit(state, NothingSeen)
    BY <1>1, <1>3 DEF Convert, StateInv
  <2> QED
    BY <1>1, <2>1, ReplayStep
<1>4. CASE protocol # "chat" /\ state.taken = Len(state.body.blocks)
  <2>1. Replay(Converted(state)) /\ Converting(state)
    BY <1>1, <1>4 DEF Convert, StateInv
  <2>2. BodyFit(Converted(state), NothingSeen)
    BY <1>4, <2>1, ConvertedFits
  <2> QED
    BY <1>1, <2>1, <2>2, ReplayStep
<1>5. CASE protocol # "chat" /\ state.taken # Len(state.body.blocks)
  <2>1. /\ state' = TakeBlock(state, state.body.blocks[state.taken + 1]) /\ Converting(state)
        /\ UNCHANGED <<client, phase, out, outcome>>
    BY <1>1, <1>5 DEF Convert, StateInv
  <2>2. Converting(state')
    BY <1>5, <2>1, TakeBlockConverts
  <2>3. ClientInv'
    BY <1>1, <2>1 DEF ClientInv
  <2>4. PhaseInv'
    BY <1>1, <2>1 DEF PhaseInv, Phases
  <2>5. StateInv'
    BY <1>1, <1>2, <1>5, <2>1, <2>2 DEF StateInv
  <2>6. ViewInv'
    BY <1>2, <2>1 DEF ViewInv
  <2>7. CallsReported'
    BY <1>1, <1>2, <2>1, ReportedNext DEF ClientInv
  <2> QED
    BY <2>1, <2>3, <2>4, <2>5, <2>6, <2>7 DEF IInv, Client!vars
<1> QED
  BY <1>3, <1>4, <1>5

\* TakeMessages and TakeChat.
LEMMA TakeStep ==
  ASSUME IInv,
         \/ \E f \in MessagesFrames : TakeMessages(f)
         \/ \E f \in ChatFrames : TakeChat(f)
  PROVE  IInv' /\ [Client!Next]_(Client!vars)
<1>1. PICK f : /\ Reading /\ Runs(FrameOutcomes(protocol, state, f))
               /\ UNCHANGED <<protocol, client, phase, over, failed, sequence>>
               /\ protocol = "messages" => f \in MessagesFrame /\ MessagesSends(state, f)
               /\ protocol = "chat" => f \in ChatFrame
  <2>1. ASSUME NEW f \in MessagesFrames, TakeMessages(f)
        PROVE  /\ Reading /\ Runs(FrameOutcomes(protocol, state, f))
               /\ UNCHANGED <<protocol, client, phase, over, failed, sequence>>
               /\ protocol = "messages" /\ f \in MessagesFrame /\ MessagesSends(state, f)
    BY <2>1, TranslatedAssumption DEF TakeMessages, Take, FrameOutcomes, scan
  <2>2. ASSUME NEW f \in ChatFrames, TakeChat(f)
        PROVE  /\ Reading /\ Runs(FrameOutcomes(protocol, state, f))
               /\ UNCHANGED <<protocol, client, phase, over, failed, sequence>>
               /\ protocol = "chat" /\ f \in ChatFrame
    BY <2>2, TranslatedAssumption DEF TakeChat, Take, FrameOutcomes, scan
  <2> QED
    BY <2>1, <2>2
<1>2. /\ phase = "scanning" /\ ~over /\ outcome = "none" /\ failed = "none" /\ protocol \in Protocols
      /\ ~state.terminal /\ ~state.finishing /\ client.phase \in {"open", "closed"}
      /\ ClientInv /\ PhaseInv /\ StateInv /\ CallsReported
  BY <1>1 DEF Reading, IInv, PhaseInv, StateInv, ClientInv, ClientState
<1>3. Kind = protocol /\ Kind' = protocol
  BY <1>1, <1>2 DEF Kind
<1>4. Fit(protocol, state, Sight)
  BY <1>2, <1>3, RestFits
<1>5. client.phase = "open"
  <2>1. Sight.end = "none"
    BY <1>2, <1>4, FitEnds DEF Kinds, Protocols
  <2> QED
    BY <1>2, <2>1, SightOpen
<1>6. Comes(Kind', FrameOutcomes(protocol, state, f), Sight)
  BY <1>1, <1>2, <1>3, <1>4, FrameComes
<1>7. outcome' \in {"ok", "bad"} /\ (\E w \in View : Awaits(w)') /\ CallsReported'
  BY <1>1, <1>2, <1>5, <1>6, RunsAwaits
<1>8. ClientInv'
  BY <1>1, <1>2 DEF ClientInv
<1>9. PhaseInv'
  BY <1>1, <1>2, <1>7 DEF PhaseInv, Phases
<1>10. StateInv'
  BY <1>1, <1>2, <1>7 DEF StateInv
<1>11. ViewInv'
  BY <1>7 DEF ViewInv
<1> QED
  BY <1>1, <1>7, <1>8, <1>9, <1>10, <1>11 DEF IInv, Client!vars

\* BodyEnds.
LEMMA BodyEndsStep == ASSUME IInv, BodyEnds PROVE IInv' /\ [Client!Next]_(Client!vars)
<1>1. /\ phase = "scanning" /\ ~over /\ outcome = "none" /\ over' = TRUE /\ failed' \in {"none", "upstream"}
      /\ UNCHANGED <<protocol, client, phase, state, out, outcome, sequence>>
      /\ ClientInv /\ PhaseInv /\ StateInv /\ ViewInv /\ CallsReported
  BY DEF BodyEnds, Reading, IInv
<1>2. failed = "none" /\ ~state.finishing /\ out = <<>>
  BY <1>1 DEF StateInv, PhaseInv
<1>3. ClientInv'
  BY <1>1 DEF ClientInv
<1>4. PhaseInv'
  BY <1>1, <1>2 DEF PhaseInv, Phases
<1>5. StateInv'
  BY <1>1, <1>2 DEF StateInv
<1>6. ViewInv'
  BY <1>1, <1>2 DEF ViewInv, Awaits, Sight, Kind
<1>7. CallsReported'
  BY <1>1, ReportedSame
<1> QED
  BY <1>1, <1>3, <1>4, <1>5, <1>6, <1>7 DEF IInv, Client!vars

\* Continue.
LEMMA ContinueStep == ASSUME IInv, Continue PROVE IInv' /\ [Client!Next]_(Client!vars)
<1>1. /\ out = <<>> /\ outcome = "ok" /\ state.finishing /\ Runs(NextTurn)
      /\ UNCHANGED <<protocol, client, phase, over, failed, sequence>>
      /\ ClientInv /\ PhaseInv /\ StateInv /\ ViewInv
  BY DEF Continue, IInv, scan
<1>2. /\ failed = "none" /\ client.phase \in {"open", "closed"} /\ protocol \in Protocols
      /\ phase \notin {"judging", "concluding", "converting", "ended"}
  BY <1>1 DEF PhaseInv, ClientInv, ClientState
<1>3. Kind' = Kind /\ Kind \in Kinds
  BY <1>1, <1>2 DEF Kind, Kinds
<1>4. Fit(Kind, state, Sight)
  <2>1. PICK w \in View : Awaits(w)
    BY <1>1, <1>2 DEF ViewInv
  <2>2. w = Sight
    <3>1. Sight \in View
      BY <1>1, SightOpen
    <3> QED
      BY <1>1, <2>1, <3>1, LeadsNowhere DEF Awaits
  <2> QED
    BY <1>1, <2>1, <2>2 DEF Awaits
<1>5. client.phase = "open"
  <2>1. Sight.end = "none"
    BY <1>1, <1>3, <1>4, FitEnds
  <2> QED
    BY <1>1, <1>2, <2>1, SightOpen
<1>6. NextTurn = TurnOutcomes(Kind, state)
  BY <1>2 DEF NextTurn, TurnOutcomes, Kind, Protocols
<1>7. Comes(Kind', NextTurn, Sight)
  BY <1>1, <1>3, <1>4, <1>6, TurnComes
<1>8. outcome' \in {"ok", "bad"} /\ (\E w \in View : Awaits(w)') /\ CallsReported'
  BY <1>1, <1>5, <1>7, RunsAwaits
<1>9. ClientInv'
  BY <1>1 DEF ClientInv
<1>10. PhaseInv'
  BY <1>1, <1>2, <1>8 DEF PhaseInv, Phases
<1>11. StateInv'
  <2>1. phase # "starting"
    <3> SUFFICES ASSUME phase = "starting"
                 PROVE  FALSE
      OBVIOUS
    <3>1. PICK hosted \in BOOLEAN : state = Initial(protocol, hosted)
      BY <1>1 DEF StateInv
    <3> QED
      BY <1>1, <1>2, <3>1, InitialFits
  <2> QED
    BY <1>1, <1>2, <1>8, <2>1 DEF StateInv
<1>12. ViewInv'
  BY <1>8 DEF ViewInv
<1> QED
  BY <1>1, <1>8, <1>9, <1>10, <1>11, <1>12 DEF IInv, Client!vars
\* Return.
LEMMA ReturnStep == ASSUME IInv, Return PROVE IInv' /\ [Client!Next]_(Client!vars)
<1>1. /\ out = <<>> /\ (outcome = "bad" \/ (outcome = "ok" /\ ~state.finishing)) /\ outcome' = "none"
      /\ failed' = IF outcome = "bad" /\ failed = "none" THEN "upstream" ELSE failed
      /\ UNCHANGED <<protocol, client, state, out, sequence>>
      /\ ClientInv /\ PhaseInv /\ StateInv /\ ViewInv /\ CallsReported
  BY DEF Return, IInv
<1>2. /\ client.phase \in {"open", "closed"} /\ protocol \in Protocols
      /\ phase \notin {"judging", "concluding", "converting", "ended"}
      /\ outcome = "ok" => failed = "none"
      /\ phase \in {"starting", "scanning", "finishing", "buffered", "completing"}
  BY <1>1 DEF PhaseInv, ClientInv, ClientState, Phases
<1>3. /\ phase = "starting" => phase' = (IF failed = "write" THEN "ended" ELSE "scanning") /\ over' = over
      /\ phase = "scanning" => over' = (outcome = "bad" \/ state.terminal) /\ phase' = phase
      /\ phase = "finishing" => phase' = "judging"
      /\ phase = "buffered" => phase' = "ended"
      /\ phase = "completing" => phase' = "concluding"
  BY <1>2 DEF Return
<1>4. ClientInv'
  BY <1>1 DEF ClientInv
<1>5. PhaseInv'
  BY <1>1, <1>2, <1>3 DEF PhaseInv, Phases
<1>6. phase = "starting" => /\ phase' = "scanning" => failed = "none" /\ outcome = "ok"
                            /\ state.terminal = FALSE /\ state.finishing = FALSE /\ ~over
  <2> SUFFICES ASSUME phase = "starting"
               PROVE  /\ phase' = "scanning" => failed = "none" /\ outcome = "ok"
                      /\ state.terminal = FALSE /\ state.finishing = FALSE /\ ~over
    OBVIOUS
  <2>1. PICK hosted \in BOOLEAN : state = Initial(protocol, hosted)
    BY <1>1 DEF StateInv
  <2>2. state.terminal = FALSE /\ state.finishing = FALSE
    BY <1>2, <2>1, InitialFits
  <2> QED
    BY <1>1, <1>3, <2>2 DEF StateInv
<1>7. StateInv'
  <2>1. CASE phase = "starting"
    BY <1>1, <1>2, <1>3, <1>6, <2>1 DEF StateInv
  <2>2. CASE phase = "scanning"
    BY <1>1, <1>2, <1>3, <2>2 DEF StateInv
  <2>3. CASE phase \in {"finishing", "buffered", "completing"}
    BY <1>1, <1>3, <2>3 DEF StateInv
  <2> QED
    BY <1>2, <2>1, <2>2, <2>3
<1>8. ViewInv'
  <2> SUFFICES ASSUME client'.phase \in {"open", "closed"}, phase' # "ended", failed' = "none"
               PROVE  \E w \in View : Awaits(w)'
    BY DEF ViewInv
  <2>1. outcome = "ok" /\ failed = "none" /\ phase # "ended" /\ phase # "buffered" /\ phase' # "buffered"
    BY <1>1, <1>2, <1>3
  <2>2. PICK w \in View : Awaits(w)
    BY <1>1, <1>2, <2>1 DEF ViewInv
  <2>3. Sight' = Sight /\ Kind' = Kind
    BY <1>1, <2>1 DEF Sight, Kind
  <2>4. Leads(Sight', out', w) /\ outcome' # "bad" /\ Fit(Kind', state', w)
    BY <1>1, <2>1, <2>2, <2>3 DEF Awaits
  <2>5. Awaits(w)'
    BY <2>4 DEF Awaits
  <2> QED
    BY <2>5
<1>9. CallsReported'
  BY <1>1, ReportedSame
<1> QED
  BY <1>1, <1>4, <1>5, <1>7, <1>8, <1>9 DEF IInv, Client!vars

\* A handler that starts to finish a stream that nobody ended.
LEMMA LateFinish ==
  ASSUME IInv, phase \in {"scanning", "judging"}, outcome = "none", failed = "none", ~state.terminal,
         phase' \in {"finishing", "completing"},
         Runs(IF protocol = "messages" THEN MessagesFinish(state) ELSE ChatFinish(state)),
         protocol = "chat" => ~state.finishing,
         UNCHANGED <<protocol, client, over, failed, sequence>>
  PROVE  IInv' /\ UNCHANGED Client!vars
<1> DEFINE results == IF protocol = "messages" THEN MessagesFinish(state) ELSE ChatFinish(state)
<1>1. ClientInv /\ PhaseInv /\ StateInv
  BY DEF IInv
<1>2. client.phase \in {"open", "closed"} /\ protocol \in Protocols
  BY <1>1 DEF PhaseInv, ClientInv, ClientState
<1>3. Kind = protocol /\ Kind' = protocol
  BY DEF Kind
<1>4. Fit(protocol, state, Sight)
  BY <1>2, <1>3, RestFits
<1>5. client.phase = "open"
  <2>1. Sight.end = "none"
    BY <1>2, <1>4, FitEnds DEF Kinds, Protocols
  <2> QED
    BY <1>1, <1>2, <2>1, SightOpen
<1>6. Comes(Kind', results, Sight)
  BY <1>2, <1>3, <1>4, LateFinishComes
<1> HIDE DEF results
<1>7. Runs(results)
  BY DEF results
<1>8. outcome' \in {"ok", "bad"} /\ (\E w \in View : Awaits(w)') /\ CallsReported'
  BY <1>1, <1>5, <1>6, <1>7, RunsAwaits
<1>9. ClientInv'
  BY <1>1 DEF ClientInv
<1>10. PhaseInv'
  BY <1>1, <1>2, <1>8 DEF PhaseInv, Phases
<1>11. StateInv'
  BY DEF StateInv
<1>12. ViewInv'
  BY <1>8 DEF ViewInv
<1> QED
  BY <1>8, <1>9, <1>10, <1>11, <1>12 DEF IInv, Client!vars

\* Review.
LEMMA ReviewStep == ASSUME IInv, Review PROVE IInv' /\ [Client!Next]_(Client!vars)
<1>1. /\ phase = "scanning" /\ over /\ UNCHANGED <<protocol, client, over, failed, sequence>>
      /\ ClientInv /\ PhaseInv /\ StateInv /\ ViewInv /\ CallsReported
  BY DEF Review, IInv, scan
<1>2. outcome = "none" /\ client.phase \in {"open", "closed"}
  BY <1>1 DEF StateInv, PhaseInv, ClientInv, ClientState
<1>3. CASE protocol = "chat" /\ StoppedChat
  <2>1. /\ phase' = "finishing" /\ Runs(ChatFinish(state)) /\ failed = "none" /\ ~state.terminal
    BY <1>1, <1>3 DEF Review, StoppedChat
  <2>2. ~state.finishing
    BY <1>1, <1>2, <2>1 DEF StateInv
  <2>3. IInv' /\ UNCHANGED Client!vars
    BY <1>1, <1>2, <1>3, <2>1, <2>2, LateFinish
  <2> QED
    BY <2>3
<1>4. CASE ~(protocol = "chat" /\ StoppedChat)
  <2>1. phase' = "judging" /\ UNCHANGED <<state, out, outcome>>
    BY <1>1, <1>4 DEF Review
  <2>2. ClientInv'
    BY <1>1 DEF ClientInv
  <2>3. PhaseInv'
    BY <1>1, <1>2, <2>1 DEF PhaseInv, Phases
  <2>4. StateInv'
    BY <2>1 DEF StateInv
  <2>5. ViewInv'
    BY <1>1, <1>2, <2>1 DEF ViewInv, Awaits, Sight, Kind
  <2>6. CallsReported'
    BY <1>1, <2>1, ReportedSame
  <2> QED
    BY <1>1, <2>2, <2>3, <2>4, <2>5, <2>6 DEF IInv, Client!vars
<1> QED
  BY <1>3, <1>4

\* The error event, or the end without a word.
LEMMA BreaksStep ==
  ASSUME IInv, phase \in {"judging", "concluding"}, Breaks \/ Ends,
         UNCHANGED <<protocol, over, failed, state, out, outcome>>
  PROVE  IInv' /\ [Client!Next]_(Client!vars)
<1>1. /\ ClientInv /\ PhaseInv /\ StateInv /\ CallsReported /\ phase' = "ended"
      /\ (client' = client /\ sequence' = sequence) \/ Shows(ErrorEvent)
  BY DEF IInv, Breaks, Ends
<1>2. outcome = "none" /\ client.phase \in {"open", "closed"}
  BY <1>1 DEF PhaseInv, ClientInv, ClientState
<1>3. StateInv'
  BY <1>1 DEF StateInv
<1>4. ViewInv'
  BY <1>1 DEF ViewInv
<1>5. CASE client' = client
  <2>1. ClientInv'
    <3>1. CASE sequence' = sequence
      BY <1>1, <1>5, <3>1 DEF ClientInv
    <3>2. CASE Shows(ErrorEvent) /\ client.phase = "closed"
      <4>1. sequence' = sequence + 1 /\ sequence \in Nat
        BY <1>1, <3>2 DEF Shows, ClientInv
      <4> QED
        BY <1>1, <1>5, <3>2, <4>1 DEF ClientInv
    <3>3. CASE Shows(ErrorEvent) /\ client.phase # "closed"
      <4>1. client'.phase = "closed"
        BY <3>3 DEF Shows, ErrorEvent, About, Event
      <4> QED
        BY <1>5, <3>3, <4>1
    <3> QED
      BY <1>1, <3>1, <3>2, <3>3
  <2>2. PhaseInv'
    BY <1>1, <1>2, <1>5 DEF PhaseInv, Phases
  <2>3. CallsReported'
    BY <1>1, <1>5, ReportedSame
  <2> QED
    BY <1>3, <1>4, <1>5, <2>1, <2>2, <2>3 DEF IInv, Client!vars
<1>6. CASE client' # client
  <2>1. Shows(ErrorEvent) /\ client.phase = "open"
    BY <1>1, <1>2, <1>6 DEF Shows
  <2>2. Sight \in View /\ Sight.end = "none"
    BY <1>1, <2>1, SightOpen
  <2>3. ErrorEvent \in AnyEvent /\ Suits(Sight, ErrorEvent) /\ Seen(Sight, ErrorEvent) \in View
        /\ Seen(Sight, ErrorEvent).end = "error"
    <3>1. "error" \in {"announce", "terminal", "error"}
      OBVIOUS
    <3>2. /\ ErrorEvent \in AnyEvent /\ Suits(Sight, ErrorEvent)
          /\ Seen(Sight, ErrorEvent) = [items |-> Sight.items, spoken |-> Sight.spoken, end |-> "error"]
      BY <2>2, <3>1, SeesPlain DEF ErrorEvent
    <3> QED
      BY <2>2, <3>2 DEF View
  <2>4. Client!Next /\ ClientInv' /\ Sight' = Seen(Sight, ErrorEvent) /\ client'.phase \in {"open", "closed"}
    BY <1>1, <2>1, <2>3, ShowsStep
  <2>5. PhaseInv'
    BY <1>1, <1>2, <2>4 DEF PhaseInv, Phases
  <2>6. CallsReported'
    <3>1. Sight'.end = "error"
      BY <2>3, <2>4
    <3>2. client'.last # "terminal"
      BY <2>4, <3>1 DEF Sight, ClientInv
    <3> QED
      BY <3>2, ReportedNext
  <2> QED
    BY <1>3, <1>4, <2>4, <2>5, <2>6 DEF IInv
<1> QED
  BY <1>5, <1>6

\* Judge.
LEMMA JudgeStep == ASSUME IInv, Judge PROVE IInv' /\ [Client!Next]_(Client!vars)
<1>1. phase = "judging" /\ outcome = "none" /\ UNCHANGED <<protocol, over, failed>>
  BY DEF Judge, scan
<1>2. CASE (Breaks \/ Ends) /\ UNCHANGED <<state, out, outcome>>
  BY <1>1, <1>2, BreaksStep
<1>3. CASE /\ phase' = "completing" /\ Runs(MessagesFinish(state)) /\ UNCHANGED <<client, sequence>>
           /\ protocol = "messages" /\ failed = "none" /\ Unended
  <2>1. IInv' /\ UNCHANGED Client!vars
    BY <1>1, <1>3, LateFinish DEF Unended
  <2> QED
    BY <2>1
<1> QED
  BY <1>1, <1>2, <1>3 DEF Judge

\* Conclusion.
LEMMA ConclusionStep == ASSUME IInv, Conclusion PROVE IInv' /\ [Client!Next]_(Client!vars)
<1>1. phase = "concluding" /\ (Breaks \/ Ends) /\ UNCHANGED <<protocol, over, failed, state, out, outcome>>
  BY DEF Conclusion, scan
<1> QED
  BY <1>1, BreaksStep
-----------------------------------------------------------------------------
(* The theorems.                                                           *)

\* The invariant holds at the start.
LEMMA InvStarts == Init => IInv /\ Client!Init
<1> SUFFICES ASSUME Init
             PROVE  IInv /\ Client!Init
  OBVIOUS
<1>1. client = [phase |-> "silent", number |-> 0, last |-> "none", spoken |-> FALSE, about |-> 0, items |-> <<>>]
  BY DEF Init
<1>2. /\ client.phase = "silent" /\ client.number = 0 /\ client.last = "none" /\ client.spoken = FALSE
      /\ client.about = 0 /\ client.items = <<>> /\ client \in ClientState
  <2>1. <<>> \in Seq(Item)
    BY EmptySeq
  <2> QED
    BY <1>1, <2>1 DEF ClientState
<1>3. ClientInv
  BY <1>2 DEF Init, ClientInv
<1>4. PhaseInv
  BY <1>2 DEF Init, PhaseInv, Protocols, Phases
<1>5. StateInv
  BY DEF Init, StateInv
<1>6. ViewInv
  BY <1>2 DEF ViewInv
<1>7. CallsReported
  BY <1>2 DEF CallsReported
<1>8. Client!Init
  BY <1>2 DEF Client!Init, Client!Events!Init
<1> QED
  BY <1>3, <1>4, <1>5, <1>6, <1>7, <1>8 DEF IInv

\* It is kept by every step, and every step is one of the promised stream or
\* changes nothing of it.
LEMMA StepKept == IInv /\ [Next]_vars => IInv' /\ [Client!Next]_(Client!vars)
<1> SUFFICES ASSUME IInv, [Next]_vars
             PROVE  IInv' /\ [Client!Next]_(Client!vars)
  OBVIOUS
<1>1. CASE UNCHANGED vars
  BY <1>1, SameInv DEF vars, scan
<1>2. CASE Fire
  BY <1>2, SameInv DEF Fire, scan
<1>3. CASE Cancel
  BY <1>3, SameInv DEF Cancel, scan
<1>4. CASE Upstream
  BY <1>4, BodyEndsStep, TakeStep, BufferedStep, RefuseStep DEF Upstream
<1>5. CASE Handler
  BY <1>5, BeginStep, ConvertStep, EmitStep, ContinueStep, ReturnStep, ReviewStep, JudgeStep, ConclusionStep
     DEF Handler
<1> QED
  BY <1>1, <1>2, <1>3, <1>4, <1>5 DEF Next

\* The invariant holds of every behaviour.
LEMMA InvHolds == Spec => []IInv
BY InvStarts, StepKept, PTL DEF Spec

\* A completed answer has reported every tool call and every search that the
\* upstream began, whatever frames it sent in whatever order.
THEOREM SpecReportsCalls == Spec => []CallsReported
<1>1. IInv => CallsReported
  BY DEF IInv
<1> QED
  BY <1>1, InvHolds, PTL

\* A translated stream, or the replay of a buffered answer, is one ItemStream.
THEOREM SpecShowsItems == Spec => ClientSeesItems
<1>1. Init => Client!Init
  BY InvStarts
<1>2. IInv /\ [Next]_vars => [Client!Next]_(Client!vars)
  BY StepKept
<1> QED
  BY <1>1, <1>2, InvHolds, PTL DEF Spec, ClientSeesItems, Client!Spec

\* Leaving the items aside, an ItemStream is an EventStream.
THEOREM ItemsAreEvents == Client!Spec => Client!Events!Spec
<1>1. Client!Init => Client!Events!Init
  BY DEF Client!Init
<1>2. [Client!Next]_(Client!vars) => [Client!Events!Next]_(Client!Events!vars)
  <2> SUFFICES ASSUME [Client!Next]_(Client!vars)
               PROVE  [Client!Events!Next]_(Client!Events!vars)
    OBVIOUS
  <2>1. CASE UNCHANGED Client!vars
    BY <2>1 DEF Client!vars, Client!Events!vars
  <2>2. CASE Client!Open \/ Client!Refuse \/ Client!Announce
    BY <2>2 DEF Client!Open, Client!Refuse, Client!Announce, Client!Other, Client!Events!Next
  <2>3. CASE Client!Complete \/ Client!Break
    BY <2>3 DEF Client!Complete, Client!Break, Client!Close, Client!Events!Next
  <2>4. CASE \E type \in Client!ItemType : Client!Add(type)
    BY <2>4 DEF Client!Add, Client!Thought, Client!Other, Client!Events!Next
  <2>5. CASE \E i \in DOMAIN client.items : Client!Touch(i)
    BY <2>5 DEF Client!Touch, Client!OpenPart, Client!Say, Client!SayBlank, Client!Think, Client!Progress,
                Client!Repeat, Client!ClosePart, Client!Done, Client!Thought, Client!Other, Client!Events!Next
  <2> QED
    BY <2>1, <2>2, <2>3, <2>4, <2>5 DEF Client!Next
<1> QED
  BY <1>1, <1>2, PTL DEF Client!Spec, Client!Events!Spec
-----------------------------------------------------------------------------
(* The splitter of inline reasoning.                                       *)
(*                                                                         *)
(* Where the letters of a streamed answer go, for any answer and any       *)
(* borders of its deltas.  The invariant keeps the books of what is shown  *)
(* and what is buffered (PiecesInv), and what is known of the head of the  *)
(* answer (HeadInv): it is buffered whole until the span that begins there *)
(* is cut out.                                                             *)

Arrived == 1..arrived
ThinkTyped ==
  /\ answer \in Texts /\ arrived \in 0..Len(answer) /\ buf \subseteq Arrived
  /\ mode \in {"detecting", "reasoning", "text"} /\ feeding \in BOOLEAN /\ ended \in BOOLEAN
  /\ shown \in [reasoning : SUBSET Arrived, text : SUBSET Arrived, ordered : BOOLEAN]

\* What was handed on is told apart, and lies before what is buffered; every
\* letter is in one of the three.
PiecesInv ==
  /\ shown.ordered /\ shown.reasoning \cap shown.text = {}
  /\ Behind(buf, shown.reasoning \cup shown.text)
  /\ \A p \in Arrived : answer[p] \in Letters => p \in shown.reasoning \cup shown.text \cup buf
  /\ ended => buf = {} /\ ~feeding /\ arrived = Len(answer)

\* Until a leading span is closed, or found missing, everything is buffered.
Unquoted == \A p \in Arrived : answer[p] # Quote
HeadInv ==
  /\ mode # "text" => buf = Arrived /\ shown.text = {}
  /\ mode = "reasoning" => Opens(buf) # {}
  /\ mode = "detecting" /\ ~feeding => Opens(buf) = {}
  /\ mode = "text" /\ ~ended => Leading(Arrived) # "detecting"
  /\ mode = "text" /\ Unquoted =>
       \A t \in Opens(Arrived) :
         \/ ended /\ shown.text = {}
         \/ \E u \in FirstTag(After(Arrived, t), CloseTag) : \A p \in shown.text \cup buf : p > u[2]

ThinkInv == ThinkTyped /\ PiecesInv /\ HeadInv

\* The tokens of an answer.
LEMMA AnswerTyped ==
  ASSUME ThinkTyped
  PROVE  answer \in Seq(Tokens) /\ DOMAIN answer = 1..Len(answer) /\ Len(answer) \in Nat
         /\ arrived \in Nat /\ Arrived \subseteq DOMAIN answer /\ buf \subseteq Nat
<1>1. answer \in Seq(Tokens)
  BY ThinkAssumption DEF ThinkTyped
<1>2. DOMAIN answer = 1..Len(answer) /\ Len(answer) \in Nat
  BY <1>1
<1>3. arrived \in Nat /\ arrived <= Len(answer)
  BY <1>2 DEF ThinkTyped
<1> QED
  BY <1>1, <1>2, <1>3 DEF ThinkTyped, Arrived

\* Neither of the two tokens of a tag is a letter, and nothing lies between them.
LEMMA TagHoldsNoLetter ==
  ASSUME NEW s, NEW i, NEW j, NEW tag \in {OpenTag, CloseTag}, TagAt(s, i, j, tag), s \subseteq Nat,
         NEW p \in s, i <= p, p <= j
  PROVE  answer[p] \notin Letters
<1>1. i \in Nat /\ j \in Nat /\ p \in Nat /\ (p = i \/ p = j)
  BY DEF TagAt, Adjacent
<1>2. answer[i] \in Heads /\ answer[j] = "nk>"
  BY DEF TagAt, OpenTag, CloseTag, Heads
<1> QED
  BY <1>1, <1>2, ThinkAssumption

\* The first tag is a tag, unquoted, and no other is before it (indexTagSkippingLiterals).
LEMMA FirstTagTyped ==
  ASSUME NEW s, NEW tag, NEW t \in FirstTag(s, tag)
  PROVE  /\ t \in s \X s /\ t[1] \in s /\ t[2] \in s /\ TagAt(s, t[1], t[2], tag)
         /\ ~IsLiteral(s, t[1], t[2]) /\ \A u \in Tags(s, tag) : t[1] <= u[1]
BY DEF FirstTag, Tags

\* Handing on two pieces that tile a part of the buffer keeps the books; what
\* is not handed on nor kept holds no letter.
LEMMA HandOver ==
  ASSUME ThinkTyped, PiecesInv, ~ended, UNCHANGED <<answer, arrived, ended>>,
         NEW r, NEW x, r \subseteq buf, x \subseteq buf, r \cap x = {}, HandsOn(r, x),
         buf' \subseteq buf, Behind(buf', r \cup x),
         \A p \in buf : answer[p] \in Letters => p \in r \cup x \cup buf'
  PROVE  /\ shown' \in [reasoning : SUBSET Arrived, text : SUBSET Arrived, ordered : BOOLEAN]
         /\ PiecesInv'
<1>1. /\ shown' = [reasoning |-> shown.reasoning \cup r, text |-> shown.text \cup x,
                   ordered |-> shown.ordered /\ Behind(r, shown.reasoning) /\ Behind(x, shown.text)]
      /\ shown \in [reasoning : SUBSET Arrived, text : SUBSET Arrived, ordered : BOOLEAN]
      /\ buf \subseteq Arrived /\ Arrived \subseteq Nat /\ Arrived' = Arrived
  BY DEF HandsOn, ThinkTyped, Arrived
<1>2. Behind(r, shown.reasoning) /\ Behind(x, shown.text)
  BY DEF Behind, PiecesInv
<1>3. /\ shown'.reasoning = shown.reasoning \cup r /\ shown'.text = shown.text \cup x
      /\ shown'.ordered /\ shown' \in [reasoning : SUBSET Arrived, text : SUBSET Arrived, ordered : BOOLEAN]
  BY <1>1, <1>2 DEF PiecesInv
<1>4. \A p \in buf, q \in shown.reasoning \cup shown.text : q < p
  BY DEF PiecesInv, Behind
<1>5. shown'.reasoning \cap shown'.text = {}
  <2>1. \A p \in buf : p \notin shown.reasoning \cup shown.text
    BY <1>1, <1>4
  <2> QED
    BY <1>3, <2>1 DEF PiecesInv
<1>6. Behind(buf', shown'.reasoning \cup shown'.text)
  BY <1>3, <1>4 DEF Behind
<1>7. \A p \in Arrived' : answer'[p] \in Letters => p \in shown'.reasoning \cup shown'.text \cup buf'
  BY <1>1, <1>3 DEF PiecesInv
<1> QED
  BY <1>3, <1>5, <1>6, <1>7 DEF PiecesInv

-----------------------------------------------------------------------------
(* The turns of the loop.                                                  *)

OpenTags(s) == {t \in s \X s : TagAt(s, t[1], t[2], OpenTag)}
Between(s, d) == After(s, d[1]) \cap Before(s, d[2])

\* A span that is cut out: what precedes it, what it holds, and what follows.
LEMMA CutPieces ==
  ASSUME NEW s, s \subseteq Nat, NEW opens, opens \subseteq OpenTags(s), NEW d \in FirstSpan(s, opens)
  PROVE  /\ d[1] \in opens /\ d[2] \in FirstTag(After(s, d[1]), CloseTag)
         /\ Before(s, d[1]) \subseteq s /\ Between(s, d) \subseteq s /\ After(s, d[2]) \subseteq s
         /\ Between(s, d) \cap Before(s, d[1]) = {}
         /\ Behind(After(s, d[2]), Between(s, d) \cup Before(s, d[1]))
         /\ \A p \in s :
              answer[p] \in Letters => p \in Between(s, d) \cup Before(s, d[1]) \cup After(s, d[2])
<1> DEFINE t == d[1]
           u == d[2]
<1>1. t \in opens /\ u \in FirstTag(After(s, t), CloseTag)
  BY DEF FirstSpan, Spans
<1>2. /\ t[1] \in s /\ t[2] \in s /\ TagAt(s, t[1], t[2], OpenTag)
  BY <1>1 DEF OpenTags
<1>3. /\ u[1] \in After(s, t) /\ u[2] \in After(s, t) /\ TagAt(After(s, t), u[1], u[2], CloseTag)
  BY <1>1, FirstTagTyped
<1>4. /\ u[1] \in s /\ u[2] \in s /\ t[1] < t[2] /\ t[2] < u[1] /\ u[1] < u[2]
      /\ t[1] \in Nat /\ t[2] \in Nat /\ u[1] \in Nat /\ u[2] \in Nat
  BY <1>2, <1>3 DEF After, TagAt, Adjacent
<1> HIDE DEF t, u
<1>5. ASSUME NEW p \in s, answer[p] \in Letters
      PROVE  \/ p < t[1]
             \/ p > t[2] /\ p < u[1]
             \/ p > u[2]
  <2>1. p \in Nat
    OBVIOUS
  <2>2. ~(t[1] <= p /\ p <= t[2])
    BY <1>2, <1>5, TagHoldsNoLetter
  <2>3. ASSUME u[1] <= p, p <= u[2]
        PROVE  FALSE
    <3>1. p \in After(s, t)
      BY <1>4, <2>1, <2>3 DEF After
    <3> QED
      BY <1>3, <1>5, <2>3, <3>1, TagHoldsNoLetter DEF After
  <2> QED
    BY <1>4, <2>1, <2>2, <2>3
<1>6. /\ \A p \in s : p \in Nat
      /\ \A p : p \in Before(s, t) <=> p \in s /\ p < t[1]
      /\ \A p : p \in After(s, t) <=> p \in s /\ p > t[2]
      /\ \A p : p \in Before(s, u) <=> p \in s /\ p < u[1]
      /\ \A p : p \in After(s, u) <=> p \in s /\ p > u[2]
  BY DEF Before, After
<1>7. (After(s, t) \cap Before(s, u)) \cap Before(s, t) = {}
  <2> SUFFICES ASSUME NEW p \in After(s, t), p \in Before(s, t)
               PROVE  FALSE
    OBVIOUS
  <2>1. p \in Nat /\ p > t[2] /\ p < t[1]
    BY <1>6
  <2> QED
    BY <1>4, <2>1
<1>8. Behind(After(s, u), (After(s, t) \cap Before(s, u)) \cup Before(s, t))
  <2> SUFFICES ASSUME NEW p \in After(s, u),
                      NEW q \in (After(s, t) \cap Before(s, u)) \cup Before(s, t)
               PROVE  q < p
    BY DEF Behind
  <2>1. p \in Nat /\ q \in Nat /\ p > u[2] /\ (q < u[1] \/ q < t[1])
    BY <1>6
  <2> QED
    BY <1>4, <2>1
<1>9. \A p \in s : answer[p] \in Letters =>
        p \in (After(s, t) \cap Before(s, u)) \cup Before(s, t) \cup After(s, u)
  BY <1>5, <1>6
<1> QED
  BY <1>1, <1>6, <1>7, <1>8, <1>9 DEF t, u, Between

\* The tag at the head, like the first one, is an opening tag.
LEMMA OpensTyped ==
  ASSUME NEW s
  PROVE  Opens(s) \subseteq OpenTags(s) /\ FirstTag(s, OpenTag) \subseteq OpenTags(s)
BY DEF Opens, FirstTag, Tags, OpenTags

\* Cutting a span out keeps the books.
LEMMA CutKeeps ==
  ASSUME ThinkTyped, PiecesInv, ~ended, UNCHANGED feeding, NEW opens, opens \subseteq OpenTags(buf), Cut(buf, opens)
  PROVE  ThinkTyped' /\ PiecesInv'
<1>1. buf \subseteq Nat
  BY AnswerTyped
<1>2. PICK d \in FirstSpan(buf, opens) :
        Turn("text", After(buf, d[2]), Between(buf, d), Before(buf, d[1]))
  BY DEF Cut, Between
<1>b. /\ Before(buf, d[1]) \subseteq buf /\ Between(buf, d) \subseteq buf /\ After(buf, d[2]) \subseteq buf
      /\ Between(buf, d) \cap Before(buf, d[1]) = {}
      /\ Behind(After(buf, d[2]), Between(buf, d) \cup Before(buf, d[1]))
      /\ \A p \in buf :
           answer[p] \in Letters => p \in Between(buf, d) \cup Before(buf, d[1]) \cup After(buf, d[2])
  BY <1>1, CutPieces
<1> DEFINE text == Before(buf, d[1])
           thought == Between(buf, d)
           rest == After(buf, d[2])
<1>3. /\ text \subseteq buf /\ thought \subseteq buf /\ rest \subseteq buf
      /\ thought \cap text = {} /\ Behind(rest, thought \cup text)
      /\ \A p \in buf : answer[p] \in Letters => p \in thought \cup text \cup rest
  BY <1>b
<1>4. /\ mode' = "text" /\ buf' = rest /\ HandsOn(thought, text)
      /\ UNCHANGED <<answer, arrived, ended>>
  BY <1>2 DEF Turn
<1> HIDE DEF text, thought, rest
<1>5. /\ shown' \in [reasoning : SUBSET Arrived, text : SUBSET Arrived, ordered : BOOLEAN]
      /\ PiecesInv'
  BY <1>3, <1>4, HandOver
<1> QED
  BY <1>3, <1>4, <1>5 DEF ThinkTyped, Arrived

-----------------------------------------------------------------------------
(* The head of an answer.                                                  *)

\* In a run of places the next one is the neighbour.
LEMMA Neighbours ==
  ASSUME NEW m \in Nat, NEW n \in Nat, NEW i, NEW j
  PROVE  Adjacent(m..n, i, j) <=> i \in m..n /\ j \in m..n /\ j = i + 1
<1>1. ASSUME Adjacent(m..n, i, j)
      PROVE  i \in m..n /\ j \in m..n /\ j = i + 1
  <2>1. /\ i \in m..n /\ j \in m..n /\ i < j /\ ~\E k \in m..n : i < k /\ k < j
    BY <1>1 DEF Adjacent
  <2>2. CASE i + 1 < j
    <3>1. i + 1 \in m..n
      BY <2>1, <2>2
    <3> QED
      BY <2>1, <2>2, <3>1
  <2> QED
    BY <2>1, <2>2
<1>2. ASSUME i \in m..n, j \in m..n, j = i + 1
      PROVE  Adjacent(m..n, i, j)
  BY <1>2 DEF Adjacent
<1> QED
  BY <1>1, <1>2

HeadTag(n) == n >= 2 /\ answer[1] = OpenTag[1] /\ answer[2] = OpenTag[2]

\* An answer that begins with a tag has it in its first two places.
LEMMA OpensAtHead ==
  ASSUME NEW n \in Nat
  PROVE  /\ Opens(1..n) = IF HeadTag(n) THEN {<<1, 2>>} ELSE {}
         /\ Leading(1..n) = "detecting" <=> n = 0 \/ (n = 1 /\ answer[1] = OpenTag[1])
         /\ Leading(1..n) = "reasoning" <=> HeadTag(n)
         /\ Leading(1..n) \in {"detecting", "reasoning", "text"}
<1>1. ASSUME NEW t \in Opens(1..n)
      PROVE  t = <<1, 2>> /\ HeadTag(n)
  <2>1. /\ t \in (1..n) \X (1..n) /\ TagAt(1..n, t[1], t[2], OpenTag) /\ \A p \in 1..n : t[1] <= p
    BY DEF Opens
  <2>2. Adjacent(1..n, t[1], t[2]) /\ answer[t[1]] = OpenTag[1] /\ answer[t[2]] = OpenTag[2]
    BY <2>1 DEF TagAt
  <2>3. t[1] \in 1..n /\ t[2] \in 1..n /\ t[2] = t[1] + 1
    BY <2>2, Neighbours
  <2>4. t[1] = 1
    BY <2>1, <2>3
  <2> QED
    BY <2>1, <2>2, <2>3, <2>4 DEF HeadTag
<1>2. ASSUME HeadTag(n)
      PROVE  <<1, 2>> \in Opens(1..n)
  <2>1. Adjacent(1..n, 1, 2)
    BY <1>2, Neighbours DEF HeadTag
  <2>2. TagAt(1..n, 1, 2, OpenTag) /\ 1 \in 1..n /\ 2 \in 1..n
    BY <1>2, <2>1 DEF HeadTag, TagAt
  <2> QED
    BY <2>2 DEF Opens
<1>3. Opens(1..n) = IF HeadTag(n) THEN {<<1, 2>>} ELSE {}
  BY <1>1, <1>2
<1>4. (\A p \in 1..n : 1..n = {p} /\ answer[p] = OpenTag[1]) <=> n = 0 \/ (n = 1 /\ answer[1] = OpenTag[1])
  <2>1. CASE n = 0
    BY <2>1
  <2>2. CASE n = 1
    BY <2>2
  <2>3. CASE n >= 2
    <3>1. 1 \in 1..n /\ 2 \in 1..n /\ 1..n # {1}
      BY <2>3
    <3> QED
      BY <2>3, <3>1
  <2> QED
    BY <2>1, <2>2, <2>3
<1>5. n = 0 \/ (n = 1 /\ answer[1] = OpenTag[1]) => ~HeadTag(n)
  BY DEF HeadTag
<1> QED
  BY <1>3, <1>4, <1>5 DEF Leading

\* What follows the tag of the head, and the closing tags in it.
LEMMA ClosesAfterHead ==
  ASSUME NEW n \in Nat, \A p \in 1..n : answer[p] # Quote
  PROVE  /\ After(1..n, <<1, 2>>) = 3..n
         /\ \A t : t \in Tags(3..n, CloseTag) <=>
              /\ t \in (3..n) \X (3..n) /\ t[2] = t[1] + 1
              /\ answer[t[1]] = CloseTag[1] /\ answer[t[2]] = CloseTag[2]
<1>1. After(1..n, <<1, 2>>) = 3..n
  BY DEF After
<1>2. \A q \in 3..n : answer[q] # Quote
  OBVIOUS
<1>3. \A i, j : ~IsLiteral(3..n, i, j)
  BY <1>2 DEF IsLiteral
<1>4. \A i, j : Adjacent(3..n, i, j) <=> i \in 3..n /\ j \in 3..n /\ j = i + 1
  BY Neighbours
<1>5. \A t : t \in Tags(3..n, CloseTag) <=>
        /\ t \in (3..n) \X (3..n) /\ t[2] = t[1] + 1
        /\ answer[t[1]] = CloseTag[1] /\ answer[t[2]] = CloseTag[2]
  BY <1>3, <1>4 DEF Tags, TagAt
<1> QED
  BY <1>1, <1>5

\* The first closing tag stays the first when more arrives.
LEMMA FirstCloseStays ==
  ASSUME NEW m \in Nat, NEW n \in Nat, m <= n, \A p \in 1..n : answer[p] # Quote,
         NEW u \in FirstTag(After(1..m, <<1, 2>>), CloseTag)
  PROVE  u \in FirstTag(After(1..n, <<1, 2>>), CloseTag)
<1>1. \A p \in 1..m : answer[p] # Quote
  OBVIOUS
<1>2. After(1..m, <<1, 2>>) = 3..m /\ After(1..n, <<1, 2>>) = 3..n
  BY <1>1, ClosesAfterHead
<1>3. u \in Tags(3..m, CloseTag) /\ \A v \in Tags(3..m, CloseTag) : u[1] <= v[1]
  BY <1>2 DEF FirstTag
<1>4. /\ u \in (3..m) \X (3..m) /\ u[2] = u[1] + 1
      /\ answer[u[1]] = CloseTag[1] /\ answer[u[2]] = CloseTag[2]
  BY <1>1, <1>3, ClosesAfterHead
<1>5. u \in (3..n) \X (3..n)
  BY <1>4
<1>6. u \in Tags(3..n, CloseTag)
  BY <1>4, <1>5, ClosesAfterHead
<1>7. ASSUME NEW v \in Tags(3..n, CloseTag)
      PROVE  u[1] <= v[1]
  <2>1. /\ v \in (3..n) \X (3..n) /\ v[2] = v[1] + 1
        /\ answer[v[1]] = CloseTag[1] /\ answer[v[2]] = CloseTag[2]
    BY <1>7, ClosesAfterHead
  <2>2. CASE v[2] <= m
    <3>1. v \in (3..m) \X (3..m)
      BY <2>1, <2>2
    <3>2. v \in Tags(3..m, CloseTag)
      BY <1>1, <2>1, <3>1, ClosesAfterHead
    <3> QED
      BY <1>3, <3>2
  <2>3. CASE ~(v[2] <= m)
    BY <1>4, <2>1, <2>3
  <2> QED
    BY <2>2, <2>3
<1> QED
  BY <1>2, <1>6, <1>7 DEF FirstTag

-----------------------------------------------------------------------------
(* The invariant.                                                          *)

\* Handing on what is buffered only keeps what is known of the head.
LEMMA HeadKept ==
  ASSUME ThinkTyped, HeadInv, mode = "text", mode' = "text", UNCHANGED <<answer, arrived>>,
         ~ended, ~ended', shown'.text \cup buf' \subseteq shown.text \cup buf
  PROVE  HeadInv'
BY DEF HeadInv, Arrived, Unquoted, FirstTag, Tags, TagAt, IsLiteral, Adjacent, Opens, After, Leading

\* A delta that arrives goes behind everything else, and changes the head only
\* while it is undecided.
LEMMA DeltaKeeps ==
  ASSUME ThinkInv, NEW n \in 1..(Len(answer) - arrived), Delta(n)
  PROVE  ThinkInv'
<1>1. /\ ~feeding /\ ~ended /\ arrived' = arrived + n /\ buf' = buf \cup (arrived + 1)..(arrived + n)
      /\ feeding' /\ UNCHANGED <<answer, mode, shown, ended>>
  BY DEF Delta
<1>2. arrived \in Nat /\ Len(answer) \in Nat /\ n \in Nat /\ n >= 1 /\ arrived + n <= Len(answer)
  BY AnswerTyped DEF ThinkInv
<1>3. Arrived' = 1..(arrived + n) /\ Arrived = 1..arrived
  BY <1>1 DEF Arrived
<1>4. Arrived \subseteq Arrived' /\ Arrived' = Arrived \cup (arrived + 1)..(arrived + n)
  BY <1>2, <1>3
<1>5. ThinkTyped'
  BY <1>1, <1>2, <1>4 DEF ThinkInv, ThinkTyped
<1>6. PiecesInv'
  <2>1. shown.reasoning \cup shown.text \subseteq Arrived
    BY DEF ThinkInv, ThinkTyped
  <2>2. Behind(buf', shown.reasoning \cup shown.text)
    <3> SUFFICES ASSUME NEW p \in buf', NEW q \in shown.reasoning \cup shown.text
                 PROVE  q < p
      BY DEF Behind
    <3>1. CASE p \in buf
      BY <3>1 DEF ThinkInv, PiecesInv, Behind
    <3>2. CASE p \in (arrived + 1)..(arrived + n)
      BY <1>2, <1>3, <2>1, <3>2
    <3> QED
      BY <1>1, <3>1, <3>2
  <2>3. \A p \in Arrived' : answer[p] \in Letters => p \in shown.reasoning \cup shown.text \cup buf'
    BY <1>1, <1>4 DEF ThinkInv, PiecesInv
  <2> QED
    BY <1>1, <2>2, <2>3 DEF ThinkInv, PiecesInv
<1>7. HeadInv'
  <2>1. mode # "text" => buf' = Arrived' /\ shown'.text = {}
    BY <1>1, <1>4 DEF ThinkInv, HeadInv
  <2>2. /\ Opens(Arrived) = IF HeadTag(arrived) THEN {<<1, 2>>} ELSE {}
        /\ Opens(Arrived)' = IF HeadTag(arrived + n) THEN {<<1, 2>>} ELSE {}
        /\ Leading(Arrived)' = "detecting" <=> arrived + n = 0 \/ (arrived + n = 1 /\ answer[1] = OpenTag[1])
        /\ Leading(Arrived) = "detecting" <=> arrived = 0 \/ (arrived = 1 /\ answer[1] = OpenTag[1])
    <3>1. /\ Opens(Arrived)' = Opens(1..(arrived + n)) /\ Leading(Arrived)' = Leading(1..(arrived + n))
      BY <1>1, <1>3 DEF Opens, Leading, TagAt
    <3> QED
      BY <1>2, <1>3, <3>1, OpensAtHead
  <2>3. mode = "reasoning" => Opens(buf)' # {}
    <3>1. CASE mode = "reasoning"
      <4>1. Opens(Arrived) # {} /\ buf' = Arrived'
        BY <1>1, <2>1, <3>1 DEF ThinkInv, HeadInv
      <4>3. HeadTag(arrived)
        BY <2>2, <4>1
      <4>4. Opens(buf)' = Opens(Arrived)'
        BY <4>1 DEF Opens, TagAt
      <4>2. HeadTag(arrived + n)
        BY <1>2, <4>3 DEF HeadTag
      <4> QED
        BY <2>2, <4>4, <4>2
    <3> QED
      BY <3>1
  <2>4. mode = "text" => Leading(Arrived)' # "detecting"
    BY <1>1, <1>2, <2>2 DEF ThinkInv, HeadInv
  <2>5. ASSUME mode = "text", Unquoted', NEW t \in Opens(Arrived)'
        PROVE  \E u \in FirstTag(After(Arrived, t), CloseTag)' : \A p \in shown'.text \cup buf' : p > u[2]
    <3>1. \A p \in 1..(arrived + n) : answer[p] # Quote
      BY <1>1, <1>3, <2>5 DEF Unquoted
    <3>2. Unquoted
      BY <1>3, <1>4, <3>1 DEF Unquoted
    <3>3. HeadTag(arrived + n) /\ t = <<1, 2>>
      BY <2>2, <2>5
    <3>4. HeadTag(arrived)
      BY <1>1, <1>2, <2>2, <2>5, <3>3 DEF ThinkInv, HeadInv, HeadTag
    <3>5. PICK u \in FirstTag(After(Arrived, <<1, 2>>), CloseTag) : \A p \in shown.text \cup buf : p > u[2]
      BY <1>1, <2>2, <2>5, <3>2, <3>4 DEF ThinkInv, HeadInv
    <3>6. u \in FirstTag(After(1..(arrived + n), <<1, 2>>), CloseTag)
      BY <1>2, <1>3, <3>1, <3>5, FirstCloseStays
    <3>7. FirstTag(After(Arrived, t), CloseTag)' = FirstTag(After(1..(arrived + n), <<1, 2>>), CloseTag)
      BY <1>1, <1>3, <3>3 DEF FirstTag, Tags, TagAt, IsLiteral, After
    <3>8. \A p \in buf' : p > u[2]
      <4>1. After(1..arrived, <<1, 2>>) \subseteq 1..arrived
        BY DEF After
      <4>2. u[2] \in 1..arrived
        BY <1>3, <3>5, <4>1, FirstTagTyped
      <4> QED
        BY <1>1, <1>2, <3>5, <4>2
    <3> QED
      BY <1>1, <3>5, <3>6, <3>7, <3>8
  <2> QED
    BY <1>1, <2>1, <2>3, <2>4, <2>5 DEF HeadInv
<1> QED
  BY <1>5, <1>6, <1>7 DEF ThinkInv

\* The head of what has arrived (leadingThinkDecision).
LEMMA HeadFacts ==
  ASSUME ThinkTyped
  PROVE  /\ Opens(Arrived) = IF HeadTag(arrived) THEN {<<1, 2>>} ELSE {}
         /\ Leading(Arrived) = "reasoning" <=> Opens(Arrived) # {}
         /\ Leading(Arrived) \in {"detecting", "reasoning", "text"}
BY AnswerTyped, OpensAtHead DEF Arrived

\* The head is decided on: wait, a span begins, or there is none.
LEMMA DetectKeeps ==
  ASSUME ThinkInv, Detect
  PROVE  ThinkInv'
<1>1. ThinkTyped /\ PiecesInv /\ HeadInv /\ feeding /\ mode = "detecting" /\ buf = Arrived /\ ~ended
      /\ shown.text = {} /\ buf \subseteq Nat
  BY AnswerTyped DEF ThinkInv, HeadInv, PiecesInv, Detect
<1>2. CASE Leading(buf) = "detecting" /\ Wait
  <2>1. feeding' = FALSE /\ UNCHANGED <<answer, arrived, mode, buf, shown, ended>>
    BY <1>2 DEF Wait
  <2>2. Opens(buf) = {}
    BY <1>1, <1>2, HeadFacts
  <2> QED
    BY <1>1, <2>1, <2>2
    DEF ThinkInv, ThinkTyped, PiecesInv, HeadInv, Arrived, Unquoted, Opens, TagAt, Behind
<1>3. CASE Leading(buf) = "reasoning" /\ Turn("reasoning", buf, {}, {}) /\ UNCHANGED feeding
  <2>1. /\ mode' = "reasoning" /\ buf' = buf /\ HandsOn({}, {})
        /\ UNCHANGED <<answer, arrived, ended, feeding>>
    BY <1>3 DEF Turn
  <2>2. Opens(buf) # {}
    BY <1>1, <1>3, HeadFacts
  <2>3. /\ shown' \in [reasoning : SUBSET Arrived, text : SUBSET Arrived, ordered : BOOLEAN]
        /\ PiecesInv'
    BY <1>1, <2>1, HandOver DEF Behind
  <2>4. shown'.text = {}
    BY <1>1, <2>1 DEF HandsOn
  <2>5. ThinkTyped'
    BY <1>1, <2>1, <2>3 DEF ThinkTyped, Arrived
  <2>6. Opens(buf)' # {}
    BY <2>1, <2>2 DEF Opens, TagAt
  <2> QED
    BY <1>1, <2>1, <2>3, <2>4, <2>5, <2>6 DEF ThinkInv, HeadInv, Arrived
<1>4. ASSUME Leading(buf) = "text", mode' = "text", UNCHANGED <<answer, arrived, ended>>
      PROVE  HeadInv'
  <2>1. Opens(Arrived) = {}
    BY <1>1, <1>4, HeadFacts
  <2>2. Opens(Arrived)' = {} /\ Leading(Arrived)' = "text"
    BY <1>1, <1>4, <2>1 DEF Opens, Arrived, TagAt, Leading
  <2> QED
    BY <1>4, <2>2 DEF HeadInv
<1>5. ASSUME Leading(buf) = "text", UNCHANGED feeding, NEW t \in FirstTag(buf, CloseTag),
             Turn("text", After(buf, t), Before(buf, t), {})
      PROVE  ThinkInv'
  <2>1. /\ mode' = "text" /\ buf' = After(buf, t) /\ HandsOn(Before(buf, t), {})
        /\ UNCHANGED <<answer, arrived, ended>>
    BY <1>5 DEF Turn
  <2>2. t[1] \in buf /\ t[2] \in buf /\ TagAt(buf, t[1], t[2], CloseTag) /\ t[1] < t[2]
    BY FirstTagTyped DEF TagAt, Adjacent
  <2>3. Before(buf, t) \subseteq buf /\ After(buf, t) \subseteq buf
    BY DEF Before, After
  <2>4. Behind(After(buf, t), Before(buf, t))
    <3> SUFFICES ASSUME NEW p \in After(buf, t), NEW q \in Before(buf, t)
                 PROVE  q < p
      BY DEF Behind
    <3>1. p \in Nat /\ q \in Nat /\ t[1] \in Nat /\ t[2] \in Nat /\ p > t[2] /\ q < t[1]
      BY <1>1, <2>2 DEF Before, After
    <3> QED
      BY <2>2, <3>1
  <2>5. ASSUME NEW p \in buf, answer[p] \in Letters
        PROVE  p \in Before(buf, t) \cup After(buf, t)
    <3>1. ~(t[1] <= p /\ p <= t[2])
      BY <1>1, <2>2, <2>5, TagHoldsNoLetter
    <3>2. p \in Nat /\ t[1] \in Nat /\ t[2] \in Nat
      BY <1>1, <2>2, <2>5
    <3>3. p < t[1] \/ p > t[2]
      BY <3>1, <3>2
    <3> QED
      BY <2>5, <3>3 DEF Before, After
  <2>6. /\ shown' \in [reasoning : SUBSET Arrived, text : SUBSET Arrived, ordered : BOOLEAN]
        /\ PiecesInv'
    BY <1>1, <2>1, <2>3, <2>4, <2>5, HandOver
  <2> QED
    BY <1>1, <1>4, <1>5, <2>1, <2>3, <2>6 DEF ThinkInv, ThinkTyped, Arrived
<1>6. ASSUME Leading(buf) = "text", mode' = "text", UNCHANGED <<answer, arrived, buf, feeding, shown, ended>>
      PROVE  ThinkInv'
  BY <1>1, <1>4, <1>6 DEF ThinkInv, ThinkTyped, PiecesInv, Arrived, Behind
<1> QED
  BY <1>2, <1>3, <1>5, <1>6 DEF Detect

\* Waiting for the next delta changes nothing.
LEMMA WaitKeeps ==
  ASSUME ThinkInv, Wait, mode # "detecting"
  PROVE  ThinkInv'
<1>1. feeding' = FALSE /\ UNCHANGED <<answer, arrived, mode, buf, shown, ended>>
  BY DEF Wait
<1>2. ThinkTyped'
  BY <1>1 DEF ThinkInv, ThinkTyped, Arrived
<1>3. PiecesInv'
  BY <1>1 DEF ThinkInv, PiecesInv, Arrived, Behind
<1>4. /\ Arrived' = Arrived /\ Unquoted' = Unquoted /\ Opens(buf)' = Opens(buf)
      /\ Opens(Arrived)' = Opens(Arrived) /\ Leading(Arrived)' = Leading(Arrived)
      /\ \A t : FirstTag(After(Arrived, t), CloseTag)' = FirstTag(After(Arrived, t), CloseTag)
  BY <1>1 DEF Arrived, Unquoted, FirstTag, Tags, TagAt, IsLiteral, Opens, After, Leading
<1>5. HeadInv'
  BY <1>1, <1>4 DEF ThinkInv, HeadInv
<1> QED
  BY <1>2, <1>3, <1>5 DEF ThinkInv

\* The span at the head is cut out whole: what is left lies behind it.
LEMMA SplitLeadingKeeps ==
  ASSUME ThinkInv, SplitLeading
  PROVE  ThinkInv'
<1>1. /\ ThinkTyped /\ PiecesInv /\ HeadInv /\ feeding /\ mode = "reasoning" /\ buf = Arrived /\ ~ended
      /\ shown.text = {} /\ Opens(buf) # {}
  BY DEF ThinkInv, HeadInv, PiecesInv, SplitLeading
<1>2. CASE FirstSpan(buf, Opens(buf)) = {} /\ Wait
  BY <1>1, <1>2, WaitKeeps
<1>3. CASE Cut(buf, Opens(buf)) /\ UNCHANGED feeding
  <2>1. Opens(buf) = {<<1, 2>>}
    BY <1>1, HeadFacts
  <2>2. ThinkTyped' /\ PiecesInv'
    BY <1>1, <1>3, OpensTyped, CutKeeps
  <2>3. PICK d \in FirstSpan(buf, Opens(buf)) :
          Turn("text", After(buf, d[2]), After(buf, d[1]) \cap Before(buf, d[2]), Before(buf, d[1]))
    BY <1>3 DEF Cut
  <2>4. d[1] = <<1, 2>> /\ d[2] \in FirstTag(After(buf, <<1, 2>>), CloseTag)
    BY <2>1, <2>3 DEF FirstSpan, Spans
  <2>5. /\ mode' = "text" /\ buf' = After(buf, d[2]) /\ UNCHANGED <<answer, arrived, ended>>
        /\ shown'.text = shown.text \cup Before(buf, d[1])
    BY <2>3 DEF Turn, HandsOn
  <2>6. Before(buf, d[1]) = {}
    BY <1>1, <2>4 DEF Before, Arrived
  <2>7. \A p \in shown'.text \cup buf' : p > d[2][2]
    BY <1>1, <2>5, <2>6 DEF After
  <2>8. /\ Opens(Arrived)' = {<<1, 2>>} /\ Leading(Arrived)' = Leading(buf)
        /\ FirstTag(After(Arrived, <<1, 2>>), CloseTag)' = FirstTag(After(buf, <<1, 2>>), CloseTag)
    BY <1>1, <2>1, <2>5 DEF Arrived, Opens, Leading, FirstTag, Tags, TagAt, IsLiteral, After
  <2>9. Leading(buf) = "reasoning"
    BY <1>1, HeadFacts
  <2> QED
    BY <1>1, <2>2, <2>4, <2>5, <2>7, <2>8, <2>9 DEF ThinkInv, HeadInv
<1> QED
  BY <1>2, <1>3 DEF SplitLeading

\* Stripping stray tags takes no letter away.
LEMMA StripsNoLetter ==
  ASSUME NEW s, s \subseteq Nat, NEW p \in s, answer[p] \in Letters
  PROVE  p \in StripClose(s)
<1> SUFFICES ASSUME NEW t \in Tags(s, CloseTag), p = t[1] \/ p = t[2]
             PROVE  FALSE
  BY DEF StripClose
<1>1. TagAt(s, t[1], t[2], CloseTag) /\ t[1] \in s /\ t[2] \in s
  BY DEF Tags
<1>2. answer[t[1]] \in Heads /\ answer[t[2]] = "nk>"
  BY <1>1 DEF TagAt, CloseTag, Heads
<1> QED
  BY <1>2, ThinkAssumption

\* Spans are cut out of the text, and what may begin a tag stays behind.
LEMMA SplitTextKeeps ==
  ASSUME ThinkInv, SplitText
  PROVE  ThinkInv'
<1>1. /\ ThinkTyped /\ PiecesInv /\ HeadInv /\ feeding /\ mode = "text" /\ ~ended /\ buf \subseteq Nat
  BY AnswerTyped DEF ThinkInv, PiecesInv, SplitText
<1>2. CASE Cut(buf, FirstTag(buf, OpenTag)) /\ UNCHANGED feeding
  <2>1. ThinkTyped' /\ PiecesInv'
    BY <1>1, <1>2, OpensTyped, CutKeeps
  <2>2. PICK d \in FirstSpan(buf, FirstTag(buf, OpenTag)) :
          Turn("text", After(buf, d[2]), After(buf, d[1]) \cap Before(buf, d[2]), Before(buf, d[1]))
    BY <1>2 DEF Cut
  <2>3. /\ mode' = "text" /\ buf' = After(buf, d[2]) /\ UNCHANGED <<answer, arrived, ended>>
        /\ shown'.text = shown.text \cup Before(buf, d[1])
    BY <2>2 DEF Turn, HandsOn
  <2>4. shown'.text \cup buf' \subseteq shown.text \cup buf
    BY <2>3 DEF Before, After
  <2> QED
    BY <1>1, <2>1, <2>3, <2>4, HeadKept DEF ThinkInv
<1> DEFINE stripped == StripClose(buf)
           held == Held(stripped)
<1>3. CASE Turn("text", held, {}, stripped \ held) /\ feeding' = FALSE
  <2>1. stripped \subseteq buf /\ held \subseteq stripped
    BY DEF StripClose, Held
  <2>2. \A p \in buf : answer[p] \in Letters => p \in stripped
    BY <1>1, StripsNoLetter
  <2>3. ASSUME NEW p \in held, NEW q \in stripped \ held
        PROVE  q < p
    <3>1. p \in Nat /\ q \in Nat /\ q <= p
      BY <1>1, <2>1, <2>3 DEF Held
    <3>2. p # q
      BY <2>3
    <3> QED
      BY <3>1, <3>2
  <2> HIDE DEF stripped, held
  <2>4. /\ mode' = "text" /\ buf' = held /\ HandsOn({}, stripped \ held)
        /\ UNCHANGED <<answer, arrived, ended>> /\ feeding' = FALSE
    BY <1>3 DEF Turn
  <2>5. Behind(buf', {} \cup (stripped \ held))
    BY <2>3, <2>4 DEF Behind
  <2>6. /\ shown' \in [reasoning : SUBSET Arrived, text : SUBSET Arrived, ordered : BOOLEAN]
        /\ PiecesInv'
    <3>1. {} \subseteq buf /\ stripped \ held \subseteq buf /\ {} \cap (stripped \ held) = {} /\ buf' \subseteq buf
      BY <2>1, <2>4
    <3>2. \A p \in buf : answer[p] \in Letters => p \in {} \cup (stripped \ held) \cup buf'
      BY <2>2, <2>4
    <3> QED
      BY <1>1, <2>4, <2>5, <3>1, <3>2, HandOver
  <2>7. shown'.text \cup buf' \subseteq shown.text \cup buf
    BY <2>1, <2>4 DEF HandsOn
  <2>8. ThinkTyped'
    BY <1>1, <2>1, <2>4, <2>6 DEF ThinkTyped, Arrived
  <2> QED
    BY <1>1, <2>4, <2>6, <2>7, <2>8, HeadKept DEF ThinkInv
<1> QED
  BY <1>2, <1>3 DEF SplitText

\* The end of the answer empties the buffer (flush).
LEMMA FlushKeeps ==
  ASSUME ThinkInv, Flush
  PROVE  ThinkInv'
<1>1. /\ ThinkTyped /\ PiecesInv /\ HeadInv /\ ~feeding /\ ~ended /\ arrived = Len(answer) /\ buf \subseteq Nat
  BY AnswerTyped DEF ThinkInv, Flush
<1>2. /\ mode' = "text" /\ buf' = {} /\ ended' = TRUE /\ UNCHANGED <<answer, arrived, feeding>>
      /\ HandsOn(OpenSpan, IF mode = "reasoning" THEN {} ELSE buf)
  BY DEF Flush
<1>3. CASE mode = "reasoning"
  <2>1. Opens(buf) = {<<1, 2>>} /\ buf = Arrived /\ shown.text = {}
    BY <1>1, <1>3, HeadFacts DEF HeadInv
  <2>2. OpenSpan = After(buf, <<1, 2>>)
    BY <1>3, <2>1 DEF OpenSpan
  <2>3. \A p \in buf : answer[p] \in Letters => p \in OpenSpan
    <3> SUFFICES ASSUME NEW p \in buf, answer[p] \in Letters
                 PROVE  p > 2
      BY <2>2 DEF After
    <3>1. TagAt(buf, 1, 2, OpenTag)
      <4>1. <<1, 2>> \in Opens(buf)
        BY <2>1
      <4> QED
        BY <4>1 DEF Opens
    <3>2. p \in Nat /\ ~(1 <= p /\ p <= 2)
      BY <1>1, <3>1, TagHoldsNoLetter
    <3> QED
      BY <2>1, <3>2 DEF Arrived
  <2>4. OpenSpan \subseteq buf
    BY <2>2 DEF After
  <2>5. HandsOn(OpenSpan, {}) /\ shown \in [reasoning : SUBSET Arrived, text : SUBSET Arrived, ordered : BOOLEAN]
        /\ OpenSpan \subseteq Arrived
    BY <1>1, <1>2, <1>3, <2>1, <2>4 DEF ThinkTyped
  <2> HIDE DEF OpenSpan
  <2>6. shown'.reasoning = shown.reasoning \cup OpenSpan /\ shown'.text = {}
        /\ shown'.ordered = (shown.ordered /\ Behind(OpenSpan, shown.reasoning) /\ Behind({}, shown.text))
        /\ shown' \in [reasoning : SUBSET Arrived, text : SUBSET Arrived, ordered : BOOLEAN]
    BY <2>1, <2>5 DEF HandsOn
  <2>7. shown'.ordered
    BY <1>1, <2>4, <2>6 DEF PiecesInv, Behind
  <2>8. PiecesInv'
    BY <1>1, <1>2, <2>1, <2>3, <2>6, <2>7 DEF PiecesInv, Behind, Arrived
  <2>9. ThinkTyped'
    BY <1>1, <1>2, <2>6 DEF ThinkTyped, Arrived
  <2>10. HeadInv'
    BY <1>2, <2>6 DEF HeadInv
  <2> QED
    BY <2>8, <2>9, <2>10 DEF ThinkInv
<1>4. CASE mode # "reasoning"
  <2>1. OpenSpan = {} /\ HandsOn({}, buf)
    BY <1>2, <1>4 DEF OpenSpan
  <2>2. shown'.reasoning = shown.reasoning /\ shown'.text = shown.text \cup buf
        /\ shown'.ordered = (shown.ordered /\ Behind({}, shown.reasoning) /\ Behind(buf, shown.text))
        /\ shown' \in [reasoning : SUBSET Arrived, text : SUBSET Arrived, ordered : BOOLEAN]
    BY <1>1, <2>1 DEF HandsOn, ThinkTyped, PiecesInv
  <2>3. shown'.ordered
    BY <1>1, <2>2 DEF PiecesInv, Behind
  <2>4. shown.reasoning \cap buf = {}
    <3> SUFFICES ASSUME NEW p \in buf, p \in shown.reasoning
                 PROVE  FALSE
      OBVIOUS
    <3>1. p \in Nat /\ p < p
      BY <1>1 DEF PiecesInv, Behind
    <3> QED
      BY <3>1
  <2>5. PiecesInv'
    BY <1>1, <1>2, <2>2, <2>3, <2>4 DEF PiecesInv, Behind, Arrived
  <2>6. ThinkTyped'
    BY <1>1, <1>2, <2>2 DEF ThinkTyped, Arrived
  <2>7. HeadInv'
    <3>1. CASE mode = "detecting"
      <4>1. Opens(Arrived)' = {}
        BY <1>1, <1>2, <3>1 DEF HeadInv, Opens, TagAt, Arrived
      <4> QED
        BY <1>2, <4>1 DEF HeadInv
    <3>2. CASE mode = "text"
      <4>1. /\ Unquoted' = Unquoted /\ Opens(Arrived)' = Opens(Arrived)
            /\ \A t : FirstTag(After(Arrived, t), CloseTag)' = FirstTag(After(Arrived, t), CloseTag)
        BY <1>2 DEF Arrived, Unquoted, FirstTag, Tags, TagAt, IsLiteral, Opens, After
      <4>2. shown'.text \cup buf' = shown.text \cup buf
        BY <1>2, <2>2
      <4> QED
        BY <1>1, <1>2, <3>2, <4>1, <4>2 DEF HeadInv
    <3> QED
      BY <1>1, <1>4, <3>1, <3>2 DEF ThinkTyped
  <2> QED
    BY <2>5, <2>6, <2>7 DEF ThinkInv
<1> QED
  BY <1>3, <1>4

\* The books and the head are kept by every step.
LEMMA ThinkInvHolds == ThinkSpec => []ThinkInv
<1>1. ThinkInit => ThinkInv
  <2> SUFFICES ASSUME ThinkInit
               PROVE  ThinkInv
    OBVIOUS
  <2>1. /\ answer \in Texts /\ answer \in Seq(Tokens) /\ arrived = 0 /\ Arrived = {} /\ buf = {}
        /\ mode = "detecting" /\ feeding = FALSE /\ ended = FALSE
        /\ shown = [reasoning |-> {}, text |-> {}, ordered |-> TRUE]
    BY ThinkAssumption DEF ThinkInit, Arrived
  <2>2. Len(answer) \in Nat
    BY <2>1
  <2>3. shown \in [reasoning : SUBSET Arrived, text : SUBSET Arrived, ordered : BOOLEAN]
    BY <2>1
  <2>7. arrived \in 0..Len(answer) /\ buf \subseteq Arrived
    BY <2>1, <2>2
  <2>5. ThinkTyped
    BY <2>1, <2>3, <2>7 DEF ThinkTyped
  <2>6. PiecesInv
    BY <2>1 DEF PiecesInv, Behind
  <2>8. Opens(buf) = {}
    BY <2>1 DEF Opens
  <2>4. HeadInv
    BY <2>1, <2>8 DEF HeadInv
  <2> QED
    BY <2>4, <2>5, <2>6 DEF ThinkInv
<1>2. ThinkInv /\ [ThinkNext]_thinkVars => ThinkInv'
  <2> SUFFICES ASSUME ThinkInv, [ThinkNext]_thinkVars
               PROVE  ThinkInv'
    OBVIOUS
  <2>1. CASE UNCHANGED thinkVars
    BY <2>1 DEF thinkVars, ThinkInv, ThinkTyped, PiecesInv, HeadInv, Arrived, Unquoted, FirstTag, Tags,
                TagAt, IsLiteral, Adjacent, Opens, After, Leading, Behind
  <2> QED
    BY <2>1, DeltaKeeps, DetectKeeps, SplitLeadingKeeps, SplitTextKeeps, FlushKeeps DEF ThinkNext
<1> QED
  BY <1>1, <1>2, PTL DEF ThinkSpec

\* Every letter of an answer is handed on once and in order, for any answer and
\* any borders of its deltas (feed, flush).
THEOREM NoLetterLost == ThinkSpec => []EveryLetterOnce
<1>1. ThinkInv => EveryLetterOnce
  BY AnswerTyped DEF ThinkInv, PiecesInv, EveryLetterOnce, Arrived
<1> QED
  BY <1>1, ThinkInvHolds, PTL

\* A span at the head of an answer is never shown as text, for any answer and
\* any borders of its deltas (leadingThinkDecision).
THEOREM LeadingSpanHidden == ThinkSpec => []LeadingSpanApart
<1>1. ThinkInv => LeadingSpanApart
  <2> SUFFICES ASSUME ThinkInv, NEW t \in Opens(Arrived), Unquoted,
                      NEW p \in After(Arrived, t), \A u \in FirstTag(After(Arrived, t), CloseTag) : p < u[1],
                      p \in shown.text
               PROVE  FALSE
    BY DEF LeadingSpanApart, Arrived, Unquoted
  <2>1. mode = "text"
    BY DEF ThinkInv, ThinkTyped, HeadInv
  <2>2. PICK u \in FirstTag(After(Arrived, t), CloseTag) : p > u[2]
    BY <2>1 DEF ThinkInv, HeadInv
  <2>3. TagAt(After(Arrived, t), u[1], u[2], CloseTag) /\ u[1] \in After(Arrived, t) /\ u[2] \in After(Arrived, t)
    BY FirstTagTyped
  <2>4. u[1] < u[2] /\ u[1] \in Nat /\ u[2] \in Nat /\ p \in Nat
    BY <2>3 DEF TagAt, Adjacent, After, Arrived
  <2> QED
    BY <2>2, <2>4
<1> QED
  BY <1>1, ThinkInvHolds, PTL
=============================================================================
