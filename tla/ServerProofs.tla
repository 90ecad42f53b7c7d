---------------------------- MODULE ServerProofs ----------------------------
(***************************************************************************)
(* The safety properties of Server, for every number of requests, attempts, *)
(* reads, starts and stops, and of threads that end the process.            *)
(***************************************************************************)
EXTENDS Server, FiniteSetTheorems, TLAPS

HeaderRecord == [timer : {"off", "armed", "due"}, returned : BOOLEAN,
                 timedOut : BOOLEAN, cut : BOOLEAN]
BodyRecord == [generation : Nat, closed : BOOLEAN, timedOut : BOOLEAN,
               read : Nat, armed : Nat, due : SUBSET Nat]

\* The two halves of TypeOK.
RequestsTyped ==
  /\ pc \in [Requests -> Labels] /\ cancelled \subseteq Requests
  /\ attempts \in [Requests -> 0..MaxAttempts]
  /\ header \in [Requests -> HeaderRecord]
  /\ did \in [Requests -> {"response", "error"}]
  /\ body \in [Requests -> BodyRecord]
  /\ got \in [Requests -> {"nothing", "data", "eof", "error"}]
  /\ conn \in [Requests -> {"none", "open", "closed"}] /\ registered \subseteq Requests
  /\ taken \in [Requests -> Nat] /\ handed \in [Requests -> Nat]

FacadeTyped ==
  /\ enabled \in BOOLEAN /\ context \in Life /\ dead \subseteq Life
  /\ lifecycle \in Thread \cup {Free} /\ gate \in BOOLEAN /\ sweep \subseteq Requests
  /\ pathLn \in Life \cup {None} /\ pathServer \in Life \cup {None} /\ sockets \subseteq Life
  /\ at \in [Thread -> {"idle", "enable", "admit", "disable", "cancel", "close", "serve", "stop",
                        "stopCancel", "stopClose", "read", "shutdown", "drain", "clear", "ended"}]
  /\ seen \in [Thread -> [server : Life \cup {None}, listener : Life \cup {None}]]
  /\ depends \in [Requests -> Life \cup {None}]

Calling == {"dial", "track", "wait", "returned"}
Reading == {"reading", "inRead", "readDone"}

\* While the call is under way only its timer cuts it, and a response that is
\* read was not cut.
HeaderOK(r) ==
  /\ pc[r] \in Calling /\ header[r].cut => header[r].timedOut
  /\ pc[r] \in Reading => header[r].returned /\ ~header[r].cut

\* What a Read of the wrapped body brought waits for that Read to return.
ChunkOK(r) ==
  /\ got[r] # "nothing" => pc[r] = "readDone"
  /\ taken[r] = handed[r] + (IF got[r] = "data" THEN 1 ELSE 0)

\* A timer is of the present generation only during the Read it was started for.
IdleOK(r) ==
  /\ \A g \in body[r].due : g <= body[r].generation
  /\ body[r].armed <= body[r].generation
  /\ body[r].armed # 0 => pc[r] = "inRead"
  /\ ~body[r].closed /\ pc[r] \in {"inRead", "readDone"} => body[r].read = body[r].generation
  /\ ~body[r].closed /\ pc[r] \notin {"inRead", "readDone"} => body[r].generation \notin body[r].due

\* A connection in use is tracked, or about to be closed.
ConnOK(r) == conn[r] = "open" /\ pc[r] # "track" => r \in registered \cup sweep

RequestOK(r) == HeaderOK(r) /\ ChunkOK(r) /\ IdleOK(r)

\* A closed gate leaves nothing tracked, and only the thread that sweeps holds
\* lifecycleMu.
LockOK ==
  /\ gate => registered = {}
  /\ lifecycle = Free => sweep = {}
  /\ lifecycle # Free => at[lifecycle] \in {"close", "stopClose"}
  /\ \A t \in Thread : at[t] \in {"close", "stopClose"} => lifecycle = t /\ gate

\* A facade that refuses with an open gate is being switched.
SwitchOK == ~enabled /\ ~gate => \E t \in Thread : t \in Switching

Live == context \notin dead /\ ~gate

\* Only the tray starts the facade, and before any exit what it does leaves a
\* facade that admits alive.
AloneOK ==
  /\ \A d \in dead : d <= context
  /\ \A t \in Exits : at[t] \notin {"enable", "admit", "disable", "cancel", "close", "serve"}
  /\ (\A t \in Exits : at[t] = "idle") =>
       /\ enabled \/ at["tray"] = "admit" => Live
       /\ at["tray"] \in {"cancel", "close", "stopCancel", "stopClose"} => ~enabled

\* A stop that has closed what it saw leaves nothing that listens there.
SocketOK ==
  /\ SocketIsKnown
  /\ \A t \in Thread : at[t] \in {"drain", "clear"} => seen[t].listener \notin sockets

FacadeOK == FacadeTyped /\ LockOK /\ SwitchOK /\ AloneOK /\ SocketOK

IInv ==
  /\ RequestsTyped /\ FacadeOK
  /\ \A r \in Requests : RequestOK(r) /\ ConnOK(r)

-----------------------------------------------------------------------------
(* The requests.                                                           *)

\* A step of r leaves every other request alone.
Others(r) ==
  \A q \in Requests \ {r} :
    /\ pc'[q] = pc[q] /\ header'[q] = header[q] /\ body'[q] = body[q] /\ got'[q] = got[q]
    /\ conn'[q] = conn[q] /\ taken'[q] = taken[q] /\ handed'[q] = handed[q]
    /\ q \in registered => q \in registered'

\* What a step of r has to keep.
Kept(r) == RequestsTyped' /\ Others(r) /\ RequestOK(r)' /\ ConnOK(r)'

\* Two records of which every field agrees are one.
LEMMA BodyFields ==
  ASSUME NEW b \in BodyRecord
  PROVE  b = [generation |-> b.generation, closed |-> b.closed, timedOut |-> b.timedOut,
              read |-> b.read, armed |-> b.armed, due |-> b.due]
         /\ b.generation \in Nat /\ b.closed \in BOOLEAN /\ b.timedOut \in BOOLEAN
         /\ b.read \in Nat /\ b.armed \in Nat /\ b.due \subseteq Nat
  BY DEF BodyRecord

\* Dialed: the connection is about to be tracked.
LEMMA DialedKept ==
  ASSUME IInv, NEW r \in Requests, Dialed(r), UNCHANGED sweep
  PROVE  Kept(r) /\ registered' \subseteq registered
<1> USE DEF IInv, Dialed, Goto, DoReturns, Closed, calling, reading, connection
<1>1. RequestsTyped'
  BY DEF RequestsTyped, Labels, InHandler
<1>2. Others(r) /\ registered' \subseteq registered
  BY DEF RequestsTyped, Others
<1>3. HeaderOK(r)' /\ ChunkOK(r)' /\ IdleOK(r)'
  BY DEF RequestsTyped, RequestOK, HeaderOK, ChunkOK, IdleOK, Calling, Reading
<1>4. ConnOK(r)'
  BY DEF RequestsTyped, ConnOK
<1> QED
  BY <1>1, <1>2, <1>3, <1>4 DEF Kept, RequestOK

\* DialFails: the call returns.
LEMMA DialFailsKept ==
  ASSUME IInv, NEW r \in Requests, DialFails(r), UNCHANGED sweep
  PROVE  Kept(r) /\ registered' \subseteq registered
<1> USE DEF IInv, DialFails, Goto, DoReturns, Closed, calling, reading, connection
<1>1. RequestsTyped'
  BY DEF RequestsTyped, Labels, InHandler
<1>2. Others(r) /\ registered' \subseteq registered
  BY DEF RequestsTyped, Others
<1>3. HeaderOK(r)' /\ ChunkOK(r)' /\ IdleOK(r)'
  BY DEF RequestsTyped, RequestOK, HeaderOK, ChunkOK, IdleOK, Calling, Reading
<1>4. ConnOK(r)'
  BY DEF RequestsTyped, ConnOK
<1> QED
  BY <1>1, <1>2, <1>3, <1>4 DEF Kept, RequestOK

\* Answers: the call returns a response.
LEMMA AnswersKept ==
  ASSUME IInv, NEW r \in Requests, Answers(r), UNCHANGED sweep
  PROVE  Kept(r) /\ registered' \subseteq registered
<1> USE DEF IInv, Answers, Goto, DoReturns, Closed, calling, reading, connection
<1>1. RequestsTyped'
  BY DEF RequestsTyped, Labels, InHandler
<1>2. Others(r) /\ registered' \subseteq registered
  BY DEF RequestsTyped, Others
<1>3. HeaderOK(r)' /\ ChunkOK(r)' /\ IdleOK(r)'
  BY DEF RequestsTyped, RequestOK, HeaderOK, ChunkOK, IdleOK, Calling, Reading
<1>4. ConnOK(r)'
  BY DEF RequestsTyped, ConnOK
<1> QED
  BY <1>1, <1>2, <1>3, <1>4 DEF Kept, RequestOK

\* WaitBreaks: the connection is closed.
LEMMA WaitBreaksKept ==
  ASSUME IInv, NEW r \in Requests, WaitBreaks(r), UNCHANGED sweep
  PROVE  Kept(r) /\ registered' \subseteq registered
<1> USE DEF IInv, WaitBreaks, Goto, DoReturns, Closed, calling, reading, connection
<1>1. RequestsTyped'
  BY DEF RequestsTyped, Labels, InHandler
<1>2. Others(r) /\ registered' \subseteq registered
  BY DEF RequestsTyped, Others
<1>3. HeaderOK(r)' /\ ChunkOK(r)' /\ IdleOK(r)'
  BY DEF RequestsTyped, RequestOK, HeaderOK, ChunkOK, IdleOK, Calling, Reading
<1>4. ConnOK(r)'
  BY DEF RequestsTyped, ConnOK
<1> QED
  BY <1>1, <1>2, <1>3, <1>4 DEF Kept, RequestOK

\* Decide: the call is over.
LEMMA DecideKept ==
  ASSUME IInv, NEW r \in Requests, Decide(r), UNCHANGED sweep
  PROVE  Kept(r) /\ registered' \subseteq registered
<1> USE DEF IInv, Decide, Goto, DoReturns, Closed, calling, reading, connection
<1>1. RequestsTyped'
  BY DEF RequestsTyped, Labels, InHandler
<1>2. Others(r) /\ registered' \subseteq registered
  BY DEF RequestsTyped, Others
<1>3. HeaderOK(r)' /\ ChunkOK(r)' /\ IdleOK(r)'
  BY DEF RequestsTyped, RequestOK, HeaderOK, ChunkOK, IdleOK, Calling, Reading
<1>4. ConnOK(r)'
  BY DEF RequestsTyped, ConnOK
<1> QED
  BY <1>1, <1>2, <1>3, <1>4 DEF Kept, RequestOK

\* ReadRefused: the handler ends.
LEMMA ReadRefusedKept ==
  ASSUME IInv, NEW r \in Requests, ReadRefused(r), UNCHANGED sweep
  PROVE  Kept(r) /\ registered' \subseteq registered
<1> USE DEF IInv, ReadRefused, Goto, DoReturns, Closed, calling, reading, connection
<1>1. RequestsTyped'
  BY DEF RequestsTyped, Labels, InHandler
<1>2. Others(r) /\ registered' \subseteq registered
  BY DEF RequestsTyped, Others
<1>3. HeaderOK(r)' /\ ChunkOK(r)' /\ IdleOK(r)'
  BY DEF RequestsTyped, RequestOK, HeaderOK, ChunkOK, IdleOK, Calling, Reading
<1>4. ConnOK(r)'
  BY DEF RequestsTyped, ConnOK
<1> QED
  BY <1>1, <1>2, <1>3, <1>4 DEF Kept, RequestOK

\* ClientLeaves: the context is no part of the invariant.
LEMMA ClientLeavesKept ==
  ASSUME IInv, NEW r \in Requests, ClientLeaves(r), UNCHANGED sweep
  PROVE  Kept(r) /\ registered' \subseteq registered
<1> USE DEF IInv, ClientLeaves, Goto, DoReturns, Closed, calling, reading, connection
<1>1. RequestsTyped'
  BY DEF RequestsTyped, Labels, InHandler
<1>2. Others(r) /\ registered' \subseteq registered
  BY DEF RequestsTyped, Others
<1>3. HeaderOK(r)' /\ ChunkOK(r)' /\ IdleOK(r)'
  BY DEF RequestsTyped, RequestOK, HeaderOK, ChunkOK, IdleOK, Calling, Reading
<1>4. ConnOK(r)'
  BY DEF RequestsTyped, ConnOK
<1> QED
  BY <1>1, <1>2, <1>3, <1>4 DEF Kept, RequestOK
\* A header's record is its four fields.
LEMMA HeaderFields ==
  ASSUME NEW h \in HeaderRecord
  PROVE  h = [timer |-> h.timer, returned |-> h.returned, timedOut |-> h.timedOut, cut |-> h.cut]
         /\ h.timer \in {"off", "armed", "due"} /\ h.returned \in BOOLEAN
         /\ h.timedOut \in BOOLEAN /\ h.cut \in BOOLEAN
  BY DEF HeaderRecord

\* Send: a new attempt, whose timer has not cut anything.
LEMMA SendKept ==
  ASSUME IInv, NEW r \in Requests, Send(r), UNCHANGED sweep
  PROVE  Kept(r) /\ registered' \subseteq registered
<1>1. /\ UNCHANGED <<cancelled, did, body, got, conn, registered, taken, handed>>
      /\ pc[r] = "bound"
      /\ pc' = [pc EXCEPT ![r] = "dial"]
      /\ header' = [header EXCEPT ![r] = NewHeader]
      /\ attempts[r] < MaxAttempts
      /\ attempts' = [attempts EXCEPT ![r] = attempts[r] + 1]
  BY DEF Send, Goto, reading, connection
<1>2. NewHeader \in HeaderRecord /\ ~NewHeader.cut
  BY DEF NewHeader, HeaderRecord
<1>3. RequestsTyped'
  BY <1>1, <1>2, ServerAssumption DEF IInv, RequestsTyped, Labels
<1>4. Others(r) /\ registered' \subseteq registered
  BY <1>1, <1>2 DEF IInv, RequestsTyped, Others
<1>5. HeaderOK(r)'
  BY <1>1, <1>2 DEF IInv, RequestsTyped, RequestOK, HeaderOK, Calling, Reading
<1>6. ChunkOK(r)'
  BY <1>1, <1>2 DEF IInv, RequestsTyped, RequestOK, ChunkOK
<1>7. IdleOK(r)'
  BY <1>1, <1>2 DEF IInv, RequestsTyped, RequestOK, IdleOK
<1>8. ConnOK(r)'
  BY <1>1, <1>2 DEF IInv, RequestsTyped, ConnOK
<1> QED
  BY <1>3, <1>4, <1>5, <1>6, <1>7, <1>8 DEF Kept, RequestOK

\* HeaderElapses: the timer has run out, and nothing has come of it yet.
LEMMA HeaderElapsesKept ==
  ASSUME IInv, NEW r \in Requests, HeaderElapses(r), UNCHANGED sweep
  PROVE  Kept(r) /\ registered' \subseteq registered
<1> DEFINE h == header[r]
<1>0. h \in HeaderRecord
  BY DEF IInv, RequestsTyped
<1> DEFINE n == [h EXCEPT !.timer = "due"]
<1>1. /\ UNCHANGED <<pc, cancelled, attempts, did, body, got, conn, registered, taken, handed>>
      /\ header' = [header EXCEPT ![r] = n]
  BY DEF HeaderElapses, reading, connection, IInv, RequestsTyped
<1>2. n \in HeaderRecord /\ n.cut = h.cut /\ n.timedOut = h.timedOut /\ n.returned = h.returned
  BY <1>0 DEF HeaderRecord
<1> HIDE DEF n
<1>3. RequestsTyped'
  BY <1>1, <1>2, ServerAssumption DEF IInv, RequestsTyped, Labels
<1>4. Others(r) /\ registered' \subseteq registered
  BY <1>1, <1>2 DEF IInv, RequestsTyped, Others
<1>5. HeaderOK(r)'
  BY <1>1, <1>2 DEF IInv, RequestsTyped, RequestOK, HeaderOK, Calling, Reading
<1>6. ChunkOK(r)'
  BY <1>1, <1>2 DEF IInv, RequestsTyped, RequestOK, ChunkOK
<1>7. IdleOK(r)'
  BY <1>1, <1>2 DEF IInv, RequestsTyped, RequestOK, IdleOK
<1>8. ConnOK(r)'
  BY <1>1, <1>2 DEF IInv, RequestsTyped, ConnOK
<1> QED
  BY <1>3, <1>4, <1>5, <1>6, <1>7, <1>8 DEF Kept, RequestOK

\* HeaderExpires: the call is cut only while it has not returned, and told so.
LEMMA HeaderExpiresKept ==
  ASSUME IInv, NEW r \in Requests, HeaderExpires(r), UNCHANGED sweep
  PROVE  Kept(r) /\ registered' \subseteq registered
<1> DEFINE h == header[r]
<1>0. h \in HeaderRecord
  BY DEF IInv, RequestsTyped
<1> DEFINE n == Overrun(h)
<1>1. /\ UNCHANGED <<pc, cancelled, attempts, did, body, got, conn, registered, taken, handed>>
      /\ header' = [header EXCEPT ![r] = n]
  BY DEF HeaderExpires, reading, connection
<1>2. /\ n \in HeaderRecord
      /\ \/ n.returned = h.returned /\ n.cut = h.cut /\ n.timedOut = h.timedOut
         \/ ~h.returned /\ n.timedOut = TRUE
  <2>1. CASE h.returned
    BY <1>0, <2>1 DEF HeaderRecord, Overrun
  <2>2. CASE ~h.returned
    BY <1>0, <2>2 DEF HeaderRecord, Overrun
  <2> QED
    BY <2>1, <2>2
<1> HIDE DEF n
<1>3. RequestsTyped'
  BY <1>1, <1>2, ServerAssumption DEF IInv, RequestsTyped, Labels
<1>4. Others(r) /\ registered' \subseteq registered
  BY <1>1, <1>2 DEF IInv, RequestsTyped, Others
<1>5. HeaderOK(r)'
  <2>1. header'[r] = n
    BY <1>1 DEF IInv, RequestsTyped
  <2>2. HeaderOK(r)
    BY DEF IInv, RequestOK
  <2>3. pc[r] \in Reading => n.returned /\ ~n.cut
    BY <1>2, <2>2 DEF HeaderOK
  <2>4. pc[r] \in Calling /\ n.cut => n.timedOut
    BY <1>2, <2>2 DEF HeaderOK
  <2> QED
    BY <1>1, <2>1, <2>3, <2>4 DEF HeaderOK
<1>6. ChunkOK(r)'
  BY <1>1, <1>2 DEF IInv, RequestsTyped, RequestOK, ChunkOK
<1>7. IdleOK(r)'
  BY <1>1, <1>2 DEF IInv, RequestsTyped, RequestOK, IdleOK
<1>8. ConnOK(r)'
  BY <1>1, <1>2 DEF IInv, RequestsTyped, ConnOK
<1> QED
  BY <1>3, <1>4, <1>5, <1>6, <1>7, <1>8 DEF Kept, RequestOK

\* ReadBegins: the timer has the generation of the Read it is started for.
LEMMA ReadBeginsKept ==
  ASSUME IInv, NEW r \in Requests, ReadBegins(r), UNCHANGED sweep
  PROVE  Kept(r) /\ registered' \subseteq registered
<1> DEFINE b == body[r]
<1>0. b \in BodyRecord
  BY DEF IInv, RequestsTyped
<1> DEFINE n == Armed(b)
<1> DEFINE l == "inRead"
<1>1. /\ UNCHANGED <<cancelled, attempts, header, did, got, conn, registered, taken, handed>>
      /\ pc[r] = "reading"
      /\ ~body[r].closed
      /\ pc' = [pc EXCEPT ![r] = "inRead"]
      /\ body' = [body EXCEPT ![r] = n]
  BY DEF ReadBegins, Goto, calling, connection
<1>b. /\ \A e \in b.due : e <= b.generation
      /\ b.armed <= b.generation
      /\ b.armed # 0 => pc[r] = "inRead"
      /\ ~b.closed /\ pc[r] \in {"inRead", "readDone"} => b.read = b.generation
      /\ ~b.closed /\ pc[r] \notin {"inRead", "readDone"} => b.generation \notin b.due
  BY DEF IInv, RequestOK, IdleOK
<1> HIDE DEF b
<1>2. /\ n \in BodyRecord /\ n.generation = b.generation + 1 /\ n.closed = b.closed
      /\ n.read = n.generation /\ n.armed = n.generation /\ n.due = b.due
  <2>0. n = [b EXCEPT !.generation = @ + 1, !.read = b.generation + 1, !.armed = b.generation + 1]
    BY DEF Armed
  <2> HIDE DEF n
  <2>1. n = [generation |-> b.generation + 1, closed |-> b.closed, timedOut |-> b.timedOut,
             read |-> b.generation + 1, armed |-> b.generation + 1, due |-> b.due]
    BY <1>0, <2>0 DEF BodyRecord
  <2> QED
    BY <1>0, <2>1 DEF BodyRecord
<1> HIDE DEF n
<1>3. RequestsTyped'
  BY <1>1, <1>2 DEF IInv, RequestsTyped, Labels
<1>4. Others(r) /\ registered' \subseteq registered
  BY <1>1, <1>2 DEF IInv, RequestsTyped, Others
<1>5. HeaderOK(r)'
  BY <1>1, <1>2 DEF IInv, RequestsTyped, RequestOK, HeaderOK, Calling, Reading
<1>6. ChunkOK(r)'
  BY <1>1, <1>2 DEF IInv, RequestsTyped, RequestOK, ChunkOK
<1>7. IdleOK(r)'
  <2>1. body'[r] = n
    BY <1>1 DEF IInv, RequestsTyped
  <2>2. pc'[r] = l
    BY <1>1 DEF IInv, RequestsTyped
  <2> QED
    BY <1>0, <1>2, <1>b, <2>1, <2>2 DEF IdleOK, BodyRecord
<1>8. ConnOK(r)'
  BY <1>1, <1>2 DEF IInv, RequestsTyped, ConnOK
<1> QED
  BY <1>3, <1>4, <1>5, <1>6, <1>7, <1>8 DEF Kept, RequestOK

\* IdleElapses: the timer keeps its generation until its function runs.
LEMMA IdleElapsesKept ==
  ASSUME IInv, NEW r \in Requests, IdleElapses(r), UNCHANGED sweep
  PROVE  Kept(r) /\ registered' \subseteq registered
<1> DEFINE b == body[r]
<1>0. b \in BodyRecord
  BY DEF IInv, RequestsTyped
<1> DEFINE n == [b EXCEPT !.due = @ \cup {b.armed}, !.armed = 0]
<1> DEFINE l == pc[r]
<1>1. /\ UNCHANGED <<pc, cancelled, attempts, header, did, got, conn, registered, taken, handed>>
      /\ b.armed # 0
      /\ body' = [body EXCEPT ![r] = n]
  BY DEF IdleElapses, calling, connection, IInv, RequestsTyped
<1>b. /\ \A e \in b.due : e <= b.generation
      /\ b.armed <= b.generation
      /\ b.armed # 0 => pc[r] = "inRead"
      /\ ~b.closed /\ pc[r] \in {"inRead", "readDone"} => b.read = b.generation
      /\ ~b.closed /\ pc[r] \notin {"inRead", "readDone"} => b.generation \notin b.due
  BY DEF IInv, RequestOK, IdleOK
<1>d. b.armed # 0
  BY <1>1
<1> HIDE DEF b
<1>2. /\ n \in BodyRecord /\ n.generation = b.generation /\ n.closed = b.closed
      /\ n.read = b.read /\ n.armed = 0 /\ n.due = b.due \cup {b.armed}
  <2>0. n = [b EXCEPT !.due = @ \cup {b.armed}, !.armed = 0]
    OBVIOUS
  <2> HIDE DEF n
  <2>1. n = [generation |-> b.generation, closed |-> b.closed, timedOut |-> b.timedOut,
             read |-> b.read, armed |-> 0, due |-> b.due \cup {b.armed}]
    BY <1>0, <2>0 DEF BodyRecord
  <2> QED
    BY <1>0, <2>1 DEF BodyRecord
<1> HIDE DEF n
<1>3. RequestsTyped'
  BY <1>1, <1>2, <1>d DEF IInv, RequestsTyped, Labels
<1>4. Others(r) /\ registered' \subseteq registered
  BY <1>1, <1>2, <1>d DEF IInv, RequestsTyped, Others
<1>5. HeaderOK(r)'
  BY <1>1, <1>2, <1>d DEF IInv, RequestsTyped, RequestOK, HeaderOK, Calling, Reading
<1>6. ChunkOK(r)'
  BY <1>1, <1>2, <1>d DEF IInv, RequestsTyped, RequestOK, ChunkOK
<1>7. IdleOK(r)'
  <2>1. body'[r] = n
    BY <1>1 DEF IInv, RequestsTyped
  <2>2. pc'[r] = l
    BY <1>1 DEF IInv, RequestsTyped
  <2> QED
    BY <1>0, <1>2, <1>b, <1>d, <2>1, <2>2 DEF IdleOK, BodyRecord
<1>8. ConnOK(r)'
  BY <1>1, <1>2, <1>d DEF IInv, RequestsTyped, ConnOK
<1> QED
  BY <1>3, <1>4, <1>5, <1>6, <1>7, <1>8 DEF Kept, RequestOK

\* Close: the generation moves on, past every timer.
LEMMA CloseKept ==
  ASSUME IInv, NEW r \in Requests, Close(r), UNCHANGED sweep
  PROVE  Kept(r) /\ registered' \subseteq registered
<1> DEFINE b == body[r]
<1>0. b \in BodyRecord
  BY DEF IInv, RequestsTyped
<1> DEFINE n == [b EXCEPT !.closed = TRUE, !.generation = @ + 1]
<1> DEFINE l == pc[r]
<1>1. /\ UNCHANGED <<pc, cancelled, attempts, header, did, got, taken, handed>>
      /\ body' = [body EXCEPT ![r] = n]
  BY DEF Close, calling, IInv, RequestsTyped
<1>c. \/ UNCHANGED <<conn, registered>>
      \/ conn' = [conn EXCEPT ![r] = "closed"] /\ registered' = registered \ {r}
  BY DEF Close, BodyClosed, Closed, connection
<1>b. /\ \A e \in b.due : e <= b.generation
      /\ b.armed <= b.generation
      /\ b.armed # 0 => pc[r] = "inRead"
      /\ ~b.closed /\ pc[r] \in {"inRead", "readDone"} => b.read = b.generation
      /\ ~b.closed /\ pc[r] \notin {"inRead", "readDone"} => b.generation \notin b.due
  BY DEF IInv, RequestOK, IdleOK
<1> HIDE DEF b
<1>2. /\ n \in BodyRecord /\ n.generation = b.generation + 1 /\ n.closed = TRUE
      /\ n.armed = b.armed /\ n.due = b.due
  <2>0. n = [b EXCEPT !.closed = TRUE, !.generation = @ + 1]
    OBVIOUS
  <2> HIDE DEF n
  <2>1. n = [generation |-> b.generation + 1, closed |-> TRUE, timedOut |-> b.timedOut,
             read |-> b.read, armed |-> b.armed, due |-> b.due]
    BY <1>0, <2>0 DEF BodyRecord
  <2> QED
    BY <1>0, <2>1 DEF BodyRecord
<1> HIDE DEF n
<1>3. RequestsTyped'
  BY <1>1, <1>2, <1>c DEF IInv, RequestsTyped, Labels
<1>4. Others(r) /\ registered' \subseteq registered
  BY <1>1, <1>2, <1>c DEF IInv, RequestsTyped, Others
<1>5. HeaderOK(r)'
  BY <1>1, <1>2, <1>c DEF IInv, RequestsTyped, RequestOK, HeaderOK, Calling, Reading
<1>6. ChunkOK(r)'
  BY <1>1, <1>2, <1>c DEF IInv, RequestsTyped, RequestOK, ChunkOK
<1>7. IdleOK(r)'
  <2>1. body'[r] = n
    BY <1>1 DEF IInv, RequestsTyped
  <2>2. pc'[r] = l
    BY <1>1 DEF IInv, RequestsTyped
  <2> QED
    BY <1>0, <1>2, <1>b, <2>1, <2>2 DEF IdleOK, BodyRecord
<1>8. ConnOK(r)'
  BY <1>1, <1>2, <1>c DEF IInv, RequestsTyped, ConnOK
<1> QED
  BY <1>3, <1>4, <1>5, <1>6, <1>7, <1>8 DEF Kept, RequestOK

\* Expire: a timer whose generation is the present one closes the body.
LEMMA ExpireKept ==
  ASSUME IInv, NEW r \in Requests, NEW g \in body[r].due, Expire(r, g), UNCHANGED sweep
  PROVE  Kept(r) /\ registered' \subseteq registered
<1> DEFINE b == body[r]
<1>0. b \in BodyRecord
  BY DEF IInv, RequestsTyped
<1> DEFINE n == LET less == [b EXCEPT !.due = @ \ {g}] IN
                IF Stale(less, g) THEN less
                ELSE [less EXCEPT !.closed = TRUE, !.timedOut = TRUE, !.generation = @ + 1]
<1> DEFINE l == pc[r]
<1>1. /\ UNCHANGED <<pc, cancelled, attempts, header, did, got, taken, handed>>
      /\ g \in b.due /\ body' = [body EXCEPT ![r] = n]
  BY DEF Expire, calling
<1>c. \/ UNCHANGED <<conn, registered>>
      \/ conn' = [conn EXCEPT ![r] = "closed"] /\ registered' = registered \ {r}
  BY DEF Expire, BodyClosed, Closed, connection
<1>b. /\ \A e \in b.due : e <= b.generation
      /\ b.armed <= b.generation
      /\ b.armed # 0 => pc[r] = "inRead"
      /\ ~b.closed /\ pc[r] \in {"inRead", "readDone"} => b.read = b.generation
      /\ ~b.closed /\ pc[r] \notin {"inRead", "readDone"} => b.generation \notin b.due
  BY DEF IInv, RequestOK, IdleOK
<1> HIDE DEF b
<1>2. /\ n \in BodyRecord /\ n.read = b.read /\ n.armed = b.armed /\ n.due = b.due \ {g}
      /\ \/ n.generation = b.generation /\ n.closed = b.closed
         \/ n.generation = b.generation + 1 /\ n.closed = TRUE
  <2> DEFINE less == [b EXCEPT !.due = @ \ {g}]
  <2>1. less = [generation |-> b.generation, closed |-> b.closed, timedOut |-> b.timedOut,
                read |-> b.read, armed |-> b.armed, due |-> b.due \ {g}]
    BY <1>0 DEF BodyRecord
  <2>2. less \in BodyRecord
    BY <1>0, <2>1 DEF BodyRecord
  <2>3. n = less \/ n = [less EXCEPT !.closed = TRUE, !.timedOut = TRUE, !.generation = @ + 1]
    OBVIOUS
  <2> HIDE DEF less, n
  <2>4. CASE n = less
    BY <1>0, <2>1, <2>2, <2>4 DEF BodyRecord
  <2>5. CASE n = [less EXCEPT !.closed = TRUE, !.timedOut = TRUE, !.generation = @ + 1]
    <3>1. n = [generation |-> less.generation + 1, closed |-> TRUE, timedOut |-> TRUE,
               read |-> less.read, armed |-> less.armed, due |-> less.due]
      BY <2>2, <2>5 DEF BodyRecord
    <3> QED
      BY <1>0, <2>1, <2>2, <3>1 DEF BodyRecord
  <2> QED
    BY <2>3, <2>4, <2>5
<1> HIDE DEF n
<1>3. RequestsTyped'
  BY <1>1, <1>2, <1>c DEF IInv, RequestsTyped, Labels
<1>4. Others(r) /\ registered' \subseteq registered
  BY <1>1, <1>2, <1>c DEF IInv, RequestsTyped, Others
<1>5. HeaderOK(r)'
  BY <1>1, <1>2, <1>c DEF IInv, RequestsTyped, RequestOK, HeaderOK, Calling, Reading
<1>6. ChunkOK(r)'
  BY <1>1, <1>2, <1>c DEF IInv, RequestsTyped, RequestOK, ChunkOK
<1>7. IdleOK(r)'
  <2>1. body'[r] = n
    BY <1>1 DEF IInv, RequestsTyped
  <2>2. pc'[r] = l
    BY <1>1 DEF IInv, RequestsTyped
  <2> QED
    BY <1>0, <1>2, <1>b, <2>1, <2>2 DEF IdleOK, BodyRecord
<1>8. ConnOK(r)'
  BY <1>1, <1>2, <1>c DEF IInv, RequestsTyped, ConnOK
<1> QED
  BY <1>3, <1>4, <1>5, <1>6, <1>7, <1>8 DEF Kept, RequestOK

\* The wrapped body returns: the timer is stopped if it has not elapsed.
LEMMA BodyReturnsKept ==
  ASSUME IInv, NEW r \in Requests, pc[r] = "inRead", NEW what \in {"data", "eof", "error"},
         BodyReturns(r, what), UNCHANGED <<cancelled, calling, handed>>,
         taken' = IF what = "data" THEN [taken EXCEPT ![r] = @ + 1] ELSE taken,
         UNCHANGED connection \/ Closed(r), UNCHANGED sweep
  PROVE  Kept(r) /\ registered' \subseteq registered
<1> DEFINE b == body[r]
<1>0. b \in BodyRecord
  BY DEF IInv, RequestsTyped
<1> DEFINE n == [b EXCEPT !.armed = 0]
<1> DEFINE l == "readDone"
<1>1. /\ UNCHANGED <<cancelled, attempts, header, did, handed>>
      /\ pc[r] = "inRead"
      /\ pc' = [pc EXCEPT ![r] = "readDone"]
      /\ got' = [got EXCEPT ![r] = what]
      /\ body' = [body EXCEPT ![r] = n]
  BY DEF BodyReturns, Goto, calling, IInv, RequestsTyped
<1>c. \/ UNCHANGED <<conn, registered>>
      \/ conn' = [conn EXCEPT ![r] = "closed"] /\ registered' = registered \ {r}
  BY DEF Closed, connection
<1>b. /\ \A e \in b.due : e <= b.generation
      /\ b.armed <= b.generation
      /\ b.armed # 0 => pc[r] = "inRead"
      /\ ~b.closed /\ pc[r] \in {"inRead", "readDone"} => b.read = b.generation
      /\ ~b.closed /\ pc[r] \notin {"inRead", "readDone"} => b.generation \notin b.due
  BY DEF IInv, RequestOK, IdleOK
<1>d. pc[r] = "inRead" /\ taken' = [taken EXCEPT ![r] = IF what = "data" THEN taken[r] + 1 ELSE taken[r]]
  BY <1>1 DEF IInv, RequestsTyped
<1> HIDE DEF b
<1>2. /\ n \in BodyRecord /\ n.generation = b.generation /\ n.closed = b.closed
      /\ n.read = b.read /\ n.armed = 0 /\ n.due = b.due
  <2>0. n = [b EXCEPT !.armed = 0]
    OBVIOUS
  <2> HIDE DEF n
  <2>1. n = [generation |-> b.generation, closed |-> b.closed, timedOut |-> b.timedOut,
             read |-> b.read, armed |-> 0, due |-> b.due]
    BY <1>0, <2>0 DEF BodyRecord
  <2> QED
    BY <1>0, <2>1 DEF BodyRecord
<1> HIDE DEF n
<1>3. RequestsTyped'
  BY <1>1, <1>2, <1>d, <1>c DEF IInv, RequestsTyped, Labels
<1>4. Others(r) /\ registered' \subseteq registered
  BY <1>1, <1>2, <1>d, <1>c DEF IInv, RequestsTyped, Others
<1>5. HeaderOK(r)'
  BY <1>1, <1>2, <1>d, <1>c DEF IInv, RequestsTyped, RequestOK, HeaderOK, Calling, Reading
<1>6. ChunkOK(r)'
  BY <1>1, <1>2, <1>d, <1>c DEF IInv, RequestsTyped, RequestOK, ChunkOK
<1>7. IdleOK(r)'
  <2>1. body'[r] = n
    BY <1>1 DEF IInv, RequestsTyped
  <2>2. pc'[r] = l
    BY <1>1 DEF IInv, RequestsTyped
  <2> QED
    BY <1>0, <1>2, <1>b, <1>d, <2>1, <2>2 DEF IdleOK, BodyRecord
<1>8. ConnOK(r)'
  BY <1>1, <1>2, <1>d, <1>c DEF IInv, RequestsTyped, ConnOK
<1> QED
  BY <1>3, <1>4, <1>5, <1>6, <1>7, <1>8 DEF Kept, RequestOK

\* BodyReads: the wrapped body returns.
LEMMA BodyReadsKept ==
  ASSUME IInv, NEW r \in Requests, BodyReads(r), UNCHANGED sweep
  PROVE  Kept(r) /\ registered' \subseteq registered
<1>1. /\ pc[r] = "inRead" /\ BodyReturns(r, "data") /\ UNCHANGED <<cancelled, calling, handed>>
      /\ taken' = IF "data" = "data" THEN [taken EXCEPT ![r] = @ + 1] ELSE taken
      /\ UNCHANGED connection \/ Closed(r)
  BY DEF BodyReads
<1> QED
  BY <1>1, BodyReturnsKept

\* BodyEnds: the wrapped body returns.
LEMMA BodyEndsKept ==
  ASSUME IInv, NEW r \in Requests, BodyEnds(r), UNCHANGED sweep
  PROVE  Kept(r) /\ registered' \subseteq registered
<1>1. /\ pc[r] = "inRead" /\ BodyReturns(r, "eof") /\ UNCHANGED <<cancelled, calling, handed>>
      /\ taken' = IF "eof" = "data" THEN [taken EXCEPT ![r] = @ + 1] ELSE taken
      /\ UNCHANGED connection \/ Closed(r)
  BY DEF BodyEnds
<1> QED
  BY <1>1, BodyReturnsKept

\* BodyFails: the wrapped body returns.
LEMMA BodyFailsKept ==
  ASSUME IInv, NEW r \in Requests, BodyFails(r), UNCHANGED sweep
  PROVE  Kept(r) /\ registered' \subseteq registered
<1>1. /\ pc[r] = "inRead" /\ BodyReturns(r, "error") /\ UNCHANGED <<cancelled, calling, handed>>
      /\ taken' = IF "error" = "data" THEN [taken EXCEPT ![r] = @ + 1] ELSE taken
      /\ UNCHANGED connection \/ Closed(r)
  BY DEF BodyFails
<1> QED
  BY <1>1, BodyReturnsKept

\* ReadEnds: what the wrapped body brought is handed on, and the generation
\* moves on past the timer of this Read.
LEMMA ReadEndsKept ==
  ASSUME IInv, NEW r \in Requests, ReadEnds(r), UNCHANGED sweep
  PROVE  Kept(r) /\ registered' \subseteq registered
<1> DEFINE b == body[r]
<1>0. b \in BodyRecord
  BY DEF IInv, RequestsTyped
<1> DEFINE n == [b EXCEPT !.generation = IF @ = b.read THEN @ + 1 ELSE @, !.read = 0]
<1> DEFINE told == Told(b, got[r])
<1> DEFINE l == IF told = "data" THEN "reading" ELSE "done"
<1>1. /\ UNCHANGED <<cancelled, attempts, header, did, taken, conn, registered>>
      /\ pc[r] = "readDone"
      /\ pc' = [pc EXCEPT ![r] = IF told = "data" THEN "reading" ELSE "done"]
      /\ got' = [got EXCEPT ![r] = "nothing"]
      /\ body' = [body EXCEPT ![r] = n]
      /\ handed' = [handed EXCEPT ![r] = IF told = "data" THEN handed[r] + 1 ELSE handed[r]]
  BY DEF ReadEnds, Goto, calling, connection, IInv, RequestsTyped
<1>b. /\ \A e \in b.due : e <= b.generation
      /\ b.armed <= b.generation
      /\ b.armed # 0 => pc[r] = "inRead"
      /\ ~b.closed /\ pc[r] \in {"inRead", "readDone"} => b.read = b.generation
      /\ ~b.closed /\ pc[r] \notin {"inRead", "readDone"} => b.generation \notin b.due
  BY DEF IInv, RequestOK, IdleOK
<1>d. pc[r] = "readDone" /\ (told = "data" <=> got[r] = "data")
  BY <1>1 DEF Told, IInv, RequestsTyped
<1> HIDE DEF told
<1> HIDE DEF b
<1>2. /\ n \in BodyRecord /\ n.closed = b.closed /\ n.armed = b.armed /\ n.due = b.due
      /\ n.generation = IF b.generation = b.read THEN b.generation + 1 ELSE b.generation
  <2>0. n = [b EXCEPT !.generation = IF @ = b.read THEN @ + 1 ELSE @, !.read = 0]
    OBVIOUS
  <2> HIDE DEF n
  <2>1. n = [generation |-> IF b.generation = b.read THEN b.generation + 1 ELSE b.generation,
             closed |-> b.closed, timedOut |-> b.timedOut,
             read |-> 0, armed |-> b.armed, due |-> b.due]
    BY <1>0, <2>0 DEF BodyRecord
  <2> QED
    BY <1>0, <2>1 DEF BodyRecord
<1> HIDE DEF n
<1>3. RequestsTyped'
  BY <1>1, <1>2, <1>d DEF IInv, RequestsTyped, Labels
<1>4. Others(r) /\ registered' \subseteq registered
  BY <1>1, <1>2, <1>d DEF IInv, RequestsTyped, Others
<1>5. HeaderOK(r)'
  BY <1>1, <1>2, <1>d DEF IInv, RequestsTyped, RequestOK, HeaderOK, Calling, Reading
<1>6. ChunkOK(r)'
  BY <1>1, <1>2, <1>d DEF IInv, RequestsTyped, RequestOK, ChunkOK
<1>7. IdleOK(r)'
  <2>1. body'[r] = n
    BY <1>1 DEF IInv, RequestsTyped
  <2>2. pc'[r] = l
    BY <1>1 DEF IInv, RequestsTyped
  <2> QED
    BY <1>0, <1>2, <1>b, <1>d, <2>1, <2>2 DEF IdleOK, BodyRecord
<1>8. ConnOK(r)'
  BY <1>1, <1>2, <1>d DEF IInv, RequestsTyped, ConnOK
<1> QED
  BY <1>3, <1>4, <1>5, <1>6, <1>7, <1>8 DEF Kept, RequestOK

\* Return: a response that lost to the timer is given up, any other is read with
\* a body of its own and is cut no more.
LEMMA ReturnKept ==
  ASSUME IInv, NEW r \in Requests, Return(r), UNCHANGED sweep
  PROVE  Kept(r) /\ registered' \subseteq registered
<1> DEFINE h == header[r]
           failed == h.timedOut \/ did[r] = "error"
           cut == h.cut \/ failed
           n == [h EXCEPT !.returned = TRUE, !.cut = cut,
                          !.timer = IF h.timer = "armed" THEN "off" ELSE h.timer]
<1>0. h \in HeaderRecord /\ pc[r] = "returned"
  BY DEF IInv, RequestsTyped, Return
<1>1. header' = [header EXCEPT ![r] = n] /\ UNCHANGED <<cancelled, attempts, did>>
  BY DEF Return
<1>2. n \in HeaderRecord /\ n.returned = TRUE /\ n.cut = cut
  <2>0. n = [h EXCEPT !.returned = TRUE, !.cut = cut, !.timer = IF h.timer = "armed" THEN "off" ELSE h.timer]
    OBVIOUS
  <2>2. cut \in BOOLEAN
    OBVIOUS
  <2> HIDE DEF n, cut, h
  <2>1. n = [timer |-> IF h.timer = "armed" THEN "off" ELSE h.timer, returned |-> TRUE,
             timedOut |-> h.timedOut, cut |-> cut]
    BY <1>0, <2>0 DEF HeaderRecord
  <2> QED
    BY <1>0, <2>1, <2>2 DEF HeaderRecord
<1> HIDE DEF n
<1>3. CASE failed
  <2>1. /\ UNCHANGED <<body, got, taken, handed>>
        /\ pc' = [pc EXCEPT ![r] = "failed"]
        /\ conn' = [conn EXCEPT ![r] = "closed"] /\ registered' = registered \ {r}
    BY <1>3 DEF Return, Goto, Closed, reading
  <2>2. RequestsTyped'
    BY <1>1, <1>2, <2>1 DEF IInv, RequestsTyped, Labels
  <2>3. Others(r) /\ registered' \subseteq registered
    BY <1>1, <2>1 DEF IInv, RequestsTyped, Others
  <2>4. HeaderOK(r)'
    BY <2>1 DEF IInv, RequestsTyped, HeaderOK, Calling, Reading
  <2>5. ChunkOK(r)'
    BY <1>0, <2>1 DEF IInv, RequestsTyped, RequestOK, ChunkOK
  <2>6. IdleOK(r)' /\ ConnOK(r)'
    BY <1>0, <2>1 DEF IInv, RequestsTyped, RequestOK, IdleOK, ConnOK
  <2> QED
    BY <2>2, <2>3, <2>4, <2>5, <2>6 DEF Kept, RequestOK
<1>4. CASE ~failed
  <2>1. /\ UNCHANGED <<got, taken, handed, conn, registered>>
        /\ pc' = [pc EXCEPT ![r] = "reading"]
        /\ body' = [body EXCEPT ![r] = NewBody]
    BY <1>4 DEF Return, Goto, connection
  <2>2. /\ NewBody \in BodyRecord /\ NewBody.due = {} /\ NewBody.armed = 0
        /\ NewBody.generation = 0 /\ ~NewBody.closed
    BY DEF NewBody, BodyRecord
  <2>3. ~n.cut
    <3>1. ~h.timedOut
      BY <1>4
    <3>2. ~h.cut
      BY <1>0, <3>1 DEF IInv, RequestOK, HeaderOK, Calling
    <3> QED
      BY <1>2, <1>4, <3>2
  <2>4. RequestsTyped'
    BY <1>1, <1>2, <2>1, <2>2 DEF IInv, RequestsTyped, Labels
  <2>5. Others(r) /\ registered' \subseteq registered
    BY <1>1, <2>1 DEF IInv, RequestsTyped, Others
  <2>6. HeaderOK(r)'
    <3>1. header'[r] = n /\ pc'[r] = "reading"
      BY <1>1, <2>1 DEF IInv, RequestsTyped
    <3>2. n.returned
      BY <1>2
    <3> QED
      BY <2>3, <3>1, <3>2 DEF HeaderOK, Calling, Reading
  <2>7. ChunkOK(r)'
    BY <1>0, <2>1 DEF IInv, RequestsTyped, RequestOK, ChunkOK
  <2>8. IdleOK(r)' /\ ConnOK(r)'
    BY <1>0, <2>1, <2>2 DEF IInv, RequestsTyped, RequestOK, IdleOK, ConnOK
  <2> QED
    BY <2>4, <2>5, <2>6, <2>7, <2>8 DEF Kept, RequestOK
<1> QED
  BY <1>3, <1>4

\* Bind and Arrive: the handler goes on.
LEMMA AdmittedKept ==
  ASSUME IInv, NEW r \in Requests, NEW l \in {"admitted", "bound", "done"},
         pc[r] \in {"idle", "admitted"}, Goto(r, l), UNCHANGED sweep,
         UNCHANGED <<cancelled, calling, reading, connection>>
  PROVE  Kept(r)
<1> USE DEF IInv, Goto, calling, reading, connection
<1>1. RequestsTyped'
  BY DEF RequestsTyped, Labels
<1>2. Others(r)
  BY DEF RequestsTyped, Others
<1>3. HeaderOK(r)' /\ ChunkOK(r)' /\ IdleOK(r)'
  BY DEF RequestsTyped, RequestOK, HeaderOK, ChunkOK, IdleOK, Calling, Reading
<1>4. ConnOK(r)'
  BY DEF RequestsTyped, ConnOK
<1> QED
  BY <1>1, <1>2, <1>3, <1>4 DEF Kept, RequestOK

\* Track: a connection is closed at a closed gate and tracked at an open one.
LEMMA TrackKept ==
  ASSUME IInv, NEW r \in Requests, Track(r), UNCHANGED sweep
  PROVE  Kept(r) /\ (gate => registered' \subseteq registered)
<1> USE DEF IInv, Track, Goto, DoReturns, reading
<1>1. RequestsTyped'
  BY DEF RequestsTyped, Labels
<1>2. Others(r) /\ (gate => registered' \subseteq registered)
  BY DEF RequestsTyped, Others
<1>3. HeaderOK(r)' /\ ChunkOK(r)' /\ IdleOK(r)'
  BY DEF RequestsTyped, RequestOK, HeaderOK, ChunkOK, IdleOK, Calling, Reading
<1>4. ConnOK(r)'
  BY DEF RequestsTyped, ConnOK
<1> QED
  BY <1>1, <1>2, <1>3, <1>4 DEF Kept, RequestOK

\* What a request's step keeps, with the facade left alone, is the invariant.
LEMMA RequestStepIInv ==
  ASSUME IInv, NEW r \in Requests, Kept(r), gate => registered' \subseteq registered,
         UNCHANGED <<facade, threads>>, depends' \in [Requests -> Life \cup {None}]
  PROVE  IInv'
<1>0. UNCHANGED <<enabled, context, dead, lifecycle, gate, sweep, pathLn, pathServer, sockets, at, seen>>
  BY DEF facade, threads
<1>1. FacadeTyped'
  BY <1>0 DEF IInv, FacadeOK, FacadeTyped
<1>2. LockOK'
  BY <1>0 DEF IInv, FacadeOK, LockOK
<1>3. SwitchOK' /\ AloneOK' /\ SocketOK'
  BY <1>0 DEF IInv, FacadeOK, SwitchOK, Switching, AloneOK, Live, SocketOK, SocketIsKnown
<1>4. ASSUME NEW q \in Requests, q # r
      PROVE  RequestOK(q)' /\ ConnOK(q)'
  BY <1>0, <1>4 DEF IInv, Kept, Others, RequestOK, HeaderOK, ChunkOK, IdleOK, ConnOK
<1> QED
  BY <1>1, <1>2, <1>3, <1>4 DEF IInv, FacadeOK, Kept

\* Every step of doUpstreamRequest and of the body keeps the invariant.
LEMMA UpstreamIInv ==
  ASSUME IInv, UpstreamNext, UNCHANGED <<facade, threads, depends>>
  PROVE  IInv'
<1>0. UNCHANGED sweep /\ depends' \in [Requests -> Life \cup {None}]
  BY DEF facade, IInv, FacadeOK, FacadeTyped
<1>1. PICK r \in Requests :
        \/ Handler(r) \/ Timers(r)
        \/ Dialed(r) \/ Answers(r) \/ WaitBreaks(r)
        \/ BodyReads(r) \/ BodyEnds(r) \/ BodyFails(r)
        \/ Close(r) \/ ClientLeaves(r)
  BY DEF UpstreamNext
<1>2. Kept(r) /\ registered' \subseteq registered
  <2>1. CASE Handler(r)
    <3>1. CASE Send(r) BY <1>0, <3>1, SendKept
    <3>2. CASE DialFails(r) BY <1>0, <3>2, DialFailsKept
    <3>3. CASE WaitCut(r) BY <1>0, <3>3, WaitBreaksKept DEF WaitCut
    <3>4. CASE Return(r) BY <1>0, <3>4, ReturnKept
    <3>5. CASE Decide(r) BY <1>0, <3>5, DecideKept
    <3>6. CASE ReadBegins(r) BY <1>0, <3>6, ReadBeginsKept
    <3>7. CASE ReadRefused(r) BY <1>0, <3>7, ReadRefusedKept
    <3>8. CASE ReadCut(r) BY <1>0, <3>8, BodyFailsKept DEF ReadCut
    <3>9. CASE ReadEnds(r) BY <1>0, <3>9, ReadEndsKept
    <3> QED
      BY <2>1, <3>1, <3>2, <3>3, <3>4, <3>5, <3>6, <3>7, <3>8, <3>9 DEF Handler
  <2>2. CASE Timers(r)
    <3>1. CASE HeaderElapses(r) BY <1>0, <3>1, HeaderElapsesKept
    <3>2. CASE HeaderExpires(r) BY <1>0, <3>2, HeaderExpiresKept
    <3>3. CASE IdleElapses(r) BY <1>0, <3>3, IdleElapsesKept
    <3>4. ASSUME NEW g \in body[r].due, Expire(r, g)
          PROVE  Kept(r) /\ registered' \subseteq registered
      BY <1>0, <3>4, ExpireKept
    <3> QED
      BY <2>2, <3>1, <3>2, <3>3, <3>4 DEF Timers
  <2>3. CASE Dialed(r) BY <1>0, <2>3, DialedKept
  <2>4. CASE Answers(r) BY <1>0, <2>4, AnswersKept
  <2>5. CASE WaitBreaks(r) BY <1>0, <2>5, WaitBreaksKept
  <2>6. CASE BodyReads(r) BY <1>0, <2>6, BodyReadsKept
  <2>7. CASE BodyEnds(r) BY <1>0, <2>7, BodyEndsKept
  <2>8. CASE BodyFails(r) BY <1>0, <2>8, BodyFailsKept
  <2>9. CASE Close(r) BY <1>0, <2>9, CloseKept
  <2>10. CASE ClientLeaves(r) BY <1>0, <2>10, ClientLeavesKept
  <2> QED
    BY <1>1, <2>1, <2>2, <2>3, <2>4, <2>5, <2>6, <2>7, <2>8, <2>9, <2>10
<1> QED
  BY <1>0, <1>2, RequestStepIInv

\* The facade's own steps of a request keep the invariant.
LEMMA FacadeRequestIInv ==
  ASSUME IInv, NEW r \in Requests, Arrive(r) \/ Request(r)
  PROVE  IInv'
<1>0. depends \in [Requests -> Life \cup {None}] /\ context \in Life
  BY DEF IInv, FacadeOK, FacadeTyped
<1>1. CASE Arrive(r)
  <2>1. UNCHANGED sweep /\ UNCHANGED registered
    BY <1>1 DEF Arrive, facade, connection
  <2>2. Kept(r)
    <3>1. CASE enabled
      BY <1>1, <2>1, <3>1, AdmittedKept DEF Arrive
    <3>2. CASE ~enabled
      BY <1>1, <2>1, <3>2, AdmittedKept DEF Arrive
    <3> QED
      BY <3>1, <3>2
  <2> QED
    BY <1>0, <1>1, <2>1, <2>2, RequestStepIInv DEF Arrive
<1>2. CASE Bind(r)
  <2>1. UNCHANGED sweep /\ UNCHANGED registered
    BY <1>2 DEF Bind, facade, connection
  <2>2. Kept(r)
    BY <1>2, <2>1, AdmittedKept DEF Bind
  <2>3. depends' \in [Requests -> Life \cup {None}]
    BY <1>0, <1>2 DEF Bind
  <2> QED
    BY <1>2, <2>1, <2>2, <2>3, RequestStepIInv DEF Bind
<1>3. CASE AfterFunc(r)
  <2>1. UNCHANGED <<pc, calling, reading, connection, sweep>> /\ cancelled' = cancelled \cup {r}
    BY <1>3 DEF AfterFunc, facade
  <2>2. UNCHANGED <<pc, attempts, header, did, body, got, taken, handed, conn, registered>>
    BY <2>1 DEF calling, reading, connection
  <2>3. RequestsTyped' /\ Others(r) /\ RequestOK(r)' /\ ConnOK(r)'
    BY <2>1, <2>2 DEF IInv, RequestsTyped, Others, RequestOK, HeaderOK, ChunkOK, IdleOK, ConnOK
  <2> QED
    BY <1>0, <1>3, <2>2, <2>3, RequestStepIInv DEF AfterFunc, Kept
<1>4. CASE Track(r)
  <2>1. UNCHANGED sweep
    BY <1>4 DEF Track, facade
  <2> QED
    BY <1>0, <1>4, <2>1, TrackKept, RequestStepIInv DEF Track
<1> QED
  BY <1>1, <1>2, <1>3, <1>4 DEF Request

-----------------------------------------------------------------------------
(* The facade.                                                             *)

\* A step of the facade that leaves the connections and what is tracked alone.
LEMMA RequestsLeft ==
  ASSUME IInv, UNCHANGED <<pc, calling, reading, connection, sweep>>, cancelled' \subseteq Requests
  PROVE  RequestsTyped' /\ \A r \in Requests : RequestOK(r)' /\ ConnOK(r)'
<1>1. UNCHANGED <<pc, attempts, header, did, body, got, taken, handed, conn, registered>>
  BY DEF calling, reading, connection
<1>2. RequestsTyped'
  BY <1>1 DEF IInv, RequestsTyped
<1>3. ASSUME NEW r \in Requests
      PROVE  RequestOK(r)' /\ ConnOK(r)'
  BY <1>1 DEF IInv, RequestOK, HeaderOK, ChunkOK, IdleOK, ConnOK
<1> QED
  BY <1>2, <1>3

\* A thread's step from one place to another.
LEMMA Moved ==
  ASSUME IInv, NEW t \in Thread, NEW l, at' = [at EXCEPT ![t] = l]
  PROVE  at'[t] = l /\ \A u \in Thread : u # t => at'[u] = at[u]
  BY DEF IInv, FacadeOK, FacadeTyped

\* A step that moves a thread neither within nor out of a switch, and leaves
\* what is switched alone.
LEMMA MoveIInv ==
  ASSUME IInv, NEW t \in Thread,
         NEW l \in {"idle", "enable", "disable", "serve", "stop", "shutdown", "drain", "clear", "ended"},
         at[t] \in {"idle", "serve", "read", "shutdown", "drain", "clear"},
         at' = [at EXCEPT ![t] = l],
         t = "tray" \/ l \in {"stop", "shutdown", "drain", "clear", "ended"},
         UNCHANGED <<pc, calling, reading, connection, enabled, context, dead, lifecycle, gate, sweep>>,
         cancelled' \subseteq Requests, FacadeTyped', SocketOK'
  PROVE  IInv'
<1>1. at'[t] = l /\ \A u \in Thread : u # t => at'[u] = at[u]
  BY Moved
<1>2. RequestsTyped' /\ \A r \in Requests : RequestOK(r)' /\ ConnOK(r)'
  BY RequestsLeft
<1>3. LockOK'
  <2>1. lifecycle # t
    BY ServerAssumption DEF IInv, FacadeOK, LockOK, Thread, Free
  <2>2. UNCHANGED registered
    BY DEF connection
  <2>3. lifecycle' # Free => at'[lifecycle'] \in {"close", "stopClose"}
    BY <1>1, <2>1 DEF IInv, FacadeOK, FacadeTyped, LockOK
  <2>4. \A u \in Thread : at'[u] \in {"close", "stopClose"} => lifecycle' = u /\ gate'
    BY <1>1 DEF IInv, FacadeOK, LockOK
  <2> QED
    BY <2>2, <2>3, <2>4 DEF IInv, FacadeOK, LockOK
<1>4. SwitchOK'
  BY <1>1 DEF IInv, FacadeOK, SwitchOK, Switching
<1>5. AloneOK'
  <2>1. \A d \in dead' : d <= context'
    BY DEF IInv, FacadeOK, AloneOK
  <2>2. \A u \in Exits : at'[u] \notin {"enable", "admit", "disable", "cancel", "close", "serve"}
    BY <1>1, ServerAssumption DEF IInv, FacadeOK, AloneOK, Thread
  <2>3. ASSUME \A u \in Exits : at'[u] = "idle"
        PROVE  /\ enabled' \/ at'["tray"] = "admit" => Live'
               /\ at'["tray"] \in {"cancel", "close", "stopCancel", "stopClose"} => ~enabled'
    <3>1. t = "tray"
      BY <1>1, <2>3 DEF Thread
    <3>2. \A u \in Exits : at[u] = "idle"
      BY <1>1, <2>3, <3>1, ServerAssumption DEF Thread
    <3>3. enabled => Live
      BY <3>2 DEF IInv, FacadeOK, AloneOK
    <3> QED
      BY <1>1, <3>1, <3>3 DEF Live
  <2> QED
    BY <2>1, <2>2, <2>3 DEF AloneOK
<1> QED
  BY <1>2, <1>3, <1>4, <1>5 DEF IInv, FacadeOK

\* A step that only moves a thread, or records what a stop sees.
LEMMA QuietMove ==
  ASSUME IInv, NEW t \in Thread,
         NEW l \in {"idle", "enable", "disable", "serve", "stop", "shutdown"},
         at[t] \in {"idle", "serve", "read"}, at' = [at EXCEPT ![t] = l],
         t = "tray" \/ l \in {"stop", "shutdown"},
         UNCHANGED <<upstreamVars, facade, depends>>,
         seen' \in [Thread -> [server : Life \cup {None}, listener : Life \cup {None}]],
         \A u \in Thread : u # t => seen'[u] = seen[u]
  PROVE  IInv'
<1>1. UNCHANGED <<pc, calling, reading, connection, cancelled, enabled, context, dead, lifecycle,
                  gate, sweep, pathLn, pathServer, sockets, depends>>
  BY DEF upstreamVars, facade, calling, reading, connection
<1>2. at'[t] = l /\ \A u \in Thread : u # t => at'[u] = at[u]
  BY Moved
<1>3. FacadeTyped'
  BY <1>1 DEF IInv, FacadeOK, FacadeTyped
<1>4. SocketOK'
  BY <1>1, <1>2 DEF IInv, FacadeOK, SocketOK, SocketIsKnown
<1>5. cancelled' \subseteq Requests
  BY <1>1 DEF IInv, RequestsTyped
<1> QED
  BY <1>1, <1>3, <1>4, <1>5, MoveIInv

\* The commands, and the steps that only move on.
LEMMA CommandIInv ==
  ASSUME IInv, NEW t \in Thread, StartServing(t) \/ StopServing(t) \/ Exit(t) \/ StartFails(t) \/ StopReads(t)
  PROVE  IInv'
<1>0. seen \in [Thread -> [server : Life \cup {None}, listener : Life \cup {None}]]
      /\ pathServer \in Life \cup {None} /\ pathLn \in Life \cup {None}
  BY DEF IInv, FacadeOK, FacadeTyped
<1>1. CASE StartServing(t)
  BY <1>0, <1>1, QuietMove DEF StartServing, Step
<1>2. CASE StopServing(t)
  BY <1>0, <1>2, QuietMove DEF StopServing, Step
<1>3. CASE Exit(t)
  BY <1>0, <1>3, QuietMove DEF Exit, Step
<1>4. CASE StartFails(t)
  <2>1. PICK l \in {"stop", "disable"} : at' = [at EXCEPT ![t] = l]
    BY <1>4 DEF StartFails, Step
  <2>2. t = "tray"
    BY <1>4 DEF StartFails, Step, IInv, FacadeOK, AloneOK, Thread
  <2> QED
    BY <1>0, <1>4, <2>1, <2>2, QuietMove DEF StartFails, Step
<1>5. CASE StopReads(t)
  <2>1. seen' = [seen EXCEPT ![t] = [server |-> pathServer, listener |-> pathLn]]
    BY <1>5 DEF StopReads
  <2>2. seen' \in [Thread -> [server : Life \cup {None}, listener : Life \cup {None}]]
        /\ \A u \in Thread : u # t => seen'[u] = seen[u]
    BY <1>0, <2>1
  <2> QED
    BY <1>5, <2>2, QuietMove DEF StopReads, Step
<1> QED
  BY <1>1, <1>2, <1>3, <1>4, <1>5

\* EnableOpens: a context past every cancelled one, and an open gate.
LEMMA EnableOpensIInv ==
  ASSUME IInv, NEW t \in Thread, EnableOpens(t)
  PROVE  IInv'
<1>1. /\ at[t] = "enable" /\ at' = [at EXCEPT ![t] = "admit"] /\ lifecycle = Free
      /\ context' = Fresh /\ Fresh \in Life /\ gate' = FALSE
      /\ UNCHANGED <<upstreamVars, enabled, dead, lifecycle, sweep, pathLn, pathServer, sockets, seen, depends>>
  BY DEF EnableOpens, Step
<1>2. at'[t] = "admit" /\ \A u \in Thread : u # t => at'[u] = at[u]
  BY <1>1, Moved
<1>3. RequestsTyped' /\ \A r \in Requests : RequestOK(r)' /\ ConnOK(r)'
  BY <1>1, RequestsLeft DEF IInv, RequestsTyped, upstreamVars, calling, reading, connection
<1>4. FacadeTyped'
  BY <1>1 DEF IInv, FacadeOK, FacadeTyped
<1>5. LockOK'
  <2>1. \A u \in Thread : at[u] \notin {"close", "stopClose"}
    BY <1>1, ServerAssumption DEF IInv, FacadeOK, LockOK, Thread, Free
  <2> QED
    BY <1>1, <1>2, <2>1 DEF IInv, FacadeOK, LockOK
<1>6. SwitchOK'
  BY <1>2 DEF SwitchOK, Switching
<1>7. AloneOK'
  <2>1. context \in Nat /\ \A d \in dead : d \in Nat /\ d <= context
    BY DEF IInv, FacadeOK, FacadeTyped, AloneOK, Life
  <2>2. Fresh \notin dead /\ \A d \in dead : d <= Fresh
    BY <2>1 DEF Fresh
  <2>3. Live'
    BY <1>1, <2>2 DEF Live
  <2>4. (\A u \in Exits : at'[u] = "idle") => t = "tray"
    BY <1>2 DEF Thread
  <2>5. \A u \in Exits : at'[u] \notin {"enable", "admit", "disable", "cancel", "close", "serve"}
    BY <1>1, <1>2 DEF IInv, FacadeOK, AloneOK, Thread
  <2> QED
    BY <1>1, <1>2, <2>2, <2>3, <2>4, <2>5 DEF AloneOK
<1>8. SocketOK'
  BY <1>1, <1>2 DEF IInv, FacadeOK, SocketOK, SocketIsKnown
<1> QED
  BY <1>3, <1>4, <1>5, <1>6, <1>7, <1>8 DEF IInv, FacadeOK

\* EnableAdmits: what was opened admits.
LEMMA EnableAdmitsIInv ==
  ASSUME IInv, NEW t \in Thread, EnableAdmits(t)
  PROVE  IInv'
<1>1. /\ at[t] = "admit" /\ at' = [at EXCEPT ![t] = "idle"] /\ enabled' = TRUE
      /\ UNCHANGED <<upstreamVars, context, dead, lifecycle, gate, sweep, pathLn, pathServer, sockets, seen, depends>>
  BY DEF EnableAdmits, Step
<1>2. at'[t] = "idle" /\ \A u \in Thread : u # t => at'[u] = at[u]
  BY <1>1, Moved
<1>3. RequestsTyped' /\ \A r \in Requests : RequestOK(r)' /\ ConnOK(r)'
  BY <1>1, RequestsLeft DEF IInv, RequestsTyped, upstreamVars, calling, reading, connection
<1>4. FacadeTyped'
  BY <1>1 DEF IInv, FacadeOK, FacadeTyped
<1>5. LockOK'
  BY <1>1, <1>2 DEF IInv, FacadeOK, FacadeTyped, LockOK, upstreamVars
<1>6. SwitchOK'
  BY <1>1 DEF SwitchOK
<1>7. AloneOK'
  <2>1. \A d \in dead : d <= context
    BY DEF IInv, FacadeOK, AloneOK
  <2>2. ASSUME \A u \in Exits : at'[u] = "idle"
        PROVE  Live' /\ at'["tray"] = "idle"
    <3>1. CASE t \in Exits
      BY <1>1, <3>1 DEF IInv, FacadeOK, AloneOK
    <3>2. CASE t = "tray"
      <4>1. \A u \in Exits : at[u] = "idle"
        BY <1>2, <2>2, <3>2, ServerAssumption DEF Thread
      <4>2. Live
        BY <1>1, <3>2, <4>1 DEF IInv, FacadeOK, AloneOK
      <4> QED
        BY <1>1, <1>2, <3>2, <4>2 DEF Live
    <3> QED
      BY <3>1, <3>2 DEF Thread
  <2>3. \A u \in Exits : at'[u] \notin {"enable", "admit", "disable", "cancel", "close", "serve"}
    BY <1>2 DEF IInv, FacadeOK, AloneOK, Thread
  <2> QED
    BY <1>1, <2>1, <2>2, <2>3, <1>2 DEF AloneOK
<1>8. SocketOK'
  BY <1>1, <1>2 DEF IInv, FacadeOK, SocketOK, SocketIsKnown
<1> QED
  BY <1>3, <1>4, <1>5, <1>6, <1>7, <1>8 DEF IInv, FacadeOK

\* DisableRefuses: a switch begins.
LEMMA DisableRefusesIInv ==
  ASSUME IInv, NEW t \in Thread, DisableRefuses(t)
  PROVE  IInv'
<1>1. PICK l \in {"cancel", "stopCancel"} : at' = [at EXCEPT ![t] = l]
  BY DEF DisableRefuses
<1>2. /\ at[t] \in {"disable", "stop"} /\ enabled' = FALSE
      /\ UNCHANGED <<upstreamVars, context, dead, lifecycle, gate, sweep, pathLn, pathServer, sockets, seen, depends>>
  BY DEF DisableRefuses
<1>3. at'[t] = l /\ \A u \in Thread : u # t => at'[u] = at[u]
  BY <1>1, Moved
<1>4. RequestsTyped' /\ \A r \in Requests : RequestOK(r)' /\ ConnOK(r)'
  BY <1>2, RequestsLeft DEF IInv, RequestsTyped, upstreamVars, calling, reading, connection
<1>5. FacadeTyped'
  BY <1>1, <1>2 DEF IInv, FacadeOK, FacadeTyped
<1>6. LockOK'
  BY <1>2, <1>3 DEF IInv, FacadeOK, FacadeTyped, LockOK, upstreamVars
<1>7. SwitchOK'
  BY <1>3 DEF SwitchOK, Switching
<1>8. AloneOK'
  <2>1. \A d \in dead' : d <= context'
    BY <1>2 DEF IInv, FacadeOK, AloneOK
  <2>2. \A u \in Exits : at'[u] \notin {"enable", "admit", "disable", "cancel", "close", "serve"}
    <3>1. t \in Exits => l = "stopCancel"
      BY <1>1, <1>2 DEF DisableRefuses, IInv, FacadeOK, FacadeTyped, AloneOK
    <3> QED
      BY <1>3, <3>1 DEF IInv, FacadeOK, AloneOK, Thread
  <2>3. (\A u \in Exits : at'[u] = "idle") => t = "tray"
    BY <1>3 DEF Thread
  <2> QED
    BY <1>2, <1>3, <2>1, <2>2, <2>3 DEF AloneOK
<1>9. SocketOK'
  BY <1>2, <1>3 DEF IInv, FacadeOK, SocketOK, SocketIsKnown
<1> QED
  BY <1>4, <1>5, <1>6, <1>7, <1>8, <1>9 DEF IInv, FacadeOK

\* DisableCancels: what is tracked is what will be closed.
LEMMA DisableCancelsIInv ==
  ASSUME IInv, NEW t \in Thread, DisableCancels(t)
  PROVE  IInv'
<1> DEFINE m == IF at[t] = "cancel" THEN "close" ELSE "stopClose"
<1>0. /\ at' = [at EXCEPT ![t] = m]
      /\ (at[t] = "cancel" /\ m = "close") \/ (at[t] = "stopCancel" /\ m = "stopClose")
  <2>1. at' = [at EXCEPT ![t] = IF at[t] = "cancel" THEN "close" ELSE "stopClose"]
    BY DEF DisableCancels
  <2>2. at[t] \in {"cancel", "stopCancel"}
    BY DEF DisableCancels
  <2>3. at[t] = "cancel" => m = "close"
    OBVIOUS
  <2>4. at[t] = "stopCancel" => m = "stopClose"
    OBVIOUS
  <2>5. at' = [at EXCEPT ![t] = m]
    BY <2>1
  <2> HIDE DEF m
  <2> QED
    BY <2>2, <2>3, <2>4, <2>5
<1> HIDE DEF m
<1>1. PICK l \in {"close", "stopClose"} :
        /\ at' = [at EXCEPT ![t] = l]
        /\ (at[t] = "cancel" /\ l = "close") \/ (at[t] = "stopCancel" /\ l = "stopClose")
  BY <1>0
<1>2. /\ lifecycle = Free /\ lifecycle' = t /\ dead' = dead \cup {context}
      /\ gate' = TRUE /\ sweep' = Swept /\ registered' = {}
      /\ UNCHANGED <<pc, cancelled, calling, reading, conn, enabled, context, pathLn, pathServer, sockets, seen, depends>>
  BY DEF DisableCancels
<1>3. at'[t] = l /\ \A u \in Thread : u # t => at'[u] = at[u]
  BY <1>1, Moved
<1>4. t # Free
  BY ServerAssumption DEF Thread, Free
<1>5. UNCHANGED <<attempts, header, did, body, got, taken, handed>>
  BY <1>2 DEF calling, reading
<1>6. RequestsTyped'
  BY <1>2, <1>5 DEF IInv, RequestsTyped
<1>7. ASSUME NEW r \in Requests
      PROVE  RequestOK(r)' /\ ConnOK(r)'
  <2>1. RequestOK(r)'
    BY <1>2, <1>5 DEF IInv, RequestOK, HeaderOK, ChunkOK, IdleOK
  <2>2. sweep = {}
    BY <1>2 DEF IInv, FacadeOK, LockOK
  <2>3. ConnOK(r)'
    BY <1>2, <2>2 DEF IInv, ConnOK, Swept
  <2> QED
    BY <2>1, <2>3
<1>8. FacadeTyped'
  <2>1. Swept \subseteq Requests
    BY DEF Swept, IInv, RequestsTyped
  <2> QED
    BY <1>1, <1>2, <2>1 DEF IInv, FacadeOK, FacadeTyped
<1>9. LockOK'
  <2>1. \A u \in Thread : at[u] \notin {"close", "stopClose"}
    BY <1>2, ServerAssumption DEF IInv, FacadeOK, LockOK, Thread, Free
  <2> QED
    BY <1>2, <1>3, <1>4, <2>1 DEF LockOK
<1>10. SwitchOK'
  BY <1>2 DEF SwitchOK
<1>11. AloneOK'
  <2>1. \A d \in dead' : d <= context'
    BY <1>2 DEF IInv, FacadeOK, FacadeTyped, AloneOK, Life
  <2>2. ASSUME \A u \in Exits : at'[u] = "idle"
        PROVE  t = "tray" /\ ~enabled
    <3>1. t = "tray"
      BY <1>3, <2>2 DEF Thread
    <3>2. \A u \in Exits : at[u] = "idle"
      BY <1>3, <2>2, <3>1, ServerAssumption DEF Thread
    <3> QED
      BY <1>1, <3>1, <3>2 DEF IInv, FacadeOK, AloneOK
  <2>3. \A u \in Exits : at'[u] \notin {"enable", "admit", "disable", "cancel", "close", "serve"}
    BY <1>1, <1>3 DEF IInv, FacadeOK, AloneOK, Thread
  <2> QED
    BY <1>2, <1>3, <2>1, <2>2, <2>3 DEF AloneOK
<1>12. SocketOK'
  BY <1>2, <1>3 DEF IInv, FacadeOK, SocketOK, SocketIsKnown
<1> QED
  BY <1>6, <1>7, <1>8, <1>9, <1>10, <1>11, <1>12 DEF IInv, FacadeOK

\* DisableCloses: nothing that was tracked is open.
LEMMA DisableClosesIInv ==
  ASSUME IInv, NEW t \in Thread, DisableCloses(t)
  PROVE  IInv'
<1> DEFINE m == IF at[t] = "close" THEN "idle" ELSE "read"
<1>0. /\ at' = [at EXCEPT ![t] = m]
      /\ (at[t] = "close" /\ m = "idle") \/ (at[t] = "stopClose" /\ m = "read")
  <2>1. at' = [at EXCEPT ![t] = IF at[t] = "close" THEN "idle" ELSE "read"]
    BY DEF DisableCloses
  <2>2. at[t] \in {"close", "stopClose"}
    BY DEF DisableCloses
  <2>3. at[t] = "close" => m = "idle"
    OBVIOUS
  <2>4. at[t] = "stopClose" => m = "read"
    OBVIOUS
  <2>5. at' = [at EXCEPT ![t] = m]
    BY <2>1
  <2> HIDE DEF m
  <2> QED
    BY <2>2, <2>3, <2>4, <2>5
<1> HIDE DEF m
<1>1. PICK l \in {"idle", "read"} :
        /\ at' = [at EXCEPT ![t] = l]
        /\ (at[t] = "close" /\ l = "idle") \/ (at[t] = "stopClose" /\ l = "read")
  BY <1>0
<1>2. /\ conn' = [r \in Requests |-> IF r \in sweep THEN "closed" ELSE conn[r]]
      /\ sweep' = {} /\ lifecycle' = Free
      /\ UNCHANGED <<pc, cancelled, calling, reading, registered, enabled, context, dead, gate, pathLn, pathServer, sockets, seen, depends>>
  BY DEF DisableCloses
<1>3. at'[t] = l /\ \A u \in Thread : u # t => at'[u] = at[u]
  BY <1>1, Moved
<1>4. lifecycle = t /\ gate
  BY <1>1 DEF IInv, FacadeOK, LockOK
<1>5. UNCHANGED <<attempts, header, did, body, got, taken, handed>>
  BY <1>2 DEF calling, reading
<1>6. RequestsTyped'
  BY <1>2, <1>5 DEF IInv, RequestsTyped
<1>7. ASSUME NEW r \in Requests
      PROVE  RequestOK(r)' /\ ConnOK(r)'
  <2>1. RequestOK(r)'
    BY <1>2, <1>5 DEF IInv, RequestOK, HeaderOK, ChunkOK, IdleOK
  <2>2. ConnOK(r)'
    BY <1>2 DEF IInv, ConnOK
  <2> QED
    BY <2>1, <2>2
<1>8. FacadeTyped'
  BY <1>1, <1>2 DEF IInv, FacadeOK, FacadeTyped
<1>9. LockOK'
  BY <1>2, <1>3, <1>4 DEF IInv, FacadeOK, LockOK
<1>10. SwitchOK'
  BY <1>2, <1>4 DEF SwitchOK
<1>11. AloneOK'
  <2>1. \A d \in dead' : d <= context'
    BY <1>2 DEF IInv, FacadeOK, AloneOK
  <2>2. \A u \in Exits : at'[u] \notin {"enable", "admit", "disable", "cancel", "close", "serve"}
    BY <1>1, <1>3 DEF IInv, FacadeOK, AloneOK, Thread
  <2>3. ASSUME \A u \in Exits : at'[u] = "idle"
        PROVE  t = "tray" /\ ~enabled
    <3>1. t = "tray"
      BY <1>1, <1>3, <2>3 DEF IInv, FacadeOK, AloneOK, Thread
    <3>2. \A u \in Exits : at[u] = "idle"
      BY <1>3, <2>3, <3>1, ServerAssumption DEF Thread
    <3> QED
      BY <1>1, <3>1, <3>2 DEF IInv, FacadeOK, AloneOK
  <2> QED
    BY <1>2, <1>3, <2>1, <2>2, <2>3 DEF AloneOK
<1>12. SocketOK'
  BY <1>2, <1>3 DEF IInv, FacadeOK, SocketOK, SocketIsKnown
<1> QED
  BY <1>6, <1>7, <1>8, <1>9, <1>10, <1>11, <1>12 DEF IInv, FacadeOK

\* A new socket is none that is known.
LEMMA NewSocketNew ==
  ASSUME NewSocket \in Life
  PROVE  \A t \in Thread : seen[t].listener # NewSocket
<1> DEFINE U == sockets \cup {pathLn, pathServer} \cup {seen[t].listener : t \in Thread}
           S == {l \in Life : \E m \in U : l <= m}
<1> SUFFICES ASSUME NewSocket \in U PROVE FALSE
  OBVIOUS
<1>1. NewSocket = 1 + Cardinality(S)
  BY DEF NewSocket
<1>2. MaxLives \in Nat /\ NewSocket \in 1..MaxLives
  BY ServerAssumption DEF Life
<1>3. IsFiniteSet(Life) /\ S \subseteq Life
  BY <1>2, FS_Interval DEF Life
<1>4. IsFiniteSet(S)
  BY <1>3, FS_Subset
<1>5. 1..NewSocket \subseteq S
  BY <1>2 DEF Life
<1>6. Cardinality(1..NewSocket) = NewSocket
  BY <1>2, FS_Interval
<1> HIDE DEF S
<1>7. Cardinality(1..NewSocket) <= Cardinality(S) /\ Cardinality(S) \in Nat
  BY <1>4, <1>5, FS_Subset, FS_CardinalityType
<1> QED
  BY <1>1, <1>2, <1>6, <1>7

\* ReservePath: the one socket is the one that is known.
LEMMA ReservePathIInv ==
  ASSUME IInv, NEW t \in Thread, ReservePath(t)
  PROVE  IInv'
<1>1. /\ t = "tray" /\ at[t] = "idle" /\ at' = [at EXCEPT ![t] = "serve"]
      /\ NewSocket \in Life /\ pathLn' = NewSocket /\ sockets' = {NewSocket}
      /\ UNCHANGED <<upstreamVars, enabled, context, dead, lifecycle, gate, sweep, pathServer, seen, depends>>
  BY DEF ReservePath, Step
<1>2. UNCHANGED <<pc, calling, reading, connection>> /\ cancelled' \subseteq Requests
  BY <1>1 DEF upstreamVars, calling, reading, connection, IInv, RequestsTyped
<1>3. FacadeTyped'
  BY <1>1 DEF IInv, FacadeOK, FacadeTyped
<1>4. SocketOK'
  BY <1>1, NewSocketNew DEF SocketOK, SocketIsKnown
<1> QED
  BY <1>1, <1>2, <1>3, <1>4, MoveIInv

\* ServePath: the tray's server has the socket that is known.
LEMMA ServePathIInv ==
  ASSUME IInv, NEW t \in Thread, ServePath(t)
  PROVE  IInv'
<1>1. /\ at[t] = "serve" /\ at' = [at EXCEPT ![t] = "enable"] /\ pathServer' = pathLn
      /\ UNCHANGED <<upstreamVars, enabled, context, dead, lifecycle, gate, sweep, pathLn, sockets, seen, depends>>
  BY DEF ServePath, Step
<1>2. UNCHANGED <<pc, calling, reading, connection>> /\ cancelled' \subseteq Requests
  BY <1>1 DEF upstreamVars, calling, reading, connection, IInv, RequestsTyped
<1>3. FacadeTyped'
  BY <1>1 DEF IInv, FacadeOK, FacadeTyped
<1>4. SocketOK'
  <2>1. at'[t] = "enable" /\ \A u \in Thread : u # t => at'[u] = at[u]
    BY <1>1, Moved
  <2> QED
    BY <1>1, <2>1 DEF IInv, FacadeOK, SocketOK, SocketIsKnown
<1>5. t = "tray"
  BY <1>1 DEF IInv, FacadeOK, AloneOK, Thread
<1> QED
  BY <1>1, <1>2, <1>3, <1>4, <1>5, MoveIInv

\* StopListening: the socket the stop saw is closed.
LEMMA StopListeningIInv ==
  ASSUME IInv, NEW t \in Thread, StopListening(t)
  PROVE  IInv'
<1>1. /\ at[t] = "shutdown" /\ at' = [at EXCEPT ![t] = "drain"]
      /\ sockets' = sockets \ {seen[t].listener}
      /\ UNCHANGED <<upstreamVars, enabled, context, dead, lifecycle, gate, sweep, pathLn, pathServer, seen, depends>>
  BY DEF StopListening, Step
<1>2. UNCHANGED <<pc, calling, reading, connection>> /\ cancelled' \subseteq Requests
  BY <1>1 DEF upstreamVars, calling, reading, connection, IInv, RequestsTyped
<1>3. FacadeTyped'
  BY <1>1 DEF IInv, FacadeOK, FacadeTyped
<1>4. SocketOK'
  <2>1. at'[t] = "drain" /\ \A u \in Thread : u # t => at'[u] = at[u]
    BY <1>1, Moved
  <2> QED
    BY <1>1, <2>1 DEF IInv, FacadeOK, SocketOK, SocketIsKnown
<1> QED
  BY <1>1, <1>2, <1>3, <1>4, MoveIInv

\* StopDrains: only clients are disconnected.
LEMMA StopDrainsIInv ==
  ASSUME IInv, NEW t \in Thread, StopDrains(t)
  PROVE  IInv'
<1>1. /\ at[t] = "drain" /\ at' = [at EXCEPT ![t] = "clear"]
      /\ UNCHANGED <<pc, calling, reading, connection, facade, seen, depends>>
  BY DEF StopDrains, Step
<1>2. cancelled' \subseteq Requests
  BY DEF StopDrains, InHandler, IInv, RequestsTyped
<1>3. UNCHANGED <<enabled, context, dead, lifecycle, gate, sweep, pathLn, pathServer, sockets>>
  BY <1>1 DEF facade
<1>4. FacadeTyped'
  BY <1>1, <1>3 DEF IInv, FacadeOK, FacadeTyped
<1>5. SocketOK'
  <2>1. at'[t] = "clear" /\ \A u \in Thread : u # t => at'[u] = at[u]
    BY <1>1, Moved
  <2> QED
    BY <1>1, <1>3, <2>1 DEF IInv, FacadeOK, SocketOK, SocketIsKnown
<1> QED
  BY <1>1, <1>2, <1>3, <1>4, <1>5, MoveIInv

\* StopClears: the address that is forgotten is that of a closed socket.
LEMMA StopClearsIInv ==
  ASSUME IInv, NEW t \in Thread, StopClears(t)
  PROVE  IInv'
<1> DEFINE l == IF t = "tray" THEN "idle" ELSE "ended"
           none == [server |-> None, listener |-> None]
<1>1. /\ at[t] = "clear" /\ at' = [at EXCEPT ![t] = l]
      /\ pathServer' = Forget(pathServer, seen[t].server)
      /\ pathLn' = Forget(pathLn, seen[t].listener)
      /\ seen' = [seen EXCEPT ![t] = none]
      /\ UNCHANGED <<upstreamVars, enabled, context, dead, lifecycle, gate, sweep, sockets, depends>>
  BY DEF StopClears
<1>2. UNCHANGED <<pc, calling, reading, connection>> /\ cancelled' \subseteq Requests
  BY <1>1 DEF upstreamVars, calling, reading, connection, IInv, RequestsTyped
<1>3. l \in {"idle", "ended"} /\ (t = "tray" \/ l = "ended")
  OBVIOUS
<1> HIDE DEF l
<1>4. FacadeTyped'
  <2>1. none \in [server : Life \cup {None}, listener : Life \cup {None}]
    OBVIOUS
  <2> HIDE DEF none
  <2>2. seen' \in [Thread -> [server : Life \cup {None}, listener : Life \cup {None}]]
    BY <1>1, <2>1 DEF IInv, FacadeOK, FacadeTyped
  <2>3. pathServer' \in Life \cup {None} /\ pathLn' \in Life \cup {None}
    BY <1>1 DEF IInv, FacadeOK, FacadeTyped, Forget
  <2>4. at' \in [Thread -> {"idle", "enable", "admit", "disable", "cancel", "close", "serve", "stop",
                        "stopCancel", "stopClose", "read", "shutdown", "drain", "clear", "ended"}]
    BY <1>1, <1>3 DEF IInv, FacadeOK, FacadeTyped
  <2> QED
    BY <1>1, <2>2, <2>3, <2>4 DEF IInv, FacadeOK, FacadeTyped
<1>5. SocketOK'
  <2>1. at'[t] = l /\ \A u \in Thread : u # t => at'[u] = at[u]
    BY <1>1, Moved
  <2>2. \A u \in Thread : u # t => seen'[u] = seen[u]
    BY <1>1 DEF IInv, FacadeOK, FacadeTyped
  <2>3. seen[t].listener \notin sockets /\ SocketIsKnown
    BY <1>1 DEF IInv, FacadeOK, SocketOK
  <2>4. SocketIsKnown'
    BY <1>1, <2>3 DEF SocketIsKnown, Forget
  <2>5. \A u \in Thread : at'[u] \in {"drain", "clear"} => seen'[u].listener \notin sockets'
    BY <1>1, <1>3, <2>1, <2>2 DEF IInv, FacadeOK, SocketOK
  <2> QED
    BY <2>4, <2>5 DEF SocketOK
<1> QED
  BY <1>1, <1>2, <1>3, <1>4, <1>5, MoveIInv

-----------------------------------------------------------------------------
(* The invariant.                                                          *)

\* A facade that was just made admits, and nothing has asked it yet.
LEMMA InitIInv == Init => IInv
<1> SUFFICES ASSUME Init PROVE IInv
  OBVIOUS
<1> USE ServerAssumption DEF Init, UpstreamInit
<1>1. RequestsTyped
  BY DEF RequestsTyped, Labels, NewHeader, HeaderRecord, NewBody, BodyRecord
<1>2. FacadeTyped
  <2>1. 1 \in Life /\ None \in Life \cup {None}
    BY DEF Life
  <2>2. seen \in [Thread -> [server : Life \cup {None}, listener : Life \cup {None}]]
    BY <2>1
  <2>3. at \in [Thread -> {"idle"}] /\ depends \in [Requests -> {None}]
    OBVIOUS
  <2> QED
    BY <2>1, <2>2, <2>3 DEF FacadeTyped
<1>3. \A r \in Requests : RequestOK(r) /\ ConnOK(r)
  BY DEF RequestOK, HeaderOK, ChunkOK, IdleOK, ConnOK, Calling, Reading, NewBody, NewHeader
<1>4. LockOK /\ SwitchOK /\ AloneOK /\ SocketOK
  BY DEF LockOK, SwitchOK, AloneOK, SocketOK, SocketIsKnown, Live, Thread
<1> QED
  BY <1>1, <1>2, <1>3, <1>4 DEF IInv, FacadeOK

\* Every step keeps the invariant.
LEMMA StepIInv == IInv /\ [Next]_vars => IInv'
<1> SUFFICES ASSUME IInv, [Next]_vars PROVE IInv'
  OBVIOUS
<1>1. ASSUME NEW t \in Thread, Operation(t)
      PROVE  IInv'
  <2>1. CASE EnableOpens(t)    BY <2>1, EnableOpensIInv
  <2>2. CASE EnableAdmits(t)   BY <2>2, EnableAdmitsIInv
  <2>3. CASE DisableRefuses(t) BY <2>3, DisableRefusesIInv
  <2>4. CASE DisableCancels(t) BY <2>4, DisableCancelsIInv
  <2>5. CASE DisableCloses(t)  BY <2>5, DisableClosesIInv
  <2>6. CASE ServePath(t)      BY <2>6, ServePathIInv
  <2>7. CASE StartFails(t)     BY <2>7, CommandIInv
  <2>8. CASE StopReads(t)      BY <2>8, CommandIInv
  <2>9. CASE StopListening(t)  BY <2>9, StopListeningIInv
  <2>10. CASE StopDrains(t)    BY <2>10, StopDrainsIInv
  <2>11. CASE StopClears(t)    BY <2>11, StopClearsIInv
  <2> QED
    BY <1>1, <2>1, <2>2, <2>3, <2>4, <2>5, <2>6, <2>7, <2>8, <2>9, <2>10, <2>11 DEF Operation
<1>2. ASSUME NEW t \in Thread, Command(t)
      PROVE  IInv'
  <2>1. CASE ReservePath(t)
    BY <2>1, ReservePathIInv
  <2>2. CASE StartServing(t) \/ StopServing(t) \/ Exit(t)
    BY <2>2, CommandIInv
  <2> QED
    BY <1>2, <2>1, <2>2 DEF Command
<1>3. ASSUME NEW r \in Requests, Arrive(r) \/ Request(r)
      PROVE  IInv'
  BY <1>3, FacadeRequestIInv
<1>4. CASE UpstreamNext /\ UNCHANGED <<facade, threads, depends>>
  BY <1>4, UpstreamIInv
<1>5. CASE UNCHANGED vars
  <2>1. /\ UNCHANGED <<pc, cancelled, attempts, header, did, body, got, conn, registered, taken, handed>>
        /\ UNCHANGED <<enabled, context, dead, lifecycle, gate, sweep, pathLn, pathServer, sockets>>
        /\ UNCHANGED <<at, seen, depends>>
    BY <1>5 DEF vars, upstreamVars, facade, threads
  <2>2. RequestsTyped' /\ FacadeTyped'
    BY <2>1 DEF IInv, FacadeOK, RequestsTyped, FacadeTyped
  <2>3. \A r \in Requests : RequestOK(r)' /\ ConnOK(r)'
    BY <2>1 DEF IInv, RequestOK, HeaderOK, ChunkOK, IdleOK, ConnOK
  <2>4. LockOK' /\ SwitchOK'
    BY <2>1 DEF IInv, FacadeOK, LockOK, SwitchOK, Switching
  <2>5. AloneOK' /\ SocketOK'
    BY <2>1 DEF IInv, FacadeOK, AloneOK, Live, SocketOK, SocketIsKnown
  <2> QED
    BY <2>2, <2>3, <2>4, <2>5 DEF IInv, FacadeOK
<1> QED
  BY <1>1, <1>2, <1>3, <1>4, <1>5 DEF Next

-----------------------------------------------------------------------------
(* What the facade promises.                                               *)

\* The inductive invariant.
THEOREM Invariant == Spec => []IInv
  BY InitIInv, StepIInv, PTL DEF Spec

\* Type correctness.
THEOREM Typed == Spec => []TypeOK
<1>1. IInv => TypeOK
  BY DEF IInv, FacadeOK, RequestsTyped, FacadeTyped, HeaderRecord, BodyRecord, TypeOK
<1> QED
  BY <1>1, Invariant, PTL

\* When the facade refuses and nobody switches it, no connection to an upstream
\* is in use or kept (Disable, CloseAll and trackedConn, server.go).
THEOREM Silent == Spec => []StoppedIsSilent
<1>0. IInv => (gate => registered = {}) /\ (lifecycle = Free => sweep = {})
  BY DEF IInv, FacadeOK, LockOK
<1>1. ASSUME IInv, ~enabled, Switching = {}, NEW r \in Requests, conn[r] = "open"
      PROVE  pc[r] = "track"
  <2>1. gate
    BY <1>1 DEF IInv, FacadeOK, SwitchOK
  <2>2. lifecycle = Free
    BY <1>1 DEF IInv, FacadeOK, FacadeTyped, LockOK, Switching
  <2>3. registered = {}
    BY <1>0, <1>1, <2>1
  <2>4. sweep = {}
    BY <1>0, <1>1, <2>2
  <2> QED
    BY <1>1, <2>3, <2>4 DEF IInv, ConnOK
<1>2. IInv => StoppedIsSilent
  BY <1>1 DEF StoppedIsSilent
<1> QED
  BY <1>2, Invariant, PTL

\* Before any exit a facade that admits has a context that is alive and an open
\* gate (Enable after Disable, server.go).
THEOREM Admitting == Spec => []EnabledIsLive
<1>1. IInv => EnabledIsLive
  BY DEF IInv, FacadeOK, AloneOK, EnabledIsLive, Live
<1> QED
  BY <1>1, Invariant, PTL

\* A socket that listens is the one the facade knows (ReservePath, Stop).
THEOREM KnownSocket == Spec => []SocketIsKnown
<1>1. IInv => SocketIsKnown
  BY DEF IInv, FacadeOK, SocketOK
<1> QED
  BY <1>1, Invariant, PTL

\* The timer for the headers ends no response that is read (doUpstreamRequest).
THEOREM HeadersOnly == Spec => []HeaderTimerSparesBody
<1>1. IInv => HeaderTimerSparesBody
  BY DEF IInv, RequestOK, HeaderOK, Reading, HeaderTimerSparesBody
<1> QED
  BY <1>1, Invariant, PTL

\* Every chunk taken off the connection is handed on (idleTimeoutReadCloser.Read).
THEOREM NoChunkLost == Spec => []ChunksArrive
<1>1. IInv => ChunksArrive
  BY DEF IInv, RequestOK, ChunkOK, ChunksArrive
<1> QED
  BY <1>1, Invariant, PTL

\* Only a timer's function lets a body time out, and only one that is not stale.
LEMMA TimesOut ==
  ASSUME IInv, NEW q \in Requests, NEW r \in Requests,
         Handler(q) \/ Timers(q) \/ Dialed(q) \/ Answers(q) \/ WaitBreaks(q) \/ BodyReads(q)
           \/ BodyEnds(q) \/ BodyFails(q) \/ Close(q) \/ ClientLeaves(q),
         body'[r].timedOut, ~body[r].timedOut
  PROVE  pc[r] \in {"inRead", "readDone"} /\ body[r].read \in body[r].due
<1> DEFINE b == body[q]
<1>0. body \in [Requests -> BodyRecord] /\ b \in BodyRecord
  BY DEF IInv, RequestsTyped
<1>1. \/ body' = body
      \/ body' = [body EXCEPT ![q] = NewBody]
      \/ body' = [body EXCEPT ![q] = Armed(b)]
      \/ body' = [body EXCEPT ![q].armed = 0]
      \/ body' = [body EXCEPT ![q].due = @ \cup {body[q].armed}, ![q].armed = 0]
      \/ body' = [body EXCEPT ![q] = [b EXCEPT !.generation = IF @ = b.read THEN @ + 1 ELSE @, !.read = 0]]
      \/ body' = [body EXCEPT ![q].closed = TRUE, ![q].generation = @ + 1]
      \/ \E g \in b.due : Expire(q, g)
  BY DEF Handler, Timers, Send, DialFails, WaitCut, Return, Decide, ReadBegins, ReadRefused, ReadCut,
         ReadEnds, HeaderElapses, HeaderExpires, IdleElapses, Dialed, Answers, WaitBreaks, BodyReads,
         BodyEnds, BodyFails, BodyReturns, Close, ClientLeaves, reading
<1>2. PICK g \in b.due : Expire(q, g)
  <2>1. body' # body
    OBVIOUS
  <2>2. body' # [body EXCEPT ![q] = NewBody]
    BY <1>0 DEF NewBody
  <2>3. body' # [body EXCEPT ![q] = Armed(b)]
    BY <1>0 DEF Armed, BodyRecord
  <2>4. body' # [body EXCEPT ![q].armed = 0]
    BY <1>0 DEF BodyRecord
  <2>5. body' # [body EXCEPT ![q].due = @ \cup {body[q].armed}, ![q].armed = 0]
    BY <1>0 DEF BodyRecord
  <2>6. body' # [body EXCEPT ![q] = [b EXCEPT !.generation = IF @ = b.read THEN @ + 1 ELSE @, !.read = 0]]
    BY <1>0 DEF BodyRecord
  <2>7. body' # [body EXCEPT ![q].closed = TRUE, ![q].generation = @ + 1]
    BY <1>0 DEF BodyRecord
  <2> QED
    BY <1>1, <2>1, <2>2, <2>3, <2>4, <2>5, <2>6, <2>7
<1>3. q = r /\ ~b.closed /\ b.generation = g
  <2> DEFINE less == [b EXCEPT !.due = @ \ {g}]
  <2>1. less \in BodyRecord /\ less.timedOut = b.timedOut /\ less.closed = b.closed /\ less.generation = b.generation
    BY <1>0 DEF BodyRecord
  <2>2. Stale(less, g) => body' = [body EXCEPT ![q] = less]
    BY <1>2 DEF Expire
  <2>3. \A s \in Requests \ {q} : body'[s] = body[s]
    BY <1>0, <1>2 DEF Expire
  <2>4. q = r
    BY <2>3
  <2> HIDE DEF less
  <2>5. ~Stale(less, g)
    BY <1>0, <2>1, <2>2, <2>4
  <2> QED
    BY <2>1, <2>4, <2>5 DEF Stale
<1>4. IdleOK(q)
  BY DEF IInv, RequestOK
<1> QED
  BY <1>2, <1>3, <1>4 DEF IdleOK

\* A body times out only by the timer of the Read under way (expire).
THEOREM TimerOfItsOwn == Spec => OwnTimerOnly
<1>1. ASSUME IInv, [Next]_vars, NEW r \in Requests, body'[r].timedOut, ~body[r].timedOut
      PROVE  pc[r] \in {"inRead", "readDone"} /\ body[r].read \in body[r].due
  <2>1. \A t \in Thread : Operation(t) \/ Command(t) => body' = body
    BY DEF Operation, Command, EnableOpens, EnableAdmits, DisableRefuses, DisableCancels, DisableCloses,
           ServePath, StartFails, StopReads, StopListening, StopDrains, StopClears, StartServing,
           ReservePath, StopServing, Exit, upstreamVars, reading
  <2>2. \A q \in Requests : Arrive(q) \/ Request(q) => body' = body
    BY DEF Arrive, Request, Bind, AfterFunc, Track, reading
  <2>3. UNCHANGED vars => body' = body
    BY DEF vars, upstreamVars
  <2>4. UpstreamNext
    BY <1>1, <2>1, <2>2, <2>3 DEF Next
  <2> QED
    BY <1>1, <2>4, TimesOut DEF UpstreamNext
<1>2. IInv /\ [Next]_vars =>
        [\A r \in Requests :
           body'[r].timedOut /\ ~body[r].timedOut =>
             pc[r] \in {"inRead", "readDone"} /\ body[r].read \in body[r].due]_vars
  BY <1>1
<1> QED
  BY <1>2, Invariant, PTL DEF Spec, OwnTimerOnly

=============================================================================
