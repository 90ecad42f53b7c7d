----------------------------- MODULE UpstreamBody -----------------------------
(***************************************************************************)
(* What a request to an upstream waits for, and the two timers that end    *)
(* the waiting (internal/proxy/upstream_timeout.go):                       *)
(*   - doUpstreamRequest, whose timer runs until the response's headers are *)
(*     there and cancels this attempt alone;                               *)
(*   - idleTimeoutReadCloser, whose timer runs anew during every Read and   *)
(*     closes the body under a Read that gets nothing.                     *)
(* A timer elapses in one step and its function runs in a later one, so    *)
(* that what it watches may be over by then.  The lifecycle of the facade   *)
(* around the requests is in Server.                                       *)
(***************************************************************************)
EXTENDS Naturals, FiniteSets

CONSTANTS Requests,     \* the requests that reach the facade
          MaxAttempts,  \* bound: attempts of one request
          MaxReads      \* bound: Reads of one body that bring data

VARIABLES
  pc,          \* where each handler is
  cancelled,   \* the requests whose upstreamContext is cancelled
  attempts,    \* attempts begun
  header,      \* doUpstreamRequest: its timer and the variables under stateMu
  did,         \* what client.Do returned
  body,        \* idleTimeoutReadCloser
  got,         \* what the Read of the wrapped body returned
  conn,        \* the request's connection
  registered,  \* connectionTracker.conns
  taken,       \* history: chunks taken off the wrapped body ...
  handed       \* ... and chunks Read has returned

upstreamVars == <<pc, cancelled, attempts, header, did, body, got, conn, registered,
                  taken, handed>>
calling == <<attempts, header, did>>
reading == <<body, got, taken, handed>>
connection == <<conn, registered>>

Labels == {"idle", "admitted", "bound", "dial", "track", "wait", "returned", "failed",
           "reading", "inRead", "readDone", "done"}
InHandler == {r \in Requests : pc[r] \notin {"idle", "done"}}

NewHeader == [timer |-> "armed", returned |-> FALSE, timedOut |-> FALSE, cut |-> FALSE]
NewBody == [generation |-> 0, closed |-> FALSE, timedOut |-> FALSE, read |-> 0,
            armed |-> 0, due |-> {}]

UpstreamInit ==
  /\ pc = [r \in Requests |-> "idle"] /\ cancelled = {}
  /\ attempts = [r \in Requests |-> 0]
  /\ header = [r \in Requests |-> NewHeader] /\ did = [r \in Requests |-> "error"]
  /\ body = [r \in Requests |-> NewBody] /\ got = [r \in Requests |-> "nothing"]
  /\ conn = [r \in Requests |-> "none"] /\ registered = {}
  /\ taken = [r \in Requests |-> 0] /\ handed = [r \in Requests |-> 0]

Goto(r, label) == pc' = [pc EXCEPT ![r] = label]

\* trackedConn.Close.
Closed(r) == conn' = [conn EXCEPT ![r] = "closed"] /\ registered' = registered \ {r}

-----------------------------------------------------------------------------
(* doUpstreamRequest.                                                      *)

Send(r) ==
  /\ pc[r] = "bound" /\ attempts[r] < MaxAttempts
  /\ Goto(r, "dial")
  /\ attempts' = [attempts EXCEPT ![r] = @ + 1]
  /\ header' = [header EXCEPT ![r] = NewHeader]
  /\ UNCHANGED <<cancelled, did, reading, connection>>

\* client.Do returns: d is what it brings.
DoReturns(r, d) == Goto(r, "returned") /\ did' = [did EXCEPT ![r] = d]

Dialed(r) ==
  /\ pc[r] = "dial"
  /\ Goto(r, "track") /\ conn' = [conn EXCEPT ![r] = "open"]
  /\ UNCHANGED <<cancelled, calling, reading, registered>>

\* The dial fails, at the latest by the dialer's own timeout.
DialFails(r) ==
  /\ pc[r] = "dial"
  /\ DoReturns(r, "error")
  /\ UNCHANGED <<cancelled, attempts, header, reading, connection>>

Answers(r) ==
  /\ pc[r] = "wait" /\ conn[r] = "open"
  /\ DoReturns(r, "response")
  /\ UNCHANGED <<cancelled, attempts, header, reading, connection>>

\* The upstream breaks the connection, or what the attempt depends on is gone.
WaitBreaks(r) ==
  /\ pc[r] = "wait"
  /\ DoReturns(r, "error") /\ Closed(r)
  /\ UNCHANGED <<cancelled, attempts, header, reading>>

WaitCut(r) == (r \in cancelled \/ header[r].cut \/ conn[r] = "closed") /\ WaitBreaks(r)

HeaderElapses(r) ==
  /\ pc[r] \in {"dial", "track", "wait", "returned"} /\ header[r].timer = "armed"
  /\ header' = [header EXCEPT ![r].timer = "due"]
  /\ UNCHANGED <<pc, cancelled, attempts, did, reading, connection>>

OverrunAlways(h) == [h EXCEPT !.timer = "off", !.timedOut = TRUE, !.cut = TRUE]

\* The timer's function: nothing once the call has returned.
Overrun(h) ==
  IF h.returned THEN [h EXCEPT !.timer = "off"]
                ELSE [h EXCEPT !.timer = "off", !.timedOut = TRUE, !.cut = TRUE]

HeaderExpires(r) ==
  /\ header[r].timer = "due"
  /\ header' = [header EXCEPT ![r] = Overrun(header[r])]
  /\ UNCHANGED <<pc, cancelled, attempts, did, reading, connection>>

\* The rest of doUpstreamRequest: a response that lost to the timer is given up.
Return(r) ==
  /\ pc[r] = "returned"
  /\ LET h == header[r]
         failed == h.timedOut \/ did[r] = "error" IN
     /\ header' = [header EXCEPT ![r] =
                     [h EXCEPT !.returned = TRUE, !.cut = h.cut \/ failed,
                               !.timer = IF h.timer = "armed" THEN "off" ELSE h.timer]]
     /\ IF failed
        THEN Goto(r, "failed") /\ Closed(r) /\ UNCHANGED reading
        ELSE /\ Goto(r, "reading")
             /\ body' = [body EXCEPT ![r] = NewBody]
             /\ UNCHANGED <<got, taken, handed, connection>>
  /\ UNCHANGED <<cancelled, attempts, did>>

\* The decision about a failed attempt (Recovery has it in full): again, or an
\* answer; a request that is cancelled is not repeated.
Decide(r) ==
  /\ pc[r] = "failed"
  /\ \/ r \notin cancelled /\ attempts[r] < MaxAttempts /\ Goto(r, "bound")
     \/ Goto(r, "done")
  /\ UNCHANGED <<cancelled, calling, reading, connection>>

-----------------------------------------------------------------------------
(* idleTimeoutReadCloser.                                                  *)

\* Closing a body breaks its connection, unless the body has been read to its
\* end and the connection is in the pool.
BodyClosed(r) == IF got[r] = "eof" THEN UNCHANGED connection ELSE Closed(r)

ArmedNever(b) == [b EXCEPT !.generation = @ + 1, !.read = b.generation + 1]

\* Read, up to the Read of the wrapped body: the timer starts.
Armed(b) == [b EXCEPT !.generation = @ + 1, !.read = b.generation + 1, !.armed = b.generation + 1]

ReadBegins(r) ==
  /\ pc[r] = "reading" /\ ~body[r].closed
  /\ Goto(r, "inRead")
  /\ body' = [body EXCEPT ![r] = Armed(body[r])]
  /\ UNCHANGED <<cancelled, calling, got, taken, handed, connection>>

\* A Read of a closed reader fails, and the handler ends.
ReadRefused(r) ==
  /\ pc[r] = "reading" /\ body[r].closed
  /\ Goto(r, "done")
  /\ UNCHANGED <<cancelled, calling, reading, connection>>

\* The wrapped body returns, and the timer is stopped if it has not elapsed.
BodyReturns(r, what) ==
  /\ Goto(r, "readDone")
  /\ got' = [got EXCEPT ![r] = what]
  /\ body' = [body EXCEPT ![r].armed = 0]

BodyReads(r) ==
  /\ pc[r] = "inRead" /\ conn[r] = "open" /\ taken[r] < MaxReads
  /\ BodyReturns(r, "data")
  /\ taken' = [taken EXCEPT ![r] = @ + 1]
  /\ UNCHANGED <<cancelled, calling, handed, connection>>

\* The end of the body: its connection goes back to the transport's pool.
BodyEnds(r) ==
  /\ pc[r] = "inRead" /\ conn[r] = "open"
  /\ BodyReturns(r, "eof")
  /\ UNCHANGED <<cancelled, calling, taken, handed, connection>>

BodyFails(r) ==
  /\ pc[r] = "inRead"
  /\ BodyReturns(r, "error") /\ Closed(r)
  /\ UNCHANGED <<cancelled, calling, taken, handed>>

ReadCut(r) == (r \in cancelled \/ header[r].cut \/ conn[r] = "closed") /\ BodyFails(r)

IdleElapses(r) ==
  /\ body[r].armed # 0
  /\ body' = [body EXCEPT ![r].due = @ \cup {body[r].armed}, ![r].armed = 0]
  /\ UNCHANGED <<pc, cancelled, calling, got, taken, handed, connection>>

StaleWhenClosed(b, g) == b.closed

\* expire: the timer of another Read than the present one does nothing.
Stale(b, g) == b.closed \/ b.generation # g

Expire(r, g) ==
  /\ g \in body[r].due
  /\ LET b == [body[r] EXCEPT !.due = @ \ {g}] IN
     IF Stale(b, g)
     THEN body' = [body EXCEPT ![r] = b] /\ UNCHANGED connection
     ELSE /\ body' = [body EXCEPT ![r] = [b EXCEPT !.closed = TRUE, !.timedOut = TRUE,
                                                   !.generation = @ + 1]]
          /\ BodyClosed(r)
  /\ UNCHANGED <<pc, cancelled, calling, got, taken, handed>>

ToldTimeout(b, what) == IF b.timedOut THEN "timeout" ELSE what

\* What Read returns after the wrapped body has: data before any error.
Told(b, what) ==
  CASE b.timedOut /\ what = "data" -> "data"
    [] b.timedOut /\ what # "data" -> "timeout"
    [] OTHER -> what

ReadEnds(r) ==
  /\ pc[r] = "readDone"
  /\ LET b == body[r]
         told == Told(b, got[r]) IN
     /\ body' = [body EXCEPT ![r] =
                   [b EXCEPT !.generation = IF @ = b.read THEN @ + 1 ELSE @, !.read = 0]]
     /\ got' = [got EXCEPT ![r] = "nothing"]
     /\ Goto(r, IF told = "data" THEN "reading" ELSE "done")
     /\ handed' = [handed EXCEPT ![r] = IF told = "data" THEN @ + 1 ELSE @]
  /\ UNCHANGED <<cancelled, calling, taken, connection>>

\* Close: by the handler between two Reads, or by the content watchdog under one.
Close(r) ==
  /\ pc[r] \in {"reading", "inRead", "readDone"} /\ ~body[r].closed
  /\ body' = [body EXCEPT ![r].closed = TRUE, ![r].generation = @ + 1]
  /\ BodyClosed(r)
  /\ UNCHANGED <<pc, cancelled, calling, got, taken, handed>>

-----------------------------------------------------------------------------

\* The client leaves, and its request's context with it.
ClientLeaves(r) ==
  /\ r \in InHandler \ cancelled
  /\ cancelled' = cancelled \cup {r}
  /\ UNCHANGED <<pc, calling, reading, connection>>

\* What the code's own steps and timers do, whatever the upstream does.
Handler(r) ==
  \/ Send(r) \/ DialFails(r) \/ WaitCut(r) \/ Return(r) \/ Decide(r)
  \/ ReadBegins(r) \/ ReadRefused(r) \/ ReadCut(r) \/ ReadEnds(r)

Timers(r) ==
  HeaderElapses(r) \/ HeaderExpires(r) \/ IdleElapses(r) \/ \E g \in body[r].due : Expire(r, g)

UpstreamNext ==
  \E r \in Requests :
    \/ Handler(r) \/ Timers(r)
    \/ Dialed(r) \/ Answers(r) \/ WaitBreaks(r)
    \/ BodyReads(r) \/ BodyEnds(r) \/ BodyFails(r)
    \/ Close(r) \/ ClientLeaves(r)
=============================================================================
