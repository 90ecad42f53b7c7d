-------------------------------- MODULE Server --------------------------------
(***************************************************************************)
(* The facade's life (internal/proxy/server.go): its address, its HTTP     *)
(* server, the switch that admits requests, the context every upstream     *)
(* request depends on and the tracker of upstream connections, together    *)
(* with the requests of UpstreamBody.                                      *)
(*                                                                         *)
(* The threads are the tray's operation, which starts and stops the facade *)
(* under App.mu, and those that end the process, which call Server.Stop    *)
(* without it.  Disable, Enable and Stop give their locks back between the *)
(* steps they consist of here.                                             *)
(***************************************************************************)
EXTENDS UpstreamBody

CONSTANTS Exits,         \* the threads that end the process
          MaxLives       \* bound: request contexts, sockets and servers made

ASSUME ServerAssumption ==
  /\ MaxAttempts \in Nat /\ MaxReads \in Nat /\ MaxLives \in Nat \ {0}
  /\ {"tray", "free"} \cap Exits = {}

Thread == {"tray"} \cup Exits
Life == 1..MaxLives
None == 0
Free == "free"

VARIABLES
  enabled,     \* Server.enabled
  context,     \* Server.requestCtx: its number
  dead,        \* the contexts that are cancelled
  lifecycle,   \* lifecycleMu: Free or its holder
  gate,        \* connectionTracker.closed
  sweep,       \* the connections CloseAll has copied and not closed yet
  pathLn,      \* Server.pathLn: a socket, or None
  pathServer,  \* Server.pathServer: a server, or None
  sockets,     \* the listening sockets that are open
  at,          \* where each thread is
  seen,        \* what Stop read of pathServer and pathLn
  depends      \* the context each request's AfterFunc watches

facade == <<enabled, context, dead, lifecycle, gate, sweep, pathLn, pathServer, sockets>>
threads == <<at, seen>>
vars == <<upstreamVars, facade, threads, depends>>

Init ==
  /\ UpstreamInit
  /\ enabled = TRUE /\ context = 1 /\ dead = {} /\ lifecycle = Free
  /\ gate = FALSE /\ sweep = {}
  /\ pathLn = None /\ pathServer = None /\ sockets = {}
  /\ at = [t \in Thread |-> "idle"]
  /\ seen = [t \in Thread |-> [server |-> None, listener |-> None]]
  /\ depends = [r \in Requests |-> None]

Step(t, from, to) == at[t] = from /\ at' = [at EXCEPT ![t] = to]

-----------------------------------------------------------------------------
(* Enable and Disable.                                                     *)

FreshNever == context

\* Enable, under lifecycleMu: a fresh context after a stop, and the gate opens.
Fresh == IF context \in dead THEN context + 1 ELSE context

EnableOpens(t) ==
  /\ Step(t, "enable", "admit") /\ lifecycle = Free
  /\ Fresh \in Life /\ context' = Fresh
  /\ gate' = FALSE
  /\ UNCHANGED <<upstreamVars, enabled, dead, lifecycle, sweep, pathLn, pathServer, sockets, seen,
                 depends>>

EnableAdmits(t) ==
  /\ Step(t, "admit", "idle")
  /\ enabled' = TRUE
  /\ UNCHANGED <<upstreamVars, context, dead, lifecycle, gate, sweep, pathLn, pathServer, sockets,
                 seen, depends>>

DisableRefuses(t) ==
  /\ at[t] \in {"disable", "stop"}
  /\ at' = [at EXCEPT ![t] = IF @ = "disable" THEN "cancel" ELSE "stopCancel"]
  /\ enabled' = FALSE
  /\ UNCHANGED <<upstreamVars, context, dead, lifecycle, gate, sweep, pathLn, pathServer, sockets,
                 seen, depends>>

\* requestCancel and the first half of CloseAll, lifecycleMu held from here on.
Swept == {r \in registered : conn[r] = "open"}

DisableCancels(t) ==
  /\ at[t] \in {"cancel", "stopCancel"} /\ lifecycle = Free
  /\ at' = [at EXCEPT ![t] = IF @ = "cancel" THEN "close" ELSE "stopClose"]
  /\ lifecycle' = t
  /\ dead' = dead \cup {context}
  /\ gate' = TRUE /\ sweep' = Swept /\ registered' = {}
  /\ UNCHANGED <<pc, cancelled, calling, reading, conn, enabled, context, pathLn, pathServer,
                 sockets, seen, depends>>

DisableCloses(t) ==
  /\ at[t] \in {"close", "stopClose"}
  /\ at' = [at EXCEPT ![t] = IF @ = "close" THEN "idle" ELSE "read"]
  /\ conn' = [r \in Requests |-> IF r \in sweep THEN "closed" ELSE conn[r]]
  /\ sweep' = {} /\ lifecycle' = Free
  /\ UNCHANGED <<pc, cancelled, calling, reading, registered, enabled, context, dead, gate, pathLn,
                 pathServer, sockets, seen, depends>>

-----------------------------------------------------------------------------
(* The address and the server.                                             *)

\* The tray's start: a facade that serves is enabled again, any other reserves
\* the address first.
StartServing(t) ==
  /\ t = "tray" /\ pathServer # None /\ Step(t, "idle", "enable")
  /\ UNCHANGED <<upstreamVars, facade, seen, depends>>

NewSocket == 1 + Cardinality({l \in Life : \E m \in sockets \cup {pathLn, pathServer} \cup
                                {seen[t].listener : t \in Thread} : l <= m})

\* ReservePath: the port is free as long as no socket of this process has it.
ReservePath(t) ==
  /\ t = "tray" /\ pathServer = None /\ Step(t, "idle", "serve")
  /\ pathLn = None /\ sockets = {} /\ NewSocket \in Life
  /\ pathLn' = NewSocket /\ sockets' = {NewSocket}
  /\ UNCHANGED <<upstreamVars, enabled, context, dead, lifecycle, gate, sweep, pathServer, seen,
                 depends>>

\* ServePath; the server has the number of its socket.
ServePath(t) ==
  /\ pathLn # None /\ pathServer = None /\ Step(t, "serve", "enable")
  /\ pathServer' = pathLn
  /\ UNCHANGED <<upstreamVars, enabled, context, dead, lifecycle, gate, sweep, pathLn, sockets,
                 seen, depends>>

\* abortStart, when the start fails between the two or ServePath refuses.  The
\* server that has not served is replaced by a new one, for which the old one,
\* whose address is free again, stands here.
StartFails(t) ==
  /\ Step(t, "serve", IF pathServer = None THEN "stop" ELSE "disable")
  /\ UNCHANGED <<upstreamVars, facade, seen, depends>>

\* The tray's stop.
StopServing(t) ==
  /\ t = "tray" /\ enabled /\ pathServer # None /\ Step(t, "idle", "disable")
  /\ UNCHANGED <<upstreamVars, facade, seen, depends>>

\* The end of the process takes App.mu for a moment before it calls Stop.
Exit(t) ==
  /\ t \in Exits /\ at["tray"] = "idle" /\ Step(t, "idle", "stop")
  /\ UNCHANGED <<upstreamVars, facade, seen, depends>>

\* Stop, once it has disabled the facade: what there is to take down ...
StopReads(t) ==
  /\ Step(t, "read", "shutdown")
  /\ seen' = [seen EXCEPT ![t] = [server |-> pathServer, listener |-> pathLn]]
  /\ UNCHANGED <<upstreamVars, facade, depends>>

\* ... Shutdown and listener.Close end the listening ...
StopListening(t) ==
  /\ Step(t, "shutdown", "drain")
  /\ sockets' = sockets \ {seen[t].listener}
  /\ UNCHANGED <<upstreamVars, enabled, context, dead, lifecycle, gate, sweep, pathLn, pathServer,
                 seen, depends>>

\* ... the requests end, or the timeout closes their clients' connections ...
StopDrains(t) ==
  /\ Step(t, "drain", "clear")
  /\ cancelled' = IF seen[t].server = None THEN cancelled ELSE cancelled \cup InHandler
  /\ UNCHANGED <<pc, calling, reading, connection, facade, seen, depends>>

ForgetAll(now, was) == None

\* ... and what it took down is forgotten, unless another has taken its place.
Forget(now, was) == IF now = was THEN None ELSE now

StopClears(t) ==
  /\ at[t] = "clear"
  /\ at' = [at EXCEPT ![t] = IF t = "tray" THEN "idle" ELSE "ended"]
  /\ pathServer' = Forget(pathServer, seen[t].server)
  /\ pathLn' = Forget(pathLn, seen[t].listener)
  /\ seen' = [seen EXCEPT ![t] = [server |-> None, listener |-> None]]
  /\ UNCHANGED <<upstreamVars, enabled, context, dead, lifecycle, gate, sweep, sockets, depends>>

-----------------------------------------------------------------------------
(* The requests.                                                           *)

\* servePath: a request the facade does not admit is answered at once.
Arrive(r) ==
  /\ pc[r] = "idle" /\ pathServer \in sockets
  /\ Goto(r, IF enabled THEN "admitted" ELSE "done")
  /\ UNCHANGED <<cancelled, calling, reading, connection, facade, threads, depends>>

\* forwardFacade: the request from now on ends with the context of the moment.
Bind(r) ==
  /\ pc[r] = "admitted" /\ lifecycle = Free
  /\ Goto(r, "bound")
  /\ depends' = [depends EXCEPT ![r] = context]
  /\ UNCHANGED <<cancelled, calling, reading, connection, facade, threads>>

\* context.AfterFunc, in a goroutine of its own.
AfterFunc(r) ==
  /\ depends[r] \in dead /\ r \notin cancelled /\ r \in InHandler
  /\ cancelled' = cancelled \cup {r}
  /\ UNCHANGED <<pc, calling, reading, connection, facade, threads, depends>>

TrackUngated(r) ==
  /\ pc[r] = "track"
  /\ Goto(r, "wait") /\ registered' = registered \cup {r}
  /\ UNCHANGED <<cancelled, calling, conn, reading, facade, threads, depends>>

\* Track: a connection dialled while the sweep went by is closed.
Track(r) ==
  /\ pc[r] = "track"
  /\ IF gate
     THEN DoReturns(r, "error") /\ conn' = [conn EXCEPT ![r] = "closed"] /\ UNCHANGED registered
     ELSE Goto(r, "wait") /\ registered' = registered \cup {r} /\ UNCHANGED <<did, conn>>
  /\ UNCHANGED <<cancelled, attempts, header, reading, facade, threads, depends>>

-----------------------------------------------------------------------------

Operation(t) ==
  \/ EnableOpens(t) \/ EnableAdmits(t)
  \/ DisableRefuses(t) \/ DisableCancels(t) \/ DisableCloses(t)
  \/ ServePath(t) \/ StartFails(t)
  \/ StopReads(t) \/ StopListening(t) \/ StopDrains(t) \/ StopClears(t)

Command(t) == StartServing(t) \/ ReservePath(t) \/ StopServing(t) \/ Exit(t)

Request(r) == Bind(r) \/ AfterFunc(r) \/ Track(r)

Next ==
  \/ \E t \in Thread : Operation(t) \/ Command(t)
  \/ \E r \in Requests : Arrive(r) \/ Request(r)
  \/ UpstreamNext /\ UNCHANGED <<facade, threads, depends>>

Spec == Init /\ [][Next]_vars

\* Operations, handlers and timers go on; nothing is asked of the upstream, the
\* client, or those who start and stop the facade.  A reader of lifecycleMu gets
\* it at last, though one stop follows another (sync.RWMutex).
FairSpec ==
  /\ Spec
  /\ \A t \in Thread : WF_vars(Operation(t))
  /\ \A r \in Requests :
       /\ SF_vars(Bind(r)) /\ WF_vars(AfterFunc(r)) /\ WF_vars(Track(r))
       /\ WF_vars(Handler(r) /\ UNCHANGED <<facade, threads, depends>>)
       /\ WF_vars(Timers(r) /\ UNCHANGED <<facade, threads, depends>>)

-----------------------------------------------------------------------------
(* Properties.                                                             *)

\* Type correctness.
TypeOK ==
  /\ pc \in [Requests -> Labels] /\ cancelled \subseteq Requests
  /\ attempts \in [Requests -> 0..MaxAttempts]
  /\ header \in [Requests -> [timer : {"off", "armed", "due"}, returned : BOOLEAN,
                              timedOut : BOOLEAN, cut : BOOLEAN]]
  /\ did \in [Requests -> {"response", "error"}]
  /\ body \in [Requests -> [generation : Nat, closed : BOOLEAN, timedOut : BOOLEAN,
                            read : Nat, armed : Nat, due : SUBSET Nat]]
  /\ got \in [Requests -> {"nothing", "data", "eof", "error"}]
  /\ conn \in [Requests -> {"none", "open", "closed"}] /\ registered \subseteq Requests
  /\ taken \in [Requests -> Nat] /\ handed \in [Requests -> Nat]
  /\ enabled \in BOOLEAN /\ context \in Life /\ dead \subseteq Life
  /\ lifecycle \in Thread \cup {Free} /\ gate \in BOOLEAN /\ sweep \subseteq Requests
  /\ pathLn \in Life \cup {None} /\ pathServer \in Life \cup {None} /\ sockets \subseteq Life
  /\ at \in [Thread -> {"idle", "enable", "admit", "disable", "cancel", "close", "serve", "stop",
                        "stopCancel", "stopClose", "read", "shutdown", "drain", "clear", "ended"}]
  /\ seen \in [Thread -> [server : Life \cup {None}, listener : Life \cup {None}]]
  /\ depends \in [Requests -> Life \cup {None}]

Switching == {t \in Thread : at[t] \in {"enable", "admit", "disable", "cancel", "close", "stop",
                                        "stopCancel", "stopClose"}}

\* When the facade refuses requests and nobody is switching it, no connection to
\* an upstream is in use or kept for later, whenever it was dialled.
StoppedIsSilent ==
  ~enabled /\ Switching = {} =>
    \A r \in Requests : conn[r] = "open" => pc[r] = "track"

\* A facade that admits requests lets them through to their upstreams: its
\* context is alive and its gate is open, however often it was stopped before.
\* An exit that began may have closed them under a start that came later.
EnabledIsLive ==
  enabled /\ Switching = {} /\ (\A t \in Exits : at[t] = "idle") =>
    context \notin dead /\ ~gate

\* The facade never loses sight of its address: a socket that listens is the one
\* a stop will close and the next start will ask for.
SocketIsKnown == sockets \subseteq {pathLn}

\* The timer for the headers never ends a response the handler reads from.
HeaderTimerSparesBody ==
  \A r \in Requests : pc[r] \in {"reading", "inRead", "readDone"} => ~header[r].cut

\* A chunk that has left the connection reaches the handler, whether the idle
\* timer, a close or a stop comes at the same moment.
ChunksArrive ==
  \A r \in Requests : taken[r] = handed[r] + (IF got[r] = "data" THEN 1 ELSE 0)

\* A body times out only by the timer that was started for the Read under way:
\* one that elapsed as its own Read returned does no harm to the next.
OwnTimerOnly ==
  [][\A r \in Requests :
       body'[r].timedOut /\ ~body[r].timedOut =>
         pc[r] \in {"inRead", "readDone"} /\ body[r].read \in body[r].due]_vars

\* Every admitted request ends, though its upstream may never accept, never
\* answer or fall silent in the middle.
RequestsEnd == \A r \in Requests : pc[r] = "admitted" ~> pc[r] = "done"
=============================================================================
