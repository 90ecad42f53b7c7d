---------------------------- MODULE AppLifecycle ----------------------------
(***************************************************************************)
(* The App of cmd/hellogrok/main.go under the goroutines that drive it:    *)
(* the tray's start and stop operations, its Exit item, the signal handler *)
(* and the exit callback of the tray library, with the two background      *)
(* workers an App keeps while it runs.                                     *)
(*                                                                         *)
(* App.mu is held from a step that takes it to the step that gives it back;*)
(* stopBackgroundWorkers runs without it.  A Restore or an ApplyTargets is *)
(* one step here (ConfigPatch has theirs): it succeeds or it fails.        *)
(***************************************************************************)
EXTENDS Naturals, FiniteSets

CONSTANTS Source,     \* what may happen: a subset of {"click", "exit", "signal"}
          MaxGen      \* how many generations of workers are told apart

ASSUME AppAssumption ==
  /\ Source \subseteq {"click", "exit", "signal"}
  /\ MaxGen \in Nat \ {0}

Thread == {"op", "sig", "quit", "end"}   \* "end" is the onExit callback
Worker == {"capacity", "refresh"}
Gen == 1..MaxGen
Free == "free"

VARIABLES
  mu,        \* App.mu: Free, or the thread that holds it
  pc,        \* where each thread is
  seen,      \* stopBackgroundWorkers: the generation each thread read
  running,   \* App.running
  listener,  \* the facade: "none", "reserved", "serving", and while Server.Stop
             \* closes it "closing" (pathServer still set) or "closed" (reserved)
  already,   \* Start: the facade was serving before
  enabled,   \* Server.enabled
  config,    \* the endpoints in config.toml: the "user"'s, "ours", "inherited"
             \* from an earlier process, "left" by a failed start
  bg,        \* App.backgroundCtx: its generation, 0 for nil
  cancelled, \* generations whose context is cancelled
  worker,    \* each worker of each generation: "gone", "idle", "busy"
  busy,      \* the tray: an operation is in progress
  loop,      \* the tray's event loop still runs
  exitAsked, \* systray.Quit was called
  status,    \* the process: "alive", "exited", "panicked"
  faulted    \* history: an operation failed

vars == <<mu, pc, seen, running, listener, already, enabled, config, bg, cancelled,
          worker, busy, loop, exitAsked, status, faulted>>

server == <<listener, already, enabled>>
background == <<bg, cancelled, worker>>
process == <<busy, loop, exitAsked, status>>

Holding == {"recover", "serve", "apply", "fallback", "run", "restore", "disable"}
Stopping == {"cancel", "join", "parked", "woken", "clear", "stopLock", "restore", "disable"}
Final == {"cancel2", "join2", "parked2", "woken2", "clear2", "mark", "release", "released"}
Label == {"idle", "startLock", "stopCheck"} \cup Holding \cup Stopping \cup Final

Goto(t, label) == pc' = [pc EXCEPT ![t] = label]

Fault == faulted' = TRUE

Init ==
  /\ mu = Free /\ pc = [t \in Thread |-> "idle"] /\ seen = [t \in Thread |-> 0]
  /\ running = FALSE
  /\ listener = "none" /\ already = FALSE /\ enabled = FALSE
  /\ config \in {"user", "inherited"}
  /\ bg = 0 /\ cancelled = {}
  /\ worker = [g \in Gen |-> [w \in Worker |-> "gone"]]
  /\ busy = FALSE /\ loop = TRUE /\ exitAsked = FALSE /\ status = "alive"
  /\ faulted = FALSE

-----------------------------------------------------------------------------
(* What drives the App.                                                    *)

\* The tray's checkbox: one operation at a time, by what IsRunning says now.
Click ==
  /\ "click" \in Source /\ loop /\ ~busy /\ pc["op"] = "idle" /\ mu = Free
  /\ busy' = TRUE
  /\ Goto("op", IF running THEN "stopCheck" ELSE "startLock")
  /\ UNCHANGED <<mu, seen, running, server, config, background, loop, exitAsked, status, faulted>>

\* startDone, stopDone.
Done ==
  /\ loop /\ busy /\ pc["op"] = "idle"
  /\ busy' = FALSE
  /\ UNCHANGED <<mu, pc, seen, running, server, config, background, loop, exitAsked, status,
                 faulted>>

\* The Exit item, also while an operation is in progress: the loop runs
\* Shutdown itself and ends.
ClickExit ==
  /\ "exit" \in Source /\ loop
  /\ loop' = FALSE
  /\ Goto("quit", "stopCheck")
  /\ UNCHANGED <<mu, seen, running, server, config, background, busy, exitAsked, status, faulted>>

Signal ==
  /\ "signal" \in Source /\ pc["sig"] = "idle" /\ ~exitAsked
  /\ Goto("sig", "stopCheck")
  /\ UNCHANGED <<mu, seen, running, server, config, background, process, faulted>>

\* The tray library calls onExit, which shuts the App down once more.
OnExit ==
  /\ exitAsked /\ pc["end"] = "idle"
  /\ Goto("end", "stopCheck")
  /\ UNCHANGED <<mu, seen, running, server, config, background, process, faulted>>

\* Stop returns: to Shutdown, to the tray, or to the signal handler, which
\* asks for the exit only after a stop that succeeded.
StopReturns(t, ok) ==
  /\ Goto(t, IF t \in {"quit", "end"} THEN "cancel2" ELSE "idle")
  /\ exitAsked' = (exitAsked \/ (t = "sig" /\ ok))
  /\ UNCHANGED <<busy, loop, status>>

-----------------------------------------------------------------------------
(* Start.                                                                  *)

\* abortStart: a facade that serves is disabled, any other is given up.
Abort(t) ==
  /\ enabled' = FALSE
  /\ listener' = IF listener \in {"serving", "closing"} THEN listener ELSE "none"
  /\ mu' = Free /\ Goto(t, "idle")
  /\ UNCHANGED <<already, running, background>>

\* Start takes the lock and, unless it serves already, the address.
StartLock(t) ==
  /\ pc[t] = "startLock" /\ mu = Free
  /\ already' = (listener \in {"serving", "closing"})
  /\ IF running
     THEN Goto(t, "idle") /\ UNCHANGED <<mu, listener, enabled>>
     ELSE /\ mu' = t /\ Goto(t, "recover")
          /\ listener' = IF already' THEN listener ELSE "reserved"
          /\ UNCHANGED enabled
  /\ UNCHANGED <<seen, running, config, background, process, faulted>>

\* The address is taken by somebody else.
ReserveFails(t) ==
  /\ pc[t] = "startLock" /\ mu = Free /\ ~running /\ listener \notin {"serving", "closing"}
  /\ Fault
  /\ Goto(t, "idle") /\ enabled' = FALSE
  /\ UNCHANGED <<mu, seen, running, listener, already, config, background, process>>

\* The orphan of an earlier run is restored, and the routes are loaded.
Recover(t) ==
  /\ pc[t] = "recover"
  /\ \/ Goto(t, "serve") /\ config' = "user"
        /\ UNCHANGED <<mu, running, server, background, faulted>>
     \/ Fault /\ Abort(t) /\ config' \in {config, "user"}
  /\ UNCHANGED <<seen, process>>

\* Enable, or ServePath, which needs the reserved listener, closed or not.
Serve(t) ==
  /\ pc[t] = "serve"
  /\ IF already \/ listener \in {"reserved", "closed"}
     THEN /\ listener' = CASE already -> listener
                            [] listener = "reserved" -> "serving"
                            [] OTHER -> "closing"
          /\ enabled' = TRUE
          /\ Goto(t, "apply")
          /\ UNCHANGED <<mu, already, running, background>>
     ELSE Abort(t)
  /\ UNCHANGED <<seen, config, process, faulted>>

\* ApplyTargets; one that fails may have failed to roll back, too.
Apply(t) ==
  /\ pc[t] = "apply"
  /\ \/ Goto(t, "run") /\ config' = "ours" /\ UNCHANGED faulted
     \/ Fault /\ Goto(t, "fallback") /\ config' \in {config, "left"}
  /\ UNCHANGED <<mu, seen, running, server, background, process>>

Fallback(t) ==
  /\ pc[t] = "fallback"
  /\ \/ config' = "user" /\ UNCHANGED faulted
     \/ Fault /\ UNCHANGED config
  /\ Abort(t)
  /\ UNCHANGED <<seen, process>>

\* A generation nobody has any business with.
Unused(g) == g # bg /\ (\A w \in Worker : worker[g][w] = "gone") /\ (\A t \in Thread : seen[t] # g)

\* startBackgroundWorkersLocked: a context that is live is kept.
StartWorkers ==
  IF bg # 0 /\ bg \notin cancelled
  THEN UNCHANGED background
  ELSE \E g \in Gen :
         /\ Unused(g) /\ \A h \in 1..(g - 1) : ~Unused(h)
         /\ bg' = g /\ cancelled' = cancelled \ {g}
         /\ worker' = [worker EXCEPT ![g] = [w \in Worker |-> "idle"]]

Run(t) ==
  /\ pc[t] = "run"
  /\ running' = TRUE /\ StartWorkers
  /\ mu' = Free /\ Goto(t, "idle")
  /\ UNCHANGED <<seen, server, config, process, faulted>>

-----------------------------------------------------------------------------
(* Stop, and Shutdown around it.                                           *)

Workers == {gw \in Gen \X Worker : worker[gw[1]][gw[2]] # "gone"}

\* Stop looks whether there is anything to stop.
StopCheck(t) ==
  /\ pc[t] = "stopCheck" /\ mu = Free
  /\ IF running THEN Goto(t, "cancel") /\ UNCHANGED process ELSE StopReturns(t, TRUE)
  /\ UNCHANGED <<mu, seen, running, server, config, background, faulted>>

\* stopBackgroundWorkers, called by Stop (1) and by Shutdown (2) ...
In(t, first, second) == pc[t] \in {first, second}
Further(t, first, to1, to2) == Goto(t, IF pc[t] = first THEN to1 ELSE to2)

\* Mutant: the workers are awaited but never told to stop.
CancelForgotten(t) ==
  /\ In(t, "cancel", "cancel2")
  /\ IF bg = 0
     THEN Further(t, "cancel", "stopLock", "mark") /\ UNCHANGED seen
     ELSE seen' = [seen EXCEPT ![t] = bg] /\ Further(t, "cancel", "join", "join2")
  /\ UNCHANGED <<mu, running, server, config, background, process, faulted>>

\* ... cancels the generation it finds, if any, ...
Cancel(t) ==
  /\ In(t, "cancel", "cancel2")
  /\ IF bg = 0
     THEN Further(t, "cancel", "stopLock", "mark") /\ UNCHANGED <<seen, cancelled>>
     ELSE /\ seen' = [seen EXCEPT ![t] = bg] /\ cancelled' = cancelled \cup {bg}
          /\ Further(t, "cancel", "join", "join2")
  /\ UNCHANGED <<mu, running, server, config, bg, worker, process, faulted>>

\* ... waits for the group, which counts the workers of all generations, ...
Join(t) ==
  /\ In(t, "join", "join2")
  /\ IF Workers = {}
     THEN Further(t, "join", "clear", "clear2")
     ELSE Further(t, "join", "parked", "parked2")
  /\ UNCHANGED <<mu, seen, running, server, config, background, process, faulted>>

\* (Wait returns; a group that was used again meanwhile panics)
Woken(t) ==
  /\ In(t, "woken", "woken2")
  /\ IF Workers = {}
     THEN Further(t, "woken", "clear", "clear2") /\ UNCHANGED process
     ELSE status' = "panicked" /\ UNCHANGED <<pc, busy, loop, exitAsked>>
  /\ UNCHANGED <<mu, seen, running, server, config, background, faulted>>

\* Mutant: the fields are cleared whatever generation they hold by now.
ClearAlways(t) ==
  /\ In(t, "clear", "clear2")
  /\ Further(t, "clear", "stopLock", "mark")
  /\ bg' = 0
  /\ seen' = [seen EXCEPT ![t] = 0]
  /\ UNCHANGED <<mu, running, server, config, cancelled, worker, process, faulted>>

\* ... and forgets the generation, unless there is a newer one.
Clear(t) ==
  /\ In(t, "clear", "clear2")
  /\ Further(t, "clear", "stopLock", "mark")
  /\ bg' = IF bg = seen[t] THEN 0 ELSE bg
  /\ seen' = [seen EXCEPT ![t] = 0]
  /\ UNCHANGED <<mu, running, server, config, cancelled, worker, process, faulted>>

StopLock(t) ==
  /\ pc[t] = "stopLock" /\ mu = Free
  /\ IF running
     THEN mu' = t /\ Goto(t, "restore") /\ UNCHANGED process
     ELSE StopReturns(t, TRUE) /\ UNCHANGED mu
  /\ UNCHANGED <<seen, running, server, config, background, faulted>>

\* Mutant: the facade refuses before the endpoints are restored.
RestoreDisabled(t) ==
  /\ config' = config /\ enabled' = FALSE /\ Goto(t, "disable")
  /\ UNCHANGED <<mu, listener, already, background, process, faulted>>

\* A stop that cannot restore is deferred, and the workers run again.
Defer(t) ==
  /\ Fault /\ StartWorkers
  /\ mu' = Free /\ StopReturns(t, FALSE)
  /\ UNCHANGED <<config, server>>

\* The endpoints are the user's again, or nobody's.
Restored(t) ==
  /\ config' = "user" /\ Goto(t, "disable")
  /\ UNCHANGED <<mu, server, background, process, faulted>>

Restore(t) ==
  /\ pc[t] = "restore"
  /\ Restored(t) \/ Defer(t)
  /\ UNCHANGED <<seen, running>>

Disable(t) ==
  /\ pc[t] = "disable"
  /\ enabled' = FALSE /\ running' = FALSE
  /\ mu' = Free /\ StopReturns(t, TRUE)
  /\ UNCHANGED <<seen, listener, already, config, background, faulted>>

\* Shutdown gives the App up, whatever Stop came to, ...
Mark(t) ==
  /\ pc[t] = "mark" /\ mu = Free
  /\ running' = FALSE /\ Goto(t, "release")
  /\ UNCHANGED <<mu, seen, server, config, background, process, faulted>>

\* ... and stops the server outside the lock: it refuses, closes, is gone.
Release(t) ==
  /\ pc[t] = "release"
  /\ enabled' = FALSE
  /\ listener' = CASE listener = "serving" -> "closing"
                   [] listener = "reserved" -> "closed"
                   [] OTHER -> listener
  /\ Goto(t, "released")
  /\ UNCHANGED <<mu, seen, running, already, config, background, process, faulted>>

\* Shutdown returns: the loop asks for the exit, the exit callback ends the
\* process.
Released(t) ==
  /\ pc[t] = "released"
  /\ listener' = IF listener \in {"closing", "closed"} THEN "none" ELSE listener
  /\ Goto(t, "idle")
  /\ IF t = "quit"
     THEN exitAsked' = TRUE /\ UNCHANGED status
     ELSE status' = "exited" /\ UNCHANGED exitAsked
  /\ UNCHANGED <<mu, seen, running, already, enabled, config, background, busy, loop, faulted>>

-----------------------------------------------------------------------------
(* The background workers.                                                 *)

\* An observation, or a refresh, is queued, and a worker takes it: it listens on
\* the channel the App has by now, also when it was told to stop and did not
\* look yet.
Observe(g, w) ==
  /\ bg # 0 /\ bg \notin cancelled
  /\ worker[g][w] = "idle"
  /\ worker' = [worker EXCEPT ![g][w] = "busy"]
  /\ UNCHANGED <<mu, pc, seen, running, server, config, bg, cancelled, process, faulted>>

\* applyCapacityObservation takes the lock and rewrites the config of a running
\* App; the refresh worker takes it to record what came of a refresh.
Work(g, w) ==
  /\ worker[g][w] = "busy" /\ mu = Free
  /\ worker' = [worker EXCEPT ![g][w] = "idle"]
  /\ config' = IF running /\ w = "capacity" THEN "ours" ELSE config
  /\ UNCHANGED <<mu, pc, seen, running, server, bg, cancelled, process, faulted>>

\* The last worker to go wakes everybody who waits for the group.
Leave(g, w) ==
  /\ worker[g][w] = "idle" /\ g \in cancelled
  /\ worker' = [worker EXCEPT ![g][w] = "gone"]
  /\ pc' = IF Workers = {<<g, w>>}
           THEN [t \in Thread |-> CASE pc[t] = "parked" -> "woken"
                                    [] pc[t] = "parked2" -> "woken2"
                                    [] OTHER -> pc[t]]
           ELSE pc
  /\ UNCHANGED <<mu, seen, running, server, config, bg, cancelled, process, faulted>>

-----------------------------------------------------------------------------

Starting(t) ==
  StartLock(t) \/ ReserveFails(t) \/ Recover(t) \/ Serve(t) \/ Apply(t) \/ Fallback(t) \/ Run(t)
Halting(t) ==
  \/ StopCheck(t) \/ Cancel(t) \/ Join(t) \/ Woken(t) \/ Clear(t) \/ StopLock(t)
  \/ Restore(t) \/ Disable(t) \/ Mark(t) \/ Release(t) \/ Released(t)
Step(t) == Starting(t) \/ Halting(t)

Next ==
  /\ status = "alive"
  /\ \/ Click \/ Done \/ ClickExit \/ Signal \/ OnExit
     \/ \E t \in Thread : Step(t)
     \/ \E g \in Gen, w \in Worker : Observe(g, w) \/ Work(g, w) \/ Leave(g, w)

Alive(A) == status = "alive" /\ A

Spec == Init /\ [][Next]_vars

\* Goroutines run, workers finish what they do, and a select that finds its
\* context cancelled over and over takes that branch at last.
FairSpec ==
  /\ Spec
  /\ \A t \in Thread : WF_vars(Alive(Step(t)))
  /\ \A g \in Gen, w \in Worker : WF_vars(Alive(Work(g, w)))
  /\ \A w \in Worker : SF_vars(Alive(\E g \in Gen : Leave(g, w)))
  /\ WF_vars(Alive(OnExit)) /\ WF_vars(Alive(Done))

-----------------------------------------------------------------------------

(***************************************************************************)
(* Until the application is told to exit, endpoints that a start projected *)
(* are answered: they are written only after the facade accepts requests   *)
(* and taken back before it refuses them (main.go:576-600, 1270-1320), in  *)
(* whatever way starts, stops and workers overlap.                         *)
(***************************************************************************)
ProjectedIsAnswered ==
  config = "ours" /\ loop /\ ~exitAsked => enabled /\ listener = "serving"

(***************************************************************************)
(* No workers are out of reach: a generation that still runs and was not   *)
(* told to stop is the one the App knows, and the next stop cancels it     *)
(* (stopBackgroundWorkers, main.go:827-847).                               *)
(***************************************************************************)
WorkersInReach ==
  \A g \in Gen : worker[g] # [w \in Worker |-> "gone"] => (g = bg \/ g \in cancelled)

(***************************************************************************)
(* While nothing fails, an operation of the tray ends: a stop that waits   *)
(* for the workers does not hold what they wait for (main.go:1253-1257),   *)
(* also when a signal or Exit stops the App at the same time.              *)
(***************************************************************************)
OperationsEnd ==
  pc["op"] # "idle" ~> (pc["op"] = "idle" \/ faulted \/ status # "alive")

=============================================================================
