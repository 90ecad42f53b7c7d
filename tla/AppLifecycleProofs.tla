-------------------------- MODULE AppLifecycleProofs --------------------------
(***************************************************************************)
(* The safety properties of AppLifecycle, for any number of generations of *)
(* workers and whatever drives the App.                                    *)
(***************************************************************************)
EXTENDS AppLifecycle, TLAPS

\* The workers the App may have, and what threads remember of them.
BackgroundTyped ==
  /\ bg \in Gen \cup {0} /\ cancelled \subseteq Gen
  /\ worker \in [Gen -> [Worker -> {"gone", "idle", "busy"}]]
  /\ seen \in [Thread -> Gen \cup {0}]

\* A generation that a thread waits for was told to stop.
SeenIsCancelled == \A t \in Thread : seen[t] # 0 => seen[t] \in cancelled

BackgroundInv == BackgroundTyped /\ SeenIsCancelled /\ WorkersInReach

\* App.mu is held exactly at the places between its Lock and its Unlock, and only
\* a Shutdown goes on after its Stop.
LockOK ==
  /\ pc \in [Thread -> Label] /\ mu \in Thread \cup {Free}
  /\ \A t \in Thread : pc[t] \in Holding <=> mu = t
  /\ pc["op"] \notin Final /\ pc["sig"] \notin Final

Serving == enabled /\ listener = "serving"

\* What a start under way has got ready by each of its steps, and a stop taken
\* back.
PlaceOK(t) ==
  /\ pc[t] \in {"recover", "serve"} =>
       ~running /\ config # "ours" /\ listener = IF already THEN "serving" ELSE "reserved"
  /\ pc[t] = "apply" => ~running /\ config # "ours" /\ Serving
  /\ pc[t] = "fallback" => ~running /\ config # "ours"
  /\ pc[t] = "run" => Serving
  /\ pc[t] = "disable" => config = "user"

\* Nobody has told the App to exit.
Young == loop /\ ~exitAsked

\* Until then the facade answers for a running App, and projected endpoints are
\* those of one that runs or is about to.
YoungOK ==
  /\ pc["quit"] = "idle" /\ pc["end"] = "idle"
  /\ listener \in {"none", "reserved", "serving"}
  /\ \A t \in Thread : PlaceOK(t)
  /\ running => Serving
  /\ config = "ours" => running \/ \E t \in Thread : pc[t] = "run"

\* The loop of the tray ends in the Exit it runs.
LoopOK == loop => pc["quit"] = "idle"

FacadeInv == LockOK /\ LoopOK /\ (Young => YoungOK)

-----------------------------------------------------------------------------
(* The workers.                                                            *)

\* A generation without workers is what WorkersInReach says of it.
LEMMA GoneMeans ==
  ASSUME BackgroundTyped, NEW g \in Gen
  PROVE  (\A w \in Worker : worker[g][w] = "gone") <=> worker[g] = [w \in Worker |-> "gone"]
  BY DEF BackgroundTyped

\* A step that leaves the workers alone.
LEMMA BackgroundLeft ==
  ASSUME BackgroundInv, UNCHANGED background, UNCHANGED seen
  PROVE  BackgroundInv'
  BY DEF BackgroundInv, BackgroundTyped, SeenIsCancelled, WorkersInReach, background

\* New workers are of a generation nobody has any business with, and are
\* started only when the one the App knows was told to stop
\* (startBackgroundWorkersLocked).
LEMMA StartWorkersKeeps ==
  ASSUME BackgroundInv, StartWorkers, UNCHANGED seen
  PROVE  BackgroundInv'
<1>1. CASE UNCHANGED background
  BY <1>1, BackgroundLeft
<1>2. CASE ~UNCHANGED background
  <2>1. bg = 0 \/ bg \in cancelled
    BY <1>2 DEF StartWorkers
  <2>2. PICK g \in Gen :
          /\ Unused(g) /\ bg' = g /\ cancelled' = cancelled \ {g}
          /\ worker' = [worker EXCEPT ![g] = [w \in Worker |-> "idle"]]
    BY <1>2 DEF StartWorkers
  <2>3. BackgroundTyped'
    BY <2>2 DEF BackgroundInv, BackgroundTyped
  <2>4. SeenIsCancelled'
    BY <2>2 DEF BackgroundInv, SeenIsCancelled, Unused
  <2>5. ASSUME NEW h \in Gen, h # g, worker'[h] # [w \in Worker |-> "gone"]
        PROVE  h \in cancelled'
    <3>1. worker'[h] = worker[h]
      BY <2>2, <2>5 DEF BackgroundInv, BackgroundTyped
    <3>2. h = bg \/ h \in cancelled
      BY <2>5, <3>1 DEF BackgroundInv, WorkersInReach
    <3> QED
      BY <2>1, <2>2, <2>5, <3>2 DEF Gen
  <2>6. WorkersInReach'
    BY <2>2, <2>5 DEF WorkersInReach
  <2> QED
    BY <2>3, <2>4, <2>6 DEF BackgroundInv
<1> QED
  BY <1>1, <1>2

\* Who cancels remembers what it cancelled (stopBackgroundWorkers).
LEMMA CancelKeeps ==
  ASSUME BackgroundInv, NEW t \in Thread, Cancel(t)
  PROVE  BackgroundInv'
<1>1. CASE bg = 0
  BY <1>1, BackgroundLeft DEF Cancel, background
<1>2. CASE bg # 0
  <2>1. seen' = [seen EXCEPT ![t] = bg] /\ cancelled' = cancelled \cup {bg} /\ UNCHANGED <<bg, worker>>
    BY <1>2 DEF Cancel
  <2>2. BackgroundTyped'
    BY <1>2, <2>1 DEF BackgroundInv, BackgroundTyped
  <2>3. SeenIsCancelled'
    BY <2>1 DEF BackgroundInv, BackgroundTyped, SeenIsCancelled
  <2>4. WorkersInReach'
    BY <2>1 DEF BackgroundInv, WorkersInReach
  <2> QED
    BY <2>2, <2>3, <2>4 DEF BackgroundInv
<1> QED
  BY <1>1, <1>2

\* The generation that is forgotten is the one the thread has cancelled.
LEMMA ClearKeeps ==
  ASSUME BackgroundInv, NEW t \in Thread, Clear(t)
  PROVE  BackgroundInv'
<1>1. /\ bg' = IF bg = seen[t] THEN 0 ELSE bg
      /\ seen' = [seen EXCEPT ![t] = 0] /\ UNCHANGED <<cancelled, worker>>
  BY DEF Clear
<1>2. BackgroundTyped'
  BY <1>1 DEF BackgroundInv, BackgroundTyped
<1>3. SeenIsCancelled'
  BY <1>1 DEF BackgroundInv, BackgroundTyped, SeenIsCancelled
<1>4. ASSUME NEW g \in Gen, worker'[g] # [w \in Worker |-> "gone"]
      PROVE  g = bg' \/ g \in cancelled'
  <2>1. g = bg \/ g \in cancelled
    BY <1>1, <1>4 DEF BackgroundInv, WorkersInReach
  <2>2. CASE g = bg /\ bg = seen[t]
    BY <1>1, <2>2 DEF BackgroundInv, SeenIsCancelled, Gen
  <2> QED
    BY <1>1, <2>1, <2>2
<1> QED
  BY <1>2, <1>3, <1>4 DEF BackgroundInv, WorkersInReach

\* A worker that takes something, is done with it or leaves.
LEMMA WorkerMoves ==
  ASSUME BackgroundInv, NEW g \in Gen, NEW w \in Worker, NEW to \in {"gone", "idle", "busy"},
         worker[g][w] # "gone", worker' = [worker EXCEPT ![g][w] = to],
         UNCHANGED <<bg, cancelled, seen>>
  PROVE  BackgroundInv'
<1>1. BackgroundTyped'
  BY DEF BackgroundInv, BackgroundTyped
<1>2. SeenIsCancelled'
  BY DEF BackgroundInv, SeenIsCancelled
<1>3. ASSUME NEW h \in Gen, worker'[h] # [v \in Worker |-> "gone"]
      PROVE  h = bg' \/ h \in cancelled'
  <2>1. CASE h = g
    <3>1. worker[g] # [v \in Worker |-> "gone"]
      OBVIOUS
    <3> QED
      BY <2>1, <3>1 DEF BackgroundInv, WorkersInReach
  <2>2. CASE h # g
    <3>1. worker'[h] = worker[h]
      BY <2>2 DEF BackgroundInv, BackgroundTyped
    <3> QED
      BY <1>3, <3>1 DEF BackgroundInv, WorkersInReach
  <2> QED
    BY <2>1, <2>2
<1> QED
  BY <1>1, <1>2, <1>3 DEF BackgroundInv, WorkersInReach

\* Every step keeps the workers in reach.
LEMMA BackgroundStep == BackgroundInv /\ [Next]_vars => BackgroundInv'
<1> SUFFICES ASSUME BackgroundInv, [Next]_vars PROVE BackgroundInv'
  OBVIOUS
<1>1. ASSUME NEW t \in Thread, Step(t)
      PROVE  BackgroundInv'
  <2>1. CASE StartLock(t) \/ ReserveFails(t) \/ Recover(t) \/ Serve(t) \/ Apply(t) \/ Fallback(t)
    BY <2>1, BackgroundLeft DEF StartLock, ReserveFails, Recover, Serve, Apply, Fallback, Abort, server
  <2>2. CASE Run(t)
    BY <2>2, StartWorkersKeeps DEF Run
  <2>3. CASE Restore(t)
    BY <2>3, StartWorkersKeeps, BackgroundLeft DEF Restore, Restored, Defer
  <2>4. CASE Cancel(t) BY <2>4, CancelKeeps
  <2>5. CASE Clear(t)  BY <2>5, ClearKeeps
  <2>6. CASE StopCheck(t) \/ Join(t) \/ Woken(t) \/ StopLock(t) \/ Disable(t) \/ Mark(t) \/ Release(t) \/ Released(t)
    BY <2>6, BackgroundLeft DEF StopCheck, Join, Woken, StopLock, Disable, Mark, Release, Released
  <2> QED
    BY <1>1, <2>1, <2>2, <2>3, <2>4, <2>5, <2>6 DEF Step, Starting, Halting
<1>2. ASSUME NEW g \in Gen, NEW w \in Worker, Observe(g, w) \/ Work(g, w) \/ Leave(g, w)
      PROVE  BackgroundInv'
  BY <1>2, WorkerMoves DEF Observe, Work, Leave
<1>3. CASE Click \/ Done \/ ClickExit \/ Signal \/ OnExit
  BY <1>3, BackgroundLeft DEF Click, Done, ClickExit, Signal, OnExit
<1>4. CASE UNCHANGED vars
  BY <1>4, BackgroundLeft DEF vars, background
<1> QED
  BY <1>1, <1>2, <1>3, <1>4 DEF Next

\* At the start there are no workers.
LEMMA BackgroundInit == Init => BackgroundInv
BY DEF Init, BackgroundInv, BackgroundTyped, SeenIsCancelled, WorkersInReach

\* Workers that run are always the ones the next stop will cancel, or cancelled
\* already, however starts and stops overlap (stopBackgroundWorkers).
THEOREM NoWorkersLost == Spec => []WorkersInReach
<1>1. BackgroundInv => WorkersInReach
  BY DEF BackgroundInv
<1> QED
  BY <1>1, BackgroundInit, BackgroundStep, PTL DEF Spec

-----------------------------------------------------------------------------
(* The facade and the endpoints in config.toml.                            *)

\* A step that moves one thread between places that are not under the lock, and
\* not in a Shutdown's second half unless it is a Shutdown.
LEMMA LockLeft ==
  ASSUME LockOK, NEW t \in Thread, NEW to \in Label, pc' = [pc EXCEPT ![t] = to], mu' = mu,
         pc[t] \in Holding <=> to \in Holding, t \in {"op", "sig"} => to \notin Final
  PROVE  LockOK'
  BY DEF LockOK

\* The lock is taken.
LEMMA LockTaken ==
  ASSUME LockOK, NEW t \in Thread, NEW to \in Label, pc' = [pc EXCEPT ![t] = to],
         mu = Free, mu' = t, to \in Holding
  PROVE  LockOK'
<1>1. \A u \in Thread : pc[u] \notin Holding
  BY DEF LockOK, Thread, Free
<1> QED
  BY <1>1 DEF LockOK, Holding, Final

\* The lock is given back.
LEMMA LockReturned ==
  ASSUME LockOK, NEW t \in Thread, NEW to \in Label, pc' = [pc EXCEPT ![t] = to],
         pc[t] \in Holding, mu' = Free, to \notin Holding, t \in {"op", "sig"} => to \notin Final
  PROVE  LockOK'
  BY DEF LockOK, Thread, Free

\* Where Stop returns to.
LEMMA ReturnsTo ==
  ASSUME LockOK, NEW t \in Thread, NEW ok, StopReturns(t, ok)
  PROVE  \E to \in Label :
           /\ pc' = [pc EXCEPT ![t] = to]
           /\ to \notin Holding /\ (t \in {"op", "sig"} => to \notin Final)
<1> DEFINE to == IF t \in {"quit", "end"} THEN "cancel2" ELSE "idle"
<1>1. to \in Label /\ to \notin Holding /\ (t \in {"op", "sig"} => to \notin Final)
  BY DEF Label, Holding, Stopping, Final
<1>2. pc' = [pc EXCEPT ![t] = to]
  BY DEF StopReturns, Goto
<1> QED
  BY <1>1, <1>2

\* A thread that takes a step is not idle, and moves itself alone.
LEMMA StepMoves ==
  ASSUME LockOK, NEW t \in Thread, Step(t)
  PROVE  /\ pc[t] # "idle" /\ UNCHANGED loop
         /\ \A u \in Thread \ {t} : pc'[u] = pc[u]
<1> USE DEF LockOK, Goto, Abort
<1>1. CASE Starting(t)
  BY <1>1 DEF Starting, StartLock, ReserveFails, Recover, Serve, Apply, Fallback, Run, process
<1>2. CASE StopCheck(t) \/ StopLock(t) \/ Restore(t) \/ Disable(t)
  BY <1>2 DEF StopCheck, StopLock, Restore, Restored, Defer, Disable, StopReturns, process
<1>3. CASE Cancel(t) \/ Join(t) \/ Woken(t) \/ Clear(t)
  BY <1>3 DEF Cancel, Join, Woken, Clear, In, Further, process
<1>4. CASE Mark(t) \/ Release(t) \/ Released(t)
  BY <1>4 DEF Mark, Release, Released, process
<1> QED
  BY <1>1, <1>2, <1>3, <1>4 DEF Step, Halting

\* A worker that leaves wakes who waits, and moves nobody else.
LEMMA LeaveMoves ==
  ASSUME LockOK, NEW g \in Gen, NEW w \in Worker, Leave(g, w)
  PROVE  /\ pc' \in [Thread -> Label]
         /\ \A t \in Thread :
              \/ pc'[t] = pc[t]
              \/ (pc[t] = "parked" /\ pc'[t] = "woken")
              \/ (pc[t] = "parked2" /\ pc'[t] = "woken2")
<1>1. CASE pc' = pc
  BY <1>1 DEF LockOK
<1>2. CASE pc' # pc
  <2>1. pc' = [t \in Thread |-> CASE pc[t] = "parked" -> "woken"
                                 [] pc[t] = "parked2" -> "woken2"
                                 [] OTHER -> pc[t]]
    BY <1>2 DEF Leave
  <2> QED
    BY <2>1 DEF LockOK, Label, Stopping, Final
<1> QED
  BY <1>1, <1>2

\* The loop of the tray runs Exit itself, once.
LEMMA LoopStep == LockOK /\ LoopOK /\ [Next]_vars => LoopOK'
<1> SUFFICES ASSUME LockOK, LoopOK, [Next]_vars PROVE LoopOK'
  OBVIOUS
<1>0. "quit" \in Thread
  BY DEF Thread
<1>1. ASSUME NEW t \in Thread, Step(t)
      PROVE  LoopOK'
  BY <1>0, <1>1, StepMoves DEF LoopOK
<1>2. CASE Click \/ Done \/ ClickExit \/ Signal \/ OnExit
  <2>1. CASE Click
    BY <1>0, <2>1 DEF Click, Goto, LockOK, LoopOK
  <2>2. CASE Signal \/ OnExit
    BY <1>0, <2>2 DEF Signal, OnExit, Goto, LockOK, LoopOK, process
  <2>3. CASE Done \/ ClickExit
    BY <2>3 DEF Done, ClickExit, LoopOK
  <2> QED
    BY <1>2, <2>1, <2>2, <2>3
<1>3. ASSUME NEW g \in Gen, NEW w \in Worker, Observe(g, w) \/ Work(g, w) \/ Leave(g, w)
      PROVE  LoopOK'
  <2>1. CASE Observe(g, w) \/ Work(g, w)
    BY <2>1 DEF Observe, Work, LoopOK, process
  <2>2. CASE Leave(g, w)
    BY <1>0, <2>2, LeaveMoves DEF Leave, LoopOK, process
  <2> QED
    BY <1>3, <2>1, <2>2
<1>4. CASE UNCHANGED vars
  BY <1>4 DEF vars, process, LoopOK
<1> QED
  BY <1>1, <1>2, <1>3, <1>4 DEF Next

\* Every step goes by the lock.
LEMMA LockStep == LockOK /\ LoopOK /\ [Next]_vars => LockOK'
<1> SUFFICES ASSUME LockOK, LoopOK, [Next]_vars PROVE LockOK'
  OBVIOUS
<1> USE DEF Goto
<1>0. \A t \in Thread : mu = t => mu # Free
  BY DEF Thread, Free
<1>1. ASSUME NEW t \in Thread, Starting(t)
      PROVE  LockOK'
  <2> USE DEF Label, Holding, Stopping, Final
  <2>1. CASE StartLock(t)
    <3>1. CASE running
      BY <2>1, <3>1, <1>0, LockLeft DEF StartLock
    <3>2. CASE ~running
      BY <2>1, <3>2, LockTaken DEF StartLock
    <3> QED
      BY <3>1, <3>2
  <2>2. CASE ReserveFails(t)
    BY <2>2, LockLeft DEF ReserveFails
  <2>3. CASE Recover(t)
    BY <2>3, LockLeft, LockReturned DEF Recover, Abort
  <2>4. CASE Serve(t)
    BY <2>4, LockLeft, LockReturned DEF Serve, Abort
  <2>5. CASE Apply(t)
    BY <2>5, LockLeft DEF Apply
  <2>6. CASE Fallback(t)
    BY <2>6, LockReturned DEF Fallback, Abort
  <2>7. CASE Run(t)
    BY <2>7, LockReturned DEF Run
  <2> QED
    BY <1>1, <2>1, <2>2, <2>3, <2>4, <2>5, <2>6, <2>7 DEF Starting
<1>2. ASSUME NEW t \in Thread, Halting(t)
      PROVE  LockOK'
  <2>1. CASE StopCheck(t)
    <3>1. CASE running
      BY <2>1, <3>1, LockLeft DEF StopCheck, Label, Holding, Stopping, Final
    <3>2. CASE ~running
      <4>1. PICK to \in Label :
              /\ pc' = [pc EXCEPT ![t] = to]
              /\ to \notin Holding /\ (t \in {"op", "sig"} => to \notin Final)
        BY <2>1, <3>2, ReturnsTo DEF StopCheck
      <4> QED
        BY <2>1, <4>1, LockLeft DEF StopCheck, Holding
    <3> QED
      BY <3>1, <3>2
  <2>2. ASSUME pc' = pc, mu' = mu
        PROVE  LockOK'
    BY <2>2 DEF LockOK
  <2>3. ASSUME NEW first \in Label, NEW second \in Final, NEW to1 \in Stopping \ Holding, NEW to2 \in Final,
               first \in Stopping \ Holding,
               In(t, first, second), Further(t, first, to1, to2), mu' = mu
        PROVE  LockOK'
    <3> DEFINE to == IF pc[t] = first THEN to1 ELSE to2
    <3>1. pc' = [pc EXCEPT ![t] = to] /\ to \in Label
      BY <2>3 DEF Further, Label
    <3>2. pc[t] \notin Holding /\ to \notin Holding
      BY <2>3 DEF In, Holding, Stopping, Final
    <3>3. t \in {"op", "sig"} => to \notin Final
      BY <2>3 DEF In, LockOK, Stopping, Final, Holding
    <3> HIDE DEF to
    <3> QED
      BY <2>3, <3>1, <3>2, <3>3, LockLeft
  <2> USE DEF Label, Holding, Stopping, Final
  <2>4. CASE Cancel(t) BY <2>3, <2>4 DEF Cancel
  <2>5. CASE Join(t)   BY <2>3, <2>5 DEF Join
  <2>6. CASE Woken(t)  BY <2>2, <2>3, <2>6 DEF Woken
  <2>7. CASE Clear(t)  BY <2>3, <2>7 DEF Clear
  <2>8. CASE StopLock(t)
    <3>1. CASE running
      BY <2>8, <3>1, LockTaken DEF StopLock
    <3>2. CASE ~running
      <4>1. PICK to \in Label :
              /\ pc' = [pc EXCEPT ![t] = to]
              /\ to \notin Holding /\ (t \in {"op", "sig"} => to \notin Final)
        BY <2>8, <3>2, ReturnsTo DEF StopLock
      <4> QED
        BY <2>8, <3>2, <4>1, LockLeft DEF StopLock
    <3> QED
      BY <3>1, <3>2
  <2>9. CASE Restore(t)
    <3>1. CASE Restored(t)
      BY <2>9, <3>1, LockLeft DEF Restore, Restored
    <3>2. CASE Defer(t)
      <4>1. PICK to \in Label :
              /\ pc' = [pc EXCEPT ![t] = to]
              /\ to \notin Holding /\ (t \in {"op", "sig"} => to \notin Final)
        BY <3>2, ReturnsTo DEF Defer
      <4> QED
        BY <2>9, <3>2, <4>1, LockReturned DEF Restore, Defer
    <3> QED
      BY <2>9, <3>1, <3>2 DEF Restore
  <2>10. CASE Disable(t)
    <3>1. PICK to \in Label :
            /\ pc' = [pc EXCEPT ![t] = to]
            /\ to \notin Holding /\ (t \in {"op", "sig"} => to \notin Final)
      BY <2>10, ReturnsTo DEF Disable
    <3> QED
      BY <2>10, <3>1, LockReturned DEF Disable
  <2>11. CASE Mark(t)
    <3>1. t \notin {"op", "sig"}
      BY <2>11 DEF Mark, LockOK
    <3> QED
      BY <2>11, <3>1, LockLeft DEF Mark
  <2>12. CASE Release(t)
    <3>1. t \notin {"op", "sig"}
      BY <2>12 DEF Release, LockOK
    <3> QED
      BY <2>12, <3>1, LockLeft DEF Release
  <2>13. CASE Released(t)
    BY <2>13, LockLeft DEF Released
  <2> QED
    BY <1>2, <2>1, <2>4, <2>5, <2>6, <2>7, <2>8, <2>9, <2>10, <2>11, <2>12, <2>13 DEF Halting
<1>3. CASE Click
  <2>1. "op" \in Thread
    BY DEF Thread
  <2> QED
    BY <1>3, <2>1, LockLeft DEF Click, Label, Holding, Stopping, Final
<1>4. CASE ClickExit \/ Signal \/ OnExit
  <2>1. PICK t \in {"quit", "sig", "end"} :
          pc[t] = "idle" /\ pc' = [pc EXCEPT ![t] = "stopCheck"] /\ mu' = mu
    BY <1>4 DEF ClickExit, Signal, OnExit, LoopOK
  <2> QED
    BY <2>1, LockLeft DEF Thread, Label, Holding, Stopping, Final
<1>5. CASE Done \/ UNCHANGED vars
  BY <1>5 DEF Done, vars, LockOK
<1>6. ASSUME NEW g \in Gen, NEW w \in Worker, Observe(g, w) \/ Work(g, w) \/ Leave(g, w)
      PROVE  LockOK'
  <2>1. CASE Observe(g, w) \/ Work(g, w)
    BY <2>1 DEF Observe, Work, LockOK
  <2>2. CASE Leave(g, w)
    <3>1. \A t \in Thread :
            /\ pc'[t] \in Holding <=> pc[t] \in Holding
            /\ pc'[t] \in Final <=> pc[t] \in Final
      BY <2>2, LeaveMoves DEF Holding, Final
    <3>2. pc' \in [Thread -> Label] /\ mu' = mu /\ "op" \in Thread /\ "sig" \in Thread
      BY <2>2, LeaveMoves DEF Leave, Thread
    <3> QED
      BY <3>1, <3>2 DEF LockOK
  <2> QED
    BY <1>6, <2>1, <2>2
<1> QED
  BY <1>1, <1>2, <1>3, <1>4, <1>5, <1>6 DEF Next, Step

\* Who holds the lock, or finds it free, is alone at the places under it.
LEMMA Alone ==
  ASSUME LockOK, NEW t \in Thread, pc[t] \in Holding \/ mu = Free, NEW u \in Thread, u # t
  PROVE  pc[u] \notin Holding
  BY DEF LockOK, Thread, Free

\* A step under the lock.
LEMMA UnderLock ==
  ASSUME LockOK, YoungOK, NEW t \in Thread \ {"quit", "end"}, NEW to,
         pc[t] \in Holding \/ mu = Free, pc' = [pc EXCEPT ![t] = to],
         listener' \in {"none", "reserved", "serving"}, PlaceOK(t)',
         running' => Serving', config' = "ours" => running' \/ to = "run"
  PROVE  YoungOK'
<1>1. pc'[t] = to /\ \A u \in Thread \ {t} : pc'[u] = pc[u]
  BY DEF LockOK
<1>2. pc'["quit"] = "idle" /\ pc'["end"] = "idle"
  BY <1>1 DEF YoungOK, Thread
<1>3. \A u \in Thread : PlaceOK(u)'
  BY <1>1, Alone DEF PlaceOK, Holding
<1> QED
  BY <1>1, <1>2, <1>3 DEF YoungOK

\* A step outside it that touches neither the facade nor the endpoints.
LEMMA OutsideLock ==
  ASSUME LockOK, YoungOK, NEW t \in Thread \ {"quit", "end"}, NEW to \in Label,
         pc' = [pc EXCEPT ![t] = to], pc[t] # "run",
         to \notin {"recover", "serve", "apply", "fallback", "run", "disable"},
         UNCHANGED running, UNCHANGED server, UNCHANGED config
  PROVE  YoungOK'
<1>1. pc'[t] = to /\ \A u \in Thread \ {t} : pc'[u] = pc[u]
  BY DEF LockOK
<1>2. pc'["quit"] = "idle" /\ pc'["end"] = "idle"
  BY <1>1 DEF YoungOK, Thread
<1>3. \A u \in Thread : PlaceOK(u)'
  BY <1>1 DEF YoungOK, PlaceOK, Serving, server
<1>4. config' = "ours" => running' \/ \E u \in Thread : pc'[u] = "run"
  BY <1>1 DEF YoungOK
<1> QED
  BY <1>2, <1>3, <1>4 DEF YoungOK, Serving, server

\* Nobody tells the App to go on after an Exit.
LEMMA StaysYoung == [Next]_vars /\ Young' => Young
<1> SUFFICES ASSUME [Next]_vars, Young' PROVE Young
  OBVIOUS
<1> USE DEF process
<1>0. ASSUME UNCHANGED <<loop, exitAsked>>
      PROVE  Young
  BY <1>0 DEF Young
<1>1. ASSUME NEW t \in Thread, Starting(t)
      PROVE  Young
  <2>1. UNCHANGED <<loop, exitAsked>>
    BY <1>1 DEF Starting, StartLock, ReserveFails, Recover, Serve, Apply, Fallback, Run
  <2> QED
    BY <1>0, <2>1
<1>2. ASSUME NEW t \in Thread, Halting(t)
      PROVE  Young
  <2>1. CASE StopCheck(t) \/ StopLock(t) \/ Restore(t) \/ Disable(t)
    BY <2>1 DEF Young, StopCheck, StopLock, Restore, Restored, Defer, Disable, StopReturns
  <2>2. CASE Cancel(t) \/ Join(t) \/ Woken(t) \/ Clear(t)
    <3>1. UNCHANGED <<loop, exitAsked>>
      BY <2>2 DEF Cancel, Join, Woken, Clear
    <3> QED
      BY <1>0, <3>1
  <2>3. CASE Mark(t) \/ Release(t) \/ Released(t)
    BY <2>3 DEF Young, Mark, Release, Released
  <2> QED
    BY <1>2, <2>1, <2>2, <2>3 DEF Halting
<1>3. CASE Click \/ Done \/ Signal \/ OnExit
  <2>1. UNCHANGED <<loop, exitAsked>>
    BY <1>3 DEF Click, Done, Signal, OnExit
  <2> QED
    BY <1>0, <2>1
<1>4. ~ClickExit
  BY DEF ClickExit, Young
<1>5. ASSUME NEW g \in Gen, NEW w \in Worker, Observe(g, w) \/ Work(g, w) \/ Leave(g, w)
      PROVE  Young
  <2>1. UNCHANGED <<loop, exitAsked>>
    BY <1>5 DEF Observe, Work, Leave
  <2> QED
    BY <1>0, <2>1
<1>6. CASE UNCHANGED vars
  BY <1>0, <1>6 DEF vars
<1> QED
  BY <1>1, <1>2, <1>3, <1>4, <1>5, <1>6 DEF Next, Step

\* A start that finds the lock free, or holds it, prepares the facade before it
\* projects the endpoints (Start).
LEMMA YoungStarts ==
  ASSUME LockOK, YoungOK, NEW t \in Thread \ {"quit", "end"}, Starting(t)
  PROVE  YoungOK'
<1> USE DEF Goto, Label, Holding
<1>1. CASE StartLock(t)
  <2>1. /\ pc[t] = "startLock" /\ mu = Free
        /\ already' = (listener \in {"serving", "closing"}) /\ UNCHANGED <<enabled, running, config>>
    BY <1>1 DEF StartLock
  <2>2. \A u \in Thread : pc[u] # "run"
    BY <2>1, Alone
  <2>3. CASE running
    <3>1. pc' = [pc EXCEPT ![t] = "idle"] /\ UNCHANGED listener
      BY <1>1, <2>3 DEF StartLock
    <3>2. PlaceOK(t)'
      BY <3>1 DEF PlaceOK, LockOK
    <3> QED
      BY <2>1, <2>3, <3>1, <3>2, UnderLock DEF YoungOK, Serving
  <2>4. CASE ~running
    <3>1. /\ pc' = [pc EXCEPT ![t] = "recover"]
          /\ listener' = IF already' THEN listener ELSE "reserved"
      BY <1>1, <2>4 DEF StartLock
    <3>2. config # "ours"
      BY <2>2, <2>4 DEF YoungOK
    <3>3. listener' = IF already' THEN "serving" ELSE "reserved"
      BY <2>1, <3>1 DEF YoungOK
    <3>4. PlaceOK(t)'
      BY <2>1, <2>4, <3>1, <3>2, <3>3 DEF PlaceOK, LockOK
    <3> QED
      BY <2>1, <2>4, <3>1, <3>2, <3>3, <3>4, UnderLock
  <2> QED
    BY <2>3, <2>4
<1>2. CASE ReserveFails(t)
  <2>1. /\ pc[t] = "startLock" /\ mu = Free /\ ~running
        /\ pc' = [pc EXCEPT ![t] = "idle"] /\ UNCHANGED <<running, listener, config>>
    BY <1>2 DEF ReserveFails
  <2>2. \A u \in Thread : pc[u] # "run"
    BY <2>1, Alone
  <2>3. PlaceOK(t)'
    BY <2>1 DEF PlaceOK, LockOK
  <2> QED
    BY <2>1, <2>2, <2>3, UnderLock DEF YoungOK
<1>3. CASE Recover(t)
  <2>1. pc[t] = "recover" /\ UNCHANGED <<running, already>>
    BY <1>3 DEF Recover, Abort, server
  <2>2. /\ ~running /\ config # "ours"
        /\ listener = IF already THEN "serving" ELSE "reserved"
    BY <2>1 DEF YoungOK, PlaceOK
  <2>3. CASE pc' = [pc EXCEPT ![t] = "serve"] /\ config' = "user" /\ UNCHANGED server
    <3>1. PlaceOK(t)'
      BY <2>1, <2>2, <2>3 DEF PlaceOK, LockOK, server
    <3> QED
      BY <2>1, <2>2, <2>3, <3>1, UnderLock DEF YoungOK, server
  <2>4. CASE Abort(t) /\ config' \in {config, "user"}
    <3>1. pc' = [pc EXCEPT ![t] = "idle"] /\ listener' \in {"none", "serving"} /\ config' # "ours"
      BY <2>2, <2>4 DEF Abort
    <3>2. PlaceOK(t)'
      BY <3>1 DEF PlaceOK, LockOK
    <3> QED
      BY <2>1, <2>2, <3>1, <3>2, UnderLock
  <2> QED
    BY <1>3, <2>3, <2>4 DEF Recover
<1>4. CASE Serve(t)
  <2>1. pc[t] = "serve" /\ UNCHANGED <<running, already, config>>
    BY <1>4 DEF Serve, Abort
  <2>2. /\ ~running /\ config # "ours"
        /\ listener = IF already THEN "serving" ELSE "reserved"
    BY <2>1 DEF YoungOK, PlaceOK
  <2>3. /\ listener' = "serving" /\ enabled' = TRUE
        /\ pc' = [pc EXCEPT ![t] = "apply"]
    BY <1>4, <2>2 DEF Serve
  <2>4. PlaceOK(t)'
    BY <2>1, <2>2, <2>3 DEF PlaceOK, LockOK, Serving
  <2> QED
    BY <2>1, <2>2, <2>3, <2>4, UnderLock
<1>5. CASE Apply(t)
  <2>1. pc[t] = "apply" /\ UNCHANGED <<running, listener, already, enabled>>
    BY <1>5 DEF Apply, server
  <2>2. ~running /\ config # "ours" /\ Serving
    BY <2>1 DEF YoungOK, PlaceOK
  <2>3. CASE pc' = [pc EXCEPT ![t] = "run"]
    <3>1. PlaceOK(t)'
      BY <2>1, <2>2, <2>3 DEF PlaceOK, LockOK, Serving
    <3> QED
      BY <2>1, <2>2, <2>3, <3>1, UnderLock DEF Serving
  <2>4. CASE pc' = [pc EXCEPT ![t] = "fallback"] /\ config' \in {config, "left"}
    <3>1. PlaceOK(t)'
      BY <2>1, <2>2, <2>4 DEF PlaceOK, LockOK, Serving
    <3> QED
      BY <2>1, <2>2, <2>4, <3>1, UnderLock DEF Serving
  <2> QED
    BY <1>5, <2>3, <2>4 DEF Apply
<1>6. CASE Fallback(t)
  <2>1. pc[t] = "fallback" /\ UNCHANGED running /\ config' \in {config, "user"} /\ Abort(t)
    BY <1>6 DEF Fallback, Abort
  <2>2. ~running /\ config # "ours" /\ listener \in {"none", "reserved", "serving"}
    BY <2>1 DEF YoungOK, PlaceOK
  <2>3. pc' = [pc EXCEPT ![t] = "idle"] /\ listener' \in {"none", "serving"} /\ config' # "ours"
    BY <2>1, <2>2 DEF Abort
  <2>4. PlaceOK(t)'
    BY <2>3 DEF PlaceOK, LockOK
  <2> QED
    BY <2>1, <2>2, <2>3, <2>4, UnderLock
<1>7. CASE Run(t)
  <2>1. /\ pc[t] = "run" /\ running' = TRUE /\ pc' = [pc EXCEPT ![t] = "idle"]
        /\ UNCHANGED <<listener, enabled, config>>
    BY <1>7 DEF Run, server
  <2>2. Serving
    BY <2>1 DEF YoungOK, PlaceOK
  <2>3. PlaceOK(t)'
    BY <2>1 DEF PlaceOK, LockOK
  <2> QED
    BY <2>1, <2>2, <2>3, UnderLock DEF Serving
<1> QED
  BY <1>1, <1>2, <1>3, <1>4, <1>5, <1>6, <1>7 DEF Starting

\* A stop takes the endpoints back before the facade refuses (Stop), and only
\* a Shutdown goes further.
LEMMA YoungStops ==
  ASSUME LockOK, YoungOK, NEW t \in Thread \ {"quit", "end"}, Halting(t)
  PROVE  YoungOK'
<1> USE DEF Goto, Label, Holding, Stopping, Final
<1>0. pc[t] \notin Final
  BY DEF LockOK, Thread
<1>1. CASE StopCheck(t)
  BY <1>1, OutsideLock DEF StopCheck, StopReturns
<1>2. CASE Cancel(t)
  BY <1>0, <1>2, OutsideLock DEF Cancel, In, Further
<1>3. CASE Join(t)
  BY <1>0, <1>3, OutsideLock DEF Join, In, Further
<1>4. CASE Woken(t)
  <2>1. CASE pc' = pc
    BY <1>4, <2>1 DEF Woken, YoungOK, PlaceOK, Serving, server
  <2>2. CASE pc' = [pc EXCEPT ![t] = "clear"]
    BY <1>4, <2>2, OutsideLock DEF Woken, In
  <2> QED
    BY <1>0, <1>4, <2>1, <2>2 DEF Woken, In, Further
<1>5. CASE Clear(t)
  BY <1>0, <1>5, OutsideLock DEF Clear, In, Further
<1>6. CASE StopLock(t)
  BY <1>6, OutsideLock DEF StopLock, StopReturns
<1>7. CASE Restore(t)
  <2>1. CASE Restored(t)
    <3>1. /\ pc[t] = "restore" /\ pc' = [pc EXCEPT ![t] = "disable"] /\ config' = "user"
          /\ UNCHANGED <<running, listener, enabled>>
      BY <1>7, <2>1 DEF Restore, Restored, server
    <3>2. PlaceOK(t)'
      BY <3>1 DEF PlaceOK, LockOK
    <3> QED
      BY <3>1, <3>2, UnderLock DEF YoungOK, Serving
  <2>2. CASE Defer(t)
    BY <1>7, <2>2, OutsideLock DEF Restore, Defer, StopReturns
  <2> QED
    BY <1>7, <2>1, <2>2 DEF Restore
<1>8. CASE Disable(t)
  <2>1. /\ pc[t] = "disable" /\ pc' = [pc EXCEPT ![t] = "idle"] /\ running' = FALSE
        /\ UNCHANGED <<listener, config>>
    BY <1>8 DEF Disable, StopReturns
  <2>2. config = "user"
    BY <2>1 DEF YoungOK, PlaceOK
  <2>3. PlaceOK(t)'
    BY <2>1 DEF PlaceOK, LockOK
  <2> QED
    BY <2>1, <2>2, <2>3, UnderLock DEF YoungOK
<1>9. ~(Mark(t) \/ Release(t) \/ Released(t))
  BY <1>0 DEF Mark, Release, Released
<1> QED
  BY <1>1, <1>2, <1>3, <1>4, <1>5, <1>6, <1>7, <1>8, <1>9 DEF Halting

\* Until somebody tells the App to exit, the facade and the endpoints go together.
LEMMA YoungStep ==
  ASSUME LockOK, LoopOK, YoungOK, [Next]_vars, Young'
  PROVE  YoungOK'
<1>0. "op" \in Thread \ {"quit", "end"} /\ "sig" \in Thread \ {"quit", "end"}
  BY DEF Thread
<1>1. ASSUME NEW t \in Thread, Step(t)
      PROVE  YoungOK'
  <2>1. t \notin {"quit", "end"}
    BY <1>1, StepMoves DEF YoungOK
  <2> QED
    BY <1>1, <2>1, YoungStarts, YoungStops DEF Step
<1>2. ASSUME pc' = pc, UNCHANGED running, UNCHANGED server, UNCHANGED config
      PROVE  YoungOK'
  BY <1>2 DEF YoungOK, PlaceOK, Serving, server
<1>3. CASE Click
  BY <1>0, <1>3, OutsideLock DEF Click, Goto, Label
<1>4. CASE Signal
  BY <1>0, <1>4, OutsideLock DEF Signal, Goto, Label, Stopping
<1>5. CASE Done
  BY <1>2, <1>5 DEF Done
<1>6. ~ClickExit /\ ~OnExit
  BY StaysYoung DEF ClickExit, OnExit, Young
<1>7. ASSUME NEW g \in Gen, NEW w \in Worker, Observe(g, w) \/ Work(g, w) \/ Leave(g, w)
      PROVE  YoungOK'
  <2>1. CASE Observe(g, w)
    BY <1>2, <2>1 DEF Observe
  <2>2. CASE Work(g, w)
    <3>1. /\ mu = Free /\ config' \in {config, "ours"} /\ (config' # config => running)
          /\ UNCHANGED <<pc, running, listener, already, enabled>>
      BY <2>2 DEF Work, server
    <3>2. \A u \in Thread : pc[u] \notin Holding
      BY <3>1 DEF LockOK, Thread, Free
    <3> QED
      BY <3>1, <3>2 DEF YoungOK, PlaceOK, Serving, Holding
  <2>3. CASE Leave(g, w)
    <3>1. UNCHANGED <<running, listener, already, enabled, config>>
      BY <2>3 DEF Leave, server
    <3>2. \A t \in Thread :
            pc'[t] = pc[t] \/ (pc[t] \in {"parked", "parked2"} /\ pc'[t] \in {"woken", "woken2"})
      BY <2>3, LeaveMoves
    <3> QED
      BY <3>1, <3>2 DEF YoungOK, PlaceOK, Serving, Thread
  <2> QED
    BY <1>7, <2>1, <2>2, <2>3
<1>8. CASE UNCHANGED vars
  BY <1>2, <1>8 DEF vars, server
<1> QED
  BY <1>1, <1>3, <1>4, <1>5, <1>6, <1>7, <1>8 DEF Next

\* At the start nothing is projected, or by an earlier process.
LEMMA FacadeInit == Init => FacadeInv
BY DEF Init, FacadeInv, LockOK, LoopOK, Young, YoungOK, PlaceOK, Thread, Free, Label, Holding, Final

\* Every step of an App keeps its facade and its endpoints together.
LEMMA FacadeStep == FacadeInv /\ [Next]_vars => FacadeInv'
BY LockStep, LoopStep, StaysYoung, YoungStep DEF FacadeInv

\* Endpoints that a start projected are answered until the application is told
\* to exit (Start, Stop, Shutdown).
THEOREM EndpointsAnswered == Spec => []ProjectedIsAnswered
<1>1. FacadeInv => ProjectedIsAnswered
  BY DEF FacadeInv, Young, YoungOK, PlaceOK, Serving, ProjectedIsAnswered
<1> QED
  BY <1>1, FacadeInit, FacadeStep, PTL DEF Spec
===============================================================================
