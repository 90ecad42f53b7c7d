-------------------------------- MODULE Workers --------------------------------
(***************************************************************************)
(* What the proxy learns of its models' capacities, and how it reaches      *)
(* config.toml and the open sessions: the requests' observations, the      *)
(* queue that merges them, runCapacityWorker with the persistent cache      *)
(* (internal/capacity) and the update of the projected values, next to the *)
(* worker of SessionRefresh (cmd/hellogrok/main.go).                        *)
(*                                                                         *)
(* Start and Stop of the App are as much as the workers see of them; their  *)
(* interleavings are in AppLifecycle, the transaction of an update is in    *)
(* ConfigPatch.                                                            *)
(***************************************************************************)
EXTENDS SessionRefresh

CONSTANTS Models,           \* the models in config.toml
          Observations,     \* what a response may tell of a model
          Settings,         \* what the user may configure for a model
          MaxObservations   \* bound: observations queued in one behaviour

ASSUME WorkersAssumption ==
  /\ MaxRetries \in Nat \ {0} /\ MaxChanges \in Nat /\ MaxObservations \in Nat
  /\ Observations \subseteq [window : Nat, windowSource : 0..2, output : Nat, outputSource : 0..2]
  /\ Settings \subseteq [window : Nat, output : Nat, threshold : 0..100]

\* Sources of evidence, the stronger the greater.
Unknown == 0
FromRequest == 1
FromResponse == 2

Nothing == [window |-> 0, windowSource |-> Unknown, output |-> 0, outputSource |-> Unknown]
Removed == [window |-> 0, output |-> 0, threshold |-> 0]   \* a model taken out of config.toml
Unmanaged == [window |-> 0, threshold |-> 0]

VARIABLES
  config,    \* the user's settings in config.toml; 0: not configured
  route,     \* App.routes: the settings at the start
  managed,   \* managedContextWindows and managedThresholds; 0: not managed
  written,   \* the values of ours in config.toml
  cache,     \* capacity_cache.json
  capacityPending, \* capacityPending
  capacitySignal,  \* the signal channel, of capacity one
  capacityPosting, \* who queued has not signalled yet
  batch,     \* what the worker took and has not applied yet
  learner,   \* where the capacity worker is
  app,       \* the App: "stopped", "starting" (App.mu held), "running", "stopping"
  observed,  \* observations queued
  edited,    \* history: models the user has edited since the start
  want,      \* history: every observation merged as it came
  failed     \* history: models whose last update failed

capacityQueue == <<capacityPending, capacitySignal, capacityPosting>>
capacityWorker == <<batch, learner>>
projection == <<config, edited, route, managed, written>>
vars == <<refreshVars, projection, cache, capacityQueue, capacityWorker, app, observed, want, failed>>

Init ==
  /\ RefreshInit
  /\ config = [m \in Models |-> Removed] /\ route = config
  /\ managed = [m \in Models |-> Unmanaged] /\ written = managed
  /\ cache = [m \in Models |-> Nothing] /\ edited = {}
  /\ capacityPending = cache /\ capacitySignal = FALSE /\ capacityPosting = FALSE
  /\ batch = cache /\ learner = "off"
  /\ app = "stopped" /\ observed = 0 /\ want = cache /\ failed = {}

-----------------------------------------------------------------------------
(* Evidence and budgets (internal/capacity).                               *)

\* budgetForRoute: a value of the user's goes before what was learned.
Prefer(own, learned) == IF own > 0 THEN own ELSE learned

\* mergeObservedValue, as a condition: the new value takes the old one's place.
Outranks(value, source, old, oldSource) ==
  /\ value > 0 /\ source # Unknown /\ source >= oldSource
  /\ ~(source = FromRequest /\ source = oldSource /\ value < old)

\* What Observe does to an entry of the cache.
Merged(entry, o) ==
  LET w == Outranks(o.window, o.windowSource, entry.window, entry.windowSource)
      c == Outranks(o.output, o.outputSource, entry.output, entry.outputSource) IN
  [window       |-> IF w THEN o.window ELSE entry.window,
   windowSource |-> IF w THEN o.windowSource ELSE entry.windowSource,
   output       |-> IF c THEN o.output ELSE entry.output,
   outputSource |-> IF c THEN o.outputSource ELSE entry.outputSource]

CoalescedLatest(waiting, o) == o

\* MergeObservations: observations of one model that wait for the worker.
Coalesced(waiting, o) == Merged(waiting, o)

LeastMargin == 8192
Margin(window) ==
  LET share == (window + 19) \div 20 IN IF share < LeastMargin THEN LeastMargin ELSE share

\* Calculate: what is left of a window once the output and the margin are kept.
Left(window, output) == window - output - Margin(window)
Safe(window, output) == (100 * Left(window, output)) \div window

Known(window, output) == window > 0 /\ output > 0
Ready(window, output) ==
  Known(window, output) /\ Left(window, output) > 0 /\ Safe(window, output) > 0

NeededOnce(settings, learned, now) ==
  LET window == Prefer(settings.window, learned.window)
      output == Prefer(settings.output, learned.output) IN
  IF now = 0 /\ Ready(window, output) /\ settings.threshold > Safe(window, output)
  THEN Safe(window, output) ELSE now

\* The threshold a route needs: none as long as the desired one is safe.
Needed(settings, learned, now) ==
  LET window == Prefer(settings.window, learned.window)
      output == Prefer(settings.output, learned.output)
      safe == Safe(window, output) IN
  IF ~Ready(window, output) THEN now
  ELSE IF settings.threshold > safe THEN safe
  ELSE IF now = 0 THEN 0 ELSE settings.threshold

\* The window to be projected: one a response told, unless the user has one.
Projected(settings, learned, now) ==
  IF settings.window = 0 /\ learned.window > 0 /\ learned.windowSource >= FromResponse
  THEN learned.window ELSE now

Managed(settings, learned, now) ==
  [window |-> Projected(settings, learned, now.window),
   threshold |-> Needed(settings, learned, now.threshold)]

-----------------------------------------------------------------------------
(* The queue of observations.                                              *)

Live == app \in {"starting", "running"}

\* queueCapacityObservation, under backgroundMu ...
Observe(m, o) ==
  /\ Live /\ observed < MaxObservations /\ ~capacityPosting
  /\ observed' = observed + 1
  /\ capacityPending' = [capacityPending EXCEPT ![m] = Coalesced(@, o)]
  /\ capacityPosting' = TRUE
  /\ want' = [want EXCEPT ![m] = Merged(@, o)]
  /\ UNCHANGED <<refreshVars, projection, cache, capacitySignal, capacityWorker, app, failed>>

\* ... and the signal after it.
PostCapacity ==
  /\ capacityPosting
  /\ capacityPosting' = FALSE /\ capacitySignal' = TRUE
  /\ UNCHANGED <<refreshVars, projection, cache, capacityPending, capacityWorker, app, observed,
                 want, failed>>

\* The worker takes everything that is pending.
Take ==
  /\ learner = "wait" /\ capacitySignal
  /\ capacitySignal' = FALSE
  /\ batch' = capacityPending /\ capacityPending' = [m \in Models |-> Nothing]
  /\ learner' = "apply"
  /\ UNCHANGED <<refreshVars, projection, cache, capacityPosting, app, observed, want, failed>>

-----------------------------------------------------------------------------
(* applyCapacityObservation, under App.mu.                                 *)

Applying(m) == learner = "apply" /\ batch[m] # Nothing /\ app # "starting" /\ ~refreshPosting

Drop(m) == batch' = [batch EXCEPT ![m] = Nothing]

\* The cache cannot be written: the entry stays what it was.
ObserveFails(m) ==
  /\ Applying(m) /\ Merged(cache[m], batch[m]) # cache[m]
  /\ Drop(m)
  /\ want' = [want EXCEPT ![m] = Merged(cache[m], capacityPending[m])]
  /\ failed' = failed \cup {m}
  /\ UNCHANGED <<refreshVars, projection, cache, capacityQueue, learner, app, observed>>

\* The settings an update goes by: the live ones, where they are not ours.
Current(m) ==
  LET now == managed[m] IN
  IF now.window > 0 /\ now.threshold > 0 THEN route[m]
  ELSE [window    |-> IF now.window > 0 THEN route[m].window ELSE config[m].window,
        output    |-> config[m].output,
        threshold |-> IF now.threshold > 0 THEN route[m].threshold ELSE config[m].threshold]

\* A model that was removed is left alone, unless all of it is managed.
Gone(m) == config[m] = Removed /\ (managed[m].window = 0 \/ managed[m].threshold = 0)

Update(m, next) ==
  /\ managed' = [managed EXCEPT ![m] = next] /\ written' = managed'
  /\ catalog < MaxChanges /\ catalog' = catalog + 1
  /\ IF app = "running" THEN QueueRefresh ELSE UNCHANGED <<refreshPending, refreshPosting>>
  /\ failed' = failed \ {m}
  /\ UNCHANGED <<sees, active, refreshSignal, refreshWorker, gaveUp, config, edited, route>>

Apply(m) ==
  /\ Applying(m)
  /\ Drop(m)
  /\ cache' = [cache EXCEPT ![m] = Merged(@, batch[m])]
  /\ LET next == Managed(Current(m), cache'[m], managed[m]) IN
     IF cache'[m] = cache[m] \/ (~Gone(m) /\ next = managed[m])
     THEN UNCHANGED <<refreshVars, projection, failed>>
     ELSE \/ ~Gone(m) /\ Update(m, next)
          \* config.toml cannot be read or written, or the model is gone
          \/ failed' = failed \cup {m} /\ UNCHANGED <<refreshVars, projection>>
  /\ UNCHANGED <<capacityQueue, learner, app, observed, want>>

BatchEnds ==
  /\ learner = "apply" /\ \A m \in Models : batch[m] = Nothing
  /\ learner' = "wait"
  /\ UNCHANGED <<refreshVars, projection, cache, capacityQueue, batch, app, observed, want, failed>>

-----------------------------------------------------------------------------
(* The App around the workers.                                             *)

\* What is queued is gone with its workers; a signal still to come goes to the
\* old channel.
EmptyQueues(worker) ==
  /\ refreshPending' = FALSE /\ refreshSignal' = FALSE /\ refreshPosting' = FALSE
  /\ capacityPending' = [m \in Models |-> Nothing]
  /\ capacitySignal' = FALSE /\ capacityPosting' = FALSE
  /\ batch' = capacityPending'
  /\ refresher' = worker /\ learner' = worker
  /\ attempt' = 0 /\ roster' = NoRoster

\* startBackgroundWorkersLocked.
StartWorkers == EmptyQueues("wait")

\* Start, from the loading of the cache on, with what the user has configured by
\* then: everything is computed anew.
Start ==
  /\ app = "stopped" /\ catalog < MaxChanges
  /\ app' = "starting"
  /\ config' \in [Models -> Settings] /\ route' = config'
  /\ managed' = [m \in Models |-> Managed(config'[m], cache[m], Unmanaged)]
  /\ written' = managed' /\ catalog' = catalog + 1
  /\ StartWorkers
  /\ failed' = {} /\ edited' = {}
  /\ UNCHANGED <<sees, active, gaveUp, cache, observed, want>>

\* The end of Start: one refresh at once, and what it skips is queued.
StartRefreshes ==
  /\ app = "starting"
  /\ app' = "running"
  /\ \E failing \in SUBSET (Sessions \ active) :
       /\ sees' = [s \in Sessions |-> IF s \in active \cup failing THEN sees[s] ELSE catalog]
       /\ gaveUp' = failing
  /\ IF active # {} THEN QueueRefresh ELSE UNCHANGED <<refreshPending, refreshPosting>>
  /\ UNCHANGED <<catalog, active, refreshSignal, refreshWorker, projection, cache, capacityQueue,
                 capacityWorker, observed, want, failed>>

\* Stop cancels the workers ...
Stop ==
  /\ app = "running" /\ ~refreshPosting
  /\ app' = "stopping"
  /\ UNCHANGED <<refreshVars, projection, cache, capacityQueue, capacityWorker, observed, want, failed>>

\* ... which leave where they wait for it ...
LearnerLeaves ==
  /\ app = "stopping" /\ learner = "wait"
  /\ learner' = "gone"
  /\ UNCHANGED <<refreshVars, projection, cache, capacityQueue, batch, app, observed, want, failed>>

Joined == app = "stopping" /\ learner = "gone" /\ refresher = "gone"

\* ... and with them goes what is queued; the original configuration is restored
\* and the idle sessions are told once more.
StopRestores ==
  /\ Joined /\ catalog < MaxChanges
  /\ app' = "stopped"
  /\ catalog' = catalog + 1
  /\ sees' = [s \in Sessions |-> IF s \in active THEN sees[s] ELSE catalog']
  /\ EmptyQueues("off")
  /\ managed' = [m \in Models |-> Unmanaged] /\ written' = managed'
  /\ want' = cache
  /\ UNCHANGED <<active, gaveUp, config, edited, route, cache, observed, failed>>

\* A restore that fails: the proxy goes on with new workers, whose queues are
\* empty; the sessions that were still to be told are forgotten.
StopFails ==
  /\ Joined
  /\ app' = "running" /\ StartWorkers
  /\ want' = cache
  /\ gaveUp' = {s \in Sessions : sees[s] # catalog} \cup gaveUp
  /\ UNCHANGED <<catalog, sees, active, projection, cache, observed, failed>>

\* The user edits a model or takes it out, once between two starts.
Edit(m) ==
  /\ m \notin edited /\ app # "stopped"
  /\ \E s \in Settings \cup {Removed} : s # config[m] /\ config' = [config EXCEPT ![m] = s]
  /\ edited' = edited \cup {m}
  /\ UNCHANGED <<refreshVars, route, managed, written, cache, capacityQueue, capacityWorker, app,
                 observed, want, failed>>

\* An entry is thirty days old when the proxy starts again.
Forget(m) ==
  /\ app = "stopped" /\ cache[m] # Nothing
  /\ cache' = [cache EXCEPT ![m] = Nothing] /\ want' = [want EXCEPT ![m] = Nothing]
  /\ UNCHANGED <<refreshVars, projection, capacityQueue, capacityWorker, app, observed, failed>>

-----------------------------------------------------------------------------

CapacityWorks == PostCapacity \/ Take \/ BatchEnds \/ \E m \in Models : Apply(m)

\* What the refresh worker records, it records under App.mu.
RefreshStep ==
  /\ app # "starting" \/ refresher # "record"
  /\ RefreshWorks(app = "stopping")
  /\ UNCHANGED <<projection, cache, capacityQueue, capacityWorker, app, observed, want, failed>>

Leaving ==
  \/ LearnerLeaves
  \/ /\ app = "stopping" /\ RefresherLeaves
     /\ UNCHANGED <<projection, cache, capacityQueue, capacityWorker, app, observed, want, failed>>

World ==
  \/ \E m \in Models : Edit(m) \/ Forget(m) \/ ObserveFails(m) \/ \E o \in Observations : Observe(m, o)
  \/ Start \/ Stop
  \/ /\ \E s \in Sessions : Turn(s)
     /\ UNCHANGED <<projection, cache, capacityQueue, capacityWorker, app, observed, want, failed>>

Next ==
  CapacityWorks \/ RefreshStep \/ Leaving \/ StartRefreshes \/ StopRestores \/ StopFails \/ World

Spec == Init /\ [][Next]_vars

\* The workers and a start or a stop under way go on; a worker that is cancelled
\* leaves at last, though its select may take a signal first.
FairSpec ==
  /\ Spec
  /\ WF_vars(CapacityWorks) /\ WF_vars(RefreshStep) /\ SF_vars(Leaving)
  /\ WF_vars(StartRefreshes) /\ WF_vars(StopRestores \/ StopFails)

-----------------------------------------------------------------------------
(* Properties.                                                             *)

Settled(m) == capacityPending[m] = Nothing /\ batch[m] = Nothing

\* Merging observations while they wait loses nothing: the cache, what the worker
\* holds and what is queued amount to every observation taken one by one.
EvidenceKept ==
  \A m \in Models : Merged(Merged(cache[m], batch[m]), capacityPending[m]) = want[m]

\* Once all evidence is in, Grok Build works with the window it shows: a learned
\* window is projected, and the threshold in effect leaves room for the largest
\* output and the margin.  A model the user has edited since the start, or whose
\* last update failed, has to wait for the next one.
Agrees(m) ==
  LET window == Prefer(config[m].window, written[m].window)
      output == Prefer(config[m].output, cache[m].output)
      threshold == Prefer(written[m].threshold, config[m].threshold) IN
  /\ config[m].window = 0 /\ cache[m].windowSource = FromResponse =>
       written[m].window = cache[m].window
  /\ Ready(window, output) =>
       threshold * window <= 100 * (window - output - Margin(window))

RoomLeft ==
  app = "running" => \A m \in Models \ (failed \cup edited) : Settled(m) => Agrees(m)

\* When the worker rests, every session works with the present configuration,
\* but for those a refresh failed for and those that stayed busy to the last
\* attempt.
Resting == refresher = "wait" /\ ~refreshPending /\ ~refreshSignal /\ ~refreshPosting

SessionsCatchUp ==
  app = "running" /\ Resting => \A s \in Sessions \ gaveUp : sees[s] = catalog

\* Again and again the workers have nothing left to do, however long a session
\* stays busy: what is queued is taken up, and attempts come to an end.
QueuesDrain == []<>(app = "running" => Resting /\ \A m \in Models : Settled(m))
=============================================================================
