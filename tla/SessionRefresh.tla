---------------------------- MODULE SessionRefresh ----------------------------
(***************************************************************************)
(* Telling the open sessions of Grok Build about a changed configuration:  *)
(* runGrokRefreshWorker of cmd/hellogrok/main.go with its queue of one     *)
(* request, and refreshClient of internal/groksync/sync.go, which makes    *)
(* every idle session select its model again and skips the busy ones.      *)
(*                                                                         *)
(* Who asks for a refresh is in Workers; asking takes two steps, the       *)
(* request under backgroundMu and the signal after it.                     *)
(***************************************************************************)
EXTENDS Integers, FiniteSets

CONSTANTS Sessions,     \* the open sessions of the proxy's models
          MaxRetries,   \* maxGrokRefreshRetries
          MaxChanges    \* bound: changes of the configuration

VARIABLES
  catalog,    \* the configuration Grok Build would load: its number
  sees,       \* the configuration each session works with
  active,     \* the sessions that are not idle
  refreshPending,  \* a request is queued
  refreshSignal,   \* the signal channel, of capacity one
  refreshPosting,  \* who queued has not signalled yet
  refresher,  \* where the worker is
  attempt,    \* its attempts for the request it holds
  roster,     \* what the refresh under way found: the configuration it loaded
              \* and the sessions it will skip
  gaveUp      \* history: sessions a refresh failed for, or was ended for early

refreshQueue == <<refreshPending, refreshSignal, refreshPosting>>
refreshWorker == <<refresher, attempt, roster>>
refreshVars == <<catalog, sees, active, refreshQueue, refreshWorker, gaveUp>>

NoRoster == [catalog |-> 0, skipped |-> {}]

RefreshInit ==
  /\ catalog = 0 /\ sees = [s \in Sessions |-> 0] /\ active \in SUBSET Sessions
  /\ refreshPending = FALSE /\ refreshSignal = FALSE /\ refreshPosting = FALSE
  /\ refresher = "off" /\ attempt = 0 /\ roster = NoRoster
  /\ gaveUp = {}

-----------------------------------------------------------------------------
(* The queue.                                                              *)

\* queueGrokRefresh, under backgroundMu; a request that is queued already takes
\* the new one in.
QueueRefresh == refreshPending' = TRUE /\ refreshPosting' = TRUE

PostRefresh ==
  /\ refreshPosting
  /\ refreshPosting' = FALSE /\ refreshSignal' = TRUE
  /\ UNCHANGED <<catalog, sees, active, refreshPending, refreshWorker, gaveUp>>

-----------------------------------------------------------------------------
(* refreshClient.                                                          *)

\* What a refresh finds: it makes Grok Build load the configuration, and lists
\* the sessions.
Found == [catalog |-> catalog, skipped |-> active]

\* Those it found idle select their model again, and may fail to.
Selected(failing) ==
  /\ sees' = [s \in Sessions |->
                IF s \in roster.skipped \cup failing THEN sees[s] ELSE roster.catalog]
  /\ gaveUp' = (gaveUp \ (Sessions \ roster.skipped)) \cup (failing \ roster.skipped)

-----------------------------------------------------------------------------
(* runGrokRefreshWorker.                                                   *)

\* A request taken from the queue begins with its first delay.
Takes == refreshPending' = FALSE /\ refresher' = "delay" /\ attempt' = 1

Wake ==
  /\ refresher = "wait" /\ refreshSignal
  /\ refreshSignal' = FALSE
  /\ IF refreshPending THEN Takes ELSE UNCHANGED <<refreshPending, refresher, attempt>>
  /\ UNCHANGED <<catalog, sees, active, refreshPosting, roster, gaveUp>>

\* A signal during the delay: a newer request takes the place of the old one.
Renewed ==
  /\ refresher = "delay" /\ refreshSignal
  /\ refreshSignal' = FALSE
  /\ IF refreshPending THEN Takes ELSE UNCHANGED <<refreshPending, refresher, attempt>>
  /\ UNCHANGED <<catalog, sees, active, refreshPosting, roster, gaveUp>>

DelayEnds ==
  /\ refresher = "delay"
  /\ refresher' = "refresh" /\ roster' = Found
  /\ UNCHANGED <<catalog, sees, active, refreshQueue, attempt, gaveUp>>

\* The refresh returns, at the latest after its eight seconds.
Refreshed ==
  /\ refresher = "refresh"
  /\ refresher' = "record"
  /\ \E failing \in SUBSET Sessions : Selected(failing)
  /\ UNCHANGED <<catalog, active, refreshQueue, attempt, roster>>

\* No leader answers: nothing is selected, and nothing counts as skipped.
Unreachable ==
  /\ refresher = "refresh"
  /\ refresher' = "record" /\ roster' = [roster EXCEPT !.skipped = {}]
  /\ gaveUp' = Sessions
  /\ UNCHANGED <<catalog, sees, active, refreshQueue, attempt>>

\* Whether the request is done with, after what its last attempt skipped.
Enough(cancelled) == roster.skipped = {} \/ attempt >= MaxRetries \/ cancelled

AttemptAgain == attempt

\* The number of the attempt after one that skipped sessions.
NextAttempt == attempt + 1

RecordDropsNewer(cancelled) ==
  /\ refresher = "record"
  /\ refreshPending' = FALSE
  /\ IF Enough(cancelled)
     THEN refresher' = "wait" /\ attempt' = 0 /\ gaveUp' = gaveUp \cup roster.skipped
     ELSE refresher' = "delay" /\ attempt' = NextAttempt /\ UNCHANGED gaveUp
  /\ roster' = NoRoster
  /\ UNCHANGED <<catalog, sees, active, refreshSignal, refreshPosting>>

\* What the worker does next: a newer request, another attempt, or nothing.
Record(cancelled) ==
  /\ refresher = "record"
  /\ \/ refreshPending /\ Takes /\ UNCHANGED gaveUp
     \/ /\ ~refreshPending /\ Enough(cancelled)
        /\ refresher' = "wait" /\ attempt' = 0
        /\ gaveUp' = gaveUp \cup roster.skipped
        /\ UNCHANGED refreshPending
     \/ /\ ~refreshPending /\ ~Enough(cancelled)
        /\ refresher' = "delay" /\ attempt' = NextAttempt
        /\ UNCHANGED <<refreshPending, gaveUp>>
  /\ roster' = NoRoster
  /\ UNCHANGED <<catalog, sees, active, refreshSignal, refreshPosting>>

\* ctx.Done, where the worker waits for it.
RefresherLeaves ==
  /\ refresher \in {"wait", "delay"}
  /\ refresher' = "gone"
  /\ UNCHANGED <<catalog, sees, active, refreshQueue, attempt, roster, gaveUp>>

\* A session turns busy, or idle.
Turn(s) ==
  /\ active' = IF s \in active THEN active \ {s} ELSE active \cup {s}
  /\ UNCHANGED <<catalog, sees, refreshQueue, refreshWorker, gaveUp>>

RefreshWorks(cancelled) ==
  PostRefresh \/ Wake \/ Renewed \/ DelayEnds \/ Refreshed \/ Unreachable \/ Record(cancelled)
=============================================================================
