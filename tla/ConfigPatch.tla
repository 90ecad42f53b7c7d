---------------------------- MODULE ConfigPatch ----------------------------
(***************************************************************************)
(* The recovery transaction of internal/cfgpatch/patch.go: hellogrok lends *)
(* values to fields of Grok Build's config.toml while its proxy runs, and  *)
(* gives the user's values back afterwards.  What it took is recorded in a *)
(* state file that is written before config.toml.  App.Start, App.Stop, a  *)
(* capacity update and `hellogrok restore` (main.go) drive ApplyTargets    *)
(* and Restore; every file operation is a step of its own, between which   *)
(* the user edits the file, an operation fails, or the process dies.       *)
(*                                                                         *)
(* One model table is kept; a field is one managed key of it, of           *)
(* [features] or of [subagents].  Lines, sections and their layout are     *)
(* abstracted to the value a field has, or Absent, or Torn: a half-typed   *)
(* assignment, which makes the document invalid TOML.                      *)
(***************************************************************************)
EXTENDS Integers

CONSTANTS Field,      \* the managed fields
          Route,      \* base_url and api_base_url
          Base,       \* base_url, which every Apply rewrites
          Fill,       \* fields materialized only while the user has none
          Optional,   \* those of Fill a user value may override unnoticed
          Value,      \* complete values
          LocalRoute, \* the channel's local proxy URL
          Lent,       \* Lent[f]: the values hellogrok may project into f
          Typed,      \* Typed[f]: what the user may type into f
          Absent, Torn,
          Unplanned,  \* not in the target list of an Apply
          MaxEvents   \* bound: edits, failed operations and crashes

Content == Value \cup {Absent, Torn}

ASSUME ConfigPatchAssumption ==
  /\ Route \subseteq Field /\ Fill \subseteq Field /\ Optional \subseteq Fill
  /\ Base \in Route /\ Route \cap Fill = {}
  /\ LocalRoute \in Value
  /\ Lent \in [Field -> SUBSET Value]
  /\ \A f \in Route : Lent[f] = {LocalRoute}
  /\ Typed \in [Field -> SUBSET Content]
  /\ Absent \notin Value /\ Torn \notin Value /\ Absent # Torn
  /\ Unplanned \notin Value
  /\ MaxEvents \in Nat

VARIABLES
  config,  \* config.toml: what its text is, and the content of each field
  record,  \* the state file: each field's ManagedLineState
  wants,   \* history: what the user last wrote in each field, as far as
           \* hellogrok ever read it
  pc,      \* the operation hellogrok is in the middle of
  why,     \* who called Restore or ApplyTargets
  endpoints, \* App.models: the endpoints the running proxy was started with
  op,      \* the operation's local variables
  events   \* edits, failures and crashes so far

vars == <<config, record, wants, pc, why, endpoints, op, events>>

Fields == [Field -> Content]
Form == {"valid", "broken", "missing"}
File == [form : Form, val : Fields]
Managed == [managed : BOOLEAN, original : Content, applied : Content]
Records == [Field -> Managed]
Plans == [Field -> Value \cup {Unplanned}]

Unmanaged == [managed |-> FALSE, original |-> Absent, applied |-> Absent]

\* No state file: a state file always manages base_url.
NoRecord == [f \in Field |-> Unmanaged]
Nothing == [f \in Field |-> Absent]
NoFile == [form |-> "missing", val |-> Nothing]

\* The locals: the config and the record as read, the user's wishes they stand
\* for, the target list, and the record and fields about to be written.
Op == [raw : File, prev : Records, own : Fields, plan : Plans,
       next : Records, new : Fields]
NoOp == [raw |-> NoFile, prev |-> NoRecord, own |-> Nothing,
         plan |-> [f \in Field |-> Unplanned], next |-> NoRecord, new |-> Nothing]

RestorePc == {"restore", "compareBack", "renameBack", "remove"}
ApplyPc == {"apply", "writeState", "compare", "rename", "verify", "rollback", "unwriteState"}
Pc == {"idle", "running", "load", "relinquish"} \cup RestorePc \cup ApplyPc
Why == {"none", "start", "stop", "restore", "abort", "update"}

-----------------------------------------------------------------------------
(* What the code computes from a config and a record.                      *)

\* matchesOriginalManagedState: nothing was ever rewritten, or all is undone.
MatchesOriginal(val, rec) ==
  \A f \in Field : rec[f].managed => val[f] = rec[f].original

\* validateRestorableConfig: every managed field still shows its projection,
\* unless a field hellogrok added has been removed again.
Restorable(val, rec) ==
  \A f \in Field : rec[f].managed =>
    \/ val[f] = rec[f].applied
    \/ val[f] = Absent /\ rec[f].original = Absent

\* The fields of the target list rewriteModelBlock rewrites.
Rewritten(val, rec, plan) ==
  {f \in Field : plan[f] # Unplanned /\ (f \in Fill => rec[f].managed \/ val[f] = Absent)}

\* rewriteExistingManagedFields and rewriteManagedFields: the record; a field
\* already managed keeps its original.
Recorded(val, rec, plan) ==
  [f \in Field |->
     IF f \in Rewritten(val, rec, plan)
     THEN [managed |-> TRUE,
           original |-> IF rec[f].managed THEN rec[f].original ELSE val[f],
           applied |-> plan[f]]
     ELSE rec[f]]

Projected(val, rec, plan) ==
  [f \in Field |-> IF f \in Rewritten(val, rec, plan) THEN plan[f] ELSE val[f]]

\* validateManagedConfig, of a candidate and again of the written file.
Validates(val, rec, plan) ==
  \A f \in Field :
    plan[f] # Unplanned /\ (f \in Optional => rec[f].managed) => val[f] = plan[f]

\* Mutant: a plain undo, which puts back every original.
Undone(val, rec) ==
  [f \in Field |-> IF rec[f].managed THEN rec[f].original ELSE val[f]]

\* prepareRestoreState, prepareRestoreStateText and the restore they prepare: a
\* field that still shows its projection gets its original back, any other
\* belongs to the user.
Merged(val, rec) ==
  [f \in Field |->
     IF rec[f].managed /\ val[f] = rec[f].applied THEN rec[f].original ELSE val[f]]

\* unexpectedProxyReferences, or activeProxyReferencesText when the document
\* does not parse; a torn assignment still spells the local route.
LocalRoutes(form, val) ==
  {f \in Route : val[f] = LocalRoute \/ (form = "broken" /\ val[f] = Torn)}

Unowned(form, val, rec) ==
  {f \in LocalRoutes(form, val) :
     ~ (form = "valid" /\ rec[f].original = val[f])}

-----------------------------------------------------------------------------

Init ==
  /\ wants \in {w \in [Field -> Content] :
                  \A f \in Field : w[f] \in (Typed[f] \cup Lent[f]) \ {Torn}}
  /\ config = [form |-> "valid", val |-> wants]
  /\ record = NoRecord
  /\ pc = "idle" /\ why = "none" /\ endpoints = {} /\ op = NoOp
  /\ events = 0

Goto(label, caller) ==
  /\ pc' = label /\ why' = caller
  /\ endpoints' = IF label = "idle" THEN {} ELSE endpoints

\* Restore, then ApplyTargets, return to their callers.
Restored ==
  /\ IF why = "start" THEN Goto("load", "start") ELSE Goto("idle", "none")
  /\ op' = NoOp

RestoreFailed ==
  /\ IF why = "stop" THEN Goto("relinquish", "stop") ELSE Goto("idle", "none")
  /\ op' = NoOp

Applied == Goto("running", "none") /\ op' = NoOp

\* A failed start falls back to Restore; a failed update changes nothing.
ApplyFailed ==
  /\ IF why = "start" THEN Goto("restore", "abort") ELSE Goto("running", "none")
  /\ op' = NoOp

\* An operation may fail only this often.
Event == events < MaxEvents /\ events' = events + 1

-----------------------------------------------------------------------------
(* The callers.                                                            *)

\* App.Start, up to the orphan Restore; an invalid file aborts it.
Start ==
  /\ pc = "idle"
  /\ config.form = "valid"
  /\ Goto("restore", "start")
  /\ UNCHANGED <<config, record, wants, op, events>>

\* `hellogrok restore`.
RestoreCommand ==
  /\ pc = "idle"
  /\ Goto("restore", "restore")
  /\ UNCHANGED <<config, record, wants, op, events>>

\* App.Stop, which defers itself unless it can read the file.
Stop ==
  /\ pc = "running"
  /\ config.form # "missing"
  /\ Goto("restore", "stop")
  /\ UNCHANGED <<config, record, wants, op, events>>

\* The target lists buildConfigTargets makes.
Targets == {p \in Plans : \A f \in Field : p[f] = Unplanned \/ p[f] \in Lent[f]}

\* The endpoints to be routed through the facade: those there are, and base_url.
Endpoints(val) == {f \in Route : f = Base \/ val[f] # Absent}

\* Mutant: Start trusts whatever endpoint it loads.
LoadTrusting ==
  /\ pc = "load"
  /\ IF config.form = "valid" /\ \E f \in Route : config.val[f] # Absent
     THEN \E p \in Targets :
            /\ {f \in Route : p[f] # Unplanned} = Endpoints(config.val)
            /\ op' = [NoOp EXCEPT !.plan = p]
            /\ pc' = "apply" /\ why' = "start"
            /\ endpoints' = Endpoints(config.val)
     ELSE Goto("idle", "none") /\ op' = NoOp
  /\ UNCHANGED <<config, record, wants, events>>

\* App.Start goes on: LoadModels, no endpoint may still be a local route.
Load ==
  /\ pc = "load"
  /\ IF /\ config.form = "valid"
        /\ \E f \in Route : config.val[f] # Absent
        /\ LocalRoutes("valid", config.val) = {}
     THEN \E p \in Targets :
            /\ {f \in Route : p[f] # Unplanned} = Endpoints(config.val)
            /\ op' = [NoOp EXCEPT !.plan = p]
            /\ pc' = "apply" /\ why' = "start"
            /\ endpoints' = Endpoints(config.val)
     ELSE Goto("idle", "none") /\ op' = NoOp
  /\ UNCHANGED <<config, record, wants, events>>

\* applyCapacityObservation re-applies the routes it started with, and every
\* value it projected so far or a newly learned one in its place.
Update ==
  /\ pc = "running"
  /\ config.form = "valid"
  /\ \E p \in Targets :
       /\ \A f \in Field : record[f].managed => p[f] # Unplanned
       /\ {f \in Route : p[f] # Unplanned} = endpoints
       /\ op' = [NoOp EXCEPT !.plan = p]
  /\ Goto("apply", "update")
  /\ UNCHANGED <<config, record, wants, events>>

\* Relinquish, after a Stop whose Restore failed: with no local route left the
\* state file is dropped, and what the config holds is the user's from then on.
Relinquish ==
  /\ pc = "relinquish"
  /\ IF config.form # "missing" /\ LocalRoutes(config.form, config.val) = {}
     THEN /\ record' = NoRecord
          /\ wants' = config.val
          /\ Goto("idle", "none")
     ELSE Goto("running", "none") /\ UNCHANGED <<record, wants>>
  /\ UNCHANGED <<config, op, events>>

-----------------------------------------------------------------------------
(* Restore.                                                                *)

\* Mutant: a record whose config is gone is an error.
RestoreReadStrict ==
  /\ pc = "restore"
  /\ IF record = NoRecord \/ (config.form = "valid" /\ MatchesOriginal(config.val, record))
     THEN Restored /\ record' = NoRecord
     ELSE /\ LET new == Merged(config.val, record)
             IN IF config.form = "missing" \/ Unowned(config.form, new, record) # {}
                THEN RestoreFailed
                ELSE /\ Goto("compareBack", why)
                     /\ op' = [NoOp EXCEPT !.raw = config, !.prev = record,
                                           !.own = wants, !.new = new]
          /\ UNCHANGED record
  /\ UNCHANGED <<config, wants, events>>

\* Restore reads both files, and is done when there is nothing to restore.
RestoreRead ==
  /\ pc = "restore"
  /\ IF \/ record = NoRecord
        \/ config.form = "missing"
        \/ config.form = "valid" /\ MatchesOriginal(config.val, record)
     THEN Restored /\ record' = NoRecord
     ELSE /\ LET new == Merged(config.val, record)
             IN IF Unowned(config.form, new, record) # {}
                THEN RestoreFailed
                ELSE /\ Goto("compareBack", why)
                     /\ op' = [NoOp EXCEPT !.raw = config, !.prev = record,
                                           !.own = wants, !.new = new]
          /\ UNCHANGED record
  /\ UNCHANGED <<config, wants, events>>

\* writeConfigAtomicCompare: the bytes read must still be there ...
CompareBack ==
  /\ pc = "compareBack"
  /\ IF config = op.raw THEN Goto("renameBack", why) /\ UNCHANGED op ELSE RestoreFailed
  /\ UNCHANGED <<config, record, wants, events>>

\* ... a moment before they are replaced.  An edit of that moment is lost.
RenameBack ==
  /\ pc = "renameBack"
  /\ config' = [form |-> op.raw.form, val |-> op.new]
  /\ wants' = op.own
  /\ Goto("remove", why)
  /\ UNCHANGED <<record, op, events>>

Remove ==
  /\ pc = "remove"
  /\ record' = NoRecord
  /\ Restored
  /\ UNCHANGED <<config, wants, events>>

RestoreFault ==
  /\ \/ pc \in {"renameBack", "remove"} /\ RestoreFailed
     \/ pc = "relinquish" /\ Goto("running", "none") /\ UNCHANGED op
  /\ Event
  /\ UNCHANGED <<config, record, wants>>

-----------------------------------------------------------------------------
(* ApplyTargets.                                                           *)

\* ApplyTargets reads both files, drops a record that was never applied,
\* refuses a config the record does not fit, and prepares both new files.
ApplyRead ==
  /\ pc = "apply"
  /\ LET prev == IF MatchesOriginal(config.val, record) THEN NoRecord ELSE record
         new == Projected(config.val, prev, op.plan)
         next == Recorded(config.val, prev, op.plan)
     IN IF config.form # "valid"
        THEN ApplyFailed /\ UNCHANGED record
        ELSE /\ record' = prev
             /\ IF Restorable(config.val, prev) /\ Validates(new, next, op.plan)
                THEN /\ Goto("writeState", why)
                     /\ op' = [op EXCEPT !.raw = config, !.prev = prev, !.own = wants,
                                         !.new = new, !.next = next]
                ELSE ApplyFailed
  /\ UNCHANGED <<config, wants, events>>

\* The state file first ...
WriteState ==
  /\ pc = "writeState"
  /\ record' = op.next
  /\ Goto("compare", why)
  /\ UNCHANGED <<config, wants, op, events>>

Compare ==
  /\ pc = "compare"
  /\ Goto(IF config = op.raw THEN "rename" ELSE "unwriteState", why)
  /\ UNCHANGED <<config, record, wants, op, events>>

\* ... then the config.  As in RenameBack, an edit since Compare is lost.
Rename ==
  /\ pc = "rename"
  /\ config' = [form |-> "valid", val |-> op.new]
  /\ wants' = op.own
  /\ Goto("verify", why)
  /\ UNCHANGED <<record, op, events>>

\* The written file is read back and validated.
Verify ==
  /\ pc = "verify"
  /\ IF config.form = "valid" /\ Validates(config.val, op.next, op.plan)
     THEN Applied
     ELSE Goto("rollback", why) /\ UNCHANGED op
  /\ UNCHANGED <<config, record, wants, events>>

\* rollbackApplyAttempt: the bytes first read go back, unconditionally.
Rollback ==
  /\ pc = "rollback"
  /\ config' = op.raw
  /\ wants' = op.own
  /\ Goto("unwriteState", why)
  /\ UNCHANGED <<record, op, events>>

\* restorePreviousRewriteState.
UnwriteState ==
  /\ pc = "unwriteState"
  /\ record' = op.prev
  /\ ApplyFailed
  /\ UNCHANGED <<config, wants, events>>

\* A file operation fails: the state file is put back if the config was not
\* written; a failing rollback leaves everything where it is.
ApplyFault ==
  /\ \/ pc = "rename" /\ Goto("unwriteState", why) /\ UNCHANGED op
     \/ pc \in {"writeState", "rollback", "unwriteState"} /\ ApplyFailed
  /\ Event
  /\ UNCHANGED <<config, record, wants>>

-----------------------------------------------------------------------------
(* The environment.                                                        *)

\* The process dies, or Shutdown exits without having restored.
Crash ==
  /\ pc # "idle"
  /\ Event
  /\ Goto("idle", "none")
  /\ op' = NoOp
  /\ UNCHANGED <<config, record, wants>>

\* A value hellogrok itself put, or is putting, there is not typed over it: the
\* merge could not tell the two apart.
MayType(f, v) ==
  /\ v # config.val[f]
  /\ v \in Lent[f] => /\ ~record[f].managed /\ op.plan[f] = Unplanned
                     /\ f \notin endpoints

Edit(f, v) ==
  /\ config.form # "missing"
  /\ MayType(f, v)
  /\ config' = [form |-> IF v = Torn THEN "broken" ELSE config.form,
                val |-> [config.val EXCEPT ![f] = v]]
  /\ wants' = [wants EXCEPT ![f] = v]
  /\ Event
  /\ UNCHANGED <<record, pc, why, endpoints, op>>

\* Text no field is part of stops parsing, or parses again.
EditElsewhere ==
  /\ \/ config.form = "valid" /\ config' = [config EXCEPT !.form = "broken"]
     \/ /\ config.form = "broken" /\ \A f \in Field : config.val[f] # Torn
        /\ config' = [config EXCEPT !.form = "valid"]
  /\ Event
  /\ UNCHANGED <<record, wants, pc, why, endpoints, op>>

\* The file is deleted; a later one starts without any of the fields.
Delete ==
  /\ config.form # "missing"
  /\ config' = NoFile
  /\ wants' = Nothing
  /\ Event
  /\ UNCHANGED <<record, pc, why, endpoints, op>>

Create ==
  /\ config.form = "missing"
  /\ config' = [NoFile EXCEPT !.form = "valid"]
  /\ UNCHANGED <<record, wants, pc, why, endpoints, op, events>>

User == (\E f \in Field : \E v \in Typed[f] : Edit(f, v)) \/ EditElsewhere \/ Delete \/ Create

RestoreStep == RestoreRead \/ CompareBack \/ RenameBack \/ Remove
ApplyStep == ApplyRead \/ WriteState \/ Compare \/ Rename \/ Verify \/ Rollback \/ UnwriteState

Next ==
  \/ Start \/ RestoreCommand \/ Stop \/ Load \/ Update \/ Relinquish
  \/ RestoreStep \/ RestoreFault \/ ApplyStep \/ ApplyFault
  \/ User \/ Crash

Spec == Init /\ [][Next]_vars

\* An operation that was begun goes on; the user stops the proxy sooner or
\* later, and runs `hellogrok restore` while it is down.
FairSpec ==
  /\ Spec
  /\ WF_vars(Load) /\ WF_vars(Relinquish) /\ WF_vars(RestoreStep) /\ WF_vars(ApplyStep)
  /\ SF_vars(Stop) /\ SF_vars(RestoreCommand)

-----------------------------------------------------------------------------

TypeOK ==
  /\ config \in File /\ record \in Records /\ wants \in Fields
  /\ pc \in Pc /\ why \in Why /\ endpoints \subseteq Route /\ op \in Op
  /\ events \in 0..MaxEvents

\* A config and a record are enough to give the user f back as wished: f is as
\* the user left it, or shows the recorded projection over the recorded wish.
Covers(val, rec, wish, f) ==
  \/ val[f] = wish[f]
  \/ rec[f].managed /\ val[f] = rec[f].applied /\ rec[f].original = wish[f]

\* The fields with one possible projection: everything except what capacity
\* learning may change while the proxy runs.
Stable == {f \in Field : \A a, b \in Lent[f] : a = b}

(***************************************************************************)
(* Whenever hellogrok is killed, whatever failed and whoever edited in     *)
(* between, no field with a fixed projection (both endpoints among them)   *)
(* is stranded on it: the two files still determine what the user wants    *)
(* (State, patch.go:125-126; Restore, 1340-1453).  With no state file left *)
(* that means the user's own value is in the config.                       *)
(***************************************************************************)
StableRecoverable == \A f \in Stable : Covers(config.val, record, wants, f)

(***************************************************************************)
(* The state file never takes a local route for a user's endpoint, so that *)
(* no later Restore can put one back (main.go:502-506; the tolerance of    *)
(* unexpectedProxyReferences, patch.go:1940-1949, relies on it).           *)
(***************************************************************************)
NoRouteCaptured ==
  \A f \in Route : record[f].managed => record[f].original # LocalRoute

(***************************************************************************)
(* Re-applying, failing and rolling back never change what a managed field *)
(* will be restored to (patch.go:1154-1209): once taken, an original stays *)
(* until the state file lets go of the field.                              *)
(***************************************************************************)
OriginalsFrozen ==
  [][\A f \in Field : record[f].managed /\ record'[f].managed =>
       record'[f].original = record[f].original]_vars

(***************************************************************************)
(* A recovery record is not kept for ever: once edits, failures and        *)
(* crashes cease, retrying clears it, unless a local route nobody recorded *)
(* blocks it (clearStateWithoutConfig, patch.go:1578-1587, is about the    *)
(* retry that could never succeed).                                        *)
(***************************************************************************)
RecordClears ==
  record # NoRecord ~>
    (record = NoRecord \/ Unowned(config.form, Merged(config.val, record), record) # {}
       \/ (pc = "running" /\ config.form = "missing"))

=============================================================================
