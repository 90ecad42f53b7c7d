------------------------- MODULE ConfigPatchProofs -------------------------
(***************************************************************************)
(* What holds of ConfigPatch for any fields, values and edits: its types,  *)
(* that no field with a fixed projection is ever stranded on it, and that  *)
(* a re-apply never takes a new original.                                  *)
(*                                                                         *)
(* StableRecoverable is not inductive: what an operation is about to write *)
(* was computed from files read earlier.  FilesInv says how the locals of  *)
(* each operation are related to the files it read, to the user's wishes   *)
(* then, and to the files and the wishes now.                              *)
(***************************************************************************)
EXTENDS ConfigPatch, TLAPS

-----------------------------------------------------------------------------
(* Types.                                                                  *)

\* A projection is a complete value, and the constant records have their types.
LEMMA Constants ==
  /\ \A f \in Field : Lent[f] \subseteq Value /\ Absent \notin Lent[f] /\ Torn \notin Lent[f]
  /\ Targets \subseteq Plans
  /\ Nothing \in Fields /\ NoFile \in File
  /\ Unmanaged \in Managed /\ NoRecord \in Records
  /\ NoOp \in Op
<1>1. \A f \in Field : Lent[f] \subseteq Value /\ Absent \notin Lent[f] /\ Torn \notin Lent[f]
  BY ConfigPatchAssumption
<1>2. Targets \subseteq Plans
  BY DEF Targets
<1>3. Nothing \in Fields
  BY DEF Nothing, Fields, Content
<1>4. NoFile \in File
  BY <1>3 DEF NoFile, File, Form
<1>5. Unmanaged \in Managed
  BY DEF Unmanaged, Managed, Content
<1>6. NoRecord \in Records
  BY <1>5 DEF NoRecord, Records
<1>7. [f \in Field |-> Unplanned] \in Plans
  BY DEF Plans
<1>8. NoOp \in Op
  BY <1>3, <1>4, <1>6, <1>7 DEF NoOp, Op
<1>. QED BY <1>1, <1>2, <1>3, <1>4, <1>5, <1>6, <1>8

\* What Restore and ApplyTargets compute is again a config and a record.
LEMMA ComputedTyped ==
  ASSUME NEW val \in Fields, NEW rec \in Records, NEW plan \in Plans
  PROVE  /\ Merged(val, rec) \in Fields
         /\ Projected(val, rec, plan) \in Fields
         /\ Recorded(val, rec, plan) \in Records
<1>1. Merged(val, rec) \in Fields
  BY DEF Merged, Fields, Records, Managed
<1>2. \A f \in Rewritten(val, rec, plan) : f \in Field /\ plan[f] \in Value
  BY DEF Rewritten, Plans
<1>3. Projected(val, rec, plan) \in Fields
  BY <1>2 DEF Projected, Fields, Content
<1>4. ASSUME NEW f \in Field
      PROVE  Recorded(val, rec, plan)[f] \in Managed
  <2>1. CASE f \in Rewritten(val, rec, plan)
    <3>1. val[f] \in Content /\ rec[f].original \in Content /\ plan[f] \in Content
      BY <1>2, <2>1 DEF Fields, Records, Managed, Content
    <3>2. Recorded(val, rec, plan)[f] =
            [managed |-> TRUE,
             original |-> IF rec[f].managed THEN rec[f].original ELSE val[f],
             applied |-> plan[f]]
      BY <2>1 DEF Recorded
    <3>. QED BY <3>1, <3>2 DEF Managed
  <2>2. CASE f \notin Rewritten(val, rec, plan)
    BY <2>2 DEF Recorded, Records
  <2>. QED BY <2>1, <2>2
<1>5. Recorded(val, rec, plan) \in Records
  BY <1>4 DEF Recorded, Records
<1>. QED BY <1>1, <1>3, <1>5

\* The labels an operation moves between, on its own and through its callers.
LEMMA Labels ==
  ASSUME why \in Why, endpoints \subseteq Route
  PROVE  /\ Restored => pc' \in Pc /\ why' \in Why /\ endpoints' \subseteq Route /\ op' = NoOp
         /\ RestoreFailed => pc' \in Pc /\ why' \in Why /\ endpoints' \subseteq Route /\ op' = NoOp
         /\ Applied => pc' \in Pc /\ why' \in Why /\ endpoints' \subseteq Route /\ op' = NoOp
         /\ ApplyFailed => pc' \in Pc /\ why' \in Why /\ endpoints' \subseteq Route /\ op' = NoOp
         /\ \A l \in Pc, w \in Why :
              Goto(l, w) => pc' \in Pc /\ why' \in Why /\ endpoints' \subseteq Route
  BY DEF Restored, RestoreFailed, Applied, ApplyFailed, Goto, Pc, RestorePc, ApplyPc, Why

LEMMA TypeStep == TypeOK /\ [Next]_vars => TypeOK'
<1>. SUFFICES ASSUME TypeOK, [Next]_vars
              PROVE  TypeOK'
  OBVIOUS
<1>. USE Constants
<1>t. /\ config \in File /\ config.val \in Fields /\ config.form \in Form
      /\ record \in Records /\ wants \in Fields
      /\ pc \in Pc /\ why \in Why /\ endpoints \subseteq Route /\ op \in Op
      /\ op.raw \in File /\ op.raw.val \in Fields /\ op.raw.form \in Form
      /\ op.prev \in Records /\ op.own \in Fields
      /\ op.plan \in Plans /\ op.next \in Records /\ op.new \in Fields
      /\ events \in 0..MaxEvents
  BY DEF TypeOK, File, Op
<1>l. /\ \A l \in Pc, w \in Why :
              Goto(l, w) => pc' \in Pc /\ why' \in Why /\ endpoints' \subseteq Route
      /\ Restored \/ RestoreFailed \/ Applied \/ ApplyFailed =>
              pc' \in Pc /\ why' \in Why /\ endpoints' \subseteq Route /\ op' \in Op
  BY <1>t, Labels
<1>p. /\ {"idle", "running", "load", "relinquish"} \cup RestorePc \cup ApplyPc \subseteq Pc
      /\ {"none", "start", "stop", "restore", "abort", "update"} \subseteq Why
  BY DEF Pc, Why
<1>e. Event => events' \in 0..MaxEvents
  BY <1>t, ConfigPatchAssumption DEF Event
<1>1. CASE Start \/ RestoreCommand \/ Stop
  BY <1>1, <1>t, <1>l, <1>p DEF Start, RestoreCommand, Stop, TypeOK, RestorePc
<1>2. CASE Load
  <2>1. CASE pc' = "apply"
    <3>1. PICK p \in Targets : op' = [NoOp EXCEPT !.plan = p]
                               /\ why' = "start" /\ endpoints' = Endpoints(config.val)
      BY <1>2, <2>1 DEF Load, Goto
    <3>2. p \in Plans
      OBVIOUS
    <3>3. op' \in Op
      BY <3>1, <3>2 DEF Op
    <3>4. endpoints' \subseteq Route
      BY <3>1 DEF Endpoints
    <3>. QED BY <1>2, <2>1, <3>1, <3>3, <3>4, <1>t, <1>p DEF Load, TypeOK, ApplyPc
  <2>2. CASE pc' # "apply"
    <3>1. Goto("idle", "none") /\ op' = NoOp
      BY <1>2, <2>2 DEF Load
    <3>. QED BY <1>2, <3>1, <1>t, <1>l, <1>p DEF Load, TypeOK
  <2>. QED BY <2>1, <2>2
<1>3. CASE Update
  <2>1. PICK p \in Targets : op' = [NoOp EXCEPT !.plan = p]
    BY <1>3 DEF Update
  <2>2. p \in Plans
    OBVIOUS
  <2>3. op' \in Op
    BY <2>1, <2>2 DEF Op
  <2>. QED BY <1>3, <2>3, <1>t, <1>l, <1>p DEF Update, TypeOK, ApplyPc
<1>4. CASE Relinquish
  BY <1>4, <1>t, <1>l, <1>p DEF Relinquish, TypeOK
<1>5. CASE RestoreRead
  <2>1. CASE Goto("compareBack", why)
    <3>1. PICK new : /\ new = Merged(config.val, record)
                     /\ op' = [NoOp EXCEPT !.raw = config, !.prev = record,
                                           !.own = wants, !.new = new]
                     /\ record' = record
      BY <1>5, <2>1 DEF RestoreRead, Restored, RestoreFailed, Goto
    <3>2. new \in Fields
      BY <3>1, <1>t, ComputedTyped
    <3>3. op' \in Op
      BY <3>1, <3>2, <1>t DEF Op
    <3>. QED BY <1>5, <2>1, <3>1, <3>3, <1>t, <1>l, <1>p DEF RestoreRead, TypeOK, RestorePc
  <2>2. CASE ~Goto("compareBack", why)
    <3>1. (Restored \/ RestoreFailed) /\ record' \in Records
      BY <1>5, <2>2, <1>t DEF RestoreRead
    <3>. QED BY <1>5, <3>1, <1>t, <1>l DEF RestoreRead, TypeOK
  <2>. QED BY <2>1, <2>2
<1>6. CASE CompareBack
  BY <1>6, <1>t, <1>l, <1>p DEF CompareBack, TypeOK, RestorePc
<1>7. CASE RenameBack
  <2>1. config' \in File
    BY <1>7, <1>t DEF RenameBack, File
  <2>. QED BY <1>7, <2>1, <1>t, <1>l, <1>p DEF RenameBack, TypeOK, RestorePc
<1>8. CASE Remove
  BY <1>8, <1>t, <1>l DEF Remove, TypeOK
<1>9. CASE RestoreFault
  BY <1>9, <1>t, <1>l, <1>e, <1>p DEF RestoreFault, TypeOK
<1>10. CASE ApplyRead
  <2>. DEFINE prev == IF MatchesOriginal(config.val, record) THEN NoRecord ELSE record
              new == Projected(config.val, prev, op.plan)
              next == Recorded(config.val, prev, op.plan)
  <2>1. prev \in Records
    BY <1>t
  <2>2. new \in Fields /\ next \in Records
    BY <2>1, <1>t, ComputedTyped
  <2>. HIDE DEF prev, new, next
  <2>3. /\ record' \in {record, prev}
        /\ ApplyFailed \/ (Goto("writeState", why)
             /\ op' = [op EXCEPT !.raw = config, !.prev = prev, !.own = wants,
                                 !.new = new, !.next = next])
    BY <1>10 DEF ApplyRead, prev, new, next
  <2>4. op' \in Op
    <3>1. CASE ApplyFailed
      BY <3>1, <1>l
    <3>2. CASE op' = [op EXCEPT !.raw = config, !.prev = prev, !.own = wants,
                                !.new = new, !.next = next]
      <4>1. op' = [raw |-> config, prev |-> prev, own |-> wants, plan |-> op.plan,
                   next |-> next, new |-> new]
        BY <3>2, <1>t DEF Op
      <4>. QED BY <4>1, <2>1, <2>2, <1>t DEF Op
    <3>. QED BY <2>3, <3>1, <3>2
  <2>. QED BY <1>10, <2>1, <2>3, <2>4, <1>t, <1>l, <1>p DEF ApplyRead, TypeOK, ApplyPc
<1>11. CASE WriteState \/ Compare
  BY <1>11, <1>t, <1>l, <1>p DEF WriteState, Compare, TypeOK, ApplyPc
<1>12. CASE Rename
  <2>1. config' \in File
    BY <1>12, <1>t DEF Rename, File, Form
  <2>. QED BY <1>12, <2>1, <1>t, <1>l, <1>p DEF Rename, TypeOK, ApplyPc
<1>13. CASE Verify \/ Rollback \/ UnwriteState
  BY <1>13, <1>t, <1>l, <1>p DEF Verify, Rollback, UnwriteState, TypeOK, ApplyPc
<1>14. CASE ApplyFault
  BY <1>14, <1>t, <1>l, <1>e, <1>p DEF ApplyFault, TypeOK, ApplyPc
<1>15. CASE User
  <2>1. config' \in File /\ wants' \in Fields
    <3>1. CASE \E f \in Field : \E v \in Typed[f] : Edit(f, v)
      <4>1. PICK f \in Field : \E v \in Typed[f] : Edit(f, v)
        BY <3>1
      <4>2. PICK v \in Typed[f] : Edit(f, v)
        BY <4>1
      <4>3. v \in Content
        BY ConfigPatchAssumption
      <4>4. [config.val EXCEPT ![f] = v] \in Fields /\ [wants EXCEPT ![f] = v] \in Fields
        BY <4>3, <1>t DEF Fields
      <4>5. (IF v = Torn THEN "broken" ELSE config.form) \in Form
        BY <1>t DEF Form
      <4>. QED BY <4>2, <4>4, <4>5 DEF Edit, File
    <3>2. CASE EditElsewhere
      BY <3>2, <1>t DEF EditElsewhere, File, Form
    <3>3. CASE Delete \/ Create
      BY <3>3, <1>t DEF Delete, Create, NoFile, File, Form
    <3>. QED BY <1>15, <3>1, <3>2, <3>3 DEF User
  <2>2. events' \in 0..MaxEvents
    BY <1>15, <1>e, <1>t DEF User, Edit, EditElsewhere, Delete, Create
  <2>. QED BY <1>15, <2>1, <2>2, <1>t DEF User, Edit, EditElsewhere, Delete, Create, TypeOK
<1>16. CASE Crash
  BY <1>16, <1>t, <1>l, <1>e, <1>p DEF Crash, TypeOK
<1>17. CASE UNCHANGED vars
  BY <1>17 DEF vars, TypeOK
<1>. QED
  BY <1>1, <1>2, <1>3, <1>4, <1>5, <1>6, <1>7, <1>8, <1>9, <1>10, <1>11, <1>12,
     <1>13, <1>14, <1>15, <1>16, <1>17 DEF Next, RestoreStep, ApplyStep

\* Every variable keeps its type; a field never gets a value that is neither
\* the user's nor a projection's, and a record names contents only.
THEOREM TypeCorrect == Spec => []TypeOK
<1>1. Init => TypeOK
  <2>. SUFFICES ASSUME Init PROVE TypeOK
    OBVIOUS
  <2>1. wants \in Fields
    BY DEF Init, Fields
  <2>. QED BY <2>1, Constants, ConfigPatchAssumption
           DEF Init, TypeOK, File, Form, Pc, Why
<1>. QED BY <1>1, TypeStep, PTL DEF Spec

-----------------------------------------------------------------------------
(* Nothing with a fixed projection is stranded.                            *)

\* The user never asks for a projection behind hellogrok's back.
Untyped(rec, wish, f) ==
  rec[f].managed /\ wish[f] \in Lent[f] => rec[f].original = wish[f]

\* A config, a record and the user's wishes fit together.
Fit(val, rec, wish) ==
  \A f \in Stable :
    /\ Covers(val, rec, wish, f)
    /\ Untyped(rec, wish, f)
    /\ rec[f].managed => rec[f].applied \in Lent[f]

RestoreInv ==
  /\ pc \in {"compareBack", "renameBack"} =>
       /\ record = op.prev /\ op.raw.form # "missing"
       /\ op.new = Merged(op.raw.val, op.prev)
       /\ Fit(op.raw.val, op.prev, op.own)
  /\ pc = "remove" => \A f \in Stable : config.val[f] = wants[f]

Prepared == {"writeState", "compare", "rename", "verify", "rollback", "unwriteState"}

\* What ApplyRead computed from what it read.
PreparedOp ==
  /\ op.next = Recorded(op.raw.val, op.prev, op.plan)
  /\ op.new = Projected(op.raw.val, op.prev, op.plan)
  /\ Restorable(op.raw.val, op.prev)
  /\ Fit(op.raw.val, op.prev, op.own)
  /\ op.raw.form = "valid"

ApplyInv ==
  /\ pc \in ApplyPc => op.plan \in Targets
  /\ pc \in Prepared =>
       /\ PreparedOp
       /\ record = IF pc = "writeState" THEN op.prev ELSE op.next
  /\ pc \in {"writeState", "compare", "rename", "unwriteState"} =>
       Fit(config.val, op.prev, wants)
  /\ pc = "writeState" =>
       \A f \in Stable : op.plan[f] # Unplanned /\ wants[f] \in Lent[f] => wants[f] = op.own[f]

FilesInv ==
  /\ Fit(config.val, record, wants)
  /\ config.form = "missing" => config.val = Nothing
  /\ RestoreInv
  /\ ApplyInv

LEMMA FitNoRecord ==
  ASSUME NEW val \in Fields, NEW wish \in Fields, \A f \in Stable : val[f] = wish[f]
  PROVE  Fit(val, NoRecord, wish)
  BY DEF Fit, Covers, Untyped, NoRecord, Unmanaged, Stable

\* The merge gives the user back every field that fits.
LEMMA MergeGivesBack ==
  ASSUME NEW val \in Fields, NEW rec \in Records, NEW wish \in Fields, Fit(val, rec, wish)
  PROVE  /\ \A f \in Stable : Merged(val, rec)[f] = wish[f]
         /\ Fit(Merged(val, rec), rec, wish)
<1>1. \A f \in Stable : Merged(val, rec)[f] = wish[f]
  BY DEF Fit, Covers, Untyped, Merged, Stable
<1>2. Fit(Merged(val, rec), rec, wish)
  BY <1>1 DEF Fit, Covers
<1>. QED BY <1>1, <1>2

\* A config that matches the originals shows no projection the user did not ask for.
LEMMA OriginalIsWished ==
  ASSUME NEW val \in Fields, NEW rec \in Records, NEW wish \in Fields,
         Fit(val, rec, wish), MatchesOriginal(val, rec)
  PROVE  \A f \in Stable : val[f] = wish[f]
  BY DEF Fit, Covers, MatchesOriginal, Stable

\* Neither does an empty config.
LEMMA NothingIsWished ==
  ASSUME NEW rec \in Records, NEW wish \in Fields, Fit(Nothing, rec, wish)
  PROVE  \A f \in Stable : Nothing[f] = wish[f]
  BY Constants DEF Fit, Covers, Nothing, Stable

\* Writing the new record first is safe: it covers any config the old one does.
LEMMA NewRecordFits ==
  ASSUME NEW raw \in Fields, NEW prev \in Records, NEW own \in Fields, NEW plan \in Targets,
         Fit(raw, prev, own),
         NEW val \in Fields, NEW wish \in Fields, Fit(val, prev, wish),
         \A f \in Stable : plan[f] # Unplanned /\ wish[f] \in Lent[f] => wish[f] = own[f]
  PROVE  Fit(val, Recorded(raw, prev, plan), wish)
<1>. SUFFICES ASSUME NEW f \in Stable
              PROVE  LET next == Recorded(raw, prev, plan)
                     IN  /\ Covers(val, next, wish, f)
                         /\ Untyped(next, wish, f)
                         /\ next[f].managed => next[f].applied \in Lent[f]
  BY DEF Fit
<1>0. f \in Field /\ \A a, b \in Lent[f] : a = b
  BY DEF Stable
<1>1. CASE f \notin Rewritten(raw, prev, plan)
  <2>1. Recorded(raw, prev, plan)[f] = prev[f]
    BY <1>0, <1>1 DEF Recorded
  <2>. QED BY <2>1 DEF Fit, Covers, Untyped
<1>2. CASE f \in Rewritten(raw, prev, plan)
  <2>1. plan[f] # Unplanned /\ plan[f] \in Lent[f]
    BY <1>0, <1>2 DEF Rewritten, Targets
  <2>2. Recorded(raw, prev, plan)[f] =
          [managed |-> TRUE,
           original |-> IF prev[f].managed THEN prev[f].original ELSE raw[f],
           applied |-> plan[f]]
    BY <1>0, <1>2 DEF Recorded
  <2>3. CASE prev[f].managed
    <3>1. prev[f].applied = plan[f]
      BY <1>0, <2>1, <2>3 DEF Fit
    <3>. QED BY <2>1, <2>2, <2>3, <3>1 DEF Fit, Covers, Untyped
  <2>4. CASE ~prev[f].managed
    <3>1. raw[f] = own[f] /\ val[f] = wish[f]
      BY <2>4 DEF Fit, Covers
    <3>. QED BY <2>1, <2>2, <2>4, <3>1 DEF Covers, Untyped
  <2>. QED BY <2>3, <2>4
<1>. QED BY <1>1, <1>2

\* The projection and the record made together fit.
LEMMA ProjectionFits ==
  ASSUME NEW raw \in Fields, NEW prev \in Records, NEW own \in Fields, NEW plan \in Targets,
         Fit(raw, prev, own), Restorable(raw, prev)
  PROVE  Fit(Projected(raw, prev, plan), Recorded(raw, prev, plan), own)
<1>. SUFFICES ASSUME NEW f \in Stable
              PROVE  LET next == Recorded(raw, prev, plan)
                     IN  /\ Covers(Projected(raw, prev, plan), next, own, f)
                         /\ Untyped(next, own, f)
                         /\ next[f].managed => next[f].applied \in Lent[f]
  BY DEF Fit
<1>0. f \in Field
  BY DEF Stable
<1>1. CASE f \notin Rewritten(raw, prev, plan)
  <2>1. Recorded(raw, prev, plan)[f] = prev[f] /\ Projected(raw, prev, plan)[f] = raw[f]
    BY <1>0, <1>1 DEF Recorded, Projected
  <2>. QED BY <2>1 DEF Fit, Covers, Untyped
<1>2. CASE f \in Rewritten(raw, prev, plan)
  <2>1. plan[f] \in Lent[f] /\ Projected(raw, prev, plan)[f] = plan[f]
    BY <1>0, <1>2 DEF Rewritten, Targets, Projected
  <2>2. Recorded(raw, prev, plan)[f] =
          [managed |-> TRUE,
           original |-> IF prev[f].managed THEN prev[f].original ELSE raw[f],
           applied |-> plan[f]]
    BY <1>0, <1>2 DEF Recorded
  <2>3. (IF prev[f].managed THEN prev[f].original ELSE raw[f]) = own[f]
    BY <1>0 DEF Fit, Covers, Untyped, Restorable
  <2>. QED BY <2>1, <2>2, <2>3 DEF Covers, Untyped
<1>. QED BY <1>1, <1>2

\* An edit that types no projection keeps what fitted.
LEMMA EditFits ==
  ASSUME NEW val \in Fields, NEW rec \in Records, NEW wish \in Fields, Fit(val, rec, wish),
         NEW f \in Field, NEW v \in Content, rec[f].managed => v \notin Lent[f]
  PROVE  Fit([val EXCEPT ![f] = v], rec, [wish EXCEPT ![f] = v])
  BY DEF Fit, Covers, Untyped, Fields, Stable

\* Deleting the file keeps it too.
LEMMA DeleteFits ==
  ASSUME NEW val \in Fields, NEW rec \in Records, NEW wish \in Fields, Fit(val, rec, wish)
  PROVE  Fit(Nothing, rec, Nothing)
  BY Constants DEF Fit, Covers, Untyped, Nothing, Stable

\* The callers, and what each leaves of the operation.
LEMMA Callers ==
  /\ Goto("idle", "none") => pc' = "idle"
  /\ Restored => pc' \in {"idle", "load"}
  /\ RestoreFailed => pc' \in {"idle", "relinquish"}
  /\ Applied => pc' = "running"
  /\ ApplyFailed => pc' \in {"restore", "running"}
  BY DEF Goto, Restored, RestoreFailed, Applied, ApplyFailed

\* An operation that ends with fitting files leaves nothing else to show.
LEMMA FilesSettled ==
  ASSUME Fit(config.val, record, wants)',
         (config.form = "missing" => config.val = Nothing)',
         pc' \in {"idle", "running", "load", "relinquish", "restore"}
  PROVE  FilesInv'
  BY DEF FilesInv, RestoreInv, ApplyInv, Prepared, RestorePc, ApplyPc

LEMMA FilesStep == TypeOK /\ FilesInv /\ [Next]_vars => FilesInv'
<1>. SUFFICES ASSUME TypeOK, FilesInv, [Next]_vars
              PROVE  FilesInv'
  OBVIOUS
<1>. USE Constants
<1>t. /\ config \in File /\ config.val \in Fields /\ config.form \in Form
      /\ record \in Records /\ wants \in Fields
      /\ pc \in Pc /\ why \in Why /\ op \in Op
      /\ op.raw \in File /\ op.raw.val \in Fields /\ op.raw.form \in Form
      /\ op.prev \in Records /\ op.own \in Fields
      /\ op.plan \in Plans /\ op.next \in Records /\ op.new \in Fields
  BY DEF TypeOK, File, Op
<1>f. /\ Fit(config.val, record, wants)
      /\ config.form = "missing" => config.val = Nothing
  BY DEF FilesInv
<1>s. pc' \in {"idle", "running", "load", "relinquish", "restore"}
        /\ UNCHANGED <<config, record, wants>> => FilesInv'
  <2>1. UNCHANGED <<config, record, wants>>
          => Fit(config.val, record, wants)' /\ (config.form = "missing" => config.val = Nothing)'
    BY <1>f DEF Fit, Covers, Untyped
  <2>. QED BY <2>1, FilesSettled
<1>o. UNCHANGED op => (PreparedOp' <=> PreparedOp)
  BY DEF PreparedOp, Fit, Covers, Untyped, Recorded, Projected, Rewritten, Restorable
<1>u. UNCHANGED <<config, record, wants, op>>
        => /\ Fit(config.val, record, wants)' /\ (config.form = "missing" => config.val = Nothing)'
           /\ Fit(config.val, op.prev, wants) => Fit(config.val, op.prev, wants)'
  BY <1>f DEF Fit, Covers, Untyped
<1>1. CASE Start \/ RestoreCommand \/ Stop \/ Crash
  BY <1>1, <1>s DEF Start, RestoreCommand, Stop, Crash, Goto
<1>2. CASE Load
  <2>1. CASE pc' = "apply"
    <3>1. op'.plan \in Targets
      <4>1. PICK p \in Targets : op' = [NoOp EXCEPT !.plan = p]
        BY <1>2, <2>1 DEF Load, Goto
      <4>. QED BY <4>1 DEF NoOp
    <3>. QED BY <1>2, <2>1, <3>1, <1>f
             DEF Load, FilesInv, RestoreInv, ApplyInv, Prepared, Fit, Covers, Untyped
  <2>2. CASE pc' # "apply"
    BY <1>2, <2>2, <1>s, Callers DEF Load
  <2>. QED BY <2>1, <2>2
<1>3. CASE Update
  <2>1. op'.plan \in Targets
    <3>1. PICK p \in Targets : op' = [NoOp EXCEPT !.plan = p]
      BY <1>3 DEF Update
    <3>. QED BY <3>1 DEF NoOp
  <2>. QED BY <1>3, <2>1, <1>f
           DEF Update, Goto, FilesInv, RestoreInv, ApplyInv, Prepared, Fit, Covers, Untyped
<1>4. CASE Relinquish
  <2>1. CASE record' = NoRecord /\ wants' = config.val
    <3>1. Fit(config.val, NoRecord, config.val)
      BY <1>t, FitNoRecord
    <3>. QED BY <1>4, <2>1, <3>1, <1>f, FilesSettled DEF Relinquish, Goto, Fit, Covers, Untyped
  <2>2. CASE UNCHANGED <<record, wants>>
    BY <1>4, <2>2, <1>s DEF Relinquish, Goto
  <2>. QED BY <1>4, <2>1, <2>2 DEF Relinquish
<1>5. CASE RestoreRead
  <2>1. CASE Restored /\ record' = NoRecord
                /\ (\/ record = NoRecord
                    \/ config.form = "missing"
                    \/ config.form = "valid" /\ MatchesOriginal(config.val, record))
    <3>1. \A f \in Stable : config.val[f] = wants[f]
      <4>1. CASE record = NoRecord
        BY <4>1, <1>f DEF Fit, Covers, NoRecord, Unmanaged, Stable
      <4>2. CASE config.form = "missing"
        BY <4>2, <1>f, <1>t, NothingIsWished
      <4>3. CASE MatchesOriginal(config.val, record)
        BY <4>3, <1>f, <1>t, OriginalIsWished
      <4>. QED BY <2>1, <4>1, <4>2, <4>3
    <3>2. Fit(config.val, NoRecord, wants)
      BY <3>1, <1>t, FitNoRecord
    <3>. QED BY <1>5, <2>1, <3>2, <1>f, FilesSettled, Callers
             DEF RestoreRead, Fit, Covers, Untyped
  <2>2. CASE RestoreFailed /\ record' = record
    BY <1>5, <2>2, <1>s, Callers DEF RestoreRead
  <2>3. CASE /\ Goto("compareBack", why) /\ record' = record /\ config.form # "missing"
             /\ op' = [NoOp EXCEPT !.raw = config, !.prev = record, !.own = wants,
                                   !.new = Merged(config.val, record)]
    <3>1. /\ op'.raw = config /\ op'.prev = record /\ op'.own = wants
          /\ op'.new = Merged(config.val, record)
      BY <2>3 DEF NoOp
    <3>2. pc' = "compareBack" /\ UNCHANGED <<config, record, wants>>
      BY <1>5, <2>3 DEF RestoreRead, Goto
    <3>3. Fit(op.raw.val, op.prev, op.own)' /\ Fit(config.val, record, wants)'
      BY <3>1, <3>2, <1>f DEF Fit, Covers, Untyped
    <3>4. (op.new = Merged(op.raw.val, op.prev))'
      BY <3>1, <3>2 DEF Merged
    <3>5. (record = op.prev /\ op.raw.form # "missing")'
      BY <2>3, <3>1, <3>2
    <3>. QED BY <3>2, <3>3, <3>4, <3>5, <1>f
             DEF FilesInv, RestoreInv, ApplyInv, Prepared, ApplyPc
  <2>. QED BY <1>5, <2>1, <2>2, <2>3 DEF RestoreRead
<1>6. CASE CompareBack
  <2>1. CASE pc' = "renameBack" /\ op' = op
    BY <1>6, <2>1
       DEF CompareBack, FilesInv, RestoreInv, ApplyInv, Prepared, ApplyPc, Fit, Covers, Untyped, Merged
  <2>2. CASE RestoreFailed
    BY <1>6, <2>2, <1>s, Callers DEF CompareBack
  <2>. QED BY <1>6, <2>1, <2>2 DEF CompareBack, Goto
<1>7. CASE RenameBack
  <2>1. /\ record = op.prev /\ op.new = Merged(op.raw.val, op.prev)
        /\ Fit(op.raw.val, op.prev, op.own)
    BY <1>7 DEF RenameBack, FilesInv, RestoreInv
  <2>2. /\ \A f \in Stable : op.new[f] = op.own[f]
        /\ Fit(op.new, record, op.own)
    BY <2>1, <1>t, MergeGivesBack
  <2>3. /\ config'.val = op.new /\ config'.form = op.raw.form
        /\ wants' = op.own /\ record' = record /\ pc' = "remove"
    BY <1>7 DEF RenameBack, Goto
  <2>4. op.raw.form # "missing"
    BY <1>7 DEF RenameBack, FilesInv, RestoreInv
  <2>. QED BY <2>2, <2>3, <2>4 DEF FilesInv, RestoreInv, ApplyInv, Prepared, ApplyPc, Fit, Covers, Untyped
<1>8. CASE Remove
  <2>1. \A f \in Stable : config.val[f] = wants[f]
    BY <1>8 DEF Remove, FilesInv, RestoreInv
  <2>2. Fit(config.val, NoRecord, wants)
    BY <2>1, <1>t, FitNoRecord
  <2>. QED BY <1>8, <2>2, <1>f, FilesSettled, Callers DEF Remove, Fit, Covers, Untyped
<1>9. CASE RestoreFault
  BY <1>9, <1>s, Callers DEF RestoreFault, Goto
<1>10. CASE ApplyRead
  <2>. DEFINE prev == IF MatchesOriginal(config.val, record) THEN NoRecord ELSE record
              new == Projected(config.val, prev, op.plan)
              next == Recorded(config.val, prev, op.plan)
  <2>1. prev \in Records /\ Fit(config.val, prev, wants)
    <3>1. CASE MatchesOriginal(config.val, record)
      BY <3>1, <1>f, <1>t, OriginalIsWished, FitNoRecord
    <3>2. CASE ~MatchesOriginal(config.val, record)
      BY <3>2, <1>f, <1>t
    <3>. QED BY <3>1, <3>2
  <2>2. op.plan \in Targets
    BY <1>10 DEF ApplyRead, FilesInv, ApplyInv, ApplyPc
  <2>. HIDE DEF prev
  <2>3. CASE ApplyFailed /\ record' \in {record, prev}
    <3>1. Fit(config.val, record, wants)'
      BY <1>10, <2>1, <2>3, <1>f DEF ApplyRead, Fit, Covers, Untyped
    <3>. QED BY <1>10, <2>3, <3>1, <1>f, FilesSettled, Callers DEF ApplyRead
  <2>4. CASE /\ Goto("writeState", why) /\ config.form = "valid"
             /\ record' = prev /\ Restorable(config.val, prev)
             /\ op' = [op EXCEPT !.raw = config, !.prev = prev, !.own = wants,
                                 !.new = new, !.next = next]
    <3>1. /\ op'.raw = config /\ op'.prev = prev /\ op'.own = wants /\ op'.plan = op.plan
          /\ op'.new = new /\ op'.next = next
      BY <2>4, <1>t DEF Op
    <3>2. pc' = "writeState" /\ UNCHANGED <<config, wants>>
      BY <1>10, <2>4 DEF ApplyRead, Goto
    <3>3. /\ Fit(op.raw.val, op.prev, op.own)' /\ Fit(config.val, op.prev, wants)'
          /\ Fit(config.val, record, wants)'
      BY <2>1, <2>4, <3>1, <3>2 DEF Fit, Covers, Untyped
    <3>4. /\ (op.next = Recorded(op.raw.val, op.prev, op.plan))'
          /\ (op.new = Projected(op.raw.val, op.prev, op.plan))'
          /\ Restorable(op.raw.val, op.prev)'
      BY <2>4, <3>1 DEF Recorded, Projected, Rewritten, Restorable
    <3>5. (\A f \in Stable :
             op.plan[f] # Unplanned /\ wants[f] \in Lent[f] => wants[f] = op.own[f])'
      BY <3>1, <3>2 DEF Stable
    <3>. QED BY <2>2, <2>4, <3>1, <3>2, <3>3, <3>4, <3>5, <1>f
             DEF FilesInv, RestoreInv, ApplyInv, Prepared, PreparedOp, Targets
  <2>. QED BY <1>10, <2>3, <2>4 DEF ApplyRead, prev
<1>11. CASE WriteState
  <2>1. /\ op.next = Recorded(op.raw.val, op.prev, op.plan) /\ op.plan \in Targets
        /\ Fit(op.raw.val, op.prev, op.own) /\ Fit(config.val, op.prev, wants)
        /\ PreparedOp
        /\ \A f \in Stable :
             op.plan[f] # Unplanned /\ wants[f] \in Lent[f] => wants[f] = op.own[f]
    BY <1>11 DEF WriteState, FilesInv, ApplyInv, ApplyPc, Prepared, PreparedOp
  <2>2. Fit(config.val, op.next, wants)
    BY <2>1, <1>t, NewRecordFits
  <2>3. /\ pc = "writeState" /\ pc' = "compare" /\ record' = op.next
        /\ UNCHANGED <<config, wants, op>>
    BY <1>11 DEF WriteState, Goto
  <2>4. Fit(config.val, record, wants)' /\ Fit(config.val, op.prev, wants)'
    BY <2>1, <2>2, <2>3 DEF Fit, Covers, Untyped
  <2>. QED BY <2>1, <2>3, <2>4, <1>o, <1>f DEF FilesInv, RestoreInv, ApplyInv, Prepared, ApplyPc
<1>12. CASE Compare
  <2>1. /\ pc = "compare" /\ pc' \in {"rename", "unwriteState"}
        /\ UNCHANGED <<config, record, wants, op>>
    BY <1>12 DEF Compare, Goto
  <2>. QED BY <2>1, <1>o, <1>u, <1>f DEF FilesInv, RestoreInv, ApplyInv, Prepared, ApplyPc
<1>13. CASE Rename
  <2>1. /\ op.next = Recorded(op.raw.val, op.prev, op.plan) /\ op.plan \in Targets
        /\ op.new = Projected(op.raw.val, op.prev, op.plan)
        /\ Restorable(op.raw.val, op.prev) /\ Fit(op.raw.val, op.prev, op.own)
        /\ record = op.next
    BY <1>13 DEF Rename, FilesInv, ApplyInv, ApplyPc, Prepared, PreparedOp
  <2>2. Fit(op.new, op.next, op.own)
    BY <2>1, <1>t, ProjectionFits
  <2>3. /\ pc' = "verify" /\ config'.val = op.new /\ config'.form = "valid"
        /\ wants' = op.own /\ UNCHANGED <<record, op>>
    BY <1>13 DEF Rename, Goto
  <2>4. Fit(config.val, record, wants)'
    BY <2>1, <2>2, <2>3 DEF Fit, Covers, Untyped
  <2>5. PreparedOp /\ op.plan \in Targets
    BY <1>13 DEF Rename, FilesInv, ApplyInv, ApplyPc, Prepared
  <2>. QED BY <2>1, <2>3, <2>4, <2>5, <1>o DEF FilesInv, RestoreInv, ApplyInv, Prepared, ApplyPc
<1>14. CASE Verify
  <2>1. CASE Applied
    BY <1>14, <2>1, <1>s, Callers DEF Verify
  <2>2. CASE Goto("rollback", why) /\ op' = op
    <3>1. pc = "verify" /\ pc' = "rollback" /\ UNCHANGED <<config, record, wants, op>>
      BY <1>14, <2>2 DEF Verify, Goto
    <3>. QED BY <3>1, <1>o, <1>u DEF FilesInv, RestoreInv, ApplyInv, Prepared, ApplyPc
  <2>. QED BY <1>14, <2>1, <2>2 DEF Verify
<1>15. CASE Rollback
  <2>1. /\ op.next = Recorded(op.raw.val, op.prev, op.plan) /\ op.plan \in Targets
        /\ op.raw.form = "valid" /\ Fit(op.raw.val, op.prev, op.own) /\ record = op.next
    BY <1>15 DEF Rollback, FilesInv, ApplyInv, ApplyPc, Prepared, PreparedOp
  <2>2. Fit(op.raw.val, op.next, op.own)
    BY <2>1, <1>t, NewRecordFits
  <2>3. /\ pc = "rollback" /\ pc' = "unwriteState" /\ config' = op.raw
        /\ wants' = op.own /\ UNCHANGED <<record, op>>
    BY <1>15 DEF Rollback, Goto
  <2>4. Fit(config.val, record, wants)' /\ Fit(config.val, op.prev, wants)'
    BY <2>1, <2>2, <2>3 DEF Fit, Covers, Untyped
  <2>5. PreparedOp /\ op.plan \in Targets
    BY <1>15 DEF Rollback, FilesInv, ApplyInv, ApplyPc, Prepared
  <2>. QED BY <2>1, <2>3, <2>4, <2>5, <1>o DEF FilesInv, RestoreInv, ApplyInv, Prepared, ApplyPc
<1>16. CASE UnwriteState
  <2>1. Fit(config.val, op.prev, wants)
    BY <1>16 DEF UnwriteState, FilesInv, ApplyInv
  <2>. QED BY <1>16, <2>1, <1>f, FilesSettled, Callers DEF UnwriteState, Fit, Covers, Untyped
<1>17. CASE ApplyFault
  <2>1. CASE Goto("unwriteState", why) /\ op' = op /\ pc = "rename"
    <3>1. pc' = "unwriteState" /\ UNCHANGED <<config, record, wants, op>>
      BY <1>17, <2>1 DEF ApplyFault, Goto
    <3>. QED BY <2>1, <3>1, <1>o, <1>u DEF FilesInv, RestoreInv, ApplyInv, Prepared, ApplyPc
  <2>2. CASE ApplyFailed
    BY <1>17, <2>2, <1>s, Callers DEF ApplyFault
  <2>. QED BY <1>17, <2>1, <2>2 DEF ApplyFault
<1>18. CASE \E f \in Field : \E v \in Typed[f] : Edit(f, v)
  <2>1. PICK f \in Field : \E v \in Typed[f] : Edit(f, v)
    BY <1>18
  <2>2. PICK v \in Typed[f] : Edit(f, v)
    BY <2>1
  <2>3. /\ v \in Content
        /\ v \in Lent[f] => ~record[f].managed /\ op.plan[f] = Unplanned
        /\ config'.val = [config.val EXCEPT ![f] = v] /\ config'.form # "missing"
        /\ wants' = [wants EXCEPT ![f] = v]
        /\ UNCHANGED <<record, pc, op>>
    BY <2>2, ConfigPatchAssumption DEF Edit, MayType
  <2>4. Fit(config.val, record, wants)'
    <3>1. Fit([config.val EXCEPT ![f] = v], record, [wants EXCEPT ![f] = v])
      BY <2>3, <1>f, <1>t, EditFits
    <3>. QED BY <2>3, <3>1 DEF Fit, Covers, Untyped
  <2>5. ASSUME pc \in {"writeState", "compare", "rename", "unwriteState"}
        PROVE  Fit(config.val, op.prev, wants)'
    <3>1. Fit(config.val, op.prev, wants)
      BY <2>5 DEF FilesInv, ApplyInv
    <3>2. op.prev[f].managed => record[f].managed
      <4>1. CASE record = op.prev
        BY <4>1
      <4>2. CASE record = Recorded(op.raw.val, op.prev, op.plan)
        BY <4>2 DEF Recorded
      <4>. QED BY <2>5, <4>1, <4>2 DEF FilesInv, ApplyInv, Prepared, PreparedOp
    <3>3. Fit([config.val EXCEPT ![f] = v], op.prev, [wants EXCEPT ![f] = v])
      BY <2>3, <3>1, <3>2, <1>t, EditFits
    <3>. QED BY <2>3, <3>3 DEF Fit, Covers, Untyped
  <2>6. RestoreInv'
    BY <2>3, <1>t DEF FilesInv, RestoreInv, Fit, Covers, Untyped, Merged, Fields, Stable
  <2>7. pc' = "writeState" =>
          (\A g \in Stable :
             op.plan[g] # Unplanned /\ wants[g] \in Lent[g] => wants[g] = op.own[g])'
    BY <2>3, <1>t DEF FilesInv, ApplyInv, Fields, Stable
  <2>8. ApplyInv'
    BY <2>3, <2>5, <2>7, <1>o DEF FilesInv, ApplyInv, Prepared, ApplyPc
  <2>. QED BY <2>3, <2>4, <2>6, <2>8 DEF FilesInv
<1>19. CASE EditElsewhere \/ Create
  <2>1. config'.val = config.val /\ config'.form # "missing" /\ UNCHANGED <<record, wants, pc, op>>
    BY <1>19, <1>f, <1>t DEF EditElsewhere, Create, NoFile, File
  <2>2. /\ Fit(config.val, record, wants)'
        /\ Fit(config.val, op.prev, wants) => Fit(config.val, op.prev, wants)'
    BY <2>1, <1>f DEF Fit, Covers, Untyped
  <2>3. RestoreInv'
    BY <2>1 DEF FilesInv, RestoreInv, Fit, Covers, Untyped, Merged
  <2>. QED BY <2>1, <2>2, <2>3, <1>o DEF FilesInv, ApplyInv, Prepared, ApplyPc
<1>20. CASE Delete
  <2>1. config'.val = Nothing /\ wants' = Nothing /\ UNCHANGED <<record, pc, op>>
    BY <1>20 DEF Delete, NoFile
  <2>2. \A f \in Stable : wants'[f] = Absent /\ Absent \notin Lent[f]
    BY <2>1 DEF Nothing, Stable
  <2>3. Fit(config.val, record, wants)'
    <3>1. Fit(Nothing, record, Nothing)
      BY <1>f, <1>t, DeleteFits
    <3>. QED BY <2>1, <3>1 DEF Fit, Covers, Untyped
  <2>4. Fit(config.val, op.prev, wants) => Fit(config.val, op.prev, wants)'
    <3>1. Fit(config.val, op.prev, wants) => Fit(Nothing, op.prev, Nothing)
      BY <1>t, DeleteFits
    <3>. QED BY <2>1, <3>1 DEF Fit, Covers, Untyped
  <2>5. RestoreInv'
    BY <2>1 DEF FilesInv, RestoreInv, Fit, Covers, Untyped, Merged
  <2>6. ApplyInv'
    BY <2>1, <2>2, <2>4, <1>o DEF FilesInv, ApplyInv, Prepared, ApplyPc
  <2>. QED BY <2>1, <2>3, <2>5, <2>6 DEF FilesInv
<1>21. CASE UNCHANGED vars
  <2>1. UNCHANGED <<config, record, wants, pc, op>>
    BY <1>21 DEF vars
  <2>2. RestoreInv'
    BY <2>1 DEF FilesInv, RestoreInv, Fit, Covers, Untyped, Merged
  <2>. QED BY <2>1, <2>2, <1>o, <1>u DEF FilesInv, ApplyInv, Prepared, ApplyPc
<1>. QED
  BY <1>1, <1>2, <1>3, <1>4, <1>5, <1>6, <1>7, <1>8, <1>9, <1>10, <1>11, <1>12, <1>13,
     <1>14, <1>15, <1>16, <1>17, <1>18, <1>19, <1>20, <1>21
     DEF Next, RestoreStep, ApplyStep, User

LEMMA FilesInit == Init => TypeOK /\ FilesInv
<1>. SUFFICES ASSUME Init PROVE TypeOK /\ FilesInv
  OBVIOUS
<1>1. wants \in Fields
  BY DEF Init, Fields
<1>2. TypeOK
  BY <1>1, Constants, ConfigPatchAssumption DEF Init, TypeOK, File, Form, Pc, Why
<1>3. Fit(wants, NoRecord, wants)
  BY <1>1, FitNoRecord
<1>4. config.val = wants /\ config.form = "valid" /\ record = NoRecord /\ pc = "idle"
  BY DEF Init
<1>5. FilesInv
  BY <1>3, <1>4 DEF FilesInv, RestoreInv, ApplyInv, Prepared, ApplyPc
<1>. QED BY <1>2, <1>5

\* Whatever fails and whenever hellogrok is killed, the two files determine the
\* user's value of every field with a fixed projection.
THEOREM NeverStranded == Spec => []StableRecoverable
<1>1. Init => TypeOK /\ FilesInv
  BY FilesInit
<1>2. TypeOK /\ FilesInv /\ [Next]_vars => TypeOK' /\ FilesInv'
  BY TypeStep, FilesStep
<1>3. FilesInv => StableRecoverable
  BY DEF FilesInv, Fit, StableRecoverable
<1>. QED BY <1>1, <1>2, <1>3, PTL DEF Spec

-----------------------------------------------------------------------------
(* Originals: they never change, and are never a local route.              *)

\* The state file is only ever given up, extended from what ApplyRead saw, or
\* put back to that.
LEMMA RecordSteps ==
  ASSUME TypeOK, FilesInv, [Next]_vars
  PROVE  \/ record' \in {record, NoRecord}
         \/ record = op.prev /\ record' = Recorded(op.raw.val, op.prev, op.plan)
         \/ record = Recorded(op.raw.val, op.prev, op.plan) /\ record' = op.prev
<1>1. CASE WriteState
  BY <1>1 DEF WriteState, FilesInv, ApplyInv, Prepared, PreparedOp
<1>2. CASE UnwriteState
  BY <1>2 DEF UnwriteState, FilesInv, ApplyInv, Prepared, PreparedOp
<1>3. CASE Start \/ RestoreCommand \/ Stop \/ Load \/ Update \/ Relinquish \/ Crash
  BY <1>3 DEF Start, RestoreCommand, Stop, Load, Update, Relinquish, Crash
<1>4. CASE RestoreRead \/ CompareBack \/ RenameBack \/ Remove \/ RestoreFault
  BY <1>4 DEF RestoreRead, CompareBack, RenameBack, Remove, RestoreFault
<1>5. CASE ApplyRead \/ Compare \/ Rename \/ Verify \/ Rollback \/ ApplyFault
  BY <1>5 DEF ApplyRead, Compare, Rename, Verify, Rollback, ApplyFault
<1>6. CASE User
  BY <1>6 DEF User, Edit, EditElsewhere, Delete, Create
<1>7. CASE UNCHANGED vars
  BY <1>7 DEF vars
<1>. QED BY <1>1, <1>2, <1>3, <1>4, <1>5, <1>6, <1>7 DEF Next, RestoreStep, ApplyStep

\* Re-applying keeps the original of a field that is managed already.
THEOREM OriginalsKept == Spec => OriginalsFrozen
<1>1. ASSUME TypeOK, FilesInv, [Next]_vars, NEW f \in Field,
             record[f].managed, record'[f].managed
      PROVE  record'[f].original = record[f].original
  <2>1. CASE record' \in {record, NoRecord}
    BY <1>1, <2>1 DEF NoRecord, Unmanaged
  <2>2. \A val \in Fields, rec \in Records, plan \in Plans :
          rec[f].managed => /\ Recorded(val, rec, plan)[f].managed
                            /\ Recorded(val, rec, plan)[f].original = rec[f].original
    BY DEF Recorded
  <2>3. op.raw.val \in Fields /\ op.prev \in Records /\ op.plan \in Plans
    BY <1>1 DEF TypeOK, Op, File
  <2>. QED BY <1>1, <2>1, <2>2, <2>3, RecordSteps
<1>2. Init => TypeOK /\ FilesInv
  BY FilesInit
<1>3. TypeOK /\ FilesInv /\ [Next]_vars => TypeOK' /\ FilesInv'
  BY TypeStep, FilesStep
<1>4. TypeOK /\ FilesInv /\ [Next]_vars =>
        [\A f \in Field : record[f].managed /\ record'[f].managed =>
           record'[f].original = record[f].original]_vars
  BY <1>1
<1>. QED BY <1>2, <1>3, <1>4, PTL DEF Spec, OriginalsFrozen

\* No endpoint of the running proxy shows a local route hellogrok has not recorded.
Owned(val, rec) == \A f \in endpoints : ~rec[f].managed => val[f] # LocalRoute

Genuine(rec) == \A f \in Route : rec[f].managed => rec[f].original # LocalRoute

RouteInv ==
  /\ Genuine(record) /\ Owned(config.val, record)
  /\ pc \in {"compareBack", "renameBack"} => Owned(op.raw.val, record)
  /\ pc = "remove" => \A f \in endpoints : config.val[f] # LocalRoute
  /\ pc \in ApplyPc => {f \in Route : op.plan[f] # Unplanned} = endpoints
  /\ pc \in Prepared => Owned(op.raw.val, op.prev) /\ Genuine(op.prev)
  /\ pc \in {"writeState", "compare", "rename", "unwriteState"} => Owned(config.val, op.prev)

\* With all originals back, or nothing at all, no endpoint shows a local route.
LEMMA OwnedByNobody ==
  ASSUME NEW val \in Fields, NEW rec \in Records, Genuine(rec), Owned(val, rec),
         endpoints \subseteq Route, MatchesOriginal(val, rec)
  PROVE  Owned(val, NoRecord)
  BY Constants, ConfigPatchAssumption DEF Owned, Genuine, MatchesOriginal

\* The merge leaves no local route at an endpoint.
LEMMA MergeUnroutes ==
  ASSUME NEW val \in Fields, NEW rec \in Records, NEW wish \in Fields,
         Genuine(rec), Owned(val, rec), endpoints \subseteq Route, Fit(val, rec, wish)
  PROVE  \A f \in endpoints : Merged(val, rec)[f] # LocalRoute
<1>. SUFFICES ASSUME NEW f \in endpoints PROVE Merged(val, rec)[f] # LocalRoute
  OBVIOUS
<1>1. f \in Route /\ f \in Field /\ Lent[f] = {LocalRoute}
  BY ConfigPatchAssumption
<1>2. f \in Stable
  BY <1>1 DEF Stable
<1>3. rec[f].managed => rec[f].applied = LocalRoute
  BY <1>1, <1>2 DEF Fit
<1>. QED BY <1>1, <1>3 DEF Merged, Owned, Genuine

\* What an Apply records of the endpoints it plans to route.
LEMMA RecordsGenuine ==
  ASSUME NEW raw \in Fields, NEW prev \in Records, NEW plan \in Plans,
         Genuine(prev), Owned(raw, prev), {f \in Route : plan[f] # Unplanned} = endpoints
  PROVE  /\ Genuine(Recorded(raw, prev, plan))
         /\ \A f \in endpoints : Recorded(raw, prev, plan)[f].managed
<1>. SUFFICES ASSUME NEW f \in Route
              PROVE  LET next == Recorded(raw, prev, plan)
                     IN  /\ next[f].managed => next[f].original # LocalRoute
                         /\ f \in endpoints => next[f].managed
  BY DEF Genuine
<1>0. f \in Field /\ f \notin Fill /\ (f \in endpoints <=> plan[f] # Unplanned)
  BY ConfigPatchAssumption
<1>1. f \in Rewritten(raw, prev, plan) <=> f \in endpoints
  BY <1>0 DEF Rewritten
<1>2. CASE f \in endpoints
  <2>1. Recorded(raw, prev, plan)[f] =
          [managed |-> TRUE,
           original |-> IF prev[f].managed THEN prev[f].original ELSE raw[f],
           applied |-> plan[f]]
    BY <1>0, <1>1, <1>2 DEF Recorded
  <2>. QED BY <2>1, <1>2 DEF Genuine, Owned
<1>3. CASE f \notin endpoints
  <2>1. Recorded(raw, prev, plan)[f] = prev[f]
    BY <1>0, <1>1, <1>3 DEF Recorded
  <2>. QED BY <2>1, <1>3 DEF Genuine
<1>. QED BY <1>2, <1>3

LEMMA RouteStep == TypeOK /\ FilesInv /\ RouteInv /\ [Next]_vars => RouteInv'
<1>. SUFFICES ASSUME TypeOK, FilesInv, RouteInv, [Next]_vars
              PROVE  RouteInv'
  OBVIOUS
<1>. USE Constants
<1>t. /\ config \in File /\ config.val \in Fields
      /\ record \in Records /\ wants \in Fields
      /\ pc \in Pc /\ endpoints \subseteq Route
      /\ op.raw.val \in Fields /\ op.prev \in Records /\ op.own \in Fields
      /\ op.plan \in Plans /\ op.new \in Fields
  BY DEF TypeOK, File, Op
<1>r. Genuine(record) /\ Owned(config.val, record)
  BY DEF RouteInv
\* Most steps end an operation, or go on with it as it is.
<1>s. pc' \in {"idle", "running", "load", "relinquish", "restore"} /\ Genuine(record)'
        /\ (\A f \in endpoints' : ~record'[f].managed => config'.val[f] # LocalRoute)
        => RouteInv'
  BY DEF RouteInv, Owned, Prepared, ApplyPc
<1>k. UNCHANGED record /\ endpoints' \subseteq endpoints /\ config'.val = config.val =>
        /\ Genuine(record)'
        /\ \A f \in endpoints' : ~record'[f].managed => config'.val[f] # LocalRoute
  BY <1>r DEF Genuine, Owned
<1>c. Restored \/ RestoreFailed \/ Applied \/ ApplyFailed => endpoints' \subseteq endpoints
  BY DEF Goto, Restored, RestoreFailed, Applied, ApplyFailed
<1>n. Genuine(NoRecord)
  BY ConfigPatchAssumption DEF Genuine, NoRecord, Unmanaged
<1>1. CASE Start \/ RestoreCommand \/ Stop \/ Crash
  BY <1>1, <1>s, <1>k DEF Start, RestoreCommand, Stop, Crash, Goto
<1>2. CASE Load
  <2>1. CASE pc' = "apply"
    <3>1. PICK p \in Targets : /\ op' = [NoOp EXCEPT !.plan = p]
                               /\ {f \in Route : p[f] # Unplanned} = Endpoints(config.val)
      BY <1>2, <2>1 DEF Load, Goto
    <3>2. op'.plan = p /\ endpoints' = Endpoints(config.val) /\ LocalRoutes("valid", config.val) = {}
          /\ UNCHANGED <<config, record>>
      BY <1>2, <2>1, <3>1 DEF Load, Goto, NoOp
    <3>3. \A f \in endpoints' : config.val[f] # LocalRoute
      BY <3>2 DEF Endpoints, LocalRoutes
    <3>. QED BY <2>1, <3>1, <3>2, <3>3, <1>r DEF RouteInv, Owned, Genuine, Prepared, ApplyPc
  <2>2. CASE pc' # "apply"
    BY <1>2, <2>2, <1>s, <1>k DEF Load, Goto
  <2>. QED BY <2>1, <2>2
<1>3. CASE Update
  <2>1. PICK p \in Targets : /\ op' = [NoOp EXCEPT !.plan = p]
                             /\ {f \in Route : p[f] # Unplanned} = endpoints
    BY <1>3 DEF Update
  <2>2. op'.plan = p /\ pc' = "apply" /\ UNCHANGED <<config, record, endpoints>>
    BY <1>3, <2>1 DEF Update, Goto, NoOp
  <2>. QED BY <2>1, <2>2, <1>r DEF RouteInv, Owned, Genuine, Prepared, ApplyPc
<1>4. CASE Relinquish
  <2>1. CASE record' = NoRecord /\ endpoints' = {}
    BY <1>4, <2>1, <1>n, <1>s DEF Relinquish, Goto, Genuine
  <2>2. CASE UNCHANGED <<record, endpoints>>
    BY <1>4, <2>2, <1>s, <1>k DEF Relinquish, Goto
  <2>. QED BY <1>4, <2>1, <2>2 DEF Relinquish, Goto
<1>5. CASE RestoreRead
  <2>1. CASE Restored /\ record' = NoRecord
                /\ (\/ record = NoRecord
                    \/ config.form = "missing"
                    \/ config.form = "valid" /\ MatchesOriginal(config.val, record))
    <3>1. Owned(config.val, NoRecord)
      <4>1. CASE config.form = "missing"
        BY <4>1, <1>t, ConfigPatchAssumption DEF FilesInv, Owned, Nothing
      <4>2. CASE MatchesOriginal(config.val, record)
        BY <4>2, <1>t, <1>r, OwnedByNobody
      <4>. QED BY <2>1, <4>1, <4>2, <1>r
    <3>. QED BY <1>5, <2>1, <3>1, <1>c, <1>n, <1>s, Callers DEF RestoreRead, Owned, Genuine
  <2>2. CASE RestoreFailed /\ record' = record
    BY <1>5, <2>2, <1>c, <1>s, <1>k, Callers DEF RestoreRead
  <2>3. CASE /\ Goto("compareBack", why) /\ record' = record
             /\ op' = [NoOp EXCEPT !.raw = config, !.prev = record, !.own = wants,
                                   !.new = Merged(config.val, record)]
    <3>1. op'.raw = config /\ pc' = "compareBack" /\ UNCHANGED <<config, record, endpoints>>
      BY <1>5, <2>3 DEF RestoreRead, Goto, NoOp
    <3>. QED BY <3>1, <1>r DEF RouteInv, Owned, Genuine, Prepared, ApplyPc
  <2>. QED BY <1>5, <2>1, <2>2, <2>3 DEF RestoreRead
<1>6. CASE CompareBack
  <2>1. CASE Goto("renameBack", why) /\ op' = op
    <3>1. pc = "compareBack" /\ pc' = "renameBack" /\ UNCHANGED <<config, record, endpoints>>
      BY <1>6, <2>1 DEF CompareBack, Goto
    <3>. QED BY <2>1, <3>1 DEF RouteInv, Owned, Genuine, Prepared, ApplyPc
  <2>2. CASE RestoreFailed
    BY <1>6, <2>2, <1>c, <1>s, <1>k, Callers DEF CompareBack
  <2>. QED BY <1>6, <2>1, <2>2 DEF CompareBack
<1>7. CASE RenameBack
  <2>1. /\ record = op.prev /\ op.new = Merged(op.raw.val, op.prev)
        /\ Fit(op.raw.val, op.prev, op.own) /\ Owned(op.raw.val, record)
    BY <1>7 DEF RenameBack, FilesInv, RestoreInv, RouteInv
  <2>2. \A f \in endpoints : op.new[f] # LocalRoute
    BY <2>1, <1>r, <1>t, MergeUnroutes
  <2>3. config'.val = op.new /\ pc' = "remove" /\ UNCHANGED <<record, endpoints>>
    BY <1>7 DEF RenameBack, Goto
  <2>. QED BY <2>2, <2>3, <1>r DEF RouteInv, Owned, Genuine, Prepared, ApplyPc
<1>8. CASE Remove
  BY <1>8, <1>n, <1>c, <1>s, Callers DEF Remove, RouteInv, Genuine
<1>9. CASE RestoreFault
  BY <1>9, <1>c, <1>s, <1>k, Callers DEF RestoreFault, Goto
<1>10. CASE ApplyRead
  <2>. DEFINE prev == IF MatchesOriginal(config.val, record) THEN NoRecord ELSE record
              new == Projected(config.val, prev, op.plan)
              next == Recorded(config.val, prev, op.plan)
  <2>1. Genuine(prev) /\ Owned(config.val, prev)
    BY <1>n, <1>r, <1>t, OwnedByNobody
  <2>. HIDE DEF prev
  <2>2. CASE ApplyFailed /\ record' \in {record, prev}
    BY <1>10, <2>1, <2>2, <1>c, <1>r, <1>s, Callers DEF ApplyRead, Owned, Genuine
  <2>3. CASE /\ Goto("writeState", why) /\ record' = prev
             /\ op' = [op EXCEPT !.raw = config, !.prev = prev, !.own = wants,
                                 !.new = new, !.next = next]
    <3>1. op'.raw = config /\ op'.prev = prev /\ op'.plan = op.plan
      BY <2>3 DEF TypeOK, Op
    <3>2. pc = "apply" /\ pc' = "writeState" /\ UNCHANGED <<config, endpoints>>
      BY <1>10, <2>3 DEF ApplyRead, Goto
    <3>. QED BY <2>1, <2>3, <3>1, <3>2 DEF RouteInv, Owned, Genuine, Prepared, ApplyPc
  <2>. QED BY <1>10, <2>2, <2>3 DEF ApplyRead, prev
<1>11. CASE WriteState
  <2>1. pc = "writeState" /\ pc' = "compare" /\ record' = op.next
        /\ UNCHANGED <<config, op, endpoints>>
    BY <1>11 DEF WriteState, Goto
  <2>2. op.next = Recorded(op.raw.val, op.prev, op.plan)
    BY <2>1 DEF FilesInv, ApplyInv, Prepared, PreparedOp
  <2>3. Genuine(record)' /\ \A f \in endpoints : record'[f].managed
    BY <2>1, <2>2, <1>t, RecordsGenuine DEF RouteInv, Prepared, ApplyPc, Genuine
  <2>. QED BY <2>1, <2>3 DEF RouteInv, Owned, Genuine, Prepared, ApplyPc
<1>12. CASE Compare
  <2>1. pc = "compare" /\ pc' \in {"rename", "unwriteState"}
        /\ UNCHANGED <<config, record, op, endpoints>>
    BY <1>12 DEF Compare, Goto
  <2>. QED BY <2>1 DEF RouteInv, Owned, Genuine, Prepared, ApplyPc
<1>13. CASE Rename
  <2>1. pc = "rename" /\ pc' = "verify" /\ UNCHANGED <<record, op, endpoints>>
    BY <1>13 DEF Rename, Goto
  <2>2. record = Recorded(op.raw.val, op.prev, op.plan)
    BY <2>1 DEF FilesInv, ApplyInv, Prepared, PreparedOp
  <2>3. \A f \in endpoints : record[f].managed
    BY <2>1, <2>2, <1>t, RecordsGenuine DEF RouteInv, Prepared, ApplyPc
  <2>. QED BY <2>1, <2>3 DEF RouteInv, Owned, Genuine, Prepared, ApplyPc
<1>14. CASE Verify
  <2>1. CASE Applied
    BY <1>14, <2>1, <1>c, <1>s, <1>k, Callers DEF Verify
  <2>2. CASE Goto("rollback", why) /\ op' = op
    <3>1. pc = "verify" /\ pc' = "rollback" /\ UNCHANGED <<config, record, endpoints>>
      BY <1>14, <2>2 DEF Verify, Goto
    <3>. QED BY <2>2, <3>1 DEF RouteInv, Owned, Genuine, Prepared, ApplyPc
  <2>. QED BY <1>14, <2>1, <2>2 DEF Verify
<1>15. CASE Rollback
  <2>1. /\ pc = "rollback" /\ pc' = "unwriteState" /\ config' = op.raw
        /\ UNCHANGED <<record, op, endpoints>>
    BY <1>15 DEF Rollback, Goto
  <2>2. record = Recorded(op.raw.val, op.prev, op.plan)
    BY <2>1 DEF FilesInv, ApplyInv, Prepared, PreparedOp
  <2>3. \A f \in endpoints : record[f].managed
    BY <2>1, <2>2, <1>t, RecordsGenuine DEF RouteInv, Prepared, ApplyPc
  <2>. QED BY <2>1, <2>3 DEF RouteInv, Owned, Genuine, Prepared, ApplyPc
<1>16. CASE UnwriteState
  <2>1. Genuine(op.prev) /\ Owned(config.val, op.prev)
    BY <1>16 DEF UnwriteState, RouteInv, Prepared
  <2>. QED BY <1>16, <2>1, <1>c, <1>s, Callers DEF UnwriteState, Owned, Genuine
<1>17. CASE ApplyFault
  <2>1. CASE Goto("unwriteState", why) /\ op' = op /\ pc = "rename"
    <3>1. pc' = "unwriteState" /\ UNCHANGED <<config, record, endpoints>>
      BY <1>17, <2>1 DEF ApplyFault, Goto
    <3>. QED BY <2>1, <3>1 DEF RouteInv, Owned, Genuine, Prepared, ApplyPc
  <2>2. CASE ApplyFailed
    BY <1>17, <2>2, <1>c, <1>s, <1>k, Callers DEF ApplyFault
  <2>. QED BY <1>17, <2>1, <2>2 DEF ApplyFault
<1>18. CASE User
  <2>1. UNCHANGED <<record, pc, endpoints, op>>
    BY <1>18 DEF User, Edit, EditElsewhere, Delete, Create
  <2>2. \A f \in endpoints : config'.val[f] # LocalRoute \/ config'.val[f] = config.val[f]
    <3>1. CASE \E f \in Field : \E v \in Typed[f] : Edit(f, v)
      <4>1. PICK f \in Field : \E v \in Typed[f] : Edit(f, v)
        BY <3>1
      <4>2. PICK v \in Typed[f] : Edit(f, v)
        BY <4>1
      <4>3. config'.val = [config.val EXCEPT ![f] = v] /\ MayType(f, v)
        BY <4>2 DEF Edit
      <4>4. f \in endpoints => v # LocalRoute
        BY <4>3, <1>t, ConfigPatchAssumption DEF MayType
      <4>. QED BY <4>3, <4>4, <1>t DEF Fields
    <3>2. CASE EditElsewhere
      BY <3>2, <1>t DEF EditElsewhere, File
    <3>3. CASE Delete \/ Create
      BY <3>3, <1>t, ConfigPatchAssumption DEF Delete, Create, NoFile, Nothing
    <3>. QED BY <1>18, <3>1, <3>2, <3>3 DEF User
  <2>. QED BY <2>1, <2>2 DEF RouteInv, Owned, Genuine
<1>19. CASE UNCHANGED vars
  BY <1>19 DEF vars, RouteInv, Owned, Genuine
<1>. QED
  BY <1>1, <1>2, <1>3, <1>4, <1>5, <1>6, <1>7, <1>8, <1>9, <1>10, <1>11, <1>12, <1>13,
     <1>14, <1>15, <1>16, <1>17, <1>18, <1>19 DEF Next, RestoreStep, ApplyStep

\* No local route is ever recorded as the endpoint a Restore would put back.
THEOREM RoutesNotCaptured == Spec => []NoRouteCaptured
<1>1. Init => RouteInv
  BY ConfigPatchAssumption
     DEF Init, RouteInv, Genuine, Owned, NoRecord, Unmanaged, Prepared, ApplyPc
<1>2. Init => TypeOK /\ FilesInv
  BY FilesInit
<1>3. TypeOK /\ FilesInv /\ RouteInv /\ [Next]_vars => TypeOK' /\ FilesInv' /\ RouteInv'
  BY TypeStep, FilesStep, RouteStep
<1>4. RouteInv => NoRouteCaptured
  BY DEF RouteInv, Genuine, NoRouteCaptured
<1>. QED BY <1>1, <1>2, <1>3, <1>4, PTL DEF Spec
=============================================================================
