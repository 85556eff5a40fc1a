---------------------------- MODULE JobRunProofs ----------------------------
(***************************************************************************)
(* Proofs about JobRun, for every set of projects and jobs, every number   *)
(* of stages, every dependency relation and every number of crashes.       *)
(*                                                                         *)
(* The claim and the rows a run leaves behind are invariants of the        *)
(* program, but neither is inductive alone.  ClaimIsExclusive needs only   *)
(* the types.  What a finished job's rows say rests on JobInv, which       *)
(* follows one job's rows through its program counter: as long as the      *)
(* context is live, every stage the plan has settled has a row that says   *)
(* the same, and once the context is cancelled no outcome but "cancelled"  *)
(* can be decided.  DependenciesSucceeded is kept because a step changes   *)
(* the state of the stage at the cursor only, which has not succeeded yet, *)
(* so that no stage's dependency ever stops being one that succeeded.      *)
(***************************************************************************)
EXTENDS JobRun, TLAPS

-----------------------------------------------------------------------------

(* The program as built and the program with Reconcile at startup, in one: *)
(* what holds of EitherSpec holds of both.                                 *)

EitherNext == Next \/ NextReconciling

EitherSpec == Init /\ [][EitherNext]_vars

LEMMA BothAreEither == (Spec => EitherSpec) /\ (ReconcilingSpec => EitherSpec)
<1>1. [Next]_vars => [EitherNext]_vars
  BY DEF EitherNext
<1>2. [NextReconciling]_vars => [EitherNext]_vars
  BY DEF EitherNext
<1> QED BY <1>1, <1>2, PTL DEF Spec, ReconcilingSpec, EitherSpec

-----------------------------------------------------------------------------

(* Updates of functions stay within their types. *)

\* Updating one argument of a function with a value of its range.
LEMMA UpdateType ==
  ASSUME NEW S, NEW T, NEW f \in [S -> T], NEW x, NEW v \in T
  PROVE  [f EXCEPT ![x] = v] \in [S -> T]
  OBVIOUS

\* Updating one argument of one of a family of functions.
LEMMA UpdateNestedType ==
  ASSUME NEW S, NEW R, NEW T, NEW f \in [S -> [R -> T]], NEW x \in S, NEW y,
         NEW v \in T
  PROVE  [f EXCEPT ![x][y] = v] \in [S -> [R -> T]]
  OBVIOUS

-----------------------------------------------------------------------------

\* The executor's cursor stands on a stage from the moment a stage is entered
\* or skipped until it is settled.
CursorInv ==
  \A j \in Jobs :
    /\ pc[j] \in {"enter", "stage", "commit", "insert", "settle"} =>
         cursor[j] \in Stages
    /\ pc[j] = "settle" => plan[j][cursor[j]] \in StageTerminal

TypeInv == TypeOK /\ CursorInv

\* A stage row is only ever given a stage state.
LEMMA WriteStageRowType ==
  ASSUME TypeOK, NEW j \in Jobs, NEW s \in Stages, NEW state \in StageState,
         WriteStageRow(j, s, state)
  PROVE  stageRow' \in StageRows
  BY UpdateNestedType DEF TypeOK, WriteStageRow, StageRows

\* Settling a stage in the plan.
LEMMA PlanUpdateType ==
  ASSUME TypeOK, NEW j \in Jobs, NEW s, NEW state \in StageState
  PROVE  [plan EXCEPT ![j][s] = state] \in Plans
  BY UpdateNestedType DEF TypeOK, Plans

\* Recording the state of an artifact.
LEMMA ArtifactUpdateType ==
  ASSUME TypeOK, NEW p \in Projects, NEW s, NEW status \in {"ready", "failed"}
  PROVE  [artRow EXCEPT ![p][s] = status] \in ArtifactRows
  BY UpdateNestedType DEF TypeOK, ArtifactRows

LEMMA RequestTypes ==
  ASSUME TypeInv, NEW j \in Jobs, Request(j)
  PROVE  TypeInv'
<1> USE JobRunAssumption DEF TypeInv, TypeOK, PC, Executing, Goto
<1>1. CASE Prepare(j)
  <2>1. plan' \in Plans
    <3>1. CASE UNCHANGED plan
      BY <3>1
    <3>2. ASSUME NEW selected, NEW force,
                 NEW states \in Build(ProjectOf[j], selected, force),
                 plan' = [plan EXCEPT ![j] = states]
          PROVE  plan' \in Plans
      <4>1. states \in [Stages -> StageState \cup {"absent"}]
        BY <3>2 DEF Build, StageState
      <4> QED BY <3>2, <4>1, UpdateType DEF Plans
    <3> QED BY <1>1, <3>1, <3>2 DEF Prepare
  <2>2. tmp' \in [Jobs -> BOOLEAN]
    <3>1. tmp' = [k \in Jobs |-> IF ProjectOf[k] = ProjectOf[j] THEN FALSE ELSE tmp[k]]
      BY <1>1 DEF Prepare, SweepTempDirectories
    <3>2. \A k \in Jobs : tmp[k] \in BOOLEAN
      OBVIOUS
    <3> QED BY <3>1, <3>2
  <2>3. pc' \in [Jobs -> PC]
    BY <1>1 DEF Prepare
  <2>4. \A k \in Jobs : k # j => /\ pc'[k] = pc[k]
                                 /\ cursor'[k] = cursor[k]
                                 /\ plan'[k] = plan[k]
    BY <1>1, <2>1 DEF Prepare, Plans
  <2>5. pc'[j] \in {"prepared", "rejected"}
    BY <1>1 DEF Prepare
  <2>6. CursorInv'
    BY <2>4, <2>5 DEF CursorInv
  <2> QED BY <1>1, <2>1, <2>2, <2>3, <2>6 DEF Prepare, rowVars
<1>2. CASE Begin(j)
  <2>1. pc' \in [Jobs -> PC] /\ CursorInv'
    BY <1>2 DEF Begin, CursorInv
  <2>2. running' \in [Projects -> Jobs \cup {NoJob}]
    BY <1>2, UpdateType DEF Begin
  <2> QED BY <1>2, <2>1, <2>2 DEF Begin, rowVars, storeVars
<1>3. CASE Create(j)
  <2>1. pc' \in [Jobs -> PC] /\ CursorInv'
    BY <1>3 DEF Create, CursorInv
  <2>2. running' \in [Projects -> Jobs \cup {NoJob}] /\ ctxDone' \in [Jobs -> BOOLEAN]
    BY <1>3 DEF Create, Finish
  <2> QED BY <1>3, <2>1, <2>2 DEF Create, Status, storeVars
<1> QED BY <1>1, <1>2, <1>3 DEF Request

LEMMA ExecuteTypes ==
  ASSUME TypeInv, NEW j \in Jobs, Execute(j)
  PROVE  TypeInv'
<1> USE JobRunAssumption DEF TypeInv
<1>0. /\ [plan EXCEPT ![j][cursor[j]] = "failed"] \in Plans
      /\ [plan EXCEPT ![j][cursor[j]] = "cancelled"] \in Plans
      /\ [plan EXCEPT ![j][cursor[j]] = "completed"] \in Plans
      /\ [artRow EXCEPT ![ProjectOf[j]][cursor[j]] = "failed"] \in ArtifactRows
      /\ [artRow EXCEPT ![ProjectOf[j]][cursor[j]] = "ready"] \in ArtifactRows
      /\ [tmp EXCEPT ![j] = TRUE] \in [Jobs -> BOOLEAN]
      /\ [tmp EXCEPT ![j] = FALSE] \in [Jobs -> BOOLEAN]
  <2>1. [plan EXCEPT ![j][cursor[j]] = "failed"] \in Plans
    BY PlanUpdateType DEF StageState
  <2>2. [plan EXCEPT ![j][cursor[j]] = "cancelled"] \in Plans
    BY PlanUpdateType DEF StageState
  <2>3. [plan EXCEPT ![j][cursor[j]] = "completed"] \in Plans
    BY PlanUpdateType DEF StageState
  <2>4. [artRow EXCEPT ![ProjectOf[j]][cursor[j]] = "failed"] \in ArtifactRows
    BY ArtifactUpdateType
  <2>5. [artRow EXCEPT ![ProjectOf[j]][cursor[j]] = "ready"] \in ArtifactRows
    BY ArtifactUpdateType
  <2>6. [tmp EXCEPT ![j] = TRUE] \in [Jobs -> BOOLEAN]
    BY UpdateType DEF TypeOK
  <2>7. [tmp EXCEPT ![j] = FALSE] \in [Jobs -> BOOLEAN]
    BY UpdateType DEF TypeOK
  <2> QED BY <2>1, <2>2, <2>3, <2>4, <2>5, <2>6, <2>7
<1>1. CASE MarkRunning(j)
  BY <1>1 DEF MarkRunning, SetStatus, Status, storeVars, CursorInv, TypeOK, PC,
              Executing, Goto
<1>2. CASE ReportSettled(j)
  <2>1. stageRow' \in StageRows
    <3>1. CASE UNCHANGED stageRow
      BY <3>1 DEF TypeOK
    <3>2. CASE /\ cursor[j] \in Stages
               /\ plan[j][cursor[j]] \in StageTerminal
               /\ WriteStageRow(j, cursor[j], plan[j][cursor[j]])
      BY <3>2, WriteStageRowType DEF StageTerminal, StageState
    <3> QED BY <1>2, <3>1, <3>2 DEF ReportSettled
  <2>2. cursor' \in [Jobs -> 1..(NumStages + 1)]
    <3>1. CASE cursor[j] \in Stages
      <4>1. cursor' = [cursor EXCEPT ![j] = cursor[j] + 1]
        BY <1>2, <3>1 DEF ReportSettled, TypeOK
      <4>2. cursor[j] + 1 \in 1..(NumStages + 1)
        BY <3>1 DEF Stages
      <4> QED BY <4>1, <4>2 DEF TypeOK
    <3>2. CASE cursor[j] \notin Stages
      <4>1. cursor' = [cursor EXCEPT ![j] = 1] /\ 1 \in 1..(NumStages + 1)
        BY <1>2, <3>2 DEF ReportSettled
      <4> QED BY <4>1 DEF TypeOK
    <3> QED BY <3>1, <3>2
  <2>3. pc' \in [Jobs -> PC]
    BY <1>2 DEF ReportSettled, TypeOK, PC, Executing, Goto
  <2>4. CursorInv'
    BY <1>2 DEF ReportSettled, CursorInv, TypeOK, Goto
  <2> QED BY <1>2, <2>1, <2>2, <2>3, <2>4 DEF ReportSettled, storeVars, TypeOK
<1>3. CASE StopCancelled(j)
  BY <1>3 DEF StopCancelled, CancelRemaining, StageState, Plans, rowVars,
              storeVars, CursorInv, TypeOK, PC, Executing, Goto
<1>4. CASE PassOver(j)
  BY <1>4 DEF PassOver, Stages, rowVars, storeVars, CursorInv, TypeOK
<1>5. CASE SkipBlocked(j)
  BY <1>5 DEF SkipBlocked, StageState, Plans, StageTerminal, rowVars, storeVars,
              CursorInv, TypeOK, PC, Executing, Goto
<1>6. CASE EnterStage(j)
  BY <1>6 DEF EnterStage, StageState, Plans, rowVars, storeVars, CursorInv,
              TypeOK, PC, Executing, Goto
<1>7. CASE BeginStage(j)
  <2>1. stageRow' \in StageRows
    <3>1. cursor[j] \in Stages
      BY <1>7 DEF BeginStage, CursorInv
    <3> QED BY <1>7, <3>1, WriteStageRowType DEF BeginStage, StageState
  <2>2. plan' \in Plans /\ tmp' \in [Jobs -> BOOLEAN]
    BY <1>0, <1>7 DEF BeginStage, TypeOK
  <2>3. pc' \in [Jobs -> PC]
    BY <1>7 DEF BeginStage, TypeOK, PC, Executing, Goto
  <2>4. CursorInv'
    BY <1>7 DEF BeginStage, CursorInv, StageTerminal, TypeOK, Plans, Goto
  <2> QED BY <1>7, <2>1, <2>2, <2>3, <2>4 DEF BeginStage, TypeOK
<1>8. CASE StageSucceeds(j)
  BY <1>8 DEF StageSucceeds, rowVars, storeVars, CursorInv, TypeOK, PC,
              Executing, Goto
<1>9. CASE StageFails(j)
  <2>1. /\ plan' \in Plans
        /\ tmp' \in [Jobs -> BOOLEAN]
        /\ artRow' \in ArtifactRows
    BY <1>0, <1>9 DEF StageFails
  <2>2. pc' \in [Jobs -> PC]
    BY <1>9 DEF StageFails, TypeOK, PC, Executing, Goto
  <2>3. CursorInv'
    BY <1>9 DEF StageFails, CursorInv, StageTerminal, TypeOK, Plans, Goto
  <2> QED BY <1>9, <2>1, <2>2, <2>3 DEF StageFails, rowVars, TypeOK
<1>10. CASE Publish(j)
  <2>1. plan' \in Plans /\ tmp' \in [Jobs -> BOOLEAN]
    BY <1>0, <1>10 DEF Publish, TypeOK
  <2>2. artDir' \in [Projects -> SUBSET Stages]
    BY <1>10 DEF Publish, CursorInv, TypeOK
  <2>3. pc' \in [Jobs -> PC]
    BY <1>10 DEF Publish, TypeOK, PC, Executing, Goto
  <2>4. CursorInv'
    BY <1>10 DEF Publish, CursorInv, StageTerminal, TypeOK, Plans, Goto
  <2> QED BY <1>10, <2>1, <2>2, <2>3, <2>4 DEF Publish, rowVars, TypeOK
<1>11. CASE InsertRow(j)
  <2>1. plan' \in Plans /\ artRow' \in ArtifactRows
    BY <1>0, <1>11 DEF InsertRow, TypeOK
  <2>2. pc' \in [Jobs -> PC]
    BY <1>11 DEF InsertRow, TypeOK, PC, Executing, Goto
  <2>3. CursorInv'
    BY <1>11 DEF InsertRow, CursorInv, StageTerminal, TypeOK, Plans, Goto
  <2> QED BY <1>11, <2>1, <2>2, <2>3 DEF InsertRow, rowVars, TypeOK
<1>12. CASE Settle(j)
  <2>1. cursor[j] \in Stages /\ plan[j][cursor[j]] \in StageState
    BY <1>12 DEF Settle, CursorInv, StageTerminal, StageState
  <2>2. stageRow' \in StageRows
    BY <1>12, <2>1, WriteStageRowType DEF Settle
  <2>3. cursor' \in [Jobs -> 1..(NumStages + 1)]
    BY <1>12, <2>1 DEF Settle, Stages, TypeOK
  <2>4. pc' \in [Jobs -> PC] /\ CursorInv'
    BY <1>12 DEF Settle, CursorInv, TypeOK, PC, Executing, Goto
  <2> QED BY <1>12, <2>2, <2>3, <2>4 DEF Settle, storeVars, TypeOK
<1>13. CASE LoopDone(j)
  BY <1>13 DEF LoopDone, rowVars, storeVars, CursorInv, TypeOK, PC, Executing, Goto
<1>14. CASE Decide(j)
  BY <1>14 DEF Decide, jobOutcome, rowVars, storeVars, CursorInv, TypeOK, PC,
               Executing, Goto
<1>15. CASE RecordOutcome(j)
  BY <1>15 DEF RecordOutcome, SetStatus, CheckTransition, CanTransition,
               transitions, Status, storeVars, CursorInv, TypeOK, PC, Executing,
               Goto
<1>16. CASE Release(j)
  BY <1>16 DEF Release, Finish, rowVars, storeVars, CursorInv, TypeOK, PC,
               Executing, Goto
<1> QED BY <1>1, <1>2, <1>3, <1>4, <1>5, <1>6, <1>7, <1>8, <1>9, <1>10, <1>11,
           <1>12, <1>13, <1>14, <1>15, <1>16 DEF Execute

\* Reconcile only writes "failed" into rows that are there.
LEMMA ReconcileTypes ==
  ASSUME TypeOK, Reconcile
  PROVE  jobRow' \in [Jobs -> Status \cup {"none"}] /\ stageRow' \in StageRows
<1>1. jobRow' \in [Jobs -> Status \cup {"none"}]
  BY DEF TypeOK, Reconcile, Status
<1>2. stageRow' \in StageRows
  <2>1. \A j \in Jobs, s \in Stages : stageRow[j][s] \in StageState \cup {"none"}
    BY DEF TypeOK, StageRows
  <2> QED BY <2>1 DEF Reconcile, StageRows, StageState
<1> QED BY <1>1, <1>2

LEMMA InitTypes == Init => TypeInv
BY JobRunAssumption DEF Init, TypeInv, CursorInv, TypeOK, PC, Executing,
                        Stages, Status, StageState, Plans, StageRows,
                        ArtifactRows

LEMMA StepTypes == TypeInv /\ [EitherNext]_vars => TypeInv'
<1> SUFFICES ASSUME TypeInv, [EitherNext]_vars
             PROVE  TypeInv'
  OBVIOUS
<1> USE JobRunAssumption DEF TypeInv
<1>1. ASSUME NEW p \in Projects, Cancel(p)
      PROVE  TypeInv'
  BY <1>1 DEF Cancel, TypeOK, execVars, rowVars, storeVars, CursorInv
<1>2. CASE Restart /\ (UNCHANGED rowVars \/ Reconcile)
  <2>1. /\ jobRow' \in [Jobs -> Status \cup {"none"}]
        /\ stageRow' \in StageRows
    BY <1>2, ReconcileTypes DEF TypeOK, rowVars
  <2>2. /\ pc' \in [Jobs -> PC]
        /\ running' \in [Projects -> Jobs \cup {NoJob}]
        /\ crashes' \in 0..MaxCrashes
    BY <1>2 DEF Restart, TypeOK, PC, Executing
  <2>3. UNCHANGED <<plan, cursor, decided, ctxDone, tmp, artRow, artDir>>
    BY <1>2 DEF Restart, storeVars
  <2>4. CursorInv'
    BY <1>2, <2>3 DEF Restart, CursorInv
  <2> QED BY <2>1, <2>2, <2>3, <2>4 DEF TypeOK
<1>3. CASE UNCHANGED vars
  BY <1>3 DEF vars, TypeOK, execVars, rowVars, storeVars, CursorInv
<1> QED BY <1>1, <1>2, <1>3, RequestTypes, ExecuteTypes
        DEF EitherNext, Next, NextReconciling, RestartOnly, RestartReconciling,
            Step, Quiescent

LEMMA TypeInvInvariant == EitherSpec => []TypeInv
BY InitTypes, StepTypes, PTL DEF EitherSpec

\* Every variable of JobRun keeps its type: in particular a job's row only ever
\* holds a status of the job state machine, and the executor's cursor never
\* leaves the plan.
THEOREM TypeCorrect == Spec => []TypeOK
BY TypeInvInvariant, BothAreEither, PTL DEF TypeInv

-----------------------------------------------------------------------------
(* The claim. *)

\* A step that neither takes nor gives back a claim.
LEMMA ClaimUntouched ==
  ASSUME TypeOK, ClaimIsExclusive, UNCHANGED running,
         \A k \in Jobs : pc'[k] \in Executing <=> pc[k] \in Executing
  PROVE  ClaimIsExclusive'
  BY DEF ClaimIsExclusive

\* A step of Execute other than Release stays within Executing.
LEMMA ExecuteKeepsClaim ==
  ASSUME TypeOK, ClaimIsExclusive, NEW j \in Jobs, Execute(j), ~Release(j)
  PROVE  ClaimIsExclusive'
<1>1. UNCHANGED running
  BY DEF Execute, MarkRunning, ReportSettled, StopCancelled, PassOver,
         SkipBlocked, EnterStage, BeginStage, StageSucceeds, StageFails,
         Publish, InsertRow, Settle, LoopDone, Decide, RecordOutcome
<1>2. /\ pc[j] \in Executing
      /\ \E label \in Executing : pc' = [pc EXCEPT ![j] = label]
  BY DEF Execute, MarkRunning, ReportSettled, StopCancelled, PassOver,
         SkipBlocked, EnterStage, BeginStage, StageSucceeds, StageFails,
         Publish, InsertRow, Settle, LoopDone, Decide, RecordOutcome, Goto,
         Executing, TypeOK
<1>3. \A k \in Jobs : pc'[k] \in Executing <=> pc[k] \in Executing
  BY <1>2 DEF TypeOK
<1> QED BY <1>1, <1>3, ClaimUntouched

LEMMA ClaimInvariant == EitherSpec => []ClaimIsExclusive
<1>1. Init => ClaimIsExclusive
  BY JobRunAssumption DEF Init, ClaimIsExclusive, Executing
<1>2. TypeOK /\ ClaimIsExclusive /\ [EitherNext]_vars => ClaimIsExclusive'
  <2> SUFFICES ASSUME TypeOK, ClaimIsExclusive, [EitherNext]_vars
               PROVE  ClaimIsExclusive'
    OBVIOUS
  <2> USE JobRunAssumption
  <2>1. ASSUME NEW j \in Jobs, Prepare(j)
        PROVE  ClaimIsExclusive'
    BY <2>1 DEF Prepare, Goto, ClaimIsExclusive, TypeOK, Executing
  <2>2. ASSUME NEW j \in Jobs, Begin(j)
        PROVE  ClaimIsExclusive'
    <3>1. CASE running[ProjectOf[j]] # NoJob
      BY <2>2, <3>1 DEF Begin, Goto, ClaimIsExclusive, TypeOK, Executing
    <3>2. CASE running[ProjectOf[j]] = NoJob
      BY <2>2, <3>2 DEF Begin, Goto, ClaimIsExclusive, TypeOK, Executing
    <3> QED BY <3>1, <3>2
  <2>3. ASSUME NEW j \in Jobs, Create(j)
        PROVE  ClaimIsExclusive'
    BY <2>3 DEF Create, Finish, Goto, ClaimIsExclusive, TypeOK, Executing
  <2>4. ASSUME NEW j \in Jobs, Release(j)
        PROVE  ClaimIsExclusive'
    BY <2>4 DEF Release, Finish, Goto, ClaimIsExclusive, TypeOK, Executing
  <2>5. ASSUME NEW p \in Projects, Cancel(p)
        PROVE  ClaimIsExclusive'
    BY <2>5 DEF Cancel, ClaimIsExclusive, execVars
  <2>6. CASE Restart
    BY <2>6 DEF Restart, ClaimIsExclusive, TypeOK, Executing
  <2>7. CASE UNCHANGED vars
    BY <2>7 DEF vars, ClaimIsExclusive, execVars
  <2> QED BY <2>1, <2>2, <2>3, <2>4, <2>5, <2>6, <2>7, ExecuteKeepsClaim
          DEF EitherNext, Next, NextReconciling, RestartOnly,
              RestartReconciling, Step, Quiescent, Request
<1> QED BY <1>1, <1>2, TypeInvInvariant, PTL DEF EitherSpec, TypeInv

\* Whatever requests, cancellations and crashes do, a project is executed by at
\* most one job and the scheduler's entry names it (Scheduler.Begin, Finish).
THEOREM ClaimExclusion == Spec => []ClaimIsExclusive
BY ClaimInvariant, BothAreEither, PTL

-----------------------------------------------------------------------------
(* What a run's rows say. *)

BeforeRow == {"idle", "prepared", "claimed", "rejected"}
BeforeLoop == {"idle", "prepared", "claimed", "rejected", "created", "report"}
InStage == {"enter", "stage", "commit", "insert", "settle"}
AtWork == {"report", "loop", "outcome"} \cup InStage
Decisions == {"completed", "failed", "cancelled"}

\* The row a stage has once its plan state has been reported.
Reported(state) == IF state \in StageTerminal THEN state ELSE "none"

\* The job's row follows the program counter.  A job that is at work without
\* being marked running was cancelled before it could be.
JobRowInv(j) ==
  /\ pc[j] \in BeforeRow => jobRow[j] = "none"
  /\ pc[j] = "created" => jobRow[j] = "pending"
  /\ pc[j] \in AtWork =>
       jobRow[j] = "running" \/ (jobRow[j] = "pending" /\ ctxDone[j])
  /\ pc[j] = "record" =>
       /\ decided[j] \in Decisions
       /\ \/ jobRow[j] = "running"
          \/ jobRow[j] = "pending" /\ decided[j] = "cancelled"
  /\ pc[j] \in {"release", "done"} =>
       decided[j] \in Decisions /\ jobRow[j] = decided[j]

\* Where the plan stands: before the loop no stage has started; in the loop
\* everything before the cursor is settled and only the cursor's stage runs.
PlanInv(j) ==
  /\ pc[j] \in BeforeLoop =>
       \A s \in Stages : plan[j][s] \in {"absent", "pending", "cached", "skipped"}
  /\ pc[j] \in BeforeRow \cup {"created"} => cursor[j] = 1
  /\ pc[j] \in {"loop"} \cup InStage =>
       \A s \in Stages :
         /\ s < cursor[j] => plan[j][s] \in StageTerminal \cup {"absent"}
         /\ s > cursor[j] => plan[j][s] # "running"
  /\ pc[j] = "loop" => \A s \in Stages : plan[j][s] # "running"
  /\ pc[j] = "settle" => plan[j][cursor[j]] \in StageTerminal
  /\ pc[j] \in InStage \ {"settle"} => plan[j][cursor[j]] = "running"
  /\ pc[j] \in InStage => cursor[j] \in Stages
  /\ pc[j] = "outcome" =>
       \A s \in Stages : plan[j][s] \in StageTerminal \cup {"absent"}

\* While the context is live, the rows say what the plan says.
StageRowInv(j) ==
  /\ pc[j] \in BeforeRow \cup {"created"} =>
       \A s \in Stages : stageRow[j][s] = "none"
  /\ pc[j] = "report" /\ ~ctxDone[j] =>
       \A s \in Stages :
         stageRow[j][s] = IF s < cursor[j] THEN Reported(plan[j][s]) ELSE "none"
  /\ pc[j] \in {"loop", "outcome"} /\ ~ctxDone[j] =>
       \A s \in Stages : stageRow[j][s] = Reported(plan[j][s])
  /\ pc[j] \in InStage /\ ~ctxDone[j] =>
       \A s \in Stages : s # cursor[j] => stageRow[j][s] = Reported(plan[j][s])

\* Every selected stage of job j has a row that says it succeeded.
Delivered(j) ==
  \A s \in Stages : plan[j][s] # "absent" => stageRow[j][s] \in Succeeded

\* No stage of job j has a row that says it is running.
NothingRunning(j) == \A s \in Stages : stageRow[j][s] # "running"

\* What has been decided or recorded is what the rows show.
OutcomeInv(j) ==
  /\ pc[j] = "record" /\ decided[j] = "completed" => Delivered(j)
  /\ pc[j] = "record" /\ decided[j] = "failed" => NothingRunning(j)
  /\ jobRow[j] = "completed" => Delivered(j)
  /\ jobRow[j] = "failed" => NothingRunning(j)

JobInv(j) == JobRowInv(j) /\ PlanInv(j) /\ StageRowInv(j) /\ OutcomeInv(j)

Inv == TypeOK /\ \A j \in Jobs : JobInv(j)

\* A step that leaves a job's own state alone, and may only cancel its context.
LEMMA JobInvStable ==
  ASSUME NEW k \in Jobs, JobInv(k),
         pc'[k] = pc[k], plan'[k] = plan[k], cursor'[k] = cursor[k],
         decided'[k] = decided[k], jobRow'[k] = jobRow[k],
         stageRow'[k] = stageRow[k], ctxDone[k] => ctxDone'[k]
  PROVE  JobInv(k)'
<1>1. JobRowInv(k)'
  BY DEF JobInv, JobRowInv
<1>2. PlanInv(k)'
  BY DEF JobInv, PlanInv
<1>3. StageRowInv(k)'
  BY DEF JobInv, StageRowInv, Reported
<1>4. OutcomeInv(k)'
  BY DEF JobInv, OutcomeInv, Delivered, NothingRunning
<1> QED BY <1>1, <1>2, <1>3, <1>4 DEF JobInv

LEMMA PrepareKeepsJobInv ==
  ASSUME TypeOK, NEW j \in Jobs, JobInv(j), Prepare(j)
  PROVE  JobInv(j)'
<1>1. JobRowInv(j)'
  BY JobRunAssumption DEF Prepare, Build, Goto, TypeOK, JobInv, rowVars,
                          JobRowInv, BeforeRow, AtWork, InStage, Decisions
<1>2. PlanInv(j)'
  BY JobRunAssumption DEF Prepare, Build, Goto, TypeOK, JobInv, rowVars,
                          PlanInv, BeforeLoop, BeforeRow, InStage,
                          StageTerminal, Stages, Plans, StageState
<1>3. StageRowInv(j)'
  BY JobRunAssumption DEF Prepare, Build, Goto, TypeOK, JobInv, rowVars,
                          StageRowInv, BeforeRow, InStage, Reported,
                          StageTerminal, Stages, StageRows, Plans
<1>4. OutcomeInv(j)'
  BY JobRunAssumption DEF Prepare, Build, Goto, TypeOK, JobInv, rowVars,
                          OutcomeInv, JobRowInv, BeforeRow, AtWork, InStage,
                          Decisions, Delivered, NothingRunning
<1> QED BY <1>1, <1>2, <1>3, <1>4 DEF JobInv

LEMMA BeginKeepsJobInv ==
  ASSUME TypeOK, NEW j \in Jobs, JobInv(j), Begin(j)
  PROVE  JobInv(j)'
<1>1. JobRowInv(j)'
  BY JobRunAssumption DEF Begin, Goto, TypeOK, JobInv, rowVars, JobRowInv,
                          BeforeRow, AtWork, InStage, Decisions
<1>2. PlanInv(j)'
  BY JobRunAssumption DEF Begin, Goto, TypeOK, JobInv, rowVars, PlanInv,
                          BeforeLoop, BeforeRow, InStage, StageTerminal, Stages,
                          Plans, StageState
<1>3. StageRowInv(j)'
  BY JobRunAssumption DEF Begin, Goto, TypeOK, JobInv, rowVars, StageRowInv,
                          BeforeRow, InStage, Reported, StageTerminal, Stages,
                          StageRows, Plans
<1>4. OutcomeInv(j)'
  BY JobRunAssumption DEF Begin, Goto, TypeOK, JobInv, rowVars, OutcomeInv,
                          JobRowInv, BeforeRow, AtWork, InStage, Decisions,
                          Delivered, NothingRunning
<1> QED BY <1>1, <1>2, <1>3, <1>4 DEF JobInv

LEMMA CreateKeepsJobInv ==
  ASSUME TypeOK, NEW j \in Jobs, JobInv(j), Create(j)
  PROVE  JobInv(j)'
<1>1. JobRowInv(j)'
  BY JobRunAssumption DEF Create, Finish, Goto, TypeOK, JobInv, rowVars,
                          JobRowInv, BeforeRow, AtWork, InStage, Decisions
<1>2. PlanInv(j)'
  BY JobRunAssumption DEF Create, Finish, Goto, TypeOK, JobInv, rowVars,
                          PlanInv, BeforeLoop, BeforeRow, InStage,
                          StageTerminal, Stages, Plans, StageState
<1>3. StageRowInv(j)'
  BY JobRunAssumption DEF Create, Finish, Goto, TypeOK, JobInv, rowVars,
                          StageRowInv, BeforeRow, InStage, Reported,
                          StageTerminal, Stages, StageRows, Plans
<1>4. OutcomeInv(j)'
  BY JobRunAssumption DEF Create, Finish, Goto, TypeOK, JobInv, rowVars,
                          OutcomeInv, JobRowInv, BeforeRow, AtWork, InStage,
                          Decisions, Delivered, NothingRunning
<1> QED BY <1>1, <1>2, <1>3, <1>4 DEF JobInv

LEMMA MarkRunningKeepsJobInv ==
  ASSUME TypeOK, NEW j \in Jobs, JobInv(j), MarkRunning(j)
  PROVE  JobInv(j)'
<1>1. JobRowInv(j)'
  BY JobRunAssumption DEF MarkRunning, SetStatus, CheckTransition,
                          CanTransition, transitions, Status, Goto, TypeOK,
                          JobInv, rowVars, JobRowInv, BeforeRow, AtWork,
                          InStage, Decisions
<1>2. PlanInv(j)'
  BY JobRunAssumption DEF MarkRunning, SetStatus, CheckTransition,
                          CanTransition, transitions, Status, Goto, TypeOK,
                          JobInv, rowVars, PlanInv, BeforeLoop, BeforeRow,
                          InStage, StageTerminal, Stages, Plans, StageState
<1>3. StageRowInv(j)'
  <2>1. pc'[j] = "report" /\ cursor'[j] = 1 /\ UNCHANGED stageRow
    BY DEF MarkRunning, Goto, TypeOK, JobInv, PlanInv, BeforeRow
  <2>2. \A s \in Stages : stageRow[j][s] = "none" /\ ~(s < 1)
    BY DEF MarkRunning, JobInv, StageRowInv, Stages
  <2> QED BY <2>1, <2>2 DEF StageRowInv, BeforeRow, InStage
<1>4. OutcomeInv(j)'
  BY JobRunAssumption DEF MarkRunning, SetStatus, CheckTransition,
                          CanTransition, transitions, Status, Goto, TypeOK,
                          JobInv, rowVars, OutcomeInv, JobRowInv, BeforeRow,
                          AtWork, InStage, Decisions, Delivered, NothingRunning
<1> QED BY <1>1, <1>2, <1>3, <1>4 DEF JobInv

LEMMA ReportSettledKeepsJobInv ==
  ASSUME TypeOK, NEW j \in Jobs, JobInv(j), ReportSettled(j)
  PROVE  JobInv(j)'
<1>1. JobRowInv(j)'
  BY JobRunAssumption DEF ReportSettled, WriteStageRow, Goto, TypeOK, JobInv,
                          rowVars, JobRowInv, BeforeRow, AtWork, InStage,
                          Decisions
<1>2. PlanInv(j)'
  <2>1. \A s \in Stages : plan[j][s] \in {"absent", "pending", "cached", "skipped"}
    BY DEF ReportSettled, JobInv, PlanInv, BeforeLoop
  <2>2. CASE pc'[j] = "report"
    BY <2>1, <2>2 DEF ReportSettled, PlanInv, BeforeLoop, BeforeRow, InStage
  <2>3. CASE pc'[j] = "loop" /\ cursor'[j] = 1
    <3>1. \A s \in Stages : ~(s < 1) /\ plan'[j][s] # "running"
      BY <2>1 DEF ReportSettled, Stages
    <3> QED BY <2>3, <3>1 DEF PlanInv, BeforeLoop, BeforeRow, InStage
  <2> QED BY <2>2, <2>3, JobRunAssumption DEF ReportSettled, Goto, TypeOK
<1>3. StageRowInv(j)'
  BY JobRunAssumption DEF ReportSettled, WriteStageRow, Goto, TypeOK, JobInv,
                          rowVars, StageRowInv, BeforeRow, InStage, Reported,
                          StageTerminal, Stages, StageRows, Plans
<1>4. OutcomeInv(j)'
  BY JobRunAssumption DEF ReportSettled, WriteStageRow, Goto, TypeOK, JobInv,
                          rowVars, OutcomeInv, JobRowInv, BeforeRow, AtWork,
                          InStage, Decisions, Delivered, NothingRunning
<1> QED BY <1>1, <1>2, <1>3, <1>4 DEF JobInv

LEMMA StopCancelledKeepsJobInv ==
  ASSUME TypeOK, NEW j \in Jobs, JobInv(j), StopCancelled(j)
  PROVE  JobInv(j)'
<1>1. JobRowInv(j)'
  BY JobRunAssumption DEF StopCancelled, CancelRemaining, Goto, TypeOK, JobInv,
                          rowVars, JobRowInv, BeforeRow, AtWork, InStage,
                          Decisions
<1>2. PlanInv(j)'
  BY JobRunAssumption DEF StopCancelled, CancelRemaining, Goto, TypeOK, JobInv,
                          rowVars, PlanInv, BeforeLoop, BeforeRow, InStage,
                          StageTerminal, Stages, Plans, StageState
<1>3. StageRowInv(j)'
  BY JobRunAssumption DEF StopCancelled, CancelRemaining, Goto, TypeOK, JobInv,
                          rowVars, StageRowInv, BeforeRow, InStage, Reported,
                          StageTerminal, Stages, StageRows, Plans
<1>4. OutcomeInv(j)'
  BY JobRunAssumption DEF StopCancelled, CancelRemaining, Goto, TypeOK, JobInv,
                          rowVars, OutcomeInv, JobRowInv, BeforeRow, AtWork,
                          InStage, Decisions, Delivered, NothingRunning
<1> QED BY <1>1, <1>2, <1>3, <1>4 DEF JobInv

LEMMA PassOverKeepsJobInv ==
  ASSUME TypeOK, NEW j \in Jobs, JobInv(j), PassOver(j)
  PROVE  JobInv(j)'
<1>1. JobRowInv(j)'
  BY JobRunAssumption DEF PassOver, Goto, TypeOK, JobInv, rowVars, JobRowInv,
                          BeforeRow, AtWork, InStage, Decisions
<1>2. PlanInv(j)'
  BY JobRunAssumption DEF PassOver, Goto, TypeOK, JobInv, rowVars, PlanInv,
                          BeforeLoop, BeforeRow, InStage, StageTerminal, Stages,
                          Plans, StageState
<1>3. StageRowInv(j)'
  BY JobRunAssumption DEF PassOver, Goto, TypeOK, JobInv, rowVars, StageRowInv,
                          BeforeRow, InStage, Reported, StageTerminal, Stages,
                          StageRows, Plans
<1>4. OutcomeInv(j)'
  BY JobRunAssumption DEF PassOver, Goto, TypeOK, JobInv, rowVars, OutcomeInv,
                          JobRowInv, BeforeRow, AtWork, InStage, Decisions,
                          Delivered, NothingRunning
<1> QED BY <1>1, <1>2, <1>3, <1>4 DEF JobInv

LEMMA SkipBlockedKeepsJobInv ==
  ASSUME TypeOK, NEW j \in Jobs, JobInv(j), SkipBlocked(j)
  PROVE  JobInv(j)'
<1>1. JobRowInv(j)'
  BY JobRunAssumption DEF SkipBlocked, Goto, TypeOK, JobInv, rowVars, JobRowInv,
                          BeforeRow, AtWork, InStage, Decisions
<1>2. PlanInv(j)'
  BY JobRunAssumption DEF SkipBlocked, Goto, TypeOK, JobInv, rowVars, PlanInv,
                          BeforeLoop, BeforeRow, InStage, StageTerminal, Stages,
                          Plans, StageState
<1>3. StageRowInv(j)'
  BY JobRunAssumption DEF SkipBlocked, Goto, TypeOK, JobInv, rowVars,
                          StageRowInv, BeforeRow, InStage, Reported,
                          StageTerminal, Stages, StageRows, Plans
<1>4. OutcomeInv(j)'
  BY JobRunAssumption DEF SkipBlocked, Goto, TypeOK, JobInv, rowVars,
                          OutcomeInv, JobRowInv, BeforeRow, AtWork, InStage,
                          Decisions, Delivered, NothingRunning
<1> QED BY <1>1, <1>2, <1>3, <1>4 DEF JobInv

LEMMA EnterStageKeepsJobInv ==
  ASSUME TypeOK, NEW j \in Jobs, JobInv(j), EnterStage(j)
  PROVE  JobInv(j)'
<1>1. JobRowInv(j)'
  BY JobRunAssumption DEF EnterStage, Goto, TypeOK, JobInv, rowVars, JobRowInv,
                          BeforeRow, AtWork, InStage, Decisions
<1>2. PlanInv(j)'
  BY JobRunAssumption DEF EnterStage, Goto, TypeOK, JobInv, rowVars, PlanInv,
                          BeforeLoop, BeforeRow, InStage, StageTerminal, Stages,
                          Plans, StageState
<1>3. StageRowInv(j)'
  BY JobRunAssumption DEF EnterStage, Goto, TypeOK, JobInv, rowVars,
                          StageRowInv, BeforeRow, InStage, Reported,
                          StageTerminal, Stages, StageRows, Plans
<1>4. OutcomeInv(j)'
  BY JobRunAssumption DEF EnterStage, Goto, TypeOK, JobInv, rowVars, OutcomeInv,
                          JobRowInv, BeforeRow, AtWork, InStage, Decisions,
                          Delivered, NothingRunning
<1> QED BY <1>1, <1>2, <1>3, <1>4 DEF JobInv

LEMMA BeginStageKeepsJobInv ==
  ASSUME TypeOK, NEW j \in Jobs, JobInv(j), BeginStage(j)
  PROVE  JobInv(j)'
<1>1. JobRowInv(j)'
  BY JobRunAssumption DEF BeginStage, WriteStageRow, Goto, TypeOK, JobInv,
                          rowVars, JobRowInv, BeforeRow, AtWork, InStage,
                          Decisions
<1>2. PlanInv(j)'
  BY JobRunAssumption DEF BeginStage, WriteStageRow, Goto, TypeOK, JobInv,
                          rowVars, PlanInv, BeforeLoop, BeforeRow, InStage,
                          StageTerminal, Stages, Plans, StageState
<1>3. StageRowInv(j)'
  BY JobRunAssumption DEF BeginStage, WriteStageRow, Goto, TypeOK, JobInv,
                          rowVars, StageRowInv, BeforeRow, InStage, Reported,
                          StageTerminal, Stages, StageRows, Plans
<1>4. OutcomeInv(j)'
  BY JobRunAssumption DEF BeginStage, WriteStageRow, Goto, TypeOK, JobInv,
                          rowVars, OutcomeInv, JobRowInv, BeforeRow, AtWork,
                          InStage, Decisions, Delivered, NothingRunning
<1> QED BY <1>1, <1>2, <1>3, <1>4 DEF JobInv

LEMMA StageSucceedsKeepsJobInv ==
  ASSUME TypeOK, NEW j \in Jobs, JobInv(j), StageSucceeds(j)
  PROVE  JobInv(j)'
<1>1. JobRowInv(j)'
  BY JobRunAssumption DEF StageSucceeds, Goto, TypeOK, JobInv, rowVars,
                          JobRowInv, BeforeRow, AtWork, InStage, Decisions
<1>2. PlanInv(j)'
  BY JobRunAssumption DEF StageSucceeds, Goto, TypeOK, JobInv, rowVars, PlanInv,
                          BeforeLoop, BeforeRow, InStage, StageTerminal, Stages,
                          Plans, StageState
<1>3. StageRowInv(j)'
  BY JobRunAssumption DEF StageSucceeds, Goto, TypeOK, JobInv, rowVars,
                          StageRowInv, BeforeRow, InStage, Reported,
                          StageTerminal, Stages, StageRows, Plans
<1>4. OutcomeInv(j)'
  BY JobRunAssumption DEF StageSucceeds, Goto, TypeOK, JobInv, rowVars,
                          OutcomeInv, JobRowInv, BeforeRow, AtWork, InStage,
                          Decisions, Delivered, NothingRunning
<1> QED BY <1>1, <1>2, <1>3, <1>4 DEF JobInv

LEMMA StageFailsKeepsJobInv ==
  ASSUME TypeOK, NEW j \in Jobs, JobInv(j), StageFails(j)
  PROVE  JobInv(j)'
<1>1. JobRowInv(j)'
  BY JobRunAssumption DEF StageFails, Goto, TypeOK, JobInv, rowVars, JobRowInv,
                          BeforeRow, AtWork, InStage, Decisions
<1>2. PlanInv(j)'
  BY JobRunAssumption DEF StageFails, Goto, TypeOK, JobInv, rowVars, PlanInv,
                          BeforeLoop, BeforeRow, InStage, StageTerminal, Stages,
                          Plans, StageState
<1>3. StageRowInv(j)'
  BY JobRunAssumption DEF StageFails, Goto, TypeOK, JobInv, rowVars,
                          StageRowInv, BeforeRow, InStage, Reported,
                          StageTerminal, Stages, StageRows, Plans
<1>4. OutcomeInv(j)'
  BY JobRunAssumption DEF StageFails, Goto, TypeOK, JobInv, rowVars, OutcomeInv,
                          JobRowInv, BeforeRow, AtWork, InStage, Decisions,
                          Delivered, NothingRunning
<1> QED BY <1>1, <1>2, <1>3, <1>4 DEF JobInv

LEMMA PublishKeepsJobInv ==
  ASSUME TypeOK, NEW j \in Jobs, JobInv(j), Publish(j)
  PROVE  JobInv(j)'
<1>1. JobRowInv(j)'
  BY JobRunAssumption DEF Publish, Goto, TypeOK, JobInv, rowVars, JobRowInv,
                          BeforeRow, AtWork, InStage, Decisions
<1>2. PlanInv(j)'
  BY JobRunAssumption DEF Publish, Goto, TypeOK, JobInv, rowVars, PlanInv,
                          BeforeLoop, BeforeRow, InStage, StageTerminal, Stages,
                          Plans, StageState
<1>3. StageRowInv(j)'
  BY JobRunAssumption DEF Publish, Goto, TypeOK, JobInv, rowVars, StageRowInv,
                          BeforeRow, InStage, Reported, StageTerminal, Stages,
                          StageRows, Plans
<1>4. OutcomeInv(j)'
  BY JobRunAssumption DEF Publish, Goto, TypeOK, JobInv, rowVars, OutcomeInv,
                          JobRowInv, BeforeRow, AtWork, InStage, Decisions,
                          Delivered, NothingRunning
<1> QED BY <1>1, <1>2, <1>3, <1>4 DEF JobInv

LEMMA InsertRowKeepsJobInv ==
  ASSUME TypeOK, NEW j \in Jobs, JobInv(j), InsertRow(j)
  PROVE  JobInv(j)'
<1>1. JobRowInv(j)'
  BY JobRunAssumption DEF InsertRow, Goto, TypeOK, JobInv, rowVars, JobRowInv,
                          BeforeRow, AtWork, InStage, Decisions
<1>2. PlanInv(j)'
  BY JobRunAssumption DEF InsertRow, Goto, TypeOK, JobInv, rowVars, PlanInv,
                          BeforeLoop, BeforeRow, InStage, StageTerminal, Stages,
                          Plans, StageState
<1>3. StageRowInv(j)'
  BY JobRunAssumption DEF InsertRow, Goto, TypeOK, JobInv, rowVars, StageRowInv,
                          BeforeRow, InStage, Reported, StageTerminal, Stages,
                          StageRows, Plans
<1>4. OutcomeInv(j)'
  BY JobRunAssumption DEF InsertRow, Goto, TypeOK, JobInv, rowVars, OutcomeInv,
                          JobRowInv, BeforeRow, AtWork, InStage, Decisions,
                          Delivered, NothingRunning
<1> QED BY <1>1, <1>2, <1>3, <1>4 DEF JobInv

LEMMA SettleKeepsJobInv ==
  ASSUME TypeOK, NEW j \in Jobs, JobInv(j), Settle(j)
  PROVE  JobInv(j)'
<1>1. JobRowInv(j)'
  BY JobRunAssumption DEF Settle, WriteStageRow, Goto, TypeOK, JobInv, rowVars,
                          JobRowInv, BeforeRow, AtWork, InStage, Decisions
<1>2. PlanInv(j)'
  <2>1. pc'[j] = "loop" /\ cursor'[j] = cursor[j] + 1 /\ UNCHANGED plan
    BY DEF Settle, Goto, TypeOK
  <2>2. cursor[j] \in Stages /\ plan[j][cursor[j]] \in StageTerminal
    BY DEF Settle, JobInv, PlanInv, InStage
  <2>3. \A s \in Stages :
          /\ s < cursor[j] => plan[j][s] \in StageTerminal \cup {"absent"}
          /\ s > cursor[j] => plan[j][s] # "running"
    BY DEF Settle, JobInv, PlanInv, InStage
  <2>4. \A s \in Stages : s < cursor[j] + 1 => s < cursor[j] \/ s = cursor[j]
    BY <2>2 DEF Stages
  <2>5. \A s \in Stages : s < cursor[j] \/ s = cursor[j] \/ s > cursor[j]
    BY <2>2 DEF Stages
  <2>6. \A s \in Stages : s > cursor[j] + 1 => s > cursor[j]
    BY <2>2 DEF Stages
  <2>7. \A s \in Stages : plan[j][s] # "running"
    BY <2>2, <2>3, <2>5 DEF StageTerminal
  <2> QED BY <2>1, <2>2, <2>3, <2>4, <2>6, <2>7
          DEF PlanInv, BeforeLoop, BeforeRow, InStage
<1>3. StageRowInv(j)'
  <2>1. pc'[j] = "loop" /\ UNCHANGED <<plan, ctxDone>>
    BY DEF Settle, Goto, TypeOK
  <2>2. cursor[j] \in Stages /\ plan[j][cursor[j]] \in StageTerminal
    BY DEF Settle, JobInv, PlanInv, InStage
  <2>3. ASSUME ~ctxDone[j], NEW s \in Stages
        PROVE  stageRow'[j][s] = Reported(plan[j][s])
    <3>1. stageRow' = [stageRow EXCEPT ![j][cursor[j]] = plan[j][cursor[j]]]
      BY <2>3 DEF Settle, WriteStageRow
    <3>2. s # cursor[j] => stageRow[j][s] = Reported(plan[j][s])
      BY <2>3 DEF Settle, JobInv, StageRowInv, InStage
    <3> QED BY <2>2, <3>1, <3>2 DEF Reported, TypeOK, StageRows
  <2> QED BY <2>1, <2>3 DEF StageRowInv, BeforeRow, InStage
<1>4. OutcomeInv(j)'
  BY JobRunAssumption DEF Settle, WriteStageRow, Goto, TypeOK, JobInv, rowVars,
                          OutcomeInv, JobRowInv, BeforeRow, AtWork, InStage,
                          Decisions, Delivered, NothingRunning
<1> QED BY <1>1, <1>2, <1>3, <1>4 DEF JobInv

LEMMA LoopDoneKeepsJobInv ==
  ASSUME TypeOK, NEW j \in Jobs, JobInv(j), LoopDone(j)
  PROVE  JobInv(j)'
<1>1. JobRowInv(j)'
  BY JobRunAssumption DEF LoopDone, Goto, TypeOK, JobInv, rowVars, JobRowInv,
                          BeforeRow, AtWork, InStage, Decisions
<1>2. PlanInv(j)'
  BY JobRunAssumption DEF LoopDone, Goto, TypeOK, JobInv, rowVars, PlanInv,
                          BeforeLoop, BeforeRow, InStage, StageTerminal, Stages,
                          Plans, StageState
<1>3. StageRowInv(j)'
  BY JobRunAssumption DEF LoopDone, Goto, TypeOK, JobInv, rowVars, StageRowInv,
                          BeforeRow, InStage, Reported, StageTerminal, Stages,
                          StageRows, Plans
<1>4. OutcomeInv(j)'
  BY JobRunAssumption DEF LoopDone, Goto, TypeOK, JobInv, rowVars, OutcomeInv,
                          JobRowInv, BeforeRow, AtWork, InStage, Decisions,
                          Delivered, NothingRunning
<1> QED BY <1>1, <1>2, <1>3, <1>4 DEF JobInv

LEMMA DecideKeepsJobInv ==
  ASSUME TypeOK, NEW j \in Jobs, JobInv(j), Decide(j)
  PROVE  JobInv(j)'
<1>1. JobRowInv(j)'
  BY JobRunAssumption DEF Decide, jobOutcome, Goto, TypeOK, JobInv, rowVars,
                          JobRowInv, BeforeRow, AtWork, InStage, Decisions
<1>2. PlanInv(j)'
  BY JobRunAssumption DEF Decide, jobOutcome, Goto, TypeOK, JobInv, rowVars,
                          PlanInv, BeforeLoop, BeforeRow, InStage,
                          StageTerminal, Stages, Plans, StageState
<1>3. StageRowInv(j)'
  BY JobRunAssumption DEF Decide, jobOutcome, Goto, TypeOK, JobInv, rowVars,
                          StageRowInv, BeforeRow, InStage, Reported,
                          StageTerminal, Stages, StageRows, Plans
<1>4. OutcomeInv(j)'
  <2>1. UNCHANGED <<plan, ctxDone, jobRow, stageRow>> /\ decided'[j] = jobOutcome(j)
    BY DEF Decide, rowVars, TypeOK
  <2>2. jobRow[j] \in {"running", "pending"}
    BY DEF Decide, JobInv, JobRowInv, AtWork
  <2>3. \A s \in Stages : plan[j][s] \in StageTerminal \cup {"absent"}
    BY DEF Decide, JobInv, PlanInv
  <2>4. ~ctxDone[j] => \A s \in Stages : stageRow[j][s] = Reported(plan[j][s])
    BY DEF Decide, JobInv, StageRowInv
  <2>5. jobOutcome(j) = "completed" => Delivered(j)
    BY <2>3, <2>4 DEF jobOutcome, Delivered, Reported, StageTerminal, Succeeded
  <2>6. jobOutcome(j) = "failed" => NothingRunning(j)
    BY <2>3, <2>4 DEF jobOutcome, NothingRunning, Reported, StageTerminal
  <2> QED BY <2>1, <2>2, <2>5, <2>6 DEF OutcomeInv, Delivered, NothingRunning
<1> QED BY <1>1, <1>2, <1>3, <1>4 DEF JobInv

LEMMA RecordOutcomeKeepsJobInv ==
  ASSUME TypeOK, NEW j \in Jobs, JobInv(j), RecordOutcome(j)
  PROVE  JobInv(j)'
<1>1. JobRowInv(j)'
  BY JobRunAssumption DEF RecordOutcome, SetStatus, CheckTransition,
                          CanTransition, transitions, Status, Goto, TypeOK,
                          JobInv, rowVars, JobRowInv, BeforeRow, AtWork,
                          InStage, Decisions
<1>2. PlanInv(j)'
  BY JobRunAssumption DEF RecordOutcome, SetStatus, CheckTransition,
                          CanTransition, transitions, Status, Goto, TypeOK,
                          JobInv, rowVars, PlanInv, BeforeLoop, BeforeRow,
                          InStage, StageTerminal, Stages, Plans, StageState
<1>3. StageRowInv(j)'
  BY JobRunAssumption DEF RecordOutcome, SetStatus, CheckTransition,
                          CanTransition, transitions, Status, Goto, TypeOK,
                          JobInv, rowVars, StageRowInv, BeforeRow, InStage,
                          Reported, StageTerminal, Stages, StageRows, Plans
<1>4. OutcomeInv(j)'
  BY JobRunAssumption DEF RecordOutcome, SetStatus, CheckTransition,
                          CanTransition, transitions, Status, Goto, TypeOK,
                          JobInv, rowVars, OutcomeInv, JobRowInv, BeforeRow,
                          AtWork, InStage, Decisions, Delivered, NothingRunning
<1> QED BY <1>1, <1>2, <1>3, <1>4 DEF JobInv

LEMMA ReleaseKeepsJobInv ==
  ASSUME TypeOK, NEW j \in Jobs, JobInv(j), Release(j)
  PROVE  JobInv(j)'
<1>1. JobRowInv(j)'
  BY JobRunAssumption DEF Release, Finish, Goto, TypeOK, JobInv, rowVars,
                          JobRowInv, BeforeRow, AtWork, InStage, Decisions
<1>2. PlanInv(j)'
  BY JobRunAssumption DEF Release, Finish, Goto, TypeOK, JobInv, rowVars,
                          PlanInv, BeforeLoop, BeforeRow, InStage,
                          StageTerminal, Stages, Plans, StageState
<1>3. StageRowInv(j)'
  BY JobRunAssumption DEF Release, Finish, Goto, TypeOK, JobInv, rowVars,
                          StageRowInv, BeforeRow, InStage, Reported,
                          StageTerminal, Stages, StageRows, Plans
<1>4. OutcomeInv(j)'
  BY JobRunAssumption DEF Release, Finish, Goto, TypeOK, JobInv, rowVars,
                          OutcomeInv, JobRowInv, BeforeRow, AtWork, InStage,
                          Decisions, Delivered, NothingRunning
<1> QED BY <1>1, <1>2, <1>3, <1>4 DEF JobInv

\* A step of one job leaves the other jobs' state alone.
LEMMA OtherJobs ==
  ASSUME TypeOK, NEW j \in Jobs, Request(j) \/ Execute(j), NEW k \in Jobs, k # j,
         JobInv(k)
  PROVE  JobInv(k)'
<1> USE DEF Request, Execute, Prepare, Begin, Create, MarkRunning,
      ReportSettled, StopCancelled, PassOver, SkipBlocked, EnterStage,
      BeginStage, StageSucceeds, StageFails, Publish, InsertRow, Settle,
      LoopDone, Decide, RecordOutcome, Release
<1>1. pc'[k] = pc[k] /\ decided'[k] = decided[k]
  BY DEF TypeOK, Goto
<1>2. plan'[k] = plan[k]
  BY DEF TypeOK, Plans, CancelRemaining
<1>3. cursor'[k] = cursor[k]
  BY DEF TypeOK
<1>4. jobRow'[k] = jobRow[k]
  BY DEF TypeOK, SetStatus, rowVars
<1>5. stageRow'[k] = stageRow[k]
  BY DEF TypeOK, WriteStageRow, rowVars, StageRows
<1>6. ctxDone[k] => ctxDone'[k]
  BY DEF TypeOK, Finish
<1> QED BY <1>1, <1>2, <1>3, <1>4, <1>5, <1>6, JobInvStable

LEMMA InvInvariant == EitherSpec => []Inv
<1>1. Init => Inv
  BY JobRunAssumption DEF Init, Inv, TypeOK, PC, Executing, Stages, Status,
     StageState, Plans, StageRows, ArtifactRows, JobInv, JobRowInv, PlanInv,
     StageRowInv, OutcomeInv, BeforeRow, BeforeLoop, InStage, AtWork
<1>2. TypeOK' /\ Inv /\ [EitherNext]_vars => Inv'
  <2> SUFFICES ASSUME TypeOK', TypeOK, \A j \in Jobs : JobInv(j), [EitherNext]_vars,
                      NEW k \in Jobs
               PROVE  JobInv(k)'
    BY DEF Inv
  <2>1. ASSUME NEW j \in Jobs, Request(j) \/ Execute(j)
        PROVE  JobInv(k)'
    <3>1. CASE k # j
      BY <2>1, <3>1, OtherJobs
    <3>2. CASE k = j
            BY <2>1, <3>2, PrepareKeepsJobInv, BeginKeepsJobInv,
         CreateKeepsJobInv, MarkRunningKeepsJobInv, ReportSettledKeepsJobInv,
         StopCancelledKeepsJobInv, PassOverKeepsJobInv, SkipBlockedKeepsJobInv,
         EnterStageKeepsJobInv, BeginStageKeepsJobInv, StageSucceedsKeepsJobInv,
         StageFailsKeepsJobInv, PublishKeepsJobInv, InsertRowKeepsJobInv,
         SettleKeepsJobInv, LoopDoneKeepsJobInv, DecideKeepsJobInv,
         RecordOutcomeKeepsJobInv, ReleaseKeepsJobInv
         DEF Request, Execute
    <3> QED BY <3>1, <3>2
  <2>2. ASSUME NEW p \in Projects, Cancel(p)
        PROVE  JobInv(k)'
    <3>1. ctxDone[k] => ctxDone'[k]
      BY <2>2 DEF Cancel, TypeOK
    <3> QED BY <2>2, <3>1, JobInvStable DEF Cancel, execVars, rowVars
  <2>3. CASE Restart /\ (UNCHANGED rowVars \/ Reconcile)
    <3>1. UNCHANGED <<plan, cursor, decided, ctxDone>>
      BY <2>3 DEF Restart
    <3>2. (pc'[k] = pc[k] /\ pc[k] \in {"idle", "rejected", "done", "dead"}) \/ pc'[k] = "dead"
      BY <2>3 DEF Restart, TypeOK, PC
    <3>3. CASE jobRow'[k] = jobRow[k] /\ stageRow'[k] = stageRow[k] /\ pc'[k] = pc[k]
      BY <3>1, <3>3, JobInvStable
    <3>4. CASE UNCHANGED rowVars /\ pc'[k] = "dead"
      <4>1. JobRowInv(k)' /\ PlanInv(k)' /\ StageRowInv(k)'
        BY <3>4 DEF JobRowInv, PlanInv, StageRowInv, BeforeRow, BeforeLoop,
                    InStage, AtWork
      <4>2. OutcomeInv(k)'
        BY <3>1, <3>4 DEF JobInv, OutcomeInv, Delivered, NothingRunning, rowVars
      <4> QED BY <4>1, <4>2 DEF JobInv
    <3>5. CASE Reconcile /\ jobRow[k] \notin {"running", "paused"}
      <4>1. jobRow'[k] = jobRow[k] /\ stageRow'[k] = stageRow[k]
        <5>1. \A s \in Stages : stageRow'[k][s] = stageRow[k][s]
          BY <3>5 DEF Reconcile
        <5> QED BY <3>5, <5>1 DEF Reconcile, TypeOK, StageRows
      <4>2. CASE pc'[k] = "dead"
        <5>1. JobRowInv(k)' /\ PlanInv(k)' /\ StageRowInv(k)'
          BY <4>2 DEF JobRowInv, PlanInv, StageRowInv, BeforeRow, BeforeLoop,
                      InStage, AtWork
        <5>2. OutcomeInv(k)'
          BY <3>1, <4>1, <4>2 DEF JobInv, OutcomeInv, Delivered, NothingRunning
        <5> QED BY <5>1, <5>2 DEF JobInv
      <4> QED BY <3>2, <3>3, <4>1, <4>2
    <3>6. CASE Reconcile /\ jobRow[k] \in {"running", "paused"}
      <4>1. jobRow'[k] = "failed" /\ NothingRunning(k)'
        BY <3>6 DEF Reconcile, CheckTransition, CanTransition, transitions, Status,
                    NothingRunning
      <4>2. pc[k] \notin {"idle", "rejected", "done"}
        BY <3>6 DEF JobInv, JobRowInv, BeforeRow, Decisions
      <4>3. pc'[k] = "dead"
        BY <3>2, <4>2
      <4> QED BY <4>1, <4>3 DEF JobInv, JobRowInv, PlanInv, StageRowInv, OutcomeInv,
                                BeforeRow, BeforeLoop, InStage, AtWork
    <3> QED BY <2>3, <3>2, <3>3, <3>4, <3>5, <3>6 DEF rowVars
  <2>4. CASE UNCHANGED vars
    BY <2>4, JobInvStable DEF vars, execVars, rowVars
  <2> QED BY <2>1, <2>2, <2>3, <2>4
          DEF EitherNext, Next, NextReconciling, RestartOnly, RestartReconciling,
              Step, Quiescent
<1> QED BY <1>1, <1>2, TypeInvInvariant, PTL DEF EitherSpec, TypeInv

\* A run that has ended has a terminal status, the one jobOutcome decided, on
\* its row: CheckTransition never refuses it (App.execute, SetStatus).
THEOREM OutcomeRecorded == Spec => []OutcomeIsRecorded
<1>1. Inv => OutcomeIsRecorded
  BY DEF Inv, JobInv, JobRowInv, OutcomeIsRecorded, Terminal, Decisions
<1> QED BY <1>1, InvInvariant, BothAreEither, PTL

\* A job recorded as completed has a succeeded row for every stage it selected,
\* whenever a cancellation raced its writes (Runner.StageSettled, jobOutcome).
THEOREM CompletedDelivered == Spec => []CompletedMeansDelivered
<1>1. Inv => CompletedMeansDelivered
  BY DEF Inv, JobInv, OutcomeInv, Delivered, CompletedMeansDelivered
<1> QED BY <1>1, InvInvariant, BothAreEither, PTL

\* A job recorded as failed has no stage row that still says running.
THEOREM FailedSettled == Spec => []FailedLeavesNothingRunning
<1>1. Inv => FailedLeavesNothingRunning
  BY DEF Inv, JobInv, OutcomeInv, NothingRunning, FailedLeavesNothingRunning
<1> QED BY <1>1, InvInvariant, BothAreEither, PTL

\* The same with Reconcile at startup, which writes "failed" itself: it settles
\* the stage rows of exactly the jobs it fails (Repository.Reconcile).
THEOREM FailedSettledReconciling == ReconcilingSpec => []FailedLeavesNothingRunning
<1>1. Inv => FailedLeavesNothingRunning
  BY DEF Inv, JobInv, OutcomeInv, NothingRunning, FailedLeavesNothingRunning
<1> QED BY <1>1, InvInvariant, BothAreEither, PTL

-----------------------------------------------------------------------------
(* What a stage ran on. *)

\* What DependenciesSucceeded says of one job.
RanOnSuccess(j) ==
  \A s \in Stages :
    plan[j][s] \in {"running", "completed"} => ~Unrunnable(plan[j], s)

\* A stage that is not yet done, or that failed, was never an input: settling it
\* in another way does not disturb the stages that ran.
LEMMA ChangedStage ==
  ASSUME TypeOK, NEW j \in Jobs, NEW s \in Stages, NEW state, RanOnSuccess(j),
         plan' = [plan EXCEPT ![j][s] = state],
         plan[j][s] \in {"pending", "running"},
         state \in {"running", "completed"} => ~Unrunnable(plan[j], s)
  PROVE  RanOnSuccess(j)'
<1> SUFFICES ASSUME NEW r \in Stages, plan'[j][r] \in {"running", "completed"},
                    NEW d \in Depends[r]
             PROVE  plan'[j][d] \in Succeeded \cup {"absent"}
  BY DEF RanOnSuccess, Unrunnable
<1>1. d \in Stages /\ d < r
  BY JobRunAssumption
<1>2. \A q \in Stages : plan'[j][q] = IF q = s THEN state ELSE plan[j][q]
  BY DEF TypeOK, Plans
<1>3. ~Unrunnable(plan[j], r)
  BY <1>2 DEF RanOnSuccess
<1>4. plan[j][d] \in Succeeded \cup {"absent"}
  BY <1>3 DEF Unrunnable
<1>5. d # s
  BY <1>4 DEF Succeeded
<1> QED BY <1>1, <1>2, <1>4, <1>5

\* A job whose plan is left alone, replaced by one nothing has run of, or
\* cancelled.
LEMMA PlanKept ==
  ASSUME TypeOK, NEW j \in Jobs, RanOnSuccess(j),
         \/ plan'[j] = plan[j]
         \/ \A s \in Stages : plan'[j][s] \notin {"running", "completed"}
         \/ CancelRemaining(j)
  PROVE  RanOnSuccess(j)'
<1>1. CASE plan'[j] = plan[j]
  BY <1>1 DEF RanOnSuccess, Unrunnable
<1>2. CASE \A s \in Stages : plan'[j][s] \notin {"running", "completed"}
  BY <1>2 DEF RanOnSuccess
<1>3. CASE CancelRemaining(j)
  <2>1. \A s \in Stages : plan'[j][s] = IF plan[j][s] \in {"pending", "running"}
                                         THEN "cancelled" ELSE plan[j][s]
    BY <1>3 DEF CancelRemaining, TypeOK, Plans
  <2> SUFFICES ASSUME NEW r \in Stages, plan'[j][r] \in {"running", "completed"},
                      NEW d \in Depends[r]
               PROVE  plan'[j][d] \in Succeeded \cup {"absent"}
    BY DEF RanOnSuccess, Unrunnable
  <2>2. ~Unrunnable(plan[j], r)
    BY <2>1 DEF RanOnSuccess
  <2>3. d \in Stages /\ plan[j][d] \in Succeeded \cup {"absent"}
    BY <2>2, JobRunAssumption DEF Unrunnable
  <2> QED BY <2>1, <2>3 DEF Succeeded
<1> QED BY <1>1, <1>2, <1>3

\* The steps that settle the cursor's stage.
LEMMA SettlingStep ==
  ASSUME Inv, NEW j \in Jobs, RanOnSuccess(j),
         \/ SkipBlocked(j) \/ EnterStage(j) \/ BeginStage(j)
         \/ StageFails(j) \/ Publish(j) \/ InsertRow(j)
  PROVE  RanOnSuccess(j)'
<1>1. TypeOK /\ PlanInv(j)
  BY DEF Inv, JobInv
<1>2. cursor[j] \in Stages /\ plan[j][cursor[j]] \in {"pending", "running"}
  BY <1>1 DEF PlanInv, InStage, SkipBlocked, EnterStage, BeginStage,
              StageFails, Publish, InsertRow
<1>3. plan[j][cursor[j]] = "running" => ~Unrunnable(plan[j], cursor[j])
  BY <1>2 DEF RanOnSuccess
<1>4. CASE UNCHANGED plan
  BY <1>1, <1>4, PlanKept
<1>5. CASE SkipBlocked(j)
  BY <1>1, <1>2, <1>5, ChangedStage DEF SkipBlocked
<1>6. CASE EnterStage(j)
  BY <1>1, <1>2, <1>6, ChangedStage DEF EnterStage
<1>7. CASE InsertRow(j)
  <2>1. plan[j][cursor[j]] = "running"
    BY <1>1, <1>7 DEF InsertRow, PlanInv, InStage
  <2> QED BY <1>1, <1>2, <1>3, <1>7, <2>1, ChangedStage DEF InsertRow
<1>8. CASE \E state \in {"failed", "cancelled"} :
             plan' = [plan EXCEPT ![j][cursor[j]] = state]
  BY <1>1, <1>2, <1>8, ChangedStage
<1> QED BY <1>4, <1>5, <1>6, <1>7, <1>8 DEF BeginStage, StageFails, Publish

\* A stage runs, and an artifact is recorded for it, only over dependencies that
\* succeeded in the run or are outside it: what failed after the plan was built
\* is caught when the stage is reached (pipeline.Run, blockedBy).
THEOREM DependenciesHold == Spec => []DependenciesSucceeded
<1>1. Init => DependenciesSucceeded
  BY DEF Init, DependenciesSucceeded
<1>2. Inv /\ DependenciesSucceeded /\ [EitherNext]_vars => DependenciesSucceeded'
  <2> SUFFICES ASSUME Inv, DependenciesSucceeded, [EitherNext]_vars, NEW k \in Jobs
               PROVE  RanOnSuccess(k)'
    BY DEF DependenciesSucceeded, RanOnSuccess
  <2>0. TypeOK /\ RanOnSuccess(k)
    BY DEF Inv, DependenciesSucceeded, RanOnSuccess
  <2>1. ASSUME NEW j \in Jobs, Request(j) \/ Execute(j), j # k
        PROVE  plan'[k] = plan[k]
    BY <2>0, <2>1 DEF Request, Execute, Prepare, Begin, Create, MarkRunning,
      ReportSettled, StopCancelled, PassOver, SkipBlocked, EnterStage,
      BeginStage, StageSucceeds, StageFails, Publish, InsertRow, Settle,
      LoopDone, Decide, RecordOutcome, Release, CancelRemaining, TypeOK, Plans
  <2>2. ASSUME Prepare(k)
        PROVE  RanOnSuccess(k)'
    <3>1. CASE UNCHANGED plan
      BY <2>0, <3>1, PlanKept
    <3>2. ASSUME NEW selected, NEW force,
                 NEW states \in Build(ProjectOf[k], selected, force),
                 plan' = [plan EXCEPT ![k] = states]
          PROVE  \A s \in Stages : plan'[k][s] \notin {"running", "completed"}
      BY <2>0, <3>2 DEF Build, TypeOK, Plans
    <3> QED BY <2>0, <2>2, <3>1, <3>2, PlanKept DEF Prepare
  <2>3. ASSUME StopCancelled(k)
        PROVE  RanOnSuccess(k)'
    BY <2>0, <2>3, PlanKept DEF StopCancelled
  <2>4. CASE UNCHANGED plan
    BY <2>0, <2>4, PlanKept
  <2>5. ASSUME Request(k) \/ Execute(k)
        PROVE  RanOnSuccess(k)'
    BY <2>0, <2>2, <2>3, <2>4, <2>5, SettlingStep
    DEF Request, Execute, Begin, Create, MarkRunning, ReportSettled, PassOver,
        StageSucceeds, Settle, LoopDone, Decide, RecordOutcome, Release
  <2> QED BY <2>0, <2>1, <2>4, <2>5, PlanKept
          DEF EitherNext, Next, NextReconciling, RestartOnly, RestartReconciling,
              Restart, Step, Quiescent, Cancel, vars, execVars
<1> QED BY <1>1, <1>2, InvInvariant, BothAreEither, PTL DEF EitherSpec

-----------------------------------------------------------------------------
(* What a row that says the job has ended is worth. *)

\* One step: whatever writes a job's row, a terminal status is left as it is.
LEMMA TerminalKept ==
  ASSUME Inv, [EitherNext]_vars, NEW j \in Jobs, Terminal(jobRow[j])
  PROVE  jobRow'[j] = jobRow[j]
<1>1. jobRow \in [Jobs -> Status \cup {"none"}] /\ JobRowInv(j)
  BY DEF Inv, TypeOK, JobInv
<1>2. ASSUME NEW k \in Jobs, NEW to, SetStatus(k, to)
      PROVE  jobRow'[j] = jobRow[j]
  BY <1>1, <1>2 DEF SetStatus, CheckTransition, CanTransition, transitions,
                    Status, Terminal
<1>3. ASSUME NEW k \in Jobs, Create(k)
      PROVE  jobRow'[j] = jobRow[j]
  <2>1. pc[j] # "claimed"
    BY <1>1 DEF JobRowInv, BeforeRow, Terminal
  <2> QED BY <1>1, <1>3, <2>1 DEF Create
<1>4. CASE Reconcile
  BY <1>4 DEF Reconcile, Terminal
<1>5. CASE UNCHANGED jobRow
  BY <1>5
<1>6. ASSUME NEW k \in Jobs, Request(k) \/ Execute(k)
      PROVE  jobRow'[j] = jobRow[j]
  BY <1>2, <1>3, <1>5, <1>6
  DEF Request, Execute, Prepare, Begin, MarkRunning,
      ReportSettled, StopCancelled, PassOver, SkipBlocked, EnterStage,
      BeginStage, StageSucceeds, StageFails, Publish, InsertRow, Settle,
      LoopDone, Decide, RecordOutcome, Release, rowVars
<1> QED BY <1>4, <1>5, <1>6
        DEF EitherNext, Next, NextReconciling, RestartOnly, RestartReconciling,
            Step, Quiescent, Cancel, vars, rowVars

\* No recorded outcome is ever rewritten: not by the job's own late write, and not
\* by Reconcile after a restart (SetStatus, CheckTransition, Reconcile).
THEOREM TerminalStays == (Spec => TerminalIsFinal) /\ (ReconcilingSpec => TerminalIsFinal)
<1>1. Inv /\ [EitherNext]_vars
        => [\A j \in Jobs : Terminal(jobRow[j]) => jobRow'[j] = jobRow[j]]_vars
  BY TerminalKept
<1> QED BY <1>1, InvInvariant, BothAreEither, PTL DEF TerminalIsFinal, EitherSpec

\* With Reconcile at startup a job that a dead process left behind does not say
\* running.
NoDeadRunning == \A j \in Jobs : pc[j] = "dead" => jobRow[j] # "running"

\* With Reconcile called when the process starts, a row that says running is that
\* of the job the scheduler holds, through any number of crashes: what the comment
\* of Reconcile promises is true of the function, if something calls it.
THEOREM NoneStuckReconciling == ReconcilingSpec => []NoJobStuckRunning
<1>1. Init => NoDeadRunning
  BY DEF Init, NoDeadRunning
<1>2. Inv /\ NoDeadRunning /\ [NextReconciling]_vars => NoDeadRunning'
  <2> SUFFICES ASSUME Inv, NoDeadRunning, [NextReconciling]_vars,
                      NEW k \in Jobs, pc'[k] = "dead"
               PROVE  jobRow'[k] # "running"
    BY DEF NoDeadRunning
  <2>0. TypeOK
    BY DEF Inv
  <2>1. CASE RestartReconciling
    BY <2>0, <2>1 DEF RestartReconciling, Reconcile, CheckTransition, CanTransition,
                      transitions, Status, TypeOK
  <2>2. CASE UNCHANGED <<pc, jobRow>>
    BY <2>2 DEF NoDeadRunning
  <2>3. ASSUME NEW j \in Jobs, Request(j) \/ Execute(j)
        PROVE  pc[k] = "dead" /\ jobRow'[k] = jobRow[k]
    <3>1. pc[j] # "dead"
      BY <2>3 DEF Request, Execute, Prepare, Begin, Create, MarkRunning,
        ReportSettled, StopCancelled, PassOver, SkipBlocked, EnterStage,
        BeginStage, StageSucceeds, StageFails, Publish, InsertRow, Settle,
        LoopDone, Decide, RecordOutcome, Release
    <3>2. pc'[j] # "dead" /\ (j # k => pc'[k] = pc[k])
      BY <2>0, <2>3, <3>1 DEF Request, Execute, Prepare, Begin, Create, MarkRunning,
        ReportSettled, StopCancelled, PassOver, SkipBlocked, EnterStage,
        BeginStage, StageSucceeds, StageFails, Publish, InsertRow, Settle,
        LoopDone, Decide, RecordOutcome, Release, Goto, TypeOK
    <3>3. j # k
      BY <3>2
    <3> QED BY <2>0, <2>3, <3>2, <3>3
      DEF Request, Execute, Prepare, Begin, Create, MarkRunning,
        ReportSettled, StopCancelled, PassOver, SkipBlocked, EnterStage,
        BeginStage, StageSucceeds, StageFails, Publish, InsertRow, Settle,
        LoopDone, Decide, RecordOutcome, Release, SetStatus, rowVars, TypeOK
  <2> QED BY <2>1, <2>2, <2>3
          DEF NoDeadRunning, NextReconciling, Step, Quiescent, Cancel, vars, execVars, rowVars
<1>3. Inv /\ ClaimIsExclusive /\ NoDeadRunning => NoJobStuckRunning
  <2> SUFFICES ASSUME Inv, ClaimIsExclusive, NoDeadRunning,
                      NEW j \in Jobs, jobRow[j] = "running"
               PROVE  running[ProjectOf[j]] = j
    BY DEF NoJobStuckRunning
  <2>1. pc[j] \in Executing
    BY DEF Inv, TypeOK, PC, Executing, JobInv, JobRowInv, BeforeRow, Decisions,
           NoDeadRunning
  <2> QED BY <2>1, JobRunAssumption DEF ClaimIsExclusive
<1> QED BY <1>1, <1>2, <1>3, InvInvariant, ClaimInvariant, BothAreEither, PTL
        DEF ReconcilingSpec
=============================================================================
