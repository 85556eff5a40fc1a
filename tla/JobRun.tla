------------------------------- MODULE JobRun -------------------------------
(***************************************************************************)
(* One run of the pipeline, from the request that asks for it to the row   *)
(* that records how it ended: App.Start and App.execute (internal/app),    *)
(* jobs.Scheduler, jobs.Repository and jobs.Runner (internal/jobs), and    *)
(* pipeline.Build and pipeline.Run (internal/pipeline).                    *)
(*                                                                         *)
(* Every element of Jobs is one request to run one project.  The request   *)
(* handler and the goroutine it launches are a single sequential process,  *)
(* so each job has one program counter.  Jobs of the same project race for *)
(* the scheduler's claim, a user may cancel a run at any moment, and the   *)
(* process may die between any two steps.                                  *)
(*                                                                         *)
(* Rows and directories survive a crash.  The scheduler's map, contexts,   *)
(* plans and program counters do not.  A stage's output has one content    *)
(* address here; ArtifactStore.tla models the store in detail.             *)
(***************************************************************************)
EXTENDS Naturals, FiniteSets

CONSTANTS
  Projects,    \* project identifiers
  Jobs,        \* job identifiers, one per request to run
  ProjectOf,   \* the project each request names
  NoJob,       \* the scheduler has no entry for a project
  NumStages,   \* stages in pipeline order are 1..NumStages
  Depends,     \* the required dependencies of each stage (Spec.Depends)
  MaxCrashes   \* bound on process deaths

Stages == 1..NumStages

ASSUME JobRunAssumption ==
  /\ ProjectOf \in [Jobs -> Projects]
  /\ NoJob \notin Jobs
  /\ NumStages \in Nat \ {0}
  /\ Depends \in [Stages -> SUBSET Stages]
  /\ \A s \in Stages : \A d \in Depends[s] : d < s
  /\ MaxCrashes \in Nat

VARIABLES
  pc,        \* where each job's process is
  running,   \* Scheduler.running: the job that holds each project
  ctxDone,   \* the context Begin returned has been cancelled
  plan,      \* StagePlan.State per stage; "absent" when not selected
  cursor,    \* the stage the executor's loop is at
  decided,   \* the status jobOutcome returned
  jobRow,    \* jobs.status; "none" before the row exists
  stageRow,  \* stages.status per job and stage; "none" before the row exists
  tmp,       \* the job's writer has a temporary directory on disk
  artRow,    \* artifacts.status per project and stage
  artDir,    \* the stages whose artifact directory exists
  crashes    \* how often the process has died

execVars    == <<pc, plan, cursor, decided>>
rowVars     == <<jobRow, stageRow>>
storeVars   == <<tmp, artRow, artDir>>
vars == <<execVars, running, ctxDone, rowVars, storeVars, crashes>>

-----------------------------------------------------------------------------
(* The job state machine. *)

Status == {"pending", "running", "paused", "completed", "failed", "cancelled"}

Terminal(status) == status \in {"completed", "failed", "cancelled"}

\* Mutant: a job that never started cannot be cancelled.
transitions_PendingMustRun ==
  [pending   |-> {"running", "failed"},
   running   |-> {"paused", "completed", "failed", "cancelled", "pending"},
   paused    |-> {"running", "cancelled", "failed"},
   completed |-> {}, failed |-> {}, cancelled |-> {}]

transitions ==
  [pending   |-> {"running", "cancelled", "failed"},
   running   |-> {"paused", "completed", "failed", "cancelled", "pending"},
   paused    |-> {"running", "cancelled", "failed"},
   completed |-> {},
   failed    |-> {},
   cancelled |-> {}]

CanTransition(from, to) == from \in Status /\ to \in transitions[from]

CheckTransition(from, to) == from = to \/ CanTransition(from, to)

\* SetStatus on a context that is live: the row is left alone when it does not
\* exist or when the move is illegal.
SetStatus(j, to) ==
  jobRow' = IF jobRow[j] \in Status /\ CheckTransition(jobRow[j], to)
              THEN [jobRow EXCEPT ![j] = to]
              ELSE jobRow

-----------------------------------------------------------------------------
(* Stage states, the plan and the artifacts it is built from. *)

StageState == {"pending", "running", "completed", "cached",
               "skipped", "failed", "cancelled"}

Succeeded == {"completed", "cached"}

StageTerminal == {"completed", "cached", "skipped", "failed", "cancelled"}

\* A ready row whose directory is gone is a miss.
Lookup(p, s) == artRow[p][s] = "ready" /\ s \in artDir[p]

\* A dependency that is part of the plan and has not succeeded: blockedBy for
\* the states that can never succeed, the missing-input check for the rest.
Unrunnable(states, s) ==
  \E d \in Depends[s] : states[d] \notin Succeeded \cup {"absent"}

\* The dependencies outside the plan are resolved from the store when the plan
\* is built, and one without an artifact skips the stage.
Unsatisfied(p, states, s) ==
  \E d \in Depends[s] : states[d] = "absent" /\ ~Lookup(p, d)

\* The state Build gives a selected stage, given the states of earlier ones.
PlannedState(p, states, s, force) ==
  IF \/ \E d \in Depends[s] : states[d] = "skipped"
     \/ Unsatisfied(p, states, s)
    THEN "skipped"
    ELSE IF ~force /\ Lookup(p, s) THEN "cached" ELSE "pending"

\* The plans Build can return for a selection.  Dependencies come earlier in
\* the pipeline order, so there is exactly one.
Build(p, selected, force) ==
  {states \in [Stages -> {"absent", "pending", "cached", "skipped"}] :
     \A s \in Stages :
       states[s] = IF s \in selected THEN PlannedState(p, states, s, force)
                                     ELSE "absent"}

-----------------------------------------------------------------------------

Executing == {"claimed", "created", "report", "loop", "enter", "stage",
              "commit", "insert", "settle", "outcome", "record", "release"}

PC == Executing \cup {"idle", "prepared", "rejected", "done", "dead"}

\* The types of the plans, of the stage rows and of the artifact rows.
Plans == [Jobs -> [Stages -> StageState \cup {"absent"}]]
StageRows == [Jobs -> [Stages -> StageState \cup {"none"}]]
ArtifactRows == [Projects -> [Stages -> {"none", "ready", "failed"}]]

TypeOK ==
  /\ pc \in [Jobs -> PC]
  /\ running \in [Projects -> Jobs \cup {NoJob}]
  /\ ctxDone \in [Jobs -> BOOLEAN]
  /\ plan \in Plans
  /\ cursor \in [Jobs -> 1..(NumStages + 1)]
  /\ decided \in [Jobs -> {"none", "completed", "failed", "cancelled"}]
  /\ jobRow \in [Jobs -> Status \cup {"none"}]
  /\ stageRow \in StageRows
  /\ tmp \in [Jobs -> BOOLEAN]
  /\ artRow \in ArtifactRows
  /\ artDir \in [Projects -> SUBSET Stages]
  /\ crashes \in 0..MaxCrashes

Init ==
  /\ pc = [j \in Jobs |-> "idle"]
  /\ running = [p \in Projects |-> NoJob]
  /\ ctxDone = [j \in Jobs |-> FALSE]
  /\ plan = [j \in Jobs |-> [s \in Stages |-> "absent"]]
  /\ cursor = [j \in Jobs |-> 1]
  /\ decided = [j \in Jobs |-> "none"]
  /\ jobRow = [j \in Jobs |-> "none"]
  /\ stageRow = [j \in Jobs |-> [s \in Stages |-> "none"]]
  /\ tmp = [j \in Jobs |-> FALSE]
  /\ artRow = [p \in Projects |-> [s \in Stages |-> "none"]]
  /\ artDir = [p \in Projects |-> {}]
  /\ crashes = 0

Goto(j, label) == pc' = [pc EXCEPT ![j] = label]

-----------------------------------------------------------------------------
(* The request handler: App.Start, and App.Run up to the same point. *)

\* Temporary directories of the whole project are swept before the claim is
\* taken, whoever owns them.
SweepTempDirectories(p) ==
  tmp' = [k \in Jobs |-> IF ProjectOf[k] = p THEN FALSE ELSE tmp[k]]

\* prepare: sweep, then plan.  Neither holds the project.  A request that
\* cannot be planned is answered with an error after the sweep.
Prepare(j) ==
  /\ pc[j] = "idle"
  /\ SweepTempDirectories(ProjectOf[j])
  /\ \/ /\ \E selected \in (SUBSET Stages) \ {{}}, force \in BOOLEAN :
             \E states \in Build(ProjectOf[j], selected, force) :
               plan' = [plan EXCEPT ![j] = states]
        /\ Goto(j, "prepared")
     \/ Goto(j, "rejected") /\ UNCHANGED plan
  /\ UNCHANGED <<cursor, decided, running, ctxDone, rowVars, artRow, artDir,
                 crashes>>

\* Mutant: the entry is replaced without asking whether there is one.
Begin_NoCheck(j) ==
  /\ pc[j] = "prepared"
  /\ running' = [running EXCEPT ![ProjectOf[j]] = j]
  /\ Goto(j, "claimed")
  /\ UNCHANGED <<plan, cursor, decided, ctxDone, rowVars, storeVars, crashes>>

\* Scheduler.Begin refuses a project that is already running.
Begin(j) ==
  /\ pc[j] = "prepared"
  /\ IF running[ProjectOf[j]] # NoJob
       THEN Goto(j, "rejected") /\ UNCHANGED running
       ELSE /\ running' = [running EXCEPT ![ProjectOf[j]] = j]
            /\ Goto(j, "claimed")
  /\ UNCHANGED <<plan, cursor, decided, ctxDone, rowVars, storeVars, crashes>>

\* Scheduler.Finish cancels the entry's context and deletes the entry.  It is
\* told the project, not the job.
Finish(p) ==
  /\ running' = [running EXCEPT ![p] = NoJob]
  /\ ctxDone' = [k \in Jobs |-> ctxDone[k] \/ running[p] = k]

\* Mutant: the error path forgets to give the claim back.
Create_LeaksClaim(j) ==
  /\ pc[j] = "claimed"
  /\ \/ jobRow' = [jobRow EXCEPT ![j] = "pending"] /\ Goto(j, "created")
     \/ Goto(j, "rejected") /\ UNCHANGED jobRow
  /\ UNCHANGED <<plan, cursor, decided, running, ctxDone, stageRow, storeVars,
                 crashes>>

\* Jobs.Create, on the request's own context: the insert fails when the client
\* has gone, and the claim is given back.
Create(j) ==
  /\ pc[j] = "claimed"
  /\ \/ /\ jobRow' = [jobRow EXCEPT ![j] = "pending"]
        /\ Goto(j, "created")
        /\ UNCHANGED <<running, ctxDone>>
     \/ /\ Finish(ProjectOf[j])
        /\ Goto(j, "rejected")
        /\ UNCHANGED jobRow
  /\ UNCHANGED <<plan, cursor, decided, stageRow, storeVars, crashes>>

\* Scheduler.Cancel: a user's request, or an interrupt of the command line.
Cancel(p) ==
  /\ running[p] # NoJob
  /\ ctxDone' = [ctxDone EXCEPT ![running[p]] = TRUE]
  /\ UNCHANGED <<execVars, running, rowVars, storeVars, crashes>>

-----------------------------------------------------------------------------
(* The run: App.execute around pipeline.Run. *)

\* A row is written on the run's own context, so a cancelled run writes none.
WriteStageRow(j, s, state) ==
  stageRow' = IF ctxDone[j] THEN stageRow
                            ELSE [stageRow EXCEPT ![j][s] = state]

\* execute's first write is on the run's context too.
MarkRunning(j) ==
  /\ pc[j] = "created"
  /\ IF ctxDone[j] THEN UNCHANGED jobRow ELSE SetStatus(j, "running")
  /\ Goto(j, "report")
  /\ UNCHANGED <<plan, cursor, decided, running, ctxDone, stageRow, storeVars,
                 crashes>>

\* Run's first loop reports the stages the plan already settled, one at a time.
ReportSettled(j) ==
  /\ pc[j] = "report"
  /\ IF cursor[j] \in Stages
       THEN /\ cursor' = [cursor EXCEPT ![j] = @ + 1]
            /\ IF plan[j][cursor[j]] \in StageTerminal
                 THEN WriteStageRow(j, cursor[j], plan[j][cursor[j]])
                 ELSE UNCHANGED stageRow
            /\ UNCHANGED pc
       ELSE /\ cursor' = [cursor EXCEPT ![j] = 1]
            /\ Goto(j, "loop")
            /\ UNCHANGED stageRow
  /\ UNCHANGED <<plan, decided, running, ctxDone, jobRow, storeVars, crashes>>

\* cancelRemaining.  Its calls to StageSettled carry the cancelled context, so
\* no row is written.
CancelRemaining(j) ==
  plan' = [plan EXCEPT ![j] = [s \in Stages |->
             IF @[s] \in {"pending", "running"} THEN "cancelled" ELSE @[s]]]

\* The loop's early return: the context was cancelled before a pending stage,
\* or after the last one.
StopCancelled(j) ==
  /\ pc[j] = "loop"
  /\ ctxDone[j]
  /\ cursor[j] \in Stages => plan[j][cursor[j]] = "pending"
  /\ CancelRemaining(j)
  /\ Goto(j, "outcome")
  /\ UNCHANGED <<cursor, decided, running, ctxDone, rowVars, storeVars, crashes>>

\* A stage that is not pending was settled by the plan or not selected.
PassOver(j) ==
  /\ pc[j] = "loop"
  /\ cursor[j] \in Stages
  /\ plan[j][cursor[j]] # "pending"
  /\ cursor' = [cursor EXCEPT ![j] = @ + 1]
  /\ UNCHANGED <<pc, plan, decided, running, ctxDone, rowVars, storeVars, crashes>>

\* Re-checked at execution time: a dependency may have failed in this run.
SkipBlocked(j) ==
  /\ pc[j] = "loop"
  /\ cursor[j] \in Stages
  /\ plan[j][cursor[j]] = "pending"
  /\ ~ctxDone[j]
  /\ Unrunnable(plan[j], cursor[j])
  /\ plan' = [plan EXCEPT ![j][cursor[j]] = "skipped"]
  /\ Goto(j, "settle")
  /\ UNCHANGED <<cursor, decided, running, ctxDone, rowVars, storeVars, crashes>>

\* Mutant: the plan's verdict is trusted and not re-checked.
EnterStage_NoRecheck(j) ==
  /\ pc[j] = "loop"
  /\ cursor[j] \in Stages
  /\ plan[j][cursor[j]] = "pending"
  /\ ~ctxDone[j]
  /\ plan' = [plan EXCEPT ![j][cursor[j]] = "running"]
  /\ Goto(j, "enter")
  /\ UNCHANGED <<cursor, decided, running, ctxDone, rowVars, storeVars, crashes>>

\* The stage may run.
EnterStage(j) ==
  /\ pc[j] = "loop"
  /\ cursor[j] \in Stages
  /\ plan[j][cursor[j]] = "pending"
  /\ ~ctxDone[j]
  /\ ~Unrunnable(plan[j], cursor[j])
  /\ plan' = [plan EXCEPT ![j][cursor[j]] = "running"]
  /\ Goto(j, "enter")
  /\ UNCHANGED <<cursor, decided, running, ctxDone, rowVars, storeVars, crashes>>

\* runStage: StageEntered writes the row, then Store.Begin makes the temporary
\* directory or fails.
BeginStage(j) ==
  /\ pc[j] = "enter"
  /\ WriteStageRow(j, cursor[j], "running")
  /\ \/ /\ tmp' = [tmp EXCEPT ![j] = TRUE]
        /\ Goto(j, "stage")
        /\ UNCHANGED plan
     \/ /\ plan' = [plan EXCEPT ![j][cursor[j]] = "failed"]
        /\ Goto(j, "settle")
        /\ UNCHANGED tmp
  /\ UNCHANGED <<cursor, decided, running, ctxDone, jobRow, artRow, artDir,
                 crashes>>

\* Stage.Run returned a result.
StageSucceeds(j) ==
  /\ pc[j] = "stage"
  /\ Goto(j, "commit")
  /\ UNCHANGED <<plan, cursor, decided, running, ctxDone, rowVars, storeVars,
                 crashes>>

\* Stage.Run returned an error: the writer is aborted on a live context, and
\* failureState tells a cancellation from a failure.  An error that wraps
\* context.Canceled counts as a cancellation whatever the run's context says.
StageFails(j) ==
  /\ pc[j] = "stage"
  /\ \E state \in IF ctxDone[j] THEN {"cancelled"} ELSE {"failed", "cancelled"} :
       plan' = [plan EXCEPT ![j][cursor[j]] = state]
  /\ tmp' = [tmp EXCEPT ![j] = FALSE]
  /\ artRow' = [artRow EXCEPT ![ProjectOf[j]][cursor[j]] = "failed"]
  /\ Goto(j, "settle")
  /\ UNCHANGED <<cursor, decided, running, ctxDone, rowVars, artDir, crashes>>

\* Commit, up to the rename.  Without the temporary directory the primary
\* payload is missing and the stage is recorded as failed.
Publish(j) ==
  /\ pc[j] = "commit"
  /\ IF tmp[j]
       THEN /\ artDir' = [artDir EXCEPT ![ProjectOf[j]] = @ \cup {cursor[j]}]
            /\ tmp' = [tmp EXCEPT ![j] = FALSE]
            /\ Goto(j, "insert")
            /\ UNCHANGED plan
       ELSE /\ plan' = [plan EXCEPT ![j][cursor[j]] = "failed"]
            /\ Goto(j, "settle")
            /\ UNCHANGED <<artDir, tmp>>
  /\ UNCHANGED <<cursor, decided, running, ctxDone, rowVars, artRow, crashes>>

\* Commit's insert, on the run's context.  The pruning that follows leaves the
\* newest address alone, and here a stage has no other (see ArtifactStore).
InsertRow(j) ==
  /\ pc[j] = "insert"
  /\ IF ctxDone[j]
       THEN /\ plan' = [plan EXCEPT ![j][cursor[j]] = "failed"]
            /\ UNCHANGED artRow
       ELSE /\ plan' = [plan EXCEPT ![j][cursor[j]] = "completed"]
            /\ artRow' = [artRow EXCEPT ![ProjectOf[j]][cursor[j]] = "ready"]
  /\ Goto(j, "settle")
  /\ UNCHANGED <<cursor, decided, running, ctxDone, rowVars, tmp, artDir, crashes>>

\* Mutant: the loop's body advances the index and the loop does so again.
Settle_Twice(j) ==
  /\ pc[j] = "settle"
  /\ WriteStageRow(j, cursor[j], plan[j][cursor[j]])
  /\ cursor' = [cursor EXCEPT ![j] = @ + 2]
  /\ Goto(j, "loop")
  /\ UNCHANGED <<plan, decided, running, ctxDone, jobRow, storeVars, crashes>>

\* Observer.StageSettled for a stage the loop has just settled.
Settle(j) ==
  /\ pc[j] = "settle"
  /\ WriteStageRow(j, cursor[j], plan[j][cursor[j]])
  /\ cursor' = [cursor EXCEPT ![j] = @ + 1]
  /\ Goto(j, "loop")
  /\ UNCHANGED <<plan, decided, running, ctxDone, jobRow, storeVars, crashes>>

\* The loop ran off the end with the context still live.
LoopDone(j) ==
  /\ pc[j] = "loop"
  /\ cursor[j] \notin Stages
  /\ ~ctxDone[j]
  /\ Goto(j, "outcome")
  /\ UNCHANGED <<plan, cursor, decided, running, ctxDone, rowVars, storeVars,
                 crashes>>

\* Mutants: only an error counts against the run; the plan before the context.
jobOutcome_ErrorsOnly(j) ==
  IF ctxDone[j] THEN "cancelled"
  ELSE IF \E s \in Stages : plan[j][s] \in {"failed", "cancelled"}
         THEN "failed" ELSE "completed"
jobOutcome_PlanFirst(j) ==
  IF \E s \in Stages : plan[j][s] \in {"failed", "cancelled", "skipped"}
    THEN "failed"
    ELSE IF ctxDone[j] THEN "cancelled" ELSE "completed"

\* jobOutcome: the context first, then the plan.  With a live context a stage
\* has an error exactly when it is failed or cancelled, and is blocked exactly
\* when it is skipped.
jobOutcome(j) ==
  IF ctxDone[j] THEN "cancelled"
  ELSE IF \E s \in Stages : plan[j][s] \in {"failed", "cancelled", "skipped"}
         THEN "failed"
         ELSE "completed"

Decide(j) ==
  /\ pc[j] = "outcome"
  /\ decided' = [decided EXCEPT ![j] = jobOutcome(j)]
  /\ Goto(j, "record")
  /\ UNCHANGED <<plan, cursor, running, ctxDone, rowVars, storeVars, crashes>>

\* Mutant: the outcome is written on the run's own context.
RecordOutcome_RunContext(j) ==
  /\ pc[j] = "record"
  /\ IF ctxDone[j] THEN UNCHANGED jobRow ELSE SetStatus(j, decided[j])
  /\ Goto(j, "release")
  /\ UNCHANGED <<plan, cursor, decided, running, ctxDone, stageRow, storeVars,
                 crashes>>

\* The outcome is written on a context detached from the run's.
RecordOutcome(j) ==
  /\ pc[j] = "record"
  /\ SetStatus(j, decided[j])
  /\ Goto(j, "release")
  /\ UNCHANGED <<plan, cursor, decided, running, ctxDone, stageRow, storeVars,
                 crashes>>

Release(j) ==
  /\ pc[j] = "release"
  /\ Finish(ProjectOf[j])
  /\ Goto(j, "done")
  /\ UNCHANGED <<plan, cursor, decided, rowVars, storeVars, crashes>>

-----------------------------------------------------------------------------
(* Process death. *)

\* The process dies and another is started over the same data directory.
Restart ==
  /\ crashes < MaxCrashes
  /\ crashes' = crashes + 1
  /\ running' = [p \in Projects |-> NoJob]
  /\ pc' = [j \in Jobs |-> IF pc[j] \in Executing \cup {"prepared"}
                             THEN "dead" ELSE pc[j]]
  /\ UNCHANGED <<plan, cursor, decided, ctxDone, storeVars>>

\* app.New opens the repositories and changes no row.
RestartOnly == Restart /\ UNCHANGED rowVars

\* Mutants: the stage rows are forgotten; every unsuccessful job is rewritten.
Reconcile_JobsOnly ==
  /\ jobRow' = [j \in Jobs |->
       IF jobRow[j] \in {"running", "paused"} THEN "failed" ELSE jobRow[j]]
  /\ UNCHANGED stageRow
Reconcile_Everything ==
  /\ jobRow' = [j \in Jobs |->
       IF jobRow[j] \in {"none", "completed"} THEN jobRow[j] ELSE "failed"]
  /\ stageRow' = [j \in Jobs |-> [s \in Stages |->
       IF stageRow[j][s] = "running" THEN "failed" ELSE stageRow[j][s]]]

\* Repository.Reconcile, run before any request is served.
Reconcile ==
  LET interrupted == {j \in Jobs : jobRow[j] \in {"running", "paused"}}
  IN  /\ jobRow' = [j \in Jobs |->
           IF j \in interrupted /\ CheckTransition(jobRow[j], "failed")
             THEN "failed" ELSE jobRow[j]]
      /\ stageRow' = [j \in Jobs |-> [s \in Stages |->
           IF j \in interrupted /\ stageRow[j][s] = "running"
             THEN "failed" ELSE stageRow[j][s]]]

RestartReconciling == Restart /\ Reconcile

-----------------------------------------------------------------------------

Request(j) == Prepare(j) \/ Begin(j) \/ Create(j)

Execute(j) ==
  \/ MarkRunning(j) \/ ReportSettled(j) \/ StopCancelled(j) \/ PassOver(j)
  \/ SkipBlocked(j) \/ EnterStage(j) \/ BeginStage(j) \/ StageSucceeds(j)
  \/ StageFails(j) \/ Publish(j) \/ InsertRow(j) \/ Settle(j) \/ LoopDone(j) \/ Decide(j)
  \/ RecordOutcome(j) \/ Release(j)

\* Every request has been answered and every run has ended.
Quiescent ==
  /\ \A j \in Jobs : pc[j] \in {"rejected", "done", "dead"}
  /\ UNCHANGED vars

Step ==
  \/ \E j \in Jobs : Request(j) \/ Execute(j)
  \/ \E p \in Projects : Cancel(p)
  \/ Quiescent

\* The program as it is built: nothing calls Reconcile when it starts.
Next == Step \/ RestartOnly

\* The program with Reconcile called at startup, as tests/phase1_test.go does.
NextReconciling == Step \/ RestartReconciling

Spec == Init /\ [][Next]_vars

ReconcilingSpec == Init /\ [][NextReconciling]_vars

\* Goroutines are scheduled, and a stage ends by a result or an error.
Fairness == \A j \in Jobs : WF_vars(Execute(j)) /\ WF_vars(Create(j))

FairReconcilingSpec == ReconcilingSpec /\ Fairness

-----------------------------------------------------------------------------
(* Properties. *)

\* A project is executed by at most one job, and the scheduler's entry names
\* exactly that job: whoever is between Begin and Finish owns the project, so
\* Finish, which is told only the project, never releases another job's claim.
ClaimIsExclusive ==
  \A p \in Projects : \A j \in Jobs :
    ProjectOf[j] = p => (pc[j] \in Executing <=> running[p] = j)

\* A stage is started, and an artifact recorded for it, only when every
\* dependency that is part of the run has succeeded in it: the re-check in the
\* loop makes up for failures that happened after the plan was built.
DependenciesSucceeded ==
  \A j \in Jobs : \A s \in Stages :
    plan[j][s] \in {"running", "completed"} => ~Unrunnable(plan[j], s)

\* A run that has ended always has a terminal status on its row: the outcome
\* jobOutcome chooses is never one CheckTransition refuses, even when the
\* cancelled context kept the row from ever being marked running.
OutcomeIsRecorded ==
  \A j \in Jobs : pc[j] \in {"release", "done"} =>
    Terminal(jobRow[j]) /\ jobRow[j] = decided[j]

\* A completed job is one whose every selected stage is recorded as completed
\* or cached, although each of those rows was written on a context that a
\* cancellation may have ended at any step.
CompletedMeansDelivered ==
  \A j \in Jobs : jobRow[j] = "completed" =>
    \A s \in Stages : plan[j][s] # "absent" => stageRow[j][s] \in Succeeded

\* A job that is recorded as failed left no stage row behind that says
\* "running".
FailedLeavesNothingRunning ==
  \A j \in Jobs : \A s \in Stages :
    jobRow[j] = "failed" => stageRow[j][s] # "running"

\* A terminal status is never left, whoever writes the row next: a job's own
\* late outcome, or Reconcile after a restart.
TerminalIsFinal ==
  [][\A j \in Jobs : Terminal(jobRow[j]) => jobRow'[j] = jobRow[j]]_vars

\* runner.go: "never leaves a job stuck in running".  A row that says running
\* belongs to a job this process is executing.
NoJobStuckRunning ==
  \A j \in Jobs : jobRow[j] = "running" => running[ProjectOf[j]] = j

\* A writer that is still producing a stage's output has its temporary
\* directory: no sweep removes it.
LiveWriterKeepsItsDirectory ==
  \A j \in Jobs : pc[j] \in {"stage", "commit"} => tmp[j]

\* A claim is always given back.
ClaimIsReleased ==
  \A j \in Jobs : pc[j] = "claimed" ~> running[ProjectOf[j]] # j

\* A cancellation that arrives before the outcome is decided is what the row
\* finally says, whatever the stages were doing, unless the process dies.
CancellationIsHonoured ==
  \A j \in Jobs :
    (ctxDone[j] /\ pc[j] \in Executing \ {"claimed", "record", "release"})
      ~> (jobRow[j] = "cancelled" \/ pc[j] = "dead")
=============================================================================
