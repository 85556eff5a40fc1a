---------------------------- MODULE ArtifactStore ----------------------------
(***************************************************************************)
(* internal/artifact: how one stage's output is written, published,        *)
(* recorded, pruned and found again, with the file system in the steps a   *)
(* crash or another request can fall between.                              *)
(*                                                                         *)
(* Runs are executions of one stage of one project.  A run is planned      *)
(* (Lookup decides whether the stage is cached) before it claims the       *)
(* project, exactly as App.prepare comes before Scheduler.Begin; JobRun    *)
(* models the rest of the run.  Keys are content addresses: a run's key is *)
(* derived from its inputs and configuration, and two runs may share one.  *)
(* Rows and directories survive a crash.                                   *)
(***************************************************************************)
EXTENDS Integers, FiniteSets

CONSTANTS
  Runs,        \* executions of the stage
  Keys,        \* content addresses
  NoRun,       \* nobody holds the project
  Retentions,  \* what artifact.retention may be: -1 keeps everything, 0 nothing
  MaxCrashes   \* bound on process deaths

ASSUME ArtifactStoreAssumption ==
  /\ NoRun \notin Runs
  /\ Retentions \subseteq Int /\ \A n \in Retentions : n >= -1
  /\ MaxCrashes \in Nat

VARIABLES
  serial,   \* requests come one after the other, to reuse what there is; otherwise
            \* they overlap, may force a stage, and the user may remove the artifacts
  retention, \* artifact.retention in the configuration each run was given
  pc,       \* where each run is
  key,      \* the content address the run derived
  cached,   \* the plan found a ready artifact
  ctxDone,  \* the run's context has been cancelled
  holder,   \* the run that holds the project
  victims,  \* what GC has listed and not yet removed
  tmp,      \* the run's temporary directory: what it holds, or "none"
  dir,      \* the artifact directory of each key: what it holds, or "none"
  row,      \* artifacts.status of each key, or "none"
  at,       \* artifacts.created_at of each key
  clock,    \* the wall clock, advanced by every write of a row
  remover,  \* where RemoveFileGroup is
  listed,   \* what RemoveAll has listed and not yet removed
  doomed,   \* the key whose row RemoveAll has deleted and whose directory not yet
  crashes   \* how often the process has died

runVars  == <<key, cached, ctxDone, victims>>
rowVars  == <<row, at, clock>>
diskVars == <<tmp, dir, rowVars>>
userVars == <<remover, listed, doomed>>
vars == <<serial, retention, pc, runVars, holder, diskVars, userVars, crashes>>

Executing == {"claimed", "writing", "commit", "clear", "clearing", "rename",
              "insert", "gc", "prune", "unlink", "usable", "failed"}

TypeOK ==
  /\ serial \in BOOLEAN
  /\ retention \in [Runs -> Retentions]
  /\ pc \in [Runs -> Executing \cup {"idle", "planned", "refused", "done", "dead"}]
  /\ key \in [Runs -> Keys]
  /\ cached \in [Runs -> BOOLEAN]
  /\ ctxDone \in [Runs -> BOOLEAN]
  /\ holder \in Runs \cup {NoRun}
  /\ victims \in [Runs -> SUBSET Keys]
  /\ tmp \in [Runs -> {"none", "empty", "payload", "whole"}]
  /\ dir \in [Keys -> {"none", "payload", "whole", "torn"}]
  /\ row \in [Keys -> {"none", "ready", "failed"}]
  /\ at \in [Keys -> Nat]
  /\ clock \in Nat
  /\ remover \in {"idle", "list", "delete", "done"}
  /\ listed \in SUBSET Keys
  /\ doomed \in SUBSET Keys
  /\ crashes \in 0..MaxCrashes

Init ==
  /\ serial \in BOOLEAN
  /\ retention \in [Runs -> Retentions]
  /\ pc = [r \in Runs |-> "idle"]
  /\ key \in [Runs -> Keys]
  /\ cached = [r \in Runs |-> FALSE]
  /\ ctxDone = [r \in Runs |-> FALSE]
  /\ holder = NoRun
  /\ victims = [r \in Runs |-> {}]
  /\ tmp = [r \in Runs |-> "none"]
  /\ dir = [k \in Keys |-> "none"]
  /\ row = [k \in Keys |-> "none"]
  /\ at = [k \in Keys |-> 0]
  /\ clock = 0
  /\ remover = "idle"
  /\ listed = {}
  /\ doomed = {}
  /\ crashes = 0

Goto(r, label) == pc' = [pc EXCEPT ![r] = label]

-----------------------------------------------------------------------------
(* Finding an artifact, and claiming the project. *)

\* Mutant: a failed attempt's row is as good as a ready one.
Lookup_AnyRow(k) == row[k] # "none"

\* A ready row whose directory is gone is a miss.  Any directory will do: what
\* is in it is not looked at.
Lookup(k) == row[k] = "ready" /\ dir[k] # "none"

\* Every temporary directory of the project, whoever is writing into it.
SweepTempDirectories == tmp' = [r \in Runs |-> "none"]

Plan(r) ==
  /\ pc[r] = "idle"
  /\ serial => \A q \in Runs : pc[q] \notin Executing \cup {"planned"}
  /\ SweepTempDirectories
  /\ \E force \in {FALSE, ~serial} :
       cached' = [cached EXCEPT ![r] = ~force /\ Lookup(key[r])]
  /\ Goto(r, "planned")
  /\ UNCHANGED <<key, ctxDone, victims, holder, dir, rowVars, userVars, crashes>>

Claim(r) ==
  /\ pc[r] = "planned"
  /\ IF holder = NoRun THEN holder' = r /\ Goto(r, "claimed")
                       ELSE UNCHANGED holder /\ Goto(r, "refused")
  /\ UNCHANGED <<runVars, diskVars, userVars, crashes>>

\* A cached stage is passed over: its dependents read the artifact it found.
PassOver(r) ==
  /\ pc[r] = "claimed"
  /\ cached[r]
  /\ Goto(r, "usable")
  /\ UNCHANGED <<runVars, holder, diskVars, userVars, crashes>>

-----------------------------------------------------------------------------
(* Writing one. *)

\* The upsert replaces the status and the time of the key's row.
insert(k, status) ==
  /\ clock' = clock + 1
  /\ row' = [row EXCEPT ![k] = status]
  /\ at' = [at EXCEPT ![k] = clock + 1]

\* MkdirTemp: every writer has a directory of its own.
Begin(r) ==
  /\ pc[r] = "claimed"
  /\ ~cached[r]
  /\ tmp' = [tmp EXCEPT ![r] = "empty"]
  /\ Goto(r, "writing")
  /\ UNCHANGED <<runVars, holder, dir, rowVars, userVars, crashes>>

\* The stage writes its payload, which needs the directory to be there.
WritePayload(r) ==
  /\ pc[r] = "writing"
  /\ tmp[r] # "none"
  /\ tmp' = [tmp EXCEPT ![r] = "payload"]
  /\ Goto(r, "commit")
  /\ UNCHANGED <<runVars, holder, dir, rowVars, userVars, crashes>>

\* The stage failed or was cancelled.  The row is written on a live context
\* and replaces whatever the key's row said.
Abort(r) ==
  /\ pc[r] = "writing"
  /\ tmp' = [tmp EXCEPT ![r] = "none"]
  /\ insert(key[r], "failed")
  /\ Goto(r, "failed")
  /\ UNCHANGED <<runVars, holder, dir, userVars, crashes>>

\* Mutant: the manifest is left for later.
WriteManifest_Later(r) ==
  /\ pc[r] = "commit"
  /\ Goto(r, IF tmp[r] = "none" THEN "failed" ELSE "clear")
  /\ UNCHANGED <<runVars, holder, diskVars, userVars, crashes>>

\* Commit: the primary payload must exist, and the manifest is synced beside
\* it before anything is published.
WriteManifest(r) ==
  /\ pc[r] = "commit"
  /\ IF tmp[r] = "none"
       THEN Goto(r, "failed") /\ UNCHANGED tmp
       ELSE Goto(r, "clear") /\ tmp' = [tmp EXCEPT ![r] = "whole"]
  /\ UNCHANGED <<runVars, holder, dir, rowVars, userVars, crashes>>

\* os.RemoveAll of the previous version: a tree is removed file by file.
ClearPrevious(r) ==
  /\ pc[r] = "clear"
  /\ IF dir[key[r]] = "none"
       THEN Goto(r, "rename") /\ UNCHANGED dir
       ELSE Goto(r, "clearing") /\ dir' = [dir EXCEPT ![key[r]] = "torn"]
  /\ UNCHANGED <<runVars, holder, tmp, rowVars, userVars, crashes>>

\* Mutant: the contents are removed and the directory is left.
PreviousCleared_LeavesDirectory(r) ==
  /\ pc[r] = "clearing"
  /\ dir' = [dir EXCEPT ![key[r]] = "empty"]
  /\ Goto(r, "rename")
  /\ UNCHANGED <<runVars, holder, tmp, rowVars, userVars, crashes>>

PreviousCleared(r) ==
  /\ pc[r] = "clearing"
  /\ dir' = [dir EXCEPT ![key[r]] = "none"]
  /\ Goto(r, "rename")
  /\ UNCHANGED <<runVars, holder, tmp, rowVars, userVars, crashes>>

\* os.Rename makes the new version visible at once.
Rename(r) ==
  /\ pc[r] = "rename"
  /\ IF tmp[r] = "none"
       THEN Goto(r, "failed") /\ UNCHANGED <<tmp, dir>>
       ELSE /\ dir' = [dir EXCEPT ![key[r]] = tmp[r]]
            /\ tmp' = [tmp EXCEPT ![r] = "none"]
            /\ Goto(r, "insert")
  /\ UNCHANGED <<runVars, holder, rowVars, userVars, crashes>>

\* The row is written last, on the run's context.
Record(r) ==
  /\ pc[r] = "insert"
  /\ IF ctxDone[r]
       THEN Goto(r, "failed") /\ UNCHANGED rowVars
       ELSE Goto(r, "gc") /\ insert(key[r], "ready")
  /\ UNCHANGED <<runVars, holder, tmp, dir, userVars, crashes>>

-----------------------------------------------------------------------------
(* Pruning, after a stage that succeeded. *)

Newer(k) == {m \in Keys : row[m] # "none" /\ at[m] > at[k]}

\* Mutant: the newest version is not counted among the retained ones.
superseded_OneTooMany(r) ==
  {k \in Keys : row[k] # "none" /\ Cardinality(Newer(k)) >= retention[r] - 1}

\* The rows past the retained ones of the listing, newest first: all of them,
\* this run's own included, when the retention is 0.
superseded(r) ==
  {k \in Keys : row[k] # "none" /\ Cardinality(Newer(k)) >= retention[r]}

\* A listing that fails is logged and nothing is pruned.
GC(r) ==
  /\ pc[r] = "gc"
  /\ IF retention[r] < 0 \/ ctxDone[r]
       THEN Goto(r, "usable") /\ UNCHANGED victims
       ELSE /\ victims' = [victims EXCEPT ![r] = superseded(r)]
            /\ Goto(r, "prune")
  /\ UNCHANGED <<key, cached, ctxDone, holder, diskVars, userVars, crashes>>

\* Mutant: the directory goes first.
PruneRow_DirectoryFirst(r) ==
  /\ pc[r] = "prune"
  /\ \/ /\ victims[r] = {} \/ ctxDone[r]
        /\ Goto(r, "usable")
        /\ UNCHANGED dir
     \/ /\ ~ctxDone[r]
        /\ \E v \in victims[r] : dir' = [dir EXCEPT ![v] = "none"]
        /\ Goto(r, "unlink")
  /\ UNCHANGED <<runVars, holder, tmp, rowVars, userVars, crashes>>

\* The row first.  A deletion the cancelled context refuses ends the pruning.
PruneRow(r) ==
  /\ pc[r] = "prune"
  /\ \/ /\ victims[r] = {} \/ ctxDone[r]
        /\ Goto(r, "usable")
        /\ UNCHANGED row
     \/ /\ ~ctxDone[r]
        /\ \E v \in victims[r] :
             /\ Newer(v) \cap victims[r] = {}
             /\ row' = [row EXCEPT ![v] = "none"]
        /\ Goto(r, "unlink")
  /\ UNCHANGED <<runVars, holder, tmp, dir, at, clock, userVars, crashes>>

\* Then the directory, of the victim whose row is gone.
PruneDirectory(r) ==
  /\ pc[r] = "unlink"
  /\ \E v \in victims[r] :
       /\ row[v] = "none"
       /\ dir' = [dir EXCEPT ![v] = "none"]
       /\ victims' = [victims EXCEPT ![r] = @ \ {v}]
  /\ Goto(r, "prune")
  /\ UNCHANGED <<key, cached, ctxDone, holder, tmp, rowVars, userVars, crashes>>

Finish(r) ==
  /\ pc[r] \in {"usable", "failed"}
  /\ holder' = NoRun
  /\ Goto(r, "done")
  /\ UNCHANGED <<runVars, diskVars, userVars, crashes>>

Cancel(r) ==
  /\ holder = r
  /\ ctxDone' = [ctxDone EXCEPT ![r] = TRUE]
  /\ UNCHANGED <<pc, key, cached, victims, holder, diskVars, userVars, crashes>>

-----------------------------------------------------------------------------
(* App.RemoveFileGroup for the artifacts, and process death. *)

\* Refused while the project is running.  Nothing is claimed.
RemoveCheck ==
  /\ ~serial
  /\ remover = "idle"
  /\ remover' = IF holder = NoRun THEN "list" ELSE "done"
  /\ UNCHANGED <<pc, runVars, holder, diskVars, listed, doomed, crashes>>

\* RemoveAll lists the rows, ...
RemoveList ==
  /\ remover = "list"
  /\ listed' = {k \in Keys : row[k] # "none"}
  /\ remover' = "delete"
  /\ UNCHANGED <<pc, runVars, holder, diskVars, doomed, crashes>>

\* ... deletes one after the other, the row ...
RemoveRow ==
  /\ remover = "delete"
  /\ doomed = {}
  /\ \E k \in listed :
       /\ row' = [row EXCEPT ![k] = "none"]
       /\ listed' = listed \ {k}
       /\ doomed' = {k}
  /\ UNCHANGED <<pc, runVars, holder, tmp, dir, at, clock, remover, crashes>>

\* ... and then the directory, ...
RemoveDirectory ==
  /\ doomed # {}
  /\ dir' = [k \in Keys |-> IF k \in doomed THEN "none" ELSE dir[k]]
  /\ doomed' = {}
  /\ UNCHANGED <<pc, runVars, holder, tmp, rowVars, remover, listed, crashes>>

\* ... and finally the whole tree, temporary directories included.
RemoveTree ==
  /\ remover = "delete"
  /\ listed = {} /\ doomed = {}
  /\ dir' = [k \in Keys |-> "none"]
  /\ tmp' = [r \in Runs |-> "none"]
  /\ remover' = "done"
  /\ UNCHANGED <<pc, runVars, holder, rowVars, listed, doomed, crashes>>

\* A statement or a directory that fails ends the removal where it is.
RemoveFails ==
  /\ remover \in {"list", "delete"}
  /\ remover' = "done"
  /\ listed' = {} /\ doomed' = {}
  /\ UNCHANGED <<pc, runVars, holder, diskVars, crashes>>

Crash ==
  /\ crashes < MaxCrashes
  /\ crashes' = crashes + 1
  /\ pc' = [r \in Runs |-> IF pc[r] \in Executing \cup {"planned"}
                             THEN "dead" ELSE pc[r]]
  /\ holder' = NoRun
  /\ remover' = IF remover = "idle" THEN "idle" ELSE "done"
  /\ listed' = {} /\ doomed' = {}
  /\ UNCHANGED <<runVars, diskVars>>

-----------------------------------------------------------------------------

Write(r) ==
  \/ Begin(r) \/ WritePayload(r) \/ Abort(r) \/ WriteManifest(r)
  \/ ClearPrevious(r) \/ PreviousCleared(r) \/ Rename(r) \/ Record(r)

Prune(r) == GC(r) \/ PruneRow(r) \/ PruneDirectory(r)

Quiescent ==
  /\ \A r \in Runs : pc[r] \in {"refused", "done", "dead"}
  /\ UNCHANGED vars

Step ==
  \/ \E r \in Runs :
       \/ Plan(r) \/ Claim(r) \/ PassOver(r) \/ Write(r) \/ Prune(r)
       \/ Finish(r) \/ Cancel(r)
  \/ RemoveCheck \/ RemoveList \/ RemoveRow \/ RemoveDirectory \/ RemoveTree
  \/ RemoveFails
  \/ Crash

Next == (UNCHANGED <<serial, retention>> /\ Step) \/ Quiescent

Spec == Init /\ [][Next]_vars

-----------------------------------------------------------------------------
(* Properties. *)

\* Nothing half-written is ever published: an artifact directory never holds a
\* payload without the manifest that describes it, whoever sweeps, cancels or
\* crashes in between.
NothingHalfWritten == \A k \in Keys : dir[k] # "payload"

\* The run's output is there, or its own retention of 0 took it away.
OnDisk(r) == dir[key[r]] = "whole"
PrunedItself(r) == retention[r] = 0 /\ row[key[r]] = "none"

\* The output of a stage that a run has just completed is on disk for the
\* stages that follow: neither the pruning that comes after the commit nor
\* another request's sweep or plan has taken it away.  Two things do: the user's
\* removal of the project's artifacts, which the claim does not keep out; and a
\* retention of 0, which the configuration accepts and under which the run prunes
\* what it has just committed, where GC's comment has that "the newest version is
\* never pruned".  Even then the index follows: the row is gone with the files.
CompletedIsUsable ==
  \A r \in Runs :
    pc[r] = "usable" /\ ~cached[r] /\ remover = "idle" => OnDisk(r) \/ PrunedItself(r)

\* plan.go: "Succeeded reports whether the stage's output is usable by its
\* dependents", and cached counts as much as completed.
SucceededIsUsable ==
  \A r \in Runs : pc[r] = "usable" => OnDisk(r) \/ (~cached[r] /\ PrunedItself(r))

\* The index never promises more than the disk holds: a row that says ready has
\* a whole directory, through crashes between any two steps of a commit or of
\* a pruning.
ReadyIsOnDisk ==
  \A k \in Keys : row[k] = "ready" => dir[k] = "whole"

\* Requests made one after the other: whatever was cancelled or crashed, a row
\* that says ready has its files, and a run that succeeded, or found its output
\* made, has it on disk.  A forced re-run clears the files of a ready row, a plan
\* made beside another run may count on what that run prunes, and a removal is
\* not kept out by the claim: with those, neither holds.
StoreIsSound == serial => ReadyIsOnDisk /\ SucceededIsUsable
=============================================================================
