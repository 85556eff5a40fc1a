------------------------------ MODULE Runtime ------------------------------
(***************************************************************************)
(* The AI runtime of a server: the installer (provision.Manager), the      *)
(* check of the environment (app/environment.go), the request that starts  *)
(* an install (api/runtime.go, app.StartProvision) and the memoised worker *)
(* pool (app.Worker, InvalidateWorker, Close).                             *)
(*                                                                         *)
(* An install is a goroutine that runs four steps; Cancel kills the        *)
(* process of the step and then cancels the context, without the lock in   *)
(* between; the goroutine that watches an install checks the environment   *)
(* again and, when it finds it ready, makes the server forget the pool it  *)
(* resolved before.                                                        *)
(*                                                                         *)
(* The check and the probe of a pool spawn Python under a deadline, and    *)
(* may fail on an environment that is good.                                *)
(***************************************************************************)
EXTENDS Naturals, Sequences, FiniteSets

CONSTANTS
  MaxInstalls, \* bound on the installs that are accepted
  Clickers,    \* requests to install, each made once
  Callers      \* calls of App.Worker by running jobs, each made once

ASSUME RuntimeAssumption == MaxInstalls \in Nat

Installs == 1 .. MaxInstalls
Slots == 0 .. MaxInstalls + 1
Phases == <<"detect", "interpreter", "dependencies", "verify">>

VARIABLES
  manager,   \* provision.Manager: running, status, and whose progress it reports
  install,   \* each install: where its goroutine is, its step, how it ended, whom it tells
  killed,    \* installs whose process Cancel has killed
  stopped,   \* installs whose context is cancelled
  canceller, \* a call of Cancel: what it read under the lock
  venv,      \* the environment on disk: none, dead (does not start), partial, good
  env,       \* App.environment, as the interface reads it
  checker,   \* the startup check: to do, its result, done
  clicker,   \* the state of each request to install
  watcher,   \* the goroutine StartProvision leaves behind; it ends done or forgot
  slot,      \* the number of App.workerSlot, 0 for nil
  built,     \* how each slot was resolved
  caller,    \* each call of App.Worker: the slot it holds
  retired,   \* App.retired: slots whose pool was replaced
  closed     \* slots whose pool Close has shut down

runtimeVars == <<manager, install, killed, stopped, canceller, venv, env, checker, clicker, watcher, slot,
                 built, caller, retired, closed>>
onDisk == <<venv>>
installing == <<manager, install, killed, stopped, canceller>>
reporting == <<env, checker, clicker, watcher>>
resolving == <<slot, built, caller, retired, closed>>

NoInstall == [at |-> "none", step |-> 0, result |-> "", tells |-> 0]
Free == [at |-> "free", of |-> 0, step |-> 0]

RuntimeInit ==
  /\ manager = [running |-> FALSE, status |-> "idle", reports |-> 0, count |-> 0]
  /\ install = [i \in Installs |-> NoInstall]
  /\ killed = {} /\ stopped = {} /\ canceller = Free
  /\ venv \in {"none", "dead"}
  /\ env = "starting"
  /\ checker = "todo"
  /\ clicker = [c \in Clickers |-> "idle"]
  /\ watcher = [i \in Installs |-> "none"]
  /\ slot = 0 /\ built = [s \in Slots |-> "none"]
  /\ caller = [c \in Callers |-> 0]
  /\ retired = {} /\ closed = {}

(***************************************************************************)
(* checkEnvironment.  Only a good environment is found ready, but its      *)
(* probes may run out of time: the interpreter is then passed over, or its *)
(* import of the worker counts as broken.  What is found instead is        *)
(* nothing, or an interpreter of the machine that cannot import the worker.*)
(***************************************************************************)
Checked == {"failed", "missing"} \cup IF venv = "good" THEN {"ready"} ELSE {}

StartupChecks ==
  /\ checker = "todo" /\ checker' \in Checked
  /\ UNCHANGED <<env, clicker, watcher>> /\ UNCHANGED <<installing, onDisk, resolving>>

StartupPublishes ==
  /\ checker \notin {"todo", "done"}
  /\ env' = checker /\ checker' = "done"
  /\ UNCHANGED <<clicker, watcher>> /\ UNCHANGED <<installing, onDisk, resolving>>

(***************************************************************************)
(* api.provisionRuntime looks at the environment and at the running jobs,  *)
(* then StartProvision asks the manager.                                   *)
(***************************************************************************)
NeedsInstall == env \in {"missing", "failed"}
Resolved == {"ok", "failed", "gave up"}
AnyRunning == \E k \in Callers : caller[k] # 0 /\ built[caller[k]] \notin Resolved

Provision(c) ==
  /\ clicker[c] = "idle"
  /\ \/ /\ NeedsInstall /\ ~AnyRunning
        /\ clicker' = [clicker EXCEPT ![c] = "asked"]
     \/ /\ ~NeedsInstall \/ AnyRunning
        /\ clicker' = [clicker EXCEPT ![c] = "refused"]
  /\ UNCHANGED <<env, checker, watcher>> /\ UNCHANGED <<installing, onDisk, resolving>>

StartAnyway(c) ==
  /\ clicker[c] = "asked" /\ manager.count < MaxInstalls
  /\ LET i == manager.count + 1 IN
       /\ manager' = [running |-> TRUE, status |-> "running", reports |-> i, count |-> i]
       /\ install' = [install EXCEPT ![i] = [NoInstall EXCEPT !.at = "next", !.step = 1]]
       /\ watcher' = [watcher EXCEPT ![i] = "waiting"]
  /\ clicker' = [clicker EXCEPT ![c] = "accepted"]
  /\ UNCHANGED <<killed, stopped, canceller, env, checker>> /\ UNCHANGED <<onDisk, resolving>>

\* provision.Manager.Start, and the goroutine StartProvision starts after it.
Start(c) ==
  /\ clicker[c] = "asked"
  /\ \/ /\ ~manager.running /\ manager.count < MaxInstalls
        /\ LET i == manager.count + 1 IN
             /\ manager' = [running |-> TRUE, status |-> "running", reports |-> i, count |-> i]
             /\ install' = [install EXCEPT ![i] = [NoInstall EXCEPT !.at = "next", !.step = 1]]
             /\ watcher' = [watcher EXCEPT ![i] = "waiting"]
        /\ clicker' = [clicker EXCEPT ![c] = "accepted"]
     \/ /\ manager.running \* ErrBusy
        /\ clicker' = [clicker EXCEPT ![c] = "refused"]
        /\ UNCHANGED <<manager, install, watcher>>
  /\ UNCHANGED <<killed, stopped, canceller, env, checker>> /\ UNCHANGED <<onDisk, resolving>>

(***************************************************************************)
(* The goroutine of an install.                                            *)
(***************************************************************************)
\* finish: the terminal state is recorded and the listener taken in one
\* critical section; it is told outside it.
Finish(i, status) ==
  /\ manager' = [manager EXCEPT !.running = FALSE, !.status = status, !.reports = 0]
  /\ install' = [install EXCEPT ![i].at = "finished", ![i].result = status, ![i].tells = manager.reports]

\* The top of the loop of run: a cancelled install stops here and leaves the
\* disk as it is; otherwise the step begins.  The interpreter step first removes
\* an environment that does not start.
StepBegins(i) ==
  /\ install[i].at = "next"
  /\ \/ /\ i \in stopped
        /\ Finish(i, "cancelled")
        /\ UNCHANGED venv
     \/ /\ i \notin stopped
        /\ install' = [install EXCEPT ![i].at = "working"]
        /\ venv' = IF Phases[install[i].step] = "interpreter" /\ venv = "dead" THEN "none" ELSE venv
        /\ UNCHANGED manager
  /\ UNCHANGED <<killed, stopped, canceller>> /\ UNCHANGED <<reporting, resolving>>

\* uv sync at work on the environment: whatever stops it leaves this behind.
SyncWrites(i, half) ==
  /\ install[i].at = "working" /\ Phases[install[i].step] = "dependencies"
  /\ i \notin killed /\ venv # half
  /\ venv' = half
  /\ UNCHANGED <<installing, reporting, resolving>>

StepSucceedsUnverified(i, made) ==
  /\ install[i].at = "working" /\ i \notin killed
  /\ LET phase == Phases[install[i].step] IN
       /\ venv' = IF phase = "dependencies" THEN made ELSE venv
       /\ IF phase = "verify" THEN Finish(i, "ready")
          ELSE install' = [install EXCEPT ![i].at = "next", ![i].step = @ + 1] /\ UNCHANGED manager
  /\ UNCHANGED <<killed, stopped, canceller>> /\ UNCHANGED <<reporting, resolving>>

\* A step succeeds.  uv may exit with zero and leave an environment that cannot
\* import the worker; the self-check of the last step passes only on a good one.
StepSucceeds(i, made) ==
  /\ install[i].at = "working" /\ i \notin killed
  /\ LET phase == Phases[install[i].step] IN
       /\ phase = "verify" => venv = "good"
       /\ venv' = IF phase = "dependencies" THEN made ELSE venv
       /\ IF phase = "verify" THEN Finish(i, "ready")
          ELSE install' = [install EXCEPT ![i].at = "next", ![i].step = @ + 1] /\ UNCHANGED manager
  /\ UNCHANGED <<killed, stopped, canceller>> /\ UNCHANGED <<reporting, resolving>>

\* A step returns an error, of its own or because its process was killed.
StepFails(i) ==
  /\ install[i].at = "working"
  /\ install' = [install EXCEPT ![i].at = "errored"]
  /\ UNCHANGED <<manager, killed, stopped, canceller>> /\ UNCHANGED <<onDisk, reporting, resolving>>

\* run looks at the context to tell a cancelled step from a failed one; what a
\* cancelled one left is removed.
StepEnds(i) ==
  /\ install[i].at = "errored"
  /\ \/ i \in stopped /\ venv' = "none" /\ Finish(i, "cancelled")
     \/ i \notin stopped /\ UNCHANGED venv /\ Finish(i, "failed")
  /\ UNCHANGED <<killed, stopped, canceller>> /\ UNCHANGED <<reporting, resolving>>

AnnouncesTheLatest(i) ==
  /\ install[i].at = "finished"
  /\ install' = [install EXCEPT ![i].at = "done"]
  /\ watcher' = [w \in Installs |-> IF w = manager.count THEN "told" ELSE watcher[w]]
  /\ UNCHANGED <<manager, killed, stopped, canceller, env, checker, clicker>> /\ UNCHANGED <<onDisk, resolving>>

\* The listener is told; StartProvision's closes the channel its goroutine waits on.
Announces(i) ==
  /\ install[i].at = "finished"
  /\ install' = [install EXCEPT ![i].at = "done"]
  /\ watcher' = [w \in Installs |-> IF w = install[i].tells THEN "told" ELSE watcher[w]]
  /\ UNCHANGED <<manager, killed, stopped, canceller, env, checker, clicker>> /\ UNCHANGED <<onDisk, resolving>>

(***************************************************************************)
(* provision.Manager.Cancel: what is running is read under the lock, the   *)
(* process is killed, and then the context is cancelled.                   *)
(***************************************************************************)
CancelReads ==
  /\ canceller = Free /\ manager.running
  /\ LET i == manager.count IN
       canceller' = [at |-> "reading", of |-> i,
                     step |-> IF install[i].at = "working" /\ install[i].step < Len(Phases)
                              THEN install[i].step ELSE 0]
  /\ UNCHANGED <<manager, install, killed, stopped>> /\ UNCHANGED <<onDisk, reporting, resolving>>

CancelKills ==
  /\ canceller.at = "reading"
  /\ LET i == canceller.of IN
       killed' = IF install[i].at = "working" /\ install[i].step = canceller.step
                 THEN killed \cup {i} ELSE killed
  /\ canceller' = [canceller EXCEPT !.at = "killed"]
  /\ UNCHANGED <<manager, install, stopped>> /\ UNCHANGED <<onDisk, reporting, resolving>>

CancelCancels ==
  /\ canceller.at = "killed"
  /\ stopped' = stopped \cup {canceller.of}
  /\ canceller' = Free
  /\ UNCHANGED <<manager, install, killed>> /\ UNCHANGED <<onDisk, reporting, resolving>>

(***************************************************************************)
(* The goroutine StartProvision leaves: it checks the environment again,   *)
(* publishes what it found, and invalidates the worker if that is good.    *)
(***************************************************************************)
WatcherChecks(i) ==
  /\ watcher[i] = "told"
  /\ \E found \in Checked : watcher' = [watcher EXCEPT ![i] = found]
  /\ UNCHANGED <<env, checker, clicker>> /\ UNCHANGED <<installing, onDisk, resolving>>

WatcherPublishes(i) ==
  /\ watcher[i] \in {"ready", "failed", "missing"}
  /\ env' = watcher[i]
  /\ watcher' = [watcher EXCEPT ![i] = IF @ = "ready" THEN "invalidates" ELSE "done"]
  /\ UNCHANGED <<checker, clicker>> /\ UNCHANGED <<installing, onDisk, resolving>>

InvalidateWorkerSuccess(i) ==
  /\ watcher[i] = "invalidates"
  /\ watcher' = [watcher EXCEPT ![i] = "forgot"]
  /\ retired' = IF slot # 0 /\ built[slot] = "ok" THEN retired \cup {slot} ELSE retired
  /\ slot' = IF slot # 0 /\ built[slot] = "ok" THEN 0 ELSE slot
  /\ UNCHANGED <<env, checker, clicker, built, caller, closed>> /\ UNCHANGED <<installing, onDisk>>

\* A pool that exists is kept to be shut down; one that is being built is not seen.
InvalidateWorker(i) ==
  /\ watcher[i] = "invalidates"
  /\ watcher' = [watcher EXCEPT ![i] = "forgot"]
  /\ retired' = IF slot # 0 /\ built[slot] = "ok" THEN retired \cup {slot} ELSE retired
  /\ slot' = 0
  /\ UNCHANGED <<env, checker, clicker, built, caller, closed>> /\ UNCHANGED <<installing, onDisk>>

(***************************************************************************)
(* App.Worker: a caller takes the current slot; the first caller of a slot *)
(* resolves it, the others wait.  A job may ask at any time.               *)
(***************************************************************************)
NewSlot == CHOOSE s \in Slots \ {0} : built[s] = "none" /\ \A q \in Slots \ {0} : q < s => built[q] # "none"

CurrentWorkerSlot(c) ==
  /\ caller[c] = 0 /\ closed = {}
  /\ LET s == IF slot = 0 THEN NewSlot ELSE slot IN
       /\ slot' = s
       /\ caller' = [caller EXCEPT ![c] = s]
       /\ built' = [built EXCEPT ![s] = IF @ = "none" THEN "empty" ELSE @]
  /\ UNCHANGED <<retired, closed>> /\ UNCHANGED <<installing, onDisk, reporting>>

\* buildWorker: the interpreter is probed, and the outcome stored later.  The
\* probe of a good environment may give up: it runs out of time, or the job whose
\* context it uses is cancelled.
BuildProbes(s) ==
  /\ built[s] = "empty"
  /\ \E outcome \in IF venv = "good" THEN {"will succeed", "will give up"} ELSE {"will fail"} :
       built' = [built EXCEPT ![s] = outcome]
  /\ UNCHANGED <<slot, caller, retired, closed>> /\ UNCHANGED <<installing, onDisk, reporting>>

BuildWorker(s) ==
  /\ built[s] \in {"will succeed", "will fail", "will give up"}
  /\ built' = [built EXCEPT ![s] = CASE @ = "will succeed" -> "ok" [] @ = "will fail" -> "failed"
                                     [] @ = "will give up" -> "gave up"]
  /\ UNCHANGED <<slot, caller, retired, closed>> /\ UNCHANGED <<installing, onDisk, reporting>>

\* App.Close, once the server has stopped accepting work.
CloseApp ==
  /\ closed = {}
  /\ \A s \in Slots : built[s] \in {"none"} \cup Resolved
  /\ closed' = retired \cup {slot}
  /\ UNCHANGED <<slot, built, caller, retired>> /\ UNCHANGED <<installing, onDisk, reporting>>

RuntimeNext ==
  \/ StartupChecks \/ StartupPublishes
  \/ \E c \in Clickers : Provision(c) \/ Start(c)
  \/ \E i \in Installs :
       \/ StepBegins(i)
       \/ \E half \in {"dead", "partial"} : SyncWrites(i, half)
       \/ \E made \in {"partial", "good"} : StepSucceeds(i, made)
       \/ StepFails(i) \/ StepEnds(i) \/ Announces(i)
       \/ WatcherChecks(i) \/ WatcherPublishes(i) \/ InvalidateWorker(i)
  \/ CancelReads \/ CancelKills \/ CancelCancels
  \/ \E c \in Callers : CurrentWorkerSlot(c)
  \/ \E s \in Slots : BuildProbes(s) \/ BuildWorker(s)
  \/ CloseApp

RuntimeSpec == RuntimeInit /\ [][RuntimeNext]_runtimeVars

(***************************************************************************)
(* Properties                                                              *)
(***************************************************************************)

\* Every variable has its type, at most one install is at work, and it is the
\* one the manager reports.
RuntimeTypeOK ==
  /\ manager.running \in BOOLEAN /\ manager.count \in 0 .. MaxInstalls
  /\ manager.status \in {"idle", "running", "ready", "failed", "cancelled"}
  /\ \A i \in Installs :
       install[i].at \in {"next", "working", "errored"} => manager.running /\ manager.reports = i
  /\ venv \in {"none", "dead", "partial", "good"}
  /\ env \in {"starting", "ready", "missing", "failed"}
  /\ slot \in Slots /\ retired \subseteq Slots

\* When the manager says ready, the environment on disk can run the worker:
\* verify, not the exit status of uv, decides; and the environment a ready
\* install left is not touched by one that ended before it.
ReadyIsUsable == manager.status = "ready" => venv = "good"

\* The goroutine that watches an install is told when that install has ended and
\* not before: the end of one install is never announced to the listener of the
\* next, which may start as soon as the first is no longer running.
EachInstallIsReported ==
  \A i \in Installs :
    watcher[i] \notin {"none", "waiting"} <=> install[i].at = "done"

\* After an install succeeded and its watcher found the environment ready, no job
\* is answered with a failure that an environment before it caused: not one that
\* was stored, nor one whose probe was under way when the server forgot it.
\* Nothing forgets the failure when the watcher's check fails, and a probe that
\* gave up on the good environment is remembered like any other.
FailureIsForgotten ==
  /\ manager.status = "ready"
  /\ watcher[manager.count] = "forgot"
  => (slot # 0 => built[slot] # "failed")

\* Ready means usable, every install is reported to its own watcher, and a
\* success that was seen makes the server forget an earlier failure.
InstallsAreTrue == ReadyIsUsable /\ EachInstallIsReported /\ FailureIsForgotten
=============================================================================
