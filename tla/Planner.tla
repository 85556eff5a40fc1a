------------------------------ MODULE Planner ------------------------------
(***************************************************************************)
(* What a run recomputes (pipeline.Build, artifact.DeriveKey): every       *)
(* stage has a key derived from its name, the configuration it declares,   *)
(* its fingerprint and the keys of its inputs, and an artifact with that   *)
(* key is used again instead of being made.  The keys are derived twice,   *)
(* when the run is planned and when a stage starts, while the user edits   *)
(* the lines that two of the stages read.                                  *)
(*                                                                         *)
(* An artifact's payload is what it was made from.  Hashes do not collide, *)
(* so a key is the record of what is hashed.  One run executes at a time   *)
(* and artifacts are not pruned; JobRun and ArtifactStore model those.     *)
(***************************************************************************)
EXTENDS Integers, FiniteSets, SequencesExt

CONSTANTS
  Pipeline,        \* the stages in the order of their registration
  Depends,         \* Spec.Depends
  OptionalDepends, \* Spec.OptionalDepends
  Optional,        \* the stages whose Spec is Optional
  Inputs,          \* the settings
  Hashed,          \* the inputs ConfigSubtree returns for each stage
  ReadsLines,      \* the stages that read and fingerprint the stored lines
  WritesLines,     \* the stages whose output replaces the stored lines
  Selections,      \* what a request may select: a set of stages, or a range
  MaxPlans, MaxChanges \* bounds on the runs and on the changes between them

Stages == ToSet(Pipeline)
Ordinal(s) == CHOOSE i \in 1 .. Len(Pipeline) : Pipeline[i] = s
Dependencies(s) == Depends[s] \cup OptionalDepends[s]

\* What NewRegistry and validate insist on.  A dependency that is registered
\* comes earlier, so there is no cycle.
ValidRegistry ==
  /\ \A i, j \in 1 .. Len(Pipeline) : Pipeline[i] = Pipeline[j] => i = j
  /\ \A s \in Stages : Depends[s] \subseteq Stages /\ s \notin OptionalDepends[s]
  /\ \A s \in Stages : Depends[s] \cap OptionalDepends[s] = {}
  /\ \A s \in Stages : \A d \in Dependencies(s) \cap Stages : Ordinal(d) < Ordinal(s)

ASSUME PlannerAssumption ==
  /\ Pipeline \in Seq(STRING) /\ ValidRegistry
  /\ Optional \subseteq Stages /\ ReadsLines \subseteq Stages /\ WritesLines \subseteq Stages
  /\ Hashed \in [Stages -> SUBSET Inputs]
  /\ MaxPlans \in Nat /\ MaxChanges \in Nat

VARIABLES
  world,    \* the value every input has now
  disabled, \* pipeline.disabled
  lines,    \* the stored lines: the output they come from, and the user's edits
  store,    \* the ready artifacts
  plan,     \* the StagePlan of each stage
  job,      \* the run, its options and the stage it executes
  settled,  \* how many runs of everything have succeeded, up to three, with nothing changed meanwhile
  changes   \* how much was changed

plannerVars == <<world, disabled, lines, store, plan, job, settled, changes>>

NoPlan == [state |-> "absent", key |-> <<>>, artifact |-> <<>>, external |-> <<>>]
NoPlans == [s \in Stages |-> NoPlan]
IdleJob == [at |-> "idle", world |-> <<>>, force |-> FALSE, full |-> FALSE, clean |-> TRUE,
            stage |-> "", key |-> <<>>, inputs |-> <<>>, runs |-> 0]

PlannerInit ==
  /\ world = [i \in Inputs |-> 0] /\ disabled = {}
  /\ lines = [of |-> <<>>, edits |-> 0]
  /\ store = <<>> /\ plan = NoPlans /\ job = IdleJob
  /\ settled = 0 /\ changes = 0

-----------------------------------------------------------------------------
(* The store, as far as planning uses it: artifacts in order of creation. *)

\* Store.Lookup and Store.Latest, as sequences of at most one artifact.  The
\* column of the keys is unique.
Rows(key) == {i \in 1 .. Len(store) : store[i].key = key}
LookupKey(key) == IF Rows(key) = {} THEN <<>> ELSE <<store[CHOOSE i \in Rows(key) : TRUE]>>
Latest(s) ==
  LET made == SelectSeq(store, LAMBDA a : a.stage = s) IN IF made = <<>> THEN <<>> ELSE <<Last(made)>>

\* LinesHash: nothing when there are no lines.
LinesDigest(s) == IF s \in ReadsLines THEN lines ELSE [of |-> <<>>, edits |-> 0]

\* DeriveKey
DeriveKey(s, w, upstream) ==
  [stage |-> s, config |-> [i \in Hashed[s] |-> w[i]], lines |-> LinesDigest(s), upstream |-> upstream]

-----------------------------------------------------------------------------
(* Build *)

\* disabledSet and selectStages: an explicit list ignores what is disabled.
Selected(request) ==
  {s \in Stages : IF request.only # {} THEN s \in request.only
                  ELSE s \notin disabled /\ Ordinal(s) \in request.from .. request.to}

\* resolveInputs: what a dependency outside the plan last produced.
External(planned, s) ==
  [d \in {d \in Dependencies(s) \cap Stages : planned[d].state = "absent" /\ Latest(d) # <<>>} |-> Latest(d)[1]]

\* upstreamKeys: a planned dependency contributes its key whether it ran or not.
UpstreamKeys(planned, s, external) ==
  [d \in DOMAIN external \cup {d \in Dependencies(s) \cap Stages : planned[d].key # <<>>} |->
     IF d \in DOMAIN external THEN external[d].key ELSE planned[d].key[1]]

\* blockedBy and unsatisfied, for the states a stage has while planning.
Blocked(planned, s, external) ==
  \E d \in Depends[s] :
    \/ planned[d].state \in {"skipped", "failed"}
    \/ planned[d].state = "absent" /\ d \notin DOMAIN external

\* One iteration of Build.
PlanStage(planned, s, w, force) ==
  LET external == External(planned, s)
      key == DeriveKey(s, w, UpstreamKeys(planned, s, external))
      cached == IF force THEN <<>> ELSE LookupKey(key)
  IN IF Blocked(planned, s, external) THEN [NoPlan EXCEPT !.state = "skipped"]
     ELSE [state |-> IF cached = <<>> THEN "pending" ELSE "cached",
           key |-> <<key>>, artifact |-> cached, external |-> external]

\* The loop of Build, over the selected stages in the order of the pipeline.
Build(request, force) ==
  LET planned[k \in 0 .. Len(Pipeline)] ==
        IF k = 0 THEN NoPlans
        ELSE LET s == Pipeline[k]
                 before == planned[k - 1]
             IN IF s \in Selected(request)
                  THEN [before EXCEPT ![s] = PlanStage(before, s, world, force)] ELSE before
  IN planned[Len(Pipeline)]

-----------------------------------------------------------------------------
(* A run *)

inputsAndStore == <<world, disabled, store, changes>>

\* prepare: the configuration and the project are those of this moment.
PlanRun(request, force) ==
  /\ job.at = "idle" /\ job.runs < MaxPlans
  /\ disabled \subseteq Optional
  /\ Selected(request) # {}
  /\ plan' = Build(request, force)
  /\ job' = [IdleJob EXCEPT !.at = "report", !.world = world, !.force = force, !.runs = job.runs + 1,
                            !.full = Selected(request) = Selected([only |-> {}, from |-> 1, to |-> Len(Pipeline)])]
  /\ settled' = IF job'.full THEN settled ELSE 0
  /\ UNCHANGED <<inputsAndStore, lines>>

\* persistLines: edits are kept.
Persisted(stored, artifact) == [stored EXCEPT !.of = <<artifact.made>>]

\* The first loop of Run: the observer stores the lines of every cached stage
\* that produced some, in pipeline order.  Those of the last one remain.
CachedWriters == {s \in WritesLines : plan[s].state = "cached"}
LastOf(S) == CHOOSE s \in S : \A t \in S : Ordinal(t) <= Ordinal(s)

ReportSettled ==
  /\ job.at = "report"
  /\ lines' = IF CachedWriters = {} THEN lines ELSE Persisted(lines, plan[LastOf(CachedWriters)].artifact[1])
  /\ job' = [job EXCEPT !.at = "loop"]
  /\ UNCHANGED <<inputsAndStore, plan, settled>>

PendingStages == SelectSeq(Pipeline, LAMBDA s : plan[s].state = "pending")

\* What runStage is given: the artifacts that exist, required or optional.
InputsOf(s) ==
  [d \in DOMAIN plan[s].external \cup {d \in Dependencies(s) \cap Stages : plan[d].artifact # <<>>} |->
     IF plan[d].artifact # <<>> THEN plan[d].artifact[1] ELSE plan[s].external[d]]

StageBlocked ==
  /\ job.at = "loop" /\ PendingStages # <<>>
  /\ LET s == Head(PendingStages) IN
       /\ Blocked(plan, s, plan[s].external)
       /\ plan' = [plan EXCEPT ![s].state = "skipped"]
  /\ UNCHANGED <<inputsAndStore, lines, job, settled>>

KeyToWriteAsPlanned(s, inputs) == plan[s].key[1]
KeyToWritePlannedOnly(s, inputs) ==
  DeriveKey(s, job.world, [d \in DOMAIN inputs \ DOMAIN plan[s].external |-> inputs[d].key])

\* runStage derives the key again, from the inputs the stage is really given.
KeyToWrite(s, inputs) == DeriveKey(s, job.world, [d \in DOMAIN inputs |-> inputs[d].key])

StageBegins ==
  /\ job.at = "loop" /\ PendingStages # <<>>
  /\ LET s == Head(PendingStages) IN
       /\ ~Blocked(plan, s, plan[s].external)
       /\ job' = [job EXCEPT !.at = "stage", !.stage = s, !.inputs = InputsOf(s), !.key = <<KeyToWrite(s, InputsOf(s))>>]
  /\ UNCHANGED <<inputsAndStore, lines, plan, settled>>

InsertedAgain(a) == Append(store, a)

\* Store.insert: the row with this key is replaced.
Without(key) == IF Rows(key) = {} THEN store ELSE RemoveAt(store, CHOOSE i \in Rows(key) : TRUE)
Inserted(a) == Append(Without(a.key), a)

\* Stage.Run and Commit, and the observer's write of the lines.
StageSucceeds ==
  /\ job.at = "stage"
  /\ LET s == job.stage
         made == [stage |-> s, config |-> [i \in Hashed[s] |-> job.world[i]], lines |-> LinesDigest(s),
                  from |-> [d \in DOMAIN job.inputs |-> job.inputs[d].key]]
         a == [stage |-> s, key |-> job.key[1], made |-> made]
     IN /\ store' = Inserted(a)
        /\ plan' = [plan EXCEPT ![s].state = "completed", ![s].artifact = <<a>>]
        /\ lines' = IF s \in WritesLines THEN Persisted(lines, a) ELSE lines
  /\ job' = [job EXCEPT !.at = "loop", !.stage = "", !.inputs = <<>>, !.key = <<>>]
  /\ UNCHANGED <<world, disabled, changes, settled>>

\* Abort records the failure under the same key, over what was ready there.
StageFails ==
  /\ job.at = "stage"
  /\ store' = Without(job.key[1])
  /\ plan' = [plan EXCEPT ![job.stage].state = "failed"]
  /\ job' = [job EXCEPT !.at = "loop", !.stage = "", !.inputs = <<>>, !.key = <<>>]
  /\ UNCHANGED <<world, disabled, changes, lines, settled>>

RunEnds ==
  /\ job.at = "loop" /\ PendingStages = <<>>
  /\ settled' = IF job.full /\ job.clean /\ \A s \in Stages : plan[s].state \in {"cached", "completed", "absent"}
                 THEN Min({settled + 1, 3}) ELSE 0
  /\ job' = [IdleJob EXCEPT !.runs = job.runs]
  /\ plan' = NoPlans
  /\ UNCHANGED <<inputsAndStore, lines>>

-----------------------------------------------------------------------------
(* What the user does meanwhile. *)

Changed ==
  /\ changes < MaxChanges
  /\ changes' = changes + 1
  /\ settled' = 0
  /\ job' = [job EXCEPT !.clean = FALSE]
  /\ UNCHANGED <<store, plan>>

\* updateSettings
ChangeInput(i) ==
  /\ Changed
  /\ world' = [world EXCEPT ![i] = 1 - @]
  /\ UNCHANGED <<disabled, lines>>

ToggleStage(s) ==
  /\ Changed
  /\ disabled' = IF s \in disabled THEN disabled \ {s} ELSE disabled \cup {s}
  /\ UNCHANGED <<world, lines>>

EditLine ==
  /\ Changed
  /\ lines.of # <<>>
  /\ lines' = [lines EXCEPT !.edits = @ + 1]
  /\ UNCHANGED <<world, disabled>>

PlannerNext ==
  \/ \E request \in Selections, force \in BOOLEAN : PlanRun(request, force)
  \/ ReportSettled \/ StageBlocked \/ StageBegins \/ StageSucceeds \/ StageFails \/ RunEnds
  \/ \E i \in Inputs : ChangeInput(i)
  \/ \E s \in Stages : ToggleStage(s)
  \/ EditLine

PlannerSpec == PlannerInit /\ [][PlannerNext]_plannerVars

(***************************************************************************)
(* Properties                                                              *)
(***************************************************************************)
\* Every variable has its type, and no two artifacts have one key.
PlannerTypeOK ==
  /\ world \in [Inputs -> {0, 1}] /\ disabled \subseteq Stages
  /\ Len(lines.of) <= 1 /\ lines.edits \in 0 .. MaxChanges /\ changes \in 0 .. MaxChanges
  /\ \A i, j \in 1 .. Len(store) : store[i].key = store[j].key => i = j
  /\ \A s \in Stages : plan[s].state \in {"absent", "pending", "cached", "completed", "skipped", "failed"}
  /\ job.at \in {"idle", "report", "loop", "stage"} /\ job.runs \in 0 .. MaxPlans
  /\ settled \in 0 .. 3

\* A stage that is used again was made with the settings of this run and with
\* the very inputs the plan uses again: also when an optional input failed in
\* the run that made it, and it was made without.
ReusedWithItsInputs ==
  \A s \in Stages : plan[s].state = "cached" =>
    LET made == plan[s].artifact[1].made IN
    /\ made.config = [i \in Hashed[s] |-> job.world[i]]
    /\ \A d \in Dependencies(s) \cap Stages : plan[d].state = "cached" =>
         d \in DOMAIN made.from /\ made.from[d] = plan[d].key[1]

\* No stage recomputes for ever: after three runs of everything that succeeded,
\* with nothing changed meanwhile, a plan finds every stage cached, although
\* each run replaces the lines that the last stages hash and is planned before
\* it does.  Three are needed: a translation that is made again, under a
\* polish that is still cached, replaces the polished lines; the next run puts
\* them back when its subtitles are already planned.
NothingIsRecomputed ==
  settled = 3 /\ job.at = "idle" => LET all == [only |-> {}, from |-> 1, to |-> Len(Pipeline)]
             IN \A s \in Selected(all) : Build(all, FALSE)[s].state = "cached"

\* What a plan uses again was made with what it is used with, and a project
\* that nobody touches comes to rest.
PlansAreSound == ReusedWithItsInputs /\ NothingIsRecomputed
=============================================================================
