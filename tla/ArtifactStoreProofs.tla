------------------------- MODULE ArtifactStoreProofs -------------------------
(***************************************************************************)
(* What the store promises for any number of runs, content addresses and   *)
(* crashes, and any retention: for requests that overlap, and more for     *)
(* requests made one after the other.  And what a run may take from it     *)
(* instead of making it, for any pipeline, settings and requests.          *)
(***************************************************************************)
EXTENDS ArtifactStore, Planner, FiniteSetTheorems, SequenceTheorems, TLAPS

\* What has been cleared for publication carries its manifest, unless a sweep
\* took it.
Cleared ==
  \A r \in Runs : pc[r] \in {"clear", "clearing", "rename"} =>
    tmp[r] \in {"none", "whole"}

PublishInv == TypeOK /\ Cleared /\ NothingHalfWritten

LEMMA PublishInit == Init => PublishInv
  BY ArtifactStoreAssumption DEF Init, PublishInv, TypeOK, Cleared, NothingHalfWritten, Executing

LEMMA PublishStep == PublishInv /\ [Next]_vars => PublishInv'
<1> SUFFICES ASSUME PublishInv, [Next]_vars PROVE PublishInv'
  OBVIOUS
<1>0. serial' \in BOOLEAN /\ retention' \in [Runs -> Retentions]
  BY DEF Next, Quiescent, vars, PublishInv, TypeOK
<1> USE <1>0, ArtifactStoreAssumption DEF PublishInv, TypeOK, Cleared,
      NothingHalfWritten, Executing, Goto, runVars, rowVars, diskVars, userVars
<1>1. ASSUME NEW r \in Runs, Plan(r) PROVE PublishInv'
  BY <1>1 DEF Plan, SweepTempDirectories
<1>2. ASSUME NEW r \in Runs, Claim(r) PROVE PublishInv'
  BY <1>2 DEF Claim
<1>3. ASSUME NEW r \in Runs, PassOver(r) \/ Finish(r) PROVE PublishInv'
  BY <1>3 DEF PassOver, Finish
<1>4. ASSUME NEW r \in Runs, Write(r) PROVE PublishInv'
  <2>1. CASE Begin(r) \/ WritePayload(r)
    BY <2>1 DEF Begin, WritePayload
  <2>2. CASE Abort(r)
    BY <2>2 DEF Abort, insert
  <2>3. CASE WriteManifest(r)
    BY <2>3 DEF WriteManifest
  <2>4. CASE ClearPrevious(r) \/ PreviousCleared(r)
    BY <2>4 DEF ClearPrevious, PreviousCleared
  <2>5. CASE Rename(r)
    BY <2>5 DEF Rename
  <2>6. CASE Record(r)
    BY <2>6 DEF Record, insert
  <2> QED
    BY <1>4, <2>1, <2>2, <2>3, <2>4, <2>5, <2>6 DEF Write
<1>5. ASSUME NEW r \in Runs, Prune(r) PROVE PublishInv'
  <2>1. CASE GC(r)
    BY <2>1 DEF GC, superseded
  <2>2. CASE PruneRow(r)
    BY <2>2 DEF PruneRow
  <2>3. CASE PruneDirectory(r)
    BY <2>3 DEF PruneDirectory
  <2> QED
    BY <1>5, <2>1, <2>2, <2>3 DEF Prune
<1>6. ASSUME NEW r \in Runs, Cancel(r) PROVE PublishInv'
  BY <1>6 DEF Cancel
<1>7. CASE RemoveCheck \/ RemoveList
  BY <1>7 DEF RemoveCheck, RemoveList
<1>8. CASE RemoveRow \/ RemoveDirectory \/ RemoveTree \/ RemoveFails
  BY <1>8 DEF RemoveRow, RemoveDirectory, RemoveTree, RemoveFails
<1>9. CASE Crash
  BY <1>9 DEF Crash
<1>10. CASE UNCHANGED vars
  BY <1>10 DEF vars
<1> QED
  BY <1>1, <1>2, <1>3, <1>4, <1>5, <1>6, <1>7, <1>8, <1>9, <1>10
     DEF Next, Step, Quiescent

\* Writer.Commit: no directory that a reader can find holds a payload without
\* its manifest, for any number of overlapping runs, sweeps, removals, and
\* crashes.
THEOREM NothingHalfWrittenHolds == Spec => [](TypeOK /\ NothingHalfWritten)
<1>1. PublishInv => TypeOK /\ NothingHalfWritten
  BY DEF PublishInv
<1> QED
  BY <1>1, PublishInit, PublishStep, PTL DEF Spec

-----------------------------------------------------------------------------
(* A completed stage's output survives the pruning that follows its commit. *)

\* The project is held by the run that is between Claim and Finish.
Holding == \A r \in Runs : pc[r] \in Executing => holder = r

\* No row is newer than the clock.
Dated == \A k \in Keys : at[k] <= clock

\* As long as the user has not asked for the project's artifacts to be removed,
\* the run's own output has been renamed into place, and stays there until a
\* retention of 0 has pruned its row, ...
Renamed ==
  \A r \in Runs :
    remover = "idle" =>
      /\ pc[r] \in {"insert", "gc"} => OnDisk(r)
      /\ pc[r] \in {"prune", "unlink"} => OnDisk(r) \/ PrunedItself(r)

\* ... its row is the newest when the pruning lists the rows ...
Newest == \A r \in Runs : pc[r] = "gc" => at[key[r]] = clock

\* ... and so it is not among the victims of any retention but 0.
Spared ==
  \A r \in Runs : pc[r] \in {"prune", "unlink"} /\ retention[r] # 0 => key[r] \notin victims[r]

UsableInv ==
  /\ Holding
  /\ Dated
  /\ Renamed
  /\ Newest
  /\ Spared
  /\ CompletedIsUsable
  /\ remover = "idle" => doomed = {}

\* GC's listing: a row that nothing is newer than is kept by every retention
\* but zero.
LEMMA NewestIsKept ==
  ASSUME PublishInv, Dated, NEW r \in Runs, retention[r] # 0, retention[r] >= 0,
         NEW k \in Keys, at[k] = clock
  PROVE  k \notin superseded(r)
<1>1. Newer(k) = {}
  BY DEF Newer, Dated, PublishInv, TypeOK
<1>2. Cardinality(Newer(k)) = 0
  BY <1>1, FS_EmptySet
<1>3. retention[r] \in Int /\ ~(0 >= retention[r])
  <2>1. retention[r] \in Retentions
    BY DEF PublishInv, TypeOK
  <2>2. retention[r] \in Int
    BY <2>1, ArtifactStoreAssumption
  <2> QED
    BY <2>2
<1> QED
  BY <1>2, <1>3 DEF superseded

LEMMA UsableStep ==
  ASSUME PublishInv, PublishInv', UsableInv, [Next]_vars
  PROVE  UsableInv'
<1>0. UNCHANGED retention
  BY DEF Next, Quiescent, vars
<1> USE <1>0, ArtifactStoreAssumption DEF UsableInv, PublishInv, Holding, Dated, Renamed, Newest,
      Spared, CompletedIsUsable, OnDisk, PrunedItself, TypeOK, Executing, Goto, runVars, rowVars,
      diskVars, userVars
<1> DEFINE Goal == UsableInv'
<1>1. ASSUME NEW r \in Runs, Plan(r) PROVE Goal
  BY <1>1 DEF Plan, SweepTempDirectories
<1>2. ASSUME NEW r \in Runs, Claim(r) PROVE Goal
  BY <1>2 DEF Claim
<1>3. ASSUME NEW r \in Runs, PassOver(r) \/ Finish(r) PROVE Goal
  BY <1>3 DEF PassOver, Finish
<1>4. ASSUME NEW r \in Runs, Write(r) PROVE Goal
  <2>1. CASE Begin(r) \/ WritePayload(r) \/ WriteManifest(r)
    BY <2>1 DEF Begin, WritePayload, WriteManifest
  <2>2. CASE Abort(r)
    BY <2>2 DEF Abort, insert
  <2>3. CASE ClearPrevious(r) \/ PreviousCleared(r)
    BY <2>3 DEF ClearPrevious, PreviousCleared
  <2>4. CASE Rename(r)
    BY <2>4 DEF Rename, Cleared
  <2>5. CASE Record(r)
    BY <2>5 DEF Record, insert
  <2> QED
    BY <1>4, <2>1, <2>2, <2>3, <2>4, <2>5 DEF Write
<1>5. ASSUME NEW r \in Runs, Prune(r) PROVE Goal
  <2>1. CASE GC(r)
    <3>1. ~(retention[r] < 0 \/ ctxDone[r]) /\ retention[r] # 0 => key[r] \notin superseded(r)
      <4>1. retention[r] \in Int /\ key[r] \in Keys
        <5>1. retention[r] \in Retentions
          OBVIOUS
        <5> QED
          BY <5>1
      <4> QED
        BY <2>1, <4>1, NewestIsKept DEF GC
    <3> QED
      BY <2>1, <3>1 DEF GC
  <2>2. CASE PruneRow(r)
    BY <2>2 DEF PruneRow
  <2>3. CASE PruneDirectory(r)
    BY <2>3 DEF PruneDirectory
  <2> QED
    BY <1>5, <2>1, <2>2, <2>3 DEF Prune
<1>6. ASSUME NEW r \in Runs, Cancel(r) PROVE Goal
  BY <1>6 DEF Cancel
<1>7. CASE RemoveCheck \/ RemoveList \/ RemoveRow \/ RemoveTree \/ RemoveFails
  BY <1>7 DEF RemoveCheck, RemoveList, RemoveRow, RemoveTree, RemoveFails
<1>8. CASE RemoveDirectory
  BY <1>8 DEF RemoveDirectory
<1>9. CASE Crash
  BY <1>9 DEF Crash
<1>10. CASE UNCHANGED vars
  BY <1>10 DEF vars
<1> QED
  BY <1>1, <1>2, <1>3, <1>4, <1>5, <1>6, <1>7, <1>8, <1>9, <1>10
     DEF Next, Step, Quiescent

\* runStage and GC: whatever retention each run is given, and however many
\* runs are planned, cancelled or killed meanwhile, a stage that this run has
\* completed is on disk when the stages after it read it, unless the run's own
\* retention of 0 pruned it, and then its row is gone too.
THEOREM CompletedStaysUsable == Spec => []CompletedIsUsable
<1>1. Init => UsableInv
  BY ArtifactStoreAssumption DEF Init, UsableInv, Holding, Dated,
     Renamed, Newest, Spared, CompletedIsUsable, Executing
<1>2. PublishInv /\ UsableInv /\ [Next]_vars => PublishInv' /\ UsableInv'
  BY PublishStep, UsableStep
<1>3. UsableInv => CompletedIsUsable
  BY DEF UsableInv
<1> QED
  BY <1>1, <1>2, <1>3, PublishInit, PTL DEF Spec

-----------------------------------------------------------------------------
(* Requests made one after the other. *)

Active == Executing \cup {"planned"}

\* One run is under way at a time and nobody removes anything.
Alone ==
  /\ remover = "idle"
  /\ \A r, q \in Runs : pc[r] \in Active /\ pc[q] \in Active => r = q

\* A run recomputes only what has no ready row, until it writes that row itself, ...
Missed ==
  \A r \in Runs :
    ~cached[r] /\ pc[r] \in {"planned", "claimed", "writing", "commit", "clear", "clearing", "rename", "insert"}
      => row[key[r]] # "ready"

\* ... and what it reuses stays ready as long as it is under way.
Found ==
  \A r \in Runs :
    cached[r] /\ pc[r] \in Active => pc[r] \in {"planned", "claimed", "usable"} /\ row[key[r]] = "ready"

SerialInv == serial => Alone /\ Missed /\ Found /\ ReadyIsOnDisk

LEMMA SerialStep ==
  ASSUME PublishInv, PublishInv', UsableInv, SerialInv, [Next]_vars
  PROVE  SerialInv'
<1> SUFFICES ASSUME serial' PROVE (Alone /\ Missed /\ Found /\ ReadyIsOnDisk)'
  BY DEF SerialInv
<1>1. serial
  BY DEF Next, Quiescent, vars
<1>2. Alone /\ Missed /\ Found /\ ReadyIsOnDisk
  BY <1>1 DEF SerialInv
<1>3. doomed = {}
  BY <1>2 DEF UsableInv, Alone
<1> USE <1>1, <1>2, ArtifactStoreAssumption DEF PublishInv, TypeOK, Alone, Missed, Found, ReadyIsOnDisk, Active,
      Executing, Goto, runVars, rowVars, diskVars, userVars
<1> DEFINE Goal == (Alone /\ Missed /\ Found /\ ReadyIsOnDisk)'
<1>4. ASSUME NEW r \in Runs, Plan(r) PROVE Goal
  <2>1. /\ pc' = [pc EXCEPT ![r] = "planned"] /\ cached' = [cached EXCEPT ![r] = (row[key[r]] = "ready")]
        /\ UNCHANGED <<row, dir, key, remover>>
    BY <1>4 DEF Plan, Lookup
  <2>2. \A q \in Runs : pc[q] \notin Active
    BY <1>4 DEF Plan
  <2>3. pc'[r] = "planned" /\ \A q \in Runs : q # r => pc'[q] = pc[q] /\ pc'[q] \notin Active
    BY <2>1, <2>2
  <2>4. Alone'
    BY <2>1, <2>3
  <2>5. cached'[r] = (row[key[r]] = "ready")
    BY <2>1
  <2>6. Missed' /\ Found'
    BY <2>1, <2>3, <2>5
  <2> QED BY <2>1, <2>4, <2>6
<1>5. ASSUME NEW r \in Runs, Claim(r) PROVE Goal
  BY <1>5 DEF Claim
<1>6. ASSUME NEW r \in Runs, PassOver(r) \/ Finish(r) PROVE Goal
  BY <1>6 DEF PassOver, Finish
<1>7. ASSUME NEW r \in Runs, Write(r) PROVE Goal
  <2>1. CASE Begin(r) \/ WritePayload(r) \/ WriteManifest(r)
    BY <2>1 DEF Begin, WritePayload, WriteManifest
  <2>2. CASE Abort(r)
    BY <2>2 DEF Abort, insert
  <2>3. CASE ClearPrevious(r) \/ PreviousCleared(r)
    BY <2>3 DEF ClearPrevious, PreviousCleared
  <2>4. CASE Rename(r)
    BY <2>4 DEF Rename
  <2>5. CASE Record(r)
    <3>1. dir[key[r]] = "whole"
      BY <2>5 DEF UsableInv, Renamed, OnDisk, Record
    <3> QED BY <2>5, <3>1 DEF Record, insert
  <2> QED
    BY <1>7, <2>1, <2>2, <2>3, <2>4, <2>5 DEF Write
<1>8. ASSUME NEW r \in Runs, Prune(r) PROVE Goal
  <2>1. CASE GC(r)
    BY <2>1 DEF GC
  <2>2. CASE PruneRow(r)
    <3>1. pc[r] = "prune" /\ pc' = [pc EXCEPT ![r] = pc'[r]] /\ pc'[r] \in {"usable", "unlink"}
          /\ UNCHANGED <<dir, key, cached, remover>>
      BY <2>2 DEF PruneRow
    <3>2. ~cached[r] /\ \A q \in Runs : q # r => pc[q] \notin Active /\ pc'[q] = pc[q]
      BY <3>1
    <3>3. \A k \in Keys : row'[k] = row[k] \/ row'[k] = "none"
      BY <2>2 DEF PruneRow
    <3>4. Alone' /\ Missed' /\ Found'
      BY <3>1, <3>2
    <3> QED BY <3>1, <3>3, <3>4
  <2>3. CASE PruneDirectory(r)
    BY <2>3 DEF PruneDirectory
  <2> QED
    BY <1>8, <2>1, <2>2, <2>3 DEF Prune
<1>9. ASSUME NEW r \in Runs, Cancel(r) PROVE Goal
  BY <1>9 DEF Cancel
<1>10. ~(RemoveCheck \/ RemoveList \/ RemoveRow \/ RemoveDirectory \/ RemoveTree \/ RemoveFails)
  BY <1>3 DEF RemoveCheck, RemoveList, RemoveRow, RemoveDirectory, RemoveTree, RemoveFails
<1>11. CASE Crash
  BY <1>11 DEF Crash
<1>12. CASE UNCHANGED vars
  BY <1>12 DEF vars
<1> QED
  BY <1>4, <1>5, <1>6, <1>7, <1>8, <1>9, <1>10, <1>11, <1>12 DEF Next, Step, Quiescent

\* Lookup, Commit and GC, for requests made one after the other, any retention
\* and any number of crashes and cancellations: a ready row always has its whole
\* directory, and what a run completed or found is on disk for the stages that
\* read it, except what a run with a retention of 0 completed and pruned.
THEOREM SerialStoreIsSound == Spec => []StoreIsSound
<1>1. Init => UsableInv /\ SerialInv
  BY ArtifactStoreAssumption DEF Init, UsableInv, Holding, Dated, Renamed, Newest, Spared, CompletedIsUsable,
     Executing, SerialInv, Alone, Missed, Found, ReadyIsOnDisk, Active
<1>2. PublishInv /\ UsableInv /\ SerialInv /\ [Next]_vars => PublishInv' /\ UsableInv' /\ SerialInv'
  BY PublishStep, UsableStep, SerialStep
<1>3. PublishInv /\ UsableInv /\ SerialInv => StoreIsSound
  <2> SUFFICES ASSUME PublishInv, UsableInv, SerialInv, serial PROVE ReadyIsOnDisk /\ SucceededIsUsable
    BY DEF StoreIsSound
  <2>1. Alone /\ Found /\ ReadyIsOnDisk
    BY DEF SerialInv
  <2>2. ASSUME NEW r \in Runs, pc[r] = "usable" PROVE OnDisk(r) \/ (~cached[r] /\ PrunedItself(r))
    <3>1. CASE cached[r]
      BY <2>1, <2>2, <3>1 DEF Found, ReadyIsOnDisk, OnDisk, Active, Executing, PublishInv, TypeOK
    <3>2. CASE ~cached[r]
      BY <2>1, <2>2, <3>2 DEF Alone, UsableInv, CompletedIsUsable
    <3> QED BY <3>1, <3>2
  <2> QED BY <2>1, <2>2 DEF SucceededIsUsable
<1> QED
  BY <1>1, <1>2, <1>3, PublishInit, PTL DEF Spec

-----------------------------------------------------------------------------
(* What a run uses again *)

Descending == {p \in Nat \X Nat : p[1] < p[2]}

\* A set that holds 0 and the successor of each number it holds, holds all.
LEMMA Induction ==
  ASSUME NEW T, 0 \in T, \A n \in Nat : n \in T => n + 1 \in T
  PROVE  \A n \in Nat : n \in T
<1> DEFINE U == {n \in Nat : n \notin T}
<1> SUFFICES ASSUME U # {} PROVE FALSE
  OBVIOUS
<1>1. IsWellFoundedOn(Descending, Nat)
  BY NatLessThanWellFounded DEF OpToRel, Descending
<1>2. PICK x \in U : \A y \in U : ~(<<y, x>> \in Descending)
  BY <1>1, WFMin
<1>3. x \in Nat /\ x # 0 /\ x - 1 \in Nat /\ x = (x - 1) + 1
  BY <1>2
<1>4. <<x - 1, x>> \in Descending
  BY <1>3 DEF Descending
<1> QED
  BY <1>2, <1>3, <1>4

\* The loop of Build as it stands after k stages.
Looped(request, force, g, n) ==
  /\ g[0] = NoPlans
  /\ \A k \in 1..n :
       g[k] = IF Pipeline[k] \in Selected(request)
                THEN [g[k - 1] EXCEPT ![Pipeline[k]] = PlanStage(g[k - 1], Pipeline[k], world, force)]
                ELSE g[k - 1]

\* Build returns what the loop ends with.
LEMMA BuildIs ==
  ASSUME NEW request, NEW force
  PROVE  \E g : Looped(request, force, g, Len(Pipeline)) /\ Build(request, force) = g[Len(Pipeline)]
<1> DEFINE N == Len(Pipeline)
<1> DEFINE After(k, before) ==
      IF Pipeline[k] \in Selected(request)
        THEN [before EXCEPT ![Pipeline[k]] = PlanStage(before, Pipeline[k], world, force)] ELSE before
<1> DEFINE T == {n \in Nat : \E g : g[0] = NoPlans /\ \A k \in 1..n : g[k] = After(k, g[k - 1])}
<1>0. N \in Nat
  BY PlannerAssumption
<1> HIDE DEF N, After
<1>1. 0 \in T
  <2> DEFINE g == [i \in 0..0 |-> NoPlans]
  <2>1. g[0] = NoPlans /\ \A k \in 1..0 : g[k] = After(k, g[k - 1])
    OBVIOUS
  <2> HIDE DEF g
  <2> QED BY <2>1
<1>2. ASSUME NEW n \in Nat, n \in T PROVE n + 1 \in T
  <2>1. PICK g : g[0] = NoPlans /\ \A k \in 1..n : g[k] = After(k, g[k - 1])
    BY <1>2
  <2> DEFINE h == [i \in 0..(n + 1) |-> IF i = n + 1 THEN After(n + 1, g[n]) ELSE g[i]]
  <2>2. h[0] = NoPlans
    BY <2>1
  <2>3. ASSUME NEW k \in 1..(n + 1) PROVE h[k] = After(k, h[k - 1])
    <3>1. h[k - 1] = g[k - 1]
      OBVIOUS
    <3>2. CASE k = n + 1
      BY <3>1, <3>2
    <3>3. CASE k # n + 1
      <4>1. k \in 1..n /\ h[k] = g[k]
        BY <3>3
      <4> QED BY <2>1, <3>1, <4>1
    <3> QED BY <3>2, <3>3
  <2> HIDE DEF h
  <2> QED BY <2>2, <2>3
<1>3. PICK g : g[0] = NoPlans /\ \A k \in 1..N : g[k] = After(k, g[k - 1])
  <2>1. N \in T
    BY <1>0, <1>1, <1>2, Induction
  <2> QED BY <2>1
<1> DEFINE Eq(f) == f = [k \in 0..N |-> IF k = 0 THEN NoPlans ELSE After(k, f[k - 1])]
<1> DEFINE f == CHOOSE f : Eq(f)
<1>4. Build(request, force) = f[N]
  BY DEF Build, N, After
<1>5. Eq([k \in 0..N |-> g[k]])
  BY <1>0, <1>3
<1>6. Eq(f)
  <2> HIDE DEF Eq
  <2> QED BY <1>5
<1>7. f[0] = NoPlans /\ \A k \in 1..N : f[k] = After(k, f[k - 1])
  <2> HIDE DEF f
  <2> QED BY <1>0, <1>6
<1> HIDE DEF f
<1> QED
  BY <1>4, <1>7 DEF Looped, N, After

\* Everything a row of the plan has.
Planned(p) == p = [s \in Stages |->
  [state |-> p[s].state, key |-> p[s].key, artifact |-> p[s].artifact, external |-> p[s].external]]

\* What Build finds in the store for a stage: an artifact with its key, which
\* holds the settings it hashes and the keys of the inputs that are used again.
FoundAgain(p, s) ==
  /\ p[s].key # <<>>
  /\ \E i \in 1..Len(store) : p[s].artifact = <<store[i]>> /\ store[i].key = p[s].key[1]
  /\ p[s].key[1].config = [i \in Hashed[s] |-> world[i]]
  /\ \A d \in Dependencies(s) \cap Stages : p[d].state = "cached" =>
       d \in DOMAIN p[s].key[1].upstream /\ p[s].key[1].upstream[d] = p[d].key[1]

\* What holds of a plan in the middle of the loop.
LoopInv(p, n) ==
  /\ Planned(p)
  /\ \A s \in Stages : p[s].state \in {"absent", "pending", "cached", "skipped"}
  /\ \A s \in Stages : Ordinal(s) > n => p[s] = NoPlan
  /\ \A s \in Stages : p[s].state = "cached" => FoundAgain(p, s)

\* The stages are numbered by the pipeline.
LEMMA Numbers ==
  /\ Len(Pipeline) \in Nat
  /\ \A k \in 1..Len(Pipeline) : Pipeline[k] \in Stages /\ Ordinal(Pipeline[k]) = k
  /\ \A s \in Stages : Ordinal(s) \in 1..Len(Pipeline) /\ Pipeline[Ordinal(s)] = s
<1>1. Len(Pipeline) \in Nat /\ DOMAIN Pipeline = 1..Len(Pipeline)
  BY PlannerAssumption
<1>2. ASSUME NEW k \in 1..Len(Pipeline) PROVE Pipeline[k] \in Stages /\ Ordinal(Pipeline[k]) = k
  BY <1>1, PlannerAssumption DEF ValidRegistry, Stages, ToSet, Ordinal
<1>3. ASSUME NEW s \in Stages PROVE Ordinal(s) \in 1..Len(Pipeline) /\ Pipeline[Ordinal(s)] = s
  BY <1>1 DEF Stages, ToSet, Ordinal
<1> QED BY <1>1, <1>2, <1>3

\* What one iteration makes of the stage it plans.
LEMMA PlanStageIs ==
  ASSUME NEW p, NEW s \in Stages, NEW force, Planned(p)
  PROVE  LET q == PlanStage(p, s, world, force) IN
         /\ q = [state |-> q.state, key |-> q.key, artifact |-> q.artifact, external |-> q.external]
         /\ q.state \in {"pending", "cached", "skipped"}
         /\ q.state = "cached" =>
              /\ q.key # <<>>
              /\ \E i \in 1..Len(store) : q.artifact = <<store[i]>> /\ store[i].key = q.key[1]
              /\ q.key[1].config = [i \in Hashed[s] |-> world[i]]
              /\ \A d \in Dependencies(s) \cap Stages : p[d].state = "cached" /\ p[d].key # <<>> =>
                   d \in DOMAIN q.key[1].upstream /\ q.key[1].upstream[d] = p[d].key[1]
<1> DEFINE external == External(p, s)
           upstream == UpstreamKeys(p, s, external)
           derived == DeriveKey(s, world, upstream)
           found == IF force THEN <<>> ELSE LookupKey(derived)
           q == PlanStage(p, s, world, force)
<1>1. q = IF Blocked(p, s, external) THEN [NoPlan EXCEPT !.state = "skipped"]
          ELSE [state |-> IF found = <<>> THEN "pending" ELSE "cached",
                key |-> <<derived>>, artifact |-> found, external |-> external]
  BY DEF PlanStage
<1>2. derived.config = [i \in Hashed[s] |-> world[i]] /\ derived.upstream = upstream
  BY DEF DeriveKey
<1>3. ASSUME found # <<>>
      PROVE \E i \in 1..Len(store) : found = <<store[i]>> /\ store[i].key = derived
  <2> DEFINE i == CHOOSE i \in Rows(derived) : TRUE
  <2>1. Rows(derived) # {} /\ found = <<store[i]>>
    BY <1>3 DEF LookupKey
  <2>2. i \in Rows(derived)
    BY <2>1
  <2> HIDE DEF i, derived
  <2> QED BY <2>1, <2>2 DEF Rows
<1>4. ASSUME NEW d \in Dependencies(s) \cap Stages, p[d].state = "cached", p[d].key # <<>>
      PROVE d \in DOMAIN upstream /\ upstream[d] = p[d].key[1]
  <2>1. d \notin DOMAIN external
    BY <1>4 DEF External
  <2> HIDE DEF external
  <2> QED BY <1>4, <2>1 DEF UpstreamKeys
<1> HIDE DEF external, upstream, derived, found, q
<1>5. CASE Blocked(p, s, external)
  BY <1>1, <1>5 DEF NoPlan, q
<1>6. CASE ~Blocked(p, s, external)
  <2>1. q = [state |-> IF found = <<>> THEN "pending" ELSE "cached",
             key |-> <<derived>>, artifact |-> found, external |-> external]
    BY <1>1, <1>6
  <2>2. q.key = <<derived>> /\ q.key[1] = derived /\ q.key # <<>> /\ q.artifact = found
    BY <2>1
  <2>3. q.state = "cached" => found # <<>>
    BY <2>1
  <2>4. q.state \in {"pending", "cached", "skipped"}
    BY <2>1
  <2>5. q = [state |-> q.state, key |-> q.key, artifact |-> q.artifact, external |-> q.external]
    BY <2>1
  <2> QED BY <1>2, <1>3, <1>4, <2>2, <2>3, <2>4, <2>5 DEF q
<1> QED BY <1>5, <1>6

\* Each iteration keeps what holds in the loop.
LEMMA IterationKeeps ==
  ASSUME NEW n \in Nat, n + 1 \in 1..Len(Pipeline), NEW p, LoopInv(p, n), NEW force,
         NEW q, q = [p EXCEPT ![Pipeline[n + 1]] = PlanStage(p, Pipeline[n + 1], world, force)]
  PROVE  LoopInv(q, n + 1)
<1> DEFINE s == Pipeline[n + 1]
           r == PlanStage(p, s, world, force)
<1>1. s \in Stages /\ Ordinal(s) = n + 1
  BY Numbers
<1>2. /\ r = [state |-> r.state, key |-> r.key, artifact |-> r.artifact, external |-> r.external]
      /\ r.state \in {"pending", "cached", "skipped"}
      /\ r.state = "cached" =>
           /\ r.key # <<>>
           /\ \E i \in 1..Len(store) : r.artifact = <<store[i]>> /\ store[i].key = r.key[1]
           /\ r.key[1].config = [i \in Hashed[s] |-> world[i]]
           /\ \A d \in Dependencies(s) \cap Stages : p[d].state = "cached" /\ p[d].key # <<>> =>
                d \in DOMAIN r.key[1].upstream /\ r.key[1].upstream[d] = p[d].key[1]
  BY <1>1, PlanStageIs DEF LoopInv
<1>3. DOMAIN p = Stages
  BY DEF LoopInv, Planned
<1>4. q[s] = r /\ DOMAIN q = Stages /\ \A t \in Stages \ {s} : q[t] = p[t]
  BY <1>1, <1>3
<1> HIDE DEF s, r
<1>5. Planned(q)
  <2> DEFINE Row(x) == [state |-> x.state, key |-> x.key, artifact |-> x.artifact, external |-> x.external]
  <2>1. ASSUME NEW t \in Stages PROVE q[t] = Row(q[t])
    <3>1. CASE t = s
      BY <1>2, <1>4, <3>1
    <3>2. CASE t # s
      <4>1. p[t] = Row(p[t])
        BY DEF LoopInv, Planned
      <4> QED BY <1>4, <3>2, <4>1
    <3> QED BY <3>1, <3>2
  <2>2. q = [t \in Stages |-> q[t]]
    BY <1>3 DEF s, r
  <2> HIDE DEF Row
  <2>3. q = [t \in Stages |-> Row(q[t])]
    BY <2>1, <2>2
  <2> QED BY <2>3 DEF Row, Planned
<1>6. ASSUME NEW t \in Stages PROVE q[t].state \in {"absent", "pending", "cached", "skipped"}
  BY <1>2, <1>4 DEF LoopInv
<1>7. ASSUME NEW t \in Stages, Ordinal(t) > n + 1 PROVE q[t] = NoPlan
  <2>1. t # s /\ Ordinal(t) > n
    BY <1>1, <1>7, Numbers
  <2> QED BY <1>4, <2>1 DEF LoopInv
<1>8. ASSUME NEW t \in Stages, NEW d \in Dependencies(t) \cap Stages, q[t].state = "cached",
             q[d].state = "cached"
      PROVE d # s /\ q[d] = p[d] /\ p[d].key # <<>>
  <2>1. Ordinal(d) < Ordinal(t) /\ Ordinal(d) \in Nat /\ Ordinal(t) \in Nat
    BY Numbers, PlannerAssumption DEF ValidRegistry
  <2>2. Ordinal(t) <= n + 1
    <3>1. q[t] # NoPlan
      BY <1>8 DEF NoPlan
    <3> QED BY <1>7, <2>1, <3>1
  <2>3. d # s
    BY <1>1, <2>1, <2>2
  <2>4. q[d] = p[d]
    BY <1>4, <2>3
  <2> QED BY <1>8, <2>3, <2>4 DEF LoopInv, FoundAgain
<1>9. ASSUME NEW t \in Stages, q[t].state = "cached" PROVE FoundAgain(q, t)
  <2>1. CASE t = s
    <3>1. r.state = "cached" /\ q[t] = r
      BY <1>4, <1>9, <2>1
    <3>2. \A d \in Dependencies(s) \cap Stages : q[d].state = "cached" =>
            d \in DOMAIN r.key[1].upstream /\ r.key[1].upstream[d] = q[d].key[1]
      BY <1>2, <1>8, <1>9, <2>1, <3>1
    <3> QED BY <1>2, <2>1, <3>1, <3>2 DEF FoundAgain
  <2>2. CASE t # s
    <3>1. q[t] = p[t] /\ FoundAgain(p, t)
      BY <1>4, <1>9, <2>2 DEF LoopInv
    <3>2. \A d \in Dependencies(t) \cap Stages : q[d].state = "cached" =>
            d \in DOMAIN q[t].key[1].upstream /\ q[t].key[1].upstream[d] = q[d].key[1]
      BY <1>8, <1>9, <3>1 DEF FoundAgain
    <3> QED BY <3>1, <3>2 DEF FoundAgain
  <2> QED BY <2>1, <2>2
<1> QED BY <1>5, <1>6, <1>7, <1>9 DEF LoopInv

\* A plan uses an artifact again under its key, and with it the settings and
\* the inputs of the plan.
LEMMA BuildFinds ==
  ASSUME NEW request, NEW force
  PROVE  LoopInv(Build(request, force), Len(Pipeline))
<1> DEFINE N == Len(Pipeline)
<1>1. PICK g : Looped(request, force, g, N) /\ Build(request, force) = g[N]
  BY BuildIs
<1>2. N \in Nat
  BY Numbers
<1> HIDE DEF N
<1> DEFINE T == {n \in Nat : n \in 0..N => LoopInv(g[n], n)}
<1>3. 0 \in T
  <2>1. g[0] = NoPlans
    BY <1>1 DEF Looped
  <2>2. Planned(NoPlans) /\ \A s \in Stages : NoPlans[s] = NoPlan
    BY DEF Planned, NoPlans, NoPlan
  <2>3. LoopInv(NoPlans, 0)
    BY <2>2 DEF LoopInv, NoPlan
  <2> QED BY <2>1, <2>3
<1>4. ASSUME NEW n \in Nat, n \in T PROVE n + 1 \in T
  <2> SUFFICES ASSUME n + 1 \in 0..N PROVE LoopInv(g[n + 1], n + 1)
    OBVIOUS
  <2>1. n + 1 \in 1..N /\ (n + 1) - 1 = n /\ LoopInv(g[n], n)
    BY <1>2, <1>4
  <2> DEFINE s == Pipeline[n + 1]
  <2>2. g[n + 1] = IF s \in Selected(request)
                     THEN [g[n] EXCEPT ![s] = PlanStage(g[n], s, world, force)] ELSE g[n]
    BY <1>1, <2>1 DEF Looped
  <2>3. CASE s \in Selected(request)
    BY <2>1, <2>2, <2>3, IterationKeeps DEF N
  <2>4. CASE s \notin Selected(request)
    <3>1. \A t \in Stages : Ordinal(t) \in Nat
      BY Numbers
    <3> QED BY <2>1, <2>2, <2>4, <3>1 DEF LoopInv
  <2> QED BY <2>3, <2>4
<1>5. N \in T
  BY <1>2, <1>3, <1>4, Induction
<1> QED
  BY <1>1, <1>2, <1>5 DEF N

\* An artifact was made from the inputs and with the settings of its key.
MadeAsKeyed(a) == a.made.from = a.key.upstream /\ a.made.config = a.key.config

\* The rows of the store: one for each key.
StoreIs(s) ==
  /\ s \in Seq(ToSet(s))
  /\ \A i \in 1..Len(s) : MadeAsKeyed(s[i])
  /\ \A i, j \in 1..Len(s) : s[i].key = s[j].key => i = j

JobIs(j) == j =
  [at |-> j.at, world |-> j.world, force |-> j.force, full |-> j.full, clean |-> j.clean,
   stage |-> j.stage, key |-> j.key, inputs |-> j.inputs, runs |-> j.runs]

LinesAre(l) == l = [of |-> l.of, edits |-> l.edits] /\ l.of \in {<<>>, <<l.of[1]>>}

\* The key a stage is going to be stored under is that of the inputs and the
\* settings it is given.
KeyIsOfItsInputs ==
  job.at = "stage" =>
    /\ job.key[1].upstream = [d \in DOMAIN job.inputs |-> job.inputs[d].key]
    /\ job.key[1].config = [i \in Hashed[job.stage] |-> job.world[i]]

\* A plan uses again what was made with these settings and with its inputs.
SoundPlan(p, w) ==
  \A s \in Stages : p[s].state = "cached" =>
    LET made == p[s].artifact[1].made IN
    /\ made.config = [i \in Hashed[s] |-> w[i]]
    /\ \A d \in Dependencies(s) \cap Stages : p[d].state = "cached" =>
         d \in DOMAIN made.from /\ made.from[d] = p[d].key[1]

PlannerInv ==
  /\ PlannerTypeOK /\ StoreIs(store) /\ Planned(plan) /\ JobIs(job) /\ LinesAre(lines)
  /\ lines.edits <= changes /\ KeyIsOfItsInputs /\ SoundPlan(plan, job.world)

\* Nothing is planned and nothing stored in the beginning.
LEMMA PlannerInitInv == PlannerInit => PlannerInv
<1> SUFFICES ASSUME PlannerInit PROVE PlannerInv
  OBVIOUS
<1>1. store = <<>> /\ plan = NoPlans /\ job = IdleJob /\ lines = [of |-> <<>>, edits |-> 0]
  BY DEF PlannerInit
<1>2. StoreIs(store)
  BY <1>1 DEF StoreIs, ToSet
<1>3. Planned(plan) /\ \A s \in Stages : plan[s].state = "absent"
  BY <1>1 DEF Planned, NoPlans, NoPlan
<1>4. JobIs(job) /\ job.at = "idle" /\ job.runs = 0
  BY <1>1 DEF JobIs, IdleJob
<1>5. LinesAre(lines) /\ Len(lines.of) <= 1 /\ lines.edits <= changes
  BY <1>1 DEF LinesAre, PlannerInit
<1>6. PlannerTypeOK
  BY <1>1, <1>3, <1>4, <1>5, PlannerAssumption DEF PlannerInit, PlannerTypeOK
<1> QED
  BY <1>2, <1>3, <1>4, <1>5, <1>6 DEF PlannerInv, KeyIsOfItsInputs, SoundPlan

\* A sequence is one of its own elements.
LEMMA OfItsElements == ASSUME NEW S, NEW s \in Seq(S) PROVE s \in Seq(ToSet(s))
  BY DEF ToSet

\* A sequence with one of its elements taken out.
LEMMA RemoveAtIs ==
  ASSUME NEW S, NEW s \in Seq(S), NEW i \in 1..Len(s)
  PROVE  /\ RemoveAt(s, i) \in Seq(S)
         /\ Len(RemoveAt(s, i)) = Len(s) - 1
         /\ \A k \in 1..(Len(s) - 1) : RemoveAt(s, i)[k] = s[IF k < i THEN k ELSE k + 1]
<1> DEFINE left == SubSeq(s, 1, i - 1)
           right == SubSeq(s, i + 1, Len(s))
<1>1. Len(s) \in Nat /\ i \in Nat /\ i - 1 \in Nat /\ Len(s) - i \in Nat
  OBVIOUS
<1>2. left \in Seq(S) /\ Len(left) = i - 1 /\ \A k \in 1..(i - 1) : left[k] = s[k]
  BY <1>1
<1>3. right \in Seq(S) /\ Len(right) = Len(s) - i /\ \A k \in 1..(Len(s) - i) : right[k] = s[i + k]
  BY <1>1
<1>4. RemoveAt(s, i) = left \o right
  BY DEF RemoveAt
<1> HIDE DEF left, right
<1>5. /\ left \o right \in Seq(S) /\ Len(left \o right) = Len(s) - 1
      /\ \A k \in 1..(Len(s) - 1) :
           (left \o right)[k] = IF k <= i - 1 THEN left[k] ELSE right[k - (i - 1)]
  <2>1. /\ left \o right \in Seq(S) /\ Len(left \o right) = Len(left) + Len(right)
        /\ \A k \in 1..(Len(left) + Len(right)) :
             (left \o right)[k] = IF k <= Len(left) THEN left[k] ELSE right[k - Len(left)]
    BY <1>2, <1>3, ConcatProperties
  <2>2. Len(left) + Len(right) = Len(s) - 1
    BY <1>1, <1>2, <1>3
  <2> QED BY <1>2, <2>1, <2>2
<1>6. ASSUME NEW k \in 1..(Len(s) - 1)
      PROVE  (left \o right)[k] = s[IF k < i THEN k ELSE k + 1]
  <2>1. CASE k < i
    <3>1. k \in 1..(i - 1) /\ k <= i - 1
      BY <1>1, <2>1
    <3> QED BY <1>2, <1>5, <2>1, <3>1
  <2>2. CASE ~(k < i)
    <3>1. k - (i - 1) \in 1..(Len(s) - i) /\ i + (k - (i - 1)) = k + 1 /\ ~(k <= i - 1)
      BY <1>1, <2>2
    <3>2. right[k - (i - 1)] = s[k + 1]
      BY <1>3, <3>1
    <3> QED BY <1>5, <2>2, <3>1, <3>2
  <2> QED BY <2>1, <2>2
<1> QED BY <1>4, <1>5, <1>6

\* What remains of the rows when one key's is removed.
LEMMA WithoutIs ==
  ASSUME StoreIs(store), NEW wanted
  PROVE  /\ StoreIs(Without(wanted))
         /\ \A i \in 1..Len(Without(wanted)) : Without(wanted)[i].key # wanted
<1> DEFINE n == Len(store)
<1>0. store \in Seq(ToSet(store)) /\ n \in Nat
  BY DEF StoreIs
<1>1. CASE Rows(wanted) = {}
  BY <1>1 DEF Without, Rows
<1>2. CASE Rows(wanted) # {}
  <2>1. PICK i : i \in 1..n /\ store[i].key = wanted /\ Without(wanted) = RemoveAt(store, i)
    <3> DEFINE i == CHOOSE i \in Rows(wanted) : TRUE
    <3>1. i \in Rows(wanted) /\ Without(wanted) = RemoveAt(store, i)
      BY <1>2 DEF Without
    <3> HIDE DEF i
    <3> QED BY <3>1 DEF Rows
  <2> DEFINE w == RemoveAt(store, i)
             from(k) == IF k < i THEN k ELSE k + 1
  <2>2. w \in Seq(ToSet(store)) /\ Len(w) = n - 1 /\ \A k \in 1..(n - 1) : w[k] = store[from(k)]
    BY <1>0, <2>1, RemoveAtIs
  <2>3. \A k \in 1..(n - 1) : from(k) \in 1..n /\ from(k) # i
    BY <1>0, <2>1
  <2>4. w \in Seq(ToSet(w))
    BY <2>2, OfItsElements
  <2> HIDE DEF w
  <2>5. \A k \in 1..(n - 1) : MadeAsKeyed(w[k]) /\ w[k].key # wanted
    BY <2>1, <2>2, <2>3 DEF StoreIs
  <2>6. ASSUME NEW j \in 1..(n - 1), NEW k \in 1..(n - 1), w[j].key = w[k].key PROVE j = k
    <3>1. from(j) = from(k)
      BY <2>2, <2>3, <2>6 DEF StoreIs
    <3> QED BY <1>0, <2>1, <3>1
  <2> QED BY <2>1, <2>2, <2>4, <2>5, <2>6 DEF StoreIs, w
<1> QED BY <1>1, <1>2

\* A row replaces the one with its key.
LEMMA InsertedIs ==
  ASSUME StoreIs(store), NEW a, MadeAsKeyed(a)
  PROVE  StoreIs(Inserted(a))
<1> DEFINE w == Without(a.key)
           n == Len(w)
<1>1. StoreIs(w) /\ \A i \in 1..n : w[i].key # a.key
  BY WithoutIs
<1>2. Inserted(a) = Append(w, a)
  BY DEF Inserted
<1> HIDE DEF w
<1>3. w \in Seq(ToSet(w)) /\ n \in Nat
  BY <1>1 DEF StoreIs
<1>4. w \in Seq(ToSet(w) \cup {a})
  BY <1>3
<1>5. /\ Append(w, a) \in Seq(ToSet(w) \cup {a}) /\ Len(Append(w, a)) = n + 1
      /\ Append(w, a)[n + 1] = a /\ \A i \in 1..n : Append(w, a)[i] = w[i]
  BY <1>4, AppendProperties
<1> DEFINE x == Append(w, a)
<1>6. x \in Seq(ToSet(x))
  BY <1>5, OfItsElements
<1> HIDE DEF x
<1>7. \A i \in 1..(n + 1) : MadeAsKeyed(x[i])
  BY <1>1, <1>3, <1>5 DEF StoreIs, x
<1>8. ASSUME NEW i \in 1..(n + 1), NEW j \in 1..(n + 1), x[i].key = x[j].key PROVE i = j
  <2>1. \A k \in 1..n : x[k] = w[k] /\ w[k].key # a.key
    BY <1>1, <1>5 DEF x
  <2>2. x[n + 1] = a
    BY <1>5 DEF x
  <2>3. CASE i = n + 1 \/ j = n + 1
    BY <1>3, <1>8, <2>1, <2>2, <2>3
  <2>4. CASE i # n + 1 /\ j # n + 1
    <3>1. i \in 1..n /\ j \in 1..n
      BY <1>3, <2>4
    <3>2. w[i].key = w[j].key
      BY <1>8, <2>1, <3>1
    <3> QED BY <1>1, <3>1, <3>2 DEF StoreIs
  <2> QED BY <2>3, <2>4
<1> QED BY <1>2, <1>5, <1>6, <1>7, <1>8 DEF StoreIs, x

\* A plan stays sound when a stage gets another state and is not found again.
LEMMA PlanKept ==
  ASSUME NEW p, NEW w, SoundPlan(p, w), NEW s, NEW q,
         \A t \in Stages : t # s => q[t] = p[t], s \in Stages => q[s].state # "cached"
  PROVE  SoundPlan(q, w)
<1>1. \A d \in Stages : q[d].state = "cached" => q[d] = p[d]
  OBVIOUS
<1> QED BY <1>1 DEF SoundPlan

\* A stage of the plan gets another state.
LEMMA StateSet ==
  ASSUME Planned(plan), NEW s, NEW state
  PROVE  LET q == [plan EXCEPT ![s].state = state] IN
         /\ Planned(q)
         /\ \A t \in Stages : t # s => q[t] = plan[t]
         /\ s \in Stages => q[s].state = state
<1> DEFINE Row(x) == [state |-> x.state, key |-> x.key, artifact |-> x.artifact, external |-> x.external]
           q == [plan EXCEPT ![s].state = state]
<1>1. DOMAIN plan = Stages /\ \A t \in Stages : plan[t] = Row(plan[t])
  BY DEF Planned
<1>2. q = [t \in Stages |-> q[t]]
  BY <1>1
<1>3. \A t \in Stages : t # s => q[t] = plan[t]
  BY <1>1
<1>4. ASSUME s \in Stages PROVE q[s].state = state /\ q[s] = Row(q[s])
  <2>1. q[s] = [plan[s] EXCEPT !.state = state]
    BY <1>1, <1>4
  <2> QED BY <1>1, <1>4, <2>1
<1> HIDE DEF Row, q
<1>5. \A t \in Stages : q[t] = Row(q[t])
  BY <1>1, <1>3, <1>4
<1>6. q = [t \in Stages |-> Row(q[t])]
  BY <1>2, <1>5
<1> QED BY <1>3, <1>4, <1>6 DEF Planned, Row, q

\* Lines that are stored again are those of the artifact, edited as before.
LEMMA PersistedIs ==
  ASSUME LinesAre(lines), NEW a
  PROVE  LinesAre(Persisted(lines, a)) /\ Len(Persisted(lines, a).of) <= 1
         /\ Persisted(lines, a).edits = lines.edits
<1>1. Persisted(lines, a) = [of |-> <<a.made>>, edits |-> lines.edits]
  BY DEF Persisted, LinesAre
<1> QED BY <1>1 DEF LinesAre

\* A new plan uses again what the store holds for its own settings and inputs.
LEMMA PlanRunKeeps ==
  ASSUME PlannerInv, NEW request \in Selections, NEW force \in BOOLEAN, PlanRun(request, force)
  PROVE  PlannerInv'
<1> DEFINE p == Build(request, force)
<1>1. LoopInv(p, Len(Pipeline)) /\ plan' = p
  BY BuildFinds DEF PlanRun
<1>2. /\ job' = [IdleJob EXCEPT !.at = "report", !.world = world, !.force = force, !.runs = job.runs + 1,
                   !.full = Selected(request) = Selected([only |-> {}, from |-> 1, to |-> Len(Pipeline)])]
      /\ job.runs < MaxPlans /\ world' = world /\ disabled' = disabled /\ store' = store
      /\ changes' = changes /\ lines' = lines /\ settled' \in {settled, 0}
  BY DEF PlanRun, inputsAndStore
<1> HIDE DEF p
<1>3. JobIs(job') /\ job'.at = "report" /\ job'.world = world /\ job'.runs = job.runs + 1
  BY <1>2 DEF JobIs, IdleJob
<1>4. KeyIsOfItsInputs'
  BY <1>3 DEF KeyIsOfItsInputs
<1>5. PlannerTypeOK'
  BY <1>1, <1>2, <1>3, PlannerAssumption DEF PlannerInv, PlannerTypeOK, LoopInv
<1>6. ASSUME NEW s \in Stages, p[s].state = "cached"
      PROVE  LET made == p[s].artifact[1].made IN
             /\ made.config = [i \in Hashed[s] |-> world[i]]
             /\ \A d \in Dependencies(s) \cap Stages : p[d].state = "cached" =>
                  d \in DOMAIN made.from /\ made.from[d] = p[d].key[1]
  <2>1. FoundAgain(p, s)
    BY <1>1, <1>6 DEF LoopInv
  <2>2. PICK i \in 1..Len(store) : p[s].artifact = <<store[i]>> /\ store[i].key = p[s].key[1]
    BY <2>1 DEF FoundAgain
  <2>3. p[s].artifact[1] = store[i] /\ MadeAsKeyed(store[i])
    BY <2>2 DEF PlannerInv, StoreIs
  <2> QED BY <2>1, <2>2, <2>3 DEF FoundAgain, MadeAsKeyed
<1>7. SoundPlan(p, world)
  BY <1>6 DEF SoundPlan
<1> QED BY <1>1, <1>2, <1>3, <1>4, <1>5, <1>7 DEF PlannerInv, LoopInv

\* What a stage is stored under is what it was made with; its row replaces the
\* one with that key, and it is not used again by this run.
LEMMA StageKeeps ==
  ASSUME PlannerInv, StageBlocked \/ StageBegins \/ StageSucceeds \/ StageFails
  PROVE  PlannerInv'
<1>0. /\ PlannerTypeOK /\ StoreIs(store) /\ Planned(plan) /\ JobIs(job) /\ LinesAre(lines)
      /\ lines.edits <= changes /\ KeyIsOfItsInputs /\ SoundPlan(plan, job.world)
  BY DEF PlannerInv
<1>1. CASE StageBlocked
  <2> DEFINE s == Head(PendingStages)
             q == [plan EXCEPT ![s].state = "skipped"]
  <2>1. plan' = q /\ UNCHANGED <<world, disabled, store, changes, lines, job, settled>>
    BY <1>1 DEF StageBlocked, inputsAndStore
  <2> HIDE DEF s
  <2>2. Planned(q) /\ (\A t \in Stages : t # s => q[t] = plan[t]) /\ (s \in Stages => q[s].state = "skipped")
    BY <1>0, StateSet
  <2> HIDE DEF q
  <2>3. SoundPlan(q, job.world)
    BY <1>0, <2>2, PlanKept
  <2>4. PlannerTypeOK'
    BY <1>0, <2>1, <2>2 DEF PlannerTypeOK
  <2> QED BY <1>0, <2>1, <2>2, <2>3, <2>4 DEF PlannerInv, KeyIsOfItsInputs
<1>2. CASE StageBegins
  <2> DEFINE s == Head(PendingStages)
             inputs == InputsOf(s)
             written == KeyToWrite(s, inputs)
  <2>1. /\ job' = [job EXCEPT !.at = "stage", !.stage = s, !.inputs = inputs, !.key = <<written>>]
        /\ UNCHANGED <<world, disabled, store, changes, lines, plan, settled>>
    BY <1>2 DEF StageBegins, inputsAndStore
  <2>2. written.upstream = [d \in DOMAIN inputs |-> inputs[d].key] /\ written.config = [i \in Hashed[s] |-> job.world[i]]
    BY DEF KeyToWrite, DeriveKey
  <2> HIDE DEF s, inputs, written
  <2>3. /\ JobIs(job') /\ job'.at = "stage" /\ job'.stage = s /\ job'.inputs = inputs /\ job'.key[1] = written
        /\ job'.world = job.world /\ job'.runs = job.runs
    BY <1>0, <2>1 DEF JobIs
  <2>4. KeyIsOfItsInputs'
    BY <2>2, <2>3 DEF KeyIsOfItsInputs
  <2>5. SoundPlan(plan', job'.world)
    BY <1>0, <2>1, <2>3
  <2>6. PlannerTypeOK'
    BY <1>0, <2>1, <2>3 DEF PlannerTypeOK
  <2> QED BY <1>0, <2>1, <2>3, <2>4, <2>5, <2>6 DEF PlannerInv
<1>3. CASE StageSucceeds
  <2> DEFINE s == job.stage
             made == [stage |-> s, config |-> [i \in Hashed[s] |-> job.world[i]], lines |-> LinesDigest(s),
                      from |-> [d \in DOMAIN job.inputs |-> job.inputs[d].key]]
             a == [stage |-> s, key |-> job.key[1], made |-> made]
             artifact == <<a>>
             q == [plan EXCEPT ![s].state = "completed", ![s].artifact = artifact]
  <2>1. /\ job.at = "stage" /\ store' = Inserted(a)
        /\ plan' = q
        /\ lines' \in {lines, Persisted(lines, a)}
        /\ job' = [job EXCEPT !.at = "loop", !.stage = "", !.inputs = <<>>, !.key = <<>>]
        /\ UNCHANGED <<world, disabled, changes, settled>>
    BY <1>3 DEF StageSucceeds
  <2>2. MadeAsKeyed(a)
    BY <1>0, <2>1 DEF MadeAsKeyed, KeyIsOfItsInputs
  <2> HIDE DEF a, made, s, artifact
  <2>3. StoreIs(store')
    BY <1>0, <2>1, <2>2, InsertedIs
  <2>4. Planned(q) /\ (\A t \in Stages : t # s => q[t] = plan[t]) /\ (s \in Stages => q[s].state = "completed")
    <3> DEFINE Row(x) == [state |-> x.state, key |-> x.key, artifact |-> x.artifact, external |-> x.external]
    <3>1. DOMAIN plan = Stages /\ \A t \in Stages : plan[t] = Row(plan[t])
      BY <1>0 DEF Planned
    <3>2. q = [t \in Stages |-> q[t]] /\ \A t \in Stages : t # s => q[t] = plan[t]
      BY <3>1
    <3>3. ASSUME s \in Stages PROVE q[s].state = "completed" /\ q[s] = Row(q[s])
      <4>1. q[s] = [plan[s] EXCEPT !.state = "completed", !.artifact = artifact]
        BY <3>1, <3>3
      <4> QED BY <3>1, <3>3, <4>1
    <3> HIDE DEF Row, q
    <3>4. \A t \in Stages : q[t] = Row(q[t])
      BY <3>1, <3>2, <3>3
    <3>5. q = [t \in Stages |-> Row(q[t])]
      BY <3>2, <3>4
    <3> QED BY <3>2, <3>3, <3>5 DEF Planned, Row
  <2> HIDE DEF q
  <2>5. JobIs(job') /\ job'.at = "loop" /\ job'.world = job.world /\ job'.runs = job.runs
    BY <1>0, <2>1 DEF JobIs
  <2>6. SoundPlan(q, job.world)
    BY <1>0, <2>4, PlanKept
  <2>7. LinesAre(lines') /\ Len(lines'.of) <= 1 /\ lines'.edits = lines.edits
    BY <1>0, <2>1, PersistedIs DEF PlannerTypeOK
  <2>8. PlannerTypeOK'
    BY <1>0, <2>1, <2>3, <2>4, <2>5, <2>7 DEF PlannerTypeOK, StoreIs
  <2> QED BY <1>0, <2>1, <2>3, <2>4, <2>5, <2>6, <2>7, <2>8 DEF PlannerInv, KeyIsOfItsInputs
<1>4. CASE StageFails
  <2> DEFINE s == job.stage
             q == [plan EXCEPT ![s].state = "failed"]
  <2>1. /\ store' = Without(job.key[1])
        /\ plan' = q
        /\ job' = [job EXCEPT !.at = "loop", !.stage = "", !.inputs = <<>>, !.key = <<>>]
        /\ UNCHANGED <<world, disabled, changes, lines, settled>>
    BY <1>4 DEF StageFails
  <2>2. StoreIs(store')
    BY <1>0, <2>1, WithoutIs
  <2> HIDE DEF s
  <2>3. Planned(q) /\ (\A t \in Stages : t # s => q[t] = plan[t]) /\ (s \in Stages => q[s].state = "failed")
    BY <1>0, StateSet
  <2> HIDE DEF q
  <2>4. JobIs(job') /\ job'.at = "loop" /\ job'.world = job.world /\ job'.runs = job.runs
    BY <1>0, <2>1 DEF JobIs
  <2>5. SoundPlan(q, job.world)
    BY <1>0, <2>3, PlanKept
  <2>6. PlannerTypeOK'
    BY <1>0, <2>1, <2>2, <2>3, <2>4 DEF PlannerTypeOK, StoreIs
  <2> QED BY <1>0, <2>1, <2>2, <2>3, <2>4, <2>5, <2>6 DEF PlannerInv, KeyIsOfItsInputs
<1> QED BY <1>1, <1>2, <1>3, <1>4

\* The lines of the stages that are used again are stored, and a run ends.
LEMMA RunKeeps ==
  ASSUME PlannerInv, ReportSettled \/ RunEnds
  PROVE  PlannerInv'
<1>0. /\ PlannerTypeOK /\ StoreIs(store) /\ Planned(plan) /\ JobIs(job) /\ LinesAre(lines)
      /\ lines.edits <= changes /\ KeyIsOfItsInputs /\ SoundPlan(plan, job.world)
  BY DEF PlannerInv
<1>1. CASE ReportSettled
  <2> DEFINE a == plan[LastOf(CachedWriters)].artifact[1]
  <2>1. /\ lines' \in {lines, Persisted(lines, a)} /\ job' = [job EXCEPT !.at = "loop"]
        /\ UNCHANGED <<world, disabled, store, changes, plan, settled>>
    BY <1>1 DEF ReportSettled, inputsAndStore
  <2> HIDE DEF a
  <2>2. LinesAre(lines') /\ Len(lines'.of) <= 1 /\ lines'.edits = lines.edits
    BY <1>0, <2>1, PersistedIs DEF PlannerTypeOK
  <2>3. JobIs(job') /\ job'.at = "loop" /\ job'.world = job.world /\ job'.runs = job.runs
    BY <1>0, <2>1 DEF JobIs
  <2>4. PlannerTypeOK'
    BY <1>0, <2>1, <2>2, <2>3 DEF PlannerTypeOK
  <2> QED BY <1>0, <2>1, <2>2, <2>3, <2>4 DEF PlannerInv, KeyIsOfItsInputs
<1>2. CASE RunEnds
  <2>1. /\ settled' \in {Min({settled + 1, 3}), 0} /\ job' = [IdleJob EXCEPT !.runs = job.runs]
        /\ plan' = NoPlans /\ UNCHANGED <<world, disabled, store, changes, lines>>
    BY <1>2 DEF RunEnds, inputsAndStore
  <2>2. Min({settled + 1, 3}) \in 0..3
    <3>1. settled \in 0..3
      BY <1>0 DEF PlannerTypeOK
    <3>2. Min({settled + 1, 3}) = IF settled + 1 <= 3 THEN settled + 1 ELSE 3
      BY <3>1 DEF Min
    <3> QED BY <3>1, <3>2
  <2>3. Planned(plan') /\ \A s \in Stages : plan'[s].state = "absent"
    BY <2>1 DEF Planned, NoPlans, NoPlan
  <2>4. JobIs(job') /\ job'.at = "idle" /\ job'.runs = job.runs
    BY <2>1 DEF JobIs, IdleJob
  <2>5. PlannerTypeOK'
    BY <1>0, <2>1, <2>2, <2>3, <2>4 DEF PlannerTypeOK
  <2>6. SoundPlan(plan', job'.world)
    BY <2>3 DEF SoundPlan
  <2> QED BY <1>0, <2>1, <2>3, <2>4, <2>5, <2>6 DEF PlannerInv, KeyIsOfItsInputs
<1> QED BY <1>1, <1>2

\* The user changes neither the plan nor the settings a run was given.
LEMMA UserKeeps ==
  ASSUME PlannerInv, (\E i \in Inputs : ChangeInput(i)) \/ (\E s \in Stages : ToggleStage(s)) \/ EditLine
  PROVE  PlannerInv'
<1>0. /\ PlannerTypeOK /\ StoreIs(store) /\ Planned(plan) /\ JobIs(job) /\ LinesAre(lines)
      /\ lines.edits <= changes /\ KeyIsOfItsInputs /\ SoundPlan(plan, job.world)
  BY DEF PlannerInv
<1>1. /\ changes' \in 0..MaxChanges /\ settled' = 0 /\ job' = [job EXCEPT !.clean = FALSE]
      /\ store' = store /\ plan' = plan
  BY <1>0, PlannerAssumption DEF ChangeInput, ToggleStage, EditLine, Changed, PlannerTypeOK
<1>2. /\ JobIs(job') /\ job'.at = job.at /\ job'.world = job.world /\ job'.runs = job.runs
      /\ job'.stage = job.stage /\ job'.key = job.key /\ job'.inputs = job.inputs
  BY <1>0, <1>1 DEF JobIs
<1>3. world' \in [Inputs -> {0, 1}] /\ disabled' \subseteq Stages
  BY <1>0 DEF ChangeInput, ToggleStage, EditLine, PlannerTypeOK
<1>4. LinesAre(lines') /\ Len(lines'.of) <= 1 /\ lines'.edits \in 0..MaxChanges /\ lines'.edits <= changes'
  <2>1. changes' = changes + 1 /\ changes < MaxChanges
    BY DEF ChangeInput, ToggleStage, EditLine, Changed
  <2>2. lines' \in {lines, [lines EXCEPT !.edits = lines.edits + 1]}
    BY DEF ChangeInput, ToggleStage, EditLine
  <2>3. lines'.of = lines.of /\ lines'.edits \in {lines.edits, lines.edits + 1}
        /\ lines' = [of |-> lines'.of, edits |-> lines'.edits]
    BY <1>0, <2>2 DEF LinesAre
  <2>4. changes \in 0..MaxChanges /\ lines.edits \in 0..MaxChanges /\ lines.edits <= changes /\ Len(lines.of) <= 1
    BY <1>0 DEF PlannerTypeOK
  <2> QED BY <1>0, <2>1, <2>3, <2>4, PlannerAssumption DEF LinesAre
<1>5. PlannerTypeOK'
  BY <1>0, <1>1, <1>2, <1>3, <1>4 DEF PlannerTypeOK
<1> QED
  BY <1>0, <1>1, <1>2, <1>4, <1>5 DEF PlannerInv, KeyIsOfItsInputs

\* The invariant is inductive.
LEMMA PlannerStep == PlannerInv /\ [PlannerNext]_plannerVars => PlannerInv'
<1> SUFFICES ASSUME PlannerInv, [PlannerNext]_plannerVars PROVE PlannerInv'
  OBVIOUS
<1>1. CASE UNCHANGED plannerVars
  BY <1>1 DEF PlannerInv, PlannerTypeOK, KeyIsOfItsInputs, plannerVars
<1>2. CASE PlannerNext
  BY <1>2, PlanRunKeeps, StageKeeps, RunKeeps, UserKeeps DEF PlannerNext
<1> QED BY <1>1, <1>2

\* A run takes an artifact from the store instead of making it only if it was
\* made with the settings of the run and with the inputs that the run uses
\* again, for any pipeline whose dependencies come first, any requests and any
\* changes meanwhile.
THEOREM ReuseIsSound == PlannerSpec => []ReusedWithItsInputs
<1>1. PlannerInv => ReusedWithItsInputs
  BY DEF PlannerInv, SoundPlan, ReusedWithItsInputs
<1> QED BY <1>1, PlannerInitInv, PlannerStep, PTL DEF PlannerSpec

\* The types of the planner's state, and one artifact for each key.
THEOREM PlannerIsTyped == PlannerSpec => []PlannerTypeOK
<1>1. PlannerInv => PlannerTypeOK
  BY DEF PlannerInv
<1> QED BY <1>1, PlannerInitInv, PlannerStep, PTL DEF PlannerSpec
=============================================================================
