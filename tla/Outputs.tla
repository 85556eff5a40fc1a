------------------------------ MODULE Outputs ------------------------------
(***************************************************************************)
(* What one project hands out: the files of its output directory           *)
(* (app.publishOutputs, project.PublishOutputs, the download handlers) and *)
(* the editor's preview (api/media.go, app.GenerateEditorPreview).         *)
(*                                                                         *)
(* A file is its name and the run that made it.  Directories are removed   *)
(* and files copied one at a time, and the process may die at any step.    *)
(***************************************************************************)
EXTENDS Naturals, SequencesExt

CONSTANTS
  StageOrder,   \* the stages in the registry's order
  FileNames,    \* the names a stage gives its files, as sequences of parts
  MaxPublished, \* bound on the runs that publish
  Viewers,      \* the requests that start a preview, each made once
  MaxDeaths     \* bound on the times the process dies

ASSUME OutputsAssumption == MaxPublished \in Nat /\ MaxDeaths \in Nat

VARIABLES
  current,    \* the deliverable files of every stage's latest artifact
  version,    \* the number of the last run
  final,      \* the output directory
  staging,    \* its sibling, where the new set is assembled
  unnamed,    \* the files deliverables has still to give a name
  queue,      \* those that have one, and are still to be copied
  publishAt,  \* where PublishOutputs is
  viewer,     \* the state of a request that starts a preview
  status,     \* the preview's status, as the server remembers it
  makers,     \* the generators at work: which have begun to write
  temporary,  \* .editor-preview.part.mp4: who wrote to it since it was removed
  preview,    \* the published preview: who wrote to it
  deaths

outputVars == <<current, version, final, staging, unnamed, queue, publishAt, viewer, status,
                makers, temporary, preview, deaths>>
publishing == <<current, version, final, staging, unnamed, queue, publishAt>>
previewing == <<viewer, status, makers, temporary, preview>>

File(name, of, ver) == [name |-> name, of |-> of, version |-> ver]

OutputsTypeOK ==
  /\ current \in [ToSet(StageOrder) -> SUBSET FileNames]
  /\ version \in 0..MaxPublished
  /\ \A f \in final \cup staging : f.version \in 1..version
  /\ publishAt \in {"idle", "name", "copy", "clear", "swap"}
  /\ viewer \in [Viewers -> {"idle", "lock", "done"}]
  /\ status \in {"missing", "running", "ready", "failed"}
  /\ makers \in [Viewers -> {"none", "begun", "writing", "written"}]
  /\ temporary \subseteq Viewers
  /\ preview \subseteq Viewers
  /\ deaths \in 0..MaxDeaths

OutputsInit ==
  /\ current = [s \in ToSet(StageOrder) |-> {}]
  /\ version = 0
  /\ final = {} /\ staging = {} /\ unnamed = << >> /\ queue = << >> /\ publishAt = "idle"
  /\ viewer = [v \in Viewers |-> "idle"]
  /\ status = "missing"
  /\ makers = [v \in Viewers |-> "none"]
  /\ temporary = {} /\ preview = {}
  /\ deaths = 0

-----------------------------------------------------------------------------
(* Publishing.                                                             *)

\* deliverables: the files of the current artifact of every stage, in the
\* order of the stages.
Entries(files) == FlattenSeq([i \in DOMAIN StageOrder |->
                    LET s == StageOrder[i]
                        names == SetToSeq(files[s])
                    IN  [j \in DOMAIN names |-> [stage |-> s, name |-> names[j]]]])

\* A mutant: a name that is taken is used again.
AddedUnqualified(list, entry) == Append(list, File(entry.name, entry.stage, version))

\* deliverables: a name another stage has taken is qualified by the stage, and a
\* file whose qualified name is taken too is left out.
Added(list, entry) ==
  LET taken == {list[i].name : i \in DOMAIN list}
      name == IF entry.name \in taken THEN <<entry.stage>> \o entry.name ELSE entry.name
  IN  IF name \in taken THEN list ELSE Append(list, File(name, entry.stage, version))

\* A run ends: some stages have new artifacts, those of the others are still
\* there, unless someone removed them.
RunPublishes ==
  /\ publishAt = "idle" /\ version < MaxPublished
  /\ version' = version + 1
  /\ current' \in [ToSet(StageOrder) -> SUBSET FileNames]
  /\ publishAt' = "name"
  /\ unnamed' = Entries(current') /\ queue' = << >>
  /\ UNCHANGED <<final, staging, previewing, deaths>>

\* deliverables: the next file is given the name it is published under.
PublishNames ==
  /\ publishAt = "name" /\ unnamed # << >>
  /\ queue' = Added(queue, Head(unnamed))
  /\ unnamed' = Tail(unnamed)
  /\ UNCHANGED <<current, version, final, staging, publishAt, previewing, deaths>>

\* publishOutputs with nothing to publish leaves what was published; otherwise
\* what an earlier one left in the staging directory is removed.
PublishPlans ==
  /\ publishAt = "name" /\ unnamed = << >>
  /\ \/ queue = << >> /\ publishAt' = "idle" /\ UNCHANGED staging
     \/ queue # << >> /\ publishAt' = "copy" /\ staging' = {}
  /\ UNCHANGED <<current, version, final, unnamed, queue, previewing, deaths>>

\* PublishOutputs: a copy into the staging directory, or a failure that
\* removes it.  Two files of one name are refused.
PublishCopies ==
  /\ publishAt = "copy" /\ queue # << >>
  /\ \/ /\ \A f \in staging : f.name # Head(queue).name
        /\ staging' = staging \cup {Head(queue)}
        /\ queue' = Tail(queue)
        /\ publishAt' = IF queue' = << >> THEN "clear" ELSE "copy"
     \/ /\ staging' = {} /\ queue' = << >> /\ publishAt' = "idle"
  /\ UNCHANGED <<current, version, final, unnamed, previewing, deaths>>

\* A mutant: the new files are moved over the old ones.
PublishClearsNothing ==
  /\ publishAt = "clear"
  /\ publishAt' = "swap"
  /\ UNCHANGED <<current, version, final, staging, unnamed, queue, previewing, deaths>>

\* RemoveAll of the directory that is there, file by file.  When one cannot be
\* removed, the rest stays and the new set is thrown away.
PublishClears ==
  /\ publishAt = "clear"
  /\ \/ final = {} /\ publishAt' = "swap" /\ UNCHANGED <<final, staging>>
     \/ /\ \E f \in final : final' = final \ {f}
        /\ UNCHANGED <<publishAt, staging>>
     \/ final # {} /\ publishAt' = "idle" /\ staging' = {} /\ UNCHANGED final
  /\ UNCHANGED <<current, version, unnamed, queue, previewing, deaths>>

\* The rename that puts the new set in its place, or fails and removes it.
PublishSwaps ==
  /\ publishAt = "swap"
  /\ final' \in {final \cup staging, {}}
  /\ staging' = {}
  /\ publishAt' = "idle"
  /\ UNCHANGED <<current, version, unnamed, queue, previewing, deaths>>

\* RemoveFileGroup for the output, refused while a run is in progress.
RemoveOutput ==
  /\ publishAt = "idle" /\ final # {}
  /\ final' = {}
  /\ UNCHANGED <<current, version, staging, unnamed, queue, publishAt, previewing, deaths>>

-----------------------------------------------------------------------------
(* The editor's preview.                                                   *)

\* A mutant: the status of a preview that is there is not looked up.
PreviewLooksTwice(v) ==
  /\ viewer[v] = "idle"
  /\ viewer' = [viewer EXCEPT ![v] = IF preview = {} THEN "lock" ELSE "ready"]
  /\ UNCHANGED <<publishing, status, makers, temporary, preview, deaths>>

\* startEditorPreview: a preview that is there is answered with.
PreviewLooks(v) ==
  /\ viewer[v] = "idle"
  /\ viewer' = [viewer EXCEPT ![v] = IF preview = {} THEN "lock" ELSE "done"]
  /\ UNCHANGED <<publishing, status, makers, temporary, preview, deaths>>

\* A mutant: nothing asks whether a generator is running.
PreviewLocksAnyway(v) ==
  /\ viewer[v] = "lock"
  /\ viewer' = [viewer EXCEPT ![v] = "done"]
  /\ status' = "running"
  /\ makers' = [makers EXCEPT ![v] = "begun"]
  /\ UNCHANGED <<publishing, temporary, preview, deaths>>

\* Under previewMu: one that is being made is waited for, otherwise a generator
\* starts on a goroutine of its own.
PreviewLocks(v) ==
  /\ viewer[v] = "lock"
  /\ viewer' = [viewer EXCEPT ![v] = "done"]
  /\ IF status = "running" THEN UNCHANGED <<status, makers>>
     ELSE status' = "running" /\ makers' = [makers EXCEPT ![v] = "begun"]
  /\ UNCHANGED <<publishing, temporary, preview, deaths>>

\* GenerateEditorPreview: what a previous generator left is removed.
PreviewOpens(v) ==
  /\ makers[v] = "begun"
  /\ temporary' = {}
  /\ makers' = [makers EXCEPT ![v] = "writing"]
  /\ UNCHANGED <<publishing, viewer, status, preview, deaths>>

\* FFmpeg writes the temporary file and reports progress, which stores running.
PreviewWrites(v) ==
  /\ makers[v] = "writing"
  /\ temporary' = temporary \cup {v}
  /\ status' = "running"
  /\ makers' \in {makers, [makers EXCEPT ![v] = "written"]}
  /\ UNCHANGED <<publishing, viewer, preview, deaths>>

\* The rename, then the status.
PreviewRenames(v) ==
  /\ makers[v] = "written"
  /\ IF temporary = {} THEN status' = "failed" /\ UNCHANGED preview
     ELSE status' = "ready" /\ preview' = temporary
  /\ temporary' = {}
  /\ makers' = [makers EXCEPT ![v] = "none"]
  /\ UNCHANGED <<publishing, viewer, deaths>>

\* The source cannot be probed or FFmpeg fails.
PreviewFails(v) ==
  /\ makers[v] \in {"begun", "writing"}
  /\ temporary' = IF makers[v] = "writing" THEN {} ELSE temporary
  /\ status' = "failed"
  /\ makers' = [makers EXCEPT ![v] = "none"]
  /\ UNCHANGED <<publishing, viewer, preview, deaths>>

\* RemoveFileGroup for the artifacts, whose directory holds the preview.  The
\* status is not told.
RemovePreview ==
  /\ publishAt = "idle" /\ preview \cup temporary # {}
  /\ preview' = {} /\ temporary' = {}
  /\ UNCHANGED <<publishing, viewer, status, makers, deaths>>

-----------------------------------------------------------------------------

\* The process dies and another one starts.
OutputsRestart ==
  /\ deaths < MaxDeaths
  /\ deaths' = deaths + 1
  /\ publishAt' = "idle" /\ unnamed' = << >> /\ queue' = << >>
  /\ status' = "missing"
  /\ makers' = [v \in Viewers |-> "none"]
  /\ viewer' = [v \in Viewers |-> IF viewer[v] = "lock" THEN "done" ELSE viewer[v]]
  /\ UNCHANGED <<current, version, final, staging, temporary, preview>>

OutputsNext ==
  \/ RunPublishes \/ PublishNames \/ PublishPlans \/ PublishCopies \/ PublishClears \/ PublishSwaps
  \/ RemoveOutput \/ RemovePreview \/ OutputsRestart
  \/ \E v \in Viewers : \/ PreviewLooks(v) \/ PreviewLocks(v) \/ PreviewOpens(v)
                        \/ PreviewWrites(v) \/ PreviewRenames(v) \/ PreviewFails(v)

OutputsSpec == OutputsInit /\ [][OutputsNext]_outputVars

-----------------------------------------------------------------------------
(* Properties *)

\* Whatever fails or dies while a run publishes, the output directory never
\* mixes the files of two runs.
OutputsAreOfOneRun == \A f, g \in final : f.version = g.version

\* No two stages publish under one name, and a file that is published first
\* under its own name keeps it: nothing a run delivers is refused because two
\* stages chose the same file name.
NamesAreDistinct ==
  \A i, j \in DOMAIN queue : queue[i].name = queue[j].name => i = j

\* A preview that can be watched was written by one generator from beginning to
\* end, whatever requests, removals and restarts interleave.
PreviewIsWhole == \A v, w \in preview : v = w

\* What a project hands out is of one run, under one name each, and whole.
HandsOutWholes == OutputsAreOfOneRun /\ NamesAreDistinct /\ PreviewIsWhole
=============================================================================
