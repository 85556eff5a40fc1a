------------------------------ MODULE Projects ------------------------------
(***************************************************************************)
(* Projects and uploads (internal/project, the handlers of api/handlers.go *)
(* and api/uploads.go, app.expireProjects, app.RemoveFileGroup): how the   *)
(* rows of the database, the project directories and the media a user      *)
(* hands over stay in step.                                                *)
(*                                                                         *)
(* A medium is followed from the user's hands to the directory it ends up  *)
(* in.  A row is written by one statement; a directory is created, filled  *)
(* and removed by calls of their own, and the process may die in between.  *)
(***************************************************************************)
EXTENDS Naturals, FiniteSets

CONSTANTS
  Ids,          \* the requests that create a project, each under its own identifier
  Media,        \* the media users upload or name by a path
  Languages,    \* the languages an edit may ask for
  Editors,      \* the requests that edit a project, each made once
  MaxRestarts   \* bound on the times the process dies and is started again

ASSUME ProjectsAssumption ==
  /\ MaxRestarts \in Nat
  /\ Ids \cap {"user", "part", "upload", "path", "thrown"} = {} \* an identifier is a generated one

VARIABLES
  place,     \* where a medium is
  stale,     \* the uploads older than uploadRetention
  projectRow, \* the row of a project
  tree,      \* the projects whose directory exists
  creating,  \* the state of the request that creates a project
  updating,  \* the state of a request that edits a project
  working,   \* the projects with a run in progress
  keeper,    \* the maintenance pass
  dropping,  \* the projects whose row is deleted and whose directory is still to go
  removing,  \* the removal of a project's source in progress
  excused,   \* history: projects whose row and directory may disagree
  restarts   \* the number of restarts

projectVars == <<place, stale, projectRow, tree, creating, updating, working, keeper,
                 dropping, removing, excused, restarts>>

User == [in |-> "user"]           \* with the user, who can send it again
Part == [in |-> "part"]           \* being written under uploads/
Staged == [in |-> "upload"]       \* complete under uploads/
Path == [in |-> "path"]           \* a file of the server's machine
Thrown == [in |-> "thrown"]       \* removed
InProject(p) == [in |-> p]

NoRow == [there |-> FALSE, source |-> FALSE, from |-> "", to |-> "", idle |-> FALSE]
NoUpdate == [at |-> "idle", id |-> "", read |-> NoRow]
NoPass == [at |-> "asleep", left |-> {}, id |-> ""]

ProjectsTypeOK ==
  /\ place \in [Media -> {User, Part, Staged, Path, Thrown}
                           \cup {InProject(p) : p \in Ids}]
  /\ stale \subseteq Media
  /\ \A p \in Ids : projectRow[p].there => {projectRow[p].from, projectRow[p].to} \subseteq Languages \cup {"ja", "zh"}
  /\ tree \subseteq Ids
  /\ \A p \in Ids : creating[p].at \in {"new", "place", "insert", "tidy", "done"}
  /\ \A e \in Editors : updating[e].at \in {"idle", "write", "done"}
  /\ working \subseteq Ids
  /\ keeper.at \in {"asleep", "next", "delete"} /\ keeper.left \subseteq Ids
  /\ dropping \subseteq Ids /\ removing \in [Ids -> {"none", "source", "path"}]
  /\ restarts \in 0..MaxRestarts

ProjectsInit ==
  /\ place \in [Media -> {User, Path}]
  /\ stale = {}
  /\ projectRow = [p \in Ids |-> NoRow]
  /\ tree = {}
  /\ creating = [p \in Ids |-> [at |-> "new", of |-> ""]]
  /\ updating = [e \in Editors |-> NoUpdate]
  /\ working = {}
  /\ keeper = NoPass
  /\ dropping = {}
  /\ removing = [p \in Ids |-> "none"]
  /\ excused = {}
  /\ restarts = 0

-----------------------------------------------------------------------------
(* Uploads.                                                                *)

rowsAndRuns == <<projectRow, tree, updating, working, keeper, dropping, removing, excused, restarts>>

\* createUpload and Stage up to the first byte.
UploadBegins(m) ==
  /\ place[m] = User
  /\ place' = [place EXCEPT ![m] = Part]
  /\ stale' = stale \ {m}
  /\ UNCHANGED <<creating, rowsAndRuns>>

\* writeLimited: the body arrives whole, or it breaks off or is over the limit
\* and what was written is removed.  Either way the user still has the medium.
UploadEnds(m) ==
  /\ place[m] = Part
  /\ place' \in {[place EXCEPT ![m] = Staged], [place EXCEPT ![m] = User]}
  /\ UNCHANGED <<stale, creating, rowsAndRuns>>

\* deleteUpload, with the identifier Stage returned.
UploadDiscarded(m) ==
  /\ place[m] = Staged
  /\ place' = [place EXCEPT ![m] = Thrown]
  /\ UNCHANGED <<stale, creating, rowsAndRuns>>

\* A day passes.
UploadAges(m) ==
  /\ place[m] = Staged /\ m \notin stale
  /\ stale' = stale \cup {m}
  /\ UNCHANGED <<place, creating, rowsAndRuns>>

-----------------------------------------------------------------------------
(* Creating a project.                                                     *)

\* Removing a directory removes the medium in it.
Emptied(p) ==
  [m \in Media |-> IF place[m] = InProject(p) THEN Thrown ELSE place[m]]

Created(p) == [creating EXCEPT ![p] = [at |-> "done", of |-> ""]]

\* scaffold: the directories of a project.
Scaffold(p) == tree' = tree \cup {p}

\* createProject: resolveSource finds the upload or the path, validateCreate
\* accepts the fields, and scaffold makes the directories.  When it cannot make
\* all of them, those it made stay.
CreateBegins(p) ==
  /\ creating[p].at = "new"
  /\ \E m \in Media :
       /\ place[m] \in {Staged, Path}
       /\ \/ creating' = [creating EXCEPT ![p] = [at |-> "place", of |-> m]] /\ UNCHANGED excused
          \/ creating' = Created(p) /\ excused' = excused \cup {p}
  /\ Scaffold(p)
  /\ UNCHANGED <<place, stale, projectRow, updating, working, keeper, dropping, removing, restarts>>

\* placeSource: the medium is moved into the directory.  When it has gone,
\* taken by another request or discarded, the directory is removed again.
CreatePlaces(p) ==
  LET m == creating[p].of
  IN  /\ creating[p].at = "place"
      /\ IF place[m] \in {Staged, Path}
         THEN /\ place' = [place EXCEPT ![m] = InProject(p)]
              /\ creating' = [creating EXCEPT ![p].at = "insert"]
              /\ UNCHANGED tree
         ELSE /\ tree' = tree \ {p}
              /\ creating' = Created(p)
              /\ UNCHANGED place
      /\ UNCHANGED <<stale, projectRow, updating, working, keeper, dropping, removing, excused, restarts>>

InsertRow(p) ==
  /\ projectRow' = [projectRow EXCEPT ![p] = [there |-> TRUE, source |-> TRUE, from |-> "ja", to |-> "zh",
                                idle |-> FALSE]]
  /\ creating' = [creating EXCEPT ![p].at = "tidy"]
  /\ UNCHANGED <<place, tree>>

\* A mutant: a row that could not be inserted leaves its directory behind.
CreateInsertsOrLeaves(p) ==
  /\ creating[p].at = "insert"
  /\ InsertRow(p) \/ (creating' = Created(p) /\ UNCHANGED <<place, tree, projectRow>>)
  /\ UNCHANGED <<stale, updating, working, keeper, dropping, removing, excused, restarts>>

\* Create: the row is inserted, or cannot be and the directory is removed with
\* the medium that was moved into it.
CreateInserts(p) ==
  /\ creating[p].at = "insert"
  /\ \/ InsertRow(p)
     \/ /\ place' = Emptied(p)
        /\ tree' = tree \ {p}
        /\ creating' = Created(p)
        /\ UNCHANGED projectRow
  /\ UNCHANGED <<stale, updating, working, keeper, dropping, removing, excused, restarts>>

\* createProject: the upload's own directory, empty by now, is removed.
CreateTidies(p) ==
  LET m == creating[p].of
  IN  /\ creating[p].at = "tidy"
      /\ place' = IF place[m] = Staged THEN [place EXCEPT ![m] = Thrown] ELSE place
      /\ creating' = Created(p)
      /\ UNCHANGED <<stale, rowsAndRuns>>

-----------------------------------------------------------------------------
(* Editing a project.                                                      *)

mediaAndRuns == <<place, stale, tree, creating, working, keeper, dropping, removing, excused, restarts>>

\* A mutant: a field that was cleared is stored empty.
UpdateReadsCleared(e) ==
  /\ updating[e].at = "idle"
  /\ \E p \in Ids :
       /\ projectRow[p].there
       /\ updating' = [updating EXCEPT ![e] =
                         [at |-> "write", id |-> p, read |-> [projectRow[p] EXCEPT !.from = ""]]]
  /\ UNCHANGED <<projectRow, mediaAndRuns>>

\* Update reads the row and takes over the field it is given.
UpdateReads(e) ==
  /\ updating[e].at = "idle"
  /\ \E p \in Ids, field \in {"from", "to"}, value \in Languages :
       /\ projectRow[p].there
       /\ updating' = [updating EXCEPT ![e] =
            [at |-> "write", id |-> p,
             read |-> IF field = "from" THEN [projectRow[p] EXCEPT !.from = value]
                      ELSE [projectRow[p] EXCEPT !.to = value]]]
  /\ UNCHANGED <<projectRow, mediaAndRuns>>

Answered(e) == [updating EXCEPT ![e] = [NoUpdate EXCEPT !.at = "done"]]

\* validateFields: source and target language differ.
ValidFields(r) == r.from # r.to

\* A mutant: only the field that was asked for is stored.
UpdateWritesField(e) ==
  LET new == updating[e].read
      p == updating[e].id
  IN  /\ updating[e].at = "write"
      /\ projectRow' \in IF ValidFields(new) /\ projectRow[p].there
                  THEN {[projectRow EXCEPT ![p].from = new.from], [projectRow EXCEPT ![p].to = new.to]}
                  ELSE {projectRow}
      /\ updating' = Answered(e)
      /\ UNCHANGED mediaAndRuns

\* validateFields judges what was read with what was asked, and every field is
\* written back.  A row that has gone since is no error.
UpdateWrites(e) ==
  LET new == updating[e].read
      p == updating[e].id
  IN  /\ updating[e].at = "write"
      /\ projectRow' = IF ValidFields(new) /\ projectRow[p].there
                THEN [projectRow EXCEPT ![p].from = new.from, ![p].to = new.to, ![p].idle = FALSE]
                ELSE projectRow
      /\ updating' = Answered(e)
      /\ UNCHANGED mediaAndRuns

\* Weeks pass without anyone touching the project.
ProjectIdles(p) ==
  /\ projectRow[p].there /\ ~projectRow[p].idle
  /\ projectRow' = [projectRow EXCEPT ![p].idle = TRUE]
  /\ UNCHANGED <<updating, mediaAndRuns>>

\* A run begins, as far as its job row and the scheduler are concerned, and ends.
RunBegins(p) ==
  /\ projectRow[p].there /\ p \notin working
  /\ projectRow' = [projectRow EXCEPT ![p].idle = FALSE]
  /\ working' = working \cup {p}
  /\ UNCHANGED <<place, stale, tree, creating, updating, keeper, dropping, removing, excused,
                 restarts>>

\* The run writes below its project's directory until it ends, whether or not
\* the project has been deleted meanwhile.
RunWrites(p) ==
  /\ p \in working
  /\ tree' = tree \cup {p}
  /\ excused' = IF projectRow[p].there THEN excused ELSE excused \cup {p}
  /\ UNCHANGED <<place, stale, projectRow, creating, updating, working, keeper, dropping, removing,
                 restarts>>

RunStops(p) ==
  /\ p \in working
  /\ working' = working \ {p}
  /\ UNCHANGED <<place, stale, projectRow, tree, creating, updating, keeper, dropping, removing,
                 excused, restarts>>

-----------------------------------------------------------------------------
(* Deleting a project, its source, and what has not been touched for long. *)

creation == <<stale, creating, updating, working, restarts>>

\* Delete: the row goes first, with everything that references it; then, when
\* the caller asked for it, the directory.
DeleteRow(p, files) ==
  /\ projectRow[p].there
  /\ projectRow' = [projectRow EXCEPT ![p] = NoRow]
  /\ dropping' = IF files THEN dropping \cup {p} ELSE dropping
  /\ excused' = IF files THEN excused ELSE excused \cup {p}

\* deleteProject: nothing asks whether a run is in progress.
Delete(p) ==
  /\ \E files \in BOOLEAN : DeleteRow(p, files)
  /\ UNCHANGED <<place, tree, keeper, removing, creation>>

DeleteFiles(p) ==
  /\ p \in dropping
  /\ tree' = tree \ {p}
  /\ place' = Emptied(p)
  /\ dropping' = dropping \ {p}
  /\ UNCHANGED <<projectRow, keeper, removing, excused, creation>>

\* RemoveFileGroup for the source: refused while a run is in progress.
RemoveSource(p) ==
  /\ projectRow[p].there /\ removing[p] = "none"
  /\ p \notin working
  /\ removing' = [removing EXCEPT ![p] = "source"]
  /\ UNCHANGED <<place, projectRow, tree, keeper, dropping, excused, creation>>

\* A mutant: the row keeps the path of the source.
ClearSourcePathNot(p) ==
  /\ removing[p] = "path"
  /\ removing' = [removing EXCEPT ![p] = "none"]
  /\ UNCHANGED <<place, projectRow, tree, keeper, dropping, excused, creation>>

\* RemoveGroup: the files go first.
RemoveSourceFiles(p) ==
  /\ removing[p] = "source"
  /\ place' = Emptied(p)
  /\ removing' = [removing EXCEPT ![p] = "path"]
  /\ UNCHANGED <<projectRow, tree, keeper, dropping, excused, creation>>

\* ClearSourcePath: then the row forgets them, unless it is gone.
ClearSourcePath(p) ==
  /\ removing[p] = "path"
  /\ projectRow' = IF projectRow[p].there THEN [projectRow EXCEPT ![p].source = FALSE, ![p].idle = FALSE] ELSE projectRow
  /\ removing' = [removing EXCEPT ![p] = "none"]
  /\ UNCHANGED <<place, tree, keeper, dropping, excused, creation>>

\* expireProjects: IdleSince lists the projects nothing has touched.
KeeperLists ==
  /\ keeper.at = "asleep"
  /\ {p \in Ids : projectRow[p].there /\ projectRow[p].idle} # {}
  /\ keeper' = [at |-> "next", left |-> {p \in Ids : projectRow[p].there /\ projectRow[p].idle}, id |-> ""]
  /\ UNCHANGED <<place, projectRow, tree, dropping, removing, excused, creation>>

\* One that is running is skipped.
KeeperTakes(p) ==
  /\ keeper.at = "next" /\ p \in keeper.left
  /\ keeper' = [keeper EXCEPT !.left = @ \ {p}, !.at = IF p \in working THEN @ ELSE "delete",
                              !.id = IF p \in working THEN @ ELSE p]
  /\ UNCHANGED <<place, projectRow, tree, dropping, removing, excused, creation>>

\* Delete with its files; a row that has gone is an error the pass logs.
KeeperDeletes ==
  /\ keeper.at = "delete"
  /\ DeleteRow(keeper.id, TRUE) \/ (~projectRow[keeper.id].there /\ UNCHANGED <<projectRow, dropping, excused>>)
  /\ keeper' = [keeper EXCEPT !.at = "next", !.id = ""]
  /\ UNCHANGED <<place, tree, removing, creation>>

KeeperSleeps ==
  /\ keeper.at = "next" /\ keeper.left = {}
  /\ keeper' = NoPass
  /\ UNCHANGED <<place, projectRow, tree, dropping, removing, excused, creation>>

-----------------------------------------------------------------------------

\* The process dies and another one starts.  What was half done stays so; the
\* new process sweeps the uploads that are too old.
Restart ==
  /\ restarts < MaxRestarts
  /\ restarts' = restarts + 1
  /\ place' = [m \in Media |-> IF place[m] = Part THEN User
                               ELSE IF place[m] = Staged /\ m \in stale THEN Thrown
                               ELSE place[m]]
  /\ excused' = excused \cup {p \in Ids : creating[p].at \in {"place", "insert"}}
                        \cup {p \in Ids : removing[p] # "none" \/ p \in dropping}
  /\ creating' = [p \in Ids |-> IF creating[p].at = "new" THEN creating[p]
                                 ELSE [at |-> "done", of |-> ""]]
  /\ updating' = [e \in Editors |-> IF updating[e].at = "idle" THEN NoUpdate
                                     ELSE [NoUpdate EXCEPT !.at = "done"]]
  /\ working' = {}
  /\ keeper' = NoPass
  /\ dropping' = {}
  /\ removing' = [p \in Ids |-> "none"]
  /\ UNCHANGED <<stale, projectRow, tree>>

ProjectsNext ==
  \/ \E m \in Media :
       \/ UploadBegins(m) \/ UploadEnds(m) \/ UploadDiscarded(m) \/ UploadAges(m)
  \/ \E p \in Ids :
       \/ CreateBegins(p) \/ CreatePlaces(p) \/ CreateInserts(p) \/ CreateTidies(p)
       \/ ProjectIdles(p) \/ RunBegins(p) \/ RunWrites(p) \/ RunStops(p)
       \/ Delete(p) \/ DeleteFiles(p)
       \/ RemoveSource(p) \/ RemoveSourceFiles(p) \/ ClearSourcePath(p)
       \/ KeeperTakes(p)
  \/ \E e \in Editors : UpdateReads(e) \/ UpdateWrites(e)
  \/ KeeperLists \/ KeeperDeletes \/ KeeperSleeps
  \/ Restart

ProjectsSpec == ProjectsInit /\ [][ProjectsNext]_projectVars

-----------------------------------------------------------------------------
(* Properties *)

\* The data tree matches the database: outside of a creation or a deletion in
\* progress, a directory without a row is one that was kept on request, that a
\* run recreated after its project was deleted, or that a crash or a disk on
\* which not all directories could be made left behind.
NoOrphanDirectory ==
  \A p \in tree \ excused :
    \/ projectRow[p].there \/ p \in dropping
    \/ creating[p].at \in {"place", "insert"}

\* A row that names a source has it, through concurrent deletions, removals,
\* edits and expiry: only a removal in progress, or one a crash cut short, has
\* taken it away.
SourceIsWhereTheRowSays ==
  \A p \in Ids \ excused :
    projectRow[p].there /\ projectRow[p].source /\ removing[p] # "path" =>
      p \in tree /\ \E m \in Media : place[m] = InProject(p)

\* No sequence of edits, however they interleave, leaves a project with the
\* same language on both sides: each edit changes one field and is judged
\* against values that may be stale by the time it is stored.
LanguagesDiffer ==
  \A p \in Ids : projectRow[p].there => projectRow[p].from # projectRow[p].to

\* Rows, directories and media agree.
RowsMatchTheDisk == NoOrphanDirectory /\ SourceIsWhereTheRowSays /\ LanguagesDiffer
=============================================================================
