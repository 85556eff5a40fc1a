------------------------------- MODULE Models -------------------------------
(***************************************************************************)
(* One model of the catalogue: its directory, the downloads that fill it   *)
(* (models.Service.Download, HFClient.DownloadFile), its deletion, and the *)
(* row that caches the last scan.                                          *)
(*                                                                         *)
(* A file is the sequence of its chunks; a chunk is the endpoint it came   *)
(* from and its place in the file.  Downloads run in the background, are   *)
(* resumed from a .partial file, and end with the process.                 *)
(***************************************************************************)
EXTENDS Naturals, Sequences

CONSTANTS
  RepoFiles,  \* the files of the repository, in the order ListFiles sorts them
  FileSize,   \* chunks of each file
  Endpoints,  \* hubs the user may choose
  Fetches,    \* requests to download the model, each made once
  MaxKills    \* bound on the times the process ends

ASSUME ModelsAssumption ==
  /\ MaxKills \in Nat
  /\ RepoFiles \in Seq(DOMAIN FileSize) /\ RepoFiles # << >> \* ListFiles refuses an empty repository
  /\ \A f \in DOMAIN FileSize : FileSize[f] \in Nat \ {0}

VARIABLES
  folder,      \* the published files
  partials,    \* the .partial files
  endpoint,    \* the hub new downloads use
  downloading, \* Service.downloading holds this model
  fetch,       \* each download: where it is, its hub, its file, its handle
  disturbed,   \* downloads during which the model was deleted
  record,      \* the status in model_records
  kills

modelsVars == <<folder, partials, endpoint, downloading, fetch, disturbed, record, kills>>

ModelFiles == {RepoFiles[k] : k \in 1 .. Len(RepoFiles)}
Absent == << <<"absent", 0>> >>
Empty == [f \in ModelFiles |-> Absent]
Waiting == [at |-> "idle", hub |-> "", k |-> 0, written |-> 0, linked |-> TRUE]
Complete(content, f) ==
  /\ Len(content) = FileSize[f]
  /\ \A p \in 1 .. Len(content) : content[p][2] = p

\* Service.measure: weights make a directory loadable.
HasWeights(files) == files["weights"] # Absent

\* Service.inspect
Inspected(files, parts) ==
  CASE files = Empty /\ parts = Empty -> "missing"
    [] HasWeights(files) -> "ready"
    [] OTHER -> "error"

ModelsInit ==
  /\ folder = Empty /\ partials = Empty
  /\ endpoint \in Endpoints
  /\ downloading = FALSE
  /\ fetch = [d \in Fetches |-> Waiting]
  /\ disturbed = {}
  /\ record = "missing"
  /\ kills = 0

SetEndpoint(hub) ==
  /\ endpoint # hub /\ endpoint' = hub
  /\ UNCHANGED <<folder, partials, downloading, fetch, disturbed, record, kills>>

\* persist: the cached status of the model.
Persist(status) == record' = status

\* Service.List: a scan, which caches what it found.
Scan ==
  /\ Persist(Inspected(folder, partials))
  /\ record' # record
  /\ UNCHANGED <<folder, partials, endpoint, downloading, fetch, disturbed, kills>>

\* A mutant: a download does not look for another one's claim.
DownloadBeginsAnyway(d) ==
  /\ fetch[d].at = "idle"
  /\ fetch' = [fetch EXCEPT ![d] = [Waiting EXCEPT !.at = "file", !.hub = endpoint, !.k = 1]]
  /\ downloading' = TRUE
  /\ UNCHANGED <<folder, partials, endpoint, disturbed, record, kills>>

\* Service.Download: the model is claimed, the client is taken once, the files
\* are listed.  A download that is refused for space or cannot list releases
\* its claim.
DownloadBegins(d) ==
  /\ fetch[d].at = "idle"
  /\ \/ /\ downloading
        /\ fetch' = [fetch EXCEPT ![d].at = "busy"]
        /\ UNCHANGED downloading
     \/ /\ ~downloading
        /\ fetch' = [fetch EXCEPT ![d] = [Waiting EXCEPT !.at = "file", !.hub = endpoint, !.k = 1]]
        /\ downloading' = TRUE
     \/ /\ ~downloading
        /\ fetch' = [fetch EXCEPT ![d].at = "failed"]
        /\ UNCHANGED downloading
  /\ UNCHANGED <<folder, partials, endpoint, disturbed, record, kills>>

Written(content) == IF content = Absent THEN 0 ELSE Len(content)
Fails(d) == fetch' = [fetch EXCEPT ![d].at = "failed"] /\ downloading' = FALSE
RepoFile(d) == RepoFiles[fetch[d].k]

\* DownloadFile before its request: the directory is made, and the .partial file
\* says where to resume.
FileStats(d) ==
  /\ fetch[d].at = "file"
  /\ fetch' = [fetch EXCEPT ![d].at = "asked", ![d].linked = TRUE, ![d].written = Written(partials[RepoFile(d)])]
  /\ UNCHANGED <<folder, partials, endpoint, downloading, disturbed, record, kills>>

\* The hub has answered, and the file is opened.  A hub that ignores the range
\* sends the whole file and the partial one is truncated; a range that starts at
\* the end of the file is refused (416); there is nothing to open when the
\* directory was removed meanwhile.
FileOpens(d, honoured) ==
  /\ fetch[d].at = "asked"
  /\ LET f == RepoFile(d)
         offset == fetch[d].written
     IN \/ /\ ~fetch[d].linked \/ (honoured /\ offset = FileSize[f])
           /\ Fails(d)
           /\ UNCHANGED partials
        \/ /\ fetch[d].linked
           /\ honoured => offset \in 1 .. FileSize[f] - 1
           /\ fetch' = [fetch EXCEPT ![d].at = "writing", ![d].written = IF honoured THEN offset ELSE 0]
           /\ partials' = [partials EXCEPT ![f] = IF honoured THEN @ ELSE <<>>]
           /\ UNCHANGED downloading
  /\ UNCHANGED <<folder, endpoint, disturbed, record, kills>>

\* One chunk arrives and is written.
FileReads(d) ==
  /\ fetch[d].at = "writing"
  /\ fetch[d].written < FileSize[RepoFile(d)]
  /\ fetch' = [fetch EXCEPT ![d].written = @ + 1]
  /\ partials' = IF fetch[d].linked
                 THEN [partials EXCEPT ![RepoFile(d)] = Append(@, <<fetch[d].hub, fetch[d].written + 1>>)]
                 ELSE partials
  /\ UNCHANGED <<folder, endpoint, downloading, disturbed, record, kills>>

\* A mutant: a file that breaks off is passed over.
FileBreaksAndSkips(d) ==
  /\ fetch[d].at \in {"file", "asked", "writing"}
  /\ fetch' = [fetch EXCEPT ![d].at = IF fetch[d].k = Len(RepoFiles) THEN "fetched" ELSE "file", ![d].k = @ + 1]
  /\ UNCHANGED <<folder, partials, endpoint, downloading, disturbed, record, kills>>

\* The connection drops, the disk is full, or the hub answers with an error.
FileBreaks(d) ==
  /\ fetch[d].at \in {"file", "asked", "writing"}
  /\ Fails(d)
  /\ UNCHANGED <<folder, partials, endpoint, disturbed, record, kills>>

\* A mutant: a file is renamed before its last chunk.
FilePublishesEarly(d) ==
  /\ fetch[d].at = "writing" /\ fetch[d].linked
  /\ folder' = [folder EXCEPT ![RepoFile(d)] = partials[RepoFile(d)]]
  /\ partials' = [partials EXCEPT ![RepoFile(d)] = Absent]
  /\ fetch' = [fetch EXCEPT ![d].at = IF fetch[d].k = Len(RepoFiles) THEN "fetched" ELSE "file", ![d].k = @ + 1]
  /\ UNCHANGED <<endpoint, downloading, disturbed, record, kills>>

\* The end of DownloadFile: the partial file takes the file's name.  It cannot
\* when the directory was removed under it.  The code renames at any end of the
\* body, without comparing sizes: a body that ends early is an error of FileBreaks
\* because the HTTP client knows its length, or its last chunk, and reports it.
FilePublishes(d) ==
  /\ fetch[d].at = "writing"
  /\ fetch[d].written = FileSize[RepoFile(d)]
  /\ \/ /\ fetch[d].linked
        /\ folder' = [folder EXCEPT ![RepoFile(d)] = partials[RepoFile(d)]]
        /\ partials' = [partials EXCEPT ![RepoFile(d)] = Absent]
        /\ fetch' = [fetch EXCEPT ![d].at = IF fetch[d].k = Len(RepoFiles) THEN "fetched" ELSE "file",
                       ![d].k = @ + 1]
        /\ UNCHANGED downloading
     \/ /\ ~fetch[d].linked
        /\ Fails(d)
        /\ UNCHANGED <<folder, partials>>
  /\ UNCHANGED <<endpoint, disturbed, record, kills>>

\* The end of Download: without weights it is an error; then a scan, and the
\* deferred release.
DownloadEnds(d) ==
  /\ fetch[d].at = "fetched"
  /\ fetch' = [fetch EXCEPT ![d].at = IF HasWeights(folder) THEN "done" ELSE "failed"]
  /\ Persist(IF HasWeights(folder) THEN Inspected(folder, partials) ELSE record)
  /\ downloading' = FALSE
  /\ UNCHANGED <<folder, partials, endpoint, disturbed, kills>>

\* api.deleteModel and Service.Delete: refused while a job runs, not while a
\* download does.
DeleteModel ==
  /\ folder # Empty \/ partials # Empty
  /\ folder' = Empty /\ partials' = Empty
  /\ fetch' = [d \in Fetches |-> [fetch[d] EXCEPT !.linked = FALSE]]
  /\ disturbed' = disturbed \cup {d \in Fetches : fetch[d].at \notin {"idle", "busy", "failed"}}
  /\ Persist("missing")
  /\ UNCHANGED <<endpoint, downloading, kills>>

\* The process ends and starts again: claims and downloads are gone.
ProcessEnds ==
  /\ kills < MaxKills /\ kills' = kills + 1
  /\ downloading' = FALSE
  /\ fetch' = [d \in Fetches |-> IF fetch[d].at = "idle" THEN fetch[d] ELSE [Waiting EXCEPT !.at = "failed"]]
  /\ UNCHANGED <<folder, partials, endpoint, disturbed, record>>

ModelsNext ==
  \/ \E hub \in Endpoints : SetEndpoint(hub)
  \/ \E d \in Fetches :
       \/ DownloadBegins(d)
       \/ FileStats(d)
       \/ \E honoured \in BOOLEAN : FileOpens(d, honoured)
       \/ FileReads(d)
       \/ FileBreaks(d)
       \/ FilePublishes(d)
       \/ DownloadEnds(d)
  \/ Scan
  \/ DeleteModel
  \/ ProcessEnds

ModelsSpec == ModelsInit /\ [][ModelsNext]_modelsVars

(***************************************************************************)
(* Properties                                                              *)
(***************************************************************************)

\* Every variable has its type, and the model is claimed exactly while one
\* download is at work on it.
ModelsTypeOK ==
  /\ endpoint \in Endpoints /\ record \in {"missing", "error", "ready"} /\ kills \in 0 .. MaxKills
  /\ \A f \in ModelFiles : partials[f] = Absent \/ Len(partials[f]) <= FileSize[f]
  /\ downloading = \E d \in Fetches : fetch[d].at \in {"file", "asked", "writing", "fetched"}

\* A file that has its own name holds every chunk of it, in its place: through
\* resumed downloads, hubs that ignore the range, broken connections, a delete
\* and a restart in the middle.
PublishedFilesAreComplete ==
  \A f \in ModelFiles : folder[f] # Absent => Complete(folder[f], f)

\* A download that reports success leaves every file of the model, unless the
\* model was deleted while it ran.
DoneIsWhole ==
  \A d \in Fetches : fetch[d].at = "done" /\ d \notin disturbed => \A f \in ModelFiles : folder[f] # Absent

\* A file is published whole, and a download that succeeds has published all.
DownloadsAreWhole == PublishedFilesAreComplete /\ DoneIsWhole
=============================================================================
