----------------------------- MODULE DiskProofs -----------------------------
(***************************************************************************)
(* What the program keeps on disk besides the artifacts, for any number of *)
(* files, requests, projects and crashes: the files of a model, the rows   *)
(* and directories of the projects, the outputs and previews handed out.   *)
(* The three share no state.                                               *)
(***************************************************************************)
EXTENDS Models, Projects, Outputs, SequenceTheorems, TLAPS

-----------------------------------------------------------------------------
(* Downloads of a model. *)

\* The chunks of a file from the first one on, without a gap.
Prefix(content, f) ==
  /\ content \in Seq(Endpoints \X Nat)
  /\ Len(content) <= FileSize[f]
  /\ \A p \in 1 .. Len(content) : content[p][2] = p

AtWork == {"file", "asked", "writing", "fetched"}

DownloadStates == [at : AtWork \cup {"idle", "busy", "failed", "done"}, hub : Endpoints \cup {""},
                   k : Nat, written : Nat, linked : BOOLEAN]

ModelsTypes ==
  /\ DOMAIN folder = ModelFiles /\ DOMAIN partials = ModelFiles
  /\ endpoint \in Endpoints
  /\ downloading \in BOOLEAN
  /\ fetch \in [Fetches -> DownloadStates]

\* What a .partial file holds can be resumed: it is the beginning of the file.
PartialsResume == \A f \in ModelFiles : partials[f] = Absent \/ Prefix(partials[f], f)

\* The model is claimed while a download is at work on it, by that one alone.
ClaimedByOne ==
  /\ \A d \in Fetches : fetch[d].at \in AtWork => downloading
  /\ \A d, e \in Fetches : fetch[d].at \in AtWork /\ fetch[e].at \in AtWork => d = e

\* A download knows where it is: in which file, how much of it the file it
\* writes to holds, and that the files before are published.
KnowsItsPlace(d) ==
  /\ fetch[d].at \in AtWork => fetch[d].hub \in Endpoints
  /\ fetch[d].at \in {"file", "asked", "writing"} => fetch[d].k \in 1 .. Len(RepoFiles)
  /\ fetch[d].at = "asked" /\ fetch[d].linked => fetch[d].written = Written(partials[RepoFile(d)])
  /\ fetch[d].at = "writing" =>
       /\ fetch[d].written <= FileSize[RepoFile(d)]
       /\ fetch[d].linked => /\ partials[RepoFile(d)] # Absent
                             /\ Len(partials[RepoFile(d)]) = fetch[d].written
  /\ fetch[d].at \in {"file", "asked", "writing"} /\ d \notin disturbed =>
       \A j \in 1 .. fetch[d].k - 1 : folder[RepoFiles[j]] # Absent
  /\ fetch[d].at \in {"fetched", "done"} /\ d \notin disturbed => \A f \in ModelFiles : folder[f] # Absent

ModelsInv == ModelsTypes /\ PartialsResume /\ ClaimedByOne /\ (\A d \in Fetches : KnowsItsPlace(d))
             /\ PublishedFilesAreComplete

LEMMA RepoFacts ==
  /\ Len(RepoFiles) \in Nat \ {0}
  /\ \A k \in 1 .. Len(RepoFiles) : RepoFiles[k] \in ModelFiles /\ FileSize[RepoFiles[k]] \in Nat \ {0}
  /\ \A f \in ModelFiles : \E k \in 1 .. Len(RepoFiles) : f = RepoFiles[k]
<1>1. RepoFiles \in Seq(DOMAIN FileSize) /\ RepoFiles # << >>
  BY ModelsAssumption
<1>2. Len(RepoFiles) \in Nat \ {0}
  BY <1>1
<1>3. \A k \in 1 .. Len(RepoFiles) : RepoFiles[k] \in DOMAIN FileSize
  BY <1>1
<1> QED
  BY <1>2, <1>3, ModelsAssumption DEF ModelFiles

LEMMA PrefixIsNotAbsent == \A content, f : Prefix(content, f) => content # Absent
<1> SUFFICES ASSUME NEW f, Prefix(Absent, f) PROVE FALSE
  OBVIOUS
<1>1. Len(Absent) = 1 /\ Absent[1] = <<"absent", 0>>
  BY DEF Absent
<1>2. Absent[1][2] = 1
  BY <1>1 DEF Prefix
<1> QED
  BY <1>1, <1>2

\* The beginning of a file grows by its next chunk.
LEMMA PrefixGrows ==
  ASSUME NEW f, NEW content, Prefix(content, f), NEW hub \in Endpoints, Len(content) < FileSize[f],
         FileSize[f] \in Nat
  PROVE  Prefix(Append(content, <<hub, Len(content) + 1>>), f)
<1> DEFINE chunk == <<hub, Len(content) + 1>>
           longer == Append(content, chunk)
<1>1. content \in Seq(Endpoints \X Nat) /\ Len(content) \in Nat /\ chunk \in Endpoints \X Nat
  BY DEF Prefix
<1>2. /\ longer \in Seq(Endpoints \X Nat) /\ Len(longer) = Len(content) + 1
      /\ longer[Len(content) + 1] = chunk
      /\ \A p \in 1 .. Len(content) : longer[p] = content[p]
  BY <1>1
<1>3. \A p \in 1 .. Len(longer) : longer[p][2] = p
  <2> SUFFICES ASSUME NEW p \in 1 .. Len(longer) PROVE longer[p][2] = p
    OBVIOUS
  <2>1. CASE p \in 1 .. Len(content)
    BY <1>2, <2>1 DEF Prefix
  <2>2. CASE p = Len(content) + 1
    BY <1>2, <2>2
  <2> QED
    BY <1>1, <1>2, <2>1, <2>2
<1> QED
  BY <1>1, <1>2, <1>3 DEF Prefix

LEMMA ModelsBegin == ModelsInit => ModelsInv
<1> SUFFICES ASSUME ModelsInit PROVE ModelsInv
  OBVIOUS
<1>1. ModelsTypes
  BY DEF ModelsInit, ModelsTypes, DownloadStates, Empty, Waiting, AtWork
<1>2. PartialsResume /\ PublishedFilesAreComplete
  BY DEF ModelsInit, PartialsResume, PublishedFilesAreComplete, Empty
<1>3. ClaimedByOne /\ \A d \in Fetches : KnowsItsPlace(d)
  BY DEF ModelsInit, ClaimedByOne, KnowsItsPlace, Waiting, AtWork
<1> QED
  BY <1>1, <1>2, <1>3 DEF ModelsInv

\* A step of one download: the others are not at work, and what is published
\* for them stays.
LEMMA OthersKnow ==
  ASSUME ModelsInv, NEW d \in Fetches, fetch[d].at \in AtWork \/ ~downloading,
         \A e \in Fetches \ {d} : fetch'[e] = fetch[e],
         \A f \in ModelFiles : folder[f] # Absent => folder'[f] # Absent, UNCHANGED disturbed
  PROVE  \A e \in Fetches \ {d} : KnowsItsPlace(e)' /\ fetch'[e].at \notin AtWork
<1> SUFFICES ASSUME NEW e \in Fetches \ {d} PROVE KnowsItsPlace(e)' /\ fetch'[e].at \notin AtWork
  OBVIOUS
<1>1. fetch[e].at \notin AtWork
  BY DEF ModelsInv, ClaimedByOne
<1> QED
  BY <1>1 DEF ModelsInv, KnowsItsPlace, AtWork

\* A download that was refused, or broke off, is no longer at work.
LEMMA DownloadStops ==
  ASSUME ModelsInv, NEW d \in Fetches, NEW at \in {"busy", "failed"},
         fetch' = [fetch EXCEPT ![d].at = at],
         downloading' = (downloading /\ fetch[d].at \notin AtWork),
         UNCHANGED <<folder, partials, endpoint, disturbed>>
  PROVE  ModelsInv'
<1>1. fetch'[d].at = at /\ \A e \in Fetches \ {d} : fetch'[e] = fetch[e]
  BY DEF ModelsInv, ModelsTypes, DownloadStates
<1>2. ModelsTypes'
  BY DEF ModelsInv, ModelsTypes, DownloadStates
<1>3. ClaimedByOne'
  BY <1>1 DEF ModelsInv, ClaimedByOne, AtWork
<1>4. \A e \in Fetches : KnowsItsPlace(e)'
  BY <1>1 DEF ModelsInv, KnowsItsPlace, AtWork, RepoFile
<1> QED
  BY <1>2, <1>3, <1>4 DEF ModelsInv, PartialsResume, PublishedFilesAreComplete

LEMMA DownloadBeginsStep ==
  ASSUME ModelsInv, NEW d \in Fetches, DownloadBegins(d)
  PROVE  ModelsInv'
<1>1. UNCHANGED <<folder, partials, endpoint, disturbed>> /\ fetch[d].at = "idle"
  BY DEF DownloadBegins
<1>2. ASSUME NEW at \in {"busy", "failed"}, fetch' = [fetch EXCEPT ![d].at = at], UNCHANGED downloading
      PROVE  ModelsInv'
  <2>1. downloading' = (downloading /\ fetch[d].at \notin AtWork)
    BY <1>1, <1>2 DEF ModelsInv, ModelsTypes, AtWork
  <2> QED
    BY <1>1, <1>2, <2>1, DownloadStops
<1>3. ASSUME ~downloading, downloading' = TRUE,
             fetch' = [fetch EXCEPT ![d] = [Waiting EXCEPT !.at = "file", !.hub = endpoint, !.k = 1]]
      PROVE  ModelsInv'
  <2>1. /\ fetch'[d] = [Waiting EXCEPT !.at = "file", !.hub = endpoint, !.k = 1]
        /\ \A e \in Fetches \ {d} : fetch'[e] = fetch[e]
    BY <1>3 DEF ModelsInv, ModelsTypes
  <2>2. fetch'[d].at = "file" /\ fetch'[d].hub = endpoint /\ fetch'[d].k = 1
    BY <2>1 DEF Waiting
  <2>3. ModelsTypes'
    BY <1>1, <1>3 DEF ModelsInv, ModelsTypes, DownloadStates, Waiting, AtWork
  <2>4. \A e \in Fetches \ {d} : KnowsItsPlace(e)' /\ fetch'[e].at \notin AtWork
    BY <1>1, <1>3, <2>1, OthersKnow
  <2>5. KnowsItsPlace(d)'
    <3>1. fetch'[d].k \in 1 .. Len(RepoFiles) /\ 1 .. fetch'[d].k - 1 = {}
      BY <2>2, RepoFacts
    <3> QED
      BY <1>1, <2>2, <3>1 DEF KnowsItsPlace, ModelsInv, ModelsTypes, AtWork
  <2>6. ClaimedByOne'
    BY <1>3, <2>4 DEF ClaimedByOne
  <2> QED
    BY <1>1, <2>3, <2>4, <2>5, <2>6 DEF ModelsInv, PartialsResume, PublishedFilesAreComplete
<1> QED
  BY <1>2, <1>3 DEF DownloadBegins

LEMMA FailsStep ==
  ASSUME ModelsInv, NEW d \in Fetches, fetch[d].at \in AtWork, Fails(d),
         UNCHANGED <<folder, partials, endpoint, disturbed>>
  PROVE  ModelsInv'
BY DownloadStops DEF Fails

LEMMA FileStatsStep ==
  ASSUME ModelsInv, NEW d \in Fetches, FileStats(d)
  PROVE  ModelsInv'
<1> PICK offset : offset = Written(partials[RepoFile(d)])
  OBVIOUS
<1>1. fetch[d].at = "file" /\ UNCHANGED <<folder, partials, endpoint, downloading, disturbed>>
  BY DEF FileStats
<1>2. offset \in Nat
  <2>1. PICK file \in ModelFiles : file = RepoFile(d)
    BY <1>1, RepoFacts DEF ModelsInv, KnowsItsPlace, RepoFile
  <2> QED
    BY <2>1 DEF ModelsInv, PartialsResume, Prefix, Written
<1>3. /\ fetch'[d] = [fetch[d] EXCEPT !.at = "asked", !.linked = TRUE, !.written = offset]
      /\ \A e \in Fetches \ {d} : fetch'[e] = fetch[e]
  BY DEF FileStats, ModelsInv, ModelsTypes
<1>4. /\ fetch'[d].at = "asked" /\ fetch'[d].written = offset /\ fetch'[d].k = fetch[d].k
      /\ fetch'[d].hub = fetch[d].hub /\ fetch'[d] \in DownloadStates
  <2>1. fetch[d] \in DownloadStates
    BY DEF ModelsInv, ModelsTypes
  <2> QED
    BY <1>2, <1>3, <2>1 DEF DownloadStates, AtWork
<1>5. ModelsTypes'
  <2>1. fetch' \in [Fetches -> DownloadStates]
    BY <1>3, <1>4 DEF FileStats, ModelsInv, ModelsTypes
  <2> QED
    BY <1>1, <2>1 DEF ModelsInv, ModelsTypes
<1>6. \A e \in Fetches \ {d} : KnowsItsPlace(e)' /\ fetch'[e].at \notin AtWork
  BY <1>1, <1>3, OthersKnow DEF AtWork
<1>7. KnowsItsPlace(d)'
  BY <1>1, <1>4 DEF ModelsInv, KnowsItsPlace, AtWork, RepoFile
<1>8. ClaimedByOne'
  BY <1>1, <1>6 DEF ModelsInv, ClaimedByOne, AtWork
<1> QED
  BY <1>1, <1>5, <1>6, <1>7, <1>8 DEF ModelsInv, PartialsResume, PublishedFilesAreComplete

LEMMA FileOpensStep ==
  ASSUME ModelsInv, NEW d \in Fetches, NEW honoured \in BOOLEAN, FileOpens(d, honoured)
  PROVE  ModelsInv'
<1> DEFINE f == RepoFile(d)
           offset == fetch[d].written
<1>1. fetch[d].at = "asked" /\ UNCHANGED <<folder, endpoint, disturbed>>
  BY DEF FileOpens
<1>2. CASE Fails(d) /\ UNCHANGED partials
  BY <1>1, <1>2, FailsStep DEF AtWork
<1>3. ASSUME fetch[d].linked, honoured => offset \in 1 .. FileSize[f] - 1, UNCHANGED downloading,
             fetch' = [fetch EXCEPT ![d].at = "writing", ![d].written = IF honoured THEN offset ELSE 0],
             partials' = [partials EXCEPT ![f] = IF honoured THEN @ ELSE <<>>]
      PROVE  ModelsInv'
  <2> PICK file \in ModelFiles : file = f /\ FileSize[file] \in Nat
    BY <1>1, RepoFacts DEF ModelsInv, KnowsItsPlace, RepoFile
  <2> PICK written : written = IF honoured THEN offset ELSE 0
    OBVIOUS
  <2>1. fetch[d].k \in 1 .. Len(RepoFiles) /\ file = RepoFiles[fetch[d].k]
    BY <1>1 DEF ModelsInv, KnowsItsPlace, RepoFile
  <2>2. /\ Prefix(partials'[file], file) /\ Len(partials'[file]) = written /\ written \in Nat
        /\ written <= FileSize[file]
    <3>1. CASE honoured
      <4>1. partials[file] # Absent /\ written = Len(partials[file])
        <5>1. offset = Written(partials[file])
          BY <1>1, <1>3 DEF ModelsInv, KnowsItsPlace
        <5> QED
          BY <1>3, <3>1, <5>1 DEF Written
      <4>2. Prefix(partials[file], file)
        BY <4>1 DEF ModelsInv, PartialsResume
      <4>3. partials'[file] = partials[file]
        BY <1>3, <3>1 DEF ModelsInv, ModelsTypes
      <4> QED
        BY <1>3, <3>1, <4>1, <4>2, <4>3 DEF Prefix
    <3>2. CASE ~honoured
      <4>1. partials'[file] = <<>> /\ written = 0
        BY <1>3, <3>2 DEF ModelsInv, ModelsTypes
      <4>2. Len(<<>>) = 0 /\ <<>> \in Seq(Endpoints \X Nat)
        OBVIOUS
      <4> QED
        BY <4>1, <4>2 DEF Prefix
    <3> QED
      BY <3>1, <3>2
  <2>3. \A g \in ModelFiles \ {file} : partials'[g] = partials[g]
    BY <1>3 DEF ModelsInv, ModelsTypes
  <2>4. /\ fetch'[d] = [fetch[d] EXCEPT !.at = "writing", !.written = written]
        /\ \A e \in Fetches \ {d} : fetch'[e] = fetch[e]
    BY <1>3 DEF ModelsInv, ModelsTypes
  <2>5. /\ fetch'[d].at = "writing" /\ fetch'[d].linked /\ fetch'[d].written = written
        /\ fetch'[d].k = fetch[d].k /\ fetch'[d].hub = fetch[d].hub
        /\ fetch'[d] \in DownloadStates
    <3>1. fetch[d] \in DownloadStates
      BY DEF ModelsInv, ModelsTypes
    <3>2. /\ fetch'[d].at = "writing" /\ fetch'[d].written = written /\ fetch'[d].k = fetch[d].k
          /\ fetch'[d].hub = fetch[d].hub /\ fetch'[d].linked = fetch[d].linked
          /\ fetch'[d] \in DownloadStates
      BY <2>2, <2>4, <3>1 DEF DownloadStates, AtWork
    <3> QED
      BY <1>3, <3>1, <3>2 DEF DownloadStates
  <2>6. ModelsTypes'
    <3>1. fetch' \in [Fetches -> DownloadStates]
      BY <1>3, <2>4, <2>5 DEF ModelsInv, ModelsTypes
    <3> QED
      BY <1>1, <1>3, <3>1 DEF ModelsInv, ModelsTypes
  <2>7. PartialsResume'
    BY <2>2, <2>3 DEF ModelsInv, PartialsResume
  <2>8. \A e \in Fetches \ {d} : KnowsItsPlace(e)' /\ fetch'[e].at \notin AtWork
    BY <1>1, <2>4, OthersKnow DEF AtWork
  <2>9. KnowsItsPlace(d)'
    <3>1. RepoFile(d)' = file
      BY <2>1, <2>5 DEF RepoFile
    <3>2. partials'[file] # Absent
      BY <2>2, PrefixIsNotAbsent
    <3> QED
      BY <1>1, <2>1, <2>2, <2>5, <3>1, <3>2 DEF ModelsInv, KnowsItsPlace, AtWork
  <2>10. ClaimedByOne'
    BY <1>1, <1>3, <2>8 DEF ModelsInv, ClaimedByOne, AtWork
  <2> QED
    BY <1>1, <2>6, <2>7, <2>8, <2>9, <2>10 DEF ModelsInv, PublishedFilesAreComplete
<1> QED
  BY <1>2, <1>3 DEF FileOpens

LEMMA FileReadsStep ==
  ASSUME ModelsInv, NEW d \in Fetches, FileReads(d)
  PROVE  ModelsInv'
<1>1. fetch[d].at = "writing" /\ UNCHANGED <<folder, endpoint, downloading, disturbed>>
  BY DEF FileReads
<1> PICK file \in ModelFiles : file = RepoFile(d) /\ FileSize[file] \in Nat
  BY <1>1, RepoFacts DEF ModelsInv, KnowsItsPlace, RepoFile
<1>2. fetch[d] \in DownloadStates /\ fetch[d].written \in Nat /\ fetch[d].written < FileSize[file]
      /\ fetch[d].hub \in Endpoints
  BY <1>1 DEF ModelsInv, ModelsTypes, DownloadStates, FileReads, KnowsItsPlace, AtWork
<1>3. /\ fetch'[d] = [fetch[d] EXCEPT !.written = fetch[d].written + 1]
      /\ \A e \in Fetches \ {d} : fetch'[e] = fetch[e]
  BY DEF FileReads, ModelsInv, ModelsTypes
<1>4. /\ fetch'[d].at = "writing" /\ fetch'[d].linked = fetch[d].linked
      /\ fetch'[d].written = fetch[d].written + 1
      /\ fetch'[d].k = fetch[d].k /\ fetch'[d].hub = fetch[d].hub /\ fetch'[d] \in DownloadStates
  <2> PICK n \in Nat : n = fetch[d].written + 1
    BY <1>2
  <2>1. fetch'[d] = [fetch[d] EXCEPT !.written = n]
    BY <1>3
  <2> QED
    BY <1>1, <1>2, <2>1 DEF DownloadStates, AtWork
<1>5. \A g \in ModelFiles \ {file} : partials'[g] = partials[g]
  BY DEF FileReads, ModelsInv, ModelsTypes
<1>6. /\ partials'[file] = Absent \/ Prefix(partials'[file], file)
      /\ fetch[d].linked => Prefix(partials'[file], file) /\ Len(partials'[file]) = fetch[d].written + 1
  <2>1. CASE fetch[d].linked
    <3>1. Prefix(partials[file], file) /\ Len(partials[file]) = fetch[d].written
      BY <1>1, <2>1 DEF ModelsInv, KnowsItsPlace, PartialsResume
    <3>2. partials'[file] = Append(partials[file], <<fetch[d].hub, Len(partials[file]) + 1>>)
      BY <2>1, <3>1 DEF FileReads, ModelsInv, ModelsTypes
    <3>3. Len(partials'[file]) = Len(partials[file]) + 1
      BY <3>1, <3>2 DEF Prefix
    <3> QED
      BY <1>2, <3>1, <3>2, <3>3, PrefixGrows
  <2>2. CASE ~fetch[d].linked
    BY <2>2 DEF FileReads, ModelsInv, PartialsResume
  <2> QED
    BY <2>1, <2>2
<1>7. ModelsTypes'
  <2>1. fetch' \in [Fetches -> DownloadStates]
    BY <1>3, <1>4 DEF FileReads, ModelsInv, ModelsTypes
  <2>2. DOMAIN partials' = ModelFiles
    BY DEF FileReads, ModelsInv, ModelsTypes
  <2> QED
    BY <1>1, <2>1, <2>2 DEF ModelsInv, ModelsTypes
<1>8. PartialsResume'
  BY <1>5, <1>6 DEF ModelsInv, PartialsResume
<1>9. \A e \in Fetches \ {d} : KnowsItsPlace(e)' /\ fetch'[e].at \notin AtWork
  BY <1>1, <1>3, OthersKnow DEF AtWork
<1>10. KnowsItsPlace(d)'
  <2>1. RepoFile(d)' = file
    BY <1>4 DEF RepoFile
  <2>2. fetch[d].linked => partials'[file] # Absent
    BY <1>6, PrefixIsNotAbsent
  <2> QED
    BY <1>1, <1>2, <1>4, <1>6, <2>1, <2>2 DEF ModelsInv, KnowsItsPlace, AtWork
<1>11. ClaimedByOne'
  BY <1>1, <1>9 DEF ModelsInv, ClaimedByOne, AtWork
<1> QED
  BY <1>1, <1>7, <1>8, <1>9, <1>10, <1>11 DEF ModelsInv, PublishedFilesAreComplete

LEMMA FilePublishesStep ==
  ASSUME ModelsInv, NEW d \in Fetches, FilePublishes(d)
  PROVE  ModelsInv'
<1>1. fetch[d].at = "writing" /\ UNCHANGED <<endpoint, disturbed>>
  BY DEF FilePublishes
<1> PICK file \in ModelFiles : file = RepoFile(d) /\ FileSize[file] \in Nat
  BY <1>1, RepoFacts DEF ModelsInv, KnowsItsPlace, RepoFile
<1>2. CASE Fails(d) /\ UNCHANGED <<folder, partials>>
  BY <1>1, <1>2, FailsStep DEF AtWork
<1>3. ASSUME fetch[d].linked, fetch[d].written = FileSize[file], UNCHANGED downloading,
             folder' = [folder EXCEPT ![file] = partials[file]],
             partials' = [partials EXCEPT ![file] = Absent],
             fetch' = [fetch EXCEPT ![d].at = IF fetch[d].k = Len(RepoFiles) THEN "fetched" ELSE "file",
                         ![d].k = @ + 1]
      PROVE  ModelsInv'
  <2> PICK at : at = IF fetch[d].k = Len(RepoFiles) THEN "fetched" ELSE "file"
    OBVIOUS
  <2>1. fetch[d].k \in 1 .. Len(RepoFiles) /\ Len(RepoFiles) \in Nat /\ file = RepoFiles[fetch[d].k]
    BY <1>1, RepoFacts DEF ModelsInv, KnowsItsPlace, RepoFile
  <2>2. fetch[d] \in DownloadStates /\ fetch[d].hub \in Endpoints
    BY <1>1 DEF ModelsInv, ModelsTypes, KnowsItsPlace, AtWork
  <2>3. /\ fetch'[d] = [fetch[d] EXCEPT !.at = at, !.k = fetch[d].k + 1]
        /\ \A e \in Fetches \ {d} : fetch'[e] = fetch[e]
    BY <1>3 DEF ModelsInv, ModelsTypes
  <2>4. /\ fetch'[d].at = at /\ fetch'[d].k = fetch[d].k + 1 /\ fetch'[d].hub = fetch[d].hub
        /\ fetch'[d] \in DownloadStates
    <3> PICK n \in Nat : n = fetch[d].k + 1
      BY <2>1
    <3>1. fetch'[d] = [fetch[d] EXCEPT !.at = at, !.k = n] /\ at \in {"fetched", "file"}
      BY <2>3
    <3> QED
      BY <2>2, <3>1 DEF DownloadStates, AtWork
  <2>5. Prefix(partials[file], file) /\ Len(partials[file]) = FileSize[file]
    BY <1>1, <1>3 DEF ModelsInv, KnowsItsPlace, PartialsResume
  <2>6. /\ folder'[file] # Absent /\ Complete(folder'[file], file)
        /\ \A g \in ModelFiles \ {file} : folder'[g] = folder[g]
    <3>1. folder'[file] = partials[file] /\ \A g \in ModelFiles \ {file} : folder'[g] = folder[g]
      BY <1>3 DEF ModelsInv, ModelsTypes
    <3> QED
      BY <2>5, <3>1, PrefixIsNotAbsent DEF Complete, Prefix
  <2>7. ModelsTypes'
    <3>1. fetch' \in [Fetches -> DownloadStates]
      BY <1>3, <2>3, <2>4 DEF ModelsInv, ModelsTypes
    <3>2. DOMAIN folder' = ModelFiles /\ DOMAIN partials' = ModelFiles
      BY <1>3 DEF ModelsInv, ModelsTypes
    <3> QED
      BY <1>1, <1>3, <3>1, <3>2 DEF ModelsInv, ModelsTypes
  <2>8. PartialsResume'
    BY <1>3 DEF ModelsInv, ModelsTypes, PartialsResume
  <2>9. PublishedFilesAreComplete'
    BY <2>6 DEF ModelsInv, PublishedFilesAreComplete
  <2>10. \A e \in Fetches \ {d} : KnowsItsPlace(e)' /\ fetch'[e].at \notin AtWork
    BY <1>1, <2>3, <2>6, OthersKnow DEF AtWork
  <2>11. d \notin disturbed => \A j \in 1 .. fetch[d].k : folder'[RepoFiles[j]] # Absent
    <3> SUFFICES ASSUME d \notin disturbed, NEW j \in 1 .. fetch[d].k PROVE folder'[RepoFiles[j]] # Absent
      OBVIOUS
    <3>1. j \in 1 .. Len(RepoFiles) /\ RepoFiles[j] \in ModelFiles
      BY <2>1, RepoFacts
    <3>2. j = fetch[d].k \/ j \in 1 .. fetch[d].k - 1
      BY <2>1
    <3>3. j \in 1 .. fetch[d].k - 1 => folder[RepoFiles[j]] # Absent
      BY <1>1 DEF ModelsInv, KnowsItsPlace
    <3> QED
      BY <2>1, <2>6, <3>1, <3>2, <3>3
  <2>12. KnowsItsPlace(d)'
    <3>1. CASE fetch[d].k = Len(RepoFiles)
      <4>1. d \notin disturbed => \A f \in ModelFiles : folder'[f] # Absent
        BY <2>11, <3>1, RepoFacts
      <4> QED
        BY <1>1, <2>2, <2>4, <3>1, <4>1 DEF KnowsItsPlace, AtWork
    <3>2. CASE fetch[d].k # Len(RepoFiles)
      <4>1. fetch'[d].k \in 1 .. Len(RepoFiles) /\ 1 .. fetch'[d].k - 1 = 1 .. fetch[d].k
        BY <2>1, <2>4, <3>2
      <4> QED
        BY <1>1, <2>2, <2>4, <2>11, <3>2, <4>1 DEF KnowsItsPlace, AtWork
    <3> QED
      BY <3>1, <3>2
  <2>13. ClaimedByOne'
    BY <1>1, <1>3, <2>10 DEF ModelsInv, ClaimedByOne, AtWork
  <2> QED
    BY <2>7, <2>8, <2>9, <2>10, <2>12, <2>13 DEF ModelsInv
<1> QED
  BY <1>2, <1>3 DEF FilePublishes

LEMMA DownloadEndsStep ==
  ASSUME ModelsInv, NEW d \in Fetches, DownloadEnds(d)
  PROVE  ModelsInv'
<1> PICK at \in {"done", "failed"} : fetch' = [fetch EXCEPT ![d].at = at]
  BY DEF DownloadEnds
<1>1. fetch[d].at = "fetched" /\ downloading' = FALSE /\ UNCHANGED <<folder, partials, endpoint, disturbed>>
  BY DEF DownloadEnds
<1>2. fetch'[d].at = at /\ \A e \in Fetches \ {d} : fetch'[e] = fetch[e]
  BY DEF ModelsInv, ModelsTypes, DownloadStates
<1>3. ModelsTypes'
  BY <1>1 DEF ModelsInv, ModelsTypes, DownloadStates
<1>4. \A e \in Fetches \ {d} : KnowsItsPlace(e)' /\ fetch'[e].at \notin AtWork
  BY <1>1, <1>2, OthersKnow DEF AtWork
<1>5. KnowsItsPlace(d)' /\ fetch'[d].at \notin AtWork
  BY <1>1, <1>2 DEF ModelsInv, KnowsItsPlace, AtWork
<1>6. ClaimedByOne'
  BY <1>4, <1>5 DEF ClaimedByOne
<1> QED
  BY <1>1, <1>3, <1>4, <1>5, <1>6 DEF ModelsInv, PartialsResume, PublishedFilesAreComplete

LEMMA DeleteModelStep ==
  ASSUME ModelsInv, DeleteModel
  PROVE  ModelsInv'
<1>1. /\ folder' = Empty /\ partials' = Empty /\ UNCHANGED <<endpoint, downloading>>
      /\ disturbed' = disturbed \cup {d \in Fetches : fetch[d].at \notin {"idle", "busy", "failed"}}
      /\ fetch' = [d \in Fetches |-> [fetch[d] EXCEPT !.linked = FALSE]]
  BY DEF DeleteModel
<1>2. \A d \in Fetches :
        /\ fetch'[d].at = fetch[d].at /\ ~fetch'[d].linked /\ fetch'[d].k = fetch[d].k
        /\ fetch'[d].written = fetch[d].written /\ fetch'[d].hub = fetch[d].hub
        /\ fetch'[d] \in DownloadStates
  BY <1>1 DEF ModelsInv, ModelsTypes, DownloadStates
<1>3. ModelsTypes'
  BY <1>1, <1>2 DEF ModelsInv, ModelsTypes, Empty
<1>4. PartialsResume' /\ PublishedFilesAreComplete'
  BY <1>1 DEF PartialsResume, PublishedFilesAreComplete, Empty
<1>5. ClaimedByOne'
  BY <1>1, <1>2 DEF ModelsInv, ClaimedByOne
<1>6. ASSUME NEW d \in Fetches PROVE KnowsItsPlace(d)'
  BY <1>1, <1>2 DEF ModelsInv, KnowsItsPlace, AtWork, RepoFile
<1> QED
  BY <1>3, <1>4, <1>5, <1>6 DEF ModelsInv

LEMMA ProcessEndsStep ==
  ASSUME ModelsInv, ProcessEnds
  PROVE  ModelsInv'
<1>1. /\ downloading' = FALSE /\ UNCHANGED <<folder, partials, endpoint, disturbed>>
      /\ \A d \in Fetches : fetch'[d].at \in {"idle", "failed"} /\ fetch'[d] \in DownloadStates
      /\ DOMAIN fetch' = Fetches
  BY DEF ProcessEnds, ModelsInv, ModelsTypes, DownloadStates, Waiting
<1>2. ModelsTypes'
  <2>1. fetch' = [d \in Fetches |-> fetch'[d]]
    BY DEF ProcessEnds
  <2> QED
    BY <1>1, <2>1 DEF ModelsInv, ModelsTypes
<1>3. ClaimedByOne' /\ \A d \in Fetches : KnowsItsPlace(d)'
  BY <1>1 DEF ClaimedByOne, KnowsItsPlace, AtWork
<1> QED
  BY <1>1, <1>2, <1>3 DEF ModelsInv, PartialsResume, PublishedFilesAreComplete

LEMMA ModelsStep == ModelsInv /\ [ModelsNext]_modelsVars => ModelsInv'
<1> SUFFICES ASSUME ModelsInv, [ModelsNext]_modelsVars PROVE ModelsInv'
  OBVIOUS
<1>1. ASSUME UNCHANGED <<folder, partials, downloading, fetch, disturbed>>, endpoint' \in Endpoints
      PROVE  ModelsInv'
  BY <1>1 DEF ModelsInv, ModelsTypes, PartialsResume, ClaimedByOne, KnowsItsPlace, RepoFile,
              PublishedFilesAreComplete
<1>2. ASSUME NEW hub \in Endpoints, SetEndpoint(hub) PROVE ModelsInv'
  BY <1>1, <1>2 DEF SetEndpoint
<1>3. CASE Scan \/ UNCHANGED modelsVars
  BY <1>1, <1>3 DEF Scan, modelsVars, ModelsInv, ModelsTypes
<1>4. ASSUME NEW d \in Fetches, FileBreaks(d) PROVE ModelsInv'
  BY <1>4, FailsStep DEF FileBreaks, AtWork
<1> QED
  BY <1>2, <1>3, <1>4, DownloadBeginsStep, FileStatsStep, FileOpensStep, FileReadsStep, FilePublishesStep,
     DownloadEndsStep, DeleteModelStep, ProcessEndsStep DEF ModelsNext

\* Whatever hubs ignore, connections break, requests overlap, deletions and
\* crashes come in between: a file of the model that has its own name is
\* complete, and a download that reports success has published every file
\* unless the model was deleted while it ran.
THEOREM ModelsAreWhole == ModelsSpec => []DownloadsAreWhole
<1>1. ModelsInv => DownloadsAreWhole
  BY DEF ModelsInv, KnowsItsPlace, DownloadsAreWhole, DoneIsWhole
<1> QED
  BY <1>1, ModelsBegin, ModelsStep, PTL DEF ModelsSpec

-----------------------------------------------------------------------------
(* Projects: rows, directories and media. *)

Tongues == Languages \cup {"ja", "zh", ""}
ProjectRows == [there : BOOLEAN, source : BOOLEAN, from : Tongues, to : Tongues, idle : BOOLEAN]

ProjectsTypes ==
  /\ place \in [Media -> {User, Part, Staged, Path, Thrown} \cup {InProject(p) : p \in Ids}]
  /\ projectRow \in [Ids -> ProjectRows]
  /\ creating \in [Ids -> [at : {"new", "done"}, of : {""}] \cup [at : {"place", "insert", "tidy"}, of : Media]]
  /\ updating \in [Editors -> {NoUpdate, [NoUpdate EXCEPT !.at = "done"]}
                              \cup [at : {"write"}, id : Ids, read : ProjectRows]]
  /\ tree \subseteq Ids /\ dropping \subseteq Ids
  /\ removing \in [Ids -> {"none", "source", "path"}]
  /\ keeper \in [at : {"asleep", "next"}, left : SUBSET Ids, id : {""}]
                \cup [at : {"delete"}, left : SUBSET Ids, id : Ids]

\* Until its row is inserted, nothing but its own request touches a project; a
\* project whose directory is going has no row, and never has one again.
BornOnce ==
  \A p \in Ids :
    /\ creating[p].at \in {"new", "place", "insert"} =>
         ~projectRow[p].there /\ p \notin dropping /\ removing[p] = "none"
    /\ p \in dropping => ~projectRow[p].there

\* A request that is about to insert the row has its source in the directory.
SourceIsPlaced ==
  \A p \in Ids : creating[p].at = "insert" => place[creating[p].of] = InProject(p)
DirectoryIsMade ==
  \A p \in Ids : creating[p].at \in {"place", "insert"} => p \in tree

ProjectsInv == ProjectsTypes /\ BornOnce /\ SourceIsPlaced /\ DirectoryIsMade /\ RowsMatchTheDisk

LEMMA PlacesDiffer ==
  /\ \A p, q \in Ids : InProject(p) = InProject(q) => p = q
  /\ \A p \in Ids : InProject(p) \notin {User, Part, Staged, Path, Thrown}
<1>1. \A p, q \in Ids : InProject(p) = InProject(q) => p = q
  <2>1. \A p : InProject(p).in = p
    BY DEF InProject
  <2> QED
    BY <2>1
<1>2. ASSUME NEW p \in Ids PROVE InProject(p) \notin {User, Part, Staged, Path, Thrown}
  <2>1. /\ InProject(p).in = p /\ User.in = "user" /\ Part.in = "part" /\ Staged.in = "upload"
        /\ Path.in = "path" /\ Thrown.in = "thrown"
    BY DEF InProject, User, Part, Staged, Path, Thrown
  <2> QED
    BY <2>1, ProjectsAssumption
<1> QED
  BY <1>1, <1>2

LEMMA ProjectsBegin == ProjectsInit => ProjectsInv
<1> SUFFICES ASSUME ProjectsInit PROVE ProjectsInv
  OBVIOUS
<1>1. ProjectsTypes
  BY DEF ProjectsInit, ProjectsTypes, ProjectRows, Tongues, NoRow, NoUpdate, NoPass
<1>2. BornOnce /\ SourceIsPlaced /\ DirectoryIsMade
  BY DEF ProjectsInit, BornOnce, SourceIsPlaced, DirectoryIsMade, NoRow
<1>3. RowsMatchTheDisk
  BY DEF ProjectsInit, RowsMatchTheDisk, NoOrphanDirectory, SourceIsWhereTheRowSays, LanguagesDiffer, NoRow
<1> QED
  BY <1>1, <1>2, <1>3 DEF ProjectsInv

\* A step that moves media, but takes none out of a project.
LEMMA MediaMove ==
  ASSUME ProjectsInv, UNCHANGED rowsAndRuns, UNCHANGED creating,
         place' \in [Media -> {User, Part, Staged, Path, Thrown} \cup {InProject(p) : p \in Ids}],
         \A m \in Media, p \in Ids : place[m] = InProject(p) => place'[m] = InProject(p)
  PROVE  ProjectsInv'
<1>1. ProjectsTypes' /\ BornOnce' /\ DirectoryIsMade'
  BY DEF rowsAndRuns, ProjectsInv, ProjectsTypes, BornOnce, DirectoryIsMade
<1>2. SourceIsPlaced'
  BY DEF ProjectsInv, ProjectsTypes, SourceIsPlaced
<1>3. NoOrphanDirectory' /\ LanguagesDiffer'
  BY DEF rowsAndRuns, ProjectsInv, RowsMatchTheDisk, NoOrphanDirectory, LanguagesDiffer
<1>4. SourceIsWhereTheRowSays'
  BY DEF rowsAndRuns, ProjectsInv, RowsMatchTheDisk, SourceIsWhereTheRowSays
<1> QED
  BY <1>1, <1>2, <1>3, <1>4 DEF ProjectsInv, RowsMatchTheDisk

LEMMA UploadStep ==
  ASSUME ProjectsInv, NEW m \in Media,
         UploadBegins(m) \/ UploadEnds(m) \/ UploadDiscarded(m) \/ UploadAges(m)
  PROVE  ProjectsInv'
<1>1. UNCHANGED rowsAndRuns /\ UNCHANGED creating
  BY DEF UploadBegins, UploadEnds, UploadDiscarded, UploadAges
<1>2. place' \in [Media -> {User, Part, Staged, Path, Thrown} \cup {InProject(p) : p \in Ids}]
  BY DEF UploadBegins, UploadEnds, UploadDiscarded, UploadAges, ProjectsInv, ProjectsTypes
<1>3. \A n \in Media, p \in Ids : place[n] = InProject(p) => place'[n] = InProject(p)
  BY PlacesDiffer DEF UploadBegins, UploadEnds, UploadDiscarded, UploadAges, ProjectsInv, ProjectsTypes
<1> QED
  BY <1>1, <1>2, <1>3, MediaMove

\* A request that creates a project.
LEMMA CreateBeginsStep ==
  ASSUME ProjectsInv, NEW p \in Ids, CreateBegins(p)
  PROVE  ProjectsInv'
<1>1. PICK m \in Media :
        \/ creating' = [creating EXCEPT ![p] = [at |-> "place", of |-> m]] /\ UNCHANGED excused
        \/ creating' = Created(p) /\ excused' = excused \cup {p}
  BY DEF CreateBegins
<1>2. /\ creating[p].at = "new" /\ tree' = tree \cup {p}
      /\ UNCHANGED <<place, projectRow, updating, keeper, dropping, removing>>
  BY DEF CreateBegins, Scaffold
<1>3. /\ \A q \in Ids \ {p} : creating'[q] = creating[q]
      /\ creating'[p].at \in {"place", "done"} /\ (creating'[p].at = "done" => p \in excused')
      /\ excused \subseteq excused' /\ \A q \in Ids \ {p} : q \in excused' => q \in excused
  <2>1. CASE creating' = [creating EXCEPT ![p] = [at |-> "place", of |-> m]] /\ UNCHANGED excused
    BY <2>1 DEF ProjectsInv, ProjectsTypes
  <2>2. CASE creating' = [creating EXCEPT ![p] = [at |-> "done", of |-> ""]] /\ excused' = excused \cup {p}
    BY <2>2 DEF ProjectsInv, ProjectsTypes
  <2> QED
    BY <1>1, <2>1, <2>2 DEF Created
<1>4. ProjectsTypes'
  <2>1. creating' \in [Ids -> [at : {"new", "done"}, of : {""}] \cup [at : {"place", "insert", "tidy"}, of : Media]]
    <3>1. CASE creating' = [creating EXCEPT ![p] = [at |-> "place", of |-> m]]
      BY <3>1 DEF ProjectsInv, ProjectsTypes
    <3>2. CASE creating' = [creating EXCEPT ![p] = [at |-> "done", of |-> ""]]
      BY <3>2 DEF ProjectsInv, ProjectsTypes
    <3> QED
      BY <1>1, <3>1, <3>2 DEF Created
  <2> QED
    BY <1>2, <2>1 DEF ProjectsInv, ProjectsTypes
<1>5. BornOnce' /\ SourceIsPlaced' /\ DirectoryIsMade'
  BY <1>2, <1>3 DEF ProjectsInv, BornOnce, SourceIsPlaced, DirectoryIsMade
<1>6. RowsMatchTheDisk'
  <2>1. NoOrphanDirectory'
    BY <1>2, <1>3 DEF ProjectsInv, ProjectsTypes, RowsMatchTheDisk, NoOrphanDirectory
  <2>2. SourceIsWhereTheRowSays' /\ LanguagesDiffer'
    BY <1>2, <1>3 DEF ProjectsInv, RowsMatchTheDisk, SourceIsWhereTheRowSays, LanguagesDiffer
  <2> QED
    BY <2>1, <2>2 DEF RowsMatchTheDisk
<1> QED
  BY <1>4, <1>5, <1>6 DEF ProjectsInv

LEMMA EmptiedOne ==
  ASSUME ProjectsTypes, NEW p \in Ids
  PROVE  /\ Emptied(p) \in [Media -> {User, Part, Staged, Path, Thrown} \cup {InProject(q) : q \in Ids}]
         /\ \A m \in Media, q \in Ids \ {p} : place[m] = InProject(q) => Emptied(p)[m] = InProject(q)
BY PlacesDiffer DEF Emptied, ProjectsTypes

LEMMA CreatePlacesStep ==
  ASSUME ProjectsInv, NEW p \in Ids, CreatePlaces(p)
  PROVE  ProjectsInv'
<1> DEFINE m == creating[p].of
<1>1. creating[p].at = "place" /\ m \in Media /\ UNCHANGED <<projectRow, updating, keeper, dropping, removing, excused>>
  BY DEF CreatePlaces, ProjectsInv, ProjectsTypes
<1>2. ASSUME place[m] \in {Staged, Path}, place' = [place EXCEPT ![m] = InProject(p)],
             creating' = [creating EXCEPT ![p].at = "insert"], UNCHANGED tree
      PROVE  ProjectsInv'
  <2>1. /\ creating'[p].at = "insert" /\ creating'[p].of = m
        /\ \A q \in Ids \ {p} : creating'[q] = creating[q]
        /\ place'[m] = InProject(p)
        /\ \A n \in Media, q \in Ids : place[n] = InProject(q) => place'[n] = InProject(q)
    BY <1>1, <1>2, PlacesDiffer DEF ProjectsInv, ProjectsTypes
  <2>2. ProjectsTypes'
    BY <1>1, <1>2 DEF ProjectsInv, ProjectsTypes
  <2>3. BornOnce' /\ DirectoryIsMade'
    BY <1>1, <1>2, <2>1 DEF ProjectsInv, BornOnce, DirectoryIsMade
  <2>4. SourceIsPlaced'
    <3> SUFFICES ASSUME NEW q \in Ids, creating'[q].at = "insert" PROVE place'[creating'[q].of] = InProject(q)
      BY DEF SourceIsPlaced
    <3>1. CASE q = p
      BY <2>1, <3>1
    <3>2. CASE q # p
      <4>1. creating[q].of \in Media /\ place[creating[q].of] = InProject(q)
        BY <2>1, <3>2 DEF ProjectsInv, ProjectsTypes, SourceIsPlaced
      <4> QED
        BY <2>1, <3>2, <4>1
    <3> QED
      BY <3>1, <3>2
  <2>5. RowsMatchTheDisk'
    BY <1>1, <1>2, <2>1 DEF ProjectsInv, RowsMatchTheDisk, NoOrphanDirectory, SourceIsWhereTheRowSays, LanguagesDiffer
  <2> QED
    BY <2>2, <2>3, <2>4, <2>5 DEF ProjectsInv
<1>3. ASSUME tree' = tree \ {p}, creating' = Created(p), UNCHANGED place
      PROVE  ProjectsInv'
  <2>1. creating'[p].at = "done" /\ \A q \in Ids \ {p} : creating'[q] = creating[q]
    BY <1>3 DEF Created, ProjectsInv, ProjectsTypes
  <2>2. ProjectsTypes'
    BY <1>1, <1>3 DEF Created, ProjectsInv, ProjectsTypes
  <2>3. BornOnce' /\ DirectoryIsMade' /\ SourceIsPlaced'
    BY <1>1, <1>3, <2>1 DEF ProjectsInv, BornOnce, DirectoryIsMade, SourceIsPlaced
  <2>4. RowsMatchTheDisk'
    <3>1. NoOrphanDirectory'
      BY <1>1, <1>3, <2>1 DEF ProjectsInv, ProjectsTypes, RowsMatchTheDisk, NoOrphanDirectory
    <3>2. SourceIsWhereTheRowSays' /\ LanguagesDiffer'
      BY <1>1, <1>3 DEF ProjectsInv, BornOnce, RowsMatchTheDisk, SourceIsWhereTheRowSays, LanguagesDiffer
    <3> QED
      BY <3>1, <3>2 DEF RowsMatchTheDisk
  <2> QED
    BY <2>2, <2>3, <2>4 DEF ProjectsInv
<1> QED
  BY <1>2, <1>3 DEF CreatePlaces

LEMMA CreateInsertsStep ==
  ASSUME ProjectsInv, NEW p \in Ids, CreateInserts(p)
  PROVE  ProjectsInv'
<1>1. creating[p].at = "insert" /\ UNCHANGED <<updating, keeper, dropping, removing, excused>>
  BY DEF CreateInserts
<1>2. p \in tree /\ creating[p].of \in Media /\ place[creating[p].of] = InProject(p)
      /\ p \notin dropping /\ removing[p] = "none"
  BY <1>1 DEF ProjectsInv, ProjectsTypes, BornOnce, SourceIsPlaced, DirectoryIsMade
<1>3. CASE InsertRow(p)
  <2> PICK row \in ProjectRows : row = [there |-> TRUE, source |-> TRUE, from |-> "ja", to |-> "zh", idle |-> FALSE]
    BY DEF ProjectRows, Tongues
  <2>1. row.there /\ row.from # row.to
    OBVIOUS
  <2>2. /\ projectRow' = [projectRow EXCEPT ![p] = row]
        /\ creating' = [creating EXCEPT ![p].at = "tidy"] /\ UNCHANGED <<place, tree>>
    BY <1>3 DEF InsertRow
  <2>3. /\ projectRow'[p] = row /\ \A q \in Ids \ {p} : projectRow'[q] = projectRow[q] /\ creating'[q] = creating[q]
        /\ creating'[p].at = "tidy"
    BY <2>2 DEF ProjectsInv, ProjectsTypes
  <2>4. ProjectsTypes'
    <3>1. creating' \in [Ids -> [at : {"new", "done"}, of : {""}] \cup [at : {"place", "insert", "tidy"}, of : Media]]
      BY <1>1, <2>2 DEF ProjectsInv, ProjectsTypes
    <3>2. projectRow' \in [Ids -> ProjectRows]
      BY <2>2 DEF ProjectsInv, ProjectsTypes
    <3> QED
      BY <1>1, <2>2, <3>1, <3>2 DEF ProjectsInv, ProjectsTypes
  <2>5. BornOnce'
    BY <1>1, <1>2, <2>3 DEF ProjectsInv, BornOnce
  <2>6. SourceIsPlaced' /\ DirectoryIsMade'
    BY <2>2, <2>3 DEF ProjectsInv, SourceIsPlaced, DirectoryIsMade
  <2>7. NoOrphanDirectory'
    BY <1>1, <2>1, <2>2, <2>3 DEF ProjectsInv, ProjectsTypes, RowsMatchTheDisk, NoOrphanDirectory
  <2>8. SourceIsWhereTheRowSays'
    BY <1>1, <1>2, <2>2, <2>3 DEF ProjectsInv, RowsMatchTheDisk, SourceIsWhereTheRowSays
  <2>9. LanguagesDiffer'
    BY <2>1, <2>3 DEF ProjectsInv, RowsMatchTheDisk, LanguagesDiffer
  <2> QED
    BY <2>4, <2>5, <2>6, <2>7, <2>8, <2>9 DEF ProjectsInv, RowsMatchTheDisk
<1>4. ASSUME place' = Emptied(p), tree' = tree \ {p}, creating' = Created(p), UNCHANGED projectRow
      PROVE  ProjectsInv'
  <2>1. creating'[p].at = "done" /\ \A q \in Ids \ {p} : creating'[q] = creating[q]
    BY <1>4 DEF Created, ProjectsInv, ProjectsTypes
  <2>2. /\ place' \in [Media -> {User, Part, Staged, Path, Thrown} \cup {InProject(q) : q \in Ids}]
        /\ \A m \in Media, q \in Ids \ {p} : place[m] = InProject(q) => place'[m] = InProject(q)
    BY <1>4, EmptiedOne DEF ProjectsInv
  <2>3. ProjectsTypes'
    <3>1. creating' \in [Ids -> [at : {"new", "done"}, of : {""}] \cup [at : {"place", "insert", "tidy"}, of : Media]]
      BY <1>4 DEF Created, ProjectsInv, ProjectsTypes
    <3> QED
      BY <1>1, <1>4, <2>2, <3>1 DEF ProjectsInv, ProjectsTypes
  <2>4. BornOnce' /\ DirectoryIsMade'
    BY <1>1, <1>4, <2>1 DEF ProjectsInv, BornOnce, DirectoryIsMade
  <2>5. SourceIsPlaced'
    <3> SUFFICES ASSUME NEW q \in Ids, creating'[q].at = "insert" PROVE place'[creating'[q].of] = InProject(q)
      BY DEF SourceIsPlaced
    <3>1. q # p /\ creating[q].at = "insert"
      BY <2>1
    <3>2. creating[q].of \in Media /\ place[creating[q].of] = InProject(q)
      BY <3>1 DEF ProjectsInv, ProjectsTypes, SourceIsPlaced
    <3> QED
      BY <2>1, <2>2, <3>1, <3>2
  <2>6. NoOrphanDirectory' /\ LanguagesDiffer'
    BY <1>1, <1>4, <2>1 DEF ProjectsInv, ProjectsTypes, RowsMatchTheDisk, NoOrphanDirectory, LanguagesDiffer
  <2>7. SourceIsWhereTheRowSays'
    <3>1. ~projectRow[p].there
      BY <1>1 DEF ProjectsInv, BornOnce
    <3> QED
      BY <1>1, <1>4, <2>2, <3>1 DEF ProjectsInv, RowsMatchTheDisk, SourceIsWhereTheRowSays
  <2> QED
    BY <2>3, <2>4, <2>5, <2>6, <2>7 DEF ProjectsInv, RowsMatchTheDisk
<1> QED
  BY <1>3, <1>4 DEF CreateInserts

LEMMA CreateTidiesStep ==
  ASSUME ProjectsInv, NEW p \in Ids, CreateTidies(p)
  PROVE  ProjectsInv'
<1> DEFINE m == creating[p].of
<1>1. /\ creating[p].at = "tidy" /\ m \in Media /\ UNCHANGED rowsAndRuns
      /\ creating' = Created(p)
      /\ place' = IF place[m] = Staged THEN [place EXCEPT ![m] = Thrown] ELSE place
  BY DEF CreateTidies, ProjectsInv, ProjectsTypes
<1>2. creating'[p].at = "done" /\ \A q \in Ids \ {p} : creating'[q] = creating[q]
  BY <1>1 DEF Created, ProjectsInv, ProjectsTypes
<1>3. /\ place' \in [Media -> {User, Part, Staged, Path, Thrown} \cup {InProject(q) : q \in Ids}]
      /\ \A n \in Media, q \in Ids : place[n] = InProject(q) => place'[n] = InProject(q)
  BY <1>1, PlacesDiffer DEF ProjectsInv, ProjectsTypes
<1>4. ProjectsTypes'
  <2>1. creating' \in [Ids -> [at : {"new", "done"}, of : {""}] \cup [at : {"place", "insert", "tidy"}, of : Media]]
    BY <1>1 DEF Created, ProjectsInv, ProjectsTypes
  <2> QED
    BY <1>1, <1>3, <2>1 DEF rowsAndRuns, ProjectsInv, ProjectsTypes
<1>5. BornOnce' /\ DirectoryIsMade'
  BY <1>1, <1>2 DEF rowsAndRuns, ProjectsInv, BornOnce, DirectoryIsMade
<1>6. SourceIsPlaced'
  <2> SUFFICES ASSUME NEW q \in Ids, creating'[q].at = "insert" PROVE place'[creating'[q].of] = InProject(q)
    BY DEF SourceIsPlaced
  <2>1. q # p /\ creating[q].at = "insert"
    BY <1>2
  <2>2. creating[q].of \in Media /\ place[creating[q].of] = InProject(q)
    BY <2>1 DEF ProjectsInv, ProjectsTypes, SourceIsPlaced
  <2> QED
    BY <1>2, <1>3, <2>1, <2>2
<1>7. NoOrphanDirectory' /\ LanguagesDiffer'
  BY <1>1, <1>2 DEF rowsAndRuns, ProjectsInv, ProjectsTypes, RowsMatchTheDisk, NoOrphanDirectory, LanguagesDiffer
<1>8. SourceIsWhereTheRowSays'
  BY <1>1, <1>3 DEF rowsAndRuns, ProjectsInv, RowsMatchTheDisk, SourceIsWhereTheRowSays
<1> QED
  BY <1>4, <1>5, <1>6, <1>7, <1>8 DEF ProjectsInv, RowsMatchTheDisk

\* A step that changes no row, directory, medium or request.
LEMMA RowsQuiet ==
  ASSUME ProjectsInv, ProjectsTypes', UNCHANGED <<place, projectRow, tree, creating, dropping, removing, excused>>
  PROVE  ProjectsInv'
<1>1. BornOnce' /\ SourceIsPlaced' /\ DirectoryIsMade'
  BY DEF ProjectsInv, BornOnce, SourceIsPlaced, DirectoryIsMade
<1>2. RowsMatchTheDisk'
  BY DEF ProjectsInv, RowsMatchTheDisk, NoOrphanDirectory, SourceIsWhereTheRowSays, LanguagesDiffer
<1> QED
  BY <1>1, <1>2 DEF ProjectsInv

LEMMA FieldsOfARow ==
  ASSUME NEW r \in ProjectRows, NEW t \in Tongues, NEW b \in BOOLEAN
  PROVE  /\ [r EXCEPT !.from = t] \in ProjectRows /\ [r EXCEPT !.to = t] \in ProjectRows
         /\ [r EXCEPT !.idle = b] \in ProjectRows /\ [r EXCEPT !.source = b] \in ProjectRows
BY DEF ProjectRows

\* The edit of a project.
LEMMA UpdateReadsStep ==
  ASSUME ProjectsInv, NEW e \in Editors, UpdateReads(e)
  PROVE  ProjectsInv'
<1>1. PICK p \in Ids, field \in {"from", "to"}, value \in Languages :
        updating' = [updating EXCEPT ![e] =
           [at |-> "write", id |-> p,
            read |-> IF field = "from" THEN [projectRow[p] EXCEPT !.from = value]
                     ELSE [projectRow[p] EXCEPT !.to = value]]]
  BY DEF UpdateReads
<1>2. projectRow[p] \in ProjectRows /\ value \in Tongues
  BY DEF ProjectsInv, ProjectsTypes, Tongues
<1>3. [projectRow[p] EXCEPT !.from = value] \in ProjectRows /\ [projectRow[p] EXCEPT !.to = value] \in ProjectRows
  BY <1>2, FieldsOfARow
<1>4. PICK row \in ProjectRows :
        row = IF field = "from" THEN [projectRow[p] EXCEPT !.from = value] ELSE [projectRow[p] EXCEPT !.to = value]
  BY <1>3
<1>5. updating' = [updating EXCEPT ![e] = [at |-> "write", id |-> p, read |-> row]]
  BY <1>1, <1>4
<1>6. UNCHANGED <<place, projectRow, tree, creating, keeper, dropping, removing, excused>>
  BY DEF UpdateReads, mediaAndRuns
<1>7. updating' \in [Editors -> {NoUpdate, [NoUpdate EXCEPT !.at = "done"]}
                                \cup [at : {"write"}, id : Ids, read : ProjectRows]]
  BY <1>5 DEF ProjectsInv, ProjectsTypes
<1>8. ProjectsTypes'
  BY <1>6, <1>7 DEF ProjectsInv, ProjectsTypes
<1> QED
  BY <1>6, <1>8, RowsQuiet

LEMMA UpdateWritesStep ==
  ASSUME ProjectsInv, NEW e \in Editors, UpdateWrites(e)
  PROVE  ProjectsInv'
<1>1. PICK p \in Ids, new \in ProjectRows : p = updating[e].id /\ new = updating[e].read
  <2>1. updating[e].at = "write" /\ NoUpdate.at = "idle" /\ [NoUpdate EXCEPT !.at = "done"].at = "done"
    BY DEF UpdateWrites, NoUpdate
  <2>2. updating[e] \in [at : {"write"}, id : Ids, read : ProjectRows]
    BY <2>1 DEF ProjectsInv, ProjectsTypes
  <2> QED
    BY <2>2
<1>2. /\ projectRow' = IF new.from # new.to /\ projectRow[p].there
                       THEN [projectRow EXCEPT ![p].from = new.from, ![p].to = new.to, ![p].idle = FALSE]
                       ELSE projectRow
      /\ updating' = [updating EXCEPT ![e] = [NoUpdate EXCEPT !.at = "done"]]
      /\ UNCHANGED <<place, tree, creating, keeper, dropping, removing, excused>>
  BY <1>1 DEF UpdateWrites, ValidFields, Answered, mediaAndRuns
<1>3. updating' \in [Editors -> {NoUpdate, [NoUpdate EXCEPT !.at = "done"]}
                                \cup [at : {"write"}, id : Ids, read : ProjectRows]]
  BY <1>2 DEF ProjectsInv, ProjectsTypes
<1>4. CASE ~(new.from # new.to /\ projectRow[p].there)
  <2>1. UNCHANGED projectRow
    BY <1>2, <1>4
  <2>2. ProjectsTypes'
    BY <1>2, <1>3, <2>1 DEF ProjectsInv, ProjectsTypes
  <2> QED
    BY <1>2, <2>1, <2>2, RowsQuiet
<1>5. CASE new.from # new.to /\ projectRow[p].there
  <2>1. projectRow[p] \in ProjectRows /\ new.from \in Tongues /\ new.to \in Tongues
    <3>1. new.from \in Tongues /\ new.to \in Tongues
      BY DEF ProjectRows
    <3> QED
      BY <3>1 DEF ProjectsInv, ProjectsTypes
  <2>2. PICK row \in ProjectRows :
          row = [projectRow[p] EXCEPT !.from = new.from, !.to = new.to, !.idle = FALSE]
    BY <2>1 DEF ProjectRows
  <2>3. /\ row.there = projectRow[p].there /\ row.source = projectRow[p].source
        /\ row.from # row.to
    BY <1>5, <2>1, <2>2 DEF ProjectRows
  <2>4. projectRow' = [projectRow EXCEPT ![p] = row]
    BY <1>2, <1>5, <2>2
  <2>5. projectRow'[p] = row /\ \A q \in Ids \ {p} : projectRow'[q] = projectRow[q]
    BY <2>4 DEF ProjectsInv, ProjectsTypes
  <2>6. ProjectsTypes'
    <3>1. projectRow' \in [Ids -> ProjectRows]
      BY <2>4 DEF ProjectsInv, ProjectsTypes
    <3> QED
      BY <1>2, <1>3, <3>1 DEF ProjectsInv, ProjectsTypes
  <2>7. \A q \in Ids : projectRow'[q].there = projectRow[q].there /\ projectRow'[q].source = projectRow[q].source
    BY <2>3, <2>5
  <2>8. BornOnce' /\ SourceIsPlaced' /\ DirectoryIsMade'
    BY <1>2, <2>7 DEF ProjectsInv, BornOnce, SourceIsPlaced, DirectoryIsMade
  <2>9. NoOrphanDirectory' /\ SourceIsWhereTheRowSays'
    BY <1>2, <2>7 DEF ProjectsInv, ProjectsTypes, RowsMatchTheDisk, NoOrphanDirectory, SourceIsWhereTheRowSays
  <2>10. LanguagesDiffer'
    BY <2>3, <2>5 DEF ProjectsInv, RowsMatchTheDisk, LanguagesDiffer
  <2> QED
    BY <2>6, <2>8, <2>9, <2>10 DEF ProjectsInv, RowsMatchTheDisk
<1> QED
  BY <1>4, <1>5

\* A step that only notes when the project was last used.
LEMMA RowsIdle ==
  ASSUME ProjectsInv, NEW p \in Ids, NEW b \in BOOLEAN, projectRow' = [projectRow EXCEPT ![p].idle = b],
         UNCHANGED <<place, tree, creating, updating, keeper, dropping, removing, excused>>
  PROVE  ProjectsInv'
<1>1. PICK row \in ProjectRows : row = [projectRow[p] EXCEPT !.idle = b]
  <2>1. projectRow[p] \in ProjectRows
    BY DEF ProjectsInv, ProjectsTypes
  <2> QED
    BY <2>1 DEF ProjectRows
<1>2. row.there = projectRow[p].there /\ row.source = projectRow[p].source /\ row.from = projectRow[p].from
      /\ row.to = projectRow[p].to
  BY <1>1 DEF ProjectsInv, ProjectsTypes, ProjectRows
<1>3. projectRow' = [projectRow EXCEPT ![p] = row]
  BY <1>1
<1>4. projectRow'[p] = row /\ \A q \in Ids \ {p} : projectRow'[q] = projectRow[q]
  BY <1>3 DEF ProjectsInv, ProjectsTypes
<1>5. ProjectsTypes'
  <2>1. projectRow' \in [Ids -> ProjectRows]
    BY <1>3 DEF ProjectsInv, ProjectsTypes
  <2> QED
    BY <2>1 DEF ProjectsInv, ProjectsTypes
<1>6. \A q \in Ids : /\ projectRow'[q].there = projectRow[q].there /\ projectRow'[q].source = projectRow[q].source
                     /\ projectRow'[q].from = projectRow[q].from /\ projectRow'[q].to = projectRow[q].to
  BY <1>2, <1>4
<1>7. BornOnce' /\ SourceIsPlaced' /\ DirectoryIsMade'
  BY <1>6 DEF ProjectsInv, BornOnce, SourceIsPlaced, DirectoryIsMade
<1>8. NoOrphanDirectory'
  <2>1. tree \subseteq Ids
    BY DEF ProjectsInv, ProjectsTypes
  <2> QED
    BY <1>6, <2>1 DEF ProjectsInv, RowsMatchTheDisk, NoOrphanDirectory
<1>9. SourceIsWhereTheRowSays'
  BY <1>6 DEF ProjectsInv, RowsMatchTheDisk, SourceIsWhereTheRowSays
<1>10. LanguagesDiffer'
  BY <1>6 DEF ProjectsInv, RowsMatchTheDisk, LanguagesDiffer
<1> QED
  BY <1>5, <1>7, <1>8, <1>9, <1>10 DEF ProjectsInv, RowsMatchTheDisk

\* The runs of a project.
LEMMA RunsStep ==
  ASSUME ProjectsInv, NEW p \in Ids, ProjectIdles(p) \/ RunBegins(p) \/ RunWrites(p) \/ RunStops(p)
  PROVE  ProjectsInv'
<1>1. CASE ProjectIdles(p)
  BY <1>1, RowsIdle DEF ProjectIdles, mediaAndRuns
<1>2. CASE RunBegins(p)
  BY <1>2, RowsIdle DEF RunBegins
<1>3. CASE RunWrites(p)
  <2>1. /\ tree' = tree \cup {p} /\ excused' = IF projectRow[p].there THEN excused ELSE excused \cup {p}
        /\ UNCHANGED <<place, projectRow, creating, updating, keeper, dropping, removing>>
    BY <1>3 DEF RunWrites
  <2>2. ProjectsTypes'
    BY <2>1 DEF ProjectsInv, ProjectsTypes
  <2>3. BornOnce' /\ SourceIsPlaced' /\ DirectoryIsMade'
    BY <2>1 DEF ProjectsInv, BornOnce, SourceIsPlaced, DirectoryIsMade
  <2>4. NoOrphanDirectory' /\ SourceIsWhereTheRowSays' /\ LanguagesDiffer'
    BY <2>1 DEF ProjectsInv, RowsMatchTheDisk, NoOrphanDirectory, SourceIsWhereTheRowSays, LanguagesDiffer
  <2> QED
    BY <2>2, <2>3, <2>4 DEF ProjectsInv, RowsMatchTheDisk
<1>4. CASE RunStops(p)
  <2>1. UNCHANGED <<place, projectRow, tree, creating, updating, keeper, dropping, removing, excused>>
    BY <1>4 DEF RunStops
  <2>2. ProjectsTypes'
    BY <2>1 DEF ProjectsInv, ProjectsTypes
  <2> QED
    BY <2>1, <2>2, RowsQuiet
<1> QED
  BY <1>1, <1>2, <1>3, <1>4

\* The row of a project goes.
LEMMA DeleteRowStep ==
  ASSUME ProjectsInv, NEW p \in Ids, NEW files \in BOOLEAN, DeleteRow(p, files),
         UNCHANGED <<place, tree, creating, updating, removing>>,
         keeper' \in [at : {"asleep", "next"}, left : SUBSET Ids, id : {""}]
                    \cup [at : {"delete"}, left : SUBSET Ids, id : Ids]
  PROVE  ProjectsInv'
<1>1. /\ projectRow[p].there /\ projectRow' = [projectRow EXCEPT ![p] = NoRow]
      /\ dropping' = IF files THEN dropping \cup {p} ELSE dropping
      /\ excused' = IF files THEN excused ELSE excused \cup {p}
  BY DEF DeleteRow
<1>2. NoRow \in ProjectRows /\ ~NoRow.there
  BY DEF NoRow, ProjectRows, Tongues
<1>3. projectRow'[p] = NoRow /\ \A q \in Ids \ {p} : projectRow'[q] = projectRow[q]
  BY <1>1 DEF ProjectsInv, ProjectsTypes
<1>4. ProjectsTypes'
  <2>1. projectRow' \in [Ids -> ProjectRows]
    BY <1>1, <1>2 DEF ProjectsInv, ProjectsTypes
  <2> QED
    BY <1>1, <2>1 DEF ProjectsInv, ProjectsTypes
<1>5. creating[p].at \notin {"new", "place", "insert"}
  BY <1>1 DEF ProjectsInv, BornOnce
<1>6. BornOnce'
  BY <1>1, <1>2, <1>3, <1>5 DEF ProjectsInv, BornOnce
<1>7. SourceIsPlaced' /\ DirectoryIsMade'
  BY DEF ProjectsInv, SourceIsPlaced, DirectoryIsMade
<1>8. NoOrphanDirectory'
  BY <1>1, <1>3 DEF ProjectsInv, ProjectsTypes, RowsMatchTheDisk, NoOrphanDirectory
<1>9. SourceIsWhereTheRowSays' /\ LanguagesDiffer'
  BY <1>1, <1>2, <1>3 DEF ProjectsInv, RowsMatchTheDisk, SourceIsWhereTheRowSays, LanguagesDiffer
<1> QED
  BY <1>4, <1>6, <1>7, <1>8, <1>9 DEF ProjectsInv, RowsMatchTheDisk

\* Its directory goes.
LEMMA DeleteFilesStep ==
  ASSUME ProjectsInv, NEW p \in Ids, DeleteFiles(p)
  PROVE  ProjectsInv'
<1>1. /\ p \in dropping /\ tree' = tree \ {p} /\ place' = Emptied(p) /\ dropping' = dropping \ {p}
      /\ UNCHANGED <<projectRow, creating, updating, keeper, removing, excused>>
  BY DEF DeleteFiles, creation
<1>2. /\ place' \in [Media -> {User, Part, Staged, Path, Thrown} \cup {InProject(q) : q \in Ids}]
      /\ \A m \in Media, q \in Ids \ {p} : place[m] = InProject(q) => place'[m] = InProject(q)
  BY <1>1, EmptiedOne DEF ProjectsInv
<1>3. ~projectRow[p].there /\ creating[p].at \notin {"new", "place", "insert"}
  BY <1>1 DEF ProjectsInv, BornOnce
<1>4. ProjectsTypes'
  BY <1>1, <1>2 DEF ProjectsInv, ProjectsTypes
<1>5. BornOnce' /\ DirectoryIsMade'
  BY <1>1, <1>3 DEF ProjectsInv, BornOnce, DirectoryIsMade
<1>6. SourceIsPlaced'
  <2> SUFFICES ASSUME NEW q \in Ids, creating'[q].at = "insert" PROVE place'[creating'[q].of] = InProject(q)
    BY DEF SourceIsPlaced
  <2>1. q # p /\ creating[q].of \in Media /\ place[creating[q].of] = InProject(q)
    BY <1>1, <1>3 DEF ProjectsInv, ProjectsTypes, SourceIsPlaced
  <2> QED
    BY <1>1, <1>2, <2>1
<1>7. NoOrphanDirectory' /\ LanguagesDiffer'
  BY <1>1 DEF ProjectsInv, RowsMatchTheDisk, NoOrphanDirectory, LanguagesDiffer
<1>8. SourceIsWhereTheRowSays'
  BY <1>1, <1>2, <1>3 DEF ProjectsInv, RowsMatchTheDisk, SourceIsWhereTheRowSays
<1> QED
  BY <1>4, <1>5, <1>6, <1>7, <1>8 DEF ProjectsInv, RowsMatchTheDisk

\* The source of a project goes: its files, then the row's word of it.
LEMMA RemoveSourceStep ==
  ASSUME ProjectsInv, NEW p \in Ids, RemoveSource(p) \/ RemoveSourceFiles(p)
  PROVE  ProjectsInv'
<1>1. CASE RemoveSource(p)
  <2>1. /\ projectRow[p].there /\ removing' = [removing EXCEPT ![p] = "source"]
        /\ UNCHANGED <<place, projectRow, tree, creating, updating, keeper, dropping, excused>>
    BY <1>1 DEF RemoveSource, creation
  <2>2. removing[p] = "none" /\ removing'[p] = "source" /\ \A q \in Ids \ {p} : removing'[q] = removing[q]
    BY <1>1, <2>1 DEF RemoveSource, ProjectsInv, ProjectsTypes
  <2>3. ProjectsTypes'
    BY <2>1 DEF ProjectsInv, ProjectsTypes
  <2>4. BornOnce' /\ SourceIsPlaced' /\ DirectoryIsMade'
    BY <2>1, <2>2 DEF ProjectsInv, BornOnce, SourceIsPlaced, DirectoryIsMade
  <2>5. NoOrphanDirectory' /\ LanguagesDiffer'
    BY <2>1 DEF ProjectsInv, RowsMatchTheDisk, NoOrphanDirectory, LanguagesDiffer
  <2>6. SourceIsWhereTheRowSays'
    BY <2>1, <2>2 DEF ProjectsInv, RowsMatchTheDisk, SourceIsWhereTheRowSays
  <2> QED
    BY <2>3, <2>4, <2>5, <2>6 DEF ProjectsInv, RowsMatchTheDisk
<1>2. CASE RemoveSourceFiles(p)
  <2>1. /\ removing[p] = "source" /\ removing' = [removing EXCEPT ![p] = "path"] /\ place' = Emptied(p)
        /\ UNCHANGED <<projectRow, tree, creating, updating, keeper, dropping, excused>>
    BY <1>2 DEF RemoveSourceFiles, creation
  <2>2. removing'[p] = "path" /\ \A q \in Ids \ {p} : removing'[q] = removing[q]
    BY <2>1 DEF ProjectsInv, ProjectsTypes
  <2>3. /\ place' \in [Media -> {User, Part, Staged, Path, Thrown} \cup {InProject(q) : q \in Ids}]
        /\ \A m \in Media, q \in Ids \ {p} : place[m] = InProject(q) => place'[m] = InProject(q)
    BY <2>1, EmptiedOne DEF ProjectsInv
  <2>4. ProjectsTypes'
    BY <2>1, <2>3 DEF ProjectsInv, ProjectsTypes
  <2>5. creating[p].at \notin {"new", "place", "insert"}
    BY <2>1 DEF ProjectsInv, BornOnce
  <2>6. BornOnce' /\ DirectoryIsMade'
    BY <2>1, <2>2, <2>5 DEF ProjectsInv, BornOnce, DirectoryIsMade
  <2>7. SourceIsPlaced'
    <3> SUFFICES ASSUME NEW q \in Ids, creating'[q].at = "insert" PROVE place'[creating'[q].of] = InProject(q)
      BY DEF SourceIsPlaced
    <3>1. q # p /\ creating[q].of \in Media /\ place[creating[q].of] = InProject(q)
      BY <2>1, <2>5 DEF ProjectsInv, ProjectsTypes, SourceIsPlaced
    <3> QED
      BY <2>1, <2>3, <3>1
  <2>8. NoOrphanDirectory' /\ LanguagesDiffer'
    BY <2>1 DEF ProjectsInv, RowsMatchTheDisk, NoOrphanDirectory, LanguagesDiffer
  <2>9. SourceIsWhereTheRowSays'
    BY <2>1, <2>2, <2>3 DEF ProjectsInv, RowsMatchTheDisk, SourceIsWhereTheRowSays
  <2> QED
    BY <2>4, <2>6, <2>7, <2>8, <2>9 DEF ProjectsInv, RowsMatchTheDisk
<1> QED
  BY <1>1, <1>2

LEMMA ClearSourcePathStep ==
  ASSUME ProjectsInv, NEW p \in Ids, ClearSourcePath(p)
  PROVE  ProjectsInv'
<1>1. /\ removing' = [removing EXCEPT ![p] = "none"]
      /\ projectRow' = IF projectRow[p].there THEN [projectRow EXCEPT ![p].source = FALSE, ![p].idle = FALSE]
                       ELSE projectRow
      /\ UNCHANGED <<place, tree, creating, updating, keeper, dropping, excused>>
  BY DEF ClearSourcePath, creation
<1>2. projectRow[p] \in ProjectRows
  BY DEF ProjectsInv, ProjectsTypes
<1>3. PICK row \in ProjectRows :
        row = IF projectRow[p].there THEN [projectRow[p] EXCEPT !.source = FALSE, !.idle = FALSE] ELSE projectRow[p]
  BY <1>2 DEF ProjectRows
<1>4. /\ row.there = projectRow[p].there /\ row.from = projectRow[p].from /\ row.to = projectRow[p].to
      /\ row.there => ~row.source
  BY <1>2, <1>3 DEF ProjectRows
<1>5. projectRow' = [projectRow EXCEPT ![p] = row]
  <2>1. CASE projectRow[p].there
    BY <1>1, <1>3, <2>1
  <2>2. CASE ~projectRow[p].there
    BY <1>1, <1>3, <2>2 DEF ProjectsInv, ProjectsTypes
  <2> QED
    BY <2>1, <2>2
<1>6. /\ projectRow'[p] = row /\ \A q \in Ids \ {p} : projectRow'[q] = projectRow[q]
      /\ removing'[p] = "none" /\ \A q \in Ids \ {p} : removing'[q] = removing[q]
  BY <1>1, <1>5 DEF ProjectsInv, ProjectsTypes
<1>7. ProjectsTypes'
  <2>1. projectRow' \in [Ids -> ProjectRows]
    BY <1>5 DEF ProjectsInv, ProjectsTypes
  <2>2. removing' \in [Ids -> {"none", "source", "path"}]
    BY <1>1 DEF ProjectsInv, ProjectsTypes
  <2> QED
    BY <1>1, <2>1, <2>2 DEF ProjectsInv, ProjectsTypes
<1>8. \A q \in Ids : /\ projectRow'[q].there = projectRow[q].there
                     /\ projectRow'[q].from = projectRow[q].from /\ projectRow'[q].to = projectRow[q].to
                     /\ removing'[q] \in {"none", removing[q]}
  BY <1>4, <1>6
<1>9. BornOnce'
  BY <1>1, <1>8 DEF ProjectsInv, BornOnce
<1>10. SourceIsPlaced' /\ DirectoryIsMade'
  BY <1>1 DEF ProjectsInv, SourceIsPlaced, DirectoryIsMade
<1>11. NoOrphanDirectory'
  <2>1. tree \subseteq Ids
    BY DEF ProjectsInv, ProjectsTypes
  <2> QED
    BY <1>1, <1>8, <2>1 DEF ProjectsInv, RowsMatchTheDisk, NoOrphanDirectory
<1>12. LanguagesDiffer'
  BY <1>8 DEF ProjectsInv, RowsMatchTheDisk, LanguagesDiffer
<1>13. SourceIsWhereTheRowSays'
  BY <1>1, <1>4, <1>6 DEF ProjectsInv, RowsMatchTheDisk, SourceIsWhereTheRowSays
<1> QED
  BY <1>7, <1>9, <1>10, <1>11, <1>12, <1>13 DEF ProjectsInv, RowsMatchTheDisk

\* The maintenance pass.
LEMMA KeeperStep ==
  ASSUME ProjectsInv, KeeperLists \/ KeeperSleeps \/ (\E p \in Ids : KeeperTakes(p)) \/ KeeperDeletes
  PROVE  ProjectsInv'
<1> DEFINE Passes == [at : {"asleep", "next"}, left : SUBSET Ids, id : {""}]
                     \cup [at : {"delete"}, left : SUBSET Ids, id : Ids]
<1>1. keeper \in Passes
  BY DEF ProjectsInv, ProjectsTypes
<1>2. ASSUME UNCHANGED <<place, projectRow, tree, dropping, removing, excused, creation>>, keeper' \in Passes
      PROVE  ProjectsInv'
  <2>1. UNCHANGED <<creating, updating>>
    BY <1>2 DEF creation
  <2>2. ProjectsTypes'
    BY <1>2, <2>1 DEF ProjectsInv, ProjectsTypes
  <2> QED
    BY <1>2, <2>1, <2>2, RowsQuiet
<1>3. CASE KeeperLists
  <2>1. keeper' \in Passes
    BY <1>3 DEF KeeperLists
  <2> QED
    BY <1>2, <1>3, <2>1 DEF KeeperLists
<1>4. CASE KeeperSleeps
  <2>1. keeper' \in Passes
    BY <1>4 DEF KeeperSleeps, NoPass
  <2> QED
    BY <1>2, <1>4, <2>1 DEF KeeperSleeps
<1>5. ASSUME NEW p \in Ids, KeeperTakes(p) PROVE ProjectsInv'
  <2>1. keeper.at = "next" /\ keeper \in [at : {"next"}, left : SUBSET Ids, id : {""}]
    BY <1>1, <1>5 DEF KeeperTakes
  <2>2. keeper' = [at |-> IF p \in working THEN "next" ELSE "delete", left |-> keeper.left \ {p},
                   id |-> IF p \in working THEN "" ELSE p]
    BY <1>5, <2>1 DEF KeeperTakes
  <2>3. keeper' \in Passes
    BY <2>1, <2>2
  <2> QED
    BY <1>2, <1>5, <2>3 DEF KeeperTakes
<1>6. CASE KeeperDeletes
  <2>1. keeper \in [at : {"delete"}, left : SUBSET Ids, id : Ids]
    BY <1>1, <1>6 DEF KeeperDeletes
  <2>2. keeper' = [at |-> "next", left |-> keeper.left, id |-> ""]
    BY <1>6, <2>1 DEF KeeperDeletes
  <2>3. keeper' \in Passes
    BY <2>1, <2>2
  <2>4. CASE DeleteRow(keeper.id, TRUE)
    <3>1. UNCHANGED <<place, tree, creating, updating, removing>> /\ keeper.id \in Ids
      BY <1>6, <2>1 DEF KeeperDeletes, creation
    <3> QED
      BY <2>3, <2>4, <3>1, DeleteRowStep
  <2>5. CASE UNCHANGED <<projectRow, dropping, excused>>
    BY <1>2, <1>6, <2>3, <2>5 DEF KeeperDeletes
  <2> QED
    BY <1>6, <2>4, <2>5 DEF KeeperDeletes
<1> QED
  BY <1>3, <1>4, <1>5, <1>6

LEMMA RestartStep ==
  ASSUME ProjectsInv, Restart
  PROVE  ProjectsInv'
<1>1. /\ excused' = excused \cup {p \in Ids : creating[p].at \in {"place", "insert"}}
                            \cup {p \in Ids : removing[p] # "none" \/ p \in dropping}
      /\ dropping' = {} /\ removing' = [p \in Ids |-> "none"] /\ keeper' = NoPass
      /\ UNCHANGED <<projectRow, tree>>
  BY DEF Restart
<1>2. \A p \in Ids : /\ removing'[p] = "none"
                     /\ creating'[p].at \in {"new", "done"}
                     /\ creating'[p].at = "new" => creating[p].at = "new"
  BY DEF Restart, ProjectsInv, ProjectsTypes
<1>3. \A m \in Media, p \in Ids : place[m] = InProject(p) => place'[m] = InProject(p)
  BY PlacesDiffer DEF Restart
<1>4. ProjectsTypes'
  <2>1. place' \in [Media -> {User, Part, Staged, Path, Thrown} \cup {InProject(p) : p \in Ids}]
    BY DEF Restart, ProjectsInv, ProjectsTypes
  <2>2. creating' \in [Ids -> [at : {"new", "done"}, of : {""}] \cup [at : {"place", "insert", "tidy"}, of : Media]]
    BY DEF Restart, ProjectsInv, ProjectsTypes
  <2>3. updating' \in [Editors -> {NoUpdate, [NoUpdate EXCEPT !.at = "done"]}
                                  \cup [at : {"write"}, id : Ids, read : ProjectRows]]
    BY DEF Restart
  <2>4. keeper' \in [at : {"asleep", "next"}, left : SUBSET Ids, id : {""}]
    BY <1>1 DEF NoPass
  <2> QED
    BY <1>1, <2>1, <2>2, <2>3, <2>4 DEF ProjectsInv, ProjectsTypes
<1>5. BornOnce' /\ SourceIsPlaced' /\ DirectoryIsMade'
  BY <1>1, <1>2 DEF ProjectsInv, BornOnce, SourceIsPlaced, DirectoryIsMade
<1>6. NoOrphanDirectory' /\ LanguagesDiffer'
  <2>1. tree \subseteq Ids
    BY DEF ProjectsInv, ProjectsTypes
  <2> QED
    BY <1>1, <2>1 DEF ProjectsInv, RowsMatchTheDisk, NoOrphanDirectory, LanguagesDiffer
<1>7. SourceIsWhereTheRowSays'
  BY <1>1, <1>2, <1>3 DEF ProjectsInv, RowsMatchTheDisk, SourceIsWhereTheRowSays
<1> QED
  BY <1>4, <1>5, <1>6, <1>7 DEF ProjectsInv, RowsMatchTheDisk

LEMMA ProjectsStep == ProjectsInv /\ [ProjectsNext]_projectVars => ProjectsInv'
<1> SUFFICES ASSUME ProjectsInv, [ProjectsNext]_projectVars PROVE ProjectsInv'
  OBVIOUS
<1>1. ASSUME NEW m \in Media, UploadBegins(m) \/ UploadEnds(m) \/ UploadDiscarded(m) \/ UploadAges(m)
      PROVE  ProjectsInv'
  BY <1>1, UploadStep
<1>2. ASSUME NEW p \in Ids, CreateBegins(p) \/ CreatePlaces(p) \/ CreateInserts(p) \/ CreateTidies(p)
      PROVE  ProjectsInv'
  BY <1>2, CreateBeginsStep, CreatePlacesStep, CreateInsertsStep, CreateTidiesStep
<1>3. ASSUME NEW p \in Ids, ProjectIdles(p) \/ RunBegins(p) \/ RunWrites(p) \/ RunStops(p)
      PROVE  ProjectsInv'
  BY <1>3, RunsStep
<1>4. ASSUME NEW p \in Ids, Delete(p)
      PROVE  ProjectsInv'
  <2>1. PICK files \in BOOLEAN : DeleteRow(p, files)
    BY <1>4 DEF Delete
  <2>2. UNCHANGED <<place, tree, creating, updating, removing>> /\ keeper' = keeper
    BY <1>4 DEF Delete, creation
  <2>3. keeper' \in [at : {"asleep", "next"}, left : SUBSET Ids, id : {""}]
                   \cup [at : {"delete"}, left : SUBSET Ids, id : Ids]
    BY <2>2 DEF ProjectsInv, ProjectsTypes
  <2> QED
    BY <2>1, <2>2, <2>3, DeleteRowStep
<1>5. ASSUME NEW p \in Ids, DeleteFiles(p) \/ RemoveSource(p) \/ RemoveSourceFiles(p) \/ ClearSourcePath(p)
      PROVE  ProjectsInv'
  BY <1>5, DeleteFilesStep, RemoveSourceStep, ClearSourcePathStep
<1>6. ASSUME NEW e \in Editors, UpdateReads(e) \/ UpdateWrites(e)
      PROVE  ProjectsInv'
  BY <1>6, UpdateReadsStep, UpdateWritesStep
<1>7. CASE KeeperLists \/ KeeperSleeps \/ (\E p \in Ids : KeeperTakes(p)) \/ KeeperDeletes
  BY <1>7, KeeperStep
<1>8. CASE Restart
  BY <1>8, RestartStep
<1>9. CASE UNCHANGED projectVars
  <2>1. UNCHANGED <<place, projectRow, tree, creating, updating, keeper, dropping, removing, excused>>
    BY <1>9 DEF projectVars
  <2>2. ProjectsTypes'
    BY <2>1 DEF ProjectsInv, ProjectsTypes
  <2> QED
    BY <2>1, <2>2, RowsQuiet
<1> QED
  BY <1>1, <1>2, <1>3, <1>4, <1>5, <1>6, <1>7, <1>8, <1>9 DEF ProjectsNext

\* Whatever requests, runs, removals, expiries and deaths of the process
\* interleave, the rows of the projects, their directories and the media in
\* them agree (project.Create, Delete, Update, RemoveGroup and ClearSourcePath,
\* each a sequence of statements and file operations), for every number of
\* projects, media, edits and restarts.
THEOREM ProjectsMatch == ProjectsSpec => []RowsMatchTheDisk
<1>1. ProjectsInv => RowsMatchTheDisk
  BY DEF ProjectsInv
<1> QED
  BY <1>1, ProjectsBegin, ProjectsStep, PTL DEF ProjectsSpec

-----------------------------------------------------------------------------
(* Outputs: what a project hands out. *)

QueueIsASeq == \E S : queue \in Seq(S)

\* The set that is being published is of the run that publishes it, and takes
\* the place of the old one when nothing of that is left.
SetIsOfOneRun ==
  /\ publishAt \in {"name", "copy"} => \A i \in DOMAIN queue : queue[i].version = version
  /\ publishAt \in {"copy", "clear", "swap"} => \A f \in staging : f.version = version
  /\ publishAt = "swap" => final = {}

\* The status that refuses a second generator is never lost while one is at
\* work, and one that has opened the temporary file is alone in it.
OneMaker ==
  /\ makers \in [Viewers -> {"none", "begun", "writing", "written"}]
  /\ \A v, w \in Viewers : makers[v] # "none" /\ makers[w] # "none" => v = w
  /\ \A v \in Viewers : /\ makers[v] # "none" => status = "running"
                        /\ makers[v] \in {"writing", "written"} => temporary \subseteq {v}

OutputsInv == QueueIsASeq /\ SetIsOfOneRun /\ OneMaker /\ HandsOutWholes

\* Whatever a file is called, a list of distinct names stays one when it is
\* added.
LEMMA AddedIsDistinct ==
  ASSUME NEW S, NEW list \in Seq(S), NEW entry,
         \A i, j \in DOMAIN list : list[i].name = list[j].name => i = j,
         \A i \in DOMAIN list : list[i].version = version
  PROVE  /\ \E T : Added(list, entry) \in Seq(T)
         /\ \A i, j \in DOMAIN Added(list, entry) :
              Added(list, entry)[i].name = Added(list, entry)[j].name => i = j
         /\ \A i \in DOMAIN Added(list, entry) : Added(list, entry)[i].version = version
<1>1. PICK name : name = IF entry.name \in {list[i].name : i \in DOMAIN list}
                         THEN <<entry.stage>> \o entry.name ELSE entry.name
  OBVIOUS
<1>2. CASE name \in {list[i].name : i \in DOMAIN list}
  <2>1. Added(list, entry) = list
    BY <1>1, <1>2 DEF Added
  <2> QED
    BY <2>1
<1>3. CASE name \notin {list[i].name : i \in DOMAIN list}
  <2>1. PICK f : f = File(name, entry.stage, version)
    OBVIOUS
  <2>2. f.name = name /\ f.version = version
    BY <2>1 DEF File
  <2>3. Added(list, entry) = Append(list, f)
    BY <1>1, <1>3, <2>1 DEF Added
  <2>4. list \in Seq(S \cup {f})
    OBVIOUS
  <2>5. PICK n \in Nat : n = Len(list)
    OBVIOUS
  <2>6. /\ Append(list, f) \in Seq(S \cup {f}) /\ Len(Append(list, f)) = n + 1
        /\ \A i \in 1 .. n : Append(list, f)[i] = list[i]
        /\ Append(list, f)[n + 1] = f
    BY <2>4, <2>5, AppendProperties
  <2>7. DOMAIN Append(list, f) = 1 .. n + 1 /\ DOMAIN list = 1 .. n
    BY <2>4, <2>5, <2>6
  <2>8. \A i \in 1 .. n : list[i].name # name
    BY <1>3, <2>7
  <2>9. \A i \in 1 .. n + 1 : i \in 1 .. n \/ i = n + 1
    OBVIOUS
  <2>10. \A i, j \in 1 .. n + 1 : Append(list, f)[i].name = Append(list, f)[j].name => i = j
    BY <2>2, <2>6, <2>7, <2>8, <2>9
  <2>11. \A i \in 1 .. n + 1 : Append(list, f)[i].version = version
    BY <2>2, <2>6, <2>7, <2>9
  <2> QED
    BY <2>3, <2>6, <2>7, <2>10, <2>11
<1> QED
  BY <1>2, <1>3

LEMMA OutputsBegin == OutputsInit => OutputsInv
<1> SUFFICES ASSUME OutputsInit PROVE OutputsInv
  OBVIOUS
<1>1. QueueIsASeq
  <2>1. << >> \in Seq({})
    OBVIOUS
  <2> QED
    BY <2>1 DEF OutputsInit, QueueIsASeq
<1>2. SetIsOfOneRun /\ OneMaker
  BY DEF OutputsInit, SetIsOfOneRun, OneMaker
<1>3. HandsOutWholes
  BY DEF OutputsInit, HandsOutWholes, OutputsAreOfOneRun, NamesAreDistinct, PreviewIsWhole
<1> QED
  BY <1>1, <1>2, <1>3 DEF OutputsInv

\* A run publishes.
LEMMA PublishStep ==
  ASSUME OutputsInv, RunPublishes \/ PublishNames \/ PublishPlans \/ PublishCopies
                     \/ PublishClears \/ PublishSwaps \/ RemoveOutput
  PROVE  OutputsInv'
<1>1. UNCHANGED <<makers, status, temporary, preview>>
  BY DEF RunPublishes, PublishNames, PublishPlans, PublishCopies, PublishClears, PublishSwaps,
         RemoveOutput, previewing
<1>2. OneMaker' /\ PreviewIsWhole'
  BY <1>1 DEF OutputsInv, OneMaker, HandsOutWholes, PreviewIsWhole
<1>3. QueueIsASeq /\ SetIsOfOneRun /\ OutputsAreOfOneRun /\ NamesAreDistinct
  BY DEF OutputsInv, HandsOutWholes
<1>4. SUFFICES QueueIsASeq' /\ SetIsOfOneRun' /\ OutputsAreOfOneRun' /\ NamesAreDistinct'
  BY <1>2 DEF OutputsInv, HandsOutWholes
<1>5. CASE RunPublishes
  <2>1. publishAt' = "name" /\ queue' = << >> /\ UNCHANGED final
    BY <1>5 DEF RunPublishes
  <2>2. << >> \in Seq({})
    OBVIOUS
  <2> QED
    BY <1>3, <2>1, <2>2 DEF QueueIsASeq, SetIsOfOneRun, OutputsAreOfOneRun, NamesAreDistinct
<1>6. CASE PublishNames
  <2>1. /\ publishAt = "name" /\ queue' = Added(queue, Head(unnamed))
        /\ UNCHANGED <<version, final, staging, publishAt>>
    BY <1>6 DEF PublishNames
  <2>2. /\ \E T : queue' \in Seq(T)
        /\ \A i, j \in DOMAIN queue' : queue'[i].name = queue'[j].name => i = j
        /\ \A i \in DOMAIN queue' : queue'[i].version = version
    BY <1>3, <2>1, AddedIsDistinct DEF QueueIsASeq, SetIsOfOneRun, NamesAreDistinct
  <2> QED
    BY <1>3, <2>1, <2>2 DEF QueueIsASeq, SetIsOfOneRun, OutputsAreOfOneRun, NamesAreDistinct
<1>7. CASE PublishPlans
  BY <1>3, <1>7 DEF PublishPlans, QueueIsASeq, SetIsOfOneRun, OutputsAreOfOneRun, NamesAreDistinct
<1>8. CASE PublishCopies
  <2>1. /\ publishAt = "copy" /\ queue # << >> /\ UNCHANGED <<version, final>>
    BY <1>8 DEF PublishCopies
  <2>2. CASE /\ staging' = staging \cup {Head(queue)} /\ queue' = Tail(queue)
             /\ publishAt' = IF queue' = << >> THEN "clear" ELSE "copy"
    <3>1. PICK S : queue \in Seq(S)
      BY <1>3 DEF QueueIsASeq
    <3>2. /\ Tail(queue) \in Seq(S) /\ Len(Tail(queue)) = Len(queue) - 1
          /\ \A i \in 1 .. Len(Tail(queue)) : Tail(queue)[i] = queue[i + 1]
      BY <2>1, <3>1, HeadTailProperties
    <3>3. Head(queue) = queue[1] /\ Len(queue) \in Nat \ {0} /\ DOMAIN queue = 1 .. Len(queue)
      BY <2>1, <3>1
    <3>4. PICK n \in Nat : n = Len(queue) - 1 /\ Len(queue) = n + 1
      <4>1. \A k \in Nat \ {0} : k - 1 \in Nat /\ k = (k - 1) + 1
        OBVIOUS
      <4> QED
        BY <3>3, <4>1
    <3>5. DOMAIN Tail(queue) = 1 .. n /\ DOMAIN queue = 1 .. n + 1 /\ Len(Tail(queue)) = n
      <4>1. DOMAIN Tail(queue) = 1 .. Len(Tail(queue))
        BY <3>2
      <4> QED
        BY <3>2, <3>3, <3>4, <4>1
    <3>6. \A i \in DOMAIN queue' : i + 1 \in DOMAIN queue /\ queue'[i] = queue[i + 1] /\ i \in Nat
      <4>1. \A i \in 1 .. n : i + 1 \in 1 .. n + 1 /\ i \in Nat
        OBVIOUS
      <4> QED
        BY <2>2, <3>2, <3>5, <4>1
    <3>7. \A i \in DOMAIN queue' : queue'[i].version = version
      BY <1>3, <2>1, <3>6 DEF SetIsOfOneRun
    <3>8. NamesAreDistinct'
      BY <1>3, <3>6 DEF NamesAreDistinct
    <3>9. Head(queue).version = version
      BY <1>3, <2>1, <3>3 DEF SetIsOfOneRun
    <3> QED
      BY <1>3, <2>1, <2>2, <3>2, <3>7, <3>8, <3>9 DEF QueueIsASeq, SetIsOfOneRun, OutputsAreOfOneRun
  <2>3. CASE staging' = {} /\ queue' = << >> /\ publishAt' = "idle"
    <3>1. << >> \in Seq({})
      OBVIOUS
    <3> QED
      BY <1>3, <2>1, <2>3, <3>1 DEF QueueIsASeq, SetIsOfOneRun, OutputsAreOfOneRun, NamesAreDistinct
  <2> QED
    BY <1>8, <2>2, <2>3 DEF PublishCopies
<1>9. CASE PublishClears
  BY <1>3, <1>9 DEF PublishClears, QueueIsASeq, SetIsOfOneRun, OutputsAreOfOneRun, NamesAreDistinct
<1>10. CASE PublishSwaps
  BY <1>3, <1>10 DEF PublishSwaps, QueueIsASeq, SetIsOfOneRun, OutputsAreOfOneRun, NamesAreDistinct
<1>11. CASE RemoveOutput
  BY <1>3, <1>11 DEF RemoveOutput, QueueIsASeq, SetIsOfOneRun, OutputsAreOfOneRun, NamesAreDistinct
<1> QED
  BY <1>5, <1>6, <1>7, <1>8, <1>9, <1>10, <1>11

\* A preview is made.
LEMMA PreviewStep ==
  ASSUME OutputsInv, NEW v \in Viewers,
         PreviewLooks(v) \/ PreviewLocks(v) \/ PreviewOpens(v) \/ PreviewWrites(v)
         \/ PreviewRenames(v) \/ PreviewFails(v)
  PROVE  OutputsInv'
<1>1. UNCHANGED <<version, final, staging, queue, publishAt>>
  BY DEF PreviewLooks, PreviewLocks, PreviewOpens, PreviewWrites, PreviewRenames, PreviewFails, publishing
<1>2. QueueIsASeq' /\ SetIsOfOneRun' /\ OutputsAreOfOneRun' /\ NamesAreDistinct'
  BY <1>1 DEF OutputsInv, HandsOutWholes, QueueIsASeq, SetIsOfOneRun, OutputsAreOfOneRun, NamesAreDistinct
<1>3. OneMaker /\ PreviewIsWhole
  BY DEF OutputsInv, HandsOutWholes
<1>4. SUFFICES OneMaker' /\ PreviewIsWhole'
  BY <1>2 DEF OutputsInv, HandsOutWholes
<1>5. CASE PreviewLooks(v)
  BY <1>3, <1>5 DEF PreviewLooks, OneMaker, PreviewIsWhole
<1>6. CASE PreviewLocks(v)
  BY <1>3, <1>6 DEF PreviewLocks, OneMaker, PreviewIsWhole
<1>7. CASE PreviewOpens(v)
  BY <1>3, <1>7 DEF PreviewOpens, OneMaker, PreviewIsWhole
<1>8. CASE PreviewWrites(v)
  BY <1>3, <1>8 DEF PreviewWrites, OneMaker, PreviewIsWhole
<1>9. CASE PreviewRenames(v)
  BY <1>3, <1>9 DEF PreviewRenames, OneMaker, PreviewIsWhole
<1>10. CASE PreviewFails(v)
  BY <1>3, <1>10 DEF PreviewFails, OneMaker, PreviewIsWhole
<1> QED
  BY <1>5, <1>6, <1>7, <1>8, <1>9, <1>10

LEMMA OutputsStep == OutputsInv /\ [OutputsNext]_outputVars => OutputsInv'
<1> SUFFICES ASSUME OutputsInv, [OutputsNext]_outputVars PROVE OutputsInv'
  OBVIOUS
<1>1. CASE RunPublishes \/ PublishNames \/ PublishPlans \/ PublishCopies
           \/ PublishClears \/ PublishSwaps \/ RemoveOutput
  BY <1>1, PublishStep
<1>2. ASSUME NEW v \in Viewers, PreviewLooks(v) \/ PreviewLocks(v) \/ PreviewOpens(v) \/ PreviewWrites(v)
                                \/ PreviewRenames(v) \/ PreviewFails(v)
      PROVE  OutputsInv'
  BY <1>2, PreviewStep
<1>3. CASE RemovePreview
  <2>1. /\ preview' = {} /\ temporary' = {}
        /\ UNCHANGED <<version, final, staging, queue, publishAt, status, makers>>
    BY <1>3 DEF RemovePreview, publishing
  <2> QED
    BY <2>1 DEF OutputsInv, QueueIsASeq, SetIsOfOneRun, OneMaker, HandsOutWholes, OutputsAreOfOneRun,
                NamesAreDistinct, PreviewIsWhole
<1>4. CASE OutputsRestart
  <2>1. /\ publishAt' = "idle" /\ queue' = << >> /\ makers' = [v \in Viewers |-> "none"]
        /\ UNCHANGED <<final, preview>>
    BY <1>4 DEF OutputsRestart
  <2>2. << >> \in Seq({})
    OBVIOUS
  <2> QED
    BY <2>1, <2>2 DEF OutputsInv, QueueIsASeq, SetIsOfOneRun, OneMaker, HandsOutWholes, OutputsAreOfOneRun,
                      NamesAreDistinct, PreviewIsWhole
<1>5. CASE UNCHANGED outputVars
  BY <1>5 DEF outputVars, OutputsInv, QueueIsASeq, SetIsOfOneRun, OneMaker, HandsOutWholes, OutputsAreOfOneRun,
              NamesAreDistinct, PreviewIsWhole
<1> QED
  BY <1>1, <1>2, <1>3, <1>4, <1>5 DEF OutputsNext

\* What a project hands out is of one run, under one name each, and a preview
\* is the work of one generator, however publications, previews, removals and
\* deaths of the process interleave (app.publishOutputs, project.PublishOutputs,
\* startEditorPreview and GenerateEditorPreview), for any stages, file names,
\* runs and requests.
THEOREM OutputsAreWhole == OutputsSpec => []HandsOutWholes
<1>1. OutputsInv => HandsOutWholes
  BY DEF OutputsInv
<1> QED
  BY <1>1, OutputsBegin, OutputsStep, PTL DEF OutputsSpec
=============================================================================
