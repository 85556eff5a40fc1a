------------------------------ MODULE MCEdits ------------------------------
(***************************************************************************)
(* What people and the pipeline change while others read it: the events of *)
(* a job, the lines of a project, the lines a segmenter makes, the         *)
(* glossary, the settings, the endpoints and the AI runtime.  The modules  *)
(* share no state, so a behaviour is of one of them, and the others stay   *)
(* as they began.                                                          *)
(***************************************************************************)
EXTENDS EventBus, Segments, Segmenter, Glossary, Settings, Providers, Runtime, TLC

VARIABLE active \* the part the behaviour is of

\* Three words, cut into two lines in either way.
TwoLines == {<<<<1, 2>>, <<3>>>>, <<<<1>>, <<2, 3>>>>}

\* Requests are numbered in the order they are made, which loses nothing.
RequestsInOrder == \A r \in Requests \ {1} : req'[r].at # "idle" => req'[r - 1].at # "idle"

Word(length, chars, mark) == [length |-> length, chars |-> chars, mark |-> mark]
FiveKinds == {Word(1, 3, "none"), Word(3, 3, "clause"), Word(3, 3, "sentence"),
              Word(1, 1, "sentence"), Word(1, 1, "particle")}

\* Two projects that share a text, and two terms.
TwoLanguages == [p |-> "zh", q |-> "en"]
SharedScript == [p |-> <<"hi", "both">>, q |-> <<"both">>]
FewTerms == [hi |-> {1}, both |-> {1, 2}]

\* The first entry is enabled and names its translation x, which is as good as y.
FirstEntry == \A e \in entries' : e.id = 1 => e.target = "x" /\ e.enabled

FromFile == "asr.beam_size" :> 2
FromEnv == "asr.beam_size" :> 3
FromFlags == "server.port" :> 7

\* No step of a client reads a row: a client is built after the first edit, and
\* then no row is edited.
EditsFirst == client' # NoClient => edits = 1 /\ UNCHANGED <<providers, tab, edits>>

\* One install is cancelled.
OneCancel == canceller' # Free => stopped = {}

\* Missing and failed are told apart on the screen alone.
FoundFailed == checker' # "missing" /\ \A i \in Installs : watcher'[i] # "missing"

editsVars == <<vars, segVars, segmenterVars, glossaryVars, settingsVars, providersVars, runtimeVars, active>>

EditsInit ==
  /\ active \in {"events", "lines", "segmenter", "glossary", "settings", "providers", "runtime"}
  /\ Init /\ SegmentsInit /\ SegmenterInit /\ GlossaryInit /\ SettingsInit /\ ProvidersInit /\ RuntimeInit
  /\ active # "lines" => ~overlap
  /\ active # "settings" => ~racing
  /\ active # "runtime" => venv = "none"

EditsNext ==
  /\ UNCHANGED active
  /\ \/ /\ active = "events" /\ Next
        /\ UNCHANGED <<segVars, segmenterVars, glossaryVars, settingsVars, providersVars, runtimeVars>>
     \/ /\ active = "lines" /\ SegmentsNext /\ RequestsInOrder
        /\ UNCHANGED <<vars, segmenterVars, glossaryVars, settingsVars, providersVars, runtimeVars>>
     \/ /\ active = "segmenter" /\ SegmenterNext
        /\ UNCHANGED <<vars, segVars, glossaryVars, settingsVars, providersVars, runtimeVars>>
     \/ /\ active = "glossary" /\ GlossaryNext /\ FirstEntry
        /\ UNCHANGED <<vars, segVars, segmenterVars, settingsVars, providersVars, runtimeVars>>
     \/ /\ active = "settings" /\ SettingsNext
        /\ UNCHANGED <<vars, segVars, segmenterVars, glossaryVars, providersVars, runtimeVars>>
     \/ /\ active = "providers" /\ ProvidersNext /\ EditsFirst
        /\ UNCHANGED <<vars, segVars, segmenterVars, glossaryVars, settingsVars, runtimeVars>>
     \/ /\ active = "runtime" /\ RuntimeNext /\ OneCancel /\ FoundFailed
        /\ UNCHANGED <<vars, segVars, segmenterVars, glossaryVars, settingsVars, providersVars>>

EditsSpec == EditsInit /\ [][EditsNext]_editsVars

\* Every variable that changes has its type; rings, retries and identifiers stay within
\* their limits.
EditsTypeOK ==
  CASE active = "events" -> TypeOK
    [] active = "lines" -> SegmentsTypeOK
    [] active = "segmenter" -> SegmenterTypeOK
    [] active = "glossary" -> GlossaryTypeOK
    [] active = "settings" -> SettingsTypeOK
    [] active = "providers" -> ProvidersTypeOK
    [] active = "runtime" -> RuntimeTypeOK
=============================================================================
