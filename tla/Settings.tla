------------------------------ MODULE Settings ------------------------------
(***************************************************************************)
(* The configuration (internal/config, internal/settings, app.New and the  *)
(* settings requests): layers of sparse documents resolved into the        *)
(* configuration in effect, the rows the interface stores, and the         *)
(* requests that change the rows and republish the configuration.          *)
(*                                                                         *)
(* A document is a function from some keys to values.  Numbers stand for   *)
(* values of every kind; one above 10 is a value of the same meaning that  *)
(* coerce writes in another way (blanks, a repeated list member).          *)
(***************************************************************************)
EXTENDS Integers, FiniteSets, Functions, Sequences

CONSTANTS
  FileDocument,  \* the configuration file
  EnvDocument,   \* the environment
  Flags,         \* the command line
  SettingsRequests, \* the requests that change settings, each made once
  MaxRacers,     \* bound on the requests made when requests may interleave
  MaxReboots     \* bound on the times the process is restarted

ASSUME SettingsAssumption == MaxReboots \in Nat /\ MaxRacers \in Nat

\* The keys a person can set: two that bound each other, in one section, and
\* one of another section; and one that only restarting changes.
Keys == {"subtitle.min_duration", "subtitle.max_duration", "asr.beam_size", "server.port"}
Section == [k \in Keys |-> CASE k = "asr.beam_size" -> "asr" [] k = "server.port" -> "server"
                             [] OTHER -> "subtitle"]

\* Catalog: what the interface may change, and the largest number it accepts.
Editable == Keys \ {"server.port"}
Largest == [k \in Editable |-> IF k = "asr.beam_size" THEN 3 ELSE 4]

\* Default
Defaults == [k \in Keys |-> CASE k = "subtitle.min_duration" -> 1
                              [] k = "subtitle.max_duration" -> 2 [] OTHER -> 1]

VARIABLES
  stored,    \* the settings table
  running,   \* the configuration in effect: its values and their provenance
  change,    \* the state of each request
  racing,    \* whether requests may interleave
  cleared,   \* history: a setting was cleared since the process started
  reboots

settingsVars == <<stored, running, change, racing, cleared, reboots>>

NoDocument == [k \in {} |-> 0]
NoChange == [at |-> "idle", kind |-> "", keys |-> {}, value |-> 0, read |-> NoDocument,
             result |-> [values |-> Defaults, from |-> [k \in Keys |-> "default"]]]

-----------------------------------------------------------------------------
(* Resolving.                                                              *)

Layer(source, data) == [source |-> source, data |-> data]
Trimmed(v) == v % 10

\* Validate
Acceptable(cfg) ==
  /\ \A k \in Keys : Trimmed(cfg[k]) >= 1
  /\ Trimmed(cfg["subtitle.max_duration"]) > Trimmed(cfg["subtitle.min_duration"])

\* A mutant: a layer replaces the configuration instead of laying over it.
OverlaidFresh(resolved, layer) ==
  [values |-> [k \in Keys |-> IF k \in DOMAIN layer.data THEN layer.data[k] ELSE Defaults[k]],
   from |-> [k \in Keys |-> IF k \in DOMAIN layer.data THEN layer.source ELSE resolved.from[k]]]

\* apply: the keys of a layer replace those of the layers below it.
Overlaid(resolved, layer) ==
  [values |-> [k \in Keys |-> IF k \in DOMAIN layer.data THEN layer.data[k]
                              ELSE resolved.values[k]],
   from |-> [k \in Keys |-> IF k \in DOMAIN layer.data THEN layer.source
                            ELSE resolved.from[k]]]

\* FileLayer, EnvLayer and what resolveConfig adds: file, environment, database,
\* command line, the later ones on top.
Layers(overrides) ==
  <<Layer("config_file", FileDocument), Layer("environment", EnvDocument),
    Layer("database", overrides), Layer("cli", Flags)>>

\* resolveConfig and Load
Resolve(overrides) ==
  LET layer == Layers(overrides)
  IN  Overlaid(Overlaid(Overlaid(Overlaid(NoChange.result, layer[1]), layer[2]), layer[3]), layer[4])

\* A process whose file, environment and flags are rejected does not start.
ASSUME StartsAssumption == Acceptable(Resolve(NoDocument).values)

\* Merge
MergeDocuments(document, values) == [k \in DOMAIN document \cup DOMAIN values |->
                              IF k \in DOMAIN values THEN values[k] ELSE document[k]]

\* Without: the whole section of the key is left out.
Without(document, key) ==
  Restrict(document, {k \in DOMAIN document : Section[k] # Section[key]})

\* A mutant: what is stored is taken as it is.
ReloadedAnyway == Resolve(stored)

\* New: what is stored reads as this at the next start; when it is rejected,
\* all of it is left out.
Reloaded == IF Acceptable(Resolve(stored).values) THEN Resolve(stored)
            ELSE Resolve(NoDocument)

-----------------------------------------------------------------------------

SettingsTypeOK ==
  /\ DOMAIN stored \subseteq Keys /\ \A k \in DOMAIN stored : stored[k] \in 1..9
  /\ running.from \in [Keys -> {"default", "config_file", "environment", "database", "cli"}]
  /\ \A r \in SettingsRequests :
       change[r].at \in {"idle", "resolve", "write", "publish", "done"}
  /\ racing \in BOOLEAN /\ cleared \in BOOLEAN
  /\ reboots \in 0..MaxReboots

SettingsInit ==
  /\ stored = NoDocument
  /\ running = Resolve(NoDocument)
  /\ change = [r \in SettingsRequests |-> NoChange]
  /\ racing \in BOOLEAN
  /\ cleared = FALSE
  /\ reboots = 0

Settled == \A r \in SettingsRequests : change[r].at \in {"idle", "done"}
Refused(r) == change' = [change EXCEPT ![r] = [NoChange EXCEPT !.at = "done"]]
others == <<racing, reboots>>

\* UpdateSettings or ClearSetting reads the stored rows.
ChangeReads(r) ==
  /\ change[r].at = "idle"
  /\ IF racing THEN Cardinality({q \in SettingsRequests : change[q].at # "idle"}) < MaxRacers
     ELSE Settled
  /\ \/ \E k \in Keys, v \in {0, 2, 4, 12} :
          change' = [change EXCEPT ![r] =
            [NoChange EXCEPT !.at = "resolve", !.kind = "set", !.keys = {k}, !.value = v,
                             !.read = stored]]
     \/ \E k \in Keys :
          change' = [change EXCEPT ![r] =
            [NoChange EXCEPT !.at = "resolve", !.kind = "clear", !.keys = {k}, !.read = stored]]
  /\ UNCHANGED <<stored, running, cleared, others>>

Asked(c) == [k \in c.keys |-> c.value]
TheKey(c) == CHOOSE k \in c.keys : TRUE

\* The document is resolved before anything is written; one that the
\* configuration rejects ends the request.
ChangeResolves(r) ==
  LET c == change[r]
      new == Resolve(IF c.kind = "set" THEN MergeDocuments(c.read, Asked(c)) ELSE Without(c.read, TheKey(c)))
  IN  /\ c.at = "resolve"
      /\ IF Acceptable(new.values)
         THEN change' = [change EXCEPT ![r].at = "write", ![r].result = new]
         ELSE Refused(r)
      /\ UNCHANGED <<stored, running, cleared, others>>

\* A mutant: the values are stored as they were sent.
CoercedNot(values) == values

\* coerce: the form in which a value is stored.
Coerced(values) == [k \in DOMAIN values |-> Trimmed(values[k])]

\* Set and Delete refuse a key that is not in the catalog; Set also refuses a
\* number outside its bounds.  What is stored is the coerced value.
ChangeWrites(r) ==
  LET c == change[r]
      allowed == c.keys \subseteq Editable
                 /\ (c.kind = "set" => \A k \in c.keys : Trimmed(c.value) <= Largest[k])
  IN  /\ c.at = "write"
      /\ IF ~allowed THEN Refused(r) /\ UNCHANGED <<stored, cleared>>
         ELSE /\ stored' = IF c.kind = "set" THEN MergeDocuments(stored, Coerced(Asked(c)))
                           ELSE Restrict(stored, DOMAIN stored \ c.keys)
              /\ cleared' = (cleared \/ c.kind = "clear")
              /\ change' = [change EXCEPT ![r].at = "publish"]
      /\ UNCHANGED <<running, others>>

\* A mutant: an update is not published.
ChangePublishesNothing(r) ==
  /\ change[r].at = "publish"
  /\ Refused(r)
  /\ UNCHANGED <<stored, running, cleared, others>>

\* publish: what was resolved before the write.
ChangePublishes(r) ==
  /\ change[r].at = "publish"
  /\ running' = change[r].result
  /\ Refused(r)
  /\ UNCHANGED <<stored, cleared, others>>

\* The process ends and is started again.
Reboot ==
  /\ reboots < MaxReboots
  /\ reboots' = reboots + 1
  /\ running' = Reloaded
  /\ change' = [r \in SettingsRequests |->
                  IF change[r].at = "idle" THEN NoChange ELSE [NoChange EXCEPT !.at = "done"]]
  /\ cleared' = FALSE
  /\ UNCHANGED <<stored, racing>>

SettingsNext ==
  \/ \E r \in SettingsRequests :
       ChangeReads(r) \/ ChangeResolves(r) \/ ChangeWrites(r) \/ ChangePublishes(r)
  \/ Reboot

SettingsSpec == SettingsInit /\ [][SettingsNext]_settingsVars

-----------------------------------------------------------------------------
(* Properties *)

\* The configuration in effect is one Validate accepts, whatever requests
\* interleave and whatever is stored when the process starts.
RunningIsAcceptable == Acceptable(running.values)

\* Requests made one at a time that only set values: what is in effect is what
\* the next start would read from the rows, so nobody changes a setting without
\* seeing its effect.
UpdatesAreSeen ==
  ~racing /\ ~cleared /\ Settled =>
    \A k \in Keys : Trimmed(running.values[k]) = Trimmed(Reloaded.values[k])

\* The layer the interface names as the source of a value is the one that the
\* value comes from, and no layer above it sets the key.
ProvenanceIsTrue ==
  \A k \in Keys :
    /\ running.from[k] = "cli" <=> k \in DOMAIN Flags
    /\ running.from[k] = "environment" => running.values[k] = EnvDocument[k]
    /\ running.from[k] = "config_file" =>
         k \notin DOMAIN EnvDocument /\ running.values[k] = FileDocument[k]
    /\ running.from[k] = "default" => running.values[k] = Defaults[k]

\* What is in effect is acceptable, is what was stored, and comes from where
\* the interface says it does.
SettingsAreTrue == RunningIsAcceptable /\ UpdatesAreSeen /\ ProvenanceIsTrue
=============================================================================
