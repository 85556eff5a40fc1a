------------------------------ MODULE Segments ------------------------------
(***************************************************************************)
(* The lines of one project (internal/segments): the rows a run writes and *)
(* the requests of the editor that read and change them, together with     *)
(* the part of a run that stores lines and quality findings                *)
(* (app.persistLines, the qc stage, app.persist).                          *)
(*                                                                         *)
(* A word stands for itself and for its time, so a sequence of words is    *)
(* both the source text and the timing of a line.  A row's identifier is   *)
(* derived from its ordinal (DeriveID), so the ordinal stands for it.  A   *)
(* translation is abstracted to who wrote it and which words it renders.   *)
(*                                                                         *)
(* Every request reads with one statement and writes with another; nothing *)
(* ties the two together.  Only the write of a splice and the replacement  *)
(* by a run are transactions.                                              *)
(***************************************************************************)
EXTENDS Integers, FiniteSets, SequencesExt

CONSTANTS
  Requests,  \* the editor's requests, each made once
  Scripts,   \* the sequences of lines a run may produce
  MaxRuns,   \* bound on the number of runs
  MaxRacing  \* bound on the requests made while requests may interleave

Ascends(words) == \A i, j \in DOMAIN words : i < j => words[i] < words[j]

\* Within a line of a run's artifact a later word has a later time.
ASSUME SegmentsAssumption ==
  /\ MaxRuns \in Nat /\ MaxRacing \in Nat
  /\ Scripts \subseteq Seq(Seq(Nat))
  /\ \A s \in Scripts : \A k \in DOMAIN s : Ascends(s[k])

VARIABLES
  rows,      \* the table: ordinal -> line
  req,       \* the state of each request
  overlap,   \* whether requests and runs may interleave
  runs,      \* the number of runs that have stored lines
  script,    \* the lines of the last run's artifact
  runAt,     \* where the run in progress is
  report,    \* the lines the qc stage reported, by the identifier it knows
  findings,  \* the lines with a finding in qc_results
  authored,  \* history: the texts a person wrote and has not changed since
  reshaped   \* history: a run stored lines over ones that are cut differently

segVars == <<rows, req, overlap, runs, script, runAt, report, findings, authored, reshaped>>

Words == UNION {ToSet(l) : l \in UNION {ToSet(s) : s \in Scripts}}
NilText == [by |-> "nobody", of |-> << >>]

\* Record, as a run stores it: a line without a text is marked for review.
Line(words, text) ==
  [words |-> words, src |-> words, text |-> text, edited |-> FALSE,
   needs |-> text = NilText, state |-> "none"]

ReviewStates == {"none", "pending", "approved", "rejected"}
Ops == {"text", "other", "split", "merge", "mergePrevious", "retranslate"}

NoRequest == [at |-> "idle", op |-> "none", id |-> 0, text |-> NilText,
              rec |-> Line(<< >>, NilText), next |-> Line(<< >>, NilText)]

SegmentsTypeOK ==
  /\ DOMAIN rows \subseteq Nat \ {0}
  /\ \A o \in DOMAIN rows :
       /\ {rows[o].words, rows[o].src} \subseteq Seq(Words)
       /\ rows[o].text.by \in {"nobody", "model", "human"}
       /\ rows[o].state \in ReviewStates
       /\ {rows[o].edited, rows[o].needs} \subseteq BOOLEAN
  /\ \A r \in Requests :
       /\ req[r].at \in {"idle", "look", "ask", "get", "second", "put", "done"}
       /\ req[r].op \in Ops \cup {"none"}
  /\ overlap \in BOOLEAN
  /\ runs \in 0..MaxRuns
  /\ runAt \in {"idle", "check", "save", "saved"}
  /\ findings \subseteq Nat \ {0}
  /\ reshaped \in BOOLEAN

SegmentsInit ==
  /\ rows = << >>
  /\ req = [r \in Requests |-> NoRequest]
  /\ overlap \in BOOLEAN
  /\ runs = 0
  /\ script = << >>
  /\ runAt = "idle"
  /\ report = {}
  /\ findings = {}
  /\ authored = {}
  /\ reshaped = FALSE

-----------------------------------------------------------------------------
(* The statements of the repository.                                       *)

\* The rows in their order: the i-th has i - 1 rows before it.
Ordered(table) ==
  [i \in 1..Cardinality(DOMAIN table) |->
     table[CHOOSE o \in DOMAIN table : Cardinality({p \in DOMAIN table : p < o}) = i - 1]]

\* A mutant: the tail is numbered from the row before the splice.
SplicedFromZero(ordinal, replaced, replacement) ==
  LET kept == {o \in DOMAIN rows : o < ordinal}
      tail == Ordered([o \in {p \in DOMAIN rows : p >= ordinal + replaced} |-> rows[o]])
      new == replacement \o tail
  IN  [o \in kept \cup {ordinal + i - 2 : i \in DOMAIN new} |->
         IF o \in kept THEN rows[o] ELSE new[o - ordinal + 2]]

\* splice: the rows from an ordinal on are deleted and inserted again, with
\* the replacement in front and what followed the replaced rows behind it.
Spliced(ordinal, replaced, replacement) ==
  LET kept == {o \in DOMAIN rows : o < ordinal}
      tail == Ordered([o \in {p \in DOMAIN rows : p >= ordinal + replaced} |-> rows[o]])
      new == replacement \o tail
  IN  [o \in kept \cup {ordinal + i - 1 : i \in DOMAIN new} |->
         IF o \in kept THEN rows[o] ELSE new[o - ordinal + 1]]

\* Validate: a line has a source or a text, and its words follow one another.
Valid(line) ==
  /\ line.src # << >> \/ line.text # NilText
  /\ Ascends(line.words)

\* The two halves of a line, without a text and marked for review.
Half(line, words) ==
  [line EXCEPT !.words = words, !.src = words, !.text = NilText, !.edited = FALSE,
               !.needs = TRUE]

\* joinTranslations
Joined(a, b) ==
  IF a = NilText THEN b ELSE IF b = NilText THEN a
  ELSE [by |-> IF a.by = b.by THEN a.by ELSE "human", of |-> a.of \o b.of]

\* A mutant: the merged line keeps the mark of a line no person has touched.
MergedUnmarked(first, second) ==
  [first EXCEPT !.words = @ \o second.words, !.src = first.words \o second.words,
                !.text = Joined(first.text, second.text),
                !.needs = @ \/ second.needs]

\* mergePair
Merged(first, second) ==
  [first EXCEPT !.words = @ \o second.words, !.src = first.words \o second.words,
                !.text = Joined(first.text, second.text),
                !.needs = @ \/ second.needs, !.edited = TRUE]

\* A mutant: an edited line takes the run's text as well.
ReplacedText(old, new) == [new EXCEPT !.edited = old.edited, !.state = old.state]

\* The conflict clause of ReplaceFromArtifacts: the row takes everything from
\* the run except a text a person has edited, its review state and its flag.
Replaced(old, new) ==
  [new EXCEPT !.text = IF old.edited THEN old.text ELSE @,
              !.edited = old.edited,
              !.state = old.state]

-----------------------------------------------------------------------------
(* Requests of the editor.                                                 *)

Quiet == \A r \in Requests : req[r].at \in {"idle", "done"}
NoRun == runAt \in {"idle", "saved"}

reqConst == <<overlap, runs, script, report>>

\* The texts a person has written are no longer theirs to find once they
\* change the lines that hold them.
Disown(os) == authored \ {rows[o].text : o \in os \cap DOMAIN rows}

MayBegin(r) ==
  /\ req[r].at = "idle"
  /\ IF overlap THEN Cardinality({q \in Requests : req[q].at # "idle"}) < MaxRacing
     ELSE Quiet /\ NoRun

\* A person acts on the line they see.
Begin(r) ==
  /\ MayBegin(r)
  /\ \E op \in Ops, o \in DOMAIN rows :
       /\ req' = [req EXCEPT ![r] =
            [NoRequest EXCEPT
               !.at = CASE op = "retranslate" -> "ask" [] op = "mergePrevious" -> "look"
                        [] OTHER -> "get",
               !.op = op, !.id = o,
               !.text = IF op = "text" THEN [by |-> "human", of |-> rows[o].src] ELSE NilText]]
       /\ authored' = Disown(CASE op = "merge" -> {o, o + 1}
                               [] op = "mergePrevious" -> {o - 1, o}
                               [] op = "other" -> {}
                               [] OTHER -> {o})
  /\ UNCHANGED <<rows, reqConst, runAt, findings, reshaped>>

Ends(r) == req' = [req EXCEPT ![r] = [NoRequest EXCEPT !.at = "done"]]

\* RetranslateLine up to its call of Apply.  A model that returns nothing
\* usable leaves the text of the line as it was read.
Retranslate(r) ==
  /\ req[r].at = "ask"
  /\ IF req[r].id \notin DOMAIN rows THEN Ends(r)
     ELSE LET line == rows[req[r].id]
          IN  \E text \in {line.text, [by |-> "model", of |-> line.src]} :
                IF text = NilText THEN Ends(r)
                ELSE req' = [req EXCEPT ![r].at = "get", ![r].text = text]
  /\ UNCHANGED <<rows, reqConst, runAt, findings, authored, reshaped>>

\* relative: the merge with the previous line is a merge of the previous line.
Look(r) ==
  /\ req[r].at = "look"
  /\ LET o == req[r].id
     IN  IF o \notin DOMAIN rows \/ o - 1 \notin DOMAIN rows THEN Ends(r)
         ELSE req' = [req EXCEPT ![r].at = "get", ![r].id = o - 1]
  /\ UNCHANGED <<rows, reqConst, runAt, findings, authored, reshaped>>

\* Get
Read(r) ==
  /\ req[r].at = "get"
  /\ IF req[r].id \notin DOMAIN rows THEN Ends(r)
     ELSE req' = [req EXCEPT
            ![r].at = IF req[r].op \in {"merge", "mergePrevious"} THEN "second" ELSE "put",
            ![r].rec = rows[req[r].id]]
  /\ UNCHANGED <<rows, reqConst, runAt, findings, authored, reshaped>>

\* next, or the second Get of mergePair
ReadSecond(r) ==
  /\ req[r].at = "second"
  /\ IF req[r].id + 1 \notin DOMAIN rows THEN Ends(r)
     ELSE req' = [req EXCEPT ![r].at = "put", ![r].next = rows[req[r].id + 1]]
  /\ UNCHANGED <<rows, reqConst, runAt, findings, authored, reshaped>>

\* Apply: the row takes the fields of the record that was read and edited, but
\* for the source text.  A row that has gone in the meantime is no error.
Apply(r) ==
  /\ req[r].at = "put"
  /\ req[r].op \in {"text", "other", "retranslate"}
  /\ LET o == req[r].id
         edited == [req[r].rec EXCEPT !.text = IF req[r].op = "other" THEN @ ELSE req[r].text,
                                      !.edited = TRUE]
     IN  /\ rows' = IF o \in DOMAIN rows /\ Valid(edited)
                    THEN [rows EXCEPT ![o] = [edited EXCEPT !.src = rows[o].src]]
                    ELSE rows
         /\ authored' = IF req[r].op = "text" THEN authored \cup {req[r].text} ELSE authored
  /\ Ends(r)
  /\ UNCHANGED <<reqConst, runAt, findings, reshaped>>

\* A mutant: the tail is read after the lines that replace, not after those
\* that are replaced.
SpliceByReplacement(ordinal, replaced, replacement) ==
  /\ rows' = Spliced(ordinal, Len(replacement), replacement)
  /\ findings' = {o \in findings : o < ordinal}

\* Deleting a row deletes its findings, and a splice deletes every row from
\* its ordinal on before it inserts them again.
Splice(ordinal, replaced, replacement) ==
  /\ rows' = Spliced(ordinal, replaced, replacement)
  /\ findings' = {o \in findings : o < ordinal}

\* Split
Split(r) ==
  /\ req[r].at = "put"
  /\ req[r].op = "split"
  /\ LET line == req[r].rec
     IN  IF Len(line.words) < 2 THEN UNCHANGED <<rows, findings>>
         ELSE \E cut \in 1..(Len(line.words) - 1) :
                Splice(req[r].id, 1,
                       <<Half(line, SubSeq(line.words, 1, cut)),
                         Half(line, SubSeq(line.words, cut + 1, Len(line.words)))>>)
  /\ Ends(r)
  /\ UNCHANGED <<reqConst, runAt, authored, reshaped>>

\* mergePair
Merge(r) ==
  /\ req[r].at = "put"
  /\ req[r].op \in {"merge", "mergePrevious"}
  /\ LET line == Merged(req[r].rec, req[r].next)
     IN  IF Valid(line) THEN Splice(req[r].id, 2, <<line>>)
         ELSE UNCHANGED <<rows, findings>>
  /\ Ends(r)
  /\ UNCHANGED <<reqConst, runAt, authored, reshaped>>

\* SetReviewState, one statement: approved and rejected from the editor, and
\* the bulk actions pending and clear.
Review(r) ==
  /\ MayBegin(r)
  /\ \E o \in DOMAIN rows, state \in ReviewStates :
       rows' = [rows EXCEPT ![o].state = state, ![o].needs = (state = "pending")]
  /\ Ends(r)
  /\ UNCHANGED <<reqConst, runAt, findings, authored, reshaped>>

-----------------------------------------------------------------------------
(* A run.                                                                  *)

\* The translation or polish stage settles and persistLines writes its lines:
\* those of a script, some of which the model returned nothing for.
RunStoresLines ==
  /\ NoRun
  /\ runs < MaxRuns
  /\ overlap \/ Quiet
  /\ \E s \in Scripts, failed \in SUBSET {1} :
       LET made == [i \in DOMAIN s |->
                      Line(s[i], IF i \in failed THEN NilText
                                 ELSE [by |-> "model", of |-> s[i]])]
       IN  /\ script' = s
           /\ rows' = [i \in DOMAIN s |->
                         IF i \in DOMAIN rows THEN Replaced(rows[i], made[i]) ELSE made[i]]
           /\ findings' = {o \in findings : o <= Len(s)}
           /\ reshaped' = (reshaped \/ (runs > 0 /\
                             [i \in DOMAIN rows |-> rows[i].src] # [i \in DOMAIN s |-> s[i]]))
  /\ runs' = runs + 1
  /\ runAt' = "check"
  /\ UNCHANGED <<req, overlap, report, authored>>

\* The qc stage: it checks the stored lines, which carry the identifiers of
\* their rows; UNTRANSLATED stands for its rules.
QcChecks ==
  /\ runAt = "check"
  /\ report' = {[kind |-> "row", n |-> o] : o \in {p \in DOMAIN rows : rows[p].text = NilText}}
  /\ runAt' = "save"
  /\ UNCHANGED <<rows, req, overlap, runs, script, findings, authored, reshaped>>

\* OrdinalMap: from the identifiers of the artifact's lines to those of rows.
OrdinalMap == [f \in {[kind |-> "artifact", n |-> i] : i \in DOMAIN script} |-> f.n]

\* persist: the findings of the report replace the unresolved ones.  One about
\* a line that is not in the map is dropped.
SaveFindings ==
  /\ runAt = "save"
  /\ findings' = {OrdinalMap[f] : f \in report \cap DOMAIN OrdinalMap}
  /\ runAt' = "saved"
  /\ UNCHANGED <<rows, req, overlap, runs, script, report, authored, reshaped>>

SegmentsNext ==
  \/ \E r \in Requests :
       \/ Begin(r) \/ Retranslate(r) \/ Look(r) \/ Read(r) \/ ReadSecond(r)
       \/ Apply(r) \/ Split(r) \/ Merge(r) \/ Review(r)
  \/ RunStoresLines \/ QcChecks \/ SaveFindings

SegmentsSpec == SegmentsInit /\ [][SegmentsNext]_segVars

-----------------------------------------------------------------------------
(* Properties *)

\* A text that no person has touched is the translation of the line it is
\* shown with, however requests and runs interleave: rows are renumbered,
\* replaced and cut by statements whose reads are stale.
MachineTextFitsItsLine ==
  \A o \in DOMAIN rows :
    ~rows[o].edited => rows[o].text \in {NilText, [by |-> "model", of |-> rows[o].src]}

\* Requests made one at a time never lose, repeat or reorder a word of the
\* transcript and leave no gap in the ordinals, whatever is split and merged.
TranscriptIsIntact ==
  ~overlap =>
    /\ DOMAIN rows = 1..Cardinality(DOMAIN rows)
    /\ FlattenSeq([o \in DOMAIN rows |-> rows[o].src]) = FlattenSeq(script)

\* What a person wrote stays with the words it was written for until they
\* change that line again: over edits and review decisions on it, splits and
\* merges before it, and runs that cut the transcript as the rows do.
HumanTextStays ==
  ~overlap /\ ~reshaped =>
    \A t \in authored : \E o \in DOMAIN rows : rows[o].text = t /\ rows[o].src = t.of

\* The words, the machine's texts and a person's texts each stay where they
\* belong.
LinesKeepTheirText == MachineTextFitsItsLine /\ TranscriptIsIntact /\ HumanTextStays
=============================================================================
