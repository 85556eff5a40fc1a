------------------------------ MODULE Glossary ------------------------------
(***************************************************************************)
(* The terminology of a project and what a cached line was made with       *)
(* (internal/glossary, and the key of internal/translation/cache.go).      *)
(* Entries are added and removed while passes of several projects run; a   *)
(* pass reads them once, sends with each request those that occur in its   *)
(* lines, and shares one table of translated lines with every project.     *)
(*                                                                         *)
(* A text is abstracted to the terms that occur in it, and a translation   *)
(* to what its prompt said: the language and the terms.  Terms are         *)
(* numbered in their order as strings.  How a pass batches and retries is  *)
(* modelled by Translator: here a request may hold any missing lines.      *)
(***************************************************************************)
EXTENDS Integers, FiniteSets, SequencesExt

CONSTANTS
  Owners,          \* the projects
  TargetLanguage,  \* of each project
  Script,          \* the texts of each project's lines
  Occurring,       \* the terms that occur in each text
  Translations,    \* what an entry may map its term to
  Priorities,
  MaxBlockEntries, \* the constant of that name
  MaxEntries, MaxRemovals, MaxPasses \* bounds on what users do

Terms == UNION {Occurring[t] : t \in DOMAIN Occurring}
Everywhere == "global" \* the scope of an entry without a project

ASSUME GlossaryAssumption ==
  /\ DOMAIN TargetLanguage = Owners /\ Script \in [Owners -> Seq(DOMAIN Occurring)]
  /\ Terms \subseteq Nat /\ Everywhere \notin Owners
  /\ Priorities \subseteq Nat /\ MaxBlockEntries \in Nat \ {0}
  /\ MaxEntries \in Nat /\ MaxRemovals \in Nat /\ MaxPasses \in Nat

VARIABLES
  entries,   \* the rows of glossaries
  added,     \* how many entries were added: the last id
  removed,   \* how many were removed
  lineCache, \* the rows of translation_cache: from a key to a translation
  pass       \* the translation of each project's lines

glossaryVars == <<entries, added, removed, lineCache, pass>>

NoTranslation == [language |-> "", terms |-> <<>>, whole |-> TRUE]
IdlePass == [at |-> "idle", glossary |-> {}, got |-> <<>>, runs |-> 0]

GlossaryInit ==
  /\ entries = {} /\ added = 0 /\ removed = 0
  /\ lineCache = <<>>
  /\ pass = [p \in Owners |-> IdlePass]

-----------------------------------------------------------------------------
(* Which entries a text is sent with. *)

\* List, without the disabled ones
ListEnabled(p) == {e \in entries : e.scope \in {p, Everywhere} /\ e.enabled}

MoreSpecificByPriority(a, b) ==
  IF a.priority # b.priority THEN a.priority < b.priority
  ELSE IF a.scope # b.scope THEN b.scope = Everywhere
  ELSE a.id > b.id

\* moreSpecific: every entry is manual, and a later one has the higher id.
MoreSpecific(a, b) ==
  IF (a.scope = Everywhere) # (b.scope = Everywhere) THEN b.scope = Everywhere
  ELSE IF a.priority # b.priority THEN a.priority < b.priority
  ELSE a.id > b.id

\* Of the entries for one term that occurs, the most specific one.
Winners(glossary, texts) ==
  LET occurring == {e \in glossary : \E t \in texts : e.source \in Occurring[t]}
  IN {e \in occurring : \A o \in occurring \ {e} : o.source = e.source => MoreSpecific(e, o)}

\* The order Match returns them in: one entry stands for each term.
Precedes(a, b) == IF a.priority # b.priority THEN a.priority < b.priority ELSE a.source < b.source

Match(glossary, texts) ==
  LET found == Winners(glossary, texts)
  IN [i \in 1 .. Cardinality(found) |->
        CHOOSE e \in found : Cardinality({o \in found : Precedes(o, e)}) = i - 1]

\* What the prompt and Hash show of an entry.
Shown(found) == [i \in DOMAIN found |-> [source |-> found[i].source, target |-> found[i].target]]

HashSources(found) == [i \in DOMAIN found |-> found[i].source]

\* Hash
Hash(found) == Shown(found)

\* Block: the terms past the limit are left out.
Block(found) == Shown(SubSeq(found, 1, IF Len(found) > MaxBlockEntries THEN MaxBlockEntries ELSE Len(found)))

CandidatesOfFirst(p) == ToSet(Match(pass[p].glossary, {Script[p][1]}))

\* The terms that occur anywhere in the project, from which each line's are taken.
Candidates(p) == ToSet(Match(pass[p].glossary, ToSet(Script[p])))

\* KeyInputs: the fields that differ between the passes modelled here.
LineKey(p, i) == [source |-> Script[p][i], glossary |-> Hash(Match(Candidates(p), {Script[p][i]}))]

-----------------------------------------------------------------------------
(* Entries *)

SaveEntryUnindexed(scope, source, target, priority, enabled) ==
  /\ added < MaxEntries
  /\ entries' = entries \cup {[id |-> added + 1, scope |-> scope, source |-> source, target |-> target,
                               priority |-> priority, enabled |-> enabled]}
  /\ added' = added + 1
  /\ UNCHANGED <<removed, lineCache, pass>>

\* Validate, Save and the two unique indexes; saveGlossary and glossary add
\* always insert.
SaveEntry(scope, source, target, priority, enabled) ==
  /\ added < MaxEntries
  /\ ~\E e \in entries : e.scope = scope /\ e.source = source
  /\ entries' = entries \cup {[id |-> added + 1, scope |-> scope, source |-> source, target |-> target,
                               priority |-> priority, enabled |-> enabled]}
  /\ added' = added + 1
  /\ UNCHANGED <<removed, lineCache, pass>>

\* glossary remove looks the entry up among those of no project.
RemoveEntry(e) ==
  /\ removed < MaxRemovals
  /\ e.scope = Everywhere
  /\ entries' = entries \ {e}
  /\ removed' = removed + 1
  /\ UNCHANGED <<added, lineCache, pass>>

-----------------------------------------------------------------------------
(* A pass over the lines of a project *)

\* glossaryEntries: the entries are read once.
PassBegins(p) ==
  /\ pass[p].at = "idle" /\ pass[p].runs < MaxPasses
  /\ pass' = [pass EXCEPT ![p] = [at |-> "planned", glossary |-> ListEnabled(p), runs |-> @.runs + 1,
                                  got |-> [i \in DOMAIN Script[p] |-> NoTranslation]]]
  /\ UNCHANGED <<entries, added, removed, lineCache>>

Missing(p) == {i \in DOMAIN pass[p].got : pass[p].got[i] = NoTranslation}

\* applyCache and Get
ApplyCache(p) ==
  LET hits == {i \in Missing(p) : LineKey(p, i) \in DOMAIN lineCache} IN
  /\ pass[p].at = "planned"
  /\ pass' = [pass EXCEPT ![p].at = "requests",
       ![p].got = [i \in DOMAIN @ |-> IF i \in hits THEN lineCache[LineKey(p, i)] ELSE @[i]]]
  /\ UNCHANGED <<entries, added, removed, lineCache>>

\* buildPrompt: the prompt of one request.
Prompt(p, lines) ==
  LET found == Match(pass[p].glossary, {Script[p][i] : i \in lines})
  IN [language |-> TargetLanguage[p], terms |-> Block(found), whole |-> Len(found) <= MaxBlockEntries]

\* A request that is answered for some of its lines; store and Put, which
\* leaves a key that is there alone.
RequestAnswered(p, lines, answered) ==
  /\ pass[p].at = "requests" /\ answered # {}
  /\ LET made == Prompt(p, lines)
         keys == {LineKey(p, i) : i \in answered} IN
       /\ pass' = [pass EXCEPT ![p].got = [i \in DOMAIN @ |-> IF i \in answered THEN made ELSE @[i]]]
       /\ lineCache' = [k \in DOMAIN lineCache \cup keys |->
                          IF k \in DOMAIN lineCache THEN lineCache[k] ELSE made]
  /\ UNCHANGED <<entries, added, removed>>

\* Every line has a text, or the pass gave up.
PassEnds(p) ==
  /\ pass[p].at = "requests"
  /\ pass' = [pass EXCEPT ![p] = [IdlePass EXCEPT !.runs = pass[p].runs]]
  /\ UNCHANGED <<entries, added, removed, lineCache>>

GlossaryNext ==
  \/ \E scope \in Owners \cup {Everywhere}, source \in Terms, target \in Translations,
        priority \in Priorities, enabled \in BOOLEAN : SaveEntry(scope, source, target, priority, enabled)
  \/ \E e \in entries : RemoveEntry(e)
  \/ \E p \in Owners :
       \/ PassBegins(p) \/ ApplyCache(p) \/ PassEnds(p)
       \/ \E lines \in SUBSET Missing(p) : \E answered \in SUBSET lines : RequestAnswered(p, lines, answered)

GlossarySpec == GlossaryInit /\ [][GlossaryNext]_glossaryVars

(***************************************************************************)
(* Properties                                                              *)
(***************************************************************************)
\* Every variable has its type, and a term has one entry in each scope.
GlossaryTypeOK ==
  /\ \A e \in entries : e.source \in Terms /\ e.scope \in Owners \cup {Everywhere} /\ e.id \in 1..added
  /\ \A e, o \in entries : e.scope = o.scope /\ e.source = o.source => e = o
  /\ added \in 0..MaxEntries /\ removed \in 0..MaxRemovals
  /\ \A p \in Owners : pass[p].runs \in 0..MaxPasses

\* The entries for one text that are in force for a project.
InForce(p, text) ==
  {e \in pass[p].glossary : e.source \in Occurring[text] /\
     \A o \in pass[p].glossary : o.source = e.source => (o.scope # Everywhere => e.scope # Everywhere)}

\* A translated line, made now or by another pass or project, in whatever
\* request and when whatever entries existed, was made with exactly the terms
\* that are in force for it: the project's own before those of every project,
\* whatever their priority.  The prompt must not have been cut at its limit.
MadeWithItsTerms ==
  \A p \in Owners :
    \A i \in DOMAIN pass[p].got :
      LET got == pass[p].got[i] IN
        got # NoTranslation /\ got.whole =>
          {<<term.source, term.target>> : term \in {t \in ToSet(got.terms) : t.source \in Occurring[Script[p][i]]}}
            = {<<e.source, e.target>> : e \in InForce(p, Script[p][i])}

\* A line is shown in the language of its project.
MadeInItsLanguage ==
  \A p \in Owners :
    \A i \in DOMAIN pass[p].got : pass[p].got[i] # NoTranslation => pass[p].got[i].language = TargetLanguage[p]
=============================================================================
