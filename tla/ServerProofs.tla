---------------------------- MODULE ServerProofs ----------------------------
(***************************************************************************)
(* What the server keeps for everyone promises for any number of rows,     *)
(* tabs, requests, settings and installs: the endpoints and their clients, *)
(* the AI runtime with its installer, and the configuration in effect.     *)
(* The three share no state.                                               *)
(***************************************************************************)
EXTENDS Providers, Runtime, Settings, FiniteSetTheorems, TLAPS

-----------------------------------------------------------------------------
(* The rows of the endpoints. *)

\* The rows and the requests that edit them have their types, and a row that
\* has had a key is there and has one.
RowsInv ==
  /\ providers \in [ProviderIds -> Records \cup {NoProvider}]
  /\ tab \in [Tabs -> {IdleTab} \cup [at : {"read"}, id : ProviderIds, record : Records]]
  /\ keyed \subseteq ProviderIds
  /\ \A p \in keyed : providers[p] # NoProvider
  /\ KeyIsNotErased

LEMMA PatchedIsARecord ==
  ASSUME NEW r \in Records \cup {NoProvider}, r # NoProvider, NEW b \in Bodies
  PROVE  Patched(r, b) \in Records
BY DEF Patched, Records, Bodies, NoProvider, NoKey

\* What Save leaves: every other row as it was, and the key of the saved one
\* whenever it had one.
LEMMA SavedKeepsKeys ==
  ASSUME NEW rows \in [ProviderIds -> Records \cup {NoProvider}],
         NEW id \in ProviderIds, NEW r \in Records
  PROVE  /\ Saved(rows, id, r) \in [ProviderIds -> Records \cup {NoProvider}]
         /\ \A p \in ProviderIds \ {id} : Saved(rows, id, r)[p] = rows[p]
         /\ rows[id] # NoProvider /\ rows[id].key # NoKey => Saved(rows, id, r)[id].key # NoKey
<1> DEFINE kept == [r EXCEPT !.key = IF r.key = NoKey /\ rows[id] # NoProvider THEN rows[id].key ELSE r.key]
<1>1. rows[id] # NoProvider => rows[id] \in Records
  OBVIOUS
<1>2. kept \in Records
  BY <1>1 DEF Records
<1>3. kept.key = IF r.key = NoKey /\ rows[id] # NoProvider THEN rows[id].key ELSE r.key
  BY DEF Records
<1>4. Saved(rows, id, r) = [rows EXCEPT ![id] = kept]
  BY DEF Saved
<1> QED
  BY <1>2, <1>3, <1>4

LEMMA RowsInit == ProvidersInit => RowsInv
BY DEF ProvidersInit, RowsInv, KeyIsNotErased

LEMMA RowsStep == RowsInv /\ [ProvidersNext]_providersVars => RowsInv'
<1> SUFFICES ASSUME RowsInv, [ProvidersNext]_providersVars PROVE RowsInv'
  OBVIOUS
<1>1. ASSUME NEW p \in ProviderIds, NEW r \in Records, CreateProvider(p, r) PROVE RowsInv'
  <2>1. /\ providers' \in [ProviderIds -> Records \cup {NoProvider}]
        /\ \A q \in ProviderIds \ {p} : providers'[q] = providers[q]
    BY <1>1, SavedKeepsKeys DEF CreateProvider, RowsInv
  <2>2. p \notin keyed
    BY <1>1 DEF CreateProvider, RowsInv
  <2> QED
    BY <1>1, <2>1, <2>2 DEF CreateProvider, RowsInv, Remembers, KeyIsNotErased
<1>2. ASSUME NEW t \in Tabs, NEW p \in ProviderIds, NEW b \in Bodies, UpdateProviderReads(t, p, b)
      PROVE  RowsInv'
  <2>1. Patched(providers[p], b) \in Records
    BY <1>2, PatchedIsARecord DEF UpdateProviderReads, RowsInv
  <2> QED
    BY <1>2, <2>1 DEF UpdateProviderReads, RowsInv, KeyIsNotErased
<1>3. ASSUME NEW t \in Tabs, UpdateProviderSaves(t) PROVE RowsInv'
  <2>1. tab[t].id \in ProviderIds /\ tab[t].record \in Records
    BY <1>3 DEF UpdateProviderSaves, RowsInv, IdleTab
  <2>2. tab' \in [Tabs -> {IdleTab} \cup [at : {"read"}, id : ProviderIds, record : Records]]
    BY <1>3 DEF UpdateProviderSaves, RowsInv
  <2>3. /\ providers' \in [ProviderIds -> Records \cup {NoProvider}]
        /\ \A q \in keyed : providers'[q].key # NoKey
    <3>1. CASE UNCHANGED providers
      BY <3>1 DEF RowsInv, KeyIsNotErased
    <3>2. CASE providers' = Saved(providers, tab[t].id, tab[t].record)
      <4> DEFINE id == tab[t].id
      <4>1. /\ providers' \in [ProviderIds -> Records \cup {NoProvider}]
            /\ \A q \in ProviderIds \ {id} : providers'[q] = providers[q]
            /\ providers[id] # NoProvider /\ providers[id].key # NoKey => providers'[id].key # NoKey
        BY <3>2, <2>1, SavedKeepsKeys DEF RowsInv
      <4> QED
        BY <4>1, <2>1 DEF RowsInv, KeyIsNotErased
    <3> QED
      BY <1>3, <3>1, <3>2 DEF UpdateProviderSaves
  <2> QED
    BY <1>3, <2>2, <2>3 DEF UpdateProviderSaves, RowsInv, Remembers, KeyIsNotErased
<1>4. ASSUME NEW p \in ProviderIds, DeleteProvider(p) PROVE RowsInv'
  BY <1>4 DEF DeleteProvider, RowsInv, Remembers, KeyIsNotErased
<1>5. CASE UNCHANGED <<providers, keyed, tab>>
  BY <1>5 DEF RowsInv, KeyIsNotErased
<1> QED
  BY <1>1, <1>2, <1>3, <1>4, <1>5
  DEF ProvidersNext, providersVars, BuildClient, ChatBegins, ReadsJSONMode, ReadsTokenField,
      ReadsReasoning, EndpointRejects, EndpointAnswers, ExchangeFails

-----------------------------------------------------------------------------
(* The client of a stage. *)

Underway == {"json", "tokens", "reasoning", "sent"}

Attempts == [at : Underway, wants : SUBSET Negotiable,
             sends : SUBSET (Negotiable \cup {"max_completion_tokens"}), corrections : 0 .. maxCorrections]

ClientTypes ==
  /\ client \in {NoClient} \cup [at : {"built"}, json : BOOLEAN, reasoning : BOOLEAN,
                                 tokens : {"max_tokens", "max_completion_tokens"}]
  /\ chat \in [ChatCalls ->
       [at : {"idle"}] \cup Attempts
       \cup [at : {"done"}, result : {"ok", "truncated", "failed", "rejected"}, named : SUBSET Negotiable]]
  /\ \A c \in ChatCalls : chat[c].at \in Underway => client # NoClient

\* The fields the client has given up, and whether a request is rid of one.
GivenUp(f) ==
  CASE f = "response_format" -> ~client.json
    [] f = "reasoning_effort" -> ~client.reasoning
    [] f = "max_tokens" -> client.tokens # "max_tokens"
RidOf(c, f) == IF GivenUp(f) /\ f \notin chat[c].sends THEN 1 ELSE 0

\* A request has been corrected at most once for every field that the client
\* has given up and the request does not send: a client that has given up a
\* field never sends it again while a request is under way.
CorrectionsCount ==
  \A c \in ChatCalls : chat[c].at \in Underway =>
    chat[c].corrections <= RidOf(c, "response_format") + RidOf(c, "reasoning_effort") + RidOf(c, "max_tokens")

ClientInv == ClientTypes /\ CorrectionsCount /\ NamedFieldsAreCorrected /\ OnlyQuotedFieldsAreDropped

LEMMA ClientInit == ProvidersInit => ClientInv
BY DEF ProvidersInit, ClientInv, ClientTypes, CorrectionsCount, NamedFieldsAreCorrected,
       OnlyQuotedFieldsAreDropped, Underway, NoClient

\* The field that is corrected was sent and is named; a complaint that names a
\* field the request sent has one corrected.
LEMMA CorrectionIsQuoted ==
  ASSUME NEW c \in ChatCalls, NEW named \in SUBSET Negotiable
  PROVE  /\ Correction(c, named) # "" => Correction(c, named) \in chat[c].sends \cap named
         /\ Correction(c, named) = "" => chat[c].sends \cap named = {}
BY DEF Correction, Negotiable

\* A request that reads a flag never adds a field the client has given up.
LEMMA ReadsFlag ==
  ASSUME ClientInv, NEW c \in ChatCalls, chat[c].at \in Underway, UNCHANGED <<quoted, client>>,
         NEW at \in Underway, NEW sends \in SUBSET (Negotiable \cup {"max_completion_tokens"}),
         chat' = [chat EXCEPT ![c].at = at, ![c].sends = sends],
         \A f \in (sends \cap Negotiable) \ chat[c].sends : ~GivenUp(f)
  PROVE  ClientInv'
<1> USE DEF ClientInv
<1>1. chat[c] \in Attempts
  BY DEF ClientTypes, Attempts, Underway
<1>2. /\ chat'[c] \in Attempts
      /\ chat'[c].at \in Underway /\ chat'[c].sends = sends /\ chat'[c].corrections = chat[c].corrections
      /\ \A d \in ChatCalls \ {c} : chat'[d] = chat[d]
  BY <1>1 DEF ClientTypes, Attempts
<1>3. ClientTypes'
  BY <1>2 DEF ClientTypes, Attempts
<1>4. CorrectionsCount'
  <2> SUFFICES ASSUME NEW d \in ChatCalls, chat'[d].at \in Underway
               PROVE  (chat[d].corrections <= RidOf(d, "response_format") + RidOf(d, "reasoning_effort")
                                               + RidOf(d, "max_tokens"))'
    BY DEF CorrectionsCount
  <2>1. \A f \in Negotiable : RidOf(d, f)' \in Nat /\ RidOf(d, f) \in Nat /\ RidOf(d, f)' >= RidOf(d, f)
    <3> SUFFICES ASSUME NEW f \in Negotiable
                 PROVE  RidOf(d, f)' \in Nat /\ RidOf(d, f) \in Nat /\ RidOf(d, f)' >= RidOf(d, f)
      OBVIOUS
    <3>1. GivenUp(f)' <=> GivenUp(f)
      BY DEF GivenUp, Negotiable
    <3>2. GivenUp(f) /\ f \notin chat[d].sends => f \notin chat'[d].sends
      BY <1>2 DEF Negotiable
    <3> QED
      BY <3>1, <3>2 DEF RidOf
  <2>2. /\ chat[d].corrections \in Nat /\ chat'[d].corrections = chat[d].corrections
        /\ chat[d].corrections <= RidOf(d, "response_format") + RidOf(d, "reasoning_effort") + RidOf(d, "max_tokens")
    BY <1>1, <1>2 DEF CorrectionsCount, ClientTypes, Attempts, Underway
  <2> HIDE DEF ClientInv
  <2> QED
    BY <2>1, <2>2 DEF Negotiable
<1>5. NamedFieldsAreCorrected' /\ OnlyQuotedFieldsAreDropped'
  BY <1>2 DEF NamedFieldsAreCorrected, OnlyQuotedFieldsAreDropped, Underway
<1> QED
  BY <1>3, <1>4, <1>5

LEMMA ClientStep == ClientInv /\ [ProvidersNext]_providersVars => ClientInv'
<1> SUFFICES ASSUME ClientInv, [ProvidersNext]_providersVars PROVE ClientInv'
  OBVIOUS
<1>1. CASE BuildClient
  BY <1>1 DEF BuildClient, NoClient, ClientInv, ClientTypes, CorrectionsCount, NamedFieldsAreCorrected,
              OnlyQuotedFieldsAreDropped, Underway, Attempts
<1>2. ASSUME NEW c \in ChatCalls, NEW j \in BOOLEAN, NEW e \in BOOLEAN, ChatBegins(c, j, e) PROVE ClientInv'
  <2>1. chat'[c] \in Attempts /\ chat'[c].corrections = 0 /\ chat'[c].at = "json"
    BY <1>2 DEF ChatBegins, Attempts, Underway, maxCorrections, ClientInv, ClientTypes
  <2>2. \A d \in ChatCalls \ {c} : chat'[d] = chat[d]
    BY <1>2 DEF ChatBegins, ClientInv, ClientTypes
  <2>3. ClientTypes'
    BY <1>2, <2>1, <2>2 DEF ChatBegins, ClientInv, ClientTypes
  <2>4. CorrectionsCount'
    BY <1>2, <2>1, <2>2 DEF ChatBegins, ClientInv, CorrectionsCount, RidOf, GivenUp
  <2> QED
    BY <1>2, <2>1, <2>2, <2>3, <2>4
    DEF ChatBegins, ClientInv, NamedFieldsAreCorrected, OnlyQuotedFieldsAreDropped
<1>3. ASSUME NEW c \in ChatCalls, ReadsJSONMode(c) PROVE ClientInv'
  <2> DEFINE sends == IF client.json THEN {"response_format"} \cap chat[c].wants ELSE {}
  <2>1. /\ chat[c].at \in Underway /\ UNCHANGED <<quoted, client>>
        /\ chat' = [chat EXCEPT ![c].at = "tokens", ![c].sends = sends]
    BY <1>3 DEF ReadsJSONMode, Underway
  <2>2. sends \in SUBSET (Negotiable \cup {"max_completion_tokens"})
    BY DEF Negotiable
  <2>3. \A f \in (sends \cap Negotiable) \ chat[c].sends : ~GivenUp(f)
    BY DEF Negotiable, GivenUp
  <2> QED
    BY <2>1, <2>2, <2>3, ReadsFlag DEF Underway
<1>4. ASSUME NEW c \in ChatCalls, ReadsTokenField(c) PROVE ClientInv'
  <2> DEFINE sends == chat[c].sends \cup {client.tokens}
  <2>1. /\ chat[c].at \in Underway /\ UNCHANGED <<quoted, client>>
        /\ chat' = [chat EXCEPT ![c].at = "reasoning", ![c].sends = sends]
    BY <1>4 DEF ReadsTokenField, Underway, ClientInv, ClientTypes
  <2>2. chat[c] \in Attempts /\ client \in [at : {"built"}, json : BOOLEAN, reasoning : BOOLEAN,
                                           tokens : {"max_tokens", "max_completion_tokens"}]
    BY <2>1 DEF Underway, ClientInv, ClientTypes
  <2>3. sends \in SUBSET (Negotiable \cup {"max_completion_tokens"})
    BY <2>2 DEF Negotiable, Attempts
  <2>4. \A f \in (sends \cap Negotiable) \ chat[c].sends : ~GivenUp(f)
    BY <2>2 DEF Negotiable, GivenUp
  <2> QED
    BY <2>1, <2>3, <2>4, ReadsFlag DEF Underway
<1>5. ASSUME NEW c \in ChatCalls, ReadsReasoning(c) PROVE ClientInv'
  <2> DEFINE sends == IF client.reasoning THEN chat[c].sends \cup ({"reasoning_effort"} \cap chat[c].wants)
                      ELSE chat[c].sends
  <2>1. /\ chat[c].at \in Underway /\ UNCHANGED <<quoted, client>>
        /\ chat' = [chat EXCEPT ![c].at = "sent", ![c].sends = sends]
    BY <1>5 DEF ReadsReasoning, Underway, ClientInv, ClientTypes
  <2>2. chat[c] \in Attempts
    BY <2>1 DEF Underway, ClientInv, ClientTypes
  <2>3. sends \in SUBSET (Negotiable \cup {"max_completion_tokens"})
    BY <2>2 DEF Negotiable, Attempts
  <2>4. \A f \in (sends \cap Negotiable) \ chat[c].sends : ~GivenUp(f)
    BY DEF Negotiable, GivenUp
  <2> QED
    BY <2>1, <2>3, <2>4, ReadsFlag DEF Underway
<1>6. ASSUME NEW c \in ChatCalls, NEW named \in SUBSET Negotiable, EndpointRejects(c, named) PROVE ClientInv'
  <2> DEFINE f == Correction(c, named)
  <2>1. /\ chat[c] \in Attempts /\ chat[c].at = "sent" /\ quoted' = quoted \cup (named \cap chat[c].sends)
        /\ client \in [at : {"built"}, json : BOOLEAN, reasoning : BOOLEAN,
                       tokens : {"max_tokens", "max_completion_tokens"}]
    BY <1>6 DEF EndpointRejects, Underway, ClientInv, ClientTypes
  <2>2. ASSUME chat[c].corrections < maxCorrections, f # "", client' = Learnt(f),
               chat' = [chat EXCEPT ![c].at = "json", ![c].sends = {}, ![c].corrections = @ + 1]
        PROVE  ClientInv'
    <3>1. f \in chat[c].sends /\ f \in quoted' /\ f \in Negotiable
      BY <2>1, <2>2, CorrectionIsQuoted
    <3>2. /\ client' \in [at : {"built"}, json : BOOLEAN, reasoning : BOOLEAN,
                          tokens : {"max_tokens", "max_completion_tokens"}]
          /\ \A g \in Negotiable : GivenUp(g)' <=> GivenUp(g) \/ g = f
      BY <2>1, <2>2, <3>1 DEF Learnt, GivenUp, Negotiable
    <3>3. /\ chat'[c] \in Attempts /\ chat'[c].corrections = chat[c].corrections + 1
          /\ chat'[c].sends = {} /\ chat'[c].at = "json"
          /\ \A d \in ChatCalls \ {c} : chat'[d] = chat[d]
      <4>1. chat'[c] = [chat[c] EXCEPT !.at = "json", !.sends = {}, !.corrections = @ + 1]
        BY <2>2 DEF ClientInv, ClientTypes
      <4>2. chat[c].corrections + 1 \in 0 .. maxCorrections
        <5>1. chat[c].corrections \in 0 .. maxCorrections /\ chat[c].corrections < maxCorrections
          BY <2>1, <2>2 DEF Attempts
        <5> QED
          BY <5>1 DEF maxCorrections
      <4>3. \A d \in ChatCalls \ {c} : chat'[d] = chat[d]
        BY <2>2 DEF ClientInv, ClientTypes
      <4> HIDE DEF f
      <4> QED
        BY <4>1, <4>2, <4>3, <2>1 DEF Attempts, Underway
    <3>4. ClientTypes'
      <4>1. chat' = [d \in ChatCalls |-> chat'[d]] /\ client' # NoClient
        BY <2>2, <3>2 DEF ClientInv, ClientTypes, NoClient
      <4> QED
        BY <4>1, <3>2, <3>3 DEF ClientInv, ClientTypes
    <3>5. CorrectionsCount'
      <4> SUFFICES ASSUME NEW d \in ChatCalls, chat'[d].at \in Underway
                   PROVE  (chat[d].corrections <= RidOf(d, "response_format") + RidOf(d, "reasoning_effort")
                                                  + RidOf(d, "max_tokens"))'
        BY DEF CorrectionsCount
      <4>1. \A g \in Negotiable : /\ RidOf(d, g)' \in Nat /\ RidOf(d, g) \in Nat /\ RidOf(d, g)' >= RidOf(d, g)
                                  /\ d = c /\ g = f => RidOf(d, g)' = 1 /\ RidOf(d, g) = 0
        BY <3>1, <3>2, <3>3 DEF RidOf
      <4>2. /\ chat[d].corrections \in Nat
            /\ chat'[d].corrections = IF d = c THEN chat[d].corrections + 1 ELSE chat[d].corrections
            /\ chat[d].corrections <= RidOf(d, "response_format") + RidOf(d, "reasoning_effort") + RidOf(d, "max_tokens")
        BY <2>1, <3>3 DEF ClientInv, CorrectionsCount, ClientTypes, Attempts, Underway
      <4> HIDE DEF f
      <4> QED
        BY <4>1, <4>2, <3>1 DEF Negotiable
    <3>6. OnlyQuotedFieldsAreDropped'
      BY <2>1, <3>1, <3>2 DEF ClientInv, OnlyQuotedFieldsAreDropped, GivenUp, Negotiable, NoClient
    <3>7. NamedFieldsAreCorrected'
      BY <3>3 DEF ClientInv, NamedFieldsAreCorrected
    <3> QED
      BY <3>4, <3>5, <3>6, <3>7 DEF ClientInv
  <2>3. ASSUME chat[c].corrections = maxCorrections \/ f = "", UNCHANGED client,
               chat' = [chat EXCEPT ![c] = [at |-> "done", result |-> "rejected", named |-> named \cap chat[c].sends]]
        PROVE  ClientInv'
    <3>1. named \cap chat[c].sends = {}
      <4>1. CASE f = ""
        BY <2>1, <4>1, CorrectionIsQuoted
      <4>2. CASE chat[c].corrections = maxCorrections
        <5>1. \A g \in Negotiable : RidOf(c, g) \in {0, 1} /\ (g \in chat[c].sends => RidOf(c, g) = 0)
          BY DEF RidOf
        <5>2. 3 <= RidOf(c, "response_format") + RidOf(c, "reasoning_effort") + RidOf(c, "max_tokens")
          BY <2>1, <4>2 DEF ClientInv, CorrectionsCount, Underway, maxCorrections
        <5>3. \A g \in Negotiable : g \notin chat[c].sends
          BY <5>1, <5>2 DEF Negotiable
        <5> QED
          BY <2>1, <5>3
      <4> QED
        BY <2>3, <4>1, <4>2
    <3>2. /\ chat'[c] = [at |-> "done", result |-> "rejected", named |-> {}]
          /\ \A d \in ChatCalls \ {c} : chat'[d] = chat[d]
      BY <2>3, <3>1 DEF ClientInv, ClientTypes
    <3>3. ClientTypes'
      BY <2>1, <2>3, <3>2 DEF ClientInv, ClientTypes, Underway
    <3>4. CorrectionsCount'
      <4>1. \A d \in ChatCalls \ {c}, g \in Negotiable : RidOf(d, g)' = RidOf(d, g)
        BY <2>3, <3>2 DEF RidOf, GivenUp, Negotiable
      <4> HIDE DEF f
      <4> QED
        BY <3>2, <4>1 DEF ClientInv, CorrectionsCount, Underway, Negotiable
    <3>5. NamedFieldsAreCorrected'
      BY <3>1, <3>2 DEF ClientInv, NamedFieldsAreCorrected
    <3>6. OnlyQuotedFieldsAreDropped'
      BY <2>1, <2>3 DEF ClientInv, OnlyQuotedFieldsAreDropped
    <3> QED
      BY <3>3, <3>4, <3>5, <3>6 DEF ClientInv
  <2> QED
    BY <1>6, <2>2, <2>3 DEF EndpointRejects
<1>7. ASSUME NEW c \in ChatCalls, NEW result \in {"ok", "truncated", "failed"}, EndpointAnswers(c, result)
      PROVE  ClientInv'
  BY <1>7 DEF EndpointAnswers, ClientInv, ClientTypes, CorrectionsCount, NamedFieldsAreCorrected,
              OnlyQuotedFieldsAreDropped, Underway, RidOf, GivenUp
<1>8. ASSUME NEW c \in ChatCalls, ExchangeFails(c) PROVE ClientInv'
  BY <1>8 DEF ExchangeFails, ClientInv, ClientTypes, CorrectionsCount, NamedFieldsAreCorrected,
              OnlyQuotedFieldsAreDropped, Underway, RidOf, GivenUp
<1>9. CASE UNCHANGED <<quoted, client, chat>>
  BY <1>9 DEF ClientInv, ClientTypes, CorrectionsCount, NamedFieldsAreCorrected,
              OnlyQuotedFieldsAreDropped, RidOf, GivenUp
<1> QED
  BY <1>1, <1>2, <1>3, <1>4, <1>5, <1>6, <1>7, <1>8, <1>9
  DEF ProvidersNext, providersVars, CreateProvider, UpdateProviderReads, UpdateProviderSaves, DeleteProvider

-----------------------------------------------------------------------------
(* What follows for the endpoints. *)

\* Whatever tabs edit at once and whatever requests share a client: a stored
\* key is never erased by a record that brings none, a complaint that names a
\* field the request sent is corrected and never ends it, and a field is given
\* up only after such a complaint to a request of the same client.
THEOREM EndpointsAreRight == ProvidersSpec => []ProvidersAreRight
<1>1. RowsInv /\ ClientInv => ProvidersAreRight
  BY DEF RowsInv, ClientInv, ProvidersAreRight
<1> QED
  BY <1>1, RowsInit, RowsStep, ClientInit, ClientStep, PTL DEF ProvidersSpec

-----------------------------------------------------------------------------
(* The AI runtime. *)

Active == {"next", "working", "errored"}

RuntimeTypes ==
  /\ manager \in [running : BOOLEAN, status : {"idle", "running", "ready", "failed", "cancelled"},
                  reports : 0 .. MaxInstalls, count : 0 .. MaxInstalls]
  /\ install \in [Installs -> [at : Active \cup {"none", "finished", "done"}, step : 0 .. Len(Phases),
                               result : {"", "ready", "failed", "cancelled"}, tells : 0 .. MaxInstalls]]
  /\ watcher \in [Installs -> {"none", "waiting", "told", "ready", "failed", "missing", "invalidates", "done", "forgot"}]
  /\ slot \in Slots
  /\ built \in [Slots -> {"none", "empty", "will succeed", "will fail", "will give up", "ok", "failed", "gave up"}]

\* Installs are numbered as they are accepted.  The latest one is at work as
\* long as the manager is running and no other is; one that has ended tells
\* its own listener.
RightPlace(i) ==
  /\ install[i].at = "none" <=> i > manager.count
  /\ install[i].at \in Active => /\ manager.running /\ manager.reports = i /\ manager.count = i
                                 /\ install[i].step # 0
  /\ install[i].at = "finished" => install[i].tells = i
  /\ watcher[i] = "none" <=> install[i].at = "none"
OneAtWork ==
  /\ manager.running => manager.status = "running" /\ manager.count # 0 /\ install[manager.count].at \in Active
  /\ \A i \in Installs : RightPlace(i)

\* Slots are used in the order of their numbers, at most one more than watchers
\* have made the server forget one: there is always a new one.
Used == {s \in Slots : built[s] # "none"}
Forgetful == {i \in Installs : watcher[i] = "forgot"}
SlotsSuffice ==
  /\ slot # 0 => slot \in Used
  /\ \E k \in Slots : Used = 1 .. k /\ k <= Cardinality(Forgetful) + (IF slot = 0 THEN 0 ELSE 1)

\* While the manager says ready, the environment is good; once the watcher of the
\* latest install has made the server forget, nothing it remembers or is about to
\* remember failed in one that was not.
Forgotten ==
  manager.status = "ready" =>
    /\ manager.count # 0
    /\ watcher[manager.count] = "forgot" /\ slot # 0 => built[slot] \notin {"failed", "will fail"}

RuntimeInv == RuntimeTypes /\ OneAtWork /\ SlotsSuffice /\ ReadyIsUsable /\ EachInstallIsReported /\ Forgotten

LEMMA ForgetfulIsFinite == IsFiniteSet(Forgetful) /\ Cardinality(Forgetful) \in 0 .. MaxInstalls
<1>1. IsFiniteSet(Installs) /\ Cardinality(Installs) = MaxInstalls
  BY FS_Interval, RuntimeAssumption DEF Installs
<1> QED
  BY <1>1, FS_Subset, FS_CardinalityType, RuntimeAssumption DEF Forgetful

\* The slot a caller makes has not been used.
LEMMA NewSlotIsNext ==
  ASSUME NEW k \in Slots, Used = 1 .. k, k <= Cardinality(Forgetful)
  PROVE  k + 1 \in Slots /\ NewSlot = k + 1
<1>1. k + 1 \in Slots \ {0} /\ k \in Nat
  BY ForgetfulIsFinite, RuntimeAssumption DEF Slots
<1>2. built[k + 1] = "none" /\ \A q \in Slots \ {0} : q < k + 1 => built[q] # "none"
  BY <1>1, RuntimeAssumption DEF Used, Slots
<1>3. \A s \in Slots \ {0} :
        built[s] = "none" /\ (\A q \in Slots \ {0} : q < s => built[q] # "none") => s = k + 1
  BY <1>1, <1>2, RuntimeAssumption DEF Used, Slots
<1> QED
  BY <1>1, <1>2, <1>3 DEF NewSlot

LEMMA RuntimeBegins == RuntimeInit => RuntimeInv
<1> SUFFICES ASSUME RuntimeInit PROVE RuntimeInv
  OBVIOUS
<1>1. RuntimeTypes
  <2>1. 0 \in 0 .. Len(Phases) /\ 0 \in 0 .. MaxInstalls /\ 0 \in Slots
    BY RuntimeAssumption DEF Phases, Slots
  <2> QED
    BY <2>1 DEF RuntimeInit, RuntimeTypes, NoInstall, Active
<1>2. OneAtWork /\ EachInstallIsReported
  <2>1. \A i \in Installs : i > 0
    BY RuntimeAssumption DEF Installs
  <2> QED
    BY <2>1 DEF RuntimeInit, OneAtWork, RightPlace, EachInstallIsReported, NoInstall, Active
<1>3. SlotsSuffice
  <2>1. 0 \in Slots /\ Used = 1 .. 0
    BY RuntimeAssumption DEF RuntimeInit, Used, Slots
  <2> QED
    BY <2>1, ForgetfulIsFinite DEF RuntimeInit, SlotsSuffice
<1>4. ReadyIsUsable /\ Forgotten
  BY DEF RuntimeInit, ReadyIsUsable, Forgotten
<1> QED
  BY <1>1, <1>2, <1>3, <1>4 DEF RuntimeInv

LEMMA CountIsNat ==
  ASSUME RuntimeTypes
  PROVE  manager.count \in 0 .. MaxInstalls /\ manager.count \in Nat
<1>1. manager.count \in 0 .. MaxInstalls
  BY DEF RuntimeTypes
<1> QED
  BY <1>1, RuntimeAssumption

LEMMA SlotsKept ==
  ASSUME SlotsSuffice, UNCHANGED <<slot, built>>, Forgetful \subseteq Forgetful'
  PROVE  SlotsSuffice'
<1>1. IsFiniteSet(Forgetful')
  <2>1. IsFiniteSet(Installs)
    BY FS_Interval, RuntimeAssumption DEF Installs
  <2>2. Forgetful' \subseteq Installs
    BY DEF Forgetful
  <2> QED
    BY <2>1, <2>2, FS_Subset
<1>2. Cardinality(Forgetful) \in Nat /\ Cardinality(Forgetful') \in Nat /\ Cardinality(Forgetful) <= Cardinality(Forgetful')
  BY <1>1, FS_Subset, FS_CardinalityType
<1>3. PICK k \in Slots : Used = 1 .. k /\ k <= Cardinality(Forgetful) + (IF slot = 0 THEN 0 ELSE 1)
  BY DEF SlotsSuffice
<1>4. Used' = Used /\ k \in Nat
  BY RuntimeAssumption DEF Used, Slots
<1>5. k <= Cardinality(Forgetful') + (IF slot' = 0 THEN 0 ELSE 1)
  BY <1>2, <1>3, <1>4
<1> QED
  BY <1>3, <1>4, <1>5 DEF SlotsSuffice

\* A step of the requests, of Cancel and of Close leaves the install alone.
LEMMA RuntimeLeft ==
  ASSUME RuntimeInv, UNCHANGED <<manager, install, watcher, slot, built>>,
         venv' = venv \/ manager.running
  PROVE  RuntimeInv'
<1>1. SlotsSuffice'
  BY SlotsKept DEF RuntimeInv, Forgetful
<1>2. RuntimeTypes' /\ OneAtWork' /\ EachInstallIsReported' /\ Forgotten'
  BY DEF RuntimeInv, RuntimeTypes, OneAtWork, RightPlace, EachInstallIsReported, Forgotten
<1>3. ReadyIsUsable'
  BY DEF RuntimeInv, OneAtWork, ReadyIsUsable
<1> QED
  BY <1>1, <1>2, <1>3 DEF RuntimeInv

\* The manager accepts an install.
LEMMA InstallBegins ==
  ASSUME RuntimeInv, NEW c \in Clickers, Start(c)
  PROVE  RuntimeInv'
<1>1. CASE UNCHANGED <<manager, install, watcher>>
  BY <1>1, RuntimeLeft DEF Start, onDisk, resolving
<1>2. CASE ~UNCHANGED <<manager, install, watcher>>
  <2> PICK i : i = manager.count + 1
    OBVIOUS
  <2>0. manager.count \in 0 .. MaxInstalls /\ manager.count \in Nat
    BY CountIsNat DEF RuntimeInv
  <2>1. /\ i \in Installs /\ ~manager.running
        /\ manager' = [running |-> TRUE, status |-> "running", reports |-> i, count |-> i]
        /\ install' = [install EXCEPT ![i] = [NoInstall EXCEPT !.at = "next", !.step = 1]]
        /\ watcher' = [watcher EXCEPT ![i] = "waiting"]
        /\ UNCHANGED <<venv, slot, built>>
    <3>1. manager.count < MaxInstalls
      BY <1>2 DEF Start
    <3>2. i \in Installs
      BY <2>0, <3>1, RuntimeAssumption DEF Installs
    <3> QED
      BY <1>2, <3>2 DEF Start, onDisk, resolving
  <2>2. install[i].at = "none" /\ watcher[i] = "none"
    <3>1. i > manager.count
      BY <2>0
    <3> QED
      BY <2>1, <3>1 DEF RuntimeInv, OneAtWork, RightPlace
  <2>3. RuntimeTypes'
    <3>1. 1 \in 0 .. Len(Phases) /\ 0 \in 0 .. MaxInstalls /\ i \in 0 .. MaxInstalls
      BY <2>1, RuntimeAssumption DEF Phases, Installs
    <3> QED
      BY <2>1, <3>1 DEF RuntimeInv, RuntimeTypes, NoInstall, Active
  <2>4. OneAtWork' /\ EachInstallIsReported'
    <3>1. install'[i].at = "next" /\ install'[i].step = 1 /\ watcher'[i] = "waiting"
      <4>1. install'[i] = [NoInstall EXCEPT !.at = "next", !.step = 1] /\ watcher'[i] = "waiting"
        BY <2>1 DEF RuntimeInv, RuntimeTypes
      <4> QED
        BY <4>1 DEF NoInstall
    <3>2. \A j \in Installs \ {i} : install'[j] = install[j] /\ watcher'[j] = watcher[j]
      BY <2>1 DEF RuntimeInv, RuntimeTypes
    <3>3. \A j \in Installs \ {i} : j > manager.count <=> j > i
      BY <2>0, RuntimeAssumption DEF Installs
    <3>4. i > manager.count /\ ~(i > i) /\ i # 0
      BY <2>0
    <3>5. manager'.running /\ manager'.status = "running" /\ manager'.reports = i /\ manager'.count = i
      BY <2>1
    <3>6. \A j \in Installs : install[j].at \notin Active
      BY <2>1 DEF RuntimeInv, OneAtWork, RightPlace
    <3>7. OneAtWork'
      <4>1. RightPlace(i)'
        BY <3>1, <3>4, <3>5 DEF RightPlace, Active
      <4>2. ASSUME NEW j \in Installs \ {i} PROVE RightPlace(j)'
        BY <3>2, <3>3, <3>5, <3>6 DEF RuntimeInv, OneAtWork, RightPlace
      <4> QED
        BY <4>1, <4>2, <3>1, <3>4, <3>5 DEF OneAtWork, Active
    <3>8. EachInstallIsReported'
      <4> SUFFICES ASSUME NEW j \in Installs
                   PROVE  watcher'[j] \notin {"none", "waiting"} <=> install'[j].at = "done"
        BY DEF EachInstallIsReported
      <4>1. CASE j = i
        BY <3>1, <4>1
      <4>2. CASE j # i
        BY <3>2, <4>2 DEF RuntimeInv, EachInstallIsReported
      <4> QED
        BY <4>1, <4>2
    <3> QED
      BY <3>7, <3>8
  <2>5. SlotsSuffice'
    BY <2>1, <2>2, SlotsKept DEF RuntimeInv, RuntimeTypes, Forgetful
  <2> QED
    BY <2>1, <2>3, <2>4, <2>5 DEF RuntimeInv, ReadyIsUsable, Forgotten
<1> QED
  BY <1>1, <1>2

\* The install goes on: what it does to the disk is of no consequence yet.
LEMMA InstallGoesOn ==
  ASSUME RuntimeInv, NEW i \in Installs, install[i].at \in Active, UNCHANGED <<manager, watcher, slot, built>>,
         NEW at \in Active, NEW step \in 1 .. Len(Phases),
         install' = [install EXCEPT ![i].at = at, ![i].step = step]
  PROVE  RuntimeInv'
<1>1. /\ install' \in [Installs -> [at : Active \cup {"none", "finished", "done"}, step : 0 .. Len(Phases),
                                    result : {"", "ready", "failed", "cancelled"}, tells : 0 .. MaxInstalls]]
      /\ install'[i].at = at /\ install'[i].step = step
      /\ \A j \in Installs \ {i} : install'[j] = install[j]
  <2>1. step \in 0 .. Len(Phases) /\ step # 0
    BY DEF Phases
  <2> QED
    BY <2>1 DEF RuntimeInv, RuntimeTypes
<1>2. RuntimeTypes'
  BY <1>1 DEF RuntimeInv, RuntimeTypes
<1>3. OneAtWork' /\ EachInstallIsReported'
  <2>1. step # 0
    BY DEF Phases
  <2>2. OneAtWork'
    <3>1. OneAtWork /\ manager' = manager /\ watcher' = watcher
      BY DEF RuntimeInv
    <3>2. RightPlace(i)'
      <4>1. install'[i].at = at /\ install'[i].step = step
        BY <1>1
      <4>2. RightPlace(i)
        BY <3>1 DEF OneAtWork
      <4> QED
        BY <2>1, <3>1, <4>1, <4>2 DEF RightPlace, Active
    <3>3. ASSUME NEW j \in Installs \ {i} PROVE RightPlace(j)'
      <4>1. install'[j] = install[j]
        BY <1>1
      <4>2. RightPlace(j)
        BY <3>1 DEF OneAtWork
      <4> QED
        BY <3>1, <4>1, <4>2 DEF RightPlace
    <3>4. manager.running => manager.count = i
      BY <3>1 DEF OneAtWork, RightPlace
    <3> QED
      BY <1>1, <3>1, <3>2, <3>3, <3>4 DEF OneAtWork
  <2>3. EachInstallIsReported'
    BY <1>1 DEF RuntimeInv, EachInstallIsReported, Active
  <2> QED
    BY <2>2, <2>3
<1>4. SlotsSuffice'
  BY SlotsKept DEF RuntimeInv, Forgetful
<1> QED
  BY <1>2, <1>3, <1>4 DEF RuntimeInv, ReadyIsUsable, Forgotten, OneAtWork, RightPlace

\* The install ends, and says ready only of a good environment.
LEMMA InstallEnds ==
  ASSUME RuntimeInv, NEW i \in Installs, install[i].at \in Active, UNCHANGED <<watcher, slot, built>>,
         NEW status \in {"ready", "failed", "cancelled"}, Finish(i, status),
         status = "ready" => venv' = "good"
  PROVE  RuntimeInv'
<1>1. manager.running /\ manager.reports = i /\ manager.count = i
  BY DEF RuntimeInv, OneAtWork, RightPlace
<1>2. /\ manager' \in [running : BOOLEAN, status : {"idle", "running", "ready", "failed", "cancelled"},
                       reports : 0 .. MaxInstalls, count : 0 .. MaxInstalls]
      /\ ~manager'.running /\ manager'.status = status /\ manager'.count = manager.count
  <2>1. manager' = [manager EXCEPT !.running = FALSE, !.status = status, !.reports = 0]
    BY DEF Finish
  <2>2. 0 \in 0 .. MaxInstalls
    BY RuntimeAssumption
  <2> QED
    BY <2>1, <2>2 DEF RuntimeInv, RuntimeTypes
<1>3. /\ install' \in [Installs -> [at : Active \cup {"none", "finished", "done"}, step : 0 .. Len(Phases),
                                    result : {"", "ready", "failed", "cancelled"}, tells : 0 .. MaxInstalls]]
      /\ install'[i].at = "finished" /\ install'[i].tells = i
      /\ \A j \in Installs \ {i} : install'[j] = install[j]
  <2>1. install' = [install EXCEPT ![i].at = "finished", ![i].result = status, ![i].tells = i]
    BY <1>1 DEF Finish
  <2>2. i \in 0 .. MaxInstalls
    BY RuntimeAssumption DEF Installs
  <2>3. install \in [Installs -> [at : Active \cup {"none", "finished", "done"}, step : 0 .. Len(Phases),
                                  result : {"", "ready", "failed", "cancelled"}, tells : 0 .. MaxInstalls]]
    BY DEF RuntimeInv, RuntimeTypes
  <2> QED
    BY <2>1, <2>2, <2>3
<1>4. RuntimeTypes'
  BY <1>2, <1>3 DEF RuntimeInv, RuntimeTypes
<1>5. OneAtWork' /\ EachInstallIsReported'
  <2>1. \A j \in Installs \ {i} : install[j].at \notin Active
    BY <1>1 DEF RuntimeInv, OneAtWork, RightPlace
  <2>2. OneAtWork'
    <3>1. RightPlace(i)'
      BY <1>1, <1>2, <1>3 DEF RuntimeInv, OneAtWork, RightPlace, Active
    <3>2. ASSUME NEW j \in Installs \ {i} PROVE RightPlace(j)'
      <4>1. RightPlace(j)
        BY DEF RuntimeInv, OneAtWork
      <4>2. install'[j] = install[j] /\ install[j].at \notin Active /\ watcher'[j] = watcher[j]
        BY <1>3, <2>1
      <4> QED
        BY <1>2, <4>1, <4>2 DEF RightPlace
    <3> QED
      BY <1>2, <3>1, <3>2 DEF OneAtWork
  <2>3. EachInstallIsReported'
    BY <1>3 DEF RuntimeInv, EachInstallIsReported, Active
  <2> QED
    BY <2>2, <2>3
<1>6. SlotsSuffice'
  BY SlotsKept DEF RuntimeInv, Forgetful
<1>7. ReadyIsUsable'
  BY <1>2 DEF ReadyIsUsable
<1>8. Forgotten'
  <2>1. watcher[i] = "waiting" /\ i # 0
    BY RuntimeAssumption DEF RuntimeInv, RuntimeTypes, OneAtWork, RightPlace, EachInstallIsReported, Active, Installs
  <2> QED
    BY <1>1, <1>2, <2>1 DEF Forgotten
<1> QED
  BY <1>4, <1>5, <1>6, <1>7, <1>8 DEF RuntimeInv

\* The listener of the install that ended is told.
LEMMA InstallReported ==
  ASSUME RuntimeInv, NEW i \in Installs, Announces(i)
  PROVE  RuntimeInv'
<1>1. install[i].tells = i /\ watcher[i] = "waiting"
  BY DEF Announces, RuntimeInv, RuntimeTypes, OneAtWork, RightPlace, EachInstallIsReported
<1>2. /\ watcher' = [watcher EXCEPT ![i] = "told"]
      /\ install' = [install EXCEPT ![i].at = "done"]
      /\ UNCHANGED <<manager, venv, slot, built>>
  BY <1>1 DEF Announces, onDisk, resolving, RuntimeInv, RuntimeTypes
<1>3. /\ install'[i].at = "done" /\ watcher'[i] = "told"
      /\ \A j \in Installs \ {i} : install'[j] = install[j] /\ watcher'[j] = watcher[j]
  BY <1>2 DEF RuntimeInv, RuntimeTypes
<1>4. RuntimeTypes'
  BY <1>2 DEF RuntimeInv, RuntimeTypes
<1>5. OneAtWork'
  <2>1. RightPlace(i)'
    BY <1>2, <1>3 DEF Announces, RuntimeInv, OneAtWork, RightPlace, Active
  <2>2. ASSUME NEW j \in Installs \ {i} PROVE RightPlace(j)'
    BY <1>2, <1>3 DEF RuntimeInv, OneAtWork, RightPlace
  <2>3. manager.running => manager.count # i
    BY DEF Announces, RuntimeInv, OneAtWork, Active
  <2> QED
    BY <1>2, <1>3, <2>1, <2>2, <2>3 DEF RuntimeInv, OneAtWork, Active
<1>6. EachInstallIsReported'
  BY <1>3 DEF RuntimeInv, EachInstallIsReported
<1>7. SlotsSuffice'
  BY <1>1, <1>2, SlotsKept DEF RuntimeInv, RuntimeTypes, Forgetful
<1>8. ReadyIsUsable' /\ Forgotten'
  <2>1. manager.count # 0 => manager.count \in Installs
    BY CountIsNat, RuntimeAssumption DEF RuntimeInv, Installs
  <2> QED
    BY <1>2, <1>3, <2>1 DEF RuntimeInv, ReadyIsUsable, Forgotten
<1> QED
  BY <1>4, <1>5, <1>6, <1>7, <1>8 DEF RuntimeInv

\* A watcher goes on: it has been told and has not ended, and it does not make
\* the server forget.
LEMMA WatcherGoesOn ==
  ASSUME RuntimeInv, NEW i \in Installs, watcher[i] \notin {"none", "waiting", "done", "forgot"},
         NEW at \in {"ready", "failed", "missing", "invalidates", "done"},
         watcher' = [watcher EXCEPT ![i] = at], UNCHANGED <<manager, install, venv, slot, built>>
  PROVE  RuntimeInv'
<1>1. watcher'[i] = at /\ \A j \in Installs \ {i} : watcher'[j] = watcher[j]
  BY DEF RuntimeInv, RuntimeTypes
<1>2. RuntimeTypes'
  BY DEF RuntimeInv, RuntimeTypes
<1>3. OneAtWork' /\ EachInstallIsReported'
  BY <1>1 DEF RuntimeInv, OneAtWork, RightPlace, EachInstallIsReported
<1>4. SlotsSuffice'
  BY <1>1, SlotsKept DEF RuntimeInv, Forgetful
<1>5. ReadyIsUsable' /\ Forgotten'
  <2>1. manager.count # 0 => manager.count \in Installs
    BY CountIsNat, RuntimeAssumption DEF RuntimeInv, Installs
  <2> QED
    BY <1>1, <2>1 DEF RuntimeInv, ReadyIsUsable, Forgotten
<1> QED
  BY <1>2, <1>3, <1>4, <1>5 DEF RuntimeInv

\* The watcher of a successful install makes the server forget its slot, once.
LEMMA Invalidated ==
  ASSUME RuntimeInv, NEW i \in Installs, InvalidateWorker(i)
  PROVE  RuntimeInv'
<1>1. /\ watcher[i] = "invalidates" /\ watcher' = [watcher EXCEPT ![i] = "forgot"]
      /\ slot' = 0 /\ UNCHANGED <<manager, install, venv, built>>
  BY DEF InvalidateWorker, installing, onDisk
<1>2. watcher'[i] = "forgot" /\ \A j \in Installs \ {i} : watcher'[j] = watcher[j]
  BY <1>1 DEF RuntimeInv, RuntimeTypes
<1>3. RuntimeTypes'
  <2>1. 0 \in Slots
    BY RuntimeAssumption DEF Slots
  <2> QED
    BY <1>1, <2>1 DEF RuntimeInv, RuntimeTypes
<1>4. OneAtWork' /\ EachInstallIsReported'
  BY <1>1, <1>2 DEF RuntimeInv, OneAtWork, RightPlace, EachInstallIsReported
<1>5. SlotsSuffice'
  <2>1. Forgetful' = Forgetful \cup {i} /\ i \notin Forgetful
    BY <1>1, <1>2 DEF Forgetful
  <2>2. Cardinality(Forgetful') = Cardinality(Forgetful) + 1 /\ Cardinality(Forgetful) \in Nat
    BY <2>1, ForgetfulIsFinite, FS_AddElement, FS_CardinalityType
  <2>3. PICK k \in Slots : Used = 1 .. k /\ k <= Cardinality(Forgetful) + (IF slot = 0 THEN 0 ELSE 1)
    BY DEF RuntimeInv, SlotsSuffice
  <2>4. Used' = Used /\ k \in Nat
    BY <1>1, RuntimeAssumption DEF Used, Slots
  <2>5. k <= Cardinality(Forgetful')
    BY <2>2, <2>3, <2>4
  <2> QED
    BY <1>1, <2>2, <2>3, <2>4, <2>5 DEF SlotsSuffice
<1>6. ReadyIsUsable' /\ Forgotten'
  <2>1. manager.count # 0 => manager.count \in Installs
    BY CountIsNat, RuntimeAssumption DEF RuntimeInv, Installs
  <2> QED
    BY <1>1, <1>2, <2>1 DEF RuntimeInv, ReadyIsUsable, Forgotten
<1> QED
  BY <1>3, <1>4, <1>5, <1>6 DEF RuntimeInv

\* A caller takes the slot of the server, or makes the next one.
LEMMA SlotTaken ==
  ASSUME RuntimeInv, NEW c \in Callers, CurrentWorkerSlot(c)
  PROVE  RuntimeInv'
<1>1. UNCHANGED <<manager, install, watcher, venv>>
  BY DEF CurrentWorkerSlot, installing, onDisk, reporting
<1>2. PICK k \in Slots : Used = 1 .. k /\ k <= Cardinality(Forgetful) + (IF slot = 0 THEN 0 ELSE 1)
  BY DEF RuntimeInv, SlotsSuffice
<1>3. k \in Nat /\ Cardinality(Forgetful) \in Nat /\ Forgetful' = Forgetful
  BY <1>1, ForgetfulIsFinite, RuntimeAssumption DEF Slots, Forgetful
<1>4. CASE slot # 0
  <2>1. slot' = slot /\ built[slot] # "none" /\ slot \in Slots
    BY <1>4 DEF CurrentWorkerSlot, RuntimeInv, SlotsSuffice, Used
  <2>2. built' = [built EXCEPT ![slot] = IF @ = "none" THEN "empty" ELSE @]
    BY <1>4 DEF CurrentWorkerSlot
  <2>3. built' = built
    BY <2>1, <2>2 DEF RuntimeInv, RuntimeTypes
  <2> QED
    BY <1>1, <2>1, <2>3, RuntimeLeft
<1>5. CASE slot = 0
  <2>1. k + 1 \in Slots /\ NewSlot = k + 1
    BY <1>2, <1>3, <1>5, NewSlotIsNext
  <2>2. built[k + 1] = "none"
    BY <1>2, <1>3, <2>1 DEF Used
  <2>3. slot' = k + 1 /\ built' = [built EXCEPT ![k + 1] = "empty"]
    BY <1>5, <2>1, <2>2 DEF CurrentWorkerSlot, RuntimeInv, RuntimeTypes
  <2>4. RuntimeTypes'
    BY <1>1, <2>1, <2>3 DEF RuntimeInv, RuntimeTypes
  <2>5. SlotsSuffice'
    <3>1. Used' = Used \cup {k + 1}
      BY <2>1, <2>3 DEF Used, RuntimeInv, RuntimeTypes
    <3>2. Used' = 1 .. k + 1 /\ k + 1 # 0
      BY <1>2, <1>3, <3>1
    <3> QED
      BY <1>2, <1>3, <1>5, <2>1, <2>3, <3>2 DEF SlotsSuffice
  <2>6. OneAtWork' /\ EachInstallIsReported' /\ ReadyIsUsable'
    BY <1>1 DEF RuntimeInv, OneAtWork, RightPlace, EachInstallIsReported, ReadyIsUsable
  <2>7. Forgotten'
    BY <1>1, <2>1, <2>3 DEF RuntimeInv, RuntimeTypes, Forgotten
  <2> QED
    BY <2>4, <2>5, <2>6, <2>7 DEF RuntimeInv
<1> QED
  BY <1>4, <1>5

\* A slot is resolved: a failure that is not the probe's own is of an environment
\* that was not good.
LEMMA SlotResolved ==
  ASSUME RuntimeInv, NEW s \in Slots, BuildProbes(s) \/ BuildWorker(s)
  PROVE  RuntimeInv'
<1>1. UNCHANGED <<manager, install, watcher, venv, slot>>
  BY DEF BuildProbes, BuildWorker, installing, onDisk, reporting
<1>2. /\ built' \in [Slots -> {"none", "empty", "will succeed", "will fail", "will give up", "ok", "failed", "gave up"}]
      /\ \A q \in Slots \ {s} : built'[q] = built[q]
      /\ built[s] # "none" /\ built'[s] # "none"
  BY DEF BuildProbes, BuildWorker, RuntimeInv, RuntimeTypes
<1>3. built'[s] \in {"failed", "will fail"} => built[s] = "will fail" \/ venv # "good"
  BY DEF BuildProbes, BuildWorker, RuntimeInv, RuntimeTypes
<1>4. RuntimeTypes' /\ OneAtWork' /\ EachInstallIsReported' /\ ReadyIsUsable'
  BY <1>1, <1>2 DEF RuntimeInv, RuntimeTypes, OneAtWork, RightPlace, EachInstallIsReported, ReadyIsUsable
<1>5. SlotsSuffice'
  <2>1. Used' = Used /\ Forgetful' = Forgetful
    BY <1>1, <1>2 DEF Used, Forgetful
  <2> QED
    BY <1>1, <2>1 DEF RuntimeInv, SlotsSuffice
<1>6. Forgotten'
  BY <1>1, <1>2, <1>3 DEF RuntimeInv, RuntimeTypes, Forgotten, ReadyIsUsable
<1> QED
  BY <1>4, <1>5, <1>6 DEF RuntimeInv

\* Every step of a working install goes on or ends it.
LEMMA InstallStep ==
  ASSUME RuntimeInv, NEW i \in Installs,
         \/ StepBegins(i) \/ (\E half \in {"dead", "partial"} : SyncWrites(i, half))
         \/ (\E made \in {"partial", "good"} : StepSucceeds(i, made)) \/ StepFails(i) \/ StepEnds(i)
  PROVE  RuntimeInv'
<1> DEFINE step == install[i].step
<1>1. install[i].at \in Active
  BY DEF StepBegins, SyncWrites, StepSucceeds, StepFails, StepEnds, Active
<1>2. manager.running /\ step \in 1 .. Len(Phases)
  <2>1. manager.running /\ step \in 0 .. Len(Phases) /\ step # 0
    BY <1>1 DEF RuntimeInv, RuntimeTypes, OneAtWork, RightPlace
  <2> QED
    BY <2>1 DEF Phases
<1>3. UNCHANGED <<watcher, slot, built>>
  BY DEF StepBegins, SyncWrites, StepSucceeds, StepFails, StepEnds, reporting, resolving
<1>4. CASE UNCHANGED <<manager, install>>
  BY <1>2, <1>3, <1>4, RuntimeLeft
<1>5. ASSUME UNCHANGED manager, NEW at \in Active, install' = [install EXCEPT ![i].at = at] PROVE RuntimeInv'
  <2>1. install' = [install EXCEPT ![i].at = at, ![i].step = step]
    BY <1>5 DEF RuntimeInv, RuntimeTypes
  <2> QED
    BY <1>1, <1>2, <1>3, <1>5, <2>1, InstallGoesOn
<1>6. ASSUME UNCHANGED manager, Phases[step] # "verify",
             install' = [install EXCEPT ![i].at = "next", ![i].step = @ + 1]
      PROVE  RuntimeInv'
  <2>1. step + 1 \in 1 .. Len(Phases)
    BY <1>2, <1>6 DEF Phases
  <2>2. install' = [install EXCEPT ![i].at = "next", ![i].step = step + 1]
    BY <1>6 DEF RuntimeInv, RuntimeTypes
  <2> QED
    BY <1>1, <1>3, <1>6, <2>1, <2>2, InstallGoesOn DEF Active
<1>7. ASSUME NEW status \in {"ready", "failed", "cancelled"}, Finish(i, status), status = "ready" => venv' = "good"
      PROVE  RuntimeInv'
  BY <1>1, <1>3, <1>7, InstallEnds
<1>8. CASE StepBegins(i)
  BY <1>5, <1>7, <1>8 DEF StepBegins, Active
<1>9. ASSUME NEW half \in {"dead", "partial"}, SyncWrites(i, half) PROVE RuntimeInv'
  BY <1>4, <1>9 DEF SyncWrites, installing
<1>10. ASSUME NEW made \in {"partial", "good"}, StepSucceeds(i, made) PROVE RuntimeInv'
  BY <1>6, <1>7, <1>10 DEF StepSucceeds
<1>11. CASE StepFails(i)
  BY <1>5, <1>11 DEF StepFails, Active
<1>12. CASE StepEnds(i)
  BY <1>7, <1>12 DEF StepEnds
<1> QED
  BY <1>8, <1>9, <1>10, <1>11, <1>12

LEMMA WatcherStep ==
  ASSUME RuntimeInv, NEW i \in Installs, WatcherChecks(i) \/ WatcherPublishes(i)
  PROVE  RuntimeInv'
<1>1. UNCHANGED <<manager, install, venv, slot, built>>
  BY DEF WatcherChecks, WatcherPublishes, installing, onDisk, resolving
<1>2. CASE WatcherChecks(i)
  <2>1. PICK found \in {"ready", "failed", "missing"} : watcher' = [watcher EXCEPT ![i] = found]
    BY <1>2 DEF WatcherChecks, Checked
  <2>2. watcher[i] = "told"
    BY <1>2 DEF WatcherChecks
  <2> QED
    BY <1>1, <2>1, <2>2, WatcherGoesOn
<1>3. CASE WatcherPublishes(i)
  <2> DEFINE at == IF watcher[i] = "ready" THEN "invalidates" ELSE "done"
  <2>1. watcher' = [watcher EXCEPT ![i] = at] /\ watcher[i] \in {"ready", "failed", "missing"}
    BY <1>3 DEF WatcherPublishes
  <2> QED
    BY <1>1, <2>1, WatcherGoesOn
<1> QED
  BY <1>2, <1>3

LEMMA RuntimeStep == RuntimeInv /\ [RuntimeNext]_runtimeVars => RuntimeInv'
<1> SUFFICES ASSUME RuntimeInv, [RuntimeNext]_runtimeVars PROVE RuntimeInv'
  OBVIOUS
<1>1. CASE \/ StartupChecks \/ StartupPublishes \/ CancelReads \/ CancelKills \/ CancelCancels \/ CloseApp
           \/ (\E c \in Clickers : Provision(c)) \/ UNCHANGED runtimeVars
  BY <1>1, RuntimeLeft
  DEF StartupChecks, StartupPublishes, CancelReads, CancelKills, CancelCancels, CloseApp, Provision,
      runtimeVars, installing, onDisk, reporting, resolving
<1>2. ASSUME NEW c \in Clickers, Start(c) PROVE RuntimeInv'
  BY <1>2, InstallBegins
<1>3. ASSUME NEW i \in Installs, Announces(i) PROVE RuntimeInv'
  BY <1>3, InstallReported
<1>4. ASSUME NEW i \in Installs, WatcherChecks(i) \/ WatcherPublishes(i) PROVE RuntimeInv'
  BY <1>4, WatcherStep
<1>5. ASSUME NEW i \in Installs, InvalidateWorker(i) PROVE RuntimeInv'
  BY <1>5, Invalidated
<1>6. ASSUME NEW c \in Callers, CurrentWorkerSlot(c) PROVE RuntimeInv'
  BY <1>6, SlotTaken
<1>7. ASSUME NEW s \in Slots, BuildProbes(s) \/ BuildWorker(s) PROVE RuntimeInv'
  BY <1>7, SlotResolved
<1> QED
  BY <1>1, <1>2, <1>3, <1>4, <1>5, <1>6, <1>7, InstallStep DEF RuntimeNext

-----------------------------------------------------------------------------
(* What follows for the runtime. *)

\* For any number of installs, requests and callers, wherever Cancel comes
\* between: a manager that says ready has left an environment that runs the
\* worker, an install is announced to its own watcher and only when it has
\* ended, and a success that its watcher saw makes the server forget what failed
\* in the environment before.
THEOREM RuntimeIsTrue == RuntimeSpec => []InstallsAreTrue
<1>1. RuntimeInv => FailureIsForgotten
  <2> SUFFICES ASSUME RuntimeInv, manager.status = "ready",
                      watcher[manager.count] = "forgot"
               PROVE  slot # 0 => built[slot] # "failed"
    BY DEF FailureIsForgotten
  <2> QED
    BY DEF RuntimeInv, Forgotten
<1>2. RuntimeInv => InstallsAreTrue
  BY <1>1 DEF RuntimeInv, InstallsAreTrue
<1> QED
  BY <1>2, RuntimeBegins, RuntimeStep, PTL DEF RuntimeSpec

-----------------------------------------------------------------------------
(* The settings. *)

\* What a key resolves to: the topmost layer that has it.
LEMMA ResolveOf ==
  ASSUME NEW document, NEW k \in Keys
  PROVE  /\ Resolve(document).values[k] =
              IF k \in DOMAIN Flags THEN Flags[k] ELSE IF k \in DOMAIN document THEN document[k]
              ELSE IF k \in DOMAIN EnvDocument THEN EnvDocument[k]
              ELSE IF k \in DOMAIN FileDocument THEN FileDocument[k] ELSE Defaults[k]
         /\ Resolve(document).from[k] =
              IF k \in DOMAIN Flags THEN "cli" ELSE IF k \in DOMAIN document THEN "database"
              ELSE IF k \in DOMAIN EnvDocument THEN "environment"
              ELSE IF k \in DOMAIN FileDocument THEN "config_file" ELSE "default"
<1> DEFINE r0 == NoChange.result
           r1 == Overlaid(r0, Layer("config_file", FileDocument))
           r2 == Overlaid(r1, Layer("environment", EnvDocument))
           r3 == Overlaid(r2, Layer("database", document))
           r4 == Overlaid(r3, Layer("cli", Flags))
<1>1. Resolve(document) = r4
  BY DEF Resolve, Layers
<1>2. r0.values[k] = Defaults[k] /\ r0.from[k] = "default"
  BY DEF NoChange
<1>3. ASSUME NEW r, NEW source, NEW data
      PROVE  /\ Overlaid(r, Layer(source, data)).values[k] = IF k \in DOMAIN data THEN data[k] ELSE r.values[k]
             /\ Overlaid(r, Layer(source, data)).from[k] = IF k \in DOMAIN data THEN source ELSE r.from[k]
  BY DEF Overlaid, Layer
<1>4. /\ r1.values[k] = IF k \in DOMAIN FileDocument THEN FileDocument[k] ELSE r0.values[k]
      /\ r1.from[k] = IF k \in DOMAIN FileDocument THEN "config_file" ELSE r0.from[k]
  BY <1>3
<1>5. /\ r2.values[k] = IF k \in DOMAIN EnvDocument THEN EnvDocument[k] ELSE r1.values[k]
      /\ r2.from[k] = IF k \in DOMAIN EnvDocument THEN "environment" ELSE r1.from[k]
  BY <1>3
<1>6. /\ r3.values[k] = IF k \in DOMAIN document THEN document[k] ELSE r2.values[k]
      /\ r3.from[k] = IF k \in DOMAIN document THEN "database" ELSE r2.from[k]
  BY <1>3
<1>7. /\ r4.values[k] = IF k \in DOMAIN Flags THEN Flags[k] ELSE r3.values[k]
      /\ r4.from[k] = IF k \in DOMAIN Flags THEN "cli" ELSE r3.from[k]
  BY <1>3
<1> HIDE DEF r0, r1, r2, r3, r4
<1> QED
  BY <1>1, <1>2, <1>4, <1>5, <1>6, <1>7

\* The source of every value is named truly.
TrulyFrom(c) ==
  \A k \in Keys :
    /\ c.from[k] = "cli" <=> k \in DOMAIN Flags
    /\ c.from[k] = "environment" => c.values[k] = EnvDocument[k]
    /\ c.from[k] = "config_file" => k \notin DOMAIN EnvDocument /\ c.values[k] = FileDocument[k]
    /\ c.from[k] = "default" => c.values[k] = Defaults[k]

LEMMA ResolvedIsTrue == ASSUME NEW document PROVE TrulyFrom(Resolve(document))
BY ResolveOf DEF TrulyFrom

\* Two configurations that mean the same: coerce makes no difference.
SameMeaning(a, b) == \A k \in Keys : Trimmed(a[k]) = Trimmed(b[k])

LEMMA SameIsAcceptable ==
  ASSUME NEW a, NEW b, SameMeaning(a, b)
  PROVE  Acceptable(a) <=> Acceptable(b)
BY DEF SameMeaning, Acceptable, Keys

\* The values a request may bring.
Sent == {0, 2, 4, 12}

\* What is stored after an update means what was resolved before it.
LEMMA CoercedMeansTheSame ==
  ASSUME NEW document, NEW c, c.value \in Sent
  PROVE  SameMeaning(Resolve(MergeDocuments(document, Asked(c))).values,
                     Resolve(MergeDocuments(document, Coerced(Asked(c)))).values)
<1> SUFFICES ASSUME NEW k \in Keys
             PROVE  Trimmed(Resolve(MergeDocuments(document, Asked(c))).values[k])
                      = Trimmed(Resolve(MergeDocuments(document, Coerced(Asked(c)))).values[k])
  BY DEF SameMeaning
<1> DEFINE raw == MergeDocuments(document, Asked(c))
           kept == MergeDocuments(document, Coerced(Asked(c)))
<1>1. DOMAIN raw = DOMAIN kept
  BY DEF MergeDocuments, Asked, Coerced
<1>2. Trimmed(Trimmed(c.value)) = Trimmed(c.value)
  BY DEF Trimmed, Sent
<1>3. k \in DOMAIN raw => Trimmed(raw[k]) = Trimmed(kept[k])
  BY <1>2 DEF MergeDocuments, Asked, Coerced
<1> HIDE DEF raw, kept
<1>4. /\ Resolve(raw).values[k] = IF k \in DOMAIN Flags THEN Flags[k] ELSE IF k \in DOMAIN raw THEN raw[k]
              ELSE IF k \in DOMAIN EnvDocument THEN EnvDocument[k]
              ELSE IF k \in DOMAIN FileDocument THEN FileDocument[k] ELSE Defaults[k]
      /\ Resolve(kept).values[k] = IF k \in DOMAIN Flags THEN Flags[k] ELSE IF k \in DOMAIN kept THEN kept[k]
              ELSE IF k \in DOMAIN EnvDocument THEN EnvDocument[k]
              ELSE IF k \in DOMAIN FileDocument THEN FileDocument[k] ELSE Defaults[k]
  BY ResolveOf
<1>5. Trimmed(Resolve(raw).values[k]) = Trimmed(Resolve(kept).values[k])
  BY <1>1, <1>3, <1>4
<1> QED
  BY <1>5 DEF raw, kept

IsChange(c) ==
  /\ c = [at |-> c.at, kind |-> c.kind, keys |-> c.keys, value |-> c.value, read |-> c.read, result |-> c.result]
  /\ c.at \in {"idle", "resolve", "write", "publish", "done"}
  /\ c.kind \in IF c.at \in {"idle", "done"} THEN {"", "set", "clear"} ELSE {"set", "clear"}
  /\ c.value \in Sent
Busy(r) == change[r].at \in {"resolve", "write", "publish"}

ChangeTypes ==
  /\ racing \in BOOLEAN /\ cleared \in BOOLEAN
  /\ change = [r \in SettingsRequests |-> change[r]]
  /\ \A r \in SettingsRequests : IsChange(change[r])

\* What is in effect, and what a request is about to publish, is accepted by
\* Validate and names its sources truly.
Accepted ==
  /\ Acceptable(running.values) /\ TrulyFrom(running)
  /\ \A r \in SettingsRequests :
       change[r].at \in {"write", "publish"} => Acceptable(change[r].result.values) /\ TrulyFrom(change[r].result)

\* Requests made one at a time work on the rows as they are.
OneAtATime ==
  ~racing =>
    /\ \A r, q \in SettingsRequests : Busy(r) /\ Busy(q) => r = q
    /\ \A r \in SettingsRequests :
         /\ change[r].at = "resolve" => change[r].read = stored
         /\ change[r].at = "write" /\ change[r].kind = "set" =>
              change[r].result = Resolve(MergeDocuments(stored, Asked(change[r])))
         /\ change[r].at = "publish" => change[r].kind = "set" \/ cleared

\* What the next start would read is in effect or about to be published.
Seen ==
  ~racing /\ ~cleared =>
    /\ \A r \in SettingsRequests :
         change[r].at = "publish" => SameMeaning(change[r].result.values, Reloaded.values)
    /\ (\A r \in SettingsRequests : change[r].at # "publish") => SameMeaning(running.values, Reloaded.values)

SettingsInv == ChangeTypes /\ Accepted /\ OneAtATime /\ Seen

LEMMA ReloadedIsFine == Acceptable(Reloaded.values) /\ TrulyFrom(Reloaded)
BY StartsAssumption, ResolvedIsTrue DEF Reloaded

LEMMA SettingsBegin == SettingsInit => SettingsInv
<1> SUFFICES ASSUME SettingsInit PROVE SettingsInv
  OBVIOUS
<1>1. ChangeTypes
  BY DEF SettingsInit, ChangeTypes, IsChange, NoChange, Sent
<1>2. Accepted
  BY StartsAssumption, ResolvedIsTrue DEF SettingsInit, Accepted, NoChange
<1>3. OneAtATime
  BY DEF SettingsInit, OneAtATime, Busy, NoChange
<1>4. Seen
  BY DEF SettingsInit, Seen, SameMeaning, Reloaded, NoChange
<1> QED
  BY <1>1, <1>2, <1>3, <1>4 DEF SettingsInv

\* A request that ends without publishing: nothing else changes.
LEMMA ChangeEnds ==
  ASSUME SettingsInv, NEW r \in SettingsRequests, Refused(r), change[r].at # "publish",
         UNCHANGED <<stored, running, racing, cleared>>
  PROVE  SettingsInv'
<1>1. /\ change'[r] = [NoChange EXCEPT !.at = "done"]
      /\ \A q \in SettingsRequests \ {r} : change'[q] = change[q]
      /\ change' = [q \in SettingsRequests |-> change'[q]]
  BY DEF SettingsInv, ChangeTypes, Refused
<1>2. change'[r].at = "done" /\ IsChange(change'[r])
  BY <1>1 DEF NoChange, IsChange, Sent
<1>3. ChangeTypes'
  BY <1>1, <1>2 DEF SettingsInv, ChangeTypes
<1>4. Accepted'
  BY <1>1, <1>2 DEF SettingsInv, Accepted
<1>5. OneAtATime'
  BY <1>1, <1>2 DEF SettingsInv, OneAtATime, Busy
<1>6. Seen'
  <2>1. Reloaded' = Reloaded
    BY DEF Reloaded
  <2> QED
    BY <1>1, <1>2, <2>1 DEF SettingsInv, Seen
<1> QED
  BY <1>3, <1>4, <1>5, <1>6 DEF SettingsInv

LEMMA ChangeReadsStep ==
  ASSUME SettingsInv, NEW r \in SettingsRequests, ChangeReads(r)
  PROVE  SettingsInv'
<1>1. PICK kind \in {"set", "clear"}, k \in Keys, v \in Sent :
        change' = [change EXCEPT ![r] = [NoChange EXCEPT !.at = "resolve", !.kind = kind, !.keys = {k},
                                                         !.value = v, !.read = stored]]
  <2>1. CASE \E k \in Keys, v \in {0, 2, 4, 12} : change' = [change EXCEPT ![r] =
               [NoChange EXCEPT !.at = "resolve", !.kind = "set", !.keys = {k}, !.value = v, !.read = stored]]
    BY <2>1 DEF Sent
  <2>2. ASSUME NEW k \in Keys,
               change' = [change EXCEPT ![r] =
                 [NoChange EXCEPT !.at = "resolve", !.kind = "clear", !.keys = {k}, !.read = stored]]
        PROVE  \E kind \in {"set", "clear"}, j \in Keys, v \in Sent :
                 change' = [change EXCEPT ![r] = [NoChange EXCEPT !.at = "resolve", !.kind = kind, !.keys = {j},
                                                         !.value = v, !.read = stored]]
    <3>1. [NoChange EXCEPT !.at = "resolve", !.kind = "clear", !.keys = {k}, !.read = stored]
            = [NoChange EXCEPT !.at = "resolve", !.kind = "clear", !.keys = {k}, !.value = 0, !.read = stored]
      <4>1. /\ NoChange.value = 0
            /\ NoChange = [at |-> NoChange.at, kind |-> NoChange.kind, keys |-> NoChange.keys, value |-> NoChange.value,
                           read |-> NoChange.read, result |-> NoChange.result]
        BY DEF NoChange
      <4> QED
        BY <4>1
    <3>2. 0 \in Sent
      BY DEF Sent
    <3> QED
      BY <2>2, <3>1, <3>2
  <2> QED
    BY <2>1, <2>2 DEF ChangeReads
<1>2. /\ change'[r] = [NoChange EXCEPT !.at = "resolve", !.kind = kind, !.keys = {k}, !.value = v, !.read = stored]
      /\ \A q \in SettingsRequests \ {r} : change'[q] = change[q]
      /\ change' = [q \in SettingsRequests |-> change'[q]]
  BY <1>1 DEF SettingsInv, ChangeTypes
<1>3. change'[r].at = "resolve" /\ change'[r].read = stored /\ IsChange(change'[r])
  BY <1>2 DEF NoChange, IsChange
<1>4. UNCHANGED <<stored, running, racing, cleared>> /\ change[r].at = "idle"
  BY DEF ChangeReads, others
<1>5. ChangeTypes' /\ Accepted'
  BY <1>2, <1>3, <1>4 DEF SettingsInv, ChangeTypes, Accepted
<1>6. OneAtATime'
  <2>1. ~racing => \A q \in SettingsRequests : ~Busy(q)
    BY DEF ChangeReads, Settled, Busy
  <2> SUFFICES ASSUME ~racing'
               PROVE  /\ \A q, p \in SettingsRequests : (Busy(q) /\ Busy(p))' => q = p
                      /\ change'[r].at = "resolve" /\ change'[r].read = stored'
                      /\ \A q \in SettingsRequests \ {r} : change'[q].at \notin {"resolve", "write", "publish"}
    BY DEF OneAtATime
  <2>2. \A q \in SettingsRequests \ {r} : change'[q].at \notin {"resolve", "write", "publish"}
    BY <1>2, <1>4, <2>1 DEF Busy
  <2> QED
    BY <1>3, <1>4, <2>2 DEF Busy
<1>7. Seen'
  <2>1. Reloaded' = Reloaded
    BY <1>4 DEF Reloaded
  <2> QED
    BY <1>2, <1>3, <1>4, <2>1 DEF SettingsInv, Seen
<1> QED
  BY <1>5, <1>6, <1>7 DEF SettingsInv

LEMMA ChangeResolvesStep ==
  ASSUME SettingsInv, NEW r \in SettingsRequests, ChangeResolves(r)
  PROVE  SettingsInv'
<1> DEFINE c == change[r]
           document == IF c.kind = "set" THEN MergeDocuments(c.read, Asked(c)) ELSE Without(c.read, TheKey(c))
           new == Resolve(document)
<1>1. c.at = "resolve" /\ UNCHANGED <<stored, running, racing, cleared>>
  BY DEF ChangeResolves, others
<1>2. CASE Refused(r)
  BY <1>1, <1>2, ChangeEnds
<1>3. CASE Acceptable(new.values) /\ change' = [change EXCEPT ![r].at = "write", ![r].result = new]
  <2>1. /\ change'[r] = [c EXCEPT !.at = "write", !.result = new]
        /\ \A q \in SettingsRequests \ {r} : change'[q] = change[q]
        /\ change' = [q \in SettingsRequests |-> change'[q]]
    BY <1>3 DEF SettingsInv, ChangeTypes
  <2>2. IsChange(c)
    BY DEF SettingsInv, ChangeTypes
  <2> HIDE DEF new
  <2>3. /\ change'[r].at = "write" /\ change'[r].result = new /\ IsChange(change'[r])
        /\ change'[r].kind = c.kind /\ change'[r].keys = c.keys /\ change'[r].value = c.value
    BY <1>1, <2>1, <2>2 DEF IsChange
  <2>4. ChangeTypes'
    BY <1>1, <2>1, <2>3 DEF SettingsInv, ChangeTypes
  <2>5. Accepted'
    <3>1. TrulyFrom(new)
      BY ResolvedIsTrue DEF new
    <3> QED
      BY <1>1, <1>3, <2>1, <2>3, <3>1 DEF SettingsInv, Accepted
  <2>6. OneAtATime'
    <3>1. ~racing /\ c.kind = "set" => new = Resolve(MergeDocuments(stored, Asked(change'[r])))
      BY <1>1, <2>3 DEF SettingsInv, OneAtATime, Asked, new
    <3>2. \A q \in SettingsRequests : Busy(q)' <=> Busy(q)
      BY <1>1, <2>1, <2>3 DEF Busy
    <3> QED
      <4> SUFFICES ASSUME ~racing, NEW q \in SettingsRequests
                   PROVE  /\ \A p \in SettingsRequests : (Busy(q) /\ Busy(p))' => q = p
                          /\ change'[q].at = "resolve" => change'[q].read = stored
                          /\ change'[q].at = "write" /\ change'[q].kind = "set" =>
                               change'[q].result = Resolve(MergeDocuments(stored, Asked(change'[q])))
                          /\ change'[q].at = "publish" => change'[q].kind = "set" \/ cleared
        BY <1>1 DEF OneAtATime
      <4>1. \A p \in SettingsRequests : (Busy(q) /\ Busy(p))' => q = p
        BY <3>2 DEF SettingsInv, OneAtATime
      <4>2. CASE q = r
        BY <2>3, <3>1, <4>1, <4>2
      <4>3. CASE q # r
        BY <2>1, <4>1, <4>3 DEF SettingsInv, OneAtATime
      <4> QED
        BY <4>2, <4>3
  <2>7. Seen'
    <3>1. Reloaded' = Reloaded
      BY <1>1 DEF Reloaded
    <3> QED
      BY <1>1, <2>1, <2>3, <3>1 DEF SettingsInv, Seen
  <2> QED
    BY <2>4, <2>5, <2>6, <2>7 DEF SettingsInv
<1> QED
  BY <1>2, <1>3 DEF ChangeResolves

LEMMA ChangeWritesStep ==
  ASSUME SettingsInv, NEW r \in SettingsRequests, ChangeWrites(r)
  PROVE  SettingsInv'
<1> DEFINE c == change[r]
<1>1. c.at = "write" /\ UNCHANGED <<running, racing>>
  BY DEF ChangeWrites, others
<1>2. CASE Refused(r) /\ UNCHANGED <<stored, cleared>>
  BY <1>1, <1>2, ChangeEnds
<1>3. CASE /\ stored' = IF c.kind = "set" THEN MergeDocuments(stored, Coerced(Asked(c)))
                        ELSE Restrict(stored, DOMAIN stored \ c.keys)
           /\ cleared' = (cleared \/ c.kind = "clear")
           /\ change' = [change EXCEPT ![r].at = "publish"]
  <2>1. /\ change'[r] = [c EXCEPT !.at = "publish"]
        /\ \A q \in SettingsRequests \ {r} : change'[q] = change[q]
        /\ change' = [q \in SettingsRequests |-> change'[q]]
    BY <1>3 DEF SettingsInv, ChangeTypes
  <2>2. IsChange(c)
    BY DEF SettingsInv, ChangeTypes
  <2>3. /\ change'[r].at = "publish" /\ change'[r].result = c.result /\ change'[r].kind = c.kind
        /\ IsChange(change'[r])
    BY <1>1, <2>1, <2>2 DEF IsChange
  <2>4. ChangeTypes'
    <3>1. cleared' \in BOOLEAN
      BY <1>3 DEF SettingsInv, ChangeTypes
    <3> QED
      BY <1>1, <2>1, <2>3, <3>1 DEF SettingsInv, ChangeTypes
  <2>5. Accepted'
    BY <1>1, <2>1, <2>3 DEF SettingsInv, Accepted
  <2>6. ~racing => \A q \in SettingsRequests \ {r} : change'[q].at \notin {"resolve", "write", "publish"}
    BY <1>1, <2>1 DEF SettingsInv, OneAtATime, Busy
  <2>7. c.kind = "set" \/ cleared'
    BY <1>1, <1>3, <2>2 DEF IsChange
  <2>8. OneAtATime'
    BY <1>1, <2>3, <2>6, <2>7 DEF OneAtATime, Busy
  <2>9. Seen'
    <3> SUFFICES ASSUME ~racing, ~cleared'
                 PROVE  SameMeaning(c.result.values, Reloaded'.values)
      BY <1>1, <2>3, <2>6 DEF Seen
    <3>1. c.kind = "set"
      BY <2>7
    <3>2. c.result = Resolve(MergeDocuments(stored, Asked(c))) /\ Acceptable(c.result.values)
      BY <1>1, <3>1 DEF SettingsInv, OneAtATime, Accepted
    <3>3. stored' = MergeDocuments(stored, Coerced(Asked(c)))
      BY <1>3, <3>1
    <3>4. SameMeaning(c.result.values, Resolve(stored').values)
      BY <2>2, <3>2, <3>3, CoercedMeansTheSame DEF IsChange
    <3>5. Reloaded' = Resolve(stored')
      BY <3>2, <3>4, SameIsAcceptable DEF Reloaded
    <3> QED
      BY <3>4, <3>5
  <2> QED
    BY <2>4, <2>5, <2>8, <2>9 DEF SettingsInv
<1> QED
  BY <1>2, <1>3 DEF ChangeWrites

LEMMA ChangePublishesStep ==
  ASSUME SettingsInv, NEW r \in SettingsRequests, ChangePublishes(r)
  PROVE  SettingsInv'
<1>1. change[r].at = "publish" /\ running' = change[r].result /\ UNCHANGED <<stored, racing, cleared>>
  BY DEF ChangePublishes, others
<1>2. /\ change'[r] = [NoChange EXCEPT !.at = "done"]
      /\ \A q \in SettingsRequests \ {r} : change'[q] = change[q]
      /\ change' = [q \in SettingsRequests |-> change'[q]]
  BY DEF SettingsInv, ChangeTypes, ChangePublishes, Refused
<1>3. change'[r].at = "done" /\ IsChange(change'[r])
  BY <1>2 DEF NoChange, IsChange, Sent
<1>4. ChangeTypes' /\ Accepted'
  BY <1>1, <1>2, <1>3 DEF SettingsInv, ChangeTypes, Accepted
<1>5. ~racing => \A q \in SettingsRequests : change'[q].at \notin {"resolve", "write", "publish"}
  BY <1>1, <1>2, <1>3 DEF SettingsInv, OneAtATime, Busy
<1>6. OneAtATime'
  BY <1>1, <1>5 DEF OneAtATime, Busy
<1>7. Seen'
  <2>1. Reloaded' = Reloaded
    BY <1>1 DEF Reloaded
  <2> QED
    BY <1>1, <1>5, <2>1 DEF SettingsInv, Seen
<1> QED
  BY <1>4, <1>6, <1>7 DEF SettingsInv

LEMMA RebootStep ==
  ASSUME SettingsInv, Reboot
  PROVE  SettingsInv'
<1>1. /\ \A r \in SettingsRequests : change'[r].at \in {"idle", "done"} /\ IsChange(change'[r])
      /\ change' = [r \in SettingsRequests |-> change'[r]]
      /\ running' = Reloaded /\ cleared' = FALSE /\ UNCHANGED <<stored, racing>>
  BY DEF Reboot, NoChange, IsChange, Sent
<1>2. ChangeTypes'
  BY <1>1 DEF SettingsInv, ChangeTypes
<1>3. Accepted'
  BY <1>1, ReloadedIsFine DEF Accepted
<1>4. OneAtATime'
  BY <1>1 DEF OneAtATime, Busy
<1>5. Seen'
  <2>1. Reloaded' = Reloaded
    BY <1>1 DEF Reloaded
  <2> QED
    BY <1>1, <2>1 DEF Seen, SameMeaning
<1> QED
  BY <1>2, <1>3, <1>4, <1>5 DEF SettingsInv

LEMMA SettingsStep == SettingsInv /\ [SettingsNext]_settingsVars => SettingsInv'
<1> SUFFICES ASSUME SettingsInv, [SettingsNext]_settingsVars PROVE SettingsInv'
  OBVIOUS
<1>1. CASE UNCHANGED settingsVars
  BY <1>1 DEF settingsVars, SettingsInv, ChangeTypes, Accepted, OneAtATime, Seen, Busy, Reloaded
<1> QED
  BY <1>1, ChangeReadsStep, ChangeResolvesStep, ChangeWritesStep, ChangePublishesStep, RebootStep
  DEF SettingsNext

\* Whatever the file, the environment and the command line hold (as long as the
\* process starts on them), however requests interleave and restarts fall: the
\* configuration in effect is one Validate accepts and names its sources truly,
\* and updates made one at a time are in effect as the next start would read
\* them.
THEOREM SettingsTrue == SettingsSpec => []SettingsAreTrue
<1>1. SettingsInv => SettingsAreTrue
  BY DEF SettingsInv, SettingsAreTrue, Accepted, RunningIsAcceptable, Seen, UpdatesAreSeen, Settled,
         SameMeaning, TrulyFrom, ProvenanceIsTrue
<1> QED
  BY <1>1, SettingsBegin, SettingsStep, PTL DEF SettingsSpec
=============================================================================
