----------------------------- MODULE Providers -----------------------------
(***************************************************************************)
(* Language-model endpoints: the rows a user edits (provider.Service and   *)
(* the handlers of api/admin.go) and the client that talks to one of them  *)
(* (provider.Client).                                                      *)
(*                                                                         *)
(* A client is shared by every request of a stage.  What the endpoint      *)
(* complained about is remembered in the client behind a mutex, but a      *)
(* request reads the three flags one at a time, waits for the endpoint,    *)
(* and only then corrects them.                                            *)
(*                                                                         *)
(* A row keeps its key and whether it is enabled.  The fields Validate     *)
(* looks at are left out: it may refuse any record.  Every row is an LLM's.*)
(***************************************************************************)
EXTENDS Naturals, FiniteSets

CONSTANTS
  ProviderIds,  \* identifiers Save may give to a new row
  Tabs,         \* browser tabs, each of which edits one row at a time
  ApiKeys,      \* the keys a user may type
  ChatCalls,    \* requests, each made once
  MaxEdits      \* bound on the edits that were begun

ASSUME ProvidersAssumption == MaxEdits \in Nat

VARIABLES
  providers,  \* the rows
  keyed,      \* history: the rows that have had a key since they were created
  tab,        \* the state of each tab's PATCH request
  edits,      \* how many edits were begun
  client,     \* the client the stage built, with what it learnt
  quoted,     \* history: the fields for which a complaint to this client blamed a request
  chat        \* the state of each request

providersVars == <<providers, keyed, tab, edits, client, quoted, chat>>

NoKey == ""
\* the absence of a row
NoProvider == [key |-> "none", enabled |-> FALSE]
Negotiable == {"response_format", "reasoning_effort", "max_tokens"}
Records == [key : ApiKeys \cup {NoKey}, enabled : BOOLEAN]
Bodies == [key : ApiKeys \cup {NoKey}, enabled : {"", "yes", "no"}]
IdleTab == [at |-> "idle"]
NoClient == [at |-> "none"]

\* api.updateProvider merges the body onto the record it read: what the body
\* leaves out stays, the key included.
Patched(r, b) ==
  [key     |-> IF b.key = NoKey THEN r.key ELSE b.key,
   enabled |-> IF b.enabled = "" THEN r.enabled ELSE b.enabled = "yes"]

SavedErasing(rows, id, r) == [rows EXCEPT ![id] = r]

\* provider.Service.Save: an upsert that keeps the stored key when the record
\* brings none.
Saved(rows, id, r) ==
  [rows EXCEPT ![id] =
    [r EXCEPT !.key = IF r.key = NoKey /\ rows[id] # NoProvider THEN rows[id].key ELSE r.key]]

\* provider.Service.Default: the only enabled row, or none.
Default(rows) ==
  LET enabled == {p \in ProviderIds : rows[p] # NoProvider /\ rows[p].enabled}
  IN IF Cardinality(enabled) = 1 THEN enabled ELSE {}

ProvidersInit ==
  /\ providers = [p \in ProviderIds |-> NoProvider]
  /\ keyed = {}
  /\ tab = [t \in Tabs |-> IdleTab]
  /\ edits = 0
  /\ client = NoClient
  /\ quoted = {}
  /\ chat = [c \in ChatCalls |-> [at |-> "idle"]]

(***************************************************************************)
(* Editing rows.  A PATCH reads the row, then saves it: two requests may   *)
(* overlap.                                                                *)
(***************************************************************************)
Remembers ==
  keyed' = {p \in ProviderIds : /\ providers'[p] # NoProvider
                                /\ p \in keyed \/ providers'[p].key # NoKey}

CreateProvider(p, r) ==
  /\ providers[p] = NoProvider
  /\ edits < MaxEdits
  /\ edits' = edits + 1
  /\ providers' = Saved(providers, p, r) /\ Remembers
  /\ UNCHANGED <<tab, client, quoted, chat>>

UpdateProviderReads(t, p, b) ==
  /\ tab[t].at = "idle"
  /\ providers[p] # NoProvider
  /\ edits < MaxEdits
  /\ edits' = edits + 1
  /\ tab' = [tab EXCEPT ![t] = [at |-> "read", id |-> p, record |-> Patched(providers[p], b)]]
  /\ UNCHANGED <<providers, keyed, client, quoted, chat>>

UpdateProviderSaves(t) ==
  /\ tab[t].at = "read"
  /\ tab' = [tab EXCEPT ![t] = IdleTab]
  /\ \/ providers' = Saved(providers, tab[t].id, tab[t].record)
     \/ UNCHANGED providers \* Validate refuses the merged record
  /\ Remembers
  /\ UNCHANGED <<edits, client, quoted, chat>>

DeleteProvider(p) ==
  /\ providers[p] # NoProvider
  /\ providers' = [providers EXCEPT ![p] = NoProvider] /\ Remembers
  /\ UNCHANGED <<tab, edits, client, quoted, chat>>

(***************************************************************************)
(* A stage resolves its endpoint and builds a client that has learnt       *)
(* nothing yet.  An inline endpoint of the configuration is used when no   *)
(* row is; it has no row to be compared with and is left out.              *)
(***************************************************************************)
BuildClient ==
  /\ \A c \in ChatCalls : chat[c].at \in {"idle", "done"}
  /\ \E p \in Default(providers) :
       client' = [at |-> "built", json |-> TRUE, reasoning |-> TRUE,
                  tokens |-> "max_tokens"]
  /\ quoted' = {}
  /\ UNCHANGED <<providers, keyed, tab, edits, chat>>

\* provider.Client.Chat, one request: it reads the three flags, each under the
\* mutex, sends the fields, and waits.
ChatBegins(c, json, reasoning) ==
  /\ client # NoClient
  /\ chat[c].at = "idle"
  /\ chat' = [chat EXCEPT ![c] = [at |-> "json", wants |-> {f \in Negotiable :
                 (f = "response_format" => json) /\ (f = "reasoning_effort" => reasoning)},
               sends |-> {}, corrections |-> 0]]
  /\ UNCHANGED <<providers, keyed, tab, edits, client, quoted>>

ReadsJSONMode(c) ==
  /\ chat[c].at = "json"
  /\ chat' = [chat EXCEPT ![c].at = "tokens",
       ![c].sends = IF client.json THEN {"response_format"} \cap chat[c].wants ELSE {}]
  /\ UNCHANGED <<providers, keyed, tab, edits, client, quoted>>

ReadsTokenField(c) ==
  /\ chat[c].at = "tokens"
  /\ chat' = [chat EXCEPT ![c].at = "reasoning", ![c].sends = @ \cup {client.tokens}]
  /\ UNCHANGED <<providers, keyed, tab, edits, client, quoted>>

ReadsReasoning(c) ==
  /\ chat[c].at = "reasoning"
  /\ chat' = [chat EXCEPT ![c].at = "sent",
       ![c].sends = IF client.reasoning THEN @ \cup ({"reasoning_effort"} \cap chat[c].wants) ELSE @]
  /\ UNCHANGED <<providers, keyed, tab, edits, client, quoted>>

maxCorrections == 3

CorrectionNow(c, named) ==
  LET correctable == {f \in named : CASE f = "response_format" -> client.json
                                      [] f = "reasoning_effort" -> client.reasoning
                                      [] OTHER -> client.tokens = "max_tokens"}
  IN IF "response_format" \in correctable THEN "response_format"
     ELSE IF "reasoning_effort" \in correctable THEN "reasoning_effort"
     ELSE IF "max_tokens" \in correctable THEN "max_tokens" ELSE ""

CorrectionOfAny(c, named) ==
  IF "response_format" \in chat[c].sends THEN "response_format"
  ELSE IF "reasoning_effort" \in chat[c].sends THEN "reasoning_effort"
  ELSE IF "max_tokens" \in chat[c].sends THEN "max_tokens" ELSE ""

\* The switch of Chat: the first field, in this order, that the request sent
\* and the complaint names.  It looks at what was sent, not at the flags.
Correction(c, named) ==
  LET correctable == chat[c].sends \cap named
  IN IF "response_format" \in correctable THEN "response_format"
     ELSE IF "reasoning_effort" \in correctable THEN "reasoning_effort"
     ELSE IF "max_tokens" \in correctable THEN "max_tokens" ELSE ""

LearntMisspelt(f) ==
  CASE f = "response_format" -> [client EXCEPT !.json = FALSE]
    [] f = "reasoning_effort" -> [client EXCEPT !.reasoning = FALSE]
    [] f = "max_tokens" -> [client EXCEPT !.tokens = "max_completion_token"]

\* disableJSONMode, disableReasoning, setTokenField
Learnt(f) ==
  CASE f = "response_format" -> [client EXCEPT !.json = FALSE]
    [] f = "reasoning_effort" -> [client EXCEPT !.reasoning = FALSE]
    [] f = "max_tokens" -> [client EXCEPT !.tokens = "max_completion_tokens"]

\* The endpoint answers 400.  mentions looks for the name of a field anywhere in
\* the message and in the raw body, so a complaint may name any of them, fields
\* the request did not send and fields the endpoint accepts among them: it may
\* be about something else and quote the request.
EndpointRejects(c, named) ==
  /\ chat[c].at = "sent"
  /\ quoted' = quoted \cup (named \cap chat[c].sends)
  /\ \/ /\ chat[c].corrections < maxCorrections
        /\ Correction(c, named) # ""
        /\ client' = Learnt(Correction(c, named))
        /\ chat' = [chat EXCEPT ![c].at = "json", ![c].sends = {}, ![c].corrections = @ + 1]
     \/ /\ chat[c].corrections = maxCorrections \/ Correction(c, named) = ""
        /\ chat' = [chat EXCEPT ![c] = [at |-> "done", result |-> "rejected",
                                        named |-> named \cap chat[c].sends]]
        /\ UNCHANGED client
  /\ UNCHANGED <<providers, keyed, tab, edits>>

\* The endpoint answers: parseChatResponse returns a reply, a truncated one, or
\* an error (an error object in a 200, no choices, a refusal, not JSON).
EndpointAnswers(c, result) ==
  /\ chat[c].at = "sent"
  /\ chat' = [chat EXCEPT ![c] = [at |-> "done", result |-> result, named |-> {}]]
  /\ UNCHANGED <<providers, keyed, tab, edits, client, quoted>>

\* The exchange fails, or its context ends: attempt returns without a status.
ExchangeFails(c) ==
  /\ chat[c].at = "sent"
  /\ chat' = [chat EXCEPT ![c] = [at |-> "done", result |-> "failed", named |-> {}]]
  /\ UNCHANGED <<providers, keyed, tab, edits, client, quoted>>

ProvidersNext ==
  \/ \E p \in ProviderIds, r \in Records : CreateProvider(p, r)
  \/ \E t \in Tabs, p \in ProviderIds, b \in Bodies : UpdateProviderReads(t, p, b)
  \/ \E t \in Tabs : UpdateProviderSaves(t)
  \/ \E p \in ProviderIds : DeleteProvider(p)
  \/ BuildClient
  \/ \E c \in ChatCalls, j, e \in BOOLEAN : ChatBegins(c, j, e)
  \/ \E c \in ChatCalls :
       \/ ReadsJSONMode(c)
       \/ ReadsTokenField(c)
       \/ ReadsReasoning(c)
       \/ \E named \in SUBSET Negotiable : EndpointRejects(c, named)
       \/ \E result \in {"ok", "truncated", "failed"} : EndpointAnswers(c, result)
       \/ ExchangeFails(c)

ProvidersSpec == ProvidersInit /\ [][ProvidersNext]_providersVars

(***************************************************************************)
(* Properties                                                              *)
(***************************************************************************)

\* The rows, the requests, the tabs and the client are in states the code can
\* be in; no request is corrected more than maxCorrections times.
ProvidersTypeOK ==
  /\ providers \in [ProviderIds -> Records \cup {NoProvider}]
  /\ \A t \in Tabs : tab[t] # IdleTab => tab[t].id \in ProviderIds /\ tab[t].record \in Records
  /\ edits \in 0 .. MaxEdits
  /\ client # NoClient => client.tokens \in {"max_tokens", "max_completion_tokens"}
  /\ \A c \in ChatCalls : chat[c].at \in {"json", "tokens", "reasoning", "sent"} =>
       /\ chat[c].sends \subseteq Negotiable \cup {"max_completion_tokens"}
       /\ chat[c].corrections \in 0 .. maxCorrections

\* A complaint that names a field the request sent never ends the request: Chat
\* corrects it and tries again, even when another request of the same client
\* corrected the same field while this one was waiting, and three corrections
\* are enough.
NamedFieldsAreCorrected ==
  \A c \in ChatCalls : chat[c].at = "done" => chat[c].named = {}

\* What one request learns changes every later request of the stage, so it must
\* be learnt from the endpoint: JSON mode, the reasoning effort and the name of
\* the token limit are given up only after a complaint that names that field, in
\* answer to a request that sent it, since this client was built.  An endpoint
\* whose complaints name only what it refuses therefore loses nothing it
\* accepts; one that quotes a field it accepts does.
OnlyQuotedFieldsAreDropped ==
  client # NoClient =>
    /\ ~client.json => "response_format" \in quoted
    /\ ~client.reasoning => "reasoning_effort" \in quoted
    /\ client.tokens # "max_tokens" => "max_tokens" \in quoted

\* Saving a record without a key never erases the key of a row: not when the
\* row had no key when the request read it and another tab stored one since.
KeyIsNotErased == \A p \in keyed : providers[p].key # NoKey

\* A stored key stays; a field that was complained about is corrected, and only
\* such a one.
ProvidersAreRight == KeyIsNotErased /\ NamedFieldsAreCorrected /\ OnlyQuotedFieldsAreDropped
=============================================================================
