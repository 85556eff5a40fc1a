----------------------------- MODULE Translator -----------------------------
(***************************************************************************)
(* One run of Translator.Translate (internal/translation): the lines to    *)
(* translate are planned, answered from the line cache where possible,     *)
(* grouped into batches, and the batches are translated by concurrent      *)
(* workers that share a token budget, the lists of outcomes and a context. *)
(* The stages translation and polish call it, and what they do with its    *)
(* result is the last step.                                                *)
(*                                                                         *)
(* A text is abstracted to what was asked for to obtain it: the answer to  *)
(* a request with cache key k is AnswerTo(k).  A reply is abstracted to    *)
(* the set of requested lines it has a usable text for; a reply that is    *)
(* not JSON, not a list of translations, or names only other lines has     *)
(* none.                                                                   *)
(***************************************************************************)
EXTENDS Integers, FiniteSetsExt

CONSTANTS
  NumLines,        \* the segments are 1..NumLines, in their order
  Untranslated,    \* the lines the translation stage left without a text
  SourceOf,        \* the normalised source text of each segment
  BatchSize,       \* Options.BatchSize
  MaxConcurrency,  \* bound on Options.Concurrency
  MaxAttempts,     \* Options.MaxAttempts
  MaxTokensPerJob, \* Options.MaxTokensPerJob; 0 is no ceiling
  CacheMayFail     \* whether reads and writes of the cache may fail

ASSUME TranslatorAssumption ==
  /\ NumLines \in Nat
  /\ BatchSize \in Nat \ {0}
  /\ MaxConcurrency \in Nat \ {0}
  /\ MaxAttempts \in Nat \ {0}
  /\ MaxTokensPerJob \in Nat
  /\ CacheMayFail \in BOOLEAN

Lines == 1..NumLines
Workers == 1..MaxConcurrency

\* maxSplitDepth
MaxSplitDepth == 3

VARIABLES
  concurrency, \* Options.Concurrency
  revise,     \* Options.Revise: FALSE for the translation stage, TRUE for polish
  original,   \* the text each line had when the run began
  text,       \* Segment.TranslatedText
  review,     \* the lines with NeedsReview
  cache,      \* the rows of translation_cache
  progress,   \* where Translate is
  batches,    \* the batches the feeder has not handed out, as sets of lines
  feeder,     \* "send", "check" or "closed"
  crew,       \* the state of each worker
  stopped,    \* workerCtx is done
  external,   \* because the caller's context was cancelled
  fatal,      \* the first systemic error, or "none"
  failed,     \* Outcome.Failed
  spent       \* tokenBudget.prompt

runVars == <<batches, feeder, crew, stopped, external, fatal, failed, spent>>
trVars == <<concurrency, revise, original, text, review, cache, progress, runVars>>

-----------------------------------------------------------------------------
(* Planning: which lines need work, the key of each, and the batches.      *)

\* TranslatedText is nil, or the text of an earlier stage.
NoText == << >>
OldText == <<"old">>

\* KeyInputs: the source and, when a text is revised, that text.  The style,
\* model, prompt, context and terms are the same throughout a run.
KeyOf(i) == <<SourceOf[i], IF revise /\ original[i] = OldText THEN "revised" ELSE "new">>
Keys == {<<SourceOf[i], r>> : i \in Lines, r \in {"new", "revised"}}
AnswerTo(k) == <<"answer", k[1], k[2]>>
Answer(i) == AnswerTo(KeyOf(i))
Texts == {NoText, OldText} \cup {AnswerTo(k) : k \in Keys}

\* plan: an empty source is skipped, and so is a line that has a text unless
\* the run revises.
Planned == {i \in Lines : SourceOf[i] # "" /\ (original[i] = NoText \/ revise)}

\* applyCache
Cached(plan) == {i \in plan : cache[KeyOf(i)] # NoText}

\* batch: consecutive pending lines form a run, and a run is cut every
\* BatchSize lines from its start on.
Cuts(pending) ==
  {h \in pending : \E s \in pending, k \in 0..NumLines :
     s - 1 \notin pending /\ s..h \subseteq pending /\ h = s + k * BatchSize}
BatchFrom(pending, h) == {i \in h..(h + BatchSize - 1) : h..i \subseteq pending}
Grouped(pending) == {BatchFrom(pending, h) : h \in Cuts(pending)}

\* Batches are handed out in the order of their lines.
IsFirst(b) == \A o \in batches \ {b} : \A i \in b, j \in o : i < j

-----------------------------------------------------------------------------
(* The workers.  pending is what is still missing of the part of the batch *)
(* being asked for, in the order of the lines; parts[d] is the second half *)
(* that the split to depth d has left for later; got are the lines         *)
(* obtained for this part and all those obtained for the whole batch.      *)

NoParts == [d \in 1..MaxSplitDepth |-> {}]
Idle == [at |-> "receive", pending |-> {}, depth |-> 0, attempt |-> 1,
         parts |-> NoParts, got |-> {}, all |-> {}, missing |-> {}, err |-> "none"]

WorkerStates == {"receive", "taken", "loop", "chat", "backoff", "store",
                 "report", "cancel", "gone"}
Worker == [at : WorkerStates, pending : SUBSET Lines, depth : 0..MaxSplitDepth,
           attempt : 1..(MaxAttempts + 1), parts : [1..MaxSplitDepth -> SUBSET Lines],
           got : SUBSET Lines, all : SUBSET Lines, missing : SUBSET Lines,
           err : {"none", "request"}]

TranslatorTypeOK ==
  /\ concurrency \in Workers
  /\ revise \in BOOLEAN
  /\ original \in [Lines -> {NoText, OldText}]
  /\ text \in [Lines -> Texts]
  /\ review \subseteq Lines
  /\ cache \in [Keys -> Texts]
  /\ progress \in {"plan", "run", "ok", "error"}
  /\ batches \subseteq SUBSET Lines
  /\ feeder \in {"send", "check", "closed"}
  /\ crew \in [Workers -> Worker]
  /\ stopped \in BOOLEAN
  /\ external \in BOOLEAN
  /\ fatal \in {"none", "budget", "request"}
  /\ failed \subseteq Lines
  /\ spent \in Nat

\* The translation stage starts from lines without a text, polish from the
\* lines translation left, where those without a text are marked for review.
TranslatorInit ==
  /\ concurrency \in Workers
  /\ revise \in BOOLEAN
  /\ original = [i \in Lines |-> IF revise /\ i \notin Untranslated THEN OldText ELSE NoText]
  /\ text = original
  /\ review = IF revise THEN {i \in Lines : original[i] = NoText} ELSE {}
  /\ cache \in {[k \in Keys |-> IF k[1] \in known THEN AnswerTo(k) ELSE NoText] :
                 known \in {{}, {SourceOf[2]}}}
  /\ progress = "plan"
  /\ batches = {}
  /\ feeder = "send"
  /\ crew = [w \in Workers |-> Idle]
  /\ stopped = FALSE
  /\ external = FALSE
  /\ fatal = "none"
  /\ failed = {}
  /\ spent = 0

\* Translate up to runBatches.  Nothing is asked for when the cache has every
\* line; a run has no more workers than batches.
Plan ==
  /\ progress = "plan"
  /\ LET hits == Cached(Planned)
         groups == Grouped(Planned \ hits)
     IN  /\ text' = [i \in Lines |-> IF i \in hits THEN cache[KeyOf(i)] ELSE text[i]]
         /\ batches' = groups
         /\ progress' = IF groups = {} THEN "ok" ELSE "run"
         /\ crew' = [w \in Workers |->
                       [Idle EXCEPT !.at = IF w <= concurrency /\ w <= Cardinality(groups) THEN "receive" ELSE "gone"]]
  /\ UNCHANGED <<concurrency, revise, original, review, cache, feeder, stopped, external, fatal,
                 failed, spent>>

\* validateOptions refuses the run, or loadStyle or applyCache fails.
PlanFails ==
  /\ progress = "plan"
  /\ progress' = "error"
  /\ UNCHANGED <<concurrency, revise, original, text, review, cache, runVars>>

\* The caller's context is cancelled.
ParentCancels ==
  /\ progress = "run"
  /\ ~stopped
  /\ stopped' = TRUE
  /\ external' = TRUE
  /\ UNCHANGED <<concurrency, revise, original, text, review, cache, progress, batches, feeder, crew,
                 fatal, failed, spent>>

runConst == <<concurrency, revise, original, review, progress, external>>

\* runBatches hands the next batch to a worker that waits for one.
FeederSends(w) ==
  /\ progress = "run"
  /\ feeder = "send"
  /\ crew[w].at = "receive"
  /\ \E b \in batches :
       /\ IsFirst(b)
       /\ crew' = [crew EXCEPT ![w] = [Idle EXCEPT !.at = "taken", !.pending = b]]
       /\ batches' = batches \ {b}
  /\ feeder' = "check"
  /\ UNCHANGED <<runConst, text, cache, stopped, fatal, failed, spent>>

\* It gives the batch up when the context is done, and checks the context
\* after every batch; then, or when there are no more, it closes the channel.
FeederStops ==
  /\ progress = "run"
  /\ \/ /\ feeder = "send"
        /\ stopped
        /\ \E b \in batches : IsFirst(b) /\ batches' = batches \ {b}
        /\ feeder' = "check"
     \/ /\ feeder = "check"
        /\ feeder' = IF stopped THEN "closed" ELSE "send"
        /\ UNCHANGED batches
     \/ /\ feeder = "send"
        /\ batches = {}
        /\ feeder' = "closed"
        /\ UNCHANGED batches
  /\ UNCHANGED <<runConst, text, cache, crew, stopped, fatal, failed, spent>>

\* The channel is closed and the worker's loop ends.
WorkerEnds(w) ==
  /\ feeder = "closed"
  /\ crew[w].at = "receive"
  /\ crew' = [crew EXCEPT ![w].at = "gone"]
  /\ UNCHANGED <<runConst, text, cache, batches, feeder, stopped, fatal, failed, spent>>

\* tokenBudget.exhausted
Exhausted == MaxTokensPerJob > 0 /\ spent >= MaxTokensPerJob

\* A mutant: the budget is not looked at.
WorkerBeginsUnchecked(w) ==
  /\ crew[w].at = "taken"
  /\ crew' = [crew EXCEPT ![w].at = IF stopped THEN "gone" ELSE "loop"]
  /\ UNCHANGED <<runConst, text, cache, batches, feeder, stopped, fatal, failed, spent>>

\* The checks a worker makes before a batch: a context that is done drops the
\* batch, an exhausted budget fails the run.
WorkerBegins(w) ==
  /\ crew[w].at = "taken"
  /\ crew' = [crew EXCEPT ![w].at = IF stopped THEN "gone"
                                   ELSE IF Exhausted THEN "cancel"
                                   ELSE "loop"]
  /\ fatal' = IF ~stopped /\ Exhausted /\ fatal = "none" THEN "budget" ELSE fatal
  /\ UNCHANGED <<runConst, text, cache, batches, feeder, stopped, failed, spent>>

\* The end of translateBatch on an error: what is pending is missing.
Returned(c, err) ==
  [c EXCEPT !.at = "report", !.err = err, !.missing = @ \cup c.pending, !.pending = {}]

\* A mutant: attempts are not counted against a line that is pending.
AttemptBeginsUnbounded(w) ==
  /\ crew[w].at = "loop"
  /\ crew' = [crew EXCEPT ![w] =
                IF @.pending = {} THEN [@ EXCEPT !.at = "store"]
                ELSE IF stopped THEN Returned(@, "request")
                ELSE [@ EXCEPT !.at = "chat"]]
  /\ UNCHANGED <<runConst, text, cache, batches, feeder, stopped, fatal, failed, spent>>

\* The head of the attempt loop.
AttemptBegins(w) ==
  /\ crew[w].at = "loop"
  /\ crew' = [crew EXCEPT ![w] =
                IF @.pending = {} \/ @.attempt > MaxAttempts
                THEN [@ EXCEPT !.at = "store"]
                ELSE IF stopped THEN Returned(@, "request")
                ELSE [@ EXCEPT !.at = "chat"]]
  /\ UNCHANGED <<runConst, text, cache, batches, feeder, stopped, fatal, failed, spent>>

\* ParseTranslations and Validate: what a reply may have a usable text for.
Usable(pending) == SUBSET pending

\* The model answers, and its reply has a usable text for the lines in usable.
\* The endpoint reports what it used, one unit for a reply.
Replied(c, usable) ==
  [c EXCEPT !.at = "loop", !.attempt = @ + 1, !.pending = @ \ usable,
            !.got = @ \cup usable, !.all = @ \cup usable]
ChatReplies(w) ==
  /\ crew[w].at = "chat"
  /\ spent' = spent + 1
  /\ \E usable \in Usable(crew[w].pending) : crew' = [crew EXCEPT ![w] = Replied(@, usable)]
  /\ UNCHANGED <<runConst, text, cache, batches, feeder, stopped, fatal, failed>>

\* splitAndTranslate: the pending lines are halved, and each half is a batch
\* of its own one level down.
FirstHalves(pending) ==
  {low \in SUBSET pending : /\ Cardinality(low) = Cardinality(pending) \div 2
                            /\ \A i \in low, j \in pending \ low : i < j}
Split(c, low) ==
  [c EXCEPT !.at = "loop", !.pending = low, !.depth = @ + 1, !.attempt = 1, !.got = {},
            !.parts = [@ EXCEPT ![c.depth + 1] = c.pending \ low]]

\* The reply is cut off by the token limit.
ChatTruncated(w) ==
  /\ crew[w].at = "chat"
  /\ IF crew[w].depth < MaxSplitDepth /\ Cardinality(crew[w].pending) > 1
     THEN \E low \in FirstHalves(crew[w].pending) :
            crew' = [crew EXCEPT ![w] = Split(@, low)]
     ELSE crew' = [crew EXCEPT ![w] = Returned(@, "request")]
  /\ UNCHANGED <<runConst, text, cache, batches, feeder, stopped, fatal, failed, spent>>

\* The request fails.  A transient failure is tried again while attempts are
\* left; a cancelled context and any other failure are not.
ChatFails(w) ==
  /\ crew[w].at = "chat"
  /\ \E transient \in BOOLEAN :
       crew' = [crew EXCEPT ![w] =
                  IF transient /\ @.attempt < MaxAttempts
                  THEN [@ EXCEPT !.at = "backoff"]
                  ELSE Returned(@, "request")]
  /\ UNCHANGED <<runConst, text, cache, batches, feeder, stopped, fatal, failed, spent>>

\* sleepCtx ends by the timer, or at once when the context is done.
Retried(c) == [c EXCEPT !.at = "loop", !.attempt = @ + 1]
BackoffEnds(w) ==
  /\ crew[w].at = "backoff"
  /\ crew' = [crew EXCEPT ![w] =
                IF stopped THEN Returned(@, "request") ELSE Retried(@)]
  /\ UNCHANGED <<runConst, text, cache, batches, feeder, stopped, fatal, failed, spent>>

\* A mutant: the texts are paired with the lines by position.
StoredByPosition(lines) ==
  [k \in Keys |-> IF cache[k] = NoText /\ \E i \in lines : KeyOf(i) = k
                  THEN Answer(CHOOSE i \in lines : \A j \in lines : i <= j)
                  ELSE cache[k]]

\* Cache.Put: one transaction, and a key that is there is left alone.
Stored(lines) ==
  [k \in Keys |-> IF cache[k] = NoText /\ \E i \in lines : KeyOf(i) = k
                  THEN Answer(CHOOSE i \in lines : KeyOf(i) = k)
                  ELSE cache[k]]

\* The depths at which a second half waits; the deepest one is next.
Waiting(c) == {d \in 1..MaxSplitDepth : c.parts[d] # {}}
Resumed(c, d) == [c EXCEPT !.at = "loop", !.pending = c.parts[d], !.depth = d,
                           !.parts = [@ EXCEPT ![d] = {}], !.attempt = 1, !.got = {}]

\* A mutant: the lines the model would not translate are not reported.
NextPartForgetful(c) ==
  IF Waiting(c) = {} THEN [c EXCEPT !.at = "report"] ELSE Resumed(c, Max(Waiting(c)))

\* What follows the end of a part: its missing lines are recorded and the next
\* part begins, or the batch is done.
NextPart(c) ==
  LET done == [c EXCEPT !.missing = @ \cup c.pending, !.pending = {}]
  IN  IF Waiting(c) = {} THEN [done EXCEPT !.at = "report"] ELSE Resumed(done, Max(Waiting(c)))

\* The end of translateBatch: what was obtained goes to the cache.  A write
\* that fails, as it does when the context is done, is only logged.
BatchStores(w) ==
  /\ crew[w].at = "store"
  /\ \E written \in BOOLEAN :
       /\ written => ~stopped
       /\ ~written => stopped \/ CacheMayFail
       /\ cache' = IF written THEN Stored(crew[w].got) ELSE cache
  /\ crew' = [crew EXCEPT ![w] = NextPart(@)]
  /\ UNCHANGED <<runConst, text, batches, feeder, stopped, fatal, failed, spent>>

\* The outcome of a batch is applied under the mutex.
WorkerReports(w) ==
  /\ crew[w].at = "report"
  /\ text' = [i \in Lines |-> IF i \in crew[w].all THEN Answer(i) ELSE text[i]]
  /\ failed' = failed \cup crew[w].missing
  /\ fatal' = IF fatal = "none" THEN crew[w].err ELSE fatal
  /\ crew' = [crew EXCEPT ![w] = IF @.err = "none" THEN Idle
                                 ELSE [Idle EXCEPT !.at = "cancel"]]
  /\ UNCHANGED <<runConst, cache, batches, feeder, stopped, spent>>

\* A mutant: a worker that fails leaves without cancelling the others.
WorkerCancelsNothing(w) ==
  /\ crew[w].at = "cancel"
  /\ crew' = [crew EXCEPT ![w].at = "gone"]
  /\ UNCHANGED <<runConst, text, cache, batches, feeder, stopped, fatal, failed, spent>>

\* The context is cancelled after the mutex was released.
WorkerCancels(w) ==
  /\ crew[w].at = "cancel"
  /\ stopped' = TRUE
  /\ crew' = [crew EXCEPT ![w].at = "gone"]
  /\ UNCHANGED <<runConst, text, cache, batches, feeder, fatal, failed, spent>>

\* runBatches returns when every worker has ended.  The translation stage then
\* marks the lines in Failed; polish keeps the marks the lines came with.
RunReturns ==
  /\ progress = "run"
  /\ feeder = "closed"
  /\ \A w \in Workers : crew[w].at = "gone"
  /\ progress' = IF fatal = "none" THEN "ok" ELSE "error"
  /\ review' = IF fatal = "none" /\ ~revise THEN review \cup failed ELSE review
  /\ UNCHANGED <<concurrency, revise, original, text, cache, runVars>>

\* The end of a job: Cache.Prune drops the least recently used rows, which may
\* be any of them here.
Prune ==
  /\ progress \in {"ok", "error"}
  /\ \E k \in Keys :
       /\ cache[k] # NoText
       /\ cache' = [cache EXCEPT ![k] = NoText]
  /\ UNCHANGED <<concurrency, revise, original, text, review, progress, runVars>>

WorkerStep(w) ==
  \/ WorkerBegins(w) \/ AttemptBegins(w) \/ ChatReplies(w) \/ ChatTruncated(w)
  \/ ChatFails(w) \/ BackoffEnds(w) \/ BatchStores(w) \/ WorkerReports(w)
  \/ WorkerCancels(w) \/ WorkerEnds(w)

FeederStep == FeederStops \/ \E w \in Workers : FeederSends(w)

TranslatorNext ==
  \/ Plan \/ PlanFails \/ ParentCancels \/ RunReturns \/ Prune
  \/ FeederStep
  \/ \E w \in Workers : WorkerStep(w)

\* Goroutines are scheduled and a request ends: Chat has a timeout.
TranslatorFairness ==
  /\ WF_trVars(Plan) /\ WF_trVars(RunReturns) /\ WF_trVars(FeederStep)
  /\ \A w \in Workers : WF_trVars(WorkerStep(w))

TranslatorSpec == TranslatorInit /\ [][TranslatorNext]_trVars /\ TranslatorFairness

-----------------------------------------------------------------------------
(* Properties *)

\* A run that succeeds accounts for every line it planned, exactly once: the
\* line has its answer, or it is in Failed with the text it came with, and a
\* line that has no text at the end is marked for review.
EveryLineIsAccountedFor ==
  progress = "ok" /\ ~external =>
    /\ \A i \in Planned : (text[i] = Answer(i)) # (i \in failed)
    /\ \A i \in Lines : SourceOf[i] # "" /\ text[i] = NoText => i \in review

\* A text is the answer to a request for its own line, whichever of the cache,
\* a retry or a half of a split batch it came from, and the cache never holds
\* an answer under another request's key.
AnswersStayWithTheirRequest ==
  /\ \A i \in Lines : text[i] \in {original[i], Answer(i)}
  /\ \A k \in Keys : cache[k] \in {NoText, AnswerTo(k)}

\* The two together: no line is lost, counted twice or given another's text.
LinesGetTheirAnswers == EveryLineIsAccountedFor /\ AnswersStayWithTheirRequest

\* The replies a batch of n lines can be charged for, at worst: all attempts
\* but the last of a part, and then the halves of it, down to MaxSplitDepth.
Unsplit(n) == IF n = 0 THEN 0 ELSE MaxAttempts
Halved(Replies(_), n) ==
  IF n <= 1 THEN Unsplit(n) ELSE MaxAttempts - 1 + Replies(n \div 2) + Replies(n - (n \div 2))
RepliesAt2(n) == Halved(Unsplit, n)
RepliesAt1(n) == Halved(RepliesAt2, n)
WorstReplies(n) == Halved(RepliesAt1, n)

\* The token ceiling is only looked at when a batch begins, by workers that do
\* not see each other's requests under way.  What a run spends beyond it is
\* nevertheless bounded: by one batch for each worker.
SpendingIsBounded ==
  MaxTokensPerJob > 0 =>
    spent <= MaxTokensPerJob - 1 + concurrency * WorstReplies(BatchSize)

\* Translate returns: the feeder and the workers never wait for each other
\* for ever, whichever of them leaves first.
TranslateReturns == (progress = "run") ~> (progress \in {"ok", "error"})
=============================================================================
