# NikuCooker: a TLA+ verification project

NikuCooker turns a video into translated subtitles.  A Go server keeps projects,
runs a pipeline of stages over them (extraction, recognition, segmentation,
translation, rendering), stores every stage's output under a content address,
drives Python processes for inference, talks to language-model endpoints, and
streams events to a browser in which people edit the lines.

This directory holds TLA+ models of the parts where the order of steps matters,
TLC configurations that check them on small instances, and TLAPS proofs of the
most important results for all sizes.

## Layout

| module | models | source |
|---|---|---|
| `JobRun` | a request from planning to the recorded outcome: claim, stages, cancellation, crash, reconciliation | `internal/app/run.go`, `internal/jobs`, `internal/pipeline` |
| `JobRunProofs` | type correctness, six safety properties and an action property of `JobRun` | |
| `Planner` | what a run recomputes: selection, keys, reuse, the lines stages read | `internal/pipeline/plan.go`, `internal/artifact/hash.go`, `internal/stages` |
| `ArtifactStore` | one stage's output: temporary directory, manifest, rename, row, pruning, removal, crash | `internal/artifact/store.go`, `internal/app/outputs.go` |
| `ArtifactStoreProofs` | three safety invariants of `ArtifactStore`, and what a run of `Planner` uses again | |
| `Outputs` | publication of a project's files, and the editor's preview | `internal/app/outputs.go`, `internal/project`, `internal/api/media.go` |
| `Projects` | project rows, project directories and uploaded media; expiry | `internal/project`, `internal/api/handlers.go`, `uploads.go`, `internal/app` |
| `Models` | downloads of a model, their resumption, deletion and the scan | `internal/models` |
| `DiskProofs` | the safety invariants of `Models`, `Projects` and `Outputs` | |
| `Segments` | the lines of a project: edits, splits, merges, reviews, and the run that replaces them | `internal/segments`, `internal/app/run.go` |
| `Segmenter` | words into timed lines: split, merge, reflow | `internal/subtitle` |
| `EditProofs` | the safety invariants of `Segments`, `Segmenter` and `Glossary` | |
| `Translator` | one translation: batches, workers, retries, splitting, cache, budget | `internal/translation` |
| `TranslatorProofs` | types and the two safety invariants of `Translator` | |
| `Glossary` | terms in force, the prompt's block, the shared line cache | `internal/glossary`, `internal/translation/cache.go` |
| `Settings` | layers of configuration, stored settings, requests, restart | `internal/config`, `internal/settings`, `internal/app` |
| `Providers` | endpoint rows, and the client that learns what an endpoint refuses | `internal/provider`, `internal/api/admin.go` |
| `Runtime` | the installer, its cancellation and watcher, and the memoised worker pool | `internal/provision`, `internal/app/environment.go`, `app.go` |
| `ServerProofs` | the safety properties of `Providers`, `Runtime` and `Settings` | |
| `EventLog` | what the bus promises: a log with readers (abstract) | `internal/events/events.go` (package comment) |
| `EventBus` | the bus: ring buffer, subscriptions, overflow, replay; `FollowsTheLog` is its refinement of `EventLog` | `internal/events/events.go` |
| `EventBusProofs` | the ring and channel invariants, the refinement, and what a tab is told | |
| `EventStream` | extends `EventBus` with the SSE handler and the browser's store | `internal/api/system.go`, `web/src/stores/events.ts` |
| `WorkerCall` | one worker process and the calls made to it: answers, cancels, stalls, deaths, shutdown | `internal/worker/worker.go`, `ai/nikucooker_ai/worker.py` |
| `WorkerPool` | leases of worker processes: tokens, the idle list, failed starts, shutdown | `internal/worker/pool.go` |
| `WorkerPoolProofs` | types, exclusive leases and the bound on processes of the pool; types and acknowledgements of the calls | |
| `MCJobRun`, `MCEventStream`, `MCWorkerCall`, `MCGlossary` | model values, small instances and symmetry of one module | |
| `MCFiles`, `MCEdits`, `MCWork` | suites: several modules that share no state, in one run | |

A definition with a suffix (`Begin_NoCheck`, `superseded_OneTooMany`) or one that a
comment calls a mutant stands before the definition it mutates.  No specification
uses it: `PROJECT.json` pairs it with the property that must fail when the code is
changed that way.

## Inventory

**Jobs** (`internal/jobs`).  State: the rows `jobs` and `job_stages`, and the
scheduler's map from project to running job.  Operations: Create, SetStatus
(guarded by CheckTransition), SetStage, Cancel, Reconcile; Scheduler Begin,
Finish, Cancel.  Shared by HTTP handlers, the command line and the run's
goroutine.  Correct when one job owns a project, every run ends in a terminal
row that says what happened, and terminal rows are never rewritten.

**Pipeline** (`internal/pipeline`).  State: the plan, one entry per stage.
Operations: Build (selection, cache lookup, blocking), Run (re-check, execute,
settle, cancel the rest).  Hard: keys are derived when the run is planned and
again when a stage starts, and the lines two stages read can be edited in between.
Correct when a stage runs only over usable inputs, what is reused was made from
what it is used with, and a project nobody touches comes to rest.

**App runs** (`internal/app/run.go`).  Start, prepare, execute: the composition
of the two above with the store's sweep and the event bus.  Hard: the plan is built
before the claim; the outcome is written after the context may be dead.

**Artifact store** (`internal/artifact`).  State: rows in `artifacts`, directories
on disk, temporary directories.  Operations: Begin, Commit, Abort, Lookup, GC,
RemoveAll, SweepTempDirectories.  Hard: disk and database change in separate
steps and a crash may fall between any two.

**Projects and uploads** (`internal/project`, the handlers).  State: rows, a
directory per project, uploads under way and complete.  Operations: upload, create
from an upload or a path, edit, delete, remove the source, and a maintenance pass
that drops stale uploads and expired projects.  Hard: a medium is moved, not copied;
row and directory change separately; edits are judged against a row read earlier.

**Outputs and previews** (`app.publishOutputs`, `api/media.go`).  State: the output
directory, its staging sibling, the preview with its status and temporary file.
Hard: readers see the directory between removal and renaming; two generators share
one temporary file name.

**Models** (`internal/models`).  State: a directory per model, `.partial` files,
the set of downloads under way, a row that caches the scan.  Operations: Download,
resume, Delete, List.  Hard: resumption after a kill, another hub, deletion under
a download.

**Segments and editing** (`internal/segments`).  State: one row per line, numbered
without gaps, and QC findings that refer to rows.  Operations: edit, review, split,
merge, splice, replacement by a run.  Hard: requests read with one statement and
write with another; a run finishes while someone edits; identifiers are derived from
positions, so they move.

**Translation** (`internal/translation`).  State per run: the lines still to do, the
outcome lists, tokens spent, the context; shared: the line cache.  Operations: plan,
feed batches, translate, retry, split, record.  Hard: partial and truncated answers,
a budget looked at by workers that do not see each other, feeder and workers that
stop at different times.

**Glossary** (`internal/glossary`).  State: entries, of one project or of all.
Operations: add, remove, resolve, build the prompt's block.  Hard: precedence of
entries, and cached lines of other projects and earlier entries.

**Subtitles** (`internal/subtitle`).  Words into lines, merging of short lines,
reflow after translation; then formatting.  Hard: boundaries, and what neighbours
take from each other.

**Settings** (`internal/config`, `internal/settings`).  State: stored rows, the
resolved configuration and where each value came from.  Operations: load, update,
clear, restart.  Hard: constraints over two keys, other layers above and below,
concurrent requests.

**Providers** (`internal/provider`).  State: rows with keys; per client what the
endpoint has refused.  Operations: save, PATCH, delete, Chat with renegotiation.
Hard: a row written back from a stale read; flags shared by concurrent requests.

**Provisioning** (`internal/provision`, `App.Worker`).  State: the installer, the
environment on disk and as last checked, the memoised pool and the retired ones.
Operations: start, the four steps, Cancel, the watcher, Worker, InvalidateWorker,
Close.  Hard: Cancel works in two parts without the lock; the watcher acts after
the installer is free again.

**Event bus** (`internal/events`).  State: a sequence counter, a ring of recent
events, a bounded channel per subscriber.  Operations: Emit, Subscribe, Close,
receive.  Hard: wrap-around, overflow, replay that overflows halfway.

**Event stream** (`getEvents`, `stores/events.ts`).  State: the handler's
position, frames under way, the store's connection state, last sequence and one
timer.  Hard: drops, reconnections with a position, restarts of the server.

**Worker** (`internal/worker`, `ai/nikucooker_ai/worker.py`).  State: processes,
pending calls, idle list, tokens, failure budget; in Python a control and a data
queue.  Operations: Acquire, Release, Call, Cancel, readEvents, reap, Shutdown.
Hard: answers racing process death, cancellation of a call that is not answered.

**QC, analysis, stages, media, REST handlers, logging, platform, database.**
Checks on lines, command lines, HTTP, formatting and environment detection around
the above.

`PROJECT.json` lists all of them under `components` and, under `hazards`, each
place in the code where something can go wrong that a test would hardly reach.

## How the models correspond to the code

### JobRun

A job is a request: `Prepare` is `App.prepare` (sweep, then `pipeline.Build`),
`Begin` is `Scheduler.Begin`, `Create` the insertion of the job row with its error
path, and `Execute(j)` the goroutine `App.execute` with one action per step at which
another goroutine, a cancellation or a crash can be seen from outside: marking the
job running, each stage's start, result, commit and settling, the decision and the
recording of the outcome, the release of the claim.  A stage succeeds or fails
freely.  Stages form an arbitrary dependency graph (`Depends`), numbered in
topological order, and a plan entry is `absent` when the stage was not selected.

A write on the run's context happens only while the context is live
(`WriteStageRow`); the outcome is written on a detached context, as in the code.
`Restart` ends every execution and empties the scheduler; rows, artifact rows and
directories survive.  `Next` is the program as built, which reconciles nothing;
`NextReconciling` adds `Reconcile` as `tests/phase1_test.go` calls it.

### ArtifactStore

One stage of one project, executed by several runs with arbitrary keys.  `Commit`
is five actions (manifest, clearing the old directory, cleared, rename, row), `GC`
three (listing, row, directory), and `RemoveAll` five with its error path, so that a
crash, a cancellation or another request falls between any two.  A directory holds nothing,
a payload, a payload with manifest, or what is left of a tree being removed.
Clearing a tree whose row is still there is two steps; a directory whose row is gone,
and which nobody can find, is removed in one.  The clock advances with each row: equal
timestamps are not modelled, and `created_at` is compared as a time although the
database compares its text.  `serial` is chosen at the start: requests come one after the
other and reuse what there is, or they overlap, may force a stage, and the user may remove
the artifacts.  `retention` is that of the configuration each run was given: what one keeps
another may prune, and with 0 a run prunes what it has just committed, its row first.

### EventLog, EventBus, EventStream

`EventLog` is a growing log with readers that are away, reading, behind (and will be
told) or gone; a reader resumes exactly where it asks or starts at the end and is told
so.  `EventBus` implements it with the ring, its start index, and
channels.  Events are their sequence numbers: payloads and filters are left out
(the application's store never sets a filter).  The bus is one mutex, so each of its
operations is one action.

In `EventStream` a subscriber is a browser tab with one source at a time.  Notes:

* A handler whose connection is gone is closed together with the connection.  In
  the code its subscription lingers until its context is cancelled; it delivers to
  nobody in that time.
* A refetch over REST reflects everything emitted so far.
* The browser's own retry of an `EventSource` is left out: the store's timer of
  one second closes the source before it.
* Unmounting ends the page; what mounts next is a fresh store.
* A restart empties the wire.  Frames that were already received are so in the
  state before it.

### WorkerCall

A lease gives one caller at a time, so data requests follow one another; what their
callers gave up on may still be queued or served in the process.  A call that gives up
sends a cancel, and the cancel is itself a call (`Worker.Cancel` goes through
`Worker.Call`).  Only the innermost call of that stack waits, so a caller has one `pc`
and a frame number: 0 for its call, 1 for the cancel, then 2 and 1 in turn for cancels
of cancels, which are only sent to a process that answers nothing.

The Go side has an action for each piece of `Call` between two locks or waits, for
`readEvents` with `deliver`, and for `reap`.  The Python side has the reader thread
(`ReadRequest`, `Fatal`, `Settle`, `Exit`) and the data thread (`Take`, `Admit`,
`WriteTerminal`, `Finish`).  `Crash` kills the process at any step and `Wedge` stops
both its threads without killing it.  `readEvents` ends in three ways: at the end of the
stream, on a line it cannot parse (`Malformed`, which kills the process), and on any other read
error, of which the line beyond `protocol.MaxLineBytes` is the one a process can cause
(`OverlongLine`, which only returns).  After that the process lives and is not `heard`: it goes on
reading and serving, and what it writes is read by nobody (until the pipe is full, when its threads
stop: a `Wedge`).  Notes:

* Deadlines are not clocks.  A data call may give up at any moment.  A control call gives up
  only when the process does not answer, or is not heard: its deadline is thirty seconds and the
  reader's longest wait five.
* Progress events only put off a stall and are left out.
* A process that does not respond reads nothing, so what is sent to it is not kept.

### WorkerPool

One action for each step between two locks or channel operations of `Acquire`,
`Release` and `Shutdown`.  Processes are numbered as they start; `status` is what `Worker.State` tells
the pool.  The time window of the failure budget is a choice: any number of
earlier failures may have left it.  What a caller does with its worker is `WorkerCall`, and here one step.

### Planner

A key is a record of what `DeriveKey` hashes (hashes do not collide), and an
artifact's payload is what it was made from.  `Build` is one step, as in the code:
it selects, walks the stages in registration order (a recursive function, the plan after
each stage), looks keys up and marks what is blocked.  A run then reports, and every stage begins, derives its key again from the
lines as they are now, and succeeds or fails.  Between the steps someone may edit a line;
between runs a setting may change or an optional stage be switched.  Stages that store
lines (`WritesLines`) replace them: a cached one when the run reports, others when they end.

### Projects and Outputs

A medium is followed from the user's hands through `uploads/` into a project's
directory.  Each handler is split where the database and the disk change separately
or where it reads what it later writes: creation is scaffold, placing, insertion, and
tidying up on failure; an edit is a read and a write.  `excused` names the projects
whose row and directory the code lets disagree: kept on request, recreated by a
run whose project was deleted, or left by a crash or a full disk.

A published file is its name and the run that made it; files are copied one at a time
into the staging directory, each under the first free of its names (`PublishNames`, one
entry at a time in the order of the stages), the old set is cleared, the new one renamed,
and the process may die or the step fail anywhere.  A preview is the set of generators that wrote to it.

### Models

A file is its chunks, each with its hub and its place.  A download goes through the
sorted files: it looks at the `.partial`, asks, and opens the file when the hub has answered (it
may honour the range, send the whole or refuse); it reads, breaks off, publishes by rename, and ends.
Deletion unlinks files under open handles, and between the look and the opening it leaves nothing to
open; the process may end at any step.  `DownloadFile` renames at any end of the body and compares no
sizes.  That a body which ends early is an error, and so a `FileBreaks`, is what the HTTP client does
for a body with a length or in chunks; a hub that announces neither could end one early unnoticed.

### Segments

A word stands for its text and its time, so a sequence of words is both a source text
and a timing.  Ordinals stand for row identifiers, which are derived from them.  Every
request is a read and a write, or two reads and a write; a splice and a run's replacement
are single transactions.  A recording's words ascend (`Ascends`), in a row too, and the rows
behind a place are taken in the order of their ordinals (`Ordered`).  `overlap` says whether requests may interleave: what holds
only for one request at a time says so.

### Segmenter

Every iteration of a loop of the splitter, of `mergeShort` and of `Reflow` is a step.
Times are whole units and a word carries what its text ends.  A line has no characters to
read before it is translated; their number is then a choice between one that fits and one
that does not.

### Translator and Glossary

`Translator` is one call of `Translate` on behalf of the translation or the polish stage: planning
from the cache, the feeder, the workers with the parts of split batches, attempts,
backoff, stores, reports and the cancellation that the first fatal error causes.  A batch is
its set of lines, since its order is theirs: `Grouped` cuts every run of consecutive pending
lines each `BatchSize` lines, and `FirstHalves` gives the lower half of what is pending.  The
recursion of `splitAndTranslate` is the second half that waits at each depth, of which
the deepest is resumed first.  A text is
the request it answers, so a text that ends up with another line is told apart.  A
reply is the set of lines it answers usably; it is charged whether usable or not.

`Glossary` follows what a line was made with: entries change while passes of two
projects read them once, send requests for any of the missing lines, and share the
line cache.  `Match` keeps one winner for each term (`Winners`) and lists the winners by
their rank (`Precedes`).

### Settings, Providers, Runtime

A settings document is a function from four representative keys (two that constrain each
other, one of another section that file and environment also set, and one that is not
editable).  An update reads, resolves, writes and publishes in separate steps; a
restart resolves everything again.  Values above 10 are the same values written in another
way, as `coerce` rewrites them.

Providers' rows are saved and patched from tabs that read first and write later.  A client's
three flags are read one at a time while a request is put together, and corrected after the
endpoint's complaint.  `mentions` looks for a field's name anywhere in the message and the
body, so a complaint names an arbitrary set of fields: refused, accepted, or not sent at all.  `quoted`
records which fields complaints to this client have named of those the request had sent.

The installer's goroutine runs four steps and finishes, announces the end to its watcher, and
the watcher checks the environment, publishes it and invalidates the pool; `Cancel` reads
under the lock, kills, and cancels in three steps.  The environment on disk is absent,
unusable, half synchronised or good.  `checkEnvironment` has forty-five seconds and a probe of the
interpreter its own limit, so either may fail on a good environment, and a job that is cancelled may
give up its probe; none finds a bad one good.  A watcher that has invalidated the pool ends as
`forgot`, any other as `done`.  Pools are built outside the lock in numbered slots.

## Runs

| run | instance | shows |
|---|---|---|
| `race` | 1 project, 2 jobs, 3 stages (a fork), 1 crash; jobs are symmetric | type, exclusive claim, dependencies succeeded, outcome recorded, completed means delivered |
| `reconcile` | 2 jobs, chain of 2, 1 crash, Reconcile at start, fairness | no job stuck running, failed leaves nothing running, terminal is final, claims are released, cancellation is honoured |
| `files` | store: 3 runs, 3 keys, retention 1, forced and overlapping requests, a removal, 1 crash, or the second run with retention 0 and neither crash nor removal; serial: 4 runs, retention 2, 2 crashes, or 3 runs, the second with retention 0, and 1 crash; outputs: 2 runs, 2 viewers, 1 death; projects: 2 projects, 1 medium, 2 editors, 1 restart; models: 3 files, 2 hubs, 2 downloads, 1 kill; planner: 5 runs of 4 stages, 1 change | nothing half-written, what was completed is usable or was pruned by its own run with retention 0, ready rows are on disk, published sets and previews are whole, rows match the disk, downloads are whole, plans are sound |
| `edits` | events: 2 subscribers, ring of 3, channels of 2, 5 events; lines: 3 requests (2 when they interleave), 2 runs, 3 words; segmenter: 4 words of 5 kinds; glossary: 2 projects, 2 entries, 1 removal; settings: 3 requests, 1 restart; providers: 2 rows, 2 tabs, 3 edits, 2 calls; runtime: 2 installs, 2 clicks, 1 caller | contiguous window and channels, refinement of `EventLog`, lines keep their text, lines are sound, a line is made with its terms, settings are true, keys and corrections are right, installs are reported truly |
| `work` | pool: 3 callers, 2 slots, 3 starts, a budget of 1; translator: 3 lines, batches of 2, 2 workers, 2 attempts, a budget of 1 token, a cache that may fail; fairness | exclusive leases, bound on processes, waiting callers proceed, lines get their own answers, spending is bounded, `Translate` returns |
| `stream` | 1 tab, ring of 2, channel of 1, 5 events, 2 drops, 1 restart, fairness | nothing applied twice, falling behind is noticed, a lost stream is reopened |
| `call` | 3 requests, a queue of 1, fairness | type, an acknowledgement follows its target's answer, every call ends unless the process stays lost: alive, but not responding or not heard |
| `stuck` | as built, 1 crash | **violated**: Reconcile has no caller in the program, so a crash leaves a job running |
| `sweep` | no crash | **violated**: a request that is going to be refused deletes the running stage's temporary directory |
| `stream_gap` | ring of 2, 4 events, 1 drop | **violated**: the first missed event is not replayed (off by one between store and bus) |
| `call_hang` | 1 request, fairness | **violated**: against a process that stops responding a call, and Shutdown, never return |
| `language` | 2 projects with different target languages | **violated**: a cached line is served in the other project's language |

Suites.  The modules of `MCFiles`, `MCEdits` and `MCWork` share no state.  `active` is
chosen in the initial state, a behaviour is of the part it names, and the others stay as
they began; each part is explored exactly as it would be on its own.

What the instances leave out.  Some orders of equivalent things are explored once: runs and keys
of the store are numbered as they come up (`Numbered`, `InOrder`), editing requests as they
are made (`RequestsInOrder`), of two idle translation workers the first gets the batch
(`FirstFirst`), and the first glossary entry is enabled and maps to the first of two
translations (`FirstEntry`).  Others are cuts, made for size: two creations race or two
edits of a project do, not both (`FewRequests`); one install is cancelled (`OneCancel`); a client is
built after the first edit, and no row is edited from then on (`EditsFirst`), since no step of a client reads
a row; of the two ways a check of the environment can fail, which only the page tells apart, the runtime
part takes one (`FoundFailed`); two translation workers are explored for a first pass over an empty cache, one for the others.

Why the bounds suffice.  The races of `JobRun` are between two requests for one
project: a third adds no new pair.  A fork of three stages is the smallest graph in
which one branch fails while another succeeds.  In the store, three runs and three keys let one run
be planned, a second publish and prune, and a third find what is left; retention 1 and 2
are the first values at which something is kept and something kept besides the newest, and 0 the one
at which nothing is.
Five plans allow a change, a run that meets it, and the three that must come to rest.
Two downloads, two hubs and a file of two chunks allow a resumption at every point from
the other hub.  In the bus five events wrap a ring of three, and the channel of two is smaller
than the ring, so that a replay can overflow.  Three words in two lines can be cut in two ways, split and
merged; four words fill a line, exceed it and leave a remainder to merge.
A batch of two is the smallest that splits, and with the first line's text repeated in the last
the second batch can meet the first one's cached answer.  Two installs let the end of one overlap the
beginning of the next.  Three requests fill a queue of one behind a handler that never ends.  Three
callers for two slots let one wait while two are between the steps of a release, and three starts
let a process be replaced.  In the stream every capacity is the
smallest that allows both replay and overflow, and two drops allow a drop during recovery
from a drop.

Deadlock is checked for `JobRun`, where `Quiescent` marks the states in which everything
has been answered.  Elsewhere every request is made once and every fault a bounded number of times,
so behaviours end at rest when the bounds are used up; that nobody waits for ever there is
what the liveness properties say, where scheduling decides it.

Fairness.  `JobRun`: the goroutine of a run and the handler that creates its row are
scheduled, and a stage ends by a result or an error.  That last part is an assumption
on the stage; nothing is assumed about requests, cancellations or crashes.
`EventStream`: the timer fires, received frames are handled, accepted requests are
served and the handler's loop runs.  Nothing has to be emitted, mounted or lost.
`WorkerCall`: goroutines run, a select with a ready branch takes one, and the reader thread of a process
that is alive runs.  Nothing is assumed of handlers, which may never end, nor of the data thread.  `WorkerPool`: callers that hold a token go on,
a start ends within its timeout, a call ends, and, as Go's channels serve receivers in turn, a
caller before whom a token is free again and again gets one (strong fairness).  That a call ends is what
`call` shows for a process that dies or responds and is heard, and `call_hang` refutes for one that does neither.
`Translator`: planning, the feeder, the workers and the waiting caller are scheduled; a `Chat` ends by an
answer, an error or its timeout, and a backoff ends.  No reply has to be usable.

## Findings

The violations above are disagreements between the code and its own comments or tests;
`PROJECT.json` quotes each line.  More were met while modelling and have no run.

Runs, store and events:

* A cancelled run writes its stage rows on the cancelled context, so the row of the stage it
  stopped in keeps saying running (`executor.go`, settle).
* A plan is built before the claim is taken, and another run's pruning may remove an artifact
  the plan counts as cached; `SucceededIsUsable`, a part of `StoreIsSound`, is stated for requests
  that do not overlap.
* `artifact.retention` 0 is accepted (`config.go:633`) and prunes the version that was just
  committed, where GC's comment has that "the newest version is never pruned" (`store.go:413`): the
  stages that follow in the same run find nothing.  `CompletedIsUsable` and `SucceededIsUsable` make
  this exception (`PrunedItself`) and no other: the row is then gone with the files.
* A forced re-run removes the old directory while its row is still ready, and a removal of
  the project's artifacts is not excluded by the claim; both are in the model, which is why
  `ReadyIsOnDisk` is stated without forced requests and `CompletedIsUsable` speaks of the
  time before a removal.
* A tab that missed nothing asks for a position the server has not reached and is told to resync,
  again and again for as long as the server is idle (`events.ts`, `buildUrl`).
* A restarted server that has emitted as many events as a tab had seen takes the tab's
  old position for a valid one.
* A ready event that is read after its process was reaped makes a dead worker look ready.

Worker calls:

* `Worker.Cancel` says that "a returned success means the request is genuinely finished"; the
  worker answers a cancel for a request that is still queued as if it had finished, and serves it later.
* `worker.py` takes a full queue for an error of the pool's accounting.  In `call` it fills up
  although every worker has one caller: cancelled requests stay behind a handler that ignores its token.

* A line longer than the reader's limit ends `readEvents` without killing the process
  (`worker.go:257`, `codec.go:72`), and the writer in Python does not check the length
  (`protocol/codec.py:102`).  Nobody reads the answers of that live process from then on, and calls and cancels
  to it behave as to one that does not respond: a second way to the hang of `call_hang`, whose
  trace takes the first.  `CallEnds` excuses both (`Lost`), and only as long as they last for good.

Planning:

* A disabled optional stage's old artifact still feeds its dependents, so switching polish off
  leaves the subtitles polished (`plan.go`); a forced recomputation keeps its key (`hash.go`).
* A cached polish's lines are overwritten by a translation that is made later in the same run; the
  next run puts them back, which is why `NothingIsRecomputed` allows three runs.
* Inputs in no key: the project's language and style, the glossary that qc reads, and the
  recognition language that probing and extraction read.
* The API's comment on running one stage contradicts what `Options.Only` does.

Lines, translation and glossary:

* QC findings carry row identifiers while `OrdinalMap` maps artifact identifiers, so findings
  are dropped.
* A run that cuts lines differently can lose a person's text, despite the comment of
  `ReplaceFromArtifacts`; `HumanTextStays` speaks of runs that cut as the rows do.
* The comment of the glossary's upsert promises a replacement that a unique index refuses; `glossary
  remove` only reaches global entries; terms beyond `MaxBlockEntries` are cut from the prompt
  though they are in the key; the fingerprint and the run read the glossary separately; qc
  flags global entries that the project overrides.
* `mergeShort` says that only the two ends are considered, and absorbs short lines in the middle
  too.
* `mergeShort` also says that "hasHead cannot still be set: it is only set on the first line, and the
  guard above means a second line always exists to clear it" (`segmenter.go:389`).  The joined line is
  short again when all lines together last less than `MinDuration`: two words of 0.2 s, 0.4 s apart,
  are two lines under the pause limit of 300 ms and 0.8 s together, and none of them is returned.
  `OnlyBriefIsLost`, a part of `LinesAreSound`, says that this is the only way a word is lost, and the
  proof of `LinesStaySound` that it is so for every recording.

Projects, outputs and models:

* A creation that fails when the row is inserted removes the uploaded medium with the directory.
* A failure between clearing and swapping leaves no published set, although the
  comment of `PublishOutputs` says that the previous set stays.
* `RemoveFileGroup` checks for a running job and then removes, without a claim.
* A `.partial` of full size makes every retry fail with 416; `Delete` does not look at downloads;
  a resumed file may be of two hubs; a directory with weights is ready whatever else is missing;
  the progress of later files is suppressed.

Settings, providers and runtime:

* Clearing one key is validated without its whole section but deletes only the key: what is
  stored may be unacceptable, and the next start then ignores all of it.  Interleaved updates can
  leave the older configuration in effect.
* A PATCH without a key writes back the key it read, and the upsert of `Save` brings back a
  row that was deleted meanwhile.
* The installer is free before its watcher has published, so a second install is accepted over a
  working environment, and cancelling that one deletes it; a late watcher can publish ready over a
  removed environment; a cancelled install may end as failed; a pool that is being built
  when it is invalidated is never closed.
* "The invalidation still happens on success", says `StartProvision` (`app/provision.go:28`), but the
  watcher invalidates only if its own check says ready, and the check may run out of time or fail on
  a good environment: the failure that the install has just fixed is then what later jobs are told.  A
  probe that gives up on a good environment, or whose job is cancelled, is remembered in the same way
  (`app.go:671`).  `FailureIsForgotten`, a part of `InstallsAreTrue`, speaks of installs whose watcher saw
  the environment ready, and of failures that a bad environment caused.
* A 400 about another matter whose message or body quotes a field that the endpoint accepts makes the
  client give that field up for the rest of the stage (`openai.go:339`).  `OnlyQuotedFieldsAreDropped`, a
  part of `ProvidersAreRight`, says that a field is never given up without such a complaint; it does not
  say that the endpoint refuses it.

## What is proved

For every value of the constants that satisfies the modules' `ASSUME`s: any number of
projects, jobs, lines, files, tabs, requests, faults and restarts, and any capacity.  Each
theorem is `Spec => []Property` by an invariant that the initial states satisfy and every
step keeps, proved with one step per action; where an invariant rests on another, the
second is proved first.

### Runs: `JobRunProofs`

`TypeCorrect`, `ClaimExclusion`, `OutcomeRecorded`, `CompletedDelivered`, `FailedSettled` and
`DependenciesHold` for the program as built, `TerminalStays` (no step rewrites a
terminal row), and `FailedSettledReconciling` and `NoneStuckReconciling` for the program with
`Reconcile` at its start.  Assumptions: finitely numbered stages whose dependencies come
earlier, every job has a project.

`ClaimIsExclusive` is inductive with the types.  The others need a per-job invariant that
says, for each place of the run, what the job row and the stage rows may hold: an
unfinished run's row is pending or running, so CheckTransition accepts the outcome;
stages before the cursor have been settled; with a live context a settled stage's row equals
its plan entry.  `DependenciesSucceeded` is kept because only the stage at the cursor
changes state, and it has not succeeded yet, so no dependency stops being one that
succeeded.  `NoJobStuckRunning` adds that the row of a job which a dead
process left behind does not say running.

### The artifact store: `ArtifactStoreProofs`

`NothingHalfWrittenHolds`: what is cleared for publication has its manifest or has been
swept away.  `CompletedStaysUsable`: the project is held by the run between Claim and Finish,
its row is the newest when GC lists, so its key is not a victim of any retention but 0 (`Spared`); with 0
it is one, and its directory goes only after its row (`Renamed`).
`SerialStoreIsSound`: with one run under way at a time, a run that recomputes has no ready row under its
key until it writes one, so clearing the old directory never empties what a ready row
promises, and a row that a run found ready stays so until the run ends.  All three hold for any
retention of each run (`ArtifactStoreAssumption` has what `Validate` insists on: -1 or more).

`ReuseIsSound` is the first half of `PlansAreSound`, `ReusedWithItsInputs`, for any pipeline whose
dependencies come first (`PlannerAssumption`, which is what `NewRegistry` insists on).  It rests on
`PlannerInv`.  The store holds at most one artifact for a key, made from the inputs and with the settings
that its key names: a stage that begins derives its key from the inputs it is given, which the plan's key
need not name, and is stored under that one.  `BuildFinds` is the plan: in every iteration of the loop
a stage that is cached has an artifact with its key, the key holds the keys of the dependencies that
are cached, and these come earlier, so that no later iteration changes them.  During the run a stage
changes its state but none becomes cached.  `PlannerIsTyped` is the type invariant.

### Models, projects, outputs: `DiskProofs`

`ModelsAreWhole`: a `.partial` is a prefix of its file without a gap, and not longer, whichever
hubs its chunks came from and wherever the process was killed; the rename publishes only a complete
one; at most one download of a model is at work, and it holds the claim; and every file before its
position is published or was deleted since.  Assumption: a repository has at least one file, as `ListFiles` insists.
`ProjectsMatch`: until its row is inserted nothing but its own request touches a project, and one
whose directory is going has no row and never gets one again; a request that is about to
insert the row has made the directory and put the medium into it.  Assumption: project identifiers are not the names of other
places.
`OutputsAreWhole`: what waits and what is staged belong to the version being published, and the old
set is gone when the new one takes its place; names are distinct because each is chosen among
the free ones.  A preview has at most one maker, its row says running as long as there is one, and
the temporary file is that maker's.

### Endpoints, runtime, settings: `ServerProofs`

`EndpointsAreRight`: a row that has had a key is there and has one.  A request has been corrected at
most once for each field that its client has given up and that it no longer sends, so
`maxCorrections` is never why a field that the endpoint refused by name ends a request; and every flag
the client has cleared is of a field that a complaint quoted back to a request which had sent it.
`RuntimeIsTrue`: an install is at work exactly while the manager says so, and it is the latest; one that
has ended tells its own listener; and while the manager says ready the environment is good, and once
the latest install's watcher has invalidated the pool no failure of an earlier environment is
remembered: a slot that is built from then on meets the good one, and can at worst give up.
`SettingsTrue`: however requests interleave, what is in effect is acceptable and comes from the layer that
is named; for requests made one at a time that only set values, it is also what is stored.
Assumption (`StartsAssumption`): the layers besides the stored settings are
acceptable, without which the program does not start.

### Events: `EventBusProofs`

`BusIsContiguous` and `BusFollowsTheLog`.  The invariant says
that the ring read from its start index holds the newest events in order, and that
the index is zero until it is full; that an open channel ends at the current sequence and
a closed one at or before it; and that an overflowed subscription is closed.  Without
the index's part a first wrap-around could not be shown to overwrite the oldest event;
without the closed channels' part draining one could pass the end of the log.  The
refinement maps the counter to the log's length and a subscription's state to its
reader's mode, and is proved action by action.  `StreamNeverRepeats` adds the frames under way: they
and what the channel still holds are in order and past what the tab has applied.

### Workers: `WorkerPoolProofs`

`LeaseExclusion`, `PoolTypeCorrect` and `CapHolds`.  Leases need to
know which labels have a process and what state it is in, so that a new process is
nobody's.  The bound on tokens is conservation: tokens in the channel and callers that hold one add up to
the size.  The bound on processes adds that the idle list is never longer than the free tokens
and the callers that hold a token without a process, which is where it matters
that `Release` appends the worker before it returns the token; and that every running process is leased,
idle or being stopped.  Assumption: finitely many callers.

`CallTypeCorrect` and `AcksFollowTargets`.  A request is in one of the reader's, the queue's and the data thread's
hands, at most once; one that has been answered is in none; and an acknowledgement is written when its target is
done, and is the last that is written of it.

### Translation: `TranslatorProofs`

Assumption: lines, workers, attempts and batch sizes are positive numbers or zero where the options
allow it (`TranslatorAssumption`).

`GroupsPartition` is about planning alone: the batches cover the pending lines, do not share
one, and have at most `BatchSize` each.  It needs the first line of the run a line belongs to and
the last cut before it, which are found by the least-number principle, and that two cuts whose
batches share a line are in the same run and so a multiple of `BatchSize` apart.

`LinesGetAnswers` rests on `LinesInv`.  Every planned line has its answer, has been given up, or is
open: in exactly one batch, or held by exactly one worker, where it is pending, obtained, missing or in the
second half waiting at exactly one depth.  An open or failed line still has the text it came
with.  Unless the caller cancelled or an error was recorded, no worker has left with a line in its hands and the
feeder has dropped nothing; so when all have left, no line is open.  A worker that fails
may leave lines behind, which is why the error must be recorded before it leaves.

`SpendingBounded` rests on `SpendInv`, which adds to what was spent what each worker may still be
charged for (`Left`: the attempts left for its part, then its halves, and the second halves that
wait).  A reply moves one unit from the second to the first, a split does not raise it
(`SplitLeft`, by the recurrence of `WorstReplies` and its monotony), and a batch that begins finds the
budget unspent, when what all workers together may be charged for is at most one worst batch each.

### Lines and terms: `EditProofs`

These modules compute with sequences, so the proofs begin with induction: a set of naturals that holds 0
and the successor of each of its numbers holds all (`Induction`, from the well-foundedness of the
naturals), and functions that are built step by step exist (`RecursionExists`).  From these follow what
`FlattenSeq` and the ranking of a finite set return.

`TermsAreKept` (`MadeWithItsTerms`) rests on `GlossaryInv`: whatever entries are added and removed
while passes run, a pass keeps the glossary it read; the terms in the key of a line are exactly those in
force for it in that glossary, through the list of candidates and the ranked list of winners; and a row of the
shared table was made with the terms that its key names.  Assumption (`GlossaryAssumption`): terms
and priorities are ordered (`Nat`).

`LinesStaySound` (`LinesAreSound`) rests on `SegmenterInv`: at every step the lines, the line that
waits, those still to merge and the pending words are the stream, each word once and in its place; a line
begins no later than its first word and ends no earlier than its last while the splitter and `mergeShort` are
at work, and `Reflow`, which moves both ends, stays between its neighbours; lines before the
one that is being reflowed are marked if they cannot be read; and the line that waits holds everything
since the beginning, so that it can only be lost when it is all there is and brief.  Assumption
(`SegmenterAssumption`): options are naturals, of which the limits are positive (`Validate` insists
on more); a word lasts.

`TextsStay` (`LinesKeepTheirText`) rests on `SegmentsInv`.  However requests and runs interleave, a text
of the model stays with the words it was made from.  When they do not, one request at most is
busy and what it has read is still so (`OneAtATime`); the rows are numbered without a gap and their source words
are the recording, in order (`Renders`), through edits, splits, merges, splices and
replacements; and every text that a person wrote is held by the row it was written for until a run cuts the
lines anew (`AuthoredAreHeld`).  Assumption (`SegmentsAssumption`): the words of a line ascend.

### Only model-checked

Liveness (`ClaimIsReleased`, `CancellationIsHonoured`,
`FallBehindIsNoticed`, `Reconnects`, `CallEnds`, `WaitersProceed`, `TranslateReturns`), which is
out of the prover's reach, as is ENABLED.  `NothingIsRecomputed`, the other half of
`PlansAreSound`: that three runs suffice depends on the pipeline, and it is checked for the program's stages of text.
`FilesTypeOK`, `EditsTypeOK` and `WorkTypeOK` put together the type invariants of a suite.  Those of
`ArtifactStore`, `Planner`, `WorkerPool`, `Translator` and `EventBus` are theorems; of the other modules
the proofs keep the types they need.

## Not modelled, and the plan

Every safety invariant and action property that the passing runs check is a theorem, but for what the
section before names.  To add: a proof that a pipeline comes to rest after as many runs as it has stages that
store lines, one after the other; liveness, when the provers can do it.

Left out for good: ffmpeg command lines and the parsing of its output, HTTP routing and
clients, web views, ASS and SRT formatting, repair of malformed JSON, the individual quality checks,
the analysis document, logging, platform detection and migrations (pure I/O, formatting or
calculation on single values), and inference itself.
