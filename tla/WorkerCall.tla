----------------------------- MODULE WorkerCall -----------------------------
(***************************************************************************)
(* One AI worker process and the calls made to it: Worker.Call, Cancel,    *)
(* Shutdown, readEvents and reap in internal/worker, and the reader and    *)
(* data threads of ai/nikucooker_ai/worker.py.                             *)
(*                                                                         *)
(* The pool leases a worker to one caller at a time, so data requests      *)
(* follow one another.  A call that gives up sends a cancel, which is      *)
(* itself a call; only the innermost call of such a stack waits, and when  *)
(* it returns all the others do.  Frame <<r, 0>> is the call the caller    *)
(* made, <<r, 1>> the cancel of it, <<r, 2>> the cancel of that cancel,    *)
(* and so on alternately: the identifiers are fresh in the program, but a  *)
(* third cancel is only ever sent to a process that answers nothing.       *)
(*                                                                         *)
(* The process has completed its handshake.  It may die at any step, and   *)
(* it may stop responding without dying, and readEvents may stop reading   *)
(* what it answers.                                                        *)
(***************************************************************************)
EXTENDS Naturals, Sequences

CONSTANTS
  NumRequests, \* bound on data requests, one per lease
  QueueDepth   \* QUEUE_DEPTH of the worker

ASSUME WorkerCallAssumption ==
  /\ NumRequests \in Nat
  /\ QueueDepth \in Nat \ {0}

Requests == 1..NumRequests

\* The shutdown request.
Quit == 0

VARIABLES
  where,       \* where each caller is in its innermost call
  top,      \* which frame that is
  state,    \* Worker.state
  pending,  \* the frames a terminal event can be delivered to
  answer,   \* what has been delivered to each frame, or "none"
  exited,   \* the process has been reaped
  heard,    \* readEvents reads what the process writes
  inbox,    \* requests written to the process and not yet read
  out,      \* events written by the process and not yet read
  proc,     \* "alive", "wedged" or "dead"
  reader,   \* "reading", "settling" (it waits for a request to stop) or "stopped"
  settles,  \* the cancel it will then answer
  queue,    \* data requests waiting for the data thread
  serving,  \* the request the data thread has taken, or 0
  phase     \* how far it is with it

goVars == <<where, top, state, pending, answer, exited, heard>>
pyVars == <<reader, settles, queue, serving, phase>>
callVars == <<goVars, inbox, out, proc, pyVars>>

Calls == Requests \cup {Quit}
Frames == Calls \X (0..2)
Event == [id : Frames, kind : {"done", "missed", "stopped", "running", "full"}]
          \cup {[id |-> <<Quit, 0>>, kind |-> "fatal"]}

CallTypeOK ==
  /\ where \in [Calls -> {"idle", "enter", "register", "send", "wait", "returned",
                         "killing", "over"}]
  /\ top \in [Calls -> 0..2]
  /\ state \in {"ready", "busy", "crashed", "failed", "stopped"}
  /\ pending \subseteq Frames
  /\ answer \in [Frames -> {"none", "done", "missed", "stopped", "running", "full",
                            "crashed"}]
  /\ exited \in BOOLEAN
  /\ heard \in BOOLEAN
  /\ inbox \in Seq(Frames)
  /\ out \in Seq(Event)
  /\ proc \in {"alive", "wedged", "dead"}
  /\ reader \in {"reading", "settling", "stopped"}
  /\ settles \in Frames
  /\ queue \in Seq(Requests) /\ Len(queue) <= QueueDepth
  /\ serving \in Requests \cup {0}
  /\ phase \in {"idle", "taken", "inflight", "written"}

CallInit ==
  /\ where = [r \in Calls |-> "idle"]
  /\ top = [r \in Calls |-> 0]
  /\ state = "ready"
  /\ pending = {}
  /\ answer = [f \in Frames |-> "none"]
  /\ exited = FALSE
  /\ heard = TRUE
  /\ inbox = <<>>
  /\ out = <<>>
  /\ proc = "alive"
  /\ reader = "reading"
  /\ settles = <<Quit, 1>>
  /\ queue = <<>>
  /\ serving = 0
  /\ phase = "idle"

Frame(r) == <<r, top[r]>>
Goes(r, label) == where' = [where EXCEPT ![r] = label]

\* Cancel and shutdown are control methods, everything else is a data method.
IsControlMethod(f) == f[1] = Quit \/ f[2] > 0

-----------------------------------------------------------------------------
(* Worker.Call. *)

\* The caller has the lease: nobody else is calling.  A worker that is being
\* shut down is not leased any more.
Start(r) ==
  /\ where[r] = "idle"
  /\ \A q \in Calls : where[q] \in {"idle", "over"}
  /\ r # Quit => where[Quit] = "idle" /\ \A q \in 1..(r - 1) : where[q] = "over"
  /\ Goes(r, "enter")
  /\ UNCHANGED <<top, state, pending, answer, exited, heard, inbox, out, proc, pyVars>>

\* Only a ready or busy worker is called.  A data method makes it busy.
Enter(r) ==
  /\ where[r] = "enter"
  /\ IF state \in {"ready", "busy"}
       THEN /\ state' = IF IsControlMethod(Frame(r)) THEN state ELSE "busy"
            /\ Goes(r, "register")
       ELSE UNCHANGED state /\ Goes(r, "returned")
  /\ UNCHANGED <<top, pending, answer, exited, heard, inbox, out, proc, pyVars>>

Register(r) ==
  /\ where[r] = "register"
  /\ pending' = pending \cup {Frame(r)}
  /\ answer' = [answer EXCEPT ![Frame(r)] = "none"]
  /\ Goes(r, "send")
  /\ UNCHANGED <<top, state, exited, heard, inbox, out, proc, pyVars>>

\* A write to a process that is gone fails, and one that nobody reads stays in
\* the pipe.
Send(r) ==
  /\ where[r] = "send"
  /\ IF proc = "dead"
       THEN UNCHANGED inbox /\ Goes(r, "returned")
       ELSE /\ inbox' = IF proc = "alive" /\ reader # "stopped"
                       THEN Append(inbox, Frame(r)) ELSE inbox
            /\ Goes(r, "wait")
  /\ UNCHANGED <<top, state, pending, answer, exited, heard, out, proc, pyVars>>

\* The terminal event has arrived.
Answered(r) ==
  /\ where[r] = "wait"
  /\ answer[Frame(r)] # "none"
  /\ Goes(r, "returned")
  /\ UNCHANGED <<top, state, pending, answer, exited, heard, inbox, out, proc, pyVars>>

SeeExit(r) ==
  /\ where[r] = "wait"
  /\ exited
  /\ Goes(r, "returned")
  /\ UNCHANGED <<top, state, pending, answer, exited, heard, inbox, out, proc, pyVars>>

\* No answer is on its way and none will be: the reader thread has stopped, or
\* it has dealt with the request and readEvents did not read the answer.
Unheard(r) ==
  /\ answer[Frame(r)] = "none" /\ out = <<>>
  /\ reader = "stopped" \/ (~heard /\ reader = "reading" /\ inbox = <<>>)

\* A data call gives up when its context ends or its progress stalls, and a
\* control call after thirty seconds.  A process that responds and is heard
\* answers a control call long before: the reader waits five seconds at most.
\* What gives up sends a cancel and waits for that, detached from the context.
GiveUpWaiting(r) ==
  /\ where[r] = "wait"
  /\ IsControlMethod(Frame(r)) => proc = "wedged" \/ Unheard(r)
  /\ top' = [top EXCEPT ![r] = IF @ = 1 THEN 2 ELSE 1]
  /\ Goes(r, "enter")
  /\ UNCHANGED <<state, pending, answer, exited, heard, inbox, out, proc, pyVars>>

\* The deferred functions of the whole stack; its channels are garbage.  A
\* crashed worker stays crashed.
Return(r) ==
  /\ where[r] = "returned"
  /\ pending' = pending \ ({r} \X (0..2))
  /\ answer' = [f \in Frames |-> IF f[1] = r THEN "none" ELSE answer[f]]
  /\ top' = [top EXCEPT ![r] = 0]
  /\ state' = IF r # Quit /\ state = "busy" THEN "ready" ELSE state
  /\ Goes(r, IF r = Quit THEN "killing" ELSE "over")
  /\ UNCHANGED <<exited, heard, inbox, out, proc, pyVars>>

CallStep(r) ==
  \/ Enter(r) \/ Register(r) \/ Send(r) \/ Answered(r) \/ SeeExit(r)
  \/ GiveUpWaiting(r) \/ Return(r)

\* Shutdown, after its call: the process has exited, or is killed.
Kill ==
  /\ where[Quit] = "killing"
  /\ state' = "stopped"
  /\ proc' = "dead"
  /\ Goes(Quit, "over")
  /\ UNCHANGED <<top, pending, answer, exited, heard, inbox, out, pyVars>>

-----------------------------------------------------------------------------
(* readEvents and reap. *)

\* A terminal event is delivered to the call that waits for it and to no
\* other; one that nobody waits for any more is dropped.
ReadEvent ==
  /\ out # <<>>
  /\ out' = Tail(out)
  /\ LET e == Head(out) IN
       IF e.kind = "fatal"
         THEN state' = "failed" /\ UNCHANGED <<pending, answer>>
         ELSE /\ pending' = pending \ {e.id}
              /\ answer' = IF e.id \in pending
                             THEN [answer EXCEPT ![e.id] = e.kind] ELSE answer
              /\ UNCHANGED state
  /\ UNCHANGED <<where, top, exited, heard, inbox, proc, pyVars>>

\* A line that is not an event: the process is killed.
Malformed ==
  /\ out # <<>>
  /\ ~exited
  /\ out' = <<>>
  /\ state' = "stopped"
  /\ proc' = "dead"
  /\ UNCHANGED <<where, top, pending, answer, exited, heard, inbox, pyVars>>

\* A line beyond the limit of the reader, which the process does not know of: a
\* read error that is not the end of the stream.  readEvents logs it and
\* returns; the process lives on, and nobody reads its answers.
OverlongLine ==
  /\ out # <<>>
  /\ ~exited
  /\ out' = <<>>
  /\ heard' = FALSE
  /\ UNCHANGED <<where, top, state, pending, answer, exited, inbox, proc, pyVars>>

\* cmd.Wait closes the pipe: of what was not yet read, the line that
\* readEvents holds may be all that is left.
Reap ==
  /\ proc = "dead"
  /\ ~exited
  /\ exited' = TRUE
  /\ state' = IF state = "stopped" THEN state ELSE "crashed"
  /\ answer' = [f \in Frames |-> IF f \in pending THEN "crashed" ELSE answer[f]]
  /\ pending' = {}
  /\ \E held \in {0, 1} : out' = SubSeq(out, 1, IF out = <<>> THEN 0 ELSE held)
  /\ UNCHANGED <<where, top, heard, inbox, proc, pyVars>>

-----------------------------------------------------------------------------
(* The process: its reader thread, ... *)

\* What nobody reads stays in the pipe, which blocks the process once it is
\* full: Wedge stands for that.
write(f, kind) ==
  out' = IF heard THEN Append(out, [id |-> f, kind |-> kind]) ELSE out

TargetOf(f) == <<f[1], IF f[2] = 2 THEN 1 ELSE 0>>

\* Mutant: the queue has no limit.
Enqueue_NoLimit(f) ==
  /\ ~IsControlMethod(f)
  /\ queue' = Append(queue, f[1])
  /\ UNCHANGED <<out, reader, settles>>

\* _dispatch for a data request.
Enqueue(f) ==
  /\ ~IsControlMethod(f)
  /\ \/ /\ Len(queue) < QueueDepth
        /\ queue' = Append(queue, f[1])
        /\ UNCHANGED out
     \/ /\ Len(queue) = QueueDepth
        /\ write(f, "full")
        /\ UNCHANGED queue
  /\ UNCHANGED <<reader, settles>>

\* Only a request the data thread has registered is in flight; one that is
\* queued is not.
InFlight(f) == f = <<serving, 0>> /\ phase \in {"inflight", "written"}

\* Mutant: the cancel is acknowledged without waiting.
cancel_NoWait(f) ==
  /\ f[2] > 0
  /\ write(f, IF InFlight(TargetOf(f)) THEN "stopped" ELSE "missed")
  /\ UNCHANGED <<reader, settles, queue>>

\* _cancel: the token of a request in flight is set and its end awaited.  The
\* token only hastens an end that comes or does not come anyway.
cancel(f) ==
  /\ f[2] > 0
  /\ \/ /\ InFlight(TargetOf(f))
        /\ reader' = "settling" /\ settles' = f
        /\ UNCHANGED out
     \/ /\ ~InFlight(TargetOf(f))
        /\ write(f, "missed")
        /\ UNCHANGED <<reader, settles>>
  /\ UNCHANGED queue

\* Answered, then the loop stops.
shutdown(f) ==
  /\ f = <<Quit, 0>>
  /\ write(f, "done")
  /\ reader' = "stopped"
  /\ UNCHANGED <<settles, queue>>

ReadRequest ==
  /\ proc = "alive"
  /\ reader = "reading"
  /\ inbox # <<>>
  /\ inbox' = Tail(inbox)
  /\ Enqueue(Head(inbox)) \/ cancel(Head(inbox)) \/ shutdown(Head(inbox))
  /\ UNCHANGED <<goVars, proc, serving, phase>>

\* An oversized line: the stream cannot be trusted any more.
Fatal ==
  /\ proc = "alive"
  /\ reader = "reading"
  /\ inbox # <<>>
  /\ write(<<Quit, 0>>, "fatal")
  /\ reader' = "stopped"
  /\ UNCHANGED <<goVars, inbox, proc, settles, queue, serving, phase>>

\* Mutant: the wait has no timeout.
Settle_Forever ==
  /\ proc = "alive"
  /\ reader = "settling"
  /\ ~InFlight(TargetOf(settles))
  /\ write(settles, "stopped")
  /\ reader' = "reading"
  /\ UNCHANGED <<goVars, inbox, proc, settles, queue, serving, phase>>

\* The wait for the target ends when it has finished, or after five seconds.
Settle ==
  /\ proc = "alive"
  /\ reader = "settling"
  /\ write(settles, IF InFlight(TargetOf(settles)) THEN "running" ELSE "stopped")
  /\ reader' = "reading"
  /\ UNCHANGED <<goVars, inbox, proc, settles, queue, serving, phase>>

\* run wakes the data thread through its queue, which blocks while the queue is
\* full, waits five seconds for it and returns, and the interpreter with it.
Exit ==
  /\ proc = "alive"
  /\ reader = "stopped"
  /\ Len(queue) < QueueDepth
  /\ proc' = "dead"
  /\ UNCHANGED <<goVars, inbox, out, pyVars>>

(* ... its data thread, ... *)

Take ==
  /\ proc = "alive"
  /\ serving = 0
  /\ queue # <<>>
  /\ serving' = Head(queue)
  /\ queue' = Tail(queue)
  /\ phase' = "taken"
  /\ UNCHANGED <<goVars, inbox, out, proc, reader, settles>>

Admit ==
  /\ proc = "alive"
  /\ phase = "taken"
  /\ phase' = "inflight"
  /\ UNCHANGED <<goVars, inbox, out, proc, reader, settles, queue, serving>>

\* The handler returns or raises, of itself or because it saw its token.
WriteTerminal ==
  /\ proc = "alive"
  /\ phase = "inflight"
  /\ phase' = "written"
  /\ write(<<serving, 0>>, "done")
  /\ UNCHANGED <<goVars, inbox, proc, reader, settles, queue, serving>>

\* It is taken out of the requests in flight, and finished is set.
Finish ==
  /\ proc = "alive"
  /\ phase = "written"
  /\ phase' = "idle"
  /\ serving' = 0
  /\ UNCHANGED <<goVars, inbox, out, proc, reader, settles, queue>>

(* ... and what may happen to it. *)

Crash ==
  /\ proc # "dead"
  /\ proc' = "dead"
  /\ UNCHANGED <<goVars, inbox, out, pyVars>>

Wedge ==
  /\ proc = "alive"
  /\ proc' = "wedged"
  /\ UNCHANGED <<goVars, inbox, out, pyVars>>

-----------------------------------------------------------------------------

CallNext ==
  \/ \E r \in Calls : Start(r) \/ CallStep(r)
  \/ Kill \/ ReadEvent \/ Malformed \/ OverlongLine \/ Reap
  \/ ReadRequest \/ Fatal \/ Settle \/ Exit
  \/ Take \/ Admit \/ WriteTerminal \/ Finish
  \/ Crash \/ Wedge

\* Goroutines are scheduled, a select takes one of its branches, and the
\* reader thread of a process that is alive runs.  Handlers may never end.
CallFairness ==
  /\ \A r \in Calls : WF_callVars(CallStep(r))
  /\ WF_callVars(Kill) /\ WF_callVars(ReadEvent) /\ WF_callVars(Reap)
  /\ WF_callVars(ReadRequest) /\ WF_callVars(Settle) /\ WF_callVars(Exit)

CallSpec == CallInit /\ [][CallNext]_callVars /\ CallFairness

-----------------------------------------------------------------------------
(* Properties. *)

\* worker.py: "the target's terminal event is written before the cancel's own
\* result".  When a cancel reports that its target has stopped, the target's
\* event is not behind it in the pipe and will not be written any more.
AckFollowsTarget ==
  \A r \in Requests :
    /\ \A i \in 1..Len(out) : out[i] = [id |-> <<r, 1>>, kind |-> "stopped"] =>
         /\ serving # r
         /\ \A k \in (i + 1)..Len(out) : out[k].id # <<r, 0>>
    /\ answer[<<r, 1>>] = "stopped" =>
         /\ serving # r
         /\ \A k \in 1..Len(out) : out[k].id # <<r, 0>>

\* The process does not respond, or it lives and nobody hears it.
Lost == proc = "wedged" \/ (proc = "alive" /\ ~heard)

\* Every call ends, although its handler may never end and ignores its token,
\* because the settling of a cancel is bounded, and so is everything that waits
\* for it; and so it does when the process dies, at whatever step, even after
\* it was lost.  What a call may wait for without end is a process that stays
\* lost for good, and that is all.
CallEnds == <>[]Lost \/ \A r \in Calls : where[r] = "enter" ~> where[r] = "over"

\* worker.go: the request "fails on cancellation, on stall, or on worker death
\* - never by hanging".
NeverHangs == \A r \in Calls : where[r] = "enter" ~> where[r] = "over"
=============================================================================
