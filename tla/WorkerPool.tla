----------------------------- MODULE WorkerPool -----------------------------
(***************************************************************************)
(* internal/worker/pool.go: a pool hands out worker processes, starts them *)
(* on demand, and latches when they fail to start too often.               *)
(*                                                                         *)
(* Processes are numbered in the order they are started.  A process is     *)
(* usable while Worker.State says ready or busy; it may die at any moment. *)
(* What a caller does with its worker is WorkerCall.                       *)
(***************************************************************************)
EXTENDS Naturals, Sequences, FiniteSets

CONSTANTS
  Callers,        \* goroutines that call Pool.Call, again and again
  Size,           \* how many workers the pool may hold
  RestartBudget,  \* how many failed starts are forgiven
  MaxStarts       \* bound on processes started

ASSUME WorkerPoolAssumption ==
  /\ IsFiniteSet(Callers)
  /\ Size \in Nat \ {0}
  /\ RestartBudget \in Nat
  /\ MaxStarts \in Nat

Processes == 1..MaxStarts

VARIABLES
  pc,        \* where each caller is in Pool.Call
  held,      \* the process it has, or 0
  tokens,    \* how many tokens are in the channel
  idle,      \* the idle workers, taken from the end
  restarts,  \* failed starts that were recent at the last failure
  latched,   \* the pool has given up
  status,    \* "none", "starting", "usable", or "gone"
  stopping,  \* what Shutdown has taken out of the pool and not yet stopped
  closed     \* Shutdown has been called

poolVars == <<tokens, idle, restarts, latched>>
vars == <<pc, held, poolVars, status, stopping, closed>>

\* The caller has taken a token and not returned it.
Holding == {"check", "take", "spawn", "starting", "record", "leased", "release",
            "return"}

TypeOK ==
  /\ pc \in [Callers -> {"idle", "waiting"} \cup Holding]
  /\ held \in [Callers -> Processes \cup {0}]
  /\ tokens \in 0..Size
  /\ idle \in Seq(Processes)
  /\ restarts \in Nat
  /\ latched \in BOOLEAN
  /\ status \in [Processes -> {"none", "starting", "usable", "gone"}]
  /\ stopping \subseteq Processes
  /\ closed \in BOOLEAN

Init ==
  /\ pc = [c \in Callers |-> "idle"]
  /\ held = [c \in Callers |-> 0]
  /\ tokens = Size
  /\ idle = <<>>
  /\ restarts = 0
  /\ latched = FALSE
  /\ status = [p \in Processes |-> "none"]
  /\ stopping = {}
  /\ closed = FALSE

Goto(c, label) == pc' = [pc EXCEPT ![c] = label]
Hold(c, p) == held' = [held EXCEPT ![c] = p]

-----------------------------------------------------------------------------
(* Acquire. *)

Call(c) ==
  /\ pc[c] = "idle"
  /\ Goto(c, "waiting")
  /\ UNCHANGED <<held, poolVars, status, stopping, closed>>

TakeToken(c) ==
  /\ pc[c] = "waiting"
  /\ tokens > 0
  /\ tokens' = tokens - 1
  /\ Goto(c, "check")
  /\ UNCHANGED <<held, idle, restarts, latched, status, stopping, closed>>

\* The context ends before a token is free.
GiveUp(c) ==
  /\ pc[c] = "waiting"
  /\ Goto(c, "idle")
  /\ UNCHANGED <<held, poolVars, status, stopping, closed>>

\* obtain: a latched pool fails at once.
CheckLatched(c) ==
  /\ pc[c] = "check"
  /\ Goto(c, IF latched THEN "return" ELSE "take")
  /\ UNCHANGED <<held, poolVars, status, stopping, closed>>

\* Mutant: the worker that is handed out stays in the list.
takeIdle_Keeps(c) ==
  LET live == {i \in 1..Len(idle) : status[idle[i]] = "usable"}
  IN  /\ pc[c] = "take"
      /\ \/ /\ live = {}
            /\ idle' = <<>>
            /\ Goto(c, "spawn")
            /\ UNCHANGED held
         \/ \E i \in live :
              /\ \A j \in live : j <= i
              /\ idle' = SubSeq(idle, 1, i)
              /\ Hold(c, idle[i])
              /\ Goto(c, "leased")
      /\ UNCHANGED <<tokens, restarts, latched, status, stopping, closed>>

\* The last usable worker is handed out and the dead ones after it dropped.
takeIdle(c) ==
  LET live == {i \in 1..Len(idle) : status[idle[i]] = "usable"}
  IN  /\ pc[c] = "take"
      /\ \/ /\ live = {}
            /\ idle' = <<>>
            /\ Goto(c, "spawn")
            /\ UNCHANGED held
         \/ \E i \in live :
              /\ \A j \in live : j <= i
              /\ idle' = SubSeq(idle, 1, i - 1)
              /\ Hold(c, idle[i])
              /\ Goto(c, "leased")
      /\ UNCHANGED <<tokens, restarts, latched, status, stopping, closed>>

\* Start: the process is spawned ...
Spawn(c) ==
  /\ pc[c] = "spawn"
  /\ \E p \in Processes :
       /\ status[p] = "none"
       /\ \A q \in Processes : q < p => status[q] # "none"
       /\ status' = [status EXCEPT ![p] = "starting"]
       /\ Hold(c, p)
  /\ Goto(c, "starting")
  /\ UNCHANGED <<poolVars, stopping, closed>>

\* ... or cannot be, ...
SpawnFails(c) ==
  /\ pc[c] = "spawn"
  /\ Goto(c, "record")
  /\ UNCHANGED <<held, poolVars, status, stopping, closed>>

\* ... it completes the handshake, ...
Ready(c) ==
  /\ pc[c] = "starting"
  /\ status' = [status EXCEPT ![held[c]] = "usable"]
  /\ Goto(c, "leased")
  /\ UNCHANGED <<held, poolVars, stopping, closed>>

\* ... or exits, is late or does not fit, and is killed.
NotReady(c) ==
  /\ pc[c] = "starting"
  /\ status' = [status EXCEPT ![held[c]] = "gone"]
  /\ Hold(c, 0)
  /\ Goto(c, "record")
  /\ UNCHANGED <<poolVars, stopping, closed>>

\* Only failures within the window count; the clock decides how many are left.
recordFailure(c) ==
  /\ pc[c] = "record"
  /\ \E recent \in 0..restarts :
       /\ restarts' = recent + 1
       /\ latched' = (latched \/ recent + 1 > RestartBudget)
  /\ Goto(c, "return")
  /\ UNCHANGED <<held, tokens, idle, status, stopping, closed>>

-----------------------------------------------------------------------------
(* Release. *)

\* The call is over, one way or another.
Done(c) ==
  /\ pc[c] = "leased"
  /\ Goto(c, "release")
  /\ UNCHANGED <<held, poolVars, status, stopping, closed>>

\* Mutants: the token goes back first; a dead worker ends the function early.
Release_TokenFirst(c) ==
  \/ /\ pc[c] = "leased"
     /\ tokens' = tokens + 1
     /\ Goto(c, "release")
     /\ UNCHANGED <<held, idle, restarts, latched, status, stopping, closed>>
  \/ /\ pc[c] = "release"
     /\ idle' = IF status[held[c]] = "usable" THEN Append(idle, held[c]) ELSE idle
     /\ Hold(c, 0)
     /\ Goto(c, "idle")
     /\ UNCHANGED <<tokens, restarts, latched, status, stopping, closed>>
Release_LosesToken(c) ==
  /\ pc[c] = "release"
  /\ idle' = IF status[held[c]] = "usable" THEN Append(idle, held[c]) ELSE idle
  /\ Hold(c, 0)
  /\ Goto(c, IF status[held[c]] = "usable" THEN "return" ELSE "idle")
  /\ UNCHANGED <<tokens, restarts, latched, status, stopping, closed>>

\* A worker that is still usable goes back to the list; a dead one is dropped.
Release(c) ==
  /\ pc[c] = "release"
  /\ idle' = IF status[held[c]] = "usable" THEN Append(idle, held[c]) ELSE idle
  /\ Hold(c, 0)
  /\ Goto(c, "return")
  /\ UNCHANGED <<tokens, restarts, latched, status, stopping, closed>>

\* Mutant: the token of a failed Acquire is returned by its caller as well.
ReturnToken_Twice(c) ==
  /\ pc[c] = "return"
  /\ tokens' = tokens + IF latched THEN 2 ELSE 1
  /\ Goto(c, "idle")
  /\ UNCHANGED <<held, idle, restarts, latched, status, stopping, closed>>

\* The token follows, after Release as after a failed Acquire.
ReturnToken(c) ==
  /\ pc[c] = "return"
  /\ tokens' = tokens + 1
  /\ Goto(c, "idle")
  /\ UNCHANGED <<held, idle, restarts, latched, status, stopping, closed>>

-----------------------------------------------------------------------------
(* Processes die, and the pool is shut down. *)

Die(p) ==
  /\ status[p] = "usable"
  /\ status' = [status EXCEPT ![p] = "gone"]
  /\ UNCHANGED <<pc, held, poolVars, stopping, closed>>

\* Shutdown takes the idle workers; those that are leased are left alone.
Shutdown ==
  /\ ~closed
  /\ closed' = TRUE
  /\ stopping' = {idle[i] : i \in 1..Len(idle)}
  /\ idle' = <<>>
  /\ UNCHANGED <<pc, held, tokens, restarts, latched, status>>

Stop(p) ==
  /\ p \in stopping
  /\ stopping' = stopping \ {p}
  /\ status' = [status EXCEPT ![p] = "gone"]
  /\ UNCHANGED <<pc, held, poolVars, closed>>

-----------------------------------------------------------------------------

Acquire(c) ==
  \/ CheckLatched(c) \/ takeIdle(c) \/ Spawn(c) \/ SpawnFails(c)
  \/ Ready(c) \/ NotReady(c) \/ recordFailure(c)

Next ==
  \/ \E c \in Callers :
       \/ Call(c) \/ TakeToken(c) \/ GiveUp(c) \/ Acquire(c)
       \/ Done(c) \/ Release(c) \/ ReturnToken(c)
  \/ \E p \in Processes : Die(p) \/ Stop(p)
  \/ Shutdown

Spec == Init /\ [][Next]_vars

\* Goroutines run, a start is bounded by its timeout, and every call ends.  A
\* channel hands its tokens to waiting receivers in turn.
Fairness ==
  \A c \in Callers :
    /\ WF_vars(Acquire(c)) /\ WF_vars(Done(c)) /\ WF_vars(Release(c))
    /\ WF_vars(ReturnToken(c)) /\ SF_vars(TakeToken(c))

FairSpec == Spec /\ Fairness

-----------------------------------------------------------------------------
(* Properties. *)

\* Nobody's worker is anybody else's: a process is leased to one caller, or is
\* in the list once, or is being shut down.
LeaseIsExclusive ==
  /\ \A c, d \in Callers : held[c] # 0 /\ held[c] = held[d] => c = d
  /\ \A c \in Callers : \A i \in 1..Len(idle) : held[c] # idle[i]
  /\ \A i, j \in 1..Len(idle) : idle[i] = idle[j] => i = j
  /\ \A p \in stopping :
       /\ \A c \in Callers : held[c] # p
       /\ \A i \in 1..Len(idle) : idle[i] # p

\* pool.go: "the cap applies to processes rather than to leases".  Starting,
\* leased and idle processes together never exceed the pool's size, however the
\* two halves of Release fall between the steps of an Acquire.
ProcessCap ==
  Cardinality({p \in Processes \ stopping : status[p] \in {"starting", "usable"}})
    <= Size

\* No slot is lost: a caller that waits gets a token or gives up, whatever
\* happened to the workers of those before it.
WaitersProceed == \A c \in Callers : pc[c] = "waiting" ~> pc[c] # "waiting"
=============================================================================
