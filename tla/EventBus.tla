------------------------------ MODULE EventBus ------------------------------
(***************************************************************************)
(* internal/events: one sequence, one ring buffer, one fan-out.  Every     *)
(* operation runs under the bus's lock and is one step.  An event is its   *)
(* sequence number.                                                        *)
(***************************************************************************)
EXTENDS Naturals, Sequences

CONSTANTS
  Subscribers,       \* stream handlers; one may subscribe again after closing
  Capacity,          \* how many events are retained for replay
  SubscriberBuffer,  \* how many events a subscriber may fall behind by
  MaxEvents          \* bound on the events emitted

ASSUME EventBusAssumption ==
  /\ Capacity \in Nat \ {0}
  /\ SubscriberBuffer \in Nat \ {0}
  /\ MaxEvents \in Nat

VARIABLES
  seq,         \* Bus.seq
  buffer,      \* Bus.buffer
  start,       \* Bus.start: the index of the oldest event once it is full
  ch,          \* Subscription.ch
  state,       \* "none", "open" or "closed"
  overflowed,  \* Subscription.overflowed
  asked,       \* the position Subscribe was given
  replayable,  \* what it answered
  pos          \* the last event the handler took, or where it started

ringVars == <<seq, buffer, start>>
subVars  == <<ch, state, overflowed>>
askVars  == <<asked, replayable>>
vars     == <<ringVars, subVars, askVars, pos>>

TypeOK ==
  /\ seq \in Nat
  /\ buffer \in Seq(Nat) /\ Len(buffer) <= Capacity
  /\ start \in 0..(Capacity - 1)
  /\ ch \in [Subscribers -> Seq(Nat)]
  /\ state \in [Subscribers -> {"none", "open", "closed"}]
  /\ overflowed \in [Subscribers -> BOOLEAN]
  /\ asked \in [Subscribers -> Nat]
  /\ replayable \in [Subscribers -> BOOLEAN]
  /\ pos \in [Subscribers -> Nat]

Init ==
  /\ seq = 0
  /\ buffer = <<>>
  /\ start = 0
  /\ ch = [s \in Subscribers |-> <<>>]
  /\ state = [s \in Subscribers |-> "none"]
  /\ overflowed = [s \in Subscribers |-> FALSE]
  /\ asked = [s \in Subscribers |-> 0]
  /\ replayable = [s \in Subscribers |-> TRUE]
  /\ pos = [s \in Subscribers |-> 0]

-----------------------------------------------------------------------------
(* The ring. *)

\* An index modulo the length, for indices below twice the length.
wrap(i, len) == IF i >= len THEN i - len ELSE i

\* Mutants: a full ring grows; the start of a full ring is not moved.
append_Grows(event) == buffer' = Append(buffer, event) /\ UNCHANGED start
append_FixedStart(event) ==
  IF Len(buffer) < Capacity
    THEN buffer' = Append(buffer, event) /\ UNCHANGED start
    ELSE buffer' = [buffer EXCEPT ![start + 1] = event] /\ UNCHANGED start

\* Append until it is full, then overwrite the oldest in place.
append(event) ==
  IF Len(buffer) < Capacity
    THEN buffer' = Append(buffer, event) /\ UNCHANGED start
    ELSE /\ buffer' = [buffer EXCEPT ![start + 1] = event]
         /\ start' = wrap(start + 1, Len(buffer))

\* Zero while nothing has been evicted.
oldestSeqLocked == IF Len(buffer) < Capacity THEN 0 ELSE buffer[start + 1]

\* The retained events, oldest first.
retained == [i \in 1..Len(buffer) |-> buffer[wrap(start + (i - 1), Len(buffer)) + 1]]

\* How many of the oldest retained events are not after a position.
seenOf(since) ==
  CHOOSE k \in 0..Len(buffer) :
    /\ \A i \in 1..k : retained[i] <= since
    /\ k < Len(buffer) => retained[k + 1] > since

\* Mutant: a replay sends everything that is retained.
replayFrom_Everything(since) == retained

\* The ring is in sequence order, so the events after a position are a suffix.
replayFrom(since) == SubSeq(retained, seenOf(since) + 1, Len(buffer))

-----------------------------------------------------------------------------
(* Operations. *)

delivers(s) == state[s] = "open" /\ Len(ch[s]) < SubscriberBuffer

\* Mutant: an event that does not fit is dropped and nobody is told.
closes_Never(s) == FALSE

\* A subscriber without room for the event is closed.
closes(s) == state[s] = "open" /\ Len(ch[s]) >= SubscriberBuffer

Emit ==
  /\ seq < MaxEvents
  /\ seq' = seq + 1
  /\ append(seq + 1)
  /\ ch' = [s \in Subscribers |-> IF delivers(s) THEN Append(ch[s], seq + 1)
                                                 ELSE ch[s]]
  /\ state' = [s \in Subscribers |->
       IF closes(s) THEN "closed" ELSE state[s]]
  /\ overflowed' = [s \in Subscribers |-> overflowed[s] \/ closes(s)]
  /\ UNCHANGED <<askVars, pos>>

\* Positions this process never reached, and positions the ring has evicted.
outOfWindow(since) ==
  since > seq \/ (oldestSeqLocked # 0 /\ since < oldestSeqLocked - 1)

\* Mutant: the caller is not told that its position is gone.
FromNow_SaysYes(s, answer) ==
  /\ ch' = [ch EXCEPT ![s] = <<>>]
  /\ state' = [state EXCEPT ![s] = "open"]
  /\ overflowed' = [overflowed EXCEPT ![s] = FALSE]
  /\ replayable' = [replayable EXCEPT ![s] = TRUE]
  /\ pos' = [pos EXCEPT ![s] = seq]

\* A subscription that starts at the end of the stream.
FromNow(s, answer) ==
  /\ ch' = [ch EXCEPT ![s] = <<>>]
  /\ state' = [state EXCEPT ![s] = "open"]
  /\ overflowed' = [overflowed EXCEPT ![s] = FALSE]
  /\ replayable' = [replayable EXCEPT ![s] = answer]
  /\ pos' = [pos EXCEPT ![s] = seq]

\* A replay is delivered as live events are: what does not fit closes it.
Replay(s, since) ==
  LET events == replayFrom(since)
      fits   == Len(events) <= SubscriberBuffer
  IN  /\ ch' = [ch EXCEPT ![s] =
           IF fits THEN events ELSE SubSeq(events, 1, SubscriberBuffer)]
      /\ state' = [state EXCEPT ![s] = IF fits THEN "open" ELSE "closed"]
      /\ overflowed' = [overflowed EXCEPT ![s] = ~fits]
      /\ replayable' = [replayable EXCEPT ![s] = TRUE]
      /\ pos' = [pos EXCEPT ![s] = since]

Subscribe(s, since) ==
  /\ state[s] = "none" \/ (state[s] = "closed" /\ ~overflowed[s])
  /\ asked' = [asked EXCEPT ![s] = since]
  /\ IF since = 0 THEN FromNow(s, TRUE)
     ELSE IF outOfWindow(since) THEN FromNow(s, FALSE)
     ELSE Replay(s, since)
  /\ UNCHANGED ringVars

\* The handler receives from the channel; a closed one is drained first.
Take(s) ==
  /\ ch[s] # <<>>
  /\ pos' = [pos EXCEPT ![s] = Head(ch[s])]
  /\ ch' = [ch EXCEPT ![s] = Tail(@)]
  /\ UNCHANGED <<ringVars, state, overflowed, askVars>>

\* Subscription.Close, deferred by the handler, and what is left in the channel
\* goes with it.
Close(s) ==
  /\ state[s] # "none"
  /\ state' = [state EXCEPT ![s] = "closed"]
  /\ ch' = [ch EXCEPT ![s] = <<>>]
  /\ overflowed' = [overflowed EXCEPT ![s] = FALSE]
  /\ UNCHANGED <<ringVars, askVars, pos>>

\* Bus.Close, for shutdown.
CloseAll ==
  /\ state' = [s \in Subscribers |->
       IF state[s] = "open" THEN "closed" ELSE state[s]]
  /\ UNCHANGED <<ringVars, ch, overflowed, askVars, pos>>

Next ==
  \/ Emit
  \/ \E s \in Subscribers : \/ \E since \in 0..(MaxEvents + 1) : Subscribe(s, since)
                            \/ Take(s) \/ Close(s)
  \/ CloseAll

Spec == Init /\ [][Next]_vars

-----------------------------------------------------------------------------
(* Properties. *)

\* The ring holds exactly the newest events, oldest first, through every
\* wrap-around.
WindowIsContiguous ==
  /\ Len(buffer) = (IF seq < Capacity THEN seq ELSE Capacity)
  /\ \A i \in 1..Len(buffer) : retained[i] = seq - Len(buffer) + i

\* What waits in a channel continues from where its handler is, one by one, and
\* reaches the newest event unless the subscription was closed.
ChannelIsContiguous ==
  \A s \in Subscribers :
    /\ \A i \in 1..Len(ch[s]) : ch[s][i] = pos[s] + i
    /\ state[s] = "open" => pos[s] + Len(ch[s]) = seq

\* A subscriber as the log sees it.
modeOf(s) ==
  IF state[s] = "none" THEN "away"
  ELSE IF state[s] = "open" THEN "reading"
  ELSE IF overflowed[s] THEN "behind" ELSE "left"

Log == INSTANCE EventLog WITH
  Readers <- Subscribers, Positions <- 0..(MaxEvents + 1), n <- seq,
  mode <- [s \in Subscribers |-> modeOf(s)],
  told <- [s \in Subscribers |-> ~replayable[s]]

\* events.go: "gets exactly what it missed, in order, with no duplicates and no
\* gaps", or is told that it cannot.
FollowsTheLog == Log!LogSpec
=============================================================================
