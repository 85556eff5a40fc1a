------------------------------ MODULE EventLog ------------------------------
(***************************************************************************)
(* What internal/events promises: a log that readers follow in order, with *)
(* no gaps and no duplicates, or are told that they cannot.                *)
(***************************************************************************)
EXTENDS Naturals

CONSTANTS
  Readers,
  Positions  \* where a reader may ask to resume

VARIABLES
  n,     \* how many events have been emitted
  pos,   \* the last event each reader has received, or where it started
  mode,  \* "away", "reading", "behind" (it will be told) or "left"
  asked, \* where each reader asked to resume
  told   \* the reader was told that its position could not be resumed

logVars == <<n, pos, mode, asked, told>>

LogInit ==
  /\ n = 0
  /\ pos = [s \in Readers |-> 0]
  /\ mode = [s \in Readers |-> "away"]
  /\ asked = [s \in Readers |-> 0]
  /\ told = [s \in Readers |-> FALSE]

\* An event is emitted.  Readers that cannot keep up fall behind.
Append ==
  /\ n' = n + 1
  /\ \E slow \in SUBSET {s \in Readers : mode[s] = "reading"} :
       mode' = [s \in Readers |-> IF s \in slow THEN "behind" ELSE mode[s]]
  /\ UNCHANGED <<pos, asked, told>>

\* A reader resumes exactly where it asks to, or starts at the end of the log
\* and knows it.  Zero asks for the end.  A long replay may put it behind.
Attach(s, since) ==
  /\ mode[s] \in {"away", "left"}
  /\ asked' = [asked EXCEPT ![s] = since]
  /\ \/ /\ since \in 1..n
        /\ pos' = [pos EXCEPT ![s] = since]
        /\ told' = [told EXCEPT ![s] = FALSE]
        /\ \E m \in {"reading", "behind"} : mode' = [mode EXCEPT ![s] = m]
     \/ /\ pos' = [pos EXCEPT ![s] = n]
        /\ told' = [told EXCEPT ![s] = since # 0]
        /\ mode' = [mode EXCEPT ![s] = "reading"]
  /\ UNCHANGED n

Read(s) ==
  /\ mode[s] # "away"
  /\ pos[s] < n
  /\ pos' = [pos EXCEPT ![s] = @ + 1]
  /\ UNCHANGED <<n, mode, asked, told>>

Leave(gone) ==
  /\ mode' = [s \in Readers |-> IF s \in gone THEN "left" ELSE mode[s]]
  /\ UNCHANGED <<n, pos, asked, told>>

LogNext ==
  \/ Append
  \/ \E s \in Readers : Read(s) \/ \E since \in Positions : Attach(s, since)
  \/ \E gone \in SUBSET Readers : Leave(gone)

LogSpec == LogInit /\ [][LogNext]_logVars
=============================================================================
