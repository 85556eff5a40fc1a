-------------------------- MODULE WorkerPoolProofs --------------------------
(***************************************************************************)
(* What the pool promises for any number of callers, workers and starts,   *)
(* and what the calls to one of its processes promise for any number of    *)
(* requests and any depth of its queue.                                    *)
(***************************************************************************)
EXTENDS WorkerPool, WorkerCall, FiniteSetTheorems, SequenceTheorems, TLAPS

\* The types without the bound on tokens, which follows from counting them.
Types ==
  /\ pc \in [Callers -> {"idle", "waiting"} \cup Holding]
  /\ held \in [Callers -> Processes \cup {0}]
  /\ tokens \in Nat
  /\ idle \in Seq(Processes)
  /\ restarts \in Nat
  /\ latched \in BOOLEAN
  /\ status \in [Processes -> {"none", "starting", "usable", "gone"}]
  /\ stopping \subseteq Processes
  /\ closed \in BOOLEAN

\* A caller has a process while its pc says so, and only processes that have
\* completed the handshake are leased, idle or being stopped.
Leases ==
  /\ \A c \in Callers : held[c] # 0 <=> pc[c] \in {"starting", "leased", "release"}
  /\ \A c \in Callers : pc[c] = "starting" => status[held[c]] = "starting"
  /\ \A c \in Callers :
       pc[c] \in {"leased", "release"} => status[held[c]] \in {"usable", "gone"}
  /\ \A i \in 1..Len(idle) : status[idle[i]] \in {"usable", "gone"}
  /\ \A p \in stopping : status[p] \in {"usable", "gone"}
  /\ ~closed => stopping = {}

LeaseInv == Types /\ Leases /\ LeaseIsExclusive

-----------------------------------------------------------------------------
(* Leases. *)

LEMMA LeaseInit == Init => LeaseInv
<1> SUFFICES ASSUME Init PROVE LeaseInv
  OBVIOUS
<1>1. Types
  <2>1. idle \in Seq(Processes) /\ tokens \in Nat
    BY WorkerPoolAssumption DEF Init
  <2> QED
    BY <2>1 DEF Init, Types, Holding
<1>2. Leases /\ LeaseIsExclusive
  BY <1>1 DEF Init, Types, Leases, LeaseIsExclusive
<1> QED
  BY <1>1, <1>2 DEF LeaseInv

\* What Shutdown takes out of the pool is in the list.
LEMMA LeaseStep == LeaseInv /\ [Next]_vars => LeaseInv'
<1> SUFFICES ASSUME LeaseInv, [Next]_vars PROVE LeaseInv'
  OBVIOUS
<1> USE WorkerPoolAssumption DEF LeaseInv, Types, Leases, LeaseIsExclusive, Holding,
      Processes, Goto, Hold, poolVars
<1>1. ASSUME NEW c \in Callers, Call(c) \/ TakeToken(c) \/ GiveUp(c) PROVE LeaseInv'
  <2>1. CASE Call(c)
    BY <2>1 DEF Call
  <2>2. CASE TakeToken(c)
    BY <2>2 DEF TakeToken
  <2>3. CASE GiveUp(c)
    BY <2>3 DEF GiveUp
  <2> QED
    BY <1>1, <2>1, <2>2, <2>3
<1>2. ASSUME NEW c \in Callers, CheckLatched(c) PROVE LeaseInv'
  BY <1>2 DEF CheckLatched
<1>3. ASSUME NEW c \in Callers, takeIdle(c) PROVE LeaseInv'
  <2> DEFINE live == {i \in 1..Len(idle) : status[idle[i]] = "usable"}
  <2>1. CASE live = {}
    <3>1. idle' = <<>> /\ held' = held /\ pc' = [pc EXCEPT ![c] = "spawn"]
      BY <1>3, <2>1 DEF takeIdle
    <3> QED
      BY <1>3, <3>1 DEF takeIdle
  <2>2. CASE live # {}
    <3>1. PICK i \in live :
            /\ idle' = SubSeq(idle, 1, i - 1)
            /\ held' = [held EXCEPT ![c] = idle[i]]
            /\ pc' = [pc EXCEPT ![c] = "leased"]
      BY <1>3, <2>2 DEF takeIdle
    <3>2. Len(idle') = i - 1 /\ \A k \in 1..(i - 1) : idle'[k] = idle[k]
      BY <3>1
    <3>3. idle' \in Seq(Processes)
      BY <3>1
    <3>4. held[c] = 0 /\ pc[c] = "take"
      BY <1>3 DEF takeIdle
    <3>5. UNCHANGED <<tokens, restarts, latched, status, stopping, closed>>
      BY <1>3 DEF takeIdle
    <3>6. Types'
      BY <3>1, <3>3, <3>5
    <3>7. Leases'
      BY <3>1, <3>2, <3>4, <3>5
    <3>8. /\ \A d \in Callers \ {c} : held'[d] = held[d] /\ held[d] # idle[i]
          /\ held'[c] = idle[i] /\ idle[i] \notin stopping
          /\ \A k \in 1..(i - 1) : idle[k] # idle[i]
      BY <3>1
    <3>9. LeaseIsExclusive'
      <4>1. ASSUME NEW d \in Callers, NEW e \in Callers, held'[d] # 0, held'[d] = held'[e]
            PROVE  d = e
        <5>1. CASE d = c \/ e = c
          BY <3>8, <4>1, <5>1
        <5>2. CASE d # c /\ e # c
          <6>1. held[d] # 0 /\ held[d] = held[e]
            BY <3>8, <4>1, <5>2
          <6> QED
            BY <6>1
        <5> QED
          BY <5>1, <5>2
      <4>2. \A d \in Callers : \A k \in 1..Len(idle') : held'[d] # idle'[k]
        BY <3>2, <3>8
      <4>3. \A k \in 1..Len(idle') : k \in 1..Len(idle) /\ idle'[k] = idle[k]
        BY <3>2
      <4>4. ASSUME NEW j \in 1..Len(idle'), NEW k \in 1..Len(idle'), idle'[j] = idle'[k]
            PROVE  j = k
        <5>1. j \in 1..Len(idle) /\ k \in 1..Len(idle) /\ idle[j] = idle[k]
          BY <4>3, <4>4
        <5> QED
          BY <5>1
      <4>5. ASSUME NEW p \in stopping
            PROVE  /\ \A d \in Callers : held'[d] # p
                   /\ \A k \in 1..Len(idle') : idle'[k] # p
        <5>1. /\ \A d \in Callers : held[d] # p
              /\ \A k \in 1..Len(idle) : idle[k] # p
          OBVIOUS
        <5>2. \A d \in Callers : held'[d] # p
          BY <3>8, <5>1
        <5>3. \A k \in 1..Len(idle') : idle'[k] # p
          BY <4>3, <5>1
        <5> QED
          BY <5>2, <5>3
      <4>6. stopping' = stopping
        BY <3>5
      <4> QED
        BY <4>1, <4>2, <4>4, <4>5, <4>6
    <3> QED
      BY <3>6, <3>7, <3>9
  <2> QED
    BY <2>1, <2>2
<1>4. ASSUME NEW c \in Callers, Spawn(c) PROVE LeaseInv'
  <2>1. PICK p \in Processes :
          /\ status[p] = "none"
          /\ status' = [status EXCEPT ![p] = "starting"]
          /\ held' = [held EXCEPT ![c] = p]
    BY <1>4 DEF Spawn
  <2>2. /\ pc[c] = "spawn"
        /\ pc' = [pc EXCEPT ![c] = "starting"]
        /\ UNCHANGED <<tokens, idle, restarts, latched, stopping, closed>>
    BY <1>4 DEF Spawn
  <2>3. /\ \A d \in Callers : held[d] # p
        /\ \A i \in 1..Len(idle) : idle[i] # p
        /\ p \notin stopping
    <3>1. \A d \in Callers : held[d] # p
      <4> SUFFICES ASSUME NEW d \in Callers, held[d] = p PROVE FALSE
        OBVIOUS
      <4>1. held[d] # 0
        BY <2>1
      <4>2. status[held[d]] \in {"starting", "usable", "gone"}
        BY <4>1
      <4> QED
        BY <2>1, <4>2
    <3>2. \A i \in 1..Len(idle) : idle[i] # p
      BY <2>1
    <3>3. p \notin stopping
      BY <2>1
    <3> QED
      BY <3>1, <3>2, <3>3
  <2>4. Types'
    BY <2>1, <2>2
  <2>5. Leases'
    BY <2>1, <2>2, <2>3
  <2>6. LeaseIsExclusive'
    BY <2>1, <2>2, <2>3
  <2> QED
    BY <2>4, <2>5, <2>6
<1>5. ASSUME NEW c \in Callers, SpawnFails(c) \/ recordFailure(c) PROVE LeaseInv'
  <2>1. CASE SpawnFails(c)
    BY <2>1 DEF SpawnFails
  <2>2. CASE recordFailure(c)
    BY <2>2 DEF recordFailure
  <2> QED
    BY <1>5, <2>1, <2>2
<1>6. ASSUME NEW c \in Callers, Ready(c) PROVE LeaseInv'
  BY <1>6 DEF Ready
<1>7. ASSUME NEW c \in Callers, NotReady(c) PROVE LeaseInv'
  BY <1>7 DEF NotReady
<1>8. ASSUME NEW c \in Callers, Done(c) \/ ReturnToken(c) PROVE LeaseInv'
  <2>1. CASE Done(c)
    BY <2>1 DEF Done
  <2>2. CASE ReturnToken(c)
    BY <2>2 DEF ReturnToken
  <2> QED
    BY <1>8, <2>1, <2>2
<1>9. ASSUME NEW c \in Callers, Release(c) PROVE LeaseInv'
  <2>1. CASE status[held[c]] = "usable"
    <3>1. idle' = Append(idle, held[c]) /\ held[c] \in Processes
      BY <1>9, <2>1 DEF Release
    <3>2. /\ idle' \in Seq(Processes)
          /\ Len(idle') = Len(idle) + 1
          /\ idle'[Len(idle) + 1] = held[c]
          /\ \A k \in 1..Len(idle) : idle'[k] = idle[k]
      BY <3>1
    <3> QED
      BY <1>9, <2>1, <3>2 DEF Release
  <2>2. CASE status[held[c]] # "usable"
    BY <1>9, <2>2 DEF Release
  <2> QED
    BY <2>1, <2>2
<1>10. ASSUME NEW p \in Processes, Die(p) \/ Stop(p) PROVE LeaseInv'
  <2>1. CASE Die(p)
    BY <2>1 DEF Die
  <2>2. CASE Stop(p)
    BY <2>2 DEF Stop
  <2> QED
    BY <1>10, <2>1, <2>2
<1>11. CASE Shutdown
  <2>1. \A i \in 1..Len(idle) : idle[i] \in Processes
    OBVIOUS
  <2> QED
    BY <1>11, <2>1 DEF Shutdown
<1>12. CASE UNCHANGED vars
  BY <1>12 DEF vars
<1> QED
  BY <1>1, <1>2, <1>3, <1>4, <1>5, <1>6, <1>7, <1>8, <1>9, <1>10, <1>11, <1>12
  DEF Next, Acquire

\* Whatever dies, fails to start or is shut down, no two callers ever have the
\* same worker, and none has one that is in the list or being stopped: Acquire,
\* Release and Shutdown of pool.go, for every number of callers and workers.
THEOREM LeaseExclusion == Spec => []LeaseIsExclusive
<1>1. Spec => []LeaseInv
  BY LeaseInit, LeaseStep, PTL DEF Spec
<1>2. LeaseInv => LeaseIsExclusive
  BY DEF LeaseInv
<1> QED
  BY <1>1, <1>2, PTL

-----------------------------------------------------------------------------
(* Tokens and slots. *)

SpareLabels == {"check", "take", "return"}

\* Those who have taken a token, and those among them who have neither a
\* process nor a start under way.
Holders == {c \in Callers : pc[c] \in Holding}
Spare == {c \in Callers : pc[c] \in SpareLabels}

\* A token is in the channel or with a caller.
Slots == tokens + Cardinality(Holders) = Size

\* An idle worker has a slot of its own: it is appended before the token of the
\* call that used it is returned.
Room == Len(idle) <= tokens + Cardinality(Spare)

\* A process that runs is leased, idle or being stopped.
Known ==
  \A p \in Processes : status[p] \in {"starting", "usable"} =>
    \/ \E c \in Callers : held[c] = p
    \/ \E i \in 1..Len(idle) : idle[i] = p
    \/ p \in stopping

CountInv == Slots /\ Room /\ Known

\* What a caller at a label contributes to either count.
Holds(l) == IF l \in Holding THEN 1 ELSE 0
Spares(l) == IF l \in SpareLabels THEN 1 ELSE 0

\* What a step of one caller does to both counts.
LEMMA Moved ==
  ASSUME Types, NEW c \in Callers, NEW l, pc' = [pc EXCEPT ![c] = l]
  PROVE  /\ Cardinality(Holders) \in Nat /\ Cardinality(Spare) \in Nat
         /\ Cardinality(Holders') = Cardinality(Holders)
              + Holds(l) - Holds(pc[c])
         /\ Cardinality(Spare') = Cardinality(Spare)
              + Spares(l) - Spares(pc[c])
<1>1. IsFiniteSet(Holders) /\ IsFiniteSet(Spare)
  BY WorkerPoolAssumption, FS_Subset DEF Holders, Spare
<1>2. Cardinality(Holders) \in Nat /\ Cardinality(Spare) \in Nat
  BY <1>1, FS_CardinalityType
<1>3. Holders' = IF l \in Holding THEN Holders \cup {c} ELSE Holders \ {c}
  BY DEF Holders, Types
<1>4. Spare' = IF l \in SpareLabels THEN Spare \cup {c} ELSE Spare \ {c}
  BY DEF Spare, Types
<1>5. (c \in Holders <=> pc[c] \in Holding) /\ (c \in Spare <=> pc[c] \in SpareLabels)
  BY DEF Holders, Spare
<1>6. /\ Cardinality(Holders \cup {c}) =
            IF c \in Holders THEN Cardinality(Holders) ELSE Cardinality(Holders) + 1
      /\ Cardinality(Spare \cup {c}) =
            IF c \in Spare THEN Cardinality(Spare) ELSE Cardinality(Spare) + 1
  BY <1>1, FS_AddElement
<1>7. /\ Cardinality(Holders \ {c}) =
            IF c \in Holders THEN Cardinality(Holders) - 1 ELSE Cardinality(Holders)
      /\ Cardinality(Spare \ {c}) =
            IF c \in Spare THEN Cardinality(Spare) - 1 ELSE Cardinality(Spare)
  BY <1>1, FS_RemoveElement
<1>8. Cardinality(Holders') = Cardinality(Holders) + Holds(l) - Holds(pc[c])
  BY <1>2, <1>3, <1>5, <1>6, <1>7 DEF Holds
<1>9. Cardinality(Spare') = Cardinality(Spare) + Spares(l) - Spares(pc[c])
  BY <1>2, <1>4, <1>5, <1>6, <1>7 DEF Spares
<1> QED
  BY <1>2, <1>8, <1>9

LEMMA CountInit == Init => CountInv
<1> SUFFICES ASSUME Init PROVE CountInv
  OBVIOUS
<1>1. Holders = {} /\ Spare = {}
  BY DEF Init, Holders, Spare, Holding, SpareLabels
<1>2. Cardinality(Holders) = 0 /\ Cardinality(Spare) = 0
  BY <1>1, FS_EmptySet
<1>3. Slots /\ Room
  BY <1>2, WorkerPoolAssumption DEF Init, Slots, Room
<1>4. Known
  BY DEF Init, Known
<1> QED
  BY <1>3, <1>4 DEF CountInv

\* A step of one caller keeps both counts when its token goes where the labels
\* say, and the list grows only into what it leaves spare.
LEMMA Balanced ==
  ASSUME Types, Slots, Room, NEW c \in Callers, NEW l, pc' = [pc EXCEPT ![c] = l],
         tokens' \in Nat, Len(idle') \in Nat,
         tokens' + Holds(l) = tokens + Holds(pc[c]),
         \/ Len(idle') = 0
         \/ Len(idle') + tokens + Spares(pc[c]) <= Len(idle) + tokens' + Spares(l)
  PROVE  Slots' /\ Room'
<1>1. /\ Cardinality(Holders) \in Nat /\ Cardinality(Spare) \in Nat
      /\ Cardinality(Holders') = Cardinality(Holders) + Holds(l) - Holds(pc[c])
      /\ Cardinality(Spare') = Cardinality(Spare) + Spares(l) - Spares(pc[c])
  BY Moved
<1>2. /\ Holds(l) \in {0, 1} /\ Holds(pc[c]) \in {0, 1}
      /\ Spares(l) \in {0, 1} /\ Spares(pc[c]) \in {0, 1}
  BY DEF Holds, Spares
<1>3. tokens \in Nat /\ Len(idle) \in Nat /\ Size \in Nat
  BY WorkerPoolAssumption DEF Types
<1>4. Cardinality(Spare') \in Nat
  BY WorkerPoolAssumption, FS_Subset, FS_CardinalityType DEF Spare
<1>5. Slots'
  BY <1>1, <1>2, <1>3 DEF Slots
<1>6. Room'
  BY <1>1, <1>2, <1>3, <1>4 DEF Room
<1> QED
  BY <1>5, <1>6

\* The token of a call and the place of its worker in the list.
LEMMA SlotStep == LeaseInv /\ CountInv /\ [Next]_vars => Slots' /\ Room'
<1> SUFFICES ASSUME LeaseInv, CountInv, [Next]_vars PROVE Slots' /\ Room'
  OBVIOUS
<1>a. Types /\ Slots /\ Room
  BY DEF LeaseInv, CountInv
<1>b. tokens \in Nat /\ idle \in Seq(Processes) /\ Len(idle) \in Nat
  BY <1>a DEF Types
<1>c. Size \in Nat
  BY WorkerPoolAssumption
<1> USE <1>a, <1>b, <1>c DEF Goto, Hold, poolVars
<1>1. ASSUME NEW c \in Callers, Call(c) PROVE Slots' /\ Room'
  <2>1. /\ pc[c] = "idle" /\ pc' = [pc EXCEPT ![c] = "waiting"] /\ idle' = idle
        /\ tokens' \in Nat /\ tokens' + Holds("waiting") = tokens + Holds("idle")
        /\ Len(idle') + tokens + Spares("idle") <= Len(idle) + tokens' + Spares("waiting")
    BY <1>1 DEF Call, Holds, Spares, Holding, SpareLabels
  <2> QED
    BY <2>1, Balanced
<1>2. ASSUME NEW c \in Callers, TakeToken(c) PROVE Slots' /\ Room'
  <2>1. /\ pc[c] = "waiting" /\ pc' = [pc EXCEPT ![c] = "check"] /\ idle' = idle
        /\ tokens' \in Nat /\ tokens' + Holds("check") = tokens + Holds("waiting")
        /\ Len(idle') + tokens + Spares("waiting") <= Len(idle) + tokens' + Spares("check")
    BY <1>2 DEF TakeToken, Holds, Spares, Holding, SpareLabels
  <2> QED
    BY <2>1, Balanced
<1>3. ASSUME NEW c \in Callers, GiveUp(c) PROVE Slots' /\ Room'
  <2>1. /\ pc[c] = "waiting" /\ pc' = [pc EXCEPT ![c] = "idle"] /\ idle' = idle
        /\ tokens' \in Nat /\ tokens' + Holds("idle") = tokens + Holds("waiting")
        /\ Len(idle') + tokens + Spares("waiting") <= Len(idle) + tokens' + Spares("idle")
    BY <1>3 DEF GiveUp, Holds, Spares, Holding, SpareLabels
  <2> QED
    BY <2>1, Balanced
<1>4. ASSUME NEW c \in Callers, Spawn(c) PROVE Slots' /\ Room'
  <2>1. /\ pc[c] = "spawn" /\ pc' = [pc EXCEPT ![c] = "starting"] /\ idle' = idle
        /\ tokens' \in Nat /\ tokens' + Holds("starting") = tokens + Holds("spawn")
        /\ Len(idle') + tokens + Spares("spawn") <= Len(idle) + tokens' + Spares("starting")
    BY <1>4 DEF Spawn, Holds, Spares, Holding, SpareLabels
  <2> QED
    BY <2>1, Balanced
<1>5. ASSUME NEW c \in Callers, SpawnFails(c) PROVE Slots' /\ Room'
  <2>1. /\ pc[c] = "spawn" /\ pc' = [pc EXCEPT ![c] = "record"] /\ idle' = idle
        /\ tokens' \in Nat /\ tokens' + Holds("record") = tokens + Holds("spawn")
        /\ Len(idle') + tokens + Spares("spawn") <= Len(idle) + tokens' + Spares("record")
    BY <1>5 DEF SpawnFails, Holds, Spares, Holding, SpareLabels
  <2> QED
    BY <2>1, Balanced
<1>6. ASSUME NEW c \in Callers, Ready(c) PROVE Slots' /\ Room'
  <2>1. /\ pc[c] = "starting" /\ pc' = [pc EXCEPT ![c] = "leased"] /\ idle' = idle
        /\ tokens' \in Nat /\ tokens' + Holds("leased") = tokens + Holds("starting")
        /\ Len(idle') + tokens + Spares("starting") <= Len(idle) + tokens' + Spares("leased")
    BY <1>6 DEF Ready, Holds, Spares, Holding, SpareLabels
  <2> QED
    BY <2>1, Balanced
<1>7. ASSUME NEW c \in Callers, NotReady(c) PROVE Slots' /\ Room'
  <2>1. /\ pc[c] = "starting" /\ pc' = [pc EXCEPT ![c] = "record"] /\ idle' = idle
        /\ tokens' \in Nat /\ tokens' + Holds("record") = tokens + Holds("starting")
        /\ Len(idle') + tokens + Spares("starting") <= Len(idle) + tokens' + Spares("record")
    BY <1>7 DEF NotReady, Holds, Spares, Holding, SpareLabels
  <2> QED
    BY <2>1, Balanced
<1>8. ASSUME NEW c \in Callers, recordFailure(c) PROVE Slots' /\ Room'
  <2>1. /\ pc[c] = "record" /\ pc' = [pc EXCEPT ![c] = "return"] /\ idle' = idle
        /\ tokens' \in Nat /\ tokens' + Holds("return") = tokens + Holds("record")
        /\ Len(idle') + tokens + Spares("record") <= Len(idle) + tokens' + Spares("return")
    BY <1>8 DEF recordFailure, Holds, Spares, Holding, SpareLabels
  <2> QED
    BY <2>1, Balanced
<1>9. ASSUME NEW c \in Callers, Done(c) PROVE Slots' /\ Room'
  <2>1. /\ pc[c] = "leased" /\ pc' = [pc EXCEPT ![c] = "release"] /\ idle' = idle
        /\ tokens' \in Nat /\ tokens' + Holds("release") = tokens + Holds("leased")
        /\ Len(idle') + tokens + Spares("leased") <= Len(idle) + tokens' + Spares("release")
    BY <1>9 DEF Done, Holds, Spares, Holding, SpareLabels
  <2> QED
    BY <2>1, Balanced
<1>10. ASSUME NEW c \in Callers, ReturnToken(c) PROVE Slots' /\ Room'
  <2>1. /\ pc[c] = "return" /\ pc' = [pc EXCEPT ![c] = "idle"] /\ idle' = idle
        /\ tokens' \in Nat /\ tokens' + Holds("idle") = tokens + Holds("return")
        /\ Len(idle') + tokens + Spares("return") <= Len(idle) + tokens' + Spares("idle")
    BY <1>10 DEF ReturnToken, Holds, Spares, Holding, SpareLabels
  <2> QED
    BY <2>1, Balanced
<1>11. ASSUME NEW c \in Callers, CheckLatched(c) PROVE Slots' /\ Room'
  <2>1. PICK l \in {"take", "return"} : pc' = [pc EXCEPT ![c] = l]
    BY <1>11 DEF CheckLatched
  <2>2. /\ tokens' \in Nat /\ idle' = idle /\ tokens' + Holds(l) = tokens + Holds(pc[c])
        /\ Len(idle') + tokens + Spares(pc[c]) <= Len(idle) + tokens' + Spares(l)
    BY <1>11, <2>1 DEF CheckLatched, Holds, Spares, Holding, SpareLabels
  <2> QED
    BY <2>1, <2>2, Balanced
<1>12. ASSUME NEW c \in Callers, takeIdle(c) PROVE Slots' /\ Room'
  <2> DEFINE live == {i \in 1..Len(idle) : status[idle[i]] = "usable"}
  <2>1. pc[c] = "take" /\ tokens' = tokens
    BY <1>12 DEF takeIdle
  <2>2. CASE live = {}
    <3>1. pc' = [pc EXCEPT ![c] = "spawn"] /\ idle' = <<>>
      BY <1>12, <2>2 DEF takeIdle
    <3>2. Len(idle') = 0 /\ Holds("spawn") = Holds(pc[c])
      BY <2>1, <3>1 DEF Holds, Holding
    <3> QED
      BY <2>1, <3>1, <3>2, Balanced
  <2>3. CASE live # {}
    <3>1. PICK i \in live :
            idle' = SubSeq(idle, 1, i - 1) /\ pc' = [pc EXCEPT ![c] = "leased"]
      BY <1>12, <2>3 DEF takeIdle
    <3>2. i \in 1..Len(idle) /\ Len(idle') = i - 1
      BY <3>1
    <3>3. /\ Holds("leased") = Holds(pc[c]) /\ Len(idle') \in Nat
          /\ Len(idle') + tokens + Spares(pc[c]) <= Len(idle) + tokens' + Spares("leased")
      BY <2>1, <3>2 DEF Holds, Spares, Holding, SpareLabels
    <3> QED
      BY <2>1, <3>1, <3>3, Balanced
  <2> QED
    BY <2>2, <2>3
<1>13. ASSUME NEW c \in Callers, Release(c) PROVE Slots' /\ Room'
  <2>1. /\ pc[c] = "release" /\ tokens' = tokens
        /\ pc' = [pc EXCEPT ![c] = "return"]
    BY <1>13 DEF Release
  <2>2. Len(idle') <= Len(idle) + 1 /\ Len(idle') \in Nat
    <3>1. idle' = idle \/ idle' = Append(idle, held[c])
      BY <1>13 DEF Release
    <3>2. Len(Append(idle, held[c])) = Len(idle) + 1
      OBVIOUS
    <3> QED
      BY <3>1, <3>2
  <2>3. /\ Holds("return") = Holds(pc[c])
        /\ Len(idle') + tokens + Spares(pc[c]) <= Len(idle) + tokens' + Spares("return")
    BY <2>1, <2>2 DEF Holds, Spares, Holding, SpareLabels
  <2> QED
    BY <2>1, <2>2, <2>3, Balanced
<1>14. CASE \/ \E p \in Processes : Die(p) \/ Stop(p)
            \/ UNCHANGED vars
  <2>1. UNCHANGED <<pc, tokens, idle>>
    BY <1>14 DEF Die, Stop, vars
  <2>2. Holders' = Holders /\ Spare' = Spare
    BY <2>1 DEF Holders, Spare
  <2> QED
    BY <2>1, <2>2 DEF Slots, Room
<1>15. CASE Shutdown
  <2>1. UNCHANGED <<pc, tokens>> /\ Len(idle') = 0
    BY <1>15 DEF Shutdown
  <2>2. Holders' = Holders /\ Spare' = Spare
    BY <2>1 DEF Holders, Spare
  <2>3. Cardinality(Spare) \in Nat
    BY WorkerPoolAssumption, FS_Subset, FS_CardinalityType DEF Spare
  <2> QED
    BY <2>1, <2>2, <2>3 DEF Slots, Room
<1> QED
  BY <1>1, <1>2, <1>3, <1>4, <1>5, <1>6, <1>7, <1>8, <1>9, <1>10, <1>11, <1>12, <1>13,
     <1>14, <1>15
  DEF Next, Acquire

\* No step forgets a process that runs.
LEMMA KnownStep == LeaseInv /\ Known /\ [Next]_vars => Known'
<1> SUFFICES ASSUME LeaseInv, Known, [Next]_vars,
                    NEW p \in Processes, status'[p] \in {"starting", "usable"}
             PROVE  \/ \E c \in Callers : held'[c] = p
                    \/ \E i \in 1..Len(idle') : idle'[i] = p
                    \/ p \in stopping'
  BY DEF Known
<1> DEFINE Q == \/ \E c \in Callers : held'[c] = p
                \/ \E i \in 1..Len(idle') : idle'[i] = p
                \/ p \in stopping'
<1>a. Types /\ Leases
  BY DEF LeaseInv
<1> USE <1>a DEF Types, Goto, Hold, poolVars
<1>1. CASE UNCHANGED <<held, idle, status, stopping>>
  BY <1>1 DEF Known
<1>2. ASSUME NEW c \in Callers, takeIdle(c) PROVE Q
  <2> DEFINE live == {i \in 1..Len(idle) : status[idle[i]] = "usable"}
  <2>1. held[c] = 0 /\ status' = status /\ stopping' = stopping
    BY <1>2 DEF takeIdle, Leases
  <2>2. CASE live = {}
    <3>1. held' = held
      BY <1>2, <2>2 DEF takeIdle
    <3>2. \A i \in 1..Len(idle) : idle[i] # p
      BY <2>1, <2>2 DEF Leases
    <3> QED
      BY <2>1, <3>1, <3>2 DEF Known
  <2>3. CASE live # {}
    <3>1. PICK i \in live : /\ \A j \in live : j <= i
                            /\ idle' = SubSeq(idle, 1, i - 1)
                            /\ held' = [held EXCEPT ![c] = idle[i]]
      BY <1>2, <2>3 DEF takeIdle
    <3>2. i \in 1..Len(idle) /\ Len(idle') = i - 1 /\ \A k \in 1..(i - 1) : idle'[k] = idle[k]
      BY <3>1
    <3>3. CASE \E d \in Callers : held[d] = p
      <4>1. PICK d \in Callers : held[d] = p
        BY <3>3
      <4>2. d # c
        BY <2>1, <4>1 DEF Processes
      <4> QED
        BY <3>1, <4>1, <4>2
    <3>4. ASSUME NEW k \in 1..Len(idle), idle[k] = p PROVE Q
      <4>1. k \in live
        BY <2>1, <3>4 DEF Leases
      <4>2. k = i \/ k \in 1..(i - 1)
        BY <3>1, <3>2, <4>1
      <4>3. CASE k = i
        BY <3>1, <3>4, <4>3
      <4>4. CASE k \in 1..(i - 1)
        BY <3>2, <3>4, <4>4
      <4> QED
        BY <4>2, <4>3, <4>4
    <3>5. CASE p \in stopping
      BY <2>1, <3>5
    <3> QED
      BY <2>1, <3>3, <3>4, <3>5 DEF Known
  <2> QED
    BY <2>2, <2>3
<1>3. ASSUME NEW c \in Callers, Spawn(c) PROVE Q
  BY <1>3 DEF Spawn, Known, Leases, Processes
<1>4. ASSUME NEW c \in Callers, Ready(c) PROVE Q
  BY <1>4 DEF Ready, Known
<1>5. ASSUME NEW c \in Callers, NotReady(c) PROVE Q
  BY <1>5 DEF NotReady, Known, Leases
<1>6. ASSUME NEW c \in Callers, Release(c) PROVE Q
  <2>1. /\ status' = status /\ stopping' = stopping /\ held' = [held EXCEPT ![c] = 0]
    BY <1>6 DEF Release
  <2>2. CASE status[held[c]] = "usable"
    <3>1. idle' = Append(idle, held[c])
      BY <1>6, <2>2 DEF Release
    <3>2. /\ Len(idle') = Len(idle) + 1
          /\ idle'[Len(idle) + 1] = held[c]
          /\ \A k \in 1..Len(idle) : idle'[k] = idle[k]
      BY <3>1
    <3> QED
      BY <2>1, <3>2 DEF Known
  <2>3. CASE status[held[c]] # "usable"
    <3>1. idle' = idle /\ held[c] # p
      BY <1>6, <2>1, <2>3 DEF Release, Leases
    <3> QED
      BY <2>1, <3>1 DEF Known
  <2> QED
    BY <2>2, <2>3
<1>7. ASSUME NEW q \in Processes, Die(q) \/ Stop(q) PROVE Q
  <2>1. CASE Die(q)
    BY <2>1 DEF Die, Known
  <2>2. CASE Stop(q)
    BY <2>2 DEF Stop, Known
  <2> QED
    BY <1>7, <2>1, <2>2
<1>8. CASE Shutdown
  <2>1. /\ status' = status /\ held' = held
        /\ stopping' = {idle[i] : i \in 1..Len(idle)}
    BY <1>8 DEF Shutdown
  <2>2. stopping = {}
    BY <1>8 DEF Shutdown, Leases
  <2> QED
    BY <2>1, <2>2 DEF Known
<1>9. ASSUME NEW c \in Callers,
             \/ Call(c) \/ TakeToken(c) \/ GiveUp(c) \/ CheckLatched(c) \/ SpawnFails(c)
             \/ recordFailure(c) \/ Done(c) \/ ReturnToken(c)
      PROVE  UNCHANGED <<held, idle, status, stopping>>
  BY <1>9 DEF Call, TakeToken, GiveUp, CheckLatched, SpawnFails, recordFailure, Done,
              ReturnToken
<1>10. CASE UNCHANGED vars
  BY <1>1, <1>10 DEF vars
<1> QED
  BY <1>1, <1>2, <1>3, <1>4, <1>5, <1>6, <1>7, <1>8, <1>9, <1>10 DEF Next, Acquire

\* The two counts bound the processes.
LEMMA CapFollows == LeaseInv /\ CountInv => ProcessCap
<1> SUFFICES ASSUME LeaseInv, CountInv PROVE ProcessCap
  OBVIOUS
<1> DEFINE L == {c \in Callers : held[c] # 0}
           H == {held[c] : c \in L}
           D == 1..Len(idle)
           I == {idle[i] : i \in D}
           P == {p \in Processes \ stopping : status[p] \in {"starting", "usable"}}
<1>1. IsFiniteSet(L) /\ IsFiniteSet(Spare) /\ IsFiniteSet(Holders)
  BY WorkerPoolAssumption, FS_Subset DEF Spare, Holders
<1>2. IsFiniteSet(H) /\ Cardinality(H) <= Cardinality(L)
  <2>1. [c \in L |-> held[c]] \in Surjection(L, H)
    BY DEF Surjection
  <2> QED
    BY <1>1, <2>1, FS_Surjection
<1>3. Len(idle) \in Nat
  BY DEF LeaseInv, Types
<1>4. IsFiniteSet(D) /\ Cardinality(D) = Len(idle)
  BY <1>3, FS_Interval
<1>5. IsFiniteSet(I) /\ Cardinality(I) <= Len(idle)
  <2>1. [i \in D |-> idle[i]] \in Surjection(D, I)
    BY DEF Surjection
  <2> QED
    BY <1>4, <2>1, FS_Surjection
<1>6. P \subseteq H \cup I
  BY DEF CountInv, Known, Processes
<1>7. IsFiniteSet(H \cup I) /\ Cardinality(H \cup I) <= Cardinality(H) + Cardinality(I)
  <2>1. /\ IsFiniteSet(H \cup I) /\ IsFiniteSet(H \cap I)
        /\ Cardinality(H \cup I) = Cardinality(H) + Cardinality(I) - Cardinality(H \cap I)
    BY <1>2, <1>5, FS_Union, FS_Subset
  <2>2. Cardinality(H) \in Nat /\ Cardinality(I) \in Nat /\ Cardinality(H \cap I) \in Nat
    BY <1>2, <1>5, <2>1, FS_CardinalityType
  <2> QED
    BY <2>1, <2>2
<1>8. IsFiniteSet(P) /\ Cardinality(P) <= Cardinality(H \cup I)
  BY <1>6, <1>7, FS_Subset
<1>9. Cardinality(L) + Cardinality(Spare) <= Cardinality(Holders)
  <2>1. L \cap Spare = {} /\ L \cup Spare \subseteq Holders
    BY DEF LeaseInv, Leases, Spare, SpareLabels, Holders, Holding
  <2>2. Cardinality(L \cup Spare) <= Cardinality(Holders)
    BY <1>1, <2>1, FS_Subset
  <2>3. Cardinality(L \cup Spare) = Cardinality(L) + Cardinality(Spare) - Cardinality(L \cap Spare)
    BY <1>1, FS_Union
  <2>4. Cardinality(L \cap Spare) = 0
    BY <2>1, FS_EmptySet
  <2>5. Cardinality(L) \in Nat /\ Cardinality(Spare) \in Nat
    BY <1>1, FS_CardinalityType
  <2> QED
    BY <2>2, <2>3, <2>4, <2>5
<1>10. /\ Cardinality(P) \in Nat /\ Cardinality(H) \in Nat /\ Cardinality(I) \in Nat
       /\ Cardinality(L) \in Nat /\ Cardinality(H \cup I) \in Nat
       /\ Cardinality(Spare) \in Nat /\ Cardinality(Holders) \in Nat
  BY <1>1, <1>2, <1>5, <1>7, <1>8, FS_CardinalityType
<1>11. /\ tokens \in Nat /\ Size \in Nat
       /\ tokens + Cardinality(Holders) = Size
       /\ Len(idle) <= tokens + Cardinality(Spare)
  BY WorkerPoolAssumption DEF LeaseInv, Types, CountInv, Slots, Room
<1>12. Cardinality(P) <= Size
  <2> HIDE DEF P, H, I, L, D
  <2> QED
    BY <1>2, <1>3, <1>5, <1>7, <1>8, <1>9, <1>10, <1>11
<1> QED
  BY <1>12 DEF ProcessCap

LEMMA CountsHold == Spec => [](LeaseInv /\ CountInv)
<1>1. Init => LeaseInv /\ CountInv
  BY LeaseInit, CountInit
<1>2. LeaseInv /\ CountInv /\ [Next]_vars => (LeaseInv /\ CountInv)'
  <2> SUFFICES ASSUME LeaseInv, CountInv, [Next]_vars PROVE LeaseInv' /\ CountInv'
    OBVIOUS
  <2>1. LeaseInv'
    BY LeaseStep
  <2>2. Slots' /\ Room'
    BY SlotStep
  <2>3. Known'
    BY KnownStep DEF CountInv
  <2> QED
    BY <2>1, <2>2, <2>3 DEF CountInv
<1> QED
  BY <1>1, <1>2, PTL DEF Spec

\* The pool's tokens are conserved by Acquire and Release of pool.go: there are
\* never more than its size, and every variable keeps its type.
THEOREM PoolTypeCorrect == Spec => []TypeOK
<1>1. LeaseInv /\ CountInv => TypeOK
  <2> SUFFICES ASSUME LeaseInv, CountInv PROVE TypeOK
    OBVIOUS
  <2>1. Cardinality(Holders) \in Nat
    BY WorkerPoolAssumption, FS_Subset, FS_CardinalityType DEF Holders
  <2>2. tokens \in 0..Size
    BY <2>1, WorkerPoolAssumption DEF LeaseInv, Types, CountInv, Slots
  <2> QED
    BY <2>2 DEF LeaseInv, Types, TypeOK
<1> QED
  BY <1>1, CountsHold, PTL

\* pool.go caps processes rather than leases: between the two halves of a Release
\* a worker is idle and its token still out, so an Acquire that finds
\* no idle worker always has room to start one.
THEOREM CapHolds == Spec => []ProcessCap
  BY CapFollows, CountsHold, PTL

-----------------------------------------------------------------------------
(* The calls: types. *)

LEMMA CallTypesBegin == CallInit => CallTypeOK
BY WorkerCallAssumption DEF CallInit, CallTypeOK, Calls, Frames, Requests, Quit

LEMMA FramesAre ==
  /\ \A r \in Calls, n \in 0..2 : <<r, n>> \in Frames
  /\ \A f \in Frames : f[1] \in Calls /\ f[2] \in 0..2 /\ f = <<f[1], f[2]>>
  /\ Quit \in Calls /\ Requests \subseteq Calls /\ Quit \notin Requests
BY WorkerCallAssumption DEF Frames, Calls, Requests, Quit

LEMMA EventsAre ==
  /\ \A f \in Frames, k \in {"done", "missed", "stopped", "running", "full"} : [id |-> f, kind |-> k] \in Event
  /\ [id |-> <<Quit, 0>>, kind |-> "fatal"] \in Event
  /\ \A e \in Event : /\ e.id \in Frames
                      /\ e.kind # "fatal" => e.kind \in {"done", "missed", "stopped", "running", "full"}
<1>1. \A e \in [id : Frames, kind : {"done", "missed", "stopped", "running", "full"}] :
        e.id \in Frames /\ e.kind \in {"done", "missed", "stopped", "running", "full"}
  OBVIOUS
<1>2. PICK q : q = [id |-> <<Quit, 0>>, kind |-> "fatal"]
  OBVIOUS
<1>3. q.id \in Frames /\ q.kind = "fatal"
  <2>1. q.id = <<Quit, 0>> /\ q.kind = "fatal"
    BY <1>2
  <2>2. Quit \in Calls /\ 0 \in 0..2
    BY FramesAre
  <2>3. <<Quit, 0>> \in Frames
    BY <2>2, FramesAre
  <2> QED
    BY <2>1, <2>3
<1>4. Event = [id : Frames, kind : {"done", "missed", "stopped", "running", "full"}] \cup {q}
  BY <1>2 DEF Event
<1>5. \A f \in Frames, k \in {"done", "missed", "stopped", "running", "full"} : [id |-> f, kind |-> k] \in Event
  BY <1>4
<1>6. \A e \in Event : /\ e.id \in Frames
                       /\ e.kind # "fatal" => e.kind \in {"done", "missed", "stopped", "running", "full"}
  BY <1>1, <1>3, <1>4
<1> QED
  BY <1>2, <1>4, <1>5, <1>6

LEMMA WriteTypes ==
  ASSUME CallTypeOK, NEW f \in Frames, NEW k \in {"done", "missed", "stopped", "running", "full"}, write(f, k)
  PROVE  out' \in Seq(Event)
<1>1. PICK e \in Event : e = [id |-> f, kind |-> k]
  BY EventsAre
<1>2. (out' = Append(out, e) \/ out' = out) /\ out \in Seq(Event)
  BY <1>1 DEF write, CallTypeOK
<1> QED
  BY <1>2

LEMMA CallerTypes ==
  ASSUME CallTypeOK, NEW r \in Calls, Start(r) \/ CallStep(r)
  PROVE  CallTypeOK'
<1>1. Frame(r) \in Frames
  BY FramesAre DEF CallTypeOK, Frame
<1>2. CASE Start(r)
  BY <1>2 DEF Start, Goes, CallTypeOK, pyVars
<1>3. CASE Enter(r)
  BY <1>3 DEF Enter, Goes, CallTypeOK, pyVars
<1>4. CASE Register(r)
  BY <1>1, <1>4 DEF Register, Goes, CallTypeOK, pyVars
<1>5. CASE Send(r)
  <2>1. inbox' \in Seq(Frames)
    <3>1. inbox' = inbox \/ inbox' = Append(inbox, Frame(r))
      BY <1>5 DEF Send
    <3>2. inbox \in Seq(Frames)
      BY DEF CallTypeOK
    <3>3. CASE inbox' = Append(inbox, Frame(r))
      BY <1>1, <3>2, <3>3, AppendProperties
    <3> QED
      BY <3>1, <3>2, <3>3
  <2> QED
    BY <1>5, <2>1 DEF Send, Goes, CallTypeOK, pyVars
<1>6. CASE Answered(r) \/ SeeExit(r)
  BY <1>6 DEF Answered, SeeExit, Goes, CallTypeOK, pyVars
<1>7. CASE GiveUpWaiting(r)
  <2>1. top' \in [Calls -> 0..2]
    BY <1>7 DEF GiveUpWaiting, CallTypeOK
  <2> QED
    BY <1>7, <2>1 DEF GiveUpWaiting, Goes, CallTypeOK, pyVars
<1>8. CASE Return(r)
  <2>1. top' \in [Calls -> 0..2]
    BY <1>8 DEF Return, CallTypeOK
  <2>2. /\ where' \in [Calls -> {"idle", "enter", "register", "send", "wait", "returned", "killing", "over"}]
        /\ state' \in {"ready", "busy", "crashed", "failed", "stopped"}
    BY <1>8 DEF Return, Goes, CallTypeOK
  <2>3. /\ answer' \in [Frames -> {"none", "done", "missed", "stopped", "running", "full", "crashed"}]
        /\ pending' \subseteq Frames
    BY <1>8 DEF Return, CallTypeOK
  <2> QED
    BY <1>8, <2>1, <2>2, <2>3 DEF Return, CallTypeOK, pyVars
<1> QED
  BY <1>2, <1>3, <1>4, <1>5, <1>6, <1>7, <1>8 DEF CallStep

LEMMA ReaderTypes ==
  ASSUME CallTypeOK, Kill \/ ReadEvent \/ Malformed \/ OverlongLine \/ Reap
  PROVE  CallTypeOK'
<1>1. CASE Kill
  BY <1>1, FramesAre DEF Kill, Goes, CallTypeOK, pyVars
<1>2. CASE ReadEvent
  <2> DEFINE e == Head(out)
  <2>1. out # <<>> /\ out' = Tail(out) /\ e \in Event /\ out' \in Seq(Event)
    BY <1>2 DEF ReadEvent, CallTypeOK
  <2>2. CASE e.kind = "fatal"
    BY <1>2, <2>1, <2>2 DEF ReadEvent, CallTypeOK, pyVars
  <2>3. CASE e.kind # "fatal"
    <3>1. e.id \in Frames /\ e.kind \in {"done", "missed", "stopped", "running", "full"}
      BY <2>1, <2>3, EventsAre
    <3>2. /\ pending' = pending \ {e.id} /\ UNCHANGED state
          /\ answer' = IF e.id \in pending THEN [answer EXCEPT ![e.id] = e.kind] ELSE answer
      BY <1>2, <2>3 DEF ReadEvent
    <3>3. /\ answer' \in [Frames -> {"none", "done", "missed", "stopped", "running", "full", "crashed"}]
          /\ pending' \subseteq Frames
      BY <3>1, <3>2 DEF CallTypeOK
    <3> QED
      BY <1>2, <2>1, <3>2, <3>3 DEF ReadEvent, CallTypeOK, pyVars
  <2> QED
    BY <2>2, <2>3
<1>3. CASE Malformed \/ OverlongLine
  <2>1. out' = <<>> /\ <<>> \in Seq(Event)
    BY <1>3, EmptySeq DEF Malformed, OverlongLine
  <2>2. heard' \in BOOLEAN
    BY <1>3 DEF Malformed, OverlongLine, CallTypeOK
  <2> QED
    BY <1>3, <2>1, <2>2 DEF Malformed, OverlongLine, CallTypeOK, pyVars
<1>4. CASE Reap
  <2>1. out' \in Seq(Event)
    <3>1. PICK left \in {0, 1} : out' = SubSeq(out, 1, IF out = <<>> THEN 0 ELSE left)
      BY <1>4 DEF Reap
    <3>2. CASE out = <<>> \/ left = 0
      BY <3>1, <3>2 DEF CallTypeOK
    <3>3. CASE out # <<>> /\ left = 1
      BY <3>1, <3>3 DEF CallTypeOK
    <3> QED
      BY <3>2, <3>3
  <2>2. answer' \in [Frames -> {"none", "done", "missed", "stopped", "running", "full", "crashed"}]
    BY <1>4 DEF Reap, CallTypeOK
  <2> QED
    BY <1>4, <2>1, <2>2 DEF Reap, CallTypeOK, pyVars
<1> QED
  BY <1>1, <1>2, <1>3, <1>4

LEMMA ProcessTypes ==
  ASSUME CallTypeOK, ReadRequest \/ Fatal \/ Settle \/ Exit
  PROVE  CallTypeOK'
<1>1. CASE ReadRequest
  <2> DEFINE f == Head(inbox)
  <2>1. inbox # <<>> /\ inbox' = Tail(inbox) /\ f \in Frames /\ inbox' \in Seq(Frames)
    BY <1>1 DEF ReadRequest, CallTypeOK
  <2>2. UNCHANGED <<where, top, state, pending, answer, exited, heard, proc, serving, phase>>
    BY <1>1 DEF ReadRequest, goVars
  <2>3. /\ out' \in Seq(Event) /\ reader' \in {"reading", "settling", "stopped"} /\ settles' \in Frames
        /\ queue' \in Seq(Requests) /\ Len(queue') <= QueueDepth
    <3>1. CASE Enqueue(f)
      <4>1. f[1] \in Requests
        BY <2>1, <3>1, FramesAre DEF Enqueue, IsControlMethod, Calls
      <4>2. queue' \in Seq(Requests) /\ Len(queue') <= QueueDepth
        <5>1. queue \in Seq(Requests) /\ Len(queue) <= QueueDepth /\ Len(queue) \in Nat /\ QueueDepth \in Nat
          BY WorkerCallAssumption DEF CallTypeOK
        <5>2. CASE Len(queue) < QueueDepth /\ queue' = Append(queue, f[1])
          BY <4>1, <5>1, <5>2
        <5>3. CASE UNCHANGED queue
          BY <5>1, <5>3
        <5> QED
          BY <3>1, <5>2, <5>3 DEF Enqueue
      <4>3. out' \in Seq(Event)
        <5>1. CASE UNCHANGED out
          BY <5>1 DEF CallTypeOK
        <5>2. CASE write(f, "full")
          BY <2>1, <5>2, WriteTypes
        <5> QED
          BY <3>1, <5>1, <5>2 DEF Enqueue
      <4> QED
        BY <3>1, <4>2, <4>3 DEF Enqueue, CallTypeOK
    <3>2. CASE cancel(f)
      <4>1. CASE UNCHANGED out
        BY <2>1, <3>2, <4>1 DEF cancel, CallTypeOK
      <4>2. CASE write(f, "missed") /\ UNCHANGED <<reader, settles>>
        <5>1. out' \in Seq(Event)
          BY <2>1, <4>2, WriteTypes
        <5> QED
          BY <3>2, <4>2, <5>1 DEF cancel, CallTypeOK
      <4> QED
        BY <3>2, <4>1, <4>2 DEF cancel
    <3>3. CASE shutdown(f)
      <4>1. out' \in Seq(Event)
        BY <2>1, <3>3, WriteTypes DEF shutdown
      <4> QED
        BY <3>3, <4>1 DEF shutdown, CallTypeOK
    <3> QED
      BY <1>1, <3>1, <3>2, <3>3 DEF ReadRequest
  <2> QED
    BY <2>1, <2>2, <2>3 DEF CallTypeOK
<1>2. CASE Fatal
  <2>1. out' \in Seq(Event)
    <3>1. PICK e \in Event : e = [id |-> <<Quit, 0>>, kind |-> "fatal"]
      BY EventsAre
    <3>2. out' = Append(out, e) \/ out' = out
      BY <1>2, <3>1 DEF Fatal, write
    <3> QED
      BY <3>2 DEF CallTypeOK
  <2> QED
    BY <1>2, <2>1 DEF Fatal, goVars, CallTypeOK
<1>3. CASE Settle
  <2>1. settles \in Frames /\ (write(settles, "running") \/ write(settles, "stopped"))
    BY <1>3 DEF Settle, CallTypeOK
  <2>2. out' \in Seq(Event)
    BY <2>1, WriteTypes
  <2> QED
    BY <1>3, <2>2 DEF Settle, goVars, CallTypeOK
<1>4. CASE Exit
  BY <1>4 DEF Exit, goVars, pyVars, CallTypeOK
<1> QED
  BY <1>1, <1>2, <1>3, <1>4

LEMMA ThreadTypes ==
  ASSUME CallTypeOK, Take \/ Admit \/ WriteTerminal \/ Finish \/ Crash \/ Wedge
  PROVE  CallTypeOK'
<1>1. CASE Take
  <2>1. serving' \in Requests /\ queue' \in Seq(Requests) /\ Len(queue') <= QueueDepth
    BY <1>1, WorkerCallAssumption DEF Take, CallTypeOK
  <2> QED
    BY <1>1, <2>1 DEF Take, goVars, CallTypeOK
<1>2. CASE Admit \/ Finish
  BY <1>2 DEF Admit, Finish, goVars, CallTypeOK
<1>3. CASE WriteTerminal
  <2>1. <<serving, 0>> \in Frames
    <3>1. serving \in Calls /\ 0 \in 0..2
      BY DEF CallTypeOK, Calls, Quit
    <3> QED
      BY <3>1, FramesAre
  <2>2. out' \in Seq(Event)
    BY <1>3, <2>1, WriteTypes DEF WriteTerminal
  <2> QED
    BY <1>3, <2>2 DEF WriteTerminal, goVars, CallTypeOK
<1>4. CASE Crash \/ Wedge
  BY <1>4 DEF Crash, Wedge, goVars, pyVars, CallTypeOK
<1> QED
  BY <1>1, <1>2, <1>3, <1>4

LEMMA CallTypesStep == CallTypeOK /\ [CallNext]_callVars => CallTypeOK'
<1> SUFFICES ASSUME CallTypeOK, [CallNext]_callVars PROVE CallTypeOK'
  OBVIOUS
<1>1. CASE UNCHANGED callVars
  BY <1>1 DEF callVars, goVars, pyVars, CallTypeOK
<1> QED
  BY <1>1, CallerTypes, ReaderTypes, ProcessTypes, ThreadTypes DEF CallNext

\* Every variable of a call has its type; in particular the worker's queue
\* never holds more than QUEUE_DEPTH requests (worker.py, _dispatch).
THEOREM CallTypeCorrect == CallSpec => []CallTypeOK
BY CallTypesBegin, CallTypesStep, PTL DEF CallSpec

-----------------------------------------------------------------------------
(* The calls: a cancel that is acknowledged comes after its target's end. *)

In(x, s) == \E i \in 1..Len(s) : s[i] = x

\* The data request of r is sent once: it has been, or is given up, ...
Sent(r) == where[r] # "idle" /\ (where[r] \in {"enter", "register", "send"} => top[r] # 0)
\* ... and the reader has it, ...
Read(r) == Sent(r) /\ ~In(<<r, 0>>, inbox)
\* ... and the data thread has it, ...
Served(r) == Read(r) /\ ~In(r, queue)
\* ... and is done with it.
Over(r) == Served(r) /\ serving # r

Once ==
  /\ \A r \in Requests :
       /\ In(<<r, 0>>, inbox) => Sent(r)
       /\ In(r, queue) => Read(r)
       /\ serving = r => Served(r)
       /\ \A i, j \in 1..Len(inbox) : inbox[i] = <<r, 0>> /\ inbox[j] = <<r, 0>> => i = j
  /\ \A i, j \in 1..Len(queue) : queue[i] = queue[j] => i = j

\* The reader waits for a request that was in flight when it read the cancel.
Settling ==
  reader = "settling" =>
    /\ settles[2] # 0
    /\ \A r \in Requests : settles = <<r, 1>> =>
         Served(r) /\ (serving = r => phase \in {"inflight", "written"})

Acks(e, r) == e.id = <<r, 1>> /\ e.kind = "stopped"
Acked(o, r) == \E i \in 1..Len(o) : Acks(o[i], r)
Silent(o, r) == \A k \in 1..Len(o) : o[k].id # <<r, 0>>
AckLast(o, r) ==
  \A i \in 1..Len(o) : Acks(o[i], r) => \A k \in (i + 1)..Len(o) : o[k].id # <<r, 0>>

\* An acknowledgement is written when its target is done, and is the last that
\* is written of it.
AcksFollow ==
  \A r \in Requests :
    /\ AckLast(out, r)
    /\ Acked(out, r) \/ answer[<<r, 1>>] = "stopped" => Over(r)
    /\ answer[<<r, 1>>] = "stopped" => Silent(out, r)

CallInv == CallTypeOK /\ Once /\ Settling /\ AcksFollow

LEMMA InAppended ==
  ASSUME NEW S, NEW s \in Seq(S), NEW y \in S, NEW x
  PROVE  In(x, Append(s, y)) <=> In(x, s) \/ x = y
<1>1. PICK n \in Nat : n = Len(s)
  OBVIOUS
<1>2. /\ Len(Append(s, y)) = n + 1 /\ (\A i \in 1..n : Append(s, y)[i] = s[i]) /\ Append(s, y)[n + 1] = y
  BY <1>1, AppendProperties
<1>3. \A i \in 1..(n + 1) : i \in 1..n \/ i = n + 1
  OBVIOUS
<1>4. \A i \in 1..n : i \in 1..(n + 1) /\ n + 1 \in 1..(n + 1)
  OBVIOUS
<1>5. n + 1 \in 1..(n + 1)
  OBVIOUS
<1> QED
  BY <1>1, <1>2, <1>3, <1>4, <1>5 DEF In

LEMMA InRest ==
  ASSUME NEW S, NEW s \in Seq(S), s # <<>>, NEW x
  PROVE  /\ In(x, Tail(s)) => In(x, s)
         /\ In(Head(s), s)
         /\ (\A i, j \in 1..Len(s) : s[i] = x /\ s[j] = x => i = j) =>
              /\ \A i, j \in 1..Len(Tail(s)) : Tail(s)[i] = x /\ Tail(s)[j] = x => i = j
              /\ x = Head(s) => ~In(x, Tail(s))
<1>1. PICK n \in Nat : Len(s) = n + 1 /\ Len(Tail(s)) = n
  <2>1. Len(s) \in Nat \ {0} /\ Len(Tail(s)) = Len(s) - 1
    BY HeadTailProperties
  <2>2. \A k \in Nat \ {0} : k - 1 \in Nat /\ k = (k - 1) + 1
    OBVIOUS
  <2> QED
    BY <2>1, <2>2
<1>2. Head(s) = s[1] /\ \A i \in 1..n : Tail(s)[i] = s[i + 1]
  BY <1>1, HeadTailProperties
<1>3. 1 \in 1..(n + 1) /\ \A i \in 1..n : i + 1 \in 1..(n + 1) /\ i + 1 # 1 /\ i \in Nat
  OBVIOUS
<1> QED
  BY <1>1, <1>2, <1>3 DEF In

LEMMA OutGrows ==
  ASSUME NEW o \in Seq(Event), NEW e \in Event, NEW r
  PROVE  /\ AckLast(o, r) /\ (e.id = <<r, 0>> => ~Acked(o, r)) => AckLast(Append(o, e), r)
         /\ Acked(Append(o, e), r) => Acked(o, r) \/ Acks(e, r)
         /\ Silent(o, r) /\ e.id # <<r, 0>> => Silent(Append(o, e), r)
<1>1. PICK n \in Nat : n = Len(o)
  OBVIOUS
<1>2. /\ Len(Append(o, e)) = n + 1 /\ (\A i \in 1..n : Append(o, e)[i] = o[i]) /\ Append(o, e)[n + 1] = e
  BY <1>1, AppendProperties
<1>3. \A i \in 1..(n + 1) : i \in 1..n \/ i = n + 1
  OBVIOUS
<1>4. ASSUME AckLast(o, r), e.id = <<r, 0>> => ~Acked(o, r),
             NEW i \in 1..(n + 1), Acks(Append(o, e)[i], r), NEW k \in (i + 1)..(n + 1)
      PROVE  Append(o, e)[k].id # <<r, 0>>
  <2>1. i \in 1..n /\ k \in 1..(n + 1)
    BY <1>4
  <2>2. Acks(o[i], r)
    BY <1>2, <1>4, <2>1
  <2>3. CASE k \in 1..n
    <3>1. k \in (i + 1)..n
      BY <1>4, <2>1, <2>3
    <3> QED
      BY <1>1, <1>2, <1>4, <2>1, <2>2, <2>3, <3>1 DEF AckLast
  <2>4. CASE k = n + 1
    BY <1>1, <1>2, <1>4, <2>1, <2>2, <2>4 DEF Acked
  <2> QED
    BY <1>3, <2>1, <2>3, <2>4
<1>5. AckLast(o, r) /\ (e.id = <<r, 0>> => ~Acked(o, r)) => AckLast(Append(o, e), r)
  BY <1>2, <1>4 DEF AckLast
<1>6. Acked(Append(o, e), r) => Acked(o, r) \/ Acks(e, r)
  BY <1>1, <1>2, <1>3 DEF Acked
<1>7. Silent(o, r) /\ e.id # <<r, 0>> => Silent(Append(o, e), r)
  BY <1>1, <1>2, <1>3 DEF Silent
<1> QED
  BY <1>5, <1>6, <1>7

LEMMA OutShrinks ==
  ASSUME NEW o \in Seq(Event), o # <<>>, NEW r, AckLast(o, r)
  PROVE  /\ AckLast(Tail(o), r)
         /\ Acked(Tail(o), r) => Acked(o, r)
         /\ Silent(o, r) => Silent(Tail(o), r)
         /\ Acks(Head(o), r) => Silent(Tail(o), r) /\ Acked(o, r)
<1>1. PICK n \in Nat : Len(o) = n + 1 /\ Len(Tail(o)) = n
  <2>1. Len(o) \in Nat \ {0} /\ Len(Tail(o)) = Len(o) - 1
    BY HeadTailProperties
  <2>2. \A k \in Nat \ {0} : k - 1 \in Nat /\ k = (k - 1) + 1
    OBVIOUS
  <2> QED
    BY <2>1, <2>2
<1>2. Head(o) = o[1] /\ \A i \in 1..n : Tail(o)[i] = o[i + 1]
  BY <1>1, HeadTailProperties
<1>3. 1 \in 1..(n + 1) /\ \A i \in 1..n : i + 1 \in 1..(n + 1) /\ i + 1 \in (1 + 1)..(n + 1)
  OBVIOUS
<1>4. \A i \in 1..n : \A k \in (i + 1)..n : k \in 1..n /\ k + 1 \in ((i + 1) + 1)..(n + 1)
  OBVIOUS
<1>5. AckLast(Tail(o), r)
  BY <1>1, <1>2, <1>3, <1>4 DEF AckLast
<1>6. Acked(Tail(o), r) => Acked(o, r)
  BY <1>1, <1>2, <1>3 DEF Acked
<1>7. Silent(o, r) => Silent(Tail(o), r)
  BY <1>1, <1>2, <1>3 DEF Silent
<1>8. Acks(Head(o), r) => Silent(Tail(o), r) /\ Acked(o, r)
  BY <1>1, <1>2, <1>3 DEF AckLast, Silent, Acked
<1> QED
  BY <1>5, <1>6, <1>7, <1>8

LEMMA CallBegins == CallInit => CallInv
<1> SUFFICES ASSUME CallInit PROVE CallInv
  OBVIOUS
<1>1. CallTypeOK
  BY CallTypesBegin
<1>2. /\ inbox = <<>> /\ queue = <<>> /\ out = <<>> /\ reader = "reading" /\ serving = 0
      /\ \A f \in Frames : answer[f] = "none"
  BY DEF CallInit
<1>3. Once
  <2>1. \A r \in Requests : r # 0
    BY FramesAre DEF Quit
  <2> QED
    BY <1>2, <2>1 DEF Once, In
<1>4. Settling
  BY <1>2 DEF Settling
<1>5. AcksFollow
  <2>1. \A r \in Requests : <<r, 1>> \in Frames
    <3>1. 1 \in 0..2
      OBVIOUS
    <3> QED
      BY <3>1, FramesAre
  <2>2. \A r \in Requests : answer[<<r, 1>>] # "stopped"
    BY <1>2, <2>1
  <2>3. \A r : AckLast(out, r) /\ ~Acked(out, r)
    BY <1>2 DEF AckLast, Acked
  <2> QED
    BY <2>2, <2>3 DEF AcksFollow
<1> QED
  BY <1>1, <1>3, <1>4, <1>5 DEF CallInv

\* A step in which neither pipe nor the worker's threads take part.
LEMMA CallerMoves ==
  ASSUME CallInv, CallTypeOK', UNCHANGED <<inbox, out, pyVars>>,
         \A r \in Requests : Sent(r) => Sent(r)',
         \A r \in Requests : answer'[<<r, 1>>] = "stopped" => answer[<<r, 1>>] = "stopped"
  PROVE  CallInv'
<1>1. UNCHANGED <<inbox, out, reader, settles, queue, serving, phase>>
  BY DEF pyVars
<1>2. \A r \in Requests : (Read(r) => Read(r)') /\ (Served(r) => Served(r)') /\ (Over(r) => Over(r)')
  BY <1>1 DEF Read, Served, Over
<1>3. Once'
  BY <1>1, <1>2 DEF CallInv, Once
<1>4. Settling'
  BY <1>1, <1>2 DEF CallInv, Settling
<1>5. AcksFollow'
  BY <1>1, <1>2 DEF CallInv, AcksFollow
<1> QED
  BY <1>3, <1>4, <1>5 DEF CallInv

LEMMA CallerKeeps ==
  ASSUME CallInv, NEW r \in Calls, Start(r) \/ (CallStep(r) /\ ~Send(r))
  PROVE  CallInv'
<1>1. CallTypeOK /\ CallTypeOK'
  BY CallerTypes DEF CallInv
<1>2. UNCHANGED <<inbox, out, pyVars>>
  BY DEF Start, CallStep, Enter, Register, Answered, SeeExit, GiveUpWaiting, Return
<1>3. /\ where \in [Calls -> {"idle", "enter", "register", "send", "wait", "returned", "killing", "over"}]
      /\ top \in [Calls -> 0..2] /\ Requests \subseteq Calls
  BY <1>1, FramesAre DEF CallTypeOK
<1>4. ASSUME NEW q \in Requests, Sent(q) PROVE Sent(q)'
  <2>1. CASE Start(r)
    BY <1>3, <1>4, <2>1 DEF Start, Goes, Sent
  <2>2. CASE Enter(r)
    BY <1>3, <1>4, <2>2 DEF Enter, Goes, Sent
  <2>3. CASE Register(r)
    BY <1>3, <1>4, <2>3 DEF Register, Goes, Sent
  <2>4. CASE Answered(r) \/ SeeExit(r)
    BY <1>3, <1>4, <2>4 DEF Answered, SeeExit, Goes, Sent
  <2>5. CASE GiveUpWaiting(r)
    BY <1>3, <1>4, <2>5 DEF GiveUpWaiting, Goes, Sent
  <2>6. CASE Return(r)
    BY <1>3, <1>4, <2>6 DEF Return, Goes, Sent
  <2> QED
    BY <2>1, <2>2, <2>3, <2>4, <2>5, <2>6 DEF CallStep
<1>5. ASSUME NEW q \in Requests, answer'[<<q, 1>>] = "stopped" PROVE answer[<<q, 1>>] = "stopped"
  <2>1. CASE UNCHANGED answer
    BY <1>5, <2>1
  <2>2. 1 \in 0..2
    OBVIOUS
  <2>3. <<q, 1>> \in Frames
    BY <1>3, <2>2, FramesAre
  <2>4. CASE Register(r)
    BY <1>1, <1>5, <2>3, <2>4 DEF Register, CallTypeOK
  <2>5. CASE Return(r)
    BY <1>1, <1>5, <2>3, <2>5 DEF Return, CallTypeOK
  <2> QED
    BY <2>1, <2>4, <2>5 DEF Start, CallStep, Enter, Answered, SeeExit, GiveUpWaiting
<1> QED
  BY <1>1, <1>2, <1>4, <1>5, CallerMoves

\* A data request is written once.
LEMMA SendKeeps ==
  ASSUME CallInv, NEW r \in Calls, Send(r)
  PROVE  CallInv'
<1>1. CallTypeOK /\ CallTypeOK' /\ Once /\ Settling /\ AcksFollow
  BY CallerTypes DEF CallInv, CallStep
<1>2. /\ where[r] = "send" /\ UNCHANGED <<top, answer, out, reader, settles, queue, serving, phase>>
  BY DEF Send, pyVars
<1>3. /\ where \in [Calls -> {"idle", "enter", "register", "send", "wait", "returned", "killing", "over"}]
      /\ top \in [Calls -> 0..2] /\ Requests \subseteq Calls /\ inbox \in Seq(Frames) /\ Frame(r) \in Frames
  BY <1>1, FramesAre DEF CallTypeOK, Frame
<1>4. /\ where'[r] \in {"returned", "wait"} /\ \A q \in Calls \ {r} : where'[q] = where[q]
  BY <1>3 DEF Send, Goes
<1>5. \A q \in Requests : Sent(q) => Sent(q)'
  BY <1>2, <1>3, <1>4 DEF Sent
<1>6. CASE UNCHANGED inbox
  BY <1>1, <1>2, <1>5, <1>6, CallerMoves DEF CallInv, pyVars
<1>7. CASE inbox' = Append(inbox, Frame(r)) /\ where'[r] = "wait"
  <2>1. \A x : In(x, inbox') <=> In(x, inbox) \/ x = Frame(r)
    BY <1>3, <1>7, InAppended
  <2>2. ASSUME NEW q \in Requests, Frame(r) = <<q, 0>>
        PROVE  q = r /\ ~Sent(q) /\ Sent(q)'
    <3>1. q = r /\ top[r] = 0
      BY <2>2 DEF Frame
    <3> QED
      BY <1>2, <1>7, <3>1 DEF Sent
  <2>3. ASSUME NEW q \in Requests
        PROVE  (Read(q) => Read(q)') /\ (Served(q) => Served(q)') /\ (Over(q) => Over(q)')
    <3>1. Read(q) => Read(q)'
      <4>1. Sent(q) => Frame(r) # <<q, 0>>
        BY <2>2
      <4> QED
        BY <1>5, <2>1, <4>1 DEF Read
    <3> QED
      BY <1>2, <3>1 DEF Served, Over
  <2>4. Once'
    <3>1. ASSUME NEW q \in Requests
          PROVE  /\ In(<<q, 0>>, inbox') => Sent(q)'
                 /\ In(q, queue') => Read(q)'
                 /\ serving' = q => Served(q)'
                 /\ \A i, j \in 1..Len(inbox') : inbox'[i] = <<q, 0>> /\ inbox'[j] = <<q, 0>> => i = j
      <4>1. In(<<q, 0>>, inbox') => Sent(q)'
        BY <1>1, <1>5, <2>1, <2>2 DEF Once
      <4>2. In(q, queue') => Read(q)'
        BY <1>1, <1>2, <2>3 DEF Once
      <4>3. serving' = q => Served(q)'
        BY <1>1, <1>2, <2>3 DEF Once
      <4>4. ASSUME NEW i \in 1..Len(inbox'), NEW j \in 1..Len(inbox'), inbox'[i] = <<q, 0>>, inbox'[j] = <<q, 0>>
            PROVE  i = j
        <5>1. PICK n \in Nat : n = Len(inbox)
          BY <1>3
        <5>2. /\ Len(inbox') = n + 1 /\ inbox'[n + 1] = Frame(r)
              /\ \A k \in 1..n : inbox'[k] = inbox[k]
          BY <1>3, <1>7, <5>1, AppendProperties
        <5>3. \A k \in 1..(n + 1) : k \in 1..n \/ k = n + 1
          OBVIOUS
        <5>4. CASE Frame(r) = <<q, 0>>
          <6>1. ~In(<<q, 0>>, inbox)
            BY <1>1, <2>2, <5>4 DEF Once
          <6> QED
            BY <4>4, <5>1, <5>2, <5>3, <6>1 DEF In
        <5>5. CASE Frame(r) # <<q, 0>>
          <6>1. i \in 1..n /\ j \in 1..n
            BY <4>4, <5>2, <5>3, <5>5
          <6> QED
            BY <1>1, <4>4, <5>1, <5>2, <6>1 DEF Once
        <5> QED
          BY <5>4, <5>5
      <4> QED
        BY <4>1, <4>2, <4>3, <4>4
    <3> QED
      BY <1>1, <1>2, <3>1 DEF Once
  <2>5. Settling'
    BY <1>1, <1>2, <2>3 DEF Settling
  <2>6. AcksFollow'
    BY <1>1, <1>2, <2>3 DEF AcksFollow
  <2> QED
    BY <1>1, <2>4, <2>5, <2>6 DEF CallInv
<1>8. CASE proc = "alive" /\ reader # "stopped"
  <2>1. inbox' = Append(inbox, Frame(r)) /\ where' = [where EXCEPT ![r] = "wait"]
    BY <1>8 DEF Send, Goes
  <2> QED
    BY <1>3, <1>7, <2>1
<1>9. CASE ~(proc = "alive" /\ reader # "stopped")
  BY <1>6, <1>9 DEF Send
<1> QED
  BY <1>8, <1>9

\* A step that only takes events out of the pipe.
LEMMA EventsGo ==
  ASSUME CallInv, CallTypeOK', UNCHANGED <<where, top, inbox, pyVars>>,
         \A r \in Requests : /\ AckLast(out', r)
                             /\ Acked(out', r) => Acked(out, r)
                             /\ answer'[<<r, 1>>] = "stopped" =>
                                  (Acked(out, r) \/ answer[<<r, 1>>] = "stopped") /\ Silent(out', r)
  PROVE  CallInv'
<1>1. UNCHANGED <<where, top, inbox, reader, settles, queue, serving, phase>>
  BY DEF pyVars
<1>2. \A r \in Requests : (Read(r) => Read(r)') /\ (Served(r) => Served(r)') /\ (Over(r) => Over(r)')
                          /\ (Sent(r) => Sent(r)')
  BY <1>1 DEF Read, Served, Over, Sent
<1>3. Once'
  BY <1>1, <1>2 DEF CallInv, Once
<1>4. Settling'
  BY <1>1, <1>2 DEF CallInv, Settling
<1>5. AcksFollow'
  BY <1>2 DEF CallInv, AcksFollow
<1> QED
  BY <1>3, <1>4, <1>5 DEF CallInv

LEMMA ReaderKeeps ==
  ASSUME CallInv, Kill \/ ReadEvent \/ Malformed \/ OverlongLine \/ Reap
  PROVE  CallInv'
<1>1. CallTypeOK /\ CallTypeOK' /\ AcksFollow
  BY ReaderTypes DEF CallInv
<1>2. \A r \in Requests : <<r, 1>> \in Frames
  <2>1. 1 \in 0..2
    OBVIOUS
  <2> QED
    BY <2>1, FramesAre
<1>3. CASE Kill
  <2>1. UNCHANGED <<inbox, out, pyVars, top, answer>> /\ where' = [where EXCEPT ![Quit] = "over"]
    BY <1>3 DEF Kill, Goes
  <2>2. \A r \in Requests : where'[r] = where[r]
    BY <1>1, <2>1, FramesAre DEF CallTypeOK
  <2> QED
    BY <1>1, <2>1, <2>2, CallerMoves DEF Sent
<1>4. CASE ReadEvent
  <2> DEFINE e == Head(out)
  <2>1. /\ out # <<>> /\ out' = Tail(out) /\ out \in Seq(Event) /\ e \in Event
        /\ UNCHANGED <<where, top, inbox, pyVars>>
    BY <1>1, <1>4 DEF ReadEvent, CallTypeOK
  <2>2. ASSUME NEW r \in Requests, answer'[<<r, 1>>] = "stopped"
        PROVE  answer[<<r, 1>>] = "stopped" \/ Acks(e, r)
    <3>1. CASE UNCHANGED answer
      BY <2>2, <3>1
    <3>2. CASE answer' = [answer EXCEPT ![e.id] = e.kind]
      <4>1. CASE e.id = <<r, 1>>
        BY <1>1, <1>2, <2>2, <3>2, <4>1 DEF Acks, CallTypeOK
      <4>2. CASE e.id # <<r, 1>>
        BY <1>1, <1>2, <2>2, <3>2, <4>2 DEF CallTypeOK
      <4> QED
        BY <4>1, <4>2
    <3> QED
      BY <1>4, <3>1, <3>2 DEF ReadEvent
  <2>3. ASSUME NEW r \in Requests
        PROVE  /\ AckLast(out', r)
               /\ Acked(out', r) => Acked(out, r)
               /\ answer'[<<r, 1>>] = "stopped" =>
                    (Acked(out, r) \/ answer[<<r, 1>>] = "stopped") /\ Silent(out', r)
    <3>1. AckLast(out, r) /\ (answer[<<r, 1>>] = "stopped" => Silent(out, r))
      BY <1>1 DEF AcksFollow
    <3> QED
      BY <2>1, <2>2, <3>1, OutShrinks
  <2> QED
    BY <1>1, <2>1, <2>3, EventsGo
<1>5. CASE Malformed \/ OverlongLine
  <2>1. out' = <<>> /\ UNCHANGED <<where, top, inbox, pyVars, answer>>
    BY <1>5 DEF Malformed, OverlongLine
  <2>2. \A r : AckLast(out', r) /\ ~Acked(out', r) /\ Silent(out', r)
    BY <2>1 DEF AckLast, Acked, Silent
  <2> QED
    BY <1>1, <2>1, <2>2, EventsGo
<1>6. CASE Reap
  <2>1. PICK left \in {0, 1} : out' = SubSeq(out, 1, IF out = <<>> THEN 0 ELSE left)
    BY <1>6 DEF Reap
  <2>2. out' = <<>> \/ (out # <<>> /\ Len(out') = 1 /\ out'[1] = out[1] /\ 1 \in 1..Len(out))
    <3>1. out \in Seq(Event)
      BY <1>1 DEF CallTypeOK
    <3>2. CASE out = <<>> \/ left = 0
      BY <2>1, <3>1, <3>2, SubSeqEmpty
    <3>3. CASE out # <<>> /\ left = 1
      <4>1. out' = SubSeq(out, 1, 1) /\ Len(out) \in Nat \ {0}
        BY <2>1, <3>1, <3>3
      <4>2. Len(SubSeq(out, 1, 1)) = 1 /\ SubSeq(out, 1, 1)[1] = out[1]
        BY <3>1, <4>1
      <4> QED
        BY <3>3, <4>1, <4>2
    <3> QED
      BY <3>2, <3>3
  <2>3. UNCHANGED <<where, top, inbox, pyVars>>
    BY <1>6 DEF Reap
  <2>4. \A r \in Requests : answer'[<<r, 1>>] = "stopped" => answer[<<r, 1>>] = "stopped"
    BY <1>2, <1>6 DEF Reap
  <2>5. \A r : AckLast(out', r) /\ (Acked(out', r) => Acked(out, r)) /\ (Silent(out, r) => Silent(out', r))
    <3>1. CASE out' = <<>>
      BY <3>1 DEF AckLast, Acked, Silent
    <3>2. CASE out # <<>> /\ Len(out') = 1 /\ out'[1] = out[1] /\ 1 \in 1..Len(out)
      BY <3>2 DEF AckLast, Acked, Silent
    <3> QED
      BY <2>2, <3>1, <3>2
  <2> QED
    BY <1>1, <2>3, <2>4, <2>5, EventsGo DEF AcksFollow
<1> QED
  BY <1>3, <1>4, <1>5, <1>6

\* A step that writes an event, heard or not, and leaves the pipe to the worker and the
\* requests in it where they are or lets them go further.
LEMMA EventWritten ==
  ASSUME CallInv, CallTypeOK', UNCHANGED answer, NEW e \in Event,
         out' = IF heard THEN Append(out, e) ELSE out,
         \A r \in Requests : /\ Over(r) => Over(r)'
                             /\ e.id = <<r, 0>> => ~Over(r)
                             /\ Acks(e, r) => Over(r)'
  PROVE  AcksFollow'
<1> SUFFICES ASSUME NEW r \in Requests
             PROVE  /\ AckLast(out', r)
                    /\ Acked(out', r) \/ answer'[<<r, 1>>] = "stopped" => Over(r)'
                    /\ answer'[<<r, 1>>] = "stopped" => Silent(out', r)
  BY DEF AcksFollow
<1>1. /\ AckLast(out, r) /\ (Acked(out, r) \/ answer[<<r, 1>>] = "stopped" => Over(r))
      /\ (answer[<<r, 1>>] = "stopped" => Silent(out, r)) /\ out \in Seq(Event)
  BY DEF CallInv, AcksFollow, CallTypeOK
<1>2. /\ AckLast(out, r) /\ (e.id = <<r, 0>> => ~Acked(out, r)) => AckLast(Append(out, e), r)
      /\ Acked(Append(out, e), r) => Acked(out, r) \/ Acks(e, r)
      /\ Silent(out, r) /\ e.id # <<r, 0>> => Silent(Append(out, e), r)
  BY <1>1, OutGrows
<1> QED
  BY <1>1, <1>2

LEMMA NothingWritten ==
  ASSUME CallInv, UNCHANGED <<answer, out>>, \A r \in Requests : Over(r) => Over(r)'
  PROVE  AcksFollow'
BY DEF CallInv, AcksFollow

\* The reader thread.
LEMMA ReadRequestKeeps ==
  ASSUME CallInv, ReadRequest
  PROVE  CallInv'
<1> DEFINE f == Head(inbox)
<1>1. CallTypeOK /\ CallTypeOK' /\ Once /\ Settling /\ AcksFollow
  BY ProcessTypes DEF CallInv
<1>2. /\ inbox # <<>> /\ inbox' = Tail(inbox) /\ inbox \in Seq(Frames) /\ f \in Frames /\ reader = "reading"
      /\ UNCHANGED <<where, top, answer, serving, phase>>
  BY <1>1 DEF ReadRequest, CallTypeOK, goVars
<1>3. \A r \in Requests : Sent(r)' <=> Sent(r)
  BY <1>2 DEF Sent
<1>4. ASSUME NEW r \in Requests
      PROVE  /\ In(<<r, 0>>, inbox') => In(<<r, 0>>, inbox)
             /\ In(f, inbox)
             /\ \A i, j \in 1..Len(inbox') : inbox'[i] = <<r, 0>> /\ inbox'[j] = <<r, 0>> => i = j
             /\ f = <<r, 0>> => ~In(<<r, 0>>, inbox')
  <2>1. \A i, j \in 1..Len(inbox) : inbox[i] = <<r, 0>> /\ inbox[j] = <<r, 0>> => i = j
    BY <1>1 DEF Once
  <2>2. inbox \in Seq(Frames) /\ inbox # <<>>
    BY <1>2
  <2>3. In(<<r, 0>>, Tail(inbox)) => In(<<r, 0>>, inbox)
    BY <2>2, InRest
  <2>4. In(f, inbox)
    BY <2>2, InRest
  <2>5. /\ \A i, j \in 1..Len(Tail(inbox)) : Tail(inbox)[i] = <<r, 0>> /\ Tail(inbox)[j] = <<r, 0>> => i = j
        /\ <<r, 0>> = f => ~In(<<r, 0>>, Tail(inbox))
    BY <2>1, <2>2, InRest
  <2> QED
    BY <1>2, <2>3, <2>4, <2>5
<1>5. \A r \in Requests : Read(r) => Read(r)'
  BY <1>3, <1>4 DEF Read
<1>6. ASSUME UNCHANGED queue
      PROVE  /\ Once'
             /\ \A r \in Requests : (Served(r) => Served(r)') /\ (Over(r) => Over(r)')
  <2>1. \A r \in Requests : (Served(r) => Served(r)') /\ (Over(r) => Over(r)')
    BY <1>2, <1>5, <1>6 DEF Served, Over
  <2>2. Once'
    BY <1>1, <1>2, <1>3, <1>4, <1>5, <1>6, <2>1 DEF Once
  <2> QED
    BY <2>1, <2>2
<1>7. CASE Enqueue(f)
  <2>1. /\ f[1] \in Requests /\ f = <<f[1], 0>> /\ UNCHANGED <<reader, settles>>
    <3>1. f[1] # Quit /\ ~(f[2] > 0) /\ UNCHANGED <<reader, settles>>
      BY <1>7 DEF Enqueue, IsControlMethod
    <3>2. f[1] \in Calls /\ f[2] \in 0..2 /\ f = <<f[1], f[2]>>
      BY <1>2, FramesAre
    <3>3. f[2] = 0
      BY <3>1, <3>2
    <3> QED
      BY <3>1, <3>2, <3>3 DEF Calls
  <2>2. Settling'
    BY <1>2, <2>1 DEF Settling
  <2>3. PICK q \in Requests : q = f[1] /\ f = <<q, 0>>
    BY <2>1
  <2>4. /\ In(<<q, 0>>, inbox) /\ ~In(<<q, 0>>, inbox') /\ Sent(q) /\ ~Read(q)
    BY <1>1, <1>4, <2>3 DEF Once, Read
  <2>5. CASE queue' = Append(queue, f[1]) /\ UNCHANGED out
    <3>1. queue \in Seq(Requests) /\ queue' = Append(queue, q)
      BY <1>1, <2>3, <2>5 DEF CallTypeOK
    <3>2. \A x : In(x, queue') <=> In(x, queue) \/ x = q
      BY <3>1, InAppended
    <3>3. ASSUME NEW r \in Requests PROVE (Served(r) => Served(r)') /\ (Over(r) => Over(r)')
      <4>1. Served(r) => r # q
        BY <2>4 DEF Served
      <4> QED
        BY <1>2, <1>5, <3>2, <4>1 DEF Served, Over
    <3>4. ~In(q, queue)
      BY <1>1, <2>4 DEF Once
    <3>5. \A i, j \in 1..Len(queue') : queue'[i] = queue'[j] => i = j
      <4>1. PICK n \in Nat : n = Len(queue)
        BY <3>1
      <4>2. /\ Len(queue') = n + 1 /\ queue'[n + 1] = q
            /\ \A k \in 1..n : queue'[k] = queue[k] /\ queue[k] # q
        BY <3>1, <3>4, <4>1, AppendProperties DEF In
      <4>3. \A k \in 1..(n + 1) : k \in 1..n \/ k = n + 1
        OBVIOUS
      <4> QED
        BY <1>1, <4>1, <4>2, <4>3 DEF Once
    <3>6. Read(q)'
      BY <1>3, <2>4 DEF Read
    <3>7. Once'
      BY <1>1, <1>2, <1>3, <1>4, <1>5, <3>2, <3>3, <3>5, <3>6 DEF Once
    <3>8. AcksFollow'
      BY <1>2, <2>5, <3>3, NothingWritten
    <3> QED
      BY <1>1, <2>2, <3>7, <3>8 DEF CallInv
  <2>6. CASE write(f, "full") /\ UNCHANGED queue
    <3>1. PICK e \in Event : e = [id |-> f, kind |-> "full"]
      BY <1>2, EventsAre
    <3>2. out' = (IF heard THEN Append(out, e) ELSE out) /\ e.id = f /\ e.kind = "full"
      BY <2>6, <3>1 DEF write
    <3>3. \A r \in Requests : (e.id = <<r, 0>> => ~Over(r)) /\ ~Acks(e, r)
      <4>1. ~Over(q)
        BY <2>4 DEF Over, Served
      <4>2. \A r \in Requests : f = <<r, 0>> => r = q
        BY <2>3
      <4> QED
        BY <3>2, <4>1, <4>2 DEF Acks
    <3>4. AcksFollow'
      BY <1>1, <1>2, <1>6, <2>6, <3>2, <3>3, EventWritten
    <3> QED
      BY <1>1, <1>6, <2>2, <2>6, <3>4 DEF CallInv
  <2> QED
    BY <1>7, <2>5, <2>6 DEF Enqueue
<1>8. CASE cancel(f)
  <2>1. f[2] > 0 /\ UNCHANGED queue
    BY <1>8 DEF cancel
  <2>2. f[2] # 0 /\ \A r \in Requests : f # <<r, 0>>
    BY <2>1
  <2>3. CASE InFlight(TargetOf(f)) /\ reader' = "settling" /\ settles' = f /\ UNCHANGED out
    <3>1. AcksFollow'
      BY <1>2, <1>6, <2>1, <2>3, NothingWritten
    <3>2. ASSUME NEW r \in Requests, f = <<r, 1>> PROVE Served(r)' /\ serving' = r /\ phase' \in {"inflight", "written"}
      <4>1. TargetOf(f) = <<r, 0>>
        BY <3>2 DEF TargetOf
      <4>2. <<r, 0>> = <<serving, 0>> /\ phase \in {"inflight", "written"}
        BY <2>3, <4>1 DEF InFlight
      <4>3. serving = r
        BY <4>2
      <4> QED
        BY <1>1, <1>2, <1>6, <2>1, <4>2, <4>3 DEF Once
    <3>3. Settling'
      BY <2>2, <2>3, <3>2 DEF Settling
    <3> QED
      BY <1>1, <1>6, <2>1, <3>1, <3>3 DEF CallInv
  <2>4. CASE write(f, "missed") /\ UNCHANGED <<reader, settles>>
    <3>1. PICK e \in Event : e = [id |-> f, kind |-> "missed"]
      BY <1>2, EventsAre
    <3>2. out' = (IF heard THEN Append(out, e) ELSE out) /\ e.id = f /\ e.kind = "missed"
      BY <2>4, <3>1 DEF write
    <3>3. AcksFollow'
      BY <1>1, <1>2, <1>6, <2>1, <2>2, <3>2, EventWritten DEF Acks
    <3>4. Settling'
      BY <1>2, <2>4 DEF Settling
    <3> QED
      BY <1>1, <1>6, <2>1, <3>3, <3>4 DEF CallInv
  <2> QED
    BY <1>8, <2>3, <2>4 DEF cancel
<1>9. CASE shutdown(f)
  <2>1. f = <<Quit, 0>> /\ write(f, "done") /\ reader' = "stopped" /\ UNCHANGED queue
    BY <1>9 DEF shutdown
  <2>2. \A r \in Requests : f # <<r, 0>>
    BY <2>1, FramesAre
  <2>3. PICK e \in Event : e = [id |-> f, kind |-> "done"]
    BY <1>2, EventsAre
  <2>4. out' = (IF heard THEN Append(out, e) ELSE out) /\ e.id = f /\ e.kind = "done"
    BY <2>1, <2>3 DEF write
  <2>5. AcksFollow'
    BY <1>1, <1>2, <1>6, <2>1, <2>2, <2>4, EventWritten DEF Acks
  <2>6. Settling'
    BY <2>1 DEF Settling
  <2> QED
    BY <1>1, <1>6, <2>1, <2>5, <2>6 DEF CallInv
<1> QED
  BY <1>7, <1>8, <1>9 DEF ReadRequest

\* An event that answers no data request and acknowledges nothing, or nothing
\* that is not done.
LEMMA ReaderWrites ==
  ASSUME CallInv, Fatal \/ Settle
  PROVE  CallInv'
<1>1. CallTypeOK /\ CallTypeOK' /\ Once /\ Settling /\ AcksFollow
  BY ProcessTypes DEF CallInv
<1>2. /\ UNCHANGED <<where, top, answer, inbox, queue, serving, phase, settles>>
      /\ reader' # "settling"
  BY DEF Fatal, Settle, goVars
<1>3. \A r \in Requests : /\ Sent(r)' <=> Sent(r)
                          /\ Read(r)' <=> Read(r)
                          /\ Served(r)' <=> Served(r)
                          /\ Over(r)' <=> Over(r)
  BY <1>2 DEF Sent, Read, Served, Over
<1>4. Once'
  BY <1>1, <1>2, <1>3 DEF Once
<1>5. Settling'
  BY <1>2 DEF Settling
<1>6. CASE Fatal
  <2>1. PICK e \in Event : e = [id |-> <<Quit, 0>>, kind |-> "fatal"]
    BY DEF Event
  <2>2. out' = (IF heard THEN Append(out, e) ELSE out) /\ e.id = <<Quit, 0>> /\ e.kind = "fatal"
    BY <1>6, <2>1 DEF Fatal, write
  <2>3. \A r \in Requests : e.id # <<r, 0>>
    BY <2>2, FramesAre
  <2>4. AcksFollow'
    BY <1>1, <1>2, <1>3, <2>2, <2>3, EventWritten DEF Acks
  <2> QED
    BY <1>1, <1>4, <1>5, <2>4 DEF CallInv
<1>7. CASE Settle
  <2>1. /\ reader = "settling" /\ settles \in Frames
        /\ write(settles, IF InFlight(TargetOf(settles)) THEN "running" ELSE "stopped")
    BY <1>1, <1>7 DEF Settle, CallTypeOK
  <2>2. PICK e \in Event : e = [id |-> settles, kind |-> IF InFlight(TargetOf(settles)) THEN "running" ELSE "stopped"]
    <3>1. CASE InFlight(TargetOf(settles))
      BY <2>1, <3>1, EventsAre
    <3>2. CASE ~InFlight(TargetOf(settles))
      BY <2>1, <3>2, EventsAre
    <3> QED
      BY <3>1, <3>2
  <2>3. /\ out' = (IF heard THEN Append(out, e) ELSE out) /\ e.id = settles
        /\ e.kind = "stopped" => ~InFlight(TargetOf(settles))
    BY <2>1, <2>2 DEF write
  <2>4. \A r \in Requests : e.id # <<r, 0>>
    BY <1>1, <2>1, <2>3 DEF Settling
  <2>5. ASSUME NEW r \in Requests, Acks(e, r) PROVE Over(r)
    <3>1. settles = <<r, 1>> /\ ~InFlight(TargetOf(settles))
      BY <2>3, <2>5 DEF Acks
    <3>2. TargetOf(settles) = <<r, 0>>
      BY <3>1 DEF TargetOf
    <3>3. Served(r) /\ (serving = r => phase \in {"inflight", "written"})
      BY <1>1, <2>1, <3>1 DEF Settling
    <3>4. serving # r
      BY <3>1, <3>2, <3>3 DEF InFlight
    <3> QED
      BY <3>3, <3>4 DEF Over
  <2>6. AcksFollow'
    BY <1>1, <1>2, <1>3, <2>3, <2>4, <2>5, EventWritten
  <2> QED
    BY <1>1, <1>4, <1>5, <2>6 DEF CallInv
<1> QED
  BY <1>6, <1>7

\* The data thread takes the oldest request, which is in the queue no more.
LEMMA TakeKeeps ==
  ASSUME CallInv, Take
  PROVE  CallInv'
<1>1. CallTypeOK /\ CallTypeOK' /\ Once /\ Settling /\ AcksFollow
  BY ThreadTypes DEF CallInv
<1>2. /\ UNCHANGED <<where, top, answer, inbox, out, reader, settles>>
      /\ serving' = Head(queue) /\ queue' = Tail(queue) /\ queue # <<>> /\ queue \in Seq(Requests)
  BY <1>1 DEF Take, goVars, CallTypeOK
<1>3. \A r \in Requests : (Sent(r)' <=> Sent(r)) /\ (Read(r)' <=> Read(r))
  BY <1>2 DEF Sent, Read
<1>4. ASSUME NEW x
      PROVE  /\ In(x, queue') => In(x, queue)
             /\ In(Head(queue), queue)
             /\ x = Head(queue) => ~In(x, queue')
  <2>1. \A i, j \in 1..Len(queue) : queue[i] = x /\ queue[j] = x => i = j
    BY <1>1 DEF Once
  <2>2. In(x, Tail(queue)) => In(x, queue)
    BY <1>2, InRest
  <2>3. In(Head(queue), queue)
    BY <1>2, InRest
  <2>4. x = Head(queue) => ~In(x, Tail(queue))
    BY <1>2, <2>1, InRest
  <2> QED
    BY <1>2, <2>2, <2>3, <2>4
<1>5. \A r \in Requests : Served(r) => Served(r)' /\ serving' # r
  BY <1>2, <1>3, <1>4 DEF Served
<1>6. \A r \in Requests : Over(r) => Over(r)'
  BY <1>5 DEF Over
<1>7. \A i, j \in 1..Len(queue') : queue'[i] = queue'[j] => i = j
  <2>1. PICK n \in Nat : Len(queue) = n + 1 /\ Len(Tail(queue)) = n
    <3>1. Len(queue) \in Nat \ {0} /\ Len(Tail(queue)) = Len(queue) - 1
      BY <1>2, HeadTailProperties
    <3>2. \A k \in Nat \ {0} : k - 1 \in Nat /\ k = (k - 1) + 1
      OBVIOUS
    <3> QED
      BY <3>1, <3>2
  <2>2. \A i \in 1..n : Tail(queue)[i] = queue[i + 1]
    BY <1>2, <2>1, HeadTailProperties
  <2>3. \A i, j \in 1..n : i + 1 \in 1..(n + 1) /\ (i + 1 = j + 1 => i = j)
    OBVIOUS
  <2> QED
    BY <1>1, <1>2, <2>1, <2>2, <2>3 DEF Once
<1>8. ASSUME NEW r \in Requests, serving' = r PROVE Served(r)'
  <2>1. In(r, queue) /\ ~In(r, queue')
    BY <1>2, <1>4, <1>8
  <2>2. Read(r)
    BY <1>1, <2>1 DEF Once
  <2> QED
    BY <1>3, <2>1, <2>2 DEF Served
<1>9. Once'
  BY <1>1, <1>2, <1>3, <1>4, <1>7, <1>8 DEF Once
<1>10. Settling'
  BY <1>1, <1>2, <1>5 DEF Settling
<1>11. AcksFollow'
  BY <1>2, <1>6, NothingWritten
<1> QED
  BY <1>1, <1>9, <1>10, <1>11 DEF CallInv

\* The data thread goes on with the request it has.
LEMMA ServingKeeps ==
  ASSUME CallInv, Admit \/ WriteTerminal \/ Finish
  PROVE  CallInv'
<1>1. CallTypeOK /\ CallTypeOK' /\ Once /\ Settling /\ AcksFollow
  BY ThreadTypes DEF CallInv
<1>2. UNCHANGED <<where, top, answer, inbox, reader, settles, queue>>
  BY DEF Admit, WriteTerminal, Finish, goVars
<1>3. \A r \in Requests : /\ Sent(r)' <=> Sent(r)
                          /\ Read(r)' <=> Read(r)
                          /\ Served(r)' <=> Served(r)
  BY <1>2 DEF Sent, Read, Served
<1>4. \A r \in Requests : serving' = r => serving = r /\ phase' \in {"inflight", "written"}
  <2>1. \A r \in Requests : r # 0
    BY FramesAre DEF Quit
  <2> QED
    BY <2>1 DEF Admit, WriteTerminal, Finish
<1>5. \A r \in Requests : Over(r) => Over(r)'
  BY <1>3, <1>4 DEF Over
<1>6. Once'
  BY <1>1, <1>2, <1>3, <1>4 DEF Once
<1>7. Settling'
  BY <1>1, <1>2, <1>3, <1>4 DEF Settling
<1>8. CASE Admit \/ Finish
  <2>1. UNCHANGED out
    BY <1>8 DEF Admit, Finish
  <2> QED
    BY <1>1, <1>2, <1>5, <1>6, <1>7, <2>1, NothingWritten DEF CallInv
<1>9. CASE WriteTerminal
  <2>1. <<serving, 0>> \in Frames
    <3>1. 0 \in 0..2 /\ serving \in Calls
      BY <1>1 DEF CallTypeOK, Calls, Quit
    <3> QED
      BY <3>1, FramesAre
  <2>2. PICK e \in Event : e = [id |-> <<serving, 0>>, kind |-> "done"]
    BY <2>1, EventsAre
  <2>3. out' = (IF heard THEN Append(out, e) ELSE out) /\ e.id = <<serving, 0>> /\ e.kind = "done"
    BY <1>9, <2>2 DEF WriteTerminal, write
  <2>4. \A r \in Requests : (e.id = <<r, 0>> => ~Over(r)) /\ ~Acks(e, r)
    <3>1. \A r \in Requests : e.id = <<r, 0>> => serving = r
      BY <2>3
    <3> QED
      BY <2>3, <3>1 DEF Over, Acks
  <2>5. AcksFollow'
    BY <1>1, <1>2, <1>5, <2>3, <2>4, EventWritten
  <2> QED
    BY <1>1, <1>6, <1>7, <2>5 DEF CallInv
<1> QED
  BY <1>8, <1>9

LEMMA CallInvStep == CallInv /\ [CallNext]_callVars => CallInv'
<1> SUFFICES ASSUME CallInv, [CallNext]_callVars PROVE CallInv'
  OBVIOUS
<1>1. ASSUME NEW r \in Calls, Start(r) \/ CallStep(r) PROVE CallInv'
  BY <1>1, CallerKeeps, SendKeeps
<1>2. CASE Exit \/ Crash \/ Wedge \/ UNCHANGED callVars
  <2>1. CallTypeOK'
    BY CallTypesStep DEF CallInv
  <2>2. UNCHANGED <<inbox, out, pyVars, where, top, answer>>
    BY <1>2 DEF Exit, Crash, Wedge, callVars, goVars
  <2>3. \A r \in Requests : Sent(r) => Sent(r)'
    BY <2>2 DEF Sent
  <2> QED
    BY <2>1, <2>2, <2>3, CallerMoves
<1>3. CASE Kill \/ ReadEvent \/ Malformed \/ OverlongLine \/ Reap
  BY <1>3, ReaderKeeps
<1>4. CASE ReadRequest \/ Fatal \/ Settle
  BY <1>4, ReadRequestKeeps, ReaderWrites
<1>5. CASE Take \/ Admit \/ WriteTerminal \/ Finish
  BY <1>5, TakeKeeps, ServingKeeps
<1> QED
  BY <1>1, <1>2, <1>3, <1>4, <1>5 DEF CallNext

\* An acknowledged cancel has seen the end of its target: _cancel answers only
\* when the request it stops has written its terminal event, so that Call can
\* hand the worker on without a late event of the request before.
THEOREM AcksFollowTargets == CallSpec => []AckFollowsTarget
<1>1. ASSUME CallInv PROVE AckFollowsTarget
  <2> SUFFICES ASSUME NEW r \in Requests
               PROVE  /\ \A i \in 1..Len(out) : out[i] = [id |-> <<r, 1>>, kind |-> "stopped"] =>
                           /\ serving # r
                           /\ \A k \in (i + 1)..Len(out) : out[k].id # <<r, 0>>
                      /\ answer[<<r, 1>>] = "stopped" =>
                           /\ serving # r
                           /\ \A k \in 1..Len(out) : out[k].id # <<r, 0>>
    BY DEF AckFollowsTarget
  <2>1. /\ AckLast(out, r) /\ (Acked(out, r) \/ answer[<<r, 1>>] = "stopped" => Over(r))
        /\ answer[<<r, 1>>] = "stopped" => Silent(out, r)
    BY <1>1 DEF CallInv, AcksFollow
  <2>2. ASSUME NEW i \in 1..Len(out), out[i] = [id |-> <<r, 1>>, kind |-> "stopped"]
        PROVE  serving # r /\ \A k \in (i + 1)..Len(out) : out[k].id # <<r, 0>>
    <3>1. Acks(out[i], r)
      BY <2>2 DEF Acks
    <3> QED
      BY <2>1, <2>2, <3>1 DEF AckLast, Acked, Over
  <2> QED
    BY <2>1, <2>2 DEF Silent, Over
<1> QED
  BY <1>1, CallBegins, CallInvStep, PTL DEF CallSpec
=============================================================================
