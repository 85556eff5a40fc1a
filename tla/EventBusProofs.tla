--------------------------- MODULE EventBusProofs ---------------------------
(***************************************************************************)
(* The bus implements the log for every capacity, channel size and number  *)
(* of subscribers, and over it no tab is told anything twice, for any      *)
(* number of tabs, lost connections and restarts.                          *)
(***************************************************************************)
EXTENDS EventStream, SequenceTheorems, TLAPS

\* The ring before and after it is full.
RingInv ==
  /\ WindowIsContiguous
  /\ Len(buffer) < Capacity => start = 0

\* One subscriber's part of ChannelIsContiguous, that a channel, closed or not,
\* holds nothing the bus has not emitted, that there is none before Subscribe, and
\* that falling behind closes it.
Contiguous(s) ==
  /\ \A i \in 1..Len(ch[s]) : ch[s][i] = pos[s] + i
  /\ state[s] = "open" => pos[s] + Len(ch[s]) = seq
  /\ pos[s] + Len(ch[s]) <= seq
  /\ state[s] = "none" => ch[s] = <<>>
  /\ overflowed[s] => state[s] = "closed"

ChannelInv == \A s \in Subscribers : Contiguous(s)

BusInv == TypeOK /\ RingInv /\ ChannelInv

LEMMA BusInit == Init => BusInv
  BY EventBusAssumption
     DEF Init, BusInv, TypeOK, RingInv, WindowIsContiguous, ChannelInv, Contiguous

LEMMA WrapIs ==
  ASSUME NEW a \in Nat, NEW len \in Nat
  PROVE  /\ wrap(a, len) = (IF a >= len THEN a - len ELSE a)
         /\ wrap(a, len) \in Nat
  BY DEF wrap

\* append keeps the newest events in order, whether it grows or overwrites.
LEMMA AppendKeepsRing ==
  ASSUME TypeOK, RingInv, append(seq + 1), seq' = seq + 1
  PROVE  /\ buffer' \in Seq(Nat) /\ Len(buffer') <= Capacity
         /\ start' \in 0..(Capacity - 1)
         /\ RingInv'
<1>0. /\ seq \in Nat
      /\ buffer \in Seq(Nat) /\ Len(buffer) <= Capacity /\ Len(buffer) \in Nat
      /\ start \in 0..(Capacity - 1)
      /\ Capacity \in Nat \ {0}
  BY EventBusAssumption DEF TypeOK
<1>a. start \in 0..(Capacity - 1) /\ Capacity \in Nat \ {0} /\ seq \in Nat
  BY <1>0
<1>1. CASE Len(buffer) < Capacity
  <2>1. buffer' = Append(buffer, seq + 1) /\ start' = start /\ start = 0
    BY <1>1 DEF append, RingInv
  <2>2. Len(buffer) = seq
    BY <1>0, <1>1 DEF RingInv, WindowIsContiguous
  <2>3. ASSUME NEW i \in 1..Len(buffer) PROVE buffer[i] = i
    <3>1. retained[i] = buffer[i]
      BY <1>0, <2>1 DEF retained, wrap
    <3> QED
      BY <1>0, <2>2, <3>1 DEF RingInv, WindowIsContiguous
  <2>4. Len(buffer') = seq + 1 /\ buffer' \in Seq(Nat)
    BY <1>0, <2>1, <2>2
  <2>5. ASSUME NEW i \in 1..Len(buffer') PROVE retained'[i] = i
    <3>1. retained'[i] = buffer'[i]
      BY <1>0, <2>1, <2>4 DEF retained, wrap
    <3>2. buffer'[i] = i
      BY <1>0, <2>1, <2>2, <2>3, <2>4
    <3> QED
      BY <3>1, <3>2
  <2>6. WindowIsContiguous'
    BY <1>a, <1>1, <2>2, <2>4, <2>5 DEF WindowIsContiguous
  <2> QED
    BY <1>a, <1>1, <2>1, <2>2, <2>4, <2>6 DEF RingInv
<1>2. CASE ~(Len(buffer) < Capacity)
  <2>1. Len(buffer) = Capacity /\ seq >= Capacity
    BY <1>0, <1>2 DEF RingInv, WindowIsContiguous
  <2>2. /\ buffer' = [buffer EXCEPT ![start + 1] = seq + 1]
        /\ start' = wrap(start + 1, Capacity)
    BY <1>2, <2>1 DEF append
  <2>w. wrap(start + 1, Capacity) = IF start + 1 >= Capacity THEN 0 ELSE start + 1
    BY <1>a DEF wrap
  <2>3. Len(buffer') = Capacity /\ buffer' \in Seq(Nat)
    BY <1>0, <2>1, <2>2
  <2>4. start' \in 0..(Capacity - 1)
    BY <1>a, <2>2, <2>w
  <2>5. ASSUME NEW i \in 1..Capacity PROVE retained'[i] = seq + 1 - Capacity + i
    <3>0. PICK st \in 0..(Capacity - 1) : st = start'
      BY <2>4, Zenon
    <3>1. PICK a \in Nat : a = st + (i - 1)
      BY <1>a
    <3>2. retained'[i] = buffer'[wrap(a, Capacity) + 1]
      BY <2>3, <3>0, <3>1 DEF retained
    <3>3. wrap(a, Capacity) = IF a >= Capacity THEN a - Capacity ELSE a
      BY <1>0, WrapIs
    <3>4. CASE i = Capacity
      <4>1. wrap(a, Capacity) = start
        BY <1>a, <2>2, <2>w, <3>0, <3>1, <3>3, <3>4
      <4>2. buffer'[start + 1] = seq + 1
        BY <1>0, <2>1, <2>2
      <4> QED
        BY <1>0, <3>2, <3>4, <4>1, <4>2
    <3>5. CASE i < Capacity
      <4>1. PICK b \in Nat : b = start + i
        BY <1>0
      <4>2. i + 1 \in 1..Len(buffer)
        BY <1>0, <2>1, <3>5
      <4>3. retained[i + 1] = buffer[wrap(b, Capacity) + 1]
        BY <1>0, <2>1, <4>1, <4>2 DEF retained
      <4>4. retained[i + 1] = seq - Capacity + (i + 1)
        BY <2>1, <4>2 DEF RingInv, WindowIsContiguous
      <4>5. wrap(b, Capacity) = IF b >= Capacity THEN b - Capacity ELSE b
        BY <1>0, WrapIs
      <4>6. wrap(a, Capacity) = wrap(b, Capacity)
        BY <1>a, <2>2, <2>w, <3>0, <3>1, <3>3, <3>5, <4>1, <4>5
      <4>7. /\ wrap(b, Capacity) + 1 # start + 1
            /\ wrap(b, Capacity) + 1 \in 1..Capacity
        BY <1>0, <3>5, <4>1, <4>5
      <4>8. buffer'[wrap(b, Capacity) + 1] = buffer[wrap(b, Capacity) + 1]
        BY <1>0, <2>1, <2>2, <4>7
      <4>9. retained'[i] = seq - Capacity + (i + 1)
        BY <3>2, <4>3, <4>4, <4>6, <4>8
      <4> QED
        BY <1>a, <4>9
    <3> QED
      BY <1>0, <3>4, <3>5
  <2>6. WindowIsContiguous'
    <3>1. Len(buffer') = IF seq' < Capacity THEN seq' ELSE Capacity
      BY <1>0, <2>1, <2>3
    <3>2. ASSUME NEW i \in 1..Len(buffer')
          PROVE  retained'[i] = seq' - Len(buffer') + i
      BY <1>0, <2>3, <2>5
    <3> QED
      BY <3>1, <3>2 DEF WindowIsContiguous
  <2> QED
    BY <1>0, <2>3, <2>4, <2>6 DEF RingInv
<1> QED
  BY <1>1, <1>2

\* A position inside the window is resumed with exactly the events after it.
LEMMA ReplayIsExact ==
  ASSUME TypeOK, RingInv, NEW since \in Nat, since # 0, ~outOfWindow(since)
  PROVE  /\ replayFrom(since) \in Seq(Nat)
         /\ Len(replayFrom(since)) = seq - since
         /\ \A i \in 1..(seq - since) : replayFrom(since)[i] = since + i
<1> DEFINE L == Len(buffer)
<1>1. /\ seq \in Nat /\ L \in Nat /\ L <= seq /\ since <= seq
      /\ Capacity \in Nat \ {0} /\ L <= Capacity
      /\ L < Capacity => L = seq
  BY EventBusAssumption DEF TypeOK, RingInv, WindowIsContiguous, outOfWindow
<1>2. \A i \in 1..L : retained[i] = seq - L + i
  BY DEF RingInv, WindowIsContiguous
<1>3. retained \in Seq(Nat) /\ Len(retained) = L
  <2>1. \A i \in 1..L : seq - L + i \in Nat
    BY <1>1
  <2>2. retained = [i \in 1..L |-> retained[i]]
    BY DEF retained
  <2> QED
    BY <1>1, <1>2, <2>1, <2>2
<1>4. since >= seq - L
  <2>1. CASE L < Capacity
    BY <1>1, <2>1
  <2>2. CASE L = Capacity
    <3>1. retained[1] = buffer[start + 1]
      <4>1. wrap(start + (1 - 1), L) = start
        BY <1>1, <2>2, EventBusAssumption DEF TypeOK, wrap
      <4> QED
        BY <1>1, <2>2, <4>1 DEF retained
    <3>2. retained[1] = seq - L + 1
      BY <1>1, <1>2, <2>2
    <3>3. oldestSeqLocked = seq - L + 1
      BY <1>1, <2>2, <3>1, <3>2 DEF oldestSeqLocked
    <3> QED
      BY <1>1, <3>3 DEF outOfWindow
  <2> QED
    BY <1>1, <2>1, <2>2
<1> DEFINE k == since - (seq - L)
           ok(m) == /\ \A i \in 1..m : retained[i] <= since
                    /\ m < L => retained[m + 1] > since
<1>5. k \in 0..L
  BY <1>1, <1>4
<1>6. ok(k)
  <2>1. ASSUME NEW i \in 1..k PROVE retained[i] <= since
    BY <1>1, <1>2, <1>5, <2>1
  <2>2. ASSUME k < L PROVE retained[k + 1] > since
    <3>1. k + 1 \in 1..L
      BY <1>1, <1>5, <2>2
    <3>2. retained[k + 1] = seq - L + (k + 1)
      BY <1>2, <3>1
    <3> QED
      BY <1>1, <3>2
  <2> QED
    BY <2>1, <2>2
<1>7. ASSUME NEW m \in 0..L, ok(m) PROVE m = k
  <2>1. CASE m > k
    <3>1. k + 1 \in 1..m /\ k + 1 \in 1..L
      BY <1>1, <1>5, <2>1
    <3>2. retained[k + 1] <= since /\ retained[k + 1] = seq - L + (k + 1)
      BY <1>2, <1>7, <3>1
    <3> QED
      BY <1>1, <3>2
  <2>2. CASE m < k
    <3>1. m + 1 \in 1..L /\ m < L
      BY <1>1, <1>5, <2>2
    <3>2. retained[m + 1] > since /\ retained[m + 1] = seq - L + (m + 1)
      BY <1>2, <1>7, <3>1
    <3> QED
      BY <1>1, <2>2, <3>2
  <2> QED
    BY <1>1, <1>5, <2>1, <2>2
<1>8. seenOf(since) = k
  <2>1. seenOf(since) = CHOOSE m \in 0..L : ok(m)
    BY DEF seenOf
  <2> HIDE DEF ok, k
  <2> QED
    BY <1>5, <1>6, <1>7, <2>1
<1>9. replayFrom(since) = SubSeq(retained, k + 1, L)
  BY <1>8 DEF replayFrom
<1>10. /\ SubSeq(retained, k + 1, L) \in Seq(Nat)
       /\ Len(SubSeq(retained, k + 1, L)) = seq - since
       /\ \A i \in 1..(seq - since) :
            SubSeq(retained, k + 1, L)[i] = retained[k + i]
  BY <1>1, <1>3, <1>5
<1>11. ASSUME NEW i \in 1..(seq - since) PROVE retained[k + i] = since + i
  <2>1. k + i \in 1..L
    BY <1>1, <1>5
  <2>2. retained[k + i] = seq - L + (k + i)
    BY <1>2, <2>1
  <2> QED
    BY <1>1, <2>2
<1> HIDE DEF k
<1> QED
  BY <1>9, <1>10, <1>11

-----------------------------------------------------------------------------
(* Each operation keeps the ring and the channels contiguous. *)

LEMMA EmitKeepsBus == BusInv /\ Emit => BusInv'
<1> SUFFICES ASSUME BusInv, Emit PROVE BusInv'
  OBVIOUS
<1>1. TypeOK /\ RingInv /\ ChannelInv
  BY DEF BusInv
<1>2. /\ seq' = seq + 1 /\ append(seq + 1) /\ pos' = pos
      /\ asked' = asked /\ replayable' = replayable
  BY DEF Emit, askVars
<1>3. /\ buffer' \in Seq(Nat) /\ Len(buffer') <= Capacity
      /\ start' \in 0..(Capacity - 1) /\ RingInv'
  BY <1>1, <1>2, AppendKeepsRing
<1>4. TypeOK'
  BY <1>1, <1>2, <1>3 DEF TypeOK, Emit
<1>5. ASSUME NEW s \in Subscribers PROVE Contiguous(s)'
  <2>0. seq \in Nat /\ ch[s] \in Seq(Nat) /\ pos[s] \in Nat /\ Contiguous(s)
    BY <1>1 DEF TypeOK, ChannelInv, Contiguous
  <2>a. overflowed'[s] => state'[s] = "closed"
    BY <2>0 DEF Emit, closes, Contiguous
  <2>1. CASE delivers(s)
    <3>1. ch'[s] = Append(ch[s], seq + 1) /\ state'[s] = "open"
          /\ state[s] = "open"
      BY <1>1, <2>1, EventBusAssumption DEF Emit, delivers, closes, TypeOK
    <3>2. pos[s] + Len(ch[s]) = seq
      BY <2>0, <3>1 DEF Contiguous
    <3>3. /\ Len(ch'[s]) = Len(ch[s]) + 1
          /\ \A i \in 1..Len(ch[s]) : ch'[s][i] = ch[s][i]
          /\ ch'[s][Len(ch[s]) + 1] = seq + 1
      BY <2>0, <3>1
    <3>4. ASSUME NEW i \in 1..Len(ch'[s]) PROVE ch'[s][i] = pos[s] + i
      <4>1. CASE i \in 1..Len(ch[s])
        BY <2>0, <3>3, <4>1 DEF Contiguous
      <4>2. CASE i = Len(ch[s]) + 1
        <5>1. ch'[s][i] = seq + 1
          BY <3>3, <4>2
        <5>2. PICK len \in Nat : len = Len(ch[s])
          BY <2>0
        <5>3. pos[s] + (len + 1) = seq + 1
          BY <2>0, <3>2, <5>2
        <5> QED
          BY <4>2, <5>1, <5>2, <5>3
      <4> QED
        BY <2>0, <3>3, <4>1, <4>2
    <3>5. pos[s] + Len(ch'[s]) = seq + 1
      <4>1. PICK len \in Nat : len = Len(ch[s])
        BY <2>0
      <4>2. Len(ch'[s]) = len + 1
        BY <3>3, <4>1
      <4>3. pos[s] + (len + 1) = seq + 1
        BY <2>0, <3>2, <4>1
      <4> QED
        BY <4>2, <4>3
    <3>6. pos'[s] = pos[s]
      BY <1>2
    <3> QED
      BY <1>2, <2>0, <2>a, <3>1, <3>4, <3>5, <3>6 DEF Contiguous
  <2>2. CASE ~delivers(s)
    <3>1. ch'[s] = ch[s] /\ state'[s] # "open"
          /\ (state'[s] = "none" => state[s] = "none")
      BY <1>1, <2>0, <2>2, EventBusAssumption DEF Emit, delivers, closes, TypeOK
    <3> QED
      BY <1>2, <2>0, <2>a, <3>1 DEF Contiguous
  <2> QED
    BY <2>1, <2>2
<1> QED
  BY <1>3, <1>4, <1>5 DEF BusInv, ChannelInv

LEMMA RingUntouched ==
  ASSUME BusInv, UNCHANGED ringVars PROVE RingInv'
  BY DEF BusInv, RingInv, WindowIsContiguous, retained, ringVars

LEMMA SubscribeKeepsBus ==
  ASSUME BusInv, NEW s \in Subscribers, NEW since \in Nat, Subscribe(s, since)
  PROVE  BusInv'
<1>1. TypeOK /\ RingInv /\ ChannelInv
  BY DEF BusInv
<1>2. seq' = seq /\ buffer' = buffer /\ start' = start /\ RingInv'
  BY RingUntouched DEF Subscribe, ringVars
<1>3. CASE FromNow(s, TRUE) \/ FromNow(s, FALSE)
  <2>0. PICK answer \in BOOLEAN : FromNow(s, answer)
    BY <1>3
  <2>1. TypeOK'
    <3>1. <<>> \in Seq(Nat)
      OBVIOUS
    <3> QED
      BY <1>1, <1>2, <2>0, <3>1 DEF TypeOK, FromNow, Subscribe
  <2>2. Contiguous(s)'
    <3>1. /\ ch'[s] = <<>> /\ pos'[s] = seq /\ seq \in Nat
          /\ state'[s] = "open" /\ overflowed'[s] = FALSE
      BY <1>1, <2>0 DEF TypeOK, FromNow
    <3>2. Len(ch'[s]) = 0
      BY <3>1
    <3> QED
      BY <1>2, <3>1, <3>2 DEF Contiguous
  <2>3. ASSUME NEW q \in Subscribers, q # s PROVE Contiguous(q)'
    BY <1>1, <1>2, <2>0, <2>3 DEF TypeOK, ChannelInv, Contiguous, FromNow
  <2> QED
    BY <1>2, <2>1, <2>2, <2>3 DEF BusInv, ChannelInv
<1>4. CASE since # 0 /\ ~outOfWindow(since) /\ Replay(s, since)
  <2> DEFINE events == replayFrom(since)
             fits == Len(events) <= SubscriberBuffer
             sent == IF fits THEN events ELSE SubSeq(events, 1, SubscriberBuffer)
  <2>1. /\ events \in Seq(Nat)
        /\ Len(events) = seq - since
        /\ \A i \in 1..(seq - since) : events[i] = since + i
    BY <1>1, <1>4, ReplayIsExact
  <2>2. since <= seq /\ seq \in Nat
    BY <1>1, <1>4 DEF outOfWindow, TypeOK
  <2>3. /\ ch' = [ch EXCEPT ![s] = sent]
        /\ state' = [state EXCEPT ![s] = IF fits THEN "open" ELSE "closed"]
        /\ overflowed' = [overflowed EXCEPT ![s] = ~fits]
        /\ replayable' = [replayable EXCEPT ![s] = TRUE]
        /\ pos' = [pos EXCEPT ![s] = since]
        /\ asked' = [asked EXCEPT ![s] = since]
    BY <1>4 DEF Replay, Subscribe
  <2> HIDE DEF events
  <2>4. /\ sent \in Seq(Nat) /\ Len(sent) <= seq - since
        /\ \A i \in 1..Len(sent) : sent[i] = since + i
        /\ fits => Len(sent) = seq - since
    BY <2>1, <2>2, EventBusAssumption
  <2> HIDE DEF sent, fits
  <2>5. TypeOK'
    BY <1>1, <1>2, <2>3, <2>4 DEF TypeOK
  <2>6. Contiguous(s)'
    <3>1. ch'[s] = sent /\ pos'[s] = since
          /\ state'[s] = (IF fits THEN "open" ELSE "closed")
          /\ overflowed'[s] = ~fits
      BY <1>1, <2>3 DEF TypeOK
    <3>2. PICK len \in Nat : len = Len(sent)
      BY <2>4
    <3>3. since + len <= seq /\ (fits => since + len = seq)
      BY <2>2, <2>4, <3>2
    <3>4. overflowed'[s] => state'[s] = "closed"
      BY <3>1
    <3>5. state'[s] = "open" => fits
      BY <3>1
    <3>6. state'[s] # "none"
      BY <3>1
    <3> QED
      BY <1>2, <2>4, <3>1, <3>2, <3>3, <3>4, <3>5, <3>6 DEF Contiguous
  <2>7. ASSUME NEW q \in Subscribers, q # s PROVE Contiguous(q)'
    BY <1>1, <1>2, <2>3, <2>7 DEF TypeOK, ChannelInv, Contiguous
  <2> QED
    BY <1>2, <2>5, <2>6, <2>7 DEF BusInv, ChannelInv
<1> QED
  BY <1>3, <1>4 DEF Subscribe

LEMMA TakeKeepsBus ==
  ASSUME BusInv, NEW s \in Subscribers, Take(s)
  PROVE  BusInv' /\ pos' = [pos EXCEPT ![s] = pos[s] + 1] /\ pos[s] < seq
<1>1. TypeOK /\ RingInv /\ ChannelInv
  BY DEF BusInv
<1>2. /\ seq' = seq /\ buffer' = buffer /\ start' = start /\ RingInv'
      /\ state' = state /\ overflowed' = overflowed
      /\ asked' = asked /\ replayable' = replayable
  BY RingUntouched DEF Take, ringVars, askVars
<1>3. ch[s] \in Seq(Nat) /\ ch[s] # <<>> /\ pos[s] \in Nat /\ seq \in Nat
      /\ Contiguous(s)
  BY <1>1 DEF Take, TypeOK, ChannelInv, Contiguous
<1>4. /\ Len(ch[s]) >= 1 /\ Head(ch[s]) = ch[s][1]
      /\ Tail(ch[s]) \in Seq(Nat)
      /\ Len(Tail(ch[s])) = Len(ch[s]) - 1
      /\ \A i \in 1..(Len(ch[s]) - 1) : Tail(ch[s])[i] = ch[s][i + 1]
  BY <1>3
<1>5. Head(ch[s]) = pos[s] + 1
  BY <1>3, <1>4 DEF Contiguous
<1>6. /\ pos' = [pos EXCEPT ![s] = pos[s] + 1]
      /\ ch' = [ch EXCEPT ![s] = Tail(ch[s])]
  BY <1>5 DEF Take
<1>7. TypeOK'
  BY <1>1, <1>2, <1>3, <1>4, <1>6 DEF TypeOK
<1>8. Contiguous(s)'
  <2>1. ch'[s] = Tail(ch[s]) /\ pos'[s] = pos[s] + 1
    BY <1>1, <1>6 DEF TypeOK
  <2>2. ASSUME NEW i \in 1..(Len(ch[s]) - 1)
        PROVE  Tail(ch[s])[i] = pos[s] + 1 + i
    <3>1. i + 1 \in 1..Len(ch[s])
      BY <1>3, <1>4
    <3>2. ch[s][i + 1] = pos[s] + (i + 1)
      BY <1>3, <3>1 DEF Contiguous
    <3>3. pos[s] \in Nat
      BY <1>3
    <3> QED
      BY <1>4, <3>2, <3>3
  <2>3. PICK n \in Nat : n = Len(ch[s]) /\ n >= 1
    BY <1>3, <1>4
  <2>4. pos'[s] + Len(ch'[s]) = pos[s] + n
    <3>1. Len(ch'[s]) = n - 1
      BY <1>4, <2>1, <2>3
    <3>2. pos[s] \in Nat
      BY <1>3
    <3> QED
      BY <2>1, <2>3, <3>1, <3>2
  <2>5. \A i \in 1..Len(ch'[s]) : ch'[s][i] = pos'[s] + i
    BY <1>4, <2>1, <2>2
  <2>6. pos[s] + n <= seq /\ (state[s] = "open" => pos[s] + n = seq)
    BY <1>3, <2>3 DEF Contiguous
  <2>7. state[s] # "none" /\ (overflowed[s] => state[s] = "closed")
    BY <1>3 DEF Contiguous
  <2> QED
    BY <1>2, <2>4, <2>5, <2>6, <2>7 DEF Contiguous
<1>9. ASSUME NEW q \in Subscribers, q # s PROVE Contiguous(q)'
  BY <1>1, <1>2, <1>6, <1>9 DEF TypeOK, ChannelInv, Contiguous
<1>10. pos[s] < seq
  BY <1>3, <1>4 DEF Contiguous
<1> QED
  BY <1>2, <1>6, <1>7, <1>8, <1>9, <1>10 DEF BusInv, ChannelInv

LEMMA CloseKeepsBus ==
  ASSUME BusInv, NEW s \in Subscribers, Close(s)
  PROVE  BusInv'
<1>1. TypeOK /\ RingInv /\ ChannelInv
  BY DEF BusInv
<1>2. /\ seq' = seq /\ buffer' = buffer /\ start' = start /\ RingInv'
      /\ pos' = pos /\ asked' = asked /\ replayable' = replayable
  BY RingUntouched DEF Close, ringVars, askVars
<1>3. /\ state' = [state EXCEPT ![s] = "closed"]
      /\ ch' = [ch EXCEPT ![s] = <<>>]
      /\ overflowed' = [overflowed EXCEPT ![s] = FALSE]
  BY DEF Close
<1>4. <<>> \in Seq(Nat) /\ Len(<<>>) = 0
  OBVIOUS
<1>5. TypeOK'
  BY <1>1, <1>2, <1>3, <1>4 DEF TypeOK
<1>6. Contiguous(s)'
  <2>1. ch'[s] = <<>> /\ state'[s] = "closed"
    BY <1>1, <1>3 DEF TypeOK
  <2>2. pos[s] <= seq /\ pos[s] \in Nat
    BY <1>1 DEF TypeOK, ChannelInv, Contiguous
  <2> QED
    BY <1>2, <1>4, <2>1, <2>2 DEF Contiguous
<1>7. ASSUME NEW q \in Subscribers, q # s PROVE Contiguous(q)'
  BY <1>1, <1>2, <1>3, <1>7 DEF TypeOK, ChannelInv, Contiguous
<1> QED
  BY <1>2, <1>5, <1>6, <1>7 DEF BusInv, ChannelInv

LEMMA CloseAllKeepsBus == BusInv /\ CloseAll => BusInv'
<1> SUFFICES ASSUME BusInv, CloseAll PROVE BusInv'
  OBVIOUS
<1>1. TypeOK /\ RingInv /\ ChannelInv
  BY DEF BusInv
<1>2. /\ seq' = seq /\ buffer' = buffer /\ start' = start /\ RingInv'
      /\ pos' = pos /\ asked' = asked /\ replayable' = replayable
      /\ ch' = ch /\ overflowed' = overflowed
  BY RingUntouched DEF CloseAll, ringVars, askVars
<1>3. state' = [s \in Subscribers |->
                 IF state[s] = "open" THEN "closed" ELSE state[s]]
  BY DEF CloseAll
<1>4. TypeOK'
  BY <1>1, <1>2, <1>3 DEF TypeOK
<1>5. ChannelInv'
  BY <1>1, <1>2, <1>3 DEF ChannelInv, Contiguous
<1> QED
  BY <1>2, <1>4, <1>5 DEF BusInv

LEMMA BusStep == BusInv /\ [Next]_vars => BusInv'
<1> SUFFICES ASSUME BusInv, [Next]_vars PROVE BusInv'
  OBVIOUS
<1>1. CASE Emit
  BY <1>1, EmitKeepsBus
<1>2. ASSUME NEW s \in Subscribers, NEW since \in 0..(MaxEvents + 1),
             Subscribe(s, since)
      PROVE  BusInv'
  BY <1>2, SubscribeKeepsBus, EventBusAssumption
<1>3. ASSUME NEW s \in Subscribers, Take(s) PROVE BusInv'
  BY <1>3, TakeKeepsBus
<1>4. ASSUME NEW s \in Subscribers, Close(s) PROVE BusInv'
  BY <1>4, CloseKeepsBus
<1>5. CASE CloseAll
  BY <1>5, CloseAllKeepsBus
<1>6. CASE UNCHANGED vars
  BY <1>6 DEF vars, ringVars, subVars, askVars, BusInv, TypeOK, RingInv,
     WindowIsContiguous, retained, ChannelInv, Contiguous
<1> QED
  BY <1>1, <1>2, <1>3, <1>4, <1>5, <1>6 DEF Next

\* For every capacity and every number of wrap-arounds the ring holds exactly
\* the newest events in order, and no channel has a gap or a duplicate.
THEOREM BusIsContiguous ==
  Spec => [](TypeOK /\ WindowIsContiguous /\ ChannelIsContiguous)
<1>1. BusInv => TypeOK /\ WindowIsContiguous /\ ChannelIsContiguous
  BY DEF BusInv, RingInv, ChannelInv, Contiguous, ChannelIsContiguous
<1> QED
  BY BusInit, BusStep, <1>1, PTL DEF Spec

-----------------------------------------------------------------------------
(* Every operation of the bus is a step of the log. *)

modes == [s \in Subscribers |-> modeOf(s)]

tolds == [s \in Subscribers |-> ~replayable[s]]

LEMMA InitIsLogInit == Init => Log!LogInit
  BY DEF Init, Log!LogInit, modeOf

\* Falling out of the channel is what the log calls falling behind.
LEMMA EmitIsAppend == BusInv /\ Emit => Log!Append
<1> SUFFICES ASSUME BusInv, Emit PROVE Log!Append
  OBVIOUS
<1>1. TypeOK
  BY DEF BusInv
<1>2. /\ seq' = seq + 1 /\ pos' = pos /\ asked' = asked
      /\ replayable' = replayable
      /\ state' = [s \in Subscribers |-> IF closes(s) THEN "closed" ELSE state[s]]
      /\ overflowed' = [s \in Subscribers |-> overflowed[s] \/ closes(s)]
  BY DEF Emit, askVars
<1> DEFINE slow == {s \in Subscribers : closes(s)}
<1>3. slow \in SUBSET {s \in Subscribers : modes[s] = "reading"}
  BY DEF modes, modeOf, closes
<1>4. ASSUME NEW s \in Subscribers
      PROVE  modes'[s] = IF s \in slow THEN "behind" ELSE modes[s]
  <2>1. CASE closes(s)
    <3>1. state'[s] = "closed" /\ overflowed'[s]
      BY <1>2, <2>1
    <3> QED
      BY <2>1, <3>1 DEF modes, modeOf
  <2>2. CASE ~closes(s)
    <3>1. state'[s] = state[s] /\ (overflowed'[s] <=> overflowed[s])
      BY <1>2, <2>2
    <3> QED
      BY <2>2, <3>1 DEF modes, modeOf
  <2> QED
    BY <2>1, <2>2
<1>5. modes' = [s \in Subscribers |-> IF s \in slow THEN "behind" ELSE modes[s]]
  BY <1>4 DEF modes
<1>6. tolds' = tolds
  BY <1>2 DEF tolds
<1> QED
  BY <1>2, <1>3, <1>5, <1>6 DEF Log!Append, modes, tolds

LEMMA SubscribeIsAttach ==
  ASSUME BusInv, NEW s \in Subscribers, NEW since \in Nat, Subscribe(s, since)
  PROVE  Log!Attach(s, since)
<1>1. TypeOK /\ RingInv
  BY DEF BusInv
<1>2. seq' = seq /\ asked' = [asked EXCEPT ![s] = since]
  BY DEF Subscribe, ringVars
<1>3. modes[s] \in {"away", "left"}
  BY DEF Subscribe, modes, modeOf
<1>4. ASSUME NEW m, NEW answer \in BOOLEAN,
             state' = [state EXCEPT ![s] = IF m = "reading" THEN "open" ELSE "closed"],
             m \in {"reading", "behind"},
             overflowed' = [overflowed EXCEPT ![s] = m = "behind"],
             replayable' = [replayable EXCEPT ![s] = answer]
      PROVE  /\ modes' = [modes EXCEPT ![s] = m]
             /\ tolds' = [tolds EXCEPT ![s] = ~answer]
  <2>1. ASSUME NEW q \in Subscribers, q # s
        PROVE  modes'[q] = modes[q] /\ tolds'[q] = tolds[q]
    BY <1>1, <1>4, <2>1 DEF TypeOK, modes, modeOf, tolds
  <2>2. modes'[s] = m /\ tolds'[s] = ~answer
    BY <1>1, <1>4 DEF TypeOK, modes, modeOf, tolds
  <2> QED
    BY <2>1, <2>2 DEF modes, tolds
<1>5. CASE since = 0 /\ FromNow(s, TRUE)
  <2>1. /\ modes' = [modes EXCEPT ![s] = "reading"]
        /\ tolds' = [tolds EXCEPT ![s] = FALSE]
    BY <1>4, <1>5 DEF FromNow
  <2>2. pos' = [pos EXCEPT ![s] = seq]
    BY <1>5 DEF FromNow
  <2> QED
    BY <1>2, <1>3, <1>5, <2>1, <2>2 DEF Log!Attach, modes, tolds
<1>6. CASE since # 0 /\ FromNow(s, FALSE)
  <2>1. /\ modes' = [modes EXCEPT ![s] = "reading"]
        /\ tolds' = [tolds EXCEPT ![s] = TRUE]
    BY <1>4, <1>6 DEF FromNow
  <2>2. pos' = [pos EXCEPT ![s] = seq]
    BY <1>6 DEF FromNow
  <2> QED
    BY <1>2, <1>3, <1>6, <2>1, <2>2 DEF Log!Attach, modes, tolds
<1>7. CASE since # 0 /\ ~outOfWindow(since) /\ Replay(s, since)
  <2>1. PICK m \in {"reading", "behind"} :
          m = IF Len(replayFrom(since)) <= SubscriberBuffer THEN "reading" ELSE "behind"
    OBVIOUS
  <2>2. /\ state' = [state EXCEPT ![s] = IF m = "reading" THEN "open" ELSE "closed"]
        /\ overflowed' = [overflowed EXCEPT ![s] = m = "behind"]
        /\ replayable' = [replayable EXCEPT ![s] = TRUE]
        /\ pos' = [pos EXCEPT ![s] = since]
    BY <1>7, <2>1 DEF Replay
  <2>3. /\ modes' = [modes EXCEPT ![s] = m]
        /\ tolds' = [tolds EXCEPT ![s] = FALSE]
    BY <1>4, <2>2
  <2>4. since \in 1..seq
    BY <1>1, <1>7 DEF outOfWindow, TypeOK
  <2> QED
    BY <1>2, <1>3, <2>1, <2>2, <2>3, <2>4 DEF Log!Attach, modes, tolds
<1> QED
  BY <1>5, <1>6, <1>7 DEF Subscribe

\* The handler receives the event after the one it had, and no other.
LEMMA TakeIsRead ==
  ASSUME BusInv, NEW s \in Subscribers, Take(s)
  PROVE  Log!Read(s)
<1>1. pos' = [pos EXCEPT ![s] = pos[s] + 1] /\ pos[s] < seq
  BY TakeKeepsBus
<1>2. /\ seq' = seq /\ state' = state /\ overflowed' = overflowed
      /\ asked' = asked /\ replayable' = replayable
  BY DEF Take, ringVars, askVars
<1>3. modes' = modes /\ tolds' = tolds
  BY <1>2 DEF modes, modeOf, tolds
<1>4. modes[s] # "away"
  BY DEF BusInv, TypeOK, ChannelInv, Contiguous, Take, modes, modeOf
<1> QED
  BY <1>1, <1>2, <1>3, <1>4 DEF Log!Read, modes, tolds

LEMMA CloseIsLeave ==
  ASSUME BusInv, NEW gone \in SUBSET Subscribers,
         \/ /\ \E s \in Subscribers : gone = {s} /\ Close(s)
         \/ /\ CloseAll /\ gone = {s \in Subscribers : state[s] = "open"}
  PROVE  Log!Leave(gone)
<1>1. TypeOK
  BY DEF BusInv
<1>2. seq' = seq /\ pos' = pos /\ asked' = asked /\ replayable' = replayable
  BY DEF Close, CloseAll, ringVars, askVars
<1>3. tolds' = tolds
  BY <1>2 DEF tolds
<1>4. ASSUME NEW q \in Subscribers
      PROVE  modes'[q] = IF q \in gone THEN "left" ELSE modes[q]
  <2>1. CASE \E s \in Subscribers : gone = {s} /\ Close(s)
    <3>1. PICK s \in Subscribers : gone = {s} /\ Close(s)
      BY <2>1
    <3>2. /\ state'[q] = IF q = s THEN "closed" ELSE state[q]
          /\ overflowed'[q] = IF q = s THEN FALSE ELSE overflowed[q]
      BY <1>1, <3>1 DEF TypeOK, Close
    <3> QED
      BY <3>1, <3>2 DEF modes, modeOf
  <2>2. CASE CloseAll /\ gone = {s \in Subscribers : state[s] = "open"}
    <3>1. /\ state'[q] = IF q \in gone THEN "closed" ELSE state[q]
          /\ overflowed'[q] = overflowed[q]
      BY <2>2 DEF CloseAll
    <3>2. q \in gone => ~overflowed[q]
      BY <2>2 DEF BusInv, ChannelInv, Contiguous
    <3> QED
      BY <2>2, <3>1, <3>2 DEF modes, modeOf
  <2> QED
    BY <2>1, <2>2
<1>5. modes' = [q \in Subscribers |-> IF q \in gone THEN "left" ELSE modes[q]]
  BY <1>4 DEF modes
<1> QED
  BY <1>2, <1>3, <1>5 DEF Log!Leave, modes, tolds

LEMMA StepIsLogStep == BusInv /\ [Next]_vars => [Log!LogNext]_(Log!logVars)
<1> SUFFICES ASSUME BusInv, [Next]_vars PROVE [Log!LogNext]_(Log!logVars)
  OBVIOUS
<1>1. CASE Emit
  BY <1>1, EmitIsAppend DEF Log!LogNext
<1>2. ASSUME NEW s \in Subscribers, NEW since \in 0..(MaxEvents + 1),
             Subscribe(s, since)
      PROVE  Log!LogNext
  <2>1. Log!Attach(s, since)
    BY <1>2, SubscribeIsAttach, EventBusAssumption
  <2> QED
    BY <2>1 DEF Log!LogNext
<1>3. ASSUME NEW s \in Subscribers, Take(s) PROVE Log!LogNext
  BY <1>3, TakeIsRead DEF Log!LogNext
<1>4. ASSUME NEW s \in Subscribers, Close(s) PROVE Log!LogNext
  <2>1. {s} \in SUBSET Subscribers
    OBVIOUS
  <2>2. Log!Leave({s})
    BY <1>4, <2>1, CloseIsLeave
  <2> QED
    BY <2>1, <2>2 DEF Log!LogNext
<1>5. CASE CloseAll
  <2> DEFINE gone == {s \in Subscribers : state[s] = "open"}
  <2>1. gone \in SUBSET Subscribers
    OBVIOUS
  <2>2. Log!Leave(gone)
    BY <1>5, <2>1, CloseIsLeave
  <2> QED
    BY <2>1, <2>2 DEF Log!LogNext
<1>6. CASE UNCHANGED vars
  BY <1>6 DEF vars, ringVars, subVars, askVars, Log!logVars, modeOf
<1> QED
  BY <1>1, <1>2, <1>3, <1>4, <1>5, <1>6 DEF Next

\* The bus implements the log: a subscriber resumes exactly where it asked to
\* and receives every later event once and in order, or is told that it cannot.
THEOREM BusFollowsTheLog == Spec => FollowsTheLog
  BY BusInit, BusStep, InitIsLogInit, StepIsLogStep, PTL
     DEF Spec, FollowsTheLog, Log!LogSpec

-----------------------------------------------------------------------------
(* The stream: what a tab has dispatched, what is on the wire to it, and what *)
(* waits in its handler's channel follow one another.                        *)

StreamTypes ==
  /\ handler \in [Subscribers -> {"none", "opening", "hello", "stream", "ended"}]
  /\ wire \in [Subscribers -> Seq(Frame)]
  /\ lastSeq \in [Subscribers -> Nat]
  /\ applied \in [Subscribers -> Nat]

\* Frames of which the events come after a and in order, and no frame is
\* stamped before a, before an event ahead of it, or after n.
OrderedFrames(w, a, n) ==
  /\ \A i \in 1..Len(w) : /\ a <= w[i].seq /\ w[i].seq <= n
                          /\ w[i].type = "event" => a < w[i].seq
  /\ \A i, j \in 1..Len(w) : i < j /\ w[i].type = "event" =>
       w[i].seq <= w[j].seq /\ (w[j].type = "event" => w[i].seq < w[j].seq)

EventsUpTo(w, n) == \A i \in 1..Len(w) : w[i].type = "event" => w[i].seq <= n

\* A tab without a handler has no channel and one whose handler has not begun
\* to write has nothing on the wire; what was written was taken from the
\* channel before what still waits in it; and the position a tab would ask
\* for is not before what it has dispatched.
Tab(t) ==
  /\ handler[t] \notin {"hello", "stream"} => state[t] # "open" /\ ch[t] = <<>>
  /\ handler[t] \in {"none", "opening", "hello"} => wire[t] = <<>>
  /\ handler[t] \in {"hello", "stream"} => applied[t] <= pos[t] /\ EventsUpTo(wire[t], pos[t])
  /\ applied[t] <= lastSeq[t] /\ applied[t] <= seq
  /\ OrderedFrames(wire[t], applied[t], seq)

StreamInv == BusInv /\ StreamTypes /\ \A t \in Subscribers : Tab(t)

LEMMA NoFrames ==
  ASSUME NEW a, NEW n
  PROVE  OrderedFrames(<<>>, a, n) /\ EventsUpTo(<<>>, n) /\ <<>> \in Seq(Frame)
BY DEF OrderedFrames, EventsUpTo

LEMMA FramesFollow ==
  ASSUME NEW w \in Seq(Frame), NEW f \in Frame, NEW a \in Nat, NEW n \in Nat, NEW b \in Nat,
         OrderedFrames(w, a, n), EventsUpTo(w, b),
         a <= f.seq, f.seq <= n, b <= f.seq,
         f.type = "event" => a < f.seq /\ b < f.seq
  PROVE  /\ OrderedFrames(Append(w, f), a, n) /\ EventsUpTo(Append(w, f), f.seq)
         /\ f.type # "event" => EventsUpTo(Append(w, f), b)
         /\ Append(w, f) \in Seq(Frame)
<1>1. PICK k \in Nat : k = Len(w)
  OBVIOUS
<1>2. /\ Append(w, f) \in Seq(Frame) /\ Len(Append(w, f)) = k + 1
      /\ \A i \in 1..k : Append(w, f)[i] = w[i] /\ w[i] \in Frame
      /\ Append(w, f)[k + 1] = f
  BY <1>1, AppendProperties
<1>3. \A i \in 1..(k + 1) : i \in 1..k \/ i = k + 1
  OBVIOUS
<1>4. \A g \in Frame : g.seq \in Nat
  BY DEF Frame
<1>5. \A i \in 1..k : /\ w[i].seq \in Nat /\ a <= w[i].seq /\ w[i].seq <= n
                      /\ w[i].type = "event" => a < w[i].seq /\ w[i].seq <= b
  BY <1>1, <1>2, <1>4 DEF OrderedFrames, EventsUpTo
<1>6. \A i \in 1..(k + 1) : /\ a <= Append(w, f)[i].seq /\ Append(w, f)[i].seq <= n
                            /\ Append(w, f)[i].type = "event" => a < Append(w, f)[i].seq
  BY <1>2, <1>3, <1>5
<1>7. ASSUME NEW i \in 1..(k + 1), NEW j \in 1..(k + 1), i < j, Append(w, f)[i].type = "event"
      PROVE  /\ Append(w, f)[i].seq <= Append(w, f)[j].seq
             /\ Append(w, f)[j].type = "event" => Append(w, f)[i].seq < Append(w, f)[j].seq
  <2>1. i \in 1..k
    BY <1>7
  <2>2. CASE j \in 1..k
    BY <1>1, <1>2, <1>7, <2>1, <2>2 DEF OrderedFrames
  <2>3. CASE j = k + 1
    <3>1. w[i].type = "event" /\ Append(w, f)[i].seq = w[i].seq /\ Append(w, f)[j] = f
      BY <1>2, <1>7, <2>1, <2>3
    <3>2. w[i].seq \in Nat /\ w[i].seq <= b /\ f.seq \in Nat
      BY <1>4, <1>5, <2>1, <3>1
    <3> QED
      BY <3>1, <3>2
  <2> QED
    BY <1>3, <2>2, <2>3
<1>8. EventsUpTo(Append(w, f), f.seq)
  <2>1. \A i \in 1..k : w[i].type = "event" => w[i].seq <= f.seq
    BY <1>4, <1>5
  <2> QED
    BY <1>2, <1>3, <1>4, <2>1 DEF EventsUpTo
<1>9. f.type # "event" => EventsUpTo(Append(w, f), b)
  BY <1>2, <1>3, <1>5 DEF EventsUpTo
<1> QED
  BY <1>2, <1>6, <1>7, <1>8, <1>9 DEF OrderedFrames

\* The next frame is received: what is left comes after it, if it is an event.
LEMMA FramesLeft ==
  ASSUME NEW w \in Seq(Frame), w # <<>>, NEW a \in Nat, NEW n \in Nat, NEW b \in Nat,
         OrderedFrames(w, a, n)
  PROVE  /\ Tail(w) \in Seq(Frame) /\ Head(w) \in Frame
         /\ a <= Head(w).seq /\ Head(w).seq <= n
         /\ OrderedFrames(Tail(w), a, n)
         /\ Head(w).type = "event" => OrderedFrames(Tail(w), Head(w).seq, n)
         /\ EventsUpTo(w, b) => EventsUpTo(Tail(w), b) /\ (Head(w).type = "event" => Head(w).seq <= b)
<1>1. /\ Tail(w) \in Seq(Frame) /\ Head(w) \in Frame /\ Len(Tail(w)) = Len(w) - 1
      /\ \A i \in 1..Len(Tail(w)) : Tail(w)[i] = w[i + 1]
  BY HeadTailProperties
<1>2. Head(w) = w[1] /\ Len(w) \in Nat \ {0} /\ Len(Tail(w)) \in Nat
  BY <1>1
<1>3. \A i \in 1..Len(Tail(w)) : i + 1 \in 1..Len(w) /\ 1 \in 1..Len(w) /\ 1 < i + 1
  BY <1>1, <1>2
<1>4. a <= Head(w).seq /\ Head(w).seq <= n
  BY <1>2 DEF OrderedFrames
<1>5. \A i \in 1..Len(Tail(w)) :
        /\ a <= Tail(w)[i].seq /\ Tail(w)[i].seq <= n
        /\ Tail(w)[i].type = "event" => a < Tail(w)[i].seq
        /\ Head(w).type = "event" => /\ Head(w).seq <= Tail(w)[i].seq
                                     /\ Tail(w)[i].type = "event" => Head(w).seq < Tail(w)[i].seq
  BY <1>1, <1>2, <1>3 DEF OrderedFrames
<1>6. \A i, j \in 1..Len(Tail(w)) : i < j /\ Tail(w)[i].type = "event" =>
        Tail(w)[i].seq <= Tail(w)[j].seq /\ (Tail(w)[j].type = "event" => Tail(w)[i].seq < Tail(w)[j].seq)
  <2>1. \A i, j \in 1..Len(Tail(w)) : i < j => i + 1 < j + 1
    BY <1>2
  <2> QED
    BY <1>1, <1>3, <2>1 DEF OrderedFrames
<1>7. EventsUpTo(w, b) => EventsUpTo(Tail(w), b) /\ (Head(w).type = "event" => Head(w).seq <= b)
  BY <1>1, <1>2, <1>3 DEF EventsUpTo
<1> QED
  BY <1>1, <1>4, <1>5, <1>6, <1>7 DEF OrderedFrames

LEMMA StreamBegins == StreamInit => StreamInv
<1> SUFFICES ASSUME StreamInit PROVE StreamInv
  OBVIOUS
<1>1. BusInv
  BY BusInit DEF StreamInit
<1>2. StreamTypes
  BY NoFrames DEF StreamInit, StreamTypes
<1>3. ASSUME NEW t \in Subscribers PROVE Tab(t)
  BY NoFrames DEF StreamInit, Init, Tab
<1> QED
  BY <1>1, <1>2, <1>3 DEF StreamInv

\* A step of one tab.
LEMMA OneTab ==
  ASSUME StreamInv, BusInv', StreamTypes', NEW t \in Subscribers, Tab(t)', seq' = seq,
         \A u \in Subscribers \ {t} :
           /\ handler'[u] = handler[u] /\ wire'[u] = wire[u]
           /\ state'[u] = state[u] /\ ch'[u] = ch[u] /\ pos'[u] = pos[u]
           /\ lastSeq'[u] = lastSeq[u] /\ applied'[u] = applied[u]
  PROVE  StreamInv'
<1>1. ASSUME NEW u \in Subscribers, u # t PROVE Tab(u)'
  BY <1>1 DEF StreamInv, Tab
<1> QED
  BY <1>1 DEF StreamInv

\* A new event is on no wire yet, and is delivered to channels with a handler.
LEMMA EmitKeepsStream ==
  ASSUME StreamInv, EmitEvent
  PROVE  StreamInv'
<1>1. /\ Emit /\ UNCHANGED <<handler, wire, lastSeq, applied>>
      /\ seq' = seq + 1 /\ seq \in Nat /\ UNCHANGED pos
  BY DEF EmitEvent, clientVars, Emit, StreamInv, BusInv, TypeOK
<1>2. BusInv' /\ StreamTypes'
  BY <1>1, EmitKeepsBus DEF StreamInv, StreamTypes
<1>3. ASSUME NEW t \in Subscribers PROVE Tab(t)'
  <2>1. /\ state[t] # "open" => state'[t] = state[t] /\ ch'[t] = ch[t]
    BY <1>1 DEF Emit, delivers, closes
  <2>2. /\ applied[t] \in Nat /\ wire[t] \in Seq(Frame) /\ Tab(t)
    BY DEF StreamInv, StreamTypes
  <2>3. OrderedFrames(wire[t], applied[t], seq + 1)
    <3>1. \A i \in 1..Len(wire[t]) : wire[t][i].seq \in Nat
      <4>1. \A f \in Frame : f.seq \in Nat
        BY DEF Frame
      <4>2. \A i \in 1..Len(wire[t]) : wire[t][i] \in Frame
        BY <2>2
      <4> QED
        BY <4>1, <4>2
    <3> QED
      BY <1>1, <2>2, <3>1 DEF Tab, OrderedFrames
  <2> QED
    BY <1>1, <2>1, <2>2, <2>3 DEF Tab
<1> QED
  BY <1>2, <1>3 DEF StreamInv

LEMMA RestartKeepsStream ==
  ASSUME StreamInv, Restart
  PROVE  StreamInv'
<1>1. BusInv'
  <2>1. TypeOK'
    BY EventBusAssumption DEF Restart, TypeOK
  <2>2. RingInv' /\ ChannelInv'
    BY EventBusAssumption DEF Restart, RingInv, WindowIsContiguous, ChannelInv, Contiguous
  <2> QED
    BY <2>1, <2>2 DEF BusInv
<1>2. StreamTypes'
  BY NoFrames DEF Restart, StreamInv, StreamTypes
<1>3. ASSUME NEW t \in Subscribers PROVE Tab(t)'
  <2>1. /\ handler'[t] \in {"none", "opening", "ended"} /\ wire'[t] = <<>> /\ applied'[t] = 0
        /\ state'[t] = "none" /\ ch'[t] = <<>> /\ seq' = 0 /\ lastSeq'[t] \in Nat
    BY DEF Restart, StreamInv, StreamTypes
  <2> QED
    BY <2>1, NoFrames DEF Tab
<1> QED
  BY <1>1, <1>2, <1>3 DEF StreamInv

\* A tab whose connection goes has nothing left on the wire or in a channel.
LEMMA DisconnectedTab ==
  ASSUME StreamInv, NEW t \in Subscribers, NEW next \in {"none", "opening"}, Disconnected(t, next),
         lastSeq' \in [Subscribers -> Nat], applied' \in [Subscribers -> Nat],
         applied'[t] <= lastSeq'[t], applied'[t] <= applied[t],
         \A u \in Subscribers \ {t} : lastSeq'[u] = lastSeq[u] /\ applied'[u] = applied[u]
  PROVE  StreamInv'
<1>1. BusInv /\ TypeOK /\ StreamTypes /\ \A u \in Subscribers : Tab(u)
  BY DEF StreamInv, BusInv
<1>2. wire' = [wire EXCEPT ![t] = <<>>] /\ handler' = [handler EXCEPT ![t] = next]
  BY DEF Disconnected
<1>3. /\ BusInv' /\ seq' = seq /\ state'[t] # "open" /\ ch'[t] = <<>>
      /\ \A u \in Subscribers \ {t} : state'[u] = state[u] /\ ch'[u] = ch[u] /\ pos'[u] = pos[u]
  <2>1. CASE state[t] = "none"
    <3>1. UNCHANGED <<seq, buffer, start, ch, state, overflowed, asked, replayable, pos>>
      BY <2>1 DEF Disconnected, busVars, vars, ringVars, subVars, askVars
    <3>2. BusInv'
      BY <1>1, <3>1 DEF BusInv, TypeOK, RingInv, WindowIsContiguous, retained, ChannelInv, Contiguous
    <3>3. ch[t] = <<>>
      BY <1>1, <2>1 DEF BusInv, ChannelInv, Contiguous
    <3> QED
      BY <2>1, <3>1, <3>2, <3>3
  <2>2. CASE state[t] # "none"
    <3>1. Close(t)
      BY <2>2 DEF Disconnected
    <3> QED
      BY <1>1, <3>1, CloseKeepsBus DEF Close, ringVars, TypeOK
  <2> QED
    BY <2>1, <2>2
<1>4. /\ handler'[t] = next /\ wire'[t] = <<>>
      /\ \A u \in Subscribers \ {t} : handler'[u] = handler[u] /\ wire'[u] = wire[u]
  BY <1>1, <1>2 DEF StreamTypes
<1>5. StreamTypes'
  BY <1>1, <1>2, NoFrames DEF StreamTypes
<1>6. Tab(t)'
  <2>1. applied'[t] <= seq
    BY <1>1 DEF Tab, StreamTypes, TypeOK
  <2> QED
    BY <1>3, <1>4, <2>1, NoFrames DEF Tab
<1> QED
  BY <1>3, <1>4, <1>5, <1>6, OneTab

LEMMA ConnectionKeepsStream ==
  ASSUME StreamInv, NEW t \in Subscribers, Mount(t) \/ Unmount(t) \/ Fire(t) \/ Drop(t)
  PROVE  StreamInv'
<1>1. /\ lastSeq \in [Subscribers -> Nat] /\ applied \in [Subscribers -> Nat] /\ applied[t] <= lastSeq[t]
      /\ applied[t] \in Nat
  BY DEF StreamInv, StreamTypes, Tab
<1>2. CASE Mount(t) \/ Fire(t) \/ Drop(t)
  <2>1. UNCHANGED <<lastSeq, applied>> /\ (Disconnected(t, "opening") \/ Disconnected(t, "none"))
    BY <1>2 DEF Mount, Fire, Drop, open, KeepViews
  <2>2. applied'[t] <= lastSeq'[t] /\ applied'[t] <= applied[t]
    BY <1>1, <2>1
  <2> QED
    BY <1>1, <2>1, <2>2, DisconnectedTab
<1>3. CASE Unmount(t)
  <2>1. /\ Disconnected(t, "none") /\ lastSeq' = [lastSeq EXCEPT ![t] = 0] /\ applied' = [applied EXCEPT ![t] = 0]
    BY <1>3 DEF Unmount
  <2>2. /\ lastSeq' \in [Subscribers -> Nat] /\ applied' \in [Subscribers -> Nat]
        /\ lastSeq'[t] = 0 /\ applied'[t] = 0
        /\ \A u \in Subscribers \ {t} : lastSeq'[u] = lastSeq[u] /\ applied'[u] = applied[u]
    BY <1>1, <2>1
  <2>3. applied'[t] <= lastSeq'[t] /\ applied'[t] <= applied[t]
    BY <1>1, <2>2
  <2> QED
    BY <2>1, <2>2, <2>3, DisconnectedTab
<1> QED
  BY <1>2, <1>3

LEMMA BusUntouched ==
  ASSUME BusInv, UNCHANGED busVars
  PROVE  BusInv' /\ UNCHANGED <<seq, ch, state, pos>>
<1>1. UNCHANGED <<seq, buffer, start, ch, state, overflowed, asked, replayable, pos>>
  BY DEF busVars, vars, ringVars, subVars, askVars
<1> QED
  BY <1>1 DEF BusInv, TypeOK, RingInv, WindowIsContiguous, retained, ChannelInv, Contiguous

LEMMA EndedKeepsStream ==
  ASSUME StreamInv, NEW t \in Subscribers, Ended(t)
  PROVE  StreamInv'
<1>1. /\ handler[t] = "ended" /\ wire[t] = <<>> /\ handler' = [handler EXCEPT ![t] = "none"]
      /\ UNCHANGED <<busVars, wire, lastSeq, applied>>
  BY DEF Ended, KeepViews
<1>2. BusInv' /\ UNCHANGED <<seq, ch, state, pos>>
  BY <1>1, BusUntouched DEF StreamInv
<1>3. StreamTypes' /\ handler'[t] = "none" /\ \A u \in Subscribers \ {t} : handler'[u] = handler[u]
  BY <1>1 DEF StreamInv, StreamTypes
<1>4. Tab(t)'
  BY <1>1, <1>2, <1>3 DEF StreamInv, Tab
<1> QED
  BY <1>1, <1>2, <1>3, <1>4, OneTab

\* What is received is after what was dispatched, and so is what is left.
LEMMA ReceiveKeepsStream ==
  ASSUME StreamInv, NEW t \in Subscribers, Receive(t)
  PROVE  StreamInv'
<1> DEFINE f == Head(wire[t])
<1>1. /\ wire[t] # <<>> /\ wire' = [wire EXCEPT ![t] = Tail(wire[t])]
      /\ UNCHANGED <<busVars, handler>>
  BY DEF Receive
<1>2. BusInv' /\ UNCHANGED <<seq, ch, state, pos>>
  BY <1>1, BusUntouched DEF StreamInv
<1>3. /\ StreamTypes /\ Tab(t) /\ seq \in Nat /\ pos[t] \in Nat /\ applied[t] \in Nat /\ lastSeq[t] \in Nat
      /\ wire[t] \in Seq(Frame)
  BY DEF StreamInv, StreamTypes, BusInv, TypeOK
<1>4. handler[t] \in {"stream", "ended"}
  BY <1>1, <1>3 DEF Tab, StreamTypes
<1>5. /\ Tail(wire[t]) \in Seq(Frame) /\ f \in Frame /\ applied[t] <= f.seq /\ f.seq <= seq
      /\ OrderedFrames(Tail(wire[t]), applied[t], seq)
      /\ f.type = "event" => OrderedFrames(Tail(wire[t]), f.seq, seq)
      /\ EventsUpTo(wire[t], pos[t]) =>
           EventsUpTo(Tail(wire[t]), pos[t]) /\ (f.type = "event" => f.seq <= pos[t])
  BY <1>1, <1>3, FramesLeft DEF Tab
<1>6. f.seq \in Nat
  BY <1>5 DEF Frame
<1>7. /\ wire'[t] = Tail(wire[t]) /\ wire' \in [Subscribers -> Seq(Frame)]
      /\ \A u \in Subscribers \ {t} : wire'[u] = wire[u]
  BY <1>1, <1>3, <1>5 DEF StreamTypes
<1>8. ASSUME UNCHANGED applied, lastSeq' \in [Subscribers -> Nat],
             \/ lastSeq'[t] = lastSeq[t]
             \/ lastSeq'[t] = f.seq,
             \A u \in Subscribers \ {t} : lastSeq'[u] = lastSeq[u]
      PROVE  StreamInv'
  <2>1. StreamTypes'
    BY <1>1, <1>3, <1>7, <1>8 DEF StreamTypes
  <2>2. Tab(t)'
    BY <1>1, <1>2, <1>3, <1>4, <1>5, <1>7, <1>8 DEF Tab
  <2> QED
    BY <1>1, <1>2, <1>7, <1>8, <2>1, <2>2, OneTab
<1>9. CASE ReceiveHello(t, f) \/ ReceiveResync(t, f)
  <2>1. UNCHANGED applied /\ lastSeq' = [lastSeq EXCEPT ![t] = f.seq]
    BY <1>9 DEF ReceiveHello, ReceiveResync
  <2>2. lastSeq' \in [Subscribers -> Nat] /\ lastSeq'[t] = f.seq /\ \A u \in Subscribers \ {t} : lastSeq'[u] = lastSeq[u]
    BY <1>3, <1>6, <2>1 DEF StreamTypes
  <2> QED
    BY <1>8, <2>1, <2>2
<1>10. CASE ReceiveFails(t, f)
  BY <1>3, <1>8, <1>10 DEF ReceiveFails, StreamTypes
<1>11. CASE ReceiveEvent(t, f)
  <2>1. /\ f.type = "event" /\ lastSeq' = [lastSeq EXCEPT ![t] = f.seq] /\ applied' = [applied EXCEPT ![t] = f.seq]
    BY <1>11 DEF ReceiveEvent
  <2>2. /\ lastSeq' \in [Subscribers -> Nat] /\ applied' \in [Subscribers -> Nat]
        /\ lastSeq'[t] = f.seq /\ applied'[t] = f.seq
        /\ \A u \in Subscribers \ {t} : lastSeq'[u] = lastSeq[u] /\ applied'[u] = applied[u]
    BY <1>3, <1>6, <2>1 DEF StreamTypes
  <2>3. StreamTypes'
    BY <1>1, <1>3, <1>7, <2>2 DEF StreamTypes
  <2>4. Tab(t)'
    BY <1>1, <1>2, <1>3, <1>4, <1>5, <1>6, <1>7, <2>1, <2>2 DEF Tab
  <2> QED
    BY <1>1, <1>2, <1>7, <2>2, <2>3, <2>4, OneTab
<1> QED
  BY <1>9, <1>10, <1>11 DEF Receive

\* A handler subscribes after what its tab has dispatched.
LEMMA RequestKeepsStream ==
  ASSUME StreamInv, NEW t \in Subscribers, Request(t)
  PROVE  StreamInv'
<1>1. /\ handler[t] = "opening" /\ Subscribe(t, buildUrl(t)) /\ handler' = [handler EXCEPT ![t] = "hello"]
      /\ UNCHANGED <<wire, lastSeq, applied>>
  BY DEF Request, clientVars
<1>2. StreamTypes /\ Tab(t) /\ TypeOK /\ BusInv
  BY DEF StreamInv, BusInv
<1>3. /\ lastSeq[t] \in Nat /\ applied[t] \in Nat /\ seq \in Nat
      /\ buildUrl(t) \in Nat /\ (buildUrl(t) # 0 => applied[t] <= buildUrl(t))
  BY <1>2 DEF StreamTypes, buildUrl, Tab, TypeOK
<1>4. BusInv'
  BY <1>1, <1>2, <1>3, SubscribeKeepsBus
<1>5. /\ seq' = seq /\ \A u \in Subscribers \ {t} : state'[u] = state[u] /\ ch'[u] = ch[u] /\ pos'[u] = pos[u]
      /\ applied[t] <= pos'[t]
  <2>1. CASE buildUrl(t) = 0
    BY <1>1, <1>2, <2>1 DEF Subscribe, FromNow, ringVars, TypeOK, Tab
  <2>2. CASE buildUrl(t) # 0 /\ outOfWindow(buildUrl(t))
    BY <1>1, <1>2, <2>2 DEF Subscribe, FromNow, ringVars, TypeOK, Tab
  <2>3. CASE buildUrl(t) # 0 /\ ~outOfWindow(buildUrl(t))
    BY <1>1, <1>2, <1>3, <2>3 DEF Subscribe, Replay, ringVars, TypeOK
  <2> QED
    BY <2>1, <2>2, <2>3
<1>6. handler'[t] = "hello" /\ (\A u \in Subscribers \ {t} : handler'[u] = handler[u]) /\ StreamTypes'
  BY <1>1, <1>2 DEF StreamTypes
<1>7. Tab(t)'
  <2>1. wire'[t] = <<>>
    BY <1>1, <1>2 DEF Tab
  <2> QED
    BY <1>1, <1>2, <1>5, <1>6, <2>1, NoFrames DEF Tab
<1> QED
  BY <1>1, <1>4, <1>5, <1>6, <1>7, OneTab

\* The first frames are stamped no earlier than what the tab has dispatched.
LEMMA HandshakeKeepsStream ==
  ASSUME StreamInv, NEW t \in Subscribers, Handshake(t)
  PROVE  StreamInv'
<1>1. /\ handler[t] = "hello" /\ handler' = [handler EXCEPT ![t] = "stream"]
      /\ UNCHANGED <<busVars, lastSeq, applied>>
  BY DEF Handshake, clientVars
<1>2. StreamTypes /\ Tab(t) /\ TypeOK /\ BusInv
  BY DEF StreamInv, BusInv
<1>3. BusInv' /\ UNCHANGED <<seq, ch, state, pos>>
  BY <1>1, <1>2, BusUntouched
<1>4. wire[t] = <<>> /\ seq \in Nat /\ applied[t] \in Nat /\ applied[t] <= seq /\ replayable[t] \in BOOLEAN
      /\ pos[t] \in Nat
  BY <1>1, <1>2 DEF Tab, StreamTypes, TypeOK
<1>5. PICK h \in Frame, r \in Frame :
        /\ h = handshakeEvent("hello", replayable[t]) /\ r = handshakeEvent("resync", FALSE)
        /\ h.type # "event" /\ r.type # "event" /\ h.seq = seq /\ r.seq = seq
  <2>1. handshakeEvent("hello", replayable[t]) \in Frame /\ handshakeEvent("resync", FALSE) \in Frame
    BY <1>4 DEF handshakeEvent, Frame
  <2>2. /\ handshakeEvent("hello", replayable[t]).type # "event" /\ handshakeEvent("resync", FALSE).type # "event"
        /\ handshakeEvent("hello", replayable[t]).seq = seq /\ handshakeEvent("resync", FALSE).seq = seq
    BY DEF handshakeEvent
  <2> QED
    BY <2>1, <2>2
<1>6. /\ Append(<<>>, h) \in Seq(Frame) /\ Append(Append(<<>>, h), r) \in Seq(Frame)
      /\ OrderedFrames(Append(<<>>, h), applied[t], seq) /\ EventsUpTo(Append(<<>>, h), 0)
      /\ OrderedFrames(Append(Append(<<>>, h), r), applied[t], seq)
      /\ EventsUpTo(Append(Append(<<>>, h), r), 0)
  <2>1. <<>> \in Seq(Frame) /\ OrderedFrames(<<>>, applied[t], seq) /\ EventsUpTo(<<>>, 0)
    BY NoFrames
  <2>2. 0 <= seq /\ seq <= seq
    BY <1>4
  <2>3. /\ Append(<<>>, h) \in Seq(Frame) /\ OrderedFrames(Append(<<>>, h), applied[t], seq)
        /\ EventsUpTo(Append(<<>>, h), 0)
    BY <1>4, <1>5, <2>1, <2>2, FramesFollow
  <2> QED
    BY <1>4, <1>5, <2>2, <2>3, FramesFollow
<1>7. PICK w \in Seq(Frame) : w = wire'[t] /\ OrderedFrames(w, applied[t], seq) /\ EventsUpTo(w, pos[t])
  <2>1. wire'[t] = <<>> \o <<h>> \o (IF replayable[t] THEN <<>> ELSE <<r>>)
    BY <1>2, <1>4, <1>5 DEF Handshake, StreamTypes
  <2>2. <<>> \o <<h>> = Append(<<>>, h)
    BY AppendIsConcat, NoFrames
  <2>3. wire'[t] \in {Append(<<>>, h), Append(Append(<<>>, h), r)}
    <3>1. CASE replayable[t]
      BY <1>6, <2>1, <2>2, <3>1, ConcatEmptySeq
    <3>2. CASE ~replayable[t]
      BY <1>6, <2>1, <2>2, <3>2, AppendIsConcat
    <3> QED
      BY <3>1, <3>2
  <2>4. \A x \in Seq(Frame) : EventsUpTo(x, 0) => EventsUpTo(x, pos[t])
    <3>1. \A f \in Frame : f.seq \in Nat
      BY DEF Frame
    <3>2. \A x \in Seq(Frame) : \A i \in 1..Len(x) : x[i] \in Frame
      OBVIOUS
    <3> QED
      BY <1>4, <3>1, <3>2 DEF EventsUpTo
  <2> QED
    BY <1>6, <2>3, <2>4
<1>8. /\ handler'[t] = "stream" /\ \A u \in Subscribers \ {t} : handler'[u] = handler[u] /\ wire'[u] = wire[u]
  BY <1>1, <1>2 DEF Handshake, StreamTypes
<1>9. StreamTypes'
  <2>1. wire' \in [Subscribers -> Seq(Frame)]
    BY <1>2, <1>7 DEF Handshake, StreamTypes
  <2> QED
    BY <1>1, <1>2, <2>1 DEF StreamTypes
<1>10. Tab(t)'
  BY <1>1, <1>2, <1>3, <1>7, <1>8 DEF Tab
<1> QED
  BY <1>1, <1>3, <1>8, <1>9, <1>10, OneTab

\* What is taken from the channel comes after all that was written before.
LEMMA ForwardKeepsStream ==
  ASSUME StreamInv, NEW t \in Subscribers, Forward(t)
  PROVE  StreamInv'
<1>1. /\ handler[t] = "stream" /\ Take(t)
      /\ wire' = [wire EXCEPT ![t] = Append(wire[t], [type |-> "event", seq |-> Head(ch[t]), replay |-> FALSE])]
      /\ UNCHANGED <<handler, lastSeq, applied>>
  BY DEF Forward, clientVars
<1>2. StreamTypes /\ Tab(t) /\ TypeOK /\ BusInv
  BY DEF StreamInv, BusInv
<1>3. BusInv' /\ pos' = [pos EXCEPT ![t] = pos[t] + 1] /\ pos[t] < seq
  BY <1>1, <1>2, TakeKeepsBus
<1>4. /\ pos[t] \in Nat /\ seq \in Nat /\ applied[t] \in Nat /\ wire[t] \in Seq(Frame)
      /\ applied[t] <= pos[t] /\ EventsUpTo(wire[t], pos[t]) /\ OrderedFrames(wire[t], applied[t], seq)
  BY <1>1, <1>2 DEF StreamTypes, TypeOK, Tab
<1>5. Head(ch[t]) = pos[t] + 1
  <2>1. ch[t] \in Seq(Nat) /\ ch[t] # <<>> /\ Contiguous(t)
    BY <1>1, <1>2 DEF Take, TypeOK, BusInv, ChannelInv
  <2>2. Head(ch[t]) = ch[t][1] /\ 1 \in 1..Len(ch[t])
    BY <2>1
  <2> QED
    BY <2>1, <2>2 DEF Contiguous
<1>6. PICK n \in Nat : n = pos[t] + 1
  BY <1>4
<1>7. PICK f \in Frame : f = [type |-> "event", seq |-> n, replay |-> FALSE]
  BY DEF Frame
<1>8. f.type = "event" /\ f.seq = n
  BY <1>7
<1>9. applied[t] < n /\ applied[t] <= n /\ pos[t] < n /\ pos[t] <= n /\ n <= seq
  BY <1>3, <1>4, <1>6
<1>10. /\ OrderedFrames(Append(wire[t], f), applied[t], seq) /\ EventsUpTo(Append(wire[t], f), n)
       /\ Append(wire[t], f) \in Seq(Frame)
  BY <1>4, <1>8, <1>9, FramesFollow
<1>11. wire' = [wire EXCEPT ![t] = Append(wire[t], f)]
  BY <1>1, <1>5, <1>6, <1>7
<1>12. /\ seq' = seq /\ state' = state /\ pos'[t] = n /\ wire'[t] = Append(wire[t], f)
       /\ \A u \in Subscribers \ {t} : ch'[u] = ch[u] /\ pos'[u] = pos[u] /\ wire'[u] = wire[u]
  BY <1>1, <1>2, <1>3, <1>6, <1>11 DEF Take, ringVars, TypeOK, StreamTypes
<1>13. StreamTypes'
  <2>1. wire' \in [Subscribers -> Seq(Frame)]
    BY <1>2, <1>10, <1>11 DEF StreamTypes
  <2> QED
    BY <1>1, <1>2, <2>1 DEF StreamTypes
<1>14. Tab(t)'
  BY <1>1, <1>2, <1>9, <1>10, <1>12 DEF Tab
<1> QED
  BY <1>1, <1>3, <1>12, <1>13, <1>14, OneTab

LEMMA ChannelClosedKeepsStream ==
  ASSUME StreamInv, NEW t \in Subscribers, ChannelClosed(t)
  PROVE  StreamInv'
<1>1. /\ handler[t] = "stream" /\ handler' = [handler EXCEPT ![t] = "ended"] /\ Close(t)
      /\ wire' = [wire EXCEPT ![t] = IF overflowed[t] THEN Append(wire[t], handshakeEvent("resync", FALSE))
                                     ELSE wire[t]]
      /\ UNCHANGED <<lastSeq, applied>>
  BY DEF ChannelClosed, clientVars
<1>2. StreamTypes /\ Tab(t) /\ TypeOK /\ BusInv
  BY DEF StreamInv, BusInv
<1>3. /\ BusInv' /\ seq' = seq /\ pos' = pos /\ state'[t] = "closed" /\ ch'[t] = <<>>
      /\ \A u \in Subscribers \ {t} : state'[u] = state[u] /\ ch'[u] = ch[u]
  BY <1>1, <1>2, CloseKeepsBus DEF Close, ringVars, TypeOK
<1>4. /\ pos[t] \in Nat /\ seq \in Nat /\ applied[t] \in Nat /\ wire[t] \in Seq(Frame)
      /\ applied[t] <= seq /\ EventsUpTo(wire[t], pos[t]) /\ OrderedFrames(wire[t], applied[t], seq)
  BY <1>1, <1>2 DEF StreamTypes, TypeOK, Tab
<1>5. pos[t] <= seq
  <2>1. pos[t] + Len(ch[t]) <= seq /\ Len(ch[t]) \in Nat
    BY <1>2 DEF BusInv, ChannelInv, Contiguous, TypeOK
  <2> QED
    BY <1>4, <2>1
<1>6. PICK f \in Frame : f = handshakeEvent("resync", FALSE) /\ f.type # "event" /\ f.seq = seq
  <2>1. handshakeEvent("resync", FALSE) \in Frame
    BY <1>4 DEF handshakeEvent, Frame
  <2>2. handshakeEvent("resync", FALSE).type # "event" /\ handshakeEvent("resync", FALSE).seq = seq
    BY DEF handshakeEvent
  <2> QED
    BY <2>1, <2>2
<1>7. OrderedFrames(Append(wire[t], f), applied[t], seq) /\ Append(wire[t], f) \in Seq(Frame)
  <2>1. seq <= seq
    BY <1>4
  <2> QED
    BY <1>4, <1>5, <1>6, <2>1, FramesFollow
<1>8. PICK w \in Seq(Frame) : /\ w = wire'[t] /\ wire' = [wire EXCEPT ![t] = w]
                             /\ OrderedFrames(w, applied[t], seq)
  <2>1. CASE overflowed[t]
    BY <1>1, <1>2, <1>6, <1>7, <2>1 DEF StreamTypes
  <2>2. CASE ~overflowed[t]
    BY <1>1, <1>2, <1>4, <2>2 DEF StreamTypes
  <2> QED
    BY <2>1, <2>2
<1>9. /\ handler'[t] = "ended" /\ \A u \in Subscribers \ {t} : handler'[u] = handler[u] /\ wire'[u] = wire[u]
  BY <1>1, <1>2 DEF StreamTypes
<1>10. StreamTypes'
  <2>1. wire' \in [Subscribers -> Seq(Frame)]
    BY <1>2, <1>8 DEF StreamTypes
  <2> QED
    BY <1>1, <1>2, <2>1 DEF StreamTypes
<1>11. Tab(t)'
  BY <1>1, <1>2, <1>3, <1>8, <1>9 DEF Tab
<1> QED
  BY <1>1, <1>3, <1>9, <1>10, <1>11, OneTab

LEMMA StreamStep == StreamInv /\ [StreamNext]_streamVars => StreamInv'
<1> SUFFICES ASSUME StreamInv, [StreamNext]_streamVars PROVE StreamInv'
  OBVIOUS
<1>1. CASE EmitEvent
  BY <1>1, EmitKeepsStream
<1>2. CASE Restart
  BY <1>2, RestartKeepsStream
<1>3. ASSUME NEW t \in Subscribers, Mount(t) \/ Unmount(t) \/ Fire(t) \/ Drop(t) PROVE StreamInv'
  BY <1>3, ConnectionKeepsStream
<1>4. ASSUME NEW t \in Subscribers, Ended(t) \/ Receive(t) PROVE StreamInv'
  BY <1>4, EndedKeepsStream, ReceiveKeepsStream
<1>5. ASSUME NEW t \in Subscribers, Request(t) \/ Handshake(t) \/ Forward(t) \/ ChannelClosed(t) PROVE StreamInv'
  BY <1>5, RequestKeepsStream, HandshakeKeepsStream, ForwardKeepsStream, ChannelClosedKeepsStream
<1>6. CASE UNCHANGED streamVars
  <2>1. UNCHANGED <<busVars, handler, wire, lastSeq, applied>>
    BY <1>6 DEF streamVars, clientVars
  <2>2. BusInv' /\ UNCHANGED <<seq, ch, state, pos>>
    BY <2>1, BusUntouched DEF StreamInv
  <2> QED
    BY <2>1, <2>2 DEF StreamInv, StreamTypes, Tab
<1> QED
  BY <1>1, <1>2, <1>3, <1>4, <1>5, <1>6 DEF StreamNext

\* Over any number of lost connections, resubscriptions, overflows and
\* restarts, every event that waits in a handler's channel or is on its way to
\* a tab comes after the last one the tab dispatched, so none is dispatched
\* twice (Bus.Subscribe and getEvents on the server, buildUrl and handleMessage
\* in the browser).
THEOREM StreamNeverRepeats == StreamSpec => []NothingAppliedTwice
<1>1. StreamInv => NothingAppliedTwice
  <2> SUFFICES ASSUME StreamInv, NEW t \in Subscribers
               PROVE  /\ \A i \in 1..Len(wire[t]) : wire[t][i].type = "event" => wire[t][i].seq > applied[t]
                      /\ \A i \in 1..Len(ch[t]) : ch[t][i] > applied[t]
    BY DEF NothingAppliedTwice
  <2>1. /\ Tab(t) /\ Contiguous(t) /\ applied[t] \in Nat /\ pos[t] \in Nat
        /\ wire[t] \in Seq(Frame) /\ ch[t] \in Seq(Nat)
        /\ handler[t] \in {"none", "opening", "hello", "stream", "ended"}
    BY DEF StreamInv, StreamTypes, BusInv, TypeOK, ChannelInv
  <2>2. ASSUME NEW i \in 1..Len(wire[t]), wire[t][i].type = "event" PROVE wire[t][i].seq > applied[t]
    <3>1. applied[t] < wire[t][i].seq
      BY <2>1, <2>2 DEF Tab, OrderedFrames
    <3> QED
      BY <3>1
  <2>3. ASSUME NEW i \in 1..Len(ch[t]) PROVE ch[t][i] > applied[t]
    <3>1. ch[t] # <<>> /\ i \in Nat /\ i >= 1
      BY <2>1
    <3>2. applied[t] <= pos[t] /\ ch[t][i] = pos[t] + i
      BY <2>1, <3>1 DEF Tab, Contiguous
    <3> QED
      BY <2>1, <3>1, <3>2
  <2> QED
    BY <2>2, <2>3
<1> QED
  BY <1>1, StreamBegins, StreamStep, PTL DEF StreamSpec
=============================================================================
