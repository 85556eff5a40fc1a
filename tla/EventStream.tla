---------------------------- MODULE EventStream ----------------------------
(***************************************************************************)
(* The live updates end to end: the bus, the handler of GET /events        *)
(* (internal/api/system.go) and the store of a browser tab                 *)
(* (web/src/stores/events.ts).  A subscriber is a tab: it has one source   *)
(* at a time and each source one handler with one subscription.            *)
(***************************************************************************)
EXTENDS EventBus

CONSTANTS
  WireCap,      \* frames the connection holds before the handler's write blocks
  MaxDrops,     \* bound on lost connections
  MaxRestarts   \* bound on restarts of the server

ASSUME EventStreamAssumption ==
  /\ WireCap \in Nat /\ WireCap >= 2
  /\ MaxDrops \in Nat
  /\ MaxRestarts \in Nat

VARIABLES
  handler,     \* "none", "opening", "hello", "stream", or "ended"
  wire,        \* frames written and not yet received
  connection,  \* the store's state
  lastSeq,     \* the store's position
  timer,       \* reconnectTimer is set
  drops,       \* connections lost so far
  life,        \* which server process this is
  known,       \* the events of this process that the tab's views reflect
  applied      \* the last event of this process the tab dispatched

busVars    == vars
clientVars == <<connection, lastSeq, timer, known, applied>>
streamVars == <<busVars, handler, wire, drops, life, clientVars>>

Frame == [type : {"hello", "resync", "event"}, seq : Nat, replay : BOOLEAN]

StreamTypeOK ==
  /\ TypeOK
  /\ handler \in [Subscribers -> {"none", "opening", "hello", "stream", "ended"}]
  /\ wire \in [Subscribers -> Seq(Frame)]
  /\ \A t \in Subscribers : Len(wire[t]) <= WireCap
  /\ connection \in [Subscribers ->
       {"idle", "connecting", "live", "reconnecting", "resyncing"}]
  /\ lastSeq \in [Subscribers -> Nat]
  /\ timer \in [Subscribers -> BOOLEAN]
  /\ drops \in 0..MaxDrops
  /\ life \in 0..MaxRestarts
  /\ known \in [Subscribers -> SUBSET Nat]
  /\ applied \in [Subscribers -> Nat]

StreamInit ==
  /\ Init
  /\ handler = [t \in Subscribers |-> "none"]
  /\ wire = [t \in Subscribers |-> <<>>]
  /\ connection = [t \in Subscribers |-> "idle"]
  /\ lastSeq = [t \in Subscribers |-> 0]
  /\ timer = [t \in Subscribers |-> FALSE]
  /\ drops = 0
  /\ life = 0
  /\ known = [t \in Subscribers |-> {}]
  /\ applied = [t \in Subscribers |-> 0]

-----------------------------------------------------------------------------
(* The store. *)

\* The position a reconnection asks for.
buildUrl(t) == IF lastSeq[t] > 0 THEN lastSeq[t] + 1 ELSE 0

\* The views refetch over REST and so reflect all that has happened.
Refetch(t) == known' = [known EXCEPT ![t] = 1..seq]

KeepViews == UNCHANGED <<known, applied>>

\* Mutant: a tab that is already reconnecting does not schedule another attempt.
scheduleReconnect_ByState(t) ==
  /\ connection' = [connection EXCEPT ![t] =
       IF timer[t] \/ @ = "resyncing" THEN @ ELSE "reconnecting"]
  /\ timer' = [timer EXCEPT ![t] = @ \/ connection[t] # "reconnecting"]

\* One timer at a time; a resync in progress is not overwritten.
scheduleReconnect(t) ==
  /\ connection' = [connection EXCEPT ![t] =
       IF timer[t] \/ @ = "resyncing" THEN @ ELSE "reconnecting"]
  /\ timer' = [timer EXCEPT ![t] = TRUE]

triggerResync(t) ==
  /\ connection' = [connection EXCEPT ![t] = "resyncing"]
  /\ timer' = [timer EXCEPT ![t] = TRUE]
  /\ Refetch(t)

\* The tab's connection is gone.  Its handler's context is cancelled, which
\* closes its subscription; until then the subscription affects nobody else.
Disconnected(t, next) ==
  /\ wire' = [wire EXCEPT ![t] = <<>>]
  /\ handler' = [handler EXCEPT ![t] = next]
  /\ IF state[t] = "none" THEN UNCHANGED busVars ELSE Close(t)

\* open: detach from the previous source and request a new one.
open(t) ==
  /\ Disconnected(t, "opening")
  /\ connection' = [connection EXCEPT ![t] =
       IF @ = "resyncing" THEN @
       ELSE IF lastSeq[t] > 0 THEN "reconnecting" ELSE "connecting"]
  /\ UNCHANGED <<lastSeq, drops, life>>

\* connect, when the application mounts and its views load.
Mount(t) ==
  /\ connection[t] = "idle"
  /\ open(t)
  /\ Refetch(t)
  /\ UNCHANGED <<timer, applied>>

\* disconnect, when it unmounts.  The page is gone and with it the store: the
\* next to mount is a fresh one.
Unmount(t) ==
  /\ connection[t] # "idle"
  /\ Disconnected(t, "none")
  /\ timer' = [timer EXCEPT ![t] = FALSE]
  /\ connection' = [connection EXCEPT ![t] = "idle"]
  /\ lastSeq' = [lastSeq EXCEPT ![t] = 0]
  /\ known' = [known EXCEPT ![t] = {}]
  /\ applied' = [applied EXCEPT ![t] = 0]
  /\ UNCHANGED <<drops, life>>

\* The reconnection timer fires.
Fire(t) ==
  /\ timer[t]
  /\ timer' = [timer EXCEPT ![t] = FALSE]
  /\ open(t)
  /\ KeepViews

\* onerror: the connection was lost, or refused.
Drop(t) ==
  /\ drops < MaxDrops
  /\ handler[t] \in {"opening", "hello", "stream"}
  /\ drops' = drops + 1
  /\ Disconnected(t, "none")
  /\ scheduleReconnect(t)
  /\ KeepViews
  /\ UNCHANGED <<lastSeq, life>>

\* onerror: the handler returned and all that it wrote has been received.
Ended(t) ==
  /\ handler[t] = "ended"
  /\ wire[t] = <<>>
  /\ handler' = [handler EXCEPT ![t] = "none"]
  /\ scheduleReconnect(t)
  /\ KeepViews
  /\ UNCHANGED <<busVars, wire, lastSeq, drops, life>>

\* handleMessage for hello.  It comes before what is replayed and moves the
\* position to the end of the stream.
ReceiveHello(t, frame) ==
  /\ frame.type = "hello"
  /\ lastSeq' = [lastSeq EXCEPT ![t] = frame.seq]
  /\ \/ /\ ~frame.replay /\ lastSeq[t] > 0
        /\ triggerResync(t)
     \/ /\ frame.replay \/ lastSeq[t] = 0
        /\ connection' = [connection EXCEPT ![t] = "live"]
        /\ UNCHANGED <<timer, known>>
  /\ UNCHANGED applied

\* handleMessage for resync.required.
ReceiveResync(t, frame) ==
  /\ frame.type = "resync"
  /\ lastSeq' = [lastSeq EXCEPT ![t] = frame.seq]
  /\ triggerResync(t)
  /\ UNCHANGED applied

\* handleMessage for an event of the bus.
ReceiveEvent(t, frame) ==
  /\ frame.type = "event"
  /\ lastSeq' = [lastSeq EXCEPT ![t] = frame.seq]
  /\ applied' = [applied EXCEPT ![t] = frame.seq]
  /\ known' = [known EXCEPT ![t] = @ \union {frame.seq}]
  /\ UNCHANGED <<connection, timer>>

\* handleMessage when the frame does not parse or a listener throws: the
\* position is not advanced.
ReceiveFails(t, frame) ==
  /\ frame.type = "event"
  /\ triggerResync(t)
  /\ UNCHANGED <<lastSeq, applied>>

Receive(t) ==
  /\ wire[t] # <<>>
  /\ wire' = [wire EXCEPT ![t] = Tail(@)]
  /\ \/ ReceiveHello(t, Head(wire[t]))
     \/ ReceiveResync(t, Head(wire[t]))
     \/ ReceiveEvent(t, Head(wire[t]))
     \/ ReceiveFails(t, Head(wire[t]))
  /\ UNCHANGED <<busVars, handler, drops, life>>

-----------------------------------------------------------------------------
(* The handler, getEvents. *)

\* The request arrives and the handler subscribes.
Request(t) ==
  /\ handler[t] = "opening"
  /\ Subscribe(t, buildUrl(t))
  /\ handler' = [handler EXCEPT ![t] = "hello"]
  /\ UNCHANGED <<wire, drops, life, clientVars>>

\* A frame the handler generates itself, stamped with the counter's value when
\* it is written, which may be later than the subscription.
handshakeEvent(type, answer) == [type |-> type, seq |-> seq, replay |-> answer]

Handshake(t) ==
  /\ handler[t] = "hello"
  /\ wire' = [wire EXCEPT ![t] = @ \o
       <<handshakeEvent("hello", replayable[t])>> \o
       (IF replayable[t] THEN <<>> ELSE <<handshakeEvent("resync", FALSE)>>)]
  /\ handler' = [handler EXCEPT ![t] = "stream"]
  /\ UNCHANGED <<busVars, drops, life, clientVars>>

\* An event is received from the channel and written.
Forward(t) ==
  /\ handler[t] = "stream"
  /\ Len(wire[t]) < WireCap
  /\ Take(t)
  /\ wire' = [wire EXCEPT ![t] =
       Append(@, [type |-> "event", seq |-> Head(ch[t]), replay |-> FALSE])]
  /\ UNCHANGED <<handler, drops, life, clientVars>>

\* Mutant: the handler returns without a word.
ChannelClosed_Silent(t) ==
  /\ handler[t] = "stream"
  /\ state[t] = "closed" /\ ch[t] = <<>>
  /\ Len(wire[t]) < WireCap
  /\ handler' = [handler EXCEPT ![t] = "ended"]
  /\ Close(t)
  /\ UNCHANGED <<wire, drops, life, clientVars>>

\* The channel is closed and drained; the deferred Close does nothing more.
ChannelClosed(t) ==
  /\ handler[t] = "stream"
  /\ state[t] = "closed" /\ ch[t] = <<>>
  /\ Len(wire[t]) < WireCap
  /\ wire' = [wire EXCEPT ![t] =
       IF overflowed[t] THEN Append(@, handshakeEvent("resync", FALSE)) ELSE @]
  /\ handler' = [handler EXCEPT ![t] = "ended"]
  /\ Close(t)
  /\ UNCHANGED <<drops, life, clientVars>>

-----------------------------------------------------------------------------
(* The server. *)

EmitEvent ==
  /\ Emit
  /\ UNCHANGED <<handler, wire, drops, life, clientVars>>

\* The process ends and another one starts, with its sequence at zero.  Every
\* connection is lost and every tab will be told so by its source.
Restart ==
  /\ life < MaxRestarts
  /\ life' = life + 1
  /\ seq' = 0 /\ buffer' = <<>> /\ start' = 0
  /\ ch' = [t \in Subscribers |-> <<>>]
  /\ state' = [t \in Subscribers |-> "none"]
  /\ overflowed' = [t \in Subscribers |-> FALSE]
  /\ asked' = [t \in Subscribers |-> 0]
  /\ replayable' = [t \in Subscribers |-> TRUE]
  /\ pos' = [t \in Subscribers |-> 0]
  /\ wire' = [t \in Subscribers |-> <<>>]
  /\ handler' = [t \in Subscribers |->
       IF handler[t] \in {"none", "opening"} THEN handler[t] ELSE "ended"]
  /\ known' = [t \in Subscribers |-> {}]
  /\ applied' = [t \in Subscribers |-> 0]
  /\ UNCHANGED <<drops, connection, lastSeq, timer>>

StreamNext ==
  \/ EmitEvent
  \/ Restart
  \/ \E t \in Subscribers :
       \/ Mount(t) \/ Unmount(t) \/ Fire(t) \/ Drop(t) \/ Ended(t) \/ Receive(t)
       \/ Request(t) \/ Handshake(t) \/ Forward(t) \/ ChannelClosed(t)

StreamSpec == StreamInit /\ [][StreamNext]_streamVars

\* A mounted tab's timers fire, its messages are handled and its requests are
\* served.  Nothing has to be emitted, no connection has to be lost.
StreamFairness ==
  \A t \in Subscribers :
    /\ WF_streamVars(Fire(t)) /\ WF_streamVars(Ended(t))
    /\ WF_streamVars(Receive(t)) /\ WF_streamVars(Request(t))
    /\ WF_streamVars(Handshake(t)) /\ WF_streamVars(Forward(t))
    /\ WF_streamVars(ChannelClosed(t))

LiveStreamSpec == StreamSpec /\ StreamFairness

-----------------------------------------------------------------------------
(* Properties. *)

\* An event reaches the views of a tab at most once, over any number of
\* reconnections: what is on its way comes after what was dispatched.
NothingAppliedTwice ==
  \A t \in Subscribers :
    /\ \A i \in 1..Len(wire[t]) :
         wire[t][i].type = "event" => wire[t][i].seq > applied[t]
    /\ \A i \in 1..Len(ch[t]) : ch[t][i] > applied[t]

\* system.go: a client that fell behind "recovers" rather than "quietly shows
\* stale state forever".  Only the loss of the very connection the notice is
\* written to can keep it from the tab.
FallBehindIsNoticed ==
  \A t \in Subscribers, d \in 0..MaxDrops, l \in 0..MaxRestarts :
    overflowed[t] /\ drops = d /\ life = l
      ~> connection[t] \in {"resyncing", "idle"} \/ drops > d \/ life > l

\* A lost stream is always reopened: the store never waits for a timer that is
\* not set.
Reconnects ==
  \A t \in Subscribers :
    connection[t] = "reconnecting" ~> connection[t] # "reconnecting"

\* events.go: "a client that saw 1043 and reconnects asking for 1044 gets exactly
\* what it missed, in order, with no duplicates and no gaps".  A resumed tab
\* that has received all that was sent reflects every event from the one it asked
\* for.
NoHiddenGap ==
  \A t \in Subscribers :
    ( /\ connection[t] = "live" /\ asked[t] > 0
      /\ handler[t] = "stream" /\ state[t] = "open"
      /\ wire[t] = <<>> /\ ch[t] = <<>> ) => asked[t]..seq \subseteq known[t]
=============================================================================
