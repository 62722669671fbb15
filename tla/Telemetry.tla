------------------------------ MODULE Telemetry ------------------------------
(***************************************************************************)
(* From the KNX bus to the server's register of current values: the daemon *)
(* handles bus telegrams, batches them, publishes the batches, or buffers  *)
(* them while it is not connected, and from time to time publishes the     *)
(* value of every object (publish_meta, whose other half is in             *)
(* SchemaSync).  The broker keeps the last state of each address and       *)
(* replays it to a server that reconnects.  The server is the register     *)
(* NewestWins, which CurrentState implements.                              *)
(*                                                                         *)
(* The daemon is one Lua thread: telegrams are handled in lb:step(), MQTT  *)
(* callbacks run inside client:loop(), and both are called by the main     *)
(* loop, so each action below is one uninterrupted piece of it.            *)
(***************************************************************************)
EXTENDS Integers, Sequences, FiniteSets, SequencesExt

CONSTANTS
  Objects,      \* group addresses
  Values,       \* KNX values
  BatchMax,     \* batch_max_size
  BufferSize,   \* buffer_size
  MaxTime,      \* bound: seconds
  MaxInputs,    \* bound: writes on the bus and exports requested
  MaxNet,       \* bound: messages in the network when an export starts
  MaxFaults     \* bound: lost links, restarts, failed handlers, dropped telegrams

ASSUME TelemetryConstants ==
  /\ IsFiniteSet(Objects)
  /\ "none" \notin Values
  /\ BatchMax \in Nat \ {0} /\ BufferSize \in Nat
  /\ MaxTime \in Nat /\ MaxInputs \in Nat /\ MaxNet \in Nat /\ MaxFaults \in Nat

VARIABLES
  bus,        \* the objects' values in the controller
  telegrams,  \* the local bus queue of the daemon
  now,        \* os.time()
  seq,        \* S.seq
  batch,      \* event_batch
  connected,  \* S.connected
  metaSent,   \* S.meta_sent
  exported,   \* S.last_snapshot_ts # 0
  buffer,     \* messages kept while not connected
  link,       \* is there really a session with the broker
  retained,   \* the broker's retained state/ga messages
  net,        \* messages between broker and server, in order
  reg,        \* the server's register
  recorded,   \* sequence numbers in the server's events table
  lost,       \* history: was any message or telegram lost
  inputs, faults

daemon == <<telegrams, seq, batch, connected, metaSent, exported, buffer>>
broker == <<link, retained, net>>
server == <<reg, recorded>>
vars == <<bus, daemon, now, broker, server, lost, inputs, faults>>

Register == INSTANCE NewestWins WITH Addresses <- Objects, Values <- Values \cup {"none"},
                                     Batches <- {}

Nothing == [ts |-> 0, value |-> "none"]
Items == [ga : Objects, ts : Nat, value : Values, seq : Nat]

Kinds == {"events", "states", "state"}
Messages == [kind : Kinds, items : Seq(Items)]

NoState == [kind |-> "state", items |-> <<>>]

Init ==
  /\ bus \in [Objects -> Values]
  /\ telegrams = <<>>
  /\ now = 1
  /\ seq = 0
  /\ batch = <<>>
  /\ connected = FALSE /\ metaSent = FALSE /\ exported = FALSE
  /\ buffer = <<>>
  /\ link = "down"
  /\ retained = [g \in Objects |-> NoState]
  /\ net = <<>>
  /\ reg = [g \in Objects |-> Nothing]
  /\ recorded = {}
  /\ lost = FALSE
  /\ inputs = 0 /\ faults = 0

-----------------------------------------------------------------------------
(* Publishing.                                                             *)

\* The buffer drops its oldest messages.
Kept(messages) ==
  IF Len(messages) > BufferSize
    THEN SubSeq(messages, Len(messages) - BufferSize + 1, Len(messages)) ELSE messages

RetainedAfter(messages) ==
  [g \in Objects |->
     IF \E k \in DOMAIN messages : messages[k].kind = "state" /\ messages[k].items[1].ga = g
       THEN messages[CHOOSE k \in DOMAIN messages :
              /\ messages[k].kind = "state" /\ messages[k].items[1].ga = g
              /\ \A j \in DOMAIN messages : j > k => \/ messages[j].kind # "state"
                                                    \/ messages[j].items[1].ga # g]
       ELSE retained[g]]

\* The first n of the messages reach the broker; the link breaks if n is less
\* than all of them.
Reach(messages, n) ==
  /\ net' = net \o SubSeq(messages, 1, n)
  /\ retained' = RetainedAfter(SubSeq(messages, 1, n))
  /\ IF n = Len(messages)
       THEN UNCHANGED <<link, lost, faults>>
       ELSE /\ faults < MaxFaults
            /\ faults' = faults + 1
            /\ link' = "down"
            /\ lost' = TRUE

\* do_pub of each message.  A daemon that has not noticed that its link is
\* down publishes into nothing.
Publish(messages) ==
  IF ~connected
    THEN /\ buffer' = Kept(buffer \o messages)
         /\ lost' = (lost \/ Len(buffer) + Len(messages) > BufferSize)
         /\ UNCHANGED <<broker, faults>>
    ELSE /\ UNCHANGED buffer
         /\ IF link = "up"
              THEN \E n \in 0..Len(messages) : Reach(messages, n)
              ELSE lost' = TRUE /\ UNCHANGED <<broker, faults>>

-----------------------------------------------------------------------------
(* The bus and the daemon's handling of it.                                *)

\* An object is written on the bus.
Write(g, v) ==
  /\ inputs < MaxInputs
  /\ inputs' = inputs + 1
  /\ bus' = [bus EXCEPT ![g] = v]
  /\ telegrams' = Append(telegrams, [ga |-> g, value |-> v])
  /\ UNCHANGED <<now, seq, batch, connected, metaSent, exported, buffer, broker, server,
                 lost, faults>>

Tick ==
  /\ now < MaxTime
  /\ now' = now + 1
  /\ UNCHANGED <<bus, daemon, broker, server, lost, inputs, faults>>

\* ... or the telegram is dropped: throttled, or of an object that is not
\* found while the objects are being changed.
DropTelegram ==
  /\ telegrams # <<>>
  /\ faults < MaxFaults
  /\ faults' = faults + 1
  /\ telegrams' = Tail(telegrams)
  /\ lost' = TRUE
  /\ UNCHANGED <<bus, now, seq, batch, connected, metaSent, exported, buffer, broker, server,
                 inputs>>

\* The order in which pairs() walks a table with these keys: any.
Pairs == [keys \in SUBSET Objects |-> SetToSeq(keys)]

\* mutant: the first state of each address is kept
FirstOf(items, g) ==
  items[CHOOSE k \in DOMAIN items :
          items[k].ga = g /\ \A j \in DOMAIN items : j < k => items[j].ga # g]

\* state_by_ga[g]: a later state replaces an earlier one.
LastOf(items, g) ==
  items[CHOOSE k \in DOMAIN items :
          items[k].ga = g /\ \A j \in DOMAIN items : j > k => items[j].ga # g]

LastStates(items) ==
  LET order == Pairs[{items[k].ga : k \in DOMAIN items}]
  IN  [k \in DOMAIN order |-> LastOf(items, order[k])]

State(i) == [kind |-> "state", items |-> <<i>>]

\* mutant: the telegram that fills the batch misses its events
BatchMessagesShort(items) ==
  LET states == LastStates(items) IN
  <<[kind |-> "events", items |-> SubSeq(items, 1, BatchMax - 1)],
    [kind |-> "states", items |-> states]>>
  \o [k \in DOMAIN states |-> State(states[k])]

\* flush_batch: the events, the last states, and each of these retained.
BatchMessages(items) ==
  LET states == LastStates(items) IN
  <<[kind |-> "events", items |-> items], [kind |-> "states", items |-> states]>>
  \o [k \in DOMAIN states |-> State(states[k])]

\* handle_bus_event: a full batch is flushed at once.
HandleTelegram ==
  LET t == Head(telegrams)
      items == Append(batch, [ga |-> t.ga, ts |-> now, value |-> t.value, seq |-> seq + 1])
  IN
  /\ telegrams # <<>>
  /\ telegrams' = Tail(telegrams)
  /\ seq' = seq + 1
  /\ IF Len(items) >= BatchMax
       THEN batch' = <<>> /\ Publish(BatchMessages(items))
       ELSE batch' = items /\ UNCHANGED <<buffer, broker, lost, faults>>
  /\ UNCHANGED <<bus, now, connected, metaSent, exported, server, inputs>>

\* batch_interval after the last flush.
FlushBatch ==
  /\ batch # <<>>
  /\ Publish(BatchMessages(batch))
  /\ batch' = <<>>
  /\ UNCHANGED <<bus, telegrams, now, seq, connected, metaSent, exported, server, inputs>>

-----------------------------------------------------------------------------
(* publish_meta: the values of all objects, retained.                      *)

\* Sorted by address.
Sorted == SetToSeq(Objects)

ObjectStates ==
  [k \in DOMAIN Sorted |->
     State([ga |-> Sorted[k], ts |-> now, value |-> bus[Sorted[k]], seq |-> 0])]

\* last_snapshot_ts is set at the end.
ExportAll ==
  /\ Publish(ObjectStates)
  /\ exported' = TRUE

\* The export raises before anything is published; pcall swallows it.
ExportRaises == UNCHANGED <<exported, buffer, broker, lost>>

\* Once per daemon, when it is first connected.
FirstExport ==
  /\ connected /\ ~metaSent
  /\ Len(net) <= MaxNet
  /\ metaSent' = TRUE
  /\ \/ ExportAll
     \/ /\ faults < MaxFaults /\ faults' = faults + 1
        /\ ExportRaises
  /\ UNCHANGED <<bus, telegrams, now, seq, batch, connected, server, inputs>>

\* mutant: a snapshot needs the first export of this connection
SnapshotDueFirst == connected /\ exported /\ ~metaSent

SnapshotDue == connected /\ exported

\* Every snapshot_interval seconds, when a first export was completed.
Snapshot ==
  /\ SnapshotDue
  /\ Len(net) <= MaxNet
  /\ ExportAll
  /\ UNCHANGED <<bus, telegrams, now, seq, batch, connected, metaSent, server, inputs>>

\* force_export, connected or not.
ForceExport ==
  /\ inputs < MaxInputs
  /\ inputs' = inputs + 1
  /\ ExportAll
  /\ UNCHANGED <<bus, telegrams, now, seq, batch, connected, metaSent, server>>

-----------------------------------------------------------------------------
(* The connection.                                                         *)

\* The link breaks between two publications.
LinkBreaks ==
  /\ link = "up"
  /\ faults < MaxFaults
  /\ faults' = faults + 1
  /\ link' = "down"
  /\ UNCHANGED <<bus, daemon, now, retained, net, server, lost, inputs>>

\* ON_DISCONNECT, or client:loop fails.
Disconnected ==
  /\ connected /\ link = "down"
  /\ connected' = FALSE
  /\ UNCHANGED <<bus, telegrams, now, seq, batch, metaSent, exported, buffer, broker, server,
                 lost, inputs, faults>>

\* mutant: the newest message goes first
NewestFirst == Reverse(buffer)

InOrder == buffer

\* ON_CONNECT: the buffer is published in order and emptied, also when the
\* publishing breaks off.
Connected ==
  /\ ~connected /\ link = "down"
  /\ connected' = TRUE
  /\ buffer' = <<>>
  /\ \E n \in 0..Len(buffer) :
       /\ net' = net \o SubSeq(InOrder, 1, n)
       /\ retained' = RetainedAfter(SubSeq(InOrder, 1, n))
       /\ link' = "up"
       /\ IF n = Len(buffer) THEN UNCHANGED <<lost, faults>>
          ELSE faults < MaxFaults /\ faults' = faults + 1 /\ lost' = TRUE
  /\ UNCHANGED <<bus, telegrams, now, seq, batch, metaSent, exported, server, inputs>>

\* The daemon's process ends and the watchdog, or the platform, starts it.
Restart ==
  /\ faults < MaxFaults
  /\ faults' = faults + 1
  /\ telegrams' = <<>> /\ batch' = <<>> /\ buffer' = <<>>
  /\ seq' = 0
  /\ connected' = FALSE /\ metaSent' = FALSE /\ exported' = FALSE
  /\ link' = "down"
  /\ lost' = TRUE
  /\ UNCHANGED <<bus, now, retained, net, server, inputs>>

-----------------------------------------------------------------------------
(* The server.                                                             *)

\* A message is handled: events are recorded, values go to the register.
Deliver ==
  LET m == Head(net) IN
  /\ net # <<>>
  /\ net' = Tail(net)
  /\ reg' = Register!After(reg, m.items)
  /\ recorded' = IF m.kind = "events" THEN recorded \cup {m.items[k].seq : k \in DOMAIN m.items}
                 ELSE recorded
  /\ UNCHANGED <<bus, daemon, now, link, retained, lost, inputs, faults>>

\* ... or its handler raises.
DeliverFails ==
  /\ net # <<>>
  /\ faults < MaxFaults
  /\ faults' = faults + 1
  /\ net' = Tail(net)
  /\ lost' = TRUE
  /\ UNCHANGED <<bus, daemon, now, link, retained, server, inputs>>

Replay == {retained[g] : g \in Objects} \ {NoState}

\* The server reconnects: the retained states come, in any order.
ServerReconnects ==
  /\ faults < MaxFaults
  /\ faults' = faults + 1
  /\ net' \in {q \in [1..Cardinality(Replay) -> Replay] : Range(q) = Replay}
  /\ lost' = TRUE
  /\ UNCHANGED <<bus, daemon, now, link, retained, server, inputs>>

Next ==
  \/ \E g \in Objects, v \in Values : Write(g, v)
  \/ Tick
  \/ HandleTelegram
  \/ DropTelegram
  \/ FlushBatch
  \/ FirstExport
  \/ Snapshot
  \/ ForceExport
  \/ LinkBreaks
  \/ Disconnected
  \/ Connected
  \/ Restart
  \/ Deliver
  \/ DeliverFails
  \/ ServerReconnects

Spec == Init /\ [][Next]_vars

\* The exports of the main loop and the MQTT loop run, and the broker accepts the
\* daemon again; nothing need happen on the bus, nor reach the daemon from there.
Fairness ==
  /\ WF_vars(FirstExport) /\ WF_vars(Snapshot)
  /\ WF_vars(Disconnected) /\ WF_vars(Connected)
  /\ WF_vars(Deliver)

FairSpec == Spec /\ Fairness

-----------------------------------------------------------------------------
(* Properties.                                                             *)

\* Type invariant.
TypeOK ==
  /\ bus \in [Objects -> Values]
  /\ telegrams \in Seq([ga : Objects, value : Values])
  /\ now \in Nat /\ seq \in Nat
  /\ batch \in Seq(Items) /\ Len(batch) < BatchMax
  /\ connected \in BOOLEAN /\ metaSent \in BOOLEAN /\ exported \in BOOLEAN
  /\ buffer \in Seq(Messages) /\ Len(buffer) <= BufferSize
  /\ link \in {"up", "down"}
  /\ retained \in [Objects -> Messages]
  /\ net \in Seq(Messages)
  /\ reg \in [Objects -> [ts : Nat, value : Values \cup {"none"}]]
  /\ recorded \subseteq Nat
  /\ lost \in BOOLEAN
  /\ inputs \in Nat /\ faults \in Nat

EventsIn(messages) ==
  UNION {{messages[k].items[i].seq : i \in DOMAIN messages[k].items} :
           k \in {j \in DOMAIN messages : messages[j].kind = "events"}}

\* Events reach the server in the order they were handled and without gaps,
\* through batch, buffer and reconnections, as long as the link did not break
\* under a publication and the buffer had room.
EventsInOrder ==
  ~lost => /\ recorded = 1..Cardinality(recorded)
           /\ recorded \cup EventsIn(net) \cup EventsIn(buffer)
                \cup {batch[k].seq : k \in DOMAIN batch} = 1..seq

Quiet == telegrams = <<>> /\ batch = <<>> /\ buffer = <<>> /\ net = <<>>

\* When nothing was lost and nothing is under way, the register holds what is
\* on the bus, whatever snapshots and batches overtook each other.
QuietAgrees ==
  ~lost /\ Quiet /\ exported => \A g \in Objects : reg[g].value = bus[g]

\* Whatever was lost, once the bus is quiet and the faults are over the
\* snapshots bring the register to the values on the bus, and it stays there;
\* unless the daemon that is left running never completed an export, because its
\* first one raised: then there are no snapshots.
Converges == <>[](~exported) \/ <>[](\A g \in Objects : reg[g].value = bus[g])

=============================================================================
