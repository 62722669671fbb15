----------------------------- MODULE SchemaSync -----------------------------
(***************************************************************************)
(* How the object catalogue of a controller reaches the server.  The       *)
(* daemon's publish_meta exports the objects sorted by group address, in   *)
(* one retained message, or in numbered retained chunks when there are     *)
(* many.  The MQTT loop buffers chunks by schema hash, and stores a        *)
(* complete export: it upserts the exported objects and deactivates the    *)
(* other active objects of the controller.                                 *)
(*                                                                         *)
(* The schema hash is a hash of the sorted addresses only, so a set of     *)
(* addresses stands for it; the other attributes of an object (name, type, *)
(* units ...) are represented by the number of the export they come from.  *)
(* The server connects with a clean session: what is published while it is *)
(* away reaches it only as the retained messages of the broker, which are  *)
(* replayed in any order.                                                  *)
(***************************************************************************)
EXTENDS Integers, Sequences, FiniteSets

CONSTANTS
  Addresses,    \* group addresses, in the order of the sort
  Catalogs,     \* the object sets the controller may have
  ChunkSize,    \* CHUNK_SIZE of the daemon
  MaxExports,   \* bound: exports
  MaxRepeats,   \* bound: messages the daemon's client transmits twice
  MaxReplays,   \* bound: reconnections and restarts of the server
  MaxFaults     \* bound: messages passed over and handlers that raise

ASSUME SchemaConstants ==
  /\ Addresses \subseteq Int /\ IsFiniteSet(Addresses)
  /\ Catalogs \subseteq ((SUBSET Addresses) \ {{}})
  /\ ChunkSize \in Nat \ {0}
  /\ MaxExports \in Nat /\ MaxRepeats \in Nat /\ MaxReplays \in Nat /\ MaxFaults \in Nat

VARIABLES
  exports,    \* sequence of exported catalogues; export n has attributes n
  sent,       \* did every message of the last export reach the broker
  cut,        \* history: did an export lose its first messages only
  retained,   \* the broker's retained message of each topic
  net,        \* messages between broker and MQTT loop, in order
  buffer,     \* _chunk_buffer: by hash, the export each chunk comes from; 0: not received
  versions,   \* schema_versions: the stored hashes
  active,     \* objects.is_active; "absent": no row
  attrs,      \* objects' attributes: the export they come from
  hash,       \* objects.schema_hash
  repeats, replays, faults

vars == <<exports, sent, cut, retained, net, buffer, versions, active, attrs, hash, repeats,
          replays, faults>>

database == <<versions, active, attrs, hash>>

-----------------------------------------------------------------------------
(* Exports, chunks and messages.                                           *)

\* The number of the chunk that holds o when S is exported.
ChunkOf(S, o) == (Cardinality({p \in S : p < o}) \div ChunkSize) + 1

Total(S) == (Cardinality(S) + ChunkSize - 1) \div ChunkSize

\* Topic 0 is meta/objects, topic n is meta/objects/chunk/n.
Topics == 0..Cardinality(Addresses)

NoneRetained == [topic |-> 0, hash |-> {}, from |-> 0]

Message(n, S, t) == [topic |-> t, hash |-> S, from |-> n]

\* publish_meta: one message, or the chunks in order.
MessagesOf(n, S) ==
  IF Cardinality(S) <= ChunkSize THEN <<Message(n, S, 0)>>
  ELSE [k \in 1..Total(S) |-> Message(n, S, k)]

NothingReceived == [k \in Topics \ {0} |-> 0]

Last == Len(exports)

Catalog == IF Last = 0 THEN {} ELSE exports[Last]

Init ==
  /\ exports = <<>>
  /\ sent = TRUE
  /\ cut = FALSE
  /\ retained = [t \in Topics |-> NoneRetained]
  /\ net = <<>>
  /\ buffer = [S \in SUBSET Addresses |-> NothingReceived]
  /\ versions = {}
  /\ active = [o \in Addresses |-> "absent"]
  /\ attrs = [o \in Addresses |-> 0]
  /\ hash = [o \in Addresses |-> {}]
  /\ repeats = 0 /\ replays = 0 /\ faults = 0

-----------------------------------------------------------------------------
(* The daemon.                                                             *)

\* An export, of which one section of the messages reaches the broker: the
\* connection may break under it, and what is published without a connection
\* waits in a buffer that drops its oldest messages when it is full and is
\* given up where its flush fails.
Export(S) ==
  LET all == MessagesOf(Last + 1, S) IN
  /\ Last < MaxExports
  /\ exports' = Append(exports, S)
  /\ \E first \in 1..Len(all), n \in 0..Len(all) :
       LET some == SubSeq(all, first, n) IN
       /\ sent' = (some = all)
       /\ cut' = (cut \/ (some # <<>> /\ first > 1))
       /\ net' = net \o some
       /\ retained' = [t \in Topics |-> IF \E k \in first..n : all[k].topic = t
                                          THEN Message(Last + 1, S, t) ELSE retained[t]]
  /\ UNCHANGED <<buffer, database, repeats, replays, faults>>

\* The daemon's client transmits a message of the last export again, because
\* its PUBACK was lost (QoS 1).
Repeat(t) ==
  /\ repeats < MaxRepeats
  /\ Last > 0 /\ retained[t].from = Last
  /\ repeats' = repeats + 1
  /\ net' = Append(net, retained[t])
  /\ UNCHANGED <<exports, sent, cut, retained, buffer, database, replays, faults>>

-----------------------------------------------------------------------------
(* The server.                                                             *)

Retained == {retained[t] : t \in Topics} \ {NoneRetained}

Orders(M) == {q \in [1..Cardinality(M) -> M] : \A m \in M : \E i \in DOMAIN q : q[i] = m}

\* The MQTT loop reconnects; a restart of the process also loses the buffer.
Reconnect(restarted) ==
  /\ replays < MaxReplays
  /\ replays' = replays + 1
  /\ net' \in Orders(Retained)
  /\ buffer' = IF restarted THEN [S \in SUBSET Addresses |-> NothingReceived] ELSE buffer
  /\ UNCHANGED <<exports, sent, cut, retained, database, repeats, faults>>

\* mutant: chunks are counted from 0, so one less is enough
CompleteOneLess(S, got) ==
  Cardinality({k \in DOMAIN got : got[k] # 0}) >= Total(S) - 1

\* mutant: more chunks are waited for than there are
CompleteOneMore(S, got) == Cardinality({k \in DOMAIN got : got[k] # 0}) > Total(S)

Complete(S, got) == Cardinality({k \in DOMAIN got : got[k] # 0}) >= Total(S)

\* mutant: an object that returns keeps its inactive flag
ActiveKept(S) ==
  [o \in Addresses |-> IF o \in S /\ active[o] = "absent" THEN "yes"
                       ELSE IF o \notin S /\ active[o] = "yes" THEN "no" ELSE active[o]]

ActiveAfter(S) ==
  [o \in Addresses |-> IF o \in S THEN "yes" ELSE IF active[o] = "yes" THEN "no"
                       ELSE active[o]]

HashAfter(S, h) == [o \in Addresses |-> IF o \in S THEN h ELSE hash[o]]

\* mutant: only a new row gets its attributes
AttrsOfNew(S, from) ==
  [o \in Addresses |-> IF o \in S /\ active[o] = "absent" THEN from[o] ELSE attrs[o]]

AttrsAfter(S, from) == [o \in Addresses |-> IF o \in S THEN from[o] ELSE attrs[o]]

\* _process_schema, of a list of objects with the export each comes from.
Process(h, list, from) ==
  /\ versions' = versions \cup {h}
  /\ active' = ActiveAfter(list)
  /\ attrs' = AttrsAfter(list, from)
  /\ hash' = HashAfter(list, h)

HandleFull ==
  LET m == Head(net) IN
  /\ net # <<>>
  /\ m.topic = 0
  /\ net' = Tail(net)
  /\ Process(m.hash, m.hash, [o \in Addresses |-> m.from])
  /\ UNCHANGED <<exports, sent, cut, retained, buffer, repeats, replays, faults>>

Dropped(S, got) == [buffer EXCEPT ![S] = IF Complete(S, got) THEN NothingReceived ELSE got]

HandleChunk ==
  LET m == Head(net)
      got == [buffer[m.hash] EXCEPT ![m.topic] = m.from]
  IN
  /\ net # <<>>
  /\ m.topic # 0
  /\ net' = Tail(net)
  /\ buffer' = Dropped(m.hash, got)
  /\ IF Complete(m.hash, got)
       THEN Process(m.hash, {o \in m.hash : got[ChunkOf(m.hash, o)] # 0},
                    [o \in Addresses |-> got[ChunkOf(m.hash, o)]])
       ELSE UNCHANGED database
  /\ UNCHANGED <<exports, sent, cut, retained, repeats, replays, faults>>

\* handle_message passes the message over, because the house is inactive or
\* because the look-up of the house or the device raises.
PassOver ==
  /\ net # <<>>
  /\ faults < MaxFaults
  /\ faults' = faults + 1
  /\ net' = Tail(net)
  /\ UNCHANGED <<exports, sent, cut, retained, buffer, database, repeats, replays>>

\* The transaction of _process_schema raises: the rows are rolled back, but the
\* chunks that completed the export are gone from the buffer already.
HandleFail ==
  LET m == Head(net)
      got == [buffer[m.hash] EXCEPT ![m.topic] = m.from]
  IN
  /\ net # <<>>
  /\ m.topic # 0 => Complete(m.hash, got)
  /\ faults < MaxFaults
  /\ faults' = faults + 1
  /\ net' = Tail(net)
  /\ buffer' = IF m.topic = 0 THEN buffer ELSE Dropped(m.hash, got)
  /\ UNCHANGED <<exports, sent, cut, retained, database, repeats, replays>>

Next ==
  \/ \E S \in Catalogs : Export(S)
  \/ \E t \in Topics : Repeat(t)
  \/ \E restarted \in BOOLEAN : Reconnect(restarted)
  \/ HandleFull
  \/ HandleChunk
  \/ PassOver
  \/ HandleFail

Spec == Init /\ [][Next]_vars

\* The MQTT loop handles what has arrived; nobody need export or reconnect.
FairSpec == Spec /\ WF_vars(HandleFull) /\ WF_vars(HandleChunk)
-----------------------------------------------------------------------------
(* Properties.                                                             *)

Messages == [topic : Topics, hash : SUBSET Addresses, from : Nat]

\* Type invariant.
TypeOK ==
  /\ exports \in Seq(Catalogs)
  /\ sent \in BOOLEAN /\ cut \in BOOLEAN
  /\ retained \in [Topics -> Messages]
  /\ net \in Seq(Messages)
  /\ buffer \in [SUBSET Addresses -> [Topics \ {0} -> Nat]]
  /\ versions \subseteq SUBSET Addresses
  /\ active \in [Addresses -> {"absent", "yes", "no"}]
  /\ attrs \in [Addresses -> Nat]
  /\ hash \in [Addresses -> SUBSET Addresses]
  /\ repeats \in Nat /\ replays \in Nat /\ faults \in Nat

ActiveObjects == {o \in Addresses : active[o] = "yes"}

Idle == net = <<>> /\ sent /\ Last > 0

\* The active objects are those of one export, never a mixture of two or a
\* part of one, whatever was lost, repeated or replayed: all carry its hash.
\* A deactivated object keeps the hash of a stored schema it was part of.
ActiveIsOneSchema ==
  /\ \A o \in ActiveObjects : hash[o] = ActiveObjects /\ hash[o] \in versions
  /\ \A o \in Addresses : active[o] = "no" => o \in hash[o] /\ hash[o] \in versions

\* As long as the server stays connected and no handler fails, the newest
\* complete export is the one in force.
NewestInForce ==
  Idle /\ replays = 0 /\ faults = 0 => ActiveObjects = Catalog

\* The attributes it exported are in force, or, after a message transmitted
\* twice or an export without its first messages, still in the chunk buffer:
\* what is left there completes the next export before its last chunks come, and
\* these wait, never lost, for the export after it.
InBuffer(o) == buffer[Catalog][ChunkOf(Catalog, o)] = Last

AttributesInForce ==
  Idle /\ replays = 0 /\ faults = 0
    => \A o \in Catalog : attrs[o] = Last \/ ((repeats > 0 \/ cut) /\ InBuffer(o))

\* A complete export is stored, superseded by another one, or lost to a failing
\* handler, also when the server was away while it was published.
CompleteIsStored ==
  \A S \in Catalogs :
    (sent /\ Catalog = S)
      ~> (S \in versions \/ Catalog # S \/ ~sent \/ faults > 0)

-----------------------------------------------------------------------------
(* What the documents claim and the code does not keep.                    *)

\* FR-032: objects missing in the new schema are inactive.
NewestWins == Idle => ActiveObjects = Catalog
=============================================================================
