-------------------------- MODULE SchemaSyncProofs --------------------------
(***************************************************************************)
(* Proofs about SchemaSync for any set of catalogues, chunk size and number *)
(* of exports, repetitions, replays and faults: type correctness, that the  *)
(* active objects are those of one export, and that the newest one is in    *)
(* force, with its attributes, while nothing went wrong.                    *)
(***************************************************************************)
EXTENDS SchemaSync, FiniteSetTheorems, SequenceTheorems, TLAPS

-----------------------------------------------------------------------------
(* Sizes and chunk numbers.                                                *)

LEMMA CatalogFact ==
  ASSUME NEW S \in Catalogs
  PROVE  /\ S \in SUBSET Addresses /\ S # {} /\ IsFiniteSet(S)
         /\ Cardinality(S) \in Nat \ {0}
         /\ Cardinality(Addresses) \in Nat
         /\ Cardinality(S) <= Cardinality(Addresses)
  <1>1. S \in SUBSET Addresses /\ S # {}
    BY SchemaConstants
  <1>2. IsFiniteSet(S) /\ Cardinality(S) <= Cardinality(Addresses)
    BY <1>1, SchemaConstants, FS_Subset
  <1>3. Cardinality(S) \in Nat /\ Cardinality(Addresses) \in Nat
    BY <1>2, SchemaConstants, FS_CardinalityType
  <1>4. Cardinality(S) # 0
    BY <1>1, <1>2, FS_EmptySet
  <1>5. QED
    BY <1>1, <1>2, <1>3, <1>4

LEMMA DivisionFact ==
  ASSUME NEW a \in Nat, NEW b \in Nat \ {0}
  PROVE  /\ a \div b \in Nat
         /\ b * (a \div b) <= a
         /\ a < b * ((a \div b) + 1)
  OBVIOUS

\* An element with fewer than c before it belongs to one of the chunks of c.
LEMMA ChunkArithmetic ==
  ASSUME NEW c \in Nat \ {0}, NEW d \in Nat, d < c
  PROVE  (d \div ChunkSize) + 1 \in 1..((c + ChunkSize - 1) \div ChunkSize)
  <1>1. ChunkSize \in Nat \ {0}
    BY SchemaConstants
  <1> DEFINE q == d \div ChunkSize
             r == (c + ChunkSize - 1) \div ChunkSize
  <1>2. q \in Nat /\ ChunkSize * q <= d
    BY <1>1, DivisionFact
  <1>3. c + ChunkSize - 1 \in Nat
    BY <1>1
  <1>4. r \in Nat /\ c + ChunkSize - 1 < ChunkSize * (r + 1)
    BY <1>1, <1>3, DivisionFact
  <1> HIDE DEF q, r
  <1>5. ChunkSize * (q + 1) < ChunkSize * (r + 1)
    <2>1. ChunkSize * (q + 1) = ChunkSize * q + ChunkSize
      BY <1>1, <1>2
    <2>2. ChunkSize * q \in Nat /\ ChunkSize * (r + 1) \in Nat
      BY <1>1, <1>2, <1>4
    <2>3. QED
      BY <1>1, <1>2, <1>4, <2>1, <2>2
  <1>6. q + 1 < r + 1
    <2>1. SUFFICES ASSUME r <= q
                   PROVE  ChunkSize * (r + 1) <= ChunkSize * (q + 1)
      BY <1>1, <1>2, <1>4, <1>5
    <2>2. QED
      BY <1>1, <1>2, <1>4, <2>1
  <1>7. QED
    BY <1>2, <1>4, <1>6 DEF q, r

LEMMA TotalFact ==
  ASSUME NEW S \in Catalogs
  PROVE  Total(S) \in Nat \ {0} /\ Total(S) <= Cardinality(Addresses)
  <1>1. ChunkSize \in Nat \ {0} /\ Cardinality(S) \in Nat \ {0}
    BY SchemaConstants, CatalogFact
  <1> DEFINE c == Cardinality(S)
             r == (c + ChunkSize - 1) \div ChunkSize
  <1>2. r \in Nat /\ ChunkSize * r <= c + ChunkSize - 1
        /\ c + ChunkSize - 1 < ChunkSize * (r + 1)
    BY <1>1, DivisionFact
  <1> HIDE DEF c, r
  <1>3. c \in Nat \ {0}
    BY <1>1 DEF c
  <1>4. r # 0
    BY <1>1, <1>2, <1>3
  <1>5. r <= c
    <2>1. SUFFICES ASSUME c + 1 <= r
                   PROVE  c + ChunkSize - 1 < ChunkSize * r
      BY <1>1, <1>2, <1>3
    <2>2. ChunkSize * (c + 1) <= ChunkSize * r
      BY <1>1, <1>2, <1>3, <2>1
    <2>3. ChunkSize * (c + 1) = ChunkSize * c + ChunkSize
      BY <1>1, <1>3
    <2>4. ChunkSize * c >= c
      BY <1>1, <1>3
    <2>5. ChunkSize * c \in Nat /\ ChunkSize * r \in Nat
      BY <1>1, <1>2, <1>3
    <2>6. QED
      BY <1>1, <1>3, <2>2, <2>3, <2>4, <2>5
  <1>6. QED
    BY <1>2, <1>4, <1>5, CatalogFact DEF Total, c, r

\* Every object of an export is in one of its chunks (publish_meta).
LEMMA ChunkOfFact ==
  ASSUME NEW S \in Catalogs, NEW o \in S
  PROVE  ChunkOf(S, o) \in 1..Total(S)
  <1> DEFINE before == {p \in S : p < o}
  <1>1. o \in Int
    BY CatalogFact, SchemaConstants
  <1>2. before \subseteq S \ {o}
    BY <1>1
  <1>3. IsFiniteSet(S \ {o}) /\ Cardinality(S \ {o}) = Cardinality(S) - 1
    BY CatalogFact, FS_RemoveElement
  <1>4. IsFiniteSet(before) /\ Cardinality(before) <= Cardinality(S \ {o})
    BY <1>2, <1>3, FS_Subset
  <1>5. Cardinality(before) \in Nat /\ Cardinality(before) < Cardinality(S)
    BY <1>3, <1>4, CatalogFact, FS_CardinalityType
  <1>6. QED
    BY <1>5, ChunkArithmetic, CatalogFact DEF ChunkOf, Total

-----------------------------------------------------------------------------
(* Messages.                                                               *)

\* The topics an export of S is published under.
TopicsOf(S) == IF Cardinality(S) <= ChunkSize THEN {0} ELSE 1..Total(S)

LEMMA TopicsFact ==
  ASSUME NEW S \in Catalogs
  PROVE  TopicsOf(S) \subseteq Topics /\ TopicsOf(S) # {} /\ 1..Total(S) \subseteq Topics \ {0}
  BY TotalFact, CatalogFact DEF TopicsOf, Topics

LEMMA MessagesFact ==
  ASSUME NEW S \in Catalogs, NEW n \in Nat
  PROVE  /\ MessagesOf(n, S) \in Seq(Messages)
         /\ Len(MessagesOf(n, S)) \in Nat \ {0}
         /\ \A k \in 1..Len(MessagesOf(n, S)) :
              /\ MessagesOf(n, S)[k].hash = S /\ MessagesOf(n, S)[k].from = n
              /\ MessagesOf(n, S)[k].topic \in TopicsOf(S)
              /\ MessagesOf(n, S)[k].topic =
                   IF Cardinality(S) <= ChunkSize THEN 0 ELSE k
         /\ \A t \in TopicsOf(S) : \E k \in 1..Len(MessagesOf(n, S)) :
              MessagesOf(n, S)[k].topic = t
         /\ Len(MessagesOf(n, S)) = IF Cardinality(S) <= ChunkSize THEN 1 ELSE Total(S)
  <1>1. \A t \in TopicsOf(S) : Message(n, S, t) \in Messages
    BY TopicsFact, CatalogFact DEF Message, Messages
  <1>2. CASE Cardinality(S) <= ChunkSize
    <2>1. MessagesOf(n, S) = <<Message(n, S, 0)>> /\ TopicsOf(S) = {0}
      BY <1>2 DEF MessagesOf, TopicsOf
    <2>2. QED
      BY <1>1, <1>2, <2>1 DEF Message
  <1>3. CASE ~(Cardinality(S) <= ChunkSize)
    <2>1. TopicsOf(S) = 1..Total(S) /\ Total(S) \in Nat \ {0}
      BY <1>3, TotalFact DEF TopicsOf
    <2>2. MessagesOf(n, S) = [k \in 1..Total(S) |-> Message(n, S, k)]
      BY <1>3 DEF MessagesOf
    <2>3. MessagesOf(n, S) \in Seq(Messages) /\ Len(MessagesOf(n, S)) = Total(S)
      BY <1>1, <2>1, <2>2
    <2>4. QED
      BY <1>3, <2>1, <2>2, <2>3 DEF Message
  <1>4. QED
    BY <1>2, <1>3

-----------------------------------------------------------------------------
(* The invariant that carries the others: every message under way is one of *)
(* an export, and no schema hash has all its chunks in the buffer.          *)

Genuine(m) ==
  m.from \in 1..Last /\ exports[m.from] = m.hash /\ m.topic \in TopicsOf(m.hash)

Transport ==
  /\ \A i \in 1..Len(net) : Genuine(net[i])
  /\ \A t \in Topics : retained[t] = NoneRetained \/ (Genuine(retained[t]) /\ retained[t].topic = t)

\* The chunk numbers that have been received, of what is buffered.
Filled(got) == {k \in Topics \ {0} : got[k] # 0}

Received(S) == Filled(buffer[S])

Buffered == \A S \in Catalogs : Received(S) \subseteq 1..Total(S) /\ Received(S) # 1..Total(S)

Base == TypeOK /\ Transport /\ Buffered

LEMMA GenuineFact ==
  ASSUME TypeOK, NEW m \in Messages, Genuine(m)
  PROVE  /\ m.hash \in Catalogs /\ m.from \in Nat \ {0} /\ m.from <= Last
         /\ m.topic \in TopicsOf(m.hash)
         /\ m.topic # 0 => m.topic \in 1..Total(m.hash) /\ Cardinality(m.hash) > ChunkSize
         /\ m.topic = 0 => TopicsOf(m.hash) = {0} /\ Cardinality(m.hash) <= ChunkSize
         /\ m.from = Last => m.hash = Catalog
  <1>1. exports \in Seq(Catalogs) /\ Last \in Nat
    BY DEF TypeOK, Last
  <1>2. m.from \in 1..Len(exports) /\ exports[m.from] = m.hash /\ m.topic \in TopicsOf(m.hash)
    BY DEF Genuine, Last
  <1>3. m.hash \in Catalogs /\ m.from \in Nat \ {0} /\ m.from <= Last
    BY <1>1, <1>2 DEF Last
  <1>4. Cardinality(m.hash) \in Nat /\ ChunkSize \in Nat
    BY <1>3, CatalogFact, SchemaConstants
  <1>5. 0 \notin 1..Total(m.hash)
    BY <1>3, TotalFact
  <1>6. m.from = Last => m.hash = Catalog
    BY <1>2, <1>3 DEF Catalog
  <1>7. CASE Cardinality(m.hash) <= ChunkSize
    <2>1. TopicsOf(m.hash) = {0}
      BY <1>7 DEF TopicsOf
    <2>2. QED
      BY <1>2, <1>3, <1>6, <1>7, <2>1
  <1>8. CASE ~(Cardinality(m.hash) <= ChunkSize)
    <2>1. TopicsOf(m.hash) = 1..Total(m.hash) /\ Cardinality(m.hash) > ChunkSize
      BY <1>4, <1>8 DEF TopicsOf
    <2>2. QED
      BY <1>2, <1>3, <1>5, <1>6, <2>1
  <1>9. QED
    BY <1>7, <1>8

\* The message the MQTT loop handles next.
LEMMA HeadFact ==
  ASSUME Base, net # <<>>
  PROVE  /\ Head(net) = net[1] /\ Head(net) \in Messages /\ Genuine(Head(net))
         /\ Len(net) \in Nat \ {0}
         /\ Tail(net) \in Seq(Messages) /\ Len(Tail(net)) = Len(net) - 1
         /\ \A i \in 1..Len(Tail(net)) : i + 1 \in 1..Len(net) /\ Tail(net)[i] = net[i + 1]
  <1>1. net \in Seq(Messages)
    BY DEF Base, TypeOK
  <1>2. /\ Head(net) = net[1] /\ Head(net) \in Messages
        /\ Len(net) \in Nat \ {0}
        /\ Tail(net) \in Seq(Messages) /\ Len(Tail(net)) = Len(net) - 1
        /\ \A i \in 1..Len(Tail(net)) : Tail(net)[i] = net[i + 1]
    BY <1>1, EmptySeq, HeadTailProperties
  <1>3. 1 \in 1..Len(net) /\ \A i \in 1..Len(Tail(net)) : i + 1 \in 1..Len(net)
    BY <1>2
  <1>4. QED
    BY <1>2, <1>3 DEF Base, Transport

\* A chunk completes an export exactly when every chunk of it is buffered, and
\* then every object of the export is in the list that is processed.
LEMMA ChunkFact ==
  ASSUME Base, NEW m \in Messages, Genuine(m), m.topic # 0,
         NEW got, got = [buffer[m.hash] EXCEPT ![m.topic] = m.from]
  PROVE  /\ got \in [Topics \ {0} -> Nat]
         /\ got[m.topic] = m.from
         /\ \A k \in (Topics \ {0}) \ {m.topic} : got[k] = buffer[m.hash][k]
         /\ Filled(got) = Received(m.hash) \cup {m.topic}
         /\ Filled(got) \subseteq 1..Total(m.hash)
         /\ Complete(m.hash, got) <=> Filled(got) = 1..Total(m.hash)
         /\ Complete(m.hash, got) =>
              /\ \A o \in m.hash : got[ChunkOf(m.hash, o)] \in Nat \ {0}
              /\ {o \in m.hash : got[ChunkOf(m.hash, o)] # 0} = m.hash
  <1> DEFINE S == m.hash
  <1>1. S \in Catalogs /\ m.from \in Nat \ {0} /\ m.topic \in 1..Total(S)
    BY GenuineFact DEF Base
  <1>2. Total(S) \in Nat \ {0} /\ 1..Total(S) \subseteq Topics \ {0}
    BY <1>1, TotalFact, TopicsFact
  <1>3. buffer[S] \in [Topics \ {0} -> Nat] /\ S \in SUBSET Addresses
    BY <1>1, CatalogFact DEF Base, TypeOK
  <1>4. /\ got \in [Topics \ {0} -> Nat]
        /\ got[m.topic] = m.from
        /\ \A k \in (Topics \ {0}) \ {m.topic} : got[k] = buffer[S][k]
    BY <1>1, <1>2, <1>3
  <1>5. Filled(got) = Received(S) \cup {m.topic}
    BY <1>1, <1>2, <1>4 DEF Filled, Received
  <1>6. Filled(got) \subseteq 1..Total(S)
    BY <1>1, <1>5 DEF Base, Buffered
  <1>7. Complete(S, got) <=> Filled(got) = 1..Total(S)
    <2>1. Complete(S, got) <=> Cardinality(Filled(got)) >= Total(S)
      <3>1. DOMAIN got = Topics \ {0}
        BY <1>4
      <3>2. QED
        BY <3>1 DEF Complete, Filled
    <2>2. IsFiniteSet(1..Total(S)) /\ Cardinality(1..Total(S)) = Total(S)
      BY <1>2, FS_Interval
    <2>3. IsFiniteSet(Filled(got)) /\ Cardinality(Filled(got)) <= Total(S)
          /\ (Cardinality(Filled(got)) = Total(S) => Filled(got) = 1..Total(S))
      BY <1>6, <2>2, FS_Subset
    <2>4. Cardinality(Filled(got)) \in Nat
      BY <2>3, FS_CardinalityType
    <2>5. QED
      BY <1>2, <2>1, <2>2, <2>3, <2>4
  <1>8. ASSUME Complete(S, got), NEW o \in S
        PROVE  got[ChunkOf(S, o)] \in Nat \ {0}
    <2>1. ChunkOf(S, o) \in Filled(got)
      BY <1>1, <1>7, <1>8, ChunkOfFact
    <2>2. QED
      BY <1>4, <2>1 DEF Filled
  <1>9. QED
    BY <1>4, <1>5, <1>6, <1>7, <1>8

\* What is buffered after a chunk is never complete.
LEMMA DroppedFact ==
  ASSUME Base, NEW m \in Messages, Genuine(m), m.topic # 0,
         NEW got, got = [buffer[m.hash] EXCEPT ![m.topic] = m.from],
         buffer' = Dropped(m.hash, got)
  PROVE  /\ buffer' \in [SUBSET Addresses -> [Topics \ {0} -> Nat]]
         /\ Buffered'
         /\ buffer'[m.hash] = IF Complete(m.hash, got) THEN NothingReceived ELSE got
         /\ \A S \in Catalogs \ {m.hash} : buffer'[S] = buffer[S]
  <1>1. m.hash \in Catalogs /\ m.hash \in SUBSET Addresses
    BY GenuineFact, CatalogFact DEF Base
  <1>2. NothingReceived \in [Topics \ {0} -> Nat] /\ Filled(NothingReceived) = {}
    BY DEF NothingReceived, Filled
  <1> DEFINE new == IF Complete(m.hash, got) THEN NothingReceived ELSE got
  <1>3. new \in [Topics \ {0} -> Nat]
    BY <1>2, ChunkFact
  <1>4. Filled(new) \subseteq 1..Total(m.hash) /\ Filled(new) # 1..Total(m.hash)
    <2>1. CASE Complete(m.hash, got)
      BY <1>1, <1>2, <2>1, TotalFact
    <2>2. CASE ~Complete(m.hash, got)
      BY <2>2, ChunkFact
    <2>3. QED
      BY <2>1, <2>2
  <1>5. buffer' = [buffer EXCEPT ![m.hash] = new]
    BY DEF Dropped
  <1> HIDE DEF new
  <1>6. /\ buffer' \in [SUBSET Addresses -> [Topics \ {0} -> Nat]]
        /\ buffer'[m.hash] = new
        /\ \A S \in SUBSET Addresses : S # m.hash => buffer'[S] = buffer[S]
    <2>1. buffer \in [SUBSET Addresses -> [Topics \ {0} -> Nat]]
      BY DEF Base, TypeOK
    <2> DEFINE T == [Topics \ {0} -> Nat]
               D == SUBSET Addresses
    <2>2. buffer \in [D -> T] /\ new \in T /\ m.hash \in D
      BY <1>1, <1>3, <2>1
    <2> HIDE DEF T, D
    <2>3. buffer' \in [D -> T] /\ buffer'[m.hash] = new
          /\ \A S \in D : S # m.hash => buffer'[S] = buffer[S]
      BY <1>5, <2>2
    <2>4. QED
      BY <2>3 DEF T, D
  <1>7. Buffered'
    <2> SUFFICES ASSUME NEW S \in Catalogs
                 PROVE  Filled(buffer'[S]) \subseteq 1..Total(S) /\ Filled(buffer'[S]) # 1..Total(S)
      BY DEF Buffered, Received
    <2>1. CASE S = m.hash
      BY <1>4, <1>6, <2>1
    <2>2. CASE S # m.hash
      BY <1>6, <2>2, CatalogFact DEF Base, Buffered, Received
    <2>3. QED
      BY <2>1, <2>2
  <1>8. QED
    BY <1>6, <1>7, CatalogFact DEF new

-----------------------------------------------------------------------------
(* The steps of the daemon and of the network.                             *)

\* The l messages of an export that follow its first a ones reach the broker.
Arrived(all, S) ==
  \E a \in 0..Len(all), l \in 0..Len(all) :
    /\ a + l <= Len(all)
    /\ sent' = (l = Len(all))
    /\ cut' = (cut \/ (l > 0 /\ a > 0))
    /\ net' \in Seq(Messages) /\ Len(net') = Len(net) + l
    /\ \A i \in 1..Len(net) : net'[i] = net[i]
    /\ \A i \in 1..l : net'[Len(net) + i] = all[a + i]
    /\ \A i \in 1..Len(net') : i \in 1..Len(net)
                               \/ (i - Len(net) \in 1..l
                                   /\ net'[i] = all[a + (i - Len(net))])
    /\ retained' = [t \in Topics |->
         IF \E k \in (a + 1)..(a + l) : all[k].topic = t
           THEN Message(Last + 1, S, t) ELSE retained[t]]

LEMMA ExportFact ==
  ASSUME Base, NEW S \in Catalogs, Export(S)
  PROVE  /\ Last \in Nat /\ Last' = Last + 1 /\ Catalog' = S
         /\ exports' \in Seq(Catalogs)
         /\ \A i \in 1..Last : exports'[i] = exports[i]
         /\ exports'[Last + 1] = S
         /\ Arrived(MessagesOf(Last + 1, S), S)
         /\ UNCHANGED <<buffer, versions, active, attrs, hash, repeats, replays, faults>>
  <1> DEFINE all == MessagesOf(Last + 1, S)
  <1>1. exports \in Seq(Catalogs) /\ Last \in Nat /\ net \in Seq(Messages) /\ Len(net) \in Nat
    BY DEF Base, TypeOK, Last
  <1>2. exports' = Append(exports, S)
    BY DEF Export
  <1>3. /\ exports' \in Seq(Catalogs) /\ Last' = Last + 1
        /\ \A i \in 1..Last : exports'[i] = exports[i]
        /\ exports'[Last + 1] = S
    BY <1>1, <1>2, AppendProperties DEF Last
  <1>4. Catalog' = S
    BY <1>1, <1>3 DEF Catalog
  <1>5. all \in Seq(Messages) /\ Len(all) \in Nat \ {0}
    BY <1>1, MessagesFact
  <1>6. PICK first \in 1..Len(all), n \in 0..Len(all) :
          /\ sent' = (SubSeq(all, first, n) = all)
          /\ cut' = (cut \/ (SubSeq(all, first, n) # <<>> /\ first > 1))
          /\ net' = net \o SubSeq(all, first, n)
          /\ retained' = [t \in Topics |-> IF \E k \in first..n : all[k].topic = t
                                             THEN Message(Last + 1, S, t) ELSE retained[t]]
    BY DEF Export
  <1> HIDE DEF all
  <1> DEFINE some == SubSeq(all, first, n)
             a == first - 1
             l == IF first <= n THEN n - first + 1 ELSE 0
  <1>7. first \in Nat \ {0} /\ n \in Nat /\ a \in Nat /\ l \in Nat /\ a + l <= Len(all)
        /\ n <= Len(all) /\ first <= Len(all) /\ a <= Len(all) /\ l <= Len(all)
    <2>1. /\ first \in Nat \ {0} /\ n \in Nat /\ Len(all) \in Nat
          /\ n <= Len(all) /\ first <= Len(all)
      BY <1>5, <1>6
    <2>2. CASE first <= n
      BY <2>1, <2>2
    <2>3. CASE ~(first <= n)
      <3>1. l = 0 /\ a = first - 1
        BY <2>3
      <3> HIDE DEF a, l
      <3> QED
        BY <2>1, <3>1
    <2> QED
      BY <2>2, <2>3
  <1>8. /\ some \in Seq(Messages) /\ Len(some) = l
        /\ \A i \in 1..l : some[i] = all[a + i]
    <2>1. \A i \in first..n : all[i] \in Messages
      BY <1>5, <1>7, ElementOfSeq
    <2>2. some \in Seq(Messages)
      BY <1>7, <2>1, SubSeqProperties
    <2>3. Len(some) = IF first <= n THEN n - first + 1 ELSE 0
      BY <1>7, <2>1, SubSeqProperties
    <2>4. \A i \in 1..(n - first + 1) : some[i] = all[first + i - 1]
      BY <1>7, <2>1, SubSeqProperties
    <2>5. ASSUME NEW i \in 1..l
          PROVE  some[i] = all[a + i]
      <3>1. i \in 1..(n - first + 1) /\ first + i - 1 = a + i
        BY <1>7
      <3> QED
        BY <2>4, <3>1
    <2>6. QED
      BY <2>2, <2>3, <2>5
  <1>9. some # <<>> <=> l > 0
    BY <1>7, <1>8
  <1>10. (some = all) <=> (l = Len(all))
    <2>1. ASSUME l = Len(all)
          PROVE  some = all
      <3>1. a = 0
        BY <1>7, <2>1
      <3>2. \A i \in 1..Len(all) : some[i] = all[i]
        BY <1>8, <2>1, <3>1
      <3> QED
        BY <1>5, <1>8, <2>1, <3>2, SeqEqual
    <2> QED
      BY <1>8, <2>1
  <1>11. first..n = (a + 1)..(a + l)
    BY <1>7
  <1>12. first > 1 <=> a > 0
    BY <1>7
  <1>13. /\ net' \in Seq(Messages) /\ Len(net') = Len(net) + l
         /\ \A i \in 1..(Len(net) + l) :
              net'[i] = IF i <= Len(net) THEN net[i] ELSE some[i - Len(net)]
    BY <1>1, <1>6, <1>8, ConcatProperties
  <1> HIDE DEF a, l, some
  <1>14. \A i \in 1..Len(net) : net'[i] = net[i]
    BY <1>1, <1>7, <1>13
  <1>15. ASSUME NEW i \in 1..l
         PROVE  net'[Len(net) + i] = all[a + i]
    <2>1. Len(net) + i \in 1..(Len(net) + l) /\ ~(Len(net) + i <= Len(net))
          /\ (Len(net) + i) - Len(net) = i
      BY <1>1, <1>7
    <2>2. QED
      BY <1>8, <1>13, <2>1
  <1>16. ASSUME NEW i \in 1..Len(net'), i \notin 1..Len(net)
         PROVE  i - Len(net) \in 1..l /\ net'[i] = all[a + (i - Len(net))]
    <2>1. i - Len(net) \in 1..l /\ Len(net) + (i - Len(net)) = i
      BY <1>1, <1>7, <1>13, <1>16
    <2>2. QED
      BY <1>15, <2>1
  <1>17. /\ sent' = (l = Len(all))
         /\ cut' = (cut \/ (l > 0 /\ a > 0))
         /\ retained' = [t \in Topics |->
              IF \E k \in (a + 1)..(a + l) : all[k].topic = t
                THEN Message(Last + 1, S, t) ELSE retained[t]]
    BY <1>6, <1>9, <1>10, <1>11, <1>12 DEF some
  <1>18. a \in 0..Len(all) /\ l \in 0..Len(all)
    BY <1>5, <1>7
  <1>19. Arrived(all, S)
    BY <1>7, <1>13, <1>14, <1>15, <1>16, <1>17, <1>18 DEF Arrived
  <1>20. QED
    BY <1>3, <1>1, <1>4, <1>19 DEF Export, database, all

LEMMA RepeatFact ==
  ASSUME Base, NEW t \in Topics, Repeat(t)
  PROVE  /\ retained[t] \in Messages /\ Genuine(retained[t]) /\ retained[t].from = Last /\ Last > 0
         /\ net' \in Seq(Messages) /\ Len(net') = Len(net) + 1
         /\ \A i \in 1..Len(net) : net'[i] = net[i]
         /\ net'[Len(net) + 1] = retained[t]
         /\ \A i \in 1..Len(net') : i \in 1..Len(net) \/ i = Len(net) + 1
         /\ repeats' = repeats + 1
         /\ UNCHANGED <<exports, sent, cut, retained, buffer, versions, active, attrs, hash, replays,
                        faults>>
  <1>1. net \in Seq(Messages) /\ Len(net) \in Nat /\ retained[t] \in Messages /\ Last \in Nat
    BY DEF Base, TypeOK, Last
  <1>2. retained[t].from = Last /\ Last > 0 /\ net' = Append(net, retained[t])
    BY DEF Repeat
  <1>3. Genuine(retained[t])
    BY <1>1, <1>2 DEF Base, Transport, NoneRetained
  <1>4. /\ net' \in Seq(Messages) /\ Len(net') = Len(net) + 1
        /\ \A i \in 1..Len(net) : net'[i] = net[i]
        /\ net'[Len(net) + 1] = retained[t]
    BY <1>1, <1>2, AppendProperties
  <1>5. \A i \in 1..Len(net') : i \in 1..Len(net) \/ i = Len(net) + 1
    BY <1>1, <1>4
  <1>6. QED
    BY <1>1, <1>2, <1>3, <1>4, <1>5 DEF Repeat, database

LEMMA ReconnectFact ==
  ASSUME Base, NEW restarted \in BOOLEAN, Reconnect(restarted)
  PROVE  /\ net' \in Seq(Messages)
         /\ \A i \in 1..Len(net') : Genuine(net'[i])
         /\ buffer' \in {buffer, [S \in SUBSET Addresses |-> NothingReceived]}
         /\ replays \in Nat /\ replays' = replays + 1
         /\ UNCHANGED <<exports, sent, cut, retained, versions, active, attrs, hash, repeats, faults>>
  <1>1. retained \in [Topics -> Messages] /\ replays \in Nat
    BY DEF Base, TypeOK
  <1>2. IsFiniteSet(Topics)
    <2>1. Cardinality(Addresses) \in Nat
      BY SchemaConstants, FS_CardinalityType
    <2>2. QED
      BY <2>1, FS_Interval DEF Topics
  <1>3. Retained \subseteq Messages /\ \A m \in Retained : Genuine(m)
    BY <1>1 DEF Retained, Base, Transport
  <1>4. Cardinality(Retained) \in Nat
    <2> DEFINE all == {retained[t] : t \in Topics}
    <2>1. retained \in Surjection(Topics, all)
      BY <1>1 DEF Surjection
    <2>2. IsFiniteSet(all)
      BY <1>2, <2>1, FS_Surjection
    <2>3. IsFiniteSet(Retained)
      BY <2>2, FS_Subset DEF Retained
    <2>4. QED
      BY <2>3, FS_CardinalityType
  <1>5. net' \in [1..Cardinality(Retained) -> Retained]
    BY DEF Reconnect, Orders
  <1>6. net' \in Seq(Messages) /\ Len(net') = Cardinality(Retained)
    BY <1>3, <1>4, <1>5
  <1>7. QED
    BY <1>1, <1>3, <1>5, <1>6 DEF Reconnect, database

-----------------------------------------------------------------------------
(* Handling a message.                                                     *)

DatabaseOK ==
  /\ versions \subseteq SUBSET Addresses
  /\ active \in [Addresses -> {"absent", "yes", "no"}]
  /\ attrs \in [Addresses -> Nat]
  /\ hash \in [Addresses -> SUBSET Addresses]

\* What _process_schema does with the list of a whole export.
LEMMA ProcessFact ==
  ASSUME DatabaseOK, NEW S \in Catalogs, NEW from, \A o \in S : from[o] \in Nat,
         Process(S, S, from)
  PROVE  /\ DatabaseOK'
         /\ ActiveObjects' = S
         /\ versions' = versions \cup {S}
         /\ \A o \in S : active'[o] = "yes" /\ hash'[o] = S /\ attrs'[o] = from[o]
         /\ \A o \in Addresses \ S : /\ active'[o] = IF active[o] = "yes" THEN "no" ELSE active[o]
                                     /\ hash'[o] = hash[o]
  <1>1. S \in SUBSET Addresses
    BY CatalogFact
  <1>2. versions' = versions \cup {S} /\ versions' \subseteq SUBSET Addresses
    BY <1>1 DEF Process, DatabaseOK
  <1>3. /\ active' \in [Addresses -> {"absent", "yes", "no"}]
        /\ \A o \in S : active'[o] = "yes"
        /\ \A o \in Addresses \ S : active'[o] = IF active[o] = "yes" THEN "no" ELSE active[o]
    <2>1. active' = [o \in Addresses |-> IF o \in S THEN "yes"
                                         ELSE IF active[o] = "yes" THEN "no" ELSE active[o]]
      BY DEF Process, ActiveAfter
    <2>2. \A o \in Addresses : active[o] \in {"absent", "yes", "no"}
      BY DEF DatabaseOK
    <2>3. QED
      BY <1>1, <2>1, <2>2
  <1>4. ActiveObjects' = S
    BY <1>1, <1>3 DEF ActiveObjects
  <1>5. /\ attrs' \in [Addresses -> Nat]
        /\ \A o \in S : attrs'[o] = from[o]
    <2>1. attrs' = [o \in Addresses |-> IF o \in S THEN from[o] ELSE attrs[o]]
      BY DEF Process, AttrsAfter
    <2>2. \A o \in Addresses : attrs[o] \in Nat
      BY DEF DatabaseOK
    <2>3. QED
      BY <1>1, <2>1, <2>2
  <1>6. /\ hash' \in [Addresses -> SUBSET Addresses]
        /\ \A o \in S : hash'[o] = S
        /\ \A o \in Addresses \ S : hash'[o] = hash[o]
    <2>1. hash' = [o \in Addresses |-> IF o \in S THEN S ELSE hash[o]]
      BY DEF Process, HashAfter
    <2>2. QED
      BY <1>1, <2>1 DEF DatabaseOK
  <1>7. QED
    BY <1>2, <1>3, <1>4, <1>5, <1>6 DEF DatabaseOK

\* HandleFull and HandleChunk take the head of net, and either process the
\* whole export it belongs to or leave the database alone.
LEMMA HandleFullFact ==
  ASSUME Base, HandleFull
  PROVE  /\ net # <<>> /\ net' = Tail(net) /\ Head(net).topic = 0
         /\ Process(Head(net).hash, Head(net).hash, [o \in Addresses |-> Head(net).from])
         /\ UNCHANGED <<exports, sent, cut, retained, buffer, repeats, replays, faults>>
  BY DEF HandleFull

\* ... got is what is buffered of the export with chunk m.
HandledChunk(m, got) ==
  /\ got = [buffer[m.hash] EXCEPT ![m.topic] = m.from]
  /\ buffer' = Dropped(m.hash, got)
  /\ Complete(m.hash, got) =>
       Process(m.hash, m.hash, [o \in Addresses |-> got[ChunkOf(m.hash, o)]])
  /\ ~Complete(m.hash, got) => UNCHANGED <<versions, active, attrs, hash>>

LEMMA HandleChunkFact ==
  ASSUME Base, HandleChunk
  PROVE  /\ net # <<>> /\ net' = Tail(net) /\ Head(net).topic # 0
         /\ UNCHANGED <<exports, sent, cut, retained, repeats, replays, faults>>
         /\ \E got : HandledChunk(Head(net), got)
  <1> DEFINE m == Head(net)
  <1>1. net # <<>> /\ m.topic # 0
    BY DEF HandleChunk
  <1>2. m \in Messages /\ Genuine(m)
    BY <1>1, HeadFact
  <1>3. PICK got :
          /\ got = [buffer[m.hash] EXCEPT ![m.topic] = m.from]
          /\ buffer' = Dropped(m.hash, got)
          /\ IF Complete(m.hash, got)
               THEN Process(m.hash, {o \in m.hash : got[ChunkOf(m.hash, o)] # 0},
                            [o \in Addresses |-> got[ChunkOf(m.hash, o)]])
               ELSE UNCHANGED database
    BY Zenon DEF HandleChunk
  <1>4. ASSUME Complete(m.hash, got)
        PROVE  Process(m.hash, m.hash, [o \in Addresses |-> got[ChunkOf(m.hash, o)]])
    <2>1. {o \in m.hash : got[ChunkOf(m.hash, o)] # 0} = m.hash
      BY <1>1, <1>2, <1>3, <1>4, ChunkFact
    <2>2. QED
      BY <1>3, <1>4, <2>1
  <1>5. ~Complete(m.hash, got) => UNCHANGED <<versions, active, attrs, hash>>
    BY <1>3 DEF database
  <1>6. net' = Tail(net) /\ UNCHANGED <<exports, sent, cut, retained, repeats, replays, faults>>
    BY DEF HandleChunk
  <1>7. HandledChunk(m, got)
    BY <1>3, <1>4, <1>5 DEF HandledChunk
  <1>8. QED
    BY <1>1, <1>6, <1>7

LEMMA HandleFailFact ==
  ASSUME Base, HandleFail
  PROVE  /\ net # <<>> /\ net' = Tail(net) /\ faults \in Nat /\ faults' = faults + 1
         /\ buffer' \in [SUBSET Addresses -> [Topics \ {0} -> Nat]] /\ Buffered'
         /\ UNCHANGED <<exports, sent, cut, retained, versions, active, attrs, hash, repeats, replays>>
  <1> DEFINE m == Head(net)
  <1>1. /\ net # <<>> /\ net' = Tail(net) /\ faults' = faults + 1
        /\ UNCHANGED <<exports, sent, cut, retained, versions, active, attrs, hash, repeats, replays>>
    BY DEF HandleFail, database
  <1>2. m \in Messages /\ Genuine(m)
    BY <1>1, HeadFact
  <1>3. CASE m.topic = 0
    BY <1>1, <1>3 DEF HandleFail, Base, TypeOK, Buffered, Received
  <1>4. CASE m.topic # 0
    <2> DEFINE got == [buffer[m.hash] EXCEPT ![m.topic] = m.from]
    <2>1. buffer' = Dropped(m.hash, got)
      BY <1>4 DEF HandleFail
    <2>2. Base /\ m \in Messages /\ Genuine(m) /\ m.topic # 0
      BY <1>2, <1>4
    <2> HIDE DEF m
    <2>3. /\ buffer' \in [SUBSET Addresses -> [Topics \ {0} -> Nat]]
          /\ Buffered'
      BY <2>1, <2>2, DroppedFact
    <2> QED
      BY <1>1, <2>3 DEF Base, TypeOK
  <1>5. QED
    BY <1>3, <1>4

LEMMA PassOverFact ==
  ASSUME Base, PassOver
  PROVE  /\ net # <<>> /\ net' = Tail(net) /\ faults \in Nat /\ faults' = faults + 1
         /\ buffer' \in [SUBSET Addresses -> [Topics \ {0} -> Nat]] /\ Buffered'
         /\ UNCHANGED <<exports, sent, cut, retained, versions, active, attrs, hash, repeats, replays>>
  BY DEF PassOver, database, Base, TypeOK, Buffered, Received

-----------------------------------------------------------------------------
LEMMA InitBase == Init => Base
  <1> SUFFICES ASSUME Init
               PROVE  Base
    OBVIOUS
  <1>1. NoneRetained \in Messages
    <2>1. Cardinality(Addresses) \in Nat
      BY SchemaConstants, FS_CardinalityType
    <2>2. QED
      BY <2>1 DEF NoneRetained, Messages, Topics
  <1>2. NothingReceived \in [Topics \ {0} -> Nat] /\ Filled(NothingReceived) = {}
    BY DEF NothingReceived, Filled
  <1>3. Buffered
    <2> SUFFICES ASSUME NEW S \in Catalogs
                 PROVE  Received(S) \subseteq 1..Total(S) /\ Received(S) # 1..Total(S)
      BY DEF Buffered
    <2>1. Received(S) = {}
      BY <1>2, CatalogFact DEF Init, Received
    <2>2. QED
      BY <2>1, TotalFact
  <1>4. Transport
    BY DEF Init, Transport
  <1>5. TypeOK
    <2>1. retained \in [Topics -> Messages]
      BY <1>1 DEF Init
    <2>2. buffer \in [SUBSET Addresses -> [Topics \ {0} -> Nat]]
      BY <1>2 DEF Init
    <2>3. active \in [Addresses -> {"absent", "yes", "no"}] /\ attrs \in [Addresses -> Nat]
          /\ hash \in [Addresses -> SUBSET Addresses]
      BY DEF Init
    <2>4. exports \in Seq(Catalogs) /\ net \in Seq(Messages)
      BY DEF Init
    <2>5. QED
      BY <2>1, <2>2, <2>3, <2>4 DEF Init, TypeOK
  <1>6. QED
    BY <1>3, <1>4, <1>5 DEF Base

LEMMA BaseDatabase == Base => DatabaseOK
  BY DEF Base, TypeOK, DatabaseOK

\* A step that takes the head of net keeps what is under way genuine.
LEMMA TailTransport ==
  ASSUME Base, net # <<>>, net' = Tail(net), exports' = exports, retained' = retained
  PROVE  net' \in Seq(Messages) /\ Transport'
  <1>1. \A i \in 1..Len(net') : Genuine(net'[i])
    BY HeadFact DEF Base, Transport
  <1>2. QED
    BY <1>1, HeadFact DEF Base, Transport, Genuine, Last

LEMMA BaseStep == Base /\ [Next]_vars => Base'
  <1> SUFFICES ASSUME Base, [Next]_vars
               PROVE  Base'
    OBVIOUS
  <1>1. ASSUME NEW S \in Catalogs, Export(S)
        PROVE  Base'
    <2> DEFINE all == MessagesOf(Last + 1, S)
    <2>1. PICK a \in 0..Len(all), l \in 0..Len(all) :
            /\ a + l <= Len(all)
            /\ sent' = (l = Len(all)) /\ cut' = (cut \/ (l > 0 /\ a > 0))
            /\ net' \in Seq(Messages)
            /\ \A i \in 1..Len(net) : net'[i] = net[i]
            /\ \A i \in 1..Len(net') : i \in 1..Len(net)
                                       \/ (i - Len(net) \in 1..l
                                           /\ net'[i] = all[a + (i - Len(net))])
            /\ retained' = [t \in Topics |->
                 IF \E k \in (a + 1)..(a + l) : all[k].topic = t
                   THEN Message(Last + 1, S, t) ELSE retained[t]]
      BY <1>1, ExportFact DEF Arrived
    <2>2. Last \in Nat /\ Last' = Last + 1 /\ (\A i \in 1..Last : exports'[i] = exports[i])
          /\ exports'[Last + 1] = S /\ exports' \in Seq(Catalogs)
          /\ UNCHANGED <<buffer, versions, active, attrs, hash, repeats, replays, faults>>
      BY <1>1, ExportFact
    <2>3. \A m \in Messages : Genuine(m) => Genuine(m)'
      BY <2>2 DEF Genuine
    <2>4. /\ Len(all) \in Nat
          /\ \A k \in (a + 1)..(a + l) : /\ all[k].hash = S /\ all[k].from = Last + 1
                                         /\ all[k].topic \in TopicsOf(S)
      <3>1. Len(all) \in Nat /\ \A k \in 1..Len(all) : /\ all[k].hash = S
                                                      /\ all[k].from = Last + 1
                                                      /\ all[k].topic \in TopicsOf(S)
        BY <2>2, MessagesFact
      <3> HIDE DEF all
      <3>2. \A k \in (a + 1)..(a + l) : k \in 1..Len(all)
        BY <2>1, <3>1
      <3> QED
        BY <3>1, <3>2
    <2> HIDE DEF all
    <2>5. net \in Seq(Messages) /\ \A i \in 1..Len(net) : net[i] \in Messages /\ Genuine(net[i])
      BY ElementOfSeq DEF Base, TypeOK, Transport
    <2>6. ASSUME NEW i \in 1..Len(net')
          PROVE  Genuine(net[i])'
      <3>1. CASE i \in 1..Len(net)
        BY <2>1, <2>3, <2>5, <3>1 DEF Genuine
      <3>2. CASE i - Len(net) \in 1..l /\ net'[i] = all[a + (i - Len(net))]
        <4>0. Len(net) \in Nat
          BY <2>5
        <4>1. a + (i - Len(net)) \in (a + 1)..(a + l)
          BY <2>1, <2>4, <3>2, <4>0
        <4>2. /\ net'[i].hash = S /\ net'[i].from = Last + 1
              /\ net'[i].topic \in TopicsOf(S)
          BY <2>4, <3>2, <4>1
        <4>3. Last + 1 \in 1..Last'
          BY <2>2
        <4> QED
          BY <2>2, <4>2, <4>3 DEF Genuine
      <3>3. QED
        BY <2>1, <3>1, <3>2
    <2>7. ASSUME NEW t \in Topics
          PROVE  /\ retained'[t] \in Messages
                 /\ retained'[t] = NoneRetained \/ (Genuine(retained[t])' /\ retained'[t].topic = t)
      <3>1. CASE \E k \in (a + 1)..(a + l) : all[k].topic = t
        <4>1. retained'[t] = Message(Last + 1, S, t) /\ t \in TopicsOf(S)
          BY <2>1, <2>4, <3>1
        <4>2. QED
          BY <2>2, <4>1, CatalogFact DEF Genuine, Message, Messages
      <3>2. CASE ~\E k \in (a + 1)..(a + l) : all[k].topic = t
        <4>1. retained'[t] = retained[t]
          BY <2>1, <3>2
        <4>2. retained[t] \in Messages
          BY DEF Base, TypeOK
        <4>3. QED
          BY <2>3, <4>1, <4>2 DEF Base, Transport, Genuine
      <3>3. QED
        BY <3>1, <3>2
    <2>8. Transport'
      BY <2>6, <2>7 DEF Transport
    <2>9. retained' \in [Topics -> Messages]
      <3>1. retained' = [t \in Topics |-> retained'[t]]
        BY <2>1
      <3>2. QED
        BY <2>7, <3>1
    <2>10. Buffered'
      BY <2>2 DEF Base, Buffered, Received
    <2>11. sent' \in BOOLEAN /\ cut' \in BOOLEAN
      BY <2>1
    <2>12. QED
      BY <2>1, <2>2, <2>8, <2>9, <2>10, <2>11 DEF Base, TypeOK
  <1>2. ASSUME NEW t \in Topics, Repeat(t)
        PROVE  Base'
    <2>1. \A i \in 1..Len(net') : Genuine(net'[i])
      BY <1>2, RepeatFact DEF Base, Transport
    <2>2. Transport'
      BY <1>2, <2>1, RepeatFact DEF Base, Transport, Genuine, Last
    <2>3. Buffered'
      BY <1>2, RepeatFact DEF Base, Buffered, Received
    <2>4. /\ net' \in Seq(Messages) /\ repeats' = repeats + 1
          /\ UNCHANGED <<exports, sent, cut, retained, buffer, versions, active, attrs, hash, replays,
                         faults>>
      BY <1>2, RepeatFact
    <2>5. repeats' \in Nat
      <3>1. repeats \in Nat
        BY DEF Base, TypeOK
      <3>2. QED
        BY <2>4, <3>1
    <2>6. QED
      BY <2>2, <2>3, <2>4, <2>5 DEF Base, TypeOK
  <1>3. ASSUME NEW restarted \in BOOLEAN, Reconnect(restarted)
        PROVE  Base'
    <2>1. Transport'
      BY <1>3, ReconnectFact DEF Base, Transport, Genuine, Last
    <2>2. NothingReceived \in [Topics \ {0} -> Nat] /\ Filled(NothingReceived) = {}
      BY DEF NothingReceived, Filled
    <2>3. buffer' \in [SUBSET Addresses -> [Topics \ {0} -> Nat]]
      BY <1>3, <2>2, ReconnectFact DEF Base, TypeOK
    <2>4. Buffered'
      <3>1. CASE buffer' = buffer
        BY <3>1 DEF Base, Buffered, Received
      <3>2. CASE buffer' = [S \in SUBSET Addresses |-> NothingReceived]
        <4> SUFFICES ASSUME NEW S \in Catalogs
                     PROVE  Filled(buffer'[S]) \subseteq 1..Total(S)
                            /\ Filled(buffer'[S]) # 1..Total(S)
          BY DEF Buffered, Received
        <4>1. Filled(buffer'[S]) = {}
          BY <2>2, <3>2, CatalogFact
        <4>2. QED
          BY <4>1, TotalFact
      <3>3. QED
        BY <1>3, <3>1, <3>2, ReconnectFact
    <2>5. /\ net' \in Seq(Messages) /\ replays' = replays + 1
          /\ UNCHANGED <<exports, sent, cut, retained, versions, active, attrs, hash, repeats, faults>>
      BY <1>3, ReconnectFact
    <2>6. replays' \in Nat
      <3>1. replays \in Nat
        BY DEF Base, TypeOK
      <3>2. QED
        BY <2>5, <3>1
    <2>7. QED
      BY <2>1, <2>3, <2>4, <2>5, <2>6 DEF Base, TypeOK
  <1>4. CASE HandleFull
    <2> DEFINE m == Head(net)
    <2>1. m \in Messages /\ m.hash \in Catalogs /\ m.from \in Nat
      BY <1>4, HandleFullFact, HeadFact, GenuineFact DEF Base
    <2>2. DatabaseOK'
      <3>1. \A o \in m.hash : [p \in Addresses |-> m.from][o] \in Nat
        BY <2>1, CatalogFact
      <3>2. QED
        BY <1>4, <2>1, <3>1, HandleFullFact, ProcessFact, BaseDatabase
    <2>3. net' \in Seq(Messages) /\ Transport'
      BY <1>4, HandleFullFact, TailTransport
    <2>4. Buffered'
      BY <1>4, HandleFullFact DEF Base, Buffered, Received
    <2>5. QED
      BY <1>4, <2>2, <2>3, <2>4, HandleFullFact DEF Base, TypeOK, DatabaseOK
  <1>5. CASE HandleChunk
    <2> DEFINE m == Head(net)
    <2>1. m \in Messages /\ Genuine(m) /\ m.hash \in Catalogs /\ m.topic # 0
      BY <1>5, HandleChunkFact, HeadFact, GenuineFact DEF Base
    <2>0. PICK got : HandledChunk(m, got)
      BY <1>5, HandleChunkFact
    <2>2. /\ got = [buffer[m.hash] EXCEPT ![m.topic] = m.from]
          /\ buffer' = Dropped(m.hash, got)
          /\ Complete(m.hash, got) =>
               Process(m.hash, m.hash, [o \in Addresses |-> got[ChunkOf(m.hash, o)]])
          /\ ~Complete(m.hash, got) => UNCHANGED <<versions, active, attrs, hash>>
      BY <2>0 DEF HandledChunk
    <2>3. DatabaseOK'
      <3>1. CASE Complete(m.hash, got)
        <4>1. \A o \in m.hash : got[ChunkOf(m.hash, o)] \in Nat
          BY <2>1, <2>2, <3>1, ChunkFact
        <4>2. \A o \in m.hash : [p \in Addresses |-> got[ChunkOf(m.hash, p)]][o] \in Nat
          BY <2>1, <4>1, CatalogFact
        <4>3. QED
          BY <2>1, <2>2, <3>1, <4>2, ProcessFact, BaseDatabase
      <3>2. CASE ~Complete(m.hash, got)
        BY <2>2, <3>2, BaseDatabase DEF DatabaseOK
      <3>3. QED
        BY <3>1, <3>2
    <2>4. net' \in Seq(Messages) /\ Transport'
      BY <1>5, HandleChunkFact, TailTransport
    <2>5. buffer' \in [SUBSET Addresses -> [Topics \ {0} -> Nat]] /\ Buffered'
      BY <2>1, <2>2, DroppedFact
    <2>6. QED
      BY <1>5, <2>3, <2>4, <2>5, HandleChunkFact DEF Base, TypeOK, DatabaseOK
  <1>6. CASE PassOver \/ HandleFail
    <2>1. net' \in Seq(Messages) /\ Transport'
      BY <1>6, PassOverFact, HandleFailFact, TailTransport
    <2>2. /\ faults' = faults + 1
          /\ buffer' \in [SUBSET Addresses -> [Topics \ {0} -> Nat]] /\ Buffered'
          /\ UNCHANGED <<exports, sent, cut, retained, versions, active, attrs, hash, repeats, replays>>
      BY <1>6, PassOverFact, HandleFailFact
    <2>3. faults' \in Nat
      <3>1. faults \in Nat
        BY DEF Base, TypeOK
      <3>2. QED
        BY <2>2, <3>1
    <2>4. QED
      BY <2>1, <2>2, <2>3 DEF Base, TypeOK
  <1>7. CASE UNCHANGED vars
    BY <1>7 DEF vars, database, Base, TypeOK, Transport, Genuine, Last, Buffered, Received
  <1>8. QED
    BY <1>1, <1>2, <1>3, <1>4, <1>5, <1>6, <1>7 DEF Next

-----------------------------------------------------------------------------
(* One schema at a time.                                                   *)

\* A step leaves the database alone or stores a whole export.
LEMMA DatabaseStep ==
  ASSUME Base, [Next]_vars
  PROVE  \/ UNCHANGED <<versions, active, attrs, hash>>
         \/ \E S \in Catalogs : \E from : (\A o \in S : from[o] \in Nat) /\ Process(S, S, from)
  <1>1. CASE HandleFull
    <2> DEFINE m == Head(net)
               from == [o \in Addresses |-> m.from]
    <2>1. m \in Messages /\ m.hash \in Catalogs /\ m.from \in Nat
      BY <1>1, HandleFullFact, HeadFact, GenuineFact DEF Base
    <2>2. \A o \in m.hash : from[o] \in Nat
      BY <2>1, CatalogFact
    <2>3. Process(m.hash, m.hash, from)
      BY <1>1, HandleFullFact
    <2> HIDE DEF from
    <2>4. QED
      BY <2>1, <2>2, <2>3
  <1>2. CASE HandleChunk
    <2> DEFINE m == Head(net)
    <2>1. m \in Messages /\ Genuine(m) /\ m.hash \in Catalogs /\ m.topic # 0
      BY <1>2, HandleChunkFact, HeadFact, GenuineFact DEF Base
    <2>2. PICK got : HandledChunk(m, got)
      BY <1>2, HandleChunkFact
    <2> DEFINE from == [o \in Addresses |-> got[ChunkOf(m.hash, o)]]
    <2>3. CASE Complete(m.hash, got)
      <3>1. \A o \in m.hash : got[ChunkOf(m.hash, o)] \in Nat
        BY <2>1, <2>2, <2>3, ChunkFact DEF HandledChunk
      <3>2. \A o \in m.hash : from[o] \in Nat
        BY <2>1, <3>1, CatalogFact
      <3>3. Process(m.hash, m.hash, from)
        BY <2>2, <2>3 DEF HandledChunk
      <3> HIDE DEF from
      <3>4. QED
        BY <2>1, <3>2, <3>3
    <2>4. CASE ~Complete(m.hash, got)
      BY <2>2, <2>4 DEF HandledChunk
    <2>5. QED
      BY <2>3, <2>4
  <1>3. CASE UNCHANGED database
    BY <1>3 DEF database
  <1>4. QED
    BY <1>1, <1>2, <1>3 DEF Next, Export, Repeat, Reconnect, PassOver, HandleFail, vars

LEMMA OneSchemaStep ==
  ASSUME Base, ActiveIsOneSchema, [Next]_vars
  PROVE  ActiveIsOneSchema'
  <1>1. CASE UNCHANGED <<versions, active, attrs, hash>>
    BY <1>1 DEF ActiveIsOneSchema, ActiveObjects
  <1>2. ASSUME NEW S \in Catalogs, NEW from, \A o \in S : from[o] \in Nat, Process(S, S, from)
        PROVE  ActiveIsOneSchema'
    <2>1. /\ ActiveObjects' = S
          /\ versions' = versions \cup {S}
          /\ \A o \in S : active'[o] = "yes" /\ hash'[o] = S
          /\ \A o \in Addresses \ S : /\ active'[o] = IF active[o] = "yes" THEN "no" ELSE active[o]
                                      /\ hash'[o] = hash[o]
      BY <1>2, ProcessFact, BaseDatabase
    <2>2. ASSUME NEW o \in Addresses, active'[o] = "no"
          PROVE  o \in hash'[o] /\ hash'[o] \in versions'
      <3>1. o \notin S
        BY <2>1, <2>2
      <3>2. CASE active[o] = "yes"
        <4>1. o \in ActiveObjects
          BY <3>2 DEF ActiveObjects
        <4>2. hash[o] = ActiveObjects /\ hash[o] \in versions
          BY <4>1 DEF ActiveIsOneSchema
        <4>3. QED
          BY <2>1, <3>1, <4>1, <4>2
      <3>3. CASE active[o] # "yes"
        BY <2>1, <2>2, <3>1, <3>3 DEF ActiveIsOneSchema
      <3>4. QED
        BY <3>2, <3>3
    <2>3. QED
      BY <2>1, <2>2 DEF ActiveIsOneSchema
  <1>3. QED
    BY <1>1, <1>2, DatabaseStep

LEMMA BaseInvariant == Spec => []Base
  <1>1. Init => Base
    BY InitBase
  <1>2. Base /\ [Next]_vars => Base'
    BY BaseStep
  <1>3. QED
    BY <1>1, <1>2, PTL DEF Spec

\* Type correctness.
THEOREM TypeCorrect == Spec => []TypeOK
  <1>1. Base => TypeOK
    BY DEF Base
  <1>2. QED
    BY <1>1, BaseInvariant, PTL

\* Whatever chunks are lost, repeated, replayed in any order or left in the
\* buffer by an export that broke off, the active objects are those of one
\* export and carry its hash (_process_schema, _chunk_buffer).
THEOREM ActiveIsOneSchemaHolds == Spec => []ActiveIsOneSchema
  <1>1. Init => ActiveIsOneSchema
    BY DEF Init, ActiveIsOneSchema, ActiveObjects
  <1>2. Base /\ ActiveIsOneSchema /\ [Next]_vars => ActiveIsOneSchema'
    BY OneSchemaStep
  <1>3. QED
    BY <1>1, <1>2, BaseInvariant, PTL DEF Spec

-----------------------------------------------------------------------------
(* The newest export is in force.  Messages arrive in the order of the      *)
(* exports; until the first message of the last export is handled all of    *)
(* its messages are still under way, and from then on nothing else is.      *)

Ordered == \A i, j \in 1..Len(net) : i <= j => net[i].from <= net[j].from

OnlyLast == \A i \in 1..Len(net) : net[i].from = Last

Waiting(t) == \E i \in 1..Len(net) : net[i].from = Last /\ net[i].topic = t

AllWaiting == \A t \in TopicsOf(Catalog) : Waiting(t)

AllKnown == \A t \in TopicsOf(Catalog) : Waiting(t) \/ t \in Received(Catalog)

\* An object of the newest export has its attributes, or will.
TopicOf(o) == IF Cardinality(Catalog) <= ChunkSize THEN 0 ELSE ChunkOf(Catalog, o)

Kept(o) == buffer[Catalog][ChunkOf(Catalog, o)]

Settled(o) ==
  \/ Waiting(TopicOf(o))
  \/ Kept(o) = Last
  \/ attrs[o] = Last /\ (TopicOf(o) = 0 \/ Kept(o) = 0)

AllSettled == \A o \in Catalog : Settled(o)

InForce ==
  sent /\ Last > 0 =>
    AllWaiting \/ (OnlyLast /\ (ActiveObjects = Catalog \/ AllKnown) /\ AllSettled)

Steady == replays = 0 /\ faults = 0 => Ordered /\ InForce

LEMMA NetFact ==
  ASSUME Base
  PROVE  /\ TypeOK /\ net \in Seq(Messages) /\ Len(net) \in Nat /\ Last \in Nat
         /\ \A i \in 1..Len(net) : /\ net[i] \in Messages /\ Genuine(net[i])
                                   /\ net[i].from \in Nat /\ net[i].from <= Last
  <1>1. TypeOK /\ net \in Seq(Messages) /\ Len(net) \in Nat /\ Last \in Nat
    <2>1. TypeOK
      BY DEF Base
    <2>2. net \in Seq(Messages) /\ exports \in Seq(Catalogs)
      BY <2>1 DEF TypeOK
    <2>3. Len(net) \in Nat /\ Last \in Nat
      BY <2>2 DEF Last
    <2>4. QED
      BY <2>1, <2>2, <2>3
  <1>2. ASSUME NEW i \in 1..Len(net)
        PROVE  net[i] \in Messages /\ Genuine(net[i])
    BY <1>1, ElementOfSeq DEF Base, Transport
  <1>3. QED
    BY <1>1, <1>2, GenuineFact

LEMMA TailWaiting ==
  ASSUME Base, net # <<>>, net' = Tail(net), exports' = exports,
         NEW t, Waiting(t), Head(net).from # Last \/ Head(net).topic # t
  PROVE  Waiting(t)'
  <1>1. PICK i \in 1..Len(net) : net[i].from = Last /\ net[i].topic = t
    BY DEF Waiting
  <1>2. i # 1
    BY <1>1, HeadFact
  <1>3. i - 1 \in 1..Len(net') /\ (i - 1) + 1 = i
    BY <1>2, HeadFact
  <1>4. net'[i - 1] = net[i]
    BY <1>3, HeadFact
  <1>5. QED
    BY <1>1, <1>3, <1>4 DEF Waiting, Last

LEMMA TailOrdered ==
  ASSUME Base, Ordered, net # <<>>, net' = Tail(net), exports' = exports
  PROVE  Ordered' /\ (Head(net).from = Last => OnlyLast')
  <1>1. \A i \in 1..Len(net') : i + 1 \in 1..Len(net) /\ net'[i] = net[i + 1]
    BY HeadFact
  <1>2. Ordered'
    <2> SUFFICES ASSUME NEW i \in 1..Len(net'), NEW j \in 1..Len(net'), i <= j
                 PROVE  net'[i].from <= net'[j].from
      BY DEF Ordered
    <2>1. i + 1 \in 1..Len(net) /\ j + 1 \in 1..Len(net) /\ i + 1 <= j + 1
      BY <1>1
    <2>2. QED
      BY <1>1, <2>1 DEF Ordered
  <1>3. ASSUME Head(net).from = Last, NEW i \in 1..Len(net')
        PROVE  net'[i].from = Last
    <2>1. 1 \in 1..Len(net) /\ i + 1 \in 1..Len(net) /\ 1 <= i + 1 /\ net'[i] = net[i + 1]
      BY <1>1, HeadFact
    <2>2. net[1].from <= net[i + 1].from /\ net[1].from = Last
      BY <1>3, <2>1, HeadFact DEF Ordered
    <2>3. net[i + 1].from \in Nat /\ net[i + 1].from <= Last /\ Last \in Nat
      BY <2>1, NetFact
    <2>4. QED
      BY <2>1, <2>2, <2>3
  <1>4. QED
    BY <1>2, <1>3 DEF OnlyLast, Last

LEMMA TopicFact ==
  ASSUME Base, Last > 0, NEW o \in Catalog
  PROVE  /\ Catalog \in Catalogs /\ o \in Addresses
         /\ TopicOf(o) \in TopicsOf(Catalog)
         /\ ChunkOf(Catalog, o) \in 1..Total(Catalog)
         /\ ChunkOf(Catalog, o) \in Topics \ {0}
  <1>1. Catalog \in Catalogs
    BY NetFact DEF Catalog, Last, TypeOK
  <1>2. o \in Addresses /\ ChunkOf(Catalog, o) \in 1..Total(Catalog)
    BY <1>1, CatalogFact, ChunkOfFact
  <1>3. QED
    BY <1>1, <1>2, TopicsFact DEF TopicOf, TopicsOf

\* Handling a chunk of the newest export keeps its attributes, in the database
\* or in the buffer, and lets no chunk of an earlier export overwrite them.
LEMMA ChunkSettles ==
  ASSUME Base, Last > 0, net # <<>>, net' = Tail(net), exports' = exports,
         NEW m, m = Head(net), m.topic # 0, m.from = Last, m.hash = Catalog,
         NEW got, HandledChunk(m, got), AllWaiting \/ AllSettled
  PROVE  AllSettled'
  <1>1. m \in Messages /\ Genuine(m) /\ Cardinality(m.hash) > ChunkSize
    BY HeadFact, GenuineFact DEF Base
  <1>2. Last' = Last /\ Catalog' = Catalog
    BY DEF Last, Catalog
  <1>3. got = [buffer[m.hash] EXCEPT ![m.topic] = m.from] /\ buffer' = Dropped(m.hash, got)
    BY DEF HandledChunk
  <1>4. /\ got[m.topic] = Last
        /\ \A k \in (Topics \ {0}) \ {m.topic} : got[k] = buffer[Catalog][k]
        /\ Complete(m.hash, got) => \A o \in Catalog : got[ChunkOf(Catalog, o)] \in Nat \ {0}
    <2>1. \A k \in (Topics \ {0}) \ {m.topic} : got[k] = buffer[m.hash][k]
      BY <1>1, <1>3, ChunkFact
    <2>2. got[m.topic] = m.from
      BY <1>1, <1>3, ChunkFact
    <2>3. Complete(m.hash, got) => \A o \in m.hash : got[ChunkOf(m.hash, o)] \in Nat \ {0}
      BY <1>1, <1>3, ChunkFact
    <2> QED
      BY <2>1, <2>2, <2>3
  <1>5. buffer'[Catalog] = IF Complete(m.hash, got) THEN NothingReceived ELSE got
    BY <1>1, <1>3, DroppedFact
  <1> SUFFICES ASSUME NEW o \in Catalog
               PROVE  Settled(o)'
    BY <1>2 DEF AllSettled
  <1> PICK c : c = ChunkOf(Catalog, o)
    OBVIOUS
  <1>6. /\ Catalog \in Catalogs /\ c \in Topics \ {0} /\ o \in Addresses
        /\ TopicOf(o) \in TopicsOf(Catalog)
    BY TopicFact
  <1>7. TopicOf(o) = c /\ TopicOf(o)' = c /\ Kept(o) = buffer[Catalog][c]
        /\ Kept(o)' = buffer'[Catalog][c] /\ c # 0
    <2>1. Cardinality(Catalog) \in Nat /\ ChunkSize \in Nat
      BY <1>6, CatalogFact, SchemaConstants
    <2> QED
      BY <1>1, <1>2, <1>6, <2>1 DEF TopicOf, Kept
  <1>8. Settled(o)
    BY <1>6 DEF AllWaiting, AllSettled, Settled
  <1>9. ASSUME Complete(m.hash, got)
        PROVE  attrs'[o] = got[c] /\ buffer'[Catalog][c] = 0
    <2>1. \A p \in m.hash : [q \in Addresses |-> got[ChunkOf(m.hash, q)]][p] \in Nat
      BY <1>4, <1>6, <1>9, CatalogFact
    <2>2. Process(m.hash, m.hash, [q \in Addresses |-> got[ChunkOf(m.hash, q)]])
      BY <1>9 DEF HandledChunk
    <2> DEFINE from == [q \in Addresses |-> got[ChunkOf(m.hash, q)]]
    <2>3. attrs'[o] = from[o]
      <3>1. m.hash \in Catalogs /\ DatabaseOK /\ o \in m.hash
        BY <1>6, BaseDatabase
      <3> HIDE DEF from
      <3>2. \A p \in m.hash : attrs'[p] = from[p]
        BY <2>1, <2>2, <3>1, ProcessFact DEF from
      <3> QED
        BY <3>1, <3>2
    <2> QED
      BY <1>5, <1>6, <1>9, <2>3 DEF NothingReceived
  <1>10. ASSUME ~Complete(m.hash, got)
         PROVE  attrs' = attrs /\ buffer'[Catalog][c] = got[c]
    BY <1>5, <1>10 DEF HandledChunk
  <1>11. CASE c = m.topic \/ Kept(o) = Last
    <2>1. got[c] = Last
      BY <1>4, <1>6, <1>7, <1>11
    <2> QED
      BY <1>2, <1>7, <1>9, <1>10, <2>1 DEF Settled
  <1>12. CASE c # m.topic /\ Waiting(c)
    <2>1. Waiting(c)'
      BY <1>12, TailWaiting
    <2> QED
      BY <1>7, <2>1 DEF Settled
  <1>13. CASE c # m.topic /\ attrs[o] = Last /\ Kept(o) = 0
    <2>1. got[c] = 0 /\ ~Complete(m.hash, got)
      BY <1>4, <1>6, <1>7, <1>13
    <2> QED
      BY <1>2, <1>7, <1>10, <1>13, <2>1 DEF Settled
  <1> QED
    BY <1>7, <1>8, <1>11, <1>12, <1>13 DEF Settled

LEMMA ExportSteady ==
  ASSUME Base, Ordered, NEW S \in Catalogs, Export(S)
  PROVE  Ordered' /\ InForce'
  <1> DEFINE all == MessagesOf(Last + 1, S)
  <1>1. PICK a \in 0..Len(all), l \in 0..Len(all) :
          /\ a + l <= Len(all)
          /\ sent' = (l = Len(all))
          /\ Len(net') = Len(net) + l
          /\ \A i \in 1..Len(net) : net'[i] = net[i]
          /\ \A i \in 1..l : net'[Len(net) + i] = all[a + i]
          /\ \A i \in 1..Len(net') : i \in 1..Len(net)
                                     \/ (i - Len(net) \in 1..l
                                         /\ net'[i] = all[a + (i - Len(net))])
    <2>1. Arrived(all, S)
      BY ExportFact
    <2> HIDE DEF all
    <2> QED
      BY <2>1 DEF Arrived
  <1>2. Last \in Nat /\ Last' = Last + 1 /\ Catalog' = S
    BY ExportFact
  <1>3. /\ Len(all) \in Nat \ {0}
        /\ \A k \in 1..Len(all) : all[k].from = Last + 1 /\ all[k].topic \in TopicsOf(S)
        /\ \A t \in TopicsOf(S) : \E k \in 1..Len(all) : all[k].topic = t
    <2>1. /\ Len(MessagesOf(Last + 1, S)) \in Nat \ {0}
          /\ \A k \in 1..Len(MessagesOf(Last + 1, S)) :
               /\ MessagesOf(Last + 1, S)[k].from = Last + 1
               /\ MessagesOf(Last + 1, S)[k].topic \in TopicsOf(S)
          /\ \A t \in TopicsOf(S) : \E k \in 1..Len(MessagesOf(Last + 1, S)) :
               MessagesOf(Last + 1, S)[k].topic = t
      BY <1>2, MessagesFact
    <2> QED
      BY <2>1
  <1> HIDE DEF all
  <1>4. Len(net) \in Nat /\ a \in Nat /\ l \in Nat /\ a + l <= Len(all)
    BY <1>1, <1>3 DEF Base, TypeOK
  <1>5. \A i \in 1..Len(net) : net[i].from \in Nat /\ net[i].from <= Last
    BY NetFact
  <1>6. Ordered'
    <2> SUFFICES ASSUME NEW i \in 1..Len(net'), NEW j \in 1..Len(net'), i <= j
                 PROVE  net'[i].from <= net'[j].from
      BY DEF Ordered
    <2>1. ASSUME NEW k \in 1..Len(net'), k \notin 1..Len(net)
          PROVE  net'[k].from = Last + 1
      <3>1. k - Len(net) \in 1..l /\ net'[k] = all[a + (k - Len(net))]
        BY <1>1, <2>1
      <3>2. a + (k - Len(net)) \in 1..Len(all)
        BY <1>3, <1>4, <3>1
      <3>3. QED
        BY <1>3, <3>1, <3>2
    <2>2. CASE i \in 1..Len(net) /\ j \in 1..Len(net)
      BY <1>1, <2>2 DEF Ordered
    <2>3. CASE i \in 1..Len(net) /\ j \notin 1..Len(net)
      <3>1. net'[i] = net[i] /\ net'[j].from = Last + 1
        BY <1>1, <2>1, <2>3
      <3>2. net[i].from \in Nat /\ net[i].from <= Last
        BY <1>5, <2>3
      <3>3. QED
        BY <1>2, <3>1, <3>2
    <2>4. CASE i \notin 1..Len(net) /\ j \notin 1..Len(net)
      BY <1>2, <2>1, <2>4
    <2>5. CASE i \notin 1..Len(net) /\ j \in 1..Len(net)
      BY <1>1, <1>4, <2>5
    <2>6. QED
      BY <2>2, <2>3, <2>4, <2>5
  <1>7. InForce'
    <2> SUFFICES ASSUME sent', NEW t \in TopicsOf(S)
                 PROVE  \E i \in 1..Len(net') : net'[i].from = Last + 1 /\ net'[i].topic = t
      BY <1>2 DEF InForce, AllWaiting, Waiting
    <2>0. l = Len(all)
      BY <1>1
    <2>1. l = Len(all) /\ a = 0
      BY <1>3, <1>4, <2>0
    <2>2. PICK k \in 1..Len(all) : all[k].topic = t
      BY <1>3
    <2>3. Len(net) + k \in 1..Len(net')
      BY <1>1, <1>4, <2>1
    <2>4. net'[Len(net) + k] = all[k]
      <3>1. a + k = k
        BY <1>3, <2>1
      <3> QED
        BY <1>1, <2>1, <3>1
    <2>5. QED
      BY <1>3, <2>2, <2>3, <2>4
  <1>8. QED
    BY <1>6, <1>7

LEMMA RepeatSteady ==
  ASSUME Base, Ordered, InForce, NEW t \in Topics, Repeat(t)
  PROVE  Ordered' /\ InForce'
  <1>1. /\ Len(net') = Len(net) + 1 /\ Len(net) \in Nat
        /\ \A i \in 1..Len(net) : net'[i] = net[i]
        /\ net'[Len(net) + 1].from = Last
        /\ \A i \in 1..Len(net') : i \in 1..Len(net) \/ i = Len(net) + 1
        /\ UNCHANGED <<exports, sent, cut, buffer, active, attrs>>
    BY RepeatFact, NetFact
  <1>2. Last' = Last /\ Catalog' = Catalog /\ Last \in Nat
    BY <1>1, NetFact DEF Last, Catalog
  <1>3. \A i \in 1..Len(net) : i \in 1..Len(net') /\ net[i].from \in Nat /\ net[i].from <= Last
    BY <1>1, NetFact
  <1>4. Ordered'
    <2> SUFFICES ASSUME NEW i \in 1..Len(net'), NEW j \in 1..Len(net'), i <= j
                 PROVE  net'[i].from <= net'[j].from
      BY DEF Ordered
    <2>1. CASE i \in 1..Len(net) /\ j \in 1..Len(net)
      BY <1>1, <2>1 DEF Ordered
    <2>2. CASE i \in 1..Len(net) /\ j = Len(net) + 1
      BY <1>1, <1>3, <2>2
    <2>3. CASE i = Len(net) + 1 /\ j = Len(net) + 1
      BY <1>1, <1>2, <2>3
    <2>4. QED
      BY <1>1, <2>1, <2>2, <2>3
  <1>5. \A s : Waiting(s) => Waiting(s)'
    BY <1>1, <1>2, <1>3 DEF Waiting
  <1>6. AllWaiting => AllWaiting'
    BY <1>2, <1>5 DEF AllWaiting
  <1>7. Received(Catalog)' = Received(Catalog)
    BY <1>1, <1>2 DEF Received
  <1>8. AllKnown => AllKnown'
    BY <1>2, <1>5, <1>7 DEF AllKnown
  <1>9. OnlyLast => OnlyLast'
    BY <1>1, <1>2 DEF OnlyLast
  <1>10. ActiveObjects' = ActiveObjects
    BY <1>1 DEF ActiveObjects
  <1>11. AllSettled => AllSettled'
    BY <1>1, <1>2, <1>5 DEF AllSettled, Settled, TopicOf, Kept
  <1>12. InForce'
    BY <1>1, <1>2, <1>6, <1>8, <1>9, <1>10, <1>11 DEF InForce
  <1>13. QED
    BY <1>4, <1>12

LEMMA HandleFullSteady ==
  ASSUME Base, Ordered, InForce, HandleFull
  PROVE  Ordered' /\ InForce'
  <1> DEFINE m == Head(net)
  <1>1. /\ net # <<>> /\ net' = Tail(net) /\ m.topic = 0
        /\ UNCHANGED <<exports, sent, cut, buffer>>
    BY HandleFullFact
  <1>2. /\ m \in Messages /\ m.hash \in Catalogs /\ m.from \in Nat
        /\ m.from = Last => m.hash = Catalog
    BY <1>1, HeadFact, GenuineFact, NetFact
  <1>3. Ordered' /\ (m.from = Last => OnlyLast')
    BY <1>1, TailOrdered
  <1>4. Last' = Last /\ Catalog' = Catalog
    BY <1>1 DEF Last, Catalog
  <1>5. CASE m.from = Last
    <2>1. \A o \in m.hash : [p \in Addresses |-> m.from][o] \in Nat
      BY <1>2, CatalogFact
    <2>2. ActiveObjects' = m.hash
      BY <1>2, <2>1, HandleFullFact, ProcessFact, BaseDatabase
    <2>3. AllSettled'
      <3>1. \A o \in m.hash : attrs'[o] = m.from
        <4>1. \A o \in m.hash : [p \in Addresses |-> m.from][o] = m.from
          BY <1>2, CatalogFact
        <4> QED
          BY <1>2, <2>1, <4>1, HandleFullFact, ProcessFact, BaseDatabase
      <3>2. Cardinality(m.hash) <= ChunkSize
        BY <1>1, HeadFact, GenuineFact, NetFact
      <3> QED
        BY <1>2, <1>4, <1>5, <3>1, <3>2 DEF AllSettled, Settled, TopicOf
    <2>4. QED
      BY <1>2, <1>3, <1>4, <1>5, <2>2, <2>3 DEF InForce
  <1>6. CASE m.from # Last
    <2>1. 1 \in 1..Len(net) /\ net[1].from # Last
      BY <1>1, <1>6, HeadFact
    <2>2. ~OnlyLast
      BY <2>1 DEF OnlyLast
    <2>3. AllWaiting => AllWaiting'
      BY <1>1, <1>4, <1>6, TailWaiting DEF AllWaiting
    <2>4. QED
      BY <1>1, <1>3, <1>4, <2>2, <2>3 DEF InForce
  <1>7. QED
    BY <1>5, <1>6

LEMMA HandleChunkSteady ==
  ASSUME Base, Ordered, InForce, HandleChunk
  PROVE  Ordered' /\ InForce'
  <1> DEFINE m == Head(net)
  <1>1. /\ net # <<>> /\ net' = Tail(net) /\ m.topic # 0
        /\ UNCHANGED <<exports, sent, cut>>
    BY HandleChunkFact
  <1>2. /\ m \in Messages /\ Genuine(m) /\ m.hash \in Catalogs
        /\ m.from = Last => m.hash = Catalog
    BY <1>1, HeadFact, GenuineFact, NetFact
  <1>3. Ordered' /\ (m.from = Last => OnlyLast')
    BY <1>1, TailOrdered
  <1>4. Last' = Last /\ Catalog' = Catalog
    BY <1>1 DEF Last, Catalog
  <1>5. CASE m.from = Last
    <2>1. PICK got : HandledChunk(m, got)
      BY HandleChunkFact
    <2>2. got = [buffer[m.hash] EXCEPT ![m.topic] = m.from] /\ buffer' = Dropped(m.hash, got)
      BY <2>1 DEF HandledChunk
    <2>6. ASSUME sent, Last > 0
          PROVE  AllSettled'
      <3>1. AllWaiting \/ AllSettled
        BY <2>6 DEF InForce
      <3>2. m.hash = Catalog
        BY <1>2, <1>5
      <3> HIDE DEF m
      <3>3. m = Head(net)
        BY DEF m
      <3> QED
        BY <1>1, <1>5, <2>1, <2>6, <3>1, <3>2, <3>3, ChunkSettles
    <2>3. CASE Complete(m.hash, got)
      <3>1. \A o \in m.hash : got[ChunkOf(m.hash, o)] \in Nat
        BY <1>1, <1>2, <2>2, <2>3, ChunkFact
      <3>2. \A o \in m.hash : [p \in Addresses |-> got[ChunkOf(m.hash, p)]][o] \in Nat
        BY <1>2, <3>1, CatalogFact
      <3>3. ActiveObjects' = m.hash
        BY <1>2, <2>1, <2>3, <3>2, ProcessFact, BaseDatabase DEF HandledChunk
      <3>4. QED
        BY <1>1, <1>2, <1>3, <1>4, <1>5, <2>6, <3>3 DEF InForce
    <2>4. CASE ~Complete(m.hash, got)
      <3>1. ActiveObjects' = ActiveObjects
        BY <2>1, <2>4 DEF HandledChunk, ActiveObjects
      <3>2. Received(Catalog)' = Received(Catalog) \cup {m.topic}
        <4>1. buffer'[m.hash] = got
          BY <1>1, <1>2, <2>2, <2>4, DroppedFact
        <4>2. Filled(got) = Received(m.hash) \cup {m.topic}
          BY <1>1, <1>2, <2>2, ChunkFact
        <4>3. QED
          BY <1>2, <1>4, <1>5, <4>1, <4>2 DEF Received
      <3>3. \A t : Waiting(t) /\ t # m.topic => Waiting(t)'
        BY <1>1, TailWaiting
      <3>4. AllWaiting \/ AllKnown => AllKnown'
        BY <1>4, <3>2, <3>3 DEF AllWaiting, AllKnown
      <3>5. QED
        BY <1>1, <1>3, <1>4, <1>5, <2>6, <3>1, <3>4 DEF InForce
    <2>5. QED
      BY <2>3, <2>4
  <1>6. CASE m.from # Last
    <2>1. 1 \in 1..Len(net) /\ net[1].from # Last
      BY <1>1, <1>6, HeadFact
    <2>2. ~OnlyLast
      BY <2>1 DEF OnlyLast
    <2>3. AllWaiting => AllWaiting'
      BY <1>1, <1>4, <1>6, TailWaiting DEF AllWaiting
    <2>4. QED
      BY <1>1, <1>3, <1>4, <2>2, <2>3 DEF InForce
  <1>7. QED
    BY <1>5, <1>6

LEMMA SteadyStep == Base /\ Steady /\ [Next]_vars => Steady'
  <1> SUFFICES ASSUME Base, Steady, [Next]_vars
               PROVE  Steady'
    OBVIOUS
  <1>1. ASSUME NEW S \in Catalogs, Export(S)
        PROVE  Steady'
    BY <1>1, ExportFact, ExportSteady DEF Steady
  <1>2. ASSUME NEW t \in Topics, Repeat(t)
        PROVE  Steady'
    BY <1>2, RepeatFact, RepeatSteady DEF Steady
  <1>3. ASSUME NEW restarted \in BOOLEAN, Reconnect(restarted)
        PROVE  Steady'
    <2>1. replays' # 0
      BY <1>3, ReconnectFact
    <2>2. QED
      BY <2>1 DEF Steady
  <1>4. CASE HandleFull
    BY <1>4, HandleFullFact, HandleFullSteady DEF Steady
  <1>5. CASE HandleChunk
    BY <1>5, HandleChunkFact, HandleChunkSteady DEF Steady
  <1>6. CASE PassOver \/ HandleFail
    <2>1. faults' # 0
      BY <1>6, PassOverFact, HandleFailFact
    <2>2. QED
      BY <2>1 DEF Steady
  <1>7. CASE UNCHANGED vars
    BY <1>7 DEF vars, database, Steady, Ordered, InForce, AllWaiting, AllKnown, OnlyLast, Waiting,
                AllSettled, Settled, TopicOf, Kept, Received, Last, Catalog, ActiveObjects
  <1>8. QED
    BY <1>1, <1>2, <1>3, <1>4, <1>5, <1>6, <1>7 DEF Next

\* While the server stays connected and no handler fails, the active objects
\* are those of the newest complete export, whatever chunks earlier exports
\* left in the buffer and whatever is transmitted twice (publish_meta,
\* handle_chunk_meta).
THEOREM NewestInForceHolds == Spec => []NewestInForce
  <1>1. Init => Steady
    BY DEF Init, Steady, Ordered, InForce, Last
  <1>2. Base /\ Steady /\ [Next]_vars => Steady'
    BY SteadyStep
  <1>3. Base /\ Steady => NewestInForce
    <2> SUFFICES ASSUME Base, Steady, Idle, replays = 0, faults = 0
                 PROVE  ActiveObjects = Catalog
      BY DEF NewestInForce
    <2>1. net = <<>> /\ sent /\ Last > 0 /\ InForce
      BY DEF Idle, Steady
    <2>2. Catalog \in Catalogs
      BY <2>1, NetFact DEF Catalog, Last, TypeOK
    <2>3. \A t : ~Waiting(t)
      BY <2>1 DEF Waiting
    <2>4. ~AllWaiting
      BY <2>2, <2>3, TopicsFact DEF AllWaiting
    <2>5. ~AllKnown
      <3>1. Received(Catalog) \subseteq 1..Total(Catalog) /\ Received(Catalog) # 1..Total(Catalog)
        BY <2>2 DEF Base, Buffered
      <3>2. 0 \notin Received(Catalog)
        BY DEF Received, Filled
      <3>3. ~(TopicsOf(Catalog) \subseteq Received(Catalog))
        BY <3>1, <3>2 DEF TopicsOf
      <3>4. QED
        BY <2>3, <3>3 DEF AllKnown
    <2>6. QED
      BY <2>1, <2>4, <2>5 DEF InForce
  <1>4. QED
    BY <1>1, <1>2, <1>3, BaseInvariant, PTL DEF Spec

-----------------------------------------------------------------------------
(* The attributes of the newest export.  With nothing repeated, the chunks  *)
(* of an export arrive in order, so what is buffered of a schema is always  *)
(* a prefix of its chunks, and the chunk that completes it is the last one, *)
(* of an export all of whose chunks are the ones buffered.                  *)

Prefixed == \A S \in Catalogs : \A k \in Received(S) : 1..k \subseteq Received(S)

Follows(a, b) ==
  \/ b.from = a.from /\ b.topic = a.topic + 1
  \/ b.from > a.from /\ b.topic \in {0, 1}

Consecutive == \A i, j \in 1..Len(net) : j = i + 1 => Follows(net[i], net[j])

\* The chunks before the next one are buffered, from the same export.
Ready(m) == \A k \in 1..(m.topic - 1) : buffer[m.hash][k] = m.from

HeadReady == net # <<>> => Ready(Head(net))

FinalTopic(S) == IF Cardinality(S) <= ChunkSize THEN 0 ELSE Total(S)

Final(m) == m.from = Last /\ m.topic = FinalTopic(Catalog)

Ending ==
  sent /\ Last > 0 => IF net = <<>> THEN \A o \in Catalog : attrs[o] = Last
                      ELSE Final(net[Len(net)])

Exact ==
  replays = 0 /\ faults = 0 /\ repeats = 0 /\ ~cut =>
    Prefixed /\ Consecutive /\ HeadReady /\ Ending

LEMMA ExportExact ==
  ASSUME Base, Prefixed, Consecutive, HeadReady, NEW S \in Catalogs, Export(S), ~cut'
  PROVE  Prefixed' /\ Consecutive' /\ HeadReady' /\ Ending'
  <1> DEFINE all == MessagesOf(Last + 1, S)
  <1>1. PICK n \in 0..Len(all) :
          /\ sent' = (n = Len(all))
          /\ net' \in Seq(Messages) /\ Len(net') = Len(net) + n
          /\ \A i \in 1..Len(net) : net'[i] = net[i]
          /\ \A i \in 1..n : net'[Len(net) + i] = all[i]
          /\ \A i \in 1..Len(net') : i \in 1..Len(net)
                                     \/ (i - Len(net) \in 1..n /\ net'[i] = all[i - Len(net)])
    <2>1. PICK a \in 0..Len(all), l \in 0..Len(all) :
            /\ sent' = (l = Len(all)) /\ cut' = (cut \/ (l > 0 /\ a > 0))
            /\ net' \in Seq(Messages) /\ Len(net') = Len(net) + l
            /\ \A i \in 1..Len(net) : net'[i] = net[i]
            /\ \A i \in 1..l : net'[Len(net) + i] = all[a + i]
            /\ \A i \in 1..Len(net') : i \in 1..Len(net)
                                       \/ (i - Len(net) \in 1..l
                                           /\ net'[i] = all[a + (i - Len(net))])
      <3>1. Arrived(all, S)
        BY ExportFact
      <3> HIDE DEF all
      <3> QED
        BY <3>1 DEF Arrived
    <2>2. Len(all) \in Nat /\ Len(net) \in Nat /\ Len(net') \in Nat
      BY <2>1, ExportFact, MessagesFact, NetFact
    <2> HIDE DEF all
    <2>3. l = 0 \/ a = 0
      <3>1. ~(l > 0 /\ a > 0)
        BY <2>1
      <3>2. l \in Nat /\ a \in Nat
        BY <2>1, <2>2
      <3> QED
        BY <3>1, <3>2
    <2>4. \A i \in 1..l : a + i = i
      BY <2>1, <2>2, <2>3
    <2> WITNESS l \in 0..Len(all)
    <2> QED
      BY <2>1, <2>4
  <1>2. Last \in Nat /\ Last' = Last + 1 /\ Catalog' = S /\ UNCHANGED buffer
    BY ExportFact
  <1>3. /\ Len(all) \in Nat \ {0}
        /\ \A k \in 1..Len(all) : /\ all[k].from = Last + 1
                                  /\ all[k].topic = IF Cardinality(S) <= ChunkSize THEN 0 ELSE k
        /\ Len(all) = IF Cardinality(S) <= ChunkSize THEN 1 ELSE Total(S)
    BY <1>2, MessagesFact
  <1> HIDE DEF all
  <1>4. Len(net) \in Nat /\ net \in Seq(Messages) /\ n \in Nat /\ n <= Len(all)
    BY <1>1, <1>3, NetFact
  <1>5. \A i \in 1..Len(net) : net[i].from \in Nat /\ net[i].from <= Last
    BY NetFact
  <1>6. Prefixed'
    BY <1>2 DEF Prefixed, Received
  <1>7. ASSUME NEW i \in 1..Len(net'), NEW j \in 1..Len(net'), j = i + 1
        PROVE  Follows(net'[i], net'[j])
    <2>1. CASE j \in 1..Len(net)
      <3>1. i \in 1..Len(net)
        BY <1>4, <1>7, <2>1
      <3>2. QED
        BY <1>1, <1>7, <2>1, <3>1 DEF Consecutive
    <2>2. CASE i \in 1..Len(net) /\ j \notin 1..Len(net)
      <3>1. j - Len(net) = 1 /\ 1 \in 1..n /\ net'[j] = all[1]
        BY <1>1, <1>4, <1>7, <2>2
      <3>2. all[1].from = Last + 1 /\ all[1].topic \in {0, 1}
        BY <1>3, <3>1
      <3>3. net'[i].from \in Nat /\ net'[i].from <= Last
        BY <1>1, <1>5, <2>2
      <3>4. QED
        BY <1>2, <3>1, <3>2, <3>3 DEF Follows
    <2>3. CASE i \notin 1..Len(net) /\ j \notin 1..Len(net)
      <3>1. PICK k \in 1..n : k = i - Len(net) /\ net'[i] = all[k]
        BY <1>1, <2>3
      <3>2. k + 1 \in 1..n /\ k + 1 = j - Len(net) /\ net'[j] = all[k + 1]
        BY <1>1, <1>4, <1>7, <2>3, <3>1
      <3>3. k \in 1..Len(all) /\ k + 1 \in 1..Len(all)
        BY <1>3, <1>4, <3>1, <3>2
      <3>4. ~(Cardinality(S) <= ChunkSize)
        BY <1>3, <3>3
      <3>5. all[k].topic = k /\ all[k + 1].topic = k + 1 /\ all[k + 1].from = all[k].from
        BY <1>3, <3>3, <3>4
      <3>6. QED
        BY <3>1, <3>2, <3>5 DEF Follows
    <2>4. QED
      BY <2>1, <2>2, <2>3
  <1>8. HeadReady'
    <2> SUFFICES ASSUME net' # <<>>
                 PROVE  Ready(Head(net))'
      BY DEF HeadReady
    <2>1. Head(net') = net'[1] /\ 1 \in 1..Len(net')
      BY <1>1
    <2>2. CASE net # <<>>
      <3>1. Head(net) = net[1] /\ 1 \in 1..Len(net)
        BY <1>4, <2>2
      <3>2. Head(net') = Head(net) /\ Ready(Head(net))
        BY <1>1, <2>1, <2>2, <3>1 DEF HeadReady
      <3>3. QED
        BY <1>2, <3>2 DEF Ready
    <2>3. CASE net = <<>>
      <3>1. Head(net') = all[1] /\ 1 \in 1..Len(all)
        BY <1>1, <1>3, <1>4, <2>1, <2>3
      <3>2. Head(net').topic \in {0, 1}
        BY <1>3, <3>1
      <3>3. 1..(Head(net').topic - 1) = {}
        BY <3>2
      <3>4. QED
        BY <3>3 DEF Ready
    <2>4. QED
      BY <2>2, <2>3
  <1>9. Ending'
    <2> SUFFICES ASSUME sent'
                 PROVE  net' # <<>> /\ Final(net[Len(net)])'
      BY DEF Ending
    <2>1. n = Len(all)
      BY <1>1
    <2>2. Len(net') \in Nat \ {0} /\ n \in 1..n /\ net'[Len(net')] = all[n]
      BY <1>1, <1>3, <1>4, <2>1
    <2>3. net' # <<>>
      BY <2>2
    <2>4. all[n].from = Last + 1 /\ all[n].topic = FinalTopic(S)
      BY <1>3, <2>1 DEF FinalTopic
    <2>5. QED
      BY <1>2, <2>2, <2>3, <2>4 DEF Final
  <1>10. Consecutive'
    BY <1>7 DEF Consecutive
  <1>11. QED
    BY <1>6, <1>8, <1>9, <1>10

\* What is left under way after the head of net is handled, when the chunks
\* after it follow on from what is buffered then.
LEMMA TailExact ==
  ASSUME Base, Consecutive, net # <<>>, net' = Tail(net), exports' = exports, sent' = sent,
         Ending,
         NEW m, m = Head(net),
         m.topic # 0 => \/ m.topic = Total(m.hash)
                        \/ \A k \in 1..m.topic : buffer'[m.hash][k] = m.from,
         (net' = <<>> /\ Final(m)) => \A o \in Catalog : attrs'[o] = Last
  PROVE  Consecutive' /\ HeadReady' /\ Ending'
  <1>1. /\ m = net[1] /\ m \in Messages /\ Genuine(m)
        /\ Len(net) \in Nat \ {0}
        /\ net' \in Seq(Messages) /\ Len(net') = Len(net) - 1
        /\ \A i \in 1..Len(net') : i + 1 \in 1..Len(net) /\ net'[i] = net[i + 1]
    BY HeadFact
  <1>2. Last' = Last /\ Catalog' = Catalog
    BY DEF Last, Catalog
  <1>3. Consecutive'
    <2> SUFFICES ASSUME NEW i \in 1..Len(net'), NEW j \in 1..Len(net'), j = i + 1
                 PROVE  Follows(net'[i], net'[j])
      BY DEF Consecutive
    <2>1. i + 1 \in 1..Len(net) /\ j + 1 \in 1..Len(net) /\ j + 1 = (i + 1) + 1
      BY <1>1
    <2>2. Follows(net[i + 1], net[j + 1])
      BY <2>1 DEF Consecutive
    <2>3. QED
      BY <1>1, <2>2
  <1>4. HeadReady'
    <2> SUFFICES ASSUME net' # <<>>
                 PROVE  Ready(Head(net))'
      BY DEF HeadReady
    <2>1. 1 \in 1..Len(net') /\ Head(net') = net'[1]
      BY <1>1
    <2> DEFINE b == net[2]
    <2>2. 1 \in 1..Len(net) /\ 2 \in 1..Len(net) /\ 2 = 1 + 1 /\ Head(net') = b
      BY <1>1, <2>1
    <2>3. Follows(m, b)
      BY <1>1, <2>2 DEF Consecutive
    <2>4. b \in Messages /\ Genuine(b)
      BY <2>2, NetFact
    <2> HIDE DEF b
    <2> SUFFICES ASSUME NEW k \in 1..(b.topic - 1)
                 PROVE  buffer'[b.hash][k] = b.from
      BY <2>2 DEF Ready
    <2>5. CASE b.from > m.from /\ b.topic \in {0, 1}
      BY <2>5
    <2>6. CASE b.from = m.from /\ b.topic = m.topic + 1
      <3>1. b.hash = m.hash
        BY <1>1, <2>4, <2>6 DEF Genuine
      <3>2. m.hash \in Catalogs /\ m.topic \in TopicsOf(m.hash) /\ b.topic \in TopicsOf(m.hash)
        BY <1>1, <2>4, <3>1, GenuineFact DEF Base
      <3>3. Total(m.hash) \in Nat
        BY <3>2, TotalFact
      <3>4. m.topic # 0 /\ m.topic # Total(m.hash) /\ m.topic \in Nat
        BY <2>6, <3>2, <3>3 DEF TopicsOf
      <3>5. k \in 1..m.topic
        BY <2>6, <3>4
      <3>6. QED
        BY <2>6, <3>1, <3>4, <3>5
    <2>7. QED
      BY <2>3, <2>5, <2>6 DEF Follows
  <1>5. Ending'
    <2> SUFFICES ASSUME sent, Last > 0
                 PROVE  IF net' = <<>> THEN \A o \in Catalog : attrs'[o] = Last
                        ELSE Final(net'[Len(net')])
      BY <1>2 DEF Ending, Final
    <2>1. Final(net[Len(net)])
      BY DEF Ending
    <2>2. CASE net' = <<>>
      <3>1. Len(net) = 1
        <4>1. Len(net') = 0
          BY <1>1, <2>2, EmptySeq
        <4>2. Len(net) - 1 = 0 /\ Len(net) \in Nat
          BY <1>1, <4>1
        <4>3. QED
          BY <4>2
      <3>2. QED
        BY <1>1, <2>1, <2>2, <3>1
    <2>3. CASE net' # <<>>
      <3>1. Len(net') \in 1..Len(net') /\ Len(net') + 1 = Len(net)
        BY <1>1, <2>3
      <3>2. net'[Len(net')] = net[Len(net)]
        BY <1>1, <3>1
      <3>3. QED
        BY <2>1, <2>3, <3>2
    <2>4. QED
      BY <2>2, <2>3
  <1>6. QED
    BY <1>3, <1>4, <1>5

LEMMA HandleFullExact ==
  ASSUME Base, Prefixed, Consecutive, Ending, HandleFull
  PROVE  Prefixed' /\ Consecutive' /\ HeadReady' /\ Ending'
  <1> DEFINE m == Head(net)
  <1>1. /\ net # <<>> /\ net' = Tail(net) /\ m.topic = 0
        /\ UNCHANGED <<exports, sent, cut, buffer>>
    BY HandleFullFact
  <1>2. /\ m \in Messages /\ m.hash \in Catalogs /\ m.from \in Nat
        /\ m.from = Last => m.hash = Catalog
    BY <1>1, HeadFact, GenuineFact, NetFact
  <1>3. Prefixed'
    BY <1>1 DEF Prefixed, Received
  <1>4. \A o \in m.hash : [p \in Addresses |-> m.from][o] = m.from
    BY <1>2, CatalogFact
  <1>5. \A o \in m.hash : attrs'[o] = m.from
    BY <1>2, <1>4, HandleFullFact, ProcessFact, BaseDatabase
  <1>6. Final(m) => \A o \in Catalog : attrs'[o] = Last
    BY <1>2, <1>5 DEF Final
  <1> HIDE DEF m
  <1>7. m = Head(net)
    BY DEF m
  <1>8. Consecutive' /\ HeadReady' /\ Ending'
    BY <1>1, <1>6, <1>7, TailExact
  <1>9. QED
    BY <1>3, <1>8

\* The chunk that completes an export is its last one, and every chunk of it
\* that is buffered is of the same export.
LEMMA CompletingFact ==
  ASSUME Base, Prefixed, NEW m \in Messages, Genuine(m), m.topic # 0, Ready(m),
         NEW got, got = [buffer[m.hash] EXCEPT ![m.topic] = m.from]
  PROVE  /\ \A k \in 1..m.topic : got[k] = m.from
         /\ Complete(m.hash, got) <=> m.topic = Total(m.hash)
  <1> DEFINE S == m.hash
  <1>1. S \in Catalogs /\ m.from \in Nat \ {0} /\ m.topic \in 1..Total(S)
    BY GenuineFact DEF Base
  <1>2. Total(S) \in Nat \ {0} /\ 1..Total(S) \subseteq Topics \ {0}
    BY <1>1, TotalFact, TopicsFact
  <1>3. /\ got[m.topic] = m.from
        /\ \A k \in (Topics \ {0}) \ {m.topic} : got[k] = buffer[S][k]
        /\ Filled(got) = Received(S) \cup {m.topic}
        /\ Filled(got) \subseteq 1..Total(S)
        /\ Complete(S, got) <=> Filled(got) = 1..Total(S)
    BY ChunkFact
  <1>4. \A k \in 1..m.topic : got[k] = m.from
    <2> SUFFICES ASSUME NEW k \in 1..m.topic, k # m.topic
                 PROVE  got[k] = m.from
      BY <1>3
    <2>1. k \in 1..(m.topic - 1) /\ k \in 1..Total(S)
      BY <1>1, <1>2
    <2>2. QED
      BY <1>2, <1>3, <2>1 DEF Ready
  <1>5. ASSUME m.topic = Total(S)
        PROVE  Filled(got) = 1..Total(S)
    BY <1>1, <1>2, <1>3, <1>4, <1>5 DEF Filled
  <1>6. ASSUME Filled(got) = 1..Total(S), m.topic # Total(S)
        PROVE  FALSE
    <2>1. Total(S) \in Received(S)
      BY <1>2, <1>3, <1>6
    <2>2. 1..Total(S) \subseteq Received(S)
      BY <1>1, <2>1 DEF Prefixed
    <2>3. QED
      BY <1>1, <2>2 DEF Base, Buffered
  <1>7. QED
    BY <1>3, <1>4, <1>5, <1>6

LEMMA HandleChunkExact ==
  ASSUME Base, Prefixed, Consecutive, HeadReady, Ending, HandleChunk
  PROVE  Prefixed' /\ Consecutive' /\ HeadReady' /\ Ending'
  <1> DEFINE m == Head(net)
             T == Total(m.hash)
  <1>1. /\ net # <<>> /\ net' = Tail(net) /\ m.topic # 0
        /\ UNCHANGED <<exports, sent, cut>>
    BY HandleChunkFact
  <1>2. /\ m \in Messages /\ Genuine(m) /\ m.hash \in Catalogs /\ m.from \in Nat \ {0}
        /\ m.from = Last => m.hash = Catalog
        /\ m.topic \in 1..T /\ Cardinality(m.hash) > ChunkSize
    BY <1>1, HeadFact, GenuineFact, NetFact
  <1>3. PICK got : HandledChunk(m, got)
    BY HandleChunkFact
  <1>4. got = [buffer[m.hash] EXCEPT ![m.topic] = m.from] /\ buffer' = Dropped(m.hash, got)
    BY <1>3 DEF HandledChunk
  <1>5. (\A k \in 1..m.topic : got[k] = m.from) /\ (Complete(m.hash, got) <=> m.topic = T)
    BY <1>1, <1>2, <1>4, CompletingFact DEF HeadReady
  <1>6. /\ buffer'[m.hash] = IF Complete(m.hash, got) THEN NothingReceived ELSE got
        /\ \A S \in Catalogs \ {m.hash} : buffer'[S] = buffer[S]
    BY <1>1, <1>2, <1>4, DroppedFact
  <1>7. Filled(got) = Received(m.hash) \cup {m.topic}
    BY <1>1, <1>2, <1>4, ChunkFact
  <1>8. 1..m.topic \subseteq Filled(got)
    <2>1. 1..T \subseteq Topics \ {0} /\ T \in Nat
      BY <1>2, TopicsFact, TotalFact
    <2>2. 1..m.topic \subseteq 1..T
      BY <1>2, <2>1
    <2>3. QED
      BY <1>2, <1>5, <2>1, <2>2 DEF Filled
  <1>9. Prefixed'
    <2> SUFFICES ASSUME NEW S \in Catalogs, NEW k \in Filled(buffer'[S])
                 PROVE  1..k \subseteq Filled(buffer'[S])
      BY DEF Prefixed, Received
    <2>1. CASE S # m.hash
      BY <1>6, <2>1 DEF Prefixed, Received
    <2>2. CASE S = m.hash /\ Complete(m.hash, got)
      BY <1>6, <2>2 DEF Filled, NothingReceived
    <2>3. CASE S = m.hash /\ ~Complete(m.hash, got)
      <3>1. buffer'[S] = got
        BY <1>6, <2>3
      <3>2. CASE k = m.topic
        BY <1>8, <3>1, <3>2
      <3>3. CASE k \in Received(m.hash)
        BY <1>2, <1>7, <3>1, <3>3 DEF Prefixed
      <3>4. QED
        BY <1>7, <3>1, <3>2, <3>3
    <2>4. QED
      BY <2>1, <2>2, <2>3
  <1>10. \/ m.topic = T
         \/ \A k \in 1..m.topic : buffer'[m.hash][k] = m.from
    BY <1>5, <1>6
  <1>11. ASSUME Final(m)
         PROVE  \A o \in Catalog : attrs'[o] = Last
    <2>1. m.hash = Catalog /\ m.from = Last /\ m.topic = T
      <3>1. m.hash = Catalog /\ m.from = Last
        BY <1>2, <1>11 DEF Final
      <3>2. Cardinality(m.hash) \in Nat /\ ChunkSize \in Nat
        BY <1>2, CatalogFact, SchemaConstants
      <3>3. QED
        BY <1>2, <1>11, <3>1, <3>2 DEF Final, FinalTopic
    <2>2. \A o \in m.hash : got[ChunkOf(m.hash, o)] = m.from
      BY <1>2, <1>5, <2>1, ChunkOfFact
    <2>3. \A o \in m.hash : [p \in Addresses |-> got[ChunkOf(m.hash, p)]][o] = m.from
      BY <1>2, <2>2, CatalogFact
    <2>4. Process(m.hash, m.hash, [p \in Addresses |-> got[ChunkOf(m.hash, p)]])
      BY <1>3, <1>5, <2>1 DEF HandledChunk
    <2>5. \A o \in m.hash : attrs'[o] = m.from
      BY <1>2, <2>3, <2>4, ProcessFact, BaseDatabase
    <2>6. QED
      BY <2>1, <2>5
  <1> HIDE DEF m
  <1>12. m = Head(net)
    BY DEF m
  <1>13. Consecutive' /\ HeadReady' /\ Ending'
    BY <1>1, <1>10, <1>11, <1>12, TailExact
  <1>14. QED
    BY <1>9, <1>13

LEMMA ExactStep == Base /\ Exact /\ [Next]_vars => Exact'
  <1> SUFFICES ASSUME Base, Exact, [Next]_vars
               PROVE  Exact'
    OBVIOUS
  <1>1. ASSUME NEW S \in Catalogs, Export(S)
        PROVE  Exact'
    <2>1. ~cut' => ~cut
      BY <1>1, ExportFact DEF Arrived
    <2> QED
      BY <1>1, <2>1, ExportFact, ExportExact DEF Exact
  <1>2. ASSUME NEW t \in Topics, Repeat(t)
        PROVE  Exact'
    <2>1. repeats \in Nat /\ repeats' = repeats + 1
      BY <1>2, RepeatFact DEF Base, TypeOK
    <2>2. repeats' # 0
      BY <2>1
    <2>3. QED
      BY <2>2 DEF Exact
  <1>3. ASSUME NEW restarted \in BOOLEAN, Reconnect(restarted)
        PROVE  Exact'
    <2>1. replays' # 0
      BY <1>3, ReconnectFact
    <2>2. QED
      BY <2>1 DEF Exact
  <1>4. CASE HandleFull
    BY <1>4, HandleFullFact, HandleFullExact DEF Exact
  <1>5. CASE HandleChunk
    BY <1>5, HandleChunkFact, HandleChunkExact DEF Exact
  <1>6. CASE PassOver \/ HandleFail
    <2>1. faults' # 0
      BY <1>6, PassOverFact, HandleFailFact
    <2>2. QED
      BY <2>1 DEF Exact
  <1>7. CASE UNCHANGED vars
    BY <1>7 DEF vars, database, Exact, Prefixed, Received, Consecutive, HeadReady, Ready, Ending,
                Final, Last, Catalog
  <1>8. QED
    BY <1>1, <1>2, <1>3, <1>4, <1>5, <1>6, <1>7 DEF Next

\* The objects have the attributes of that export, or, after a chunk that was
\* transmitted twice or an export without its first chunks, the chunk with them
\* is in the buffer; without either, chunks of an earlier export of the same
\* addresses never get into it (handle_chunk_meta keys its buffer by a hash of
\* the addresses only; do_pub drops the oldest messages).
THEOREM AttributesInForceHolds == Spec => []AttributesInForce
  <1>1. Init => Exact
    <2> SUFFICES ASSUME Init
                 PROVE  Prefixed /\ Consecutive /\ HeadReady /\ Ending
      BY DEF Exact
    <2>1. net = <<>> /\ Last = 0
      BY DEF Init, Last
    <2>2. \A S \in Catalogs : Received(S) = {}
      BY CatalogFact DEF Init, Received, Filled, NothingReceived
    <2>3. QED
      BY <2>1, <2>2 DEF Prefixed, Consecutive, HeadReady, Ending
  <1>2. Base /\ Exact /\ [Next]_vars => Exact'
    BY ExactStep
  <1>3. Init => Steady
    BY DEF Init, Steady, Ordered, InForce, Last
  <1>4. Base /\ Steady /\ [Next]_vars => Steady'
    BY SteadyStep
  <1>5. Base /\ Exact /\ Steady => AttributesInForce
    <2> SUFFICES ASSUME Base, Exact, Steady, Idle, replays = 0, faults = 0, NEW o \in Catalog
                 PROVE  attrs[o] = Last \/ ((repeats > 0 \/ cut) /\ InBuffer(o))
      BY DEF AttributesInForce
    <2>1. net = <<>> /\ sent /\ Last > 0 /\ InForce /\ repeats \in Nat
      BY DEF Idle, Steady, Base, TypeOK
    <2>2. CASE repeats = 0 /\ ~cut
      BY <2>1, <2>2 DEF Exact, Ending
    <2>3. CASE repeats > 0 \/ cut
      <3>1. \A t : ~Waiting(t)
        BY <2>1 DEF Waiting
      <3>2. ~AllWaiting
        BY <2>1, <3>1, TopicFact DEF AllWaiting
      <3>3. Settled(o)
        BY <2>1, <3>2 DEF InForce, AllSettled
      <3> QED
        BY <2>3, <3>1, <3>3 DEF Settled, Kept, InBuffer
    <2> QED
      BY <2>1, <2>2, <2>3
  <1>6. QED
    BY <1>1, <1>2, <1>3, <1>4, <1>5, BaseInvariant, PTL DEF Spec
=============================================================================
