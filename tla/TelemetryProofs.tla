--------------------------- MODULE TelemetryProofs ---------------------------
(***************************************************************************)
(* Proofs about Telemetry for any finite set of addresses, any values,     *)
(* batch and buffer sizes and numbers of inputs and faults: type           *)
(* correctness, and, while nothing is lost, that events arrive in order    *)
(* and without gaps and that the register agrees with a quiet bus.         *)
(***************************************************************************)
EXTENDS Telemetry, FiniteSetTheorems, SequenceTheorems, WellFoundedInduction, TLAPS

-----------------------------------------------------------------------------
(* Numbers and sequences.                                                  *)

LEMMA MaxFact ==
  ASSUME NEW T, T \subseteq Nat, T # {}, NEW b \in Nat, \A x \in T : x <= b
  PROVE  \E x \in T : \A y \in T : y <= x
  <1> DEFINE D == {b - x : x \in T}
  <1>1. D \subseteq Nat /\ D # {}
    <2>1. \A x \in T : b - x \in Nat
      OBVIOUS
    <2>2. QED
      BY <2>1
  <1>2. PICK d \in D : \A e \in D : ~(<<e, d>> \in OpToRel(<, Nat))
    BY <1>1, NatLessThanWellFounded, WFMin
  <1>3. \A e \in D : ~(e < d)
    BY <1>1, <1>2 DEF OpToRel
  <1>4. PICK x \in T : d = b - x
    OBVIOUS
  <1>5. ASSUME NEW y \in T
        PROVE  y <= x
    <2>1. b - y \in D
      OBVIOUS
    <2>2. ~(b - y < b - x)
      BY <1>3, <1>4, <2>1
    <2>3. QED
      BY <2>2
  <1>6. QED
    BY <1>5

LEMMA JoinFact ==
  ASSUME NEW S, NEW p \in Seq(S), NEW q \in Seq(S), NEW r, r = p \o q
  PROVE  /\ r \in Seq(S) /\ Len(p) \in Nat /\ Len(q) \in Nat /\ Len(r) = Len(p) + Len(q)
         /\ \A i \in 1..Len(p) : i \in 1..Len(r) /\ r[i] = p[i]
         /\ \A i \in 1..Len(q) : Len(p) + i \in 1..Len(r) /\ r[Len(p) + i] = q[i]
         /\ \A i \in 1..Len(r) : \/ i \in 1..Len(p) /\ r[i] = p[i]
                                 \/ /\ i > Len(p) /\ i - Len(p) \in 1..Len(q)
                                    /\ r[i] = q[i - Len(p)]
  <1>1. /\ r \in Seq(S) /\ Len(p) \in Nat /\ Len(q) \in Nat /\ Len(r) = Len(p) + Len(q)
        /\ \A i \in 1..(Len(p) + Len(q)) : r[i] = IF i <= Len(p) THEN p[i] ELSE q[i - Len(p)]
    BY ConcatProperties
  <1>2. \A i \in 1..Len(p) : i \in 1..Len(r) /\ r[i] = p[i]
    BY <1>1
  <1>3. ASSUME NEW i \in 1..Len(q)
        PROVE  Len(p) + i \in 1..Len(r) /\ r[Len(p) + i] = q[i]
    <2>1. /\ Len(p) + i \in 1..(Len(p) + Len(q)) /\ ~(Len(p) + i <= Len(p))
          /\ (Len(p) + i) - Len(p) = i
      BY <1>1
    <2>2. QED
      BY <1>1, <2>1
  <1>4. ASSUME NEW i \in 1..Len(r), ~(i <= Len(p))
        PROVE  i > Len(p) /\ i - Len(p) \in 1..Len(q) /\ r[i] = q[i - Len(p)]
    BY <1>1, <1>4
  <1>5. \A i \in 1..Len(r) : i <= Len(p) => i \in 1..Len(p) /\ r[i] = p[i]
    BY <1>1, <1>2
  <1>6. QED
    BY <1>1, <1>2, <1>3, <1>4, <1>5

LEMMA AppendFact ==
  ASSUME NEW S, NEW s \in Seq(S), NEW x \in S, NEW u, u = Append(s, x)
  PROVE  /\ u \in Seq(S) /\ Len(s) \in Nat /\ Len(u) = Len(s) + 1
         /\ Len(u) \in 1..Len(u) /\ u[Len(u)] = x
         /\ \A i \in 1..Len(s) : i \in 1..Len(u) /\ i < Len(u) /\ u[i] = s[i]
         /\ \A i \in 1..Len(u) : i \in 1..Len(s) \/ i = Len(u)
  <1>1. /\ u \in Seq(S) /\ Len(s) \in Nat /\ Len(u) = Len(s) + 1
        /\ \A i \in 1..Len(s) : u[i] = s[i]
        /\ u[Len(s) + 1] = x
    BY AppendProperties
  <1>2. /\ Len(u) \in 1..Len(u)
        /\ \A i \in 1..Len(s) : i \in 1..Len(u) /\ i < Len(u)
        /\ \A i \in 1..Len(u) : i \in 1..Len(s) \/ i = Len(u)
    BY <1>1
  <1>3. QED
    BY <1>1, <1>2

LEMMA TailFact ==
  ASSUME NEW S, NEW p \in Seq(S), p # <<>>
  PROVE  /\ Len(p) \in Nat /\ 1 \in 1..Len(p) /\ Head(p) = p[1] /\ Head(p) \in S
         /\ Tail(p) \in Seq(S) /\ Len(Tail(p)) = Len(p) - 1
         /\ \A i \in 1..Len(Tail(p)) : i + 1 \in 1..Len(p) /\ Tail(p)[i] = p[i + 1]
         /\ \A i \in 1..Len(p) : i > 1 => i - 1 \in 1..Len(Tail(p)) /\ Tail(p)[i - 1] = p[i]
  <1>1. /\ Len(p) \in Nat \ {0} /\ Head(p) = p[1] /\ Head(p) \in S
        /\ Tail(p) \in Seq(S) /\ Len(Tail(p)) = Len(p) - 1
        /\ \A i \in 1..Len(Tail(p)) : Tail(p)[i] = p[i + 1]
    BY EmptySeq, HeadTailProperties
  <1>2. 1 \in 1..Len(p) /\ \A i \in 1..Len(Tail(p)) : i + 1 \in 1..Len(p)
    BY <1>1
  <1>3. ASSUME NEW i \in 1..Len(p), i > 1
        PROVE  i - 1 \in 1..Len(Tail(p)) /\ Tail(p)[i - 1] = p[i]
    <2>1. i - 1 \in 1..Len(Tail(p)) /\ (i - 1) + 1 = i
      BY <1>1, <1>3
    <2>2. QED
      BY <1>1, <2>1
  <1>4. QED
    BY <1>1, <1>2, <1>3

LEMMA PrefixFact ==
  ASSUME NEW S, NEW p \in Seq(S), NEW n \in 0..Len(p)
  PROVE  SubSeq(p, 1, n) \in Seq(S) /\ (n = Len(p) => SubSeq(p, 1, n) = p)
  <1>1. Len(p) \in Nat /\ n \in Nat /\ n <= Len(p)
    OBVIOUS
  <1>2. \A i \in 1..n : p[i] \in S
    BY <1>1, ElementOfSeq
  <1>3. /\ SubSeq(p, 1, n) \in Seq(S)
        /\ Len(SubSeq(p, 1, n)) = IF 1 <= n THEN n - 1 + 1 ELSE 0
        /\ \A i \in 1..(n - 1 + 1) : SubSeq(p, 1, n)[i] = p[1 + i - 1]
    BY <1>1, <1>2, SubSeqProperties
  <1>4. Len(SubSeq(p, 1, n)) = n /\ \A i \in 1..n : SubSeq(p, 1, n)[i] = p[i]
    BY <1>1, <1>3
  <1>5. n = Len(p) => SubSeq(p, 1, n) = p
    BY <1>1, <1>3, <1>4, SeqEqual
  <1>6. QED
    BY <1>3, <1>5

-----------------------------------------------------------------------------
(* What is published.                                                      *)

\* SetToSeq puts every element of a set of addresses in a sequence.
LEMMA OrderFact ==
  ASSUME NEW S, S \subseteq Objects
  PROVE  /\ SetToSeq(S) \in Seq(S)
         /\ \A g \in S : \E k \in 1..Len(SetToSeq(S)) : SetToSeq(S)[k] = g
  <1> DEFINE n == Cardinality(S)
  <1>1. IsFiniteSet(S) /\ n \in Nat /\ ExistsBijection(1..n, S)
    BY TelemetryConstants, FS_Subset, FS_CardinalityType
  <1>2. \E f \in [1..n -> S] : IsInjective(f)
    BY <1>1 DEF ExistsBijection, Bijection, Injection
  <1>3. SetToSeq(S) \in [1..n -> S] /\ IsInjective(SetToSeq(S))
    BY <1>2 DEF SetToSeq
  <1>4. SetToSeq(S) \in Injection(1..n, S)
    BY <1>3 DEF Injection
  <1>5. Cardinality(1..n) = n
    BY <1>1, FS_Interval
  <1>6. SetToSeq(S) \in Surjection(1..n, S)
    BY <1>1, <1>4, <1>5, FS_Injection
  <1>7. SetToSeq(S) \in Seq(S) /\ Len(SetToSeq(S)) = n
    BY <1>1, <1>3
  <1>8. QED
    BY <1>6, <1>7 DEF Surjection

LEMMA LastFact ==
  ASSUME NEW s \in Seq(Items), NEW g, \E k \in 1..Len(s) : s[k].ga = g
  PROVE  \E k \in 1..Len(s) : /\ LastOf(s, g) = s[k] /\ s[k].ga = g
                              /\ \A j \in 1..Len(s) : j > k => s[j].ga # g
  <1> DEFINE T == {k \in 1..Len(s) : s[k].ga = g}
  <1>1. T \subseteq Nat /\ T # {} /\ Len(s) \in Nat /\ \A x \in T : x <= Len(s)
    OBVIOUS
  <1>2. PICK k \in T : \A y \in T : y <= k
    BY <1>1, MaxFact
  <1>3. k \in DOMAIN s /\ s[k].ga = g /\ \A j \in DOMAIN s : j > k => s[j].ga # g
    BY <1>1, <1>2
  <1> DEFINE last == CHOOSE i \in DOMAIN s :
                       s[i].ga = g /\ \A j \in DOMAIN s : j > i => s[j].ga # g
  <1>4. last \in DOMAIN s /\ s[last].ga = g /\ \A j \in DOMAIN s : j > last => s[j].ga # g
    BY <1>3
  <1>5. LastOf(s, g) = s[last]
    BY DEF LastOf
  <1> HIDE DEF last
  <1>6. DOMAIN s = 1..Len(s)
    OBVIOUS
  <1>7. QED
    BY <1>4, <1>5, <1>6

LEMMA LastStatesFact ==
  ASSUME NEW s \in Seq(Items)
  PROVE  /\ LastStates(s) \in Seq(Items)
         /\ \A n \in 1..Len(LastStates(s)) : \E k \in 1..Len(s) :
              LastStates(s)[n] = s[k] /\ \A j \in 1..Len(s) : j > k => s[j].ga # s[k].ga
  <1> DEFINE keys == {s[k].ga : k \in DOMAIN s}
             order == SetToSeq(keys)
  <1>1. \A k \in 1..Len(s) : s[k] \in Items
    BY ElementOfSeq
  <1>2. keys \in SUBSET Objects /\ \A g \in keys : \E k \in 1..Len(s) : s[k].ga = g
    <2>1. DOMAIN s = 1..Len(s)
      OBVIOUS
    <2>2. \A k \in 1..Len(s) : s[k].ga \in Objects
      BY <1>1 DEF Items
    <2>3. QED
      BY <2>1, <2>2
  <1>3. order \in Seq(keys)
    BY <1>2, OrderFact
  <1>4. Pairs[keys] = order
    BY <1>2 DEF Pairs
  <1> HIDE DEF keys, order
  <1>5. LastStates(s) = [k \in DOMAIN order |-> LastOf(s, order[k])]
    BY <1>4 DEF LastStates, keys
  <1>6. Len(order) \in Nat /\ DOMAIN order = 1..Len(order)
    BY <1>3
  <1>7. \A n \in 1..Len(order) : order[n] \in keys
    BY <1>3, ElementOfSeq
  <1>8. ASSUME NEW n \in 1..Len(order)
        PROVE  \E k \in 1..Len(s) : /\ LastOf(s, order[n]) = s[k]
                                    /\ \A j \in 1..Len(s) : j > k => s[j].ga # s[k].ga
    <2>1. \E k \in 1..Len(s) : s[k].ga = order[n]
      BY <1>2, <1>7
    <2>2. PICK k \in 1..Len(s) : /\ LastOf(s, order[n]) = s[k] /\ s[k].ga = order[n]
                                /\ \A j \in 1..Len(s) : j > k => s[j].ga # order[n]
      BY <2>1, LastFact
    <2>3. QED
      BY <2>2
  <1>9. \A n \in 1..Len(order) : LastOf(s, order[n]) \in Items
    BY <1>1, <1>8
  <1>10. LastStates(s) \in Seq(Items) /\ Len(LastStates(s)) = Len(order)
    BY <1>5, <1>6, <1>9
  <1>11. QED
    BY <1>5, <1>6, <1>8, <1>10

\* i is the last item of its address in s.
FinalIn(i, s) == \E k \in 1..Len(s) : i = s[k] /\ \A j \in 1..Len(s) : j > k => s[j].ga # s[k].ga

\* The messages of a batch: its events, then states of addresses that no later
\* item of it is of (flush_batch).
LEMMA BatchFact ==
  ASSUME NEW s \in Seq(Items), NEW q, q = BatchMessages(s)
  PROVE  /\ q \in Seq(Messages) /\ 1 \in 1..Len(q)
         /\ q[1].kind = "events" /\ q[1].items = s
         /\ \A n \in 1..Len(q) : n # 1 =>
              /\ q[n].kind # "events"
              /\ \A i \in 1..Len(q[n].items) : FinalIn(q[n].items[i], s)
  <1> DEFINE states == LastStates(s)
             head == <<[kind |-> "events", items |-> s], [kind |-> "states", items |-> states]>>
             tail == [k \in DOMAIN states |-> State(states[k])]
  <1>1. /\ states \in Seq(Items)
        /\ \A n \in 1..Len(states) : FinalIn(states[n], s)
    BY LastStatesFact DEF FinalIn
  <1>2. q = head \o tail
    BY DEF BatchMessages
  <1> HIDE DEF states
  <1>3. Len(states) \in Nat /\ DOMAIN states = 1..Len(states)
    BY <1>1
  <1>4. \A k \in 1..Len(states) : State(states[k]) \in Messages
    <2>1. \A k \in 1..Len(states) : states[k] \in Items
      BY <1>1, ElementOfSeq
    <2>2. \A x \in Items : <<x>> \in Seq(Items)
      OBVIOUS
    <2>3. QED
      BY <2>1, <2>2 DEF State, Messages, Kinds
  <1>5. /\ tail \in Seq(Messages) /\ Len(tail) = Len(states)
        /\ \A k \in 1..Len(states) : tail[k] = State(states[k])
    BY <1>3, <1>4
  <1>6. head \in Seq(Messages) /\ Len(head) = 2 /\ head[1].kind = "events" /\ head[1].items = s
        /\ head[2].kind = "states" /\ head[2].items = states
    BY <1>1 DEF Messages, Kinds
  <1> HIDE DEF head, tail
  <1>7. /\ q \in Seq(Messages) /\ Len(q) = 2 + Len(states)
        /\ \A i \in 1..2 : q[i] = head[i]
        /\ \A i \in 1..Len(q) : \/ i \in 1..2 /\ q[i] = head[i]
                                \/ i > 2 /\ i - 2 \in 1..Len(tail) /\ q[i] = tail[i - 2]
    <2>1. /\ q \in Seq(Messages) /\ Len(q) = Len(head) + Len(tail)
          /\ \A i \in 1..Len(head) : q[i] = head[i]
          /\ \A i \in 1..Len(q) : \/ i \in 1..Len(head) /\ q[i] = head[i]
                                  \/ /\ i > Len(head) /\ i - Len(head) \in 1..Len(tail)
                                     /\ q[i] = tail[i - Len(head)]
      <3>1. head \in Seq(Messages) /\ tail \in Seq(Messages)
        BY <1>5, <1>6
      <3>2. QED
        BY <1>2, <3>1, JoinFact
    <2>2. QED
      BY <1>5, <1>6, <2>1
  <1>8. 1 \in 1..Len(q) /\ 1 \in 1..2
    BY <1>3, <1>7
  <1>9. ASSUME NEW n \in 1..Len(q), n # 1
        PROVE  /\ q[n].kind # "events"
               /\ \A i \in 1..Len(q[n].items) : \E k \in 1..Len(states) : q[n].items[i] = states[k]
    <2>1. CASE n \in 1..2 /\ q[n] = head[n]
      <3>1. n = 2
        BY <1>9, <2>1
      <3>2. QED
        BY <1>6, <2>1, <3>1
    <2>2. CASE n > 2 /\ n - 2 \in 1..Len(tail) /\ q[n] = tail[n - 2]
      <3>1. q[n] = State(states[n - 2]) /\ n - 2 \in 1..Len(states)
        BY <1>5, <2>2
      <3>2. q[n].kind = "state" /\ q[n].items = <<states[n - 2]>>
        BY <3>1 DEF State
      <3>3. Len(q[n].items) = 1 /\ q[n].items[1] = states[n - 2]
        BY <3>2
      <3>4. QED
        BY <3>1, <3>2, <3>3
    <2>3. QED
      BY <1>7, <2>1, <2>2
  <1>10. QED
    BY <1>1, <1>6, <1>7, <1>8, <1>9

\* The messages of an export: the value of every object (publish_meta).
LEMMA ExportFact ==
  ASSUME bus \in [Objects -> Values], now \in Nat, NEW q, q = ObjectStates
  PROVE  /\ q \in Seq(Messages)
         /\ \A n \in 1..Len(q) : /\ q[n].kind # "events" /\ Len(q[n].items) = 1
                                 /\ q[n].items[1].value = bus[q[n].items[1].ga]
                                 /\ q[n].items[1].ts = now
         /\ \A g \in Objects : \E n \in 1..Len(q) : q[n].items[1].ga = g
  <1>1. /\ Sorted \in Seq(Objects)
        /\ \A g \in Objects : \E k \in 1..Len(Sorted) : Sorted[k] = g
    BY OrderFact DEF Sorted
  <1>2. Len(Sorted) \in Nat /\ DOMAIN Sorted = 1..Len(Sorted)
        /\ \A k \in 1..Len(Sorted) : Sorted[k] \in Objects
    BY <1>1, ElementOfSeq
  <1> DEFINE item(k) == [ga |-> Sorted[k], ts |-> now, value |-> bus[Sorted[k]], seq |-> 0]
  <1>3. \A k \in 1..Len(Sorted) : item(k) \in Items
    BY <1>2 DEF Items
  <1>4. \A x \in Items : State(x) \in Messages /\ State(x).kind # "events"
                         /\ Len(State(x).items) = 1 /\ State(x).items[1] = x
    <2>1. \A x \in Items : <<x>> \in Seq(Items)
      OBVIOUS
    <2>2. QED
      BY <2>1 DEF State, Messages, Kinds
  <1>5. q = [k \in 1..Len(Sorted) |-> State(item(k))]
    BY <1>2 DEF ObjectStates
  <1>6. \A k \in 1..Len(Sorted) : item(k).ga = Sorted[k] /\ item(k).ts = now
                                  /\ item(k).value = bus[Sorted[k]]
    OBVIOUS
  <1> HIDE DEF item
  <1>7. q \in Seq(Messages) /\ Len(q) = Len(Sorted)
    BY <1>2, <1>3, <1>4, <1>5
  <1>8. \A k \in 1..Len(Sorted) : q[k].kind # "events" /\ Len(q[k].items) = 1 /\ q[k].items[1] = item(k)
    BY <1>3, <1>4, <1>5
  <1>9. \A k \in 1..Len(q) : /\ q[k].items[1].value = bus[q[k].items[1].ga]
                            /\ q[k].items[1].ts = now
    BY <1>6, <1>7, <1>8
  <1>10. \A g \in Objects : \E n \in 1..Len(q) : q[n].items[1].ga = g
    BY <1>1, <1>6, <1>7, <1>8
  <1>11. QED
    BY <1>7, <1>8, <1>9, <1>10

\* The broker keeps the last state of each address.
LEMMA RetainedFact ==
  ASSUME retained \in [Objects -> Messages], NEW q \in Seq(Messages)
  PROVE  RetainedAfter(q) \in [Objects -> Messages]
  <1> DEFINE Is(k, g) == q[k].kind = "state" /\ q[k].items[1].ga = g
             Final(k, g) == /\ q[k].kind = "state" /\ q[k].items[1].ga = g
                            /\ \A j \in DOMAIN q : j > k => \/ q[j].kind # "state"
                                                           \/ q[j].items[1].ga # g
  <1>1. DOMAIN q = 1..Len(q) /\ Len(q) \in Nat /\ \A k \in 1..Len(q) : q[k] \in Messages
    BY ElementOfSeq
  <1>2. ASSUME NEW g \in Objects, \E k \in DOMAIN q : Is(k, g)
        PROVE  q[CHOOSE k \in DOMAIN q : Final(k, g)] \in Messages
    <2> DEFINE T == {k \in 1..Len(q) : Is(k, g)}
    <2> HIDE DEF Is
    <2>1. T \subseteq Nat /\ T # {} /\ \A x \in T : x <= Len(q)
      BY <1>1, <1>2
    <2>2. PICK k \in T : \A y \in T : y <= k
      BY <1>1, <2>1, MaxFact
    <2>3. \A j \in 1..Len(q) : j > k => ~Is(j, g)
      BY <1>1, <2>2
    <2>4. k \in DOMAIN q /\ Final(k, g)
      BY <1>1, <2>2, <2>3 DEF Is
    <2> HIDE DEF Final
    <2>5. (CHOOSE i \in DOMAIN q : Final(i, g)) \in DOMAIN q
      BY <2>4
    <2>6. QED
      BY <1>1, <2>5
  <1>3. RetainedAfter(q) = [g \in Objects |->
           IF \E k \in DOMAIN q : Is(k, g) THEN q[CHOOSE k \in DOMAIN q : Final(k, g)]
           ELSE retained[g]]
    BY DEF RetainedAfter
  <1> HIDE DEF Is, Final
  <1>4. QED
    BY <1>2, <1>3

-----------------------------------------------------------------------------
(* Types.  What the daemon has published or buffered and the server has not *)
(* handled is one sequence, the pipe: a daemon that is connected buffers    *)
(* nothing, so what it publishes goes to the end of it either way.          *)

Pipe == net \o buffer

Base == TypeOK /\ (connected => buffer = <<>>)

\* Messages are published: in the network, or in the buffer.
LEMMA PublishFact ==
  ASSUME Base, NEW q \in Seq(Messages), Publish(q)
  PROVE  /\ net' \in Seq(Messages) /\ buffer' \in Seq(Messages) /\ Len(buffer') <= BufferSize
         /\ retained' \in [Objects -> Messages] /\ link' \in {"up", "down"}
         /\ lost' \in BOOLEAN /\ faults' \in Nat
         /\ (connected => buffer' = <<>>)
         /\ ~lost' => ~lost /\ Pipe' = Pipe \o q
  <1>0. TypeOK /\ (connected => buffer = <<>>)
    BY DEF Base
  <1>1. /\ net \in Seq(Messages) /\ buffer \in Seq(Messages) /\ Len(buffer) <= BufferSize
        /\ retained \in [Objects -> Messages] /\ link \in {"up", "down"}
        /\ faults \in Nat
    BY <1>0 DEF TypeOK
  <1>2. lost \in BOOLEAN
    BY <1>0 DEF TypeOK
  <1>3. Len(q) \in Nat /\ BufferSize \in Nat
    BY TelemetryConstants
  <1>4. CASE ~connected
    <2>1. /\ buffer' = Kept(buffer \o q)
          /\ lost' = (lost \/ Len(buffer) + Len(q) > BufferSize)
          /\ net' = net /\ retained' = retained /\ link' = link /\ faults' = faults
      BY <1>4 DEF Publish, broker
    <2> DEFINE r == buffer \o q
    <2>2. r \in Seq(Messages) /\ Len(r) = Len(buffer) + Len(q) /\ Len(r) \in Nat
      BY <1>1, ConcatProperties
    <2> HIDE DEF r
    <2>3. CASE Len(r) > BufferSize
      <3>1. buffer' = SubSeq(r, Len(r) - BufferSize + 1, Len(r))
        BY <2>1, <2>3 DEF Kept, r
      <3> DEFINE a == Len(r) - BufferSize + 1
      <3>2. a \in Int /\ \A i \in a..Len(r) : r[i] \in Messages
        <4>1. a \in Nat /\ a >= 1
          BY <1>3, <2>2, <2>3
        <4>2. \A i \in a..Len(r) : i \in 1..Len(r)
          BY <2>2, <4>1
        <4>3. QED
          BY <2>2, <4>1, <4>2, ElementOfSeq
      <3>3. /\ SubSeq(r, a, Len(r)) \in Seq(Messages)
            /\ Len(SubSeq(r, a, Len(r))) = IF a <= Len(r) THEN Len(r) - a + 1 ELSE 0
        BY <2>2, <3>2, SubSeqProperties
      <3>4. Len(buffer') <= BufferSize
        BY <1>3, <2>2, <2>3, <3>1, <3>3
      <3>5. lost'
        BY <2>1, <2>2, <2>3
      <3>6. QED
        BY <1>1, <1>4, <2>1, <3>1, <3>3, <3>4, <3>5
    <2>4. CASE ~(Len(r) > BufferSize)
      <3>1. buffer' = r /\ Len(r) <= BufferSize
        BY <1>3, <2>1, <2>2, <2>4 DEF Kept, r
      <3>2. lost' = lost
        <4>1. ~(Len(buffer) + Len(q) > BufferSize)
          BY <2>2, <2>4
        <4>2. QED
          BY <1>2, <2>1, <4>1
      <3>3. Pipe' = Pipe \o q
        <4>1. Pipe' = net \o (buffer \o q)
          BY <2>1, <3>1 DEF Pipe, r
        <4>2. (net \o buffer) \o q = net \o (buffer \o q)
          BY <1>1, ConcatAssociative
        <4>3. QED
          BY <4>1, <4>2 DEF Pipe
      <3>4. QED
        BY <1>1, <1>2, <1>4, <2>1, <2>2, <3>1, <3>2, <3>3
    <2>5. QED
      BY <2>3, <2>4
  <1>5. CASE connected
    <2>1. buffer' = buffer /\ buffer = <<>>
      BY <1>0, <1>5 DEF Publish
    <2>2. CASE link = "up"
      <3>1. PICK n \in 0..Len(q) : Reach(q, n)
        BY <1>5, <2>2 DEF Publish
      <3>2. SubSeq(q, 1, n) \in Seq(Messages) /\ (n = Len(q) => SubSeq(q, 1, n) = q)
        BY PrefixFact
      <3>3. net' \in Seq(Messages)
        BY <1>1, <3>1, <3>2, ConcatProperties DEF Reach
      <3>4. retained' \in [Objects -> Messages]
        BY <1>1, <3>1, <3>2, RetainedFact DEF Reach
      <3>5. CASE n = Len(q)
        <4>1. link' = link /\ lost' = lost /\ faults' = faults
          BY <3>1, <3>5 DEF Reach
        <4>2. net' = net \o q
          BY <3>1, <3>2, <3>5 DEF Reach
        <4>3. Pipe' = net' /\ Pipe = net
          BY <1>1, <2>1, <3>3, ConcatEmptySeq DEF Pipe
        <4>4. QED
          BY <1>1, <1>2, <2>1, <3>3, <3>4, <4>1, <4>2, <4>3
      <3>6. CASE n # Len(q)
        <4>1. link' = "down" /\ lost' = TRUE /\ faults' = faults + 1
          BY <3>1, <3>6 DEF Reach
        <4>2. faults' \in Nat
          BY <1>1, <4>1
        <4>3. QED
          BY <1>1, <2>1, <3>3, <3>4, <4>1, <4>2
      <3>7. QED
        BY <3>5, <3>6
    <2>3. CASE link # "up"
      <3>1. lost' = TRUE /\ net' = net /\ retained' = retained /\ link' = link /\ faults' = faults
        BY <1>5, <2>3 DEF Publish, broker
      <3>2. QED
        BY <1>1, <2>1, <3>1
    <2>4. QED
      BY <2>2, <2>3
  <1>6. QED
    BY <1>4, <1>5

-----------------------------------------------------------------------------
(* The server's register.                                                  *)

Entries == [ts : Nat, value : Values \cup {"none"}]

LEMMA WinsFact ==
  ASSUME NEW r \in [Objects -> Entries], NEW s \in Seq(Items), NEW g \in Objects
  PROVE  \/ \E k \in 1..Len(s) : /\ Register!Wins(r, s, g, k)
                                 /\ Register!After(r, s)[g] = [ts |-> s[k].ts, value |-> s[k].value]
         \/ /\ Register!After(r, s)[g] = r[g]
            /\ ~\E k \in 1..Len(s) : Register!Wins(r, s, g, k)
  <1> DEFINE won == CHOOSE k \in DOMAIN s : Register!Wins(r, s, g, k)
  <1>1. DOMAIN s = 1..Len(s)
    OBVIOUS
  <1>2. Register!After(r, s)[g] =
          IF \E k \in DOMAIN s : Register!Wins(r, s, g, k)
            THEN [ts |-> s[won].ts, value |-> s[won].value] ELSE r[g]
    BY DEF Register!After
  <1>3. ASSUME \E k \in DOMAIN s : Register!Wins(r, s, g, k)
        PROVE  won \in DOMAIN s /\ Register!Wins(r, s, g, won)
    BY <1>3
  <1> HIDE DEF won
  <1>4. QED
    BY <1>1, <1>2, <1>3

LEMMA AfterType ==
  ASSUME NEW r \in [Objects -> Entries], NEW s \in Seq(Items)
  PROVE  Register!After(r, s) \in [Objects -> Entries]
  <1>1. \A k \in 1..Len(s) : s[k] \in Items
    BY ElementOfSeq
  <1>2. ASSUME NEW g \in Objects
        PROVE  Register!After(r, s)[g] \in Entries
    <2>1. CASE \E k \in 1..Len(s) :
                 Register!After(r, s)[g] = [ts |-> s[k].ts, value |-> s[k].value]
      BY <1>1, <2>1 DEF Entries, Items
    <2>2. CASE Register!After(r, s)[g] = r[g]
      BY <2>2
    <2>3. QED
      BY <2>1, <2>2, WinsFact
  <1>3. Register!After(r, s) = [g \in Objects |-> Register!After(r, s)[g]]
    BY DEF Register!After
  <1>4. QED
    BY <1>2, <1>3

\* Every item of a message has a value, so the winner of an address is its
\* newest item, and the last of those that share the newest time stamp.
LEMMA WinsMeaning ==
  ASSUME NEW r, NEW s \in Seq(Items), NEW g, NEW k \in 1..Len(s)
  PROVE  Register!Wins(r, s, g, k) <=>
           /\ s[k].ga = g
           /\ r[g].value # "none" => s[k].ts >= r[g].ts
           /\ \A j \in 1..Len(s) : j # k /\ s[j].ga = g =>
                s[j].ts < s[k].ts \/ (s[j].ts = s[k].ts /\ j < k)
  <1>1. DOMAIN s = 1..Len(s)
    OBVIOUS
  <1>2. \A j \in 1..Len(s) : s[j].value # "none"
    <2>1. \A j \in 1..Len(s) : s[j] \in Items
      BY ElementOfSeq
    <2>2. QED
      BY <2>1, TelemetryConstants DEF Items
  <1>3. Register!Saying(s, g) = {j \in 1..Len(s) : s[j].ga = g}
    BY <1>1, <1>2 DEF Register!Saying
  <1>4. QED
    BY <1>3 DEF Register!Wins

\* Of the items of an address that are not older than what the register holds,
\* one wins.
LEMMA AfterFact ==
  ASSUME NEW r \in [Objects -> Entries], NEW s \in Seq(Items), NEW g \in Objects,
         NEW b \in Nat, \A k \in 1..Len(s) : s[k].ts <= b
  PROVE  \/ \E k \in 1..Len(s) : /\ Register!Wins(r, s, g, k)
                                 /\ Register!After(r, s)[g] = [ts |-> s[k].ts, value |-> s[k].value]
         \/ /\ Register!After(r, s)[g] = r[g]
            /\ \A k \in 1..Len(s) : s[k].ga = g => r[g].value # "none" /\ s[k].ts < r[g].ts
  <1> DEFINE E == {k \in 1..Len(s) : s[k].ga = g /\ (r[g].value # "none" => s[k].ts >= r[g].ts)}
             T == {s[k].ts : k \in E}
  <1>1. /\ DOMAIN s = 1..Len(s) /\ Len(s) \in Nat
        /\ \A k \in 1..Len(s) : s[k] \in Items /\ s[k].ts \in Nat
        /\ r[g].ts \in Nat
    <2>1. \A k \in 1..Len(s) : s[k] \in Items
      BY ElementOfSeq
    <2>2. QED
      BY <2>1 DEF Items, Entries
  <1>2. CASE E = {}
    <2>1. \A k \in 1..Len(s) : s[k].ga = g => r[g].value # "none" /\ s[k].ts < r[g].ts
      BY <1>1, <1>2
    <2>2. ~\E k \in 1..Len(s) : Register!Wins(r, s, g, k)
      BY <1>2, WinsMeaning
    <2>3. QED
      BY <2>1, <2>2, WinsFact
  <1>3. CASE E # {}
    <2>1. T \subseteq Nat /\ T # {} /\ \A x \in T : x <= b
      BY <1>1, <1>3
    <2>2. PICK t \in T : \A x \in T : x <= t
      BY <2>1, MaxFact
    <2> DEFINE K == {k \in E : s[k].ts = t}
    <2>3. K \subseteq Nat /\ K # {} /\ \A x \in K : x <= Len(s)
      <3>1. \E k \in E : s[k].ts = t
        OBVIOUS
      <3>2. \A k \in E : k \in Nat /\ k <= Len(s)
        BY <1>1
      <3> HIDE DEF E
      <3>3. QED
        BY <3>1, <3>2
    <2>4. PICK k \in K : \A x \in K : x <= k
      BY <1>1, <2>3, MaxFact
    <2>5. k \in E /\ s[k].ts = t /\ k \in 1..Len(s) /\ t \in Nat
      BY <2>1
    <2>6. ASSUME NEW j \in 1..Len(s), j # k, s[j].ga = g
          PROVE  s[j].ts < s[k].ts \/ (s[j].ts = s[k].ts /\ j < k)
      <3>1. CASE j \in E
        <4>1. s[j].ts <= t
          BY <2>2, <3>1
        <4>2. s[j].ts = t => j <= k
          BY <2>4, <3>1
        <4>3. QED
          BY <1>1, <2>5, <2>6, <4>1, <4>2
      <3>2. CASE j \notin E
        <4>1. r[g].value # "none" /\ ~(s[j].ts >= r[g].ts)
          BY <2>6, <3>2
        <4>2. s[k].ts >= r[g].ts
          BY <2>5, <4>1
        <4>3. QED
          BY <1>1, <2>5, <4>1, <4>2
      <3>3. QED
        BY <3>1, <3>2
    <2>7. Register!Wins(r, s, g, k)
      BY <1>1, <2>5, <2>6, WinsMeaning
    <2>8. QED
      BY <2>5, <2>7, WinsFact
  <1>4. QED
    BY <1>2, <1>3

-----------------------------------------------------------------------------
LEMMA InitBase == Init => Base
  <1> SUFFICES ASSUME Init
               PROVE  Base
    OBVIOUS
  <1>1. retained \in [Objects -> Messages]
    <2>1. NoState \in Messages
      BY DEF NoState, Messages, Kinds
    <2>2. QED
      BY <2>1 DEF Init
  <1>2. reg \in [Objects -> [ts : Nat, value : Values \cup {"none"}]]
    BY DEF Init, Nothing
  <1>3. Len(batch) < BatchMax /\ Len(buffer) <= BufferSize
    <2>1. Len(batch) = 0 /\ Len(buffer) = 0
      BY DEF Init
    <2>2. QED
      BY <2>1, TelemetryConstants
  <1>4. /\ bus \in [Objects -> Values] /\ link \in {"up", "down"}
        /\ connected \in BOOLEAN /\ metaSent \in BOOLEAN /\ exported \in BOOLEAN /\ lost \in BOOLEAN
    BY DEF Init
  <1>5. now \in Nat /\ seq \in Nat /\ inputs \in Nat /\ faults \in Nat /\ recorded \subseteq Nat
    BY DEF Init
  <1>6. /\ telegrams \in Seq([ga : Objects, value : Values])
        /\ batch \in Seq(Items) /\ buffer \in Seq(Messages) /\ net \in Seq(Messages)
    BY DEF Init
  <1>7. TypeOK
    BY <1>1, <1>2, <1>3, <1>4, <1>5, <1>6 DEF TypeOK
  <1>8. QED
    BY <1>7 DEF Base, Init

LEMMA ReplayFact ==
  ASSUME retained \in [Objects -> Messages],
         NEW q \in [1..Cardinality(Replay) -> Replay]
  PROVE  q \in Seq(Messages)
  <1> DEFINE all == {retained[g] : g \in Objects}
  <1>1. retained \in Surjection(Objects, all)
    BY DEF Surjection
  <1>2. IsFiniteSet(all)
    BY <1>1, TelemetryConstants, FS_Surjection
  <1>3. Replay \subseteq Messages /\ Replay \subseteq all
    BY DEF Replay
  <1>4. Cardinality(Replay) \in Nat
    BY <1>2, <1>3, FS_Subset, FS_CardinalityType
  <1>5. QED
    BY <1>3, <1>4

\* What BaseStep must show of the daemon's handling of a telegram.
LEMMA TelegramFact ==
  ASSUME Base, telegrams # <<>>,
         NEW t, t = Head(telegrams),
         NEW u, u = Append(batch, [ga |-> t.ga, ts |-> now, value |-> t.value, seq |-> seq + 1])
  PROVE  /\ t.ga \in Objects /\ t.value \in Values
         /\ [ga |-> t.ga, ts |-> now, value |-> t.value, seq |-> seq + 1] \in Items
         /\ u \in Seq(Items) /\ Len(u) \in Nat
         /\ Tail(telegrams) \in Seq([ga : Objects, value : Values])
  <1>1. TypeOK
    BY DEF Base
  <1>2. /\ telegrams \in Seq([ga : Objects, value : Values]) /\ now \in Nat /\ seq \in Nat
        /\ batch \in Seq(Items)
    BY <1>1 DEF TypeOK
  <1>3. t \in [ga : Objects, value : Values] /\ Tail(telegrams) \in Seq([ga : Objects, value : Values])
    BY <1>2, TailFact
  <1>4. [ga |-> t.ga, ts |-> now, value |-> t.value, seq |-> seq + 1] \in Items
    BY <1>2, <1>3 DEF Items
  <1>5. u \in Seq(Items) /\ Len(u) \in Nat
    BY <1>2, <1>4, AppendProperties
  <1>6. QED
    BY <1>3, <1>4, <1>5

LEMMA BaseStep == Base /\ [Next]_vars => Base'
  <1> SUFFICES ASSUME Base, [Next]_vars
               PROVE  Base'
    OBVIOUS
  <1>0. TypeOK /\ (connected => buffer = <<>>)
    BY DEF Base
  <1>1. ASSUME NEW g \in Objects, NEW v \in Values, Write(g, v)
        PROVE  Base'
    <2>1. /\ bus' \in [Objects -> Values]
          /\ telegrams' \in Seq([ga : Objects, value : Values]) /\ inputs' \in Nat
      <3>1. /\ bus \in [Objects -> Values] /\ inputs \in Nat
            /\ telegrams \in Seq([ga : Objects, value : Values])
        BY <1>0 DEF TypeOK
      <3>2. /\ bus' = [bus EXCEPT ![g] = v] /\ inputs' = inputs + 1
            /\ telegrams' = Append(telegrams, [ga |-> g, value |-> v])
        BY <1>1 DEF Write
      <3>3. [ga |-> g, value |-> v] \in [ga : Objects, value : Values]
        OBVIOUS
      <3>4. QED
        BY <3>1, <3>2, <3>3, AppendProperties
    <2>2. QED
      BY <1>0, <1>1, <2>1 DEF Write, Base, TypeOK, broker, server
  <1>2. CASE Tick
    <2>1. now' \in Nat
      <3>1. now \in Nat
        BY <1>0 DEF TypeOK
      <3>2. QED
        BY <1>2, <3>1 DEF Tick
    <2>2. QED
      BY <1>0, <1>2, <2>1 DEF Tick, Base, TypeOK, daemon, broker, server
  <1>3. CASE HandleTelegram
    <2> DEFINE t == Head(telegrams)
               u == Append(batch, [ga |-> t.ga, ts |-> now, value |-> t.value, seq |-> seq + 1])
    <2>1. /\ telegrams # <<>> /\ telegrams' = Tail(telegrams) /\ seq' = seq + 1
          /\ IF Len(u) >= BatchMax
               THEN batch' = <<>> /\ Publish(BatchMessages(u))
               ELSE batch' = u /\ UNCHANGED <<buffer, broker, lost, faults>>
          /\ UNCHANGED <<bus, now, connected, metaSent, exported, server, inputs>>
      BY <1>3 DEF HandleTelegram
    <2>2. /\ u \in Seq(Items) /\ Len(u) \in Nat
          /\ telegrams' \in Seq([ga : Objects, value : Values])
      BY <2>1, TelegramFact
    <2>3. seq' \in Nat
      <3>1. seq \in Nat
        BY <1>0 DEF TypeOK
      <3>2. QED
        BY <2>1, <3>1
    <2> HIDE DEF u
    <2>4. CASE Len(u) >= BatchMax
      <3>1. batch' = <<>> /\ Publish(BatchMessages(u))
        BY <2>1, <2>4
      <3>2. batch' \in Seq(Items) /\ Len(batch') < BatchMax
        <4>1. Len(batch') = 0 /\ batch' \in Seq(Items)
          BY <3>1
        <4>2. QED
          BY <4>1, TelemetryConstants
      <3>3. /\ net' \in Seq(Messages) /\ buffer' \in Seq(Messages) /\ Len(buffer') <= BufferSize
            /\ retained' \in [Objects -> Messages] /\ link' \in {"up", "down"}
            /\ lost' \in BOOLEAN /\ faults' \in Nat
            /\ (connected => buffer' = <<>>)
        BY <2>2, <3>1, BatchFact, PublishFact
      <3>4. QED
        BY <1>0, <2>1, <2>2, <2>3, <3>2, <3>3 DEF Base, TypeOK, server
    <2>5. CASE ~(Len(u) >= BatchMax)
      <3>1. batch' \in Seq(Items) /\ Len(batch') < BatchMax
        BY <2>1, <2>2, <2>5, TelemetryConstants
      <3>2. UNCHANGED <<buffer, link, retained, net, lost, faults>>
        BY <2>1, <2>5 DEF broker
      <3>3. QED
        BY <1>0, <2>1, <2>2, <2>3, <3>1, <3>2 DEF Base, TypeOK, server
    <2>6. QED
      BY <2>4, <2>5
  <1>4. CASE DropTelegram
    <2>1. telegrams' \in Seq([ga : Objects, value : Values]) /\ faults' \in Nat
      <3>1. telegrams \in Seq([ga : Objects, value : Values]) /\ faults \in Nat
        BY <1>0 DEF TypeOK
      <3>2. QED
        BY <1>4, <3>1, TailFact DEF DropTelegram
    <2>2. QED
      BY <1>0, <1>4, <2>1 DEF DropTelegram, Base, TypeOK, broker, server
  <1>5. CASE FlushBatch
    <2>1. /\ Publish(BatchMessages(batch)) /\ batch' = <<>>
          /\ UNCHANGED <<bus, telegrams, now, seq, connected, metaSent, exported, server, inputs>>
      BY <1>5 DEF FlushBatch
    <2>2. batch \in Seq(Items)
      BY <1>0 DEF TypeOK
    <2>3. batch' \in Seq(Items) /\ Len(batch') < BatchMax
      <3>1. Len(batch') = 0 /\ batch' \in Seq(Items)
        BY <2>1
      <3>2. QED
        BY <3>1, TelemetryConstants
    <2>4. /\ net' \in Seq(Messages) /\ buffer' \in Seq(Messages) /\ Len(buffer') <= BufferSize
          /\ retained' \in [Objects -> Messages] /\ link' \in {"up", "down"}
          /\ lost' \in BOOLEAN /\ faults' \in Nat
          /\ (connected => buffer' = <<>>)
      BY <2>1, <2>2, BatchFact, PublishFact
    <2>5. QED
      BY <1>0, <2>1, <2>3, <2>4 DEF Base, TypeOK, server
  <1>6. ASSUME ExportAll, UNCHANGED <<bus, telegrams, now, seq, batch, connected, server>>,
               metaSent' \in BOOLEAN, inputs' \in Nat
        PROVE  Base'
    <2>1. Publish(ObjectStates) /\ exported' \in BOOLEAN
      BY <1>6 DEF ExportAll
    <2>2. bus \in [Objects -> Values] /\ now \in Nat
      BY <1>0 DEF TypeOK
    <2>3. /\ net' \in Seq(Messages) /\ buffer' \in Seq(Messages) /\ Len(buffer') <= BufferSize
          /\ retained' \in [Objects -> Messages] /\ link' \in {"up", "down"}
          /\ lost' \in BOOLEAN /\ faults' \in Nat
          /\ (connected => buffer' = <<>>)
      BY <2>1, <2>2, ExportFact, PublishFact
    <2>4. QED
      BY <1>0, <1>6, <2>1, <2>3 DEF Base, TypeOK, server
  <1>7. CASE FirstExport
    <2>1. metaSent' = TRUE /\ UNCHANGED <<bus, telegrams, now, seq, batch, connected, server, inputs>>
      BY <1>7 DEF FirstExport
    <2>2. inputs' \in Nat /\ metaSent' \in BOOLEAN
      BY <1>0, <2>1 DEF TypeOK
    <2>3. CASE ExportAll
      BY <1>6, <2>1, <2>2, <2>3
    <2>4. CASE faults' = faults + 1 /\ ExportRaises
      <3>1. faults' \in Nat
        <4>1. faults \in Nat
          BY <1>0 DEF TypeOK
        <4>2. QED
          BY <2>4, <4>1
      <3>2. UNCHANGED <<exported, buffer, link, retained, net, lost>>
        BY <2>4 DEF ExportRaises, broker
      <3>3. QED
        BY <1>0, <2>1, <2>2, <3>1, <3>2 DEF Base, TypeOK, server
    <2>5. QED
      BY <1>7, <2>3, <2>4 DEF FirstExport
  <1>8. CASE Snapshot
    <2>1. ExportAll /\ UNCHANGED <<bus, telegrams, now, seq, batch, connected, metaSent, server, inputs>>
      BY <1>8 DEF Snapshot
    <2>2. metaSent' \in BOOLEAN /\ inputs' \in Nat
      BY <1>0, <2>1 DEF TypeOK
    <2>3. QED
      BY <1>6, <2>1, <2>2
  <1>9. CASE ForceExport
    <2>1. /\ ExportAll /\ inputs' = inputs + 1
          /\ UNCHANGED <<bus, telegrams, now, seq, batch, connected, metaSent, server>>
      BY <1>9 DEF ForceExport
    <2>2. metaSent' \in BOOLEAN
      BY <1>0, <2>1 DEF TypeOK
    <2>3. inputs' \in Nat
      <3>1. inputs \in Nat
        BY <1>0 DEF TypeOK
      <3>2. QED
        BY <2>1, <3>1
    <2>4. QED
      BY <1>6, <2>1, <2>2, <2>3
  <1>10. CASE LinkBreaks
    <2>1. faults' \in Nat
      <3>1. faults \in Nat
        BY <1>0 DEF TypeOK
      <3>2. QED
        BY <1>10, <3>1 DEF LinkBreaks
    <2>2. QED
      BY <1>0, <1>10, <2>1 DEF LinkBreaks, Base, TypeOK, daemon, server
  <1>11. CASE Disconnected
    BY <1>0, <1>11 DEF Disconnected, Base, TypeOK, broker, server
  <1>12. CASE Connected
    <2>1. PICK n \in 0..Len(buffer) :
            /\ net' = net \o SubSeq(InOrder, 1, n)
            /\ retained' = RetainedAfter(SubSeq(InOrder, 1, n))
            /\ link' = "up"
            /\ IF n = Len(buffer) THEN UNCHANGED <<lost, faults>>
               ELSE faults < MaxFaults /\ faults' = faults + 1 /\ lost' = TRUE
      BY <1>12 DEF Connected
    <2>2. /\ buffer \in Seq(Messages) /\ net \in Seq(Messages) /\ faults \in Nat
          /\ retained \in [Objects -> Messages]
      BY <1>0 DEF TypeOK
    <2>3. SubSeq(InOrder, 1, n) \in Seq(Messages)
      BY <2>2, PrefixFact DEF InOrder
    <2>4. net' \in Seq(Messages) /\ retained' \in [Objects -> Messages]
      BY <2>1, <2>2, <2>3, ConcatProperties, RetainedFact
    <2>5. faults' \in Nat
      BY <2>1, <2>2
    <2>6. lost' \in BOOLEAN
      <3>1. lost \in BOOLEAN
        BY <1>0 DEF TypeOK
      <3>2. QED
        BY <2>1, <3>1
    <2>7. buffer' = <<>> /\ buffer' \in Seq(Messages) /\ Len(buffer') <= BufferSize
      <3>1. buffer' = <<>> /\ Len(buffer') = 0
        BY <1>12 DEF Connected
      <3>2. QED
        BY <3>1, TelemetryConstants
    <2>8. /\ connected' \in BOOLEAN /\ link' \in {"up", "down"}
          /\ UNCHANGED <<bus, telegrams, now, seq, batch, metaSent, exported, reg, recorded, inputs>>
      BY <1>12, <2>1 DEF Connected, server
    <2>9. QED
      BY <1>0, <2>4, <2>5, <2>6, <2>7, <2>8 DEF Base, TypeOK
  <1>13. CASE Restart
    <2>1. faults' \in Nat
      <3>1. faults \in Nat
        BY <1>0 DEF TypeOK
      <3>2. QED
        BY <1>13, <3>1 DEF Restart
    <2>2. /\ telegrams' = <<>> /\ batch' = <<>> /\ buffer' = <<>> /\ seq' = 0 /\ link' = "down"
          /\ connected' = FALSE /\ metaSent' = FALSE /\ exported' = FALSE /\ lost' = TRUE
          /\ UNCHANGED <<bus, now, retained, net, reg, recorded, inputs>>
      BY <1>13 DEF Restart, server
    <2>3. /\ telegrams' \in Seq([ga : Objects, value : Values]) /\ seq' \in Nat
          /\ batch' \in Seq(Items) /\ buffer' \in Seq(Messages)
      BY <2>2
    <2>4. Len(batch') < BatchMax /\ Len(buffer') <= BufferSize
      <3>1. Len(batch') = 0 /\ Len(buffer') = 0
        BY <2>2
      <3>2. QED
        BY <3>1, TelemetryConstants
    <2>5. QED
      BY <1>0, <2>1, <2>2, <2>3, <2>4 DEF Base, TypeOK
  <1>14. CASE Deliver
    <2> DEFINE m == Head(net)
    <2>1. net # <<>> /\ net \in Seq(Messages) /\ reg \in [Objects -> Entries] /\ recorded \subseteq Nat
      BY <1>0, <1>14 DEF Deliver, TypeOK, Entries
    <2>2. m \in Messages /\ Tail(net) \in Seq(Messages)
      BY <2>1, TailFact
    <2>3. m.items \in Seq(Items)
      BY <2>2 DEF Messages
    <2>4. reg' \in [Objects -> Entries]
      BY <1>14, <2>1, <2>3, AfterType DEF Deliver
    <2>5. recorded' \subseteq Nat
      <3>1. {m.items[k].seq : k \in DOMAIN m.items} \subseteq Nat
        <4>1. DOMAIN m.items = 1..Len(m.items) /\ \A k \in 1..Len(m.items) : m.items[k] \in Items
          BY <2>3, ElementOfSeq
        <4>2. QED
          BY <4>1 DEF Items
      <3>2. QED
        BY <1>14, <2>1, <3>1 DEF Deliver
    <2>6. net' \in Seq(Messages)
      BY <1>14, <2>2 DEF Deliver
    <2>7. QED
      BY <1>0, <1>14, <2>4, <2>5, <2>6 DEF Deliver, Base, TypeOK, Entries, daemon
  <1>15. CASE DeliverFails
    <2>1. net' \in Seq(Messages) /\ faults' \in Nat
      <3>1. net # <<>> /\ net \in Seq(Messages) /\ faults \in Nat
        BY <1>0, <1>15 DEF DeliverFails, TypeOK
      <3>2. QED
        BY <1>15, <3>1, TailFact DEF DeliverFails
    <2>2. QED
      BY <1>0, <1>15, <2>1 DEF DeliverFails, Base, TypeOK, daemon, server
  <1>16. CASE ServerReconnects
    <2>1. net' \in Seq(Messages) /\ faults' \in Nat
      <3>1. retained \in [Objects -> Messages] /\ faults \in Nat
        BY <1>0 DEF TypeOK
      <3>2. QED
        BY <1>16, <3>1, ReplayFact DEF ServerReconnects
    <2>2. QED
      BY <1>0, <1>16, <2>1 DEF ServerReconnects, Base, TypeOK, daemon, server
  <1>17. CASE UNCHANGED vars
    BY <1>0, <1>17 DEF vars, daemon, broker, server, Base, TypeOK
  <1>18. QED
    BY <1>1, <1>2, <1>3, <1>4, <1>5, <1>7, <1>8, <1>9, <1>10, <1>11, <1>12, <1>13, <1>14, <1>15,
       <1>16, <1>17 DEF Next

LEMMA BaseInvariant == Spec => []Base
  <1>1. Init => Base
    BY InitBase
  <1>2. Base /\ [Next]_vars => Base'
    BY BaseStep
  <1>3. QED
    BY <1>1, <1>2, PTL DEF Spec

\* Type correctness.
THEOREM TypeCorrect == Spec => []TypeOK
  <1>1. Base => TypeOK
    BY DEF Base
  <1>2. QED
    BY <1>1, BaseInvariant, PTL

-----------------------------------------------------------------------------
(* The events are one stream: recorded, then in the pipe, then in the       *)
(* batch.  Every number is in it, and it only grows at its end.             *)

Numbers(m) == IF m.kind = "events" THEN {m.items[k].seq : k \in 1..Len(m.items)} ELSE {}

Below(A, B) == \A a \in A : \A b \in B : a < b

\* R is recorded, p the pipe, X the numbers in the batch, n the last number.
Stream(R, p, X, n) ==
  /\ R \cup EventsIn(p) \cup X = 1..n
  /\ Below(R, EventsIn(p)) /\ Below(R, X) /\ Below(EventsIn(p), X)
  /\ \A i, j \in 1..Len(p) : i < j => Below(Numbers(p[i]), Numbers(p[j]))

LEMMA EventsFact ==
  ASSUME NEW p \in Seq(Messages)
  PROVE  \A x : x \in EventsIn(p) <=> \E j \in 1..Len(p) : x \in Numbers(p[j])
  <1>1. DOMAIN p = 1..Len(p) /\ \A j \in 1..Len(p) : p[j] \in Messages
    BY ElementOfSeq
  <1>2. \A j \in 1..Len(p) : DOMAIN p[j].items = 1..Len(p[j].items)
    BY <1>1 DEF Messages
  <1> DEFINE N(j) == {p[j].items[i].seq : i \in DOMAIN p[j].items}
  <1>3. ASSUME NEW x
        PROVE  x \in EventsIn(p) <=> \E j \in 1..Len(p) : p[j].kind = "events" /\ x \in N(j)
    BY <1>1 DEF EventsIn
  <1>4. \A j \in 1..Len(p) : Numbers(p[j]) = IF p[j].kind = "events" THEN N(j) ELSE {}
    BY <1>2 DEF Numbers
  <1> HIDE DEF N
  <1>5. QED
    BY <1>3, <1>4

\* A telegram gets the next number.
LEMMA StreamTelegram ==
  ASSUME NEW n \in Nat, NEW R, NEW p, NEW X, Stream(R, p, X, n)
  PROVE  Stream(R, p, X \cup {n + 1}, n + 1)
  <1>1. 1..(n + 1) = (1..n) \cup {n + 1}
    OBVIOUS
  <1>2. R \cup EventsIn(p) \cup (X \cup {n + 1}) = 1..(n + 1)
    BY <1>1 DEF Stream
  <1>3. \A x \in R \cup EventsIn(p) : x < n + 1
    BY DEF Stream
  <1>4. QED
    BY <1>2, <1>3 DEF Stream, Below

\* Messages without events are published.
LEMMA StreamExport ==
  ASSUME NEW p \in Seq(Messages), NEW q \in Seq(Messages), NEW r, r = p \o q,
         \A i \in 1..Len(q) : q[i].kind # "events",
         NEW R, NEW X, NEW n, Stream(R, p, X, n)
  PROVE  Stream(R, r, X, n)
  <1>1. \A i \in 1..Len(q) : Numbers(q[i]) = {}
    BY DEF Numbers
  <1>2. /\ r \in Seq(Messages)
        /\ \A i \in 1..Len(p) : i \in 1..Len(r) /\ r[i] = p[i]
        /\ \A i \in 1..Len(r) : \/ i \in 1..Len(p) /\ r[i] = p[i]
                                \/ i - Len(p) \in 1..Len(q) /\ r[i] = q[i - Len(p)]
    BY JoinFact
  <1>3. \A i \in 1..Len(r) : (i \in 1..Len(p) /\ r[i] = p[i]) \/ Numbers(r[i]) = {}
    BY <1>1, <1>2
  <1>4. EventsIn(r) = EventsIn(p)
    <2>1. ASSUME NEW x
          PROVE  x \in EventsIn(r) <=> x \in EventsIn(p)
      <3>1. x \in EventsIn(r) <=> \E j \in 1..Len(r) : x \in Numbers(r[j])
        BY <1>2, EventsFact
      <3>2. x \in EventsIn(p) <=> \E j \in 1..Len(p) : x \in Numbers(p[j])
        BY EventsFact
      <3>3. QED
        BY <1>2, <1>3, <3>1, <3>2
    <2>2. QED
      BY <2>1
  <1>5. ASSUME NEW i \in 1..Len(r), NEW j \in 1..Len(r), i < j
        PROVE  Below(Numbers(r[i]), Numbers(r[j]))
    BY <1>3, <1>5 DEF Stream, Below
  <1>6. QED
    BY <1>4, <1>5 DEF Stream

\* The first message of a batch has all its events.
LEMMA BatchNumbers ==
  ASSUME NEW s \in Seq(Items), NEW q, q = BatchMessages(s)
  PROVE  /\ q \in Seq(Messages) /\ 1 \in 1..Len(q)
         /\ Numbers(q[1]) = {s[k].seq : k \in 1..Len(s)}
         /\ \A i \in 1..Len(q) : i # 1 => Numbers(q[i]) = {}
  <1>1. q \in Seq(Messages) /\ 1 \in 1..Len(q) /\ q[1].kind = "events" /\ q[1].items = s
    BY BatchFact
  <1>2. \A i \in 1..Len(q) : i # 1 => q[i].kind # "events"
    BY BatchFact
  <1>3. Numbers(q[1]) = {s[k].seq : k \in 1..Len(s)}
    BY <1>1 DEF Numbers
  <1>4. \A i \in 1..Len(q) : i # 1 => Numbers(q[i]) = {}
    BY <1>2 DEF Numbers
  <1>5. QED
    BY <1>1, <1>3, <1>4

\* The batch is published.
LEMMA StreamFlush ==
  ASSUME NEW s \in Seq(Items), NEW X, X = {s[k].seq : k \in 1..Len(s)},
         NEW q, q = BatchMessages(s),
         NEW p \in Seq(Messages), NEW r, r = p \o q,
         NEW R, NEW n, Stream(R, p, X, n)
  PROVE  Stream(R, r, {}, n)
  <1>1. q \in Seq(Messages) /\ 1 \in 1..Len(q) /\ Numbers(q[1]) = X
        /\ \A i \in 1..Len(q) : i # 1 => Numbers(q[i]) = {}
    BY BatchNumbers
  <1>2. /\ r \in Seq(Messages) /\ Len(p) \in Nat
        /\ \A i \in 1..Len(p) : i \in 1..Len(r) /\ r[i] = p[i]
        /\ \A i \in 1..Len(q) : Len(p) + i \in 1..Len(r) /\ r[Len(p) + i] = q[i]
        /\ \A i \in 1..Len(r) : \/ i \in 1..Len(p) /\ r[i] = p[i]
                                \/ /\ i > Len(p) /\ i - Len(p) \in 1..Len(q)
                                   /\ r[i] = q[i - Len(p)]
    BY <1>1, JoinFact
  <1>3. \A i \in 1..Len(r) : \/ i \in 1..Len(p) /\ r[i] = p[i]
                             \/ i = Len(p) + 1 /\ Numbers(r[i]) = X
                             \/ i > Len(p) + 1 /\ Numbers(r[i]) = {}
    <2> SUFFICES ASSUME NEW i \in 1..Len(r), i > Len(p), i - Len(p) \in 1..Len(q),
                        r[i] = q[i - Len(p)]
                 PROVE  \/ i = Len(p) + 1 /\ Numbers(r[i]) = X
                        \/ i > Len(p) + 1 /\ Numbers(r[i]) = {}
      BY <1>2
    <2>1. CASE i - Len(p) = 1
      <3>1. i = Len(p) + 1
        BY <1>2, <2>1
      <3>2. QED
        BY <1>1, <2>1, <3>1
    <2>2. CASE i - Len(p) # 1
      <3>1. i > Len(p) + 1
        BY <1>2, <2>2
      <3>2. QED
        BY <1>1, <2>2, <3>1
    <2>3. QED
      BY <2>1, <2>2
  <1>4. Len(p) + 1 \in 1..Len(r) /\ Numbers(r[Len(p) + 1]) = X
    BY <1>1, <1>2
  <1>5. EventsIn(r) = EventsIn(p) \cup X
    <2>1. ASSUME NEW x
          PROVE  x \in EventsIn(r) <=> x \in EventsIn(p) \cup X
      <3>1. x \in EventsIn(r) <=> \E j \in 1..Len(r) : x \in Numbers(r[j])
        BY <1>2, EventsFact
      <3>2. x \in EventsIn(p) <=> \E j \in 1..Len(p) : x \in Numbers(p[j])
        BY EventsFact
      <3>3. QED
        BY <1>2, <1>3, <1>4, <3>1, <3>2
    <2>2. QED
      BY <2>1
  <1>6. ASSUME NEW i \in 1..Len(r), NEW j \in 1..Len(r), i < j
        PROVE  Below(Numbers(r[i]), Numbers(r[j]))
    <2>1. CASE i \in 1..Len(p) /\ j \in 1..Len(p)
      BY <1>2, <1>6, <2>1 DEF Stream
    <2>2. CASE i \in 1..Len(p) /\ j = Len(p) + 1
      <3>1. \A x \in Numbers(r[i]) : x \in EventsIn(p)
        BY <1>2, <2>2, EventsFact
      <3>2. QED
        BY <1>4, <2>2, <3>1 DEF Stream, Below
    <2>3. CASE Numbers(r[j]) = {}
      BY <2>3 DEF Below
    <2>4. QED
      <3>1. CASE j \in 1..Len(p)
        <4>1. i \in 1..Len(p)
          BY <1>2, <1>6, <3>1
        <4>2. QED
          BY <2>1, <3>1, <4>1
      <3>2. CASE j = Len(p) + 1
        <4>1. i \in 1..Len(p)
          BY <1>2, <1>6, <3>2
        <4>2. QED
          BY <2>2, <3>2, <4>1
      <3>3. QED
        BY <1>3, <2>3, <3>1, <3>2
  <1>7. R \cup EventsIn(r) \cup {} = 1..n
    BY <1>5 DEF Stream
  <1>8. Below(R, EventsIn(r)) /\ Below(R, {}) /\ Below(EventsIn(r), {})
    BY <1>5 DEF Stream, Below
  <1>9. QED
    BY <1>6, <1>7, <1>8 DEF Stream

\* The server records the events at the head of the pipe.
LEMMA StreamDeliver ==
  ASSUME NEW p \in Seq(Messages), p # <<>>, NEW R, NEW X, NEW n, Stream(R, p, X, n)
  PROVE  Stream(R \cup Numbers(Head(p)), Tail(p), X, n)
  <1> DEFINE H == Numbers(Head(p))
             q == Tail(p)
  <1>1. /\ Len(p) \in Nat /\ 1 \in 1..Len(p) /\ H = Numbers(p[1]) /\ q \in Seq(Messages)
        /\ \A i \in 1..Len(q) : i + 1 \in 1..Len(p) /\ q[i] = p[i + 1]
        /\ \A i \in 1..Len(p) : i > 1 => i - 1 \in 1..Len(q) /\ q[i - 1] = p[i]
    BY TailFact
  <1> HIDE DEF H, q
  <1>2. ASSUME NEW x
        PROVE  /\ x \in EventsIn(p) <=> \E j \in 1..Len(p) : x \in Numbers(p[j])
               /\ x \in EventsIn(q) <=> \E j \in 1..Len(q) : x \in Numbers(q[j])
    BY <1>1, EventsFact
  <1>3. ASSUME NEW x \in EventsIn(p), x \notin H
        PROVE  x \in EventsIn(q)
    <2>1. PICK j \in 1..Len(p) : x \in Numbers(p[j])
      BY <1>2
    <2>2. j > 1
      BY <1>1, <1>3, <2>1
    <2>3. QED
      BY <1>1, <1>2, <2>1, <2>2
  <1>4. EventsIn(q) \subseteq EventsIn(p) /\ H \subseteq EventsIn(p)
    BY <1>1, <1>2
  <1>5. EventsIn(p) = H \cup EventsIn(q)
    BY <1>3, <1>4
  <1>6. Below(H, EventsIn(q))
    <2> SUFFICES ASSUME NEW a \in H, NEW b \in EventsIn(q)
                 PROVE  a < b
      BY DEF Below
    <2>1. PICK j \in 1..Len(q) : b \in Numbers(q[j])
      BY <1>2
    <2>2. 1 < j + 1 /\ j + 1 \in 1..Len(p) /\ q[j] = p[j + 1]
      BY <1>1
    <2>3. QED
      BY <1>1, <2>1, <2>2 DEF Stream, Below
  <1>7. ASSUME NEW i \in 1..Len(q), NEW j \in 1..Len(q), i < j
        PROVE  Below(Numbers(q[i]), Numbers(q[j]))
    <2>1. i + 1 \in 1..Len(p) /\ j + 1 \in 1..Len(p) /\ i + 1 < j + 1
      BY <1>1, <1>7
    <2>2. QED
      BY <1>1, <2>1 DEF Stream
  <1>8. (R \cup H) \cup EventsIn(q) \cup X = 1..n
    BY <1>5 DEF Stream
  <1>9. Below(R \cup H, EventsIn(q)) /\ Below(R \cup H, X) /\ Below(EventsIn(q), X)
    BY <1>4, <1>6 DEF Stream, Below
  <1>10. Stream(R \cup H, q, X, n)
    BY <1>7, <1>8, <1>9 DEF Stream
  <1>11. QED
    BY <1>10 DEF H, q

\* What is recorded has no gaps.
LEMMA StreamRecorded ==
  ASSUME NEW n \in Nat, NEW R, NEW p, NEW X, Stream(R, p, X, n)
  PROVE  R = 1..Cardinality(R)
  <1>1. R \subseteq 1..n
    BY DEF Stream
  <1>2. CASE R = {}
    BY <1>2, FS_EmptySet
  <1>3. CASE R # {}
    <2>1. R \subseteq Nat /\ \A x \in R : x <= n
      BY <1>1
    <2>2. PICK m \in R : \A y \in R : y <= m
      BY <1>3, <2>1, MaxFact
    <2>3. ASSUME NEW y \in 1..m
          PROVE  y \in R
      <3>1. y \in 1..n
        BY <1>1, <2>2
      <3>2. ~(m < y)
        BY <2>1, <2>2
      <3>3. QED
        BY <2>2, <3>1, <3>2 DEF Stream, Below
    <2>4. R = 1..m /\ m \in Nat
      <3>1. m \in Nat /\ \A y \in R : y \in Nat /\ y >= 1 /\ y <= m
        BY <1>1, <2>1, <2>2
      <3>2. R \subseteq 1..m
        BY <3>1
      <3>3. QED
        BY <2>3, <3>1, <3>2
    <2>5. Cardinality(R) = m
      BY <2>4, FS_Interval
    <2>6. QED
      BY <2>4, <2>5
  <1>4. QED
    BY <1>2, <1>3

-----------------------------------------------------------------------------
(* The register follows the bus: when no telegram of g is queued, whatever  *)
(* would leave another value than v = bus[g] in the register is overtaken   *)
(* by an item with v that is not older and is handled after it.             *)

Hit(i, g, v, t) == i.ga = g /\ i.value = v /\ i.ts >= t
Miss(i, g, v) == i.ga = g /\ i.value # v

Ahead(s, k, g, v, t) == \E j \in 1..Len(s) : j > k /\ Hit(s[j], g, v, t)
Later(p, j, g, v, t) == \E i \in 1..Len(p) : i > j /\ Ahead(p[i].items, 0, g, v, t)

Overtaken(s, g, v) == \A k \in 1..Len(s) : Miss(s[k], g, v) => Ahead(s, k, g, v, s[k].ts)

\* s is the batch, p the pipe, e the register's entry of g.
Settled(g, v, s, p, e) ==
  /\ Overtaken(s, g, v)
  /\ \A j \in 1..Len(p) : \A k \in 1..Len(p[j].items) : Miss(p[j].items[k], g, v) =>
       \/ Ahead(p[j].items, k, g, v, p[j].items[k].ts)
       \/ Later(p, j, g, v, p[j].items[k].ts)
       \/ Ahead(s, 0, g, v, p[j].items[k].ts)
  /\ e.value \notin {"none", v} => Later(p, 0, g, v, e.ts) \/ Ahead(s, 0, g, v, e.ts)

\* The batch s becomes u and messages q are published: nothing is forgotten.
Carried(s, u, q, g, v) ==
  /\ Overtaken(u, g, v)
  /\ \A t : Ahead(s, 0, g, v, t) => Ahead(u, 0, g, v, t) \/ Later(q, 0, g, v, t)
  /\ \A j \in 1..Len(q) : Overtaken(q[j].items, g, v)

LEMMA SettledPublish ==
  ASSUME NEW g, NEW v, NEW s, NEW e,
         NEW p \in Seq(Messages), NEW q \in Seq(Messages), NEW r, r = p \o q,
         Settled(g, v, s, p, e), NEW u, Carried(s, u, q, g, v)
  PROVE  Settled(g, v, u, r, e)
  <1>1. /\ Len(p) \in Nat
        /\ \A i \in 1..Len(p) : i \in 1..Len(r) /\ r[i] = p[i]
        /\ \A i \in 1..Len(q) : Len(p) + i \in 1..Len(r) /\ r[Len(p) + i] = q[i]
        /\ \A i \in 1..Len(r) : \/ i \in 1..Len(p) /\ r[i] = p[i]
                                \/ i - Len(p) \in 1..Len(q) /\ r[i] = q[i - Len(p)]
    BY JoinFact
  <1>2. ASSUME NEW t, NEW j, Later(p, j, g, v, t)
        PROVE  Later(r, j, g, v, t)
    BY <1>1, <1>2 DEF Later
  <1>3. ASSUME NEW t, NEW j \in 0..Len(p), Later(q, 0, g, v, t)
        PROVE  Later(r, j, g, v, t)
    <2>1. PICK i \in 1..Len(q) : Ahead(q[i].items, 0, g, v, t)
      BY <1>3 DEF Later
    <2>2. Len(p) + i > j
      BY <1>1
    <2>3. QED
      BY <1>1, <2>1, <2>2 DEF Later
  <1>4. ASSUME NEW t, NEW j \in 0..Len(p), Later(p, j, g, v, t) \/ Ahead(s, 0, g, v, t)
        PROVE  Later(r, j, g, v, t) \/ Ahead(u, 0, g, v, t)
    BY <1>2, <1>3, <1>4 DEF Carried
  <1>5. e.value \notin {"none", v} => Later(r, 0, g, v, e.ts) \/ Ahead(u, 0, g, v, e.ts)
    <2>1. 0 \in 0..Len(p)
      BY <1>1
    <2>2. QED
      BY <1>4, <2>1 DEF Settled
  <1>6. ASSUME NEW j \in 1..Len(r), NEW k \in 1..Len(r[j].items), Miss(r[j].items[k], g, v)
        PROVE  \/ Ahead(r[j].items, k, g, v, r[j].items[k].ts)
               \/ Later(r, j, g, v, r[j].items[k].ts)
               \/ Ahead(u, 0, g, v, r[j].items[k].ts)
    <2>1. CASE j \in 1..Len(p) /\ r[j] = p[j]
      <3>1. \/ Ahead(p[j].items, k, g, v, p[j].items[k].ts)
            \/ Later(p, j, g, v, p[j].items[k].ts)
            \/ Ahead(s, 0, g, v, p[j].items[k].ts)
        BY <1>6, <2>1 DEF Settled
      <3>2. j \in 0..Len(p)
        BY <1>1, <2>1
      <3>3. QED
        BY <1>4, <2>1, <3>1, <3>2
    <2>2. CASE j - Len(p) \in 1..Len(q) /\ r[j] = q[j - Len(p)]
      <3>1. Overtaken(r[j].items, g, v)
        BY <2>2 DEF Carried
      <3>2. QED
        BY <1>6, <3>1 DEF Overtaken
    <2>3. QED
      BY <1>1, <2>1, <2>2
  <1>7. QED
    BY <1>5, <1>6 DEF Settled, Carried

\* The states of a batch are the last ones of their addresses.
LEMMA BatchSettles ==
  ASSUME NEW s \in Seq(Items), NEW q, q = BatchMessages(s),
         NEW g, NEW v, Overtaken(s, g, v)
  PROVE  /\ q \in Seq(Messages)
         /\ \A j \in 1..Len(q) : Overtaken(q[j].items, g, v)
         /\ \A t : Ahead(s, 0, g, v, t) => Later(q, 0, g, v, t)
  <1>1. /\ q \in Seq(Messages) /\ 1 \in 1..Len(q) /\ q[1].items = s
        /\ \A n \in 1..Len(q) : n # 1 =>
             \A i \in 1..Len(q[n].items) : FinalIn(q[n].items[i], s)
    BY BatchFact
  <1>2. ASSUME NEW n \in 1..Len(q)
        PROVE  Overtaken(q[n].items, g, v)
    <2>1. CASE n = 1
      BY <1>1, <2>1
    <2>2. CASE n # 1
      <3> SUFFICES ASSUME NEW i \in 1..Len(q[n].items)
                   PROVE  ~Miss(q[n].items[i], g, v)
        BY DEF Overtaken
      <3>1. PICK k \in 1..Len(s) :
              q[n].items[i] = s[k] /\ \A j \in 1..Len(s) : j > k => s[j].ga # s[k].ga
        BY <1>1, <2>2 DEF FinalIn
      <3>2. QED
        BY <3>1 DEF Overtaken, Miss, Ahead, Hit
    <2>3. QED
      BY <2>1, <2>2
  <1>3. ASSUME NEW t, Ahead(s, 0, g, v, t)
        PROVE  Later(q, 0, g, v, t)
    <2>1. 1 > 0 /\ Ahead(q[1].items, 0, g, v, t)
      BY <1>1, <1>3
    <2>2. QED
      BY <1>1, <2>1 DEF Later
  <1>4. QED
    BY <1>1, <1>2, <1>3

\* The batch is published.
LEMMA SettledFlush ==
  ASSUME NEW g, NEW v, NEW s \in Seq(Items), NEW e,
         NEW q, q = BatchMessages(s),
         NEW p \in Seq(Messages), NEW r, r = p \o q,
         Settled(g, v, s, p, e)
  PROVE  Settled(g, v, <<>>, r, e)
  <1>1. Overtaken(s, g, v)
    BY DEF Settled
  <1>2. /\ q \in Seq(Messages)
        /\ \A j \in 1..Len(q) : Overtaken(q[j].items, g, v)
        /\ \A t : Ahead(s, 0, g, v, t) => Later(q, 0, g, v, t)
    BY <1>1, BatchSettles
  <1>3. Overtaken(<<>>, g, v)
    BY DEF Overtaken
  <1>4. Carried(s, <<>>, q, g, v)
    BY <1>2, <1>3 DEF Carried
  <1>5. QED
    BY <1>2, <1>4, SettledPublish

\* An export has the value of every object on the bus.
LEMMA SettledExport ==
  ASSUME bus \in [Objects -> Values], now \in Nat, NEW q, q = ObjectStates,
         NEW g, NEW s, NEW e,
         NEW p \in Seq(Messages), NEW r, r = p \o q,
         Settled(g, bus[g], s, p, e)
  PROVE  Settled(g, bus[g], s, r, e)
  <1>1. /\ q \in Seq(Messages)
        /\ \A n \in 1..Len(q) : /\ Len(q[n].items) = 1
                                /\ q[n].items[1].value = bus[q[n].items[1].ga]
    BY ExportFact
  <1>2. \A j \in 1..Len(q) : Overtaken(q[j].items, g, bus[g])
    <2> SUFFICES ASSUME NEW j \in 1..Len(q), NEW k \in 1..Len(q[j].items)
                 PROVE  ~Miss(q[j].items[k], g, bus[g])
      BY DEF Overtaken
    <2>1. Len(q[j].items) = 1
      BY <1>1
    <2>2. k = 1
      BY <2>1
    <2>3. QED
      BY <1>1, <2>2 DEF Miss
  <1>3. Overtaken(s, g, bus[g])
    BY DEF Settled
  <1>4. Carried(s, s, q, g, bus[g])
    BY <1>2, <1>3 DEF Carried
  <1>5. QED
    BY <1>1, <1>4, SettledPublish

\* A telegram of another address joins the batch.
LEMMA SettledOther ==
  ASSUME NEW g, NEW v, NEW e, NEW p, NEW s \in Seq(Items), NEW x \in Items, x.ga # g,
         NEW u, u = Append(s, x), Settled(g, v, s, p, e)
  PROVE  Settled(g, v, u, p, e)
  <1>1. /\ \A i \in 1..Len(s) : i \in 1..Len(u) /\ u[i] = s[i]
        /\ \A i \in 1..Len(u) : i \in 1..Len(s) \/ u[i] = x
    BY AppendFact
  <1>2. ASSUME NEW t, NEW k, Ahead(s, k, g, v, t)
        PROVE  Ahead(u, k, g, v, t)
    BY <1>1, <1>2 DEF Ahead
  <1>3. ASSUME NEW k \in 1..Len(u), Miss(u[k], g, v)
        PROVE  Ahead(u, k, g, v, u[k].ts)
    <2>1. k \in 1..Len(s) /\ u[k] = s[k]
      BY <1>1, <1>3 DEF Miss
    <2>2. QED
      BY <1>2, <1>3, <2>1 DEF Settled, Overtaken
  <1>4. Overtaken(u, g, v)
    BY <1>3 DEF Overtaken
  <1>5. QED
    BY <1>2, <1>4 DEF Settled

\* The last telegram of the address joins the batch: it has the bus value, and
\* nothing is newer.
LEMMA SettledLast ==
  ASSUME NEW g, NEW v, NEW e, NEW p, NEW s \in Seq(Items), NEW x \in Items, NEW b \in Nat,
         x.ga = g, x.value = v, x.ts = b,
         \A k \in 1..Len(s) : s[k].ts <= b,
         \A j \in 1..Len(p) : \A k \in 1..Len(p[j].items) : p[j].items[k].ts <= b,
         e.ts <= b,
         NEW u, u = Append(s, x)
  PROVE  Settled(g, v, u, p, e)
  <1> DEFINE n == Len(u)
  <1>1. /\ Len(s) \in Nat /\ n \in 1..Len(u) /\ n > 0 /\ u[n] = x
        /\ \A i \in 1..Len(u) : i = n \/ (i < n /\ i \in 1..Len(s) /\ u[i] = s[i])
    <2>1. /\ Len(s) \in Nat /\ Len(u) = Len(s) + 1
          /\ Len(u) \in 1..Len(u) /\ u[Len(u)] = x
          /\ \A i \in 1..Len(s) : i < Len(u) /\ u[i] = s[i]
          /\ \A i \in 1..Len(u) : i \in 1..Len(s) \/ i = Len(u)
      BY AppendFact
    <2>2. QED
      BY <2>1
  <1> HIDE DEF n
  <1>2. ASSUME NEW t, t <= b, NEW k, k < n
        PROVE  Ahead(u, k, g, v, t)
    <2>1. Hit(u[n], g, v, t)
      <3>1. b >= t
        BY <1>2
      <3>2. QED
        BY <1>1, <3>1 DEF Hit
    <2>2. n > k
      BY <1>2
    <2>3. QED
      BY <1>1, <2>1, <2>2 DEF Ahead
  <1>3. ASSUME NEW k \in 1..Len(u), Miss(u[k], g, v)
        PROVE  Ahead(u, k, g, v, u[k].ts)
    <2>1. k # n
      BY <1>1, <1>3 DEF Miss
    <2>2. k < n /\ u[k].ts <= b
      BY <1>1, <2>1
    <2>3. QED
      BY <1>2, <2>2
  <1>4. Overtaken(u, g, v)
    BY <1>3 DEF Overtaken
  <1>5. 0 < n
    BY <1>1
  <1>6. QED
    BY <1>2, <1>4, <1>5 DEF Settled

\* No item is newer than b.
Young(s, b) == \A k \in 1..Len(s) : s[k].ts <= b

\* The server handles the message at the head of the pipe.
LEMMA SettledDeliver ==
  ASSUME NEW g \in Objects, NEW v, NEW s,
         NEW p \in Seq(Messages), p # <<>>,
         NEW r \in [Objects -> Entries], NEW b \in Nat, Young(Head(p).items, b),
         Settled(g, v, s, p, r[g])
  PROVE  Settled(g, v, s, Tail(p), Register!After(r, Head(p).items)[g])
  <1> DEFINE m == Head(p)
             q == Tail(p)
             f == Register!After(r, m.items)
  <1>0. /\ m = Head(p) /\ q = Tail(p) /\ f = Register!After(r, m.items)
        /\ Young(m.items, b)
    OBVIOUS
  <1> HIDE DEF m, q, f
  <1>1. /\ Len(p) \in Nat /\ 1 \in 1..Len(p) /\ m = p[1] /\ m \in Messages /\ q \in Seq(Messages)
        /\ \A i \in 1..Len(q) : i + 1 \in 1..Len(p) /\ q[i] = p[i + 1]
        /\ \A i \in 1..Len(p) : i > 1 => i - 1 \in 1..Len(q) /\ q[i - 1] = p[i]
    BY <1>0, TailFact
  <1>2. m.items \in Seq(Items)
    BY <1>1 DEF Messages
  <1>3. ASSUME NEW t, NEW j \in Nat, Later(p, j + 1, g, v, t)
        PROVE  Later(q, j, g, v, t)
    <2>1. PICK i \in 1..Len(p) : i > j + 1 /\ Ahead(p[i].items, 0, g, v, t)
      BY <1>3 DEF Later
    <2>2. i > 1 /\ i - 1 > j
      BY <2>1
    <2>3. QED
      BY <1>1, <2>1, <2>2 DEF Later
  <1>4. ASSUME NEW j \in 1..Len(q), NEW k \in 1..Len(q[j].items), Miss(q[j].items[k], g, v)
        PROVE  \/ Ahead(q[j].items, k, g, v, q[j].items[k].ts)
               \/ Later(q, j, g, v, q[j].items[k].ts)
               \/ Ahead(s, 0, g, v, q[j].items[k].ts)
    <2>1. j + 1 \in 1..Len(p) /\ q[j] = p[j + 1] /\ j \in Nat
      BY <1>1
    <2>2. \/ Ahead(q[j].items, k, g, v, q[j].items[k].ts)
          \/ Later(p, j + 1, g, v, q[j].items[k].ts)
          \/ Ahead(s, 0, g, v, q[j].items[k].ts)
      BY <1>4, <2>1 DEF Settled
    <2>3. QED
      BY <1>3, <2>1, <2>2
  <1>5. Overtaken(s, g, v)
    BY DEF Settled
  <1>6. ASSUME f[g].value \notin {"none", v}
        PROVE  Later(q, 0, g, v, f[g].ts) \/ Ahead(s, 0, g, v, f[g].ts)
    <2>1. CASE \E k \in 1..Len(m.items) : /\ Register!Wins(r, m.items, g, k)
                                          /\ f[g] = [ts |-> m.items[k].ts, value |-> m.items[k].value]
      <3>1. PICK k \in 1..Len(m.items) :
              /\ Register!Wins(r, m.items, g, k)
              /\ f[g] = [ts |-> m.items[k].ts, value |-> m.items[k].value]
        BY <2>1
      <3>2. f[g].value = m.items[k].value /\ f[g].ts = m.items[k].ts
        BY <3>1
      <3>3. Miss(p[1].items[k], g, v)
        BY <1>1, <1>2, <1>6, <3>1, <3>2, WinsMeaning DEF Miss
      <3>4. \/ Ahead(m.items, k, g, v, f[g].ts)
            \/ Later(p, 1, g, v, f[g].ts)
            \/ Ahead(s, 0, g, v, f[g].ts)
        BY <1>1, <3>2, <3>3 DEF Settled
      <3>5. ~Ahead(m.items, k, g, v, f[g].ts)
        <4> SUFFICES ASSUME NEW j \in 1..Len(m.items), j > k, Hit(m.items[j], g, v, m.items[k].ts)
                     PROVE  FALSE
          BY <3>2 DEF Ahead
        <4>1. m.items[j].ts \in Nat /\ m.items[k].ts \in Nat /\ j \in DOMAIN m.items
          <5>1. m.items[j] \in Items /\ m.items[k] \in Items
            BY <1>2, ElementOfSeq
          <5>2. j \in DOMAIN m.items
            BY <1>2
          <5>3. QED
            BY <5>1, <5>2 DEF Items
        <4>2. m.items[j].ga = g /\ m.items[j].ts >= m.items[k].ts
          BY DEF Hit
        <4>3. j # k /\ ~(j < k)
          OBVIOUS
        <4>4. \/ m.items[j].ts < m.items[k].ts
              \/ m.items[j].ts = m.items[k].ts /\ j < k
          BY <1>2, <3>1, <4>1, <4>2, <4>3, WinsMeaning
        <4>5. QED
          BY <4>1, <4>2, <4>3, <4>4
      <3>6. 0 + 1 = 1
        OBVIOUS
      <3>7. QED
        BY <1>3, <3>4, <3>5, <3>6
    <2>2. CASE /\ f[g] = r[g]
               /\ \A k \in 1..Len(m.items) :
                    m.items[k].ga = g => r[g].value # "none" /\ m.items[k].ts < r[g].ts
      <3>1. Later(p, 0, g, v, r[g].ts) \/ Ahead(s, 0, g, v, r[g].ts)
        BY <1>6, <2>2 DEF Settled
      <3>2. ASSUME Later(p, 0, g, v, r[g].ts)
            PROVE  Later(p, 0 + 1, g, v, r[g].ts)
        <4>1. PICK i \in 1..Len(p) : Ahead(p[i].items, 0, g, v, r[g].ts)
          BY <3>2 DEF Later
        <4>2. i # 1
          <5> SUFFICES ASSUME i = 1
                       PROVE  FALSE
            OBVIOUS
          <5>1. PICK j \in 1..Len(m.items) : Hit(m.items[j], g, v, r[g].ts)
            BY <1>1, <4>1 DEF Ahead
          <5>2. m.items[j].ts < r[g].ts /\ m.items[j].ts >= r[g].ts
            BY <2>2, <5>1 DEF Hit
          <5>3. m.items[j].ts \in Nat /\ r[g].ts \in Nat
            <6>1. m.items[j] \in Items
              BY <1>2, ElementOfSeq
            <6>2. QED
              BY <6>1 DEF Items, Entries
          <5>4. QED
            BY <5>2, <5>3
        <4>3. i > 0 + 1
          BY <4>2
        <4>4. QED
          BY <4>1, <4>3 DEF Later
      <3>3. QED
        BY <1>3, <2>2, <3>1, <3>2
    <2>3. QED
      <3>1. \A k \in 1..Len(m.items) : m.items[k].ts <= b
        BY <1>0 DEF Young
      <3>2. \/ \E k \in 1..Len(m.items) :
                  /\ Register!Wins(r, m.items, g, k)
                  /\ f[g] = [ts |-> m.items[k].ts, value |-> m.items[k].value]
            \/ /\ f[g] = r[g]
               /\ \A k \in 1..Len(m.items) :
                    m.items[k].ga = g => r[g].value # "none" /\ m.items[k].ts < r[g].ts
        BY <1>2, <3>1, <1>0, AfterFact
      <3>3. QED
        BY <2>1, <2>2, <3>2
  <1>7. Settled(g, v, s, q, f[g])
    BY <1>4, <1>5, <1>6 DEF Settled
  <1>8. QED
    BY <1>0, <1>7

\* The server knows g, or a message of g is in the pipe.
Known(g, p, e) == e.value # "none" \/ \E j \in 1..Len(p) : \E k \in 1..Len(p[j].items) :
                                        p[j].items[k].ga = g

LEMMA KnownPublish ==
  ASSUME NEW g, NEW e, NEW p \in Seq(Messages), NEW q \in Seq(Messages), NEW r, r = p \o q,
         Known(g, p, e)
  PROVE  Known(g, r, e)
  <1>1. \A i \in 1..Len(p) : i \in 1..Len(r) /\ r[i] = p[i]
    BY JoinFact
  <1>2. QED
    BY <1>1 DEF Known

LEMMA KnownExport ==
  ASSUME bus \in [Objects -> Values], now \in Nat, NEW q, q = ObjectStates,
         NEW g \in Objects, NEW e, NEW p \in Seq(Messages), NEW r, r = p \o q
  PROVE  Known(g, r, e)
  <1>1. /\ q \in Seq(Messages) /\ \A n \in 1..Len(q) : Len(q[n].items) = 1
        /\ \E n \in 1..Len(q) : q[n].items[1].ga = g
    BY ExportFact
  <1>2. \A i \in 1..Len(q) : Len(p) + i \in 1..Len(r) /\ r[Len(p) + i] = q[i]
    BY <1>1, JoinFact
  <1>3. PICK n \in 1..Len(q) : q[n].items[1].ga = g
    BY <1>1
  <1>4. 1 \in 1..Len(q[n].items)
    <2>1. Len(q[n].items) = 1
      BY <1>1
    <2>2. QED
      BY <2>1
  <1>5. QED
    BY <1>2, <1>3, <1>4 DEF Known

LEMMA KnownDeliver ==
  ASSUME NEW g \in Objects,
         NEW p \in Seq(Messages), p # <<>>,
         NEW r \in [Objects -> Entries], NEW b \in Nat, Young(Head(p).items, b),
         Known(g, p, r[g])
  PROVE  Known(g, Tail(p), Register!After(r, Head(p).items)[g])
  <1> DEFINE m == Head(p)
             q == Tail(p)
             f == Register!After(r, m.items)
  <1>0. /\ m = Head(p) /\ q = Tail(p) /\ f = Register!After(r, m.items)
        /\ Young(m.items, b)
    OBVIOUS
  <1> HIDE DEF m, q, f
  <1>1. /\ 1 \in 1..Len(p) /\ m = p[1] /\ m \in Messages
        /\ \A i \in 1..Len(p) : i > 1 => i - 1 \in 1..Len(q) /\ q[i - 1] = p[i]
    BY <1>0, TailFact
  <1>2. m.items \in Seq(Items)
    BY <1>1 DEF Messages
  <1>3. ASSUME \E k \in 1..Len(m.items) :
                 f[g] = [ts |-> m.items[k].ts, value |-> m.items[k].value]
        PROVE  Known(g, q, f[g])
    <2>1. \A k \in 1..Len(m.items) : m.items[k].value # "none"
      <3>1. \A k \in 1..Len(m.items) : m.items[k] \in Items
        BY <1>2, ElementOfSeq
      <3>2. QED
        BY <3>1, TelemetryConstants DEF Items
    <2>2. f[g].value # "none"
      BY <1>3, <2>1
    <2>3. QED
      BY <2>2 DEF Known
  <1>4. ASSUME f[g] = r[g],
               \A k \in 1..Len(m.items) : m.items[k].ga = g => r[g].value # "none"
        PROVE  Known(g, q, f[g])
    <2>1. CASE r[g].value # "none"
      BY <1>4, <2>1 DEF Known
    <2>2. CASE r[g].value = "none"
      <3>1. PICK j \in 1..Len(p) : \E k \in 1..Len(p[j].items) : p[j].items[k].ga = g
        BY <2>2 DEF Known
      <3>2. j # 1
        BY <1>1, <1>4, <2>2, <3>1
      <3>3. j - 1 \in 1..Len(q) /\ q[j - 1] = p[j]
        <4>1. j > 1
          BY <3>2
        <4>2. QED
          BY <1>1, <4>1
      <3>4. \E k \in 1..Len(q[j - 1].items) : q[j - 1].items[k].ga = g
        BY <3>1, <3>3
      <3>5. QED
        BY <3>3, <3>4 DEF Known
    <2>3. QED
      BY <2>1, <2>2
  <1>5. Known(g, q, f[g])
    <2>1. \A k \in 1..Len(m.items) : m.items[k].ts <= b
      BY <1>0 DEF Young
    <2>2. \/ \E k \in 1..Len(m.items) :
                f[g] = [ts |-> m.items[k].ts, value |-> m.items[k].value]
          \/ /\ f[g] = r[g]
             /\ \A k \in 1..Len(m.items) : m.items[k].ga = g => r[g].value # "none"
      BY <1>2, <2>1, <1>0, AfterFact
    <2>3. QED
      BY <1>3, <1>4, <2>2
  <1>6. QED
    BY <1>0, <1>5

-----------------------------------------------------------------------------
(* The inductive invariant.  While nothing is lost, the events are one      *)
(* stream, no time stamp is ahead of the clock, and the register follows    *)
(* the bus.                                                                 *)

Numbered(s) == {s[k].seq : k \in 1..Len(s)}

Dated(p, b) == \A j \in 1..Len(p) : Young(p[j].items, b)
Entered(r, b) == \A g \in Objects : r[g].ts <= b

\* w is the bus queue, v the value of g on the bus.
Queued(w, g) == \E k \in 1..Len(w) : w[k].ga = g
LastRight(w, g, v) ==
  \A k \in 1..Len(w) : w[k].ga = g /\ w[k].value # v =>
    \E j \in 1..Len(w) : j > k /\ w[j].ga = g /\ w[j].value = v

Follows(g, v, w, s, p, e) ==
  /\ LastRight(w, g, v)
  /\ ~Queued(w, g) => Settled(g, v, s, p, e)

Timely(s, p, r, b) == Young(s, b) /\ Dated(p, b) /\ Entered(r, b)

Intact ==
  ~lost =>
    /\ Stream(recorded, Pipe, Numbered(batch), seq)
    /\ Timely(batch, Pipe, reg, now)
    /\ \A g \in Objects : Follows(g, bus[g], telegrams, batch, Pipe, reg[g])
    /\ exported => \A g \in Objects : Known(g, Pipe, reg[g])

\* What a telegram does to the batch.
LEMMA HandleFact ==
  ASSUME Base, Intact, ~lost, telegrams # <<>>,
         NEW t, t = Head(telegrams),
         NEW u, u = Append(batch, [ga |-> t.ga, ts |-> now, value |-> t.value, seq |-> seq + 1])
  PROVE  /\ Stream(recorded, Pipe, Numbered(u), seq + 1)
         /\ Young(u, now)
         /\ \A g \in Objects : Follows(g, bus[g], Tail(telegrams), u, Pipe, reg[g])
  <1> DEFINE x == [ga |-> t.ga, ts |-> now, value |-> t.value, seq |-> seq + 1]
             w == Tail(telegrams)
  <1>0. TypeOK
    BY DEF Base
  <1>1. /\ telegrams \in Seq([ga : Objects, value : Values]) /\ now \in Nat /\ seq \in Nat
        /\ batch \in Seq(Items) /\ reg \in [Objects -> Entries]
    BY <1>0 DEF TypeOK, Entries
  <1>2. x \in Items /\ u = Append(batch, x)
    BY TelegramFact
  <1>3. x.ga = t.ga /\ x.ts = now /\ x.value = t.value /\ x.seq = seq + 1
    OBVIOUS
  <1>4. /\ 1 \in 1..Len(telegrams) /\ t = telegrams[1]
        /\ \A i \in 1..Len(w) : i + 1 \in 1..Len(telegrams) /\ w[i] = telegrams[i + 1]
        /\ \A i \in 1..Len(telegrams) : i > 1 => i - 1 \in 1..Len(w) /\ w[i - 1] = telegrams[i]
    BY <1>1, TailFact
  <1> HIDE DEF x, w
  <1>5. /\ \A i \in 1..Len(batch) : i \in 1..Len(u) /\ u[i] = batch[i]
        /\ Len(u) \in 1..Len(u) /\ u[Len(u)] = x
        /\ \A i \in 1..Len(u) : i \in 1..Len(batch) \/ i = Len(u)
    BY <1>1, <1>2, AppendFact
  <1>6. /\ Stream(recorded, Pipe, Numbered(batch), seq)
        /\ Timely(batch, Pipe, reg, now)
        /\ \A g \in Objects : Follows(g, bus[g], telegrams, batch, Pipe, reg[g])
    BY DEF Intact
  <1>7. Numbered(u) = Numbered(batch) \cup {seq + 1}
    <2>1. \A i \in 1..Len(u) : u[i].seq \in Numbered(batch) \cup {seq + 1}
      BY <1>3, <1>5 DEF Numbered
    <2>2. \A i \in 1..Len(batch) : batch[i].seq \in Numbered(u)
      BY <1>5 DEF Numbered
    <2>3. seq + 1 \in Numbered(u)
      BY <1>3, <1>5 DEF Numbered
    <2>4. Numbered(u) \subseteq Numbered(batch) \cup {seq + 1}
      BY <2>1 DEF Numbered
    <2>5. Numbered(batch) \subseteq Numbered(u)
      BY <2>2 DEF Numbered
    <2>6. QED
      BY <2>3, <2>4, <2>5
  <1>8. Stream(recorded, Pipe, Numbered(u), seq + 1)
    BY <1>1, <1>6, <1>7, StreamTelegram
  <1>9. Young(u, now)
    <2>1. now <= now
      BY <1>1
    <2>2. QED
      BY <1>3, <1>5, <1>6, <2>1 DEF Timely, Young
  <1>10. ASSUME NEW g \in Objects
         PROVE  Follows(g, bus[g], w, u, Pipe, reg[g])
    <2>1. LastRight(telegrams, g, bus[g])
      BY <1>6 DEF Follows
    <2>2. LastRight(w, g, bus[g])
      <3> SUFFICES ASSUME NEW k \in 1..Len(w), w[k].ga = g, w[k].value # bus[g]
                   PROVE  \E j \in 1..Len(w) : j > k /\ w[j].ga = g /\ w[j].value = bus[g]
        BY DEF LastRight
      <3>1. k + 1 \in 1..Len(telegrams) /\ w[k] = telegrams[k + 1]
        BY <1>4
      <3>2. PICK j \in 1..Len(telegrams) :
              j > k + 1 /\ telegrams[j].ga = g /\ telegrams[j].value = bus[g]
        BY <2>1, <3>1 DEF LastRight
      <3>3. j > 1 /\ j - 1 > k
        BY <3>2
      <3>4. j - 1 \in 1..Len(w) /\ w[j - 1] = telegrams[j]
        BY <1>4, <3>3
      <3>5. QED
        BY <3>2, <3>3, <3>4
    <2>3. ASSUME ~Queued(w, g)
          PROVE  Settled(g, bus[g], u, Pipe, reg[g])
      <3>1. \A j \in 1..Len(telegrams) : j > 1 => telegrams[j].ga # g
        BY <1>4, <2>3 DEF Queued
      <3>2. CASE t.ga = g
        <4>1. t.value = bus[g]
          <5> SUFFICES ASSUME t.value # bus[g]
                       PROVE  FALSE
            OBVIOUS
          <5>1. PICK j \in 1..Len(telegrams) : j > 1 /\ telegrams[j].ga = g
            BY <1>4, <2>1, <3>2 DEF LastRight
          <5>2. QED
            BY <3>1, <5>1
        <4>2. /\ \A k \in 1..Len(batch) : batch[k].ts <= now
              /\ \A j \in 1..Len(Pipe) : \A k \in 1..Len(Pipe[j].items) : Pipe[j].items[k].ts <= now
              /\ reg[g].ts <= now
          BY <1>6 DEF Timely, Young, Dated, Entered
        <4>3. x.ga = g /\ x.value = bus[g] /\ x.ts = now
          BY <1>3, <3>2, <4>1
        <4>4. QED
          BY <1>1, <1>2, <4>2, <4>3, SettledLast
      <3>3. CASE t.ga # g
        <4>1. ~Queued(telegrams, g)
          <5>1. \A j \in 1..Len(telegrams) : j = 1 \/ j > 1
            OBVIOUS
          <5>2. QED
            BY <1>4, <3>1, <3>3, <5>1 DEF Queued
        <4>2. Settled(g, bus[g], batch, Pipe, reg[g])
          BY <1>6, <4>1 DEF Follows
        <4>3. x.ga # g
          BY <1>3, <3>3
        <4>4. QED
          BY <1>1, <1>2, <4>2, <4>3, SettledOther
      <3>4. QED
        BY <3>2, <3>3
    <2>4. QED
      BY <2>2, <2>3 DEF Follows
  <1>11. QED
    BY <1>8, <1>9, <1>10 DEF w

\* Messages that are not ahead of the clock are published.
LEMMA DatedPublish ==
  ASSUME NEW p \in Seq(Messages), NEW q \in Seq(Messages), NEW r, r = p \o q,
         NEW b, Dated(p, b), Dated(q, b)
  PROVE  Dated(r, b)
  <1>1. \A i \in 1..Len(r) : \/ i \in 1..Len(p) /\ r[i] = p[i]
                             \/ i - Len(p) \in 1..Len(q) /\ r[i] = q[i - Len(p)]
    BY JoinFact
  <1>2. QED
    BY <1>1 DEF Dated

LEMMA DatedFlush ==
  ASSUME NEW s \in Seq(Items), NEW q, q = BatchMessages(s), NEW b, Young(s, b)
  PROVE  Dated(q, b)
  <1>1. /\ q[1].items = s
        /\ \A n \in 1..Len(q) : n # 1 =>
             \A i \in 1..Len(q[n].items) : FinalIn(q[n].items[i], s)
    BY BatchFact
  <1>2. ASSUME NEW n \in 1..Len(q)
        PROVE  Young(q[n].items, b)
    <2>1. CASE n = 1
      BY <1>1, <2>1
    <2>2. CASE n # 1
      BY <1>1, <2>2 DEF FinalIn, Young
    <2>3. QED
      BY <2>1, <2>2
  <1>3. QED
    BY <1>2 DEF Dated

LEMMA DatedExport ==
  ASSUME bus \in [Objects -> Values], now \in Nat, NEW q, q = ObjectStates
  PROVE  Dated(q, now)
  <1>1. \A n \in 1..Len(q) : Len(q[n].items) = 1 /\ q[n].items[1].ts = now
    BY ExportFact
  <1>2. ASSUME NEW n \in 1..Len(q), NEW k \in 1..Len(q[n].items)
        PROVE  q[n].items[k].ts <= now
    <2>1. Len(q[n].items) = 1
      BY <1>1
    <2>2. k = 1
      BY <2>1
    <2>3. q[n].items[k].ts = now
      BY <1>1, <2>2
    <2>4. QED
      BY <2>3
  <1>3. QED
    BY <1>2 DEF Dated, Young

\* Messages q are published: what Intact needs to know of them.
LEMMA IntactPublish ==
  ASSUME Base, NEW q \in Seq(Messages), Publish(q), ~lost',
         NEW u, NEW n, NEW w,
         Stream(recorded, Pipe \o q, Numbered(u), n),
         Young(u, now), Dated(Pipe, now), Dated(q, now), Entered(reg, now),
         \A g \in Objects : Follows(g, bus[g], w, u, Pipe \o q, reg[g]),
         exported' => \A g \in Objects : Known(g, Pipe \o q, reg[g]),
         bus' = bus, telegrams' = w, now' = now, seq' = n, batch' = u,
         reg' = reg, recorded' = recorded
  PROVE  Intact'
  <1>1. Pipe' = Pipe \o q
    BY PublishFact
  <1>2. Pipe \in Seq(Messages)
    <2>1. TypeOK
      BY DEF Base
    <2>2. net \in Seq(Messages) /\ buffer \in Seq(Messages)
      BY <2>1 DEF TypeOK
    <2>3. QED
      BY <2>2, ConcatProperties DEF Pipe
  <1>3. Dated(Pipe \o q, now)
    BY <1>2, DatedPublish
  <1>4. Timely(u, Pipe \o q, reg, now)
    BY <1>3 DEF Timely
  <1>5. QED
    BY <1>1, <1>4 DEF Intact

LEMMA PipeFact ==
  ASSUME Base
  PROVE  Pipe \in Seq(Messages) /\ batch \in Seq(Items) /\ reg \in [Objects -> Entries]
         /\ bus \in [Objects -> Values] /\ now \in Nat /\ seq \in Nat /\ lost \in BOOLEAN
  <1>1. TypeOK
    BY DEF Base
  <1>2. net \in Seq(Messages) /\ buffer \in Seq(Messages)
    BY <1>1 DEF TypeOK
  <1>3. Pipe \in Seq(Messages)
    BY <1>2, ConcatProperties DEF Pipe
  <1>4. QED
    BY <1>1, <1>3 DEF TypeOK, Entries

\* The batch is published.
LEMMA IntactFlush ==
  ASSUME Base, NEW u \in Seq(Items), Publish(BatchMessages(u)), ~lost',
         NEW n, NEW w,
         Stream(recorded, Pipe, Numbered(u), n),
         Young(u, now), Dated(Pipe, now), Entered(reg, now),
         \A g \in Objects : Follows(g, bus[g], w, u, Pipe, reg[g]),
         exported => \A g \in Objects : Known(g, Pipe, reg[g]),
         bus' = bus, telegrams' = w, now' = now, seq' = n, batch' = <<>>,
         reg' = reg, recorded' = recorded, exported' = exported
  PROVE  Intact'
  <1> DEFINE q == BatchMessages(u)
             r == Pipe \o q
  <1>1. q = BatchMessages(u) /\ r = Pipe \o q
    OBVIOUS
  <1> HIDE DEF q, r
  <1>2. q \in Seq(Messages) /\ Pipe \in Seq(Messages)
    BY <1>1, BatchFact, PipeFact
  <1>3. Stream(recorded, r, {}, n)
    BY <1>1, <1>2, StreamFlush DEF Numbered
  <1>4. Stream(recorded, r, Numbered(<<>>), n)
    <2>1. Numbered(<<>>) = {}
      BY DEF Numbered
    <2>2. QED
      BY <1>3, <2>1
  <1>5. Dated(q, now)
    BY <1>1, DatedFlush
  <1>6. ASSUME NEW g \in Objects
        PROVE  Follows(g, bus[g], w, <<>>, r, reg[g])
    <2>1. Settled(g, bus[g], u, Pipe, reg[g]) => Settled(g, bus[g], <<>>, r, reg[g])
      BY <1>1, <1>2, SettledFlush
    <2>2. QED
      BY <2>1 DEF Follows
  <1>7. exported' => \A g \in Objects : Known(g, r, reg[g])
    BY <1>1, <1>2, KnownPublish
  <1>8. Young(<<>>, now)
    BY DEF Young
  <1>9. QED
    BY <1>1, <1>2, <1>4, <1>5, <1>6, <1>7, <1>8, IntactPublish

\* The values of all objects are published.
LEMMA IntactExport ==
  ASSUME Base, Intact, ExportAll, ~lost',
         UNCHANGED <<bus, telegrams, now, seq, batch, connected, server>>
  PROVE  Intact'
  <1> DEFINE q == ObjectStates
             r == Pipe \o q
  <1>1. q = ObjectStates /\ r = Pipe \o q
    OBVIOUS
  <1> HIDE DEF q, r
  <1>2. Publish(q)
    BY <1>1 DEF ExportAll
  <1>3. Pipe \in Seq(Messages) /\ bus \in [Objects -> Values] /\ now \in Nat
    BY PipeFact
  <1>4. q \in Seq(Messages) /\ \A i \in 1..Len(q) : q[i].kind # "events"
    BY <1>1, <1>3, ExportFact
  <1>5. ~lost
    BY <1>2, <1>4, PublishFact
  <1>6. /\ Stream(recorded, Pipe, Numbered(batch), seq)
        /\ Timely(batch, Pipe, reg, now)
        /\ \A g \in Objects : Follows(g, bus[g], telegrams, batch, Pipe, reg[g])
    BY <1>5 DEF Intact
  <1>7. Stream(recorded, r, Numbered(batch), seq)
    BY <1>1, <1>3, <1>4, <1>6, StreamExport
  <1>8. Dated(q, now)
    BY <1>1, <1>3, DatedExport
  <1>9. ASSUME NEW g \in Objects
        PROVE  Follows(g, bus[g], telegrams, batch, r, reg[g])
    <2>1. Settled(g, bus[g], batch, Pipe, reg[g]) => Settled(g, bus[g], batch, r, reg[g])
      BY <1>1, <1>3, SettledExport
    <2>2. QED
      BY <1>6, <2>1 DEF Follows
  <1>10. \A g \in Objects : Known(g, r, reg[g])
    BY <1>1, <1>3, KnownExport
  <1>11. QED
    BY <1>1, <1>2, <1>4, <1>6, <1>7, <1>8, <1>9, <1>10, IntactPublish DEF Timely, server

\* The server handles a message.
LEMMA IntactDeliver ==
  ASSUME Base, Intact, Deliver
  PROVE  Intact'
  <1> SUFFICES ASSUME ~lost'
               PROVE  Intact'
    BY DEF Intact
  <1> DEFINE m == Head(net)
             p == Pipe
             q == Tail(net) \o buffer
  <1>0. TypeOK
    BY DEF Base
  <1>1. net \in Seq(Messages) /\ buffer \in Seq(Messages) /\ net # <<>>
    BY <1>0 DEF TypeOK, Deliver
  <1>2. p \in Seq(Messages) /\ reg \in [Objects -> Entries] /\ now \in Nat
    BY PipeFact
  <1>3. p # <<>> /\ Head(p) = m /\ Tail(p) = q /\ m \in Messages
    <2>1. /\ Len(net) \in Nat \ {0} /\ m = net[1] /\ m \in Messages /\ Tail(net) \in Seq(Messages)
          /\ Len(Tail(net)) = Len(net) - 1
          /\ \A i \in 1..Len(Tail(net)) : Tail(net)[i] = net[i + 1]
      BY <1>1, EmptySeq, HeadTailProperties
    <2>2. /\ Len(p) = Len(net) + Len(buffer) /\ Len(buffer) \in Nat
          /\ \A i \in 1..(Len(net) + Len(buffer)) :
               p[i] = IF i <= Len(net) THEN net[i] ELSE buffer[i - Len(net)]
      BY <1>1, ConcatProperties DEF Pipe
    <2>3. /\ q \in Seq(Messages) /\ Len(q) = Len(Tail(net)) + Len(buffer)
          /\ \A i \in 1..(Len(Tail(net)) + Len(buffer)) :
               q[i] = IF i <= Len(Tail(net)) THEN Tail(net)[i] ELSE buffer[i - Len(Tail(net))]
      BY <1>1, <2>1, ConcatProperties
    <2> HIDE DEF p, q, m
    <2>4. Len(p) # 0
      BY <2>1, <2>2
    <2>5. p # <<>>
      <3>1. Len(<<>>) = 0
        OBVIOUS
      <3>2. QED
        BY <2>4, <3>1
    <2>6. /\ Head(p) = p[1] /\ Tail(p) \in Seq(Messages) /\ Len(Tail(p)) = Len(p) - 1
          /\ \A i \in 1..Len(Tail(p)) : Tail(p)[i] = p[i + 1]
      BY <1>2, <2>5, TailFact
    <2>7. Head(p) = m
      BY <2>1, <2>2, <2>6
    <2>8. Len(Tail(p)) = Len(q)
      BY <2>1, <2>2, <2>3, <2>6
    <2>9. ASSUME NEW i \in 1..Len(q)
          PROVE  Tail(p)[i] = q[i]
      <3>1. i + 1 \in 1..(Len(net) + Len(buffer)) /\ i \in 1..(Len(Tail(net)) + Len(buffer))
            /\ i \in 1..Len(Tail(p)) /\ i \in Nat
        BY <2>1, <2>2, <2>3, <2>8
      <3>2. CASE i <= Len(Tail(net))
        <4>1. i + 1 <= Len(net) /\ i \in 1..Len(Tail(net))
          BY <2>1, <3>1, <3>2
        <4>2. QED
          BY <2>1, <2>2, <2>3, <2>6, <3>1, <3>2, <4>1
      <3>3. CASE ~(i <= Len(Tail(net)))
        <4>1. ~(i + 1 <= Len(net)) /\ (i + 1) - Len(net) = i - Len(Tail(net))
          BY <2>1, <3>1, <3>3
        <4>2. QED
          BY <2>2, <2>3, <2>6, <3>1, <3>3, <4>1
      <3>4. QED
        BY <3>2, <3>3
    <2>10. Tail(p) = q
      BY <2>3, <2>6, <2>8, <2>9, SeqEqual
    <2>11. QED
      BY <2>1, <2>5, <2>7, <2>10 DEF m
  <1>4. /\ net' = Tail(net) /\ reg' = Register!After(reg, m.items)
        /\ recorded' = IF m.kind = "events" THEN recorded \cup {m.items[k].seq : k \in DOMAIN m.items}
                       ELSE recorded
        /\ UNCHANGED <<bus, telegrams, seq, batch, exported, buffer, now, lost>>
    BY DEF Deliver, daemon
  <1>5. Pipe' = q
    BY <1>4 DEF Pipe
  <1>6. /\ Stream(recorded, p, Numbered(batch), seq)
        /\ Timely(batch, p, reg, now)
        /\ \A g \in Objects : Follows(g, bus[g], telegrams, batch, p, reg[g])
        /\ exported => \A g \in Objects : Known(g, p, reg[g])
    BY <1>4 DEF Intact
  <1>7. m.items \in Seq(Items)
    BY <1>3 DEF Messages
  <1>8. recorded' = recorded \cup Numbers(m)
    <2>1. DOMAIN m.items = 1..Len(m.items)
      BY <1>7
    <2>2. QED
      BY <1>4, <2>1 DEF Numbers
  <1> HIDE DEF p, q, m
  <1>9. Stream(recorded', q, Numbered(batch), seq)
    BY <1>2, <1>3, <1>6, <1>8, StreamDeliver
  <1>10. /\ 1 \in 1..Len(p) /\ m = p[1] /\ \A i \in 1..Len(q) : i + 1 \in 1..Len(p) /\ q[i] = p[i + 1]
    BY <1>2, <1>3, TailFact
  <1>11. Dated(q, now) /\ Young(m.items, now) /\ Young(batch, now) /\ Entered(reg, now)
    BY <1>6, <1>10 DEF Timely, Dated
  <1>12. \A k \in 1..Len(m.items) : m.items[k].ts <= now
    BY <1>11 DEF Young
  <1>13. Entered(reg', now)
    <2> SUFFICES ASSUME NEW g \in Objects
                 PROVE  Register!After(reg, m.items)[g].ts <= now
      BY <1>4 DEF Entered
    <2>1. CASE \E k \in 1..Len(m.items) :
                 Register!After(reg, m.items)[g] = [ts |-> m.items[k].ts, value |-> m.items[k].value]
      BY <1>12, <2>1
    <2>2. CASE Register!After(reg, m.items)[g] = reg[g]
      BY <1>11, <2>2 DEF Entered
    <2>3. QED
      BY <1>2, <1>7, <2>1, <2>2, WinsFact
  <1> DEFINE f == reg'
  <1>14. /\ f = Register!After(reg, Head(p).items) /\ q = Tail(p) /\ p # <<>>
         /\ p \in Seq(Messages) /\ reg \in [Objects -> Entries] /\ now \in Nat
         /\ Young(Head(p).items, now)
    BY <1>2, <1>3, <1>4, <1>11
  <1> HIDE DEF f
  <1>15. ASSUME NEW g \in Objects
         PROVE  Follows(g, bus[g], telegrams, batch, q, f[g])
    <2>1. ASSUME Settled(g, bus[g], batch, p, reg[g])
          PROVE  Settled(g, bus[g], batch, q, f[g])
      BY <1>14, <2>1, SettledDeliver
    <2>2. QED
      BY <1>6, <2>1 DEF Follows
  <1>16. exported => \A g \in Objects : Known(g, q, f[g])
    <2> SUFFICES ASSUME exported, NEW g \in Objects
                 PROVE  Known(g, q, f[g])
      OBVIOUS
    <2>1. Known(g, p, reg[g])
      BY <1>6
    <2>2. QED
      BY <1>14, <2>1, KnownDeliver
  <1>17. Timely(batch, q, reg', now)
    BY <1>11, <1>13 DEF Timely
  <1>18. QED
    BY <1>4, <1>5, <1>9, <1>15, <1>16, <1>17 DEF Intact, f

\* Nothing that Intact speaks of changes, or the clock goes on.
LEMMA IntactSame ==
  ASSUME Base, Intact, lost' = lost, Pipe' = Pipe, now' = now \/ now' = now + 1,
         bus' = bus, telegrams' = telegrams, seq' = seq, batch' = batch,
         reg' = reg, recorded' = recorded, exported' = exported
  PROVE  Intact'
  <1> SUFFICES ASSUME ~lost
               PROVE  Intact'
    BY DEF Intact
  <1>1. /\ Stream(recorded, Pipe, Numbered(batch), seq)
        /\ Timely(batch, Pipe, reg, now)
        /\ \A g \in Objects : Follows(g, bus[g], telegrams, batch, Pipe, reg[g])
        /\ exported => \A g \in Objects : Known(g, Pipe, reg[g])
    BY DEF Intact
  <1>2. Pipe \in Seq(Messages) /\ batch \in Seq(Items) /\ reg \in [Objects -> Entries] /\ now \in Nat
    BY PipeFact
  <1>3. \A t \in Nat : t <= now => t <= now'
    BY <1>2
  <1>4. \A s \in Seq(Items) : Young(s, now) => Young(s, now')
    <2> SUFFICES ASSUME NEW s \in Seq(Items), Young(s, now), NEW k \in 1..Len(s)
                 PROVE  s[k].ts <= now'
      BY DEF Young
    <2>1. s[k] \in Items
      BY ElementOfSeq
    <2>2. s[k].ts \in Nat
      BY <2>1 DEF Items
    <2>3. s[k].ts <= now
      BY DEF Young
    <2>4. QED
      BY <1>3, <2>2, <2>3
  <1>5. Dated(Pipe, now')
    <2> SUFFICES ASSUME NEW j \in 1..Len(Pipe)
                 PROVE  Young(Pipe[j].items, now')
      BY DEF Dated
    <2>1. Pipe[j] \in Messages
      BY <1>2, ElementOfSeq
    <2>2. Pipe[j].items \in Seq(Items)
      BY <2>1 DEF Messages
    <2>3. Young(Pipe[j].items, now)
      BY <1>1 DEF Timely, Dated
    <2>4. QED
      BY <1>4, <2>2, <2>3
  <1>6. Entered(reg, now')
    <2> SUFFICES ASSUME NEW g \in Objects
                 PROVE  reg[g].ts <= now'
      BY DEF Entered
    <2>1. reg[g].ts \in Nat
      BY <1>2 DEF Entries
    <2>2. reg[g].ts <= now
      BY <1>1 DEF Timely, Entered
    <2>3. QED
      BY <1>3, <2>1, <2>2
  <1>7. Timely(batch, Pipe, reg, now')
    BY <1>1, <1>2, <1>4, <1>5, <1>6 DEF Timely
  <1>8. QED
    BY <1>1, <1>7 DEF Intact

\* A write is queued; the others follow as before.
LEMMA IntactWrite ==
  ASSUME Base, Intact, NEW h \in Objects, NEW v \in Values, Write(h, v)
  PROVE  Intact'
  <1> SUFFICES ASSUME ~lost'
               PROVE  Intact'
    BY DEF Intact
  <1> DEFINE w == Append(telegrams, [ga |-> h, value |-> v])
             c == [bus EXCEPT ![h] = v]
  <1>1. /\ bus' = c /\ telegrams' = w
        /\ UNCHANGED <<now, seq, batch, exported, net, buffer, reg, recorded, lost>>
    BY DEF Write, broker, server
  <1>2. Pipe' = Pipe /\ ~lost
    BY <1>1 DEF Pipe
  <1>3. TypeOK
    BY DEF Base
  <1>4. telegrams \in Seq([ga : Objects, value : Values]) /\ bus \in [Objects -> Values]
    BY <1>3 DEF TypeOK
  <1>5. [ga |-> h, value |-> v] \in [ga : Objects, value : Values]
    OBVIOUS
  <1>6. c[h] = v /\ \A g \in Objects : g # h => c[g] = bus[g]
    BY <1>4
  <1> HIDE DEF c, w
  <1>7. /\ Len(w) \in 1..Len(w) /\ w[Len(w)] = [ga |-> h, value |-> v]
        /\ \A i \in 1..Len(telegrams) : i \in 1..Len(w) /\ i < Len(w) /\ w[i] = telegrams[i]
        /\ \A i \in 1..Len(w) : i \in 1..Len(telegrams) \/ i = Len(w)
    BY <1>4, <1>5, AppendFact DEF w
  <1>8. w[Len(w)].ga = h /\ w[Len(w)].value = v
    BY <1>7
  <1>9. /\ Stream(recorded, Pipe, Numbered(batch), seq)
        /\ Timely(batch, Pipe, reg, now)
        /\ \A g \in Objects : Follows(g, bus[g], telegrams, batch, Pipe, reg[g])
        /\ exported => \A g \in Objects : Known(g, Pipe, reg[g])
    BY <1>2 DEF Intact
  <1>10. ASSUME NEW g \in Objects
         PROVE  Follows(g, c[g], w, batch, Pipe, reg[g])
    <2>1. CASE g = h
      <3>1. Queued(w, g)
        BY <1>7, <1>8, <2>1 DEF Queued
      <3>2. LastRight(w, g, c[g])
        <4> SUFFICES ASSUME NEW k \in 1..Len(w), w[k].ga = g, w[k].value # c[g]
                     PROVE  \E j \in 1..Len(w) : j > k /\ w[j].ga = g /\ w[j].value = c[g]
          BY DEF LastRight
        <4>1. k # Len(w)
          BY <1>6, <1>8, <2>1
        <4>2. k \in 1..Len(telegrams)
          BY <1>7, <4>1
        <4>3. Len(w) > k
          BY <1>7, <4>2
        <4>4. QED
          BY <1>6, <1>7, <1>8, <2>1, <4>3
      <3>3. QED
        BY <3>1, <3>2 DEF Follows
    <2>2. CASE g # h
      <3>1. Follows(g, bus[g], telegrams, batch, Pipe, reg[g]) /\ c[g] = bus[g]
        BY <1>6, <1>9, <2>2
      <3>2. Queued(telegrams, g) => Queued(w, g)
        BY <1>7 DEF Queued
      <3>3. LastRight(w, g, bus[g])
        <4> SUFFICES ASSUME NEW k \in 1..Len(w), w[k].ga = g, w[k].value # bus[g]
                     PROVE  \E j \in 1..Len(w) : j > k /\ w[j].ga = g /\ w[j].value = bus[g]
          BY DEF LastRight
        <4>1. k \in 1..Len(telegrams) /\ w[k] = telegrams[k]
          BY <1>7, <1>8, <2>2
        <4>2. PICK j \in 1..Len(telegrams) :
                j > k /\ telegrams[j].ga = g /\ telegrams[j].value = bus[g]
          BY <3>1, <4>1 DEF Follows, LastRight
        <4>3. QED
          BY <1>7, <4>2
      <3>4. QED
        BY <3>1, <3>2, <3>3 DEF Follows
    <2>3. QED
      BY <2>1, <2>2
  <1>11. QED
    BY <1>1, <1>2, <1>9, <1>10 DEF Intact

\* The buffer is published when the daemon is connected again: what was
\* buffered stays in the pipe.
LEMMA IntactConnected ==
  ASSUME Base, Intact, Connected
  PROVE  Intact'
  <1> SUFFICES ASSUME ~lost'
               PROVE  Intact'
    BY DEF Intact
  <1>1. PICK n \in 0..Len(buffer) :
          /\ net' = net \o SubSeq(InOrder, 1, n)
          /\ IF n = Len(buffer) THEN UNCHANGED <<lost, faults>>
             ELSE faults < MaxFaults /\ faults' = faults + 1 /\ lost' = TRUE
    BY DEF Connected
  <1>2. n = Len(buffer) /\ lost' = lost
    BY <1>1
  <1>3. TypeOK
    BY DEF Base
  <1>4. net \in Seq(Messages) /\ buffer \in Seq(Messages)
    BY <1>3 DEF TypeOK
  <1>5. net' = net \o buffer
    BY <1>1, <1>2, <1>4, PrefixFact DEF InOrder
  <1>6. net \o buffer \in Seq(Messages)
    BY <1>4, ConcatProperties
  <1>7. Pipe' = Pipe
    <2>1. Pipe' = (net \o buffer) \o <<>>
      BY <1>5 DEF Pipe, Connected
    <2>2. QED
      BY <1>6, <2>1, ConcatEmptySeq DEF Pipe
  <1>8. UNCHANGED <<bus, telegrams, now, seq, batch, exported, reg, recorded>>
    BY DEF Connected, server
  <1>9. QED
    BY <1>2, <1>7, <1>8, IntactSame

LEMMA IntactHandle ==
  ASSUME Base, Intact, HandleTelegram
  PROVE  Intact'
  <1> SUFFICES ASSUME ~lost'
               PROVE  Intact'
    BY DEF Intact
  <1> DEFINE t == Head(telegrams)
             u == Append(batch, [ga |-> t.ga, ts |-> now, value |-> t.value, seq |-> seq + 1])
             w == Tail(telegrams)
             n == seq + 1
  <1>1. /\ telegrams # <<>> /\ telegrams' = w /\ seq' = n
        /\ IF Len(u) >= BatchMax
             THEN batch' = <<>> /\ Publish(BatchMessages(u))
             ELSE batch' = u /\ UNCHANGED <<buffer, broker, lost, faults>>
        /\ bus' = bus /\ now' = now /\ exported' = exported /\ reg' = reg /\ recorded' = recorded
    BY DEF HandleTelegram, server
  <1>2. u \in Seq(Items)
    BY <1>1, TelegramFact
  <1>3. ~lost
    <2>1. CASE Len(u) >= BatchMax
      <3> DEFINE q == BatchMessages(u)
      <3>1. q = BatchMessages(u)
        OBVIOUS
      <3> HIDE DEF q, u
      <3>2. q \in Seq(Messages)
        BY <1>2, <3>1, BatchFact
      <3>3. Publish(q)
        BY <1>1, <2>1, <3>1
      <3>4. QED
        BY <3>2, <3>3, PublishFact
    <2>2. CASE ~(Len(u) >= BatchMax)
      BY <1>1, <2>2
    <2>3. QED
      BY <2>1, <2>2
  <1>4. /\ Stream(recorded, Pipe, Numbered(u), n)
        /\ Young(u, now)
        /\ \A g \in Objects : Follows(g, bus[g], w, u, Pipe, reg[g])
    BY <1>1, <1>3, HandleFact
  <1>5. Dated(Pipe, now) /\ Entered(reg, now)
    BY <1>3 DEF Intact, Timely
  <1>6. exported => \A g \in Objects : Known(g, Pipe, reg[g])
    BY <1>3 DEF Intact
  <1> HIDE DEF t, u, w, n
  <1>7. CASE Len(u) >= BatchMax
    <2>1. batch' = <<>> /\ Publish(BatchMessages(u))
      BY <1>1, <1>7
    <2>2. QED
      BY <1>1, <1>2, <1>4, <1>5, <1>6, <2>1, IntactFlush
  <1>8. CASE ~(Len(u) >= BatchMax)
    <2>1. batch' = u /\ Pipe' = Pipe
      BY <1>1, <1>8 DEF Pipe, broker
    <2>2. QED
      BY <1>1, <1>4, <1>5, <1>6, <2>1 DEF Intact, Timely
  <1>9. QED
    BY <1>7, <1>8

LEMMA IntactInit == Init => Intact
  <1> SUFFICES ASSUME Init
               PROVE  Intact
    OBVIOUS
  <1>1. /\ telegrams = <<>> /\ now = 1 /\ seq = 0 /\ batch = <<>> /\ Pipe = <<>>
        /\ ~exported /\ recorded = {} /\ \A g \in Objects : reg[g] = [ts |-> 0, value |-> "none"]
    BY DEF Init, Pipe, Nothing
  <1>2. /\ \A k : k \notin 1..Len(telegrams) /\ k \notin 1..Len(batch) /\ k \notin 1..Len(Pipe)
        /\ 1..seq = {}
    BY <1>1
  <1>3. EventsIn(Pipe) = {}
    BY <1>1 DEF EventsIn
  <1>4. Numbered(batch) = {}
    BY <1>2 DEF Numbered
  <1>5. Stream(recorded, Pipe, Numbered(batch), seq)
    BY <1>1, <1>2, <1>3, <1>4 DEF Stream, Below
  <1>6. Entered(reg, now)
    BY <1>1 DEF Entered
  <1>7. Timely(batch, Pipe, reg, now)
    BY <1>2, <1>6 DEF Timely, Young, Dated
  <1>8. \A g \in Objects : Follows(g, bus[g], telegrams, batch, Pipe, reg[g])
    BY <1>1, <1>2 DEF Follows, LastRight, Settled, Overtaken
  <1>9. QED
    BY <1>1, <1>5, <1>7, <1>8 DEF Intact

LEMMA IntactStep == Base /\ Intact /\ [Next]_vars => Intact'
  <1> SUFFICES ASSUME Base, Intact, [Next]_vars
               PROVE  Intact'
    OBVIOUS
  <1>1. ASSUME NEW g \in Objects, NEW v \in Values, Write(g, v)
        PROVE  Intact'
    BY <1>1, IntactWrite
  <1>2. CASE Tick
    <2>1. /\ Pipe' = Pipe /\ now' = now + 1
          /\ UNCHANGED <<bus, telegrams, seq, batch, exported, reg, recorded, lost>>
      BY <1>2 DEF Tick, Pipe, daemon, broker, server
    <2>2. QED
      BY <2>1, IntactSame
  <1>3. CASE HandleTelegram
    BY <1>3, IntactHandle
  <1>4. CASE DropTelegram
    BY <1>4 DEF DropTelegram, Intact
  <1>5. CASE FlushBatch
    <2> SUFFICES ASSUME ~lost'
                 PROVE  Intact'
      BY DEF Intact
    <2>1. /\ Publish(BatchMessages(batch)) /\ batch' = <<>>
          /\ UNCHANGED <<bus, telegrams, now, seq, exported, reg, recorded>>
      BY <1>5 DEF FlushBatch, server
    <2>2. batch \in Seq(Items)
      BY PipeFact
    <2> DEFINE q == BatchMessages(batch)
    <2>3. q = BatchMessages(batch)
      OBVIOUS
    <2> HIDE DEF q
    <2>4. q \in Seq(Messages) /\ Publish(q)
      BY <2>1, <2>2, <2>3, BatchFact
    <2>5. ~lost
      BY <2>4, PublishFact
    <2>6. /\ Stream(recorded, Pipe, Numbered(batch), seq)
          /\ Young(batch, now) /\ Dated(Pipe, now) /\ Entered(reg, now)
          /\ \A g \in Objects : Follows(g, bus[g], telegrams, batch, Pipe, reg[g])
          /\ exported => \A g \in Objects : Known(g, Pipe, reg[g])
      BY <2>5 DEF Intact, Timely
    <2>7. QED
      BY <2>1, <2>2, <2>6, IntactFlush
  <1>6. ASSUME ExportAll, UNCHANGED <<bus, telegrams, now, seq, batch, connected, server>>
        PROVE  Intact'
    <2>1. lost' => Intact'
      BY DEF Intact
    <2>2. QED
      BY <1>6, <2>1, IntactExport
  <1>7. CASE FirstExport
    <2>1. UNCHANGED <<bus, telegrams, now, seq, batch, connected, server>>
      BY <1>7 DEF FirstExport
    <2>2. CASE ExportAll
      BY <1>6, <2>1, <2>2
    <2>3. CASE ExportRaises
      <3>1. Pipe' = Pipe /\ UNCHANGED <<bus, telegrams, now, seq, batch, exported, reg, recorded, lost>>
        BY <2>1, <2>3 DEF ExportRaises, Pipe, broker, server
      <3>2. QED
        BY <3>1, IntactSame
    <2>4. QED
      BY <1>7, <2>2, <2>3 DEF FirstExport
  <1>8. CASE Snapshot
    BY <1>6, <1>8 DEF Snapshot
  <1>9. CASE ForceExport
    BY <1>6, <1>9 DEF ForceExport
  <1>10. CASE LinkBreaks
    <2>1. Pipe' = Pipe /\ UNCHANGED <<bus, telegrams, now, seq, batch, exported, reg, recorded, lost>>
      BY <1>10 DEF LinkBreaks, Pipe, daemon, server
    <2>2. QED
      BY <2>1, IntactSame
  <1>11. CASE Disconnected
    <2>1. Pipe' = Pipe /\ UNCHANGED <<bus, telegrams, now, seq, batch, exported, reg, recorded, lost>>
      BY <1>11 DEF Disconnected, Pipe, broker, server
    <2>2. QED
      BY <2>1, IntactSame
  <1>12. CASE Connected
    BY <1>12, IntactConnected
  <1>13. CASE Restart
    BY <1>13 DEF Restart, Intact
  <1>14. CASE Deliver
    BY <1>14, IntactDeliver
  <1>15. CASE DeliverFails
    BY <1>15 DEF DeliverFails, Intact
  <1>16. CASE ServerReconnects
    BY <1>16 DEF ServerReconnects, Intact
  <1>17. CASE UNCHANGED vars
    <2>1. Pipe' = Pipe /\ UNCHANGED <<bus, telegrams, now, seq, batch, exported, reg, recorded, lost>>
      BY <1>17 DEF vars, Pipe, daemon, broker, server
    <2>2. QED
      BY <2>1, IntactSame
  <1>18. QED
    BY <1>1, <1>2, <1>3, <1>4, <1>5, <1>7, <1>8, <1>9, <1>10, <1>11, <1>12, <1>13, <1>14, <1>15,
       <1>16, <1>17 DEF Next

LEMMA IntactInvariant == Spec => [](Base /\ Intact)
  <1>1. Init => Base /\ Intact
    BY InitBase, IntactInit
  <1>2. Base /\ Intact /\ [Next]_vars => Base' /\ Intact'
    BY BaseStep, IntactStep
  <1>3. QED
    BY <1>1, <1>2, PTL DEF Spec

\* While nothing is lost, the server's events table holds a prefix of the
\* telegrams the daemon handled, and with what is in the network, the buffer and
\* the batch all of them: handle_bus_event, flush_batch, do_pub and the buffer
\* that ON_CONNECT publishes keep them in order.
THEOREM EventsInOrderHolds == Spec => []EventsInOrder
  <1>1. Base /\ Intact => EventsInOrder
    <2> SUFFICES ASSUME Base, Intact, ~lost
                 PROVE  EventsInOrder
      BY DEF EventsInOrder
    <2>1. TypeOK
      BY DEF Base
    <2>2. net \in Seq(Messages) /\ buffer \in Seq(Messages) /\ batch \in Seq(Items) /\ seq \in Nat
      BY <2>1 DEF TypeOK
    <2>3. Stream(recorded, Pipe, Numbered(batch), seq)
      BY DEF Intact
    <2>4. recorded = 1..Cardinality(recorded)
      BY <2>2, <2>3, StreamRecorded
    <2>5. EventsIn(net) \cup EventsIn(buffer) = EventsIn(Pipe)
      <3>1. /\ Pipe \in Seq(Messages)
            /\ \A i \in 1..Len(net) : i \in 1..Len(Pipe) /\ Pipe[i] = net[i]
            /\ \A i \in 1..Len(buffer) : Len(net) + i \in 1..Len(Pipe) /\ Pipe[Len(net) + i] = buffer[i]
            /\ \A i \in 1..Len(Pipe) : \/ i \in 1..Len(net) /\ Pipe[i] = net[i]
                                       \/ /\ i > Len(net) /\ i - Len(net) \in 1..Len(buffer)
                                          /\ Pipe[i] = buffer[i - Len(net)]
        BY <2>2, JoinFact DEF Pipe
      <3>2. ASSUME NEW x
            PROVE  x \in EventsIn(net) \/ x \in EventsIn(buffer) <=> x \in EventsIn(Pipe)
        <4>1. x \in EventsIn(net) <=> \E j \in 1..Len(net) : x \in Numbers(net[j])
          BY <2>2, EventsFact
        <4>2. x \in EventsIn(buffer) <=> \E j \in 1..Len(buffer) : x \in Numbers(buffer[j])
          BY <2>2, EventsFact
        <4>3. x \in EventsIn(Pipe) <=> \E j \in 1..Len(Pipe) : x \in Numbers(Pipe[j])
          BY <3>1, EventsFact
        <4>4. QED
          BY <3>1, <4>1, <4>2, <4>3
      <3>3. QED
        BY <3>2
    <2>6. {batch[k].seq : k \in DOMAIN batch} = Numbered(batch)
      <3>1. DOMAIN batch = 1..Len(batch)
        BY <2>2
      <3>2. QED
        BY <3>1 DEF Numbered
    <2>7. recorded \cup EventsIn(Pipe) \cup Numbered(batch) = 1..seq
      BY <2>3 DEF Stream
    <2>8. QED
      BY <2>4, <2>5, <2>6, <2>7 DEF EventsInOrder
  <1>2. QED
    BY <1>1, IntactInvariant, PTL

\* When nothing was lost, nothing is under way and an export was completed, the
\* server's current values are those on the bus, however the states of batches,
\* of snapshots and of the first export (publish_meta) overtook each other.
THEOREM QuietAgreesHolds == Spec => []QuietAgrees
  <1>1. Base /\ Intact => QuietAgrees
    <2> SUFFICES ASSUME Base, Intact, ~lost, Quiet, exported, NEW g \in Objects
                 PROVE  reg[g].value = bus[g]
      BY DEF QuietAgrees
    <2>1. telegrams = <<>> /\ batch = <<>> /\ Pipe = <<>>
      BY DEF Quiet, Pipe
    <2>2. \A k : k \notin 1..Len(telegrams) /\ k \notin 1..Len(batch) /\ k \notin 1..Len(Pipe)
      BY <2>1
    <2>3. Follows(g, bus[g], telegrams, batch, Pipe, reg[g]) /\ Known(g, Pipe, reg[g])
      BY DEF Intact
    <2>4. reg[g].value # "none"
      BY <2>2, <2>3 DEF Known
    <2>5. Settled(g, bus[g], batch, Pipe, reg[g])
      BY <2>2, <2>3 DEF Follows, Queued
    <2>6. QED
      BY <2>2, <2>4, <2>5 DEF Settled, Later, Ahead
  <1>2. QED
    BY <1>1, IntactInvariant, PTL
=============================================================================
