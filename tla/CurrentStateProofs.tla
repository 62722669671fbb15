------------------------- MODULE CurrentStateProofs -------------------------
(***************************************************************************)
(* Proofs about CurrentState for any addresses, messages and number of     *)
(* faults: type correctness, one row per address, newest wins in both      *)
(* stores, agreement of the stores and of the two tables, and that the     *)
(* database implements the register NewestWins.                            *)
(***************************************************************************)
EXTENDS CurrentState, TLAPS

\* A table of current values.
Table(t) ==
  /\ t \in [Keys -> Rows]
  /\ \A k \in Keys : Present(t[k]) \/ t[k] = NoRow
  /\ \A g \in Objects : ~(Present(t[Slash(g)]) /\ Present(t[Dash(g)]))

\* Every recorded event has one row; where one with a value is recorded, there is
\* a value that is not older.
Matches(l, t) ==
  \A i \in EventItems :
    /\ l[EventId(i)] \in {0, 1}
    /\ l[EventId(i)] = 1 /\ CarriesValue(i) =>
         Present(Stored(t, i.ga)) /\ Stored(t, i.ga).ts >= i.ts

\* An item that changes the table.
Takes(t, i) == CarriesValue(i) /\ Applies(t, i)

RowOf(i) == [ts |-> i.ts, value |-> i.value]

\* The address whose value is applied but not yet written to Redis.
Pending(g) == work.pc \in {"cache", "commit"} /\ Head(work.todo).ga = g

\* The message being handled and the session.
Handling ==
  /\ work.pc = "idle" => work.kind = "state"
  /\ work.pc \in {"cache", "commit"} =>
       /\ work.todo # <<>> /\ CarriesValue(Head(work.todo))
       /\ Stored(mine, Head(work.todo).ga) = RowOf(Head(work.todo))
  /\ work.kind # "events" => \A k \in DOMAIN work.todo : CarriesValue(work.todo[k])
  /\ work.kind = "events" => \A k \in DOMAIN work.todo : work.todo[k] \in EventItems
  /\ work.kind = "state" /\ work.pc # "commit" => mine = db
  /\ \A g \in Objects : Stored(mine, g).ts >= Stored(db, g).ts

\* The mirror is ahead of a table only by what is open or was rolled back.
Ahead ==
  \A g \in Objects :
    /\ cache[Dash(g)].ts > Stored(mine, g).ts => "rolled back" \in gap[g]
    /\ cache[Dash(g)].ts > Stored(db, g).ts =>
         "rolled back" \in gap[g] \/ "uncommitted" \in gap[g]

\* Where no fault explains a difference, the mirror is what the session sees.
Mirror ==
  \A g \in Objects :
    /\ "uncommitted" \in gap[g] => work.kind # "state"
    /\ gap[g] \subseteq {"uncommitted"} /\ ~Pending(g) =>
         cache[Dash(g)] = Stored(mine, g) /\ Present(cache[Dash(g)])
    /\ gap[g] = {} => cache[Dash(g)] = Stored(db, g) /\ Present(cache[Dash(g)])

IInv ==
  /\ TypeOK
  /\ Table(db) /\ Table(mine)
  /\ Handling
  /\ Ahead
  /\ Mirror
  /\ Matches(events, db) /\ Matches(logged, mine)

-----------------------------------------------------------------------------
LEMMA KeyFact ==
  ASSUME NEW g \in Objects
  PROVE  /\ Dash(g) \in Keys /\ Slash(g) \in Keys
         /\ Dash(g) # Slash(g)
         /\ \A h \in Objects : /\ Dash(h) = Dash(g) => h = g
                               /\ Slash(h) = Slash(g) => h = g
                               /\ Dash(h) # Slash(g)
  BY DEF Keys, Spellings, Dash, Slash

LEMMA NoRowFact == NoRow \in Rows /\ ~Present(NoRow) /\ NoRow.ts = 0
  BY DEF NoRow, Rows, Present

LEMMA StoredFact ==
  ASSUME NEW t, Table(t), NEW g \in Objects
  PROVE  Stored(t, g) \in Rows /\ Stored(t, g).ts \in Nat
  BY KeyFact DEF Table, Stored, Found, Rows

LEMMA RowOfFact ==
  ASSUME NEW i \in Items
  PROVE  /\ RowOf(i) \in Rows /\ RowOf(i).ts = i.ts /\ i.ts \in Nat
         /\ CarriesValue(i) => Present(RowOf(i))
  BY StateConstants DEF RowOf, Items, Rows, Present, CarriesValue

\* An item that applies moves its address's row, and no other, forward.
LEMMA UpsertedFact ==
  ASSUME NEW t, Table(t), NEW i \in Items, Takes(t, i)
  PROVE  /\ Table(Upserted(t, i))
         /\ Stored(Upserted(t, i), i.ga) = RowOf(i)
         /\ RowOf(i).ts >= Stored(t, i.ga).ts
         /\ \A g \in Objects \ {i.ga} : Stored(Upserted(t, i), g) = Stored(t, g)
  <1> DEFINE u == Upserted(t, i)
  <1>1. i.ga \in Objects /\ Applies(t, i) /\ Present(RowOf(i))
    BY RowOfFact DEF Items, Takes
  <1>2. Found(t, i.ga) \in {Dash(i.ga), Slash(i.ga)}
    BY DEF Found
  <1>3. u = [k \in Keys |-> IF k = Dash(i.ga) THEN RowOf(i)
                            ELSE IF k = Found(t, i.ga) THEN NoRow ELSE t[k]]
    BY <1>1, <1>2, KeyFact DEF Table, Upserted, RowOf
  <1>4. u[Dash(i.ga)] = RowOf(i) /\ ~Present(u[Slash(i.ga)])
    <2>1. u[Dash(i.ga)] = RowOf(i)
      BY <1>1, <1>3, KeyFact
    <2>2. CASE Found(t, i.ga) = Slash(i.ga)
      BY <1>1, <1>3, <2>1, <2>2, KeyFact, NoRowFact
    <2>3. CASE Found(t, i.ga) = Dash(i.ga)
      <3>1. ~Present(t[Slash(i.ga)])
        BY <1>1, <2>3, KeyFact DEF Found, Table
      <3>2. u[Slash(i.ga)] = t[Slash(i.ga)]
        BY <1>1, <1>3, <2>3, KeyFact
      <3>3. QED
        BY <2>1, <3>1, <3>2
    <2>4. QED
      BY <1>2, <2>2, <2>3
  <1>5. ASSUME NEW g \in Objects \ {i.ga}
        PROVE  u[Dash(g)] = t[Dash(g)] /\ u[Slash(g)] = t[Slash(g)]
    BY <1>1, <1>2, <1>3, <1>5, KeyFact
  <1>6. Table(u)
    <2>1. u \in [Keys -> Rows]
      BY <1>3, RowOfFact, NoRowFact DEF Table
    <2>2. \A k \in Keys : Present(u[k]) \/ u[k] = NoRow
      BY <1>1, <1>3, RowOfFact DEF Table
    <2>3. \A g \in Objects : ~(Present(u[Slash(g)]) /\ Present(u[Dash(g)]))
      BY <1>4, <1>5 DEF Table
    <2>4. QED
      BY <2>1, <2>2, <2>3 DEF Table
  <1>7. Stored(u, i.ga) = RowOf(i)
    BY <1>4 DEF Stored, Found
  <1>8. \A g \in Objects \ {i.ga} : Stored(u, g) = Stored(t, g)
    BY <1>5 DEF Stored, Found
  <1>9. RowOf(i).ts >= Stored(t, i.ga).ts
    <2>1. CASE Present(Stored(t, i.ga))
      BY <1>1, <2>1, RowOfFact DEF Applies, Stored
    <2>2. CASE ~Present(Stored(t, i.ga))
      <3>1. Stored(t, i.ga) = NoRow
        BY <1>1, <1>2, <2>2, KeyFact DEF Table, Stored
      <3>2. QED
        BY <3>1, NoRowFact, RowOfFact
    <2>3. QED
      BY <2>1, <2>2
  <1>10. QED
    BY <1>6, <1>7, <1>8, <1>9

\* An item that does not apply meets a value that is not older.
LEMMA RefusedFact ==
  ASSUME NEW t, Table(t), NEW i \in Items, ~Applies(t, i)
  PROVE  Present(Stored(t, i.ga)) /\ Stored(t, i.ga).ts >= i.ts
  <1>1. i.ga \in Objects /\ i.ts \in Nat
    BY DEF Items
  <1>2. Stored(t, i.ga).ts \in Nat
    BY <1>1, StoredFact
  <1>3. QED
    BY <1>1, <1>2 DEF Applies, Stored

-----------------------------------------------------------------------------
LEMMA EventItemsFact == EventItems \subseteq Items
  <1>1. ASSUME NEW p \in Payloads, NEW k \in DOMAIN p.items
        PROVE  p.items[k] \in Items
    BY <1>1, StateConstants
  <1>2. QED
    BY <1>1 DEF EventItems

LEMMA InsertedFact ==
  ASSUME NEW l \in [EventIds -> Nat], NEW i \in EventItems
  PROVE  /\ Inserted(l, i) \in [EventIds -> Nat]
         /\ Inserted(l, i)[EventId(i)] = 1
         /\ \A j \in EventItems : EventId(j) # EventId(i) =>
              Inserted(l, i)[EventId(j)] = l[EventId(j)]
  BY DEF Inserted, EventIds

\* Rows that only move forward still match.
LEMMA MatchesForward ==
  ASSUME NEW l, NEW t, Table(t), Matches(l, t), NEW u, Table(u),
         \A g \in Objects : /\ Stored(u, g).ts >= Stored(t, g).ts
                            /\ Present(Stored(t, g)) => Present(Stored(u, g))
  PROVE  Matches(l, u)
  <1> SUFFICES ASSUME NEW i \in EventItems
               PROVE  /\ l[EventId(i)] \in {0, 1}
                      /\ l[EventId(i)] = 1 /\ CarriesValue(i) =>
                           Present(Stored(u, i.ga)) /\ Stored(u, i.ga).ts >= i.ts
    BY DEF Matches
  <1>1. i.ga \in Objects /\ i.ts \in Nat
    BY EventItemsFact DEF Items
  <1>2. Stored(t, i.ga).ts \in Nat /\ Stored(u, i.ga).ts \in Nat
    BY <1>1, StoredFact
  <1>3. QED
    BY <1>1, <1>2 DEF Matches

\* The initial states satisfy the invariant.
LEMMA InitInvariant == Init => IInv
  <1> SUFFICES ASSUME Init
               PROVE  IInv
    OBVIOUS
  <1>1. PICK old \in UNION {[S -> Spellings] : S \in SUBSET Legacy}, v \in Values :
          db = [k \in Keys |-> IF k[2] \in DOMAIN old /\ k[1] = old[k[2]]
                                 THEN [ts |-> LegacyTime, value |-> v] ELSE NoRow]
    BY DEF Init
  <1> DEFINE first == [ts |-> LegacyTime, value |-> v]
  <1>2. first \in Rows
    BY StateConstants DEF Rows
  <1>3. db \in [Keys -> Rows]
    BY <1>1, <1>2, NoRowFact
  <1>4. \A k \in Keys : Present(db[k]) \/ db[k] = NoRow
    BY <1>1, StateConstants DEF Present
  <1>5. \A g \in Objects : ~(Present(db[Slash(g)]) /\ Present(db[Dash(g)]))
    <2> SUFFICES ASSUME NEW g \in Objects
                 PROVE  db[Slash(g)] = NoRow \/ db[Dash(g)] = NoRow
      BY NoRowFact
    <2>1. Slash(g)[1] = "slash" /\ Dash(g)[1] = "dash" /\ Slash(g)[2] = g /\ Dash(g)[2] = g
      BY DEF Slash, Dash
    <2>2. QED
      BY <1>1, <2>1, KeyFact
  <1>6. Table(db)
    BY <1>3, <1>4, <1>5 DEF Table
  <1>7. mine = db /\ logged = events /\ work = Idle
    BY DEF Init
  <1>8. \A k \in Keys : cache[k] = NoRow
    BY DEF Init
  <1>9. TypeOK
    <2>1. cache \in [Keys -> Rows]
      BY NoRowFact DEF Init
    <2>2. work \in [pc : {"idle", "item", "cache", "commit"}, kind : Kinds, todo : Seq(Items)]
      BY <1>7 DEF Idle, Kinds
    <2>3. QED
      BY <1>3, <1>7, <2>1, <2>2 DEF Init, TypeOK, Gaps
  <1>10. Handling
    <2>1. \A g \in Objects : Stored(db, g).ts >= Stored(db, g).ts
      BY <1>6, StoredFact
    <2>2. QED
      BY <1>7, <2>1 DEF Handling, Idle
  <1>11. Ahead
    <2>1. \A g \in Objects : ~(cache[Dash(g)].ts > Stored(db, g).ts)
      BY <1>6, <1>8, StoredFact, KeyFact, NoRowFact
    <2>2. QED
      BY <1>7, <2>1 DEF Ahead
  <1>12. Mirror
    BY DEF Init, Mirror
  <1>13. Matches(events, db)
    BY DEF Init, Matches, EventIds
  <1>14. QED
    BY <1>6, <1>7, <1>9, <1>10, <1>11, <1>12, <1>13 DEF IInv

LEMMA ReceiveInvariant ==
  ASSUME IInv, NEW p \in Payloads, Receive(p)
  PROVE  IInv'
  <1> USE DEF Receive
  <1>1. p.kind \in Kinds /\ p.items \in Seq(Items)
    BY StateConstants
  <1>2. work.kind = "state" /\ mine = db
    BY DEF IInv, Handling
  <1>3. TypeOK'
    BY <1>1 DEF IInv, TypeOK
  <1>4. Handling'
    <2>1. \A g \in Objects : Stored(db, g).ts >= Stored(db, g).ts
      BY StoredFact DEF IInv
    <2>2. p.kind = "events" => \A k \in DOMAIN p.items : p.items[k] \in EventItems
      BY DEF EventItems
    <2>3. p.kind # "events" => \A k \in DOMAIN p.items : CarriesValue(p.items[k])
      BY StateConstants
    <2>4. QED
      BY <2>1, <2>2, <2>3 DEF Handling
  <1>5. Ahead'
    BY <1>2 DEF IInv, Ahead
  <1>6. Mirror'
    BY <1>2 DEF IInv, Mirror, Pending
  <1>7. QED
    BY <1>3, <1>4, <1>5, <1>6 DEF IInv

LEMMA NextItemFact ==
  ASSUME TypeOK, Handling, work.todo # <<>>
  PROVE  /\ NextItem(work).pc \in {"idle", "item"} /\ NextItem(work).kind = work.kind
         /\ NextItem(work).pc = "idle" => work.kind = "state"
         /\ NextItem(work) \in [pc : {"idle", "item", "cache", "commit"}, kind : Kinds,
                                todo : Seq(Items)]
         /\ work.kind = "events" =>
              \A k \in DOMAIN NextItem(work).todo : NextItem(work).todo[k] \in EventItems
         /\ work.kind # "events" =>
              \A k \in DOMAIN NextItem(work).todo : CarriesValue(NextItem(work).todo[k])
  <1>1. CASE work.kind = "state"
    <2>1. NextItem(work) = Idle
      BY <1>1 DEF NextItem
    <2>2. QED
      BY <1>1, <2>1 DEF Idle, Kinds
  <1>2. CASE work.kind # "state"
    <2>1. work.todo \in Seq(Items) /\ Tail(work.todo) \in Seq(Items)
      BY DEF TypeOK
    <2>2. NextItem(work) = [work EXCEPT !.pc = "item", !.todo = Tail(@)]
      BY <1>2 DEF NextItem
    <2>3. /\ work.kind = "events" =>
                 \A k \in DOMAIN Tail(work.todo) : Tail(work.todo)[k] \in EventItems
          /\ work.kind # "events" =>
                 \A k \in DOMAIN Tail(work.todo) : CarriesValue(Tail(work.todo)[k])
      BY <2>1 DEF Handling
    <2>4. QED
      BY <1>2, <2>1, <2>2, <2>3 DEF TypeOK
  <1>3. QED
    BY <1>1, <1>2

\* A state or an event is handled: one with a value that is not older changes
\* the table, any other is passed over.
LEMMA HandleFact ==
  ASSUME IInv, HandleState \/ HandleEvent
  PROVE  LET i == Head(work.todo) IN
         /\ work.pc = "item" /\ work.todo # <<>> /\ UNCHANGED <<db, events, cache, gap, faults>>
         /\ logged' = IF work.kind = "events" THEN Inserted(logged, i) ELSE logged
         /\ Takes(mine, i) =>
              /\ mine' = Upserted(mine, i)
              /\ work' = [work EXCEPT !.pc = IF work.kind = "state" THEN "commit" ELSE "cache"]
         /\ ~Takes(mine, i) => mine' = mine /\ work' = NextItem(work)
         /\ work.kind # "events" => CarriesValue(i)
  <1> DEFINE i == Head(work.todo)
  <1>1. work.todo # <<>> /\ work.todo \in Seq(Items)
    BY DEF HandleState, HandleEvent, IInv, TypeOK
  <1>2. 1 \in DOMAIN work.todo /\ i = work.todo[1]
    BY <1>1
  <1>3. work.kind # "events" => CarriesValue(i)
    BY <1>2 DEF IInv, Handling
  <1>4. CASE HandleState
    <2>1. CASE Applies(mine, i)
      BY <1>3, <1>4, <2>1 DEF HandleState, Upsert, Takes
    <2>2. CASE ~Applies(mine, i)
      BY <1>3, <1>4, <2>2 DEF HandleState, Upsert, Takes
    <2>3. QED
      BY <2>1, <2>2
  <1>5. CASE HandleEvent
    <2>1. CASE Takes(mine, i)
      BY <1>3, <1>5, <2>1 DEF HandleEvent, Upsert, Takes
    <2>2. CASE ~Takes(mine, i)
      BY <1>3, <1>5, <2>2 DEF HandleEvent, Upsert, Takes
    <2>3. QED
      BY <2>1, <2>2
  <1>6. QED
    BY <1>4, <1>5

LEMMA HandleInvariant ==
  ASSUME IInv, HandleState \/ HandleEvent
  PROVE  IInv'
  <1> DEFINE i == Head(work.todo)
  <1>1. work.pc = "item" /\ work.todo # <<>> /\ UNCHANGED <<db, events, cache, gap, faults>>
    BY HandleFact
  <1>2. i \in Items /\ Tail(work.todo) \in Seq(Items) /\ i.ga \in Objects
    <2>1. work.todo \in Seq(Items)
      BY DEF IInv, TypeOK
    <2>2. i \in Items /\ Tail(work.todo) \in Seq(Items)
      BY <1>1, <2>1
    <2>3. QED
      BY <2>2 DEF Items
  <1>3. logged' = IF work.kind = "events" THEN Inserted(logged, i) ELSE logged
    BY HandleFact
  <1>4. work.kind = "events" => i \in EventItems
    BY <1>1 DEF IInv, Handling, TypeOK
  <1>5. logged' \in [EventIds -> Nat]
    BY <1>3, <1>4, InsertedFact DEF IInv, TypeOK
  <1>6. work.kind = "state" => mine = db
    BY <1>1 DEF IInv, Handling
  <1>7. Table(mine) /\ Table(db)
    BY DEF IInv
  <1>8. \A g \in Objects : Stored(mine, g).ts \in Nat /\ Stored(db, g).ts \in Nat
                           /\ cache[Dash(g)].ts \in Nat
    BY <1>7, StoredFact, KeyFact DEF IInv, TypeOK, Rows
  <1>9. logged \in [EventIds -> Nat]
    BY DEF IInv, TypeOK
  <1>10. CASE Takes(mine, i)
    <2>1. /\ mine' = Upserted(mine, i)
          /\ work' = [work EXCEPT !.pc = IF work.kind = "state" THEN "commit" ELSE "cache"]
      BY <1>10, HandleFact
    <2>2. /\ work'.pc \in {"cache", "commit"} /\ work'.kind = work.kind
          /\ work'.todo = work.todo
          /\ work.kind = "state" => work'.pc = "commit"
          /\ work' \in [pc : {"idle", "item", "cache", "commit"}, kind : Kinds, todo : Seq(Items)]
      BY <2>1 DEF IInv, TypeOK
    <2>3. /\ Table(mine')
          /\ Stored(mine', i.ga) = RowOf(i)
          /\ RowOf(i).ts >= Stored(mine, i.ga).ts
          /\ \A g \in Objects \ {i.ga} : Stored(mine', g) = Stored(mine, g)
      BY <1>2, <1>7, <1>10, <2>1, UpsertedFact
    <2>4. \A g \in Objects : Stored(mine', g).ts >= Stored(mine, g).ts
      BY <1>8, <2>3
    <2>5. TypeOK'
      BY <1>1, <1>5, <2>2, <2>3 DEF IInv, TypeOK, Table
    <2>6. Handling'
      <3>1. \A g \in Objects : Stored(mine', g).ts >= Stored(db, g).ts
        BY <1>2, <1>8, <2>3, <2>4, StoredFact DEF IInv, Handling
      <3>2. QED
        BY <1>1, <1>10, <2>2, <2>3, <3>1 DEF IInv, Handling, Takes
    <2>7. Ahead'
      <3>1. \A g \in Objects : Stored(mine', g).ts \in Nat
        BY <2>3, StoredFact
      <3> SUFFICES ASSUME NEW g \in Objects
                   PROVE  /\ cache[Dash(g)].ts > Stored(mine', g).ts => "rolled back" \in gap[g]
                          /\ cache[Dash(g)].ts > Stored(db, g).ts =>
                               "rolled back" \in gap[g] \/ "uncommitted" \in gap[g]
        BY <1>1 DEF Ahead
      <3>2. cache[Dash(g)].ts > Stored(mine', g).ts => cache[Dash(g)].ts > Stored(mine, g).ts
        BY <1>8, <2>4, <3>1
      <3>3. QED
        BY <3>2 DEF IInv, Ahead
    <2>8. Mirror'
      BY <1>1, <2>2, <2>3 DEF IInv, Mirror, Pending
    <2>9. Matches(logged', mine')
      <3>1. Matches(logged, mine')
        <4>1. \A g \in Objects : Present(Stored(mine, g)) => Present(Stored(mine', g))
          BY <1>2, <1>10, <2>3, RowOfFact DEF Takes
        <4>2. QED
          BY <1>7, <2>3, <2>4, <4>1, MatchesForward DEF IInv
      <3>2. CASE work.kind # "events"
        BY <1>3, <3>1, <3>2
      <3>3. CASE work.kind = "events"
        <4>1. i \in EventItems /\ logged' = Inserted(logged, i)
          BY <1>3, <1>4, <3>3
        <4>2. Present(Stored(mine', i.ga)) /\ Stored(mine', i.ga).ts = i.ts /\ i.ts \in Nat
          BY <1>2, <1>10, <2>3, RowOfFact DEF Takes
        <4>3. QED
          <5> SUFFICES ASSUME NEW j \in EventItems
                       PROVE  /\ logged'[EventId(j)] \in {0, 1}
                              /\ logged'[EventId(j)] = 1 /\ CarriesValue(j) =>
                                   Present(Stored(mine', j.ga)) /\ Stored(mine', j.ga).ts >= j.ts
            BY DEF Matches
          <5>1. CASE EventId(j) = EventId(i)
            <6>1. j = i
              BY <4>1, <5>1, EventsAreNumbered
            <6>2. QED
              BY <1>9, <4>1, <4>2, <5>1, <6>1, InsertedFact
          <5>2. CASE EventId(j) # EventId(i)
            BY <1>9, <3>1, <4>1, <5>2, InsertedFact DEF Matches
          <5>3. QED
            BY <5>1, <5>2
      <3>4. QED
        BY <3>2, <3>3
    <2>10. QED
      BY <1>1, <1>7, <2>3, <2>5, <2>6, <2>7, <2>8, <2>9 DEF IInv
  <1>11. CASE ~Takes(mine, i)
    <2>1. mine' = mine /\ work' = NextItem(work)
      BY <1>11, HandleFact
    <2>2. /\ work'.pc \in {"idle", "item"} /\ work'.kind = work.kind
          /\ work'.pc = "idle" => work.kind = "state"
          /\ work' \in [pc : {"idle", "item", "cache", "commit"}, kind : Kinds, todo : Seq(Items)]
          /\ work.kind = "events" => \A k \in DOMAIN work'.todo : work'.todo[k] \in EventItems
          /\ work.kind # "events" => \A k \in DOMAIN work'.todo : CarriesValue(work'.todo[k])
      BY <1>1, <2>1, NextItemFact DEF IInv
    <2>3. TypeOK'
      BY <1>1, <1>5, <2>1, <2>2 DEF IInv, TypeOK
    <2>4. Handling'
      BY <1>1, <1>6, <2>1, <2>2 DEF IInv, Handling
    <2>5. Ahead' /\ Mirror'
      BY <1>1, <2>1, <2>2 DEF IInv, Ahead, Mirror, Pending
    <2>6. Matches(logged', mine)
      <3>1. CASE work.kind # "events"
        BY <1>3, <3>1 DEF IInv
      <3>2. CASE work.kind = "events"
        <4>1. i \in EventItems /\ logged' = Inserted(logged, i)
          BY <1>3, <1>4, <3>2
        <4>2. CarriesValue(i) => Present(Stored(mine, i.ga)) /\ Stored(mine, i.ga).ts >= i.ts
          BY <1>2, <1>7, <1>11, RefusedFact DEF Takes
        <4>3. QED
          <5> SUFFICES ASSUME NEW j \in EventItems
                       PROVE  /\ logged'[EventId(j)] \in {0, 1}
                              /\ logged'[EventId(j)] = 1 /\ CarriesValue(j) =>
                                   Present(Stored(mine, j.ga)) /\ Stored(mine, j.ga).ts >= j.ts
            BY DEF Matches
          <5>1. CASE EventId(j) = EventId(i)
            <6>1. j = i
              BY <4>1, <5>1, EventsAreNumbered
            <6>2. QED
              BY <1>9, <4>1, <4>2, <5>1, <6>1, InsertedFact
          <5>2. CASE EventId(j) # EventId(i)
            BY <1>9, <4>1, <5>2, InsertedFact DEF IInv, Matches
          <5>3. QED
            BY <5>1, <5>2
      <3>3. QED
        BY <3>1, <3>2
    <2>7. QED
      BY <1>1, <2>1, <2>3, <2>4, <2>5, <2>6 DEF IInv
  <1>12. QED
    BY <1>10, <1>11

LEMMA CommonFact ==
  ASSUME IInv
  PROVE  /\ \A g \in Objects : /\ Stored(mine, g).ts \in Nat /\ Stored(db, g).ts \in Nat
                               /\ cache[Dash(g)].ts \in Nat
         /\ work.pc \in {"cache", "commit"} =>
              /\ Head(work.todo) \in Items /\ Head(work.todo).ga \in Objects
              /\ work.todo # <<>> /\ CarriesValue(Head(work.todo))
              /\ Stored(mine, Head(work.todo).ga) = RowOf(Head(work.todo))
  <1>1. \A g \in Objects : /\ Stored(mine, g).ts \in Nat /\ Stored(db, g).ts \in Nat
                           /\ cache[Dash(g)].ts \in Nat
    BY StoredFact, KeyFact DEF IInv, TypeOK, Rows
  <1>2. ASSUME work.pc \in {"cache", "commit"}
        PROVE  /\ Head(work.todo) \in Items /\ Head(work.todo).ga \in Objects
               /\ work.todo # <<>> /\ CarriesValue(Head(work.todo))
               /\ Stored(mine, Head(work.todo).ga) = RowOf(Head(work.todo))
    <2>1. work.todo \in Seq(Items)
      BY DEF IInv, TypeOK
    <2>2. /\ work.todo # <<>> /\ CarriesValue(Head(work.todo))
          /\ Stored(mine, Head(work.todo).ga) = RowOf(Head(work.todo))
      BY <1>2 DEF IInv, Handling
    <2>3. Head(work.todo) \in Items
      BY <2>1, <2>2
    <2>4. QED
      BY <2>2, <2>3 DEF Items
  <1>3. QED
    BY <1>1, <1>2

LEMMA WriteCacheInvariant ==
  ASSUME IInv, WriteCache
  PROVE  IInv'
  <1> DEFINE i == Head(work.todo)
  <1>1. /\ work.pc = "cache" /\ work' = NextItem(work)
        /\ UNCHANGED <<db, events, mine, logged, faults>>
    BY DEF WriteCache
  <1>2. /\ i \in Items /\ i.ga \in Objects /\ work.todo # <<>> /\ Stored(mine, i.ga) = RowOf(i)
        /\ CarriesValue(i)
    BY <1>1, CommonFact
  <1>3. /\ work'.pc \in {"idle", "item"} /\ work'.kind = work.kind
        /\ work'.pc = "idle" => work.kind = "state"
        /\ work' \in [pc : {"idle", "item", "cache", "commit"}, kind : Kinds, todo : Seq(Items)]
        /\ work.kind = "events" => \A k \in DOMAIN work'.todo : work'.todo[k] \in EventItems
        /\ work.kind # "events" => \A k \in DOMAIN work'.todo : CarriesValue(work'.todo[k])
    BY <1>1, <1>2, NextItemFact DEF IInv
  <1>4. /\ cache' \in [Keys -> Rows]
        /\ cache'[Dash(i.ga)] = RowOf(i)
        /\ \A g \in Objects \ {i.ga} : cache'[Dash(g)] = cache[Dash(g)]
    <2>1. cache' = [cache EXCEPT ![Dash(i.ga)] = RowOf(i)]
      BY DEF WriteCache, Field, RowOf
    <2>2. QED
      BY <1>2, <2>1, KeyFact, RowOfFact DEF IInv, TypeOK
  <1>5. /\ gap' \in [Objects -> SUBSET Gaps]
        /\ gap'[i.ga] = IF work.kind = "state" THEN {} ELSE {"uncommitted"}
        /\ \A g \in Objects \ {i.ga} : gap'[g] = gap[g]
    <2>1. gap' = [gap EXCEPT ![i.ga] = IF work.kind = "state" THEN {} ELSE {"uncommitted"}]
      BY DEF WriteCache
    <2>2. QED
      BY <1>2, <2>1 DEF IInv, TypeOK, Gaps
  <1>6. work.kind = "state" => mine = db
    BY <1>1 DEF IInv, Handling
  <1>7. TypeOK'
    BY <1>1, <1>3, <1>4, <1>5 DEF IInv, TypeOK
  <1>8. Handling'
    BY <1>1, <1>3, <1>6 DEF IInv, Handling
  <1>9. Ahead'
    <2>1. ~(cache'[Dash(i.ga)].ts > Stored(mine, i.ga).ts)
      BY <1>2, <1>4, RowOfFact
    <2>2. \A g \in Objects \ {i.ga} :
            /\ cache'[Dash(g)].ts > Stored(mine, g).ts => "rolled back" \in gap'[g]
            /\ cache'[Dash(g)].ts > Stored(db, g).ts =>
                 "rolled back" \in gap'[g] \/ "uncommitted" \in gap'[g]
      BY <1>4, <1>5 DEF IInv, Ahead
    <2>3. cache'[Dash(i.ga)].ts > Stored(db, i.ga).ts => "uncommitted" \in gap'[i.ga]
      BY <1>5, <1>6, <2>1
    <2>4. QED
      BY <1>1, <2>1, <2>2, <2>3 DEF Ahead
  <1>10. Mirror'
    <2> SUFFICES ASSUME NEW g \in Objects
                 PROVE  /\ "uncommitted" \in gap'[g] => work.kind # "state"
                        /\ gap'[g] \subseteq {"uncommitted"} =>
                             cache'[Dash(g)] = Stored(mine, g) /\ Present(cache'[Dash(g)])
                        /\ gap'[g] = {} =>
                             cache'[Dash(g)] = Stored(db, g) /\ Present(cache'[Dash(g)])
      BY <1>1, <1>3 DEF Mirror, Pending
    <2>1. CASE g = i.ga
      BY <1>2, <1>4, <1>5, <1>6, <2>1, RowOfFact
    <2>2. CASE g # i.ga
      BY <1>2, <1>4, <1>5, <2>2 DEF IInv, Mirror, Pending
    <2>3. QED
      BY <2>1, <2>2
  <1>11. QED
    BY <1>1, <1>7, <1>8, <1>9, <1>10 DEF IInv

LEMMA WriteCacheFailsInvariant ==
  ASSUME IInv, WriteCacheFails
  PROVE  IInv'
  <1> DEFINE i == Head(work.todo)
  <1>1. /\ work.pc = "cache" /\ work' = NextItem(work) /\ faults' = faults + 1
        /\ UNCHANGED <<db, events, cache, mine, logged>>
    BY DEF WriteCacheFails
  <1>2. i.ga \in Objects /\ work.todo # <<>>
    BY <1>1, CommonFact
  <1>3. /\ work'.pc \in {"idle", "item"} /\ work'.kind = work.kind
        /\ work'.pc = "idle" => work.kind = "state"
        /\ work' \in [pc : {"idle", "item", "cache", "commit"}, kind : Kinds, todo : Seq(Items)]
        /\ work.kind = "events" => \A k \in DOMAIN work'.todo : work'.todo[k] \in EventItems
        /\ work.kind # "events" => \A k \in DOMAIN work'.todo : CarriesValue(work'.todo[k])
    BY <1>1, <1>2, NextItemFact DEF IInv
  <1>4. /\ gap' \in [Objects -> SUBSET Gaps]
        /\ gap'[i.ga] = gap[i.ga] \cup {"unwritten"}
        /\ \A g \in Objects \ {i.ga} : gap'[g] = gap[g]
    BY <1>2 DEF WriteCacheFails, IInv, TypeOK, Gaps
  <1>5. TypeOK'
    BY <1>1, <1>3, <1>4 DEF IInv, TypeOK
  <1>6. Handling'
    BY <1>1, <1>3 DEF IInv, Handling
  <1>7. Ahead'
    BY <1>1, <1>2, <1>4 DEF IInv, Ahead
  <1>8. Mirror'
    <2> SUFFICES ASSUME NEW g \in Objects
                 PROVE  /\ "uncommitted" \in gap'[g] => work.kind # "state"
                        /\ gap'[g] \subseteq {"uncommitted"} =>
                             cache[Dash(g)] = Stored(mine, g) /\ Present(cache[Dash(g)])
                        /\ gap'[g] = {} =>
                             cache[Dash(g)] = Stored(db, g) /\ Present(cache[Dash(g)])
      BY <1>1, <1>3 DEF Mirror, Pending
    <2>1. CASE g = i.ga
      BY <1>4, <2>1 DEF IInv, Mirror
    <2>2. CASE g # i.ga
      BY <1>4, <2>2 DEF IInv, Mirror, Pending
    <2>3. QED
      BY <2>1, <2>2
  <1>9. QED
    BY <1>1, <1>5, <1>6, <1>7, <1>8 DEF IInv

LEMMA CommitInvariant ==
  ASSUME IInv, Commit
  PROVE  IInv'
  <1>1. /\ db' = mine /\ events' = logged
        /\ UNCHANGED <<cache, mine, logged, faults>>
    BY DEF Commit
  <1>2. \A g \in Objects : Stored(mine, g).ts >= Stored(mine, g).ts
    BY CommonFact
  <1>3. CASE work.pc = "commit"
    <2> DEFINE i == Head(work.todo)
    <2>1. i.ga \in Objects /\ work.todo # <<>> /\ Stored(mine, i.ga) = RowOf(i) /\ CarriesValue(i)
      BY <1>3, CommonFact
    <2>2. /\ work'.pc = "cache" /\ work'.kind = work.kind /\ work'.todo = work.todo
          /\ work' \in [pc : {"idle", "item", "cache", "commit"}, kind : Kinds, todo : Seq(Items)]
      BY <1>3 DEF Commit, IInv, TypeOK
    <2>3. /\ gap' \in [Objects -> SUBSET Gaps]
          /\ gap'[i.ga] = gap[i.ga] \cup {"unwritten"}
          /\ \A g \in Objects \ {i.ga} : gap'[g] = gap[g]
      <3>1. gap' = [gap EXCEPT ![i.ga] = @ \cup {"unwritten"}]
        BY <1>3 DEF Commit
      <3>2. QED
        BY <2>1, <3>1 DEF IInv, TypeOK, Gaps
    <2>4. TypeOK'
      BY <1>1, <2>2, <2>3 DEF IInv, TypeOK
    <2>5. Handling'
      BY <1>1, <1>2, <2>1, <2>2 DEF IInv, Handling
    <2>6. Ahead'
      BY <1>1, <2>1, <2>3 DEF IInv, Ahead
    <2>7. Mirror'
      <3> SUFFICES ASSUME NEW g \in Objects
                   PROVE  /\ "uncommitted" \in gap'[g] => work.kind # "state"
                          /\ gap'[g] \subseteq {"uncommitted"} /\ g # i.ga =>
                               cache[Dash(g)] = Stored(mine, g) /\ Present(cache[Dash(g)])
                          /\ gap'[g] = {} =>
                               cache[Dash(g)] = Stored(mine, g) /\ Present(cache[Dash(g)])
        BY <1>1, <2>2 DEF Mirror, Pending
      <3>1. CASE g = i.ga
        BY <2>3, <3>1 DEF IInv, Mirror
      <3>2. CASE g # i.ga
        BY <2>3, <3>2 DEF IInv, Mirror, Pending
      <3>3. QED
        BY <3>1, <3>2
    <2>8. QED
      BY <1>1, <2>4, <2>5, <2>6, <2>7 DEF IInv
  <1>4. CASE work.pc = "item"
    <2>1. work' = Idle /\ gap' = [g \in Objects |-> gap[g] \ {"uncommitted"}]
      BY <1>4 DEF Commit
    <2>2. work' \in [pc : {"idle", "item", "cache", "commit"}, kind : Kinds, todo : Seq(Items)]
      BY <2>1 DEF Idle, Kinds
    <2>3. TypeOK'
      BY <1>1, <2>1, <2>2 DEF IInv, TypeOK
    <2>4. Handling'
      BY <1>1, <1>2, <2>1 DEF Handling, Idle
    <2>5. Ahead'
      BY <1>1, <2>1 DEF IInv, Ahead
    <2>6. Mirror'
      BY <1>1, <1>4, <2>1 DEF IInv, Mirror, Pending, Idle
    <2>7. QED
      BY <1>1, <2>3, <2>4, <2>5, <2>6 DEF IInv
  <1>5. QED
    BY <1>3, <1>4 DEF Commit

LEMMA FailInvariant ==
  ASSUME IInv, Fail
  PROVE  IInv'
  <1>1. /\ work' = Idle /\ mine' = db /\ logged' = events /\ faults' = faults + 1
        /\ UNCHANGED <<db, events, cache>>
    BY DEF Fail
  <1>2. gap' = [g \in Objects |-> IF "uncommitted" \in gap[g]
                                    THEN (gap[g] \ {"uncommitted"}) \cup {"rolled back"}
                                    ELSE gap[g]]
    BY DEF Fail
  <1>3. work' \in [pc : {"idle", "item", "cache", "commit"}, kind : Kinds, todo : Seq(Items)]
    BY <1>1 DEF Idle, Kinds
  <1>4. TypeOK'
    <2>1. \A g \in Objects : gap'[g] \in SUBSET Gaps
      BY <1>2 DEF IInv, TypeOK, Gaps
    <2>2. gap' \in [Objects -> SUBSET Gaps]
      BY <1>2, <2>1
    <2>3. QED
      BY <1>1, <1>3, <2>2 DEF IInv, TypeOK
  <1>5. Handling'
    <2>1. \A g \in Objects : Stored(db, g).ts >= Stored(db, g).ts
      BY CommonFact
    <2>2. QED
      BY <1>1, <2>1 DEF Handling, Idle
  <1>6. Ahead'
    BY <1>1, <1>2 DEF IInv, Ahead
  <1>7. Mirror'
    <2> SUFFICES ASSUME NEW g \in Objects
                 PROVE  /\ "uncommitted" \notin gap'[g]
                        /\ gap'[g] \subseteq {"uncommitted"} =>
                             cache[Dash(g)] = Stored(db, g) /\ Present(cache[Dash(g)])
      BY <1>1 DEF Mirror
    <2>1. "uncommitted" \notin gap'[g]
      BY <1>2
    <2>2. gap'[g] \subseteq {"uncommitted"} => gap[g] = {}
      BY <1>2
    <2>3. QED
      BY <2>1, <2>2 DEF IInv, Mirror
  <1>8. QED
    BY <1>1, <1>4, <1>5, <1>6, <1>7 DEF IInv

LEMMA CacheLostInvariant ==
  ASSUME IInv, CacheLost
  PROVE  IInv'
  <1>1. /\ faults' = faults + 1 /\ UNCHANGED <<db, events, work, mine, logged>>
        /\ cache' = [k \in Keys |-> NoRow]
        /\ gap' = [g \in Objects |-> gap[g] \cup {"lost"}]
    BY DEF CacheLost
  <1>2. TypeOK'
    <2>1. \A g \in Objects : gap'[g] \in SUBSET Gaps
      BY <1>1 DEF IInv, TypeOK, Gaps
    <2>2. gap' \in [Objects -> SUBSET Gaps] /\ cache' \in [Keys -> Rows]
      BY <1>1, <2>1, NoRowFact
    <2>3. QED
      BY <1>1, <2>2 DEF IInv, TypeOK
  <1>3. Handling'
    BY <1>1 DEF IInv, Handling
  <1>4. Ahead'
    <2>1. \A g \in Objects : cache'[Dash(g)].ts = 0
      BY <1>1, NoRowFact, KeyFact
    <2>2. \A g \in Objects : ~(cache'[Dash(g)].ts > Stored(mine, g).ts)
                             /\ ~(cache'[Dash(g)].ts > Stored(db, g).ts)
      BY <2>1, CommonFact
    <2>3. QED
      BY <1>1, <2>2 DEF Ahead
  <1>5. Mirror'
    <2>1. \A g \in Objects : "lost" \in gap'[g] /\ ("uncommitted" \in gap'[g] => "uncommitted" \in gap[g])
      BY <1>1
    <2>2. QED
      BY <1>1, <2>1 DEF IInv, Mirror
  <1>6. QED
    BY <1>1, <1>2, <1>3, <1>4, <1>5 DEF IInv

LEMMA NextInvariant == IInv /\ [Next]_vars => IInv'
  <1> SUFFICES ASSUME IInv, [Next]_vars
               PROVE  IInv'
    OBVIOUS
  <1>1. CASE \E p \in Payloads : Receive(p)
    BY <1>1, ReceiveInvariant
  <1>2. CASE HandleState \/ HandleEvent
    BY <1>2, HandleInvariant
  <1>3. CASE WriteCache
    BY <1>3, WriteCacheInvariant
  <1>4. CASE WriteCacheFails
    BY <1>4, WriteCacheFailsInvariant
  <1>5. CASE Commit
    BY <1>5, CommitInvariant
  <1>6. CASE Fail
    BY <1>6, FailInvariant
  <1>7. CASE CacheLost
    BY <1>7, CacheLostInvariant
  <1>8. CASE UNCHANGED vars
    BY <1>8 DEF vars, IInv, TypeOK, Handling, Ahead, Mirror, Pending
  <1>9. QED
    BY <1>1, <1>2, <1>3, <1>4, <1>5, <1>6, <1>7, <1>8 DEF Next

-----------------------------------------------------------------------------
LEMMA Inductive == Spec => []IInv
  <1>1. Init => IInv
    BY InitInvariant
  <1>2. IInv /\ [Next]_vars => IInv'
    BY NextInvariant
  <1>3. QED
    BY <1>1, <1>2, PTL DEF Spec

\* Type correctness.
THEOREM TypeCorrect == Spec => []TypeOK
  <1>1. IInv => TypeOK
    BY DEF IInv
  <1>2. QED
    BY <1>1, Inductive, PTL

\* The lookup in both spellings and the move to the canonical one never leave
\* two rows for an address (_find_existing_state, upsert_current_state).
THEOREM OneRowHolds == Spec => []OneRowPerAddress
  <1>1. IInv => OneRowPerAddress
    BY DEF IInv, Table, OneRowPerAddress
  <1>2. QED
    BY <1>1, Inductive, PTL

\* An event is recorded once and together with its effect on the current value
\* (handle_event, handle_events_batch: one transaction).
THEOREM EventsMatchStateHolds == Spec => []EventsMatchState
  <1>1. IInv => EventsMatchState
    BY DEF IInv, Matches, EventsMatchState
  <1>2. QED
    BY <1>1, Inductive, PTL

\* The house answer is the stored value unless one of the named faults came
\* between them (_write_redis, get_house_state).
THEOREM AnswersHold == Spec => []AnswersAsStored
  <1>1. IInv => AnswersAsStored
    <2> SUFFICES ASSUME IInv, NEW g \in Objects, gap[g] = {}
                 PROVE  HouseAnswer[Dash(g)] = Stored(db, g)
      BY DEF AnswersAsStored
    <2>1. cache[Dash(g)] = Stored(db, g) /\ Present(cache[Dash(g)])
      BY DEF IInv, Mirror
    <2>2. QED
      BY <2>1, KeyFact DEF HouseAnswer
  <1>2. QED
    BY <1>1, Inductive, PTL

\* The newest time stamp wins in the database, and in Redis but for values
\* whose transaction was rolled back (should_apply_state).
THEOREM NeverBackwardsHolds == Spec => NeverBackwards
  <1> DEFINE Forward ==
        \A g \in Objects :
          /\ Stored(db', g).ts >= Stored(db, g).ts
          /\ Present(cache'[Dash(g)]) /\ cache'[Dash(g)].ts < cache[Dash(g)].ts
               => cache[Dash(g)].ts > Stored(db, g).ts /\ "rolled back" \in gap[g]
  <1>1. IInv /\ [Next]_vars => [Forward]_vars
    <2> SUFFICES ASSUME IInv, Next, NEW g \in Objects
                 PROVE  /\ Stored(db', g).ts >= Stored(db, g).ts
                        /\ Present(cache'[Dash(g)]) /\ cache'[Dash(g)].ts < cache[Dash(g)].ts
                             => cache[Dash(g)].ts > Stored(db, g).ts /\ "rolled back" \in gap[g]
      OBVIOUS
    <2>1. /\ Stored(mine, g).ts \in Nat /\ Stored(db, g).ts \in Nat
          /\ cache[Dash(g)].ts \in Nat /\ Stored(mine, g).ts >= Stored(db, g).ts
      BY CommonFact DEF IInv, Handling
    <2>2. Stored(db', g).ts >= Stored(db, g).ts
      <3>1. db' = db \/ db' = mine
        BY DEF Next, Receive, HandleState, HandleEvent, WriteCache, WriteCacheFails, Commit, Fail,
               CacheLost
      <3>2. CASE db' = db
        BY <2>1, <3>2
      <3>3. CASE db' = mine
        BY <2>1, <3>3
      <3>4. QED
        BY <3>1, <3>2, <3>3
    <2>3. CASE cache' = cache
      <3>1. ~(cache'[Dash(g)].ts < cache[Dash(g)].ts)
        BY <2>1, <2>3
      <3>2. QED
        BY <2>2, <3>1
    <2>4. CASE WriteCache
      <3> DEFINE i == Head(work.todo)
      <3>1. db' = db /\ work.pc = "cache"
        BY <2>4 DEF WriteCache
      <3>2. i \in Items /\ i.ga \in Objects /\ Stored(mine, i.ga) = RowOf(i)
        BY <3>1, CommonFact
      <3>3. cache' = [cache EXCEPT ![Dash(i.ga)] = RowOf(i)]
        BY <2>4 DEF WriteCache, Field, RowOf
      <3>4. CASE g = i.ga
        <4>1. cache'[Dash(g)] = Stored(mine, g)
          BY <3>2, <3>3, <3>4, KeyFact DEF IInv, TypeOK
        <4>2. cache[Dash(g)].ts > Stored(mine, g).ts => "rolled back" \in gap[g]
          BY DEF IInv, Ahead
        <4>3. cache'[Dash(g)].ts < cache[Dash(g)].ts =>
                cache[Dash(g)].ts > Stored(mine, g).ts /\ cache[Dash(g)].ts > Stored(db, g).ts
          BY <2>1, <4>1
        <4>4. QED
          BY <2>2, <4>2, <4>3
      <3>5. CASE g # i.ga
        <4>1. cache'[Dash(g)] = cache[Dash(g)]
          BY <3>2, <3>3, <3>5, KeyFact DEF IInv, TypeOK
        <4>2. ~(cache'[Dash(g)].ts < cache[Dash(g)].ts)
          BY <2>1, <4>1
        <4>3. QED
          BY <2>2, <4>2
      <3>6. QED
        BY <3>4, <3>5
    <2>5. CASE CacheLost
      <3>1. db' = db /\ cache'[Dash(g)] = NoRow
        BY <2>5, KeyFact DEF CacheLost
      <3>2. QED
        BY <2>2, <3>1, NoRowFact
    <2>6. QED
      BY <2>3, <2>4, <2>5 DEF Next, Receive, HandleState, HandleEvent, WriteCacheFails, Commit, Fail
  <1>2. QED
    BY <1>1, Inductive, PTL DEF Spec, NeverBackwards
-----------------------------------------------------------------------------
(* The handlers implement NewestWins.  A transaction that is open has applied a *)
(* prefix of one message: its session sees the last committed table with that   *)
(* prefix applied, so that the commit is one step of the promised register.     *)

\* How many of the message's items the session has applied or refused.
Handled(items) == Len(items) - Len(work.todo) + (IF work.pc = "item" THEN 0 ELSE 1)

\* Of the first n items, item k is the one whose value g holds.
Newest(items, n, g, k) ==
  /\ items[k].ga = g /\ CarriesValue(items[k])
  /\ Present(Stored(db, g)) => items[k].ts >= Stored(db, g).ts
  /\ \A j \in 1..n : j # k /\ items[j].ga = g /\ CarriesValue(items[j]) =>
       \/ items[j].ts < items[k].ts
       \/ items[j].ts = items[k].ts /\ j < k

\* All of the first n items for g that carry a value are older than what is stored.
NoneNewer(items, n, g) ==
  \A j \in 1..n : items[j].ga = g /\ CarriesValue(items[j]) =>
    Present(Stored(db, g)) /\ items[j].ts < Stored(db, g).ts

Applied(items, n) ==
  \A g \in Objects :
    \/ \E k \in 1..n : Newest(items, n, g, k) /\ Stored(mine, g) = RowOf(items[k])
    \/ Stored(mine, g) = Stored(db, g) /\ NoneNewer(items, n, g)

\* What is still to do is the end of the message.
Remaining(items) ==
  /\ Len(work.todo) <= Len(items)
  /\ \A j \in 1..Len(work.todo) : work.todo[j] = items[Len(items) - Len(work.todo) + j]

Open == work.pc \in {"item", "commit"} \/ (work.pc = "cache" /\ work.kind # "state")

Progress ==
  Open => \E p \in Payloads :
            /\ p.kind = work.kind
            /\ Remaining(p.items)
            /\ Applied(p.items, Handled(p.items))
            /\ work.pc = "commit" => work.kind = "state"

\* What Progress says of the message that is open.
LEMMA OpenFact ==
  ASSUME IInv, Progress, Open
  PROVE  \E p \in Payloads :
           /\ p.kind = work.kind /\ p.items \in Seq(Items)
           /\ p.kind = "state" => Len(p.items) = 1
           /\ Remaining(p.items)
           /\ Applied(p.items, Handled(p.items))
           /\ work.pc = "commit" => work.kind = "state"
  BY StateConstants DEF Progress

\* The item being handled is the next of the message.
LEMMA HeadFact ==
  ASSUME NEW items \in Seq(Items), work.todo \in Seq(Items), work.todo # <<>>, Remaining(items)
  PROVE  /\ Len(items) - Len(work.todo) \in Nat
         /\ Len(items) - Len(work.todo) + 1 \in 1..Len(items)
         /\ Head(work.todo) = items[Len(items) - Len(work.todo) + 1]
         /\ Tail(work.todo) \in Seq(Items) /\ Len(Tail(work.todo)) = Len(work.todo) - 1
         /\ \A j \in 1..Len(Tail(work.todo)) :
              Tail(work.todo)[j] = items[Len(items) - Len(Tail(work.todo)) + j]
  <1>1. Len(work.todo) \in Nat \ {0} /\ Len(items) \in Nat /\ Len(work.todo) <= Len(items)
    BY DEF Remaining
  <1>2. Head(work.todo) = work.todo[1] /\ Len(Tail(work.todo)) = Len(work.todo) - 1
        /\ Tail(work.todo) \in Seq(Items)
        /\ \A j \in 1..Len(Tail(work.todo)) : Tail(work.todo)[j] = work.todo[j + 1]
    OBVIOUS
  <1> DEFINE done == Len(items) - Len(work.todo)
  <1>3. Head(work.todo) = items[done + 1]
    <2>1. 1 \in 1..Len(work.todo)
      BY <1>1
    <2>2. QED
      BY <1>2, <2>1 DEF Remaining
  <1>4. /\ done \in Nat /\ done + 1 \in 1..Len(items)
        /\ Len(items) - Len(Tail(work.todo)) = done + 1
    <2> DEFINE a == Len(items)
               w == Len(work.todo)
               v == Len(Tail(work.todo))
    <2>1. a \in Nat /\ w \in Nat \ {0} /\ w <= a /\ v = w - 1
      BY <1>1, <1>2
    <2> HIDE DEF a, w, v
    <2>2. a - w \in Nat /\ a - w + 1 \in 1..a /\ a - v = a - w + 1
      BY <2>1
    <2>3. QED
      BY <2>2 DEF a, w, v
  <1>5. ASSUME NEW j \in 1..Len(Tail(work.todo))
        PROVE  Tail(work.todo)[j] = items[Len(items) - Len(Tail(work.todo)) + j]
    <2>1. j + 1 \in 1..Len(work.todo) /\ Tail(work.todo)[j] = work.todo[j + 1]
      BY <1>1, <1>2
    <2>2. work.todo[j + 1] = items[Len(items) - Len(work.todo) + (j + 1)]
      BY <2>1 DEF Remaining
    <2>3. done + (j + 1) = (done + 1) + j
      BY <1>4
    <2>4. QED
      BY <1>4, <2>1, <2>2, <2>3
  <1>6. QED
    BY <1>2, <1>3, <1>5, <1>4

\* One item more is applied, or refused.
LEMMA AppliedFact ==
  ASSUME IInv, NEW items \in Seq(Items), NEW n \in Nat, n < Len(items),
         Applied(items, n),
         Takes(mine, items[n + 1]) => mine' = Upserted(mine, items[n + 1]),
         ~Takes(mine, items[n + 1]) => mine' = mine,
         db' = db
  PROVE  Applied(items, n + 1)'
  <1> DEFINE i == items[n + 1]
  <1>1. i \in Items /\ i.ga \in Objects /\ i.ts \in Nat
    <2>1. n + 1 \in 1..Len(items)
      OBVIOUS
    <2>2. i \in Items
      BY <2>1
    <2>3. QED
      BY <2>2 DEF Items
  <1>2. \A j \in 1..(n + 1) : items[j] \in Items /\ items[j].ts \in Nat
    <2> SUFFICES ASSUME NEW j \in 1..(n + 1)
                 PROVE  items[j] \in Items /\ items[j].ts \in Nat
      OBVIOUS
    <2>1. j \in 1..Len(items)
      OBVIOUS
    <2>2. items[j] \in Items
      BY <2>1
    <2>3. QED
      BY <2>2 DEF Items
  <1>3. \A j \in 1..(n + 1) : j \in 1..n \/ j = n + 1
    OBVIOUS
  <1>4. 1..n \subseteq 1..(n + 1) /\ n + 1 \in 1..(n + 1) /\ n + 1 \notin 1..n
        /\ \A j \in 1..n : j < n + 1
    OBVIOUS
  <1>5. Table(mine) /\ Table(db)
    BY DEF IInv
  <1> SUFFICES ASSUME NEW g \in Objects
               PROVE  \/ \E k \in 1..(n + 1) : Newest(items, n + 1, g, k)
                                               /\ Stored(mine', g) = RowOf(items[k])
                      \/ Stored(mine', g) = Stored(db, g) /\ NoneNewer(items, n + 1, g)
    BY DEF Applied, Newest, NoneNewer
  <1>6. Stored(mine, g).ts \in Nat /\ Stored(db, g).ts \in Nat
        /\ Stored(mine, g).ts >= Stored(db, g).ts
    BY CommonFact DEF IInv, Handling
  <1>7. \/ \E k \in 1..n : Newest(items, n, g, k) /\ Stored(mine, g) = RowOf(items[k])
        \/ Stored(mine, g) = Stored(db, g) /\ NoneNewer(items, n, g)
    BY DEF Applied
  <1>8. CASE i.ga # g \/ ~CarriesValue(i)
    <2>1. Stored(mine', g) = Stored(mine, g)
      BY <1>1, <1>5, <1>8, UpsertedFact DEF Takes
    <2>2. \A k \in 1..n : Newest(items, n, g, k) => Newest(items, n + 1, g, k)
      BY <1>3, <1>8 DEF Newest
    <2>3. NoneNewer(items, n, g) => NoneNewer(items, n + 1, g)
      BY <1>3, <1>8 DEF NoneNewer
    <2>4. QED
      BY <1>4, <1>7, <2>1, <2>2, <2>3
  <1>9. CASE i.ga = g /\ Takes(mine, i)
    <2>1. Stored(mine', g) = RowOf(i) /\ i.ts >= Stored(mine, g).ts
      BY <1>1, <1>5, <1>9, UpsertedFact, RowOfFact
    <2>2. i.ts >= Stored(db, g).ts
      BY <1>1, <1>6, <2>1
    <2>3. ASSUME NEW j \in 1..n, items[j].ga = g, CarriesValue(items[j])
          PROVE  items[j].ts <= i.ts
      <3>1. items[j].ts \in Nat
        BY <1>2, <1>4
      <3>2. CASE \E k \in 1..n : Newest(items, n, g, k) /\ Stored(mine, g) = RowOf(items[k])
        <4>1. PICK k \in 1..n : Newest(items, n, g, k) /\ Stored(mine, g) = RowOf(items[k])
          BY <3>2
        <4>2. items[k].ts \in Nat /\ Stored(mine, g).ts = items[k].ts
          BY <1>2, <1>4, <4>1, RowOfFact
        <4>3. items[j].ts <= items[k].ts
          BY <2>3, <3>1, <4>1, <4>2 DEF Newest
        <4>4. QED
          BY <1>1, <2>1, <3>1, <4>2, <4>3
      <3>3. CASE Stored(mine, g) = Stored(db, g) /\ NoneNewer(items, n, g)
        <4>1. items[j].ts < Stored(db, g).ts
          BY <2>3, <3>3 DEF NoneNewer
        <4>2. QED
          BY <1>1, <1>6, <2>2, <3>1, <4>1
      <3>4. QED
        BY <1>7, <3>2, <3>3
    <2>4. Newest(items, n + 1, g, n + 1)
      <3>1. \A j \in 1..(n + 1) : j # n + 1 /\ items[j].ga = g /\ CarriesValue(items[j]) =>
              items[j].ts < i.ts \/ (items[j].ts = i.ts /\ j < n + 1)
        BY <1>1, <1>2, <1>3, <1>4, <2>3
      <3>2. QED
        BY <1>9, <2>2, <3>1 DEF Newest, Takes
    <2>5. QED
      BY <1>4, <2>1, <2>4
  <1>10. CASE i.ga = g /\ CarriesValue(i) /\ ~Takes(mine, i)
    <2>1. Present(Stored(mine, g)) /\ i.ts < Stored(mine, g).ts
      BY <1>1, <1>6, <1>10 DEF Applies, Stored, Takes
    <2>2. CASE \E k \in 1..n : Newest(items, n, g, k) /\ Stored(mine, g) = RowOf(items[k])
      <3>1. PICK k \in 1..n : Newest(items, n, g, k) /\ Stored(mine, g) = RowOf(items[k])
        BY <2>2
      <3>2. items[k].ts \in Nat /\ Stored(mine, g).ts = items[k].ts
        BY <1>2, <1>4, <3>1, RowOfFact
      <3>3. Newest(items, n + 1, g, k)
        BY <1>3, <2>1, <3>1, <3>2 DEF Newest
      <3>4. QED
        BY <1>4, <1>10, <3>1, <3>3
    <2>3. CASE Stored(mine, g) = Stored(db, g) /\ NoneNewer(items, n, g)
      <3>1. NoneNewer(items, n + 1, g)
        BY <1>3, <2>1, <2>3 DEF NoneNewer
      <3>2. QED
        BY <1>10, <2>3, <3>1
    <2>4. QED
      BY <1>7, <2>2, <2>3
  <1>11. QED
    BY <1>8, <1>9, <1>10

LEMMA HandledFact ==
  ASSUME NEW items \in Seq(Items), work.todo \in Seq(Items), work.todo # <<>>, Remaining(items)
  PROVE  /\ work.pc = "item" => Handled(items) = Len(items) - Len(work.todo)
         /\ work.pc # "item" => Handled(items) = Len(items) - Len(work.todo) + 1
         /\ Handled(items) \in Nat
  <1>1. Len(items) - Len(work.todo) \in Nat
    BY HeadFact
  <1> DEFINE d == Len(items) - Len(work.todo)
  <1> HIDE DEF d
  <1>2. d \in Nat => d + 0 = d /\ d + 1 \in Nat
    OBVIOUS
  <1>3. Handled(items) = d + (IF work.pc = "item" THEN 0 ELSE 1)
    BY DEF Handled, d
  <1>4. QED
    BY <1>1, <1>2, <1>3 DEF d

LEMMA ReceiveProgress ==
  ASSUME IInv, NEW p \in Payloads, Receive(p)
  PROVE  Progress'
  <1>1. /\ work' = [pc |-> "item", kind |-> p.kind, todo |-> p.items]
        /\ mine' = db /\ db' = db
    BY DEF Receive
  <1>2. p.items \in Seq(Items) /\ Len(p.items) \in Nat
    BY StateConstants
  <1>3. Remaining(p.items)'
    <2>1. \A j \in 1..Len(p.items) : Len(p.items) - Len(p.items) + j = j
      BY <1>2
    <2>2. QED
      BY <1>1, <1>2, <2>1 DEF Remaining
  <1>4. Handled(p.items)' = 0
    BY <1>1, <1>2 DEF Handled
  <1>5. Applied(p.items, 0)'
    BY <1>1 DEF Applied, NoneNewer
  <1>6. QED
    BY <1>1, <1>3, <1>4, <1>5 DEF Progress

LEMMA HandleProgress ==
  ASSUME IInv, Progress, HandleState \/ HandleEvent
  PROVE  Progress'
  <1> SUFFICES ASSUME Open'
               PROVE  \E p \in Payloads :
                        /\ p.kind = work'.kind
                        /\ Remaining(p.items)'
                        /\ Applied(p.items, Handled(p.items))'
                        /\ work'.pc = "commit" => work'.kind = "state"
    BY DEF Progress
  <1> DEFINE i == Head(work.todo)
  <1>1. work.pc = "item" /\ work.todo # <<>> /\ db' = db /\ work.todo \in Seq(Items)
    BY HandleFact DEF IInv, TypeOK
  <1>2. PICK p \in Payloads :
          /\ p.kind = work.kind /\ p.items \in Seq(Items)
          /\ Remaining(p.items)
          /\ Applied(p.items, Handled(p.items))
    BY <1>1, OpenFact DEF Open
  <1>3. PICK n \in Nat : /\ n = Handled(p.items) /\ n = Len(p.items) - Len(work.todo)
                         /\ n + 1 \in 1..Len(p.items)
                         /\ i = p.items[n + 1]
    BY <1>1, <1>2, HandledFact, HeadFact
  <1>4. n < Len(p.items)
    <2>1. Len(p.items) \in Nat
      BY <1>2
    <2>2. n + 1 \in 1..Len(p.items)
      BY <1>3
    <2>3. QED
      BY <2>1, <2>2
  <1>5. Applied(p.items, n + 1)'
    <2>1. /\ Takes(mine, p.items[n + 1]) => mine' = Upserted(mine, p.items[n + 1])
          /\ ~Takes(mine, p.items[n + 1]) => mine' = mine
      BY <1>3, HandleFact
    <2>2. Applied(p.items, n)
      BY <1>2, <1>3
    <2>3. QED
      BY <1>1, <1>2, <1>3, <1>4, <2>1, <2>2, AppliedFact
  <1>6. CASE Takes(mine, i)
    <2>1. work' = [work EXCEPT !.pc = IF work.kind = "state" THEN "commit" ELSE "cache"]
      BY <1>6, HandleFact
    <2>2. /\ work'.pc = (IF work.kind = "state" THEN "commit" ELSE "cache")
          /\ work'.kind = work.kind /\ work'.todo = work.todo
      BY <2>1 DEF IInv, TypeOK
    <2>3. Remaining(p.items)'
      BY <1>2, <2>2 DEF Remaining
    <2>4. Handled(p.items)' = n + 1
      BY <1>3, <2>2 DEF Handled
    <2>5. QED
      BY <1>2, <1>5, <2>2, <2>3, <2>4
  <1>7. CASE ~Takes(mine, i)
    <2>1. work' = NextItem(work)
      BY <1>7, HandleFact
    <2>2. work.kind # "state" /\ work'.pc = "item" /\ work'.kind = work.kind
          /\ work'.todo = Tail(work.todo)
      BY <1>1, <2>1 DEF IInv, TypeOK, NextItem, Open, Idle
    <2>3. Remaining(p.items)'
      <3>1. Len(work'.todo) <= Len(p.items)
        BY <1>1, <1>2, <2>2, HeadFact DEF Remaining
      <3>2. QED
        BY <1>1, <1>2, <2>2, <3>1, HeadFact DEF Remaining
    <2>4. Handled(p.items)' = n + 1
      <3>1. Len(work'.todo) = Len(work.todo) - 1 /\ Len(work.todo) \in Nat /\ Len(p.items) \in Nat
        BY <1>1, <1>2, <2>2, HeadFact
      <3>2. Handled(p.items)' = Len(p.items) - Len(work'.todo)
        BY <2>2, <3>1 DEF Handled
      <3>3. QED
        BY <1>3, <3>1, <3>2
    <2>5. QED
      BY <1>2, <1>5, <2>2, <2>3, <2>4
  <1>8. QED
    BY <1>6, <1>7

\* After the Redis write of an item, or its failure, the next one is due.
LEMMA NextItemProgress ==
  ASSUME IInv, Progress, work.pc = "cache", work' = NextItem(work), db' = db, mine' = mine
  PROVE  Progress'
  <1> SUFFICES ASSUME Open'
               PROVE  \E p \in Payloads :
                        /\ p.kind = work'.kind
                        /\ Remaining(p.items)'
                        /\ Applied(p.items, Handled(p.items))'
                        /\ work'.pc = "commit" => work'.kind = "state"
    BY DEF Progress
  <1>1. work.todo # <<>> /\ work.todo \in Seq(Items)
    BY CommonFact DEF IInv, TypeOK
  <1>2. work.kind # "state" /\ work'.pc = "item" /\ work'.kind = work.kind
        /\ work'.todo = Tail(work.todo)
    BY DEF IInv, TypeOK, NextItem, Open, Idle
  <1>3. PICK p \in Payloads :
          /\ p.kind = work.kind /\ p.items \in Seq(Items)
          /\ Remaining(p.items)
          /\ Applied(p.items, Handled(p.items))
    BY <1>2, OpenFact DEF Open
  <1>4. Len(work'.todo) = Len(work.todo) - 1 /\ Len(work.todo) \in Nat /\ Len(p.items) \in Nat
        /\ Len(work.todo) <= Len(p.items)
    BY <1>1, <1>2, <1>3, HeadFact DEF Remaining
  <1>5. Remaining(p.items)'
    <2>1. Len(work'.todo) <= Len(p.items)
      BY <1>4
    <2>2. \A j \in 1..Len(work'.todo) :
            work'.todo[j] = p.items[Len(p.items) - Len(work'.todo) + j]
      BY <1>1, <1>2, <1>3, HeadFact
    <2>3. QED
      BY <2>1, <2>2 DEF Remaining
  <1>6. Handled(p.items)' = Handled(p.items)
    <2>1. Handled(p.items)' = Len(p.items) - Len(work'.todo)
      BY <1>2, <1>4 DEF Handled
    <2>2. Handled(p.items) = Len(p.items) - Len(work.todo) + 1
      BY <1>1, <1>3, HandledFact
    <2>3. QED
      BY <1>4, <2>1, <2>2
  <1>7. Applied(p.items, Handled(p.items))'
    BY <1>3, <1>6 DEF Applied, Newest, NoneNewer
  <1>8. QED
    BY <1>2, <1>3, <1>5, <1>7

LEMMA ProgressStep == IInv /\ Progress /\ [Next]_vars => Progress'
  <1> SUFFICES ASSUME IInv, Progress, [Next]_vars
               PROVE  Progress'
    OBVIOUS
  <1>1. CASE \E p \in Payloads : Receive(p)
    BY <1>1, ReceiveProgress
  <1>2. CASE HandleState \/ HandleEvent
    BY <1>2, HandleProgress
  <1>3. CASE WriteCache \/ WriteCacheFails
    BY <1>3, NextItemProgress DEF WriteCache, WriteCacheFails
  <1>4. CASE Commit
    <2>1. CASE work.pc = "commit"
      <3>1. work.kind = "state"
        BY <2>1, OpenFact DEF Open
      <3>2. work'.pc = "cache" /\ work'.kind = "state"
        BY <1>4, <2>1, <3>1 DEF Commit, IInv, TypeOK
      <3>3. QED
        BY <3>2 DEF Progress, Open
    <2>2. CASE work.pc # "commit"
      BY <1>4, <2>2 DEF Commit, Progress, Open, Idle
    <2>3. QED
      BY <2>1, <2>2
  <1>5. CASE Fail
    BY <1>5 DEF Fail, Progress, Open, Idle
  <1>6. CASE UNCHANGED <<db, work, mine>>
    <2> SUFFICES ASSUME Open'
                 PROVE  Progress'
      BY DEF Progress
    <2>1. Open
      BY <1>6 DEF Open
    <2>2. PICK p \in Payloads :
            /\ p.kind = work.kind
            /\ Remaining(p.items)
            /\ Applied(p.items, Handled(p.items))
            /\ work.pc = "commit" => work.kind = "state"
      BY <2>1 DEF Progress
    <2>3. Handled(p.items)' = Handled(p.items)
      BY <1>6 DEF Handled
    <2>4. Remaining(p.items)'
      BY <1>6, <2>2 DEF Remaining
    <2>5. Applied(p.items, Handled(p.items))'
      BY <1>6, <2>2, <2>3 DEF Applied, Newest, NoneNewer
    <2>6. QED
      BY <1>6, <2>2, <2>4, <2>5 DEF Progress
  <1>7. QED
    BY <1>1, <1>2, <1>3, <1>4, <1>5, <1>6 DEF Next, CacheLost, vars

\* The table after the whole message is what the register promises.
LEMMA AppliedIsAfter ==
  ASSUME IInv, NEW items \in Seq(Items), Applied(items, Len(items))
  PROVE  [g \in Objects |-> Stored(mine, g)]
           = Promise!After([g \in Objects |-> Stored(db, g)], items)
  <1> DEFINE reg == [g \in Objects |-> Stored(db, g)]
             Won(g, k) == Promise!Wins(reg, items, g, k)
  <1>1. DOMAIN items = 1..Len(items) /\ \A k \in 1..Len(items) : items[k].ts \in Nat
    <2>1. \A k \in 1..Len(items) : items[k] \in Items
      OBVIOUS
    <2>2. QED
      BY <2>1 DEF Items
  <1>2. ASSUME NEW g \in Objects, NEW k \in 1..Len(items)
        PROVE  Won(g, k) <=> Newest(items, Len(items), g, k)
    BY <1>1 DEF Promise!Wins, Promise!Saying, Newest, Present, CarriesValue, NoValue
  <1>3. Promise!After(reg, items) =
          [g \in Objects |-> IF \E k \in 1..Len(items) : Won(g, k)
                               THEN LET k == CHOOSE k \in 1..Len(items) : Won(g, k)
                                    IN  [ts |-> items[k].ts, value |-> items[k].value]
                               ELSE reg[g]]
    BY <1>1 DEF Promise!After
  <1> HIDE DEF Won
  <1> SUFFICES ASSUME NEW g \in Objects
               PROVE  Stored(mine, g) = Promise!After(reg, items)[g]
    BY <1>3
  <1>4. CASE \E k \in 1..Len(items) : Newest(items, Len(items), g, k)
                                      /\ Stored(mine, g) = RowOf(items[k])
    <2>1. PICK k \in 1..Len(items) : Newest(items, Len(items), g, k)
                                     /\ Stored(mine, g) = RowOf(items[k])
      BY <1>4
    <2>2. ASSUME NEW j \in 1..Len(items), Won(g, j)
          PROVE  j = k
      <3>1. Newest(items, Len(items), g, j)
        BY <1>2, <2>2
      <3>2. QED
        BY <1>1, <2>1, <3>1 DEF Newest
    <2>3. Won(g, k)
      BY <1>2, <2>1
    <2>4. (CHOOSE j \in 1..Len(items) : Won(g, j)) = k
      BY <2>2, <2>3
    <2>5. QED
      BY <1>3, <2>1, <2>3, <2>4 DEF RowOf
  <1>5. CASE Stored(mine, g) = Stored(db, g) /\ NoneNewer(items, Len(items), g)
    <2>1. ~\E k \in 1..Len(items) : Won(g, k)
      <3> SUFFICES ASSUME NEW k \in 1..Len(items), Newest(items, Len(items), g, k)
                   PROVE  FALSE
        BY <1>2
      <3>1. Stored(db, g).ts \in Nat
        BY CommonFact
      <3>2. QED
        BY <1>1, <1>5, <3>1 DEF Newest, NoneNewer
    <2>2. QED
      BY <1>3, <1>5, <2>1
  <1>6. QED
    BY <1>4, <1>5 DEF Applied

\* A commit is a step of the register, every other step leaves it alone.
LEMMA RegisterStep ==
  ASSUME IInv, Progress, [Next]_vars
  PROVE  [Promise!Next]_([g \in Objects |-> Stored(db, g)])
  <1>1. CASE Commit
    <2>1. Open /\ db' = mine
      BY <1>1 DEF Commit, Open
    <2>2. PICK p \in Payloads :
            /\ p.kind = work.kind /\ p.items \in Seq(Items)
            /\ p.kind = "state" => Len(p.items) = 1
            /\ Remaining(p.items)
            /\ Applied(p.items, Handled(p.items))
            /\ work.pc = "commit" => work.kind = "state"
      BY <2>1, OpenFact
    <2>3. Handled(p.items) = Len(p.items)
      <3>1. CASE work.pc = "commit"
        <4>1. work.todo # <<>> /\ work.todo \in Seq(Items)
          BY <3>1, CommonFact DEF IInv, TypeOK
        <4>2. Len(p.items) = 1 /\ Len(work.todo) = 1
          BY <2>2, <3>1, <4>1 DEF Remaining
        <4>3. QED
          BY <3>1, <4>2 DEF Handled
      <3>2. CASE work.pc # "commit"
        <4>1. work.pc = "item" /\ Len(work.todo) = 0 /\ Len(p.items) \in Nat
          BY <1>1, <2>2, <3>2 DEF Commit
        <4>2. QED
          BY <4>1 DEF Handled
      <3>3. QED
        BY <3>1, <3>2
    <2>4. [g \in Objects |-> Stored(db', g)]
            = Promise!After([g \in Objects |-> Stored(db, g)], p.items)
      BY <2>1, <2>2, <2>3, AppliedIsAfter
    <2>5. p.items \in {q.items : q \in Payloads}
      OBVIOUS
    <2>6. QED
      BY <2>4, <2>5 DEF Promise!Next
  <1>2. CASE db' = db
    BY <1>2
  <1>3. QED
    BY <1>1, <1>2 DEF Next, Receive, HandleState, HandleEvent, WriteCache, WriteCacheFails, Fail,
                        CacheLost, vars

\* The handlers of all four kinds of message implement the promised register:
\* each message is applied as a whole, at its commit, or not at all, and the
\* newest time stamp wins, of several the last, whatever is interleaved with
\* failing Redis writes, rollbacks and crashes (handle_state,
\* handle_states_batch, handle_event, handle_events_batch).
THEOREM RegisterImplemented == Spec => ImplementsNewestWins
  <1>1. Init => Progress
    BY DEF Init, Idle, Progress, Open
  <1>2. IInv /\ Progress /\ [Next]_vars => Progress'
    BY ProgressStep
  <1>3. Init => Promise!Init
    <2>1. ASSUME Init
          PROVE  \A g \in Objects : Stored(db, g) \in Rows
      BY <2>1, InitInvariant, StoredFact DEF IInv
    <2>2. QED
      BY <2>1 DEF Promise!Init, Rows
  <1>4. IInv /\ Progress /\ [Next]_vars =>
          [Promise!Next]_([g \in Objects |-> Stored(db, g)])
    BY RegisterStep
  <1>5. QED
    BY <1>1, <1>2, <1>3, <1>4, Inductive, PTL DEF Spec, ImplementsNewestWins, Promise!Spec

=============================================================================
