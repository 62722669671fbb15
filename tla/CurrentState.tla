---------------------------- MODULE CurrentState ----------------------------
(***************************************************************************)
(* The current values of a house: what handle_state, handle_states_batch,  *)
(* handle_event and handle_events_batch do to the tables current_state and *)
(* events and to the Redis hash that mirrors current_state, and what the   *)
(* two GET handlers answer from them.                                      *)
(*                                                                         *)
(* Only the MQTT loop writes, one message after the other, in a session    *)
(* that commits at the end of a batch, or before the Redis write of a      *)
(* single state.  The steps below are what is visible to readers and what  *)
(* a crash can separate: each Redis write and each commit.                 *)
(*                                                                         *)
(* A group address has two spellings, 1-2-3 in topics and in storage and   *)
(* 1/2/3 in events; rows written by earlier versions may have either.      *)
(***************************************************************************)
EXTENDS Integers, Sequences, FiniteSets

CONSTANTS
  Objects,    \* group addresses
  Values,     \* KNX values
  Payloads,   \* the messages that may arrive: [kind, items]
  Legacy,     \* addresses that may have a row of an earlier version
  LegacyTime, \* ... and its time stamp
  MaxFaults   \* bound: rollbacks, failed Redis writes, losses of the Redis data

VARIABLES
  db,       \* current_state, committed, by spelling and address
  events,   \* events, committed: how many rows each event has
  cache,    \* the Redis hash state:{house_id}, by field
  work,     \* the message being handled: its step and its remaining items
  mine,     \* current_state as the session sees it
  logged,   \* events as the session sees them
  gap,      \* history: why cache and db may differ, by address
  faults

vars == <<db, events, cache, work, mine, logged, gap, faults>>

Spellings == {"dash", "slash"}
Keys == Spellings \X Objects

\* ga_to_dash and ga_to_slash, of an address in either spelling.
Dash(g) == <<"dash", g>>
Slash(g) == <<"slash", g>>

NoValue == "none"
NoRow == [ts |-> 0, value |-> NoValue]
Rows == [ts : Nat, value : Values \cup {NoValue}]

Present(r) == r.value # NoValue

\* seq 0: a state, not an event.  The daemon numbers every event.  An event may
\* carry no value; a state without one is stored as a null, which is in Values.
Items == [ga : Objects, ts : Nat, value : Values \cup {NoValue}, seq : Nat]

\* "value" in payload
CarriesValue(i) == i.value # NoValue

\* state/ga (one item), state/batch, events and events/batch
Kinds == {"state", "states", "events"}

ASSUME StateConstants ==
  /\ NoValue \notin Values
  /\ Legacy \subseteq Objects
  /\ LegacyTime \in Nat
  /\ MaxFaults \in Nat
  /\ \A p \in Payloads : /\ p.kind \in Kinds
                         /\ p.items \in Seq(Items)
                         /\ p.kind = "state" => Len(p.items) = 1
                         /\ p.kind # "events" => \A k \in DOMAIN p.items : CarriesValue(p.items[k])

Idle == [pc |-> "idle", kind |-> "state", todo |-> <<>>]

\* What the unique index of events says, for one controller.
EventId(i) == <<i.seq, i.ts>>

EventItems == UNION {{p.items[k] : k \in DOMAIN p.items} :
                       p \in {q \in Payloads : q.kind = "events"}}

EventIds == {EventId(i) : i \in EventItems}

\* The daemon does not use a number for two events of one second.
ASSUME EventsAreNumbered ==
  \A i, j \in EventItems : EventId(i) = EventId(j) => i = j

Gaps == {"unwritten", "uncommitted", "rolled back", "lost"}

\* Rows of earlier versions may be there, in one spelling each, and Redis may
\* be empty.
Init ==
  /\ db \in {[k \in Keys |-> IF k[2] \in DOMAIN old /\ k[1] = old[k[2]]
                               THEN [ts |-> LegacyTime, value |-> v] ELSE NoRow] :
               old \in UNION {[S -> Spellings] : S \in SUBSET Legacy}, v \in Values}
  /\ events = [e \in EventIds |-> 0]
  /\ cache = [k \in Keys |-> NoRow]
  /\ work = Idle
  /\ mine = db
  /\ logged = events
  /\ gap = [g \in Objects |-> {"lost"}]
  /\ faults = 0

-----------------------------------------------------------------------------
(* One item: _insert_event and upsert_current_state.                       *)

\* mutant: only the canonical spelling is looked up
FoundCanonical(t, g) == Dash(g)

\* _find_existing_state: the key of the row an item for g updates.
Found(t, g) == IF Present(t[Slash(g)]) /\ ~Present(t[Dash(g)]) THEN Slash(g) ELSE Dash(g)

\* mutant: whatever arrives is applied
AppliesAlways(t, i) == TRUE

\* should_apply_state
Applies(t, i) == Present(t[Found(t, i.ga)]) => i.ts >= t[Found(t, i.ga)].ts

\* The row moves to the canonical spelling with the new value.
Upserted(t, i) ==
  [t EXCEPT ![Found(t, i.ga)] = NoRow, ![Dash(i.ga)] = [ts |-> i.ts, value |-> i.value]]

\* mutant: no ON CONFLICT
InsertedTwice(l, i) == [l EXCEPT ![EventId(i)] = @ + 1]

\* INSERT ... ON CONFLICT DO NOTHING
Inserted(l, i) == [l EXCEPT ![EventId(i)] = 1]

-----------------------------------------------------------------------------
(* The handlers.                                                           *)

Receive(p) ==
  /\ work.pc = "idle"
  /\ work' = [pc |-> "item", kind |-> p.kind, todo |-> p.items]
  /\ mine' = db
  /\ logged' = events
  /\ UNCHANGED <<db, events, cache, gap, faults>>

\* What follows an item that is not applied, or the last step of one that is.
NextItem(w) ==
  IF w.kind = "state" THEN Idle ELSE [w EXCEPT !.pc = "item", !.todo = Tail(@)]

\* upsert_current_state, up to its commit or its Redis write.
Upsert(i) ==
  IF Applies(mine, i)
    THEN /\ mine' = Upserted(mine, i)
         /\ work' = [work EXCEPT !.pc = IF work.kind = "state" THEN "commit" ELSE "cache"]
    ELSE /\ mine' = mine
         /\ work' = NextItem(work)

HandleState ==
  /\ work.pc = "item" /\ work.todo # <<>> /\ work.kind # "events"
  /\ Upsert(Head(work.todo))
  /\ UNCHANGED <<db, events, cache, logged, gap, faults>>

\* An event is recorded also when it has no value for current_state.
HandleEvent ==
  LET i == Head(work.todo) IN
  /\ work.pc = "item" /\ work.todo # <<>> /\ work.kind = "events"
  /\ logged' = Inserted(logged, i)
  /\ IF CarriesValue(i) THEN Upsert(i) ELSE mine' = mine /\ work' = NextItem(work)
  /\ UNCHANGED <<db, events, cache, gap, faults>>

\* mutant: the field is spelled as in the event
FieldOf(g) == Slash(g)

Field(g) == Dash(g)

\* _write_redis.  It swallows its exceptions: the write may not happen.
WriteCache ==
  LET i == Head(work.todo) IN
  /\ work.pc = "cache"
  /\ cache' = [cache EXCEPT ![Field(i.ga)] = [ts |-> i.ts, value |-> i.value]]
  /\ gap' = [gap EXCEPT ![i.ga] = IF work.kind = "state" THEN {} ELSE {"uncommitted"}]
  /\ work' = NextItem(work)
  /\ UNCHANGED <<db, events, mine, logged, faults>>

WriteCacheFails ==
  LET i == Head(work.todo) IN
  /\ work.pc = "cache"
  /\ faults < MaxFaults
  /\ faults' = faults + 1
  /\ gap' = [gap EXCEPT ![i.ga] = @ \cup {"unwritten"}]
  /\ work' = NextItem(work)
  /\ UNCHANGED <<db, events, cache, mine, logged>>

\* A single state commits before its Redis write, a batch after all of them.
Commit ==
  /\ \/ work.pc = "commit"
     \/ work.pc = "item" /\ work.todo = <<>>
  /\ db' = mine
  /\ events' = logged
  /\ IF work.pc = "commit"
       THEN /\ work' = [work EXCEPT !.pc = "cache"]
            /\ gap' = [gap EXCEPT ![Head(work.todo).ga] = @ \cup {"unwritten"}]
       ELSE /\ work' = Idle
            /\ gap' = [g \in Objects |-> gap[g] \ {"uncommitted"}]
  /\ UNCHANGED <<cache, mine, logged, faults>>

\* Any step raises, or the process dies: what is not committed is gone.
Fail ==
  /\ work.pc # "idle"
  /\ faults < MaxFaults
  /\ faults' = faults + 1
  /\ work' = Idle
  /\ mine' = db
  /\ logged' = events
  /\ gap' = [g \in Objects |-> IF "uncommitted" \in gap[g]
                                 THEN (gap[g] \ {"uncommitted"}) \cup {"rolled back"}
                                 ELSE gap[g]]
  /\ UNCHANGED <<db, events, cache>>

\* Redis restarts without its data.
CacheLost ==
  /\ faults < MaxFaults
  /\ faults' = faults + 1
  /\ cache' = [k \in Keys |-> NoRow]
  /\ gap' = [g \in Objects |-> gap[g] \cup {"lost"}]
  /\ UNCHANGED <<db, events, work, mine, logged>>

Next ==
  \/ \E p \in Payloads : Receive(p)
  \/ HandleState
  \/ HandleEvent
  \/ WriteCache
  \/ WriteCacheFails
  \/ Commit
  \/ Fail
  \/ CacheLost

Spec == Init /\ [][Next]_vars

-----------------------------------------------------------------------------
(* What the GET handlers answer.                                           *)

\* get_state_by_ga: the URL's dashes become slashes; Redis, else the database.
AddressAnswer(g) == IF Present(cache[Slash(g)]) THEN cache[Slash(g)] ELSE db[Slash(g)]

\* get_house_state: Redis if it has any field, else the database.
HouseAnswer == IF \E k \in Keys : Present(cache[k]) THEN cache ELSE db

-----------------------------------------------------------------------------
(* Properties.                                                             *)

\* Type invariant.
TypeOK ==
  /\ db \in [Keys -> Rows] /\ mine \in [Keys -> Rows] /\ cache \in [Keys -> Rows]
  /\ events \in [EventIds -> Nat] /\ logged \in [EventIds -> Nat]
  /\ work \in [pc : {"idle", "item", "cache", "commit"}, kind : Kinds, todo : Seq(Items)]
  /\ gap \in [Objects -> SUBSET Gaps]
  /\ faults \in Nat

\* An address never has rows in both spellings, whatever spelling earlier
\* versions stored and messages use.
OneRowPerAddress == \A g \in Objects : ~(Present(db[Slash(g)]) /\ Present(db[Dash(g)]))

\* The newest time stamp stored for an address.
Stored(t, g) == t[Found(t, g)]

\* A stored value is never replaced by an older one; the mirror goes back only
\* from a value whose transaction was rolled back.
NeverBackwards ==
  [][\A g \in Objects :
       /\ Stored(db', g).ts >= Stored(db, g).ts
       /\ Present(cache'[Dash(g)]) /\ cache'[Dash(g)].ts < cache[Dash(g)].ts
            => cache[Dash(g)].ts > Stored(db, g).ts /\ "rolled back" \in gap[g]]_vars

\* Both tables are written together: an address with a recorded event that
\* carries a value has a current value that is not older, and an event has one row.
EventsMatchState ==
  \A i \in EventItems :
    /\ events[EventId(i)] \in {0, 1}
    /\ events[EventId(i)] = 1 /\ CarriesValue(i) =>
         Present(Stored(db, i.ga)) /\ Stored(db, i.ga).ts >= i.ts

\* The answer for an address is the stored value, except when its last write to
\* Redis failed or was lost, or its transaction is open or was rolled back.
AnswersAsStored == \A g \in Objects : gap[g] = {} => HouseAnswer[Dash(g)] = Stored(db, g)

\* The handlers implement the promised register: batches are atomic, and the
\* newest time stamp wins, also within a batch.
Promise == INSTANCE NewestWins
             WITH Addresses <- Objects, Values <- Values \cup {NoValue},
                  Batches <- {p.items : p \in Payloads}, reg <- [g \in Objects |-> Stored(db, g)]
ImplementsNewestWins == Promise!Spec

-----------------------------------------------------------------------------
(* What the documents claim and the code does not keep.                    *)

\* contracts/api-v1.md: GET state/{ga} answers with the entry of the address.
AddressIsServed == \A g \in Objects : Present(Stored(db, g)) => Present(AddressAnswer(g))
=============================================================================
