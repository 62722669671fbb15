------------------------------ MODULE HaEntities ------------------------------
(***************************************************************************)
(* The Home Assistant component: a coordinator that polls the read         *)
(* operations one after another, and cards (entities) that show what a     *)
(* person asked for until a snapshot agrees (entity.py, the platforms).    *)
(* The operations are those of AgentReads and AgentWrites.                 *)
(*                                                                         *)
(* Meanwhile commands reach the state map with a delay, other people use   *)
(* wall switches and thermostats, requests fail, and an export may drop an *)
(* object.                                                                 *)
(***************************************************************************)
EXTENDS AgentWrites, HaSnapshot

CONSTANTS
  Objects,     \* the objects of the house
  Start,       \* their values at first
  Degrees,     \* setpoints a person may choose
  MaxAsks,     \* bound: what people ask of cards
  MaxAsked,    \* bound: how many cards they ask
  MaxRivals,   \* bound: changes made by somebody else
  MaxFaults,   \* bound: requests that fail
  MaxLost,     \* bound: objects dropped by an export
  MaxTroubles  \* bound: the last three together

ASSUME HaOK ==
  /\ "cool" \in Degrees /\ "none" \notin Degrees
  /\ MaxAsks \in Nat /\ MaxAsked \in Nat /\ MaxRivals \in Nat /\ MaxFaults \in Nat /\ MaxLost \in Nat /\ MaxTroubles \in Nat
  /\ IsFiniteSet(Objects) /\ \A o \in Objects : o.name \in Seq(Word)
  /\ \A o, p \in Objects : o.ga = p.ga => o = p
  /\ DOMAIN Start = {o.ga : o \in Objects}

VARIABLES
  catalog,  \* active objects, on the server
  seen,     \* the server's state map
  feed,     \* changes on their way to the state map
  stage,    \* the operation that the poll under way calls, 0: no poll
  got,      \* its answers so far
  data,     \* coordinator.data: a set with at most one snapshot
  healthy,  \* last_update_success
  cards,    \* the entities: kind, name, _pending_on or _pending_setpoint, state
            \* written; gas: the address they are about (for the properties)
  calls,    \* write operations under way: card and value
  asks,     \* requests of people so far, as [card, value]
  missed,   \* cards whose last request did not take, or that somebody overrode
  rivals,   \* changes by somebody else so far
  faults    \* failures so far

server  == <<catalog, seen, feed>>
vars == <<server, stage, got, data, healthy, cards, calls, asks, missed, rivals, faults>>

-----------------------------------------------------------------------------
(* Cards                                                                   *)

\* The cards that the platforms create from the first snapshot, in the order of
\* the platforms.
CardsOf(snap) ==
  LET of(kind, names) == SetToSeq({[kind |-> kind, name |-> name] : name \in names})
      rooms == {z.room : z \in snap.climates}
  IN of("light", {l.name : l \in snap.lights}) \o of("zone", rooms)
     \o of("sensor", {s.name : s \in snap.sensors}) \o of("heat", rooms)
     \o of("auto", {<<>>}) \o of("kettle", {k.name : k \in snap.kettle})

ItemByRoom(snap, card) ==
  CASE card.kind = "light"            -> {l \in snap.lights : l.name = card.name}
    [] card.kind \in {"zone", "heat"} -> {z \in snap.climates : Head(z.room) = Head(card.name)}
    [] card.kind = "sensor"           -> {s \in snap.sensors : s.name = card.name}
    [] card.kind = "auto"             -> {snap}
    [] card.kind = "kettle"           -> snap.kettle

\* The item of a card in a snapshot; {} when it is gone.
ItemOf(snap, card) ==
  CASE card.kind = "light"            -> {l \in snap.lights : l.name = card.name}
    [] card.kind \in {"zone", "heat"} -> {z \in snap.climates : z.room = card.name}
    [] card.kind = "sensor"           -> {s \in snap.sensors : s.name = card.name}
    [] card.kind = "auto"             -> {snap}
    [] card.kind = "kettle"           -> snap.kettle

\* _actual_on, _actual_setpoint.
Actual(snap, card) ==
  LET item == CHOOSE i \in ItemOf(snap, card) : TRUE
  IN CASE ItemOf(snap, card) = {}  -> Unknown
       [] card.kind = "light"      -> item.on
       [] card.kind = "zone"       -> item.setpoint
       [] card.kind = "sensor"     -> item.value
       [] card.kind = "heat"       -> AsOn(item.relay_on)
       [] card.kind = "auto"       -> item.auto
       [] card.kind = "kettle"     -> item.on

\* next() finds nothing: the handler raises.  A card that is unavailable is
\* not asked for its state, only for what settles it.
Raises(snap, ok, card) ==
  /\ ItemOf(snap, card) = {}
  /\ card.kind \in (IF ok THEN {"light", "zone", "sensor", "heat"} ELSE {"light", "zone"})

\* _settle_pending
Settled(snap, card) ==
  IF card.pending = Actual(snap, card) THEN "none" ELSE card.pending

WrittenWhileDown(snap, ok, card, pending) ==
  IF pending # "none" THEN pending ELSE Actual(snap, card)

\* What async_write_ha_state writes.
Written(snap, ok, card, pending) ==
  IF ~ok THEN "unavailable"
  ELSE IF pending # "none" THEN pending
  ELSE IF card.kind = "kettle" THEN AsOn(Actual(snap, card))
  ELSE Actual(snap, card)

\* The coordinator calls the cards one after another; one that raises ends it.
Handled(snap, ok) ==
  LET stop == {i \in DOMAIN cards : Raises(snap, ok, cards[i])}
  IN [i \in DOMAIN cards |->
        IF \E j \in stop : j <= i THEN cards[i]
        ELSE [cards[i] EXCEPT !.pending = Settled(snap, cards[i]),
                              !.shown = Written(snap, ok, cards[i], Settled(snap, cards[i]))]]

-----------------------------------------------------------------------------
(* Polling                                                                 *)

\* The operations of a poll, in order, but for those whose cards are left out:
\* get_house_status (online), get_sensors of batteries, get_energy_status.
PollOps == <<"list_lights", "get_climate", "get_temperature", "get_sensors", "get_kettle">>

NothingRead == [lights |-> {}, zones |-> {}, auto |-> Unknown, sensors |-> {}, kettle |-> {}]

\* The answers with the next operation's added.
WithAnswer(op) ==
  LET kettles == Appliances(KettleShown(catalog), seen)
      kettle  == IF Cardinality(kettles) = 1
                 THEN {[name |-> k.name, on |-> k.on, area |-> Unplaced, floor |-> Unplaced] : k \in kettles}
                 ELSE {}
  IN CASE op = "list_lights"     -> [got EXCEPT !.lights = ListLights(catalog, seen, <<>>)]
       [] op = "get_climate"     -> [got EXCEPT !.zones = Zones(catalog, seen, <<>>),
                                                !.auto = IF AutoHeatingGA \in DOMAIN seen
                                                         THEN seen[AutoHeatingGA] ELSE Unknown]
       [] op = "get_temperature" -> [got EXCEPT !.sensors = Temperatures(catalog, seen, <<>>)]
       [] op = "get_sensors"     -> [got EXCEPT !.sensors = @ \cup Sensors(catalog, seen, <<>>, "humidity")]
       [] op = "get_kettle"      -> [got EXCEPT !.kettle = kettle]

\* The roles of the objects that sensor cards show.
SensorRoles == {"room_temp", "floor_temp", "weather", "room_humidity"}

\* The object whose value a card shows: at most one.
ShownObject(card) ==
  LET status == ByName(Objects, Append(card.name, ":status"))
  IN {o \in Objects :
        CASE card.kind = "light"  -> o \in (IF status = {} THEN ByName(Objects, card.name) ELSE status)
          [] card.kind = "zone"   -> ClassifyObject(o) = "climate_setpoint" /\ RoomOf(o) = card.name
          [] card.kind = "sensor" -> ClassifyObject(o) \in SensorRoles /\ o.name = card.name
          [] card.kind = "heat"   -> ClassifyObject(o) = "heat_relay_status" /\ InARow(o.name, card.name)
          [] card.kind = "auto"   -> o.ga = AutoHeatingGA
          [] card.kind = "kettle" -> ApplianceOf(o) = card.name /\ PartOf(o) = "state"}

NewCards(snap) ==
  LET new == CardsOf(snap)
  IN [i \in DOMAIN new |-> [kind |-> new[i].kind, name |-> new[i].name, pending |-> "none",
                            gas |-> {o.ga : o \in ShownObject(new[i])},
                            shown |-> Written(snap, TRUE, new[i], "none")]]

Init ==
  /\ catalog = Objects
  /\ seen = Start
  /\ feed = <<>>
  /\ stage = 1            \* async_setup refreshes
  /\ got = NothingRead
  /\ data = {}
  /\ healthy = TRUE
  /\ cards = <<>>
  /\ calls = {}
  /\ asks = <<>>
  /\ missed = {}
  /\ rivals = 0
  /\ faults = 0

Lost == Cardinality(Objects \ catalog)
Quiet == rivals + faults + Lost < MaxTroubles

\* async_setup found nothing: no platform is loaded, nobody listens, and the
\* coordinator does not poll again.
Stillborn == data = {} /\ ~healthy

\* The timer, a write or a person asks for a refresh; polls do not overlap.
PollStarts ==
  /\ stage = 0 /\ ~Stillborn
  /\ stage' = 1
  /\ UNCHANGED <<server, got, data, healthy, cards, calls, asks, missed, rivals, faults>>

PollReads ==
  /\ stage \in 1..(Len(PollOps) - 1)
  /\ stage' = stage + 1
  /\ got' = WithAnswer(PollOps[stage])
  /\ UNCHANGED <<server, data, healthy, cards, calls, asks, missed, rivals, faults>>

\* The last answer: a snapshot, and the cards are called (or created).
PollEnds ==
  /\ stage = Len(PollOps)
  /\ \E ops \in {WithAnswer(PollOps[stage])} : \E snap \in {FromOps(ops)} :
       /\ data' = {snap}
       /\ cards' = IF data = {} THEN NewCards(snap) ELSE Handled(snap, TRUE)
  /\ healthy' = TRUE
  /\ stage' = 0
  /\ got' = NothingRead
  /\ UNCHANGED <<server, calls, asks, missed, rivals, faults>>

\* One of the operations fails: the old snapshot stays, and the cards are
\* called the first time.
PollFails ==
  /\ stage > 0 /\ faults < MaxFaults /\ Quiet
  /\ faults' = faults + 1
  /\ healthy' = FALSE
  /\ cards' = IF healthy /\ data # {} THEN Handled(CHOOSE d \in data : TRUE, FALSE) ELSE cards
  /\ stage' = 0
  /\ got' = NothingRead
  /\ UNCHANGED <<server, data, calls, asks, missed, rivals>>

-----------------------------------------------------------------------------
(* Writing                                                                 *)

Askable(card) ==
  CASE card.kind \in {"light", "auto", "kettle"} -> {"on", "off"}
    [] card.kind = "zone" -> Degrees
    [] card.kind \in {"sensor", "heat"} -> {}

\* commands.py: the operation behind a card.
Request(card, value) ==
  [op    |-> CASE card.kind = "light"  -> "set_lights"
               [] card.kind = "zone"   -> "set_climate"
               [] card.kind = "auto"   -> "set_auto_heating"
               [] card.kind = "kettle" -> "set_kettle",
   q     |-> card.name,
   on    |-> IF card.kind = "zone" THEN "none" ELSE value,
   warm  |-> IF card.kind = "zone" THEN value ELSE "none",
   skip  |-> FALSE,
   items |-> {}]

\* async_call_op: the card shows the value at once, and the operation is on
\* its way, unless writing the state raised.  Home Assistant passes no
\* requests to a card that is unavailable.
Ask(i, value) ==
  /\ Len(asks) < MaxAsks /\ healthy
  /\ Cardinality({i} \cup {asks[k].card : k \in DOMAIN asks}) <= MaxAsked
  /\ value \in Askable(cards[i])
  /\ LET snap == CHOOSE d \in data : TRUE
         raises == cards[i].kind = "zone" /\ ItemOf(snap, cards[i]) = {}
     IN /\ cards' = [cards EXCEPT ![i].pending = value, ![i].shown = IF raises THEN @ ELSE value]
        /\ calls' = IF raises THEN calls ELSE calls \cup {Len(asks) + 1}
        /\ missed' = IF raises THEN missed \cup {i} ELSE missed \ {i}
  /\ asks' = Append(asks, [card |-> i, value |-> value])
  /\ UNCHANGED <<server, stage, got, data, healthy, rivals, faults>>

\* What follows a control.
Wired(ga) ==
  {p.ga : p \in {p \in catalog : p.name \in Words(StatusSiblingNames(ObjectAt(catalog, ga)))}}

Change(ga, value) == [gas |-> {ga} \cup Wired(ga), value |-> value]

\* A newer request for the same card was served before this one.
Overtaken(n) == \E k \in (n + 1)..Len(asks) : asks[k].card = asks[n].card /\ k \notin calls

\* The server carries out the operation, or it fails; the card does not learn
\* which (an exception goes to the person, "ambiguous" to nobody).
Serve(n, fails) ==
  /\ n \in calls
  /\ fails => faults < MaxFaults /\ Quiet
  /\ \E decision \in {Decide(catalog, seen, Request(cards[asks[n].card], asks[n].value))} :
       \E items \in {UNION {decision.sends[k].items : k \in DOMAIN decision.sends}} :
        /\ feed' = IF fails THEN feed ELSE feed \o SetToSeq({Change(i.ga, i.value) : i \in items})
        /\ missed' = IF fails \/ items = {} \/ Overtaken(n) THEN missed \cup {asks[n].card} ELSE missed
  /\ calls' = calls \ {n}
  /\ faults' = IF fails THEN faults + 1 ELSE faults
  /\ UNCHANGED <<catalog, seen, stage, got, data, healthy, cards, asks, rivals>>

-----------------------------------------------------------------------------
(* Surroundings                                                            *)

\* A change reaches the state map.
Report ==
  /\ feed # <<>>
  /\ seen' = [ga \in DOMAIN seen |-> IF ga \in Head(feed).gas THEN Head(feed).value ELSE seen[ga]]
  /\ feed' = Tail(feed)
  /\ UNCHANGED <<catalog, stage, got, data, healthy, cards, calls, asks, missed, rivals, faults>>

\* Somebody else changes a light or a setpoint.
Rival(i, value) ==
  /\ rivals < MaxRivals /\ Quiet
  /\ cards[i].kind \in {"light", "zone"} /\ value \in Askable(cards[i])
  /\ rivals' = rivals + 1
  /\ feed' = Append(feed, [gas |-> cards[i].gas, value |-> value])
  /\ missed' = missed \cup {i}
  /\ UNCHANGED <<catalog, seen, stage, got, data, healthy, cards, calls, asks, faults>>

\* An export without an object makes it inactive.
Lose(o) ==
  /\ Lost < MaxLost /\ Quiet
  /\ o \in catalog /\ ClassifyObject(o) \in {"light_control", "climate_setpoint"} \cup SensorRoles
  /\ catalog' = catalog \ {o}
  /\ UNCHANGED <<seen, feed, stage, got, data, healthy, cards, calls, asks, missed, rivals, faults>>

Next ==
  \/ PollStarts \/ PollReads \/ PollEnds \/ PollFails
  \/ \E i \in DOMAIN cards : \E value \in Degrees \cup {"on", "off"} :
       Ask(i, value) \/ Rival(i, value)
  \/ \E n \in calls : \E fails \in BOOLEAN : Serve(n, fails)
  \/ Report
  \/ \E o \in Objects : Lose(o)

\* The timer polls again and again, requests end within the time-out of the
\* transport, and the house reports.  Nothing makes anybody ask.  Each fair
\* action is the part of an action above that tells when it can happen.
PollGoesOn == ~Stillborn /\ stage' = (stage + 1) % (Len(PollOps) + 1)
CallEnds(n) == n \in calls /\ calls' = calls \ {n}
ReportComes == feed # <<>> /\ feed' = Tail(feed)

Fairness ==
  /\ WF_stage(PollGoesOn)
  /\ \A n \in 1..MaxAsks : WF_calls(CallEnds(n))
  /\ WF_feed(ReportComes)

Spec == Init /\ [][Next]_vars
FairSpec == Spec /\ Fairness

-----------------------------------------------------------------------------
(* Properties                                                              *)

Shows == {"on", "off", "unavailable", Unknown} \cup Degrees

TypeOK ==
  /\ catalog \subseteq Objects
  /\ DOMAIN seen = {o.ga : o \in Objects}
  /\ stage \in 0..Len(PollOps)
  /\ Cardinality(data) <= 1
  /\ \A i \in DOMAIN cards : /\ cards[i].shown \in Shows
                             /\ cards[i].pending \in {"none"} \cup Askable(cards[i])
  /\ calls \subseteq DOMAIN asks
  /\ missed \subseteq DOMAIN cards

\* Of all that cards show, an operation of a card changes nothing but the thing
\* of that card, as long as the server has that thing: the name or room in its
\* query finds its own object or nothing.  (Once the object is gone, the name of
\* a zone finds the other zone of its room.)
Whole(card) == ShownObject(card) \cup ByName(Objects, card.name) \subseteq catalog

OwnThingOnly ==
  [][\A n \in calls \ calls' : \A k \in DOMAIN feed' \ DOMAIN feed :
       Whole(cards[asks[n].card]) =>
         feed'[k].gas \cap UNION {cards[i].gas : i \in DOMAIN cards} = cards[asks[n].card].gas]_vars

\* The item of some card at or before i is gone from the snapshot.
Broken(i) == \E snap \in data : \E j \in 1..i : Raises(snap, TRUE, cards[j])

\* While the server does not answer, no card goes on showing a value, as if it
\* were known: all are unavailable, but for those behind a card whose item is
\* gone.
UnavailableTogether ==
  ~healthy => \A i \in DOMAIN cards : cards[i].shown = "unavailable" \/ Broken(i)

\* The last request of its card.
LastAsk(k) == \A l \in DOMAIN asks : asks[l].card = asks[k].card => l <= k

\* What a card waits for (_pending_on, _pending_setpoint) is what was last asked
\* of it, whatever polls and other requests came between.
WaitsForLastAsk ==
  \A i \in DOMAIN cards : cards[i].pending # "none" =>
    \E k \in DOMAIN asks : LastAsk(k) /\ asks[k].card = i /\ asks[k].value = cards[i].pending

\* While the server answers, a card shows what it waits for or else what the last
\* snapshot says; but for those behind a card whose item is gone.
ShowsWhatItKnows ==
  healthy => \A i \in DOMAIN cards : \A snap \in data :
               Broken(i) \/ cards[i].shown = Written(snap, TRUE, cards[i], cards[i].pending)

\* Both: what a card shows was asked of it last or read last.
ShowsAskedOrRead == WaitsForLastAsk /\ ShowsWhatItKnows

\* What ZoneShowsOwnFloor needs of a house: it names its floor sensors apart.
\* What is named after the room of a zone is its floor sensor, and no other floor
\* sensor has that label.
FloorsNamedApart ==
  \A o \in Objects : ClassifyObject(o) = "climate_setpoint" =>
    /\ FloorLabel(RoomOf(o)) = RoomOf(o)
    /\ \A p \in Objects : /\ p.name = <<"temp">> \o RoomOf(o)
                          /\ ClassifyObject(p) \in SensorRoles
                          => ClassifyObject(p) = "floor_temp"
    /\ \A p, r \in Objects : /\ ClassifyObject(p) = "floor_temp" /\ ClassifyObject(r) = "floor_temp"
                             /\ FloorLabel(p.name) = RoomOf(o) /\ FloorLabel(r.name) = RoomOf(o)
                             => p = r

\* A zone with a floor sensor of its own name shows that sensor, also where the
\* resolver takes the neighbouring room's.
ZoneShowsOwnFloor ==
  \A snap \in data : \A z \in snap.climates : \A s \in snap.sensors :
    s.name = <<"temp">> \o z.room => z.floor_temp = s.value

\* What a card is about, as the server knows it.
InHouse(i) ==
  IF cards[i].gas = {} THEN "off" ELSE AsOn(seen[CHOOSE ga \in cards[i].gas : TRUE])

\* Every card that is not behind a lost one comes to show the house, unless its
\* last request did not take or somebody overrode it.
CardsCatchUp ==
  <>[](\A i \in DOMAIN cards : cards[i].shown = InHouse(i) \/ i \in missed \/ Broken(i))

-----------------------------------------------------------------------------
(* What the design claims and the code does not keep.                      *)

\* Of the wall switches: "the card catches up with the poll".  Nothing fails and
\* nothing is lost, and yet a light that somebody switches while a request for
\* it is on its way is shown as requested for ever.
CardsCatchUpWithPoll ==
  <>[](\A i \in DOMAIN cards : cards[i].kind = "light" => cards[i].shown = InHouse(i))
=============================================================================
