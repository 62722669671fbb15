------------------------------ MODULE HaRegistry ------------------------------
(***************************************************************************)
(* The areas and entities of Home Assistant: every successful poll puts    *)
(* rooms and things in order (registry.py), then every entity puts itself  *)
(* in its place (entity.py), while the people of the house move things,    *)
(* delete areas and choose sensors, and Home Assistant restarts.           *)
(*                                                                         *)
(* A snapshot is a set of items: kind, name, area, floor.  The registries  *)
(* survive a restart, entity objects do not.                               *)
(***************************************************************************)
EXTENDS HaSnapshot, FiniteSetsExt, SequencesExt

CONSTANTS
  Snapshots,   \* what a poll may find
  Places,      \* areas that people create
  MaxActs,     \* bound: what people do
  MaxRestarts  \* bound

VARIABLES
  areas,     \* area registry: place -> floor, and the sensors it shows (air, humidity)
  ents,      \* entity registry: uid -> place and hidden_by
  entities,  \* entity objects, in the order of the listeners: uid, kind, home (_area_name)
  latest,    \* coordinator.data, {} before the first poll
  acts,      \* what people did so far
  restarts,  \* restarts so far
  calm       \* polls with the same answer since somebody changed something, up to 2

registry == <<areas, ents>>
registryVars == <<registry, entities, latest, acts, restarts, calm>>

Nowhere == <<"none", "">>
Foreign == <<"foreign", <<>>>>    \* a sensor of another integration
NoSensor == <<"none", <<>>>>

Uid(i) == <<i.kind, i.name>>
Relay(i) == <<"relay", i.name>>   \* of a zone; no item has its uid
AutoHeat == <<"auto", <<>>>>

Kinds == <<"light", "zone", "air", "humidity", "relay", "auto", "kettle">>

\* Things of a snapshot are told apart by kind and name, which make the
\* unique_id; what the platforms add is not among them.
ASSUME RegistryOK ==
  /\ MaxActs \in Nat /\ MaxRestarts \in Nat
  /\ \A items \in Snapshots :
       /\ IsFiniteSet(items)
       /\ \A i \in items : i.kind \in {"light", "zone", "air", "humidity", "kettle"}
       /\ \A i, j \in items : Uid(i) = Uid(j) => i = j

-----------------------------------------------------------------------------
(* sync_floors_areas                                                       *)

\* The floors of a place's items: one, but for places named by a hint.
FloorsAt(items, place) ==
  {i.floor : i \in {i \in items : PlaceOf(items, i) = place}} \ {Unplaced}

NewArea == [floor |-> Unplaced, air |-> NoSensor, humidity |-> NoSensor]

\* Every place has an area, and the area is on the floor of the place.
WithAreas(old, items) ==
  [p \in DOMAIN old \cup {House} \cup {PlaceOf(items, i) : i \in items} |->
     LET area   == IF p \in DOMAIN old THEN old[p] ELSE NewArea
         floors == FloorsAt(items, p)
     IN IF p = House \/ floors = {} THEN area
        ELSE [area EXCEPT !.floor = CHOOSE f \in floors : TRUE]]

MovedNewcomers(old, items) ==
  [u \in DOMAIN old |->
     LET mine == {i \in items : Uid(i) = u}
     IN IF mine = {} \/ old[u].place # Nowhere THEN old[u]
        ELSE [old[u] EXCEPT !.place = PlaceOf(items, CHOOSE i \in mine : TRUE)]]

\* Every entity of an item is in the item's place.
Moved(old, items) ==
  [u \in DOMAIN old |->
     LET mine == {i \in items : Uid(i) = u}
     IN IF mine = {} THEN old[u] ELSE [old[u] EXCEPT !.place = PlaceOf(items, CHOOSE i \in mine : TRUE)]]

UnusedWhenGone(places, moved, items) ==
  {p \in LeftoverSplit(places, items) : FloorsByArea(items, p[1]) = {}} \ {moved[u].place : u \in DOMAIN moved}

\* Leftovers of a split that nothing is in.
Unused(places, moved, items) ==
  LeftoverSplit(places, items) \ {moved[u].place : u \in DOMAIN moved}

TakeSensor(found) == IF found = {} THEN NoSensor ELSE Uid(CHOOSE s \in found : TRUE)

PickAlways(current, found) ==
  LET desired == TakeSensor(found)
  IN IF desired # NoSensor /\ \A n \in DOMAIN entities : entities[n].uid # desired THEN current
     ELSE desired

PickIfNone(current, found) ==
  IF current = NoSensor THEN PickAlways(current, found) ELSE current

PickOrClear(current, found) ==
  IF current = NoSensor THEN PickAlways(current, found)
  ELSE IF current = Foreign THEN current ELSE NoSensor

\* pick_area_entity, unless the sensor has no entity yet; an entity that is not
\* loaded has no state, and the area registry refuses it.
PickSensor(current, found) ==
  LET desired == TakeSensor(found)
  IN IF desired # NoSensor /\ \A n \in DOMAIN entities : entities[n].uid # desired THEN current
     ELSE IF current = Foreign THEN current
     ELSE desired

\* The areas with a zone show its air and its humidity.
WithSensors(new, items) ==
  LET zones == {PlaceOf(items, i) : i \in {i \in items : i.kind = "zone"}}
  IN [p \in DOMAIN new |->
        IF p \in zones
        THEN [new[p] EXCEPT !.air      = PickSensor(@, Single(items, items, "air", p)),
                            !.humidity = PickSensor(@, Single(items, items, "humidity", p))]
        ELSE new[p]]

\* _hide_kettle_from_generated_views
WithKettleHidden(moved, items) ==
  [u \in DOMAIN moved |->
     IF moved[u].hidden = "none" /\ \E i \in items : i.kind = "kettle" /\ Uid(i) = u
     THEN [moved[u] EXCEPT !.hidden = "integration"]
     ELSE moved[u]]

-----------------------------------------------------------------------------
(* Entities                                                                *)

\* _ha_area_from_snap: its item's place, or where it was.
HomeOf(e, items) ==
  LET mine == {i \in items : Uid(i) = e.uid}
  IN IF mine = {} THEN e.home ELSE PlaceOf(items, CHOOSE i \in mine : TRUE)

Gone(e, items) ==
  /\ e.kind \in {"light", "zone", "air", "humidity", "relay"}
  /\ \A i \in items : Uid(i) # e.uid /\ Relay(i) # e.uid

\* The listeners that come to _reassign_area: a light or a zone whose item is
\* gone raises before, a sensor after.
Reached(items) ==
  {n \in DOMAIN entities :
     /\ \A m \in 1..(n - 1) : ~Gone(entities[m], items)
     /\ Gone(entities[n], items) => entities[n].kind \notin {"light", "zone"}}

\* _reassign_area: nothing happens while the place has no area.
Reassigned(old, places, items, reached) ==
  [u \in DOMAIN old |->
     LET mine == {n \in reached : entities[n].uid = u /\ HomeOf(entities[n], items) \in places}
     IN IF mine = {} THEN old[u]
        ELSE [old[u] EXCEPT !.place = HomeOf(entities[CHOOSE n \in mine : TRUE], items)]]

-----------------------------------------------------------------------------
(* Actions                                                                 *)

RegistryInit ==
  /\ areas = [p \in {} |-> NewArea]
  /\ ents = [u \in {} |-> [place |-> Nowhere, hidden |-> "none"]]
  /\ entities = <<>>
  /\ latest = {}
  /\ acts = 0
  /\ restarts = 0
  /\ calm = 0

\* A poll: the registries, then the listeners.  Until the platforms are loaded
\* there is no second one.
Poll(items) ==
  /\ latest = {} \/ entities # <<>>
  /\ \E wide \in {WithAreas(areas, items)}, moved \in {Moved(ents, items)}, reached \in {Reached(items)} :
       LET kept == DOMAIN wide \ Unused(DOMAIN wide, moved, items)
       IN /\ areas' = WithSensors([p \in kept |-> wide[p]], items)
          /\ ents' = Reassigned(WithKettleHidden(moved, items), kept, items, reached)
          /\ entities' = [n \in DOMAIN entities |->
                            IF n \in reached THEN [entities[n] EXCEPT !.home = HomeOf(entities[n], items)]
                            ELSE entities[n]]
  /\ latest' = items
  /\ calm' = IF items = latest THEN Min({calm + 1, 2}) ELSE 1
  /\ UNCHANGED <<acts, restarts>>

\* The entities that the platforms make of the first snapshot.
NewEntities ==
  LET of(i, uid, kind) == [uid |-> uid, kind |-> kind, home |-> PlaceOf(latest, i)]
      all == {of(i, Uid(i), i.kind) : i \in latest}
             \cup {of(i, Relay(i), "relay") : i \in {i \in latest : i.kind = "zone"}}
             \cup {[uid |-> AutoHeat, kind |-> "auto", home |-> House]}
  IN FlattenSeq([n \in DOMAIN Kinds |-> SetToSeq({e \in all : e.kind = Kinds[n]})])

\* The platforms are loaded: entities are registered, the kettle hidden, and
\* each puts itself in its place.
Load ==
  /\ latest # {} /\ entities = <<>>
  /\ \E new \in {NewEntities} :
       /\ entities' = new
       /\ ents' = [u \in DOMAIN ents \cup {new[n].uid : n \in DOMAIN new} |->
                     LET mine == {n \in DOMAIN new : new[n].uid = u}
                         e    == new[CHOOSE n \in mine : TRUE]
                         old  == IF u \in DOMAIN ents THEN ents[u]
                                 ELSE [place |-> Nowhere,
                                       hidden |-> IF e.kind = "kettle" THEN "integration" ELSE "none"]
                     IN IF mine = {} \/ e.home \notin DOMAIN areas THEN old
                        ELSE [old EXCEPT !.place = e.home]]
  /\ calm' = 0
  /\ UNCHANGED <<areas, latest, acts, restarts>>

\* Home Assistant restarts: the registries stay.
Restart ==
  /\ restarts < MaxRestarts
  /\ restarts' = restarts + 1
  /\ entities' = <<>>
  /\ latest' = {}
  /\ calm' = 0
  /\ UNCHANGED <<registry, acts>>

-----------------------------------------------------------------------------
(* People                                                                  *)

Act == acts < MaxActs /\ acts' = acts + 1 /\ calm' = 0 /\ UNCHANGED <<entities, latest, restarts>>

MoveEntity(u, p) ==
  /\ Act
  /\ p \in DOMAIN areas /\ p # ents[u].place
  /\ ents' = [ents EXCEPT ![u].place = p]
  /\ UNCHANGED areas

\* Things in the area are then in none.
DeleteArea(p) ==
  /\ Act
  /\ areas' = [q \in DOMAIN areas \ {p} |-> areas[q]]
  /\ ents' = [u \in DOMAIN ents |-> IF ents[u].place = p THEN [ents[u] EXCEPT !.place = Nowhere] ELSE ents[u]]

CreateArea(p) ==
  /\ Act
  /\ p \in Places \ DOMAIN areas
  /\ areas' = [q \in DOMAIN areas \cup {p} |-> IF q = p THEN NewArea ELSE areas[q]]
  /\ UNCHANGED ents

ChooseSensor(p) ==
  /\ Act
  /\ areas' = [areas EXCEPT ![p].air = Foreign]
  /\ UNCHANGED ents

Hide(u, by) ==
  /\ Act
  /\ u[1] = "kettle" /\ ents[u].hidden # by
  /\ ents' = [ents EXCEPT ![u].hidden = by]
  /\ UNCHANGED areas

RegistryNext ==
  \/ \E items \in Snapshots : Poll(items)
  \/ Load \/ Restart
  \/ \E u \in DOMAIN ents : \E p \in DOMAIN areas : MoveEntity(u, p)
  \/ \E p \in DOMAIN areas : DeleteArea(p) \/ ChooseSensor(p)
  \/ \E p \in Places : CreateArea(p)
  \/ \E u \in DOMAIN ents : \E by \in {"none", "user"} : Hide(u, by)

RegistrySpec == RegistryInit /\ [][RegistryNext]_registryVars

-----------------------------------------------------------------------------
(* Properties                                                              *)

RegistryTypeOK ==
  /\ \A p \in DOMAIN areas : areas[p].air \in {NoSensor, Foreign} \/ areas[p].air \in DOMAIN ents
  /\ \A u \in DOMAIN ents : /\ ents[u].place \in DOMAIN areas \cup {Nowhere}
                            /\ ents[u].hidden \in {"none", "user", "integration"}
  /\ \A n \in DOMAIN entities : entities[n].uid \in DOMAIN ents
  /\ latest \in Snapshots \cup {{}}
  /\ calm \in 0..2

\* Whatever people did before, after a poll every entity of an item is in the
\* item's place, though the entities behind one whose item is gone are not
\* asked.
InPlaceAfterPoll ==
  [][calm' > 0 => \A i \in latest' : Uid(i) \in DOMAIN ents' => ents'[Uid(i)].place = PlaceOf(latest', i)]_registryVars

\* Polls that find the same come to rest: after two of them the third changes
\* nothing.  (One is not enough: the registries are put in order before the
\* entities move.)
ComesToRest == [][calm = 2 /\ latest' = latest /\ calm' = 2 => UNCHANGED registry]_registryVars

\* An area with a zone shows the air of that area, or what somebody chose, as
\* soon as the sensor's entity is loaded; never the air of another room.
OwnAirShown ==
  calm > 0 =>
    \A z \in latest : z.kind = "zone" =>
      LET p     == PlaceOf(latest, z)
          own   == {Uid(s) : s \in Single(latest, latest, "air", p)}
          known == own \subseteq {entities[n].uid : n \in DOMAIN entities}
      IN known => areas[p].air \in {Foreign} \cup IF own = {} THEN {NoSensor} ELSE own

\* After two polls there is no room left over from a split without a thing in
\* it.
NoEmptyLeftover ==
  calm = 2 => \A p \in LeftoverSplit(DOMAIN areas, latest) : \E u \in DOMAIN ents : ents[u].place = p
=============================================================================
