------------------------------ MODULE HaSnapshot ------------------------------
(***************************************************************************)
(* The Home Assistant component's snapshot.py: what it makes of the        *)
(* answers of the read operations, and in which HA area each thing goes.   *)
(* Pure operators; HaEntities and HaRegistry use them.                     *)
(*                                                                         *)
(* An item is a record with name, area and floor; a place is an HA area:   *)
(* <<area, floor>>, with floor "" where the name does not tell floors      *)
(* apart.                                                                  *)
(***************************************************************************)
EXTENDS Integers, FiniteSets, Sequences

CONSTANT UnplacedHints  \* _UNPLACED_HINTS: <<word, place>>, for items without an area

Unplaced == "unknown"   \* None

House == <<"house", "">>

-----------------------------------------------------------------------------
(* Places                                                                  *)

\* The floors on which an area has something.
FloorsByArea(items, area) ==
  {i.floor : i \in {i \in items : i.area = area /\ i.area # Unplaced /\ i.floor # Unplaced}}

\* One area on two floors becomes two places.
AreaNameFor(items, area, floor) ==
  IF floor = "outside" THEN <<IF area = Unplaced THEN "outside" ELSE area, "">>
  ELSE IF area # Unplaced /\ floor # Unplaced /\ Cardinality(FloorsByArea(items, area)) > 1
       THEN <<area, floor>>
       ELSE <<area, "">>

\* The place of an item, among all items of the snapshot.
PlaceOf(items, i) ==
  LET hinted == {h \in UnplacedHints : \E n \in 1..Len(i.name) : i.name[n] = h[1]}
  IN IF i.area # Unplaced \/ i.floor = "outside" THEN AreaNameFor(items, i.area, i.floor)
     ELSE IF hinted # {} THEN <<(CHOOSE h \in hinted : TRUE)[2], "">>
     ELSE House

\* Places of the form "area (floor)" whose area is no longer on two floors.
LeftoverSplit(places, items) ==
  {p \in places : p[2] # "" /\ Cardinality(FloorsByArea(items, p[1])) <= 1}

-----------------------------------------------------------------------------
(* Readings of a zone                                                      *)

\* The one sensor of a kind in a place, {} when there is none or several.
Single(sensors, items, kind, place) ==
  LET there == {s \in sensors : s.kind = kind /\ PlaceOf(items, s) = place}
  IN IF Cardinality(there) = 1 THEN there ELSE {}

\* "Temp - hall" and "hall" are the same label.
FloorLabel(name) == IF name # <<>> /\ Head(name) = "temp" THEN Tail(name) ELSE name

FloorSensorOfPlace(zone, sensors, items) == Single(sensors, items, "floor", PlaceOf(items, zone))

\* The floor sensor of a zone: of its name, else the only one in its place;
\* {} leaves the fallback, what get_climate found.
ZoneFloorSensor(zone, sensors, items) ==
  LET named == {s \in sensors : s.kind = "floor" /\ FloorLabel(s.name) = FloorLabel(zone.name)}
  IN IF Cardinality(named) = 1 THEN named
     ELSE Single(sensors, items, "floor", PlaceOf(items, zone))

\* The value of a set of at most one sensor, or a fallback.
ValueOr(found, fallback) ==
  IF found = {} THEN fallback ELSE (CHOOSE s \in found : TRUE).value

-----------------------------------------------------------------------------
(* from_ops                                                                *)

\* A light whose state is not known is off.
AsOn(value) == IF value = Unplaced THEN "off" ELSE value

Placed(row, name) == [name |-> name, area |-> row.area, floor |-> row.floor]

\* ops: rows of list_lights (lights), get_climate (zones), get_temperature and
\* get_sensors (sensors), get_kettle (kettle: at most one); auto: what
\* get_climate says of the automatic heating.
FromOps(ops) ==
  LET placed == {Placed(r, r.name) : r \in ops.lights \cup ops.sensors}
                \cup {Placed(z, z.room) : z \in ops.zones}
      place(z) == PlaceOf(placed, Placed(z, z.room))
      reading(z, kind) == Single(ops.sensors, placed, kind, place(z))
      climate(z) ==
        [room |-> z.room, area |-> z.area, floor |-> z.floor, setpoint |-> z.setpoint,
         floor_temp |-> ValueOr(ZoneFloorSensor(Placed(z, z.room), ops.sensors, placed), z.floor_temp),
         room_temp |-> IF z.room_temp # Unplaced THEN z.room_temp
                       ELSE ValueOr(reading(z, "air"), Unplaced),
         humidity |-> ValueOr(reading(z, "humidity"), Unplaced),
         relay_on |-> z.relay_on]
  IN [lights   |-> {[r EXCEPT !.on = AsOn(@)] : r \in ops.lights},
      climates |-> {climate(z) : z \in ops.zones},
      auto     |-> AsOn(ops.auto),
      sensors  |-> ops.sensors,
      kettle   |-> {[k EXCEPT !.area = IF @ = Unplaced THEN "kitchen" ELSE @] : k \in ops.kettle}]

\* The sensors that the climate view shows beside the zones of a place: those
\* of the place, if there is one of a kind.
ClimateSensors(snap, items, place) ==
  [kind \in {"air", "humidity"} |-> Single(snap.sensors, items, kind, place)]
=============================================================================
