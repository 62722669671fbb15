------------------------------ MODULE AgentReads ------------------------------
(***************************************************************************)
(* The read operations of services/agent_actions.py, with the places of    *)
(* services/placement.py: what list_lights, get_climate, get_temperature,  *)
(* get_sensors and get_kettle make of the objects of a house and its state *)
(* map.  Pure operators; AgentActions and HaEntities use them.             *)
(***************************************************************************)
EXTENDS ObjectResolver, SequencesExt

CONSTANTS
  Hints,        \* _NAME_HINTS: sequence of <<word, area>>, first match counts
  SensorRooms   \* _ZB_ROOM and _ZB_ROOM_FLOOR: <<floor word, room word>> -> area

Unknown == "unknown"  \* None: no value, no area, no floor

ByName(catalog, name) == {o \in catalog : o.name = name}

-----------------------------------------------------------------------------
(* Where an object is                                                      *)

IsSensorName(name) ==
  /\ Len(name) = 4 /\ name[1] = "zb_sensor" /\ name[2] \in {"fl1", "fl2"}
  /\ name[4] \in {"temperature", "humidity", "battery"}

\* The tags name the floor; without them the name of a Zigbee sensor.
FloorOf(o) ==
  CASE o.tags \cap {"outside", "outdoor", "weather"} # {} -> "outside"
    [] o.tags \cap {"1floor", "floor1", "fl1"} # {}       -> "1"
    [] o.tags \cap {"2floor", "floor2", "fl2"} # {}       -> "2"
    [] IsSensorName(o.name) -> IF o.name[2] = "fl1" THEN "1" ELSE "2"
    [] OTHER -> Unknown

\* A Zigbee sensor of a listed room is there; else the first hint found.
AreaOf(o) ==
  LET hits == {i \in 1..Len(Hints) : Hints[i][1] \in Words(o.name)}
      room == <<o.name[2], o.name[3]>>
  IN IF IsSensorName(o.name) /\ room \in DOMAIN SensorRooms THEN SensorRooms[room]
     ELSE IF hits # {} THEN Hints[Min(hits)][2] ELSE Unknown

-----------------------------------------------------------------------------
(* Names of things that belong together                                    *)

\* "X :status", and for "X cmd" also "X state" and "X status", in this order.
StatusSiblingNames(o) ==
  <<Append(o.name, ":status")>> \o
  IF LastWord(o.name) = "cmd"
  THEN LET stem == SubSeq(o.name, 1, Len(o.name) - 1)
       IN <<Append(stem, "state"), Append(stem, "status")>>
  ELSE <<>>

\* The object whose state is the feedback of a control: by name; else the
\* status at the next middle group, but only if the request loaded it; else
\* the control itself.
FeedbackOf(catalog, o, loaded) ==
  LET names == StatusSiblingNames(o)
      named == {i \in 1..Len(names) : ByName(catalog, names[i]) # {}}
      alt   == {p \in loaded : /\ p.ga = <<o.ga[1], o.ga[2] + 1, o.ga[3]>>
                               /\ "status" \in p.tags /\ "control" \notin p.tags}
      candidates == IF named # {} THEN ByName(catalog, names[Min(named)]) ELSE alt
  IN IF "control" \in o.tags /\ candidates # {}
     THEN CHOOSE p \in candidates : TRUE
     ELSE o

\* The value a light is shown with: the status object of its name among all
\* light statuses of the house, whatever the query was.
LightStatus(catalog, states, light) ==
  LET statuses == {p \in Resolve(catalog, <<>>, "light", "light_status") :
                     p.name = Append(light.name, ":status")}
  IN states[(IF statuses = {} THEN light ELSE CHOOSE p \in statuses : TRUE).ga]

-----------------------------------------------------------------------------
(* The operations                                                          *)

Lights(catalog, q) == Resolve(catalog, q, "light", "light_control")

ListLights(catalog, states, q) ==
  {[name |-> o.name, on |-> LightStatus(catalog, states, o),
    area |-> AreaOf(o), floor |-> FloorOf(o)] : o \in Lights(catalog, q)}

\* "Ustavka TP - hall" is the room "hall".
RoomOf(setpoint) ==
  IF Len(setpoint.name) > 2 /\ SubSeq(setpoint.name, 1, 2) = <<"ustavka", "tp">>
  THEN SubSeq(setpoint.name, 3, Len(setpoint.name))
  ELSE setpoint.name

\* Some object found, whichever comes first.
AnyOf(states, found) == IF found = {} THEN Unknown ELSE states[(CHOOSE o \in found : TRUE).ga]

Zones(catalog, states, q) ==
  LET of(o, role) == AnyOf(states, Resolve(catalog, RoomOf(o), "all", role))
  IN {[room |-> RoomOf(o), setpoint |-> states[o.ga], area |-> AreaOf(o), floor |-> FloorOf(o),
       floor_temp |-> of(o, "floor_temp"), room_temp |-> of(o, "room_temp"),
       relay_on |-> of(o, "heat_relay_status")]
        : o \in Resolve(catalog, q, "all", "climate_setpoint")}

Reading(states, o, kind) ==
  [name |-> o.name, kind |-> kind, value |-> states[o.ga], area |-> AreaOf(o), floor |-> FloorOf(o)]

Temperatures(catalog, states, q) ==
  UNION {{Reading(states, o, source[2]) : o \in Resolve(catalog, q, "all", source[1])}
           : source \in {<<"room_temp", "air">>, <<"floor_temp", "floor">>, <<"weather", "outdoor">>}}

Sensors(catalog, states, q, kind) ==
  LET role == IF kind = "humidity" THEN "room_humidity" ELSE "room_battery"
  IN {Reading(states, o, kind) : o \in Resolve(catalog, q, "sensor", role)}

-----------------------------------------------------------------------------
(* The kettle                                                              *)

\* The appliances under the first of the names that has any.
FirstFound(catalog, queries) ==
  LET found(i) == Resolve(catalog, queries[i], "appliance", "any")
      hits     == {i \in 1..Len(queries) : found(i) # {}}
  IN IF hits = {} THEN {} ELSE found(Min(hits))

KettleShown(catalog) ==
  FirstFound(catalog, <<<<"teapot">>, <<"chainik">>, <<"kettle">>, <<"ble", "teapot">>>>)

IsKettleSetpoint(o) == "setpoint" \in Words(o.name) \cup o.tags

\* The part of one appliance that an object is, in the summary of it.
PartRules(o) ==
  << <<"setpoint", IsKettleSetpoint(o)>>,
     <<"cmd", \/ "cmd" \in Words(o.name)
              \/ "zigbee_send" \in o.tags /\ o.tags \cap {"control", "ble"} # {}>>,
     <<"temp", "temp" \in Words(o.name) \cup o.tags>>,
     <<"state", Words(o.name) \cap {"state", "status"} # {} \/ "status" \in o.tags>>,
     <<"none", TRUE>> >>

PartOf(o) == FirstRule(PartRules(o))

\* Objects are of one appliance when their names differ in a last word only.
ApplianceOf(o) ==
  IF LastWord(o.name) \in {"cmd", "state", "status", "temp", "temperature", "setpoint"}
  THEN SubSeq(o.name, 1, Len(o.name) - 1)
  ELSE o.name

\* An appliance is on when it reports so; the command counts only when it
\* reports nothing.
Appliances(found, states) ==
  LET part(name, p)  == {o \in found : ApplianceOf(o) = name /\ PartOf(o) = p}
      value(name, p) == AnyOf(states, part(name, p))
  IN {[name |-> name,
       on |-> IF value(name, "state") # Unknown THEN value(name, "state") ELSE value(name, "cmd"),
       setpoint |-> value(name, "setpoint")]
        : name \in {ApplianceOf(o) : o \in found}}
=============================================================================
