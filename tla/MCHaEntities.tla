----------------------------- MODULE MCHaEntities -----------------------------
\* Instances of HaEntities for TLC: a house with a light, a room of its own
\* zone, the two zones of a living room, automatic heating and a kettle.
EXTENDS HaEntities

Object(ga, name, tags, boolean) ==
  [ga |-> ga, name |-> name, tags |-> tags, device |-> "d1", boolean |-> boolean, active |-> TRUE]

Office ==
  { Object(<<1, 1, 1>>, <<"svet", "kabinet">>, {"control", "light", "1floor"}, TRUE),
    Object(<<1, 2, 1>>, <<"svet", "kabinet", ":status">>, {"status", "light"}, TRUE),
    Object(<<1, 6, 4>>, <<"ustavka", "tp", "kabinet">>, {"setpoint", "heat"}, FALSE),
    Object(<<1, 3, 4>>, <<"temp", "kabinet">>, {"temp", "heat"}, FALSE),
    Object(<<1, 5, 4>>, <<"tp", "kabinet", ":status">>, {"status", "heat"}, TRUE) }

Living ==
  { Object(<<1, 6, 5>>, <<"ustavka", "tp", "gostinaya", "n1">>, {"setpoint", "heat", "1floor"}, FALSE),
    Object(<<1, 6, 6>>, <<"ustavka", "tp", "gostinaya", "n2">>, {"setpoint", "heat", "1floor"}, FALSE),
    Object(<<1, 3, 5>>, <<"temp", "gostinaya", "n1">>, {"temp", "heat", "1floor"}, FALSE),
    Object(<<1, 3, 6>>, <<"temp", "gostinaya", "n2">>, {"temp", "heat", "1floor"}, FALSE) }

Shared ==
  { Object(<<1, 7, 1>>, <<"auto", "tp">>, {"auto", "heat"}, TRUE),
    Object(<<33, 1, 38>>, <<"ble", "teapot", "state">>, {"ble", "teapot", "status"}, TRUE),
    Object(<<33, 1, 39>>, <<"ble", "teapot", "cmd">>, {"ble", "control"}, TRUE) }

MCObjects == Office \cup Living \cup Shared

MCWord == {"svet", "kabinet", ":status", "ustavka", "tp", "temp", "gostinaya", "n1", "n2",
           "auto", "ble", "teapot", "state", "cmd", "chainik", "kettle"}
MCTag == {"control", "light", "status", "heat", "setpoint", "temp", "auto", "ble", "teapot", "1floor"}
MCCanon == [w \in MCWord |-> {w}]
MCStop == {"svet", "n1", "n2", ":status", "ustavka", "tp", "temp"}
MCOrdinal == [w \in {"n1", "n2"} |-> IF w = "n1" THEN "1floor" ELSE "1floor"]
MCOutside == {}
MCZone == {}
MCHints == << <<"gostinaya", "gostinaya">>, <<"kabinet", "kabinet">> >>
MCRooms == <<>>
MCUnplaced == {}
MCDegrees == {"warm", "cool"}
\* One floor sensor of the living room differs from the other.
MCStart == [ga \in {o.ga : o \in MCObjects} |->
              IF ObjectAt(MCObjects, ga).boolean THEN "off"
              ELSE IF ga = <<1, 3, 5>> THEN "warm" ELSE "cool"]

\* The proof that zones show their own floors is about such houses.
ASSUME NamedApart == FloorsNamedApart
=============================================================================
