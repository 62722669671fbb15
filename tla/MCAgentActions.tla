---------------------------- MODULE MCAgentActions ----------------------------
\* Instances of AgentActions for TLC: a kitchen with a status object and a
\* whole-house switch, lights of two floors on two controllers, a house with
\* heating and a kettle, and one whose kettle has no command object.
EXTENDS AgentActions

Object(ga, name, tags, device, boolean) ==
  [ga |-> ga, name |-> name, tags |-> tags, device |-> device, boolean |-> boolean,
   active |-> TRUE]

Kitchen ==
  { Object(<<1, 1, 1>>, <<"svet", "kuhnya">>, {"control", "light", "1floor"}, "d1", TRUE),
    Object(<<1, 2, 1>>, <<"svet", "kuhnya", ":status">>, {"status", "light"}, "d1", TRUE),
    Object(<<1, 1, 2>>, <<"svet", "kuhnya", "ostrov">>, {"control", "light", "1floor"}, "d1", TRUE),
    Object(<<1, 6, 1>>, <<"svet", "master">>, {"control", "light", "1floor"}, "d1", TRUE) }

Upstairs ==
  { Object(<<1, 1, 3>>, <<"svet", "holl", "n2", "etazh">>, {"control", "light", "2floor"}, "d1", TRUE),
    Object(<<1, 1, 4>>, <<"svet", "nastya">>, {"control", "light", "2floor"}, "d2", TRUE),
    Object(<<1, 1, 5>>, <<"svet", "holl", "n1", "etazh">>, {"control", "light", "1floor"}, "d1", TRUE) }

HeatHouse ==
  { Object(<<1, 4, 1>>, <<"ustavka", "tp", "holl">>, {"setpoint", "heat"}, "d1", FALSE),
    Object(<<1, 1, 20>>, <<"tp", "holl">>, {"control", "heat"}, "none", TRUE),
    Object(<<1, 7, 1>>, <<"auto", "tp">>, {"auto", "heat"}, "d1", TRUE) }

KettleHouse ==
  { Object(<<33, 1, 39>>, <<"ble", "teapot", "cmd">>, {"ble", "control"}, "d1", TRUE),
    Object(<<33, 1, 40>>, <<"ble", "teapot", "setpoint">>, {"ble", "control"}, "d1", FALSE) }

BareKettle ==
  { Object(<<33, 1, 39>>, <<"relay">>, {"control"}, "d1", TRUE),
    Object(<<33, 1, 41>>, <<"teapot", "cmd">>, {"teapot", "zigbee_send"}, "none", TRUE),
    Object(<<33, 1, 40>>, <<"chainik", "setpoint">>, {"teapot"}, "d1", FALSE) }

MCWord == {"svet", "kuhnya", "ostrov", "holl", "n2", "n1", "etazh", "nastya", "master", "tp",
           ":status", "ustavka", "auto", "ble", "teapot", "cmd", "setpoint",
           "chainik", "relay", "kettle"}
MCTag == {"control", "light", "status", "heat", "setpoint", "auto", "ble", "teapot",
          "zigbee_send", "1floor", "2floor", "outside"}
MCCanon == [w \in MCWord |-> {w}]
MCStop == {"svet", "n1", "n2", "etazh", ":status", "ustavka", "tp", "setpoint"}
MCOrdinal == [w \in {"n1", "n2"} |-> IF w = "n1" THEN "1floor" ELSE "2floor"]
MCOutside == {}
MCZone == {}
MCHints == <<>>
MCRooms == <<>>

Req(op, q, on, warm, skip, items) ==
  [op |-> op, q |-> q, on |-> on, warm |-> warm, skip |-> skip, items |-> items]

MCAsks ==
  { Req("set_lights", <<"kuhnya">>, "on", "none", TRUE, {}),
    Req("set_lights", <<"svet", "kuhnya">>, "on", "none", TRUE, {}),
    Req("set_lights", <<"svet", "kuhnya">>, "off", "none", TRUE, {}),
    Req("set_lights", <<"n1", "etazh">>, "on", "none", TRUE, {}),
    Req("set_lights", <<"svet", "n2", "etazh">>, "on", "none", TRUE, {}),
    Req("set_light", <<"nastya">>, "on", "none", TRUE, {}),
    Req("set_climate", <<"holl">>, "on", "warm", FALSE, {}),
    Req("set_auto_heating", <<>>, "off", "none", FALSE, {}),
    Req("set_kettle", <<>>, "on", "warm", FALSE, {}),
    Req("set_kettle", <<>>, "on", "none", FALSE, {}),
    Req("set_kettle", <<>>, "none", "warm", FALSE, {}),
    Req("set_commands", <<>>, "none", "none", TRUE,
        {Item(<<1, 1, 3>>, "off"), Item(<<1, 1, 4>>, "on")}) }

MCCatalogs == {Kitchen, Upstairs, HeatHouse, KettleHouse, BareKettle}

\* The houses are as the theorems about them assume.
ASSUME AsAssumed == SetpointsAreNumbers /\ LightsWiredApart
=============================================================================
