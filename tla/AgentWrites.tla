------------------------------ MODULE AgentWrites -----------------------------
(***************************************************************************)
(* The write operations of services/agent_actions.py up to the point where *)
(* they send: which commands, in which order, committed one by one or      *)
(* together, what is left alone, and the answer.  Pure operators;          *)
(* AgentActions and HaEntities use them.                                   *)
(*                                                                         *)
(* A request is a record: op, q (query), on ("on", "off", "none"), warm    *)
(* (degrees or "none"), skip (skip_unchanged), items (of set_commands).    *)
(***************************************************************************)
EXTENDS AgentReads

ObjectAt(catalog, ga) == CHOOSE o \in catalog : o.ga = ga
Known(catalog, ga) == \E o \in catalog : o.ga = ga

\* each: is every command committed before the next is sent?
Item(ga, value) == [ga |-> ga, value |-> value]
Decision(sends, each, skipped, answer) ==
  [sends |-> sends, each |-> each, skipped |-> skipped, answer |-> answer]
Refuse(answer) == Decision(<<>>, TRUE, {}, answer)

Sendable(catalog, ga) == Known(catalog, ga) /\ ObjectAt(catalog, ga).device # "none"
SendOf(catalog, ga, value) ==
  [device |-> ObjectAt(catalog, ga).device, items |-> {Item(ga, value)}]

\* One address after another; the first without a controller ends the request
\* with an error, and what was sent before stays sent.
Steps(catalog, items, answer) ==
  LET bad  == {i \in 1..Len(items) : ~Sendable(catalog, items[i].ga)}
      good == IF bad = {} THEN items ELSE SubSeq(items, 1, Min(bad) - 1)
  IN Decision([i \in 1..Len(good) |-> SendOf(catalog, good[i].ga, good[i].value)], TRUE, {},
              IF bad = {} THEN answer ELSE "400")

\* The only object found, or a refusal.
OnlyOne(found, Then(_)) ==
  IF ResolveStatus(found) = "ok"
  THEN Then(CHOOSE o \in found : TRUE)
  ELSE Refuse(IF found = {} THEN "404" ELSE "ambiguous")

DecideLight(catalog, a) ==
  OnlyOne(Lights(catalog, a.q), LAMBDA o : Steps(catalog, <<Item(o.ga, a.on)>>, "sent"))

LeftAloneByStatus(catalog, states, a, o) == a.skip /\ LightStatus(catalog, states, o) = a.on

\* A light is left alone only when its status and its control both say so:
\* the status lags behind the control.
LeftAlone(catalog, states, a, o) ==
  a.skip /\ LightStatus(catalog, states, o) = a.on /\ states[o.ga] = a.on

\* All lights found at once, but for those left alone.
LightsAtOnce(found, skipped, a) ==
  LET todo    == {o \in found : o.ga \notin skipped}
      devices == {o.device : o \in todo}
  IN CASE found = {} -> Refuse("404")
       [] Cardinality(found) > 1 /\ ~IsZoneQuery(a.q) -> Refuse("ambiguous")
       [] OTHER ->
     IF todo = {} THEN Decision(<<>>, TRUE, skipped, "ok")
     ELSE IF Cardinality(devices) > 1 \/ "none" \in devices THEN Refuse("400")
     ELSE Decision(<<[device |-> CHOOSE d \in devices : TRUE,
                      items  |-> {Item(o.ga, a.on) : o \in todo}]>>, TRUE, skipped, "sent")

DecideLights(catalog, states, a) ==
  LET found == Lights(catalog, a.q)
  IN LightsAtOnce(found, {o.ga : o \in {o \in found : LeftAlone(catalog, states, a, o)}}, a)

\* validate_command_value: a boolean address takes no degrees.
Valid(catalog, item) == ObjectAt(catalog, item.ga).boolean => item.value # "warm"

DecideCommands(catalog, states, a) ==
  LET asked   == {o \in catalog : o.ga \in {i.ga : i \in a.items}}
      loaded  == asked \cup UNION {UNION {ByName(catalog, name) : name \in Words(StatusSiblingNames(o))}
                                     : o \in asked}
      current(i) == states[FeedbackOf(catalog, ObjectAt(catalog, i.ga), loaded).ga]
      skipped == {i \in a.items : a.skip /\ current(i) = i.value}
      todo    == a.items \ skipped
      devices == SetToSeq({ObjectAt(catalog, i.ga).device : i \in todo})
  IN IF \E i \in a.items : ~Sendable(catalog, i.ga) \/ ~Valid(catalog, i) THEN Refuse("400")
     ELSE Decision([d \in 1..Len(devices) |->
                      [device |-> devices[d],
                       items  |-> {i \in todo : ObjectAt(catalog, i.ga).device = devices[d]}]],
                   FALSE, {i.ga : i \in skipped}, IF todo = {} THEN "ok" ELSE "sent")

\* The setpoint of a room, and with on or off its relay too; a room whose
\* relay is not exactly one is answered all the same.
DecideClimate(catalog, a) ==
  LET relay == Resolve(catalog, a.q, "all", "heat_relay_control")
  IN OnlyOne(Resolve(catalog, a.q, "climate", "climate_setpoint"),
             LAMBDA o : Steps(catalog, <<Item(o.ga, a.warm)>> \o
                              IF a.on # "none" /\ Cardinality(relay) = 1
                              THEN <<Item((CHOOSE p \in relay : TRUE).ga, a.on)>>
                              ELSE <<>>, "sent"))

DecideAutoHeating(catalog, a) == Steps(catalog, <<Item(AutoHeatingGA, a.on)>>, "sent")

\* The write tries the names of a kettle in another order than the read.
KettleWritten(catalog) ==
  FirstFound(catalog, <<<<"teapot">>, <<"ble", "teapot">>, <<"chainik">>, <<"kettle">>>>)

\* The commands a kettle may be switched by.
KettleCommands(found) ==
  {o \in found :
     /\ ~IsKettleSetpoint(o)
     /\ "cmd" \in Words(o.name) \/ {"control", "zigbee_send"} \subseteq o.tags}

KettleFirstObject(found) == {o \in found : \A p \in found : o.ga[3] <= p.ga[3]}

KettleSetpoints(found) == {o \in found : IsKettleSetpoint(o)}

\* Setpoint first, then on or off; without a command object the fixed address.
KettleSteps(catalog, a, setpoints, switches) ==
  LET gas       == IF switches = {} /\ Known(catalog, KettleGA) THEN {KettleGA} ELSE switches
      first     == IF a.warm = "none" THEN <<>>
                   ELSE <<Item((CHOOSE o \in setpoints : TRUE).ga, a.warm)>>
  IN CASE a.warm # "none" /\ Cardinality(setpoints) # 1 -> Refuse("404")
       [] OTHER ->
     CASE a.on = "none" -> Steps(catalog, first, "sent")
       [] a.on # "none" /\ gas = {} -> Steps(catalog, first, "404")
       [] a.on # "none" /\ Cardinality(gas) > 1 -> Steps(catalog, first, "ambiguous")
       [] OTHER -> Steps(catalog, Append(first, Item(CHOOSE ga \in gas : TRUE, a.on)), "sent")

DecideKettle(catalog, a) ==
  LET found == KettleWritten(catalog)
  IN KettleSteps(catalog, a, KettleSetpoints(found), {o.ga : o \in KettleCommands(found)})

Decide(catalog, states, a) ==
  CASE a.op = "set_light"        -> DecideLight(catalog, a)
    [] a.op = "set_lights"       -> DecideLights(catalog, states, a)
    [] a.op = "set_commands"     -> DecideCommands(catalog, states, a)
    [] a.op = "set_climate"      -> DecideClimate(catalog, a)
    [] a.op = "set_auto_heating" -> DecideAutoHeating(catalog, a)
    [] a.op = "set_kettle"       -> DecideKettle(catalog, a)

=============================================================================
