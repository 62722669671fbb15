----------------------------- MODULE AgentActions -----------------------------
(***************************************************************************)
(* services/agent_actions.py: the operations an agent (over MCP, REST or   *)
(* Home Assistant) has on a house.  A write reads the state map, resolves  *)
(* its query, decides what to send, and then publishes and commits one     *)
(* command after another; meanwhile other requests run, the controller     *)
(* executes commands, actuators follow with a delay, people press wall     *)
(* switches, and telegrams report all of that to the state map.            *)
(*                                                                         *)
(* A value is "on", "off" or "warm" (a number of degrees).  The state map  *)
(* is modelled where it is read; its Redis and database copies are the     *)
(* subject of CurrentState, and the life of a command that of Commands.    *)
(***************************************************************************)
EXTENDS AgentWrites

CONSTANTS
  Catalogs,     \* tables of objects a house may have
  Asks,         \* write operations with their arguments
  MaxRequests,  \* bound: write requests
  MaxPresses,   \* bound: presses of wall switches
  MaxFailures   \* bound: publishes that fail, and commits that fail

Values == {"on", "off", "warm"}

ASSUME AgentOK ==
  /\ MaxRequests \in Nat /\ MaxPresses \in Nat /\ MaxFailures \in Nat
  /\ \A c \in Catalogs : IsFiniteSet(c) /\ \A o, p \in c : o.ga = p.ga => o = p
  /\ \A a \in Asks :
       /\ a.op \in {"set_light", "set_lights", "set_commands", "set_climate",
                    "set_auto_heating", "set_kettle"}
       /\ a.on \in {"on", "off", "none"} /\ a.warm \in {"warm", "none"}
       /\ a.op \in {"set_light", "set_lights", "set_auto_heating"} => a.on # "none"
       /\ a.op = "set_climate" => a.warm # "none"
       /\ IsFiniteSet(a.items) /\ \A i \in a.items : i = Item(i.ga, i.value) /\ i.value \in Values

VARIABLES
  catalog,  \* objects of the house
  bus,      \* last value written to each address on the bus
  seen,     \* the state map: last value reported, by address
  feed,     \* telegrams on their way to the state map
  queue,    \* commands on their way to each controller
  cmds,     \* commands made: controller, items, row, are they out
  reqs,     \* write requests made so far
  due,      \* controls written whose actuator has not followed yet
  presses,  \* presses of wall switches so far
  failures  \* failures so far

agentVars == <<catalog, bus, seen, feed, queue, cmds, reqs, due, presses, failures>>

Devices == {o.device : o \in UNION Catalogs} \ {"none"}

-----------------------------------------------------------------------------
(* Requests                                                                *)

AgentInit ==
  /\ catalog \in Catalogs
  /\ bus = [ga \in {o.ga : o \in catalog} |-> "off"]
  /\ seen = bus
  /\ feed = <<>>
  /\ queue = [d \in Devices |-> <<>>]
  /\ cmds = <<>>
  /\ reqs = <<>>
  /\ due = {}
  /\ presses = 0
  /\ failures = 0

\* A request comes in, reads and decides.
Ask(a) ==
  /\ Len(reqs) < MaxRequests
  /\ \E d \in {Decide(catalog, seen, a)} :
       reqs' = Append(reqs, [ask |-> a, sends |-> d.sends, each |-> d.each,
                              skipped |-> d.skipped, answer |-> d.answer,
                              phase |-> IF d.sends = <<>> THEN "done" ELSE "send"])
  /\ UNCHANGED <<catalog, bus, seen, feed, queue, cmds, due, presses, failures>>

\* send_command: a row for the next command in the request's session, and a
\* publication.  A publication that fails is logged and nothing else.
Publish(n, reaches) ==
  /\ reqs[n].phase = "send"
  /\ reaches \/ failures < MaxFailures
  /\ LET c == [req |-> n, device |-> Head(reqs[n].sends).device,
               items |-> Head(reqs[n].sends).items, row |-> "added", acked |-> FALSE]
     IN /\ cmds' = Append(cmds, c)
        /\ queue' = IF reaches THEN [queue EXCEPT ![c.device] = Append(@, Len(cmds) + 1)]
                    ELSE queue
  /\ failures' = IF reaches THEN failures ELSE failures + 1
  /\ reqs' = [reqs EXCEPT ![n].sends = Tail(@),
                          ![n].phase = IF reqs[n].each \/ Len(reqs[n].sends) = 1
                                       THEN "commit" ELSE "send"]
  /\ UNCHANGED <<catalog, bus, seen, feed, due, presses>>

\* The fate of the rows a request added to its session.
RowsOf(n, fate) ==
  [i \in DOMAIN cmds |->
     IF cmds[i].req = n /\ cmds[i].row = "added" THEN [cmds[i] EXCEPT !.row = fate]
     ELSE cmds[i]]

CommitSuccessOnly(n) ==
  /\ reqs[n].phase = "commit"
  /\ cmds' = RowsOf(n, IF reqs[n].answer = "sent" THEN "kept" ELSE "lost")
  /\ reqs' = [reqs EXCEPT ![n].phase = IF reqs[n].sends = <<>> THEN "done" ELSE "send"]
  /\ UNCHANGED <<catalog, bus, seen, feed, queue, due, presses, failures>>

Commit(n) ==
  /\ reqs[n].phase = "commit"
  /\ cmds' = RowsOf(n, "kept")
  /\ reqs' = [reqs EXCEPT ![n].phase = IF reqs[n].sends = <<>> THEN "done" ELSE "send"]
  /\ UNCHANGED <<catalog, bus, seen, feed, queue, due, presses, failures>>

\* The commit raises: the session is rolled back, the request ends with 500.
CommitFails(n) ==
  /\ reqs[n].phase = "commit"
  /\ failures < MaxFailures
  /\ failures' = failures + 1
  /\ cmds' = RowsOf(n, "lost")
  /\ reqs' = [reqs EXCEPT ![n].phase = "done", ![n].sends = <<>>, ![n].answer = "500"]
  /\ UNCHANGED <<catalog, bus, seen, feed, queue, due, presses>>

-----------------------------------------------------------------------------
(* Surroundings                                                            *)

Queued(i) == \E j \in DOMAIN queue[cmds[i].device] : queue[cmds[i].device][j] = i

\* The retry loop sends a recorded command without an answer once more.
Resend(i) ==
  /\ cmds[i].row = "kept" /\ ~cmds[i].acked /\ ~Queued(i)
  /\ queue' = [queue EXCEPT ![cmds[i].device] = Append(@, i)]
  /\ UNCHANGED <<catalog, bus, seen, feed, cmds, reqs, due, presses, failures>>

Telegram(ga, value, wall) == [ga |-> ga, value |-> value, wall |-> wall]

\* What follows a control: the object that carries its name and status.
Wired(ga) ==
  {p.ga : p \in {p \in catalog : \E i \in 1..Len(StatusSiblingNames(ObjectAt(catalog, ga))) :
                                   p.name = StatusSiblingNames(ObjectAt(catalog, ga))[i]}}

\* The controller writes the items of the next command to the bus.  The
\* acknowledgement may be lost.
Execute(d, answered) ==
  /\ queue[d] # <<>>
  /\ answered \/ failures < MaxFailures
  /\ LET i == Head(queue[d])
         written == {item.ga : item \in cmds[i].items}
         value(ga) == (CHOOSE item \in cmds[i].items : item.ga = ga).value
     IN /\ bus' = [ga \in DOMAIN bus |-> IF ga \in written THEN value(ga) ELSE bus[ga]]
        /\ feed' = feed \o SetToSeq({Telegram(ga, value(ga), FALSE) : ga \in written})
        /\ due' = due \cup {ga \in written : Wired(ga) # {}}
        /\ cmds' = [cmds EXCEPT ![i].acked = @ \/ (answered /\ cmds[i].row = "kept")]
  /\ queue' = [queue EXCEPT ![d] = Tail(@)]
  /\ failures' = IF answered THEN failures ELSE failures + 1
  /\ UNCHANGED <<catalog, seen, reqs, presses>>

\* An actuator follows its control and reports.
Follow(ga) ==
  /\ ga \in due
  /\ due' = due \ {ga}
  /\ bus' = [p \in DOMAIN bus |-> IF p \in Wired(ga) THEN bus[ga] ELSE bus[p]]
  /\ feed' = feed \o SetToSeq({Telegram(p, bus[ga], FALSE) : p \in Wired(ga)})
  /\ UNCHANGED <<catalog, seen, queue, cmds, reqs, presses, failures>>

\* Somebody presses a wall switch: the status changes, the control does not.
Press(ga) ==
  /\ presses < MaxPresses
  /\ presses' = presses + 1
  /\ \E o \in catalog : o.ga = ga /\ ClassifyObject(o) = "light_status"
  /\ LET value == IF bus[ga] = "on" THEN "off" ELSE "on"
     IN /\ bus' = [bus EXCEPT ![ga] = value]
        /\ feed' = Append(feed, Telegram(ga, value, TRUE))
  /\ UNCHANGED <<catalog, seen, queue, cmds, reqs, due, failures>>

\* A telegram reaches the state map.
Report ==
  /\ feed # <<>>
  /\ seen' = [seen EXCEPT ![Head(feed).ga] = Head(feed).value]
  /\ feed' = Tail(feed)
  /\ UNCHANGED <<catalog, bus, queue, cmds, reqs, due, presses, failures>>

AgentNext ==
  \/ \E a \in Asks : Ask(a)
  \/ \E n \in DOMAIN reqs : Commit(n) \/ CommitFails(n)
                            \/ \E reaches \in BOOLEAN : Publish(n, reaches)
  \/ \E i \in DOMAIN cmds : Resend(i)
  \/ \E d \in Devices, answered \in BOOLEAN : Execute(d, answered)
  \/ \E ga \in DOMAIN bus : Follow(ga) \/ Press(ga)
  \/ Report

AgentSpec == AgentInit /\ [][AgentNext]_agentVars

-----------------------------------------------------------------------------
(* Properties                                                              *)

Answers == {"ok", "sent", "ambiguous", "400", "404", "500"}

AgentTypeOK ==
  /\ catalog \in Catalogs
  /\ bus \in [{o.ga : o \in catalog} -> Values]
  /\ seen \in [{o.ga : o \in catalog} -> Values \cup {Unknown}]
  /\ DOMAIN queue = Devices
  /\ \A d \in Devices : \A j \in DOMAIN queue[d] :
       queue[d][j] \in DOMAIN cmds /\ cmds[queue[d][j]].device = d
  /\ \A i \in DOMAIN cmds : /\ cmds[i].req \in DOMAIN reqs
                            /\ cmds[i].row \in {"added", "kept", "lost"}
  /\ \A n \in DOMAIN reqs : reqs[n].answer \in Answers /\ reqs[n].phase \in {"send", "commit", "done"}
  /\ due \subseteq DOMAIN bus

\* Nothing is under way that would still change the light's control, and no
\* press of its wall switch is unreported.
CaughtUp(ga) ==
  /\ \A i \in DOMAIN cmds :
       ga \in {item.ga : item \in cmds[i].items} => cmds[i].acked \/ cmds[i].row = "lost"
  /\ \A i \in DOMAIN cmds : Queued(i) => ga \notin {item.ga : item \in cmds[i].items}
  /\ \A j \in DOMAIN feed : feed[j].ga # ga /\ ~(feed[j].wall /\ feed[j].ga \in Wired(ga))

\* Where the light will be when its actuator has followed.
Outcome(ga) ==
  IF ga \in due \/ Wired(ga) = {} THEN bus[ga] ELSE bus[CHOOSE p \in Wired(ga) : TRUE]

Justified(r) == \A ga \in r.skipped : CaughtUp(ga) => Outcome(ga) = r.ask.on

\* How the house is wired for that.  list_lights shows a light by the status
\* named "<light> :status" alone, while other names count for its feedback: so
\* a light has at most one status, of that name, which the list of statuses
\* has and no other object shares.  A status is the actuator's to write: no
\* operation of an agent names it, and it is not at a fixed address.
StatusOf(c, o) == {p \in c : p.name \in Words(StatusSiblingNames(o))}

LightsWiredApart ==
  /\ \A c \in Catalogs : \A o \in c :
       /\ o.ga \in {AutoHeatingGA, KettleGA} => ClassifyObject(o) # "light_status"
       /\ ClassifyObject(o) = "light_control" =>
            /\ \A p \in c : o \notin StatusOf(c, p)
            /\ \A p \in StatusOf(c, o) :
                 /\ p \in Resolve(c, <<>>, "light", "light_status")
                 /\ p.name = Append(o.name, ":status")
                 /\ StatusOf(c, o) = {p} /\ \A l \in c : p \in StatusOf(c, l) => l = o
  /\ \A c \in Catalogs, a \in Asks : \A i \in a.items :
       Known(c, i.ga) => ClassifyObject(ObjectAt(c, i.ga)) # "light_status"

\* set_lights leaves a light alone only if it is as asked, or about to be, as
\* far as the house has had time to report: also while the status lags.
SkipIsJustified ==
  [][\A n \in DOMAIN reqs' \ DOMAIN reqs :
       reqs'[n].ask.op = "set_lights" => Justified(reqs'[n])]_agentVars

\* A request that does not end with 500 leaves a record of every command that
\* it sent, also one that is refused half-way (set_kettle, set_climate).
SentIsRecorded ==
  \A i \in DOMAIN cmds :
    LET r == reqs[cmds[i].req]
    IN /\ cmds[i].row = "lost" => r.answer = "500"
       /\ r.phase = "done" => cmds[i].row # "added"
       /\ r.phase = "done" /\ r.answer # "500" => cmds[i].row = "kept"

\* What the floors and the kettle take degrees by is a number in every house.
SetpointsAreNumbers ==
  \A c \in Catalogs : \A o \in c :
    \/ ClassifyObject(o) = "climate_setpoint"
    \/ ClassifyObject(o) = "zigbee_appliance" /\ IsKettleSetpoint(o)
    => ~o.boolean

\* Degrees are never written to an address that switches: the kettle's
\* setpoint does not go to its command.
DegreesNeverSwitch ==
  \A i \in DOMAIN cmds : \A item \in cmds[i].items :
    item.value = "warm" => ~ObjectAt(catalog, item.ga).boolean

-----------------------------------------------------------------------------
(* What the code claims and does not keep.                                 *)

\* set_commands answers "All items already in requested state", and its sister
\* set_lights explains why the status alone does not show that.
AlreadyInRequestedState ==
  [][\A n \in DOMAIN reqs' \ DOMAIN reqs :
       reqs'[n].ask.op = "set_commands" /\ reqs'[n].answer = "ok" =>
         \A item \in reqs'[n].ask.items :
           CaughtUp(item.ga) => Outcome(item.ga) = item.value]_agentVars
=============================================================================
