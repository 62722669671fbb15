------------------------------ MODULE Watchdog ------------------------------
(***************************************************************************)
(* The daemon's life on the controller and the resident script that        *)
(* watches it.  They share storage keys: the daemon writes a heartbeat,    *)
(* its connection and the times of its start, of the last disconnection    *)
(* and of the last bus event; the watchdog diagnoses a fault from them,    *)
(* asks the daemon to end itself (soft) and, when the fault is still there *)
(* at its next run, has the platform kill it (hard).  The platform starts  *)
(* a daemon that has ended.                                                *)
(*                                                                         *)
(* Time is counted in runs of the watchdog (60 s).  In that time a running *)
(* daemon goes round its main loop some 200 times; a time stamp in storage *)
(* is represented by its age, and Unset is the code's 0 or missing key.    *)
(***************************************************************************)
EXTENDS Integers

CONSTANTS
  HeartbeatStale,  \* HEARTBEAT_STALE_SEC
  OfflineLimit,    \* MQTT_OFFLINE_RESTART_SEC
  EventsStale,     \* EVENTS_STALE_SEC
  Cooldown,        \* RESTART_COOLDOWN_SEC
  MaxFaults        \* bound: hangs, crashes, outages, failed kills, remote restarts

ASSUME WatchdogConstants ==
  /\ HeartbeatStale \in Nat /\ OfflineLimit \in Nat
  /\ EventsStale \in Nat /\ Cooldown \in Nat
  /\ MaxFaults \in Nat

VARIABLES
  proc,       \* the daemon's process
  connected,  \* S.connected
  askedEnd,   \* S.restart_at is set
  flag,       \* cm_force_restart
  heartbeat,  \* age of cm_heartbeat
  mqttOk,     \* cm_mqtt_connected
  started,    \* age of cm_started_ts
  disconnect, \* age of cm_last_disconnect_ts
  event,      \* age of cm_last_event_ts
  soft,       \* age of cm_watchdog_soft_ts
  hard,       \* age of cm_watchdog_last_restart
  watch,      \* the running watchdog script, what it has read, and (history) how
              \* things really were then
  broker,     \* can the broker be reached
  iterated,   \* did the main loop go round in this period
  late,       \* did the daemon stay disconnected through a period
  offline,    \* history: how long the daemon has not been connected
  raised,     \* history: age of the request in cm_force_restart
  unmarked,   \* history: the connection was lost without a disconnect mark
  faults

keys == <<flag, heartbeat, mqttOk, started, disconnect, event, soft, hard>>
daemon == <<proc, connected, askedEnd>>
watchdogVars == <<daemon, keys, watch, broker, iterated, late, offline, raised, unmarked, faults>>

Unset == -1

\* No threshold tells ages above Oldest apart.
Oldest == HeartbeatStale + OfflineLimit + EventsStale + Cooldown + 1

Ages == 0..Oldest \cup {Unset}

Older(age) == IF age = Unset \/ age = Oldest THEN age ELSE age + 1

Asleep == [pc |-> "asleep", heartbeat |-> Unset, mqttOk |-> FALSE,
           offline |-> Unset, mark |-> Unset, unmarked |-> FALSE]
Done == [Asleep EXCEPT !.pc = "done"]

\* A controller that was switched on: nothing runs, nothing is stored.
WatchdogInit ==
  /\ proc = "down" /\ connected = FALSE /\ askedEnd = FALSE
  /\ flag = FALSE /\ mqttOk = FALSE
  /\ heartbeat = Unset /\ started = Unset /\ disconnect = Unset /\ event = Unset
  /\ soft = Unset /\ hard = Unset
  /\ watch = Asleep
  /\ broker = TRUE
  /\ iterated = FALSE /\ late = FALSE
  /\ offline = 0 /\ raised = Unset /\ unmarked = FALSE
  /\ faults = 0

Fault == faults < MaxFaults /\ faults' = faults + 1

-----------------------------------------------------------------------------
(* The daemon.                                                             *)

\* mutant: a request made to an earlier daemon is kept
FlagKept == flag

FlagAtStart == FALSE

\* The platform starts the daemon, which resets its keys but for the mark of
\* the last disconnection.
Start ==
  /\ proc = "down"
  /\ proc' = "running" /\ connected' = FALSE /\ askedEnd' = FALSE
  /\ flag' = FlagAtStart
  /\ started' = 0 /\ heartbeat' = 0 /\ event' = 0 /\ mqttOk' = FALSE
  /\ iterated' = FALSE /\ late' = FALSE /\ unmarked' = FALSE
  /\ UNCHANGED <<disconnect, soft, hard, watch, broker, offline, raised, faults>>

\* The process ends.
Ends ==
  /\ proc' = "down" /\ connected' = FALSE /\ askedEnd' = FALSE
  /\ late' = FALSE

\* The main loop goes round: a requested end comes first, then the heartbeat.
Iterate ==
  /\ proc = "running"
  /\ iterated' = TRUE
  /\ IF flag \/ askedEnd
       THEN /\ Ends
            /\ flag' = FALSE
            /\ UNCHANGED <<heartbeat, mqttOk, event>>
       ELSE /\ heartbeat' = 0
            /\ mqttOk' = connected
            /\ event' \in {event, 0}
            /\ UNCHANGED <<daemon, flag, late>>
  /\ UNCHANGED <<started, disconnect, soft, hard, watch, broker, offline, raised, unmarked, faults>>

\* ON_CONNECT
Connect ==
  /\ proc = "running" /\ ~connected /\ broker
  /\ connected' = TRUE
  /\ disconnect' = Unset
  /\ heartbeat' = 0 /\ mqttOk' = TRUE
  /\ late' = FALSE /\ offline' = 0 /\ unmarked' = FALSE
  /\ UNCHANGED <<proc, askedEnd, flag, started, event, soft, hard, watch, broker, iterated,
                 raised, faults>>

\* mutant: the disconnection is not marked
MarkMissing == disconnect

DisconnectMark == 0

\* ON_DISCONNECT
Disconnect ==
  /\ proc = "running" /\ connected /\ ~broker
  /\ connected' = FALSE
  /\ disconnect' = DisconnectMark
  /\ heartbeat' = 0 /\ mqttOk' = FALSE
  /\ UNCHANGED <<proc, askedEnd, flag, started, event, soft, hard, watch, broker, iterated, late,
                 offline, raised, unmarked, faults>>

\* client:loop raises or returns an error, without the callback: no mark.
LoopFails ==
  /\ proc = "running" /\ connected
  /\ Fault
  /\ connected' = FALSE
  /\ unmarked' = TRUE
  /\ UNCHANGED <<proc, askedEnd, keys, watch, broker, iterated, late, offline, raised>>

\* A restart command from the server.
RemoteRestart ==
  /\ proc = "running" /\ connected
  /\ Fault
  /\ askedEnd' = TRUE
  /\ UNCHANGED <<proc, connected, keys, watch, broker, iterated, late, offline, raised, unmarked>>

\* The loop blocks in a call, perhaps for ever; the process dies.
Hang ==
  /\ proc = "running"
  /\ Fault
  /\ proc' = "stuck"
  /\ UNCHANGED <<connected, askedEnd, keys, watch, broker, iterated, late, offline, raised, unmarked>>

Unhang ==
  /\ proc = "stuck"
  /\ proc' = "running"
  /\ UNCHANGED <<connected, askedEnd, keys, watch, broker, iterated, late, offline, raised, unmarked,
                 faults>>

Dies ==
  /\ proc # "down"
  /\ Fault
  /\ Ends
  /\ UNCHANGED <<keys, watch, broker, iterated, offline, raised, unmarked>>

BrokerFails ==
  /\ broker
  /\ Fault
  /\ broker' = FALSE /\ late' = FALSE
  /\ UNCHANGED <<daemon, keys, watch, iterated, offline, raised, unmarked>>

BrokerReturns ==
  /\ ~broker
  /\ broker' = TRUE
  /\ UNCHANGED <<daemon, keys, watch, iterated, late, offline, raised, unmarked, faults>>

-----------------------------------------------------------------------------
(* The watchdog, one run of the script in every period.                    *)

\* The heartbeat and the connection are read at the top.
WatchRead ==
  /\ watch.pc = "asleep"
  /\ watch' = [pc |-> "read", heartbeat |-> heartbeat, mqttOk |-> mqttOk,
               offline |-> offline, mark |-> disconnect, unmarked |-> unmarked]
  /\ UNCHANGED <<daemon, keys, broker, iterated, late, offline, raised, unmarked, faults>>

OfflineSince == IF disconnect = Unset THEN started ELSE disconnect

\* no_heartbeat, heartbeat_stale, mqtt_offline or events_stale; the keys these
\* compare are read now.
Reason ==
  IF watch.heartbeat = Unset THEN started > HeartbeatStale
  ELSE \/ watch.heartbeat > HeartbeatStale
       \/ ~watch.mqttOk /\ OfflineSince # Unset /\ OfflineSince >= OfflineLimit
       \/ watch.mqttOk /\ EventsStale > 0 /\ event > EventsStale

\* No fault: the episode is over.
Clear ==
  /\ ~Reason
  /\ soft' = Unset
  /\ UNCHANGED <<proc, connected, askedEnd, flag, raised, hard, late, faults>>

\* mutant: the soft request is repeated instead of escalated
SoftDueAgain == TRUE

SoftDue == soft = Unset

\* First the daemon is asked to end.
SoftRestart ==
  /\ Reason /\ SoftDue
  /\ soft' = 0
  /\ flag' = TRUE /\ raised' = 0
  /\ UNCHANGED <<proc, connected, askedEnd, hard, late, faults>>

\* mutant: no cooldown
CoolingNever == FALSE

Cooling == hard # Unset /\ hard < Cooldown

\* A kill was tried not long ago: only an alert.
Wait ==
  /\ Reason /\ ~SoftDue /\ Cooling
  /\ UNCHANGED <<proc, connected, askedEnd, flag, raised, soft, hard, late, faults>>

\* The platform kills the daemon, or the request fails and the daemon is asked
\* once more.
HardRestart ==
  /\ Reason /\ ~SoftDue /\ ~Cooling
  /\ hard' = 0
  /\ soft' = Unset
  /\ \/ Ends /\ UNCHANGED <<flag, raised, faults>>
     \/ Fault /\ flag' = TRUE /\ raised' = 0 /\ UNCHANGED <<daemon, late>>

WatchDecide ==
  /\ watch.pc = "read"
  /\ Clear \/ SoftRestart \/ Wait \/ HardRestart
  /\ watch' = Done
  /\ UNCHANGED <<heartbeat, mqttOk, started, disconnect, event, broker, iterated, offline,
                 unmarked>>

\* A period ends.  By then a daemon that ended was started, a running one went
\* round its loop, met a request to end itself and noticed a lost broker; one
\* that can reach the broker again needs at most one more period, as the delay
\* between its attempts is at most a period.
WatchdogTick ==
  /\ watch.pc = "done"
  /\ proc # "down"
  /\ proc = "running" =>
       iterated /\ ~flag /\ ~askedEnd /\ (connected => broker) /\ (broker /\ late => connected)
  /\ watch' = Asleep
  /\ iterated' = FALSE
  /\ late' = (proc = "running" /\ broker /\ ~connected)
  /\ heartbeat' = Older(heartbeat) /\ started' = Older(started)
  /\ disconnect' = Older(disconnect) /\ event' = Older(event)
  /\ soft' = Older(soft) /\ hard' = Older(hard) /\ raised' = IF flag THEN Older(raised) ELSE Unset
  /\ offline' = IF connected THEN 0 ELSE Older(offline)
  /\ UNCHANGED <<daemon, flag, mqttOk, broker, unmarked, faults>>

WatchdogNext ==
  \/ Start
  \/ Iterate
  \/ Connect
  \/ Disconnect
  \/ LoopFails
  \/ RemoteRestart
  \/ Hang
  \/ Unhang
  \/ Dies
  \/ BrokerFails
  \/ BrokerReturns
  \/ WatchRead
  \/ WatchDecide
  \/ WatchdogTick

WatchdogSpec == WatchdogInit /\ [][WatchdogNext]_watchdogVars

\* The platform, the main loop, the script and the clock go on; a call that
\* blocks need not return and the broker need not come back.
WatchdogFairness ==
  /\ WF_watchdogVars(Start) /\ WF_watchdogVars(Iterate) /\ WF_watchdogVars(Connect) /\ WF_watchdogVars(Disconnect)
  /\ WF_watchdogVars(WatchRead) /\ WF_watchdogVars(WatchDecide) /\ WF_watchdogVars(WatchdogTick)

WatchdogFairSpec == WatchdogSpec /\ WatchdogFairness

-----------------------------------------------------------------------------
(* Properties.                                                             *)

\* Type invariant.
WatchdogTypeOK ==
  /\ proc \in {"down", "running", "stuck"}
  /\ connected \in BOOLEAN /\ askedEnd \in BOOLEAN /\ flag \in BOOLEAN /\ mqttOk \in BOOLEAN
  /\ heartbeat \in Ages /\ started \in Ages /\ disconnect \in Ages /\ event \in Ages
  /\ soft \in Ages /\ hard \in Ages
  /\ watch \in [pc : {"asleep", "read", "done"}, heartbeat : Ages, mqttOk : BOOLEAN,
                offline : Ages, mark : Ages, unmarked : BOOLEAN]
  /\ broker \in BOOLEAN /\ iterated \in BOOLEAN /\ late \in BOOLEAN
  /\ offline \in Ages /\ raised \in Ages /\ unmarked \in BOOLEAN
  /\ faults \in Nat

\* A running daemon is only asked to end by a request made since it started: a
\* request whose addressee has died, or was killed, does not end its successor.
RequestIsCurrent ==
  flag /\ proc # "down" => raised <= started

\* The watchdog acts for a cause that really exists: a loop that did not go
\* round, a bus that is silent, or a connection that has been down for the whole
\* limit; unless the loss was not marked or the mark changed between the script's
\* reads.
Cause ==
  \/ watch.heartbeat > HeartbeatStale
  \/ event > EventsStale
  \/ watch.offline >= OfflineLimit

RestartForCause ==
  [][WatchDecide /\ (SoftRestart \/ HardRestart) =>
       Cause \/ watch.unmarked \/ watch.mark # disconnect]_watchdogVars

\* A daemon whose loop is blocked for good is replaced, also when requests to
\* kill it fail now and then.
StuckIsReplaced == proc = "stuck" ~> proc # "stuck"

\* When the broker stays, the daemon is connected again and again: restarts do
\* not come so often that no daemon lives to connect.
ReconnectsAgain == <>[]broker => []<>connected

-----------------------------------------------------------------------------
(* What the documents claim and the code does not keep.                    *)

\* watchdog-resident.lua: mqtt_offline means offline longer than the limit.
OfflineIsLong ==
  [][WatchDecide /\ SoftRestart => Cause]_watchdogVars
=============================================================================
