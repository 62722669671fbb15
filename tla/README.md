# CottageMonitoring: verification project

TLA+ specifications of the CottageMonitoring smart-home system, checked with TLC
on small instances and proved with TLAPS where the size does not matter.

## 1. The system

A house has one or more LogicMachine controllers. Each runs a Lua **daemon**
(`src/cm-client/daemon/daemon.lua`) that bridges the KNX bus and an MQTT broker,
a **watchdog** (`scripts/watchdog-resident.lua`) that restarts the daemon, and
resident automation scripts (warm floors, Modbus). A Python **server**
(`src/server`) subscribes to all houses, keeps PostgreSQL and Redis up to date,
and offers HTTP, MCP and "ops" interfaces. A Home Assistant **integration**
(`src/ha`) polls a snapshot operation and calls write operations.

### Components, their state, operations and what makes them correct

| Component | State | Operations | Hard behaviour | Correct when |
|---|---|---|---|---|
| Command service (`services/command_service.py`) | `commands` rows; sessions of the request, the ack handler and the retry pass | `send_command`, `handle_ack`, `retry_pending_commands` | three coroutines with their own sessions, publish before commit, lost and duplicated messages, crash between publish and commit | bounded re-sends, truthful status, nothing stays open |
| House and device status (`services/house_service.py`, `api/devices.py`, `api/houses.py`) | `devices.online_status`, `last_seen`, `houses.online_status`, `is_active` | `ensure_house`, `ensure_device`, `handle_status`, `mark_stale_devices_offline`, PATCH | liveness sweep against the message loop, aggregate computed from a snapshot, stale object reused after other sessions committed | the house status is the aggregate of its devices |
| Ingestor (`services/ingestor.py`, `mqtt/topic_parser.py`) | none of its own | `handle_message` | dispatch, inactive houses, retained messages | one handler per message, responses always processed |
| Current state and events (`services/state_service.py`, `event_service.py`, `redis_cache.py`) | `current_state`, `events`, Redis hash | `handle_state`, `handle_states_batch`, `handle_event`, `handle_events_batch` | out-of-order and duplicated messages, batch rollback after Redis was written | newest timestamp wins in both stores |
| Schema service (`services/schema_service.py`) | objects, schema versions, chunk buffers | `handle_full_meta`, `handle_chunk_meta`, `_process_schema` | retained replay, chunks of two rounds | active objects are those of the newest export |
| RPC service (`services/rpc_service.py`) | pending requests | `_send_rpc`, `handle_rpc_response` | request and subscription use different client ids; no timeout | a response reaches its request |
| MQTT client and lifespan (`mqtt/client.py`, `main.py`) | publisher connection, shutdown flag | `publish`, `start_publisher`, `stop_publisher`, `messages`, `lifespan` | lazy reopen against shutdown, reconnect | closed after shutdown |
| Object resolver (`object_resolver.py`, `placement.py`) | none | classification, `resolve_*` | a query names several things, or a neighbour | a query finds what it names or says that it is ambiguous |
| Agent actions (`agent_actions.py`) | none of its own: state map in, commands out | `set_light(s)`, `set_climate`, `set_kettle`, `set_auto_heating`, `set_commands`, reads | a status that lags the control, a batch that is refused half-way | what is left alone is as asked, what is sent is recorded |
| Operations, MCP and authorisation (`ops/*`, `mcp/server.py`, `auth/*`) | Redis counter, in-memory window, keys | `dispatch`, REST middleware, `check_write_rate_limit` | two faces with the same rights, INCR and EXPIRE not atomic, fallback | no operation outside the key's grants, a bounded number of writes a minute, no key blocked for ever |
| Daemon (`daemon/daemon.lua`) | MQTT client, offline buffer, event batch, heartbeat | callbacks, main loop, `publish_meta` | callbacks inside `client:loop`, reconnect back-off, buffer limit | no event lost while the buffer has room |
| Watchdog (`scripts/watchdog-resident.lua`) | storage keys, soft/hard episode | one decision every 60 s | stale heartbeat, cooldown, escalation | restarts only what is dead, never in a loop |
| Warm floors (`docs/superpowers/plans/manage_warm_floor.lua`, scripts `0031` and `0032`, `mqtt_listen.lua`) | relays, ages of objects, `warm_floors.enable` | one pass a period, the event script, the listener | relays set one by one with pauses, people and the event script in between, sensors that go silent | power under the limit, warm floors are cut, off means off |
| Modbus scripts | copies of coils and registers | poll, write to a group object | one way only: nothing they write is read back by them | – |
| HA integration, cards (`entity.py`, platforms, `coordinator.py`, `snapshot.py`) | pending overlay of an entity, coordinator snapshot | poll, `async_call_op`, `_settle_pending` | optimistic state against a poll begun before the change, overtaking requests | a card changes its own thing, and shows the house in the end |
| HA integration, registries (`registry.py`) | area and entity registries of Home Assistant | `sync_floors_areas`, placing of entities | a room that is split or joined, entities not loaded yet, people who move things | things end in their rooms, equal polls come to rest |

Components talk through MQTT topics (`cmd`, `cmd/ack`, `state`, `events`,
`meta`, `status`, `rpc`), the database, Redis, HTTP between Home Assistant or an
agent and the server, and on the controller through `storage` keys and the KNX
bus.

## 2. Modules and the plan

Every component that changes state has a module of its own; pure algorithms that
several use are modules of operators. Two components have an abstract
specification of what they promise. A module `MCx` instantiates `x` for TLC,
`xProofs` holds the theorems. Components that belong together share a module of proofs,
and the definitions of one of them then carry its name (`AgentSpec`, `RegistrySpec`,
`WatchdogSpec`).

| Module | Component | What is done |
|---|---|---|
| `Commands`, `CommandLifecycle` (what a caller is promised), `CommandsProofs` | command service, daemon's command handler | checked; safety and refinement proved |
| `HouseStatus`, `HouseStatusProofs` | house and device status, ingestor, both loops | checked; safety proved |
| `CurrentState`, `NewestWins` (the promised register), `CurrentStateProofs` | states, events, Redis, GET handlers | checked; safety and refinement proved |
| `SchemaSync`, `SchemaSyncProofs` | `publish_meta`, retained chunks, schema service | checked; safety proved |
| `Telemetry` (uses `NewestWins` as the server), `TelemetryProofs` | daemon from bus to broker, broker, server | checked; safety proved |
| `Watchdog`, `ScriptsProofs` | resident script and the life of the daemon | checked; safety proved |
| `ObjectResolver`, `AgentReads`, `AgentWrites` (operators), `AgentActions`, `CommandsProofs` | from a query to commands, and what happens to the house meanwhile | checked; safety proved |
| `HaSnapshot` (operators), `HaEntities`, `HaProofs` | polls and cards of Home Assistant | checked; `UnavailableTogether`, `ZoneShowsOwnFloor` and `ShowsAskedOrRead` proved |
| `HaRegistry`, `HaProofs` | areas and entities of Home Assistant | checked; safety proved |
| `OpsAccess` (operators), `Gateway`, `GatewayProofs` | catalogue, keys, houses, both faces, rate limit | checked; access, payment and `AnyMinute` proved |
| `WarmFloors`, `ScriptsProofs` | heated floors | checked; types, `LimitKept` and the invariant behind `OffMeansOff` proved |

How the modules fit together:

- `AgentReads` extends `ObjectResolver`, `AgentWrites` extends `AgentReads`;
  `AgentActions` and `HaEntities` extend `AgentWrites`. `HaEntities` and `HaRegistry`
  extend `HaSnapshot`. So a card of Home Assistant is checked against the very
  operators that decide what an operation of the server sends and what a read
  answers: `HaEntities` is the composition of integration, resolver and actions.
- `Gateway` extends `OpsAccess` and ends where `AgentActions` begins: a call that it
  runs is a request there. A command that `AgentActions` commits is a row in
  `Commands`; a re-send of its retry pass is `Resend`.
- `Telemetry` ends where `CurrentState` begins. Its server is the operator
  `NewestWins!After`, which `CurrentState` is proved to implement, so that
  convergence need not be checked against sessions, spellings and Redis again.
- `SchemaSync` takes the objects and `Telemetry` the values of one `publish_meta`.
  `Commands` holds both ends of a command, `Watchdog` the ends of the daemon that
  `Telemetry` has as `Restart`.

Open work: the order of shutdown of `lifespan`, with a publisher that is opened again by
a call still under way; `OwnThingOnly` for every house, which needs a statement of
the names that the resolver tells apart.

## 3. How the modules correspond to the code

**Granularity.** The server is one asyncio process: what happens between two
awaits is atomic. A module has a step wherever another coroutine, another
session's commit, a crash or a broken connection can come between and makes a
difference: an await of a publish or of a Redis command, each statement that reads
what another session may change, each commit. The Lua daemon is one thread whose
callbacks run inside `client:loop`, so a callback or a piece of the main loop is
one step, except that a link may break between any two publications of it. The
warm-floor script is one pass that yields at each pause: it reads in one step and
sets one relay per step. Home Assistant is one event loop: a poll has one step per
operation it calls.

**Sessions.** A session is a record: `pass` and `ack` in `Commands`, `ing` and
`sweep` in `HouseStatus`, `mine` and `logged` in `CurrentState`. SQLAlchemy
writes changed columns only, so commits are modelled by columns. `HouseStatus`
assumes PostgreSQL's READ COMMITTED and its row locks (`Locked`).

**Messages.** `Commands` has copies of messages in a bag; losing one is never
delivering it. The other modules have a sequence (one MQTT connection keeps the
order) and the broker's retained messages, replayed in any order to a server that
reconnects.

**Texts.** A name or a query is a sequence of words, so that the substring tests of
the resolver become tests for words in a row. What `pymorphy` and the synonym table make
of a word is the constant `Canon`.

**History variables** only record: `drift` and `stale` (why the house status may
differ), `gap` (why Redis may differ), `lost`, `offline`, `raised`, `unmarked`,
`missed` (cards whose last request did not take), `calm` (equal polls in a row),
`written` and `orphaned` (writes by age; counters whose expiry a fault has
swallowed), `byHand` and `limits` (floors that people switched; the limits that the
last two passes read). No guard reads them.

| Module | Steps | Code |
|---|---|---|
| `Commands` | `StartRequest`, `SendCommand`, `CommitRequest`, `FailRequest`; `DeviceExecute`; `AckRead`, `AckCommit`, `AckFail`; `RetrySelect`, `RetryOne`, `RetryCommit`, `RetryFail`; `Crash` | `send_command`, `handle_ack`, `retry_pending_commands`, `set_commands`; `ON_MESSAGE` |
| `HouseStatus` | `EnsureHouse`, `LoadDevice`, `TouchDevice`, `Dispatch`, `HandleStatus`, `CommitStatus`; `SweepMark`, `SweepAggregate`, `SweepCommit`; `PatchDevice`, `PatchHouse` | `ensure_*`, `handle_message`, `handle_status`, `mark_stale_devices_offline`, PATCH handlers |
| `CurrentState` | `Receive`, `HandleState`, `HandleEvent` (one item each; an event without a value is recorded and changes no state), `WriteCache`, `Commit`; `WriteCacheFails`, `Fail`, `CacheLost` | `handle_state(s_batch)`, `handle_event(s_batch)`, `_write_redis`, GET handlers |
| `SchemaSync` | `Export` (any messages in a row of it may arrive), `Repeat`, `Reconnect` (also a restart); `HandleFull`, `HandleChunk`, `PassOver`, `HandleFail` | `publish_meta`, `do_pub` and its buffer; `handle_message`, `handle_full_meta`, `handle_chunk_meta`, `_process_schema` |
| `Telemetry` | telegram, flush, exports, link, callbacks, restart; delivery, replay | main loop, `handle_bus_event`, `flush_batch`, `do_pub`, `ON_CONNECT`, `ON_DISCONNECT` |
| `Watchdog` | start, iteration, callbacks, hang and death of the daemon; the two steps of the script (reads, decision); the clock | daemon lines 1-12 and main loop; `watchdog-resident.lua` |
| `AgentActions` | `Ask`, `Publish`, `Commit`, `CommitFails`; `Resend`; `Execute`, `Follow`, `Press`, `Report` | the write operations with `_send_command` and its commits; the retry pass; controller, actuators, wall switches, telegrams |
| `HaEntities` | `PollStarts`, `PollReads`, `PollEnds`, `PollFails`; `Ask`, `Serve`; `Report`, `Rival`, `Lose` | `_async_update_data`, listeners; `async_call_op` and its error paths; state map, other people, an export without the object |
| `HaRegistry` | `Poll`, `Load`, `Restart`; `MoveEntity`, `DeleteArea`, `CreateArea`, `ChooseSensor`, `Hide` | `sync_floors_areas`, `_handle_coordinator_update`, `async_setup_entry`; what people do in the interface |
| `Gateway` | `Arrive`, `Refuse`, `Incr`, `Expire`, `Unreachable`, `IncrUnanswered`, `Run`; `Tick`, `Revoke`; `RedisDown`, `RedisBack`, `RedisEmpty`, `Crash` | middleware, `dispatch`, `resolve_house`, `check_write_rate_limit`; time, keys; Redis and the process |
| `WarmFloors` | `StartPass`, `PassWithoutAuto`, `Apply`; `EventRuns`; `SwitchAuto`, `Press`, `Hear`, `FloorTemp`, `RoomSetpoint`, `MasterSetpoint`, `SetLimit`, `Tick` | `manage_warm_floor.lua`; event script 0031; people, `mqtt_listen.lua`, the bus, script 0032, time |

Of the scripts of warm floors the repository keeps two texts. `WarmFloors` is about
`docs/superpowers/plans/manage_warm_floor.lua`, which
`scripts/lm-live/2026-10-24/manifest.json` names as the current one; `0039` beside that
manifest is the text before the block for the living room was added.

`PROJECT.json` maps every definition to its lines.

## 4. What the runs check

A "pass" run holds for the whole bounded state space; the "violation" run has one
property, which a document of the repository claims and the code does not keep.

| Run | Shows | Bounds and why they suffice |
|---|---|---|
| `MCCommands_all` | `SendBudget`: number of publications; `ImplementsLifecycle`: no command reopened, answers were given; `EveryCommandSettles`: an open command is closed | two commands of one request, so that a batch can be half sent or half answered; acks without a status, with `ok`, `error` and a word of the client's own; one re-send, one copy, one crash or failed commit: each hazard needs one of each |
| `MCCommands_relapse` | **violation** of `TimeoutMeansUnanswered`: a retry pass that read the row before an ack was committed puts `timeout` over the answer | one command, no fault |
| `MCHouseStatus_all` | `HouseIsAggregate`; `OfflineOnlyIfSilent`; `SilentGoesOffline`; `EventsRecover` | two controllers: the smallest house that can be `partial`; one handler or sweep raises |
| `MCSchemaSync_all` | `ActiveIsOneSchema`: active objects are one export, never a mixture; `NewestInForce`: the newest one while connected; `AttributesInForce`: its attributes, or the reason why they wait in the buffer; `CompleteIsStored` | catalogues of one and two messages that overlap, three exports (one to leave a rest, its first message or its last; one to complete it; one to come back), one repeat, replay and fault |
| `MCCurrentState_all` | one row per address, events and values together, Redis against database, no step back, refinement of `NewestWins` | two addresses; single states with three time stamps, batches in which an address comes twice, repeated and late events, an event without a value; two faults, so that a rollback can follow a lost cache |
| `MCTelemetry_all` | `EventsInOrder`: order and completeness of events; `QuietAgrees`: agreement with the bus when all has arrived; `Converges`: agreement in the end, after losses too | two addresses, two inputs, two seconds (time stamps that tie and that do not), batch of two, a buffer of five that a batch and an export (four and two messages) overflow, one fault; the first two are proved for any of these |
| `MCWatchdog_all` | no request ends a later daemon; restarts have a cause; blocked daemons are replaced; some daemon lives to connect | limits 1, 3, 4, 3 periods, in the order of the real 2, 10, 15, 5 (which were checked too, 2.2 million states); two faults, such as an outage and a failed kill |
| `MCAgentActions_all` | `SkipIsJustified`: a light left alone is as asked, also while its status lags; `SentIsRecorded`: what was sent has a row unless the answer is 500; `DegreesNeverSwitch` | five houses of two to four objects (status and whole-house switch, two floors on two controllers, heating with an object without controller, two kettles), twelve requests that differ in what they find; two requests, so that one meets what the other has not finished; one press, one failure (`MaxFailures`) |
| `MCHaEntities_all` | `OwnThingOnly`: a request of a card changes nothing that another card shows; `CardsCatchUp`; `UnavailableTogether`; `ZoneShowsOwnFloor` | a light, three zones of which two share a room, their floor sensors and relays, heating and kettle; two requests of one card, which can overtake each other and a poll; one trouble (rival, failed request or lost object), since each of them alone ends in the case that a property excuses |
| `MCHaRegistry_all` | `InPlaceAfterPoll`, `OwnAirShown`, `NoEmptyLeftover`, `ComesToRest` | four answers in which a bedroom is on one floor, on two and on the other, and its sensor is replaced or moves; one act of a person, one restart between any two polls |
| `MCGateway_all` | `AnyMinute`: writes in any minute; `RefusedCostsNothing`; `KeyComesBack` | limit 2 and a minute of 2 ticks, so that two counters adjoin within a minute; two calls at once; two faults, so that Redis can fail and come back between two writes |
| `MCWarmFloors_all` | `LimitKept`; `TooWarmIsCut`; `OffMeansOff` | the two halves of the living room, which share an air sensor, a floor with a sensor in each half and a priority, power for one of them at a time, a fresh period of 0 and two periods to the longest heating; two changes of temperatures (also to no number), setpoints, limit or relays and one of automatic heating, at any point of a pass |

`CHECK_DEADLOCK FALSE` is set for `SchemaSync` (nobody need export again),
`Telemetry` (a daemon whose first export raised has nothing left to do on a quiet
bus), `AgentActions` (nobody need ask again) and `HaEntities` (where the first poll
fails no platform is loaded and no timer polls again: `Stillborn`). Every other
system always has a next step.

The type invariant (`TypeOK`, or with the name of the component before it) is in no run:
TLAPS proves it for every module with actions but `HaEntities`, where TLC finds it kept when it is
added to the configuration of the run.

Every property of a passing run has a mutant in `PROJECT.json`: a plausible bug in
the code, under which the run finds the property violated.

### Where documents and code part

With a run: the *relapse* of `MCCommands_relapse` (`command_service.py:244`); FR-041
says that `timeout` means no answer.

Stated at the end of the modules as properties that TLC finds violated on the instance
of the module's run or a variation of it, with no configuration kept for them:

- `HouseStatus.HouseFollowsDevices`: sweep and `handle_status` overlap and the house
  keeps a status that none of its controllers justifies (`house_service.py:187`).
- `SchemaSync.NewestWins`: after a reconnection an old retained export can win
  (`schema_service.py:186`; FR-032).
- `CurrentState.AddressIsServed`: rows are stored with dashes and the handler for one
  address asks with slashes: 404 (`api/state.py:92`).
- `Watchdog.OfflineIsLong`: without a disconnect mark a brief outage counts from the
  start of the daemon (`watchdog-resident.lua:157`).
- `AgentActions.AlreadyInRequestedState`: `set_commands` leaves an item alone by its
  status only, and `set_lights` explains why that does not show it.
- `HaEntities.CardsCatchUpWithPoll`: a light that somebody switches while a request for
  it is on its way is shown as requested until somebody asks again (`entity.py:54`).
- `WarmFloors.LongHeatingEnds`: protection B measures the age of the relay object, and
  every pass that keeps the relay on updates the object and sets the age back
  (`manage_warm_floor.lua:297`; that `grp.update` sets the age is what `mqtt_listen.lua:23` relies on).

Met while modelling, without a property:

- The request publishes before it commits: an ack that is faster than the commit
  finds no row and is thrown away (`command_service.py:166`).
- A re-send hidden by a failed commit comes on top of the three of FR-040; the proved
  bound counts it.
- The daemon's ack has no `status`, so the server records `ok` also for a write that failed
  (`daemon.lua:267`; `specs/002` says that `ok` means applied); the failure is in
  `results` only. A client's ack may state any word, and `handle_ack` stores it, `sent` and
  `timeout` too (`command_service.py:48`): the first would make the retry loop send an
  answered command again.
- A chunk that is transmitted twice, or the last chunks of an export whose first were
  dropped from the daemon's full buffer, stay in the server's buffer and shift every later
  assembly of the same addresses: it is complete before its own last chunks come, so their
  objects have attributes one export old, until the server restarts or a chunk is lost. `AttributesInForce`
  says that this is the only way, and that the newer attributes are in the buffer.
- An ack whose `status` is no text, or longer than the column, raises in the handler and the
  answer is gone (`AckFail`).
- When the Redis data was lost, one new state makes the answer for the house consist
  of that address only.
- The first export that raises ends all periodic snapshots of that daemon
  (`daemon.lua:365` and `399`).
- On a bus that is silent for `EVENTS_STALE_SEC` the watchdog restarts a healthy daemon.
- A controller clock that was once ahead freezes the addresses it wrote.
- RPC requests go to the server's client id and the daemon listens under its own.
- `INCR` and `EXPIRE` of the write limit are two commands: a fault between them leaves a
  counter that never expires, and the key is refused until somebody deletes it.
  `KeyComesBack` excludes exactly this (`orphaned`).
- A key with the scope `write` alone can write over MCP and over REST it can do nothing:
  the middleware asks for `read` whatever the operation, although `GET /ops` lists the
  writes for it (`auth/middleware.py:59`).
- A zone whose object was lost from an export is found by its neighbour's name: its
  card then steers the other zone of the room. `OwnThingOnly` excludes it (`Whole`).
- A card whose item is gone raises in its listener, and the cards behind it are not
  told: they keep what they showed (`Broken`).
- The power of a room that is refused stays subtracted, so that no smaller room of
  lower priority gets any in that pass.

### Fairness

| Module | Weakly fair | Why |
|---|---|---|
| `Commands` | clock, the retry pass | `_command_retry_loop` goes on after exceptions; messages need not arrive |
| `HouseStatus` | steps of a message begun, the sweep | `_mqtt_loop` catches what a handler raises, `_device_liveness_loop` too; messages need not come |
| `SchemaSync` | handling of what arrived | as above |
| `Telemetry` | exports of the daemon's main loop, noticing a broken link, reconnection, delivery | the loop is unconditional, reconnection is retried for ever; faults are bounded, so they end. That telegrams are handled and batches flushed is not needed: snapshots alone bring the register to the bus |
| `Watchdog` | start by the platform, main loop, script, clock | a blocked call need not return, a broker need not come back |
| `HaEntities` | the poll, the end of a request, reports | the coordinator's timer polls for ever, the transport has a time-out, the house reports what happens; nobody need ask. Each condition is the part of an action that tells when it is enabled, which TLC evaluates faster than the action |
| `Gateway` | time; a call that goes on to its second command of Redis | a call in progress ends; nobody need call |
| `WarmFloors` | the schedule, a pass that was started | the scheduler runs the script every period; pauses end. Script 0031 is an event script and need not run |

`CurrentState`, `AgentActions` and `HaRegistry` have no liveness property.

### Assumptions worth knowing

- `HouseStatus`: a message is handled within the 180 s of
  `device_offline_after_seconds`; time stamps are "recent" or "old".
- `CurrentState`: the daemon numbers every event and no number is used for two events
  of the same address and time (`EventsAreNumbered`).
- `SchemaSync`, `Telemetry`: one controller; the export's order of addresses is the
  daemon's. The client library's own retransmission (QoS 1) appears as a repeated message
  in `SchemaSync` only. The clock does not step back. `batch_interval` and
  `snapshot_interval` are positive (1.5 and 300 by default).
- `Watchdog`: the unit is one run of the script (60 s). A soft request is therefore
  always older than the 45 s of `SOFT_ESCALATE_SEC` at the next run, a daemon
  goes round its loop many times in between, and one that can reach the broker
  needs at most one period more (the back-off ends at 60 s). With a
  cooldown shorter than that, `ReconnectsAgain` fails: the cooldown is what keeps an
  outage that is over from killing each new daemon before it has connected.
- `AgentActions`: the state map is the last value reported by address; its copies are
  the subject of `CurrentState`. An actuator follows its control some time later.
- `Gateway`: Redis was reachable at the start (`is_connected` stays true afterwards, as
  the client reconnects by itself); the in-memory window has the age in ticks.
- `HaRegistry`: the registries survive a restart, entity objects do not; listeners are
  called in the order in which the entities were added.
- `WarmFloors`: the unit is the period of the schedule; a pass reads its inputs at one
  moment; the weather of the day is part of the constant `Extra`. The power limit is always a
  number: without one the pass would raise at line 353.

## 5. What is proved

TLAPS proves, for every value of the constants (any set of commands, controllers,
addresses and messages, any limit and any number of faults):

- `CommandsProofs`: for any words in the acks, type correctness (the status column holds
  what an ack said), `SendBudget` and `DryRunNeverSent`; under `AcksAnswer`
  `TimeoutAfterBudget`, `SentIsUnanswered`, `AnswersAreReal`, `NeverReopened`, and that
  `Commands` implements `CommandLifecycle`. `AcksAnswer` says that no ack states `sent`,
  `dry_run` or `timeout`, the words by which the server itself marks a row that is not
  answered; it is true of the daemon, whose ack has no status. The properties speak of committed
  rows, but the next commit is decided by what the sessions hold, so the invariant
  `IInv` says what each session may hold: a request has published what it will
  commit (`Requesting`), a retry pass holds rows that were open when it read them and
  writes no more than one publication each (`Passing`), an ack is one the daemon
  produced (`Answering`), and publications are what the row, the pass and the faults
  account for (`Counting`).
  Refinement follows step by step with the status as the mapping.
- `HouseStatusProofs`: type correctness, `HouseIsAggregate`, `OfflineOnlyIfSilent`.
  `IInv` adds to `HouseIsAggregate` what the two open transactions have aggregated
  and what changed since (`Handling`, `Sweeping`), that a house is there before
  its controllers (`HouseFirst`) and that the handler knows the controller it
  handles (`Knowing`).
- `CurrentStateProofs`: type correctness, `OneRowPerAddress`, `EventsMatchState`,
  `AnswersAsStored`, `NeverBackwards`. `IInv` holds for the committed tables and for the
  session's copy alike: one spelling per address (`Table`), the session is not
  behind the table (`Ahead`), each difference between Redis and table has a
  recorded reason (`Mirror`), a recorded event is covered by the current value
  (`Matches`). It uses `EventsAreNumbered`. Last, that `CurrentState` implements
  `NewestWins` (`RegisterImplemented`): a whole message, which the handler takes item
  by item in its session, is one step of the abstract register. While it is handled,
  an address of the session's table is either what the table was before the message,
  all items handled so far being older, or the winner among them (`Progress`); this
  needs no induction over the batch. The commit is the step of the register, all else
  stutters.
- `SchemaSyncProofs`: type correctness, `ActiveIsOneSchema`, `NewestInForce`,
  `AttributesInForce`. The hard part is that the server assembles chunks that the broker
  repeats, replays and mixes. `Base` says where a message can come from: each one on its way
  and each chunk in a buffer is a message of an export that was made. `Steady` holds
  while nothing was replayed or broken off: messages come in the order of their
  exports, and until the newest export is in force all of its topics are on their way or
  in the buffer. `Exact` holds while no chunk came twice and no export lost its first messages (`cut`): what is buffered of a
  schema is then a prefix of its chunks, the next message carries on where the chunks of
  its own export end, and the last message on its way is the last of the newest
  export, so that what is assembled in the end is that export and nothing else. For
  the other case `Steady` has `AllSettled`: an object of the newest export has its attributes, or they are in
  the buffer, or its chunk is still on its way. A chunk that completes a mixture takes what is
  buffered at that moment; what comes after it waits, since only a newer export can complete it.
- `TelemetryProofs`: type correctness, `EventsInOrder`, `QuietAgrees`. What the daemon has
  not lost is somewhere, so the invariant speaks of the `Pipe`, the messages on their
  way followed by those in the offline buffer, whose order a flush, a broken flush and
  a reconnection keep. While nothing was lost (`Intact`): recorded events, the events of the pipe
  and those in the batch are numbered without a gap up to the daemon's counter
  (`Stream`); nothing is dated after the daemon's clock (`Timely`); and for each address of
  which no telegram waits on the bus, whatever in batch, pipe or register says something
  else than the bus is overtaken by a later item that is not older and says the same
  (`Follows`). After the first export every address is in the register or in the pipe
  (`Known`). The proof assumes a finite set of addresses, which the group objects of a
  controller are: an export is a sequence of them.
- `ScriptsProofs`, about `Watchdog`: type correctness, `RequestIsCurrent`, `RestartForCause`. What the
  script knows are time stamps, so `IInv` orders them: an outage is at least as old
  as its mark, and where there is no mark and no unmarked loss, as the daemon
  (`Measured`); the stored connection is only behind the real one after an unmarked
  loss (`Known`); and the same order still holds of what the script has read when the
  daemon was started since (`Seen`). Time keeps the order of two ages, also where
  they are cut off (`OlderOrder`).

- `GatewayProofs`: about the pure decision, for any table of keys: a call that runs has
  its permission, a house of its key and arguments that fit (`OnlyWithRights`); for a key
  that may read, both faces agree on a named house (`FacesAgree`); and what `GET /ops`
  lists runs as a tool (`ListedIsCallable`). About the system: type correctness,
  `RefusedCostsNothing`, from the invariant `CountedMayRun` (a call on its way
  through the limiter is a write that may run), and `AnyMinute`. For the last,
  `Account` splits the writes of the last minute into those that Redis counted, those in
  the bucket of this process and those in the buckets of its earlier lives: there are
  such parts, with a bound for each. That of the first (`Fits`) is what makes
  it inductive: while a counter runs down, whatever was written in the ticks since its
  expiry was set belongs to it, less the first call, which wrote when it set the expiry, or to
  counters that were lost; so when the counter is gone no more is left of the minute
  than the next one finds room for. A call between INCR and EXPIRE counts as a write that is
  still to come, and there is at most one of them, and one more for each loss. `CountersEnd` is
  the safety half of `KeyComesBack`: a counter without an expiry is one that a fault
  cut off, or a call is about to set it; so only that time passes and that the call goes
  on is left to fairness.
- `ScriptsProofs`, about `WarmFloors`: type correctness, `LimitKept` and `HeatedIsMarked`. The first follows
  from `Budgeted`: while relays are being set, what the pass has switched on and what is
  left of its budget are together within the limit it read, and the relays it has not
  come to are within the limit of the pass before; the first room that does not fit makes
  the budget negative, and nothing after it fits. The proof assumes a finite set of rooms,
  which the table of the script is. `HeatedIsMarked` is inductive with the types. It
  is the safety half of `OffMeansOff`: a floor that the script heats is marked in
  `storage`, so the pass after the switch finds something to do. Only that the pass
  comes is left to fairness.
- `CommandsProofs`, about `AgentActions`: type correctness, `SentIsRecorded`,
  `DegreesNeverSwitch`, `SkipIsJustified`. The first part (`DecideFact`) is about the
  pure decision, operation by operation: every command goes to one controller, and each of
  its items is an object of the catalogue with a value it may have (`Goes`). `AgentInv`
  carries that to the requests and rows (`Asked`, `Ordered`), and says that a row is
  lost only with its request and settled when the request is (`SettledBy`). For
  `SkipIsJustified` what the state map knows of the house must be in the invariant
  (`StateKnown`): of an address, the last telegram on its way has the value of the bus, and
  without one the map has it (`Told`); and a status whose last telegram comes from the
  actuator is as its control, unless the actuator has to follow once more (`Followed`).
  Two of them have a hypothesis on the house. `SetpointsAreNumbers`: what takes degrees
  is a number; the code finds a setpoint by its tags and name and never asks for its type.
  `LightsWiredApart`: a light has one status at most, under the name
  by which `list_lights` looks for it (the feedback of a command accepts
  other names, so that with one of those the two would read different objects), shared with no
  other light, and nobody commands a status: it is the actuator's to write. Both are
  `ASSUME`s of `MCAgentActions`, so TLC evaluates them on the houses of the run.
- `HaProofs`, about `HaRegistry`: type correctness, `OwnAirShown`, `NoEmptyLeftover`,
  `InPlaceAfterPoll`, `ComesToRest`. `InPlaceAfterPoll` holds of one poll from any state. For the
  others `RegistryInv` says what a number of equal polls in a row has put in order, and
  what people's acts and restarts (`calm = 0`) may undo: after one, the areas are there with
  their floors and sensors, things and entities are in their places and the kettle is hidden
  (`Orderly`); after two, no room without a thing is left over (`Tidy`), which the first
  poll need not reach, as areas are counted before things have moved. So the third finds
  nothing to do.
- `HaProofs`, about `HaEntities`: `UnavailableTogether` and `ZoneShowsOwnFloor`, from
  `EntitiesInv`: the cards are a finite list made from one snapshot; what a poll has read so far
  are things of the catalogue as the resolver finds them (`GotOK`). For the first the listeners
  are taken one by one: each is told, or one before it has raised. The second has a hypothesis on
  the house, `FloorsNamedApart`: `_zone_floor_sensor` compares labels and the first hit wins,
  so a house in which two floor sensors have the label of one room has no own one.
  `MCHaEntities` assumes it of its house. `ShowsAskedOrRead`, which is in no run, is the
  safety half of `CardsCatchUp`: a card waits for what was last asked of it, and shows that
  or what the last poll found, unless a card before it has raised. So a card
  that does not catch up waits for its last request, never for an older one.

The proofs use the named assumptions of the modules and the three hypotheses named above.
Each invariant was first checked by TLC on the bounds above.

Sums (`Total` of `Gateway`, `Drawn` of `WarmFloors`) are folds of the community modules, over
ages and rooms. Both proof modules begin with what they need of them: that the recursive
function of the fold exists, and that the order in which it takes the elements does not
matter. It is shown by induction over the number of elements, where the numbers that a
statement holds of are a set (`Induction`), since the library's theorem about properties
cannot be used.

Only model-checked: everything under fairness, which is out of the prover's reach
(`EveryCommandSettles`, `SilentGoesOffline`, `EventsRecover`, `CompleteIsStored`,
`Converges`, `StuckIsReplaced`, `ReconnectsAgain`, `CardsCatchUp`, `KeyComesBack`, `TooWarmIsCut`,
`OffMeansOff`; the safety halves of `CardsCatchUp`, `KeyComesBack` and `OffMeansOff` are proved); and
`OwnThingOnly`, which is true or false of the names in a house: whether the words of a
card's name find that card's object and no other is a computation of the resolver over these
names, and the resolver's tables of words are constants.

## 6. What is not modelled

- Parsing, validation and formatting (`topic_parser.py`, `command_validation.py`,
  `schemas/`, the schema of the tools, the hash of a key): pure functions of one
  argument; the models begin with parsed messages and calls.
- The reads that only format the state map: `get_energy_status`,
  `get_heating_diagnostics`, `discover`, `get_house_status`, `list_houses`.
- RPC: no request reaches the daemon, and the assembled answer is not used. What a
  request would start is the requested export of `Telemetry`.
- Modbus: two loops that copy coils and registers to group objects, one way. For the
  models it is a value that changes (`Report`, `FloorTemp`).
- The order of shutdown of `lifespan` (see the open work in section 2).
- Cards of batteries, energy and of the house being online, which only show a value. Those of
  temperatures, humidity and heating relays are in `HaEntities`, one card for each name, since
  one that raises keeps the cards behind it from being told; an energy or battery
  card whose item is gone would do the same.
- Two controllers that export the same address (`schema_service.py:158`), and the
  classification of time series.
- Migrations, deployment, dashboards, benchmarks, configuration pages and the small
  aggregations among the scripts.

Hazards of the code that no property is about, and why, are in `PROJECT.json` or in the
list of section 4; the one at
`manage_warm_floor.lua:297` is the violated `LongHeatingEnds`. Where a property excuses a hazard,
because the code does not prevent it, the hazard names no property and its note says so.
