------------------------------ MODULE WarmFloors ------------------------------
(***************************************************************************)
(* The heated floors: the scheduled script manage_warm_floor.lua, the      *)
(* event scripts 0031 (automatic heating is switched off) and 0032 (the    *)
(* master setpoint), and mqtt_listen.lua, which brings the air             *)
(* temperatures.  A pass reads everything, puts the rooms in order, and    *)
(* then sets one relay after another with a pause after each that it       *)
(* switches on; event scripts, people and telegrams come in between.       *)
(*                                                                         *)
(* Time is counted in periods of the schedule.  Temperatures are tenths of *)
(* a degree.  A temperature or a setpoint may have no number (Missing):    *)
(* the pass goes on, and that room gets no heat.                           *)
(***************************************************************************)
EXTENDS Integers, FiniteSets, FiniteSetsExt

CONSTANTS
  Rooms, Sensors, SensorOf,      \* two rooms can have one air sensor
  OneFloor,                      \* the rooms whose sensors are in one floor with a room's
  Extra,                         \* k with the weather of the day, per room
  Pow, Prior,                    \* watts and priority, per room
  HystOn, HystOff, FloorMax,     \* HYST_ON, HYST_OFF, FLOOR_MAX_TEMP
  ZbStale, MaxOn,                \* ZB_STALE_SEC, MAX_ON_SEC, in periods
  Airs, Floors, Setpoints, Limits, \* what sensors and people may set
  Missing,                       \* an object without a number
  MaxChanges, MaxSwitches        \* bounds: changes of other values; of automatic heating

ASSUME WarmFloorsOK ==
  /\ IsFiniteSet(Rooms)
  /\ SensorOf \in [Rooms -> Sensors]
  /\ OneFloor \in [Rooms -> SUBSET Rooms] /\ \A r \in Rooms : r \in OneFloor[r]
  /\ Extra \in [Rooms -> Int]
  /\ Pow \in [Rooms -> Nat] /\ Prior \in [Rooms -> Int]
  /\ HystOn \in Nat /\ HystOff \in Nat /\ FloorMax \in Int
  /\ ZbStale \in Nat /\ MaxOn \in Nat
  /\ Missing \notin Int
  /\ Airs \subseteq Int /\ Floors \subseteq Int /\ Setpoints \subseteq Int /\ Limits \subseteq Nat
  /\ MaxChanges \in Nat /\ MaxSwitches \in Nat

VARIABLES
  auto,       \* 1/7/1
  offEvent,   \* script 0031 is to run
  enabled,    \* storage warm_floors.enable
  on,         \* rooms whose relay is on
  kept,       \* periods since each relay object was updated
  air, heard, \* air temperatures, and periods since they were updated
  floor,      \* floor temperatures
  setpoint,   \* f.sp
  limit,      \* the power limit
  due,        \* the schedule has come round
  pass,       \* the pass under way
  limits,     \* limits of this pass and of the one before
  byHand,     \* relays last set by a person
  changes, switches

house == <<air, heard, floor, setpoint, limit, changes>>
vars == <<auto, offEvent, enabled, on, kept, house, due, pass, limits, byHand, switches>>

Capped(n, cap) == IF n > cap THEN cap ELSE n

NoPass == [left |-> {}, want |-> {}, need |-> [r \in Rooms |-> 0], budget |-> 0]

InPass == pass.left # {}

Init ==
  /\ auto = TRUE /\ offEvent = FALSE /\ enabled \in BOOLEAN
  /\ on = {} /\ byHand = {}
  /\ kept = [r \in Rooms |-> 0]
  /\ air = [s \in Sensors |-> Missing]
  /\ heard = [s \in Sensors |-> 0]
  /\ floor \in [Rooms -> Floors] /\ setpoint \in [Rooms -> Setpoints]
  /\ limit \in Limits
  /\ due = FALSE /\ pass = NoPass
  /\ limits = <<0, 0>>
  /\ changes = 0 /\ switches = 0

-----------------------------------------------------------------------------
(* What a pass reads and decides.                                          *)

\* zb_ok
Fresh(r) == air[SensorOf[r]] # Missing /\ heard[SensorOf[r]] <= ZbStale

\* ctrl_temp and effective_sp
Measured(r) == IF Fresh(r) THEN air[SensorOf[r]] ELSE floor[r]

Aim(r) ==
  IF setpoint[r] = Missing \/ Measured(r) = Missing THEN Missing
  ELSE IF Fresh(r) THEN setpoint[r]
  ELSE setpoint[r] + Extra[r]

\* Both are numbers.
HasNumbers(r) == Measured(r) # Missing /\ Aim(r) # Missing

Need(r) == IF HasNumbers(r) /\ Aim(r) > Measured(r) THEN Aim(r) - Measured(r) ELSE 0

\* mutant: each room looks at its own sensor, also where one floor has two
OverheatedAlone(r) == floor[r] = Missing \/ floor[r] >= FloorMax

\* Protections A and B.  The maximum of one floor's sensors counts for all its
\* rooms, and one of them without a number overheats them all.
Overheated(r) == \E q \in OneFloor[r] : floor[q] = Missing \/ floor[q] >= FloorMax

LongOn(r) == ~Fresh(r) /\ r \in on /\ kept[r] >= MaxOn

Wants(r) ==
  /\ ~Overheated(r) /\ ~LongOn(r)
  /\ IF Fresh(r)
       THEN /\ HasNumbers(r)
            /\ \/ Measured(r) < Aim(r) - HystOn
               \/ Measured(r) <= Aim(r) + HystOff /\ r \in on
       ELSE Need(r) > 0

\* sorter; rooms it does not tell apart come in any order.
Before(a, b) ==
  IF Prior[a] # Prior[b] THEN Prior[a] > Prior[b]
  ELSE IF pass.need[a] # pass.need[b] THEN pass.need[a] > pass.need[b]
  ELSE Pow[a] < Pow[b]

-----------------------------------------------------------------------------
(* The pass.                                                               *)

\* mutant: the mark is set where floors are switched off only
MarkLeft == enabled

\* The mark that floors have to be switched off with automatic heating.
Marked == TRUE

\* With automatic heating: everything is read at once.
StartPass ==
  /\ due /\ ~InPass /\ auto
  /\ due' = FALSE
  /\ enabled' = Marked
  /\ pass' = [left |-> Rooms, want |-> {r \in Rooms : Wants(r)},
              need |-> [r \in Rooms |-> Need(r)], budget |-> limit]
  /\ limits' = <<limits[2], limit>>
  /\ UNCHANGED <<auto, offEvent, on, kept, house, byHand, switches>>

\* Without: the floors are switched off once.
PassWithoutAuto ==
  /\ due /\ ~InPass /\ ~auto
  /\ due' = FALSE
  /\ enabled' = FALSE
  /\ IF enabled
       THEN /\ on' = {} /\ byHand' = {}
            /\ kept' = [r \in Rooms |-> 0]
       ELSE UNCHANGED <<on, byHand, kept>>
  /\ UNCHANGED <<auto, offEvent, house, pass, limits, switches>>

\* mutant: power is taken from the budget after the test
SomeLeft(r) == pass.budget > 0

Affordable(r) == pass.budget >= Pow[r]

\* The next relay.  What a refused room asked for stays taken from the budget,
\* so that no later room is given anything.
Apply(r) ==
  /\ r \in pass.left
  /\ \A q \in pass.left : ~Before(q, r)
  /\ on' = IF r \in pass.want /\ Affordable(r) THEN on \cup {r} ELSE on \ {r}
  /\ kept' = [kept EXCEPT ![r] = 0]
  /\ byHand' = byHand \ {r}
  /\ pass' = IF pass.left = {r} THEN NoPass
             ELSE [pass EXCEPT !.left = @ \ {r},
                               !.budget = IF r \in pass.want THEN @ - Pow[r] ELSE @]
  /\ UNCHANGED <<auto, offEvent, enabled, house, due, limits, switches>>

-----------------------------------------------------------------------------
(* The house.                                                              *)

\* Script 0031.
EventRuns ==
  /\ offEvent
  /\ offEvent' = FALSE
  /\ on' = {} /\ byHand' = {}
  /\ kept' = [r \in Rooms |-> 0]
  /\ UNCHANGED <<auto, enabled, house, due, pass, limits, switches>>

SwitchAuto ==
  /\ switches < MaxSwitches
  /\ switches' = switches + 1
  /\ auto' = ~auto
  /\ offEvent' = (offEvent \/ auto)
  /\ UNCHANGED <<enabled, on, kept, house, due, pass, limits, byHand>>

Changed == changes < MaxChanges /\ changes' = changes + 1

\* A person, or an agent that asks for the relay.
Press(r) ==
  /\ Changed
  /\ on' = IF r \in on THEN on \ {r} ELSE on \cup {r}
  /\ kept' = [kept EXCEPT ![r] = 0]
  /\ byHand' = byHand \cup {r}
  /\ UNCHANGED <<auto, offEvent, enabled, air, heard, floor, setpoint, limit, due, pass, limits,
                 switches>>

\* Neither relays nor passes.
scripts == <<auto, offEvent, enabled, on, kept, due, pass, limits, byHand, switches>>

\* knx_check in mqtt_listen: the object is updated, also with the same value.
Hear(s) ==
  /\ \E t \in Airs : /\ air' = [air EXCEPT ![s] = t]
                     /\ IF air[s] \in {t, Missing} THEN UNCHANGED changes ELSE Changed
  /\ heard' = [heard EXCEPT ![s] = 0]
  /\ UNCHANGED <<scripts, floor, setpoint, limit>>

\* The floor warms or cools, or its object is emptied by a restart.
FloorTemp(r) ==
  /\ Changed
  /\ \E t \in Floors \cup {Missing} : floor' = [floor EXCEPT ![r] = t]
  /\ UNCHANGED <<scripts, air, heard, setpoint, limit>>

\* A person or an agent sets it, or its object is emptied by a restart.
RoomSetpoint(r) ==
  /\ Changed
  /\ \E t \in Setpoints \cup {Missing} : setpoint' = [setpoint EXCEPT ![r] = t]
  /\ UNCHANGED <<scripts, air, heard, floor, limit>>

\* Script 0032.
MasterSetpoint ==
  /\ Changed
  /\ \E t \in Setpoints : setpoint' = [r \in Rooms |-> t]
  /\ UNCHANGED <<scripts, air, heard, floor, limit>>

SetLimit ==
  /\ Changed
  /\ limit' \in Limits
  /\ UNCHANGED <<scripts, air, heard, floor, setpoint>>

\* A pass takes seconds, so it has ended when the schedule comes round.
Tick ==
  /\ ~due /\ ~InPass
  /\ due' = TRUE
  /\ kept' = [r \in Rooms |-> Capped(kept[r] + 1, MaxOn)]
  /\ heard' = [s \in Sensors |-> Capped(heard[s] + 1, ZbStale + 1)]
  /\ UNCHANGED <<auto, offEvent, enabled, on, air, floor, setpoint, limit, pass, limits, byHand, changes,
                 switches>>

Next ==
  \/ StartPass
  \/ PassWithoutAuto
  \/ \E r \in Rooms : Apply(r)
  \/ EventRuns
  \/ SwitchAuto
  \/ \E r \in Rooms : Press(r)
  \/ \E s \in Sensors : Hear(s)
  \/ \E r \in Rooms : FloorTemp(r)
  \/ \E r \in Rooms : RoomSetpoint(r)
  \/ MasterSetpoint
  \/ SetLimit
  \/ Tick

Spec == Init /\ [][Next]_vars

\* The schedule, and a pass that was started.
Fairness == WF_vars(Tick) /\ WF_vars(StartPass \/ PassWithoutAuto \/ \E r \in Rooms : Apply(r))

FairSpec == Spec /\ Fairness

-----------------------------------------------------------------------------
(* Properties.                                                             *)

\* Type invariant.
TypeOK ==
  /\ auto \in BOOLEAN /\ offEvent \in BOOLEAN /\ enabled \in BOOLEAN /\ due \in BOOLEAN
  /\ on \subseteq Rooms /\ byHand \subseteq Rooms
  /\ kept \in [Rooms -> 0..MaxOn]
  /\ air \in [Sensors -> Airs \cup {Missing}] /\ heard \in [Sensors -> 0..(ZbStale + 1)]
  /\ floor \in [Rooms -> Floors \cup {Missing}] /\ setpoint \in [Rooms -> Setpoints \cup {Missing}]
  /\ limit \in Limits /\ limits \in (Limits \cup {0}) \X (Limits \cup {0})
  /\ pass \in [left : SUBSET Rooms, want : SUBSET Rooms, need : [Rooms -> Nat], budget : Int]
  /\ changes \in 0..MaxChanges /\ switches \in 0..MaxSwitches

Drawn == MapThenSumSet(LAMBDA r : Pow[r], on \ byHand)

\* What the pass has switched on stays within the limit it read.  Only while
\* relays are being set does a new choice come on top of the one before, as
\* rooms of high priority are switched on before others are switched off.
LimitKept == Drawn <= limits[2] + (IF InPass THEN limits[1] ELSE 0)

TooWarm(r) ==
  \/ \E q \in OneFloor[r] : floor[q] = Missing \/ floor[q] >= FloorMax
  \/ setpoint[r] = Missing
  \/ HasNumbers(r) /\ IF Fresh(r) THEN Measured(r) > Aim(r) + HystOff ELSE Measured(r) >= Aim(r)

\* A floor that is too warm by any of its sensors, has a sensor or a setpoint
\* without a number, or is warmer than its room needs, is switched off, whatever a
\* pass under way has read before.
TooWarmIsCut ==
  \A r \in Rooms : auto /\ TooWarm(r) ~> (~TooWarm(r) \/ r \notin on \/ ~auto)

\* Once automatic heating is off, the floors it heated go off and stay off, also
\* those that a pass under way switched on after script 0031 had run.
OffMeansOff == ~auto /\ on \ byHand # {} ~> (auto \/ on \subseteq byHand)

\* Why it can be so: a floor that the script heats, or is about to, is marked, so
\* that the next pass without automatic heating finds something to switch off.
HeatedIsMarked == InPass \/ on \ byHand # {} => enabled

-----------------------------------------------------------------------------
(* What the code claims and does not keep.                                 *)

\* Header of the script, protection B: long heating without a fresh sensor is
\* ended.  Every pass updates the object of a relay it keeps on, and so
\* sets back the age that LongOn measures.
LongHeatingEnds ==
  \A r \in Rooms :
    auto /\ r \in on /\ ~Fresh(r) ~> (r \notin on \/ Fresh(r) \/ ~auto)
=============================================================================
