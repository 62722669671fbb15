----------------------------- MODULE HouseStatus -----------------------------
(***************************************************************************)
(* The status of a house and of its controllers ("devices"), kept by two   *)
(* coroutines with database sessions of their own: the MQTT loop, which    *)
(* handles one message after the other, and the liveness sweep, which      *)
(* every 30 s marks the devices offline that have been silent for too      *)
(* long.  Both recompute the status of the house from what they see of its *)
(* devices.  Operators activate and deactivate devices and the house.      *)
(*                                                                         *)
(* The database is PostgreSQL at READ COMMITTED: a statement sees what was *)
(* committed before it and its own transaction's writes, and a row updated *)
(* by an open transaction is locked for every other writer.                *)
(***************************************************************************)
EXTENDS Naturals, FiniteSets

CONSTANTS
  Devices,    \* the controllers of one house
  MaxFaults   \* bound: handlers and sweeps that raise

ASSUME HouseConstants == MaxFaults \in Nat

VARIABLES
  devStatus,    \* devices.online_status; "absent": no row yet
  devActive,    \* devices.is_active
  devSeen,      \* devices.last_seen against device_offline_after_seconds
  houseStatus,  \* houses.online_status; "absent": no row yet
  houseActive,  \* houses.is_active
  ing,          \* the message being handled and the session of handle_status
  sweep,        \* the session of mark_stale_devices_offline
  stale,        \* history: what changed under a session since it aggregated
  drift,        \* history: why houseStatus may differ from its aggregate
  faults        \* exceptions so far

vars == <<devStatus, devActive, devSeen, houseStatus, houseActive, ing, sweep, stale,
          drift, faults>>

Status == {"unknown", "online", "offline"}
Flag == {"yes", "no"}
HouseValues == {"unknown", "online", "offline", "partial"}

\* What the head of handle_message lets through: live status topics
\* (status/online, the last will in status/offline), an event with a current
\* time stamp, and the rest (states, metadata, old or retained events).  Of a
\* retained status, a health report or an unreadable message nothing is kept.
Messages == {"online", "offline", "event", "other"}

Reasons == {"skew", "patched", "registered"}

NoMessage == [pc |-> "idle", dev |-> {}, msg |-> "other", loaded |-> "absent",
              new |-> "unknown", before |-> "absent", agg |-> "unknown"]

NoSweep == [pc |-> "idle", marked |-> {}, before |-> "absent", agg |-> "unknown"]

Init ==
  /\ devStatus = [d \in Devices |-> "absent"]
  /\ devActive = [d \in Devices |-> "yes"]
  /\ devSeen = [d \in Devices |-> "recent"]
  /\ houseStatus = "absent"
  /\ houseActive = "yes"
  /\ ing = NoMessage
  /\ sweep = NoSweep
  /\ stale = [ing |-> {}, sweep |-> {}]
  /\ drift = {}
  /\ faults = 0

-----------------------------------------------------------------------------
\* The rows a session aggregates.
Counted(status, active) == {d \in Devices : status[d] # "absent" /\ active[d] = "yes"}

\* _aggregate_house_status, of the devices a session sees.
Aggregate(status, active) ==
  IF Counted(status, active) = {} THEN "unknown"
  ELSE IF \A d \in Counted(status, active) : status[d] = "online" THEN "online"
  ELSE IF \A d \in Counted(status, active) : status[d] = "offline" THEN "offline"
  ELSE "partial"

\* The unit of work writes a column only if its value differs from the loaded one.
Written(current, before, new) == IF new = before THEN current ELSE new

\* mutant: rows are not locked by the sweep's UPDATE
LockedNever(d) == FALSE

Locked(d) == d \in sweep.marked

\* The sessions whose aggregate does not know of a change made now.
Outdated(reason) ==
  [ing   |-> IF ing.pc = "aggregated" THEN stale.ing \cup {reason} ELSE stale.ing,
   sweep |-> IF sweep.pc = "aggregated" THEN stale.sweep \cup {reason} ELSE stale.sweep]

-----------------------------------------------------------------------------
(* The MQTT loop: handle_message and handle_status.                        *)

\* ensure_house, in a session of its own.  Retained statuses and health
\* diagnostics return before it and change nothing.
EnsureHouse(d, m) ==
  /\ ing.pc = "idle"
  /\ houseStatus' = IF houseStatus = "absent" THEN "unknown" ELSE houseStatus
  /\ ing' = [NoMessage EXCEPT !.pc = "received", !.dev = {d}, !.msg = m]
  /\ UNCHANGED <<devStatus, devActive, devSeen, houseActive, sweep, stale, drift, faults>>

\* ensure_device: the SELECT ...
LoadDevice(d) ==
  /\ ing.pc = "received"
  /\ d \in ing.dev
  /\ ing' = [ing EXCEPT !.pc = "loaded",
                        !.loaded = IF devStatus[d] = "absent" THEN "unknown" ELSE devStatus[d]]
  /\ UNCHANGED <<devStatus, devActive, devSeen, houseStatus, houseActive, sweep, stale,
                 drift, faults>>

\* ... and the INSERT or UPDATE of last_seen, which waits for a lock.
TouchDevice(d) ==
  /\ ing.pc = "loaded"
  /\ d \in ing.dev
  /\ ~Locked(d)
  /\ devSeen' = [devSeen EXCEPT ![d] = "recent"]
  /\ ing' = [ing EXCEPT !.pc = "known"]
  /\ IF devStatus[d] = "absent"
       THEN /\ devStatus' = [devStatus EXCEPT ![d] = "unknown"]
            /\ stale' = Outdated("registered")
            /\ drift' = drift \cup {"registered"}
       ELSE UNCHANGED <<devStatus, stale, drift>>
  /\ UNCHANGED <<devActive, houseStatus, houseActive, sweep, faults>>

\* mutant: an event brings back only a device whose status is not known
RecoversUnknown == ing.msg = "event" /\ ing.loaded = "unknown"

Recovers == ing.msg = "event" /\ ing.loaded # "online"

\* Dispatch: a status is handled in any house, the rest only in an active one;
\* an event whose device was not online when loaded makes it online.
Dispatch ==
  /\ ing.pc = "known"
  /\ \/ /\ ing.msg \in {"online", "offline"}
        /\ ing' = [ing EXCEPT !.pc = "status", !.new = ing.msg]
     \/ /\ ing.msg \in {"event", "other"}
        /\ ing' = IF houseActive = "yes" /\ Recovers
                    THEN [ing EXCEPT !.pc = "status", !.new = "online"]
                    ELSE NoMessage
  /\ UNCHANGED <<devStatus, devActive, devSeen, houseStatus, houseActive, sweep, stale,
                 drift, faults>>

\* handle_status up to the aggregate: load the device, flush its new status,
\* read the devices and the house.  One step, because nothing else writes the
\* status of a device that has just been seen.
HandleStatus(d) ==
  /\ ing.pc = "status"
  /\ d \in ing.dev
  /\ ing' = [ing EXCEPT !.pc = "aggregated", !.loaded = devStatus[d], !.before = houseStatus,
                        !.agg = Aggregate([devStatus EXCEPT ![d] = ing.new], devActive)]
  /\ UNCHANGED <<devStatus, devActive, devSeen, houseStatus, houseActive, sweep, stale,
                 drift, faults>>

CommitStatus(d) ==
  /\ ing.pc = "aggregated"
  /\ d \in ing.dev
  /\ devStatus' = [devStatus EXCEPT ![d] = Written(@, ing.loaded, ing.new)]
  /\ devSeen' = [devSeen EXCEPT ![d] = "recent"]
  /\ houseStatus' = Written(houseStatus, ing.before, ing.agg)
  /\ ing' = NoMessage
  /\ stale' = [Outdated("skew") EXCEPT !.ing = {}]
  /\ drift' = stale.ing
  /\ UNCHANGED <<devActive, houseActive, sweep, faults>>

\* Any step raises: the loop logs, the session rolls back, the message is gone.
FailMessage ==
  /\ ing.pc # "idle"
  /\ faults < MaxFaults
  /\ faults' = faults + 1
  /\ ing' = NoMessage
  /\ stale' = [stale EXCEPT !.ing = {}]
  /\ UNCHANGED <<devStatus, devActive, devSeen, houseStatus, houseActive, sweep, drift>>

-----------------------------------------------------------------------------
(* The sweep.                                                              *)

\* More than device_offline_after_seconds pass after last_seen; a message
\* takes less than that to handle.
Silence(d) ==
  /\ devStatus[d] # "absent"
  /\ d \notin ing.dev
  /\ devSeen[d] = "recent"
  /\ devSeen' = [devSeen EXCEPT ![d] = "old"]
  /\ UNCHANGED <<devStatus, devActive, houseStatus, houseActive, ing, sweep, stale, drift,
                 faults>>

\* mutant: one device still heard of keeps the others online
StaleAllOrNone ==
  IF \E d \in Devices : devStatus[d] = "online" /\ devSeen[d] = "recent" THEN {}
  ELSE {d \in Devices : devActive[d] = "yes" /\ devStatus[d] = "online" /\ devSeen[d] = "old"}

Stale == {d \in Devices : devActive[d] = "yes" /\ devStatus[d] = "online" /\ devSeen[d] = "old"}

\* UPDATE ... RETURNING; with no row returned the pass ends.
SweepMark ==
  /\ sweep.pc = "idle"
  /\ Stale # {}
  /\ sweep' = [NoSweep EXCEPT !.pc = "marked", !.marked = Stale]
  /\ UNCHANGED <<devStatus, devActive, devSeen, houseStatus, houseActive, ing, stale, drift,
                 faults>>

\* mutant: the devices the session had loaded are not expired after the UPDATE
SweepViewLoaded == devStatus

\* What the sweep's session sees: its own writes over the committed rows.
SweepView == [d \in Devices |-> IF d \in sweep.marked THEN "offline" ELSE devStatus[d]]

SweepAggregate ==
  /\ sweep.pc = "marked"
  /\ sweep' = [sweep EXCEPT !.pc = "aggregated", !.before = houseStatus,
                            !.agg = Aggregate(SweepView, devActive)]
  /\ UNCHANGED <<devStatus, devActive, devSeen, houseStatus, houseActive, ing, stale, drift,
                 faults>>

SweepCommit ==
  /\ sweep.pc = "aggregated"
  /\ devStatus' = [d \in Devices |-> IF d \in sweep.marked THEN "offline" ELSE devStatus[d]]
  /\ houseStatus' = Written(houseStatus, sweep.before, sweep.agg)
  /\ sweep' = NoSweep
  /\ stale' = [Outdated("skew") EXCEPT !.sweep = {}]
  /\ drift' = stale.sweep
  /\ UNCHANGED <<devActive, devSeen, houseActive, ing, faults>>

SweepFail ==
  /\ sweep.pc # "idle"
  /\ faults < MaxFaults
  /\ faults' = faults + 1
  /\ sweep' = NoSweep
  /\ stale' = [stale EXCEPT !.sweep = {}]
  /\ UNCHANGED <<devStatus, devActive, devSeen, houseStatus, houseActive, ing, drift>>

-----------------------------------------------------------------------------
(* PATCH of a device and of the house: nothing is aggregated.              *)

PatchDevice(d, f) ==
  /\ devStatus[d] # "absent"
  /\ devActive[d] # f
  /\ ~Locked(d)
  /\ ~(ing.pc = "aggregated" /\ d \in ing.dev)
  /\ devActive' = [devActive EXCEPT ![d] = f]
  /\ stale' = Outdated("patched")
  /\ drift' = drift \cup {"patched"}
  /\ UNCHANGED <<devStatus, devSeen, houseStatus, houseActive, ing, sweep, faults>>

PatchHouse(f) ==
  /\ houseStatus # "absent"
  /\ houseActive # f
  /\ houseActive' = f
  /\ UNCHANGED <<devStatus, devActive, devSeen, houseStatus, ing, sweep, stale, drift, faults>>

Next ==
  \/ \E d \in Devices : \/ \E m \in Messages : EnsureHouse(d, m)
                        \/ LoadDevice(d)
                        \/ TouchDevice(d)
                        \/ HandleStatus(d)
                        \/ CommitStatus(d)
                        \/ Silence(d)
                        \/ \E f \in Flag : PatchDevice(d, f)
  \/ Dispatch
  \/ FailMessage
  \/ SweepMark
  \/ SweepAggregate
  \/ SweepCommit
  \/ SweepFail
  \/ \E f \in Flag : PatchHouse(f)

Spec == Init /\ [][Next]_vars

\* The two loops run again and again; no message need arrive.
Fairness ==
  /\ \A d \in Devices : /\ WF_vars(LoadDevice(d))
                        /\ WF_vars(TouchDevice(d))
                        /\ WF_vars(HandleStatus(d))
                        /\ WF_vars(CommitStatus(d))
  /\ WF_vars(Dispatch)
  /\ WF_vars(SweepMark)
  /\ WF_vars(SweepAggregate)
  /\ WF_vars(SweepCommit)

FairSpec == Spec /\ Fairness
-----------------------------------------------------------------------------
(* Properties.                                                             *)

\* Type invariant.
TypeOK ==
  /\ devStatus \in [Devices -> Status \cup {"absent"}]
  /\ devActive \in [Devices -> Flag]
  /\ devSeen \in [Devices -> {"recent", "old"}]
  /\ houseStatus \in HouseValues \cup {"absent"}
  /\ houseActive \in Flag
  /\ ing \in [pc : {"idle", "received", "loaded", "known", "status", "aggregated"},
              dev : SUBSET Devices, msg : Messages, loaded : Status \cup {"absent"},
              new : Status, before : HouseValues \cup {"absent"}, agg : HouseValues]
  /\ sweep \in [pc : {"idle", "marked", "aggregated"}, marked : SUBSET Devices,
                before : HouseValues \cup {"absent"}, agg : HouseValues]
  /\ stale \in [ing : SUBSET Reasons, sweep : SUBSET Reasons]
  /\ drift \subseteq Reasons
  /\ faults \in Nat

\* The status of the house is the aggregate of its active devices, except
\* after exactly three things: a device was registered or patched since the
\* last aggregation, or two aggregations overlapped.
HouseIsAggregate ==
  drift = {} => houseStatus \in {"absent", Aggregate(devStatus, devActive)}

\* A device goes offline only by its last will or when it has been silent too
\* long at that very moment: the sweep never overtakes a message that counts.
OfflineOnlyIfSilent ==
  [][\A d \in Devices : devStatus[d] = "online" /\ devStatus'[d] = "offline" =>
        devSeen[d] = "old" \/ (d \in ing.dev /\ ing.msg = "offline")]_vars

\* A device that is silent for too long does not stay online.
SilentGoesOffline ==
  \A d \in Devices :
    (devStatus[d] = "online" /\ devSeen[d] = "old" /\ devActive[d] = "yes")
      ~> (devStatus[d] # "online" \/ devSeen[d] = "recent" \/ devActive[d] = "no")

\* A device whose current events keep arriving in an active house is online
\* again and again, whatever the sweep and lost statuses did to it.
EventsRecover ==
  \A d \in Devices :
    (<>[](houseActive = "yes") /\ []<>(ing.dev = {d} /\ ing.msg = "event"))
      => []<>(devStatus[d] = "online")

\* data-model.md: the status of the house is aggregated from its devices.  In a
\* quiet system whose devices were neither registered nor patched since:
HouseFollowsDevices ==
  ing.pc = "idle" /\ sweep.pc = "idle" /\ drift \subseteq {"skew"}
    => houseStatus \in {"absent", Aggregate(devStatus, devActive)}
=============================================================================
