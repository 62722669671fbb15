-------------------------- MODULE HouseStatusProofs --------------------------
(***************************************************************************)
(* Proofs about HouseStatus for any set of devices: type correctness, the  *)
(* exact conditions under which the status of the house is the aggregate   *)
(* of its devices, and that a device goes offline for a reason.            *)
(***************************************************************************)
EXTENDS HouseStatus, TLAPS

\* The message being handled.  A device that has been touched is recent, so
\* the sweep does not hold it.
Handling ==
  /\ ing.pc = "idle" => ing.dev = {}
  /\ ing.pc # "idle" => houseStatus # "absent"
  /\ \A d, e \in ing.dev : d = e
  /\ ing.pc \in {"known", "status", "aggregated"} =>
       \A d \in ing.dev : devSeen[d] = "recent" /\ devStatus[d] # "absent"
  /\ ing.pc \in {"status", "aggregated"} /\ ing.new = "offline" => ing.msg = "offline"
  /\ ing.pc = "aggregated" => \A d \in ing.dev : ing.loaded = devStatus[d]

\* The sweep holds only devices that are registered and silent.
Sweeping ==
  /\ sweep.pc = "idle" => sweep.marked = {}
  /\ sweep.pc # "idle" => houseStatus # "absent"
  /\ \A d \in sweep.marked : devSeen[d] = "old" /\ devStatus[d] # "absent"

\* Before the house there are no devices.
HouseFirst == houseStatus = "absent" => \A d \in Devices : devStatus[d] = "absent"

\* A session under which nothing changed has aggregated what it will commit.
Knowing ==
  /\ ing.pc = "aggregated" /\ stale.ing = {} =>
       /\ ing.before = houseStatus
       /\ \A d \in ing.dev :
            ing.agg = Aggregate([devStatus EXCEPT ![d] = ing.new], devActive)
  /\ sweep.pc = "aggregated" /\ stale.sweep = {} =>
       /\ sweep.before = houseStatus
       /\ sweep.agg = Aggregate(SweepView, devActive)

IInv == TypeOK /\ Handling /\ Sweeping /\ HouseFirst /\ Knowing /\ HouseIsAggregate

-----------------------------------------------------------------------------
LEMMA AggregateValue ==
  ASSUME NEW s, NEW a
  PROVE  Aggregate(s, a) \in HouseValues
  BY DEF Aggregate, HouseValues

\* A house none of whose devices is registered is "unknown".
LEMMA AggregateOfNone ==
  ASSUME NEW s, NEW a, \A d \in Devices : s[d] = "absent"
  PROVE  Aggregate(s, a) = "unknown"
  BY DEF Aggregate, Counted

LEMMA OutdatedFact ==
  ASSUME stale \in [ing : SUBSET Reasons, sweep : SUBSET Reasons], NEW r \in Reasons
  PROVE  /\ Outdated(r) \in [ing : SUBSET Reasons, sweep : SUBSET Reasons]
         /\ ing.pc = "aggregated" => Outdated(r).ing # {}
         /\ ing.pc # "aggregated" => Outdated(r).ing = stale.ing
         /\ sweep.pc = "aggregated" => Outdated(r).sweep # {}
         /\ sweep.pc # "aggregated" => Outdated(r).sweep = stale.sweep
  BY DEF Outdated

\* The initial states satisfy the invariant.
LEMMA InitInvariant == Init => IInv
  BY HouseConstants, AggregateOfNone
     DEF Init, IInv, TypeOK, Handling, Sweeping, HouseFirst, Knowing, HouseIsAggregate,
         NoMessage, NoSweep, Status, Flag, HouseValues, Messages, Reasons

LEMMA EnsureHouseInvariant ==
  ASSUME IInv, NEW d \in Devices, NEW m \in Messages, EnsureHouse(d, m)
  PROVE  IInv'
  <1> USE DEF EnsureHouse
  <1>1. /\ ing'.pc = "received" /\ ing'.dev = {d} /\ ing'.new = "unknown"
        /\ ing' \in [pc : {"idle", "received", "loaded", "known", "status", "aggregated"},
                     dev : SUBSET Devices, msg : Messages, loaded : Status \cup {"absent"},
                     new : Status, before : HouseValues \cup {"absent"}, agg : HouseValues]
    BY DEF NoMessage, Status, HouseValues
  <1>2. \/ houseStatus # "absent" /\ houseStatus' = houseStatus
        \/ houseStatus = "absent" /\ houseStatus' = "unknown"
    OBVIOUS
  <1>3. TypeOK'
    BY <1>1, <1>2 DEF IInv, TypeOK, HouseValues
  <1>4. Handling' /\ Sweeping' /\ HouseFirst'
    BY <1>1, <1>2 DEF IInv, Handling, Sweeping, HouseFirst
  <1>5. Knowing'
    BY <1>1, <1>2 DEF IInv, Knowing, Sweeping, SweepView
  <1>6. HouseIsAggregate'
    BY <1>2, AggregateOfNone DEF IInv, HouseIsAggregate, HouseFirst
  <1>7. QED
    BY <1>3, <1>4, <1>5, <1>6 DEF IInv

LEMMA LoadDeviceInvariant ==
  ASSUME IInv, NEW d \in Devices, LoadDevice(d)
  PROVE  IInv'
  <1> USE DEF LoadDevice
  <1>1. ing' \in [pc : {"idle", "received", "loaded", "known", "status", "aggregated"},
                  dev : SUBSET Devices, msg : Messages, loaded : Status \cup {"absent"},
                  new : Status, before : HouseValues \cup {"absent"}, agg : HouseValues]
    BY DEF IInv, TypeOK, Status
  <1>2. ing'.pc = "loaded" /\ ing'.dev = ing.dev /\ ing'.new = ing.new /\ ing'.msg = ing.msg
    BY DEF IInv, TypeOK
  <1>3. TypeOK'
    BY <1>1 DEF IInv, TypeOK
  <1>4. Handling' /\ Sweeping' /\ HouseFirst' /\ HouseIsAggregate'
    BY <1>2 DEF IInv, Handling, Sweeping, HouseFirst, HouseIsAggregate
  <1>5. Knowing'
    BY <1>2 DEF IInv, Knowing, SweepView
  <1>6. QED
    BY <1>3, <1>4, <1>5 DEF IInv

LEMMA TouchDeviceInvariant ==
  ASSUME IInv, NEW d \in Devices, TouchDevice(d)
  PROVE  IInv'
  <1> USE DEF TouchDevice
  <1>1. ing'.pc = "known" /\ ing'.dev = ing.dev /\ ing'.new = ing.new /\ ing'.msg = ing.msg
    BY DEF IInv, TypeOK
  <1>2. ing' \in [pc : {"idle", "received", "loaded", "known", "status", "aggregated"},
                  dev : SUBSET Devices, msg : Messages, loaded : Status \cup {"absent"},
                  new : Status, before : HouseValues \cup {"absent"}, agg : HouseValues]
    BY DEF IInv, TypeOK
  <1>3. ing.dev = {d} /\ d \notin sweep.marked
    BY DEF IInv, Handling, Locked
  <1>4. /\ devSeen' = [devSeen EXCEPT ![d] = "recent"]
        /\ UNCHANGED <<devActive, houseStatus, houseActive, sweep, faults>>
    OBVIOUS
  <1>5. CASE devStatus[d] = "absent"
    <2>1. /\ devStatus' = [devStatus EXCEPT ![d] = "unknown"]
          /\ stale' = Outdated("registered") /\ drift' = drift \cup {"registered"}
      BY <1>5
    <2>2. /\ stale' \in [ing : SUBSET Reasons, sweep : SUBSET Reasons]
          /\ sweep.pc = "aggregated" => stale'.sweep # {}
      BY <2>1, OutdatedFact DEF IInv, TypeOK, Reasons
    <2>3. TypeOK'
      BY <1>2, <1>4, <2>1, <2>2 DEF IInv, TypeOK, Status, Reasons
    <2>4. Handling' /\ Sweeping' /\ HouseFirst'
      BY <1>1, <1>3, <1>4, <2>1 DEF IInv, TypeOK, Handling, Sweeping, HouseFirst
    <2>5. Knowing' /\ HouseIsAggregate'
      BY <1>1, <1>4, <2>1, <2>2 DEF Knowing, HouseIsAggregate
    <2>6. QED
      BY <2>3, <2>4, <2>5 DEF IInv
  <1>6. CASE devStatus[d] # "absent"
    <2>1. UNCHANGED <<devStatus, stale, drift>>
      BY <1>6
    <2>2. TypeOK'
      BY <1>2, <1>4, <2>1 DEF IInv, TypeOK
    <2>3. Handling' /\ Sweeping' /\ HouseFirst' /\ HouseIsAggregate'
      BY <1>1, <1>3, <1>4, <1>6, <2>1
         DEF IInv, TypeOK, Handling, Sweeping, HouseFirst, HouseIsAggregate
    <2>4. Knowing'
      BY <1>1, <1>4, <2>1 DEF IInv, Knowing, SweepView
    <2>5. QED
      BY <2>2, <2>3, <2>4 DEF IInv
  <1>7. QED
    BY <1>5, <1>6

LEMMA DispatchInvariant ==
  ASSUME IInv, Dispatch
  PROVE  IInv'
  <1>1. UNCHANGED <<devStatus, devActive, devSeen, houseStatus, houseActive, sweep, stale,
                    drift, faults>>
    BY DEF Dispatch
  <1>2. \/ ing' = NoMessage
        \/ /\ ing.pc = "known"
           /\ \E n \in {"online", "offline"} :
                /\ n = "offline" => ing.msg = "offline"
                /\ ing' = [ing EXCEPT !.pc = "status", !.new = n]
    BY DEF Dispatch
  <1>3. CASE ing' = NoMessage
    <2>1. TypeOK'
      BY <1>1, <1>3 DEF IInv, TypeOK, NoMessage, Status, HouseValues, Messages
    <2>2. Handling' /\ Sweeping' /\ HouseFirst' /\ HouseIsAggregate'
      BY <1>1, <1>3 DEF IInv, Handling, Sweeping, HouseFirst, HouseIsAggregate, NoMessage
    <2>3. Knowing'
      BY <1>1, <1>3 DEF IInv, Knowing, SweepView, NoMessage
    <2>4. QED
      BY <2>1, <2>2, <2>3 DEF IInv
  <1>4. ASSUME ing.pc = "known", NEW n \in {"online", "offline"},
               n = "offline" => ing.msg = "offline",
               ing' = [ing EXCEPT !.pc = "status", !.new = n]
        PROVE  IInv'
    <2>1. /\ ing'.pc = "status" /\ ing'.dev = ing.dev /\ ing'.new = n /\ ing'.msg = ing.msg
          /\ ing' \in [pc : {"idle", "received", "loaded", "known", "status", "aggregated"},
                  dev : SUBSET Devices, msg : Messages, loaded : Status \cup {"absent"},
                  new : Status, before : HouseValues \cup {"absent"}, agg : HouseValues]
      BY <1>4 DEF IInv, TypeOK, Status
    <2>2. TypeOK'
      BY <1>1, <2>1 DEF IInv, TypeOK
    <2>3. Handling' /\ Sweeping' /\ HouseFirst' /\ HouseIsAggregate'
      BY <1>1, <1>4, <2>1 DEF IInv, Handling, Sweeping, HouseFirst, HouseIsAggregate
    <2>4. Knowing'
      BY <1>1, <2>1 DEF IInv, Knowing, SweepView
    <2>5. QED
      BY <2>2, <2>3, <2>4 DEF IInv
  <1>5. QED
    BY <1>2, <1>3, <1>4

LEMMA HandleStatusInvariant ==
  ASSUME IInv, NEW d \in Devices, HandleStatus(d)
  PROVE  IInv'
  <1> DEFINE a == Aggregate([devStatus EXCEPT ![d] = ing.new], devActive)
  <1>1. UNCHANGED <<devStatus, devActive, devSeen, houseStatus, houseActive, sweep, stale,
                    drift, faults>>
    BY DEF HandleStatus
  <1>2. /\ ing.pc = "status" /\ ing.dev = {d}
        /\ ing' = [ing EXCEPT !.pc = "aggregated", !.loaded = devStatus[d],
                              !.before = houseStatus, !.agg = a]
    BY DEF HandleStatus, IInv, Handling
  <1>3. a \in HouseValues
    BY AggregateValue
  <1> HIDE DEF a
  <1>4. /\ ing'.pc = "aggregated" /\ ing'.dev = {d} /\ ing'.new = ing.new
        /\ ing'.msg = ing.msg /\ ing'.loaded = devStatus[d] /\ ing'.before = houseStatus
        /\ ing'.agg = a
        /\ ing' \in [pc : {"idle", "received", "loaded", "known", "status", "aggregated"},
                  dev : SUBSET Devices, msg : Messages, loaded : Status \cup {"absent"},
                  new : Status, before : HouseValues \cup {"absent"}, agg : HouseValues]
    BY <1>2, <1>3 DEF IInv, TypeOK
  <1>5. TypeOK'
    BY <1>1, <1>4 DEF IInv, TypeOK
  <1>6. Handling' /\ Sweeping' /\ HouseFirst' /\ HouseIsAggregate'
    BY <1>1, <1>2, <1>4 DEF IInv, Handling, Sweeping, HouseFirst, HouseIsAggregate
  <1>7. Knowing'
    BY <1>1, <1>4 DEF IInv, Knowing, SweepView, a
  <1>8. QED
    BY <1>5, <1>6, <1>7 DEF IInv

\* What the commit of handle_status writes: the new status of the device, and
\* the aggregate when nothing changed under the session.
LEMMA CommitStatusFact ==
  ASSUME IInv, NEW d \in Devices, CommitStatus(d)
  PROVE  /\ ing.pc = "aggregated" /\ ing.dev = {d} /\ devSeen[d] = "recent"
         /\ devStatus[d] # "absent" /\ houseStatus # "absent"
         /\ devStatus' = [devStatus EXCEPT ![d] = ing.new]
         /\ devSeen' = devSeen
         /\ ing' = NoMessage /\ drift' = stale.ing
         /\ stale' \in [ing : SUBSET Reasons, sweep : SUBSET Reasons]
         /\ stale'.ing = {}
         /\ sweep.pc = "aggregated" => stale'.sweep # {}
         /\ stale.ing = {} => houseStatus' = Aggregate(devStatus', devActive)
         /\ houseStatus' \in HouseValues
  <1>1. ing.pc = "aggregated" /\ ing.dev = {d}
    BY DEF CommitStatus, IInv, Handling
  <1>2. /\ devSeen[d] = "recent" /\ devStatus[d] # "absent" /\ houseStatus # "absent"
        /\ ing.loaded = devStatus[d]
    BY <1>1 DEF IInv, Handling
  <1>3. devStatus' = [devStatus EXCEPT ![d] = ing.new]
    BY <1>2 DEF CommitStatus, Written
  <1>4. devSeen' = devSeen
    BY <1>2 DEF CommitStatus, IInv, TypeOK
  <1>5. stale' = [Outdated("skew") EXCEPT !.ing = {}] /\ drift' = stale.ing /\ ing' = NoMessage
    BY DEF CommitStatus
  <1>6. /\ Outdated("skew") \in [ing : SUBSET Reasons, sweep : SUBSET Reasons]
        /\ sweep.pc = "aggregated" => Outdated("skew").sweep # {}
    BY OutdatedFact DEF IInv, TypeOK, Reasons
  <1>7. /\ stale' \in [ing : SUBSET Reasons, sweep : SUBSET Reasons] /\ stale'.ing = {}
        /\ sweep.pc = "aggregated" => stale'.sweep # {}
    BY <1>5, <1>6
  <1>8. houseStatus' = IF ing.agg = ing.before THEN houseStatus ELSE ing.agg
    BY DEF CommitStatus, Written
  <1>9. stale.ing = {} => ing.before = houseStatus /\ ing.agg = Aggregate(devStatus', devActive)
    BY <1>1, <1>3 DEF IInv, Knowing
  <1>10. houseStatus' \in HouseValues
    BY <1>2, <1>8 DEF IInv, TypeOK
  <1>11. stale.ing = {} => houseStatus' = Aggregate(devStatus', devActive)
    BY <1>8, <1>9
  <1>12. QED
    BY <1>1, <1>2, <1>3, <1>4, <1>5, <1>7, <1>10, <1>11

LEMMA CommitStatusInvariant ==
  ASSUME IInv, NEW d \in Devices, CommitStatus(d)
  PROVE  IInv'
  <1>1. UNCHANGED <<devActive, houseActive, sweep, faults>>
    BY DEF CommitStatus
  <1>2. ing.new \in Status /\ ing.new # "absent"
    BY DEF IInv, TypeOK, Status
  <1>3. TypeOK'
    BY <1>1, <1>2, CommitStatusFact
       DEF IInv, TypeOK, NoMessage, Status, HouseValues, Messages
  <1>4. Handling' /\ Sweeping' /\ HouseFirst'
    BY <1>1, <1>2, CommitStatusFact
       DEF IInv, TypeOK, Handling, Sweeping, HouseFirst, NoMessage, HouseValues
  <1>5. Knowing'
    BY <1>1, CommitStatusFact DEF Knowing, NoMessage
  <1>6. HouseIsAggregate'
    BY <1>1, CommitStatusFact DEF HouseIsAggregate
  <1>7. QED
    BY <1>3, <1>4, <1>5, <1>6 DEF IInv

LEMMA FailMessageInvariant ==
  ASSUME IInv, FailMessage
  PROVE  IInv'
  <1>1. UNCHANGED <<devStatus, devActive, devSeen, houseStatus, houseActive, sweep, drift>>
    BY DEF FailMessage
  <1>2. ing' = NoMessage /\ stale' = [stale EXCEPT !.ing = {}] /\ faults' = faults + 1
    BY DEF FailMessage
  <1>3. TypeOK'
    BY <1>1, <1>2 DEF IInv, TypeOK, NoMessage, Status, HouseValues, Messages
  <1>4. Handling' /\ Sweeping' /\ HouseFirst' /\ HouseIsAggregate'
    BY <1>1, <1>2 DEF IInv, Handling, Sweeping, HouseFirst, HouseIsAggregate, NoMessage
  <1>5. stale'.sweep = stale.sweep
    BY <1>2 DEF IInv, TypeOK
  <1>6. Knowing'
    BY <1>1, <1>2, <1>5 DEF IInv, Knowing, SweepView, NoMessage
  <1>7. QED
    BY <1>3, <1>4, <1>6 DEF IInv

LEMMA SilenceInvariant ==
  ASSUME IInv, NEW d \in Devices, Silence(d)
  PROVE  IInv'
  <1> USE DEF IInv, Silence
  <1>1. TypeOK' /\ HouseFirst' /\ HouseIsAggregate'
    BY DEF TypeOK, HouseFirst, HouseIsAggregate
  <1>2. Handling' /\ Sweeping'
    BY DEF TypeOK, Handling, Sweeping
  <1>3. Knowing'
    BY DEF Knowing, SweepView
  <1>4. QED
    BY <1>1, <1>2, <1>3

LEMMA SweepMarkInvariant ==
  ASSUME IInv, SweepMark
  PROVE  IInv'
  <1>1. UNCHANGED <<devStatus, devActive, devSeen, houseStatus, houseActive, ing, stale, drift,
                    faults>>
    BY DEF SweepMark
  <1>2. /\ sweep'.pc = "marked" /\ sweep'.marked = Stale /\ Stale # {}
        /\ sweep' \in [pc : {"idle", "marked", "aggregated"}, marked : SUBSET Devices,
                        before : HouseValues \cup {"absent"}, agg : HouseValues]
    BY DEF SweepMark, NoSweep, Stale, HouseValues
  <1>3. \A d \in Stale : d \in Devices /\ devSeen[d] = "old" /\ devStatus[d] # "absent"
    BY DEF Stale
  <1>4. TypeOK' /\ HouseFirst' /\ HouseIsAggregate'
    BY <1>1, <1>2 DEF IInv, TypeOK, HouseFirst, HouseIsAggregate
  <1>5. Handling' /\ Sweeping'
    BY <1>1, <1>2, <1>3 DEF IInv, Handling, Sweeping, HouseFirst
  <1>6. Knowing'
    BY <1>1, <1>2 DEF IInv, Knowing
  <1>7. QED
    BY <1>4, <1>5, <1>6 DEF IInv

LEMMA SweepAggregateInvariant ==
  ASSUME IInv, SweepAggregate
  PROVE  IInv'
  <1> DEFINE a == Aggregate(SweepView, devActive)
  <1>1. UNCHANGED <<devStatus, devActive, devSeen, houseStatus, houseActive, ing, stale, drift,
                    faults>>
    BY DEF SweepAggregate
  <1>2. /\ sweep.pc = "marked"
        /\ sweep' = [sweep EXCEPT !.pc = "aggregated", !.before = houseStatus, !.agg = a]
    BY DEF SweepAggregate
  <1>3. a \in HouseValues
    BY AggregateValue
  <1> HIDE DEF a
  <1>4. /\ sweep'.pc = "aggregated" /\ sweep'.marked = sweep.marked
        /\ sweep'.before = houseStatus /\ sweep'.agg = a
        /\ sweep' \in [pc : {"idle", "marked", "aggregated"}, marked : SUBSET Devices,
                        before : HouseValues \cup {"absent"}, agg : HouseValues]
    BY <1>2, <1>3 DEF IInv, TypeOK
  <1>5. SweepView' = SweepView
    BY <1>1, <1>4 DEF SweepView
  <1>6. TypeOK' /\ HouseFirst' /\ HouseIsAggregate'
    BY <1>1, <1>4 DEF IInv, TypeOK, HouseFirst, HouseIsAggregate
  <1>7. Handling' /\ Sweeping'
    BY <1>1, <1>2, <1>4 DEF IInv, Handling, Sweeping
  <1>8. Knowing'
    BY <1>1, <1>4, <1>5 DEF IInv, Knowing, a
  <1>9. QED
    BY <1>6, <1>7, <1>8 DEF IInv

\* What the commit of the sweep writes.
LEMMA SweepCommitFact ==
  ASSUME IInv, SweepCommit
  PROVE  /\ devStatus' \in [Devices -> Status \cup {"absent"}]
         /\ \A d \in Devices : /\ d \in sweep.marked => devStatus'[d] = "offline"
                               /\ d \notin sweep.marked => devStatus'[d] = devStatus[d]
         /\ sweep' = NoSweep /\ drift' = stale.sweep
         /\ stale' \in [ing : SUBSET Reasons, sweep : SUBSET Reasons]
         /\ ing.pc = "aggregated" => stale'.ing # {}
         /\ stale.sweep = {} => houseStatus' = Aggregate(devStatus', devActive)
         /\ houseStatus' \in HouseValues
  <1>1. devStatus' = SweepView
    BY DEF SweepCommit, SweepView
  <1>2. devStatus' \in [Devices -> Status \cup {"absent"}]
    BY <1>1 DEF SweepView, IInv, TypeOK, Status
  <1>3. \A d \in Devices : /\ d \in sweep.marked => devStatus'[d] = "offline"
                           /\ d \notin sweep.marked => devStatus'[d] = devStatus[d]
    BY <1>1 DEF SweepView
  <1>4. drift' = stale.sweep /\ sweep' = NoSweep
    BY DEF SweepCommit
  <1>5. /\ Outdated("skew") \in [ing : SUBSET Reasons, sweep : SUBSET Reasons]
        /\ ing.pc = "aggregated" => Outdated("skew").ing # {}
    BY OutdatedFact DEF IInv, TypeOK, Reasons
  <1>6. /\ stale' \in [ing : SUBSET Reasons, sweep : SUBSET Reasons]
        /\ ing.pc = "aggregated" => stale'.ing # {}
    BY <1>5 DEF SweepCommit
  <1>7. /\ sweep.pc = "aggregated"
        /\ houseStatus' = IF sweep.agg = sweep.before THEN houseStatus ELSE sweep.agg
    BY DEF SweepCommit, Written
  <1>8. houseStatus' \in HouseValues
    BY <1>7 DEF IInv, TypeOK, Sweeping
  <1>9. stale.sweep = {} => houseStatus' = Aggregate(devStatus', devActive)
    BY <1>1, <1>7 DEF IInv, Knowing
  <1>10. QED
    BY <1>2, <1>3, <1>4, <1>6, <1>8, <1>9

LEMMA SweepCommitInvariant ==
  ASSUME IInv, SweepCommit
  PROVE  IInv'
  <1>1. UNCHANGED <<devActive, devSeen, houseActive, ing, faults>>
    BY DEF SweepCommit
  <1>2. TypeOK'
    BY <1>1, SweepCommitFact DEF IInv, TypeOK, NoSweep, HouseValues
  <1>3. \A d \in Devices : ing.pc = "aggregated" /\ d \in ing.dev => d \notin sweep.marked
    BY DEF IInv, Handling, Sweeping
  <1>4. ing.dev \subseteq Devices
    BY DEF IInv, TypeOK
  <1>5. Handling'
    BY <1>1, <1>3, <1>4, SweepCommitFact DEF IInv, Handling, HouseValues
  <1>6. Sweeping' /\ HouseFirst'
    BY SweepCommitFact DEF Sweeping, HouseFirst, NoSweep, HouseValues
  <1>7. Knowing'
    BY <1>1, SweepCommitFact DEF Knowing, NoSweep
  <1>8. HouseIsAggregate'
    BY <1>1, SweepCommitFact DEF HouseIsAggregate
  <1>9. QED
    BY <1>2, <1>5, <1>6, <1>7, <1>8 DEF IInv

LEMMA SweepFailInvariant ==
  ASSUME IInv, SweepFail
  PROVE  IInv'
  <1>1. UNCHANGED <<devStatus, devActive, devSeen, houseStatus, houseActive, ing, drift>>
    BY DEF SweepFail
  <1>2. sweep' = NoSweep /\ stale' = [stale EXCEPT !.sweep = {}] /\ faults' = faults + 1
    BY DEF SweepFail
  <1>3. TypeOK' /\ HouseFirst' /\ HouseIsAggregate'
    BY <1>1, <1>2 DEF IInv, TypeOK, NoSweep, HouseValues, HouseFirst, HouseIsAggregate
  <1>4. Handling' /\ Sweeping'
    BY <1>1, <1>2 DEF IInv, Handling, Sweeping, NoSweep
  <1>5. stale'.ing = stale.ing
    BY <1>2 DEF IInv, TypeOK
  <1>6. Knowing'
    BY <1>1, <1>2, <1>5 DEF IInv, Knowing, NoSweep
  <1>7. QED
    BY <1>3, <1>4, <1>6 DEF IInv

LEMMA PatchDeviceInvariant ==
  ASSUME IInv, NEW d \in Devices, NEW f \in Flag, PatchDevice(d, f)
  PROVE  IInv'
  <1>1. UNCHANGED <<devStatus, devSeen, houseStatus, houseActive, ing, sweep, faults>>
    BY DEF PatchDevice
  <1>2. /\ devActive' = [devActive EXCEPT ![d] = f]
        /\ stale' = Outdated("patched") /\ drift' = drift \cup {"patched"}
    BY DEF PatchDevice
  <1>3. /\ stale' \in [ing : SUBSET Reasons, sweep : SUBSET Reasons]
        /\ ing.pc = "aggregated" => stale'.ing # {}
        /\ sweep.pc = "aggregated" => stale'.sweep # {}
    BY <1>2, OutdatedFact DEF IInv, TypeOK, Reasons
  <1>4. TypeOK'
    BY <1>1, <1>2, <1>3 DEF IInv, TypeOK, Reasons
  <1>5. Handling' /\ Sweeping' /\ HouseFirst'
    BY <1>1 DEF IInv, Handling, Sweeping, HouseFirst
  <1>6. Knowing' /\ HouseIsAggregate'
    BY <1>1, <1>2, <1>3 DEF Knowing, HouseIsAggregate
  <1>7. QED
    BY <1>4, <1>5, <1>6 DEF IInv

LEMMA PatchHouseInvariant ==
  ASSUME IInv, NEW f \in Flag, PatchHouse(f)
  PROVE  IInv'
  <1> USE DEF IInv, PatchHouse
  <1>1. TypeOK' /\ Handling' /\ Sweeping' /\ HouseFirst' /\ HouseIsAggregate'
    BY DEF TypeOK, Handling, Sweeping, HouseFirst, HouseIsAggregate
  <1>2. Knowing'
    BY DEF Knowing, SweepView
  <1>3. QED
    BY <1>1, <1>2

-----------------------------------------------------------------------------
\* The inductive invariant holds in every reachable state.
THEOREM Invariance == Spec => []IInv
  <1>1. IInv /\ UNCHANGED vars => IInv'
    BY DEF vars, IInv, TypeOK, Handling, Sweeping, HouseFirst, Knowing, HouseIsAggregate,
           SweepView
  <1>2. ASSUME IInv, Next
        PROVE  IInv'
    BY <1>2, EnsureHouseInvariant, LoadDeviceInvariant, TouchDeviceInvariant,
       DispatchInvariant, HandleStatusInvariant, CommitStatusInvariant, FailMessageInvariant,
       SilenceInvariant, SweepMarkInvariant, SweepAggregateInvariant, SweepCommitInvariant,
       SweepFailInvariant, PatchDeviceInvariant, PatchHouseInvariant
       DEF Next
  <1>3. IInv /\ [Next]_vars => IInv'
    BY <1>1, <1>2
  <1>4. QED
    BY <1>3, InitInvariant, PTL DEF Spec

\* Every variable keeps its type.
THEOREM TypeCorrect == Spec => []TypeOK
  <1>1. IInv => TypeOK
    BY DEF IInv
  <1>2. QED
    BY <1>1, Invariance, PTL

\* The status of the house is the aggregate of its devices, unless a device was
\* registered or patched since or two aggregations overlapped.
THEOREM HouseIsAggregateHolds == Spec => []HouseIsAggregate
  <1>1. IInv => HouseIsAggregate
    BY DEF IInv
  <1>2. QED
    BY <1>1, Invariance, PTL

\* A device goes offline by its last will, or when it is silent too long.
THEOREM OfflineOnlyIfSilentHolds == Spec => OfflineOnlyIfSilent
  <1> DEFINE Founded == \A d \in Devices : devStatus[d] = "online" /\ devStatus'[d] = "offline" =>
                          devSeen[d] = "old" \/ (d \in ing.dev /\ ing.msg = "offline")
  <1>1. ASSUME IInv, Next
        PROVE  Founded
    <2>1. ASSUME NEW d \in Devices, CommitStatus(d)
          PROVE  Founded
      <3>1. /\ ing.dev = {d} /\ ing.pc = "aggregated"
            /\ devStatus' = [devStatus EXCEPT ![d] = ing.new]
        BY <1>1, <2>1, CommitStatusFact
      <3>2. ing.new = "offline" => ing.msg = "offline"
        BY <1>1, <3>1 DEF IInv, Handling
      <3>3. QED
        BY <1>1, <3>1, <3>2 DEF IInv, TypeOK
    <2>2. CASE SweepCommit
      BY <1>1, <2>2, SweepCommitFact DEF IInv, Sweeping
    <2>3. ASSUME NEW d \in Devices, TouchDevice(d)
          PROVE  Founded
      BY <1>1, <2>3 DEF TouchDevice, IInv, TypeOK
    <2>4. CASE UNCHANGED devStatus
      BY <2>4
    <2>5. QED
      BY <1>1, <2>1, <2>2, <2>3, <2>4
         DEF Next, EnsureHouse, LoadDevice, Dispatch, HandleStatus, FailMessage, Silence,
             SweepMark, SweepAggregate, SweepFail, PatchDevice, PatchHouse
  <1>2. IInv /\ [Next]_vars => [Founded]_vars
    BY <1>1
  <1>3. QED
    BY <1>2, Invariance, PTL DEF Spec, OfflineOnlyIfSilent
=============================================================================
