---------------------------- MODULE ScriptsProofs ----------------------------
(***************************************************************************)
(* Proofs about the scripts of the controller.                             *)
(*                                                                         *)
(* Watchdog, for any limits and any number of faults: type correctness,    *)
(* that a request to end does not reach a later daemon, and that the       *)
(* watchdog acts only for a cause.  Both rest on the order of the time     *)
(* stamps that the daemon and the script leave in storage.                 *)
(*                                                                         *)
(* WarmFloors, for any finite set of rooms, any sensors and limits: type   *)
(* correctness, that heated floors are marked to be switched off, and that *)
(* the power limit is kept.                                                *)
(***************************************************************************)
EXTENDS Watchdog, WarmFloors, FiniteSetTheorems, WellFoundedInduction, TLAPS

-----------------------------------------------------------------------------
(* Watchdog                                                                *)


\* A daemon that runs has stored the time of its start, and a heartbeat.
Begun ==
  /\ proc # "down" => started # Unset
  /\ heartbeat = Unset => started = Unset

\* The stored connection is behind the real one only after an unmarked loss, or
\* when the daemon has ended.
Known ==
  /\ connected => mqttOk /\ disconnect = Unset
  /\ proc # "down" /\ mqttOk /\ ~unmarked => connected

\* The outage is at least as long as the disconnect mark says, and without a mark
\* as the daemon is old.
Aged ==
  /\ offline # Unset
  /\ disconnect # Unset => disconnect <= offline
  /\ ~mqttOk /\ ~unmarked /\ disconnect = Unset => started <= offline

\* The same of what the script has read, though the daemon may have been started
\* since.
Seen ==
  watch.pc = "read" =>
    /\ watch.offline # Unset
    /\ watch.heartbeat = Unset => started <= 0
    /\ ~watch.mqttOk /\ ~watch.unmarked =>
         /\ watch.mark # Unset => watch.mark <= watch.offline
         /\ watch.mark = Unset => started <= watch.offline

IInv == WatchdogTypeOK /\ Begun /\ Known /\ Aged /\ Seen /\ RequestIsCurrent

-----------------------------------------------------------------------------
(* Ages.                                                                   *)

LEMMA OldestFact ==
  Oldest \in Nat /\ Ages \subseteq Int /\ 0 \in Ages /\ Unset \in Ages /\ Unset < 0
  BY WatchdogConstants DEF Oldest, Ages, Unset

LEMMA AgeFact ==
  ASSUME NEW a \in Ages
  PROVE  a \in Int /\ (a # Unset => a >= 0) /\ a >= Unset
  BY WatchdogConstants DEF Oldest, Ages, Unset

LEMMA OlderFact ==
  ASSUME NEW a \in Ages
  PROVE  Older(a) \in Ages /\ (Older(a) = Unset <=> a = Unset)
  BY WatchdogConstants DEF Older, Oldest, Ages, Unset

\* Time keeps the order of two ages.
LEMMA OlderOrder ==
  ASSUME NEW a \in Ages, NEW b \in Ages, a <= b
  PROVE  Older(a) <= Older(b)
  BY WatchdogConstants DEF Older, Oldest, Ages, Unset

-----------------------------------------------------------------------------
(* Type correctness.                                                       *)

Watches == [pc : {"asleep", "read", "done"}, heartbeat : Ages, mqttOk : BOOLEAN,
            offline : Ages, mark : Ages, unmarked : BOOLEAN]

LEMMA AsleepFact ==
  /\ Asleep \in Watches /\ Asleep.pc = "asleep"
  /\ Done \in Watches /\ Done.pc = "done"
  BY OldestFact DEF Asleep, Done, Watches

LEMMA InitInvariant == WatchdogInit => IInv
  <1> SUFFICES ASSUME WatchdogInit PROVE IInv
    OBVIOUS
  <1>1. WatchdogTypeOK
    BY OldestFact, AsleepFact DEF WatchdogInit, WatchdogTypeOK, Watches
  <1>2. Begun /\ Known /\ RequestIsCurrent
    BY DEF WatchdogInit, Begun, Known, RequestIsCurrent
  <1>3. Aged
    BY OldestFact DEF WatchdogInit, Aged
  <1>4. Seen
    BY AsleepFact DEF WatchdogInit, Seen
  <1>5. QED
    BY <1>1, <1>2, <1>3, <1>4 DEF IInv

LEMMA FaultFact ==
  ASSUME WatchdogTypeOK, Fault
  PROVE  faults' \in Nat
  BY DEF WatchdogTypeOK, Fault

\* The daemon's keys are its own; the script changes flag, soft and hard.
LEMMA DecideFact ==
  ASSUME WatchdogTypeOK, WatchDecide
  PROVE  /\ proc' \in {"down", proc} /\ connected' \in {FALSE, connected}
         /\ proc' = "down" \/ connected' = connected
         /\ askedEnd' \in BOOLEAN /\ flag' \in BOOLEAN
         /\ soft' \in {soft, 0, Unset} /\ hard' \in {hard, 0}
         /\ (flag' = flag /\ raised' = raised) \/ raised' = 0
         /\ late' \in BOOLEAN /\ faults' \in Nat
  <1>1. CASE Clear
    BY <1>1 DEF Clear, WatchdogTypeOK
  <1>2. CASE SoftRestart
    BY <1>2 DEF SoftRestart, WatchdogTypeOK
  <1>3. CASE Wait
    BY <1>3 DEF Wait, WatchdogTypeOK
  <1>4. CASE HardRestart
    <2>1. hard' = 0 /\ soft' = Unset
      BY <1>4 DEF HardRestart
    <2>2. CASE Ends /\ UNCHANGED <<flag, raised, faults>>
      BY <2>1, <2>2 DEF Ends, WatchdogTypeOK
    <2>3. CASE Fault /\ flag' = TRUE /\ raised' = 0 /\ UNCHANGED <<daemon, late>>
      BY <2>1, <2>3, FaultFact DEF WatchdogTypeOK, daemon
    <2>4. QED
      BY <1>4, <2>2, <2>3 DEF HardRestart
  <1>5. QED
    BY <1>1, <1>2, <1>3, <1>4 DEF WatchDecide

LEMMA TypeStep == WatchdogTypeOK /\ WatchdogNext => WatchdogTypeOK'
  <1> SUFFICES ASSUME WatchdogTypeOK, WatchdogNext PROVE WatchdogTypeOK'
    OBVIOUS
  <1> USE OldestFact DEF WatchdogTypeOK, watchdogVars, daemon, keys
  <1>1. CASE Start
    BY <1>1 DEF Start, FlagAtStart
  <1>2. CASE Iterate
    <2>1. CASE flag \/ askedEnd
      BY <1>2, <2>1 DEF Iterate, Ends
    <2>2. CASE ~(flag \/ askedEnd)
      <3>1. heartbeat' = 0 /\ mqttOk' = connected /\ event' \in Ages
        BY <1>2, <2>2 DEF Iterate, Ages
      <3>2. /\ UNCHANGED <<proc, connected, askedEnd, flag, late, started, disconnect, soft, hard>>
            /\ UNCHANGED <<watch, broker, offline, raised, unmarked, faults>> /\ iterated' = TRUE
        BY <1>2, <2>2 DEF Iterate
      <3>3. QED
        BY <3>1, <3>2
    <2>3. QED
      BY <2>1, <2>2
  <1>3. CASE Connect
    BY <1>3 DEF Connect
  <1>4. CASE Disconnect
    BY <1>4 DEF Disconnect, DisconnectMark
  <1>5. CASE LoopFails \/ RemoteRestart \/ Hang \/ Unhang
    <2>1. CASE LoopFails
      <3>1. faults' \in Nat
        BY <2>1, FaultFact DEF LoopFails
      <3>2. QED
        BY <2>1, <3>1 DEF LoopFails
    <2>2. CASE RemoteRestart
      <3>1. faults' \in Nat
        BY <2>2, FaultFact DEF RemoteRestart
      <3>2. QED
        BY <2>2, <3>1 DEF RemoteRestart
    <2>3. CASE Hang
      <3>1. faults' \in Nat
        BY <2>3, FaultFact DEF Hang
      <3>2. QED
        BY <2>3, <3>1 DEF Hang
    <2>4. CASE Unhang
      BY <2>4 DEF Unhang
    <2>5. QED
      BY <1>5, <2>1, <2>2, <2>3, <2>4
  <1>6. CASE Dies \/ BrokerFails \/ BrokerReturns
    <2>1. CASE Dies
      BY <2>1, FaultFact DEF Dies, Ends
    <2>2. CASE BrokerFails
      <3>1. faults' \in Nat /\ broker' = FALSE /\ late' = FALSE
        BY <2>2, FaultFact DEF BrokerFails
      <3>2. /\ UNCHANGED <<proc, connected, askedEnd, watch, iterated, offline, raised, unmarked>>
            /\ UNCHANGED <<flag, mqttOk, heartbeat, started, disconnect, event, soft, hard>>
        BY <2>2 DEF BrokerFails
      <3>3. QED
        BY <3>1, <3>2, ZenonT(30)
    <2>3. CASE BrokerReturns
      BY <2>3 DEF BrokerReturns
    <2>4. QED
      BY <1>6, <2>1, <2>2, <2>3
  <1>7. CASE WatchRead
    BY <1>7 DEF WatchRead
  <1>8. CASE WatchDecide
    <2>1. /\ watch' \in Watches
          /\ UNCHANGED <<heartbeat, mqttOk, started, disconnect, event, broker, iterated, offline,
                        unmarked>>
      BY <1>8, AsleepFact DEF WatchDecide
    <2>2. /\ proc' \in {"down", "running", "stuck"} /\ connected' \in BOOLEAN
          /\ askedEnd' \in BOOLEAN /\ flag' \in BOOLEAN /\ late' \in BOOLEAN /\ faults' \in Nat
      BY <1>8, DecideFact
    <2>3. soft' \in Ages /\ hard' \in Ages /\ raised' \in Ages
      BY <1>8, DecideFact
    <2>4. QED
      BY <2>1, <2>2, <2>3 DEF Watches
  <1>9. CASE WatchdogTick
    BY <1>9, OlderFact, AsleepFact DEF WatchdogTick, Watches
  <1>10. QED
    BY <1>1, <1>2, <1>3, <1>4, <1>5, <1>6, <1>7, <1>8, <1>9 DEF WatchdogNext

-----------------------------------------------------------------------------
(* The order of the time stamps.                                           *)

LEMMA OrderStep == IInv /\ WatchdogNext => (Begun /\ Known /\ Aged)'
  <1> SUFFICES ASSUME IInv, WatchdogNext PROVE (Begun /\ Known /\ Aged)'
    OBVIOUS
  <1> USE OldestFact, AgeFact DEF IInv, WatchdogTypeOK, Begun, Known, Aged, daemon, keys
  <1>1. CASE Start
    BY <1>1 DEF Start, Unset
  <1>2. CASE Iterate
    BY <1>2 DEF Iterate, Ends, Unset
  <1>3. CASE Connect
    BY <1>3 DEF Connect, Unset
  <1>4. CASE Disconnect
    BY <1>4 DEF Disconnect, DisconnectMark, Unset
  <1>5. CASE LoopFails \/ RemoteRestart \/ Hang \/ Unhang
    BY <1>5 DEF LoopFails, RemoteRestart, Hang, Unhang
  <1>6. CASE Dies \/ BrokerFails \/ BrokerReturns
    BY <1>6 DEF Dies, BrokerFails, BrokerReturns, Ends
  <1>7. CASE WatchRead
    BY <1>7 DEF WatchRead
  <1>8. CASE WatchDecide
    <2>1. UNCHANGED <<heartbeat, mqttOk, started, disconnect, offline, unmarked>>
      BY <1>8 DEF WatchDecide
    <2>2. proc' # "down" => proc' = proc /\ connected' = connected
      BY <1>8, DecideFact
    <2>3. connected' = FALSE \/ connected' = connected
      BY <1>8, DecideFact
    <2>4. QED
      BY <2>1, <2>2, <2>3
  <1>9. CASE WatchdogTick
    BY <1>9, OlderFact, OlderOrder DEF WatchdogTick, Unset
  <1>10. QED
    BY <1>1, <1>2, <1>3, <1>4, <1>5, <1>6, <1>7, <1>8, <1>9 DEF WatchdogNext

LEMMA SeenStep == IInv /\ WatchdogNext => Seen'
  <1> SUFFICES ASSUME IInv, WatchdogNext PROVE Seen'
    OBVIOUS
  <1> USE OldestFact, AgeFact DEF IInv, WatchdogTypeOK, Seen, daemon, keys
  <1>1. CASE Start
    BY <1>1 DEF Start
  <1>2. CASE WatchRead
    BY <1>2 DEF WatchRead, Begun, Aged
  <1>3. CASE WatchDecide \/ WatchdogTick
    BY <1>3, AsleepFact DEF WatchDecide, WatchdogTick
  <1>4. CASE UNCHANGED <<watch, started>>
    BY <1>4
  <1>5. QED
    BY <1>1, <1>2, <1>3, <1>4
       DEF WatchdogNext, Iterate, Connect, Disconnect, LoopFails, RemoteRestart, Hang, Unhang, Dies,
           BrokerFails, BrokerReturns

\* A request is made while the daemon runs, and both grow old alike; a new
\* daemon drops it.
LEMMA RequestStep == IInv /\ WatchdogNext => RequestIsCurrent'
  <1> SUFFICES ASSUME IInv, WatchdogNext PROVE RequestIsCurrent'
    OBVIOUS
  <1> USE OldestFact, AgeFact DEF IInv, WatchdogTypeOK, RequestIsCurrent, daemon, keys
  <1>1. CASE Start
    BY <1>1 DEF Start, FlagAtStart
  <1>2. CASE Iterate
    BY <1>2 DEF Iterate, Ends
  <1>3. CASE WatchDecide
    <2>1. proc' # "down" => proc # "down" /\ started' = started /\ started >= 0
      BY <1>3, DecideFact DEF WatchDecide, Begun
    <2>2. (flag' = flag /\ raised' = raised) \/ raised' = 0
      BY <1>3, DecideFact
    <2>3. QED
      BY <2>1, <2>2
  <1>4. CASE WatchdogTick
    <2>1. flag' = flag /\ proc' = proc /\ started' = Older(started)
      BY <1>4 DEF WatchdogTick
    <2>2. flag => raised' = Older(raised)
      BY <1>4 DEF WatchdogTick
    <2>3. QED
      BY <2>1, <2>2, OlderOrder
  <1>5. CASE Dies
    BY <1>5 DEF Dies, Ends
  <1>6. CASE UNCHANGED <<flag, raised, started>> /\ (proc' # "down" => proc # "down")
    BY <1>6
  <1>7. QED
    BY <1>1, <1>2, <1>3, <1>4, <1>5, <1>6
       DEF WatchdogNext, Connect, Disconnect, LoopFails, RemoteRestart, Hang, Unhang, BrokerFails,
           BrokerReturns, WatchRead

-----------------------------------------------------------------------------
\* The inductive invariant holds in every reachable state.
THEOREM Invariance == WatchdogSpec => []IInv
  <1>1. IInv /\ UNCHANGED watchdogVars => IInv'
    BY DEF watchdogVars, daemon, keys, IInv, WatchdogTypeOK, Begun, Known, Aged, Seen, RequestIsCurrent
  <1>2. IInv /\ WatchdogNext => IInv'
    BY TypeStep, OrderStep, SeenStep, RequestStep DEF IInv
  <1>3. QED
    BY <1>1, <1>2, InitInvariant, PTL DEF WatchdogSpec

\* Every variable keeps its type; in particular ages stay bounded.
THEOREM WatchdogTypeCorrect == WatchdogSpec => []WatchdogTypeOK
  <1>1. IInv => WatchdogTypeOK
    BY DEF IInv
  <1>2. QED
    BY <1>1, Invariance, PTL

\* cm_force_restart never ends a daemon that started after it was set.
THEOREM RequestIsCurrentHolds == WatchdogSpec => []RequestIsCurrent
  <1>1. IInv => RequestIsCurrent
    BY DEF IInv
  <1>2. QED
    BY <1>1, Invariance, PTL

\* The script diagnoses a fault only when there is a cause, unless the loss was
\* not marked or the mark changed under the script.
LEMMA ReasonIsCause ==
  ASSUME IInv, watch.pc = "read", Reason
  PROVE  Cause \/ watch.unmarked \/ watch.mark # disconnect
  <1> USE OldestFact, AgeFact, WatchdogConstants DEF IInv, WatchdogTypeOK, Cause
  <1>1. CASE watch.heartbeat = Unset
    BY <1>1 DEF Reason, Seen
  <1>2. CASE watch.heartbeat > HeartbeatStale
    BY <1>2
  <1>3. CASE ~watch.mqttOk /\ OfflineSince # Unset /\ OfflineSince >= OfflineLimit
    <2>1. SUFFICES ASSUME ~watch.unmarked, watch.mark = disconnect
                   PROVE  watch.offline >= OfflineLimit
      OBVIOUS
    <2>2. OfflineSince <= watch.offline /\ OfflineSince \in Int /\ watch.offline \in Int
      BY <1>3, <2>1 DEF Seen, OfflineSince
    <2>3. QED
      BY <1>3, <2>2
  <1>4. CASE event > EventsStale
    BY <1>4
  <1>5. QED
    BY <1>1, <1>2, <1>3, <1>4 DEF Reason

\* A restart is asked for or made only for a cause that really exists.
THEOREM RestartForCauseHolds == WatchdogSpec => RestartForCause
  <1>1. IInv /\ [WatchdogNext]_watchdogVars =>
          [WatchDecide /\ (SoftRestart \/ HardRestart) =>
             Cause \/ watch.unmarked \/ watch.mark # disconnect]_watchdogVars
    BY ReasonIsCause DEF WatchDecide, SoftRestart, HardRestart
  <1>2. QED
    BY <1>1, Invariance, PTL DEF WatchdogSpec, RestartForCause


-----------------------------------------------------------------------------
(* The power of a set of rooms.  MapThenSumSet is a recursive function on   *)
(* the subsets of its argument that takes one element after another.  That  *)
(* there is such a function, and that the order does not matter, follows by *)
(* induction over the number of rooms, where the numbers that a statement   *)
(* holds of are a set.                                                      *)

\* What rooms draw when all of them are heated: Drawn is that of the rooms
\* that the script heats.
Power(S) == MapThenSumSet(LAMBDA r : Pow[r], S)

FirstOf(S) == CHOOSE x \in S : TRUE
Rest(S) == S \ {FirstOf(S)}

Sums(S, f) == f = [s \in SUBSET S |-> IF s = {} THEN 0 ELSE Pow[FirstOf(s)] + f[Rest(s)]]

LEMMA Induction ==
  ASSUME NEW T, 0 \in T, \A n \in Nat : n \in T => n + 1 \in T
  PROVE  Nat \subseteq T
<1> DEFINE B == {n \in Nat : n \notin T}
<1> SUFFICES ASSUME B # {} PROVE FALSE
  OBVIOUS
<1>1. PICK n \in B : \A m \in B : ~(<<m, n>> \in OpToRel(<, Nat))
  BY NatLessThanWellFounded, WFMin
<1>2. \A m \in B : ~(m < n)
  BY <1>1 DEF OpToRel
<1>3. n \in Nat /\ n # 0 /\ n \notin T
  BY <1>1
<1>4. n - 1 \in Nat /\ n - 1 < n /\ (n - 1) + 1 = n
  BY <1>3
<1>5. n - 1 \in T
  BY <1>2, <1>4
<1> QED
  BY <1>3, <1>4, <1>5

LEMMA RoomsFact ==
  ASSUME NEW S \in SUBSET Rooms
  PROVE  /\ IsFiniteSet(S) /\ Cardinality(S) \in Nat
         /\ Cardinality(S) = 0 <=> S = {}
         /\ \A x \in S : Cardinality(S \ {x}) = Cardinality(S) - 1
         /\ \A x \in S : S \ {x} \in SUBSET Rooms /\ Pow[x] \in Nat
         /\ S # {} => FirstOf(S) \in S
<1>1. IsFiniteSet(S)
  BY WarmFloorsOK, FS_Subset
<1>2. Cardinality(S) \in Nat /\ (Cardinality(S) = 0 <=> S = {})
  BY <1>1, FS_CardinalityType, FS_EmptySet
<1>3. \A x \in S : Cardinality(S \ {x}) = Cardinality(S) - 1
  BY <1>1, FS_RemoveElement
<1>4. \A x \in S : S \ {x} \in SUBSET Rooms /\ Pow[x] \in Nat
  BY WarmFloorsOK
<1>5. S # {} => FirstOf(S) \in S
  BY DEF FirstOf
<1> QED
  BY <1>1, <1>2, <1>3, <1>4, <1>5

\* Partial sums of sets of at most n rooms.
Adds(n, f) ==
  \A s \in SUBSET Rooms : Cardinality(s) <= n =>
    f[s] = IF s = {} THEN 0 ELSE Pow[FirstOf(s)] + f[Rest(s)]

LEMMA SumsOfSize ==
  ASSUME NEW n \in Nat
  PROVE  \E f \in [SUBSET Rooms -> Nat] : Adds(n, f)
<1> DEFINE T == {k \in Nat : \E f \in [SUBSET Rooms -> Nat] : Adds(k, f)}
<1>1. 0 \in T
  <2> DEFINE f == [s \in SUBSET Rooms |-> 0]
  <2>1. f \in [SUBSET Rooms -> Nat]
    OBVIOUS
  <2>2. Adds(0, f)
    <3> SUFFICES ASSUME NEW s \in SUBSET Rooms, Cardinality(s) <= 0
                 PROVE  f[s] = IF s = {} THEN 0 ELSE Pow[FirstOf(s)] + f[Rest(s)]
      BY DEF Adds
    <3>1. Cardinality(s) = 0
      BY RoomsFact
    <3>2. s = {}
      BY <3>1, RoomsFact
    <3> QED
      BY <3>2
  <2> QED
    BY <2>1, <2>2
<1>2. ASSUME NEW k \in Nat, k \in T
      PROVE  k + 1 \in T
  <2>1. PICK f \in [SUBSET Rooms -> Nat] : Adds(k, f)
    BY <1>2
  <2> DEFINE val(s) == IF s = {} THEN 0 ELSE Pow[FirstOf(s)] + f[Rest(s)]
             g == [s \in SUBSET Rooms |-> val(s)]
  <2>2. ASSUME NEW s \in SUBSET Rooms, s # {}
        PROVE  FirstOf(s) \in s /\ Rest(s) \in SUBSET Rooms /\ Pow[FirstOf(s)] \in Nat
    BY <2>2, RoomsFact DEF Rest
  <2>3. \A s \in SUBSET Rooms : val(s) \in Nat
    <3> SUFFICES ASSUME NEW s \in SUBSET Rooms, s # {}
                 PROVE  Pow[FirstOf(s)] + f[Rest(s)] \in Nat
      OBVIOUS
    <3>1. Pow[FirstOf(s)] \in Nat /\ f[Rest(s)] \in Nat
      BY <2>2
    <3> QED
      BY <3>1
  <2>4. g \in [SUBSET Rooms -> Nat]
    BY <2>3
  <2>5. \A s \in SUBSET Rooms : Cardinality(s) <= k => g[s] = f[s]
    BY <2>1 DEF Adds
  <2>6. Adds(k + 1, g)
    <3> SUFFICES ASSUME NEW s \in SUBSET Rooms, Cardinality(s) <= k + 1, s # {}
                 PROVE  g[s] = Pow[FirstOf(s)] + g[Rest(s)]
      BY DEF Adds
    <3>1. Rest(s) \in SUBSET Rooms /\ Cardinality(Rest(s)) <= k
      <4>1. Cardinality(Rest(s)) = Cardinality(s) - 1 /\ Cardinality(s) \in Nat
        BY <2>2, RoomsFact DEF Rest
      <4> QED
        BY <2>2, <4>1
    <3>2. g[Rest(s)] = f[Rest(s)]
      BY <2>5, <3>1
    <3> QED
      BY <3>2
  <2> QED
    BY <2>4, <2>6
<1> HIDE DEF T
<1>3. Nat \subseteq T
  BY <1>1, <1>2, Induction
<1> QED
  BY <1>3 DEF T

LEMMA SumsExist ==
  ASSUME NEW S \in SUBSET Rooms
  PROVE  \E f : Sums(S, f)
<1>1. Cardinality(S) \in Nat /\ IsFiniteSet(S)
  BY RoomsFact
<1>2. PICK f \in [SUBSET Rooms -> Nat] : Adds(Cardinality(S), f)
  BY <1>1, SumsOfSize
<1> DEFINE g == [s \in SUBSET S |-> f[s]]
<1>3. ASSUME NEW s \in SUBSET S
      PROVE  g[s] = IF s = {} THEN 0 ELSE Pow[FirstOf(s)] + g[Rest(s)]
  <2>1. s \in SUBSET Rooms /\ Cardinality(s) <= Cardinality(S)
    BY <1>1, FS_Subset
  <2>2. f[s] = IF s = {} THEN 0 ELSE Pow[FirstOf(s)] + f[Rest(s)]
    BY <1>2, <2>1 DEF Adds
  <2>3. Rest(s) \in SUBSET S
    BY DEF Rest
  <2> QED
    BY <2>2, <2>3
<1>4. Sums(S, g)
  BY <1>3 DEF Sums
<1> QED
  BY <1>4

\* The function that MapThenSumSet defines for a set.
SumOn(S) == CHOOSE f : Sums(S, f)

LEMMA SumOnFact ==
  ASSUME NEW S \in SUBSET Rooms
  PROVE  /\ Power(S) = SumOn(S)[S]
         /\ \A s \in SUBSET S :
              SumOn(S)[s] = IF s = {} THEN 0 ELSE Pow[FirstOf(s)] + SumOn(S)[Rest(s)]
<1>1. Power(S) = SumOn(S)[S]
  BY DEF Power, MapThenSumSet, MapThenFoldSet, FirstOf, Rest, Sums, SumOn
<1>2. Sums(S, SumOn(S))
  BY SumsExist DEF SumOn
<1> QED
  BY <1>1, <1>2 DEF Sums

\* A sum is the same number whatever set it is taken in.
LEMMA SumIsPower ==
  ASSUME NEW S \in SUBSET Rooms, NEW s \in SUBSET S
  PROVE  SumOn(S)[s] = Power(s) /\ Power(s) \in Nat
<1> DEFINE T == {n \in Nat : \A A \in SUBSET Rooms : \A t \in SUBSET A : Cardinality(t) <= n =>
                               SumOn(A)[t] = SumOn(t)[t] /\ SumOn(t)[t] \in Nat}
<1>1. 0 \in T
  <2> SUFFICES ASSUME NEW A \in SUBSET Rooms, NEW t \in SUBSET A, Cardinality(t) <= 0
               PROVE  SumOn(A)[t] = SumOn(t)[t] /\ SumOn(t)[t] \in Nat
    OBVIOUS
  <2>1. t \in SUBSET Rooms
    OBVIOUS
  <2>2. Cardinality(t) = 0
    BY <2>1, RoomsFact
  <2>3. t = {}
    BY <2>1, <2>2, RoomsFact
  <2>4. SumOn(A)[t] = 0 /\ SumOn(t)[t] = 0
    BY <2>1, <2>3, SumOnFact
  <2> QED
    BY <2>4
<1>2. ASSUME NEW n \in Nat, n \in T
      PROVE  n + 1 \in T
  <2> SUFFICES ASSUME NEW A \in SUBSET Rooms, NEW t \in SUBSET A, Cardinality(t) <= n + 1
               PROVE  SumOn(A)[t] = SumOn(t)[t] /\ SumOn(t)[t] \in Nat
    OBVIOUS
  <2>1. t \in SUBSET Rooms /\ t \in SUBSET t
    OBVIOUS
  <2>2. CASE t = {}
    <3>1. SumOn(A)[t] = 0 /\ SumOn(t)[t] = 0
      BY <2>1, <2>2, SumOnFact
    <3> QED
      BY <3>1
  <2>3. CASE t # {}
    <3> DEFINE x == FirstOf(t)
               u == Rest(t)
    <3>1. x \in t /\ Pow[x] \in Nat /\ u \in SUBSET t /\ Cardinality(u) <= n
      <4>1. x \in t /\ Pow[x] \in Nat /\ u \in SUBSET t
        BY <2>1, <2>3, RoomsFact DEF Rest
      <4>2. Cardinality(u) = Cardinality(t) - 1 /\ Cardinality(t) \in Nat
        BY <2>1, <4>1, RoomsFact DEF Rest
      <4> QED
        BY <4>1, <4>2
    <3>2. SumOn(A)[u] = SumOn(u)[u] /\ SumOn(t)[u] = SumOn(u)[u] /\ SumOn(u)[u] \in Nat
      BY <1>2, <2>1, <3>1
    <3>3. SumOn(A)[t] = Pow[x] + SumOn(A)[u] /\ SumOn(t)[t] = Pow[x] + SumOn(t)[u]
      BY <2>1, <2>3, SumOnFact
    <3> HIDE DEF x, u
    <3> QED
      BY <3>1, <3>2, <3>3
  <2> QED
    BY <2>2, <2>3
<1> HIDE DEF T
<1>3. Nat \subseteq T
  BY <1>1, <1>2, Induction
<1>4. s \in SUBSET Rooms /\ Cardinality(s) \in Nat
  BY RoomsFact
<1>5. SumOn(S)[s] = SumOn(s)[s] /\ SumOn(s)[s] \in Nat
  BY <1>3, <1>4 DEF T
<1> QED
  BY <1>4, <1>5, SumOnFact

LEMMA PowerFirst ==
  ASSUME NEW S \in SUBSET Rooms
  PROVE  /\ Power({}) = 0 /\ Power(S) \in Nat
         /\ S # {} => Power(S) = Pow[FirstOf(S)] + Power(Rest(S))
<1>1. Power(S) = SumOn(S)[S] /\ Power({}) = SumOn({})[{}] /\ SumOn({})[{}] = 0
  BY SumOnFact
<1>2. ASSUME S # {}
      PROVE  Power(S) = Pow[FirstOf(S)] + Power(Rest(S))
  <2>1. SumOn(S)[S] = Pow[FirstOf(S)] + SumOn(S)[Rest(S)]
    BY <1>2, SumOnFact
  <2>2. Rest(S) \in SUBSET S
    BY DEF Rest
  <2> QED
    BY <1>1, <2>1, <2>2, SumIsPower
<1>3. Power(S) \in Nat
  BY SumIsPower
<1> QED
  BY <1>1, <1>2, <1>3

\* Rooms count one by one, in any order.
LEMMA PowerOne ==
  ASSUME NEW S \in SUBSET Rooms, NEW x \in S
  PROVE  Power(S) = Pow[x] + Power(S \ {x})
<1> DEFINE T == {n \in Nat : \A A \in SUBSET Rooms : \A y \in A : Cardinality(A) <= n =>
                               Power(A) = Pow[y] + Power(A \ {y})}
<1>1. 0 \in T
  <2> SUFFICES ASSUME NEW A \in SUBSET Rooms, NEW y \in A, Cardinality(A) <= 0
               PROVE  FALSE
    OBVIOUS
  <2>1. Cardinality(A) = 0
    BY RoomsFact
  <2> QED
    BY <2>1, RoomsFact
<1>2. ASSUME NEW n \in Nat, n \in T
      PROVE  n + 1 \in T
  <2> SUFFICES ASSUME NEW A \in SUBSET Rooms, NEW y \in A, Cardinality(A) <= n + 1
               PROVE  Power(A) = Pow[y] + Power(A \ {y})
    OBVIOUS
  <2> DEFINE z == FirstOf(A)
  <2>1. z \in A /\ Power(A) = Pow[z] + Power(A \ {z})
    BY PowerFirst, RoomsFact DEF Rest
  <2> HIDE DEF z
  <2>2. CASE y = z
    BY <2>1, <2>2
  <2>3. CASE y # z
    <3>1. /\ y \in A \ {z} /\ z \in A \ {y}
          /\ A \ {z} \in SUBSET Rooms /\ A \ {y} \in SUBSET Rooms
          /\ (A \ {z}) \ {y} = (A \ {y}) \ {z}
      BY <2>1, <2>3
    <3>2. Cardinality(A \ {z}) <= n /\ Cardinality(A \ {y}) <= n
      <4>1. /\ Cardinality(A) \in Nat
            /\ Cardinality(A \ {z}) = Cardinality(A) - 1 /\ Cardinality(A \ {y}) = Cardinality(A) - 1
        BY <2>1, RoomsFact
      <4> QED
        BY <4>1
    <3>3. /\ Power(A \ {z}) = Pow[y] + Power((A \ {z}) \ {y})
          /\ Power(A \ {y}) = Pow[z] + Power((A \ {y}) \ {z})
      BY <1>2, <3>1, <3>2
    <3>4. Pow[y] \in Nat /\ Pow[z] \in Nat /\ Power((A \ {y}) \ {z}) \in Nat
      BY <2>1, PowerFirst, RoomsFact
    <3> DEFINE c == Power((A \ {y}) \ {z})
    <3>5. /\ Power(A \ {z}) = Pow[y] + c /\ Power(A \ {y}) = Pow[z] + c /\ c \in Nat
      BY <3>1, <3>3, <3>4
    <3> HIDE DEF c
    <3> QED
      BY <2>1, <3>4, <3>5
  <2> QED
    BY <2>2, <2>3
<1> HIDE DEF T
<1>3. Nat \subseteq T
  BY <1>1, <1>2, Induction
<1>4. Cardinality(S) \in Nat
  BY RoomsFact
<1> QED
  BY <1>3, <1>4 DEF T

\* Rooms in two parts.
LEMMA PowerSplit ==
  ASSUME NEW S \in SUBSET Rooms, NEW D
  PROVE  Power(S) = Power(S \cap D) + Power(S \ D)
<1> DEFINE T == {n \in Nat : \A A \in SUBSET Rooms : Cardinality(A) <= n =>
                               Power(A) = Power(A \cap D) + Power(A \ D)}
<1>1. 0 \in T
  <2> SUFFICES ASSUME NEW A \in SUBSET Rooms, Cardinality(A) <= 0
               PROVE  Power(A) = Power(A \cap D) + Power(A \ D)
    OBVIOUS
  <2>1. Cardinality(A) = 0
    BY RoomsFact
  <2>2. A = {}
    BY <2>1, RoomsFact
  <2>3. A \cap D = {} /\ A \ D = {} /\ Power({}) = 0
    BY <2>2, PowerFirst
  <2> QED
    BY <2>2, <2>3
<1>2. ASSUME NEW n \in Nat, n \in T
      PROVE  n + 1 \in T
  <2> SUFFICES ASSUME NEW A \in SUBSET Rooms, Cardinality(A) <= n + 1, A # {}
               PROVE  Power(A) = Power(A \cap D) + Power(A \ D)
    <3>1. Power({}) = 0 + 0 /\ {} \cap D = {} /\ {} \ D = {} /\ Power({}) = 0
      BY PowerFirst
    <3> QED
      BY <3>1
  <2>1. PICK x \in A : TRUE
    OBVIOUS
  <2> DEFINE B == A \ {x}
  <2>2. B \in SUBSET Rooms /\ Cardinality(B) <= n
    <3>1. Cardinality(B) = Cardinality(A) - 1 /\ Cardinality(A) \in Nat
      BY RoomsFact
    <3> QED
      BY <3>1
  <2>3. Power(B) = Power(B \cap D) + Power(B \ D)
    BY <1>2, <2>2
  <2>4. Power(A) = Pow[x] + Power(B)
    BY PowerOne
  <2>5. /\ Pow[x] \in Nat /\ Power(B \cap D) \in Nat /\ Power(B \ D) \in Nat
    BY PowerFirst, RoomsFact
  <2>6. CASE x \in D
    <3>1. B \ D = A \ D /\ B \cap D = (A \cap D) \ {x} /\ x \in A \cap D
      BY <2>6
    <3>2. Power(A \cap D) = Pow[x] + Power(B \cap D)
      BY <3>1, PowerOne
    <3>3. Power(B \ D) = Power(A \ D)
      BY <3>1
    <3> HIDE DEF B
    <3> QED
      BY <2>3, <2>4, <2>5, <3>2, <3>3
  <2>7. CASE x \notin D
    <3>1. B \cap D = A \cap D /\ B \ D = (A \ D) \ {x} /\ x \in A \ D
      BY <2>7
    <3>2. Power(A \ D) = Pow[x] + Power(B \ D)
      BY <3>1, PowerOne
    <3>3. Power(B \cap D) = Power(A \cap D)
      BY <3>1
    <3> HIDE DEF B
    <3> QED
      BY <2>3, <2>4, <2>5, <3>2, <3>3
  <2> QED
    BY <2>6, <2>7
<1> HIDE DEF T
<1>3. Nat \subseteq T
  BY <1>1, <1>2, Induction
<1>4. Cardinality(S) \in Nat
  BY RoomsFact
<1> QED
  BY <1>3, <1>4 DEF T

\* Fewer rooms do not draw more.
LEMMA PowerMonotone ==
  ASSUME NEW S \in SUBSET Rooms, NEW s \in SUBSET S
  PROVE  Power(s) <= Power(S) /\ Power(s) \in Nat /\ Power(S) \in Nat
<1>1. S \cap s = s
  OBVIOUS
<1>2. Power(S) = Power(s) + Power(S \ s)
  BY <1>1, PowerSplit
<1>3. Power(s) \in Nat /\ Power(S \ s) \in Nat
  BY PowerFirst
<1> QED
  BY <1>2, <1>3

-----------------------------------------------------------------------------
(* Types, and the mark of heated floors.                                   *)

USE WarmFloorsOK DEF WarmFloorsOK

\* A pass finds a need for every room, also where a number is missing.
LEMMA NeedIsNat ==
  ASSUME TypeOK, NEW r \in Rooms
  PROVE  Need(r) \in Nat
<1>1. CASE ~HasNumbers(r)
  BY <1>1 DEF Need
<1>2. CASE HasNumbers(r)
  <2>1. Measured(r) \in Int
    <3>1. Measured(r) \in Airs \cup Floors \cup {Missing}
      <4>1. air[SensorOf[r]] \in Airs \cup {Missing} /\ floor[r] \in Floors \cup {Missing}
        BY DEF TypeOK
      <4> QED
        BY <4>1 DEF Measured
    <3>2. Measured(r) # Missing
      BY <1>2 DEF HasNumbers
    <3> QED
      BY <3>1, <3>2
  <2>2. Aim(r) \in Int
    <3>1. setpoint[r] \in Int
      BY <1>2 DEF TypeOK, HasNumbers, Aim
    <3>2. Extra[r] \in Int
      OBVIOUS
    <3>3. Aim(r) = IF Fresh(r) THEN setpoint[r] ELSE setpoint[r] + Extra[r]
      BY <1>2 DEF HasNumbers, Aim
    <3> QED
      BY <3>1, <3>2, <3>3
  <2> QED
    BY <2>1, <2>2 DEF Need
<1> QED
  BY <1>1, <1>2

LEMMA NoPassType ==
  NoPass \in [left : SUBSET Rooms, want : SUBSET Rooms, need : [Rooms -> Nat], budget : Int]
BY DEF NoPass

\* Relays that are all updated now.
LEMMA JustSet == 0 \in 0..MaxOn /\ [r \in Rooms |-> 0] \in [Rooms -> 0..MaxOn]
OBVIOUS

LEMMA TypeInit == Init => TypeOK
<1> SUFFICES ASSUME Init
             PROVE  TypeOK
  OBVIOUS
<1>1. heard \in [Sensors -> 0..(ZbStale + 1)] /\ air \in [Sensors -> Airs \cup {Missing}]
  BY DEF Init
<1>2. /\ floor \in [Rooms -> Floors \cup {Missing}]
      /\ setpoint \in [Rooms -> Setpoints \cup {Missing}]
  BY DEF Init
<1>3. changes \in 0..MaxChanges /\ switches \in 0..MaxSwitches
  BY DEF Init
<1> QED
  BY <1>1, <1>2, <1>3, JustSet, NoPassType DEF Init, TypeOK

LEMMA TypeNext == TypeOK /\ [Next]_vars => TypeOK'
<1> SUFFICES ASSUME TypeOK, [Next]_vars
             PROVE  TypeOK'
  OBVIOUS
<1>1. CASE StartPass
  <2>1. [r \in Rooms |-> Need(r)] \in [Rooms -> Nat]
    BY NeedIsNat
  <2>2. pass' \in [left : SUBSET Rooms, want : SUBSET Rooms, need : [Rooms -> Nat], budget : Int]
    BY <1>1, <2>1 DEF StartPass, TypeOK
  <2>3. limits' \in (Limits \cup {0}) \X (Limits \cup {0})
    BY <1>1 DEF StartPass, TypeOK
  <2> QED
    BY <1>1, <2>2, <2>3 DEF StartPass, Marked, house, TypeOK
<1>2. CASE PassWithoutAuto
  <2>1. on' \subseteq Rooms /\ byHand' \subseteq Rooms /\ kept' \in [Rooms -> 0..MaxOn]
    BY <1>2, JustSet DEF PassWithoutAuto, TypeOK
  <2> QED
    BY <1>2, <2>1 DEF PassWithoutAuto, house, TypeOK
<1>3. ASSUME NEW r \in Rooms, Apply(r)
      PROVE  TypeOK'
  <2>1. pass' \in [left : SUBSET Rooms, want : SUBSET Rooms, need : [Rooms -> Nat], budget : Int]
    <3>1. pass.budget \in Int /\ Pow[r] \in Int
      BY DEF TypeOK
    <3>2. CASE pass.left = {r}
      BY <1>3, <3>2, NoPassType DEF Apply
    <3>3. CASE pass.left # {r}
      <4> DEFINE b == IF r \in pass.want THEN pass.budget - Pow[r] ELSE pass.budget
      <4>1. b \in Int
        BY <3>1
      <4>2. pass' = [pass EXCEPT !.left = @ \ {r}, !.budget = b]
        BY <1>3, <3>3 DEF Apply
      <4> HIDE DEF b
      <4> QED
        BY <4>1, <4>2 DEF TypeOK
    <3> QED
      BY <3>2, <3>3
  <2>2. on' \subseteq Rooms /\ byHand' \subseteq Rooms
    BY <1>3 DEF Apply, TypeOK
  <2>3. kept' \in [Rooms -> 0..MaxOn]
    BY <1>3, JustSet DEF Apply, TypeOK
  <2> QED
    BY <1>3, <2>1, <2>2, <2>3 DEF Apply, house, TypeOK
<1>4. CASE EventRuns
  BY <1>4, JustSet DEF EventRuns, house, TypeOK
<1>5. CASE SwitchAuto
  BY <1>5 DEF SwitchAuto, house, TypeOK
<1>6. ASSUME NEW r \in Rooms, Press(r)
      PROVE  TypeOK'
  BY <1>6 DEF Press, Changed, TypeOK
<1>7. ASSUME NEW s \in Sensors, Hear(s)
      PROVE  TypeOK'
  <2>1. PICK t \in Airs : air' = [air EXCEPT ![s] = t]
    BY <1>7 DEF Hear
  <2>2. changes' \in 0..MaxChanges
    BY <1>7 DEF Hear, Changed, TypeOK
  <2> QED
    BY <1>7, <2>1, <2>2 DEF Hear, scripts, TypeOK
<1>8. ASSUME NEW r \in Rooms, FloorTemp(r)
      PROVE  TypeOK'
  BY <1>8 DEF FloorTemp, Changed, scripts, TypeOK
<1>9. CASE SetLimit
  BY <1>9 DEF SetLimit, Changed, scripts, TypeOK
<1>10. CASE Tick
  BY <1>10 DEF Tick, Capped, TypeOK
<1>11. CASE UNCHANGED vars
  BY <1>11 DEF vars, house, TypeOK
<1>12. ASSUME NEW r \in Rooms, RoomSetpoint(r)
       PROVE  TypeOK'
  BY <1>12 DEF RoomSetpoint, Changed, scripts, TypeOK
<1>13. CASE MasterSetpoint
  BY <1>13 DEF MasterSetpoint, Changed, scripts, TypeOK
<1> QED
  BY <1>1, <1>2, <1>3, <1>4, <1>5, <1>6, <1>7, <1>8, <1>9, <1>10, <1>11, <1>12, <1>13 DEF Next

\* Type correctness.
THEOREM TypeCorrect == Spec => []TypeOK
<1> QED
  BY TypeInit, TypeNext, PTL DEF Spec

LEMMA MarkedInit == Init => HeatedIsMarked
BY DEF Init, HeatedIsMarked, InPass, NoPass

LEMMA MarkedNext == HeatedIsMarked /\ [Next]_vars => HeatedIsMarked'
<1> SUFFICES ASSUME HeatedIsMarked, [Next]_vars
             PROVE  HeatedIsMarked'
  OBVIOUS
<1> USE DEF HeatedIsMarked, InPass
<1>1. CASE StartPass
  BY <1>1 DEF StartPass, Marked
\* What is on here was switched on by hand, unless the mark is set.
<1>2. CASE PassWithoutAuto
  BY <1>2 DEF PassWithoutAuto
\* Only a pass switches floors on, and it set the mark.
<1>3. ASSUME NEW r \in Rooms, Apply(r)
      PROVE  HeatedIsMarked'
  BY <1>3 DEF Apply
<1>4. CASE EventRuns
  BY <1>4 DEF EventRuns
<1>5. CASE SwitchAuto
  BY <1>5 DEF SwitchAuto
<1>6. ASSUME NEW r \in Rooms, Press(r)
      PROVE  HeatedIsMarked'
  <2>1. (on \ byHand)' \subseteq on \ byHand
    BY <1>6 DEF Press
  <2> QED
    BY <1>6, <2>1 DEF Press
<1>7. ASSUME NEW s \in Sensors, Hear(s)
      PROVE  HeatedIsMarked'
  BY <1>7 DEF Hear, scripts
<1>8. ASSUME NEW r \in Rooms, FloorTemp(r) \/ RoomSetpoint(r)
      PROVE  HeatedIsMarked'
  BY <1>8 DEF FloorTemp, RoomSetpoint, scripts
<1>9. CASE SetLimit \/ MasterSetpoint
  BY <1>9 DEF SetLimit, MasterSetpoint, scripts
<1>10. CASE Tick
  BY <1>10 DEF Tick
<1>11. CASE UNCHANGED vars
  BY <1>11 DEF vars
<1> QED
  BY <1>1, <1>2, <1>3, <1>4, <1>5, <1>6, <1>7, <1>8, <1>9, <1>10, <1>11 DEF Next

\* A floor heated by the script is marked to be switched off with automatic
\* heating, however its passes, script 0031 and people interleave.
THEOREM HeatedIsMarkedHolds == Spec => []HeatedIsMarked
<1> QED
  BY MarkedInit, MarkedNext, PTL DEF Spec

-----------------------------------------------------------------------------
(* The power limit.  What a pass has switched on, and what is left of its   *)
(* budget, is within the limit that it read; relays that it has not come to *)
(* are those of the pass before.  A room that is refused makes the budget   *)
(* negative, and then no other fits.                                        *)

AtLeastNone(b) == IF b > 0 THEN b ELSE 0

Heated == on \ byHand

Budgeted ==
  IF InPass
    THEN /\ Power(Heated \ pass.left) + AtLeastNone(pass.budget) <= limits[2]
         /\ Power(Heated \cap pass.left) <= limits[1]
    ELSE Power(Heated) <= limits[2]

LEMMA LimitsFact ==
  ASSUME TypeOK
  PROVE  /\ limits[1] \in Nat /\ limits[2] \in Nat /\ limit \in Nat
         /\ Heated \in SUBSET Rooms /\ pass.left \in SUBSET Rooms /\ pass.budget \in Int
         /\ Power(Heated) \in Nat /\ AtLeastNone(pass.budget) \in Nat
<1>1. /\ limits[1] \in Nat /\ limits[2] \in Nat /\ limit \in Nat
      /\ Heated \in SUBSET Rooms /\ pass.left \in SUBSET Rooms /\ pass.budget \in Int
  <2>1. Limits \subseteq Nat
    BY WarmFloorsOK
  <2>2. limits \in (Limits \cup {0}) \X (Limits \cup {0}) /\ limit \in Limits
    BY DEF TypeOK
  <2>3. limits[1] \in Limits \cup {0} /\ limits[2] \in Limits \cup {0}
    BY <2>2
  <2>4. on \subseteq Rooms /\ pass.left \in SUBSET Rooms /\ pass.budget \in Int
    BY DEF TypeOK
  <2>5. \A n \in Limits \cup {0} : n \in Nat
    BY <2>1
  <2>6. limits[1] \in Nat /\ limits[2] \in Nat /\ limit \in Nat
    BY <2>2, <2>3, <2>5
  <2>7. Heated \in SUBSET Rooms
    BY <2>4 DEF Heated
  <2> QED
    BY <2>4, <2>6, <2>7
<1>2. AtLeastNone(pass.budget) \in Nat
  BY <1>1 DEF AtLeastNone
<1>3. Power(Heated) \in Nat
  BY <1>1, PowerFirst
<1> QED
  BY <1>1, <1>2, <1>3

LEMMA BudgetedInit == Init => Budgeted
<1> SUFFICES ASSUME Init
             PROVE  Budgeted
  OBVIOUS
<1>1. Heated = {} /\ pass.left = {} /\ limits[2] = 0
  BY DEF Init, Heated, NoPass
<1>2. Power({}) = 0
  BY PowerFirst
<1> QED
  BY <1>1, <1>2 DEF Budgeted, InPass

\* Relays that are switched off, or taken over by a person.
LEMMA FewerHeated ==
  ASSUME TypeOK, Budgeted, Heated' \subseteq Heated, UNCHANGED <<pass, limits>>
  PROVE  Budgeted'
<1>1. /\ Heated \in SUBSET Rooms /\ limits[1] \in Nat /\ limits[2] \in Nat
      /\ AtLeastNone(pass.budget) \in Nat
  BY LimitsFact
<1>2. pass' = pass /\ limits' = limits /\ InPass' = InPass
  BY DEF InPass
<1>3. CASE InPass
  <2> DEFINE a == Power(Heated \ pass.left)
             b == Power(Heated' \ pass.left)
             c == Power(Heated \cap pass.left)
             d == Power(Heated' \cap pass.left)
  <2>1. b <= a /\ a \in Nat /\ b \in Nat /\ d <= c /\ c \in Nat /\ d \in Nat
    <3>1. /\ Heated \ pass.left \in SUBSET Rooms /\ Heated \cap pass.left \in SUBSET Rooms
          /\ Heated' \ pass.left \in SUBSET (Heated \ pass.left)
          /\ Heated' \cap pass.left \in SUBSET (Heated \cap pass.left)
      BY <1>1
    <3> QED
      BY <3>1, PowerMonotone
  <2>2. a + AtLeastNone(pass.budget) <= limits[2] /\ c <= limits[1]
    BY <1>3 DEF Budgeted
  <2> HIDE DEF a, b, c, d
  <2>3. b + AtLeastNone(pass.budget) <= limits[2] /\ d <= limits[1]
    BY <1>1, <2>1, <2>2
  <2> QED
    BY <1>2, <1>3, <2>3 DEF Budgeted, b, d
<1>4. CASE ~InPass
  <2>1. Power(Heated') <= Power(Heated) /\ Power(Heated') \in Nat /\ Power(Heated) \in Nat
    BY <1>1, PowerMonotone
  <2>2. Power(Heated) <= limits[2]
    BY <1>4 DEF Budgeted
  <2>3. Power(Heated') <= limits[2]
    BY <1>1, <2>1, <2>2
  <2> QED
    BY <1>2, <1>4, <2>3 DEF Budgeted
<1> QED
  BY <1>3, <1>4

\* A pass begins: what is on was in the budget of the one before.
LEMMA StartBudgeted ==
  ASSUME TypeOK, Budgeted, StartPass
  PROVE  Budgeted'
<1>1. ~InPass /\ Heated' = Heated
  BY DEF StartPass, Heated
<1>2. pass'.left = Rooms /\ pass'.budget = limit /\ limits'[1] = limits[2] /\ limits'[2] = limit
  BY DEF StartPass
<1>3. limit \in Nat /\ Heated \in SUBSET Rooms
  BY LimitsFact
<1>4. Heated \ Rooms = {} /\ Heated \cap Rooms = Heated
  BY <1>3
<1>5. Power({}) = 0 /\ AtLeastNone(limit) = limit
  BY <1>3, PowerFirst DEF AtLeastNone
<1>6. Power(Heated) <= limits[2]
  BY <1>1 DEF Budgeted
<1>7. CASE Rooms # {}
  <2>1. Power(Heated' \ pass'.left) = 0 /\ Power(Heated' \cap pass'.left) = Power(Heated)
    BY <1>1, <1>2, <1>4, <1>5
  <2>2. AtLeastNone(pass'.budget) = limit /\ 0 + limit <= limit
    BY <1>2, <1>3, <1>5
  <2>3. InPass'
    BY <1>2, <1>7 DEF InPass
  <2> QED
    BY <1>2, <1>6, <2>1, <2>2, <2>3 DEF Budgeted
<1>8. CASE Rooms = {}
  <2>1. Heated' = {} /\ ~InPass'
    BY <1>1, <1>2, <1>3, <1>8 DEF InPass
  <2> QED
    BY <1>2, <1>3, <1>5, <2>1 DEF Budgeted
<1> QED
  BY <1>7, <1>8

\* A relay is set: switched on only with what is left of the budget.
LEMMA ApplyBudgeted ==
  ASSUME TypeOK, Budgeted, NEW r \in Rooms, Apply(r)
  PROVE  Budgeted'
<1> DEFINE given == r \in pass.want /\ Affordable(r)
           rest == pass.left \ {r}
           budget == IF r \in pass.want THEN pass.budget - Pow[r] ELSE pass.budget
           done == Heated \ pass.left
<1>1. /\ r \in pass.left /\ InPass /\ limits' = limits
      /\ Heated' = IF given THEN Heated \cup {r} ELSE Heated \ {r}
  BY DEF Apply, InPass, Heated
<1>2. /\ limits[1] \in Nat /\ limits[2] \in Nat /\ Heated \in SUBSET Rooms
      /\ pass.left \in SUBSET Rooms /\ pass.budget \in Int /\ Pow[r] \in Nat
      /\ AtLeastNone(pass.budget) \in Nat
  BY LimitsFact, WarmFloorsOK
<1>3. /\ Power(done) + AtLeastNone(pass.budget) <= limits[2]
      /\ Power(Heated \cap pass.left) <= limits[1]
  BY <1>1 DEF Budgeted
<1>4. done \in SUBSET Rooms /\ Power(done) \in Nat
  BY <1>2, PowerFirst
<1>5. Power(Heated' \ rest) + AtLeastNone(budget) <= limits[2]
  <2>1. CASE given
    <3>1. /\ Heated' \ rest \in SUBSET Rooms /\ r \in Heated' \ rest
          /\ (Heated' \ rest) \ {r} = done
      BY <1>1, <1>2, <2>1
    <3>2. Power(Heated' \ rest) = Pow[r] + Power(done)
      BY <3>1, PowerOne
    <3>3. AtLeastNone(budget) = AtLeastNone(pass.budget) - Pow[r]
      <4>1. pass.budget >= Pow[r] /\ budget = pass.budget - Pow[r]
        BY <2>1 DEF Affordable
      <4> QED
        BY <1>2, <4>1 DEF AtLeastNone
    <3> HIDE DEF done, budget, rest
    <3> QED
      BY <1>2, <1>3, <1>4, <3>2, <3>3
  <2>2. CASE ~given
    <3>1. Heated' \ rest = done
      BY <1>1, <2>2
    <3>2. AtLeastNone(budget) <= AtLeastNone(pass.budget) /\ AtLeastNone(budget) \in Nat
      BY <1>2 DEF AtLeastNone
    <3>3. Power(Heated' \ rest) = Power(done)
      BY <3>1
    <3> HIDE DEF done, budget, rest
    <3> QED
      BY <1>2, <1>3, <1>4, <3>2, <3>3
  <2> QED
    BY <2>1, <2>2
<1>6. Power(Heated' \cap rest) <= limits[1]
  <2>1. /\ Heated' \cap rest \in SUBSET (Heated \cap pass.left)
        /\ Heated \cap pass.left \in SUBSET Rooms
    BY <1>1, <1>2
  <2>2. /\ Power(Heated' \cap rest) <= Power(Heated \cap pass.left)
        /\ Power(Heated' \cap rest) \in Nat /\ Power(Heated \cap pass.left) \in Nat
    BY <2>1, PowerMonotone
  <2> HIDE DEF rest
  <2> QED
    BY <1>2, <1>3, <2>2
<1>7. CASE pass.left = {r}
  <2>1. rest = {} /\ ~InPass'
    BY <1>7 DEF Apply, NoPass, InPass
  <2>2. Heated' \ rest = Heated'
    BY <2>1
  <2>3. Power(Heated') + AtLeastNone(budget) <= limits[2]
    BY <1>5, <2>2
  <2>4. AtLeastNone(budget) \in Nat /\ Power(Heated') \in Nat
    <3>1. Heated' \in SUBSET Rooms
      BY <1>1, <1>2
    <3>2. budget \in Int
      BY <1>2
    <3> HIDE DEF budget
    <3> QED
      BY <3>1, <3>2, PowerFirst DEF AtLeastNone
  <2> HIDE DEF budget
  <2>5. Power(Heated') <= limits[2]
    BY <1>2, <2>3, <2>4
  <2> QED
    BY <1>1, <2>1, <2>5 DEF Budgeted
<1>8. CASE pass.left # {r}
  <2>1. pass'.left = rest /\ pass'.budget = budget /\ InPass'
    <3>1. pass' = [pass EXCEPT !.left = @ \ {r}, !.budget = budget]
      BY <1>8 DEF Apply
    <3>2. pass \in [left : SUBSET Rooms, want : SUBSET Rooms, need : [Rooms -> Nat], budget : Int]
      BY DEF TypeOK
    <3> HIDE DEF budget
    <3>3. pass'.left = rest /\ pass'.budget = budget
      BY <3>1, <3>2
    <3> QED
      BY <1>1, <1>8, <3>3 DEF InPass
  <2> HIDE DEF rest, budget
  <2> QED
    BY <1>1, <1>5, <1>6, <2>1 DEF Budgeted
<1> QED
  BY <1>7, <1>8

LEMMA BudgetedNext == TypeOK /\ Budgeted /\ [Next]_vars => Budgeted'
<1> SUFFICES ASSUME TypeOK, Budgeted, [Next]_vars
             PROVE  Budgeted'
  OBVIOUS
<1>1. CASE StartPass
  BY <1>1, StartBudgeted
<1>2. CASE PassWithoutAuto
  <2>1. Heated' \subseteq Heated /\ UNCHANGED <<pass, limits>>
    BY <1>2 DEF PassWithoutAuto, Heated
  <2> QED
    BY <2>1, FewerHeated
<1>3. ASSUME NEW r \in Rooms, Apply(r)
      PROVE  Budgeted'
  BY <1>3, ApplyBudgeted
<1>4. ASSUME \/ EventRuns \/ SwitchAuto \/ SetLimit \/ MasterSetpoint \/ Tick
             \/ \E r \in Rooms : Press(r) \/ FloorTemp(r) \/ RoomSetpoint(r)
             \/ \E s \in Sensors : Hear(s)
             \/ UNCHANGED vars
      PROVE  Budgeted'
  <2>1. Heated' \subseteq Heated /\ UNCHANGED <<pass, limits>>
    BY <1>4 DEF EventRuns, SwitchAuto, SetLimit, MasterSetpoint, Tick, Press, FloorTemp,
                RoomSetpoint, Hear, scripts, vars, Heated
  <2> QED
    BY <2>1, FewerHeated
<1> QED
  BY <1>1, <1>2, <1>3, <1>4 DEF Next

LEMMA BudgetedIsKept == TypeOK /\ Budgeted => LimitKept
<1> SUFFICES ASSUME TypeOK, Budgeted
             PROVE  LimitKept
  OBVIOUS
<1>1. Drawn = Power(Heated)
  BY DEF Drawn, Power, Heated
<1>2. limits[1] \in Nat /\ limits[2] \in Nat /\ Heated \in SUBSET Rooms /\ AtLeastNone(pass.budget) \in Nat
  BY LimitsFact
<1>3. CASE InPass
  <2>1. /\ Power(Heated) = Power(Heated \cap pass.left) + Power(Heated \ pass.left)
        /\ Power(Heated \cap pass.left) \in Nat /\ Power(Heated \ pass.left) \in Nat
    BY <1>2, PowerSplit, PowerFirst
  <2>2. /\ Power(Heated \ pass.left) + AtLeastNone(pass.budget) <= limits[2]
        /\ Power(Heated \cap pass.left) <= limits[1]
    BY <1>3 DEF Budgeted
  <2>3. Power(Heated) <= limits[2] + limits[1]
    BY <1>2, <2>1, <2>2
  <2> QED
    BY <1>1, <1>3, <2>3 DEF LimitKept
<1>4. CASE ~InPass
  <2>1. Power(Heated) <= limits[2] + 0
    BY <1>2, <1>4, PowerFirst DEF Budgeted
  <2> QED
    BY <1>1, <1>4, <2>1 DEF LimitKept
<1> QED
  BY <1>3, <1>4

\* What the script heats is within the power limit that its last pass read; while
\* relays are being set, within that and the limit of the pass before, whatever
\* people and script 0031 do in between.
THEOREM LimitKeptHolds == Spec => []LimitKept
<1> QED
  BY TypeInit, TypeNext, BudgetedInit, BudgetedNext, BudgetedIsKept, PTL DEF Spec
=============================================================================
