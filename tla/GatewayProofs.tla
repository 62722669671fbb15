--------------------------- MODULE GatewayProofs ---------------------------
(***************************************************************************)
(* Theorems about OpsAccess, for every table of keys, and about Gateway:   *)
(* types, who pays for what, and how much a key writes in a minute.        *)
(***************************************************************************)
EXTENDS Gateway, FiniteSetTheorems, WellFoundedInduction, TLAPS

\* A request as the faces build it.
IsRequest(r) ==
  /\ r.key \in Keys \cup {NoKey}
  /\ r.house \in Houses \cup {NoHouse}
  /\ r.face \in {"rest", "mcp"}
  /\ r.face = "rest" => r.house # NoHouse

-----------------------------------------------------------------------------
(* OpsAccess.                                                              *)

\* Where one house is meant, it is the one the code picks.
LEMMA PickedHouse ==
  ASSUME NEW key \in Keys, OneHouse(key)
  PROVE  HouseOf(key, NoHouse) \in GrantsOf[key]
<1>1. PICK h \in Houses : GrantsOf[key] = {h}
  BY DEF OneHouse
<1>2. GrantsOf[key] = {CHOOSE g \in Houses : GrantsOf[key] = {g}}
  BY <1>1
<1> QED
  BY <1>2 DEF HouseOf

\* dispatch lets exactly the calls through that have the permission and, where
\* a house is concerned, mean exactly one house, one of the key's.
LEMMA DispatchRuns ==
  ASSUME NEW key \in Keys, NEW op \in Ops, NEW house \in Houses \cup {NoHouse}
  PROVE  Dispatch(key, op, house) = "run" <=>
           /\ Permission(op) \in ScopesOf[key]
           /\ op \in HouseScoped =>
                IF house = NoHouse THEN OneHouse(key) ELSE house \in GrantsOf[key]
<1>1. CASE op \notin HouseScoped
  BY <1>1 DEF Dispatch
<1>2. CASE op \in HouseScoped /\ house = NoHouse /\ OneHouse(key)
  <2>1. GrantsOf[key] # {}
    BY <1>2 DEF OneHouse
  <2>2. Resolve(key, house) = "run"
    BY <1>2, <2>1 DEF Resolve
  <2>3. Authorized(key, HouseOf(key, house), Permission(op)) <=> Permission(op) \in ScopesOf[key]
    BY <1>2, PickedHouse DEF Authorized, Granted
  <2> QED
    BY <1>2, <2>2, <2>3 DEF Dispatch
<1>3. CASE op \in HouseScoped /\ house = NoHouse /\ ~OneHouse(key)
  <2>1. Resolve(key, house) \in {"403", "400"}
    BY <1>3 DEF Resolve
  <2> QED
    BY <1>3, <2>1 DEF Dispatch
<1>4. CASE op \in HouseScoped /\ house # NoHouse /\ house \in GrantsOf[key]
  <2>1. Resolve(key, house) = "run"
    BY <1>4 DEF Resolve, Granted
  <2>2. HouseOf(key, house) = house
    BY <1>4 DEF HouseOf
  <2> QED
    BY <1>4, <2>1, <2>2 DEF Dispatch, Authorized, Granted
<1>5. CASE op \in HouseScoped /\ house # NoHouse /\ house \notin GrantsOf[key]
  <2>1. Resolve(key, house) = "403"
    BY <1>5 DEF Resolve, Granted
  <2> QED
    BY <1>5, <2>1 DEF Dispatch
<1> QED
  BY <1>1, <1>2, <1>3, <1>4, <1>5

\* With authentication on, both faces let a call through only if its caller
\* may run it: the permission, a house of the key, and arguments that fit.
THEOREM OnlyWithRights ==
  ASSUME NEW gone \in SUBSET Keys, NEW r, IsRequest(r),
         Answer(FALSE, gone, r) = "run"
  PROVE  MayRun(r) /\ r.key \notin gone
<1>1. CASE r.face = "rest"
  <2>1. RestAnswer(FALSE, gone, r) = "run"
    BY <1>1 DEF Answer
  <2>2. r.key \in Keys \ gone /\ r.op \in HouseScoped /\ ValidParams(r.op, r.names, r.bad)
    BY <2>1 DEF RestAnswer, Known
  <2>3. Dispatch(r.key, r.op, r.house) = "run"
    BY <2>1 DEF RestAnswer
  <2> QED
    BY <2>2, <2>3, DispatchRuns DEF MayRun, HouseScoped, IsRequest
<1>2. CASE r.face # "rest"
  <2>1. McpAnswer(FALSE, gone, r) = "run"
    BY <1>2 DEF Answer
  <2>2. r.key \in Keys \ gone /\ r.op \in Ops /\ ValidParams(r.op, r.names, r.bad)
    BY <2>1 DEF McpAnswer, Known
  <2>3. Dispatch(r.key, r.op, r.house) = "run"
    BY <2>1 DEF McpAnswer
  <2> QED
    BY <2>2, <2>3, DispatchRuns DEF MayRun, IsRequest
<1> QED
  BY <1>1, <1>2

\* A call on a named house runs on one face if and only if it runs on the
\* other, for every key that holds the read scope.  (For a key that may only
\* write the middleware of REST refuses everything.)
THEOREM FacesAgree ==
  ASSUME NEW gone \in SUBSET Keys, NEW r,
         r.key \in Keys \cup {NoKey}, r.house \in Houses, r.op \in HouseScoped,
         r.key \in Keys => "read" \in ScopesOf[r.key]
  PROVE  RestAnswer(FALSE, gone, r) = "run" <=> McpAnswer(FALSE, gone, r) = "run"
<1>1. CASE ~Known(r.key, gone)
  BY <1>1 DEF RestAnswer, McpAnswer
<1>2. CASE Known(r.key, gone)
  <2>1. r.key \in Keys /\ r.op \in Ops /\ r.house # NoHouse
    BY <1>2, AccessOK DEF Known, HouseScoped
  <2>2. Authorized(r.key, r.house, "read") <=> r.house \in GrantsOf[r.key]
    BY <2>1 DEF Authorized, Granted
  <2>3. Dispatch(r.key, r.op, r.house) = "run" => r.house \in GrantsOf[r.key]
    BY <2>1, DispatchRuns
  <2>4. RestAnswer(FALSE, gone, r) = "run" <=>
          /\ r.house \in GrantsOf[r.key]
          /\ ValidParams(r.op, r.names, r.bad)
          /\ Dispatch(r.key, r.op, r.house) = "run"
    BY <1>2, <2>2 DEF RestAnswer
  <2>5. McpAnswer(FALSE, gone, r) = "run" <=>
          /\ ValidParams(r.op, r.names, r.bad)
          /\ Dispatch(r.key, r.op, r.house) = "run"
    BY <1>2, <2>1 DEF McpAnswer
  <2> QED
    BY <2>3, <2>4, <2>5
<1> QED
  BY <1>1, <1>2

\* What GET /ops lists for a key is what its tools run, given arguments that
\* fit and a house of the key.
THEOREM ListedIsCallable ==
  ASSUME NEW gone \in SUBSET Keys, NEW r, r.key \in Keys \ gone,
         r.op \in ListOps(FALSE, r.key), r.house \in GrantsOf[r.key],
         ValidParams(r.op, r.names, r.bad)
  PROVE  McpAnswer(FALSE, gone, r) = "run"
<1>1. r.op \in Ops /\ Permission(r.op) \in ScopesOf[r.key]
  BY DEF ListOps
<1>2. r.house \in Houses /\ r.house # NoHouse
  BY AccessOK
<1>3. Dispatch(r.key, r.op, r.house) = "run"
  BY <1>1, <1>2, DispatchRuns
<1> QED
  BY <1>1, <1>3 DEF McpAnswer, Known

-----------------------------------------------------------------------------
(* Gateway: types, and who pays for what.                                  *)

\* What waits for the rate limit has its rights.
CountedMayRun ==
  \A c \in Slots : calls[c].phase \in {"count", "expire"} =>
    /\ calls[c].req.key \in Keys
    /\ calls[c].req.op \in WriteOps
    /\ MayRun(calls[c].req)

IInv == TypeOK /\ CountedMayRun

LEMMA CallFields ==
  ASSUME NEW x \in Calls
  PROVE  /\ x = Idle <=> x.phase = "idle"
         /\ x # Idle => x.phase \in {"count", "expire", "run"} /\ x.req \in Requests
         /\ x # Idle => x = In(x.phase, x.req)
BY DEF Calls, Idle, In

LEMMA CallMade ==
  ASSUME NEW r \in Requests, NEW p \in {"count", "expire", "run"}
  PROVE  In(p, r) \in Calls /\ In(p, r).phase = p /\ In(p, r).req = r /\ In(p, r) # Idle
BY DEF Calls, Idle, In

LEMMA IdleIsCall == Idle \in Calls /\ Idle.phase = "idle"
BY DEF Calls, Idle, In

LEMMA ZeroIsAge == 0 \in Ages
BY GatewayOK DEF Ages

LEMMA NoWritesType == NoWrites \in [Ages -> Nat]
BY DEF NoWrites

LEMMA OlderType ==
  ASSUME NEW w \in [Ages -> Nat]
  PROVE  Older(w) \in [Ages -> Nat] /\ Older(w)[0] = 0
<1>1. ASSUME NEW a \in Ages, a # 0 PROVE a - 1 \in Ages
  BY <1>1, GatewayOK DEF Ages
<1> QED
  BY <1>1, ZeroIsAge DEF Older

LEMMA OneMoreWrite ==
  ASSUME NEW w \in [Keys -> [Ages -> Nat]], NEW k \in Keys
  PROVE  /\ [w EXCEPT ![k][0] = @ + 1] \in [Keys -> [Ages -> Nat]]
         /\ \A j \in Keys \ {k} : [w EXCEPT ![k][0] = @ + 1][j] = w[j]
BY ZeroIsAge

\* A call that waits, and the key that pays for it.
LEMMA Waiting ==
  ASSUME IInv, NEW c \in Slots, calls[c].phase \in {"count", "expire"}
  PROVE  /\ calls[c] # Idle /\ calls[c].req \in Requests /\ calls[c].req.key \in Keys
         /\ calls[c].req.op \in WriteOps /\ MayRun(calls[c].req)
<1>1. calls[c] \in Calls
  BY DEF IInv, TypeOK
<1>2. calls[c] # Idle
  BY <1>1, CallFields
<1> QED
  BY <1>1, <1>2, CallFields DEF IInv, CountedMayRun

\* What the end of the check does to the calls and the history.
LEMMA Ends ==
  ASSUME IInv, NEW c \in Slots, calls[c].phase \in {"count", "expire"},
         Pass(c) \/ TooMany(c), open' = open
  PROVE  calls' \in [Slots -> Calls] /\ written' \in [Keys -> [Ages -> Nat]] /\ CountedMayRun'
<1>1. calls[c].req \in Requests /\ calls[c].req.key \in Keys /\ calls[c] # Idle
  BY Waiting
<1>2. calls \in [Slots -> Calls] /\ written \in [Keys -> [Ages -> Nat]]
  BY DEF IInv, TypeOK
<1>3. CASE Pass(c)
  <2>1. [calls[c] EXCEPT !.phase = "run"] = In("run", calls[c].req)
    BY <1>1, <1>2, CallFields DEF In
  <2>2. calls' = [calls EXCEPT ![c] = In("run", calls[c].req)]
    BY <1>3, <2>1 DEF Pass
  <2>3. calls' \in [Slots -> Calls]
    BY <1>1, <1>2, <2>2, CallMade
  <2>4. written' \in [Keys -> [Ages -> Nat]]
    BY <1>1, <1>2, <1>3, OneMoreWrite DEF Pass
  <2>5. CountedMayRun'
    BY <1>1, <1>2, <2>2, CallMade DEF IInv, CountedMayRun
  <2> QED
    BY <2>3, <2>4, <2>5
<1>4. CASE TooMany(c)
  <2>1. calls' = [calls EXCEPT ![c] = Idle] /\ written' = written
    BY <1>4 DEF TooMany
  <2>2. CountedMayRun'
    BY <1>2, <2>1, IdleIsCall DEF IInv, CountedMayRun
  <2> QED
    BY <1>2, <2>1, <2>2, IdleIsCall
<1> QED
  BY <1>3, <1>4

\* The bucket of the memory: one write more for the key of the call, or none.
LEMMA Remembers ==
  ASSUME IInv, NEW c \in Slots, calls[c].phase \in {"count", "expire"}, MemoryCheck(c)
  PROVE  /\ Pass(c) \/ TooMany(c)
         /\ bucket' \in [Keys -> [Ages -> Nat]]
         /\ \A k \in Keys \ {calls[c].req.key} : bucket'[k] = bucket[k]
<1>1. bucket \in [Keys -> [Ages -> Nat]] /\ calls[c].req.key \in Keys
  BY Waiting DEF IInv, TypeOK
<1>2. CASE Room(calls[c].req.key)
  <2>1. Pass(c) /\ bucket' = [bucket EXCEPT ![calls[c].req.key][0] = @ + 1]
    BY <1>2 DEF MemoryCheck
  <2> QED
    BY <1>1, <2>1, OneMoreWrite
<1>3. CASE ~Room(calls[c].req.key)
  BY <1>1, <1>3 DEF MemoryCheck
<1> QED
  BY <1>2, <1>3

LEMMA Start == Init => IInv
<1> SUFFICES ASSUME Init PROVE IInv
  OBVIOUS
<1>1. calls \in [Slots -> Calls] /\ CountedMayRun
  BY IdleIsCall DEF Init, CountedMayRun
<1>2. bucket \in [Keys -> [Ages -> Nat]] /\ written \in [Keys -> [Ages -> Nat]]
  BY NoWritesType DEF Init
<1>3. /\ open \in BOOLEAN /\ revoked \subseteq Keys /\ redis \in {"up", "down"}
      /\ count \in [Keys -> Nat] /\ ttl \in [Keys -> 0..Window] /\ orphaned \subseteq Keys
      /\ faults \in Nat /\ crashes \in Nat /\ losses \in Nat
  BY GatewayOK DEF Init
<1> QED
  BY <1>1, <1>2, <1>3 DEF IInv, TypeOK

\* A call that comes in and is to be counted has its rights.
LEMMA LimitedMayRun ==
  ASSUME IInv, NEW r \in Requests, Answer(open, revoked, r) = "run", Limited(r)
  PROVE  r.key \in Keys /\ r.op \in WriteOps /\ MayRun(r)
<1>1. open = FALSE /\ r.op \in WriteOps
  BY DEF Limited, IInv, TypeOK
<1>2. IsRequest(r)
  BY GatewayOK DEF IsRequest
<1>3. Answer(FALSE, revoked, r) = "run"
  BY <1>1
<1>4. revoked \in SUBSET Keys
  BY DEF IInv, TypeOK
<1>5. MayRun(r)
  BY <1>2, <1>3, <1>4, OnlyWithRights
<1> QED
  BY <1>1, <1>5 DEF MayRun

LEMMA ArriveStep ==
  ASSUME IInv, NEW c \in Slots, NEW r \in Requests, Arrive(c, r)
  PROVE  IInv'
<1>1. calls \in [Slots -> Calls]
  BY DEF IInv, TypeOK
<1>2. PICK p \in {"count", "run"} : /\ calls' = [calls EXCEPT ![c] = In(p, r)]
                                    /\ (p = "count" => Limited(r))
  BY DEF Arrive
<1>3. In(p, r) \in Calls /\ In(p, r).phase = p /\ In(p, r).req = r
  BY CallMade
<1>4. CountedMayRun'
  <2> SUFFICES ASSUME NEW d \in Slots, calls'[d].phase \in {"count", "expire"}
               PROVE  /\ calls'[d].req.key \in Keys
                      /\ calls'[d].req.op \in WriteOps
                      /\ MayRun(calls'[d].req)
    BY DEF CountedMayRun, MayRun
  <2>1. CASE d = c
    <3>1. calls'[d].phase = p /\ calls'[d].req = r
      BY <1>1, <1>2, <1>3, <2>1
    <3> QED
      BY <1>2, <3>1, LimitedMayRun DEF Arrive
  <2>2. CASE d # c
    BY <1>1, <1>2, <2>2 DEF IInv, CountedMayRun
  <2> QED
    BY <2>1, <2>2
<1>5. calls' \in [Slots -> Calls]
  BY <1>1, <1>2, <1>3
<1> QED
  BY <1>4, <1>5 DEF IInv, TypeOK, Arrive, stores

\* Only the key of one waiting call can pay.
Paid ==
  \A k \in Keys :
    count'[k] > count[k] \/ bucket'[k][0] > bucket[k][0] =>
      \E c \in Slots : /\ calls[c] # Idle
                       /\ calls[c].req.key = k
                       /\ calls[c].req.op \in WriteOps
                       /\ MayRun(calls[c].req)

LEMMA PaidBy ==
  ASSUME IInv, NEW c \in Slots, calls[c].phase \in {"count", "expire"},
         \A k \in Keys \ {calls[c].req.key} : count'[k] = count[k] /\ bucket'[k] = bucket[k]
  PROVE  Paid
<1> SUFFICES ASSUME NEW k \in Keys, count'[k] > count[k] \/ bucket'[k][0] > bucket[k][0],
                    k # calls[c].req.key
             PROVE  FALSE
  BY Waiting DEF Paid
<1>1. count'[k] = count[k] /\ bucket'[k] = bucket[k]
  OBVIOUS
<1>2. count[k] \in Nat /\ bucket[k][0] \in Nat
  BY ZeroIsAge DEF IInv, TypeOK
<1> QED
  BY <1>1, <1>2

LEMMA NobodyPays ==
  ASSUME IInv, UNCHANGED <<count, bucket>>
  PROVE  Paid
<1>1. \A k \in Keys : count[k] \in Nat /\ bucket[k][0] \in Nat
  BY ZeroIsAge DEF IInv, TypeOK
<1> QED
  BY <1>1 DEF Paid

LEMMA IncrStep ==
  ASSUME IInv, NEW c \in Slots, Incr(c)
  PROVE  IInv' /\ Paid
<1> DEFINE k == calls[c].req.key
           n == count[k] + 1
<1>1. /\ calls[c].phase = "count" /\ count' = [count EXCEPT ![k] = n]
      /\ UNCHANGED <<open, revoked, redis, ttl, bucket, orphaned, faults, crashes, losses>>
  BY DEF Incr
<1>2. /\ k \in Keys /\ calls[c].req \in Requests /\ calls[c] # Idle
      /\ calls[c].req.op \in WriteOps /\ MayRun(calls[c].req)
  BY <1>1, Waiting
<1>3. count \in [Keys -> Nat] /\ calls \in [Slots -> Calls] /\ written \in [Keys -> [Ages -> Nat]]
  BY DEF IInv, TypeOK
<1>4. count' \in [Keys -> Nat]
  BY <1>1, <1>2, <1>3
<1>5. Paid
  BY <1>1, <1>3, PaidBy
<1>6. calls' \in [Slots -> Calls] /\ written' \in [Keys -> [Ages -> Nat]] /\ CountedMayRun'
  <2>1. CASE SetsExpiry(n)
    <3>1. calls' = [calls EXCEPT ![c].phase = "expire"] /\ written' = written
      BY <2>1 DEF Incr
    <3>2. [calls[c] EXCEPT !.phase = "expire"] = In("expire", calls[c].req)
      BY <1>2, <1>3, CallFields DEF In
    <3>3. calls' = [calls EXCEPT ![c] = In("expire", calls[c].req)]
      BY <3>1, <3>2
    <3>4. calls' \in [Slots -> Calls]
      BY <1>2, <1>3, <3>3, CallMade
    <3>5. CountedMayRun'
      BY <1>2, <1>3, <3>3, CallMade DEF IInv, CountedMayRun, MayRun
    <3> QED
      BY <1>3, <3>1, <3>4, <3>5
  <2>2. CASE ~SetsExpiry(n)
    <3>1. Pass(c) \/ TooMany(c)
      BY <2>2 DEF Incr
    <3> QED
      BY <1>1, <3>1, Ends
  <2> QED
    BY <2>1, <2>2
<1> QED
  BY <1>1, <1>4, <1>5, <1>6 DEF IInv, TypeOK

LEMMA ExpireStep ==
  ASSUME IInv, NEW c \in Slots, Expire(c)
  PROVE  IInv' /\ Paid
<1> DEFINE k == calls[c].req.key
<1>1. /\ ttl' = [ttl EXCEPT ![k] = IF count[k] = 0 THEN 0 ELSE Window]
      /\ UNCHANGED <<open, revoked, redis, count, bucket, orphaned, faults, crashes, losses>>
  BY DEF Expire
<1>2. calls' \in [Slots -> Calls] /\ written' \in [Keys -> [Ages -> Nat]] /\ CountedMayRun'
  <2>1. calls[c].phase = "expire" /\ (Pass(c) \/ TooMany(c)) /\ open' = open
    BY DEF Expire
  <2> QED
    BY <2>1, Ends
<1>3. ttl' \in [Keys -> 0..Window]
  <2>1. 0 \in 0..Window /\ Window \in 0..Window
    BY GatewayOK
  <2>2. ttl \in [Keys -> 0..Window]
    BY DEF IInv, TypeOK
  <2> QED
    BY <1>1, <2>1, <2>2
<1>4. UNCHANGED <<open, revoked, redis, count, bucket, orphaned, faults, crashes, losses>>
  BY DEF Expire
<1> QED
  BY <1>2, <1>3, <1>4, NobodyPays DEF IInv, TypeOK

LEMMA UnreachableStep ==
  ASSUME IInv, NEW c \in Slots, Unreachable(c)
  PROVE  IInv' /\ Paid
<1>1. /\ calls[c].phase \in {"count", "expire"}
      /\ MemoryCheck(c)
      /\ UNCHANGED <<open, revoked, redis, count, ttl, faults, crashes, losses>>
  BY DEF Unreachable
<1>2. calls[c].req.key \in Keys /\ calls[c].req \in Requests
  BY <1>1, Waiting
<1>3. orphaned' \subseteq Keys
  BY <1>2 DEF Unreachable, WithoutExpiry, IInv, TypeOK
<1>4. /\ Pass(c) \/ TooMany(c)
      /\ bucket' \in [Keys -> [Ages -> Nat]]
      /\ \A k \in Keys \ {calls[c].req.key} : bucket'[k] = bucket[k]
  BY <1>1, Remembers
<1>5. calls' \in [Slots -> Calls] /\ written' \in [Keys -> [Ages -> Nat]] /\ CountedMayRun'
  BY <1>1, <1>4, Ends
<1>6. Paid
  BY <1>1, <1>4, PaidBy
<1> QED
  BY <1>1, <1>3, <1>4, <1>5, <1>6 DEF IInv, TypeOK

LEMMA IncrUnansweredStep ==
  ASSUME IInv, NEW c \in Slots, IncrUnanswered(c)
  PROVE  IInv' /\ Paid
<1> DEFINE k == calls[c].req.key
<1>1. /\ calls[c].phase = "count"
      /\ MemoryCheck(c)
      /\ count' = [count EXCEPT ![k] = @ + 1]
      /\ faults' = faults + 1
      /\ UNCHANGED <<open, revoked, redis, ttl, crashes, losses>>
  BY DEF IncrUnanswered
<1>2. k \in Keys /\ calls[c].req \in Requests
  BY <1>1, Waiting
<1>3. orphaned' \subseteq Keys
  BY <1>2 DEF IncrUnanswered, IInv, TypeOK
<1>4. /\ Pass(c) \/ TooMany(c)
      /\ bucket' \in [Keys -> [Ages -> Nat]]
      /\ \A j \in Keys \ {k} : bucket'[j] = bucket[j]
  BY <1>1, Remembers
<1>5. calls' \in [Slots -> Calls] /\ written' \in [Keys -> [Ages -> Nat]] /\ CountedMayRun'
  BY <1>1, <1>4, Ends
<1>6. count \in [Keys -> Nat]
  BY DEF IInv, TypeOK
<1>7. count' \in [Keys -> Nat] /\ \A j \in Keys \ {k} : count'[j] = count[j]
  BY <1>1, <1>2, <1>6
<1>8. Paid
  BY <1>1, <1>4, <1>7, PaidBy
<1> QED
  BY <1>1, <1>3, <1>4, <1>5, <1>7, <1>8 DEF IInv, TypeOK

LEMMA TickStep ==
  ASSUME IInv, Tick
  PROVE  IInv' /\ Paid
<1>1. /\ count \in [Keys -> Nat] /\ ttl \in [Keys -> 0..Window]
      /\ bucket \in [Keys -> [Ages -> Nat]] /\ written \in [Keys -> [Ages -> Nat]]
  BY DEF IInv, TypeOK
<1>2. count' \in [Keys -> Nat] /\ \A k \in Keys : ~(count'[k] > count[k])
  BY <1>1 DEF Tick
<1>3. ttl' \in [Keys -> 0..Window]
  <2>1. ASSUME NEW t \in 0..Window PROVE (IF t = 0 THEN 0 ELSE t - 1) \in 0..Window
    BY GatewayOK
  <2>2. \A k \in Keys : (IF ttl[k] = 0 THEN 0 ELSE ttl[k] - 1) \in 0..Window
    BY <1>1, <2>1
  <2> QED
    BY <2>2 DEF Tick
<1>4. /\ bucket' \in [Keys -> [Ages -> Nat]] /\ written' \in [Keys -> [Ages -> Nat]]
      /\ \A k \in Keys : bucket'[k][0] = 0
  BY <1>1, OlderType DEF Tick
<1>5. \A k \in Keys : ~(bucket'[k][0] > bucket[k][0])
  BY <1>1, <1>4, ZeroIsAge
<1>6. UNCHANGED <<open, revoked, calls, redis, orphaned, faults, crashes, losses>>
  BY DEF Tick
<1> QED
  BY <1>2, <1>3, <1>4, <1>5, <1>6 DEF IInv, TypeOK, CountedMayRun, Paid, MayRun

LEMMA CrashStep ==
  ASSUME IInv, Crash
  PROVE  IInv' /\ Paid
<1>1. /\ calls' = [c \in Slots |-> Idle] /\ bucket' = [k \in Keys |-> NoWrites]
      /\ faults' = faults + 1 /\ crashes' = crashes + 1
      /\ UNCHANGED <<open, revoked, redis, count, ttl, written, losses>>
  BY DEF Crash
<1>2. calls' \in [Slots -> Calls] /\ CountedMayRun'
  BY <1>1, IdleIsCall DEF CountedMayRun
<1>3. bucket' \in [Keys -> [Ages -> Nat]] /\ \A k \in Keys : bucket'[k][0] = 0
  BY <1>1, NoWritesType, ZeroIsAge DEF NoWrites
<1>4. orphaned' \subseteq Keys
  BY DEF Crash, WithoutExpiry, IInv, TypeOK
<1>5. Paid
  <2>1. \A k \in Keys : count[k] \in Nat /\ bucket[k][0] \in Nat
    BY ZeroIsAge DEF IInv, TypeOK
  <2> QED
    BY <1>1, <1>3, <2>1 DEF Paid
<1> QED
  BY <1>1, <1>2, <1>3, <1>4, <1>5 DEF IInv, TypeOK

LEMMA RedisEmptyStep ==
  ASSUME IInv, RedisEmpty
  PROVE  IInv' /\ Paid
<1>1. /\ count' = [k \in Keys |-> 0] /\ ttl' = [k \in Keys |-> 0] /\ orphaned' = {}
      /\ faults' = faults + 1 /\ losses' = losses + 1
      /\ UNCHANGED <<open, revoked, calls, redis, bucket, written, crashes>>
  BY DEF RedisEmpty
<1>2. count' \in [Keys -> Nat] /\ ttl' \in [Keys -> 0..Window]
  BY <1>1, GatewayOK
<1>3. Paid
  <2>1. \A k \in Keys : count[k] \in Nat /\ bucket[k][0] \in Nat
    BY ZeroIsAge DEF IInv, TypeOK
  <2> QED
    BY <1>1, <2>1 DEF Paid
<1> QED
  BY <1>1, <1>2, <1>3 DEF IInv, TypeOK, CountedMayRun, MayRun

\* The end of a call, and what happens to the keys and to Redis.
LEMMA QuietStep ==
  ASSUME IInv, \/ \E c \in Slots : Run(c)
               \/ \E k \in Keys : Revoke(k)
               \/ RedisDown
               \/ RedisBack
               \/ UNCHANGED vars
  PROVE  IInv' /\ Paid
<1>1. UNCHANGED stores /\ UNCHANGED <<open, crashes, losses>>
  BY DEF Run, Revoke, RedisDown, RedisBack, vars
<1>2. revoked' \subseteq Keys
  BY DEF Run, Revoke, RedisDown, RedisBack, vars, IInv, TypeOK
<1>3. redis' \in {"up", "down"} /\ faults' \in Nat
  BY DEF Run, Revoke, RedisDown, RedisBack, vars, IInv, TypeOK
<1>4. calls' = calls \/ \E c \in Slots : calls' = [calls EXCEPT ![c] = Idle]
  BY DEF Run, Revoke, RedisDown, RedisBack, vars
<1>5. calls' \in [Slots -> Calls] /\ CountedMayRun'
  BY <1>4, IdleIsCall DEF IInv, TypeOK, CountedMayRun, MayRun
<1>6. Paid
  BY <1>1, NobodyPays DEF stores
<1> QED
  BY <1>1, <1>2, <1>3, <1>5, <1>6 DEF IInv, TypeOK, stores

LEMMA Step == IInv /\ [Next]_vars => IInv' /\ Paid
<1> SUFFICES ASSUME IInv, [Next]_vars PROVE IInv' /\ Paid
  OBVIOUS
<1>1. ASSUME NEW c \in Slots, NEW r \in Requests, Arrive(c, r) PROVE IInv' /\ Paid
  BY <1>1, ArriveStep, NobodyPays DEF Arrive, stores
<1>2. ASSUME NEW c \in Slots, NEW r \in Requests, Refuse(c, r) PROVE IInv' /\ Paid
  BY <1>2, QuietStep DEF Refuse
<1>3. ASSUME NEW c \in Slots, Incr(c) \/ Expire(c) \/ Unreachable(c) \/ IncrUnanswered(c)
      PROVE  IInv' /\ Paid
  BY <1>3, IncrStep, ExpireStep, UnreachableStep, IncrUnansweredStep
<1> QED
  BY <1>1, <1>2, <1>3, TickStep, CrashStep, RedisEmptyStep, QuietStep DEF Next

\* Type correctness, for any keys, limit, minute and number of calls.
THEOREM TypeCorrect == Spec => []TypeOK
<1>1. IInv => TypeOK
  BY DEF IInv
<1> QED
  BY <1>1, Start, Step, PTL DEF Spec

\* Refused calls cost nothing, in Redis and in the memory.
THEOREM RefusedCostsNothingHolds == Spec => RefusedCostsNothing
<1>1. IInv /\ [Next]_vars => [Paid]_vars
  BY Step
<1>2. RefusedCostsNothing <=> [][Paid]_vars
  BY DEF RefusedCostsNothing, Paid
<1> QED
  BY <1>1, <1>2, Start, Step, PTL DEF Spec

-----------------------------------------------------------------------------
(* Sums over ages.  FoldFunction is a recursive function on the sets of     *)
(* ages that takes one age after another.  That there is such a function,   *)
(* and that the order does not matter, follows by induction over the number *)
(* of ages, where the numbers that a statement holds of are a set.          *)

\* Total is the sum over all ages.
Sum(w, S) == FoldFunctionOnSet(+, 0, w, S)

FirstOf(S) == CHOOSE x \in S : TRUE
Rest(S) == S \ {FirstOf(S)}

Sums(w, S, f) == f = [s \in SUBSET S |-> IF s = {} THEN 0 ELSE w[FirstOf(s)] + f[Rest(s)]]

LEMMA Induction ==
  ASSUME NEW T, 0 \in T, \A n \in Nat : n \in T => n + 1 \in T
  PROVE  Nat \subseteq T
<1> DEFINE B == {n \in Nat : n \notin T}
<1> SUFFICES ASSUME B # {} PROVE FALSE
  OBVIOUS
<1>1. PICK n \in B : \A m \in B : ~(<<m, n>> \in OpToRel(<, Nat))
  BY NatLessThanWellFounded, WFMin
<1>2. \A m \in B : ~(m < n)
  BY <1>1 DEF OpToRel
<1>3. n \in Nat /\ n # 0 /\ n \notin T
  BY <1>1
<1>4. n - 1 \in Nat /\ n - 1 < n /\ (n - 1) + 1 = n
  BY <1>3
<1>5. n - 1 \in T
  BY <1>2, <1>4
<1> QED
  BY <1>3, <1>4, <1>5

LEMMA AgesFact ==
  ASSUME NEW S \in SUBSET Ages
  PROVE  /\ IsFiniteSet(S) /\ Cardinality(S) \in Nat
         /\ Cardinality(S) = 0 <=> S = {}
         /\ \A x \in S : Cardinality(S \ {x}) = Cardinality(S) - 1
         /\ \A x \in S : S \ {x} \in SUBSET Ages
         /\ S # {} => FirstOf(S) \in S
<1>1. IsFiniteSet(S)
  <2>1. IsFiniteSet(Ages)
    BY GatewayOK, FS_Interval DEF Ages
  <2> QED
    BY <2>1, FS_Subset
<1>2. Cardinality(S) \in Nat /\ (Cardinality(S) = 0 <=> S = {})
  BY <1>1, FS_CardinalityType, FS_EmptySet
<1>3. \A x \in S : Cardinality(S \ {x}) = Cardinality(S) - 1
  BY <1>1, FS_RemoveElement
<1>4. \A x \in S : S \ {x} \in SUBSET Ages
  OBVIOUS
<1>5. S # {} => FirstOf(S) \in S
  BY DEF FirstOf
<1> QED
  BY <1>1, <1>2, <1>3, <1>4, <1>5

\* Partial sums of sets of at most n ages.
Adds(w, n, f) ==
  \A s \in SUBSET Ages : Cardinality(s) <= n =>
    f[s] = IF s = {} THEN 0 ELSE w[FirstOf(s)] + f[Rest(s)]

LEMMA SumsOfSize ==
  ASSUME NEW w \in [Ages -> Nat], NEW n \in Nat
  PROVE  \E f \in [SUBSET Ages -> Nat] : Adds(w, n, f)
<1> DEFINE T == {k \in Nat : \E f \in [SUBSET Ages -> Nat] : Adds(w, k, f)}
<1>1. 0 \in T
  <2> DEFINE f == [s \in SUBSET Ages |-> 0]
  <2>1. f \in [SUBSET Ages -> Nat]
    OBVIOUS
  <2>2. Adds(w, 0, f)
    <3> SUFFICES ASSUME NEW s \in SUBSET Ages, Cardinality(s) <= 0
                 PROVE  f[s] = IF s = {} THEN 0 ELSE w[FirstOf(s)] + f[Rest(s)]
      BY DEF Adds
    <3>1. Cardinality(s) = 0
      BY AgesFact
    <3>2. s = {}
      BY <3>1, AgesFact
    <3> QED
      BY <3>2
  <2> QED
    BY <2>1, <2>2
<1>2. ASSUME NEW k \in Nat, k \in T
      PROVE  k + 1 \in T
  <2>1. PICK f \in [SUBSET Ages -> Nat] : Adds(w, k, f)
    BY <1>2
  <2> DEFINE val(s) == IF s = {} THEN 0 ELSE w[FirstOf(s)] + f[Rest(s)]
             g == [s \in SUBSET Ages |-> val(s)]
  <2>2. ASSUME NEW s \in SUBSET Ages, s # {}
        PROVE  FirstOf(s) \in s /\ Rest(s) \in SUBSET Ages /\ w[FirstOf(s)] \in Nat
    BY <2>2, AgesFact DEF Rest
  <2>3. \A s \in SUBSET Ages : val(s) \in Nat
    <3> SUFFICES ASSUME NEW s \in SUBSET Ages, s # {}
                 PROVE  w[FirstOf(s)] + f[Rest(s)] \in Nat
      OBVIOUS
    <3>1. w[FirstOf(s)] \in Nat /\ f[Rest(s)] \in Nat
      BY <2>2
    <3> QED
      BY <3>1
  <2>4. g \in [SUBSET Ages -> Nat]
    BY <2>3
  <2>5. \A s \in SUBSET Ages : Cardinality(s) <= k => g[s] = f[s]
    BY <2>1 DEF Adds
  <2>6. Adds(w, k + 1, g)
    <3> SUFFICES ASSUME NEW s \in SUBSET Ages, Cardinality(s) <= k + 1, s # {}
                 PROVE  g[s] = w[FirstOf(s)] + g[Rest(s)]
      BY DEF Adds
    <3>1. Rest(s) \in SUBSET Ages /\ Cardinality(Rest(s)) <= k
      <4>1. Cardinality(Rest(s)) = Cardinality(s) - 1 /\ Cardinality(s) \in Nat
        BY <2>2, AgesFact DEF Rest
      <4> QED
        BY <2>2, <4>1
    <3>2. g[Rest(s)] = f[Rest(s)]
      BY <2>5, <3>1
    <3> QED
      BY <3>2
  <2> QED
    BY <2>4, <2>6
<1> HIDE DEF T
<1>3. Nat \subseteq T
  BY <1>1, <1>2, Induction
<1> QED
  BY <1>3 DEF T

LEMMA SumsExist ==
  ASSUME NEW w \in [Ages -> Nat], NEW S \in SUBSET Ages
  PROVE  \E f : Sums(w, S, f)
<1>1. Cardinality(S) \in Nat /\ IsFiniteSet(S)
  BY AgesFact
<1>2. PICK f \in [SUBSET Ages -> Nat] : Adds(w, Cardinality(S), f)
  BY <1>1, SumsOfSize
<1> DEFINE g == [s \in SUBSET S |-> f[s]]
<1>3. ASSUME NEW s \in SUBSET S
      PROVE  g[s] = IF s = {} THEN 0 ELSE w[FirstOf(s)] + g[Rest(s)]
  <2>1. s \in SUBSET Ages /\ Cardinality(s) <= Cardinality(S)
    BY <1>1, FS_Subset
  <2>2. f[s] = IF s = {} THEN 0 ELSE w[FirstOf(s)] + f[Rest(s)]
    BY <1>2, <2>1 DEF Adds
  <2>3. Rest(s) \in SUBSET S
    BY DEF Rest
  <2> QED
    BY <2>2, <2>3
<1>4. Sums(w, S, g)
  BY <1>3 DEF Sums
<1> QED
  BY <1>4

\* The function that MapThenSumSet defines for a set.
SumOn(w, S) == CHOOSE f : Sums(w, S, f)

LEMMA SumOnFact ==
  ASSUME NEW w \in [Ages -> Nat], NEW S \in SUBSET Ages
  PROVE  /\ Sum(w, S) = SumOn(w, S)[S]
         /\ \A s \in SUBSET S :
              SumOn(w, S)[s] = IF s = {} THEN 0 ELSE w[FirstOf(s)] + SumOn(w, S)[Rest(s)]
<1>1. Sum(w, S) = SumOn(w, S)[S]
  BY DEF Sum, FoldFunctionOnSet, MapThenFoldSet, FirstOf, Rest, Sums, SumOn
<1>2. Sums(w, S, SumOn(w, S))
  BY SumsExist DEF SumOn
<1> QED
  BY <1>1, <1>2 DEF Sums

\* A sum is the same number whatever set it is taken in.
LEMMA SumIsSum ==
  ASSUME NEW w \in [Ages -> Nat], NEW S \in SUBSET Ages, NEW s \in SUBSET S
  PROVE  SumOn(w, S)[s] = Sum(w, s) /\ Sum(w, s) \in Nat
<1> DEFINE T == {n \in Nat : \A A \in SUBSET Ages : \A t \in SUBSET A : Cardinality(t) <= n =>
                               SumOn(w, A)[t] = SumOn(w, t)[t] /\ SumOn(w, t)[t] \in Nat}
<1>1. 0 \in T
  <2> SUFFICES ASSUME NEW A \in SUBSET Ages, NEW t \in SUBSET A, Cardinality(t) <= 0
               PROVE  SumOn(w, A)[t] = SumOn(w, t)[t] /\ SumOn(w, t)[t] \in Nat
    OBVIOUS
  <2>1. t \in SUBSET Ages
    OBVIOUS
  <2>2. Cardinality(t) = 0
    BY <2>1, AgesFact
  <2>3. t = {}
    BY <2>1, <2>2, AgesFact
  <2>4. SumOn(w, A)[t] = 0 /\ SumOn(w, t)[t] = 0
    BY <2>1, <2>3, SumOnFact
  <2> QED
    BY <2>4
<1>2. ASSUME NEW n \in Nat, n \in T
      PROVE  n + 1 \in T
  <2> SUFFICES ASSUME NEW A \in SUBSET Ages, NEW t \in SUBSET A, Cardinality(t) <= n + 1
               PROVE  SumOn(w, A)[t] = SumOn(w, t)[t] /\ SumOn(w, t)[t] \in Nat
    OBVIOUS
  <2>1. t \in SUBSET Ages /\ t \in SUBSET t
    OBVIOUS
  <2>2. CASE t = {}
    <3>1. SumOn(w, A)[t] = 0 /\ SumOn(w, t)[t] = 0
      BY <2>1, <2>2, SumOnFact
    <3> QED
      BY <3>1
  <2>3. CASE t # {}
    <3> DEFINE x == FirstOf(t)
               u == Rest(t)
    <3>1. x \in t /\ w[x] \in Nat /\ u \in SUBSET t /\ Cardinality(u) <= n
      <4>1. x \in t /\ w[x] \in Nat /\ u \in SUBSET t
        BY <2>1, <2>3, AgesFact DEF Rest
      <4>2. Cardinality(u) = Cardinality(t) - 1 /\ Cardinality(t) \in Nat
        BY <2>1, <4>1, AgesFact DEF Rest
      <4> QED
        BY <4>1, <4>2
    <3>2. SumOn(w, A)[u] = SumOn(w, u)[u] /\ SumOn(w, t)[u] = SumOn(w, u)[u] /\ SumOn(w, u)[u] \in Nat
      BY <1>2, <2>1, <3>1
    <3>3. SumOn(w, A)[t] = w[x] + SumOn(w, A)[u] /\ SumOn(w, t)[t] = w[x] + SumOn(w, t)[u]
      BY <2>1, <2>3, SumOnFact
    <3> HIDE DEF x, u
    <3> QED
      BY <3>1, <3>2, <3>3
  <2> QED
    BY <2>2, <2>3
<1> HIDE DEF T
<1>3. Nat \subseteq T
  BY <1>1, <1>2, Induction
<1>4. s \in SUBSET Ages /\ Cardinality(s) \in Nat
  BY AgesFact
<1>5. SumOn(w, S)[s] = SumOn(w, s)[s] /\ SumOn(w, s)[s] \in Nat
  BY <1>3, <1>4 DEF T
<1> QED
  BY <1>4, <1>5, SumOnFact

LEMMA SumFirst ==
  ASSUME NEW w \in [Ages -> Nat], NEW S \in SUBSET Ages
  PROVE  /\ Sum(w, {}) = 0 /\ Sum(w, S) \in Nat
         /\ S # {} => Sum(w, S) = w[FirstOf(S)] + Sum(w, Rest(S))
<1>1. Sum(w, S) = SumOn(w, S)[S] /\ Sum(w, {}) = SumOn(w, {})[{}] /\ SumOn(w, {})[{}] = 0
  BY SumOnFact
<1>2. ASSUME S # {}
      PROVE  Sum(w, S) = w[FirstOf(S)] + Sum(w, Rest(S))
  <2>1. SumOn(w, S)[S] = w[FirstOf(S)] + SumOn(w, S)[Rest(S)]
    BY <1>2, SumOnFact
  <2>2. Rest(S) \in SUBSET S
    BY DEF Rest
  <2> QED
    BY <1>1, <2>1, <2>2, SumIsSum
<1>3. Sum(w, S) \in Nat
  BY SumIsSum
<1> QED
  BY <1>1, <1>2, <1>3

\* Ages count one by one, in any order.
LEMMA SumOne ==
  ASSUME NEW w \in [Ages -> Nat], NEW S \in SUBSET Ages, NEW x \in S
  PROVE  Sum(w, S) = w[x] + Sum(w, S \ {x})
<1> DEFINE T == {n \in Nat : \A A \in SUBSET Ages : \A y \in A : Cardinality(A) <= n =>
                               Sum(w, A) = w[y] + Sum(w, A \ {y})}
<1>1. 0 \in T
  <2> SUFFICES ASSUME NEW A \in SUBSET Ages, NEW y \in A, Cardinality(A) <= 0
               PROVE  FALSE
    OBVIOUS
  <2>1. Cardinality(A) = 0
    BY AgesFact
  <2> QED
    BY <2>1, AgesFact
<1>2. ASSUME NEW n \in Nat, n \in T
      PROVE  n + 1 \in T
  <2> SUFFICES ASSUME NEW A \in SUBSET Ages, NEW y \in A, Cardinality(A) <= n + 1
               PROVE  Sum(w, A) = w[y] + Sum(w, A \ {y})
    OBVIOUS
  <2> DEFINE z == FirstOf(A)
  <2>1. z \in A /\ Sum(w, A) = w[z] + Sum(w, A \ {z})
    BY SumFirst, AgesFact DEF Rest
  <2> HIDE DEF z
  <2>2. CASE y = z
    BY <2>1, <2>2
  <2>3. CASE y # z
    <3>1. /\ y \in A \ {z} /\ z \in A \ {y}
          /\ A \ {z} \in SUBSET Ages /\ A \ {y} \in SUBSET Ages
          /\ (A \ {z}) \ {y} = (A \ {y}) \ {z}
      BY <2>1, <2>3
    <3>2. Cardinality(A \ {z}) <= n /\ Cardinality(A \ {y}) <= n
      <4>1. /\ Cardinality(A) \in Nat
            /\ Cardinality(A \ {z}) = Cardinality(A) - 1 /\ Cardinality(A \ {y}) = Cardinality(A) - 1
        BY <2>1, AgesFact
      <4> QED
        BY <4>1
    <3>3. /\ Sum(w, A \ {z}) = w[y] + Sum(w, (A \ {z}) \ {y})
          /\ Sum(w, A \ {y}) = w[z] + Sum(w, (A \ {y}) \ {z})
      BY <1>2, <3>1, <3>2
    <3>4. w[y] \in Nat /\ w[z] \in Nat /\ Sum(w, (A \ {y}) \ {z}) \in Nat
      BY <2>1, SumFirst, AgesFact
    <3> DEFINE c == Sum(w, (A \ {y}) \ {z})
    <3>5. /\ Sum(w, A \ {z}) = w[y] + c /\ Sum(w, A \ {y}) = w[z] + c /\ c \in Nat
      BY <3>1, <3>3, <3>4
    <3> HIDE DEF c
    <3> QED
      BY <2>1, <3>4, <3>5
  <2> QED
    BY <2>2, <2>3
<1> HIDE DEF T
<1>3. Nat \subseteq T
  BY <1>1, <1>2, Induction
<1>4. Cardinality(S) \in Nat
  BY AgesFact
<1> QED
  BY <1>3, <1>4 DEF T

LEMMA SumOfSums ==
  ASSUME NEW u \in [Ages -> Nat], NEW v \in [Ages -> Nat], NEW w \in [Ages -> Nat],
         NEW S \in SUBSET Ages, \A a \in S : u[a] = v[a] + w[a]
  PROVE  Sum(u, S) = Sum(v, S) + Sum(w, S)
<1> DEFINE T == {n \in Nat : \A A \in SUBSET S : Cardinality(A) <= n =>
                               Sum(u, A) = Sum(v, A) + Sum(w, A)}
<1>1. 0 \in T
  <2> SUFFICES ASSUME NEW A \in SUBSET S, Cardinality(A) <= 0
               PROVE  Sum(u, A) = Sum(v, A) + Sum(w, A)
    OBVIOUS
  <2>1. Cardinality(A) = 0
    BY AgesFact
  <2>2. A = {}
    BY <2>1, AgesFact
  <2>3. Sum(u, {}) = 0 /\ Sum(v, {}) = 0 /\ Sum(w, {}) = 0
    BY SumFirst
  <2> QED
    BY <2>2, <2>3
<1>2. ASSUME NEW n \in Nat, n \in T
      PROVE  n + 1 \in T
  <2> SUFFICES ASSUME NEW A \in SUBSET S, Cardinality(A) <= n + 1, A # {}
               PROVE  Sum(u, A) = Sum(v, A) + Sum(w, A)
    <3>1. Sum(u, {}) = 0 /\ Sum(v, {}) = 0 /\ Sum(w, {}) = 0
      BY SumFirst
    <3> QED
      BY <3>1
  <2>1. PICK x \in A : TRUE
    OBVIOUS
  <2> DEFINE B == A \ {x}
  <2>2. A \in SUBSET Ages /\ x \in S
    OBVIOUS
  <2>3. B \in SUBSET S /\ Cardinality(B) <= n
    <3>1. Cardinality(B) = Cardinality(A) - 1 /\ Cardinality(A) \in Nat
      BY <2>2, AgesFact
    <3> QED
      BY <3>1
  <2>4. Sum(u, B) = Sum(v, B) + Sum(w, B)
    BY <1>2, <2>3
  <2>5. /\ Sum(u, A) = u[x] + Sum(u, B) /\ Sum(v, A) = v[x] + Sum(v, B)
        /\ Sum(w, A) = w[x] + Sum(w, B)
    BY <2>2, SumOne
  <2>6. B \in SUBSET Ages
    OBVIOUS
  <2>7. Sum(v, B) \in Nat /\ Sum(w, B) \in Nat /\ v[x] \in Nat /\ w[x] \in Nat
    BY <2>2, <2>6, SumFirst
  <2> HIDE DEF B
  <2>8. u[x] = v[x] + w[x]
    BY <2>2
  <2> QED
    BY <2>4, <2>5, <2>7, <2>8
<1> HIDE DEF T
<1>3. Nat \subseteq T
  BY <1>1, <1>2, Induction
<1>4. Cardinality(S) \in Nat
  BY AgesFact
<1> QED
  BY <1>3, <1>4 DEF T

\* No writes, and writes that agree.
LEMMA SumNone ==
  ASSUME NEW S \in SUBSET Ages
  PROVE  Sum(NoWrites, S) = 0
<1>1. NoWrites \in [Ages -> Nat] /\ \A a \in S : NoWrites[a] = NoWrites[a] + NoWrites[a]
  BY DEF NoWrites
<1>2. Sum(NoWrites, S) = Sum(NoWrites, S) + Sum(NoWrites, S)
  BY <1>1, SumOfSums
<1> DEFINE n == Sum(NoWrites, S)
<1>3. n \in Nat
  BY <1>1, SumFirst
<1>4. n = n + n
  BY <1>2
<1> HIDE DEF n
<1>5. n = 0
  BY <1>3, <1>4
<1> QED
  BY <1>5 DEF n

LEMMA SumAgrees ==
  ASSUME NEW u \in [Ages -> Nat], NEW v \in [Ages -> Nat], NEW S \in SUBSET Ages,
         \A a \in S : u[a] = v[a]
  PROVE  Sum(u, S) = Sum(v, S)
<1>1. NoWrites \in [Ages -> Nat] /\ \A a \in S : u[a] = v[a] + NoWrites[a]
  BY DEF NoWrites
<1>2. Sum(u, S) = Sum(v, S) + Sum(NoWrites, S)
  BY <1>1, SumOfSums
<1>3. Sum(v, S) \in Nat
  BY SumFirst
<1> QED
  BY <1>2, <1>3, SumNone

\* One write more, just now.
More(w) == [w EXCEPT ![0] = @ + 1]

LEMMA SumMore ==
  ASSUME NEW w \in [Ages -> Nat], NEW S \in SUBSET Ages
  PROVE  /\ More(w) \in [Ages -> Nat]
         /\ Sum(More(w), S) = IF 0 \in S THEN Sum(w, S) + 1 ELSE Sum(w, S)
<1>1. More(w) \in [Ages -> Nat]
  BY ZeroIsAge DEF More
<1>2. ASSUME 0 \notin S
      PROVE  Sum(More(w), S) = Sum(w, S)
  <2>1. \A a \in S : More(w)[a] = w[a]
    BY <1>2 DEF More
  <2> QED
    BY <1>1, <2>1, SumAgrees
<1>3. ASSUME 0 \in S
      PROVE  Sum(More(w), S) = Sum(w, S) + 1
  <2> DEFINE B == S \ {0}
  <2>1. Sum(More(w), S) = More(w)[0] + Sum(More(w), B) /\ Sum(w, S) = w[0] + Sum(w, B)
    BY <1>1, <1>3, SumOne
  <2>2. B \in SUBSET Ages /\ \A a \in B : More(w)[a] = w[a]
    BY DEF More
  <2>3. Sum(More(w), B) = Sum(w, B) /\ Sum(w, B) \in Nat
    BY <1>1, <2>2, SumAgrees, SumFirst
  <2>4. More(w)[0] = w[0] + 1 /\ w[0] \in Nat
    BY ZeroIsAge DEF More
  <2> HIDE DEF B
  <2> QED
    BY <2>1, <2>3, <2>4
<1> QED
  BY <1>1, <1>2, <1>3

\* The writes of the last m ticks.
Last(w, m) == Sum(w, 0..(m - 1))

LEMMA LastFact ==
  ASSUME NEW w \in [Ages -> Nat]
  PROVE  /\ Last(w, 0) = 0
         /\ \A m \in 0..Window : Last(w, m) \in Nat
         /\ \A m \in 0..(Window - 1) : Last(w, m + 1) = w[m] + Last(w, m)
         /\ Total(w) = Last(w, Window)
<1>1. Last(w, 0) = 0
  <2>1. 0..(0 - 1) = {}
    OBVIOUS
  <2> QED
    BY <2>1, SumFirst DEF Last
<1>2. ASSUME NEW m \in 0..Window
      PROVE  Last(w, m) \in Nat
  <2>1. 0..(m - 1) \in SUBSET Ages
    BY GatewayOK DEF Ages
  <2> QED
    BY <2>1, SumFirst DEF Last
<1>3. ASSUME NEW m \in 0..(Window - 1)
      PROVE  Last(w, m + 1) = w[m] + Last(w, m)
  <2> DEFINE A == 0..((m + 1) - 1)
  <2>1. A \in SUBSET Ages /\ m \in A /\ A \ {m} = 0..(m - 1)
    BY GatewayOK DEF Ages
  <2> HIDE DEF A
  <2>2. Sum(w, A) = w[m] + Sum(w, A \ {m})
    BY <2>1, SumOne
  <2> QED
    BY <2>1, <2>2 DEF A, Last
<1>4. Total(w) = Last(w, Window)
  <2>1. DOMAIN w = 0..(Window - 1)
    BY DEF Ages
  <2> QED
    BY <2>1 DEF Total, FoldFunction, Last, Sum
<1> QED
  BY <1>1, <1>2, <1>3, <1>4

\* A tick later they are a tick older.
LEMMA LastOlder ==
  ASSUME NEW w \in [Ages -> Nat], NEW m \in 0..(Window - 1)
  PROVE  Last(Older(w), m + 1) = Last(w, m)
<1> DEFINE T == {n \in Nat : n < Window => Last(Older(w), n + 1) = Last(w, n)}
<1>1. Older(w) \in [Ages -> Nat] /\ Older(w)[0] = 0 /\ Window \in Nat /\ Window > 0
  BY OlderType, GatewayOK
<1>2. 0 \in T
  <2>1. 0 \in 0..(Window - 1)
    BY <1>1
  <2>2. Last(Older(w), 0 + 1) = Older(w)[0] + Last(Older(w), 0)
    BY <1>1, <2>1, LastFact
  <2>3. Last(Older(w), 0) = 0 /\ Last(w, 0) = 0
    BY <1>1, LastFact
  <2> QED
    BY <1>1, <2>2, <2>3
<1>3. ASSUME NEW n \in Nat, n \in T
      PROVE  n + 1 \in T
  <2> SUFFICES ASSUME n + 1 < Window
               PROVE  Last(Older(w), (n + 1) + 1) = Last(w, n + 1)
    OBVIOUS
  <2>1. n \in 0..(Window - 1) /\ n + 1 \in 0..(Window - 1) /\ n < Window /\ n + 1 # 0
    BY <1>1
  <2>2. Last(Older(w), (n + 1) + 1) = Older(w)[n + 1] + Last(Older(w), n + 1)
    BY <1>1, <2>1, LastFact
  <2>3. Last(w, n + 1) = w[n] + Last(w, n)
    BY <2>1, LastFact
  <2>4. Older(w)[n + 1] = w[n]
    BY <2>1 DEF Older, Ages
  <2>5. Last(Older(w), n + 1) = Last(w, n)
    BY <1>3, <2>1
  <2> QED
    BY <2>2, <2>3, <2>4, <2>5
<1> HIDE DEF T
<1>4. Nat \subseteq T
  BY <1>2, <1>3, Induction
<1>5. m \in Nat /\ m < Window
  BY <1>1
<1> QED
  BY <1>4, <1>5 DEF T

LEMMA TotalFact ==
  ASSUME NEW w \in [Ages -> Nat]
  PROVE  /\ Total(w) \in Nat
         /\ Total(More(w)) = Total(w) + 1
         /\ Total(NoWrites) = 0
         /\ Total(Older(w)) <= Total(w) /\ Total(Older(w)) \in Nat
<1>1. /\ More(w) \in [Ages -> Nat] /\ NoWrites \in [Ages -> Nat] /\ Older(w) \in [Ages -> Nat]
      /\ Window \in Nat /\ Window > 0
  BY SumMore, NoWritesType, OlderType, GatewayOK
<1>2. ASSUME NEW v \in [Ages -> Nat]
      PROVE  Total(v) = Sum(v, Ages) /\ Total(v) \in Nat
  BY SumFirst DEF Total, FoldFunction, Sum
<1>3. Total(More(w)) = Total(w) + 1
  <2>1. Sum(More(w), Ages) = Sum(w, Ages) + 1
    BY ZeroIsAge, SumMore
  <2> QED
    BY <1>1, <1>2, <2>1
<1>4. Total(NoWrites) = 0
  BY <1>1, <1>2, SumNone
<1>5. Total(Older(w)) <= Total(w)
  <2> DEFINE n == Window - 1
  <2>1. n \in 0..(Window - 1) /\ n + 1 = Window /\ n \in Ages /\ n \in 0..Window
    BY <1>1 DEF Ages
  <2>2. Last(Older(w), n + 1) = Last(w, n)
    BY <2>1, LastOlder
  <2>3. Last(w, n + 1) = w[n] + Last(w, n) /\ Last(w, n) \in Nat /\ w[n] \in Nat
    BY <2>1, LastFact
  <2>4. Total(Older(w)) = Last(Older(w), n + 1) /\ Total(w) = Last(w, n + 1)
    BY <1>1, <2>1, LastFact
  <2> HIDE DEF n
  <2> QED
    BY <2>2, <2>3, <2>4
<1> QED
  BY <1>1, <1>2, <1>3, <1>4, <1>5

-----------------------------------------------------------------------------
(* Writes in any minute.  The writes of the last minute that Redis has      *)
(* counted, r, those in the bucket of this process, and those in the       *)
(* buckets of its earlier lives, o, are bounded apart.                     *)

\* A counter has let through no more than this.
Capped(n) == IF n <= Limit THEN n ELSE Limit

\* n is the counter, t the ticks it has left, p the calls between INCR and
\* EXPIRE, l the losses: what was counted before this counter, but one write,
\* and what this one has let through.  While the counter runs, all that was
\* written since it was started belongs to it, or to counters that were lost.
Fits(n, t, p, l, r) ==
  /\ Last(r, Window) + p <= (Limit - 1) + Capped(n) + Limit * l
  /\ t > 0 => /\ n > 0
              /\ p <= l
              /\ Last(r, Window - t) + p <= (Capped(n) - 1) + Limit * l
  /\ n = 0 => p <= l
  /\ p <= l + 1

LEMMA LimitTimes ==
  ASSUME NEW l \in Nat
  PROVE  /\ Limit \in Nat /\ Limit > 0 /\ Window \in Nat /\ Window > 0
         /\ Limit * l \in Nat /\ Limit * l >= l /\ Limit * (l + 1) = Limit * l + Limit
<1>1. Limit \in Nat /\ Limit > 0 /\ Window \in Nat /\ Window > 0
  BY GatewayOK
<1>2. Limit * (l + 1) = Limit * l + Limit
  BY <1>1
<1> DEFINE m == Limit - 1
<1>3. m \in Nat /\ Limit = m + 1
  BY <1>1
<1>4. m * l \in Nat
  BY <1>3
<1>5. (m + 1) * l = m * l + l
  BY <1>3
<1>6. Limit * l = m * l + l
  BY <1>3, <1>5
<1> DEFINE x == m * l
<1>7. x \in Nat /\ Limit * l = x + l
  BY <1>4, <1>6
<1>8. Limit * l \in Nat
  BY <1>1
<1> HIDE DEF m, x
<1>9. Limit * l >= l
  BY <1>7
<1> QED
  BY <1>1, <1>2, <1>8, <1>9

LEMMA TicksLeft ==
  ASSUME NEW t \in 0..Window
  PROVE  Window - t \in 0..Window /\ Window \in 0..Window /\ 0 \in 0..Window
BY GatewayOK

LEMMA LastMore ==
  ASSUME NEW w \in [Ages -> Nat], NEW m \in 0..Window
  PROVE  /\ Last(w, m) \in Nat
         /\ m = 0 => Last(w, m) = 0 /\ Last(More(w), m) = 0
         /\ m > 0 => Last(More(w), m) = Last(w, m) + 1
         /\ Last(More(w), m) <= Last(w, m) + 1 /\ Last(More(w), m) \in Nat
<1>1. More(w) \in [Ages -> Nat]
  BY SumMore
<1>2. Last(w, m) \in Nat /\ Last(More(w), m) \in Nat /\ Last(w, 0) = 0 /\ Last(More(w), 0) = 0
  BY <1>1, LastFact
<1>3. ASSUME m > 0
      PROVE  Last(More(w), m) = Last(w, m) + 1
  <2>1. 0..(m - 1) \in SUBSET Ages /\ 0 \in 0..(m - 1)
    BY <1>3, GatewayOK DEF Ages
  <2> QED
    BY <2>1, SumMore DEF Last
<1> QED
  BY <1>2, <1>3

\* INCR lets one more through ...
LEMMA FitsCounted ==
  ASSUME NEW n \in Nat, NEW t \in 0..Window, NEW p \in Nat, NEW l \in Nat, NEW r \in [Ages -> Nat],
         Fits(n, t, p, l, r), n > 0, n + 1 <= Limit
  PROVE  Fits(n + 1, t, p, l, More(r))
<1>1. /\ Limit \in Nat /\ Window \in Nat /\ Window > 0 /\ Limit * l \in Nat
      /\ Window - t \in 0..Window /\ Window \in 0..Window
  BY LimitTimes, TicksLeft
<1>2. /\ Last(r, Window) \in Nat /\ Last(More(r), Window) = Last(r, Window) + 1
      /\ Last(r, Window - t) \in Nat /\ Last(More(r), Window - t) \in Nat
      /\ Last(More(r), Window - t) <= Last(r, Window - t) + 1
  BY <1>1, LastMore
<1>3. Capped(n) = n /\ Capped(n + 1) = n + 1
  BY <1>1 DEF Capped
<1>4. Last(More(r), Window) + p <= (Limit - 1) + Capped(n + 1) + Limit * l
  BY <1>1, <1>2, <1>3 DEF Fits
<1>5. ASSUME t > 0
      PROVE  Last(More(r), Window - t) + p <= (Capped(n + 1) - 1) + Limit * l
  BY <1>1, <1>2, <1>3, <1>5 DEF Fits
<1>6. n + 1 > 0 /\ n + 1 # 0
  OBVIOUS
<1> QED
  BY <1>4, <1>5, <1>6 DEF Fits

\* ... or counts what it does not let through, or whose answer is lost ...
LEMMA FitsRefused ==
  ASSUME NEW n \in Nat, NEW t \in 0..Window, NEW p \in Nat, NEW l \in Nat, NEW r \in [Ages -> Nat],
         Fits(n, t, p, l, r)
  PROVE  Fits(n + 1, t, p, l, r)
<1>1. /\ Limit \in Nat /\ Window \in Nat /\ Window > 0 /\ Limit * l \in Nat
      /\ Window - t \in 0..Window /\ Window \in 0..Window
  BY LimitTimes, TicksLeft
<1>2. Last(r, Window) \in Nat /\ Last(r, Window - t) \in Nat
  BY <1>1, LastFact
<1>3. Capped(n) \in Nat /\ Capped(n + 1) \in Nat /\ Capped(n) <= Capped(n + 1)
  BY <1>1 DEF Capped
<1>4. Last(r, Window) + p <= (Limit - 1) + Capped(n + 1) + Limit * l
  BY <1>1, <1>2, <1>3 DEF Fits
<1>5. ASSUME t > 0
      PROVE  Last(r, Window - t) + p <= (Capped(n + 1) - 1) + Limit * l
  BY <1>1, <1>2, <1>3, <1>5 DEF Fits
<1>6. n + 1 > 0 /\ n + 1 # 0
  OBVIOUS
<1> QED
  BY <1>4, <1>5, <1>6 DEF Fits

\* ... and the first of a minute waits for EXPIRE ...
LEMMA FitsFirst ==
  ASSUME NEW t \in 0..Window, NEW p \in Nat, NEW l \in Nat, NEW r \in [Ages -> Nat],
         Fits(0, t, p, l, r)
  PROVE  Fits(1, t, p + 1, l, r)
<1>1. /\ Limit \in Nat /\ Limit > 0 /\ Limit * l \in Nat /\ Last(r, Window) \in Nat
      /\ Window \in 0..Window
  <2>1. Window \in 0..Window
    BY GatewayOK
  <2> QED
    BY <2>1, LimitTimes, LastFact
<1>2. Capped(0) = 0 /\ Capped(1) = 1
  BY <1>1 DEF Capped
<1>3. ~(t > 0) /\ p <= l
  BY DEF Fits
<1>4. Last(r, Window) + (p + 1) <= (Limit - 1) + Capped(1) + Limit * l
  BY <1>1, <1>2 DEF Fits
<1> QED
  BY <1>3, <1>4 DEF Fits

\* ... which lets it through.
LEMMA FitsExpire ==
  ASSUME NEW n \in Nat, NEW t \in 0..Window, NEW p \in Nat, NEW l \in Nat, NEW r \in [Ages -> Nat],
         Fits(n, t, p, l, r), p > 0
  PROVE  Fits(n, IF n = 0 THEN 0 ELSE Window, p - 1, l, More(r))
<1>1. /\ Limit \in Nat /\ Limit > 0 /\ Window \in Nat /\ Window > 0
      /\ Limit * l \in Nat /\ Limit * l >= l /\ Window \in 0..Window /\ 0 \in 0..Window
  BY LimitTimes
<1>2. /\ Last(r, Window) \in Nat /\ Last(More(r), Window) = Last(r, Window) + 1
      /\ Last(More(r), 0) = 0
  BY <1>1, LastMore
<1>3. Capped(n) \in Nat /\ (n > 0 => Capped(n) > 0)
  BY <1>1 DEF Capped
<1>4. Last(More(r), Window) + (p - 1) <= (Limit - 1) + Capped(n) + Limit * l
  BY <1>1, <1>2, <1>3 DEF Fits
<1>5. p - 1 <= l /\ p - 1 <= l + 1
  BY DEF Fits
<1>6. CASE n = 0
  BY <1>4, <1>5, <1>6 DEF Fits
<1>7. CASE n # 0
  <2>1. Window - Window = 0 /\ n > 0
    BY <1>1, <1>7
  <2>2. Last(More(r), Window - Window) = 0
    BY <1>2, <2>1
  <2>3. Last(More(r), Window - Window) + (p - 1) <= (Capped(n) - 1) + Limit * l
    BY <1>1, <1>3, <1>5, <2>1, <2>2
  <2>4. Fits(n, Window, p - 1, l, More(r))
    BY <1>4, <1>5, <1>7, <2>1, <2>3 DEF Fits
  <2> QED
    BY <1>7, <2>4
<1> QED
  BY <1>6, <1>7

\* Calls that do not come to EXPIRE.
LEMMA FitsFewer ==
  ASSUME NEW n \in Nat, NEW t \in 0..Window, NEW p \in Nat, NEW l \in Nat, NEW r \in [Ages -> Nat],
         Fits(n, t, p, l, r), NEW q \in Nat, q <= p
  PROVE  Fits(n, t, q, l, r)
<1>1. /\ Limit \in Nat /\ Window \in Nat /\ Window > 0 /\ Limit * l \in Nat
      /\ Window - t \in 0..Window /\ Window \in 0..Window
  BY LimitTimes, TicksLeft
<1>2. Last(r, Window) \in Nat /\ Last(r, Window - t) \in Nat
  BY <1>1, LastFact
<1>3. Capped(n) \in Nat
  BY <1>1 DEF Capped
<1>4. Last(r, Window) + q <= (Limit - 1) + Capped(n) + Limit * l
  BY <1>1, <1>2, <1>3 DEF Fits
<1>5. ASSUME t > 0
      PROVE  Last(r, Window - t) + q <= (Capped(n) - 1) + Limit * l
  BY <1>1, <1>2, <1>3, <1>5 DEF Fits
<1>6. (t > 0 => n > 0 /\ q <= l) /\ (n = 0 => q <= l) /\ q <= l + 1
  BY DEF Fits
<1> QED
  BY <1>4, <1>5, <1>6 DEF Fits

\* The counter that ends takes the writes of its minute with it.
LEMMA FitsTick ==
  ASSUME NEW n \in Nat, NEW t \in 0..Window, NEW p \in Nat, NEW l \in Nat, NEW r \in [Ages -> Nat],
         Fits(n, t, p, l, r)
  PROVE  Fits(IF t = 1 THEN 0 ELSE n, IF t = 0 THEN 0 ELSE t - 1, p, l, Older(r))
<1>1. /\ Limit \in Nat /\ Limit > 0 /\ Window \in Nat /\ Window > 0 /\ Limit * l \in Nat
      /\ Window \in 0..Window
  BY LimitTimes
<1>2. Capped(n) \in Nat /\ Capped(n) <= Limit /\ Capped(0) = 0
  BY <1>1 DEF Capped
<1>3. /\ Last(Older(r), Window) <= Last(r, Window)
      /\ Last(Older(r), Window) \in Nat /\ Last(r, Window) \in Nat
  <2>1. Older(r) \in [Ages -> Nat]
    BY OlderType
  <2> QED
    BY <2>1, LastFact, TotalFact
<1>4. Last(Older(r), Window) + p <= (Limit - 1) + Capped(n) + Limit * l
  BY <1>1, <1>2, <1>3 DEF Fits
<1>5. ASSUME t > 0
      PROVE  Last(Older(r), Window - (t - 1)) = Last(r, Window - t)
  <2> DEFINE m == Window - t
  <2>1. m \in 0..(Window - 1) /\ m + 1 = Window - (t - 1)
    BY <1>1, <1>5
  <2>2. Last(Older(r), m + 1) = Last(r, m)
    BY <2>1, LastOlder
  <2> QED
    BY <2>1, <2>2
<1>6. p <= l + 1 /\ (n = 0 => p <= l) /\ (t > 0 => n > 0 /\ p <= l)
  BY DEF Fits
<1>7. CASE t = 0
  <2>1. Fits(n, 0, p, l, Older(r))
    BY <1>4, <1>6 DEF Fits
  <2> QED
    BY <1>7, <2>1
<1>8. CASE t = 1
  <2>1. Last(Older(r), Window) = Last(r, Window - t)
    <3>1. Window - (t - 1) = Window
      BY <1>1, <1>8
    <3> QED
      BY <1>5, <1>8, <3>1
  <2>2. Last(Older(r), Window) + p <= (Capped(n) - 1) + Limit * l
    BY <1>8, <2>1 DEF Fits
  <2>3. Last(Older(r), Window) + p <= (Limit - 1) + Capped(0) + Limit * l
    BY <1>1, <1>2, <1>3, <2>2
  <2>4. Fits(0, 0, p, l, Older(r))
    BY <1>6, <1>8, <2>3 DEF Fits
  <2> QED
    BY <1>8, <2>4
<1>9. CASE t # 0 /\ t # 1
  <2>1. t > 0 /\ t - 1 > 0
    BY <1>1, <1>9
  <2>2. Last(Older(r), Window - (t - 1)) + p <= (Capped(n) - 1) + Limit * l
    BY <1>5, <2>1 DEF Fits
  <2>3. Fits(n, t - 1, p, l, Older(r))
    BY <1>4, <1>6, <2>1, <2>2 DEF Fits
  <2> QED
    BY <1>9, <2>3
<1> QED
  BY <1>7, <1>8, <1>9

\* Redis without its data.
LEMMA FitsLost ==
  ASSUME NEW n \in Nat, NEW t \in 0..Window, NEW p \in Nat, NEW l \in Nat, NEW r \in [Ages -> Nat],
         Fits(n, t, p, l, r)
  PROVE  Fits(0, 0, p, l + 1, r)
<1>1. /\ Limit \in Nat /\ Limit > 0 /\ Limit * l \in Nat /\ Limit * (l + 1) = Limit * l + Limit
      /\ Last(r, Window) \in Nat
  <2>1. Window \in 0..Window
    BY GatewayOK
  <2> QED
    BY <2>1, LimitTimes, LastFact
<1>2. Capped(n) \in Nat /\ Capped(n) <= Limit /\ Capped(0) = 0
  BY <1>1 DEF Capped
<1> DEFINE x == Limit * l
           y == Limit * (l + 1)
<1>3. x \in Nat /\ y = x + Limit /\ Last(r, Window) + p <= (Limit - 1) + Capped(n) + x
  BY <1>1 DEF Fits
<1> HIDE DEF x, y
<1>4. Last(r, Window) + p <= (Limit - 1) + Capped(0) + y
  BY <1>1, <1>2, <1>3
<1>5. p <= l + 1 /\ p <= (l + 1) + 1
  BY DEF Fits
<1> QED
  BY <1>4, <1>5 DEF Fits, y

\* A key's counter, the ticks it has left, the calls between INCR and EXPIRE,
\* losses, the writes let through, the bucket, crashes.
Accounts(n, t, S, l, w, b, x) ==
  /\ IsFiniteSet(S)
  /\ Total(b) <= Limit
  /\ \E r, o \in [Ages -> Nat] :
       /\ \A a \in Ages : w[a] = r[a] + b[a] + o[a]
       /\ Fits(n, t, Cardinality(S), l, r)
       /\ Total(o) <= Limit * x

\* The bound of AnyMinute.
LEMMA AccountsBound ==
  ASSUME NEW n \in Nat, NEW t \in 0..Window, NEW S, NEW l \in Nat, NEW w \in [Ages -> Nat],
         NEW b \in [Ages -> Nat], NEW x \in Nat, Accounts(n, t, S, l, w, b, x)
  PROVE  Total(w) <= (((2 * Limit - 1) + Limit * l) + Limit * x) + Total(b) /\ Total(b) <= Limit
<1>1. PICK r \in [Ages -> Nat], o \in [Ages -> Nat] :
        /\ \A a \in Ages : w[a] = r[a] + b[a] + o[a]
        /\ Fits(n, t, Cardinality(S), l, r)
        /\ Total(o) <= Limit * x
  BY DEF Accounts
<1> DEFINE v == [a \in Ages |-> r[a] + b[a]]
<1>2. v \in [Ages -> Nat] /\ \A a \in Ages : v[a] = r[a] + b[a] /\ w[a] = v[a] + o[a]
  BY <1>1
<1> HIDE DEF v
<1>3. Sum(w, Ages) = Sum(v, Ages) + Sum(o, Ages) /\ Sum(v, Ages) = Sum(r, Ages) + Sum(b, Ages)
  BY <1>2, SumOfSums
<1>4. /\ Total(w) = Sum(w, Ages) /\ Total(o) = Sum(o, Ages) /\ Total(r) = Sum(r, Ages)
      /\ Total(b) = Sum(b, Ages)
  BY DEF Total, FoldFunction, Sum
<1>5. Total(o) \in Nat /\ Total(r) \in Nat /\ Total(b) \in Nat /\ Total(r) = Last(r, Window)
  BY TotalFact, LastFact
<1>6. /\ Limit \in Nat /\ Limit * l \in Nat /\ Limit * x \in Nat
      /\ Capped(n) <= Limit /\ Capped(n) \in Nat
  BY LimitTimes DEF Capped
<1>7. Total(r) <= (2 * Limit - 1) + Limit * l
  <2>1. Cardinality(S) \in Nat
    BY FS_CardinalityType DEF Accounts
  <2>2. Total(r) + Cardinality(S) <= (Limit - 1) + Capped(n) + Limit * l
    BY <1>1, <1>5 DEF Fits
  <2> QED
    BY <1>5, <1>6, <2>1, <2>2
<1>8. Total(w) = (Total(r) + Total(b)) + Total(o)
  BY <1>3, <1>4, <1>5
<1>9. Total(b) <= Limit
  BY DEF Accounts
<1> QED
  BY <1>1, <1>5, <1>6, <1>7, <1>8, <1>9

LEMMA MoreOf ==
  ASSUME NEW w \in [Ages -> Nat], NEW u \in [Ages -> Nat], NEW v \in [Ages -> Nat],
         NEW o \in [Ages -> Nat], NEW a \in Ages, w[a] = u[a] + v[a] + o[a]
  PROVE  More(w)[a] = More(u)[a] + v[a] + o[a] /\ More(w)[a] = u[a] + More(v)[a] + o[a]
<1>1. u[a] \in Nat /\ v[a] \in Nat /\ o[a] \in Nat
  OBVIOUS
<1>2. CASE a = 0
  <2>1. More(w)[a] = w[a] + 1 /\ More(u)[a] = u[a] + 1 /\ More(v)[a] = v[a] + 1
    BY <1>2 DEF More
  <2> QED
    BY <1>1, <2>1
<1>3. CASE a # 0
  BY <1>1, <1>3 DEF More
<1> QED
  BY <1>2, <1>3

\* What INCR, EXPIRE and their failure do to the account of a key.
LEMMA AccountsCounted ==
  ASSUME NEW n \in Nat, NEW t \in 0..Window, NEW S, NEW l \in Nat, NEW w \in [Ages -> Nat],
         NEW b \in [Ages -> Nat], NEW x \in Nat, Accounts(n, t, S, l, w, b, x),
         n > 0, n + 1 <= Limit
  PROVE  Accounts(n + 1, t, S, l, More(w), b, x)
<1>1. PICK r \in [Ages -> Nat], o \in [Ages -> Nat] :
        /\ \A a \in Ages : w[a] = r[a] + b[a] + o[a]
        /\ Fits(n, t, Cardinality(S), l, r)
        /\ Total(o) <= Limit * x
  BY DEF Accounts
<1>2. Cardinality(S) \in Nat /\ IsFiniteSet(S) /\ Total(b) <= Limit
  BY FS_CardinalityType DEF Accounts
<1>3. Fits(n + 1, t, Cardinality(S), l, More(r))
  BY <1>1, <1>2, FitsCounted
<1>4. More(r) \in [Ages -> Nat]
  BY SumMore
<1>5. ASSUME NEW a \in Ages
      PROVE  More(w)[a] = More(r)[a] + b[a] + o[a]
  BY <1>1, MoreOf
<1> QED
  BY <1>1, <1>2, <1>3, <1>4, <1>5 DEF Accounts

LEMMA AccountsRefused ==
  ASSUME NEW n \in Nat, NEW t \in 0..Window, NEW S, NEW l \in Nat, NEW w \in [Ages -> Nat],
         NEW b \in [Ages -> Nat], NEW x \in Nat, Accounts(n, t, S, l, w, b, x)
  PROVE  Accounts(n + 1, t, S, l, w, b, x)
<1>1. PICK r \in [Ages -> Nat], o \in [Ages -> Nat] :
        /\ \A a \in Ages : w[a] = r[a] + b[a] + o[a]
        /\ Fits(n, t, Cardinality(S), l, r)
        /\ Total(o) <= Limit * x
  BY DEF Accounts
<1>2. Cardinality(S) \in Nat /\ IsFiniteSet(S) /\ Total(b) <= Limit
  BY FS_CardinalityType DEF Accounts
<1>3. Fits(n + 1, t, Cardinality(S), l, r)
  BY <1>1, <1>2, FitsRefused
<1> QED
  BY <1>1, <1>2, <1>3 DEF Accounts

LEMMA AccountsFirst ==
  ASSUME NEW t \in 0..Window, NEW S, NEW l \in Nat, NEW w \in [Ages -> Nat],
         NEW b \in [Ages -> Nat], NEW x \in Nat, Accounts(0, t, S, l, w, b, x),
         NEW c, c \notin S
  PROVE  Accounts(1, t, S \cup {c}, l, w, b, x)
<1>1. PICK r \in [Ages -> Nat], o \in [Ages -> Nat] :
        /\ \A a \in Ages : w[a] = r[a] + b[a] + o[a]
        /\ Fits(0, t, Cardinality(S), l, r)
        /\ Total(o) <= Limit * x
  BY DEF Accounts
<1>2. Cardinality(S) \in Nat /\ IsFiniteSet(S) /\ Total(b) <= Limit
  BY FS_CardinalityType DEF Accounts
<1>3. IsFiniteSet(S \cup {c}) /\ Cardinality(S \cup {c}) = Cardinality(S) + 1
  BY <1>2, FS_AddElement
<1>4. Fits(1, t, Cardinality(S) + 1, l, r)
  BY <1>1, <1>2, FitsFirst
<1> QED
  BY <1>1, <1>2, <1>3, <1>4 DEF Accounts

LEMMA AccountsExpire ==
  ASSUME NEW n \in Nat, NEW t \in 0..Window, NEW S, NEW l \in Nat, NEW w \in [Ages -> Nat],
         NEW b \in [Ages -> Nat], NEW x \in Nat, Accounts(n, t, S, l, w, b, x),
         NEW c \in S
  PROVE  Accounts(n, IF n = 0 THEN 0 ELSE Window, S \ {c}, l, More(w), b, x)
<1>1. PICK r \in [Ages -> Nat], o \in [Ages -> Nat] :
        /\ \A a \in Ages : w[a] = r[a] + b[a] + o[a]
        /\ Fits(n, t, Cardinality(S), l, r)
        /\ Total(o) <= Limit * x
  BY DEF Accounts
<1>2. Cardinality(S) \in Nat /\ IsFiniteSet(S) /\ Total(b) <= Limit
  BY FS_CardinalityType DEF Accounts
<1>3. /\ IsFiniteSet(S \ {c}) /\ Cardinality(S \ {c}) = Cardinality(S) - 1
      /\ Cardinality(S \ {c}) \in Nat
  BY <1>2, FS_RemoveElement, FS_CardinalityType
<1>4. Cardinality(S) > 0
  BY <1>2, <1>3
<1>5. Fits(n, IF n = 0 THEN 0 ELSE Window, Cardinality(S) - 1, l, More(r))
  BY <1>1, <1>2, <1>4, FitsExpire
<1>6. More(r) \in [Ages -> Nat]
  BY SumMore
<1>7. ASSUME NEW a \in Ages
      PROVE  More(w)[a] = More(r)[a] + b[a] + o[a]
  BY <1>1, MoreOf
<1> QED
  BY <1>1, <1>2, <1>3, <1>5, <1>6, <1>7 DEF Accounts

LEMMA AccountsFewer ==
  ASSUME NEW n \in Nat, NEW t \in 0..Window, NEW S, NEW l \in Nat, NEW w \in [Ages -> Nat],
         NEW b \in [Ages -> Nat], NEW x \in Nat, Accounts(n, t, S, l, w, b, x),
         NEW s \in SUBSET S
  PROVE  Accounts(n, t, s, l, w, b, x)
<1>1. PICK r \in [Ages -> Nat], o \in [Ages -> Nat] :
        /\ \A a \in Ages : w[a] = r[a] + b[a] + o[a]
        /\ Fits(n, t, Cardinality(S), l, r)
        /\ Total(o) <= Limit * x
  BY DEF Accounts
<1>2. IsFiniteSet(S) /\ Total(b) <= Limit
  BY DEF Accounts
<1>3. /\ Cardinality(S) \in Nat /\ IsFiniteSet(s) /\ Cardinality(s) \in Nat
      /\ Cardinality(s) <= Cardinality(S)
  BY <1>2, FS_CardinalityType, FS_Subset
<1>4. Fits(n, t, Cardinality(s), l, r)
  BY <1>1, <1>3, FitsFewer
<1> QED
  BY <1>1, <1>2, <1>3, <1>4 DEF Accounts

\* The memory lets one through.
LEMMA AccountsRemember ==
  ASSUME NEW n, NEW t, NEW S, NEW l, NEW w \in [Ages -> Nat],
         NEW b \in [Ages -> Nat], NEW x, Accounts(n, t, S, l, w, b, x), Total(b) < Limit
  PROVE  Accounts(n, t, S, l, More(w), More(b), x)
<1>1. PICK r \in [Ages -> Nat], o \in [Ages -> Nat] :
        /\ \A a \in Ages : w[a] = r[a] + b[a] + o[a]
        /\ Fits(n, t, Cardinality(S), l, r)
        /\ Total(o) <= Limit * x
  BY DEF Accounts
<1>2. ASSUME NEW a \in Ages
      PROVE  More(w)[a] = r[a] + More(b)[a] + o[a]
  BY <1>1, MoreOf
<1>3. Total(More(b)) = Total(b) + 1 /\ Total(b) \in Nat /\ Limit \in Nat
  BY TotalFact, GatewayOK
<1>4. Total(More(b)) <= Limit
  BY <1>3
<1>5. IsFiniteSet(S)
  BY DEF Accounts
<1> QED
  BY <1>1, <1>2, <1>4, <1>5 DEF Accounts

LEMMA AccountsTick ==
  ASSUME NEW n \in Nat, NEW t \in 0..Window, NEW S, NEW l \in Nat, NEW w \in [Ages -> Nat],
         NEW b \in [Ages -> Nat], NEW x \in Nat, Accounts(n, t, S, l, w, b, x)
  PROVE  Accounts(IF t = 1 THEN 0 ELSE n, IF t = 0 THEN 0 ELSE t - 1, S, l, Older(w), Older(b), x)
<1>1. PICK r \in [Ages -> Nat], o \in [Ages -> Nat] :
        /\ \A a \in Ages : w[a] = r[a] + b[a] + o[a]
        /\ Fits(n, t, Cardinality(S), l, r)
        /\ Total(o) <= Limit * x
  BY DEF Accounts
<1>2. Cardinality(S) \in Nat /\ IsFiniteSet(S) /\ Total(b) <= Limit
  BY FS_CardinalityType DEF Accounts
<1>3. Fits(IF t = 1 THEN 0 ELSE n, IF t = 0 THEN 0 ELSE t - 1, Cardinality(S), l, Older(r))
  BY <1>1, <1>2, FitsTick
<1>4. Older(r) \in [Ages -> Nat] /\ Older(o) \in [Ages -> Nat]
  BY OlderType
<1>5. ASSUME NEW a \in Ages
      PROVE  Older(w)[a] = Older(r)[a] + Older(b)[a] + Older(o)[a]
  <2>1. a # 0 => a - 1 \in Ages
    BY GatewayOK DEF Ages
  <2> QED
    BY <1>1, <2>1 DEF Older
<1>6. Total(Older(b)) <= Limit /\ Total(Older(o)) <= Limit * x
  <2>1. /\ Total(b) \in Nat /\ Total(Older(b)) \in Nat /\ Total(Older(b)) <= Total(b)
        /\ Total(o) \in Nat /\ Total(Older(o)) \in Nat /\ Total(Older(o)) <= Total(o)
        /\ Limit \in Nat /\ Limit * x \in Nat
    BY TotalFact, LimitTimes
  <2> QED
    BY <1>1, <1>2, <2>1
<1> QED
  BY <1>2, <1>3, <1>4, <1>5, <1>6 DEF Accounts

LEMMA AccountsLost ==
  ASSUME NEW n \in Nat, NEW t \in 0..Window, NEW S, NEW l \in Nat, NEW w \in [Ages -> Nat],
         NEW b \in [Ages -> Nat], NEW x \in Nat, Accounts(n, t, S, l, w, b, x)
  PROVE  Accounts(0, 0, S, l + 1, w, b, x)
<1>1. PICK r \in [Ages -> Nat], o \in [Ages -> Nat] :
        /\ \A a \in Ages : w[a] = r[a] + b[a] + o[a]
        /\ Fits(n, t, Cardinality(S), l, r)
        /\ Total(o) <= Limit * x
  BY DEF Accounts
<1>2. Cardinality(S) \in Nat /\ IsFiniteSet(S) /\ Total(b) <= Limit
  BY FS_CardinalityType DEF Accounts
<1>3. Fits(0, 0, Cardinality(S), l + 1, r)
  BY <1>1, <1>2, FitsLost
<1> QED
  BY <1>1, <1>2, <1>3 DEF Accounts

\* The next life of the process starts with an empty bucket.
LEMMA AccountsCrash ==
  ASSUME NEW n \in Nat, NEW t \in 0..Window, NEW S, NEW l \in Nat, NEW w \in [Ages -> Nat],
         NEW b \in [Ages -> Nat], NEW x \in Nat, Accounts(n, t, S, l, w, b, x)
  PROVE  Accounts(n, t, {}, l, w, NoWrites, x + 1)
<1>1. {} \in SUBSET S
  OBVIOUS
<1>2. Accounts(n, t, {}, l, w, b, x)
  BY <1>1, AccountsFewer
<1>3. PICK r \in [Ages -> Nat], o \in [Ages -> Nat] :
        /\ \A a \in Ages : w[a] = r[a] + b[a] + o[a]
        /\ Fits(n, t, Cardinality({}), l, r)
        /\ Total(o) <= Limit * x
  BY <1>2 DEF Accounts
<1> DEFINE u == [a \in Ages |-> b[a] + o[a]]
<1>4. u \in [Ages -> Nat] /\ \A a \in Ages : u[a] = b[a] + o[a]
  OBVIOUS
<1> HIDE DEF u
<1>5. \A a \in Ages : w[a] = r[a] + NoWrites[a] + u[a]
  BY <1>3, <1>4 DEF NoWrites
<1>6. Total(u) <= Limit * (x + 1)
  <2>1. Sum(u, Ages) = Sum(b, Ages) + Sum(o, Ages)
    BY <1>4, SumOfSums
  <2>2. Total(u) = Sum(u, Ages) /\ Total(o) = Sum(o, Ages) /\ Total(b) = Sum(b, Ages)
    BY <1>4 DEF Total, FoldFunction, Sum
  <2>3. Total(b) \in Nat /\ Total(o) \in Nat /\ Total(b) <= Limit /\ Total(o) <= Limit * x
    BY <1>3, TotalFact DEF Accounts
  <2>4. Limit \in Nat /\ Limit * x \in Nat /\ Limit * (x + 1) = Limit * x + Limit
    BY LimitTimes
  <2> QED
    BY <2>1, <2>2, <2>3, <2>4
<1>7. Total(NoWrites) <= Limit /\ IsFiniteSet({})
  BY TotalFact, NoWritesType, GatewayOK, FS_EmptySet
<1> QED
  BY <1>3, <1>4, <1>5, <1>6, <1>7 DEF Accounts

\* Calls between INCR and EXPIRE, of a key.
Starting(k) == {c \in Slots : calls[c].phase = "expire" /\ calls[c].req.key = k}

Account(k) ==
  Accounts(count[k], ttl[k], Starting(k), losses, written[k], bucket[k], crashes)

\* Nothing is lost, and the memory not used, without a fault.
NoFault ==
  faults = 0 => /\ redis = "up" /\ losses = 0 /\ crashes = 0
                /\ \A k \in Keys : Total(bucket[k]) = 0

Books == NoFault /\ \A k \in Keys : Account(k)

LEMMA KeyTypes ==
  ASSUME IInv, NEW k \in Keys
  PROVE  /\ count[k] \in Nat /\ ttl[k] \in 0..Window /\ losses \in Nat /\ crashes \in Nat
         /\ written[k] \in [Ages -> Nat] /\ bucket[k] \in [Ages -> Nat]
BY DEF IInv, TypeOK

LEMMA StartingAfter ==
  ASSUME IInv, NEW c \in Slots, NEW x, calls' = [calls EXCEPT ![c] = x], NEW k
  PROVE  /\ Starting(k)' = IF x.phase = "expire" /\ x.req.key = k THEN Starting(k) \cup {c}
                           ELSE Starting(k) \ {c}
         /\ calls[c].phase # "expire" => c \notin Starting(k)
<1>1. calls \in [Slots -> Calls]
  BY DEF IInv, TypeOK
<1>2. calls'[c] = x /\ \A d \in Slots \ {c} : calls'[d] = calls[d]
  BY <1>1
<1> QED
  BY <1>2 DEF Starting

\* A call that is let through or refused by the limit does not wait any more.
LEMMA Leaves ==
  ASSUME IInv, NEW c \in Slots, calls[c].phase \in {"count", "expire"},
         Pass(c) \/ TooMany(c), NEW k
  PROVE  Starting(k)' = Starting(k) \ {c}
<1>1. calls[c] \in Calls /\ calls[c] # Idle
  BY Waiting DEF IInv, TypeOK
<1>2. CASE Pass(c)
  <2> DEFINE x == [calls[c] EXCEPT !.phase = "run"]
  <2>1. calls' = [calls EXCEPT ![c] = x]
    BY <1>2 DEF Pass
  <2>2. x.phase = "run"
    BY <1>1, CallFields DEF In
  <2> HIDE DEF x
  <2> QED
    BY <2>1, <2>2, StartingAfter
<1>3. CASE TooMany(c)
  <2>1. calls' = [calls EXCEPT ![c] = Idle]
    BY <1>3 DEF TooMany
  <2> QED
    BY <2>1, StartingAfter, IdleIsCall
<1> QED
  BY <1>2, <1>3

LEMMA Writes ==
  ASSUME IInv, NEW c \in Slots, calls[c].phase \in {"count", "expire"}
  PROVE  /\ Pass(c) => /\ written'[calls[c].req.key] = More(written[calls[c].req.key])
                       /\ \A j \in Keys \ {calls[c].req.key} : written'[j] = written[j]
         /\ TooMany(c) => written' = written
<1>1. calls[c].req.key \in Keys /\ written \in [Keys -> [Ages -> Nat]]
  BY Waiting DEF IInv, TypeOK
<1> QED
  BY <1>1 DEF Pass, TooMany, More

\* Keys that a step does not concern.
LEMMA AccountKept ==
  ASSUME IInv, NEW k \in Keys, Account(k), (Starting(k))' \subseteq Starting(k),
         count'[k] = count[k], ttl'[k] = ttl[k], losses' = losses, crashes' = crashes,
         written'[k] = written[k], bucket'[k] = bucket[k]
  PROVE  Account(k)'
<1> DEFINE s == (Starting(k))'
<1>1. s \in SUBSET Starting(k)
  OBVIOUS
<1>2. Accounts(count[k], ttl[k], s, losses, written[k], bucket[k], crashes)
  BY <1>1, KeyTypes, AccountsFewer DEF Account
<1> QED
  BY <1>2 DEF Account

\* The check in the memory, after a counter that may have been raised.
LEMMA MemoryAccounts ==
  ASSUME IInv, NEW c \in Slots, calls[c].phase \in {"count", "expire"}, MemoryCheck(c),
         NEW k \in Keys, NEW n \in Nat,
         Accounts(n, ttl[k], Starting(k), losses, written[k], bucket[k], crashes)
  PROVE  Accounts(n, ttl[k], (Starting(k))', losses, written'[k], bucket'[k], crashes)
<1> DEFINE s == (Starting(k))'
<1>1. s \in SUBSET Starting(k)
  <2>1. Pass(c) \/ TooMany(c)
    BY Remembers
  <2> QED
    BY <2>1, Leaves
<1>2. Accounts(n, ttl[k], s, losses, written[k], bucket[k], crashes)
  BY <1>1, KeyTypes, AccountsFewer
<1> HIDE DEF s
<1>3. CASE Room(calls[c].req.key)
  <2>1. Pass(c) /\ bucket' = [bucket EXCEPT ![calls[c].req.key][0] = @ + 1]
    BY <1>3 DEF MemoryCheck
  <2>2. CASE k = calls[c].req.key
    <3>1. written'[k] = More(written[k])
      BY <2>1, <2>2, Writes
    <3>2. bucket'[k] = More(bucket[k])
      BY <2>1, <2>2 DEF More, IInv, TypeOK
    <3>3. Total(bucket[k]) < Limit
      BY <1>3, <2>2 DEF Room
    <3>4. Accounts(n, ttl[k], s, losses, More(written[k]), More(bucket[k]), crashes)
      BY <1>2, <3>3, KeyTypes, AccountsRemember
    <3> QED
      BY <3>1, <3>2, <3>4 DEF s
  <2>3. CASE k # calls[c].req.key
    <3>1. written'[k] = written[k] /\ bucket'[k] = bucket[k]
      BY <2>1, <2>3, Writes, Remembers
    <3> QED
      BY <1>2, <3>1 DEF s
  <2> QED
    BY <2>2, <2>3
<1>4. CASE ~Room(calls[c].req.key)
  <2>1. written' = written /\ bucket' = bucket
    BY <1>4, Writes DEF MemoryCheck
  <2> QED
    BY <1>2, <2>1 DEF s
<1> QED
  BY <1>3, <1>4

LEMMA StartBooks == Init => Books
<1> SUFFICES ASSUME Init PROVE Books
  OBVIOUS
<1>1. NoFault
  BY TotalFact, NoWritesType DEF Init, NoFault
<1>2. ASSUME NEW k \in Keys
      PROVE  Account(k)
  <2>1. Starting(k) = {}
    BY IdleIsCall DEF Init, Starting
  <2>2. count[k] = 0 /\ ttl[k] = 0 /\ losses = 0 /\ written[k] = NoWrites /\ bucket[k] = NoWrites /\ crashes = 0
    BY DEF Init
  <2>3. NoWrites \in [Ages -> Nat] /\ Total(NoWrites) = 0 /\ Last(NoWrites, Window) = 0
    BY TotalFact, NoWritesType, LastFact
  <2>4. \A a \in Ages : NoWrites[a] = NoWrites[a] + NoWrites[a] + NoWrites[a]
    BY DEF NoWrites
  <2>5. /\ Limit \in Nat /\ Limit > 0 /\ Limit * 0 \in Nat
        /\ IsFiniteSet({}) /\ Cardinality({}) = 0 /\ Capped(0) = 0
    BY LimitTimes, FS_EmptySet DEF Capped
  <2>6. Fits(0, 0, 0, 0, NoWrites)
    BY <2>3, <2>5 DEF Fits
  <2>7. Accounts(0, 0, {}, 0, NoWrites, NoWrites, 0)
    BY <2>3, <2>4, <2>5, <2>6 DEF Accounts
  <2> QED
    BY <2>1, <2>2, <2>7 DEF Account
<1> QED
  BY <1>1, <1>2 DEF Books

LEMMA IncrBooks ==
  ASSUME IInv, Books, NEW c \in Slots, Incr(c)
  PROVE  Books'
<1>1. /\ calls[c].phase = "count"
      /\ UNCHANGED <<redis, ttl, bucket, faults, crashes, losses>>
  BY DEF Incr
<1>2. PICK k \in Keys : k = calls[c].req.key
  BY <1>1, Waiting
<1> DEFINE n == count[k] + 1
<1>3. /\ count'[k] = n /\ \A j \in Keys \ {k} : count'[j] = count[j]
      /\ count[k] \in Nat
  BY <1>2 DEF Incr, IInv, TypeOK
<1>4. NoFault'
  BY <1>1 DEF Books, NoFault
<1>5. CASE SetsExpiry(n)
  <2> DEFINE x == [calls[c] EXCEPT !.phase = "expire"]
  <2>1. calls' = [calls EXCEPT ![c] = x] /\ written' = written
    BY <1>2, <1>5 DEF Incr
  <2>2. x.phase = "expire" /\ x.req.key = k
    <3>1. calls[c] \in Calls /\ calls[c] # Idle
      BY <1>1, Waiting DEF IInv, TypeOK
    <3> QED
      BY <1>2, <3>1, CallFields DEF In
  <2>3. count[k] = 0 /\ n = 1
    BY <1>3, <1>5 DEF SetsExpiry
  <2> HIDE DEF x
  <2>4. ASSUME NEW j \in Keys, j # k
        PROVE  Account(j)'
    <3>1. Starting(j)' = Starting(j) \ {c}
      BY <2>1, <2>2, <2>4, StartingAfter
    <3> QED
      BY <1>1, <1>3, <2>1, <2>4, <3>1, AccountKept DEF Books
  <2>5. Account(k)'
    <3>1. Starting(k)' = Starting(k) \cup {c} /\ c \notin Starting(k)
      BY <1>1, <2>1, <2>2, StartingAfter
    <3>2. Accounts(0, ttl[k], Starting(k), losses, written[k], bucket[k], crashes)
      BY <1>2, <2>3 DEF Books, Account
    <3>3. Accounts(1, ttl[k], Starting(k) \cup {c}, losses, written[k], bucket[k], crashes)
      BY <1>2, <3>1, <3>2, KeyTypes, AccountsFirst
    <3> QED
      BY <1>1, <1>3, <2>1, <2>3, <3>1, <3>3 DEF Account
  <2> QED
    BY <1>4, <2>4, <2>5 DEF Books
<1>6. CASE ~SetsExpiry(n)
  <2>1. (n <= Limit /\ Pass(c)) \/ (~(n <= Limit) /\ TooMany(c))
    BY <1>2, <1>6 DEF Incr
  <2>2. \A j : Starting(j)' = Starting(j) \ {c}
    BY <1>1, <2>1, Leaves
  <2>3. ASSUME NEW j \in Keys, j # k
        PROVE  Account(j)'
    <3>1. written'[j] = written[j]
      BY <1>1, <1>2, <2>1, <2>3, Writes
    <3> QED
      BY <1>1, <1>3, <2>2, <2>3, <3>1, AccountKept DEF Books
  <2>4. Account(k)'
    <3> DEFINE s == Starting(k) \ {c}
    <3>1. s \in SUBSET Starting(k) /\ (Starting(k))' = s
      BY <2>2
    <3>2. Accounts(count[k], ttl[k], s, losses, written[k], bucket[k], crashes)
      BY <1>2, <3>1, KeyTypes, AccountsFewer DEF Books, Account
    <3> HIDE DEF s
    <3>3. count[k] > 0
      BY <1>3, <1>6 DEF SetsExpiry
    <3>4. CASE n <= Limit /\ Pass(c)
      <4>1. Accounts(n, ttl[k], s, losses, More(written[k]), bucket[k], crashes)
        BY <1>2, <3>2, <3>3, <3>4, KeyTypes, AccountsCounted
      <4>2. written'[k] = More(written[k])
        BY <1>1, <1>2, <3>4, Writes
      <4> QED
        BY <1>1, <1>3, <3>1, <4>1, <4>2 DEF Account
    <3>5. CASE TooMany(c)
      <4>1. Accounts(n, ttl[k], s, losses, written[k], bucket[k], crashes)
        BY <1>2, <3>2, KeyTypes, AccountsRefused
      <4>2. written' = written
        BY <3>5 DEF TooMany
      <4> QED
        BY <1>1, <1>3, <3>1, <4>1, <4>2 DEF Account
    <3> QED
      BY <2>1, <3>4, <3>5
  <2> QED
    BY <1>4, <2>3, <2>4 DEF Books
<1> QED
  BY <1>5, <1>6

LEMMA ExpireBooks ==
  ASSUME IInv, Books, NEW c \in Slots, Expire(c)
  PROVE  Books'
<1>1. /\ calls[c].phase = "expire"
      /\ UNCHANGED <<redis, count, bucket, faults, crashes, losses>>
  BY DEF Expire
<1>2. PICK k \in Keys : k = calls[c].req.key
  BY <1>1, Waiting
<1>3. /\ ttl'[k] = (IF count[k] = 0 THEN 0 ELSE Window)
      /\ \A j \in Keys \ {k} : ttl'[j] = ttl[j]
  BY <1>2 DEF Expire, IInv, TypeOK
<1>4. Pass(c)
  BY GatewayOK DEF Expire
<1>5. \A j : Starting(j)' = Starting(j) \ {c}
  BY <1>1, <1>4, Leaves
<1>6. NoFault'
  BY <1>1 DEF Books, NoFault
<1>7. ASSUME NEW j \in Keys, j # k
      PROVE  Account(j)'
  <2>1. written'[j] = written[j]
    BY <1>1, <1>2, <1>4, <1>7, Writes
  <2> QED
    BY <1>1, <1>3, <1>5, <1>7, <2>1, AccountKept DEF Books
<1>8. Account(k)'
  <2>1. c \in Starting(k)
    BY <1>1, <1>2 DEF Starting
  <2>2. Accounts(count[k], ttl[k], Starting(k), losses, written[k], bucket[k], crashes)
    BY <1>2 DEF Books, Account
  <2>3. Accounts(count[k], IF count[k] = 0 THEN 0 ELSE Window, Starting(k) \ {c}, losses,
                 More(written[k]), bucket[k], crashes)
    BY <1>2, <2>1, <2>2, KeyTypes, AccountsExpire
  <2>4. written'[k] = More(written[k])
    BY <1>1, <1>2, <1>4, Writes
  <2> QED
    BY <1>1, <1>3, <1>5, <2>3, <2>4 DEF Account
<1> QED
  BY <1>6, <1>7, <1>8 DEF Books

LEMMA UnreachableBooks ==
  ASSUME IInv, Books, NEW c \in Slots, Unreachable(c)
  PROVE  Books'
<1>1. /\ calls[c].phase \in {"count", "expire"} /\ redis = "down" /\ MemoryCheck(c)
      /\ UNCHANGED <<redis, count, ttl, faults, crashes, losses>>
  BY DEF Unreachable
<1>2. NoFault'
  BY <1>1 DEF Books, NoFault
<1>3. ASSUME NEW k \in Keys
      PROVE  Account(k)'
  <2>1. Accounts(count[k], ttl[k], (Starting(k))', losses, written'[k], bucket'[k], crashes)
    BY <1>1, KeyTypes, MemoryAccounts DEF Books, Account
  <2> QED
    BY <1>1, <2>1 DEF Account
<1> QED
  BY <1>2, <1>3 DEF Books

LEMMA IncrUnansweredBooks ==
  ASSUME IInv, Books, NEW c \in Slots, IncrUnanswered(c)
  PROVE  Books'
<1> DEFINE k == calls[c].req.key
<1>1. /\ calls[c].phase = "count" /\ MemoryCheck(c)
      /\ count' = [count EXCEPT ![k] = @ + 1] /\ faults' = faults + 1
      /\ UNCHANGED <<redis, ttl, crashes, losses>>
  BY DEF IncrUnanswered
<1>2. k \in Keys
  BY <1>1, Waiting
<1>3. count'[k] = count[k] + 1 /\ \A j \in Keys \ {k} : count'[j] = count[j]
  BY <1>1, <1>2 DEF IInv, TypeOK
<1>4. NoFault'
  <2>1. faults' # 0
    BY <1>1 DEF IInv, TypeOK
  <2> QED
    BY <2>1 DEF NoFault
<1>5. ASSUME NEW j \in Keys
      PROVE  Account(j)'
  <2>1. Accounts(count[j], ttl[j], Starting(j), losses, written[j], bucket[j], crashes)
    BY DEF Books, Account
  <2>2. Accounts(count[j] + 1, ttl[j], Starting(j), losses, written[j], bucket[j], crashes)
    BY <2>1, KeyTypes, AccountsRefused
  <2>3. count'[j] \in Nat /\ count'[j] \in {count[j], count[j] + 1}
    BY <1>3, KeyTypes
  <2>4. Accounts(count'[j], ttl[j], Starting(j), losses, written[j], bucket[j], crashes)
    BY <2>1, <2>2, <2>3
  <2>5. Accounts(count'[j], ttl[j], (Starting(j))', losses, written'[j], bucket'[j], crashes)
    BY <1>1, <2>3, <2>4, MemoryAccounts
  <2> QED
    BY <1>1, <2>5 DEF Account
<1> QED
  BY <1>4, <1>5 DEF Books

LEMMA TickBooks ==
  ASSUME IInv, Books, Tick
  PROVE  Books'
<1>1. UNCHANGED <<calls, redis, faults, crashes, losses>>
  BY DEF Tick
<1>2. ASSUME NEW k \in Keys
      PROVE  /\ count'[k] = (IF ttl[k] = 1 THEN 0 ELSE count[k])
             /\ ttl'[k] = (IF ttl[k] = 0 THEN 0 ELSE ttl[k] - 1)
             /\ bucket'[k] = Older(bucket[k]) /\ written'[k] = Older(written[k])
  BY DEF Tick
<1>3. NoFault'
  <2>1. ASSUME NEW k \in Keys, Total(bucket[k]) = 0
        PROVE  Total(Older(bucket[k])) = 0
    <3>1. Total(Older(bucket[k])) \in Nat /\ Total(Older(bucket[k])) <= 0
      BY <2>1, KeyTypes, TotalFact
    <3> QED
      BY <3>1
  <2>2. \A k \in Keys : Total(bucket[k]) = 0 => Total(bucket'[k]) = 0
    BY <1>2, <2>1
  <2> QED
    BY <1>1, <2>2 DEF Books, NoFault
<1>4. ASSUME NEW k \in Keys
      PROVE  Account(k)'
  <2>1. Starting(k)' = Starting(k)
    BY <1>1 DEF Starting
  <2>2. Accounts(count[k], ttl[k], Starting(k), losses, written[k], bucket[k], crashes)
    BY DEF Books, Account
  <2>3. Accounts(IF ttl[k] = 1 THEN 0 ELSE count[k], IF ttl[k] = 0 THEN 0 ELSE ttl[k] - 1,
                 Starting(k), losses, Older(written[k]), Older(bucket[k]), crashes)
    BY <2>2, KeyTypes, AccountsTick
  <2> QED
    BY <1>1, <1>2, <2>1, <2>3 DEF Account
<1> QED
  BY <1>3, <1>4 DEF Books

LEMMA RedisEmptyBooks ==
  ASSUME IInv, Books, RedisEmpty
  PROVE  Books'
<1>1. /\ count' = [k \in Keys |-> 0] /\ ttl' = [k \in Keys |-> 0]
      /\ faults' = faults + 1 /\ losses' = losses + 1
      /\ UNCHANGED <<calls, bucket, written, crashes>>
  BY DEF RedisEmpty
<1>2. NoFault'
  <2>1. faults' # 0
    BY <1>1 DEF IInv, TypeOK
  <2> QED
    BY <2>1 DEF NoFault
<1>3. ASSUME NEW k \in Keys
      PROVE  Account(k)'
  <2>1. Starting(k)' = Starting(k) /\ count'[k] = 0 /\ ttl'[k] = 0
    BY <1>1 DEF Starting
  <2>2. Accounts(0, 0, Starting(k), losses + 1, written[k], bucket[k], crashes)
    BY KeyTypes, AccountsLost DEF Books, Account
  <2> QED
    BY <1>1, <2>1, <2>2 DEF Account
<1> QED
  BY <1>2, <1>3 DEF Books

LEMMA CrashBooks ==
  ASSUME IInv, Books, Crash
  PROVE  Books'
<1>1. /\ calls' = [c \in Slots |-> Idle] /\ bucket' = [k \in Keys |-> NoWrites]
      /\ faults' = faults + 1 /\ crashes' = crashes + 1
      /\ UNCHANGED <<count, ttl, written, losses>>
  BY DEF Crash
<1>2. NoFault'
  <2>1. faults' # 0
    BY <1>1 DEF IInv, TypeOK
  <2> QED
    BY <2>1 DEF NoFault
<1>3. ASSUME NEW k \in Keys
      PROVE  Account(k)'
  <2>1. Starting(k)' = {} /\ bucket'[k] = NoWrites
    BY <1>1, IdleIsCall DEF Starting
  <2>2. Accounts(count[k], ttl[k], {}, losses, written[k], NoWrites, crashes + 1)
    BY KeyTypes, AccountsCrash DEF Books, Account
  <2> QED
    BY <1>1, <2>1, <2>2 DEF Account
<1> QED
  BY <1>2, <1>3 DEF Books

\* Steps that neither count, nor write, nor let time pass.
LEMMA OtherBooks ==
  ASSUME IInv, Books,
         \/ \E c \in Slots, r \in Requests : Arrive(c, r) \/ Refuse(c, r)
         \/ \E c \in Slots : Run(c)
         \/ \E k \in Keys : Revoke(k)
         \/ RedisDown
         \/ RedisBack
         \/ UNCHANGED vars
  PROVE  Books'
<1>1. UNCHANGED stores /\ UNCHANGED <<crashes, losses>>
  BY DEF Arrive, Refuse, Run, Revoke, RedisDown, RedisBack, vars
<1>2. NoFault'
  <2>1. faults' = 0 => faults = 0 /\ (redis = "up" => redis' = "up")
    BY DEF Arrive, Refuse, Run, Revoke, RedisDown, RedisBack, vars, IInv, TypeOK
  <2> QED
    BY <1>1, <2>1 DEF Books, NoFault, stores
<1>3. ASSUME NEW k \in Keys
      PROVE  Starting(k)' \subseteq Starting(k)
  <2>1. CASE calls' = calls
    BY <2>1 DEF Starting
  <2>2. ASSUME NEW c \in Slots, NEW r \in Requests, Arrive(c, r)
        PROVE  Starting(k)' \subseteq Starting(k)
    <3>1. PICK p \in {"count", "run"} : calls' = [calls EXCEPT ![c] = In(p, r)]
      BY <2>2 DEF Arrive
    <3> DEFINE x == In(p, r)
    <3>2. x.phase # "expire"
      BY <3>1, CallMade
    <3>3. calls' = [calls EXCEPT ![c] = x]
      BY <3>1
    <3> HIDE DEF x
    <3>4. Starting(k)' = Starting(k) \ {c}
      BY <3>2, <3>3, StartingAfter
    <3> QED
      BY <3>4
  <2>3. ASSUME NEW c \in Slots, Run(c)
        PROVE  Starting(k)' \subseteq Starting(k)
    <3>1. calls' = [calls EXCEPT ![c] = Idle]
      BY <2>3 DEF Run
    <3>2. Starting(k)' = Starting(k) \ {c}
      BY <3>1, StartingAfter, IdleIsCall
    <3> QED
      BY <3>2
  <2> QED
    BY <2>1, <2>2, <2>3 DEF Refuse, Revoke, RedisDown, RedisBack, vars
<1>4. ASSUME NEW k \in Keys
      PROVE  Account(k)'
  BY <1>1, <1>3, AccountKept DEF Books, stores
<1> QED
  BY <1>2, <1>4 DEF Books

LEMMA BooksStep == IInv /\ Books /\ [Next]_vars => Books'
<1> SUFFICES ASSUME IInv, Books, [Next]_vars PROVE Books'
  OBVIOUS
<1>1. ASSUME NEW c \in Slots, NEW r \in Requests, Arrive(c, r) \/ Refuse(c, r)
      PROVE  Books'
  BY <1>1, OtherBooks
<1>2. ASSUME NEW c \in Slots, Incr(c) \/ Expire(c) \/ Unreachable(c) \/ IncrUnanswered(c) \/ Run(c)
      PROVE  Books'
  BY <1>2, IncrBooks, ExpireBooks, UnreachableBooks, IncrUnansweredBooks, OtherBooks
<1> QED
  BY <1>1, <1>2, TickBooks, RedisEmptyBooks, CrashBooks, OtherBooks DEF Next

LEMMA BooksBound == IInv /\ Books => AnyMinute
<1> SUFFICES ASSUME IInv, Books, NEW k \in Keys
             PROVE  Total(written[k]) <= IF faults = 0 THEN 2 * Limit - 1
                                         ELSE Limit * (3 + losses + crashes) - 1
  BY DEF AnyMinute
<1>1. /\ Total(written[k]) <= (((2 * Limit - 1) + Limit * losses) + Limit * crashes) + Total(bucket[k])
      /\ Total(bucket[k]) <= Limit
  BY KeyTypes, AccountsBound DEF Books, Account
<1>2. /\ Total(written[k]) \in Nat /\ Total(bucket[k]) \in Nat
      /\ losses \in Nat /\ crashes \in Nat /\ Limit \in Nat
  BY KeyTypes, TotalFact, GatewayOK
<1>3. CASE faults = 0
  <2>1. losses = 0 /\ crashes = 0 /\ Total(bucket[k]) = 0
    BY <1>3 DEF Books, NoFault
  <2>2. Limit * 0 = 0
    BY <1>2
  <2> QED
    BY <1>1, <1>2, <1>3, <2>1, <2>2
<1>4. CASE faults # 0
  <2>1. /\ Limit * (3 + losses + crashes) = (3 * Limit + Limit * losses) + Limit * crashes
        /\ Limit * losses \in Nat /\ Limit * crashes \in Nat
    BY <1>2
  <2> QED
    BY <1>1, <1>2, <1>4, <2>1
<1> QED
  BY <1>3, <1>4

\* In any minute a key writes less than twice its limit - the last writes of
\* one counter and the first of the next - and after faults no more than what
\* Redis without its data and new processes with empty buckets add.
THEOREM AnyMinuteHolds == Spec => []AnyMinute
<1>1. Init => IInv /\ Books
  BY Start, StartBooks
<1>2. IInv /\ Books /\ [Next]_vars => (IInv /\ Books)'
  BY Step, BooksStep
<1> QED
  BY <1>1, <1>2, BooksBound, PTL DEF Spec

-----------------------------------------------------------------------------
(* Counters end.                                                           *)

\* A counter of Redis runs down, or a call is about to set its expiry, or a
\* fault between INCR and EXPIRE left it without one.
Ending(k) == count[k] > 0 => ttl[k] > 0 \/ k \in orphaned \/ Starting(k) # {}

CountersEnd == \A k \in Keys : Ending(k)

\* Keys whose counter a step leaves alone.
LEMMA EndingKept ==
  ASSUME NEW k, Ending(k), count'[k] = count[k], ttl'[k] = ttl[k],
         k \in orphaned => k \in orphaned', Starting(k) \subseteq (Starting(k))'
  PROVE  Ending(k)'
BY DEF Ending

\* A call that leaves the limiter leaves the counters of the other keys alone.
LEMMA OthersStart ==
  ASSUME IInv, NEW c \in Slots, calls[c].phase \in {"count", "expire"},
         Pass(c) \/ TooMany(c), NEW k,
         calls[c].phase = "count" \/ calls[c].req.key # k
  PROVE  Starting(k) \subseteq (Starting(k))'
<1>1. Starting(k)' = Starting(k) \ {c}
  BY Leaves
<1>2. c \notin Starting(k)
  BY DEF Starting
<1> QED
  BY <1>1, <1>2

LEMMA IncrEnds ==
  ASSUME IInv, CountersEnd, NEW c \in Slots, Incr(c)
  PROVE  CountersEnd'
<1>1. PICK k \in Keys : k = calls[c].req.key
  BY Waiting DEF Incr
<1>2. /\ calls[c].phase = "count"
      /\ count' = [count EXCEPT ![k] = count[k] + 1]
      /\ IF SetsExpiry(count[k] + 1) THEN calls' = [calls EXCEPT ![c].phase = "expire"]
                                     ELSE Pass(c) \/ TooMany(c)
      /\ UNCHANGED <<ttl, orphaned>>
  BY <1>1 DEF Incr
<1>3. /\ count \in [Keys -> Nat]
      /\ calls[c] # Idle /\ calls[c] \in Calls
  BY <1>2, Waiting DEF IInv, TypeOK
<1>4. ASSUME NEW j \in Keys
      PROVE  /\ Starting(j) \subseteq (Starting(j))'
             /\ SetsExpiry(count[k] + 1) /\ j = k => c \in (Starting(j))'
  <2>1. CASE SetsExpiry(count[k] + 1)
    <3> DEFINE x == [calls[c] EXCEPT !.phase = "expire"]
    <3>1. calls' = [calls EXCEPT ![c] = x]
      BY <1>2, <2>1
    <3>2. x.phase = "expire" /\ x.req.key = k
      BY <1>1, <1>3, CallFields DEF In
    <3> HIDE DEF x
    <3>3. Starting(j)' = IF x.phase = "expire" /\ x.req.key = j THEN Starting(j) \cup {c}
                         ELSE Starting(j) \ {c}
      BY <3>1, StartingAfter
    <3>4. c \notin Starting(j)
      BY <1>2 DEF Starting
    <3> QED
      BY <3>2, <3>3, <3>4
  <2>2. CASE ~SetsExpiry(count[k] + 1)
    BY <1>2, <2>2, OthersStart
  <2> QED
    BY <2>1, <2>2
<1>5. ASSUME NEW j \in Keys, j # k
      PROVE  Ending(j)'
  <2>1. count'[j] = count[j]
    BY <1>2, <1>3, <1>5
  <2> QED
    BY <1>2, <1>4, <2>1, EndingKept DEF CountersEnd
<1>6. Ending(k)'
  <2>1. CASE count[k] = 0
    <3>1. SetsExpiry(count[k] + 1)
      BY <2>1 DEF SetsExpiry
    <3> QED
      BY <1>4, <3>1 DEF Ending
  <2>2. CASE count[k] # 0
    <3>1. ttl[k] > 0 \/ k \in orphaned \/ Starting(k) # {}
      BY <1>3, <2>2 DEF CountersEnd, Ending
    <3> QED
      BY <1>2, <1>4, <3>1 DEF Ending
  <2> QED
    BY <2>1, <2>2
<1> QED
  BY <1>5, <1>6 DEF CountersEnd

LEMMA ExpireEnds ==
  ASSUME IInv, CountersEnd, NEW c \in Slots, Expire(c)
  PROVE  CountersEnd'
<1>1. PICK k \in Keys : k = calls[c].req.key
  BY Waiting DEF Expire
<1>2. /\ calls[c].phase = "expire"
      /\ Pass(c) \/ TooMany(c)
      /\ ttl' = [ttl EXCEPT ![k] = IF count[k] = 0 THEN 0 ELSE Window]
      /\ UNCHANGED <<count, orphaned>>
  BY <1>1 DEF Expire
<1>3. count[k] \in Nat /\ ttl \in [Keys -> 0..Window] /\ Window > 0
  BY GatewayOK DEF IInv, TypeOK
<1>4. Ending(k)'
  BY <1>2, <1>3 DEF Ending
<1>5. ASSUME NEW j \in Keys, j # k
      PROVE  Ending(j)'
  <2>1. Starting(j) \subseteq (Starting(j))'
    BY <1>1, <1>2, <1>5, OthersStart
  <2>2. ttl'[j] = ttl[j]
    BY <1>2, <1>3, <1>5
  <2> QED
    BY <1>2, <2>1, <2>2, EndingKept DEF CountersEnd
<1> QED
  BY <1>4, <1>5 DEF CountersEnd

LEMMA UnreachableEnds ==
  ASSUME IInv, CountersEnd, NEW c \in Slots, Unreachable(c)
  PROVE  CountersEnd'
<1>1. PICK k \in Keys : k = calls[c].req.key
  BY Waiting DEF Unreachable
<1>2. /\ calls[c].phase \in {"count", "expire"}
      /\ Pass(c) \/ TooMany(c)
      /\ UNCHANGED <<count, ttl>>
      /\ orphaned' = IF calls[c].phase = "expire" THEN orphaned \cup WithoutExpiry({k})
                     ELSE orphaned
  BY <1>1, Remembers DEF Unreachable
<1>3. ASSUME NEW j \in Keys, calls[c].phase = "count" \/ j # k
      PROVE  Ending(j)'
  <2>1. Starting(j) \subseteq (Starting(j))'
    BY <1>1, <1>2, <1>3, OthersStart
  <2> QED
    BY <1>2, <2>1, EndingKept DEF CountersEnd
<1>4. CASE calls[c].phase = "expire"
  <2>1. ttl[k] \in Nat
    BY DEF IInv, TypeOK
  <2>2. count[k] > 0 /\ ~(ttl[k] > 0) => k \in orphaned'
    BY <1>2, <1>4, <2>1 DEF WithoutExpiry
  <2>3. Ending(k)'
    BY <1>2, <2>2 DEF Ending
  <2> QED
    BY <1>3, <2>3 DEF CountersEnd
<1> QED
  BY <1>2, <1>3, <1>4 DEF CountersEnd

LEMMA IncrUnansweredEnds ==
  ASSUME IInv, CountersEnd, NEW c \in Slots, IncrUnanswered(c)
  PROVE  CountersEnd'
<1>1. PICK k \in Keys : k = calls[c].req.key
  BY Waiting DEF IncrUnanswered
<1>2. /\ calls[c].phase = "count"
      /\ Pass(c) \/ TooMany(c)
      /\ count' = [count EXCEPT ![k] = count[k] + 1]
      /\ UNCHANGED ttl
      /\ orphaned' = IF count[k] = 0 THEN orphaned \cup {k} ELSE orphaned
  BY <1>1, Remembers DEF IncrUnanswered
<1>3. count \in [Keys -> Nat]
  BY DEF IInv, TypeOK
<1>4. ASSUME NEW j \in Keys
      PROVE  Starting(j) \subseteq (Starting(j))'
  BY <1>2, OthersStart
<1>5. ASSUME NEW j \in Keys, j # k
      PROVE  Ending(j)'
  <2>1. count'[j] = count[j]
    BY <1>2, <1>3, <1>5
  <2> QED
    BY <1>2, <1>4, <2>1, EndingKept DEF CountersEnd
<1>6. Ending(k)'
  <2>1. CASE count[k] = 0
    BY <1>2, <2>1 DEF Ending
  <2>2. CASE count[k] # 0
    <3>1. ttl[k] > 0 \/ k \in orphaned \/ Starting(k) # {}
      BY <1>3, <2>2 DEF CountersEnd, Ending
    <3> QED
      BY <1>2, <1>4, <2>2, <3>1 DEF Ending
  <2> QED
    BY <2>1, <2>2
<1> QED
  BY <1>5, <1>6 DEF CountersEnd

LEMMA TickEnds ==
  ASSUME IInv, CountersEnd, Tick
  PROVE  CountersEnd'
<1> SUFFICES ASSUME NEW k \in Keys
             PROVE  Ending(k)'
  BY DEF CountersEnd
<1>1. /\ count'[k] = IF ttl[k] = 1 THEN 0 ELSE count[k]
      /\ ttl'[k] = IF ttl[k] = 0 THEN 0 ELSE ttl[k] - 1
      /\ orphaned' = orphaned /\ calls' = calls
  BY DEF Tick
<1>2. ttl[k] \in Nat
  BY DEF IInv, TypeOK
<1>3. Starting(k)' = Starting(k)
  BY <1>1 DEF Starting
<1>4. CASE ttl[k] = 1
  BY <1>1, <1>4 DEF Ending
<1>5. CASE ttl[k] = 0
  BY <1>1, <1>3, <1>5 DEF CountersEnd, Ending
<1>6. CASE ttl[k] > 1
  BY <1>1, <1>2, <1>6 DEF Ending
<1> QED
  BY <1>2, <1>4, <1>5, <1>6

LEMMA CrashEnds ==
  ASSUME IInv, CountersEnd, Crash
  PROVE  CountersEnd'
<1> SUFFICES ASSUME NEW k \in Keys
             PROVE  Ending(k)'
  BY DEF CountersEnd
<1>1. /\ UNCHANGED <<count, ttl>>
      /\ orphaned' = orphaned \cup WithoutExpiry({j \in Keys : Starting(j) # {}})
  BY DEF Crash, Starting
<1>2. ttl[k] \in Nat
  BY DEF IInv, TypeOK
<1>3. Ending(k)
  BY DEF CountersEnd
<1>4. count[k] > 0 /\ ~(ttl[k] > 0) => k \in orphaned'
  BY <1>1, <1>2, <1>3 DEF Ending, WithoutExpiry
<1> QED
  BY <1>1, <1>4 DEF Ending

\* Steps that leave the counters alone.
LEMMA OtherEnds ==
  ASSUME IInv, CountersEnd,
         \/ \E c \in Slots, r \in Requests : Arrive(c, r) \/ Refuse(c, r)
         \/ \E c \in Slots : Run(c)
         \/ \E k \in Keys : Revoke(k)
         \/ RedisDown
         \/ RedisBack
         \/ UNCHANGED vars
  PROVE  CountersEnd'
<1>1. UNCHANGED stores
  BY DEF Arrive, Refuse, Run, Revoke, RedisDown, RedisBack, vars
<1>2. ASSUME NEW k \in Keys
      PROVE  Starting(k) \subseteq (Starting(k))'
  <2>1. CASE calls' = calls
    BY <2>1 DEF Starting
  <2>2. ASSUME NEW c \in Slots, NEW x, calls' = [calls EXCEPT ![c] = x], calls[c].phase # "expire"
        PROVE  Starting(k) \subseteq (Starting(k))'
    <3>1. c \notin Starting(k)
      BY <2>2 DEF Starting
    <3>2. Starting(k)' = IF x.phase = "expire" /\ x.req.key = k THEN Starting(k) \cup {c}
                         ELSE Starting(k) \ {c}
      BY <2>2, StartingAfter
    <3> QED
      BY <3>1, <3>2
  <2>3. ASSUME NEW c \in Slots, NEW r \in Requests, Arrive(c, r)
        PROVE  Starting(k) \subseteq (Starting(k))'
    <3>1. calls[c].phase # "expire"
      BY <2>3, IdleIsCall DEF Arrive
    <3>2. PICK p : calls' = [calls EXCEPT ![c] = In(p, r)]
      BY <2>3 DEF Arrive
    <3> QED
      BY <2>2, <3>1, <3>2
  <2>4. ASSUME NEW c \in Slots, Run(c)
        PROVE  Starting(k) \subseteq (Starting(k))'
    <3>1. calls' = [calls EXCEPT ![c] = Idle] /\ calls[c].phase # "expire"
      BY <2>4 DEF Run
    <3> QED
      BY <2>2, <3>1
  <2> QED
    BY <2>1, <2>3, <2>4 DEF Refuse, Revoke, RedisDown, RedisBack, vars
<1> QED
  BY <1>1, <1>2, EndingKept DEF CountersEnd, stores

\* The safety half of KeyComesBack: no counter of Redis stays for ever but one
\* whose EXPIRE a fault cut off (incr_with_ttl of the rate limit).
THEOREM CountersEndHolds == Spec => []CountersEnd
<1>1. Init => IInv /\ CountersEnd
  BY Start DEF Init, CountersEnd, Ending
<1>2. IInv /\ CountersEnd /\ [Next]_vars => CountersEnd'
  <2> SUFFICES ASSUME IInv, CountersEnd, [Next]_vars PROVE CountersEnd'
    OBVIOUS
  <2>1. ASSUME NEW c \in Slots, NEW r \in Requests, Arrive(c, r) \/ Refuse(c, r)
        PROVE  CountersEnd'
    BY <2>1, OtherEnds
  <2>2. ASSUME NEW c \in Slots,
               Incr(c) \/ Expire(c) \/ Unreachable(c) \/ IncrUnanswered(c) \/ Run(c)
        PROVE  CountersEnd'
    BY <2>2, IncrEnds, ExpireEnds, UnreachableEnds, IncrUnansweredEnds, OtherEnds
  <2>3. CASE RedisEmpty
    BY <2>3 DEF RedisEmpty, CountersEnd, Ending
  <2> QED
    BY <2>1, <2>2, <2>3, TickEnds, CrashEnds, OtherEnds DEF Next
<1>3. IInv /\ [Next]_vars => IInv'
  BY Step
<1> QED
  BY <1>1, <1>2, <1>3, PTL DEF Spec
=============================================================================
