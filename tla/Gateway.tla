------------------------------ MODULE Gateway ------------------------------
(***************************************************************************)
(* ops/dispatch.py with the write rate limit of services/agent_actions.py: *)
(* calls of both faces are authenticated and authorised (OpsAccess), writes *)
(* are then counted in Redis - INCR, and for the first of a minute EXPIRE,  *)
(* two calls with other calls in between - or, while Redis does not answer, *)
(* in a sliding window in the memory of the process.  The handlers are the  *)
(* subject of AgentActions.                                                *)
(*                                                                         *)
(* Time is counted in Window ticks to the minute; counters hold the ticks   *)
(* they have left, records of writes their age.                            *)
(***************************************************************************)
EXTENDS OpsAccess, FiniteSets, Functions

CONSTANTS
  Slots,      \* calls that can be in progress at once
  Requests,   \* calls that come in
  Limit,      \* mcp_write_rate_limit_per_minute
  Window,     \* ticks of a minute
  MaxCount,   \* bound: writes counted by one Redis counter
  MaxFaults   \* bound: failing calls, outages, restarts, losses of Redis data

ASSUME GatewayOK ==
  /\ Limit \in Nat \ {0} /\ Window \in Nat \ {0} /\ MaxCount \in Nat /\ MaxFaults \in Nat
  /\ \A r \in Requests :
       /\ r.face \in {"rest", "mcp"}
       /\ r.key \in Keys \cup {NoKey}
       /\ r.house \in Houses \cup {NoHouse}
       /\ r.face = "rest" => r.house # NoHouse

VARIABLES
  open,      \* AUTH_REQUIRED = false, chosen once
  revoked,   \* keys taken back
  calls,     \* phase of each call in progress, with its request
  redis,     \* "up" or "down"
  count,     \* mcp:write_rate:<key> in Redis, 0 when there is none
  ttl,       \* ticks until it expires, 0 when no expiry is set
  bucket,    \* _inmem_write_rate: writes by age
  written,   \* writes let through, by age
  orphaned,  \* keys whose expiry a fault has swallowed
  faults, crashes, losses   \* so far; crashes and losses are faults, too

stores == <<count, ttl, bucket, written, orphaned>>
vars == <<open, revoked, calls, redis, stores, faults, crashes, losses>>

Ages == 0..(Window - 1)
NoWrites == [a \in Ages |-> 0]
Older(writes) == [a \in Ages |-> IF a = 0 THEN 0 ELSE writes[a - 1]]
Total(writes) == FoldFunction(+, 0, writes)

NoCall == "no call"
In(phase, r) == [phase |-> phase, req |-> r]
Idle == In("idle", NoCall)

Init ==
  /\ open \in BOOLEAN
  /\ revoked = {}
  /\ calls = [c \in Slots |-> Idle]
  /\ redis = "up"
  /\ count = [k \in Keys |-> 0]
  /\ ttl = [k \in Keys |-> 0]
  /\ bucket = [k \in Keys |-> NoWrites]
  /\ written = [k \in Keys |-> NoWrites]
  /\ orphaned = {}
  /\ faults = 0 /\ crashes = 0 /\ losses = 0

-----------------------------------------------------------------------------
(* A call.                                                                 *)

\* Writes of a key are counted; a server without authentication has no keys.
Limited(r) == ~open /\ r.op \in WriteOps

\* The middleware, the face and dispatch, as far as the rate limit.
Arrive(c, r) ==
  /\ calls[c] = Idle
  /\ Answer(open, revoked, r) = "run"
  /\ calls' = [calls EXCEPT ![c] = In(IF Limited(r) THEN "count" ELSE "run", r)]
  /\ UNCHANGED <<open, revoked, redis, stores, faults, crashes, losses>>

\* Any other answer: nothing is kept of the call.
Refuse(c, r) ==
  /\ calls[c] = Idle
  /\ Answer(open, revoked, r) # "run"
  /\ UNCHANGED vars

Pass(c) ==
  /\ calls' = [calls EXCEPT ![c].phase = "run"]
  /\ written' = [written EXCEPT ![calls[c].req.key][0] = @ + 1]

TooMany(c) ==
  /\ calls' = [calls EXCEPT ![c] = Idle]
  /\ UNCHANGED written

\* mutant: off by one
FirstIsZero(n) == n = 0

\* incr_with_ttl: who sets the expiry.
SetsExpiry(n) == n = 1

\* INCR, answered; the first of a minute goes on to EXPIRE.
Incr(c) ==
  LET k == calls[c].req.key
      n == count[k] + 1
  IN /\ calls[c].phase = "count" /\ redis = "up"
     /\ n <= MaxCount
     /\ count' = [count EXCEPT ![k] = n]
     /\ IF SetsExpiry(n)
          THEN calls' = [calls EXCEPT ![c].phase = "expire"] /\ UNCHANGED written
          ELSE IF n <= Limit THEN Pass(c) ELSE TooMany(c)
     /\ UNCHANGED <<open, revoked, redis, ttl, bucket, orphaned, faults, crashes, losses>>

\* EXPIRE, answered: nothing happens to a counter that is gone meanwhile.
Expire(c) ==
  LET k == calls[c].req.key
  IN /\ calls[c].phase = "expire" /\ redis = "up"
     /\ ttl' = [ttl EXCEPT ![k] = IF count[k] = 0 THEN 0 ELSE Window]
     /\ IF 1 <= Limit THEN Pass(c) ELSE TooMany(c)
     /\ UNCHANGED <<open, revoked, redis, count, bucket, orphaned, faults, crashes, losses>>

\* mutant: one write too many fits
RoomForOneMore(k) == Total(bucket[k]) <= Limit

Room(k) == Total(bucket[k]) < Limit

\* _inmem_rate_check, which keeps no record of what it refuses.
MemoryCheck(c) ==
  LET k == calls[c].req.key
  IN IF Room(k) THEN Pass(c) /\ bucket' = [bucket EXCEPT ![k][0] = @ + 1]
     ELSE TooMany(c) /\ UNCHANGED bucket

WithoutExpiry(keys) == {k \in keys : count[k] > 0 /\ ttl[k] = 0}

\* Redis is away when the call needs it.
Unreachable(c) ==
  /\ calls[c].phase \in {"count", "expire"} /\ redis = "down"
  /\ MemoryCheck(c)
  /\ orphaned' = IF calls[c].phase = "expire" THEN orphaned \cup WithoutExpiry({calls[c].req.key})
                 ELSE orphaned
  /\ UNCHANGED <<open, revoked, redis, count, ttl, faults, crashes, losses>>

\* INCR was carried out, its answer is lost: nobody sets the expiry.
IncrUnanswered(c) ==
  LET k == calls[c].req.key
  IN /\ calls[c].phase = "count" /\ redis = "up"
     /\ faults < MaxFaults /\ count[k] < MaxCount
     /\ faults' = faults + 1
     /\ count' = [count EXCEPT ![k] = @ + 1]
     /\ orphaned' = IF count[k] = 0 THEN orphaned \cup {k} ELSE orphaned
     /\ MemoryCheck(c)
     /\ UNCHANGED <<open, revoked, redis, ttl, crashes, losses>>

\* The handler has run and the answer is sent.
Run(c) ==
  /\ calls[c].phase = "run"
  /\ calls' = [calls EXCEPT ![c] = Idle]
  /\ UNCHANGED <<open, revoked, redis, stores, faults, crashes, losses>>

-----------------------------------------------------------------------------
(* Surroundings.                                                           *)

Tick ==
  /\ count' = [k \in Keys |-> IF ttl[k] = 1 THEN 0 ELSE count[k]]
  /\ ttl' = [k \in Keys |-> IF ttl[k] = 0 THEN 0 ELSE ttl[k] - 1]
  /\ bucket' = [k \in Keys |-> Older(bucket[k])]
  /\ written' = [k \in Keys |-> Older(written[k])]
  /\ UNCHANGED <<open, revoked, calls, redis, orphaned, faults, crashes, losses>>

Revoke(k) ==
  /\ revoked' = revoked \cup {k}
  /\ UNCHANGED <<open, calls, redis, stores, faults, crashes, losses>>

RedisDown ==
  /\ redis = "up" /\ faults < MaxFaults
  /\ redis' = "down"
  /\ faults' = faults + 1
  /\ UNCHANGED <<open, revoked, calls, stores, crashes, losses>>

RedisBack ==
  /\ redis = "down"
  /\ redis' = "up"
  /\ UNCHANGED <<open, revoked, calls, stores, faults, crashes, losses>>

\* Redis starts again without its data.
RedisEmpty ==
  /\ faults < MaxFaults
  /\ faults' = faults + 1 /\ losses' = losses + 1
  /\ count' = [k \in Keys |-> 0]
  /\ ttl' = [k \in Keys |-> 0]
  /\ orphaned' = {}
  /\ UNCHANGED <<open, revoked, calls, redis, bucket, written, crashes>>

\* The server starts again.
Crash ==
  /\ faults < MaxFaults
  /\ faults' = faults + 1 /\ crashes' = crashes + 1
  /\ orphaned' = orphaned \cup WithoutExpiry({k \in Keys : \E c \in Slots :
                                   calls[c].phase = "expire" /\ calls[c].req.key = k})
  /\ calls' = [c \in Slots |-> Idle]
  /\ bucket' = [k \in Keys |-> NoWrites]
  /\ UNCHANGED <<open, revoked, redis, count, ttl, written, losses>>

Next ==
  \/ \E c \in Slots :
       \/ \E r \in Requests : Arrive(c, r) \/ Refuse(c, r)
       \/ Incr(c)
       \/ Expire(c)
       \/ Unreachable(c)
       \/ IncrUnanswered(c)
       \/ Run(c)
  \/ Tick
  \/ \E k \in Keys : Revoke(k)
  \/ RedisDown
  \/ RedisBack
  \/ RedisEmpty
  \/ Crash

Spec == Init /\ [][Next]_vars

\* Time passes, and a call goes on to its second command.
Fairness == WF_vars(Tick) /\ \A c \in Slots : WF_vars(Expire(c) \/ Unreachable(c))

FairSpec == Spec /\ Fairness

-----------------------------------------------------------------------------
(* Properties.                                                             *)

Calls == {Idle} \cup [phase : {"count", "expire", "run"}, req : Requests]

\* Type invariant.
TypeOK ==
  /\ open \in BOOLEAN
  /\ revoked \subseteq Keys
  /\ calls \in [Slots -> Calls]
  /\ redis \in {"up", "down"}
  /\ count \in [Keys -> Nat]
  /\ ttl \in [Keys -> 0..Window]
  /\ bucket \in [Keys -> [Ages -> Nat]]
  /\ written \in [Keys -> [Ages -> Nat]]
  /\ orphaned \subseteq Keys
  /\ faults \in Nat /\ crashes \in Nat /\ losses \in Nat

\* In any minute a key writes less than twice its limit, which two adjoining
\* counters allow (the first write of each starts its minute); after faults,
\* what one more counter allows for each time Redis lost its data, and one
\* bucket of the memory for each life of the process.
AnyMinute ==
  \A k \in Keys :
    Total(written[k]) <= IF faults = 0 THEN 2 * Limit - 1
                         ELSE Limit * (3 + losses + crashes) - 1

\* A call that the caller had no right to, or with arguments that do not fit,
\* costs the key nothing of its budget in either store.
RefusedCostsNothing ==
  [][\A k \in Keys :
       count'[k] > count[k] \/ bucket'[k][0] > bucket[k][0] =>
         \E c \in Slots : /\ calls[c] # Idle
                          /\ calls[c].req.key = k
                          /\ calls[c].req.op \in WriteOps
                          /\ MayRun(calls[c].req)]_vars

\* A key over its limit writes again, unless a fault between INCR and EXPIRE
\* left its counter without an expiry.
KeyComesBack ==
  \A k \in Keys : count[k] > Limit ~> (count[k] = 0 \/ k \in orphaned)
=============================================================================
