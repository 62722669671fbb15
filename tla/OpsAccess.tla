----------------------------- MODULE OpsAccess -----------------------------
(***************************************************************************)
(* ops/ and auth/: which operation of the catalogue runs for which key, on *)
(* the two faces of the server.  REST names the house in the path and is   *)
(* guarded by the middleware; an MCP tool takes the house as an optional   *)
(* argument.  A request is refused with the code of the first check that   *)
(* fails, or it is to "run".                                               *)
(*                                                                         *)
(* Arguments are their names, and the names whose values have another type *)
(* or lie outside the bounds of the parameter model.                       *)
(***************************************************************************)
EXTENDS Naturals

CONSTANTS
  Houses,
  Keys,       \* keys of the table api_keys
  ScopesOf,   \* their scopes
  GrantsOf    \* their houses: one, in today's table

NoKey == "no key"        \* no key in the headers, or one that matches no row
NoHouse == "no house"    \* the house_id argument was left out

Permissions == {"read", "write"}

ASSUME AccessOK ==
  /\ NoKey \notin Keys
  /\ NoHouse \notin Houses
  /\ ScopesOf \in [Keys -> SUBSET Permissions]
  /\ GrantsOf \in [Keys -> SUBSET Houses]

-----------------------------------------------------------------------------
(* The catalogue.                                                          *)

WriteOps == {"set_light", "set_lights", "set_commands", "set_climate",
             "set_auto_heating", "set_kettle"}

ReadOps == {"list_houses", "get_house_status", "discover", "get_temperature",
            "get_sensors", "list_lights", "get_climate", "get_energy_status",
            "get_heating_diagnostics", "get_kettle", "get_command_status"}

Ops == ReadOps \cup WriteOps

HouseScoped == Ops \ {"list_houses"}

Permission(op) == IF op \in WriteOps THEN "write" ELSE "read"

Required(op) ==
  CASE op \in {"set_light", "set_lights"} -> {"query", "on"}
    [] op = "set_commands"                -> {"items"}
    [] op = "set_climate"                 -> {"query", "setpoint_c"}
    [] op = "set_auto_heating"            -> {"on"}
    [] op = "get_command_status"          -> {"request_id"}
    [] OTHER                              -> {}

Optional(op) ==
  CASE op \in {"discover", "get_sensors"}                    -> {"query", "kind"}
    [] op \in {"get_temperature", "list_lights", "get_climate"} -> {"query"}
    [] op = "set_lights"                                     -> {"skip_unchanged"}
    [] op = "set_commands"                                   -> {"comment", "skip_unchanged"}
    [] op = "set_climate"                                    -> {"force_relay"}
    [] op = "set_kettle"                                     -> {"on", "setpoint_c"}
    [] OTHER                                                 -> {}

\* validate_params: nothing missing, nothing unknown, every value in place.
ValidParams(op, names, bad) ==
  /\ Required(op) \subseteq names
  /\ names \subseteq Required(op) \cup Optional(op)
  /\ bad = {}
  /\ op = "set_kettle" => names # {}

-----------------------------------------------------------------------------
(* Keys and houses.                                                        *)

\* A principal that authenticates: its row is there and not revoked.
Known(key, revoked) == key \in Keys \ revoked

Granted(key, house) == house \in GrantsOf[key]

OneHouse(key) == \E h \in Houses : GrantsOf[key] = {h}

\* resolve_house_id: "403", "400" (the choice is never guessed), or "run".
Resolve(key, house) ==
  IF GrantsOf[key] = {} THEN "403"
  ELSE IF house # NoHouse THEN IF Granted(key, house) THEN "run" ELSE "403"
  ELSE IF OneHouse(key) THEN "run" ELSE "400"

HouseOf(key, house) ==
  IF house # NoHouse THEN house ELSE CHOOSE h \in Houses : GrantsOf[key] = {h}

\* authorize
Authorized(key, house, permission) ==
  Granted(key, house) /\ permission \in ScopesOf[key]

-----------------------------------------------------------------------------
(* dispatch, up to the rate limit, with a principal and without.           *)

Dispatch(key, op, house) ==
  IF Permission(op) \notin ScopesOf[key] THEN "403"
  ELSE IF op \notin HouseScoped THEN "run"
  ELSE IF Resolve(key, house) # "run" THEN Resolve(key, house)
  ELSE IF Authorized(key, HouseOf(key, house), Permission(op)) THEN "run" ELSE "403"

\* AUTH_REQUIRED = false.
DispatchOpen(op, house) ==
  IF op \in HouseScoped /\ house = NoHouse THEN "400" ELSE "run"

\* The MCP tools.  FastMCP answers for a tool that does not exist.
McpAnswer(open, revoked, r) ==
  IF ~open /\ ~Known(r.key, revoked) THEN "401"
  ELSE IF r.op \notin Ops THEN "404"
  ELSE IF ~ValidParams(r.op, r.names, r.bad) THEN "422"
  ELSE IF open THEN DispatchOpen(r.op, r.house)
  ELSE Dispatch(r.key, r.op, r.house)

\* POST /houses/{house_id}/ops/{name}: the middleware asks for the read scope,
\* whatever the operation.
RestAnswer(open, revoked, r) ==
  IF ~open /\ ~Known(r.key, revoked) THEN "401"
  ELSE IF ~open /\ ~Authorized(r.key, r.house, "read") THEN "403"
  ELSE IF r.op \notin HouseScoped THEN "404"
  ELSE IF ~ValidParams(r.op, r.names, r.bad) THEN "422"
  ELSE IF open THEN DispatchOpen(r.op, r.house)
  ELSE Dispatch(r.key, r.op, r.house)

\* mutant: a key with a house may do everything there
AnswerByHouse(open, revoked, r) ==
  IF ~open /\ ~Known(r.key, revoked) THEN "401"
  ELSE IF r.op \notin Ops THEN "404"
  ELSE IF ~ValidParams(r.op, r.names, r.bad) THEN "422"
  ELSE IF open THEN DispatchOpen(r.op, r.house)
  ELSE Resolve(r.key, r.house)

Answer(open, revoked, r) ==
  IF r.face = "rest" THEN RestAnswer(open, revoked, r) ELSE McpAnswer(open, revoked, r)

\* GET /ops: what the scopes of the caller allow.
ListOps(open, key) == {op \in Ops : open \/ Permission(op) \in ScopesOf[key]}

-----------------------------------------------------------------------------
(* What a caller may do, said without the order of the checks.             *)

\* The key holds the permission of the operation and, where a house is
\* concerned, exactly one house can be meant and it is one of the key's.
MayRun(r) ==
  /\ r.key \in Keys
  /\ r.op \in Ops
  /\ ValidParams(r.op, r.names, r.bad)
  /\ Permission(r.op) \in ScopesOf[r.key]
  /\ r.op \in HouseScoped =>
       IF r.house = NoHouse THEN OneHouse(r.key) ELSE r.house \in GrantsOf[r.key]
=============================================================================
