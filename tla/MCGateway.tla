----------------------------- MODULE MCGateway -----------------------------
\* One key that writes, one that reads, two houses; calls of both faces that
\* may and may not run.
EXTENDS Gateway, TLC

MCScopes == ("writer" :> {"read", "write"} @@ "reader" :> {"read"})
MCGrants == ("writer" :> {"h1"} @@ "reader" :> {"h1"})

Call(face, key, op, house, names) ==
  [face |-> face, key |-> key, op |-> op, house |-> house, names |-> names, bad |-> {}]

MCRequests ==
  { Call("mcp", "writer", "set_auto_heating", NoHouse, {"on"}),
    Call("rest", "writer", "set_auto_heating", "h2", {"on"}),
    Call("rest", "writer", "set_kettle", "h1", {}),
    Call("rest", "reader", "set_auto_heating", "h1", {"on"}),
    Call("mcp", "reader", "list_houses", NoHouse, {}),
    Call("mcp", NoKey, "list_houses", NoHouse, {}) }
=============================================================================
