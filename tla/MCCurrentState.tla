--------------------------- MODULE MCCurrentState ---------------------------
\* Instances of CurrentState for TLC: two addresses; single states, batches
\* with one address twice, events out of order, repeated, and without a value.
EXTENDS CurrentState, TLC

Item(g, t, v, s) == [ga |-> g, ts |-> t, value |-> v, seq |-> s]
State(g, t, v) == [kind |-> "state", items |-> <<Item(g, t, v, 0)>>]

SomePayloads ==
  {State(g, t, v) : g \in Objects, t \in 0..2, v \in Values} \cup
  {[kind |-> "states", items |-> <<Item(1, t, v, 0), Item(2, t, v, 0)>>] : t \in 1..2, v \in Values} \cup
  {[kind |-> "events", items |-> <<Item(1, 2, "on", 1), Item(1, 2, "off", 2), Item(2, 1, "on", 3)>>],
   [kind |-> "events", items |-> <<Item(1, 2, "off", 2)>>],
   [kind |-> "events", items |-> <<Item(1, 3, NoValue, 5), Item(2, 1, "on", 3)>>],
   [kind |-> "events", items |-> <<Item(2, 3, "off", 4)>>]}
=============================================================================
