----------------------------- MODULE NewestWins -----------------------------
(***************************************************************************)
(* What the server promises about the current values of a house: a message *)
(* is applied as a whole or not at all, and an address holds the value     *)
(* with the newest time stamp, of several the one that came last.          *)
(***************************************************************************)
EXTENDS Integers, Sequences

CONSTANTS
  Addresses,  \* group addresses
  Values,     \* the values an address may have, "none" before the first
  Batches     \* the sequences of items [ga, ts, value, ...] that may arrive;
              \* an item with the value "none" says nothing

VARIABLE reg  \* the value and time stamp of each address

\* The positions of items that say something of g.
Saying(items, g) == {k \in DOMAIN items : items[k].ga = g /\ items[k].value # "none"}

\* Position k of items holds the value of g after they are all applied to r.
Wins(r, items, g, k) ==
  /\ k \in Saying(items, g)
  /\ r[g].value # "none" => items[k].ts >= r[g].ts
  /\ \A j \in Saying(items, g) \ {k} :
       \/ items[j].ts < items[k].ts
       \/ items[j].ts = items[k].ts /\ j < k

After(r, items) ==
  [g \in Addresses |->
     IF \E k \in DOMAIN items : Wins(r, items, g, k)
       THEN LET k == CHOOSE k \in DOMAIN items : Wins(r, items, g, k)
            IN [ts |-> items[k].ts, value |-> items[k].value]
       ELSE r[g]]

Init == reg \in [Addresses -> [ts : Nat, value : Values]]

Next == \E items \in Batches : reg' = After(reg, items)

Spec == Init /\ [][Next]_reg
=============================================================================
