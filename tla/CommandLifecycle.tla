-------------------------- MODULE CommandLifecycle --------------------------
(***************************************************************************)
(* What the command service promises to a caller that polls a command: the *)
(* documented life of `commands.status`, the number of times the server    *)
(* transmits the command, and nothing of the sessions, messages and device *)
(* that produce them.                                                      *)
(***************************************************************************)
EXTENDS Naturals

CONSTANTS
  Cmds,         \* commands, one request_id each
  MaxRetries,   \* settings.cmd_max_retries
  Relapse       \* TRUE: a stale retry pass may replace an answer by "timeout"

VARIABLES
  status,       \* commands.status; "absent" until the row is committed
  sends,        \* transmissions of the command by the server
  faults        \* crashes and failed commits so far

vars == <<status, sends, faults>>

\* The column keeps what the device says, also a word no document names.
Answered == {"ok", "error", "other"}

Init ==
  /\ status = [c \in Cmds |-> "absent"]
  /\ sends = [c \in Cmds |-> 0]
  /\ faults = 0

\* The caller's transaction commits: its commands become visible together.
Record(S, s) ==
  /\ \A c \in S : status[c] = "absent"
  /\ s = "dry_run" => \A c \in S : sends[c] = 0
  /\ s = "sent" => \A c \in S : sends[c] >= 1
  /\ status' = [c \in Cmds |-> IF c \in S THEN s ELSE status[c]]
  /\ UNCHANGED <<sends, faults>>

\* One more transmission; each fault may have hidden one from the record.
Transmit(c) ==
  /\ status[c] # "dry_run"
  /\ sends[c] < 1 + MaxRetries + faults
  /\ sends' = [sends EXCEPT ![c] = @ + 1]
  /\ UNCHANGED <<status, faults>>

\* An answer of the device, also to a command already given up or answered.
Answer(c, s) ==
  /\ status[c] \in Answered \cup {"sent", "timeout"}
  /\ status' = [status EXCEPT ![c] = s]
  /\ UNCHANGED <<sends, faults>>

\* Commands are given up only when every transmission has been used.
Expire(S) ==
  /\ \A c \in S : /\ status[c] \in {"sent"} \cup (IF Relapse THEN Answered ELSE {})
                  /\ sends[c] >= 1 + MaxRetries
  /\ status' = [c \in Cmds |-> IF c \in S THEN "timeout" ELSE status[c]]
  /\ UNCHANGED <<sends, faults>>

Fault ==
  /\ faults' = faults + 1
  /\ UNCHANGED <<status, sends>>

Next ==
  \/ \E S \in SUBSET Cmds, s \in {"sent", "dry_run"} : Record(S, s)
  \/ \E c \in Cmds : Transmit(c)
  \/ \E c \in Cmds, s \in Answered : Answer(c, s)
  \/ \E S \in SUBSET Cmds : Expire(S)
  \/ Fault

Spec == Init /\ [][Next]_vars
=============================================================================
