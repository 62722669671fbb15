------------------------------ MODULE Commands ------------------------------
(***************************************************************************)
(* The life of a command: an HTTP or MCP request publishes it and then     *)
(* commits its row, the controller's daemon executes it and acknowledges,  *)
(* the MQTT loop applies the acknowledgement, and the retry loop re-sends  *)
(* or gives up.  The three server activities are coroutines with database  *)
(* sessions of their own; they interleave at every await, and each action  *)
(* below is what happens between two awaits that matter.                   *)
(*                                                                         *)
(* A session writes only the columns it changed (SQLAlchemy's unit of      *)
(* work), so a commit is modelled by the columns it writes, not by the row *)
(* the session loaded.                                                     *)
(*                                                                         *)
(* Delivery is never fair: a message that stays in a network variable for  *)
(* ever is a lost message, so no action loses one.                         *)
(***************************************************************************)
EXTENDS Naturals, FiniteSets

CONSTANTS
  Cmds,         \* commands, each one request_id and one payload
  Requests,     \* HTTP/MCP requests; set_commands sends several commands
  RequestOf,    \* the request that sends a command
  MaxRetries,   \* settings.cmd_max_retries
  AckFields,    \* what a client may write in the status field of an ack, by
                \* result: "none" (the daemon of this repository), a documented
                \* value, or "other", any word that no document names
  MaxCopies,    \* bound: copies of a command, or of an ack, in the network
  MaxFaults     \* bound: server crashes and failed commits of the retry pass

ASSUME ConstantsOK ==
  /\ RequestOf \in [Cmds -> Requests]
  /\ MaxRetries \in Nat
  /\ AckFields \in [{"applied", "failed"} -> SUBSET {"none", "sent", "dry_run", "ok", "error",
                                                     "timeout", "other"}]
  /\ MaxCopies \in Nat \ {0}
  /\ MaxFaults \in Nat

VARIABLES
  row,      \* the commands table, committed
  req,      \* control state of each request
  dry,      \* is the request a dry run (X-Cottage-Dry-Run)
  added,    \* commands added to their request's session (and published)
  pass,     \* the retry pass: its session, and what it will write
  ack,      \* the ack handler: its session
  cmdNet,   \* copies of each command on the way to the daemon
  ackNet,   \* acks on the way to the server, by command and result
  done,     \* results the daemon produced for each command
  sends,    \* publications of each command the server attempted
  faults    \* crashes and failed commits so far

vars == <<row, req, dry, added, pass, ack, cmdNet, ackNet, done, sends, faults>>

Results  == {"applied", "failed"}     \* every grp.write applied, or some not

\* The column takes any word: "other" stands for all that no document names.
Statuses == {"sent", "dry_run", "ok", "error", "timeout", "other"}

\* ts_ack and results are written together: "none" stands for both NULL.
Row == [status : Statuses \cup {"absent"}, retry : Nat, age : {"fresh", "overdue"},
        results : Results \cup {"none"}]

NoRow == [status |-> "absent", retry |-> 0, age |-> "fresh", results |-> "none"]

IdlePass == [pc |-> "idle", todo |-> {}, seen |-> [c \in Cmds |-> 0],
             write |-> [c \in Cmds |-> "none"]]

IdleAck == [pc |-> "idle", of |-> {}, result |-> "applied", says |-> "ok", loaded |-> "sent"]

CmdsOf(q) == {c \in Cmds : RequestOf[c] = q}

Init ==
  /\ row = [c \in Cmds |-> NoRow]
  /\ req = [q \in Requests |-> "idle"]
  /\ dry = [q \in Requests |-> FALSE]
  /\ added = {}
  /\ pass = IdlePass
  /\ ack = IdleAck
  /\ cmdNet = [c \in Cmds |-> 0]
  /\ ackNet = [c \in Cmds |-> [r \in Results |-> 0]]
  /\ done = [c \in Cmds |-> {}]
  /\ sends = [c \in Cmds |-> 0]
  /\ faults = 0

-----------------------------------------------------------------------------
(* MQTT publication.  MqttClient.publish swallows nothing, its callers do: *)
(* the message may not leave (0), arrive once, or arrive twice when the    *)
(* first attempt got through but its PUBACK did not.                       *)

Published(c) ==
  /\ sends' = [sends EXCEPT ![c] = @ + 1]
  /\ \E n \in 0..2 : /\ cmdNet[c] + n <= MaxCopies
                     /\ cmdNet' = [cmdNet EXCEPT ![c] = @ + n]

-----------------------------------------------------------------------------
(* A request: send_command for each of its commands, then one commit.      *)

ReachesBroker(c) == ~dry[RequestOf[c]]

NewRow(c) == [NoRow EXCEPT !.status = IF dry[RequestOf[c]] THEN "dry_run" ELSE "sent"]

StartRequest(q, d) ==
  /\ req[q] = "idle"
  /\ req' = [req EXCEPT ![q] = "sending"]
  /\ dry' = [dry EXCEPT ![q] = d]
  /\ UNCHANGED <<row, added, pass, ack, cmdNet, ackNet, done, sends, faults>>

SendCommand(c) ==
  /\ req[RequestOf[c]] = "sending"
  /\ c \notin added
  /\ added' = added \cup {c}
  /\ IF ReachesBroker(c) THEN Published(c) ELSE UNCHANGED <<sends, cmdNet>>
  /\ UNCHANGED <<row, req, dry, pass, ack, ackNet, done, faults>>

CommitRequest(q) ==
  /\ req[q] = "sending"
  /\ CmdsOf(q) \subseteq added
  /\ row' = [c \in Cmds |-> IF c \in CmdsOf(q) THEN NewRow(c) ELSE row[c]]
  /\ req' = [req EXCEPT ![q] = "done"]
  /\ UNCHANGED <<dry, added, pass, ack, cmdNet, ackNet, done, sends, faults>>

\* The commit, or anything before it, raises: the session rolls back and the
\* caller gets an error, whatever has been published meanwhile.
FailRequest(q) ==
  /\ req[q] = "sending"
  /\ req' = [req EXCEPT ![q] = "failed"]
  /\ UNCHANGED <<row, dry, added, pass, ack, cmdNet, ackNet, done, sends, faults>>

-----------------------------------------------------------------------------
(* The daemon (one message at a time, no memory of request_ids): executes  *)
(* every copy it receives and acknowledges it; the ack may be lost or      *)
(* delivered twice.                                                        *)

DeviceExecute(c) ==
  /\ cmdNet[c] > 0
  /\ cmdNet' = [cmdNet EXCEPT ![c] = @ - 1]
  /\ \E r \in Results, n \in 0..2 :
       /\ done' = [done EXCEPT ![c] = @ \cup {r}]
       /\ ackNet[c][r] + n <= MaxCopies
       /\ ackNet' = [ackNet EXCEPT ![c][r] = @ + n]
  /\ UNCHANGED <<row, req, dry, added, pass, ack, sends, faults>>

-----------------------------------------------------------------------------
(* handle_ack: load the row, await the trace, commit the changed columns.  *)

\* payload.get("status", "ok"): nothing compares it with the documented values.
AckStatus(field) == IF field = "none" THEN "ok" ELSE field

AckRead(c, r, field) ==
  /\ ack.pc = "idle"
  /\ ackNet[c][r] > 0
  /\ field \in AckFields[r]
  /\ ackNet' = [ackNet EXCEPT ![c][r] = @ - 1]
  /\ IF row[c].status = "absent"
       THEN UNCHANGED ack                       \* ack_for_unknown_command
       ELSE ack' = [pc |-> "loaded", of |-> {c}, result |-> r,
                    says |-> AckStatus(field), loaded |-> row[c].status]
  /\ UNCHANGED <<row, req, dry, added, pass, cmdNet, done, sends, faults>>

RowAfterAck(c) ==
  [row[c] EXCEPT
     !.status = IF ack.says = ack.loaded THEN @ ELSE ack.says,
     !.results = ack.result]

AckCommit ==
  /\ ack.pc = "loaded"
  /\ row' = [c \in Cmds |-> IF c \in ack.of THEN RowAfterAck(c) ELSE row[c]]
  /\ ack' = IdleAck
  /\ UNCHANGED <<req, dry, added, pass, cmdNet, ackNet, done, sends, faults>>

\* The commit fails, as it always does of a status that is no text or is longer
\* than the column; _mqtt_loop logs the exception and the ack is gone.
AckFail ==
  /\ ack.pc = "loaded"
  /\ ack' = IdleAck
  /\ UNCHANGED <<row, req, dry, added, pass, cmdNet, ackNet, done, sends, faults>>

-----------------------------------------------------------------------------
(* retry_pending_commands, run again and again by _command_retry_loop.     *)

\* More than cmd_timeout_seconds pass after ts_sent.
TimePasses(c) ==
  /\ row[c].status = "sent"
  /\ row[c].age = "fresh"
  /\ row' = [row EXCEPT ![c].age = "overdue"]
  /\ UNCHANGED <<req, dry, added, pass, ack, cmdNet, ackNet, done, sends, faults>>

\* mutant: the query leaves out the rows whose retries are used up
DueRetryable ==
  {c \in Cmds : row[c].status = "sent" /\ row[c].age = "overdue" /\ row[c].retry < MaxRetries}

Due == {c \in Cmds : row[c].status = "sent" /\ row[c].age = "overdue"}

RetrySelect ==
  /\ pass.pc = "idle"
  /\ pass' = [IdlePass EXCEPT !.pc = "running", !.todo = Due,
                              !.seen = [c \in Cmds |-> row[c].retry]]
  /\ UNCHANGED <<row, req, dry, added, ack, cmdNet, ackNet, done, sends, faults>>

CanRetryOnceMore(c) == pass.seen[c] <= MaxRetries   \* mutant
CanRetryOnceLess(c) == pass.seen[c] + 1 < MaxRetries \* mutant

CanRetry(c) == pass.seen[c] < MaxRetries

RetryOne(c) ==
  /\ pass.pc = "running"
  /\ c \in pass.todo
  /\ pass' = [pass EXCEPT !.todo = @ \ {c},
                          !.write[c] = IF CanRetry(c) THEN "retry" ELSE "timeout"]
  /\ IF CanRetry(c) THEN Published(c) ELSE UNCHANGED <<sends, cmdNet>>
  /\ UNCHANGED <<row, req, dry, added, ack, ackNet, done, faults>>

RowAfterPass(c) ==
  CASE pass.write[c] = "retry"   -> [row[c] EXCEPT !.retry = pass.seen[c] + 1, !.age = "fresh"]
    [] pass.write[c] = "timeout" -> [row[c] EXCEPT !.status = "timeout"]
    [] OTHER                     -> row[c]

RetryCommit ==
  /\ pass.pc = "running"
  /\ pass.todo = {}
  /\ row' = [c \in Cmds |-> RowAfterPass(c)]
  /\ pass' = IdlePass
  /\ UNCHANGED <<req, dry, added, ack, cmdNet, ackNet, done, sends, faults>>

\* The pass raises, at the latest in its commit: the loop logs and sleeps.
RetryFail ==
  /\ pass.pc = "running"
  /\ faults < MaxFaults
  /\ faults' = faults + 1
  /\ pass' = IdlePass
  /\ UNCHANGED <<row, req, dry, added, ack, cmdNet, ackNet, done, sends>>

-----------------------------------------------------------------------------
\* The server process dies or is restarted: every session rolls back.
Crash ==
  /\ faults < MaxFaults
  /\ faults' = faults + 1
  /\ pass' = IdlePass
  /\ ack' = IdleAck
  /\ req' = [q \in Requests |-> IF req[q] = "sending" THEN "failed" ELSE req[q]]
  /\ UNCHANGED <<row, dry, added, cmdNet, ackNet, done, sends>>

Next ==
  \/ \E q \in Requests : \/ \E d \in BOOLEAN : StartRequest(q, d)
                         \/ CommitRequest(q)
                         \/ FailRequest(q)
  \/ \E c \in Cmds : \/ SendCommand(c)
                     \/ DeviceExecute(c)
                     \/ \E r \in Results : \E field \in AckFields[r] : AckRead(c, r, field)
                     \/ TimePasses(c)
                     \/ RetryOne(c)
  \/ AckCommit
  \/ AckFail
  \/ RetrySelect
  \/ RetryCommit
  \/ RetryFail
  \/ Crash

Spec == Init /\ [][Next]_vars

\* Only the retry loop and the clock are relied on: no message need arrive.
Fairness ==
  /\ \A c \in Cmds : WF_vars(TimePasses(c)) /\ WF_vars(RetryOne(c))
  /\ WF_vars(RetrySelect)
  /\ WF_vars(RetryCommit)

FairSpec == Spec /\ Fairness
-----------------------------------------------------------------------------
(* Properties.  Those of the lifecycle suppose that no ack states one of   *)
(* the three words that the server itself gives the column: handle_ack     *)
(* would store "sent" too, and the retry loop would send the command again.*)

AcksAnswer == \A r \in Results : AckFields[r] \cap {"sent", "dry_run", "timeout"} = {}

\* Type invariant.  The status column is not limited to the documented values:
\* it holds what an ack said.
TypeOK ==
  /\ row \in [Cmds -> Row]
  /\ req \in [Requests -> {"idle", "sending", "done", "failed"}]
  /\ dry \in [Requests -> BOOLEAN]
  /\ added \subseteq Cmds
  /\ pass \in [pc : {"idle", "running"}, todo : SUBSET Cmds, seen : [Cmds -> Nat],
               write : [Cmds -> {"none", "retry", "timeout"}]]
  /\ ack \in [pc : {"idle", "loaded"}, of : SUBSET Cmds, result : Results,
             says : Statuses, loaded : Statuses]
  /\ cmdNet \in [Cmds -> Nat]
  /\ ackNet \in [Cmds -> [Results -> Nat]]
  /\ done \in [Cmds -> SUBSET Results]
  /\ sends \in [Cmds -> Nat]
  /\ faults \in Nat

\* FR-040: a command is published at most 1 + cmd_max_retries times, plus
\* once for every crash or failed commit that hid a re-send from retry_count.
SendBudget == \A c \in Cmds : sends[c] <= 1 + MaxRetries + faults

\* FR-041: a command is given up only after every re-send has been made.
TimeoutAfterBudget ==
  \A c \in Cmds : row[c].status = "timeout" => sends[c] >= 1 + MaxRetries

\* A command the retry loop still considers open has no recorded answer: a
\* pass that overlaps an ack does not reopen what the ack closed.
SentIsUnanswered ==
  \A c \in Cmds : row[c].status = "sent" => row[c].results = "none"

\* A recorded answer was produced by the daemon executing that command, and
\* ok, error or another word of an ack is recorded only with an answer.
AnswersAreReal ==
  \A c \in Cmds :
    /\ row[c].results \in done[c] \cup {"none"}
    /\ row[c].status \in {"ok", "error", "other"} => row[c].results # "none"

\* A dry run is persisted and never reaches the daemon, by the request or by
\* the retry loop.
DryRunNeverSent ==
  \A c \in Cmds : dry[RequestOf[c]] =>
    /\ sends[c] = 0 /\ done[c] = {}
    /\ row[c].status \in {"absent", "dry_run"}

\* No command returns to "sent" once it has left it, and none disappears.
NeverReopened ==
  [][\A c \in Cmds : row[c].status # row'[c].status =>
        /\ row'[c].status # "absent"
        /\ row'[c].status = "sent" => row[c].status = "absent"]_vars

\* The service implements the documented lifecycle, weakened by the relapse
\* of an answer to "timeout".
Promise == INSTANCE CommandLifecycle
             WITH Relapse <- TRUE, status <- [c \in Cmds |-> row[c].status]
ImplementsLifecycle == Promise!Spec

\* A recorded command does not stay open for ever, whatever is lost.
EveryCommandSettles ==
  \A c \in Cmds : row[c].status = "sent" ~> row[c].status # "sent"

-----------------------------------------------------------------------------
(* What the documents claim and the code does not keep.                    *)

\* specs/001 FR-041: timeout means no ack was received.
TimeoutMeansUnanswered ==
  \A c \in Cmds : row[c].status = "timeout" => row[c].results = "none"
=============================================================================
