--------------------------- MODULE CommandsProofs ---------------------------
(***************************************************************************)
(* Proofs about the two modules that send commands.  Commands, for any     *)
(* commands, requests, retry limit and bounds: type correctness, the       *)
(* inductive invariant that ties the row to the sessions that will write   *)
(* it and to the publications made, and what follows from it.              *)
(* AgentActions, for any catalogues and requests: what an operation        *)
(* decides to send, the rows it leaves, and what the state map still says  *)
(* of the house when set_lights leaves a light alone.                      *)
(***************************************************************************)
EXTENDS Commands, AgentActions, FiniteSetTheorems, SequenceTheorems, WellFoundedInduction, TLAPS

\* A recorded command that was really sent: the rows the retry loop and the
\* ack handler can hold in a session.
Live(c) == row[c].status # "absent" /\ ~dry[RequestOf[c]]

\* A command and the request that sends it.
Requesting ==
  \A c \in Cmds :
    LET q == RequestOf[c] IN
    /\ c \notin added => row[c].status = "absent" /\ sends[c] = 0
    /\ req[q] = "idle" => c \notin added
    /\ row[c].status # "absent" => req[q] = "done"
    /\ row[c].status = "absent" => row[c].retry = 0 /\ row[c].results = "none" /\ sends[c] <= 1
    /\ dry[q] => /\ sends[c] = 0 /\ cmdNet[c] = 0 /\ done[c] = {}
                 /\ row[c].status \in {"absent", "dry_run"}
                 /\ row[c].results = "none"
    /\ AcksAnswer /\ ~dry[q] => row[c].status # "dry_run"
    /\ c \notin added => cmdNet[c] = 0 /\ done[c] = {}

\* The retry pass: what it loaded is still what the row holds.
Passing ==
  /\ pass.pc = "idle" => pass = IdlePass
  /\ \A c \in Cmds :
       /\ c \in pass.todo \/ pass.write[c] # "none" => Live(c) /\ pass.seen[c] = row[c].retry
       /\ c \in pass.todo => pass.write[c] = "none"
       /\ pass.write[c] = "retry" => pass.seen[c] < MaxRetries
       /\ pass.write[c] = "timeout" => pass.seen[c] >= MaxRetries

\* The acknowledgements, in flight, loaded and recorded.
Answering ==
  /\ \A c \in Cmds, r \in Results : ackNet[c][r] > 0 => r \in done[c]
  /\ ack.pc = "loaded" => \E c \in Cmds : ack.of = {c}
  /\ ack.pc = "loaded" /\ AcksAnswer => ack.says \in {"ok", "error", "other"}
  /\ \A c \in Cmds :
       /\ ack.pc = "loaded" /\ c \in ack.of =>
            /\ Live(c) /\ ack.result \in done[c]
            /\ ack.loaded # "sent" => row[c].status # "sent"
       /\ AcksAnswer /\ row[c].status = "sent" => row[c].results = "none"
       /\ row[c].results \in done[c] \cup {"none"}
       /\ row[c].status \in {"ok", "error", "other"} => row[c].results # "none"

\* Publications against retry_count, from both sides.
Pending(c) == IF pass.write[c] = "retry" THEN 1 ELSE 0

Counting ==
  \A c \in Cmds :
    /\ row[c].retry <= MaxRetries
    /\ sends[c] <= 1 + row[c].retry + Pending(c) + faults
    /\ c \in added /\ ~dry[RequestOf[c]] => sends[c] >= 1 + row[c].retry + Pending(c)
    /\ AcksAnswer /\ row[c].status = "timeout" => row[c].retry >= MaxRetries

IInv == TypeOK /\ Requesting /\ Passing /\ Answering /\ Counting

-----------------------------------------------------------------------------
\* The initial states satisfy the invariant.
LEMMA InitInvariant == Init => IInv
  BY ConstantsOK DEF Init, IInv, TypeOK, Requesting, Passing, Answering, Counting,
     Pending, Live, NoRow, Row, IdlePass, IdleAck, Results, Statuses

\* A publication of c adds one to sends[c] and only copies of c to the network.
LEMMA PublishedFact ==
  ASSUME NEW c \in Cmds, cmdNet \in [Cmds -> Nat], sends \in [Cmds -> Nat], Published(c)
  PROVE  /\ sends' = [sends EXCEPT ![c] = sends[c] + 1]
         /\ sends' \in [Cmds -> Nat]
         /\ cmdNet' \in [Cmds -> Nat]
         /\ \A d \in Cmds : d # c => cmdNet'[d] = cmdNet[d]
  BY DEF Published

LEMMA StartRequestInvariant ==
  ASSUME IInv, NEW q \in Requests, NEW d \in BOOLEAN, StartRequest(q, d)
  PROVE  IInv'
  <1> USE ConstantsOK DEF IInv, StartRequest
  <1>1. TypeOK'
    BY DEF TypeOK
  <1>2. Requesting'
    BY DEF TypeOK, Requesting
  <1>3. Passing'
    BY DEF TypeOK, Requesting, Passing, Live
  <1>4. Answering'
    BY DEF TypeOK, Requesting, Answering, Live
  <1>5. Counting'
    BY DEF TypeOK, Requesting, Counting, Pending
  <1>6. QED
    BY <1>1, <1>2, <1>3, <1>4, <1>5

LEMMA SendCommandInvariant ==
  ASSUME IInv, NEW c \in Cmds, SendCommand(c)
  PROVE  IInv'
  <1> USE ConstantsOK DEF IInv, SendCommand
  <1>1. CASE ReachesBroker(c)
    <2>1. /\ sends' = [sends EXCEPT ![c] = sends[c] + 1]
          /\ sends' \in [Cmds -> Nat]
          /\ cmdNet' \in [Cmds -> Nat]
          /\ \A d \in Cmds : d # c => cmdNet'[d] = cmdNet[d]
      BY <1>1, PublishedFact DEF TypeOK
    <2>2. TypeOK'
      BY <2>1 DEF TypeOK
    <2>3. Requesting'
      BY <1>1, <2>1 DEF TypeOK, Requesting, ReachesBroker
    <2>4. Passing'
      BY DEF Passing, Live
    <2>5. Answering'
      BY DEF Answering, Live
    <2>6. Counting'
      BY <2>1 DEF TypeOK, Requesting, Passing, Counting, Pending, Live
    <2>7. QED
      BY <2>2, <2>3, <2>4, <2>5, <2>6
  <1>2. CASE ~ReachesBroker(c)
    <2>1. TypeOK'
      BY <1>2 DEF TypeOK
    <2>2. Requesting'
      BY <1>2 DEF TypeOK, Requesting, ReachesBroker
    <2>3. Passing'
      BY DEF Passing, Live
    <2>4. Answering'
      BY DEF Answering, Live
    <2>5. Counting'
      BY <1>2 DEF TypeOK, Requesting, Counting, Pending, ReachesBroker
    <2>6. QED
      BY <2>1, <2>2, <2>3, <2>4, <2>5
  <1>3. QED
    BY <1>1, <1>2

LEMMA CommitRequestInvariant ==
  ASSUME IInv, NEW q \in Requests, CommitRequest(q)
  PROVE  IInv'
  <1> USE ConstantsOK DEF IInv, CommitRequest
  <1>1. \A c \in Cmds :
          /\ c \in CmdsOf(q) => row[c].status = "absent" /\ row'[c] = NewRow(c)
          /\ c \notin CmdsOf(q) => row'[c] = row[c]
    BY DEF Requesting, CmdsOf
  <1>2. \A c \in Cmds : NewRow(c) \in Row /\ NewRow(c).retry = 0 /\ NewRow(c).results = "none"
                        /\ NewRow(c).status = IF dry[RequestOf[c]] THEN "dry_run" ELSE "sent"
    BY DEF NewRow, NoRow, Row, Results, Statuses
  <1>3. \A c \in Cmds : Live(c) => row'[c] = row[c]
    BY <1>1 DEF Live
  <1>4. TypeOK'
    BY <1>1, <1>2 DEF TypeOK
  <1>5. Requesting'
    BY <1>1, <1>2 DEF TypeOK, Requesting, CmdsOf
  <1>6. Passing'
    BY <1>3 DEF Passing, Live
  <1>7. Answering'
    BY <1>1, <1>2, <1>3 DEF Answering, Live
  <1>8. Counting'
    BY <1>1, <1>2 DEF TypeOK, Requesting, Passing, Counting, Pending, CmdsOf
  <1>9. QED
    BY <1>4, <1>5, <1>6, <1>7, <1>8

LEMMA FailRequestInvariant ==
  ASSUME IInv, NEW q \in Requests, FailRequest(q)
  PROVE  IInv'
  <1> USE DEF IInv, FailRequest
  <1>1. TypeOK'
    BY DEF TypeOK
  <1>2. Requesting'
    BY ConstantsOK DEF TypeOK, Requesting
  <1>3. Passing' /\ Answering' /\ Counting'
    BY DEF Passing, Answering, Counting, Live, Pending
  <1>4. QED
    BY <1>1, <1>2, <1>3

LEMMA DeviceExecuteInvariant ==
  ASSUME IInv, NEW c \in Cmds, DeviceExecute(c)
  PROVE  IInv'
  <1> USE DEF IInv, DeviceExecute
  <1>1. PICK r \in Results, n \in 0..2 :
          /\ done' = [done EXCEPT ![c] = @ \cup {r}]
          /\ ackNet' = [ackNet EXCEPT ![c][r] = @ + n]
    OBVIOUS
  <1>2. cmdNet[c] # 0 /\ c \in added /\ ~dry[RequestOf[c]]
    BY DEF TypeOK, Requesting
  <1>3. TypeOK'
    <2>1. [ackNet[c] EXCEPT ![r] = @ + n] \in [Results -> Nat]
      BY DEF TypeOK
    <2>2. ackNet' \in [Cmds -> [Results -> Nat]]
      BY <1>1, <2>1 DEF TypeOK
    <2>3. done' \in [Cmds -> SUBSET Results]
      BY <1>1 DEF TypeOK
    <2>4. cmdNet' \in [Cmds -> Nat]
      BY DEF TypeOK
    <2>5. QED
      BY <2>2, <2>3, <2>4 DEF TypeOK
  <1>4. Requesting'
    BY <1>1, <1>2 DEF TypeOK, Requesting
  <1>5. Passing'
    BY DEF Passing, Live
  <1>6. \A d \in Cmds : done[d] \subseteq done'[d]
    BY <1>1 DEF TypeOK
  <1>7. \A d \in Cmds, s \in Results : ackNet'[d][s] > 0 => s \in done'[d]
    BY <1>1 DEF TypeOK, Answering
  <1>8. Answering'
    BY <1>6, <1>7 DEF Answering, Live
  <1>9. Counting'
    BY DEF Counting, Pending
  <1>10. QED
    BY <1>3, <1>4, <1>5, <1>8, <1>9

LEMMA AckReadInvariant ==
  ASSUME IInv, NEW c \in Cmds, NEW r \in Results, NEW field \in AckFields[r],
         AckRead(c, r, field)
  PROVE  IInv'
  <1> USE DEF IInv, AckRead
  <1>0. /\ AckStatus(field) \in Statuses
        /\ AcksAnswer => AckStatus(field) \in {"ok", "error", "other"}
    BY ConstantsOK DEF AckStatus, AcksAnswer, Statuses, Results
  <1>1. r \in done[c] /\ ~dry[RequestOf[c]]
    BY ConstantsOK DEF TypeOK, Requesting, Answering
  <1>2. \A d \in Cmds, s \in Results : ackNet'[d][s] > 0 => ackNet[d][s] > 0
    BY DEF TypeOK
  <1>3. TypeOK'
    <2>1. [ackNet[c] EXCEPT ![r] = @ - 1] \in [Results -> Nat]
      BY DEF TypeOK
    <2>2. ackNet' \in [Cmds -> [Results -> Nat]]
      BY <2>1 DEF TypeOK
    <2>3. row[c].status \in Statuses \cup {"absent"}
      BY DEF TypeOK, Row
    <2>4. ack' \in [pc : {"idle", "loaded"}, of : SUBSET Cmds, result : Results,
                    says : Statuses, loaded : Statuses]
      BY <1>0, <2>3 DEF TypeOK
    <2>5. QED
      BY <2>2, <2>4 DEF TypeOK
  <1>4. Requesting' /\ Passing' /\ Counting'
    BY DEF Requesting, Passing, Counting, Live, Pending
  <1>5. Answering'
    <2>1. \A d \in Cmds, s \in Results : ackNet'[d][s] > 0 => s \in done'[d]
      BY <1>2 DEF Answering
    <2>2. CASE row[c].status = "absent"
      BY <2>1, <2>2 DEF Answering, Live
    <2>3. CASE row[c].status # "absent"
      <3>1. ack' = [pc |-> "loaded", of |-> {c}, result |-> r,
                    says |-> AckStatus(field), loaded |-> row[c].status]
        BY <2>3
      <3>2. /\ ack'.of = {c} /\ ack'.result = r /\ ack'.says = AckStatus(field)
            /\ ack'.loaded = row[c].status /\ Live(c)
        BY <1>1, <2>3, <3>1 DEF Live
      <3> QED
        BY <1>0, <1>1, <2>1, <3>2 DEF Answering, Live
    <2> QED
      BY <2>2, <2>3
  <1>6. QED
    BY <1>3, <1>4, <1>5

LEMMA AckCommitInvariant ==
  ASSUME IInv, AckCommit
  PROVE  IInv'
  <1> USE ConstantsOK DEF IInv, AckCommit
  <1>1. \A c \in Cmds : c \in ack.of =>
          /\ Live(c) /\ ack.result \in done[c]
          /\ row'[c] = RowAfterAck(c)
    BY DEF Answering
  <1>2. \A c \in Cmds : c \notin ack.of => row'[c] = row[c]
    OBVIOUS
  <1>3. ack.says \in Statuses /\ (AcksAnswer => ack.says \in {"ok", "error", "other"})
    BY DEF TypeOK, Answering
  <1>4. \A c \in Cmds : c \in ack.of =>
          /\ row'[c] \in Row
          /\ row'[c].status # "absent"
          /\ AcksAnswer => /\ row'[c].status \in {"ok", "error", "other", "timeout"}
                           /\ row'[c].status = "timeout" => row[c].status = "timeout"
          /\ row'[c].results = ack.result
          /\ row'[c].retry = row[c].retry
    <2> SUFFICES ASSUME NEW c \in Cmds, c \in ack.of
                 PROVE  /\ row'[c] \in Row
                        /\ row'[c].status # "absent"
                        /\ AcksAnswer =>
                             /\ row'[c].status \in {"ok", "error", "other", "timeout"}
                             /\ row'[c].status = "timeout" => row[c].status = "timeout"
                        /\ row'[c].results = ack.result
                        /\ row'[c].retry = row[c].retry
      OBVIOUS
    <2> DEFINE s == IF ack.says = ack.loaded THEN row[c].status ELSE ack.says
    <2>1. row'[c] = [row[c] EXCEPT !.status = s, !.results = ack.result]
      BY <1>1 DEF RowAfterAck
    <2>2. row[c] \in Row /\ ack.result \in Results
      BY DEF TypeOK
    <2>3. s \in Statuses
      BY <1>1, <1>3, <2>2 DEF Live, Row, Statuses
    <2>4. AcksAnswer => /\ s \in {"ok", "error", "other", "timeout"}
                        /\ s = "timeout" => row[c].status = "timeout"
      <3> SUFFICES ASSUME AcksAnswer
                   PROVE  /\ s \in {"ok", "error", "other", "timeout"}
                          /\ s = "timeout" => row[c].status = "timeout"
        OBVIOUS
      <3>1. CASE ack.says = ack.loaded
        BY <1>1, <1>3, <2>2, <3>1 DEF Answering, Requesting, Live, Row, Statuses
      <3>2. CASE ack.says # ack.loaded
        BY <1>3, <3>2
      <3> QED
        BY <3>1, <3>2
    <2> HIDE DEF s
    <2>5. QED
      BY <2>1, <2>2, <2>3, <2>4 DEF Row, Statuses
  <1>5. TypeOK'
    BY <1>2, <1>4 DEF TypeOK, IdleAck, Results, Statuses
  <1>6. Requesting'
    <2>1. UNCHANGED <<req, dry, added, cmdNet, done, sends>>
      OBVIOUS
    <2>2. ASSUME NEW c \in Cmds, c \in ack.of
          PROVE  row[c].status # "absent" /\ ~dry[RequestOf[c]]
                 /\ c \in added /\ req[RequestOf[c]] = "done"
      BY <1>1, <2>2 DEF TypeOK, Requesting, Live
    <2> USE <1>2, <1>4, <2>1, <2>2 DEF Requesting
    <2>3. QED
      OBVIOUS
  <1>7. Passing'
    BY <1>2, <1>4 DEF Passing, Live
  <1>8. Answering'
    BY <1>1, <1>2, <1>4 DEF TypeOK, Answering, Live, IdleAck, Results
  <1>9. Counting'
    BY <1>2, <1>4 DEF Counting, Pending
  <1>10. QED
    BY <1>5, <1>6, <1>7, <1>8, <1>9

LEMMA AckFailInvariant ==
  ASSUME IInv, AckFail
  PROVE  IInv'
  BY DEF IInv, AckFail, TypeOK, Requesting, Passing, Answering, Counting,
     Live, Pending, IdleAck, Results, Statuses

\* What the passing of time changes in a row.
Aged(old) == [old EXCEPT !.age = "overdue"]

LEMMA AgedRow ==
  ASSUME NEW old \in Row
  PROVE  /\ Aged(old) \in Row /\ Aged(old).retry = old.retry
         /\ Aged(old).status = old.status
         /\ Aged(old).results = old.results
  BY DEF Row, Aged

LEMMA TimePassesInvariant ==
  ASSUME IInv, NEW c \in Cmds, TimePasses(c)
  PROVE  IInv'
  <1>1. row' = [row EXCEPT ![c] = Aged(row[c])]
    BY DEF TimePasses, Aged
  <1>2. row \in [Cmds -> Row] /\ Aged(row[c]) \in Row
    BY AgedRow DEF IInv, TypeOK
  <1>3. row' \in [Cmds -> Row]
    BY <1>1, <1>2
  <1>4. \A d \in Cmds : /\ row'[d].status = row[d].status
                        /\ row'[d].retry = row[d].retry
                        /\ row'[d].results = row[d].results
    BY <1>1, <1>2, AgedRow
  <1>5. UNCHANGED <<req, dry, added, pass, ack, cmdNet, ackNet, done, sends, faults>>
    BY DEF TimePasses
  <1>6. TypeOK'
    BY <1>3, <1>5 DEF IInv, TypeOK
  <1>7. Requesting' /\ Passing'
    BY <1>4, <1>5 DEF IInv, Requesting, Passing, Live
  <1>8. Answering'
    BY <1>4, <1>5 DEF IInv, Answering, Live
  <1>9. Counting'
    BY <1>4, <1>5 DEF IInv, Counting, Pending
  <1>10. QED
    BY <1>6, <1>7, <1>8, <1>9 DEF IInv

LEMMA RetrySelectInvariant ==
  ASSUME IInv, RetrySelect
  PROVE  IInv'
  <1> DEFINE loaded == [c \in Cmds |-> row[c].retry]
  <1> DEFINE nothing == [c \in Cmds |-> "none"]
  <1>1. pass' = [pc |-> "running", todo |-> Due, seen |-> loaded, write |-> nothing]
    BY DEF IdlePass, RetrySelect
  <1>2. pass.write = nothing
    BY DEF IdlePass, IInv, Passing, RetrySelect
  <1>3. /\ loaded \in [Cmds -> Nat] /\ \A c \in Cmds : loaded[c] = row[c].retry
        /\ nothing \in [Cmds -> {"none", "retry", "timeout"}]
        /\ \A c \in Cmds : nothing[c] = "none"
    BY DEF IInv, TypeOK, Row
  <1>4. Due \subseteq Cmds
    BY DEF Due
  <1>5. UNCHANGED <<row, req, dry, added, ack, cmdNet, ackNet, done, sends, faults>>
    BY DEF RetrySelect
  <1> HIDE DEF loaded, nothing
  <1>6. /\ pass'.pc = "running" /\ pass'.todo = Due
        /\ pass'.seen = loaded /\ pass'.write = nothing
    BY <1>1
  <1>7. pass' \in [pc : {"idle", "running"}, todo : SUBSET Cmds, seen : [Cmds -> Nat],
                  write : [Cmds -> {"none", "retry", "timeout"}]]
    BY <1>1, <1>3, <1>4
  <1>8. TypeOK'
    BY <1>5, <1>7 DEF IInv, TypeOK
  <1>9. Passing'
    BY <1>3, <1>5, <1>6 DEF IInv, Requesting, Passing, Due, Live
  <1>10. Requesting' /\ Answering'
    BY <1>5 DEF IInv, Requesting, Answering, Live
  <1>11. Counting'
    BY <1>2, <1>3, <1>5, <1>6 DEF IInv, Counting, Pending
  <1>12. QED
    BY <1>8, <1>9, <1>10, <1>11 DEF IInv

LEMMA RetryOneInvariant ==
  ASSUME IInv, NEW c \in Cmds, RetryOne(c)
  PROVE  IInv'
  <1> USE ConstantsOK DEF IInv, RetryOne
  <1>1. /\ Live(c) /\ pass.seen[c] = row[c].retry /\ pass.write[c] = "none"
        /\ c \in added /\ ~dry[RequestOf[c]]
    BY DEF Requesting, Passing, Live
  <1>2. /\ pass'.pc = "running" /\ pass'.todo = pass.todo \ {c} /\ pass'.seen = pass.seen
        /\ pass'.write = [pass.write EXCEPT ![c] = IF CanRetry(c) THEN "retry" ELSE "timeout"]
    BY DEF TypeOK
  <1>3. Passing'
    BY <1>1, <1>2 DEF TypeOK, Passing, Live, CanRetry
  <1>4. Answering'
    BY DEF Answering, Live
  <1>5. CASE CanRetry(c)
    <2>1. /\ sends' = [sends EXCEPT ![c] = sends[c] + 1]
          /\ sends' \in [Cmds -> Nat]
          /\ cmdNet' \in [Cmds -> Nat]
          /\ \A d \in Cmds : d # c => cmdNet'[d] = cmdNet[d]
      BY <1>5, PublishedFact DEF TypeOK
    <2>2. TypeOK'
      BY <2>1, <1>5 DEF TypeOK
    <2>3. Requesting'
      BY <1>1, <2>1 DEF TypeOK, Requesting, Live
    <2>4. Counting'
      BY <1>1, <1>2, <1>5, <2>1 DEF TypeOK, Row, Counting, Pending, CanRetry
    <2>5. QED
      BY <1>3, <1>4, <2>2, <2>3, <2>4
  <1>6. CASE ~CanRetry(c)
    <2>1. TypeOK'
      BY <1>6 DEF TypeOK
    <2>2. Requesting'
      BY <1>6 DEF Requesting
    <2>3. Counting'
      BY <1>1, <1>2, <1>6 DEF TypeOK, Counting, Pending
    <2>4. QED
      BY <1>3, <1>4, <2>1, <2>2, <2>3
  <1>7. QED
    BY <1>5, <1>6

\* What the retry branch writes: the counter and the time of sending only.
Retried(old, n) == [old EXCEPT !.retry = n, !.age = "fresh"]

LEMMA RetriedRow ==
  ASSUME NEW old \in Row, NEW n \in Nat
  PROVE  /\ Retried(old, n) \in Row /\ Retried(old, n).retry = n
         /\ Retried(old, n).status = old.status
         /\ Retried(old, n).results = old.results
  BY DEF Row, Retried

LEMMA RetryCommitInvariant ==
  ASSUME IInv, RetryCommit
  PROVE  IInv'
  <1> USE ConstantsOK DEF IInv, RetryCommit
  <1>1. \A c \in Cmds :
          /\ pass.write[c] = "retry" =>
               /\ Live(c) /\ row[c].retry < MaxRetries
               /\ row'[c] = Retried(row[c], row[c].retry + 1)
          /\ pass.write[c] = "timeout" =>
               /\ Live(c) /\ row[c].retry >= MaxRetries
               /\ row'[c] = [row[c] EXCEPT !.status = "timeout"]
          /\ pass.write[c] = "none" => row'[c] = row[c]
    <2>1. \A c \in Cmds : row'[c] = RowAfterPass(c)
      OBVIOUS
    <2>2. \A c \in Cmds :
            /\ pass.write[c] = "retry" => RowAfterPass(c) = Retried(row[c], pass.seen[c] + 1)
            /\ pass.write[c] = "timeout" => RowAfterPass(c) = [row[c] EXCEPT !.status = "timeout"]
            /\ pass.write[c] = "none" => RowAfterPass(c) = row[c]
      BY DEF RowAfterPass, Retried
    <2>3. \A c \in Cmds :
            /\ pass.write[c] # "none" => Live(c) /\ pass.seen[c] = row[c].retry
            /\ pass.write[c] = "retry" => pass.seen[c] < MaxRetries
            /\ pass.write[c] = "timeout" => pass.seen[c] >= MaxRetries
      BY DEF Passing
    <2>4. QED
      BY <2>1, <2>2, <2>3
  <1>2. \A c \in Cmds : pass.write[c] \in {"none", "retry", "timeout"} /\ row[c] \in Row
    BY DEF TypeOK
  <1>3. \A c \in Cmds :
          /\ row'[c] \in Row
          /\ row'[c].results = row[c].results
          /\ row'[c].retry = row[c].retry + Pending(c)
          /\ row'[c].status \in {row[c].status, "timeout"}
          /\ row'[c].status # row[c].status => Live(c) /\ row[c].retry >= MaxRetries
          /\ row'[c].retry <= MaxRetries
    <2> SUFFICES ASSUME NEW c \in Cmds
                 PROVE  /\ row'[c] \in Row
                        /\ row'[c].results = row[c].results
                        /\ row'[c].retry = row[c].retry + Pending(c)
                        /\ row'[c].status \in {row[c].status, "timeout"}
                        /\ row'[c].status # row[c].status =>
                             Live(c) /\ row[c].retry >= MaxRetries
                        /\ row'[c].retry <= MaxRetries
      OBVIOUS
    <2>1. row[c] \in Row /\ row[c].retry <= MaxRetries
      BY <1>2 DEF Counting
    <2>2. CASE pass.write[c] = "retry"
      <3>1. /\ Live(c) /\ row[c].retry < MaxRetries /\ Pending(c) = 1
            /\ row'[c] = Retried(row[c], row[c].retry + 1)
        BY <1>1, <2>2 DEF Pending
      <3>2. row[c].retry + 1 \in Nat /\ row[c].retry + 1 <= MaxRetries
        <4>1. row[c].retry \in Nat
          BY <2>1 DEF Row
        <4>2. QED
          BY <3>1, <4>1
      <3>3. /\ row'[c] \in Row /\ row'[c].retry = row[c].retry + 1
            /\ row'[c].results = row[c].results
            /\ row'[c].status = row[c].status
        <4> DEFINE n == row[c].retry + 1
        <4>1. /\ Retried(row[c], n) \in Row /\ Retried(row[c], n).retry = n
              /\ Retried(row[c], n).status = row[c].status
              /\ Retried(row[c], n).results = row[c].results
          <5> HIDE DEF n
          <5>1. n \in Nat
            BY <3>2 DEF n
          <5>2. QED
            BY <2>1, <5>1, RetriedRow
        <4>2. QED
          BY <3>1, <4>1
      <3>4. QED
        BY <3>1, <3>2, <3>3
    <2>3. CASE pass.write[c] = "timeout"
      <3>1. /\ Live(c) /\ row[c].retry >= MaxRetries /\ Pending(c) = 0
            /\ row'[c] = [row[c] EXCEPT !.status = "timeout"]
        BY <1>1, <2>3 DEF Pending
      <3>2. QED
        BY <2>1, <3>1 DEF Row, Statuses
    <2>4. CASE pass.write[c] = "none"
      <3>1. Pending(c) = 0 /\ row'[c] = row[c]
        BY <1>1, <2>4 DEF Pending
      <3>2. QED
        BY <2>1, <3>1 DEF Row
    <2>5. QED
      BY <1>2, <2>2, <2>3, <2>4
  <1>4. TypeOK'
    BY <1>3 DEF TypeOK, IdlePass
  <1>5. Requesting'
    <2>1. \A c \in Cmds : Pending(c) = 0 \/ Live(c)
      BY <1>1 DEF Pending
    <2>2. QED
      BY <1>2, <1>3, <2>1 DEF Requesting, Row, Live
  <1>6. Passing'
    BY DEF Passing, IdlePass
  <1>7. Answering'
    BY <1>3 DEF Answering, Live
  <1>8. \A c \in Cmds : pass'.write[c] = "none"
    BY DEF IdlePass
  <1>9. Counting'
    <2> SUFFICES ASSUME NEW c \in Cmds
                 PROVE  /\ row'[c].retry <= MaxRetries
                        /\ sends[c] <= 1 + row'[c].retry + faults
                        /\ c \in added /\ ~dry[RequestOf[c]] => sends[c] >= 1 + row'[c].retry
                        /\ AcksAnswer /\ row'[c].status = "timeout" => row'[c].retry >= MaxRetries
      <3>1. \A n, m : n \in Nat /\ m \in Nat => n + m + 0 = n + m
        OBVIOUS
      <3>2. row' \in [Cmds -> Row]
        BY <1>3
      <3>3. QED
        BY <1>8, <3>2 DEF Counting, Pending, Row
    <2>1. row[c].retry \in Nat /\ row'[c].retry \in Nat /\ sends[c] \in Nat /\ faults \in Nat
      BY <1>2, <1>3 DEF TypeOK, Row
    <2>2. /\ sends[c] <= 1 + row[c].retry + Pending(c) + faults
          /\ c \in added /\ ~dry[RequestOf[c]] => sends[c] >= 1 + row[c].retry + Pending(c)
          /\ AcksAnswer /\ row[c].status = "timeout" => row[c].retry >= MaxRetries
          /\ Pending(c) \in Nat
      BY DEF Counting, Pending
    <2>3. row'[c].retry = row[c].retry + Pending(c)
      BY <1>3
    <2>4. AcksAnswer /\ row'[c].status = "timeout" => row[c].retry >= MaxRetries
      BY <1>3, <2>2
    <2>5. QED
      BY <1>3, <2>1, <2>2, <2>3, <2>4
  <1>10. QED
    BY <1>4, <1>5, <1>6, <1>7, <1>9

\* A fault forgets at most the one publication of c the pass had pending.
LEMMA FaultCounting ==
  ASSUME IInv, UNCHANGED <<row, added, dry, sends>>, faults' = faults + 1,
         \A c \in Cmds : pass'.write[c] = "none"
  PROVE  Counting'
  <1> SUFFICES ASSUME NEW c \in Cmds
               PROVE  /\ row'[c].retry <= MaxRetries
                      /\ sends'[c] <= 1 + row'[c].retry + Pending(c)' + faults'
                      /\ c \in added' /\ ~dry'[RequestOf[c]] =>
                           sends'[c] >= 1 + row'[c].retry + Pending(c)'
                      /\ AcksAnswer /\ row'[c].status = "timeout" => row'[c].retry >= MaxRetries
    BY DEF Counting
  <1>1. /\ row' = row /\ added' = added /\ dry' = dry /\ sends' = sends
        /\ faults' = faults + 1 /\ Pending(c)' = 0
    BY DEF Pending
  <1>2. row[c].retry \in Nat /\ sends[c] \in Nat /\ faults \in Nat
    BY DEF IInv, TypeOK, Row
  <1>3. /\ row[c].retry <= MaxRetries
        /\ sends[c] <= 1 + row[c].retry + Pending(c) + faults
        /\ c \in added /\ ~dry[RequestOf[c]] => sends[c] >= 1 + row[c].retry + Pending(c)
        /\ AcksAnswer /\ row[c].status = "timeout" => row[c].retry >= MaxRetries
    BY DEF IInv, Counting
  <1>4. Pending(c) \in {0, 1}
    BY DEF Pending
  <1>5. QED
    BY <1>1, <1>2, <1>3, <1>4

LEMMA RetryFailInvariant ==
  ASSUME IInv, RetryFail
  PROVE  IInv'
  <1>1. \A c \in Cmds : pass'.write[c] = "none" /\ pass'.todo = {}
    BY DEF RetryFail, IdlePass
  <1>2. TypeOK' /\ Passing'
    BY DEF RetryFail, IInv, TypeOK, Passing, IdlePass
  <1>3. Requesting' /\ Answering'
    BY DEF RetryFail, IInv, Requesting, Answering, Live
  <1>4. Counting'
    BY <1>1, FaultCounting DEF RetryFail
  <1>5. QED
    BY <1>2, <1>3, <1>4 DEF IInv

LEMMA CrashInvariant ==
  ASSUME IInv, Crash
  PROVE  IInv'
  <1>1. \A c \in Cmds : pass'.write[c] = "none" /\ pass'.todo = {}
    BY DEF Crash, IdlePass
  <1>2. TypeOK'
    BY DEF Crash, IInv, TypeOK, IdlePass, IdleAck, Results, Statuses
  <1>3. Passing'
    BY DEF Crash, Passing, IdlePass
  <1>4. Requesting'
    BY ConstantsOK DEF Crash, IInv, TypeOK, Requesting
  <1>5. Answering'
    BY DEF Crash, IInv, Answering, Live, IdleAck
  <1>6. Counting'
    BY <1>1, FaultCounting DEF Crash
  <1>7. QED
    BY <1>2, <1>3, <1>4, <1>5, <1>6 DEF IInv

-----------------------------------------------------------------------------
\* Every step preserves the invariant.
LEMMA StepInvariant == IInv /\ [Next]_vars => IInv'
  <1> SUFFICES ASSUME IInv, [Next]_vars
               PROVE  IInv'
    OBVIOUS
  <1>1. ASSUME NEW q \in Requests, NEW d \in BOOLEAN, StartRequest(q, d)
        PROVE  IInv'
    BY <1>1, StartRequestInvariant
  <1>2. ASSUME NEW q \in Requests, CommitRequest(q) \/ FailRequest(q)
        PROVE  IInv'
    BY <1>2, CommitRequestInvariant, FailRequestInvariant
  <1>3. ASSUME NEW c \in Cmds, SendCommand(c) \/ DeviceExecute(c) \/ TimePasses(c) \/ RetryOne(c)
        PROVE  IInv'
    BY <1>3, SendCommandInvariant, DeviceExecuteInvariant, TimePassesInvariant,
       RetryOneInvariant
  <1>4. ASSUME NEW c \in Cmds, NEW r \in Results, NEW field \in AckFields[r],
               AckRead(c, r, field)
        PROVE  IInv'
    BY <1>4, AckReadInvariant
  <1>5. CASE AckCommit \/ AckFail \/ RetrySelect \/ RetryCommit \/ RetryFail \/ Crash
    BY <1>5, AckCommitInvariant, AckFailInvariant, RetrySelectInvariant,
       RetryCommitInvariant, RetryFailInvariant, CrashInvariant
  <1>6. CASE UNCHANGED vars
    BY <1>6 DEF vars, IInv, TypeOK, Requesting, Passing, Answering, Counting, Live, Pending
  <1>7. QED
    BY <1>1, <1>2, <1>3, <1>4, <1>5, <1>6 DEF Next

\* The inductive invariant holds throughout.
THEOREM Invariance == Spec => []IInv
  <1>1. QED
    BY InitInvariant, StepInvariant, PTL DEF Spec

\* Type correctness, for any commands, requests, retry limit and words in the
\* acks: the status column then holds one of the server's words or what an ack
\* said, documented or not (handle_ack, command_service.py).
THEOREM TypeCorrect == Spec => []TypeOK
  <1>1. IInv => TypeOK
    BY DEF IInv
  <1>2. QED
    BY <1>1, Invariance, PTL

\* FR-040 with its true bound: at most 1 + MaxRetries publications of a
\* command, plus one for each crash or failed commit.
THEOREM SendBudgetHolds == Spec => []SendBudget
  <1>1. IInv => SendBudget
    <2> SUFFICES ASSUME IInv, NEW c \in Cmds
                 PROVE  sends[c] <= 1 + MaxRetries + faults
      BY DEF SendBudget
    <2>1. /\ row[c] \in Row /\ sends[c] \in Nat /\ faults \in Nat /\ MaxRetries \in Nat
          /\ row[c].retry \in Nat
      BY ConstantsOK DEF IInv, TypeOK, Row
    <2>2. row[c].retry + Pending(c) <= MaxRetries
      BY <2>1 DEF IInv, Passing, Counting, Pending
    <2>3. sends[c] <= 1 + row[c].retry + Pending(c) + faults
      BY DEF IInv, Counting
    <2>4. Pending(c) \in Nat
      BY DEF Pending
    <2>5. QED
      BY <2>1, <2>2, <2>3, <2>4
  <1>2. QED
    BY <1>1, Invariance, PTL

\* FR-041: a command times out only when all its publications were made, unless
\* an ack says "timeout" itself.
THEOREM TimeoutAfterBudgetHolds == AcksAnswer => (Spec => []TimeoutAfterBudget)
  <1> SUFFICES ASSUME AcksAnswer
               PROVE  Spec => []TimeoutAfterBudget
    OBVIOUS
  <1>1. IInv => TimeoutAfterBudget
    <2> SUFFICES ASSUME IInv, NEW c \in Cmds, row[c].status = "timeout"
                 PROVE  sends[c] >= 1 + MaxRetries
      BY DEF TimeoutAfterBudget
    <2>1. c \in added /\ ~dry[RequestOf[c]]
      BY DEF IInv, Requesting
    <2>2. /\ row[c].retry >= MaxRetries /\ Pending(c) \in Nat
          /\ sends[c] >= 1 + row[c].retry + Pending(c)
      BY <2>1 DEF IInv, Counting, Pending
    <2>3. row[c].retry \in Nat /\ sends[c] \in Nat /\ MaxRetries \in Nat
      BY ConstantsOK DEF IInv, TypeOK, Row
    <2>4. QED
      BY <2>2, <2>3
  <1>2. QED
    BY <1>1, Invariance, PTL

\* What a retry pass and an ack that overlap leave behind: an open command has
\* no answer, and every recorded answer is one the daemon really gave.
THEOREM AnswersHold == AcksAnswer => (Spec => [](SentIsUnanswered /\ AnswersAreReal))
  <1> SUFFICES ASSUME AcksAnswer
               PROVE  Spec => [](SentIsUnanswered /\ AnswersAreReal)
    OBVIOUS
  <1>1. IInv => SentIsUnanswered /\ AnswersAreReal
    BY DEF IInv, Answering, SentIsUnanswered, AnswersAreReal
  <1>2. QED
    BY <1>1, Invariance, PTL

\* A dry run never reaches the daemon.
THEOREM DryRunHolds == Spec => []DryRunNeverSent
  <1>1. IInv => DryRunNeverSent
    BY DEF IInv, Requesting, DryRunNeverSent
  <1>2. QED
    BY <1>1, Invariance, PTL

-----------------------------------------------------------------------------
(* Steps: what may happen to the status of a command, and the refinement.  *)

\* The actions that leave every status, every publication count and the fault
\* counter alone.
Silent ==
  /\ \A c \in Cmds : row'[c].status = row[c].status
  /\ UNCHANGED <<sends, faults>>

LEMMA SilentSteps ==
  ASSUME IInv,
         \/ \E q \in Requests, d \in BOOLEAN : StartRequest(q, d)
         \/ \E q \in Requests : FailRequest(q)
         \/ \E c \in Cmds : DeviceExecute(c) \/ TimePasses(c)
         \/ \E c \in Cmds, r \in Results : \E field \in AckFields[r] : AckRead(c, r, field)
         \/ AckFail \/ RetrySelect
  PROVE  Silent
  <1>1. ASSUME NEW c \in Cmds, TimePasses(c)
        PROVE  Silent
    <2>1. row' = [row EXCEPT ![c] = Aged(row[c])] /\ UNCHANGED <<sends, faults>>
      BY <1>1 DEF TimePasses, Aged
    <2>2. row \in [Cmds -> Row]
      BY DEF IInv, TypeOK
    <2>3. QED
      BY <2>1, <2>2, AgedRow DEF Silent
  <1>2. QED
    BY <1>1 DEF StartRequest, FailRequest, DeviceExecute, AckRead, AckFail, RetrySelect, Silent

\* A commit of a request records its commands, all absent before.
LEMMA CommitRecords ==
  ASSUME IInv, NEW q \in Requests, CommitRequest(q)
  PROVE  \A c \in Cmds :
           /\ c \in CmdsOf(q) => /\ row[c].status = "absent" /\ c \in added
                                 /\ row'[c].status = IF dry[q] THEN "dry_run" ELSE "sent"
           /\ c \notin CmdsOf(q) => row'[c].status = row[c].status
  BY ConstantsOK DEF IInv, TypeOK, Requesting, CommitRequest, CmdsOf, NewRow, NoRow

\* A commit of the ack handler records what the ack of one recorded command says.
LEMMA AckAnswers ==
  ASSUME IInv, AckCommit, AcksAnswer
  PROVE  \A c \in Cmds :
           \/ row'[c].status = row[c].status
           \/ /\ c \in ack.of /\ Live(c)
              /\ row'[c].status \in {"ok", "error", "other"}
  <1> SUFFICES ASSUME NEW c \in Cmds, row'[c].status # row[c].status
               PROVE  /\ c \in ack.of /\ Live(c)
                      /\ row'[c].status \in {"ok", "error", "other"}
    OBVIOUS
  <1>1. c \in ack.of /\ row'[c] = RowAfterAck(c)
    BY DEF AckCommit
  <1>2. Live(c) /\ row[c] \in Row /\ ack.says \in {"ok", "error", "other"}
    BY <1>1 DEF AckCommit, IInv, TypeOK, Answering
  <1>3. row'[c].status = IF ack.says = ack.loaded THEN row[c].status ELSE ack.says
    BY <1>1, <1>2 DEF RowAfterAck, Row
  <1>4. QED
    BY <1>1, <1>2, <1>3

\* A commit of the retry pass changes a status only to "timeout", and only of
\* a recorded command whose publications are used up.
LEMMA PassExpires ==
  ASSUME IInv, RetryCommit
  PROVE  \A c \in Cmds :
           \/ row'[c].status = row[c].status
           \/ /\ row'[c].status = "timeout" /\ Live(c)
              /\ sends[c] >= 1 + MaxRetries
  <1> SUFFICES ASSUME NEW c \in Cmds, row'[c].status # row[c].status
               PROVE  row'[c].status = "timeout" /\ Live(c) /\ sends[c] >= 1 + MaxRetries
    OBVIOUS
  <1>1. row'[c] = RowAfterPass(c) /\ row[c] \in Row
    BY DEF RetryCommit, IInv, TypeOK
  <1>2. pass.write[c] = "timeout" /\ row'[c].status = "timeout"
    BY <1>1 DEF RowAfterPass, Row
  <1>3. Live(c) /\ row[c].retry >= MaxRetries
    BY <1>2 DEF IInv, Passing
  <1>4. sends[c] >= 1 + row[c].retry + Pending(c) /\ Pending(c) \in Nat
    BY <1>3 DEF IInv, Requesting, Counting, Pending, Live
  <1>5. row[c].retry \in Nat /\ sends[c] \in Nat /\ MaxRetries \in Nat
    BY ConstantsOK DEF IInv, TypeOK, Row
  <1>6. QED
    BY <1>2, <1>3, <1>4, <1>5

\* Every step is silent or one of the five steps that matter to a caller.
LEMMA StepCases ==
  ASSUME IInv, [Next]_vars
  PROVE  \/ Silent
         \/ \E c \in Cmds : SendCommand(c) \/ RetryOne(c)
         \/ \E q \in Requests : CommitRequest(q)
         \/ AckCommit
         \/ RetryCommit
         \/ RetryFail \/ Crash
  <1>1. CASE UNCHANGED vars
    BY <1>1 DEF vars, Silent
  <1>2. CASE Next
    BY <1>2, SilentSteps DEF Next
  <1>3. QED
    BY <1>1, <1>2

\* No command returns to "sent" once it has left it, and none disappears, unless
\* an ack says "sent".
THEOREM NeverReopenedHolds == AcksAnswer => (Spec => NeverReopened)
  <1> SUFFICES ASSUME AcksAnswer
               PROVE  Spec => NeverReopened
    OBVIOUS
  <1> DEFINE Kept == \A c \in Cmds : row[c].status # row'[c].status =>
                       /\ row'[c].status # "absent"
                       /\ row'[c].status = "sent" => row[c].status = "absent"
  <1>1. ASSUME IInv, [Next]_vars
        PROVE  Kept
    <2>1. CASE Silent \/ RetryFail \/ Crash \/ \E c \in Cmds : SendCommand(c) \/ RetryOne(c)
      BY <2>1 DEF Silent, RetryFail, Crash, SendCommand, RetryOne
    <2>2. ASSUME NEW q \in Requests, CommitRequest(q)
          PROVE  Kept
      BY <1>1, <2>2, CommitRecords
    <2>3. CASE AckCommit
      BY <1>1, <2>3, AckAnswers
    <2>4. CASE RetryCommit
      BY <1>1, <2>4, PassExpires
    <2>5. QED
      BY <1>1, <2>1, <2>2, <2>3, <2>4, StepCases
  <1>2. IInv /\ [Next]_vars => [Kept]_vars
    BY <1>1
  <1>3. QED
    BY <1>2, Invariance, PTL DEF Spec, NeverReopened

-----------------------------------------------------------------------------
\* Refinement: the initial states map to initial states.
LEMMA InitRefines == Init => Promise!Init
  BY DEF Init, NoRow, Promise!Init

\* A request's publication, or a re-send, is one transmission.
LEMMA SendRefines ==
  ASSUME IInv, AcksAnswer, NEW c \in Cmds, SendCommand(c) \/ RetryOne(c)
  PROVE  Promise!Transmit(c) \/ UNCHANGED Promise!vars
  <1>1. UNCHANGED <<row, faults>>
    BY DEF SendCommand, RetryOne
  <1>2. CASE UNCHANGED sends
    BY <1>1, <1>2 DEF Promise!vars
  <1>3. CASE ~ UNCHANGED sends
    <2>1. /\ Published(c) /\ ~dry[RequestOf[c]]
          /\ SendCommand(c) => c \notin added
          /\ RetryOne(c) => CanRetry(c) /\ c \in pass.todo
      <3>1. CASE SendCommand(c)
        BY <1>3, <3>1 DEF SendCommand, ReachesBroker, RetryOne, IInv, Requesting, Passing, Live
      <3>2. CASE RetryOne(c)
        BY <1>3, <3>2 DEF RetryOne, SendCommand, IInv, Requesting, Passing, Live
      <3>3. QED
        BY <3>1, <3>2
    <2>2. sends' = [sends EXCEPT ![c] = sends[c] + 1]
      BY <2>1 DEF Published
    <2>3. row[c].status # "dry_run"
      BY <2>1 DEF IInv, Requesting
    <2>4. sends[c] < 1 + MaxRetries + faults
      <3>1. /\ sends[c] \in Nat /\ faults \in Nat /\ MaxRetries \in Nat
            /\ row[c].retry \in Nat
        BY ConstantsOK DEF IInv, TypeOK, Row
      <3>2. CASE SendCommand(c)
        BY <2>1, <3>1, <3>2 DEF IInv, Requesting
      <3>3. CASE RetryOne(c)
        <4>1. /\ pass.seen[c] = row[c].retry /\ Pending(c) = 0
              /\ pass.seen[c] < MaxRetries
          BY <2>1, <3>3 DEF IInv, Passing, Pending, CanRetry
        <4>2. sends[c] <= 1 + row[c].retry + Pending(c) + faults
          BY DEF IInv, Counting
        <4>3. QED
          BY <3>1, <4>1, <4>2
      <3>4. QED
        BY <3>2, <3>3
    <2>5. QED
      BY <1>1, <2>2, <2>3, <2>4 DEF Promise!Transmit
  <1>4. QED
    BY <1>2, <1>3

\* The commit of a request records its commands together.
LEMMA CommitRefines ==
  ASSUME IInv, NEW q \in Requests, CommitRequest(q)
  PROVE  \E S \in SUBSET Cmds, s \in {"sent", "dry_run"} : Promise!Record(S, s)
  <1> DEFINE s == IF dry[q] THEN "dry_run" ELSE "sent"
  <1>1. CmdsOf(q) \in SUBSET Cmds /\ s \in {"sent", "dry_run"}
    BY DEF CmdsOf
  <1>2. UNCHANGED <<sends, faults>>
    BY DEF CommitRequest
  <1>3. \A c \in CmdsOf(q) : /\ row[c].status = "absent"
                             /\ dry[q] => sends[c] = 0
                             /\ ~dry[q] => sends[c] >= 1
    <2>1. \A c \in CmdsOf(q) : c \in Cmds /\ RequestOf[c] = q /\ c \in added
      BY DEF CmdsOf, CommitRequest
    <2>2. \A c \in CmdsOf(q) : ~dry[q] => sends[c] >= 1 + row[c].retry + Pending(c)
      BY <2>1 DEF IInv, Counting
    <2>3. \A c \in CmdsOf(q) : /\ row[c].retry \in Nat /\ Pending(c) \in Nat
                               /\ sends[c] \in Nat
      BY <2>1 DEF IInv, TypeOK, Row, Pending
    <2>4. \A c \in CmdsOf(q) : row[c].status = "absent" /\ (dry[q] => sends[c] = 0)
      BY <2>1, CommitRecords DEF IInv, Requesting
    <2>5. QED
      BY <2>2, <2>3, <2>4
  <1>4. [c \in Cmds |-> row'[c].status]
          = [c \in Cmds |-> IF c \in CmdsOf(q) THEN s ELSE row[c].status]
    BY CommitRecords
  <1>5. Promise!Record(CmdsOf(q), s)
    BY <1>1, <1>2, <1>3, <1>4 DEF Promise!Record, CmdsOf
  <1>6. QED
    BY <1>1, <1>5 DEF Promise!Record

\* The commit of an ack is an answer, or changes nothing a caller sees.
LEMMA AckRefines ==
  ASSUME IInv, AckCommit, AcksAnswer
  PROVE  (\E c \in Cmds, s \in {"ok", "error", "other"} : Promise!Answer(c, s)) \/ UNCHANGED Promise!vars
  <1>1. UNCHANGED <<sends, faults>>
    BY DEF AckCommit
  <1>2. PICK c \in Cmds : ack.of = {c}
    BY DEF AckCommit, IInv, Answering
  <1>3. \A d \in Cmds : d # c => row'[d].status = row[d].status
    BY <1>2, AckAnswers
  <1>4. CASE row'[c].status = row[c].status
    <2>1. [d \in Cmds |-> row'[d].status] = [d \in Cmds |-> row[d].status]
      BY <1>3, <1>4
    <2>2. QED
      BY <1>1, <2>1 DEF Promise!vars
  <1>5. CASE row'[c].status # row[c].status
    <2>1. Live(c) /\ row'[c].status \in {"ok", "error", "other"}
      BY <1>5, AckAnswers
    <2>2. row[c].status \in {"ok", "error", "other"} \cup {"sent", "timeout"}
      BY <2>1 DEF IInv, TypeOK, Requesting, Row, Statuses, Live
    <2>3. [d \in Cmds |-> row'[d].status]
            = [[d \in Cmds |-> row[d].status] EXCEPT ![c] = row'[c].status]
      BY <1>3
    <2>4. Promise!Answer(c, row'[c].status)
      BY <1>1, <2>2, <2>3 DEF Promise!Answer, Promise!Answered
    <2>5. QED
      BY <2>1, <2>4 DEF Promise!Answer
  <1>6. QED
    BY <1>4, <1>5

\* The commit of a retry pass gives up commands whose publications are used up.
LEMMA PassRefines ==
  ASSUME IInv, RetryCommit, AcksAnswer
  PROVE  \E S \in SUBSET Cmds : Promise!Expire(S)
  <1> DEFINE S == {c \in Cmds : row'[c].status # row[c].status}
  <1>1. UNCHANGED <<sends, faults>>
    BY DEF RetryCommit
  <1>2. \A c \in S : /\ row'[c].status = "timeout" /\ Live(c)
                     /\ sends[c] >= 1 + MaxRetries
    BY PassExpires
  <1>3. \A c \in S : row[c].status \in {"sent"} \cup {"ok", "error", "other"}
    <2>1. \A c \in S : row[c].status \in Statuses \cup {"absent"}
      BY DEF IInv, TypeOK, Row
    <2>2. QED
      BY <1>2, <2>1 DEF IInv, Requesting, Statuses, Live
  <1>4. [c \in Cmds |-> row'[c].status]
          = [c \in Cmds |-> IF c \in S THEN "timeout" ELSE row[c].status]
    BY <1>2
  <1>5. Promise!Expire(S)
    BY <1>1, <1>2, <1>3, <1>4 DEF Promise!Expire, Promise!Answered
  <1>6. QED
    BY <1>5 DEF Promise!Expire

\* The service implements the lifecycle it promises, if acks state answers only.
THEOREM Refinement == AcksAnswer => (Spec => ImplementsLifecycle)
  <1> SUFFICES ASSUME AcksAnswer
               PROVE  Spec => ImplementsLifecycle
    OBVIOUS
  <1>1. ASSUME IInv, [Next]_vars
        PROVE  [Promise!Next]_(Promise!vars)
    <2>1. CASE Silent
      <3>1. [c \in Cmds |-> row'[c].status] = [c \in Cmds |-> row[c].status]
        BY <2>1 DEF Silent
      <3>2. QED
        BY <2>1, <3>1 DEF Silent, Promise!vars
    <2>2. ASSUME NEW c \in Cmds, SendCommand(c) \/ RetryOne(c)
          PROVE  [Promise!Next]_(Promise!vars)
      BY <1>1, <2>2, SendRefines DEF Promise!Next
    <2>3. ASSUME NEW q \in Requests, CommitRequest(q)
          PROVE  [Promise!Next]_(Promise!vars)
      BY <1>1, <2>3, CommitRefines DEF Promise!Next
    <2>4. CASE AckCommit
      BY <1>1, <2>4, AckRefines DEF Promise!Next, Promise!Answered
    <2>5. CASE RetryCommit
      BY <1>1, <2>5, PassRefines DEF Promise!Next
    <2>6. CASE RetryFail \/ Crash
      BY <2>6 DEF RetryFail, Crash, Promise!Next, Promise!Fault
    <2>7. QED
      BY <1>1, <2>1, <2>2, <2>3, <2>4, <2>5, <2>6, StepCases
  <1>2. QED
    BY <1>1, InitRefines, Invariance, PTL DEF Spec, ImplementsLifecycle, Promise!Spec

-----------------------------------------------------------------------------
(* Agent actions: sequences and finite sets.                               *)

IsSeq(s) == \E n \in Nat : s = [k \in 1..n |-> s[k]]

LEMMA SeqFact ==
  ASSUME NEW s, IsSeq(s)
  PROVE  /\ s \in Seq({s[k] : k \in 1..Len(s)}) /\ Len(s) \in Nat /\ DOMAIN s = 1..Len(s)
         /\ s = [k \in 1..Len(s) |-> s[k]]
<1>1. PICK n \in Nat : s = [k \in 1..n |-> s[k]]
  BY DEF IsSeq
<1>2. DOMAIN s = 1..n
  BY <1>1
<1>3. s \in [1..n -> {s[k] : k \in 1..n}]
  BY <1>1, <1>2
<1>4. s \in Seq({s[k] : k \in 1..n}) /\ Len(s) = n
  BY <1>3
<1> QED
  BY <1>1, <1>2, <1>4

LEMMA FromSeq ==
  ASSUME NEW S, NEW s \in Seq(S)
  PROVE  IsSeq(s) /\ \A k \in 1..Len(s) : s[k] \in S
<1>1. Len(s) \in Nat /\ s \in [1..Len(s) -> S]
  OBVIOUS
<1>2. s = [k \in 1..Len(s) |-> s[k]] /\ \A k \in 1..Len(s) : s[k] \in S
  BY <1>1
<1> QED
  BY <1>1, <1>2 DEF IsSeq

LEMMA AppendFact ==
  ASSUME NEW s, IsSeq(s), NEW x
  PROVE  /\ IsSeq(Append(s, x)) /\ Len(Append(s, x)) = Len(s) + 1
         /\ DOMAIN Append(s, x) = 1..(Len(s) + 1)
         /\ Append(s, x)[Len(s) + 1] = x
         /\ \A k \in 1..Len(s) : Append(s, x)[k] = s[k]
<1> DEFINE S == {s[k] : k \in 1..Len(s)} \cup {x}
<1>1. s \in Seq(S) /\ Len(s) \in Nat
  <2>1. s \in Seq({s[k] : k \in 1..Len(s)}) /\ Len(s) \in Nat /\ s = [k \in 1..Len(s) |-> s[k]]
    BY SeqFact
  <2>2. s \in [1..Len(s) -> S]
    BY <2>1
  <2> QED
    BY <2>1, <2>2
<1>2. x \in S
  OBVIOUS
<1> HIDE DEF S
<1>3. /\ Append(s, x) \in Seq(S) /\ Len(Append(s, x)) = Len(s) + 1
      /\ Append(s, x)[Len(s) + 1] = x /\ \A k \in 1..Len(s) : Append(s, x)[k] = s[k]
  BY <1>1, <1>2
<1>4. IsSeq(Append(s, x))
  BY <1>3, FromSeq
<1> HIDE DEF S
<1>5. DOMAIN Append(s, x) = 1..(Len(s) + 1)
  BY <1>3, <1>4, SeqFact
<1> QED
  BY <1>3, <1>4, <1>5

LEMMA TailFact ==
  ASSUME NEW s, IsSeq(s), s # <<>>
  PROVE  /\ IsSeq(Tail(s)) /\ Len(Tail(s)) = Len(s) - 1 /\ Len(s) \in Nat /\ Len(s) >= 1
         /\ DOMAIN Tail(s) = 1..(Len(s) - 1) /\ DOMAIN s = 1..Len(s)
         /\ \A k \in 1..(Len(s) - 1) : Tail(s)[k] = s[k + 1]
         /\ Head(s) = s[1]
<1>1. PICK S : s \in Seq(S)
  BY SeqFact
<1>2. /\ Tail(s) \in Seq(S) /\ Len(Tail(s)) = Len(s) - 1 /\ Len(s) \in Nat /\ Len(s) >= 1
      /\ \A k \in 1..(Len(s) - 1) : Tail(s)[k] = s[k + 1]
      /\ Head(s) = s[1] /\ DOMAIN s = 1..Len(s)
  BY <1>1
<1>3. IsSeq(Tail(s))
  BY <1>2, FromSeq
<1>4. DOMAIN Tail(s) = 1..(Len(s) - 1)
  BY <1>2, <1>3, SeqFact
<1> QED
  BY <1>2, <1>3, <1>4

LEMMA UpdatedFact ==
  ASSUME NEW s, IsSeq(s), NEW t, DOMAIN t = DOMAIN s, t = [k \in DOMAIN t |-> t[k]]
  PROVE  IsSeq(t)
<1>1. DOMAIN s = 1..Len(s) /\ Len(s) \in Nat
  BY SeqFact
<1> QED
  BY <1>1 DEF IsSeq

\* What a function makes of a finite set is finite.
LEMMA FiniteRange ==
  ASSUME NEW f, IsFiniteSet(DOMAIN f), f = [x \in DOMAIN f |-> f[x]]
  PROVE  IsFiniteSet({f[x] : x \in DOMAIN f})
<1>1. f \in Surjection(DOMAIN f, {f[x] : x \in DOMAIN f})
  BY DEF Surjection
<1> QED
  BY <1>1, FS_Surjection

\* SetToSeq of a finite set has every element once.
LEMMA SetToSeqFact ==
  ASSUME NEW S, IsFiniteSet(S)
  PROVE  /\ SetToSeq(S) \in Seq(S)
         /\ \A n, m \in 1..Len(SetToSeq(S)) : SetToSeq(S)[n] = SetToSeq(S)[m] => n = m
         /\ \A x \in S : \E n \in 1..Len(SetToSeq(S)) : SetToSeq(S)[n] = x
<1>1. PICK n \in Nat : ExistsBijection(1..n, S)
  BY FS_NatBijection
<1>2. Cardinality(S) = n
  BY <1>1, FS_CountingElements
<1>3. \E f \in [1..n -> S] : IsInjective(f)
  <2>1. PICK f : f \in Bijection(1..n, S)
    BY <1>1 DEF ExistsBijection
  <2> QED
    BY <2>1 DEF Bijection, Injection, IsInjective
<1>4. SetToSeq(S) \in [1..n -> S] /\ IsInjective(SetToSeq(S))
  BY <1>2, <1>3 DEF SetToSeq
<1> DEFINE q == SetToSeq(S)
           R == {q[k] : k \in 1..n}
<1>5. q \in [1..n -> S] /\ \A a, b \in 1..n : q[a] = q[b] => a = b
  BY <1>4 DEF IsInjective
<1> HIDE DEF q
<1>6. R = S
  <2>1. q \in Bijection(1..n, R)
    BY <1>5 DEF Bijection, Injection, Surjection, IsInjective
  <2>2. Cardinality(R) = n
    BY <2>1, FS_CountingElements DEF ExistsBijection
  <2>3. R \subseteq S
    BY <1>5
  <2> QED
    BY <1>2, <2>2, <2>3, FS_Subset
<1>7. q \in Seq(S) /\ Len(q) = n
  BY <1>5
<1> QED
  BY <1>5, <1>6, <1>7 DEF q

LEMMA LeastFact ==
  ASSUME NEW T, T \subseteq Nat, T # {}
  PROVE  Min(T) \in T /\ \A y \in T : Min(T) <= y
<1>1. PICK d \in T : \A e \in T : ~(<<e, d>> \in OpToRel(<, Nat))
  BY NatLessThanWellFounded, WFMin
<1>2. \A e \in T : ~(e < d)
  BY <1>1 DEF OpToRel
<1>3. \A e \in T : d <= e
  BY <1>2
<1> QED
  BY <1>3 DEF Min

-----------------------------------------------------------------------------
(* What a request is decided to send.                                      *)

\* An item that the catalog knows, of a value a command may have; degrees go
\* to no switch, and nothing goes to the status of a light, if the house is
\* made so.
Harmless(c, item) == item.value = "warm" => ~ObjectAt(c, item.ga).boolean

Fits(c, item) ==
  /\ item = Item(item.ga, item.value)
  /\ Known(c, item.ga) /\ item.value \in Values
  /\ SetpointsAreNumbers => Harmless(c, item)
  /\ LightsWiredApart => ClassifyObject(ObjectAt(c, item.ga)) # "light_status"

Goes(c, s) == s.device \in Devices /\ IsFiniteSet(s.items) /\ \A item \in s.items : Fits(c, item)

Replies == {"ok", "sent", "ambiguous", "400", "404"}

Decided(c, d) ==
  /\ d = Decision(d.sends, d.each, d.skipped, d.answer)
  /\ IsSeq(d.sends) /\ \A k \in 1..Len(d.sends) : Goes(c, d.sends[k])
  /\ d.answer \in Replies

LEMMA ObjectFact ==
  ASSUME NEW c \in Catalogs
  PROVE  /\ \A o \in c : Known(c, o.ga) /\ ObjectAt(c, o.ga) = o
         /\ \A ga : Known(c, ga) => ObjectAt(c, ga) \in c /\ ObjectAt(c, ga).ga = ga
         /\ \A ga : Sendable(c, ga) => ObjectAt(c, ga).device \in Devices
<1>1. \A ga : Known(c, ga) => ObjectAt(c, ga) \in c /\ ObjectAt(c, ga).ga = ga
  BY DEF Known, ObjectAt
<1>2. \A o \in c : Known(c, o.ga)
  BY DEF Known
<1>3. \A o \in c : ObjectAt(c, o.ga) = o
  BY <1>1, <1>2, AgentOK
<1> QED
  BY <1>1, <1>2, <1>3 DEF Sendable, Devices

LEMMA RefuseFact ==
  ASSUME NEW c, NEW answer \in Replies
  PROVE  Decided(c, Refuse(answer))
<1> DEFINE s == <<>>
<1>1. s \in Seq({}) /\ Len(s) = 0
  OBVIOUS
<1> HIDE DEF s
<1>2. IsSeq(s)
  BY <1>1, FromSeq
<1>3. IsSeq(<<>>) /\ Len(<<>>) = 0
  BY <1>1, <1>2 DEF s
<1> QED
  BY <1>3 DEF Decided, Refuse, Decision

LEMMA StepsFact ==
  ASSUME NEW c \in Catalogs, NEW G, NEW items \in Seq(G), NEW answer \in Replies,
         \A x \in G : x = Item(x.ga, x.value) /\ (Sendable(c, x.ga) => Fits(c, x))
  PROVE  Decided(c, Steps(c, items, answer))
<1> DEFINE bad  == {i \in 1..Len(items) : ~Sendable(c, items[i].ga)}
           good == IF bad = {} THEN items ELSE SubSeq(items, 1, Min(bad) - 1)
           order == [i \in 1..Len(good) |-> SendOf(c, good[i].ga, good[i].value)]
<1>1. good \in Seq(G) /\ \A i \in 1..Len(good) : Sendable(c, good[i].ga)
  <2>1. CASE bad = {}
    BY <2>1
  <2>2. CASE bad # {}
    <3>1. bad \subseteq Nat
      OBVIOUS
    <3> DEFINE m == Min(bad)
    <3>2. m \in bad /\ \A y \in bad : m <= y
      BY <2>2, <3>1, LeastFact
    <3>3. good = SubSeq(items, 1, m - 1)
      BY <2>2
    <3> HIDE DEF m
    <3>4. m \in 1..Len(items)
      BY <3>2
    <3>5. good \in Seq(G) /\ Len(good) = m - 1 /\ \A i \in 1..(m - 1) : good[i] = items[i]
      <4> HIDE DEF good, bad
      <4>1. m - 1 \in 0..Len(items) /\ Len(items) \in Nat
        BY <3>4
      <4> DEFINE k == m - 1
                 cut == SubSeq(items, 1, k)
      <4>2. good = cut /\ k \in 0..Len(items)
        BY <3>3, <4>1
      <4> HIDE DEF k
      <4>3. cut \in Seq(G) /\ Len(cut) = k /\ \A i \in 1..k : cut[i] = items[i]
        BY <4>1, <4>2
      <4> QED
        BY <4>2, <4>3 DEF k
    <3>6. \A i \in 1..(m - 1) : i \in 1..Len(items) /\ i \notin bad
      BY <3>2, <3>4
    <3> QED
      BY <3>5, <3>6
  <2> QED
    BY <2>1, <2>2
<1>2. Steps(c, items, answer) = Decision(order, TRUE, {}, IF bad = {} THEN answer ELSE "400")
  BY DEF Steps
<1> HIDE DEF bad, good
<1>3. \A i \in 1..Len(good) : Goes(c, order[i])
  <2> SUFFICES ASSUME NEW i \in 1..Len(good)
               PROVE  Goes(c, order[i])
    OBVIOUS
  <2>1. good[i] \in G /\ Sendable(c, good[i].ga)
    BY <1>1
  <2>2. Fits(c, good[i]) /\ good[i] = Item(good[i].ga, good[i].value)
    BY <2>1
  <2>3. order[i] = [device |-> ObjectAt(c, good[i].ga).device, items |-> {good[i]}]
    BY <2>2 DEF SendOf
  <2>4. IsFiniteSet({good[i]})
    BY FS_Singleton
  <2>5. ObjectAt(c, good[i].ga).device \in Devices
    BY <2>1, ObjectFact
  <2> DEFINE s == order[i]
  <2>6. s.device = ObjectAt(c, good[i].ga).device /\ s.items = {good[i]}
    BY <2>3
  <2> HIDE DEF s, order
  <2> QED
    BY <2>2, <2>4, <2>5, <2>6 DEF Goes, s
<1>4. Len(good) \in Nat
  BY <1>1
<1>5. IsSeq(order) /\ Len(order) = Len(good)
  BY <1>4 DEF IsSeq
<1> HIDE DEF order
<1> QED
  BY <1>2, <1>3, <1>5 DEF Decided, Decision, Replies

LEMMA ResolveFact ==
  ASSUME NEW c, NEW q, NEW kind, NEW role
  PROVE  \A o \in Resolve(c, q, kind, role) :
           /\ o \in c /\ o.active /\ o.name # <<>> /\ ~ExcludedMaster(q, o)
           /\ ClassifyObject(o) \in RolesForKind(kind) \cap (IF role = "any" THEN Roles ELSE {role})
<1> DEFINE found == Candidates(c, q, kind, role)
<1>1. PreferExact(q, found) \subseteq found
  BY DEF PreferExact
<1>2. \A S : PreferControl(q, kind, role, S) \subseteq S
  BY DEF PreferControl
<1>3. Resolve(c, q, kind, role) \subseteq found
  BY <1>1, <1>2 DEF Resolve
<1> QED
  BY <1>3 DEF Candidates

LEMMA OneFound ==
  ASSUME NEW found, ResolveStatus(found) = "ok"
  PROVE  (CHOOSE o \in found : TRUE) \in found
<1>1. found # {}
  BY FS_EmptySet DEF ResolveStatus
<1> QED
  BY <1>1

\* An item for an object of the catalog.
LEMMA ItemFact ==
  ASSUME NEW c \in Catalogs, NEW o \in c, NEW value \in Values,
         value = "warm" => (SetpointsAreNumbers => ~o.boolean),
         LightsWiredApart => ClassifyObject(o) # "light_status"
  PROVE  Fits(c, Item(o.ga, value))
<1> DEFINE item == Item(o.ga, value)
<1>1. item.ga = o.ga /\ item.value = value /\ item = Item(item.ga, item.value)
  BY DEF Item
<1>2. Known(c, o.ga) /\ ObjectAt(c, o.ga) = o
  BY ObjectFact
<1> HIDE DEF item
<1>3. SetpointsAreNumbers => Harmless(c, item)
  BY <1>1, <1>2 DEF Harmless
<1> QED
  BY <1>1, <1>2, <1>3 DEF Fits, item

LEMMA SingleFact ==
  ASSUME NEW x
  PROVE  <<x>> \in Seq({x})
OBVIOUS

LEMMA JoinFact ==
  ASSUME NEW S, NEW u \in Seq(S), NEW v \in Seq(S)
  PROVE  /\ u \o v \in Seq(S) /\ Len(u \o v) = Len(u) + Len(v) /\ Len(u) \in Nat /\ Len(v) \in Nat
         /\ \A k \in 1..Len(u) : (u \o v)[k] = u[k]
         /\ \A k \in 1..Len(v) : (u \o v)[Len(u) + k] = v[k]
<1>1. /\ u \o v \in Seq(S) /\ Len(u \o v) = Len(u) + Len(v) /\ Len(u) \in Nat /\ Len(v) \in Nat
      /\ \A k \in 1..(Len(u) + Len(v)) : (u \o v)[k] = IF k <= Len(u) THEN u[k] ELSE v[k - Len(u)]
  BY ConcatProperties
<1>2. ASSUME NEW k \in 1..Len(v)
      PROVE  (u \o v)[Len(u) + k] = v[k]
  <2>1. /\ Len(u) + k \in 1..(Len(u) + Len(v)) /\ ~(Len(u) + k <= Len(u))
        /\ (Len(u) + k) - Len(u) = k
    BY <1>1
  <2> QED
    BY <1>1, <2>1
<1>3. ASSUME NEW k \in 1..Len(u)
      PROVE  (u \o v)[k] = u[k]
  <2>1. k \in 1..(Len(u) + Len(v)) /\ k <= Len(u)
    BY <1>1
  <2> QED
    BY <1>1, <2>1
<1> QED
  BY <1>1, <1>2, <1>3

LEMMA PairFact ==
  ASSUME NEW x, NEW y
  PROVE  /\ <<x>> \o <<y>> = <<x, y>> /\ Append(<<x>>, y) = <<x, y>>
         /\ Append(<<>>, y) = <<y>>
<1> DEFINE S == {x, y}
<1>1. /\ <<x>> \in Seq(S) /\ <<y>> \in Seq(S) /\ <<>> \in Seq(S) /\ <<x, y>> \in Seq(S)
      /\ Len(<<x>>) = 1 /\ Len(<<y>>) = 1 /\ Len(<<>>) = 0 /\ Len(<<x, y>>) = 2
      /\ <<x>>[1] = x /\ <<y>>[1] = y /\ <<x, y>>[1] = x /\ <<x, y>>[2] = y
  OBVIOUS
<1> DEFINE u == <<x>>
           v == <<y>>
           e == <<>>
           w == <<x, y>>
<1>2. /\ u \in Seq(S) /\ v \in Seq(S) /\ e \in Seq(S) /\ w \in Seq(S)
      /\ Len(u) = 1 /\ Len(v) = 1 /\ Len(e) = 0 /\ Len(w) = 2
      /\ u[1] = x /\ v[1] = y /\ w[1] = x /\ w[2] = y
  BY <1>1
<1> HIDE DEF u, v, e, w
<1>3. u \o v = w
  <2>1. u \o v \in Seq(S) /\ Len(u \o v) = 2
    BY <1>2, JoinFact
  <2>2. (u \o v)[1] = x /\ (u \o v)[2] = y
    <3>1. 1 \in 1..Len(u) /\ 1 \in 1..Len(v) /\ Len(u) + 1 = 2
      BY <1>2
    <3>2. /\ u \o v \in Seq(S) /\ Len(u \o v) = Len(u) + Len(v) /\ Len(u) \in Nat /\ Len(v) \in Nat
          /\ \A k \in 1..Len(u) : (u \o v)[k] = u[k]
          /\ \A k \in 1..Len(v) : (u \o v)[Len(u) + k] = v[k]
      <4>1. u \in Seq(S) /\ v \in Seq(S)
        BY <1>2
      <4> QED
        BY <4>1, JoinFact
    <3>3. (u \o v)[1] = u[1] /\ (u \o v)[Len(u) + 1] = v[1]
      BY <3>1, <3>2
    <3> QED
      BY <1>2, <3>1, <3>3
  <2>3. \A k \in 1..2 : (u \o v)[k] = w[k]
    <3>1. \A k \in 1..2 : k = 1 \/ k = 2
      OBVIOUS
    <3> QED
      BY <1>2, <2>2, <3>1
  <2> HIDE DEF S
  <2> QED
    BY <1>2, <2>1, <2>3, SeqEqual
<1>4. Append(u, y) = w
  <2>1. IsSeq(u) /\ Append(u, y) \in Seq(S) /\ Len(u) + 1 = 2 /\ 1 \in 1..Len(u)
    BY <1>2, FromSeq
  <2>2. Len(Append(u, y)) = Len(u) + 1 /\ Append(u, y)[Len(u) + 1] = y /\ Append(u, y)[1] = u[1]
    BY <2>1, AppendFact
  <2>3. \A k \in 1..2 : Append(u, y)[k] = w[k]
    BY <1>2, <2>1, <2>2
  <2> HIDE DEF S
  <2> QED
    BY <1>2, <2>1, <2>2, <2>3, SeqEqual
<1>5. Append(e, y) = v
  <2>0. y \in S
    OBVIOUS
  <2> HIDE DEF S
  <2>1. IsSeq(e) /\ Append(e, y) \in Seq(S) /\ Len(e) + 1 = 1
    <3>1. IsSeq(e)
      BY <1>2, FromSeq
    <3>2. Append(e, y) \in Seq(S)
      BY <1>2, <2>0
    <3> QED
      BY <1>2, <3>1, <3>2
  <2>2. Len(Append(e, y)) = Len(e) + 1 /\ Append(e, y)[Len(e) + 1] = y
    BY <2>1, AppendFact
  <2>3. \A k \in 1..1 : Append(e, y)[k] = v[k]
    BY <1>2, <2>1, <2>2
  <2> HIDE DEF S
  <2> QED
    BY <1>2, <2>1, <2>2, <2>3, SeqEqual
<1> QED
  BY <1>3, <1>4, <1>5 DEF u, v, e, w

LEMMA OneStep ==
  ASSUME NEW c \in Catalogs, NEW x, x = Item(x.ga, x.value), Sendable(c, x.ga) => Fits(c, x),
         NEW answer \in Replies
  PROVE  Decided(c, Steps(c, <<x>>, answer))
<1> DEFINE G == {x}
           items == <<x>>
<1>1. items \in Seq(G)
  BY SingleFact
<1>2. \A y \in G : y = Item(y.ga, y.value) /\ (Sendable(c, y.ga) => Fits(c, y))
  OBVIOUS
<1> HIDE DEF G, items
<1>3. Decided(c, Steps(c, items, answer))
  BY <1>1, <1>2, StepsFact
<1> QED
  BY <1>3 DEF items

LEMMA TwoSteps ==
  ASSUME NEW c \in Catalogs, NEW x, x = Item(x.ga, x.value), Sendable(c, x.ga) => Fits(c, x),
         NEW y, y = Item(y.ga, y.value), Sendable(c, y.ga) => Fits(c, y),
         NEW answer \in Replies
  PROVE  Decided(c, Steps(c, <<x, y>>, answer))
<1> DEFINE G == {x, y}
           items == <<x, y>>
<1>1. items \in Seq(G)
  OBVIOUS
<1>2. \A z \in G : z = Item(z.ga, z.value) /\ (Sendable(c, z.ga) => Fits(c, z))
  OBVIOUS
<1> HIDE DEF G, items
<1>3. Decided(c, Steps(c, items, answer))
  BY <1>1, <1>2, StepsFact
<1> QED
  BY <1>3 DEF items

LEMMA NoStep ==
  ASSUME NEW c \in Catalogs, NEW answer \in Replies
  PROVE  Decided(c, Steps(c, <<>>, answer))
<1> DEFINE items == <<>>
<1>1. items \in Seq({})
  OBVIOUS
<1> HIDE DEF items
<1>2. Decided(c, Steps(c, items, answer))
  BY <1>1, StepsFact
<1> QED
  BY <1>2 DEF items

LEMMA LightFact ==
  ASSUME NEW c \in Catalogs, NEW a \in Asks, a.op = "set_light"
  PROVE  Decided(c, DecideLight(c, a))
<1> DEFINE found == Lights(c, a.q)
           o == CHOOSE o \in found : TRUE
<1>1. CASE ResolveStatus(found) = "ok"
  <2>1. o \in found
    BY <1>1, OneFound
  <2>2. o \in c /\ ClassifyObject(o) = "light_control"
    BY <2>1, ResolveFact DEF Lights
  <2>3. DecideLight(c, a) = Steps(c, <<Item(o.ga, a.on)>>, "sent")
    BY <1>1 DEF DecideLight, OnlyOne
  <2> HIDE DEF o, found
  <2>4. a.on \in Values /\ a.on # "warm"
    BY AgentOK DEF Values
  <2> DEFINE x == Item(o.ga, a.on)
  <2>5. Fits(c, x)
    BY <2>2, <2>4, ItemFact
  <2>6. x = Item(x.ga, x.value)
    BY DEF Item
  <2> HIDE DEF x
  <2>7. Decided(c, Steps(c, <<x>>, "sent"))
    BY <2>5, <2>6, OneStep DEF Replies
  <2> QED
    BY <2>3, <2>7 DEF x
<1>2. CASE ResolveStatus(found) # "ok"
  <2>1. DecideLight(c, a) = Refuse(IF found = {} THEN "404" ELSE "ambiguous")
    BY <1>2 DEF DecideLight, OnlyOne
  <2> QED
    BY <2>1, RefuseFact DEF Replies
<1> QED
  BY <1>1, <1>2

LEMMA LightsFact ==
  ASSUME NEW c \in Catalogs, NEW a \in Asks, NEW states, a.op = "set_lights"
  PROVE  Decided(c, DecideLights(c, states, a))
<1> DEFINE found   == Lights(c, a.q)
           skipped == {o.ga : o \in {o \in found : LeftAlone(c, states, a, o)}}
           todo    == {o \in found : o.ga \notin skipped}
           devices == {o.device : o \in todo}
           d       == CHOOSE d \in devices : TRUE
           items   == {Item(o.ga, a.on) : o \in todo}
           order   == <<[device |-> d, items |-> items]>>
           lights  == LightsAtOnce(found, skipped, a)
<1>1. DecideLights(c, states, a) = lights
  BY DEF DecideLights
<1>2. \A o \in found : o \in c /\ ClassifyObject(o) = "light_control"
  BY ResolveFact DEF Lights
<1> HIDE DEF found, skipped
<1>3. \/ lights \in {Refuse("404"), Refuse("ambiguous"), Refuse("400")}
      \/ lights = Decision(<<>>, TRUE, skipped, "ok")
      \/ todo # {} /\ "none" \notin devices /\ lights = Decision(order, TRUE, skipped, "sent")
  BY DEF LightsAtOnce
<1>4. CASE lights \in {Refuse("404"), Refuse("ambiguous"), Refuse("400")}
  BY <1>1, <1>4, RefuseFact DEF Replies
<1>5. CASE lights = Decision(<<>>, TRUE, skipped, "ok")
  <2>1. Decided(c, Refuse("404"))
    BY RefuseFact DEF Replies
  <2>2. Refuse("404").sends = <<>> /\ lights.sends = <<>> /\ lights.answer = "ok"
        /\ lights = Decision(lights.sends, lights.each, lights.skipped, lights.answer)
    BY <1>5 DEF Refuse, Decision
  <2> QED
    BY <1>1, <2>1, <2>2 DEF Decided, Replies
<1>6. CASE todo # {} /\ "none" \notin devices /\ lights = Decision(order, TRUE, skipped, "sent")
  <2>1. d \in devices
    BY <1>6
  <2>2. d \in Devices
    BY <1>2, <1>6, <2>1 DEF Devices
  <2>3. IsFiniteSet(items)
    <3> DEFINE f == [o \in todo |-> Item(o.ga, a.on)]
    <3>1. IsFiniteSet(c) /\ todo \subseteq c
      BY <1>2, AgentOK
    <3>2. IsFiniteSet(todo)
      BY <3>1, FS_Subset
    <3>3. DOMAIN f = todo /\ f = [x \in DOMAIN f |-> f[x]] /\ \A o \in todo : f[o] = Item(o.ga, a.on)
      OBVIOUS
    <3>4. items = {f[o] : o \in todo}
      BY <3>3
    <3> HIDE DEF f, todo, items
    <3>5. IsFiniteSet({f[x] : x \in DOMAIN f})
      BY <3>2, <3>3, FiniteRange
    <3> QED
      BY <3>3, <3>4, <3>5
  <2>4. \A item \in items : Fits(c, item)
    <3>1. a.on \in Values /\ a.on # "warm"
      BY AgentOK DEF Values
    <3> SUFFICES ASSUME NEW o \in todo
                 PROVE  Fits(c, Item(o.ga, a.on))
      OBVIOUS
    <3> QED
      BY <1>2, <3>1, ItemFact
  <2> HIDE DEF d, items, todo, devices
  <2> DEFINE s == [device |-> d, items |-> items]
  <2>5. s.device = d /\ s.items = items
    OBVIOUS
  <2>6. lights = Decision(<<s>>, TRUE, skipped, "sent")
    BY <1>6
  <2> HIDE DEF s
  <2>7. Goes(c, s)
    BY <2>2, <2>3, <2>4, <2>5 DEF Goes
  <2>8. IsSeq(<<s>>) /\ Len(<<s>>) = 1 /\ <<s>>[1] = s
    BY SingleFact, FromSeq
  <2>9. lights.sends = <<s>> /\ lights.answer = "sent"
        /\ lights = Decision(lights.sends, lights.each, lights.skipped, lights.answer)
    BY <2>6 DEF Decision
  <2> HIDE DEF lights
  <2> QED
    BY <1>1, <2>7, <2>8, <2>9 DEF Decided, Replies
<1> QED
  BY <1>3, <1>4, <1>5, <1>6
LEMMA CommandsFact ==
  ASSUME NEW c \in Catalogs, NEW a \in Asks, NEW states, a.op = "set_commands"
  PROVE  Decided(c, DecideCommands(c, states, a))
<1> DEFINE asked   == {o \in c : o.ga \in {i.ga : i \in a.items}}
           loaded  == asked \cup UNION {UNION {ByName(c, name)
                                                 : name \in Words(StatusSiblingNames(o))} : o \in asked}
           current(i) == states[FeedbackOf(c, ObjectAt(c, i.ga), loaded).ga]
           skipped == {i \in a.items : a.skip /\ current(i) = i.value}
           todo    == a.items \ skipped
           at      == {ObjectAt(c, i.ga).device : i \in todo}
           devices == SetToSeq(at)
           part(d) == {i \in todo : ObjectAt(c, i.ga).device = devices[d]}
           order   == [d \in 1..Len(devices) |-> [device |-> devices[d], items |-> part(d)]]
           gas     == {i.ga : i \in skipped}
           answer  == IF todo = {} THEN "ok" ELSE "sent"
<1>1. DecideCommands(c, states, a) =
        IF \E i \in a.items : ~Sendable(c, i.ga) \/ ~Valid(c, i) THEN Refuse("400")
        ELSE Decision(order, FALSE, gas, answer)
  BY DEF DecideCommands
<1>2. IsFiniteSet(a.items) /\ \A i \in a.items : i = Item(i.ga, i.value) /\ i.value \in Values
  BY AgentOK
<1>3. todo \subseteq a.items
  OBVIOUS
<1>4. answer \in Replies
  BY DEF Replies
<1> HIDE DEF todo, gas, answer
<1>5. IsFiniteSet(todo)
  BY <1>2, <1>3, FS_Subset
<1>6. IsFiniteSet(at)
  <2> DEFINE f == [i \in todo |-> ObjectAt(c, i.ga).device]
  <2>1. DOMAIN f = todo /\ f = [x \in DOMAIN f |-> f[x]] /\ at = {f[i] : i \in todo}
    OBVIOUS
  <2> HIDE DEF f, at
  <2>2. IsFiniteSet({f[x] : x \in DOMAIN f})
    BY <1>5, <2>1, FiniteRange
  <2> QED
    BY <2>1, <2>2
<1> HIDE DEF at
<1>7. devices \in Seq(at)
  BY <1>6, SetToSeqFact
<1> HIDE DEF devices
<1>8. CASE \E i \in a.items : ~Sendable(c, i.ga) \/ ~Valid(c, i)
  BY <1>1, <1>8, RefuseFact DEF Replies
<1>9. CASE \A i \in a.items : Sendable(c, i.ga) /\ Valid(c, i)
  <2>1. DecideCommands(c, states, a) = Decision(order, FALSE, gas, answer)
    BY <1>1, <1>9
  <2>2. \A d \in 1..Len(devices) : Goes(c, order[d])
    <3> SUFFICES ASSUME NEW d \in 1..Len(devices)
                 PROVE  Goes(c, order[d])
      OBVIOUS
    <3>1. devices[d] \in Devices
      <4>1. devices[d] \in at
        BY <1>7
      <4> QED
        BY <1>3, <1>9, <4>1, ObjectFact DEF at
    <3>2. part(d) \subseteq a.items
      BY <1>3
    <3>3. order[d].device = devices[d] /\ order[d].items = part(d)
      OBVIOUS
    <3> HIDE DEF order, part
    <3>4. \A i \in part(d) : Fits(c, i)
      <4> SUFFICES ASSUME NEW i \in part(d)
                   PROVE  Fits(c, i)
        OBVIOUS
      <4>1. i \in a.items
        BY <3>2
      <4>2. Known(c, i.ga)
        BY <1>9, <4>1 DEF Sendable
      <4>3. Harmless(c, i)
        BY <1>9, <4>1 DEF Valid, Harmless
      <4>4. LightsWiredApart => ClassifyObject(ObjectAt(c, i.ga)) # "light_status"
        BY <4>1, <4>2 DEF LightsWiredApart
      <4> QED
        BY <1>2, <4>1, <4>2, <4>3, <4>4 DEF Fits
    <3>5. IsFiniteSet(part(d))
      BY <1>2, <3>2, FS_Subset
    <3> QED
      BY <3>1, <3>3, <3>4, <3>5 DEF Goes
  <2>3. Len(devices) \in Nat
    BY <1>7
  <2>4. IsSeq(order) /\ Len(order) = Len(devices)
    BY <2>3 DEF IsSeq
  <2> HIDE DEF order
  <2> QED
    BY <1>4, <2>1, <2>2, <2>4 DEF Decided, Decision
<1> QED
  BY <1>8, <1>9

LEMMA ClimateFact ==
  ASSUME NEW c \in Catalogs, NEW a \in Asks, a.op = "set_climate"
  PROVE  Decided(c, DecideClimate(c, a))
<1> DEFINE found == Resolve(c, a.q, "climate", "climate_setpoint")
           relay == Resolve(c, a.q, "all", "heat_relay_control")
           o == CHOOSE o \in found : TRUE
           p == CHOOSE p \in relay : TRUE
           x == Item(o.ga, a.warm)
           y == Item(p.ga, a.on)
           both == a.on # "none" /\ Cardinality(relay) = 1
<1>1. CASE ResolveStatus(found) = "ok"
  <2>1. DecideClimate(c, a) = Steps(c, <<x>> \o IF both THEN <<y>> ELSE <<>>, "sent")
    BY <1>1 DEF DecideClimate, OnlyOne
  <2>2. o \in found
    BY <1>1, OneFound
  <2>3. o \in c /\ ClassifyObject(o) = "climate_setpoint"
    BY <2>2, ResolveFact
  <2> HIDE DEF o
  <2>4. Fits(c, x)
    <3>1. SetpointsAreNumbers => ~o.boolean
      BY <2>3 DEF SetpointsAreNumbers
    <3>2. a.warm \in Values
      BY AgentOK DEF Values
    <3> QED
      BY <2>3, <3>1, <3>2, ItemFact
  <2>5. x = Item(x.ga, x.value) /\ y = Item(y.ga, y.value)
    BY DEF Item
  <2>6. both => Fits(c, y)
    <3> SUFFICES ASSUME both
                 PROVE  Fits(c, y)
      OBVIOUS
    <3>1. p \in relay
      BY FS_EmptySet
    <3>2. p \in c /\ ClassifyObject(p) = "heat_relay_control"
      BY <3>1, ResolveFact
    <3>3. a.on \in Values /\ a.on # "warm"
      BY AgentOK DEF Values
    <3> HIDE DEF p
    <3> QED
      BY <3>2, <3>3, ItemFact
  <2> HIDE DEF x, y, both
  <2>7. CASE both
    <3>1. <<x>> \o <<y>> = <<x, y>>
      BY PairFact
    <3>2. Decided(c, Steps(c, <<x, y>>, "sent"))
      BY <2>4, <2>5, <2>6, <2>7, TwoSteps DEF Replies
    <3> QED
      BY <2>1, <2>7, <3>1, <3>2
  <2>8. CASE ~both
    <3>1. <<x>> \o <<>> = <<x>>
      OBVIOUS
    <3>2. Decided(c, Steps(c, <<x>>, "sent"))
      BY <2>4, <2>5, OneStep DEF Replies
    <3> QED
      BY <2>1, <2>8, <3>1, <3>2
  <2> QED
    BY <2>7, <2>8
<1>2. CASE ResolveStatus(found) # "ok"
  <2>1. DecideClimate(c, a) = Refuse(IF found = {} THEN "404" ELSE "ambiguous")
    BY <1>2 DEF DecideClimate, OnlyOne
  <2> QED
    BY <2>1, RefuseFact DEF Replies
<1> QED
  BY <1>1, <1>2

LEMMA AutoHeatingFact ==
  ASSUME NEW c \in Catalogs, NEW a \in Asks, a.op = "set_auto_heating"
  PROVE  Decided(c, DecideAutoHeating(c, a))
<1> DEFINE x == Item(AutoHeatingGA, a.on)
<1>1. x = Item(x.ga, x.value) /\ x.ga = AutoHeatingGA /\ x.value = a.on
  BY DEF Item
<1>2. a.on \in Values /\ a.on # "warm"
  BY AgentOK DEF Values
<1>3. Sendable(c, x.ga) => Fits(c, x)
  <2> SUFFICES ASSUME Sendable(c, AutoHeatingGA)
               PROVE  Fits(c, x)
    BY <1>1
  <2> DEFINE o == ObjectAt(c, AutoHeatingGA)
  <2>1. o \in c /\ o.ga = AutoHeatingGA
    BY ObjectFact DEF Sendable
  <2>2. LightsWiredApart => ClassifyObject(o) # "light_status"
    BY <2>1 DEF LightsWiredApart
  <2> HIDE DEF o
  <2>3. Fits(c, Item(o.ga, a.on))
    BY <1>2, <2>1, <2>2, ItemFact
  <2> QED
    BY <2>1, <2>3
<1> HIDE DEF x
<1>4. Decided(c, Steps(c, <<x>>, "sent"))
  BY <1>1, <1>3, OneStep DEF Replies
<1> QED
  BY <1>4 DEF DecideAutoHeating, x
LEMMA FirstFoundFact ==
  ASSUME NEW c, NEW queries
  PROVE  \A o \in FirstFound(c, queries) : o \in c /\ ClassifyObject(o) = "zigbee_appliance"
<1> DEFINE found(i) == Resolve(c, queries[i], "appliance", "any")
           hits     == {i \in 1..Len(queries) : found(i) # {}}
<1>1. \A i : \A o \in found(i) : o \in c /\ ClassifyObject(o) = "zigbee_appliance"
  BY ResolveFact DEF RolesForKind
<1>2. FirstFound(c, queries) = IF hits = {} THEN {} ELSE found(Min(hits))
  BY DEF FirstFound
<1> HIDE DEF found, hits
<1> QED
  BY <1>1, <1>2

LEMMA KettleFact ==
  ASSUME NEW c \in Catalogs, NEW a \in Asks, a.op = "set_kettle"
  PROVE  Decided(c, DecideKettle(c, a))
<1> DEFINE found     == KettleWritten(c)
           setpoints == KettleSetpoints(found)
           switches  == {o.ga : o \in KettleCommands(found)}
           gas       == IF switches = {} /\ Known(c, KettleGA) THEN {KettleGA} ELSE switches
           o         == CHOOSE o \in setpoints : TRUE
           x         == Item(o.ga, a.warm)
           first     == IF a.warm = "none" THEN <<>> ELSE <<x>>
           ga        == CHOOSE ga \in gas : TRUE
           y         == Item(ga, a.on)
           d         == DecideKettle(c, a)
<1>1. \/ d = Refuse("404")
      \/ /\ a.warm = "none" \/ Cardinality(setpoints) = 1
         /\ \/ \E answer \in {"sent", "404", "ambiguous"} : d = Steps(c, first, answer)
            \/ a.on # "none" /\ gas # {} /\ d = Steps(c, Append(first, y), "sent")
  <2>1. d = KettleSteps(c, a, setpoints, switches)
    BY DEF DecideKettle
  <2> HIDE DEF d, setpoints, switches
  <2> QED
    BY <2>1 DEF KettleSteps
<1>2. \A p \in found : p \in c /\ ClassifyObject(p) = "zigbee_appliance"
  BY FirstFoundFact DEF KettleWritten
<1> HIDE DEF found
<1>3. x = Item(x.ga, x.value) /\ y = Item(y.ga, y.value) /\ y.ga = ga /\ y.value = a.on
  <2> HIDE DEF o, ga
  <2> QED
    BY DEF Item
<1>4. a.warm # "none" /\ Cardinality(setpoints) = 1 => Fits(c, x)
  <2> SUFFICES ASSUME a.warm # "none", Cardinality(setpoints) = 1
               PROVE  Fits(c, x)
    OBVIOUS
  <2>1. o \in setpoints
    BY FS_EmptySet
  <2>2. o \in c /\ ClassifyObject(o) = "zigbee_appliance" /\ IsKettleSetpoint(o) /\ o \in found
    BY <1>2, <2>1 DEF KettleSetpoints
  <2>3. a.warm \in Values
    BY AgentOK DEF Values
  <2>4. SetpointsAreNumbers => ~o.boolean
    BY <2>2 DEF SetpointsAreNumbers
  <2> HIDE DEF o
  <2> QED
    BY <2>2, <2>3, <2>4, ItemFact
<1>5. a.on # "none" /\ gas # {} => Fits(c, y)
  <2> SUFFICES ASSUME a.on # "none", gas # {}
               PROVE  Fits(c, y)
    OBVIOUS
  <2>1. ga \in gas
    OBVIOUS
  <2>2. PICK p \in c : p.ga = ga /\ (LightsWiredApart => ClassifyObject(p) # "light_status")
    <3>1. CASE ga \in switches
      <4>1. PICK p \in KettleCommands(found) : ga = p.ga
        BY <3>1
      <4>2. p \in c /\ ClassifyObject(p) = "zigbee_appliance"
        BY <1>2, <4>1 DEF KettleCommands
      <4> QED
        BY <4>1, <4>2
    <3>2. CASE ga \notin switches
      <4>1. Known(c, KettleGA) /\ ga = KettleGA
        BY <2>1, <3>2
      <4>2. PICK p \in c : p.ga = KettleGA
        BY <4>1 DEF Known
      <4>3. LightsWiredApart => ClassifyObject(p) # "light_status"
        BY <4>2 DEF LightsWiredApart
      <4> QED
        BY <4>1, <4>2, <4>3
    <3> QED
      BY <3>1, <3>2
  <2>3. a.on \in Values /\ a.on # "warm"
    BY AgentOK DEF Values
  <2> HIDE DEF ga, gas
  <2>4. Fits(c, Item(p.ga, a.on))
    BY <2>2, <2>3, ItemFact
  <2> QED
    BY <2>2, <2>4
<1> HIDE DEF x, y, gas, setpoints, d
<1>6. ASSUME d = Refuse("404")
      PROVE  Decided(c, d)
  BY <1>6, RefuseFact DEF Replies
<1>7. ASSUME NEW answer \in {"sent", "404", "ambiguous"}, d = Steps(c, first, answer),
             a.warm = "none" \/ Cardinality(setpoints) = 1
      PROVE  Decided(c, d)
  <2>1. answer \in Replies
    BY DEF Replies
  <2>2. Decided(c, Steps(c, <<>>, answer)) /\ (a.warm # "none" => Decided(c, Steps(c, <<x>>, answer)))
    BY <1>3, <1>4, <1>7, <2>1, NoStep, OneStep
  <2> QED
    BY <1>7, <2>2
<1>8. ASSUME a.warm = "none" \/ Cardinality(setpoints) = 1, a.on # "none", gas # {},
             d = Steps(c, Append(first, y), "sent")
      PROVE  Decided(c, d)
  <2>1. "sent" \in Replies
    BY DEF Replies
  <2>2. Fits(c, y) /\ (a.warm # "none" => Fits(c, x))
    BY <1>4, <1>5, <1>8
  <2>3. Decided(c, Steps(c, <<y>>, "sent"))
    BY <1>3, <2>1, <2>2, OneStep
  <2>4. a.warm # "none" => Decided(c, Steps(c, <<x, y>>, "sent"))
    BY <1>3, <2>1, <2>2, TwoSteps
  <2>5. Append(first, y) = IF a.warm = "none" THEN <<y>> ELSE <<x, y>>
    BY PairFact
  <2> HIDE DEF first
  <2>6. Decided(c, Steps(c, Append(first, y), "sent"))
    BY <2>3, <2>4, <2>5
  <2> QED
    BY <1>8, <2>6
<1>9. Decided(c, d)
  BY <1>1, <1>6, <1>7, <1>8
<1> QED
  BY <1>9 DEF d

LEMMA DecideFact ==
  ASSUME NEW c \in Catalogs, NEW a \in Asks, NEW states
  PROVE  Decided(c, Decide(c, states, a))
<1>1. a.op \in {"set_light", "set_lights", "set_commands", "set_climate", "set_auto_heating",
                "set_kettle"}
  BY AgentOK
<1>2. CASE a.op = "set_light"
  BY <1>2, LightFact DEF Decide
<1>3. CASE a.op = "set_lights"
  BY <1>3, LightsFact DEF Decide
<1>4. CASE a.op = "set_commands"
  BY <1>4, CommandsFact DEF Decide
<1>5. CASE a.op = "set_climate"
  BY <1>5, ClimateFact DEF Decide
<1>6. CASE a.op = "set_auto_heating"
  BY <1>6, AutoHeatingFact DEF Decide
<1>7. CASE a.op = "set_kettle"
  BY <1>7, KettleFact DEF Decide
<1> QED
  BY <1>1, <1>2, <1>3, <1>4, <1>5, <1>6, <1>7
-----------------------------------------------------------------------------
(* Requests and the commands they made.                                    *)

IsRequest(r) == r = [ask |-> r.ask, sends |-> r.sends, each |-> r.each, skipped |-> r.skipped,
                     answer |-> r.answer, phase |-> r.phase]
IsCommand(c) == c = [req |-> c.req, device |-> c.device, items |-> c.items, row |-> c.row,
                     acked |-> c.acked]

RequestOK(c, r) ==
  /\ IsRequest(r) /\ IsSeq(r.sends)
  /\ \A k \in 1..Len(r.sends) : Goes(c, r.sends[k])
  /\ r.answer \in Answers /\ r.phase \in {"send", "commit", "done"}
  /\ r.phase = "send" => r.sends # <<>>

CommandOK(c, m) ==
  /\ IsCommand(m) /\ Goes(c, m) /\ m.row \in {"added", "kept", "lost"}

\* A row is lost only with the request, and is settled when the request is.
SettledBy(m, r) ==
  /\ m.row = "lost" => r.answer = "500" /\ r.phase = "done"
  /\ r.phase = "done" => m.row # "added"

Asked ==
  /\ IsSeq(reqs) /\ \A n \in DOMAIN reqs : RequestOK(catalog, reqs[n])

Ordered ==
  /\ IsSeq(cmds)
  /\ \A i \in DOMAIN cmds :
       /\ CommandOK(catalog, cmds[i])
       /\ cmds[i].req \in DOMAIN reqs /\ SettledBy(cmds[i], reqs[cmds[i].req])

Enqueued ==
  /\ queue = [d \in Devices |-> queue[d]]
  /\ \A d \in Devices : IsSeq(queue[d]) /\ \A j \in DOMAIN queue[d] :
       queue[d][j] \in DOMAIN cmds /\ cmds[queue[d][j]].device = d

TelegramOK(t, gas) == t = Telegram(t.ga, t.value, t.wall) /\ t.ga \in gas /\ t.value \in Values

Measured ==
  /\ catalog \in Catalogs
  /\ bus \in [{o.ga : o \in catalog} -> Values]
  /\ seen \in [{o.ga : o \in catalog} -> Values \cup {Unknown}]
  /\ due \subseteq DOMAIN bus
  /\ IsSeq(feed) /\ \A j \in DOMAIN feed : TelegramOK(feed[j], DOMAIN bus)

AgentInv == Measured /\ Asked /\ Ordered /\ Enqueued

LEMMA EmptyFact ==
  IsSeq(<<>>) /\ DOMAIN <<>> = {} /\ Len(<<>>) = 0
<1> DEFINE s == <<>>
<1>1. s \in Seq({}) /\ Len(s) = 0 /\ DOMAIN s = {}
  OBVIOUS
<1> HIDE DEF s
<1>2. IsSeq(s)
  BY <1>1, FromSeq
<1> QED
  BY <1>1, <1>2 DEF s

LEMMA AgentInit_AgentInv ==
  ASSUME AgentInit
  PROVE  AgentInv
<1> USE DEF AgentInit
<1>1. Measured
  <2>1. bus \in [{o.ga : o \in catalog} -> Values] /\ DOMAIN bus = {o.ga : o \in catalog}
    BY DEF Values
  <2>2. seen \in [{o.ga : o \in catalog} -> Values \cup {Unknown}]
    BY <2>1
  <2> QED
    BY <2>1, <2>2, EmptyFact DEF Measured
<1>2. Asked /\ Ordered
  BY EmptyFact DEF Asked, Ordered
<1>3. Enqueued
  BY EmptyFact DEF Enqueued
<1> QED
  BY <1>1, <1>2, <1>3 DEF AgentInv

LEMMA AskStep ==
  ASSUME AgentInv, NEW a \in Asks, Ask(a)
  PROVE  AgentInv'
<1>1. PICK d : /\ d = Decide(catalog, seen, a)
               /\ reqs' = Append(reqs, [ask |-> a, sends |-> d.sends, each |-> d.each,
                              skipped |-> d.skipped, answer |-> d.answer,
                              phase |-> IF d.sends = <<>> THEN "done" ELSE "send"])
  BY DEF Ask
<1>2. catalog \in Catalogs
  BY DEF AgentInv, Measured
<1>3. Decided(catalog, d)
  BY <1>1, <1>2, DecideFact
<1> DEFINE r == [ask |-> a, sends |-> d.sends, each |-> d.each,
                 skipped |-> d.skipped, answer |-> d.answer,
                 phase |-> IF d.sends = <<>> THEN "done" ELSE "send"]
<1>4. /\ r.ask = a /\ r.sends = d.sends /\ r.answer = d.answer
      /\ r.phase = IF d.sends = <<>> THEN "done" ELSE "send"
      /\ IsRequest(r)
  BY DEF IsRequest
<1>5. RequestOK(catalog, r)
  <2> HIDE DEF r
  <2> QED
    BY <1>3, <1>4 DEF RequestOK, Decided, Replies, Answers
<1>6. reqs' = Append(reqs, r)
  BY <1>1
<1> HIDE DEF r
<1>7. IsSeq(reqs) /\ DOMAIN reqs = 1..Len(reqs) /\ Len(reqs) \in Nat
  BY SeqFact DEF AgentInv, Asked
<1>8. /\ IsSeq(reqs') /\ DOMAIN reqs' = 1..(Len(reqs) + 1)
      /\ reqs'[Len(reqs) + 1] = r
      /\ \A n \in 1..Len(reqs) : reqs'[n] = reqs[n]
  BY <1>6, <1>7, AppendFact
<1>9. UNCHANGED <<catalog, bus, seen, feed, queue, cmds, due, presses, failures>>
  BY DEF Ask
<1>10. Asked'
  <2>1. \A n \in 1..(Len(reqs) + 1) : n \in 1..Len(reqs) \/ n = Len(reqs) + 1
    BY <1>7
  <2>2. \A n \in DOMAIN reqs' : RequestOK(catalog, reqs'[n])
    BY <1>5, <1>7, <1>8, <2>1 DEF AgentInv, Asked
  <2> QED
    BY <1>8, <1>9, <2>2 DEF Asked
<1>11. Ordered'
  <2>1. \A i \in DOMAIN cmds : cmds[i].req \in DOMAIN reqs' /\ reqs'[cmds[i].req] = reqs[cmds[i].req]
    BY <1>7, <1>8 DEF AgentInv, Ordered
  <2> QED
    BY <1>9, <2>1 DEF AgentInv, Ordered
<1>12. Measured' /\ Enqueued'
  BY <1>9 DEF AgentInv, Measured, Enqueued, TelegramOK
<1> QED
  BY <1>10, <1>11, <1>12 DEF AgentInv

LEMMA RowsFact ==
  ASSUME AgentInv, NEW n, NEW fate \in {"kept", "lost"}, cmds' = RowsOf(n, fate),
         UNCHANGED catalog
  PROVE  /\ DOMAIN cmds' = DOMAIN cmds /\ IsSeq(cmds')
         /\ \A i \in DOMAIN cmds :
              /\ CommandOK(catalog, cmds'[i])
              /\ cmds'[i].req = cmds[i].req /\ cmds'[i].device = cmds[i].device
              /\ cmds'[i].items = cmds[i].items /\ cmds'[i].acked = cmds[i].acked
              /\ cmds'[i].row = IF cmds[i].req = n /\ cmds[i].row = "added" THEN fate ELSE cmds[i].row
<1>1. DOMAIN cmds' = DOMAIN cmds /\ cmds' = [i \in DOMAIN cmds' |-> cmds'[i]]
  BY DEF RowsOf
<1>2. IsSeq(cmds')
  BY <1>1, UpdatedFact DEF AgentInv, Ordered
<1> SUFFICES ASSUME NEW i \in DOMAIN cmds
             PROVE  /\ CommandOK(catalog, cmds'[i])
                    /\ cmds'[i].req = cmds[i].req /\ cmds'[i].device = cmds[i].device
                    /\ cmds'[i].items = cmds[i].items /\ cmds'[i].acked = cmds[i].acked
                    /\ cmds'[i].row = IF cmds[i].req = n /\ cmds[i].row = "added"
                                         THEN fate ELSE cmds[i].row
  BY <1>1, <1>2
<1>3. cmds'[i] = IF cmds[i].req = n /\ cmds[i].row = "added"
                   THEN [cmds[i] EXCEPT !.row = fate] ELSE cmds[i]
  BY DEF RowsOf
<1>4. CommandOK(catalog, cmds[i])
  BY DEF AgentInv, Ordered
<1>5. ASSUME NEW m, NEW c, CommandOK(catalog, c), m = [c EXCEPT !.row = fate]
      PROVE  /\ IsCommand(m) /\ m.req = c.req /\ m.device = c.device /\ m.items = c.items
             /\ m.acked = c.acked /\ m.row = fate
  <2>1. m = [req |-> c.req, device |-> c.device, items |-> c.items, row |-> fate, acked |-> c.acked]
    BY <1>5 DEF CommandOK, IsCommand
  <2> QED
    BY <2>1 DEF IsCommand
<1>6. CASE cmds[i].req = n /\ cmds[i].row = "added"
  <2>1. cmds'[i] = [cmds[i] EXCEPT !.row = fate]
    BY <1>3, <1>6
  <2>2. /\ IsCommand(cmds'[i]) /\ cmds'[i].req = cmds[i].req /\ cmds'[i].device = cmds[i].device
        /\ cmds'[i].items = cmds[i].items /\ cmds'[i].acked = cmds[i].acked /\ cmds'[i].row = fate
    BY <1>4, <1>5, <2>1
  <2> QED
    BY <1>4, <1>6, <2>2 DEF CommandOK, Goes
<1>7. CASE ~(cmds[i].req = n /\ cmds[i].row = "added")
  BY <1>3, <1>4, <1>7
<1> QED
  BY <1>6, <1>7
LEMMA RequestChanged ==
  ASSUME AgentInv, NEW n \in DOMAIN reqs, NEW r, RequestOK(catalog, r), UNCHANGED catalog,
         reqs' = [m \in DOMAIN reqs |-> IF m = n THEN r ELSE reqs[m]]
  PROVE  /\ Asked' /\ DOMAIN reqs' = DOMAIN reqs /\ reqs'[n] = r
         /\ \A m \in DOMAIN reqs : m # n => reqs'[m] = reqs[m]
<1>1. DOMAIN reqs' = DOMAIN reqs /\ reqs' = [m \in DOMAIN reqs' |-> reqs'[m]]
  OBVIOUS
<1>2. IsSeq(reqs')
  BY <1>1, UpdatedFact DEF AgentInv, Asked
<1>3. \A m \in DOMAIN reqs' : RequestOK(catalog, reqs'[m])
  BY <1>1 DEF AgentInv, Asked
<1> QED
  BY <1>1, <1>2, <1>3 DEF Asked

LEMMA PatchFact ==
  ASSUME NEW o, IsRequest(o)
  PROVE  /\ \A order, phase :
              [o EXCEPT !.sends = order, !.phase = phase] =
                [ask |-> o.ask, sends |-> order, each |-> o.each, skipped |-> o.skipped,
                 answer |-> o.answer, phase |-> phase]
         /\ \A order, phase, answer :
              [o EXCEPT !.phase = phase, !.sends = order, !.answer = answer] =
                [ask |-> o.ask, sends |-> order, each |-> o.each, skipped |-> o.skipped,
                 answer |-> answer, phase |-> phase]
<1> DEFINE F == {"ask", "sends", "each", "skipped", "answer", "phase"}
<1>1. o = [f \in F |-> o[f]]
  BY DEF IsRequest
<1> SUFFICES ASSUME NEW order, NEW phase, NEW answer
             PROVE  /\ [o EXCEPT !.sends = order, !.phase = phase] =
                         [ask |-> o.ask, sends |-> order, each |-> o.each, skipped |-> o.skipped,
                          answer |-> o.answer, phase |-> phase]
                    /\ [o EXCEPT !.phase = phase, !.sends = order, !.answer = answer] =
                         [ask |-> o.ask, sends |-> order, each |-> o.each, skipped |-> o.skipped,
                          answer |-> answer, phase |-> phase]
  OBVIOUS
<1> DEFINE p == [o EXCEPT !.sends = order, !.phase = phase]
           q == [o EXCEPT !.phase = phase, !.sends = order, !.answer = answer]
<1>2. p = [f \in F |-> IF f = "phase" THEN phase ELSE IF f = "sends" THEN order ELSE o[f]]
  BY <1>1
<1>3. q = [f \in F |-> IF f = "answer" THEN answer ELSE
                       IF f = "sends" THEN order ELSE IF f = "phase" THEN phase ELSE o[f]]
  BY <1>1
<1> HIDE DEF p, q
<1>4. p = [ask |-> o.ask, sends |-> order, each |-> o.each, skipped |-> o.skipped,
           answer |-> o.answer, phase |-> phase]
  BY <1>2
<1>5. q = [ask |-> o.ask, sends |-> order, each |-> o.each, skipped |-> o.skipped,
           answer |-> answer, phase |-> phase]
  BY <1>3
<1> QED
  BY <1>4, <1>5 DEF p, q

\* The phase that a commit leads to.
NextPhase(r) == IF r.sends = <<>> THEN "done" ELSE "send"

LEMMA CommitStep ==
  ASSUME AgentInv, NEW n \in DOMAIN reqs, Commit(n)
  PROVE  AgentInv'
<1> DEFINE old == reqs[n]
           r == [old EXCEPT !.phase = NextPhase(old)]
<1>1. /\ old.phase = "commit" /\ cmds' = RowsOf(n, "kept")
      /\ reqs' = [m \in DOMAIN reqs |-> IF m = n THEN r ELSE reqs[m]]
      /\ UNCHANGED <<catalog, bus, seen, feed, queue, due, presses, failures>>
  <2>1. reqs = [m \in DOMAIN reqs |-> reqs[m]]
    BY SeqFact DEF AgentInv, Asked
  <2> QED
    BY <2>1 DEF Commit, NextPhase
<1>2. RequestOK(catalog, old)
  BY DEF AgentInv, Asked
<1>3. r = [ask |-> old.ask, sends |-> old.sends, each |-> old.each, skipped |-> old.skipped,
           answer |-> old.answer, phase |-> NextPhase(old)]
  <2> HIDE DEF old
  <2> QED
    BY <1>2 DEF RequestOK, IsRequest
<1> HIDE DEF r, old
<1>4. /\ r.ask = old.ask /\ r.sends = old.sends /\ r.answer = old.answer /\ r.phase = NextPhase(old)
      /\ IsRequest(r)
  BY <1>3 DEF IsRequest
<1>5. RequestOK(catalog, r)
  BY <1>2, <1>4 DEF RequestOK, NextPhase
<1>6. /\ Asked' /\ DOMAIN reqs' = DOMAIN reqs /\ reqs'[n] = r
      /\ \A m \in DOMAIN reqs : m # n => reqs'[m] = reqs[m]
  BY <1>1, <1>5, RequestChanged
<1>7. /\ DOMAIN cmds' = DOMAIN cmds /\ IsSeq(cmds')
      /\ \A i \in DOMAIN cmds :
           /\ CommandOK(catalog, cmds'[i])
           /\ cmds'[i].req = cmds[i].req /\ cmds'[i].device = cmds[i].device
           /\ cmds'[i].row = IF cmds[i].req = n /\ cmds[i].row = "added" THEN "kept" ELSE cmds[i].row
  BY <1>1, RowsFact
<1>8. Ordered'
  <2> SUFFICES ASSUME NEW i \in DOMAIN cmds
               PROVE  cmds'[i].req \in DOMAIN reqs' /\ SettledBy(cmds'[i], reqs'[cmds'[i].req])
    BY <1>1, <1>7 DEF Ordered
  <2>1. cmds[i].req \in DOMAIN reqs /\ SettledBy(cmds[i], reqs[cmds[i].req])
    BY DEF AgentInv, Ordered
  <2>2. CASE cmds[i].req = n
    <3>1. cmds[i].row # "lost"
      BY <1>1, <2>1, <2>2 DEF SettledBy, old
    <3> QED
      BY <1>6, <1>7, <2>1, <2>2, <3>1 DEF SettledBy
  <2>3. CASE cmds[i].req # n
    BY <1>6, <1>7, <2>1, <2>3 DEF SettledBy
  <2> QED
    BY <2>2, <2>3
<1>9. Enqueued'
  BY <1>1, <1>7 DEF AgentInv, Enqueued
<1>10. Measured'
  BY <1>1 DEF AgentInv, Measured, TelegramOK
<1> QED
  BY <1>6, <1>8, <1>9, <1>10 DEF AgentInv

LEMMA CommitFailsStep ==
  ASSUME AgentInv, NEW n \in DOMAIN reqs, CommitFails(n)
  PROVE  AgentInv'
<1> DEFINE old == reqs[n]
           r == [old EXCEPT !.phase = "done", !.sends = <<>>, !.answer = "500"]
<1>1. /\ old.phase = "commit" /\ cmds' = RowsOf(n, "lost")
      /\ reqs' = [m \in DOMAIN reqs |-> IF m = n THEN r ELSE reqs[m]]
      /\ UNCHANGED <<catalog, bus, seen, feed, queue, due, presses>>
  <2>1. reqs = [m \in DOMAIN reqs |-> reqs[m]]
    BY SeqFact DEF AgentInv, Asked
  <2> QED
    BY <2>1 DEF CommitFails
<1>2. RequestOK(catalog, old)
  BY DEF AgentInv, Asked
<1>3. r = [ask |-> old.ask, sends |-> <<>>, each |-> old.each, skipped |-> old.skipped,
           answer |-> "500", phase |-> "done"]
  <2> HIDE DEF old
  <2>1. IsRequest(old)
    BY <1>2 DEF RequestOK
  <2>2. \A order, phase, answer :
          [old EXCEPT !.phase = phase, !.sends = order, !.answer = answer] =
            [ask |-> old.ask, sends |-> order, each |-> old.each, skipped |-> old.skipped,
             answer |-> answer, phase |-> phase]
    BY <2>1, PatchFact, Zenon
  <2> QED
    BY <2>2, Zenon
<1> HIDE DEF r, old
<1>4. r.sends = <<>> /\ r.answer = "500" /\ r.phase = "done" /\ IsRequest(r)
  BY <1>3 DEF IsRequest
<1>5. RequestOK(catalog, r)
  BY <1>4, EmptyFact DEF RequestOK, Answers
<1>6. /\ Asked' /\ DOMAIN reqs' = DOMAIN reqs /\ reqs'[n] = r
      /\ \A m \in DOMAIN reqs : m # n => reqs'[m] = reqs[m]
  BY <1>1, <1>5, RequestChanged
<1>7. /\ DOMAIN cmds' = DOMAIN cmds /\ IsSeq(cmds')
      /\ \A i \in DOMAIN cmds :
           /\ CommandOK(catalog, cmds'[i])
           /\ cmds'[i].req = cmds[i].req /\ cmds'[i].device = cmds[i].device
           /\ cmds'[i].row = IF cmds[i].req = n /\ cmds[i].row = "added" THEN "lost" ELSE cmds[i].row
  BY <1>1, RowsFact
<1>8. Ordered'
  <2> SUFFICES ASSUME NEW i \in DOMAIN cmds
               PROVE  cmds'[i].req \in DOMAIN reqs' /\ SettledBy(cmds'[i], reqs'[cmds'[i].req])
    BY <1>1, <1>7 DEF Ordered
  <2>1. cmds[i].req \in DOMAIN reqs /\ SettledBy(cmds[i], reqs[cmds[i].req])
    BY DEF AgentInv, Ordered
  <2>2. CASE cmds[i].req = n
    BY <1>4, <1>6, <1>7, <2>1, <2>2 DEF SettledBy
  <2>3. CASE cmds[i].req # n
    BY <1>6, <1>7, <2>1, <2>3 DEF SettledBy
  <2> QED
    BY <2>2, <2>3
<1>9. Enqueued'
  BY <1>1, <1>7 DEF AgentInv, Enqueued
<1>10. Measured'
  BY <1>1 DEF AgentInv, Measured, TelegramOK
<1> QED
  BY <1>6, <1>8, <1>9, <1>10 DEF AgentInv

LEMMA PublishStep ==
  ASSUME AgentInv, NEW n \in DOMAIN reqs, NEW reaches \in BOOLEAN, Publish(n, reaches)
  PROVE  AgentInv'
<1> DEFINE old == reqs[n]
           ph == IF old.each \/ Len(old.sends) = 1 THEN "commit" ELSE "send"
           r == [old EXCEPT !.sends = Tail(old.sends), !.phase = ph]
           s == Head(old.sends)
           c == [req |-> n, device |-> s.device, items |-> s.items, row |-> "added", acked |-> FALSE]
<1>1. /\ old.phase = "send" /\ cmds' = Append(cmds, c)
      /\ queue' = IF reaches THEN [queue EXCEPT ![c.device] = Append(@, Len(cmds) + 1)] ELSE queue
      /\ reqs' = [m \in DOMAIN reqs |-> IF m = n THEN r ELSE reqs[m]]
      /\ UNCHANGED <<catalog, bus, seen, feed, due, presses>>
  <2>1. reqs = [m \in DOMAIN reqs |-> reqs[m]]
    BY SeqFact DEF AgentInv, Asked
  <2> QED
    BY <2>1 DEF Publish
<1>2. RequestOK(catalog, old)
  BY DEF AgentInv, Asked
<1>3. r = [ask |-> old.ask, sends |-> Tail(old.sends), each |-> old.each, skipped |-> old.skipped,
           answer |-> old.answer, phase |-> ph]
  <2> HIDE DEF old, ph
  <2> QED
    BY <1>2, PatchFact DEF RequestOK
<1>4. /\ c.req = n /\ c.device = s.device /\ c.items = s.items /\ c.row = "added" /\ IsCommand(c)
  BY DEF IsCommand
<1> HIDE DEF r, old, c, s
<1>5. /\ IsSeq(Tail(old.sends)) /\ Len(Tail(old.sends)) = Len(old.sends) - 1
      /\ Len(old.sends) \in Nat /\ Len(old.sends) >= 1 /\ s = old.sends[1]
      /\ \A k \in 1..(Len(old.sends) - 1) : Tail(old.sends)[k] = old.sends[k + 1]
  BY <1>1, <1>2, TailFact DEF RequestOK, s
<1>6. r.sends = Tail(old.sends) /\ r.answer = old.answer /\ r.phase = ph /\ IsRequest(r)
  BY <1>3 DEF IsRequest
<1>7. RequestOK(catalog, r)
  <2>1. \A k \in 1..Len(r.sends) : Goes(catalog, r.sends[k])
    <3> SUFFICES ASSUME NEW k \in 1..(Len(old.sends) - 1)
                 PROVE  Goes(catalog, Tail(old.sends)[k])
      BY <1>5, <1>6
    <3>1. k + 1 \in 1..Len(old.sends)
      BY <1>5
    <3> QED
      BY <1>2, <1>5, <3>1 DEF RequestOK
  <2>2. r.phase = "send" => r.sends # <<>>
    <3>1. ph = "send" => Len(Tail(old.sends)) # 0
      BY <1>5
    <3> QED
      BY <1>6, <3>1, EmptyFact
  <2> QED
    BY <1>2, <1>5, <1>6, <2>1, <2>2 DEF RequestOK
<1>8. /\ Asked' /\ DOMAIN reqs' = DOMAIN reqs /\ reqs'[n] = r
      /\ \A m \in DOMAIN reqs : m # n => reqs'[m] = reqs[m]
  BY <1>1, <1>7, RequestChanged
<1>9. CommandOK(catalog, c) /\ c.device \in Devices
  <2>1. 1 \in 1..Len(old.sends)
    BY <1>5
  <2>2. Goes(catalog, s)
    BY <1>2, <1>5, <2>1 DEF RequestOK
  <2> QED
    BY <1>4, <2>2 DEF CommandOK, Goes
<1>10. IsSeq(cmds) /\ DOMAIN cmds = 1..Len(cmds) /\ Len(cmds) \in Nat
  BY SeqFact DEF AgentInv, Ordered
<1>11. /\ IsSeq(cmds') /\ DOMAIN cmds' = 1..(Len(cmds) + 1) /\ cmds'[Len(cmds) + 1] = c
       /\ \A i \in 1..Len(cmds) : cmds'[i] = cmds[i]
  BY <1>1, <1>10, AppendFact
<1>12. Ordered'
  <2>1. \A i \in DOMAIN cmds' : i \in DOMAIN cmds \/ i = Len(cmds) + 1
    BY <1>10, <1>11
  <2>2. ASSUME NEW i \in DOMAIN cmds
        PROVE  /\ CommandOK(catalog, cmds'[i]) /\ cmds'[i].req \in DOMAIN reqs'
               /\ SettledBy(cmds'[i], reqs'[cmds'[i].req])
    <3>1. /\ CommandOK(catalog, cmds[i]) /\ cmds[i].req \in DOMAIN reqs
          /\ SettledBy(cmds[i], reqs[cmds[i].req])
      BY DEF AgentInv, Ordered
    <3>2. cmds'[i] = cmds[i]
      BY <1>10, <1>11
    <3>3. CASE cmds[i].req # n
      BY <1>8, <3>1, <3>2, <3>3
    <3>4. CASE cmds[i].req = n
      <4>1. cmds[i].row # "lost" /\ r.phase # "done"
        BY <1>1, <1>6, <3>1, <3>4 DEF SettledBy, old
      <4> QED
        BY <1>8, <3>1, <3>2, <3>4, <4>1 DEF SettledBy
    <3> QED
      BY <3>3, <3>4
  <2>3. CommandOK(catalog, c) /\ c.req \in DOMAIN reqs' /\ SettledBy(c, reqs'[c.req])
    <3>1. r.phase # "done"
      BY <1>6
    <3> QED
      BY <1>4, <1>8, <1>9, <3>1 DEF SettledBy
  <2> QED
    BY <1>1, <1>11, <2>1, <2>2, <2>3 DEF Ordered
<1>13. Enqueued'
  <2>1. /\ queue = [d \in Devices |-> queue[d]]
        /\ \A d \in Devices : IsSeq(queue[d]) /\ \A j \in DOMAIN queue[d] :
             queue[d][j] \in DOMAIN cmds /\ cmds[queue[d][j]].device = d
    BY DEF AgentInv, Enqueued
  <2>2. queue' = [d \in Devices |-> queue'[d]]
    BY <1>1, <2>1
  <2>3. \A i \in DOMAIN cmds : i \in DOMAIN cmds' /\ cmds'[i] = cmds[i]
    BY <1>10, <1>11
  <2> SUFFICES ASSUME NEW d \in Devices
               PROVE  IsSeq(queue'[d]) /\ \A j \in DOMAIN queue'[d] :
                        queue'[d][j] \in DOMAIN cmds' /\ cmds'[queue'[d][j]].device = d
    BY <2>2 DEF Enqueued
  <2>4. CASE queue'[d] = queue[d]
    BY <2>1, <2>3, <2>4
  <2>5. CASE queue'[d] # queue[d]
    <3>1. d = c.device /\ queue'[d] = Append(queue[d], Len(cmds) + 1)
      BY <1>1, <1>9, <2>1, <2>5
    <3>2. /\ IsSeq(queue'[d]) /\ DOMAIN queue'[d] = 1..(Len(queue[d]) + 1)
          /\ queue'[d][Len(queue[d]) + 1] = Len(cmds) + 1
          /\ \A j \in 1..Len(queue[d]) : queue'[d][j] = queue[d][j]
      BY <2>1, <3>1, AppendFact
    <3>3. DOMAIN queue[d] = 1..Len(queue[d]) /\ Len(queue[d]) \in Nat
      BY <2>1, SeqFact
    <3> SUFFICES ASSUME NEW j \in DOMAIN queue'[d]
                 PROVE  queue'[d][j] \in DOMAIN cmds' /\ cmds'[queue'[d][j]].device = d
      BY <3>2
    <3>4. j \in DOMAIN queue[d] \/ j = Len(queue[d]) + 1
      BY <3>2, <3>3
    <3>5. CASE j \in DOMAIN queue[d]
      BY <2>1, <2>3, <3>2, <3>3, <3>5
    <3>6. CASE j = Len(queue[d]) + 1
      <4>1. Len(cmds) + 1 \in DOMAIN cmds'
        BY <1>10, <1>11
      <4> QED
        BY <1>11, <3>1, <3>2, <3>6, <4>1
    <3> QED
      BY <3>4, <3>5, <3>6
  <2> QED
    BY <2>4, <2>5
<1>14. Measured'
  BY <1>1 DEF AgentInv, Measured, TelegramOK
<1> QED
  BY <1>8, <1>12, <1>13, <1>14 DEF AgentInv
-----------------------------------------------------------------------------
(* What happens on the bus and is told about it.                           *)

Telegrams(W, v) == {Telegram(ga, v[ga], FALSE) : ga \in W}

LEMMA WiderSeqFact ==
  ASSUME NEW A, NEW B, A \subseteq B, NEW q \in Seq(A)
  PROVE  q \in Seq(B)
<1>1. Len(q) \in Nat /\ q \in [1..Len(q) -> A]
  OBVIOUS
<1>2. q \in [1..Len(q) -> B]
  BY <1>1
<1> QED
  BY <1>1, <1>2

\* A feed and the telegrams about W after it.
AndThen(f, W, v) == f \o SetToSeq(Telegrams(W, v))

\* What a feed with telegrams about W at its end is made of.
EndsWith(g, f, W, v) ==
  /\ IsSeq(g) /\ Len(f) \in Nat /\ Len(g) \in Nat /\ Len(f) <= Len(g)
  /\ DOMAIN f = 1..Len(f) /\ DOMAIN g = 1..Len(g)
  /\ \A j \in 1..Len(f) : g[j] = f[j]
  /\ \A j \in 1..Len(g) : j > Len(f) => \E ga \in W : g[j] = Telegram(ga, v[ga], FALSE)
  /\ \A ga \in W : \E j \in 1..Len(g) : j > Len(f) /\ g[j] = Telegram(ga, v[ga], FALSE)

LEMMA ToldFact ==
  ASSUME NEW f, IsSeq(f), NEW W, IsFiniteSet(W), NEW v
  PROVE  EndsWith(AndThen(f, W, v), f, W, v)
<1> DEFINE g == AndThen(f, W, v)
           new == SetToSeq(Telegrams(W, v))
           S   == {f[j] : j \in 1..Len(f)} \cup Telegrams(W, v)
<1>1. IsFiniteSet(Telegrams(W, v))
  <2> DEFINE h == [ga \in W |-> Telegram(ga, v[ga], FALSE)]
  <2>1. DOMAIN h = W /\ h = [x \in DOMAIN h |-> h[x]] /\ Telegrams(W, v) = {h[ga] : ga \in W}
    BY DEF Telegrams
  <2> HIDE DEF h
  <2>2. IsFiniteSet({h[x] : x \in DOMAIN h})
    BY <2>1, FiniteRange
  <2> QED
    BY <2>1, <2>2
<1>2. new \in Seq(Telegrams(W, v)) /\ \A x \in Telegrams(W, v) : \E n \in 1..Len(new) : new[n] = x
  BY <1>1, SetToSeqFact
<1>3. f \in Seq({f[j] : j \in 1..Len(f)}) /\ Len(f) \in Nat /\ DOMAIN f = 1..Len(f)
  BY SeqFact
<1> HIDE DEF new
<1>4. f \in Seq(S) /\ new \in Seq(S)
  <2>1. {f[j] : j \in 1..Len(f)} \subseteq S /\ Telegrams(W, v) \subseteq S
    OBVIOUS
  <2> HIDE DEF S
  <2>2. f \in Seq(S)
    BY <1>3, <2>1, WiderSeqFact
  <2>3. new \in Seq(S)
    BY <1>2, <2>1, WiderSeqFact
  <2> QED
    BY <2>2, <2>3
<1>5. /\ f \o new \in Seq(S) /\ Len(f \o new) = Len(f) + Len(new) /\ Len(new) \in Nat
      /\ \A k \in 1..Len(f) : (f \o new)[k] = f[k]
      /\ \A k \in 1..Len(new) : (f \o new)[Len(f) + k] = new[k]
  BY <1>4, JoinFact
<1>6. g = f \o new
  BY DEF new, AndThen
<1> HIDE DEF g
<1>7. IsSeq(g) /\ Len(g) = Len(f) + Len(new)
  BY <1>5, <1>6, FromSeq
<1>8. DOMAIN g = 1..Len(g)
  BY <1>7, SeqFact
<1>9. ASSUME NEW j \in 1..Len(g), j > Len(f)
      PROVE  \E ga \in W : g[j] = Telegram(ga, v[ga], FALSE)
  <2>1. j - Len(f) \in 1..Len(new) /\ Len(f) + (j - Len(f)) = j
    BY <1>3, <1>5, <1>7, <1>9
  <2>2. g[j] = new[j - Len(f)]
    BY <1>5, <1>6, <2>1
  <2>3. g[j] \in Telegrams(W, v)
    BY <1>2, <2>1, <2>2
  <2> QED
    BY <2>3 DEF Telegrams
<1>10. ASSUME NEW ga \in W
       PROVE  \E j \in 1..Len(g) : j > Len(f) /\ g[j] = Telegram(ga, v[ga], FALSE)
  <2>1. Telegram(ga, v[ga], FALSE) \in Telegrams(W, v)
    BY DEF Telegrams
  <2>2. PICK k \in 1..Len(new) : new[k] = Telegram(ga, v[ga], FALSE)
    BY <1>2, <2>1
  <2>3. Len(f) + k \in 1..Len(g) /\ Len(f) + k > Len(f)
    BY <1>3, <1>5, <1>7
  <2>4. g[Len(f) + k] = Telegram(ga, v[ga], FALSE)
    BY <1>5, <1>6, <2>2
  <2> QED
    BY <2>3, <2>4
<1>11. \A k \in 1..Len(f) : g[k] = f[k]
  BY <1>5, <1>6
<1>12. Len(g) \in Nat /\ Len(f) <= Len(g)
  BY <1>3, <1>5, <1>7
<1> HIDE DEF S
<1> QED
  BY <1>3, <1>7, <1>8, <1>9, <1>10, <1>11, <1>12 DEF EndsWith, g

\* A command that is executed, or an actuator that follows, sets the addresses
\* W of the bus to v and reports them.
Written(W, v) ==
  /\ IsFiniteSet(W) /\ W \subseteq DOMAIN bus /\ \A ga \in W : v[ga] \in Values
  /\ bus' = [ga \in DOMAIN bus |-> IF ga \in W THEN v[ga] ELSE bus[ga]]
  /\ feed' = AndThen(feed, W, v)

LEMMA GoesToObjects ==
  ASSUME NEW c \in Catalogs, NEW s, Goes(c, s)
  PROVE  /\ IsFiniteSet({item.ga : item \in s.items})
         /\ \A item \in s.items :
              /\ item.ga \in {o.ga : o \in c} /\ item.value \in Values
              /\ LightsWiredApart => ClassifyObject(ObjectAt(c, item.ga)) # "light_status"
<1>1. IsFiniteSet({item.ga : item \in s.items})
  <2> DEFINE h == [item \in s.items |-> item.ga]
  <2>1. /\ DOMAIN h = s.items /\ h = [x \in DOMAIN h |-> h[x]]
        /\ {item.ga : item \in s.items} = {h[x] : x \in s.items}
    OBVIOUS
  <2>2. IsFiniteSet(s.items)
    BY DEF Goes
  <2> HIDE DEF h
  <2>3. IsFiniteSet({h[x] : x \in DOMAIN h})
    BY <2>1, <2>2, FiniteRange
  <2> QED
    BY <2>1, <2>3
<1> QED
  BY <1>1, ObjectFact DEF Goes, Fits

LEMMA ExecuteFact ==
  ASSUME AgentInv, NEW d \in Devices, NEW answered \in BOOLEAN, Execute(d, answered)
  PROVE  \E W, v : /\ Written(W, v)
                   /\ due' = due \cup {ga \in W : Wired(ga) # {}}
                   /\ LightsWiredApart =>
                        \A ga \in W : ClassifyObject(ObjectAt(catalog, ga)) # "light_status"
<1> DEFINE i == Head(queue[d])
           W == {item.ga : item \in cmds[i].items}
           value(ga) == (CHOOSE item \in cmds[i].items : item.ga = ga).value
           v == [ga \in W |-> value(ga)]
<1>1. /\ queue[d] # <<>>
      /\ bus' = [ga \in DOMAIN bus |-> IF ga \in W THEN value(ga) ELSE bus[ga]]
      /\ feed' = feed \o SetToSeq({Telegram(ga, value(ga), FALSE) : ga \in W})
      /\ due' = due \cup {ga \in W : Wired(ga) # {}}
  BY DEF Execute
<1>2. catalog \in Catalogs /\ DOMAIN bus = {o.ga : o \in catalog}
  BY DEF AgentInv, Measured
<1>3. i \in DOMAIN cmds
  <2>1. IsSeq(queue[d])
    BY DEF AgentInv, Enqueued
  <2> DEFINE q == queue[d]
  <2>2. IsSeq(q) /\ q # <<>>
    BY <1>1, <2>1
  <2> HIDE DEF q
  <2>3. Head(q) = q[1] /\ DOMAIN q = 1..Len(q) /\ Len(q) \in Nat /\ Len(q) >= 1
    BY <2>2, TailFact
  <2>4. 1 \in DOMAIN q
    BY <2>3
  <2> QED
    BY <2>3, <2>4 DEF AgentInv, Enqueued, q
<1> HIDE DEF i
<1>4. Goes(catalog, cmds[i])
  BY <1>3 DEF AgentInv, Ordered, CommandOK
<1>5. /\ IsFiniteSet(W)
      /\ \A item \in cmds[i].items :
           /\ item.ga \in {o.ga : o \in catalog} /\ item.value \in Values
           /\ LightsWiredApart => ClassifyObject(ObjectAt(catalog, item.ga)) # "light_status"
  BY <1>2, <1>4, GoesToObjects
<1>6. \A ga \in W : v[ga] = value(ga) /\ value(ga) \in Values
  BY <1>5
<1>7. /\ W \subseteq DOMAIN bus
      /\ LightsWiredApart => \A ga \in W : ClassifyObject(ObjectAt(catalog, ga)) # "light_status"
  BY <1>2, <1>5
<1> HIDE DEF W, v, value
<1>8. {Telegram(ga, value(ga), FALSE) : ga \in W} = Telegrams(W, v)
  BY <1>6 DEF Telegrams
<1>9. bus' = [ga \in DOMAIN bus |-> IF ga \in W THEN v[ga] ELSE bus[ga]]
  BY <1>1, <1>6
<1>10. Written(W, v)
  BY <1>1, <1>5, <1>6, <1>7, <1>8, <1>9 DEF Written, AndThen
<1> QED
  BY <1>1, <1>7, <1>10

LEMMA WiredFact ==
  ASSUME catalog \in Catalogs, NEW ga
  PROVE  /\ Wired(ga) = {p.ga : p \in StatusOf(catalog, ObjectAt(catalog, ga))}
         /\ IsFiniteSet(Wired(ga)) /\ Wired(ga) \subseteq {o.ga : o \in catalog}
<1> DEFINE S == StatusOf(catalog, ObjectAt(catalog, ga))
           h == [p \in S |-> p.ga]
<1>1. Wired(ga) = {p.ga : p \in S}
  BY DEF Wired, StatusOf, Words
<1>2. S \subseteq catalog
  BY DEF StatusOf
<1>3. IsFiniteSet(S)
  BY <1>2, AgentOK, FS_Subset
<1> HIDE DEF S
<1>4. DOMAIN h = S /\ h = [x \in DOMAIN h |-> h[x]] /\ {p.ga : p \in S} = {h[x] : x \in S}
  OBVIOUS
<1> HIDE DEF h
<1>5. IsFiniteSet({h[x] : x \in DOMAIN h})
  BY <1>3, <1>4, FiniteRange
<1> QED
  BY <1>1, <1>2, <1>4, <1>5 DEF S

LEMMA FollowFact ==
  ASSUME AgentInv, NEW ga \in DOMAIN bus, Follow(ga)
  PROVE  Written(Wired(ga), [p \in Wired(ga) |-> bus[ga]])
<1> DEFINE W == Wired(ga)
           v == [p \in W |-> bus[ga]]
<1>1. /\ bus' = [p \in DOMAIN bus |-> IF p \in W THEN bus[ga] ELSE bus[p]]
      /\ feed' = feed \o SetToSeq({Telegram(p, bus[ga], FALSE) : p \in W})
  BY DEF Follow
<1>2. catalog \in Catalogs /\ DOMAIN bus = {o.ga : o \in catalog} /\ bus[ga] \in Values
  BY DEF AgentInv, Measured
<1>3. IsFiniteSet(W) /\ W \subseteq DOMAIN bus
  BY <1>2, WiredFact
<1> HIDE DEF W
<1>4. \A p \in W : v[p] = bus[ga]
  OBVIOUS
<1> HIDE DEF v
<1>5. {Telegram(p, bus[ga], FALSE) : p \in W} = Telegrams(W, v)
  BY <1>4 DEF Telegrams
<1>6. bus' = [p \in DOMAIN bus |-> IF p \in W THEN v[p] ELSE bus[p]]
  BY <1>1, <1>4
<1>7. Written(W, v)
  BY <1>1, <1>2, <1>3, <1>4, <1>5, <1>6 DEF Written, AndThen
<1> QED
  BY <1>7 DEF W, v

LEMMA WrittenMeasured ==
  ASSUME Measured, NEW W, NEW v, Written(W, v), due' \subseteq DOMAIN bus, UNCHANGED <<catalog, seen>>
  PROVE  Measured'
<1>1. bus' \in [{o.ga : o \in catalog} -> Values] /\ DOMAIN bus' = DOMAIN bus
  BY DEF Measured, Written
<1>2. EndsWith(feed', feed, W, v)
  <2>1. IsSeq(feed) /\ IsFiniteSet(W) /\ feed' = AndThen(feed, W, v)
    BY DEF Measured, Written
  <2> QED
    BY <2>1, ToldFact
<1>3. ASSUME NEW j \in DOMAIN feed'
      PROVE  TelegramOK(feed'[j], DOMAIN bus')
  <2>1. CASE j \in DOMAIN feed
    BY <1>1, <1>2, <2>1 DEF EndsWith, Measured, TelegramOK, Telegram
  <2>2. CASE j \notin DOMAIN feed
    <3>1. j > Len(feed)
      BY <1>2, <2>2 DEF EndsWith
    <3>2. PICK ga \in W : feed'[j] = Telegram(ga, v[ga], FALSE)
      BY <1>2, <3>1 DEF EndsWith
    <3> QED
      BY <1>1, <3>2 DEF Written, TelegramOK, Telegram
  <2> QED
    BY <2>1, <2>2
<1>4. seen' \in [{o.ga : o \in catalog} -> Values \cup {Unknown}] /\ catalog' = catalog
  BY DEF Measured
<1> QED
  BY <1>1, <1>2, <1>3, <1>4 DEF Measured, EndsWith
LEMMA ExecuteStep ==
  ASSUME AgentInv, NEW d \in Devices, NEW answered \in BOOLEAN, Execute(d, answered)
  PROVE  AgentInv'
<1>1. PICK W, v : Written(W, v) /\ due' = due \cup {ga \in W : Wired(ga) # {}}
  BY ExecuteFact
<1>2. UNCHANGED <<catalog, seen, reqs, presses>>
  BY DEF Execute
<1>3. Measured'
  <2>1. due' \subseteq DOMAIN bus
    BY <1>1 DEF Written, AgentInv, Measured
  <2> QED
    BY <1>1, <1>2, <2>1, WrittenMeasured DEF AgentInv
<1> DEFINE i == Head(queue[d])
           acked == cmds[i].acked \/ (answered /\ cmds[i].row = "kept")
           m == [cmds[i] EXCEPT !.acked = acked]
<1>4. /\ queue[d] # <<>> /\ queue' = [queue EXCEPT ![d] = Tail(@)]
      /\ cmds' = [cmds EXCEPT ![i].acked = acked]
  BY DEF Execute
<1>5. IsSeq(queue[d]) /\ i \in DOMAIN cmds
  <2>1. IsSeq(queue[d]) /\ \A j \in DOMAIN queue[d] : queue[d][j] \in DOMAIN cmds
    BY DEF AgentInv, Enqueued
  <2> DEFINE q == queue[d]
  <2>2. IsSeq(q) /\ q # <<>>
    BY <1>4, <2>1
  <2> HIDE DEF q
  <2>3. Head(q) = q[1] /\ DOMAIN q = 1..Len(q) /\ Len(q) \in Nat /\ Len(q) >= 1
    BY <2>2, TailFact
  <2>4. 1 \in DOMAIN q
    BY <2>3
  <2> QED
    BY <2>1, <2>3, <2>4 DEF q
<1> HIDE DEF i, acked
<1>6. IsSeq(cmds) /\ cmds = [k \in DOMAIN cmds |-> cmds[k]] /\ CommandOK(catalog, cmds[i])
  BY <1>5, SeqFact DEF AgentInv, Ordered
<1>7. cmds' = [k \in DOMAIN cmds |-> IF k = i THEN m ELSE cmds[k]]
  BY <1>4, <1>5, <1>6
<1>8. CommandOK(catalog, m) /\ m.req = cmds[i].req /\ m.device = cmds[i].device /\ m.row = cmds[i].row
  <2> DEFINE c == cmds[i]
  <2>1. m = [req |-> c.req, device |-> c.device, items |-> c.items, row |-> c.row, acked |-> acked]
    <3>1. c = [req |-> c.req, device |-> c.device, items |-> c.items, row |-> c.row, acked |-> c.acked]
      BY <1>6 DEF CommandOK, IsCommand
    <3>2. m = [c EXCEPT !.acked = acked]
      OBVIOUS
    <3> HIDE DEF c, m
    <3> QED
      BY <3>1, <3>2
  <2>2. CommandOK(catalog, c)
    BY <1>6
  <2> HIDE DEF c, m
  <2>3. /\ IsCommand(m) /\ m.req = c.req /\ m.device = c.device /\ m.items = c.items /\ m.row = c.row
    BY <2>1 DEF IsCommand
  <2>4. CommandOK(catalog, m)
    BY <2>2, <2>3 DEF CommandOK, Goes
  <2> QED
    BY <2>3, <2>4 DEF c
<1> HIDE DEF m
<1>9. /\ DOMAIN cmds' = DOMAIN cmds /\ IsSeq(cmds')
      /\ \A k \in DOMAIN cmds : /\ CommandOK(catalog, cmds'[k]) /\ cmds'[k].req = cmds[k].req
                                /\ cmds'[k].device = cmds[k].device /\ cmds'[k].row = cmds[k].row
  <2>1. DOMAIN cmds' = DOMAIN cmds /\ cmds' = [k \in DOMAIN cmds' |-> cmds'[k]]
    BY <1>7
  <2>2. IsSeq(cmds')
    BY <1>6, <2>1, UpdatedFact
  <2> QED
    BY <1>7, <1>8, <2>1, <2>2 DEF AgentInv, Ordered
<1>10. Ordered'
  BY <1>2, <1>9 DEF AgentInv, Ordered, SettledBy
<1>11. Asked'
  BY <1>2 DEF AgentInv, Asked
<1>12. Enqueued'
  <2>1. /\ queue = [e \in Devices |-> queue[e]]
        /\ \A e \in Devices : IsSeq(queue[e]) /\ \A j \in DOMAIN queue[e] :
             queue[e][j] \in DOMAIN cmds /\ cmds[queue[e][j]].device = e
    BY DEF AgentInv, Enqueued
  <2>2. queue' = [e \in Devices |-> IF e = d THEN Tail(queue[d]) ELSE queue[e]]
    BY <1>4, <2>1
  <2>3. queue' = [e \in Devices |-> queue'[e]]
    BY <2>2
  <2> SUFFICES ASSUME NEW e \in Devices
               PROVE  IsSeq(queue'[e]) /\ \A j \in DOMAIN queue'[e] :
                        queue'[e][j] \in DOMAIN cmds' /\ cmds'[queue'[e][j]].device = e
    BY <2>3 DEF Enqueued
  <2>4. CASE e # d
    BY <1>9, <2>1, <2>2, <2>4
  <2>5. CASE e = d
    <3> DEFINE q == queue[d]
    <3>1. IsSeq(q) /\ q # <<>> /\ queue'[e] = Tail(q)
      BY <1>4, <1>5, <2>2, <2>5
    <3>2. \A j \in DOMAIN q : q[j] \in DOMAIN cmds /\ cmds[q[j]].device = d
      BY <2>1
    <3> HIDE DEF q
    <3>3. /\ IsSeq(Tail(q)) /\ DOMAIN Tail(q) = 1..(Len(q) - 1) /\ DOMAIN q = 1..Len(q)
          /\ Len(q) \in Nat /\ \A j \in 1..(Len(q) - 1) : Tail(q)[j] = q[j + 1]
      BY <3>1, TailFact
    <3> SUFFICES ASSUME NEW j \in 1..(Len(q) - 1)
                 PROVE  Tail(q)[j] \in DOMAIN cmds' /\ cmds'[Tail(q)[j]].device = e
      BY <3>1, <3>3
    <3>4. j + 1 \in DOMAIN q
      BY <3>3
    <3> QED
      BY <1>9, <2>5, <3>2, <3>3, <3>4
  <2> QED
    BY <2>4, <2>5
<1> QED
  BY <1>3, <1>10, <1>11, <1>12 DEF AgentInv

LEMMA ResendStep ==
  ASSUME AgentInv, NEW i \in DOMAIN cmds, Resend(i)
  PROVE  AgentInv'
<1> DEFINE d == cmds[i].device
<1>1. /\ queue' = [queue EXCEPT ![d] = Append(@, i)]
      /\ UNCHANGED <<catalog, bus, seen, feed, cmds, reqs, due, presses, failures>>
  BY DEF Resend
<1>2. d \in Devices
  BY DEF AgentInv, Ordered, CommandOK, Goes
<1>3. Enqueued'
  <2>1. /\ queue = [e \in Devices |-> queue[e]]
        /\ \A e \in Devices : IsSeq(queue[e]) /\ \A j \in DOMAIN queue[e] :
             queue[e][j] \in DOMAIN cmds /\ cmds[queue[e][j]].device = e
    BY DEF AgentInv, Enqueued
  <2>2. queue' = [e \in Devices |-> IF e = d THEN Append(queue[d], i) ELSE queue[e]]
    BY <1>1, <1>2, <2>1
  <2>3. queue' = [e \in Devices |-> queue'[e]]
    BY <2>2
  <2> SUFFICES ASSUME NEW e \in Devices
               PROVE  IsSeq(queue'[e]) /\ \A j \in DOMAIN queue'[e] :
                        queue'[e][j] \in DOMAIN cmds /\ cmds[queue'[e][j]].device = e
    BY <1>1, <2>3 DEF Enqueued
  <2>4. CASE e # d
    BY <2>1, <2>2, <2>4
  <2>5. CASE e = d
    <3> DEFINE q == queue[d]
    <3>1. IsSeq(q) /\ queue'[e] = Append(q, i)
      BY <2>1, <2>2, <2>5
    <3>2. \A j \in DOMAIN q : q[j] \in DOMAIN cmds /\ cmds[q[j]].device = d
      BY <1>2, <2>1
    <3> HIDE DEF q
    <3>3. /\ IsSeq(Append(q, i)) /\ DOMAIN Append(q, i) = 1..(Len(q) + 1)
          /\ Append(q, i)[Len(q) + 1] = i
          /\ \A j \in 1..Len(q) : Append(q, i)[j] = q[j]
      BY <3>1, AppendFact
    <3>4. DOMAIN q = 1..Len(q) /\ Len(q) \in Nat
      BY <3>1, SeqFact
    <3> SUFFICES ASSUME NEW j \in 1..(Len(q) + 1)
                 PROVE  Append(q, i)[j] \in DOMAIN cmds /\ cmds[Append(q, i)[j]].device = e
      BY <3>1, <3>3
    <3>5. j \in DOMAIN q \/ j = Len(q) + 1
      BY <3>4
    <3> QED
      BY <2>5, <3>2, <3>3, <3>4, <3>5
  <2> QED
    BY <2>4, <2>5
<1> QED
  BY <1>1, <1>3 DEF AgentInv, Measured, Asked, Ordered

LEMMA FollowStep ==
  ASSUME AgentInv, NEW ga \in DOMAIN bus, Follow(ga)
  PROVE  AgentInv'
<1>1. /\ due' = due \ {ga}
      /\ UNCHANGED <<catalog, seen, queue, cmds, reqs, presses, failures>>
  BY DEF Follow
<1>2. Written(Wired(ga), [p \in Wired(ga) |-> bus[ga]])
  BY FollowFact
<1>3. Measured'
  BY <1>1, <1>2, WrittenMeasured DEF AgentInv, Measured
<1> QED
  BY <1>1, <1>3 DEF AgentInv, Asked, Ordered, Enqueued

LEMMA PressFact ==
  ASSUME AgentInv, NEW ga \in DOMAIN bus, Press(ga)
  PROVE  \E value \in Values :
           /\ bus' = [p \in DOMAIN bus |-> IF p = ga THEN value ELSE bus[p]]
           /\ feed' = Append(feed, Telegram(ga, value, TRUE))
           /\ UNCHANGED <<catalog, seen, queue, cmds, reqs, due, failures>>
           /\ \E o \in catalog : o.ga = ga /\ ClassifyObject(o) = "light_status"
<1> DEFINE value == IF bus[ga] = "on" THEN "off" ELSE "on"
<1>1. value \in Values
  BY DEF Values
<1>2. bus' = [bus EXCEPT ![ga] = value]
  BY DEF Press
<1>3. bus' = [p \in DOMAIN bus |-> IF p = ga THEN value ELSE bus[p]]
  BY <1>2
<1>4. /\ feed' = Append(feed, Telegram(ga, value, TRUE))
      /\ UNCHANGED <<catalog, seen, queue, cmds, reqs, due, failures>>
      /\ \E o \in catalog : o.ga = ga /\ ClassifyObject(o) = "light_status"
  BY DEF Press
<1> HIDE DEF value
<1> QED
  BY <1>1, <1>3, <1>4

LEMMA PressStep ==
  ASSUME AgentInv, NEW ga \in DOMAIN bus, Press(ga)
  PROVE  AgentInv'
<1>1. PICK value \in Values :
        /\ bus' = [p \in DOMAIN bus |-> IF p = ga THEN value ELSE bus[p]]
        /\ feed' = Append(feed, Telegram(ga, value, TRUE))
        /\ UNCHANGED <<catalog, seen, queue, cmds, reqs, due, failures>>
  BY PressFact
<1>2. IsSeq(feed) /\ DOMAIN feed = 1..Len(feed) /\ Len(feed) \in Nat
  BY SeqFact DEF AgentInv, Measured
<1>3. /\ IsSeq(feed') /\ DOMAIN feed' = 1..(Len(feed) + 1)
      /\ feed'[Len(feed) + 1] = Telegram(ga, value, TRUE)
      /\ \A j \in 1..Len(feed) : feed'[j] = feed[j]
  <2> DEFINE t == Telegram(ga, value, TRUE)
  <2>1. feed' = Append(feed, t)
    BY <1>1
  <2> HIDE DEF t
  <2>2. /\ IsSeq(feed') /\ DOMAIN feed' = 1..(Len(feed) + 1)
        /\ feed'[Len(feed) + 1] = t /\ \A j \in 1..Len(feed) : feed'[j] = feed[j]
    BY <1>2, <2>1, AppendFact
  <2> QED
    BY <2>2 DEF t
<1>4. bus' \in [{o.ga : o \in catalog} -> Values] /\ DOMAIN bus' = DOMAIN bus
  BY <1>1 DEF AgentInv, Measured
<1>5. \A j \in DOMAIN feed' : TelegramOK(feed'[j], DOMAIN bus')
  <2> SUFFICES ASSUME NEW j \in DOMAIN feed'
               PROVE  TelegramOK(feed'[j], DOMAIN bus')
    OBVIOUS
  <2>1. j \in DOMAIN feed \/ j = Len(feed) + 1
    BY <1>2, <1>3
  <2>2. TelegramOK(Telegram(ga, value, TRUE), DOMAIN bus')
    BY <1>4 DEF TelegramOK, Telegram
  <2> QED
    BY <1>2, <1>3, <1>4, <2>1, <2>2 DEF AgentInv, Measured
<1>6. Measured'
  BY <1>1, <1>3, <1>4, <1>5 DEF AgentInv, Measured
<1> QED
  BY <1>1, <1>6 DEF AgentInv, Asked, Ordered, Enqueued

LEMMA ReportFact ==
  ASSUME AgentInv, Report
  PROVE  /\ UNCHANGED <<catalog, bus, queue, cmds, reqs, due, presses, failures>>
         /\ IsSeq(feed') /\ Len(feed) \in Nat /\ Len(feed) >= 1
         /\ DOMAIN feed = 1..Len(feed) /\ DOMAIN feed' = 1..(Len(feed) - 1)
         /\ \A j \in 1..(Len(feed) - 1) : feed'[j] = feed[j + 1]
         /\ TelegramOK(feed[1], DOMAIN bus)
         /\ seen' = [ga \in DOMAIN bus |-> IF ga = feed[1].ga THEN feed[1].value ELSE seen[ga]]
<1>1. /\ feed # <<>> /\ feed' = Tail(feed)
      /\ seen' = [seen EXCEPT ![Head(feed).ga] = Head(feed).value]
      /\ UNCHANGED <<catalog, bus, queue, cmds, reqs, due, presses, failures>>
  BY DEF Report
<1>2. IsSeq(feed)
  BY DEF AgentInv, Measured
<1>3. /\ IsSeq(feed') /\ Len(feed) \in Nat /\ Len(feed) >= 1
      /\ DOMAIN feed = 1..Len(feed) /\ DOMAIN feed' = 1..(Len(feed) - 1)
      /\ \A j \in 1..(Len(feed) - 1) : feed'[j] = feed[j + 1]
      /\ Head(feed) = feed[1]
  BY <1>1, <1>2, TailFact
<1>4. 1 \in DOMAIN feed
  BY <1>3
<1>5. TelegramOK(feed[1], DOMAIN bus)
  BY <1>4 DEF AgentInv, Measured
<1>6. seen = [ga \in DOMAIN bus |-> seen[ga]]
  BY DEF AgentInv, Measured
<1>7. seen' = [ga \in DOMAIN bus |-> IF ga = feed[1].ga THEN feed[1].value ELSE seen[ga]]
  BY <1>1, <1>3, <1>6
<1> QED
  BY <1>1, <1>3, <1>5, <1>7

LEMMA ReportStep ==
  ASSUME AgentInv, Report
  PROVE  AgentInv'
<1>1. /\ UNCHANGED <<catalog, bus, queue, cmds, reqs, due, presses, failures>>
      /\ IsSeq(feed') /\ Len(feed) \in Nat /\ Len(feed) >= 1
      /\ DOMAIN feed = 1..Len(feed) /\ DOMAIN feed' = 1..(Len(feed) - 1)
      /\ \A j \in 1..(Len(feed) - 1) : feed'[j] = feed[j + 1]
      /\ TelegramOK(feed[1], DOMAIN bus)
      /\ seen' = [ga \in DOMAIN bus |-> IF ga = feed[1].ga THEN feed[1].value ELSE seen[ga]]
  BY ReportFact
<1>2. \A j \in DOMAIN feed' : TelegramOK(feed'[j], DOMAIN bus)
  <2> SUFFICES ASSUME NEW j \in 1..(Len(feed) - 1)
               PROVE  TelegramOK(feed[j + 1], DOMAIN bus)
    BY <1>1
  <2>1. j + 1 \in DOMAIN feed
    BY <1>1
  <2> QED
    BY <2>1 DEF AgentInv, Measured
<1>3. seen' \in [{o.ga : o \in catalog} -> Values \cup {Unknown}]
  <2>1. feed[1].value \in Values /\ DOMAIN bus = {o.ga : o \in catalog}
    BY <1>1 DEF TelegramOK, AgentInv, Measured
  <2>2. \A ga \in DOMAIN bus : seen[ga] \in Values \cup {Unknown}
    BY DEF AgentInv, Measured
  <2> QED
    BY <1>1, <2>1, <2>2
<1>4. Measured'
  BY <1>1, <1>2, <1>3 DEF AgentInv, Measured
<1> QED
  BY <1>1, <1>4 DEF AgentInv, Asked, Ordered, Enqueued

LEMMA AgentNext_AgentInv ==
  ASSUME AgentInv, [AgentNext]_agentVars
  PROVE  AgentInv'
<1>1. ASSUME NEW a \in Asks, Ask(a)
      PROVE  AgentInv'
  BY <1>1, AskStep
<1>2. ASSUME NEW n \in DOMAIN reqs, Commit(n)
      PROVE  AgentInv'
  BY <1>2, CommitStep
<1>3. ASSUME NEW n \in DOMAIN reqs, CommitFails(n)
      PROVE  AgentInv'
  BY <1>3, CommitFailsStep
<1>4. ASSUME NEW n \in DOMAIN reqs, NEW reaches \in BOOLEAN, Publish(n, reaches)
      PROVE  AgentInv'
  BY <1>4, PublishStep
<1>5. ASSUME NEW i \in DOMAIN cmds, Resend(i)
      PROVE  AgentInv'
  BY <1>5, ResendStep
<1>6. ASSUME NEW d \in Devices, NEW answered \in BOOLEAN, Execute(d, answered)
      PROVE  AgentInv'
  BY <1>6, ExecuteStep
<1>7. ASSUME NEW ga \in DOMAIN bus, Follow(ga)
      PROVE  AgentInv'
  BY <1>7, FollowStep
<1>8. ASSUME NEW ga \in DOMAIN bus, Press(ga)
      PROVE  AgentInv'
  BY <1>8, PressStep
<1>9. CASE Report
  BY <1>9, ReportStep
<1>10. CASE UNCHANGED agentVars
  BY <1>10 DEF agentVars, AgentInv, Measured, Asked, Ordered, Enqueued
<1> QED
  BY <1>1, <1>2, <1>3, <1>4, <1>5, <1>6, <1>7, <1>8, <1>9, <1>10 DEF AgentNext

LEMMA AgentInvariant == AgentSpec => []AgentInv
<1>1. AgentInit => AgentInv
  BY AgentInit_AgentInv
<1>2. AgentInv /\ [AgentNext]_agentVars => AgentInv'
  BY AgentNext_AgentInv
<1> QED
  BY <1>1, <1>2, PTL DEF AgentSpec

\* Type correctness of the write operations with their session (agent_actions,
\* routes of /ops): commands are queued at their own device, rows belong to
\* requests, state and bus hold values of known addresses.
THEOREM AgentTypeCorrect == AgentSpec => []AgentTypeOK
<1>1. AgentInv => AgentTypeOK
  <2> SUFFICES ASSUME AgentInv
               PROVE  AgentTypeOK
    OBVIOUS
  <2>1. DOMAIN queue = Devices
    BY DEF AgentInv, Enqueued
  <2>2. \A i \in DOMAIN cmds : cmds[i].req \in DOMAIN reqs /\ cmds[i].row \in {"added", "kept", "lost"}
    BY DEF AgentInv, Ordered, CommandOK
  <2>3. \A n \in DOMAIN reqs : reqs[n].answer \in Answers /\ reqs[n].phase \in {"send", "commit", "done"}
    BY DEF AgentInv, Asked, RequestOK
  <2> QED
    BY <2>1, <2>2, <2>3 DEF AgentTypeOK, AgentInv, Measured, Enqueued
<1> QED
  BY <1>1, AgentInvariant, PTL

\* SentIsRecorded: send_command publishes before the commit of the session; a
\* request that does not end with 500 has a row of every command it sent, also
\* when a later item of set_kettle or set_climate is refused with 400.
THEOREM SentIsRecordedHolds == AgentSpec => []SentIsRecorded
<1>1. AgentInv => SentIsRecorded
  BY DEF AgentInv, Ordered, CommandOK, SettledBy, SentIsRecorded
<1> QED
  BY <1>1, AgentInvariant, PTL

\* DegreesNeverSwitch: set_climate and set_kettle (setpoint before command)
\* send degrees to no address that switches, if the objects that take degrees
\* are numbers.
THEOREM DegreesNeverSwitchHolds == SetpointsAreNumbers => (AgentSpec => []DegreesNeverSwitch)
<1> SUFFICES ASSUME SetpointsAreNumbers
             PROVE  AgentSpec => []DegreesNeverSwitch
  OBVIOUS
<1>1. AgentInv => DegreesNeverSwitch
  BY DEF AgentInv, Ordered, CommandOK, Goes, Fits, Harmless, DegreesNeverSwitch
<1> QED
  BY <1>1, AgentInvariant, PTL
-----------------------------------------------------------------------------
(* What the state map lags behind.                                         *)

LastIn(f, j, ga) == f[j].ga = ga /\ \A k \in DOMAIN f : k > j => f[k].ga # ga

\* The last telegram on its way about an address has its value; without one
\* the state map has it.
Told ==
  \A ga \in DOMAIN bus :
    /\ (\A j \in DOMAIN feed : feed[j].ga # ga) => seen[ga] = bus[ga]
    /\ \A j \in DOMAIN feed : LastIn(feed, j, ga) => feed[j].value = bus[ga]

\* A status whose last telegram on its way is from the actuator is as the
\* control is, unless the actuator has to follow once more.
Followed ==
  \A o \in catalog : \A p \in StatusOf(catalog, o) :
    ClassifyObject(o) = "light_control" /\ o.ga \notin due =>
      \A j \in DOMAIN feed : LastIn(feed, j, p.ga) /\ ~feed[j].wall => bus[p.ga] = bus[o.ga]

\* An address that is told about at the end of a feed.
LEMMA LastWritten ==
  ASSUME NEW f, NEW g, NEW W, NEW v, EndsWith(g, f, W, v), NEW ga \in W
  PROVE  /\ ~(\A j \in DOMAIN g : g[j].ga # ga)
         /\ \A j \in DOMAIN g : LastIn(g, j, ga) => g[j].value = v[ga]
<1>1. /\ Len(f) \in Nat /\ Len(g) \in Nat /\ Len(f) <= Len(g)
      /\ DOMAIN f = 1..Len(f) /\ DOMAIN g = 1..Len(g)
      /\ \A j \in 1..Len(g) : j > Len(f) => \E x \in W : g[j] = Telegram(x, v[x], FALSE)
      /\ \A x \in W : \E j \in 1..Len(g) : j > Len(f) /\ g[j] = Telegram(x, v[x], FALSE)
  BY DEF EndsWith
<1>2. PICK k \in 1..Len(g) : k > Len(f) /\ g[k] = Telegram(ga, v[ga], FALSE)
  BY <1>1
<1>3. Telegram(ga, v[ga], FALSE).ga = ga
  BY DEF Telegram
<1>4. k \in DOMAIN g /\ k > Len(f) /\ g[k].ga = ga
  BY <1>1, <1>2, <1>3
<1>5. ASSUME NEW j \in DOMAIN g, LastIn(g, j, ga)
      PROVE  g[j].value = v[ga]
  <2>1. ~(k > j)
    BY <1>4, <1>5 DEF LastIn
  <2>2. j > Len(f)
    BY <1>1, <1>4, <2>1
  <2>3. PICK x \in W : g[j] = Telegram(x, v[x], FALSE)
    BY <1>1, <2>2
  <2>4. Telegram(x, v[x], FALSE).ga = x /\ Telegram(x, v[x], FALSE).value = v[x]
    BY DEF Telegram
  <2>5. x = ga
    BY <1>5, <2>3, <2>4 DEF LastIn
  <2> QED
    BY <2>3, <2>4, <2>5
<1> QED
  BY <1>4, <1>5

\* An address that is not.
LEMMA LastElsewhere ==
  ASSUME NEW f, NEW g, NEW W, NEW v, EndsWith(g, f, W, v), NEW ga, ga \notin W
  PROVE  /\ (\A j \in DOMAIN g : g[j].ga # ga) => \A j \in DOMAIN f : f[j].ga # ga
         /\ \A j \in DOMAIN g : LastIn(g, j, ga) =>
              j \in DOMAIN f /\ g[j] = f[j] /\ LastIn(f, j, ga)
<1>1. /\ Len(f) \in Nat /\ Len(g) \in Nat /\ Len(f) <= Len(g)
      /\ DOMAIN f = 1..Len(f) /\ DOMAIN g = 1..Len(g)
      /\ \A j \in 1..Len(f) : g[j] = f[j]
      /\ \A j \in 1..Len(g) : j > Len(f) => \E x \in W : g[j] = Telegram(x, v[x], FALSE)
  BY DEF EndsWith
<1>2. ASSUME NEW j \in DOMAIN g, LastIn(g, j, ga)
      PROVE  j \in DOMAIN f /\ g[j] = f[j] /\ LastIn(f, j, ga)
  <2>1. ~(j > Len(f))
    <3> SUFFICES ASSUME j > Len(f)
                 PROVE  FALSE
      OBVIOUS
    <3>1. PICK x \in W : g[j] = Telegram(x, v[x], FALSE)
      BY <1>1
    <3>2. Telegram(x, v[x], FALSE).ga = x
      BY DEF Telegram
    <3> QED
      BY <1>2, <3>1, <3>2 DEF LastIn
  <2>2. j \in DOMAIN f
    BY <1>1, <2>1
  <2>3. \A k \in DOMAIN f : k \in DOMAIN g /\ g[k] = f[k]
    BY <1>1
  <2> QED
    BY <1>2, <2>2, <2>3 DEF LastIn
<1>3. ASSUME \A j \in DOMAIN g : g[j].ga # ga, NEW j \in DOMAIN f
      PROVE  f[j].ga # ga
  <2>1. j \in DOMAIN g /\ g[j] = f[j]
    BY <1>1
  <2> QED
    BY <1>3, <2>1
<1> QED
  BY <1>2, <1>3

LEMMA WrittenEnds ==
  ASSUME AgentInv, NEW W, NEW v, Written(W, v)
  PROVE  EndsWith(feed', feed, W, v)
<1>1. IsSeq(feed) /\ IsFiniteSet(W) /\ feed' = AndThen(feed, W, v)
  BY DEF AgentInv, Measured, Written
<1> QED
  BY <1>1, ToldFact

LEMMA WrittenTold ==
  ASSUME AgentInv, Told, NEW W, NEW v, Written(W, v), UNCHANGED seen
  PROVE  Told'
<1>1. EndsWith(feed', feed, W, v)
  BY WrittenEnds
<1>2. bus' = [ga \in DOMAIN bus |-> IF ga \in W THEN v[ga] ELSE bus[ga]]
  BY DEF Written
<1> SUFFICES ASSUME NEW ga \in DOMAIN bus
             PROVE  /\ (\A j \in DOMAIN feed' : feed'[j].ga # ga) => seen[ga] = bus'[ga]
                    /\ \A j \in DOMAIN feed' : LastIn(feed', j, ga) => feed'[j].value = bus'[ga]
  BY <1>2 DEF Told
<1>4. CASE ga \in W
  <2>1. /\ ~(\A j \in DOMAIN feed' : feed'[j].ga # ga)
        /\ \A j \in DOMAIN feed' : LastIn(feed', j, ga) => feed'[j].value = v[ga]
    BY <1>1, <1>4, LastWritten
  <2>2. bus'[ga] = v[ga]
    BY <1>2, <1>4
  <2> QED
    BY <2>1, <2>2
<1>5. CASE ga \notin W
  <2>1. /\ (\A j \in DOMAIN feed' : feed'[j].ga # ga) => \A j \in DOMAIN feed : feed[j].ga # ga
        /\ \A j \in DOMAIN feed' : LastIn(feed', j, ga) =>
             j \in DOMAIN feed /\ feed'[j] = feed[j] /\ LastIn(feed, j, ga)
    BY <1>1, <1>5, LastElsewhere
  <2> QED
    BY <1>2, <1>5, <2>1 DEF Told
<1> QED
  BY <1>4, <1>5

\* Nothing happens to the objects of a light.
LEMMA NotTouched ==
  ASSUME AgentInv, Followed, NEW W, NEW v, Written(W, v),
         NEW o \in catalog, NEW p \in StatusOf(catalog, o), ClassifyObject(o) = "light_control",
         o.ga \notin due, o.ga \notin W, p.ga \notin W,
         NEW j \in DOMAIN feed', LastIn(feed', j, p.ga), ~feed'[j].wall
  PROVE  bus'[p.ga] = bus'[o.ga]
<1>1. EndsWith(feed', feed, W, v)
  BY WrittenEnds
<1>2. j \in DOMAIN feed /\ feed'[j] = feed[j] /\ LastIn(feed, j, p.ga)
  BY <1>1, LastElsewhere
<1>3. bus[p.ga] = bus[o.ga]
  BY <1>2 DEF Followed
<1>4. p.ga \in DOMAIN bus /\ o.ga \in DOMAIN bus
  BY DEF AgentInv, Measured, StatusOf
<1> QED
  BY <1>3, <1>4 DEF Written

LEMMA ApartFact ==
  ASSUME LightsWiredApart, catalog \in Catalogs, NEW o \in catalog, ClassifyObject(o) = "light_control",
         NEW p \in StatusOf(catalog, o)
  PROVE  /\ p \in catalog /\ ClassifyObject(p) = "light_status"
         /\ p \in Resolve(catalog, <<>>, "light", "light_status")
         /\ p.name = Append(o.name, ":status") /\ StatusOf(catalog, o) = {p}
         /\ \A x \in catalog : p \in StatusOf(catalog, x) => x = o
         /\ \A x \in catalog : o \notin StatusOf(catalog, x)
<1>1. /\ p \in Resolve(catalog, <<>>, "light", "light_status")
      /\ p.name = Append(o.name, ":status") /\ StatusOf(catalog, o) = {p}
      /\ \A x \in catalog : p \in StatusOf(catalog, x) => x = o
      /\ \A x \in catalog : o \notin StatusOf(catalog, x)
  BY DEF LightsWiredApart
<1>2. p \in catalog /\ ClassifyObject(p) = "light_status"
  BY <1>1, ResolveFact
<1> QED
  BY <1>1, <1>2

LEMMA ExecuteFollowed ==
  ASSUME AgentInv, Followed, LightsWiredApart, NEW d \in Devices, NEW answered \in BOOLEAN,
         Execute(d, answered)
  PROVE  Followed'
<1>1. PICK W, v : /\ Written(W, v)
                  /\ due' = due \cup {ga \in W : Wired(ga) # {}}
                  /\ \A ga \in W : ClassifyObject(ObjectAt(catalog, ga)) # "light_status"
  BY ExecuteFact
<1>2. catalog' = catalog
  BY DEF Execute
<1>3. catalog \in Catalogs
  BY DEF AgentInv, Measured
<1> SUFFICES ASSUME NEW o \in catalog, NEW p \in StatusOf(catalog, o),
                    ClassifyObject(o) = "light_control", o.ga \notin due',
                    NEW j \in DOMAIN feed', LastIn(feed', j, p.ga), ~feed'[j].wall
             PROVE  bus'[p.ga] = bus'[o.ga]
  BY <1>2 DEF Followed
<1>4. p \in catalog /\ ClassifyObject(p) = "light_status"
  BY <1>3, ApartFact
<1>5. ObjectAt(catalog, p.ga) = p /\ ObjectAt(catalog, o.ga) = o
  BY <1>3, <1>4, ObjectFact
<1>6. p.ga \notin W
  BY <1>1, <1>4, <1>5
<1>7. Wired(o.ga) # {}
  BY <1>3, <1>5, WiredFact
<1>8. o.ga \notin W /\ o.ga \notin due
  BY <1>1, <1>7
<1> QED
  BY <1>1, <1>6, <1>8, NotTouched

LEMMA FollowFollowed ==
  ASSUME AgentInv, Followed, LightsWiredApart, NEW ga \in DOMAIN bus, Follow(ga)
  PROVE  Followed'
<1> DEFINE W == Wired(ga)
           v == [p \in Wired(ga) |-> bus[ga]]
           x == ObjectAt(catalog, ga)
<1>1. Written(W, v) /\ catalog' = catalog /\ due' = due \ {ga}
  BY FollowFact DEF Follow
<1>2. catalog \in Catalogs /\ DOMAIN bus = {o.ga : o \in catalog}
  BY DEF AgentInv, Measured
<1>3. x \in catalog /\ x.ga = ga /\ W = {p.ga : p \in StatusOf(catalog, x)}
  BY <1>2, ObjectFact, WiredFact DEF Known
<1>4. \A p \in W : v[p] = bus[ga]
  OBVIOUS
<1> HIDE DEF W, v, x
<1> SUFFICES ASSUME NEW o \in catalog, NEW p \in StatusOf(catalog, o),
                    ClassifyObject(o) = "light_control", o.ga \notin due',
                    NEW j \in DOMAIN feed', LastIn(feed', j, p.ga), ~feed'[j].wall
             PROVE  bus'[p.ga] = bus'[o.ga]
  BY <1>1 DEF Followed
<1>5. /\ p \in catalog
      /\ \A y \in catalog : p \in StatusOf(catalog, y) => y = o
      /\ \A y \in catalog : o \notin StatusOf(catalog, y)
  BY <1>2, ApartFact
<1>6. \A y, z \in catalog : y.ga = z.ga => y = z
  BY <1>2, AgentOK
<1>7. \A y \in StatusOf(catalog, x) : y \in catalog
  BY DEF StatusOf
<1>8. o.ga \notin W
  BY <1>3, <1>5, <1>6, <1>7
<1>9. CASE o.ga = ga
  <2>1. o = x
    BY <1>3, <1>6, <1>9
  <2>2. p.ga \in W
    BY <1>3, <2>1
  <2>3. p.ga \in DOMAIN bus /\ o.ga \in DOMAIN bus
    BY <1>2, <1>5
  <2> QED
    BY <1>1, <1>4, <1>8, <1>9, <2>2, <2>3 DEF Written
<1>10. CASE o.ga # ga
  <2>1. p.ga \notin W
    BY <1>3, <1>5, <1>6, <1>7, <1>10
  <2>2. o.ga \notin due
    BY <1>1, <1>10
  <2> QED
    BY <1>1, <1>8, <2>1, <2>2, NotTouched
<1> QED
  BY <1>9, <1>10

LEMMA PressKeeps ==
  ASSUME AgentInv, Told, Followed, LightsWiredApart, NEW ga \in DOMAIN bus, Press(ga)
  PROVE  Told' /\ Followed'
<1>1. PICK value \in Values :
        /\ bus' = [p \in DOMAIN bus |-> IF p = ga THEN value ELSE bus[p]]
        /\ feed' = Append(feed, Telegram(ga, value, TRUE))
        /\ UNCHANGED <<catalog, seen, queue, cmds, reqs, due, failures>>
        /\ \E o \in catalog : o.ga = ga /\ ClassifyObject(o) = "light_status"
  BY PressFact
<1>2. catalog \in Catalogs /\ DOMAIN bus = {o.ga : o \in catalog}
  BY DEF AgentInv, Measured
<1>3. IsSeq(feed) /\ DOMAIN feed = 1..Len(feed) /\ Len(feed) \in Nat
  BY SeqFact DEF AgentInv, Measured
<1> DEFINE t == Telegram(ga, value, TRUE)
<1>4. t.ga = ga /\ t.value = value /\ t.wall
  BY DEF Telegram
<1>5. feed' = Append(feed, t)
  BY <1>1
<1> HIDE DEF t
<1>6. /\ DOMAIN feed' = 1..(Len(feed) + 1) /\ feed'[Len(feed) + 1] = t
      /\ \A j \in 1..Len(feed) : feed'[j] = feed[j]
  BY <1>3, <1>5, AppendFact
<1>7. \A j \in DOMAIN feed' : j \in DOMAIN feed \/ j = Len(feed) + 1
  BY <1>3, <1>6
<1>8. Len(feed) + 1 \in DOMAIN feed' /\ \A j \in DOMAIN feed : Len(feed) + 1 > j
  BY <1>3, <1>6
<1>9. ASSUME NEW j \in DOMAIN feed', LastIn(feed', j, ga)
      PROVE  feed'[j] = t
  BY <1>3, <1>4, <1>6, <1>7, <1>8, <1>9 DEF LastIn
<1>10. ASSUME NEW x, x # ga, NEW j \in DOMAIN feed', LastIn(feed', j, x)
       PROVE  j \in DOMAIN feed /\ feed'[j] = feed[j] /\ LastIn(feed, j, x)
  <2>1. j \in DOMAIN feed
    BY <1>4, <1>6, <1>7, <1>10 DEF LastIn
  <2>2. \A k \in DOMAIN feed : k \in DOMAIN feed' /\ feed'[k] = feed[k]
    BY <1>3, <1>6
  <2> QED
    BY <1>10, <2>1, <2>2 DEF LastIn
<1>11. Told'
  <2> SUFFICES ASSUME NEW x \in DOMAIN bus
               PROVE  /\ (\A j \in DOMAIN feed' : feed'[j].ga # x) => seen[x] = bus'[x]
                      /\ \A j \in DOMAIN feed' : LastIn(feed', j, x) => feed'[j].value = bus'[x]
    BY <1>1 DEF Told
  <2>1. CASE x = ga
    <3>1. ~ \A j \in DOMAIN feed' : feed'[j].ga # x
      BY <1>4, <1>6, <1>8, <2>1
    <3>2. bus'[x] = value
      BY <1>1, <2>1
    <3> QED
      BY <1>4, <1>9, <2>1, <3>1, <3>2
  <2>2. CASE x # ga
    <3>1. (\A j \in DOMAIN feed' : feed'[j].ga # x) => \A j \in DOMAIN feed : feed[j].ga # x
      <4>1. \A k \in DOMAIN feed : k \in DOMAIN feed' /\ feed'[k] = feed[k]
        BY <1>3, <1>6
      <4> QED
        BY <4>1
    <3> QED
      BY <1>1, <1>10, <2>2, <3>1 DEF Told
  <2> QED
    BY <2>1, <2>2
<1>12. Followed'
  <2>1. ASSUME NEW o \in catalog, NEW p \in StatusOf(catalog, o),
               ClassifyObject(o) = "light_control", o.ga \notin due,
               NEW j \in DOMAIN feed', LastIn(feed', j, p.ga), ~feed'[j].wall
        PROVE  bus'[p.ga] = bus'[o.ga]
    <3>1. p \in catalog
      BY <1>2, <2>1, ApartFact
    <3>2. o.ga # ga
      BY <1>1, <1>2, <2>1, AgentOK
    <3>3. p.ga # ga
      BY <1>4, <1>9, <2>1
    <3>4. j \in DOMAIN feed /\ feed'[j] = feed[j] /\ LastIn(feed, j, p.ga)
      BY <1>10, <2>1, <3>3
    <3>5. bus[p.ga] = bus[o.ga]
      BY <2>1, <3>4 DEF Followed
    <3> QED
      BY <1>1, <1>2, <2>1, <3>1, <3>2, <3>3, <3>5
  <2>2. catalog' = catalog /\ due' = due
    BY <1>1
  <2> QED
    BY <2>1, <2>2 DEF Followed
<1> QED
  BY <1>11, <1>12

LEMMA ReportKeeps ==
  ASSUME AgentInv, Told, Followed, Report
  PROVE  Told' /\ Followed'
<1>1. /\ UNCHANGED <<catalog, bus, queue, cmds, reqs, due, presses, failures>>
      /\ IsSeq(feed') /\ Len(feed) \in Nat /\ Len(feed) >= 1
      /\ DOMAIN feed = 1..Len(feed) /\ DOMAIN feed' = 1..(Len(feed) - 1)
      /\ \A j \in 1..(Len(feed) - 1) : feed'[j] = feed[j + 1]
      /\ TelegramOK(feed[1], DOMAIN bus)
      /\ seen' = [ga \in DOMAIN bus |-> IF ga = feed[1].ga THEN feed[1].value ELSE seen[ga]]
  BY ReportFact
<1>2. \A k \in DOMAIN feed : k = 1 \/ (k - 1 \in DOMAIN feed' /\ feed'[k - 1] = feed[k])
  <2> SUFFICES ASSUME NEW k \in DOMAIN feed, k # 1
               PROVE  k - 1 \in DOMAIN feed' /\ feed'[k - 1] = feed[k]
    OBVIOUS
  <2>1. k - 1 \in 1..(Len(feed) - 1) /\ (k - 1) + 1 = k
    BY <1>1
  <2> QED
    BY <1>1, <2>1
<1>3. ASSUME NEW ga, NEW j \in DOMAIN feed', LastIn(feed', j, ga)
      PROVE  j + 1 \in DOMAIN feed /\ feed'[j] = feed[j + 1] /\ LastIn(feed, j + 1, ga)
  <2>1. j \in Nat /\ j >= 1 /\ j + 1 \in DOMAIN feed /\ feed'[j] = feed[j + 1]
    BY <1>1
  <2>2. ASSUME NEW k \in DOMAIN feed, k > j + 1
        PROVE  feed[k].ga # ga
    <3>1. k \in Nat /\ k # 1 /\ k - 1 > j
      BY <1>1, <2>1, <2>2
    <3>2. k - 1 \in DOMAIN feed' /\ feed'[k - 1] = feed[k]
      BY <1>2, <3>1
    <3>3. feed'[k - 1].ga # ga
      BY <1>3, <3>1, <3>2 DEF LastIn
    <3> QED
      BY <3>2, <3>3
  <2> QED
    BY <1>3, <2>1, <2>2 DEF LastIn
<1>4. Told'
  <2> SUFFICES ASSUME NEW ga \in DOMAIN bus
               PROVE  /\ (\A j \in DOMAIN feed' : feed'[j].ga # ga) => seen'[ga] = bus[ga]
                      /\ \A j \in DOMAIN feed' : LastIn(feed', j, ga) => feed'[j].value = bus[ga]
    BY <1>1 DEF Told
  <2>1. ASSUME \A j \in DOMAIN feed' : feed'[j].ga # ga
        PROVE  seen'[ga] = bus[ga]
    <3>1. \A k \in DOMAIN feed : k # 1 => feed[k].ga # ga
      BY <1>2, <2>1
    <3>2. CASE feed[1].ga = ga
      <4>1. 1 \in DOMAIN feed /\ LastIn(feed, 1, ga)
        BY <1>1, <3>1, <3>2 DEF LastIn
      <4> QED
        BY <1>1, <3>2, <4>1 DEF Told
    <3>3. CASE feed[1].ga # ga
      BY <1>1, <3>1, <3>3 DEF Told
    <3> QED
      BY <3>2, <3>3
  <2>2. ASSUME NEW j \in DOMAIN feed', LastIn(feed', j, ga)
        PROVE  feed'[j].value = bus[ga]
    BY <1>3, <2>2 DEF Told
  <2> QED
    BY <2>1, <2>2
<1>5. Followed'
  <2> SUFFICES ASSUME NEW o \in catalog, NEW p \in StatusOf(catalog, o),
                      ClassifyObject(o) = "light_control", o.ga \notin due,
                      NEW j \in DOMAIN feed', LastIn(feed', j, p.ga), ~feed'[j].wall
               PROVE  bus[p.ga] = bus[o.ga]
    BY <1>1 DEF Followed
  <2>1. j + 1 \in DOMAIN feed /\ feed'[j] = feed[j + 1] /\ LastIn(feed, j + 1, p.ga)
    BY <1>3
  <2> QED
    BY <2>1 DEF Followed
<1> QED
  BY <1>4, <1>5
\* What the state map says is known of the bus.
StateKnown == AgentInv /\ Told /\ Followed

LEMMA AgentInit_StateKnown ==
  ASSUME AgentInit
  PROVE  StateKnown
<1>1. feed = <<>> /\ seen = bus
  BY DEF AgentInit
<1>2. DOMAIN feed = {}
  BY <1>1, EmptyFact
<1> QED
  BY <1>1, <1>2, AgentInit_AgentInv DEF StateKnown, Told, Followed

\* Steps that leave the bus, its feed and the state map alone.
LEMMA ElsewhereKeeps ==
  ASSUME Told, Followed, UNCHANGED <<catalog, bus, seen, feed, due>>
  PROVE  Told' /\ Followed'
BY DEF Told, Followed

LEMMA AgentNext_StateKnown ==
  ASSUME LightsWiredApart, StateKnown, [AgentNext]_agentVars
  PROVE  StateKnown'
<1> USE DEF StateKnown
<1>0. AgentInv'
  BY AgentNext_AgentInv
<1>1. ASSUME NEW a \in Asks, Ask(a)
      PROVE  Told' /\ Followed'
  BY <1>1, ElsewhereKeeps DEF Ask
<1>2. ASSUME NEW n \in DOMAIN reqs, Commit(n)
      PROVE  Told' /\ Followed'
  BY <1>2, ElsewhereKeeps DEF Commit
<1>3. ASSUME NEW n \in DOMAIN reqs, CommitFails(n)
      PROVE  Told' /\ Followed'
  BY <1>3, ElsewhereKeeps DEF CommitFails
<1>4. ASSUME NEW n \in DOMAIN reqs, NEW reaches \in BOOLEAN, Publish(n, reaches)
      PROVE  Told' /\ Followed'
  BY <1>4, ElsewhereKeeps DEF Publish
<1>5. ASSUME NEW i \in DOMAIN cmds, Resend(i)
      PROVE  Told' /\ Followed'
  BY <1>5, ElsewhereKeeps DEF Resend
<1>6. ASSUME NEW d \in Devices, NEW answered \in BOOLEAN, Execute(d, answered)
      PROVE  Told' /\ Followed'
  <2>1. PICK W, v : Written(W, v)
    BY <1>6, ExecuteFact
  <2>2. seen' = seen
    BY <1>6 DEF Execute
  <2> QED
    BY <1>6, <2>1, <2>2, WrittenTold, ExecuteFollowed
<1>7. ASSUME NEW ga \in DOMAIN bus, Follow(ga)
      PROVE  Told' /\ Followed'
  <2>1. Written(Wired(ga), [p \in Wired(ga) |-> bus[ga]])
    BY <1>7, FollowFact
  <2>2. seen' = seen
    BY <1>7 DEF Follow
  <2>3. Told'
    BY <2>1, <2>2, WrittenTold
  <2>4. Followed'
    BY <1>7, FollowFollowed
  <2> QED
    BY <2>3, <2>4
<1>8. ASSUME NEW ga \in DOMAIN bus, Press(ga)
      PROVE  Told' /\ Followed'
  BY <1>8, PressKeeps
<1>9. ASSUME Report
      PROVE  Told' /\ Followed'
  BY <1>9, ReportKeeps
<1>10. ASSUME UNCHANGED agentVars
       PROVE  Told' /\ Followed'
  BY <1>10, ElsewhereKeeps DEF agentVars
<1> QED
  BY <1>0, <1>1, <1>2, <1>3, <1>4, <1>5, <1>6, <1>7, <1>8, <1>9, <1>10 DEF AgentNext

LEMMA SkippedFact ==
  ASSUME NEW c, NEW states, NEW a \in Asks, a.op = "set_lights",
         NEW ga \in Decide(c, states, a).skipped
  PROVE  \E o \in Lights(c, a.q) : o.ga = ga /\ LeftAlone(c, states, a, o)
<1> DEFINE found   == Lights(c, a.q)
           skipped == {o.ga : o \in {o \in found : LeftAlone(c, states, a, o)}}
           lights  == LightsAtOnce(found, skipped, a)
<1>1. Decide(c, states, a) = lights
  BY DEF Decide, DecideLights
<1> HIDE DEF found, skipped
<1>2. lights.skipped \in {{}, skipped}
  BY DEF LightsAtOnce, Refuse, Decision
<1> QED
  BY <1>1, <1>2 DEF skipped, found

LEMMA StatusFact ==
  ASSUME LightsWiredApart, catalog \in Catalogs, NEW o \in catalog,
         ClassifyObject(o) = "light_control", NEW p \in StatusOf(catalog, o)
  PROVE  LightStatus(catalog, seen, o) = seen[p.ga]
<1> DEFINE statuses == {q \in Resolve(catalog, <<>>, "light", "light_status") :
                          q.name = Append(o.name, ":status")}
<1>1. /\ p \in Resolve(catalog, <<>>, "light", "light_status")
      /\ p.name = Append(o.name, ":status") /\ StatusOf(catalog, o) = {p}
  BY ApartFact
<1>2. p.name \in Words(StatusSiblingNames(o))
  BY DEF StatusOf
<1>3. \A q \in statuses : q \in StatusOf(catalog, o)
  BY <1>1, <1>2, ResolveFact DEF StatusOf
<1>4. statuses = {p}
  BY <1>1, <1>3
<1>5. (IF statuses = {} THEN o ELSE CHOOSE q \in statuses : TRUE) = p
  BY <1>4
<1> QED
  BY <1>5 DEF LightStatus

LEMMA LastOne ==
  ASSUME NEW f, IsSeq(f), NEW ga, NEW k \in DOMAIN f, f[k].ga = ga
  PROVE  \E j \in DOMAIN f : LastIn(f, j, ga)
<1>1. DOMAIN f = 1..Len(f) /\ Len(f) \in Nat
  BY SeqFact
<1> DEFINE T == {Len(f) - j : j \in {j \in DOMAIN f : f[j].ga = ga}}
<1>2. T \subseteq Nat /\ T # {}
  BY <1>1
<1>3. PICK d \in T : \A e \in T : ~(<<e, d>> \in OpToRel(<, Nat))
  BY <1>2, NatLessThanWellFounded, WFMin
<1>4. \A e \in T : ~(e < d)
  BY <1>2, <1>3 DEF OpToRel
<1>5. PICK j \in DOMAIN f : f[j].ga = ga /\ d = Len(f) - j
  OBVIOUS
<1>6. ASSUME NEW i \in DOMAIN f, i > j
      PROVE  f[i].ga # ga
  <2> SUFFICES ASSUME f[i].ga = ga
               PROVE  FALSE
    OBVIOUS
  <2>1. Len(f) - i \in T
    OBVIOUS
  <2>2. ~(Len(f) - i < Len(f) - j)
    BY <1>4, <1>5, <2>1
  <2> QED
    BY <1>1, <1>6, <2>2
<1> QED
  BY <1>5, <1>6 DEF LastIn

\* What set_lights leaves alone is as asked, or will be.
LEMMA SkippedAsAsked ==
  ASSUME LightsWiredApart, StateKnown, NEW a \in Asks, a.op = "set_lights",
         NEW ga \in Decide(catalog, seen, a).skipped, CaughtUp(ga)
  PROVE  Outcome(ga) = a.on
<1> USE DEF StateKnown
<1>1. PICK o \in Lights(catalog, a.q) : o.ga = ga /\ LeftAlone(catalog, seen, a, o)
  BY SkippedFact
<1>2. o \in catalog /\ ClassifyObject(o) = "light_control"
  BY <1>1, ResolveFact DEF Lights
<1>3. catalog \in Catalogs /\ DOMAIN bus = {x.ga : x \in catalog}
  BY DEF AgentInv, Measured
<1>4. LightStatus(catalog, seen, o) = a.on /\ seen[ga] = a.on
  BY <1>1 DEF LeftAlone
<1>5. \A j \in DOMAIN feed : feed[j].ga # ga /\ ~(feed[j].wall /\ feed[j].ga \in Wired(ga))
  BY DEF CaughtUp
<1>6. bus[ga] = a.on
  BY <1>1, <1>2, <1>3, <1>4, <1>5 DEF Told
<1>7. CASE ga \in due \/ Wired(ga) = {}
  BY <1>6, <1>7 DEF Outcome
<1>8. CASE ~(ga \in due \/ Wired(ga) = {})
  <2> DEFINE b == CHOOSE b \in Wired(ga) : TRUE
  <2>1. b \in Wired(ga) /\ Outcome(ga) = bus[b]
    BY <1>8 DEF Outcome
  <2> HIDE DEF b
  <2>2. ObjectAt(catalog, ga) = o
    BY <1>1, <1>2, <1>3, ObjectFact
  <2>3. PICK p \in StatusOf(catalog, o) : b = p.ga
    BY <1>3, <2>1, <2>2, WiredFact
  <2>4. seen[b] = a.on
    BY <1>2, <1>3, <1>4, <2>3, StatusFact
  <2>5. p \in catalog /\ b \in DOMAIN bus
    BY <1>3, <2>3 DEF StatusOf
  <2>6. CASE \A j \in DOMAIN feed : feed[j].ga # b
    <3>1. seen[b] = bus[b]
      BY <2>5, <2>6 DEF Told
    <3> QED
      BY <2>1, <2>4, <3>1
  <2>7. CASE \E j \in DOMAIN feed : feed[j].ga = b
    <3>1. IsSeq(feed)
      BY DEF AgentInv, Measured
    <3>2. PICK j \in DOMAIN feed : LastIn(feed, j, b)
      BY <2>7, <3>1, LastOne
    <3>3. ~feed[j].wall
      BY <1>5, <2>1, <3>2 DEF LastIn
    <3>4. bus[b] = bus[ga]
      BY <1>1, <1>2, <1>8, <2>3, <3>2, <3>3 DEF Followed
    <3> QED
      BY <1>6, <2>1, <3>4
  <2> QED
    BY <2>6, <2>7
<1> QED
  BY <1>7, <1>8

LEMMA AgentNext_SkipIsJustified ==
  ASSUME LightsWiredApart, StateKnown, [AgentNext]_agentVars,
         NEW n \in DOMAIN reqs' \ DOMAIN reqs, reqs'[n].ask.op = "set_lights"
  PROVE  Justified(reqs'[n])
<1>1. \E a \in Asks : Ask(a)
  <2>1. ASSUME NEW m, Commit(m)
        PROVE  DOMAIN reqs' = DOMAIN reqs
    BY <2>1 DEF Commit
  <2>2. ASSUME NEW m, CommitFails(m)
        PROVE  DOMAIN reqs' = DOMAIN reqs
    BY <2>2 DEF CommitFails
  <2>3. ASSUME NEW m, NEW reaches, Publish(m, reaches)
        PROVE  DOMAIN reqs' = DOMAIN reqs
    BY <2>3 DEF Publish
  <2> QED
    BY <2>1, <2>2, <2>3 DEF AgentNext, agentVars, Resend, Execute, Follow, Press, Report
<1>2. PICK a \in Asks : Ask(a)
  BY <1>1
<1> DEFINE d == Decide(catalog, seen, a)
           r == [ask |-> a, sends |-> d.sends, each |-> d.each,
                 skipped |-> d.skipped, answer |-> d.answer,
                 phase |-> IF d.sends = <<>> THEN "done" ELSE "send"]
<1>3. reqs' = Append(reqs, r)
  BY <1>2 DEF Ask
<1>4. r.ask = a /\ r.skipped = d.skipped
  OBVIOUS
<1> HIDE DEF r
<1>5. IsSeq(reqs) /\ DOMAIN reqs = 1..Len(reqs) /\ Len(reqs) \in Nat
  BY SeqFact DEF StateKnown, AgentInv, Asked
<1>6. DOMAIN reqs' = 1..(Len(reqs) + 1) /\ reqs'[Len(reqs) + 1] = r
  BY <1>3, <1>5, AppendFact
<1>7. reqs'[n] = r
  BY <1>5, <1>6
<1> SUFFICES ASSUME NEW ga \in d.skipped, CaughtUp(ga)
             PROVE  Outcome(ga) = a.on
  BY <1>4, <1>7 DEF Justified
<1> QED
  BY <1>4, <1>7, SkippedAsAsked

LEMMA StateKnownInvariant == LightsWiredApart => (AgentSpec => []StateKnown)
<1> SUFFICES ASSUME LightsWiredApart
             PROVE  AgentSpec => []StateKnown
  OBVIOUS
<1>1. AgentInit => StateKnown
  BY AgentInit_StateKnown
<1>2. StateKnown /\ [AgentNext]_agentVars => StateKnown'
  BY AgentNext_StateKnown
<1> QED
  BY <1>1, <1>2, PTL DEF AgentSpec

\* SkipIsJustified: set_lights with skip_unchanged leaves a light alone only if
\* it is as asked, or will be once its actuator has followed; what is not yet
\* reported or acknowledged is excepted.
THEOREM SkipIsJustifiedHolds == LightsWiredApart => (AgentSpec => SkipIsJustified)
<1> SUFFICES ASSUME LightsWiredApart
             PROVE  AgentSpec => SkipIsJustified
  OBVIOUS
<1>1. AgentSpec => []StateKnown
  BY StateKnownInvariant
<1>2. StateKnown /\ [AgentNext]_agentVars =>
        [\A n \in DOMAIN reqs' \ DOMAIN reqs :
           reqs'[n].ask.op = "set_lights" => Justified(reqs'[n])]_agentVars
  BY AgentNext_SkipIsJustified
<1> QED
  BY <1>1, <1>2, PTL DEF AgentSpec, SkipIsJustified
=============================================================================
