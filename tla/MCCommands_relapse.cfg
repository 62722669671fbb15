SPECIFICATION Spec
CONSTANTS
  c1 = c1
  c2 = c2
  q1 = q1
  Cmds = {c1}
  Requests = {q1}
  RequestOf <- OneCommand
  MaxRetries = 1
  AckFields <- NoStatus
  MaxCopies = 1
  MaxFaults = 0
INVARIANTS
  TimeoutMeansUnanswered
