SPECIFICATION FairSpec
CONSTANTS
  c1 = c1
  c2 = c2
  q1 = q1
  Cmds = {c1, c2}
  Requests = {q1}
  RequestOf <- OneBatch
  MaxRetries = 1
  AckFields <- AnyAnswer
  MaxCopies = 1
  MaxFaults = 1
INVARIANTS
  SendBudget
PROPERTIES
  EveryCommandSettles
  ImplementsLifecycle
