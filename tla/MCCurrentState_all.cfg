SPECIFICATION Spec
CONSTANTS
  Objects = {1, 2}
  Values = {"on", "off"}
  Payloads <- SomePayloads
  Legacy = {1, 2}
  LegacyTime = 2
  MaxFaults = 2
INVARIANTS
  OneRowPerAddress
  EventsMatchState
  AnswersAsStored
PROPERTIES
  NeverBackwards
  ImplementsNewestWins
