SPECIFICATION FairSpec
CONSTANTS
  m1 = m1  m2 = m2  w1 = w1  w2 = w2  w3 = w3
  Messages = {m1, m2}
  Workers = {w1, w2, w3}
  Dark = {w3}
  Attempts = 2
  MaxStalls = 1
  MaxFaults = 2
  SentAt <- InTurn
  Batch = 1
  MaxItems = 2
INVARIANTS TypeOK SentWasAccepted GivenUpForAReason CompletedIsSettled BounceCountedOnce
PROPERTIES ImplementsDelivery RowIsSettled OldRowExpires
ACTION_CONSTRAINT SecondIsBehind
CHECK_DEADLOCK FALSE
