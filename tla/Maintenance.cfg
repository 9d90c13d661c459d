SPECIFICATION MCSpec
CONSTANTS
  w1 = w1
  b1 = b1
  Branches = {b1, b2}
  MaxStages = 2
  Poison = {1}
  MaxFaults = 1
  NoChange = NoChange
  Workers = {w1, w2}
  Sweeps = {1, 2}
  HoursSweep = 2
  MaxItems = 2
  MaxDelay = 2
  Nobody = Nobody
INVARIANTS
  TypeOK
PROPERTIES
  ImplementsCoolOff
  NothingStartsAfterStop
  DueIsPromoted
CHECK_DEADLOCK FALSE
