SPECIFICATION Spec
CONSTANTS
  right = right  wrong1 = wrong1  wrong2 = wrong2  fault1 = fault1  fault2 = fault2
  Requests = {right, wrong1, wrong2, fault1, fault2}
  Verdict <- AllVerdicts
  Limit = 2
INVARIANTS TypeOK CapHolds NoPermanentLockout
PROPERTY NoFalseLockout
CHECK_DEADLOCK FALSE
