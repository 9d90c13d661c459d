SPECIFICATION RenewalSpec
CONSTANTS
  u1 = u1  v1 = v1  b1 = b1  r1 = r1  r2 = r2  r3 = r3  c1 = c1  c2 = c2  c3 = c3
  Users = {u1}
  Vouchers = {v1}
  Branches = {b1}
  Requests = {r1, r2, r3}
  Codes = {c1, c2, c3}
  CodeOf <- OwnCode
  Kind <- AllCycle
  BranchesOf <- AllBranches
  Windows <- NoWindows
  Cooldown <- CooldownOne
  CycleStart <- TwoInstantCycles
  Volatile = {}
  MaxClock = 4
  MaxRestores = 2
INVARIANT UsesArePaidFor
CHECK_DEADLOCK FALSE
