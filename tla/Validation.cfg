SPECIFICATION ValidationSpec
CONSTANTS
  u1 = u1  v1 = v1  b1 = b1  b2 = b2  r1 = r1  r2 = r2  c1 = c1  c2 = c2
  s1 = s1  s2 = s2  a1 = a1  a2 = a2
  Users = {u1}
  Vouchers = {v1}
  Branches = {b1, b2}
  Requests = {r1, r2}
  Codes = {c1, c2}
  CodeOf <- OwnCode
  Kind <- AllCycle
  BranchesOf <- AllBranches
  Windows <- NoWindows
  Cooldown <- CooldownOne
  CycleStart <- OneInstantCycles
  Volatile = {v1, b2}
  MaxClock = 1
  MaxRestores = 2
  Staff = {s1, s2}
  AllowedAt <- SecondStaffAtB1
  Admins = {a1, a2}
INVARIANTS SweepReachesAll ClearedBetweenUses
PROPERTY ImplementsRedemption
SYMMETRY AdminsAlike
CHECK_DEADLOCK FALSE
