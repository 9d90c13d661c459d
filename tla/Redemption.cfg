SPECIFICATION MCSpec
CONSTANTS
  u1 = u1  u2 = u2  v1 = v1  v2 = v2  v3 = v3  b1 = b1
  r1 = r1  r2 = r2  r3 = r3  c1 = c1  c2 = c2
  Users = {u1}
  Vouchers = {v1, v2, v3}
  Branches = {b1}
  Requests = {r1, r2, r3}
  Codes = {c1, c2}
  CodeOf <- Collision
  Kind <- KindOf
  BranchesOf <- AllBranches
  Windows <- OctoberNight
  Cooldown <- CooldownTwo
  CycleStart <- TwoInstantCycles
  Volatile = {u1}
  MaxClock = 3
  MaxRestores = 1
INVARIANTS TypeOK OncePerCycle CooldownSpacing OncePerWindow HonestRefusal
PROPERTY KeepsPromise
SYMMETRY RequestsAlike
CHECK_DEADLOCK FALSE
