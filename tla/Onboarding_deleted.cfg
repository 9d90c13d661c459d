SPECIFICATION MCSpec
CONSTANTS
  Merchant = m
  Vouchers = {v1}
  Branches = {b1, b2}
  Requests = {1, 2}
  Edits = {e1, e2}
  Calls = {c1}
  Rmvs = {r1, r2}
  FlagshipCount = 1
SYMMETRY Symmetry
CONSTRAINT Bounds
INVARIANTS DeletedIsHidden
CHECK_DEADLOCK FALSE
