SPECIFICATION Spec
CONSTANTS
  u1 = u1  u2 = u2  p1 = p1  p2 = p2  p3 = p3  p4 = p4  c1 = c1  d1 = d1  d2 = d2
  Users = {u1}
  Purchases = {p1, p2}
  Cancels = {}
  UserOf <- TwoUsers
  WithPromo = {}
  MaxUses = 1
  Deliveries = {d1}
  MaxEvents = 3
INVARIANT RecordedIsProcessed
CHECK_DEADLOCK FALSE
