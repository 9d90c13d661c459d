SPECIFICATION MCSpec
CONSTANTS
  u1 = u1  u2 = u2  p1 = p1  p2 = p2  p3 = p3  p4 = p4  c1 = c1  d1 = d1  d2 = d2
  Users = {u1, u2}
  Purchases = {p1, p2, p3, p4}
  Cancels = {c1}
  UserOf <- TwoUsers
  WithPromo = {p3, p4}
  MaxUses = 1
  Deliveries = {d1, d2}
  MaxEvents = 3
INVARIANTS TypeOK HandledOnce StatusWasReported CancellingReachedStripe PromoLimit
ACTION_CONSTRAINTS SetupIsUsed SecondIsQuiet
SYMMETRY CallsAlike
CHECK_DEADLOCK FALSE
