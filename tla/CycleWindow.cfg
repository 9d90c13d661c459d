SPECIFICATION Spec
CONSTANTS
  Months = 16
  FirstDay <- CalendarDays
INVARIANTS HoldsNow NoDrift
PROPERTY WindowsTile
CHECK_DEADLOCK FALSE
