SPECIFICATION SystemRun
CONSTANTS
  BookingIds = {b1, b2}
  Customers = {c1}
  Staff = {s1}
  Spans <- MCSpans
  ReminderOptions = {}
  MaxTime = 3
  Attempts = 1
  Procs = {p1}
  CancelMinHours = 1
  PaymentIds = {i1, i2}
  Orders = {o1, o2}
  NoOrder = NoOrder
  MaxTries = 1
  PayProcs = {q1}
  Hooks = {h1}
  Crashes = TRUE
  DayLength = 4
  SlotLength = 2
  ZoneAhead = 1
  LookAhead = 3
CHECK_DEADLOCK FALSE
SYMMETRY Symmetric
INVARIANT PaidOnlyIfCaptured
INVARIANT ReleasedUnlessCaptured
INVARIANT ActionableIsUpcoming
PROPERTY SlotsAreReserved
