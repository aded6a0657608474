SPECIFICATION BookingsSpec
CONSTANTS
  BookingIds = {b1, b2, b3}
  Customers = {c1}
  Staff = {s1, s2}
  Spans <- MCSpans
  ReminderOptions = {}
  MaxTime = 0
  Attempts = 1
  Procs = {p1, p2}
  CancelMinHours = 1
  Crashes = TRUE
  DayLength = 4
  SlotLength = 2
  ZoneAhead = 1
  LookAhead = 3
CHECK_DEADLOCK FALSE
SYMMETRY Symmetric
INVARIANT BookingsTypeOK
INVARIANT NoStaffOverlap
INVARIANT CancelledIsReleased
INVARIANT OfferedMatchesCheck
PROPERTY SlotsAreReserved
