SPECIFICATION BookingsSpec
CONSTANTS
  BookingIds = {b1}
  Customers = {c1}
  Staff = {s1}
  Spans <- MCSpans
  ReminderOptions = {1}
  MaxTime = 0
  Attempts = 1
  Procs = {p1, p2}
  CancelMinHours = 1
  Crashes = FALSE
  DayLength = 4
  SlotLength = 1
  ZoneAhead = 1
  LookAhead = 3
CHECK_DEADLOCK FALSE
PROPERTY CancellationIsFinal
