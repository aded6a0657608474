SPECIFICATION BookingsFairSpec
CONSTANTS
  BookingIds = {b1}
  Customers = {c1}
  Staff = {s1}
  Spans <- MCOneSpan
  ReminderOptions = {1, 2}
  MaxTime = 3
  Attempts = 2
  Procs = {p1, p2}
  CancelMinHours = 1
  Crashes = TRUE
  DayLength = 4
  SlotLength = 1
  ZoneAhead = 1
  LookAhead = 3
CHECK_DEADLOCK FALSE
INVARIANT CancellationOnRecord
INVARIANT ReminderKeepsLead
PROPERTY ReminderSettles
