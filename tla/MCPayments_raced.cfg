SPECIFICATION PaymentsSpec
CONSTANTS
  BookingIds = {b1}
  Customers = {c1}
  Staff = {s1}
  Spans <- MCSpans
  ReminderOptions = {}
  PaymentIds = {i1}
  Orders = {o1}
  NoOrder = NoOrder
  MaxTries = 2
  PayProcs = {q1}
  Hooks = {h1, h2}
  Crashes = FALSE
CHECK_DEADLOCK FALSE
PROPERTY TransitionsAllowed
