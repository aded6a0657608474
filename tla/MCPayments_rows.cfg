SPECIFICATION PaymentsSpec
CONSTANTS
  BookingIds = {b1}
  Customers = {c1}
  Staff = {s1}
  Spans <- MCSpans
  ReminderOptions = {}
  PaymentIds = {i1, i2}
  Orders = {o1, o2}
  NoOrder = NoOrder
  MaxTries = 2
  PayProcs = {q1, q2}
  Hooks = {h1, h2}
  Crashes = TRUE
CHECK_DEADLOCK FALSE
SYMMETRY Symmetric
INVARIANT PaymentsTypeOK
INVARIANT OneActivePayment
INVARIANT IntentIsRecorded
INVARIANT SettledByOwnEvent
PROPERTY SettledIsFinal
PROPERTY PaidIsFinal
