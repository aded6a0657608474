---------------------------- MODULE SystemProofs ----------------------------
(***************************************************************************)
(* Safety of the composed system for every number of bookings, requests,   *)
(* payments and deliveries: what the booking requests and the payment flow *)
(* promise together although only the rows they share order them.          *)
(*                                                                         *)
(* The lemmas about the steps of each part are those of BookingsProofs and *)
(* PaymentsProofs; what is new here is what a step of one part leaves of   *)
(* the invariants of the other.                                            *)
(***************************************************************************)
EXTENDS BookingSystem, BookingsProofs, PaymentsProofs

(* Both parts are well-formed and the flow's strengthening holds.           *)
SystemInv == BookingsTypeOK /\ FlowInv

(* It holds when the service starts.                                        *)
LEMMA SystemInvInit ==
  ASSUME SystemInit
  PROVE  SystemInv
  BY TypeBookingsInit, FlowInit DEF SystemInit, SystemInv

(* A step of either part keeps it: the requests do not touch payments, and  *)
(* the flow neither adds nor removes bookings.                              *)
LEMMA SystemInvNext ==
  ASSUME SystemInv, [SystemNext]_systemVars
  PROVE  SystemInv'
<1>1. CASE BookingsNext /\ UNCHANGED paymentFlowVars
  BY <1>1, TypeBookingsNext, FlowStutters DEF SystemInv, paymentFlowVars
<1>2. CASE PaymentsNext /\ UNCHANGED <<queueVars, req>>
  <2>1. FlowInv' /\ RowsTypeOK' /\ DOMAIN bookings' = DOMAIN bookings
    BY <1>2, FlowNext, FlowKeepsRows DEF SystemInv, BookingsTypeOK
  <2> QED
    BY <1>2, <2>1
    DEF SystemInv, BookingsTypeOK, RequestsTypeOK, QueueTypeOK, queueVars
<1>3. CASE UNCHANGED systemVars
  <2>1. FlowInv'
    BY <1>3, FlowStutters DEF systemVars, paymentFlowVars, SystemInv
  <2> QED
    BY <1>3, <2>1
    DEF SystemInv, BookingsTypeOK, RowsTypeOK, RequestsTypeOK, QueueTypeOK,
        systemVars, rowVars, queueVars
<1> QED BY <1>1, <1>2, <1>3 DEF SystemNext

(* The composed system keeps it throughout.                                 *)
LEMMA SystemInvCorrect == SystemSpec => []SystemInv
  BY SystemInvInit, SystemInvNext, PTL DEF SystemSpec

(* Every row, job, request, payment and delivery of the composed system     *)
(* keeps its shape.                                                         *)
THEOREM SystemTypeCorrect == SystemSpec => []SystemTypeOK
<1>1. SystemInv => SystemTypeOK
  BY DEF SystemInv, FlowInv, SystemTypeOK
<1> QED BY <1>1, SystemInvCorrect, PTL

(* The payments' own invariants survive the booking requests, which write   *)
(* neither payments nor orders nor events.                                  *)
THEOREM SystemKeepsPayments ==
  SystemSpec => [](OneActivePayment /\ IntentIsRecorded /\ SettledByOwnEvent)
<1> DEFINE Inv == OneActivePayment /\ IntentIsRecorded /\ SettledByOwnEvent
<1>1. SystemInit => Inv
  BY DEF SystemInit, PaymentsStateInit, OneActivePayment, IntentIsRecorded,
         SettledByOwnEvent
<1>2. Inv /\ UNCHANGED paymentFlowVars => Inv'
  BY DEF OneActivePayment, IntentIsRecorded, SettledByOwnEvent, Active, Target,
         paymentFlowVars, gatewayVars
<1>3. SystemInv /\ Inv /\ PaymentsNext => Inv'
  BY OneActiveNext, IntentRecordedNext, SettledNext DEF SystemInv
<1>4. SystemInv /\ Inv /\ [SystemNext]_systemVars => Inv'
  BY <1>2, <1>3 DEF SystemNext, systemVars
<1> QED BY <1>1, <1>4, SystemInvCorrect, PTL DEF SystemSpec

-----------------------------------------------------------------------------
(* PaidOnlyIfCaptured, and the same of the rows that reminder requests have *)
(* read and are about to write over whatever the flow wrote meanwhile.      *)
PaidInv ==
  /\ CapturedFirst
  /\ \A p \in Procs :
       /\ req[p].pc \in {"saveReminder", "writeReminder"}
       /\ req[p].row.payment = "paid" \/ req[p].row.status = "confirmed"
       => Captured(req[p].booking)

(* The booking requests pay or confirm a booking only by writing back a row *)
(* that was paid or confirmed when they read it.                            *)
LEMMA PaidByRequests ==
  ASSUME SystemInv, PaidInv, BookingsNext, UNCHANGED paymentFlowVars
  PROVE  PaidInv'
<1> USE DEF SystemInv, BookingsTypeOK, RowsTypeOK
<1>1. WritesRows /\ WritesLogs /\ KeepsReads
  BY RowsWritten, LogsWritten, ReadsKept
<1>2. UNCHANGED orders
  BY DEF paymentFlowVars, gatewayVars
<1>3. ASSUME NEW b \in BookingIds,
             \/ b \in DOMAIN bookings' /\ bookings'[b].payment = "paid"
             \/ b \in DOMAIN bookings' /\ bookings'[b].status = "confirmed"
             \/ b \in DOMAIN bookings' /\ items'[b].status = "confirmed"
             \/ "confirmed" \in timeline'[b]
             \/ <<b, "confirmation">> \in messages'
      PROVE  Captured(b)
  <2>1. CASE b \in DOMAIN bookings' /\ bookings'[b].payment = "paid"
    <3>1. b \in DOMAIN bookings
      BY <1>1, <2>1 DEF WritesRows
    <3>2. \/ bookings[b].payment = "paid"
          \/ \E p \in Procs : /\ req[p].pc = "writeReminder"
                             /\ req[p].booking = b
                             /\ req[p].row.payment = "paid"
      BY <1>1, <2>1, <3>1 DEF WritesRows
    <3> QED BY <3>1, <3>2 DEF PaidInv, CapturedFirst
  <2>2. CASE b \in DOMAIN bookings' /\ bookings'[b].status = "confirmed"
    <3>1. b \in DOMAIN bookings
      BY <1>1, <2>2 DEF WritesRows
    <3>2. \/ bookings[b].status = "confirmed"
          \/ \E p \in Procs : /\ req[p].pc = "writeReminder"
                             /\ req[p].booking = b
                             /\ req[p].row.status = "confirmed"
      BY <1>1, <2>2, <3>1 DEF WritesRows
    <3> QED BY <3>1, <3>2 DEF PaidInv, CapturedFirst
  <2>3. CASE b \in DOMAIN bookings' /\ items'[b].status = "confirmed"
    <3>1. b \in DOMAIN bookings
      BY <1>1, <2>3 DEF WritesRows
    <3>2. items[b].status = "confirmed"
      BY <1>1, <2>3, <3>1 DEF WritesRows
    <3> QED BY <3>1, <3>2 DEF PaidInv, CapturedFirst
  <2>4. CASE "confirmed" \in timeline'[b]
    BY <1>1, <2>4 DEF WritesLogs, PaidInv, CapturedFirst
  <2>5. CASE <<b, "confirmation">> \in messages'
    BY <1>1, <2>5 DEF WritesLogs, PaidInv, CapturedFirst
  <2> QED BY <1>3, <2>1, <2>2, <2>3, <2>4, <2>5
<1>4. ASSUME NEW p \in Procs, req'[p].pc \in {"saveReminder", "writeReminder"},
             req'[p].row.payment = "paid" \/ req'[p].row.status = "confirmed"
      PROVE  Captured(req'[p].booking)
  <2>1. CASE /\ req[p].pc \in {"saveReminder", "writeReminder"}
             /\ req'[p].booking = req[p].booking /\ req'[p].row = req[p].row
    BY <1>4, <2>1 DEF PaidInv
  <2>2. CASE /\ req'[p].booking \in DOMAIN bookings
             /\ req'[p].row.status = bookings[req'[p].booking].status
             /\ req'[p].row.payment = bookings[req'[p].booking].payment
    BY <1>4, <2>2 DEF PaidInv, CapturedFirst
  <2> QED BY <1>1, <1>4, <2>1, <2>2 DEF KeepsReads
<1> QED BY <1>2, <1>3, <1>4 DEF PaidInv, CapturedFirst, Captured

(* No step of the system pays or confirms a booking before its capture.     *)
LEMMA PaidNext ==
  ASSUME SystemInv, PaidInv, [SystemNext]_systemVars
  PROVE  PaidInv'
<1>1. CASE BookingsNext /\ UNCHANGED paymentFlowVars
  BY <1>1, PaidByRequests
<1>2. CASE PaymentsNext /\ UNCHANGED <<queueVars, req>>
  <2>1. CapturedFirst'
    BY <1>2, CapturedFirstNext DEF SystemInv, BookingsTypeOK, PaidInv
  <2>2. \A p \in Procs : Captured(req[p].booking) => Captured(req[p].booking)'
    <3>1. \A b : Captured(b) => Captured(b)'
      BY <1>2, CapturedStays DEF SystemInv
    <3> QED BY <1>2, <3>1 DEF Captured
  <2> QED BY <1>2, <2>1, <2>2 DEF PaidInv
<1>3. CASE UNCHANGED systemVars
  BY <1>3
  DEF PaidInv, CapturedFirst, Captured, systemVars, rowVars, paymentFlowVars,
      gatewayVars
<1> QED BY <1>1, <1>2, <1>3 DEF SystemNext

(* A booking is paid, confirmed, logged or announced as confirmed only      *)
(* after the gateway captured an order of it, even when reminder requests   *)
(* write back rows they read before a cancel or a payment.                  *)
THEOREM SystemPaidIsCaptured == SystemSpec => []PaidOnlyIfCaptured
<1>1. SystemInit => PaidInv
  BY DEF SystemInit, BookingsInit, RowsInit, RequestsInit, Idle, PaidInv,
         CapturedFirst
<1>2. SystemInv /\ PaidInv => PaidOnlyIfCaptured
  BY CapturedFirstImplies DEF SystemInv, BookingsTypeOK, PaidInv
<1> QED BY <1>1, <1>2, PaidNext, SystemInvCorrect, PTL DEF SystemSpec

-----------------------------------------------------------------------------
(* ReleasedUnlessCaptured, and the same of a cancelled status that a        *)
(* reminder request has read and is about to write back.                    *)
ReleasedInv ==
  /\ ReleasedUnlessCaptured
  /\ \A p \in Procs :
       /\ req[p].pc \in {"saveReminder", "writeReminder"}
       /\ req[p].row.status = "cancelled"
       /\ ~Captured(req[p].booking)
       => items[req[p].booking].status = "cancelled"

(* The booking requests cancel the items of what they cancel, and turn no   *)
(* item live again.                                                         *)
LEMMA ReleasedByRequests ==
  ASSUME SystemInv, ReleasedInv, BookingsNext, UNCHANGED paymentFlowVars
  PROVE  ReleasedInv'
<1> USE DEF SystemInv, BookingsTypeOK, RowsTypeOK, RequestsTypeOK
<1>1. WritesRows /\ KeepsReads
  BY RowsWritten, ReadsKept
<1>2. UNCHANGED orders
  BY DEF paymentFlowVars, gatewayVars
<1>3. \A b \in DOMAIN bookings :
        items[b].status = "cancelled" => items'[b].status = "cancelled"
  BY <1>1 DEF WritesRows
<1>4. ASSUME NEW b \in DOMAIN bookings', bookings'[b].status = "cancelled",
             ~Captured(b)
      PROVE  items'[b].status = "cancelled"
  <2>1. b \in DOMAIN bookings
    BY <1>1, <1>4 DEF WritesRows
  <2>2. \/ bookings[b].status = "cancelled"
        \/ items'[b].status = "cancelled"
        \/ \E p \in Procs : /\ req[p].pc = "writeReminder"
                           /\ req[p].booking = b
                           /\ req[p].row.status = "cancelled"
    BY <1>1, <1>4, <2>1 DEF WritesRows
  <2> QED BY <1>3, <1>4, <2>1, <2>2 DEF ReleasedInv, ReleasedUnlessCaptured
<1>5. ASSUME NEW p \in Procs, req'[p].pc \in {"saveReminder", "writeReminder"},
             req'[p].row.status = "cancelled", ~Captured(req'[p].booking)
      PROVE  items'[req'[p].booking].status = "cancelled"
  <2>1. CASE /\ req[p].pc \in {"saveReminder", "writeReminder"}
             /\ req'[p].booking = req[p].booking /\ req'[p].row = req[p].row
    BY <1>3, <1>5, <2>1 DEF ReleasedInv
  <2>2. CASE /\ UNCHANGED rowVars
             /\ req'[p].booking \in DOMAIN bookings
             /\ req'[p].row.status = bookings[req'[p].booking].status
    BY <1>5, <2>2 DEF rowVars, ReleasedInv, ReleasedUnlessCaptured
  <2> QED BY <1>1, <1>5, <2>1, <2>2 DEF KeepsReads
<1> QED BY <1>2, <1>4, <1>5 DEF ReleasedInv, ReleasedUnlessCaptured, Captured

(* The flow turns items live only for a capture, and cancels no booking.    *)
LEMMA ReleasedByFlow ==
  ASSUME SystemInv, ReleasedInv, PaymentsNext, UNCHANGED req
  PROVE  ReleasedInv'
<1> USE DEF SystemInv, BookingsTypeOK, RowsTypeOK, RequestsTypeOK
<1>1. ASSUME NEW b, Captured(b)
      PROVE  Captured(b)'
  BY <1>1, CapturedStays
<1>2. ASSUME NEW b \in DOMAIN bookings, items'[b] # items[b]
      PROVE  Captured(b)
  <2>1. PICK h \in Hooks : HookConfirmItems(h)
    BY <1>2, RowWriters
    DEF HookMarkPaid, HookLogConfirmed, HookNotify, HookMarkUnpaid, rowVars
  <2>2. hook[h].booking = b /\ hook[h].pc = "confirmItems"
    BY <1>2, <2>1 DEF HookConfirmItems
  <2> QED BY <2>2, ConfirmingIsCaptured
<1>3. ASSUME NEW b \in DOMAIN bookings, bookings'[b].status = "cancelled"
      PROVE  bookings[b].status = "cancelled"
  <2>1. CASE UNCHANGED bookings
    BY <1>3, <2>1
  <2>2. ASSUME NEW h \in Hooks, HookMarkPaid(h) \/ HookMarkUnpaid(h)
        PROVE  bookings[b].status = "cancelled"
    BY <1>3, <2>2 DEF HookMarkPaid, HookMarkUnpaid, BookingRow
  <2> QED
    BY <2>1, <2>2, RowWriters
    DEF HookConfirmItems, HookLogConfirmed, HookNotify, rowVars
<1>4. DOMAIN bookings' = DOMAIN bookings
  BY FlowKeepsRows
<1>5. ASSUME NEW b \in DOMAIN bookings, ~Captured(b)',
             \/ bookings'[b].status = "cancelled"
             \/ items[b].status = "cancelled"
      PROVE  items'[b].status = "cancelled"
  <2>1. ~Captured(b)
    BY <1>1, <1>5
  <2>2. items[b].status = "cancelled"
    BY <1>3, <1>5, <2>1 DEF ReleasedInv, ReleasedUnlessCaptured
  <2> QED BY <1>2, <2>1, <2>2
<1>6. ReleasedUnlessCaptured'
  BY <1>4, <1>5 DEF ReleasedUnlessCaptured
<1>7. ASSUME NEW p \in Procs, req[p].pc \in {"saveReminder", "writeReminder"},
             req[p].row.status = "cancelled", ~Captured(req[p].booking)'
      PROVE  items'[req[p].booking].status = "cancelled"
  <2>1. PICK b \in DOMAIN bookings : b = req[p].booking
    BY <1>7
  <2>2. ~Captured(b)'
    BY <1>7, <2>1 DEF Captured
  <2>3. items[b].status = "cancelled"
    BY <1>1, <1>7, <2>1, <2>2 DEF ReleasedInv
  <2> QED BY <1>5, <2>1, <2>2, <2>3
<1> QED BY <1>6, <1>7 DEF ReleasedInv

(* A cancelled booking without a captured order has given its slot back,    *)
(* whatever late writes and payment events come after the cancel.           *)
THEOREM SystemReleases == SystemSpec => []ReleasedUnlessCaptured
<1>1. SystemInit => ReleasedInv
  BY DEF SystemInit, BookingsInit, RowsInit, RequestsInit, Idle, ReleasedInv,
         ReleasedUnlessCaptured
<1>2. ReleasedInv /\ UNCHANGED systemVars => ReleasedInv'
  BY DEF ReleasedInv, ReleasedUnlessCaptured, Captured, systemVars, rowVars,
         paymentFlowVars, gatewayVars
<1>3. SystemInv /\ ReleasedInv /\ [SystemNext]_systemVars => ReleasedInv'
  BY <1>2, ReleasedByRequests, ReleasedByFlow DEF SystemNext
<1>4. ReleasedInv => ReleasedUnlessCaptured
  BY DEF ReleasedInv
<1> QED BY <1>1, <1>3, <1>4, SystemInvCorrect, PTL DEF SystemSpec

-----------------------------------------------------------------------------
(* A booking's items keep a span that could be asked for.                   *)
ItemsHaveSpans ==
  \A b \in DOMAIN items :
    \E span \in Spans : items[b].start = span.start /\ items[b].end = span.end

(* A delivery that confirms the items of a booking changes nothing else of  *)
(* them, and only if their time is free.                                    *)
LEMMA ConfirmWrites ==
  ASSUME SystemInv, PaymentsNext
  PROVE  \/ UNCHANGED items
         \/ \E b \in DOMAIN items :
              /\ ~ExclusionViolated(b, items[b].staff, items[b])
              /\ items' = [items EXCEPT ![b].status = "confirmed"]
<1>1. CASE UNCHANGED items
  BY <1>1
<1>2. ASSUME NEW h \in Hooks, HookConfirmItems(h), ~UNCHANGED items
      PROVE  \E b \in DOMAIN items :
               /\ ~ExclusionViolated(b, items[b].staff, items[b])
               /\ items' = [items EXCEPT ![b].status = "confirmed"]
  <2>1. items \in [DOMAIN bookings -> ItemRow]
    BY DEF SystemInv, BookingsTypeOK, RowsTypeOK
  <2>2. PICK b : /\ ~ExclusionViolated(b, items[b].staff, items[b])
                 /\ items' = [items EXCEPT ![b].status = "confirmed"]
    BY <1>2 DEF HookConfirmItems
  <2>3. b \in DOMAIN items
    BY <1>2, <2>1, <2>2
  <2> QED BY <2>2, <2>3
<1> QED BY <1>1, <1>2, RowWriters
        DEF HookMarkPaid, HookLogConfirmed, HookNotify, HookMarkUnpaid, rowVars

(* So a confirmation too takes a specialist's time only while it is free.   *)
LEMMA ConfirmKeepsStaffTime ==
  ASSUME RowsTypeOK, NoStaffOverlap, NEW b \in DOMAIN items,
         ~ExclusionViolated(b, items[b].staff, items[b]),
         items' = [items EXCEPT ![b].status = "confirmed"]
  PROVE  NoStaffOverlap'
<1>1. /\ DOMAIN items' = DOMAIN items
      /\ \A x \in DOMAIN items \ {b} : items'[x] = items[x]
      /\ items'[b].staff = items[b].staff
      /\ items'[b].start = items[b].start /\ items'[b].end = items[b].end
  BY DEF RowsTypeOK, ItemRow
<1>2. \A x \in DOMAIN items : items[x].start \in Nat /\ items[x].end \in Nat
  BY DEF RowsTypeOK, ItemRow
<1>3. SUFFICES ASSUME NEW x \in DOMAIN items, NEW y \in DOMAIN items,
                      x # y, items'[x].staff = items'[y].staff,
                      LiveItem(x)', LiveItem(y)'
               PROVE  ~Overlaps(items'[x], items'[y])
  BY <1>1 DEF NoStaffOverlap, LiveItem
<1>4. CASE x # b /\ y # b
  BY <1>1, <1>3, <1>4 DEF NoStaffOverlap, LiveItem
<1>5. CASE x = b
  BY <1>1, <1>2, <1>3, <1>5 DEF ExclusionViolated, LiveItem, Overlaps
<1>6. CASE y = b
  BY <1>1, <1>2, <1>3, <1>6 DEF ExclusionViolated, LiveItem, Overlaps
<1> QED BY <1>4, <1>5, <1>6

(* In the calendar it reserves the booking's span again if it was released, *)
(* and is no step otherwise.                                                *)
LEMMA ConfirmReserves ==
  ASSUME RowsTypeOK, ItemsHaveSpans, NEW b \in DOMAIN items,
         ~ExclusionViolated(b, items[b].staff, items[b]),
         items' = [items EXCEPT ![b].status = "confirmed"]
  PROVE  Calendar!Reserve(b) \/ UNCHANGED Reservations
<1> DEFINE r == [id |-> b, staff |-> items[b].staff, start |-> items[b].start,
                 end |-> items[b].end]
<1>1. /\ DOMAIN items' = DOMAIN items
      /\ \A x \in DOMAIN items :
           /\ items'[x].staff = items[x].staff
           /\ items'[x].start = items[x].start
           /\ items'[x].end = items[x].end
           /\ items'[x].status = IF x = b THEN "confirmed" ELSE items[x].status
  BY DEF RowsTypeOK, ItemRow
<1>2. {y \in DOMAIN items' : LiveItem(y)'}
        = {y \in DOMAIN items : LiveItem(y)} \cup {b}
  BY <1>1 DEF LiveItem
<1>3. Reservations' = Reservations \cup {r}
  BY <1>1, <1>2 DEF Reservations
<1>4. CASE LiveItem(b)
  BY <1>3, <1>4 DEF Reservations
<1>5. CASE ~LiveItem(b)
  <2>1. \A q \in Reservations : q.id # b
    BY <1>5 DEF Reservations
  <2>2. \A q \in Reservations : ~Calendar!Clash(r, q)
    <3>1. \A x \in DOMAIN items : items[x].start \in Nat /\ items[x].end \in Nat
      BY DEF RowsTypeOK, ItemRow
    <3> QED
      BY <1>5, <3>1
      DEF Reservations, ExclusionViolated, LiveItem, Overlaps, Calendar!Clash
  <2>3. PICK span \in Spans : items[b].start = span.start /\ items[b].end = span.end
    BY DEF ItemsHaveSpans
  <2>4. items[b].staff \in Staff
    BY DEF RowsTypeOK, ItemRow
  <2>5. \E s \in Staff, x \in Spans :
          LET q == [id |-> b, staff |-> s, start |-> x.start, end |-> x.end]
          IN /\ \A y \in Reservations : ~Calendar!Clash(q, y)
             /\ Reservations' = Reservations \cup {q}
    BY <1>3, <2>2, <2>3, <2>4
  <2> QED BY <2>1, <2>5 DEF Calendar!Reserve
<1> QED BY <1>4, <1>5

(* Neither part gives an item a time that could not be asked for.           *)
LEMMA SpansNext ==
  ASSUME SystemInv, ItemsHaveSpans, [SystemNext]_systemVars
  PROVE  ItemsHaveSpans'
<1> USE DEF SystemInv, BookingsTypeOK, RowsTypeOK
<1>1. CASE UNCHANGED items
  BY <1>1 DEF ItemsHaveSpans
<1>2. CASE BookingsNext /\ UNCHANGED paymentFlowVars
  <2>1. DOMAIN items' = DOMAIN bookings' /\ WritesRows
    BY <1>2, TypeBookingsNext, RowsWritten
  <2> QED BY <2>1 DEF WritesRows, ItemsHaveSpans
<1>3. ASSUME NEW b \in DOMAIN items,
             items' = [items EXCEPT ![b].status = "confirmed"]
      PROVE  ItemsHaveSpans'
  BY <1>3 DEF ItemsHaveSpans, ItemRow
<1> QED BY <1>1, <1>2, <1>3, ConfirmWrites DEF SystemNext, systemVars, rowVars

(* And they keep it.                                                        *)
LEMMA SpansCorrect == SystemSpec => []ItemsHaveSpans
<1>1. SystemInit => ItemsHaveSpans
  BY DEF SystemInit, BookingsInit, RowsInit, ItemsHaveSpans
<1> QED BY <1>1, SpansNext, SystemInvCorrect, PTL DEF SystemSpec

(* No specialist has two live items at the same time, although a late       *)
(* payment turns cancelled items live again.                                *)
THEOREM SystemStaffTimeIsExclusive == SystemSpec => []NoStaffOverlap
<1>1. SystemInit => NoStaffOverlap
  BY DEF SystemInit, BookingsInit, RowsInit, NoStaffOverlap
<1>2. ASSUME SystemInv, NoStaffOverlap, [SystemNext]_systemVars
      PROVE  NoStaffOverlap'
  <2>1. CASE UNCHANGED items
    BY <1>2, <2>1 DEF NoStaffOverlap, LiveItem
  <2>2. CASE BookingsNext
    BY <1>2, <2>2, StaffTimeNext DEF SystemInv
  <2>3. CASE PaymentsNext
    BY <1>2, <2>1, <2>3, ConfirmWrites, ConfirmKeepsStaffTime
    DEF SystemInv, BookingsTypeOK
  <2> QED BY <1>2, <2>1, <2>2, <2>3 DEF SystemNext, systemVars, rowVars
<1> QED BY <1>1, <1>2, SystemInvCorrect, PTL DEF SystemSpec

(* The composed system implements the calendar of reservations: whatever    *)
(* takes a slot, a request or a late payment, takes it only while it is     *)
(* free, and a released booking may reserve again.                          *)
THEOREM SystemImplementsCalendar == SystemSpec => SlotsAreReserved
<1>1. SystemInit => Calendar!CalendarInit
  BY DEF SystemInit, BookingsInit, RowsInit, Calendar!CalendarInit, Reservations
<1>2. ASSUME SystemInv, ItemsHaveSpans, [SystemNext]_systemVars
      PROVE  Calendar!CalendarNext \/ UNCHANGED Reservations
  <2>1. CASE UNCHANGED items
    BY <2>1 DEF Reservations, LiveItem
  <2>2. CASE BookingsNext
    BY <1>2, <2>2, RequestsImplement DEF SystemInv
  <2>3. ASSUME NEW b \in DOMAIN items,
               ~ExclusionViolated(b, items[b].staff, items[b]),
               items' = [items EXCEPT ![b].status = "confirmed"]
        PROVE  Calendar!CalendarNext \/ UNCHANGED Reservations
    <3>1. b \in BookingIds
      BY <1>2 DEF SystemInv, BookingsTypeOK, RowsTypeOK
    <3> QED
      BY <1>2, <2>3, <3>1, ConfirmReserves
      DEF SystemInv, BookingsTypeOK, Calendar!CalendarNext
  <2> QED BY <1>2, <2>1, <2>2, <2>3, ConfirmWrites DEF SystemNext, systemVars, rowVars
<1> QED
  BY <1>1, <1>2, SpansCorrect, SystemInvCorrect, PTL
  DEF SystemSpec, SlotsAreReserved, Calendar!Spec

-----------------------------------------------------------------------------
(* The flow cancels nothing and tells of no cancel, forgets no timeline row *)
(* and moves no start.                                                      *)
LEMMA FlowLeavesCancels ==
  ASSUME SystemInv, PaymentsNext
  PROVE  /\ DOMAIN bookings' = DOMAIN bookings
         /\ \A b \in DOMAIN bookings :
              /\ bookings'[b].status = "cancelled" => bookings[b].status = "cancelled"
              /\ items'[b].status = "cancelled" => items[b].status = "cancelled"
              /\ items'[b].start = items[b].start
         /\ \A b \in BookingIds :
              /\ timeline[b] \subseteq timeline'[b]
              /\ <<b, "cancellation">> \in messages' => <<b, "cancellation">> \in messages
<1> USE DEF SystemInv, BookingsTypeOK, RowsTypeOK
<1>1. CASE UNCHANGED rowVars
  BY <1>1 DEF rowVars
<1>2. ASSUME NEW h \in Hooks, HookMarkPaid(h) \/ HookMarkUnpaid(h)
      PROVE  /\ UNCHANGED <<items, timeline, messages>>
             /\ DOMAIN bookings' = DOMAIN bookings
             /\ \A b \in DOMAIN bookings :
                  bookings'[b].status = "cancelled" => bookings[b].status = "cancelled"
  BY <1>2 DEF HookMarkPaid, HookMarkUnpaid, BookingRow
<1>3. ASSUME NEW h \in Hooks, HookConfirmItems(h)
      PROVE  /\ UNCHANGED <<bookings, timeline, messages>>
             /\ \A b \in DOMAIN bookings :
                  /\ items'[b].status = "cancelled" => items[b].status = "cancelled"
                  /\ items'[b].start = items[b].start
  BY <1>3 DEF HookConfirmItems, ItemRow
<1>4. ASSUME NEW h \in Hooks, HookLogConfirmed(h)
      PROVE  /\ UNCHANGED <<bookings, items, messages>>
             /\ \A b \in BookingIds : timeline[b] \subseteq timeline'[b]
  BY <1>4 DEF HookLogConfirmed
<1>5. ASSUME NEW h \in Hooks, HookNotify(h)
      PROVE  /\ UNCHANGED <<bookings, items, timeline>>
             /\ \A b \in BookingIds : <<b, "cancellation">> \in messages'
                                       => <<b, "cancellation">> \in messages
  BY <1>5 DEF HookNotify, Dispatch
<1> QED BY <1>1, <1>2, <1>3, <1>4, <1>5, RowWriters

(* Whatever is cancelled or told to be has the timeline row of a committed  *)
(* cancel, whatever payments of the booking do.                             *)
THEOREM SystemCancelIsOnRecord == SystemSpec => []CancellationOnRecord
<1>1. SystemInit => CancelsLogged
  BY DEF SystemInit, BookingsInit, RowsInit, RequestsInit, Idle, CancelsLogged,
         CancellationOnRecord
<1>2. ASSUME SystemInv, CancelsLogged, [SystemNext]_systemVars
      PROVE  CancelsLogged'
  <2>1. CASE BookingsNext
    BY <1>2, <2>1, CancelsLoggedNext DEF SystemInv
  <2>2. CASE PaymentsNext /\ UNCHANGED <<queueVars, req>>
    <3>1. \A p \in Procs :
            req[p].pc \in {"dropCancelled", "notify", "saveReminder", "writeReminder"}
              => req[p].booking \in BookingIds
      BY <1>2 DEF SystemInv, BookingsTypeOK, RequestsTypeOK, RowsTypeOK
    <3> QED
      BY <1>2, <2>2, <3>1, FlowLeavesCancels DEF CancelsLogged, CancellationOnRecord
  <2>3. CASE UNCHANGED systemVars
    BY <1>2, <2>3 DEF CancelsLogged, CancellationOnRecord, systemVars, rowVars
  <2> QED BY <1>2, <2>1, <2>2, <2>3 DEF SystemNext
<1>3. CancelsLogged => CancellationOnRecord
  BY DEF CancelsLogged
<1> QED BY <1>1, <1>2, <1>3, SystemInvCorrect, PTL DEF SystemSpec

(* A reminder keeps its lead, whatever payments do meanwhile.               *)
THEOREM SystemReminderLeadKept == SystemSpec => []ReminderKeepsLead
<1>1. SystemInit => LeadsKept
  BY DEF SystemInit, BookingsInit, RequestsInit, QueueInit, NoJob, Idle,
         LeadsKept, ReminderKeepsLead
<1>2. ASSUME SystemInv, LeadsKept, [SystemNext]_systemVars
      PROVE  LeadsKept'
  <2>1. CASE BookingsNext
    BY <1>2, <2>1, LeadsNext DEF SystemInv
  <2>2. CASE PaymentsNext /\ UNCHANGED <<queueVars, req>>
    <3>1. DOMAIN items = DOMAIN bookings /\ DOMAIN items' = DOMAIN bookings'
      BY <1>2, SystemInvNext DEF SystemInv, BookingsTypeOK, RowsTypeOK
    <3>2. \A b \in DOMAIN items :
            b \in DOMAIN items' /\ items'[b].start = items[b].start
      BY <1>2, <2>2, <3>1, FlowLeavesCancels
    <3>3. now' = now /\ now \in Nat /\ UNCHANGED <<jobs, req>>
      BY <1>2, <2>2, QueueAssumption
      DEF SystemInv, BookingsTypeOK, QueueTypeOK, queueVars
    <3>4. BookingsTypeOK
      BY <1>2 DEF SystemInv
    <3> QED BY <1>2, <3>2, <3>3, <3>4, LeadsStay
  <2>3. CASE UNCHANGED systemVars
    <3>1. now \in Nat /\ BookingsTypeOK
      BY <1>2, QueueAssumption DEF SystemInv, BookingsTypeOK, QueueTypeOK
    <3> QED
      BY <1>2, <2>3, <3>1, LeadsStay DEF systemVars, rowVars, queueVars
  <2> QED BY <1>2, <2>1, <2>2, <2>3 DEF SystemNext
<1>3. LeadsKept => ReminderKeepsLead
  BY DEF LeadsKept
<1> QED BY <1>1, <1>2, <1>3, SystemInvCorrect, PTL DEF SystemSpec

=============================================================================
