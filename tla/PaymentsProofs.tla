--------------------------- MODULE PaymentsProofs ---------------------------
(***************************************************************************)
(* Type correctness and safety of the payment flow for every number of     *)
(* bookings, payments, orders, tries, pay requests and deliveries.         *)
(*                                                                         *)
(* The lemmas about steps assume nothing of how the bookings' rows came to *)
(* be, so that SystemProofs uses them where other requests write the rows. *)
(***************************************************************************)
EXTENDS Payments, TLAPS

(* The order on a row was created for the booking of that row.              *)
OrdersOfRows ==
  \A i \in DOMAIN payments :
    payments[i].order # NoOrder =>
      /\ payments[i].order \in DOMAIN orders
      /\ orders[payments[i].order].booking = payments[i].booking

(* What a pay request has read is how its row is or was, and as long as the *)
(* version is the one it read nothing else has changed either; it is about  *)
(* to write an order only over a pending row without one.                   *)
PayEntry(r) ==
  /\ r.pc \in {"order", "process"} =>
       /\ r.payment \in DOMAIN payments
       /\ r.row.booking = payments[r.payment].booking
       /\ r.row.order = NoOrder
       /\ r.row.version <= payments[r.payment].version
       /\ r.row.version = payments[r.payment].version
            => r.row = payments[r.payment]
  /\ r.pc = "process" =>
       /\ r.row.status = "pending"
       /\ r.order \in DOMAIN orders
       /\ orders[r.order].booking = r.row.booking

(* A delivery works on a recorded event, and from its lookup on with the    *)
(* payment of the event's order, which has left the pending status; once    *)
(* that payment is settled, with the order's booking.                       *)
HookEntry(r) ==
  /\ r.pc # "idle" => r.event \in recorded
  /\ r.pc \in {"load", "save"} =>
       /\ r.payment \in DOMAIN payments
       /\ payments[r.payment].order = r.event.order
       /\ payments[r.payment].status # "pending"
  /\ r.pc = "save" =>
       /\ r.row.order = r.event.order
       /\ r.row.booking = payments[r.payment].booking
  /\ r.pc \in {"readBooking", "paid", "confirmItems", "logConfirmed",
               "notify", "unpaid"} =>
       /\ r.event.order \in DOMAIN orders
       /\ orders[r.event.order].booking = r.booking
  /\ r.pc \in {"paid", "confirmItems", "logConfirmed", "notify"} =>
       r.event.kind = "captured"

(* The gateway reports a capture only of an order that is captured.         *)
CapturesReported ==
  \A e \in events :
    e.kind = "captured" => e.order \in DOMAIN orders /\ orders[e.order].paid

(* The strengthening that the theorems of the flow rest on.                 *)
FlowInv ==
  /\ PaymentsStateTypeOK
  /\ OrdersOfRows
  /\ \A q \in PayProcs : PayEntry(pay[q])
  /\ \A h \in Hooks : HookEntry(hook[h])
  /\ CapturesReported

-----------------------------------------------------------------------------
(* What a pay request holds is given by its program counter.                *)
LEMMA PayKinds ==
  ASSUME NEW r \in PayRequest
  PROVE  /\ r.pc \in {"findActive", "create"} =>
              r \in [pc : {"findActive", "create"}, booking : BookingIds]
         /\ r.pc = "order" =>
              r \in [pc : {"order"}, payment : PaymentIds, row : PaymentRow]
         /\ r.pc = "process" =>
              r \in [pc : {"process"}, payment : PaymentIds, row : PaymentRow,
                     order : Orders]
  BY DEF PayRequest

(* And so is what a delivery holds.                                         *)
LEMMA HookKinds ==
  ASSUME NEW r \in Delivery
  PROVE  /\ r.pc = "find" => r \in [pc : {"find"}, event : Event]
         /\ r.pc = "load" =>
              r \in [pc : {"load"}, event : Event, payment : PaymentIds,
                     version : Nat]
         /\ r.pc = "save" =>
              r \in [pc : {"save"}, event : Event, payment : PaymentIds,
                     row : PaymentRow]
         /\ r.pc \in {"readBooking", "paid", "confirmItems", "logConfirmed",
                       "notify", "unpaid"} =>
              r \in [pc : {"readBooking", "paid", "confirmItems",
                           "logConfirmed", "notify", "unpaid"},
                     event : Event, booking : BookingIds]
  BY DEF Delivery

(* A payment row only ever moves on: a write raises its version, keeps its  *)
(* booking, leaves the pending status for good, and then keeps its order.   *)
RowsAdvance ==
  \A i \in DOMAIN payments :
    /\ i \in DOMAIN payments'
    /\ \/ payments'[i] = payments[i]
       \/ /\ payments'[i].booking = payments[i].booking
          /\ payments'[i].version > payments[i].version
          /\ payments'[i].status # "pending"
          /\ payments[i].status # "pending"
               => payments'[i].order = payments[i].order

(* An order stays with its booking, and recorded events stay recorded.      *)
OrdersAdvance ==
  /\ \A o \in DOMAIN orders :
       o \in DOMAIN orders' /\ orders'[o].booking = orders[o].booking
  /\ recorded \subseteq recorded'

(* What a pay request has read stays valid while others move the rows on.   *)
LEMMA PayEntryKept ==
  ASSUME PaymentsStateTypeOK, PaymentsStateTypeOK', RowsAdvance, OrdersAdvance,
         NEW r \in PayRequest, PayEntry(r)
  PROVE  PayEntry(r)'
<1>1. r.pc \in {"order", "process"} => r.row \in PaymentRow
  BY PayKinds
<1>2. \A i \in DOMAIN payments : payments[i] \in PaymentRow
  BY DEF PaymentsStateTypeOK
<1>3. CASE r.pc \in {"order", "process"}
  <2> DEFINE i == r.payment
  <2>1. i \in DOMAIN payments /\ r.row.version <= payments[i].version
    BY <1>3 DEF PayEntry
  <2>2. r.row.version \in Nat /\ payments[i].version \in Nat
    BY <1>1, <1>2, <1>3, <2>1 DEF PaymentRow
  <2>3. CASE payments'[i] = payments[i]
    BY <1>3, <2>1, <2>3 DEF PayEntry, RowsAdvance, OrdersAdvance
  <2>4. CASE /\ payments'[i].booking = payments[i].booking
             /\ payments'[i].version > payments[i].version
    <3>1. payments'[i].version \in Nat
      BY <2>1 DEF PaymentsStateTypeOK, RowsAdvance, PaymentRow
    <3>2. /\ r.row.version <= payments'[i].version
          /\ r.row.version # payments'[i].version
      BY <2>1, <2>2, <2>4, <3>1
    <3> QED BY <1>3, <2>1, <2>4, <3>2 DEF PayEntry, RowsAdvance, OrdersAdvance
  <2> QED BY <2>1, <2>3, <2>4 DEF RowsAdvance
<1>4. CASE r.pc \notin {"order", "process"}
  BY <1>4 DEF PayEntry
<1> QED BY <1>3, <1>4

(* And so does what a delivery has read.                                    *)
LEMMA HookEntryKept ==
  ASSUME RowsAdvance, OrdersAdvance, NEW r, HookEntry(r)
  PROVE  HookEntry(r)'
  BY DEF HookEntry, RowsAdvance, OrdersAdvance

(* A row stays well-formed when markProcessing, markSuccess or markFailed   *)
(* set their columns.                                                       *)
LEMMA RowWritten ==
  ASSUME NEW row \in PaymentRow, NEW v \in Nat,
         NEW s \in {"pending", "processing", "success", "failed"}
  PROVE  /\ [row EXCEPT !.status = s, !.version = v] \in PaymentRow
         /\ \A o \in Orders :
              [row EXCEPT !.status = s, !.order = o, !.version = v] \in PaymentRow
  BY DEF PaymentRow

(* An order stays well-formed when it is tried.                             *)
LEMMA OrderTried ==
  ASSUME NEW n \in 0..MaxTries, NEW p \in BOOLEAN,
         NEW r \in [booking : BookingIds, tries : 0..MaxTries, paid : BOOLEAN]
  PROVE  [r EXCEPT !.tries = n, !.paid = p]
           \in [booking : BookingIds, tries : 0..MaxTries, paid : BOOLEAN]
  OBVIOUS

(* Every step of a pay request keeps the types; an intent that is handed    *)
(* out is that of an order the gateway gave out.                            *)
LEMMA TypePay ==
  ASSUME RowsTypeOK, FlowInv, NEW q \in PayProcs,
         PayCheckBooking(q) \/ PayStep(q) \/ PayAbort(q)
  PROVE  PaymentsStateTypeOK'
<1> USE DEF FlowInv, PaymentsStateTypeOK, gatewayVars, rowVars
<1>1. CASE PayCheckBooking(q)
  BY <1>1 DEF PayCheckBooking, RowsTypeOK, PayBecome, PayRequest
<1>2. CASE PayFindActive(q)
  <2>1. pay[q] \in [pc : {"findActive", "create"}, booking : BookingIds]
    BY <1>2, PayKinds DEF PayFindActive
  <2>2. pay' \in [PayProcs -> PayRequest]
    BY <1>2, <2>1
    DEF PayFindActive, ActivePayments, PayBecome, PayGoTo, PayReturn, Free,
        PayRequest
  <2>3. intents' \subseteq DOMAIN orders
    BY <1>2 DEF PayFindActive, HandOut, ActivePayments, OrdersOfRows
  <2> QED BY <1>2, <2>2, <2>3 DEF PayFindActive
<1>3. CASE PayCreate(q)
  <2>1. pay[q] \in [pc : {"findActive", "create"}, booking : BookingIds]
    BY <1>3, PayKinds DEF PayCreate
  <2>2. [booking |-> pay[q].booking, status |-> "pending", order |-> NoOrder,
         version |-> 1] \in PaymentRow
    BY <2>1 DEF PaymentRow
  <2> DEFINE row == [booking |-> pay[q].booking, status |-> "pending",
                     order |-> NoOrder, version |-> 1]
  <2>3. CASE UNCHANGED payments /\ pay' = [pay EXCEPT ![q] = Free]
    BY <1>3, <2>3 DEF PayCreate, Free, PayRequest
  <2>4. ASSUME NEW i \in PaymentIds \ DOMAIN payments,
               payments' = [x \in DOMAIN payments \cup {i} |->
                              IF x = i THEN row ELSE payments[x]],
               pay' = [pay EXCEPT ![q] = [pc |-> "order", payment |-> i,
                                          row |-> row]]
        PROVE  PaymentsStateTypeOK'
    <3>1. row \in PaymentRow
      BY <2>2
    <3>2. [pc |-> "order", payment |-> i, row |-> row] \in PayRequest
      BY <3>1 DEF PayRequest
    <3> HIDE DEF row
    <3> QED BY <1>3, <2>4, <3>1, <3>2 DEF PayCreate
  <2> QED BY <1>3, <2>3, <2>4 DEF PayCreate, PayBecome, PayReturn
<1>4. CASE PayOrder(q)
  <2>1. pay[q] \in [pc : {"order"}, payment : PaymentIds, row : PaymentRow]
    BY <1>4, PayKinds DEF PayOrder
  <2>2. pay[q].row.booking \in BookingIds
    BY <2>1 DEF PaymentRow
  <2>3. pay' \in [PayProcs -> PayRequest]
    BY <1>4, <2>1 DEF PayOrder, PayBecome, PayReturn, Free, PayRequest
  <2>4. /\ DOMAIN orders' \subseteq Orders
        /\ orders' \in [DOMAIN orders' ->
             [booking : BookingIds, tries : 0..MaxTries, paid : BOOLEAN]]
        /\ DOMAIN orders \subseteq DOMAIN orders'
    BY <1>4, <2>2, PaymentsAssumption DEF PayOrder
  <2> QED BY <1>4, <2>3, <2>4 DEF PayOrder
<1>5. CASE PayOrderFails(q)
  BY <1>5 DEF PayOrderFails, PayReturn, PayBecome, Free, PayRequest
<1>6. CASE PayProcess(q)
  <2>1. pay[q] \in [pc : {"process"}, payment : PaymentIds, row : PaymentRow,
                    order : Orders]
    BY <1>6, PayKinds DEF PayProcess
  <2>2. pay[q].payment \in DOMAIN payments /\ pay[q].order \in DOMAIN orders
    BY <1>6 DEF PayProcess, PayEntry
  <2>3. DOMAIN payments' = DOMAIN payments
          /\ payments' \in [DOMAIN payments -> PaymentRow]
    <3> DEFINE i == pay[q].payment
               v == payments[i].version + 1
               new == [payments[i] EXCEPT !.status = "processing",
                                          !.order = pay[q].order, !.version = v]
    <3>1. payments[i] \in PaymentRow
      BY <2>2
    <3>4. v \in Nat
      BY SMTT(60), <3>1 DEF PaymentRow
    <3>2. new \in PaymentRow
      BY <2>1, <3>1, <3>4, RowWritten
    <3>3. payments' = payments \/ payments' = [payments EXCEPT ![i] = new]
      BY <1>6, <3>1 DEF PayProcess, PaymentRow
    <3> HIDE DEF new
    <3> QED BY <3>2, <3>3
  <2>4. intents' \subseteq DOMAIN orders
    BY <1>6, <2>2 DEF PayProcess, HandOut
  <2>5. pay' \in [PayProcs -> PayRequest]
    BY <1>6 DEF PayProcess, PayReturn, PayBecome, Free, PayRequest
  <2> QED BY <1>6, <2>3, <2>4, <2>5 DEF PayProcess
<1>7. CASE PayAbort(q)
  BY <1>7 DEF PayAbort, PayReturn, PayBecome, Free, PayRequest
<1> QED BY <1>1, <1>2, <1>3, <1>4, <1>5, <1>6, <1>7 DEF PayStep

(* So does a try of the customer.                                           *)
LEMMA TypeTry ==
  ASSUME PaymentsStateTypeOK, NEW o \in Orders, CustomerTries(o)
  PROVE  PaymentsStateTypeOK'
<1> USE DEF PaymentsStateTypeOK, CustomerTries, rowVars
<1>1. o \in DOMAIN orders /\ orders[o].tries \in 0..MaxTries
  OBVIOUS
<1>2. orders[o].tries + 1 \in 1..MaxTries
  BY <1>1, PaymentsAssumption
<1>3. events' \subseteq Event /\ events \subseteq events'
  BY <1>2 DEF Event
<1>4. DOMAIN orders' = DOMAIN orders
        /\ orders' \in [DOMAIN orders ->
             [booking : BookingIds, tries : 0..MaxTries, paid : BOOLEAN]]
  <2> DEFINE Order == [booking : BookingIds, tries : 0..MaxTries, paid : BOOLEAN]
  <2>1. orders[o] \in Order
    BY <1>1
  <2>2. PICK n \in 0..MaxTries, p \in BOOLEAN :
          orders' = [orders EXCEPT ![o] = [orders[o] EXCEPT !.tries = n, !.paid = p]]
    <3>1. PICK k \in {"captured", "failed"} :
            orders' = [orders EXCEPT ![o].tries = @ + 1,
                                     ![o].paid = (k = "captured")]
      OBVIOUS
    <3>2. orders' = [orders EXCEPT ![o] =
                       [orders[o] EXCEPT !.tries = orders[o].tries + 1,
                                         !.paid = (k = "captured")]]
      BY <1>1, <3>1
    <3>3. (k = "captured") \in BOOLEAN
      OBVIOUS
    <3>4. orders[o].tries + 1 \in 0..MaxTries
      BY <1>2, PaymentsAssumption
    <3> HIDE DEF CustomerTries
    <3> QED BY <3>2, <3>3, <3>4, Zenon
  <2>3. [orders[o] EXCEPT !.tries = n, !.paid = p] \in Order
    BY <2>1, OrderTried
  <2> QED BY <2>1, <2>2, <2>3
<1> QED BY <1>3, <1>4

(* And every step of a delivery.                                            *)
LEMMA TypeHook ==
  ASSUME FlowInv, NEW h \in Hooks,
         (\E e \in events : HookRecord(h, e)) \/ HookStep(h) \/ HookAbort(h)
  PROVE  PaymentsStateTypeOK'
<1> USE DEF FlowInv, PaymentsStateTypeOK, gatewayVars, rowVars
<1> DEFINE Applying == [pc : {"readBooking", "paid", "confirmItems",
                              "logConfirmed", "notify", "unpaid"},
                        event : Event, booking : BookingIds]
<1>1. ASSUME NEW e \in events, HookRecord(h, e)
      PROVE  PaymentsStateTypeOK'
  BY <1>1 DEF HookRecord, HookBecome, Delivery
<1>2. CASE HookFind(h)
  <2>1. hook[h] \in [pc : {"find"}, event : Event]
    BY <1>2, HookKinds DEF HookFind
  <2>2. \A i \in DOMAIN payments : payments[i].version \in Nat
    BY DEF PaymentRow
  <2>3. hook' \in [Hooks -> Delivery]
    BY <1>2, <2>1, <2>2
    DEF HookFind, PaymentsByOrder, HookReturn, HookBecome, Free, Delivery
  <2> QED BY <1>2, <2>3 DEF HookFind
<1>3. CASE HookLoad(h)
  <2>1. hook[h] \in [pc : {"load"}, event : Event, payment : PaymentIds,
                     version : Nat]
    BY <1>3, HookKinds DEF HookLoad
  <2>2. hook[h].payment \in DOMAIN payments
    BY <1>3 DEF HookLoad, HookEntry
  <2>3. hook' \in [Hooks -> Delivery]
    BY <1>3, <2>1, <2>2 DEF HookLoad, HookReturn, HookBecome, Free, Delivery
  <2> QED BY <1>3, <2>3 DEF HookLoad
<1>4. CASE HookSave(h)
  <2>1. hook[h] \in [pc : {"save"}, event : Event, payment : PaymentIds,
                     row : PaymentRow]
    BY <1>4, HookKinds DEF HookSave
  <2>2. hook[h].payment \in DOMAIN payments
    BY <1>4 DEF HookSave, HookEntry
  <2>3. payments' \in [DOMAIN payments -> PaymentRow]
    <3> DEFINE v == payments[hook[h].payment].version + 1
               new == [hook[h].row EXCEPT !.status = Target(hook[h].event),
                                          !.version = v]
    <3>1. v \in Nat
      BY <2>2 DEF PaymentRow
    <3>2. hook[h].row \in PaymentRow
      BY <2>1
    <3>3. new \in PaymentRow
      BY <3>1, <3>2, RowWritten DEF Target
    <3>4. payments' = [payments EXCEPT ![hook[h].payment] = new]
      BY <1>4 DEF HookSave
    <3> HIDE DEF new
    <3> QED BY <3>3, <3>4
  <2>4. hook[h].row.booking \in BookingIds
    BY <2>1 DEF PaymentRow
  <2>5. hook' \in [Hooks -> Delivery]
    BY <1>4, <2>1, <2>4 DEF HookSave, HookBecome, Delivery
  <2> QED BY <1>4, <2>3, <2>5 DEF HookSave
<1>5. CASE \/ HookReadBooking(h) \/ HookMarkPaid(h) \/ HookConfirmItems(h)
           \/ HookLogConfirmed(h) \/ HookNotify(h) \/ HookMarkUnpaid(h)
  <2>1. hook[h] \in Applying
    BY <1>5, HookKinds
    DEF HookReadBooking, HookMarkPaid, HookConfirmItems, HookLogConfirmed,
        HookNotify, HookMarkUnpaid
  <2>2. \/ \E l \in {"paid", "unpaid", "confirmItems", "logConfirmed", "notify"} :
             HookGoTo(h, l)
        \/ HookReturn(h)
    BY <1>5
    DEF HookReadBooking, HookMarkPaid, HookConfirmItems, HookLogConfirmed,
        HookNotify, HookMarkUnpaid
  <2>3. hook' \in [Hooks -> Delivery]
    BY <2>1, <2>2 DEF HookGoTo, HookReturn, HookBecome, Free, Delivery
  <2> QED
    BY <1>5, <2>3
    DEF HookReadBooking, HookMarkPaid, HookConfirmItems, HookLogConfirmed,
        HookNotify, HookMarkUnpaid
<1>6. CASE HookAbort(h)
  BY SMTT(60), <1>6 DEF HookAbort, HookReturn, HookBecome, Free, Delivery
<1> QED BY <1>1, <1>2, <1>3, <1>4, <1>5, <1>6 DEF HookStep

-----------------------------------------------------------------------------
(* Only these steps write payment rows.                                     *)
LEMMA PaymentWriters ==
  ASSUME PaymentsNext
  PROVE  \/ UNCHANGED payments
         \/ \E q \in PayProcs : PayCreate(q) \/ PayProcess(q)
         \/ \E h \in Hooks : HookSave(h)
  BY DEF PaymentsNext, PayStep, HookStep, PayCheckBooking, PayFindActive,
         PayOrder, PayOrderFails, PayAbort, CustomerTries, HookRecord, HookFind,
         HookLoad, HookReadBooking, HookMarkPaid, HookConfirmItems,
         HookLogConfirmed, HookNotify, HookMarkUnpaid, HookAbort

(* Only these steps write what the gateway knows of orders and tries.       *)
LEMMA OrderWriters ==
  ASSUME PaymentsNext
  PROVE  \/ UNCHANGED <<orders, events>>
         \/ \E q \in PayProcs : PayOrder(q)
         \/ \E o \in Orders : CustomerTries(o)
  BY ZenonT(60) DEF PaymentsNext, PayStep, HookStep, PayCheckBooking, PayFindActive,
         PayCreate, PayProcess, PayOrderFails, PayAbort, HookRecord, HookFind,
         HookLoad, HookSave, HookReadBooking, HookMarkPaid, HookConfirmItems,
         HookLogConfirmed, HookNotify, HookMarkUnpaid, HookAbort, gatewayVars

(* And only these write the rows that the flow shares.                      *)
LEMMA RowWriters ==
  ASSUME PaymentsNext
  PROVE  \/ UNCHANGED rowVars
         \/ \E h \in Hooks :
              \/ HookMarkPaid(h) \/ HookConfirmItems(h) \/ HookLogConfirmed(h)
              \/ HookNotify(h) \/ HookMarkUnpaid(h)
  BY DEF PaymentsNext, PayStep, HookStep, PayCheckBooking, PayFindActive,
         PayCreate, PayOrder, PayOrderFails, PayProcess, PayAbort,
         CustomerTries, HookRecord, HookFind, HookLoad, HookSave,
         HookReadBooking, HookAbort

(* createPending adds a pending row that has no order yet.                  *)
LEMMA CreateWrites ==
  ASSUME NEW q \in PayProcs, PayCreate(q)
  PROVE  \/ UNCHANGED payments
         \/ /\ ActivePayments(pay[q].booking) = {}
            /\ \E i \in PaymentIds \ DOMAIN payments :
                 /\ DOMAIN payments' = DOMAIN payments \cup {i}
                 /\ \A x \in DOMAIN payments : payments'[x] = payments[x]
                 /\ payments'[i] = [booking |-> pay[q].booking,
                                    status |-> "pending", order |-> NoOrder,
                                    version |-> 1]
  BY DEF PayCreate, ActiveIndexViolated

(* markProcessing writes its order to the pending row it read, since the    *)
(* version says that this is how the row still is, or writes nothing.       *)
LEMMA ProcessWrites ==
  ASSUME FlowInv, NEW q \in PayProcs, PayProcess(q)
  PROVE  LET i == pay[q].payment
         IN \/ UNCHANGED payments
            \/ /\ i \in DOMAIN payments /\ DOMAIN payments' = DOMAIN payments
               /\ \A x \in DOMAIN payments \ {i} : payments'[x] = payments[x]
               /\ payments[i].status = "pending" /\ payments[i].order = NoOrder
               /\ payments'[i].status = "processing"
               /\ payments'[i].order = pay[q].order
               /\ payments'[i].booking = payments[i].booking
               /\ payments'[i].version = payments[i].version + 1
<1> DEFINE i == pay[q].payment
<1>1. PayEntry(pay[q]) /\ pay[q].pc = "process"
  BY DEF FlowInv, PayProcess
<1>2. i \in DOMAIN payments /\ payments[i] \in PaymentRow
  BY <1>1 DEF PayEntry, FlowInv, PaymentsStateTypeOK
<1>3. CASE VersionMatches(i, pay[q].row.version)
  <2>1. payments[i].status = "pending" /\ payments[i].order = NoOrder
    BY <1>1, <1>3 DEF PayEntry, VersionMatches
  <2> DEFINE v == payments[i].version + 1
  <2>2. payments' = [payments EXCEPT ![i].status = "processing",
                                     ![i].order = pay[q].order,
                                     ![i].version = v]
    BY <1>2, <1>3 DEF PayProcess
  <2>3. payments \in [DOMAIN payments -> PaymentRow]
    BY DEF FlowInv, PaymentsStateTypeOK
  <2> HIDE DEF v
  <2>4. /\ DOMAIN payments' = DOMAIN payments
        /\ \A x \in DOMAIN payments \ {i} : payments'[x] = payments[x]
        /\ payments'[i].status = "processing"
        /\ payments'[i].order = pay[q].order
        /\ payments'[i].booking = payments[i].booking
        /\ payments'[i].version = v
    BY <1>2, <2>2, <2>3 DEF PaymentRow
  <2> QED BY <1>2, <2>1, <2>4 DEF v
<1>4. CASE ~VersionMatches(i, pay[q].row.version)
  BY <1>4 DEF PayProcess
<1> QED BY <1>3, <1>4

(* markSuccess and markFailed write what their event says to a row that has *)
(* left the pending status, and leave its booking and its order.            *)
LEMMA SaveWrites ==
  ASSUME FlowInv, NEW h \in Hooks, HookSave(h)
  PROVE  LET i == hook[h].payment
             e == hook[h].event
         IN /\ i \in DOMAIN payments /\ DOMAIN payments' = DOMAIN payments
            /\ \A x \in DOMAIN payments \ {i} : payments'[x] = payments[x]
            /\ payments[i].status # "pending"
            /\ payments'[i].status = Target(e)
            /\ payments[i].order = e.order /\ payments'[i].order = e.order
            /\ payments'[i].booking = payments[i].booking
            /\ payments'[i].version = payments[i].version + 1
            /\ e \in recorded
<1> DEFINE i == hook[h].payment
           e == hook[h].event
           row == hook[h].row
           v == payments[i].version + 1
<1>1. HookEntry(hook[h]) /\ hook[h].pc = "save"
  BY DEF FlowInv, HookSave
<1>2. i \in DOMAIN payments /\ payments \in [DOMAIN payments -> PaymentRow]
  BY <1>1 DEF HookEntry, FlowInv, PaymentsStateTypeOK
<1>3. row \in PaymentRow
  BY <1>1, HookKinds DEF FlowInv, PaymentsStateTypeOK
<1>4. /\ payments[i].order = e.order /\ row.order = e.order
      /\ payments[i].booking = row.booking
      /\ payments[i].status # "pending" /\ e \in recorded
  BY <1>1 DEF HookEntry
<1>5. payments' = [payments EXCEPT ![i] = [row EXCEPT !.status = Target(e),
                                                      !.version = v]]
  BY DEF HookSave
<1> HIDE DEF v
<1>6. /\ DOMAIN payments' = DOMAIN payments
      /\ \A x \in DOMAIN payments \ {i} : payments'[x] = payments[x]
      /\ payments'[i].status = Target(e)
      /\ payments'[i].order = row.order
      /\ payments'[i].booking = row.booking
      /\ payments'[i].version = v
  BY <1>2, <1>3, <1>5 DEF PaymentRow
<1> QED BY <1>2, <1>4, <1>6 DEF v

(* Every step moves payment rows on only: markProcessing because the        *)
(* version it compares says that the row is the pending one it read,        *)
(* markSuccess and markFailed because the row has left that status before.  *)
LEMMA PaymentsAdvance ==
  ASSUME FlowInv, PaymentsNext
  PROVE  RowsAdvance
<1>1. CASE UNCHANGED payments
  BY <1>1 DEF RowsAdvance
<1>2. ASSUME NEW q \in PayProcs, PayCreate(q)
      PROVE  RowsAdvance
  BY <1>2 DEF PayCreate, RowsAdvance
<1>3. ASSUME NEW q \in PayProcs, PayProcess(q)
      PROVE  RowsAdvance
  <2> DEFINE i == pay[q].payment
  <2>1. i \in DOMAIN payments => payments[i].version + 1 > payments[i].version
    BY DEF FlowInv, PaymentsStateTypeOK, PaymentRow
  <2> QED BY <1>1, <1>3, <2>1, ProcessWrites DEF RowsAdvance
<1>4. ASSUME NEW h \in Hooks, HookSave(h)
      PROVE  RowsAdvance
  <2> DEFINE i == hook[h].payment
  <2>1. i \in DOMAIN payments => payments[i].version + 1 > payments[i].version
    BY DEF FlowInv, PaymentsStateTypeOK, PaymentRow
  <2> QED BY <1>4, <2>1, SaveWrites DEF RowsAdvance, Target
<1> QED BY <1>1, <1>2, <1>3, <1>4, PaymentWriters

(* No step takes an order from its booking, or forgets an event.            *)
LEMMA GatewayAdvances ==
  ASSUME FlowInv, PaymentsNext
  PROVE  OrdersAdvance
<1>1. recorded \subseteq recorded'
  BY DEF PaymentsNext, PayStep, HookStep, PayCheckBooking, PayFindActive,
         PayCreate, PayOrder, PayProcess, PayOrderFails, PayAbort,
         CustomerTries, HookRecord, HookFind, HookLoad, HookSave,
         HookReadBooking, HookMarkPaid, HookConfirmItems, HookLogConfirmed,
         HookNotify, HookMarkUnpaid, HookAbort
<1>2. CASE UNCHANGED orders
  BY <1>1, <1>2 DEF OrdersAdvance
<1>3. ASSUME NEW q \in PayProcs, PayOrder(q)
      PROVE  OrdersAdvance
  BY <1>1, <1>3 DEF PayOrder, OrdersAdvance
<1>4. ASSUME NEW o \in Orders, CustomerTries(o)
      PROVE  OrdersAdvance
  BY <1>1, <1>4 DEF CustomerTries, OrdersAdvance, FlowInv, PaymentsStateTypeOK
<1> QED BY SMTT(60), <1>2, <1>3, <1>4, OrderWriters

(* What a request is left with after a step of its own is valid.            *)
LEMMA PayEntryMade ==
  ASSUME FlowInv, NEW q \in PayProcs,
         PayCheckBooking(q) \/ PayStep(q) \/ PayAbort(q)
  PROVE  /\ \A x \in PayProcs \ {q} : pay'[x] = pay[x]
         /\ PayEntry(pay[q])'
         /\ UNCHANGED hook
<1> USE DEF FlowInv, PaymentsStateTypeOK, gatewayVars
<1>1. CASE PayCheckBooking(q) \/ PayOrderFails(q) \/ PayProcess(q) \/ PayAbort(q)
  BY <1>1
  DEF PayCheckBooking, PayOrderFails, PayProcess, PayAbort, PayBecome,
      PayReturn, Free, PayEntry
<1>2. CASE PayFindActive(q)
  <2>1. pay[q] \in [pc : {"findActive", "create"}, booking : BookingIds]
    BY <1>2, PayKinds DEF PayFindActive
  <2>2. CASE PayGoTo(q, "create") \/ PayReturn(q)
    BY <1>2, <2>1, <2>2
    DEF PayFindActive, PayGoTo, PayReturn, PayBecome, Free, PayEntry
  <2>3. ASSUME NEW i \in ActivePayments(pay[q].booking),
               payments[i].order = NoOrder,
               PayBecome(q, [pc |-> "order", payment |-> i, row |-> payments[i]])
        PROVE  PayEntry(pay[q])' /\ \A x \in PayProcs \ {q} : pay'[x] = pay[x]
    <3>1. i \in DOMAIN payments /\ payments[i].version \in Nat
      BY DEF ActivePayments, PaymentRow
    <3>2. payments[i].version <= payments[i].version
      BY <3>1
    <3> QED BY <1>2, <2>3, <3>1, <3>2 DEF PayFindActive, PayBecome, PayEntry
  <2> QED BY <1>2, <2>2, <2>3 DEF PayFindActive
<1>3. CASE PayCreate(q)
  <2> DEFINE row == [booking |-> pay[q].booking, status |-> "pending",
                     order |-> NoOrder, version |-> 1]
  <2>1. CASE PayReturn(q)
    BY <1>3, <2>1 DEF PayCreate, PayReturn, PayBecome, Free, PayEntry
  <2>2. ASSUME NEW i \in PaymentIds \ DOMAIN payments,
               payments' = [x \in DOMAIN payments \cup {i} |->
                              IF x = i THEN row ELSE payments[x]],
               PayBecome(q, [pc |-> "order", payment |-> i, row |-> row])
        PROVE  PayEntry(pay[q])' /\ \A x \in PayProcs \ {q} : pay'[x] = pay[x]
    <3>1. /\ i \in DOMAIN payments' /\ payments'[i] = row
          /\ row.order = NoOrder /\ row.version <= row.version
      BY <2>2
    <3> HIDE DEF row
    <3> QED BY <2>2, <3>1 DEF PayBecome, PayEntry
  <2> QED BY <1>3, <2>1, <2>2 DEF PayCreate
<1>4. CASE PayOrder(q)
  <2>1. PayEntry(pay[q]) /\ pay[q].pc = "order"
    BY <1>4 DEF PayOrder
  <2>2. CASE PayReturn(q)
    BY <1>4, <2>2 DEF PayOrder, PayReturn, PayBecome, Free, PayEntry
  <2>3. ASSUME NEW o \in Orders \ DOMAIN orders,
               orders' = [x \in DOMAIN orders \cup {o} |->
                            IF x = o
                            THEN [booking |-> pay[q].row.booking, tries |-> 0,
                                  paid |-> FALSE]
                            ELSE orders[x]],
               CanTransition(pay[q].row.status, "processing"),
               PayBecome(q, [pc |-> "process", payment |-> pay[q].payment,
                             row |-> pay[q].row, order |-> o])
        PROVE  PayEntry(pay[q])' /\ \A x \in PayProcs \ {q} : pay'[x] = pay[x]
    BY <1>4, <2>1, <2>3 DEF PayOrder, PayBecome, PayEntry, CanTransition
  <2> QED BY <1>4, <2>2, <2>3 DEF PayOrder
<1> QED BY <1>1, <1>2, <1>3, <1>4 DEF PayStep, PayFindActive, PayCreate, PayOrder,
           PayCheckBooking, PayOrderFails, PayProcess, PayAbort

(* And what a delivery is left with.                                        *)
LEMMA HookEntryMade ==
  ASSUME FlowInv, NEW h \in Hooks,
         (\E e \in events : HookRecord(h, e)) \/ HookStep(h) \/ HookAbort(h)
  PROVE  /\ \A x \in Hooks \ {h} : hook'[x] = hook[x]
         /\ HookEntry(hook[h])'
         /\ UNCHANGED pay
<1> USE DEF FlowInv, PaymentsStateTypeOK, gatewayVars
<1>1. CASE \/ \E e \in events : HookRecord(h, e)
           \/ HookNotify(h) \/ HookMarkUnpaid(h) \/ HookAbort(h)
  BY <1>1
  DEF HookRecord, HookNotify, HookMarkUnpaid, HookAbort, HookReturn, HookBecome,
      Free, HookEntry
<1>2. CASE HookFind(h)
  <2>1. CASE HookReturn(h)
    BY <1>2, <2>1 DEF HookFind, HookReturn, HookBecome, Free, HookEntry
  <2>2. ASSUME NEW i \in PaymentsByOrder(hook[h].event),
               CanTransition(payments[i].status, Target(hook[h].event)),
               HookBecome(h, [pc |-> "load", event |-> hook[h].event,
                              payment |-> i, version |-> payments[i].version])
        PROVE  HookEntry(hook[h])' /\ \A x \in Hooks \ {h} : hook'[x] = hook[x]
    <3>1. /\ i \in DOMAIN payments
          /\ payments[i].order = hook[h].event.order
          /\ payments[i].status # "pending"
      BY <2>2 DEF PaymentsByOrder, CanTransition, Target
    <3>2. hook[h].event \in recorded
      BY <1>2 DEF HookFind, HookEntry
    <3> QED BY <1>2, <2>2, <3>1, <3>2 DEF HookFind, HookBecome, HookEntry
  <2> QED BY <1>2, <2>1, <2>2 DEF HookFind
<1>3. CASE HookLoad(h)
  BY <1>3 DEF HookLoad, HookReturn, HookBecome, Free, HookEntry
<1>4. CASE HookSave(h)
  <2> DEFINE e == hook[h].event
             i == hook[h].payment
  <2>1. HookEntry(hook[h]) /\ hook[h].pc = "save" /\ e \in Event
    BY <1>4, HookKinds DEF HookSave
  <2>2. e.order # NoOrder
    BY <2>1, PaymentsAssumption DEF Event
  <2>3. e.order \in DOMAIN orders /\ orders[e.order].booking = hook[h].row.booking
    BY <2>1, <2>2 DEF HookEntry, OrdersOfRows
  <2> QED BY <1>4, <2>1, <2>3 DEF HookSave, HookBecome, HookEntry
<1>5. CASE HookReadBooking(h) \/ HookMarkPaid(h) \/ HookConfirmItems(h) \/ HookLogConfirmed(h)
  <2> DEFINE Applying == [pc : {"readBooking", "paid", "confirmItems",
                                "logConfirmed", "notify", "unpaid"},
                          event : Event, booking : BookingIds]
  <2>1. hook[h] \in Applying /\ HookEntry(hook[h])
    BY <1>5, HookKinds
    DEF HookReadBooking, HookMarkPaid, HookConfirmItems, HookLogConfirmed
  <2>2. /\ UNCHANGED <<payments, recorded, orders, pay>>
        /\ \/ HookReturn(h)
           \/ hook[h].event.kind # "captured" /\ HookGoTo(h, "unpaid")
           \/ /\ hook[h].event.kind = "captured"
              /\ \E l \in {"paid", "confirmItems", "logConfirmed", "notify"} :
                   HookGoTo(h, l)
    BY <1>5, <2>1
    DEF HookReadBooking, HookMarkPaid, HookConfirmItems, HookLogConfirmed, HookEntry
  <2>3. CASE HookReturn(h)
    BY <2>2, <2>3 DEF HookReturn, HookBecome, Free, HookEntry
  <2>4. ASSUME NEW l \in {"unpaid", "paid", "confirmItems", "logConfirmed", "notify"},
               l = "unpaid" \/ hook[h].event.kind = "captured", HookGoTo(h, l)
        PROVE  HookEntry(hook[h])' /\ \A x \in Hooks \ {h} : hook'[x] = hook[x]
    <3>1. /\ hook'[h] = [hook[h] EXCEPT !.pc = l]
          /\ \A x \in Hooks \ {h} : hook'[x] = hook[x]
      BY <2>4 DEF HookGoTo
    <3>2. /\ hook'[h].pc = l
          /\ hook'[h].event = hook[h].event
          /\ hook'[h].booking = hook[h].booking
      BY <2>1, <3>1
    <3> QED BY <2>1, <2>2, <2>4, <3>1, <3>2 DEF HookEntry
  <2> QED BY <2>2, <2>3, <2>4 DEF HookReturn, HookBecome
<1> QED BY <1>1, <1>2, <1>3, <1>4, <1>5
        DEF HookStep, HookRecord, HookNotify, HookMarkUnpaid, HookAbort, HookFind,
            HookLoad, HookSave, HookReturn, HookBecome

(* An order is written to a row of the booking it was created for.          *)
LEMMA OrdersOfRowsNext ==
  ASSUME FlowInv, PaymentsNext, OrdersAdvance
  PROVE  OrdersOfRows'
<1> USE DEF FlowInv
<1>1. CASE UNCHANGED payments
  BY <1>1 DEF OrdersOfRows, OrdersAdvance
<1>2. ASSUME NEW q \in PayProcs, PayCreate(q)
      PROVE  OrdersOfRows'
  <2>1. UNCHANGED orders
    BY <1>2 DEF PayCreate, gatewayVars
  <2>2. ASSUME NEW i \in PaymentIds \ DOMAIN payments,
               DOMAIN payments' = DOMAIN payments \cup {i},
               \A x \in DOMAIN payments : payments'[x] = payments[x],
               payments'[i].order = NoOrder
        PROVE  OrdersOfRows'
    BY <2>1, <2>2 DEF OrdersOfRows
  <2>3. \/ UNCHANGED payments
        \/ \E i \in PaymentIds \ DOMAIN payments :
             /\ DOMAIN payments' = DOMAIN payments \cup {i}
             /\ \A x \in DOMAIN payments : payments'[x] = payments[x]
             /\ payments'[i].order = NoOrder
    <3>1. CASE ~UNCHANGED payments
      <4>1. PICK i \in PaymentIds \ DOMAIN payments :
              /\ DOMAIN payments' = DOMAIN payments \cup {i}
              /\ \A x \in DOMAIN payments : payments'[x] = payments[x]
              /\ payments'[i] = [booking |-> pay[q].booking,
                                 status |-> "pending", order |-> NoOrder,
                                 version |-> 1]
        BY <1>2, <3>1, CreateWrites
      <4>2. payments'[i].order = NoOrder
        BY <4>1
      <4> QED BY <4>1, <4>2
    <3> QED BY <3>1
  <2> QED BY <1>1, <2>2, <2>3
<1>3. ASSUME NEW q \in PayProcs, PayProcess(q)
      PROVE  OrdersOfRows'
  <2> DEFINE i == pay[q].payment
  <2>1. /\ pay[q].order \in DOMAIN orders
        /\ orders[pay[q].order].booking = payments[i].booking
    BY <1>3 DEF PayProcess, PayEntry
  <2>2. UNCHANGED orders
    BY <1>3 DEF PayProcess
  <2> QED BY <1>1, <1>3, <2>1, <2>2, ProcessWrites DEF OrdersOfRows
<1>4. ASSUME NEW h \in Hooks, HookSave(h)
      PROVE  OrdersOfRows'
  <2>1. UNCHANGED orders
    BY <1>4 DEF HookSave, gatewayVars
  <2> QED BY <1>4, <2>1, SaveWrites DEF OrdersOfRows
<1> QED BY <1>1, <1>2, <1>3, <1>4, PaymentWriters

(* Once an order is captured no more tries are made, so it stays captured.  *)
LEMMA CapturesReportedNext ==
  ASSUME FlowInv, PaymentsNext
  PROVE  CapturesReported' /\ \A o \in DOMAIN orders : orders[o].paid => orders'[o].paid
<1> USE DEF FlowInv, PaymentsStateTypeOK
<1>1. CASE UNCHANGED <<orders, events>>
  BY <1>1 DEF CapturesReported
<1>2. ASSUME NEW q \in PayProcs, PayOrder(q)
      PROVE  CapturesReported' /\ \A o \in DOMAIN orders : orders[o].paid => orders'[o].paid
  BY <1>2 DEF PayOrder, CapturesReported
<1>3. ASSUME NEW o \in Orders, CustomerTries(o)
      PROVE  CapturesReported' /\ \A x \in DOMAIN orders : orders[x].paid => orders'[x].paid
  <2>1. PICK k \in {"captured", "failed"} :
          /\ orders' = [orders EXCEPT ![o].tries = @ + 1, ![o].paid = (k = "captured")]
          /\ events' = events \cup {[order |-> o, try |-> orders[o].tries + 1, kind |-> k]}
    BY <1>3 DEF CustomerTries
  <2>2. o \in DOMAIN orders /\ ~orders[o].paid
    BY <1>3 DEF CustomerTries
  <2>3. /\ DOMAIN orders' = DOMAIN orders
        /\ \A x \in DOMAIN orders \ {o} : orders'[x] = orders[x]
        /\ orders'[o].paid = (k = "captured")
    BY <2>1, <2>2
  <2>4. \A e \in events' \ events : e.order = o /\ e.kind = k
    BY <2>1
  <2> QED BY <2>2, <2>3, <2>4 DEF CapturesReported
<1> QED BY <1>1, <1>2, <1>3, OrderWriters

(* Every step of the flow keeps FlowInv.                                    *)
LEMMA FlowNext ==
  ASSUME RowsTypeOK, FlowInv, PaymentsNext
  PROVE  FlowInv'
<1>1. PaymentsStateTypeOK'
  BY TypePay, TypeTry, TypeHook DEF PaymentsNext, FlowInv
<1>2. RowsAdvance /\ OrdersAdvance
  BY PaymentsAdvance, GatewayAdvances
<1>3. \/ \E q \in PayProcs : PayCheckBooking(q) \/ PayStep(q) \/ PayAbort(q)
      \/ \E o \in Orders : CustomerTries(o)
      \/ \E h \in Hooks : \/ \E e \in events : HookRecord(h, e)
                          \/ HookStep(h) \/ HookAbort(h)
  BY DEF PaymentsNext
<1>4. ASSUME NEW q \in PayProcs
      PROVE  PayEntry(pay[q])'
  <2>1. CASE pay'[q] = pay[q]
    <3>1. pay[q] \in PayRequest /\ PayEntry(pay[q])
      BY DEF FlowInv, PaymentsStateTypeOK
    <3>2. PICK r \in PayRequest : r = pay[q] /\ PayEntry(r)
      BY <3>1 DEF PayEntry
    <3>3. PayEntry(r)'
      BY <1>1, <1>2, <3>2, PayEntryKept DEF FlowInv
    <3> QED BY <2>1, <3>2, <3>3 DEF PayEntry
  <2>2. CASE pay'[q] # pay[q]
    <3>1. pay' # pay
      BY <2>2
    <3>2. PICK x \in PayProcs : PayCheckBooking(x) \/ PayStep(x) \/ PayAbort(x)
      BY <1>3, <3>1, HookEntryMade DEF CustomerTries
    <3>3. x = q
      BY <2>2, <3>2, PayEntryMade
    <3> QED BY <3>2, <3>3, PayEntryMade
  <2> QED BY <2>1, <2>2
<1>5. ASSUME NEW h \in Hooks
      PROVE  HookEntry(hook[h])'
  <2>1. CASE hook'[h] = hook[h]
    <3>1. PICK r : r = hook[h] /\ HookEntry(r)
      BY DEF FlowInv, HookEntry
    <3>2. HookEntry(r)'
      BY <1>2, <3>1, HookEntryKept
    <3> QED BY <2>1, <3>1, <3>2 DEF HookEntry
  <2>2. CASE hook'[h] # hook[h]
    <3>1. hook' # hook
      BY <2>2
    <3>2. PICK x \in Hooks : \/ \E e \in events : HookRecord(x, e)
                             \/ HookStep(x) \/ HookAbort(x)
      BY <1>3, <3>1, PayEntryMade DEF CustomerTries
    <3>3. x = h
      BY <2>2, <3>2, HookEntryMade
    <3> QED BY <3>2, <3>3, HookEntryMade
  <2> QED BY <2>1, <2>2
<1>6. OrdersOfRows' /\ CapturesReported'
  BY <1>2, OrdersOfRowsNext, CapturesReportedNext
<1> QED BY <1>1, <1>4, <1>5, <1>6 DEF FlowInv

-----------------------------------------------------------------------------
(* The flow keeps the rows it shares well-formed.                           *)
LEMMA FlowKeepsRows ==
  ASSUME RowsTypeOK, FlowInv, PaymentsNext
  PROVE  RowsTypeOK' /\ DOMAIN bookings' = DOMAIN bookings
<1>1. CASE UNCHANGED rowVars
  BY <1>1 DEF rowVars, RowsTypeOK
<1>2. ASSUME NEW h \in Hooks,
             \/ HookMarkPaid(h) \/ HookConfirmItems(h) \/ HookLogConfirmed(h)
             \/ HookNotify(h) \/ HookMarkUnpaid(h)
      PROVE  RowsTypeOK' /\ DOMAIN bookings' = DOMAIN bookings
  <2>1. hook[h].booking \in BookingIds
    <3>1. hook[h] \in Delivery
      BY DEF FlowInv, PaymentsStateTypeOK
    <3> QED
      BY <1>2, <3>1, HookKinds
      DEF HookMarkPaid, HookConfirmItems, HookLogConfirmed, HookNotify,
          HookMarkUnpaid
  <2>2. CASE HookMarkPaid(h) \/ HookMarkUnpaid(h)
    BY SMTT(60), <2>2 DEF HookMarkPaid, HookMarkUnpaid, RowsTypeOK, BookingRow
  <2>3. CASE HookConfirmItems(h)
    BY <2>3 DEF HookConfirmItems, RowsTypeOK, ItemRow
  <2>4. CASE HookLogConfirmed(h)
    BY <2>1, <2>4 DEF HookLogConfirmed, RowsTypeOK, TimelineEvents
  <2>5. CASE HookNotify(h)
    BY <2>1, <2>5 DEF HookNotify, Dispatch, RowsTypeOK, Templates
  <2> QED BY <1>2, <2>2, <2>3, <2>4, <2>5
<1>3. \/ UNCHANGED rowVars
      \/ \E h \in Hooks :
           \/ HookMarkPaid(h) \/ HookConfirmItems(h) \/ HookLogConfirmed(h)
           \/ HookNotify(h) \/ HookMarkUnpaid(h)
  BY RowWriters
<1> QED BY <1>1, <1>2, <1>3

(* The flow starts with no payments, orders or requests.                    *)
LEMMA FlowInit ==
  ASSUME PaymentsStateInit
  PROVE  FlowInv
  BY DEF PaymentsStateInit, FlowInv, PaymentsStateTypeOK, OrdersOfRows, PayEntry,
         HookEntry, CapturesReported, Free, PayRequest, Delivery

(* On its own it starts from well-formed rows.                              *)
LEMMA RowsStart ==
  ASSUME PaymentsInit
  PROVE  RowsTypeOK /\ DOMAIN bookings = BookingIds
<1>1. bookings \in [BookingIds -> BookingRow]
  BY DEF PaymentsInit, BookingRow
<1>2. items \in [BookingIds -> ItemRow]
  BY SpansAssumption DEF PaymentsInit, ItemRow
<1>3. timeline \in [BookingIds -> SUBSET TimelineEvents] /\ messages = {}
  BY DEF PaymentsInit, TimelineEvents
<1> QED BY <1>1, <1>2, <1>3 DEF RowsTypeOK

(* A step that changes nothing changes nothing the invariants read.         *)
LEMMA FlowStutters ==
  ASSUME FlowInv, UNCHANGED <<payments, recorded, gatewayVars, pay, hook>>
  PROVE  FlowInv'
<1> USE DEF FlowInv, gatewayVars
<1>1. PaymentsStateTypeOK' /\ OrdersOfRows' /\ CapturesReported'
  BY DEF PaymentsStateTypeOK, OrdersOfRows, CapturesReported
<1>2. \A q \in PayProcs : PayEntry(pay[q])'
  BY DEF PayEntry
<1>3. \A h \in Hooks : HookEntry(hook[h])'
  BY DEF HookEntry
<1> QED BY <1>1, <1>2, <1>3

(* The flow on its own: its strengthening holds throughout.                 *)
LEMMA FlowCorrect == PaymentsSpec => [](RowsTypeOK /\ FlowInv)
<1>1. PaymentsInit => RowsTypeOK /\ FlowInv
  BY FlowInit, RowsStart DEF PaymentsInit
<1>2. RowsTypeOK /\ FlowInv /\ PaymentsNext => (RowsTypeOK /\ FlowInv)'
  BY FlowNext, FlowKeepsRows
<1>3. RowsTypeOK /\ FlowInv /\ UNCHANGED paymentsVars => (RowsTypeOK /\ FlowInv)'
  BY FlowStutters DEF paymentsVars, rowVars, RowsTypeOK
<1> QED BY <1>1, <1>2, <1>3, PTL DEF PaymentsSpec

(* Every row, order, event, pay request and delivery keeps its shape, and   *)
(* only orders of the gateway are handed out.                               *)
THEOREM PaymentsTypeCorrect == PaymentsSpec => []PaymentsTypeOK
<1>1. RowsTypeOK /\ FlowInv => PaymentsTypeOK
  BY DEF FlowInv, PaymentsTypeOK
<1> QED BY <1>1, FlowCorrect, PTL

-----------------------------------------------------------------------------
(* No step makes a second payment of a booking active: only createPending   *)
(* makes one active, and its index looks at the rows as they are then.      *)
LEMMA OneActiveNext ==
  ASSUME FlowInv, OneActivePayment, PaymentsNext
  PROVE  OneActivePayment'
<1>1. CASE UNCHANGED payments
  BY <1>1 DEF OneActivePayment, Active
<1>2. ASSUME NEW q \in PayProcs, PayCreate(q), ~UNCHANGED payments
      PROVE  OneActivePayment'
  <2>1. PICK i \in PaymentIds \ DOMAIN payments :
          /\ DOMAIN payments' = DOMAIN payments \cup {i}
          /\ \A x \in DOMAIN payments : payments'[x] = payments[x]
          /\ payments'[i] = [booking |-> pay[q].booking, status |-> "pending",
                             order |-> NoOrder, version |-> 1]
    BY <1>2, CreateWrites
  <2>2. payments'[i].booking = pay[q].booking
    BY <2>1
  <2>3. ActivePayments(pay[q].booking) = {}
    BY <1>2, CreateWrites
  <2>4. \A x \in DOMAIN payments : Active(x)' => payments[x].booking # pay[q].booking
    BY <2>1, <2>3 DEF ActivePayments, Active
  <2> QED BY <2>1, <2>2, <2>4 DEF OneActivePayment, Active
<1>3. ASSUME NEW q \in PayProcs, PayProcess(q)
      PROVE  OneActivePayment'
  BY <1>1, <1>3, ProcessWrites DEF OneActivePayment, Active
<1>4. ASSUME NEW h \in Hooks, HookSave(h)
      PROVE  OneActivePayment'
  BY <1>4, SaveWrites DEF OneActivePayment, Active, Target
<1> QED BY <1>1, <1>2, <1>3, <1>4, PaymentWriters

(* For any number of concurrent pay requests a booking has at most one      *)
(* payment in flight.                                                       *)
THEOREM OnePaymentInFlight == PaymentsSpec => []OneActivePayment
<1>1. PaymentsInit => OneActivePayment
  BY DEF PaymentsInit, PaymentsStateInit, OneActivePayment
<1>2. OneActivePayment /\ UNCHANGED paymentsVars => OneActivePayment'
  BY DEF OneActivePayment, Active, paymentsVars
<1> QED BY <1>1, <1>2, OneActiveNext, FlowCorrect, PTL DEF PaymentsSpec

-----------------------------------------------------------------------------
(* No step takes an order off a row: markProcessing writes one only to a    *)
(* row that has none, which the version it compares says.                   *)
LEMMA OrderStaysOnRow ==
  ASSUME FlowInv, PaymentsNext, NEW i \in DOMAIN payments,
         payments[i].order # NoOrder
  PROVE  /\ i \in DOMAIN payments'
         /\ payments'[i].order = payments[i].order
         /\ payments'[i].booking = payments[i].booking
<1>1. ASSUME NEW q \in PayProcs, PayCreate(q)
      PROVE  i \in DOMAIN payments' /\ payments'[i] = payments[i]
  BY <1>1 DEF PayCreate
<1>2. ASSUME NEW q \in PayProcs, PayProcess(q)
      PROVE  i \in DOMAIN payments' /\ payments'[i] = payments[i]
  BY <1>2, ProcessWrites
<1>3. ASSUME NEW h \in Hooks, HookSave(h)
      PROVE  /\ i \in DOMAIN payments'
             /\ payments'[i].order = payments[i].order
             /\ payments'[i].booking = payments[i].booking
  BY <1>3, SaveWrites
<1> QED BY <1>1, <1>2, <1>3, PaymentWriters

(* The orders a step hands out are on their rows in its next state.         *)
LEMMA HandedOutIsOnRow ==
  ASSUME FlowInv, PaymentsNext, NEW o \in intents' \ intents
  PROVE  /\ o \in DOMAIN orders
         /\ \E i \in DOMAIN payments' :
              payments'[i].order = o /\ payments'[i].booking = orders[o].booking
<1> USE DEF FlowInv
<1>1. PICK q \in PayProcs : PayFindActive(q) \/ PayProcess(q)
  BY DEF PaymentsNext, PayStep, HookStep, PayCheckBooking, PayCreate, PayOrder,
         PayOrderFails, PayAbort, CustomerTries, HookRecord, HookFind, HookLoad,
         HookSave, HookReadBooking, HookMarkPaid, HookConfirmItems,
         HookLogConfirmed, HookNotify, HookMarkUnpaid, HookAbort, gatewayVars
<1>2. CASE PayFindActive(q)
  <2>1. PICK i \in DOMAIN payments : payments[i].order = o /\ o # NoOrder
    BY <1>2 DEF PayFindActive, HandOut, ActivePayments
  <2> QED BY <1>2, <2>1 DEF PayFindActive, OrdersOfRows
<1>3. CASE PayProcess(q)
  <2>1. VersionMatches(pay[q].payment, pay[q].row.version) /\ o = pay[q].order
    BY <1>3 DEF PayProcess, HandOut
  <2>2. /\ PayEntry(pay[q]) /\ pay[q].pc = "process"
        /\ pay[q].payment \in DOMAIN payments
    BY <1>3 DEF PayProcess, PayEntry
  <2>3. o \in DOMAIN orders /\ payments[pay[q].payment].booking = orders[o].booking
    BY <2>1, <2>2 DEF PayEntry
  <2>4. ~UNCHANGED payments
    <3> DEFINE v == payments[pay[q].payment].version + 1
    <3>1. payments[pay[q].payment] \in PaymentRow
      BY <2>2 DEF PaymentsStateTypeOK
    <3>2. v # payments[pay[q].payment].version
      BY <3>1 DEF PaymentRow
    <3>3. payments' = [payments EXCEPT ![pay[q].payment].status = "processing",
                                       ![pay[q].payment].order = o,
                                       ![pay[q].payment].version = v]
      BY <1>3, <2>1, <2>2, <3>1 DEF PayProcess
    <3> HIDE DEF v
    <3>4. payments'[pay[q].payment].version = v
      BY <2>2, <3>1, <3>3 DEF PaymentRow, PaymentsStateTypeOK
    <3> QED BY <3>2, <3>4
  <2> QED BY <1>3, <2>1, <2>2, <2>3, <2>4, ProcessWrites
<1> QED BY <1>1, <1>2, <1>3

(* A handed-out order stays on its row, with its booking.                   *)
LEMMA IntentRecordedNext ==
  ASSUME FlowInv, IntentIsRecorded, PaymentsNext
  PROVE  IntentIsRecorded'
<1>1. OrdersAdvance
  BY GatewayAdvances
<1>2. SUFFICES ASSUME NEW o \in intents'
               PROVE  \E i \in DOMAIN payments' :
                        /\ payments'[i].order = o
                        /\ payments'[i].booking = orders'[o].booking
  BY DEF IntentIsRecorded
<1>3. PICK i \in DOMAIN payments' :
        payments'[i].order = o /\ payments'[i].booking = orders[o].booking
  <2>1. CASE o \in intents
    <3>1. PICK i \in DOMAIN payments :
            payments[i].order = o /\ payments[i].booking = orders[o].booking
      BY <2>1 DEF IntentIsRecorded
    <3>2. o # NoOrder
      BY <2>1, PaymentsAssumption DEF FlowInv, PaymentsStateTypeOK
    <3> QED BY <3>1, <3>2, OrderStaysOnRow
  <2> QED BY <2>1, HandedOutIsOnRow
<1>4. o \in DOMAIN orders
  BY HandedOutIsOnRow DEF FlowInv, PaymentsStateTypeOK
<1> QED BY <1>1, <1>3, <1>4 DEF OrdersAdvance

(* For any number of concurrent pay requests, every order a client can pay  *)
(* is found by its events on a payment of its own booking.                  *)
THEOREM IntentsAreRecorded == PaymentsSpec => []IntentIsRecorded
<1>1. PaymentsInit => IntentIsRecorded
  BY DEF PaymentsInit, PaymentsStateInit, IntentIsRecorded
<1>2. IntentIsRecorded /\ UNCHANGED paymentsVars => IntentIsRecorded'
  BY DEF IntentIsRecorded, paymentsVars, gatewayVars
<1> QED BY <1>1, <1>2, IntentRecordedNext, FlowCorrect, PTL DEF PaymentsSpec

-----------------------------------------------------------------------------
(* A payment is settled by markSuccess and markFailed only, as their        *)
(* recorded event says; no later step changes its order.                    *)
LEMMA SettledNext ==
  ASSUME FlowInv, SettledByOwnEvent, PaymentsNext
  PROVE  SettledByOwnEvent'
<1>1. recorded \subseteq recorded'
  BY GatewayAdvances DEF OrdersAdvance
<1>2. CASE UNCHANGED payments
  BY <1>1, <1>2 DEF SettledByOwnEvent
<1>3. ASSUME NEW q \in PayProcs, PayCreate(q), ~UNCHANGED payments
      PROVE  SettledByOwnEvent'
  <2>1. PICK i \in PaymentIds \ DOMAIN payments :
          /\ DOMAIN payments' = DOMAIN payments \cup {i}
          /\ \A x \in DOMAIN payments : payments'[x] = payments[x]
          /\ payments'[i] = [booking |-> pay[q].booking, status |-> "pending",
                             order |-> NoOrder, version |-> 1]
    BY <1>3, CreateWrites
  <2>2. payments'[i].status = "pending"
    BY <2>1
  <2> QED BY <1>1, <2>1, <2>2 DEF SettledByOwnEvent
<1>4. ASSUME NEW q \in PayProcs, PayProcess(q)
      PROVE  SettledByOwnEvent'
  BY <1>1, <1>2, <1>4, ProcessWrites DEF SettledByOwnEvent
<1>5. ASSUME NEW h \in Hooks, HookSave(h)
      PROVE  SettledByOwnEvent'
  <2> DEFINE i == hook[h].payment
             e == hook[h].event
  <2>1. /\ DOMAIN payments' = DOMAIN payments
        /\ \A x \in DOMAIN payments \ {i} : payments'[x] = payments[x]
        /\ payments'[i].status = Target(e) /\ payments'[i].order = e.order
        /\ e \in recorded
    BY <1>5, SaveWrites
  <2>2. \A x : Target(x)' = Target(x)
    BY DEF Target
  <2>3. ASSUME NEW x \in DOMAIN payments',
               payments'[x].status \in {"success", "failed"}
        PROVE  \E y \in recorded' : /\ y.order = payments'[x].order
                                    /\ Target(y) = payments'[x].status
    BY <1>1, <2>1, <2>3 DEF SettledByOwnEvent
  <2> QED BY <2>2, <2>3 DEF SettledByOwnEvent
<1> QED BY <1>2, <1>3, <1>4, <1>5, PaymentWriters

(* For any number of deliveries, in any order, a payment is only ever       *)
(* settled by an event of its own order that says so.                       *)
THEOREM SettledByItsEvents == PaymentsSpec => []SettledByOwnEvent
<1>1. PaymentsInit => SettledByOwnEvent
  BY DEF PaymentsInit, PaymentsStateInit, SettledByOwnEvent
<1>2. SettledByOwnEvent /\ UNCHANGED paymentsVars => SettledByOwnEvent'
  BY DEF SettledByOwnEvent, Target, paymentsVars
<1> QED BY <1>1, <1>2, SettledNext, FlowCorrect, PTL DEF PaymentsSpec

-----------------------------------------------------------------------------
(* PaidOnlyIfCaptured for the ids that have no booking yet as well.         *)
CapturedFirst ==
  \A b \in BookingIds :
    \/ b \in DOMAIN bookings /\ bookings[b].payment = "paid"
    \/ b \in DOMAIN bookings /\ bookings[b].status = "confirmed"
    \/ b \in DOMAIN bookings /\ items[b].status = "confirmed"
    \/ "confirmed" \in timeline[b]
    \/ <<b, "confirmation">> \in messages
    => Captured(b)

(* It says what PaidOnlyIfCaptured says.                                    *)
LEMMA CapturedFirstImplies ==
  ASSUME RowsTypeOK, CapturedFirst
  PROVE  PaidOnlyIfCaptured
  BY DEF RowsTypeOK, CapturedFirst, PaidOnlyIfCaptured

(* A booking with a captured order keeps it.                                *)
LEMMA CapturedStays ==
  ASSUME FlowInv, PaymentsNext, NEW b, Captured(b)
  PROVE  Captured(b)'
  BY GatewayAdvances, CapturesReportedNext DEF Captured, OrdersAdvance

(* A delivery that confirms a booking delivers the capture of its order.    *)
LEMMA ConfirmingIsCaptured ==
  ASSUME FlowInv, NEW h \in Hooks,
         hook[h].pc \in {"paid", "confirmItems", "logConfirmed", "notify"}
  PROVE  \E b \in BookingIds : b = hook[h].booking /\ Captured(b)
<1>1. HookEntry(hook[h]) /\ hook[h] \in Delivery /\ recorded \subseteq events
  BY DEF FlowInv, PaymentsStateTypeOK
<1>2. /\ hook[h].event \in events /\ hook[h].event.kind = "captured"
      /\ hook[h].event.order \in DOMAIN orders
      /\ orders[hook[h].event.order].booking = hook[h].booking
  BY <1>1 DEF HookEntry
<1>3. orders[hook[h].event.order].paid
  BY <1>2 DEF FlowInv, CapturesReported
<1>4. hook[h].booking \in BookingIds
  BY <1>1, HookKinds
<1> QED BY <1>2, <1>3, <1>4 DEF Captured

(* No step pays, confirms or announces a booking before its capture.        *)
LEMMA CapturedFirstNext ==
  ASSUME RowsTypeOK, FlowInv, CapturedFirst, PaymentsNext
  PROVE  CapturedFirst'
<1>1. \A b \in BookingIds : Captured(b) => Captured(b)'
  BY CapturedStays
<1>2. CASE UNCHANGED rowVars
  BY <1>1, <1>2 DEF CapturedFirst, rowVars
<1>3. ASSUME NEW h \in Hooks, HookMarkPaid(h)
      PROVE  CapturedFirst'
  <2>1. PICK b \in BookingIds : b = hook[h].booking /\ Captured(b)'
    BY <1>1, <1>3, ConfirmingIsCaptured DEF HookMarkPaid
  <2> QED BY <1>1, <1>3, <2>1 DEF HookMarkPaid, CapturedFirst, RowsTypeOK
<1>4. ASSUME NEW h \in Hooks, HookConfirmItems(h)
      PROVE  CapturedFirst'
  <2>1. PICK b \in BookingIds : b = hook[h].booking /\ Captured(b)'
    BY <1>1, <1>4, ConfirmingIsCaptured DEF HookConfirmItems
  <2> QED BY <1>1, <1>4, <2>1 DEF HookConfirmItems, CapturedFirst, RowsTypeOK
<1>5. ASSUME NEW h \in Hooks, HookLogConfirmed(h)
      PROVE  CapturedFirst'
  <2>1. PICK b \in BookingIds : b = hook[h].booking /\ Captured(b)'
    BY <1>1, <1>5, ConfirmingIsCaptured DEF HookLogConfirmed
  <2> QED BY <1>1, <1>5, <2>1 DEF HookLogConfirmed, CapturedFirst, RowsTypeOK
<1>6. ASSUME NEW h \in Hooks, HookNotify(h)
      PROVE  CapturedFirst'
  <2>1. PICK b \in BookingIds : b = hook[h].booking /\ Captured(b)'
    BY <1>1, <1>6, ConfirmingIsCaptured DEF HookNotify
  <2> QED BY <1>1, <1>6, <2>1 DEF HookNotify, Dispatch, CapturedFirst
<1>7. ASSUME NEW h \in Hooks, HookMarkUnpaid(h)
      PROVE  CapturedFirst'
  BY <1>1, <1>7 DEF HookMarkUnpaid, CapturedFirst, RowsTypeOK, BookingRow
<1> QED BY <1>2, <1>3, <1>4, <1>5, <1>6, <1>7, RowWriters

(* For any number of deliveries, in any order and any number of times, a    *)
(* booking is paid, confirmed, logged or announced as confirmed only after  *)
(* the gateway captured an order of it.                                     *)
THEOREM PaidIsCaptured == PaymentsSpec => []PaidOnlyIfCaptured
<1>1. PaymentsInit => CapturedFirst
  <2> SUFFICES ASSUME PaymentsInit
               PROVE  CapturedFirst
    OBVIOUS
  <2>1. \A b \in BookingIds : /\ bookings[b].payment = "pending"
                              /\ bookings[b].status = "pending"
                              /\ items[b].status = "pending"
                              /\ timeline[b] = {"created"}
    BY DEF PaymentsInit
  <2>2. messages = {}
    BY DEF PaymentsInit
  <2> QED BY <2>1, <2>2 DEF CapturedFirst
<1>2. CapturedFirst /\ UNCHANGED paymentsVars => CapturedFirst'
  BY DEF CapturedFirst, Captured, paymentsVars, rowVars, gatewayVars
<1>3. RowsTypeOK /\ CapturedFirst => PaidOnlyIfCaptured
  BY CapturedFirstImplies
<1> QED BY <1>1, <1>2, <1>3, CapturedFirstNext, FlowCorrect, PTL DEF PaymentsSpec

-----------------------------------------------------------------------------
(* A delivery is about to mark a booking unpaid only if it has just found   *)
(* it unpaid, or was about to before.                                       *)
LEMMA UnpaidEntered ==
  ASSUME FlowInv, PaymentsNext, NEW h \in Hooks, hook'[h].pc = "unpaid"
  PROVE  \/ hook'[h] = hook[h]
         \/ /\ bookings[hook'[h].booking].payment # "paid"
            /\ UNCHANGED bookings
<1> USE DEF FlowInv, PaymentsStateTypeOK
<1>1. \/ \E q \in PayProcs : PayCheckBooking(q) \/ PayStep(q) \/ PayAbort(q)
      \/ \E o \in Orders : CustomerTries(o)
      \/ \E x \in Hooks : \/ \E e \in events : HookRecord(x, e)
                          \/ HookStep(x) \/ HookAbort(x)
  BY DEF PaymentsNext
<1>2. CASE UNCHANGED hook
  BY <1>2
<1>3. ASSUME NEW x \in Hooks, x # h,
             \/ \E e \in events : HookRecord(x, e)
             \/ HookStep(x) \/ HookAbort(x)
      PROVE  hook'[h] = hook[h]
  BY <1>3, HookEntryMade
<1>4. CASE \/ \E e \in events : HookRecord(h, e)
           \/ HookFind(h) \/ HookLoad(h) \/ HookSave(h)
           \/ HookNotify(h) \/ HookMarkUnpaid(h) \/ HookAbort(h)
  BY <1>4 DEF HookRecord, HookFind, HookLoad, HookSave, HookNotify,
              HookMarkUnpaid, HookAbort, HookReturn, HookBecome, Free
<1>5. CASE HookReadBooking(h)
  <2>1. hook[h] \in [pc : {"readBooking", "paid", "confirmItems",
                           "logConfirmed", "notify", "unpaid"},
                     event : Event, booking : BookingIds]
    BY <1>5, HookKinds DEF HookReadBooking
  <2> QED
    BY <1>5, <2>1
    DEF HookReadBooking, HookGoTo, HookReturn, HookBecome, Free, rowVars
<1>6. CASE HookMarkPaid(h) \/ HookConfirmItems(h) \/ HookLogConfirmed(h)
  <2>1. hook[h] \in [pc : {"readBooking", "paid", "confirmItems",
                           "logConfirmed", "notify", "unpaid"},
                     event : Event, booking : BookingIds]
    BY <1>6, HookKinds DEF HookMarkPaid, HookConfirmItems, HookLogConfirmed
  <2> QED
    BY <1>6, <2>1
    DEF HookMarkPaid, HookConfirmItems, HookLogConfirmed, HookGoTo, HookReturn,
        HookBecome, Free
<1>7. ASSUME NEW q \in PayProcs, PayCheckBooking(q) \/ PayStep(q) \/ PayAbort(q)
      PROVE  UNCHANGED hook
  BY <1>7, PayEntryMade
<1>8. ASSUME NEW o \in Orders, CustomerTries(o)
      PROVE  UNCHANGED hook
  BY <1>8 DEF CustomerTries
<1> QED BY <1>1, <1>2, <1>3, <1>4, <1>5, <1>6, <1>7, <1>8 DEF HookStep

(* For any number of deliveries at once, a paid booking with no failure     *)
(* under way that read it before stays paid.                                *)
THEOREM PaidStaysPaid == PaymentsSpec => PaidIsFinal
<1> DEFINE Stays == \A b \in DOMAIN bookings : PaidForGood(b) => PaidForGood(b)'
<1>1. ASSUME RowsTypeOK, FlowInv, PaymentsNext
      PROVE  Stays
  <2> SUFFICES ASSUME NEW b \in DOMAIN bookings, PaidForGood(b)
               PROVE  PaidForGood(b)'
    OBVIOUS
  <2>1. bookings'[b].payment = "paid"
    <3>1. ASSUME NEW h \in Hooks, HookMarkPaid(h)
          PROVE  bookings'[b].payment = "paid"
      BY <1>1, <3>1 DEF HookMarkPaid, PaidForGood, RowsTypeOK, BookingRow
    <3>2. ASSUME NEW h \in Hooks, HookMarkUnpaid(h)
          PROVE  bookings'[b].payment = "paid"
      BY <1>1, <3>2 DEF HookMarkUnpaid, PaidForGood
    <3>3. CASE UNCHANGED bookings
      BY <3>3 DEF PaidForGood
    <3> QED
      BY <1>1, <3>1, <3>2, <3>3, RowWriters
      DEF HookConfirmItems, HookLogConfirmed, HookNotify, rowVars
  <2>2. ASSUME NEW h \in Hooks, hook'[h].pc = "unpaid", hook'[h].booking = b
        PROVE  FALSE
    BY <1>1, <2>2, UnpaidEntered DEF PaidForGood
  <2> QED BY <2>1, <2>2 DEF PaidForGood
<1>2. UNCHANGED paymentsVars => Stays
  BY DEF paymentsVars, rowVars, PaidForGood
<1>3. PaymentsSpec => [][Stays]_<<bookings, hook>>
  BY <1>1, <1>2, FlowCorrect, PTL DEF PaymentsSpec
<1> QED BY <1>3 DEF PaidIsFinal

-----------------------------------------------------------------------------
(* Nothing but a delivery that may settle it changes a settled payment.     *)
LEMMA SettledRowKept ==
  ASSUME FlowInv, PaymentsNext, NEW i \in DOMAIN payments, SettledForGood(i)
  PROVE  payments'[i] = payments[i]
<1>1. ASSUME NEW q \in PayProcs, PayCreate(q)
      PROVE  payments'[i] = payments[i]
  BY <1>1 DEF PayCreate
<1>2. ASSUME NEW q \in PayProcs, PayProcess(q)
      PROVE  payments'[i] = payments[i]
  BY <1>2, ProcessWrites DEF SettledForGood
<1>3. ASSUME NEW h \in Hooks, HookSave(h)
      PROVE  payments'[i] = payments[i]
  <2>1. i # hook[h].payment
    BY <1>3 DEF SettledForGood, MaySettle, HookSave
  <2> QED BY <1>3, <2>1, SaveWrites
<1> QED BY <1>1, <1>2, <1>3, PaymentWriters

(* A delivery comes to settle a payment only from a status that the state   *)
(* machine lets it leave.                                                   *)
LEMMA SettlersEntered ==
  ASSUME FlowInv, PaymentsNext, NEW i \in DOMAIN payments, SettledForGood(i),
         NEW h \in Hooks
  PROVE  ~MaySettle(h, i)'
<1> USE DEF FlowInv, PaymentsStateTypeOK
<1>1. payments'[i] = payments[i]
  BY SettledRowKept
<1>2. CASE hook'[h] = hook[h]
  BY <1>1, <1>2 DEF SettledForGood, MaySettle, VersionMatches
<1>3. CASE HookFind(h)
  <2>1. CASE HookReturn(h)
    BY <2>1 DEF HookReturn, HookBecome, Free, MaySettle
  <2>2. ASSUME NEW x \in PaymentsByOrder(hook[h].event),
               CanTransition(payments[x].status, Target(hook[h].event)),
               HookBecome(h, [pc |-> "load", event |-> hook[h].event,
                              payment |-> x, version |-> payments[x].version])
        PROVE  ~MaySettle(h, i)'
    <3>1. x # i
      BY <2>2 DEF CanTransition, SettledForGood
    <3> QED BY <2>2, <3>1 DEF HookBecome, MaySettle
  <2> QED BY <1>3, <2>1, <2>2 DEF HookFind
<1>4. CASE HookLoad(h)
  <2>1. CASE VersionMatches(hook[h].payment, hook[h].version)
    <3>1. hook[h].payment # i
      BY <1>4, <2>1 DEF HookLoad, SettledForGood, MaySettle
    <3> QED BY <1>4, <2>1, <3>1 DEF HookLoad, HookBecome, MaySettle
  <2>2. CASE ~VersionMatches(hook[h].payment, hook[h].version)
    BY <1>4, <2>2 DEF HookLoad, HookReturn, HookBecome, Free, MaySettle
  <2> QED BY <2>1, <2>2
<1>5. CASE \/ \E e \in events : HookRecord(h, e)
           \/ HookSave(h) \/ HookNotify(h) \/ HookMarkUnpaid(h) \/ HookAbort(h)
  BY <1>5 DEF HookRecord, HookSave, HookNotify, HookMarkUnpaid, HookAbort,
              HookReturn, HookBecome, Free, MaySettle
<1>6. CASE \/ HookReadBooking(h) \/ HookMarkPaid(h) \/ HookConfirmItems(h)
           \/ HookLogConfirmed(h)
  <2>1. hook[h] \in [pc : {"readBooking", "paid", "confirmItems",
                           "logConfirmed", "notify", "unpaid"},
                     event : Event, booking : BookingIds]
    BY <1>6, HookKinds
    DEF HookReadBooking, HookMarkPaid, HookConfirmItems, HookLogConfirmed
  <2>2. hook'[h].pc \notin {"load", "save"}
    BY <1>6, <2>1
    DEF HookReadBooking, HookMarkPaid, HookConfirmItems, HookLogConfirmed,
        HookGoTo, HookReturn, HookBecome, Free
  <2> QED BY <2>2 DEF MaySettle
<1>7. ASSUME NEW x \in Hooks, x # h,
             \/ \E e \in events : HookRecord(x, e)
             \/ HookStep(x) \/ HookAbort(x)
      PROVE  hook'[h] = hook[h]
  BY <1>7, HookEntryMade
<1>8. ASSUME NEW q \in PayProcs, PayCheckBooking(q) \/ PayStep(q) \/ PayAbort(q)
      PROVE  UNCHANGED hook
  BY <1>8, PayEntryMade
<1>9. ASSUME NEW o \in Orders, CustomerTries(o)
      PROVE  UNCHANGED hook
  BY <1>9 DEF CustomerTries
<1> QED
  BY <1>2, <1>3, <1>4, <1>5, <1>6, <1>7, <1>8, <1>9 DEF PaymentsNext, HookStep

(* For any number of deliveries at once, a settled payment with no delivery *)
(* under way that passed the version check before keeps its status.         *)
THEOREM SettledStaysSettled == PaymentsSpec => SettledIsFinal
<1> DEFINE Stays == \A i \in DOMAIN payments :
                      SettledForGood(i) =>
                        /\ SettledForGood(i)'
                        /\ payments'[i].status = payments[i].status
                        /\ payments'[i].order = payments[i].order
<1>1. ASSUME FlowInv, PaymentsNext
      PROVE  Stays
  BY <1>1, SettledRowKept, SettlersEntered DEF SettledForGood
<1>2. UNCHANGED paymentsVars => Stays
  BY DEF paymentsVars, SettledForGood, MaySettle, VersionMatches
<1>3. PaymentsSpec => [][Stays]_<<payments, hook>>
  BY <1>1, <1>2, FlowCorrect, PTL DEF PaymentsSpec
<1> QED BY <1>3 DEF SettledIsFinal

=============================================================================
