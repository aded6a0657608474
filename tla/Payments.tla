------------------------------- MODULE Payments -------------------------------
(***************************************************************************)
(* The payment flow: POST /bookings/:id/pay (PaymentsService               *)
(* .initiateUpiPayment) and the Razorpay webhook (handleWebhookEvent, the  *)
(* payment state machine and the booking adapter it calls).  A request or  *)
(* a delivery is a process that runs one database or gateway call per      *)
(* step.  The gateway is external: it creates orders, lets the customer    *)
(* try to pay an order he was handed until one try is captured, and        *)
(* delivers an event for each try, in any order and any number of times.   *)
(*                                                                         *)
(* Events of an order carry its id.  The lookup by gateway payment id that *)
(* follows a failed lookup by order id is left out: a row gets a payment   *)
(* id only from an event that found it by its order id, which it keeps.    *)
(* Amounts, raw responses and paid_at are left out.                        *)
(***************************************************************************)
EXTENDS BookingRows

CONSTANTS
  PaymentIds,   \* the primary keys an instance may use
  Orders,       \* the order ids the gateway may hand out
  NoOrder,      \* gateway_order_id IS NULL
  MaxTries,     \* bound on the tries to pay one order
  PayProcs,     \* bound on concurrent pay requests
  Hooks         \* bound on concurrent webhook deliveries

ASSUME PaymentsAssumption == NoOrder \notin Orders /\ MaxTries \in Nat

VARIABLES
  payments,   \* id -> payment row, for the ids inserted so far
  recorded,   \* the rows of payment_webhook_events
  orders,     \* gateway: order -> its booking, tries so far, whether captured
  intents,    \* the orders handed to a client
  events,     \* gateway: the events there are to deliver
  pay,        \* process -> what a pay request does and what it has read
  hook        \* process -> what a delivery does and what it has read

gatewayVars  == <<orders, intents, events>>
paymentsVars == <<rowVars, payments, recorded, gatewayVars, pay, hook>>

PaymentRow ==
  [booking : BookingIds,
   status  : {"pending", "processing", "success", "failed"},
   order   : Orders \cup {NoOrder},
   version : Nat]

Event == [order : Orders, try : 1..MaxTries, kind : {"captured", "failed"}]

PayRequest ==
  [pc : {"idle"}]
  \cup [pc : {"findActive", "create"}, booking : BookingIds]
  \cup [pc : {"order"}, payment : PaymentIds, row : PaymentRow]
  \cup [pc : {"process"}, payment : PaymentIds, row : PaymentRow,
        order : Orders]

Delivery ==
  [pc : {"idle"}]
  \cup [pc : {"find"}, event : Event]
  \cup [pc : {"load"}, event : Event, payment : PaymentIds, version : Nat]
  \cup [pc : {"save"}, event : Event, payment : PaymentIds, row : PaymentRow]
  \cup [pc : {"readBooking", "paid", "confirmItems", "logConfirmed", "notify",
              "unpaid"},
        event : Event, booking : BookingIds]

Free == [pc |-> "idle"]

PaymentsStateInit ==
  /\ payments = [i \in {} |-> {}]
  /\ recorded = {}
  /\ orders = [o \in {} |-> {}]
  /\ intents = {}
  /\ events = {}
  /\ pay = [q \in PayProcs |-> Free]
  /\ hook = [h \in Hooks |-> Free]

PaymentsStateTypeOK ==
  /\ DOMAIN payments \subseteq PaymentIds
  /\ payments \in [DOMAIN payments -> PaymentRow]
  /\ recorded \subseteq events
  /\ events \subseteq Event
  /\ DOMAIN orders \subseteq Orders
  /\ orders \in [DOMAIN orders ->
                   [booking : BookingIds, tries : 0..MaxTries, paid : BOOLEAN]]
  /\ intents \subseteq DOMAIN orders
  /\ pay \in [PayProcs -> PayRequest]
  /\ hook \in [Hooks -> Delivery]

-----------------------------------------------------------------------------
(* Mutant of the next definition: no way to success.                        *)
CanTransitionToFailedOnly(from, to) ==
  \/ from = "pending" /\ to = "processing"
  \/ from = "processing" /\ to = "failed"

(* ALLOWED_TRANSITIONS of the payment state machine.                        *)
CanTransition(from, to) ==
  \/ from = "pending" /\ to = "processing"
  \/ from = "processing" /\ to \in {"success", "failed"}

Active(i) == payments[i].status \in {"pending", "processing"}

ActivePayments(b) ==
  {i \in DOMAIN payments : payments[i].booking = b /\ Active(i)}

(* Mutant of the next definition: no partial unique index.                  *)
ActiveIndexMissing(b) == FALSE

(* idx_payments_active_booking refuses another active row.                  *)
ActiveIndexViolated(b) == ActivePayments(b) # {}

(* Mutant of the next definition: the version is not compared.              *)
VersionIgnored(i, v) == TRUE

(* The version condition of markProcessing, markSuccess and markFailed.     *)
VersionMatches(i, v) == payments[i].version = v

(* findPendingForPayment and the checks on it: a failed payment may be      *)
(* tried again whatever the booking status is by then.                      *)
Payable(b) ==
  /\ bookings[b].payment # "paid"
  /\ \/ bookings[b].status = "pending" /\ bookings[b].payment = "pending"
     \/ bookings[b].payment = "failed"

PayBecome(q, r) == pay' = [pay EXCEPT ![q] = r]
PayGoTo(q, l)   == pay' = [pay EXCEPT ![q].pc = l]
PayReturn(q)    == PayBecome(q, Free)

(* The client of a pay request gets the order's intent, unless the answer   *)
(* is lost on the way.                                                      *)
HandOut(o) ==
  \/ intents' = intents \cup {o}
  \/ Crashes /\ UNCHANGED intents

PayCheckBooking(q) ==
  /\ pay[q] = Free
  /\ \E b \in DOMAIN bookings :
       Payable(b) /\ PayBecome(q, [pc |-> "findActive", booking |-> b])
  /\ UNCHANGED <<rowVars, payments, recorded, gatewayVars, hook>>

(* Mutant of the next definition: an active payment is handed out without   *)
(* looking whether it has its order yet.                                    *)
PayFindActiveAnyOrder(q) ==
  /\ pay[q].pc = "findActive"
  /\ \/ /\ ActivePayments(pay[q].booking) = {}
        /\ PayGoTo(q, "create")
        /\ UNCHANGED intents
     \/ \E i \in ActivePayments(pay[q].booking) :
          HandOut(payments[i].order) /\ PayReturn(q)
  /\ UNCHANGED <<rowVars, payments, recorded, orders, events, hook>>

(* An active payment that has its order is handed out again; one without    *)
(* is taken over.                                                           *)
PayFindActive(q) ==
  /\ pay[q].pc = "findActive"
  /\ \/ /\ ActivePayments(pay[q].booking) = {}
        /\ PayGoTo(q, "create")
        /\ UNCHANGED intents
     \/ \E i \in ActivePayments(pay[q].booking) :
          IF payments[i].order # NoOrder
          THEN HandOut(payments[i].order) /\ PayReturn(q)
          ELSE /\ PayBecome(q, [pc |-> "order", payment |-> i,
                                row |-> payments[i]])
               /\ UNCHANGED intents
  /\ UNCHANGED <<rowVars, payments, recorded, orders, events, hook>>

(* createPending; a second active row is an error, answered with a 500.     *)
PayCreate(q) ==
  LET b == pay[q].booking
      row == [booking |-> b, status |-> "pending", order |-> NoOrder,
              version |-> 1]
  IN /\ pay[q].pc = "create"
     /\ IF ActiveIndexViolated(b)
        THEN PayReturn(q) /\ UNCHANGED payments
        ELSE \E i \in PaymentIds \ DOMAIN payments :
               /\ payments' = [x \in DOMAIN payments \cup {i} |->
                                 IF x = i THEN row ELSE payments[x]]
               /\ PayBecome(q, [pc |-> "order", payment |-> i, row |-> row])
     /\ UNCHANGED <<rowVars, recorded, gatewayVars, hook>>

(* gateway.createOrder; then assertTransition on the status read.           *)
PayOrder(q) ==
  LET row == pay[q].row
  IN /\ pay[q].pc = "order"
     /\ \E o \in Orders \ DOMAIN orders :
          /\ orders' = [x \in DOMAIN orders \cup {o} |->
                          IF x = o
                          THEN [booking |-> row.booking, tries |-> 0,
                                paid |-> FALSE]
                          ELSE orders[x]]
          /\ IF CanTransition(row.status, "processing")
             THEN PayBecome(q, [pc |-> "process", payment |-> pay[q].payment,
                                row |-> row, order |-> o])
             ELSE PayReturn(q)
     /\ UNCHANGED <<rowVars, payments, recorded, intents, events, hook>>

(* The gateway call fails: the pending row stays for the next request.      *)
PayOrderFails(q) ==
  /\ pay[q].pc = "order"
  /\ PayReturn(q)
  /\ UNCHANGED <<rowVars, payments, recorded, gatewayVars, hook>>

(* markProcessing: one UPDATE guarded by id and version.                    *)
PayProcess(q) ==
  LET i == pay[q].payment
      o == pay[q].order
  IN /\ pay[q].pc = "process"
     /\ IF VersionMatches(i, pay[q].row.version)
        THEN /\ payments' = [payments EXCEPT ![i].status = "processing",
                                             ![i].order = o,
                                             ![i].version = @ + 1]
             /\ HandOut(o)
        ELSE UNCHANGED <<payments, intents>>
     /\ PayReturn(q)
     /\ UNCHANGED <<rowVars, recorded, orders, events, hook>>

PayAbort(q) ==
  /\ Crashes
  /\ pay[q] # Free
  /\ PayReturn(q)
  /\ UNCHANGED <<rowVars, payments, recorded, gatewayVars, hook>>

PayStep(q) ==
  \/ PayFindActive(q) \/ PayCreate(q) \/ PayOrder(q) \/ PayOrderFails(q)
  \/ PayProcess(q)

-----------------------------------------------------------------------------
(* The customer tries to pay an order he was handed, on the gateway's page. *)
CustomerTries(o) ==
  /\ o \in intents
  /\ ~orders[o].paid
  /\ orders[o].tries < MaxTries
  /\ \E k \in {"captured", "failed"} :
       /\ orders' = [orders EXCEPT ![o].tries = @ + 1,
                                   ![o].paid = (k = "captured")]
       /\ events' = events \cup {[order |-> o, try |-> orders[o].tries + 1,
                                  kind |-> k]}
  /\ UNCHANGED <<rowVars, payments, recorded, intents, pay, hook>>

-----------------------------------------------------------------------------
HookBecome(h, r) == hook' = [hook EXCEPT ![h] = r]
HookGoTo(h, l)   == hook' = [hook EXCEPT ![h].pc = l]
HookReturn(h)    == HookBecome(h, Free)

(* The status an event asks for: success on captured, failed on failed.     *)
Target(e) == IF e.kind = "captured" THEN "success" ELSE "failed"

(* Mutant of the next definition: the event is looked up by its booking.    *)
PaymentsByBooking(e) ==
  {i \in DOMAIN payments : payments[i].booking = orders[e.order].booking}

(* findByGatewayOrderId.                                                    *)
PaymentsByOrder(e) == {i \in DOMAIN payments : payments[i].order = e.order}

(* tryRecordEvent: the event is recorded before it is processed; a recorded *)
(* one is answered as a duplicate and changes nothing.                      *)
HookRecord(h, e) ==
  /\ hook[h] = Free
  /\ e \in events \ recorded
  /\ recorded' = recorded \cup {e}
  /\ HookBecome(h, [pc |-> "find", event |-> e])
  /\ UNCHANGED <<rowVars, payments, gatewayVars, pay>>

(* The payment of the order.  Without one, in a final status, or in one the *)
(* transition is not allowed from, the delivery ends here.                  *)
HookFind(h) ==
  LET e == hook[h].event
      open == {i \in PaymentsByOrder(e) :
                 CanTransition(payments[i].status, Target(e))}
  IN /\ hook[h].pc = "find"
     /\ IF open = {}
        THEN HookReturn(h)
        ELSE \E i \in open :
               HookBecome(h, [pc |-> "load", event |-> e, payment |-> i,
                              version |-> payments[i].version])
     /\ UNCHANGED <<rowVars, payments, recorded, gatewayVars, pay>>

(* markSuccess and markFailed find the row by id and version ...            *)
HookLoad(h) ==
  LET i == hook[h].payment
  IN /\ hook[h].pc = "load"
     /\ IF VersionMatches(i, hook[h].version)
        THEN HookBecome(h, [pc |-> "save", event |-> hook[h].event,
                            payment |-> i, row |-> payments[i]])
        ELSE HookReturn(h)
     /\ UNCHANGED <<rowVars, payments, recorded, gatewayVars, pay>>

(* ... and save the entity found, which writes every column that differs    *)
(* from the row as it is now; the save does not compare versions.           *)
HookSave(h) ==
  LET i == hook[h].payment
      e == hook[h].event
  IN /\ hook[h].pc = "save"
     /\ payments' = [payments EXCEPT ![i] =
                       [hook[h].row EXCEPT !.status = Target(e),
                                           !.version = payments[i].version + 1]]
     /\ HookBecome(h, [pc |-> "readBooking", event |-> e,
                       booking |-> hook[h].row.booking])
     /\ UNCHANGED <<rowVars, recorded, gatewayVars, pay>>

(* Mutants of the next definition: a failed event pays; a paid booking is   *)
(* not left alone.                                                          *)
HookReadBookingPays(h) ==
  /\ hook[h].pc = "readBooking"
  /\ HookGoTo(h, IF bookings[hook[h].booking].payment = "paid"
                 THEN "notify" ELSE "paid")
  /\ UNCHANGED <<rowVars, payments, recorded, gatewayVars, pay>>
HookReadBookingUnchecked(h) ==
  /\ hook[h].pc = "readBooking"
  /\ HookGoTo(h, IF hook[h].event.kind = "captured" THEN "paid" ELSE "unpaid")
  /\ UNCHANGED <<rowVars, payments, recorded, gatewayVars, pay>>

(* markBookingPaid and markBookingPaymentFailed start by reading the        *)
(* booking, and do nothing to one that is paid.                             *)
HookReadBooking(h) ==
  LET captured == hook[h].event.kind = "captured"
  IN /\ hook[h].pc = "readBooking"
     /\ IF bookings[hook[h].booking].payment = "paid"
        THEN IF captured THEN HookGoTo(h, "notify") ELSE HookReturn(h)
        ELSE HookGoTo(h, IF captured THEN "paid" ELSE "unpaid")
     /\ UNCHANGED <<rowVars, payments, recorded, gatewayVars, pay>>

(* First statement of markBookingPaid: the status is not looked at.         *)
HookMarkPaid(h) ==
  /\ hook[h].pc = "paid"
  /\ bookings' = [bookings EXCEPT ![hook[h].booking].status = "confirmed",
                                  ![hook[h].booking].payment = "paid"]
  /\ HookGoTo(h, "confirmItems")
  /\ UNCHANGED <<items, timeline, messages, payments, recorded, gatewayVars, pay>>

(* Mutant of the next definition: no constraint on the items' update.       *)
HookConfirmItemsUnchecked(h) ==
  /\ hook[h].pc = "confirmItems"
  /\ items' = [items EXCEPT ![hook[h].booking].status = "confirmed"]
  /\ HookGoTo(h, "logConfirmed")
  /\ UNCHANGED <<bookings, timeline, messages, payments, recorded,
                 gatewayVars, pay>>

(* Second statement: every item becomes confirmed, a cancelled one too,     *)
(* unless the exclusion constraint refuses it.                              *)
HookConfirmItems(h) ==
  LET b == hook[h].booking
  IN /\ hook[h].pc = "confirmItems"
     /\ IF ExclusionViolated(b, items[b].staff, items[b])
        THEN HookReturn(h) /\ UNCHANGED items
        ELSE /\ items' = [items EXCEPT ![b].status = "confirmed"]
             /\ HookGoTo(h, "logConfirmed")
     /\ UNCHANGED <<bookings, timeline, messages, payments, recorded,
                    gatewayVars, pay>>

HookLogConfirmed(h) ==
  /\ hook[h].pc = "logConfirmed"
  /\ timeline' = [timeline EXCEPT ![hook[h].booking] = @ \cup {"confirmed"}]
  /\ HookGoTo(h, "notify")
  /\ UNCHANGED <<bookings, items, messages, payments, recorded, gatewayVars, pay>>

HookNotify(h) ==
  /\ hook[h].pc = "notify"
  /\ Dispatch(hook[h].booking, "confirmation")
  /\ HookReturn(h)
  /\ UNCHANGED <<bookings, items, timeline, payments, recorded, gatewayVars, pay>>

(* The UPDATE of markBookingPaymentFailed.                                  *)
HookMarkUnpaid(h) ==
  /\ hook[h].pc = "unpaid"
  /\ bookings' = [bookings EXCEPT ![hook[h].booking].payment = "failed"]
  /\ HookReturn(h)
  /\ UNCHANGED <<items, timeline, messages, payments, recorded, gatewayVars, pay>>

HookAbort(h) ==
  /\ Crashes
  /\ hook[h] # Free
  /\ HookReturn(h)
  /\ UNCHANGED <<rowVars, payments, recorded, gatewayVars, pay>>

HookStep(h) ==
  \/ HookFind(h) \/ HookLoad(h) \/ HookSave(h) \/ HookReadBooking(h)
  \/ HookMarkPaid(h) \/ HookConfirmItems(h) \/ HookLogConfirmed(h)
  \/ HookNotify(h) \/ HookMarkUnpaid(h)

-----------------------------------------------------------------------------
PaymentsNext ==
  \/ \E q \in PayProcs : PayCheckBooking(q) \/ PayStep(q) \/ PayAbort(q)
  \/ \E o \in Orders : CustomerTries(o)
  \/ \E h \in Hooks :
       (\E e \in events : HookRecord(h, e)) \/ HookStep(h) \/ HookAbort(h)

(* On its own the flow starts from bookings just created, and nothing else  *)
(* writes them.                                                             *)
PaymentsInit ==
  /\ bookings \in [BookingIds ->
                     [customer : Customers, status : {"pending"},
                      payment : {"pending"}, reminder : {0}]]
  /\ items \in [BookingIds ->
                  {[staff |-> s, start |-> x.start, end |-> x.end,
                    status |-> "pending"] : s \in Staff, x \in Spans}]
  /\ timeline = [b \in BookingIds |-> {"created"}]
  /\ messages = {}
  /\ \A b \in BookingIds : ~ExclusionViolated(b, items[b].staff, items[b])
  /\ PaymentsStateInit

PaymentsSpec == PaymentsInit /\ [][PaymentsNext]_paymentsVars

(* The gateway sends an event until it is answered, and a delivery that     *)
(* started goes on while the service runs.  Customers need not pay, and     *)
(* pay requests need not arrive.                                            *)
PaymentsFairSpec ==
  /\ PaymentsSpec
  /\ \A o \in Orders, n \in 1..MaxTries, k \in {"captured", "failed"} :
       WF_paymentsVars(\E h \in Hooks :
                         HookRecord(h, [order |-> o, try |-> n, kind |-> k]))
  /\ \A h \in Hooks : WF_paymentsVars(HookStep(h))

-----------------------------------------------------------------------------
PaymentsTypeOK == RowsTypeOK /\ PaymentsStateTypeOK

(* At most one payment of a booking is in flight, although requests look    *)
(* for one and create one in separate statements.                           *)
OneActivePayment ==
  \A i, j \in DOMAIN payments :
    (i # j /\ Active(i) /\ Active(j))
      => payments[i].booking # payments[j].booking

(* Every order a client can pay is on a payment row of the booking it was   *)
(* created for, and stays there, so that its events find that row; of two   *)
(* requests that take over one pending row, only one hands out its order.   *)
IntentIsRecorded ==
  \A o \in intents :
    \E i \in DOMAIN payments :
      payments[i].order = o /\ payments[i].booking = orders[o].booking

(* A payment ends as success or failed by an event of its own order that    *)
(* says so.                                                                 *)
SettledByOwnEvent ==
  \A i \in DOMAIN payments :
    payments[i].status \in {"success", "failed"} =>
      \E e \in recorded :
        e.order = payments[i].order /\ Target(e) = payments[i].status

Captured(b) == \E o \in DOMAIN orders : orders[o].booking = b /\ orders[o].paid

(* A booking is paid, confirmed, logged or announced as confirmed only if   *)
(* the gateway captured an order of it.                                     *)
PaidOnlyIfCaptured ==
  \A b \in DOMAIN bookings :
    \/ bookings[b].payment = "paid"
    \/ "confirmed" \in {bookings[b].status, items[b].status} \cup timeline[b]
    \/ <<b, "confirmation">> \in messages
    => Captured(b)

(* A payment's status changes along the state machine only, as the rules of *)
(* the repository ask.  Of two deliveries at once, the later save overrules *)
(* the other: markSuccess and markFailed find a row and save what they      *)
(* found without another look at it.                                        *)
TransitionsAllowed ==
  [][\A i \in DOMAIN payments :
       payments'[i].status # payments[i].status =>
         CanTransition(payments[i].status, payments'[i].status)]_payments

(* A delivery that passed the version check of markSuccess or markFailed    *)
(* for a payment, or would pass it now.                                     *)
MaySettle(h, i) ==
  \/ hook[h].pc = "load" /\ hook[h].payment = i /\ VersionMatches(i, hook[h].version)
  \/ hook[h].pc = "save" /\ hook[h].payment = i

SettledForGood(i) ==
  /\ payments[i].status \in {"success", "failed"}
  /\ \A h \in Hooks : ~MaySettle(h, i)

(* Only a delivery that came past the version check before a payment was    *)
(* settled can settle it a second time.  Once none of those is at work the  *)
(* payment keeps its status and its order whatever comes later, any number  *)
(* of late deliveries and of pay requests with old reads included.          *)
SettledIsFinal ==
  [][\A i \in DOMAIN payments :
       SettledForGood(i) =>
         /\ SettledForGood(i)'
         /\ payments'[i].status = payments[i].status
         /\ payments'[i].order = payments[i].order]_<<payments, hook>>

PaidForGood(b) ==
  /\ bookings[b].payment = "paid"
  /\ \A h \in Hooks : ~(hook[h].pc = "unpaid" /\ hook[h].booking = b)

(* Only a failure that read the booking before it was paid can take the     *)
(* payment back.  Once none of those is at work a paid booking stays paid,  *)
(* whatever events of earlier tries and earlier payments are delivered, any *)
(* number of them at once.                                                  *)
PaidIsFinal ==
  [][\A b \in DOMAIN bookings : PaidForGood(b) => PaidForGood(b)']_<<bookings, hook>>

(* Every captured order's booking is eventually paid.                       *)
CaptureIsApplied ==
  \A o \in Orders :
    (o \in DOMAIN orders /\ orders[o].paid)
      ~> (o \in DOMAIN orders /\ bookings[orders[o].booking].payment = "paid")

(* Once no delivery is at work, the booking of a successful payment is      *)
(* confirmed and paid.  A delivery that stops between the two breaks it:    *)
(* README, Observations.                                                    *)
SuccessReachesBooking ==
  (\A h \in Hooks : hook[h] = Free) =>
    \A i \in DOMAIN payments :
      payments[i].status = "success" =>
        bookings[payments[i].booking].payment = "paid"
=============================================================================
