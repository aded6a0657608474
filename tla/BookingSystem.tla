---------------------------- MODULE BookingSystem ----------------------------
(***************************************************************************)
(* The booking requests, the reminder queue and the payment flow over the  *)
(* same rows.  Nothing but those rows orders them: a cancel, a reminder    *)
(* update and a late payment event of one booking interleave freely.       *)
(***************************************************************************)
EXTENDS Bookings, Payments

paymentFlowVars == <<payments, recorded, gatewayVars, pay, hook>>
systemVars == <<rowVars, queueVars, req, paymentFlowVars>>

SystemInit == BookingsInit /\ PaymentsStateInit

SystemNext ==
  \/ BookingsNext /\ UNCHANGED paymentFlowVars
  \/ PaymentsNext /\ UNCHANGED <<queueVars, req>>

SystemSpec == SystemInit /\ [][SystemNext]_systemVars

-----------------------------------------------------------------------------
SystemTypeOK == BookingsTypeOK /\ PaymentsStateTypeOK

(* A cancelled booking keeps its slot only when the gateway captured money  *)
(* for it: nothing else turns its items live again, neither a late write of *)
(* a row read before the cancel nor a failed payment.                       *)
ReleasedUnlessCaptured ==
  \A b \in DOMAIN bookings :
    (bookings[b].status = "cancelled" /\ ~Captured(b))
      => items[b].status = "cancelled"

(* Two confirmed bookings never have the same specialist at the same time.  *)
NoConfirmedOverlap ==
  \A a, b \in DOMAIN bookings :
    /\ a # b
    /\ bookings[a].status = "confirmed"
    /\ bookings[b].status = "confirmed"
    /\ items[a].staff = items[b].staff
    => ~Overlaps(items[a], items[b])
=============================================================================
