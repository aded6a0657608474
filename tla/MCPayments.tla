----------------------------- MODULE MCPayments -----------------------------
(***************************************************************************)
(* Instances of Payments for TLC: one or two bookings that do not overlap, *)
(* concurrent pay requests and deliveries.                                 *)
(***************************************************************************)
EXTENDS Payments, TLC

MCSpans == {[start |-> 2, end |-> 4]}

Symmetric == Permutations(PaymentIds) \cup Permutations(Orders)
              \cup Permutations(PayProcs) \cup Permutations(Hooks)
=============================================================================
