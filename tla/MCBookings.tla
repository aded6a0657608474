----------------------------- MODULE MCBookings -----------------------------
(***************************************************************************)
(* Instances of Bookings for TLC: small sets, spans that overlap, a clock  *)
(* that runs past the first start.                                         *)
(***************************************************************************)
EXTENDS BookingQueries, TLC

MCSpans == {[start |-> 2, end |-> 4], [start |-> 3, end |-> 5]}
MCOneSpan == {[start |-> 2, end |-> 4]}

Symmetric == Permutations(BookingIds) \cup Permutations(Procs)
              \cup Permutations(Customers) \cup Permutations(Staff)
=============================================================================
