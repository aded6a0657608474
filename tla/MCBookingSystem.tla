--------------------------- MODULE MCBookingSystem ---------------------------
(***************************************************************************)
(* Instances of the composed system for TLC.  A behaviour is about one of  *)
(* two things: "slots", bookings that compete for one slot with their      *)
(* payments and cancels, while the clock stands still before its start; or *)
(* "lists", one booking while the clock passes its start.                  *)
(***************************************************************************)
EXTENDS SystemQueries, TLC

VARIABLE focus

vars == <<systemVars, focus>>

MCSpans == {[start |-> 2, end |-> 4]}

Symmetric == Permutations(BookingIds) \cup Permutations(Procs)
              \cup Permutations(PaymentIds) \cup Permutations(Orders)
              \cup Permutations(PayProcs) \cup Permutations(Hooks)

InFocus ==
  \/ focus = "slots" /\ now = 0
  \/ focus = "lists" /\ \A S \in {DOMAIN bookings, DOMAIN payments, DOMAIN orders} :
                          Cardinality(S) <= 1

Init == SystemInit /\ focus \in {"slots", "lists"}

Next == SystemNext /\ UNCHANGED focus /\ InFocus'

SystemRun == Init /\ [][Next]_vars
=============================================================================
