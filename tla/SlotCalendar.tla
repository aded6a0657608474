----------------------------- MODULE SlotCalendar -----------------------------
(***************************************************************************)
(* What the booking tables promise about specialists' time, without        *)
(* requests, statuses or payments: a calendar in which a slot is reserved  *)
(* only while it is free, and released.  A released booking may reserve    *)
(* again.                                                                  *)
(***************************************************************************)
EXTENDS Integers

CONSTANTS BookingIds, Staff, Spans

VARIABLE held   \* the reservations: [id, staff, start, end]

Clash(r, q) == r.staff = q.staff /\ r.start < q.end /\ r.end > q.start

Reserve(b) ==
  /\ \A q \in held : q.id # b
  /\ \E s \in Staff, span \in Spans :
       LET r == [id |-> b, staff |-> s, start |-> span.start, end |-> span.end]
       IN /\ \A q \in held : ~Clash(r, q)
          /\ held' = held \cup {r}

Release(b) ==
  /\ \E q \in held : q.id = b
  /\ held' = {q \in held : q.id # b}

CalendarInit == held = {}

CalendarNext == \E b \in BookingIds : Reserve(b) \/ Release(b)

Spec == CalendarInit /\ [][CalendarNext]_held
=============================================================================
