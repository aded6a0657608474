---------------------------- MODULE SystemQueries ----------------------------
(***************************************************************************)
(* The two tabs of GET /bookings over rows that the booking requests, the  *)
(* payments and their webhooks write: what a customer is told of a booking *)
(* is compared with what may be done with it, and with the money taken.    *)
(***************************************************************************)
EXTENDS BookingSystem, BookingQueries

(* A booking that a cancel would accept, and one that is not cancelled and  *)
(* whose reminder may still be set, is among the customer's upcoming ones,  *)
(* not dimmed, and in no other list.  One shown dimmed holds none of the    *)
(* specialist's time to come, unless its payment was captured: a late       *)
(* capture takes the items of a cancelled booking again.  One shown in the  *)
(* past without being dimmed was paid for.                                  *)
ActionableIsUpcoming ==
  \A b \in DOMAIN bookings :
    LET c    == bookings[b].customer
        past == ListedIn(c, "past")
    IN /\ (/\ bookings[b].status # "cancelled"
           /\ now + CancelMinHours <= items[b].start \/ now < items[b].start)
            => /\ ListItem(b, "upcoming") \in ListedIn(c, "upcoming")
               /\ ~ListItem(b, "upcoming").dimmed
               /\ \A x \in past : x.id # b
       /\ \A x \in ListedIn(c, "upcoming") \cup past :
            x.id = b /\ x.dimmed
              => items[b].start < now \/ ~LiveItem(b) \/ Captured(b)
       /\ \A x \in past : x.id = b /\ ~x.dimmed => Captured(b)
=============================================================================
