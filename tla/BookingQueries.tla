---------------------------- MODULE BookingQueries ----------------------------
(***************************************************************************)
(* What a customer is shown of the booking tables while requests change    *)
(* them: the free slots of GET /shops/:id/availability and the two tabs of *)
(* GET /bookings.  Each query is one statement, so it is an operator on    *)
(* the committed rows of a state.  Labels, addresses and images are left   *)
(* out.                                                                    *)
(***************************************************************************)
EXTENDS Bookings, Openings, Paging

(* The query parameter "any" is no specialist's id; an instance has finitely*)
(* many bookings, so that one page may hold a list.                         *)
ASSUME QueriesAssumption == "any" \notin Staff /\ IsFiniteSet(BookingIds)

(* The SELECT of getTimeSlots, before its bounds of the day are applied.    *)
BookedItems(s) ==
  {[start |-> items[b].start, end |-> items[b].end, live |-> LiveItem(b)] :
     b \in {x \in DOMAIN items : items[x].staff = s}}

(* One row of the hours, on one date, for one specialist or, "any", none.   *)
GetAvailability(row, date, specialist) ==
  TimeSlots(row, date, IF specialist = "any" THEN {} ELSE BookedItems(specialist))

-----------------------------------------------------------------------------
(* Mutant of the next definition: bookings are upcoming once confirmed.     *)
TabFilterConfirmed(b, tab) ==
  (items[b].start >= now /\ bookings[b].status = "confirmed") <=> tab = "upcoming"

(* tabFilterSql, with NOW() the clock; scheduled_start is the item's start. *)
TabFilter(b, tab) ==
  (items[b].start >= now /\ bookings[b].status \in {"pending", "confirmed"})
    <=> tab = "upcoming"

(* toListItem: cancelled, or in the past without having been paid.          *)
Dimmed(b, tab) ==
  \/ bookings[b].status = "cancelled"
  \/ tab = "past" /\ bookings[b].status = "pending" /\ bookings[b].payment # "paid"

ListItem(b, tab) ==
  [id |-> b, tab |-> tab, reminder |-> bookings[b].reminder # 0,
   dimmed |-> Dimmed(b, tab)]

Later(a, b)   == items[a].start > items[b].start
Earlier(a, b) == items[a].start < items[b].start

(* A page of one tab: the soonest bookings first, or the latest past ones.  *)
(* Bookings of one start come in any order.                                 *)
ListForCustomer(c, tab, page, perPage) ==
  LET rows  == {b \in DOMAIN bookings : bookings[b].customer = c /\ TabFilter(b, tab)}
      lists == IF tab = "upcoming" THEN Orderings(rows, Later)
                                   ELSE Orderings(rows, Earlier)
      shown(q) == [i \in DOMAIN q |-> ListItem(q[i], tab)]
      total == Cardinality(rows)
  IN {[data |-> shown(PageOf(q, page, perPage)), total |-> total,
       totalPages |-> TotalPages(total, perPage)] : q \in lists}

ListedIn(c, tab) ==
  UNION {Range(answer.data) :
           answer \in ListForCustomer(c, tab, 1, Cardinality(BookingIds) + 1)}

-----------------------------------------------------------------------------
Dates == {span.start \div DayLength : span \in Spans}
           \cup {span.end \div DayLength : span \in Spans}

CrossesMidnight(b, date) ==
  items[b].start < date * DayLength \/ items[b].end > (date + 1) * DayLength

(* The slots a specialist is offered and the slot check of a create, which  *)
(* compares the sum of the services' durations from the start of a slot.    *)
(* A create that is not refused finds every slot inside its span offered.   *)
(* And when every slot that its span touches is offered, and it ends within *)
(* the shop's slots, only an item that crosses midnight can refuse it: the  *)
(* search keeps to the items inside the day, the check does not.  That the  *)
(* first slot is offered is not enough for services longer than a slot.     *)
OfferedMatchesCheck ==
  \A s \in Staff, date \in Dates, row \in {r \in HoursRow : r.day = 1} :
    LET slots   == GenerateSlots(row)
        offered == GetAvailability(row, date, s)
        at(x)   == date * DayLength + x
    IN \A t \in slots, d \in 1..DayLength :
         LET span    == [start |-> at(t), end |-> at(t + d)]
             inside  == {u \in slots : t <= u /\ u + SlotLength <= t + d}
             touched == {u \in slots : u < t + d /\ t < u + SlotLength}
         IN /\ ~IsSlotTaken(s, span) => inside \subseteq offered
            /\ touched \subseteq offered /\ (\E u \in slots : t + d <= u + SlotLength)
                 /\ IsSlotTaken(s, span)
                 => \E b \in DOMAIN items :
                      /\ items[b].staff = s /\ LiveItem(b)
                      /\ Overlaps(items[b], span) /\ CrossesMidnight(b, date)
=============================================================================
