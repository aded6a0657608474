----------------------------- MODULE BookingRows -----------------------------
(***************************************************************************)
(* The Postgres rows every flow of the booking core reads and writes:      *)
(* bookings, booking_items, booking_timeline, and the message_logs that    *)
(* the flows ask the messaging module to create.                           *)
(*                                                                         *)
(* A booking's items are written together and always for one specialist,   *)
(* back to back, so they are kept as one item row per booking holding the  *)
(* specialist, the span [start, end) and the item status.  The booking's   *)
(* scheduled_start and scheduled_end are that span and are never updated.  *)
(* No code writes in_progress, completed or no_show, so these statuses     *)
(* never occur.  Row versions of bookings are left out: no query reads     *)
(* them.  Timeline rows are kept per booking as the set of their kinds.    *)
(***************************************************************************)
EXTENDS Integers, FiniteSets

CONSTANTS
  BookingIds,       \* the primary keys an instance may use
  Customers,
  Staff,            \* the specialists of one shop
  Spans,            \* the time spans a request may ask for
  ReminderOptions,  \* how long before the start a reminder fires
  Crashes           \* whether a request may stop between two calls

ASSUME SpansAssumption ==
  /\ Spans \subseteq [start : Nat, end : Nat]
  /\ \A s \in Spans : s.start < s.end

ASSUME CrashesAssumption == Crashes \in BOOLEAN

ASSUME ReminderOptionsAssumption == ReminderOptions \subseteq Nat \ {0}

VARIABLES
  bookings,   \* id -> row, for the ids inserted so far
  items,      \* id -> the booking's item row, same ids
  timeline,   \* id -> kinds of timeline rows
  messages    \* <<id, template>> message logs created by the dispatchers

rowVars == <<bookings, items, timeline, messages>>

(* reminder = 0 is reminder_enabled = false with no option, which the      *)
(* check constraint of V16 ties together.                                  *)
BookingRow ==
  [customer : Customers,
   status   : {"pending", "confirmed", "cancelled"},
   payment  : {"pending", "paid", "failed"},
   reminder : ReminderOptions \cup {0}]

ItemRow ==
  [staff  : Staff,
   start  : Nat,
   end    : Nat,
   status : {"pending", "confirmed", "cancelled"}]

TimelineEvents == {"created", "confirmed", "cancelled"}

Templates == {"confirmation", "cancellation", "reminder"}

RowsInit ==
  /\ bookings = [b \in {} |-> {}]
  /\ items = [b \in {} |-> {}]
  /\ timeline = [b \in BookingIds |-> {}]
  /\ messages = {}

RowsTypeOK ==
  /\ DOMAIN bookings \subseteq BookingIds
  /\ bookings \in [DOMAIN bookings -> BookingRow]
  /\ items \in [DOMAIN bookings -> ItemRow]
  /\ timeline \in [BookingIds -> SUBSET TimelineEvents]
  /\ messages \subseteq BookingIds \X Templates

-----------------------------------------------------------------------------
(* Half-open spans, as tstzrange(start, end, '[)') && and as the pair of    *)
(* comparisons of the two queries below.                                    *)
Overlaps(x, y) == x.start < y.end /\ x.end > y.start

(* The rows the partial predicates "NOT IN ('cancelled', 'no_show')" keep.  *)
LiveItem(b) == items[b].status # "cancelled"

(* SELECT of the slot check: some live item of the specialist overlaps.     *)
IsSlotTaken(s, span) ==
  \E b \in DOMAIN items :
    items[b].staff = s /\ Overlaps(items[b], span) /\ LiveItem(b)

(* SELECT of the double-booking check: by the booking's own status.         *)
HasDoubleBooking(c, span) ==
  \E b \in DOMAIN bookings :
    /\ bookings[b].customer = c
    /\ Overlaps(items[b], span)
    /\ bookings[b].status # "cancelled"

(* Mutants of the next definition: no constraint, as before V14, and one    *)
(* that only compares the starts.                                           *)
ExclusionMissing(b, s, span) == FALSE
ExclusionOnStart(b, s, span) ==
  \E x \in DOMAIN items \ {b} :
    items[x].staff = s /\ LiveItem(x) /\ items[x].start = span.start

(* SQLSTATE 23P01: writing a live item row for b would break the exclusion  *)
(* constraint excl_booking_items_staff_overlap.                             *)
ExclusionViolated(b, s, span) ==
  \E x \in DOMAIN items \ {b} :
    items[x].staff = s /\ LiveItem(x) /\ Overlaps(items[x], span)

(* Mutant of the next definition: a timeline kind the table refuses.        *)
InsertBookingAsBooked(b, c, s, span) ==
  LET ids == DOMAIN bookings \cup {b}
  IN /\ bookings' = [x \in ids |->
          IF x = b THEN [customer |-> c, status |-> "pending",
                         payment |-> "pending", reminder |-> 0]
                   ELSE bookings[x]]
     /\ items' = [x \in ids |->
          IF x = b THEN [staff |-> s, start |-> span.start, end |-> span.end,
                         status |-> "pending"]
                   ELSE items[x]]
     /\ timeline' = [timeline EXCEPT ![b] = @ \cup {"booked"}]

(* The INSERTs of the create transaction, committed together.               *)
InsertBooking(b, c, s, span) ==
  LET ids == DOMAIN bookings \cup {b}
      row  == [customer |-> c, status |-> "pending", payment |-> "pending",
               reminder |-> 0]
      item == [staff |-> s, start |-> span.start, end |-> span.end,
               status |-> "pending"]
  IN /\ bookings' = [x \in ids |-> IF x = b THEN row ELSE bookings[x]]
     /\ items' = [x \in ids |-> IF x = b THEN item ELSE items[x]]
     /\ timeline' = [timeline EXCEPT ![b] = @ \cup {"created"}]

(* The live items as reservations of a calendar.                            *)
Reservations ==
  {[id |-> b, staff |-> items[b].staff, start |-> items[b].start,
    end |-> items[b].end] : b \in {x \in DOMAIN items : LiveItem(x)}}

Calendar == INSTANCE SlotCalendar WITH held <- Reservations

(* The booking tables implement the calendar: a slot is taken only in a     *)
(* step that finds it free in the committed rows, whichever request or      *)
(* webhook takes it and whatever it read before.                            *)
SlotsAreReserved == Calendar!Spec

(* A dispatcher creates the message log, or fails and the caller goes on.   *)
Dispatch(b, template) ==
  \/ messages' = messages \cup {<<b, template>>}
  \/ UNCHANGED messages
=============================================================================
