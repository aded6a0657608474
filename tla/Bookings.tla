------------------------------- MODULE Bookings -------------------------------
(***************************************************************************)
(* The booking requests of BookingsService: POST /bookings, PATCH          *)
(* /bookings/:id/reminder and DELETE /bookings/:id.  Each request is a     *)
(* process that runs one database or queue call per step, so that the      *)
(* steps of concurrent requests interleave; what a request has read and    *)
(* still uses is kept in req[p].  Requests that fail validation before     *)
(* their first read (unknown specialist, payment method, services or       *)
(* option) change nothing and are not enumerated.  A request may stop      *)
(* between two calls: a crash, a lost connection, an error that is         *)
(* answered with a 500.                                                    *)
(***************************************************************************)
EXTENDS ReminderQueue

CONSTANTS
  Procs,            \* bound on concurrent booking requests
  CancelMinHours    \* booking.cancelMinHoursBefore, 2 by default

ASSUME CancelAssumption == CancelMinHours \in Nat

VARIABLES req       \* p -> what request p does and what it has read

bookingsVars == <<rowVars, queueVars, req>>

Idle == [pc |-> "idle"]

Request ==
  [pc : {"idle"}]
  \cup [pc : {"checkDouble", "insert"},
        customer : Customers, staff : Staff, span : Spans]
  \cup [pc : {"saveReminder"}, booking : BookingIds, row : BookingRow]
  \cup [pc : {"writeReminder"}, booking : BookingIds, row : BookingRow,
        dirty : SUBSET {"status", "payment", "reminder"}]
  \cup [pc : {"schedule"}, booking : BookingIds,
        option : ReminderOptions \cup {0}]
  \cup [pc : {"dropJob"}, booking : BookingIds, delay : Int, asked : Nat]
  \cup [pc : {"addJob"}, booking : BookingIds, delay : Nat \ {0}, asked : Nat]
  \cup [pc : {"cancel", "dropCancelled", "notify"}, booking : BookingIds]

RequestsInit == req = [p \in Procs |-> Idle]

(* The rows a request works on exist: no row is ever deleted.               *)
RequestsTypeOK ==
  /\ req \in [Procs -> Request]
  /\ \A p \in Procs :
       req[p].pc \notin {"idle", "checkDouble", "insert"}
         => req[p].booking \in DOMAIN bookings

Become(p, r) == req' = [req EXCEPT ![p] = r]
GoTo(p, l)   == req' = [req EXCEPT ![p].pc = l]
Return(p)    == Become(p, Idle)

-----------------------------------------------------------------------------
(* createBooking, up to its slot check; a taken slot is rejected and leaves *)
(* nothing behind.                                                          *)
CreateCheckSlot(p) ==
  /\ req[p] = Idle
  /\ \E c \in Customers, s \in Staff, span \in Spans :
       /\ ~IsSlotTaken(s, span)
       /\ Become(p, [pc |-> "checkDouble",
                     customer |-> c, staff |-> s, span |-> span])
  /\ UNCHANGED <<rowVars, queueVars>>

CreateCheckDouble(p) ==
  /\ req[p].pc = "checkDouble"
  /\ IF HasDoubleBooking(req[p].customer, req[p].span)
     THEN Return(p)
     ELSE GoTo(p, "insert")
  /\ UNCHANGED <<rowVars, queueVars>>

(* The create transaction: the rows, or 23P01 answered with a conflict.     *)
CreateInsert(p) ==
  /\ req[p].pc = "insert"
  /\ \E b \in BookingIds \ DOMAIN bookings :
       IF ExclusionViolated(b, req[p].staff, req[p].span)
       THEN UNCHANGED rowVars
       ELSE /\ InsertBooking(b, req[p].customer, req[p].staff, req[p].span)
            /\ UNCHANGED messages
  /\ Return(p)
  /\ UNCHANGED queueVars

-----------------------------------------------------------------------------
(* updateReminder reads the row (its first read only uses columns that      *)
(* never change), refuses a past appointment and sets the option on the     *)
(* entity it read; 0 asks to disable.                                       *)
ReminderRead(p) ==
  /\ req[p] = Idle
  /\ \E b \in DOMAIN bookings, o \in ReminderOptions \cup {0} :
       /\ now < items[b].start
       /\ Become(p, [pc |-> "saveReminder", booking |-> b,
                     row |-> [bookings[b] EXCEPT !.reminder = o]])
  /\ UNCHANGED <<rowVars, queueVars>>

(* save() reads the row once more, to find the columns in which the entity  *)
(* differs from it ...                                                      *)
ReminderDiff(p) ==
  LET b == req[p].booking
      row == req[p].row
  IN /\ req[p].pc = "saveReminder"
     /\ Become(p, [pc |-> "writeReminder", booking |-> b, row |-> row,
                   dirty |-> {c \in {"status", "payment", "reminder"} :
                                row[c] # bookings[b][c]}])
     /\ UNCHANGED <<rowVars, queueVars>>

(* ... and writes the entity's value of those.                              *)
ReminderSave(p) ==
  LET b == req[p].booking
      row == req[p].row
      dirty == req[p].dirty
  IN /\ req[p].pc = "writeReminder"
     /\ bookings' = [bookings EXCEPT
          ![b].status   = IF "status" \in dirty THEN row.status ELSE @,
          ![b].payment  = IF "payment" \in dirty THEN row.payment ELSE @,
          ![b].reminder = IF "reminder" \in dirty THEN row.reminder ELSE @]
     /\ Become(p, [pc |-> "schedule", booking |-> b, option |-> row.reminder])
     /\ UNCHANGED <<items, timeline, messages, queueVars>>

(* The save has returned: scheduleReminder takes the delay from the clock;  *)
(* a request that disables goes to cancelReminder with nothing to add.      *)
ReminderDelay(p) ==
  LET b == req[p].booking
      option == req[p].option
  IN /\ req[p].pc = "schedule"
     /\ Become(p, [pc |-> "dropJob", booking |-> b, asked |-> now,
                   delay |-> IF option = 0 THEN 0 ELSE FireAt(b, option) - now])
     /\ UNCHANGED <<rowVars, queueVars>>

(* cancelReminder, on its own or as the first call of scheduleReminder,     *)
(* which stops here when the reminder was due already.                      *)
ReminderDropJob(p) ==
  /\ req[p].pc = "dropJob"
  /\ IF JobLocked(req[p].booking)
     THEN Return(p) /\ UNCHANGED jobs
     ELSE /\ RemoveJob(req[p].booking)
          /\ IF req[p].delay > 0 THEN GoTo(p, "addJob") ELSE Return(p)
  /\ UNCHANGED <<rowVars, now>>

(* The delay counts from here, whenever it was computed.                    *)
ReminderAddJob(p) ==
  /\ req[p].pc = "addJob"
  /\ AddJob(req[p].booking, req[p].delay, req[p].asked)
  /\ Return(p)
  /\ UNCHANGED <<rowVars, now>>

-----------------------------------------------------------------------------
(* cancelBooking: ownership, status and window are checked on a plain read. *)
CancelRead(p) ==
  /\ req[p] = Idle
  /\ \E b \in DOMAIN bookings :
       /\ bookings[b].status # "cancelled"
       /\ now + CancelMinHours <= items[b].start
       /\ Become(p, [pc |-> "cancel", booking |-> b])
  /\ UNCHANGED <<rowVars, queueVars>>

(* Mutants of the next definition: the items keep their status; the         *)
(* timeline row is forgotten.                                               *)
CancelCommitKeepsItems(p) ==
  LET b == req[p].booking
  IN /\ req[p].pc = "cancel"
     /\ bookings' = [bookings EXCEPT ![b].status = "cancelled",
                                     ![b].reminder = 0]
     /\ timeline' = [timeline EXCEPT ![b] = @ \cup {"cancelled"}]
     /\ GoTo(p, "dropCancelled")
     /\ UNCHANGED <<items, messages, queueVars>>
CancelCommitUnlogged(p) ==
  LET b == req[p].booking
  IN /\ req[p].pc = "cancel"
     /\ bookings' = [bookings EXCEPT ![b].status = "cancelled",
                                     ![b].reminder = 0]
     /\ items' = [items EXCEPT ![b].status = "cancelled"]
     /\ GoTo(p, "dropCancelled")
     /\ UNCHANGED <<timeline, messages, queueVars>>

(* The cancel transaction locks the row and does not look at its status.    *)
CancelCommit(p) ==
  LET b == req[p].booking
  IN /\ req[p].pc = "cancel"
     /\ bookings' = [bookings EXCEPT ![b].status = "cancelled",
                                     ![b].reminder = 0]
     /\ items' = [items EXCEPT ![b].status = "cancelled"]
     /\ timeline' = [timeline EXCEPT ![b] = @ \cup {"cancelled"}]
     /\ GoTo(p, "dropCancelled")
     /\ UNCHANGED <<messages, queueVars>>

(* cancelReminder is outside any try block: a locked job ends the request.  *)
CancelDropJob(p) ==
  /\ req[p].pc = "dropCancelled"
  /\ IF JobLocked(req[p].booking)
     THEN Return(p) /\ UNCHANGED jobs
     ELSE RemoveJob(req[p].booking) /\ GoTo(p, "notify")
  /\ UNCHANGED <<rowVars, now>>

CancelNotify(p) ==
  /\ req[p].pc = "notify"
  /\ Dispatch(req[p].booking, "cancellation")
  /\ Return(p)
  /\ UNCHANGED <<bookings, items, timeline, queueVars>>

-----------------------------------------------------------------------------
(* The request ends between two calls; what it has committed stays.         *)
Abort(p) ==
  /\ Crashes
  /\ req[p] # Idle
  /\ Return(p)
  /\ UNCHANGED <<rowVars, queueVars>>

Advance(p) ==
  \/ CreateCheckDouble(p) \/ CreateInsert(p)
  \/ ReminderDiff(p) \/ ReminderSave(p) \/ ReminderDelay(p)
  \/ ReminderDropJob(p) \/ ReminderAddJob(p)
  \/ CancelCommit(p) \/ CancelDropJob(p) \/ CancelNotify(p)

Arrive(p) == CreateCheckSlot(p) \/ ReminderRead(p) \/ CancelRead(p)

BookingsInit == RowsInit /\ QueueInit /\ RequestsInit

RequestsNext == \E p \in Procs : Arrive(p) \/ Advance(p) \/ Abort(p)

BookingsNext == RequestsNext \/ (QueueNext /\ UNCHANGED req)

BookingsSpec == BookingsInit /\ [][BookingsNext]_bookingsVars

(* Workers poll their queue for as long as the service runs, and the clock  *)
(* does not stop.  Nothing is assumed of the requests.                      *)
BookingsFairSpec ==
  BookingsSpec /\ WF_bookingsVars(Tick /\ UNCHANGED req)
               /\ \A b \in BookingIds :
                    WF_bookingsVars(Worker(b) /\ UNCHANGED req)

-----------------------------------------------------------------------------
BookingsTypeOK == RowsTypeOK /\ QueueTypeOK /\ RequestsTypeOK

(* A specialist never has two live items at the same time, however the      *)
(* slot checks of concurrent requests interleave with their inserts.        *)
NoStaffOverlap ==
  \A a, b \in DOMAIN items :
    (a # b /\ items[a].staff = items[b].staff /\ LiveItem(a) /\ LiveItem(b))
      => ~Overlaps(items[a], items[b])

(* A customer never has two bookings at the same time that are not          *)
(* cancelled (the DOUBLE_BOOKING answer of createBooking).  Two creates at  *)
(* once break it: README, Observations.                                     *)
NoCustomerOverlap ==
  \A a, b \in DOMAIN bookings :
    /\ a # b
    /\ bookings[a].customer = bookings[b].customer
    /\ bookings[a].status # "cancelled"
    /\ bookings[b].status # "cancelled"
    => ~Overlaps(items[a], items[b])

(* A cancelled booking has given its slot back, even when a request that    *)
(* read the row earlier writes all its columns afterwards.                  *)
CancelledIsReleased ==
  \A b \in DOMAIN bookings :
    bookings[b].status = "cancelled" => items[b].status = "cancelled"

(* What the customer is told and what the slot search sees was decided by a *)
(* committed cancel: a cancellation message, a cancelled status and a       *)
(* released item each have their timeline row.                              *)
CancellationOnRecord ==
  \A b \in BookingIds :
    \/ <<b, "cancellation">> \in messages
    \/ b \in DOMAIN bookings /\ "cancelled" \in {bookings[b].status,
                                                 items[b].status}
    => "cancelled" \in timeline[b]

(* A booking once cancelled stays cancelled.                                *)
CancellationIsFinal ==
  [][\A b \in DOMAIN bookings :
       bookings[b].status = "cancelled" => bookings'[b].status = "cancelled"]_bookings

(* Cancelling a booking cancels its reminder too: once no request works on  *)
(* a cancelled booking that has its reminder off, none is waiting to fire.  *)
(* A cancel while the worker holds the job breaks it: README, Observations. *)
CancelledHasNoReminder ==
  \A b \in DOMAIN bookings :
    /\ bookings[b].status = "cancelled"
    /\ bookings[b].reminder = 0
    /\ \A p \in Procs : req[p] = Idle
    => jobs[b].state # "scheduled"

(* A reminder keeps the lead its customer asked for: it is never due early, *)
(* and late by no more than the time its request spent between computing    *)
(* the delay and adding the job, however requests replace each other's jobs *)
(* meanwhile.  It is due before the appointment unless that time used up    *)
(* the whole lead: README, Observations.                                    *)
ReminderKeepsLead ==
  \A b \in BookingIds :
    LET job == jobs[b]
    IN job.state # "none" =>
         /\ b \in DOMAIN items
         /\ job.asked <= job.timestamp
         /\ \E o \in ReminderOptions :
              /\ job.asked < items[b].start - o
              /\ Due(b) = (items[b].start - o) + (job.timestamp - job.asked)

(* The retries of a reminder that falls due come to an end.                 *)
ReminderSettles ==
  \A b \in BookingIds :
    (\/ jobs[b].state = "active"
     \/ jobs[b].state = "scheduled" /\ Due(b) <= MaxTime)
      ~> jobs[b].state \in {"none", "failed"}
=============================================================================
