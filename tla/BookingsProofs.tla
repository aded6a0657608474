--------------------------- MODULE BookingsProofs ---------------------------
(***************************************************************************)
(* Type correctness and safety of the booking requests for every number of *)
(* bookings, customers, specialists and concurrent requests.               *)
(***************************************************************************)
EXTENDS Bookings, TLAPS

(* What a request may hold is given by its program counter. *)
LEMMA RequestKinds ==
  ASSUME NEW r \in Request
  PROVE  /\ r.pc \in {"checkDouble", "insert"} =>
              r \in [pc : {"checkDouble", "insert"},
                     customer : Customers, staff : Staff, span : Spans]
         /\ r.pc = "saveReminder" =>
              r \in [pc : {"saveReminder"}, booking : BookingIds,
                     row : BookingRow]
         /\ r.pc = "writeReminder" =>
              r \in [pc : {"writeReminder"}, booking : BookingIds,
                     row : BookingRow,
                     dirty : SUBSET {"status", "payment", "reminder"}]
         /\ r.pc = "schedule" =>
              r \in [pc : {"schedule"}, booking : BookingIds,
                     option : ReminderOptions \cup {0}]
         /\ r.pc = "dropJob" =>
              r \in [pc : {"dropJob"}, booking : BookingIds,
                     delay : Int, asked : Nat]
         /\ r.pc = "addJob" =>
              r \in [pc : {"addJob"}, booking : BookingIds,
                     delay : Nat \ {0}, asked : Nat]
         /\ r.pc \in {"cancel", "dropCancelled", "notify"} =>
              r \in [pc : {"cancel", "dropCancelled", "notify"},
                     booking : BookingIds]
  BY DEF Request

(* The steps of createBooking keep rows, jobs and requests well-formed. *)
LEMMA TypeCreate ==
  ASSUME BookingsTypeOK, NEW p \in Procs,
         CreateCheckSlot(p) \/ CreateCheckDouble(p) \/ CreateInsert(p)
  PROVE  BookingsTypeOK'
<1> USE DEF BookingsTypeOK, RequestsTypeOK, QueueTypeOK, rowVars, queueVars
<1>1. CASE CreateCheckSlot(p)
  <2>1. RowsTypeOK' BY <1>1 DEF CreateCheckSlot, RowsTypeOK
  <2>2. RequestsTypeOK' BY <1>1 DEF CreateCheckSlot, Become, Request
  <2> QED BY <1>1, <2>1, <2>2 DEF CreateCheckSlot
<1>2. CASE CreateCheckDouble(p)
  <2>1. RowsTypeOK' BY <1>2 DEF CreateCheckDouble, RowsTypeOK
  <2>2. req[p] \in [pc : {"checkDouble", "insert"},
                    customer : Customers, staff : Staff, span : Spans]
    BY <1>2, RequestKinds DEF CreateCheckDouble
  <2>3. RequestsTypeOK'
    BY <1>2, <2>2 DEF CreateCheckDouble, Return, GoTo, Become, Idle, Request
  <2> QED BY <1>2, <2>1, <2>3 DEF CreateCheckDouble
<1>3. CASE CreateInsert(p)
  <2>2. req[p] \in [pc : {"checkDouble", "insert"},
                    customer : Customers, staff : Staff, span : Spans]
    BY <1>3, RequestKinds DEF CreateInsert
  <2>3. RequestsTypeOK'
    <3>1. req' \in [Procs -> Request] /\ req' = [req EXCEPT ![p] = Idle]
      BY <1>3 DEF CreateInsert, Return, Become, Idle, Request
    <3>2. DOMAIN bookings \subseteq DOMAIN bookings'
      BY <1>3 DEF CreateInsert, InsertBooking
    <3> QED BY <3>1, <3>2 DEF Idle
  <2>1. RowsTypeOK'
    BY SMTT(60), <1>3, <2>2, SpansAssumption
    DEF CreateInsert, RowsTypeOK, InsertBooking, BookingRow, ItemRow,
        TimelineEvents
  <2> QED BY <1>3, <2>1, <2>3 DEF CreateInsert
<1> QED BY <1>1, <1>2, <1>3

(* The late write of a reminder: each column of the row is the one it has   *)
(* or the one of the row that was read.                                     *)
LEMMA SavedRow ==
  ASSUME RowsTypeOK, NEW p \in Procs, ReminderSave(p), NEW b, b = req[p].booking
  PROVE  /\ UNCHANGED <<items, timeline, messages>>
         /\ bookings' = [x \in DOMAIN bookings |-> bookings'[x]]
         /\ \A x \in DOMAIN bookings \ {b} : bookings'[x] = bookings[x]
         /\ b \in DOMAIN bookings =>
              /\ bookings'[b].status \in {bookings[b].status, req[p].row.status}
              /\ bookings'[b].payment \in {bookings[b].payment, req[p].row.payment}
              /\ req[p].row \in BookingRow => bookings'[b] \in BookingRow
<1> DEFINE row == req[p].row
           old == bookings[b]
           s == IF "status" \in req[p].dirty THEN row.status ELSE old.status
           y == IF "payment" \in req[p].dirty THEN row.payment ELSE old.payment
           o == IF "reminder" \in req[p].dirty THEN row.reminder ELSE old.reminder
           new == [[[old EXCEPT !.status = s] EXCEPT !.payment = y] EXCEPT !.reminder = o]
<1>1. UNCHANGED <<items, timeline, messages>>
  BY DEF ReminderSave
<1>2. b \in DOMAIN bookings => old \in BookingRow
  BY DEF RowsTypeOK
<1>3. ASSUME b \in DOMAIN bookings
      PROVE  bookings' = [bookings EXCEPT ![b] = new]
  <2>1. old \in [customer : Customers, status : {"pending", "confirmed", "cancelled"},
                 payment : {"pending", "paid", "failed"},
                 reminder : ReminderOptions \cup {0}]
    BY <1>2, <1>3 DEF BookingRow
  <2> DEFINE f1 == [bookings EXCEPT ![b].status = s]
             f2 == [f1 EXCEPT ![b].payment = IF "payment" \in req[p].dirty
                                             THEN row.payment ELSE @]
             f3 == [f2 EXCEPT ![b].reminder = IF "reminder" \in req[p].dirty
                                              THEN row.reminder ELSE @]
  <2>2. bookings' = f3
    BY ZenonT(60) DEF ReminderSave
  <2>3. f1 = [bookings EXCEPT ![b] = [old EXCEPT !.status = s]]
    OBVIOUS
  <2> HIDE DEF f1, s
  <2>4. f1[b].payment = old.payment /\ f1[b].reminder = old.reminder
        /\ f1[b] = [old EXCEPT !.status = s]
    BY <1>3, <2>1, <2>3
  <2>5. f2 = [f1 EXCEPT ![b] = [f1[b] EXCEPT !.payment = y]]
    BY <2>4
  <2> HIDE DEF f2, y
  <2>6. /\ f2 = [bookings EXCEPT ![b] = [[old EXCEPT !.status = s] EXCEPT !.payment = y]]
    BY <1>3, <2>3, <2>4, <2>5
  <2>7. f2[b].reminder = old.reminder
    BY <1>3, <2>1, <2>6
  <2>8. f3 = [f2 EXCEPT ![b] = [f2[b] EXCEPT !.reminder = o]]
    BY <2>7
  <2> HIDE DEF f3, o
  <2> QED BY <1>3, <2>2, <2>6, <2>8
<1>4. ASSUME b \in DOMAIN bookings
      PROVE  new = [customer |-> old.customer, status |-> s, payment |-> y, reminder |-> o]
  <2> DEFINE r1 == [old EXCEPT !.status = s]
             r2 == [r1 EXCEPT !.payment = y]
             r3 == [r2 EXCEPT !.reminder = o]
  <2>1. old \in [customer : Customers, status : {"pending", "confirmed", "cancelled"},
                 payment : {"pending", "paid", "failed"},
                 reminder : ReminderOptions \cup {0}]
    BY <1>2, <1>4 DEF BookingRow
  <2> HIDE DEF s, y, o, old
  <2>2. r1 = [customer |-> old.customer, status |-> s, payment |-> old.payment,
              reminder |-> old.reminder]
    BY <2>1
  <2> HIDE DEF r1
  <2>3. r2 = [customer |-> old.customer, status |-> s, payment |-> y,
              reminder |-> old.reminder]
    BY <2>2
  <2> HIDE DEF r2
  <2>4. r3 = [customer |-> old.customer, status |-> s, payment |-> y, reminder |-> o]
    BY <2>3
  <2> QED BY <2>4 DEF r1, r2
<1>5. /\ s \in {old.status, row.status} /\ y \in {old.payment, row.payment}
      /\ o \in {old.reminder, row.reminder}
  OBVIOUS
<1>6. ASSUME b \notin DOMAIN bookings
      PROVE  bookings' = bookings
  BY <1>6 DEF ReminderSave, RowsTypeOK
<1>7. /\ bookings' = [x \in DOMAIN bookings |-> bookings'[x]]
      /\ \A x \in DOMAIN bookings \ {b} : bookings'[x] = bookings[x]
      /\ b \in DOMAIN bookings => bookings'[b] = new
  <2> HIDE DEF new
  <2> QED BY <1>3, <1>6 DEF RowsTypeOK
<1>8. ASSUME b \in DOMAIN bookings
      PROVE  /\ bookings'[b].status = s /\ bookings'[b].payment = y
             /\ row \in BookingRow => bookings'[b] \in BookingRow
  <2>1. bookings'[b] = [customer |-> old.customer, status |-> s, payment |-> y,
                        reminder |-> o]
    BY <1>4, <1>7, <1>8
  <2>2. old \in BookingRow
    BY <1>2, <1>8
  <2> HIDE DEF s, y, o, old, row
  <2> QED BY <1>5, <2>1, <2>2 DEF BookingRow
<1> QED
  <2> HIDE DEF s, y
  <2> QED BY <1>1, <1>5, <1>7, <1>8

(* So do those of updateReminder; a job it schedules has a positive delay. *)
LEMMA TypeReminder ==
  ASSUME BookingsTypeOK, NEW p \in Procs,
         \/ ReminderRead(p) \/ ReminderDiff(p) \/ ReminderSave(p)
         \/ ReminderDelay(p) \/ ReminderDropJob(p) \/ ReminderAddJob(p)
  PROVE  BookingsTypeOK'
<1> USE DEF BookingsTypeOK, RequestsTypeOK, QueueTypeOK, rowVars, queueVars
<1>1. CASE ReminderRead(p)
  <2>1. RowsTypeOK' BY <1>1 DEF ReminderRead, RowsTypeOK
  <2>2. PICK b \in DOMAIN bookings, o \in ReminderOptions \cup {0} :
          Become(p, [pc |-> "saveReminder", booking |-> b,
                     row |-> [bookings[b] EXCEPT !.reminder = o]])
    BY <1>1 DEF ReminderRead
  <2>3. [bookings[b] EXCEPT !.reminder = o] \in BookingRow
    BY SMTT(60) DEF RowsTypeOK, BookingRow
  <2>4. RequestsTypeOK'
    BY <1>1, <2>2, <2>3 DEF ReminderRead, RowsTypeOK, Become, Request
  <2> QED BY <1>1, <2>1, <2>4 DEF ReminderRead
<1>2. CASE ReminderSave(p)
  <2>1. req[p] \in [pc : {"writeReminder"}, booking : BookingIds,
                    row : BookingRow,
                    dirty : SUBSET {"status", "payment", "reminder"}]
    BY <1>2, RequestKinds DEF ReminderSave
  <2>2. req[p].row.reminder \in ReminderOptions \cup {0}
    BY <2>1 DEF BookingRow
  <2>5. DOMAIN bookings' = DOMAIN bookings /\ bookings' \in [DOMAIN bookings -> BookingRow]
    <3>1. req[p].row \in BookingRow /\ req[p].booking \in DOMAIN bookings
      BY <1>2, <2>1 DEF ReminderSave
    <3>2. \A x \in DOMAIN bookings : bookings[x] \in BookingRow
      BY DEF RowsTypeOK
    <3>3. /\ bookings' = [x \in DOMAIN bookings |-> bookings'[x]]
          /\ \A x \in DOMAIN bookings : bookings'[x] \in BookingRow
      BY <1>2, <3>1, <3>2, SavedRow
    <3> QED BY <3>3
  <2>3. RowsTypeOK' BY <1>2, <2>5 DEF ReminderSave, RowsTypeOK
  <2>4. RequestsTypeOK' BY <1>2, <2>1, <2>2 DEF ReminderSave, Become, Request
  <2> QED BY <1>2, <2>3, <2>4 DEF ReminderSave
<1>5. CASE ReminderDiff(p)
  <2>1. req[p] \in [pc : {"saveReminder"}, booking : BookingIds,
                    row : BookingRow]
    BY <1>5, RequestKinds DEF ReminderDiff
  <2>2. RowsTypeOK' BY <1>5 DEF ReminderDiff, RowsTypeOK
  <2>3. RequestsTypeOK' BY <1>5, <2>1 DEF ReminderDiff, Become, Request
  <2> QED BY <1>5, <2>2, <2>3 DEF ReminderDiff
<1>6. CASE ReminderDelay(p)
  <2>1. req[p] \in [pc : {"schedule"}, booking : BookingIds,
                    option : ReminderOptions \cup {0}]
    BY <1>6, RequestKinds DEF ReminderDelay
  <2>2. RowsTypeOK' BY <1>6 DEF ReminderDelay, RowsTypeOK
  <2>3. PICK d : req' = [req EXCEPT ![p] =
                   [pc |-> "dropJob", booking |-> req[p].booking, asked |-> now,
                    delay |-> d]]
               /\ d = IF req[p].option = 0 THEN 0
                      ELSE items[req[p].booking].start - req[p].option - now
    BY <1>6 DEF ReminderDelay, Become, FireAt
  <2>4. d \in Int
    <3>1. items[req[p].booking].start \in Int
      BY <2>1 DEF RowsTypeOK, ItemRow
    <3>2. req[p].option \in Int
      <4>1. req[p].option \in ReminderOptions \cup {0}
        BY <2>1
      <4> HIDE DEF BookingsTypeOK
      <4>2. ReminderOptions \cup {0} \subseteq Nat
        BY ReminderOptionsAssumption
      <4> QED BY <4>1, <4>2
    <3>3. now \in Int
      BY QueueAssumption
    <3> QED BY <2>3, <3>1, <3>2, <3>3
  <2>5. RequestsTypeOK'
    <3>1. now \in Nat
      BY QueueAssumption
    <3>2. [pc |-> "dropJob", booking |-> req[p].booking, asked |-> now,
           delay |-> d] \in Request
      BY <2>1, <2>4, <3>1 DEF Request
    <3> QED BY <1>6, <2>1, <2>3, <3>2 DEF ReminderDelay, rowVars
  <2> QED BY <1>6, <2>2, <2>5 DEF ReminderDelay
<1>3. CASE ReminderDropJob(p)
  <2>1. req[p] \in [pc : {"dropJob"}, booking : BookingIds,
                    delay : Int, asked : Nat]
    BY <1>3, RequestKinds DEF ReminderDropJob
  <2>2. RowsTypeOK' BY <1>3 DEF ReminderDropJob, RowsTypeOK
  <2>3. QueueTypeOK'
    BY <1>3, <2>1, QueueAssumption
    DEF ReminderDropJob, RemoveJob, NoJob, Job
  <2>4. RequestsTypeOK'
    <3>1. CASE req' = [req EXCEPT ![p] = Idle]
      BY <1>3, <3>1 DEF ReminderDropJob, Idle, Request, rowVars
    <3>2. CASE req' = [req EXCEPT ![p].pc = "addJob"] /\ req[p].delay > 0
      <4>1. [req[p] EXCEPT !.pc = "addJob"]
              \in [pc : {"addJob"}, booking : BookingIds,
                   delay : Nat \ {0}, asked : Nat]
        BY <2>1, <3>2
      <4>2. [req[p] EXCEPT !.pc = "addJob"] \in Request
        BY <4>1 DEF Request
      <4> QED BY <1>3, <2>1, <3>2, <4>2 DEF ReminderDropJob, rowVars
    <3> QED BY <1>3, <3>1, <3>2 DEF ReminderDropJob, GoTo, Return, Become
  <2> QED BY <2>2, <2>3, <2>4
<1>4. CASE ReminderAddJob(p)
  <2>1. req[p] \in [pc : {"addJob"}, booking : BookingIds,
                    delay : Nat \ {0}, asked : Nat]
    BY <1>4, RequestKinds DEF ReminderAddJob
  <2>2. RowsTypeOK' BY <1>4 DEF ReminderAddJob, RowsTypeOK
  <2>3. QueueTypeOK'
    BY <1>4, <2>1, QueueAssumption DEF ReminderAddJob, AddJob, Job
  <2>4. RequestsTypeOK'
    BY <1>4 DEF ReminderAddJob, Return, Become, Idle, Request
  <2> QED BY <2>2, <2>3, <2>4
<1> QED BY <1>1, <1>2, <1>3, <1>4, <1>5, <1>6

(* So do those of cancelBooking, and a request that ends midway. *)
LEMMA TypeCancel ==
  ASSUME BookingsTypeOK, NEW p \in Procs,
         \/ CancelRead(p) \/ CancelCommit(p) \/ CancelDropJob(p)
         \/ CancelNotify(p) \/ Abort(p)
  PROVE  BookingsTypeOK'
<1> USE DEF BookingsTypeOK, RequestsTypeOK, QueueTypeOK, rowVars, queueVars
<1> DEFINE CancelRequest == [pc : {"cancel", "dropCancelled", "notify"},
                             booking : BookingIds]
<1>1. CASE CancelRead(p)
  <2>1. RowsTypeOK' BY <1>1 DEF CancelRead, RowsTypeOK
  <2>2. RequestsTypeOK' BY <1>1 DEF CancelRead, RowsTypeOK, Become, Request
  <2> QED BY <1>1, <2>1, <2>2 DEF CancelRead
<1>2. CASE CancelCommit(p)
  <2>1. req[p] \in CancelRequest BY <1>2, RequestKinds DEF CancelCommit
  <2>2. RowsTypeOK'
    BY SMTT(60), <1>2, <2>1
    DEF CancelCommit, RowsTypeOK, BookingRow, ItemRow, TimelineEvents
  <2>3. RequestsTypeOK' BY <1>2, <2>1 DEF CancelCommit, GoTo, Request
  <2> QED BY <1>2, <2>2, <2>3 DEF CancelCommit
<1>3. CASE CancelDropJob(p)
  <2>1. req[p] \in CancelRequest BY <1>3, RequestKinds DEF CancelDropJob
  <2>2. RowsTypeOK' BY <1>3 DEF CancelDropJob, RowsTypeOK
  <2>3. QueueTypeOK'
    BY <1>3, <2>1, QueueAssumption DEF CancelDropJob, RemoveJob, NoJob, Job
  <2>4. RequestsTypeOK'
    BY <1>3, <2>1 DEF CancelDropJob, GoTo, Return, Become, Idle, Request
  <2> QED BY <2>2, <2>3, <2>4
<1>4. CASE CancelNotify(p)
  <2>1. req[p] \in CancelRequest BY <1>4, RequestKinds DEF CancelNotify
  <2>2. RowsTypeOK'
    BY <1>4, <2>1 DEF CancelNotify, RowsTypeOK, Dispatch, Templates
  <2>3. RequestsTypeOK'
    BY <1>4 DEF CancelNotify, Return, Become, Idle, Request
  <2> QED BY <1>4, <2>2, <2>3 DEF CancelNotify
<1>5. CASE Abort(p)
  <2>1. RowsTypeOK' BY <1>5 DEF Abort, RowsTypeOK
  <2>2. RequestsTypeOK' BY <1>5 DEF Abort, Return, Become, Idle, Request
  <2> QED BY <1>5, <2>1, <2>2 DEF Abort
<1> QED BY <1>1, <1>2, <1>3, <1>4, <1>5

(* So do the clock and the reminder worker. *)
LEMMA TypeQueue ==
  ASSUME BookingsTypeOK, QueueNext, UNCHANGED req
  PROVE  BookingsTypeOK'
<1> USE QueueAssumption
    DEF BookingsTypeOK, RequestsTypeOK, QueueTypeOK, rowVars, Job
<1>1. CASE Tick BY <1>1 DEF Tick, RowsTypeOK
<1>2. ASSUME NEW b \in BookingIds, StartReminder(b)
      PROVE  BookingsTypeOK'
  BY <1>2 DEF StartReminder, RowsTypeOK
<1>3. ASSUME NEW b \in BookingIds, FinishReminder(b)
      PROVE  BookingsTypeOK'
  BY <1>3 DEF FinishReminder, RowsTypeOK, Dispatch, Templates, NoJob
<1>4. ASSUME NEW b \in BookingIds, FailReminder(b)
      PROVE  BookingsTypeOK'
  BY <1>4 DEF FailReminder, RowsTypeOK, Dispatch, Templates
<1> QED BY <1>1, <1>2, <1>3, <1>4 DEF QueueNext, Worker

(* The service starts with empty tables and an empty queue. *)
LEMMA TypeBookingsInit == BookingsInit => BookingsTypeOK
  BY QueueAssumption
  DEF BookingsInit, RowsInit, QueueInit, RequestsInit, BookingsTypeOK,
      RowsTypeOK, QueueTypeOK, RequestsTypeOK, Request, Idle, NoJob, Job

(* Every step of the booking requests keeps the types. *)
LEMMA TypeBookingsNext ==
  ASSUME BookingsTypeOK, BookingsNext
  PROVE  BookingsTypeOK'
  BY TypeCreate, TypeReminder, TypeCancel, TypeQueue
  DEF BookingsNext, RequestsNext, Arrive, Advance

(* Every row, job and request keeps its shape.                              *)
THEOREM BookingsTypeCorrect == BookingsSpec => []BookingsTypeOK
<1>1. BookingsTypeOK /\ UNCHANGED bookingsVars => BookingsTypeOK'
  BY DEF BookingsTypeOK, RowsTypeOK, QueueTypeOK, RequestsTypeOK,
         bookingsVars, rowVars, queueVars
<1> QED BY <1>1, TypeBookingsInit, TypeBookingsNext, PTL DEF BookingsSpec

-----------------------------------------------------------------------------
(* The create transaction inserts an item only where the specialist is free, *)
(* whatever the slot check of the request saw.                               *)
LEMMA InsertKeepsStaffTime ==
  ASSUME RowsTypeOK, NoStaffOverlap,
         NEW b \in BookingIds \ DOMAIN bookings, NEW c, NEW s,
         NEW span \in Spans,
         ~ExclusionViolated(b, s, span), InsertBooking(b, c, s, span)
  PROVE  NoStaffOverlap'
<1>1. span.start \in Nat /\ span.end \in Nat
  BY SpansAssumption
<1>2. \A x \in DOMAIN items : items[x].start \in Nat /\ items[x].end \in Nat
  BY DEF RowsTypeOK, ItemRow
<1>3. /\ DOMAIN items' = DOMAIN items \cup {b}
      /\ b \notin DOMAIN items
      /\ \A x \in DOMAIN items : items'[x] = items[x]
      /\ items'[b] = [staff |-> s, start |-> span.start, end |-> span.end,
                      status |-> "pending"]
  BY DEF RowsTypeOK, InsertBooking
<1>4. SUFFICES ASSUME NEW x \in DOMAIN items', NEW y \in DOMAIN items',
                      x # y, items'[x].staff = items'[y].staff,
                      items'[x].status # "cancelled",
                      items'[y].status # "cancelled"
               PROVE  ~Overlaps(items'[x], items'[y])
  BY DEF NoStaffOverlap, LiveItem
<1>5. CASE x # b /\ y # b
  BY <1>3, <1>4, <1>5 DEF NoStaffOverlap, LiveItem
<1>6. CASE x = b
  BY <1>1, <1>2, <1>3, <1>4, <1>6 DEF ExclusionViolated, LiveItem, Overlaps
<1>7. CASE y = b
  BY SMTT(60), <1>1, <1>2, <1>3, <1>4, <1>7 DEF ExclusionViolated, LiveItem, Overlaps
<1> QED BY <1>5, <1>6, <1>7

(* Only the create and the cancel transaction write items.                  *)
LEMMA ItemWriters ==
  ASSUME BookingsNext
  PROVE  \/ UNCHANGED items
         \/ \E p \in Procs : CreateInsert(p) \/ CancelCommit(p)
  BY DEF BookingsNext, RequestsNext, Arrive, Advance, Abort, CreateCheckSlot,
         CreateCheckDouble, ReminderRead, ReminderDiff, ReminderSave,
         ReminderDelay, ReminderDropJob, ReminderAddJob, CancelRead,
         CancelDropJob, CancelNotify, QueueNext, Tick, Worker, StartReminder, FinishReminder,
         FailReminder, rowVars

(* No step of the booking requests gives a specialist two live items at once. *)
LEMMA StaffTimeNext ==
  ASSUME BookingsTypeOK, NoStaffOverlap, BookingsNext
  PROVE  NoStaffOverlap'
<1>1. CASE UNCHANGED items
  BY <1>1 DEF NoStaffOverlap, LiveItem
<1>2. ASSUME NEW p \in Procs, CreateInsert(p)
      PROVE  NoStaffOverlap'
  <2>1. req[p].span \in Spans
    BY <1>2, RequestKinds DEF CreateInsert, BookingsTypeOK, RequestsTypeOK
  <2> QED
    BY <1>1, <1>2, <2>1, InsertKeepsStaffTime
    DEF CreateInsert, BookingsTypeOK, rowVars
<1>3. ASSUME NEW p \in Procs, CancelCommit(p)
      PROVE  NoStaffOverlap'
  BY <1>3 DEF CancelCommit, NoStaffOverlap, LiveItem, Overlaps
<1>4. \/ UNCHANGED items
      \/ \E p \in Procs : CreateInsert(p) \/ CancelCommit(p)
  BY ItemWriters
<1> QED BY <1>1, <1>2, <1>3, <1>4

(* For any number of bookings, specialists and concurrent requests, no      *)
(* specialist is booked twice for the same time.                            *)
THEOREM StaffTimeIsExclusive == BookingsSpec => []NoStaffOverlap
<1>1. BookingsInit => NoStaffOverlap
  BY DEF BookingsInit, RowsInit, NoStaffOverlap
<1>2. NoStaffOverlap /\ UNCHANGED bookingsVars => NoStaffOverlap'
  BY DEF NoStaffOverlap, LiveItem, bookingsVars, rowVars
<1> QED
  BY <1>1, <1>2, StaffTimeNext, BookingsTypeCorrect, PTL DEF BookingsSpec

-----------------------------------------------------------------------------
(* The strengthening that makes CancelledIsReleased inductive: a cancelled   *)
(* status still to be written was read when the items were released already. *)
SavedRowsReleased ==
  \A p \in Procs :
    (req[p].pc \in {"saveReminder", "writeReminder"}
       /\ req[p].row.status = "cancelled")
      => items[req[p].booking].status = "cancelled"

ReleaseInv == CancelledIsReleased /\ SavedRowsReleased

(* Requests that leave the rows alone take over only rows as they are.      *)
LEMMA ReleaseRead ==
  ASSUME BookingsTypeOK, ReleaseInv, NEW p \in Procs,
         UNCHANGED <<bookings, items>>, NEW r, req' = [req EXCEPT ![p] = r],
         \/ r.pc \notin {"saveReminder", "writeReminder"}
         \/ r.booking \in DOMAIN bookings
              /\ r.row.status = bookings[r.booking].status
         \/ req[p].pc = "saveReminder" /\ r.booking = req[p].booking
              /\ r.row = req[p].row
  PROVE  ReleaseInv'
  BY DEF ReleaseInv, CancelledIsReleased, SavedRowsReleased, BookingsTypeOK,
         RequestsTypeOK

(* A new booking is not cancelled, and no request knew it.                  *)
LEMMA ReleaseInsert ==
  ASSUME BookingsTypeOK, ReleaseInv, NEW p \in Procs, CreateInsert(p)
  PROVE  ReleaseInv'
<1>1. req' = [req EXCEPT ![p] = Idle]
  BY DEF CreateInsert, Return, Become
<1>2. CASE UNCHANGED rowVars
  <2>1. Idle.pc \notin {"saveReminder", "writeReminder"}
    BY DEF Idle
  <2> QED BY <1>1, <1>2, <2>1, ReleaseRead DEF rowVars
<1>3. ASSUME NEW b \in BookingIds \ DOMAIN bookings,
             InsertBooking(b, req[p].customer, req[p].staff, req[p].span)
      PROVE  ReleaseInv'
  <2>1. /\ DOMAIN bookings' = DOMAIN bookings \cup {b}
        /\ \A x \in DOMAIN bookings :
             bookings'[x] = bookings[x] /\ items'[x] = items[x]
        /\ bookings'[b].status = "pending"
    BY <1>3 DEF InsertBooking, BookingsTypeOK, RowsTypeOK
  <2>2. CancelledIsReleased'
    BY <2>1 DEF ReleaseInv, CancelledIsReleased
  <2>3. SavedRowsReleased'
    BY <1>1, <2>1
    DEF ReleaseInv, SavedRowsReleased, Idle, BookingsTypeOK, RequestsTypeOK
  <2> QED BY <2>2, <2>3 DEF ReleaseInv
<1> QED BY <1>2, <1>3 DEF CreateInsert

(* The late write of a whole row reverts a cancel, but never the other way. *)
LEMMA ReleaseSave ==
  ASSUME BookingsTypeOK, ReleaseInv, NEW p \in Procs, ReminderSave(p)
  PROVE  ReleaseInv'
<1> DEFINE b == req[p].booking
<1>1. /\ items' = items
      /\ \A x \in DOMAIN bookings \ {b} : bookings'[x] = bookings[x]
      /\ DOMAIN bookings' = DOMAIN bookings
      /\ b \in DOMAIN bookings =>
           bookings'[b].status \in {bookings[b].status, req[p].row.status}
  BY SavedRow DEF BookingsTypeOK
<1>4. req[p].row.status = "cancelled" => items[b].status = "cancelled"
  BY DEF ReminderSave, ReleaseInv, SavedRowsReleased
<1>2. CancelledIsReleased'
  BY <1>1, <1>4 DEF ReleaseInv, CancelledIsReleased
<1>3. req' = [req EXCEPT ![p] = [pc |-> "schedule", booking |-> b,
                                 option |-> req[p].row.reminder]]
  BY DEF ReminderSave, Become
<1>5. SavedRowsReleased'
  BY <1>1, <1>3 DEF ReleaseInv, SavedRowsReleased, BookingsTypeOK, RequestsTypeOK
<1> QED BY <1>2, <1>5 DEF ReleaseInv

(* A cancel releases the items of its booking.                              *)
LEMMA ReleaseCancel ==
  ASSUME BookingsTypeOK, ReleaseInv, NEW p \in Procs, CancelCommit(p)
  PROVE  ReleaseInv'
<1> DEFINE b == req[p].booking
<1>1. /\ DOMAIN bookings' = DOMAIN bookings
      /\ \A x \in DOMAIN bookings \ {b} :
           bookings'[x] = bookings[x] /\ items'[x] = items[x]
      /\ b \in DOMAIN bookings => items'[b].status = "cancelled"
  BY DEF CancelCommit, BookingsTypeOK, RowsTypeOK, ItemRow
<1>2. CancelledIsReleased'
  BY <1>1 DEF ReleaseInv, CancelledIsReleased
<1>3. /\ \A x \in Procs \ {p} : req'[x] = req[x]
      /\ req'[p].pc = "dropCancelled"
  <2>1. req[p] \in [pc : {"cancel", "dropCancelled", "notify"},
                    booking : BookingIds]
    BY RequestKinds DEF CancelCommit, BookingsTypeOK, RequestsTypeOK
  <2> QED BY <2>1 DEF CancelCommit, GoTo, BookingsTypeOK, RequestsTypeOK
<1>4. SavedRowsReleased'
  BY <1>1, <1>3 DEF ReleaseInv, SavedRowsReleased, BookingsTypeOK, RequestsTypeOK
<1> QED BY <1>2, <1>4 DEF ReleaseInv

(* Every step of the booking requests keeps ReleaseInv.                     *)
LEMMA ReleaseNext ==
  ASSUME BookingsTypeOK, ReleaseInv, BookingsNext
  PROVE  ReleaseInv'
<1>1. CASE UNCHANGED <<bookings, items, req>>
  BY <1>1 DEF ReleaseInv, CancelledIsReleased, SavedRowsReleased
<1>2. ASSUME NEW p \in Procs, Arrive(p)
      PROVE  ReleaseInv'
  <2>1. CASE CreateCheckSlot(p)
    BY <2>1, ReleaseRead DEF CreateCheckSlot, Become, rowVars
  <2>2. CASE CancelRead(p)
    BY <2>2, ReleaseRead DEF CancelRead, Become, rowVars
  <2>3. CASE ReminderRead(p)
    <3>1. PICK b \in DOMAIN bookings, o \in ReminderOptions \cup {0} :
            Become(p, [pc |-> "saveReminder", booking |-> b,
                       row |-> [bookings[b] EXCEPT !.reminder = o]])
      BY <2>3 DEF ReminderRead
    <3>2. [bookings[b] EXCEPT !.reminder = o].status = bookings[b].status
      BY DEF BookingsTypeOK, RowsTypeOK, BookingRow
    <3> QED BY <2>3, <3>1, <3>2, ReleaseRead DEF ReminderRead, Become, rowVars
  <2> QED BY <1>2, <2>1, <2>2, <2>3 DEF Arrive
<1>3. ASSUME NEW p \in Procs,
             \/ CreateCheckDouble(p) \/ ReminderDiff(p) \/ ReminderDelay(p)
             \/ ReminderDropJob(p) \/ ReminderAddJob(p) \/ CancelDropJob(p) \/ CancelNotify(p)
             \/ Abort(p)
      PROVE  ReleaseInv'
  <2>1. CASE ReminderDiff(p)
    BY <2>1, ReleaseRead DEF ReminderDiff, Become, rowVars
  <2>2. CASE CreateCheckDouble(p)
    <3>1. req' = [req EXCEPT ![p] = Idle]
            \/ req' = [req EXCEPT ![p] = [req[p] EXCEPT !.pc = "insert"]]
      BY <2>2 DEF CreateCheckDouble, Return, Become, GoTo
    <3>2. req[p] \in [pc : {"checkDouble", "insert"},
                      customer : Customers, staff : Staff, span : Spans]
      BY <2>2, RequestKinds
      DEF CreateCheckDouble, BookingsTypeOK, RequestsTypeOK
    <3>3. [req[p] EXCEPT !.pc = "insert"].pc = "insert" /\ Idle.pc = "idle"
      BY <3>2 DEF Idle
    <3>4. UNCHANGED <<bookings, items>>
      BY <2>2 DEF CreateCheckDouble, rowVars
    <3> QED BY <3>1, <3>3, <3>4, ReleaseRead
  <2>3. CASE CancelDropJob(p)
    <3>1. req' = [req EXCEPT ![p] = Idle]
            \/ req' = [req EXCEPT ![p] = [req[p] EXCEPT !.pc = "notify"]]
      BY <2>3 DEF CancelDropJob, Return, Become, GoTo
    <3>2. req[p] \in [pc : {"cancel", "dropCancelled", "notify"},
                      booking : BookingIds]
      BY <2>3, RequestKinds DEF CancelDropJob, BookingsTypeOK, RequestsTypeOK
    <3>3. [req[p] EXCEPT !.pc = "notify"].pc = "notify" /\ Idle.pc = "idle"
      BY <3>2 DEF Idle
    <3>4. UNCHANGED <<bookings, items>>
      BY <2>3 DEF CancelDropJob, rowVars
    <3> QED BY <3>1, <3>3, <3>4, ReleaseRead
  <2>4. CASE \/ ReminderDelay(p) \/ ReminderAddJob(p) \/ CancelNotify(p)
             \/ Abort(p)
    <3>1. \E r : /\ r.pc \notin {"saveReminder", "writeReminder"}
                 /\ req' = [req EXCEPT ![p] = r]
      BY <2>4
      DEF ReminderDelay, ReminderAddJob, CancelNotify, Abort, Return, Become,
          Idle
    <3>2. UNCHANGED <<bookings, items>>
      BY <2>4
      DEF ReminderDelay, ReminderAddJob, CancelNotify, Abort, rowVars
    <3> QED BY <3>1, <3>2, ReleaseRead
  <2>5. CASE ReminderDropJob(p)
    <3>1. req' = [req EXCEPT ![p] = Idle]
            \/ req' = [req EXCEPT ![p] = [req[p] EXCEPT !.pc = "addJob"]]
      BY <2>5 DEF ReminderDropJob, Return, Become, GoTo
    <3>2. req[p] \in [pc : {"dropJob"}, booking : BookingIds,
                      delay : Int, asked : Nat]
      BY <2>5, RequestKinds DEF ReminderDropJob, BookingsTypeOK, RequestsTypeOK
    <3>3. [req[p] EXCEPT !.pc = "addJob"].pc = "addJob" /\ Idle.pc = "idle"
      BY <3>2 DEF Idle
    <3>4. UNCHANGED <<bookings, items>>
      BY <2>5 DEF ReminderDropJob, rowVars
    <3> QED BY <3>1, <3>3, <3>4, ReleaseRead
  <2> QED BY <1>3, <2>1, <2>2, <2>3, <2>4, <2>5
<1>4. QueueNext /\ UNCHANGED req => UNCHANGED <<bookings, items, req>>
  BY DEF QueueNext, Tick, Worker, StartReminder, FinishReminder,
         FailReminder, rowVars
<1> QED
  BY <1>1, <1>2, <1>3, <1>4, ReleaseInsert, ReleaseSave, ReleaseCancel
  DEF BookingsNext, RequestsNext, Advance

(* A booking that is cancelled has given its specialist's time back, even    *)
(* when stale rows are written over it.                                      *)
THEOREM CancelReleases == BookingsSpec => []CancelledIsReleased
<1>1. BookingsInit => ReleaseInv
  BY DEF BookingsInit, RowsInit, RequestsInit, Idle, ReleaseInv,
         CancelledIsReleased, SavedRowsReleased
<1>2. ReleaseInv /\ UNCHANGED bookingsVars => ReleaseInv'
  BY DEF ReleaseInv, CancelledIsReleased, SavedRowsReleased, bookingsVars,
         rowVars
<1>3. ReleaseInv => CancelledIsReleased
  BY DEF ReleaseInv
<1> QED
  BY <1>1, <1>2, <1>3, ReleaseNext, BookingsTypeCorrect, PTL DEF BookingsSpec

-----------------------------------------------------------------------------
(* The create transaction reserves its span in the calendar.                *)
LEMMA InsertReserves ==
  ASSUME RowsTypeOK, NEW b \in BookingIds \ DOMAIN bookings, NEW c,
         NEW s \in Staff, NEW span \in Spans,
         ~ExclusionViolated(b, s, span), InsertBooking(b, c, s, span)
  PROVE  Calendar!Reserve(b)
<1> DEFINE r == [id |-> b, staff |-> s, start |-> span.start, end |-> span.end]
<1>1. /\ DOMAIN items' = DOMAIN items \cup {b}
      /\ b \notin DOMAIN items
      /\ \A x \in DOMAIN items : items'[x] = items[x]
      /\ items'[b] = [staff |-> s, start |-> span.start, end |-> span.end,
                      status |-> "pending"]
  BY DEF RowsTypeOK, InsertBooking
<1>2. \A q \in Reservations : q.id # b
  BY <1>1 DEF Reservations
<1>3. \A q \in Reservations : ~Calendar!Clash(r, q)
  <2>1. \A x \in DOMAIN items : items[x].start \in Nat /\ items[x].end \in Nat
    BY DEF RowsTypeOK, ItemRow
  <2>2. span.start \in Nat /\ span.end \in Nat
    BY SpansAssumption
  <2> QED
    BY <1>1, <2>1, <2>2
    DEF Reservations, ExclusionViolated, LiveItem, Overlaps, Calendar!Clash
<1>4. Reservations' = Reservations \cup {r}
  <2>1. {y \in DOMAIN items' : LiveItem(y)'}
          = {y \in DOMAIN items : LiveItem(y)} \cup {b}
    BY <1>1 DEF LiveItem
  <2> QED BY <1>1, <2>1 DEF Reservations
<1>5. \E s2 \in Staff, span2 \in Spans :
        LET r2 == [id |-> b, staff |-> s2, start |-> span2.start,
                   end |-> span2.end]
        IN /\ \A q \in Reservations : ~Calendar!Clash(r2, q)
           /\ Reservations' = Reservations \cup {r2}
  BY <1>3, <1>4
<1> QED BY <1>2, <1>5 DEF Calendar!Reserve

(* A cancel releases the booking's reservation, if it still has one.        *)
LEMMA CancelIsRelease ==
  ASSUME RowsTypeOK, NEW b \in DOMAIN bookings,
         items' = [items EXCEPT ![b].status = "cancelled"]
  PROVE  Calendar!Release(b) \/ UNCHANGED Reservations
<1>1. /\ DOMAIN items' = DOMAIN items
      /\ \A x \in DOMAIN items :
           /\ items'[x].staff = items[x].staff
           /\ items'[x].start = items[x].start
           /\ items'[x].end = items[x].end
           /\ items'[x].status = IF x = b THEN "cancelled" ELSE items[x].status
  BY DEF RowsTypeOK, ItemRow
<1>2. {y \in DOMAIN items' : LiveItem(y)'}
        = {y \in DOMAIN items : LiveItem(y)} \ {b}
  BY <1>1 DEF LiveItem
<1>3. Reservations' = {q \in Reservations : q.id # b}
  BY <1>1, <1>2 DEF Reservations
<1>4. CASE \E q \in Reservations : q.id = b
  BY <1>3, <1>4 DEF Calendar!Release
<1>5. CASE \A q \in Reservations : q.id # b
  BY <1>3, <1>5
<1> QED BY <1>4, <1>5

(* A step of the booking requests reserves or releases in the calendar, or  *)
(* is no step of it.                                                        *)
LEMMA RequestsImplement ==
  ASSUME BookingsTypeOK, BookingsNext
  PROVE  Calendar!CalendarNext \/ UNCHANGED Reservations
<1>1. CASE UNCHANGED items
  BY <1>1 DEF Reservations, LiveItem
<1>2. ASSUME NEW p \in Procs, CreateInsert(p)
      PROVE  Calendar!CalendarNext \/ UNCHANGED items
  <2>1. req[p].staff \in Staff /\ req[p].span \in Spans
    BY <1>2, RequestKinds
    DEF CreateInsert, BookingsTypeOK, RequestsTypeOK
  <2>2. CASE UNCHANGED rowVars
    BY <2>2 DEF rowVars
  <2>3. ASSUME NEW b \in BookingIds \ DOMAIN bookings,
               ~ExclusionViolated(b, req[p].staff, req[p].span),
               InsertBooking(b, req[p].customer, req[p].staff, req[p].span)
        PROVE  Calendar!Reserve(b)
    BY <2>1, <2>3, InsertReserves DEF BookingsTypeOK
  <2> QED BY <1>2, <2>2, <2>3 DEF CreateInsert, Calendar!CalendarNext
<1>3. ASSUME NEW p \in Procs, CancelCommit(p)
      PROVE  Calendar!CalendarNext \/ UNCHANGED Reservations
  <2>1. req[p].booking \in DOMAIN bookings /\ DOMAIN bookings \subseteq BookingIds
    BY <1>3
    DEF CancelCommit, BookingsTypeOK, RequestsTypeOK, RowsTypeOK
  <2>2. items' = [items EXCEPT ![req[p].booking].status = "cancelled"]
    BY <1>3 DEF CancelCommit
  <2>3. Calendar!Release(req[p].booking) \/ UNCHANGED Reservations
    BY <2>1, <2>2, CancelIsRelease DEF BookingsTypeOK
  <2> QED BY <2>1, <2>3 DEF Calendar!CalendarNext
<1>4. \/ UNCHANGED items
      \/ \E p \in Procs : CreateInsert(p) \/ CancelCommit(p)
  BY ItemWriters
<1> QED BY <1>1, <1>2, <1>3, <1>4

(* The booking requests implement the calendar of reservations: a specialist's *)
(* time is taken only while it is free, for any number of concurrent requests. *)
THEOREM BookingsImplementCalendar == BookingsSpec => SlotsAreReserved
<1>1. BookingsInit => Calendar!CalendarInit
  BY DEF BookingsInit, RowsInit, Calendar!CalendarInit, Reservations
<1>2. UNCHANGED bookingsVars => UNCHANGED Reservations
  BY DEF bookingsVars, rowVars, Reservations, LiveItem
<1> QED
  BY <1>1, <1>2, RequestsImplement, BookingsTypeCorrect, PTL
  DEF BookingsSpec, SlotsAreReserved, Calendar!Spec

-----------------------------------------------------------------------------
(* What one step of the booking requests does to a booking's rows: creates  *)
(* them pending, cancels them with their timeline row, or writes columns of *)
(* a row that a request has saved up.                                       *)
WritesRows ==
  /\ \A b \in DOMAIN bookings :
       /\ b \in DOMAIN bookings'
       /\ \/ bookings'[b].status = bookings[b].status
          \/ /\ bookings'[b].status = "cancelled"
             /\ items'[b].status = "cancelled"
             /\ "cancelled" \in timeline'[b]
          \/ \E p \in Procs : /\ req[p].pc = "writeReminder"
                             /\ req[p].booking = b
                             /\ bookings'[b].status = req[p].row.status
       /\ \/ bookings'[b].payment = bookings[b].payment
          \/ \E p \in Procs : /\ req[p].pc = "writeReminder"
                             /\ req[p].booking = b
                             /\ bookings'[b].payment = req[p].row.payment
       /\ \/ items'[b] = items[b]
          \/ /\ items'[b].status = "cancelled"
             /\ "cancelled" \in timeline'[b]
             /\ items'[b].staff = items[b].staff
             /\ items'[b].start = items[b].start
             /\ items'[b].end = items[b].end
  /\ \A b \in DOMAIN bookings' \ DOMAIN bookings :
       /\ bookings'[b].status = "pending"
       /\ bookings'[b].payment = "pending"
       /\ items'[b].status = "pending"
       /\ \E span \in Spans :
            items'[b].start = span.start /\ items'[b].end = span.end

(* And to what is told of it: a cancellation is told by a request that has  *)
(* committed its cancel.                                                    *)
WritesLogs ==
  /\ \A b \in BookingIds :
       /\ timeline[b] \subseteq timeline'[b]
       /\ timeline'[b] \subseteq timeline[b] \cup {"created", "cancelled"}
  /\ \A m \in messages' \ messages :
       \/ m[2] = "reminder"
       \/ \E p \in Procs : /\ req[p].pc = "notify"
                          /\ m = <<req[p].booking, "cancellation">>

(* A row that a request is about to write it has held since it read it in a *)
(* step that wrote nothing; a request past its cancel has its timeline row. *)
KeepsReads ==
  \A p \in Procs :
    /\ req'[p].pc \in {"saveReminder", "writeReminder"} =>
         \/ /\ req[p].pc \in {"saveReminder", "writeReminder"}
            /\ req'[p].booking = req[p].booking /\ req'[p].row = req[p].row
         \/ /\ UNCHANGED rowVars
            /\ req'[p].booking \in DOMAIN bookings
            /\ req'[p].row.status = bookings[req'[p].booking].status
            /\ req'[p].row.payment = bookings[req'[p].booking].payment
    /\ req'[p].pc \in {"dropCancelled", "notify"} =>
         /\ req'[p].booking = req[p].booking
         /\ \/ req[p].pc \in {"dropCancelled", "notify"}
            \/ "cancelled" \in timeline'[req[p].booking]

(* Every step of the booking requests writes rows in one of these ways.     *)
LEMMA RowsWritten ==
  ASSUME BookingsTypeOK, BookingsNext
  PROVE  WritesRows
<1> USE DEF BookingsTypeOK, RowsTypeOK
<1>1. CASE UNCHANGED <<bookings, items>>
  BY <1>1 DEF WritesRows
<1>2. ASSUME NEW p \in Procs, CreateInsert(p), ~UNCHANGED rowVars
      PROVE  WritesRows
  <2>1. PICK b \in BookingIds \ DOMAIN bookings :
          InsertBooking(b, req[p].customer, req[p].staff, req[p].span)
    BY <1>2 DEF CreateInsert
  <2>2. req[p].span \in Spans
    BY <1>2, RequestKinds DEF CreateInsert, RequestsTypeOK
  <2>3. /\ DOMAIN bookings' = DOMAIN bookings \cup {b}
        /\ \A x \in DOMAIN bookings : bookings'[x] = bookings[x] /\ items'[x] = items[x]
        /\ bookings'[b].status = "pending" /\ bookings'[b].payment = "pending"
        /\ items'[b].status = "pending"
        /\ items'[b].start = req[p].span.start /\ items'[b].end = req[p].span.end
    BY <2>1 DEF InsertBooking
  <2> QED BY <2>2, <2>3 DEF WritesRows
<1>3. ASSUME NEW p \in Procs, ReminderSave(p)
      PROVE  WritesRows
  <2> DEFINE b == req[p].booking
  <2>1. /\ items' = items /\ req[p].pc = "writeReminder"
        /\ \A x \in DOMAIN bookings \ {b} : bookings'[x] = bookings[x]
        /\ DOMAIN bookings' = DOMAIN bookings
        /\ b \in DOMAIN bookings =>
             /\ bookings'[b].status \in {bookings[b].status, req[p].row.status}
             /\ bookings'[b].payment \in {bookings[b].payment, req[p].row.payment}
    <3>1. req[p].pc = "writeReminder"
      BY <1>3 DEF ReminderSave
    <3> HIDE DEF RowsTypeOK
    <3> QED BY <1>3, <3>1, SavedRow
  <2> QED BY <2>1 DEF WritesRows
<1>4. ASSUME NEW p \in Procs, CancelCommit(p)
      PROVE  WritesRows
  <2> DEFINE b == req[p].booking
  <2>1. b \in DOMAIN bookings /\ b \in BookingIds
    BY <1>4 DEF CancelCommit, RequestsTypeOK
  <2>2. /\ DOMAIN bookings' = DOMAIN bookings
        /\ \A x \in DOMAIN bookings \ {b} :
             bookings'[x] = bookings[x] /\ items'[x] = items[x]
    BY <1>4 DEF CancelCommit
  <2>3. /\ bookings'[b].status = "cancelled"
        /\ bookings'[b].payment = bookings[b].payment
    BY <1>4, <2>1 DEF CancelCommit, BookingRow
  <2>4. /\ items'[b].status = "cancelled"
        /\ items'[b].staff = items[b].staff
        /\ items'[b].start = items[b].start /\ items'[b].end = items[b].end
    BY <1>4, <2>1 DEF CancelCommit, ItemRow
  <2>5. "cancelled" \in timeline'[b]
    BY <1>4, <2>1 DEF CancelCommit
  <2> QED BY <2>2, <2>3, <2>4, <2>5 DEF WritesRows
<1>5. \/ UNCHANGED <<bookings, items>>
      \/ \E p \in Procs : CreateInsert(p) \/ ReminderSave(p) \/ CancelCommit(p)
  BY DEF BookingsNext, RequestsNext, Arrive, Advance, Abort, CreateCheckSlot,
         CreateCheckDouble, ReminderRead, ReminderDiff, ReminderDelay,
         ReminderDropJob, ReminderAddJob, CancelRead, CancelDropJob, CancelNotify, QueueNext,
         Tick, Worker, StartReminder, FinishReminder, FailReminder, rowVars
<1> QED BY <1>1, <1>2, <1>3, <1>4, <1>5 DEF rowVars

(* And logs.                                                                *)
LEMMA LogsWritten ==
  ASSUME BookingsTypeOK, BookingsNext
  PROVE  WritesLogs
<1> USE DEF BookingsTypeOK, RowsTypeOK
<1>1. CASE UNCHANGED <<timeline, messages>>
  BY <1>1 DEF WritesLogs
<1>2. ASSUME NEW p \in Procs, CreateInsert(p) \/ CancelCommit(p)
      PROVE  WritesLogs
  <2>1. CASE UNCHANGED rowVars
    BY <1>1, <2>1 DEF rowVars
  <2>2. CASE /\ UNCHANGED messages
             /\ \E b : \E k \in {"created", "cancelled"} :
                  timeline' = [timeline EXCEPT ![b] = @ \cup {k}]
    BY <2>2 DEF WritesLogs
  <2> QED BY <1>2, <2>1, <2>2 DEF CreateInsert, InsertBooking, CancelCommit
<1>3. ASSUME NEW p \in Procs, CancelNotify(p)
      PROVE  WritesLogs
  BY <1>3 DEF CancelNotify, Dispatch, WritesLogs
<1>4. ASSUME NEW b \in BookingIds, FinishReminder(b) \/ FailReminder(b)
      PROVE  WritesLogs
  BY SMTT(60), <1>4 DEF FinishReminder, FailReminder, Dispatch, WritesLogs
<1>5. \/ UNCHANGED <<timeline, messages>>
      \/ \E p \in Procs : CreateInsert(p) \/ CancelCommit(p) \/ CancelNotify(p)
      \/ \E b \in BookingIds : FinishReminder(b) \/ FailReminder(b)
  BY ZenonT(60) DEF BookingsNext, RequestsNext, Arrive, Advance, Abort, CreateCheckSlot,
         CreateCheckDouble, ReminderRead, ReminderDiff, ReminderSave,
         ReminderDelay, ReminderDropJob, ReminderAddJob, CancelRead,
         CancelDropJob, QueueNext,
         Tick, Worker, StartReminder, rowVars
<1> QED BY <1>1, <1>2, <1>3, <1>4, <1>5

(* A step of one request leaves what the others hold, and what it holds     *)
(* itself afterwards it read in this step or held before.                   *)
LEMMA ReadsKept ==
  ASSUME BookingsTypeOK, BookingsNext
  PROVE  KeepsReads
<1> USE DEF BookingsTypeOK, RequestsTypeOK
<1> DEFINE CancelRequest == [pc : {"cancel", "dropCancelled", "notify"},
                             booking : BookingIds]
<1>1. CASE UNCHANGED req
  BY <1>1 DEF KeepsReads
<1>2. ASSUME NEW p \in Procs, NEW r, req' = [req EXCEPT ![p] = r],
             r.pc \notin {"saveReminder", "writeReminder", "dropCancelled", "notify"}
      PROVE  KeepsReads
  BY <1>2 DEF KeepsReads
<1>3. ASSUME NEW p \in Procs,
             \/ CreateCheckSlot(p) \/ CreateInsert(p) \/ ReminderSave(p)
             \/ ReminderDelay(p) \/ ReminderAddJob(p) \/ CancelRead(p)
             \/ CancelNotify(p) \/ Abort(p)
      PROVE  KeepsReads
  <2>1. \E r : /\ req' = [req EXCEPT ![p] = r]
               /\ r.pc \notin {"saveReminder", "writeReminder",
                               "dropCancelled", "notify"}
    BY <1>3
    DEF CreateCheckSlot, CreateInsert, ReminderSave, ReminderDelay,
        ReminderAddJob, CancelRead, CancelNotify, Abort, Return, Become, Idle
  <2> QED BY <1>2, <2>1
<1>4. ASSUME NEW p \in Procs, CreateCheckDouble(p)
      PROVE  KeepsReads
  <2>1. req[p] \in [pc : {"checkDouble", "insert"},
                    customer : Customers, staff : Staff, span : Spans]
    BY <1>4, RequestKinds DEF CreateCheckDouble
  <2>2. \E r : /\ req' = [req EXCEPT ![p] = r] /\ r.pc \in {"idle", "insert"}
    BY <1>4, <2>1 DEF CreateCheckDouble, Return, Become, GoTo, Idle
  <2> QED BY <1>2, <2>2
<1>5. ASSUME NEW p \in Procs, ReminderRead(p)
      PROVE  KeepsReads
  <2>1. PICK b \in DOMAIN bookings, o \in ReminderOptions \cup {0} :
          req' = [req EXCEPT ![p] = [pc |-> "saveReminder", booking |-> b,
                                     row |-> [bookings[b] EXCEPT !.reminder = o]]]
    BY <1>5 DEF ReminderRead, Become
  <2> DEFINE row == [bookings[b] EXCEPT !.reminder = o]
  <2>2. row.status = bookings[b].status /\ row.payment = bookings[b].payment
    BY DEF RowsTypeOK, BookingRow
  <2>3. UNCHANGED rowVars
    BY <1>5 DEF ReminderRead
  <2> HIDE DEF row
  <2> QED BY <2>1, <2>2, <2>3 DEF KeepsReads, row
<1>6. ASSUME NEW p \in Procs, ReminderDiff(p)
      PROVE  KeepsReads
  BY <1>6 DEF ReminderDiff, Become, KeepsReads
<1>7. ASSUME NEW p \in Procs, CancelCommit(p)
      PROVE  KeepsReads
  <2>1. req[p] \in CancelRequest
    BY <1>7, RequestKinds DEF CancelCommit
  <2>2. "cancelled" \in timeline'[req[p].booking]
    BY <1>7, <2>1 DEF CancelCommit, RowsTypeOK
  <2> QED BY <1>7, <2>1, <2>2 DEF CancelCommit, GoTo, KeepsReads
<1>8. ASSUME NEW p \in Procs, CancelDropJob(p)
      PROVE  KeepsReads
  <2>1. req[p] \in CancelRequest
    BY <1>8, RequestKinds DEF CancelDropJob
  <2>2. CASE Return(p)
    BY <1>2, <2>2 DEF Return, Become, Idle
  <2>3. CASE GoTo(p, "notify")
    BY <1>8, <2>1, <2>3 DEF CancelDropJob, GoTo, KeepsReads
  <2> QED BY <1>8, <2>2, <2>3 DEF CancelDropJob
<1>9. ASSUME NEW p \in Procs, ReminderDropJob(p)
      PROVE  KeepsReads
  <2>1. req[p] \in [pc : {"dropJob"}, booking : BookingIds,
                    delay : Int, asked : Nat]
    BY <1>9, RequestKinds DEF ReminderDropJob
  <2>2. \E r : /\ req' = [req EXCEPT ![p] = r] /\ r.pc \in {"idle", "addJob"}
    BY <1>9, <2>1 DEF ReminderDropJob, Return, Become, GoTo, Idle
  <2> QED BY <1>2, <2>2
<1> QED BY <1>1, <1>3, <1>4, <1>5, <1>6, <1>7, <1>8, <1>9
        DEF BookingsNext, RequestsNext, Arrive, Advance

-----------------------------------------------------------------------------
(* The strengthening of CancellationOnRecord: what a request is still about *)
(* to write or to tell has its timeline row too.                            *)
CancelsLogged ==
  /\ CancellationOnRecord
  /\ \A p \in Procs :
       \/ req[p].pc \in {"dropCancelled", "notify"}
       \/ /\ req[p].pc \in {"saveReminder", "writeReminder"}
          /\ req[p].row.status = "cancelled"
       => "cancelled" \in timeline[req[p].booking]

(* No step tells of a cancel, or writes one, before it is on record.        *)
LEMMA CancelsLoggedNext ==
  ASSUME BookingsTypeOK, CancelsLogged, BookingsNext
  PROVE  CancelsLogged'
<1> USE DEF BookingsTypeOK, RowsTypeOK, RequestsTypeOK
<1>1. WritesRows /\ WritesLogs /\ KeepsReads
  BY RowsWritten, LogsWritten, ReadsKept
<1>2. ASSUME NEW b \in BookingIds,
             \/ <<b, "cancellation">> \in messages'
             \/ b \in DOMAIN bookings' /\ "cancelled" \in {bookings'[b].status,
                                                          items'[b].status}
      PROVE  "cancelled" \in timeline'[b]
  <2>1. "cancelled" \in timeline[b] => "cancelled" \in timeline'[b]
    BY <1>1 DEF WritesLogs
  <2>2. CASE <<b, "cancellation">> \in messages'
    <3>1. CASE <<b, "cancellation">> \in messages
      BY <2>1, <3>1 DEF CancelsLogged, CancellationOnRecord
    <3>2. CASE <<b, "cancellation">> \notin messages
      <4>1. PICK p \in Procs : req[p].pc = "notify" /\ b = req[p].booking
        BY <1>1, <2>2, <3>2 DEF WritesLogs
      <4> QED BY <2>1, <4>1 DEF CancelsLogged
    <3> QED BY <3>1, <3>2
  <2>3. CASE b \in DOMAIN bookings' /\ bookings'[b].status = "cancelled"
    <3>1. b \in DOMAIN bookings
      BY <1>1, <2>3 DEF WritesRows
    <3>2. \/ bookings[b].status = "cancelled"
          \/ "cancelled" \in timeline'[b]
          \/ \E p \in Procs : /\ req[p].pc = "writeReminder"
                             /\ req[p].booking = b
                             /\ req[p].row.status = "cancelled"
      BY <1>1, <2>3, <3>1 DEF WritesRows
    <3> QED BY <2>1, <3>1, <3>2 DEF CancelsLogged, CancellationOnRecord
  <2>4. CASE b \in DOMAIN bookings' /\ items'[b].status = "cancelled"
    <3>1. b \in DOMAIN bookings
      BY <1>1, <2>4 DEF WritesRows
    <3>2. items[b].status = "cancelled" \/ "cancelled" \in timeline'[b]
      BY <1>1, <2>4, <3>1 DEF WritesRows
    <3> QED BY <2>1, <3>1, <3>2 DEF CancelsLogged, CancellationOnRecord
  <2> QED BY <1>2, <2>2, <2>3, <2>4
<1>3. ASSUME NEW p \in Procs, req'[p].pc \in {"dropCancelled", "notify"}
      PROVE  "cancelled" \in timeline'[req'[p].booking]
  <2>1. CASE req[p].pc \in {"dropCancelled", "notify"}
    BY <1>1, <1>3, <2>1 DEF KeepsReads, WritesLogs, CancelsLogged
  <2> QED BY <1>1, <1>3, <2>1 DEF KeepsReads
<1>4. ASSUME NEW p \in Procs, req'[p].pc \in {"saveReminder", "writeReminder"},
             req'[p].row.status = "cancelled"
      PROVE  "cancelled" \in timeline'[req'[p].booking]
  <2>1. CASE /\ req[p].pc \in {"saveReminder", "writeReminder"}
             /\ req'[p].booking = req[p].booking /\ req'[p].row = req[p].row
    BY <1>1, <1>4, <2>1 DEF WritesLogs, CancelsLogged
  <2>2. CASE /\ UNCHANGED rowVars
             /\ req'[p].booking \in DOMAIN bookings
             /\ req'[p].row.status = bookings[req'[p].booking].status
    BY <1>4, <2>2 DEF rowVars, CancelsLogged, CancellationOnRecord
  <2> QED BY <1>1, <1>4, <2>1, <2>2 DEF KeepsReads
<1> QED BY <1>2, <1>3, <1>4 DEF CancelsLogged, CancellationOnRecord

(* For any number of concurrent requests, whatever is cancelled or told to  *)
(* be has the timeline row of a committed cancel.                           *)
THEOREM CancelIsOnRecord == BookingsSpec => []CancellationOnRecord
<1>1. BookingsInit => CancelsLogged
  BY DEF BookingsInit, RowsInit, RequestsInit, Idle, CancelsLogged,
         CancellationOnRecord
<1>2. CancelsLogged /\ UNCHANGED bookingsVars => CancelsLogged'
  BY DEF CancelsLogged, CancellationOnRecord, bookingsVars, rowVars
<1>3. CancelsLogged => CancellationOnRecord
  BY DEF CancelsLogged
<1> QED
  BY <1>1, <1>2, <1>3, CancelsLoggedNext, BookingsTypeCorrect, PTL
  DEF BookingsSpec

-----------------------------------------------------------------------------
(* The strengthening of ReminderKeepsLead: the delay a request holds is the *)
(* time that was left, when it was computed, to a lead before the start.    *)
LeadsKept ==
  /\ ReminderKeepsLead
  /\ \A p \in Procs :
       req[p].pc \in {"dropJob", "addJob"} =>
         /\ req[p].asked <= now
         /\ req[p].delay > 0 =>
              \E o \in ReminderOptions :
                req[p].delay = FireAt(req[p].booking, o) - req[p].asked

(* Steps that keep the jobs, or only remove or retry some, and leave the    *)
(* delays that requests hold or drop them.                                  *)
LEMMA LeadsStay ==
  ASSUME BookingsTypeOK, LeadsKept,
         \A b \in DOMAIN items :
           b \in DOMAIN items' /\ items'[b].start = items[b].start,
         now' \in Nat, now <= now',
         \A b \in BookingIds : jobs'[b].state # "none" =>
           /\ jobs[b].state # "none"
           /\ jobs'[b].timestamp = jobs[b].timestamp
           /\ jobs'[b].delay = jobs[b].delay
           /\ jobs'[b].asked = jobs[b].asked,
         \A p \in Procs : req'[p].pc \in {"dropJob", "addJob"} =>
           /\ req[p].pc \in {"dropJob", "addJob"}
           /\ req'[p].booking = req[p].booking
           /\ req'[p].delay = req[p].delay
           /\ req'[p].asked = req[p].asked
  PROVE  LeadsKept'
<1>1. ReminderKeepsLead'
  <2> SUFFICES ASSUME NEW b \in BookingIds, jobs'[b].state # "none"
               PROVE  /\ b \in DOMAIN items'
                      /\ jobs'[b].asked <= jobs'[b].timestamp
                      /\ \E o \in ReminderOptions :
                           /\ jobs'[b].asked < FireAt(b, o)'
                           /\ Due(b)' = FireAt(b, o)'
                                + (jobs'[b].timestamp - jobs'[b].asked)
    BY DEF ReminderKeepsLead, FireAt
  <2>1. b \in DOMAIN items /\ jobs[b].asked <= jobs[b].timestamp
    BY DEF LeadsKept, ReminderKeepsLead, FireAt
  <2>2. PICK o \in ReminderOptions :
          /\ jobs[b].asked < FireAt(b, o)
          /\ Due(b) = FireAt(b, o) + (jobs[b].timestamp - jobs[b].asked)
    BY DEF LeadsKept, ReminderKeepsLead, FireAt
  <2>3. FireAt(b, o)' = FireAt(b, o) /\ Due(b)' = Due(b)
    BY <2>1 DEF FireAt, Due
  <2> QED BY <2>1, <2>2, <2>3
<1>2. ASSUME NEW p \in Procs, req'[p].pc \in {"dropJob", "addJob"}
      PROVE  /\ req'[p].asked <= now'
             /\ req'[p].delay > 0 => \E o \in ReminderOptions :
                  req'[p].delay = items'[req'[p].booking].start - o - req'[p].asked
  <2>1. req[p] \in [pc : {"dropJob"}, booking : BookingIds,
                    delay : Int, asked : Nat]
          \/ req[p] \in [pc : {"addJob"}, booking : BookingIds,
                         delay : Nat \ {0}, asked : Nat]
    BY <1>2, RequestKinds DEF BookingsTypeOK, RequestsTypeOK
  <2>2. req'[p].asked <= now'
    <3>1. now \in Nat /\ req[p].asked \in Nat
      BY <2>1, QueueAssumption DEF BookingsTypeOK, QueueTypeOK
    <3>2. req[p].asked <= now
      BY <1>2 DEF LeadsKept
    <3> QED BY <1>2, <3>1, <3>2
  <2>3. req[p].booking \in DOMAIN items
    BY <1>2 DEF BookingsTypeOK, RequestsTypeOK, RowsTypeOK
  <2>4. req[p].delay > 0 => \E o \in ReminderOptions :
           req[p].delay = FireAt(req[p].booking, o) - req[p].asked
    BY <1>2 DEF LeadsKept
  <2>5. items'[req'[p].booking].start = items[req[p].booking].start
    BY <1>2, <2>3
  <2> QED BY <1>2, <2>2, <2>4, <2>5 DEF FireAt
<1> QED BY <1>1, <1>2 DEF LeadsKept, FireAt

(* A delay is taken from a lead before the start, the job it becomes counts *)
(* it from the time it is added, and no step moves the start of a booking.  *)
LEMMA LeadsNext ==
  ASSUME BookingsTypeOK, LeadsKept, BookingsNext
  PROVE  LeadsKept'
<1> USE DEF BookingsTypeOK, RowsTypeOK, RequestsTypeOK, QueueTypeOK
<1>1. \A b \in DOMAIN items : b \in DOMAIN items' /\ items'[b].start = items[b].start
  <2>1. BookingsTypeOK' /\ WritesRows
    BY RowsWritten, TypeBookingsNext
  <2> QED BY <2>1 DEF WritesRows
<1>2. now \in Nat /\ now' \in Nat
  BY TypeBookingsNext, QueueAssumption
<1>3. ASSUME NEW p \in Procs, NEW r, req' = [req EXCEPT ![p] = r],
             r.pc \notin {"dropJob", "addJob"}, UNCHANGED now,
             UNCHANGED jobs \/ RemoveJob(req[p].booking)
      PROVE  LeadsKept'
  <2>1. \A b \in BookingIds : jobs'[b].state # "none" => jobs'[b] = jobs[b]
    BY <1>3 DEF RemoveJob, NoJob
  <2> QED BY <1>1, <1>2, <1>3, <2>1, LeadsStay
<1>4. ASSUME NEW p \in Procs, Arrive(p) \/ Advance(p) \/ Abort(p)
      PROVE  LeadsKept'
  <2>1. CASE \/ Arrive(p) \/ Abort(p) \/ CreateInsert(p) \/ ReminderDiff(p)
             \/ ReminderSave(p) \/ CancelNotify(p)
    <3>1. UNCHANGED <<jobs, now>>
      BY <2>1
      DEF Arrive, Abort, CreateCheckSlot, ReminderRead, CancelRead, CreateInsert,
          ReminderDiff, ReminderSave, CancelNotify, queueVars
    <3>2. \E r : req' = [req EXCEPT ![p] = r] /\ r.pc \notin {"dropJob", "addJob"}
      BY <2>1
      DEF Arrive, Abort, CreateCheckSlot, ReminderRead, CancelRead, CreateInsert,
          ReminderDiff, ReminderSave, CancelNotify, Become, Return, Idle
    <3> QED BY <1>3, <3>1, <3>2
  <2>2. CASE CreateCheckDouble(p)
    <3>1. req[p] \in [pc : {"checkDouble", "insert"},
                      customer : Customers, staff : Staff, span : Spans]
      BY <2>2, RequestKinds DEF CreateCheckDouble
    <3>2. \E r : req' = [req EXCEPT ![p] = r] /\ r.pc \notin {"dropJob", "addJob"}
      BY <2>2, <3>1 DEF CreateCheckDouble, Return, Become, GoTo, Idle
    <3> QED BY <1>3, <2>2, <3>2 DEF CreateCheckDouble, queueVars
  <2>3. CASE CancelCommit(p) \/ CancelDropJob(p)
    <3>1. req[p] \in [pc : {"cancel", "dropCancelled", "notify"}, booking : BookingIds]
      BY <2>3, RequestKinds DEF CancelCommit, CancelDropJob
    <3>2. \E r : req' = [req EXCEPT ![p] = r] /\ r.pc \notin {"dropJob", "addJob"}
      BY <2>3, <3>1 DEF CancelCommit, CancelDropJob, GoTo, Return, Become, Idle
    <3>3. UNCHANGED now /\ (UNCHANGED jobs \/ RemoveJob(req[p].booking))
      BY <2>3 DEF CancelCommit, CancelDropJob, queueVars
    <3> QED BY <1>3, <3>2, <3>3
  <2>4. CASE ReminderDelay(p)
    <3>1. req[p] \in [pc : {"schedule"}, booking : BookingIds,
                      option : ReminderOptions \cup {0}]
      BY <2>4, RequestKinds DEF ReminderDelay
    <3>0. PICK b \in BookingIds : b = req[p].booking
      BY <3>1
    <3>2. PICK d : /\ req' = [req EXCEPT ![p] =
                       [pc |-> "dropJob", booking |-> b, asked |-> now, delay |-> d]]
                   /\ d = IF req[p].option = 0 THEN 0
                          ELSE FireAt(b, req[p].option) - now
      BY <2>4, <3>0 DEF ReminderDelay, Become
    <3>3. b \in DOMAIN items
      BY <3>0, <3>1
    <3>4. \A x \in DOMAIN items : \A o : FireAt(x, o)' = FireAt(x, o)
      <4> HIDE DEF BookingsTypeOK, RowsTypeOK, RequestsTypeOK
      <4> QED BY <1>1 DEF FireAt
    <3>5. UNCHANGED <<jobs, now>>
      BY <2>4 DEF ReminderDelay, queueVars
    <3>6. ReminderKeepsLead'
      <4>1. \A x : Due(x)' = Due(x)
        BY <3>5 DEF Due
      <4> HIDE DEF BookingsTypeOK
      <4> QED
        BY <1>1, <3>4, <3>5, <4>1 DEF LeadsKept, ReminderKeepsLead, FireAt
    <3>8. ASSUME NEW x \in Procs, req'[x].pc \in {"dropJob", "addJob"}
          PROVE  /\ req'[x].asked <= now'
                 /\ req'[x].delay > 0 => \E o \in ReminderOptions :
                      req'[x].delay = items'[req'[x].booking].start - o - req'[x].asked
      <4>1. CASE x = p
        <5>1. req'[x] = [pc |-> "dropJob", booking |-> b, asked |-> now, delay |-> d]
          BY <3>2, <4>1
        <5>2. d > 0 => req[p].option \in ReminderOptions
                        /\ d = FireAt(b, req[p].option) - now
          BY <3>1, <3>2
        <5>3. d > 0 => d = items'[b].start - req[p].option - now
          BY <1>1, <3>3, <5>2 DEF FireAt
        <5>4. req'[x].asked <= now'
          BY <1>2, <3>5, <5>1
        <5>5. req'[x].booking = b /\ req'[x].delay = d /\ req'[x].asked = now
          BY <5>1
        <5> QED BY <5>2, <5>3, <5>4, <5>5
      <4>2. CASE x # p
        <5>1. req'[x] = req[x]
          BY <3>2, <4>2
        <5>2. req[x].booking \in DOMAIN items
          BY <3>8, <5>1
        <5> HIDE DEF BookingsTypeOK, RowsTypeOK, RequestsTypeOK
        <5>3. \A o : items'[req'[x].booking].start - o = FireAt(req[x].booking, o)
          BY <3>4, <5>1, <5>2 DEF FireAt
        <5> QED BY <3>5, <3>8, <5>1, <5>3 DEF LeadsKept, FireAt
      <4> QED BY <4>1, <4>2
    <3> QED BY <3>6, <3>8 DEF LeadsKept, FireAt
  <2>5. CASE ReminderDropJob(p)
    <3>1. req[p] \in [pc : {"dropJob"}, booking : BookingIds,
                      delay : Int, asked : Nat]
      BY <2>5, RequestKinds DEF ReminderDropJob
    <3>2. UNCHANGED now /\ (UNCHANGED jobs \/ RemoveJob(req[p].booking))
      BY <2>5 DEF ReminderDropJob
    <3>3. CASE Return(p)
      BY <1>3, <3>2, <3>3 DEF Return, Become, Idle
    <3>4. CASE GoTo(p, "addJob")
      <4>1. \A x \in Procs : req'[x].pc \in {"dropJob", "addJob"} =>
              /\ req[x].pc \in {"dropJob", "addJob"}
              /\ req'[x].booking = req[x].booking
              /\ req'[x].delay = req[x].delay
              /\ req'[x].asked = req[x].asked
        BY <2>5, <3>1, <3>4 DEF ReminderDropJob, GoTo
      <4>2. \A b \in BookingIds : jobs'[b].state # "none" => jobs'[b] = jobs[b]
        BY <3>2 DEF RemoveJob, NoJob
      <4> QED BY <1>1, <1>2, <3>2, <4>1, <4>2, LeadsStay
    <3> QED BY <2>5, <3>3, <3>4 DEF ReminderDropJob
  <2>6. CASE ReminderAddJob(p)
    <3>1. req[p] \in [pc : {"addJob"}, booking : BookingIds,
                      delay : Nat \ {0}, asked : Nat]
      BY <2>6, RequestKinds DEF ReminderAddJob
    <3>0. PICK b \in BookingIds : b = req[p].booking
      BY <3>1
    <3>2. CASE UNCHANGED jobs
      BY <1>3, <2>6, <3>2 DEF ReminderAddJob, Return, Become, Idle
    <3>3. CASE jobs' = [jobs EXCEPT ![b] =
                  [state |-> "scheduled", timestamp |-> now,
                   delay |-> req[p].delay, asked |-> req[p].asked, tries |-> 0]]
      <4>1. PICK o \in ReminderOptions : req[p].delay = FireAt(b, o) - req[p].asked
        BY <2>6, <3>0, <3>1 DEF ReminderAddJob, LeadsKept
      <4>2. b \in DOMAIN items /\ req[p].asked <= now
        BY <2>6, <3>0, <3>1 DEF ReminderAddJob, LeadsKept
      <4>3. UNCHANGED items /\ UNCHANGED now
        BY <2>6 DEF ReminderAddJob, rowVars
      <4>4. \A x, n : FireAt(x, n)' = FireAt(x, n)
        BY <4>3 DEF FireAt
      <4>5. FireAt(b, o) \in Int
        <5>1. items[b].start \in Nat /\ o \in Nat
          BY <4>2, ReminderOptionsAssumption DEF ItemRow
        <5> QED BY <5>1 DEF FireAt
      <4>6. /\ req[p].asked < FireAt(b, o)
            /\ now + req[p].delay = FireAt(b, o) + (now - req[p].asked)
        BY <1>2, <3>1, <4>1, <4>5
      <4>7. jobs'[b] = [state |-> "scheduled", timestamp |-> now,
                        delay |-> req[p].delay, asked |-> req[p].asked, tries |-> 0]
        BY <3>1, <3>3
      <4>8. Due(b)' = now + req[p].delay
        BY <4>7 DEF Due
      <4>9. \A x \in BookingIds \ {b} : jobs'[x] = jobs[x] /\ Due(x)' = Due(x)
        BY <3>3 DEF Due
      <4>10. ReminderKeepsLead'
        <5> SUFFICES ASSUME NEW x \in BookingIds, jobs'[x].state # "none"
                     PROVE  /\ x \in DOMAIN items'
                            /\ jobs'[x].asked <= jobs'[x].timestamp
                            /\ \E n \in ReminderOptions :
                                 /\ jobs'[x].asked < FireAt(x, n)'
                                 /\ Due(x)' = FireAt(x, n)'
                                      + (jobs'[x].timestamp - jobs'[x].asked)
          BY DEF ReminderKeepsLead, FireAt
        <5>1. CASE x = b
          <6>1. /\ jobs'[b].asked = req[p].asked
                /\ jobs'[b].timestamp = now
            BY <4>7
          <6> QED BY <4>2, <4>3, <4>4, <4>6, <4>8, <5>1, <6>1
        <5>2. CASE x # b
          BY <4>3, <4>4, <4>9, <5>2 DEF LeadsKept, ReminderKeepsLead, FireAt
        <5> QED BY <5>1, <5>2
      <4>11. req' = [req EXCEPT ![p] = Idle]
        BY <2>6 DEF ReminderAddJob, Return, Become
      <4> QED BY <4>3, <4>4, <4>10, <4>11 DEF LeadsKept, Idle
    <3> QED BY <2>6, <3>0, <3>2, <3>3 DEF ReminderAddJob, AddJob
  <2> QED BY <1>4, <2>1, <2>2, <2>3, <2>4, <2>5, <2>6 DEF Advance
<1>5. ASSUME QueueNext, UNCHANGED req
      PROVE  LeadsKept'
  <2> DEFINE SameJob(b) == /\ jobs'[b].timestamp = jobs[b].timestamp
                           /\ jobs'[b].delay = jobs[b].delay
                           /\ jobs'[b].asked = jobs[b].asked
  <2>1. /\ now <= now'
        /\ \A b \in BookingIds :
             jobs'[b].state # "none" => jobs[b].state # "none" /\ SameJob(b)
    <3>1. CASE Tick
      BY <1>2, <3>1 DEF Tick
    <3>2. ASSUME NEW x \in BookingIds, StartReminder(x)
          PROVE  \A b \in BookingIds \ {x} : jobs'[b] = jobs[b]
      BY <3>2 DEF StartReminder
    <3>3. ASSUME NEW x \in BookingIds, StartReminder(x)
          PROVE  jobs[x].state = "scheduled" /\ SameJob(x)
      BY <3>3 DEF StartReminder, Job
    <3>4. ASSUME NEW x \in BookingIds, FinishReminder(x)
          PROVE  /\ \A b \in BookingIds \ {x} : jobs'[b] = jobs[b]
                 /\ jobs'[x].state = "none"
      BY <3>4 DEF FinishReminder, NoJob
    <3>5. ASSUME NEW x \in BookingIds, FailReminder(x)
          PROVE  /\ \A b \in BookingIds \ {x} : jobs'[b] = jobs[b]
                 /\ jobs[x].state = "active" /\ SameJob(x)
      BY <3>5 DEF FailReminder, Job
    <3>6. ASSUME NEW x \in BookingIds, Worker(x)
          PROVE  now' = now
      BY <3>6 DEF Worker, StartReminder, FinishReminder, FailReminder
    <3> QED BY <1>2, <1>5, <3>1, <3>2, <3>3, <3>4, <3>5, <3>6 DEF QueueNext, Worker
  <2> QED BY <1>1, <1>2, <1>5, <2>1, LeadsStay
<1> QED BY <1>4, <1>5 DEF BookingsNext, RequestsNext

(* For any offsets and any number of requests, a reminder keeps its lead,   *)
(* but for the time its request took to add it.                             *)
THEOREM ReminderLeadKept == BookingsSpec => []ReminderKeepsLead
<1>1. BookingsInit => LeadsKept
  BY DEF BookingsInit, RequestsInit, QueueInit, NoJob, Idle, LeadsKept,
         ReminderKeepsLead
<1>2. LeadsKept /\ UNCHANGED bookingsVars => LeadsKept'
  BY DEF LeadsKept, ReminderKeepsLead, FireAt, Due, bookingsVars, rowVars,
         queueVars
<1>3. LeadsKept => ReminderKeepsLead
  BY DEF LeadsKept
<1> QED
  BY <1>1, <1>2, <1>3, LeadsNext, BookingsTypeCorrect, PTL DEF BookingsSpec

=============================================================================
