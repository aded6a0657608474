---------------------------- MODULE ReminderQueue ----------------------------
(***************************************************************************)
(* The booking-reminder queue: the two operations of its producer, and the *)
(* worker that turns a due job into a reminder message.  A job's id is the *)
(* booking's id, so a booking has at most one job.  The queue itself       *)
(* (BullMQ) is external; of it we use that adding an existing id does      *)
(* nothing, that a job is due "delay" after the queue got it ("timestamp"), *)
(* that a job being worked on cannot be removed, and that a failed attempt *)
(* is retried, after a backoff of seconds, until "attempts" is used up.    *)
(* Time is counted in hours up to the bound MaxTime.  A job's "asked" is   *)
(* not in the queue: it keeps the time at which the delay was computed, so *)
(* that properties can speak of it.                                        *)
(***************************************************************************)
EXTENDS BookingRows

CONSTANTS
  MaxTime,      \* bound on the clock
  Attempts      \* the producer's attempts option

ASSUME QueueAssumption == MaxTime \in Nat /\ Attempts \in Nat \ {0}

VARIABLES
  now,    \* the clock
  jobs    \* booking id -> its reminder job

queueVars == <<now, jobs>>

NoJob == [state |-> "none", timestamp |-> 0, delay |-> 0, asked |-> 0,
          tries |-> 0]

Job == [state : {"none", "scheduled", "active", "failed"},
        timestamp : Nat,
        delay : Nat,
        asked : Nat,
        tries : 0..Attempts]

QueueInit ==
  /\ now = 0
  /\ jobs = [b \in BookingIds |-> NoJob]

QueueTypeOK ==
  /\ now \in 0..MaxTime
  /\ jobs \in [BookingIds -> Job]

-----------------------------------------------------------------------------
(* Mutant of the next definition: the offset has the wrong sign.            *)
FireAtAfter(b, o) == items[b].start + o

(* computeReminderFireAt.                                                   *)
FireAt(b, o) == items[b].start - o

(* job.remove() throws on a job a worker holds.                             *)
JobLocked(b) == jobs[b].state = "active"

(* cancelReminder on a job that is not locked; no job, nothing to do.       *)
RemoveJob(b) == jobs' = [jobs EXCEPT ![b] = NoJob]

(* queue.add with jobId = booking id: an existing job is left as it is.     *)
AddJob(b, delay, asked) ==
  jobs' = [jobs EXCEPT ![b] =
             IF @.state = "none"
             THEN [state |-> "scheduled", timestamp |-> now, delay |-> delay,
                   asked |-> asked, tries |-> 0]
             ELSE @]

(* A delayed job becomes ready this long after the queue got it.            *)
Due(b) == jobs[b].timestamp + jobs[b].delay

-----------------------------------------------------------------------------
(* Mutant of the next definition: the attempt is not counted.               *)
StartReminderUncounted(b) ==
  /\ jobs[b].state = "scheduled"
  /\ Due(b) <= now
  /\ jobs' = [jobs EXCEPT ![b].state = "active"]
  /\ UNCHANGED <<rowVars, now>>

(* The worker takes a due job.                                              *)
StartReminder(b) ==
  /\ jobs[b].state = "scheduled"
  /\ Due(b) <= now
  /\ jobs' = [jobs EXCEPT ![b].state = "active", ![b].tries = @ + 1]
  /\ UNCHANGED <<rowVars, now>>

(* process(): the message is created, or skipped for want of a phone; the   *)
(* job completes and is removed.                                            *)
FinishReminder(b) ==
  /\ jobs[b].state = "active"
  /\ Dispatch(b, "reminder")
  /\ jobs' = [jobs EXCEPT ![b] = NoJob]
  /\ UNCHANGED <<bookings, items, timeline, now>>

(* process() rethrows: the log may exist already (it is created before its  *)
(* own queue job is added); BullMQ retries, or keeps the job as failed.     *)
FailReminder(b) ==
  /\ jobs[b].state = "active"
  /\ Dispatch(b, "reminder")
  /\ jobs' = [jobs EXCEPT ![b].state =
                IF jobs[b].tries < Attempts THEN "scheduled" ELSE "failed"]
  /\ UNCHANGED <<bookings, items, timeline, now>>

Tick ==
  /\ now < MaxTime
  /\ now' = now + 1
  /\ UNCHANGED <<rowVars, jobs>>

Worker(b) == StartReminder(b) \/ FinishReminder(b) \/ FailReminder(b)

QueueNext == Tick \/ \E b \in BookingIds : Worker(b)
=============================================================================
