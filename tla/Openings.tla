------------------------------- MODULE Openings -------------------------------
(***************************************************************************)
(* When a shop can be booked: the opening hours, the dates and the slots   *)
(* of GET /shops/:id/availability, and the hours of a shop profile.        *)
(*                                                                         *)
(* Time is counted in any unit from midnight of day 0 in the shops' zone;  *)
(* weekday 1 is a Monday, and so is day 0.  Hours are a set of rows [day,  *)
(* start, end, closed] of one shop.  V7 lets several open rows of a shop   *)
(* share a weekday: their staff_id IS NULL, and NULLs never conflict in    *)
(* the exclusion constraint.                                               *)
(***************************************************************************)
EXTENDS Integers

CONSTANTS
  DayLength,      \* a day, in units
  SlotLength,     \* SLOT_DURATION_MINUTES, in units
  ZoneAhead,      \* how far the shops' zone is ahead of UTC
  LookAhead       \* AVAILABILITY_LOOK_AHEAD_DAYS

ASSUME OpeningsAssumption ==
  /\ DayLength \in Nat \ {0} /\ SlotLength \in 1..DayLength
  /\ LookAhead \in Nat \ {0}
  /\ ZoneAhead \in 0..(DayLength - 1)

(* chk_schedules_time_window; a closed row has no times.                    *)
HoursRow ==
  {row \in [day : 1..7, start : 0..DayLength, end : 0..DayLength, closed : BOOLEAN] :
     IF row.closed THEN row.start = 0 /\ row.end = 0 ELSE row.start < row.end}

(* The ISO weekday of a moment: 7 for a Sunday.                             *)
Weekday(moment) == ((moment \div DayLength) % 7) + 1

(* parseDate: midnight of the date, as a moment of UTC.                     *)
ParsedDate(date) == date * DayLength

(* Dates whose weekday has an open row.  The weekday is the one of getDay() *)
(* at midnight of UTC, in the server's own zone, which is "ahead" of UTC or *)
(* behind it; effective dates and exceptions are not looked at.             *)
AvailableDates(hours, from, ahead) ==
  {date \in from..(from + LookAhead - 1) :
     \E row \in hours :
       ~row.closed /\ row.day = Weekday(ParsedDate(date) + ahead)}

(* The open rows findOne may return, for the weekday of getUTCDay().        *)
RowsFor(hours, date) ==
  {row \in hours : ~row.closed /\ row.day = Weekday(ParsedDate(date))}

(* Whole slots inside the hours, aligned to their start.                    *)
GenerateSlots(row) ==
  {t \in row.start..row.end :
     (t - row.start) % SlotLength = 0 /\ t + SlotLength <= row.end}

(* Mutant of the next definition: items are compared by their start.        *)
FreeByStart(slot, date, booked) ==
  ~\E x \in booked :
     /\ x.start >= date * DayLength /\ x.end <= (date + 1) * DayLength
     /\ x.live /\ x.start = date * DayLength + slot

(* No live item that lies within the day overlaps the slot.                 *)
FreeSlot(slot, date, booked) ==
  ~\E x \in booked :
     /\ x.start >= date * DayLength /\ x.end <= (date + 1) * DayLength
     /\ x.live
     /\ x.start < date * DayLength + slot + SlotLength
     /\ x.end > date * DayLength + slot

(* getTimeSlots on the row it found, for the items of a specialist; without *)
(* a specialist every slot.                                                 *)
TimeSlots(row, date, booked) ==
  {slot \in GenerateSlots(row) : FreeSlot(slot, date, booked)}

(* Mutant of the next definition: the hours are compared with UTC.          *)
IsShopOpenNowUtc(hours, moment) ==
  \E row \in hours :
    /\ ~row.closed /\ row.day = Weekday(moment)
    /\ row.start <= moment % DayLength /\ moment % DayLength < row.end

(* isShopOpenNow at a moment of UTC, the effective dates being open.        *)
IsShopOpenNow(hours, moment) ==
  LET local == moment + ZoneAhead
  IN \E row \in hours :
       /\ ~row.closed /\ row.day = Weekday(local)
       /\ row.start <= local % DayLength /\ local % DayLength < row.end

(* findWorkingHours: one line per row of the weekday, closed or with hours. *)
WorkingHours(hours, day) == {row \in hours : row.day = day}
=============================================================================
