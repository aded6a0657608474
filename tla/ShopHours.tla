------------------------------ MODULE ShopHours ------------------------------
(***************************************************************************)
(* A shop's opening hours while they are edited and time passes.  Nothing  *)
(* in the service writes schedules; an edit is external.  Three queries    *)
(* read the rows, each with its own idea of the weekday: the shops' zone   *)
(* for the profile, UTC for the slots and the server's zone for the dates. *)
(***************************************************************************)
EXTENDS Openings, FiniteSets

CONSTANTS
  ServerZones,  \* how far ahead of UTC the server may be, behind if negative
  Weekdays,     \* bound: the weekdays that get rows
  MaxRows,      \* bound: the rows of the shop
  MaxMoment     \* bound on the clock

ASSUME ShopHoursAssumption ==
  /\ ServerZones \subseteq (1 - DayLength)..(DayLength - 1)
  /\ Weekdays \subseteq 1..7 /\ MaxRows \in Nat /\ MaxMoment \in Nat

VARIABLES
  hours,   \* the operating hours rows of the shop
  moment   \* the clock, in UTC

hoursVars == <<hours, moment>>

HoursInit == hours = {} /\ moment = 0

AddRow ==
  /\ Cardinality(hours) < MaxRows
  /\ \E row \in HoursRow : row.day \in Weekdays /\ hours' = hours \cup {row}
  /\ UNCHANGED moment

RemoveRow ==
  /\ \E row \in hours : hours' = hours \ {row}
  /\ UNCHANGED moment

Pass == moment < MaxMoment /\ moment' = moment + 1 /\ UNCHANGED hours

HoursNext == AddRow \/ RemoveRow \/ Pass

-----------------------------------------------------------------------------
(* What a shop's profile says of its hours is what can be booked.  A shop   *)
(* that is open now has a row today whose slots offer the present moment,   *)
(* unless less than a slot is left of it.  The slots of a date are those of *)
(* the hours the profile shows for its weekday, at least one unless they    *)
(* are shorter than a slot.  The dates offered are the ones with hours on   *)
(* that weekday, or, where the server runs west of UTC, on the one before.  *)
OpenShopHasSlots ==
  LET local == moment + ZoneAhead
      today == local \div DayLength
      time  == local % DayLength
      shown(date) == {row \in WorkingHours(hours, (date % 7) + 1) : ~row.closed}
  IN /\ IsShopOpenNow(hours, moment) =>
          \E row \in RowsFor(hours, today) :
            \/ \E slot \in TimeSlots(row, today, {}) :
                 slot <= time /\ time < slot + SlotLength
            \/ row.start <= time /\ time < row.end /\ row.end < time + SlotLength
     /\ \A date \in today..(today + LookAhead - 1) :
          /\ RowsFor(hours, date) = shown(date)
          /\ \A row \in shown(date) :
               TimeSlots(row, date, {}) = {} => row.end - row.start < SlotLength
          /\ \A ahead \in ServerZones :
               date \in AvailableDates(hours, today, ahead)
                 <=> shown(IF ahead < 0 THEN date - 1 ELSE date) # {}
=============================================================================
