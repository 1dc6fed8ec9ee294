---------------------------- MODULE Maintenance ----------------------------
(***************************************************************************)
(* The weekly maintenance window of a monitor (Monitor.InMaintenance in    *)
(* internal/store/monitors.go).  The instants of a week form a circle of   *)
(* (day, minute) pairs; a window starts on one weekday and may run past    *)
(* midnight.  The program has 7 days of 1440 minutes.                      *)
(***************************************************************************)
EXTENDS Integers

CONSTANTS MinutesPerDay, DaysPerWeek

ASSUME CalendarAssumption ==
  /\ MinutesPerDay \in Nat \ {0}
  /\ DaysPerWeek \in Nat \ {0}

Days     == 0 .. DaysPerWeek - 1
Minutes  == 0 .. MinutesPerDay - 1
Instants == [day : Days, minute : Minutes]

\* MaintEnabled, MaintWeekday, MaintStart and MaintEnd of a monitor.  A start
\* or end that does not parse never opens a window: it counts as disabled.
Windows == [enabled : BOOLEAN, weekday : Days, start : Minutes, end : Minutes]

Yesterday(d) == IF d = 0 THEN DaysPerWeek - 1 ELSE d - 1
Tomorrow(d)  == IF d = DaysPerWeek - 1 THEN 0 ELSE d + 1

\* The wall clock, one minute later.
NextInstant(t) ==
  IF t.minute = MinutesPerDay - 1
  THEN [day |-> Tomorrow(t.day), minute |-> 0]
  ELSE [day |-> t.day, minute |-> t.minute + 1]

\* Variant: what is past midnight is looked for on the weekday itself.
InMaintenanceSameDay(w, t) ==
  w.enabled /\ t.day = w.weekday
  /\ \/ w.start < w.end /\ t.minute >= w.start /\ t.minute < w.end
     \/ w.start > w.end /\ (t.minute >= w.start \/ t.minute < w.end)

InMaintenance(w, t) ==
  /\ w.enabled
  /\ \/ /\ w.start < w.end
        /\ t.day = w.weekday
        /\ t.minute >= w.start /\ t.minute < w.end
     \/ /\ w.start > w.end
        /\ \/ t.day = w.weekday /\ t.minute >= w.start
           \/ Yesterday(t.day) = w.weekday /\ t.minute < w.end
----------------------------------------------------------------------------
\* What the window is meant to be: it opens at one instant of the week and
\* closes at one other, and nothing else changes it.
OpensAt(w) == [day |-> w.weekday, minute |-> w.start]
ClosesAt(w) == [day |-> IF w.start < w.end THEN w.weekday ELSE Tomorrow(w.weekday),
                minute |-> w.end]
=============================================================================
