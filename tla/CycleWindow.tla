----------------------------- MODULE CycleWindow -----------------------------
(***************************************************************************)
(* The monthly voucher cycle: getCurrentCycleWindow and clampedDate of     *)
(* src/api/subscription/cycle.ts.                                          *)
(*                                                                         *)
(* A subscription keeps one anchor day for life, and every read computes   *)
(* the cycle it is in from the clock alone.  Months differ in length, so   *)
(* an anchor of 29, 30 or 31 is clamped in the shorter ones.  Both ends of *)
(* a window are midnights UTC, so a day is the unit of time here.          *)
(***************************************************************************)
EXTENDS Integers

CONSTANTS
  Months,    \* bound: the calendar runs over months 0 .. Months
  FirstDay   \* the number of the first day of each month

\* Months follow one another without a gap and have at least 28 days.
ASSUME CalendarAssumption ==
  /\ Months \in Nat /\ Months > 2
  /\ FirstDay \in [0 .. Months -> Int]
  /\ \A m, n \in 0 .. Months : m < n => FirstDay[m] + 28 <= FirstDay[n]
  /\ \A t \in FirstDay[0] .. FirstDay[Months] - 1 :
       \E m \in 0 .. Months - 1 : FirstDay[m] <= t /\ t < FirstDay[m + 1]

VARIABLES
  anchor,  \* anchorDate.getUTCDate() of the subscription
  now,     \* the day of the clock
  window   \* what getCurrentCycleWindow(anchorDate, now) returns

vars == <<anchor, now, window>>

Days == 1 .. 31
MonthLength(m) == FirstDay[m + 1] - FirstDay[m]

\* Mutant: the day is not clamped and runs over into the next month.
UnclampedDate(m, d) == FirstDay[m] + d - 1

\* clampedDate(year, month, day)
ClampedDate(m, d) ==
  FirstDay[m] + (IF d <= MonthLength(m) THEN d ELSE MonthLength(m)) - 1

\* now.getUTCFullYear() and now.getUTCMonth()
MonthOf(t) == CHOOSE m \in 0 .. Months - 1 : FirstDay[m] <= t /\ t < FirstDay[m + 1]

\* Mutant: now <= cycleStart.
StartMonthLate(d, t) ==
  IF t <= ClampedDate(MonthOf(t), d) THEN MonthOf(t) - 1 ELSE MonthOf(t)

\* The month in which the cycle of t begins: this one or the one before.
StartMonth(d, t) ==
  IF t < ClampedDate(MonthOf(t), d) THEN MonthOf(t) - 1 ELSE MonthOf(t)

\* Mutant: the month after the clock's, not after the cycle's start.
WindowOfClock(d, t) ==
  [cycleStart |-> ClampedDate(StartMonth(d, t), d),
   cycleEnd   |-> ClampedDate(MonthOf(t) + 1, d)]

CurrentCycleWindow(d, t) ==
  [cycleStart |-> ClampedDate(StartMonth(d, t), d),
   cycleEnd   |-> ClampedDate(StartMonth(d, t) + 1, d)]

\* The days whose windows lie inside the calendar.
Today == FirstDay[1] .. FirstDay[Months - 1] - 1

Init ==
  /\ anchor \in Days
  /\ now = FirstDay[1]
  /\ window = CurrentCycleWindow(anchor, now)

\* A day passes, and the next read computes the window anew.
NextDay ==
  /\ now + 1 \in Today
  /\ now' = now + 1
  /\ window' = CurrentCycleWindow(anchor, now')
  /\ UNCHANGED anchor

Spec == Init /\ [][NextDay]_vars

-----------------------------------------------------------------------------
(* Properties.                                                             *)

\* The window that getCurrentCycleWindow returns holds the instant it was asked
\* about, also when the anchor day is clamped in this month or the last.
HoldsNow == window.cycleStart <= now /\ now < window.cycleEnd

\* Windows tile time: a user's cycle changes on the day its cycleEnd announced
\* and on no other, and the next cycle begins where the last one ended.  No day
\* is in two cycles and none is skipped, whatever the lengths of the months.
WindowsTile ==
  [][IF now' = window.cycleEnd
       THEN window'.cycleStart = window.cycleEnd
       ELSE window' = window]_vars

\* Clamping never drifts: a window begins on the anchor day, or on the last day
\* of a month that has no such day.
NoDrift ==
  \E m \in 0 .. Months - 1 :
    \/ window.cycleStart = FirstDay[m] + anchor - 1 /\ anchor <= MonthLength(m)
    \/ window.cycleStart = FirstDay[m + 1] - 1 /\ anchor > MonthLength(m)
=============================================================================
