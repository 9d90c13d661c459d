-------------------------- MODULE CycleWindowProofs --------------------------
(* getCurrentCycleWindow is right for every anchor day and every calendar.  *)
EXTENDS CycleWindow, TLAPS

LEMMA MonthsType == Months \in Int /\ Months > 2
BY CalendarAssumption

LEMMA MonthOfDay ==
  ASSUME NEW t \in Today
  PROVE  /\ MonthOf(t) \in 1 .. Months - 2
         /\ FirstDay[MonthOf(t)] <= t
         /\ t < FirstDay[MonthOf(t) + 1]
<1> DEFINE m == MonthOf(t)
<1>1. 0 \in 0 .. Months /\ 1 \in 0 .. Months /\ Months - 1 \in 0 .. Months
  BY CalendarAssumption
<1>2. FirstDay[0] <= FirstDay[1] /\ FirstDay[Months - 1] <= FirstDay[Months]
  BY <1>1, CalendarAssumption
<1>3. t \in FirstDay[0] .. FirstDay[Months] - 1
  BY <1>1, <1>2, SMTT(30), CalendarAssumption DEF Today
<1>4. m \in 0 .. Months - 1 /\ FirstDay[m] <= t /\ t < FirstDay[m + 1]
  BY <1>3, CalendarAssumption DEF MonthOf
<1>5. FirstDay[1] <= t /\ t < FirstDay[Months - 1]
  BY <1>1, CalendarAssumption DEF Today
<1>6. \A n \in 0 .. Months : FirstDay[n] \in Int
  BY CalendarAssumption
<1>7. t \in Int
  BY <1>1, <1>6 DEF Today
<1> HIDE DEF m
<1>8. m # 0
  BY <1>1, <1>4, <1>5, <1>6, <1>7
<1>9. m # Months - 1
  BY <1>1, <1>4, <1>5, <1>6, <1>7
<1>10. m \in 1 .. Months - 2
  BY <1>4, <1>8, <1>9, MonthsType
<1> QED
  BY <1>4, <1>10 DEF m

LEMMA ClampedInMonth ==
  ASSUME NEW m \in 0 .. Months - 1, NEW d \in Days
  PROVE  /\ ClampedDate(m, d) \in Int
         /\ FirstDay[m] \in Int /\ FirstDay[m + 1] \in Int
         /\ FirstDay[m] <= ClampedDate(m, d)
         /\ ClampedDate(m, d) < FirstDay[m + 1]
<1>1. m + 1 \in 0 .. Months /\ m \in 0 .. Months /\ m < m + 1
  BY CalendarAssumption
<1>2. FirstDay[m] \in Int /\ FirstDay[m + 1] \in Int /\ FirstDay[m] + 28 <= FirstDay[m + 1]
  BY <1>1, CalendarAssumption
<1> QED
  BY <1>2 DEF ClampedDate, MonthLength, Days

\* The start of a month's cycle separates its days.
LEMMA StartMonthType ==
  ASSUME NEW t \in Today, NEW d \in Days
  PROVE  /\ StartMonth(d, t) \in 0 .. Months - 2
         /\ ClampedDate(StartMonth(d, t), d) <= t
         /\ t < ClampedDate(StartMonth(d, t) + 1, d)
<1> DEFINE m == MonthOf(t)
<1>1. m \in 1 .. Months - 2 /\ FirstDay[m] <= t /\ t < FirstDay[m + 1]
  BY MonthOfDay
<1>2. m \in 0 .. Months - 1 /\ m - 1 \in 0 .. Months - 1 /\ m + 1 \in 0 .. Months - 1
  BY <1>1, MonthsType
<1>3. t \in Int
  BY CalendarAssumption, <1>2 DEF Today
<1>4. CASE t < ClampedDate(m, d)
  <2>1. StartMonth(d, t) = m - 1
    BY <1>4 DEF StartMonth
  <2>2. ClampedDate(m - 1, d) < FirstDay[(m - 1) + 1] /\ ClampedDate(m - 1, d) \in Int
    BY <1>2, ClampedInMonth
  <2>3. (m - 1) + 1 = m
    BY <1>2
  <2>4. m - 1 \in 0 .. Months - 2
    BY <1>1, MonthsType
  <2>5. FirstDay[m] \in Int
    BY <1>2, ClampedInMonth
  <2>6. ClampedDate(m - 1, d) <= t
    BY <1>1, <1>3, <2>2, <2>3, <2>5
  <2>7. t < ClampedDate((m - 1) + 1, d)
    BY <1>4, <2>3
  <2> QED
    BY <2>1, <2>4, <2>6, <2>7
<1>5. CASE ~(t < ClampedDate(m, d))
  <2>1. StartMonth(d, t) = m
    BY <1>5 DEF StartMonth
  <2>2. FirstDay[m + 1] <= ClampedDate(m + 1, d) /\ ClampedDate(m + 1, d) \in Int
    BY <1>2, ClampedInMonth
  <2>3. ClampedDate(m, d) \in Int /\ FirstDay[m + 1] \in Int
    BY <1>2, ClampedInMonth
  <2> QED
    BY <1>1, <1>2, <1>3, <1>5, <2>1, <2>2, <2>3
<1> QED
  BY <1>4, <1>5

\* Cycle starts of later months are later.
LEMMA StartsIncrease ==
  ASSUME NEW m \in 0 .. Months - 1, NEW n \in 0 .. Months - 1, m < n, NEW d \in Days
  PROVE  ClampedDate(m, d) < ClampedDate(n, d)
<1>1. m + 1 \in 0 .. Months /\ n \in 0 .. Months /\ m + 1 <= n
  BY CalendarAssumption
<1>2. FirstDay[m + 1] <= FirstDay[n]
  <2>1. CASE m + 1 = n
    BY <1>1, <2>1, CalendarAssumption
  <2>2. CASE m + 1 < n
    BY <1>1, <2>2, CalendarAssumption
  <2> QED
    BY <1>1, <2>1, <2>2
<1> QED
  BY <1>2, ClampedInMonth

\* Only one cycle holds an instant.
LEMMA OneCycle ==
  ASSUME NEW m \in 0 .. Months - 2, NEW n \in 0 .. Months - 2, NEW d \in Days, NEW t \in Int,
         ClampedDate(m, d) <= t, t < ClampedDate(m + 1, d),
         ClampedDate(n, d) <= t, t < ClampedDate(n + 1, d)
  PROVE  m = n
<1>1. \A i, j \in 0 .. Months - 2 :
        ~(i < j /\ ClampedDate(j, d) <= t /\ t < ClampedDate(i + 1, d))
  <2> SUFFICES ASSUME NEW i \in 0 .. Months - 2, NEW j \in 0 .. Months - 2, i < j,
                      ClampedDate(j, d) <= t, t < ClampedDate(i + 1, d)
               PROVE  FALSE
    OBVIOUS
  <2>1. i + 1 \in 0 .. Months - 1 /\ j \in 0 .. Months - 1 /\ i + 1 <= j
    BY CalendarAssumption
  <2>2. ClampedDate(i + 1, d) <= ClampedDate(j, d)
    <3>1. CASE i + 1 = j
      BY <2>1, <3>1, ClampedInMonth
    <3>2. CASE i + 1 < j
      BY <2>1, <3>2, StartsIncrease, ClampedInMonth
    <3> QED
      BY <2>1, <3>1, <3>2
  <2> QED
    BY <2>1, <2>2, ClampedInMonth
<1> QED
  BY <1>1, CalendarAssumption

\* What Redemption assumes of CycleStart: the start of a cycle is never after the
\* instant, and never decreases as time passes.
THEOREM CycleStartsAreMonotone ==
  ASSUME NEW d \in Days, NEW s \in Today, NEW t \in Today, s <= t
  PROVE  /\ CurrentCycleWindow(d, t).cycleStart <= t
         /\ CurrentCycleWindow(d, s).cycleStart <= CurrentCycleWindow(d, t).cycleStart
<1> DEFINE m == StartMonth(d, s)
           n == StartMonth(d, t)
<1>1. /\ m \in 0 .. Months - 2 /\ n \in 0 .. Months - 2
      /\ ClampedDate(m, d) <= s /\ s < ClampedDate(m + 1, d)
      /\ ClampedDate(n, d) <= t /\ t < ClampedDate(n + 1, d)
  BY StartMonthType
<1>2. /\ m \in 0 .. Months - 1 /\ n \in 0 .. Months - 1
      /\ m + 1 \in 0 .. Months - 1 /\ n + 1 \in 0 .. Months - 1
  BY <1>1, MonthsType
<1>3. s \in Int /\ t \in Int
  BY DEF Today
<1>4. ClampedDate(m, d) <= ClampedDate(n, d)
  <2>1. CASE m <= n
    BY <1>2, <2>1, StartsIncrease, ClampedInMonth
  <2>2. CASE n < m
    <3>1. ClampedDate(n + 1, d) <= ClampedDate(m, d)
      BY <1>2, <2>2, StartsIncrease, ClampedInMonth
    <3> QED
      BY <1>1, <1>2, <1>3, <3>1, ClampedInMonth
  <2> QED
    BY <1>2, <2>1, <2>2
<1> QED
  BY <1>1, <1>4 DEF CurrentCycleWindow

-----------------------------------------------------------------------------
(* The state machine: a day passes, a read computes the window.             *)

Inv ==
  /\ anchor \in Days
  /\ now \in Today
  /\ window = CurrentCycleWindow(anchor, now)

LEMMA InvInit == Init => Inv
<1>1. 1 \in 0 .. Months /\ Months - 1 \in 0 .. Months /\ 1 < Months - 1
  BY MonthsType
<1>2. FirstDay[1] \in Today
  BY <1>1, CalendarAssumption DEF Today
<1> QED
  BY <1>2 DEF Init, Inv

LEMMA InvStep == Inv /\ [NextDay]_vars => Inv'
BY DEF Inv, NextDay, vars

\* The window returned holds the instant it was asked about.
THEOREM HoldsNowHolds == Spec => []HoldsNow
<1>1. Inv => HoldsNow
  BY StartMonthType DEF Inv, HoldsNow, CurrentCycleWindow
<1> QED
  BY <1>1, InvInit, InvStep, PTL DEF Spec

\* Windows tile time: no day is in two cycles and none is in no cycle.
THEOREM WindowsTileHolds == Spec => WindowsTile
<1>1. ASSUME Inv, NextDay
      PROVE  IF now' = window.cycleEnd
               THEN window'.cycleStart = window.cycleEnd
               ELSE window' = window
  <2> DEFINE m == StartMonth(anchor, now)
             n == StartMonth(anchor, now + 1)
  <2>1. anchor \in Days /\ now \in Today /\ now + 1 \in Today /\ now \in Int
    BY <1>1 DEF Inv, NextDay, Today
  <2>2. /\ m \in 0 .. Months - 2 /\ n \in 0 .. Months - 2
        /\ ClampedDate(m, anchor) <= now /\ now < ClampedDate(m + 1, anchor)
        /\ ClampedDate(n, anchor) <= now + 1 /\ now + 1 < ClampedDate(n + 1, anchor)
    BY <2>1, StartMonthType
  <2>3. /\ window.cycleEnd = ClampedDate(m + 1, anchor)
        /\ window'.cycleStart = ClampedDate(n, anchor)
        /\ window = CurrentCycleWindow(anchor, now)
        /\ window' = CurrentCycleWindow(anchor, now + 1)
        /\ now' = now + 1
    BY <1>1 DEF Inv, NextDay, CurrentCycleWindow
  <2>4. /\ m + 1 \in 0 .. Months - 1 /\ n + 1 \in 0 .. Months - 1
        /\ m \in 0 .. Months - 1 /\ n \in 0 .. Months - 1
    BY <2>2, MonthsType
  <2>5. CASE now + 1 = ClampedDate(m + 1, anchor)
    <3>1. ~(n <= m)
      <4>1. CASE n = m
        <5>1. ClampedDate(n + 1, anchor) = ClampedDate(m + 1, anchor)
          BY <4>1
        <5> QED
          BY <2>1, <2>2, <2>5, <5>1
      <4>2. CASE n < m
        <5>1. ClampedDate(n + 1, anchor) <= ClampedDate(m, anchor)
          BY <2>1, <2>4, <4>2, StartsIncrease, ClampedInMonth
        <5> QED
          BY <2>1, <2>2, <2>4, <5>1, ClampedInMonth
      <4> QED
        BY <2>2, <4>1, <4>2
    <3>2. ~(m + 1 < n)
      <4>1. ASSUME m + 1 < n PROVE FALSE
        <5>1. ClampedDate(m + 1, anchor) < ClampedDate(n, anchor)
          BY <2>1, <2>4, <4>1, StartsIncrease
        <5> QED
          BY <2>1, <2>2, <2>4, <2>5, <5>1, ClampedInMonth
      <4> QED
        BY <4>1
    <3> QED
      BY <2>2, <2>3, <2>5, <3>1, <3>2
  <2>6. CASE now + 1 # ClampedDate(m + 1, anchor)
    <3>1. now + 1 < ClampedDate(m + 1, anchor) /\ ClampedDate(m, anchor) <= now + 1
      BY <2>1, <2>2, <2>4, <2>6, ClampedInMonth
    <3>2. m = n
      BY <2>1, <2>2, <3>1, OneCycle
    <3> QED
      BY <2>3, <2>6, <3>2 DEF CurrentCycleWindow
  <2> QED
    BY <2>3, <2>5, <2>6
<1>2. Inv /\ [NextDay]_vars
        => [IF now' = window.cycleEnd
              THEN window'.cycleStart = window.cycleEnd
              ELSE window' = window]_vars
  BY <1>1
<1> QED
  BY <1>2, InvInit, InvStep, PTL DEF Spec, WindowsTile

\* Clamping never drifts from the anchor day.
THEOREM NoDriftHolds == Spec => []NoDrift
<1>1. Inv => NoDrift
  <2> SUFFICES ASSUME Inv PROVE NoDrift
    OBVIOUS
  <2> DEFINE m == StartMonth(anchor, now)
  <2>1. m \in 0 .. Months - 1 /\ anchor \in Days
    BY StartMonthType, MonthsType DEF Inv
  <2>2. window.cycleStart = ClampedDate(m, anchor)
    BY DEF Inv, CurrentCycleWindow
  <2>3. FirstDay[m] \in Int /\ FirstDay[m + 1] \in Int
    BY <2>1, ClampedInMonth
  <2> QED
    BY <2>1, <2>2, <2>3 DEF NoDrift, ClampedDate, MonthLength, Days
<1> QED
  BY <1>1, InvInit, InvStep, PTL DEF Spec
=============================================================================
