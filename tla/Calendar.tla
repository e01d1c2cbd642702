------------------------------ MODULE Calendar ------------------------------
(***************************************************************************)
(* traffic.go CycleStart and clampDay on the real (UTC) calendar, checked  *)
(* day by day against what a billing cycle means: it turns on the reset    *)
(* day of each month, or on the month's last day if that comes first.      *)
(* A boundary is at midnight, so the time of day never matters.            *)
(***************************************************************************)
EXTENDS Naturals

CONSTANTS FirstYear, LastYear   \* bound: the days that are walked

ASSUME CalendarAssumption ==
  FirstYear \in Nat /\ LastYear \in Nat /\ 0 < FirstYear /\ FirstYear <= LastYear

VARIABLES today,      \* [y, m, d]
          resetDay,   \* 1..31
          turned      \* the day this cycle began, by the meaning of a cycle

calendarVars == <<today, resetDay, turned>>

\* time.Date(year, month+1, 0).Day(): the Gregorian calendar of Go's time.
IsLeap(y) == (y % 4 = 0 /\ y % 100 # 0) \/ y % 400 = 0
DaysIn(y, m) ==
  CASE m \in {4, 6, 9, 11} -> 30
    [] m = 2 -> IF IsLeap(y) THEN 29 ELSE 28
    [] OTHER -> 31

clampDay(day, y, m) ==
  IF day < 1 THEN 1
  ELSE IF day > DaysIn(y, m) THEN DaysIn(y, m) ELSE day

\* AddDate(0, -1, 0) from the first of the month.
PreviousMonth(y, m) == IF m = 1 THEN [y |-> y - 1, m |-> 12] ELSE [y |-> y, m |-> m - 1]

\* Mutant: the day clamped for this month is reused in the previous one.
CycleStart_ClampOnce(now, day) ==
  LET here == clampDay(day, now.y, now.m)
      prev == PreviousMonth(now.y, now.m)
  IN IF here <= now.d THEN [y |-> now.y, m |-> now.m, d |-> here]
     ELSE [y |-> prev.y, m |-> prev.m, d |-> here]

CycleStart(now, day) ==
  LET here == clampDay(day, now.y, now.m)
      prev == PreviousMonth(now.y, now.m)
  IN IF here <= now.d THEN [y |-> now.y, m |-> now.m, d |-> here]
     ELSE [y |-> prev.y, m |-> prev.m, d |-> clampDay(day, prev.y, prev.m)]
-----------------------------------------------------------------------------
Tomorrow(t) ==
  IF t.d < DaysIn(t.y, t.m) THEN [t EXCEPT !.d = @ + 1]
  ELSE IF t.m < 12 THEN [y |-> t.y, m |-> t.m + 1, d |-> 1]
  ELSE [y |-> t.y + 1, m |-> 1, d |-> 1]

\* The cycle turns on day t: the reset day, or the last day of a shorter month.
Turns(t, day) == t.d = day \/ (t.d < day /\ t.d = DaysIn(t.y, t.m))

\* The walk starts on New Year's Eve, a 31st on which every December reset
\* day has passed.
CalendarInit ==
  /\ today = [y |-> FirstYear - 1, m |-> 12, d |-> 31]
  /\ resetDay \in 1..31
  /\ turned = [y |-> FirstYear - 1, m |-> 12, d |-> resetDay]

NextDay ==
  /\ Tomorrow(today).y <= LastYear
  /\ today' = Tomorrow(today)
  /\ turned' = IF Turns(today', resetDay) THEN today' ELSE turned
  /\ UNCHANGED resetDay

CalendarSpec == CalendarInit /\ [][NextDay]_calendarVars
-----------------------------------------------------------------------------
\* traffic.go: "CycleStart returns the most recent UTC cycle boundary at or
\* before now", through months of every length and leap years.
MostRecentBoundary == CycleStart(today, resetDay) = turned
=============================================================================
