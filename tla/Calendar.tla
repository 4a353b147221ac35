------------------------------ MODULE Calendar ------------------------------
(***************************************************************************)
(* Dates: from the registers of the real-time clock to seconds since 1970  *)
(* (arch/x86/clock.c) and from there to the date that the date command     *)
(* prints (bin/date.c), day by day over all years the clock can hold.      *)
(*                                                                         *)
(* Seconds since 1970 are a pair of a day number and a second of that day: *)
(* the last second of 2099 is below 2^32, so days * 86400 does not wrap.   *)
(***************************************************************************)
EXTENDS Clock, Sequences, FiniteSets

CONSTANT LastYear    \* bound: the calendar runs from 2000 to here, at most 2099

ASSUME CalendarAssumption == LastYear \in 2000 .. 2099

VARIABLES
  yr, mon, day,      \* the true date
  weekday,           \* its day of the week, Sunday is 0
  since,             \* days since 1970-01-01, counted
  bcd_mode           \* bit 2 of register 0x0B is clear

calendarVars == <<yr, mon, day, weekday, since, bcd_mode>>

is_leap(year) == (year % 4 = 0 /\ year % 100 # 0) \/ year % 400 = 0

\* Months from 0 as in the code.
days_in_month(year, m) ==
  IF m = 1 /\ is_leap(year) THEN 29
  ELSE <<31, 28, 31, 30, 31, 30, 31, 31, 30, 31, 30, 31>>[m + 1]
-----------------------------------------------------------------------------
(* The real-time clock, the reference: Gregorian, a day a step.            *)
GregorianLeap == (yr % 4 = 0) /\ ((yr % 100 = 0) => (yr % 400 = 0))
MonthLength ==
  IF mon = 2 THEN IF GregorianLeap THEN 29 ELSE 28
  ELSE IF mon \in {4, 6, 9, 11} THEN 30 ELSE 31

\* 2000-01-01, a Saturday, was day 10957.
CalendarInit ==
  /\ bcd_mode \in BOOLEAN
  /\ yr = 2000 /\ mon = 1 /\ day = 1
  /\ weekday = 6 /\ since = 10957

NextDay ==
  /\ ~(yr = LastYear /\ mon = 12 /\ day = 31)
  /\ since' = since + 1 /\ weekday' = (weekday + 1) % 7
  /\ IF day < MonthLength THEN day' = day + 1 /\ UNCHANGED <<mon, yr>>
     ELSE /\ day' = 1
          /\ IF mon < 12 THEN mon' = mon + 1 /\ UNCHANGED yr
             ELSE mon' = 1 /\ yr' = yr + 1
  /\ UNCHANGED bcd_mode

CalendarSpec == CalendarInit /\ [][NextDay]_calendarVars

\* What a register holds for a number.
Register(n) == IF bcd_mode THEN (n \div 10) * 16 + (n % 10) ELSE n
-----------------------------------------------------------------------------
bcd(v) == (v % 16) + (v \div 16) * 10

rtc_value(reg) == IF bcd_mode THEN bcd(reg) ELSE reg

\* The leap day of the year itself.
LeapDay(m, year) == m > 2 /\ year % 4 = 0 /\ (year % 100 # 0 \/ year % 400 = 0)

(* The days of rtc_seconds_since_epoch.                                    *)
rtc_days(day_reg, mon_reg, year_reg) ==
  LET d == rtc_value(day_reg)
      m == rtc_value(mon_reg)
      year == 2000 + rtc_value(year_reg)
      days_before == <<0, 31, 59, 90, 120, 151, 181, 212, 243, 273, 304, 334>>
  IN  (year - 1970) * 365 + (year - 1969) \div 4 + days_before[m] + (d - 1)
        + (IF LeapDay(m, year) THEN 1 ELSE 0)

\* Days that the first loop of epoch_to_utc takes off before it gets to a year.
DaysBefore ==
  [year \in 1970 .. LastYear + 1 |->
     365 * (year - 1970) + Cardinality({k \in 1970 .. year - 1 : is_leap(k)})]

\* It stops where the days that are left fit the year, the second one where
\* they fit the month.
epoch_to_utc(t) ==
  LET year == CHOOSE n \in 1970 .. LastYear : DaysBefore[n] <= t /\ t < DaysBefore[n + 1]
      loop[n \in 0 .. 11] ==
        IF n = 0 THEN [m |-> 0, t |-> t - DaysBefore[year]]
        ELSE LET r == loop[n - 1]
                 d == days_in_month(year, r.m)
             IN  IF r.t < d THEN r ELSE [m |-> r.m + 1, t |-> r.t - d]
  IN  [year |-> year, mon |-> loop[11].m, mday |-> loop[11].t + 1, wday |-> (t + 4) % 7]
-----------------------------------------------------------------------------
RtcDays == rtc_days(Register(day), Register(mon), Register(yr % 100))

(* The seconds since 1970 that the kernel takes from the clock at boot are *)
(* those of the date, for every day and both codings of the registers.     *)
EpochIsExact == RtcDays = since

(* The date command prints the date that the real-time clock holds, with   *)
(* its day of the week.                                                    *)
DatePrintsDate ==
  LET d == epoch_to_utc(RtcDays)
  IN  d.year = yr /\ d.mon = mon - 1 /\ d.mday = day /\ d.wday = weekday

(* Every date up to the last year is turned into the right number of days  *)
(* at boot, and back into the same date by the date command.               *)
DatesCorrect == EpochIsExact /\ DatePrintsDate

(* Time: no clock goes back or is more than a nanosecond off, real time    *)
(* follows the chip that was read at boot, and every date up to the last   *)
(* year becomes the right number of days and the same date again.          *)
TimeCorrect == ClockCorrect /\ []DatesCorrect
=============================================================================
