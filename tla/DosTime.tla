------------------------------- MODULE DosTime -------------------------------
(***************************************************************************)
(* The DOS dates of entries as Unix times (archive.rs): dos_to_unix, which *)
(* brings a date that is not in the calendar into it as mktime does, in a  *)
(* time zone whose local time is UTC.                                      *)
(***************************************************************************)
EXTENDS Integers

Leap(y) == (y % 4 = 0 /\ y % 100 # 0) \/ y % 400 = 0

days_in_month(y, m) ==
  CASE m \in {1, 3, 5, 7, 8, 10, 12} -> 31
    [] m \in {4, 6, 9, 11} -> 30
    [] m = 2 -> IF Leap(y) THEN 29 ELSE 28

\* A month back or forth, until the day is one of its month.  The day of a stamp
\* has five bits.
Fitted[date \in Int \X (1..12) \X (0..31)] ==
  LET y == date[1]
      m == date[2]
      d == date[3]
      before == IF m = 1 THEN <<y - 1, 12>> ELSE <<y, m - 1>>
      after == IF m = 12 THEN <<y + 1, 1>> ELSE <<y, m + 1>>
  IN  IF d < 1
      THEN Fitted[<<before[1], before[2], d + days_in_month(before[1], before[2])>>]
      ELSE IF d > days_in_month(y, m)
      THEN Fitted[<<after[1], after[2], d - days_in_month(y, m)>>]
      ELSE date

\* Mutant: January is a month late.
normalize_late(y, m, d) == Fitted[<<y + (m \div 12), (m % 12) + 1, d>>]

normalize_ymd(y, m, d) == Fitted[<<y + ((m - 1) \div 12), ((m - 1) % 12) + 1, d>>]

\* chrono's days since the epoch, of a date in the calendar.
DaysSinceEpoch(y, m, d) ==
  LET years == y - (IF m =< 2 THEN 1 ELSE 0)
      months == (m + 9) % 12
  IN  365 * years + (years \div 4) - (years \div 100) + (years \div 400)
        + ((153 * months + 2) \div 5) + d - 1 - 719468

\* The bit fields of a stamp.
Seconds(stamp) == (stamp.time % 32) * 2
Minutes(stamp) == (stamp.time \div 32) % 64
Hours(stamp) == (stamp.time \div 2048) % 32
Day(stamp) == stamp.date % 32
Month(stamp) == (stamp.date \div 32) % 16
Year(stamp) == (stamp.date \div 512) + 1980

InClock(stamp) == Seconds(stamp) < 60 /\ Minutes(stamp) < 60 /\ Hours(stamp) < 24

OfDay(stamp) == Hours(stamp) * 3600 + Minutes(stamp) * 60 + Seconds(stamp)

dos_to_unix(stamp) ==
  LET date == normalize_ymd(Year(stamp), Month(stamp), Day(stamp))
  IN  IF InClock(stamp)
      THEN DaysSinceEpoch(date[1], date[2], date[3]) * 86400 + OfDay(stamp)
      ELSE 0

\* What mktime promises: days are counted from the first of the month and
\* months from January, how many there may be.
Mktime(stamp) ==
  (DaysSinceEpoch(Year(stamp) + ((Month(stamp) - 1) \div 12),
                  ((Month(stamp) - 1) % 12) + 1, 1) + Day(stamp) - 1) * 86400
    + OfDay(stamp)

=============================================================================
