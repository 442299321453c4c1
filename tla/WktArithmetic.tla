--------------------------- MODULE WktArithmetic ---------------------------
(***************************************************************************)
(* src/native/wkt.rs: calendar arithmetic and the ranges of Timestamp and  *)
(* Duration.  The calendar is the real one; the units of time are          *)
(* constants.                                                              *)
(***************************************************************************)
EXTENDS Integers

CONSTANTS
  HoursPerDay, MinutesPerHour, SecondsPerMinute,  \* 24, 60, 60
  MicrosPerSecond, NanosPerMicro,                 \* 10^6, 1000
  DURATION_MAX_SECONDS

ASSUME UnitsAssumption ==
  /\ HoursPerDay \in Nat \ {0} /\ MinutesPerHour \in Nat \ {0} /\ SecondsPerMinute \in Nat \ {0}
  /\ MicrosPerSecond \in Nat \ {0} /\ NanosPerMicro \in Nat \ {0}
  /\ DURATION_MAX_SECONDS \in Nat

SecondsPerHour == MinutesPerHour * SecondsPerMinute
SecondsPerDay == HoursPerDay * SecondsPerHour
MicrosPerDay == SecondsPerDay * MicrosPerSecond
NanosPerSecond == MicrosPerSecond * NanosPerMicro

(* 0001-01-01 and 9999-12-31, to the second.                               *)
TIMESTAMP_MIN_SECONDS == -719162 * SecondsPerDay
TIMESTAMP_MAX_SECONDS == 2932897 * SecondsPerDay - 1

-----------------------------------------------------------------------------
(* The dates Python has: month lengths, and its range of years.            *)
LeapYear(y) == y % 4 = 0 /\ (y % 100 # 0 \/ y % 400 = 0)
MonthLength(y, m) ==
  IF m = 2 THEN (IF LeapYear(y) THEN 29 ELSE 28) ELSE IF m \in {4, 6, 9, 11} THEN 30 ELSE 31
IsDay(date) == date[2] \in 1 .. 12 /\ date[3] \in 1 .. MonthLength(date[1], date[2])
IsDate(date) == date[1] \in 1 .. 9999 /\ IsDay(date)

-----------------------------------------------------------------------------
(* A date is <<year, month, day>>.  The year of the algorithm begins in    *)
(* March, an era has 400 of them.                                          *)
YearDays(year_of_era) == year_of_era * 365 + year_of_era \div 4 - year_of_era \div 100
MonthDays(month_index) == (153 * month_index + 2) \div 5

days_from_civil(year, month, day) ==
  LET y == IF month <= 2 THEN year - 1 ELSE year
      era == y \div 400
  IN  era * 146097 + YearDays(y - era * 400) + MonthDays((month + 9) % 12) + day - 1 - 719468

(* Mutant of YearOfEra: forgets the last day of an era, a 29 February.     *)
YearOfEraShort(day_of_era) ==
  (day_of_era - day_of_era \div 1460 + day_of_era \div 36524) \div 365

YearOfEra(day_of_era) ==
  (day_of_era - day_of_era \div 1460 + day_of_era \div 36524 - day_of_era \div 146096) \div 365

civil_from_days(days) ==
  LET era == (days + 719468) \div 146097
      day_of_era == (days + 719468) % 146097
      year_of_era == YearOfEra(day_of_era)
      day_of_year == day_of_era - YearDays(year_of_era)
      month_index == (5 * day_of_year + 2) \div 153
      month == IF month_index < 10 THEN month_index + 3 ELSE month_index - 9
  IN  <<year_of_era + era * 400 + (IF month <= 2 THEN 1 ELSE 0),
        month,
        day_of_year - MonthDays(month_index) + 1>>

-----------------------------------------------------------------------------
check_timestamp(seconds, nanos) ==
  /\ seconds \in TIMESTAMP_MIN_SECONDS .. TIMESTAMP_MAX_SECONDS
  /\ nanos \in 0 .. NanosPerSecond - 1

(* The date, and the <<hour, minute, second>> of the day.                  *)
timestamp_to_civil(seconds) ==
  LET second_of_day == seconds % SecondsPerDay
  IN  [date |-> civil_from_days(seconds \div SecondsPerDay),
       time |-> <<second_of_day \div SecondsPerHour,
                  (second_of_day % SecondsPerHour) \div SecondsPerMinute,
                  second_of_day % SecondsPerMinute>>]

(* <<seconds, nanos>>.                                                     *)
civil_to_timestamp(date, time, microsecond, offset_micros) ==
  LET seconds == days_from_civil(date[1], date[2], date[3]) * SecondsPerDay
                 + time[1] * SecondsPerHour + time[2] * SecondsPerMinute + time[3]
      total == seconds * MicrosPerSecond + microsecond - offset_micros
  IN  <<total \div MicrosPerSecond, (total % MicrosPerSecond) * NanosPerMicro>>

-----------------------------------------------------------------------------
(* Mutant of Quotient: towards minus infinity, as for timestamps.          *)
QuotientDown(a, b) == a \div b

(* Rust's / and %: towards zero.                                           *)
Quotient(a, b) == IF a >= 0 THEN a \div b ELSE -((-a) \div b)
Remainder(a, b) == a - b * Quotient(a, b)

check_duration(seconds, nanos) ==
  /\ seconds \in -DURATION_MAX_SECONDS .. DURATION_MAX_SECONDS
  /\ nanos \in -(NanosPerSecond - 1) .. NanosPerSecond - 1
  /\ ~(seconds > 0 /\ nanos < 0) /\ ~(seconds < 0 /\ nanos > 0)

(* The <<days, seconds, microseconds>> of a timedelta, the last two not    *)
(* negative.                                                               *)
duration_to_parts(seconds, nanos) ==
  LET total == seconds * MicrosPerSecond + Quotient(nanos, NanosPerMicro)
      rest == total % MicrosPerDay
  IN  <<total \div MicrosPerDay, rest \div MicrosPerSecond, rest % MicrosPerSecond>>

duration_from_parts(days, seconds, microseconds) ==
  LET total == days * MicrosPerDay + seconds * MicrosPerSecond + microseconds
  IN  <<Quotient(total, MicrosPerSecond), Remainder(total, MicrosPerSecond) * NanosPerMicro>>
=============================================================================
