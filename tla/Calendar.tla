------------------------------ MODULE Calendar ------------------------------
(***************************************************************************)
(* The calendar arithmetic of src/src/ftp/parser.rs, against a calendar    *)
(* that is only ever turned over: day by day, or by whole months and years *)
(* from one first day to the next.  The parser never sees the date on the  *)
(* wall, only the time since 1 January 1970.                               *)
(***************************************************************************)
EXTENDS Integers

CONSTANTS
    Watched,        \* bound: years and months that are gone through day by day
    LastYear        \* bound: where the calendar ends

\* A year has four digits in every format that is read.
ASSUME CalendarBounds == Watched \subseteq Nat \X (1..12) /\ LastYear \in 0..9999

VARIABLES
    date,           \* the date on the wall: year, month and day
    serial          \* the days that have gone by since 1 January 1970

calendarVars == <<date, serial>>

-----------------------------------------------------------------------------
(* The code.                                                               *)

\* Mutant of CivilYearLen: no exception for every fourth century.
CivilYearLenCentury(year) ==
    IF year % 4 = 0 /\ year % 100 # 0 THEN 366 ELSE 365

CivilYearLen(year) ==
    IF (year % 4 = 0 /\ year % 100 # 0) \/ year % 400 = 0 THEN 366 ELSE 365

\* year_of: whole years are taken off until what remains lies within one.
\* A year and what remains from its first day on:
YearFrom[at \in Nat \X Int] ==
    IF at[2] < CivilYearLen(at[1]) THEN at[1]
    ELSE YearFrom[<<at[1] + 1, at[2] - CivilYearLen(at[1])>>]

YearOf(days) == YearFrom[<<1970, days>>]

\* Mutant of DaysFromCivil: the computational year ends with January.
DaysFromCivilFebruary(y, m, d) ==
    LET marchYear == IF m <= 1 THEN y - 1 ELSE y
        era == marchYear \div 400
        yoe == marchYear - era * 400
        doy == (153 * ((m + 9) % 12) + 2) \div 5 + d - 1
    IN  era * 146097 + yoe * 365 + yoe \div 4 - yoe \div 100 + doy - 719468

\* The year starts in March, so that a leap day is the last of its year.
MarchYear(y, m) == IF m <= 2 THEN y - 1 ELSE y
DaysBeforeYear(y) ==
    LET era == y \div 400
        yoe == y - era * 400
    IN  era * 146097 + yoe * 365 + yoe \div 4 - yoe \div 100
DayOfYear(m, d) == (153 * ((m + 9) % 12) + 2) \div 5 + d - 1

DaysFromCivil(y, m, d) == DaysBeforeYear(MarchYear(y, m)) + DayOfYear(m, d) - 719468

\* ts_from_ymdhm, in minutes; the code's seconds are always whole minutes.
MinutesFrom(y, m, d, hour, minute) == DaysFromCivil(y, m, d) * 1440 + hour * 60 + minute

-----------------------------------------------------------------------------
(* The calendar on the wall, for reference.                                *)

IsLeap(y) == 4 * (y \div 4) = y /\ (100 * (y \div 100) = y => 400 * (y \div 400) = y)

MonthLength(y, m) ==
    CASE m \in {4, 6, 9, 11} -> 30
      [] m = 2 -> IF IsLeap(y) THEN 29 ELSE 28
      [] OTHER -> 31

YearLength(y) == IF IsLeap(y) THEN 366 ELSE 365

IsDate(d) ==
    /\ d \in [year : Nat, month : 1..12, day : 1..31]
    /\ d.day <= MonthLength(d.year, d.month)

NextDate(d) ==
    IF d.day < MonthLength(d.year, d.month) THEN [d EXCEPT !.day = @ + 1]
    ELSE IF d.month < 12 THEN [d EXCEPT !.month = @ + 1, !.day = 1]
    ELSE [year |-> d.year + 1, month |-> 1, day |-> 1]

CalendarInit ==
    /\ date = [year |-> 1970, month |-> 1, day |-> 1]
    /\ serial = 0

NextDay ==
    /\ <<date.year, date.month>> \in Watched
    /\ date' = NextDate(date)
    /\ serial' = serial + 1

\* From the first day of a month to that of the next.
NextMonth ==
    /\ date.day = 1
    /\ date' = NextDate([date EXCEPT !.day = MonthLength(date.year, date.month)])
    /\ serial' = serial + MonthLength(date.year, date.month)

\* From 1 January to 1 January.
NextYear ==
    /\ date.month = 1 /\ date.day = 1
    /\ date' = [date EXCEPT !.year = @ + 1]
    /\ serial' = serial + YearLength(date.year)

CalendarNext == date.year < LastYear /\ (NextDay \/ NextMonth \/ NextYear)

CalendarSpec == CalendarInit /\ [][CalendarNext]_calendarVars

-----------------------------------------------------------------------------

CalendarTypeOK == IsDate(date) /\ serial \in Nat

\* days_from_civil numbers the days without a gap or a repetition, whatever
\* leap days and centuries lie between them and 1 January 1970.
CivilDays == DaysFromCivil(date.year, date.month, date.day) = serial

\* year_of gives back the year from the number of the day, from the first
\* day of the year to its last.
YearFound == YearOf(serial) = date.year
=============================================================================
