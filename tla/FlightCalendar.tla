--------------------------- MODULE FlightCalendar ---------------------------
(***************************************************************************)
(* The calendar of gpssim.c.  A waypoint's date and time become an instant *)
(* (date_secs, time_secs), the flight counts instants up second by second, *)
(* and each sentence turns the instant it is about back into a date and a  *)
(* time (secs_to_date, secs_to_time).  An instant counts from the start of *)
(* the year of the first date the program meets, flt_firstyear.  Beside it *)
(* runs an ordinary calendar that goes from day to day, with no table of   *)
(* the year's days and no instants.  A date of the program is kept in its  *)
(* three two-digit parts, and so is a time.                                *)
(***************************************************************************)
EXTENDS Integers

(* The seconds of a day. *)
DAY == 86400

CONSTANTS
    FirstDates,  \* the dates of first waypoints, with four-digit years
    FirstTimes,  \* their times, in seconds of the day
    STEP         \* every STEP-th second of the flight is looked at

ASSUME CalendarAssumption ==
    /\ FirstDates \subseteq [day : 1..28, month : 1..12, year : 1950..2048]
    /\ FirstTimes \subseteq 0..(DAY - 1)
    /\ STEP \in 1..DAY

VARIABLES
    firstyear,       \* flt_firstyear, 0 until a date was met
    secs_firstyear,  \* flt_secs_firstyear
    lsec,            \* the instant being simulated
    today,           \* history: the day, by the ordinary calendar
    clock            \* history: the second of that day

calVars == <<firstyear, secs_firstyear, lsec, today, clock>>

-----------------------------------------------------------------------------
(* calensub. *)
LeapYr(year) == IF year % 100 = 0 THEN year % 400 = 0 ELSE year % 4 = 0

YearDays(year) == IF LeapYr(year) THEN 366 ELSE 365

Jultab == <<0, 31, 59, 90, 120, 151, 181, 212, 243, 273, 304, 334>>

DaysBefore(year, month) == Jultab[month] + IF month > 2 /\ LeapYr(year) THEN 1 ELSE 0

(* juldat: any day of 1..31 will do in any month. *)
Juldat(year, month, day) ==
    IF month \in 1..12 /\ day \in 1..31 THEN DaysBefore(year, month) + day ELSE 0

(* jdvert: days beyond the end of the year are days of the same year       *)
(* again, for the loop that takes a year's days off counts no year up.     *)
DayOfYear(jd, year) == ((jd - 1) % YearDays(year)) + 1

MonthOf(day, year) ==
    CHOOSE month \in 1..12 :
        /\ DaysBefore(year, month) < day
        /\ month < 12 => day <= DaysBefore(year, month + 1)

Jdvert(jd, year) ==
    LET day   == DayOfYear(jd, year)
        month == MonthOf(day, year)
    IN  [day |-> day - DaysBefore(year, month), month |-> month, year |-> year]

-----------------------------------------------------------------------------
(* Two-digit years are those of 1950 to 2049. *)
FourDigits(yr) == IF yr <= 49 THEN yr + 2000 ELSE yr + 1900

TwoDigits(year) ==
    IF year \in 1950..1999 THEN year - 1900
    ELSE IF year \in 2000..2049 THEN year - 2000
    ELSE year

NoDate == [day |-> 0, month |-> 0, yr |-> 0]

TimeSecs(time) ==
    IF time.hour \in 0..23 /\ time.min \in 0..59 /\ time.sec \in 0..59
    THEN time.sec + 60 * time.min + 3600 * time.hour
    ELSE 0

(* mutant: a year's first day is day 1 *)
DateSecsLate(date) ==
    LET jd == Juldat(FourDigits(date.yr), date.month, date.day)
    IN  IF jd = 0 THEN 0
        ELSE jd * DAY + IF FourDigits(date.yr) > firstyear THEN secs_firstyear ELSE 0

(* date_secs, once the first year is known. *)
DateSecs(date) ==
    LET jd == Juldat(FourDigits(date.yr), date.month, date.day)
    IN  IF jd = 0 THEN 0
        ELSE (jd - 1) * DAY + IF FourDigits(date.yr) > firstyear THEN secs_firstyear ELSE 0

(* Which of the two years an instant is in. *)
YearOf(secs) == IF secs > secs_firstyear THEN firstyear + 1 ELSE firstyear

(* mutant: the seconds of the first year stay in *)
InYearWhole(secs) == secs

InYear(secs) == IF secs > secs_firstyear THEN secs - secs_firstyear ELSE secs

SecsToDate(secs) ==
    LET date == Jdvert(InYear(secs) \div DAY + 1, YearOf(secs))
        yr   == TwoDigits(date.year)
    IN  IF yr \in 0..99 THEN [day |-> date.day, month |-> date.month, yr |-> yr] ELSE NoDate

SecsToTime(secs) ==
    LET ofday  == InYear(secs) - (InYear(secs) \div DAY) * DAY
        minsec == ofday - (ofday \div 3600) * 3600
    IN  [hour |-> ofday \div 3600, min |-> minsec \div 60,
         sec |-> minsec - (minsec \div 60) * 60]

-----------------------------------------------------------------------------
(* The ordinary calendar. *)
MonthDays(year, month) ==
    IF month = 2 THEN (IF LeapYr(year) THEN 29 ELSE 28)
    ELSE IF month \in {4, 6, 9, 11} THEN 30
    ELSE 31

Tomorrow(d) ==
    IF d.day < MonthDays(d.year, d.month) THEN [d EXCEPT !.day = @ + 1]
    ELSE IF d.month < 12 THEN [day |-> 1, month |-> d.month + 1, year |-> d.year]
    ELSE [day |-> 1, month |-> 1, year |-> d.year + 1]

(* How the script and the sentences write a day, and a second of it. *)
Written(d) == [day |-> d.day, month |-> d.month, yr |-> d.year % 100]
WrittenTime(c) == [hour |-> c \div 3600, min |-> (c % 3600) \div 60, sec |-> c % 60]

NoDay == [day |-> 0, month |-> 0, year |-> 0]

-----------------------------------------------------------------------------
CalInit ==
    /\ firstyear = 0
    /\ secs_firstyear = 0
    /\ lsec = 0
    /\ today = NoDay
    /\ clock = 0

(* The first date met fixes the first year, and is then converted. *)
FirstWaypoint ==
    /\ firstyear = 0
    /\ \E d \in FirstDates, c \in FirstTimes :
          /\ today' = d /\ clock' = c
          /\ firstyear' = FourDigits(Written(d).yr)
          /\ secs_firstyear' = YearDays(firstyear') * DAY
          /\ lsec' = (Juldat(firstyear', d.month, d.day) - 1) * DAY + TimeSecs(WrittenTime(c))

(* The flight goes on, inside the two years the conversions are made for. *)
Fly ==
    /\ firstyear # 0
    /\ lsec + STEP < secs_firstyear + YearDays(firstyear + 1) * DAY
    /\ lsec' = lsec + STEP
    /\ clock' = (clock + STEP) % DAY
    /\ today' = IF clock + STEP < DAY THEN today ELSE Tomorrow(today)
    /\ UNCHANGED <<firstyear, secs_firstyear>>

CalNext == FirstWaypoint \/ Fly

CalSpec == CalInit /\ [][CalNext]_calVars

-----------------------------------------------------------------------------
(* The first year and its length belong together. *)
CalTypeOK ==
    /\ firstyear \in {0} \cup 1950..2048
    /\ secs_firstyear = IF firstyear = 0 THEN 0 ELSE YearDays(firstyear) * DAY
    /\ lsec \in Nat
    /\ clock \in 0..(DAY - 1)
    /\ firstyear = 0 \/ today \in [day : 1..31, month : 1..12, year : firstyear..(firstyear + 1)]

(* A waypoint dated with any moment of the two years is the instant the    *)
(* flight reaches by counting seconds up to that moment.                   *)
WaypointsReadBack ==
    firstyear # 0 => lsec = DateSecs(Written(today)) + TimeSecs(WrittenTime(clock))

(* The date and time of a sentence are those of its second, on every       *)
(* second but the very first of the second year.                           *)
StampsTellTime ==
    firstyear # 0 =>
        /\ SecsToTime(lsec) = WrittenTime(clock)
        /\ lsec # secs_firstyear => SecsToDate(lsec) = Written(today)

(* "the following conversion is only valid within a 2-yr span"             *)
(* (gpssim.c:2066): inside it, it is valid on every second.                *)
StampsValidForTwoYears ==
    firstyear # 0 => SecsToDate(lsec) = Written(today)
=============================================================================
