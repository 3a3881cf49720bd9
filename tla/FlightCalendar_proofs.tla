------------------------ MODULE FlightCalendar_proofs ------------------------
(***************************************************************************)
(* The conversions of FlightCalendar are right on every second of any two  *)
(* years between 1950 and 2049, but for the date of one second.            *)
(***************************************************************************)
EXTENDS FlightCalendar, TLAPS

-----------------------------------------------------------------------------
(* The table of the year's days agrees with the lengths of the months. *)
LEMMA TableValues ==
    /\ Jultab[1] = 0   /\ Jultab[2] = 31  /\ Jultab[3] = 59   /\ Jultab[4] = 90
    /\ Jultab[5] = 120 /\ Jultab[6] = 151 /\ Jultab[7] = 181  /\ Jultab[8] = 212
    /\ Jultab[9] = 243 /\ Jultab[10] = 273 /\ Jultab[11] = 304 /\ Jultab[12] = 334
  BY DEF Jultab

LEMMA MonthRange == \A m \in 1..12 : m = 1 \/ m = 2 \/ m = 3 \/ m = 4 \/ m = 5 \/ m = 6
                       \/ m = 7 \/ m = 8 \/ m = 9 \/ m = 10 \/ m = 11 \/ m = 12
  OBVIOUS

LEMMA MonthsAddUp ==
    ASSUME NEW y, NEW m \in 1..12
    PROVE  /\ DaysBefore(y, m) \in Nat
           /\ MonthDays(y, m) \in Nat /\ MonthDays(y, m) >= 28 /\ MonthDays(y, m) <= 31
           /\ m < 12 => DaysBefore(y, m + 1) = DaysBefore(y, m) + MonthDays(y, m)
           /\ m = 12 => YearDays(y) = DaysBefore(y, m) + MonthDays(y, m)
           /\ m = 1 => DaysBefore(y, m) = 0
           /\ DaysBefore(y, m) + MonthDays(y, m) <= YearDays(y)
  <1>1. CASE ~LeapYr(y)
    BY <1>1, TableValues, MonthRange DEF DaysBefore, MonthDays, YearDays
  <1>2. CASE LeapYr(y)
    BY <1>2, TableValues, MonthRange DEF DaysBefore, MonthDays, YearDays
  <1>3. QED
    BY <1>1, <1>2

LEMMA MonthsInOrder ==
    ASSUME NEW y, NEW m \in 1..12, NEW n \in 1..12, m < n
    PROVE  DaysBefore(y, m + 1) <= DaysBefore(y, n)
  <1>1. CASE ~LeapYr(y)
    BY <1>1, TableValues, MonthRange DEF DaysBefore
  <1>2. CASE LeapYr(y)
    BY <1>2, TableValues, MonthRange DEF DaysBefore
  <1>3. QED
    BY <1>1, <1>2

(* A day of a month is found again from its number in the year. *)
LEMMA DayFound ==
    ASSUME NEW y, NEW m \in 1..12, NEW day \in 1..MonthDays(y, m)
    PROVE  Jdvert(DaysBefore(y, m) + day, y) = [day |-> day, month |-> m, year |-> y]
  <1> DEFINE jd == DaysBefore(y, m) + day
             In(k) == /\ DaysBefore(y, k) < jd
                      /\ k < 12 => jd <= DaysBefore(y, k + 1)
  <1>1. jd \in 1..YearDays(y) /\ day \in Nat /\ DaysBefore(y, m) \in Nat
    BY MonthsAddUp DEF YearDays
  <1>2. DayOfYear(jd, y) = jd
    <2>1. ASSUME NEW i \in Nat, NEW n \in {365, 366}, i < n PROVE i % n = i
      <3>1. CASE n = 365
        BY <2>1, <3>1
      <3>2. CASE n = 366
        BY <2>1, <3>2
      <3>3. QED
        BY <3>1, <3>2
    <2>2. jd - 1 \in Nat /\ jd - 1 < YearDays(y) /\ YearDays(y) \in {365, 366}
      BY <1>1 DEF YearDays
    <2>3. (jd - 1) % YearDays(y) = jd - 1
      BY <2>1, <2>2
    <2>4. QED
      BY <1>1, <2>3 DEF DayOfYear
  <1>3. In(m)
    <2>1. DaysBefore(y, m) \in Nat /\ MonthDays(y, m) \in Nat /\ day <= MonthDays(y, m) /\ day >= 1
      BY MonthsAddUp
    <2>2. m < 12 => DaysBefore(y, m + 1) = DaysBefore(y, m) + MonthDays(y, m)
      BY MonthsAddUp
    <2>3. QED
      BY <2>1, <2>2
  <1>4. ASSUME NEW k \in 1..12, In(k) PROVE k = m
    <2>1. CASE k < m
      <3>1. k < 12 /\ DaysBefore(y, k + 1) <= DaysBefore(y, m)
        BY <2>1, MonthsInOrder
      <3>2. k + 1 \in 1..12
        BY <3>1
      <3>3. DaysBefore(y, k + 1) \in Nat
        BY <3>2, MonthsAddUp
      <3>4. QED
        BY <1>1, <1>4, <3>1, <3>3
    <2>2. CASE m < k
      <3>1. m < 12 /\ DaysBefore(y, m + 1) <= DaysBefore(y, k)
        BY <2>2, MonthsInOrder
      <3>2. jd <= DaysBefore(y, m + 1) /\ m + 1 \in 1..12
        BY <1>3, <3>1
      <3>3. DaysBefore(y, m + 1) \in Nat /\ DaysBefore(y, k) \in Nat
        BY <3>2, MonthsAddUp
      <3>4. QED
        BY <1>1, <1>4, <3>1, <3>2, <3>3
    <2>3. QED
      BY <2>1, <2>2
  <1>5. MonthOf(jd, y) = m
    BY <1>3, <1>4 DEF MonthOf
  <1>6. QED
    BY <1>1, <1>2, <1>5 DEF Jdvert

LEMMA YearsWritten ==
    ASSUME NEW year \in 1950..2049
    PROVE  year % 100 \in 0..99 /\ FourDigits(year % 100) = year /\ TwoDigits(year) = year % 100
  BY DEF FourDigits, TwoDigits

LEMMA DayLength == DAY = 86400
  BY DEF DAY

LEMMA DayNat == DAY \in Nat
  BY DayLength

LEMMA OfDay == ASSUME NEW c \in 0..(DAY - 1) PROVE c \in Nat /\ c < DAY /\ DAY \in Nat
  BY DayNat

LEMMA HoursOfDay ==
    ASSUME NEW c \in Nat, c < DAY
    PROVE  /\ c \div 3600 \in 0..23 /\ c % 3600 \in 0..3599
           /\ c = 3600 * (c \div 3600) + (c % 3600)
  BY DayLength

LEMMA TimesWritten ==
    ASSUME NEW c \in 0..(DAY - 1)
    PROVE  TimeSecs(WrittenTime(c)) = c
  <1>1. /\ c \div 3600 \in 0..23 /\ c % 3600 \in 0..3599
        /\ c = 3600 * (c \div 3600) + (c % 3600)
    BY OfDay, HoursOfDay
  <1>2. ASSUME NEW r \in 0..3599
        PROVE r \div 60 \in 0..59 /\ r % 60 \in 0..59 /\ r = 60 * (r \div 60) + (r % 60)
    OBVIOUS
  <1>3. (c % 3600) % 60 = c % 60
    BY OfDay
  <1>4. /\ (c % 3600) \div 60 \in 0..59 /\ c % 60 \in 0..59
        /\ c % 3600 = 60 * ((c % 3600) \div 60) + (c % 60)
    BY <1>1, <1>2, <1>3
  <1>5. TimeSecs(WrittenTime(c))
          = (c % 60) + 60 * ((c % 3600) \div 60) + 3600 * (c \div 3600)
    BY <1>1, <1>4 DEF TimeSecs, WrittenTime
  <1>6. QED
    BY <1>1, <1>4, <1>5

-----------------------------------------------------------------------------
(* The day of the ordinary calendar is a day of one of the two years.      *)
DayOK ==
    /\ today.year \in firstyear..(firstyear + 1)
    /\ today.month \in 1..12
    /\ today.day \in 1..MonthDays(today.year, today.month)

(* The days of the two years before a day of them. *)
DaysFlown(d) ==
    DaysBefore(d.year, d.month) + (d.day - 1)
      + (IF d.year > firstyear THEN YearDays(firstyear) ELSE 0)

(* The instant is the days flown and the second of the day. *)
Counted == lsec = DaysFlown(today) * DAY + clock

CalInv == CalTypeOK /\ (firstyear # 0 => DayOK /\ Counted)

LEMMA YearDaysTwo == ASSUME NEW y PROVE YearDays(y) \in {365, 366}
  BY DEF YearDays

(* Days are counted inside their year. *)
LEMMA DayBounds ==
    ASSUME NEW y, NEW m \in 1..12, NEW d \in 1..MonthDays(y, m)
    PROVE  /\ d \in Nat /\ DaysBefore(y, m) \in Nat /\ YearDays(y) \in Nat
           /\ DaysBefore(y, m) + (d - 1) \in Nat
           /\ DaysBefore(y, m) + (d - 1) < YearDays(y)
  <1>1. /\ DaysBefore(y, m) \in Nat /\ MonthDays(y, m) \in Nat
        /\ DaysBefore(y, m) + MonthDays(y, m) <= YearDays(y)
    BY MonthsAddUp
  <1>2. YearDays(y) \in {365, 366}
    BY YearDaysTwo
  <1>3. d \in Nat /\ d >= 1 /\ d <= MonthDays(y, m) /\ MonthDays(y, m) \in Nat
    BY <1>1
  <1>4. QED
    BY <1>1, <1>2, <1>3

LEMMA CalInitInv == CalInit => CalInv
  BY DEF CalInit, CalInv, CalTypeOK, DAY

(* A first waypoint is as many days into its year as its date says.        *)
LEMMA FirstWaypointInv == CalInv /\ FirstWaypoint => CalInv'
  <1> SUFFICES ASSUME CalInv, FirstWaypoint PROVE CalInv'
    OBVIOUS
  <1>1. PICK d \in FirstDates, c \in FirstTimes :
          /\ today' = d /\ clock' = c
          /\ firstyear' = FourDigits(Written(d).yr)
          /\ secs_firstyear' = YearDays(firstyear') * DAY
          /\ lsec' = (Juldat(firstyear', d.month, d.day) - 1) * DAY + TimeSecs(WrittenTime(c))
    BY DEF FirstWaypoint
  <1>2. /\ d \in [day : 1..28, month : 1..12, year : 1950..2048]
        /\ c \in 0..(DAY - 1) /\ c \in Nat /\ DAY \in Nat
    BY CalendarAssumption, OfDay
  <1>3. firstyear' = d.year /\ d.year \in 1950..2048
    <2>1. d.year \in 1950..2049
      BY <1>2
    <2>2. Written(d).yr = d.year % 100
      BY DEF Written
    <2>3. QED
      BY <1>1, <1>2, <2>1, <2>2, YearsWritten
  <1>4. d.month \in 1..12 /\ d.day \in 1..28
    BY <1>2
  <1>5. /\ DaysBefore(d.year, d.month) \in Nat
        /\ MonthDays(d.year, d.month) \in Nat /\ MonthDays(d.year, d.month) >= 28
    BY <1>4, MonthsAddUp
  <1>6. Juldat(d.year, d.month, d.day) = DaysBefore(d.year, d.month) + d.day
    BY <1>4 DEF Juldat
  <1>7. TimeSecs(WrittenTime(c)) = c
    BY <1>2, TimesWritten
  <1>8. lsec' = (DaysBefore(d.year, d.month) + (d.day - 1)) * DAY + c
    <2>1. lsec' = ((DaysBefore(d.year, d.month) + d.day) - 1) * DAY + c
      BY <1>1, <1>3, <1>6, <1>7
    <2>2. (DaysBefore(d.year, d.month) + d.day) - 1 = DaysBefore(d.year, d.month) + (d.day - 1)
      BY <1>4, <1>5
    <2>3. QED
      BY <2>1, <2>2
  <1>9. DayOK'
    BY <1>1, <1>3, <1>4, <1>5 DEF DayOK
  <1>10. Counted'
    <2>1. today'.year = firstyear' /\ firstyear' \in Int
      BY <1>1, <1>3
    <2>2. DaysFlown(today)' = DaysBefore(d.year, d.month) + (d.day - 1)
      BY <1>1, <1>4, <1>5, <2>1 DEF DaysFlown
    <2>3. QED
      BY <1>1, <1>8, <2>2 DEF Counted
  <1>11. lsec' \in Nat
    <2>1. DaysBefore(d.year, d.month) + (d.day - 1) \in Nat /\ c \in Nat
      BY <1>2, <1>4, <1>5
    <2>2. QED
      BY <1>2, <1>8, <2>1
  <1>12. today' \in [day : 1..31, month : 1..12, year : firstyear'..(firstyear' + 1)]
    BY <1>1, <1>2, <1>3
  <1>13. CalTypeOK'
    BY <1>1, <1>2, <1>3, <1>11, <1>12 DEF CalTypeOK
  <1>14. QED
    BY <1>9, <1>10, <1>13 DEF CalInv

LEMMA SameDay == ASSUME NEW c \in Nat, c < DAY PROVE c % DAY = c
  BY DayLength

LEMMA NextDay == ASSUME NEW c \in Nat, c >= DAY, c < DAY + DAY PROVE c % DAY = c - DAY
  BY DayLength

LEMMA OneMoreDay == ASSUME NEW days \in Nat PROVE (days + 1) * DAY = days * DAY + DAY
  BY DayLength

(* The ordinary calendar moves one day on, except at the end of both years. *)
LEMMA TomorrowFlown ==
    ASSUME firstyear \in 1950..2048, DayOK,
           today \in [day : 1..31, month : 1..12, year : firstyear..(firstyear + 1)]
    PROVE  /\ DaysFlown(today) \in Nat
           /\ \/ DaysFlown(today) + 1 = YearDays(firstyear) + YearDays(firstyear + 1)
              \/ /\ Tomorrow(today) \in [day : 1..31, month : 1..12,
                                         year : firstyear..(firstyear + 1)]
                 /\ Tomorrow(today).day \in 1..MonthDays(Tomorrow(today).year,
                                                         Tomorrow(today).month)
                 /\ DaysFlown(Tomorrow(today)) = DaysFlown(today) + 1
  <1> DEFINE d == today.day
             m == today.month
             y == today.year
             t == Tomorrow(today)
  <1>1. /\ m \in 1..12 /\ d \in 1..MonthDays(y, m) /\ d \in 1..31
        /\ y \in Int
        /\ y = firstyear \/ y = firstyear + 1
        /\ firstyear \in Int
    BY DEF DayOK
  <1>2. /\ DaysBefore(y, m) \in Nat
        /\ MonthDays(y, m) \in Nat /\ MonthDays(y, m) >= 28 /\ MonthDays(y, m) <= 31
        /\ DaysBefore(y, m) + MonthDays(y, m) <= YearDays(y)
        /\ m < 12 => DaysBefore(y, m + 1) = DaysBefore(y, m) + MonthDays(y, m)
        /\ m = 12 => YearDays(y) = DaysBefore(y, m) + MonthDays(y, m)
    BY <1>1, MonthsAddUp
  <1>3. YearDays(firstyear) \in Nat /\ YearDays(firstyear + 1) \in Nat
    BY YearDaysTwo
  <1>4. DaysFlown(today) \in Nat
    BY <1>1, <1>2, <1>3 DEF DaysFlown
  <1>5. CASE d < MonthDays(y, m)
    <2>1. t = [today EXCEPT !.day = d + 1]
      BY <1>5 DEF Tomorrow
    <2>2. t.day = d + 1 /\ t.month = m /\ t.year = y
      BY <2>1
    <2>3. d + 1 \in 1..MonthDays(y, m) /\ d + 1 \in 1..31
      BY <1>1, <1>2, <1>5
    <2>4. t \in [day : 1..31, month : 1..12, year : firstyear..(firstyear + 1)]
      BY <2>1, <2>3
    <2>5. DaysFlown(t) = DaysFlown(today) + 1
      BY <1>1, <1>2, <1>3, <2>2 DEF DaysFlown
    <2>6. QED
      BY <1>4, <2>2, <2>3, <2>4, <2>5
  <1>6. CASE d = MonthDays(y, m) /\ m < 12
    <2>1. t = [day |-> 1, month |-> m + 1, year |-> y]
      BY <1>1, <1>2, <1>6 DEF Tomorrow
    <2>2. m + 1 \in 1..12
      BY <1>1, <1>6
    <2>3. MonthDays(y, m + 1) \in Nat /\ MonthDays(y, m + 1) >= 28
      BY <2>2, MonthsAddUp
    <2>4. 1 \in 1..MonthDays(y, m + 1)
      BY <2>3
    <2>5. t \in [day : 1..31, month : 1..12, year : firstyear..(firstyear + 1)]
      BY <1>1, <2>1, <2>2
    <2>6. DaysFlown(t) = DaysFlown(today) + 1
      BY <1>1, <1>2, <1>3, <1>6, <2>1 DEF DaysFlown
    <2>7. QED
      BY <1>4, <2>1, <2>4, <2>5, <2>6
  <1>7. CASE d = MonthDays(y, m) /\ m = 12 /\ y = firstyear
    <2>1. t = [day |-> 1, month |-> 1, year |-> y + 1]
      BY <1>1, <1>2, <1>7 DEF Tomorrow
    <2>2. /\ MonthDays(y + 1, 1) \in Nat /\ MonthDays(y + 1, 1) >= 28
          /\ DaysBefore(y + 1, 1) = 0
      BY MonthsAddUp
    <2>3. 1 \in 1..MonthDays(y + 1, 1)
      BY <2>2
    <2>4. t \in [day : 1..31, month : 1..12, year : firstyear..(firstyear + 1)]
      BY <1>1, <1>7, <2>1
    <2>5. DaysFlown(t) = YearDays(firstyear)
      BY <1>1, <1>3, <1>7, <2>1, <2>2 DEF DaysFlown
    <2>6. DaysFlown(today) + 1 = YearDays(firstyear)
      BY <1>1, <1>2, <1>3, <1>7 DEF DaysFlown
    <2>7. QED
      BY <1>4, <2>1, <2>3, <2>4, <2>5, <2>6
  <1>8. CASE d = MonthDays(y, m) /\ m = 12 /\ y = firstyear + 1
    <2>1. DaysFlown(today) + 1 = YearDays(firstyear) + YearDays(firstyear + 1)
      BY <1>1, <1>2, <1>3, <1>8 DEF DaysFlown
    <2>2. QED
      BY <1>4, <2>1
  <1>9. QED
    BY <1>1, <1>2, <1>5, <1>6, <1>7, <1>8

(* Flying on, the two calendars stay together.                             *)
LEMMA FlyInv == CalInv /\ Fly => CalInv'
  <1> SUFFICES ASSUME CalInv, Fly PROVE CalInv'
    OBVIOUS
  <1>1. /\ firstyear # 0 /\ firstyear \in 1950..2048
        /\ secs_firstyear = YearDays(firstyear) * DAY
        /\ DayOK /\ Counted
        /\ today \in [day : 1..31, month : 1..12, year : firstyear..(firstyear + 1)]
    BY DEF CalInv, CalTypeOK, Fly
  <1>2. /\ clock \in Nat /\ clock < DAY /\ lsec \in Nat
        /\ DAY \in Nat /\ STEP \in Nat /\ STEP <= DAY
    BY CalendarAssumption, DayNat DEF CalInv, CalTypeOK
  <1>3. /\ lsec + STEP < secs_firstyear + YearDays(firstyear + 1) * DAY
        /\ lsec' = lsec + STEP /\ clock' = (clock + STEP) % DAY
        /\ today' = IF clock + STEP < DAY THEN today ELSE Tomorrow(today)
        /\ firstyear' = firstyear /\ secs_firstyear' = secs_firstyear
    BY DEF Fly
  <1>4. DaysFlown(today) \in Nat
    BY <1>1, TomorrowFlown
  <1>5. lsec = DaysFlown(today) * DAY + clock
    BY <1>1 DEF Counted
  <1>6. lsec' \in Nat
    BY <1>2, <1>3
  <1>7. CASE clock + STEP < DAY
    <2>1. clock' = clock + STEP /\ today' = today /\ clock' \in 0..(DAY - 1)
      BY <1>2, <1>3, <1>7, SameDay
    <2>2. lsec' = DaysFlown(today) * DAY + clock'
      <3>1. ASSUME NEW a \in Int PROVE (a + clock) + STEP = a + (clock + STEP)
        BY <1>2
      <3>2. DaysFlown(today) * DAY \in Int
        BY <1>2, <1>4
      <3>3. QED
        BY <1>3, <1>5, <2>1, <3>1, <3>2
    <2>3. DayOK'
      BY <1>1, <1>3, <2>1 DEF DayOK
    <2>4. Counted'
      BY <1>3, <2>1, <2>2 DEF Counted, DaysFlown
    <2>5. CalTypeOK'
      BY <1>1, <1>3, <1>6, <2>1 DEF CalTypeOK
    <2>6. QED
      BY <2>3, <2>4, <2>5 DEF CalInv
  <1>8. CASE ~(clock + STEP < DAY)
    <2>1. clock' = (clock + STEP) - DAY /\ clock' \in 0..(DAY - 1) /\ today' = Tomorrow(today)
      <3>1. clock + STEP \in Nat /\ clock + STEP >= DAY /\ clock + STEP < DAY + DAY
        BY <1>2, <1>8
      <3>2. (clock + STEP) % DAY = (clock + STEP) - DAY
        BY <3>1, NextDay
      <3>3. QED
        BY <1>2, <1>3, <1>8, <3>1, <3>2
    <2>2. lsec' = (DaysFlown(today) + 1) * DAY + clock' /\ clock' \in Nat
      <3>1. ASSUME NEW a \in Int PROVE (a + clock) + STEP = (a + DAY) + ((clock + STEP) - DAY)
        BY <1>2
      <3>2. DaysFlown(today) * DAY \in Int
        BY <1>2, <1>4
      <3>3. (DaysFlown(today) + 1) * DAY = DaysFlown(today) * DAY + DAY
        BY <1>4, OneMoreDay
      <3>4. clock' \in Nat
        BY <1>2, <1>8, <2>1
      <3>5. QED
        BY <1>3, <1>5, <2>1, <3>1, <3>2, <3>3, <3>4
    <2>3. DaysFlown(today) + 1 # YearDays(firstyear) + YearDays(firstyear + 1)
      <3>1. YearDays(firstyear) \in Nat /\ YearDays(firstyear + 1) \in Nat
        BY YearDaysTwo
      <3>2. lsec' < (YearDays(firstyear) + YearDays(firstyear + 1)) * DAY
        BY <1>1, <1>3, <3>1, DayLength
      <3>3. QED
        BY <1>4, <2>2, <3>1, <3>2, DayLength
    <2>4. /\ today' \in [day : 1..31, month : 1..12, year : firstyear..(firstyear + 1)]
          /\ today'.day \in 1..MonthDays(today'.year, today'.month)
          /\ DaysFlown(today') = DaysFlown(today) + 1
      BY <1>1, <2>1, <2>3, TomorrowFlown
    <2>5. DayOK'
      BY <1>3, <2>4 DEF DayOK
    <2>6. Counted'
      BY <1>3, <2>2, <2>4 DEF Counted, DaysFlown
    <2>7. CalTypeOK'
      BY <1>1, <1>3, <1>6, <2>1, <2>4 DEF CalTypeOK
    <2>8. QED
      BY <2>5, <2>6, <2>7 DEF CalInv
  <1>9. QED
    BY <1>7, <1>8

LEMMA CalUnchangedInv == CalInv /\ UNCHANGED calVars => CalInv'
  BY DEF CalInv, CalTypeOK, DayOK, Counted, DaysFlown, calVars

THEOREM CalInvariant == CalSpec => []CalInv
  <1>1. CalInv /\ [CalNext]_calVars => CalInv'
    BY FirstWaypointInv, FlyInv, CalUnchangedInv DEF CalNext
  <1>2. QED
    BY CalInitInv, <1>1, PTL DEF CalSpec

(* The first year, its length and the ordinary calendar keep their ranges. *)
THEOREM CalTypeCorrect == CalSpec => []CalTypeOK
  BY CalInvariant, PTL DEF CalInv

-----------------------------------------------------------------------------
LEMMA ReadBack == CalInv => WaypointsReadBack
  <1> SUFFICES ASSUME CalInv, firstyear # 0
               PROVE  lsec = DateSecs(Written(today)) + TimeSecs(WrittenTime(clock))
    BY DEF WaypointsReadBack
  <1>1. /\ firstyear \in 1950..2048
        /\ secs_firstyear = YearDays(firstyear) * DAY
        /\ DayOK /\ Counted
        /\ today \in [day : 1..31, month : 1..12, year : firstyear..(firstyear + 1)]
        /\ clock \in 0..(DAY - 1)
    BY DEF CalInv, CalTypeOK
  <1> DEFINE d == today.day
             m == today.month
             y == today.year
  <1>2. /\ d \in 1..31 /\ m \in 1..12 /\ y \in 1950..2049
        /\ y = firstyear \/ y = firstyear + 1
    BY <1>1
  <1>3. Written(today) = [day |-> d, month |-> m, yr |-> y % 100] /\ FourDigits(y % 100) = y
    BY <1>2, YearsWritten DEF Written
  <1>4. DaysBefore(y, m) \in Nat /\ YearDays(firstyear) \in Nat /\ DAY \in Nat
    <2>1. DaysBefore(y, m) \in Nat
      BY <1>2, MonthsAddUp
    <2>2. YearDays(firstyear) \in {365, 366}
      BY YearDaysTwo
    <2>3. QED
      BY <2>1, <2>2, DayNat
  <1>5. Juldat(y, m, d) = DaysBefore(y, m) + d /\ Juldat(y, m, d) # 0
    BY <1>2, <1>4 DEF Juldat
  <1>6. DateSecs(Written(today))
          = ((DaysBefore(y, m) + d) - 1) * DAY + (IF y > firstyear THEN secs_firstyear ELSE 0)
    BY <1>3, <1>5 DEF DateSecs
  <1>7. DateSecs(Written(today)) = DaysFlown(today) * DAY
    <2>1. CASE y = firstyear
      <3>1. DaysFlown(today) = (DaysBefore(y, m) + d) - 1 /\ ~(y > firstyear)
        BY <1>1, <1>2, <1>4, <2>1 DEF DaysFlown
      <3>2. DaysFlown(today) * DAY \in Nat
        BY <1>2, <1>4, <3>1
      <3>3. QED
        BY <1>6, <3>1, <3>2
    <2>2. CASE y = firstyear + 1
      <3>1. /\ DaysFlown(today) = ((DaysBefore(y, m) + d) - 1) + YearDays(firstyear)
            /\ y > firstyear
        BY <1>1, <1>2, <1>4, <2>2 DEF DaysFlown
      <3>2. ASSUME NEW a \in Int, NEW b \in Int PROVE (a + b) * DAY = a * DAY + b * DAY
        BY DayLength
      <3>3. (DaysBefore(y, m) + d) - 1 \in Int /\ YearDays(firstyear) \in Int
        BY <1>2, <1>4
      <3>4. QED
        BY <1>1, <1>6, <3>1, <3>2, <3>3
    <2>3. QED
      BY <1>2, <2>1, <2>2
  <1>8. TimeSecs(WrittenTime(clock)) = clock
    BY <1>1, TimesWritten
  <1>9. QED
    BY <1>1, <1>7, <1>8 DEF Counted

(* Every moment of the two years, written as a waypoint, is the instant    *)
(* that counting seconds from the first waypoint leads to.                 *)
THEOREM WaypointsCorrect == CalSpec => []WaypointsReadBack
  BY CalInvariant, ReadBack, PTL

-----------------------------------------------------------------------------
LEMMA WholeDays ==
    ASSUME NEW days \in Nat, NEW c \in Nat, c < DAY
    PROVE  (days * DAY + c) \div DAY = days /\ (days * DAY + c) - days * DAY = c
  BY DayLength

(* An instant, less the first year if it is past it, is a number of days   *)
(* of its year and a second of the day; at the start of the second year    *)
(* the days are those of the whole first year.                             *)
LEMMA InItsYear ==
    ASSUME CalInv, firstyear # 0
    PROVE  \/ /\ InYear(lsec) = (DaysBefore(today.year, today.month) + (today.day - 1)) * DAY + clock
              /\ YearOf(lsec) = today.year
              /\ lsec # secs_firstyear
           \/ /\ InYear(lsec) = YearDays(firstyear) * DAY + clock
              /\ lsec = secs_firstyear
  <1>1. /\ firstyear \in 1950..2048
        /\ secs_firstyear = YearDays(firstyear) * DAY
        /\ DayOK /\ Counted
        /\ clock \in Nat /\ clock < DAY /\ DAY \in Nat
    BY DayNat DEF CalInv, CalTypeOK
  <1> DEFINE n == DaysBefore(today.year, today.month) + (today.day - 1)
             L == YearDays(firstyear)
  <1>2. /\ today.month \in 1..12 /\ today.day \in 1..MonthDays(today.year, today.month)
        /\ today.year = firstyear \/ today.year = firstyear + 1
    BY <1>1 DEF DayOK
  <1>3. n \in Nat /\ n < YearDays(today.year) /\ L \in Nat /\ YearDays(today.year) \in Nat
    <2>1. L \in {365, 366}
      BY YearDaysTwo
    <2>2. QED
      BY <1>2, <2>1, DayBounds
  <1>4. lsec = DaysFlown(today) * DAY + clock
    BY <1>1 DEF Counted
  <1>5. CASE today.year = firstyear
    <2>1. DaysFlown(today) = n
      BY <1>1, <1>3, <1>5 DEF DaysFlown
    <2>2. lsec < secs_firstyear /\ lsec \in Int /\ secs_firstyear \in Int
      BY <1>1, <1>3, <1>4, <1>5, <2>1, DayLength
    <2>3. InYear(lsec) = lsec /\ YearOf(lsec) = firstyear /\ lsec # secs_firstyear
      BY <2>2 DEF InYear, YearOf
    <2>4. QED
      BY <1>4, <1>5, <2>1, <2>3
  <1>6. CASE today.year = firstyear + 1
    <2>1. DaysFlown(today) = n + L
      BY <1>1, <1>3, <1>6 DEF DaysFlown
    <2>2. lsec = (n * DAY + clock) + secs_firstyear /\ n * DAY + clock \in Nat /\ secs_firstyear \in Nat
      BY <1>1, <1>3, <1>4, <2>1, DayLength
    <2>3. CASE n * DAY + clock > 0
      <3>1. lsec > secs_firstyear /\ lsec # secs_firstyear
        BY <2>2, <2>3
      <3>2. InYear(lsec) = n * DAY + clock /\ YearOf(lsec) = firstyear + 1
        BY <2>2, <3>1 DEF InYear, YearOf
      <3>3. QED
        BY <1>6, <3>1, <3>2
    <2>4. CASE n * DAY + clock = 0
      <3>1. lsec = secs_firstyear /\ ~(lsec > secs_firstyear)
        BY <2>2, <2>4
      <3>2. clock = 0
        BY <1>1, <1>3, <2>4, DayLength
      <3>3. InYear(lsec) = L * DAY + clock
        BY <1>1, <1>3, <3>1, <3>2 DEF InYear
      <3>4. QED
        BY <3>1, <3>3
    <2>5. QED
      BY <2>2, <2>3, <2>4
  <1>7. QED
    BY <1>2, <1>5, <1>6

LEMMA DateOfInstant ==
    ASSUME NEW secs, NEW day, NEW month, NEW year, NEW yr \in 0..99,
           Jdvert((InYear(secs) \div DAY) + 1, YearOf(secs))
             = [day |-> day, month |-> month, year |-> year],
           TwoDigits(year) = yr
    PROVE  SecsToDate(secs) = [day |-> day, month |-> month, yr |-> yr]
  <1> DEFINE date == Jdvert((InYear(secs) \div DAY) + 1, YearOf(secs))
  <1>1. date.day = day /\ date.month = month /\ date.year = year
    OBVIOUS
  <1>2. TwoDigits(date.year) = yr
    BY <1>1
  <1>3. SecsToDate(secs) = IF TwoDigits(date.year) \in 0..99
                           THEN [day |-> date.day, month |-> date.month,
                                 yr |-> TwoDigits(date.year)]
                           ELSE NoDate
    BY Zenon DEF SecsToDate
  <1> HIDE DEF date
  <1>4. QED
    BY <1>1, <1>2, <1>3

LEMMA Stamps == CalInv => StampsTellTime
  <1> SUFFICES ASSUME CalInv, firstyear # 0
               PROVE  /\ SecsToTime(lsec) = WrittenTime(clock)
                      /\ lsec # secs_firstyear => SecsToDate(lsec) = Written(today)
    BY DEF StampsTellTime
  <1>1. /\ firstyear \in 1950..2048 /\ DayOK
        /\ clock \in Nat /\ clock < DAY
    BY DayNat DEF CalInv, CalTypeOK
  <1> DEFINE n == DaysBefore(today.year, today.month) + (today.day - 1)
  <1>2. /\ today.month \in 1..12 /\ today.day \in 1..MonthDays(today.year, today.month)
        /\ today.year \in 1950..2049
    BY <1>1 DEF DayOK
  <1>3. n \in Nat /\ YearDays(firstyear) \in Nat
    <2>1. YearDays(firstyear) \in {365, 366}
      BY YearDaysTwo
    <2>2. QED
      BY <1>2, <2>1, DayBounds
  <1>4. PICK days \in Nat : /\ InYear(lsec) = days * DAY + clock
                            /\ lsec # secs_firstyear => days = n /\ YearOf(lsec) = today.year
    BY <1>3, InItsYear
  <1>5. InYear(lsec) \div DAY = days /\ InYear(lsec) - days * DAY = clock
    BY <1>1, <1>4, WholeDays
  <1>6. SecsToTime(lsec) = WrittenTime(clock)
    <2>1. clock - (clock \div 3600) * 3600 = clock % 3600
      BY <1>1, HoursOfDay
    <2>2. (clock % 3600) - ((clock % 3600) \div 60) * 60 = clock % 60
      BY <1>1
    <2>3. QED
      BY <1>5, <2>1, <2>2 DEF SecsToTime, WrittenTime
  <1>7. ASSUME lsec # secs_firstyear PROVE SecsToDate(lsec) = Written(today)
    <2>1. days + 1 = DaysBefore(today.year, today.month) + today.day
      <3>1. today.day \in Nat /\ DaysBefore(today.year, today.month) \in Nat
        BY <1>2, DayBounds
      <3>2. QED
        BY <1>4, <1>7, <3>1
    <2>2. Jdvert(days + 1, today.year)
            = [day |-> today.day, month |-> today.month, year |-> today.year]
      BY <1>2, <2>1, DayFound
    <2>3. TwoDigits(today.year) = today.year % 100 /\ today.year % 100 \in 0..99
      BY <1>2, YearsWritten
    <2>4. QED
      <3>1. Jdvert((InYear(lsec) \div DAY) + 1, YearOf(lsec))
              = [day |-> today.day, month |-> today.month, year |-> today.year]
        BY <1>4, <1>5, <1>7, <2>2
      <3>2. SecsToDate(lsec)
              = [day |-> today.day, month |-> today.month, yr |-> today.year % 100]
        BY <2>3, <3>1, DateOfInstant
      <3>3. QED
        BY <3>2 DEF Written
  <1>8. QED
    BY <1>6, <1>7

(* Every sentence of a flight inside two years is stamped with the date    *)
(* and the time of its second, but for the date of the one second that     *)
(* begins the second year.                                                 *)
THEOREM StampsCorrect == CalSpec => []StampsTellTime
  BY CalInvariant, Stamps, PTL
=============================================================================
