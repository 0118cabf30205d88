--------------------------- MODULE DatePickerProofs ---------------------------
(* Proofs about DatePicker, for every date, bound, text and option.  The     *)
(* handlers have one thing in common: they leave the calendar alone, or draw *)
(* it for what is then the value, the month on view and the bounds.  The     *)
(* rest is arithmetic on dates: a month on view is always its first day,     *)
(* which every month has.                                                    *)
EXTENDS DatePicker, FiniteSetTheorems, TLAPS

-----------------------------------------------------------------------------
(* Dates. *)

LEMMA MonthLength ==
  ASSUME NEW y, NEW m
  PROVE  DaysInMonth(y, m) \in 28..31
BY DEF DaysInMonth

LEMMA TwelveMonths ==
  ASSUME NEW m \in Int
  PROVE  /\ m \div 12 \in Int /\ m % 12 \in Month
         /\ m = 12 * (m \div 12) + (m % 12)
         /\ m \in Month => m \div 12 = 0 /\ m % 12 = m
BY DEF Month

(* A date that is set to a year, a month and a day is a date with the same   *)
(* time, and it is the one that was meant when the month has the day.        *)
LEMMA NormalIsDate ==
  ASSUME NEW v \in Date \cup Value, NEW y \in Int, NEW m \in Int, NEW day \in 1..31
  PROVE  /\ v \in Date => Normal(v, y, m, day) \in Date
         /\ v \in Value => Normal(v, y, m, day) \in Value
         /\ day <= DaysInMonth(y + (m \div 12), m % 12) =>
              /\ Normal(v, y, m, day).y = y + (m \div 12)
              /\ Normal(v, y, m, day).m = m % 12
              /\ Normal(v, y, m, day).d = day
<1> DEFINE year == y + (m \div 12)
           month == m % 12
           length == DaysInMonth(year, month)
           over == day - length
           n == Normal(v, y, m, day)
<1>1. year \in Int /\ month \in Month /\ length \in 28..31
  BY MonthLength, TwelveMonths
<1>2. n = IF over <= 0 THEN [v EXCEPT !.y = year, !.m = month, !.d = day]
          ELSE [v EXCEPT !.y = IF month = 11 THEN year + 1 ELSE year,
                         !.m = (month + 1) % 12, !.d = over]
  BY DEF Normal
<1> HIDE DEF year, month, length, n
<1>3. (month + 1) % 12 \in Month
  BY <1>1 DEF Month
<1>4. CASE over <= 0
  <2>1. n = [v EXCEPT !.y = year, !.m = month, !.d = day]
    BY <1>2, <1>4
  <2>2. /\ v \in Date => n \in Date
        /\ v \in Value => n \in Value
    BY <1>1, <2>1 DEF Date, Value
  <2>3. n.y = year /\ n.m = month /\ n.d = day
    BY <2>1 DEF Date, Value
  <2> QED BY <2>2, <2>3 DEF n, year, month
<1>5. CASE ~(over <= 0)
  <2>1. over \in 1..31 /\ ~(day <= length)
    BY <1>1, <1>5
  <2>2. PICK yy \in Int, mm \in Month :
          n = [v EXCEPT !.y = yy, !.m = mm, !.d = over]
    <3>1. (IF month = 11 THEN year + 1 ELSE year) \in Int
      BY <1>1
    <3> QED BY <1>2, <1>3, <1>5, <3>1
  <2> HIDE DEF over
  <2>3. /\ v \in Date => n \in Date
        /\ v \in Value => n \in Value
    BY <2>1, <2>2 DEF Date, Value
  <2> QED BY <2>1, <2>3 DEF n, year, month, length
<1> QED BY <1>4, <1>5

LEMMA SetYearIsDate ==
  ASSUME NEW v \in Date \cup Value, NEW y \in Int
  PROVE  /\ v \in Date => SetYear(v, y) \in Date
         /\ v \in Value => SetYear(v, y) \in Value
         /\ v.d <= DaysInMonth(y, v.m) =>
              SetYear(v, y).y = y /\ SetYear(v, y).m = v.m /\ SetYear(v, y).d = v.d
<1>1. v.m \in Month /\ v.d \in 1..31
  BY DEF Date, Value
<1>2. v.m \in Int /\ v.m \div 12 = 0 /\ v.m % 12 = v.m /\ y + (v.m \div 12) = y
  BY <1>1, TwelveMonths DEF Month
<1> QED BY <1>1, <1>2, NormalIsDate DEF SetYear

LEMMA SetMonthIsDate ==
  ASSUME NEW v \in Date \cup Value, NEW m \in Int
  PROVE  /\ v \in Date => SetMonth(v, m) \in Date
         /\ v \in Value => SetMonth(v, m) \in Value
         /\ v.d <= DaysInMonth(v.y + (m \div 12), m % 12) =>
              /\ SetMonth(v, m).y = v.y + (m \div 12)
              /\ SetMonth(v, m).m = m % 12
              /\ SetMonth(v, m).d = v.d
<1>1. v.y \in Int /\ v.d \in 1..31
  BY DEF Date, Value
<1> QED BY <1>1, NormalIsDate DEF SetMonth

LEMMA SetDayIsDate ==
  ASSUME NEW v \in Date \cup Value, NEW day \in 1..31
  PROVE  /\ v \in Date => SetDay(v, day) \in Date
         /\ v \in Value => SetDay(v, day) \in Value
         /\ day <= DaysInMonth(v.y, v.m) =>
              SetDay(v, day).y = v.y /\ SetDay(v, day).m = v.m /\ SetDay(v, day).d = day
<1>1. v.y \in Int /\ v.m \in Month
  BY DEF Date, Value
<1>2. v.m \in Int /\ v.m \div 12 = 0 /\ v.m % 12 = v.m /\ v.y + (v.m \div 12) = v.y
  BY <1>1, TwelveMonths DEF Month
<1> QED BY <1>1, <1>2, NormalIsDate, SMTT(40) DEF SetDay

LEMMA DayNumberIsInt ==
  ASSUME NEW v \in Date
  PROVE  DayNumber(v) \in Int
<1>1. v.y \in Int /\ v.m \in 0..11 /\ v.d \in Int
  BY DEF Date, Month
<1>2. DaysBefore[v.m + 1] \in Int
  BY <1>1 DEF DaysBefore
<1> QED BY <1>1, <1>2 DEF DayNumber

(* A first day stays one in whichever month is displayed next: no month is   *)
(* too short for it.                                                         *)
LEMMA FirstDays ==
  ASSUME NEW at \in Date, at.d = 1, NEW m \in Int
  PROVE  /\ SetMonth(at, m) \in Date /\ SetMonth(at, m).d = 1
         /\ Page(SetMonth(at, m)) = 12 * at.y + m
         /\ CorrectMonth(at, m) = SetMonth(at, m)
<1>1. /\ DaysInMonth(at.y + (m \div 12), m % 12) \in 28..31
      /\ DaysInMonth(at.y, m) \in 28..31
  BY MonthLength
<1>2. at.d <= DaysInMonth(at.y + (m \div 12), m % 12) /\ ~(at.d > DaysInMonth(at.y, m))
  BY <1>1
<1>3. CorrectMonth(at, m) = SetMonth(at, m)
  BY <1>2 DEF CorrectMonth
<1>4. /\ SetMonth(at, m) \in Date /\ SetMonth(at, m).d = 1
      /\ SetMonth(at, m).y = at.y + (m \div 12) /\ SetMonth(at, m).m = m % 12
  BY <1>2, SetMonthIsDate
<1>5. at.y \in Int /\ m \div 12 \in Int /\ m % 12 \in Int /\ m = 12 * (m \div 12) + (m % 12)
  BY TwelveMonths DEF Date, Month
<1> QED BY <1>3, <1>4, <1>5 DEF Page

LEMMA FirstOfMonth ==
  ASSUME NEW y \in Int, NEW m \in Month
  PROVE  First(y, m) \in Date /\ First(y, m).d = 1 /\ First(y, m).y = y /\ First(y, m).m = m
BY DEF First, Date

LEMMA DateOfValue ==
  ASSUME NEW v \in Date \cup Value
  PROVE  DateOf(v) \in Date
BY DEF DateOf, Date, Value

(* The day that is clicked is the day the value gets, whatever day the value *)
(* had and however long its month is.                                        *)
LEMMA ClickedIsSet ==
  ASSUME NEW v \in Value, NEW at \in Date, NEW day \in 1..31,
         day <= DaysInMonth(at.y, at.m)
  PROVE  /\ SetClicked(v, at.y, at.m, day) \in Value
         /\ DateOf(SetClicked(v, at.y, at.m, day)) = [at EXCEPT !.d = day]
<1> DEFINE v1 == SetDay(v, 1)
           v2 == SetYear(v1, at.y)
           v3 == SetMonth(v2, at.m)
           v4 == SetDay(v3, day)
<1>0. \A y, m : 1 <= DaysInMonth(y, m) /\ DaysInMonth(y, m) \in Int
  BY MonthLength
<1>1. v1 \in Value /\ v1.d = 1
  BY <1>0, SetDayIsDate
<1>2. at.y \in Int /\ at.m \in Month /\ at.m \in Int
  BY DEF Date, Month
<1> HIDE DEF v1
<1>3. v2 \in Value /\ v2.d = 1 /\ v2.y = at.y
  BY <1>0, <1>1, <1>2, SetYearIsDate
<1> HIDE DEF v2
<1>4. at.m \div 12 = 0 /\ at.m % 12 = at.m /\ at.y + (at.m \div 12) = at.y
  BY <1>2, TwelveMonths
<1>5. v3 \in Value /\ v3.d = 1 /\ v3.y = at.y /\ v3.m = at.m
  BY <1>0, <1>2, <1>3, <1>4, SetMonthIsDate
<1> HIDE DEF v3
<1>6. v4 \in Value /\ v4.y = at.y /\ v4.m = at.m /\ v4.d = day
  BY <1>5, SetDayIsDate
<1> HIDE DEF v4
<1>7. DateOf(v4) = [at EXCEPT !.d = day]
  BY <1>6 DEF DateOf, Date
<1>8. SetClicked(v, at.y, at.m, day) = v4
  BY DEF SetClicked, v1, v2, v3, v4
<1> QED BY <1>6, <1>7, <1>8

(* The first day of the next month is as many days away as the month has.    *)
LEMMA EveryNth ==
  ASSUME NEW y \in Int, NEW k \in {4, 100, 400}
  PROVE  ((y + k) \div k) - ((y + k - 1) \div k) = IF y % k = 0 THEN 1 ELSE 0
<1>1. CASE k = 4
  BY <1>1
<1>2. CASE k = 100
  BY <1>2
<1>3. CASE k = 400
  BY <1>3
<1> QED BY <1>1, <1>2, <1>3

LEMMA YearLength ==
  ASSUME NEW y \in Int
  PROVE  /\ DayNumber(First(y + 1, 0)) = DayNumber(First(y, 11)) + 31
         /\ DayNumber(First(y, 11)) \in Int
<1>1. /\ ((y + 4) \div 4) - ((y + 3) \div 4) = IF y % 4 = 0 THEN 1 ELSE 0
      /\ ((y + 100) \div 100) - ((y + 99) \div 100) = IF y % 100 = 0 THEN 1 ELSE 0
      /\ ((y + 400) \div 400) - ((y + 399) \div 400) = IF y % 400 = 0 THEN 1 ELSE 0
  BY EveryNth
<1>2. (y % 400 = 0 => y % 100 = 0) /\ (y % 100 = 0 => y % 4 = 0)
  OBVIOUS
<1>3. /\ DayNumber(First(y + 1, 0)) =
           365 * (y + 1) + ((y + 4) \div 4) - ((y + 100) \div 100) + ((y + 400) \div 400) + 6
      /\ DayNumber(First(y, 11)) =
           365 * y + ((y + 3) \div 4) - ((y + 99) \div 100) + ((y + 399) \div 400)
           + 334 + (IF Leap(y) THEN 1 ELSE 0) + 6
  BY DEF DayNumber, First, DaysBefore
<1>4. Leap(y) <=> (y % 4 = 0 /\ (y % 100 # 0 \/ y % 400 = 0))
  BY DEF Leap
<1> QED BY <1>1, <1>2, <1>3, <1>4

LEMMA NextFirst ==
  ASSUME NEW at \in Date, at.d = 1
  PROVE  DayNumber(SetMonth(at, at.m + 1)) = DayNumber(at) + DaysInMonth(at.y, at.m)
<1>1. at.y \in Int /\ at.m \in 0..11 /\ at = First(at.y, at.m)
  BY DEF Date, Month, First
<1> DEFINE next == SetMonth(at, at.m + 1)
<1>2. next \in Date /\ next.d = 1 /\ Page(next) = 12 * at.y + (at.m + 1)
  <2>1. at.m + 1 \in Int
    BY <1>1
  <2> QED BY <2>1, FirstDays
<1> HIDE DEF next
<1>3. next.y \in Int /\ next.m \in 0..11 /\ next = First(next.y, next.m)
  BY <1>2 DEF Date, Month, First
<1>4. CASE at.m = 11
  <2>1. 12 * next.y + next.m = 12 * at.y + 12
    BY <1>1, <1>2, <1>4 DEF Page
  <2>3. next.y = at.y + 1 /\ next.m = 0
    BY <1>1, <1>3, <2>1
  <2>2. DaysInMonth(at.y, 11) = 31
    BY DEF DaysInMonth
  <2> QED BY <1>1, <1>3, <1>4, <2>3, <2>2, YearLength DEF next
<1>5. CASE at.m # 11
  <2>1. next.y = at.y /\ next.m = at.m + 1
    BY <1>1, <1>2, <1>3, <1>5 DEF Page
  <2>2. \A y \in Int, m \in 0..10 :
          DayNumber(First(y, m + 1)) = DayNumber(First(y, m)) + DaysInMonth(y, m)
    <3> SUFFICES ASSUME NEW y \in Int, NEW m \in 0..10
                 PROVE  DayNumber(First(y, m + 1)) = DayNumber(First(y, m)) + DaysInMonth(y, m)
      OBVIOUS
    <3> DEFINE base == 365 * y + ((y + 3) \div 4) - ((y + 99) \div 100) + ((y + 399) \div 400)
    <3>1. /\ DayNumber(First(y, m + 1)) =
               base + DaysBefore[m + 2] + (IF m + 1 > 1 /\ Leap(y) THEN 1 ELSE 0) + 6
          /\ DayNumber(First(y, m)) =
               base + DaysBefore[m + 1] + (IF m > 1 /\ Leap(y) THEN 1 ELSE 0) + 6
          /\ base \in Int
      BY DEF DayNumber, First, DaysBefore
    <3> HIDE DEF base
    <3>2. DaysBefore[m + 2] = DaysBefore[m + 1] + (IF m = 1 THEN 28 ELSE DaysInMonth(y, m))
      BY DEF DaysBefore, DaysInMonth
    <3>3. DaysBefore[m + 1] \in Int /\ DaysInMonth(y, m) \in Int
      BY MonthLength DEF DaysBefore
    <3>4. m = 1 => DaysInMonth(y, m) = IF Leap(y) THEN 29 ELSE 28
      BY DEF DaysInMonth
    <3> QED BY <3>1, <3>2, <3>3, <3>4
  <2>3. at.m \in 0..10
    BY <1>1, <1>5
  <2> QED BY <1>1, <1>3, <2>1, <2>2, <2>3 DEF next
<1> QED BY <1>4, <1>5

-----------------------------------------------------------------------------
(* What holds of the calendar at any time.                                   *)
Calendar ==
  /\ d \in Value \cup {None} /\ display \in Date \cup {None} /\ title \in Title
  /\ min \in Bound \cup {None} /\ max \in Bound \cup {None}
  /\ drawn \in Drawn \cup {None} /\ icons \in [left : BOOLEAN, right : BOOLEAN]
  /\ stuck \subseteq {"left", "right"}

(* There is a calendar, a month on view and a value, or none of the three.   *)
Together == (d = None <=> display = None) /\ (display = None <=> drawn = None)

(* The month on view is its first day, and it is the one in the title.       *)
FirstOnView == display # None => display.d = 1 /\ title.month = display.m

(* The icons, as they are looked at: only for a bound there is.              *)
Free(side) == IF side \in stuck THEN FALSE ELSE TRUE
LeftOf(at, lo) ==
  (lo = None => Free("left")) /\ (lo # None => DayNumber(lo) < DayNumber(at))
RightOf(at, hi) ==
  (hi = None => Free("right")) /\ (hi # None => DayNumber(hi) >= DayNumber(SetMonth(at, at.m + 1)))
IconsOnView ==
  /\ min = None => icons.left = Free("left")
  /\ max = None => icons.right = Free("right")
  /\ display # None => icons = [left |-> LeftOf(display, min), right |-> RightOf(display, max)]

(* The rest of the state, and what the listeners and timers rest on.         *)
Life ==
  /\ kind \in Kind /\ range \in Tens \cup {None}
  /\ text \in Value \cup {Invalid} /\ picked \in Date \cup {None}
  /\ shown \in BOOLEAN /\ ears \subseteq Listeners \cup {"body"}
  /\ timers \in [body : 0..MaxTimers, hide : BOOLEAN]
  /\ shown \/ picked # None => d # None
  /\ kind = "inline" => shown /\ ~timers.hide

CalInv == Calendar /\ Together /\ FirstOnView /\ IconsOnView
IInv == CalInv /\ Life

(* The calendar is drawn for a value, a month and bounds.                    *)
Redrawn(v, at, lo, hi) ==
  /\ d' = v /\ display' = at /\ min' = lo /\ max' = hi
  /\ title' \in Title /\ title'.month = at.m /\ stuck' \subseteq {"left", "right"}
  /\ drawn' = [at |-> at, selected |-> DateOf(v), lo |-> lo, hi |-> hi]
  /\ icons' = [left |-> LeftOf(at, lo)', right |-> RightOf(at, hi)']

LEMMA BoundIsDate ==
  ASSUME NEW lo \in Bound PROVE lo \in Date /\ lo # None
BY Assumptions

(* The icon of a side with a bound, and of one without.                      *)
LEMMA BareSide ==
  ASSUME NEW at, NEW lo, NEW hi
  PROVE  /\ lo = None => LeftOf(at, lo)' = Free("left")'
         /\ lo # None => LeftOf(at, lo)' = (DayNumber(lo) < DayNumber(at))
         /\ hi = None => RightOf(at, hi)' = Free("right")'
         /\ hi # None => RightOf(at, hi)' =
                          (DayNumber(hi) >= DayNumber(SetMonth(at, at.m + 1)))
<1>1. ASSUME lo = None PROVE LeftOf(at, lo)' = Free("left")'
  <2>1. CASE "left" \in stuck'
    BY <1>1, <2>1 DEF LeftOf, Free
  <2>2. CASE "left" \notin stuck'
    BY <1>1, <2>2 DEF LeftOf, Free
  <2> QED BY <2>1, <2>2
<1>2. ASSUME lo # None PROVE LeftOf(at, lo)' = (DayNumber(lo) < DayNumber(at))
  <2>1. CASE DayNumber(lo) < DayNumber(at)
    BY <1>2, <2>1 DEF LeftOf
  <2>2. CASE ~(DayNumber(lo) < DayNumber(at))
    BY <1>2, <2>2 DEF LeftOf
  <2> QED BY <2>1, <2>2
<1>3. ASSUME hi = None PROVE RightOf(at, hi)' = Free("right")'
  <2>1. CASE "right" \in stuck'
    BY <1>3, <2>1 DEF RightOf, Free
  <2>2. CASE "right" \notin stuck'
    BY <1>3, <2>2 DEF RightOf, Free
  <2> QED BY <2>1, <2>2
<1>4. ASSUME hi # None
      PROVE  RightOf(at, hi)' = (DayNumber(hi) >= DayNumber(SetMonth(at, at.m + 1)))
  <2>1. CASE DayNumber(hi) >= DayNumber(SetMonth(at, at.m + 1))
    BY <1>4, <2>1 DEF RightOf
  <2>2. CASE ~(DayNumber(hi) >= DayNumber(SetMonth(at, at.m + 1)))
    BY <1>4, <2>2 DEF RightOf
  <2> QED BY <2>1, <2>2
<1> QED BY <1>1, <1>2, <1>3, <1>4

LEMMA RedrawnIsWhole ==
  ASSUME NEW v \in Value, NEW at \in Date, at.d = 1,
         NEW lo \in Bound \cup {None}, NEW hi \in Bound \cup {None},
         Redrawn(v, at, lo, hi)
  PROVE  CalInv'
<1>1. v # None /\ at # None
  BY Assumptions
<1>2. drawn' \in Drawn /\ drawn' # None
  <2>1. DateOf(v) \in Date
    BY DateOfValue
  <2>2. drawn' = [at |-> at, selected |-> DateOf(v), lo |-> lo, hi |-> hi]
    BY DEF Redrawn
  <2>3. drawn' \in Drawn
    BY <2>1, <2>2 DEF Drawn
  <2> QED BY <2>3, Assumptions
<1>3. LeftOf(at, lo)' \in BOOLEAN /\ RightOf(at, hi)' \in BOOLEAN
  BY DEF LeftOf, RightOf, Free
<1>4. icons' = [left |-> LeftOf(at, lo)', right |-> RightOf(at, hi)']
  BY DEF Redrawn
<1>5. icons' \in [left : BOOLEAN, right : BOOLEAN]
  BY <1>3, <1>4
<1>6. (lo = None => icons'.left = Free("left")') /\ (hi = None => icons'.right = Free("right")')
  BY <1>4, BareSide
<1>7. Calendar'
  BY <1>2, <1>5 DEF Calendar, Redrawn
<1>8. Together' /\ FirstOnView'
  BY <1>1, <1>2 DEF Redrawn, Together, FirstOnView
<1>9. IconsOnView'
  BY <1>4, <1>6 DEF Redrawn, IconsOnView, LeftOf, RightOf
<1> QED BY <1>7, <1>8, <1>9 DEF CalInv

(* _setCalander draws it, when there is a month to draw; the icon on a side   *)
(* without a bound is as it was.                                             *)
LEMMA SetCalanderDraws ==
  ASSUME CalInv, NEW v \in Value, NEW at \in Date,
         NEW lo \in Bound \cup {None}, NEW hi \in Bound \cup {None},
         lo = None => icons.left = Free("left")', hi = None => icons.right = Free("right")',
         SetCalander(v, at, lo, hi)
  PROVE  /\ drawn' = [at |-> at, selected |-> DateOf(v), lo |-> lo, hi |-> hi]
         /\ icons' = [left |-> LeftOf(at, lo)', right |-> RightOf(at, hi)']
<1>1. at # None
  BY Assumptions
<1>2. /\ icons' = [left |-> IF lo = None THEN icons.left ELSE DayNumber(lo) < DayNumber(at),
                   right |-> IF hi = None THEN icons.right
                             ELSE DayNumber(hi) >= DayNumber(SetMonth(at, at.m + 1))]
      /\ drawn' = [at |-> at, selected |-> DateOf(v), lo |-> lo, hi |-> hi]
  BY <1>1 DEF SetCalander, Icons, Drawing
<1>4. LeftOf(at, lo)' = IF lo = None THEN icons.left ELSE DayNumber(lo) < DayNumber(at)
  <2>1. CASE lo = None
    <3>1. LeftOf(at, lo)' = Free("left")'
      BY <2>1, BareSide
    <3> QED BY <2>1, <3>1
  <2>2. CASE lo # None
    <3>1. LeftOf(at, lo)' = (DayNumber(lo) < DayNumber(at))
      BY <2>2, BareSide
    <3> QED BY <2>2, <3>1
  <2> QED BY <2>1, <2>2
<1>5. RightOf(at, hi)' = IF hi = None THEN icons.right
                         ELSE DayNumber(hi) >= DayNumber(SetMonth(at, at.m + 1))
  <2>1. CASE hi = None
    <3>1. RightOf(at, hi)' = Free("right")'
      BY <2>1, BareSide
    <3> QED BY <2>1, <3>1
  <2>2. CASE hi # None
    <3>1. RightOf(at, hi)' = (DayNumber(hi) >= DayNumber(SetMonth(at, at.m + 1)))
      BY <2>2, BareSide
    <3> QED BY <2>2, <3>1
  <2> QED BY <2>1, <2>2
<1> QED BY <1>2, <1>4, <1>5

LEMMA IconsStay ==
  ASSUME CalInv, stuck' = stuck
  PROVE  /\ min = None => icons.left = Free("left")'
         /\ max = None => icons.right = Free("right")'
         /\ stuck' \subseteq {"left", "right"}
BY DEF CalInv, Calendar, IconsOnView, Free

LEMMA TitleIsTitle ==
  ASSUME CalInv, NEW at \in Date
  PROVE  TitleOf(at) \in Title /\ TitleOf(at).month = at.m
BY DEF TitleOf, Title, Date

LEMMA ValDraws ==
  ASSUME CalInv, NEW v \in Value, Val(v), UNCHANGED <<min, max, stuck>>
  PROVE  /\ Redrawn(v, First(v.y, v.m), min, max)
         /\ CalInv'
<1> DEFINE at == First(v.y, v.m)
<1>1. at \in Date /\ at.d = 1
  <2>1. v.y \in Int /\ v.m \in Month
    BY DEF Value
  <2> QED BY <2>1, FirstOfMonth
<1>2. d' = v /\ display' = at /\ title' = TitleOf(at) /\ SetCalander(v, at, min, max)
  BY DEF Val
<1> HIDE DEF at
<1>3. min \in Bound \cup {None} /\ max \in Bound \cup {None}
  BY DEF CalInv, Calendar
<1>4. Redrawn(v, at, min, max)
  BY <1>1, <1>2, <1>3, IconsStay, SetCalanderDraws, TitleIsTitle DEF Redrawn
<1> QED BY <1>1, <1>3, <1>4, RedrawnIsWhole DEF at

-----------------------------------------------------------------------------
(* The three things a handler does to the calendar: draw it, leave it, or,   *)
(* for a bound that is set before the first focus, change the selects only.  *)
Redraws ==
  \E v \in Value, at \in Date, lo, hi \in Bound \cup {None} :
    at.d = 1 /\ Redrawn(v, at, lo, hi)
Keeps ==
  /\ UNCHANGED <<display, min, max, stuck, drawn, icons, title>>
  /\ d' = d \/ (d # None /\ d' \in Value)
  /\ shown' /\ ~timers'.hide =>
       shown /\ ~timers.hide /\ (d' = d \/ DateOf(d') = DateOf(d))
Waits ==
  /\ display = None /\ ~shown'
  /\ min' \in Bound \cup {None} /\ (min' = None => icons.left = Free("left")')
  /\ max' \in Bound \cup {None} /\ (max' = None => icons.right = Free("right")')
  /\ title' \in Title /\ stuck' \subseteq {"left", "right"}
  /\ UNCHANGED <<d, display, drawn, icons>>

Step == (Redraws \/ Keeps \/ Waits) /\ Life'

LEMMA WrittenIsValue ==
  ASSUME NEW v \in Value
  PROVE  /\ Written(v) \in Value /\ DateOf(Written(v)) = DateOf(v)
         /\ kind # "date" => Written(v) = v
<1>1. CASE kind = "date"
  <2>1. Written(v) = [v EXCEPT !.h = 0, !.mi = 0]
    BY <1>1 DEF Written
  <2> DEFINE w == [v EXCEPT !.h = 0, !.mi = 0]
  <2>2. w \in Value
    <3>1. \A hour \in 0..23, minute \in 0..59 :
            [v EXCEPT !.h = hour, !.mi = minute] \in Value
      BY DEF Value
    <3>2. 0 \in 0..23 /\ 0 \in 0..59
      OBVIOUS
    <3> QED BY <3>1, <3>2, Zenon
  <2>3. w.y = v.y /\ w.m = v.m /\ w.d = v.d
    BY DEF Value
  <2> HIDE DEF w
  <2>4. DateOf(w) = DateOf(v)
    BY <2>3 DEF DateOf
  <2> QED BY <1>1, <2>1, <2>2, <2>4 DEF w
<1>2. CASE kind # "date"
  BY <1>2 DEF Written
<1> QED BY <1>1, <1>2

LEMMA ReadIsValue ==
  ASSUME NEW t \in Value \cup {Invalid} PROVE Read(t) \in Value
BY Assumptions DEF Read

LEMMA ValRedraws ==
  ASSUME CalInv, NEW v \in Value, Val(v), UNCHANGED <<min, max, stuck>>
  PROVE  Redraws /\ d' = v
<1>1. Redrawn(v, First(v.y, v.m), min, max)
  BY ValDraws
<1>2. First(v.y, v.m) \in Date /\ First(v.y, v.m).d = 1
  BY FirstOfMonth DEF Value
<1>3. min \in Bound \cup {None} /\ max \in Bound \cup {None}
  BY DEF CalInv, Calendar
<1> QED BY <1>1, <1>2, <1>3 DEF Redraws, Redrawn

LEMMA NoneIsNoValue == None \notin Value /\ None \notin Date /\ None \notin Drawn
BY Assumptions

LEMMA FocusStep == ASSUME IInv, Focus PROVE Step
<1>1. Read(text) \in Value
  BY ReadIsValue DEF IInv, Life
<1>2. Redraws /\ d' = Read(text)
  BY <1>1, ValRedraws DEF IInv, Focus
<1>3. Life'
  <2>1. d' # None
    BY <1>1, <1>2, NoneIsNoValue
  <2>2. timers' \in [body : 0..MaxTimers, hide : BOOLEAN] /\ timers'.hide = timers.hide
    BY Assumptions DEF IInv, Life, Focus, Show
  <2>3. kind # "inline"
    BY DEF IInv, Life, Focus
  <2> QED BY <2>1, <2>2, <2>3 DEF IInv, Life, Focus, Show
<1> QED BY <1>2, <1>3 DEF Step

LEMMA TypeStep == ASSUME IInv, NEW t \in Typed, Type(t) PROVE Step
<1>1. t \in Value \cup {Invalid}
  BY Assumptions
<1>2. text' \in Value \cup {Invalid}
  BY <1>1, WrittenIsValue DEF Type
<1>3. CASE shown
  <2>1. Read(text') \in Value /\ Val(Read(text')) /\ UNCHANGED <<min, max, stuck>>
    BY <1>2, <1>3, ReadIsValue DEF Type
  <2> DEFINE v == Read(text')
  <2> HIDE DEF v
  <2>2. Redraws /\ d' = v
    BY <2>1, ValRedraws DEF IInv, v
  <2>3. d' # None
    BY <2>1, <2>2, NoneIsNoValue DEF v
  <2>4. Life'
    BY <1>2, <2>3 DEF IInv, Life, Type, life
  <2> QED BY <2>2, <2>4 DEF Step
<1>4. CASE ~shown
  <2>1. Keeps
    BY <1>4 DEF Type, Keeps, life, IInv, Life
  <2>2. Life'
    BY <1>2, <1>4 DEF IInv, Life, Type, life
  <2> QED BY <2>1, <2>2 DEF Step
<1> QED BY <1>3, <1>4 DEF IInv, Life

LEMMA DisplayStep ==
  ASSUME IInv, shown, NEW at \in Date, at.d = 1, Display(at)
  PROVE  Step
<1>1. d \in Value
  BY DEF IInv, CalInv, Calendar, Life
<1>2. min \in Bound \cup {None} /\ max \in Bound \cup {None}
  BY DEF IInv, CalInv, Calendar
<1>3. Redrawn(d, at, min, max)
  BY <1>1, <1>2, IconsStay, SetCalanderDraws, TitleIsTitle DEF IInv, Display, Redrawn, value
<1>4. Redraws
  BY <1>1, <1>2, <1>3 DEF Redraws
<1>5. Life'
  BY DEF IInv, Life, Display, value, life
<1> QED BY <1>4, <1>5 DEF Step

LEMMA ShownHasMonth ==
  ASSUME IInv, shown
  PROVE  /\ d \in Value /\ d # None /\ display \in Date /\ display # None /\ display.d = 1
         /\ drawn \in Drawn /\ drawn # None
BY DEF IInv, CalInv, Calendar, Together, FirstOnView, Life

LEMMA PageStep ==
  ASSUME IInv,
         \/ \E m \in Month : MonthSelect(m)
         \/ \E page \in Pages : YearSelect(page[1])
         \/ Previous \/ NextMonth
  PROVE  Step
<1>0. shown
  BY DEF MonthSelect, YearSelect, Previous, NextMonth
<1>1. display \in Date /\ display.d = 1 /\ display.m \in Int
  BY <1>0, ShownHasMonth DEF Date, Month
<1>2. \A m \in Int : /\ SetMonth(display, m) \in Date /\ SetMonth(display, m).d = 1
                     /\ CorrectMonth(display, m) = SetMonth(display, m)
  BY <1>1, FirstDays
<1>3. ASSUME NEW m \in Month, MonthSelect(m) PROVE Step
  BY <1>0, <1>2, <1>3, DisplayStep DEF MonthSelect, Month
<1>4. ASSUME NEW page \in Pages, YearSelect(page[1]) PROVE Step
  <2>1. page[1] \in Int
    BY Assumptions
  <2>2. 1 <= DaysInMonth(page[1], display.m)
    BY MonthLength
  <2>3. SetYear(display, page[1]) \in Date /\ SetYear(display, page[1]).d = 1
    BY <1>1, <2>1, <2>2, SetYearIsDate
  <2> QED BY <1>0, <1>4, <2>3, DisplayStep DEF YearSelect
<1>5. CASE Previous
  BY <1>0, <1>1, <1>2, <1>5, DisplayStep DEF Previous
<1>6. CASE NextMonth
  BY <1>0, <1>1, <1>2, <1>6, DisplayStep DEF NextMonth
<1> QED BY <1>3, <1>4, <1>5, <1>6

LEMMA WriteOutputStep ==
  ASSUME IInv, shown, NEW v \in Value, WriteOutput(v), UNCHANGED <<kind, min, max, stuck>>,
         kind # "inline" => UNCHANGED <<display, title, drawn, icons>>
  PROVE  /\ text' \in Value /\ d' \in Value /\ d' # None
         /\ text' = Written(v) /\ DateOf(d') = DateOf(v)
         /\ kind = "inline" => Redraws
         /\ kind # "inline" => d' = v
<1>1. Written(v) \in Value /\ DateOf(Written(v)) = DateOf(v) /\ text' = Written(v)
  BY WrittenIsValue DEF WriteOutput
<1>2. CASE kind = "inline"
  <2>1. Val(Written(v))
    BY <1>2 DEF WriteOutput
  <2>2. Redraws /\ d' = Written(v)
    BY <1>1, <2>1, ValRedraws DEF IInv
  <2> QED BY <1>1, <1>2, <2>2, NoneIsNoValue
<1>3. CASE kind # "inline"
  BY <1>1, <1>3, NoneIsNoValue DEF WriteOutput
<1> QED BY <1>2, <1>3

(* A click on a time keeps the day, and with it the calendar.                *)
LEMMA SetTimeStep ==
  ASSUME IInv, shown, NEW v \in Value, DateOf(v) = DateOf(d), SetTime(v),
         range' \in Tens \cup {None}
  PROVE  Step
<1>1. /\ WriteOutput(v) /\ picked' = None /\ UNCHANGED <<kind, min, max, stuck, shown, ears, timers>>
      /\ kind # "inline" => UNCHANGED <<display, title, drawn, icons>>
  BY DEF SetTime, life
<1>2. /\ text' \in Value /\ d' \in Value /\ d' # None /\ DateOf(d') = DateOf(d)
      /\ kind = "inline" => Redraws
  BY <1>1, WriteOutputStep
<1>3. Life'
  BY <1>1, <1>2 DEF IInv, Life
<1>4. CASE kind = "inline"
  BY <1>2, <1>3, <1>4 DEF Step
<1>5. CASE kind # "inline"
  <2>1. Keeps
    BY <1>1, <1>2, <1>5, ShownHasMonth DEF Keeps
  <2> QED BY <1>3, <2>1 DEF Step
<1> QED BY <1>4, <1>5

LEMMA HourStep == ASSUME IInv, NEW h \in Hours, ClickHour(h) PROVE Step
<1>1. d \in Value /\ shown
  BY ShownHasMonth DEF ClickHour
<1>2. h \in 0..23
  BY Assumptions
<1> DEFINE v == [d EXCEPT !.h = h]
<1>3. v \in Value /\ DateOf(v) = DateOf(d)
  BY <1>1, <1>2 DEF Value, DateOf
<1>4. SetTime(v) /\ range' \in Tens \cup {None}
  BY DEF ClickHour, IInv, Life
<1> HIDE DEF v
<1> QED BY <1>1, <1>3, <1>4, SetTimeStep

LEMMA HalfStep == ASSUME IInv, NEW half \in {"am", "pm"}, ClickHalf(half) PROVE Step
<1>1. d \in Value /\ shown
  BY ShownHasMonth DEF ClickHalf
<1>2. PICK h \in 0..23 : SetTime([d EXCEPT !.h = h])
  <2>1. d.h \in 0..23
    BY <1>1 DEF Value
  <2>2. CASE d.h >= 12 /\ SetTime([d EXCEPT !.h = d.h - 12])
    <3>1. d.h - 12 \in 0..23
      BY <2>1, <2>2
    <3> WITNESS d.h - 12 \in 0..23
    <3> QED BY <2>2
  <2>3. CASE d.h < 12 /\ SetTime([d EXCEPT !.h = d.h + 12])
    <3>1. d.h + 12 \in 0..23
      BY <2>1, <2>3
    <3> WITNESS d.h + 12 \in 0..23
    <3> QED BY <2>3
  <2> QED BY <2>2, <2>3 DEF ClickHalf
<1> DEFINE v == [d EXCEPT !.h = h]
<1>3. v \in Value /\ DateOf(v) = DateOf(d)
  BY <1>1 DEF Value, DateOf
<1>4. SetTime(v) /\ range' \in Tens \cup {None}
  BY <1>2 DEF ClickHalf, IInv, Life
<1> HIDE DEF v
<1> QED BY <1>1, <1>3, <1>4, SetTimeStep

LEMMA MinuteStep == ASSUME IInv, NEW m \in Minutes, ClickMinute(m) PROVE Step
<1>1. d \in Value /\ shown /\ m \in 0..59
  BY ShownHasMonth, Assumptions DEF ClickMinute
<1>2. CASE range' = None /\ SetTime([d EXCEPT !.mi = m])
  <2> DEFINE v == [d EXCEPT !.mi = m]
  <2>1. v \in Value /\ DateOf(v) = DateOf(d)
    BY <1>1 DEF Value, DateOf
  <2>2. SetTime(v) /\ range' \in Tens \cup {None}
    BY <1>2
  <2> HIDE DEF v
  <2> QED BY <1>1, <2>1, <2>2, SetTimeStep
<1>3. CASE /\ m \in Tens /\ range' = m
           /\ UNCHANGED <<value, display, min, max, stuck, drawn, icons, title, picked, life>>
  <2>1. Keeps
    BY <1>1, <1>3 DEF Keeps, value, life
  <2>2. Life'
    BY <1>3 DEF IInv, Life, value, life
  <2> QED BY <2>1, <2>2 DEF Step
<1> QED BY <1>2, <1>3 DEF ClickMinute

LEMMA ClickDayEffect ==
  ASSUME IInv, NEW day \in Clicked, ClickDay(day)
  PROVE  LET new == SetClicked(d, drawn.at.y, drawn.at.m, day) IN
         /\ new \in Value /\ DateOf(new) = picked'
         /\ picked' \in Date /\ Weekday(picked') \notin disableDays
         /\ WriteOutput(new) /\ shown /\ UNCHANGED <<kind, min, max, stuck, range, shown, ears>>
<1>1. d \in Value /\ drawn \in Drawn
  BY ShownHasMonth DEF ClickDay
<1>2. drawn.at \in Date
  BY <1>1 DEF Drawn
<1>3. DaysInMonth(drawn.at.y, drawn.at.m) \in 28..31
  BY MonthLength
<1>4. day \in 1..31 /\ day <= DaysInMonth(drawn.at.y, drawn.at.m)
  BY <1>3 DEF ClickDay
<1>5. picked' = [drawn.at EXCEPT !.d = day]
  BY DEF ClickDay
<1>6. picked' \in Date
  BY <1>2, <1>4, <1>5 DEF Date
<1>7. Weekday(picked') \notin disableDays
  BY <1>5 DEF ClickDay, Disabled
<1> DEFINE new == SetClicked(d, drawn.at.y, drawn.at.m, day)
<1>8. new \in Value /\ DateOf(new) = picked'
  BY <1>1, <1>2, <1>4, <1>5, ClickedIsSet
<1>9. WriteOutput(new) /\ shown /\ UNCHANGED <<kind, min, max, stuck, range, shown, ears>>
  BY DEF ClickDay
<1> QED BY <1>6, <1>7, <1>8, <1>9

LEMMA ClickDayStep == ASSUME IInv, NEW day \in Clicked, ClickDay(day) PROVE Step
<1> DEFINE new == SetClicked(d, drawn.at.y, drawn.at.m, day)
<1>1. /\ new \in Value /\ DateOf(new) = picked' /\ picked' \in Date
      /\ WriteOutput(new) /\ shown /\ UNCHANGED <<kind, min, max, stuck, range, shown, ears>>
  BY ClickDayEffect
<1>2. /\ kind = "inline" => UNCHANGED timers
      /\ kind = "date" => /\ timers' = [timers EXCEPT !.hide = TRUE]
                          /\ UNCHANGED <<display, title, drawn, icons>>
      /\ kind = "datetime" => /\ SetCalander(new, display, min, max)
                              /\ UNCHANGED <<display, title, timers>>
  BY DEF ClickDay
<1> HIDE DEF new
<1>3. kind \in {"date", "datetime", "inline"}
  BY DEF IInv, Life, Kind
<1>4. timers' \in [body : 0..MaxTimers, hide : BOOLEAN]
  BY <1>2, <1>3 DEF IInv, Life
<1>5. text' = Written(new) /\ Written(new) \in Value
  BY <1>1, WrittenIsValue DEF WriteOutput
<1>6. ASSUME d' # None PROVE Life'
  BY <1>1, <1>2, <1>4, <1>5, <1>6 DEF IInv, Life
<1>7. CASE kind = "inline"
  <2>1. Redraws /\ d' # None
    BY <1>1, <1>7, WriteOutputStep
  <2> QED BY <1>6, <2>1 DEF Step
<1>8. CASE kind = "date"
  <2>1. d' = new /\ UNCHANGED <<display, title, drawn, icons>>
    BY <1>1, <1>2, <1>8 DEF WriteOutput
  <2>2. timers'.hide
    BY <1>2, <1>8 DEF IInv, Life
  <2>3. Keeps
    BY <1>1, <2>1, <2>2, ShownHasMonth DEF Keeps
  <2> QED BY <1>1, <1>6, <2>1, <2>3, NoneIsNoValue DEF Step
<1>9. CASE kind = "datetime"
  <2>1. d' = new /\ d' # None
    BY <1>1, <1>9, NoneIsNoValue DEF WriteOutput
  <2>2. display \in Date /\ display.d = 1 /\ title \in Title /\ title.month = display.m
    BY <1>1, ShownHasMonth DEF IInv, CalInv, Calendar, FirstOnView
  <2>3. min \in Bound \cup {None} /\ max \in Bound \cup {None}
    BY DEF IInv, CalInv, Calendar
  <2>4. Redrawn(new, display, min, max)
    BY <1>1, <1>2, <1>9, <2>1, <2>2, <2>3, IconsStay, SetCalanderDraws DEF IInv, Redrawn
  <2>5. Redraws
    BY <1>1, <2>2, <2>3, <2>4 DEF Redraws
  <2> QED BY <1>6, <2>1, <2>5 DEF Step
<1> QED BY <1>3, <1>7, <1>8, <1>9

LEMMA BoundStep ==
  ASSUME IInv, (\E lo \in Bound \cup {None} : Min(lo)) \/ (\E hi \in Bound \cup {None} : Max(hi))
  PROVE  Step
<1> DEFINE title1(y) == [title EXCEPT !.monthSelect = 0, !.yearSelect = y]
<1>0. min \in Bound \cup {None} /\ max \in Bound \cup {None} /\ title \in Title
  BY DEF IInv, CalInv, Calendar
<1>1. \A y \in Int : title1(y) \in Title /\ title1(y).month = title.month
  <2> SUFFICES ASSUME NEW y \in Int PROVE title1(y) \in Title /\ title1(y).month = title.month
    OBVIOUS
  <2>1. 0 \in Month
    BY DEF Month
  <2> QED BY <1>0, <2>1 DEF Title
<1> HIDE DEF title1
<1>2. PICK lo \in Bound \cup {None}, hi \in Bound \cup {None}, y \in Int :
        /\ min' = lo /\ max' = hi /\ title' = title1(y)
        /\ lo = None => icons.left = Free("left")'
        /\ hi = None => icons.right = Free("right")'
        /\ stuck' \subseteq {"left", "right"}
        /\ SetCalander(d, display, lo, hi)
        /\ UNCHANGED <<value, display, range, picked, life>>
  <2>0. ASSUME NEW lo \in Bound \cup {None} PROVE FirstYear(lo) \in Int
    <3>1. Now.y \in Int /\ yearRange \in Int
      BY Assumptions DEF Value
    <3>2. lo # None => lo.y \in Int
      BY BoundIsDate DEF Date
    <3> QED BY <3>1, <3>2 DEF FirstYear
  <2>1. ASSUME NEW lo \in Bound \cup {None}, Min(lo)
        PROVE  \E h \in Bound \cup {None}, y \in Int :
                 /\ min' = lo /\ max' = h /\ title' = title1(y)
                 /\ lo = None => icons.left = Free("left")'
                 /\ h = None => icons.right = Free("right")'
                 /\ stuck' \subseteq {"left", "right"}
                 /\ SetCalander(d, display, lo, h)
                 /\ UNCHANGED <<value, display, range, picked, life>>
    <3>1. stuck' = Stuck("left", icons.left, lo)
      BY <2>1 DEF Min
    <3>2. /\ lo = None => icons.left = Free("left")'
          /\ max = None => icons.right = Free("right")'
          /\ stuck' \subseteq {"left", "right"}
      BY <3>1 DEF Stuck, Free, IInv, CalInv, Calendar, IconsOnView
    <3>3. FirstYear(lo) \in Int
      BY <2>0
    <3> QED BY <1>0, <2>1, <3>2, <3>3 DEF Min, title1
  <2>2. ASSUME NEW hi \in Bound \cup {None}, Max(hi)
        PROVE  \E l \in Bound \cup {None}, y \in Int :
                 /\ min' = l /\ max' = hi /\ title' = title1(y)
                 /\ l = None => icons.left = Free("left")'
                 /\ hi = None => icons.right = Free("right")'
                 /\ stuck' \subseteq {"left", "right"}
                 /\ SetCalander(d, display, l, hi)
                 /\ UNCHANGED <<value, display, range, picked, life>>
    <3>1. stuck' = Stuck("right", icons.right, hi)
      BY <2>2 DEF Max
    <3>2. /\ min = None => icons.left = Free("left")'
          /\ hi = None => icons.right = Free("right")'
          /\ stuck' \subseteq {"left", "right"}
      BY <3>1 DEF Stuck, Free, IInv, CalInv, Calendar, IconsOnView
    <3>3. FirstYear(min) \in Int
      BY <1>0, <2>0
    <3> QED BY <1>0, <2>2, <3>2, <3>3 DEF Max, title1
  <2> QED BY <2>1, <2>2
<1>3. Life'
  BY <1>2 DEF IInv, Life, value, life
<1>4. CASE display = None
  <2>1. UNCHANGED <<drawn, icons>>
    BY <1>2, <1>4 DEF SetCalander, Drawing, Icons
  <2>2. ~shown
    BY <1>4, ShownHasMonth
  <2>3. Waits
    BY <1>1, <1>2, <1>4, <2>1, <2>2 DEF Waits, value, life
  <2> QED BY <1>3, <2>3 DEF Step
<1>5. CASE display # None
  <2>1. d \in Value /\ display \in Date /\ display.d = 1 /\ title.month = display.m
    BY <1>5 DEF IInv, CalInv, Calendar, Together, FirstOnView
  <2>2. Redrawn(d, display, lo, hi)
    BY <1>1, <1>2, <2>1, SetCalanderDraws DEF IInv, Redrawn, value
  <2>3. Redraws
    BY <2>1, <2>2 DEF Redraws
  <2> QED BY <1>3, <2>3 DEF Step
<1> QED BY <1>4, <1>5

LEMMA HideStep ==
  ASSUME IInv, Dismiss \/ HideTimer \/ BodyTimer \/ UNCHANGED vars
  PROVE  Step
<1>1. UNCHANGED <<value, view>>
  BY DEF Dismiss, HideTimer, BodyTimer, vars, value, view, life
<1>2. Keeps /\ Life'
  <2>1. CASE Dismiss
    BY <1>1, <2>1 DEF Dismiss, Hide, Keeps, IInv, Life, value, view
  <2>2. CASE HideTimer
    BY <1>1, <2>2 DEF HideTimer, Hide, Keeps, IInv, Life, value, view
  <2>3. CASE BodyTimer
    <3>1. timers' \in [body : 0..MaxTimers, hide : BOOLEAN] /\ timers'.hide = timers.hide
      BY <2>3, Assumptions DEF BodyTimer, IInv, Life
    <3> QED BY <1>1, <2>3, <3>1 DEF BodyTimer, Keeps, IInv, Life, value, view
  <2>4. CASE UNCHANGED vars
    BY <1>1, <2>4 DEF vars, Keeps, IInv, Life, value, view, life
  <2> QED BY <2>1, <2>2, <2>3, <2>4
<1> QED BY <1>2 DEF Step

LEMMA EveryStep == ASSUME IInv, [Next]_vars PROVE Step
BY FocusStep, TypeStep, PageStep, ClickDayStep, HourStep, HalfStep, MinuteStep,
   BoundStep, HideStep DEF Next

-----------------------------------------------------------------------------
(* The invariant, and the theorems.                                          *)

LEMMA InitIInv == Init => IInv /\ CalendarIsCurrent /\ PickedIsWritten
<1> SUFFICES ASSUME Init PROVE IInv /\ CalendarIsCurrent /\ PickedIsWritten
  OBVIOUS
<1>1. Now \in Value /\ Now.y \in Int /\ Now.m \in Month /\ yearRange \in Int
  BY Assumptions DEF Value
<1>2. [left |-> TRUE, right |-> TRUE] \in [left : BOOLEAN, right : BOOLEAN]
  OBVIOUS
<1>3. /\ min = None /\ max = None /\ range = None /\ picked = None /\ text = Invalid /\ stuck = {}
      /\ kind \in Kind /\ icons = [left |-> TRUE, right |-> TRUE]
  BY DEF Init
<1>4. CASE kind = "inline"
  <2> DEFINE at == First(Now.y, Now.m)
  <2>1. at \in Date /\ at.d = 1 /\ at.m = Now.m
    BY <1>1, FirstOfMonth
  <2>2. /\ d = Now /\ display = at /\ shown = TRUE /\ ears = Listeners
        /\ drawn = [at |-> at, selected |-> DateOf(Now), lo |-> None, hi |-> None]
        /\ title = [month |-> Now.m, year |-> Now.y, monthSelect |-> Now.m, yearSelect |-> Now.y]
        /\ timers = [body |-> 1, hide |-> FALSE]
    BY <1>4 DEF Init
  <2> HIDE DEF at
  <2>3. drawn \in Drawn
    BY <1>1, <2>1, <2>2, DateOfValue DEF Drawn
  <2>4. d # None /\ display # None /\ drawn # None
    BY <1>1, <2>1, <2>2, <2>3, NoneIsNoValue
  <2>5. title \in Title /\ title.month = display.m
    BY <1>1, <2>1, <2>2 DEF Title
  <2>6. timers \in [body : 0..MaxTimers, hide : BOOLEAN]
    BY <2>2, Assumptions
  <2>7. Calendar /\ Together /\ FirstOnView
    BY <1>1, <1>2, <1>3, <2>1, <2>2, <2>3, <2>4, <2>5 DEF Calendar, Together, FirstOnView
  <2>8. IconsOnView
    BY <1>3 DEF IconsOnView, LeftOf, RightOf, Free
  <2>9. Life
    BY <1>3, <2>2, <2>4, <2>6 DEF Life
  <2>10. CalendarIsCurrent /\ PickedIsWritten
    BY <1>3, <2>2 DEF CalendarIsCurrent, PickedIsWritten
  <2> QED BY <2>7, <2>8, <2>9, <2>10 DEF IInv, CalInv
<1>5. CASE kind # "inline"
  <2>1. /\ d = None /\ display = None /\ drawn = None /\ shown = FALSE /\ ears = {}
        /\ title = [month |-> None, year |-> None, monthSelect |-> 0,
                    yearSelect |-> Now.y - yearRange]
        /\ timers = [body |-> 0, hide |-> FALSE]
    BY <1>5 DEF Init
  <2>2. title \in Title
    <3>1. 0 \in Month /\ Now.y - yearRange \in Int
      BY <1>1 DEF Month
    <3> QED BY <2>1, <3>1 DEF Title
  <2>3. timers \in [body : 0..MaxTimers, hide : BOOLEAN]
    BY <2>1, Assumptions
  <2>4. CalInv
    BY <1>2, <1>3, <2>1, <2>2 DEF CalInv, Calendar, Together, FirstOnView, IconsOnView, Free
  <2>5. Life
    BY <1>3, <1>5, <2>1, <2>3 DEF Life
  <2> QED BY <1>3, <2>1, <2>4, <2>5 DEF IInv, CalendarIsCurrent, PickedIsWritten
<1> QED BY <1>4, <1>5

LEMMA KeepsWhole == ASSUME IInv, Keeps PROVE CalInv'
<1>1. (d' \in Value \cup {None}) /\ (d' = None <=> d = None)
  BY NoneIsNoValue DEF Keeps, IInv, CalInv, Calendar
<1>2. Calendar' /\ Together' /\ FirstOnView'
  BY <1>1 DEF Keeps, IInv, CalInv, Calendar, Together, FirstOnView
<1>3. IconsOnView'
  BY DEF Keeps, IInv, CalInv, IconsOnView, LeftOf, RightOf, Free
<1> QED BY <1>2, <1>3 DEF CalInv

LEMMA IInvStep == IInv /\ [Next]_vars => IInv'
<1> SUFFICES ASSUME IInv, [Next]_vars PROVE IInv'
  OBVIOUS
<1>1. Step
  BY EveryStep
<1>2. ASSUME Redraws PROVE CalInv'
  BY <1>2, RedrawnIsWhole DEF Redraws
<1>3. ASSUME Keeps PROVE CalInv'
  BY <1>3, KeepsWhole
<1>4. ASSUME Waits PROVE CalInv'
  BY <1>4 DEF Waits, IInv, CalInv, Calendar, Together, FirstOnView, IconsOnView,
              LeftOf, RightOf, Free
<1> QED BY <1>1, <1>2, <1>3, <1>4 DEF Step, IInv

LEMMA IInvHolds == Spec => []IInv
<1>1. Init => IInv
  BY InitIInv
<1> QED BY <1>1, IInvStep, PTL DEF Spec

LEMMA IInvTypes == IInv => TypeOK
BY DEF IInv, CalInv, Calendar, Together, Life, TypeOK

(* The dates of the picker are dates that exist in their types, whatever is  *)
(* typed, clicked or set, and an open picker has its calendar.               *)
THEOREM TypeCorrect == Spec => []TypeOK
BY IInvHolds, IInvTypes, PTL

LEMMA CurrentStep == IInv /\ CalendarIsCurrent /\ [Next]_vars => CalendarIsCurrent'
<1> SUFFICES ASSUME IInv, CalendarIsCurrent, [Next]_vars PROVE CalendarIsCurrent'
  OBVIOUS
<1>1. Step
  BY EveryStep
<1>2. CASE Redraws
  BY <1>2 DEF Redraws, Redrawn, CalendarIsCurrent
<1>3. CASE Keeps
  BY <1>3 DEF Keeps, CalendarIsCurrent
<1>4. CASE Waits
  BY <1>4 DEF Waits, CalendarIsCurrent
<1> QED BY <1>1, <1>2, <1>3, <1>4 DEF Step

(* Every handler draws the calendar again when it changes what it shows, so  *)
(* the days that can be clicked are those that are allowed, except in a      *)
(* picker that is about to close.                                            *)
THEOREM CalendarIsCurrentHolds == Spec => []CalendarIsCurrent
<1>1. Init => CalendarIsCurrent
  BY InitIInv
<1> QED BY <1>1, IInvHolds, CurrentStep, PTL DEF Spec

LEMMA PickedStep == IInv /\ PickedIsWritten /\ [Next]_vars => PickedIsWritten'
<1> SUFFICES ASSUME IInv, PickedIsWritten, [Next]_vars PROVE PickedIsWritten'
  OBVIOUS
<1>1. ASSUME NEW day \in Clicked, ClickDay(day) PROVE PickedIsWritten'
  <2> DEFINE new == SetClicked(d, drawn.at.y, drawn.at.m, day)
  <2>1. /\ new \in Value /\ DateOf(new) = picked' /\ Weekday(picked') \notin disableDays
        /\ WriteOutput(new) /\ shown /\ UNCHANGED <<kind, min, max, stuck>>
    BY <1>1, ClickDayEffect
  <2> HIDE DEF new
  <2>2. text' = Written(new) /\ kind' = kind
    BY <2>1 DEF WriteOutput
  <2>3. CASE kind = "inline"
    <3>1. Written(new) = new
      BY <2>1, <2>3, WrittenIsValue
    <3>2. d' = new
      BY <2>1, <2>3, <3>1 DEF WriteOutput, Val
    <3> QED BY <2>1, <2>2, <3>2 DEF PickedIsWritten, Written
  <2>4. CASE kind # "inline"
    <3>1. d' = new
      BY <2>1, <2>4 DEF WriteOutput
    <3> QED BY <2>1, <2>2, <3>1 DEF PickedIsWritten, Written
  <2> QED BY <2>3, <2>4
<1>2. ASSUME picked' = None PROVE PickedIsWritten'
  BY <1>2 DEF PickedIsWritten
<1>3. ASSUME UNCHANGED <<value, picked>> PROVE PickedIsWritten'
  BY <1>3 DEF PickedIsWritten, value, Written
<1>4. CASE Focus \/ \E t \in Typed : Type(t)
  BY <1>2, <1>4 DEF Focus, Type
<1>5. CASE \/ \E m \in Month : MonthSelect(m)
           \/ \E page \in Pages : YearSelect(page[1])
           \/ Previous \/ NextMonth
  BY <1>3, <1>5 DEF MonthSelect, YearSelect, Previous, NextMonth, Display
<1>6. CASE \/ \E h \in Hours : ClickHour(h)
           \/ \E half \in {"am", "pm"} : ClickHalf(half)
           \/ \E m \in Minutes : ClickMinute(m)
  BY <1>2, <1>3, <1>6 DEF ClickHour, ClickHalf, ClickMinute, SetTime
<1>7. CASE (\E lo \in Bound \cup {None} : Min(lo)) \/ (\E hi \in Bound \cup {None} : Max(hi))
  BY <1>3, <1>7 DEF Min, Max
<1>8. CASE Dismiss \/ HideTimer \/ BodyTimer \/ UNCHANGED vars
  BY <1>3, <1>8 DEF Dismiss, HideTimer, BodyTimer, view, vars
<1> QED BY <1>1, <1>4, <1>5, <1>6, <1>7, <1>8 DEF Next

(* A click on a day gives the picker and the input that day, from whichever  *)
(* day, month and year it comes: no month is too short for what is set       *)
(* first.                                                                    *)
THEOREM PickedIsWrittenHolds == Spec => []PickedIsWritten
<1>1. Init => PickedIsWritten
  BY InitIInv
<1> QED BY <1>1, IInvHolds, PickedStep, PTL DEF Spec

LEMMA PageFollows == IInv => IconsTurnOnePage
<1> SUFFICES ASSUME IInv, display # None PROVE IconsTurnOnePage
  BY DEF IconsTurnOnePage
<1>1. display \in Date /\ display.d = 1 /\ title.month = display.m
  BY DEF IInv, CalInv, Calendar, FirstOnView
<1>2. display.m \in Int /\ display.y \in Int /\ Month \subseteq Int
  BY <1>1 DEF Date, Month
<1>3. \A m \in Int : /\ Page(SetMonth(display, m)) = 12 * display.y + m
                     /\ CorrectMonth(display, m) = SetMonth(display, m)
  BY <1>1, FirstDays
<1>4. Page(display) = 12 * display.y + display.m
  BY DEF Page
<1>5. /\ Page(SetMonth(display, display.m - 1)) = 12 * display.y + (display.m - 1)
      /\ Page(CorrectMonth(display, display.m + 1)) = 12 * display.y + (display.m + 1)
  BY <1>2, <1>3
<1>6. \A m \in Month : Page(CorrectMonth(display, m)) = 12 * display.y + m
  BY <1>2, <1>3
<1> QED BY <1>1, <1>2, <1>4, <1>5, <1>6 DEF IconsTurnOnePage

(* The icons turn to the neighbouring months, over the end of a year and     *)
(* past any short month, and a select to the month it names.                 *)
THEOREM IconsTurnOnePageHolds == Spec => []IconsTurnOnePage
BY IInvHolds, PageFollows, PTL

LEMMA IconsFollow == IInv => IconsFollowBounds
<1> SUFFICES ASSUME IInv, drawn # None PROVE IconsFollowBounds
  BY DEF IconsFollowBounds
<1> DEFINE first == DayNumber(display)
           length == DaysInMonth(display.y, display.m)
<1>1. display \in Date /\ display.d = 1 /\ display # None
  BY DEF IInv, CalInv, Calendar, Together, FirstOnView
<1>2. first \in Int /\ length \in Int
  BY <1>1, DayNumberIsInt, MonthLength
<1>3. DayNumber(SetMonth(display, display.m + 1)) = first + length
  BY <1>1, NextFirst
<1>4. icons = [left |-> LeftOf(display, min), right |-> RightOf(display, max)]
  BY <1>1 DEF IInv, CalInv, IconsOnView
<1> HIDE DEF first, length
<1>5. LeftOf(display, min) = IF min = None THEN "left" \notin stuck ELSE DayNumber(min) <= first - 1
  <2>1. CASE min = None
    BY <2>1 DEF LeftOf, Free
  <2>2. CASE min # None
    <3>1. DayNumber(min) \in Int
      BY <2>2, BoundIsDate, DayNumberIsInt DEF IInv, CalInv, Calendar
    <3>2. (DayNumber(min) < first) <=> (DayNumber(min) <= first - 1)
      BY <1>2, <3>1
    <3> QED BY <2>2, <3>2 DEF LeftOf, first
  <2> QED BY <2>1, <2>2
<1>6. RightOf(display, max) = IF max = None THEN "right" \notin stuck ELSE (first + length - 1) + 1 <= DayNumber(max)
  <2>1. CASE max = None
    BY <2>1 DEF RightOf, Free
  <2>2. CASE max # None
    <3>1. DayNumber(max) \in Int
      BY <2>2, BoundIsDate, DayNumberIsInt DEF IInv, CalInv, Calendar
    <3>2. (DayNumber(max) >= first + length) <=> ((first + length - 1) + 1 <= DayNumber(max))
      BY <1>2, <3>1
    <3> QED BY <1>3, <2>2, <3>2 DEF RightOf
  <2> QED BY <2>1, <2>2
<1> QED BY <1>4, <1>5, <1>6 DEF IconsFollowBounds, first, length

(* On the side of a bound there is an icon exactly as long as there is a day *)
(* to go to, for every month, leap year and bound, in whichever order bounds *)
(* and months come; on a side without a bound it is there unless it was      *)
(* hidden when the bound was taken away.                                     *)
THEOREM IconsFollowBoundsHolds == Spec => []IconsFollowBounds
BY IInvHolds, IconsFollow, PTL

(* The icons of the title follow the bounds there are, and each turns one    *)
(* page.                                                                     *)
THEOREM PagesTurnHolds == Spec => []PagesTurn
<1>1. IconsTurnOnePage /\ IconsFollowBounds => PagesTurn
  BY DEF PagesTurn
<1> QED BY <1>1, IconsTurnOnePageHolds, IconsFollowBoundsHolds, PTL

LEMMA HoursFollow == IInv => HoursOfTheHalf
<1> SUFFICES ASSUME IInv, d # None, hours12
             PROVE  HourButtons = {h \in 0..23 : (h >= 12) <=> (d.h >= 12)}
  BY DEF HoursOfTheHalf
<1>1. d.h \in 0..23
  BY DEF IInv, CalInv, Calendar, Value
<1>2. HourButtons = {HourBehind(label, d.h) : label \in 1..12}
  BY DEF HourButtons
<1>3. CASE d.h >= 12
  <2>1. \A label \in 1..12 : HourBehind(label, d.h) = IF label = 12 THEN 12 ELSE label + 12
    BY <1>3 DEF HourBehind
  <2>2. \A h \in 12..23 : \E label \in 1..12 : h = IF label = 12 THEN 12 ELSE label + 12
    <3> SUFFICES ASSUME NEW h \in 12..23
                 PROVE  \E label \in 1..12 : h = IF label = 12 THEN 12 ELSE label + 12
      OBVIOUS
    <3>1. CASE h = 12
      BY <3>1
    <3>2. CASE h # 12
      <4>1. h - 12 \in 1..12 /\ h - 12 # 12 /\ h = (h - 12) + 12
        BY <3>2
      <4> QED BY <4>1
    <3> QED BY <3>1, <3>2
  <2> QED BY <1>2, <1>3, <2>1, <2>2
<1>4. CASE ~(d.h >= 12)
  <2>1. \A label \in 1..12 : HourBehind(label, d.h) = IF label = 12 THEN 0 ELSE label
    BY <1>4 DEF HourBehind
  <2>2. \A h \in 0..11 : \E label \in 1..12 : h = IF label = 12 THEN 0 ELSE label
    OBVIOUS
  <2> QED BY <1>1, <1>2, <1>4, <2>1, <2>2
<1> QED BY <1>3, <1>4

(* The twelve buttons are the hours of the half of the day the value is in,  *)
(* each of them once, noon and midnight included.                            *)
THEOREM HoursOfTheHalfHolds == Spec => []HoursOfTheHalf
BY IInvHolds, HoursFollow, PTL

-----------------------------------------------------------------------------
(* The table of a month.                                                     *)

LEMMA DayIsLater ==
  ASSUME NEW at \in Date, NEW k \in Int
  PROVE  /\ DayNumber([at EXCEPT !.d = k]) = DayNumber(First(at.y, at.m)) + k - 1
         /\ DayNumber(First(at.y, at.m)) \in Int
<1>1. at.y \in Int /\ at.m \in 0..11 /\ at.m \in Month
  BY DEF Date, Month
<1>2. DayNumber(First(at.y, at.m)) \in Int
  BY <1>1, FirstOfMonth, DayNumberIsInt
<1> DEFINE base == 365 * at.y + ((at.y + 3) \div 4) - ((at.y + 99) \div 100)
                   + ((at.y + 399) \div 400)
                   + DaysBefore[at.m + 1] + (IF at.m > 1 /\ Leap(at.y) THEN 1 ELSE 0)
<1>3. DaysBefore[at.m + 1] \in Int
  BY <1>1 DEF DaysBefore
<1>4. base \in Int
  BY <1>1, <1>3
<1>5. DayNumber([at EXCEPT !.d = k]) = base + k + 5
  BY DEF DayNumber, Date
<1>6. DayNumber(First(at.y, at.m)) = base + 1 + 5
  BY DEF DayNumber, First
<1> HIDE DEF base
<1> QED BY <1>2, <1>4, <1>5, <1>6

LEMMA WholeWeeks ==
  ASSUME NEW filled \in 28..37
  PROVE  /\ filled + ((7 - (filled % 7)) % 7) \in 28..42
         /\ (filled + ((7 - (filled % 7)) % 7)) % 7 = 0
         /\ filled <= filled + ((7 - (filled % 7)) % 7)
OBVIOUS

LEMMA UnderItsWeekday ==
  ASSUME NEW f \in Int, NEW w \in Int, NEW i \in Int
  PROVE  (w + (1 + i - (((w % 7) - f) % 7)) - 1) % 7 = (f + i) % 7
<1> DEFINE r == w % 7
           b == (r - f) % 7
           p == w \div 7
           q == (r - f) \div 7
<1>1. w = 7 * p + r /\ p \in Int /\ r \in Int
  OBVIOUS
<1>2. r - f = 7 * q + b /\ q \in Int /\ b \in Int
  BY <1>1
<1> HIDE DEF r, b, p, q
<1>3. w + (1 + i - b) - 1 = (f + i) + 7 * (p + q)
  BY <1>1, <1>2
<1>4. \A n, k \in Int : (n + 7 * k) % 7 = n % 7
  OBVIOUS
<1>5. ((f + i) + 7 * (p + q)) % 7 = (f + i) % 7
  BY <1>1, <1>2, <1>4
<1> QED BY <1>3, <1>5 DEF b, r

LEMMA CellsOfMonth ==
  ASSUME NEW y, NEW m, NEW all, DaysInMonth(y, m) \in Int, Blank(y, m) \in Int,
         all = DaysInMonth(y, m) + Blank(y, m)
               + ((7 - ((DaysInMonth(y, m) + Blank(y, m)) % 7)) % 7)
  PROVE  Cells(y, m) = 0..(all - 1)
<1> DEFINE f == DaysInMonth(y, m) + Blank(y, m)
           pad == (7 - (f % 7)) % 7
<1>1. Cells(y, m) = 0..(f + (pad - 1))
  BY Zenon DEF Cells
<1>2. f \in Int /\ all = f + pad
  OBVIOUS
<1>3. pad \in Int
  BY <1>2
<1> HIDE DEF f, pad
<1>4. f + (pad - 1) = all - 1
  BY <1>2, <1>3
<1> QED BY <1>1, <1>4, Zenon

LEMMA TableOfMonth == IInv => CalendarIsAMonth
<1> SUFFICES ASSUME IInv, drawn # None PROVE CalendarIsAMonth
  BY DEF CalendarIsAMonth
<1> DEFINE at == drawn.at
           y == at.y
           m == at.m
           length == DaysInMonth(y, m)
           blank == Blank(y, m)
           filled == length + blank
           all == filled + ((7 - (filled % 7)) % 7)
           cells == {i \in Cells(y, m) : ~EmptyCell(y, m, i)}
<1>1. at \in Date
  BY DEF IInv, CalInv, Calendar, Drawn
<1> HIDE DEF at
<1>2. length \in 28..31 /\ y \in Int /\ m \in Month
  BY <1>1, MonthLength DEF Date
<1>3. DayNumber(First(y, m)) \in Int /\ firstDay \in Int
  BY <1>2, FirstOfMonth, DayNumberIsInt, Assumptions
<1>4. blank = ((DayNumber(First(y, m)) % 7) - firstDay) % 7
  BY DEF Blank, Weekday
<1>5. blank \in 0..6
  BY <1>3, <1>4
<1>6. Cells(y, m) = 0..(all - 1)
  BY <1>2, <1>5, CellsOfMonth
<1>7. \A i : DayIn(y, m, i) = 1 + i - blank
  BY DEF DayIn
<1>8. \A i \in Cells(y, m) : i \in cells <=> 1 + i - blank \in 1..length
  BY <1>7 DEF EmptyCell
<1> HIDE DEF y, m, length, blank, cells
<1>9. filled \in 28..37
  BY <1>2, <1>5
<1>10. all \in 28..42 /\ all % 7 = 0 /\ filled <= all
  BY <1>9, WholeWeeks
<1>11. Cardinality(Cells(y, m)) = all
  <2> HIDE DEF all
  <2>1. 0 \in Int /\ all - 1 \in Int
    BY <1>10
  <2>2. Cardinality(0..(all - 1)) = IF 0 > all - 1 THEN 0 ELSE (all - 1) - 0 + 1
    BY <2>1, FS_Interval
  <2> QED BY <1>6, <1>10, <2>2
<1>12. {DayIn(y, m, i) : i \in cells} = 1..length
  <2>1. \A i \in cells : DayIn(y, m, i) \in 1..length
    BY <1>7, <1>8 DEF cells
  <2>2. ASSUME NEW day \in 1..length PROVE \E i \in cells : day = DayIn(y, m, i)
    <3> DEFINE i == day - 1 + blank
    <3>1. 1 + i - blank = day /\ i \in 0..(filled - 1)
      BY <1>2, <1>5
    <3>2. i \in Cells(y, m)
      BY <1>6, <1>9, <1>10, <3>1, SMTT(40)
    <3> QED BY <1>7, <1>8, <3>1, <3>2
  <2> QED BY <2>1, <2>2
<1>13. \A i \in cells : Weekday([at EXCEPT !.d = DayIn(y, m, i)]) = (firstDay + i) % 7
  <2> SUFFICES ASSUME NEW i \in cells
               PROVE  Weekday([at EXCEPT !.d = DayIn(y, m, i)]) = (firstDay + i) % 7
    OBVIOUS
  <2>1. i \in Int
    BY <1>6, <1>10 DEF cells
  <2>2. 1 + i - blank \in Int
    BY <1>5, <2>1
  <2>3. Weekday([at EXCEPT !.d = 1 + i - blank])
          = (DayNumber(First(y, m)) + (1 + i - blank) - 1) % 7
    BY <1>1, <2>2, DayIsLater DEF Weekday, y, m
  <2>4. (DayNumber(First(y, m)) + (1 + i - blank) - 1) % 7 = (firstDay + i) % 7
    BY <1>3, <1>4, <2>1, UnderItsWeekday
  <2> QED BY <1>7, <2>3, <2>4
<1>14. Cardinality(Cells(y, m)) % 7 = 0 /\ Cardinality(Cells(y, m)) <= 42
  <2> HIDE DEF all
  <2>1. all <= 42
    BY <1>10
  <2> QED BY <1>10, <1>11, <2>1, Zenon
<1> QED BY <1>12, <1>13, <1>14, Zenon DEF CalendarIsAMonth, cells, y, m, length, at

(* The table of every month of every year is whole weeks, has each day once  *)
(* and has it under its weekday, whichever day weeks begin with.             *)
THEOREM CalendarIsAMonthHolds == Spec => []CalendarIsAMonth
BY IInvHolds, TableOfMonth, PTL

(* Each day of the month on show and each hour of the half on show can be    *)
(* picked, once.                                                             *)
THEOREM OfferIsCompleteHolds == Spec => []OfferIsComplete
<1>1. CalendarIsAMonth /\ HoursOfTheHalf => OfferIsComplete
  BY DEF OfferIsComplete
<1> QED BY <1>1, CalendarIsAMonthHolds, HoursOfTheHalfHolds, PTL
=============================================================================
