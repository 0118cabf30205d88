------------------------------ MODULE DatePicker ------------------------------
(* The calendar that opens at the date inputs of a criterion (DateTime): the *)
(* date it has, the month it displays, what it drew for them, and the        *)
(* listeners and timers that show and hide it.  One action stands for one    *)
(* handler with everything it calls.  Seconds work as minutes do and are     *)
(* left out; the position on the page is layout.                             *)
EXTENDS Integers, FiniteSets

CONSTANTS
  Typed,           \* what the user may type: values, and Invalid
  Now,             \* the value of the present moment
  Clicked,         \* the days of a month the user clicks on (bounds TLC's work)
  Hours, Minutes,  \* the hours and the minutes the user clicks on (bounds TLC's work)
  Bound,           \* the dates a script passes to min() and max(), besides null
  Pages,           \* the months, <<year, month>>, that are displayed (bounds TLC's work)
  yearRange,       \* the options of the picker
  firstDay, disableDays, hours12, hoursAvailable, minutesAvailable,
  MaxTimers,       \* bound: timers of _show that wait at the same time
  Invalid,         \* a text that is no date, the empty one too
  None

Month == 0..11
Date == [y : Int, m : Month, d : 1..31]
Value == [y : Int, m : Month, d : 1..31, h : 0..23, mi : 0..59]
Kind == {"date", "datetime", "inline"}

\* What a calendar is drawn for, and the labels and selects above it.
Drawn == [at : Date, selected : Date, lo : Bound \cup {None}, hi : Bound \cup {None}]
Title == [month : Month \cup {None}, year : Int \cup {None},
          monthSelect : Month \cup {None}, yearSelect : Int \cup {None}]

ASSUME Assumptions ==
  /\ None \notin Date \cup Value \cup Drawn /\ Invalid \notin Value
  /\ Typed \subseteq Value \cup {Invalid} /\ Now \in Value
  /\ Bound \subseteq Date /\ Clicked \subseteq 1..31 /\ Hours \subseteq 0..23 /\ Minutes \subseteq 0..59
  /\ Pages \subseteq Int \X Month /\ yearRange \in Nat
  /\ firstDay \in 0..6 /\ disableDays \subseteq 0..6 /\ hours12 \in BOOLEAN
  /\ hoursAvailable \subseteq 0..23 /\ minutesAvailable \subseteq 0..59
  /\ MaxTimers \in Nat \ {0}

VARIABLES
  kind,      \* what the format asks for, and a hidden input shows it for good
  d,         \* s.d, the value the picker has
  display,   \* s.display, the first day of the month on view
  min, max,  \* c.minDate, c.maxDate
  text,      \* the text in the input
  drawn,     \* what the calendar was last drawn for, or None
  icons,     \* are the icons of the previous and the next month on view?
  title,     \* month and year: the labels, and what the selects are at
  range,     \* s.minutesRange
  shown,     \* the picker is on the page
  ears,      \* the listeners that hide it
  timers,    \* setTimeout: of _show, for the listener of body; to hide
  picked,    \* a history: the day that was clicked since the picker opened, or None
  stuck      \* a history: the sides whose bound was taken away while it hid the icon
value == <<kind, d, text>>
view == <<display, min, max, drawn, icons, title, range, picked, stuck>>
life == <<shown, ears, timers>>
vars == <<value, view, life>>

(* --------------------------- dates (JavaScript's Date) -------------------- *)

Leap(y) == y % 4 = 0 /\ (y % 100 # 0 \/ y % 400 = 0)
DaysInMonth(y, m) ==
  CASE m = 1 -> IF Leap(y) THEN 29 ELSE 28
    [] m \in {3, 5, 8, 10} -> 30
    [] OTHER -> 31

\* A month outside 0..11 counts on into other years, a day after the last one
\* of its month into the next month.
Normal(v, y, m, day) ==
  LET year == y + (m \div 12)
      month == m % 12
      over == day - DaysInMonth(year, month)
  IN IF over <= 0 THEN [v EXCEPT !.y = year, !.m = month, !.d = day]
     ELSE [v EXCEPT !.y = IF month = 11 THEN year + 1 ELSE year,
                    !.m = (month + 1) % 12, !.d = over]
SetYear(v, y) == Normal(v, y, v.m, v.d)
SetMonth(v, m) == Normal(v, v.y, m, v.d)
SetDay(v, day) == Normal(v, v.y, v.m, day)

\* Days since some Sunday, for the weekday and the order of dates.
DaysBefore == <<0, 31, 59, 90, 120, 151, 181, 212, 243, 273, 304, 334>>
DayNumber(v) ==
  365 * v.y + ((v.y + 3) \div 4) - ((v.y + 99) \div 100) + ((v.y + 399) \div 400)
  + DaysBefore[v.m + 1] + (IF v.m > 1 /\ Leap(v.y) THEN 1 ELSE 0) + v.d + 5
Weekday(v) == DayNumber(v) % 7
DateOf(v) == [y |-> v.y, m |-> v.m, d |-> v.d]
First(y, m) == [y |-> y, m |-> m, d |-> 1]

\* _correctMonth.  The month after December has no length: no correction.
CorrectMonth(v, m) ==
  IF m <= 11 /\ v.d > DaysInMonth(v.y, m)
  THEN SetMonth(SetDay(SetMonth(v, m), DaysInMonth(v.y, m)), m)
  ELSE SetMonth(v, m)

(* ----------------------------- the calendar ------------------------------ *)

(* Variant: a week that starts late in the month before is not wrapped. *)
BlankNegative(y, m) == Weekday(First(y, m)) - firstDay

\* _htmlMonth: the cells of a month in rows of seven, the first of which
\* starts with the weekday firstDay.
Blank(y, m) == (Weekday(First(y, m)) - firstDay) % 7
Cells(y, m) ==
  LET filled == DaysInMonth(y, m) + Blank(y, m)
  IN 0..(filled + ((7 - (filled % 7)) % 7) - 1)
DayIn(y, m, i) == 1 + i - Blank(y, m)
EmptyCell(y, m, i) == DayIn(y, m, i) \notin 1..DaysInMonth(y, m)

\* A day that cannot be clicked.
Disabled(date, lo, hi) ==
  \/ lo # None /\ DayNumber(date) < DayNumber(lo)
  \/ hi # None /\ DayNumber(date) > DayNumber(hi)
  \/ Weekday(date) \in disableDays

\* What the calendar is drawn for: the classes of its cells follow from it.
Drawing(v, at, lo, hi) ==
  IF at = None THEN drawn ELSE [at |-> at, selected |-> DateOf(v), lo |-> lo, hi |-> hi]

(* Variant: a month that starts on the first possible day can be left. *)
IconsFromFirst(at, lo, hi) ==
  IF at = None THEN icons
  ELSE [left |-> IF lo = None THEN icons.left ELSE DayNumber(lo) <= DayNumber(at),
        right |-> IF hi = None THEN icons.right
                  ELSE DayNumber(hi) >= DayNumber(SetMonth(at, at.m + 1))]

\* The icons are looked at only when there is a bound on their side.
Icons(at, lo, hi) ==
  IF at = None THEN icons
  ELSE [left |-> IF lo = None THEN icons.left ELSE DayNumber(lo) < DayNumber(at),
        right |-> IF hi = None THEN icons.right
                  ELSE DayNumber(hi) >= DayNumber(SetMonth(at, at.m + 1))]

SetCalander(v, at, lo, hi) == drawn' = Drawing(v, at, lo, hi) /\ icons' = Icons(at, lo, hi)

\* _optionsTitle: the years the select offers.
Years(lo, hi) == (IF lo = None THEN Now.y - yearRange ELSE lo.y)..(IF hi = None THEN Now.y + yearRange ELSE hi.y)

\* _setTitle: a year that is not offered has the label "-".
TitleOf(at) ==
  LET year == IF at.y \in Years(min, max) THEN at.y ELSE None
  IN [month |-> at.m, year |-> year, monthSelect |-> at.m, yearSelect |-> year]

(* ------------------------------- the value ------------------------------- *)

\* A format without a time writes and reads none; that of the hidden input has one.
Written(v) == IF kind = "date" THEN [v EXCEPT !.h = 0, !.mi = 0] ELSE v

(* Variant: the month on view keeps the day of the value. *)
ValAsItIs(new) ==
  /\ d' = new /\ display' = DateOf(new)
  /\ title' = TitleOf(DateOf(new))
  /\ SetCalander(new, DateOf(new), min, max)

\* val(text, false): an invalid text stands for now; the month on view starts
\* again at the value's.
Val(new) ==
  /\ d' = new /\ display' = First(new.y, new.m)
  /\ title' = TitleOf(First(new.y, new.m))
  /\ SetCalander(new, First(new.y, new.m), min, max)

Read(t) == IF t = Invalid THEN Now ELSE t

\* _writeOutput: a hidden input reads its own text back.
WriteOutput(new) ==
  /\ text' = Written(new)
  /\ IF kind = "inline" THEN Val(Written(new)) ELSE d' = new

(* ------------------------------ show and hide ---------------------------- *)

Listeners == {"window", "scroll", "parent", "document"}

(* Variant: no timer. *)
ShowDeaf == shown' = TRUE /\ ears' = ears \cup Listeners /\ UNCHANGED timers

\* _show: listeners at once, and that of body after ten milliseconds.
Show ==
  /\ shown' = TRUE /\ ears' = ears \cup Listeners
  /\ timers' = [timers EXCEPT !.body = @ + 1]

\* _hide: the scroll listener of the input's offset parent is not taken off.
\* At a hidden input the picker stays.
Hide(w) ==
  IF kind = "inline" THEN UNCHANGED <<shown, ears>> /\ timers' = w
  ELSE shown' = FALSE /\ ears' = ears \cap {"parent"} /\ timers' = w

(* ------------------------------ the handlers ----------------------------- *)

\* The input gets the focus or a click: in case the text has changed, it is
\* read again.
Focus ==
  /\ ~shown /\ timers.body < MaxTimers
  /\ Val(Read(text)) /\ Show /\ picked' = None
  /\ UNCHANGED <<kind, text, min, max, stuck, range>>

\* The user types: the calendar follows while it is shown.
Type(t) ==
  /\ kind # "inline" /\ text' = IF t = Invalid THEN t ELSE Written(t)
  /\ IF shown THEN Val(Read(text')) ELSE UNCHANGED <<d, display, title, drawn, icons>>
  /\ picked' = None
  /\ UNCHANGED <<kind, min, max, stuck, range, life>>

\* Another month is displayed, by a select or an icon.
Display(at) ==
  /\ <<at.y, at.m>> \in Pages
  /\ display' = at /\ title' = TitleOf(at)
  /\ SetCalander(d, at, min, max)
  /\ UNCHANGED <<value, min, max, stuck, range, picked, life>>

MonthSelect(m) == shown /\ m # title.monthSelect /\ Display(CorrectMonth(display, m))
YearSelect(y) ==
  shown /\ y \in Years(min, max) \ {title.yearSelect} /\ Display(SetYear(display, y))
Previous == shown /\ icons.left /\ Display(SetMonth(display, display.m - 1))
NextMonth == shown /\ icons.right /\ Display(CorrectMonth(display, display.m + 1))

(* Variant: year and month are set while the old day is there. *)
SetInOrder(v, y, m, day) == SetDay(SetMonth(SetYear(v, y), m), day)

\* A click of a day: the value goes to day 1 first, which every month has.
SetClicked(v, y, m, day) == SetDay(SetMonth(SetYear(SetDay(v, 1), y), m), day)

(* Variant: the picker does not close. *)
ClickDayOpen(day) ==
  LET new == SetClicked(d, drawn.at.y, drawn.at.m, day) IN
  /\ shown /\ drawn # None /\ \E i \in Cells(drawn.at.y, drawn.at.m) : day = DayIn(drawn.at.y, drawn.at.m, i)
  /\ day \in 1..DaysInMonth(drawn.at.y, drawn.at.m)
  /\ ~Disabled([drawn.at EXCEPT !.d = day], drawn.lo, drawn.hi)
  /\ picked' = [drawn.at EXCEPT !.d = day]
  /\ WriteOutput(new)
  /\ IF kind = "inline" THEN TRUE ELSE UNCHANGED <<display, title, drawn, icons>>
  /\ UNCHANGED <<kind, min, max, stuck, range, life>>

\* A day of the calendar as it was drawn is clicked.  Without a time to choose
\* the picker closes, after ten milliseconds, else the calendar is drawn again.
ClickDay(day) ==
  LET new == SetClicked(d, drawn.at.y, drawn.at.m, day) IN
  /\ shown /\ drawn # None /\ \E i \in Cells(drawn.at.y, drawn.at.m) : day = DayIn(drawn.at.y, drawn.at.m, i)
  /\ day \in 1..DaysInMonth(drawn.at.y, drawn.at.m)
  /\ ~Disabled([drawn.at EXCEPT !.d = day], drawn.lo, drawn.hi)
  /\ picked' = [drawn.at EXCEPT !.d = day]
  /\ WriteOutput(new)
  /\ CASE kind = "inline" -> UNCHANGED timers
       [] kind = "date" -> /\ timers' = [timers EXCEPT !.hide = TRUE]
                           /\ UNCHANGED <<display, title, drawn, icons>>
       [] kind = "datetime" -> /\ SetCalander(new, display, min, max)
                               /\ UNCHANGED <<display, title, timers>>
  /\ UNCHANGED <<kind, min, max, stuck, range, shown, ears>>

(* Variant: twelve is not midnight. *)
HourAsIs(label, hour) == IF hour >= 12 THEN label + 12 ELSE label

\* _optionsTime with a clock of twelve hours: the hour behind a label.
HourBehind(label, hour) ==
  LET v == IF hour >= 12 THEN label + 12 ELSE label
  IN CASE v = 12 -> 0 [] v = 24 -> 12 [] OTHER -> v
HourButtons == IF hours12 THEN {HourBehind(label, d.h) : label \in 1..12} ELSE 0..23

SetTime(new) ==
  /\ WriteOutput(new) /\ picked' = None
  /\ IF kind = "inline" THEN TRUE ELSE UNCHANGED <<display, title, drawn, icons>>
  /\ UNCHANGED <<kind, min, max, stuck, life>>

ClickHour(h) ==
  /\ shown /\ kind # "date" /\ h \in HourButtons \cap hoursAvailable
  /\ SetTime([d EXCEPT !.h = h]) /\ UNCHANGED range

\* am and pm are disabled as soon as not all hours are available.
ClickHalf(half) ==
  /\ shown /\ kind # "date" /\ hours12 /\ hoursAvailable = 0..23
  /\ \/ half = "am" /\ d.h >= 12 /\ SetTime([d EXCEPT !.h = d.h - 12])
     \/ half = "pm" /\ d.h < 12 /\ SetTime([d EXCEPT !.h = d.h + 12])
  /\ UNCHANGED range

\* Two rows: the tens, and the minutes after one of them.  A ten that is not
\* available opens its row.
Tens == {0, 10, 20, 30, 40, 50}
Row == LET ten == IF range # None THEN range ELSE (d.mi \div 10) * 10 IN (ten + 1)..(ten + 9)
ClickMinute(m) ==
  /\ shown /\ kind # "date" /\ m \in Tens \cup Row
  /\ \/ m \in minutesAvailable /\ range' = None /\ SetTime([d EXCEPT !.mi = m])
     \/ /\ m \in Tens \ minutesAvailable /\ range' = m
        /\ UNCHANGED <<value, display, min, max, stuck, drawn, icons, title, picked, life>>

\* An icon that is hidden stays so when its bound is taken away: _htmlMonth
\* looks at the icons only for a bound there is.
Stuck(side, onView, limit) ==
  IF limit = None /\ ~onView THEN stuck \cup {side} ELSE stuck \ {side}

\* The first year that the select offers.
FirstYear(lo) == IF lo = None THEN Now.y - yearRange ELSE lo.y

(* Variant: the calendar is not drawn again. *)
MinQuietly(lo) ==
  /\ min' = lo /\ stuck' = Stuck("left", icons.left, lo)
  /\ title' = [title EXCEPT !.monthSelect = 0, !.yearSelect = FirstYear(lo)]
  /\ UNCHANGED <<value, display, max, drawn, icons, range, picked, life>>

\* min(), with a date or null: the options are made again, so that the selects
\* are at their first option, and the calendar is drawn, once there is a month
\* to draw.
Min(lo) ==
  /\ min' = lo /\ stuck' = Stuck("left", icons.left, lo)
  /\ title' = [title EXCEPT !.monthSelect = 0, !.yearSelect = FirstYear(lo)]
  /\ SetCalander(d, display, lo, max)
  /\ UNCHANGED <<value, display, max, range, picked, life>>

\* max().
Max(hi) ==
  /\ max' = hi /\ stuck' = Stuck("right", icons.right, hi)
  /\ title' = [title EXCEPT !.monthSelect = 0, !.yearSelect = FirstYear(min)]
  /\ SetCalander(d, display, min, hi)
  /\ UNCHANGED <<value, display, min, range, picked, life>>

\* A scroll, a resize, Tab, Escape, Return, hide(), or a click elsewhere.
Dismiss ==
  /\ ears # {} /\ Hide(timers)
  /\ UNCHANGED <<value, view>>

\* The timer of a picked day.
HideTimer ==
  /\ timers.hide /\ Hide([timers EXCEPT !.hide = FALSE])
  /\ UNCHANGED <<value, view>>

\* The timer of _show, also when the picker was hidden in the meantime.
BodyTimer ==
  /\ timers.body > 0 /\ timers' = [timers EXCEPT !.body = @ - 1]
  /\ ears' = ears \cup {"body"}
  /\ UNCHANGED <<value, view, shown>>

Init ==
  /\ kind \in Kind /\ text = Invalid /\ min = None /\ max = None
  /\ range = None /\ picked = None /\ stuck = {}
  /\ IF kind = "inline"
     THEN /\ d = Now /\ display = First(Now.y, Now.m)
          /\ drawn = [at |-> display, selected |-> DateOf(Now), lo |-> None, hi |-> None]
          /\ title = [month |-> Now.m, year |-> Now.y, monthSelect |-> Now.m, yearSelect |-> Now.y]
          /\ shown = TRUE /\ ears = Listeners /\ timers = [body |-> 1, hide |-> FALSE]
     ELSE /\ d = None /\ display = None /\ drawn = None
          /\ title = [month |-> None, year |-> None, monthSelect |-> 0, yearSelect |-> Now.y - yearRange]
          /\ shown = FALSE /\ ears = {} /\ timers = [body |-> 0, hide |-> FALSE]
  /\ icons = [left |-> TRUE, right |-> TRUE]

Next ==
  \/ Focus
  \/ \E t \in Typed : Type(t)
  \/ \E m \in Month : MonthSelect(m)
  \/ \E page \in Pages : YearSelect(page[1])
  \/ Previous \/ NextMonth
  \/ \E day \in Clicked : ClickDay(day)
  \/ \E h \in Hours : ClickHour(h)
  \/ \E half \in {"am", "pm"} : ClickHalf(half)
  \/ \E m \in Minutes : ClickMinute(m)
  \/ \E lo \in Bound \cup {None} : Min(lo)
  \/ \E hi \in Bound \cup {None} : Max(hi)
  \/ Dismiss \/ HideTimer \/ BodyTimer

\* Timers fire.
Fairness == WF_vars(HideTimer) /\ WF_vars(BodyTimer)
Spec == Init /\ [][Next]_vars /\ Fairness

(* ----------------------------- properties -------------------------------- *)

\* The dates are dates, and a picker on the page has a value, a month and a calendar.
TypeOK ==
  /\ kind \in Kind /\ range \in Tens \cup {None}
  /\ d \in Value \cup {None} /\ text \in Value \cup {Invalid}
  /\ display \in Date \cup {None} /\ title \in Title
  /\ min \in Bound \cup {None} /\ max \in Bound \cup {None}
  /\ drawn \in Drawn \cup {None} /\ picked \in Date \cup {None}
  /\ icons \in [left : BOOLEAN, right : BOOLEAN] /\ stuck \subseteq {"left", "right"}
  /\ shown \in BOOLEAN /\ ears \subseteq Listeners \cup {"body"}
  /\ timers \in [body : 0..MaxTimers, hide : BOOLEAN]
  /\ shown => d # None /\ display # None /\ drawn # None

\* Every handler that changes the value, the month on view or a bound draws the
\* calendar again, so that the days that can be clicked are those that are
\* allowed now, except in a picker that is about to close.
CalendarIsCurrent ==
  shown /\ ~timers.hide =>
    drawn = [at |-> display, selected |-> DateOf(d), lo |-> min, hi |-> max]

\* The day that was clicked is the date of the picker and of the input, also
\* across months of different lengths, and is one that is allowed.
PickedIsWritten ==
  picked # None => /\ DateOf(d) = picked /\ text = Written(d)
                   /\ Weekday(picked) \notin disableDays

\* "Set the day of the month to be 1 so changing between months doesn't run
\* into issues when going from day 31 to 28": the icons turn to the next month
\* and to the one before, and a select to the month it names.
Page(v) == 12 * v.y + v.m
IconsTurnOnePage ==
  display # None =>
    /\ Page(SetMonth(display, display.m - 1)) = Page(display) - 1
    /\ Page(CorrectMonth(display, display.m + 1)) = Page(display) + 1
    /\ \A m \in Month : Page(CorrectMonth(display, m)) = 12 * display.y + m
    /\ title.month = display.m

\* Where there is a bound, there is an icon as long as the day before the month
\* on view, or the day after it, is within the bound.  Where there is none the
\* icon is there, unless the last bound took it away: min(null) and max(null)
\* do not bring it back.
IconsFollowBounds ==
  drawn # None =>
    LET first == DayNumber(display)
        last == first + DaysInMonth(display.y, display.m) - 1
    IN icons = [left |-> IF min = None THEN "left" \notin stuck ELSE DayNumber(min) <= first - 1,
                right |-> IF max = None THEN "right" \notin stuck ELSE last + 1 <= DayNumber(max)]

\* The icons turn one page and are there as long as there is a page to turn to,
\* but for an icon that is stuck.
PagesTurn == IconsTurnOnePage /\ IconsFollowBounds

\* The calendar is whole weeks, each day of the month is in one cell of it, and
\* under its weekday.
CalendarIsAMonth ==
  drawn # None =>
    LET y == drawn.at.y  m == drawn.at.m
        cells == {i \in Cells(y, m) : ~EmptyCell(y, m, i)}
    IN /\ Cardinality(Cells(y, m)) % 7 = 0 /\ Cardinality(Cells(y, m)) <= 42
       /\ {DayIn(y, m, i) : i \in cells} = 1..DaysInMonth(y, m)
       /\ \A i \in cells : Weekday([drawn.at EXCEPT !.d = DayIn(y, m, i)]) = (firstDay + i) % 7

\* The twelve hours offered are those of the half of the day the value is in.
HoursOfTheHalf ==
  d # None /\ hours12 => HourButtons = {h \in 0..23 : (h >= 12) <=> (d.h >= 12)}

\* The days and the hours that are offered are those of the month and of the half.
OfferIsComplete == CalendarIsAMonth /\ HoursOfTheHalf

\* A picker without a time closes after a day was clicked.
PickCloses == kind = "date" /\ picked # None ~> ~shown

\* A picker that stays open can be closed by a click elsewhere.
OutsideClickIsHeard == shown ~> "body" \in ears \/ ~shown

\* The picker can always be got rid of.
PickerCloses == PickCloses /\ OutsideClickIsHeard
=============================================================================
