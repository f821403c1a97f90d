-------------------------------- MODULE Cron --------------------------------
(* TC_Cron: the six fields of an expression become bit sets, and nextcron()  *)
(* walks from a time to the next one that all six allow, field by field.     *)
(* The time zone has no daylight saving time.                                *)
EXTENDS Integers, Sequences, FiniteSets, SequencesExt, FiniteSetsExt

CONSTANTS
  Expressions,   \* field -> sequence of items, see below
  Starts,        \* times nextcron() is first asked from
  MaxFires,      \* bound: how often an event fires
  InvalidTime

Fields == {"sec", "min", "hour", "mday", "mon", "wday"}

CronMin == [sec |-> 0,  min |-> 0,  hour |-> 0,  mday |-> 1,  mon |-> 1,  wday |-> 0]
CronMax  == [sec |-> 59, min |-> 59, hour |-> 23, mday |-> 31, mon |-> 12, wday |-> 6]

----------------------------------------------------------------------------
(* Expressions.  An item of a field is a star (or the question mark, which   *)
(* stands for one), a number or a range, with or without an increment.       *)

Item(kind, from, to, step) == [kind |-> kind, from |-> from, to |-> to, step |-> step]
Star          == Item("all", 0, 0, 0)
One(n)        == Item("one", n, n, 0)
From(m, n)    == Item("range", m, n, 0)
Step(item, n) == [item EXCEPT !.step = n]

\* makeRange(): the bounds of an item; others are refused with an exception.
RangeFirst(f, item) == IF item.kind = "all" THEN CronMin[f] ELSE item.from
RangeLast(f, item)  == IF item.kind = "all" \/ (item.step # 0 /\ item.kind # "range")
                       THEN CronMax[f] ELSE item.to
InRange(f, item) == CronMin[f] <= RangeFirst(f, item) /\ RangeFirst(f, item) <= RangeLast(f, item)
                    /\ RangeLast(f, item) <= CronMax[f]

\* The bits set from i on, with a counter of eight bits.
RECURSIVE Bits(_, _, _)
Bits(i, last, delta) == IF i > last THEN {} ELSE {i} \cup Bits((i + delta) % 256, last, delta)

SetCronField(f, items) ==
  UNION {LET item == items[k]
         IN  Bits(RangeFirst(f, item) - CronMin[f], RangeLast(f, item) - CronMin[f],
                  IF item.step = 0 THEN 1 ELSE item.step) : k \in 1..Len(items)}

MakeCron(e) == [f \in Fields |-> SetCronField(f, e[f])]

----------------------------------------------------------------------------
(* The calendar: struct tm and mktime().  Months count from zero here.       *)

LeapYear(y) == y % 4 = 0 /\ (y % 100 # 0 \/ y % 400 = 0)
DaysIn(y, mon) == CASE mon = 1 -> (IF LeapYear(y) THEN 29 ELSE 28)
                    [] mon \in {3, 5, 8, 10} -> 30
                    [] OTHER -> 31

\* Days since the first of January of year 1, which was a Monday.
DayNumber(y, mon, mday) ==
  365 * (y - 1) + (y - 1) \div 4 - (y - 1) \div 100 + (y - 1) \div 400
  + MapThenSumSet(LAMBDA m : DaysIn(y, m), 0..(mon - 1)) + mday - 1

Weekday(y, mon, mday) == (DayNumber(y, mon, mday) + 1) % 7

\* Step field is at most one unit of the next one too large.
Carry(tm, f, next, size) ==
  IF tm[f] < size THEN tm ELSE [tm EXCEPT ![f] = @ - size, ![next] = @ + 1]

CarryDay(tm) ==
  IF tm.mday <= DaysIn(tm.year, tm.mon) THEN tm
  ELSE Carry([tm EXCEPT !.mday = @ - DaysIn(tm.year, tm.mon), !.mon = @ + 1], "mon", "year", 12)

WithWeekday(tm) == [tm EXCEPT !.wday = Weekday(tm.year, tm.mon, tm.mday)]

Mktime(tm) ==
  WithWeekday(CarryDay(Carry(Carry(Carry(Carry(tm, "sec", "min", 60), "min", "hour", 60),
                                   "hour", "mday", 24), "mon", "year", 12)))

Time(y, mon, mday, hour, min, sec) ==
  Mktime([sec |-> sec, min |-> min, hour |-> hour, mday |-> mday, mon |-> mon - 1, year |-> y, wday |-> 0])

----------------------------------------------------------------------------
(* nextcron() *)

AddToField(tm, f, n) == Mktime([tm EXCEPT ![IF f = "wday" THEN "mday" ELSE f] = @ + n])
SetField(tm, f, v)   == Mktime([tm EXCEPT ![f] = v])
ResetField(tm, f)    == SetField(tm, f, IF f = "mday" THEN 1 ELSE 0)

\* Wrong form: what is smaller than the field that changed stays as it is.
ResetNoFields(tm, marked) == tm

ResetAllFields(tm, marked) ==
  Mktime([f \in DOMAIN tm |-> IF f \notin marked THEN tm[f] ELSE IF f = "mday" THEN 1 ELSE 0])

\* The field a value carries into.
NextField == [sec |-> "min", min |-> "hour", hour |-> "wday", mon |-> "year"]

\* findNext() of one field: the new time and the value found.
FindValue(bits, tm, f, marked) ==
  LET later == {i \in bits : i >= tm[f]}
      value == Min(IF later = {} THEN bits ELSE later)
      start == IF later = {} THEN ResetField(AddToField(tm, NextField[f], 1), f) ELSE tm
  IN  [value |-> value,
       tm |-> IF value = tm[f] THEN start ELSE ResetAllFields(SetField(start, f, value), marked)]

RECURSIVE FindNextDay(_, _, _, _)
FindNextDay(cron, tm, marked, count) ==
  IF (tm.mday - 1 \in cron.mday /\ tm.wday \in cron.wday) \/ count = 366
  THEN [value |-> tm.mday, tm |-> tm]
  ELSE FindNextDay(cron, ResetAllFields(AddToField(tm, "mday", 1), marked), marked, count + 1)

MaxYearsDiff == 4

\* A field that keeps its value is marked.  After one that has changed everything is looked
\* at again, until the year is too far from dot.
RECURSIVE FindNext(_, _, _)

Looked(cron, dot, r, f, found) ==
  IF found.value = r.tm[f] THEN [r EXCEPT !.marked = @ \cup {f}, !.tm = found.tm]
  ELSE IF f = "mon" /\ found.tm.year - dot > MaxYearsDiff THEN [r EXCEPT !.ok = FALSE]
  ELSE [FindNext(cron, found.tm, dot) EXCEPT !.marked = r.marked]

LookAt(cron, dot, r, f) ==
  Looked(cron, dot, r, f,
         IF f = "mday" THEN FindNextDay(cron, r.tm, r.marked, 0)
         ELSE FindValue(cron[f], r.tm, f, r.marked))

\* The seconds come first and nothing is repeated for them.
LookAtSeconds(tm, found) ==
  [ok |-> TRUE, tm |-> found.tm, marked |-> IF found.value = tm.sec THEN {"sec"} ELSE {}]

FindNext(cron, tm, dot) ==
  FoldLeft(LAMBDA r, f : IF r.ok THEN LookAt(cron, dot, r, f) ELSE r,
           LookAtSeconds(tm, FindValue(cron.sec, tm, "sec", {})),
           <<"min", "hour", "mday", "mon">>)

Result(r) == IF r.ok THEN r.tm ELSE InvalidTime

\* A time that is allowed itself is left first.
AfterIt(cron, tm, found) ==
  IF found # tm THEN found
  ELSE LET later == AddToField(tm, "sec", 1) IN Result(FindNext(cron, later, later.year))

NextCron(cron, tm) ==
  IF tm = InvalidTime THEN InvalidTime ELSE AfterIt(cron, tm, Result(FindNext(cron, tm, tm.year)))

----------------------------------------------------------------------------
(* An event that TC_Timer repeats by an expression: the next time is asked   *)
(* for first from the time of the clock, and then, each time it has fired,   *)
(* from the time it fired at.                                                *)

VARIABLES
  expression,   \* of Expressions
  fireTime,     \* Func::_fireMillseconds
  fires         \* history: how often nextcron() has been asked

cronVars == <<expression, fireTime, fires>>

CronInit ==
  /\ expression \in {e \in Expressions : \A f \in Fields : \A k \in 1..Len(e[f]) : InRange(f, e[f][k])}
  /\ fireTime \in Starts
  /\ fires = 0

Fire ==
  /\ fires < MaxFires
  /\ fireTime' = NextCron(MakeCron(expression), fireTime)
  /\ fires' = fires + 1
  /\ UNCHANGED expression

CronSpec == CronInit /\ [][Fire]_cronVars

----------------------------------------------------------------------------
(* Properties *)

\* What the items of a field mean.
Allowed(e, f) ==
  {v \in CronMin[f]..CronMax[f] : \E k \in 1..Len(e[f]) :
     LET item == e[f][k]
     IN  RangeFirst(f, item) <= v /\ v <= RangeLast(f, item)
         /\ (item.step # 0 => (v - RangeFirst(f, item)) % item.step = 0)}

DayAllowed(e, y, mon, mday) ==
  /\ mon + 1 \in Allowed(e, "mon") /\ mday \in Allowed(e, "mday")
  /\ Weekday(y, mon, mday) \in Allowed(e, "wday")

Date(t)  == <<t.year, t.mon, t.mday>>
Clock(t) == <<t.hour, t.min, t.sec>>

Before(u, v) == \E i \in 1..3 : u[i] < v[i] /\ \A j \in 1..(i - 1) : u[j] = v[j]

\* A day after the one and before the other on which e allows a time.
DayBetween(e, u, v) ==
  \E y \in u[1]..v[1], mon \in {m - 1 : m \in Allowed(e, "mon")}, mday \in Allowed(e, "mday") :
    /\ mday <= DaysIn(y, mon) /\ DayAllowed(e, y, mon, mday)
    /\ Before(u, <<y, mon, mday>>) /\ Before(<<y, mon, mday>>, v)

\* The first time of day that e allows, and the first after u: the last of hour, minute and
\* second that can grow does, and what follows it is least.
ClockFields == <<"hour", "min", "sec">>
FirstClock(e) == [i \in 1..3 |-> Min(Allowed(e, ClockFields[i]))]

ClocksAfter(e, u) ==
  {v \in {[j \in 1..3 |-> IF j < i THEN u[j]
                          ELSE IF j > i THEN FirstClock(e)[j]
                          ELSE Min({x \in Allowed(e, ClockFields[i]) : x > u[i]} \cup {99})] : i \in 1..3} :
     \A j \in 1..3 : v[j] \in Allowed(e, ClockFields[j])}

LeastClock(clocks) == CHOOSE u \in clocks : \A v \in clocks \ {u} : Before(u, v)

IsNext(e, t, r) ==
  IF r = InvalidTime THEN ~DayBetween(e, Date(t), <<t.year + MaxYearsDiff + 1, 0, 1>>)
  ELSE IF DayAllowed(e, t.year, t.mon, t.mday) /\ ClocksAfter(e, Clock(t)) # {}
  THEN Date(r) = Date(t) /\ Clock(r) = LeastClock(ClocksAfter(e, Clock(t)))
  ELSE /\ DayAllowed(e, r.year, r.mon, r.mday) /\ Clock(r) = FirstClock(e)
       /\ Before(Date(t), Date(r)) /\ ~DayBetween(e, Date(t), Date(r))

\* nextcron() returns the next point in time for the expression: it is one the six fields
\* allow, it is later than the time asked from, and none the fields allow is left out, over
\* the ends of minutes, days, months, years and leap years; and it gives up only when the
\* next four years have none.
NextIsNext ==
  [][fires' # fires /\ fireTime # InvalidTime => IsNext(expression, fireTime, fireTime')]_cronVars
=============================================================================
