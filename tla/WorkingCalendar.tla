--------------------------- MODULE WorkingCalendar ---------------------------
(***************************************************************************)
(* The working-day calendar.  A day is a number counted from the first of  *)
(* a month; months have MonthLength days, weeks begin on Monday.           *)
(***************************************************************************)
EXTENDS Integers, FiniteSets

CONSTANTS
    FirstWeekday,  \* weekday of day 1, Monday being 0
    MonthLength,
    Holidays       \* listed bank holidays, a finite list in the policy

ASSUME CalendarAssumption ==
    /\ FirstWeekday \in 0 .. 6
    /\ MonthLength \in Nat \ {0}
    /\ Holidays \subseteq Int
    /\ IsFiniteSet(Holidays)

Weekday(d) == (d - 1 + FirstWeekday) % 7
NthOfMonth(d) == ((d - 1) % MonthLength) \div 7 + 1

is_working_day(d) ==
    /\ d \notin Holidays
    /\ Weekday(d) # 6
    /\ ~(Weekday(d) = 5 /\ NthOfMonth(d) \in {2, 4})

\* The next working day, the day itself included.
rolled[d \in Int] == IF is_working_day(d) THEN d ELSE rolled[d + 1]

\* Mutated form: a start that is no working day is not rolled forward first.
add_working_days_Unrolled(start, n) ==
    LET added[i \in Nat] == IF i = 0 THEN start ELSE rolled[added[i - 1] + 1]
    IN  added[n]

add_working_days(start, n) ==
    LET added[i \in Nat] == IF i = 0 THEN rolled[start] ELSE rolled[added[i - 1] + 1]
    IN  added[n]

\* Working days from a to b, a excluded and b included, negative towards the past.
working_days_between(a, b) ==
    LET Count(days) == Cardinality({d \in days : is_working_day(d)})
    IN  IF a <= b THEN Count((a + 1) .. b) ELSE -Count(b .. (a - 1))
=============================================================================
