-------------------------- MODULE CashForecastProofs --------------------------
(***************************************************************************)
(* Proofs about the cash forecast, for every calendar, every policy and    *)
(* every dataset: nothing due is lost or returned twice, the days add up    *)
(* to the totals, and the projection of a payment is its settlement's day. *)
(* First what the calendar computes, for every list of holidays and every  *)
(* day: `rolled` finds the next working day, and n working days on means   *)
(* that n + 1 working days were met.  Both are recursive; that each has    *)
(* exactly one solution rests on the holidays being finitely many.         *)
(***************************************************************************)
EXTENDS CashForecast, SumTheorems, SequenceTheorems

-----------------------------------------------------------------------------
(* There is always another working day.                                    *)

LEMMA LastOfMany ==
    ASSUME NEW S, S \subseteq Int, IsFiniteSet(S)
    PROVE  \E last \in Int : \A d \in S : d <= last
<1> DEFINE Bad == {T \in SUBSET S : ~ \E last \in Int : \A d \in T : d <= last}
<1>1. ASSUME NEW T \in Bad, \A U \in Bad : U \subseteq T => U = T PROVE FALSE
  <2>1. T \in SUBSET S /\ ~ \E last \in Int : \A d \in T : d <= last
    OBVIOUS
  <2>2. PICK x \in T : x \in Int
    BY <2>1
  <2>3. T \ {x} \in SUBSET S /\ T \ {x} \subseteq T /\ T \ {x} # T
    BY <2>1, <2>2
  <2>4. PICK last \in Int : \A d \in T \ {x} : d <= last
    BY <1>1, <2>3
  <2>5. \E later \in Int : last <= later /\ x <= later
    BY <2>2
  <2>6. PICK later \in Int : last <= later /\ x <= later
    BY <2>5
  <2>7. \A d \in T : d \in Int /\ d <= later
    BY <2>1, <2>4, <2>6
  <2> QED
    BY <2>1, <2>7
<1>2. Bad = {}
  <2>1. \A X \in Bad : X \subseteq S
    OBVIOUS
  <2> HIDE DEF Bad
  <2> QED
    BY <1>1, <2>1, NoDescent
<1> QED
  BY <1>2

LEMMA AMondayAhead == \A d \in Int : \E e \in Int : d <= e /\ Weekday(e) = 0
<1> TAKE d \in Int
<1> DEFINE m == (d - 1 + FirstWeekday) % 7
           e == IF m = 0 THEN d ELSE d + 7 - m
<1>0. FirstWeekday \in 0 .. 6
  BY CalendarAssumption
<1>1. m \in 0 .. 6 /\ e \in Int /\ d <= e
  BY <1>0
<1>2. (e - 1 + FirstWeekday) % 7 = 0
  BY <1>0
<1> QED
  BY <1>1, <1>2 DEF Weekday

LEMMA WorkingDayAhead == \A d \in Int : \E e \in Int : d <= e /\ is_working_day(e)
<1> TAKE d \in Int
<1>1. PICK last \in Int : \A h \in Holidays : h <= last
  BY LastOfMany, CalendarAssumption
<1>2. \E later \in Int : d <= later /\ last < later
  <2>1. CASE d <= last
    BY <2>1
  <2>2. CASE ~ (d <= last)
    BY <2>2
  <2> QED
    BY <2>1, <2>2
<1>3. PICK later \in Int : d <= later /\ last < later
  BY <1>2
<1>4. PICK e \in Int : later <= e /\ Weekday(e) = 0
  BY AMondayAhead
<1>5. e \notin Holidays
  BY <1>1, <1>3, <1>4
<1> QED
  BY <1>3, <1>4, <1>5 DEF is_working_day

-----------------------------------------------------------------------------
(* `rolled` is the next working day.                                       *)

\* e is the first working day from d on.
IsNext(d, e) ==
    /\ e \in Int /\ d <= e
    /\ is_working_day(e)
    /\ \A x \in d .. (e - 1) : ~ is_working_day(x)

LEMMA NextIsUnique ==
    ASSUME NEW d \in Int, NEW e, NEW f, IsNext(d, e), IsNext(d, f)
    PROVE  e = f
BY DEF IsNext

LEMMA NextExists == \A d \in Int : \E e : IsNext(d, e)
<1> TAKE d \in Int
<1> DEFINE T == {n \in Nat : is_working_day(d + n)}
<1>1. T \in SUBSET Nat /\ T # {}
  <2>1. PICK e \in Int : d <= e /\ is_working_day(e)
    BY WorkingDayAhead
  <2>2. e - d \in Nat /\ d + (e - d) = e
    BY <2>1
  <2> QED
    BY <2>1, <2>2
<1>2. PICK n \in T : \A m \in T : n <= m
  <2> HIDE DEF T
  <2> QED
    BY <1>1, LeastNumber
<1>3. ASSUME NEW x \in d .. (d + n - 1) PROVE ~ is_working_day(x)
  <2>1. x - d \in Nat /\ ~ (n <= x - d) /\ d + (x - d) = x
    OBVIOUS
  <2> QED
    BY <1>2, <2>1
<1>4. IsNext(d, d + n)
  BY <1>3 DEF IsNext
<1> QED
  BY <1>4

LEMMA RolledUnfolds ==
    \A d \in Int : rolled[d] = IF is_working_day(d) THEN d ELSE rolled[d + 1]
<1> DEFINE R == [d \in Int |-> CHOOSE e : IsNext(d, e)]
<1>1. \A d \in Int : IsNext(d, R[d])
  BY NextExists
<1>2. ASSUME NEW d \in Int PROVE R[d] = IF is_working_day(d) THEN d ELSE R[d + 1]
  <2> HIDE DEF R
  <2>1. CASE is_working_day(d)
    <3>1. IsNext(d, d)
      BY <2>1 DEF IsNext
    <3> QED
      BY <1>1, <2>1, <3>1, NextIsUnique
  <2>2. CASE ~ is_working_day(d)
    <3>1. d + 1 \in Int /\ IsNext(d + 1, R[d + 1])
      BY <1>1
    <3>2. IsNext(d, R[d + 1])
      BY <2>2, <3>1 DEF IsNext
    <3> QED
      BY <1>1, <2>2, <3>2, NextIsUnique
  <2> QED
    BY <2>1, <2>2
<1>3. R = [d \in Int |-> IF is_working_day(d) THEN d ELSE R[d + 1]]
  <2>1. R = [d \in Int |-> R[d]]
    OBVIOUS
  <2> HIDE DEF R
  <2> QED
    BY <1>2, <2>1
<1> HIDE DEF R
<1>4. \E r : r = [d \in Int |-> IF is_working_day(d) THEN d ELSE r[d + 1]]
  BY <1>3
<1>5. rolled = [d \in Int |-> IF is_working_day(d) THEN d ELSE rolled[d + 1]]
  BY <1>4 DEF rolled
<1> QED
  BY <1>5

\* The next working day is found from every day.
LEMMA RolledIsNext == \A d \in Int : IsNext(d, rolled[d])
<1> DEFINE Bad == {n \in Nat : \E d \in Int : IsNext(d, d + n) /\ rolled[d] # d + n}
<1>1. ASSUME NEW n \in Bad, \A m \in Bad : n <= m PROVE FALSE
  <2>1. PICK d \in Int : IsNext(d, d + n) /\ rolled[d] # d + n
    OBVIOUS
  <2>2. n \in Nat
    OBVIOUS
  <2>3. ~ is_working_day(d)
    <3>1. CASE n = 0
      BY <2>1, <3>1, RolledUnfolds DEF IsNext
    <3>2. CASE n # 0
      <4>1. d \in d .. (d + n - 1)
        BY <2>2, <3>2
      <4> QED
        BY <2>1, <4>1 DEF IsNext
    <3> QED
      BY <3>1, <3>2
  <2>4. n # 0
    BY <2>1, <2>3 DEF IsNext
  <2>5. n - 1 \in Nat /\ ~ (n <= n - 1) /\ d + 1 \in Int /\ (d + 1) + (n - 1) = d + n
    BY <2>2, <2>4
  <2>6. IsNext(d + 1, d + n)
    <3>1. d + 1 <= d + n /\ \A x \in (d + 1) .. (d + n - 1) : x \in d .. (d + n - 1)
      BY <2>2, <2>4
    <3> QED
      BY <2>1, <3>1 DEF IsNext
  <2>7. n - 1 \notin Bad
    BY <1>1, <2>5
  <2>8. rolled[d + 1] = d + n
    BY <2>5, <2>6, <2>7
  <2> QED
    BY <2>1, <2>3, <2>8, RolledUnfolds
<1>2. Bad = {}
  BY <1>1, LeastNumber
<1> TAKE d \in Int
<1>3. PICK e : IsNext(d, e)
  BY NextExists
<1>4. e - d \in Nat /\ e = d + (e - d)
  BY <1>3 DEF IsNext
<1>5. rolled[d] = e
  BY <1>2, <1>3, <1>4
<1> QED
  BY <1>3, <1>5

-----------------------------------------------------------------------------
(* `add_working_days` counts: the day it returns is the n-th after start.  *)

Working(a, b) == {d \in a .. b : is_working_day(d)}

\* e is the working day with which n + 1 of them were met since start.
IsNth(start, n, e) ==
    /\ e \in Int /\ start <= e
    /\ is_working_day(e)
    /\ Cardinality(Working(start, e)) = n + 1

LEMMA WorkingIsFinite ==
    \A a, b \in Int : IsFiniteSet(Working(a, b)) /\ Cardinality(Working(a, b)) \in Nat
<1> TAKE a, b \in Int
<1>1. IsFiniteSet(a .. b) /\ Working(a, b) \in SUBSET (a .. b)
  BY FS_Interval DEF Working
<1> QED
  BY <1>1, FS_Subset, FS_CardinalityType

LEMMA FirstIsNext ==
    ASSUME NEW start \in Int, NEW e, IsNext(start, e)
    PROVE  IsNth(start, 0, e)
<1>1. Working(start, e) = {e}
  BY DEF Working, IsNext
<1> QED
  BY <1>1, FS_Singleton DEF IsNth, IsNext

LEMMA NthThenNext ==
    ASSUME NEW start \in Int, NEW n \in Nat, NEW e, NEW f,
           IsNth(start, n, e), IsNext(e + 1, f)
    PROVE  IsNth(start, n + 1, f)
<1>1. e \in Int /\ f \in Int /\ start <= e /\ e < f /\ is_working_day(f)
  BY DEF IsNth, IsNext
<1>2. Working(start, f) = Working(start, e) \cup {f} /\ f \notin Working(start, e)
  BY <1>1 DEF Working, IsNext
<1>3. Cardinality(Working(start, f)) = n + 1 + 1
  <2>1. IsFiniteSet(Working(start, e)) /\ Cardinality(Working(start, e)) = n + 1
    BY <1>1, WorkingIsFinite DEF IsNth
  <2>2. Cardinality(Working(start, e) \cup {f}) = Cardinality(Working(start, e)) + 1
    BY <1>2, <2>1, FS_AddElement
  <2> QED
    BY <1>2, <2>1, <2>2
<1> QED
  BY <1>1, <1>3 DEF IsNth

LEMMA NthIsUnique ==
    ASSUME NEW start \in Int, NEW n \in Nat, NEW e, NEW f,
           IsNth(start, n, e), IsNth(start, n, f)
    PROVE  e = f
<1>1. ASSUME NEW x, NEW y, IsNth(start, n, x), IsNth(start, n, y), x < y PROVE FALSE
  <2>1. x \in Int /\ y \in Int
    BY <1>1 DEF IsNth
  <2>2. Working(start, x) \in SUBSET Working(start, y) /\ y \notin Working(start, x)
    BY <1>1, <2>1 DEF Working
  <2>3. y \in Working(start, y)
    BY <1>1, <2>1 DEF Working, IsNth
  <2>4. Working(start, x) = Working(start, y)
    BY <1>1, <2>1, <2>2, WorkingIsFinite, FS_Subset DEF IsNth
  <2> QED
    BY <2>2, <2>3, <2>4
<1>2. e \in Int /\ f \in Int
  BY DEF IsNth
<1>3. ~ (e < f) /\ ~ (f < e)
  BY <1>1
<1> QED
  BY <1>2, <1>3

LEMMA NthExists == \A start \in Int : \A n \in Nat : \E e : IsNth(start, n, e)
<1> TAKE start \in Int
<1> DEFINE Bad == {n \in Nat : ~ \E e : IsNth(start, n, e)}
<1>1. ASSUME NEW n \in Bad, \A m \in Bad : n <= m PROVE FALSE
  <2>1. n \in Nat /\ ~ \E e : IsNth(start, n, e)
    OBVIOUS
  <2>2. CASE n = 0
    BY <2>1, <2>2, NextExists, FirstIsNext
  <2>3. CASE n # 0
    <3>1. n - 1 \in Nat /\ ~ (n <= n - 1) /\ (n - 1) + 1 = n
      BY <2>1, <2>3
    <3>2. PICK e : IsNth(start, n - 1, e)
      BY <1>1, <3>1
    <3>3. e + 1 \in Int
      BY <3>2 DEF IsNth
    <3>4. PICK f : IsNext(e + 1, f)
      BY <3>3, NextExists
    <3>5. IsNth(start, (n - 1) + 1, f)
      BY <3>1, <3>2, <3>4, NthThenNext
    <3> QED
      BY <2>1, <3>1, <3>5
  <2> QED
    BY <2>2, <2>3
<1>2. Bad = {}
  BY <1>1, LeastNumber
<1> QED
  BY <1>2

\* added is what add_working_days computes from start, for every n.
Adds(added, start) ==
    added = [i \in Nat |-> IF i = 0 THEN rolled[start] ELSE rolled[added[i - 1] + 1]]

LEMMA AddsIsNth ==
    ASSUME NEW start \in Int, NEW added, Adds(added, start), NEW n \in Nat
    PROVE  IsNth(start, n, added[n])
<1> DEFINE Bad == {m \in Nat : ~ IsNth(start, m, added[m])}
<1>0. \A i \in Nat : added[i] = IF i = 0 THEN rolled[start] ELSE rolled[added[i - 1] + 1]
  BY DEF Adds
<1>1. ASSUME NEW m \in Bad, \A k \in Bad : m <= k PROVE FALSE
  <2>1. m \in Nat /\ ~ IsNth(start, m, added[m])
    OBVIOUS
  <2>2. CASE m = 0
    BY <1>0, <2>1, <2>2, RolledIsNext, FirstIsNext
  <2>3. CASE m # 0
    <3>1. m - 1 \in Nat /\ ~ (m <= m - 1) /\ (m - 1) + 1 = m
      BY <2>1, <2>3
    <3>2. IsNth(start, m - 1, added[m - 1])
      BY <1>1, <3>1
    <3>3. added[m - 1] + 1 \in Int
      BY <3>2 DEF IsNth
    <3>4. IsNext(added[m - 1] + 1, rolled[added[m - 1] + 1])
      BY <3>3, RolledIsNext
    <3>5. IsNth(start, (m - 1) + 1, rolled[added[m - 1] + 1])
      BY <3>1, <3>2, <3>4, NthThenNext
    <3> QED
      BY <1>0, <2>1, <2>3, <3>1, <3>5
  <2> QED
    BY <2>2, <2>3
<1>2. Bad = {}
  BY <1>1, LeastNumber
<1> QED
  BY <1>2

LEMMA AddsExists == \A start \in Int : \E added : Adds(added, start)
<1> TAKE start \in Int
<1> DEFINE F == [i \in Nat |-> CHOOSE e : IsNth(start, i, e)]
<1>1. \A i \in Nat : IsNth(start, i, F[i])
  BY NthExists
<1>2. ASSUME NEW i \in Nat
      PROVE  F[i] = IF i = 0 THEN rolled[start] ELSE rolled[F[i - 1] + 1]
  <2> HIDE DEF F
  <2>1. CASE i = 0
    <3>1. IsNth(start, 0, rolled[start])
      BY RolledIsNext, FirstIsNext
    <3> QED
      BY <1>1, <2>1, <3>1, NthIsUnique
  <2>2. CASE i # 0
    <3>1. i - 1 \in Nat /\ (i - 1) + 1 = i
      BY <2>2
    <3>2. IsNth(start, i - 1, F[i - 1])
      BY <1>1, <3>1
    <3>3. F[i - 1] + 1 \in Int
      BY <3>2 DEF IsNth
    <3>4. IsNext(F[i - 1] + 1, rolled[F[i - 1] + 1])
      BY <3>3, RolledIsNext
    <3>5. IsNth(start, (i - 1) + 1, rolled[F[i - 1] + 1])
      BY <3>1, <3>2, <3>4, NthThenNext
    <3>6. IsNth(start, i, rolled[F[i - 1] + 1])
      BY <3>1, <3>5
    <3>7. F[i] = rolled[F[i - 1] + 1]
      BY <1>1, <3>6, NthIsUnique
    <3> QED
      BY <2>2, <3>7
  <2> QED
    BY <2>1, <2>2
<1>3. F = [i \in Nat |-> F[i]]
  OBVIOUS
<1> HIDE DEF F
<1>4. Adds(F, start)
  BY <1>2, <1>3 DEF Adds
<1> QED
  BY <1>4

LEMMA AddedIsComputed ==
    \A start \in Int : \E added :
        Adds(added, start) /\ \A n : add_working_days(start, n) = added[n]
<1> TAKE start \in Int
<1> DEFINE g == CHOOSE added : Adds(added, start)
<1>1. Adds(g, start)
  BY AddsExists
<1>2. \A n : add_working_days(start, n) = g[n]
  BY DEF add_working_days, Adds
<1> QED
  BY <1>1, <1>2

\* n working days on from any start is a working day, the start itself or after it,
\* and from the start to it there are exactly n + 1 of them.
THEOREM AddingCounts ==
    \A start \in Int, n \in Nat : IsNth(start, n, add_working_days(start, n))
BY AddedIsComputed, AddsIsNth

\* One working day at a time: none, and the day itself is rolled forward; one more,
\* and the next one is found.
LEMMA AddingUnfolds ==
    \A start \in Int :
        /\ add_working_days(start, 0) = rolled[start]
        /\ \A n \in Nat : add_working_days(start, n + 1) = rolled[add_working_days(start, n) + 1]
<1> TAKE start \in Int
<1>1. PICK added : Adds(added, start) /\ \A n : add_working_days(start, n) = added[n]
  BY AddedIsComputed
<1>2. \A i \in Nat : added[i] = IF i = 0 THEN rolled[start] ELSE rolled[added[i - 1] + 1]
  BY <1>1 DEF Adds
<1>3. added[0] = rolled[start]
  BY <1>2
<1>4. \A n \in Nat : added[n + 1] = rolled[added[n] + 1]
  <2> TAKE n \in Nat
  <2>1. n + 1 \in Nat /\ n + 1 # 0 /\ (n + 1) - 1 = n
    OBVIOUS
  <2> QED
    BY <1>2, <2>1
<1> QED
  BY <1>1, <1>3, <1>4

\* Counting on from a working day and counting the days between agree.
THEOREM BetweenUndoesAdding ==
    \A start \in Int, n \in Nat :
        is_working_day(start) => working_days_between(start, add_working_days(start, n)) = n
<1> TAKE start \in Int, n \in Nat
<1> HAVE is_working_day(start)
<1> DEFINE e == add_working_days(start, n)
<1>1. IsNth(start, n, e)
  BY AddingCounts
<1> HIDE DEF e
<1>2. e \in Int /\ start <= e /\ Cardinality(Working(start, e)) = n + 1
  BY <1>1 DEF IsNth
<1>3. Working(start + 1, e) = Working(start, e) \ {start} /\ start \in Working(start, e)
  BY <1>2 DEF Working
<1>4. Cardinality(Working(start + 1, e)) = n
  <2>1. IsFiniteSet(Working(start, e))
    BY <1>2, WorkingIsFinite
  <2>2. Cardinality(Working(start, e) \ {start}) = Cardinality(Working(start, e)) - 1
    BY <1>3, <2>1, FS_RemoveElement
  <2>3. Cardinality(Working(start, e) \ {start}) = n
    BY <1>2, <2>2
  <2> QED
    BY <1>3, <2>3
<1>5. working_days_between(start, e) = Cardinality(Working(start + 1, e))
  BY <1>2 DEF working_days_between, Working
<1> QED
  BY <1>4, <1>5 DEF e

\* Days that roll forward to the same working day are as good as one another.
LEMMA SameDayRolled ==
    ASSUME NEW a \in Int, NEW b \in Int, rolled[a] = rolled[b], NEW n \in Nat
    PROVE  add_working_days(a, n) = add_working_days(b, n)
<1> DEFINE Bad == {m \in Nat : add_working_days(a, m) # add_working_days(b, m)}
<1>1. ASSUME NEW m \in Bad, \A k \in Bad : m <= k PROVE FALSE
  <2>1. CASE m = 0
    BY <2>1, AddingUnfolds
  <2>2. CASE m # 0
    <3>1. m - 1 \in Nat /\ ~ (m <= m - 1) /\ (m - 1) + 1 = m
      BY <2>2
    <3>2. add_working_days(a, m - 1) = add_working_days(b, m - 1)
      BY <1>1, <3>1
    <3>3. add_working_days(a, (m - 1) + 1) = add_working_days(b, (m - 1) + 1)
      BY <3>1, <3>2, AddingUnfolds
    <3> QED
      BY <3>1, <3>3
  <2> QED
    BY <2>1, <2>2
<1>2. Bad = {}
  <2> HIDE DEF Bad
  <2>1. Bad \in SUBSET Nat
    BY DEF Bad
  <2> QED
    BY <1>1, <2>1, LeastNumber
<1> QED
  BY <1>2
-----------------------------------------------------------------------------
(* The forecast.                                                           *)

LEMMA WholeNumbers ==
    /\ cycle_working_days \in Nat /\ expected_lag_days \in Nat /\ tolerance_days \in Nat
    /\ max_horizon \in Nat \ {0} /\ max_payouts \in Nat
    /\ pipeline_days \in Int /\ FirstCutoff \in Int
    /\ Net \in Int /\ Part \in Int /\ GstBps \in Int
BY ForecastAssumption

-----------------------------------------------------------------------------
(* The invariant.                                                          *)

Settlement == [start : Int, end : Int, date : Int, credit : Credits]
Payment(p) == p.day \in Int /\ p.amount \in Int /\ p.method \in DOMAIN MdrBps
Allocation(a) == a.day \in Int /\ a.owed \in Int

TypeOK ==
    /\ settlements \in Seq(Settlement)
    /\ IsFiniteSet(pipeline) /\ \A p \in pipeline : Payment(p)
    /\ IsFiniteSet(allocations) /\ \A a \in allocations : Allocation(a)
    /\ run \in Seq(Int) /\ Len(run) <= Len(settlements)

\* A period ends on the first working day from its start, and is settled from there.
Regular(s) == s.end = rolled[s.start] /\ s.date = add_working_days(s.end, cycle_working_days)
PeriodsRegular == \A i \in DOMAIN settlements \ {1} : Regular(settlements[i])

\* A forecast is of the tables as they are, but for the payouts that are not shown.
Returns(v, f) == \E shown \in FirstOf(f.overdue_payouts) : v = to_dict(f, shown)
ViewIsCurrent ==
    /\ settlements = <<>> => view = {}
    /\ \A v \in view : \E as_of, horizon \in Int : Returns(v, Forecast(as_of, horizon))

IInv == TypeOK /\ PeriodsRegular /\ ViewIsCurrent

-----------------------------------------------------------------------------
(* A batch.                                                                *)

LEMMA AddingIsInt == \A d \in Int, n \in Nat : add_working_days(d, n) \in Int
BY AddingCounts DEF IsNth

LEMMA CutoffNext ==
    ASSUME NEW first \in Int, NEW i \in Nat \ {0}
    PROVE  /\ Cutoff(first, i) \in Int
           /\ i = 1 => Cutoff(first, i) = rolled[first]
           /\ i # 1 => Cutoff(first, i - 1) \in Int /\ Cutoff(first, i) = rolled[Cutoff(first, i - 1) + 1]
<1>1. i - 1 \in Nat
  OBVIOUS
<1>2. Cutoff(first, i) \in Int
  BY <1>1, AddingIsInt DEF Cutoff
<1>3. CASE i = 1
  BY <1>2, <1>3, AddingUnfolds DEF Cutoff
<1>4. CASE i # 1
  <2>1. i - 1 - 1 \in Nat /\ (i - 1 - 1) + 1 = i - 1
    BY <1>4
  <2>2. add_working_days(first, (i - 1 - 1) + 1) = rolled[add_working_days(first, i - 1 - 1) + 1]
    BY <2>1, AddingUnfolds
  <2>3. add_working_days(first, i - 1 - 1) \in Int
    BY <2>1, AddingIsInt
  <2> QED
    BY <1>2, <1>4, <2>1, <2>2, <2>3 DEF Cutoff
<1> QED
  BY <1>3, <1>4

\* The n new periods; the first of them is regular when it begins with the batch.
RegularBatch(new, n, first, start) ==
    /\ new \in Seq(Settlement) /\ Len(new) = n
    /\ \A i \in 1 .. n : i # 1 \/ start = first => Regular(new[i])

LEMMA PeriodsAreRegular ==
    ASSUME NEW first \in Int, NEW start \in Int, NEW n \in Nat \ {0}, NEW credit \in Credits,
           NEW new, new = Periods(first, start, n, credit)
    PROVE  RegularBatch(new, n, first, start)
<1> DEFINE s(i) == [start |-> IF i = 1 THEN start ELSE Cutoff(first, i - 1) + 1,
                    end   |-> Cutoff(first, i),
                    date  |-> add_working_days(Cutoff(first, i), cycle_working_days),
                    credit |-> IF i = n THEN credit ELSE "paid"]
<1>1. new = [i \in 1 .. n |-> s(i)]
  BY DEF Periods
<1>2. \A i \in 1 .. n : s(i) \in Settlement
  <2> TAKE i \in 1 .. n
  <2>1. /\ Cutoff(first, i) \in Int
        /\ i # 1 => Cutoff(first, i - 1) + 1 \in Int
    BY CutoffNext
  <2>2. add_working_days(Cutoff(first, i), cycle_working_days) \in Int
    BY <2>1, AddingIsInt, WholeNumbers
  <2>3. (IF i = n THEN credit ELSE "paid") \in Credits
    BY DEF Credits
  <2> QED
    BY <2>1, <2>2, <2>3 DEF Settlement
<1>3. ASSUME NEW i \in 1 .. n, i # 1 \/ start = first PROVE Regular(s(i))
  <2>1. Cutoff(first, i) = rolled[s(i).start]
    <3>1. s(i).start = IF i = 1 THEN start ELSE Cutoff(first, i - 1) + 1
      OBVIOUS
    <3> HIDE DEF s
    <3>2. i \in Nat \ {0}
      OBVIOUS
    <3>3. CASE i = 1
      BY <1>3, <3>1, <3>2, <3>3, CutoffNext
    <3>4. CASE i # 1
      BY <3>1, <3>2, <3>4, CutoffNext
    <3> QED
      BY <3>3, <3>4
  <2> QED
    BY <2>1 DEF Regular
<1> HIDE DEF s
<1>4. new \in Seq(Settlement) /\ Len(new) = n
  BY <1>1, <1>2
<1> QED
  BY <1>1, <1>3, <1>4 DEF RegularBatch

LEMMA LeftOverIsFinite ==
    ASSUME NEW batch, NEW d \in Int, NEW sale, sale.amount \in Int, sale.method \in DOMAIN MdrBps
    PROVE  IsFiniteSet(LeftOver(batch, d, sale)) /\ \A p \in LeftOver(batch, d, sale) : Payment(p)
<1> DEFINE D == {e \in (d + 1) .. (d + pipeline_days) : is_working_day(e)}
           P == [e \in D |-> [batch |-> batch, day |-> e, amount |-> sale.amount, method |-> sale.method]]
<1>1. IsFiniteSet(D)
  <2>1. IsFiniteSet((d + 1) .. (d + pipeline_days)) /\ D \in SUBSET ((d + 1) .. (d + pipeline_days))
    BY WholeNumbers, FS_Interval
  <2> QED
    BY <2>1, FS_Subset
<1>2. LeftOver(batch, d, sale) = {P[e] : e \in D}
  BY DEF LeftOver
<1>3. P \in Surjection(D, {P[e] : e \in D})
  <2> HIDE DEF D
  <2> QED
    BY DEF Surjection
<1>4. IsFiniteSet(LeftOver(batch, d, sale))
  BY <1>1, <1>2, <1>3, FS_Surjection
<1>5. \A p \in LeftOver(batch, d, sale) : Payment(p)
  BY DEF LeftOver, Payment
<1> QED
  BY <1>4, <1>5

\* Landing the credit that was withheld leaves the periods alone.
LEMMA LandedKeepsPeriods ==
    ASSUME NEW s \in Seq(Settlement), NEW t, t = Landed(s)
    PROVE  /\ t \in Seq(Settlement) /\ Len(t) = Len(s)
           /\ \A i \in 1 .. Len(s) : Regular(s[i]) => Regular(t[i])
<1> DEFINE u(i) == IF s[i].credit = "withheld" THEN [s[i] EXCEPT !.credit = "paid"] ELSE s[i]
<1>1. t = [i \in 1 .. Len(s) |-> u(i)]
  BY DEF Landed
<1>2. ASSUME NEW i \in 1 .. Len(s)
      PROVE  /\ u(i) \in Settlement /\ u(i).start = s[i].start
             /\ u(i).end = s[i].end /\ u(i).date = s[i].date
  <2>1. s[i] \in Settlement
    OBVIOUS
  <2> QED
    BY <2>1 DEF Settlement, Credits
<1> HIDE DEF u
<1>3. t \in Seq(Settlement) /\ Len(t) = Len(s)
  BY <1>1, <1>2
<1>4. \A i \in 1 .. Len(s) : Regular(s[i]) => Regular(t[i])
  BY <1>1, <1>2 DEF Regular
<1> QED
  BY <1>3, <1>4

\* What a batch leaves, from the settlements s on.
BatchDone(s) ==
    /\ settlements' \in Seq(Settlement) /\ Len(settlements') > Len(s)
    /\ IsFiniteSet(pipeline') /\ \A p \in pipeline' : Payment(p)
    /\ IsFiniteSet(allocations') /\ \A a \in allocations' : Allocation(a)
    /\ PeriodsRegular'

\* A batch adds regular periods, once the first of the dataset is past.
LEMMA BatchPreserves ==
    ASSUME TypeOK, NEW s \in Seq(Settlement), NEW first \in Int, NEW start \in Int, NEW c \in Cycles,
           Batch(s, first, start, c),
           \A i \in 1 .. Len(s) : i # 1 => Regular(s[i]),
           s = <<>> \/ start = first
    PROVE  BatchDone(s)
<1> DEFINE id == Len(s) + c.size
           new == Periods(first, start, c.size, c.credit)
           left == LeftOver(id, Last(new).end, c.sale)
           days == IF c.share = "settled" THEN {new[1].end} ELSE {p.day : p \in left}
<1>1. /\ c.size \in Nat \ {0} /\ c.credit \in Credits
      /\ c.sale.amount \in Int /\ c.sale.method \in DOMAIN MdrBps
  BY ForecastAssumption
<1>2. /\ settlements' = s \o new
      /\ pipeline' = pipeline \cup left
      /\ allocations' = allocations \cup {[batch |-> id, day |-> d, owed |-> c.owed] : d \in days}
  BY DEF Batch
<1>3. /\ new \in Seq(Settlement) /\ Len(new) = c.size
      /\ \A i \in 1 .. c.size : i # 1 \/ start = first => Regular(new[i])
  <2>1. RegularBatch(new, c.size, first, start)
    BY <1>1, PeriodsAreRegular
  <2> QED
    BY <2>1 DEF RegularBatch
<1>4. new[1].end \in Int /\ Last(new).end \in Int
  <2>1. new[1] \in Settlement /\ new[Len(new)] \in Settlement
    BY <1>1, <1>3
  <2> QED
    BY <2>1 DEF Last, Settlement
<1>5. IsFiniteSet(left) /\ \A p \in left : Payment(p)
  BY <1>1, <1>4, LeftOverIsFinite
<1>6. IsFiniteSet(days) /\ \A d \in days : d \in Int
  <2>1. CASE c.share = "settled"
    BY <1>4, <2>1, FS_Singleton
  <2>2. CASE c.share # "settled"
    <3> HIDE DEF left
    <3>1. [p \in left |-> p.day] \in Surjection(left, {p.day : p \in left})
      BY DEF Surjection
    <3>2. IsFiniteSet({p.day : p \in left})
      BY <1>5, <3>1, FS_Surjection
    <3> QED
      BY <1>5, <2>2, <3>2 DEF Payment
  <2> QED
    BY <2>1, <2>2
<1>7. IsFiniteSet({[batch |-> id, day |-> d, owed |-> c.owed] : d \in days})
  <2> HIDE DEF days, id
  <2>1. [d \in days |-> [batch |-> id, day |-> d, owed |-> c.owed]]
          \in Surjection(days, {[batch |-> id, day |-> d, owed |-> c.owed] : d \in days})
    BY DEF Surjection
  <2> QED
    BY <1>6, <2>1, FS_Surjection
<1> HIDE DEF id, new, left, days
<1>8. settlements' \in Seq(Settlement) /\ Len(settlements') = Len(s) + Len(new)
  <2>1. s \o new \in Seq(Settlement) /\ Len(s \o new) = Len(s) + Len(new)
    BY <1>3, ConcatProperties
  <2> QED
    BY <1>2, <2>1
<1>9. ASSUME NEW i \in DOMAIN settlements' \ {1} PROVE Regular(settlements'[i])
  <2>1. i \in 1 .. Len(s) + Len(new) /\ i # 1
    BY <1>8, <1>9
  <2>2. CASE i <= Len(s)
    <3>1. settlements'[i] = s[i] /\ i \in 1 .. Len(s)
      BY <1>2, <1>3, <2>1, <2>2
    <3> QED
      BY <2>1, <3>1
  <2>3. CASE i > Len(s)
    <3>1. settlements'[i] = new[i - Len(s)] /\ i - Len(s) \in 1 .. c.size
      BY <1>2, <1>3, <2>1, <2>3
    <3>2. i - Len(s) # 1 \/ start = first
      BY <2>1
    <3> QED
      BY <1>3, <3>1, <3>2
  <2> QED
    BY <2>1, <2>2, <2>3
<1>10. IsFiniteSet(pipeline') /\ \A p \in pipeline' : Payment(p)
  BY <1>2, <1>5, FS_Union DEF TypeOK
<1>11. IsFiniteSet(allocations') /\ \A a \in allocations' : Allocation(a)
  <2> DEFINE more == {[batch |-> id, day |-> d, owed |-> c.owed] : d \in days}
  <2>1. allocations' = allocations \cup more /\ \A a \in more : Allocation(a)
    BY <1>2, <1>6, ForecastAssumption DEF Allocation
  <2>2. IsFiniteSet(more)
    BY <1>7
  <2> HIDE DEF more
  <2> QED
    BY <2>1, <2>2, FS_Union DEF TypeOK
<1>12. PeriodsRegular'
  BY <1>9 DEF PeriodsRegular
<1>13. Len(settlements') > Len(s)
  BY <1>1, <1>3, <1>8
<1> QED
  BY <1>8, <1>10, <1>11, <1>12, <1>13 DEF BatchDone

-----------------------------------------------------------------------------
(* The invariant holds.                                                    *)

\* A forecast depends on the tables and the latest run alone.
LEMMA ForecastOfTables ==
    ASSUME UNCHANGED <<settlements, pipeline, allocations, run>>, NEW as_of, NEW horizon
    PROVE  Forecast(as_of, horizon)' = Forecast(as_of, horizon)
BY DEF Forecast, SettlementLine, IsOverdue, Open

LEMMA LastEnd ==
    ASSUME TypeOK, settlements # <<>>
    PROVE  Last(settlements).end \in Int
<1>1. settlements[Len(settlements)] \in Settlement
  BY DEF TypeOK
<1> QED
  BY <1>1 DEF Last, Settlement

LEMMA InitHolds == Init => IInv
<1> SUFFICES ASSUME Init PROVE IInv
  OBVIOUS
<1>1. TypeOK
  BY FS_EmptySet DEF Init, TypeOK
<1>2. PeriodsRegular /\ ViewIsCurrent
  BY DEF Init, PeriodsRegular, ViewIsCurrent
<1> QED
  BY <1>1, <1>2 DEF IInv

LEMMA StepPreserves == IInv /\ [Next]_vars => IInv'
<1> SUFFICES ASSUME IInv, [Next]_vars PROVE IInv'
  OBVIOUS
<1> USE DEF IInv
<1>1. CASE Generate
  <2>1. PICK c \in Cycles : Batch(<<>>, FirstCutoff, FirstCutoff - 2, c)
    BY <1>1 DEF Generate
  <2>2. settlements = <<>> /\ UNCHANGED <<run, view>>
    BY <1>1 DEF Generate
  <2>3. FirstCutoff \in Int /\ FirstCutoff - 2 \in Int /\ <<>> \in Seq(Settlement)
    BY WholeNumbers
  <2>4. BatchDone(<<>>)
    <3>1. \A i \in 1 .. Len(<<>>) : i # 1 => Regular(<<>>[i])
      OBVIOUS
    <3> QED
      BY <2>1, <2>3, <3>1, BatchPreserves
  <2>5. TypeOK'
    BY <2>2, <2>4 DEF TypeOK, BatchDone
  <2>6. ViewIsCurrent'
    BY <2>2, <2>4 DEF ViewIsCurrent, BatchDone
  <2> QED
    BY <2>4, <2>5, <2>6 DEF BatchDone
<1>2. CASE Tick
  <2> DEFINE first == Last(settlements).end + 1
             s == Landed(settlements)
  <2>1. settlements # <<>> /\ view' = {} /\ run' = run
    BY <1>2 DEF Tick
  <2>2. PICK c \in Cycles : Batch(s, first, first, c)
    BY <1>2 DEF Tick
  <2>3. first \in Int
    BY <2>1, LastEnd
  <2>4. /\ s \in Seq(Settlement) /\ Len(s) = Len(settlements)
        /\ \A i \in 1 .. Len(settlements) : Regular(settlements[i]) => Regular(s[i])
    BY LandedKeepsPeriods DEF TypeOK
  <2>5. \A i \in 1 .. Len(s) : i # 1 => Regular(s[i])
    BY <2>4 DEF TypeOK, PeriodsRegular
  <2> HIDE DEF s, first
  <2>6. BatchDone(s)
    BY <2>2, <2>3, <2>4, <2>5, BatchPreserves
  <2>7. Len(run') <= Len(settlements')
    BY <2>1, <2>4, <2>6 DEF TypeOK, BatchDone
  <2>8. TypeOK'
    BY <2>1, <2>6, <2>7 DEF TypeOK, BatchDone
  <2>9. ViewIsCurrent'
    BY <2>1 DEF ViewIsCurrent
  <2> QED
    BY <2>6, <2>8, <2>9 DEF BatchDone
<1>3. CASE Reconcile
  <2>1. /\ run' = [i \in 1 .. Len(settlements) |-> Residual(settlements[i].credit)]
        /\ view' = {} /\ UNCHANGED <<settlements, pipeline, allocations>>
    BY <1>3 DEF Reconcile, TypeOK
  <2>2. \A i \in 1 .. Len(settlements) : Residual(settlements[i].credit) \in Int
    <3> TAKE i \in 1 .. Len(settlements)
    <3>0. settlements[i] \in Settlement
      BY DEF TypeOK
    <3>1. settlements[i].credit \in Credits
      BY <3>0 DEF Settlement
    <3> QED
      BY <3>1, WholeNumbers DEF Residual, Credits
  <2>3. run' \in Seq(Int) /\ Len(run') = Len(settlements)
    <3>1. Len(settlements) \in Nat
      BY DEF TypeOK
    <3> QED
      BY <2>1, <2>2, <3>1
  <2>4. TypeOK'
    BY <2>1, <2>3 DEF TypeOK
  <2>5. PeriodsRegular' /\ ViewIsCurrent'
    BY <2>1 DEF PeriodsRegular, ViewIsCurrent
  <2> QED
    BY <2>4, <2>5
<1>4. CASE Ask
  <2>1. run # <<>> /\ UNCHANGED <<settlements, pipeline, allocations, run>>
    BY <1>4 DEF Ask
  <2>2. PICK q \in Questions :
          \E v : view' = {v} /\ Returns(v, Forecast(default_as_of + q.offset, q.horizon))
    BY <1>4 DEF Ask, Returns
  <2>3. settlements # <<>>
    BY <2>1 DEF TypeOK
  <2>4. default_as_of + q.offset \in Int /\ q.horizon \in Int
    BY <2>3, LastEnd, ForecastAssumption DEF default_as_of
  <2>5. TypeOK' /\ PeriodsRegular'
    BY <2>1 DEF TypeOK, PeriodsRegular
  <2>6. ViewIsCurrent'
    BY <2>1, <2>2, <2>3, <2>4, ForecastOfTables DEF ViewIsCurrent
  <2> QED
    BY <2>5, <2>6
<1>5. CASE UNCHANGED vars
  <2>1. UNCHANGED <<settlements, pipeline, allocations, run>> /\ view' = view
    BY <1>5 DEF vars
  <2>2. TypeOK' /\ PeriodsRegular'
    BY <2>1 DEF TypeOK, PeriodsRegular
  <2>3. ViewIsCurrent'
    BY <2>1, ForecastOfTables DEF ViewIsCurrent
  <2> QED
    BY <2>2, <2>3
<1> QED
  BY <1>1, <1>2, <1>3, <1>4, <1>5 DEF Next

\* Every variable keeps its type, periods stay regular, and what a forecast shows is
\* what the tables of the moment give.
THEOREM TablesAndViewAgree == Spec => []IInv
<1> QED
  BY InitHolds, StepPreserves, PTL DEF Spec

\* A payment captured in a period is projected onto the day its period settles,
\* whatever the calendar and the cycle (generator/generate.py:176, engine/forecast.py).
THEOREM ProjectionIsRight == Spec => []ProjectionIsTheCalendar
<1>1. IInv => ProjectionIsTheCalendar
  <2> SUFFICES ASSUME IInv, NEW i \in DOMAIN settlements \ {1},
                      NEW day \in settlements[i].start .. settlements[i].end
               PROVE  projected_settlement_date(day) = settlements[i].date
    BY DEF ProjectionIsTheCalendar
  <2>1. Regular(settlements[i]) /\ settlements[i] \in Settlement
    BY DEF IInv, PeriodsRegular, TypeOK
  <2> DEFINE start == settlements[i].start
             end == settlements[i].end
  <2>2. start \in Int /\ end \in Int /\ day \in Int /\ end = rolled[start]
    BY <2>1 DEF Regular, Settlement
  <2>3. settlements[i].date = add_working_days(end, cycle_working_days)
    BY <2>1 DEF Regular
  <2> HIDE DEF start, end
  <2>4. IsNext(start, end)
    BY <2>2, RolledIsNext
  <2>5. IsNext(day, end) /\ IsNext(end, end)
    BY <2>2, <2>4 DEF IsNext, start, end
  <2>6. rolled[day] = end /\ rolled[end] = end
    BY <2>2, <2>5, RolledIsNext, NextIsUnique
  <2>7. add_working_days(day, cycle_working_days) = add_working_days(end, cycle_working_days)
    BY <2>2, <2>6, SameDayRolled, WholeNumbers
  <2> QED
    BY <2>3, <2>7 DEF projected_settlement_date
<1> QED
  BY <1>1, TablesAndViewAgree, PTL

-----------------------------------------------------------------------------
(* What a forecast is made of.                                             *)

AllLines(as_of) ==
    {SettlementLine(i) : i \in {j \in Open : ~IsOverdue(j, as_of)}}
    \cup {PipelineLine(p) : p \in pipeline}
    \cup {PayoutLine(a) : a \in {b \in allocations : ~IsOverduePayout(b, as_of)}}

Late(as_of) == {PayoutLine(a) : a \in {b \in allocations : IsOverduePayout(b, as_of)}}

\* v is a forecast of the tables: what it shows, part by part.
Shows(v) ==
    /\ v.as_of \in Int /\ v.horizon \in Nat \ {0}
    /\ v.last_day = add_working_days(v.as_of, v.horizon)
    /\ v.lines = {l \in AllLines(v.as_of) : v.as_of <= l.date /\ l.date <= v.last_day}
    /\ v.overdue = {SettlementLine(i) : i \in {j \in Open : IsOverdue(j, v.as_of)}}
    /\ v.overdue_payouts \in FirstOf(Late(v.as_of))
    /\ v.days = Days(v.lines, v.as_of, v.last_day)
    /\ v.inflow = Flow(v.lines, "IN") /\ v.outflow = Flow(v.lines, "OUT")
    /\ v.awaited = Bucket(v.lines, "settlement_awaited")
    /\ v.pipeline = Bucket(v.lines, "pipeline")
    /\ v.owed_late = [amount |-> Amount(Late(v.as_of)), count |-> Cardinality(Late(v.as_of))]

LEMMA ForecastShows ==
    ASSUME NEW as_of \in Int, NEW horizon \in Int,
           NEW v, Returns(v, Forecast(as_of, horizon))
    PROVE  Shows(v)
<1>1. Clamp(horizon) \in Nat \ {0}
  BY WholeNumbers DEF Clamp
<1> DEFINE f == Forecast(as_of, horizon)
           inside == {l \in AllLines(as_of) : as_of <= l.date /\ l.date <= f.last_day}
<1>2. /\ f.as_of = as_of /\ f.horizon = Clamp(horizon)
      /\ f.last_day = add_working_days(as_of, Clamp(horizon))
      /\ f.lines = AllLines(as_of)
      /\ f.overdue = {SettlementLine(i) : i \in {j \in Open : IsOverdue(j, as_of)}}
      /\ f.overdue_payouts = Late(as_of)
      /\ f.owed_late = [amount |-> Amount(Late(as_of)), count |-> Cardinality(Late(as_of))]
  BY DEF Forecast, AllLines, Late
<1>3. /\ f.days = Days(inside, as_of, f.last_day)
      /\ f.inflow = Flow(inside, "IN") /\ f.outflow = Flow(inside, "OUT")
      /\ f.awaited = Bucket(inside, "settlement_awaited")
      /\ f.pipeline = Bucket(inside, "pipeline")
  BY DEF Forecast, AllLines
<1>4. /\ {"as_of", "horizon", "last_day", "lines", "overdue", "overdue_payouts", "days",
          "inflow", "outflow", "awaited", "pipeline", "owed_late"} = DOMAIN f
  BY DEF Forecast
<1> HIDE DEF f
<1>5. PICK shown \in FirstOf(f.overdue_payouts) : v = to_dict(f, shown)
  BY DEF Returns, f
<1>6. /\ v.as_of = f.as_of /\ v.horizon = f.horizon /\ v.last_day = f.last_day
      /\ v.overdue = f.overdue /\ v.days = f.days /\ v.owed_late = f.owed_late
      /\ v.inflow = f.inflow /\ v.outflow = f.outflow
      /\ v.awaited = f.awaited /\ v.pipeline = f.pipeline
      /\ v.lines = {l \in f.lines : f.as_of <= l.date /\ l.date <= f.last_day}
      /\ v.overdue_payouts = shown
  BY <1>4, <1>5 DEF to_dict
<1>7. v.lines = inside
  BY <1>2, <1>6
<1> QED
  BY <1>1, <1>2, <1>3, <1>5, <1>6, <1>7 DEF Shows

LEMMA ViewShows == IInv => \A v \in view : Shows(v)
BY ForecastShows DEF IInv, ViewIsCurrent

\* A line is dated by a working day and says a whole amount of money.
Sound(l) == /\ l.date \in Int /\ is_working_day(l.date)
            /\ l.amount \in Int
            /\ l.direction \in {"IN", "OUT"}
            /\ l.direction = "IN" <=> l.bucket \in {"settlement_awaited", "pipeline"}

LEMMA DueIsWorkingDay ==
    ASSUME NEW d \in Int
    PROVE  credit_due_date(d) \in Int /\ is_working_day(credit_due_date(d))
<1>1. add_working_days(d, expected_lag_days) \in Int
  BY AddingIsInt, WholeNumbers
<1>2. IsNth(add_working_days(d, expected_lag_days), tolerance_days, credit_due_date(d))
  BY <1>1, AddingCounts, WholeNumbers DEF credit_due_date
<1> QED
  BY <1>2 DEF IsNth

LEMMA FundedIsWorkingDay ==
    ASSUME NEW d \in Int
    PROVE  FundedOn(d) \in Int /\ is_working_day(FundedOn(d))
<1>1. projected_settlement_date(d) \in Int
  BY AddingIsInt, WholeNumbers DEF projected_settlement_date
<1> QED
  BY <1>1, DueIsWorkingDay DEF FundedOn

LEMMA BpsIsInt ==
    ASSUME NEW paise \in Int, NEW rate \in Int
    PROVE  Bps(paise, rate) \in Int
<1>1. paise * rate \in Int /\ -paise * rate \in Int
  OBVIOUS
<1>2. (paise * rate + 5000) \div 10000 \in Int /\ (-paise * rate + 5000) \div 10000 \in Int
  BY <1>1
<1> QED
  BY <1>2 DEF Bps

LEMMA SettlementLineSound ==
    ASSUME TypeOK, NEW i \in Open PROVE Sound(SettlementLine(i))
<1>1. i \in 1 .. Len(run) /\ i \in 1 .. Len(settlements) /\ run[i] \in Int
  BY DEF Open, TypeOK
<1>2. settlements[i] \in Settlement
  BY <1>1 DEF TypeOK
<1>3. settlements[i].date \in Int
  BY <1>2 DEF Settlement
<1> QED
  BY <1>1, <1>3, DueIsWorkingDay DEF SettlementLine, Line, Sound

LEMMA PipelineLineSound ==
    ASSUME TypeOK, NEW p \in pipeline PROVE Sound(PipelineLine(p))
<1>1. p.day \in Int /\ p.amount \in Int /\ MdrBps[p.method] \in Int /\ GstBps \in Int
  BY ForecastAssumption, WholeNumbers DEF TypeOK, Payment
<1>2. Bps(p.amount, MdrBps[p.method]) \in Int
  BY <1>1, BpsIsInt
<1>3. Bps(Bps(p.amount, MdrBps[p.method]), GstBps) \in Int
  BY <1>1, <1>2, BpsIsInt
<1>4. p.amount - fee_after_policy(p.amount, p.method) \in Int
  BY <1>1, <1>2, <1>3 DEF fee_after_policy
<1> QED
  BY <1>1, <1>4, FundedIsWorkingDay DEF PipelineLine, Line, Sound

LEMMA PayoutLineSound ==
    ASSUME TypeOK, NEW a \in allocations PROVE Sound(PayoutLine(a))
<1>1. a.day \in Int /\ a.owed \in Int
  BY DEF TypeOK, Allocation
<1> QED
  BY <1>1, FundedIsWorkingDay DEF PayoutLine, Line, Sound

LEMMA LastDayAfter ==
    ASSUME NEW v, Shows(v)
    PROVE  /\ v.last_day \in Int /\ v.as_of <= v.last_day
           /\ is_working_day(v.last_day)
           /\ Cardinality(Working(v.as_of, v.last_day)) = v.horizon + 1
<1>1. v.as_of \in Int /\ v.horizon \in Nat /\ v.last_day = add_working_days(v.as_of, v.horizon)
  BY DEF Shows
<1>2. IsNth(v.as_of, v.horizon, v.last_day)
  BY <1>1, AddingCounts
<1> QED
  BY <1>2 DEF IsNth

-----------------------------------------------------------------------------
(* Nothing owed is dropped.                                                *)

\* A line says whose it is: the same subject, the same line.
LEMMA SubjectsDiffer ==
    ASSUME NEW i, NEW p, NEW a
    PROVE  /\ SettlementLine(i).subject # PipelineLine(p).subject
           /\ SettlementLine(i).subject # PayoutLine(a).subject
           /\ PipelineLine(p).subject # PayoutLine(a).subject
BY DEF SettlementLine, PipelineLine, PayoutLine, Line

IsALine(l) ==
    \/ \E i : l = SettlementLine(i)
    \/ \E p : l = PipelineLine(p)
    \/ \E a : l = PayoutLine(a)

LEMMA SubjectIsLine ==
    ASSUME NEW l, NEW m, IsALine(l), IsALine(m), l.subject = m.subject
    PROVE  l = m
<1>1. \A i, j : SettlementLine(i).subject = SettlementLine(j).subject => i = j
  BY DEF SettlementLine, Line
<1>2. \A p, q : PipelineLine(p).subject = PipelineLine(q).subject => p = q
  BY DEF PipelineLine, Line
<1>3. \A a, b : PayoutLine(a).subject = PayoutLine(b).subject => a = b
  BY DEF PayoutLine, Line
<1> QED
  BY <1>1, <1>2, <1>3, SubjectsDiffer DEF IsALine

\* Of the overdue payouts, those that are not shown are no larger than those that
\* are, and then as many are shown as there may be.
LEMMA CutIsFair ==
    ASSUME NEW late, IsFiniteSet(late), \A l \in late : l.amount \in Int,
           NEW shown \in FirstOf(late)
    PROVE  /\ shown \subseteq late
           /\ \A l \in late \ shown :
                 /\ Cardinality(shown) = max_payouts
                 /\ \A other \in shown : l.amount <= other.amount
<1>1. /\ shown \subseteq late
      /\ Cardinality(shown) = Min({max_payouts, Cardinality(late)})
      /\ \A l \in shown, m \in late \ shown : ~Ahead(m, l)
  BY DEF FirstOf
<1>2. ASSUME NEW l \in late \ shown PROVE Cardinality(shown) = max_payouts
  <2>1. Cardinality(late) \in Nat /\ max_payouts \in Nat
    BY FS_CardinalityType, WholeNumbers
  <2>2. Cardinality(shown) # Cardinality(late)
    BY <1>1, <1>2, FS_Subset
  <2>3. Min({max_payouts, Cardinality(late)}) \in {max_payouts, Cardinality(late)}
    <3> DEFINE n == Cardinality(late)
    <3>1. \E x \in {max_payouts, n} : \A y \in {max_payouts, n} : x =< y
      BY <2>1
    <3> HIDE DEF n
    <3> QED
      BY <3>1 DEF Min, n
  <2> QED
    BY <1>1, <2>2, <2>3
<1>3. ASSUME NEW l \in late \ shown, NEW other \in shown PROVE l.amount <= other.amount
  <2>1. ~(l.amount > other.amount)
    BY <1>1, <1>3 DEF Ahead
  <2>2. l.amount \in Int /\ other.amount \in Int
    BY <1>1, <1>3
  <2> QED
    BY <2>1, <2>2
<1> QED
  BY <1>1, <1>2, <1>3

LEMMA LateIsSound ==
    ASSUME TypeOK, NEW as_of \in Int
    PROVE  /\ Late(as_of) = {PayoutLine(a) : a \in {b \in allocations : PayoutLine(b).date < as_of}}
           /\ IsFiniteSet(Late(as_of))
           /\ \A l \in Late(as_of) : Sound(l) /\ l.date < as_of
<1> DEFINE those == {b \in allocations : IsOverduePayout(b, as_of)}
<1>1. \A a \in allocations : IsOverduePayout(a, as_of) <=> PayoutLine(a).date < as_of
  BY DEF IsOverduePayout, PayoutLine, Line
<1>2. Late(as_of) = {PayoutLine(a) : a \in {b \in allocations : PayoutLine(b).date < as_of}}
  BY <1>1 DEF Late
<1>3. IsFiniteSet(Late(as_of))
  <2>1. those \in SUBSET allocations
    OBVIOUS
  <2>2. IsFiniteSet(those)
    BY <2>1, FS_Subset DEF TypeOK
  <2> HIDE DEF those
  <2>3. [a \in those |-> PayoutLine(a)] \in Surjection(those, {PayoutLine(a) : a \in those})
    BY DEF Surjection
  <2>4. IsFiniteSet({PayoutLine(a) : a \in those})
    BY <2>2, <2>3, FS_Surjection
  <2> QED
    BY <2>4 DEF Late, those
<1>4. \A l \in Late(as_of) : Sound(l) /\ l.date < as_of
  BY <1>1, PayoutLineSound DEF Late
<1> QED
  BY <1>2, <1>3, <1>4

\* In every reachable state every amount that the tables owe by the end of the window is
\* returned once, in the window or as overdue, by its due date; a payout that the cut
\* leaves out is one of the smallest, and is in the total (engine/forecast.py:137-291).
THEOREM NothingIsDropped == Spec => []NothingDropped
<1>1. IInv => NothingDropped
  <2> SUFFICES ASSUME IInv, NEW v \in view
               PROVE
                 LET returned == v.lines \cup v.overdue \cup v.overdue_payouts
                     late == {PayoutLine(a) : a \in {b \in allocations : PayoutLine(b).date < v.as_of}}
                 IN  /\ \A i \in Open : SettlementLine(i).date <= v.last_day => SettlementLine(i) \in returned
                     /\ \A a \in allocations : PayoutLine(a).date <= v.last_day => PayoutLine(a) \in returned \cup late
                     /\ \A p \in pipeline : PipelineLine(p).date \in v.as_of .. v.last_day => PipelineLine(p) \in v.lines
                     /\ \A l \in late \ v.overdue_payouts :
                           /\ Cardinality(v.overdue_payouts) = max_payouts
                           /\ \A shown \in v.overdue_payouts : l.amount <= shown.amount
                     /\ v.owed_late = [amount |-> Amount(late), count |-> Cardinality(late)]
                     /\ v.overdue_payouts \subseteq late
                     /\ \A l \in v.overdue : l.date < v.as_of
                     /\ \A l \in v.lines : v.as_of <= l.date
                     /\ \A l, m \in returned : l.subject = m.subject => l = m
    BY DEF NothingDropped
  <2> DEFINE returned == v.lines \cup v.overdue \cup v.overdue_payouts
             late == {PayoutLine(a) : a \in {b \in allocations : PayoutLine(b).date < v.as_of}}
  <2>1. TypeOK /\ Shows(v)
    BY ViewShows DEF IInv
  <2>2. v.as_of \in Int /\ v.last_day \in Int /\ v.as_of <= v.last_day
    BY <2>1, LastDayAfter DEF Shows
  <2>3. /\ late = Late(v.as_of) /\ IsFiniteSet(late)
        /\ \A l \in late : Sound(l) /\ l.date < v.as_of
    BY <2>1, <2>2, LateIsSound
  <2>4. /\ v.overdue_payouts \subseteq late
        /\ \A l \in late \ v.overdue_payouts :
              /\ Cardinality(v.overdue_payouts) = max_payouts
              /\ \A shown \in v.overdue_payouts : l.amount <= shown.amount
    <3> HIDE DEF late
    <3>1. v.overdue_payouts \in FirstOf(late) /\ \A l \in late : l.amount \in Int
      BY <2>1, <2>3 DEF Shows, Sound
    <3> QED
      BY <2>3, <3>1, CutIsFair
  <2>5. v.owed_late = [amount |-> Amount(late), count |-> Cardinality(late)]
    BY <2>1, <2>3 DEF Shows
  <2>6. \A i \in Open : /\ SettlementLine(i).date = credit_due_date(settlements[i].date)
                        /\ SettlementLine(i).date \in Int
    BY <2>1, SettlementLineSound DEF SettlementLine, Line, Sound
  <2>7. \A l \in v.overdue : l.date < v.as_of
    BY <2>1, <2>2, <2>6 DEF Shows, IsOverdue
  <2>8. \A l \in v.lines : v.as_of <= l.date
    BY <2>1 DEF Shows
  <2>9. ASSUME NEW i \in Open, SettlementLine(i).date <= v.last_day
        PROVE  SettlementLine(i) \in returned
    <3>1. CASE IsOverdue(i, v.as_of)
      BY <2>1, <3>1 DEF Shows
    <3>2. CASE ~ IsOverdue(i, v.as_of)
      <4>1. SettlementLine(i) \in AllLines(v.as_of)
        BY <3>2 DEF AllLines
      <4>2. v.as_of <= SettlementLine(i).date
        BY <2>6, <3>2 DEF IsOverdue
      <4> QED
        BY <2>1, <2>9, <4>1, <4>2 DEF Shows
    <3> QED
      BY <3>1, <3>2
  <2>10. ASSUME NEW a \in allocations, PayoutLine(a).date <= v.last_day
         PROVE  PayoutLine(a) \in returned \cup late
    <3>1. PayoutLine(a).date \in Int /\ PayoutLine(a).date = FundedOn(a.day)
      BY <2>1, PayoutLineSound DEF Sound, PayoutLine, Line
    <3>2. CASE PayoutLine(a).date < v.as_of
      BY <3>2
    <3>3. CASE ~(PayoutLine(a).date < v.as_of)
      <4>1. PayoutLine(a) \in AllLines(v.as_of)
        BY <3>1, <3>3 DEF AllLines, IsOverduePayout
      <4>2. v.as_of <= PayoutLine(a).date
        BY <2>2, <3>1, <3>3
      <4> QED
        BY <2>1, <2>10, <4>1, <4>2 DEF Shows
    <3> QED
      BY <3>2, <3>3
  <2>11. ASSUME NEW p \in pipeline, PipelineLine(p).date \in v.as_of .. v.last_day
         PROVE  PipelineLine(p) \in v.lines
    <3>1. PipelineLine(p) \in AllLines(v.as_of)
      BY DEF AllLines
    <3>2. v.as_of <= PipelineLine(p).date /\ PipelineLine(p).date <= v.last_day
      BY <2>2, <2>11
    <3> QED
      BY <2>1, <3>1, <3>2 DEF Shows
  <2>12. \A l \in returned : IsALine(l)
    <3>1. \A l \in v.lines \cup v.overdue : IsALine(l)
      BY <2>1 DEF Shows, AllLines, IsALine
    <3>2. \A l \in late : IsALine(l)
      BY DEF IsALine
    <3> QED
      BY <2>4, <3>1, <3>2
  <2> HIDE DEF returned, late
  <2>13. \A l, m \in returned : l.subject = m.subject => l = m
    BY <2>12, SubjectIsLine
  <2> QED
    BY <2>4, <2>5, <2>7, <2>8, <2>9, <2>10, <2>11, <2>13 DEF returned, late
<1> QED
  BY <1>1, TablesAndViewAgree, PTL

-----------------------------------------------------------------------------
(* The sums of a forecast are sums over its lines.                         *)

LEMMA AmountIsSum ==
    ASSUME NEW f, NEW S, IsFiniteSet(S), \A l \in S : f[l] = l.amount
    PROVE  Amount(S) = SumFunctionOnSet(f, S)
<1> DEFINE Body(h) == [T \in SUBSET S |-> IF T = {} THEN 0
                                          ELSE Pick(T).amount + h[T \ {Pick(T)}]]
           g == CHOOSE h : h = Body(h)
<1>1. ASSUME NEW h PROVE h = Body(h) <=> Computes(h, f, SUBSET S)
  <2>1. \A T \in SUBSET S : T # {} => f[Pick(T)] = Pick(T).amount
    BY PickMember
  <2>2. Body(h) = [T \in SUBSET S |-> IF T = {} THEN 0 ELSE f[Pick(T)] + h[T \ {Pick(T)}]]
    BY <2>1
  <2> QED
    BY <2>2 DEF Computes
<1>2. \E h : h = Body(h)
  BY <1>1, ComputesExists
<1>3. g = Body(g)
  BY <1>2
<1>4. Computes(g, f, SUBSET S)
  BY <1>1, <1>3
<1>5. Amount(S) = g[S]
  BY DEF Amount, MapThenSumSet, MapThenFoldSet, Pick
<1> HIDE DEF g
<1>6. Sums(g, f, S)
  BY <1>4, ComputesSum
<1> QED
  BY <1>5, <1>6 DEF Sums

LEMMA NetsAreSummed ==
    ASSUME NEW days, NEW f, NEW S, IsFiniteSet(S), \A d \in S : f[d] = days[d].net
    PROVE  MapThenSumSet(LAMBDA d : days[d].net, S) = SumFunctionOnSet(f, S)
<1> DEFINE Body(h) == [T \in SUBSET S |-> IF T = {} THEN 0
                                          ELSE days[Pick(T)].net + h[T \ {Pick(T)}]]
           g == CHOOSE h : h = Body(h)
<1>1. ASSUME NEW h PROVE h = Body(h) <=> Computes(h, f, SUBSET S)
  <2>1. \A T \in SUBSET S : T # {} => f[Pick(T)] = days[Pick(T)].net
    BY PickMember
  <2>2. Body(h) = [T \in SUBSET S |-> IF T = {} THEN 0 ELSE f[Pick(T)] + h[T \ {Pick(T)}]]
    BY <2>1
  <2> QED
    BY <2>2 DEF Computes
<1>2. \E h : h = Body(h)
  BY <1>1, ComputesExists
<1>3. g = Body(g)
  BY <1>2
<1>4. Computes(g, f, SUBSET S)
  BY <1>1, <1>3
<1>5. MapThenSumSet(LAMBDA d : days[d].net, S) = g[S]
  BY DEF MapThenSumSet, MapThenFoldSet, Pick
<1> HIDE DEF g
<1>6. Sums(g, f, S)
  BY <1>4, ComputesSum
<1> QED
  BY <1>5, <1>6 DEF Sums

-----------------------------------------------------------------------------
(* The running balance.                                                    *)

\* r runs over the days a .. b and adds up F.
RunsOver(r, F, a, b) ==
    r = [d \in (a - 1) .. b |-> IF d < a THEN 0 ELSE r[d - 1] + F[d]]

LEMMA OneMoreDay ==
    ASSUME NEW a \in Int, NEW b \in Int, NEW F, IntegerOn(F, a .. b), NEW d \in a .. b
    PROVE  SumFunctionOnSet(F, a .. d) = SumFunctionOnSet(F, a .. (d - 1)) + F[d]
<1>1. IsFiniteSet(a .. d) /\ d \in a .. d /\ (a .. d) \ {d} = a .. (d - 1) /\ a .. d \subseteq a .. b
  <2>1. d \in a .. d /\ (a .. d) \ {d} = a .. (d - 1) /\ a .. d \subseteq a .. b /\ d \in Int
    OBVIOUS
  <2> QED
    BY <2>1, FS_Interval
<1>2. IntegerOn(F, a .. d) /\ IntegerOn(F, a .. (d - 1)) /\ IsFiniteSet(a .. (d - 1)) /\ F[d] \in Int
  BY <1>1, FS_Interval DEF IntegerOn
<1>3. SumFunctionOnSet(F, a .. d) = F[d] + SumFunctionOnSet(F, a .. (d - 1))
  BY <1>1, <1>2, SumRemove
<1>4. SumFunctionOnSet(F, a .. (d - 1)) \in Int
  BY <1>2, SumType
<1> QED
  BY <1>2, <1>3, <1>4

LEMMA RunsExist ==
    ASSUME NEW a \in Int, NEW b \in Int, NEW F, IntegerOn(F, a .. b)
    PROVE  \E r : RunsOver(r, F, a, b)
<1> DEFINE r == [d \in (a - 1) .. b |-> SumFunctionOnSet(F, a .. d)]
<1>1. ASSUME NEW d \in (a - 1) .. b
      PROVE  r[d] = IF d < a THEN 0 ELSE r[d - 1] + F[d]
  <2>1. CASE d < a
    <3>1. a .. d = {}
      BY <2>1
    <3> QED
      BY <2>1, <3>1, SumEmpty
  <2>2. CASE ~ (d < a)
    <3>1. d \in a .. b /\ d - 1 \in (a - 1) .. b
      BY <2>2
    <3> QED
      BY <2>2, <3>1, OneMoreDay
  <2> QED
    BY <2>1, <2>2
<1>2. r = [d \in (a - 1) .. b |-> r[d]]
  OBVIOUS
<1> HIDE DEF r
<1> QED
  BY <1>1, <1>2 DEF RunsOver

LEMMA RunIsSum ==
    ASSUME NEW a \in Int, NEW b \in Int, NEW F, IntegerOn(F, a .. b),
           NEW r, RunsOver(r, F, a, b), NEW d \in (a - 1) .. b
    PROVE  r[d] = SumFunctionOnSet(F, a .. d)
<1> DEFINE Bad == {n \in Nat : a - 1 + n \in (a - 1) .. b
                               /\ r[a - 1 + n] # SumFunctionOnSet(F, a .. (a - 1 + n))}
<1>0. \A e \in (a - 1) .. b : r[e] = IF e < a THEN 0 ELSE r[e - 1] + F[e]
  BY DEF RunsOver
<1>1. ASSUME NEW n \in Bad, \A m \in Bad : n <= m PROVE FALSE
  <2> DEFINE e == a - 1 + n
  <2>1. n \in Nat /\ e \in (a - 1) .. b /\ r[e] # SumFunctionOnSet(F, a .. e)
    OBVIOUS
  <2>2. CASE n = 0
    <3>1. e < a /\ a .. e = {}
      BY <2>2
    <3> QED
      BY <1>0, <2>1, <3>1, SumEmpty
  <2>3. CASE n # 0
    <3>1. n - 1 \in Nat /\ ~ (n <= n - 1) /\ a - 1 + (n - 1) = e - 1 /\ e - 1 \in (a - 1) .. b
      BY <2>1, <2>3
    <3>2. r[e - 1] = SumFunctionOnSet(F, a .. (e - 1))
      <4>1. n - 1 \notin Bad
        BY <1>1, <3>1
      <4> QED
        BY <3>1, <4>1
    <3>3. e \in a .. b /\ ~ (e < a)
      BY <2>1, <2>3
    <3> HIDE DEF e
    <3>4. SumFunctionOnSet(F, a .. e) = SumFunctionOnSet(F, a .. (e - 1)) + F[e]
      BY <3>3, OneMoreDay
    <3> QED
      BY <1>0, <2>1, <3>2, <3>3, <3>4
  <2> QED
    BY <2>1, <2>2, <2>3
<1>2. Bad = {}
  <2> HIDE DEF Bad
  <2>1. Bad \in SUBSET Nat
    BY DEF Bad
  <2> QED
    BY <1>1, <2>1, LeastNumber
<1>3. d - (a - 1) \in Nat /\ a - 1 + (d - (a - 1)) = d
  OBVIOUS
<1>4. d - (a - 1) \notin Bad
  BY <1>2
<1> QED
  BY <1>3, <1>4

-----------------------------------------------------------------------------
(* The days add up.                                                        *)

On(W, d) == {l \in W : l.date = d}
NetOf(W, as_of, last_day) ==
    [d \in as_of .. last_day |-> Flow(On(W, d), "IN") - Flow(On(W, d), "OUT")]
Balance(W, as_of, last_day) ==
    [d \in as_of .. last_day |-> IF is_working_day(d) THEN NetOf(W, as_of, last_day)[d] ELSE 0]

LEMMA AmountType ==
    ASSUME NEW S, IsFiniteSet(S), \A l \in S : Sound(l) PROVE Amount(S) \in Int
<1> DEFINE f == [l \in S |-> l.amount]
<1>1. IntegerOn(f, S) /\ \A l \in S : f[l] = l.amount
  BY DEF IntegerOn, Sound
<1> HIDE DEF f
<1> QED
  BY <1>1, AmountIsSum, SumType

LEMMA NetType ==
    ASSUME NEW W, IsFiniteSet(W), \A l \in W : Sound(l), NEW as_of \in Int, NEW last_day \in Int
    PROVE  /\ IntegerOn(NetOf(W, as_of, last_day), as_of .. last_day)
           /\ IntegerOn(Balance(W, as_of, last_day), as_of .. last_day)
<1>1. \A d, direction : Flow(On(W, d), direction) \in Int
  <2> TAKE d, direction
  <2>1. {l \in On(W, d) : l.direction = direction} \in SUBSET W
    BY DEF On
  <2>2. IsFiniteSet({l \in On(W, d) : l.direction = direction})
    BY <2>1, FS_Subset
  <2> QED
    BY <2>1, <2>2, AmountType DEF Flow
<1>2. IntegerOn(NetOf(W, as_of, last_day), as_of .. last_day)
  BY <1>1 DEF NetOf, IntegerOn
<1> QED
  BY <1>2 DEF Balance, IntegerOn

\* The columns are the working days of the window, each with its net and the balance.
LEMMA ColumnsAre ==
    ASSUME NEW W, IsFiniteSet(W), \A l \in W : Sound(l),
           NEW as_of \in Int, NEW last_day \in Int, NEW days, days = Days(W, as_of, last_day)
    PROVE  /\ DOMAIN days = Working(as_of, last_day)
           /\ \A d \in Working(as_of, last_day) :
                 /\ days[d].net = NetOf(W, as_of, last_day)[d]
                 /\ days[d].running = SumFunctionOnSet(Balance(W, as_of, last_day), as_of .. d)
<1> DEFINE net == NetOf(W, as_of, last_day)
           F == Balance(W, as_of, last_day)
           Body(r) == [d \in (as_of - 1) .. last_day |->
                          IF d < as_of THEN 0 ELSE r[d - 1] + (IF is_working_day(d) THEN net[d] ELSE 0)]
           r == CHOOSE h : h = Body(h)
<1>1. days = [d \in Working(as_of, last_day) |-> [net |-> net[d], running |-> r[d]]]
  BY DEF Days, NetOf, On, Working
<1>2. IntegerOn(F, as_of .. last_day)
  BY NetType
<1>3. ASSUME NEW h PROVE h = Body(h) <=> RunsOver(h, F, as_of, last_day)
  <2>1. \A d \in as_of .. last_day : F[d] = IF is_working_day(d) THEN net[d] ELSE 0
    BY DEF Balance
  <2>2. \A d \in (as_of - 1) .. last_day : ~ (d < as_of) => d \in as_of .. last_day
    OBVIOUS
  <2> HIDE DEF F, net
  <2>3. Body(h) = [d \in (as_of - 1) .. last_day |-> IF d < as_of THEN 0 ELSE h[d - 1] + F[d]]
    BY <2>1, <2>2
  <2> QED
    BY <2>3 DEF RunsOver
<1>4. \E h : h = Body(h)
  BY <1>2, <1>3, RunsExist
<1>5. r = Body(r)
  BY <1>4
<1>6. RunsOver(r, F, as_of, last_day)
  BY <1>3, <1>5
<1> HIDE DEF r, F, net
<1>7. \A d \in Working(as_of, last_day) : r[d] = SumFunctionOnSet(F, as_of .. d)
  <2>1. \A d \in Working(as_of, last_day) : d \in (as_of - 1) .. last_day
    BY DEF Working
  <2> QED
    BY <1>2, <1>6, <2>1, RunIsSum
<1> QED
  BY <1>1, <1>7 DEF F, net

\* The nets of the working days are the flows of the window, each line on its day.
LEMMA NetsAreFlows ==
    ASSUME NEW W, IsFiniteSet(W), \A l \in W : Sound(l), NEW as_of \in Int, NEW last_day \in Int,
           \A l \in W : as_of <= l.date /\ l.date <= last_day
    PROVE  /\ Flow(W, "IN") \in Int /\ Flow(W, "OUT") \in Int
           /\ SumFunctionOnSet(NetOf(W, as_of, last_day), Working(as_of, last_day))
                = Flow(W, "IN") - Flow(W, "OUT")
<1> DEFINE D == Working(as_of, last_day)
           net == NetOf(W, as_of, last_day)
           f == [l \in W |-> l.amount]
           k == [l \in W |-> l.date]
           Side(direction) == {l \in W : l.direction = direction}
           A(direction) == [d \in D |-> Flow(On(W, d), direction)]
<1>1. IsFiniteSet(D) /\ \A l \in W : k[l] \in D
  BY WorkingIsFinite DEF Working, Sound
<1>2. ASSUME NEW direction
      PROVE  /\ Flow(W, direction) \in Int /\ IntegerOn(A(direction), D)
             /\ SumFunctionOnSet(A(direction), D) = Flow(W, direction)
  <2>1. /\ IsFiniteSet(Side(direction)) /\ IntegerOn(f, Side(direction))
        /\ \A l \in Side(direction) : l \in W /\ f[l] = l.amount /\ k[l] \in D
    <3>1. Side(direction) \in SUBSET W
      OBVIOUS
    <3>2. IsFiniteSet(Side(direction))
      BY <3>1, FS_Subset
    <3>3. \A l \in W : f[l] = l.amount /\ l.amount \in Int
      BY DEF Sound
    <3> QED
      BY <1>1, <3>1, <3>2, <3>3 DEF IntegerOn
  <2>2. Flow(W, direction) = SumFunctionOnSet(f, Side(direction))
    <3> HIDE DEF f, k
    <3>1. Flow(W, direction) = Amount(Side(direction))
      BY DEF Flow
    <3> QED
      BY <2>1, <3>1, AmountIsSum
  <2>3. \A d \in D : A(direction)[d] = SumFunctionOnSet(f, ClassOf(k, Side(direction), d))
    <3> TAKE d \in D
    <3>1. {l \in On(W, d) : l.direction = direction} = ClassOf(k, Side(direction), d)
      BY DEF On, ClassOf
    <3>2. A(direction)[d] = Amount(ClassOf(k, Side(direction), d))
      BY <3>1 DEF Flow
    <3>3. /\ ClassOf(k, Side(direction), d) \in SUBSET Side(direction)
          /\ IsFiniteSet(ClassOf(k, Side(direction), d))
      <4>1. ClassOf(k, Side(direction), d) \in SUBSET Side(direction)
        BY DEF ClassOf
      <4> QED
        BY <2>1, <4>1, FS_Subset
    <3> HIDE DEF A, f, k
    <3> QED
      BY <2>1, <3>2, <3>3, AmountIsSum
  <2>4. Flow(W, direction) \in Int
    <3> HIDE DEF f, Side
    <3> QED
      BY <2>1, <2>2, SumType
  <2>5. IntegerOn(A(direction), D)
    <3>1. \A d \in D : IsFiniteSet(ClassOf(k, Side(direction), d))
                       /\ IntegerOn(f, ClassOf(k, Side(direction), d))
      <4> TAKE d \in D
      <4>1. ClassOf(k, Side(direction), d) \in SUBSET Side(direction)
        BY DEF ClassOf
      <4> HIDE DEF f, k, Side
      <4> QED
        BY <2>1, <4>1, FS_Subset DEF IntegerOn
    <3> HIDE DEF A, f, k, Side
    <3> QED
      BY <2>3, <3>1, SumType DEF IntegerOn
  <2>6. SumFunctionOnSet(A(direction), D) = SumFunctionOnSet(f, Side(direction))
    <3> HIDE DEF A, f, k, Side, D
    <3> QED
      BY <1>1, <2>1, <2>3, SumByClass
  <2> QED
    BY <2>2, <2>4, <2>5, <2>6
<1>3. \A d \in D : net[d] = A("IN")[d] - A("OUT")[d]
  BY DEF NetOf, Working
<1>4. /\ IntegerOn(A("IN"), D) /\ SumFunctionOnSet(A("IN"), D) = Flow(W, "IN")
      /\ IntegerOn(A("OUT"), D) /\ SumFunctionOnSet(A("OUT"), D) = Flow(W, "OUT")
      /\ Flow(W, "IN") \in Int /\ Flow(W, "OUT") \in Int
  <2> HIDE DEF A, D
  <2> QED
    BY <1>2
<1> HIDE DEF A, D, net
<1>5. SumFunctionOnSet(net, D) = SumFunctionOnSet(A("IN"), D) - SumFunctionOnSet(A("OUT"), D)
  BY <1>1, <1>3, <1>4, SumDifference
<1> QED
  BY <1>4, <1>5 DEF D, net

LEMMA LinesAreSound ==
    ASSUME TypeOK, NEW as_of
    PROVE  IsFiniteSet(AllLines(as_of)) /\ \A l \in AllLines(as_of) : Sound(l)
<1> DEFINE O == {j \in Open : ~IsOverdue(j, as_of)}
           P == {b \in allocations : ~IsOverduePayout(b, as_of)}
<1>1. IsFiniteSet(O)
  <2>1. O \in SUBSET (1 .. Len(run)) /\ Len(run) \in Nat
    BY DEF Open, TypeOK
  <2>2. IsFiniteSet(1 .. Len(run))
    BY <2>1, FS_Interval
  <2> QED
    BY <2>1, <2>2, FS_Subset
<1>2. IsFiniteSet(P)
  BY FS_Subset DEF TypeOK
<1> DEFINE A == {SettlementLine(i) : i \in O}
           B == {PipelineLine(p) : p \in pipeline}
           C == {PayoutLine(a) : a \in P}
<1>3. IsFiniteSet(A)
  <2> HIDE DEF O
  <2>1. [i \in O |-> SettlementLine(i)] \in Surjection(O, A)
    BY DEF Surjection
  <2> QED
    BY <1>1, <2>1, FS_Surjection
<1>4. IsFiniteSet(B)
  <2>1. [p \in pipeline |-> PipelineLine(p)] \in Surjection(pipeline, B)
    BY DEF Surjection
  <2> QED
    BY <2>1, FS_Surjection DEF TypeOK
<1>5. IsFiniteSet(C)
  <2> HIDE DEF P
  <2>1. [a \in P |-> PayoutLine(a)] \in Surjection(P, C)
    BY DEF Surjection
  <2> QED
    BY <1>2, <2>1, FS_Surjection
<1>6. AllLines(as_of) = (A \cup B) \cup C
  BY DEF AllLines
<1>7. \A l \in AllLines(as_of) : Sound(l)
  BY SettlementLineSound, PipelineLineSound, PayoutLineSound DEF AllLines
<1> HIDE DEF A, B, C
<1>8. IsFiniteSet(AllLines(as_of))
  BY <1>3, <1>4, <1>5, <1>6, FS_Union
<1> QED
  BY <1>7, <1>8

\* What comes in is what settlements still lack and what payments will bring.
LEMMA InflowByBucket ==
    ASSUME NEW W, IsFiniteSet(W), \A l \in W : Sound(l)
    PROVE  Flow(W, "IN") = Bucket(W, "settlement_awaited") + Bucket(W, "pipeline")
<1> DEFINE f == [l \in W |-> l.amount]
           In == {l \in W : l.direction = "IN"}
           S == {l \in W : l.bucket = "settlement_awaited"}
           P == {l \in W : l.bucket = "pipeline"}
<1>1. In = S \cup P /\ S \cap P = {} /\ In \in SUBSET W /\ S \in SUBSET W /\ P \in SUBSET W
  BY DEF Sound
<1>2. \A l \in W : f[l] = l.amount /\ f[l] \in Int
  BY DEF Sound
<1>3. Flow(W, "IN") = Amount(In) /\ Bucket(W, "settlement_awaited") = Amount(S)
      /\ Bucket(W, "pipeline") = Amount(P)
  BY DEF Flow, Bucket
<1> HIDE DEF f, In, S, P
<1>4. IsFiniteSet(In) /\ IsFiniteSet(S) /\ IsFiniteSet(P)
  BY <1>1, FS_Subset
<1>5. IntegerOn(f, S) /\ IntegerOn(f, P)
  BY <1>1, <1>2 DEF IntegerOn
<1>6. /\ Amount(In) = SumFunctionOnSet(f, In) /\ Amount(S) = SumFunctionOnSet(f, S)
      /\ Amount(P) = SumFunctionOnSet(f, P)
  BY <1>1, <1>2, <1>4, AmountIsSum
<1>7. SumFunctionOnSet(f, S \cup P) = SumFunctionOnSet(f, S) + SumFunctionOnSet(f, P)
  BY <1>1, <1>4, <1>5, SumUnion
<1> QED
  BY <1>1, <1>3, <1>6, <1>7

\* The balance of the last day is the sum of the nets: days off move nothing.
LEMMA BalanceIsNets ==
    ASSUME NEW W, IsFiniteSet(W), \A l \in W : Sound(l), NEW as_of \in Int, NEW last_day \in Int
    PROVE  SumFunctionOnSet(Balance(W, as_of, last_day), as_of .. last_day)
             = SumFunctionOnSet(NetOf(W, as_of, last_day), Working(as_of, last_day))
<1> DEFINE F == Balance(W, as_of, last_day)
           net == NetOf(W, as_of, last_day)
           D == Working(as_of, last_day)
           E == (as_of .. last_day) \ D
<1>1. IsFiniteSet(D) /\ IsFiniteSet(E) /\ as_of .. last_day = D \cup E /\ D \cap E = {}
  <2>1. IsFiniteSet(as_of .. last_day) /\ D \in SUBSET (as_of .. last_day)
        /\ E \in SUBSET (as_of .. last_day)
    BY FS_Interval DEF Working
  <2> QED
    BY <2>1, FS_Subset
<1>2. IntegerOn(net, as_of .. last_day) /\ IntegerOn(F, as_of .. last_day)
  BY NetType
<1>3. (\A d \in D : F[d] = net[d]) /\ (\A d \in E : F[d] = 0)
  BY DEF Balance, Working
<1> HIDE DEF F, net, D, E
<1>4. IntegerOn(F, D) /\ IntegerOn(F, E) /\ IntegerOn(net, D)
  BY <1>1, <1>2 DEF IntegerOn
<1>5. SumFunctionOnSet(F, D \cup E) = SumFunctionOnSet(F, D) + SumFunctionOnSet(F, E)
  BY <1>1, <1>4, SumUnion
<1>6. SumFunctionOnSet(F, E) = 0
  BY <1>1, <1>3, SumZero
<1>7. SumFunctionOnSet(F, D) = SumFunctionOnSet(net, D) /\ SumFunctionOnSet(net, D) \in Int
  BY <1>1, <1>3, <1>4, SumCongruent, SumType
<1>8. SumFunctionOnSet(F, D \cup E) = SumFunctionOnSet(net, D)
  BY <1>5, <1>6, <1>7
<1>9. SumFunctionOnSet(F, as_of .. last_day) = SumFunctionOnSet(net, D)
  BY <1>1, <1>8
<1> QED
  BY <1>9 DEF F, net, D

\* What a forecast of the tables shows on its days, before the invariant is used.
AddsUp(v) ==
    /\ v.inflow - v.outflow = MapThenSumSet(LAMBDA d : v.days[d].net, DOMAIN v.days)
    /\ v.inflow = v.awaited + v.pipeline
    /\ v.last_day \in DOMAIN v.days /\ v.days[v.last_day].running = v.inflow - v.outflow
    /\ Cardinality(DOMAIN v.days) = v.horizon + 1
    /\ \A l \in v.lines :
          working_days_between(v.as_of, l.date)
              = Cardinality({d \in DOMAIN v.days : v.as_of < d /\ d <= l.date})

LEMMA ShowsAddsUp ==
    ASSUME TypeOK, NEW v, Shows(v)
    PROVE  AddsUp(v)
<1> DEFINE W == v.lines
           a == v.as_of
           b == v.last_day
           net == NetOf(W, a, b)
<1>1. /\ a \in Int /\ b \in Int /\ a <= b /\ is_working_day(b)
      /\ Cardinality(Working(a, b)) = v.horizon + 1
  BY LastDayAfter DEF Shows
<1>2. IsFiniteSet(W) /\ \A l \in W : Sound(l) /\ a <= l.date /\ l.date <= b
  <2>1. W = {l \in AllLines(a) : a <= l.date /\ l.date <= b}
    BY DEF Shows
  <2>2. IsFiniteSet(AllLines(a)) /\ \A l \in AllLines(a) : Sound(l)
    BY LinesAreSound
  <2>3. W \in SUBSET AllLines(a)
    BY <2>1
  <2>4. IsFiniteSet(W)
    BY <2>2, <2>3, FS_Subset
  <2> QED
    BY <2>1, <2>2, <2>4
<1>3. v.days = Days(W, a, b) /\ v.inflow = Flow(W, "IN") /\ v.outflow = Flow(W, "OUT")
      /\ v.awaited = Bucket(W, "settlement_awaited") /\ v.pipeline = Bucket(W, "pipeline")
  BY DEF Shows
<1> HIDE DEF W, a, b
<1>4. /\ DOMAIN v.days = Working(a, b)
      /\ \A d \in Working(a, b) :
            /\ v.days[d].net = net[d]
            /\ v.days[d].running = SumFunctionOnSet(Balance(W, a, b), a .. d)
  BY <1>1, <1>2, <1>3, ColumnsAre
<1>5. /\ Flow(W, "IN") \in Int /\ Flow(W, "OUT") \in Int
      /\ SumFunctionOnSet(net, Working(a, b)) = Flow(W, "IN") - Flow(W, "OUT")
  BY <1>1, <1>2, NetsAreFlows
<1>6. v.inflow - v.outflow = MapThenSumSet(LAMBDA d : v.days[d].net, DOMAIN v.days)
  <2>1. IsFiniteSet(Working(a, b))
    BY <1>1, WorkingIsFinite
  <2>2. MapThenSumSet(LAMBDA d : v.days[d].net, DOMAIN v.days)
          = SumFunctionOnSet(net, DOMAIN v.days)
    <3> DEFINE days == v.days
    <3>1. IsFiniteSet(DOMAIN days) /\ \A d \in DOMAIN days : net[d] = days[d].net
      BY <1>4, <2>1
    <3> HIDE DEF days, net
    <3>2. MapThenSumSet(LAMBDA d : days[d].net, DOMAIN days) = SumFunctionOnSet(net, DOMAIN days)
      BY <3>1, NetsAreSummed
    <3> QED
      BY <3>2 DEF days
  <2> QED
    BY <1>3, <1>4, <1>5, <2>2
<1>7. v.inflow = v.awaited + v.pipeline
  BY <1>2, <1>3, InflowByBucket
<1>8. v.last_day \in DOMAIN v.days /\ v.days[v.last_day].running = v.inflow - v.outflow
  <2>1. b \in Working(a, b)
    BY <1>1 DEF Working
  <2>2. v.days[b].running = SumFunctionOnSet(net, Working(a, b))
    BY <1>1, <1>2, <1>4, <2>1, BalanceIsNets
  <2> QED
    BY <1>3, <1>4, <1>5, <2>1, <2>2 DEF b
<1>9. Cardinality(DOMAIN v.days) = v.horizon + 1
  BY <1>1, <1>4
<1>10. ASSUME NEW l \in v.lines
       PROVE  working_days_between(v.as_of, l.date)
                = Cardinality({d \in DOMAIN v.days : v.as_of < d /\ d <= l.date})
  <2>1. l.date \in Int /\ a <= l.date /\ l.date <= b
    BY <1>2 DEF W, Sound
  <2>2. {d \in Working(a, b) : a < d /\ d <= l.date} = {d \in (a + 1) .. l.date : is_working_day(d)}
    BY <1>1, <2>1 DEF Working
  <2>3. working_days_between(a, l.date) = Cardinality({d \in (a + 1) .. l.date : is_working_day(d)})
    BY <2>1 DEF working_days_between
  <2> QED
    BY <1>4, <2>2, <2>3 DEF a
<1> QED
  BY <1>6, <1>7, <1>8, <1>9, <1>10 DEF AddsUp

\* Whatever the calendar, the policy and the dataset: the columns of a forecast sum to
\* its totals, the balance of the last day is the net of the window, what comes in is
\* split by source without a rest, and there are as many columns as working days were
\* asked for (engine/forecast.py:238-290).
THEOREM DaysAlwaysAddUp == Spec => []DaysAddUp
<1>1. IInv => DaysAddUp
  <2>1. ASSUME IInv PROVE \A v \in view : AddsUp(v)
    <3>1. TypeOK /\ \A v \in view : Shows(v)
      BY <2>1, ViewShows DEF IInv
    <3> QED
      BY <3>1, ShowsAddsUp
  <2> QED
    BY <2>1 DEF DaysAddUp, AddsUp
<1> QED
  BY <1>1, TablesAndViewAgree, PTL
=============================================================================
