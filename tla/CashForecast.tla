----------------------------- MODULE CashForecast -----------------------------
(***************************************************************************)
(* The forward cash position of a run, over a dataset that ticks.  A tick  *)
(* closes periods, settles them, leaves payments that no settlement has    *)
(* picked up and lands the credit the tick before withheld; a run records  *)
(* what each settlement still lacks (delta 2); a forecast dates what is    *)
(* owed by the working-day calendar.                                       *)
(*                                                                         *)
(* Whether the last credit of a batch lacks, and how much, is chosen freely. *)
(***************************************************************************)
EXTENDS WorkingCalendar, Money, Sequences, FiniteSetsExt

CONSTANTS
    cycle_working_days, expected_lag_days, tolerance_days,
    MdrBps, GstBps,  \* fee by method, and the tax on it
    max_horizon,     \* working days a forecast may look ahead
    pipeline_days,   \* calendar days after a batch on which payments are left over
    FirstCutoff,     \* the day the first period of the dataset closes
    Net, Part,       \* what a settlement pays, and a part of it
    max_payouts,     \* overdue payouts that a forecast returns
    \* bounds of the instance: what a batch may be, how many there are, and what
    \* is asked for
    Cycles, MaxBatches, Questions

\* What the bank has of a settlement.
Credits == {"paid", "short", "over", "withheld", "lost"}

\* The policy counts in whole days and whole basis points, money is whole paise.
ASSUME ForecastAssumption ==
    /\ {cycle_working_days, expected_lag_days, tolerance_days} \subseteq Nat
    /\ max_horizon \in Nat \ {0} /\ max_payouts \in Nat
    /\ {pipeline_days, FirstCutoff, Net, Part, GstBps} \subseteq Int
    /\ \A method \in DOMAIN MdrBps : MdrBps[method] \in Int
    /\ \A c \in Cycles : /\ c.size \in Nat \ {0} /\ c.credit \in Credits
                        /\ c.sale.amount \in Int /\ c.sale.method \in DOMAIN MdrBps
                        /\ c.owed \in Int
    /\ \A q \in Questions : q.offset \in Int /\ q.horizon \in Int

VARIABLES
    settlements,  \* the settlements, each with its period, date and credit
    pipeline,     \* payments that are captured and in no settlement
    allocations,  \* shares of sellers that are pending
    run,          \* what delta 2 of the latest run says a settlement lacks
    view          \* the forecast shown last, if there is one

vars == <<settlements, pipeline, allocations, run, view>>

-----------------------------------------------------------------------------
(* The dataset.                                                            *)

Last(s) == s[Len(s)]

\* What the bank's credit of a settlement leaves missing of its net.
Residual(credit) ==
    CASE credit = "paid" -> 0
      [] credit = "short" -> Part
      [] credit = "over" -> -Part
      [] credit \in {"withheld", "lost"} -> Net

\* Periods end on consecutive working days, each begins where the last one ended.
Cutoff(first, i) == add_working_days(first, i - 1)
Periods(first, start, n, credit) ==
    [i \in 1 .. n |->
        [start |-> IF i = 1 THEN start ELSE Cutoff(first, i - 1) + 1,
         end   |-> Cutoff(first, i),
         date  |-> add_working_days(Cutoff(first, i), cycle_working_days),
         credit |-> IF i = n THEN credit ELSE "paid"]]

\* Payments captured after the last period, one a working day.
LeftOver(batch, last_end, sale) ==
    {[batch |-> batch, day |-> d, amount |-> sale.amount, method |-> sale.method] :
        d \in {e \in (last_end + 1) .. (last_end + pipeline_days) : is_working_day(e)}}

\* A batch after the settlements s: its periods, of which the last may lack its
\* credit or part of it, its left-over payments, and pending shares of sellers in
\* them or in a payment that its first period settled.
Batch(s, first, start, c) ==
    LET id == Len(s) + c.size
        new == Periods(first, start, c.size, c.credit)
        left == LeftOver(id, Last(new).end, c.sale)
        days == IF c.share = "settled" THEN {new[1].end} ELSE {p.day : p \in left}
    IN  /\ settlements' = s \o new
        /\ pipeline' = pipeline \cup left
        /\ allocations' = allocations \cup {[batch |-> id, day |-> d, owed |-> c.owed] : d \in days}

-----------------------------------------------------------------------------
Init ==
    /\ settlements = <<>>
    /\ pipeline = {}
    /\ allocations = {}
    /\ run = <<>>
    /\ view = {}

\* The first period of a dataset begins two calendar days before it closes.
Generate ==
    /\ settlements = <<>>
    /\ \E c \in Cycles : c.credit # "withheld" /\ Batch(<<>>, FirstCutoff, FirstCutoff - 2, c)
    /\ UNCHANGED <<run, view>>

Landed(s) == [i \in DOMAIN s |-> IF s[i].credit = "withheld" THEN [s[i] EXCEPT !.credit = "paid"] ELSE s[i]]

\* The next cycle, without the run that may follow it.
Tick ==
    /\ settlements # <<>>
    /\ Cardinality({p.batch : p \in pipeline}) < MaxBatches
    /\ LET first == Last(settlements).end + 1
       IN  \E c \in Cycles : Batch(Landed(settlements), first, first, c)
    /\ view' = {}
    /\ UNCHANGED run

Reconcile ==
    /\ settlements # <<>>
    /\ run' = [i \in DOMAIN settlements |-> Residual(settlements[i].credit)]
    /\ view' = {}
    /\ UNCHANGED <<settlements, pipeline, allocations>>

-----------------------------------------------------------------------------
(* The forecast: three sources, dated, then rolled up by day.              *)

\* Mutated form: the tolerance is counted in calendar days.
credit_due_date_Calendar(settlement_date) ==
    add_working_days(settlement_date, expected_lag_days) + tolerance_days

credit_due_date(settlement_date) ==
    add_working_days(add_working_days(settlement_date, expected_lag_days), tolerance_days)
projected_settlement_date(capture_day) == add_working_days(capture_day, cycle_working_days)
FundedOn(capture_day) == credit_due_date(projected_settlement_date(capture_day))

fee_after_policy(amount, method) ==
    LET fee == Bps(amount, MdrBps[method]) IN fee + Bps(fee, GstBps)

Line(date, direction, bucket, subject, amount) ==
    [date |-> date, direction |-> direction, bucket |-> bucket, subject |-> subject, amount |-> amount]

\* What delta 2 of the run left open, as long as there is a run.
Open == {i \in DOMAIN run : run[i] > 0}
SettlementLine(i) ==
    Line(credit_due_date(settlements[i].date), "IN", "settlement_awaited", <<"settlement", i>>, run[i])
\* Mutated form: due today is overdue.
IsOverdue_Today(i, as_of) == ~(as_of < credit_due_date(settlements[i].date))

IsOverdue(i, as_of) == ~(as_of <= credit_due_date(settlements[i].date))

PipelineLine(p) ==
    Line(FundedOn(p.day), "IN", "pipeline", <<"payment", p>>,
         p.amount - fee_after_policy(p.amount, p.method))

PayoutLine(a) == Line(FundedOn(a.day), "OUT", "seller_payout", <<"allocation", a>>, a.owed)
IsOverduePayout(a, as_of) == FundedOn(a.day) < as_of

Amount(lines) == MapThenSumSet(LAMBDA l : l.amount, lines)
Flow(lines, direction) == Amount({l \in lines : l.direction = direction})
Bucket(lines, bucket) == Amount({l \in lines : l.bucket = bucket})

\* Working days only, each with what moves on it and the balance so far.
Days(in_window, as_of, last_day) ==
    LET net[d \in as_of .. last_day] ==
            LET here == {l \in in_window : l.date = d}
            IN  Flow(here, "IN") - Flow(here, "OUT")
        running[d \in (as_of - 1) .. last_day] ==
            IF d < as_of THEN 0
            ELSE running[d - 1] + (IF is_working_day(d) THEN net[d] ELSE 0)
    IN  [d \in {e \in as_of .. last_day : is_working_day(e)} |-> [net |-> net[d], running |-> running[d]]]

Clamp(horizon) == IF horizon < 1 THEN 1 ELSE IF horizon > max_horizon THEN max_horizon ELSE horizon

\* What is built: every line, whenever it is due, and the totals over all of them.
Forecast(as_of, horizon) ==
    LET last_day == add_working_days(as_of, Clamp(horizon))
        lines == {SettlementLine(i) : i \in {j \in Open : ~IsOverdue(j, as_of)}}
                 \cup {PipelineLine(p) : p \in pipeline}
                 \cup {PayoutLine(a) : a \in {b \in allocations : ~IsOverduePayout(b, as_of)}}
        overdue == {SettlementLine(i) : i \in {j \in Open : IsOverdue(j, as_of)}}
        overdue_payouts == {PayoutLine(a) : a \in {b \in allocations : IsOverduePayout(b, as_of)}}
        in_window == {l \in lines : as_of <= l.date /\ l.date <= last_day}
    IN  [as_of |-> as_of, horizon |-> Clamp(horizon), last_day |-> last_day,
         lines |-> lines, overdue |-> overdue, overdue_payouts |-> overdue_payouts,
         days |-> Days(in_window, as_of, last_day),
         inflow |-> Flow(in_window, "IN"), outflow |-> Flow(in_window, "OUT"),
         awaited |-> Bucket(in_window, "settlement_awaited"),
         pipeline |-> Bucket(in_window, "pipeline"),
         owed_late |-> [amount |-> Amount(overdue_payouts), count |-> Cardinality(overdue_payouts)]]

\* The first of the overdue payouts, the largest ahead and, of equal ones, the one
\* captured first; the order of one day's is the database's.
Ahead(l, m) ==
    l.amount > m.amount \/ (l.amount = m.amount /\ l.subject[2].day < m.subject[2].day)
FirstOf(late) ==
    {shown \in SUBSET late :
        /\ Cardinality(shown) = Min({max_payouts, Cardinality(late)})
        /\ \A l \in shown, m \in late \ shown : ~Ahead(m, l)}

\* What is returned: the lines of the window, and the overdue payouts shown.
to_dict(f, shown) ==
    [f EXCEPT !.lines = {l \in f.lines : f.as_of <= l.date /\ l.date <= f.last_day},
              !.overdue_payouts = shown]

\* The book's own present, or a day the caller names.
default_as_of == Last(settlements).end + 1

Ask ==
    /\ run # <<>>
    /\ \E q \in Questions :
          LET f == Forecast(default_as_of + q.offset, q.horizon)
          IN  \E shown \in FirstOf(f.overdue_payouts) : view' = {to_dict(f, shown)}
    /\ UNCHANGED <<settlements, pipeline, allocations, run>>

Next == Generate \/ Tick \/ Reconcile \/ Ask
Spec == Init /\ [][Next]_vars

-----------------------------------------------------------------------------
(* Properties.                                                             *)

\* What is due by the end of the window comes back once: in the window, or as overdue,
\* which it is exactly when its due date is past (engine/forecast.py:137-224).  Only
\* the overdue payouts are cut (forecast.py:288-289): one that is not shown is no larger
\* than those that are, their number is the bound, and it is in the total and in the
\* count all the same.  A captured payment has no overdue list: once its day is past,
\* it comes back nowhere.
NothingDropped == \A v \in view :
    LET returned == v.lines \cup v.overdue \cup v.overdue_payouts
        late == {PayoutLine(a) : a \in {b \in allocations : PayoutLine(b).date < v.as_of}}
    IN  /\ \A i \in Open : SettlementLine(i).date <= v.last_day => SettlementLine(i) \in returned
        /\ \A a \in allocations : PayoutLine(a).date <= v.last_day => PayoutLine(a) \in returned \cup late
        /\ \A p \in pipeline : PipelineLine(p).date \in v.as_of .. v.last_day => PipelineLine(p) \in v.lines
        /\ \A l \in late \ v.overdue_payouts :
              /\ Cardinality(v.overdue_payouts) = max_payouts
              /\ \A shown \in v.overdue_payouts : l.amount <= shown.amount
        /\ v.owed_late = [amount |-> Amount(late), count |-> Cardinality(late)]
        /\ v.overdue_payouts \subseteq late
        /\ \A l \in v.overdue : l.date < v.as_of
        /\ \A l \in v.lines : v.as_of <= l.date
        /\ \A l, m \in returned : l.subject = m.subject => l = m

\* The days account for the totals: no line falls on a day that is not shown.  The
\* window holds the first working day and as many more as were asked for (where
\* tests/test_forecast.py:95 allows one less), and the days until a due date are the
\* columns up to it.
DaysAddUp == \A v \in view :
    /\ v.inflow - v.outflow = MapThenSumSet(LAMBDA d : v.days[d].net, DOMAIN v.days)
    /\ v.inflow = v.awaited + v.pipeline
    /\ v.last_day \in DOMAIN v.days /\ v.days[v.last_day].running = v.inflow - v.outflow
    /\ Cardinality(DOMAIN v.days) = v.horizon + 1
    /\ \A l \in v.lines :
          working_days_between(v.as_of, l.date)
              = Cardinality({d \in DOMAIN v.days : v.as_of < d /\ d <= l.date})

\* A payment captured in a period is projected onto the day the period settles
\* (generator/generate.py:176): the first period, which reaches back over a
\* weekend, excepted.
ProjectionIsTheCalendar == \A i \in DOMAIN settlements \ {1} :
    \A day \in settlements[i].start .. settlements[i].end :
        projected_settlement_date(day) = settlements[i].date
=============================================================================
