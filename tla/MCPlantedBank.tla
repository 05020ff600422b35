---------------------------- MODULE MCPlantedBank ----------------------------
(* Three settlements on consecutive working days: two of one week and one of the *)
(* next, and two settlements of another origin with three lines.                 *)
EXTENDS PlantedBank

MCUtr == Settlement \X Settlement
MCTailOf == [u \in MCUtr |-> u[2]]

\* 8, 9 and 12 January 2026: the 10th is a second Saturday.  Periods close two
\* working days before.
MCSettledOn == <<8, 9, 12>>
MCPeriodEnd == <<6, 7, 8>>

\* No net is the sum of others, and the last one owes money in one of the books.
MCCleanNets == { <<210000, 130000, 60000>>, <<130000, 210000, -4000>> }
-----------------------------------------------------------------------------
\* Statements of another origin.  The rows that are left over hold nothing.

u1 == Reference(1, 1)
u2 == Reference(2, 1)

TwoByThree(S, B) ==
    {[s |-> [x \in Settlement |-> IF x <= 2 THEN f[x] ELSE [net |-> 0, date |-> 0, utr |-> NoUtr]],
      b |-> [x \in Bank |-> IF x <= 3 THEN g[x] ELSE NoLine]] :
        f \in [1 .. 2 -> S], g \in [1 .. 3 -> B]}

SettlementRows(nets, dates, utrs) == [net : nets, date : dates, utr : utrs]

\* What one line may say of a reference: nothing, the reference in its own column,
\* in the narration (and so its tail), only the tail, or something similar.
Says(amount, date) ==
    {Line(amount, date, NoUtr, Anonymous), Line(amount, date, u1, Anonymous),
     Line(amount, date, NoUtr, WholeText(u1)), Line(amount, date, NoUtr, TailText(u1)),
     [Line(amount, date, NoUtr, Anonymous) EXCEPT !.resembles = {u1}]}

\* Lines of one amount: references alone decide.  Day 5 is outside the window of
\* every line.
ReferenceSnapshots ==
    TwoByThree(SettlementRows({1}, {0, 5}, {NoUtr, u1, u2}), Says(1, 1))

\* No reference: sums in both directions, a debit line, a settlement that pays
\* nothing, and lines too late for the tolerance.
SumSnapshots ==
    TwoByThree(SettlementRows({0}, {0}, {NoUtr}) \cup SettlementRows(1 .. 3, {0, 3}, {NoUtr}),
               {NoLine} \cup {Line(amount, date, NoUtr, Anonymous) : amount \in 1 .. 3, date \in {1, 5}})

MCSnapshots == ReferenceSnapshots \cup SumSnapshots
=============================================================================
