----------------------------- MODULE PlantedBank -----------------------------
(***************************************************************************)
(* Delta 2 from end to end.  The planters of bank lines work on a clean    *)
(* statement (generator/anomalies.py), the matcher sees the settlements    *)
(* and the lines that result and nothing else (engine/matcher.py), and its *)
(* outcome is diagnosed (engine/attribution.py: attribute_d2).  A          *)
(* statement of another origin is matched as it is.                        *)
(*                                                                         *)
(* The window is part of a larger dataset: a planter may find nothing in   *)
(* it.  A planter that claims a settlement and finds no line changes       *)
(* nothing, like one that does not pick it.                                *)
(***************************************************************************)
EXTENDS BankMatcher, WorkingCalendar, Sequences

CONSTANTS
    ExpectedLag,   \* policy.expected_lag_days
    CleanNets,     \* nets of the settlements of a clean book, in id order
    SettledOn,     \* settlement -> its date
    PeriodEnd,     \* settlement -> the day its period closes
    Noise          \* credit of a line that has nothing to do with a settlement

VARIABLES
    stage,         \* the planter that ran last
    tag,           \* line -> the settlement it is known to pay, or 0
    on_hold,       \* settlements that are ON_HOLD
    claimed_d12,
    truth          \* ground truth, each with the lines that hold the money

planting == <<stage, tag, on_hold, claimed_d12, truth>>
bankVars == <<vars, planting>>

\* Planters in the order they run, each with its count.
Plan == << <<"D2_TIMING_NEXT_DAY", 5>>, <<"D2_NARRATION_NO_UTR", 5>>, <<"D2_MERGED_CREDIT", 3>>,
           <<"D2_SPLIT_CREDIT", 2>>, <<"D2_SETTLEMENT_ON_HOLD", 2>>, <<"D2_SUFFIX_COLLISION", 1>>,
           <<"D2_SAME_AMOUNT_SAME_DAY", 1>>, <<"UNRESOLVABLE_AMBIGUOUS_CREDIT", 2>> >>
Persisted == Len(Plan) + 1
Elsewhere == Persisted + 1   \* a statement of another origin

Turn(type) ==
    LET k == CHOOSE i \in DOMAIN Plan : Plan[i][1] = type
    IN  /\ stage <= k
        /\ Cardinality({g.lines : g \in {h \in truth : h.type = type}}) < Plan[k][2]
        /\ stage' = k
-----------------------------------------------------------------------------
\* The clean book.  Reference <<s, t>> is one of s that ends like the one of t.

Reference(s, t) == <<s, t>>

\* What a line says beside its reference column: the whole reference, its tail,
\* or nothing that names a settlement.
Text(quotes, tails) == [quotes |-> quotes, tails |-> tails]
WholeText(utr) == Text({utr}, {TailOf[utr]})
TailText(utr) == Text({}, {TailOf[utr]})
Anonymous == Text({}, {})

Line(amount, date, utr, text) ==
    [credit |-> amount, date |-> date, utr |-> utr,
     quotes |-> text.quotes, tails |-> text.tails, resembles |-> {}]
NoLine == Line(0, 0, NoUtr, Anonymous)

\* A settlement that owes money has no credit, nor has one whose credit is in flight.
CleanLine(s, net, withheld, text) ==
    IF net <= 0 \/ s = withheld THEN NoLine
    ELSE Line(net, SettledOn[s] + ExpectedLag, Reference(s, s), text)

CleanSnapshot(nets, withheld, texts) ==
    [s |-> [s \in Settlement |-> [net |-> nets[s], date |-> SettledOn[s], utr |-> Reference(s, s)]],
     b |-> [b \in Bank |->
               IF b \in Settlement THEN CleanLine(b, nets[b], withheld, texts[b])
               ELSE IF b = NSettlement + 1 THEN Line(Noise, SettledOn[1], NoUtr, Anonymous)
               ELSE NoLine]]

CleanTexts ==
    {[s \in Settlement |-> WholeText(Reference(s, s))],
     [s \in Settlement |-> TailText(Reference(s, s))],
     [s \in Settlement |-> Anonymous]}

BankInit ==
    /\ \/ /\ \E nets \in CleanNets, withheld \in {0, NSettlement}, texts \in CleanTexts :
                snap = CleanSnapshot(nets, withheld, texts)
          /\ stage = 1
       \/ snap \in Snapshots /\ stage = Elsewhere
    /\ tag = [b \in Bank |->
                 IF stage = 1 /\ b \in Settlement /\ snap.b[b].credit > 0 THEN b ELSE 0]
    /\ on_hold = {} /\ claimed_d12 = {} /\ truth = {}
    /\ Unmatched
-----------------------------------------------------------------------------
\* The planters.

LinesOf(s) == {b \in Bank : tag[b] = s /\ snap.b[b].credit > 0}    \* _bank_for
Unclaimed == Settlement \ claimed_d12
Claim(ss) == ss \subseteq Unclaimed /\ claimed_d12' = claimed_d12 \cup ss
Untag(b) == tag' = [tag EXCEPT ![b] = 0]

\* A line that is appended gets the next id.
NextLine == Min({b \in Bank : b > NSettlement /\ snap.b[b].credit = 0})

Truth(type, s, expects, resolvable, lines) ==
    [type |-> type, settlement |-> s, expects |-> expects, resolvable |-> resolvable, lines |-> lines]
Record(rows) == truth' = truth \cup rows

\* A planter touches no result of the matcher.
Unmatching == UNCHANGED <<pass, cursor, decision, candidates>>

TimingNextDay(s, b) ==
    /\ Turn("D2_TIMING_NEXT_DAY") /\ Claim({s})
    /\ snap' = [snap EXCEPT !.b[b].date = add_working_days(snap.s[s].date, 1)]
    /\ Record({Truth("D2_TIMING_NEXT_DAY", s, "TIMING_DIFFERENCE", TRUE, {b})})
    /\ UNCHANGED <<tag, on_hold>>

\* The first ones stay inside the tolerance, the others are moved beyond it.
NarrationNoUtr(s, b, wide) ==
    /\ Turn("D2_NARRATION_NO_UTR") /\ Claim({s})
    /\ snap' = [snap EXCEPT !.b[b] =
           Line(@.credit, IF wide THEN snap.s[s].date + Tolerance + 2 ELSE @.date, NoUtr, Anonymous)]
    /\ Record({Truth("D2_NARRATION_NO_UTR", s, IF wide THEN "UTR_MISSING" ELSE "NONE", TRUE, {b})})
    /\ UNCHANGED <<tag, on_hold>>

\* One credit covers two settlements of different dates; the other line is gone.
MergedCredit(s, t, b, c) ==
    /\ Turn("D2_MERGED_CREDIT") /\ Claim({s, t})
    /\ snap.s[s].net > 0 /\ snap.s[t].net > 0
    /\ snap.s[s].date # snap.s[t].date /\ Within(snap.s[s].date, snap.s[t].date, DateWindow)
    /\ snap' = [snap EXCEPT
           !.b[b] = Line(snap.b[b].credit + snap.b[c].credit,
                         Max({snap.s[s].date, snap.s[t].date}), NoUtr, Anonymous),
           !.b[c] = NoLine]
    /\ Untag(b)
    /\ Record({Truth("D2_MERGED_CREDIT", x, "MERGED_BANK_CREDIT", TRUE, {b}) : x \in {s, t}})
    /\ UNCHANGED on_hold

SplitCredit(s, b) ==
    LET first == snap.b[b].credit \div 3
        part(amount) == Line(amount, snap.b[b].date, NoUtr, Anonymous)
    IN  /\ Turn("D2_SPLIT_CREDIT") /\ Claim({s})
        /\ snap.s[s].net > 20000
        /\ snap' = [snap EXCEPT !.b[b] = part(first), !.b[NextLine] = part(snap.b[b].credit - first)]
        /\ Untag(b)
        /\ Record({Truth("D2_SPLIT_CREDIT", s, "SPLIT_BANK_CREDIT", TRUE, {b, NextLine})})
        /\ UNCHANGED on_hold

\* The hold is planted also on a settlement without a line.
SettlementOnHold(s) ==
    /\ Turn("D2_SETTLEMENT_ON_HOLD") /\ Claim({s})
    /\ snap' = [s |-> [snap.s EXCEPT ![s].utr = NoUtr],
                b |-> [b \in Bank |-> IF b \in LinesOf(s) THEN NoLine ELSE snap.b[b]]]
    /\ on_hold' = on_hold \cup {s}
    /\ Record({Truth("D2_SETTLEMENT_ON_HOLD", s, "MISSING_BANK_CREDIT", TRUE, {})})
    /\ UNCHANGED tag

\* The second of a pair is moved to the date of the first, unless it would then be
\* settled before its period closes.
Movable(s, t) == s # t /\ snap.s[s].date >= PeriodEnd[t]

\* Only the first of the pair is in the ground truth.
SuffixCollision(s, t, b, c) ==
    LET utr == Reference(t, s)
        quoting(line) == [line EXCEPT !.utr = NoUtr, !.quotes = {}, !.tails = {TailOf[utr]}]
    IN  /\ Turn("D2_SUFFIX_COLLISION") /\ Movable(s, t) /\ Claim({s, t})
        /\ snap' = [s |-> [snap.s EXCEPT ![t].utr = utr, ![t].date = snap.s[s].date],
                    b |-> [snap.b EXCEPT ![b] = quoting(@),
                                         ![c] = [quoting(@) EXCEPT !.date = snap.b[b].date]]]
        /\ Record({Truth("D2_SUFFIX_COLLISION", s, "NONE", TRUE, {b})})
        /\ UNCHANGED <<tag, on_hold>>

\* The change of the second net is booked as an adjustment, so delta 1 stays clean.
SameAmountSameDay(s, t, b, c) ==
    LET net  == snap.s[s].net
        date == snap.s[s].date
    IN  /\ Turn("D2_SAME_AMOUNT_SAME_DAY") /\ Movable(s, t) /\ Claim({s, t})
        /\ net > 100000 /\ snap.s[t].net > 100000
        /\ snap' = [s |-> [snap.s EXCEPT ![t].net = net, ![t].date = date],
                    b |-> [snap.b EXCEPT ![b] = Line(net, date, NoUtr, Anonymous),
                                         ![c] = Line(net, date, NoUtr, Anonymous)]]
        /\ Record({Truth("D2_SAME_AMOUNT_SAME_DAY", x, "AMBIGUOUS_BANK_MATCH", TRUE, {}) : x \in {s, t}})
        /\ UNCHANGED <<tag, on_hold>>

AmbiguousCredit(s, b) ==
    LET line == Line(snap.s[s].net, snap.b[b].date, NoUtr, Anonymous)
    IN  /\ Turn("UNRESOLVABLE_AMBIGUOUS_CREDIT") /\ Claim({s})
        /\ snap.s[s].net > 50000
        /\ snap' = [snap EXCEPT !.b[b] = line, !.b[NextLine] = line]
        /\ Untag(b)
        /\ Record({Truth("UNRESOLVABLE_AMBIGUOUS_CREDIT", s, "AMBIGUOUS_BANK_MATCH", FALSE, {})})
        /\ UNCHANGED on_hold

Persist ==
    /\ stage < Persisted /\ stage' = Persisted
    /\ UNCHANGED <<snap, tag, on_hold, claimed_d12, truth>>

PlantNext ==
    /\ stage < Persisted
    /\ \/ \E s \in Settlement : \E b \in LinesOf(s) :
            \/ TimingNextDay(s, b) \/ SplitCredit(s, b) \/ AmbiguousCredit(s, b)
            \/ \E wide \in BOOLEAN : NarrationNoUtr(s, b, wide)
            \/ \E t \in Settlement \ {s} : \E c \in LinesOf(t) :
                 MergedCredit(s, t, b, c) \/ SuffixCollision(s, t, b, c) \/ SameAmountSameDay(s, t, b, c)
       \/ \E s \in Settlement : SettlementOnHold(s)
       \/ Persist
    /\ Unmatching

BankNext ==
    \/ PlantNext
    \/ stage >= Persisted /\ Next /\ UNCHANGED planting

BankSpec == BankInit /\ [][BankNext]_bankVars
-----------------------------------------------------------------------------
\* What delta 2 says of a settlement, once the matcher has returned.

Delta2(s) == Net[s] - matched_paise[s]
Lag(s, b) == snap.b[b].date - snap.s[s].date

\* Mutated form: timing is reported first.
Observed_TimingFirst(s) ==
    LET of == results[s]
        is(label, holds) == [label |-> label, holds |-> holds]
    IN  << is("TIMING_DIFFERENCE", \E b \in of.bank_ids : Lag(s, b) # ExpectedLag),
           is("AMOUNT_MISMATCH", Delta2(s) # 0),
           is("MERGED_BANK_CREDIT", of.pass_name = SUBSET_SUM_MERGED),
           is("SPLIT_BANK_CREDIT", of.pass_name = SUBSET_SUM_SPLIT),
           is("UTR_MISSING", of.pass_name \in {AMOUNT_WIDE_WINDOW, FUZZY_REFERENCE}),
           is("NONE", TRUE) >>

\* Of a settlement that is matched several things may be true: the most
\* consequential one is reported (_D2_PRIORITY).
Observed(s) ==
    LET of == results[s]
        is(label, holds) == [label |-> label, holds |-> holds]
    IN  << is("AMOUNT_MISMATCH", Delta2(s) # 0),
           is("MERGED_BANK_CREDIT", of.pass_name = SUBSET_SUM_MERGED),
           is("SPLIT_BANK_CREDIT", of.pass_name = SUBSET_SUM_SPLIT),
           is("UTR_MISSING", of.pass_name \in {AMOUNT_WIDE_WINDOW, FUZZY_REFERENCE}),
           is("TIMING_DIFFERENCE", \E b \in of.bank_ids : Lag(s, b) # ExpectedLag),
           is("NONE", TRUE) >>

Diagnosis2(label, tier, residual) == [label |-> label, tier |-> tier, residual |-> residual]

Diagnose2(s) ==
    LET matched == results[s].bank_ids # {}
        open == IF Delta2(s) # 0 THEN "C" ELSE results[s].tier
    IN  IF s \in on_hold THEN Diagnosis2("MISSING_BANK_CREDIT", "A", 0)
        ELSE IF matched
        THEN Diagnosis2(Head(SelectSeq(Observed(s), LAMBDA o : o.holds)).label, open, Delta2(s))
        ELSE IF results[s].is_ambiguous THEN Diagnosis2("AMBIGUOUS_BANK_MATCH", "C", Delta2(s))
        ELSE Diagnosis2("MISSING_BANK_CREDIT", IF Delta2(s) # 0 THEN "C" ELSE "A", Delta2(s))
-----------------------------------------------------------------------------
\* Properties.

\* The lines that hold a settlement's money, and what is to be said of it: the
\* defect under its name, and of money that is on the way or owed that it is missing.
PlantedOn(s) == {g \in truth : g.settlement = s}
Holding(s) == IF PlantedOn(s) = {} THEN LinesOf(s) ELSE UNION {g.lines : g \in PlantedOn(s)}
Expected(s) ==
    IF PlantedOn(s) # {} THEN {g.expects : g \in PlantedOn(s)}
    ELSE IF LinesOf(s) = {} THEN {"MISSING_BANK_CREDIT"} ELSE {"NONE"}

\* Whatever was planted on the lines beside it, a settlement gets the lines that hold
\* its money and no other, and delta 2 names what was done to it: nothing is left
\* when the money or its hold was found, only an amount in a wide window asks for a
\* review, and all of the net is left when it would be a guess or is not there
\* (anomalies.py:366-550, 745, attribution.py:209).
BankDefectsDiagnosed ==
    pass = RETURNED /\ stage = Persisted =>
        \A s \in Settlement :
            LET is == Diagnose2(s)
                found == Holding(s) # {} \/ s \in on_hold
            IN  /\ {is.label} = Expected(s)
                /\ results[s].bank_ids = Holding(s)
                /\ is.residual = IF found THEN 0 ELSE Net[s]
                /\ is.tier = IF ~found THEN "C" ELSE IF is.label = "UTR_MISSING" THEN "B" ELSE "A"
=============================================================================
