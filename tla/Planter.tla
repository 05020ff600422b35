------------------------------- MODULE Planter -------------------------------
(***************************************************************************)
(* How the generator breaks a clean book (generator/anomalies.py) and      *)
(* posts its ledger (generator/generate.py: generate_clean, build_ledger,  *)
(* build).  Each planter picks a settlement nobody has claimed, plants one *)
(* defect, repairs everything the defect must not disturb, and writes what *)
(* the engine should report as a row of ground truth.                      *)
(*                                                                         *)
(* The window is part of a larger dataset: what else a planter planted     *)
(* outside it does not show, so a planter may find nothing here.  `stage`  *)
(* is the planter that ran last; planters run in the order of Plan.        *)
(***************************************************************************)
EXTENDS SettlementDiagnosis

CONSTANTS
    Books,           \* clean books to start from
    Shortfalls,      \* amounts a random shortfall is drawn from
    LargePayment     \* smallest payment that is worth two partial refunds

\* A clean book holds whole numbers of paise, a method of the policy for every payment,
\* and refunds that are told apart by their id, which names the payment.
ASSUME BooksAssumption ==
    /\ NSettlement \in Nat /\ GstBps \in Nat /\ \A m \in DOMAIN MdrBps : MdrBps[m] \in Nat
    /\ \A book \in Books :
        /\ IsFiniteSet(DOMAIN book.payments)
        /\ \A p \in DOMAIN book.payments :
            book.payments[p].amount \in Int /\ book.payments[p].method \in DOMAIN MdrBps
        /\ IsFiniteSet(book.refunds) /\ IsFiniteSet(book.adjustments)
        /\ \A r \in book.refunds : r.amount \in Int /\ r.id = <<"R", r.payment, r.id[3]>>
        /\ \A q, r \in book.refunds : q.id = r.id => q = r
        /\ \A a \in book.adjustments : a.amount \in Int

VARIABLES
    credit,          \* settlement -> its own bank credit, 0 when it has none
    claimed,         \* claimed_d12: settlements with a delta 1 or 2 anomaly
    claimed3,        \* claimed_d3
    truth,           \* ground_truth_anomalies
    stage

tables == <<payments, refunds, adjustments, items, header, ledger>>
bookVars == <<tables, credit, claimed, claimed3, truth, stage>>

DriftedMdrBps == 250

\* Planters in the order they run, each with its count (PRE_LEDGER_PLAN,
\* LEDGER_PLAN).  Planters of bank lines are told apart by what they do to
\* the line a settlement owns; the transfers have planters of their own.
Plan == << <<"D1_FEE_RATE_DRIFT", 4>>, <<"D1_TAX_AGGREGATE_ROUNDING", 3>>,
           <<"D1_REFUND_NOT_DEDUCTED", 2>>, <<"D1_REFUND_PARTIAL_MULTI", 1>>,
           <<"D1_REFUND_OUTSIDE_PERIOD", 1>>, <<"D1_HEADER_ROLLUP_MISMATCH", 2>>,
           <<"D1_ADJUSTMENT_APPLIED", 3>>, <<"D1_FEE_CORRECTED_BY_ADJUSTMENT", 1>>,
           <<"D2_BANK_LINE", 19>>, <<"D2_SAME_AMOUNT_SAME_DAY", 2>>,
           <<"D4_ALLOC_EXCEEDS_PAYMENT", 2>>, <<"D4_ALLOC_TRANSFER_DIVERGENCE", 3>>,
           <<"D4_TRANSFER_MISSING", 2>>, <<"UNRESOLVABLE_PHANTOM_DEBIT", 3>>,
           <<"UNRESOLVABLE_AMBIGUOUS_CREDIT", 2>>, <<"UNRESOLVABLE_PHANTOM_PAYOUT_GAP", 2>>,
           <<"BUILD_LEDGER", 1>>,
           <<"D3_DUPLICATE_LEDGER", 3>>, <<"D3_MISSING_LEDGER", 2>>, <<"D3_WRONG_ACCOUNT", 2>>,
           <<"PERSIST", 1>> >>

Position(type) == CHOOSE k \in DOMAIN Plan : Plan[k][1] = type
Planted(type)  == {g \in truth : g.type = type}

\* It is the planter's turn, and the ledger is posted exactly once between
\* the planters that run before it and those that run after it.
Turn(type) ==
    LET k == Position(type)
    IN  /\ stage <= k /\ k < Position("PERSIST")
        /\ stage < Position("BUILD_LEDGER") => k < Position("BUILD_LEDGER")
        /\ Cardinality(Planted(type)) < Plan[k][2]
        /\ stage' = k

Truth(type, subject, s, kind, expects, amount, resolvable) ==
    [type |-> type, subject |-> subject, settlement |-> s, kind |-> kind,
     expects |-> expects, amount |-> amount, resolvable |-> resolvable]

\* Rows of the tables.  Ids of different tables differ, a payment's is its
\* number alone; Whole is the id of a settlement.
Whole(s) == <<"SET", s>>
Refund(p, n, amount, period) ==
    [id |-> <<"R", p, n>>, payment |-> p, amount |-> amount, period |-> period,
     status |-> "PROCESSED"]
Item(s, type, ref, amount, fee, tax) ==
    [settlement |-> s, type |-> type, ref |-> ref, amount |-> amount, fee |-> fee, tax |-> tax]
RefundItem(s, r) == Item(s, "REFUND", r.id, -r.amount, 0, 0)
Adjustment(s, n, type, amount, p) ==
    [id |-> <<"ADJ", s, n>>, settlement |-> s, type |-> type, amount |-> amount,
     payment |-> p, status |-> "APPLIED"]

Posting(group, account, direction, amount, p, s) ==
    IF amount <= 0 THEN {}
    ELSE {[group |-> group, account |-> account, direction |-> direction,
           amount |-> amount, payment |-> p, settlement |-> s]}
-----------------------------------------------------------------------------
\* The clean book.

PaymentItem(p, pay) ==
    LET fee == Bps(pay.amount, MdrBps[pay.method])
    IN  Item(pay.settlement, "PAYMENT", <<p>>, pay.amount, fee, Bps(fee, GstBps))

CleanPaymentItems(book) ==
    {PaymentItem(p, book.payments[p]) :
        p \in {q \in DOMAIN book.payments : book.payments[q].settlement \in Settlement}}

CleanItems(book) ==
    CleanPaymentItems(book)
    \cup {RefundItem(r.period, r) :
        r \in {q \in book.refunds : q.status = "PROCESSED" /\ q.period \in Settlement}}
    \cup {Item(a.settlement, "ADJUSTMENT", a.id, a.amount, 0, 0) : a \in book.adjustments}

\* What generate.py draws.  An amount is at least 19900 paise (schema.sql: above
\* zero), so a drifted rate takes a paisa or more from every card payment, and refunds
\* keep within their payment (INV-B2).  0 stands for no payment in an adjustment.
ASSUME DrawnAssumption ==
    /\ Shortfalls \subseteq Nat \ {0} /\ LargePayment \in Nat
    /\ \A book \in Books :
        /\ 0 \notin DOMAIN book.payments
        /\ \A p \in DOMAIN book.payments :
            /\ book.payments[p].amount > 0
            /\ book.payments[p].method = "CARD"
               => (DriftedMdrBps - MdrBps["CARD"]) * book.payments[p].amount >= 10000
        /\ \A r \in book.refunds : r.amount > 0

ASSUME RefundAssumption ==
    \A book \in Books : \A p \in DOMAIN book.payments :
        AmountSum({r \in book.refunds : r.payment = p /\ r.status = "PROCESSED"})
            <= book.payments[p].amount

\* Adjustments are numbered within their settlement.
ASSUME NumberAssumption ==
    \A book \in Books : \A a \in book.adjustments :
        /\ a.id = <<"ADJ", a.settlement, a.id[3]>>
        /\ a.id[3] \in 1 .. Cardinality({b \in book.adjustments : b.settlement = a.settlement})

\* The tax of the largest fee outweighs what rounding on the aggregated fee may take from it.
ASSUME RoundingAssumption ==
    \A book \in Books : \A s \in Settlement :
        LET its  == {i \in CleanPaymentItems(book) : i.settlement = s /\ i.fee > 0}
            diff == Bps(FeeSum(its), GstBps) - TaxSum(its)
        IN  \A i \in its : (\A j \in its : j.fee <= i.fee) => i.tax + diff >= 0

Init ==
    \E book \in Books :
        /\ payments = book.payments
        /\ refunds = book.refunds
        /\ adjustments = book.adjustments
        /\ items = CleanItems(book)
        /\ header = [s \in Settlement |-> Rollup(items, s)]
        /\ credit = [s \in Settlement |-> IF header[s].net > 0 THEN header[s].net ELSE 0]
        /\ ledger = {} /\ claimed = {} /\ claimed3 = {} /\ truth = {} /\ stage = 1
-----------------------------------------------------------------------------
\* What the planters of delta 1 share.

SyncBank(s, net) == IF credit[s] > 0 THEN [credit EXCEPT ![s] = net] ELSE credit

\* Mutated form: the bank credit is not kept in step.
SetHeader_NoSync(s, h) == /\ header' = [header EXCEPT ![s] = h]
                          /\ UNCHANGED credit

SetHeader(s, h) == /\ header' = [header EXCEPT ![s] = h]
                   /\ credit' = SyncBank(s, h.net)

\* Mutated form: the header is left as it was.
Itemise_NoRebuild(s, its) == /\ items' = its
                             /\ UNCHANGED <<header, credit>>

\* rebuild_header and sync_bank: the only defect is the one planted.
Itemise(s, its) == /\ items' = its
                   /\ SetHeader(s, Rollup(its, s))

ShortPay(s, amount) ==
    [header[s] EXCEPT !.net = @ - amount]

Claim(s) == /\ s \notin claimed
            /\ claimed' = claimed \cup {s}

\* The items of a set with the most in a column, whichever way it is signed.
Largest(its, column) == {i \in its : \A j \in its : Abs(j[column]) <= Abs(i[column])}

CardItems(s)  == {i \in PaymentItems(s) : payments[i.ref[1]].method = "CARD"}
RefundsOf(p)  == {r \in refunds : r.payment = p}
PartialRefund(p, n, rate, period) == Refund(p, n, Bps(payments[p].amount, rate), period)
-----------------------------------------------------------------------------
\* Delta 1: one planter per action.

Drift(i) ==
    LET fee == Bps(payments[i.ref[1]].amount, DriftedMdrBps)
    IN  [i EXCEPT !.fee = fee, !.tax = Bps(fee, GstBps)]
Excess(i) == (Drift(i).fee - i.fee) + (Drift(i).tax - i.tax)

FeeRateDrift(s) ==
    /\ Turn("D1_FEE_RATE_DRIFT") /\ Claim(s)
    /\ \E i \in Largest(CardItems(s), "amount") :
        /\ Itemise(s, (items \ {i}) \cup {Drift(i)})
        /\ truth' = truth \cup {Truth("D1_FEE_RATE_DRIFT", i.ref, s, "D1_COMPUTE",
                                      "FEE_RATE_MISMATCH", Excess(i), TRUE)}
    /\ UNCHANGED <<payments, refunds, adjustments, ledger, claimed3>>

TaxAggregateRounding(s) ==
    LET its  == {i \in PaymentItems(s) : i.fee > 0}
        diff == Bps(FeeSum(its), GstBps) - TaxSum(its)
    IN  /\ Turn("D1_TAX_AGGREGATE_ROUNDING") /\ Claim(s)
        /\ Cardinality(its) >= 2 /\ diff # 0
        /\ \E i \in Largest(its, "fee") :
            Itemise(s, (items \ {i}) \cup {[i EXCEPT !.tax = @ + diff]})
        /\ truth' = truth \cup {Truth("D1_TAX_AGGREGATE_ROUNDING", Whole(s), s, "D1_COMPUTE",
                                      "TAX_ROUNDING_MISMATCH", Abs(diff), TRUE)}
        /\ UNCHANGED <<payments, refunds, adjustments, ledger, claimed3>>

RefundNotDeducted(s) ==
    /\ Turn("D1_REFUND_NOT_DEDUCTED") /\ Claim(s)
    /\ \E i \in Largest(OfType(ItemsIn(items, s), "REFUND"), "amount") :
        /\ Itemise(s, items \ {i})
        /\ truth' = truth \cup {Truth("D1_REFUND_NOT_DEDUCTED", i.ref, s, "D1_COMPUTE",
                                      "REFUND_NOT_DEDUCTED", -i.amount, TRUE)}
    /\ UNCHANGED <<payments, refunds, adjustments, ledger, claimed3>>

RefundPartialMulti(s) ==
    /\ Turn("D1_REFUND_PARTIAL_MULTI") /\ Claim(s)
    /\ \E i \in PaymentItems(s) :
        LET p      == i.ref[1]
            first  == PartialRefund(p, 1, 2000, s)
            second == PartialRefund(p, 2, 1500, s)
        IN  /\ payments[p].amount > LargePayment /\ RefundsOf(p) = {}
            /\ refunds' = refunds \cup {first, second}
            /\ Itemise(s, items \cup {RefundItem(s, first)})
            /\ truth' = truth \cup {Truth("D1_REFUND_PARTIAL_MULTI", second.id, s, "D1_COMPUTE",
                                          "REFUND_NOT_DEDUCTED", second.amount, TRUE)}
    /\ UNCHANGED <<payments, adjustments, ledger, claimed3>>

\* The trap: a refund of the next period, itemised where it belongs.  The
\* settlement that receives it must be unclaimed, and is not claimed by this.
Trap(s, subject, r) ==
    Truth("D1_REFUND_OUTSIDE_PERIOD", subject, s, "D1_COMPUTE", "NONE", r.amount, TRUE)

NeverRefunded(s) == {i \in PaymentItems(s) : RefundsOf(i.ref[1]) = {}}

RefundOutsidePeriod(s, later) ==
    /\ Turn("D1_REFUND_OUTSIDE_PERIOD") /\ Claim(s)
    /\ later = s + 1 /\ later \notin claimed
    /\ \E i \in Largest(NeverRefunded(s), "amount") :
        LET r == PartialRefund(i.ref[1], 1, 4000, later)
        IN  /\ refunds' = refunds \cup {r}
            /\ Itemise(later, items \cup {RefundItem(later, r)})
            /\ truth' = truth \cup {Trap(s, r.id, r), Trap(later, Whole(later), r)}
    /\ UNCHANGED <<payments, adjustments, ledger, claimed3>>

\* The same, when the next settlement is outside the window.
RefundOutsideWindow(s) ==
    /\ Turn("D1_REFUND_OUTSIDE_PERIOD") /\ Claim(s)
    /\ s = NSettlement
    /\ \E i \in Largest(NeverRefunded(s), "amount") :
        LET r == PartialRefund(i.ref[1], 1, 4000, s + 1)
        IN  /\ refunds' = refunds \cup {r}
            /\ truth' = truth \cup {Trap(s, r.id, r)}
    /\ UNCHANGED <<payments, adjustments, items, header, credit, ledger, claimed3>>

HeaderRollupMismatch(s) ==
    /\ Turn("D1_HEADER_ROLLUP_MISMATCH") /\ Claim(s)
    /\ \E amount \in Shortfalls :
        /\ SetHeader(s, [ShortPay(s, amount) EXCEPT !.gross = @ - amount])
        /\ truth' = truth \cup {Truth("D1_HEADER_ROLLUP_MISMATCH", Whole(s), s, "D1_COMPUTE",
                                      "HEADER_ROLLUP_MISMATCH", amount, TRUE)}
    /\ UNCHANGED <<payments, refunds, adjustments, items, ledger, claimed3>>

NextAdjustment(s) == Cardinality({a \in adjustments : a.settlement = s}) + 1

AdjustmentApplied(s) ==
    /\ Turn("D1_ADJUSTMENT_APPLIED") /\ Claim(s)
    /\ \E amount \in Shortfalls :
        LET a == Adjustment(s, NextAdjustment(s), "CHARGEBACK", -amount, 0)
        IN  /\ adjustments' = adjustments \cup {a}
            /\ SetHeader(s, ShortPay(s, amount))
            /\ truth' = truth \cup {Truth("D1_ADJUSTMENT_APPLIED", a.id, s, "D1_COMPUTE",
                                          "ADJUSTMENT_UNEXPLAINED", amount, TRUE)}
    /\ UNCHANGED <<payments, refunds, items, ledger, claimed3>>

FeeCorrectedByAdjustment(s) ==
    /\ Turn("D1_FEE_CORRECTED_BY_ADJUSTMENT") /\ Claim(s)
    /\ \E i \in Largest(CardItems(s), "amount") :
        LET its       == (items \ {i}) \cup {Drift(i)}
            corrected == Excess(i) \div 2
        IN  /\ corrected > 0
            /\ items' = its
            /\ adjustments' = adjustments \cup
                   {Adjustment(s, NextAdjustment(s), "FEE_CORRECTION", corrected, i.ref[1])}
            /\ SetHeader(s, [Rollup(its, s) EXCEPT !.net = @ + corrected])
            /\ truth' = truth \cup {Truth("D1_FEE_CORRECTED_BY_ADJUSTMENT", i.ref, s, "D1_COMPUTE",
                                          "FEE_RATE_MISMATCH", Excess(i) - corrected, TRUE)}
    /\ UNCHANGED <<payments, refunds, ledger, claimed3>>

PhantomDebit(s) ==
    /\ Turn("UNRESOLVABLE_PHANTOM_DEBIT") /\ Claim(s)
    /\ \E amount \in Shortfalls :
        /\ SetHeader(s, ShortPay(s, amount))
        /\ truth' = truth \cup {Truth("UNRESOLVABLE_PHANTOM_DEBIT", Whole(s), s, "D1_COMPUTE",
                                      "UNEXPLAINED_SHORTFALL", amount, FALSE)}
    /\ UNCHANGED <<payments, refunds, adjustments, items, ledger, claimed3>>
-----------------------------------------------------------------------------
\* Delta 2, as far as it touches what deltas 1 and 3 read.

\* Timing, narration and suffix planters keep the line; merged, split, on-hold
\* and ambiguous ones take it from a settlement that has one.
BankLine(s, type) ==
    /\ Turn(type) /\ Claim(s)
    /\ \/ UNCHANGED credit
       \/ credit[s] > 0 /\ credit' = [credit EXCEPT ![s] = 0]
    /\ UNCHANGED <<tables, claimed3, truth>>

\* b is given the net of a, with an itemised adjustment that absorbs it.
SameAmountSameDay(a, b) ==
    LET diff == header[a].net - header[b].net
        adj  == Adjustment(b, NextAdjustment(b), "MANUAL", diff, 0)
    IN  /\ Turn("D2_SAME_AMOUNT_SAME_DAY")
        /\ a # b /\ {a, b} \cap claimed = {} /\ claimed' = claimed \cup {a, b}
        /\ \A x \in {a, b} : credit[x] > 0 /\ header[x].net > 100000
        /\ adjustments' = IF diff = 0 THEN adjustments ELSE adjustments \cup {adj}
        /\ items' = IF diff = 0 THEN items
                    ELSE items \cup {Item(b, "ADJUSTMENT", adj.id, diff, 0, 0)}
        /\ header' = [header EXCEPT ![b].net = header[a].net, ![b].adjustment = @ + diff]
        /\ credit' = [credit EXCEPT ![a] = header[a].net, ![b] = header[a].net]
        /\ truth' = truth \cup {Truth("D2_SAME_AMOUNT_SAME_DAY", Whole(x), x, "D2_BANK",
                                      "AMBIGUOUS_BANK_MATCH", header[a].net, TRUE) : x \in {a, b}}
        /\ UNCHANGED <<payments, refunds, ledger, claimed3>>
-----------------------------------------------------------------------------
\* The ledger, posted from the final state of payments and refunds.

ProcessedRefunds(p) == {r \in RefundsOf(p) : r.status = "PROCESSED"}

\* Mutated form: fee and tax are posted as policy has them, not as they were charged.
SettlementPosting_Policy(p) ==
    LET s     == payments[p].settlement
        g     == <<"settlement", p, 0>>
        gross == payments[p].amount - AmountSum(ProcessedRefunds(p))
        net   == gross - PolicyFee(p) - PolicyTax(p)
    IN  Posting(g, "BANK", IF net >= 0 THEN "DR" ELSE "CR", Abs(net), p, s)
        \cup Posting(g, "GATEWAY_FEES", "DR", PolicyFee(p), p, s)
        \cup Posting(g, "INPUT_GST", "DR", PolicyTax(p), p, s)
        \cup Posting(g, "RAZORPAY_CLEARING", "CR", gross, p, s)

\* The settlement posting nets the lifetime refunds of the payment, so that
\* clearing ends at zero; the bank leg flips when they swallow the net.
SettlementPosting(p) ==
    LET i     == CHOOSE j \in items : j.ref = <<p>> /\ j.type = "PAYMENT"
        s     == payments[p].settlement
        g     == <<"settlement", p, 0>>
        gross == payments[p].amount - AmountSum(ProcessedRefunds(p))
        net   == gross - i.fee - i.tax
    IN  Posting(g, "BANK", IF net >= 0 THEN "DR" ELSE "CR", Abs(net), p, s)
        \cup Posting(g, "GATEWAY_FEES", "DR", i.fee, p, s)
        \cup Posting(g, "INPUT_GST", "DR", i.tax, p, s)
        \cup Posting(g, "RAZORPAY_CLEARING", "CR", gross, p, s)

PaymentPostings(p) ==
    Posting(<<"capture", p, 0>>, "RAZORPAY_CLEARING", "DR", payments[p].amount, p, 0)
    \cup Posting(<<"capture", p, 0>>, "SALES", "CR", payments[p].amount, p, 0)
    \cup (UNION {Posting(<<"refund", r.id, 0>>, "REFUNDS", "DR", r.amount, p, 0)
                 \cup Posting(<<"refund", r.id, 0>>, "RAZORPAY_CLEARING", "CR", r.amount, p, 0) :
                     r \in ProcessedRefunds(p)})
    \cup SettlementPosting(p)

\* A refund of a payment that an earlier batch settled and closed.
LatePostings(r) ==
    Posting(<<"late", r.id, 0>>, "REFUNDS", "DR", r.amount, r.payment, r.period)
    \cup Posting(<<"late", r.id, 0>>, "BANK", "CR", r.amount, r.payment, r.period)

BuildLedger ==
    LET own == {p \in DOMAIN payments : payments[p].settlement \in Settlement}
    IN  /\ stage < Position("BUILD_LEDGER")
        /\ stage' = Position("BUILD_LEDGER")
        /\ ledger' = (UNION {PaymentPostings(p) : p \in own})
                     \cup (UNION {LatePostings(r) :
                            r \in {q \in refunds : /\ q.payment \notin own
                                                   /\ q.status = "PROCESSED"
                                                   /\ q.period \in Settlement}})
        /\ UNCHANGED <<payments, refunds, adjustments, items, header, credit, claimed, claimed3, truth>>
-----------------------------------------------------------------------------
\* Delta 3: on settlements that no delta 1 or 2 anomaly holds.

Claim3(s) == /\ s \notin claimed \cup claimed3
             /\ claimed3' = claimed3 \cup {s}

SettlementGroups(s) ==
    {g \in {e.group : e \in {f \in ledger : f.settlement = s}} : g[1] = "settlement"}

\* Groups are numbered in the order of their payments.
Rank(g, groups) == Cardinality({h \in groups : h[2] < g[2]})

DuplicateLedger(s) ==
    LET groups == SettlementGroups(s)
    IN  /\ Turn("D3_DUPLICATE_LEDGER") /\ Claim3(s)
        /\ \E g \in groups :
            LET copy == [g EXCEPT ![3] = 1]
            IN  /\ Rank(g, groups) = Cardinality(groups) \div 2
                /\ ledger' = ledger \cup {[e EXCEPT !.group = copy] :
                                              e \in {f \in ledger : f.group = g}}
                /\ truth' = truth \cup {Truth("D3_DUPLICATE_LEDGER", copy, s, "D3_LEDGER",
                                "DUPLICATE_LEDGER_ENTRY", GroupClearing(g), TRUE)}
        /\ UNCHANGED <<payments, refunds, adjustments, items, header, credit, claimed>>

MissingLedger(s) ==
    LET groups == SettlementGroups(s)
    IN  /\ Turn("D3_MISSING_LEDGER") /\ Claim3(s)
        /\ \E g \in groups :
            /\ Rank(g, groups) = 0
            /\ ledger' = {e \in ledger : e.group # g}
            /\ truth' = truth \cup {Truth("D3_MISSING_LEDGER", g, s, "D3_LEDGER",
                            "MISSING_LEDGER_ENTRY", GroupClearing(g), TRUE)}
        /\ UNCHANGED <<payments, refunds, adjustments, items, header, credit, claimed>>

WrongAccount(s) ==
    LET legs == {e \in Entries("GATEWAY_FEES", "DR") : e.settlement = s}
    IN  /\ Turn("D3_WRONG_ACCOUNT") /\ Claim3(s)
        /\ \E e \in legs :
            /\ \A f \in legs : e.payment <= f.payment
            /\ ledger' = (ledger \ {e}) \cup {[e EXCEPT !.account = "SALES"]}
            /\ truth' = truth \cup {Truth("D3_WRONG_ACCOUNT", e.group, s, "D3_LEDGER",
                            "MISPOSTED_ACCOUNT", e.amount, TRUE)}
        /\ UNCHANGED <<payments, refunds, adjustments, items, header, credit, claimed>>
-----------------------------------------------------------------------------
\* The database takes the book, or refuses it.

\* db/schema.sql:230-237: no amount is negative.  A credit of zero, which one_sided
\* refuses, is not told apart from no line here, and is let through.
Storable == \A s \in Settlement : credit[s] >= 0

Persist ==
    /\ stage \in Position("BUILD_LEDGER") .. Position("PERSIST") - 1
    /\ Storable
    /\ stage' = Position("PERSIST")
    /\ UNCHANGED <<tables, credit, claimed, claimed3, truth>>

BookNext ==
    \/ \E s \in Settlement :
        \/ FeeRateDrift(s) \/ TaxAggregateRounding(s) \/ RefundNotDeducted(s)
        \/ RefundPartialMulti(s) \/ RefundOutsideWindow(s) \/ HeaderRollupMismatch(s)
        \/ AdjustmentApplied(s) \/ FeeCorrectedByAdjustment(s) \/ PhantomDebit(s)
        \/ BankLine(s, "D2_BANK_LINE") \/ BankLine(s, "UNRESOLVABLE_AMBIGUOUS_CREDIT")
        \/ DuplicateLedger(s) \/ MissingLedger(s) \/ WrongAccount(s)
        \/ \E x \in Settlement : RefundOutsidePeriod(s, x) \/ SameAmountSameDay(s, x)
    \/ BuildLedger \/ Persist
-----------------------------------------------------------------------------
\* Properties.

Done == stage = Position("PERSIST")

\* A defect of delta 1 makes none of delta 2: a line a settlement owns is its
\* net, whatever was planted (sync_bank).
BankInStep ==
    \A s \in Settlement : credit[s] > 0 => credit[s] = header[s].net

\* Only a settlement that was claimed for it has a header its items do not add
\* up to (rebuild_header: no incidental rollup mismatch).
HeadersRollUp ==
    \A s \in Settlement \ claimed : header[s] = Rollup(items, s)
=============================================================================
