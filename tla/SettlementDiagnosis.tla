------------------------- MODULE SettlementDiagnosis -------------------------
(***************************************************************************)
(* What the engine says of a settlement: delta 1 (is the net what policy   *)
(* and the source records make of it?) and delta 3 (do the merchant's own  *)
(* books agree?), with their attributions, residual and tier               *)
(* (engine/calculation.py, attribution.py, invariants.py).                 *)
(*                                                                         *)
(* The variables are the tables the engine reads, for a window of          *)
(* consecutive settlements of one dataset.  Periods tile the calendar      *)
(* (generator/generate.py:176), so a date is the number of the settlement  *)
(* whose period contains it; dates before or after the window are numbers  *)
(* outside Settlement.  TRANSFER items belong to delta 4 and are left out, *)
(* as both deltas here leave them out.  No item dangles, so none is        *)
(* excluded (calculation.py:50-52): the generator writes an item with its  *)
(* record and removes it with it (generator/anomalies.py:718).  The schema *)
(* itself has a foreign key on the settlement of an item only.             *)
(***************************************************************************)
EXTENDS Money, Sequences, FiniteSets, FiniteSetsExt

CONSTANTS
    NSettlement,       \* settlements in the window
    MdrBps,            \* POLICY.MDR: method -> basis points
    GstBps             \* POLICY.TAX.GST_ON_FEE

VARIABLES
    payments,     \* id -> what was captured, and the settlement that pays it
    refunds, adjustments, items,
    header,       \* settlement -> its rollup and net
    ledger        \* double-entry postings

Settlement == 1 .. NSettlement

\* Sums of one column of a set of rows.
AmountSum(rows) == MapThenSumSet(LAMBDA row : row.amount, rows)
FeeSum(rows)    == MapThenSumSet(LAMBDA row : row.fee, rows)
TaxSum(rows)    == MapThenSumSet(LAMBDA row : row.tax, rows)

ItemsIn(its, s) == {i \in its : i.settlement = s}
OfType(rows, t) == {i \in rows : i.type = t}

\* The header that a set of items adds up to.
Rollup(its, s) ==
    LET mine   == ItemsIn(its, s)
        gross  == AmountSum(OfType(mine, "PAYMENT"))
        refund == -AmountSum(OfType(mine, "REFUND"))
        fee    == FeeSum(mine)
        tax    == TaxSum(mine)
        adj    == AmountSum(OfType(mine, "ADJUSTMENT"))
    IN  [gross |-> gross, refund |-> refund, fee |-> fee, tax |-> tax,
         adjustment |-> adj, net |-> gross - refund - fee - tax + adj]
-----------------------------------------------------------------------------
\* Delta 1.

PolicyFee(p) == Bps(payments[p].amount, MdrBps[payments[p].method])
PolicyTax(p) == Bps(PolicyFee(p), GstBps)

PaymentItems(s)   == OfType(ItemsIn(items, s), "PAYMENT")
Itemised(s, type) == {i.ref : i \in OfType(ItemsIn(items, s), type)}
PolicyFees(s)     == MapThenSumSet(LAMBDA i : PolicyFee(i.ref[1]), PaymentItems(s))
PolicyTaxes(s)    == MapThenSumSet(LAMBDA i : PolicyTax(i.ref[1]), PaymentItems(s))

\* Mutated form: the gate looks at the settlement, not at its period.
InPeriodRefunds_NextToo(s) ==
    {r \in refunds : r.status = "PROCESSED" /\ r.period \in {s, s + 1}}

\* The period gate: a refund belongs to the settlement whose period has it.
InPeriodRefunds(s) == {r \in refunds : r.status = "PROCESSED" /\ r.period = s}

ExpectedNet(s) ==
    LET its == Rollup(items, s)
    IN  its.gross - AmountSum(InPeriodRefunds(s)) - PolicyFees(s) - PolicyTaxes(s)
        + its.adjustment

Delta1(s) == ExpectedNet(s) - header[s].net

\* Gaps are charged minus policy, and items minus header.
FeeGap(i) == i.fee - PolicyFee(i.ref[1])
TaxGap(i) == i.tax - PolicyTax(i.ref[1])

RollupGap(s) ==
    LET its == Rollup(items, s)
    IN  (its.gross - header[s].gross) + (its.adjustment - header[s].adjustment)

TaxIsMethodError(s) ==
    LET gap == Rollup(items, s).tax - PolicyTaxes(s)
    IN  /\ Rollup(items, s).fee = PolicyFees(s)
        /\ gap # 0
        /\ gap = Bps(PolicyFees(s), GstBps) - PolicyTaxes(s)

UnitemisedAdjustments(s) ==
    {a \in adjustments : /\ a.settlement = s /\ a.status = "APPLIED"
                         /\ a.id \notin Itemised(s, "ADJUSTMENT")}

IsFeeCorrection(a) == a.type = "FEE_CORRECTION" /\ a.payment # 0

\* Mutated form: the double-count guard is dropped.
Credited_Nothing(s, p) == 0

Credited(s, p) ==
    AmountSum({a \in UnitemisedAdjustments(s) : IsFeeCorrection(a) /\ a.payment = p})

Attribution(type, id, amount) == [type |-> type, id |-> id, amount |-> amount]

\* The rules of delta 1 in their order: what each finds, and the label it
\* gives the settlement when no earlier rule has given one.
Rules1(s) ==
    LET drifted == IF TaxIsMethodError(s) THEN {}
                   ELSE {i \in PaymentItems(s) : FeeGap(i) # 0 \/ TaxGap(i) # 0}
    IN  << [label |-> "HEADER_ROLLUP_MISMATCH",
            found |-> IF RollupGap(s) = 0 THEN {}
                      ELSE {Attribution("rollup", <<s>>, RollupGap(s))}],
           [label |-> "TAX_ROUNDING_MISMATCH",
            found |-> IF TaxIsMethodError(s)
                      THEN {Attribution("tax", <<s>>, Rollup(items, s).tax - PolicyTaxes(s))}
                      ELSE {}],
           [label |-> "FEE_RATE_MISMATCH",
            found |-> {Attribution("fee", i.ref, FeeGap(i) - Credited(s, i.ref[1])) :
                           i \in {j \in drifted : FeeGap(j) # 0}}
                      \cup {Attribution("tax_on_fee", i.ref, TaxGap(i)) :
                           i \in {j \in drifted : TaxGap(j) # 0}}],
           [label |-> "REFUND_NOT_DEDUCTED",
            found |-> {Attribution("refund", r.id, -r.amount) :
                           r \in {q \in InPeriodRefunds(s) :
                                      q.id \notin Itemised(s, "REFUND")}}],
           [label |-> "ADJUSTMENT_UNEXPLAINED",
            found |-> {Attribution("adjustment", a.id, -a.amount) :
                           a \in {b \in UnitemisedAdjustments(s) : ~ IsFeeCorrection(b)}}] >>

\* The residual and the tier are derived, never claimed (_finalise); a label
\* that no rule gave is the fallback when something is left.
Verdict(delta, rules, fallback) ==
    LET found    == UNION {rules[k].found : k \in DOMAIN rules}
        raised   == {k \in DOMAIN rules : rules[k].found # {}}
        residual == delta - AmountSum(found)
    IN  [delta |-> delta, attributions |-> found, residual |-> residual,
         tier  |-> IF residual # 0 THEN "C" ELSE "A",
         label |-> IF raised # {} THEN rules[Min(raised)].label
                   ELSE IF residual # 0 /\ delta # 0 THEN fallback ELSE "NONE"]

Diagnose1(s) == Verdict(Delta1(s), Rules1(s), "UNEXPLAINED_SHORTFALL")
-----------------------------------------------------------------------------
\* Delta 3.

PaidIn(s) == {i.ref[1] : i \in PaymentItems(s)}
Entries(account, direction) ==
    {e \in ledger : e.account = account /\ e.direction = direction}
ClearingOf(ps, direction) ==
    {e \in Entries("RAZORPAY_CLEARING", direction) : e.payment \in ps}

ClearingBalance(s) == AmountSum(ClearingOf(PaidIn(s), "DR")) - AmountSum(ClearingOf(PaidIn(s), "CR"))

\* Groups that post the settlement of a payment; a copy comes after what it
\* copies, and only the first is no duplicate.
PostedGroups(s, p) ==
    {e.group : e \in {f \in ClearingOf({p}, "CR") : f.settlement = s}}
DuplicateGroups(s, p) ==
    {g \in PostedGroups(s, p) : \E h \in PostedGroups(s, p) : h[3] < g[3]}
GroupClearing(g) ==
    AmountSum({e \in Entries("RAZORPAY_CLEARING", "CR") : e.group = g})

Stranded(p) == AmountSum(ClearingOf({p}, "DR")) - AmountSum(ClearingOf({p}, "CR"))

ChargedFees(s) == FeeSum(ItemsIn(items, s))
PostedFees(s)  == AmountSum({e \in Entries("GATEWAY_FEES", "DR") : e.settlement = s})

\* Clearing first; which accounts were used is asked only when it is zero.
Delta3(s) ==
    IF ClearingBalance(s) # 0 THEN ClearingBalance(s) ELSE ChargedFees(s) - PostedFees(s)

Rules3(s) ==
    LET open    == ClearingBalance(s) # 0
        missing == {p \in PaidIn(s) : PostedGroups(s, p) = {} /\ Stranded(p) # 0}
    IN  << [label |-> "DUPLICATE_LEDGER_ENTRY",
            found |-> IF ~ open THEN {}
                      ELSE UNION {{Attribution("duplicate_ledger", g, -GroupClearing(g)) :
                                       g \in DuplicateGroups(s, p)} : p \in PaidIn(s)}],
           [label |-> "MISSING_LEDGER_ENTRY",
            found |-> IF ~ open THEN {}
                      ELSE {Attribution("missing_ledger", <<p>>, Stranded(p)) : p \in missing}],
           [label |-> "MISPOSTED_ACCOUNT",
            found |-> IF open \/ ChargedFees(s) = PostedFees(s) THEN {}
                      ELSE {Attribution("misposted_ledger", e.group, e.amount) :
                                e \in {f \in Entries("SALES", "DR") : f.settlement = s}}] >>

Diagnose3(s) == Verdict(Delta3(s), Rules3(s), "CLEARING_NOT_ZERO")

Diagnose(kind, s) == IF kind = "D1_COMPUTE" THEN Diagnose1(s) ELSE Diagnose3(s)

\* INV-B1: a group of postings that does not balance.
UnbalancedGroups ==
    {g \in {e.group : e \in ledger} :
        AmountSum({e \in ledger : e.group = g /\ e.direction = "DR"})
            # AmountSum({e \in ledger : e.group = g /\ e.direction = "CR"})}
=============================================================================
