----------------------------- MODULE PlantedBatch -----------------------------
(***************************************************************************)
(* A batch from its generation to its score.  The planters of settlements, *)
(* ledger and payouts take their turns (generator/generate.py: build), the *)
(* database takes the result, a run diagnoses it (engine/runner.py), and   *)
(* the evaluation (engine/metrics.py) scores what the run found against    *)
(* the ground truth the planters wrote.                                    *)
(***************************************************************************)
EXTENDS SellerPayout, TaxCredit

VARIABLE results     \* the deltas of the run, with label and attributions

vars == <<bookVars, payoutVars, results>>

\* A delta of a settlement has no subject of its own.
NoSubject == <<>>

Result(s, kind, subject, diagnosis) ==
    [settlement |-> s, kind |-> kind, subject |-> subject, is |-> diagnosis]

\* What the run finds.  Delta 2 is left out: its exceptions are out of the scope
\* of every other trap, and without them no other row scores better.
Diagnoses ==
    {Result(s, kind, NoSubject, Diagnose(kind, s)) :
        s \in Settlement, kind \in {"D1_COMPUTE", "D3_LEDGER"}}
    \cup {Result(payments[p.payment].settlement, "D4_PAYOUT", p.subject, p.is) : p \in Payouts}

\* One run of the engine, over the batch as the database took it.
Reconcile ==
    /\ Done /\ results = {}
    /\ results' = Diagnoses
    /\ UNCHANGED <<bookVars, payoutVars>>

BatchInit == Init /\ PayoutInit /\ results = {}

Next ==
    \/ BookNext /\ UNCHANGED <<payoutVars, results>>
    \/ PayoutNext /\ UNCHANGED results
    \/ Reconcile

Spec == BatchInit /\ [][Next]_vars
-----------------------------------------------------------------------------
\* How the ground truth is scored: every label is an exception.  Those that the
\* invariant checks add are for postings that do not balance: see NothingInvented.

Raised      == {r \in results : r.is.label # "NONE"}
Here(g)     == {e \in Raised : e.settlement = g.settlement}
Relevant(g) == Here(g) \cup {e \in Raised : e.subject = g.subject}

\* Mutated form: what another planted anomaly expects counts as noise.
Noise_All(g, rows) == {e \in rows : e.kind = g.kind}

\* What no planted anomaly of the settlement accounts for, on the trap's delta.
Noise(g, rows) ==
    {e \in rows :
        /\ e.kind = g.kind
        /\ \A h \in truth : h.settlement = g.settlement => h.expects # e.is.label}

Outcome(g) ==
    IF ~ g.resolvable
    THEN IF \E e \in Relevant(g) : e.is.tier = "C" THEN "CORRECTLY_ESCALATED" ELSE "MISSED_ESCALATION"
    ELSE IF g.expects = "NONE"
    THEN IF Noise(g, Relevant(g)) = {} THEN "TRAP_AVOIDED" ELSE "FALSE_POSITIVE"
    ELSE IF \E e \in Relevant(g) : e.is.label = g.expects THEN "DIAGNOSED"
    ELSE IF Relevant(g) # {} THEN "DETECTED_WRONG_TYPE" ELSE "MISSED"

\* A tier A verdict that contradicts the truth.
FalselyResolved(g) ==
    IF g.expects = "NONE" THEN Noise(g, Here(g)) # {}
    ELSE ~ g.resolvable /\ \E e \in Here(g) : e.is.tier = "A" /\ e.is.label = g.expects
-----------------------------------------------------------------------------
\* Properties.

Reconciled == results # {}

\* The settlement posting of a fully refunded payment leaves clearing alone.
LeavesClearing(g) == g.kind = "D3_LEDGER" /\ g.type # "D3_WRONG_ACCOUNT" /\ g.amount = 0

\* The result the ground truth is about.  An excess is reported on the payment;
\* the payout itself must stay clean.
ReportedOn(g) ==
    IF g.kind # "D4_PAYOUT" THEN NoSubject
    ELSE IF g.type = "D4_ALLOC_EXCEEDS_PAYMENT" THEN <<g.subject[2]>> ELSE g.subject
About(g) ==
    {r \in results : r.kind = g.kind /\ r.settlement = g.settlement /\ r.subject = ReportedOn(g)}

Expecting(kind) == {g \in truth : g.kind = kind /\ g.expects # "NONE"}

\* Each defect that can be explained is explained to the paisa, under its own
\* name, on deterministic evidence: attribution.py:6 and the ground truth of its
\* planter agree.  A debit that nothing explains stays exactly that many paise
\* unexplained, never part of something else.  A payout broken on the record is
\* diagnosed to the paisa; one broken off the record is reported that much short.
DefectsDiagnosed ==
    Reconciled =>
        /\ \A g \in Expecting("D1_COMPUTE") \cup Expecting("D3_LEDGER") :
            g.resolvable /\ ~ LeavesClearing(g)
            => \E r \in About(g) :
                r.is.label = g.expects /\ r.is.tier = "A" /\ Abs(r.is.delta) = g.amount
        /\ \A g \in Expecting("D1_COMPUTE") :
            ~ g.resolvable => \E r \in About(g) :
                r.is.label = g.expects /\ r.is.tier = "C" /\ r.is.residual = g.amount
        /\ \A g \in Expecting("D4_PAYOUT") :
            \E r \in About(g) :
                /\ r.is.label = g.expects
                /\ Abs(r.is.delta) = g.amount
                /\ Abs(r.is.residual) = (IF g.resolvable THEN 0 ELSE g.amount)

\* Where nothing was planted on a delta the engine finds nothing on it: traps,
\* defects of the other deltas and repairs leave a settlement (anomalies.py:11) and
\* a payout clean, and every group of postings balances.
NothingInvented ==
    Reconciled =>
        /\ \A r \in results :
            (\A g \in Expecting(r.kind) : r \notin About(g))
            => /\ r.is.delta = 0 /\ r.is.label = "NONE"
               /\ r.kind # "D4_PAYOUT" => r.is.attributions = {}
        /\ UnbalancedGroups = {}

\* At every moment of the generation a settlement that no planter holds has a header its
\* items add up to, and delta 1 is zero, without a finding: on the neighbours of broken
\* ones, and on the one that receives the refund of a trap and is not claimed for it
\* (anomalies.py:11).
UnclaimedIsClean ==
    /\ HeadersRollUp
    /\ \A s \in Settlement \ claimed :
           LET is == Diagnose1(s)
           IN  is.delta = 0 /\ is.label = "NONE" /\ is.attributions = {}

\* attribution.py:339 tells a reader of TRANSFER_MISSING that no transfer row
\* exists at all; the rule itself only asks for processed ones.
MissingMeansNoTransfer ==
    \A r \in results, a \in allocations :
        r.subject = a.id /\ r.is.label = "TRANSFER_MISSING" => Moved(a) = {}

\* No correct verdict is scored against the engine: not on a trap that shares
\* its settlement with an anomaly of another planter, and not on an anomaly
\* that shares one with others.
EveryRowScores ==
    Reconciled => \A g \in truth :
        g.kind = "D2_BANK" \/ LeavesClearing(g)
        \/ /\ Outcome(g) \in {"DIAGNOSED", "TRAP_AVOIDED", "CORRECTLY_ESCALATED"}
           /\ ~ FalselyResolved(g)

\* The tax report looks at the books on its own and comes to what delta 3 planted
\* there: a group posted twice is recorded twice, a missing one not at all, and no
\* defect of another delta shows (generator/generate.py:571, taxmatch.py:266).
ItemTax(group) == TaxSum({i \in items : i.ref = <<group[2]>> /\ i.type = "PAYMENT"})
PlantedTax(s, type) ==
    MapThenSumSet(LAMBDA g : ItemTax(g.subject), {g \in Planted(type) : g.settlement = s})
BooksCorroborate ==
    Reconciled => \A s \in Settlement :
        BooksDelta(s) = PlantedTax(s, "D3_DUPLICATE_LEDGER") - PlantedTax(s, "D3_MISSING_LEDGER")

\* What a supplier may have done to the derived invoice, one thing at a time.
OneDefect(s) ==
    LET inv == Derived(s)
    IN  {{}, {inv}, {[inv EXCEPT !.cgst = 0, !.sgst = 0, !.igst = header[s].tax]},
         {[inv EXCEPT !.eligible = FALSE]}}
        \cup {{[inv EXCEPT !.cgst = @ - d]} : d \in 1 .. (AmountTolerance + 1)}
        \cup {{[inv EXCEPT !.period = @ + d]} : d \in -1 .. (ClaimWindow + 1)}

\* What the merchant can offset, now or in a later period of the window.
Usable(s, filed) ==
    MapThenSumSet(LAMBDA inv : InvoiceTax(inv),
        {inv \in filed : /\ inv.eligible /\ inv.igst = 0
                         /\ inv.period \in Month[s] .. (Month[s] + ClaimWindow)})

\* Of an invoice with one defect the credit reported at risk is what cannot be used,
\* to the tolerance, and only a credit that can be used whole is called claimable
\* or deferred (taxmatch.py:296-351).  A tax within the tolerance is no credit to lose.
FiledCreditAccounted ==
    Reconciled => \A s \in Taxed : \A filed \in OneDefect(s) :
        header[s].tax > AmountTolerance =>
        LET verdict == FilingVerdict(s, filed)
            lost == header[s].tax - Usable(s, filed)
        IN  /\ Abs(lost - verdict.at_risk) <= AmountTolerance
            /\ verdict.claim_state \in {"CLAIMABLE", "DEFERRED"} <=> lost <= AmountTolerance
            /\ filed = {Derived(s)} => verdict.status = "MATCHED"
=============================================================================
