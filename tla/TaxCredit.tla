------------------------------ MODULE TaxCredit ------------------------------
(***************************************************************************)
(* Input tax credit on gateway fees (engine/taxmatch.py), from three       *)
(* sources: what a settlement was charged, what the books hold of it, and  *)
(* what the supplier filed.  Two verdicts that know nothing of each other: *)
(* the books leg compares the first two, the filing leg the first and the  *)
(* last.  The feed of a generated batch is derived from its settlements    *)
(* (generator/generate.py: _copy_tax_invoices); a feed of another origin   *)
(* holds whatever db/tax.sql accepts.                                      *)
(*                                                                         *)
(* A return period is a month, counted through; an invoice is found by its *)
(* settlement, and a settlement has one or none.                           *)
(***************************************************************************)
EXTENDS Planter

CONSTANTS
    AmountTolerance,  \* TAX.MATCH, in paise
    ClaimWindow,      \* TAX.CLAIM, in return periods
    Month             \* settlement -> the month it is dated in

ASSUME TaxAssumption ==
    /\ AmountTolerance \in Nat /\ ClaimWindow \in Nat
    /\ \A s \in Settlement : Month[s] \in Int

ExpectedHeads == "CGST+SGST"   \* supplier and merchant are in one state

\* The settlements that were charged tax: no other has a line.
Taxed == {s \in Settlement : header[s].tax # 0}

-----------------------------------------------------------------------------
\* The feed.

Invoice(period, cgst, sgst, igst, eligible) ==
    [period |-> period, cgst |-> cgst, sgst |-> sgst, igst |-> igst, eligible |-> eligible]

\* An odd paisa lands on CGST.
Derived(s) == Invoice(Month[s], header[s].tax - header[s].tax \div 2, header[s].tax \div 2, 0, TRUE)

InvoiceTax(inv) == inv.cgst + inv.sgst + inv.igst
Heads(inv) == IF inv.igst # 0 THEN "IGST" ELSE "CGST+SGST"

-----------------------------------------------------------------------------
\* The books leg.

Booked(s) ==
    LET mine(direction) == {e \in Entries("INPUT_GST", direction) : e.settlement = s}
    IN  AmountSum(mine("DR")) - AmountSum(mine("CR"))
BooksDelta(s) == Booked(s) - header[s].tax

-----------------------------------------------------------------------------
\* The filing leg: the first verdict that applies.

\* Mutated form: the last period of the window is out of it.
InClaimWindow_Short(late) == 0 < late /\ late < ClaimWindow

\* Late but inside the window is credit deferred, anything else is at risk.
InClaimWindow(late) == 0 < late /\ late <= ClaimWindow

Finding(status, applies, claim_state, at_risk) ==
    [status |-> status, applies |-> applies, claim_state |-> claim_state, at_risk |-> at_risk]

Match(s, inv) ==
    LET charged == header[s].tax
        tax  == InvoiceTax(inv)
        late == inv.period - Month[s]
    IN  << Finding("SPLIT_MISMATCH", Heads(inv) # ExpectedHeads, "AT_RISK", tax),
           Finding("AMOUNT_MISMATCH", Abs(tax - charged) > AmountTolerance, "AT_RISK", Abs(charged - tax)),
           Finding("ITC_BLOCKED", ~inv.eligible, "BLOCKED", tax),
           Finding("PERIOD_MISMATCH", late # 0 /\ InClaimWindow(late), "DEFERRED", 0),
           Finding("PERIOD_MISMATCH", late # 0, "AT_RISK", tax),
           Finding("MATCHED", TRUE, "CLAIMABLE", 0) >>

\* What the report says of a settlement, given its invoices.
FilingVerdict(s, filed) ==
    IF filed = {} THEN Finding("NOT_FILED", TRUE, "AT_RISK", header[s].tax)
    ELSE LET found == Match(s, CHOOSE inv \in filed : TRUE)
         IN  found[Min({k \in DOMAIN found : found[k].applies})]
=============================================================================
