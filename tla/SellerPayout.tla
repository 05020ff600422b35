----------------------------- MODULE SellerPayout -----------------------------
(***************************************************************************)
(* Delta 4: is every seller paid what the allocations owe?                 *)
(* The engine's part (engine/calculation.py: compute_d4, attribution.py:   *)
(* attribute_d4) and the planters that break it (generator/anomalies.py),  *)
(* which leave everything the other deltas read alone.                     *)
(***************************************************************************)
EXTENDS Planter

CONSTANTS
    Commission,       \* seller -> commission in basis points
    Allotments,       \* <<payment, seller, gross, status>> to start from
    PayoutFloor       \* smallest payout that is worth breaking

VARIABLES
    allocations,      \* seller_allocations
    transfers,        \* Route transfers
    claimedAlloc      \* claimed_alloc

payoutVars == <<allocations, transfers, claimedAlloc>>

Net(a) == a.gross - a.commission

Allocation(p, seller, gross, status) ==
    [id |-> <<"A", p, seller>>, payment |-> p, seller |-> seller, gross |-> gross,
     commission |-> Bps(gross, Commission[seller]), status |-> status]

Transfer(a, n, amount, status) ==
    [id |-> <<a.payment, a.seller, n>>, payment |-> a.payment, seller |-> a.seller,
     amount |-> amount, status |-> status]

\* Transfers mirror settled allocations exactly.
Split == {Allocation(t[1], t[2], t[3], t[4]) : t \in Allotments}

PayoutInit ==
    /\ allocations = Split
    /\ transfers = {Transfer(a, 1, Net(a), "PROCESSED") :
                       a \in {b \in allocations : b.status = "SETTLED"}}
    /\ claimedAlloc = {}

\* What generate.py splits and schema.sql accepts: every payment among different
\* sellers, each of which gets something after commission, and never more than was paid
\* (INV-B3); a lone seller gets it all.
ASSUME PayoutAssumption ==
    /\ PayoutFloor \in Nat /\ PayoutFloor >= 3 /\ IsFiniteSet(Allotments)
    /\ \A a, b \in Split : a.payment = b.payment /\ a.seller = b.seller => a = b
    /\ \A a \in Split : a.gross \in Int /\ Commission[a.seller] \in Nat /\ Net(a) > 0
    /\ \A book \in Books : \A a \in Split :
        LET own == {b \in Split : b.payment = a.payment}
        IN  /\ a.payment \in DOMAIN book.payments
            /\ MapThenSumSet(LAMBDA b : b.gross, {b \in own : b.status \in {"SETTLED", "PENDING"}})
                 <= book.payments[a.payment].amount
            /\ own = {a} => a.gross = book.payments[a.payment].amount
-----------------------------------------------------------------------------
\* The engine.

Moved(a)     == {t \in transfers : t.payment = a.payment /\ t.seller = a.seller}
Processed(a) == {t \in Moved(a) : t.status = "PROCESSED"}
Owed(a)      == Net(a) - AmountSum(Processed(a))

\* The first transfer that failed or came back with exactly what is owed.
Returned(a) == {t \in Moved(a) : t.status \in {"REVERSED", "FAILED"} /\ t.amount = Owed(a)}
FirstOf(ts) == {t \in ts : \A u \in ts : t.id[3] <= u.id[3]}

PayoutRules(a) ==
    LET missing == Processed(a) = {}
    IN  << [label |-> "TRANSFER_MISSING",
            found |-> IF Owed(a) # 0 /\ missing
                      THEN {Attribution("allocation", a.id, Owed(a))} ELSE {}],
           [label |-> "ALLOCATION_TRANSFER_DIVERGENCE",
            found |-> IF Owed(a) = 0 \/ missing THEN {}
                      ELSE {Attribution("transfer", t.id, Owed(a)) : t \in FirstOf(Returned(a))}] >>

DiagnosePayout(a) == Verdict(Owed(a), PayoutRules(a), "PHANTOM_PAYOUT_GAP")

Promised(p) ==
    MapThenSumSet(LAMBDA a : a.gross,
        {a \in allocations : a.payment = p /\ a.status \in {"SETTLED", "PENDING"}})
Overpromised == {p \in DOMAIN payments : Promised(p) > payments[p].amount}

DiagnoseExcess(p) ==
    LET delta == payments[p].amount - Promised(p)
    IN  Verdict(delta, << [label |-> "ALLOCATION_EXCEEDS_PAYMENT",
                           found |-> {Attribution("allocation_excess", <<p>>, delta)}] >>, "NONE")

\* Every diagnosis of delta 4, with the record it is about.
Payouts ==
    {[subject |-> a.id, payment |-> a.payment, is |-> DiagnosePayout(a)] :
        a \in {b \in allocations : b.status = "SETTLED"}}
    \cup {[subject |-> <<p>>, payment |-> p, is |-> DiagnoseExcess(p)] : p \in Overpromised}
-----------------------------------------------------------------------------
\* The planters.

SettledAllocs == {a \in allocations : a.status = "SETTLED" /\ a.id \notin claimedAlloc}

\* What every planter of payouts does besides breaking one.
Plant(type, a, row) ==
    /\ Turn(type)
    /\ claimedAlloc' = claimedAlloc \cup {a.id}
    /\ truth' = truth \cup {row}
    /\ UNCHANGED <<tables, credit, claimed, claimed3>>

PayoutTruth(type, a, expects, amount, resolvable) ==
    Truth(type, a.id, payments[a.payment].settlement, "D4_PAYOUT", expects, amount, resolvable)

Instead(rows, old, new) == (rows \ {old}) \cup {new}

\* The allocation of a lone seller, grown by 12% of the payment.
ExcessOf(a) == Bps(payments[a.payment].amount, 1200)
Grown(a) ==
    LET gross == a.gross + ExcessOf(a)
    IN  [a EXCEPT !.gross = gross, !.commission = Bps(gross, Commission[a.seller])]

Follow(a) ==
    {IF t \in Processed(a) THEN [t EXCEPT !.amount = Net(Grown(a))] ELSE t : t \in transfers}

\* The split grows, and its transfer with it: only the sum betrays it.
AllocExceeds(a) ==
    /\ {x \in allocations : x.payment = a.payment} = {a} /\ ExcessOf(a) > 0
    /\ allocations' = Instead(allocations, a, Grown(a))
    /\ transfers' = Follow(a)
    /\ Plant("D4_ALLOC_EXCEEDS_PAYMENT", a,
           PayoutTruth("D4_ALLOC_EXCEEDS_PAYMENT", a, "ALLOCATION_EXCEEDS_PAYMENT",
                       ExcessOf(a), TRUE))

Short(t, short) == [t EXCEPT !.amount = @ - short]

\* Mutated form: the whole transfer comes back.
Diverged_Whole(a, t, short) ==
    (transfers \ {t}) \cup {Transfer(a, 2, short, "REVERSED")}

Diverged(a, t, short) ==
    Instead(transfers, t, Short(t, short))
        \cup {Transfer(a, 2, short, "REVERSED")}

\* The transfer is short by what a reversed one brought back.
AllocDiverges(a) ==
    \E t \in Processed(a) :
        LET short == Bps(Net(a), 2500)
        IN  /\ Net(a) >= PayoutFloor
            /\ transfers' = Diverged(a, t, short)
            /\ Plant("D4_ALLOC_TRANSFER_DIVERGENCE", a,
                   PayoutTruth("D4_ALLOC_TRANSFER_DIVERGENCE", a,
                               "ALLOCATION_TRANSFER_DIVERGENCE", short, TRUE))
            /\ UNCHANGED allocations

TransferMissing(a) ==
    \E t \in Processed(a) :
        /\ transfers' = transfers \ {t}
        /\ Plant("D4_TRANSFER_MISSING", a,
               PayoutTruth("D4_TRANSFER_MISSING", a, "TRANSFER_MISSING", Net(a), TRUE))
        /\ UNCHANGED allocations

PhantomPayoutGap(a) ==
    \E t \in Processed(a) :
        LET short == Bps(Net(a), 1800)
        IN  /\ Net(a) >= PayoutFloor
            /\ transfers' = Instead(transfers, t, Short(t, short))
            /\ Plant("UNRESOLVABLE_PHANTOM_PAYOUT_GAP", a,
                   PayoutTruth("UNRESOLVABLE_PHANTOM_PAYOUT_GAP", a,
                               "PHANTOM_PAYOUT_GAP", short, FALSE))
            /\ UNCHANGED allocations

PayoutNext ==
    \E a \in SettledAllocs :
        AllocExceeds(a) \/ AllocDiverges(a) \/ TransferMissing(a) \/ PhantomPayoutGap(a)
=============================================================================
