----------------------------- MODULE BankMatcher -----------------------------
(***************************************************************************)
(* The deterministic bank matcher, engine/matcher.py: run_matcher.         *)
(*                                                                         *)
(* Eight passes run in a fixed order over one snapshot of the settlements  *)
(* and of the bank statement.  A pass visits its settlements (the merged   *)
(* pass: the bank lines) in the order the loader sorted them, and every    *)
(* visit reads what the earlier visits resolved and claimed.  One action   *)
(* of this module is one visit: the body of one loop iteration.            *)
(*                                                                         *)
(* A name is its position: settlements are 1 .. NSettlement and bank lines *)
(* 1 .. NBank in id order, passes are numbered in the order they run.  A   *)
(* narration is the set of references it answers to.                       *)
(***************************************************************************)
EXTENDS Integers, FiniteSets, Bags, FiniteSetsExt

CONSTANTS
    NSettlement, NBank,   \* rows of settlements and bank_transactions
    Utr, NoUtr,           \* references; NULL or ''
    UtrTail, TailOf,      \* last eight characters of a normalised reference
    DateWindow,           \* policy.date_window_days
    Tolerance,            \* policy.bank_tolerance_days
    MaxCandidates,        \* policy.subset_sum_max_candidates
    MaxSubset,            \* policy.subset_sum_max_subset_size
    Snapshots             \* the snapshots the loader may hand over

Settlement == 1 .. NSettlement
Bank       == 1 .. NBank

SnapshotType ==
    [s : [Settlement -> [net : Int, date : Int, utr : Utr \cup {NoUtr}]],
     b : [Bank -> [credit : Nat, date : Int, utr : Utr \cup {NoUtr},
                   quotes : SUBSET Utr,       \* whole reference in the text
                   tails : SUBSET UtrTail,       \* its last eight characters
                   resembles : SUBSET Utr]]]  \* similar enough to score

ASSUME SizeAssumption == NSettlement \in Nat /\ NBank \in Nat
ASSUME UtrAssumption == NoUtr \notin Utr /\ TailOf \in [Utr -> UtrTail]
ASSUME PolicyAssumption ==
    /\ Tolerance \in Nat /\ DateWindow \in Nat
    /\ MaxCandidates \in Nat /\ MaxSubset \in Nat
ASSUME SnapshotAssumption == Snapshots \subseteq SnapshotType

\* The passes, in the order run_matcher runs them.
NONE               == 0
EXACT_UTR          == 1
UTR_IN_NARRATION   == 2
UTR_SUFFIX         == 3
EXACT_AMOUNT_DATE  == 4
SUBSET_SUM_MERGED  == 5
SUBSET_SUM_SPLIT   == 6
AMOUNT_WIDE_WINDOW == 7
FUZZY_REFERENCE    == 8
RETURNED           == 9

Pass == EXACT_UTR .. FUZZY_REFERENCE

PASS_TIERS == [p \in Pass |->
    IF p \in {AMOUNT_WIDE_WINDOW, FUZZY_REFERENCE} THEN "B" ELSE "A"]

VARIABLES
    snap,         \* the loaded snapshot
    pass, cursor, \* the running loop and the row it is about to visit
    results,      \* one MatchResult per settlement,
    matched_paise,\* and the amount it was credited with
    candidates,   \* every candidate examined: the rows of match_candidates
    claimed,      \* claimed_bank
    resolved

decision == <<results, matched_paise, claimed, resolved>>
vars == <<snap, pass, cursor, decision, candidates>>

MatchResult == [bank_ids : SUBSET Bank, pass_name : Pass \cup {NONE},
                tier : {"A", "B", "C"}, is_ambiguous : BOOLEAN]

CandidateRow == [settlement : Settlement, bank : Bank, pass_name : Pass,
                 is_selected : BOOLEAN, is_ambiguous : BOOLEAN]

TypeOK ==
    /\ snap \in Snapshots
    /\ pass \in EXACT_UTR .. RETURNED
    /\ cursor \in Nat \ {0}
    /\ results \in [Settlement -> MatchResult]
    /\ matched_paise \in [Settlement -> Int]
    /\ IsABag(candidates) /\ BagToSet(candidates) \subseteq CandidateRow
    /\ claimed \subseteq Bank
    /\ resolved \subseteq Settlement
-----------------------------------------------------------------------------
\* Reading the snapshot.

Net       == [s \in Settlement |-> snap.s[s].net]
UtrOf(s)  == snap.s[s].utr
Credit    == [b \in Bank |-> snap.b[b].credit]

Credits    == {b \in Bank : Credit[b] > 0}
Free       == Credits \ claimed
Unresolved == Settlement \ resolved

Within(d, e, days) == d - e <= days /\ e - d <= days
InWindow(b, s) == Within(snap.b[b].date, snap.s[s].date, DateWindow)
Twins(s, t, days) == t # s /\ Within(snap.s[t].date, snap.s[s].date, days)

Unique(S)  == \E x \in S : S = {x}
Several(S) == \E x, y \in S : x # y
-----------------------------------------------------------------------------
\* What a visit writes.

Examine(S, B, p, selected, ambiguous) ==
    candidates' = candidates (+) SetToBag(
        [settlement : S, bank : B, pass_name : {p},
         is_selected : {selected}, is_ambiguous : {ambiguous}])

Select(s, lines, p) ==
    /\ results' = [results EXCEPT ![s] =
           [@ EXCEPT !.bank_ids = lines, !.pass_name = p,
                     !.tier = PASS_TIERS[p]]]
    /\ matched_paise' =
           [matched_paise EXCEPT ![s] = SumFunctionOnSet(Credit, lines)]
    /\ claimed' = claimed \cup lines
    /\ resolved' = resolved \cup {s}

MarkAmbiguous(s) ==
    /\ results' = [results EXCEPT ![s].is_ambiguous = TRUE]
    /\ UNCHANGED <<matched_paise, claimed, resolved>>

Nothing == UNCHANGED <<decision, candidates>>

\* Exactly one candidate wins; two or more leave the pass without a winner.
Decide(s, p, hits) ==
    \/ hits = {} /\ Nothing
    \/ Unique(hits) /\ Examine({s}, hits, p, TRUE, FALSE) /\ Select(s, hits, p)
    \/ Several(hits) /\ Examine({s}, hits, p, FALSE, TRUE) /\ MarkAmbiguous(s)

Visit(p, i, last) ==
    /\ pass = p /\ cursor = i /\ i <= last
    /\ cursor' = cursor + 1
    /\ UNCHANGED <<snap, pass>>
-----------------------------------------------------------------------------
\* The passes that look for a reference.

ExactUtrHits(s) == {b \in Free : snap.b[b].utr = UtrOf(s)}
NarrationHits(s) == {b \in Free : UtrOf(s) \in snap.b[b].quotes}
SuffixHits(s) == {b \in Free : TailOf[UtrOf(s)] \in snap.b[b].tails}

SuffixRivals(s) ==
    {t \in Settlement : /\ Twins(s, t, DateWindow)
                        /\ UtrOf(t) # NoUtr
                        /\ TailOf[UtrOf(t)] = TailOf[UtrOf(s)]}

\* Pass 0 has no test on "resolved": it is the first one to run.
ExactUtr(s) ==
    /\ Visit(EXACT_UTR, s, NSettlement)
    /\ \/ UtrOf(s) = NoUtr /\ Nothing
       \/ UtrOf(s) # NoUtr /\ Decide(s, EXACT_UTR, ExactUtrHits(s))

UtrInNarration(s) ==
    /\ Visit(UTR_IN_NARRATION, s, NSettlement)
    /\ \/ (s \in resolved \/ UtrOf(s) = NoUtr) /\ Nothing
       \/ /\ s \notin resolved /\ UtrOf(s) # NoUtr
          /\ Decide(s, UTR_IN_NARRATION, NarrationHits(s))

\* A shared suffix is refused without marking the settlement ambiguous.
UtrSuffix(s) ==
    /\ Visit(UTR_SUFFIX, s, NSettlement)
    /\ \/ (s \in resolved \/ UtrOf(s) = NoUtr) /\ Nothing
       \/ /\ s \notin resolved /\ UtrOf(s) # NoUtr /\ SuffixRivals(s) # {}
          /\ Examine({s}, SuffixHits(s), UTR_SUFFIX, FALSE, TRUE)
          /\ UNCHANGED decision
       \/ /\ s \notin resolved /\ UtrOf(s) # NoUtr /\ SuffixRivals(s) = {}
          /\ Decide(s, UTR_SUFFIX, SuffixHits(s))
-----------------------------------------------------------------------------
\* The passes that look for an amount.

OnTime(b, s) == /\ snap.s[s].date <= snap.b[b].date
                /\ snap.b[b].date <= snap.s[s].date + Tolerance

AmountDateHits(s) == {b \in Free : Credit[b] = Net[s] /\ OnTime(b, s)}
\* Mutated form: a line that is claimed is looked at again.
WideHits_Claimed(s) == {b \in Credits : Credit[b] = Net[s] /\ InWindow(b, s)}

WideHits(s) == {b \in Free : Credit[b] = Net[s] /\ InWindow(b, s)}
FuzzyHits(s) == {b \in WideHits(s) : UtrOf(s) \in snap.b[b].resembles}

\* Mutated form: an off-by-one in the distance of a sibling.
AmountDateRivals_DayShort(s) ==
    {t \in Unresolved : /\ t # s /\ Net[t] = Net[s]
                        /\ snap.s[t].date = snap.s[s].date}

AmountDateRivals(s) ==
    {t \in Unresolved : Twins(s, t, Tolerance) /\ Net[t] = Net[s]}
WideRivals(s) == {t \in Unresolved : t # s /\ Net[t] = Net[s]}

\* Mutated form: the test on "resolved" is dropped.
ExactAmountDate_Again(s) ==
    /\ Visit(EXACT_AMOUNT_DATE, s, NSettlement)
    /\ \/ Net[s] <= 0 /\ Nothing
       \/ /\ Net[s] > 0 /\ AmountDateRivals(s) # {}
          /\ Examine({s}, AmountDateHits(s), EXACT_AMOUNT_DATE, FALSE, TRUE)
          /\ MarkAmbiguous(s)
       \/ /\ Net[s] > 0 /\ AmountDateRivals(s) = {}
          /\ Decide(s, EXACT_AMOUNT_DATE, AmountDateHits(s))

\* A sibling with the same figure refuses the match, and marks the settlement
\* ambiguous even when no credit fits either of them.
ExactAmountDate(s) ==
    /\ Visit(EXACT_AMOUNT_DATE, s, NSettlement)
    /\ \/ (s \in resolved \/ Net[s] <= 0) /\ Nothing
       \/ /\ s \notin resolved /\ Net[s] > 0 /\ AmountDateRivals(s) # {}
          /\ Examine({s}, AmountDateHits(s), EXACT_AMOUNT_DATE, FALSE, TRUE)
          /\ MarkAmbiguous(s)
       \/ /\ s \notin resolved /\ Net[s] > 0 /\ AmountDateRivals(s) = {}
          /\ Decide(s, EXACT_AMOUNT_DATE, AmountDateHits(s))

\* Mutated form: rivals refuse the match and mark nobody.
AmountWideWindow_Unmarked(s) ==
    /\ Visit(AMOUNT_WIDE_WINDOW, s, NSettlement)
    /\ \/ (s \in resolved \/ Net[s] <= 0 \/ WideRivals(s) # {}) /\ Nothing
       \/ /\ s \notin resolved /\ Net[s] > 0 /\ WideRivals(s) = {}
          /\ Decide(s, AMOUNT_WIDE_WINDOW, WideHits(s))

\* Mutated form: the trail says selected for a line the rivals refused.
AmountWideWindow_TrailIgnoresRivals(s) ==
    /\ Visit(AMOUNT_WIDE_WINDOW, s, NSettlement)
    /\ \/ (s \in resolved \/ Net[s] <= 0 \/ WideHits(s) = {}) /\ Nothing
       \/ /\ s \notin resolved /\ Net[s] > 0 /\ WideRivals(s) # {}
          /\ WideHits(s) # {}
          /\ Examine({s}, WideHits(s), AMOUNT_WIDE_WINDOW, Unique(WideHits(s)), FALSE)
          /\ MarkAmbiguous(s)
       \/ /\ s \notin resolved /\ Net[s] > 0 /\ WideRivals(s) = {}
          /\ Decide(s, AMOUNT_WIDE_WINDOW, WideHits(s))

AmountWideWindow(s) ==
    /\ Visit(AMOUNT_WIDE_WINDOW, s, NSettlement)
    /\ \/ (s \in resolved \/ Net[s] <= 0 \/ WideHits(s) = {}) /\ Nothing
       \/ /\ s \notin resolved /\ Net[s] > 0 /\ WideRivals(s) # {}
          /\ WideHits(s) # {}
          /\ Examine({s}, WideHits(s), AMOUNT_WIDE_WINDOW, FALSE, TRUE)
          /\ MarkAmbiguous(s)
       \/ /\ s \notin resolved /\ Net[s] > 0 /\ WideRivals(s) = {}
          /\ WideHits(s) # {}
          /\ Decide(s, AMOUNT_WIDE_WINDOW, WideHits(s))

FuzzyReference(s) ==
    /\ Visit(FUZZY_REFERENCE, s, NSettlement)
    /\ \/ (s \in resolved \/ UtrOf(s) = NoUtr \/ Net[s] <= 0) /\ Nothing
       \/ /\ s \notin resolved /\ UtrOf(s) # NoUtr /\ Net[s] > 0
          /\ Decide(s, FUZZY_REFERENCE, FuzzyHits(s))
-----------------------------------------------------------------------------
\* The passes that look for a sum (engine/subset_sum.py).

\* The pool is sorted by descending amount, then by id, and cut at the bound.
Top(pool, amount) ==
    {x \in pool : Cardinality({y \in pool : \/ amount[y] > amount[x]
                                            \/ amount[y] = amount[x] /\ y < x})
                    < MaxCandidates}

\* Mutated form: a subset that stays below the target is taken for a solution.
Solutions_AtMost(pool, amount, target) ==
    {S \in SUBSET Top(pool, amount) : /\ Cardinality(S) >= 2
                                      /\ Cardinality(S) <= MaxSubset
                                      /\ SumFunctionOnSet(amount, S) <= target}

Solutions(pool, amount, target) ==
    {S \in SUBSET Top(pool, amount) : /\ Cardinality(S) >= 2
                                      /\ Cardinality(S) <= MaxSubset
                                      /\ SumFunctionOnSet(amount, S) = target}

MergedPool(b) == {s \in Unresolved : Net[s] > 0 /\ InWindow(b, s)}
MergedSolutions(b) == Solutions(MergedPool(b), Net, Credit[b])
SplitPool(s) == {b \in Free : InWindow(b, s)}
SplitSolutions(s) == Solutions(SplitPool(s), Credit, Net[s])

\* What the merged pass writes on the result of each settlement it pays.
Paid(s, b) == [results[s] EXCEPT !.bank_ids = {b}, !.tier = "A",
                                 !.pass_name = SUBSET_SUM_MERGED]

\* Mutated form: the settlements are not resolved.
Merge_SettlementsLeftOpen(b, S) ==
    /\ Examine(S, {b}, SUBSET_SUM_MERGED, TRUE, FALSE)
    /\ results' = [s \in Settlement |-> IF s \in S THEN Paid(s, b) ELSE results[s]]
    /\ matched_paise' = [s \in Settlement |->
           IF s \in S THEN Net[s] ELSE matched_paise[s]]
    /\ claimed' = claimed \cup {b}
    /\ UNCHANGED resolved

\* Mutated form: every settlement is credited with the whole line.
Merge_WholeCreditEach(b, S) ==
    /\ Examine(S, {b}, SUBSET_SUM_MERGED, TRUE, FALSE)
    /\ results' = [s \in Settlement |-> IF s \in S THEN Paid(s, b) ELSE results[s]]
    /\ matched_paise' = [s \in Settlement |->
           IF s \in S THEN Credit[b] ELSE matched_paise[s]]
    /\ claimed' = claimed \cup {b}
    /\ resolved' = resolved \cup S

\* One credit pays several settlements.
Merge(b, S) ==
    /\ Examine(S, {b}, SUBSET_SUM_MERGED, TRUE, FALSE)
    /\ results' = [s \in Settlement |-> IF s \in S THEN Paid(s, b) ELSE results[s]]
    /\ matched_paise' = [s \in Settlement |->
           IF s \in S THEN Net[s] ELSE matched_paise[s]]
    /\ claimed' = claimed \cup {b}
    /\ resolved' = resolved \cup S

\* Several subsets leave the whole pool in the trail and nobody ambiguous.
SubsetSumMerged(b) ==
    /\ Visit(SUBSET_SUM_MERGED, b, NBank)
    /\ \/ (b \notin Free \/ MergedSolutions(b) = {}) /\ Nothing
       \/ \E S \in MergedSolutions(b) :
              b \in Free /\ MergedSolutions(b) = {S} /\ Merge(b, S)
       \/ /\ b \in Free /\ Several(MergedSolutions(b))
          /\ Examine(MergedPool(b), {b}, SUBSET_SUM_MERGED, FALSE, TRUE)
          /\ UNCHANGED decision

\* Several credits pay one settlement.
SubsetSumSplit(s) ==
    /\ Visit(SUBSET_SUM_SPLIT, s, NSettlement)
    /\ \/ (s \in resolved \/ Net[s] <= 0 \/ SplitSolutions(s) = {}) /\ Nothing
       \/ \E B \in SplitSolutions(s) :
              /\ s \notin resolved /\ Net[s] > 0 /\ SplitSolutions(s) = {B}
              /\ Examine({s}, B, SUBSET_SUM_SPLIT, TRUE, FALSE)
              /\ Select(s, B, SUBSET_SUM_SPLIT)
       \/ /\ s \notin resolved /\ Net[s] > 0 /\ Several(SplitSolutions(s))
          /\ Examine({s}, SplitPool(s), SUBSET_SUM_SPLIT, FALSE, TRUE)
          /\ MarkAmbiguous(s)
-----------------------------------------------------------------------------
\* A loop runs out of rows: the next pass starts at its first row.
LastRow == IF pass = SUBSET_SUM_MERGED THEN NBank ELSE NSettlement

\* Mutated form: the rows of the next pass are counted from zero.
EndPass_FromZero ==
    /\ pass # RETURNED /\ cursor > LastRow
    /\ pass' = pass + 1 /\ cursor' = 0
    /\ UNCHANGED <<snap, decision, candidates>>

EndPass ==
    /\ pass # RETURNED /\ cursor > LastRow
    /\ pass' = pass + 1 /\ cursor' = 1
    /\ UNCHANGED <<snap, decision, candidates>>

Returned == pass = RETURNED /\ UNCHANGED vars

Unmatched ==
    /\ pass = EXACT_UTR /\ cursor = 1
    /\ results = [s \in Settlement |->
           [bank_ids |-> {}, pass_name |-> NONE, tier |-> "C",
            is_ambiguous |-> FALSE]]
    /\ matched_paise = [s \in Settlement |-> 0]
    /\ candidates = EmptyBag
    /\ claimed = {} /\ resolved = {}

Init == snap \in Snapshots /\ Unmatched

VisitSettlement(s) ==
    \/ ExactUtr(s) \/ UtrInNarration(s) \/ UtrSuffix(s) \/ ExactAmountDate(s)
    \/ SubsetSumSplit(s) \/ AmountWideWindow(s) \/ FuzzyReference(s)

Next ==
    \/ \E s \in Settlement : VisitSettlement(s)
    \/ \E b \in Bank : SubsetSumMerged(b)
    \/ EndPass
    \/ Returned

Spec == Init /\ [][Next]_vars
-----------------------------------------------------------------------------
(***************************************************************************)
(* Properties.                                                             *)
(***************************************************************************)
Row(s, b, p) == [settlement |-> s, bank |-> b, pass_name |-> p,
                 is_selected |-> TRUE, is_ambiguous |-> FALSE]

\* A bank line pays one settlement, unless the merged pass shared it: money is
\* never counted twice, whatever pass claimed the line (matcher.py:64, 82).
LineHasOneOwner ==
    \A s, t \in Settlement : \A b \in results[s].bank_ids \cap results[t].bank_ids :
        \/ s = t
        \/ /\ results[s].pass_name = SUBSET_SUM_MERGED
           /\ results[t].pass_name = SUBSET_SUM_MERGED

\* Claimed lines, resolved settlements and results are three records of one
\* decision and never disagree (matcher.py:64-65, 74-84, 202-213).
BooksAgree ==
    /\ claimed = UNION {results[s].bank_ids : s \in Settlement}
    /\ resolved = {s \in Settlement : results[s].bank_ids # {}}
    /\ \A s \in Settlement :
           /\ s \in resolved <=> results[s].pass_name # NONE
           /\ results[s].tier = IF s \in resolved
                                THEN PASS_TIERS[results[s].pass_name] ELSE "C"

\* What the settlements were credited with is what the claimed lines brought,
\* although two passes regroup the money (matcher.py:81, 209).
MoneyConserved ==
    SumFunction(matched_paise) = SumFunctionOnSet(Credit, claimed)

\* The audit trail names the evidence of every decision and of no other: the API
\* derives a settlement's lines from the selected rows (matcher.py:67-72).  No two
\* of its rows share settlement, line and pass, the primary key of
\* match_candidates: a duplicate aborts the whole run (schema.sql:335).
TrailExplainsResults ==
    /\ {r \in BagToSet(candidates) : r.is_selected} =
           UNION {{Row(s, b, results[s].pass_name) : b \in results[s].bank_ids} : s \in Settlement}
    /\ \A q, r \in BagToSet(candidates) :
           /\ candidates[r] = 1
           /\ \/ q = r
              \/ <<q.settlement, q.bank, q.pass_name>> # <<r.settlement, r.bank, r.pass_name>>

\* Amount and date are not identity: a line awarded on them alone fits no
\* settlement that is still open, under the test of the pass that awarded it
\* (matcher.py:152-154, 241-253).
AmountMatchLeavesNoClaimant ==
    \A s \in Settlement, t \in Unresolved : \A b \in results[s].bank_ids :
        Credit[b] = Net[t] =>
            /\ results[s].pass_name = EXACT_AMOUNT_DATE => ~OnTime(b, t)
            /\ results[s].pass_name = AMOUNT_WIDE_WINDOW => ~InWindow(b, t)

\* Siblings, equal nets within the tolerance, are never both matched on amount
\* and date: neither may hide behind the other's resolution (matcher.py:165).
SiblingsNotBothOnAmount ==
    \A s, t \in Settlement :
        /\ Twins(s, t, Tolerance) /\ Net[s] = Net[t]
        => ~ /\ results[s].pass_name = EXACT_AMOUNT_DATE
             /\ results[t].pass_name = EXACT_AMOUNT_DATE

\* A settlement reported as having no bank credit at all, neither matched nor
\* ambiguous, leaves no open line that carries or quotes its reference or that
\* equals its net inside the window (matcher.py:91-119, 241-261).
MissingMeansNothingFits ==
    pass = RETURNED =>
        \A s \in Unresolved : ~results[s].is_ambiguous =>
            /\ UtrOf(s) # NoUtr => ExactUtrHits(s) \cup NarrationHits(s) = {}
            /\ Net[s] > 0 => WideHits(s) = {}

\* A decision is final: no later pass moves, regrades or releases it.
DecisionIsFinal ==
    /\ claimed \subseteq claimed'
    /\ \A s \in resolved : /\ s \in resolved'
                           /\ results'[s] = results[s]
                           /\ matched_paise'[s] = matched_paise[s]

DecisionsAreFinal == [][DecisionIsFinal]_vars

\* exceptions.py:34 says of AMBIGUOUS_BANK_MATCH that two or more credits fit
\* equally well, and attribution.py:229 reports it for every settlement that
\* ends ambiguous and without a line: at least one line must be in its trail.
AmbiguousMeansACreditFits ==
    pass = RETURNED =>
        \A s \in Unresolved : results[s].is_ambiguous =>
            \E r \in BagToSet(candidates) : r.settlement = s

\* The matcher implements the assignment: every visit gives lines away, flags
\* an open settlement, or changes nothing the assignment can see
\* (matcher.py:58-291).
Assignment == INSTANCE CreditAssignment WITH
    Total <- SumFunctionOnSet,
    net <- Net, credit <- Credit,
    link <- [s \in Settlement |-> results[s].bank_ids],
    flagged <- {s \in Settlement : results[s].is_ambiguous}

ImplementsAssignment == Assignment!Spec
=============================================================================
