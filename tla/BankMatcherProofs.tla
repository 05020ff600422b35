-------------------------- MODULE BankMatcherProofs --------------------------
(***************************************************************************)
(* Theorems about the bank matcher, for every number of settlements and of *)
(* bank lines, every policy and every set of snapshots.                    *)
(*                                                                         *)
(* Every visit has one of four effects on the decision (Effect below); the *)
(* invariants and the refinement are proved by these four cases.           *)
(***************************************************************************)
EXTENDS BankMatcher, FiniteSetTheorems, SumTheorems, TLAPS

-----------------------------------------------------------------------------
(***************************************************************************)
(* Type correctness.                                                       *)
(***************************************************************************)

LEMMA SnapshotTyping ==
    ASSUME TypeOK
    PROVE  /\ snap \in SnapshotType
           /\ Net \in [Settlement -> Int]
           /\ Credit \in [Bank -> Nat]
           /\ \A s \in Settlement : UtrOf(s) \in Utr \cup {NoUtr}
           /\ Free \subseteq Bank /\ Unresolved \subseteq Settlement
<1>1. snap \in SnapshotType
  BY SnapshotAssumption DEF TypeOK, SnapshotAssumption
<1> QED
  BY <1>1 DEF SnapshotType, Net, Credit, UtrOf, Free, Credits, Unresolved

\* Recording candidates keeps the trail a bag of rows.
LEMMA ExamineTyping ==
    ASSUME IsABag(candidates), BagToSet(candidates) \subseteq CandidateRow,
           NEW S \in SUBSET Settlement, NEW B \in SUBSET Bank, NEW p \in Pass,
           NEW selected \in BOOLEAN, NEW ambiguous \in BOOLEAN,
           Examine(S, B, p, selected, ambiguous)
    PROVE  IsABag(candidates') /\ BagToSet(candidates') \subseteq CandidateRow
<1> DEFINE rows == [settlement : S, bank : B, pass_name : {p},
                    is_selected : {selected}, is_ambiguous : {ambiguous}]
<1>1. rows \subseteq CandidateRow
  BY DEF CandidateRow
<1>2. candidates' = candidates (+) SetToBag(rows)
  BY DEF Examine
<1> HIDE DEF rows
<1>3. DOMAIN candidates' = DOMAIN candidates \cup rows
  BY <1>2 DEF (+), SetToBag
<1>4. \A r \in DOMAIN candidates' : candidates'[r] \in Nat /\ candidates'[r] > 0
  BY <1>2, <1>3 DEF (+), SetToBag, IsABag
<1> QED
  BY <1>1, <1>2, <1>3, <1>4 DEF BagToSet, IsABag, (+)

\* The part of the state a decision writes.
DecisionTyping ==
    /\ results \in [Settlement -> MatchResult]
    /\ matched_paise \in [Settlement -> Int]
    /\ claimed \subseteq Bank /\ resolved \subseteq Settlement

\* What lines bring, and what settlements are due, is a number.
LEMMA MoneyTyping ==
    ASSUME TypeOK
    PROVE  /\ \A lines \in SUBSET Bank : /\ IsFiniteSet(lines) /\ IntegerOn(Credit, lines)
                                         /\ SumFunctionOnSet(Credit, lines) \in Int
           /\ \A S \in SUBSET Settlement : IsFiniteSet(S) /\ IntegerOn(Net, S)
<1>1. IsFiniteSet(Bank) /\ IsFiniteSet(Settlement)
  BY SizeAssumption, FS_Interval DEF SizeAssumption, Bank, Settlement
<1>2. Credit \in [Bank -> Nat] /\ Net \in [Settlement -> Int]
  BY SnapshotTyping
<1>3. /\ \A lines \in SUBSET Bank : IsFiniteSet(lines) /\ IntegerOn(Credit, lines)
      /\ \A S \in SUBSET Settlement : IsFiniteSet(S) /\ IntegerOn(Net, S)
  BY <1>1, <1>2, FS_Subset DEF IntegerOn
<1> QED
  BY <1>3, SumType

LEMMA SelectTyping ==
    ASSUME TypeOK, NEW s \in Settlement, NEW lines \in SUBSET Bank,
           NEW p \in Pass, Select(s, lines, p)
    PROVE  DecisionTyping'
<1>1. PASS_TIERS[p] \in {"A", "B", "C"}
  BY DEF PASS_TIERS
<1>2. SumFunctionOnSet(Credit, lines) \in Int
  BY MoneyTyping
<1> QED
  BY <1>1, <1>2 DEF TypeOK, DecisionTyping, Select, MatchResult

LEMMA MarkTyping ==
    ASSUME DecisionTyping, NEW s \in Settlement, MarkAmbiguous(s)
    PROVE  DecisionTyping'
BY DEF DecisionTyping, MarkAmbiguous, MatchResult

LEMMA MergeTyping ==
    ASSUME TypeOK, NEW b \in Bank, NEW S \in SUBSET Settlement, Merge(b, S)
    PROVE  DecisionTyping'
<1>1. SUBSET_SUM_MERGED \in Pass
  BY DEF Pass, SUBSET_SUM_MERGED, EXACT_UTR, FUZZY_REFERENCE
<1>2. \A s \in Settlement : Paid(s, b) \in MatchResult
  BY <1>1 DEF TypeOK, Paid, MatchResult
<1>3. Net \in [Settlement -> Int]
  BY SnapshotTyping
<1> QED
  BY <1>2, <1>3 DEF TypeOK, DecisionTyping, Merge


\* The lines a visit may choose from are lines of the statement.
LEMMA HitsTyping ==
    ASSUME TypeOK, NEW s \in Settlement
    PROVE  /\ ExactUtrHits(s) \subseteq Free /\ NarrationHits(s) \subseteq Free
           /\ SuffixHits(s) \subseteq Free /\ AmountDateHits(s) \subseteq Free
           /\ WideHits(s) \subseteq Free /\ FuzzyHits(s) \subseteq Free
           /\ SplitPool(s) \subseteq Free /\ Free \subseteq Bank
           /\ \A B \in SplitSolutions(s) : B \subseteq Free
BY SnapshotTyping DEF ExactUtrHits, NarrationHits, SuffixHits, AmountDateHits,
   WideHits, FuzzyHits, SplitPool, SplitSolutions, Solutions, Top

LEMMA PoolTyping ==
    ASSUME TypeOK, NEW b \in Bank
    PROVE  /\ MergedPool(b) \subseteq Unresolved /\ Unresolved \subseteq Settlement
           /\ \A S \in MergedSolutions(b) : S \subseteq Unresolved
BY SnapshotTyping DEF MergedPool, MergedSolutions, Solutions, Top

TrailTyping == IsABag(candidates) /\ BagToSet(candidates) \subseteq CandidateRow

LEMMA DecideTyping ==
    ASSUME TypeOK, NEW s \in Settlement, NEW p \in Pass,
           NEW hits \in SUBSET Bank, Decide(s, p, hits)
    PROVE  DecisionTyping' /\ TrailTyping'
<1>1. DecisionTyping /\ TrailTyping
  BY DEF TypeOK, DecisionTyping, TrailTyping
<1>2. CASE Nothing
  BY <1>1, <1>2 DEF Nothing, decision, DecisionTyping, TrailTyping
<1>3. CASE Examine({s}, hits, p, TRUE, FALSE) /\ Select(s, hits, p)
  <2>1. DecisionTyping'
    BY <1>1, <1>3, SelectTyping
  <2>2. TrailTyping'
    BY <1>1, <1>3, ExamineTyping, {s} \in SUBSET Settlement DEF TrailTyping
  <2> QED BY <2>1, <2>2
<1>4. CASE Examine({s}, hits, p, FALSE, TRUE) /\ MarkAmbiguous(s)
  <2>1. DecisionTyping'
    BY <1>1, <1>4, MarkTyping
  <2>2. TrailTyping'
    BY <1>1, <1>4, ExamineTyping, {s} \in SUBSET Settlement DEF TrailTyping
  <2> QED BY <2>1, <2>2
<1> QED
  BY <1>2, <1>3, <1>4 DEF Decide

LEMMA MergedVisitTyping ==
    ASSUME TypeOK, NEW b \in Bank, SubsetSumMerged(b)
    PROVE  DecisionTyping' /\ TrailTyping'
<1>1. DecisionTyping /\ TrailTyping
  BY DEF TypeOK, DecisionTyping, TrailTyping
<1>2. SUBSET_SUM_MERGED \in Pass /\ {b} \in SUBSET Bank
  BY DEF Pass, SUBSET_SUM_MERGED, EXACT_UTR, FUZZY_REFERENCE
<1>3. CASE Nothing
  BY <1>1, <1>3 DEF Nothing, decision, DecisionTyping, TrailTyping
<1>4. CASE \E S \in MergedSolutions(b) : Merge(b, S)
  <2>1. PICK S \in MergedSolutions(b) : Merge(b, S)
    BY <1>4
  <2>2. S \in SUBSET Settlement
    BY PoolTyping
  <2>3. DecisionTyping'
    BY <1>1, <2>1, <2>2, MergeTyping
  <2>4. TrailTyping'
    BY <1>1, <1>2, <2>1, <2>2, ExamineTyping DEF Merge, TrailTyping
  <2> QED BY <2>3, <2>4
<1>5. CASE /\ Examine(MergedPool(b), {b}, SUBSET_SUM_MERGED, FALSE, TRUE)
           /\ UNCHANGED decision
  <2>1. DecisionTyping'
    BY <1>1, <1>5 DEF decision, DecisionTyping
  <2>2. MergedPool(b) \in SUBSET Settlement
    BY PoolTyping
  <2>3. TrailTyping'
    BY <1>1, <1>2, <1>5, <2>2, ExamineTyping DEF TrailTyping
  <2> QED BY <2>1, <2>3
<1> QED
  BY <1>3, <1>4, <1>5 DEF SubsetSumMerged

LEMMA SplitVisitTyping ==
    ASSUME TypeOK, NEW s \in Settlement, SubsetSumSplit(s)
    PROVE  DecisionTyping' /\ TrailTyping'
<1>1. DecisionTyping /\ TrailTyping
  BY DEF TypeOK, DecisionTyping, TrailTyping
<1>2. SUBSET_SUM_SPLIT \in Pass /\ {s} \in SUBSET Settlement
  BY DEF Pass, SUBSET_SUM_SPLIT, EXACT_UTR, FUZZY_REFERENCE
<1>3. CASE Nothing
  BY <1>1, <1>3 DEF Nothing, decision, DecisionTyping, TrailTyping
<1>4. CASE \E B \in SplitSolutions(s) : /\ Examine({s}, B, SUBSET_SUM_SPLIT, TRUE, FALSE)
                                        /\ Select(s, B, SUBSET_SUM_SPLIT)
  <2>1. PICK B \in SplitSolutions(s) : /\ Examine({s}, B, SUBSET_SUM_SPLIT, TRUE, FALSE)
                                       /\ Select(s, B, SUBSET_SUM_SPLIT)
    BY <1>4
  <2>2. B \in SUBSET Bank
    BY HitsTyping
  <2>3. DecisionTyping'
    BY <1>1, <1>2, <2>1, <2>2, SelectTyping
  <2>4. TrailTyping'
    BY <1>1, <1>2, <2>1, <2>2, ExamineTyping DEF TrailTyping
  <2> QED BY <2>3, <2>4
<1>5. CASE /\ Examine({s}, SplitPool(s), SUBSET_SUM_SPLIT, FALSE, TRUE)
           /\ MarkAmbiguous(s)
  <2>1. DecisionTyping'
    BY <1>1, <1>5, MarkTyping
  <2>2. SplitPool(s) \in SUBSET Bank
    BY HitsTyping
  <2>3. TrailTyping'
    BY <1>1, <1>2, <1>5, <2>2, ExamineTyping DEF TrailTyping
  <2> QED BY <2>1, <2>3
<1> QED
  BY <1>3, <1>4, <1>5 DEF SubsetSumSplit

\* A refusal records candidates and marks at most the settlement it visits.
LEMMA RefusalTyping ==
    ASSUME TypeOK, NEW s \in Settlement, NEW p \in Pass, NEW hits \in SUBSET Bank,
           Examine({s}, hits, p, FALSE, TRUE),
           MarkAmbiguous(s) \/ UNCHANGED decision
    PROVE  DecisionTyping' /\ TrailTyping'
<1>1. DecisionTyping /\ TrailTyping
  BY DEF TypeOK, DecisionTyping, TrailTyping
<1>2. DecisionTyping'
  BY <1>1, MarkTyping DEF decision, DecisionTyping
<1>3. TrailTyping'
  BY <1>1, ExamineTyping, {s} \in SUBSET Settlement DEF TrailTyping
<1> QED
  BY <1>2, <1>3

LEMMA VisitSettlementTyping ==
    ASSUME TypeOK, NEW s \in Settlement, VisitSettlement(s)
    PROVE  DecisionTyping' /\ TrailTyping'
<1>1. DecisionTyping /\ TrailTyping
  BY DEF TypeOK, DecisionTyping, TrailTyping
<1>2. /\ EXACT_UTR \in Pass /\ UTR_IN_NARRATION \in Pass /\ UTR_SUFFIX \in Pass
      /\ EXACT_AMOUNT_DATE \in Pass /\ AMOUNT_WIDE_WINDOW \in Pass
      /\ FUZZY_REFERENCE \in Pass
  BY DEF Pass, EXACT_UTR, UTR_IN_NARRATION, UTR_SUFFIX, EXACT_AMOUNT_DATE,
         AMOUNT_WIDE_WINDOW, FUZZY_REFERENCE
<1>3. /\ ExactUtrHits(s) \in SUBSET Bank /\ NarrationHits(s) \in SUBSET Bank
      /\ SuffixHits(s) \in SUBSET Bank /\ AmountDateHits(s) \in SUBSET Bank
      /\ WideHits(s) \in SUBSET Bank /\ FuzzyHits(s) \in SUBSET Bank
  BY HitsTyping
<1>4. CASE Nothing
  BY <1>1, <1>4 DEF Nothing, decision, DecisionTyping, TrailTyping
<1>5. CASE ExactUtr(s)
  BY <1>2, <1>3, <1>4, <1>5, DecideTyping DEF ExactUtr
<1>6. CASE UtrInNarration(s)
  BY <1>2, <1>3, <1>4, <1>6, DecideTyping DEF UtrInNarration
<1>7. CASE UtrSuffix(s)
  BY <1>2, <1>3, <1>4, <1>7, DecideTyping, RefusalTyping DEF UtrSuffix
<1>8. CASE ExactAmountDate(s)
  BY <1>2, <1>3, <1>4, <1>8, DecideTyping, RefusalTyping DEF ExactAmountDate
<1>9. CASE AmountWideWindow(s)
  BY <1>2, <1>3, <1>4, <1>9, DecideTyping, RefusalTyping DEF AmountWideWindow
<1>10. CASE FuzzyReference(s)
  BY <1>2, <1>3, <1>4, <1>10, DecideTyping DEF FuzzyReference
<1> QED
  BY <1>5, <1>6, <1>7, <1>8, <1>9, <1>10, SplitVisitTyping DEF VisitSettlement

LEMMA VisitIsTyped ==
    ASSUME TypeOK, NEW p, NEW i \in Nat, NEW last, Visit(p, i, last)
    PROVE  snap' \in Snapshots /\ pass' \in EXACT_UTR .. RETURNED /\ cursor' \in Nat \ {0}
BY DEF TypeOK, Visit, EXACT_UTR, RETURNED

LEMMA NextTypeOK == TypeOK /\ [Next]_vars => TypeOK'
<1> SUFFICES ASSUME TypeOK, [Next]_vars PROVE TypeOK'
  OBVIOUS
<1>1. CASE \E s \in Settlement : VisitSettlement(s)
  <2>1. PICK s \in Settlement : VisitSettlement(s)
    BY <1>1
  <2>2. DecisionTyping' /\ TrailTyping'
    BY <2>1, VisitSettlementTyping
  <2>3. PICK p : Visit(p, s, NSettlement)
    BY <2>1 DEF VisitSettlement, ExactUtr, UtrInNarration, UtrSuffix,
       ExactAmountDate, SubsetSumSplit, AmountWideWindow, FuzzyReference
  <2>4. s \in Nat
    BY SizeAssumption DEF SizeAssumption, Settlement
  <2> QED
    BY <2>2, <2>3, <2>4, VisitIsTyped DEF TypeOK, DecisionTyping, TrailTyping
<1>2. CASE \E b \in Bank : SubsetSumMerged(b)
  <2>1. PICK b \in Bank : SubsetSumMerged(b)
    BY <1>2
  <2>2. DecisionTyping' /\ TrailTyping'
    BY <2>1, MergedVisitTyping
  <2>3. Visit(SUBSET_SUM_MERGED, b, NBank)
    BY <2>1 DEF SubsetSumMerged
  <2>4. b \in Nat
    BY SizeAssumption DEF SizeAssumption, Bank
  <2> QED
    BY <2>2, <2>3, <2>4, VisitIsTyped DEF TypeOK, DecisionTyping, TrailTyping
<1>3. CASE EndPass
  BY <1>3 DEF EndPass, TypeOK, decision, EXACT_UTR, RETURNED
<1>4. CASE Returned \/ UNCHANGED vars
  BY <1>4 DEF Returned, vars, decision, TypeOK
<1> QED
  BY <1>1, <1>2, <1>3, <1>4 DEF Next

LEMMA InitTypeOK == Init => TypeOK
BY DEF Init, Unmatched, TypeOK, MatchResult, EmptyBag, SetToBag, IsABag, BagToSet,
   EXACT_UTR, RETURNED

\* The matcher's state keeps its types, whatever it is run on.
THEOREM TypeCorrect == Spec => []TypeOK
BY InitTypeOK, NextTypeOK, PTL DEF Spec

-----------------------------------------------------------------------------
(***************************************************************************)
(* What a visit does to the decision.                                      *)
(***************************************************************************)

\* The lines given to a settlement: a single one, or several that add up.
Complete(s, lines) ==
    \/ \E b \in Free : lines = {b}
    \/ /\ lines \subseteq Free /\ Cardinality(lines) >= 2
       /\ SumFunctionOnSet(Credit, lines) = Net[s]

\* No other open settlement has a claim to these lines.
Exclusive(s, p, lines) ==
    \A t \in Unresolved \ {s} : \A b \in lines :
        Credit[b] = Net[t] =>
            /\ p = EXACT_AMOUNT_DATE => ~OnTime(b, t)
            /\ p = AMOUNT_WIDE_WINDOW => ~InWindow(b, t)

\* An amount-and-date match leaves no open sibling behind.
NoOpenSibling(s) ==
    \A t \in Unresolved : ~(Twins(s, t, Tolerance) /\ Net[t] = Net[s])

Awards(s, p, lines) ==
    /\ Select(s, lines, p)
    /\ Complete(s, lines) /\ Exclusive(s, p, lines)
    /\ p = EXACT_AMOUNT_DATE => NoOpenSibling(s)

Shares(b, S) ==
    /\ Merge(b, S)
    /\ Cardinality(S) >= 2 /\ SumFunctionOnSet(Net, S) = Credit[b]

Effect ==
    \/ UNCHANGED decision
    \/ \E s \in Unresolved : MarkAmbiguous(s)
    \/ \E s \in Unresolved, p \in Pass \ {SUBSET_SUM_MERGED}, lines \in SUBSET Bank :
           Awards(s, p, lines)
    \/ \E b \in Free, S \in SUBSET Unresolved : Shares(b, S)

\* While the first pass runs, only settlements it has left are resolved: this
\* is why it needs no test of its own.
FirstPassInOrder ==
    pass = EXACT_UTR => \A s \in resolved : s < cursor

LEMMA DecideEffect ==
    ASSUME TypeOK, NEW s \in Unresolved, NEW p \in Pass \ {SUBSET_SUM_MERGED},
           NEW hits \in SUBSET Free, Decide(s, p, hits),
           Unique(hits) => Exclusive(s, p, hits),
           p = EXACT_AMOUNT_DATE => NoOpenSibling(s)
    PROVE  Effect
<1>1. CASE Nothing
  BY <1>1 DEF Nothing, Effect
<1>2. CASE Unique(hits) /\ Select(s, hits, p)
  <2>1. Complete(s, hits)
    BY <1>2 DEF Unique, Complete
  <2>2. hits \in SUBSET Bank
    BY SnapshotTyping
  <2> QED
    BY <1>2, <2>1, <2>2 DEF Effect, Awards
<1>3. CASE MarkAmbiguous(s)
  BY <1>3 DEF Effect
<1> QED
  BY <1>1, <1>2, <1>3 DEF Decide

LEMMA PassNumbers ==
    /\ EXACT_UTR = 1 /\ UTR_IN_NARRATION = 2 /\ UTR_SUFFIX = 3
    /\ EXACT_AMOUNT_DATE = 4 /\ SUBSET_SUM_MERGED = 5 /\ SUBSET_SUM_SPLIT = 6
    /\ AMOUNT_WIDE_WINDOW = 7 /\ FUZZY_REFERENCE = 8 /\ RETURNED = 9 /\ NONE = 0
    /\ Pass = 1 .. 8
BY DEF EXACT_UTR, UTR_IN_NARRATION, UTR_SUFFIX, EXACT_AMOUNT_DATE,
   SUBSET_SUM_MERGED, SUBSET_SUM_SPLIT, AMOUNT_WIDE_WINDOW, FUZZY_REFERENCE,
   RETURNED, NONE, Pass

\* The tolerance is the same on both sides of the argument: a line on time for
\* two settlements proves them siblings.
LEMMA AmountDateExclusive ==
    ASSUME TypeOK, NEW s \in Unresolved, AmountDateRivals(s) = {}
    PROVE  /\ Exclusive(s, EXACT_AMOUNT_DATE, AmountDateHits(s))
           /\ NoOpenSibling(s)
<1>1. snap \in SnapshotType /\ Unresolved \subseteq Settlement /\ Free \subseteq Bank
  BY SnapshotTyping
<1>2. NoOpenSibling(s)
  BY DEF NoOpenSibling, AmountDateRivals
<1>3. ASSUME NEW t \in Unresolved \ {s}, NEW b \in AmountDateHits(s),
             Credit[b] = Net[t]
      PROVE  ~OnTime(b, t)
  <2>1. b \in Bank /\ Credit[b] = Net[s] /\ OnTime(b, s)
    BY <1>1, <1>3 DEF AmountDateHits
  <2>2. /\ snap.s[s].date \in Int /\ snap.s[t].date \in Int
        /\ snap.b[b].date \in Int /\ Tolerance \in Int
    BY <1>1, <1>3, <2>1, PolicyAssumption DEF SnapshotType, PolicyAssumption
  <2>3. ~Twins(s, t, Tolerance)
    BY <1>2, <1>3, <2>1 DEF NoOpenSibling
  <2> QED
    BY <1>3, <2>1, <2>2, <2>3 DEF OnTime, Twins, Within
<1> QED
  BY <1>2, <1>3, PassNumbers DEF Exclusive

LEMMA WideExclusive ==
    ASSUME TypeOK, NEW s \in Unresolved, WideRivals(s) = {}
    PROVE  Exclusive(s, AMOUNT_WIDE_WINDOW, WideHits(s))
BY PassNumbers DEF Exclusive, WideRivals, WideHits

LEMMA EmptyIsNotTwo == \A S : Cardinality(S) >= 2 => S # {}
BY FS_EmptySet

LEMMA TwoAreSeveral ==
    ASSUME NEW S, Cardinality(S) >= 2
    PROVE  Several(S)
<1>1. CASE S = {}
  BY <1>1, EmptyIsNotTwo
<1>2. CASE \E x : S = {x}
  BY <1>2, FS_Singleton
<1> QED
  BY <1>1, <1>2 DEF Several

LEMMA VisitSettlementEffect ==
    ASSUME TypeOK, FirstPassInOrder, NEW s \in Settlement, VisitSettlement(s)
    PROVE  Effect
<1>1. CASE Nothing \/ UNCHANGED decision
  BY <1>1 DEF Nothing, Effect
<1>2. CASE ExactUtr(s)
  <2>1. s \in Unresolved
    BY <1>2, SizeAssumption DEF FirstPassInOrder, ExactUtr, Visit, Unresolved,
       SizeAssumption, Settlement
  <2> QED
    BY <1>1, <1>2, <2>1, HitsTyping, DecideEffect, PassNumbers DEF ExactUtr, Exclusive
<1>3. CASE UtrInNarration(s)
  BY <1>1, <1>3, HitsTyping, DecideEffect, PassNumbers
     DEF UtrInNarration, Exclusive, Unresolved
<1>4. CASE UtrSuffix(s)
  <2>1. CASE s \notin resolved /\ Decide(s, UTR_SUFFIX, SuffixHits(s))
    BY <2>1, HitsTyping, DecideEffect, PassNumbers DEF Exclusive, Unresolved
  <2> QED
    BY <1>1, <1>4, <2>1 DEF UtrSuffix
<1>5. CASE ExactAmountDate(s)
  <2>1. CASE s \notin resolved /\ MarkAmbiguous(s)
    BY <2>1 DEF Effect, Unresolved
  <2>2. CASE /\ s \notin resolved /\ AmountDateRivals(s) = {}
             /\ Decide(s, EXACT_AMOUNT_DATE, AmountDateHits(s))
    BY <2>2, HitsTyping, DecideEffect, AmountDateExclusive, PassNumbers DEF Unresolved
  <2> QED
    BY <1>1, <1>5, <2>1, <2>2 DEF ExactAmountDate
<1>6. CASE AmountWideWindow(s)
  <2>1. CASE s \notin resolved /\ MarkAmbiguous(s)
    BY <2>1 DEF Effect, Unresolved
  <2>2. CASE /\ s \notin resolved /\ WideRivals(s) = {}
             /\ Decide(s, AMOUNT_WIDE_WINDOW, WideHits(s))
    BY <2>2, HitsTyping, DecideEffect, WideExclusive, PassNumbers DEF Unresolved
  <2> QED
    BY <1>1, <1>6, <2>1, <2>2 DEF AmountWideWindow
<1>7. CASE FuzzyReference(s)
  BY <1>1, <1>7, HitsTyping, DecideEffect, PassNumbers
     DEF FuzzyReference, Exclusive, Unresolved
<1>8. CASE SubsetSumSplit(s)
  <2>1. CASE s \notin resolved /\ MarkAmbiguous(s)
    BY <2>1 DEF Effect, Unresolved
  <2>2. ASSUME NEW B \in SplitSolutions(s), s \notin resolved,
               Select(s, B, SUBSET_SUM_SPLIT)
        PROVE  Effect
    <3>1. /\ B \subseteq Free /\ B \in SUBSET Bank
          /\ Cardinality(B) >= 2 /\ SumFunctionOnSet(Credit, B) = Net[s]
      BY HitsTyping DEF SplitSolutions, Solutions
    <3>2. Awards(s, SUBSET_SUM_SPLIT, B)
      BY <2>2, <3>1, PassNumbers DEF Awards, Complete, Exclusive
    <3> QED
      BY <2>2, <3>1, <3>2, PassNumbers DEF Effect, Unresolved
  <2> QED
    BY <1>1, <1>8, <2>1, <2>2 DEF SubsetSumSplit
<1> QED
  BY <1>2, <1>3, <1>4, <1>5, <1>6, <1>7, <1>8 DEF VisitSettlement

LEMMA SubsetSumMergedEffect ==
    ASSUME TypeOK, NEW b \in Bank, SubsetSumMerged(b)
    PROVE  Effect
<1>1. CASE UNCHANGED decision
  BY <1>1 DEF Effect
<1>2. ASSUME NEW S \in MergedSolutions(b), b \in Free, Merge(b, S)
      PROVE  Effect
  BY <1>2, PoolTyping DEF Effect, Shares, MergedSolutions, Solutions
<1> QED
  BY <1>1, <1>2 DEF SubsetSumMerged, Nothing

LEMMA StepEffect ==
    ASSUME TypeOK, FirstPassInOrder, [Next]_vars
    PROVE  Effect /\ snap' = snap
<1>1. CASE \E s \in Settlement : VisitSettlement(s)
  BY <1>1, VisitSettlementEffect DEF VisitSettlement, ExactUtr, UtrInNarration,
     UtrSuffix, ExactAmountDate, SubsetSumSplit, AmountWideWindow, FuzzyReference, Visit
<1>2. CASE \E b \in Bank : SubsetSumMerged(b)
  BY <1>2, SubsetSumMergedEffect DEF SubsetSumMerged, Visit
<1>3. CASE EndPass \/ Returned \/ UNCHANGED vars
  BY <1>3 DEF EndPass, Returned, vars, Effect
<1> QED
  BY <1>1, <1>2, <1>3 DEF Next

-----------------------------------------------------------------------------
(***************************************************************************)
(* The inductive invariant.  The properties of the runs are not inductive: *)
(* the books are what tells a free line from an owned one, and what an     *)
(* amount-and-date match knew of its siblings must be remembered.          *)
(***************************************************************************)
SiblingsWereResolved ==
    \A s, t \in Settlement :
        /\ results[s].pass_name = EXACT_AMOUNT_DATE
        /\ Twins(s, t, Tolerance) /\ Net[s] = Net[t]
        => t \in resolved /\ results[t].pass_name # EXACT_AMOUNT_DATE

\* No money without a decision: with this the total is inductive.
OpenMeansUnpaid == \A s \in Unresolved : matched_paise[s] = 0

IInv ==
    /\ TypeOK
    /\ FirstPassInOrder
    /\ BooksAgree
    /\ LineHasOneOwner
    /\ AmountMatchLeavesNoClaimant
    /\ SiblingsWereResolved
    /\ OpenMeansUnpaid
    /\ MoneyConserved

LEMMA FirstPassStays ==
    ASSUME TypeOK, FirstPassInOrder, [Next]_vars
    PROVE  FirstPassInOrder'
<1>1. cursor \in Nat /\ pass \in Nat
  BY PassNumbers DEF TypeOK
<1>2. CASE \E s \in Settlement : VisitSettlement(s)
  <2>1. PICK s \in Settlement : VisitSettlement(s)
    BY <1>2
  <2>2. CASE ExactUtr(s)
    <3>1. cursor = s /\ cursor' = cursor + 1 /\ pass' = pass /\ pass = EXACT_UTR
      BY <2>2 DEF ExactUtr, Visit
    <3>2. resolved' \subseteq resolved \cup {s}
      BY <2>2 DEF ExactUtr, Decide, Select, MarkAmbiguous, Nothing, decision
    <3>3. \A r \in Settlement : r \in Int
      BY SizeAssumption DEF SizeAssumption, Settlement
    <3> QED
      BY <1>1, <3>1, <3>2, <3>3 DEF FirstPassInOrder, TypeOK
  <2>3. CASE ~ExactUtr(s)
    <3>1. \/ Visit(UTR_IN_NARRATION, s, NSettlement) \/ Visit(UTR_SUFFIX, s, NSettlement)
          \/ Visit(EXACT_AMOUNT_DATE, s, NSettlement)
          \/ Visit(SUBSET_SUM_SPLIT, s, NSettlement)
          \/ Visit(AMOUNT_WIDE_WINDOW, s, NSettlement)
          \/ Visit(FUZZY_REFERENCE, s, NSettlement)
      BY <2>1, <2>3 DEF VisitSettlement, UtrInNarration, UtrSuffix,
         ExactAmountDate, SubsetSumSplit, AmountWideWindow, FuzzyReference
    <3> QED
      BY <3>1, PassNumbers DEF Visit, FirstPassInOrder
  <2> QED
    BY <2>2, <2>3
<1>3. CASE \E b \in Bank : SubsetSumMerged(b)
  BY <1>3, PassNumbers DEF SubsetSumMerged, Visit, FirstPassInOrder
<1>4. CASE EndPass
  BY <1>1, <1>4, PassNumbers DEF EndPass, FirstPassInOrder, TypeOK
<1>5. CASE Returned \/ UNCHANGED vars
  BY <1>5 DEF Returned, vars, decision, FirstPassInOrder
<1> QED
  BY <1>2, <1>3, <1>4, <1>5 DEF Next

\* Only the settlements an effect names change.
LEMMA AwardChanges ==
    ASSUME TypeOK, NEW s \in Settlement, NEW p \in Pass, NEW lines \in SUBSET Bank,
           Select(s, lines, p)
    PROVE  /\ results'[s].bank_ids = lines /\ results'[s].pass_name = p
           /\ results'[s].tier = PASS_TIERS[p]
           /\ \A t \in Settlement \ {s} : /\ results'[t] = results[t]
                                          /\ matched_paise'[t] = matched_paise[t]
BY DEF TypeOK, MatchResult, Select

LEMMA ShareChanges ==
    ASSUME TypeOK, NEW b \in Bank, NEW S \in SUBSET Settlement, Merge(b, S)
    PROVE  /\ \A s \in S : /\ results'[s].bank_ids = {b}
                           /\ results'[s].pass_name = SUBSET_SUM_MERGED
                           /\ results'[s].tier = "A"
           /\ \A t \in Settlement \ S : /\ results'[t] = results[t]
                                        /\ matched_paise'[t] = matched_paise[t]
<1>1. \A s \in Settlement : results[s] \in MatchResult
  BY DEF TypeOK
<1>2. \A s \in S : results'[s] = Paid(s, b)
  BY DEF Merge
<1>3. \A s \in S : /\ Paid(s, b).bank_ids = {b} /\ Paid(s, b).tier = "A"
                   /\ Paid(s, b).pass_name = SUBSET_SUM_MERGED
  BY <1>1 DEF Paid, MatchResult
<1> QED
  BY <1>2, <1>3 DEF Merge

LEMMA MarkChanges ==
    ASSUME TypeOK, NEW s \in Settlement, MarkAmbiguous(s)
    PROVE  /\ \A t \in Settlement : /\ results'[t].bank_ids = results[t].bank_ids
                                    /\ results'[t].pass_name = results[t].pass_name
                                    /\ results'[t].tier = results[t].tier
           /\ \A t \in Settlement \ {s} : results'[t] = results[t]
           /\ UNCHANGED <<matched_paise, claimed, resolved>>
BY DEF TypeOK, MatchResult, MarkAmbiguous

LEMMA BooksStay ==
    ASSUME TypeOK, TypeOK', BooksAgree, Effect
    PROVE  BooksAgree'
<1> DEFINE Held(r, b) == \E s \in Settlement : b \in r[s].bank_ids
<1>1. /\ \A b : b \in claimed <=> Held(results, b)
      /\ \A s \in Settlement :
             /\ s \in resolved <=> results[s].bank_ids # {}
             /\ s \in resolved <=> results[s].pass_name # NONE
             /\ results[s].tier = IF s \in resolved
                                  THEN PASS_TIERS[results[s].pass_name] ELSE "C"
  BY DEF BooksAgree
<1>2. SUFFICES
        /\ \A b : b \in claimed' <=> Held(results', b)
        /\ \A s \in Settlement :
               /\ s \in resolved' <=> results'[s].bank_ids # {}
               /\ s \in resolved' <=> results'[s].pass_name # NONE
               /\ results'[s].tier = IF s \in resolved'
                                    THEN PASS_TIERS[results'[s].pass_name] ELSE "C"
  <2>1. claimed' = UNION {results'[s].bank_ids : s \in Settlement}
    BY <1>2
  <2>2. resolved' = {s \in Settlement : results'[s].bank_ids # {}}
    BY <1>2 DEF TypeOK
  <2> QED
    BY <1>2, <2>1, <2>2 DEF BooksAgree
<1>3. CASE UNCHANGED decision
  BY <1>1, <1>3 DEF decision
<1>4. CASE \E s \in Unresolved : MarkAmbiguous(s)
  BY <1>1, <1>4, MarkChanges DEF Unresolved
<1>5. ASSUME NEW s \in Unresolved, NEW p \in Pass, NEW lines \in SUBSET Bank,
             Select(s, lines, p), lines # {}
      PROVE  /\ \A b : b \in claimed' <=> Held(results', b)
             /\ \A t \in Settlement :
                    /\ t \in resolved' <=> results'[t].bank_ids # {}
                    /\ t \in resolved' <=> results'[t].pass_name # NONE
                    /\ results'[t].tier = IF t \in resolved'
                                         THEN PASS_TIERS[results'[t].pass_name] ELSE "C"
  <2>1. /\ s \in Settlement /\ results[s].bank_ids = {}
        /\ claimed' = claimed \cup lines /\ resolved' = resolved \cup {s}
    BY <1>1, <1>5 DEF Unresolved, Select
  <2> QED
    BY <1>1, <1>5, <2>1, AwardChanges, PassNumbers
<1>6. ASSUME NEW c \in Free, NEW S \in SUBSET Unresolved, Merge(c, S), S # {}
      PROVE  /\ \A b : b \in claimed' <=> Held(results', b)
             /\ \A t \in Settlement :
                    /\ t \in resolved' <=> results'[t].bank_ids # {}
                    /\ t \in resolved' <=> results'[t].pass_name # NONE
                    /\ results'[t].tier = IF t \in resolved'
                                         THEN PASS_TIERS[results'[t].pass_name] ELSE "C"
  <2>1. /\ c \in Bank /\ S \subseteq Settlement
        /\ \A s \in S : results[s].bank_ids = {}
        /\ claimed' = claimed \cup {c} /\ resolved' = resolved \cup S
    BY <1>1, <1>6, SnapshotTyping DEF Unresolved, Merge
  <2>2. PASS_TIERS[SUBSET_SUM_MERGED] = "A" /\ SUBSET_SUM_MERGED # NONE
    BY PassNumbers DEF PASS_TIERS
  <2>3. \A b : b \in claimed' <=> Held(results', b)
    BY <1>1, <1>6, <2>1, ShareChanges
  <2> QED
    BY <1>1, <1>6, <2>1, <2>2, <2>3, ShareChanges
<1> QED
  BY <1>3, <1>4, <1>5, <1>6, EmptyIsNotTwo DEF Effect, Awards, Shares, Complete

\* A free line is in nobody's hands.
LEMMA FreeMeansUnowned ==
    ASSUME BooksAgree, NEW b \in Free, NEW s \in Settlement
    PROVE  b \notin results[s].bank_ids
BY DEF BooksAgree, Free

LEMMA OneOwnerStays ==
    ASSUME TypeOK, BooksAgree, LineHasOneOwner, Effect
    PROVE  LineHasOneOwner'
<1>1. CASE UNCHANGED decision
  BY <1>1 DEF decision, LineHasOneOwner
<1>2. CASE \E s \in Unresolved : MarkAmbiguous(s)
  BY <1>2, MarkChanges DEF Unresolved, LineHasOneOwner
<1>3. ASSUME NEW s \in Unresolved, NEW p \in Pass, NEW lines \in SUBSET Bank,
             Select(s, lines, p), lines \subseteq Free
      PROVE  LineHasOneOwner'
  <2>1. s \in Settlement /\ \A t \in Settlement : results[t].bank_ids \cap lines = {}
    BY <1>3, FreeMeansUnowned DEF Unresolved
  <2> QED
    BY <1>3, <2>1, AwardChanges DEF LineHasOneOwner
<1>4. ASSUME NEW c \in Free, NEW S \in SUBSET Unresolved, Merge(c, S)
      PROVE  LineHasOneOwner'
  <2>1. S \subseteq Settlement /\ c \in Bank
    BY <1>4, SnapshotTyping DEF Unresolved
  <2>2. \A t \in Settlement : c \notin results[t].bank_ids
    BY FreeMeansUnowned
  <2> QED
    BY <1>4, <2>1, <2>2, ShareChanges DEF LineHasOneOwner
<1> QED
  BY <1>1, <1>2, <1>3, <1>4 DEF Effect, Awards, Shares, Complete

LEMMA ReadingsStay ==
    ASSUME snap' = snap
    PROVE  /\ Net' = Net /\ Credit' = Credit
           /\ \A b, s : OnTime(b, s)' = OnTime(b, s) /\ InWindow(b, s)' = InWindow(b, s)
           /\ \A s, t, d : Twins(s, t, d)' = Twins(s, t, d)
BY DEF Net, Credit, OnTime, InWindow, Twins, Within

LEMMA NoClaimantStays ==
    ASSUME TypeOK, TypeOK', BooksAgree, AmountMatchLeavesNoClaimant, Effect,
           snap' = snap
    PROVE  AmountMatchLeavesNoClaimant'
<1> DEFINE Claim(t, b, p) == /\ p = EXACT_AMOUNT_DATE => ~OnTime(b, t)
                             /\ p = AMOUNT_WIDE_WINDOW => ~InWindow(b, t)
<1>1. \A s \in Settlement, t \in Unresolved : \A b \in results[s].bank_ids :
          Credit[b] = Net[t] => Claim(t, b, results[s].pass_name)
  BY DEF AmountMatchLeavesNoClaimant
<1>2. SUFFICES
        \A s \in Settlement, t \in Unresolved' : \A b \in results'[s].bank_ids :
            Credit[b] = Net[t] => Claim(t, b, results'[s].pass_name)
  BY ReadingsStay DEF AmountMatchLeavesNoClaimant
<1> HIDE DEF Claim
<1>3. CASE UNCHANGED decision
  BY <1>1, <1>3 DEF decision, Unresolved
<1>4. CASE \E s \in Unresolved : MarkAmbiguous(s)
  BY <1>1, <1>4, MarkChanges DEF Unresolved
<1>5. ASSUME NEW s \in Unresolved, NEW p \in Pass, NEW lines \in SUBSET Bank,
             Select(s, lines, p), Exclusive(s, p, lines)
      PROVE  \A r \in Settlement, t \in Unresolved' : \A b \in results'[r].bank_ids :
                 Credit[b] = Net[t] => Claim(t, b, results'[r].pass_name)
  <2>1. s \in Settlement /\ Unresolved' = Unresolved \ {s}
    BY <1>5 DEF Unresolved, Select
  <2>2. \A t \in Unresolved \ {s} : \A b \in lines :
            Credit[b] = Net[t] => Claim(t, b, p)
    BY <1>5 DEF Exclusive, Claim
  <2> QED
    BY <1>1, <1>5, <2>1, <2>2, AwardChanges
<1>6. ASSUME NEW c \in Free, NEW S \in SUBSET Unresolved, Merge(c, S)
      PROVE  \A r \in Settlement, t \in Unresolved' : \A b \in results'[r].bank_ids :
                 Credit[b] = Net[t] => Claim(t, b, results'[r].pass_name)
  <2>1. S \subseteq Settlement /\ c \in Bank /\ Unresolved' \subseteq Unresolved
    BY <1>6, SnapshotTyping DEF Unresolved, Merge
  <2>2. \A t, b : Claim(t, b, SUBSET_SUM_MERGED)
    BY PassNumbers DEF Claim
  <2> QED
    BY <1>1, <1>6, <2>1, <2>2, ShareChanges
<1> QED
  BY <1>3, <1>4, <1>5, <1>6 DEF Effect, Awards, Shares

LEMMA TwinsSymmetric ==
    ASSUME TypeOK, NEW s \in Settlement, NEW t \in Settlement, Twins(s, t, Tolerance)
    PROVE  Twins(t, s, Tolerance)
BY DEF Twins, Within

LEMMA SiblingsStay ==
    ASSUME TypeOK, TypeOK', BooksAgree, SiblingsWereResolved, Effect, snap' = snap
    PROVE  SiblingsWereResolved'
<1> DEFINE Sib(s, t) == Twins(s, t, Tolerance) /\ Net[s] = Net[t]
<1>1. \A s, t \in Settlement :
          results[s].pass_name = EXACT_AMOUNT_DATE /\ Sib(s, t)
              => t \in resolved /\ results[t].pass_name # EXACT_AMOUNT_DATE
  BY DEF SiblingsWereResolved
<1>2. SUFFICES
        \A s, t \in Settlement :
            results'[s].pass_name = EXACT_AMOUNT_DATE /\ Sib(s, t)
                => t \in resolved' /\ results'[t].pass_name # EXACT_AMOUNT_DATE
  BY ReadingsStay DEF SiblingsWereResolved
<1>3. \A s, t \in Settlement : Sib(s, t) => Sib(t, s) /\ s # t
  BY TwinsSymmetric DEF Twins
<1>4. CASE UNCHANGED decision
  BY <1>1, <1>4 DEF decision
<1>5. CASE \E s \in Unresolved : MarkAmbiguous(s)
  BY <1>1, <1>5, MarkChanges DEF Unresolved
<1>6. ASSUME NEW r \in Unresolved, NEW p \in Pass, NEW lines \in SUBSET Bank,
             Select(r, lines, p), p = EXACT_AMOUNT_DATE => NoOpenSibling(r)
      PROVE  \A s, t \in Settlement :
                 results'[s].pass_name = EXACT_AMOUNT_DATE /\ Sib(s, t)
                     => t \in resolved' /\ results'[t].pass_name # EXACT_AMOUNT_DATE
  <2>1. r \in Settlement /\ r \notin resolved /\ resolved' = resolved \cup {r}
    BY <1>6 DEF Unresolved, Select
  <2>2. \A t \in Settlement : p = EXACT_AMOUNT_DATE /\ Sib(r, t) => t \in resolved
    BY <1>6 DEF NoOpenSibling, Unresolved
  <2> HIDE DEF Sib
  <2> QED
    BY <1>1, <1>3, <1>6, <2>1, <2>2, AwardChanges
<1>7. ASSUME NEW c \in Free, NEW S \in SUBSET Unresolved, Merge(c, S)
      PROVE  \A s, t \in Settlement :
                 results'[s].pass_name = EXACT_AMOUNT_DATE /\ Sib(s, t)
                     => t \in resolved' /\ results'[t].pass_name # EXACT_AMOUNT_DATE
  <2>1. S \subseteq Settlement /\ c \in Bank /\ resolved' = resolved \cup S
    BY <1>7, SnapshotTyping DEF Unresolved, Merge
  <2> QED
    BY <1>1, <1>7, <2>1, ShareChanges, PassNumbers
<1> QED
  BY <1>4, <1>5, <1>6, <1>7 DEF Effect, Awards, Shares

\* The sum over all settlements, split into those a decision pays and the rest.
LEMMA PaidAndRest ==
    ASSUME TypeOK, NEW S \in SUBSET Settlement
    PROVE  SumFunction(matched_paise)
             = SumFunctionOnSet(matched_paise, S)
                 + SumFunctionOnSet(matched_paise, Settlement \ S)
<1>1. IsFiniteSet(S) /\ IsFiniteSet(Settlement \ S)
  BY MoneyTyping
<1>2. IntegerOn(matched_paise, S) /\ IntegerOn(matched_paise, Settlement \ S)
  BY DEF TypeOK, IntegerOn
<1>3. S \cup (Settlement \ S) = Settlement /\ S \cap (Settlement \ S) = {}
  OBVIOUS
<1>4. DOMAIN matched_paise = Settlement
  BY DEF TypeOK
<1> QED
  BY <1>1, <1>2, <1>3, <1>4, SumUnion DEF SumFunction

\* A decision that pays S, all of them open, with the lines B, all of them free.
LEMMA PaymentConserves ==
    ASSUME TypeOK, TypeOK', snap' = snap, OpenMeansUnpaid, MoneyConserved,
           NEW S \in SUBSET Unresolved, NEW B \in SUBSET Free,
           \A t \in Settlement \ S : matched_paise'[t] = matched_paise[t],
           SumFunctionOnSet(matched_paise', S) = SumFunctionOnSet(Credit, B),
           claimed' = claimed \cup B, resolved' = resolved \cup S
    PROVE  OpenMeansUnpaid' /\ MoneyConserved'
<1>1. S \subseteq Settlement /\ B \subseteq Bank /\ claimed \subseteq Bank /\ claimed \cap B = {}
  BY SnapshotTyping DEF Unresolved, Free, TypeOK
<1>2. OpenMeansUnpaid'
  BY DEF OpenMeansUnpaid, Unresolved
<1>3. SumFunctionOnSet(matched_paise, S) = 0
  BY <1>1, MoneyTyping, SumZero DEF OpenMeansUnpaid
<1>4. SumFunctionOnSet(matched_paise', Settlement \ S)
        = SumFunctionOnSet(matched_paise, Settlement \ S)
  BY MoneyTyping, SumCongruent
<1>5. SumFunctionOnSet(Credit, claimed \cup B)
        = SumFunctionOnSet(Credit, claimed) + SumFunctionOnSet(Credit, B)
  BY <1>1, MoneyTyping, SumUnion
<1>6. /\ SumFunction(matched_paise) = SumFunctionOnSet(matched_paise, S)
                + SumFunctionOnSet(matched_paise, Settlement \ S)
      /\ SumFunction(matched_paise)' = SumFunctionOnSet(matched_paise', S)
                + SumFunctionOnSet(matched_paise', Settlement \ S)
  <2>1. SumFunction(matched_paise) = SumFunctionOnSet(matched_paise, S)
                + SumFunctionOnSet(matched_paise, Settlement \ S)
    BY <1>1, PaidAndRest
  <2>2. SumFunctionOnSet(matched_paise', Settlement)
          = SumFunctionOnSet(matched_paise', S)
              + SumFunctionOnSet(matched_paise', Settlement \ S)
    <3>1. IsFiniteSet(S) /\ IsFiniteSet(Settlement \ S)
      BY <1>1, MoneyTyping
    <3>2. IntegerOn(matched_paise', S) /\ IntegerOn(matched_paise', Settlement \ S)
      BY <1>1 DEF TypeOK, IntegerOn
    <3>3. S \cup (Settlement \ S) = Settlement /\ S \cap (Settlement \ S) = {}
      BY <1>1
    <3> QED
      BY <3>1, <3>2, <3>3, SumUnion
  <2>3. DOMAIN matched_paise' = Settlement
    BY DEF TypeOK
  <2> QED
    BY <2>1, <2>2, <2>3 DEF SumFunction
<1>7. /\ SumFunctionOnSet(Credit, claimed) \in Int /\ SumFunctionOnSet(Credit, B) \in Int
      /\ SumFunctionOnSet(matched_paise, Settlement \ S) \in Int
  <2>1. IntegerOn(matched_paise, Settlement \ S) /\ IsFiniteSet(Settlement \ S)
    BY MoneyTyping DEF TypeOK, IntegerOn
  <2> QED
    BY <1>1, <2>1, MoneyTyping, SumType
<1>8. SumFunction(matched_paise)' = SumFunctionOnSet(Credit, claimed')
  BY <1>3, <1>4, <1>5, <1>6, <1>7 DEF MoneyConserved
<1>9. Credit' = Credit
  BY ReadingsStay
<1> QED
  BY <1>2, <1>8, <1>9 DEF MoneyConserved

LEMMA MoneyStays ==
    ASSUME TypeOK, TypeOK', snap' = snap, OpenMeansUnpaid, MoneyConserved, Effect
    PROVE  OpenMeansUnpaid' /\ MoneyConserved'
<1>1. Credit' = Credit
  BY ReadingsStay
<1>2. CASE UNCHANGED decision
  BY <1>1, <1>2 DEF decision, OpenMeansUnpaid, MoneyConserved, Unresolved
<1>3. CASE \E s \in Unresolved : MarkAmbiguous(s)
  BY <1>1, <1>3 DEF MarkAmbiguous, OpenMeansUnpaid, MoneyConserved, Unresolved
<1>4. ASSUME NEW s \in Unresolved, NEW p \in Pass, NEW lines \in SUBSET Free,
             Select(s, lines, p)
      PROVE  OpenMeansUnpaid' /\ MoneyConserved'
  <2>1. s \in Settlement /\ lines \in SUBSET Bank
    BY SnapshotTyping DEF Unresolved
  <2>2. /\ matched_paise'[s] = SumFunctionOnSet(Credit, lines)
        /\ \A t \in Settlement \ {s} : matched_paise'[t] = matched_paise[t]
        /\ claimed' = claimed \cup lines /\ resolved' = resolved \cup {s}
    BY <1>4, <2>1 DEF Select, TypeOK
  <2>3. SumFunctionOnSet(matched_paise', {s}) = SumFunctionOnSet(Credit, lines)
    <3>1. IsFiniteSet({s}) /\ IntegerOn(matched_paise', {s}) /\ {s} \ {s} = {}
      BY <2>1, FS_Singleton DEF TypeOK, IntegerOn
    <3>2. SumFunctionOnSet(matched_paise', {s})
            = matched_paise'[s] + SumFunctionOnSet(matched_paise', {s} \ {s})
      BY <3>1, SumRemove
    <3> QED
      BY <2>1, <2>2, <3>1, <3>2, SumEmpty, MoneyTyping
  <2>4. {s} \in SUBSET Unresolved
    OBVIOUS
  <2> QED
    BY <2>2, <2>3, <2>4, PaymentConserves
<1>5. ASSUME NEW b \in Free, NEW S \in SUBSET Unresolved, Shares(b, S)
      PROVE  OpenMeansUnpaid' /\ MoneyConserved'
  <2>1. b \in Bank /\ S \in SUBSET Settlement
    BY SnapshotTyping DEF Unresolved
  <2>2. /\ \A s \in S : matched_paise'[s] = Net[s]
        /\ \A t \in Settlement \ S : matched_paise'[t] = matched_paise[t]
        /\ claimed' = claimed \cup {b} /\ resolved' = resolved \cup S
        /\ SumFunctionOnSet(Net, S) = Credit[b]
    BY <1>5, <2>1 DEF Shares, Merge
  <2>3. SumFunctionOnSet(matched_paise', S) = SumFunctionOnSet(Net, S)
    BY <2>1, <2>2, MoneyTyping, SumCongruent
  <2>4. SumFunctionOnSet(Credit, {b}) = Credit[b]
    <3>1. IsFiniteSet({b}) /\ IntegerOn(Credit, {b}) /\ {b} \ {b} = {} /\ Credit[b] \in Int
      BY <2>1, MoneyTyping DEF IntegerOn
    <3>2. SumFunctionOnSet(Credit, {b}) = Credit[b] + SumFunctionOnSet(Credit, {b} \ {b})
      BY <3>1, SumRemove
    <3> QED
      BY <3>1, <3>2, SumEmpty
  <2>5. {b} \in SUBSET Free
    OBVIOUS
  <2> QED
    BY <2>2, <2>3, <2>4, <2>5, PaymentConserves
<1>6. \A s \in Unresolved, lines \in SUBSET Bank : Complete(s, lines) => lines \in SUBSET Free
  BY DEF Complete
<1> QED
  BY <1>2, <1>3, <1>4, <1>5, <1>6 DEF Effect, Awards

LEMMA InitIInv == Init => IInv
<1> SUFFICES ASSUME Init PROVE IInv
  OBVIOUS
<1>1. TypeOK
  BY InitTypeOK
<1>2. \A s \in Settlement : /\ results[s].bank_ids = {} /\ results[s].pass_name = NONE
                            /\ results[s].tier = "C"
  BY DEF Init, Unmatched
<1>3. claimed = {} /\ resolved = {}
  BY DEF Init, Unmatched
<1>4. OpenMeansUnpaid /\ MoneyConserved
  <2>1. matched_paise = [s \in Settlement |-> 0]
    BY DEF Init, Unmatched
  <2>2. IsFiniteSet(Settlement)
    BY SizeAssumption, FS_Interval DEF SizeAssumption, Settlement
  <2>3. SumFunctionOnSet(matched_paise, Settlement) = 0
    BY <2>1, <2>2, SumZero
  <2> QED
    BY <1>3, <2>1, <2>3, SumEmpty DEF OpenMeansUnpaid, MoneyConserved, SumFunction, Unresolved
<1> QED
  BY <1>1, <1>2, <1>3, <1>4, PassNumbers DEF IInv, FirstPassInOrder, BooksAgree,
     LineHasOneOwner, AmountMatchLeavesNoClaimant, SiblingsWereResolved

LEMMA NextIInv == IInv /\ [Next]_vars => IInv'
<1> SUFFICES ASSUME IInv, [Next]_vars PROVE IInv'
  OBVIOUS
<1>1. TypeOK'
  BY NextTypeOK DEF IInv
<1>2. Effect /\ snap' = snap
  BY StepEffect DEF IInv
<1> QED
  BY <1>1, <1>2, FirstPassStays, BooksStay, OneOwnerStays, NoClaimantStays,
     SiblingsStay, MoneyStays DEF IInv

LEMMA Inductive == Spec => []IInv
BY InitIInv, NextIInv, PTL DEF Spec

\* What is claimed, what is resolved and what the results say never disagree.
THEOREM BooksAlwaysAgree == Spec => []BooksAgree
<1>1. IInv => BooksAgree
  BY DEF IInv
<1> QED
  BY <1>1, Inductive, PTL

\* No bank line pays two settlements, unless the merged pass shared it.
THEOREM NothingCountedTwice == Spec => []LineHasOneOwner
<1>1. IInv => LineHasOneOwner
  BY DEF IInv
<1> QED
  BY <1>1, Inductive, PTL

\* What the settlements were credited with is what the claimed lines brought.
THEOREM NoMoneyMadeOrLost == Spec => []MoneyConserved
<1>1. IInv => MoneyConserved
  BY DEF IInv
<1> QED
  BY <1>1, Inductive, PTL

\* A line awarded on its amount fits no settlement that is still open.
THEOREM AmountNeverGuesses == Spec => []AmountMatchLeavesNoClaimant
<1>1. IInv => AmountMatchLeavesNoClaimant
  BY DEF IInv
<1> QED
  BY <1>1, Inductive, PTL

\* Two settlements with the same figure within the tolerance are never both
\* matched on amount and date.
THEOREM SiblingsNeverGuessed == Spec => []SiblingsNotBothOnAmount
<1>1. IInv => SiblingsNotBothOnAmount
  BY DEF IInv, SiblingsWereResolved, SiblingsNotBothOnAmount
<1> QED
  BY <1>1, Inductive, PTL

\* No step takes a decision back or changes it.
THEOREM DecisionsNeverChange == Spec => DecisionsAreFinal
<1>1. ASSUME IInv, [Next]_vars PROVE DecisionIsFinal
  <2>1. TypeOK /\ Effect
    BY <1>1, StepEffect DEF IInv
  <2>2. resolved \subseteq Settlement
    BY <2>1 DEF TypeOK
  <2>3. CASE UNCHANGED decision
    BY <2>3 DEF decision, DecisionIsFinal
  <2>4. CASE \E s \in Unresolved : MarkAmbiguous(s)
    BY <2>1, <2>2, <2>4, MarkChanges DEF Unresolved, DecisionIsFinal
  <2>5. ASSUME NEW s \in Unresolved, NEW p \in Pass, NEW lines \in SUBSET Bank,
               Select(s, lines, p)
        PROVE  DecisionIsFinal
    <3>1. /\ s \in Settlement /\ s \notin resolved
          /\ claimed' = claimed \cup lines /\ resolved' = resolved \cup {s}
      BY <2>5 DEF Unresolved, Select
    <3> QED
      BY <2>1, <2>2, <2>5, <3>1, AwardChanges DEF DecisionIsFinal
  <2>6. ASSUME NEW b \in Free, NEW S \in SUBSET Unresolved, Merge(b, S)
        PROVE  DecisionIsFinal
    <3>1. /\ b \in Bank /\ S \subseteq Settlement /\ S \cap resolved = {}
          /\ claimed' = claimed \cup {b} /\ resolved' = resolved \cup S
      BY <2>1, <2>6, SnapshotTyping DEF Unresolved, Merge
    <3> QED
      BY <2>1, <2>2, <2>6, <3>1, ShareChanges DEF DecisionIsFinal
  <2> QED
    BY <2>1, <2>3, <2>4, <2>5, <2>6 DEF Effect, Awards, Shares
<1>2. IInv /\ [Next]_vars => [DecisionIsFinal]_vars
  BY <1>1
<1> QED
  BY <1>2, Inductive, PTL DEF Spec, DecisionsAreFinal

-----------------------------------------------------------------------------
(***************************************************************************)
(* What the search leaves behind.  A pass that has visited a settlement    *)
(* and left it open and unmarked found nothing, and nothing is ever        *)
(* released: it would still find nothing when the matcher returns.         *)
(***************************************************************************)
Visited(p, s) == pass > p \/ (pass = p /\ cursor > s)

Missing == {s \in Unresolved : ~ results[s].is_ambiguous}

FindsNothing(p, s) ==
    /\ p = EXACT_UTR /\ UtrOf(s) # NoUtr => ExactUtrHits(s) = {}
    /\ p = UTR_IN_NARRATION /\ UtrOf(s) # NoUtr => NarrationHits(s) = {}
    /\ p = AMOUNT_WIDE_WINDOW /\ Net[s] > 0 => WideHits(s) = {}

SearchedInVain == \A s \in Missing, p \in Pass : Visited(p, s) => FindsNothing(p, s)

\* A step only takes away: missing settlements, and free lines.
LEMMA MissingShrinks ==
    ASSUME TypeOK, Effect
    PROVE  Missing' \subseteq Missing /\ claimed \subseteq claimed'
<1>1. CASE UNCHANGED decision
  BY <1>1 DEF decision, Missing, Unresolved
<1>2. ASSUME NEW s \in Unresolved, MarkAmbiguous(s)
      PROVE  claimed \subseteq claimed' /\ Missing' \subseteq Missing
  <2>1. s \in Settlement /\ UNCHANGED <<claimed, resolved>>
    BY <1>2 DEF Unresolved, MarkAmbiguous
  <2>2. /\ results'[s].is_ambiguous
        /\ \A t \in Settlement \ {s} : results'[t] = results[t]
    BY <1>2, <2>1 DEF MarkAmbiguous, TypeOK, MatchResult
  <2> QED
    BY <2>1, <2>2 DEF Missing, Unresolved
<1>3. ASSUME NEW s \in Unresolved, NEW p \in Pass, NEW lines \in SUBSET Bank,
             Select(s, lines, p)
      PROVE  claimed \subseteq claimed' /\ Missing' \subseteq Missing
  <2>1. s \in Settlement /\ claimed' = claimed \cup lines /\ resolved' = resolved \cup {s}
    BY <1>3 DEF Unresolved, Select
  <2> QED
    BY <1>3, <2>1, AwardChanges DEF Missing, Unresolved
<1>4. ASSUME NEW b \in Free, NEW S \in SUBSET Unresolved, Merge(b, S)
      PROVE  claimed \subseteq claimed' /\ Missing' \subseteq Missing
  <2>1. /\ b \in Bank /\ S \in SUBSET Settlement
        /\ claimed' = claimed \cup {b} /\ resolved' = resolved \cup S
    BY <1>4, SnapshotTyping DEF Unresolved, Merge
  <2> QED
    BY <1>4, <2>1, ShareChanges DEF Missing, Unresolved
<1> QED
  BY <1>1, <1>2, <1>3, <1>4 DEF Effect, Awards, Shares

LEMMA NothingAppears ==
    ASSUME TypeOK, Effect, snap' = snap, NEW p \in Pass, NEW s \in Settlement,
           FindsNothing(p, s)
    PROVE  FindsNothing(p, s)'
<1>1. Credit' = Credit /\ Net' = Net /\ UtrOf(s)' = UtrOf(s)
  BY ReadingsStay DEF UtrOf
<1>2. Free' \subseteq Free
  BY <1>1, MissingShrinks DEF Free, Credits
<1>3. ExactUtrHits(s)' \subseteq ExactUtrHits(s) /\ NarrationHits(s)' \subseteq NarrationHits(s)
  BY <1>1, <1>2 DEF ExactUtrHits, NarrationHits
<1>4. WideHits(s)' \subseteq WideHits(s)
  BY <1>1, <1>2, ReadingsStay DEF WideHits
<1> QED
  BY <1>1, <1>3, <1>4 DEF FindsNothing

\* A settlement is still missing after a decision only if there was nothing to decide.
LEMMA DecidedInVain ==
    ASSUME TypeOK, NEW s \in Settlement, NEW p \in Pass, NEW hits,
           Decide(s, p, hits), s \in Missing'
    PROVE  hits = {}
<1>1. CASE Select(s, hits, p)
  BY <1>1 DEF Select, Missing, Unresolved
<1>2. CASE MarkAmbiguous(s)
  BY <1>2 DEF MarkAmbiguous, Missing, TypeOK, MatchResult
<1> QED
  BY <1>1, <1>2 DEF Decide

LEMMA VisitedInVain ==
    ASSUME TypeOK, FirstPassInOrder, NEW s \in Settlement, VisitSettlement(s), s \in Missing'
    PROVE  FindsNothing(pass, s)
<1>1. s \notin resolved
  <2>1. Effect
    BY VisitSettlementEffect
  <2> QED
    BY <2>1, MissingShrinks DEF Missing, Unresolved
<1>2. CASE pass = EXACT_UTR
  <2>1. ExactUtr(s)
    BY <1>2, PassNumbers DEF VisitSettlement, UtrInNarration, UtrSuffix, ExactAmountDate,
       SubsetSumSplit, AmountWideWindow, FuzzyReference, Visit
  <2>2. UtrOf(s) # NoUtr => ExactUtrHits(s) = {}
    BY <2>1, DecidedInVain, PassNumbers DEF ExactUtr
  <2> QED
    BY <1>2, <2>2, PassNumbers DEF FindsNothing
<1>3. CASE pass = UTR_IN_NARRATION
  <2>1. UtrInNarration(s)
    BY <1>3, PassNumbers DEF VisitSettlement, ExactUtr, UtrSuffix, ExactAmountDate,
       SubsetSumSplit, AmountWideWindow, FuzzyReference, Visit
  <2>2. UtrOf(s) # NoUtr => NarrationHits(s) = {}
    BY <1>1, <2>1, DecidedInVain, PassNumbers DEF UtrInNarration
  <2> QED
    BY <1>3, <2>2, PassNumbers DEF FindsNothing
<1>4. CASE pass = AMOUNT_WIDE_WINDOW
  <2>1. AmountWideWindow(s)
    BY <1>4, PassNumbers DEF VisitSettlement, ExactUtr, UtrInNarration, UtrSuffix,
       ExactAmountDate, SubsetSumSplit, FuzzyReference, Visit
  <2>2. ~ MarkAmbiguous(s) /\ Net[s] \in Int
    BY SnapshotTyping DEF MarkAmbiguous, Missing, TypeOK, MatchResult
  <2>3. Net[s] > 0 => WideHits(s) = {}
    <3> SUFFICES ASSUME Net[s] > 0, WideHits(s) # {} PROVE FALSE
      OBVIOUS
    <3>1. ~ (Net[s] <= 0)
      BY <2>2
    <3>2. Decide(s, AMOUNT_WIDE_WINDOW, WideHits(s))
      BY <1>1, <2>1, <2>2, <3>1, Zenon DEF AmountWideWindow
    <3>3. AMOUNT_WIDE_WINDOW \in Pass
      BY PassNumbers
    <3> QED
      BY <3>2, <3>3, DecidedInVain
  <2> QED
    BY <1>4, <2>3, PassNumbers DEF FindsNothing
<1> QED
  BY <1>2, <1>3, <1>4 DEF FindsNothing

LEMMA SearchStays ==
    ASSUME TypeOK, FirstPassInOrder, SearchedInVain, [Next]_vars
    PROVE  SearchedInVain'
<1>1. Effect /\ snap' = snap
  BY StepEffect
<1>2. Missing' \subseteq Missing /\ Missing \subseteq Settlement
  BY <1>1, MissingShrinks DEF Missing, Unresolved
<1>3. /\ pass \in Nat /\ cursor \in Nat
      /\ \A s \in Settlement : s \in Nat /\ s >= 1 /\ s <= NSettlement
  BY PassNumbers, SizeAssumption DEF TypeOK, SizeAssumption, Settlement
\* What was visited before stays so; this step may visit one settlement more.
<1>4. SUFFICES ASSUME NEW s \in Missing', NEW p \in Pass, Visited(p, s)', ~ Visited(p, s)
               PROVE  FindsNothing(p, s)
  BY <1>1, <1>2, NothingAppears DEF SearchedInVain
<1>5. CASE \E t \in Settlement : VisitSettlement(t)
  <2>1. PICK t \in Settlement : VisitSettlement(t)
    BY <1>5
  <2>2. cursor = t /\ cursor' = cursor + 1 /\ pass' = pass
    BY <2>1 DEF VisitSettlement, ExactUtr, UtrInNarration, UtrSuffix, ExactAmountDate,
       SubsetSumSplit, AmountWideWindow, FuzzyReference, Visit
  <2>3. s = t /\ p = pass
    BY <1>2, <1>3, <1>4, <2>2, PassNumbers DEF Visited
  <2> QED
    BY <1>2, <2>1, <2>3, VisitedInVain
<1>6. CASE \E b \in Bank : SubsetSumMerged(b)
  <2>1. pass = SUBSET_SUM_MERGED /\ pass' = pass
    BY <1>6 DEF SubsetSumMerged, Visit
  <2>2. p = pass
    BY <1>3, <1>4, <2>1, PassNumbers DEF Visited
  <2> QED
    BY <2>1, <2>2, PassNumbers DEF FindsNothing
<1>7. CASE EndPass
  <2>1. /\ pass' = pass + 1 /\ cursor' = 1
        /\ pass # SUBSET_SUM_MERGED => cursor > NSettlement
    BY <1>7 DEF EndPass, LastRow
  <2>2. p = SUBSET_SUM_MERGED
    BY <1>2, <1>3, <1>4, <2>1, PassNumbers, SizeAssumption DEF Visited, SizeAssumption
  <2> QED
    BY <2>2, PassNumbers DEF FindsNothing
<1>8. CASE Returned \/ UNCHANGED vars
  BY <1>4, <1>8 DEF Returned, vars, Visited
<1> QED
  BY <1>5, <1>6, <1>7, <1>8 DEF Next

\* A settlement reported as having no credit at all leaves no open line that
\* carries or quotes its reference, or that equals its net inside the window.
THEOREM NothingLeftForTheMissing == Spec => []MissingMeansNothingFits
<1>1. Init => SearchedInVain
  <2> SUFFICES ASSUME Init PROVE SearchedInVain
    OBVIOUS
  <2>1. \A s \in Settlement, p \in Pass : ~ Visited(p, s)
    BY PassNumbers, SizeAssumption DEF Init, Unmatched, Visited, Settlement, SizeAssumption
  <2> QED
    BY <2>1 DEF SearchedInVain, Missing, Unresolved
<1>2. IInv /\ SearchedInVain /\ [Next]_vars => SearchedInVain'
  BY SearchStays DEF IInv
<1>3. TypeOK /\ SearchedInVain => MissingMeansNothingFits
  <2> SUFFICES ASSUME TypeOK, SearchedInVain, pass = RETURNED, NEW s \in Missing
               PROVE  /\ UtrOf(s) # NoUtr => ExactUtrHits(s) \cup NarrationHits(s) = {}
                      /\ Net[s] > 0 => WideHits(s) = {}
    BY DEF MissingMeansNothingFits, Missing
  <2>1. \A p \in Pass : FindsNothing(p, s)
    BY PassNumbers DEF SearchedInVain, Visited
  <2> QED
    BY <2>1, PassNumbers DEF FindsNothing
<1>4. IInv => TypeOK
  BY DEF IInv
<1> QED
  BY <1>1, <1>2, <1>3, <1>4, Inductive, PTL DEF Spec

-----------------------------------------------------------------------------
(***************************************************************************)
(* The audit trail.  A visit writes rows of the running pass about the row *)
(* it visits, and no visit happens twice: no key is ever written twice.    *)
(* Selected rows and given lines are written by the same visit.            *)
(***************************************************************************)
Trail == BagToSet(candidates)
Place(r) == IF r.pass_name = SUBSET_SUM_MERGED THEN r.bank ELSE r.settlement
SameKey(q, r) == /\ q.settlement = r.settlement /\ q.bank = r.bank
                 /\ q.pass_name = r.pass_name

TrailInOrder ==
    \A r \in Trail : r.pass_name < pass \/ (r.pass_name = pass /\ Place(r) < cursor)
WrittenOnce == /\ \A r \in Trail : candidates[r] = 1
               /\ \A q, r \in Trail : SameKey(q, r) => q = r
Explains(r, books) ==
    /\ ~ r.is_ambiguous
    /\ r.bank \in books[r.settlement].bank_ids
    /\ r.pass_name = books[r.settlement].pass_name
SelectedMeansGiven ==
    /\ \A r \in Trail : r.is_selected => Explains(r, results)
    /\ \A s \in Settlement : \A b \in results[s].bank_ids :
           Row(s, b, results[s].pass_name) \in Trail

TrailInv == TrailInOrder /\ WrittenOnce /\ SelectedMeansGiven

\* What a visit writes, in the trail and in the books.
Entry(S, B, selected, ambiguous) ==
    [settlement : S, bank : B, pass_name : {pass},
     is_selected : {selected}, is_ambiguous : {ambiguous}]
Gives(S, B) ==
    \A s \in Settlement :
        /\ results'[s].bank_ids = IF s \in S THEN B ELSE results[s].bank_ids
        /\ results'[s].pass_name = IF s \in S THEN pass ELSE results[s].pass_name
Here(S, B) ==
    /\ pass \in Pass /\ pass' = pass /\ cursor' = cursor + 1
    /\ IF pass = SUBSET_SUM_MERGED THEN B = {cursor} ELSE S = {cursor}
TrailEffect ==
    \/ UNCHANGED <<candidates, results>>
    \/ \E S \in SUBSET Settlement, B \in SUBSET Bank :
           Here(S, B) /\ Examine(S, B, pass, FALSE, TRUE) /\ Gives({}, B)
    \/ \E S \in SUBSET Unresolved, B \in SUBSET Bank :
           Here(S, B) /\ Examine(S, B, pass, TRUE, FALSE) /\ Gives(S, B)

LEMMA RefusalGivesNothing ==
    ASSUME TypeOK, NEW B,
           UNCHANGED decision \/ \E s \in Settlement : MarkAmbiguous(s)
    PROVE  Gives({}, B)
BY MarkChanges DEF Gives, decision

LEMMA AwardGives ==
    ASSUME TypeOK, NEW s \in Settlement, NEW B \in SUBSET Bank, pass \in Pass,
           Select(s, B, pass)
    PROVE  Gives({s}, B)
BY AwardChanges DEF Gives

LEMMA ShareGives ==
    ASSUME TypeOK, NEW b \in Bank, NEW S \in SUBSET Settlement,
           pass = SUBSET_SUM_MERGED, Merge(b, S)
    PROVE  Gives(S, {b})
<1>1. /\ \A s \in S : /\ results'[s].bank_ids = {b}
                      /\ results'[s].pass_name = SUBSET_SUM_MERGED
      /\ \A t \in Settlement \ S : results'[t] = results[t]
  BY ShareChanges
<1> QED
  BY <1>1 DEF Gives

LEMMA DecideTrail ==
    ASSUME TypeOK, NEW s \in Unresolved, NEW p \in Pass \ {SUBSET_SUM_MERGED},
           NEW hits \in SUBSET Bank, Visit(p, s, NSettlement), Decide(s, p, hits)
    PROVE  TrailEffect
<1>1. s \in Settlement /\ {s} \in SUBSET Settlement /\ {s} \in SUBSET Unresolved
  BY DEF Unresolved
<1>2. Here({s}, hits) /\ pass = p
  BY DEF Here, Visit
<1>3. CASE Nothing
  BY <1>3 DEF Nothing, decision, TrailEffect
<1>4. CASE Examine({s}, hits, p, TRUE, FALSE) /\ Select(s, hits, p)
  <2>1. Gives({s}, hits)
    BY <1>1, <1>2, <1>4, AwardGives
  <2> QED
    BY <1>1, <1>2, <1>4, <2>1 DEF TrailEffect
<1>5. CASE Examine({s}, hits, p, FALSE, TRUE) /\ MarkAmbiguous(s)
  <2>1. Gives({}, hits)
    BY <1>1, <1>5, RefusalGivesNothing
  <2> QED
    BY <1>1, <1>2, <1>5, <2>1 DEF TrailEffect
<1> QED
  BY <1>3, <1>4, <1>5 DEF Decide

LEMMA RefusalTrail ==
    ASSUME TypeOK, NEW s \in Settlement, NEW p \in Pass \ {SUBSET_SUM_MERGED},
           NEW hits \in SUBSET Bank, Visit(p, s, NSettlement),
           Examine({s}, hits, p, FALSE, TRUE),
           MarkAmbiguous(s) \/ UNCHANGED decision
    PROVE  TrailEffect
<1>1. Here({s}, hits) /\ pass = p /\ {s} \in SUBSET Settlement
  BY DEF Here, Visit
<1>2. Gives({}, hits)
  BY RefusalGivesNothing
<1> QED
  BY <1>1, <1>2 DEF TrailEffect

LEMMA VisitSettlementTrail ==
    ASSUME TypeOK, FirstPassInOrder, NEW s \in Settlement, VisitSettlement(s)
    PROVE  TrailEffect
<1>1. CASE Nothing
  BY <1>1 DEF Nothing, decision, TrailEffect
<1>2. /\ ExactUtrHits(s) \in SUBSET Bank /\ NarrationHits(s) \in SUBSET Bank
      /\ SuffixHits(s) \in SUBSET Bank /\ AmountDateHits(s) \in SUBSET Bank
      /\ WideHits(s) \in SUBSET Bank /\ FuzzyHits(s) \in SUBSET Bank
      /\ SplitPool(s) \in SUBSET Bank /\ \A B \in SplitSolutions(s) : B \in SUBSET Bank
  BY HitsTyping
<1>3. CASE ExactUtr(s)
  <2>1. s \in Unresolved
    BY <1>3, SizeAssumption DEF FirstPassInOrder, ExactUtr, Visit, Unresolved,
       SizeAssumption, Settlement
  <2> QED
    BY <1>1, <1>2, <1>3, <2>1, DecideTrail, PassNumbers DEF ExactUtr
<1>4. CASE UtrInNarration(s)
  BY <1>1, <1>2, <1>4, DecideTrail, PassNumbers DEF UtrInNarration, Unresolved
<1>5. CASE UtrSuffix(s)
  <2>1. UTR_SUFFIX \in Pass \ {SUBSET_SUM_MERGED} /\ Visit(UTR_SUFFIX, s, NSettlement)
    BY <1>5, PassNumbers DEF UtrSuffix
  <2>2. CASE s \notin resolved /\ Decide(s, UTR_SUFFIX, SuffixHits(s))
    BY <1>2, <2>1, <2>2, DecideTrail DEF Unresolved
  <2>3. CASE /\ Examine({s}, SuffixHits(s), UTR_SUFFIX, FALSE, TRUE)
             /\ UNCHANGED decision
    BY <1>2, <2>1, <2>3, RefusalTrail
  <2> QED
    BY <1>1, <1>5, <2>2, <2>3 DEF UtrSuffix
<1>6. CASE ExactAmountDate(s)
  <2>1. EXACT_AMOUNT_DATE \in Pass \ {SUBSET_SUM_MERGED} /\ Visit(EXACT_AMOUNT_DATE, s, NSettlement)
    BY <1>6, PassNumbers DEF ExactAmountDate
  <2>2. CASE s \notin resolved /\ Decide(s, EXACT_AMOUNT_DATE, AmountDateHits(s))
    BY <1>2, <2>1, <2>2, DecideTrail DEF Unresolved
  <2>3. CASE /\ Examine({s}, AmountDateHits(s), EXACT_AMOUNT_DATE, FALSE, TRUE)
             /\ MarkAmbiguous(s)
    BY <1>2, <2>1, <2>3, RefusalTrail
  <2> QED
    BY <1>1, <1>6, <2>2, <2>3 DEF ExactAmountDate
<1>7. CASE AmountWideWindow(s)
  <2>1. AMOUNT_WIDE_WINDOW \in Pass \ {SUBSET_SUM_MERGED} /\ Visit(AMOUNT_WIDE_WINDOW, s, NSettlement)
    BY <1>7, PassNumbers DEF AmountWideWindow
  <2>2. CASE s \notin resolved /\ Decide(s, AMOUNT_WIDE_WINDOW, WideHits(s))
    BY <1>2, <2>1, <2>2, DecideTrail DEF Unresolved
  <2>3. CASE /\ Examine({s}, WideHits(s), AMOUNT_WIDE_WINDOW, FALSE, TRUE)
             /\ MarkAmbiguous(s)
    BY <1>2, <2>1, <2>3, RefusalTrail
  <2> QED
    BY <1>1, <1>7, <2>2, <2>3 DEF AmountWideWindow
<1>8. CASE FuzzyReference(s)
  BY <1>1, <1>2, <1>8, DecideTrail, PassNumbers DEF FuzzyReference, Unresolved
<1>9. CASE SubsetSumSplit(s)
  <2>1. SUBSET_SUM_SPLIT \in Pass \ {SUBSET_SUM_MERGED} /\ Visit(SUBSET_SUM_SPLIT, s, NSettlement)
    BY <1>9, PassNumbers DEF SubsetSumSplit
  <2>2. ASSUME NEW B \in SplitSolutions(s), s \notin resolved,
               Examine({s}, B, SUBSET_SUM_SPLIT, TRUE, FALSE),
               Select(s, B, SUBSET_SUM_SPLIT)
        PROVE  TrailEffect
    <3>1. pass = SUBSET_SUM_SPLIT /\ Here({s}, B)
      BY <2>1 DEF Here, Visit
    <3>2. Gives({s}, B)
      BY <1>2, <2>1, <2>2, <3>1, AwardGives
    <3> QED
      BY <1>2, <2>2, <3>1, <3>2 DEF TrailEffect, Unresolved
  <2>3. CASE /\ Examine({s}, SplitPool(s), SUBSET_SUM_SPLIT, FALSE, TRUE)
             /\ MarkAmbiguous(s)
    BY <1>2, <2>1, <2>3, RefusalTrail
  <2> QED
    BY <1>1, <1>9, <2>2, <2>3 DEF SubsetSumSplit
<1> QED
  BY <1>3, <1>4, <1>5, <1>6, <1>7, <1>8, <1>9 DEF VisitSettlement

LEMMA SubsetSumMergedTrail ==
    ASSUME TypeOK, NEW b \in Bank, SubsetSumMerged(b)
    PROVE  TrailEffect
<1>1. pass = SUBSET_SUM_MERGED /\ \A S : Here(S, {b})
  BY PassNumbers DEF SubsetSumMerged, Visit, Here
<1>2. CASE Nothing
  BY <1>2 DEF Nothing, decision, TrailEffect
<1>3. ASSUME NEW S \in MergedSolutions(b), Merge(b, S)
      PROVE  TrailEffect
  <2>1. S \in SUBSET Unresolved /\ S \in SUBSET Settlement
    BY PoolTyping
  <2>2. Gives(S, {b}) /\ Examine(S, {b}, SUBSET_SUM_MERGED, TRUE, FALSE)
    BY <1>1, <1>3, <2>1, ShareGives DEF Merge
  <2> QED
    BY <1>1, <2>1, <2>2 DEF TrailEffect
<1>4. CASE /\ Examine(MergedPool(b), {b}, SUBSET_SUM_MERGED, FALSE, TRUE)
           /\ UNCHANGED decision
  <2>1. MergedPool(b) \in SUBSET Settlement /\ Gives({}, {b})
    BY <1>4, PoolTyping, RefusalGivesNothing
  <2> QED
    BY <1>1, <1>4, <2>1 DEF TrailEffect
<1> QED
  BY <1>2, <1>3, <1>4 DEF SubsetSumMerged

\* A visit's rows are new, and what was written before is left alone.
Appends(rows) ==
    /\ Trail' = Trail \cup rows
    /\ \A r \in rows : r.pass_name = pass /\ Place(r) = cursor /\ r \notin Trail
    /\ \A r \in Trail : candidates'[r] = candidates[r]
    /\ \A r \in rows : candidates'[r] = 1

LEMMA Recorded ==
    ASSUME TypeOK, TrailInOrder,
           NEW S \in SUBSET Settlement, NEW B \in SUBSET Bank,
           NEW selected \in BOOLEAN, NEW ambiguous \in BOOLEAN,
           Here(S, B), Examine(S, B, pass, selected, ambiguous)
    PROVE  Appends(Entry(S, B, selected, ambiguous))
<1> DEFINE rows == Entry(S, B, selected, ambiguous)
<1>1. \A r \in rows : r.pass_name = pass /\ Place(r) = cursor
  BY DEF Entry, Here, Place
<1>2. \A r \in rows : r \notin Trail
  BY <1>1 DEF TrailInOrder, TypeOK
<1>3. candidates' = candidates (+) SetToBag(rows)
  BY DEF Examine, Entry
<1> HIDE DEF rows
<1>4. DOMAIN candidates' = DOMAIN candidates \cup rows
  BY <1>3 DEF (+), SetToBag
<1>5. \A r \in DOMAIN candidates : candidates[r] \in Nat
  BY DEF TypeOK, IsABag
<1>6. /\ \A r \in Trail : candidates'[r] = candidates[r]
      /\ \A r \in rows : candidates'[r] = 1
  BY <1>2, <1>3, <1>4, <1>5 DEF Trail, BagToSet, (+), SetToBag
<1> QED
  BY <1>1, <1>2, <1>4, <1>6 DEF Appends, Trail, BagToSet, rows

LEMMA OrderStays ==
    ASSUME TypeOK, TrailInOrder, cursor' \in Nat,
           NEW S \in SUBSET Settlement, NEW B \in SUBSET Bank,
           NEW selected \in BOOLEAN, NEW ambiguous \in BOOLEAN,
           Here(S, B), Examine(S, B, pass, selected, ambiguous), WrittenOnce
    PROVE  TrailInOrder' /\ WrittenOnce'
<1>0. Appends(Entry(S, B, selected, ambiguous))
  BY Recorded
<1> DEFINE rows == Entry(S, B, selected, ambiguous)
<1> HIDE DEF rows
<1>1. /\ Trail' = Trail \cup rows
      /\ \A r \in rows : r.pass_name = pass /\ Place(r) = cursor /\ r \notin Trail
      /\ \A r \in Trail : candidates'[r] = candidates[r]
      /\ \A r \in rows : candidates'[r] = 1
  BY <1>0 DEF rows, Appends
<1>2. \A q, r \in rows : SameKey(q, r) => q = r
  BY DEF SameKey, Entry, rows
<1>3. Trail \subseteq CandidateRow /\ cursor \in Nat /\ pass \in Nat
  BY PassNumbers DEF TypeOK, Trail
<1>4. \A q \in Trail, r \in rows : ~ SameKey(q, r)
  BY <1>1, <1>3 DEF SameKey, Place, TrailInOrder
<1>5. \A q \in Trail, r \in rows : ~ SameKey(r, q)
  BY <1>4 DEF SameKey
<1>6. WrittenOnce'
  BY <1>1, <1>2, <1>4, <1>5 DEF WrittenOnce, SameKey
<1>7. \A r \in Trail : Place(r) \in Nat
  BY <1>3, SizeAssumption DEF SizeAssumption, CandidateRow, Place, Settlement, Bank
<1>8. TrailInOrder'
  BY <1>1, <1>3, <1>7 DEF TrailInOrder, Here, Place
<1> QED
  BY <1>6, <1>8

LEMMA TrailStays ==
    ASSUME TypeOK, TypeOK', BooksAgree, TrailInv, TrailEffect,
           pass' = pass, cursor' = cursor + 1
    PROVE  TrailInv'
<1>1. cursor' \in Nat /\ cursor \in Nat /\ Trail \subseteq CandidateRow
  BY DEF TypeOK, Trail
<1>2. CASE UNCHANGED <<candidates, results>>
  <2>1. \A r \in Trail : Place(r) \in Nat
    BY <1>1, SizeAssumption DEF SizeAssumption, CandidateRow, Place, Settlement, Bank
  <2> QED
    BY <1>1, <1>2, <2>1 DEF TrailInv, TrailInOrder, WrittenOnce, SelectedMeansGiven, Trail, Place
<1>3. ASSUME NEW S \in SUBSET Settlement, NEW B \in SUBSET Bank, Here(S, B),
             Examine(S, B, pass, FALSE, TRUE), Gives({}, B)
      PROVE  TrailInv'
  <2>1. TrailInOrder' /\ WrittenOnce'
    BY <1>1, <1>3, OrderStays DEF TrailInv
  <2>2. Trail' = Trail \cup Entry(S, B, FALSE, TRUE)
    BY <1>3, Recorded DEF TrailInv, Appends
  <2>3. \A r \in Entry(S, B, FALSE, TRUE) : ~ r.is_selected
    BY DEF Entry
  <2>4. \A s \in Settlement : /\ results'[s].bank_ids = results[s].bank_ids
                              /\ results'[s].pass_name = results[s].pass_name
    BY <1>3 DEF Gives
  <2>5. \A r \in Trail : r.settlement \in Settlement
    BY <1>1 DEF CandidateRow
  <2>6. SelectedMeansGiven'
    BY <2>2, <2>3, <2>4, <2>5 DEF TrailInv, SelectedMeansGiven, Explains
  <2> QED
    BY <2>1, <2>6 DEF TrailInv
<1>4. ASSUME NEW S \in SUBSET Unresolved, NEW B \in SUBSET Bank, Here(S, B),
             Examine(S, B, pass, TRUE, FALSE), Gives(S, B)
      PROVE  TrailInv'
  <2> DEFINE rows == Entry(S, B, TRUE, FALSE)
  <2>1. S \in SUBSET Settlement /\ \A s \in S : results[s].bank_ids = {}
    BY DEF Unresolved, BooksAgree
  <2>2. TrailInOrder' /\ WrittenOnce'
    BY <1>1, <1>4, <2>1, OrderStays DEF TrailInv
  <2>3. Trail' = Trail \cup rows
    BY <1>4, <2>1, Recorded DEF TrailInv, Appends
  <2>4. /\ \A r \in rows : r.settlement \in S /\ r.bank \in B /\ r.pass_name = pass /\ ~ r.is_ambiguous
        /\ \A s \in S, b \in B : Row(s, b, pass) \in rows
    BY DEF Entry, Row
  <2>5. \A r \in Trail : r.settlement \in Settlement
    BY <1>1 DEF CandidateRow
  <2> HIDE DEF rows
  <2>6. \A r \in Trail' : r.is_selected => Explains(r, results')
    <3> SUFFICES ASSUME NEW r \in Trail', r.is_selected PROVE Explains(r, results')
      OBVIOUS
    <3>1. CASE r \in rows
      BY <1>4, <2>1, <2>4, <3>1 DEF Gives, Explains
    <3>2. CASE r \in Trail
      <4>1. Explains(r, results) /\ r.settlement \notin S
        BY <2>1, <3>2 DEF TrailInv, SelectedMeansGiven, Explains
      <4> QED
        BY <1>4, <2>5, <3>2, <4>1 DEF Gives, Explains
    <3> QED
      BY <2>3, <3>1, <3>2
  <2>7. \A s \in Settlement : \A b \in results'[s].bank_ids :
            Row(s, b, results'[s].pass_name) \in Trail'
    BY <1>4, <2>3, <2>4 DEF Gives, TrailInv, SelectedMeansGiven
  <2> QED
    BY <2>2, <2>6, <2>7 DEF TrailInv, SelectedMeansGiven
<1> QED
  BY <1>2, <1>3, <1>4 DEF TrailEffect

LEMMA TrailInvStays ==
    ASSUME IInv, TrailInv, [Next]_vars
    PROVE  TrailInv'
<1>1. TypeOK /\ TypeOK' /\ BooksAgree /\ FirstPassInOrder
  BY NextTypeOK DEF IInv
<1>2. CASE \E s \in Settlement : VisitSettlement(s)
  <2>1. TrailEffect
    BY <1>1, <1>2, VisitSettlementTrail
  <2>2. pass' = pass /\ cursor' = cursor + 1
    BY <1>2 DEF VisitSettlement, ExactUtr, UtrInNarration, UtrSuffix, ExactAmountDate,
       SubsetSumSplit, AmountWideWindow, FuzzyReference, Visit
  <2> QED
    BY <1>1, <2>1, <2>2, TrailStays
<1>3. CASE \E b \in Bank : SubsetSumMerged(b)
  BY <1>1, <1>3, SubsetSumMergedTrail, TrailStays DEF SubsetSumMerged, Visit
<1>4. CASE EndPass
  <2>1. pass' = pass + 1 /\ UNCHANGED <<candidates, results>> /\ pass \in Nat
    BY <1>1, <1>4, PassNumbers DEF EndPass, decision, TypeOK
  <2>2. Trail' = Trail /\ \A r \in Trail : r.pass_name \in Nat
    BY <1>1, <2>1, PassNumbers DEF Trail, TypeOK, CandidateRow
  <2>3. TrailInOrder'
    BY <2>1, <2>2 DEF TrailInv, TrailInOrder
  <2> QED
    BY <2>1, <2>2, <2>3 DEF TrailInv, WrittenOnce, SelectedMeansGiven
<1>5. CASE Returned \/ UNCHANGED vars
  BY <1>5 DEF Returned, vars, decision, TrailInv, TrailInOrder, WrittenOnce, SelectedMeansGiven,
     Trail, Place
<1> QED
  BY <1>2, <1>3, <1>4, <1>5 DEF Next

\* The trail names the lines of every decision and of no other, and no two of
\* its rows share settlement, line and pass.
THEOREM TrailAlwaysExplains == Spec => []TrailExplainsResults
<1>1. Init => TrailInv
  <2> SUFFICES ASSUME Init PROVE TrailInv
    OBVIOUS
  <2>1. Trail = {} /\ \A s \in Settlement : results[s].bank_ids = {}
    BY DEF Init, Unmatched, Trail, BagToSet, EmptyBag, SetToBag
  <2> QED
    BY <2>1 DEF TrailInv, TrailInOrder, WrittenOnce, SelectedMeansGiven
<1>2. IInv /\ TrailInv /\ [Next]_vars => TrailInv'
  BY TrailInvStays
<1>3. TypeOK /\ TrailInv => TrailExplainsResults
  <2> SUFFICES ASSUME TypeOK, TrailInv PROVE TrailExplainsResults
    OBVIOUS
  <2> DEFINE given == UNION {{Row(s, b, results[s].pass_name) : b \in results[s].bank_ids}
                             : s \in Settlement}
  <2>1. Trail \subseteq CandidateRow
    BY DEF TypeOK, Trail
  <2>2. ASSUME NEW r \in Trail, r.is_selected PROVE r \in given
    <3>1. Explains(r, results) /\ r.settlement \in Settlement
      BY <2>1, <2>2 DEF TrailInv, SelectedMeansGiven, CandidateRow
    <3>2. r = Row(r.settlement, r.bank, results[r.settlement].pass_name)
      BY <2>1, <2>2, <3>1 DEF Row, CandidateRow, Explains
    <3> QED
      BY <3>1, <3>2 DEF Explains
  <2>3. \A r \in given : r \in Trail /\ r.is_selected
    BY DEF TrailInv, SelectedMeansGiven, Row
  <2>4. {r \in Trail : r.is_selected} = given
    BY <2>2, <2>3
  <2>5. \A q, r \in Trail :
            candidates[r] = 1
            /\ \/ q = r
               \/ <<q.settlement, q.bank, q.pass_name>> # <<r.settlement, r.bank, r.pass_name>>
    BY DEF TrailInv, WrittenOnce, SameKey
  <2> QED
    BY <2>4, <2>5 DEF TrailExplainsResults, Trail
<1>4. IInv => TypeOK
  BY DEF IInv
<1> QED
  BY <1>1, <1>2, <1>3, <1>4, Inductive, PTL DEF Spec

-----------------------------------------------------------------------------
(***************************************************************************)
(* The matcher implements the credit assignment: a visit is one of its     *)
(* steps, seen through the lines each settlement holds.                    *)
(***************************************************************************)
Held == [s \in Settlement |-> results[s].bank_ids]
Flagged == {s \in Settlement : results[s].is_ambiguous}

LEMMA SameFree ==
    ASSUME TypeOK, BooksAgree
    PROVE  Assignment!Free = Free /\ Assignment!Open = Unresolved
<1>1. \A s \in Settlement : Held[s] = results[s].bank_ids
  BY DEF Held
<1>2. Assignment!Owned = UNION {Held[s] : s \in Settlement}
  BY DEF Assignment!Owned, Held
<1>3. \A b : b \in Assignment!Owned <=> b \in claimed
  BY <1>1, <1>2 DEF BooksAgree
<1>4. Assignment!Free = Free
  BY <1>3 DEF Assignment!Free, Free, Credits
<1>5. Assignment!Open = {s \in Settlement : Held[s] = {}}
  BY DEF Assignment!Open, Held
<1>6. Assignment!Open = Unresolved
  BY <1>1, <1>5 DEF BooksAgree, Unresolved
<1> QED
  BY <1>4, <1>6

LEMMA FlaggedStays ==
    ASSUME TypeOK, TypeOK'
    PROVE  /\ \A s \in Settlement, p \in Pass, lines \in SUBSET Bank :
                  Select(s, lines, p) => Flagged' = Flagged
           /\ \A b \in Bank, S \in SUBSET Settlement :
                  Merge(b, S) => Flagged' = Flagged
<1>1. \A s \in Settlement : results[s] \in MatchResult
  BY DEF TypeOK
<1>2. ASSUME NEW s \in Settlement, NEW p \in Pass, NEW lines \in SUBSET Bank,
             Select(s, lines, p)
      PROVE  Flagged' = Flagged
  <2>1. results'[s].is_ambiguous = results[s].is_ambiguous
    BY <1>1, <1>2 DEF Select, MatchResult, TypeOK
  <2> QED
    BY <1>2, <2>1, AwardChanges DEF Flagged
<1>3. ASSUME NEW b \in Bank, NEW S \in SUBSET Settlement, Merge(b, S)
      PROVE  Flagged' = Flagged
  <2>1. \A s \in S : results'[s] = Paid(s, b)
    BY <1>3 DEF Merge
  <2>2. \A s \in S : Paid(s, b).is_ambiguous = results[s].is_ambiguous
    BY <1>1 DEF Paid, MatchResult
  <2> QED
    BY <1>3, <2>1, <2>2, ShareChanges DEF Flagged
<1> QED
  BY <1>2, <1>3

LEMMA StepRefines ==
    ASSUME IInv, [Next]_vars
    PROVE  Assignment!Next \/ UNCHANGED <<Net, Credit, Held, Flagged>>
<1>1. TypeOK /\ TypeOK' /\ BooksAgree /\ Effect /\ snap' = snap
  BY StepEffect, NextTypeOK DEF IInv
<1>2. Net' = Net /\ Credit' = Credit
  BY <1>1, ReadingsStay
<1>3. /\ Assignment!Free = Free /\ Assignment!Open = Unresolved
      /\ Unresolved \subseteq Settlement /\ Free \subseteq Bank
  BY <1>1, SameFree, SnapshotTyping
<1>4. CASE UNCHANGED decision
  BY <1>2, <1>4 DEF decision, Held, Flagged
<1>5. ASSUME NEW s \in Unresolved, MarkAmbiguous(s)
      PROVE  Assignment!Next
  <2>1. Held' = Held
    BY <1>1, <1>3, <1>5, MarkChanges DEF Held
  <2>2. Flagged' = Flagged \cup {s}
    BY <1>1, <1>3, <1>5 DEF Flagged, MarkAmbiguous, TypeOK, MatchResult
  <2>3. Assignment!Flag(s)
    BY <1>2, <1>3, <1>5, <2>1, <2>2 DEF Assignment!Flag, Held, Flagged
  <2> QED
    BY <1>3, <1>5, <2>3 DEF Assignment!Next
<1>6. ASSUME NEW s \in Unresolved, NEW p \in Pass \ {SUBSET_SUM_MERGED},
             NEW lines \in SUBSET Bank, Awards(s, p, lines)
      PROVE  Assignment!Next
  <2>1. s \in Settlement /\ Select(s, lines, p)
    BY <1>3, <1>6 DEF Awards
  <2>2. Held' = [Held EXCEPT ![s] = lines] /\ Flagged' = Flagged
    <3>1. Flagged' = Flagged
      BY <1>1, <2>1, FlaggedStays
    <3>2. \A t \in Settlement : Held'[t] = IF t = s THEN lines ELSE Held[t]
      BY <1>1, <1>6, <2>1, AwardChanges DEF Held
    <3>3. Held' = [t \in Settlement |-> IF t = s THEN lines ELSE Held[t]]
      BY <3>2 DEF Held
    <3> QED
      BY <3>1, <3>3 DEF Held
  <2>3. CASE \E b \in Free : lines = {b}
    <3>1. PICK b \in Free : lines = {b}
      BY <2>3
    <3>2. Held' = [Held EXCEPT ![s] = {b}]
      BY <2>2, <3>1
    <3>3. Assignment!Give(s, b)
      BY <1>2, <1>3, <1>6, <2>2, <3>1, <3>2 DEF Assignment!Give, Held, Flagged
    <3> QED
      BY <1>3, <2>1, <3>1, <3>3 DEF Assignment!Next
  <2>4. CASE /\ lines \subseteq Free /\ Cardinality(lines) >= 2
             /\ SumFunctionOnSet(Credit, lines) = Net[s]
    <3>1. Assignment!Spread(s, lines)
      BY <1>2, <1>3, <1>6, <2>2, <2>4, TwoAreSeveral
         DEF Assignment!Spread, Assignment!Several, Several, Held, Flagged
    <3> QED
      BY <2>1, <3>1 DEF Assignment!Next
  <2> QED
    BY <1>6, <2>3, <2>4 DEF Awards, Complete
<1>7. ASSUME NEW b \in Free, NEW S \in SUBSET Unresolved, Shares(b, S)
      PROVE  Assignment!Next
  <2>1. b \in Bank /\ S \in SUBSET Settlement /\ Merge(b, S)
    BY <1>3, <1>7 DEF Shares
  <2>2. Flagged' = Flagged
    BY <1>1, <2>1, FlaggedStays
  <2>3. Held' = [s \in Settlement |-> IF s \in S THEN {b} ELSE Held[s]]
    <3>1. \A s \in Settlement : Held'[s] = IF s \in S THEN {b} ELSE Held[s]
      BY <1>1, <2>1, ShareChanges DEF Held
    <3> QED
      BY <3>1 DEF Held
  <2>4. Assignment!Gather(S, b)
    BY <1>2, <1>3, <1>7, <2>2, <2>3, TwoAreSeveral
       DEF Assignment!Gather, Assignment!Several, Several, Shares, Held, Flagged
  <2> QED
    BY <2>1, <2>4 DEF Assignment!Next
<1> QED
  BY <1>1, <1>4, <1>5, <1>6, <1>7 DEF Effect

\* Every run of the matcher is a run of the credit assignment.
THEOREM Refinement == Spec => ImplementsAssignment
<1>1. Init => Assignment!Init
  BY DEF Init, Unmatched, Assignment!Init
<1>2. IInv /\ [Next]_vars
        => [Assignment!Next]_<<Net, Credit, [s \in Settlement |-> results[s].bank_ids],
                               {s \in Settlement : results[s].is_ambiguous}>>
  BY StepRefines DEF Held, Flagged
<1> QED
  BY <1>1, <1>2, Inductive, PTL DEF Spec, ImplementsAssignment, Assignment!Spec
==============================================================================
