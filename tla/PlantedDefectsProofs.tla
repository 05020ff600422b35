------------------------- MODULE PlantedDefectsProofs -------------------------
(***************************************************************************)
(* Diagnosis inverts planting, for every book and every batch size.        *)
(*                                                                         *)
(* PlantedBatch composes the generator that breaks a reconciled book with  *)
(* the engine that reads it.  Here three of the engine's deltas are proved *)
(* to recover what the planters did:                                       *)
(*                                                                         *)
(*   delta 1 (what the gateway claims of a settlement)   Diagnosed1        *)
(*   delta 4 (what the sellers were paid)                Diagnosed4        *)
(*   delta 3 (what the books hold)                       Diagnosed3        *)
(*                                                                         *)
(* and from these, that the run reports each row of ground truth, invents  *)
(* nothing, is scored for every row, and that the tax report comes to what *)
(* was planted in the books.                                               *)
(*                                                                         *)
(* The inductive invariants are Delta1Inv (the book is clean where no      *)
(* defect was planted, and every planted row describes its breakage),      *)
(* PayoutsInv (splits are keyed, priced and kept), BookInv and LedgerInv   *)
(* (what the books are posted from, and that each payment is posted as it  *)
(* should be or as a planter left it), TruthShaped and RunInv (what a row  *)
(* looks like; the run is last).  BatchInv is all of them.  Steps of the   *)
(* other components are shown to leave each as it was.                     *)
(***************************************************************************)
EXTENDS PlantedBatchProofs

\* Sums of amounts, by rows.
Amounts(S) == IsFiniteSet(S) /\ \A x \in S : x.amount \in Int

LEMMA AmountWhole ==
    ASSUME NEW S, Amounts(S)
    PROVE  AmountSum(S) \in Int /\ \A T \in SUBSET S : Amounts(T)
<1> DEFINE f == [x \in S |-> x.amount]
<1>1. (\A x \in S : f[x] = x.amount) /\ IntegerOn(f, S) /\ IsFiniteSet(S)
  BY DEF Amounts, IntegerOn
<1> HIDE DEF f
<1>2. AmountSum(S) \in Int
  BY <1>1, AmountSumIsSum, SumType
<1> QED
  BY <1>2, FS_Subset DEF Amounts

LEMMA AmountTake ==
    ASSUME NEW S, Amounts(S), NEW x \in S
    PROVE  AmountSum(S) = x.amount + AmountSum(S \ {x})
<1> DEFINE f == [y \in S |-> y.amount]
           T == S \ {x}
<1>1. /\ \A y \in S : f[y] = y.amount
      /\ IntegerOn(f, S) /\ IsFiniteSet(S) /\ IsFiniteSet(T) /\ T \subseteq S
  BY FS_Subset DEF Amounts, IntegerOn
<1> HIDE DEF f
<1>2. AmountSum(S) = SumFunctionOnSet(f, S) /\ AmountSum(T) = SumFunctionOnSet(f, T)
  BY <1>1, AmountSumIsSum
<1>3. SumFunctionOnSet(f, S) = f[x] + SumFunctionOnSet(f, T)
  BY <1>1, SumRemove
<1> QED
  BY <1>1, <1>2, <1>3

LEMMA AmountEmpty == AmountSum({}) = 0
<1> DEFINE f == [x \in {} |-> 0]
           S == {}
<1>1. IsFiniteSet(S) /\ \A x \in S : f[x] = x.amount
  BY FS_EmptySet
<1> HIDE DEF f
<1>2. AmountSum(S) = SumFunctionOnSet(f, S)
  BY <1>1, AmountSumIsSum
<1> QED
  BY <1>2, SumEmpty

LEMMA AmountOfOne ==
    ASSUME NEW x, x.amount \in Int
    PROVE  AmountSum({x}) = x.amount /\ Amounts({x})
<1> DEFINE S == {x}
<1>1. Amounts(S) /\ x \in S /\ S \ {x} = {}
  BY FS_Singleton DEF Amounts
<1> HIDE DEF S
<1>2. AmountSum(S) = x.amount + AmountSum(S \ {x})
  BY <1>1, AmountTake
<1>3. AmountSum(S) = x.amount + 0
  BY <1>1, <1>2, AmountEmpty
<1> QED
  BY <1>1, <1>3 DEF S

LEMMA AmountPut ==
    ASSUME NEW S, Amounts(S), NEW x, x \notin S, x.amount \in Int
    PROVE  /\ AmountSum(S \cup {x}) = x.amount + AmountSum(S)
           /\ Amounts(S \cup {x})
<1> DEFINE T == S \cup {x}
<1>1. Amounts(T) /\ x \in T /\ T \ {x} = S
  BY FS_AddElement DEF Amounts
<1> HIDE DEF T
<1>2. AmountSum(T) = x.amount + AmountSum(T \ {x})
  BY <1>1, AmountTake
<1> QED
  BY <1>1, <1>2 DEF T

LEMMA AmountOfTwo ==
    ASSUME NEW x, NEW y, x # y, x.amount \in Int, y.amount \in Int
    PROVE  AmountSum({x, y}) = x.amount + y.amount
<1>1. AmountSum({y}) = y.amount /\ Amounts({y}) /\ x \notin {y}
  BY AmountOfOne
<1>2. AmountSum({y} \cup {x}) = x.amount + AmountSum({y})
  BY <1>1, AmountPut
<1>3. {y} \cup {x} = {x, y}
  OBVIOUS
<1> QED
  BY <1>1, <1>2, <1>3

-----------------------------------------------------------------------------
\* What a diagnosis comes to when one rule finds all of the delta, or none finds any.

LEMMA OneRuleDecides ==
    ASSUME NEW delta, NEW rules, NEW fallback, DOMAIN rules \subseteq Nat, NEW k \in DOMAIN rules,
           rules[k].found # {}, \A j \in DOMAIN rules \ {k} : rules[j].found = {},
           AmountSum(rules[k].found) = delta, delta \in Int
    PROVE  LET d == Verdict(delta, rules, fallback)
           IN  /\ d.delta = delta /\ d.label = rules[k].label /\ d.tier = "A" /\ d.residual = 0
               /\ d.attributions = rules[k].found
<1>1. UNION {rules[j].found : j \in DOMAIN rules} = rules[k].found
  OBVIOUS
<1>2. PICK K : K = {j \in DOMAIN rules : rules[j].found # {}}
  OBVIOUS
<1>3. K = {k} /\ k \in Nat
  BY <1>2
<1>4. Min(K) = k /\ K # {}
  BY <1>3 DEF Min
<1>5. PICK found : found = rules[k].found
  OBVIOUS
<1>6. delta - AmountSum(found) = 0
  BY <1>5
<1>7. Verdict(delta, rules, fallback)
        = [delta |-> delta, attributions |-> found, residual |-> 0, tier |-> "A",
           label |-> rules[k].label]
  BY <1>1, <1>2, <1>4, <1>5, <1>6 DEF Verdict
<1> QED
  BY <1>5, <1>7

LEMMA NoRuleDecides ==
    ASSUME NEW delta \in Int \ {0}, NEW rules, NEW fallback,
           \A j \in DOMAIN rules : rules[j].found = {}
    PROVE  LET d == Verdict(delta, rules, fallback)
           IN  /\ d.delta = delta /\ d.label = fallback /\ d.tier = "C" /\ d.residual = delta
               /\ d.attributions = {}
<1>1. UNION {rules[j].found : j \in DOMAIN rules} = {}
  OBVIOUS
<1>2. {j \in DOMAIN rules : rules[j].found # {}} = {}
  OBVIOUS
<1>3. AmountSum({}) = 0 /\ delta - 0 = delta
  BY AmountEmpty
<1>4. Verdict(delta, rules, fallback)
        = [delta |-> delta, attributions |-> {}, residual |-> delta, tier |-> "C",
           label |-> fallback]
  BY <1>1, <1>2, <1>3 DEF Verdict
<1> QED
  BY <1>4
-----------------------------------------------------------------------------
\* Delta 1 of a settlement, part by part.

\* Only the payments of G are charged off policy; only the refunds of R have no item.
ChargedBut(s, G) == \A i \in PaymentItems(s) \ G : FeeGap(i) = 0 /\ TaxGap(i) = 0
DeductedBut(s, R) ==
    OfType(ItemsIn(items, s), "REFUND") = {RefundItem(s, r) : r \in InPeriodRefunds(s) \ R}

LEMMA SumOfOne ==
    ASSUME NEW f, NEW S, IsFiniteSet(S), IntegerOn(f, S), NEW x \in S, \A y \in S \ {x} : f[y] = 0
    PROVE  SumFunctionOnSet(f, S) = f[x]
<1>1. SumFunctionOnSet(f, S) = f[x] + SumFunctionOnSet(f, S \ {x})
  BY SumRemove
<1>2. SumFunctionOnSet(f, S \ {x}) = 0
  <2>1. IsFiniteSet(S \ {x})
    BY FS_Subset
  <2> QED
    BY <2>1, SumZero
<1> QED
  BY <1>1, <1>2 DEF IntegerOn

\* Only payments are charged, so what a settlement is charged beyond policy is what its
\* payments are.
LEMMA GapsAddUp ==
    ASSUME ItemsTyped, PaymentsTyped, NEW s
    PROVE  LET P   == PaymentItems(s)
               fee == [i \in P |-> FeeGap(i)]
               tax == [i \in P |-> TaxGap(i)]
           IN  /\ P \subseteq items /\ IsFiniteSet(P) /\ IntegerOn(fee, P) /\ IntegerOn(tax, P)
               /\ PolicyFees(s) \in Int /\ PolicyTaxes(s) \in Int
               /\ FeeSum(P) \in Int /\ TaxSum(P) \in Int
               /\ FeeSum(ItemsIn(items, s)) = FeeSum(P) /\ TaxSum(ItemsIn(items, s)) = TaxSum(P)
               /\ FeeSum(P) = PolicyFees(s) + SumFunctionOnSet(fee, P)
               /\ TaxSum(P) = PolicyTaxes(s) + SumFunctionOnSet(tax, P)
<1> DEFINE P == PaymentItems(s)
           R == ItemsIn(items, s) \ P
           feegap == [i \in P |-> FeeGap(i)]
           taxgap == [i \in P |-> TaxGap(i)]
           fee == [i \in items |-> i.fee]
           tax == [i \in items |-> i.tax]
           pfee == [i \in P |-> PolicyFee(i.ref[1])]
           ptax == [i \in P |-> PolicyTax(i.ref[1])]
<1>1. P \in SUBSET items /\ R \in SUBSET items /\ P \cap R = {} /\ ItemsIn(items, s) = P \cup R
  BY DEF PaymentItems, OfType, ItemsIn
<1>2. /\ ItemsIn(items, s) \in SUBSET items
      /\ FeeSum(P) \in Int /\ TaxSum(P) \in Int
      /\ IsFiniteSet(P) /\ IsFiniteSet(R) /\ IsFiniteSet(ItemsIn(items, s))
  BY <1>1, PartsOfASettlement, TypedRows, SumsWhole
<1>3. \A i \in R : i.fee = 0 /\ i.tax = 0
  BY DEF ItemsTyped, IsItem, PaymentItems, OfType, ItemsIn
<1>4. \A i \in P : /\ i.fee \in Int /\ i.tax \in Int
                   /\ PolicyFee(i.ref[1]) \in Int /\ PolicyTax(i.ref[1]) \in Int
  <2>1. \A i \in P : /\ i.fee \in Int /\ i.tax \in Int
                     /\ \E p \in DOMAIN payments : i.ref[1] = p
    BY DEF ItemsTyped, IsItem, PaymentItems, OfType, ItemsIn
  <2> QED
    BY <2>1, PolicyIsWhole
<1>5. \A i \in P : /\ FeeGap(i) = i.fee - PolicyFee(i.ref[1]) /\ FeeGap(i) \in Int
                   /\ TaxGap(i) = i.tax - PolicyTax(i.ref[1]) /\ TaxGap(i) \in Int
  BY <1>4 DEF FeeGap, TaxGap
<1>6. IntegerOn(feegap, P) /\ IntegerOn(taxgap, P) /\ IntegerOn(pfee, P) /\ IntegerOn(ptax, P)
  BY <1>4, <1>5 DEF IntegerOn
<1>7. /\ \A i \in P : feegap[i] = fee[i] - pfee[i] /\ taxgap[i] = tax[i] - ptax[i]
      /\ \A i \in items : fee[i] = i.fee /\ tax[i] = i.tax
      /\ \A i \in P : pfee[i] = PolicyFee(i.ref[1]) /\ ptax[i] = PolicyTax(i.ref[1])
      /\ IntegerOn(fee, P) /\ IntegerOn(tax, P) /\ IntegerOn(fee, R) /\ IntegerOn(tax, R)
      /\ \A i \in R : fee[i] = 0 /\ tax[i] = 0
  BY <1>1, <1>3, <1>4, <1>5 DEF IntegerOn
<1>8. /\ PolicyFees(s) = MapThenSumSet(LAMBDA i : PolicyFee(i.ref[1]), P)
      /\ PolicyTaxes(s) = MapThenSumSet(LAMBDA i : PolicyTax(i.ref[1]), P)
  BY DEF PolicyFees, PolicyTaxes
<1> HIDE DEF P, R, feegap, taxgap, fee, tax, pfee, ptax
<1>9. /\ FeeSum(P) = SumFunctionOnSet(fee, P) /\ TaxSum(P) = SumFunctionOnSet(tax, P)
      /\ FeeSum(ItemsIn(items, s)) = SumFunctionOnSet(fee, P \cup R)
      /\ TaxSum(ItemsIn(items, s)) = SumFunctionOnSet(tax, P \cup R)
  BY <1>1, <1>2, <1>7, FeeSumIsSum, TaxSumIsSum
<1>10. FeeSum(ItemsIn(items, s)) = FeeSum(P) /\ TaxSum(ItemsIn(items, s)) = TaxSum(P)
  <2>1. /\ SumFunctionOnSet(fee, P \cup R) = SumFunctionOnSet(fee, P) + SumFunctionOnSet(fee, R)
        /\ SumFunctionOnSet(tax, P \cup R) = SumFunctionOnSet(tax, P) + SumFunctionOnSet(tax, R)
    BY <1>1, <1>2, <1>7, SumUnion
  <2>2. SumFunctionOnSet(fee, R) = 0 /\ SumFunctionOnSet(tax, R) = 0
    BY <1>2, <1>7, SumZero
  <2> QED
    BY <1>2, <1>9, <2>1, <2>2
<1>11. PolicyFees(s) = SumFunctionOnSet(pfee, P)
  BY <1>2, <1>7, <1>8, PolicyFeeIsSum
<1>12. PolicyTaxes(s) = SumFunctionOnSet(ptax, P)
  BY <1>2, <1>7, <1>8, PolicyTaxIsSum
<1>13. SumFunctionOnSet(pfee, P) \in Int /\ SumFunctionOnSet(ptax, P) \in Int
  BY <1>2, <1>6, SumType
<1>14. SumFunctionOnSet(feegap, P) = SumFunctionOnSet(fee, P) - SumFunctionOnSet(pfee, P)
  BY <1>2, <1>6, <1>7, SumDifference
<1>15. SumFunctionOnSet(taxgap, P) = SumFunctionOnSet(tax, P) - SumFunctionOnSet(ptax, P)
  BY <1>2, <1>6, <1>7, SumDifference
<1>16. /\ FeeSum(P) = PolicyFees(s) + SumFunctionOnSet(feegap, P)
       /\ TaxSum(P) = PolicyTaxes(s) + SumFunctionOnSet(taxgap, P)
  BY <1>2, <1>9, <1>11, <1>12, <1>13, <1>14, <1>15
<1>17. PolicyFees(s) \in Int /\ PolicyTaxes(s) \in Int
  BY <1>11, <1>12, <1>13
<1> QED
  BY <1>1, <1>2, <1>6, <1>10, <1>16, <1>17 DEF P, feegap, taxgap

\* One payment off policy: the charges are off by what it is.
LEMMA OneGap ==
    ASSUME ItemsTyped, PaymentsTyped, NEW s, NEW i \in PaymentItems(s), ChargedBut(s, {i})
    PROVE  /\ FeeGap(i) \in Int /\ TaxGap(i) \in Int
           /\ PolicyFees(s) \in Int /\ PolicyTaxes(s) \in Int
           /\ FeeSum(ItemsIn(items, s)) = PolicyFees(s) + FeeGap(i)
           /\ TaxSum(ItemsIn(items, s)) = PolicyTaxes(s) + TaxGap(i)
<1> DEFINE P == PaymentItems(s)
           fee == [j \in P |-> FeeGap(j)]
           tax == [j \in P |-> TaxGap(j)]
<1>1. /\ IsFiniteSet(P) /\ IntegerOn(fee, P) /\ IntegerOn(tax, P)
      /\ PolicyFees(s) \in Int /\ PolicyTaxes(s) \in Int
      /\ FeeSum(ItemsIn(items, s)) = PolicyFees(s) + SumFunctionOnSet(fee, P)
      /\ TaxSum(ItemsIn(items, s)) = PolicyTaxes(s) + SumFunctionOnSet(tax, P)
  BY GapsAddUp
<1>2. /\ i \in P /\ fee[i] = FeeGap(i) /\ tax[i] = TaxGap(i)
      /\ \A j \in P \ {i} : fee[j] = 0 /\ tax[j] = 0
  BY DEF ChargedBut
<1> HIDE DEF P, fee, tax
<1>3. SumFunctionOnSet(fee, P) = fee[i] /\ SumFunctionOnSet(tax, P) = tax[i]
  BY <1>1, <1>2, SumOfOne
<1> QED
  BY <1>1, <1>2, <1>3 DEF IntegerOn

\* Delta 1 is what the header misses of its items, and what these miss of what is due.
LEMMA DeltaParts ==
    ASSUME ItemsTyped, PaymentsTyped, RefundsTyped, NEW s, header[s].net \in Int
    PROVE  LET its == Rollup(items, s)
           IN  /\ Whole6(its) /\ its.fee = FeeSum(ItemsIn(items, s)) /\ its.tax = TaxSum(ItemsIn(items, s))
               /\ PolicyFees(s) \in Int /\ PolicyTaxes(s) \in Int
               /\ Amounts(InPeriodRefunds(s)) /\ AmountSum(InPeriodRefunds(s)) \in Int
               /\ Delta1(s) = (its.net - header[s].net) + (its.fee - PolicyFees(s))
                                + (its.tax - PolicyTaxes(s))
                                + (its.refund - AmountSum(InPeriodRefunds(s)))
               /\ Delta1(s) \in Int
<1>1. PICK its : its = Rollup(items, s)
  OBVIOUS
<1>2. /\ Whole6(its) /\ its.fee = FeeSum(ItemsIn(items, s)) /\ its.tax = TaxSum(ItemsIn(items, s))
  <2>1. Rows(items)
    BY TypedRows
  <2> QED
    BY <1>1, <2>1, RollupWhole
<1>3. PolicyFees(s) \in Int /\ PolicyTaxes(s) \in Int
  BY GapsAddUp
<1>4. Amounts(InPeriodRefunds(s))
  BY FS_Subset DEF Amounts, InPeriodRefunds, RefundsTyped, IsRefund
<1>5. AmountSum(InPeriodRefunds(s)) \in Int
  BY <1>4, AmountWhole
<1>6. Delta1(s) = (its.gross - AmountSum(InPeriodRefunds(s)) - PolicyFees(s) - PolicyTaxes(s)
                      + its.adjustment) - header[s].net
  <2>1. ExpectedNet(s) = its.gross - AmountSum(InPeriodRefunds(s)) - PolicyFees(s)
                            - PolicyTaxes(s) + its.adjustment
    BY <1>1 DEF ExpectedNet
  <2> QED
    BY <2>1 DEF Delta1
<1>7. /\ Delta1(s) = (its.net - header[s].net) + (its.fee - PolicyFees(s))
                      + (its.tax - PolicyTaxes(s))
                      + (its.refund - AmountSum(InPeriodRefunds(s)))
      /\ Delta1(s) \in Int
  BY <1>2, <1>3, <1>5, <1>6 DEF Whole6
<1> QED
  BY <1>1, <1>2, <1>3, <1>4, <1>5, <1>7

\* What was deducted falls short by the refunds without an item.
LEMMA DeductedAddsUp ==
    ASSUME ItemsTyped, RefundsTyped, NEW s
    PROVE  /\ DeductedBut(s, {}) => Rollup(items, s).refund = AmountSum(InPeriodRefunds(s))
           /\ \A r \in InPeriodRefunds(s) :
                 DeductedBut(s, {r})
                 => Rollup(items, s).refund = AmountSum(InPeriodRefunds(s)) - r.amount
<1>1. PICK its : its = Rollup(items, s)
  OBVIOUS
<1>2. its.refund = -AmountSum(OfType(ItemsIn(items, s), "REFUND"))
  <2>1. Rows(items)
    BY TypedRows
  <2> QED
    BY <1>1, <2>1, RollupWhole
<1>3. Amounts(InPeriodRefunds(s)) /\ InPeriodRefunds(s) \in SUBSET refunds
  BY FS_Subset DEF Amounts, InPeriodRefunds, RefundsTyped, IsRefund
<1>4. ASSUME NEW R, DeductedBut(s, R)
      PROVE  /\ AmountSum(InPeriodRefunds(s) \ R) \in Int
             /\ its.refund = AmountSum(InPeriodRefunds(s) \ R)
  <2>1. InPeriodRefunds(s) \ R \in SUBSET refunds
    BY <1>3
  <2>2. OfType(ItemsIn(items, s), "REFUND") = {RefundItem(s, r) : r \in InPeriodRefunds(s) \ R}
    BY <1>4 DEF DeductedBut
  <2>3. /\ AmountSum(InPeriodRefunds(s) \ R) \in Int
        /\ AmountSum(OfType(ItemsIn(items, s), "REFUND")) = -AmountSum(InPeriodRefunds(s) \ R)
    BY <2>1, <2>2, RefundsAddUp
  <2> QED
    BY <1>2, <2>3
<1>5. DeductedBut(s, {}) => its.refund = AmountSum(InPeriodRefunds(s))
  <2>1. InPeriodRefunds(s) \ {} = InPeriodRefunds(s)
    OBVIOUS
  <2> QED
    BY <1>4, <2>1
<1>6. ASSUME NEW r \in InPeriodRefunds(s), DeductedBut(s, {r})
      PROVE  its.refund = AmountSum(InPeriodRefunds(s)) - r.amount
  <2>1. AmountSum(InPeriodRefunds(s)) = r.amount + AmountSum(InPeriodRefunds(s) \ {r})
    BY <1>3, AmountTake
  <2>2. r.amount \in Int
    BY <1>3 DEF Amounts
  <2> QED
    BY <1>4, <1>6, <2>1, <2>2
<1> QED
  BY <1>1, <1>5, <1>6

\* What each rule of delta 1 finds.
Off(s) == IF TaxIsMethodError(s) THEN {}
          ELSE {i \in PaymentItems(s) : FeeGap(i) # 0 \/ TaxGap(i) # 0}

HeaderFinds(s) ==
    IF RollupGap(s) = 0 THEN {} ELSE {Attribution("rollup", <<s>>, RollupGap(s))}
TaxFinds(s) ==
    IF TaxIsMethodError(s) THEN {Attribution("tax", <<s>>, Rollup(items, s).tax - PolicyTaxes(s))}
    ELSE {}
FeeFinds(s) ==
    {Attribution("fee", i.ref, FeeGap(i) - Credited(s, i.ref[1])) : i \in {j \in Off(s) : FeeGap(j) # 0}}
    \cup {Attribution("tax_on_fee", i.ref, TaxGap(i)) : i \in {j \in Off(s) : TaxGap(j) # 0}}
RefundFinds(s) ==
    {Attribution("refund", r.id, -r.amount) :
        r \in {q \in InPeriodRefunds(s) : q.id \notin Itemised(s, "REFUND")}}
AdjustmentFinds(s) ==
    {Attribution("adjustment", a.id, -a.amount) :
        a \in {b \in UnitemisedAdjustments(s) : ~ IsFeeCorrection(b)}}

RulesListed ==
    \A s : Rules1(s) =
        << [label |-> "HEADER_ROLLUP_MISMATCH", found |-> HeaderFinds(s)],
           [label |-> "TAX_ROUNDING_MISMATCH", found |-> TaxFinds(s)],
           [label |-> "FEE_RATE_MISMATCH", found |-> FeeFinds(s)],
           [label |-> "REFUND_NOT_DEDUCTED", found |-> RefundFinds(s)],
           [label |-> "ADJUSTMENT_UNEXPLAINED", found |-> AdjustmentFinds(s)] >>

LEMMA RulesAreListed == RulesListed
  BY ZenonT(60) DEF RulesListed, Rules1, Off, HeaderFinds, TaxFinds, FeeFinds, RefundFinds, AdjustmentFinds

Rule(rule, label, found) == rule.label = label /\ rule.found = found

LEMMA RulesUnfolded ==
    ASSUME NEW s, NEW rules, rules = Rules1(s)
    PROVE  /\ DOMAIN rules = 1 .. 5
           /\ Rule(rules[1], "HEADER_ROLLUP_MISMATCH", HeaderFinds(s))
           /\ Rule(rules[2], "TAX_ROUNDING_MISMATCH", TaxFinds(s))
           /\ Rule(rules[3], "FEE_RATE_MISMATCH", FeeFinds(s))
           /\ Rule(rules[4], "REFUND_NOT_DEDUCTED", RefundFinds(s))
           /\ Rule(rules[5], "ADJUSTMENT_UNEXPLAINED", AdjustmentFinds(s))
  BY RulesAreListed DEF RulesListed, Rule

\* The refunds that the rule finds are those without an item.
LEMMA RefundsFound ==
    ASSUME RefundsTyped, NEW s, NEW R, DeductedBut(s, R), R \subseteq InPeriodRefunds(s)
    PROVE  {q \in InPeriodRefunds(s) : q.id \notin Itemised(s, "REFUND")} = R
<1>1. \A q : RefundItem(s, q).ref = q.id
  BY DEF RefundItem, Item
<1>2. Itemised(s, "REFUND") = {q.id : q \in InPeriodRefunds(s) \ R}
  BY <1>1 DEF DeductedBut, Itemised
<1>3. \A q, r \in InPeriodRefunds(s) : q.id = r.id => q = r
  BY DEF InPeriodRefunds, RefundsTyped
<1> QED
  BY <1>2, <1>3
-----------------------------------------------------------------------------
\* One defect, one diagnosis.

Explained(s, label, amount) ==
    LET is == Diagnose1(s) IN is.label = label /\ is.tier = "A" /\ Abs(is.delta) = amount
Unexplained(s, amount) ==
    LET is == Diagnose1(s)
    IN  is.label = "UNEXPLAINED_SHORTFALL" /\ is.tier = "C" /\ is.residual = amount

\* The header falls short of its items by so much, in its net and in its gross.
HeaderShort(s, net, gross) ==
    LET its == Rollup(items, s)
    IN  /\ header[s].net = its.net - net /\ header[s].gross = its.gross - gross
        /\ header[s].adjustment = its.adjustment

\* A payment charged at another rate, of which corrections have returned c.
DriftExplained ==
    \A s \in Settlement : \A i \in PaymentItems(s), c \in Int :
        /\ Typed /\ ChargedBut(s, {i}) /\ DeductedBut(s, {}) /\ HeaderShort(s, -c, 0)
        /\ FeeGap(i) # 0
        /\ AmountSum(UnitemisedAdjustments(s)) = c
        /\ \A a \in UnitemisedAdjustments(s) : IsFeeCorrection(a) /\ a.payment = i.ref[1]
        => Explained(s, "FEE_RATE_MISMATCH", Abs(FeeGap(i) + TaxGap(i) - c))

LEMMA DriftIsExplained == DriftExplained
<1> SUFFICES ASSUME NEW s \in Settlement, NEW i \in PaymentItems(s), NEW c \in Int,
                    Typed, ChargedBut(s, {i}), DeductedBut(s, {}), HeaderShort(s, -c, 0),
                    FeeGap(i) # 0, AmountSum(UnitemisedAdjustments(s)) = c,
                    \A a \in UnitemisedAdjustments(s) : IsFeeCorrection(a) /\ a.payment = i.ref[1]
             PROVE  Explained(s, "FEE_RATE_MISMATCH", Abs(FeeGap(i) + TaxGap(i) - c))
  BY DEF DriftExplained
<1> USE DEF Typed
<1>1. PICK its : its = Rollup(items, s)
  OBVIOUS
<1>2. Whole6(its)
  <2>1. Rows(items)
    BY TypedRows
  <2> QED
    BY <1>1, <2>1, RollupWhole
<1>3. /\ header[s].net = its.net + c /\ header[s].net \in Int
      /\ RollupGap(s) = 0
  BY <1>1, <1>2 DEF HeaderShort, RollupGap, Whole6
<1>4. /\ FeeGap(i) \in Int /\ TaxGap(i) \in Int
      /\ PolicyFees(s) \in Int /\ PolicyTaxes(s) \in Int
      /\ its.fee = PolicyFees(s) + FeeGap(i) /\ its.tax = PolicyTaxes(s) + TaxGap(i)
  BY <1>1, <1>3, OneGap, DeltaParts
<1>5. Delta1(s) = FeeGap(i) + TaxGap(i) - c /\ Delta1(s) \in Int
  <2>1. /\ Delta1(s) = (its.net - header[s].net) + (its.fee - PolicyFees(s))
                         + (its.tax - PolicyTaxes(s))
                         + (its.refund - AmountSum(InPeriodRefunds(s)))
        /\ AmountSum(InPeriodRefunds(s)) \in Int /\ Delta1(s) \in Int
    BY <1>1, <1>3, DeltaParts
  <2>2. its.refund = AmountSum(InPeriodRefunds(s))
    BY <1>1, DeductedAddsUp
  <2> QED
    BY <1>2, <1>3, <1>4, <2>1, <2>2 DEF Whole6
<1>6. ~ TaxIsMethodError(s)
  <2>1. Rollup(items, s).fee # PolicyFees(s)
    BY <1>1, <1>4
  <2> QED
    BY <2>1 DEF TaxIsMethodError
<1>7. {j \in Off(s) : FeeGap(j) # 0} = {i} /\ {j \in Off(s) : TaxGap(j) # 0} \subseteq {i}
      /\ (i \in {j \in Off(s) : TaxGap(j) # 0} <=> TaxGap(i) # 0)
  BY <1>6 DEF Off, ChargedBut
<1>8. Credited(s, i.ref[1]) = c
  <2>1. {a \in UnitemisedAdjustments(s) : IsFeeCorrection(a) /\ a.payment = i.ref[1]}
          = UnitemisedAdjustments(s)
    OBVIOUS
  <2> QED
    BY <2>1 DEF Credited
<1> DEFINE fee == Attribution("fee", i.ref, FeeGap(i) - c)
           tax == Attribution("tax_on_fee", i.ref, TaxGap(i))
           found == IF TaxGap(i) = 0 THEN {fee} ELSE {fee, tax}
<1>9. HeaderFinds(s) = {} /\ TaxFinds(s) = {} /\ RefundFinds(s) = {} /\ AdjustmentFinds(s) = {}
  <2>1. {q \in InPeriodRefunds(s) : q.id \notin Itemised(s, "REFUND")} = {}
    BY RefundsFound
  <2>2. {b \in UnitemisedAdjustments(s) : ~ IsFeeCorrection(b)} = {}
    OBVIOUS
  <2> QED
    BY <1>3, <1>6, <2>1, <2>2 DEF HeaderFinds, TaxFinds, RefundFinds, AdjustmentFinds
<1>10. FeeFinds(s) = found
  <2>1. FeeFinds(s) = {fee} \cup {Attribution("tax_on_fee", j.ref, TaxGap(j)) :
                                    j \in {k \in Off(s) : TaxGap(k) # 0}}
    <3>1. {Attribution("fee", j.ref, FeeGap(j) - Credited(s, j.ref[1])) : j \in {i}} = {fee}
      BY <1>8
    <3> QED
      BY <1>7, <3>1 DEF FeeFinds
  <2>2. CASE TaxGap(i) = 0
    <3>1. {k \in Off(s) : TaxGap(k) # 0} = {}
      BY <1>7, <2>2
    <3> QED
      BY <2>1, <2>2, <3>1
  <2>3. CASE TaxGap(i) # 0
    <3>1. {k \in Off(s) : TaxGap(k) # 0} = {i}
      BY <1>7, <2>3
    <3>2. {Attribution("tax_on_fee", j.ref, TaxGap(j)) : j \in {i}} = {tax}
      OBVIOUS
    <3> HIDE DEF fee, tax
    <3> QED
      BY <2>1, <2>3, <3>1, <3>2
  <2> QED
    BY <2>2, <2>3
<1>11. AmountSum(found) = Delta1(s) /\ found # {}
  <2>1. fee # tax /\ fee.amount = FeeGap(i) - c /\ tax.amount = TaxGap(i)
    BY DEF Attribution
  <2>2. fee.amount \in Int /\ tax.amount \in Int
    BY <1>4, <2>1
  <2> HIDE DEF fee, tax
  <2>3. AmountSum({fee}) = fee.amount /\ AmountSum({fee, tax}) = fee.amount + tax.amount
    BY <2>1, <2>2, AmountOfOne, AmountOfTwo
  <2>4. CASE TaxGap(i) = 0
    <3>1. found = {fee}
      BY <2>4
    <3>2. AmountSum(found) = FeeGap(i) - c
      BY <2>1, <2>3, <3>1
    <3> QED
      BY <1>4, <1>5, <2>4, <3>1, <3>2
  <2>5. CASE TaxGap(i) # 0
    <3>1. found = {fee, tax}
      BY <2>5
    <3>2. AmountSum(found) = (FeeGap(i) - c) + TaxGap(i)
      BY <2>1, <2>3, <3>1
    <3> QED
      BY <1>4, <1>5, <3>1, <3>2
  <2> QED
    BY <2>4, <2>5
<1> HIDE DEF found
<1>12. PICK rules : rules = Rules1(s)
  OBVIOUS
<1>13. /\ DOMAIN rules = 1 .. 5 /\ rules[3].label = "FEE_RATE_MISMATCH" /\ rules[3].found = found
       /\ \A j \in DOMAIN rules \ {3} : rules[j].found = {}
  BY <1>9, <1>10, <1>12, RulesUnfolded DEF Rule
<1>14. LET d == Verdict(Delta1(s), rules, "UNEXPLAINED_SHORTFALL")
       IN  d.delta = Delta1(s) /\ d.label = "FEE_RATE_MISMATCH" /\ d.tier = "A"
  <2>1. DOMAIN rules \subseteq Nat /\ 3 \in DOMAIN rules
    BY <1>13
  <2> QED
    BY <1>5, <1>11, <1>13, <2>1, OneRuleDecides
<1> QED
  BY <1>5, <1>12, <1>14 DEF Explained, Diagnose1

\* Without a payment off policy the charges add up, and neither tax nor fees are blamed.
LEMMA ChargesAddUp ==
    ASSUME Typed, NEW s, ChargedBut(s, {})
    PROVE  /\ Rollup(items, s).fee = PolicyFees(s) /\ Rollup(items, s).tax = PolicyTaxes(s)
           /\ TaxFinds(s) = {} /\ FeeFinds(s) = {}
<1>1. \A i \in PaymentItems(s) : FeeGap(i) = 0 /\ TaxGap(i) = 0
  BY DEF ChargedBut
<1>2. /\ FeeSum(ItemsIn(items, s)) = PolicyFees(s) /\ PolicyFees(s) \in Int
      /\ TaxSum(ItemsIn(items, s)) = PolicyTaxes(s) /\ PolicyTaxes(s) \in Int
  BY <1>1, ChargesArePolicy DEF Typed
<1>3. Rollup(items, s).fee = PolicyFees(s) /\ Rollup(items, s).tax = PolicyTaxes(s)
  <2>1. Rows(items)
    BY TypedRows DEF Typed
  <2> QED
    BY <1>2, <2>1, RollupWhole
<1>4. ~ TaxIsMethodError(s)
  BY <1>2, <1>3 DEF TaxIsMethodError
<1>5. Off(s) = {}
  BY <1>1 DEF Off
<1> QED
  BY <1>3, <1>4, <1>5 DEF TaxFinds, FeeFinds

\* The parts of a delta 1 whose settlement is charged by policy and deducts its refunds.
LEMMA ShortBy ==
    ASSUME Typed, NEW s, DeductedBut(s, {}), NEW net \in Int, NEW gross \in Int,
           HeaderShort(s, net, gross)
    PROVE  LET its == Rollup(items, s)
           IN  /\ Delta1(s) = net + (its.fee - PolicyFees(s)) + (its.tax - PolicyTaxes(s))
               /\ its.fee \in Int /\ its.tax \in Int
               /\ PolicyFees(s) \in Int /\ PolicyTaxes(s) \in Int
               /\ RollupGap(s) = gross /\ RefundFinds(s) = {}
<1>1. PICK its : its = Rollup(items, s)
  OBVIOUS
<1>2. Whole6(its)
  <2>1. Rows(items)
    BY TypedRows DEF Typed
  <2> QED
    BY <1>1, <2>1, RollupWhole
<1>3. header[s].net = its.net - net /\ header[s].net \in Int /\ RollupGap(s) = gross
  BY <1>1, <1>2 DEF HeaderShort, RollupGap, Whole6
<1>4. /\ Delta1(s) = (its.net - header[s].net) + (its.fee - PolicyFees(s))
                       + (its.tax - PolicyTaxes(s))
                       + (its.refund - AmountSum(InPeriodRefunds(s)))
      /\ AmountSum(InPeriodRefunds(s)) \in Int
      /\ PolicyFees(s) \in Int /\ PolicyTaxes(s) \in Int
  BY <1>1, <1>3, DeltaParts DEF Typed
<1>5. its.refund = AmountSum(InPeriodRefunds(s))
  BY <1>1, DeductedAddsUp DEF Typed
<1>6. RefundFinds(s) = {}
  <2>1. {q \in InPeriodRefunds(s) : q.id \notin Itemised(s, "REFUND")} = {}
    BY RefundsFound DEF Typed
  <2> QED
    BY <2>1 DEF RefundFinds
<1>7. Delta1(s) = net + (its.fee - PolicyFees(s)) + (its.tax - PolicyTaxes(s))
  BY <1>2, <1>3, <1>4, <1>5 DEF Whole6
<1> QED
  BY <1>1, <1>2, <1>3, <1>4, <1>6, <1>7 DEF Whole6

\* Among the rules of delta 1, one that alone finds something, all of it, names the delta.
LEMMA OneRuleExplains ==
    ASSUME NEW s, Delta1(s) \in Int, NEW found, AmountSum(found) = Delta1(s), found # {},
           NEW rules, rules = Rules1(s), NEW k \in 1 .. 5, rules[k].found = found,
           \A j \in 1 .. 5 \ {k} : rules[j].found = {}
    PROVE  Explained(s, rules[k].label, Abs(Delta1(s)))
<1>1. DOMAIN rules = 1 .. 5
  BY RulesUnfolded
<1>2. DOMAIN rules \subseteq Nat /\ k \in DOMAIN rules
  BY <1>1
<1>3. LET d == Verdict(Delta1(s), rules, "UNEXPLAINED_SHORTFALL")
      IN  d.delta = Delta1(s) /\ d.label = rules[k].label /\ d.tier = "A"
  BY <1>1, <1>2, OneRuleDecides
<1> QED
  BY <1>3 DEF Explained, Diagnose1

\* A header that is short of its items in net and gross.
ShortfallExplained ==
    \A s \in Settlement, amount \in Int \ {0} :
        /\ Typed /\ ChargedBut(s, {}) /\ DeductedBut(s, {}) /\ UnitemisedAdjustments(s) = {}
        /\ HeaderShort(s, amount, amount)
        => Explained(s, "HEADER_ROLLUP_MISMATCH", Abs(amount))

LEMMA ShortfallIsExplained == ShortfallExplained
<1> SUFFICES ASSUME NEW s \in Settlement, NEW amount \in Int \ {0}, Typed, ChargedBut(s, {}),
                    DeductedBut(s, {}), UnitemisedAdjustments(s) = {},
                    HeaderShort(s, amount, amount)
             PROVE  Explained(s, "HEADER_ROLLUP_MISMATCH", Abs(amount))
  BY DEF ShortfallExplained
<1> DEFINE found == {Attribution("rollup", <<s>>, amount)}
<1>1. Delta1(s) = amount /\ RollupGap(s) = amount /\ RefundFinds(s) = {}
      /\ TaxFinds(s) = {} /\ FeeFinds(s) = {}
  BY ShortBy, ChargesAddUp
<1>2. AdjustmentFinds(s) = {}
  BY DEF AdjustmentFinds
<1>3. HeaderFinds(s) = found /\ found # {}
  BY <1>1 DEF HeaderFinds
<1>4. AmountSum(found) = amount
  <2>1. PICK x : x = Attribution("rollup", <<s>>, amount)
    OBVIOUS
  <2>2. x.amount = amount
    BY <2>1 DEF Attribution
  <2> QED
    BY <2>1, <2>2, AmountOfOne
<1> HIDE DEF found
<1>5. PICK rules : rules = Rules1(s)
  OBVIOUS
<1>6. /\ rules[1].found = found /\ rules[1].label = "HEADER_ROLLUP_MISMATCH"
      /\ \A j \in 1 .. 5 \ {1} : rules[j].found = {}
  BY <1>1, <1>2, <1>3, <1>5, RulesUnfolded DEF Rule
<1> QED
  BY <1>1, <1>3, <1>4, <1>5, <1>6, OneRuleExplains

\* An adjustment that the net has taken and no item shows.
AdjustmentExplained ==
    \A s \in Settlement : \A a \in UnitemisedAdjustments(s) :
        /\ Typed /\ ChargedBut(s, {}) /\ DeductedBut(s, {}) /\ UnitemisedAdjustments(s) = {a}
        /\ a.amount \in Int /\ ~ IsFeeCorrection(a)
        /\ HeaderShort(s, -a.amount, 0)
        => Explained(s, "ADJUSTMENT_UNEXPLAINED", Abs(-a.amount))

LEMMA AdjustmentIsExplained == AdjustmentExplained
<1> SUFFICES ASSUME NEW s \in Settlement, NEW a \in UnitemisedAdjustments(s),
                    Typed, ChargedBut(s, {}), DeductedBut(s, {}), UnitemisedAdjustments(s) = {a},
                    a.amount \in Int, ~ IsFeeCorrection(a), HeaderShort(s, -a.amount, 0)
             PROVE  Explained(s, "ADJUSTMENT_UNEXPLAINED", Abs(-a.amount))
  BY DEF AdjustmentExplained
<1> DEFINE found == {Attribution("adjustment", a.id, -a.amount)}
<1>1. Delta1(s) = -a.amount /\ RollupGap(s) = 0 /\ RefundFinds(s) = {}
      /\ TaxFinds(s) = {} /\ FeeFinds(s) = {}
  BY ShortBy, ChargesAddUp
<1>2. HeaderFinds(s) = {}
  BY <1>1 DEF HeaderFinds
<1>3. AdjustmentFinds(s) = found /\ found # {}
  BY DEF AdjustmentFinds
<1>4. AmountSum(found) = -a.amount
  <2>1. PICK x : x = Attribution("adjustment", a.id, -a.amount)
    OBVIOUS
  <2>2. x.amount = -a.amount /\ -a.amount \in Int
    BY <2>1 DEF Attribution
  <2> QED
    BY <2>1, <2>2, AmountOfOne
<1> HIDE DEF found
<1>5. PICK rules : rules = Rules1(s)
  OBVIOUS
<1>6. /\ rules[5].found = found /\ rules[5].label = "ADJUSTMENT_UNEXPLAINED"
      /\ \A j \in 1 .. 5 \ {5} : rules[j].found = {}
  BY <1>1, <1>2, <1>3, <1>5, RulesUnfolded DEF Rule
<1> QED
  BY <1>1, <1>3, <1>4, <1>5, <1>6, OneRuleExplains

\* A debit that nothing on the record explains.
DebitUnexplained ==
    \A s \in Settlement, amount \in Int \ {0} :
        /\ Typed /\ ChargedBut(s, {}) /\ DeductedBut(s, {}) /\ UnitemisedAdjustments(s) = {}
        /\ HeaderShort(s, amount, 0)
        => Unexplained(s, amount)

LEMMA DebitIsUnexplained == DebitUnexplained
<1> SUFFICES ASSUME NEW s \in Settlement, NEW amount \in Int \ {0}, Typed, ChargedBut(s, {}),
                    DeductedBut(s, {}), UnitemisedAdjustments(s) = {},
                    HeaderShort(s, amount, 0)
             PROVE  Unexplained(s, amount)
  BY DEF DebitUnexplained
<1>1. Delta1(s) = amount /\ RollupGap(s) = 0 /\ RefundFinds(s) = {}
      /\ TaxFinds(s) = {} /\ FeeFinds(s) = {}
  BY ShortBy, ChargesAddUp
<1>2. AdjustmentFinds(s) = {} /\ HeaderFinds(s) = {}
  BY <1>1 DEF AdjustmentFinds, HeaderFinds
<1>3. PICK rules : rules = Rules1(s)
  OBVIOUS
<1>4. DOMAIN rules = 1 .. 5 /\ \A j \in DOMAIN rules : rules[j].found = {}
  BY <1>1, <1>2, <1>3, RulesUnfolded DEF Rule
<1>5. LET d == Verdict(Delta1(s), rules, "UNEXPLAINED_SHORTFALL")
      IN  d.label = "UNEXPLAINED_SHORTFALL" /\ d.tier = "C" /\ d.residual = amount
  BY <1>1, <1>4, NoRuleDecides
<1> QED
  BY <1>3, <1>5 DEF Unexplained, Diagnose1

\* A refund of the period that was not deducted.
RefundExplained ==
    \A s \in Settlement : \A r \in InPeriodRefunds(s) :
        /\ Typed /\ ChargedBut(s, {}) /\ DeductedBut(s, {r}) /\ UnitemisedAdjustments(s) = {}
        /\ HeaderShort(s, 0, 0)
        => Explained(s, "REFUND_NOT_DEDUCTED", Abs(-r.amount))

LEMMA RefundIsExplained == RefundExplained
<1> SUFFICES ASSUME NEW s \in Settlement, NEW r \in InPeriodRefunds(s), Typed, ChargedBut(s, {}),
                    DeductedBut(s, {r}), UnitemisedAdjustments(s) = {}, HeaderShort(s, 0, 0)
             PROVE  Explained(s, "REFUND_NOT_DEDUCTED", Abs(-r.amount))
  BY DEF RefundExplained
<1> DEFINE found == {Attribution("refund", r.id, -r.amount)}
<1>1. PICK its : its = Rollup(items, s)
  OBVIOUS
<1>2. Whole6(its)
  <2>1. Rows(items)
    BY TypedRows DEF Typed
  <2> QED
    BY <1>1, <2>1, RollupWhole
<1>3. header[s].net = its.net /\ header[s].net \in Int /\ RollupGap(s) = 0
  BY <1>1, <1>2 DEF HeaderShort, RollupGap, Whole6
<1>4. /\ Delta1(s) = (its.net - header[s].net) + (its.fee - PolicyFees(s))
                       + (its.tax - PolicyTaxes(s))
                       + (its.refund - AmountSum(InPeriodRefunds(s)))
      /\ AmountSum(InPeriodRefunds(s)) \in Int
      /\ PolicyFees(s) \in Int /\ PolicyTaxes(s) \in Int
  BY <1>1, <1>3, DeltaParts DEF Typed
<1>5. its.refund = AmountSum(InPeriodRefunds(s)) - r.amount /\ r.amount \in Int
  BY <1>1, DeductedAddsUp DEF Typed, RefundsTyped, IsRefund, InPeriodRefunds
<1>6. TaxFinds(s) = {} /\ FeeFinds(s) = {} /\ its.fee = PolicyFees(s) /\ its.tax = PolicyTaxes(s)
  BY <1>1, ChargesAddUp
<1>7. Delta1(s) = -r.amount
  BY <1>2, <1>3, <1>4, <1>5, <1>6 DEF Whole6
<1>8. HeaderFinds(s) = {} /\ AdjustmentFinds(s) = {}
  BY <1>3 DEF HeaderFinds, AdjustmentFinds
<1>9. RefundFinds(s) = found /\ found # {}
  <2>1. {q \in InPeriodRefunds(s) : q.id \notin Itemised(s, "REFUND")} = {r}
    BY RefundsFound DEF Typed
  <2> QED
    BY <2>1 DEF RefundFinds
<1>10. AmountSum(found) = -r.amount
  <2>1. PICK x : x = Attribution("refund", r.id, -r.amount)
    OBVIOUS
  <2>2. x.amount = -r.amount /\ -r.amount \in Int
    BY <1>5, <2>1 DEF Attribution
  <2> QED
    BY <2>1, <2>2, AmountOfOne
<1> HIDE DEF found
<1>11. PICK rules : rules = Rules1(s)
  OBVIOUS
<1>12. /\ rules[4].found = found /\ rules[4].label = "REFUND_NOT_DEDUCTED"
       /\ \A j \in 1 .. 5 \ {4} : rules[j].found = {}
  BY <1>6, <1>8, <1>9, <1>11, RulesUnfolded DEF Rule
<1> QED
  BY <1>5, <1>7, <1>9, <1>10, <1>11, <1>12, OneRuleExplains

\* A tax that was rounded on the aggregated fee.
RoundingExplained ==
    \A s \in Settlement :
        /\ Typed /\ DeductedBut(s, {}) /\ UnitemisedAdjustments(s) = {} /\ HeaderShort(s, 0, 0)
        /\ TaxIsMethodError(s)
        => Explained(s, "TAX_ROUNDING_MISMATCH", Abs(Rollup(items, s).tax - PolicyTaxes(s)))

LEMMA RoundingIsExplained == RoundingExplained
<1> SUFFICES ASSUME NEW s \in Settlement, Typed, DeductedBut(s, {}), UnitemisedAdjustments(s) = {},
                    HeaderShort(s, 0, 0), TaxIsMethodError(s)
             PROVE  Explained(s, "TAX_ROUNDING_MISMATCH", Abs(Rollup(items, s).tax - PolicyTaxes(s)))
  BY DEF RoundingExplained
<1>1. PICK gap : gap = Rollup(items, s).tax - PolicyTaxes(s)
  OBVIOUS
<1> DEFINE found == {Attribution("tax", <<s>>, gap)}
<1>2. Rollup(items, s).fee = PolicyFees(s)
  BY DEF TaxIsMethodError
<1>3. Delta1(s) = gap /\ gap \in Int /\ RollupGap(s) = 0 /\ RefundFinds(s) = {}
  BY <1>1, <1>2, ShortBy
<1>4. HeaderFinds(s) = {} /\ FeeFinds(s) = {} /\ AdjustmentFinds(s) = {}
  BY <1>3 DEF HeaderFinds, FeeFinds, Off, AdjustmentFinds
<1>5. TaxFinds(s) = found /\ found # {}
  BY <1>1 DEF TaxFinds
<1>6. AmountSum(found) = gap
  <2>1. PICK x : x = Attribution("tax", <<s>>, gap)
    OBVIOUS
  <2>2. x.amount = gap
    BY <2>1 DEF Attribution
  <2> QED
    BY <1>3, <2>1, <2>2, AmountOfOne
<1> HIDE DEF found
<1>7. PICK rules : rules = Rules1(s)
  OBVIOUS
<1>8. /\ rules[2].found = found /\ rules[2].label = "TAX_ROUNDING_MISMATCH"
      /\ \A j \in 1 .. 5 \ {2} : rules[j].found = {}
  BY <1>3, <1>4, <1>5, <1>7, RulesUnfolded DEF Rule
<1> QED
  BY <1>1, <1>3, <1>5, <1>6, <1>7, <1>8, OneRuleExplains
-----------------------------------------------------------------------------
\* A step that leaves what is read of a settlement alone leaves its diagnosis alone.

Untouched(x) ==
    /\ UNCHANGED payments /\ header'[x] = header[x]
    /\ ItemsIn(items', x) = ItemsIn(items, x)
    /\ InPeriodRefunds(x)' = InPeriodRefunds(x)
    /\ \A a : a.settlement = x => (a \in adjustments' <=> a \in adjustments)

\* What policy makes of a settlement, as a sum over its payment items.
PolicyAddsUp ==
    \A s \in Settlement :
        LET P == PaymentItems(s)
        IN  /\ PolicyFees(s) = SumFunctionOnSet([i \in P |-> PolicyFee(i.ref[1])], P)
            /\ PolicyTaxes(s) = SumFunctionOnSet([i \in P |-> PolicyTax(i.ref[1])], P)

LEMMA PolicyIsSum == Typed => PolicyAddsUp
<1> SUFFICES ASSUME Typed, NEW s \in Settlement
             PROVE  LET P == PaymentItems(s)
                    IN  /\ PolicyFees(s) = SumFunctionOnSet([i \in P |-> PolicyFee(i.ref[1])], P)
                        /\ PolicyTaxes(s) = SumFunctionOnSet([i \in P |-> PolicyTax(i.ref[1])], P)
  BY DEF PolicyAddsUp
<1> DEFINE P == PaymentItems(s)
           pfee == [i \in P |-> PolicyFee(i.ref[1])]
           ptax == [i \in P |-> PolicyTax(i.ref[1])]
<1>1. IsFiniteSet(P)
  BY FS_Subset DEF Typed, ItemsTyped, PaymentItems, OfType, ItemsIn
<1>2. \A i \in P : pfee[i] = PolicyFee(i.ref[1]) /\ ptax[i] = PolicyTax(i.ref[1])
  OBVIOUS
<1>3. /\ PolicyFees(s) = MapThenSumSet(LAMBDA i : PolicyFee(i.ref[1]), P)
      /\ PolicyTaxes(s) = MapThenSumSet(LAMBDA i : PolicyTax(i.ref[1]), P)
  BY DEF PolicyFees, PolicyTaxes
<1> HIDE DEF P, pfee, ptax
<1>4. PolicyFees(s) = SumFunctionOnSet(pfee, P)
  BY <1>1, <1>2, <1>3, PolicyFeeIsSum
<1>5. PolicyTaxes(s) = SumFunctionOnSet(ptax, P)
  BY <1>1, <1>2, <1>3, PolicyTaxIsSum
<1> QED
  BY <1>4, <1>5 DEF P, pfee, ptax

LEMMA SamePolicy ==
    ASSUME Typed, Typed', NEW x \in Settlement, UNCHANGED payments,
           PaymentItems(x)' = PaymentItems(x)
    PROVE  PolicyFees(x)' = PolicyFees(x) /\ PolicyTaxes(x)' = PolicyTaxes(x)
<1>1. PolicyAddsUp /\ PolicyAddsUp'
  BY PolicyIsSum, PTL
<1>2. \A p : PolicyFee(p)' = PolicyFee(p) /\ PolicyTax(p)' = PolicyTax(p)
  BY DEF PolicyFee, PolicyTax
<1>3. PICK P : P = PaymentItems(x)
  OBVIOUS
<1>4. /\ PolicyFees(x) = SumFunctionOnSet([i \in P |-> PolicyFee(i.ref[1])], P)
      /\ PolicyTaxes(x) = SumFunctionOnSet([i \in P |-> PolicyTax(i.ref[1])], P)
  BY <1>1, <1>3 DEF PolicyAddsUp
<1>5. /\ PolicyFees(x)' = SumFunctionOnSet([i \in P |-> PolicyFee(i.ref[1])'], P)
      /\ PolicyTaxes(x)' = SumFunctionOnSet([i \in P |-> PolicyTax(i.ref[1])'], P)
  BY <1>1, <1>3 DEF PolicyAddsUp
<1>6. /\ [i \in P |-> PolicyFee(i.ref[1])'] = [i \in P |-> PolicyFee(i.ref[1])]
      /\ [i \in P |-> PolicyTax(i.ref[1])'] = [i \in P |-> PolicyTax(i.ref[1])]
  BY <1>2
<1> QED
  BY <1>4, <1>5, <1>6

LEMMA SameDiagnosis ==
    ASSUME Typed, Typed', NEW x \in Settlement, Untouched(x)
    PROVE  Diagnose1(x)' = Diagnose1(x)
<1>1. PaymentItems(x)' = PaymentItems(x) /\ \A t : Itemised(x, t)' = Itemised(x, t)
  BY DEF Untouched, PaymentItems, Itemised
<1>2. PolicyFees(x)' = PolicyFees(x) /\ PolicyTaxes(x)' = PolicyTaxes(x)
  BY <1>1, SamePolicy DEF Untouched
<1>3. Rollup(items', x) = Rollup(items, x)
  BY SameItemsSameRollup DEF Untouched
<1>4. \A i : FeeGap(i)' = FeeGap(i) /\ TaxGap(i)' = TaxGap(i)
  BY DEF Untouched, FeeGap, TaxGap, PolicyTax, PolicyFee
<1>5. UnitemisedAdjustments(x)' = UnitemisedAdjustments(x)
  BY <1>1 DEF Untouched, UnitemisedAdjustments
<1>6. Delta1(x)' = Delta1(x)
  <2>1. ExpectedNet(x)' = ExpectedNet(x)
    BY <1>2, <1>3 DEF ExpectedNet, Untouched
  <2> QED
    BY <2>1 DEF Delta1, Untouched
<1>7. HeaderFinds(x)' = HeaderFinds(x)
  BY <1>3 DEF HeaderFinds, RollupGap, Untouched
<1>8. TaxIsMethodError(x)' <=> TaxIsMethodError(x)
  BY <1>2, <1>3 DEF TaxIsMethodError
<1>9. TaxFinds(x)' = TaxFinds(x)
  BY <1>2, <1>3, <1>8 DEF TaxFinds
<1>10. Off(x)' = Off(x)
  BY <1>1, <1>4, <1>8 DEF Off
<1>11. \A p : Credited(x, p)' = Credited(x, p)
  BY <1>5 DEF Credited
<1>12. FeeFinds(x)' = FeeFinds(x)
  BY <1>4, <1>10, <1>11 DEF FeeFinds
<1>13. RefundFinds(x)' = RefundFinds(x)
  BY <1>1 DEF RefundFinds, Untouched
<1>14. AdjustmentFinds(x)' = AdjustmentFinds(x)
  BY <1>5 DEF AdjustmentFinds
<1>15. Rules1(x)' = Rules1(x)
  <2>1. RulesListed /\ RulesListed'
    BY RulesAreListed, PTL
  <2> QED
    BY <1>7, <1>9, <1>12, <1>13, <1>14, <2>1 DEF RulesListed
<1> QED
  BY <1>6, <1>15 DEF Diagnose1
-----------------------------------------------------------------------------
\* Delta 1 tells what its planters planted.

\* The rows of ground truth that expect a finding of delta 1, and what comes of them.
Rows1(s) == {g \in Expecting("D1_COMPUTE") : g.settlement = s}
Told1(s, g) ==
    IF g.resolvable THEN Explained(s, g.expects, g.amount)
    ELSE g.expects = "UNEXPLAINED_SHORTFALL" /\ Unexplained(s, g.amount)
Diagnosed1 ==
    \A s \in Settlement :
        /\ s \notin claimed => Rows1(s) = {}
        /\ Rows1(s) = {} => Silent(Diagnose1(s))
        /\ \A g \in Rows1(s) : Told1(s, g)

\* What is drawn stays so: no payment is numbered 0 or free, a drifted rate shows, and
\* no refund is negative.
PaymentDrawn(p) ==
    /\ p # 0 /\ payments[p].amount > 0
    /\ payments[p].method = "CARD"
       => (DriftedMdrBps - MdrBps["CARD"]) * payments[p].amount >= 10000
Drawn == (\A p \in DOMAIN payments : PaymentDrawn(p)) /\ \A r \in refunds : r.amount >= 0

\* Adjustments are numbered within their settlement, and items name no other.
Numbered ==
    /\ IsFiniteSet(adjustments)
    /\ \A a \in adjustments :
        /\ a.id = <<"ADJ", a.settlement, a.id[3]>>
        /\ a.id[3] \in 1 .. Cardinality({b \in adjustments : b.settlement = a.settlement})
    /\ \A i \in items : i.type = "ADJUSTMENT" => \E a \in adjustments : i.ref = a.id

Delta1Inv == CleanInv /\ Drawn /\ Numbered /\ Diagnosed1

SilentWhenClean ==
    \A s \in Settlement : Typed /\ Clean(s) /\ header[s] = Rollup(items, s) => Silent(Diagnose1(s))

LEMMA CleanStaysSilent == SilentWhenClean
  BY CleanIsSilent DEF SilentWhenClean

LEMMA OthersUntouched ==
    ASSUME Shape, NEW s, OnlyOf(s), NEW h, header' = [header EXCEPT ![s] = h], UNCHANGED payments,
           \A r \in (refunds' \ refunds) \cup (refunds \ refunds') : r.period \notin Settlement \ {s},
           \A a \in (adjustments' \ adjustments) \cup (adjustments \ adjustments') : a.settlement = s
    PROVE  \A x \in Settlement \ {s} : Untouched(x)
<1> SUFFICES ASSUME NEW x \in Settlement \ {s} PROVE Untouched(x)
  OBVIOUS
<1>1. ItemsIn(items', x) = ItemsIn(items, x)
  BY DEF OnlyOf
<1>2. InPeriodRefunds(x)' = InPeriodRefunds(x)
  BY DEF InPeriodRefunds
<1>3. header'[x] = header[x]
  BY DEF Shape
<1> QED
  BY <1>1, <1>2, <1>3 DEF Untouched

\* Settlements that are not touched, and get no row, are told what they were told.
LEMMA OthersTold ==
    ASSUME CleanInv, CleanInv', Diagnosed1, NEW s, \A x \in Settlement \ {s} : Untouched(x),
           claimed \subseteq claimed',
           \A g \in truth' \ truth : g.settlement = s \/ g.kind # "D1_COMPUTE" \/ g.expects = "NONE",
           truth \subseteq truth'
    PROVE  \A x \in Settlement \ {s} :
               /\ x \notin claimed' => Rows1(x)' = {}
               /\ Rows1(x)' = {} => Silent(Diagnose1(x)')
               /\ \A g \in Rows1(x)' : Told1(x, g)'
<1> SUFFICES ASSUME NEW x \in Settlement \ {s}
             PROVE  /\ x \notin claimed' => Rows1(x)' = {}
                    /\ Rows1(x)' = {} => Silent(Diagnose1(x)')
                    /\ \A g \in Rows1(x)' : Told1(x, g)'
  OBVIOUS
<1>1. Rows1(x)' = Rows1(x)
  BY DEF Rows1, Expecting
<1>2. Diagnose1(x)' = Diagnose1(x)
  BY SameDiagnosis DEF CleanInv
<1>3. \A g : Told1(x, g)' <=> Told1(x, g)
  BY <1>2 DEF Told1, Explained, Unexplained
<1> QED
  BY <1>1, <1>2, <1>3 DEF Diagnosed1

\* A planter of one defect whose row comes true.
LEMMA OneMoreTold ==
    ASSUME CleanInv, CleanInv', Diagnosed1, NEW s \in Settlement,
           \A x \in Settlement \ {s} : Untouched(x), Claim(s),
           NEW g, truth' = truth \cup {g},
           g.kind = "D1_COMPUTE" /\ g.expects # "NONE" /\ g.settlement = s, Told1(s, g)'
    PROVE  Diagnosed1'
<1>1. Rows1(s)' = {g}
  <2>1. Rows1(s) = {}
    BY DEF Claim, Diagnosed1
  <2> QED
    BY <2>1 DEF Rows1, Expecting
<1>2. \A x \in Settlement \ {s} :
          /\ x \notin claimed' => Rows1(x)' = {}
          /\ Rows1(x)' = {} => Silent(Diagnose1(x)')
          /\ \A q \in Rows1(x)' : Told1(x, q)'
  BY OthersTold DEF Claim
<1>3. s \in claimed'
  BY DEF Claim
<1> QED
  BY <1>1, <1>2, <1>3 DEF Diagnosed1, Silent
-----------------------------------------------------------------------------
\* A drifted rate.

\* At a higher rate the fee is higher by a paisa or more, and the tax is no less.
LEMMA DriftCosts ==
    ASSUME Typed, Drawn, NEW s \in Settlement, Clean(s), NEW i \in CardItems(s)
    PROVE  LET j == Drift(i)
           IN  /\ FeeGap(j) \in Int /\ TaxGap(j) \in Int /\ FeeGap(j) > 0 /\ TaxGap(j) >= 0
               /\ Excess(i) = FeeGap(j) + TaxGap(j)
<1>1. i \in PaymentItems(s) /\ payments[i.ref[1]].method = "CARD"
  BY DEF CardItems
<1>2. PICK p \in DOMAIN payments : i.ref = <<p>>
  BY <1>1, PaymentItemTyped
<1>3. i.ref[1] = p
  BY <1>2
<1>4. PICK m : m = MdrBps["CARD"]
  OBVIOUS
<1>5. PICK amount : amount = payments[p].amount
  OBVIOUS
<1>6. amount \in Nat /\ m \in Nat /\ GstBps \in Nat /\ (250 - m) * amount >= 10000
  BY <1>1, <1>3, <1>4, <1>5, BooksAssumption
     DEF Typed, PaymentsTyped, Drawn, PaymentDrawn, DriftedMdrBps
<1>7. PICK fee, drifted : fee = Bps(amount, m) /\ drifted = Bps(amount, 250)
  OBVIOUS
<1>8. fee \in Nat /\ drifted \in Nat /\ drifted > fee
  <2>1. PICK x, y : x = amount * m /\ y = amount * 250
    OBVIOUS
  <2>2. x \in Nat /\ y \in Nat /\ y - x >= 10000
    <3>1. y - x = (250 - m) * amount
      BY <1>6, <2>1
    <3>2. x \in Nat /\ y \in Nat
      BY <1>6, <2>1
    <3> QED
      BY <1>6, <3>1, <3>2
  <2>3. fee = (x + 5000) \div 10000 /\ drifted = (y + 5000) \div 10000
    BY <1>6, <1>7, <2>1 DEF Bps
  <2> QED
    BY <2>2, <2>3
<1>9. PICK tax, taxed : tax = Bps(fee, GstBps) /\ taxed = Bps(drifted, GstBps)
  OBVIOUS
<1>10. tax \in Int /\ taxed \in Int /\ taxed >= tax
  <2>1. PICK x, y : x = fee * GstBps /\ y = drifted * GstBps
    OBVIOUS
  <2>2. x \in Nat /\ y \in Nat /\ y - x >= 0
    <3>1. y - x = (drifted - fee) * GstBps
      BY <1>6, <1>8, <2>1
    <3>2. x \in Nat /\ y \in Nat /\ (drifted - fee) * GstBps >= 0
      BY <1>6, <1>8, <2>1
    <3> QED
      BY <3>1, <3>2
  <2>3. tax = (x + 5000) \div 10000 /\ taxed = (y + 5000) \div 10000
    BY <1>8, <1>9, <2>1 DEF Bps
  <2> QED
    BY <2>2, <2>3
<1>11. PolicyFee(p) = fee /\ PolicyTax(p) = tax
  BY <1>1, <1>3, <1>4, <1>5, <1>7, <1>9 DEF PolicyFee, PolicyTax
<1>12. /\ i.fee \in Int /\ i.tax \in Int /\ i.fee = fee /\ i.tax = tax
  <2>1. i.fee \in Int /\ i.tax \in Int
    BY <1>1, PaymentItemTyped DEF IsItem
  <2>2. i.fee - fee = 0 /\ i.tax - tax = 0
    BY <1>1, <1>3, <1>11 DEF Clean, FeeGap, TaxGap
  <2> QED
    BY <1>8, <1>10, <2>1, <2>2
<1>13. PICK j : j = Drift(i)
  OBVIOUS
<1>14. j.fee = drifted /\ j.tax = taxed /\ j.ref = i.ref
  <2>1. j = [i EXCEPT !.fee = drifted, !.tax = taxed]
    BY <1>3, <1>5, <1>7, <1>9, <1>13 DEF Drift, DriftedMdrBps
  <2>2. i = [settlement |-> i.settlement, type |-> i.type, ref |-> i.ref, amount |-> i.amount,
             fee |-> i.fee, tax |-> i.tax]
    BY <1>1, PaymentItemTyped DEF IsItem, Item
  <2> QED
    BY <2>1, <2>2
<1>15. FeeGap(j) = drifted - fee /\ TaxGap(j) = taxed - tax
  BY <1>3, <1>11, <1>14 DEF FeeGap, TaxGap
<1>16. Excess(i) = (drifted - fee) + (taxed - tax)
  BY <1>12, <1>13, <1>14 DEF Excess
<1> QED
  BY <1>8, <1>10, <1>13, <1>15, <1>16

\* The settlement of a drifted payment: everything else of it is as clean as it was.
LEMMA DriftPlanted ==
    ASSUME CleanInv, Drawn, NEW s \in Settlement \ claimed, NEW i \in CardItems(s),
           UNCHANGED <<payments, refunds>>,
           NEW j, j = Drift(i), items' = (items \ {i}) \cup {j}
    PROVE  /\ j \in PaymentItems(s)' /\ j.ref = i.ref
           /\ ChargedBut(s, {j})' /\ DeductedBut(s, {})'
           /\ FeeGap(j)' = FeeGap(j) /\ TaxGap(j)' = TaxGap(j)
           /\ FeeGap(j) \in Int /\ TaxGap(j) \in Int /\ FeeGap(j) > 0 /\ TaxGap(j) >= 0
           /\ Excess(i) = FeeGap(j) + TaxGap(j)
           /\ Itemised(s, "ADJUSTMENT")' = Itemised(s, "ADJUSTMENT")
           /\ UnitemisedAdjustments(s) = {}
           /\ i.ref[1] \in DOMAIN payments
<1>2. Typed /\ Clean(s)
  BY DEF CleanInv, CleanOthers
<1>3. /\ FeeGap(j) \in Int /\ TaxGap(j) \in Int /\ FeeGap(j) > 0 /\ TaxGap(j) >= 0
      /\ Excess(i) = FeeGap(j) + TaxGap(j)
  BY <1>2, DriftCosts
<1>4. i \in PaymentItems(s) /\ i.type = "PAYMENT" /\ i.settlement = s /\ i.ref[1] \in DOMAIN payments
  BY <1>2, PaymentItemTyped DEF CardItems, PaymentItems, OfType, ItemsIn
<1>5. j.type = i.type /\ j.settlement = i.settlement /\ j.ref = i.ref
  BY DEF Drift
<1>6. PaymentItems(s)' = (PaymentItems(s) \ {i}) \cup {j}
  BY <1>4, <1>5 DEF PaymentItems, OfType, ItemsIn
<1>7. \A t \in {"REFUND", "ADJUSTMENT"} : OfType(ItemsIn(items', s), t) = OfType(ItemsIn(items, s), t)
  BY <1>4, <1>5 DEF OfType, ItemsIn
<1>8. \A k : FeeGap(k)' = FeeGap(k) /\ TaxGap(k)' = TaxGap(k)
  BY DEF FeeGap, TaxGap, PolicyTax, PolicyFee
<1>9. ChargedBut(s, {j})'
  <2>1. \A k \in PaymentItems(s)' \ {j} : FeeGap(k)' = 0 /\ TaxGap(k)' = 0
    BY <1>2, <1>6, <1>8 DEF Clean
  <2> QED
    BY <2>1 DEF ChargedBut
<1>10. DeductedBut(s, {})'
  <2>1. InPeriodRefunds(s)' = InPeriodRefunds(s)
    BY DEF InPeriodRefunds
  <2>2. OfType(ItemsIn(items', s), "REFUND") = {RefundItem(s, r) : r \in InPeriodRefunds(s)}
    BY <1>2, <1>7 DEF Clean
  <2>3. \A r : RefundItem(s, r)' = RefundItem(s, r)
    BY DEF RefundItem
  <2> QED
    BY <2>1, <2>2, <2>3 DEF DeductedBut
<1>11. Itemised(s, "ADJUSTMENT")' = Itemised(s, "ADJUSTMENT")
  BY <1>7 DEF Itemised
<1>12. UnitemisedAdjustments(s) = {}
  BY <1>2 DEF Clean
<1> QED
  BY <1>3, <1>4, <1>5, <1>6, <1>8, <1>9, <1>10, <1>11, <1>12

LEMMA RebuiltIsNotShort ==
    ASSUME CleanInv', NEW s \in Settlement, header'[s] = Rollup(items', s)
    PROVE  HeaderShort(s, 0, 0)'
<1>1. PICK its : its = Rollup(items', s)
  OBVIOUS
<1>2. Whole6(its)
  <2>1. Rows(items')
    BY DEF CleanInv, Typed, ItemsTyped, IsItem, Rows
  <2> QED
    BY <1>1, <2>1, RollupWhole
<1> QED
  BY <1>1, <1>2 DEF HeaderShort, Whole6

LEMMA FeeRateDriftTold ==
    ASSUME Delta1Inv, CleanInv', NEW s \in Settlement, FeeRateDrift(s)
    PROVE  Diagnosed1'
<1>1. PICK i \in CardItems(s) :
          /\ items' = (items \ {i}) \cup {Drift(i)}
          /\ header' = [header EXCEPT ![s] = Rollup(items', s)]
          /\ truth' = truth \cup {Truth("D1_FEE_RATE_DRIFT", i.ref, s, "D1_COMPUTE",
                                        "FEE_RATE_MISMATCH", Excess(i), TRUE)}
  BY DEF FeeRateDrift, Largest, Itemise, SetHeader
<1>2. /\ UNCHANGED <<payments, refunds, adjustments>> /\ Claim(s) /\ s \in Settlement \ claimed
  BY DEF FeeRateDrift, Claim
<1>3. PICK j : j = Drift(i)
  OBVIOUS
<1>4. /\ j \in PaymentItems(s)' /\ ChargedBut(s, {j})' /\ DeductedBut(s, {})'
      /\ FeeGap(j)' = FeeGap(j) /\ TaxGap(j)' = TaxGap(j)
      /\ FeeGap(j) \in Int /\ TaxGap(j) \in Int /\ FeeGap(j) > 0 /\ TaxGap(j) >= 0
      /\ Excess(i) = FeeGap(j) + TaxGap(j)
      /\ Itemised(s, "ADJUSTMENT")' = Itemised(s, "ADJUSTMENT")
      /\ UnitemisedAdjustments(s) = {}
  BY <1>1, <1>2, <1>3, DriftPlanted DEF Delta1Inv
<1>5. UnitemisedAdjustments(s)' = {}
  BY <1>2, <1>4 DEF UnitemisedAdjustments
<1>6. HeaderShort(s, 0, 0)'
  <2>1. header'[s] = Rollup(items', s)
    BY <1>1, <1>2 DEF Delta1Inv, CleanInv, IInv, Shape
  <2> QED
    BY <2>1, RebuiltIsNotShort
<1>7. PICK amount : amount = Excess(i)
  OBVIOUS
<1>8. Explained(s, "FEE_RATE_MISMATCH", amount)'
  <2>1. DriftExplained'
    BY DriftIsExplained, PTL
  <2>2. Typed' /\ FeeGap(j)' # 0
    BY <1>4 DEF CleanInv
  <2>3. AmountSum(UnitemisedAdjustments(s)') = 0
    BY <1>5, AmountEmpty
  <2>4. PICK c \in Int : c = 0 /\ -c = 0
    OBVIOUS
  <2>5. HeaderShort(s, -c, 0)'
    BY <1>6, <2>4
  <2>6. Explained(s, "FEE_RATE_MISMATCH", Abs(FeeGap(j) + TaxGap(j) - c))'
    BY <1>4, <1>5, <2>1, <2>2, <2>3, <2>4, <2>5 DEF DriftExplained
  <2>7. Abs(FeeGap(j)' + TaxGap(j)' - c) = amount
    BY <1>4, <1>7, <2>4 DEF Abs
  <2> QED
    BY <2>6, <2>7
<1>9. PICK g : g = Truth("D1_FEE_RATE_DRIFT", i.ref, s, "D1_COMPUTE", "FEE_RATE_MISMATCH", amount, TRUE)
  OBVIOUS
<1>10. Told1(s, g)'
  BY <1>8, <1>9 DEF Told1, Truth
<1>11. \A x \in Settlement \ {s} : Untouched(x)
  <2>1. OnlyOf(s)
    <3>1. j.settlement = s /\ i.settlement = s /\ "settlement" \in DOMAIN j
      BY <1>1, <1>3, ItsOwnItems DEF CardItems, Delta1Inv, CleanInv, IInv
    <3> QED
      BY <1>1, <1>3, <3>1, Replaced DEF Delta1Inv, CleanInv, IInv
  <2> QED
    BY <1>1, <1>2, <2>1, OthersUntouched DEF Delta1Inv, CleanInv, IInv
<1> QED
  BY <1>1, <1>2, <1>7, <1>9, <1>10, <1>11, OneMoreTold DEF Truth, Delta1Inv

\* The number of the next adjustment of a settlement is nobody's.
LEMMA FreshNumber ==
    ASSUME Numbered, NEW s
    PROVE  /\ NextAdjustment(s) \in Nat
           /\ \A a \in adjustments : a.id # <<"ADJ", s, NextAdjustment(s)>>
           /\ <<"ADJ", s, NextAdjustment(s)>> \notin Itemised(s, "ADJUSTMENT")
<1>1. Cardinality({a \in adjustments : a.settlement = s}) \in Nat
  BY FS_Subset, FS_CardinalityType DEF Numbered
<1>2. \A a \in adjustments : a.id # <<"ADJ", s, NextAdjustment(s)>>
  <2> SUFFICES ASSUME NEW a \in adjustments, a.id = <<"ADJ", s, NextAdjustment(s)>> PROVE FALSE
    OBVIOUS
  <2>1. a.id = <<"ADJ", a.settlement, a.id[3]>>
        /\ a.id[3] \in 1 .. Cardinality({b \in adjustments : b.settlement = a.settlement})
    BY DEF Numbered
  <2>2. a.settlement = s /\ a.id[3] = NextAdjustment(s)
    BY <2>1
  <2> QED
    BY <1>1, <2>1, <2>2 DEF NextAdjustment
<1>3. <<"ADJ", s, NextAdjustment(s)>> \notin Itemised(s, "ADJUSTMENT")
  BY <1>2 DEF Itemised, OfType, ItemsIn, Numbered
<1> QED
  BY <1>1, <1>2, <1>3 DEF NextAdjustment

LEMMA FeeCorrectedTold ==
    ASSUME Delta1Inv, CleanInv', NEW s \in Settlement, FeeCorrectedByAdjustment(s)
    PROVE  Diagnosed1'
<1>1. PICK i, j, c :
          /\ i \in CardItems(s)
          /\ j = Drift(i) /\ c = Excess(i) \div 2
          /\ items' = (items \ {i}) \cup {j}
          /\ adjustments' = adjustments \cup
                 {Adjustment(s, NextAdjustment(s), "FEE_CORRECTION", c, i.ref[1])}
          /\ header' = [header EXCEPT ![s] = [Rollup(items', s) EXCEPT !.net = @ + c]]
          /\ truth' = truth \cup {Truth("D1_FEE_CORRECTED_BY_ADJUSTMENT", i.ref, s, "D1_COMPUTE",
                                        "FEE_RATE_MISMATCH", Excess(i) - c, TRUE)}
  BY DEF FeeCorrectedByAdjustment, Largest, SetHeader
<1>2. /\ UNCHANGED <<payments, refunds>> /\ Claim(s) /\ s \in Settlement \ claimed
  BY DEF FeeCorrectedByAdjustment, Claim
<1>3. PICK a : a = Adjustment(s, NextAdjustment(s), "FEE_CORRECTION", c, i.ref[1])
  OBVIOUS
<1>4. /\ j \in PaymentItems(s)' /\ j.ref = i.ref /\ ChargedBut(s, {j})' /\ DeductedBut(s, {})'
      /\ FeeGap(j)' = FeeGap(j) /\ TaxGap(j)' = TaxGap(j)
      /\ FeeGap(j) \in Int /\ TaxGap(j) \in Int /\ FeeGap(j) > 0 /\ TaxGap(j) >= 0
      /\ Excess(i) = FeeGap(j) + TaxGap(j)
      /\ Itemised(s, "ADJUSTMENT")' = Itemised(s, "ADJUSTMENT")
      /\ UnitemisedAdjustments(s) = {} /\ i.ref[1] \in DOMAIN payments
  BY <1>1, <1>2, DriftPlanted DEF Delta1Inv
<1>5. c \in Int /\ Excess(i) \in Int /\ Excess(i) - c >= 0
  BY <1>1, <1>4
<1>6. /\ a.settlement = s /\ a.status = "APPLIED" /\ a.payment = i.ref[1] /\ a.amount = c
      /\ a.type = "FEE_CORRECTION" /\ a.id = <<"ADJ", s, NextAdjustment(s)>>
  BY <1>3 DEF Adjustment
<1>7. UnitemisedAdjustments(s)' = {a}
  <2>1. a.id \notin Itemised(s, "ADJUSTMENT")
    BY <1>6, FreshNumber DEF Delta1Inv
  <2> QED
    BY <1>1, <1>3, <1>4, <1>6, <2>1 DEF UnitemisedAdjustments
<1>8. IsFeeCorrection(a) /\ a.payment = j.ref[1]
  BY <1>4, <1>6 DEF IsFeeCorrection, Delta1Inv, Drawn, PaymentDrawn
<1>9. HeaderShort(s, -c, 0)'
  <2>1. PICK its : its = Rollup(items', s)
    OBVIOUS
  <2>2. Whole6(its)
    <3>1. Rows(items')
      BY DEF CleanInv, Typed, ItemsTyped, IsItem, Rows
    <3> QED
      BY <2>1, <3>1, RollupWhole
  <2>3. header'[s] = [its EXCEPT !.net = @ + c]
    BY <1>1, <1>2, <2>1 DEF Delta1Inv, CleanInv, IInv, Shape
  <2>4. /\ header'[s].net = its.net + c /\ header'[s].gross = its.gross
        /\ header'[s].adjustment = its.adjustment
    BY <2>1, <2>3 DEF Rollup
  <2> QED
    BY <1>5, <2>1, <2>2, <2>4 DEF HeaderShort, Whole6
<1>10. PICK amount : amount = Excess(i) - c
  OBVIOUS
<1>11. Explained(s, "FEE_RATE_MISMATCH", amount)'
  <2>1. DriftExplained'
    BY DriftIsExplained, PTL
  <2>2. Typed' /\ FeeGap(j)' # 0
    BY <1>4 DEF CleanInv
  <2>3. AmountSum(UnitemisedAdjustments(s)') = c
    BY <1>5, <1>6, <1>7, AmountOfOne
  <2>4. \A b \in UnitemisedAdjustments(s)' : IsFeeCorrection(b) /\ b.payment = j.ref[1]
    BY <1>7, <1>8
  <2>5. Explained(s, "FEE_RATE_MISMATCH", Abs(FeeGap(j) + TaxGap(j) - c))'
    BY <1>4, <1>5, <1>9, <2>1, <2>2, <2>3, <2>4 DEF DriftExplained
  <2>6. Abs(FeeGap(j)' + TaxGap(j)' - c) = amount
    BY <1>4, <1>5, <1>10 DEF Abs
  <2> QED
    BY <2>5, <2>6
<1>12. PICK g : g = Truth("D1_FEE_CORRECTED_BY_ADJUSTMENT", i.ref, s, "D1_COMPUTE",
                          "FEE_RATE_MISMATCH", amount, TRUE)
  OBVIOUS
<1>13. Told1(s, g)'
  BY <1>11, <1>12 DEF Told1, Truth
<1>14. \A x \in Settlement \ {s} : Untouched(x)
  <2>1. OnlyOf(s)
    <3>1. j.settlement = s /\ i.settlement = s /\ "settlement" \in DOMAIN j
      BY <1>1, ItsOwnItems DEF CardItems, Delta1Inv, CleanInv, IInv
    <3> QED
      BY <1>1, <3>1, Replaced DEF Delta1Inv, CleanInv, IInv
  <2>2. \A b \in (adjustments' \ adjustments) \cup (adjustments \ adjustments') : b.settlement = s
    BY <1>1, <1>3, <1>6
  <2>3. PICK h : header' = [header EXCEPT ![s] = h]
    BY <1>1
  <2> QED
    BY <1>2, <2>1, <2>2, <2>3, OthersUntouched DEF Delta1Inv, CleanInv, IInv
<1> QED
  BY <1>1, <1>2, <1>10, <1>12, <1>13, <1>14, OneMoreTold DEF Truth, Delta1Inv
-----------------------------------------------------------------------------
\* A header that is short.

\* The items and refunds of a settlement that is clean stay so where they are not touched.
LEMMA ItemsStayClean ==
    ASSUME CleanInv, NEW s \in Settlement \ claimed, UNCHANGED payments,
           PaymentItems(s)' = PaymentItems(s), InPeriodRefunds(s)' = InPeriodRefunds(s),
           OfType(ItemsIn(items', s), "REFUND") = OfType(ItemsIn(items, s), "REFUND")
    PROVE  ChargedBut(s, {})' /\ DeductedBut(s, {})'
<1>1. Clean(s)
  BY DEF CleanInv, CleanOthers
<1>2. \A k : FeeGap(k)' = FeeGap(k) /\ TaxGap(k)' = TaxGap(k)
  BY DEF FeeGap, TaxGap, PolicyTax, PolicyFee
<1>3. ChargedBut(s, {})'
  <2>1. \A k \in PaymentItems(s)' \ {} : FeeGap(k)' = 0 /\ TaxGap(k)' = 0
    BY <1>1, <1>2 DEF Clean
  <2> QED
    BY <2>1 DEF ChargedBut
<1>4. OfType(ItemsIn(items', s), "REFUND") = {RefundItem(s, r) : r \in InPeriodRefunds(s) \ {}}
  BY <1>1 DEF Clean
<1>5. \A r : RefundItem(s, r)' = RefundItem(s, r)
  BY DEF RefundItem
<1> QED
  BY <1>3, <1>4, <1>5 DEF DeductedBut

\* What a planter finds that only writes the header of a settlement.
LEMMA OnlyTheHeader ==
    ASSUME Delta1Inv, CleanInv', NEW s \in Settlement \ claimed, NEW h,
           UNCHANGED <<payments, refunds, items>>, header' = [header EXCEPT ![s] = h],
           adjustments \subseteq adjustments', \A a \in adjustments' \ adjustments : a.settlement = s
    PROVE  /\ ChargedBut(s, {})' /\ DeductedBut(s, {})'
           /\ UnitemisedAdjustments(s)'
                 = {a \in adjustments' \ adjustments :
                       a.status = "APPLIED" /\ a.id \notin Itemised(s, "ADJUSTMENT")}
           /\ \A x \in Settlement \ {s} : Untouched(x)
           /\ Whole6(header[s]) /\ header[s] = Rollup(items', s) /\ header'[s] = h
<1>1. ChargedBut(s, {})' /\ DeductedBut(s, {})'
  <2>1. PaymentItems(s)' = PaymentItems(s) /\ InPeriodRefunds(s)' = InPeriodRefunds(s)
    BY DEF PaymentItems, InPeriodRefunds
  <2> QED
    BY <2>1, ItemsStayClean DEF Delta1Inv
<1>2. UnitemisedAdjustments(s)'
        = {a \in adjustments' \ adjustments :
              a.status = "APPLIED" /\ a.id \notin Itemised(s, "ADJUSTMENT")}
  <2>1. UnitemisedAdjustments(s) = {}
    BY DEF Delta1Inv, CleanInv, CleanOthers, Clean
  <2>2. Itemised(s, "ADJUSTMENT")' = Itemised(s, "ADJUSTMENT")
    BY DEF Itemised
  <2> QED
    BY <2>1, <2>2 DEF UnitemisedAdjustments
<1>3. \A x \in Settlement \ {s} : Untouched(x)
  <2>1. OnlyOf(s)
    BY ItemsUntouched DEF Delta1Inv, CleanInv, IInv
  <2> QED
    BY <2>1, OthersUntouched DEF Delta1Inv, CleanInv, IInv
<1>4. header[s] = Rollup(items', s) /\ header'[s] = h
  BY DEF Delta1Inv, CleanInv, IInv, HeadersRollUp, Shape
<1>5. Whole6(header[s])
  <2>1. Rows(items')
    BY DEF CleanInv, Typed, ItemsTyped, IsItem, Rows
  <2> QED
    BY <1>4, <2>1, RollupWhole
<1> QED
  BY <1>1, <1>2, <1>3, <1>4, <1>5

LEMMA HeaderIsShort ==
    ASSUME NEW s, NEW amount \in Int, NEW its, its = Rollup(items', s), header[s] = its, Whole6(its)
    PROVE  LET h == ShortPay(s, amount)
           IN  /\ header'[s] = h => HeaderShort(s, amount, 0)'
               /\ header'[s] = [h EXCEPT !.gross = @ - amount] => HeaderShort(s, amount, amount)'
<1>1. PICK h : h = ShortPay(s, amount)
  OBVIOUS
<1>2. PICK a, b, c, d, e, f :
          its = [gross |-> a, refund |-> b, fee |-> c, tax |-> d, adjustment |-> e, net |-> f]
  BY DEF Rollup
<1>3. h = [gross |-> a, refund |-> b, fee |-> c, tax |-> d, adjustment |-> e, net |-> f - amount]
  BY <1>1, <1>2 DEF ShortPay
<1>4. PICK g : g = [h EXCEPT !.gross = @ - amount]
  OBVIOUS
<1>5. g.net = f - amount /\ g.gross = a - amount /\ g.adjustment = e
  BY <1>3, <1>4
<1>6. its.net = f /\ its.gross = a /\ its.adjustment = e /\ a \in Int
  BY <1>2 DEF Whole6
<1>7. header'[s] = h => HeaderShort(s, amount, 0)'
  BY <1>3, <1>6 DEF HeaderShort
<1>8. header'[s] = g => HeaderShort(s, amount, amount)'
  BY <1>5, <1>6 DEF HeaderShort
<1> QED
  BY <1>1, <1>4, <1>7, <1>8

LEMMA HeaderRollupMismatchTold ==
    ASSUME Delta1Inv, CleanInv', NEW s \in Settlement, HeaderRollupMismatch(s)
    PROVE  Diagnosed1'
<1>1. PICK amount \in Shortfalls :
          /\ header' = [header EXCEPT ![s] = [ShortPay(s, amount) EXCEPT !.gross = @ - amount]]
          /\ truth' = truth \cup {Truth("D1_HEADER_ROLLUP_MISMATCH", Whole(s), s, "D1_COMPUTE",
                                        "HEADER_ROLLUP_MISMATCH", amount, TRUE)}
  BY DEF HeaderRollupMismatch, SetHeader
<1>2. UNCHANGED <<payments, refunds, adjustments, items>> /\ Claim(s) /\ s \in Settlement \ claimed
  BY DEF HeaderRollupMismatch, Claim
<1>3. PICK h : h = [ShortPay(s, amount) EXCEPT !.gross = @ - amount]
  OBVIOUS
<1>4. /\ ChargedBut(s, {})' /\ DeductedBut(s, {})' /\ UnitemisedAdjustments(s)' = {}
      /\ \A x \in Settlement \ {s} : Untouched(x)
      /\ Whole6(header[s]) /\ header[s] = Rollup(items', s) /\ header'[s] = h
  BY <1>1, <1>2, <1>3, OnlyTheHeader
<1>5. amount \in Int \ {0} /\ Abs(amount) = amount
  BY DrawnAssumption DEF Abs
<1>6. HeaderShort(s, amount, amount)'
  BY <1>3, <1>4, <1>5, HeaderIsShort
<1>7. Explained(s, "HEADER_ROLLUP_MISMATCH", amount)'
  <2>1. ShortfallExplained'
    BY ShortfallIsExplained, PTL
  <2> QED
    BY <1>4, <1>5, <1>6, <2>1 DEF ShortfallExplained, CleanInv
<1>8. PICK g : g = Truth("D1_HEADER_ROLLUP_MISMATCH", Whole(s), s, "D1_COMPUTE",
                         "HEADER_ROLLUP_MISMATCH", amount, TRUE)
  OBVIOUS
<1>9. Told1(s, g)'
  BY <1>7, <1>8 DEF Told1, Truth
<1> QED
  BY <1>1, <1>2, <1>4, <1>8, <1>9, OneMoreTold DEF Truth, Delta1Inv

LEMMA PhantomDebitTold ==
    ASSUME Delta1Inv, CleanInv', NEW s \in Settlement, PhantomDebit(s)
    PROVE  Diagnosed1'
<1>1. PICK amount \in Shortfalls :
          /\ header' = [header EXCEPT ![s] = ShortPay(s, amount)]
          /\ truth' = truth \cup {Truth("UNRESOLVABLE_PHANTOM_DEBIT", Whole(s), s, "D1_COMPUTE",
                                        "UNEXPLAINED_SHORTFALL", amount, FALSE)}
  BY DEF PhantomDebit, SetHeader
<1>2. UNCHANGED <<payments, refunds, adjustments, items>> /\ Claim(s) /\ s \in Settlement \ claimed
  BY DEF PhantomDebit, Claim
<1>3. PICK h : h = ShortPay(s, amount)
  OBVIOUS
<1>4. /\ ChargedBut(s, {})' /\ DeductedBut(s, {})' /\ UnitemisedAdjustments(s)' = {}
      /\ \A x \in Settlement \ {s} : Untouched(x)
      /\ Whole6(header[s]) /\ header[s] = Rollup(items', s) /\ header'[s] = h
  BY <1>1, <1>2, <1>3, OnlyTheHeader
<1>5. amount \in Int \ {0}
  BY DrawnAssumption
<1>6. HeaderShort(s, amount, 0)'
  BY <1>3, <1>4, <1>5, HeaderIsShort
<1>7. Unexplained(s, amount)'
  <2>1. DebitUnexplained'
    BY DebitIsUnexplained, PTL
  <2> QED
    BY <1>4, <1>5, <1>6, <2>1 DEF DebitUnexplained, CleanInv
<1>8. PICK g : g = Truth("UNRESOLVABLE_PHANTOM_DEBIT", Whole(s), s, "D1_COMPUTE",
                         "UNEXPLAINED_SHORTFALL", amount, FALSE)
  OBVIOUS
<1>9. Told1(s, g)'
  BY <1>7, <1>8 DEF Told1, Truth
<1> QED
  BY <1>1, <1>2, <1>4, <1>8, <1>9, OneMoreTold DEF Truth, Delta1Inv

LEMMA AdjustmentAppliedTold ==
    ASSUME Delta1Inv, CleanInv', NEW s \in Settlement, AdjustmentApplied(s)
    PROVE  Diagnosed1'
<1>1. PICK amount, a :
          /\ amount \in Shortfalls
          /\ a = Adjustment(s, NextAdjustment(s), "CHARGEBACK", -amount, 0)
          /\ adjustments' = adjustments \cup {a}
          /\ header' = [header EXCEPT ![s] = ShortPay(s, amount)]
          /\ truth' = truth \cup {Truth("D1_ADJUSTMENT_APPLIED", a.id, s, "D1_COMPUTE",
                                        "ADJUSTMENT_UNEXPLAINED", amount, TRUE)}
  BY DEF AdjustmentApplied, SetHeader
<1>2. UNCHANGED <<payments, refunds, items>> /\ Claim(s) /\ s \in Settlement \ claimed
  BY DEF AdjustmentApplied, Claim
<1>3. PICK h : h = ShortPay(s, amount)
  OBVIOUS
<1>4. /\ a.settlement = s /\ a.status = "APPLIED" /\ a.amount = -amount /\ ~ IsFeeCorrection(a)
      /\ a.id = <<"ADJ", s, NextAdjustment(s)>>
  BY <1>1 DEF Adjustment, IsFeeCorrection
<1>5. a \notin adjustments /\ a.id \notin Itemised(s, "ADJUSTMENT")
  BY <1>4, FreshNumber DEF Delta1Inv
<1>6. /\ ChargedBut(s, {})' /\ DeductedBut(s, {})'
      /\ UnitemisedAdjustments(s)'
            = {b \in adjustments' \ adjustments :
                  b.status = "APPLIED" /\ b.id \notin Itemised(s, "ADJUSTMENT")}
      /\ \A x \in Settlement \ {s} : Untouched(x)
      /\ Whole6(header[s]) /\ header[s] = Rollup(items', s) /\ header'[s] = h
  <2>1. adjustments \subseteq adjustments' /\ \A b \in adjustments' \ adjustments : b.settlement = s
    BY <1>1, <1>4
  <2> QED
    BY <1>1, <1>2, <1>3, <2>1, OnlyTheHeader
<1>7. UnitemisedAdjustments(s)' = {a}
  BY <1>1, <1>4, <1>5, <1>6
<1>8. amount \in Int \ {0} /\ Abs(amount) = amount /\ -a.amount = amount /\ a.amount \in Int
  BY <1>1, <1>4, DrawnAssumption DEF Abs
<1>9. HeaderShort(s, -a.amount, 0)'
  BY <1>3, <1>6, <1>8, HeaderIsShort
<1>10. Explained(s, "ADJUSTMENT_UNEXPLAINED", amount)'
  <2>1. AdjustmentExplained'
    BY AdjustmentIsExplained, PTL
  <2>2. Explained(s, "ADJUSTMENT_UNEXPLAINED", Abs(-a.amount))'
    BY <1>4, <1>6, <1>7, <1>8, <1>9, <2>1 DEF AdjustmentExplained, CleanInv
  <2> QED
    BY <1>8, <2>2
<1>11. PICK g : g = Truth("D1_ADJUSTMENT_APPLIED", a.id, s, "D1_COMPUTE",
                          "ADJUSTMENT_UNEXPLAINED", amount, TRUE)
  OBVIOUS
<1>12. Told1(s, g)'
  BY <1>10, <1>11 DEF Told1, Truth
<1> QED
  BY <1>1, <1>2, <1>6, <1>11, <1>12, OneMoreTold DEF Truth, Delta1Inv
-----------------------------------------------------------------------------
\* A refund that is not deducted.

LEMMA RefundItemNames ==
    \A s, q, r : /\ RefundItem(s, q).ref = q.id /\ RefundItem(s, q).amount = -q.amount
                 /\ RefundItem(s, q).settlement = s /\ RefundItem(s, q).type = "REFUND"
                 /\ RefundItem(s, q) = RefundItem(s, r) => q.id = r.id
  BY DEF RefundItem, Item

\* The planters of refunds leave charges, adjustments and the header's sum in order.
LEMMA RefundPlanted ==
    ASSUME Delta1Inv, CleanInv', NEW s \in Settlement \ claimed, UNCHANGED <<payments, adjustments>>,
           NEW i, i.settlement = s, i.type = "REFUND", "settlement" \in DOMAIN i,
           items' = items \ {i} \/ items' = items \cup {i},
           header' = [header EXCEPT ![s] = Rollup(items', s)],
           \A r \in (refunds' \ refunds) \cup (refunds \ refunds') : r.period = s
    PROVE  /\ ChargedBut(s, {})' /\ UnitemisedAdjustments(s)' = {} /\ HeaderShort(s, 0, 0)'
           /\ \A x \in Settlement \ {s} : Untouched(x)
<1>1. Clean(s)
  BY DEF Delta1Inv, CleanInv, CleanOthers
<1>2. PaymentItems(s)' = PaymentItems(s) /\ Itemised(s, "ADJUSTMENT")' = Itemised(s, "ADJUSTMENT")
  BY DEF PaymentItems, Itemised, OfType, ItemsIn
<1>3. ChargedBut(s, {})'
  <2>1. \A k : FeeGap(k)' = FeeGap(k) /\ TaxGap(k)' = TaxGap(k)
    BY DEF FeeGap, TaxGap, PolicyTax, PolicyFee
  <2>2. \A k \in PaymentItems(s)' \ {} : FeeGap(k)' = 0 /\ TaxGap(k)' = 0
    BY <1>1, <1>2, <2>1 DEF Clean
  <2> QED
    BY <2>2 DEF ChargedBut
<1>4. UnitemisedAdjustments(s)' = {}
  BY <1>1, <1>2 DEF Clean, UnitemisedAdjustments
<1>5. HeaderShort(s, 0, 0)'
  <2>1. header'[s] = Rollup(items', s)
    BY DEF Delta1Inv, CleanInv, IInv, Shape
  <2> QED
    BY <2>1, RebuiltIsNotShort
<1>6. \A x \in Settlement \ {s} : Untouched(x)
  <2>1. OnlyOf(s)
    <3>1. CASE items' = items \ {i}
      BY <3>1, Taken DEF Delta1Inv, CleanInv, IInv
    <3>2. CASE items' = items \cup {i}
      BY <3>2, Put DEF Delta1Inv, CleanInv, IInv
    <3> QED
      BY <3>1, <3>2
  <2>2. PICK h : header' = [header EXCEPT ![s] = h]
    OBVIOUS
  <2> QED
    BY <2>1, <2>2, OthersUntouched DEF Delta1Inv, CleanInv, IInv
<1> QED
  BY <1>3, <1>4, <1>5, <1>6

LEMMA RefundNotDeductedTold ==
    ASSUME Delta1Inv, CleanInv', NEW s \in Settlement, RefundNotDeducted(s)
    PROVE  Diagnosed1'
<1>1. PICK i \in OfType(ItemsIn(items, s), "REFUND") :
          /\ items' = items \ {i}
          /\ header' = [header EXCEPT ![s] = Rollup(items', s)]
          /\ truth' = truth \cup {Truth("D1_REFUND_NOT_DEDUCTED", i.ref, s, "D1_COMPUTE",
                                        "REFUND_NOT_DEDUCTED", -i.amount, TRUE)}
  BY DEF RefundNotDeducted, Largest, Itemise, SetHeader
<1>2. /\ UNCHANGED <<payments, refunds, adjustments>> /\ Claim(s) /\ s \in Settlement \ claimed
  BY DEF RefundNotDeducted, Claim
<1>3. i \in items /\ i.settlement = s /\ i.type = "REFUND" /\ "settlement" \in DOMAIN i
  BY DEF OfType, ItemsIn, Delta1Inv, CleanInv, IInv, Shape
<1>4. /\ ChargedBut(s, {})' /\ UnitemisedAdjustments(s)' = {} /\ HeaderShort(s, 0, 0)'
      /\ \A x \in Settlement \ {s} : Untouched(x)
  BY <1>1, <1>2, <1>3, RefundPlanted
<1>5. OfType(ItemsIn(items, s), "REFUND") = {RefundItem(s, r) : r \in InPeriodRefunds(s)}
  BY <1>2 DEF Delta1Inv, CleanInv, CleanOthers, Clean
<1>6. PICK r \in InPeriodRefunds(s) : i = RefundItem(s, r)
  BY <1>5
<1>7. \A p, q \in InPeriodRefunds(s) : p.id = q.id => p = q
  BY DEF InPeriodRefunds, Delta1Inv, CleanInv, Typed, RefundsTyped
<1>8. r.amount \in Int /\ r.amount >= 0
  BY DEF InPeriodRefunds, Delta1Inv, Drawn, CleanInv, Typed, RefundsTyped, IsRefund
<1>9. InPeriodRefunds(s)' = InPeriodRefunds(s)
  BY <1>2 DEF InPeriodRefunds
<1>10. DeductedBut(s, {r})'
  <2>1. OfType(ItemsIn(items', s), "REFUND") = OfType(ItemsIn(items, s), "REFUND") \ {i}
    BY <1>1 DEF OfType, ItemsIn
  <2>2. \A q \in InPeriodRefunds(s) : RefundItem(s, q) = i <=> q = r
    BY <1>6, <1>7, RefundItemNames
  <2>3. OfType(ItemsIn(items', s), "REFUND") = {RefundItem(s, q) : q \in InPeriodRefunds(s) \ {r}}
    BY <1>5, <2>1, <2>2
  <2>4. \A q : RefundItem(s, q)' = RefundItem(s, q)
    BY DEF RefundItem
  <2> QED
    BY <1>9, <2>3, <2>4 DEF DeductedBut
<1>11. -i.amount = r.amount
  BY <1>6, <1>8, RefundItemNames
<1>12. PICK amount : amount = -i.amount
  OBVIOUS
<1>13. Explained(s, "REFUND_NOT_DEDUCTED", amount)'
  <2>1. RefundExplained'
    BY RefundIsExplained, PTL
  <2>2. Explained(s, "REFUND_NOT_DEDUCTED", Abs(-r.amount))'
    BY <1>4, <1>9, <1>10, <2>1 DEF RefundExplained, CleanInv
  <2>3. Abs(-r.amount) = amount
    BY <1>8, <1>11, <1>12 DEF Abs
  <2> QED
    BY <2>2, <2>3
<1>14. PICK g : g = Truth("D1_REFUND_NOT_DEDUCTED", i.ref, s, "D1_COMPUTE",
                          "REFUND_NOT_DEDUCTED", amount, TRUE)
  OBVIOUS
<1>15. Told1(s, g)'
  BY <1>13, <1>14 DEF Told1, Truth
<1> QED
  BY <1>1, <1>2, <1>4, <1>12, <1>14, <1>15, OneMoreTold DEF Truth, Delta1Inv

\* Part of a drawn payment is no less than nothing.
LEMMA PartialRefundDrawn ==
    ASSUME Typed, Drawn, NEW p \in DOMAIN payments, NEW n, NEW rate \in Nat, NEW period
    PROVE  PartialRefund(p, n, rate, period).amount >= 0
<1>1. payments[p].amount \in Nat
  BY DEF Typed, PaymentsTyped, Drawn, PaymentDrawn
<1>2. PICK amount : amount = payments[p].amount
  OBVIOUS
<1>3. Bps(amount, rate) >= 0
  <2>1. PICK x : x = amount * rate
    OBVIOUS
  <2>2. x \in Nat
    BY <1>1, <1>2, <2>1
  <2>3. Bps(amount, rate) = (x + 5000) \div 10000
    BY <1>1, <1>2, <2>1 DEF Bps
  <2> QED
    BY <2>2, <2>3
<1> QED
  BY <1>2, <1>3 DEF PartialRefund, Refund

LEMMA RefundPartialMultiTold ==
    ASSUME Delta1Inv, CleanInv', NEW s \in Settlement, RefundPartialMulti(s)
    PROVE  Diagnosed1'
<1>1. PICK i \in PaymentItems(s) :
          LET p      == i.ref[1]
              first  == PartialRefund(p, 1, 2000, s)
              second == PartialRefund(p, 2, 1500, s)
          IN  /\ payments[p].amount > LargePayment /\ RefundsOf(p) = {}
              /\ refunds' = refunds \cup {first, second}
              /\ Itemise(s, items \cup {RefundItem(s, first)})
              /\ truth' = truth \cup {Truth("D1_REFUND_PARTIAL_MULTI", second.id, s, "D1_COMPUTE",
                                            "REFUND_NOT_DEDUCTED", second.amount, TRUE)}
  BY ZenonT(60) DEF RefundPartialMulti
<1>2. /\ UNCHANGED <<payments, adjustments>> /\ Claim(s) /\ s \in Settlement \ claimed
  BY DEF RefundPartialMulti, Claim
<1>3. PICK p \in DOMAIN payments : p = i.ref[1]
  BY PaymentItemTyped DEF Delta1Inv, CleanInv
<1>4. PICK first, second : /\ first = PartialRefund(p, 1, 2000, s)
                            /\ second = PartialRefund(p, 2, 1500, s)
  OBVIOUS
<1>5. /\ RefundsOf(p) = {} /\ refunds' = refunds \cup {first, second}
       /\ items' = items \cup {RefundItem(s, first)}
  BY <1>1, <1>3, <1>4 DEF Itemise
<1>6. header' = [header EXCEPT ![s] = Rollup(items', s)]
  BY <1>1 DEF Itemise, SetHeader
<1>7. truth' = truth \cup {Truth("D1_REFUND_PARTIAL_MULTI", second.id, s, "D1_COMPUTE",
                                 "REFUND_NOT_DEDUCTED", second.amount, TRUE)}
  BY <1>1, <1>3, <1>4
<1>8. /\ IsRefund(first) /\ first.payment = p /\ first.period = s /\ first.status = "PROCESSED"
      /\ first.id = <<"R", p, 1>>
      /\ IsRefund(second) /\ second.payment = p /\ second.period = s /\ second.status = "PROCESSED"
      /\ second.id = <<"R", p, 2>>
  BY <1>4, PartialRefundTyped, SMTT(20) DEF Delta1Inv, CleanInv, Typed
<1>9. second.amount \in Int /\ second.amount >= 0
  BY <1>8, <1>4, PartialRefundDrawn DEF Delta1Inv, CleanInv, IsRefund
<1>10. first \notin refunds /\ second \notin refunds /\ first # second
  BY <1>8, <1>5 DEF RefundsOf
<1>11. PICK j : j = RefundItem(s, first)
  OBVIOUS
<1>12. j.settlement = s /\ j.type = "REFUND" /\ "settlement" \in DOMAIN j
  BY <1>11 DEF RefundItem, Item
<1>13. /\ ChargedBut(s, {})' /\ UnitemisedAdjustments(s)' = {} /\ HeaderShort(s, 0, 0)'
      /\ \A x \in Settlement \ {s} : Untouched(x)
  <2>1. \A r \in (refunds' \ refunds) \cup (refunds \ refunds') : r.period = s
    BY <1>8, <1>5
  <2>2. items' = items \cup {j}
    BY <1>11, <1>5
  <2> QED
    BY <1>2, <1>12, <1>6, <2>1, <2>2, RefundPlanted
<1>14. InPeriodRefunds(s)' = InPeriodRefunds(s) \cup {first, second}
  BY <1>8, <1>5 DEF InPeriodRefunds
<1>15. DeductedBut(s, {second})'
  <2>1. OfType(ItemsIn(items', s), "REFUND") = OfType(ItemsIn(items, s), "REFUND") \cup {j}
    BY <1>11, <1>12, <1>5 DEF OfType, ItemsIn
  <2>2. OfType(ItemsIn(items, s), "REFUND") = {RefundItem(s, r) : r \in InPeriodRefunds(s)}
    BY <1>2 DEF Delta1Inv, CleanInv, CleanOthers, Clean
  <2>3. InPeriodRefunds(s)' \ {second} = InPeriodRefunds(s) \cup {first}
    BY <1>10, <1>14 DEF InPeriodRefunds
  <2>4. OfType(ItemsIn(items', s), "REFUND")
          = {RefundItem(s, r) : r \in InPeriodRefunds(s)' \ {second}}
    BY <1>11, <2>1, <2>2, <2>3
  <2>5. \A q : RefundItem(s, q)' = RefundItem(s, q)
    BY DEF RefundItem
  <2> QED
    BY <2>4, <2>5 DEF DeductedBut
<1>16. Explained(s, "REFUND_NOT_DEDUCTED", second.amount)'
  <2>1. RefundExplained'
    BY RefundIsExplained, PTL
  <2>2. second \in InPeriodRefunds(s)'
    BY <1>14
  <2>3. Explained(s, "REFUND_NOT_DEDUCTED", Abs(-second.amount))'
    BY <1>13, <1>15, <2>1, <2>2 DEF RefundExplained, CleanInv
  <2>4. Abs(-second.amount) = second.amount
    BY <1>9 DEF Abs
  <2> QED
    BY <2>3, <2>4
<1>17. PICK g : g = Truth("D1_REFUND_PARTIAL_MULTI", second.id, s, "D1_COMPUTE",
                          "REFUND_NOT_DEDUCTED", second.amount, TRUE)
  OBVIOUS
<1>18. Told1(s, g)'
  BY <1>16, <1>17 DEF Told1, Truth
<1> QED
  <2>1. truth' = truth \cup {g}
    BY <1>17, <1>7
  <2> QED
    BY <1>2, <1>13, <1>17, <1>18, <2>1, OneMoreTold DEF Truth, Delta1Inv
-----------------------------------------------------------------------------
\* A tax that is rounded on the aggregated fee.

LEMMA ChargesTake ==
    ASSUME NEW S, Rows(S), NEW x \in S
    PROVE  /\ FeeSum(S) = x.fee + FeeSum(S \ {x}) /\ TaxSum(S) = x.tax + TaxSum(S \ {x})
           /\ FeeSum(S \ {x}) \in Int /\ TaxSum(S \ {x}) \in Int
<1> DEFINE fee == [y \in S |-> y.fee]
           tax == [y \in S |-> y.tax]
           T == S \ {x}
<1>1. /\ (\A y \in S : fee[y] = y.fee /\ tax[y] = y.tax) /\ IntegerOn(fee, S) /\ IntegerOn(tax, S)
      /\ IsFiniteSet(S) /\ IsFiniteSet(T) /\ T \subseteq S /\ Rows(T)
  BY FS_Subset DEF Rows, IntegerOn
<1> HIDE DEF fee, tax
<1>2. FeeSum(S) = SumFunctionOnSet(fee, S) /\ FeeSum(T) = SumFunctionOnSet(fee, T)
  BY <1>1, FeeSumIsSum
<1>3. TaxSum(S) = SumFunctionOnSet(tax, S) /\ TaxSum(T) = SumFunctionOnSet(tax, T)
  BY <1>1, TaxSumIsSum
<1>4. /\ SumFunctionOnSet(fee, S) = fee[x] + SumFunctionOnSet(fee, T)
      /\ SumFunctionOnSet(tax, S) = tax[x] + SumFunctionOnSet(tax, T)
  BY <1>1, SumRemove
<1>5. FeeSum(T) \in Int /\ TaxSum(T) \in Int
  BY <1>1, SumsWhole
<1> QED
  BY <1>1, <1>2, <1>3, <1>4, <1>5

\* Rows without a charge do not count.
LEMMA ChargesOfSome ==
    ASSUME NEW S, Rows(S), NEW T \in SUBSET S, \A x \in S \ T : x.fee = 0 /\ x.tax = 0
    PROVE  FeeSum(T) = FeeSum(S) /\ TaxSum(T) = TaxSum(S)
<1> DEFINE fee == [y \in S |-> y.fee]
           tax == [y \in S |-> y.tax]
           R == S \ T
<1>1. /\ (\A y \in S : fee[y] = y.fee /\ tax[y] = y.tax)
      /\ IntegerOn(fee, T) /\ IntegerOn(tax, T) /\ IntegerOn(fee, R) /\ IntegerOn(tax, R)
      /\ IsFiniteSet(S) /\ IsFiniteSet(R) /\ IsFiniteSet(T) /\ T \subseteq S
      /\ T \cup R = S /\ T \cap R = {} /\ \A x \in R : fee[x] = 0 /\ tax[x] = 0
      /\ Rows(T)
  BY FS_Subset DEF Rows, IntegerOn
<1> HIDE DEF fee, tax, R
<1>2. FeeSum(S) = SumFunctionOnSet(fee, S) /\ FeeSum(T) = SumFunctionOnSet(fee, T)
  BY <1>1, FeeSumIsSum
<1>3. TaxSum(S) = SumFunctionOnSet(tax, S) /\ TaxSum(T) = SumFunctionOnSet(tax, T)
  BY <1>1, TaxSumIsSum
<1>4. /\ SumFunctionOnSet(fee, T \cup R) = SumFunctionOnSet(fee, T) + SumFunctionOnSet(fee, R)
      /\ SumFunctionOnSet(tax, T \cup R) = SumFunctionOnSet(tax, T) + SumFunctionOnSet(tax, R)
  BY <1>1, SumUnion
<1>5. SumFunctionOnSet(fee, R) = 0 /\ SumFunctionOnSet(tax, R) = 0
  BY <1>1, SumZero
<1>6. FeeSum(T) \in Int /\ TaxSum(T) \in Int
  BY <1>1, SumsWhole
<1>7. SumFunctionOnSet(fee, S) = SumFunctionOnSet(fee, T) + 0
      /\ SumFunctionOnSet(tax, S) = SumFunctionOnSet(tax, T) + 0
  BY <1>1, <1>4, <1>5
<1> QED
  BY <1>2, <1>3, <1>6, <1>7

\* A payment that is charged by policy is charged no less than nothing, and pays no tax on
\* no fee.
LEMMA PolicyIsNoRefund ==
    ASSUME Typed, Drawn, NEW s, NEW i \in PaymentItems(s), FeeGap(i) = 0, TaxGap(i) = 0
    PROVE  i.fee >= 0 /\ i.tax >= 0 /\ (i.fee = 0 => i.tax = 0)
<1>1. PICK p \in DOMAIN payments : i.ref = <<p>>
  BY PaymentItemTyped
<1>2. i.fee \in Int /\ i.tax \in Int /\ i.ref[1] = p
  BY <1>1, PaymentItemTyped DEF IsItem
<1>3. PICK amount, m : amount = payments[p].amount /\ m = MdrBps[payments[p].method]
  OBVIOUS
<1>4. amount \in Nat /\ m \in Nat /\ GstBps \in Nat
  BY <1>3, BooksAssumption DEF Typed, PaymentsTyped, Drawn, PaymentDrawn
<1>5. PICK fee : fee = Bps(amount, m)
  OBVIOUS
<1>6. fee \in Nat
  <2>1. PICK x : x = amount * m
    OBVIOUS
  <2>2. x \in Nat /\ fee = (x + 5000) \div 10000
    BY <1>4, <1>5, <2>1 DEF Bps
  <2> QED
    BY <2>2
<1>7. PICK tax : tax = Bps(fee, GstBps)
  OBVIOUS
<1>8. tax \in Nat /\ (fee = 0 => tax = 0)
  <2>1. PICK x : x = fee * GstBps
    OBVIOUS
  <2>2. x \in Nat /\ tax = (x + 5000) \div 10000 /\ (fee = 0 => x = 0)
    BY <1>4, <1>6, <1>7, <2>1 DEF Bps
  <2> QED
    BY <2>2
<1>9. PolicyFee(p) = fee /\ PolicyTax(p) = tax
  BY <1>3, <1>5, <1>7 DEF PolicyFee, PolicyTax
<1>10. i.fee - fee = 0 /\ i.tax - tax = 0
  BY <1>2, <1>9 DEF FeeGap, TaxGap
<1> QED
  BY <1>2, <1>6, <1>8, <1>10

\* The sums of a settlement of which one payment is off policy.
OneGapAdds ==
    \A s \in Settlement : \A i \in PaymentItems(s) :
        /\ Typed /\ ChargedBut(s, {i})
        => /\ PolicyFees(s) \in Int /\ PolicyTaxes(s) \in Int
           /\ FeeSum(ItemsIn(items, s)) = PolicyFees(s) + FeeGap(i)
           /\ TaxSum(ItemsIn(items, s)) = PolicyTaxes(s) + TaxGap(i)

LEMMA OneGapAddsUp == OneGapAdds
  BY OneGap DEF OneGapAdds, Typed

LEMMA TaxAggregateRoundingTold ==
    ASSUME Delta1Inv, CleanInv', NEW s \in Settlement, TaxAggregateRounding(s)
    PROVE  Diagnosed1'
<1>1. PICK its, diff :
          /\ its = {k \in PaymentItems(s) : k.fee > 0}
          /\ diff = Bps(FeeSum(its), GstBps) - TaxSum(its)
  OBVIOUS
<1>2. /\ diff # 0
      /\ \E k \in Largest(its, "fee") :
             Itemise(s, (items \ {k}) \cup {[k EXCEPT !.tax = @ + diff]})
      /\ truth' = truth \cup {Truth("D1_TAX_AGGREGATE_ROUNDING", Whole(s), s, "D1_COMPUTE",
                                    "TAX_ROUNDING_MISMATCH", Abs(diff), TRUE)}
      /\ UNCHANGED <<payments, refunds, adjustments>> /\ Claim(s) /\ s \in Settlement \ claimed
  BY <1>1 DEF TaxAggregateRounding, Claim
<1>3. PICK i, j :
          /\ i \in its
          /\ j = [i EXCEPT !.tax = @ + diff]
          /\ items' = (items \ {i}) \cup {j}
          /\ header' = [header EXCEPT ![s] = Rollup(items', s)]
  BY <1>2 DEF Largest, Itemise, SetHeader
<1>4. /\ i \in PaymentItems(s) /\ i \in items /\ IsItem(i) /\ i.type = "PAYMENT" /\ i.settlement = s
      /\ \E p \in DOMAIN payments : i.ref = <<p>>
  BY <1>1, <1>3, PaymentItemTyped DEF Delta1Inv, CleanInv, PaymentItems, OfType, ItemsIn
<1>5. Clean(s)
  BY <1>2 DEF Delta1Inv, CleanInv, CleanOthers
<1>6. PICK I : I = ItemsIn(items, s)
  OBVIOUS
<1>7. /\ I \in SUBSET items /\ its \in SUBSET I /\ Rows(I) /\ Rows(its) /\ i \in I
      /\ \A k \in I \ its : k.fee = 0 /\ k.tax = 0
  <2>1. I \in SUBSET items /\ its \in SUBSET I /\ i \in I
    BY <1>1, <1>4, <1>6 DEF PaymentItems, OfType, ItemsIn
  <2>2. ASSUME NEW k \in I \ its PROVE k.fee = 0 /\ k.tax = 0
    <3>1. CASE k \in PaymentItems(s)
      <4>1. k.fee >= 0 /\ (k.fee = 0 => k.tax = 0)
        BY <1>5, <3>1, PolicyIsNoRefund DEF Delta1Inv, CleanInv, Clean
      <4>2. k.fee \in Int /\ ~ (k.fee > 0)
        BY <1>1, <2>2, <3>1, PaymentItemTyped DEF Delta1Inv, CleanInv, IsItem
      <4> QED
        BY <4>1, <4>2
    <3>2. CASE k \notin PaymentItems(s)
      BY <1>6, <2>1, <2>2, <3>2 DEF PaymentItems, OfType, ItemsIn, Delta1Inv, CleanInv, Typed, ItemsTyped, IsItem
    <3> QED
      BY <3>1, <3>2
  <2> QED
    BY <2>1, <2>2, TypedRows DEF Delta1Inv, CleanInv, Typed
<1>8. PICK F, T : F = FeeSum(its) /\ T = TaxSum(its)
  OBVIOUS
<1>9. F \in Int /\ T \in Int /\ F = FeeSum(I) /\ T = TaxSum(I)
  BY <1>7, <1>8, SumsWhole, ChargesOfSome
<1>10. diff = Bps(F, GstBps) - T /\ diff \in Int
  BY <1>1, <1>8, <1>9, BpsWhole, BooksAssumption
<1>11. /\ j.fee = i.fee /\ j.tax = i.tax + diff /\ j.ref = i.ref /\ j.settlement = s
       /\ j.type = "PAYMENT" /\ i.fee \in Int /\ i.tax \in Int /\ "settlement" \in DOMAIN j
  <2>1. i = [settlement |-> i.settlement, type |-> i.type, ref |-> i.ref, amount |-> i.amount,
             fee |-> i.fee, tax |-> i.tax] /\ i.fee \in Int /\ i.tax \in Int
    BY <1>4 DEF IsItem, Item
  <2> QED
    BY <1>3, <1>4, <2>1
<1>12. FeeGap(i) = 0 /\ TaxGap(i) = 0
  BY <1>4, <1>5 DEF Clean
<1>13. FeeGap(j) = 0 /\ TaxGap(j) = diff
  <2>1. PICK fee, tax : fee = PolicyFee(i.ref[1]) /\ tax = PolicyTax(i.ref[1])
    OBVIOUS
  <2>2. fee \in Int /\ tax \in Int
    BY <1>4, <2>1, PolicyIsWhole, PaymentItemTyped DEF Delta1Inv, CleanInv, Typed
  <2>3. /\ FeeGap(i) = i.fee - fee /\ TaxGap(i) = i.tax - tax
        /\ FeeGap(j) = j.fee - fee /\ TaxGap(j) = j.tax - tax
    BY <1>11, <2>1 DEF FeeGap, TaxGap
  <2>4. i.fee - fee = 0 /\ i.tax - tax = 0
    BY <1>12, <2>3
  <2>5. PICK d, f, x : d = diff /\ f = i.fee /\ x = i.tax
    OBVIOUS
  <2>6. d \in Int /\ f \in Int /\ x \in Int
    BY <1>10, <1>11, <2>5
  <2>9. f - fee = 0 /\ x - tax = 0
    BY <2>4, <2>5
  <2>7. f - fee = 0 /\ (x + d) - tax = d
    BY <2>2, <2>6, <2>9
  <2>8. FeeGap(j) = f - fee /\ TaxGap(j) = (x + d) - tax
    BY <1>11, <2>3, <2>5
  <2> QED
    BY <2>5, <2>7, <2>8
<1>14. \A k : FeeGap(k)' = FeeGap(k) /\ TaxGap(k)' = TaxGap(k)
  BY <1>2 DEF FeeGap, TaxGap, PolicyTax, PolicyFee
<1>15. PaymentItems(s)' = (PaymentItems(s) \ {i}) \cup {j} /\ j \in PaymentItems(s)'
  BY <1>3, <1>4, <1>11 DEF PaymentItems, OfType, ItemsIn
<1>16. ChargedBut(s, {j})'
  <2>1. \A k \in PaymentItems(s)' \ {j} : FeeGap(k)' = 0 /\ TaxGap(k)' = 0
    BY <1>5, <1>14, <1>15 DEF Clean
  <2> QED
    BY <2>1 DEF ChargedBut
<1>17. \A t \in {"REFUND", "ADJUSTMENT"} : OfType(ItemsIn(items', s), t) = OfType(ItemsIn(items, s), t)
  BY <1>3, <1>4, <1>11 DEF OfType, ItemsIn
<1>18. DeductedBut(s, {})'
  <2>1. InPeriodRefunds(s)' = InPeriodRefunds(s)
    BY <1>2 DEF InPeriodRefunds
  <2>2. OfType(ItemsIn(items', s), "REFUND") = {RefundItem(s, r) : r \in InPeriodRefunds(s)}
    BY <1>5, <1>17 DEF Clean
  <2>3. \A r : RefundItem(s, r)' = RefundItem(s, r)
    BY DEF RefundItem
  <2> QED
    BY <2>1, <2>2, <2>3 DEF DeductedBut
<1>19. UnitemisedAdjustments(s)' = {}
  <2>1. Itemised(s, "ADJUSTMENT")' = Itemised(s, "ADJUSTMENT")
    BY <1>17 DEF Itemised
  <2> QED
    BY <1>2, <1>5, <2>1 DEF UnitemisedAdjustments, Clean
<1>20. header'[s] = Rollup(items', s)
  BY <1>2, <1>3 DEF Delta1Inv, CleanInv, IInv, Shape
<1>21. PICK J : J = ItemsIn(items', s)
  OBVIOUS
<1>22. /\ J = (I \ {i}) \cup {j} /\ j \in J /\ J \ {j} = I \ {i} /\ Rows(J) /\ Rows(items')
  <2>1. j \notin I
    <3> SUFFICES ASSUME j \in I PROVE FALSE
      OBVIOUS
    <3>1. j \in PaymentItems(s)
      BY <1>6, <1>11 DEF PaymentItems, OfType
    <3>2. TaxGap(j) = 0
      BY <1>5, <3>1 DEF Clean
    <3> QED
      BY <1>2, <1>13, <3>2
  <2>2. J = (I \ {i}) \cup {j}
    BY <1>3, <1>4, <1>6, <1>11, <1>21 DEF ItemsIn
  <2>3. Rows(items')
    BY DEF CleanInv, Typed, ItemsTyped, IsItem, Rows
  <2>4. Rows(J)
    BY <1>21, <2>3, FS_Subset DEF Rows, ItemsIn
  <2> QED
    BY <2>1, <2>2, <2>3, <2>4
<1>23. FeeSum(J) = F /\ TaxSum(J) = T + diff
  <2>1. /\ FeeSum(I) = i.fee + FeeSum(I \ {i}) /\ TaxSum(I) = i.tax + TaxSum(I \ {i})
        /\ FeeSum(I \ {i}) \in Int /\ TaxSum(I \ {i}) \in Int
    BY <1>7, ChargesTake
  <2>2. FeeSum(J) = j.fee + FeeSum(J \ {j}) /\ TaxSum(J) = j.tax + TaxSum(J \ {j})
    BY <1>22, ChargesTake
  <2>3. FeeSum(J) = j.fee + FeeSum(I \ {i}) /\ TaxSum(J) = j.tax + TaxSum(I \ {i})
    BY <1>22, <2>2
  <2> QED
    BY <1>9, <1>10, <1>11, <2>1, <2>3
<1>24. PICK PF, PT : PF = PolicyFees(s)' /\ PT = PolicyTaxes(s)'
  OBVIOUS
<1>25. PF \in Int /\ PT \in Int /\ FeeSum(J) = PF + 0 /\ TaxSum(J) = PT + diff
  <2>1. OneGapAdds'
    BY OneGapAddsUp, PTL
  <2> QED
    BY <1>13, <1>14, <1>15, <1>16, <1>21, <1>24, <2>1 DEF OneGapAdds, CleanInv
<1>26. PF = F /\ PT = T
  <2>1. F = PF + 0 /\ T + diff = PT + diff
    BY <1>23, <1>25
  <2>2. F \in Int /\ T \in Int /\ diff \in Int /\ PF \in Int /\ PT \in Int
    BY <1>9, <1>10, <1>25
  <2> QED
    BY <2>1, <2>2
<1>27. PICK its1 : its1 = Rollup(items', s)
  OBVIOUS
<1>28. its1.fee = F /\ its1.tax = T + diff
  BY <1>21, <1>22, <1>23, <1>27, RollupWhole
<1>29. TaxIsMethodError(s)'
  <2>1. its1.tax - PT = diff /\ its1.fee = PF
    BY <1>9, <1>10, <1>26, <1>28
  <2>2. diff = Bps(PF, GstBps) - PT
    BY <1>10, <1>26
  <2> QED
    BY <1>2, <1>24, <1>27, <2>1, <2>2 DEF TaxIsMethodError
<1>30. PICK amount : amount = Abs(diff)
  OBVIOUS
<1>31. HeaderShort(s, 0, 0)'
  BY <1>20, RebuiltIsNotShort
<1>32. Explained(s, "TAX_ROUNDING_MISMATCH", amount)'
  <2>1. RoundingExplained'
    BY RoundingIsExplained, PTL
  <2>2. Explained(s, "TAX_ROUNDING_MISMATCH", Abs(Rollup(items, s).tax - PolicyTaxes(s)))'
    BY <1>18, <1>19, <1>29, <1>31, <2>1 DEF RoundingExplained, CleanInv
  <2>3. Abs(Rollup(items, s).tax - PolicyTaxes(s))' = amount
    <3>1. its1.tax - PT = diff
      BY <1>9, <1>10, <1>26, <1>28
    <3> QED
      BY <1>24, <1>27, <1>30, <3>1 DEF Abs
  <2> QED
    BY <2>2, <2>3
<1>33. PICK g : g = Truth("D1_TAX_AGGREGATE_ROUNDING", Whole(s), s, "D1_COMPUTE",
                          "TAX_ROUNDING_MISMATCH", amount, TRUE)
  OBVIOUS
<1>34. Told1(s, g)'
  BY <1>32, <1>33 DEF Told1, Truth
<1>35. \A x \in Settlement \ {s} : Untouched(x)
  <2>1. OnlyOf(s)
    BY <1>3, <1>4, <1>11, Replaced DEF Delta1Inv, CleanInv, IInv
  <2>2. PICK h : header' = [header EXCEPT ![s] = h]
    BY <1>3
  <2> QED
    BY <1>2, <2>1, <2>2, OthersUntouched DEF Delta1Inv, CleanInv, IInv
<1> QED
  BY <1>2, <1>30, <1>33, <1>34, <1>35, OneMoreTold DEF Truth, Delta1Inv
-----------------------------------------------------------------------------
\* Steps that plant nothing for delta 1 to find.

LEMMA NothingToTell ==
    ASSUME CleanInv, CleanInv', Diagnosed1, \A x \in Settlement : Untouched(x),
           claimed \subseteq claimed', truth \subseteq truth',
           \A g \in truth' \ truth : g.kind # "D1_COMPUTE" \/ g.expects = "NONE"
    PROVE  Diagnosed1'
<1>1. PICK s : s \notin Settlement
  <2>1. 0 \notin Settlement
    BY BooksAssumption DEF Settlement
  <2> QED
    BY <2>1
<1>2. \A x \in Settlement \ {s} :
          /\ x \notin claimed' => Rows1(x)' = {}
          /\ Rows1(x)' = {} => Silent(Diagnose1(x)')
          /\ \A q \in Rows1(x)' : Told1(x, q)'
  BY OthersTold
<1> QED
  BY <1>1, <1>2 DEF Diagnosed1, Silent

LEMMA TablesKeepTold ==
    ASSUME CleanInv, CleanInv', Diagnosed1,
           UNCHANGED <<payments, refunds, adjustments, items, header>>,
           claimed \subseteq claimed', truth \subseteq truth',
           \A g \in truth' \ truth : g.kind # "D1_COMPUTE" \/ g.expects = "NONE"
    PROVE  Diagnosed1'
<1>1. \A x \in Settlement : Untouched(x)
  BY DEF Untouched, InPeriodRefunds
<1> QED
  BY <1>1, NothingToTell

LEMMA RefundOutsideWindowTold ==
    ASSUME Delta1Inv, CleanInv', NEW s \in Settlement, RefundOutsideWindow(s)
    PROVE  Diagnosed1'
<1>1. PICK i, r : /\ i \in PaymentItems(s)
                  /\ r = PartialRefund(i.ref[1], 1, 4000, s + 1)
                  /\ refunds' = refunds \cup {r}
                  /\ truth' = truth \cup {Trap(s, r.id, r)}
  BY DEF RefundOutsideWindow, Largest, NeverRefunded
<1>2. /\ UNCHANGED <<payments, adjustments, items, header>>
      /\ claimed \subseteq claimed' /\ s = NSettlement
  BY DEF RefundOutsideWindow, Claim
<1>3. i.ref[1] \in DOMAIN payments
  BY <1>1, PaymentItemTyped DEF Delta1Inv, CleanInv
<1>4. r.period = s + 1
  BY <1>1, <1>3, PartialRefundTyped DEF Delta1Inv, CleanInv, Typed
<1>5. r.period \notin Settlement
  BY <1>2, <1>4, BooksAssumption DEF Settlement
<1>6. \A x \in Settlement : Untouched(x)
  <2> SUFFICES ASSUME NEW x \in Settlement PROVE Untouched(x)
    OBVIOUS
  <2>1. InPeriodRefunds(x)' = InPeriodRefunds(x)
    BY <1>1, <1>5 DEF InPeriodRefunds
  <2> QED
    BY <1>2, <2>1 DEF Untouched
<1>7. \A g \in truth' \ truth : g.expects = "NONE"
  BY <1>1 DEF Trap, Truth
<1> QED
  BY <1>1, <1>2, <1>6, <1>7, NothingToTell DEF Delta1Inv

\* The trap: the refund of a payment that had none, itemised in the next settlement.
Trapped(s, later, i, r) ==
    /\ i \in NeverRefunded(s)
    /\ r = PartialRefund(i.ref[1], 1, 4000, later) /\ refunds' = refunds \cup {r}
    /\ items' = items \cup {RefundItem(later, r)}
    /\ header' = [header EXCEPT ![later] = Rollup(items', later)]
    /\ truth' = truth \cup {Trap(s, r.id, r), Trap(later, Whole(later), r)}

LEMMA TrapIsPlanted ==
    ASSUME NEW s \in Settlement, NEW later \in Settlement, RefundOutsidePeriod(s, later)
    PROVE  \E i, r : Trapped(s, later, i, r)
BY DEF RefundOutsidePeriod, Itemise, SetHeader, Largest, Trapped

\* The settlement that receives the refund of the trap is unclaimed, and stays clean.
LEMMA RefundOutsidePeriodTold ==
    ASSUME Delta1Inv, CleanInv', NEW s \in Settlement, NEW later \in Settlement,
           RefundOutsidePeriod(s, later)
    PROVE  Diagnosed1'
<1>0. PICK i, r : Trapped(s, later, i, r)
  BY TrapIsPlanted
<1>01. /\ i \in NeverRefunded(s)
       /\ r = PartialRefund(i.ref[1], 1, 4000, later) /\ refunds' = refunds \cup {r}
       /\ items' = items \cup {RefundItem(later, r)}
       /\ header' = [header EXCEPT ![later] = Rollup(items', later)]
       /\ truth' = truth \cup {Trap(s, r.id, r), Trap(later, Whole(later), r)}
  BY <1>0 DEF Trapped
<1>1. i \in PaymentItems(s)
  BY <1>01 DEF NeverRefunded
<1>2. /\ UNCHANGED <<payments, adjustments>> /\ claimed' = claimed \cup {s}
      /\ later \notin claimed /\ later = s + 1
  BY DEF RefundOutsidePeriod, Claim
<1>3. i.ref[1] \in DOMAIN payments
  BY <1>1, PaymentItemTyped DEF Delta1Inv, CleanInv
<1>4. r.period = later
  BY <1>01, <1>3, PartialRefundTyped DEF Delta1Inv, CleanInv, Typed
<1>5. PICK j : j = RefundItem(later, r)
  OBVIOUS
<1>6. j.settlement = later /\ "settlement" \in DOMAIN j
  BY <1>5 DEF RefundItem, Item
<1>7. \A x \in Settlement \ {later} : Untouched(x)
  <2>1. OnlyOf(later)
    BY <1>01, <1>5, <1>6, Put DEF Delta1Inv, CleanInv, IInv
  <2>2. header' = [header EXCEPT ![later] = Rollup(items \cup {RefundItem(later, r)}, later)]
    BY <1>01
  <2>3. \A q \in (refunds' \ refunds) \cup (refunds \ refunds') : q.period = later
    BY <1>01, <1>4
  <2> QED
    BY <1>2, <2>1, <2>2, <2>3, OthersUntouched DEF Delta1Inv, CleanInv, IInv
<1>8. \A g \in truth' \ truth : g.expects = "NONE"
  BY <1>01 DEF Trap, Truth
<1>9. \A x \in Settlement \ {later} :
          /\ x \notin claimed' => Rows1(x)' = {}
          /\ Rows1(x)' = {} => Silent(Diagnose1(x)')
          /\ \A q \in Rows1(x)' : Told1(x, q)'
  BY <1>01, <1>2, <1>7, <1>8, OthersTold DEF Delta1Inv
<1>10. later \notin claimed'
  BY <1>2 DEF Settlement
<1>11. Rows1(later)' = {}
  <2>1. Rows1(later) = {}
    BY <1>2 DEF Delta1Inv, Diagnosed1
  <2> QED
    BY <1>01, <1>8, <2>1 DEF Rows1, Expecting
<1>12. Silent(Diagnose1(later)')
  <2>1. SilentWhenClean'
    BY CleanStaysSilent, PTL
  <2>2. Clean(later)' /\ (header[later] = Rollup(items, later))' /\ Typed'
    BY <1>10 DEF CleanInv, CleanOthers, IInv, HeadersRollUp
  <2> QED
    BY <2>1, <2>2 DEF SilentWhenClean, Silent
<1> QED
  BY <1>9, <1>11, <1>12 DEF Diagnosed1, Silent

\* An adjustment that is itemised shows in the sums of its settlement, and in no other.
LEMMA OneMoreAdjustment ==
    ASSUME NEW its, Rows(its), NEW b, NEW j, j \notin its, j.settlement = b,
           j.type = "ADJUSTMENT", j.fee = 0, j.tax = 0, j.amount \in Int
    PROVE  LET old == Rollup(its, b)
               new == Rollup(its \cup {j}, b)
           IN  new = [gross |-> old.gross, refund |-> old.refund, fee |-> old.fee,
                      tax |-> old.tax, adjustment |-> old.adjustment + j.amount,
                      net |-> old.net + j.amount]
<1>1. PICK all : all = its \cup {j}
  OBVIOUS
<1>2. Rows(all) /\ j \in all
  BY <1>1, FS_AddElement DEF Rows
<1>3. PICK new, old : new = Rollup(all, b) /\ old = Rollup(its, b)
  OBVIOUS
<1>4. PICK I, J : I = ItemsIn(its, b) /\ J = ItemsIn(all, b)
  OBVIOUS
<1>5. /\ J = I \cup {j} /\ j \in J /\ J \ {j} = I /\ Rows(I) /\ Rows(J)
      /\ \A x \in {"PAYMENT", "REFUND"} : OfType(J, x) = OfType(I, x)
      /\ OfType(J, "ADJUSTMENT") = OfType(I, "ADJUSTMENT") \cup {j}
      /\ j \notin OfType(I, "ADJUSTMENT")
  <2>1. J = I \cup {j} /\ j \in J /\ J \ {j} = I
    BY <1>1, <1>4 DEF ItemsIn
  <2>2. I \subseteq its /\ J \subseteq all
    BY <1>4 DEF ItemsIn
  <2>3. Rows(I) /\ Rows(J)
    BY <1>2, <2>2, FS_Subset DEF Rows
  <2> QED
    BY <2>1, <2>3 DEF OfType
<1>6. FeeSum(J) = FeeSum(I) /\ TaxSum(J) = TaxSum(I)
  <2>1. FeeSum(J) = j.fee + FeeSum(J \ {j}) /\ TaxSum(J) = j.tax + TaxSum(J \ {j})
    BY <1>5, ChargesTake
  <2>2. FeeSum(J) = 0 + FeeSum(I) /\ TaxSum(J) = 0 + TaxSum(I)
    BY <1>5, <2>1
  <2>3. FeeSum(I) \in Int /\ TaxSum(I) \in Int
    BY <1>5, SumsWhole
  <2> QED
    BY <2>2, <2>3
<1>7. AmountSum(OfType(J, "ADJUSTMENT")) = j.amount + AmountSum(OfType(I, "ADJUSTMENT"))
  <2>1. Amounts(OfType(I, "ADJUSTMENT"))
    BY <1>5, FS_Subset DEF Amounts, OfType, Rows
  <2> QED
    BY <1>5, <2>1, AmountPut
<1>8. PICK P, R, A : /\ P = AmountSum(OfType(I, "PAYMENT")) /\ R = -AmountSum(OfType(I, "REFUND"))
                     /\ A = AmountSum(OfType(I, "ADJUSTMENT"))
  OBVIOUS
<1>9. /\ old = [gross |-> P, refund |-> R, fee |-> FeeSum(I), tax |-> TaxSum(I), adjustment |-> A,
                net |-> P - R - FeeSum(I) - TaxSum(I) + A]
      /\ new = [gross |-> P, refund |-> R, fee |-> FeeSum(I), tax |-> TaxSum(I),
                adjustment |-> j.amount + A,
                net |-> P - R - FeeSum(I) - TaxSum(I) + (j.amount + A)]
  <2>1. old = [gross |-> P, refund |-> R, fee |-> FeeSum(I), tax |-> TaxSum(I), adjustment |-> A,
               net |-> P - R - FeeSum(I) - TaxSum(I) + A]
    BY <1>3, <1>4, <1>8 DEF Rollup
  <2>2. OfType(J, "PAYMENT") = OfType(I, "PAYMENT") /\ OfType(J, "REFUND") = OfType(I, "REFUND")
    BY <1>5
  <2>3. new = [gross |-> P, refund |-> R, fee |-> FeeSum(J), tax |-> TaxSum(J),
               adjustment |-> AmountSum(OfType(J, "ADJUSTMENT")),
               net |-> P - R - FeeSum(J) - TaxSum(J) + AmountSum(OfType(J, "ADJUSTMENT"))]
    BY <1>3, <1>4, <1>8, <2>2 DEF Rollup
  <2> QED
    BY <1>6, <1>7, <1>8, <2>1, <2>3
<1>10. /\ old.gross = P /\ old.refund = R /\ old.fee = FeeSum(I) /\ old.tax = TaxSum(I)
       /\ old.adjustment = A /\ old.net = P - R - FeeSum(I) - TaxSum(I) + A
  BY <1>9
<1>11. P \in Int /\ R \in Int /\ A \in Int /\ FeeSum(I) \in Int /\ TaxSum(I) \in Int
  <2>1. \A x : Amounts(OfType(I, x))
    BY <1>5, FS_Subset DEF Amounts, OfType, Rows
  <2>2. \A x : AmountSum(OfType(I, x)) \in Int
    BY <2>1, AmountWhole
  <2>3. FeeSum(I) \in Int /\ TaxSum(I) \in Int
    BY <1>5, SumsWhole
  <2> QED
    BY <1>8, <2>2, <2>3
<1>12. j.amount + A = A + j.amount
       /\ P - R - FeeSum(I) - TaxSum(I) + (j.amount + A)
            = (P - R - FeeSum(I) - TaxSum(I) + A) + j.amount
  BY <1>11
<1>13. new = [gross |-> P, refund |-> R, fee |-> FeeSum(I), tax |-> TaxSum(I),
              adjustment |-> j.amount + A, net |-> P - R - FeeSum(I) - TaxSum(I) + (j.amount + A)]
  BY <1>9
<1>14. new = [gross |-> old.gross, refund |-> old.refund, fee |-> old.fee, tax |-> old.tax,
              adjustment |-> old.adjustment + j.amount, net |-> old.net + j.amount]
  BY <1>10, <1>12, <1>13
<1> QED
  BY <1>1, <1>3, <1>14

\* What the adjusted settlement of a pair is given is itemised, and its header adds up.
LEMMA PairedAddsUp ==
    ASSUME Delta1Inv, NEW a \in Settlement, NEW b \in Settlement, SameAmountSameDay(a, b)
    PROVE  header'[b] = Rollup(items', b)
<1>1. a \notin claimed /\ b \notin claimed
  BY DEF SameAmountSameDay
<1>2. header[a] = Rollup(items, a) /\ header[b] = Rollup(items, b)
  BY <1>1 DEF Delta1Inv, CleanInv, IInv, HeadersRollUp
<1>3. Rows(items) /\ Whole6(header[a]) /\ Whole6(header[b])
  BY <1>2, TypedRows, RollupWhole DEF Delta1Inv, CleanInv, Typed
<1>4. PICK net, diff : net = header[a].net /\ diff = header[a].net - header[b].net
  OBVIOUS
<1>5. PICK g, r, f, t, e, n :
         header[b] = [gross |-> g, refund |-> r, fee |-> f, tax |-> t, adjustment |-> e, net |-> n]
  BY <1>2 DEF Rollup
<1>6. net \in Int /\ n \in Int /\ e \in Int /\ diff = net - n /\ diff \in Int
  BY <1>3, <1>4, <1>5 DEF Whole6
<1>7. header'[b] = [gross |-> g, refund |-> r, fee |-> f, tax |-> t,
                    adjustment |-> e + diff, net |-> net]
  <2>1. header' = [[header EXCEPT ![b].net = net] EXCEPT ![b].adjustment = @ + diff]
    BY <1>4 DEF SameAmountSameDay
  <2>3. PICK h : h = [header[b] EXCEPT !.net = net]
    OBVIOUS
  <2>2. header'[b] = [h EXCEPT !.adjustment = @ + diff]
    BY <2>1, <2>3 DEF Delta1Inv, CleanInv, IInv, Shape
  <2>5. h.adjustment = e
    BY <1>5, <2>3
  <2>6. header'[b] = [h EXCEPT !.adjustment = e + diff]
    BY <2>2, <2>5
  <2>4. h = [gross |-> g, refund |-> r, fee |-> f, tax |-> t, adjustment |-> e, net |-> net]
    BY <1>5, <2>3
  <2> QED
    BY <2>4, <2>6
<1>8. CASE diff = 0
  <2>1. items' = items
    BY <1>4, <1>8 DEF SameAmountSameDay
  <2>2. net = n /\ e + diff = e
    BY <1>6, <1>8
  <2>3. header'[b] = header[b]
    BY <1>5, <1>7, <2>2
  <2> QED
    BY <1>2, <2>1, <2>3
<1>9. CASE diff # 0
  <2>1. PICK j : j = Item(b, "ADJUSTMENT", <<"ADJ", b, NextAdjustment(b)>>, diff, 0, 0)
    OBVIOUS
  <2>2. items' = items \cup {j}
    BY <1>4, <1>9, <2>1 DEF SameAmountSameDay, Adjustment
  <2>3. /\ j.settlement = b /\ j.type = "ADJUSTMENT" /\ j.amount = diff /\ j.fee = 0 /\ j.tax = 0
        /\ j.ref = <<"ADJ", b, NextAdjustment(b)>>
    BY <2>1 DEF Item
  <2>4. j \notin items
    <3>1. <<"ADJ", b, NextAdjustment(b)>> \notin Itemised(b, "ADJUSTMENT")
      BY FreshNumber DEF Delta1Inv
    <3> QED
      BY <2>3, <3>1 DEF Itemised, OfType, ItemsIn
  <2>5. Rollup(items \cup {j}, b)
          = [gross |-> g, refund |-> r, fee |-> f, tax |-> t, adjustment |-> e + j.amount,
             net |-> n + j.amount]
    <3>1. Rollup(items, b) = [gross |-> g, refund |-> r, fee |-> f, tax |-> t,
                              adjustment |-> e, net |-> n]
      BY <1>2, <1>5
    <3>2. Rows(items) /\ j.amount \in Int
      BY <1>3, <1>6, <2>3
    <3>3. j.settlement = b /\ j.type = "ADJUSTMENT" /\ j.fee = 0 /\ j.tax = 0
      BY <2>3
    <3>4. PICK old : old = Rollup(items, b)
      OBVIOUS
    <3>5. Rollup(items \cup {j}, b)
            = [gross |-> old.gross, refund |-> old.refund, fee |-> old.fee, tax |-> old.tax,
               adjustment |-> old.adjustment + j.amount, net |-> old.net + j.amount]
      BY <2>4, <3>2, <3>3, <3>4, OneMoreAdjustment
    <3>6. old.gross = g /\ old.refund = r /\ old.fee = f /\ old.tax = t
          /\ old.adjustment = e /\ old.net = n
      BY <3>1, <3>4
    <3> QED
      BY <3>5, <3>6
  <2>6. n + diff = net
    BY <1>6
  <2>7. Rollup(items', b) = [gross |-> g, refund |-> r, fee |-> f, tax |-> t,
                             adjustment |-> e + diff, net |-> net]
    BY <2>2, <2>3, <2>5, <2>6
  <2> QED
    BY <1>7, <2>7
<1> QED
  BY <1>8, <1>9

LEMMA SameAmountSameDayTold ==
    ASSUME Delta1Inv, CleanInv', NEW a \in Settlement, NEW b \in Settlement, SameAmountSameDay(a, b)
    PROVE  Diagnosed1'
<1>1. /\ b \notin claimed /\ claimed' = claimed \cup {a, b} /\ UNCHANGED <<payments, refunds>>
      /\ truth' = truth \cup {Truth("D2_SAME_AMOUNT_SAME_DAY", Whole(x), x, "D2_BANK",
                                    "AMBIGUOUS_BANK_MATCH", header[a].net, TRUE) : x \in {a, b}}
  BY DEF SameAmountSameDay
<1>2. PICK diff, adj, j :
          /\ diff = header[a].net - header[b].net
          /\ adj = Adjustment(b, NextAdjustment(b), "MANUAL", diff, 0)
          /\ j = Item(b, "ADJUSTMENT", adj.id, diff, 0, 0)
  OBVIOUS
<1>3. /\ adjustments' = IF diff = 0 THEN adjustments ELSE adjustments \cup {adj}
      /\ items' = IF diff = 0 THEN items ELSE items \cup {j}
      /\ header' = [header EXCEPT ![b].net = header[a].net, ![b].adjustment = @ + diff]
  BY <1>2 DEF SameAmountSameDay
<1>4. /\ j.settlement = b /\ j.type = "ADJUSTMENT" /\ "settlement" \in DOMAIN j
      /\ j.ref = adj.id /\ adj.settlement = b
  BY <1>2 DEF Item, Adjustment
<1>5. OnlyOf(b)
  <2>1. CASE items' = items
    BY <2>1, ItemsUntouched DEF Delta1Inv, CleanInv, IInv
  <2>2. CASE items' = items \cup {j}
    BY <1>4, <2>2, Put DEF Delta1Inv, CleanInv, IInv
  <2> QED
    BY <1>3, <2>1, <2>2
<1>6. \A x \in Settlement \ {b} : Untouched(x)
  <2> SUFFICES ASSUME NEW x \in Settlement \ {b} PROVE Untouched(x)
    OBVIOUS
  <2>1. ItemsIn(items', x) = ItemsIn(items, x)
    BY <1>5 DEF OnlyOf
  <2>2. InPeriodRefunds(x)' = InPeriodRefunds(x)
    BY <1>1 DEF InPeriodRefunds
  <2>3. header'[x] = header[x]
    BY <1>3 DEF Delta1Inv, CleanInv, IInv, Shape
  <2>4. \A c : c.settlement = x => (c \in adjustments' <=> c \in adjustments)
    BY <1>3, <1>4
  <2> QED
    BY <1>1, <2>1, <2>2, <2>3, <2>4 DEF Untouched
<1>7. \A g \in truth' \ truth : g.kind = "D2_BANK"
  BY <1>1 DEF Truth
<1>8. \A x \in Settlement \ {b} :
          /\ x \notin claimed' => Rows1(x)' = {}
          /\ Rows1(x)' = {} => Silent(Diagnose1(x)')
          /\ \A q \in Rows1(x)' : Told1(x, q)'
  BY <1>1, <1>6, <1>7, OthersTold DEF Delta1Inv
<1>9. Rows1(b)' = {} /\ b \in claimed'
  <2>1. Rows1(b) = {}
    BY <1>1 DEF Delta1Inv, Diagnosed1
  <2> QED
    BY <1>1, <1>7, <2>1 DEF Rows1, Expecting
<1>10. Clean(b)'
  <2>1. Clean(b)
    BY <1>1 DEF Delta1Inv, CleanInv, CleanOthers
  <2>2. /\ PaymentItems(b)' = PaymentItems(b)
        /\ OfType(ItemsIn(items', b), "REFUND") = OfType(ItemsIn(items, b), "REFUND")
    BY <1>3, <1>4 DEF PaymentItems, OfType, ItemsIn
  <2>3. \A k : FeeGap(k)' = FeeGap(k) /\ TaxGap(k)' = TaxGap(k)
    BY <1>1 DEF FeeGap, TaxGap, PolicyTax, PolicyFee
  <2>4. UnitemisedAdjustments(b)' = {}
    <3>1. CASE diff = 0
      BY <1>3, <2>1, <3>1 DEF UnitemisedAdjustments, Itemised, Clean
    <3>2. CASE diff # 0
      <4>1. adjustments' = adjustments \cup {adj} /\ items' = items \cup {j}
        BY <1>3, <3>2
      <4>2. Itemised(b, "ADJUSTMENT") \cup {adj.id} \subseteq Itemised(b, "ADJUSTMENT")'
        BY <1>4, <4>1 DEF Itemised, OfType, ItemsIn
      <4> QED
        BY <2>1, <4>1, <4>2 DEF UnitemisedAdjustments, Clean
    <3> QED
      BY <3>1, <3>2
  <2>5. InPeriodRefunds(b)' = InPeriodRefunds(b) /\ \A q : RefundItem(b, q)' = RefundItem(b, q)
    BY <1>1 DEF InPeriodRefunds, RefundItem
  <2>6. OfType(ItemsIn(items', b), "REFUND") = {RefundItem(b, q) : q \in InPeriodRefunds(b)}
    BY <2>1, <2>2 DEF Clean
  <2>7. OfType(ItemsIn(items, b), "REFUND")' = {RefundItem(b, q) : q \in InPeriodRefunds(b)}'
    BY <2>5, <2>6
  <2>8. \A k \in PaymentItems(b)' : FeeGap(k)' = 0 /\ TaxGap(k)' = 0
    BY <2>1, <2>2, <2>3 DEF Clean
  <2> QED
    BY <2>4, <2>7, <2>8 DEF Clean
<1>11. Silent(Diagnose1(b)')
  <2>1. SilentWhenClean'
    BY CleanStaysSilent, PTL
  <2>2. (header[b] = Rollup(items, b))'
    BY PairedAddsUp
  <2> QED
    BY <1>10, <2>1, <2>2 DEF SilentWhenClean, Silent, CleanInv
<1> QED
  BY <1>8, <1>9, <1>11 DEF Diagnosed1, Silent
-----------------------------------------------------------------------------
\* What is drawn and numbered stays so.

LEMMA NumberedSame ==
    ASSUME Numbered, UNCHANGED adjustments,
           \A i \in items' : i.type = "ADJUSTMENT" => i \in items
    PROVE  Numbered'
  BY DEF Numbered

LEMMA NumberedOneMore ==
    ASSUME Numbered, NEW s, NEW a, a.settlement = s, a.id = <<"ADJ", s, NextAdjustment(s)>>,
           adjustments' = adjustments \cup {a},
           \A i \in items' : i.type = "ADJUSTMENT" => i \in items \/ i.ref = a.id
    PROVE  Numbered'
<1> DEFINE Of(A, x) == {b \in A : b.settlement = x}
<1>1. IsFiniteSet(adjustments) /\ IsFiniteSet(adjustments') /\ a \notin adjustments
  BY FreshNumber, FS_AddElement DEF Numbered
<1>2. PICK n : n = NextAdjustment(s)
  OBVIOUS
<1>3. n = Cardinality(Of(adjustments, s)) + 1
  BY <1>2 DEF NextAdjustment
<1>4. /\ Of(adjustments', s) = Of(adjustments, s) \cup {a} /\ a \notin Of(adjustments, s)
      /\ \A x : x # s => Of(adjustments', x) = Of(adjustments, x)
      /\ IsFiniteSet(Of(adjustments, s))
  BY <1>1, FS_Subset
<1>5. Cardinality(Of(adjustments', s)) = n /\ n \in Nat /\ n >= 1
      /\ Cardinality(Of(adjustments, s)) \in Nat
  <2>1. Cardinality(Of(adjustments, s)) \in Nat
    BY <1>4, FS_CardinalityType
  <2>2. Cardinality(Of(adjustments, s) \cup {a}) = Cardinality(Of(adjustments, s)) + 1
    BY <1>4, FS_AddElement
  <2>3. PICK c, m : c = Cardinality(Of(adjustments, s)) /\ m = Cardinality(Of(adjustments', s))
    OBVIOUS
  <2>4. c \in Nat /\ m = c + 1 /\ n = c + 1
    BY <1>3, <1>4, <2>1, <2>2, <2>3
  <2>5. m = n /\ n \in Nat /\ n >= 1
    BY <2>4
  <2> QED
    BY <2>1, <2>3, <2>5
<1>6. ASSUME NEW b \in adjustments'
      PROVE  /\ b.id = <<"ADJ", b.settlement, b.id[3]>>
             /\ b.id[3] \in 1 .. Cardinality(Of(adjustments', b.settlement))
  <2>1. CASE b = a
    BY <1>2, <1>5, <2>1, SMTT(20)
  <2>2. CASE b # a
    <3>1. /\ b \in adjustments /\ b.id = <<"ADJ", b.settlement, b.id[3]>>
          /\ b.id[3] \in 1 .. Cardinality(Of(adjustments, b.settlement))
      BY <1>6, <2>2 DEF Numbered
    <3>2. CASE b.settlement = s
      BY <1>3, <1>5, <3>1, <3>2
    <3>3. CASE b.settlement # s
      BY <1>4, <3>1, <3>3
    <3> QED
      BY <3>1, <3>2, <3>3
  <2> QED
    BY <2>1, <2>2
<1>7. \A i \in items' : i.type = "ADJUSTMENT" => \E b \in adjustments' : i.ref = b.id
  BY DEF Numbered
<1> QED
  BY <1>1, <1>6, <1>7 DEF Numbered

LEMMA DrawnSame ==
    ASSUME Drawn, UNCHANGED payments, \A r \in refunds' \ refunds : r.amount >= 0
    PROVE  Drawn'
  BY DEF Drawn, PaymentDrawn

LEMMA TablesKeepDrawn ==
    ASSUME Drawn, Numbered, UNCHANGED <<payments, refunds, adjustments, items>>
    PROVE  Drawn' /\ Numbered'
  BY DrawnSame, NumberedSame

\* A planter that exchanges an item of another type leaves the numbers alone.
LEMMA NoAdjustmentPlanted ==
    ASSUME Numbered, UNCHANGED adjustments, NEW gone, NEW j, j.type # "ADJUSTMENT",
           items' = (items \ gone) \cup {j}
    PROVE  Numbered'
  BY NumberedSame

LEMMA DriftNumbered ==
    ASSUME CleanInv, Numbered, NEW s \in Settlement, NEW i \in CardItems(s)
    PROVE  Drift(i).type # "ADJUSTMENT"
<1>1. Drift(i).type = i.type
  BY DEF Drift
<1> QED
  BY <1>1 DEF CardItems, PaymentItems, OfType, ItemsIn

LEMMA ItemPlantersDrawn ==
    ASSUME Delta1Inv, NEW s \in Settlement,
           FeeRateDrift(s) \/ TaxAggregateRounding(s) \/ RefundNotDeducted(s)
    PROVE  Drawn' /\ Numbered'
<1>1. UNCHANGED <<payments, refunds, adjustments>>
  BY DEF FeeRateDrift, TaxAggregateRounding, RefundNotDeducted
<1>2. Drawn'
  BY <1>1, DrawnSame DEF Delta1Inv
<1>3. CASE FeeRateDrift(s)
  <2>1. PICK i \in CardItems(s) : items' = (items \ {i}) \cup {Drift(i)}
    BY <1>3 DEF FeeRateDrift, Largest, Itemise
  <2>2. PICK j : j = Drift(i)
    OBVIOUS
  <2>3. j.type # "ADJUSTMENT" /\ items' = (items \ {i}) \cup {j}
    BY <2>1, <2>2, DriftNumbered DEF Delta1Inv
  <2> QED
    BY <1>1, <1>2, <2>3, NoAdjustmentPlanted DEF Delta1Inv
<1>4. CASE TaxAggregateRounding(s)
  <2>1. PICK i, j, diff : /\ i \in PaymentItems(s) /\ j = [i EXCEPT !.tax = @ + diff]
                          /\ items' = (items \ {i}) \cup {j}
    BY <1>4 DEF TaxAggregateRounding, Largest, Itemise
  <2>2. j.type # "ADJUSTMENT"
    BY <2>1 DEF PaymentItems, OfType, ItemsIn
  <2> QED
    BY <1>1, <1>2, <2>1, <2>2, NoAdjustmentPlanted DEF Delta1Inv
<1>5. CASE RefundNotDeducted(s)
  <2>1. items' \subseteq items
    BY <1>5 DEF RefundNotDeducted, Itemise
  <2> QED
    BY <1>1, <1>2, <2>1, NumberedSame DEF Delta1Inv
<1> QED
  BY <1>3, <1>4, <1>5

LEMMA RefundPlantersDrawn ==
    ASSUME Delta1Inv, NEW s \in Settlement, NEW later \in Settlement,
           RefundPartialMulti(s) \/ RefundOutsidePeriod(s, later) \/ RefundOutsideWindow(s)
    PROVE  Drawn' /\ Numbered'
<1>1. UNCHANGED <<payments, adjustments>>
  <2>1. CASE RefundPartialMulti(s)
    BY <2>1 DEF RefundPartialMulti
  <2>2. CASE RefundOutsidePeriod(s, later)
    BY <2>2 DEF RefundOutsidePeriod
  <2>3. CASE RefundOutsideWindow(s)
    BY <2>3 DEF RefundOutsideWindow
  <2> QED
    BY <2>1, <2>2, <2>3
<1>2. PICK p : p \in DOMAIN payments /\ \A r \in refunds' \ refunds :
             \E rate \in Nat : \E n, period : r = PartialRefund(p, n, rate, period)
  <2>1. \A i \in PaymentItems(s) : i.ref[1] \in DOMAIN payments
    BY PaymentItemTyped DEF Delta1Inv, CleanInv
  <2>2. CASE RefundPartialMulti(s)
    <3>1. PICK i \in PaymentItems(s) :
             refunds' = refunds \cup {PartialRefund(i.ref[1], 1, 2000, s), PartialRefund(i.ref[1], 2, 1500, s)}
      BY <2>2 DEF RefundPartialMulti
    <3> QED
      BY <2>1, <3>1
  <2>3. CASE RefundOutsidePeriod(s, later)
    <3>1. PICK i \in PaymentItems(s) : refunds' = refunds \cup {PartialRefund(i.ref[1], 1, 4000, later)}
      BY <2>3 DEF RefundOutsidePeriod, Largest, NeverRefunded
    <3> QED
      BY <2>1, <3>1
  <2>4. CASE RefundOutsideWindow(s)
    <3>1. PICK i \in PaymentItems(s) : refunds' = refunds \cup {PartialRefund(i.ref[1], 1, 4000, s + 1)}
      BY <2>4 DEF RefundOutsideWindow, Largest, NeverRefunded
    <3> QED
      BY <2>1, <3>1
  <2> QED
    BY <2>2, <2>3, <2>4
<1>3. Drawn'
  <2>1. \A r \in refunds' \ refunds : r.amount >= 0
    BY <1>2, PartialRefundDrawn DEF Delta1Inv, CleanInv
  <2> QED
    BY <1>1, <2>1, DrawnSame DEF Delta1Inv
<1>4. \A i \in items' \ items : i.type = "REFUND"
  <2>1. \A x, r : RefundItem(x, r).type = "REFUND"
    BY RefundItemNames
  <2>2. CASE RefundPartialMulti(s)
    <3>1. PICK r : items' = items \cup {RefundItem(s, r)}
      BY <2>2 DEF RefundPartialMulti, Itemise
    <3> QED
      BY <2>1, <3>1
  <2>3. CASE RefundOutsidePeriod(s, later)
    <3>1. PICK r : items' = items \cup {RefundItem(later, r)}
      BY <2>3 DEF RefundOutsidePeriod, Itemise
    <3> QED
      BY <2>1, <3>1
  <2>4. CASE RefundOutsideWindow(s)
    BY <2>4 DEF RefundOutsideWindow
  <2> QED
    BY <2>2, <2>3, <2>4
<1> QED
  BY <1>1, <1>3, <1>4, NumberedSame DEF Delta1Inv

LEMMA HeaderPlantersDrawn ==
    ASSUME Delta1Inv, NEW s \in Settlement,
           \/ HeaderRollupMismatch(s) \/ PhantomDebit(s) \/ AdjustmentApplied(s)
           \/ FeeCorrectedByAdjustment(s)
    PROVE  Drawn' /\ Numbered'
<1>1. UNCHANGED <<payments, refunds>>
  BY DEF HeaderRollupMismatch, PhantomDebit, AdjustmentApplied, FeeCorrectedByAdjustment
<1>2. Drawn'
  BY <1>1, DrawnSame DEF Delta1Inv
<1>3. CASE HeaderRollupMismatch(s) \/ PhantomDebit(s)
  <2>1. UNCHANGED <<adjustments, items>>
    BY <1>3 DEF HeaderRollupMismatch, PhantomDebit
  <2> QED
    BY <1>2, <2>1, NumberedSame DEF Delta1Inv
<1>4. CASE AdjustmentApplied(s)
  <2>1. PICK amount, a : /\ a = Adjustment(s, NextAdjustment(s), "CHARGEBACK", -amount, 0)
                         /\ adjustments' = adjustments \cup {a} /\ UNCHANGED items
    BY <1>4 DEF AdjustmentApplied
  <2>2. a.settlement = s /\ a.id = <<"ADJ", s, NextAdjustment(s)>>
    BY <2>1 DEF Adjustment
  <2> QED
    BY <1>2, <2>1, <2>2, NumberedOneMore DEF Delta1Inv
<1>5. CASE FeeCorrectedByAdjustment(s)
  <2>1. PICK i, c, a : /\ i \in CardItems(s)
                       /\ a = Adjustment(s, NextAdjustment(s), "FEE_CORRECTION", c, i.ref[1])
                       /\ adjustments' = adjustments \cup {a}
                       /\ items' = (items \ {i}) \cup {Drift(i)}
    BY <1>5 DEF FeeCorrectedByAdjustment, Largest
  <2>2. a.settlement = s /\ a.id = <<"ADJ", s, NextAdjustment(s)>>
    BY <2>1 DEF Adjustment
  <2>3. Drift(i).type # "ADJUSTMENT"
    BY <2>1, DriftNumbered DEF Delta1Inv
  <2> QED
    BY <1>2, <2>1, <2>2, <2>3, NumberedOneMore DEF Delta1Inv
<1> QED
  BY <1>3, <1>4, <1>5

LEMMA SameAmountSameDayDrawn ==
    ASSUME Delta1Inv, NEW a \in Settlement, NEW b \in Settlement, SameAmountSameDay(a, b)
    PROVE  Drawn' /\ Numbered'
<1>1. UNCHANGED <<payments, refunds>>
  BY DEF SameAmountSameDay
<1>2. Drawn'
  BY <1>1, DrawnSame DEF Delta1Inv
<1>3. PICK diff, adj, j :
          /\ diff = header[a].net - header[b].net
          /\ adj = Adjustment(b, NextAdjustment(b), "MANUAL", diff, 0)
          /\ j = Item(b, "ADJUSTMENT", adj.id, diff, 0, 0)
  OBVIOUS
<1>4. /\ adjustments' = IF diff = 0 THEN adjustments ELSE adjustments \cup {adj}
      /\ items' = IF diff = 0 THEN items ELSE items \cup {j}
  BY <1>3 DEF SameAmountSameDay
<1>5. adj.settlement = b /\ adj.id = <<"ADJ", b, NextAdjustment(b)>> /\ j.ref = adj.id
  BY <1>3 DEF Adjustment, Item
<1>6. CASE diff = 0
  BY <1>2, <1>4, <1>6, NumberedSame DEF Delta1Inv
<1>7. CASE diff # 0
  BY <1>2, <1>4, <1>5, <1>7, NumberedOneMore DEF Delta1Inv
<1> QED
  BY <1>6, <1>7

\* The other steps write nothing delta 1 reads, and no row of it.
Quiet == /\ UNCHANGED <<payments, refunds, adjustments, items, header>>
         /\ claimed \subseteq claimed' /\ truth \subseteq truth'
         /\ \A g \in truth' \ truth : g.kind # "D1_COMPUTE" \/ g.expects = "NONE"

LEMMA QuietStepsTell ==
    ASSUME Delta1Inv, CleanInv', Quiet
    PROVE  Diagnosed1' /\ Drawn' /\ Numbered'
  BY TablesKeepTold, TablesKeepDrawn DEF Delta1Inv, Quiet

LEMMA PayoutIsQuiet ==
    ASSUME PayoutNext
    PROVE  Quiet
<1>1. PICK a \in SettledAllocs :
          AllocExceeds(a) \/ AllocDiverges(a) \/ TransferMissing(a) \/ PhantomPayoutGap(a)
  BY DEF PayoutNext
<1>2. \A type, x, row : Plant(type, x, row) /\ row.kind = "D4_PAYOUT" => Quiet
  BY DEF Plant, tables, Quiet
<1>3. \A type, x, expects, amount, resolvable :
          PayoutTruth(type, x, expects, amount, resolvable).kind = "D4_PAYOUT"
  BY DEF PayoutTruth, Truth
<1>4. CASE AllocExceeds(a)
  BY <1>2, <1>3, <1>4 DEF AllocExceeds
<1>5. CASE AllocDiverges(a)
  BY <1>5 DEF AllocDiverges, Plant, PayoutTruth, Truth, tables, Quiet
<1>6. CASE TransferMissing(a)
  BY <1>2, <1>3, <1>6 DEF TransferMissing
<1>7. CASE PhantomPayoutGap(a)
  BY <1>7 DEF PhantomPayoutGap, Plant, PayoutTruth, Truth, tables, Quiet
<1> QED
  BY <1>1, <1>4, <1>5, <1>6, <1>7

LEMMA BankAndLedgerAreQuiet ==
    ASSUME NEW s \in Settlement,
           \/ BankLine(s, "D2_BANK_LINE") \/ BankLine(s, "UNRESOLVABLE_AMBIGUOUS_CREDIT")
           \/ DuplicateLedger(s) \/ MissingLedger(s) \/ WrongAccount(s)
    PROVE  Quiet
<1>1. CASE BankLine(s, "D2_BANK_LINE")
  BY <1>1 DEF BankLine, Claim, tables, Quiet
<1>2. CASE BankLine(s, "UNRESOLVABLE_AMBIGUOUS_CREDIT")
  BY <1>2 DEF BankLine, Claim, tables, Quiet
<1>3. \A type, subject, expects, amount :
          Truth(type, subject, s, "D3_LEDGER", expects, amount, TRUE).kind = "D3_LEDGER"
  BY DEF Truth
<1>4. CASE DuplicateLedger(s)
  BY <1>3, <1>4 DEF DuplicateLedger, Quiet
<1>5. CASE MissingLedger(s)
  BY <1>3, <1>5 DEF MissingLedger, Quiet
<1>6. CASE WrongAccount(s)
  BY <1>3, <1>6 DEF WrongAccount, Quiet
<1> QED
  BY <1>1, <1>2, <1>4, <1>5, <1>6

LEMMA OtherStepsTell ==
    ASSUME Delta1Inv, CleanInv',
           UNCHANGED vars \/ PayoutNext \/ Reconcile \/ BuildLedger \/ Persist
    PROVE  Diagnosed1' /\ Drawn' /\ Numbered'
<1>1. UNCHANGED vars => Quiet
  BY DEF vars, bookVars, tables, Quiet
<1>2. Reconcile => Quiet
  BY DEF Reconcile, bookVars, tables, Quiet
<1>3. BuildLedger => Quiet
  BY DEF BuildLedger, Quiet
<1>4. Persist => Quiet
  BY DEF Persist, tables, Quiet
<1> QED
  BY <1>1, <1>2, <1>3, <1>4, PayoutIsQuiet, QuietStepsTell

LEMMA Delta1Step == Delta1Inv /\ [Next]_vars => Delta1Inv'
<1> SUFFICES ASSUME Delta1Inv, [Next]_vars, CleanInv' PROVE Diagnosed1' /\ Drawn' /\ Numbered'
  BY CleanStep DEF Delta1Inv
<1>1. ASSUME NEW s \in Settlement,
             FeeRateDrift(s) \/ TaxAggregateRounding(s) \/ RefundNotDeducted(s)
      PROVE  Diagnosed1' /\ Drawn' /\ Numbered'
  BY <1>1, ItemPlantersDrawn, FeeRateDriftTold, TaxAggregateRoundingTold, RefundNotDeductedTold
<1>2. ASSUME NEW s \in Settlement, NEW x \in Settlement,
             RefundPartialMulti(s) \/ RefundOutsidePeriod(s, x) \/ RefundOutsideWindow(s)
      PROVE  Diagnosed1' /\ Drawn' /\ Numbered'
  BY <1>2, RefundPlantersDrawn, RefundPartialMultiTold, RefundOutsidePeriodTold, RefundOutsideWindowTold
<1>3. ASSUME NEW s \in Settlement,
             \/ HeaderRollupMismatch(s) \/ PhantomDebit(s) \/ AdjustmentApplied(s)
             \/ FeeCorrectedByAdjustment(s)
      PROVE  Diagnosed1' /\ Drawn' /\ Numbered'
  BY <1>3, HeaderPlantersDrawn, HeaderRollupMismatchTold, PhantomDebitTold, AdjustmentAppliedTold,
     FeeCorrectedTold
<1>4. ASSUME NEW a \in Settlement, NEW b \in Settlement, SameAmountSameDay(a, b)
      PROVE  Diagnosed1' /\ Drawn' /\ Numbered'
  BY <1>4, SameAmountSameDayDrawn, SameAmountSameDayTold
<1>5. CASE BookNext
  <2>1. CASE BuildLedger \/ Persist
    BY <2>1, OtherStepsTell
  <2>2. ASSUME NEW s \in Settlement,
               \/ BankLine(s, "D2_BANK_LINE") \/ BankLine(s, "UNRESOLVABLE_AMBIGUOUS_CREDIT")
               \/ DuplicateLedger(s) \/ MissingLedger(s) \/ WrongAccount(s)
        PROVE  Diagnosed1' /\ Drawn' /\ Numbered'
    BY <2>2, BankAndLedgerAreQuiet, QuietStepsTell
  <2>3. CASE BuildLedger \/ Persist
    BY <2>1, <2>3
  <2>4. CASE ~ (BuildLedger \/ Persist)
    <3>1. PICK s \in Settlement :
            \/ FeeRateDrift(s) \/ TaxAggregateRounding(s) \/ RefundNotDeducted(s)
            \/ RefundPartialMulti(s) \/ RefundOutsideWindow(s) \/ HeaderRollupMismatch(s)
            \/ AdjustmentApplied(s) \/ FeeCorrectedByAdjustment(s) \/ PhantomDebit(s)
            \/ BankLine(s, "D2_BANK_LINE") \/ BankLine(s, "UNRESOLVABLE_AMBIGUOUS_CREDIT")
            \/ DuplicateLedger(s) \/ MissingLedger(s) \/ WrongAccount(s)
            \/ \E x \in Settlement : RefundOutsidePeriod(s, x) \/ SameAmountSameDay(s, x)
      BY <1>5, <2>4 DEF BookNext
    <3>2. CASE FeeRateDrift(s) \/ TaxAggregateRounding(s) \/ RefundNotDeducted(s)
      BY <1>1, <3>2
    <3>3. CASE RefundPartialMulti(s) \/ RefundOutsideWindow(s)
      BY <1>2, <3>3
    <3>4. CASE \/ HeaderRollupMismatch(s) \/ PhantomDebit(s) \/ AdjustmentApplied(s)
               \/ FeeCorrectedByAdjustment(s)
      BY <1>3, <3>4
    <3>5. CASE \E x \in Settlement : RefundOutsidePeriod(s, x) \/ SameAmountSameDay(s, x)
      BY <1>2, <1>4, <3>5
    <3>6. CASE \/ BankLine(s, "D2_BANK_LINE") \/ BankLine(s, "UNRESOLVABLE_AMBIGUOUS_CREDIT")
               \/ DuplicateLedger(s) \/ MissingLedger(s) \/ WrongAccount(s)
      BY <2>2, <3>6
    <3> QED
      BY <3>1, <3>2, <3>3, <3>4, <3>5, <3>6
  <2> QED
    BY <2>3, <2>4
<1>6. CASE UNCHANGED vars \/ PayoutNext \/ Reconcile
  BY <1>6, OtherStepsTell
<1> QED
  BY <1>5, <1>6 DEF Next

LEMMA InitDrawn == Init => Drawn /\ Numbered
<1> SUFFICES ASSUME NEW book \in Books, payments = book.payments, refunds = book.refunds,
                    adjustments = book.adjustments, items = CleanItems(book)
             PROVE  Drawn /\ Numbered
  BY DEF Init
<1>1. Drawn
  <2>1. \A p \in DOMAIN payments : PaymentDrawn(p)
    BY DrawnAssumption DEF PaymentDrawn
  <2>2. \A r \in refunds : r.amount >= 0
    <3>1. \A r \in refunds : r.amount > 0 /\ r.amount \in Int
      BY DrawnAssumption, BooksAssumption
    <3> QED
      BY <3>1
  <2> QED
    BY <2>1, <2>2 DEF Drawn
<1>2. \A i \in items : i.type = "ADJUSTMENT" => \E a \in adjustments : i.ref = a.id
  <2>1. \A i \in CleanPaymentItems(book) : i.type # "ADJUSTMENT"
    BY DEF CleanPaymentItems, PaymentItem, Item
  <2>2. \A s, r : RefundItem(s, r).type # "ADJUSTMENT"
    BY DEF RefundItem, Item
  <2>3. \A a : Item(a.settlement, "ADJUSTMENT", a.id, a.amount, 0, 0).ref = a.id
    BY DEF Item
  <2> QED
    BY <2>1, <2>2, <2>3 DEF CleanItems
<1>3. IsFiniteSet(adjustments)
  BY BooksAssumption
<1>4. \A a \in adjustments :
        /\ a.id = <<"ADJ", a.settlement, a.id[3]>>
        /\ a.id[3] \in 1 .. Cardinality({b \in adjustments : b.settlement = a.settlement})
  <2>1. \A a \in book.adjustments :
          /\ a.id = <<"ADJ", a.settlement, a.id[3]>>
          /\ a.id[3] \in 1 .. Cardinality({b \in book.adjustments : b.settlement = a.settlement})
    BY NumberAssumption
  <2> QED
    BY <2>1
<1> QED
  BY <1>1, <1>2, <1>3, <1>4 DEF Numbered

LEMMA Delta1Init == BatchInit => Delta1Inv
<1> SUFFICES ASSUME BatchInit PROVE Delta1Inv
  OBVIOUS
<1>1. CleanInv /\ Drawn /\ Numbered
  BY InitClean, InitDrawn DEF BatchInit
<1>2. \A s \in Settlement : Rows1(s) = {}
  BY DEF BatchInit, Init, Rows1, Expecting
<1>3. \A s \in Settlement : Silent(Diagnose1(s))
  <2>1. claimed = {}
    BY DEF BatchInit, Init
  <2>2. \A s \in Settlement : Typed /\ Clean(s) /\ header[s] = Rollup(items, s)
    BY <1>1, <2>1 DEF CleanInv, CleanOthers, IInv, HeadersRollUp
  <2> QED
    BY <2>2, CleanStaysSilent DEF SilentWhenClean
<1> QED
  BY <1>1, <1>2, <1>3 DEF Delta1Inv, Diagnosed1

\* At every moment delta 1 tells of a settlement what its planters planted: each defect
\* under its own name, to the paisa and on deterministic evidence, each debit that nothing
\* explains as that many paise unexplained, and nothing on any other settlement.
THEOREM Delta1AlwaysTells == Spec => []Diagnosed1
<1>1. Delta1Inv => Diagnosed1
  BY DEF Delta1Inv
<1> QED
  BY <1>1, Delta1Init, Delta1Step, PTL DEF Spec

(***************************************************************************)
(* Delta 4 tells what its planters planted.                                *)
(***************************************************************************)

MissingFinds(a) ==
    IF Owed(a) # 0 /\ Processed(a) = {} THEN {Attribution("allocation", a.id, Owed(a))} ELSE {}
DivergenceFinds(a) ==
    IF Owed(a) = 0 \/ Processed(a) = {} THEN {}
    ELSE {Attribution("transfer", t.id, Owed(a)) : t \in FirstOf(Returned(a))}

LEMMA PayoutRulesUnfolded ==
    ASSUME NEW a, NEW rules, rules = PayoutRules(a)
    PROVE  /\ DOMAIN rules = 1 .. 2 /\ DOMAIN rules \subseteq Nat
           /\ Rule(rules[1], "TRANSFER_MISSING", MissingFinds(a))
           /\ Rule(rules[2], "ALLOCATION_TRANSFER_DIVERGENCE", DivergenceFinds(a))
<1>1. rules = << [label |-> "TRANSFER_MISSING", found |-> MissingFinds(a)],
                 [label |-> "ALLOCATION_TRANSFER_DIVERGENCE", found |-> DivergenceFinds(a)] >>
  BY ZenonT(60) DEF PayoutRules, MissingFinds, DivergenceFinds
<1> QED
  BY <1>1 DEF Rule

\* What is said of an allocation: that amount, under that label, and what is left of it.
PayoutTold(a, label, delta, residual) ==
    LET d == DiagnosePayout(a)
    IN  d.label = label /\ d.delta = delta /\ d.residual = residual

LEMMA AttributionFields ==
    \A type, id, amount : Attribution(type, id, amount).amount = amount
  BY DEF Attribution

LEMMA NothingOwed ==
    ASSUME NEW a, Owed(a) = 0
    PROVE  DiagnosePayout(a).delta = 0 /\ DiagnosePayout(a).label = "NONE"
<1>1. PICK rules : rules = PayoutRules(a)
  OBVIOUS
<1>2. DOMAIN rules = 1 .. 2 /\ rules[1].found = {} /\ rules[2].found = {}
  BY <1>1, PayoutRulesUnfolded DEF Rule, MissingFinds, DivergenceFinds
<1>3. Silent(Verdict(0, rules, "PHANTOM_PAYOUT_GAP"))
  BY <1>2, NoFindingIsSilent
<1> QED
  BY <1>1, <1>3 DEF Silent, DiagnosePayout

LEMMA NoTransferTold ==
    ASSUME NEW a, Owed(a) \in Int \ {0}, Processed(a) = {}
    PROVE  PayoutTold(a, "TRANSFER_MISSING", Owed(a), 0)
<1>1. PICK rules, owed : rules = PayoutRules(a) /\ owed = Owed(a)
  OBVIOUS
<1>2. PICK x : x = Attribution("allocation", a.id, owed)
  OBVIOUS
<1>3. /\ DOMAIN rules = 1 .. 2 /\ DOMAIN rules \subseteq Nat
      /\ rules[1].found = {x} /\ rules[2].found = {} /\ rules[1].label = "TRANSFER_MISSING"
  BY <1>1, <1>2, PayoutRulesUnfolded DEF Rule, MissingFinds, DivergenceFinds
<1>4. AmountSum(rules[1].found) = owed
  BY <1>1, <1>2, <1>3, AttributionFields, AmountOfOne
<1>5. PICK k : k = 1
  OBVIOUS
<1>6. /\ k \in DOMAIN rules /\ rules[k].found # {} /\ owed \in Int
      /\ \A j \in DOMAIN rules \ {k} : rules[j].found = {}
      /\ AmountSum(rules[k].found) = owed
  BY <1>1, <1>3, <1>4, <1>5
<1>7. LET d == Verdict(owed, rules, "PHANTOM_PAYOUT_GAP")
      IN  d.delta = owed /\ d.label = rules[k].label /\ d.residual = 0
  BY <1>3, <1>6, OneRuleDecides
<1> QED
  BY <1>1, <1>3, <1>5, <1>7 DEF PayoutTold, DiagnosePayout

LEMMA ReturnedTold ==
    ASSUME NEW a, Owed(a) \in Int \ {0}, Processed(a) # {}, NEW back, FirstOf(Returned(a)) = {back}
    PROVE  PayoutTold(a, "ALLOCATION_TRANSFER_DIVERGENCE", Owed(a), 0)
<1>1. PICK rules, owed : rules = PayoutRules(a) /\ owed = Owed(a)
  OBVIOUS
<1>2. PICK x : x = Attribution("transfer", back.id, owed)
  OBVIOUS
<1>3. DivergenceFinds(a) = {x} /\ MissingFinds(a) = {}
  BY <1>1, <1>2 DEF MissingFinds, DivergenceFinds
<1>4. /\ DOMAIN rules = 1 .. 2 /\ DOMAIN rules \subseteq Nat
      /\ rules[1].found = {} /\ rules[2].found = {x}
      /\ rules[2].label = "ALLOCATION_TRANSFER_DIVERGENCE"
  BY <1>1, <1>3, PayoutRulesUnfolded DEF Rule
<1>5. AmountSum(rules[2].found) = owed
  BY <1>1, <1>2, <1>4, AttributionFields, AmountOfOne
<1>6. PICK k : k = 2
  OBVIOUS
<1>7. /\ k \in DOMAIN rules /\ rules[k].found # {} /\ owed \in Int
      /\ \A j \in DOMAIN rules \ {k} : rules[j].found = {}
      /\ AmountSum(rules[k].found) = owed
  BY <1>1, <1>4, <1>5, <1>6
<1>8. LET d == Verdict(owed, rules, "PHANTOM_PAYOUT_GAP")
      IN  d.delta = owed /\ d.label = rules[k].label /\ d.residual = 0
  BY <1>4, <1>7, OneRuleDecides
<1> QED
  BY <1>1, <1>4, <1>6, <1>8 DEF PayoutTold, DiagnosePayout

LEMMA NothingReturnedTold ==
    ASSUME NEW a, Owed(a) \in Int \ {0}, Processed(a) # {}, Returned(a) = {}
    PROVE  PayoutTold(a, "PHANTOM_PAYOUT_GAP", Owed(a), Owed(a))
<1>1. PICK rules, owed : rules = PayoutRules(a) /\ owed = Owed(a)
  OBVIOUS
<1>2. DivergenceFinds(a) = {} /\ MissingFinds(a) = {}
  BY DEF MissingFinds, DivergenceFinds, FirstOf
<1>3. \A j \in DOMAIN rules : rules[j].found = {}
  BY <1>1, <1>2, PayoutRulesUnfolded DEF Rule
<1>4. LET d == Verdict(owed, rules, "PHANTOM_PAYOUT_GAP")
      IN  d.delta = owed /\ d.label = "PHANTOM_PAYOUT_GAP" /\ d.residual = owed
  BY <1>1, <1>3, NoRuleDecides
<1> QED
  BY <1>1, <1>4 DEF PayoutTold, DiagnosePayout

LEMMA SameMovesSameDiagnosis ==
    ASSUME NEW a, Moved(a)' = Moved(a)
    PROVE  DiagnosePayout(a)' = DiagnosePayout(a)
<1>1. Processed(a)' = Processed(a)
  BY DEF Processed
<1>2. Owed(a)' = Owed(a)
  BY <1>1 DEF Owed
<1>3. FirstOf(Returned(a))' = FirstOf(Returned(a))
  BY <1>2 DEF FirstOf, Returned
<1>4. PayoutRules(a)' = PayoutRules(a)
  BY <1>1, <1>2, <1>3 DEF PayoutRules
<1> QED
  BY <1>2, <1>4 DEF DiagnosePayout

\* What the diagnosis of an excess says.
LEMMA ExcessIsTold ==
    ASSUME NEW p, NEW delta \in Int, delta = payments[p].amount - Promised(p)
    PROVE  LET d == DiagnoseExcess(p)
           IN  d.delta = delta /\ d.label = "ALLOCATION_EXCEEDS_PAYMENT" /\ d.residual = 0
<1>1. PICK x, k : x = Attribution("allocation_excess", <<p>>, delta) /\ k = 1
  OBVIOUS
<1>2. PICK rules : rules = << [label |-> "ALLOCATION_EXCEEDS_PAYMENT", found |-> {x}] >>
  OBVIOUS
<1>3. AmountSum({x}) = delta
  BY <1>1, AttributionFields, AmountOfOne
<1>4. /\ DOMAIN rules \subseteq Nat /\ k \in DOMAIN rules /\ rules[k].found = {x}
      /\ rules[k].label = "ALLOCATION_EXCEEDS_PAYMENT"
      /\ \A j \in DOMAIN rules \ {k} : rules[j].found = {}
  BY <1>1, <1>2
<1>5. /\ k \in DOMAIN rules /\ rules[k].found # {} /\ delta \in Int
      /\ \A j \in DOMAIN rules \ {k} : rules[j].found = {}
      /\ AmountSum(rules[k].found) = delta
  BY <1>3, <1>4
<1>6. LET d == Verdict(delta, rules, "NONE")
      IN  d.delta = delta /\ d.label = rules[k].label /\ d.residual = 0
  <2>1. DOMAIN rules \subseteq Nat
    BY <1>4
  <2> QED
    BY <1>5, <2>1, OneRuleDecides
<1>7. DiagnoseExcess(p) = Verdict(delta, rules, "NONE")
  <2>1. DiagnoseExcess(p)
          = Verdict(payments[p].amount - Promised(p),
                    << [label |-> "ALLOCATION_EXCEEDS_PAYMENT",
                        found |-> {Attribution("allocation_excess", <<p>>,
                                               payments[p].amount - Promised(p))}] >>, "NONE")
    BY ZenonT(60) DEF DiagnoseExcess
  <2>2. DiagnoseExcess(p) = Verdict(delta, << [label |-> "ALLOCATION_EXCEEDS_PAYMENT", found |-> {x}] >>, "NONE")
    BY <1>1, <2>1
  <2> QED
    BY <1>2, <2>2
<1> QED
  BY <1>4, <1>6, <1>7
-----------------------------------------------------------------------------
\* What is promised of a payment.
PromisesOf(p) == {a \in allocations : a.payment = p /\ a.status \in {"SETTLED", "PENDING"}}
GrossSum(S) == MapThenSumSet(LAMBDA a : a.gross, S)

PromisesAreGross == \A p : Promised(p) = GrossSum(PromisesOf(p))

LEMMA PromisedIsGross == PromisesAreGross
  BY DEF PromisesAreGross, Promised, GrossSum, PromisesOf
-----------------------------------------------------------------------------
\* The invariant of the payouts.

\* One allocation of a payment to a seller, in whole paise.
Keyed == \A a, b \in allocations : a.id = b.id => a = b
Priced ==
    \A a \in allocations :
        /\ a.payment \in DOMAIN payments /\ a.gross \in Int /\ a.commission \in Int
        /\ Commission[a.seller] \in Nat

\* A payout that nobody took went through in one transfer, of what is owed.
PaidInFull(a) ==
    \E t \in transfers : Moved(a) = {t} /\ t.status = "PROCESSED" /\ t.amount = Net(a)
UntakenPaid == \A a \in SettledAllocs : PaidInFull(a) /\ Net(a) > 0

\* The rows of ground truth of delta 4, and what comes of them.
Rows4  == Expecting("D4_PAYOUT")
IsExcess(g) == g.type = "D4_ALLOC_EXCEEDS_PAYMENT"
Alone(a) == {b \in allocations : b.payment = a.payment} = {a}
Told4(a, g) ==
    LET is == DiagnosePayout(a)
    IN  /\ g.settlement = payments[a.payment].settlement /\ g.amount \in Int /\ g.amount > 0
        /\ IF IsExcess(g)
           THEN /\ is.delta = 0 /\ is.label = "NONE" /\ g.resolvable
                /\ Alone(a) /\ a.gross = payments[a.payment].amount + g.amount
           ELSE /\ is.label = g.expects /\ Abs(is.delta) = g.amount
                /\ Abs(is.residual) = (IF g.resolvable THEN 0 ELSE g.amount)
Row4(a, g) ==
    /\ g.subject = a.id /\ a.id \in claimedAlloc /\ a.status = "SETTLED" /\ Told4(a, g)
    /\ IsExcess(g) <=> g.expects = "ALLOCATION_EXCEEDS_PAYMENT"
Diagnosed4 ==
    /\ \A g \in Rows4 : \E a \in allocations : Row4(a, g)
    /\ \A a \in allocations :
          a.status = "SETTLED" /\ (\A g \in Rows4 : g.subject # a.id)
          => DiagnosePayout(a).delta = 0 /\ DiagnosePayout(a).label = "NONE"

\* Of a payment whose split did not grow no more is promised than was paid.
Grew(p) == \E g \in Rows4 : IsExcess(g) /\ g.subject[2] = p
PromisesKept ==
    \A p \in DOMAIN payments : ~ Grew(p)
        => /\ Promised(p) <= payments[p].amount
           /\ \A a \in allocations : a.payment = p /\ Alone(a) => a.gross = payments[p].amount

PayoutsInv == /\ PaymentsTyped /\ PayoutsWhole /\ Keyed /\ Priced /\ UntakenPaid
              /\ Diagnosed4 /\ PromisesKept
-----------------------------------------------------------------------------
\* A planter takes one payout and writes one row of what it did to it.
LEMMA OneMorePayout ==
    ASSUME PayoutsInv, PayoutsWhole', NEW a \in SettledAllocs, NEW b, NEW g,
           b.id = a.id, b.payment = a.payment, b.gross \in Int, b.commission \in Int,
           b.seller = a.seller,
           allocations' = (allocations \ {a}) \cup {b}, UNCHANGED payments,
           claimedAlloc' = claimedAlloc \cup {a.id},
           \A c \in allocations : c.id # a.id => Moved(c)' = Moved(c),
           truth' = truth \cup {g}, g.kind = "D4_PAYOUT", g.expects # "NONE", Row4(b, g)',
           IsExcess(g) \/ b = a
    PROVE  PayoutsInv'
<1>1. /\ a \in allocations /\ a.status = "SETTLED" /\ a.id \notin claimedAlloc
      /\ Rows4' = Rows4 \cup {g} /\ b \in allocations'
  BY DEF SettledAllocs, Rows4, Expecting
<1>2. \A c \in allocations' : c = b \/ (c \in allocations /\ c.id # a.id /\ c # a)
  <2>1. Keyed /\ allocations' = (allocations \ {a}) \cup {b}
    BY DEF PayoutsInv
  <2> QED
    BY <1>1, <2>1 DEF Keyed
<1>3. \A c \in allocations : c.id # a.id => c \in allocations'
  OBVIOUS
<1>4. PaymentsTyped' /\ Keyed' /\ Priced'
  <2>1. Keyed'
    BY <1>2 DEF PayoutsInv, Keyed
  <2>2. PaymentsTyped'
    BY DEF PayoutsInv, PaymentsTyped
  <2>3. Priced'
    BY <1>1, <1>2 DEF PayoutsInv, Priced
  <2> QED
    BY <2>1, <2>2, <2>3
<1>5. UntakenPaid'
  <2> SUFFICES ASSUME NEW c \in SettledAllocs' PROVE PaidInFull(c)' /\ Net(c) > 0
    BY DEF UntakenPaid
  <2>1. c \in SettledAllocs /\ Moved(c)' = Moved(c)
    BY <1>2 DEF SettledAllocs
  <2>2. PaidInFull(c) /\ Net(c) > 0
    BY <2>1 DEF PayoutsInv, UntakenPaid
  <2>3. PICK t \in transfers : Moved(c) = {t} /\ t.status = "PROCESSED" /\ t.amount = Net(c)
    BY <2>2 DEF PaidInFull
  <2>4. t \in Moved(c)'
    BY <2>1, <2>3
  <2>5. t \in transfers'
    BY <2>4 DEF Moved
  <2> QED
    BY <2>1, <2>2, <2>3, <2>5 DEF PaidInFull
<1>6. ASSUME NEW c \in allocations, c.id # a.id
      PROVE  DiagnosePayout(c)' = DiagnosePayout(c)
  BY <1>6, SameMovesSameDiagnosis
<1>7. Diagnosed4'
  <2>1. ASSUME NEW h \in Rows4
        PROVE  \E c \in allocations' : Row4(c, h)'
    <3>1. PICK c \in allocations : Row4(c, h)
      BY DEF PayoutsInv, Diagnosed4
    <3>2. c.id # a.id /\ c \in allocations'
      BY <1>1, <3>1 DEF Row4
    <3>3. PICK is : is = DiagnosePayout(c) /\ is = DiagnosePayout(c)'
      BY <1>6, <3>2
    <3>4. Alone(c) => Alone(c)'
      BY <1>1, <1>2, <3>2 DEF Alone
    <3>5. Told4(c, h)'
      BY <3>1, <3>3, <3>4 DEF Row4, Told4
    <3> QED
      BY <3>1, <3>2, <3>5 DEF Row4
  <2>2. ASSUME NEW c \in allocations', c.status = "SETTLED", \A h \in Rows4' : h.subject # c.id
        PROVE  DiagnosePayout(c)'.delta = 0 /\ DiagnosePayout(c)'.label = "NONE"
    <3>1. c # b
      BY <1>1, <2>2 DEF Row4
    <3>2. c \in allocations /\ c.id # a.id
      BY <1>2, <3>1
    <3>3. DiagnosePayout(c).delta = 0 /\ DiagnosePayout(c).label = "NONE"
      BY <1>1, <2>2, <3>2 DEF PayoutsInv, Diagnosed4
    <3> QED
      BY <1>6, <3>2, <3>3
  <2> QED
    BY <1>1, <2>1, <2>2 DEF Diagnosed4
<1>8. PromisesKept'
  <2>1. PICK p : p = a.payment
    OBVIOUS
  <2>2. IsExcess(g) => g.subject[2] = p
    <3>1. a.id[2] = p /\ g.subject = a.id
      BY <1>1, <2>1 DEF PayoutsInv, PayoutsWhole, Row, Row4
    <3> QED
      BY <3>1
  <2>3. ASSUME NEW q \in DOMAIN payments, ~ Grew(q)'
        PROVE  /\ Promised(q)' <= payments[q].amount
               /\ \A c \in allocations' : c.payment = q /\ Alone(c)' => c.gross = payments[q].amount
    <3>1. ~ Grew(q)
      BY <1>1, <2>3 DEF Grew
    <3>2. q # p \/ a = b
      <4>1. CASE IsExcess(g)
        BY <1>1, <2>2, <2>3, <4>1 DEF Grew
      <4> QED
        BY <4>1
    <3>3. {c \in allocations' : c.payment = q} = {c \in allocations : c.payment = q}
      BY <1>1, <2>1, <3>2
    <3>4. PromisesOf(q)' = PromisesOf(q)
      BY <1>1, <2>1, <3>2 DEF PromisesOf
    <3>5. Promised(q)' = Promised(q)
      <4>1. PromisesAreGross'
        BY PromisedIsGross, PTL
      <4> QED
        BY <3>4, <4>1, PromisedIsGross DEF PromisesAreGross
    <3>6. ASSUME NEW c \in allocations', c.payment = q
          PROVE  c \in allocations /\ (Alone(c)' => Alone(c))
      <4>1. /\ c \in allocations
            /\ {x \in allocations' : x.payment = c.payment}
                 = {x \in allocations : x.payment = c.payment}
        BY <3>3, <3>6
      <4> QED
        BY <4>1 DEF Alone
    <3> QED
      BY <3>1, <3>5, <3>6 DEF PayoutsInv, PromisesKept
  <2> QED
    BY <2>3 DEF PromisesKept
<1> QED
  BY <1>4, <1>5, <1>7, <1>8 DEF PayoutsInv
-----------------------------------------------------------------------------
\* The planters of payouts.

PayoutsSay ==
    \A a :
        /\ Owed(a) = 0 => DiagnosePayout(a).delta = 0 /\ DiagnosePayout(a).label = "NONE"
        /\ Owed(a) \in Int \ {0} =>
              /\ Processed(a) = {} => PayoutTold(a, "TRANSFER_MISSING", Owed(a), 0)
              /\ Processed(a) # {} /\ Returned(a) = {}
                 => PayoutTold(a, "PHANTOM_PAYOUT_GAP", Owed(a), Owed(a))
              /\ \A back : Processed(a) # {} /\ FirstOf(Returned(a)) = {back}
                 => PayoutTold(a, "ALLOCATION_TRANSFER_DIVERGENCE", Owed(a), 0)

LEMMA PayoutsTold == PayoutsSay
  BY NothingOwed, NoTransferTold, NothingReturnedTold, ReturnedTold DEF PayoutsSay

\* A payout that a planter takes went through in one transfer.
LEMMA OneTransfer ==
    ASSUME PayoutsInv, NEW a \in SettledAllocs
    PROVE  /\ a \in allocations /\ a.id \notin claimedAlloc /\ a.status = "SETTLED" /\ Row(a)
           /\ a.payment \in DOMAIN payments
           /\ a.gross \in Int /\ a.commission \in Int /\ Net(a) \in Int /\ Net(a) > 0
           /\ \A t \in Processed(a) :
                 /\ Moved(a) = {t} /\ Movement(t) /\ t.status = "PROCESSED" /\ t.amount = Net(a)
                 /\ t \in transfers /\ t.payment = a.payment /\ t.seller = a.seller
<1>1. a \in allocations /\ a.id \notin claimedAlloc /\ a.status = "SETTLED"
  BY DEF SettledAllocs
<1>2. Row(a)
  BY <1>1 DEF PayoutsInv, PayoutsWhole
<1>3. a.payment \in DOMAIN payments /\ a.gross \in Int /\ a.commission \in Int
  BY <1>1 DEF PayoutsInv, Priced
<1>4. PaidInFull(a) /\ Net(a) > 0 /\ Net(a) \in Int
  BY <1>3 DEF PayoutsInv, UntakenPaid, Net
<1>5. PICK u \in transfers : Moved(a) = {u} /\ u.status = "PROCESSED" /\ u.amount = Net(a)
  BY <1>4 DEF PaidInFull
<1>6. \A t \in Processed(a) : t = u
  BY <1>5 DEF Processed
<1>7. \A t \in Moved(a) : t.payment = a.payment /\ t.seller = a.seller
  BY DEF Moved
<1>8. Movement(u)
  BY DEF PayoutsInv, PayoutsWhole
<1> QED
  BY <1>1, <1>2, <1>3, <1>4, <1>5, <1>6, <1>7, <1>8

\* What a planter that leaves the split alone has to show.
LEMMA BrokenPayout ==
    ASSUME PayoutsInv, PayoutsWhole', NEW a \in SettledAllocs, NEW g,
           UNCHANGED <<allocations, payments>>, claimedAlloc' = claimedAlloc \cup {a.id},
           \A c \in allocations : c.id # a.id => Moved(c)' = Moved(c),
           truth' = truth \cup {g}, g.kind = "D4_PAYOUT", g.subject = a.id,
           g.settlement = payments[a.payment].settlement, g.amount \in Int, g.amount > 0,
           g.expects \notin {"NONE", "ALLOCATION_EXCEEDS_PAYMENT"}, ~ IsExcess(g),
           NEW rest, rest = IF g.resolvable THEN 0 ELSE g.amount,
           PayoutTold(a, g.expects, g.amount, rest)'
    PROVE  PayoutsInv'
<1>1. a \in allocations /\ a.status = "SETTLED" /\ a.gross \in Int /\ a.commission \in Int
  BY OneTransfer
<1>2. allocations' = (allocations \ {a}) \cup {a}
  BY <1>1
<1>3. Told4(a, g)'
  <2>1. PICK is : is = DiagnosePayout(a)'
    OBVIOUS
  <2>2. /\ is.label = g.expects /\ is.delta = g.amount
        /\ is.residual = (IF g.resolvable THEN 0 ELSE g.amount)
    BY <2>1 DEF PayoutTold
  <2>3. Abs(g.amount) = g.amount /\ Abs(0) = 0
    BY DEF Abs
  <2>4. Abs(is.delta) = g.amount /\ Abs(is.residual) = (IF g.resolvable THEN 0 ELSE g.amount)
    BY <2>2, <2>3
  <2> QED
    BY <2>1, <2>2, <2>4 DEF Told4
<1>4. Row4(a, g)'
  BY <1>1, <1>3 DEF Row4
<1> QED
  BY <1>1, <1>2, <1>4, OneMorePayout

\* What is short of a payout, in paise.
LEMMA ShortIsWhole ==
    ASSUME NEW net \in Int, net >= PayoutFloor
    PROVE  /\ Bps(net, 2500) \in Int /\ Bps(net, 2500) > 0
           /\ Bps(net, 1800) \in Int /\ Bps(net, 1800) > 0
<1>1. net >= 3
  BY PayoutAssumption
<1>2. \A h \in Int, x \in Int : Abs(10000 * h - x) <= 5000 => x - 5000 <= 10000 * h
  BY DEF Abs
<1>3. ASSUME NEW rate \in {1800, 2500}
      PROVE  Bps(net, rate) \in Int /\ Bps(net, rate) > 0
  <2>1. rate \in Nat /\ rate >= 1800
    OBVIOUS
  <2>2. PICK h \in Int : h = Bps(net, rate) /\ Abs(10000 * h - net * rate) <= 5000
    <3> DEFINE Rounds(p, r) == Bps(p, r) \in Int /\ Abs(10000 * Bps(p, r) - p * r) <= 5000
    <3>1. \A p \in Int, r \in Nat : Rounds(p, r)
      BY BpsRounds
    <3> HIDE DEF Rounds
    <3>2. Rounds(net, rate)
      BY <2>1, <3>1
    <3> QED
      BY <3>2 DEF Rounds
  <2>3. PICK x \in Int : x = net * rate /\ x >= 5400
    BY <1>1, <1>3
  <2>4. x - 5000 <= 10000 * h
    <3>1. Abs(10000 * h - x) <= 5000
      BY <2>2, <2>3
    <3> QED
      BY <1>2, <3>1
  <2> QED
    BY <2>2, <2>3, <2>4
<1> QED
  BY <1>3

LEMMA TransferMissingTold ==
    ASSUME PayoutsInv, PayoutsWhole', NEW a \in SettledAllocs, TransferMissing(a)
    PROVE  PayoutsInv'
<1>1. PICK t, g :
          /\ t \in Processed(a) /\ transfers' = transfers \ {t} /\ truth' = truth \cup {g}
          /\ g = PayoutTruth("D4_TRANSFER_MISSING", a, "TRANSFER_MISSING", Net(a), TRUE)
          /\ claimedAlloc' = claimedAlloc \cup {a.id} /\ UNCHANGED <<allocations, payments>>
  BY DEF TransferMissing, Plant, tables
<1>2. /\ g.kind = "D4_PAYOUT" /\ g.subject = a.id /\ g.expects = "TRANSFER_MISSING"
      /\ g.settlement = payments[a.payment].settlement /\ g.amount = Net(a) /\ g.resolvable
      /\ ~ IsExcess(g)
  BY <1>1 DEF PayoutTruth, Truth, IsExcess
<1>3. /\ a \in allocations /\ Moved(a) = {t} /\ t.payment = a.payment /\ t.seller = a.seller
      /\ Net(a) \in Int /\ Net(a) > 0
  BY <1>1, OneTransfer
<1>4. \A b \in allocations : b.id # a.id => Moved(b)' = Moved(b)
  <2>1. PICK gone, new : gone = {t} /\ new = {}
    OBVIOUS
  <2>2. /\ transfers' = (transfers \ gone) \cup new
        /\ \A x \in gone \cup new : x.payment = a.payment /\ x.seller = a.seller
    BY <1>1, <1>3, <2>1
  <2> QED
    BY <1>3, <2>2, OthersKeepTransfers DEF PayoutsInv
<1>5. Processed(a)' = {}
  BY <1>1, <1>3 DEF Moved, Processed
<1>6. Owed(a)' = Net(a)
  BY <1>3, <1>5, AmountEmpty DEF Owed
<1>7. PayoutTold(a, "TRANSFER_MISSING", Net(a), 0)'
  <2>1. PayoutsSay'
    BY PayoutsTold, PTL
  <2> QED
    BY <1>3, <1>5, <1>6, <2>1 DEF PayoutsSay
<1>8. PICK rest : rest = IF g.resolvable THEN 0 ELSE g.amount
  OBVIOUS
<1>20. PayoutTold(a, g.expects, g.amount, rest)'
  BY <1>2, <1>8, <1>7 DEF PayoutTold
<1>21. /\ g.kind = "D4_PAYOUT" /\ g.subject = a.id /\ g.settlement = payments[a.payment].settlement
       /\ g.expects \notin {"NONE", "ALLOCATION_EXCEEDS_PAYMENT"} /\ ~ IsExcess(g)
  BY <1>2
<1>22. g.amount \in Int /\ g.amount > 0
  BY <1>2, <1>3, <1>4
<1> QED
  BY <1>1, <1>4, <1>8, <1>20, <1>21, <1>22, BrokenPayout

\* What is left of a transfer that was cut short.
LEMMA ShortFields ==
    ASSUME NEW t, Movement(t), NEW short
    PROVE  /\ Short(t, short).payment = t.payment /\ Short(t, short).seller = t.seller
           /\ Short(t, short).status = t.status /\ Short(t, short).amount = t.amount - short
  BY DEF Movement, Short

LEMMA StillOwed ==
    ASSUME PayoutsInv, NEW a \in SettledAllocs, NEW t \in Processed(a), NEW short \in Int,
           Processed(a)' = {Short(t, short)}
    PROVE  Owed(a)' = short
<1>1. Movement(t) /\ t.amount = Net(a) /\ Net(a) \in Int
  BY OneTransfer
<1>2. PICK left : left = Short(t, short)
  OBVIOUS
<1>3. left.amount = Net(a) - short
  BY <1>1, <1>2, ShortFields
<1>4. AmountSum({left}) = Net(a) - short
  BY <1>1, <1>3, AmountOfOne
<1>5. Owed(a)' = Net(a) - AmountSum({left})
  BY <1>2 DEF Owed
<1> QED
  BY <1>1, <1>4, <1>5

LEMMA PhantomPayoutGapTold ==
    ASSUME PayoutsInv, PayoutsWhole', NEW a \in SettledAllocs, PhantomPayoutGap(a)
    PROVE  PayoutsInv'
<1> DEFINE Planted4(short) ==
             [type |-> "UNRESOLVABLE_PHANTOM_PAYOUT_GAP", subject |-> a.id,
              settlement |-> payments[a.payment].settlement, kind |-> "D4_PAYOUT",
              expects |-> "PHANTOM_PAYOUT_GAP", amount |-> short, resolvable |-> FALSE]
<1>0. PICK t, short :
          /\ t \in Processed(a) /\ short = Bps(Net(a), 1800) /\ Net(a) >= PayoutFloor
          /\ transfers' = (transfers \ {t}) \cup {Short(t, short)}
          /\ truth' = truth \cup {Planted4(short)}
          /\ claimedAlloc' = claimedAlloc \cup {a.id} /\ UNCHANGED <<allocations, payments>>
  BY DEF PhantomPayoutGap, Plant, tables, Instead, PayoutTruth, Truth
<1>1. PICK g : g = Planted4(short)
  OBVIOUS
<1>13. truth' = truth \cup {g}
  BY <1>0, <1>1
<1>2. /\ g.kind = "D4_PAYOUT" /\ g.subject = a.id /\ g.expects = "PHANTOM_PAYOUT_GAP"
      /\ g.settlement = payments[a.payment].settlement /\ g.amount = short /\ ~ g.resolvable
      /\ ~ IsExcess(g)
  BY <1>1 DEF IsExcess
<1>3. /\ a \in allocations /\ Moved(a) = {t} /\ t.payment = a.payment /\ t.seller = a.seller
      /\ t.status = "PROCESSED" /\ Movement(t) /\ Net(a) \in Int
  BY <1>0, OneTransfer
<1>4. short \in Int /\ short > 0
  BY <1>0, <1>3, ShortIsWhole
<1>5. PICK left : left = Short(t, short)
  OBVIOUS
<1>6. left.payment = a.payment /\ left.seller = a.seller /\ left.status = "PROCESSED"
  BY <1>3, <1>5, ShortFields
<1>7. \A b \in allocations : b.id # a.id => Moved(b)' = Moved(b)
  <2>1. PICK gone, new : gone = {t} /\ new = {left}
    OBVIOUS
  <2>2. /\ transfers' = (transfers \ gone) \cup new
        /\ \A x \in gone \cup new : x.payment = a.payment /\ x.seller = a.seller
    BY <1>0, <1>3, <1>5, <1>6, <2>1
  <2> QED
    BY <1>3, <2>2, OthersKeepTransfers DEF PayoutsInv
<1>8. Moved(a)' = {left} /\ Processed(a)' = {left}
  <2>1. Moved(a)' = {left}
    BY <1>0, <1>3, <1>5, <1>6 DEF Moved
  <2> QED
    BY <1>6, <2>1 DEF Processed
<1>9. Owed(a)' = short
  BY <1>0, <1>4, <1>5, <1>8, StillOwed
<1>10. Returned(a)' = {}
  BY <1>6, <1>8 DEF Returned
<1>11. PayoutTold(a, "PHANTOM_PAYOUT_GAP", short, short)'
  <2>1. PayoutsSay'
    BY PayoutsTold, PTL
  <2> QED
    BY <1>4, <1>8, <1>9, <1>10, <2>1 DEF PayoutsSay
<1>12. PICK rest : rest = IF g.resolvable THEN 0 ELSE g.amount
  OBVIOUS
<1>20. PayoutTold(a, g.expects, g.amount, rest)'
  BY <1>2, <1>12, <1>11 DEF PayoutTold
<1>21. /\ g.kind = "D4_PAYOUT" /\ g.subject = a.id /\ g.settlement = payments[a.payment].settlement
       /\ g.expects \notin {"NONE", "ALLOCATION_EXCEEDS_PAYMENT"} /\ ~ IsExcess(g)
  BY <1>2
<1>22. g.amount \in Int /\ g.amount > 0
  BY <1>2, <1>3, <1>4
<1> QED
  BY <1>0, <1>13, <1>7, <1>12, <1>20, <1>21, <1>22, BrokenPayout

LEMMA AllocDivergesTold ==
    ASSUME PayoutsInv, PayoutsWhole', NEW a \in SettledAllocs, AllocDiverges(a)
    PROVE  PayoutsInv'
<1> DEFINE Planted4(short) ==
             [type |-> "D4_ALLOC_TRANSFER_DIVERGENCE", subject |-> a.id,
              settlement |-> payments[a.payment].settlement, kind |-> "D4_PAYOUT",
              expects |-> "ALLOCATION_TRANSFER_DIVERGENCE", amount |-> short, resolvable |-> TRUE]
<1>0. PICK t, short :
          /\ t \in Processed(a) /\ short = Bps(Net(a), 2500) /\ Net(a) >= PayoutFloor
          /\ transfers' = (transfers \ {t}) \cup {Short(t, short), Transfer(a, 2, short, "REVERSED")}
          /\ truth' = truth \cup {Planted4(short)}
          /\ claimedAlloc' = claimedAlloc \cup {a.id} /\ UNCHANGED <<allocations, payments>>
  BY DEF AllocDiverges, Plant, tables, Instead, Diverged, PayoutTruth, Truth
<1>1. PICK g : g = Planted4(short)
  OBVIOUS
<1>13. truth' = truth \cup {g}
  BY <1>0, <1>1
<1>2. /\ g.kind = "D4_PAYOUT" /\ g.subject = a.id /\ g.expects = "ALLOCATION_TRANSFER_DIVERGENCE"
      /\ g.settlement = payments[a.payment].settlement /\ g.amount = short /\ g.resolvable
      /\ ~ IsExcess(g)
  BY <1>1 DEF IsExcess
<1>3. /\ a \in allocations /\ Moved(a) = {t} /\ t.payment = a.payment /\ t.seller = a.seller
      /\ t.status = "PROCESSED" /\ Movement(t) /\ Net(a) \in Int
  BY <1>0, OneTransfer
<1>4. short \in Int /\ short > 0
  BY <1>0, <1>3, ShortIsWhole
<1>5. PICK left, back : left = Short(t, short) /\ back = Transfer(a, 2, short, "REVERSED")
  OBVIOUS
<1>6. /\ left.payment = a.payment /\ left.seller = a.seller /\ left.status = "PROCESSED"
      /\ back.payment = a.payment /\ back.seller = a.seller /\ back.status = "REVERSED"
      /\ back.amount = short /\ back.id[3] = 2
  <2>1. left.payment = a.payment /\ left.seller = a.seller /\ left.status = "PROCESSED"
    BY <1>3, <1>5, ShortFields
  <2> QED
    BY <1>5, <2>1 DEF Transfer
<1>7. \A b \in allocations : b.id # a.id => Moved(b)' = Moved(b)
  <2>1. PICK gone, new : gone = {t} /\ new = {left, back}
    OBVIOUS
  <2>2. /\ transfers' = (transfers \ gone) \cup new
        /\ \A x \in gone \cup new : x.payment = a.payment /\ x.seller = a.seller
    BY <1>0, <1>3, <1>5, <1>6, <2>1
  <2> QED
    BY <1>3, <2>2, OthersKeepTransfers DEF PayoutsInv
<1>8. Moved(a)' = {left, back} /\ Processed(a)' = {left}
  <2>1. Moved(a)' = {left, back}
    BY <1>0, <1>3, <1>5, <1>6 DEF Moved
  <2> QED
    BY <1>6, <2>1 DEF Processed
<1>9. Owed(a)' = short
  BY <1>0, <1>4, <1>5, <1>8, StillOwed
<1>10. FirstOf(Returned(a))' = {back}
  <2>1. Returned(a)' = {back}
    BY <1>6, <1>8, <1>9 DEF Returned
  <2> QED
    BY <1>6, <2>1 DEF FirstOf
<1>11. PayoutTold(a, "ALLOCATION_TRANSFER_DIVERGENCE", short, 0)'
  <2>1. PayoutsSay'
    BY PayoutsTold, PTL
  <2> QED
    BY <1>4, <1>8, <1>9, <1>10, <2>1 DEF PayoutsSay
<1>12. PICK rest : rest = IF g.resolvable THEN 0 ELSE g.amount
  OBVIOUS
<1>20. PayoutTold(a, g.expects, g.amount, rest)'
  BY <1>2, <1>12, <1>11 DEF PayoutTold
<1>21. /\ g.kind = "D4_PAYOUT" /\ g.subject = a.id /\ g.settlement = payments[a.payment].settlement
       /\ g.expects \notin {"NONE", "ALLOCATION_EXCEEDS_PAYMENT"} /\ ~ IsExcess(g)
  BY <1>2
<1>22. g.amount \in Int /\ g.amount > 0
  BY <1>2, <1>3, <1>4
<1> QED
  BY <1>0, <1>13, <1>7, <1>12, <1>20, <1>21, <1>22, BrokenPayout

LEMMA GrownFields ==
    ASSUME NEW a, Row(a), NEW gross, NEW commission
    PROVE  LET grown == [a EXCEPT !.gross = gross, !.commission = commission]
           IN  /\ grown.id = a.id /\ grown.payment = a.payment /\ grown.seller = a.seller
               /\ grown.status = a.status /\ grown.gross = gross /\ grown.commission = commission
<1>1. PICK p, seller, g, c, status :
          a = [id |-> <<"A", p, seller>>, payment |-> p, seller |-> seller,
               gross |-> g, commission |-> c, status |-> status]
  BY ZenonT(60) DEF Row
<1>2. PICK wider : wider = [a EXCEPT !.gross = gross]
  OBVIOUS
<1>3. PICK grown : grown = [wider EXCEPT !.commission = commission]
  OBVIOUS
<1>4. wider = [id |-> <<"A", p, seller>>, payment |-> p, seller |-> seller,
               gross |-> gross, commission |-> c, status |-> status]
  BY <1>1, <1>2
<1>5. grown = [id |-> <<"A", p, seller>>, payment |-> p, seller |-> seller,
               gross |-> gross, commission |-> commission, status |-> status]
  BY <1>3, <1>4
<1>6. [a EXCEPT !.gross = gross, !.commission = commission] = grown
  BY <1>1, <1>2, <1>3
<1>7. /\ grown.id = a.id /\ grown.payment = a.payment /\ grown.seller = a.seller
      /\ grown.status = a.status /\ grown.gross = gross /\ grown.commission = commission
  BY <1>1, <1>5
<1> QED
  BY <1>6, <1>7

\* The grown allocation and its transfer are in step: the payout itself is told clean.
LEMMA AllocExceedsTold ==
    ASSUME PayoutsInv, PayoutsWhole', NEW a \in SettledAllocs, AllocExceeds(a)
    PROVE  PayoutsInv'
<1> DEFINE Planted4 ==
             [type |-> "D4_ALLOC_EXCEEDS_PAYMENT", subject |-> a.id,
              settlement |-> payments[a.payment].settlement, kind |-> "D4_PAYOUT",
              expects |-> "ALLOCATION_EXCEEDS_PAYMENT", amount |-> ExcessOf(a), resolvable |-> TRUE]
<1>1. /\ Alone(a) /\ ExcessOf(a) > 0
      /\ allocations' = (allocations \ {a}) \cup {Grown(a)} /\ transfers' = Follow(a)
      /\ truth' = truth \cup {Planted4}
      /\ claimedAlloc' = claimedAlloc \cup {a.id} /\ UNCHANGED payments
  BY DEF AllocExceeds, Plant, tables, Instead, PayoutTruth, Truth, Alone
<1>2. PICK g : g = Planted4
  OBVIOUS
<1>3. /\ truth' = truth \cup {g} /\ g.kind = "D4_PAYOUT" /\ g.subject = a.id
      /\ g.settlement = payments[a.payment].settlement /\ g.amount = ExcessOf(a) /\ g.resolvable
      /\ g.expects = "ALLOCATION_EXCEEDS_PAYMENT" /\ IsExcess(g)
  BY <1>1, <1>2 DEF IsExcess
<1> HIDE DEF Planted4
<1>4. /\ a \in allocations /\ a.status = "SETTLED" /\ Row(a) /\ a.payment \in DOMAIN payments
      /\ a.gross \in Int /\ a.commission \in Int /\ a.id \notin claimedAlloc
  BY OneTransfer
<1>5. PICK t \in transfers : Moved(a) = {t} /\ t.status = "PROCESSED"
  BY DEF PayoutsInv, UntakenPaid, PaidInFull
<1>6. /\ Processed(a) = {t} /\ Movement(t) /\ t.payment = a.payment /\ t.seller = a.seller
  BY <1>5 DEF Processed, Moved, PayoutsInv, PayoutsWhole
<1>7. ExcessOf(a) \in Int
  BY <1>4, BpsWhole DEF ExcessOf, PayoutsInv, PaymentsTyped
<1>8. PICK gross \in Int, rate \in Nat : gross = a.gross + ExcessOf(a) /\ rate = Commission[a.seller]
  BY <1>4, <1>7 DEF PayoutsInv, Priced
<1>9. PICK commission \in Int : commission = Bps(gross, rate)
  BY BpsWhole
<1>10. PICK b : b = [a EXCEPT !.gross = gross, !.commission = commission]
  OBVIOUS
<1>11. b = Grown(a)
  BY <1>8, <1>9, <1>10 DEF Grown
<1>12. /\ b.id = a.id /\ b.payment = a.payment /\ b.seller = a.seller
       /\ b.status = "SETTLED" /\ b.gross = gross /\ b.commission = commission
  BY <1>4, <1>10, GrownFields
<1>13. PICK net \in Int : net = Net(b) /\ net = Net(Grown(a))
  BY <1>11, <1>12 DEF Net
<1>14. PICK u : u = [t EXCEPT !.amount = net]
  OBVIOUS
<1>15. /\ u.payment = a.payment /\ u.seller = a.seller /\ u.status = "PROCESSED" /\ u.amount = net
  BY <1>5, <1>6, <1>14 DEF Movement
<1>16. transfers' = (transfers \ {t}) \cup {u}
  <2>1. transfers' = {IF x \in {t} THEN [x EXCEPT !.amount = net] ELSE x : x \in transfers}
    BY <1>1, <1>6, <1>13 DEF Follow
  <2>2. \A x \in transfers : (IF x \in {t} THEN [x EXCEPT !.amount = net] ELSE x)
                               = IF x = t THEN u ELSE x
    BY <1>14
  <2>3. transfers' = {IF x = t THEN u ELSE x : x \in transfers}
    BY <2>1, <2>2
  <2> QED
    BY <1>5, <2>3
<1>17. \A c \in allocations : c.id # a.id => Moved(c)' = Moved(c)
  <2>1. PICK gone, new : gone = {t} /\ new = {u}
    OBVIOUS
  <2>2. /\ transfers' = (transfers \ gone) \cup new
        /\ \A x \in gone \cup new : x.payment = a.payment /\ x.seller = a.seller
    BY <1>6, <1>15, <1>16, <2>1
  <2> QED
    BY <1>4, <2>2, OthersKeepTransfers DEF PayoutsInv
<1>18. Processed(b)' = {u}
  <2>1. Moved(b)' = {u}
    BY <1>5, <1>12, <1>15, <1>16 DEF Moved
  <2> QED
    BY <1>15, <2>1 DEF Processed
<1>19. Owed(b)' = 0
  <2>1. AmountSum({u}) = net
    BY <1>15, AmountOfOne
  <2>2. Owed(b)' = net - AmountSum({u})
    BY <1>13, <1>18 DEF Owed
  <2> QED
    BY <2>1, <2>2
<1>20. DiagnosePayout(b)'.delta = 0 /\ DiagnosePayout(b)'.label = "NONE"
  <2>1. PayoutsSay'
    BY PayoutsTold, PTL
  <2> QED
    BY <1>19, <2>1 DEF PayoutsSay
<1>21. ~ Grew(a.payment)
  <2> SUFFICES ASSUME NEW h \in Rows4, IsExcess(h), h.subject[2] = a.payment PROVE FALSE
    BY DEF Grew
  <2>1. PICK c \in allocations : Row4(c, h)
    BY DEF PayoutsInv, Diagnosed4
  <2>2. c.payment = a.payment
    BY <2>1 DEF PayoutsInv, PayoutsWhole, Row, Row4
  <2>3. c = a
    BY <1>1, <2>2 DEF Alone
  <2> QED
    BY <1>4, <2>1, <2>3 DEF Row4
<1>22. a.gross = payments[a.payment].amount
  BY <1>1, <1>4, <1>21 DEF PayoutsInv, PromisesKept
<1>23. Alone(b)'
  BY <1>1, <1>11, <1>12 DEF Alone
<1>24. Row4(b, g)'
  <2>1. b.gross = payments[b.payment].amount + g.amount
    BY <1>3, <1>8, <1>12, <1>22
  <2>2. g.amount \in Int /\ g.amount > 0
    BY <1>1, <1>3, <1>7
  <2>3. Told4(b, g)'
    BY <1>1, <1>3, <1>12, <1>20, <1>23, <2>1, <2>2 DEF Told4
  <2> QED
    BY <1>1, <1>3, <1>12, <2>3 DEF Row4
<1>25. g.expects # "NONE"
  BY <1>3
<1>26. allocations' = (allocations \ {a}) \cup {b}
  BY <1>1, <1>11
<1>27. b.gross \in Int /\ b.commission \in Int
  BY <1>12
<1> QED
  BY <1>1, <1>3, <1>12, <1>17, <1>24, <1>25, <1>26, <1>27, OneMorePayout
-----------------------------------------------------------------------------
\* The other steps leave payments alone and write no row of delta 4.
NoPayoutRow == /\ UNCHANGED payments
               /\ truth \subseteq truth' /\ \A g \in truth' \ truth : g.kind # "D4_PAYOUT"

LEMMA TruthKind ==
    \A type, subject, s, kind, expects, amount, resolvable :
        Truth(type, subject, s, kind, expects, amount, resolvable).kind = kind
  BY DEF Truth

LEMMA BookPlantsNoPayout ==
    ASSUME BookNext
    PROVE  NoPayoutRow
<1>1. CASE BuildLedger \/ Persist
  BY <1>1 DEF BuildLedger, Persist, tables, NoPayoutRow
<1>2. CASE ~ (BuildLedger \/ Persist)
  <2>1. PICK s \in Settlement :
      \/ FeeRateDrift(s) \/ TaxAggregateRounding(s) \/ RefundNotDeducted(s)
      \/ RefundPartialMulti(s) \/ RefundOutsideWindow(s) \/ HeaderRollupMismatch(s)
      \/ AdjustmentApplied(s) \/ FeeCorrectedByAdjustment(s) \/ PhantomDebit(s)
      \/ BankLine(s, "D2_BANK_LINE") \/ BankLine(s, "UNRESOLVABLE_AMBIGUOUS_CREDIT")
      \/ DuplicateLedger(s) \/ MissingLedger(s) \/ WrongAccount(s)
      \/ \E x \in Settlement : RefundOutsidePeriod(s, x) \/ SameAmountSameDay(s, x)
    BY <1>2 DEF BookNext
  <2>2. CASE FeeRateDrift(s)
    BY <2>2 DEF FeeRateDrift, NoPayoutRow, Truth
  <2>3. CASE TaxAggregateRounding(s)
    BY <2>3 DEF TaxAggregateRounding, NoPayoutRow, Truth
  <2>4. CASE RefundNotDeducted(s)
    BY <2>4 DEF RefundNotDeducted, NoPayoutRow, Truth
  <2>5. CASE RefundPartialMulti(s)
    BY <2>5 DEF RefundPartialMulti, NoPayoutRow, Truth
  <2>6. CASE RefundOutsideWindow(s)
    BY <2>6 DEF RefundOutsideWindow, NoPayoutRow, Trap, Truth
  <2>7. CASE HeaderRollupMismatch(s)
    BY <2>7 DEF HeaderRollupMismatch, NoPayoutRow, Truth
  <2>8. CASE AdjustmentApplied(s)
    BY <2>8 DEF AdjustmentApplied, NoPayoutRow, Truth
  <2>9. CASE FeeCorrectedByAdjustment(s)
    BY <2>9 DEF FeeCorrectedByAdjustment, NoPayoutRow, Truth
  <2>10. CASE PhantomDebit(s)
    BY <2>10 DEF PhantomDebit, NoPayoutRow, Truth
  <2>11. CASE BankLine(s, "D2_BANK_LINE") \/ BankLine(s, "UNRESOLVABLE_AMBIGUOUS_CREDIT")
    BY <2>11 DEF BankLine, tables, NoPayoutRow
  <2>12. CASE DuplicateLedger(s)
    BY <2>12 DEF DuplicateLedger, NoPayoutRow, Truth
  <2>13. CASE MissingLedger(s)
    BY <2>13 DEF MissingLedger, NoPayoutRow, Truth
  <2>14. CASE WrongAccount(s)
    BY <2>14 DEF WrongAccount, NoPayoutRow, Truth
  <2>15. ASSUME NEW x \in Settlement, RefundOutsidePeriod(s, x) PROVE NoPayoutRow
    BY <2>15 DEF RefundOutsidePeriod, NoPayoutRow, Trap, Truth
  <2>16. ASSUME NEW x \in Settlement, SameAmountSameDay(s, x) PROVE NoPayoutRow
    BY <2>16 DEF SameAmountSameDay, NoPayoutRow, Truth
  <2> QED
    BY <2>1, <2>2, <2>3, <2>4, <2>5, <2>6, <2>7, <2>8, <2>9, <2>10, <2>11, <2>12, <2>13,
       <2>14, <2>15, <2>16
<1> QED
  BY <1>1, <1>2

LEMMA PayoutsUntouched ==
    ASSUME PayoutsInv, UNCHANGED payoutVars, NoPayoutRow
    PROVE  PayoutsInv'
<1>1. UNCHANGED <<allocations, transfers, claimedAlloc, payments>> /\ Rows4' = Rows4
  BY DEF payoutVars, NoPayoutRow, Rows4, Expecting
<1>2. \A a : Moved(a)' = Moved(a) /\ Alone(a)' = Alone(a)
  BY <1>1 DEF Moved, Alone
<1>3. \A a : DiagnosePayout(a)' = DiagnosePayout(a)
  BY <1>2, SameMovesSameDiagnosis
<1>4. PaymentsTyped' /\ PayoutsWhole' /\ Keyed' /\ Priced'
  BY <1>1 DEF PayoutsInv, PaymentsTyped, PayoutsWhole, Moved, Processed, Keyed, Priced
<1>5. UntakenPaid'
  BY <1>1, <1>2 DEF PayoutsInv, UntakenPaid, PaidInFull, SettledAllocs
<1>6. \A a, g : Told4(a, g) => Told4(a, g)'
  <2> SUFFICES ASSUME NEW a, NEW g, Told4(a, g) PROVE Told4(a, g)'
    OBVIOUS
  <2>1. PICK is : is = DiagnosePayout(a) /\ is = DiagnosePayout(a)'
    BY <1>3
  <2> QED
    BY <1>1, <1>2, <2>1 DEF Told4
<1>7. \A a, g : Row4(a, g) => Row4(a, g)'
  BY <1>1, <1>6 DEF Row4
<1>8. Diagnosed4'
  BY <1>1, <1>3, <1>7 DEF PayoutsInv, Diagnosed4
<1>9. PromisesKept'
  <2>1. \A p : PromisesOf(p)' = PromisesOf(p) /\ Grew(p)' = Grew(p)
    BY <1>1 DEF PromisesOf, Grew
  <2>2. PromisesAreGross'
    BY PromisedIsGross, PTL
  <2>3. \A p : Promised(p)' = Promised(p)
    BY <2>1, <2>2, PromisedIsGross DEF PromisesAreGross
  <2> QED
    BY <1>1, <1>2, <2>1, <2>3 DEF PayoutsInv, PromisesKept
<1> QED
  BY <1>4, <1>5, <1>8, <1>9 DEF PayoutsInv

LEMMA PayoutsStep == PayoutsInv /\ [Next]_vars => PayoutsInv'
<1> SUFFICES ASSUME PayoutsInv, [Next]_vars PROVE PayoutsInv'
  OBVIOUS
<1>1. CASE BookNext /\ UNCHANGED <<payoutVars, results>>
  BY <1>1, BookPlantsNoPayout, PayoutsUntouched DEF payoutVars
<1>2. CASE UNCHANGED vars \/ Reconcile
  <2>1. NoPayoutRow /\ UNCHANGED payoutVars
    BY <1>2 DEF vars, Reconcile, bookVars, tables, NoPayoutRow
  <2> QED
    BY <2>1, PayoutsUntouched
<1>3. CASE PayoutNext
  <2>1. PayoutsWhole'
    BY <1>3, PayoutStepKeeps DEF PayoutsInv
  <2> QED
    BY <1>3, <2>1, AllocExceedsTold, AllocDivergesTold, TransferMissingTold, PhantomPayoutGapTold
    DEF PayoutNext
<1> QED
  BY <1>1, <1>2, <1>3 DEF Next
-----------------------------------------------------------------------------
\* The split a batch starts from.

LEMMA GrossSumIsSum ==
    ASSUME NEW f, NEW S, IsFiniteSet(S), \A x \in S : f[x] = x.gross
    PROVE  GrossSum(S) = SumFunctionOnSet(f, S)
<1> DEFINE Body(h) == [T \in SUBSET S |-> IF T = {} THEN 0
                                          ELSE Pick(T).gross + h[T \ {Pick(T)}]]
           g == CHOOSE h : h = Body(h)
<1>1. ASSUME NEW h PROVE h = Body(h) <=> Computes(h, f, SUBSET S)
  <2>1. \A T \in SUBSET S : T # {} => f[Pick(T)] = Pick(T).gross
    BY PickMember
  <2>2. Body(h) = [T \in SUBSET S |-> IF T = {} THEN 0 ELSE f[Pick(T)] + h[T \ {Pick(T)}]]
    BY <2>1
  <2> QED
    BY <2>2 DEF Computes
<1>2. \E h : h = Body(h)
  BY <1>1, ComputesExists
<1>3. g = Body(g)
  BY <1>2
<1>4. Computes(g, f, SUBSET S)
  BY <1>1, <1>3
<1>5. GrossSum(S) = g[S]
  BY DEF GrossSum, MapThenSumSet, MapThenFoldSet, Pick
<1> HIDE DEF g
<1>6. Sums(g, f, S)
  BY <1>4, ComputesSum
<1> QED
  BY <1>5, <1>6 DEF Sums

LEMMA GrossOfNone == GrossSum({}) = 0
<1> DEFINE f == [x \in {} |-> 0]
           S == {}
<1>1. IsFiniteSet(S) /\ \A x \in S : f[x] = x.gross
  BY FS_EmptySet
<1> HIDE DEF f
<1>2. GrossSum(S) = SumFunctionOnSet(f, S)
  BY <1>1, GrossSumIsSum
<1> QED
  BY <1>2, SumEmpty

LEMMA SplitPromises ==
    ASSUME NEW book \in Books, NEW p \in DOMAIN book.payments
    PROVE  /\ GrossSum({a \in Split : a.payment = p /\ a.status \in {"SETTLED", "PENDING"}})
                <= book.payments[p].amount
           /\ \A a \in Split : a.payment = p /\ {b \in Split : b.payment = p} = {a}
                 => a.gross = book.payments[p].amount
<1>0. PICK own, counted :
          /\ own = {b \in Split : b.payment = p}
          /\ counted = {a \in Split : a.payment = p /\ a.status \in {"SETTLED", "PENDING"}}
  OBVIOUS
<1>1. counted = {b \in own : b.status \in {"SETTLED", "PENDING"}}
  BY <1>0
<1>2. CASE own = {}
  <2>1. counted = {}
    BY <1>1, <1>2
  <2>2. book.payments[p].amount \in Int /\ book.payments[p].amount > 0
    BY BooksAssumption, DrawnAssumption
  <2>3. GrossSum(counted) = 0
    BY <2>1, GrossOfNone
  <2>4. \A a \in Split : ~ (a.payment = p)
    BY <1>0, <1>2
  <2> QED
    BY <1>0, <2>2, <2>3, <2>4
<1>3. ASSUME NEW a \in own
      PROVE  /\ GrossSum(counted) <= book.payments[p].amount
             /\ own = {a} => a.gross = book.payments[p].amount
  <2>1. a \in Split /\ a.payment = p /\ own = {b \in Split : b.payment = a.payment}
    BY <1>0, <1>3
  <2>2. LET mine == {b \in Split : b.payment = a.payment}
        IN  /\ MapThenSumSet(LAMBDA b : b.gross, {b \in mine : b.status \in {"SETTLED", "PENDING"}})
                 <= book.payments[a.payment].amount
            /\ mine = {a} => a.gross = book.payments[a.payment].amount
    BY <2>1, PayoutAssumption
  <2>3. LET mine == {b \in Split : b.payment = a.payment}
        IN  /\ GrossSum({b \in mine : b.status \in {"SETTLED", "PENDING"}})
                 <= book.payments[a.payment].amount
            /\ mine = {a} => a.gross = book.payments[a.payment].amount
    BY <2>2 DEF GrossSum
  <2>4. PICK mine : mine = {b \in Split : b.payment = a.payment}
    OBVIOUS
  <2>5. /\ GrossSum({b \in mine : b.status \in {"SETTLED", "PENDING"}}) <= book.payments[p].amount
        /\ mine = {a} => a.gross = book.payments[p].amount
    BY <2>1, <2>3, <2>4
  <2>6. mine = own /\ counted = {b \in mine : b.status \in {"SETTLED", "PENDING"}}
    BY <1>1, <2>1, <2>4
  <2> QED
    BY <2>5, <2>6
<1>4. \A a \in Split : a.payment = p => a \in own
  BY <1>0
<1> QED
  BY <1>0, <1>2, <1>3, <1>4

\* Every settled payout starts with its one transfer.
LEMMA MirroredPayout ==
    ASSUME PayoutInit, PayoutsWhole, NEW a \in allocations, a.status = "SETTLED",
           \A b \in allocations : b.payment = a.payment /\ b.seller = a.seller => b = a
    PROVE  PaidInFull(a)
<1>1. PICK t : t = Transfer(a, 1, Net(a), "PROCESSED")
  OBVIOUS
<1>2. t.status = "PROCESSED" /\ t.amount = Net(a) /\ t.payment = a.payment /\ t.seller = a.seller
  BY <1>1 DEF Transfer
<1>3. transfers = {Transfer(b, 1, Net(b), "PROCESSED") : b \in {c \in allocations : c.status = "SETTLED"}}
  BY DEF PayoutInit
<1>4. t \in transfers
  BY <1>1, <1>3
<1>5. ASSUME NEW u \in Moved(a) PROVE u = t
  <2>1. PICK b \in allocations : u = Transfer(b, 1, Net(b), "PROCESSED")
    BY <1>3 DEF Moved
  <2>2. u.payment = b.payment /\ u.seller = b.seller
    BY <2>1 DEF Transfer
  <2>3. b = a
    BY <2>2 DEF Moved
  <2> QED
    BY <1>1, <2>1, <2>3
<1>6. Moved(a) = {t}
  BY <1>2, <1>4, <1>5 DEF Moved
<1> QED
  BY <1>2, <1>4, <1>6 DEF PaidInFull

LEMMA PaidInFullOwesNothing ==
    ASSUME NEW a, PaidInFull(a), Net(a) \in Int
    PROVE  DiagnosePayout(a).delta = 0 /\ DiagnosePayout(a).label = "NONE"
<1>1. PICK t \in transfers : Moved(a) = {t} /\ t.status = "PROCESSED" /\ t.amount = Net(a)
  BY DEF PaidInFull
<1>2. Processed(a) = {t}
  BY <1>1 DEF Processed
<1>3. AmountSum({t}) = Net(a)
  BY <1>1, AmountOfOne
<1>4. Owed(a) = Net(a) - AmountSum({t})
  BY <1>2 DEF Owed
<1>5. Owed(a) = 0
  BY <1>3, <1>4
<1> QED
  BY <1>5, NothingOwed

LEMMA PayoutsInit == BatchInit => PayoutsInv
<1> SUFFICES ASSUME BatchInit PROVE PayoutsInv
  OBVIOUS
<1>1. PICK book \in Books : payments = book.payments
  BY DEF BatchInit, Init
<1>2. allocations = Split /\ PayoutInit /\ truth = {}
  BY DEF BatchInit, Init, PayoutInit
<1>3. PayoutsWhole
  BY PayoutInitEstablishes DEF PayoutInv
<1>4. PaymentsTyped
  BY <1>1, BooksAssumption DEF PaymentsTyped
<1>5. \A a, b \in allocations : a.payment = b.payment /\ a.seller = b.seller => a = b
  BY <1>2, PayoutAssumption
<1>6. Keyed
  <2> SUFFICES ASSUME NEW a \in allocations, NEW b \in allocations, a.id = b.id PROVE a = b
    BY DEF Keyed
  <2>1. a.payment = b.payment /\ a.seller = b.seller
    BY <1>3, IdNamesPayout DEF PayoutsWhole
  <2> QED
    BY <1>5, <2>1
<1>7. ASSUME NEW a \in allocations
      PROVE  /\ a.payment \in DOMAIN payments /\ a.gross \in Int /\ a.commission \in Int
             /\ Commission[a.seller] \in Nat /\ Net(a) > 0
  <2>1. a \in Split /\ a.gross \in Int /\ Commission[a.seller] \in Nat /\ Net(a) > 0
    BY <1>2, PayoutAssumption
  <2>2. a.payment \in DOMAIN book.payments
    BY <2>1, PayoutAssumption
  <2>3. PICK t \in Allotments : a = Allocation(t[1], t[2], t[3], t[4])
    BY <2>1 DEF Split
  <2>4. a.commission = Bps(a.gross, Commission[a.seller])
    BY <2>3 DEF Allocation
  <2>5. a.commission \in Int
    BY <2>1, <2>4, BpsWhole
  <2> QED
    BY <1>1, <2>1, <2>2, <2>5
<1>8. Priced
  BY <1>7 DEF Priced
<1>9. \A a \in allocations : a.status = "SETTLED" => PaidInFull(a)
  BY <1>2, <1>3, <1>5, MirroredPayout
<1>10. UntakenPaid
  BY <1>7, <1>9 DEF UntakenPaid, SettledAllocs
<1>11. Rows4 = {}
  BY <1>2 DEF Rows4, Expecting
<1>12. Diagnosed4
  <2>1. \A a \in allocations : Net(a) \in Int
    BY <1>7 DEF Net
  <2> QED
    BY <1>9, <1>11, <2>1, PaidInFullOwesNothing DEF Diagnosed4
<1>13. PromisesKept
  <2> SUFFICES ASSUME NEW p \in DOMAIN payments
               PROVE  /\ Promised(p) <= payments[p].amount
                      /\ \A a \in allocations : a.payment = p /\ Alone(a) => a.gross = payments[p].amount
    BY DEF PromisesKept
  <2>1. Promised(p) <= payments[p].amount
    <3>1. Promised(p) = GrossSum(PromisesOf(p))
      BY PromisedIsGross DEF PromisesAreGross
    <3>2. PromisesOf(p) = {a \in Split : a.payment = p /\ a.status \in {"SETTLED", "PENDING"}}
      BY <1>2 DEF PromisesOf
    <3>3. GrossSum({a \in Split : a.payment = p /\ a.status \in {"SETTLED", "PENDING"}})
            <= book.payments[p].amount
      BY <1>1, SplitPromises
    <3> QED
      BY <1>1, <3>1, <3>2, <3>3
  <2>2. ASSUME NEW a \in allocations, a.payment = p, Alone(a) PROVE a.gross = payments[p].amount
    <3>1. {b \in Split : b.payment = p} = {a}
      BY <1>2, <2>2 DEF Alone
    <3> QED
      BY <1>1, <1>2, <2>2, <3>1, SplitPromises
  <2> QED
    BY <2>1, <2>2
<1> QED
  BY <1>3, <1>4, <1>6, <1>8, <1>10, <1>12, <1>13 DEF PayoutsInv

\* At every moment a payout is told what its planter did to it: broken on the record, to
\* the paisa under its own name; broken off the record, short by exactly that; grown with
\* its split, clean; and nothing is said of any other settled allocation.
THEOREM Delta4AlwaysTells == Spec => []Diagnosed4
<1>1. PayoutsInv => Diagnosed4
  BY DEF PayoutsInv
<1> QED
  BY <1>1, PayoutsInit, PayoutsStep, PTL DEF Spec
-----------------------------------------------------------------------------
\* What the books are posted from.

\* The payments that the settlements of the window pay, each by one item, which charges
\* it no less than nothing.
Own == {p \in DOMAIN payments : payments[p].settlement \in Settlement}
PaidItems == OfType(items, "PAYMENT")
PaysFor(i, p) ==
    i.ref = <<p>> /\ i.settlement = payments[p].settlement /\ i.amount = payments[p].amount
OneItemEach ==
    /\ \A i \in PaidItems : i.fee >= 0 /\ i.tax >= 0 /\ \E p \in Own : PaysFor(i, p)
    /\ \A p \in Own : \E i \in PaidItems : i.ref = <<p>>
    /\ \A i, j \in PaidItems : i.ref = j.ref => i = j
RefundsWithin ==
    \A p \in DOMAIN payments : AmountSum(ProcessedRefunds(p)) <= payments[p].amount
TaxRollsUp == \A s \in Settlement : header[s].tax = Rollup(items, s).tax
FromBook == \E book \in Books : payments = book.payments

BookInv == OneItemEach /\ RefundsWithin /\ TaxRollsUp /\ FromBook

LEMMA PaidSame ==
    ASSUME OneItemEach, UNCHANGED payments, PaidItems' = PaidItems
    PROVE  OneItemEach'
BY DEF OneItemEach, PaysFor, Own

LEMMA PaidSwap ==
    ASSUME OneItemEach, UNCHANGED payments, NEW i \in PaidItems, NEW j, j.type = "PAYMENT",
           j.ref = i.ref, j.settlement = i.settlement, j.amount = i.amount,
           j.fee >= 0, j.tax >= 0, items' = (items \ {i}) \cup {j}
    PROVE  OneItemEach'
<1>1. PaidItems' = (PaidItems \ {i}) \cup {j}
  BY DEF PaidItems, OfType
<1>2. Own' = Own /\ \A k, p : PaysFor(k, p)' <=> PaysFor(k, p)
  BY DEF Own, PaysFor
<1>3. \A k \in PaidItems' : k.fee >= 0 /\ k.tax >= 0 /\ \E p \in Own : PaysFor(k, p)
  BY <1>1 DEF OneItemEach, PaysFor
<1>4. \A p \in Own : \E k \in PaidItems' : k.ref = <<p>>
  BY <1>1 DEF OneItemEach
<1>5. \A k, l \in PaidItems' : k.ref = l.ref => k = l
  BY <1>1 DEF OneItemEach
<1> QED
  BY <1>2, <1>3, <1>4, <1>5 DEF OneItemEach

\* Items of other types come and go.
LEMMA PaidOthers ==
    ASSUME OneItemEach, UNCHANGED payments,
           \A i \in (items' \ items) \cup (items \ items') : i.type # "PAYMENT"
    PROVE  OneItemEach'
<1>1. PaidItems' = PaidItems
  BY DEF PaidItems, OfType
<1> QED
  BY <1>1, PaidSame

\* The payment items of a settlement are those that pay its payments.
LEMMA PaidOfSettlement ==
    ASSUME Typed, OneItemEach, NEW s \in Settlement, NEW i \in PaymentItems(s)
    PROVE  /\ i \in PaidItems /\ i \in items /\ i.settlement = s /\ i.type = "PAYMENT" /\ IsItem(i)
           /\ i.fee >= 0 /\ i.tax >= 0 /\ i.fee \in Int /\ i.tax \in Int
           /\ \E p \in Own : PaysFor(i, p) /\ i.ref[1] = p
<1>1. i \in PaidItems /\ i \in items /\ i.settlement = s /\ i.type = "PAYMENT"
  BY DEF PaymentItems, PaidItems, OfType, ItemsIn
<1>2. IsItem(i)
  BY <1>1 DEF Typed, ItemsTyped
<1>3. i.fee >= 0 /\ i.tax >= 0 /\ \E p \in Own : PaysFor(i, p) /\ i.ref[1] = p
  BY <1>1 DEF OneItemEach, PaysFor
<1> QED
  BY <1>1, <1>2, <1>3 DEF IsItem

LEMMA ChargesNoLess ==
    ASSUME NEW amount \in Nat, NEW rate \in Nat
    PROVE  Bps(amount, rate) \in Nat
<1>1. PICK x : x = amount * rate
  OBVIOUS
<1>2. x \in Nat
  BY <1>1
<1>3. Bps(amount, rate) = (x + 5000) \div 10000
  BY <1>1 DEF Bps
<1> QED
  BY <1>2, <1>3

LEMMA DriftSwap ==
    ASSUME Typed, Drawn, OneItemEach, UNCHANGED payments, NEW s \in Settlement,
           NEW i \in CardItems(s), items' = (items \ {i}) \cup {Drift(i)}
    PROVE  OneItemEach'
<1>1. i \in PaymentItems(s)
  BY DEF CardItems
<1>2. PICK p \in Own : PaysFor(i, p) /\ i.ref[1] = p
  BY <1>1, PaidOfSettlement
<1>3. i \in PaidItems /\ IsItem(i) /\ i.type = "PAYMENT"
  BY <1>1, PaidOfSettlement
<1>4. PICK amount, fee, tax, j : /\ amount = payments[p].amount /\ fee = Bps(amount, 250)
                                 /\ tax = Bps(fee, GstBps) /\ j = Drift(i)
  OBVIOUS
<1>5. amount \in Nat
  BY <1>2, <1>4 DEF Typed, PaymentsTyped, Drawn, PaymentDrawn, Own
<1>6. fee \in Nat /\ tax \in Nat
  <2>1. GstBps \in Nat /\ 250 \in Nat
    BY BooksAssumption
  <2>2. Bps(amount, 250) \in Nat
    BY <1>5, <2>1, ChargesNoLess
  <2>3. fee \in Nat
    BY <1>4, <2>2
  <2>4. Bps(fee, GstBps) \in Nat
    BY <2>1, <2>3, ChargesNoLess
  <2> QED
    BY <1>4, <2>3, <2>4
<1>7. j = [i EXCEPT !.fee = fee, !.tax = tax]
  BY <1>2, <1>4 DEF Drift, DriftedMdrBps
<1>8. i = [settlement |-> i.settlement, type |-> i.type, ref |-> i.ref, amount |-> i.amount,
           fee |-> i.fee, tax |-> i.tax]
  BY <1>3 DEF IsItem, Item
<1>9. /\ j.type = "PAYMENT" /\ j.ref = i.ref /\ j.settlement = i.settlement
      /\ j.amount = i.amount /\ j.fee = fee /\ j.tax = tax
  <2>1. PICK a, b, c, d, e, f :
            /\ a = i.settlement /\ b = i.type /\ c = i.ref /\ d = i.amount /\ e = i.fee /\ f = i.tax
    OBVIOUS
  <2>2. i = [settlement |-> a, type |-> b, ref |-> c, amount |-> d, fee |-> e, tax |-> f]
    BY <1>8, <2>1
  <2>3. j = [settlement |-> a, type |-> b, ref |-> c, amount |-> d, fee |-> fee, tax |-> tax]
    BY <1>7, <2>2
  <2> QED
    BY <1>3, <2>1, <2>3
<1>10. items' = (items \ {i}) \cup {j}
  BY <1>4
<1> QED
  BY <1>3, <1>6, <1>9, <1>10, PaidSwap
\* A clean settlement charges its payments as the book it started from.
LEMMA CleanPays ==
    ASSUME Typed, NEW s \in Settlement, Clean(s), NEW p \in Own, NEW i \in PaymentItems(s),
           PaysFor(i, p)
    PROVE  i = PaymentItem(p, payments[p])
<1>1. IsItem(i) /\ i.type = "PAYMENT" /\ i.ref = <<p>> /\ i.ref[1] = p /\ i.fee \in Int /\ i.tax \in Int
  BY PaymentItemTyped DEF PaysFor, IsItem
<1>2. FeeGap(i) = 0 /\ TaxGap(i) = 0
  BY DEF Clean
<1>3. PICK fee, tax : fee = PolicyFee(p) /\ tax = PolicyTax(p)
  OBVIOUS
<1>4. fee \in Int /\ tax \in Int
  BY <1>3, PolicyIsWhole DEF Own, Typed
<1>5. i.fee - fee = 0 /\ i.tax - tax = 0
  BY <1>1, <1>2, <1>3 DEF FeeGap, TaxGap
<1>6. i.fee = fee /\ i.tax = tax
  <2>1. PICK f, x : f = i.fee /\ x = i.tax
    OBVIOUS
  <2>2. f \in Int /\ x \in Int /\ f - fee = 0 /\ x - tax = 0
    BY <1>1, <1>5, <2>1
  <2>3. f = fee /\ x = tax
    BY <1>4, <2>2
  <2> QED
    BY <2>1, <2>3
<1>7. i = Item(payments[p].settlement, "PAYMENT", <<p>>, payments[p].amount, fee, tax)
  BY <1>1, <1>6 DEF IsItem, PaysFor
<1>8. fee = Bps(payments[p].amount, MdrBps[payments[p].method]) /\ tax = Bps(fee, GstBps)
  BY <1>3 DEF PolicyFee, PolicyTax
<1> QED
  BY <1>7, <1>8 DEF PaymentItem

LEMMA CleanPaymentsOfBook ==
    ASSUME Typed, OneItemEach, NEW s \in Settlement, Clean(s), NEW book, payments = book.payments
    PROVE  PaymentItems(s) = {i \in CleanPaymentItems(book) : i.settlement = s}
<1>1. CleanPaymentItems(book) = {PaymentItem(p, payments[p]) : p \in Own}
  BY DEF CleanPaymentItems, Own
<1>2. ASSUME NEW i \in PaymentItems(s)
      PROVE  i \in CleanPaymentItems(book) /\ i.settlement = s
  <2>1. PICK p \in Own : PaysFor(i, p)
    BY PaidOfSettlement
  <2>2. i = PaymentItem(p, payments[p])
    BY <2>1, CleanPays
  <2> QED
    BY <1>1, <2>1, <2>2, PaidOfSettlement
<1>3. ASSUME NEW i \in CleanPaymentItems(book), i.settlement = s
      PROVE  i \in PaymentItems(s)
  <2>1. PICK p \in Own : i = PaymentItem(p, payments[p])
    BY <1>1, <1>3
  <2>2. payments[p].settlement = s
    BY <1>3, <2>1 DEF PaymentItem, Item
  <2>3. PICK k \in PaidItems : k.ref = <<p>>
    BY DEF OneItemEach
  <2>4. PICK q \in Own : PaysFor(k, q)
    BY DEF OneItemEach
  <2>5. q = p
    BY <2>3, <2>4 DEF PaysFor
  <2>6. k \in PaymentItems(s) /\ PaysFor(k, p)
    BY <2>2, <2>4, <2>5 DEF PaymentItems, PaidItems, OfType, ItemsIn, PaysFor
  <2> QED
    BY <2>1, <2>6, CleanPays
<1> QED
  BY <1>2, <1>3

LEMMA RoundingSwap ==
    ASSUME CleanInv, BookInv, NEW s \in Settlement, TaxAggregateRounding(s)
    PROVE  OneItemEach'
<1>1. PICK its, diff :
          /\ its = {k \in PaymentItems(s) : k.fee > 0}
          /\ diff = Bps(FeeSum(its), GstBps) - TaxSum(its)
  OBVIOUS
<1>2. /\ UNCHANGED payments /\ Clean(s)
      /\ \E k \in Largest(its, "fee") :
             Itemise(s, (items \ {k}) \cup {[k EXCEPT !.tax = @ + diff]})
  BY <1>1 DEF TaxAggregateRounding, Claim, CleanInv, CleanOthers
<1>3. PICK i \in Largest(its, "fee") :
          items' = (items \ {i}) \cup {[i EXCEPT !.tax = @ + diff]}
  BY <1>2 DEF Itemise
<1>4. PICK j : j = [i EXCEPT !.tax = @ + diff]
  OBVIOUS
<1>5. i \in its /\ i \in PaymentItems(s) /\ \A k \in its : Abs(k.fee) <= Abs(i.fee)
  BY <1>1 DEF Largest
<1>6. /\ i \in PaidItems /\ IsItem(i) /\ i.type = "PAYMENT" /\ i.fee \in Int /\ i.fee >= 0
      /\ \A k \in its : k.fee \in Int /\ k.fee >= 0
  BY <1>1, <1>5, PaidOfSettlement DEF CleanInv, BookInv
<1>7. \A k \in its : k.fee <= i.fee
  BY <1>5, <1>6 DEF Abs
<1>8. PICK book \in Books : payments = book.payments
  BY DEF BookInv, FromBook
<1>9. its = {k \in CleanPaymentItems(book) : k.settlement = s /\ k.fee > 0}
  BY <1>1, <1>2, <1>8, CleanPaymentsOfBook DEF CleanInv, BookInv
<1>10. i.tax + diff >= 0
  BY <1>1, <1>5, <1>7, <1>9, RoundingAssumption
<1>11. /\ j.type = "PAYMENT" /\ j.ref = i.ref /\ j.settlement = i.settlement
       /\ j.amount = i.amount /\ j.fee = i.fee /\ j.tax = i.tax + diff
  <2>1. i = [settlement |-> i.settlement, type |-> i.type, ref |-> i.ref, amount |-> i.amount,
             fee |-> i.fee, tax |-> i.tax]
    BY <1>6 DEF IsItem, Item
  <2> QED
    BY <1>4, <1>6, <2>1
<1>12. items' = (items \ {i}) \cup {j}
  BY <1>3, <1>4
<1>13. j.fee >= 0 /\ j.tax >= 0
  BY <1>6, <1>10, <1>11
<1> QED
  BY <1>2, <1>6, <1>11, <1>12, <1>13, PaidSwap DEF BookInv
\* Refunds and headers, as far as the postings and the tax report read them.
LEMMA RefundsSame ==
    ASSUME RefundsWithin, FromBook, UNCHANGED <<payments, refunds>>
    PROVE  RefundsWithin' /\ FromBook'
BY DEF RefundsWithin, FromBook, ProcessedRefunds, RefundsOf

LEMMA TaxKept ==
    ASSUME Shape, TaxRollsUp, NEW s, OnlyOf(s), NEW h, header' = [header EXCEPT ![s] = h],
           h.tax = Rollup(items', s).tax
    PROVE  TaxRollsUp'
<1> SUFFICES ASSUME NEW x \in Settlement PROVE header'[x].tax = Rollup(items', x).tax
  BY DEF TaxRollsUp
<1>1. CASE x = s
  BY <1>1 DEF Shape
<1>2. CASE x # s
  <2>1. ItemsIn(items', x) = ItemsIn(items, x)
    BY <1>2 DEF OnlyOf
  <2>2. Rollup(items', x) = Rollup(items, x)
    BY <2>1, SameItemsSameRollup
  <2>3. header'[x] = header[x]
    BY <1>2 DEF Shape
  <2> QED
    BY <2>2, <2>3 DEF TaxRollsUp
<1> QED
  BY <1>1, <1>2

\* The repair of a planter that rebuilds the header of the settlement it takes.
LEMMA RebuiltTax ==
    ASSUME Shape, TaxRollsUp, NEW s, OnlyOf(s), NEW its, Itemise(s, its)
    PROVE  TaxRollsUp'
<1>1. header' = [header EXCEPT ![s] = Rollup(items', s)]
  BY DEF Itemise, SetHeader
<1> QED
  BY <1>1, TaxKept

LEMMA ItemPlantersBook ==
    ASSUME Delta1Inv, BookInv, NEW s \in Settlement,
           FeeRateDrift(s) \/ TaxAggregateRounding(s) \/ RefundNotDeducted(s)
    PROVE  BookInv'
<1>1. CASE FeeRateDrift(s)
  <2>1. PICK i \in CardItems(s) : Itemise(s, (items \ {i}) \cup {Drift(i)})
    BY <1>1 DEF FeeRateDrift, Largest
  <2>2. UNCHANGED <<payments, refunds>> /\ items' = (items \ {i}) \cup {Drift(i)}
    BY <1>1, <2>1 DEF FeeRateDrift, Itemise
  <2>3. OneItemEach'
    BY <2>2, DriftSwap DEF Delta1Inv, CleanInv, BookInv
  <2>4. i.settlement = s /\ Drift(i).settlement = s /\ "settlement" \in DOMAIN Drift(i)
    BY ItsOwnItems DEF Delta1Inv, CleanInv, IInv
  <2>5. OnlyOf(s)
    BY <2>2, <2>4, Replaced DEF Delta1Inv, CleanInv, IInv
  <2>6. TaxRollsUp'
    BY <2>1, <2>5, RebuiltTax DEF Delta1Inv, CleanInv, IInv, BookInv
  <2> QED
    BY <2>2, <2>3, <2>6, RefundsSame DEF BookInv
<1>2. CASE TaxAggregateRounding(s)
  <2>1. OneItemEach'
    BY <1>2, RoundingSwap DEF Delta1Inv
  <2>9. PICK its, diff :
            /\ its = {k \in PaymentItems(s) : k.fee > 0}
            /\ diff = Bps(FeeSum(its), GstBps) - TaxSum(its)
    OBVIOUS
  <2>10. \E k \in Largest(its, "fee") : Itemise(s, (items \ {k}) \cup {[k EXCEPT !.tax = @ + diff]})
    BY <1>2, <2>9 DEF TaxAggregateRounding
  <2>2. PICK i \in PaymentItems(s) : Itemise(s, (items \ {i}) \cup {[i EXCEPT !.tax = @ + diff]})
    BY <2>9, <2>10 DEF Largest
  <2>3. PICK j : j = [i EXCEPT !.tax = @ + diff]
    OBVIOUS
  <2>4. UNCHANGED <<payments, refunds>> /\ items' = (items \ {i}) \cup {j}
    BY <1>2, <2>2, <2>3 DEF TaxAggregateRounding, Itemise
  <2>5. IsItem(i) /\ i.settlement = s /\ i \in items
    BY PaymentItemTyped DEF Delta1Inv, CleanInv, PaymentItems, OfType, ItemsIn
  <2>6. j.settlement = s /\ "settlement" \in DOMAIN j
    <3>1. i = [settlement |-> i.settlement, type |-> i.type, ref |-> i.ref, amount |-> i.amount,
               fee |-> i.fee, tax |-> i.tax]
      BY <2>5 DEF IsItem, Item
    <3> QED
      BY <2>3, <2>5, <3>1
  <2>7. OnlyOf(s)
    BY <2>4, <2>5, <2>6, Replaced DEF Delta1Inv, CleanInv, IInv
  <2>8. TaxRollsUp'
    BY <2>2, <2>7, RebuiltTax DEF Delta1Inv, CleanInv, IInv, BookInv
  <2> QED
    BY <2>1, <2>4, <2>8, RefundsSame DEF BookInv
<1>3. CASE RefundNotDeducted(s)
  <2>1. PICK i \in OfType(ItemsIn(items, s), "REFUND") : Itemise(s, items \ {i})
    BY <1>3 DEF RefundNotDeducted, Largest
  <2>2. UNCHANGED <<payments, refunds>> /\ items' = items \ {i}
    BY <1>3, <2>1 DEF RefundNotDeducted, Itemise
  <2>3. i.settlement = s /\ i.type = "REFUND"
    BY DEF OfType, ItemsIn
  <2>4. OneItemEach'
    BY <2>2, <2>3, PaidOthers DEF BookInv
  <2>5. OnlyOf(s)
    BY <2>2, <2>3, Taken DEF Delta1Inv, CleanInv, IInv
  <2>6. TaxRollsUp'
    BY <2>1, <2>5, RebuiltTax DEF Delta1Inv, CleanInv, IInv, BookInv
  <2> QED
    BY <2>2, <2>4, <2>6, RefundsSame DEF BookInv
<1> QED
  BY <1>1, <1>2, <1>3
\* The header of a settlement nobody claimed has the columns of a rollup, so another net
\* or gross leaves its tax alone.
LEMMA RollupColumns ==
    ASSUME NEW its, NEW s, NEW net, NEW gross
    PROVE  LET h == Rollup(its, s)
           IN  [h EXCEPT !.net = net].tax = h.tax /\ [[h EXCEPT !.net = net] EXCEPT !.gross = gross].tax = h.tax
<1>1. PICK a, b, c, d, e, f : Rollup(its, s) = [gross |-> a, refund |-> b, fee |-> c, tax |-> d,
                                                adjustment |-> e, net |-> f]
  BY DEF Rollup
<1> QED
  BY <1>1

LEMMA HeaderPlantersBook ==
    ASSUME Delta1Inv, BookInv, NEW s \in Settlement,
           HeaderRollupMismatch(s) \/ PhantomDebit(s) \/ AdjustmentApplied(s)
    PROVE  BookInv'
<1>1. s \notin claimed /\ UNCHANGED <<payments, refunds, items>>
  <2>1. CASE HeaderRollupMismatch(s)
    BY <2>1 DEF HeaderRollupMismatch, Claim
  <2>2. CASE PhantomDebit(s)
    BY <2>2 DEF PhantomDebit, Claim
  <2>3. CASE AdjustmentApplied(s)
    BY <2>3 DEF AdjustmentApplied, Claim
  <2> QED
    BY <2>1, <2>2, <2>3
<1>2. header[s] = Rollup(items, s)
  BY <1>1 DEF Delta1Inv, CleanInv, IInv, HeadersRollUp
<1>3. \E h : header' = [header EXCEPT ![s] = h] /\ h.tax = Rollup(items', s).tax
  <2>1. CASE HeaderRollupMismatch(s)
    <3>1. PICK amount \in Shortfalls :
             header' = [header EXCEPT ![s] = [ShortPay(s, amount) EXCEPT !.gross = @ - amount]]
      BY <2>1 DEF HeaderRollupMismatch, SetHeader
    <3>2. [ShortPay(s, amount) EXCEPT !.gross = @ - amount].tax = Rollup(items', s).tax
      BY <1>1, <1>2, RollupColumns DEF ShortPay
    <3> QED
      BY <3>1, <3>2
  <2>2. CASE PhantomDebit(s)
    <3>1. PICK amount \in Shortfalls : header' = [header EXCEPT ![s] = ShortPay(s, amount)]
      BY <2>2 DEF PhantomDebit, SetHeader
    <3>2. ShortPay(s, amount).tax = Rollup(items', s).tax
      BY <1>1, <1>2, RollupColumns DEF ShortPay
    <3> QED
      BY <3>1, <3>2
  <2>3. CASE AdjustmentApplied(s)
    <3>1. PICK amount \in Shortfalls : header' = [header EXCEPT ![s] = ShortPay(s, amount)]
      BY <2>3 DEF AdjustmentApplied, SetHeader
    <3>2. ShortPay(s, amount).tax = Rollup(items', s).tax
      BY <1>1, <1>2, RollupColumns DEF ShortPay
    <3> QED
      BY <3>1, <3>2
  <2> QED
    BY <2>1, <2>2, <2>3
<1>4. OnlyOf(s)
  BY <1>1, ItemsUntouched DEF Delta1Inv, CleanInv, IInv
<1>5. TaxRollsUp'
  BY <1>3, <1>4, TaxKept DEF Delta1Inv, CleanInv, IInv, BookInv
<1>6. OneItemEach'
  BY <1>1, PaidOthers DEF BookInv
<1> QED
  BY <1>1, <1>5, <1>6, RefundsSame DEF BookInv

LEMMA FeeCorrectedBook ==
    ASSUME Delta1Inv, BookInv, NEW s \in Settlement, FeeCorrectedByAdjustment(s)
    PROVE  BookInv'
<1>01. PICK i \in CardItems(s) :
          /\ items' = (items \ {i}) \cup {Drift(i)}
          /\ SetHeader(s, [Rollup((items \ {i}) \cup {Drift(i)}, s) EXCEPT !.net = @ + Excess(i) \div 2])
  BY DEF FeeCorrectedByAdjustment, Largest
<1>02. PICK net : net = Rollup(items', s).net + Excess(i) \div 2
  OBVIOUS
<1>1. /\ items' = (items \ {i}) \cup {Drift(i)}
      /\ SetHeader(s, [Rollup(items', s) EXCEPT !.net = net])
  BY <1>01, <1>02
<1>2. UNCHANGED <<payments, refunds>>
  BY DEF FeeCorrectedByAdjustment
<1>3. OneItemEach'
  BY <1>1, <1>2, DriftSwap DEF Delta1Inv, CleanInv, BookInv
<1>4. i.settlement = s /\ Drift(i).settlement = s /\ "settlement" \in DOMAIN Drift(i)
  BY ItsOwnItems DEF Delta1Inv, CleanInv, IInv
<1>5. OnlyOf(s)
  BY <1>1, <1>4, Replaced DEF Delta1Inv, CleanInv, IInv
<1>6. PICK h : h = [Rollup(items', s) EXCEPT !.net = net]
  OBVIOUS
<1>7. header' = [header EXCEPT ![s] = h] /\ h.tax = Rollup(items', s).tax
  BY <1>1, <1>6, RollupColumns DEF SetHeader
<1>8. TaxRollsUp'
  BY <1>5, <1>7, TaxKept DEF Delta1Inv, CleanInv, IInv, BookInv
<1> QED
  BY <1>2, <1>3, <1>8, RefundsSame DEF BookInv

LEMMA PairBook ==
    ASSUME Delta1Inv, BookInv, NEW a \in Settlement, NEW b \in Settlement, SameAmountSameDay(a, b)
    PROVE  BookInv'
<1>1. UNCHANGED <<payments, refunds>>
  BY DEF SameAmountSameDay
<1>01. PICK diff, id : /\ diff = header[a].net - header[b].net
                      /\ id = Adjustment(b, NextAdjustment(b), "MANUAL", diff, 0).id
  OBVIOUS
<1>02. PICK j : j = Item(b, "ADJUSTMENT", id, diff, 0, 0)
  OBVIOUS
<1>2. /\ j = Item(b, "ADJUSTMENT", id, diff, 0, 0)
      /\ items' = items \/ items' = items \cup {j}
      /\ header' = [header EXCEPT ![b].net = header[a].net, ![b].adjustment = @ + diff]
  BY <1>01, <1>02 DEF SameAmountSameDay
<1>3. j.settlement = b /\ j.type = "ADJUSTMENT" /\ "settlement" \in DOMAIN j
  BY <1>2 DEF Item
<1>4. OnlyOf(b)
  BY <1>2, <1>3, ItemsUntouched, Put DEF Delta1Inv, CleanInv, IInv
<1>5. header'[b] = Rollup(items', b)
  BY PairedAddsUp
<1>6. PICK h : h = header'[b]
  OBVIOUS
<1>7. header' = [header EXCEPT ![b] = h] /\ h.tax = Rollup(items', b).tax
  BY <1>2, <1>5, <1>6 DEF Delta1Inv, CleanInv, IInv, Shape
<1>8. TaxRollsUp'
  BY <1>4, <1>7, TaxKept DEF Delta1Inv, CleanInv, IInv, BookInv
<1>9. OneItemEach'
  BY <1>1, <1>2, <1>3, PaidOthers DEF BookInv
<1> QED
  BY <1>1, <1>8, <1>9, RefundsSame DEF BookInv
\* A payment without a refund gets refunds that it covers.
LEMMA RefundsGrow ==
    ASSUME RefundsWithin, FromBook, UNCHANGED payments, NEW p, RefundsOf(p) = {}, NEW new,
           refunds' = refunds \cup new, \A r \in new : r.payment = p /\ r.status = "PROCESSED",
           AmountSum(new) <= payments[p].amount
    PROVE  RefundsWithin' /\ FromBook'
<1> SUFFICES ASSUME NEW q \in DOMAIN payments
             PROVE  AmountSum(ProcessedRefunds(q)') <= payments[q].amount
  BY DEF RefundsWithin, FromBook, ProcessedRefunds, RefundsOf
<1>1. CASE q = p
  <2>1. ProcessedRefunds(q)' = new
    BY <1>1 DEF ProcessedRefunds, RefundsOf
  <2> QED
    BY <1>1, <2>1
<1>2. CASE q # p
  <2>1. ProcessedRefunds(q)' = ProcessedRefunds(q)
    BY <1>2 DEF ProcessedRefunds, RefundsOf
  <2> QED
    BY <2>1 DEF RefundsWithin
<1> QED
  BY <1>1, <1>2

LEMMA PartCovered ==
    ASSUME NEW amount \in Nat
    PROVE  /\ Bps(amount, 4000) <= amount /\ Bps(amount, 2000) + Bps(amount, 1500) <= amount
           /\ Bps(amount, 4000) \in Int /\ Bps(amount, 2000) \in Int /\ Bps(amount, 1500) \in Int
BY DEF Bps

LEMMA PartialRefundNames ==
    ASSUME Typed, Drawn, NEW p \in DOMAIN payments, NEW n, NEW rate, NEW period
    PROVE  LET r == PartialRefund(p, n, rate, period)
           IN  /\ r.payment = p /\ r.status = "PROCESSED" /\ r.id = <<"R", p, n>>
               /\ r.amount = Bps(payments[p].amount, rate) /\ r.period = period
               /\ payments[p].amount \in Nat
BY DEF PartialRefund, Refund, Typed, PaymentsTyped, Drawn, PaymentDrawn

\* The refund of the trap, wherever it goes.
LEMMA TrapCovered ==
    ASSUME Typed, Drawn, RefundsWithin, FromBook, UNCHANGED payments, NEW p \in DOMAIN payments,
           RefundsOf(p) = {}, NEW period,
           refunds' = refunds \cup {PartialRefund(p, 1, 4000, period)}
    PROVE  RefundsWithin' /\ FromBook'
<1>1. PICK r : r = PartialRefund(p, 1, 4000, period)
  OBVIOUS
<1>2. /\ r.payment = p /\ r.status = "PROCESSED" /\ r.amount = Bps(payments[p].amount, 4000)
      /\ payments[p].amount \in Nat
  BY <1>1, PartialRefundNames
<1>3. r.amount \in Int /\ r.amount <= payments[p].amount
  BY <1>2, PartCovered
<1>4. AmountSum({r}) = r.amount
  BY <1>3, AmountOfOne
<1>5. /\ refunds' = refunds \cup {r} /\ AmountSum({r}) <= payments[p].amount
      /\ \A q \in {r} : q.payment = p /\ q.status = "PROCESSED"
  BY <1>1, <1>2, <1>3, <1>4
<1> QED
  BY <1>5, RefundsGrow

LEMMA RefundPlantersBook ==
    ASSUME Delta1Inv, BookInv, NEW s \in Settlement, NEW later \in Settlement,
           RefundPartialMulti(s) \/ RefundOutsidePeriod(s, later) \/ RefundOutsideWindow(s)
    PROVE  BookInv'
<1>1. \A i \in PaymentItems(s) : i.ref[1] \in DOMAIN payments
  BY PaymentItemTyped DEF Delta1Inv, CleanInv
<1>2. \A x, r : /\ RefundItem(x, r).type = "REFUND" /\ RefundItem(x, r).settlement = x
                /\ "settlement" \in DOMAIN RefundItem(x, r)
  BY DEF RefundItem, Item
<1>3. CASE RefundPartialMulti(s)
  <2>01. PICK i \in PaymentItems(s) :
           LET p      == i.ref[1]
               first  == PartialRefund(p, 1, 2000, s)
               second == PartialRefund(p, 2, 1500, s)
           IN  /\ payments[p].amount > LargePayment /\ RefundsOf(p) = {}
               /\ refunds' = refunds \cup {first, second}
               /\ Itemise(s, items \cup {RefundItem(s, first)})
               /\ truth' = truth \cup {Truth("D1_REFUND_PARTIAL_MULTI", second.id, s, "D1_COMPUTE",
                                             "REFUND_NOT_DEDUCTED", second.amount, TRUE)}
    BY <1>3, ZenonT(60) DEF RefundPartialMulti
  <2>1. /\ refunds' = refunds \cup {PartialRefund(i.ref[1], 1, 2000, s), PartialRefund(i.ref[1], 2, 1500, s)}
        /\ Itemise(s, items \cup {RefundItem(s, PartialRefund(i.ref[1], 1, 2000, s))})
        /\ RefundsOf(i.ref[1]) = {}
    BY <2>01
  <2>2. UNCHANGED payments
    BY <1>3 DEF RefundPartialMulti
  <2>3. PICK p, q, r : p = i.ref[1] /\ q = PartialRefund(p, 1, 2000, s) /\ r = PartialRefund(p, 2, 1500, s)
    OBVIOUS
  <2>4. p \in DOMAIN payments /\ RefundsOf(p) = {} /\ refunds' = refunds \cup {q, r}
    BY <1>1, <2>1, <2>3
  <2>5. /\ q.payment = p /\ q.status = "PROCESSED" /\ q.amount = Bps(payments[p].amount, 2000)
        /\ q.id = <<"R", p, 1>> /\ payments[p].amount \in Nat
    BY <2>3, <2>4, PartialRefundNames DEF Delta1Inv, CleanInv
  <2>6. /\ r.payment = p /\ r.status = "PROCESSED" /\ r.amount = Bps(payments[p].amount, 1500)
        /\ r.id = <<"R", p, 2>>
    BY <2>3, <2>4, PartialRefundNames DEF Delta1Inv, CleanInv
  <2>7. q # r
    BY <2>5, <2>6
  <2>8. q.amount \in Int /\ r.amount \in Int /\ q.amount + r.amount <= payments[p].amount
    BY <2>5, <2>6, PartCovered
  <2>9. AmountSum({q, r}) <= payments[p].amount
    BY <2>7, <2>8, AmountOfTwo
  <2>10. \A z \in {q, r} : z.payment = p /\ z.status = "PROCESSED"
    BY <2>5, <2>6
  <2>11. RefundsWithin' /\ FromBook'
    BY <2>2, <2>4, <2>9, <2>10, RefundsGrow DEF BookInv
  <2>12. items' = items \cup {RefundItem(s, q)}
    BY <2>1, <2>3 DEF Itemise
  <2>13. OneItemEach'
    BY <1>2, <2>2, <2>12, PaidOthers DEF BookInv
  <2>14. OnlyOf(s)
    BY <1>2, <2>12, Put DEF Delta1Inv, CleanInv, IInv
  <2>15. TaxRollsUp'
    BY <2>1, <2>14, RebuiltTax DEF Delta1Inv, CleanInv, IInv, BookInv
  <2> QED
    BY <2>11, <2>13, <2>15, SMTT(20) DEF BookInv
<1>4. CASE RefundOutsidePeriod(s, later)
  <2>0. PICK i, r : Trapped(s, later, i, r)
    BY <1>4, TrapIsPlanted
  <2>01. /\ i \in NeverRefunded(s)
         /\ r = PartialRefund(i.ref[1], 1, 4000, later) /\ refunds' = refunds \cup {r}
         /\ items' = items \cup {RefundItem(later, r)}
         /\ header' = [header EXCEPT ![later] = Rollup(items', later)]
         /\ truth' = truth \cup {Trap(s, r.id, r), Trap(later, Whole(later), r)}
    BY <2>0 DEF Trapped
  <2>1. refunds' = refunds \cup {PartialRefund(i.ref[1], 1, 4000, later)}
    BY <2>01
  <2>2. UNCHANGED payments
    BY <1>4 DEF RefundOutsidePeriod
  <2>3. i \in PaymentItems(s) /\ RefundsOf(i.ref[1]) = {}
    BY <2>01 DEF NeverRefunded
  <2>4. RefundsWithin' /\ FromBook'
    BY <1>1, <2>1, <2>2, <2>3, TrapCovered DEF Delta1Inv, CleanInv, BookInv
  <2>6. items' = items \cup {RefundItem(later, r)}
    BY <2>01
  <2>7. OneItemEach'
    BY <1>2, <2>2, <2>6, PaidOthers DEF BookInv
  <2>8. OnlyOf(later)
    BY <1>2, <2>6, Put DEF Delta1Inv, CleanInv, IInv
  <2>10. PICK h : h = Rollup(items', later)
    OBVIOUS
  <2>11. header' = [header EXCEPT ![later] = h] /\ h.tax = Rollup(items', later).tax
    BY <2>01, <2>10
  <2>9. TaxRollsUp'
    BY <2>8, <2>11, TaxKept DEF Delta1Inv, CleanInv, IInv, BookInv
  <2> QED
    BY <2>4, <2>7, <2>9 DEF BookInv
<1>5. CASE RefundOutsideWindow(s)
  <2>01. PICK i \in Largest(NeverRefunded(s), "amount") :
            refunds' = refunds \cup {PartialRefund(i.ref[1], 1, 4000, s + 1)}
    BY <1>5 DEF RefundOutsideWindow
  <2>1. i \in NeverRefunded(s) /\ refunds' = refunds \cup {PartialRefund(i.ref[1], 1, 4000, s + 1)}
    BY <2>01 DEF Largest
  <2>2. UNCHANGED <<payments, items, header>>
    BY <1>5 DEF RefundOutsideWindow
  <2>3. i \in PaymentItems(s) /\ RefundsOf(i.ref[1]) = {}
    BY <2>1 DEF NeverRefunded
  <2>4. RefundsWithin' /\ FromBook'
    BY <1>1, <2>1, <2>2, <2>3, TrapCovered DEF Delta1Inv, CleanInv, BookInv
  <2>5. OneItemEach'
    BY <2>2, PaidOthers DEF BookInv
  <2>6. TaxRollsUp'
    BY <2>2 DEF BookInv, TaxRollsUp
  <2> QED
    BY <2>4, <2>5, <2>6 DEF BookInv
<1> QED
  BY <1>3, <1>4, <1>5
\* The other steps leave the book alone.
LEMMA BookUntouched ==
    ASSUME BookInv, UNCHANGED <<payments, refunds, adjustments, items, header>>
    PROVE  BookInv'
<1>1. OneItemEach'
  BY PaidOthers DEF BookInv
<1>2. TaxRollsUp'
  BY DEF BookInv, TaxRollsUp
<1> QED
  BY <1>1, <1>2, RefundsSame DEF BookInv

LEMMA BookStep == Delta1Inv /\ BookInv /\ [Next]_vars => BookInv'
<1> SUFFICES ASSUME Delta1Inv, BookInv, [Next]_vars PROVE BookInv'
  OBVIOUS
<1>1. CASE UNCHANGED vars \/ PayoutNext \/ Reconcile \/ BuildLedger \/ Persist
  <2>1. UNCHANGED <<payments, refunds, adjustments, items, header>>
    <3>1. CASE UNCHANGED vars
      BY <3>1 DEF vars, bookVars, tables
    <3>2. CASE PayoutNext
      BY <3>2, PayoutIsQuiet DEF Quiet
    <3>3. CASE Reconcile
      BY <3>3 DEF Reconcile, bookVars, tables
    <3>4. CASE BuildLedger
      BY <3>4 DEF BuildLedger
    <3>5. CASE Persist
      BY <3>5 DEF Persist, tables
    <3> QED
      BY <1>1, <3>1, <3>2, <3>3, <3>4, <3>5
  <2> QED
    BY <2>1, BookUntouched
<1>2. CASE \E s \in Settlement :
            \/ FeeRateDrift(s) \/ TaxAggregateRounding(s) \/ RefundNotDeducted(s)
            \/ RefundPartialMulti(s) \/ RefundOutsideWindow(s) \/ HeaderRollupMismatch(s)
            \/ AdjustmentApplied(s) \/ FeeCorrectedByAdjustment(s) \/ PhantomDebit(s)
            \/ BankLine(s, "D2_BANK_LINE") \/ BankLine(s, "UNRESOLVABLE_AMBIGUOUS_CREDIT")
            \/ DuplicateLedger(s) \/ MissingLedger(s) \/ WrongAccount(s)
            \/ \E x \in Settlement : RefundOutsidePeriod(s, x) \/ SameAmountSameDay(s, x)
  <2>1. PICK s \in Settlement :
            \/ FeeRateDrift(s) \/ TaxAggregateRounding(s) \/ RefundNotDeducted(s)
            \/ RefundPartialMulti(s) \/ RefundOutsideWindow(s) \/ HeaderRollupMismatch(s)
            \/ AdjustmentApplied(s) \/ FeeCorrectedByAdjustment(s) \/ PhantomDebit(s)
            \/ BankLine(s, "D2_BANK_LINE") \/ BankLine(s, "UNRESOLVABLE_AMBIGUOUS_CREDIT")
            \/ DuplicateLedger(s) \/ MissingLedger(s) \/ WrongAccount(s)
            \/ \E x \in Settlement : RefundOutsidePeriod(s, x) \/ SameAmountSameDay(s, x)
    BY <1>2
  <2>2. CASE FeeRateDrift(s) \/ TaxAggregateRounding(s) \/ RefundNotDeducted(s)
    BY <2>2, ItemPlantersBook
  <2>3. CASE RefundPartialMulti(s) \/ RefundOutsideWindow(s)
    BY <2>3, RefundPlantersBook
  <2>4. CASE HeaderRollupMismatch(s) \/ PhantomDebit(s) \/ AdjustmentApplied(s)
    BY <2>4, HeaderPlantersBook
  <2>5. CASE FeeCorrectedByAdjustment(s)
    BY <2>5, FeeCorrectedBook
  <2>6. CASE \E x \in Settlement : RefundOutsidePeriod(s, x) \/ SameAmountSameDay(s, x)
    BY <2>6, RefundPlantersBook, PairBook
  <2>7. CASE \/ BankLine(s, "D2_BANK_LINE") \/ BankLine(s, "UNRESOLVABLE_AMBIGUOUS_CREDIT")
             \/ DuplicateLedger(s) \/ MissingLedger(s) \/ WrongAccount(s)
    <3>1. UNCHANGED <<payments, refunds, adjustments, items, header>>
      BY <2>7, BankAndLedgerAreQuiet DEF Quiet
    <3> QED
      BY <3>1, BookUntouched
  <2> QED
    BY <2>1, <2>2, <2>3, <2>4, <2>5, <2>6, <2>7
<1>3. [Next]_vars => \/ UNCHANGED vars \/ PayoutNext \/ Reconcile \/ BookNext
  BY DEF Next
<1> QED
  BY <1>1, <1>2, <1>3 DEF BookNext

LEMMA BookInit == BatchInit => BookInv
<1> SUFFICES ASSUME BatchInit PROVE BookInv
  OBVIOUS
<1>1. PICK book \in Books :
         /\ payments = book.payments /\ refunds = book.refunds
         /\ items = CleanItems(book) /\ header = [s \in Settlement |-> Rollup(items, s)]
  BY DEF BatchInit, Init
<1>2. CleanInv /\ Drawn
  BY InitClean, InitDrawn DEF BatchInit
<1>3. FromBook
  BY <1>1 DEF FromBook
<1>4. TaxRollsUp
  BY <1>1 DEF TaxRollsUp
<1>5. RefundsWithin
  <2>1. \A p : ProcessedRefunds(p) = {r \in book.refunds : r.payment = p /\ r.status = "PROCESSED"}
    BY <1>1 DEF ProcessedRefunds, RefundsOf
  <2> QED
    BY <1>1, <2>1, RefundAssumption DEF RefundsWithin
<1>6. PaidItems = {PaymentItem(p, payments[p]) : p \in Own}
  <2>1. \A p : PaymentItem(p, payments[p]).type = "PAYMENT"
    BY DEF PaymentItem, Item
  <2>2. \A x, r : RefundItem(x, r).type = "REFUND"
    BY RefundItemNames
  <2>3. \A a : Item(a.settlement, "ADJUSTMENT", a.id, a.amount, 0, 0).type = "ADJUSTMENT"
    BY DEF Item
  <2>4. items = {PaymentItem(p, payments[p]) : p \in Own}
                \cup {RefundItem(r.period, r) :
                       r \in {q \in book.refunds : q.status = "PROCESSED" /\ q.period \in Settlement}}
                \cup {Item(a.settlement, "ADJUSTMENT", a.id, a.amount, 0, 0) : a \in book.adjustments}
    BY <1>1 DEF CleanItems, CleanPaymentItems, Own
  <2> QED
    BY <2>1, <2>2, <2>3, <2>4 DEF PaidItems, OfType
<1>7. ASSUME NEW p \in Own
      PROVE  LET i == PaymentItem(p, payments[p])
             IN  PaysFor(i, p) /\ i.fee >= 0 /\ i.tax >= 0
  <2>1. PICK amount, rate, fee, tax :
            /\ amount = payments[p].amount /\ rate = MdrBps[payments[p].method]
            /\ fee = Bps(amount, rate) /\ tax = Bps(fee, GstBps)
    OBVIOUS
  <2>2. amount \in Nat /\ rate \in Nat /\ GstBps \in Nat
    BY <1>2, <2>1, BooksAssumption DEF CleanInv, Typed, PaymentsTyped, Drawn, PaymentDrawn, Own
  <2>3. fee \in Nat
    BY <2>1, <2>2, ChargesNoLess
  <2>4. tax \in Nat
    BY <2>1, <2>2, <2>3, ChargesNoLess
  <2>5. PaymentItem(p, payments[p]) = Item(payments[p].settlement, "PAYMENT", <<p>>, payments[p].amount, fee, tax)
    BY <2>1 DEF PaymentItem
  <2> QED
    BY <2>3, <2>4, <2>5 DEF PaysFor, Item
<1>8. OneItemEach
  <2>1. \A i \in PaidItems : \E p \in Own : i = PaymentItem(p, payments[p]) /\ PaysFor(i, p)
    BY <1>6, <1>7
  <2>2. \A i \in PaidItems : i.fee >= 0 /\ i.tax >= 0 /\ \E p \in Own : PaysFor(i, p)
    BY <1>6, <1>7
  <2>3. \A p \in Own : \E i \in PaidItems : i.ref = <<p>>
    BY <1>6, <1>7 DEF PaysFor
  <2>4. \A i, j \in PaidItems : i.ref = j.ref => i = j
    BY <2>1 DEF PaysFor
  <2> QED
    BY <2>2, <2>3, <2>4 DEF OneItemEach
<1> QED
  BY <1>3, <1>4, <1>5, <1>8 DEF BookInv
-----------------------------------------------------------------------------
\* What a payment leaves in the books.

Gross(p) == payments[p].amount - AmountSum(ProcessedRefunds(p))
ItemOf(p) == CHOOSE j \in items : j.ref = <<p>> /\ j.type = "PAYMENT"
Group(p) == <<"settlement", p, 0>>
Copy(p) == <<"settlement", p, 1>>

\* The settlement of a payment, posted under a group, with its fee in an account.
PostedAs(p, g, account) ==
    LET i   == ItemOf(p)
        s   == payments[p].settlement
        net == Gross(p) - i.fee - i.tax
    IN  Posting(g, "BANK", IF net >= 0 THEN "DR" ELSE "CR", Abs(net), p, s)
        \cup Posting(g, account, "DR", i.fee, p, s)
        \cup Posting(g, "INPUT_GST", "DR", i.tax, p, s)
        \cup Posting(g, "RAZORPAY_CLEARING", "CR", Gross(p), p, s)

\* Its capture and its refunds.
RefundLegs(p, account, direction) ==
    UNION {Posting(<<"refund", r.id, 0>>, account, direction, r.amount, p, 0) : r \in ProcessedRefunds(p)}
RestOf(p) ==
    Posting(<<"capture", p, 0>>, "RAZORPAY_CLEARING", "DR", payments[p].amount, p, 0)
    \cup Posting(<<"capture", p, 0>>, "SALES", "CR", payments[p].amount, p, 0)
    \cup RefundLegs(p, "REFUNDS", "DR") \cup RefundLegs(p, "RAZORPAY_CLEARING", "CR")

LEMMA PaymentPosted ==
    \A p : /\ SettlementPosting(p) = PostedAs(p, Group(p), "GATEWAY_FEES")
           /\ PaymentPostings(p) = RestOf(p) \cup PostedAs(p, Group(p), "GATEWAY_FEES")
<1> SUFFICES ASSUME NEW p
             PROVE  /\ SettlementPosting(p) = PostedAs(p, Group(p), "GATEWAY_FEES")
                    /\ PaymentPostings(p) = RestOf(p) \cup PostedAs(p, Group(p), "GATEWAY_FEES")
  OBVIOUS
<1>1. SettlementPosting(p) = PostedAs(p, Group(p), "GATEWAY_FEES")
  BY DEF SettlementPosting, PostedAs, Gross, ItemOf, Group
<1> DEFINE A(r) == Posting(<<"refund", r.id, 0>>, "REFUNDS", "DR", r.amount, p, 0)
           B(r) == Posting(<<"refund", r.id, 0>>, "RAZORPAY_CLEARING", "CR", r.amount, p, 0)
           C == Posting(<<"capture", p, 0>>, "RAZORPAY_CLEARING", "DR", payments[p].amount, p, 0)
           D == Posting(<<"capture", p, 0>>, "SALES", "CR", payments[p].amount, p, 0)
           R == ProcessedRefunds(p)
           S == SettlementPosting(p)
           X == UNION {A(r) \cup B(r) : r \in R}
           Y == UNION {A(r) : r \in R}
           Z == UNION {B(r) : r \in R}
<1>2. PaymentPostings(p) = ((C \cup D) \cup X) \cup S
  BY Zenon DEF PaymentPostings
<1>3. RestOf(p) = ((C \cup D) \cup Y) \cup Z
  BY Zenon DEF RestOf, RefundLegs
<1> HIDE DEF A, B, C, D, R, S
<1>4. \A e : e \in X <=> e \in Y \/ e \in Z
  OBVIOUS
<1> HIDE DEF X, Y, Z
<1>5. PaymentPostings(p) = RestOf(p) \cup S
  BY <1>2, <1>3, <1>4
<1> QED
  BY <1>1, <1>5 DEF S

\* A posting is one entry, or none of nothing.
PostingSays ==
    \A g, account, direction, amount, p, s :
        \A e \in Posting(g, account, direction, amount, p, s) :
            /\ e.group = g /\ e.account = account /\ e.direction = direction
            /\ e.amount = amount /\ e.payment = p /\ e.settlement = s
            /\ e = [group |-> g, account |-> account, direction |-> direction,
                    amount |-> amount, payment |-> p, settlement |-> s]
            /\ Posting(g, account, direction, amount, p, s) = {e}
LEMMA PostingIsEntry == PostingSays
BY DEF PostingSays, Posting

LEMMA PostingSum ==
    ASSUME NEW g, NEW account, NEW direction, NEW amount \in Int, amount >= 0, NEW p, NEW s
    PROVE  LET S == Posting(g, account, direction, amount, p, s)
           IN  Amounts(S) /\ AmountSum(S) = amount
<1>1. CASE amount = 0
  <2>1. Posting(g, account, direction, amount, p, s) = {}
    BY <1>1 DEF Posting
  <2> QED
    BY <1>1, <2>1, AmountEmpty, FS_EmptySet DEF Amounts
<1>2. CASE amount # 0
  <2>1. PICK e : e = [group |-> g, account |-> account, direction |-> direction,
                      amount |-> amount, payment |-> p, settlement |-> s]
    OBVIOUS
  <2>2. Posting(g, account, direction, amount, p, s) = {e} /\ e.amount = amount
    BY <1>2, <2>1 DEF Posting
  <2> QED
    BY <2>2, AmountOfOne
<1> QED
  BY <1>1, <1>2

Legs(S, account, direction) == {e \in S : e.account = account /\ e.direction = direction}

LEMMA RefundLegsSay ==
    \A p, account, direction : \A e \in RefundLegs(p, account, direction) :
        /\ e.account = account /\ e.direction = direction /\ e.payment = p /\ e.settlement = 0
        /\ \E r \in ProcessedRefunds(p) : e.group = <<"refund", r.id, 0>> /\ e.amount = r.amount
<1> SUFFICES ASSUME NEW p, NEW account, NEW direction, NEW e \in RefundLegs(p, account, direction)
             PROVE  /\ e.account = account /\ e.direction = direction /\ e.payment = p /\ e.settlement = 0
                    /\ \E r \in ProcessedRefunds(p) : e.group = <<"refund", r.id, 0>> /\ e.amount = r.amount
  OBVIOUS
<1>1. PICK r \in ProcessedRefunds(p) : e \in Posting(<<"refund", r.id, 0>>, account, direction, r.amount, p, 0)
  BY DEF RefundLegs
<1> QED
  BY <1>1, PostingIsEntry DEF PostingSays

LEMMA RestLegs ==
    ASSUME NEW p
    PROVE  LET R == RestOf(p)
           IN  /\ Legs(R, "RAZORPAY_CLEARING", "DR")
                     = Posting(<<"capture", p, 0>>, "RAZORPAY_CLEARING", "DR", payments[p].amount, p, 0)
               /\ Legs(R, "RAZORPAY_CLEARING", "CR") = RefundLegs(p, "RAZORPAY_CLEARING", "CR")
               /\ Legs(R, "GATEWAY_FEES", "DR") = {} /\ Legs(R, "SALES", "DR") = {}
               /\ Legs(R, "INPUT_GST", "DR") = {} /\ Legs(R, "INPUT_GST", "CR") = {}
               /\ \A e \in R : e.payment = p /\ e.settlement = 0 /\ e.group[1] \in {"capture", "refund"}
BY PostingIsEntry, RefundLegsSay DEF PostingSays, RestOf, Legs

LEMMA PostedLegs ==
    ASSUME NEW p, NEW g, NEW account \in {"GATEWAY_FEES", "SALES"}
    PROVE  LET S == PostedAs(p, g, account)
               s == payments[p].settlement
           IN  /\ Legs(S, "RAZORPAY_CLEARING", "DR") = {}
               /\ Legs(S, "RAZORPAY_CLEARING", "CR")
                     = Posting(g, "RAZORPAY_CLEARING", "CR", Gross(p), p, s)
               /\ Legs(S, account, "DR") = Posting(g, account, "DR", ItemOf(p).fee, p, s)
               /\ \A other \in {"GATEWAY_FEES", "SALES"} \ {account} : Legs(S, other, "DR") = {}
               /\ Legs(S, "INPUT_GST", "DR") = Posting(g, "INPUT_GST", "DR", ItemOf(p).tax, p, s)
               /\ Legs(S, "INPUT_GST", "CR") = {}
               /\ \A e \in S : e.payment = p /\ e.settlement = s /\ e.group = g
BY PostingIsEntry DEF PostingSays, PostedAs, Legs
-----------------------------------------------------------------------------
\* Sums over the books.

LegSum(S, account, direction) == AmountSum(Legs(S, account, direction))
OfPayment(S, p) == {e \in S : e.payment = p}
InGroup(S, g, direction) == {e \in S : e.group = g /\ e.direction = direction}
Balanced(S) == \A g : AmountSum(InGroup(S, g, "DR")) = AmountSum(InGroup(S, g, "CR"))

LEMMA AmountJoin ==
    ASSUME NEW S, NEW T, Amounts(S), Amounts(T), S \cap T = {}
    PROVE  AmountSum(S \cup T) = AmountSum(S) + AmountSum(T) /\ Amounts(S \cup T)
<1> DEFINE f == [x \in S \cup T |-> x.amount]
<1>1. /\ IsFiniteSet(S) /\ IsFiniteSet(T) /\ IsFiniteSet(S \cup T)
      /\ \A x \in S \cup T : x.amount \in Int /\ f[x] = x.amount
  BY FS_Union DEF Amounts
<1> HIDE DEF f
<1>2. IntegerOn(f, S) /\ IntegerOn(f, T)
  BY <1>1 DEF IntegerOn
<1>3. PICK U : U = S \cup T
  OBVIOUS
<1>4. AmountSum(U) = SumFunctionOnSet(f, U)
  BY <1>1, <1>3, AmountSumIsSum
<1>5. AmountSum(S) = SumFunctionOnSet(f, S) /\ AmountSum(T) = SumFunctionOnSet(f, T)
  BY <1>1, AmountSumIsSum
<1>6. SumFunctionOnSet(f, S \cup T) = SumFunctionOnSet(f, S) + SumFunctionOnSet(f, T)
  BY <1>1, <1>2, SumUnion
<1>7. AmountSum(S \cup T) = AmountSum(S) + AmountSum(T)
  BY <1>3, <1>4, <1>5, <1>6
<1>8. Amounts(S \cup T)
  BY <1>1 DEF Amounts
<1> QED
  BY <1>7, <1>8

\* What belongs to one of several adds up over them.
LEMMA AmountByClass ==
    ASSUME NEW S, Amounts(S), NEW D, IsFiniteSet(D), NEW k, \A e \in S : k[e] \in D,
           NEW F, \A d \in D : F[d] = AmountSum(ClassOf(k, S, d))
    PROVE  AmountSum(S) = SumFunctionOnSet(F, D) /\ IntegerOn(F, D)
<1> DEFINE f == [e \in S |-> e.amount]
<1>1. IsFiniteSet(S) /\ IntegerOn(f, S) /\ \A e \in S : f[e] = e.amount
  BY DEF Amounts, IntegerOn
<1> HIDE DEF f
<1>2. ASSUME NEW d \in D
      PROVE  F[d] = SumFunctionOnSet(f, ClassOf(k, S, d)) /\ F[d] \in Int
  <2>1. PICK C : C = ClassOf(k, S, d)
    OBVIOUS
  <2>2. C \in SUBSET S /\ IsFiniteSet(C)
    BY <1>1, <2>1, FS_Subset DEF ClassOf
  <2>3. AmountSum(C) = SumFunctionOnSet(f, C) /\ AmountSum(C) \in Int
    BY <1>1, <2>2, AmountSumIsSum, AmountWhole
  <2>4. F[d] = AmountSum(C)
    BY <2>1
  <2> QED
    BY <2>1, <2>3, <2>4
<1>3. SumFunctionOnSet(F, D) = SumFunctionOnSet(f, S)
  BY <1>1, <1>2, SumByClass
<1>4. AmountSum(S) = SumFunctionOnSet(f, S)
  BY <1>1, AmountSumIsSum
<1> QED
  BY <1>2, <1>3, <1>4 DEF IntegerOn

LEMMA AmountByPayment ==
    ASSUME NEW S, Amounts(S), NEW D, IsFiniteSet(D), \A e \in S : e.payment \in D,
           NEW F, \A d \in D : F[d] = AmountSum(OfPayment(S, d))
    PROVE  AmountSum(S) = SumFunctionOnSet(F, D) /\ IntegerOn(F, D)
<1> DEFINE k == [e \in S |-> e.payment]
<1>1. \A e \in S : k[e] = e.payment
  OBVIOUS
<1> HIDE DEF k
<1>2. \A e \in S : k[e] \in D
  BY <1>1
<1>3. \A d \in D : ClassOf(k, S, d) = OfPayment(S, d)
  BY <1>1 DEF ClassOf, OfPayment
<1>4. \A d \in D : F[d] = AmountSum(ClassOf(k, S, d))
  BY <1>3
<1> QED
  BY <1>2, <1>4, AmountByClass

LEMMA LegsJoin ==
    ASSUME NEW S, NEW T, Amounts(S), Amounts(T), S \cap T = {}, NEW account, NEW direction
    PROVE  LegSum(S \cup T, account, direction)
             = LegSum(S, account, direction) + LegSum(T, account, direction)
<1>1. PICK U, V : U = Legs(S, account, direction) /\ V = Legs(T, account, direction)
  OBVIOUS
<1>2. U \in SUBSET S /\ V \in SUBSET T /\ U \cap V = {} /\ Legs(S \cup T, account, direction) = U \cup V
  BY <1>1 DEF Legs
<1>3. Amounts(U) /\ Amounts(V)
  BY <1>2, AmountWhole
<1>4. AmountSum(U \cup V) = AmountSum(U) + AmountSum(V)
  BY <1>2, <1>3, AmountJoin
<1> QED
  BY <1>1, <1>2, <1>4 DEF LegSum

LEMMA BalanceJoin ==
    ASSUME NEW S, NEW T, Amounts(S), Amounts(T), S \cap T = {}, Balanced(S), Balanced(T)
    PROVE  Balanced(S \cup T)
<1> SUFFICES ASSUME NEW g
             PROVE  AmountSum(InGroup(S \cup T, g, "DR")) = AmountSum(InGroup(S \cup T, g, "CR"))
  BY DEF Balanced
<1>1. ASSUME NEW direction
      PROVE  AmountSum(InGroup(S \cup T, g, direction))
               = AmountSum(InGroup(S, g, direction)) + AmountSum(InGroup(T, g, direction))
  <2>1. PICK U, V : U = InGroup(S, g, direction) /\ V = InGroup(T, g, direction)
    OBVIOUS
  <2>2. U \in SUBSET S /\ V \in SUBSET T /\ U \cap V = {} /\ InGroup(S \cup T, g, direction) = U \cup V
    BY <2>1 DEF InGroup
  <2>3. Amounts(U) /\ Amounts(V)
    BY <2>2, AmountWhole
  <2>4. AmountSum(U \cup V) = AmountSum(U) + AmountSum(V)
    BY <2>2, <2>3, AmountJoin
  <2> QED
    BY <2>1, <2>2, <2>4
<1>2. /\ AmountSum(InGroup(S, g, "DR")) = AmountSum(InGroup(S, g, "CR"))
      /\ AmountSum(InGroup(T, g, "DR")) = AmountSum(InGroup(T, g, "CR"))
  BY DEF Balanced
<1> QED
  BY <1>1, <1>2

\* What a settlement posts of a payment, in a group of its own that balances.
LEMMA PostedSums ==
    ASSUME NEW p, NEW g, NEW account \in {"GATEWAY_FEES", "SALES"},
           Gross(p) \in Nat, ItemOf(p).fee \in Nat, ItemOf(p).tax \in Nat
    PROVE  LET S == PostedAs(p, g, account)
           IN  /\ Amounts(S) /\ Balanced(S)
               /\ LegSum(S, "RAZORPAY_CLEARING", "DR") = 0
               /\ LegSum(S, "RAZORPAY_CLEARING", "CR") = Gross(p)
               /\ LegSum(S, account, "DR") = ItemOf(p).fee
               /\ \A other \in {"GATEWAY_FEES", "SALES"} \ {account} : LegSum(S, other, "DR") = 0
               /\ LegSum(S, "INPUT_GST", "DR") = ItemOf(p).tax
               /\ LegSum(S, "INPUT_GST", "CR") = 0
<1>1. PICK gross, fee, tax, net, s, side, S :
         /\ gross = Gross(p) /\ fee = ItemOf(p).fee /\ tax = ItemOf(p).tax
         /\ net = gross - fee - tax /\ s = payments[p].settlement
         /\ side = (IF net >= 0 THEN "DR" ELSE "CR") /\ S = PostedAs(p, g, account)
  OBVIOUS
<1>2. gross \in Nat /\ fee \in Nat /\ tax \in Nat /\ net \in Int /\ Abs(net) \in Int /\ Abs(net) >= 0
  BY <1>1 DEF Abs
<1>3. PICK B, F, T, C :
         /\ B = Posting(g, "BANK", side, Abs(net), p, s) /\ F = Posting(g, account, "DR", fee, p, s)
         /\ T = Posting(g, "INPUT_GST", "DR", tax, p, s)
         /\ C = Posting(g, "RAZORPAY_CLEARING", "CR", gross, p, s)
  OBVIOUS
<1>4. S = B \cup F \cup T \cup C
  BY <1>1, <1>3 DEF PostedAs
<1>5. /\ \A e \in B : e.group = g /\ e.account = "BANK" /\ e.direction = side
      /\ \A e \in F : e.group = g /\ e.account = account /\ e.direction = "DR"
      /\ \A e \in T : e.group = g /\ e.account = "INPUT_GST" /\ e.direction = "DR"
      /\ \A e \in C : e.group = g /\ e.account = "RAZORPAY_CLEARING" /\ e.direction = "CR"
  BY <1>3, PostingIsEntry DEF PostingSays
<1>6. /\ Amounts(B) /\ AmountSum(B) = Abs(net) /\ Amounts(F) /\ AmountSum(F) = fee
      /\ Amounts(T) /\ AmountSum(T) = tax /\ Amounts(C) /\ AmountSum(C) = gross
  <2>1. fee \in Int /\ fee >= 0 /\ tax \in Int /\ tax >= 0 /\ gross \in Int /\ gross >= 0
    BY <1>2
  <2> QED
    BY <1>2, <1>3, <2>1, PostingSum
<1>7. B \cap F = {} /\ (B \cup F) \cap T = {} /\ (B \cup F \cup T) \cap C = {} /\ F \cap T = {} /\ B \cap C = {}
  BY <1>5
<1>8. /\ Amounts(B \cup F) /\ AmountSum(B \cup F) = Abs(net) + fee
      /\ Amounts(F \cup T) /\ AmountSum(F \cup T) = fee + tax
      /\ Amounts(B \cup C) /\ AmountSum(B \cup C) = Abs(net) + gross
  BY <1>6, <1>7, AmountJoin
<1>9. Amounts(B \cup F \cup T) /\ AmountSum(B \cup F \cup T) = Abs(net) + fee + tax
  BY <1>6, <1>7, <1>8, AmountJoin
<1>10. Amounts(S)
  BY <1>4, <1>6, <1>7, <1>9, AmountJoin
<1>11. Balanced(S)
  <2> SUFFICES ASSUME NEW h
               PROVE  AmountSum(InGroup(S, h, "DR")) = AmountSum(InGroup(S, h, "CR"))
    BY DEF Balanced
  <2>1. CASE h # g
    <3>1. InGroup(S, h, "DR") = {} /\ InGroup(S, h, "CR") = {}
      BY <1>4, <1>5, <2>1 DEF InGroup
    <3> QED
      BY <3>1
  <2>2. CASE h = g /\ net >= 0
    <3>1. InGroup(S, h, "DR") = B \cup F \cup T /\ InGroup(S, h, "CR") = C
      BY <1>1, <1>4, <1>5, <2>2 DEF InGroup
    <3>2. Abs(net) + fee + tax = gross
      BY <1>1, <1>2, <2>2 DEF Abs
    <3> QED
      BY <1>6, <1>9, <3>1, <3>2
  <2>3. CASE h = g /\ ~ net >= 0
    <3>1. InGroup(S, h, "DR") = F \cup T /\ InGroup(S, h, "CR") = B \cup C
      BY <1>1, <1>4, <1>5, <2>3 DEF InGroup
    <3>2. Abs(net) + gross = fee + tax
      BY <1>1, <1>2, <2>3 DEF Abs
    <3> QED
      BY <1>8, <3>1, <3>2
  <2> QED
    BY <2>1, <2>2, <2>3
<1>12. /\ Legs(S, "RAZORPAY_CLEARING", "DR") = {}
       /\ Legs(S, "RAZORPAY_CLEARING", "CR") = C
       /\ Legs(S, account, "DR") = F
       /\ \A other \in {"GATEWAY_FEES", "SALES"} \ {account} : Legs(S, other, "DR") = {}
       /\ Legs(S, "INPUT_GST", "DR") = T
       /\ Legs(S, "INPUT_GST", "CR") = {}
  BY <1>1, <1>3, PostedLegs
<1> QED
  BY <1>1, <1>6, <1>10, <1>11, <1>12, AmountEmpty DEF LegSum

\* The two legs of every refund, each in a group of its own.
LEMMA RefundLegOf ==
    ASSUME Typed, NEW p, NEW account, NEW direction, NEW r \in ProcessedRefunds(p)
    PROVE  LET S == RefundLegs(p, account, direction)
           IN  InGroup(S, <<"refund", r.id, 0>>, direction)
                 = Posting(<<"refund", r.id, 0>>, account, direction, r.amount, p, 0)
<1>1. PICK S, P : /\ S = RefundLegs(p, account, direction)
                  /\ P = Posting(<<"refund", r.id, 0>>, account, direction, r.amount, p, 0)
  OBVIOUS
<1>2. \A e \in S : e.direction = direction /\ \E q \in ProcessedRefunds(p) : e.group = <<"refund", q.id, 0>>
  BY <1>1, RefundLegsSay
<1>4. \A e \in P : e.group = <<"refund", r.id, 0>> /\ e.direction = direction
  BY <1>1, PostingIsEntry DEF PostingSays
<1>5. P \subseteq S
  BY <1>1, Zenon DEF RefundLegs
<1>6. \A q \in ProcessedRefunds(p) : q.id = r.id => q = r
  BY DEF ProcessedRefunds, RefundsOf, Typed, RefundsTyped
<1>7. ASSUME NEW e \in S, e.group = <<"refund", r.id, 0>> PROVE e \in P
  <2>1. PICK q \in ProcessedRefunds(p) :
            e \in Posting(<<"refund", q.id, 0>>, account, direction, q.amount, p, 0)
    BY <1>1 DEF RefundLegs
  <2>2. e.group = <<"refund", q.id, 0>>
    BY <2>1, PostingIsEntry DEF PostingSays
  <2>3. q = r
    BY <1>6, <1>7, <2>2
  <2> QED
    BY <1>1, <2>1, <2>3
<1>9. InGroup(S, <<"refund", r.id, 0>>, direction) = P
  BY <1>2, <1>4, <1>5, <1>7 DEF InGroup
<1> QED
  BY <1>1, <1>9

LEMMA RefundLegsWhole ==
    ASSUME Typed, Drawn, NEW p, NEW account, NEW direction
    PROVE  LET S == RefundLegs(p, account, direction)
           IN  Amounts(S) /\ AmountSum(S) = AmountSum(ProcessedRefunds(p))
<1>1. PICK S, R : S = RefundLegs(p, account, direction) /\ R = ProcessedRefunds(p)
  OBVIOUS
<1>2. /\ IsFiniteSet(R) /\ Amounts(R)
      /\ \A r \in R : r.amount \in Int /\ r.amount >= 0
      /\ \A q, r \in R : q.id = r.id => q = r
  <2>1. R \subseteq refunds
    BY <1>1 DEF ProcessedRefunds, RefundsOf
  <2> QED
    BY <2>1, FS_Subset DEF Typed, RefundsTyped, IsRefund, Drawn, Amounts
<1> DEFINE leg == [r \in R |-> Posting(<<"refund", r.id, 0>>, account, direction, r.amount, p, 0)]
           F == [r \in R |-> r.amount]
<1>3. \A r \in R : leg[r] = Posting(<<"refund", r.id, 0>>, account, direction, r.amount, p, 0)
                   /\ F[r] = r.amount
  OBVIOUS
<1>4. S = UNION {leg[r] : r \in R}
  BY <1>1 DEF RefundLegs
<1> HIDE DEF leg, F
<1>5. ASSUME NEW r \in R PROVE Amounts(leg[r]) /\ AmountSum(leg[r]) = r.amount
  <2>1. PICK P : P = Posting(<<"refund", r.id, 0>>, account, direction, r.amount, p, 0)
    OBVIOUS
  <2>2. r.amount \in Int /\ r.amount >= 0
    BY <1>2
  <2>3. Amounts(P) /\ AmountSum(P) = r.amount
    BY <2>1, <2>2, PostingSum
  <2> QED
    BY <1>3, <2>1, <2>3
<1>6. IsFiniteSet(S)
  <2>1. PICK U : U = {leg[r] : r \in R}
    OBVIOUS
  <2>2. IsFiniteSet(U)
    BY <1>2, <2>1, ImageFinite
  <2>3. \A T \in U : IsFiniteSet(T)
    BY <1>5, <2>1 DEF Amounts
  <2> QED
    BY <1>4, <2>1, <2>2, <2>3, FS_UNION
<1>7. Amounts(S)
  BY <1>4, <1>5, <1>6 DEF Amounts
<1> DEFINE k == [e \in S |-> CHOOSE r \in R : r.id = e.group[2]]
<1>8. \A e \in S : k[e] \in R /\ k[e].id = e.group[2]
  <2>1. \A e \in S : \E r \in R : r.id = e.group[2]
    BY <1>1, RefundLegsSay
  <2> QED
    BY <2>1
<1> HIDE DEF k
<1>9. ASSUME NEW r \in R PROVE F[r] = AmountSum(ClassOf(k, S, r))
  <2>1. PICK h : h = <<"refund", r.id, 0>>
    OBVIOUS
  <2>2. \A e \in S : e.direction = direction /\ \E q \in R : e.group = <<"refund", q.id, 0>>
    BY <1>1, RefundLegsSay
  <2>3. \A e \in S : e.group[2] = r.id <=> e.group = h
    BY <2>1, <2>2
  <2>4. ClassOf(k, S, r) = InGroup(S, h, direction)
    BY <1>2, <1>8, <2>2, <2>3 DEF ClassOf, InGroup
  <2>5. InGroup(S, h, direction) = leg[r]
    BY <1>1, <1>3, <2>1, RefundLegOf
  <2> QED
    BY <1>3, <1>5, <2>4, <2>5
<1>10. AmountSum(S) = SumFunctionOnSet(F, R)
  BY <1>2, <1>7, <1>8, <1>9, AmountByClass
<1>11. AmountSum(R) = SumFunctionOnSet(F, R)
  BY <1>2, <1>3, AmountSumIsSum
<1> QED
  BY <1>1, <1>7, <1>10, <1>11

LEMMA RefundLegSums ==
    ASSUME Typed, Drawn, NEW p
    PROVE  LET E == RefundLegs(p, "REFUNDS", "DR")
               F == RefundLegs(p, "RAZORPAY_CLEARING", "CR")
           IN  /\ Amounts(E) /\ Amounts(F) /\ AmountSum(F) = AmountSum(ProcessedRefunds(p))
               /\ \A h : AmountSum(InGroup(E, h, "DR")) = AmountSum(InGroup(F, h, "CR"))
<1>1. PICK E, F, R : /\ E = RefundLegs(p, "REFUNDS", "DR") /\ R = ProcessedRefunds(p)
                     /\ F = RefundLegs(p, "RAZORPAY_CLEARING", "CR")
  OBVIOUS
<1>2. Amounts(E) /\ Amounts(F) /\ AmountSum(F) = AmountSum(R)
  BY <1>1, RefundLegsWhole
<1>3. ASSUME NEW h PROVE AmountSum(InGroup(E, h, "DR")) = AmountSum(InGroup(F, h, "CR"))
  <2>1. CASE \E r \in R : h = <<"refund", r.id, 0>>
    <3>1. PICK r \in R : h = <<"refund", r.id, 0>>
      BY <2>1
    <3>2. r \in ProcessedRefunds(p) /\ r.amount \in Int /\ r.amount >= 0
      BY <1>1 DEF ProcessedRefunds, RefundsOf, Typed, RefundsTyped, IsRefund, Drawn
    <3>3. /\ InGroup(E, h, "DR") = Posting(<<"refund", r.id, 0>>, "REFUNDS", "DR", r.amount, p, 0)
          /\ InGroup(F, h, "CR") = Posting(<<"refund", r.id, 0>>, "RAZORPAY_CLEARING", "CR", r.amount, p, 0)
      BY <1>1, <3>1, <3>2, RefundLegOf
    <3> QED
      BY <3>2, <3>3, PostingSum
  <2>2. CASE ~ \E r \in R : h = <<"refund", r.id, 0>>
    <3>1. \A e \in E \cup F : \E r \in R : e.group = <<"refund", r.id, 0>>
      BY <1>1, RefundLegsSay
    <3>2. \A e \in E \cup F : e.group # h
      BY <2>2, <3>1
    <3>3. InGroup(E, h, "DR") = {} /\ InGroup(F, h, "CR") = {}
      BY <3>2 DEF InGroup
    <3> QED
      BY <3>3
  <2> QED
    BY <2>1, <2>2
<1> QED
  BY <1>1, <1>2, <1>3

\* What is left of a payment: it was captured, and its refunds were paid.
LEMMA RestSums ==
    ASSUME Typed, Drawn, NEW p \in Own
    PROVE  LET S == RestOf(p)
           IN  /\ Amounts(S) /\ Balanced(S)
               /\ LegSum(S, "RAZORPAY_CLEARING", "DR") = payments[p].amount
               /\ LegSum(S, "RAZORPAY_CLEARING", "CR") = AmountSum(ProcessedRefunds(p))
               /\ LegSum(S, "GATEWAY_FEES", "DR") = 0 /\ LegSum(S, "SALES", "DR") = 0
               /\ LegSum(S, "INPUT_GST", "DR") = 0 /\ LegSum(S, "INPUT_GST", "CR") = 0
<1>1. PICK R, c, r : /\ R = ProcessedRefunds(p) /\ c = <<"capture", p, 0>> /\ r = payments[p].amount
  OBVIOUS
<1>2. r \in Int /\ r >= 0
  BY <1>1 DEF Own, Typed, PaymentsTyped, Drawn, PaymentDrawn
<1>3. PICK C, D, E, F :
         /\ C = Posting(c, "RAZORPAY_CLEARING", "DR", r, p, 0)
         /\ D = Posting(c, "SALES", "CR", r, p, 0)
         /\ E = RefundLegs(p, "REFUNDS", "DR") /\ F = RefundLegs(p, "RAZORPAY_CLEARING", "CR")
  OBVIOUS
<1>4. RestOf(p) = C \cup D \cup E \cup F
  BY <1>1, <1>3 DEF RestOf
<1>5. /\ Amounts(C) /\ AmountSum(C) = r /\ Amounts(D) /\ AmountSum(D) = r
  BY <1>2, <1>3, PostingSum
<1>6. /\ \A e \in C : e.group = c /\ e.account = "RAZORPAY_CLEARING" /\ e.direction = "DR"
      /\ \A e \in D : e.group = c /\ e.account = "SALES" /\ e.direction = "CR"
  BY <1>3, PostingIsEntry DEF PostingSays
<1>7. /\ \A e \in E : e.account = "REFUNDS" /\ e.direction = "DR"
                      /\ \E q \in R : e.group = <<"refund", q.id, 0>> /\ e.amount = q.amount
      /\ \A e \in F : e.account = "RAZORPAY_CLEARING" /\ e.direction = "CR"
                      /\ \E q \in R : e.group = <<"refund", q.id, 0>> /\ e.amount = q.amount
  BY <1>1, <1>3, RefundLegsSay
<1>8. /\ Amounts(E) /\ Amounts(F) /\ AmountSum(F) = AmountSum(R)
      /\ \A h : AmountSum(InGroup(E, h, "DR")) = AmountSum(InGroup(F, h, "CR"))
  BY <1>1, <1>3, RefundLegSums
<1>9. C \cap D = {} /\ E \cap F = {} /\ (C \cup D) \cap (E \cup F) = {}
  BY <1>1, <1>6, <1>7
<1>10. Amounts(C \cup D) /\ Amounts(E \cup F)
  BY <1>5, <1>8, <1>9, AmountJoin
<1>11. Balanced(C \cup D)
  <2> SUFFICES ASSUME NEW h
               PROVE  AmountSum(InGroup(C \cup D, h, "DR")) = AmountSum(InGroup(C \cup D, h, "CR"))
    BY DEF Balanced
  <2>1. CASE h = c
    <3>1. InGroup(C \cup D, h, "DR") = C /\ InGroup(C \cup D, h, "CR") = D
      BY <1>6, <2>1 DEF InGroup
    <3> QED
      BY <1>5, <3>1
  <2>2. CASE h # c
    <3>1. InGroup(C \cup D, h, "DR") = {} /\ InGroup(C \cup D, h, "CR") = {}
      BY <1>6, <2>2 DEF InGroup
    <3> QED
      BY <3>1
  <2> QED
    BY <2>1, <2>2
<1>12. Balanced(E \cup F)
  <2> SUFFICES ASSUME NEW h
               PROVE  AmountSum(InGroup(E \cup F, h, "DR")) = AmountSum(InGroup(E \cup F, h, "CR"))
    BY DEF Balanced
  <2>1. InGroup(E \cup F, h, "DR") = InGroup(E, h, "DR") /\ InGroup(E \cup F, h, "CR") = InGroup(F, h, "CR")
    BY <1>7 DEF InGroup
  <2> QED
    BY <1>8, <2>1
<1>13. Amounts(RestOf(p)) /\ Balanced(RestOf(p))
  <2>1. RestOf(p) = (C \cup D) \cup (E \cup F)
    BY <1>4
  <2> QED
    BY <1>9, <1>10, <1>11, <1>12, <2>1, AmountJoin, BalanceJoin
<1>14. /\ Legs(RestOf(p), "RAZORPAY_CLEARING", "DR") = C /\ Legs(RestOf(p), "RAZORPAY_CLEARING", "CR") = F
       /\ Legs(RestOf(p), "GATEWAY_FEES", "DR") = {} /\ Legs(RestOf(p), "SALES", "DR") = {}
       /\ Legs(RestOf(p), "INPUT_GST", "DR") = {} /\ Legs(RestOf(p), "INPUT_GST", "CR") = {}
  BY <1>1, <1>3, RestLegs
<1> QED
  BY <1>1, <1>5, <1>8, <1>13, <1>14, AmountEmpty DEF LegSum
-----------------------------------------------------------------------------
\* The invariant of the books: until they are posted nobody touches them, and from then
\* on every payment is posted as the planters of delta 3 left it.

Rows3 == Expecting("D3_LEDGER")
LatePosted(p) ==
    UNION {LatePostings(r) :
        r \in {q \in refunds : q.payment = p /\ q.status = "PROCESSED" /\ q.period \in Settlement}}
Shape3(p, X) == OfPayment(ledger, p) = RestOf(p) \cup X
PostedTwice(p) == PostedAs(p, Group(p), "GATEWAY_FEES") \cup PostedAs(p, Copy(p), "GATEWAY_FEES")

\* What a row of ground truth says was done to the books of its payment.
Posted(p, g) ==
    \/ /\ g.type = "D3_DUPLICATE_LEDGER" /\ g.expects = "DUPLICATE_LEDGER_ENTRY"
       /\ g.subject = Copy(p) /\ g.amount = Gross(p) /\ Shape3(p, PostedTwice(p))
    \/ /\ g.type = "D3_MISSING_LEDGER" /\ g.expects = "MISSING_LEDGER_ENTRY"
       /\ g.subject = Group(p) /\ g.amount = Gross(p) /\ Shape3(p, {})
    \/ /\ g.type = "D3_WRONG_ACCOUNT" /\ g.expects = "MISPOSTED_ACCOUNT"
       /\ g.subject = Group(p) /\ g.amount = ItemOf(p).fee /\ g.amount > 0
       /\ Shape3(p, PostedAs(p, Group(p), "SALES"))
Row3(p, g) ==
    /\ Posted(p, g) /\ g.resolvable
    /\ g.settlement = payments[p].settlement /\ g.settlement \in claimed3

BooksKept ==
    /\ IsFiniteSet(ledger)
    /\ \A p \in Own : (\A g \in Rows3 : g.subject[2] # p)
                      => Shape3(p, PostedAs(p, Group(p), "GATEWAY_FEES"))
    /\ \A p : p \notin Own => OfPayment(ledger, p) = LatePosted(p)
    /\ \A g \in Rows3 : \E p \in Own : g.subject[2] = p /\ Row3(p, g)
    /\ \A g, h \in Rows3 : g.settlement = h.settlement => g = h
LedgerInv ==
    /\ stage \in 0 .. 21
    /\ stage < 17 => ledger = {} /\ claimed3 = {} /\ Rows3 = {}
    /\ stage >= 17 => BooksKept

EarlyTypes ==
    {"D1_FEE_RATE_DRIFT", "D1_TAX_AGGREGATE_ROUNDING", "D1_REFUND_NOT_DEDUCTED",
     "D1_REFUND_PARTIAL_MULTI", "D1_REFUND_OUTSIDE_PERIOD", "D1_HEADER_ROLLUP_MISMATCH",
     "D1_ADJUSTMENT_APPLIED", "D1_FEE_CORRECTED_BY_ADJUSTMENT", "D2_BANK_LINE",
     "D2_SAME_AMOUNT_SAME_DAY", "D4_ALLOC_EXCEEDS_PAYMENT", "D4_ALLOC_TRANSFER_DIVERGENCE",
     "D4_TRANSFER_MISSING", "UNRESOLVABLE_PHANTOM_DEBIT", "UNRESOLVABLE_AMBIGUOUS_CREDIT",
     "UNRESOLVABLE_PHANTOM_PAYOUT_GAP"}
LateTypes == {"D3_DUPLICATE_LEDGER", "D3_MISSING_LEDGER", "D3_WRONG_ACCOUNT"}

LEMMA EarlyPositions ==
    /\ \A type \in EarlyTypes : Position(type) \in 1 .. 16
    /\ \A type \in LateTypes : Position(type) \in 18 .. 20
<1>1. /\ Position("D1_FEE_RATE_DRIFT") = 1 /\ Position("D1_TAX_AGGREGATE_ROUNDING") = 2
      /\ Position("D1_REFUND_NOT_DEDUCTED") = 3 /\ Position("D1_REFUND_PARTIAL_MULTI") = 4
  BY DEF Position, Plan
<1>2. /\ Position("D1_REFUND_OUTSIDE_PERIOD") = 5 /\ Position("D1_HEADER_ROLLUP_MISMATCH") = 6
      /\ Position("D1_ADJUSTMENT_APPLIED") = 7 /\ Position("D1_FEE_CORRECTED_BY_ADJUSTMENT") = 8
  BY DEF Position, Plan
<1>3. /\ Position("D2_BANK_LINE") = 9 /\ Position("D2_SAME_AMOUNT_SAME_DAY") = 10
      /\ Position("D4_ALLOC_EXCEEDS_PAYMENT") = 11 /\ Position("D4_ALLOC_TRANSFER_DIVERGENCE") = 12
  BY DEF Position, Plan
<1>4. /\ Position("D4_TRANSFER_MISSING") = 13 /\ Position("UNRESOLVABLE_PHANTOM_DEBIT") = 14
      /\ Position("UNRESOLVABLE_AMBIGUOUS_CREDIT") = 15
      /\ Position("UNRESOLVABLE_PHANTOM_PAYOUT_GAP") = 16
  BY DEF Position, Plan
<1>5. /\ Position("D3_DUPLICATE_LEDGER") = 18 /\ Position("D3_MISSING_LEDGER") = 19
      /\ Position("D3_WRONG_ACCOUNT") = 20
  BY DEF Position, Plan
<1>6. ASSUME NEW type \in EarlyTypes PROVE Position(type) \in 1 .. 16
  BY <1>1, <1>2, <1>3, <1>4 DEF EarlyTypes
<1>7. ASSUME NEW type \in LateTypes PROVE Position(type) \in 18 .. 20
  BY <1>5 DEF LateTypes
<1> QED
  BY <1>6, <1>7

\* The planters of the other deltas run before the books are posted.
Early == /\ UNCHANGED <<ledger, claimed3>> /\ truth \subseteq truth'
         /\ \A g \in truth' \ truth : g.kind # "D3_LEDGER"
         /\ \E type \in EarlyTypes : Turn(type)

LEMMA EarlyPlanters ==
    ASSUME NEW s \in Settlement,
           \/ FeeRateDrift(s) \/ TaxAggregateRounding(s) \/ RefundNotDeducted(s)
           \/ RefundPartialMulti(s) \/ RefundOutsideWindow(s) \/ HeaderRollupMismatch(s)
           \/ AdjustmentApplied(s) \/ FeeCorrectedByAdjustment(s) \/ PhantomDebit(s)
           \/ BankLine(s, "D2_BANK_LINE") \/ BankLine(s, "UNRESOLVABLE_AMBIGUOUS_CREDIT")
           \/ \E x \in Settlement : RefundOutsidePeriod(s, x) \/ SameAmountSameDay(s, x)
    PROVE  Early
<1>1. CASE FeeRateDrift(s)
  BY <1>1 DEF FeeRateDrift, Early, EarlyTypes, Truth
<1>2. CASE TaxAggregateRounding(s)
  BY <1>2 DEF TaxAggregateRounding, Early, EarlyTypes, Truth
<1>3. CASE RefundNotDeducted(s)
  BY <1>3 DEF RefundNotDeducted, Early, EarlyTypes, Truth
<1>4. CASE RefundPartialMulti(s)
  BY <1>4 DEF RefundPartialMulti, Early, EarlyTypes, Truth
<1>5. CASE RefundOutsideWindow(s)
  BY <1>5 DEF RefundOutsideWindow, Early, EarlyTypes, Trap, Truth
<1>6. CASE HeaderRollupMismatch(s)
  BY <1>6 DEF HeaderRollupMismatch, Early, EarlyTypes, Truth
<1>7. CASE AdjustmentApplied(s)
  BY <1>7 DEF AdjustmentApplied, Early, EarlyTypes, Truth
<1>8. CASE FeeCorrectedByAdjustment(s)
  BY <1>8 DEF FeeCorrectedByAdjustment, Early, EarlyTypes, Truth
<1>9. CASE PhantomDebit(s)
  BY <1>9 DEF PhantomDebit, Early, EarlyTypes, Truth
<1>10. CASE BankLine(s, "D2_BANK_LINE") \/ BankLine(s, "UNRESOLVABLE_AMBIGUOUS_CREDIT")
  BY <1>10 DEF BankLine, tables, Early, EarlyTypes
<1>11. ASSUME NEW x \in Settlement, RefundOutsidePeriod(s, x) PROVE Early
  <2>1. PICK i, r : Trapped(s, x, i, r)
    BY <1>11, TrapIsPlanted
  <2>2. PICK g, h : g = Trap(s, r.id, r) /\ h = Trap(x, Whole(x), r)
    OBVIOUS
  <2>3. truth' = truth \cup {g, h}
    BY <2>1, <2>2 DEF Trapped
  <2>4. g.kind # "D3_LEDGER" /\ h.kind # "D3_LEDGER"
    BY <2>2 DEF Trap, Truth
  <2>5. UNCHANGED <<ledger, claimed3>> /\ Turn("D1_REFUND_OUTSIDE_PERIOD")
    BY <1>11, SMTT(20) DEF RefundOutsidePeriod
  <2> QED
    BY <2>3, <2>4, <2>5 DEF Early, EarlyTypes
<1>12. ASSUME NEW x \in Settlement, SameAmountSameDay(s, x) PROVE Early
  BY <1>12 DEF SameAmountSameDay, Early, EarlyTypes, Truth
<1> QED
  BY <1>1, <1>2, <1>3, <1>4, <1>5, <1>6, <1>7, <1>8, <1>9, <1>10, <1>11, <1>12

LEMMA EarlyPayouts ==
    ASSUME PayoutNext
    PROVE  Early
<1>1. PICK a \in SettledAllocs :
          AllocExceeds(a) \/ AllocDiverges(a) \/ TransferMissing(a) \/ PhantomPayoutGap(a)
  BY DEF PayoutNext
<1>2. CASE AllocExceeds(a)
  BY <1>2 DEF AllocExceeds, Plant, PayoutTruth, Truth, tables, Early, EarlyTypes
<1>3. CASE AllocDiverges(a)
  BY <1>3 DEF AllocDiverges, Plant, PayoutTruth, Truth, tables, Early, EarlyTypes
<1>4. CASE TransferMissing(a)
  BY <1>4 DEF TransferMissing, Plant, PayoutTruth, Truth, tables, Early, EarlyTypes
<1>5. CASE PhantomPayoutGap(a)
  BY <1>5 DEF PhantomPayoutGap, Plant, PayoutTruth, Truth, tables, Early, EarlyTypes
<1> QED
  BY <1>1, <1>2, <1>3, <1>4, <1>5

LEMMA EarlyKeeps ==
    ASSUME LedgerInv, Early
    PROVE  LedgerInv'
<1>1. PICK type \in EarlyTypes : Turn(type)
  BY DEF Early
<1>2. Position(type) \in 1 .. 16
  BY EarlyPositions
<1>3. stage <= Position(type) /\ stage' = Position(type)
  BY <1>1 DEF Turn
<1>4. stage < 17 /\ stage' < 17 /\ stage' \in 0 .. 21
  BY <1>2, <1>3 DEF LedgerInv
<1>5. Rows3' = Rows3
  BY DEF Early, Rows3, Expecting
<1>6. ledger' = {} /\ claimed3' = {} /\ Rows3' = {}
  BY <1>4, <1>5 DEF LedgerInv, Early
<1> QED
  BY <1>4, <1>6 DEF LedgerInv
-----------------------------------------------------------------------------
\* The books as they are posted.

LEMMA ItsItem ==
    ASSUME Typed, OneItemEach, NEW p \in Own
    PROVE  /\ ItemOf(p) \in PaidItems /\ PaysFor(ItemOf(p), p)
           /\ ItemOf(p).fee \in Nat /\ ItemOf(p).tax \in Nat
           /\ \A i \in PaidItems : i.ref = <<p>> => i = ItemOf(p)
<1>1. PICK i \in PaidItems : i.ref = <<p>>
  BY DEF OneItemEach
<1>2. i \in items /\ i.type = "PAYMENT"
  BY DEF PaidItems, OfType
<1>3. PICK j : j = ItemOf(p)
  OBVIOUS
<1>4. j \in items /\ j.ref = <<p>> /\ j.type = "PAYMENT"
  BY <1>1, <1>2, <1>3 DEF ItemOf
<1>5. j \in PaidItems
  BY <1>4 DEF PaidItems, OfType
<1>6. PICK q \in Own : PaysFor(j, q)
  BY <1>5 DEF OneItemEach
<1>7. q = p
  BY <1>4, <1>6 DEF PaysFor
<1>8. j.fee \in Nat /\ j.tax \in Nat
  BY <1>4, <1>5 DEF OneItemEach, Typed, ItemsTyped, IsItem
<1>9. \A k \in PaidItems : k.ref = <<p>> => k = j
  BY <1>4, <1>5 DEF OneItemEach
<1> QED
  BY <1>3, <1>5, <1>6, <1>7, <1>8, <1>9

LEMMA GrossWhole ==
    ASSUME Typed, RefundsWithin, NEW p \in Own
    PROVE  /\ Gross(p) \in Nat /\ AmountSum(ProcessedRefunds(p)) \in Int
           /\ payments[p].amount \in Int /\ p \in DOMAIN payments
           /\ Gross(p) = payments[p].amount - AmountSum(ProcessedRefunds(p))
<1>1. Amounts(ProcessedRefunds(p))
  <2>1. ProcessedRefunds(p) \subseteq refunds
    BY DEF ProcessedRefunds, RefundsOf
  <2> QED
    BY <2>1, FS_Subset DEF Typed, RefundsTyped, IsRefund, Amounts
<1>2. AmountSum(ProcessedRefunds(p)) \in Int
  BY <1>1, AmountWhole
<1>3. p \in DOMAIN payments /\ payments[p].amount \in Int
  BY DEF Own, Typed, PaymentsTyped
<1>4. AmountSum(ProcessedRefunds(p)) <= payments[p].amount
  BY <1>3 DEF RefundsWithin
<1> QED
  BY <1>2, <1>3, <1>4 DEF Gross

LEMMA OwnFinite ==
    ASSUME FromBook
    PROVE  IsFiniteSet(Own)
<1>1. PICK book \in Books : payments = book.payments
  BY DEF FromBook
<1>2. IsFiniteSet(DOMAIN payments)
  BY <1>1, BooksAssumption
<1> QED
  BY <1>2, FS_Subset DEF Own

LEMMA SameBooks ==
    ASSUME UNCHANGED <<payments, refunds, items>>, NEW p
    PROVE  /\ RestOf(p)' = RestOf(p) /\ Gross(p)' = Gross(p) /\ ItemOf(p)' = ItemOf(p)
           /\ \A g, account : PostedAs(p, g, account)' = PostedAs(p, g, account)
           /\ LatePosted(p)' = LatePosted(p) /\ Own' = Own
<1>1. ProcessedRefunds(p)' = ProcessedRefunds(p)
  BY DEF ProcessedRefunds, RefundsOf
<1>2. Gross(p)' = Gross(p) /\ ItemOf(p)' = ItemOf(p)
  BY <1>1 DEF Gross, ItemOf
<1>3. RestOf(p)' = RestOf(p)
  <2>1. \A account, direction : RefundLegs(p, account, direction)' = RefundLegs(p, account, direction)
    BY <1>1 DEF RefundLegs
  <2> QED
    BY <2>1 DEF RestOf
<1>4. \A g, account : PostedAs(p, g, account)' = PostedAs(p, g, account)
  BY <1>2 DEF PostedAs
<1>5. LatePosted(p)' = LatePosted(p)
  BY DEF LatePosted
<1> QED
  BY <1>2, <1>3, <1>4, <1>5 DEF Own

LEMMA LateSays ==
    \A p : \A e \in LatePosted(p) : /\ e.payment = p /\ e.group[1] = "late"
                                    /\ e.account \in {"REFUNDS", "BANK"}
<1> SUFFICES ASSUME NEW p, NEW e \in LatePosted(p)
             PROVE  e.payment = p /\ e.group[1] = "late" /\ e.account \in {"REFUNDS", "BANK"}
  OBVIOUS
<1>1. PICK r \in refunds : r.payment = p /\ e \in LatePostings(r)
  BY DEF LatePosted
<1>2. \/ e \in Posting(<<"late", r.id, 0>>, "REFUNDS", "DR", r.amount, r.payment, r.period)
      \/ e \in Posting(<<"late", r.id, 0>>, "BANK", "CR", r.amount, r.payment, r.period)
  BY <1>1 DEF LatePostings
<1> QED
  BY <1>1, <1>2, PostingIsEntry DEF PostingSays

RestSays ==
    \A p : \A e \in RestOf(p) :
        e.payment = p /\ e.settlement = 0 /\ e.group[1] \in {"capture", "refund"}
PostedSays ==
    \A p, g, account :
        account \in {"GATEWAY_FEES", "SALES"}
        => \A e \in PostedAs(p, g, account) :
               e.payment = p /\ e.settlement = payments[p].settlement /\ e.group = g
LEMMA EntriesSay == RestSays /\ PostedSays
<1>1. ASSUME NEW p, NEW e \in RestOf(p)
      PROVE  e.payment = p /\ e.settlement = 0 /\ e.group[1] \in {"capture", "refund"}
  BY <1>1, RestLegs
<1>2. ASSUME NEW p, NEW g, NEW account \in {"GATEWAY_FEES", "SALES"}, NEW e \in PostedAs(p, g, account)
      PROVE  e.payment = p /\ e.settlement = payments[p].settlement /\ e.group = g
  BY <1>2, PostedLegs
<1> QED
  BY <1>1, <1>2 DEF RestSays, PostedSays

LEMMA BuildLedgerKeeps ==
    ASSUME LedgerInv, Typed, Drawn, BookInv, BuildLedger
    PROVE  LedgerInv'
<1>1. /\ stage < 17 /\ stage' = 17
      /\ UNCHANGED <<payments, refunds, items, claimed3, truth>>
  BY PlanPositions DEF BuildLedger
<1>2. Rows3' = {}
  BY <1>1 DEF LedgerInv, Rows3, Expecting
<1>3. PICK L, late :
         /\ L = ledger' /\ late = {q \in refunds : /\ q.payment \notin Own /\ q.status = "PROCESSED"
                                                  /\ q.period \in Settlement}
  OBVIOUS
<1>4. L = (UNION {PaymentPostings(p) : p \in Own}) \cup (UNION {LatePostings(r) : r \in late})
  BY <1>3 DEF BuildLedger, Own
<1>5. \A p : RestOf(p)' = RestOf(p) /\ LatePosted(p)' = LatePosted(p) /\ Own' = Own
             /\ PostedAs(p, Group(p), "GATEWAY_FEES")' = PostedAs(p, Group(p), "GATEWAY_FEES")
  BY <1>1, SameBooks
<1>6. \A p : PaymentPostings(p) = RestOf(p) \cup PostedAs(p, Group(p), "GATEWAY_FEES")
  BY PaymentPosted
<1>7. \A p : \A e \in PaymentPostings(p) : e.payment = p
  <2>1. "GATEWAY_FEES" \in {"GATEWAY_FEES", "SALES"}
    OBVIOUS
  <2> QED
    BY <1>6, <2>1, EntriesSay DEF RestSays, PostedSays
<1>8. \A r : \A e \in LatePostings(r) : e.payment = r.payment
  BY PostingIsEntry DEF PostingSays, LatePostings
<1>9. \A p \in Own : OfPayment(L, p) = PaymentPostings(p)
  BY <1>3, <1>4, <1>7, <1>8 DEF OfPayment
<1>10. \A p : p \notin Own => OfPayment(L, p) = LatePosted(p)
  <2> SUFFICES ASSUME NEW p, p \notin Own PROVE OfPayment(L, p) = LatePosted(p)
    OBVIOUS
  <2>1. \A e : e \in OfPayment(L, p) <=> \E r \in late : r.payment = p /\ e \in LatePostings(r)
    BY <1>4, <1>7, <1>8 DEF OfPayment
  <2>2. \A e : e \in LatePosted(p) <=> \E r \in late : r.payment = p /\ e \in LatePostings(r)
    BY <1>3 DEF LatePosted
  <2>3. PICK U, V : U = OfPayment(L, p) /\ V = LatePosted(p)
    OBVIOUS
  <2>4. U = V
    BY <2>1, <2>2, <2>3
  <2> QED
    BY <2>3, <2>4
<1>11. IsFiniteSet(L)
  <2>1. \A p \in Own : IsFiniteSet(PaymentPostings(p))
    <3> SUFFICES ASSUME NEW p \in Own PROVE IsFiniteSet(PaymentPostings(p))
      OBVIOUS
    <3>1. /\ Gross(p) \in Nat /\ ItemOf(p).fee \in Nat /\ ItemOf(p).tax \in Nat
          /\ "GATEWAY_FEES" \in {"GATEWAY_FEES", "SALES"}
      BY ItsItem, GrossWhole DEF BookInv
    <3>2. Amounts(PostedAs(p, Group(p), "GATEWAY_FEES")) /\ Amounts(RestOf(p))
      BY <3>1, PostedSums, RestSums
    <3> QED
      BY <1>6, <3>2, FS_Union DEF Amounts
  <2>2. \A r : IsFiniteSet(LatePostings(r))
    <3> SUFFICES ASSUME NEW r PROVE IsFiniteSet(LatePostings(r))
      OBVIOUS
    <3>1. \A g, account, direction, amount, p, s : IsFiniteSet(Posting(g, account, direction, amount, p, s))
      BY FS_EmptySet, FS_Singleton DEF Posting
    <3> QED
      BY <3>1, FS_Union DEF LatePostings
  <2> DEFINE own == [p \in Own |-> PaymentPostings(p)]
             lates == [r \in late |-> LatePostings(r)]
  <2>3. IsFiniteSet(Own) /\ IsFiniteSet(late)
    BY <1>3, OwnFinite, FS_Subset DEF BookInv, Typed, RefundsTyped
  <2>4. /\ \A p \in Own : own[p] = PaymentPostings(p)
        /\ \A r \in late : lates[r] = LatePostings(r)
    OBVIOUS
  <2> HIDE DEF own, lates
  <2>5. PICK A, B : A = {own[p] : p \in Own} /\ B = {lates[r] : r \in late}
    OBVIOUS
  <2>6. IsFiniteSet(A) /\ IsFiniteSet(B)
    BY <2>3, <2>5, ImageFinite
  <2>7. (\A T \in A : IsFiniteSet(T)) /\ (\A T \in B : IsFiniteSet(T))
    BY <2>1, <2>2, <2>4, <2>5
  <2>8. IsFiniteSet(UNION A) /\ IsFiniteSet(UNION B)
    BY <2>6, <2>7, FS_UNION
  <2>9. L = (UNION A) \cup (UNION B)
    BY <1>4, <2>4, <2>5
  <2> QED
    BY <2>8, <2>9, FS_Union
<1>12. \A p : OfPayment(ledger, p)' = OfPayment(L, p)
  BY <1>3 DEF OfPayment
<1>13. BooksKept'
  <2>1. IsFiniteSet(ledger)'
    BY <1>3, <1>11
  <2>2. \A p \in Own' : Shape3(p, PostedAs(p, Group(p), "GATEWAY_FEES"))'
    BY <1>5, <1>6, <1>9, <1>12 DEF Shape3
  <2>3. \A p : p \notin Own' => OfPayment(ledger, p)' = LatePosted(p)'
    BY <1>5, <1>10, <1>12
  <2> QED
    BY <1>2, <2>1, <2>2, <2>3 DEF BooksKept
<1> QED
  BY <1>1, <1>13 DEF LedgerInv
-----------------------------------------------------------------------------
\* Each planter of delta 3 takes the settlement posting of one payment.

LEMMA ShapeOfOwn ==
    ASSUME BooksKept, NEW p \in Own
    PROVE  \E X : /\ Shape3(p, X)
                  /\ \A e \in X : /\ e.payment = p /\ e.settlement = payments[p].settlement
                                  /\ e.group \in {Group(p), Copy(p)}
                  /\ (\E g \in Rows3 : g.subject[2] = p) \/ X = PostedAs(p, Group(p), "GATEWAY_FEES")
<1>1. /\ \A g : \A e \in PostedAs(p, g, "GATEWAY_FEES") :
             e.payment = p /\ e.settlement = payments[p].settlement /\ e.group = g
      /\ \A g : \A e \in PostedAs(p, g, "SALES") :
             e.payment = p /\ e.settlement = payments[p].settlement /\ e.group = g
  BY EntriesSay DEF PostedSays
<1>2. CASE \E g \in Rows3 : g.subject[2] = p
  <2>1. PICK g \in Rows3 : g.subject[2] = p
    BY <1>2
  <2>2. Posted(p, g)
    BY <2>1 DEF BooksKept, Row3
  <2>3. \/ Shape3(p, PostedTwice(p)) \/ Shape3(p, {}) \/ Shape3(p, PostedAs(p, Group(p), "SALES"))
    BY <2>2 DEF Posted
  <2> QED
    BY <1>1, <1>2, <2>3 DEF PostedTwice
<1>3. CASE \A g \in Rows3 : g.subject[2] # p
  <2>1. Shape3(p, PostedAs(p, Group(p), "GATEWAY_FEES"))
    BY <1>3 DEF BooksKept
  <2> QED
    BY <1>1, <2>1
<1> QED
  BY <1>2, <1>3

\* An entry of a settlement is part of the settlement posting of a payment.
LEMMA EntryOfSettlement ==
    ASSUME BooksKept, NEW e \in ledger, e.account \notin {"REFUNDS", "BANK"} \/ e.group[1] # "late",
           e.settlement \in Settlement \/ e.group[1] = "settlement"
    PROVE  /\ e.payment \in Own /\ e.settlement = payments[e.payment].settlement
           /\ e.group \in {Group(e.payment), Copy(e.payment)}
           /\ \/ \E g \in Rows3 : g.subject[2] = e.payment
              \/ /\ Shape3(e.payment, PostedAs(e.payment, Group(e.payment), "GATEWAY_FEES"))
                 /\ e \in PostedAs(e.payment, Group(e.payment), "GATEWAY_FEES")
                 /\ e.group = Group(e.payment)
<1>1. PICK p : p = e.payment
  OBVIOUS
<1>2. e \in OfPayment(ledger, p)
  BY <1>1 DEF OfPayment
<1>3. p \in Own
  <2>1. p \notin Own => e \in LatePosted(p)
    BY <1>2 DEF BooksKept
  <2> QED
    BY <2>1, LateSays
<1>4. PICK X : /\ Shape3(p, X)
               /\ \A f \in X : /\ f.payment = p /\ f.settlement = payments[p].settlement
                               /\ f.group \in {Group(p), Copy(p)}
               /\ (\E g \in Rows3 : g.subject[2] = p) \/ X = PostedAs(p, Group(p), "GATEWAY_FEES")
  BY <1>3, ShapeOfOwn
<1>5. e \in RestOf(p) \/ e \in X
  BY <1>2, <1>4 DEF Shape3
<1>6. e \notin RestOf(p)
  <2>1. e \in RestOf(p) => e.settlement = 0 /\ e.group[1] \in {"capture", "refund"}
    BY EntriesSay DEF RestSays
  <2> QED
    BY <2>1 DEF Settlement
<1>7. e \in X /\ e.settlement = payments[p].settlement /\ e.group \in {Group(p), Copy(p)}
  BY <1>4, <1>5, <1>6
<1>8. X = PostedAs(p, Group(p), "GATEWAY_FEES") => e.group = Group(p)
  BY <1>7, EntriesSay DEF PostedSays
<1> QED
  BY <1>1, <1>3, <1>4, <1>7, <1>8

\* A payment of a settlement nobody has claimed is posted as it should be.
LEMMA UnclaimedPosting ==
    ASSUME BooksKept, NEW s \in Settlement, s \notin claimed3, NEW e \in ledger, e.settlement = s,
           e.account \notin {"REFUNDS", "BANK"} \/ e.group[1] # "late"
    PROVE  \E p \in Own : /\ payments[p].settlement = s /\ e.payment = p /\ e.group = Group(p)
                          /\ Shape3(p, PostedAs(p, Group(p), "GATEWAY_FEES"))
                          /\ e \in PostedAs(p, Group(p), "GATEWAY_FEES")
<1>1. PICK p : p = e.payment
  OBVIOUS
<1>2. p \in Own /\ payments[p].settlement = s
  BY <1>1, EntryOfSettlement
<1>3. ~ \E g \in Rows3 : g.subject[2] = p
  <2> SUFFICES ASSUME NEW g \in Rows3, g.subject[2] = p PROVE FALSE
    OBVIOUS
  <2>1. PICK q \in Own : g.subject[2] = q /\ Row3(q, g)
    BY DEF BooksKept
  <2> QED
    BY <1>2, <2>1 DEF Row3
<1> QED
  BY <1>1, <1>2, <1>3, EntryOfSettlement

\* Nothing else is posted in its group.
LEMMA PostedInGroup ==
    ASSUME BooksKept, NEW p \in Own, Shape3(p, PostedAs(p, Group(p), "GATEWAY_FEES"))
    PROVE  {f \in ledger : f.group = Group(p)} = PostedAs(p, Group(p), "GATEWAY_FEES")
<1>1. ASSUME NEW f \in ledger, f.group = Group(p) PROVE f \in PostedAs(p, Group(p), "GATEWAY_FEES")
  <2>1. f.group[1] = "settlement" /\ f.group[2] = p
    BY <1>1 DEF Group
  <2>2. f.group \in {Group(f.payment), Copy(f.payment)}
    BY <2>1, EntryOfSettlement
  <2>3. f.payment = p
    BY <2>1, <2>2 DEF Group, Copy
  <2>4. f \in RestOf(p) \/ f \in PostedAs(p, Group(p), "GATEWAY_FEES")
    BY <2>3 DEF Shape3, OfPayment
  <2>5. f \in RestOf(p) => f.group[1] \in {"capture", "refund"}
    BY EntriesSay DEF RestSays
  <2> QED
    BY <2>1, <2>4, <2>5
<1>2. ASSUME NEW f \in PostedAs(p, Group(p), "GATEWAY_FEES") PROVE f \in ledger /\ f.group = Group(p)
  <2>1. f.group = Group(p)
    BY EntriesSay DEF PostedSays
  <2> QED
    BY <2>1 DEF Shape3, OfPayment
<1> QED
  BY <1>1, <1>2

LEMMA OneMoreRow3 ==
    ASSUME LedgerInv, stage \in 17 .. 20, stage' \in 17 .. 20, NEW p \in Own, NEW g,
           payments[p].settlement \notin claimed3,
           claimed3' = claimed3 \cup {payments[p].settlement},
           UNCHANGED <<payments, refunds, items>>, truth' = truth \cup {g},
           g.kind = "D3_LEDGER", g.subject[2] = p, g.settlement = payments[p].settlement,
           g.resolvable, Posted(p, g)', IsFiniteSet(ledger'),
           \A q : q # p => OfPayment(ledger', q) = OfPayment(ledger, q)
    PROVE  LedgerInv'
<1>1. BooksKept
  BY DEF LedgerInv
<1>2. Rows3' = Rows3 \cup {g}
  <2>1. g.expects # "NONE"
    BY DEF Posted
  <2> QED
    BY <2>1 DEF Rows3, Expecting
<1>3. \A q : /\ RestOf(q)' = RestOf(q) /\ Gross(q)' = Gross(q) /\ ItemOf(q)' = ItemOf(q)
             /\ LatePosted(q)' = LatePosted(q) /\ Own' = Own
  BY SameBooks
<1>4. \A q, h, account : PostedAs(q, h, account)' = PostedAs(q, h, account)
  BY SameBooks
<1>5. \A q, X : q # p /\ Shape3(q, X) => OfPayment(ledger, q)' = RestOf(q)' \cup X
  BY <1>3 DEF Shape3, OfPayment
<1>6. \A q, h : q # p /\ Posted(q, h) => Posted(q, h)'
  <2> SUFFICES ASSUME NEW q, NEW h, q # p, Posted(q, h) PROVE Posted(q, h)'
    OBVIOUS
  <2>1. Group(q)' = Group(q) /\ Copy(q)' = Copy(q) /\ PostedTwice(q)' = PostedTwice(q)
    BY <1>4 DEF Group, Copy, PostedTwice
  <2> QED
    BY <1>3, <1>4, <1>5, <2>1 DEF Posted, Shape3
<1>7. \A h \in Rows3 : h.settlement \in claimed3 /\ h.subject[2] # p /\ h.settlement # g.settlement
  BY <1>1 DEF BooksKept, Row3
<1>8. \A h \in Rows3' : \E q \in Own' : h.subject[2] = q /\ Row3(q, h)'
  <2> SUFFICES ASSUME NEW h \in Rows3' PROVE \E q \in Own' : h.subject[2] = q /\ Row3(q, h)'
    OBVIOUS
  <2>1. CASE h = g
    BY <1>3, <2>1 DEF Row3
  <2>2. CASE h \in Rows3
    <3>1. PICK q \in Own : h.subject[2] = q /\ Row3(q, h)
      BY <1>1, <2>2 DEF BooksKept
    <3>2. q # p
      BY <1>7, <2>2, <3>1
    <3>3. Posted(q, h)'
      BY <1>6, <3>1, <3>2 DEF Row3
    <3> QED
      BY <1>3, <3>1, <3>3 DEF Row3
  <2> QED
    BY <1>2, <2>1, <2>2
<1>9. ASSUME NEW q \in Own', \A h \in Rows3' : h.subject[2] # q
      PROVE  Shape3(q, PostedAs(q, Group(q), "GATEWAY_FEES"))'
  <2>1. q \in Own /\ q # p /\ \A h \in Rows3 : h.subject[2] # q
    BY <1>2, <1>3, <1>9
  <2>2. Shape3(q, PostedAs(q, Group(q), "GATEWAY_FEES"))
    BY <1>1, <2>1 DEF BooksKept
  <2> QED
    BY <1>3, <1>4, <1>5, <2>1, <2>2 DEF Shape3, Group
<1>10. ASSUME NEW q, q \notin Own' PROVE OfPayment(ledger, q)' = LatePosted(q)'
  BY <1>1, <1>3, <1>10 DEF BooksKept, OfPayment
<1>11. \A h, k \in Rows3' : h.settlement = k.settlement => h = k
  BY <1>1, <1>2, <1>7 DEF BooksKept
<1>12. BooksKept'
  BY <1>8, <1>9, <1>10, <1>11 DEF BooksKept
<1> QED
  BY <1>12 DEF LedgerInv

\* A copy of a group of postings is the same postings in another group.
Regrouped(S, h) == {[e EXCEPT !.group = h] : e \in S}
LEMMA CopiedPosting ==
    ASSUME NEW g, NEW h, NEW account, NEW direction, NEW amount, NEW p, NEW s
    PROVE  Regrouped(Posting(g, account, direction, amount, p, s), h)
             = Posting(h, account, direction, amount, p, s)
<1>1. CASE amount <= 0
  BY <1>1 DEF Posting, Regrouped
<1>2. CASE ~ amount <= 0
  <2>1. PICK e : e = [group |-> g, account |-> account, direction |-> direction,
                      amount |-> amount, payment |-> p, settlement |-> s]
    OBVIOUS
  <2>2. [e EXCEPT !.group = h] = [group |-> h, account |-> account, direction |-> direction,
                                  amount |-> amount, payment |-> p, settlement |-> s]
    BY <2>1
  <2>3. Posting(g, account, direction, amount, p, s) = {e}
    BY <1>2, <2>1 DEF Posting
  <2> QED
    BY <1>2, <2>2, <2>3 DEF Posting, Regrouped
<1> QED
  BY <1>1, <1>2

LEMMA CopiedPostings ==
    ASSUME NEW p, NEW g, NEW h, NEW account
    PROVE  Regrouped(PostedAs(p, g, account), h) = PostedAs(p, h, account)
<1> DEFINE fee == ItemOf(p).fee
           tax == ItemOf(p).tax
           gross == Gross(p)
           s == payments[p].settlement
           net == gross - fee - tax
           side == IF net >= 0 THEN "DR" ELSE "CR"
           B(k) == Posting(k, "BANK", side, Abs(net), p, s)
           F(k) == Posting(k, account, "DR", fee, p, s)
           T(k) == Posting(k, "INPUT_GST", "DR", tax, p, s)
           C(k) == Posting(k, "RAZORPAY_CLEARING", "CR", gross, p, s)
<1>1. \A k : PostedAs(p, k, account) = ((B(k) \cup F(k)) \cup T(k)) \cup C(k)
  BY Zenon DEF PostedAs
<1>2. /\ Regrouped(B(g), h) = B(h) /\ Regrouped(F(g), h) = F(h)
      /\ Regrouped(T(g), h) = T(h) /\ Regrouped(C(g), h) = C(h)
  BY CopiedPosting
<1> HIDE DEF B, F, T, C, fee, tax, gross, s, net, side
<1>4. PICK X, Y : X = PostedAs(p, g, account) /\ Y = PostedAs(p, h, account)
  OBVIOUS
<1>5. X = ((B(g) \cup F(g)) \cup T(g)) \cup C(g) /\ Y = ((B(h) \cup F(h)) \cup T(h)) \cup C(h)
  BY <1>1, <1>4
<1>6. PICK b, f, t, c : b = B(g) /\ f = F(g) /\ t = T(g) /\ c = C(g)
  OBVIOUS
<1>7. X = ((b \cup f) \cup t) \cup c
  BY <1>5, <1>6
<1>8. Regrouped(X, h) = ((Regrouped(b, h) \cup Regrouped(f, h)) \cup Regrouped(t, h)) \cup Regrouped(c, h)
  BY <1>7 DEF Regrouped
<1>9. /\ Regrouped(b, h) = B(h) /\ Regrouped(f, h) = F(h)
      /\ Regrouped(t, h) = T(h) /\ Regrouped(c, h) = C(h)
  BY <1>2, <1>6
<1>10. Regrouped(X, h) = Y
  BY <1>5, <1>8, <1>9
<1> QED
  BY <1>4, <1>10

LEMMA GroupIsCleared ==
    ASSUME BooksKept, Typed, BookInv, NEW p \in Own,
           Shape3(p, PostedAs(p, Group(p), "GATEWAY_FEES"))
    PROVE  GroupClearing(Group(p)) = Gross(p)
<1>1. PICK S : S = PostedAs(p, Group(p), "GATEWAY_FEES")
  OBVIOUS
<1>2. \A f : f \in ledger /\ f.group = Group(p) <=> f \in S
  BY <1>1, PostedInGroup
<1>3. {e \in Entries("RAZORPAY_CLEARING", "CR") : e.group = Group(p)} = Legs(S, "RAZORPAY_CLEARING", "CR")
  BY <1>2 DEF Entries, Legs
<1>4. /\ Gross(p) \in Nat /\ ItemOf(p).fee \in Nat /\ ItemOf(p).tax \in Nat
      /\ "GATEWAY_FEES" \in {"GATEWAY_FEES", "SALES"}
  BY ItsItem, GrossWhole DEF BookInv
<1>5. LegSum(S, "RAZORPAY_CLEARING", "CR") = Gross(p)
  BY <1>1, <1>4, PostedSums
<1> QED
  BY <1>3, <1>5 DEF GroupClearing, LegSum

LEMMA LateTurn ==
    ASSUME NEW type \in LateTypes, Turn(type), LedgerInv
    PROVE  stage \in 17 .. 20 /\ stage' \in 17 .. 20
<1>1. Position(type) \in 18 .. 20
  BY EarlyPositions
<1>2. /\ stage <= Position(type) /\ stage' = Position(type)
      /\ stage < 17 => Position(type) < 17
  BY PlanPositions DEF Turn
<1> QED
  BY <1>1, <1>2 DEF LedgerInv

\* A group of a settlement nobody has claimed for delta 3.
LEMMA GroupOfSettlement ==
    ASSUME BooksKept, Typed, BookInv, NEW s \in Settlement, s \notin claimed3,
           NEW g \in SettlementGroups(s)
    PROVE  \E p \in Own : /\ payments[p].settlement = s /\ g = Group(p)
                          /\ Shape3(p, PostedAs(p, Group(p), "GATEWAY_FEES"))
                          /\ {f \in ledger : f.group = g} = PostedAs(p, Group(p), "GATEWAY_FEES")
                          /\ GroupClearing(g) = Gross(p)
<1>1. PICK e \in ledger : e.settlement = s /\ e.group = g /\ g[1] = "settlement"
  BY DEF SettlementGroups
<1>2. PICK p \in Own : /\ payments[p].settlement = s /\ e.payment = p /\ e.group = Group(p)
                       /\ Shape3(p, PostedAs(p, Group(p), "GATEWAY_FEES"))
  BY <1>1, UnclaimedPosting
<1>3. {f \in ledger : f.group = Group(p)} = PostedAs(p, Group(p), "GATEWAY_FEES")
  BY <1>2, PostedInGroup
<1>4. GroupClearing(Group(p)) = Gross(p)
  BY <1>2, GroupIsCleared
<1>5. g = Group(p)
  BY <1>1, <1>2
<1> QED
  BY <1>2, <1>3, <1>4, <1>5

LEMMA DuplicateLedgerKeeps ==
    ASSUME LedgerInv, Typed, Drawn, BookInv, NEW s \in Settlement, DuplicateLedger(s)
    PROVE  LedgerInv'
<1>1. /\ Turn("D3_DUPLICATE_LEDGER") /\ s \notin claimed3 /\ claimed3' = claimed3 \cup {s}
      /\ UNCHANGED <<payments, refunds, items>>
  BY DEF DuplicateLedger, Claim3
<1>2. stage \in 17 .. 20 /\ stage' \in 17 .. 20
  BY <1>1, LateTurn DEF LateTypes
<1>3. BooksKept
  BY <1>2 DEF LedgerInv
<1>4. PICK g \in SettlementGroups(s) :
         /\ ledger' = ledger \cup {[e EXCEPT !.group = [g EXCEPT ![3] = 1]] : e \in {f \in ledger : f.group = g}}
         /\ truth' = truth \cup {Truth("D3_DUPLICATE_LEDGER", [g EXCEPT ![3] = 1], s, "D3_LEDGER",
                         "DUPLICATE_LEDGER_ENTRY", GroupClearing(g), TRUE)}
  BY Zenon DEF DuplicateLedger
<1>5. PICK p \in Own : /\ payments[p].settlement = s /\ g = Group(p)
                       /\ Shape3(p, PostedAs(p, Group(p), "GATEWAY_FEES"))
                       /\ {f \in ledger : f.group = g} = PostedAs(p, Group(p), "GATEWAY_FEES")
                       /\ GroupClearing(g) = Gross(p)
  BY <1>1, <1>3, GroupOfSettlement
<1>6. [g EXCEPT ![3] = 1] = Copy(p)
  BY <1>5 DEF Group, Copy
<1>7. PICK X, Y : X = PostedAs(p, Group(p), "GATEWAY_FEES") /\ Y = PostedAs(p, Copy(p), "GATEWAY_FEES")
  OBVIOUS
<1>8. Regrouped(X, Copy(p)) = Y
  BY <1>7, CopiedPostings
<1>9. {f \in ledger : f.group = g} = X
  BY <1>5, <1>7
<1>10. ledger' = ledger \cup Y
  BY <1>4, <1>6, <1>8, <1>9 DEF Regrouped
<1>11. \A e \in Y : e.payment = p
  BY <1>7, EntriesSay DEF PostedSays
<1>12. \A q : q # p => OfPayment(ledger', q) = OfPayment(ledger, q)
  BY <1>10, <1>11 DEF OfPayment
<1>13. OfPayment(ledger', p) = RestOf(p) \cup (X \cup Y)
  BY <1>5, <1>7, <1>10, <1>11 DEF OfPayment, Shape3
<1>14. PICK row : row = Truth("D3_DUPLICATE_LEDGER", Copy(p), s, "D3_LEDGER",
                              "DUPLICATE_LEDGER_ENTRY", Gross(p), TRUE)
  OBVIOUS
<1>15. truth' = truth \cup {row}
  BY <1>4, <1>5, <1>6, <1>14
<1>16. /\ row.kind = "D3_LEDGER" /\ row.subject = Copy(p) /\ row.settlement = s /\ row.resolvable = TRUE
       /\ row.type = "D3_DUPLICATE_LEDGER" /\ row.expects = "DUPLICATE_LEDGER_ENTRY" /\ row.amount = Gross(p)
  BY <1>14 DEF Truth
<1>17. row.subject[2] = p /\ row.resolvable
  BY <1>16 DEF Copy
<1>18. /\ RestOf(p)' = RestOf(p) /\ Gross(p)' = Gross(p)
       /\ PostedAs(p, Group(p), "GATEWAY_FEES")' = X /\ PostedAs(p, Copy(p), "GATEWAY_FEES")' = Y
  BY <1>1, <1>7, SameBooks DEF Group, Copy
<1>19. Shape3(p, PostedTwice(p))'
  <2>1. PostedTwice(p)' = X \cup Y
    BY <1>18 DEF PostedTwice
  <2>2. OfPayment(ledger, p)' = RestOf(p)' \cup (X \cup Y)
    BY <1>13, <1>18 DEF OfPayment
  <2> QED
    BY <2>1, <2>2 DEF Shape3
<1>20. Posted(p, row)'
  BY <1>16, <1>18, <1>19 DEF Posted, Copy
<1>21. IsFiniteSet(ledger')
  <2>1. /\ Gross(p) \in Nat /\ ItemOf(p).fee \in Nat /\ ItemOf(p).tax \in Nat
        /\ "GATEWAY_FEES" \in {"GATEWAY_FEES", "SALES"}
    BY ItsItem, GrossWhole DEF BookInv
  <2>2. IsFiniteSet(Y)
    BY <1>7, <2>1, PostedSums DEF Amounts
  <2> QED
    BY <1>3, <1>10, <2>2, FS_Union DEF BooksKept
<1> QED
  BY <1>1, <1>2, <1>5, <1>12, <1>15, <1>16, <1>17, <1>20, <1>21, OneMoreRow3

LEMMA MissingLedgerKeeps ==
    ASSUME LedgerInv, Typed, Drawn, BookInv, NEW s \in Settlement, MissingLedger(s)
    PROVE  LedgerInv'
<1>1. /\ Turn("D3_MISSING_LEDGER") /\ s \notin claimed3 /\ claimed3' = claimed3 \cup {s}
      /\ UNCHANGED <<payments, refunds, items>>
  BY DEF MissingLedger, Claim3
<1>2. stage \in 17 .. 20 /\ stage' \in 17 .. 20
  BY <1>1, LateTurn DEF LateTypes
<1>3. BooksKept
  BY <1>2 DEF LedgerInv
<1>4. PICK g \in SettlementGroups(s) :
         /\ ledger' = {e \in ledger : e.group # g}
         /\ truth' = truth \cup {Truth("D3_MISSING_LEDGER", g, s, "D3_LEDGER",
                         "MISSING_LEDGER_ENTRY", GroupClearing(g), TRUE)}
  BY Zenon DEF MissingLedger
<1>5. PICK p \in Own : /\ payments[p].settlement = s /\ g = Group(p)
                       /\ Shape3(p, PostedAs(p, Group(p), "GATEWAY_FEES"))
                       /\ {f \in ledger : f.group = g} = PostedAs(p, Group(p), "GATEWAY_FEES")
                       /\ GroupClearing(g) = Gross(p)
  BY <1>1, <1>3, GroupOfSettlement
<1>7. PICK X : X = PostedAs(p, Group(p), "GATEWAY_FEES")
  OBVIOUS
<1>9. {f \in ledger : f.group = g} = X
  BY <1>5, <1>7
<1>10. ledger' = ledger \ X
  BY <1>4, <1>9
<1>11. (\A e \in X : e.payment = p /\ e.settlement = s) /\ \A e \in RestOf(p) : e.settlement = 0
  BY <1>5, <1>7, EntriesSay DEF PostedSays, RestSays
<1>12. \A q : q # p => OfPayment(ledger', q) = OfPayment(ledger, q)
  BY <1>10, <1>11 DEF OfPayment
<1>13. OfPayment(ledger', p) = RestOf(p) \cup {}
  <2>1. OfPayment(ledger, p) = RestOf(p) \cup X
    BY <1>5, <1>7 DEF Shape3
  <2>2. RestOf(p) \cap X = {}
    BY <1>11 DEF Settlement
  <2>3. OfPayment(ledger', p) = OfPayment(ledger, p) \ X
    BY <1>10 DEF OfPayment
  <2> QED
    BY <2>1, <2>2, <2>3
<1>14. PICK row : row = Truth("D3_MISSING_LEDGER", Group(p), s, "D3_LEDGER",
                              "MISSING_LEDGER_ENTRY", Gross(p), TRUE)
  OBVIOUS
<1>15. truth' = truth \cup {row}
  BY <1>4, <1>5, <1>14
<1>16. /\ row.kind = "D3_LEDGER" /\ row.subject = Group(p) /\ row.settlement = s /\ row.resolvable = TRUE
       /\ row.type = "D3_MISSING_LEDGER" /\ row.expects = "MISSING_LEDGER_ENTRY" /\ row.amount = Gross(p)
  BY <1>14 DEF Truth
<1>17. row.subject[2] = p /\ row.resolvable
  BY <1>16 DEF Group
<1>18. RestOf(p)' = RestOf(p) /\ Gross(p)' = Gross(p)
  BY <1>1, SameBooks
<1>19. Shape3(p, {})'
  BY <1>13, <1>18 DEF Shape3, OfPayment
<1>20. Posted(p, row)'
  BY <1>16, <1>18, <1>19 DEF Posted, Group
<1>21. IsFiniteSet(ledger')
  BY <1>3, <1>10, FS_Subset DEF BooksKept
<1> QED
  BY <1>1, <1>2, <1>5, <1>12, <1>15, <1>16, <1>17, <1>20, <1>21, OneMoreRow3

LEMMA WrongAccountKeeps ==
    ASSUME LedgerInv, Typed, Drawn, BookInv, NEW s \in Settlement, WrongAccount(s)
    PROVE  LedgerInv'
<1>1. /\ Turn("D3_WRONG_ACCOUNT") /\ s \notin claimed3 /\ claimed3' = claimed3 \cup {s}
      /\ UNCHANGED <<payments, refunds, items>>
  BY DEF WrongAccount, Claim3
<1>2. stage \in 17 .. 20 /\ stage' \in 17 .. 20
  BY <1>1, LateTurn DEF LateTypes
<1>3. BooksKept
  BY <1>2 DEF LedgerInv
<1>4. PICK e \in {f \in Entries("GATEWAY_FEES", "DR") : f.settlement = s} :
         /\ ledger' = (ledger \ {e}) \cup {[e EXCEPT !.account = "SALES"]}
         /\ truth' = truth \cup {Truth("D3_WRONG_ACCOUNT", e.group, s, "D3_LEDGER",
                         "MISPOSTED_ACCOUNT", e.amount, TRUE)}
  BY Zenon DEF WrongAccount
<1>5. e \in ledger /\ e.account = "GATEWAY_FEES" /\ e.direction = "DR" /\ e.settlement = s
  BY DEF Entries
<1>6. PICK p \in Own : /\ payments[p].settlement = s /\ e.payment = p /\ e.group = Group(p)
                       /\ Shape3(p, PostedAs(p, Group(p), "GATEWAY_FEES"))
                       /\ e \in PostedAs(p, Group(p), "GATEWAY_FEES")
  BY <1>1, <1>3, <1>5, UnclaimedPosting
<1>7. PICK g, fee, net, side, B, T, C :
         /\ g = Group(p) /\ fee = ItemOf(p).fee
         /\ net = Gross(p) - ItemOf(p).fee - ItemOf(p).tax
         /\ side = (IF net >= 0 THEN "DR" ELSE "CR")
         /\ B = Posting(g, "BANK", side, Abs(net), p, s)
         /\ T = Posting(g, "INPUT_GST", "DR", ItemOf(p).tax, p, s)
         /\ C = Posting(g, "RAZORPAY_CLEARING", "CR", Gross(p), p, s)
  OBVIOUS
<1>8. /\ PostedAs(p, g, "GATEWAY_FEES") = B \cup Posting(g, "GATEWAY_FEES", "DR", fee, p, s) \cup T \cup C
      /\ PostedAs(p, g, "SALES") = B \cup Posting(g, "SALES", "DR", fee, p, s) \cup T \cup C
  BY <1>6, <1>7 DEF PostedAs
<1>9. \A f \in B \cup T \cup C : f.account # "GATEWAY_FEES"
  BY <1>7, PostingIsEntry DEF PostingSays
<1>10. e \in Posting(g, "GATEWAY_FEES", "DR", fee, p, s)
  BY <1>5, <1>6, <1>7, <1>8, <1>9
<1>11. /\ Posting(g, "GATEWAY_FEES", "DR", fee, p, s) = {e} /\ e.amount = fee
       /\ e = [group |-> g, account |-> "GATEWAY_FEES", direction |-> "DR", amount |-> fee,
               payment |-> p, settlement |-> s]
  BY <1>10, PostingIsEntry DEF PostingSays
<1>12. PICK d : d = [e EXCEPT !.account = "SALES"]
  OBVIOUS
<1>13. d = [group |-> g, account |-> "SALES", direction |-> "DR", amount |-> fee,
            payment |-> p, settlement |-> s]
  BY <1>11, <1>12
<1>14. ~ fee <= 0
  BY <1>10 DEF Posting
<1>15. Posting(g, "SALES", "DR", fee, p, s) = {d}
  BY <1>13, <1>14 DEF Posting
<1>16. PICK X, Y : X = PostedAs(p, g, "GATEWAY_FEES") /\ Y = PostedAs(p, g, "SALES")
  OBVIOUS
<1>17. X = B \cup {e} \cup T \cup C /\ Y = B \cup {d} \cup T \cup C /\ e \notin B \cup T \cup C
  BY <1>5, <1>8, <1>9, <1>11, <1>15, <1>16
<1>18. Y = (X \ {e}) \cup {d}
  BY <1>17
<1>19. ledger' = (ledger \ {e}) \cup {d}
  BY <1>4, <1>12
<1>20. e.payment = p /\ d.payment = p
  BY <1>6, <1>13
<1>21. e \notin RestOf(p)
  <2>1. e \in RestOf(p) => e.settlement = 0
    BY EntriesSay DEF RestSays
  <2> QED
    BY <1>5, <2>1 DEF Settlement
<1>22. \A q : q # p => OfPayment(ledger', q) = OfPayment(ledger, q)
  BY <1>19, <1>20 DEF OfPayment
<1>23. OfPayment(ledger', p) = RestOf(p) \cup Y
  <2>1. OfPayment(ledger, p) = RestOf(p) \cup X
    BY <1>6, <1>7, <1>16 DEF Shape3
  <2>2. OfPayment(ledger', p) = (OfPayment(ledger, p) \ {e}) \cup {d}
    BY <1>19, <1>20 DEF OfPayment
  <2> QED
    BY <1>18, <1>21, <2>1, <2>2
<1>24. PICK row : row = Truth("D3_WRONG_ACCOUNT", Group(p), s, "D3_LEDGER", "MISPOSTED_ACCOUNT", fee, TRUE)
  OBVIOUS
<1>25. truth' = truth \cup {row}
  BY <1>4, <1>6, <1>11, <1>24
<1>26. /\ row.kind = "D3_LEDGER" /\ row.subject = Group(p) /\ row.settlement = s /\ row.resolvable = TRUE
       /\ row.type = "D3_WRONG_ACCOUNT" /\ row.expects = "MISPOSTED_ACCOUNT" /\ row.amount = fee
  BY <1>24 DEF Truth
<1>27. row.subject[2] = p /\ row.resolvable
  BY <1>26 DEF Group
<1>28. RestOf(p)' = RestOf(p) /\ ItemOf(p)' = ItemOf(p) /\ PostedAs(p, Group(p), "SALES")' = Y
  BY <1>1, <1>7, <1>16, SameBooks DEF Group
<1>29. Shape3(p, PostedAs(p, Group(p), "SALES"))'
  BY <1>23, <1>28 DEF Shape3, OfPayment
<1>30. row.amount > 0 /\ row.amount = ItemOf(p)'.fee
  <2>1. fee \in Nat
    BY <1>7, ItsItem DEF BookInv
  <2> QED
    BY <1>7, <1>14, <1>26, <1>28, <2>1
<1>31. Posted(p, row)'
  BY <1>26, <1>29, <1>30 DEF Posted, Group
<1>32. IsFiniteSet(ledger')
  BY <1>3, <1>19, FS_Subset, FS_AddElement DEF BooksKept
<1> QED
  BY <1>1, <1>2, <1>6, <1>22, <1>25, <1>26, <1>27, <1>31, <1>32, OneMoreRow3

LEMMA BooksUntouched ==
    ASSUME LedgerInv, UNCHANGED <<payments, refunds, items, ledger, claimed3, truth>>,
           stage' \in 0 .. 21, stage < 17 <=> stage' < 17
    PROVE  LedgerInv'
<1>1. Rows3' = Rows3
  BY DEF Rows3, Expecting
<1>2. \A q : /\ RestOf(q)' = RestOf(q) /\ Gross(q)' = Gross(q) /\ ItemOf(q)' = ItemOf(q)
             /\ LatePosted(q)' = LatePosted(q) /\ Own' = Own
             /\ OfPayment(ledger, q)' = OfPayment(ledger, q)
  BY SameBooks DEF OfPayment
<1>3. \A q, h, account : PostedAs(q, h, account)' = PostedAs(q, h, account)
  BY SameBooks
<1>4. \A q, h : Row3(q, h) => Row3(q, h)'
  <2> SUFFICES ASSUME NEW q, NEW h, Row3(q, h) PROVE Row3(q, h)'
    OBVIOUS
  <2>1. Group(q)' = Group(q) /\ Copy(q)' = Copy(q) /\ PostedTwice(q)' = PostedTwice(q)
    BY <1>3 DEF Group, Copy, PostedTwice
  <2>2. Posted(q, h)'
    BY <1>2, <1>3, <2>1 DEF Row3, Posted, Shape3
  <2> QED
    BY <2>2 DEF Row3
<1>5. \A q : Shape3(q, PostedAs(q, Group(q), "GATEWAY_FEES"))
             => Shape3(q, PostedAs(q, Group(q), "GATEWAY_FEES"))'
  BY <1>2, <1>3 DEF Shape3, Group
<1>6. BooksKept => BooksKept'
  <2> SUFFICES ASSUME BooksKept PROVE BooksKept'
    OBVIOUS
  <2>1. \A p \in Own' : (\A g \in Rows3' : g.subject[2] # p)
                       => Shape3(p, PostedAs(p, Group(p), "GATEWAY_FEES"))'
    BY <1>1, <1>2, <1>5 DEF BooksKept
  <2>2. \A g \in Rows3' : \E p \in Own' : g.subject[2] = p /\ Row3(p, g)'
    BY <1>1, <1>2, <1>4 DEF BooksKept
  <2>3. \A p : p \notin Own' => OfPayment(ledger, p)' = LatePosted(p)'
    BY <1>2 DEF BooksKept
  <2> QED
    BY <1>1, <2>1, <2>2, <2>3 DEF BooksKept
<1> QED
  BY <1>1, <1>6 DEF LedgerInv

LEMMA LedgerStep == LedgerInv /\ Delta1Inv /\ BookInv /\ [Next]_vars => LedgerInv'
<1> SUFFICES ASSUME LedgerInv, Delta1Inv, BookInv, [Next]_vars PROVE LedgerInv'
  OBVIOUS
<1>1. Typed /\ Drawn
  BY DEF Delta1Inv, CleanInv
<1>2. CASE UNCHANGED vars
  BY <1>2, BooksUntouched DEF vars, bookVars, tables, LedgerInv
<1>3. CASE PayoutNext
  BY <1>3, EarlyPayouts, EarlyKeeps
<1>4. CASE Reconcile
  BY <1>4, BooksUntouched DEF Reconcile, bookVars, tables, LedgerInv
<1>5. CASE BuildLedger
  BY <1>1, <1>5, BuildLedgerKeeps
<1>6. CASE Persist
  <2>1. stage \in 17 .. 20 /\ stage' = 21
    BY <1>6, PlanPositions DEF Persist
  <2> QED
    BY <1>6, <2>1, BooksUntouched DEF Persist, tables
<1>7. ASSUME NEW s \in Settlement,
             \/ FeeRateDrift(s) \/ TaxAggregateRounding(s) \/ RefundNotDeducted(s)
             \/ RefundPartialMulti(s) \/ RefundOutsideWindow(s) \/ HeaderRollupMismatch(s)
             \/ AdjustmentApplied(s) \/ FeeCorrectedByAdjustment(s) \/ PhantomDebit(s)
             \/ BankLine(s, "D2_BANK_LINE") \/ BankLine(s, "UNRESOLVABLE_AMBIGUOUS_CREDIT")
             \/ DuplicateLedger(s) \/ MissingLedger(s) \/ WrongAccount(s)
             \/ \E x \in Settlement : RefundOutsidePeriod(s, x) \/ SameAmountSameDay(s, x)
      PROVE  LedgerInv'
  <2>1. CASE DuplicateLedger(s)
    BY <1>1, <2>1, DuplicateLedgerKeeps
  <2>2. CASE MissingLedger(s)
    BY <1>1, <2>2, MissingLedgerKeeps
  <2>3. CASE WrongAccount(s)
    BY <1>1, <2>3, WrongAccountKeeps
  <2> QED
    BY <1>7, <2>1, <2>2, <2>3, EarlyPlanters, EarlyKeeps
<1>8. [Next]_vars => \/ UNCHANGED vars \/ PayoutNext \/ Reconcile \/ BookNext
  BY DEF Next
<1> QED
  BY <1>2, <1>3, <1>4, <1>5, <1>6, <1>7, <1>8 DEF BookNext

LEMMA LedgerInit == BatchInit => LedgerInv
BY DEF BatchInit, Init, LedgerInv, Rows3, Expecting
-----------------------------------------------------------------------------
\* What a payment leaves in clearing, in the fees and in the input tax.

Sides(p, clearing, fees, tax) ==
    LET E == OfPayment(ledger, p)
    IN  /\ Amounts(E) /\ Balanced(E)
        /\ LegSum(E, "RAZORPAY_CLEARING", "DR") - LegSum(E, "RAZORPAY_CLEARING", "CR") = clearing
        /\ LegSum(E, "GATEWAY_FEES", "DR") = fees
        /\ LegSum(E, "INPUT_GST", "DR") - LegSum(E, "INPUT_GST", "CR") = tax

LEMMA LegSumWhole ==
    ASSUME NEW S, Amounts(S), NEW account, NEW direction
    PROVE  LegSum(S, account, direction) \in Int
<1>1. Legs(S, account, direction) \in SUBSET S
  BY DEF Legs
<1> QED
  BY <1>1, AmountWhole DEF LegSum

LEMMA JoinedSides ==
    ASSUME Typed, Drawn, BookInv, NEW p \in Own, NEW X, Shape3(p, X), Amounts(X), Balanced(X),
           \A e \in X : e.settlement = payments[p].settlement,
           NEW c \in Int, NEW f \in Int, NEW t \in Int,
           LegSum(X, "RAZORPAY_CLEARING", "DR") = 0, LegSum(X, "RAZORPAY_CLEARING", "CR") = c,
           LegSum(X, "GATEWAY_FEES", "DR") = f,
           LegSum(X, "INPUT_GST", "DR") = t, LegSum(X, "INPUT_GST", "CR") = 0
    PROVE  Sides(p, Gross(p) - c, f, t)
<1>1. PICK R, E : R = RestOf(p) /\ E = OfPayment(ledger, p)
  OBVIOUS
<1>2. E = R \cup X
  BY <1>1 DEF Shape3
<1>3. /\ Amounts(R) /\ Balanced(R)
      /\ LegSum(R, "RAZORPAY_CLEARING", "DR") = payments[p].amount
      /\ LegSum(R, "RAZORPAY_CLEARING", "CR") = AmountSum(ProcessedRefunds(p))
      /\ LegSum(R, "GATEWAY_FEES", "DR") = 0
      /\ LegSum(R, "INPUT_GST", "DR") = 0 /\ LegSum(R, "INPUT_GST", "CR") = 0
  BY <1>1, RestSums
<1>4. R \cap X = {}
  <2>1. \A e \in R : e.settlement = 0
    BY <1>1, EntriesSay DEF RestSays
  <2> QED
    BY <2>1 DEF Own, Settlement
<1>5. Amounts(E) /\ Balanced(E)
  BY <1>2, <1>3, <1>4, AmountJoin, BalanceJoin
<1>6. \A account, direction :
         LegSum(E, account, direction) = LegSum(R, account, direction) + LegSum(X, account, direction)
  BY <1>2, <1>3, <1>4, LegsJoin
<1>7. PICK a, b : a = payments[p].amount /\ b = AmountSum(ProcessedRefunds(p))
  OBVIOUS
<1>8. a \in Int /\ b \in Int /\ Gross(p) = a - b
  BY <1>7, GrossWhole DEF BookInv
<1>9. /\ LegSum(E, "RAZORPAY_CLEARING", "DR") = a + 0 /\ LegSum(E, "RAZORPAY_CLEARING", "CR") = b + c
      /\ LegSum(E, "GATEWAY_FEES", "DR") = 0 + f
      /\ LegSum(E, "INPUT_GST", "DR") = 0 + t /\ LegSum(E, "INPUT_GST", "CR") = 0 + 0
  BY <1>3, <1>6, <1>7
<1>10. /\ LegSum(E, "RAZORPAY_CLEARING", "DR") - LegSum(E, "RAZORPAY_CLEARING", "CR") = Gross(p) - c
       /\ LegSum(E, "GATEWAY_FEES", "DR") = f
       /\ LegSum(E, "INPUT_GST", "DR") - LegSum(E, "INPUT_GST", "CR") = t
  BY <1>8, <1>9
<1> QED
  BY <1>1, <1>5, <1>10 DEF Sides

LEMMA ShapeSides ==
    ASSUME Typed, Drawn, BookInv, NEW p \in Own
    PROVE  LET fee == ItemOf(p).fee
               tax == ItemOf(p).tax
           IN  /\ fee \in Nat /\ tax \in Nat /\ Gross(p) \in Nat
               /\ Shape3(p, PostedAs(p, Group(p), "GATEWAY_FEES")) => Sides(p, 0, fee, tax)
               /\ Shape3(p, PostedTwice(p)) => Sides(p, -Gross(p), fee + fee, tax + tax)
               /\ Shape3(p, {}) => Sides(p, Gross(p), 0, 0)
               /\ Shape3(p, PostedAs(p, Group(p), "SALES")) => Sides(p, 0, 0, tax)
<1>1. PICK fee, tax, gross, s :
         fee = ItemOf(p).fee /\ tax = ItemOf(p).tax /\ gross = Gross(p) /\ s = payments[p].settlement
  OBVIOUS
<1>2. fee \in Nat /\ tax \in Nat /\ gross \in Nat
  BY <1>1, ItsItem, GrossWhole DEF BookInv
<1>3. PICK X, Y, Z : /\ X = PostedAs(p, Group(p), "GATEWAY_FEES")
                     /\ Y = PostedAs(p, Copy(p), "GATEWAY_FEES")
                     /\ Z = PostedAs(p, Group(p), "SALES")
  OBVIOUS
<1>4. "GATEWAY_FEES" \in {"GATEWAY_FEES", "SALES"} /\ "SALES" \in {"GATEWAY_FEES", "SALES"}
  OBVIOUS
<1>5. /\ \A e \in X : e.settlement = s /\ e.group = Group(p)
      /\ \A e \in Y : e.settlement = s /\ e.group = Copy(p)
      /\ \A e \in Z : e.settlement = s
  BY <1>1, <1>3, EntriesSay DEF PostedSays
<1>6. /\ Amounts(X) /\ Balanced(X)
      /\ LegSum(X, "RAZORPAY_CLEARING", "DR") = 0 /\ LegSum(X, "RAZORPAY_CLEARING", "CR") = gross
      /\ LegSum(X, "GATEWAY_FEES", "DR") = fee
      /\ LegSum(X, "INPUT_GST", "DR") = tax /\ LegSum(X, "INPUT_GST", "CR") = 0
  BY <1>1, <1>2, <1>3, <1>4, PostedSums
<1>7. /\ Amounts(Y) /\ Balanced(Y)
      /\ LegSum(Y, "RAZORPAY_CLEARING", "DR") = 0 /\ LegSum(Y, "RAZORPAY_CLEARING", "CR") = gross
      /\ LegSum(Y, "GATEWAY_FEES", "DR") = fee
      /\ LegSum(Y, "INPUT_GST", "DR") = tax /\ LegSum(Y, "INPUT_GST", "CR") = 0
  BY <1>1, <1>2, <1>3, <1>4, PostedSums
<1>8. /\ Amounts(Z) /\ Balanced(Z)
      /\ LegSum(Z, "RAZORPAY_CLEARING", "DR") = 0 /\ LegSum(Z, "RAZORPAY_CLEARING", "CR") = gross
      /\ LegSum(Z, "GATEWAY_FEES", "DR") = 0
      /\ LegSum(Z, "INPUT_GST", "DR") = tax /\ LegSum(Z, "INPUT_GST", "CR") = 0
  BY <1>1, <1>2, <1>3, <1>4, PostedSums
<1>9. Shape3(p, X) => Sides(p, 0, fee, tax)
  <2>1. Shape3(p, X) => Sides(p, gross - gross, fee, tax)
    BY <1>1, <1>2, <1>5, <1>6, JoinedSides
  <2> QED
    BY <1>2, <2>1
<1>10. Shape3(p, Z) => Sides(p, 0, 0, tax)
  <2>1. Shape3(p, Z) => Sides(p, gross - gross, 0, tax)
    BY <1>1, <1>2, <1>5, <1>8, JoinedSides
  <2> QED
    BY <1>2, <2>1
<1>11. Shape3(p, {}) => Sides(p, gross, 0, 0)
  <2>1. Amounts({}) /\ AmountSum({}) = 0
    BY AmountEmpty, FS_EmptySet DEF Amounts
  <2>2. PICK N : N = {}
    OBVIOUS
  <2>3. \A account, direction : Legs(N, account, direction) = {} /\ InGroup(N, account, direction) = {}
    BY <2>2 DEF Legs, InGroup
  <2>4. Balanced(N) /\ \A account, direction : LegSum(N, account, direction) = 0
    BY <2>1, <2>3 DEF Balanced, LegSum
  <2>5. Shape3(p, N) => Sides(p, gross - 0, 0, 0)
    BY <1>1, <2>1, <2>2, <2>4, JoinedSides
  <2> QED
    BY <1>2, <2>2, <2>5
<1>12. Shape3(p, PostedTwice(p)) => Sides(p, -gross, fee + fee, tax + tax)
  <2>1. X \cap Y = {}
    BY <1>5 DEF Group, Copy
  <2>2. PICK W : W = X \cup Y
    OBVIOUS
  <2>3. Amounts(W) /\ Balanced(W)
    BY <1>6, <1>7, <2>1, <2>2, AmountJoin, BalanceJoin
  <2>4. \A account, direction :
           LegSum(W, account, direction) = LegSum(X, account, direction) + LegSum(Y, account, direction)
    BY <1>6, <1>7, <2>1, <2>2, LegsJoin
  <2>5. /\ LegSum(W, "RAZORPAY_CLEARING", "DR") = 0 /\ LegSum(W, "RAZORPAY_CLEARING", "CR") = gross + gross
        /\ LegSum(W, "GATEWAY_FEES", "DR") = fee + fee
        /\ LegSum(W, "INPUT_GST", "DR") = tax + tax /\ LegSum(W, "INPUT_GST", "CR") = 0
    BY <1>6, <1>7, <2>4
  <2>6. (gross + gross) \in Int /\ (fee + fee) \in Int /\ (tax + tax) \in Int
    BY <1>2
  <2>7. \A e \in W : e.settlement = payments[p].settlement
    BY <1>1, <1>5, <2>2
  <2>8. Shape3(p, W) => Sides(p, gross - (gross + gross), fee + fee, tax + tax)
    BY <1>1, <2>3, <2>5, <2>6, <2>7, JoinedSides
  <2>9. PostedTwice(p) = W
    BY <1>3, <2>2 DEF PostedTwice
  <2>10. gross - (gross + gross) = -gross
    BY <1>2
  <2> QED
    BY <2>8, <2>9, <2>10
<1> QED
  BY <1>1, <1>2, <1>3, <1>9, <1>10, <1>11, <1>12
-----------------------------------------------------------------------------
\* What a settlement finds in the books is the sum of what its payments leave there.

PaysOf(s) == {p \in Own : payments[p].settlement = s}

LEMMA PaidInIsPaysOf ==
    ASSUME Typed, OneItemEach, NEW s \in Settlement
    PROVE  PaidIn(s) = PaysOf(s)
<1>1. ASSUME NEW p \in PaidIn(s) PROVE p \in PaysOf(s)
  <2>1. PICK i \in PaymentItems(s) : i.ref[1] = p
    BY DEF PaidIn
  <2>2. PICK q \in Own : PaysFor(i, q) /\ i.ref[1] = q
    BY PaidOfSettlement
  <2>3. i.settlement = s
    BY PaidOfSettlement
  <2> QED
    BY <2>1, <2>2, <2>3 DEF PaysFor, PaysOf
<1>2. ASSUME NEW p \in PaysOf(s) PROVE p \in PaidIn(s)
  <2>1. p \in Own /\ payments[p].settlement = s
    BY DEF PaysOf
  <2>2. PICK i : i = ItemOf(p) /\ i \in PaidItems /\ PaysFor(i, p)
    BY <2>1, ItsItem
  <2>3. i \in PaymentItems(s) /\ i.ref[1] = p
    BY <2>1, <2>2 DEF PaidItems, PaysFor, PaymentItems, ItemsIn, OfType
  <2> QED
    BY <2>3 DEF PaidIn
<1> QED
  BY <1>1, <1>2

LEMMA PaysFinite ==
    ASSUME BookInv, NEW s
    PROVE  IsFiniteSet(PaysOf(s)) /\ PaysOf(s) \in SUBSET Own
BY OwnFinite, FS_Subset DEF PaysOf, BookInv

\* A column of the payment items, added up by payment.
LEMMA ColumnByPayment ==
    ASSUME Typed, BookInv, NEW s \in Settlement, NEW f, \A i \in items : f[i] \in Int,
           NEW F, \A p \in PaysOf(s) : F[p] = f[ItemOf(p)]
    PROVE  SumFunctionOnSet(F, PaysOf(s)) = SumFunctionOnSet(f, PaymentItems(s)) /\ IntegerOn(F, PaysOf(s))
<1> DEFINE k == [i \in PaymentItems(s) |-> i.ref[1]]
<1>1. PICK P, D : P = PaymentItems(s) /\ D = PaysOf(s)
  OBVIOUS
<1>2. \A i \in P : k[i] = i.ref[1]
  BY <1>1
<1> HIDE DEF k
<1>3. /\ P \in SUBSET items /\ IsFiniteSet(P) /\ IntegerOn(f, P)
  BY <1>1, FS_Subset DEF PaymentItems, OfType, ItemsIn, Typed, ItemsTyped, IntegerOn
<1>4. IsFiniteSet(D)
  BY <1>1, PaysFinite
<1>5. \A i \in P : k[i] \in D
  <2> TAKE i \in P
  <2>1. i.ref[1] \in PaidIn(s)
    BY <1>1 DEF PaidIn
  <2> QED
    BY <1>1, <1>2, <2>1, PaidInIsPaysOf DEF BookInv
<1>6. ASSUME NEW p \in D PROVE ItemOf(p) \in P /\ ClassOf(k, P, p) = {ItemOf(p)}
  <2>1. p \in Own /\ payments[p].settlement = s
    BY <1>1 DEF PaysOf
  <2>2. /\ ItemOf(p) \in PaidItems /\ PaysFor(ItemOf(p), p)
        /\ \A i \in PaidItems : i.ref = <<p>> => i = ItemOf(p)
    BY <2>1, ItsItem DEF BookInv
  <2>3. ItemOf(p) \in P /\ k[ItemOf(p)] = p
    BY <1>1, <1>2, <2>1, <2>2 DEF PaidItems, PaysFor, PaymentItems, ItemsIn, OfType
  <2>4. ASSUME NEW i \in P, k[i] = p PROVE i = ItemOf(p)
    <3>1. PICK q \in Own : PaysFor(i, q) /\ i.ref[1] = q
      BY <1>1, PaidOfSettlement DEF BookInv
    <3>2. i \in PaidItems
      BY <1>1, PaidOfSettlement DEF BookInv
    <3> QED
      BY <1>2, <2>2, <2>4, <3>1, <3>2 DEF PaysFor
  <2> QED
    BY <2>3, <2>4 DEF ClassOf
<1>7. ASSUME NEW p \in D PROVE F[p] = SumFunctionOnSet(f, ClassOf(k, P, p)) /\ F[p] \in Int
  <2>1. PICK i, S : i = ItemOf(p) /\ S = {i}
    OBVIOUS
  <2>2. i \in P /\ ClassOf(k, P, p) = S /\ F[p] = f[i] /\ f[i] \in Int
    BY <1>1, <1>3, <1>6, <2>1
  <2>3. IsFiniteSet(S) /\ IntegerOn(f, S) /\ i \in S /\ \A y \in S \ {i} : f[y] = 0
    BY <2>1, <2>2, FS_Singleton DEF IntegerOn
  <2>4. SumFunctionOnSet(f, S) = f[i]
    BY <2>3, SumOfOne
  <2> QED
    BY <2>2, <2>4
<1>8. SumFunctionOnSet(F, D) = SumFunctionOnSet(f, P)
  BY <1>3, <1>4, <1>5, <1>7, SumByClass
<1> QED
  BY <1>1, <1>7, <1>8 DEF IntegerOn

LEMMA ChargedByPayment ==
    ASSUME Typed, BookInv, NEW s \in Settlement,
           NEW F, \A p \in PaysOf(s) : F[p] = ItemOf(p).fee,
           NEW T, \A p \in PaysOf(s) : T[p] = ItemOf(p).tax
    PROVE  /\ ChargedFees(s) = SumFunctionOnSet(F, PaysOf(s)) /\ IntegerOn(F, PaysOf(s))
           /\ header[s].tax = SumFunctionOnSet(T, PaysOf(s)) /\ IntegerOn(T, PaysOf(s))
<1> DEFINE fee == [i \in items |-> i.fee]
           tax == [i \in items |-> i.tax]
<1>1. PICK P : P = PaymentItems(s)
  OBVIOUS
<1>2. \A i \in items : /\ fee[i] = i.fee /\ tax[i] = i.tax /\ fee[i] \in Int /\ tax[i] \in Int
  BY DEF Typed, ItemsTyped, IsItem
<1> HIDE DEF fee, tax
<1>3. \A p \in PaysOf(s) : ItemOf(p) \in items
  BY ItsItem DEF PaysOf, PaidItems, OfType, BookInv
<1>4. /\ P \subseteq items /\ IsFiniteSet(P)
      /\ FeeSum(ItemsIn(items, s)) = FeeSum(P) /\ TaxSum(ItemsIn(items, s)) = TaxSum(P)
  BY <1>1, GapsAddUp DEF Typed
<1>5. FeeSum(P) = SumFunctionOnSet(fee, P) /\ TaxSum(P) = SumFunctionOnSet(tax, P)
  BY <1>2, <1>4, FeeSumIsSum, TaxSumIsSum
<1>6. SumFunctionOnSet(F, PaysOf(s)) = SumFunctionOnSet(fee, P) /\ IntegerOn(F, PaysOf(s))
  <2>1. \A p \in PaysOf(s) : F[p] = fee[ItemOf(p)]
    BY <1>2, <1>3
  <2> QED
    BY <1>1, <1>2, <2>1, ColumnByPayment
<1>7. SumFunctionOnSet(T, PaysOf(s)) = SumFunctionOnSet(tax, P) /\ IntegerOn(T, PaysOf(s))
  <2>1. \A p \in PaysOf(s) : T[p] = tax[ItemOf(p)]
    BY <1>2, <1>3
  <2> QED
    BY <1>1, <1>2, <2>1, ColumnByPayment
<1>8. header[s].tax = TaxSum(ItemsIn(items, s))
  BY DEF BookInv, TaxRollsUp, Rollup
<1>9. ChargedFees(s) = FeeSum(ItemsIn(items, s))
  BY DEF ChargedFees
<1> QED
  BY <1>4, <1>5, <1>6, <1>7, <1>8, <1>9
-----------------------------------------------------------------------------
\* Every payment balances, so the books do.

LEMMA ShapesOfOwn ==
    ASSUME BooksKept, NEW p \in Own
    PROVE  \/ Shape3(p, PostedAs(p, Group(p), "GATEWAY_FEES")) \/ Shape3(p, PostedTwice(p))
           \/ Shape3(p, {}) \/ Shape3(p, PostedAs(p, Group(p), "SALES"))
<1>1. CASE \E g \in Rows3 : g.subject[2] = p
  <2>1. PICK g \in Rows3 : g.subject[2] = p
    BY <1>1
  <2>2. Posted(p, g)
    BY <2>1 DEF BooksKept, Row3
  <2> QED
    BY <2>2 DEF Posted
<1>2. CASE \A g \in Rows3 : g.subject[2] # p
  BY <1>2 DEF BooksKept
<1> QED
  BY <1>1, <1>2

LEMMA OwnBalances ==
    ASSUME Typed, Drawn, BookInv, BooksKept, NEW p \in Own
    PROVE  Amounts(OfPayment(ledger, p)) /\ Balanced(OfPayment(ledger, p))
<1>1. \E clearing, fees, tax : Sides(p, clearing, fees, tax)
  BY ShapesOfOwn, ShapeSides
<1> QED
  BY <1>1 DEF Sides

LateOf(p) == {q \in refunds : q.payment = p /\ q.status = "PROCESSED" /\ q.period \in Settlement}
LateLeg(r, account, direction) ==
    Posting(<<"late", r.id, 0>>, account, direction, r.amount, r.payment, r.period)
LEMMA LateLegs ==
    \A p : /\ LatePosted(p) = UNION {LatePostings(r) : r \in LateOf(p)}
           /\ \A r : LatePostings(r) = LateLeg(r, "REFUNDS", "DR") \cup LateLeg(r, "BANK", "CR")
BY DEF LatePosted, LateOf, LatePostings, LateLeg

LEMMA LateEntry ==
    ASSUME NEW p, NEW e \in LatePosted(p)
    PROVE  \E r \in LateOf(p) : /\ e.group = <<"late", r.id, 0>>
                                /\ \/ e \in LateLeg(r, "REFUNDS", "DR") /\ e.direction = "DR"
                                   \/ e \in LateLeg(r, "BANK", "CR") /\ e.direction = "CR"
                                /\ e.amount = r.amount
<1>1. PICK r \in LateOf(p) : e \in LatePostings(r)
  BY LateLegs
<1>2. e \in LateLeg(r, "REFUNDS", "DR") \/ e \in LateLeg(r, "BANK", "CR")
  BY <1>1, LateLegs
<1>3. ASSUME e \in LateLeg(r, "REFUNDS", "DR")
      PROVE  e.group = <<"late", r.id, 0>> /\ e.direction = "DR" /\ e.amount = r.amount
  BY <1>3, PostingIsEntry DEF PostingSays, LateLeg
<1>4. ASSUME e \in LateLeg(r, "BANK", "CR")
      PROVE  e.group = <<"late", r.id, 0>> /\ e.direction = "CR" /\ e.amount = r.amount
  BY <1>4, PostingIsEntry DEF PostingSays, LateLeg
<1> QED
  BY <1>2, <1>3, <1>4

LEMMA LateGroup ==
    ASSUME Typed, NEW p, NEW r \in LateOf(p)
    PROVE  /\ InGroup(LatePosted(p), <<"late", r.id, 0>>, "DR") = LateLeg(r, "REFUNDS", "DR")
           /\ InGroup(LatePosted(p), <<"late", r.id, 0>>, "CR") = LateLeg(r, "BANK", "CR")
<1>1. PICK g, L : g = <<"late", r.id, 0>> /\ L = LatePosted(p)
  OBVIOUS
<1>2. \A q \in LateOf(p) : <<"late", q.id, 0>> = g => q = r
  BY <1>1 DEF Typed, RefundsTyped, LateOf
<1>3. \A e \in L : e.group = g =>
          \/ e \in LateLeg(r, "REFUNDS", "DR") /\ e.direction = "DR"
          \/ e \in LateLeg(r, "BANK", "CR") /\ e.direction = "CR"
  BY <1>1, <1>2, LateEntry
<1>4. \A e \in LateLeg(r, "REFUNDS", "DR") : e \in L /\ e.group = g /\ e.direction = "DR"
  BY <1>1, LateLegs, PostingIsEntry DEF PostingSays, LateLeg
<1>5. \A e \in LateLeg(r, "BANK", "CR") : e \in L /\ e.group = g /\ e.direction = "CR"
  BY <1>1, LateLegs, PostingIsEntry DEF PostingSays, LateLeg
<1>6. InGroup(L, g, "DR") = LateLeg(r, "REFUNDS", "DR")
  BY <1>3, <1>4 DEF InGroup
<1>7. InGroup(L, g, "CR") = LateLeg(r, "BANK", "CR")
  BY <1>3, <1>5 DEF InGroup
<1> QED
  BY <1>1, <1>6, <1>7

LEMMA LateBalances ==
    ASSUME Typed, Drawn, NEW p
    PROVE  (\A e \in LatePosted(p) : e.amount \in Int) /\ Balanced(LatePosted(p))
<1>1. \A r \in LateOf(p) : r.amount \in Int /\ r.amount >= 0
  BY DEF LateOf, Typed, RefundsTyped, IsRefund, Drawn
<1>2. \A e \in LatePosted(p) : e.amount \in Int
  BY <1>1, LateEntry
<1>3. ASSUME NEW g
      PROVE  AmountSum(InGroup(LatePosted(p), g, "DR")) = AmountSum(InGroup(LatePosted(p), g, "CR"))
  <2>1. CASE \E r \in LateOf(p) : g = <<"late", r.id, 0>>
    <3>1. PICK r \in LateOf(p) : g = <<"late", r.id, 0>>
      BY <2>1
    <3>2. PICK s, n, q : s = r.period /\ n = r.amount /\ q = r.payment
      OBVIOUS
    <3>3. n \in Int /\ n >= 0
      BY <1>1, <3>2
    <3>4. /\ InGroup(LatePosted(p), g, "DR") = Posting(g, "REFUNDS", "DR", n, q, s)
          /\ InGroup(LatePosted(p), g, "CR") = Posting(g, "BANK", "CR", n, q, s)
      BY <3>1, <3>2, LateGroup DEF LateLeg
    <3> QED
      BY <3>3, <3>4, PostingSum
  <2>2. CASE ~ \E r \in LateOf(p) : g = <<"late", r.id, 0>>
    <3>1. \A e \in LatePosted(p) : e.group # g
      BY <2>2, LateEntry
    <3>2. InGroup(LatePosted(p), g, "DR") = {} /\ InGroup(LatePosted(p), g, "CR") = {}
      BY <3>1 DEF InGroup
    <3> QED
      BY <3>2
  <2> QED
    BY <2>1, <2>2
<1> QED
  BY <1>2, <1>3 DEF Balanced

LEMMA PaymentBalances ==
    ASSUME Typed, Drawn, BookInv, BooksKept, NEW p
    PROVE  (\A e \in OfPayment(ledger, p) : e.amount \in Int) /\ Balanced(OfPayment(ledger, p))
<1>1. CASE p \in Own
  BY <1>1, OwnBalances DEF Amounts
<1>2. CASE p \notin Own
  <2>1. OfPayment(ledger, p) = LatePosted(p)
    BY <1>2 DEF BooksKept
  <2> QED
    BY <2>1, LateBalances
<1> QED
  BY <1>1, <1>2

LEMMA LedgerWhole ==
    ASSUME Typed, Drawn, BookInv, BooksKept
    PROVE  Amounts(ledger) /\ \A S \in SUBSET ledger : Amounts(S)
<1>1. ASSUME NEW e \in ledger PROVE e.amount \in Int
  <2>1. PICK p : p = e.payment
    OBVIOUS
  <2>2. e \in OfPayment(ledger, p)
    BY <2>1 DEF OfPayment
  <2> QED
    BY <2>2, PaymentBalances
<1>2. Amounts(ledger)
  BY <1>1 DEF Amounts, BooksKept
<1> QED
  BY <1>2, AmountWhole

LEMMA GroupOfPayment ==
    \A g, direction, p :
        OfPayment(InGroup(ledger, g, direction), p) = InGroup(OfPayment(ledger, p), g, direction)
BY DEF OfPayment, InGroup

LEMMA BooksBalance ==
    ASSUME Typed, Drawn, BookInv, BooksKept
    PROVE  UnbalancedGroups = {}
<1>1. ASSUME NEW g
      PROVE  AmountSum(InGroup(ledger, g, "DR")) = AmountSum(InGroup(ledger, g, "CR"))
  <2> DEFINE D == {e.payment : e \in ledger}
             F == [p \in D |-> AmountSum(InGroup(OfPayment(ledger, p), g, "DR"))]
  <2>1. IsFiniteSet(D)
    <3> DEFINE k == [e \in ledger |-> e.payment]
    <3>1. D = {k[e] : e \in ledger}
      OBVIOUS
    <3> HIDE DEF k, D
    <3> QED
      BY <3>1, ImageFinite DEF BooksKept
  <2>2. \A e \in ledger : e.payment \in D
    OBVIOUS
  <2>3. \A p \in D : F[p] = AmountSum(InGroup(OfPayment(ledger, p), g, "DR"))
    OBVIOUS
  <2> HIDE DEF D, F
  <2>4. PICK S, T : S = InGroup(ledger, g, "DR") /\ T = InGroup(ledger, g, "CR")
    OBVIOUS
  <2>5. S \in SUBSET ledger /\ T \in SUBSET ledger
    BY <2>4 DEF InGroup
  <2>6. Amounts(S) /\ Amounts(T)
    BY <2>5, LedgerWhole
  <2>7. \A p \in D : F[p] = AmountSum(InGroup(OfPayment(ledger, p), g, "CR"))
    BY <2>3, PaymentBalances DEF Balanced
  <2>8. \A p \in D : F[p] = AmountSum(OfPayment(S, p)) /\ F[p] = AmountSum(OfPayment(T, p))
    BY <2>3, <2>4, <2>7, GroupOfPayment
  <2>9. (\A e \in S : e.payment \in D) /\ (\A e \in T : e.payment \in D)
    BY <2>2, <2>5
  <2>10. AmountSum(S) = SumFunctionOnSet(F, D)
    BY <2>1, <2>6, <2>8, <2>9, AmountByPayment
  <2>11. AmountSum(T) = SumFunctionOnSet(F, D)
    BY <2>1, <2>6, <2>8, <2>9, AmountByPayment
  <2> QED
    BY <2>4, <2>10, <2>11
<1> QED
  BY <1>1 DEF UnbalancedGroups, InGroup
-----------------------------------------------------------------------------
\* Clearing, fees and input tax of a settlement.

LEMMA OwnLegs ==
    ASSUME BooksKept, NEW p \in Own, NEW account \in {"GATEWAY_FEES", "SALES", "INPUT_GST"},
           NEW direction \in {"DR", "CR"}, account # "SALES" \/ direction = "DR",
           NEW e \in Legs(OfPayment(ledger, p), account, direction)
    PROVE  e.settlement = payments[p].settlement
<1>1. PICK X : /\ Shape3(p, X) /\ \A f \in X : f.settlement = payments[p].settlement
  BY ShapeOfOwn
<1>2. e \in X \/ e \in RestOf(p)
  BY <1>1 DEF Shape3, Legs
<1>3. e.account = account /\ e.direction = direction
  BY DEF Legs
<1>4. e \notin RestOf(p)
  BY <1>3, RefundLegsSay, PostingIsEntry DEF PostingSays, RestOf
<1> QED
  BY <1>1, <1>2, <1>4

EntriesOf(s, account, direction) == {e \in Entries(account, direction) : e.settlement = s}
LEMMA EntriesByPayment ==
    ASSUME Typed, Drawn, BookInv, BooksKept, NEW s \in Settlement,
           NEW account \in {"GATEWAY_FEES", "INPUT_GST"}, NEW direction \in {"DR", "CR"},
           NEW F, \A p \in PaysOf(s) : F[p] = LegSum(OfPayment(ledger, p), account, direction)
    PROVE  /\ AmountSum(EntriesOf(s, account, direction)) = SumFunctionOnSet(F, PaysOf(s))
           /\ IntegerOn(F, PaysOf(s))
<1>1. PICK S, D : S = EntriesOf(s, account, direction) /\ D = PaysOf(s)
  OBVIOUS
<1>2. S \in SUBSET ledger /\ Amounts(S)
  BY <1>1, LedgerWhole DEF EntriesOf, Entries
<1>3. \A e \in S : e.payment \in D
  <2> TAKE e \in S
  <2>1. e \in ledger /\ e.settlement = s /\ e.account = account
    BY <1>1 DEF EntriesOf, Entries
  <2>2. e.account \notin {"REFUNDS", "BANK"}
    BY <2>1
  <2>3. e.payment \in Own /\ e.settlement = payments[e.payment].settlement
    BY <2>1, <2>2, EntryOfSettlement
  <2> QED
    BY <1>1, <2>1, <2>3 DEF PaysOf
<1>4. ASSUME NEW p \in D PROVE OfPayment(S, p) = Legs(OfPayment(ledger, p), account, direction)
  <2>1. p \in Own /\ payments[p].settlement = s
    BY <1>1 DEF PaysOf
  <2>2. \A e \in Legs(OfPayment(ledger, p), account, direction) : e.settlement = s
    BY <2>1, OwnLegs
  <2> QED
    BY <1>1, <2>2 DEF Legs, OfPayment, EntriesOf, Entries
<1>5. \A p \in D : F[p] = AmountSum(OfPayment(S, p))
  BY <1>1, <1>4 DEF LegSum
<1>6. IsFiniteSet(D)
  BY <1>1, PaysFinite
<1> QED
  BY <1>1, <1>2, <1>3, <1>5, <1>6, AmountByPayment

LEMMA ClearingByPayment ==
    ASSUME Typed, Drawn, BookInv, BooksKept, NEW D \in SUBSET Own, NEW direction,
           NEW F, \A p \in D : F[p] = LegSum(OfPayment(ledger, p), "RAZORPAY_CLEARING", direction)
    PROVE  AmountSum(ClearingOf(D, direction)) = SumFunctionOnSet(F, D) /\ IntegerOn(F, D)
<1>1. PICK S : S = ClearingOf(D, direction)
  OBVIOUS
<1>2. S \in SUBSET ledger /\ Amounts(S) /\ \A e \in S : e.payment \in D
  BY <1>1, LedgerWhole DEF ClearingOf, Entries
<1>3. \A p \in D : OfPayment(S, p) = Legs(OfPayment(ledger, p), "RAZORPAY_CLEARING", direction)
  BY <1>1 DEF OfPayment, ClearingOf, Entries, Legs
<1>4. \A p \in D : F[p] = AmountSum(OfPayment(S, p))
  BY <1>3 DEF LegSum
<1>5. IsFiniteSet(D)
  BY OwnFinite, FS_Subset DEF BookInv
<1> QED
  BY <1>1, <1>2, <1>4, <1>5, AmountByPayment

Left(p, c, f, t) ==
    LET E == OfPayment(ledger, p)
    IN  /\ LegSum(E, "RAZORPAY_CLEARING", "DR") - LegSum(E, "RAZORPAY_CLEARING", "CR") = c
        /\ LegSum(E, "GATEWAY_FEES", "DR") = f
        /\ LegSum(E, "INPUT_GST", "DR") - LegSum(E, "INPUT_GST", "CR") = t

LEMMA BooksAddUp ==
    ASSUME Typed, Drawn, BookInv, BooksKept, NEW s \in Settlement,
           NEW C, NEW F, NEW T, \A p \in PaysOf(s) : Left(p, C[p], F[p], T[p])
    PROVE  /\ ClearingBalance(s) = SumFunctionOnSet(C, PaysOf(s)) /\ IntegerOn(C, PaysOf(s))
           /\ PostedFees(s) = SumFunctionOnSet(F, PaysOf(s)) /\ IntegerOn(F, PaysOf(s))
           /\ Booked(s) = SumFunctionOnSet(T, PaysOf(s)) /\ IntegerOn(T, PaysOf(s))
<1> DEFINE Leg(account, direction) ==
               [p \in PaysOf(s) |-> LegSum(OfPayment(ledger, p), account, direction)]
<1>1. PICK D : D = PaysOf(s)
  OBVIOUS
<1>2. IsFiniteSet(D) /\ D \in SUBSET Own /\ D = PaidIn(s)
  BY <1>1, PaysFinite, PaidInIsPaysOf DEF BookInv
<1>3. PICK Dr, Cr, In, Out :
         /\ Dr = Leg("RAZORPAY_CLEARING", "DR") /\ Cr = Leg("RAZORPAY_CLEARING", "CR")
         /\ In = Leg("INPUT_GST", "DR") /\ Out = Leg("INPUT_GST", "CR")
  OBVIOUS
<1>4. \A p \in D : /\ Dr[p] = LegSum(OfPayment(ledger, p), "RAZORPAY_CLEARING", "DR")
                   /\ Cr[p] = LegSum(OfPayment(ledger, p), "RAZORPAY_CLEARING", "CR")
                   /\ In[p] = LegSum(OfPayment(ledger, p), "INPUT_GST", "DR")
                   /\ Out[p] = LegSum(OfPayment(ledger, p), "INPUT_GST", "CR")
                   /\ C[p] = Dr[p] - Cr[p] /\ T[p] = In[p] - Out[p]
                   /\ F[p] = LegSum(OfPayment(ledger, p), "GATEWAY_FEES", "DR")
  BY <1>1, <1>3 DEF Left
<1> HIDE DEF Leg
<1>5. /\ AmountSum(ClearingOf(D, "DR")) = SumFunctionOnSet(Dr, D) /\ IntegerOn(Dr, D)
      /\ AmountSum(ClearingOf(D, "CR")) = SumFunctionOnSet(Cr, D) /\ IntegerOn(Cr, D)
  BY <1>2, <1>4, ClearingByPayment
<1>6. /\ "GATEWAY_FEES" \in {"GATEWAY_FEES", "INPUT_GST"} /\ "INPUT_GST" \in {"GATEWAY_FEES", "INPUT_GST"}
      /\ "DR" \in {"DR", "CR"} /\ "CR" \in {"DR", "CR"}
  OBVIOUS
<1>7. /\ AmountSum(EntriesOf(s, "INPUT_GST", "DR")) = SumFunctionOnSet(In, D) /\ IntegerOn(In, D)
      /\ AmountSum(EntriesOf(s, "INPUT_GST", "CR")) = SumFunctionOnSet(Out, D) /\ IntegerOn(Out, D)
      /\ AmountSum(EntriesOf(s, "GATEWAY_FEES", "DR")) = SumFunctionOnSet(F, D) /\ IntegerOn(F, D)
  BY <1>1, <1>4, <1>6, EntriesByPayment
<1>8. SumFunctionOnSet(C, D) = SumFunctionOnSet(Dr, D) - SumFunctionOnSet(Cr, D)
  BY <1>2, <1>4, <1>5, SumDifference
<1>9. SumFunctionOnSet(T, D) = SumFunctionOnSet(In, D) - SumFunctionOnSet(Out, D)
  BY <1>2, <1>4, <1>7, SumDifference
<1>10. IntegerOn(C, D) /\ IntegerOn(T, D)
  BY <1>4, <1>5, <1>7 DEF IntegerOn
<1>11. ClearingBalance(s) = SumFunctionOnSet(C, D)
  BY <1>2, <1>5, <1>8 DEF ClearingBalance
<1>12. PostedFees(s) = SumFunctionOnSet(F, D)
  BY <1>7 DEF PostedFees, EntriesOf
<1>13. Booked(s) = SumFunctionOnSet(T, D)
  BY <1>7, <1>9 DEF Booked, EntriesOf
<1> QED
  BY <1>1, <1>7, <1>10, <1>11, <1>12, <1>13
-----------------------------------------------------------------------------
\* The sums of a settlement when all of its payments, or all but one, are posted as they
\* should be.

Clean3(p) == Left(p, 0, ItemOf(p).fee, ItemOf(p).tax)

LEMMA AllPosted ==
    ASSUME Typed, Drawn, BookInv, BooksKept, NEW s \in Settlement, \A q \in PaysOf(s) : Clean3(q)
    PROVE  /\ ClearingBalance(s) = 0 /\ BooksDelta(s) = 0
           /\ ChargedFees(s) = PostedFees(s) /\ ChargedFees(s) \in Int
<1>1. PICK D : D = PaysOf(s)
  OBVIOUS
<1>2. PICK C, F, T : /\ C = [q \in D |-> 0] /\ F = [q \in D |-> ItemOf(q).fee]
                     /\ T = [q \in D |-> ItemOf(q).tax]
  OBVIOUS
<1>3. \A q \in D : C[q] = 0 /\ F[q] = ItemOf(q).fee /\ T[q] = ItemOf(q).tax
  BY <1>2
<1>4. \A q \in D : Left(q, C[q], F[q], T[q])
  BY <1>1, <1>3 DEF Clean3
<1>5. /\ ClearingBalance(s) = SumFunctionOnSet(C, D) /\ PostedFees(s) = SumFunctionOnSet(F, D)
      /\ Booked(s) = SumFunctionOnSet(T, D)
  BY <1>1, <1>4, BooksAddUp
<1>6. /\ ChargedFees(s) = SumFunctionOnSet(F, D) /\ header[s].tax = SumFunctionOnSet(T, D)
      /\ IntegerOn(F, D) /\ IntegerOn(T, D)
  BY <1>1, <1>3, ChargedByPayment
<1>7. IsFiniteSet(D)
  BY <1>1, PaysFinite
<1>8. SumFunctionOnSet(C, D) = 0
  BY <1>3, <1>7, SumZero
<1>9. SumFunctionOnSet(F, D) \in Int /\ SumFunctionOnSet(T, D) \in Int
  BY <1>6, <1>7, SumType
<1> QED
  BY <1>5, <1>6, <1>8, <1>9 DEF BooksDelta

LEMMA OneOff ==
    ASSUME Typed, Drawn, BookInv, BooksKept, NEW s \in Settlement, NEW p \in PaysOf(s),
           NEW c \in Int, NEW f \in Int, NEW t \in Int, Left(p, c, f, t),
           \A q \in PaysOf(s) \ {p} : Clean3(q)
    PROVE  /\ ClearingBalance(s) = c
           /\ BooksDelta(s) = t - ItemOf(p).tax /\ ItemOf(p).tax \in Int
           /\ ChargedFees(s) - PostedFees(s) = ItemOf(p).fee - f /\ ItemOf(p).fee \in Int
           /\ ChargedFees(s) \in Int /\ PostedFees(s) \in Int
<1>1. PICK D : D = PaysOf(s)
  OBVIOUS
<1>2. PICK C, F, T, Fee, Tax :
         /\ C = [q \in D |-> IF q = p THEN c ELSE 0]
         /\ F = [q \in D |-> IF q = p THEN f ELSE ItemOf(q).fee]
         /\ T = [q \in D |-> IF q = p THEN t ELSE ItemOf(q).tax]
         /\ Fee = [q \in D |-> ItemOf(q).fee] /\ Tax = [q \in D |-> ItemOf(q).tax]
  OBVIOUS
<1>3. /\ \A q \in D : Fee[q] = ItemOf(q).fee /\ Tax[q] = ItemOf(q).tax
      /\ \A q \in D \ {p} : C[q] = 0 /\ F[q] = ItemOf(q).fee /\ T[q] = ItemOf(q).tax
      /\ C[p] = c /\ F[p] = f /\ T[p] = t /\ p \in D
  BY <1>1, <1>2
<1>4. \A q \in D : Left(q, C[q], F[q], T[q])
  BY <1>1, <1>3 DEF Clean3
<1>5. /\ ClearingBalance(s) = SumFunctionOnSet(C, D) /\ IntegerOn(C, D)
      /\ PostedFees(s) = SumFunctionOnSet(F, D) /\ IntegerOn(F, D)
      /\ Booked(s) = SumFunctionOnSet(T, D) /\ IntegerOn(T, D)
  BY <1>1, <1>4, BooksAddUp
<1>6. /\ ChargedFees(s) = SumFunctionOnSet(Fee, D) /\ IntegerOn(Fee, D)
      /\ header[s].tax = SumFunctionOnSet(Tax, D) /\ IntegerOn(Tax, D)
  BY <1>1, <1>3, ChargedByPayment
<1>7. IsFiniteSet(D)
  BY <1>1, PaysFinite
<1>8. SumFunctionOnSet(C, D) = c
  <2>1. \A q \in D \ {p} : C[q] = 0
    BY <1>3
  <2>2. SumFunctionOnSet(C, D) = C[p]
    BY <1>3, <1>5, <1>7, <2>1, SumOfOne
  <2> QED
    BY <1>3, <2>2
<1>9. PICK H, K : H = [q \in D |-> Fee[q] - F[q]] /\ K = [q \in D |-> T[q] - Tax[q]]
  OBVIOUS
<1>10. /\ \A q \in D : H[q] = Fee[q] - F[q] /\ K[q] = T[q] - Tax[q]
       /\ IntegerOn(H, D) /\ IntegerOn(K, D)
  BY <1>5, <1>6, <1>9 DEF IntegerOn
<1>11. \A q \in D \ {p} : H[q] = 0 /\ K[q] = 0
  BY <1>3, <1>5, <1>6, <1>10 DEF IntegerOn
<1>12. SumFunctionOnSet(H, D) = H[p] /\ SumFunctionOnSet(K, D) = K[p]
  BY <1>3, <1>7, <1>10, <1>11, SumOfOne
<1>13. SumFunctionOnSet(H, D) = SumFunctionOnSet(Fee, D) - SumFunctionOnSet(F, D)
  BY <1>5, <1>6, <1>7, <1>10, SumDifference
<1>14. SumFunctionOnSet(K, D) = SumFunctionOnSet(T, D) - SumFunctionOnSet(Tax, D)
  BY <1>5, <1>6, <1>7, <1>10, SumDifference
<1>15. /\ SumFunctionOnSet(Fee, D) \in Int /\ SumFunctionOnSet(F, D) \in Int
       /\ Fee[p] \in Int /\ Tax[p] \in Int
  BY <1>3, <1>5, <1>6, <1>7, SumType DEF IntegerOn
<1>16. H[p] = ItemOf(p).fee - f /\ K[p] = t - ItemOf(p).tax
  BY <1>3, <1>10
<1> QED
  BY <1>3, <1>5, <1>6, <1>8, <1>12, <1>13, <1>14, <1>15, <1>16 DEF BooksDelta
-----------------------------------------------------------------------------
\* The payments of a settlement, by its rows.

LEMMA SidesLeave ==
    ASSUME NEW p, NEW c, NEW f, NEW t, Sides(p, c, f, t)
    PROVE  Left(p, c, f, t)
BY DEF Sides, Left

LEMMA CleanShape ==
    ASSUME Typed, Drawn, BookInv, BooksKept, NEW p \in Own, \A g \in Rows3 : g.subject[2] # p
    PROVE  Clean3(p) /\ Shape3(p, PostedAs(p, Group(p), "GATEWAY_FEES"))
<1>1. Shape3(p, PostedAs(p, Group(p), "GATEWAY_FEES"))
  BY DEF BooksKept
<1>2. Sides(p, 0, ItemOf(p).fee, ItemOf(p).tax)
  BY <1>1, ShapeSides
<1> QED
  BY <1>1, <1>2, SidesLeave DEF Clean3

LEMMA NoRowNoDefect ==
    ASSUME Typed, Drawn, BookInv, BooksKept, NEW s \in Settlement,
           \A g \in Rows3 : g.settlement # s
    PROVE  \A q \in PaysOf(s) : Clean3(q) /\ Shape3(q, PostedAs(q, Group(q), "GATEWAY_FEES"))
<1> SUFFICES ASSUME NEW q \in PaysOf(s)
             PROVE  Clean3(q) /\ Shape3(q, PostedAs(q, Group(q), "GATEWAY_FEES"))
  OBVIOUS
<1>1. q \in Own /\ payments[q].settlement = s
  BY DEF PaysOf
<1>2. \A g \in Rows3 : g.subject[2] # q
  <2> SUFFICES ASSUME NEW g \in Rows3, g.subject[2] = q PROVE FALSE
    OBVIOUS
  <2>1. PICK p \in Own : g.subject[2] = p /\ Row3(p, g)
    BY DEF BooksKept
  <2> QED
    BY <1>1, <2>1 DEF Row3
<1> QED
  BY <1>1, <1>2, CleanShape

LEMMA OneRowOneDefect ==
    ASSUME Typed, Drawn, BookInv, BooksKept, NEW g \in Rows3, NEW p \in Own,
           g.subject[2] = p, Row3(p, g)
    PROVE  LET s == payments[p].settlement
           IN  /\ s \in Settlement /\ p \in PaysOf(s) /\ g.settlement = s
               /\ \A q \in PaysOf(s) \ {p} :
                      Clean3(q) /\ Shape3(q, PostedAs(q, Group(q), "GATEWAY_FEES"))
<1>1. PICK s : s = payments[p].settlement
  OBVIOUS
<1>2. s \in Settlement /\ p \in PaysOf(s) /\ g.settlement = s
  BY <1>1 DEF Own, PaysOf, Row3
<1>3. ASSUME NEW q \in PaysOf(s) \ {p}
      PROVE  Clean3(q) /\ Shape3(q, PostedAs(q, Group(q), "GATEWAY_FEES"))
  <2>1. q \in Own /\ payments[q].settlement = s
    BY DEF PaysOf
  <2>2. \A h \in Rows3 : h.subject[2] # q
    <3> SUFFICES ASSUME NEW h \in Rows3, h.subject[2] = q PROVE FALSE
      OBVIOUS
    <3>1. PICK r \in Own : h.subject[2] = r /\ Row3(r, h)
      BY DEF BooksKept
    <3>2. h.settlement = g.settlement
      BY <1>2, <2>1, <3>1 DEF Row3
    <3> QED
      BY <3>2 DEF BooksKept
  <2> QED
    BY <2>1, <2>2, CleanShape
<1> QED
  BY <1>1, <1>2, <1>3
-----------------------------------------------------------------------------
\* What the rules of delta 3 look at.

LEMMA GroupsOfShape ==
    ASSUME NEW s \in Settlement, NEW q \in PaysOf(s), NEW X, Shape3(q, X),
           \A e \in X : e.settlement = s
    PROVE  PostedGroups(s, q) = {e.group : e \in Legs(X, "RAZORPAY_CLEARING", "CR")}
<1>1. \A e \in RestOf(q) : e.settlement # s
  <2>1. \A e \in RestOf(q) : e.settlement = 0
    BY EntriesSay DEF RestSays
  <2> QED
    BY <2>1 DEF Settlement
<1>2. {f \in ClearingOf({q}, "CR") : f.settlement = s} = Legs(X, "RAZORPAY_CLEARING", "CR")
  BY <1>1 DEF ClearingOf, Entries, Legs, Shape3, OfPayment
<1> QED
  BY <1>2 DEF PostedGroups

LEMMA PostingNotEmpty ==
    ASSUME NEW g, NEW account, NEW direction, NEW amount \in Nat, amount # 0, NEW p, NEW s
    PROVE  Posting(g, account, direction, amount, p, s) # {}
<1>1. ~ (amount <= 0)
  OBVIOUS
<1> QED
  BY <1>1 DEF Posting

LEMMA GroupsOfPosting ==
    ASSUME Typed, BookInv, NEW s \in Settlement, NEW q \in PaysOf(s)
    PROVE  /\ Shape3(q, PostedAs(q, Group(q), "GATEWAY_FEES")) => PostedGroups(s, q) \subseteq {Group(q)}
           /\ Shape3(q, {}) => PostedGroups(s, q) = {}
           /\ Shape3(q, PostedTwice(q)) /\ Gross(q) # 0 => PostedGroups(s, q) = {Group(q), Copy(q)}
<1>1. PICK X, Y : X = PostedAs(q, Group(q), "GATEWAY_FEES") /\ Y = PostedAs(q, Copy(q), "GATEWAY_FEES")
  OBVIOUS
<1>2. q \in Own /\ payments[q].settlement = s /\ Gross(q) \in Nat
  BY GrossWhole DEF PaysOf, BookInv
<1>3. "GATEWAY_FEES" \in {"GATEWAY_FEES", "SALES"}
  OBVIOUS
<1>4. /\ Legs(X, "RAZORPAY_CLEARING", "CR") = Posting(Group(q), "RAZORPAY_CLEARING", "CR", Gross(q), q, s)
      /\ \A e \in X : e.settlement = s /\ e.group = Group(q)
      /\ Legs(Y, "RAZORPAY_CLEARING", "CR") = Posting(Copy(q), "RAZORPAY_CLEARING", "CR", Gross(q), q, s)
      /\ \A e \in Y : e.settlement = s /\ e.group = Copy(q)
  BY <1>1, <1>2, <1>3, PostedLegs
<1>5. /\ \A e \in Legs(X, "RAZORPAY_CLEARING", "CR") : e.group = Group(q)
      /\ \A e \in Legs(Y, "RAZORPAY_CLEARING", "CR") : e.group = Copy(q)
  BY <1>4 DEF Legs
<1>6. Gross(q) # 0 => /\ Legs(X, "RAZORPAY_CLEARING", "CR") # {}
                      /\ Legs(Y, "RAZORPAY_CLEARING", "CR") # {}
  BY <1>2, <1>4, PostingNotEmpty
<1>7. Shape3(q, X) => PostedGroups(s, q) \subseteq {Group(q)}
  <2>1. Shape3(q, X) => PostedGroups(s, q) = {e.group : e \in Legs(X, "RAZORPAY_CLEARING", "CR")}
    BY <1>4, GroupsOfShape
  <2> QED
    BY <1>5, <2>1
<1>8. Shape3(q, {}) => PostedGroups(s, q) = {}
  <2>1. PICK N : N = {}
    OBVIOUS
  <2>2. Shape3(q, N) => PostedGroups(s, q) = {e.group : e \in Legs(N, "RAZORPAY_CLEARING", "CR")}
    BY <2>1, GroupsOfShape
  <2> QED
    BY <2>1, <2>2 DEF Legs
<1>9. Shape3(q, PostedTwice(q)) /\ Gross(q) # 0 => PostedGroups(s, q) = {Group(q), Copy(q)}
  <2> SUFFICES ASSUME Shape3(q, PostedTwice(q)), Gross(q) # 0
               PROVE  PostedGroups(s, q) = {Group(q), Copy(q)}
    OBVIOUS
  <2>1. PICK W : W = X \cup Y
    OBVIOUS
  <2>2. Shape3(q, W) /\ \A e \in W : e.settlement = s
    BY <1>1, <1>4, <2>1 DEF PostedTwice
  <2>3. PostedGroups(s, q) = {e.group : e \in Legs(W, "RAZORPAY_CLEARING", "CR")}
    BY <2>2, GroupsOfShape
  <2>4. Legs(W, "RAZORPAY_CLEARING", "CR")
          = Legs(X, "RAZORPAY_CLEARING", "CR") \cup Legs(Y, "RAZORPAY_CLEARING", "CR")
    BY <2>1 DEF Legs
  <2> QED
    BY <1>5, <1>6, <2>3, <2>4
<1> QED
  BY <1>1, <1>7, <1>8, <1>9

LEMMA StrandedIsLeft ==
    ASSUME NEW p, NEW c, NEW f, NEW t, Left(p, c, f, t)
    PROVE  Stranded(p) = c
<1>1. \A direction : ClearingOf({p}, direction) = Legs(OfPayment(ledger, p), "RAZORPAY_CLEARING", direction)
  BY DEF ClearingOf, Entries, Legs, OfPayment
<1> QED
  BY <1>1 DEF Left, Stranded, LegSum

\* A copy of a posting is worth what it copies.
LEMMA CopyIsCleared ==
    ASSUME BooksKept, Typed, BookInv, NEW p \in Own, Shape3(p, PostedTwice(p))
    PROVE  GroupClearing(Copy(p)) = Gross(p)
<1>1. PICK X, Y : X = PostedAs(p, Group(p), "GATEWAY_FEES") /\ Y = PostedAs(p, Copy(p), "GATEWAY_FEES")
  OBVIOUS
<1>2. /\ \A e \in X : e.group = Group(p)
      /\ \A e \in Y : e.group = Copy(p)
      /\ \A e \in RestOf(p) : e.group[1] \in {"capture", "refund"}
  BY <1>1, EntriesSay DEF PostedSays, RestSays
<1>3. OfPayment(ledger, p) = RestOf(p) \cup X \cup Y
  BY <1>1 DEF Shape3, PostedTwice
<1>4. ASSUME NEW e \in ledger, e.group = Copy(p) PROVE e \in Y
  <2>1. PICK q : q = e.payment
    OBVIOUS
  <2>2. e.group[1] = "settlement"
    BY <1>4 DEF Copy
  <2>3. e.group \in {Group(q), Copy(q)}
    BY <2>1, <2>2, EntryOfSettlement
  <2>4. q = p
    BY <1>4, <2>3 DEF Group, Copy
  <2>5. e \in OfPayment(ledger, p)
    BY <2>1, <2>4 DEF OfPayment
  <2>6. e \notin X /\ e \notin RestOf(p)
    BY <1>2, <1>4, <2>2 DEF Group, Copy
  <2> QED
    BY <1>3, <2>5, <2>6
<1>5. \A e \in Y : e \in ledger /\ e.group = Copy(p)
  BY <1>2, <1>3 DEF OfPayment
<1>6. {e \in Entries("RAZORPAY_CLEARING", "CR") : e.group = Copy(p)} = Legs(Y, "RAZORPAY_CLEARING", "CR")
  BY <1>4, <1>5 DEF Entries, Legs
<1>7. /\ Gross(p) \in Nat /\ ItemOf(p).fee \in Nat /\ ItemOf(p).tax \in Nat
      /\ "GATEWAY_FEES" \in {"GATEWAY_FEES", "SALES"}
  BY ItsItem, GrossWhole DEF BookInv
<1>8. LegSum(Y, "RAZORPAY_CLEARING", "CR") = Gross(p)
  BY <1>1, <1>7, PostedSums
<1> QED
  BY <1>6, <1>8 DEF GroupClearing, LegSum
-----------------------------------------------------------------------------
\* Delta 3 of a settlement, rule by rule.

Open3(s) == ClearingBalance(s) # 0
CopiesOf(s, p) == {Attribution("duplicate_ledger", g, -GroupClearing(g)) : g \in DuplicateGroups(s, p)}
DuplicateFinds(s) == IF ~ Open3(s) THEN {} ELSE UNION {CopiesOf(s, p) : p \in PaidIn(s)}
Absent(s) == {p \in PaidIn(s) : PostedGroups(s, p) = {} /\ Stranded(p) # 0}
AbsentFinds(s) ==
    IF ~ Open3(s) THEN {} ELSE {Attribution("missing_ledger", <<p>>, Stranded(p)) : p \in Absent(s)}
MispostedFinds(s) ==
    IF Open3(s) \/ ChargedFees(s) = PostedFees(s) THEN {}
    ELSE {Attribution("misposted_ledger", e.group, e.amount) :
              e \in {f \in Entries("SALES", "DR") : f.settlement = s}}

Rules3Listed ==
    \A s : Rules3(s) =
        << [label |-> "DUPLICATE_LEDGER_ENTRY", found |-> DuplicateFinds(s)],
           [label |-> "MISSING_LEDGER_ENTRY", found |-> AbsentFinds(s)],
           [label |-> "MISPOSTED_ACCOUNT", found |-> MispostedFinds(s)] >>

LEMMA Rules3AreListed == Rules3Listed
BY ZenonT(60) DEF Rules3Listed, Rules3, Open3, CopiesOf, DuplicateFinds, Absent, AbsentFinds,
   MispostedFinds

LEMMA Rules3Unfolded ==
    ASSUME NEW s, NEW rules, rules = Rules3(s)
    PROVE  /\ DOMAIN rules = 1 .. 3
           /\ Rule(rules[1], "DUPLICATE_LEDGER_ENTRY", DuplicateFinds(s))
           /\ Rule(rules[2], "MISSING_LEDGER_ENTRY", AbsentFinds(s))
           /\ Rule(rules[3], "MISPOSTED_ACCOUNT", MispostedFinds(s))
BY Rules3AreListed DEF Rules3Listed, Rule

Told3(s, g) ==
    LET is == Diagnose3(s)
    IN  is.label = g.expects /\ is.tier = "A" /\ is.residual = 0 /\ Abs(is.delta) = g.amount
Diagnosed3 ==
    \A s \in Settlement :
        /\ (\A g \in Rows3 : g.settlement # s) => Silent(Diagnose3(s))
        /\ \A g \in Rows3 : g.settlement = s
              => g.resolvable /\ (~ LeavesClearing(g) => Told3(s, g))

LEMMA NoDefectIsSilent ==
    ASSUME Typed, Drawn, BookInv, BooksKept, NEW s \in Settlement, \A g \in Rows3 : g.settlement # s
    PROVE  Silent(Diagnose3(s))
<1>1. \A q \in PaysOf(s) : Clean3(q)
  BY NoRowNoDefect
<1>2. ClearingBalance(s) = 0 /\ ChargedFees(s) = PostedFees(s) /\ ChargedFees(s) \in Int
  BY <1>1, AllPosted
<1>3. Delta3(s) = 0
  BY <1>2 DEF Delta3
<1>4. DuplicateFinds(s) = {} /\ AbsentFinds(s) = {} /\ MispostedFinds(s) = {}
  BY <1>2 DEF DuplicateFinds, AbsentFinds, MispostedFinds, Open3
<1>5. PICK rules : rules = Rules3(s)
  OBVIOUS
<1>6. \A k \in DOMAIN rules : rules[k].found = {}
  BY <1>4, <1>5, Rules3Unfolded DEF Rule
<1>7. Silent(Verdict(0, rules, "CLEARING_NOT_ZERO"))
  BY <1>6, NoFindingIsSilent
<1> QED
  BY <1>3, <1>5, <1>7 DEF Diagnose3

LEMMA OneOfThreeDecides ==
    ASSUME NEW delta \in Int, NEW rules, DOMAIN rules = 1 .. 3, NEW k \in DOMAIN rules,
           rules[k].found # {}, \A j \in DOMAIN rules \ {k} : rules[j].found = {},
           AmountSum(rules[k].found) = delta
    PROVE  LET d == Verdict(delta, rules, "CLEARING_NOT_ZERO")
           IN  d.delta = delta /\ d.label = rules[k].label /\ d.tier = "A" /\ d.residual = 0
<1>1. DOMAIN rules \subseteq Nat
  OBVIOUS
<1> QED
  BY <1>1, OneRuleDecides

\* One rule that finds one thing, worth the delta, names it.
LEMMA OneRuleTells ==
    ASSUME NEW s, NEW rules, rules = Rules3(s), NEW k \in 1 .. 3,
           NEW x, x.amount \in Int, rules[k].found = {x}, Delta3(s) = x.amount,
           \A j \in 1 .. 3 \ {k} : rules[j].found = {},
           NEW g, rules[k].label = g.expects, Abs(x.amount) = g.amount
    PROVE  Told3(s, g)
<1>1. DOMAIN rules = 1 .. 3 /\ DOMAIN rules \subseteq Nat
  BY Rules3Unfolded
<1>2. PICK F : F = {x}
  OBVIOUS
<1>3. AmountSum(F) = x.amount /\ F # {} /\ rules[k].found = F
  BY <1>2, AmountOfOne
<1>4. PICK delta : delta = x.amount
  OBVIOUS
<1>5. /\ DOMAIN rules \subseteq Nat /\ k \in DOMAIN rules /\ rules[k].found # {}
      /\ \A j \in DOMAIN rules \ {k} : rules[j].found = {}
      /\ AmountSum(rules[k].found) = delta /\ delta \in Int
  BY <1>1, <1>3, <1>4
<1>6. LET d == Verdict(delta, rules, "CLEARING_NOT_ZERO")
      IN  d.delta = delta /\ d.label = rules[k].label /\ d.tier = "A" /\ d.residual = 0
  BY SMTT(20), <1>1, <1>5, OneOfThreeDecides
<1>7. Diagnose3(s) = Verdict(delta, rules, "CLEARING_NOT_ZERO")
  BY <1>4 DEF Diagnose3
<1> QED
  BY <1>4, <1>6, <1>7 DEF Told3

\* Where nothing is posted twice no rule sees a copy.
LEMMA NoCopies ==
    ASSUME NEW s, NEW q, NEW g, PostedGroups(s, q) \subseteq {g}, g[3] = 0
    PROVE  CopiesOf(s, q) = {}
BY DEF CopiesOf, DuplicateGroups

LEMMA CleanIsNeither ==
    ASSUME Typed, BookInv, NEW s \in Settlement, NEW q \in PaysOf(s), Clean3(q),
           Shape3(q, PostedAs(q, Group(q), "GATEWAY_FEES"))
    PROVE  CopiesOf(s, q) = {} /\ Stranded(q) = 0
<1>1. PostedGroups(s, q) \subseteq {Group(q)} /\ Group(q)[3] = 0
  BY GroupsOfPosting DEF Group
<1>2. CopiesOf(s, q) = {}
  BY <1>1, NoCopies
<1> QED
  BY <1>2, StrandedIsLeft DEF Clean3

LEMMA DuplicateIsTold ==
    ASSUME Typed, Drawn, BookInv, BooksKept, NEW g \in Rows3, NEW p \in Own,
           g.subject[2] = p, Row3(p, g), g.type = "D3_DUPLICATE_LEDGER", Gross(p) # 0
    PROVE  Told3(payments[p].settlement, g)
<1>1. PICK s : s = payments[p].settlement
  OBVIOUS
<1>2. /\ s \in Settlement /\ p \in PaysOf(s)
      /\ \A q \in PaysOf(s) \ {p} :
             Clean3(q) /\ Shape3(q, PostedAs(q, Group(q), "GATEWAY_FEES"))
  BY <1>1, OneRowOneDefect
<1>3. /\ g.expects = "DUPLICATE_LEDGER_ENTRY" /\ g.amount = Gross(p) /\ Shape3(p, PostedTwice(p))
  BY DEF Row3, Posted
<1>4. PICK gross, fee, tax : gross = Gross(p) /\ fee = ItemOf(p).fee /\ tax = ItemOf(p).tax
  OBVIOUS
<1>5. gross \in Nat /\ gross # 0 /\ fee \in Nat /\ tax \in Nat /\ Sides(p, -gross, fee + fee, tax + tax)
  BY <1>3, <1>4, ShapeSides
<1>6. Left(p, -gross, fee + fee, tax + tax)
  BY <1>5, SidesLeave
<1>7. (-gross) \in Int /\ (fee + fee) \in Int /\ (tax + tax) \in Int /\ (-gross) # 0
  BY <1>5
<1>8. ClearingBalance(s) = -gross
  BY <1>2, <1>6, <1>7, OneOff
<1>9. Open3(s) /\ Delta3(s) = -gross
  BY <1>7, <1>8 DEF Open3, Delta3
<1>10. PaidIn(s) = PaysOf(s)
  BY <1>2, PaidInIsPaysOf DEF BookInv
<1>11. \A q \in PaysOf(s) \ {p} : CopiesOf(s, q) = {} /\ Stranded(q) = 0
  BY <1>2, CleanIsNeither
<1>12. PostedGroups(s, p) = {Group(p), Copy(p)}
  BY <1>2, <1>3, <1>4, <1>5, GroupsOfPosting
<1>13. Group(p)[3] = 0 /\ Copy(p)[3] = 1
  BY DEF Group, Copy
<1>14. DuplicateGroups(s, p) = {Copy(p)}
  BY <1>12, <1>13 DEF DuplicateGroups
<1>15. GroupClearing(Copy(p)) = gross
  BY <1>3, <1>4, CopyIsCleared
<1>16. PICK x : x = Attribution("duplicate_ledger", Copy(p), -gross)
  OBVIOUS
<1>17. CopiesOf(s, p) = {x}
  BY <1>14, <1>15, <1>16 DEF CopiesOf
<1>18. DuplicateFinds(s) = {x}
  BY <1>2, <1>9, <1>10, <1>11, <1>17 DEF DuplicateFinds
<1>19. AbsentFinds(s) = {}
  <2>1. Absent(s) = {}
    BY <1>10, <1>11, <1>12 DEF Absent
  <2> QED
    BY <2>1 DEF AbsentFinds
<1>20. MispostedFinds(s) = {}
  BY <1>9 DEF MispostedFinds
<1>21. PICK rules, k : rules = Rules3(s) /\ k = 1
  OBVIOUS
<1>22. /\ rules[1].found = {x} /\ rules[1].label = g.expects
       /\ rules[2].found = {} /\ rules[3].found = {}
  BY <1>3, <1>18, <1>19, <1>20, <1>21, Rules3Unfolded DEF Rule
<1>23. x.amount = -gross /\ x.amount \in Int /\ Abs(x.amount) = g.amount
  BY <1>3, <1>4, <1>5, <1>7, <1>16 DEF Attribution, Abs
<1>24. /\ k \in 1 .. 3 /\ rules[k].found = {x} /\ rules[k].label = g.expects
       /\ \A j \in 1 .. 3 \ {k} : rules[j].found = {} 
  BY <1>21, <1>22
<1>25. Told3(s, g)
  BY <1>9, <1>21, <1>23, <1>24, OneRuleTells
<1> QED
  BY <1>1, <1>25

LEMMA MissingIsTold ==
    ASSUME Typed, Drawn, BookInv, BooksKept, NEW g \in Rows3, NEW p \in Own,
           g.subject[2] = p, Row3(p, g), g.type = "D3_MISSING_LEDGER", Gross(p) # 0
    PROVE  Told3(payments[p].settlement, g)
<1>1. PICK s : s = payments[p].settlement
  OBVIOUS
<1>2. /\ s \in Settlement /\ p \in PaysOf(s)
      /\ \A q \in PaysOf(s) \ {p} :
             Clean3(q) /\ Shape3(q, PostedAs(q, Group(q), "GATEWAY_FEES"))
  BY <1>1, OneRowOneDefect
<1>3. /\ g.expects = "MISSING_LEDGER_ENTRY" /\ g.amount = Gross(p) /\ Shape3(p, {})
  BY DEF Row3, Posted
<1>4. PICK gross : gross = Gross(p)
  OBVIOUS
<1>5. gross \in Nat /\ gross # 0 /\ Sides(p, gross, 0, 0)
  BY <1>3, <1>4, ShapeSides
<1>6. Left(p, gross, 0, 0) /\ gross \in Int /\ 0 \in Int
  BY <1>5, SidesLeave
<1>7. ClearingBalance(s) = gross
  BY <1>2, <1>6, OneOff
<1>8. Open3(s) /\ Delta3(s) = gross
  BY <1>5, <1>7 DEF Open3, Delta3
<1>9. PaidIn(s) = PaysOf(s)
  BY <1>2, PaidInIsPaysOf DEF BookInv
<1>10. \A q \in PaysOf(s) \ {p} : CopiesOf(s, q) = {} /\ Stranded(q) = 0
  BY <1>2, CleanIsNeither
<1>11. PostedGroups(s, p) = {} /\ Stranded(p) = gross
  BY <1>2, <1>3, <1>6, GroupsOfPosting, StrandedIsLeft
<1>12. CopiesOf(s, p) = {}
  BY <1>11 DEF CopiesOf, DuplicateGroups
<1>13. DuplicateFinds(s) = {}
  BY <1>2, <1>9, <1>10, <1>12 DEF DuplicateFinds
<1>14. PICK x : x = Attribution("missing_ledger", <<p>>, gross)
  OBVIOUS
<1>15. Absent(s) = {p}
  BY <1>2, <1>5, <1>9, <1>10, <1>11 DEF Absent
<1>16. AbsentFinds(s) = {x}
  BY <1>8, <1>11, <1>14, <1>15 DEF AbsentFinds
<1>17. MispostedFinds(s) = {}
  BY <1>8 DEF MispostedFinds
<1>18. PICK rules, k : rules = Rules3(s) /\ k = 2
  OBVIOUS
<1>19. /\ rules[2].found = {x} /\ rules[2].label = g.expects
       /\ rules[1].found = {} /\ rules[3].found = {}
  BY <1>3, <1>13, <1>16, <1>17, <1>18, Rules3Unfolded DEF Rule
<1>20. x.amount = gross /\ x.amount \in Int /\ Abs(x.amount) = g.amount
  BY <1>3, <1>4, <1>5, <1>14 DEF Attribution, Abs
<1>21. /\ k \in 1 .. 3 /\ rules[k].found = {x} /\ rules[k].label = g.expects
       /\ \A j \in 1 .. 3 \ {k} : rules[j].found = {}
  BY <1>18, <1>19
<1>22. Told3(s, g)
  BY <1>8, <1>18, <1>20, <1>21, OneRuleTells
<1> QED
  BY <1>1, <1>22
-----------------------------------------------------------------------------

\* The one posting to a wrong account is what the third rule finds.
LEMMA SalesOfSettlement ==
    ASSUME Typed, Drawn, BookInv, BooksKept, NEW s \in Settlement, NEW p \in PaysOf(s),
           Shape3(p, PostedAs(p, Group(p), "SALES")),
           \A q \in PaysOf(s) \ {p} : Shape3(q, PostedAs(q, Group(q), "GATEWAY_FEES"))
    PROVE  {f \in Entries("SALES", "DR") : f.settlement = s}
             = Posting(Group(p), "SALES", "DR", ItemOf(p).fee, p, s)
<1>1. p \in Own /\ payments[p].settlement = s
  BY DEF PaysOf
<1>2. PICK Z : Z = PostedAs(p, Group(p), "SALES")
  OBVIOUS
<1>3. "SALES" \in {"GATEWAY_FEES", "SALES"} /\ "GATEWAY_FEES" \in {"GATEWAY_FEES", "SALES"}
      /\ "SALES" \in {"GATEWAY_FEES", "SALES"} \ {"GATEWAY_FEES"}
  OBVIOUS
<1>4. /\ Legs(Z, "SALES", "DR") = Posting(Group(p), "SALES", "DR", ItemOf(p).fee, p, s)
      /\ \A e \in Z : e.settlement = s
  BY <1>1, <1>2, <1>3, PostedLegs
<1>5. OfPayment(ledger, p) = RestOf(p) \cup Z
  BY <1>2 DEF Shape3
<1>6. ASSUME NEW e \in ledger, e.account = "SALES", e.direction = "DR", e.settlement = s
      PROVE  e \in Legs(Z, "SALES", "DR")
  <2>1. PICK q : q = e.payment
    OBVIOUS
  <2>2. e.account \notin {"REFUNDS", "BANK"}
    BY <1>6
  <2>3. q \in Own /\ payments[q].settlement = s
    BY <1>6, <2>1, <2>2, EntryOfSettlement
  <2>4. q \in PaysOf(s)
    BY <2>3 DEF PaysOf
  <2>5. e \in OfPayment(ledger, q)
    BY <2>1 DEF OfPayment
  <2>6. e \notin RestOf(q)
    <3>1. \A x \in RestOf(q) : x.settlement = 0
      BY EntriesSay DEF RestSays
    <3> QED
      BY <1>6, <3>1 DEF Settlement
  <2>7. q = p
    <3> SUFFICES ASSUME q # p PROVE FALSE
      OBVIOUS
    <3>1. e \in PostedAs(q, Group(q), "GATEWAY_FEES")
      BY <2>4, <2>5, <2>6 DEF Shape3
    <3>2. Legs(PostedAs(q, Group(q), "GATEWAY_FEES"), "SALES", "DR") = {}
      BY <1>3, PostedLegs
    <3> QED
      BY <1>6, <3>1, <3>2 DEF Legs
  <2> QED
    BY <1>5, <1>6, <2>5, <2>6, <2>7 DEF Legs
<1>7. ASSUME NEW e \in Legs(Z, "SALES", "DR")
      PROVE  e \in ledger /\ e.account = "SALES" /\ e.direction = "DR" /\ e.settlement = s
  BY <1>4, <1>5 DEF Legs, OfPayment
<1>8. {f \in Entries("SALES", "DR") : f.settlement = s} = Legs(Z, "SALES", "DR")
  BY <1>6, <1>7 DEF Entries
<1> QED
  BY <1>4, <1>8

LEMMA MispostedIsTold ==
    ASSUME Typed, Drawn, BookInv, BooksKept, NEW g \in Rows3, NEW p \in Own,
           g.subject[2] = p, Row3(p, g), g.type = "D3_WRONG_ACCOUNT"
    PROVE  Told3(payments[p].settlement, g)
<1>1. PICK s : s = payments[p].settlement
  OBVIOUS
<1>2. /\ s \in Settlement /\ p \in PaysOf(s)
      /\ \A q \in PaysOf(s) \ {p} :
             Clean3(q) /\ Shape3(q, PostedAs(q, Group(q), "GATEWAY_FEES"))
  BY <1>1, OneRowOneDefect
<1>3. /\ g.expects = "MISPOSTED_ACCOUNT" /\ g.amount = ItemOf(p).fee /\ g.amount > 0
      /\ Shape3(p, PostedAs(p, Group(p), "SALES"))
  BY DEF Row3, Posted
<1>4. PICK fee, tax : fee = ItemOf(p).fee /\ tax = ItemOf(p).tax
  OBVIOUS
<1>5. fee \in Nat /\ fee > 0 /\ tax \in Nat /\ Sides(p, 0, 0, tax)
  BY <1>3, <1>4, ShapeSides
<1>6. Left(p, 0, 0, tax) /\ tax \in Int /\ 0 \in Int
  BY <1>5, SidesLeave
<1>7. /\ ClearingBalance(s) = 0 /\ ChargedFees(s) - PostedFees(s) = fee - 0
      /\ ChargedFees(s) \in Int /\ PostedFees(s) \in Int
  <2>1. PICK z : z = 0
    OBVIOUS
  <2>2. Left(p, z, z, tax) /\ z \in Int
    BY <1>6, <2>1
  <2>3. /\ ClearingBalance(s) = z /\ ChargedFees(s) - PostedFees(s) = fee - z
        /\ ChargedFees(s) \in Int /\ PostedFees(s) \in Int
    BY <1>2, <1>4, <1>6, <2>2, OneOff
  <2> QED
    BY <2>1, <2>3
<1>8. ~ Open3(s) /\ Delta3(s) = fee /\ ChargedFees(s) # PostedFees(s)
  BY <1>5, <1>7 DEF Open3, Delta3
<1>9. DuplicateFinds(s) = {} /\ AbsentFinds(s) = {}
  BY <1>8 DEF DuplicateFinds, AbsentFinds
<1>10. PICK e : e \in Posting(Group(p), "SALES", "DR", fee, p, s)
  BY <1>5, PostingNotEmpty
<1>11. Posting(Group(p), "SALES", "DR", fee, p, s) = {e} /\ e.amount = fee
  BY <1>10, PostingIsEntry DEF PostingSays
<1>12. {f \in Entries("SALES", "DR") : f.settlement = s} = {e}
  BY <1>2, <1>3, <1>4, <1>11, SalesOfSettlement
<1>13. PICK x : x = Attribution("misposted_ledger", e.group, e.amount)
  OBVIOUS
<1>14. MispostedFinds(s) = {x}
  BY <1>8, <1>12, <1>13 DEF MispostedFinds
<1>15. PICK rules, k : rules = Rules3(s) /\ k = 3
  OBVIOUS
<1>16. /\ rules[3].found = {x} /\ rules[3].label = g.expects
       /\ rules[1].found = {} /\ rules[2].found = {}
  BY <1>3, <1>9, <1>14, <1>15, Rules3Unfolded DEF Rule
<1>17. x.amount = fee /\ x.amount \in Int /\ Abs(x.amount) = g.amount
  BY <1>3, <1>4, <1>5, <1>11, <1>13 DEF Attribution, Abs
<1>18. /\ k \in 1 .. 3 /\ rules[k].found = {x} /\ rules[k].label = g.expects
       /\ \A j \in 1 .. 3 \ {k} : rules[j].found = {}
  BY <1>15, <1>16
<1>19. Told3(s, g)
  BY <1>8, <1>15, <1>17, <1>18, OneRuleTells
<1> QED
  BY <1>1, <1>19

LEMMA BooksAreTold ==
    ASSUME Typed, Drawn, BookInv, BooksKept
    PROVE  Diagnosed3
<1>1. ASSUME NEW s \in Settlement, \A g \in Rows3 : g.settlement # s PROVE Silent(Diagnose3(s))
  BY <1>1, NoDefectIsSilent
<1>2. ASSUME NEW s \in Settlement, NEW g \in Rows3, g.settlement = s
      PROVE  g.resolvable /\ (~ LeavesClearing(g) => Told3(s, g))
  <2>1. PICK p \in Own : g.subject[2] = p /\ Row3(p, g)
    BY DEF BooksKept
  <2>2. g.resolvable /\ payments[p].settlement = s /\ Posted(p, g)
    BY <1>2, <2>1 DEF Row3
  <2>3. ~ LeavesClearing(g) /\ g.type # "D3_WRONG_ACCOUNT" => Gross(p) # 0
    BY <2>2 DEF LeavesClearing, Posted, Rows3, Expecting
  <2>4. g.type \in {"D3_DUPLICATE_LEDGER", "D3_MISSING_LEDGER", "D3_WRONG_ACCOUNT"}
    BY <2>2 DEF Posted
  <2> QED
    BY <2>1, <2>2, <2>3, <2>4, DuplicateIsTold, MissingIsTold, MispostedIsTold
<1> QED
  BY <1>1, <1>2 DEF Diagnosed3
-----------------------------------------------------------------------------
\* What rows of ground truth look like: only traps of delta 1 expect nothing, and they
\* name what they are about; of payouts only the gap off the record cannot be resolved.
RowShaped(g) ==
    /\ g.kind \in {"D1_COMPUTE", "D2_BANK", "D3_LEDGER", "D4_PAYOUT"}
    /\ g.kind = "D1_COMPUTE" => g.settlement \in Settlement
    /\ g.expects = "NONE" => g.kind = "D1_COMPUTE" /\ g.resolvable /\ g.subject # NoSubject
    /\ g.kind = "D4_PAYOUT" => (g.resolvable <=> g.expects # "PHANTOM_PAYOUT_GAP")
    /\ g.type \in {"D3_DUPLICATE_LEDGER", "D3_MISSING_LEDGER"} => g.kind = "D3_LEDGER"
TruthShaped == \A g \in truth : RowShaped(g)

NewShaped == \A g \in truth' \ truth : RowShaped(g)

LEMMA BookRowsShaped ==
    ASSUME BookNext
    PROVE  NewShaped
<1>1. CASE BuildLedger \/ Persist
  BY <1>1 DEF BuildLedger, Persist, NewShaped
<1>2. CASE ~ (BuildLedger \/ Persist)
  <2>1. PICK s \in Settlement :
      \/ FeeRateDrift(s) \/ TaxAggregateRounding(s) \/ RefundNotDeducted(s)
      \/ RefundPartialMulti(s) \/ RefundOutsideWindow(s) \/ HeaderRollupMismatch(s)
      \/ AdjustmentApplied(s) \/ FeeCorrectedByAdjustment(s) \/ PhantomDebit(s)
      \/ BankLine(s, "D2_BANK_LINE") \/ BankLine(s, "UNRESOLVABLE_AMBIGUOUS_CREDIT")
      \/ DuplicateLedger(s) \/ MissingLedger(s) \/ WrongAccount(s)
      \/ \E x \in Settlement : RefundOutsidePeriod(s, x) \/ SameAmountSameDay(s, x)
    BY <1>2 DEF BookNext
  <2>2. CASE FeeRateDrift(s)
    BY <2>2 DEF FeeRateDrift, NewShaped, RowShaped, Truth
  <2>3. CASE TaxAggregateRounding(s)
    BY <2>3 DEF TaxAggregateRounding, NewShaped, RowShaped, Truth
  <2>4. CASE RefundNotDeducted(s)
    BY <2>4 DEF RefundNotDeducted, NewShaped, RowShaped, Truth
  <2>5. CASE RefundPartialMulti(s)
    BY <2>5 DEF RefundPartialMulti, NewShaped, RowShaped, Truth
  <2>6. ASSUME NEW later, NEW p, NEW amount, NEW x \in Settlement, NEW r
        PROVE  /\ RowShaped(Trap(x, PartialRefund(p, 1, amount, later).id, r))
               /\ RowShaped(Trap(x, Whole(later), r))
    <3>1. PartialRefund(p, 1, amount, later).id # NoSubject /\ Whole(later) # NoSubject
      BY DEF PartialRefund, Refund, NoSubject, Whole
    <3>2. \A subject : subject # NoSubject => RowShaped(Trap(x, subject, r))
      BY DEF Trap, Truth, RowShaped
    <3> QED
      BY <3>1, <3>2
  <2>7. CASE RefundOutsideWindow(s)
    <3>1. PICK i, r : /\ i \in PaymentItems(s) /\ r = PartialRefund(i.ref[1], 1, 4000, s + 1)
                      /\ refunds' = refunds \cup {r}
                      /\ truth' = truth \cup {Trap(s, r.id, r)}
      BY <2>7 DEF RefundOutsideWindow, Largest, NeverRefunded
    <3>2. PICK g : g = Trap(s, r.id, r)
      OBVIOUS
    <3>3. RowShaped(g)
      BY <2>6, <3>1, <3>2
    <3>4. truth' = truth \cup {g}
      BY <3>1, <3>2
    <3> QED
      BY <3>3, <3>4 DEF NewShaped
  <2>8. CASE HeaderRollupMismatch(s)
    BY <2>8 DEF HeaderRollupMismatch, NewShaped, RowShaped, Truth
  <2>9. CASE AdjustmentApplied(s)
    BY <2>9 DEF AdjustmentApplied, NewShaped, RowShaped, Truth
  <2>10. CASE FeeCorrectedByAdjustment(s)
    BY <2>10 DEF FeeCorrectedByAdjustment, NewShaped, RowShaped, Truth
  <2>11. CASE PhantomDebit(s)
    BY <2>11 DEF PhantomDebit, NewShaped, RowShaped, Truth
  <2>12. CASE BankLine(s, "D2_BANK_LINE") \/ BankLine(s, "UNRESOLVABLE_AMBIGUOUS_CREDIT")
    BY <2>12 DEF BankLine, NewShaped
  <2>13. CASE DuplicateLedger(s)
    BY <2>13 DEF DuplicateLedger, NewShaped, RowShaped, Truth
  <2>14. CASE MissingLedger(s)
    BY <2>14 DEF MissingLedger, NewShaped, RowShaped, Truth
  <2>15. CASE WrongAccount(s)
    BY <2>15 DEF WrongAccount, NewShaped, RowShaped, Truth
  <2>16. ASSUME NEW x \in Settlement, RefundOutsidePeriod(s, x) PROVE NewShaped
    <3>0. PICK i, r : Trapped(s, x, i, r)
      BY <2>16, TrapIsPlanted
    <3>1. /\ r = PartialRefund(i.ref[1], 1, 4000, x)
          /\ truth' = truth \cup {Trap(s, r.id, r), Trap(x, Whole(x), r)}
      BY <3>0 DEF Trapped
    <3>2. PICK g, h : g = Trap(s, r.id, r) /\ h = Trap(x, Whole(x), r)
      OBVIOUS
    <3>3. RowShaped(g) /\ RowShaped(h)
      BY <2>6, <3>1, <3>2
    <3>4. truth' = truth \cup {g, h}
      BY <3>1, <3>2
    <3> QED
      BY <3>3, <3>4 DEF NewShaped
  <2>17. ASSUME NEW x \in Settlement, SameAmountSameDay(s, x) PROVE NewShaped
    BY <2>17 DEF SameAmountSameDay, NewShaped, RowShaped, Truth
  <2> QED
    BY <2>1, <2>2, <2>3, <2>4, <2>5, <2>7, <2>8, <2>9, <2>10, <2>11, <2>12, <2>13,
       <2>14, <2>15, <2>16, <2>17
<1> QED
  BY <1>1, <1>2

LEMMA PayoutRowsShaped ==
    ASSUME PayoutNext
    PROVE  NewShaped
<1>1. PICK a \in SettledAllocs :
          AllocExceeds(a) \/ AllocDiverges(a) \/ TransferMissing(a) \/ PhantomPayoutGap(a)
  BY DEF PayoutNext
<1>2. CASE AllocExceeds(a)
  BY <1>2 DEF AllocExceeds, Plant, PayoutTruth, Truth, NewShaped, RowShaped
<1>3. CASE AllocDiverges(a)
  BY <1>3 DEF AllocDiverges, Plant, PayoutTruth, Truth, NewShaped, RowShaped
<1>4. CASE TransferMissing(a)
  BY <1>4 DEF TransferMissing, Plant, PayoutTruth, Truth, NewShaped, RowShaped
<1>5. CASE PhantomPayoutGap(a)
  BY <1>5 DEF PhantomPayoutGap, Plant, PayoutTruth, Truth, NewShaped, RowShaped
<1> QED
  BY <1>1, <1>2, <1>3, <1>4, <1>5

LEMMA TruthStep == TruthShaped /\ [Next]_vars => TruthShaped'
<1> SUFFICES ASSUME TruthShaped, [Next]_vars PROVE TruthShaped'
  OBVIOUS
<1>1. \A g : RowShaped(g)' <=> RowShaped(g)
  BY DEF RowShaped
<1>2. NewShaped
  BY BookRowsShaped, PayoutRowsShaped DEF Next, Reconcile, vars, bookVars, NewShaped
<1> QED
  BY <1>1, <1>2 DEF TruthShaped, NewShaped

LEMMA TruthInit == BatchInit => TruthShaped
BY DEF BatchInit, Init, TruthShaped
-----------------------------------------------------------------------------
\* The run is last, so that what it found is what the tables say ever after.

RunInv == results # {} => Done /\ results = Diagnoses

LEMMA SameDiagnosis3 ==
    ASSUME UNCHANGED <<items, ledger>>, NEW s
    PROVE  Diagnose3(s)' = Diagnose3(s)
<1>1. PaidIn(s)' = PaidIn(s)
  BY DEF PaidIn, PaymentItems
<1>2. \A account, direction : Entries(account, direction)' = Entries(account, direction)
  BY DEF Entries
<1>3. \A ps, direction : ClearingOf(ps, direction)' = ClearingOf(ps, direction)
  BY <1>2 DEF ClearingOf
<1>4. ClearingBalance(s)' = ClearingBalance(s)
  BY <1>1, <1>3 DEF ClearingBalance
<1>5. ChargedFees(s)' = ChargedFees(s) /\ PostedFees(s)' = PostedFees(s)
  BY <1>2 DEF ChargedFees, PostedFees
<1>6. Delta3(s)' = Delta3(s)
  BY <1>4, <1>5 DEF Delta3
<1>7. /\ \A p : PostedGroups(s, p)' = PostedGroups(s, p) /\ Stranded(p)' = Stranded(p)
      /\ \A g : GroupClearing(g)' = GroupClearing(g)
  BY <1>2, <1>3 DEF PostedGroups, Stranded, GroupClearing
<1>8. \A p : CopiesOf(s, p)' = CopiesOf(s, p)
  BY <1>7 DEF CopiesOf, DuplicateGroups
<1>9. DuplicateFinds(s)' = DuplicateFinds(s)
  BY <1>1, <1>4, <1>8 DEF DuplicateFinds, Open3
<1>10. AbsentFinds(s)' = AbsentFinds(s)
  BY <1>1, <1>4, <1>7 DEF AbsentFinds, Absent, Open3
<1>11. MispostedFinds(s)' = MispostedFinds(s)
  BY <1>2, <1>4, <1>5 DEF MispostedFinds, Open3
<1>12. Rules3(s)' = Rules3(s)
  <2>1. Rules3Listed /\ Rules3Listed'
    BY Rules3AreListed, PTL
  <2> QED
    BY <1>9, <1>10, <1>11, <2>1 DEF Rules3Listed
<1> QED
  BY <1>6, <1>12 DEF Diagnose3

LEMMA SamePayouts ==
    ASSUME UNCHANGED <<payments, allocations, transfers>>
    PROVE  Payouts' = Payouts
<1>1. \A a : Moved(a)' = Moved(a)
  BY DEF Moved
<1>2. \A a : DiagnosePayout(a)' = DiagnosePayout(a)
  BY <1>1, SameMovesSameDiagnosis
<1>3. \A p : Promised(p)' = Promised(p)
  <2>1. \A p : PromisesOf(p)' = PromisesOf(p)
    BY DEF PromisesOf
  <2>2. PromisesAreGross'
    BY PromisedIsGross, PTL
  <2> QED
    BY <2>1, <2>2, PromisedIsGross DEF PromisesAreGross
<1>4. Overpromised' = Overpromised /\ \A p : DiagnoseExcess(p)' = DiagnoseExcess(p)
  BY <1>3 DEF Overpromised, DiagnoseExcess
<1> QED
  BY <1>2, <1>4 DEF Payouts

LEMMA SameTablesSameRun ==
    ASSUME Typed, Typed', UNCHANGED <<bookVars, payoutVars>>
    PROVE  Diagnoses' = Diagnoses
<1>1. UNCHANGED <<payments, refunds, adjustments, items, header, ledger, allocations, transfers>>
  BY DEF bookVars, tables, payoutVars
<1>2. \A s \in Settlement : Untouched(s)
  BY <1>1 DEF Untouched, InPeriodRefunds
<1>3. \A s \in Settlement : \A kind : Diagnose(kind, s)' = Diagnose(kind, s)
  BY <1>1, <1>2, SameDiagnosis, SameDiagnosis3 DEF Diagnose
<1>4. Payouts' = Payouts
  BY <1>1, SamePayouts
<1> QED
  BY <1>1, <1>3, <1>4 DEF Diagnoses

LEMMA RunStep == RunInv /\ Typed /\ Typed' /\ [Next]_vars => RunInv'
<1> SUFFICES ASSUME RunInv, Typed, Typed', [Next]_vars PROVE RunInv'
  OBVIOUS
<1>1. CASE (BookNext \/ PayoutNext) /\ UNCHANGED results
  BY <1>1, BookBeforeRun, PayoutBeforeRun DEF RunInv
<1>2. CASE Reconcile \/ UNCHANGED vars
  <2>1. UNCHANGED <<bookVars, payoutVars>>
    BY <1>2 DEF Reconcile, vars
  <2>2. Diagnoses' = Diagnoses /\ (Done => Done')
    BY <2>1, SameTablesSameRun DEF bookVars, Done
  <2> QED
    BY <1>2, <2>2 DEF Reconcile, vars, RunInv
<1> QED
  BY <1>1, <1>2 DEF Next

LEMMA RunInit == BatchInit => RunInv
BY DEF BatchInit, RunInv
-----------------------------------------------------------------------------
\* The labels a verdict can bear, and the tier its residual gives it.

LEMMA VerdictLabels ==
    ASSUME NEW delta, NEW rules, DOMAIN rules \subseteq Nat, NEW fallback, NEW L,
           \A k \in DOMAIN rules : rules[k].label \in L, fallback \in L, "NONE" \in L
    PROVE  Verdict(delta, rules, fallback).label \in L
<1>1. PICK raised : raised = {k \in DOMAIN rules : rules[k].found # {}}
  OBVIOUS
<1>2. PICK label : label = Verdict(delta, rules, fallback).label
  OBVIOUS
<1>3. raised = {} => label \in {fallback, "NONE"}
  BY <1>1, <1>2 DEF Verdict
<1>4. raised # {} => label = rules[Min(raised)].label
  BY <1>1, <1>2 DEF Verdict
<1>5. ASSUME raised # {} PROVE Min(raised) \in DOMAIN rules
  <2>1. \E n \in raised : \A m \in raised : n <= m
    <3>1. raised \in SUBSET Nat
      BY <1>1
    <3> QED
      BY <1>5, <3>1, LeastNumber
  <2>2. Min(raised) \in raised
    BY <2>1 DEF Min
  <2> QED
    BY <1>1, <2>2
<1> QED
  BY <1>2, <1>3, <1>4, <1>5

LEMMA VerdictTier ==
    ASSUME NEW delta, NEW rules, NEW fallback
    PROVE  LET d == Verdict(delta, rules, fallback) IN d.tier = IF d.residual # 0 THEN "C" ELSE "A"
BY DEF Verdict

Labels1 == {"HEADER_ROLLUP_MISMATCH", "TAX_ROUNDING_MISMATCH", "FEE_RATE_MISMATCH",
            "REFUND_NOT_DEDUCTED", "ADJUSTMENT_UNEXPLAINED", "UNEXPLAINED_SHORTFALL", "NONE"}
Labels3 == {"DUPLICATE_LEDGER_ENTRY", "MISSING_LEDGER_ENTRY", "MISPOSTED_ACCOUNT",
            "CLEARING_NOT_ZERO", "NONE"}
Labels4 == {"TRANSFER_MISSING", "ALLOCATION_TRANSFER_DIVERGENCE", "PHANTOM_PAYOUT_GAP", "NONE"}

LEMMA LabelsOfSettlement ==
    ASSUME NEW s
    PROVE  Diagnose1(s).label \in Labels1 /\ Diagnose3(s).label \in Labels3
<1>1. PICK r1, r3 : r1 = Rules1(s) /\ r3 = Rules3(s)
  OBVIOUS
<1>2. DOMAIN r1 = 1 .. 5 /\ \A k \in 1 .. 5 : r1[k].label \in Labels1
  BY <1>1, RulesUnfolded DEF Rule, Labels1
<1>3. DOMAIN r3 = 1 .. 3 /\ \A k \in 1 .. 3 : r3[k].label \in Labels3
  BY <1>1, Rules3Unfolded DEF Rule, Labels3
<1>4. Verdict(Delta1(s), r1, "UNEXPLAINED_SHORTFALL").label \in Labels1
  <2>1. "UNEXPLAINED_SHORTFALL" \in Labels1 /\ "NONE" \in Labels1 /\ DOMAIN r1 \subseteq Nat
    BY <1>2 DEF Labels1
  <2> QED
    BY <1>2, <2>1, VerdictLabels
<1>5. Verdict(Delta3(s), r3, "CLEARING_NOT_ZERO").label \in Labels3
  <2>1. "CLEARING_NOT_ZERO" \in Labels3 /\ "NONE" \in Labels3 /\ DOMAIN r3 \subseteq Nat
    BY <1>3 DEF Labels3
  <2> QED
    BY <1>3, <2>1, VerdictLabels
<1> QED
  BY <1>1, <1>4, <1>5 DEF Diagnose1, Diagnose3

LEMMA TierOfPayout ==
    ASSUME NEW a
    PROVE  DiagnosePayout(a).tier = IF DiagnosePayout(a).residual # 0 THEN "C" ELSE "A"
BY VerdictTier DEF DiagnosePayout
-----------------------------------------------------------------------------
\* What a run reports, result by result.

OfCompute(r, s) == /\ r.kind = "D1_COMPUTE" /\ r.settlement = s /\ r.subject = NoSubject
                   /\ r.is = Diagnose1(s)
OfLedger(r, s) == /\ r.kind = "D3_LEDGER" /\ r.settlement = s /\ r.subject = NoSubject
                  /\ r.is = Diagnose3(s)
OfPayout(r, a) == /\ r.kind = "D4_PAYOUT" /\ r.settlement = payments[a.payment].settlement
                  /\ r.subject = a.id /\ r.is = DiagnosePayout(a)
OfExcess(r, p) == /\ r.kind = "D4_PAYOUT" /\ r.settlement = payments[p].settlement
                  /\ r.subject = <<p>> /\ r.is = DiagnoseExcess(p)
Settled == {a \in allocations : a.status = "SETTLED"}

RunReports ==
    /\ \A s \in Settlement : \E r \in results : OfCompute(r, s)
    /\ \A s \in Settlement : \E r \in results : OfLedger(r, s)
    /\ \A a \in Settled : \E r \in results : OfPayout(r, a)
    /\ \A p \in Overpromised : \E r \in results : OfExcess(r, p)
    /\ \A r \in results : \/ \E s \in Settlement : OfCompute(r, s)
                          \/ \E s \in Settlement : OfLedger(r, s)
                          \/ \E a \in Settled : OfPayout(r, a)
                          \/ \E p \in Overpromised : OfExcess(r, p)

LEMMA ResultFields ==
    ASSUME NEW s, NEW kind, NEW subject, NEW diagnosis, NEW r, r = Result(s, kind, subject, diagnosis)
    PROVE  r.settlement = s /\ r.kind = kind /\ r.subject = subject /\ r.is = diagnosis
BY DEF Result

LEMMA RunIsReported ==
    ASSUME results = Diagnoses
    PROVE  RunReports
<1>1. \A s \in Settlement : \A r :
          /\ r = Result(s, "D1_COMPUTE", NoSubject, Diagnose("D1_COMPUTE", s)) => OfCompute(r, s)
          /\ r = Result(s, "D3_LEDGER", NoSubject, Diagnose("D3_LEDGER", s)) => OfLedger(r, s)
  BY ResultFields DEF Diagnose, OfCompute, OfLedger
<1>2. \A a \in Settled : \A r :
          r = Result(payments[a.payment].settlement, "D4_PAYOUT", a.id, DiagnosePayout(a)) => OfPayout(r, a)
  BY ResultFields DEF OfPayout
<1>3. \A p \in Overpromised : \A r :
          r = Result(payments[p].settlement, "D4_PAYOUT", <<p>>, DiagnoseExcess(p)) => OfExcess(r, p)
  BY ResultFields DEF OfExcess
<1>4. \A s \in Settlement :
          /\ Result(s, "D1_COMPUTE", NoSubject, Diagnose("D1_COMPUTE", s)) \in results
          /\ Result(s, "D3_LEDGER", NoSubject, Diagnose("D3_LEDGER", s)) \in results
  BY DEF Diagnoses
<1>5. PICK P : P = Payouts
  OBVIOUS
<1>6. \A o \in P : Result(payments[o.payment].settlement, "D4_PAYOUT", o.subject, o.is) \in results
  BY <1>5 DEF Diagnoses
<1>7. ASSUME NEW a \in Settled
      PROVE  Result(payments[a.payment].settlement, "D4_PAYOUT", a.id, DiagnosePayout(a)) \in results
  <2>1. PICK o : o = [subject |-> a.id, payment |-> a.payment, is |-> DiagnosePayout(a)]
    OBVIOUS
  <2>2. o \in P
    BY <1>5, <2>1 DEF Payouts, Settled
  <2> QED
    BY <1>6, <2>1, <2>2
<1>8. ASSUME NEW p \in Overpromised
      PROVE  Result(payments[p].settlement, "D4_PAYOUT", <<p>>, DiagnoseExcess(p)) \in results
  <2>1. PICK o : o = [subject |-> <<p>>, payment |-> p, is |-> DiagnoseExcess(p)]
    OBVIOUS
  <2>2. o \in P
    BY <1>5, <2>1 DEF Payouts
  <2> QED
    BY <1>6, <2>1, <2>2
<1>9. ASSUME NEW r \in results
      PROVE  \/ \E s \in Settlement : OfCompute(r, s)
             \/ \E s \in Settlement : OfLedger(r, s)
             \/ \E a \in Settled : OfPayout(r, a)
             \/ \E p \in Overpromised : OfExcess(r, p)
  <2>1. \/ \E s \in Settlement, kind \in {"D1_COMPUTE", "D3_LEDGER"} :
               r = Result(s, kind, NoSubject, Diagnose(kind, s))
        \/ \E o \in P : r = Result(payments[o.payment].settlement, "D4_PAYOUT", o.subject, o.is)
    BY <1>5 DEF Diagnoses
  <2>2. ASSUME NEW o \in P, r = Result(payments[o.payment].settlement, "D4_PAYOUT", o.subject, o.is)
        PROVE  \/ \E a \in Settled : OfPayout(r, a)
               \/ \E p \in Overpromised : OfExcess(r, p)
    <3>1. \/ \E a \in Settled : o = [subject |-> a.id, payment |-> a.payment, is |-> DiagnosePayout(a)]
          \/ \E p \in Overpromised : o = [subject |-> <<p>>, payment |-> p, is |-> DiagnoseExcess(p)]
      BY <1>5 DEF Payouts, Settled
    <3> QED
      BY <1>2, <1>3, <2>2, <3>1
  <2> QED
    BY <1>1, <2>1, <2>2
<1> QED
  BY <1>1, <1>2, <1>3, <1>4, <1>7, <1>8, <1>9 DEF RunReports
-----------------------------------------------------------------------------
\* Every row of ground truth is reported, as it expects to be.

Known ==
    /\ TruthShaped /\ Diagnosed1 /\ Diagnosed3 /\ PayoutsInv /\ RunReports
    /\ \A g \in Rows3 : g.settlement \in Settlement /\ g.resolvable

Says(g, is) ==
    /\ is.label = g.expects
    /\ g.kind # "D4_PAYOUT" /\ g.resolvable => is.tier = "A" /\ Abs(is.delta) = g.amount
    /\ g.kind = "D1_COMPUTE" /\ ~ g.resolvable => is.residual = g.amount
    /\ g.kind = "D4_PAYOUT"
       => Abs(is.delta) = g.amount /\ Abs(is.residual) = (IF g.resolvable THEN 0 ELSE g.amount)
    /\ ~ g.resolvable => is.tier = "C"
Reported(g) == \E r \in About(g) : Says(g, r.is)

LEMMA ComputeIsReported ==
    ASSUME Known, NEW g \in Expecting("D1_COMPUTE")
    PROVE  Reported(g)
<1>1. PICK s : s = g.settlement
  OBVIOUS
<1>2. s \in Settlement /\ g.kind = "D1_COMPUTE"
  BY <1>1 DEF Known, TruthShaped, RowShaped, Expecting
<1>3. Told1(s, g)
  BY <1>1, <1>2 DEF Known, Diagnosed1, Rows1
<1>4. PICK r \in results : OfCompute(r, s)
  BY <1>2 DEF Known, RunReports
<1>5. PICK is : is = Diagnose1(s)
  OBVIOUS
<1>6. r.is = is /\ r \in About(g)
  BY <1>1, <1>2, <1>4, <1>5 DEF OfCompute, About, ReportedOn
<1>7. CASE g.resolvable
  BY <1>2, <1>3, <1>5, <1>6, <1>7 DEF Told1, Explained, Reported, Says
<1>8. CASE ~ g.resolvable
  BY <1>2, <1>3, <1>5, <1>6, <1>8 DEF Told1, Unexplained, Reported, Says
<1> QED
  BY <1>7, <1>8

LEMMA LedgerIsReported ==
    ASSUME Known, NEW g \in Expecting("D3_LEDGER"), ~ LeavesClearing(g)
    PROVE  Reported(g)
<1>1. PICK s : s = g.settlement
  OBVIOUS
<1>2. s \in Settlement /\ g.kind = "D3_LEDGER" /\ g \in Rows3 /\ g.resolvable
  BY <1>1 DEF Known, Rows3, Expecting
<1>3. Told3(s, g)
  BY <1>1, <1>2 DEF Known, Diagnosed3
<1>4. PICK r \in results : OfLedger(r, s)
  BY <1>2 DEF Known, RunReports
<1>5. PICK is : is = Diagnose3(s)
  OBVIOUS
<1>6. r.is = is /\ r \in About(g)
  BY <1>1, <1>2, <1>4, <1>5 DEF OfLedger, About, ReportedOn
<1> QED
  BY <1>2, <1>3, <1>5, <1>6 DEF Told3, Reported, Says

LEMMA GrossOfOne ==
    ASSUME NEW a, a.gross \in Int
    PROVE  GrossSum({a}) = a.gross
<1>1. PICK f, S : f = [x \in {a} |-> x.gross] /\ S = {a}
  OBVIOUS
<1>2. IsFiniteSet(S)
  BY <1>1, FS_Singleton
<1>3. (\A x \in S : f[x] = x.gross) /\ IntegerOn(f, S) /\ a \in S /\ (\A y \in S \ {a} : f[y] = 0)
  BY <1>1 DEF IntegerOn
<1>4. GrossSum(S) = SumFunctionOnSet(f, S)
  BY <1>2, <1>3, GrossSumIsSum
<1>5. SumFunctionOnSet(f, S) = f[a]
  BY <1>2, <1>3, SumOfOne
<1> QED
  BY <1>1, <1>3, <1>4, <1>5

\* A payment whose split grew is promised more than it has.
LEMMA GrownIsOverpromised ==
    ASSUME PayoutsInv, NEW g \in Rows4, IsExcess(g), NEW a \in allocations, Row4(a, g)
    PROVE  /\ a.payment \in Overpromised /\ a.payment = g.subject[2]
           /\ payments[a.payment].amount - Promised(a.payment) = -g.amount
           /\ g.amount \in Int /\ g.amount > 0 /\ g.resolvable
           /\ g.settlement = payments[a.payment].settlement
           /\ g.expects = "ALLOCATION_EXCEEDS_PAYMENT"
<1>1. PICK p : p = a.payment
  OBVIOUS
<1>2. g.amount \in Int /\ g.amount > 0 /\ g.resolvable /\ Alone(a) /\ a.status = "SETTLED"
      /\ a.gross = payments[p].amount + g.amount /\ g.settlement = payments[p].settlement
      /\ g.expects = "ALLOCATION_EXCEEDS_PAYMENT" /\ g.subject = a.id
  BY <1>1 DEF Row4, Told4
<1>3. p \in DOMAIN payments /\ a.gross \in Int /\ payments[p].amount \in Int
  BY <1>1 DEF PayoutsInv, Priced, PaymentsTyped
<1>4. g.subject[2] = p
  <2>1. Row(a)
    BY DEF PayoutsInv, PayoutsWhole
  <2>2. a.id = <<"A", a.payment, a.seller>>
    BY <2>1 DEF Row
  <2> QED
    BY <1>1, <1>2, <2>2
<1>5. PromisesOf(p) = {a}
  BY <1>1, <1>2 DEF PromisesOf, Alone
<1>6. Promised(p) = a.gross
  BY <1>3, <1>5, GrossOfOne, PromisedIsGross DEF PromisesAreGross
<1> QED
  BY <1>1, <1>2, <1>3, <1>4, <1>6 DEF Overpromised

LEMMA PayoutIsReported ==
    ASSUME Known, NEW g \in Expecting("D4_PAYOUT")
    PROVE  Reported(g)
<1>1. g \in Rows4 /\ g.kind = "D4_PAYOUT" /\ g \in truth
  BY DEF Rows4, Expecting
<1>2. PICK a \in allocations : Row4(a, g)
  BY <1>1 DEF Known, PayoutsInv, Diagnosed4
<1>3. a \in Settled /\ Told4(a, g)
  BY <1>2 DEF Row4, Settled
<1>4. CASE IsExcess(g)
  <2>1. PICK p : p = a.payment
    OBVIOUS
  <2>2. /\ p \in Overpromised /\ p = g.subject[2] /\ payments[p].amount - Promised(p) = -g.amount
        /\ g.amount \in Int /\ g.amount > 0 /\ g.resolvable
        /\ g.settlement = payments[p].settlement /\ g.expects = "ALLOCATION_EXCEEDS_PAYMENT"
    BY <1>1, <1>2, <1>4, <2>1, GrownIsOverpromised DEF Known
  <2>3. PICK r \in results : OfExcess(r, p)
    BY <2>2 DEF Known, RunReports
  <2>4. r \in About(g)
    BY <1>1, <1>4, <2>2, <2>3 DEF OfExcess, About, ReportedOn, IsExcess
  <2>5. PICK is : is = DiagnoseExcess(p)
    OBVIOUS
  <2>6. PICK delta \in Int : delta = payments[p].amount - Promised(p)
    BY <2>2
  <2>7. is.delta = delta /\ is.label = "ALLOCATION_EXCEEDS_PAYMENT" /\ is.residual = 0
    BY <2>5, <2>6, ExcessIsTold
  <2>8. Abs(is.delta) = g.amount /\ Abs(is.residual) = 0
    BY <2>2, <2>6, <2>7 DEF Abs
  <2>9. r.is = is
    BY <2>3, <2>5 DEF OfExcess
  <2>10. Says(g, is)
    BY <1>1, <2>2, <2>7, <2>8 DEF Says
  <2> QED
    BY <2>4, <2>9, <2>10 DEF Reported
<1>5. CASE ~ IsExcess(g)
  <2>1. PICK r \in results : OfPayout(r, a)
    BY <1>3 DEF Known, RunReports
  <2>2. PICK is : is = DiagnosePayout(a) /\ r.is = is
    BY <2>1 DEF OfPayout
  <2>3. /\ g.settlement = payments[a.payment].settlement /\ g.subject = a.id
        /\ g.amount \in Int /\ g.amount > 0
    BY <1>2 DEF Row4, Told4
  <2>4. r \in About(g)
    BY <1>1, <1>5, <2>1, <2>3 DEF OfPayout, About, ReportedOn, IsExcess
  <2>5. /\ is.label = g.expects /\ Abs(is.delta) = g.amount
        /\ Abs(is.residual) = (IF g.resolvable THEN 0 ELSE g.amount)
    BY <1>3, <1>5, <2>2 DEF Told4
  <2>6. ASSUME ~ g.resolvable PROVE is.tier = "C"
    <3>1. is.residual # 0
      BY <2>3, <2>5, <2>6 DEF Abs
    <3> QED
      BY <2>2, <3>1, TierOfPayout
  <2>7. Says(g, is)
    BY <1>1, <2>5, <2>6 DEF Says
  <2> QED
    BY <2>2, <2>4, <2>7 DEF Reported
<1> QED
  BY <1>4, <1>5

LEMMA AllReported ==
    ASSUME Known, NEW g \in truth, g.expects # "NONE", g.kind # "D2_BANK", ~ LeavesClearing(g)
    PROVE  Reported(g)
<1>1. g.kind \in {"D1_COMPUTE", "D3_LEDGER", "D4_PAYOUT"}
  BY DEF Known, TruthShaped, RowShaped
<1>2. g \in Expecting(g.kind)
  BY DEF Expecting
<1> QED
  BY <1>1, <1>2, ComputeIsReported, LedgerIsReported, PayoutIsReported

LEMMA DefectsAreDiagnosed == Known => DefectsDiagnosed
<1> SUFFICES ASSUME Known PROVE DefectsDiagnosed
  OBVIOUS
<1>1. ASSUME NEW kind \in {"D1_COMPUTE", "D3_LEDGER", "D4_PAYOUT"}, NEW g \in Expecting(kind),
             ~ LeavesClearing(g)
      PROVE  Reported(g) /\ g.kind = kind
  BY <1>1, AllReported DEF Expecting
<1>2. ASSUME NEW g \in Expecting("D1_COMPUTE") \cup Expecting("D3_LEDGER"),
             g.resolvable, ~ LeavesClearing(g)
      PROVE  \E r \in About(g) : r.is.label = g.expects /\ r.is.tier = "A" /\ Abs(r.is.delta) = g.amount
  BY <1>1, <1>2 DEF Reported, Says
<1>3. ASSUME NEW g \in Expecting("D1_COMPUTE"), ~ g.resolvable
      PROVE  \E r \in About(g) : r.is.label = g.expects /\ r.is.tier = "C" /\ r.is.residual = g.amount
  <2>1. ~ LeavesClearing(g)
    BY DEF Expecting, LeavesClearing
  <2> QED
    BY <1>1, <1>3, <2>1 DEF Reported, Says
<1>4. ASSUME NEW g \in Expecting("D4_PAYOUT")
      PROVE  \E r \in About(g) : /\ r.is.label = g.expects
                                 /\ Abs(r.is.delta) = g.amount
                                 /\ Abs(r.is.residual) = (IF g.resolvable THEN 0 ELSE g.amount)
  <2>1. ~ LeavesClearing(g)
    BY DEF Expecting, LeavesClearing
  <2> QED
    BY <1>1, <2>1 DEF Reported, Says
<1> QED
  BY <1>2, <1>3, <1>4 DEF DefectsDiagnosed
-----------------------------------------------------------------------------
\* There are finitely many allocations: a planter replaces one by another.

LEMMA SplitStep == IsFiniteSet(allocations) /\ [Next]_vars => IsFiniteSet(allocations')
<1> SUFFICES ASSUME IsFiniteSet(allocations), [Next]_vars PROVE IsFiniteSet(allocations')
  OBVIOUS
<1>1. CASE UNCHANGED allocations
  BY <1>1
<1>2. CASE PayoutNext
  <2>1. PICK a : AllocExceeds(a) \/ AllocDiverges(a) \/ TransferMissing(a) \/ PhantomPayoutGap(a)
    BY <1>2 DEF PayoutNext
  <2>2. PICK b : b = Grown(a)
    OBVIOUS
  <2>3. allocations' = (allocations \ {a}) \cup {b} \/ UNCHANGED allocations
    <3>1. AllocExceeds(a) => allocations' = (allocations \ {a}) \cup {b}
      BY <2>2 DEF AllocExceeds, Instead
    <3>2. ASSUME AllocDiverges(a) PROVE UNCHANGED allocations
      BY <3>2 DEF AllocDiverges
    <3>3. ASSUME TransferMissing(a) PROVE UNCHANGED allocations
      BY <3>3 DEF TransferMissing
    <3>4. ASSUME PhantomPayoutGap(a) PROVE UNCHANGED allocations
      BY <3>4 DEF PhantomPayoutGap
    <3> QED
      BY <2>1, <3>1, <3>2, <3>3, <3>4
  <2>4. IsFiniteSet(allocations \ {a})
    BY FS_Subset
  <2>5. IsFiniteSet((allocations \ {a}) \cup {b})
    BY <2>4, FS_AddElement
  <2> QED
    BY <2>3, <2>5
<1> QED
  BY <1>1, <1>2 DEF Next, Reconcile, vars, payoutVars

LEMMA SplitInit == BatchInit => IsFiniteSet(allocations)
<1> SUFFICES ASSUME BatchInit PROVE IsFiniteSet(allocations)
  OBVIOUS
<1>1. PICK f : f = [t \in Allotments |-> Allocation(t[1], t[2], t[3], t[4])]
  OBVIOUS
<1>2. IsFiniteSet({f[t] : t \in Allotments})
  BY PayoutAssumption, ImageFinite
<1>3. Split = {f[t] : t \in Allotments}
  BY <1>1 DEF Split
<1> QED
  BY <1>2, <1>3 DEF BatchInit, PayoutInit

LEMMA PromisedWhole ==
    ASSUME PayoutsInv, IsFiniteSet(allocations), NEW p
    PROVE  Promised(p) \in Int
<1>1. PICK S, f : S = PromisesOf(p) /\ f = [a \in PromisesOf(p) |-> a.gross]
  OBVIOUS
<1>2. IsFiniteSet(S) /\ \A a \in S : a \in allocations
  BY <1>1, FS_Subset DEF PromisesOf
<1>3. (\A a \in S : f[a] = a.gross) /\ IntegerOn(f, S)
  BY <1>1, <1>2 DEF IntegerOn, PayoutsInv, Priced
<1>4. GrossSum(S) = SumFunctionOnSet(f, S) /\ SumFunctionOnSet(f, S) \in Int
  BY <1>2, <1>3, GrossSumIsSum, SumType
<1> QED
  BY <1>1, <1>4, PromisedIsGross DEF PromisesAreGross
-----------------------------------------------------------------------------
\* What no row is about is silent.

LEMMA UnplantedIsSilent ==
    ASSUME Known, IsFiniteSet(allocations), NEW r \in results, \A g \in Expecting(r.kind) : r \notin About(g)
    PROVE  /\ r.is.delta = 0 /\ r.is.label = "NONE"
           /\ r.kind # "D4_PAYOUT" => r.is.attributions = {}
<1>1. CASE \E s \in Settlement : OfCompute(r, s)
  <2>1. PICK s \in Settlement : OfCompute(r, s)
    BY <1>1
  <2>2. r.kind = "D1_COMPUTE" /\ r.settlement = s /\ r.subject = NoSubject
    BY <2>1 DEF OfCompute
  <2>3. Rows1(s) = {}
    <3> SUFFICES ASSUME NEW g \in Rows1(s) PROVE FALSE
      OBVIOUS
    <3>1. g \in Expecting("D1_COMPUTE") /\ g.settlement = s /\ g.kind = "D1_COMPUTE"
      BY DEF Rows1, Expecting
    <3> QED
      BY <2>2, <3>1 DEF About, ReportedOn
  <2>4. Silent(Diagnose1(s))
    BY <2>3 DEF Known, Diagnosed1
  <2> QED
    BY <2>1, <2>4 DEF OfCompute, Silent
<1>2. CASE \E s \in Settlement : OfLedger(r, s)
  <2>1. PICK s \in Settlement : OfLedger(r, s)
    BY <1>2
  <2>2. r.kind = "D3_LEDGER" /\ r.settlement = s /\ r.subject = NoSubject
    BY <2>1 DEF OfLedger
  <2>3. \A g \in Rows3 : g.settlement # s
    <3> SUFFICES ASSUME NEW g \in Rows3, g.settlement = s PROVE FALSE
      OBVIOUS
    <3>1. g \in Expecting("D3_LEDGER") /\ g.kind = "D3_LEDGER"
      BY DEF Rows3, Expecting
    <3> QED
      BY <2>2, <3>1 DEF About, ReportedOn
  <2>4. Silent(Diagnose3(s))
    BY <2>3 DEF Known, Diagnosed3
  <2> QED
    BY <2>1, <2>4 DEF OfLedger, Silent
<1>3. CASE \E a \in Settled : OfPayout(r, a)
  <2>1. PICK a \in Settled : OfPayout(r, a)
    BY <1>3
  <2>2. a \in allocations /\ a.status = "SETTLED" /\ r.kind = "D4_PAYOUT"
    BY <2>1 DEF Settled, OfPayout
  <2>3. CASE \E g \in Rows4 : g.subject = a.id
    <3>1. PICK g \in Rows4 : g.subject = a.id
      BY <2>3
    <3>2. PICK b \in allocations : Row4(b, g)
      BY DEF Known, PayoutsInv, Diagnosed4
    <3>3. b = a
      BY <2>2, <3>1, <3>2 DEF Known, PayoutsInv, Keyed, Row4
    <3>4. Told4(a, g) /\ g.kind = "D4_PAYOUT" /\ g \in Expecting("D4_PAYOUT")
      BY <3>2, <3>3 DEF Row4, Rows4, Expecting
    <3>5. IsExcess(g)
      <4> SUFFICES ASSUME ~ IsExcess(g) PROVE FALSE
        OBVIOUS
      <4>1. g.settlement = payments[a.payment].settlement /\ ReportedOn(g) = a.id
        BY <3>1, <3>4 DEF Told4, ReportedOn, IsExcess
      <4>2. r \in About(g)
        BY <2>1, <3>4, <4>1 DEF About, OfPayout
      <4> QED
        BY <2>2, <3>4, <4>2
    <3>6. DiagnosePayout(a).delta = 0 /\ DiagnosePayout(a).label = "NONE"
      BY <3>4, <3>5 DEF Told4
    <3> QED
      BY <2>1, <2>2, <3>6 DEF OfPayout
  <2>4. CASE \A g \in Rows4 : g.subject # a.id
    <3>1. DiagnosePayout(a).delta = 0 /\ DiagnosePayout(a).label = "NONE"
      BY <2>2, <2>4 DEF Known, PayoutsInv, Diagnosed4
    <3> QED
      BY <2>1, <2>2, <3>1 DEF OfPayout
  <2> QED
    BY <2>3, <2>4
<1>4. CASE \E p \in Overpromised : OfExcess(r, p)
  <2>1. PICK p \in Overpromised : OfExcess(r, p)
    BY <1>4
  <2>2. p \in DOMAIN payments /\ Promised(p) > payments[p].amount
    BY DEF Overpromised
  <2>3. Grew(p)
    <3> SUFFICES ASSUME ~ Grew(p) PROVE FALSE
      OBVIOUS
    <3>1. Promised(p) <= payments[p].amount
      BY <2>2 DEF Known, PayoutsInv, PromisesKept
    <3>2. payments[p].amount \in Int
      BY <2>2 DEF Known, PayoutsInv, PaymentsTyped
    <3>3. Promised(p) \in Int
      BY PromisedWhole DEF Known
    <3> QED
      BY <2>2, <3>1, <3>2, <3>3
  <2>4. PICK g \in Rows4 : IsExcess(g) /\ g.subject[2] = p
    BY <2>3 DEF Grew
  <2>5. PICK a \in allocations : Row4(a, g)
    BY DEF Known, PayoutsInv, Diagnosed4
  <2>6. a.payment = p /\ g.settlement = payments[p].settlement
    BY <2>4, <2>5, GrownIsOverpromised DEF Known
  <2>7. g.kind = "D4_PAYOUT" /\ g \in Expecting("D4_PAYOUT") /\ ReportedOn(g) = <<p>>
    BY <2>4 DEF Rows4, Expecting, ReportedOn, IsExcess
  <2>8. r \in About(g) /\ r.kind = "D4_PAYOUT"
    BY <2>1, <2>6, <2>7 DEF About, OfExcess
  <2> QED
    BY <2>7, <2>8
<1> QED
  BY <1>1, <1>2, <1>3, <1>4 DEF Known, RunReports

LEMMA NothingIsInvented == Known /\ IsFiniteSet(allocations) /\ UnbalancedGroups = {} => NothingInvented
BY UnplantedIsSilent DEF NothingInvented
-----------------------------------------------------------------------------
\* Every row is scored in the engine's favour.

LEMMA LabelsOfPayout ==
    ASSUME NEW a
    PROVE  DiagnosePayout(a).label \in Labels4
<1>1. PICK rules : rules = PayoutRules(a)
  OBVIOUS
<1>2. DOMAIN rules = 1 .. 2 /\ \A k \in 1 .. 2 : rules[k].label \in Labels4
  BY <1>1, PayoutRulesUnfolded DEF Rule, Labels4
<1>3. "PHANTOM_PAYOUT_GAP" \in Labels4 /\ "NONE" \in Labels4 /\ DOMAIN rules \subseteq Nat
  BY <1>2 DEF Labels4
<1>4. Verdict(Owed(a), rules, "PHANTOM_PAYOUT_GAP").label \in Labels4
  BY <1>2, <1>3, VerdictLabels
<1> QED
  BY <1>1, <1>4 DEF DiagnosePayout

LEMMA LabelOfExcess ==
    ASSUME PayoutsInv, IsFiniteSet(allocations), NEW p \in Overpromised
    PROVE  DiagnoseExcess(p).label = "ALLOCATION_EXCEEDS_PAYMENT"
<1>1. payments[p].amount \in Int /\ Promised(p) \in Int
  BY PromisedWhole DEF Overpromised, PayoutsInv, PaymentsTyped
<1>2. PICK delta \in Int : delta = payments[p].amount - Promised(p)
  BY <1>1
<1> QED
  BY <1>2, ExcessIsTold

\* A payout said to fall short off the record was broken off the record.
LEMMA GapIsEscalated ==
    ASSUME Known, NEW a \in Settled, DiagnosePayout(a).label = "PHANTOM_PAYOUT_GAP"
    PROVE  DiagnosePayout(a).tier = "C"
<1>1. a \in allocations /\ a.status = "SETTLED"
  BY DEF Settled
<1>2. PICK is : is = DiagnosePayout(a)
  OBVIOUS
<1>3. PICK h \in Rows4 : h.subject = a.id
  BY <1>1 DEF Known, PayoutsInv, Diagnosed4
<1>4. PICK b \in allocations : Row4(b, h)
  BY DEF Known, PayoutsInv, Diagnosed4
<1>5. b = a
  BY <1>1, <1>3, <1>4 DEF Known, PayoutsInv, Keyed, Row4
<1>6. Told4(a, h)
  BY <1>4, <1>5 DEF Row4
<1>7. /\ is.label = h.expects /\ h.amount \in Int /\ h.amount > 0
      /\ Abs(is.residual) = (IF h.resolvable THEN 0 ELSE h.amount)
  BY <1>2, <1>6 DEF Told4
<1>8. h \in truth /\ h.kind = "D4_PAYOUT" /\ RowShaped(h)
  BY DEF Rows4, Expecting, Known, TruthShaped
<1>9. ~ h.resolvable
  BY <1>2, <1>7, <1>8 DEF RowShaped
<1>10. is.residual # 0
  BY <1>7, <1>9 DEF Abs
<1> QED
  BY <1>2, <1>10, TierOfPayout

LEMMA NotFalselyResolved ==
    ASSUME Known, IsFiniteSet(allocations), NEW g \in truth, g.kind # "D2_BANK", ~ g.resolvable,
           NEW e \in Here(g), e.is.tier = "A"
    PROVE  e.is.label # g.expects
<1>1. RowShaped(g) /\ g.expects # "NONE"
  BY DEF Known, TruthShaped, RowShaped
<1>2. e \in results /\ e.settlement = g.settlement
  BY DEF Here, Raised
<1>3. g.kind # "D3_LEDGER"
  BY <1>1 DEF Known, Rows3, Expecting
<1>4. CASE g.kind = "D1_COMPUTE"
  <2>1. PICK s : s = g.settlement
    OBVIOUS
  <2>2. s \in Settlement /\ g \in Rows1(s)
    BY <1>1, <1>4, <2>1 DEF RowShaped, Rows1, Expecting
  <2>3. Told1(s, g)
    BY <2>2 DEF Known, Diagnosed1
  <2>4. g.expects = "UNEXPLAINED_SHORTFALL" /\ Diagnose1(s).tier = "C"
    BY <2>3 DEF Told1, Unexplained
  <2>5. \A a : DiagnosePayout(a).label # "UNEXPLAINED_SHORTFALL"
    BY LabelsOfPayout DEF Labels4
  <2>6. \A x : Diagnose3(x).label # "UNEXPLAINED_SHORTFALL"
    BY LabelsOfSettlement DEF Labels3
  <2>7. \A p \in Overpromised : DiagnoseExcess(p).label # "UNEXPLAINED_SHORTFALL"
    BY LabelOfExcess DEF Known
  <2>8. CASE \E x \in Settlement : OfCompute(e, x)
    BY <1>2, <2>1, <2>4, <2>8 DEF OfCompute
  <2>9. CASE \E x \in Settlement : OfLedger(e, x)
    BY <2>4, <2>6, <2>9 DEF OfLedger
  <2>10. CASE \E a \in Settled : OfPayout(e, a)
    BY <2>4, <2>5, <2>10 DEF OfPayout
  <2>11. CASE \E p \in Overpromised : OfExcess(e, p)
    BY <2>4, <2>7, <2>11 DEF OfExcess
  <2> QED
    BY <1>2, <2>8, <2>9, <2>10, <2>11 DEF Known, RunReports
<1>5. CASE g.kind = "D4_PAYOUT"
  <2>1. g.expects = "PHANTOM_PAYOUT_GAP"
    BY <1>1, <1>5 DEF RowShaped
  <2>2. \A x : /\ Diagnose1(x).label # "PHANTOM_PAYOUT_GAP"
               /\ Diagnose3(x).label # "PHANTOM_PAYOUT_GAP"
    BY LabelsOfSettlement DEF Labels1, Labels3
  <2>3. \A p \in Overpromised : DiagnoseExcess(p).label # "PHANTOM_PAYOUT_GAP"
    BY LabelOfExcess DEF Known
  <2>4. CASE \E x \in Settlement : OfCompute(e, x)
    BY <2>1, <2>2, <2>4 DEF OfCompute
  <2>5. CASE \E x \in Settlement : OfLedger(e, x)
    BY <2>1, <2>2, <2>5 DEF OfLedger
  <2>6. CASE \E a \in Settled : OfPayout(e, a)
    <3>1. PICK a \in Settled : OfPayout(e, a)
      BY <2>6
    <3>2. DiagnosePayout(a).tier = "A"
      BY <3>1 DEF OfPayout
    <3>3. DiagnosePayout(a).label # "PHANTOM_PAYOUT_GAP"
      BY <3>2, GapIsEscalated
    <3> QED
      BY <2>1, <3>1, <3>3 DEF OfPayout
  <2>7. CASE \E p \in Overpromised : OfExcess(e, p)
    BY <2>1, <2>3, <2>7 DEF OfExcess
  <2> QED
    BY <1>2, <2>4, <2>5, <2>6, <2>7 DEF Known, RunReports
<1> QED
  BY <1>1, <1>3, <1>4, <1>5 DEF RowShaped

LEMMA TrapIsQuiet ==
    ASSUME Known, NEW g \in truth, g.expects = "NONE"
    PROVE  Noise(g, Relevant(g)) = {} /\ Noise(g, Here(g)) = {} /\ g.resolvable
<1>1. g.kind = "D1_COMPUTE" /\ g.resolvable /\ g.subject # NoSubject
  BY DEF Known, TruthShaped, RowShaped
<1>2. ASSUME NEW e \in Noise(g, Relevant(g)) PROVE FALSE
  <2>1. /\ e \in results /\ e.kind = "D1_COMPUTE" /\ e.is.label # "NONE" /\ e \in Relevant(g)
        /\ \A h \in truth : h.settlement = g.settlement => h.expects # e.is.label
    BY <1>1, <1>2 DEF Noise, Relevant, Here, Raised
  <2>2. PICK s \in Settlement : OfCompute(e, s)
    BY <2>1 DEF Known, RunReports, OfLedger, OfPayout, OfExcess
  <2>3. s = g.settlement
    BY <1>1, <2>1, <2>2 DEF OfCompute, Relevant, Here
  <2>4. PICK h \in Rows1(s) : TRUE
    BY <2>1, <2>2 DEF Known, Diagnosed1, Silent, OfCompute
  <2>5. Told1(s, h) /\ h \in truth /\ h.settlement = s
    BY DEF Known, Diagnosed1, Rows1, Expecting
  <2>6. Diagnose1(s).label = h.expects
    BY <2>5 DEF Told1, Explained, Unexplained
  <2> QED
    BY <2>1, <2>2, <2>3, <2>5, <2>6 DEF OfCompute
<1>3. Noise(g, Here(g)) \subseteq Noise(g, Relevant(g))
  BY DEF Noise, Relevant
<1> QED
  BY <1>1, <1>2, <1>3

LEMMA EveryRowIsScored == Known /\ IsFiniteSet(allocations) => EveryRowScores
<1> SUFFICES ASSUME Known, IsFiniteSet(allocations), NEW g \in truth,
                    g.kind # "D2_BANK", ~ LeavesClearing(g)
             PROVE  /\ Outcome(g) \in {"DIAGNOSED", "TRAP_AVOIDED", "CORRECTLY_ESCALATED"}
                    /\ ~ FalselyResolved(g)
  BY DEF EveryRowScores
<1>1. CASE g.expects = "NONE"
  BY <1>1, TrapIsQuiet DEF Outcome, FalselyResolved
<1>2. CASE g.expects # "NONE"
  <2>1. PICK e \in About(g) : Says(g, e.is)
    BY <1>2, AllReported DEF Reported
  <2>2. e \in Relevant(g) /\ e.is.label = g.expects /\ (~ g.resolvable => e.is.tier = "C")
    BY <1>2, <2>1 DEF About, Relevant, Here, Raised, Says
  <2>3. Outcome(g) \in {"DIAGNOSED", "CORRECTLY_ESCALATED"}
    BY <1>2, <2>2 DEF Outcome
  <2>4. ~ FalselyResolved(g)
    BY <1>2, NotFalselyResolved DEF FalselyResolved
  <2> QED
    BY <2>3, <2>4
<1> QED
  BY <1>1, <1>2
-----------------------------------------------------------------------------
\* The tax report comes to what delta 3 planted.

ItemTaxes(S) == MapThenSumSet(LAMBDA g : ItemTax(g.subject), S)
RowsOf(s, type) == {g \in Planted(type) : g.settlement = s}
PlantedTaxAddsUp == \A s, type : PlantedTax(s, type) = ItemTaxes(RowsOf(s, type))

LEMMA PlantedTaxIsSum == PlantedTaxAddsUp
BY DEF PlantedTaxAddsUp, PlantedTax, ItemTaxes, RowsOf

LEMMA ItemTaxesIsSum ==
    ASSUME NEW f, NEW S, IsFiniteSet(S), \A x \in S : f[x] = ItemTax(x.subject)
    PROVE  ItemTaxes(S) = SumFunctionOnSet(f, S)
<1> DEFINE Body(h) == [T \in SUBSET S |-> IF T = {} THEN 0
                                          ELSE ItemTax(Pick(T).subject) + h[T \ {Pick(T)}]]
           g == CHOOSE h : h = Body(h)
<1>1. ASSUME NEW h PROVE h = Body(h) <=> Computes(h, f, SUBSET S)
  <2>1. \A T \in SUBSET S : T # {} => f[Pick(T)] = ItemTax(Pick(T).subject)
    BY PickMember
  <2>2. Body(h) = [T \in SUBSET S |-> IF T = {} THEN 0 ELSE f[Pick(T)] + h[T \ {Pick(T)}]]
    BY <2>1
  <2> QED
    BY <2>2 DEF Computes
<1>2. \E h : h = Body(h)
  BY <1>1, ComputesExists
<1>3. g = Body(g)
  BY <1>2
<1>4. Computes(g, f, SUBSET S)
  BY <1>1, <1>3
<1>5. ItemTaxes(S) = g[S]
  BY DEF ItemTaxes, MapThenSumSet, MapThenFoldSet, Pick
<1> HIDE DEF g
<1>6. Sums(g, f, S)
  BY <1>4, ComputesSum
<1> QED
  BY <1>5, <1>6 DEF Sums

LEMMA ItemTaxesOfFew ==
    /\ ItemTaxes({}) = 0
    /\ \A g : ItemTax(g.subject) \in Int => ItemTaxes({g}) = ItemTax(g.subject)
<1>1. ItemTaxes({}) = 0
  <2>1. PICK f, S : f = [x \in {} |-> 0] /\ S = {}
    OBVIOUS
  <2>2. IsFiniteSet(S) /\ \A x \in S : f[x] = ItemTax(x.subject)
    BY <2>1, FS_EmptySet
  <2>3. ItemTaxes(S) = SumFunctionOnSet(f, S)
    BY <2>2, ItemTaxesIsSum
  <2> QED
    BY <2>1, <2>3, SumEmpty
<1>2. ASSUME NEW g, ItemTax(g.subject) \in Int PROVE ItemTaxes({g}) = ItemTax(g.subject)
  <2>1. PICK f, S : f = [x \in {g} |-> ItemTax(x.subject)] /\ S = {g}
    OBVIOUS
  <2>2. IsFiniteSet(S)
    BY <2>1, FS_Singleton
  <2>3. /\ \A x \in S : f[x] = ItemTax(x.subject)
        /\ IntegerOn(f, S) /\ g \in S /\ \A y \in S \ {g} : f[y] = 0
    BY <1>2, <2>1 DEF IntegerOn
  <2>4. ItemTaxes(S) = SumFunctionOnSet(f, S)
    BY <2>2, <2>3, ItemTaxesIsSum
  <2>5. SumFunctionOnSet(f, S) = f[g]
    BY <2>2, <2>3, SumOfOne
  <2> QED
    BY <2>1, <2>3, <2>4, <2>5
<1> QED
  BY <1>1, <1>2

LEMMA TaxOfOne ==
    ASSUME NEW x, x.tax \in Int
    PROVE  TaxSum({x}) = x.tax
<1>1. PICK f, S : f = [y \in {x} |-> y.tax] /\ S = {x}
  OBVIOUS
<1>2. IsFiniteSet(S)
  BY <1>1, FS_Singleton
<1>3. (\A y \in S : f[y] = y.tax) /\ IntegerOn(f, S) /\ x \in S /\ \A y \in S \ {x} : f[y] = 0
  BY <1>1 DEF IntegerOn
<1>4. TaxSum(S) = SumFunctionOnSet(f, S) /\ SumFunctionOnSet(f, S) = f[x]
  BY <1>2, <1>3, TaxSumIsSum, SumOfOne
<1> QED
  BY <1>1, <1>3, <1>4

LEMMA ItemTaxOfPayment ==
    ASSUME Typed, BookInv, NEW p \in Own, NEW group, group[2] = p
    PROVE  ItemTax(group) = ItemOf(p).tax /\ ItemOf(p).tax \in Int
<1>1. PICK x : x = ItemOf(p)
  OBVIOUS
<1>2. /\ x \in PaidItems /\ x.ref = <<p>> /\ x.tax \in Int
      /\ \A i \in PaidItems : i.ref = <<p>> => i = x
  BY <1>1, ItsItem DEF BookInv, PaysFor
<1>3. {i \in items : i.ref = <<group[2]>> /\ i.type = "PAYMENT"} = {x}
  BY <1>2 DEF PaidItems, OfType
<1> QED
  BY <1>1, <1>2, <1>3, TaxOfOne DEF ItemTax

LEMMA BooksAreCorroborated ==
    ASSUME Typed, Drawn, BookInv, BooksKept, TruthShaped, NEW s \in Settlement
    PROVE  BooksDelta(s) = PlantedTax(s, "D3_DUPLICATE_LEDGER") - PlantedTax(s, "D3_MISSING_LEDGER")
<1>1. PICK D, M : D = RowsOf(s, "D3_DUPLICATE_LEDGER") /\ M = RowsOf(s, "D3_MISSING_LEDGER")
  OBVIOUS
<1>2. /\ \A g \in D : g \in Rows3 /\ g.type = "D3_DUPLICATE_LEDGER" /\ g.settlement = s
      /\ \A g \in M : g \in Rows3 /\ g.type = "D3_MISSING_LEDGER" /\ g.settlement = s
  BY <1>1 DEF RowsOf, Planted, Rows3, Expecting, TruthShaped, RowShaped
<1>3. /\ \A g \in Rows3 : g.type = "D3_DUPLICATE_LEDGER" /\ g.settlement = s => g \in D
      /\ \A g \in Rows3 : g.type = "D3_MISSING_LEDGER" /\ g.settlement = s => g \in M
  BY <1>1 DEF RowsOf, Planted, Rows3, Expecting
<1>4. SUFFICES BooksDelta(s) = ItemTaxes(D) - ItemTaxes(M)
  BY <1>1, PlantedTaxIsSum DEF PlantedTaxAddsUp
<1>5. CASE \A g \in Rows3 : g.settlement # s
  <2>1. D = {} /\ M = {}
    BY <1>2, <1>5
  <2>2. BooksDelta(s) = 0
    BY <1>5, NoRowNoDefect, AllPosted
  <2> QED
    BY <2>1, <2>2, ItemTaxesOfFew
<1>6. ASSUME NEW g \in Rows3, g.settlement = s PROVE BooksDelta(s) = ItemTaxes(D) - ItemTaxes(M)
  <2>1. PICK p \in Own : g.subject[2] = p /\ Row3(p, g)
    BY DEF BooksKept
  <2>2. p \in PaysOf(s) /\ \A q \in PaysOf(s) \ {p} : Clean3(q)
    BY <1>6, <2>1, OneRowOneDefect
  <2>3. D \subseteq {g} /\ M \subseteq {g}
    BY <1>2, <1>6 DEF BooksKept
  <2>4. PICK tax : tax = ItemOf(p).tax
    OBVIOUS
  <2>5. ItemTax(g.subject) = tax /\ tax \in Int
    BY <2>1, <2>4, ItemTaxOfPayment
  <2>6. ItemTaxes({}) = 0 /\ ItemTaxes({g}) = tax
    BY <2>5, ItemTaxesOfFew
  <2>7. ASSUME NEW c \in Int, NEW f \in Int, NEW t \in Int, Sides(p, c, f, t)
        PROVE  BooksDelta(s) = t - tax
    BY <2>2, <2>4, <2>7, SidesLeave, OneOff
  <2>8. CASE g.type = "D3_DUPLICATE_LEDGER"
    <3>1. D = {g} /\ M = {}
      BY <1>2, <1>3, <1>6, <2>3, <2>8
    <3>2. Shape3(p, PostedTwice(p))
      BY <2>1, <2>8 DEF Row3, Posted
    <3>3. PICK gross, fee : gross = Gross(p) /\ fee = ItemOf(p).fee
      OBVIOUS
    <3>4. gross \in Nat /\ fee \in Nat /\ tax \in Nat /\ Sides(p, -gross, fee + fee, tax + tax)
      BY <2>4, <3>2, <3>3, ShapeSides
    <3>5. (-gross) \in Int /\ (fee + fee) \in Int /\ (tax + tax) \in Int
      BY <3>4
    <3>6. BooksDelta(s) = (tax + tax) - tax
      BY <2>7, <3>4, <3>5
    <3> QED
      BY <2>5, <2>6, <3>1, <3>6
  <2>9. CASE g.type = "D3_MISSING_LEDGER"
    <3>1. D = {} /\ M = {g}
      BY <1>2, <1>3, <1>6, <2>3, <2>9
    <3>2. Shape3(p, {})
      BY <2>1, <2>9 DEF Row3, Posted
    <3>3. PICK gross, z : gross = Gross(p) /\ z = 0
      OBVIOUS
    <3>4. gross \in Int /\ z \in Int /\ Sides(p, gross, z, z)
      BY <2>4, <3>2, <3>3, ShapeSides
    <3>5. BooksDelta(s) = z - tax
      BY <2>7, <3>4
    <3> QED
      BY <2>5, <2>6, <3>1, <3>3, <3>5
  <2>10. CASE g.type = "D3_WRONG_ACCOUNT"
    <3>1. D = {} /\ M = {}
      BY <1>2, <2>3, <2>10
    <3>2. Shape3(p, PostedAs(p, Group(p), "SALES"))
      BY <2>1, <2>10 DEF Row3, Posted
    <3>3. PICK z : z = 0
      OBVIOUS
    <3>4. z \in Int /\ Sides(p, z, z, tax)
      BY <2>4, <3>2, <3>3, ShapeSides
    <3>5. BooksDelta(s) = tax - tax
      BY <2>5, <2>7, <3>4
    <3> QED
      BY <2>5, <2>6, <3>1, <3>5
  <2> QED
    BY <2>1, <2>8, <2>9, <2>10 DEF Row3, Posted
<1> QED
  BY <1>5, <1>6
-----------------------------------------------------------------------------
\* The whole batch: what the four deltas, the ground truth and the run keep.

BatchInv ==
    /\ Delta1Inv /\ BookInv /\ LedgerInv /\ PayoutsInv
    /\ TruthShaped /\ RunInv /\ IsFiniteSet(allocations)

LEMMA BatchInvInit == BatchInit => BatchInv
BY Delta1Init, BookInit, LedgerInit, PayoutsInit, TruthInit, RunInit, SplitInit DEF BatchInv

LEMMA BatchInvStep == BatchInv /\ [Next]_vars => BatchInv'
<1> SUFFICES ASSUME BatchInv, [Next]_vars PROVE BatchInv'
  OBVIOUS
<1>1. Delta1Inv'
  BY Delta1Step DEF BatchInv
<1>2. BookInv'
  BY BookStep DEF BatchInv
<1>3. LedgerInv'
  BY LedgerStep DEF BatchInv
<1>4. PayoutsInv'
  BY PayoutsStep DEF BatchInv
<1>5. TruthShaped'
  BY TruthStep DEF BatchInv
<1>6. RunInv'
  <2>1. Typed /\ Typed'
    BY <1>1 DEF BatchInv, Delta1Inv, CleanInv
  <2> QED
    BY <2>1, RunStep DEF BatchInv
<1>7. IsFiniteSet(allocations)'
  BY SplitStep DEF BatchInv
<1> QED
  BY <1>1, <1>2, <1>3, <1>4, <1>5, <1>6, <1>7 DEF BatchInv

\* Once the run has results the batch is stored, its books are built, and the
\* results are those of the run on it.
LEMMA StoredBatch ==
    ASSUME BatchInv, Reconciled
    PROVE  Typed /\ Drawn /\ BookInv /\ BooksKept /\ results = Diagnoses
<1>1. Done /\ results = Diagnoses
  BY DEF BatchInv, RunInv, Reconciled
<1>2. BooksKept
  BY <1>1, PlanPositions DEF BatchInv, LedgerInv, Done
<1> QED
  BY <1>1, <1>2 DEF BatchInv, Delta1Inv, CleanInv

LEMMA StoredIsKnown ==
    ASSUME BatchInv, Reconciled
    PROVE  Known
<1>1. Typed /\ Drawn /\ BookInv /\ BooksKept /\ results = Diagnoses
  BY StoredBatch
<1>2. Diagnosed3
  BY <1>1, BooksAreTold
<1>3. RunReports
  BY <1>1, RunIsReported
<1>4. ASSUME NEW g \in Rows3 PROVE g.settlement \in Settlement /\ g.resolvable
  <2>1. PICK p \in Own : g.subject[2] = p /\ Row3(p, g)
    BY <1>1 DEF BooksKept
  <2> QED
    BY <2>1 DEF Row3, Own
<1> QED
  BY <1>2, <1>3, <1>4 DEF Known, BatchInv, Delta1Inv

LEMMA BatchInvDiagnoses == BatchInv => DefectsDiagnosed
<1>1. ~ Reconciled => DefectsDiagnosed
  BY DEF DefectsDiagnosed
<1> QED
  BY <1>1, StoredIsKnown, DefectsAreDiagnosed

LEMMA BatchInvIsQuiet == BatchInv => NothingInvented
<1>1. ~ Reconciled => NothingInvented
  BY DEF NothingInvented
<1>2. BatchInv /\ Reconciled => Known /\ IsFiniteSet(allocations) /\ UnbalancedGroups = {}
  <2>1. BatchInv /\ Reconciled => UnbalancedGroups = {}
    BY StoredBatch, BooksBalance
  <2> QED
    BY <2>1, StoredIsKnown DEF BatchInv
<1> QED
  BY <1>1, <1>2, NothingIsInvented

LEMMA BatchInvScores == BatchInv => EveryRowScores
<1>1. ~ Reconciled => EveryRowScores
  BY DEF EveryRowScores
<1>2. BatchInv => IsFiniteSet(allocations)
  BY DEF BatchInv
<1> QED
  BY <1>1, <1>2, StoredIsKnown, EveryRowIsScored

LEMMA BatchInvCorroborates == BatchInv => BooksCorroborate
<1> SUFFICES ASSUME BatchInv, Reconciled, NEW s \in Settlement
             PROVE  BooksDelta(s) = PlantedTax(s, "D3_DUPLICATE_LEDGER")
                                    - PlantedTax(s, "D3_MISSING_LEDGER")
  BY DEF BooksCorroborate
<1>1. Typed /\ Drawn /\ BookInv /\ BooksKept /\ TruthShaped
  BY StoredBatch DEF BatchInv
<1> QED
  BY <1>1, BooksAreCorroborated

\* Whatever batch is generated, every exception its ground truth lists is diagnosed
\* by the run: a resolvable defect of delta 1 or 3 with its label, at tier A, for the
\* amount planted; an unresolvable one of delta 1 at tier C with all of it as residual;
\* a payout with its label and amount (generator/anomalies.py:1, engine/metrics.py:83).
THEOREM DefectsAlwaysDiagnosed == Spec => []DefectsDiagnosed
BY BatchInvInit, BatchInvStep, BatchInvDiagnoses, PTL DEF Spec

\* Whatever batch is generated, a result the ground truth expects nothing of has delta
\* zero, no label and no finding, and every group of postings balances, the planted
\* ones too (anomalies.py:11, engine/invariants.py:56).
THEOREM NothingEverInvented == Spec => []NothingInvented
BY BatchInvInit, BatchInvStep, BatchInvIsQuiet, PTL DEF Spec

\* Whatever batch is generated, every row of its ground truth that the deltas 1, 3 and 4
\* can tell scores as diagnosed, as an avoided trap or as correctly escalated, and
\* none as falsely resolved (engine/metrics.py:83).
THEOREM EveryRowAlwaysScores == Spec => []EveryRowScores
BY BatchInvInit, BatchInvStep, BatchInvScores, PTL DEF Spec

\* Whatever batch is generated, the tax the books record for a settlement differs from
\* what its items carry by the tax of the postings planted twice, less that of the
\* planted missing ones (engine/taxmatch.py:266).
THEOREM BooksAlwaysCorroborate == Spec => []BooksCorroborate
BY BatchInvInit, BatchInvStep, BatchInvCorroborates, PTL DEF Spec
=============================================================================
