-------------------------- MODULE PlantedBatchProofs --------------------------
(***************************************************************************)
(* What the planters leave intact and what the engine makes of it, for any *)
(* number of settlements, any policy, any clean books and any amounts.     *)
(* Most arguments are about which rows a planter touches, not about what   *)
(* they add up to; where the sums matter (a clean settlement, the tax of   *)
(* an invoice) they are turned into sums of a function, for which          *)
(* SumTheorems has the lemmas.  The parts: money; headers and bank lines;  *)
(* payouts; clean settlements; the filing leg of the tax report.           *)
(***************************************************************************)
EXTENDS PlantedBatch, SumTheorems

\* Money.

\* bps rounds to the nearest paisa (engine/money.py:15).
THEOREM BpsRounds ==
    ASSUME NEW paise \in Int, NEW rate \in Nat
    PROVE  /\ Bps(paise, rate) \in Int
           /\ Abs(10000 * Bps(paise, rate) - paise * rate) <= 5000
<1> DEFINE Half(x) == (x + 5000) \div 10000
<1>1. \A x \in Int : Half(x) \in Int /\ 10000 * Half(x) - x <= 5000 /\ x - 10000 * Half(x) <= 5000
  BY SMT
<1>2. \A x, h \in Int : 10000 * h - x <= 5000 /\ x - 10000 * h <= 5000
        => Abs(10000 * h - x) <= 5000 /\ Abs(10000 * (-h) + x) <= 5000
  BY DEF Abs
<1>3. CASE paise < 0
  <2>1. PICK x \in Int : x = -paise * rate
    OBVIOUS
  <2>2. Bps(paise, rate) = -Half(x)
    BY <1>3, <2>1 DEF Bps
  <2>3. paise * rate = -x
    BY <2>1
  <2>4. Abs(10000 * (-Half(x)) + x) <= 5000 /\ -Half(x) \in Int
    BY <1>1, <1>2
  <2>5. 10000 * (-Half(x)) - (-x) = 10000 * (-Half(x)) + x
    BY <1>1
  <2> HIDE DEF Half
  <2> QED
    BY <2>2, <2>3, <2>4, <2>5
<1>4. CASE ~(paise < 0)
  <2>1. PICK x \in Int : x = paise * rate
    OBVIOUS
  <2>2. Bps(paise, rate) = Half(x)
    BY <1>4, <2>1 DEF Bps
  <2>3. Abs(10000 * Half(x) - x) <= 5000 /\ Half(x) \in Int
    BY <1>1, <1>2
  <2> HIDE DEF Half
  <2> QED
    BY <2>1, <2>2, <2>3
<1> QED
  BY <1>3, <1>4

\* Refund-side amounts are charged like the others, with the sign turned.
THEOREM BpsSymmetric ==
    ASSUME NEW paise \in Int, NEW rate \in Nat
    PROVE  Bps(-paise, rate) = -Bps(paise, rate)
<1>1. CASE paise = 0
  BY <1>1, SMT DEF Bps
<1>2. CASE paise > 0
  <2>1. -(-paise) = paise /\ -paise < 0 /\ ~(paise < 0)
    BY <1>2
  <2> QED
    BY <2>1 DEF Bps
<1>3. CASE paise < 0
  <2>1. ~(-paise < 0)
    BY <1>3
  <2>2. (-paise * rate + 5000) \div 10000 \in Int
    BY SMT
  <2> QED
    BY <1>3, <2>1, <2>2 DEF Bps
<1> QED
  BY <1>1, <1>2, <1>3

\* A rate of at most 100% never takes more than there is.
THEOREM BpsWithin ==
    ASSUME NEW paise \in Nat, NEW rate \in 0 .. 10000
    PROVE  Bps(paise, rate) \in 0 .. paise
<1>1. paise * rate \in 0 .. 10000 * paise
  <2>1. paise * rate \in Nat
    OBVIOUS
  <2>2. paise * (10000 - rate) \in Nat
    OBVIOUS
  <2>3. paise * (10000 - rate) = 10000 * paise - paise * rate
    BY SMT
  <2> QED
    BY <2>1, <2>2, <2>3
<1>2. PICK x \in 0 .. 10000 * paise : x = paise * rate
  BY <1>1
<1>3. (x + 5000) \div 10000 \in 0 .. paise
  BY SMT
<1>4. Bps(paise, rate) = (x + 5000) \div 10000
  BY <1>2 DEF Bps
<1> QED
  BY <1>3, <1>4
-----------------------------------------------------------------------------
\* The planters of deltas 1 and 2.

\* The tables keep a row for every settlement, and items know theirs.
Shape ==
    /\ header = [s \in Settlement |-> header[s]]
    /\ credit = [s \in Settlement |-> credit[s]]
    /\ \A i \in items : "settlement" \in DOMAIN i

IInv == Shape /\ HeadersRollUp /\ BankInStep

\* The items of every settlement but s are left alone.
OnlyOf(s) ==
    /\ s \in Settlement
    /\ \A i \in items' : "settlement" \in DOMAIN i
    /\ \A x \in Settlement \ {s} : ItemsIn(items', x) = ItemsIn(items, x)

LEMMA SameItemsSameRollup ==
    ASSUME NEW a, NEW b, NEW s, ItemsIn(a, s) = ItemsIn(b, s)
    PROVE  Rollup(a, s) = Rollup(b, s)
  BY DEF Rollup

\* A header is replaced and its bank line with it.
LEMMA HeaderSet ==
    ASSUME Shape, BankInStep, NEW s \in Settlement, NEW h, SetHeader(s, h)
    PROVE  /\ header' = [x \in Settlement |-> header'[x]]
           /\ credit' = [x \in Settlement |-> credit'[x]]
           /\ header'[s] = h
           /\ \A x \in Settlement \ {s} : header'[x] = header[x]
           /\ BankInStep'
<1>1. /\ header' = [x \in Settlement |-> header'[x]]
      /\ header'[s] = h
      /\ \A x \in Settlement \ {s} : header'[x] = header[x]
  BY DEF Shape, SetHeader
<1>2. CASE credit[s] > 0
  <2>1. /\ credit' = [x \in Settlement |-> credit'[x]]
        /\ credit'[s] = h.net
        /\ \A x \in Settlement \ {s} : credit'[x] = credit[x]
    BY <1>2 DEF Shape, SetHeader, SyncBank
  <2> QED
    BY <1>1, <2>1 DEF BankInStep
<1>3. CASE ~(credit[s] > 0)
  <2>1. credit' = credit
    BY <1>3 DEF SetHeader, SyncBank
  <2> QED
    BY <1>1, <1>3, <2>1 DEF BankInStep, Shape
<1> QED
  BY <1>2, <1>3

\* A planter that claims s and touches the items and the header of s only.
LEMMA ClaimedMayDiffer ==
    ASSUME IInv, NEW s, OnlyOf(s), Claim(s), NEW h, SetHeader(s, h)
    PROVE  IInv'
<1>1. s \in Settlement
  BY DEF OnlyOf
<1>2. /\ header' = [x \in Settlement |-> header'[x]]
      /\ credit' = [x \in Settlement |-> credit'[x]]
      /\ \A x \in Settlement \ {s} : header'[x] = header[x]
      /\ BankInStep'
  BY <1>1, HeaderSet DEF IInv
<1>3. Shape'
  BY <1>2 DEF Shape, OnlyOf
<1>4. ASSUME NEW x \in Settlement \ claimed' PROVE header'[x] = Rollup(items', x)
  <2>1. x \in Settlement \ claimed /\ x # s
    BY DEF Claim
  <2>2. ItemsIn(items', x) = ItemsIn(items, x)
    BY <2>1 DEF OnlyOf
  <2>3. Rollup(items', x) = Rollup(items, x)
    BY <2>2, SameItemsSameRollup, Zenon
  <2> QED
    BY <1>2, <2>1, <2>3 DEF IInv, HeadersRollUp
<1> QED
  BY <1>2, <1>3, <1>4 DEF IInv, HeadersRollUp

\* A settlement whose header is rebuilt from its items stays accounted for.
LEMMA RebuiltRollsUp ==
    ASSUME IInv, NEW s, OnlyOf(s), NEW its, Itemise(s, its),
           claimed \subseteq claimed'
    PROVE  IInv'
<1>1. s \in Settlement /\ items' = its /\ SetHeader(s, Rollup(its, s))
  BY DEF OnlyOf, Itemise
<1>2. /\ header' = [x \in Settlement |-> header'[x]]
      /\ credit' = [x \in Settlement |-> credit'[x]]
      /\ header'[s] = Rollup(items', s)
      /\ \A x \in Settlement \ {s} : header'[x] = header[x]
      /\ BankInStep'
  BY <1>1, HeaderSet DEF IInv
<1>3. Shape'
  BY <1>2 DEF Shape, OnlyOf
<1>4. ASSUME NEW x \in Settlement \ claimed', x # s PROVE header'[x] = Rollup(items', x)
  <2>1. x \in Settlement \ claimed
    OBVIOUS
  <2>2. ItemsIn(items', x) = ItemsIn(items, x)
    BY <1>4, <2>1 DEF OnlyOf
  <2>3. Rollup(items', x) = Rollup(items, x)
    BY <2>2, SameItemsSameRollup, Zenon
  <2> QED
    BY <1>2, <1>4, <2>1, <2>3 DEF IInv, HeadersRollUp
<1> QED
  BY <1>2, <1>3, <1>4 DEF IInv, HeadersRollUp

\* A row of one settlement is replaced, put there or taken away.
LEMMA Replaced ==
    ASSUME Shape, NEW s \in Settlement, NEW i, NEW j,
           items' = (items \ {i}) \cup {j},
           i.settlement = s, j.settlement = s, "settlement" \in DOMAIN j
    PROVE  OnlyOf(s)
  BY DEF Shape, OnlyOf, ItemsIn

LEMMA Put ==
    ASSUME Shape, NEW s \in Settlement, NEW j, items' = items \cup {j},
           j.settlement = s, "settlement" \in DOMAIN j
    PROVE  OnlyOf(s)
  BY DEF Shape, OnlyOf, ItemsIn

LEMMA Taken ==
    ASSUME Shape, NEW s \in Settlement, NEW i, items' = items \ {i}, i.settlement = s
    PROVE  OnlyOf(s)
  BY DEF Shape, OnlyOf, ItemsIn

\* What planters take from a settlement and put there belongs to it.
LEMMA ItsOwnItems ==
    ASSUME Shape, NEW s \in Settlement
    PROVE  /\ \A i \in PaymentItems(s) : i.settlement = s /\ "settlement" \in DOMAIN i
           /\ \A i \in CardItems(s) : i \in PaymentItems(s)
           /\ \A t, r, a, f, x : /\ Item(s, t, r, a, f, x).settlement = s
                                 /\ "settlement" \in DOMAIN Item(s, t, r, a, f, x)
           /\ \A i \in PaymentItems(s) : /\ Drift(i).settlement = s
                                         /\ "settlement" \in DOMAIN Drift(i)
<1>1. \A i \in PaymentItems(s) : i.settlement = s /\ "settlement" \in DOMAIN i
  BY DEF Shape, PaymentItems, OfType, ItemsIn
<1>2. \A i \in CardItems(s) : i \in PaymentItems(s)
  BY DEF CardItems
<1>3. \A t, r, a, f, x : /\ Item(s, t, r, a, f, x).settlement = s
                        /\ "settlement" \in DOMAIN Item(s, t, r, a, f, x)
  BY DEF Item
<1>4. \A i \in PaymentItems(s) : /\ Drift(i).settlement = s
                                /\ "settlement" \in DOMAIN Drift(i)
  BY <1>1 DEF Drift
<1> QED
  BY <1>1, <1>2, <1>3, <1>4

LEMMA RebuiltWithOneMore ==
    ASSUME IInv, NEW s \in Settlement, claimed \subseteq claimed',
           NEW j, j.settlement = s, "settlement" \in DOMAIN j,
           Itemise(s, items \cup {j})
    PROVE  IInv'
<1>1. items' = items \cup {j}
  BY DEF Itemise
<1>2. OnlyOf(s)
  BY <1>1, Put DEF IInv
<1> QED
  BY <1>2, RebuiltRollsUp
-----------------------------------------------------------------------------
LEMMA InitEstablishes == Init => IInv
<1> SUFFICES ASSUME Init PROVE IInv
  OBVIOUS
<1>1. PICK book \in Books :
          /\ items = CleanItems(book)
          /\ header = [s \in Settlement |-> Rollup(items, s)]
          /\ credit = [s \in Settlement |-> IF header[s].net > 0 THEN header[s].net ELSE 0]
  BY DEF Init
<1>2. \A i \in items : "settlement" \in DOMAIN i
  <2>1. \A s, t, r, a, f, x : "settlement" \in DOMAIN Item(s, t, r, a, f, x)
    BY DEF Item
  <2>2. \A p, pay : "settlement" \in DOMAIN PaymentItem(p, pay)
    BY <2>1 DEF PaymentItem
  <2> QED
    BY <1>1, <2>1, <2>2 DEF CleanItems, CleanPaymentItems, RefundItem
<1>3. Shape
  BY <1>1, <1>2 DEF Shape
<1>4. HeadersRollUp
  BY <1>1 DEF HeadersRollUp
<1>5. BankInStep
  BY <1>1 DEF BankInStep
<1> QED
  BY <1>3, <1>4, <1>5 DEF IInv
-----------------------------------------------------------------------------
\* The planters that rebuild the header of the settlement they take.

LEMMA FeeRateDriftKeeps ==
    ASSUME IInv, NEW s \in Settlement, FeeRateDrift(s)
    PROVE  IInv'
<1>1. PICK i \in CardItems(s) : Itemise(s, (items \ {i}) \cup {Drift(i)})
  BY DEF FeeRateDrift, Largest
<1>2. claimed \subseteq claimed'
  BY DEF FeeRateDrift, Claim
<1>3. items' = (items \ {i}) \cup {Drift(i)}
  BY <1>1 DEF Itemise
<1>4. i.settlement = s /\ Drift(i).settlement = s /\ "settlement" \in DOMAIN Drift(i)
  BY ItsOwnItems DEF IInv
<1>5. OnlyOf(s)
  BY <1>3, <1>4, Replaced DEF IInv
<1> QED
  BY <1>1, <1>2, <1>5, RebuiltRollsUp

LEMMA TaxAggregateRoundingKeeps ==
    ASSUME IInv, NEW s \in Settlement, TaxAggregateRounding(s)
    PROVE  IInv'
<1> DEFINE its == {i \in PaymentItems(s) : i.fee > 0}
           Corrected(i) == [i EXCEPT !.tax = @ + (Bps(FeeSum(its), GstBps) - TaxSum(its))]
<1>1. PICK i \in its : Itemise(s, (items \ {i}) \cup {Corrected(i)})
  BY DEF TaxAggregateRounding, Largest
<1>2. claimed \subseteq claimed'
  BY DEF TaxAggregateRounding, Claim
<1>3. items' = (items \ {i}) \cup {Corrected(i)}
  BY <1>1 DEF Itemise
<1>4. i.settlement = s /\ "settlement" \in DOMAIN i
  BY ItsOwnItems DEF IInv
<1>5. Corrected(i).settlement = s /\ "settlement" \in DOMAIN Corrected(i)
  BY <1>4
<1> HIDE DEF Corrected, its
<1>6. OnlyOf(s)
  BY <1>3, <1>4, <1>5, Replaced DEF IInv
<1> QED
  BY <1>1, <1>2, <1>6, RebuiltRollsUp

LEMMA RefundNotDeductedKeeps ==
    ASSUME IInv, NEW s \in Settlement, RefundNotDeducted(s)
    PROVE  IInv'
<1>1. PICK i \in OfType(ItemsIn(items, s), "REFUND") : Itemise(s, items \ {i})
  BY DEF RefundNotDeducted, Largest
<1>2. claimed \subseteq claimed'
  BY DEF RefundNotDeducted, Claim
<1>3. items' = items \ {i}
  BY <1>1 DEF Itemise
<1>4. i.settlement = s
  BY DEF OfType, ItemsIn
<1>5. OnlyOf(s)
  BY <1>3, <1>4, Taken DEF IInv
<1> QED
  BY <1>1, <1>2, <1>5, RebuiltRollsUp

LEMMA RefundPartialMultiKeeps ==
    ASSUME IInv, NEW s \in Settlement, RefundPartialMulti(s)
    PROVE  IInv'
<1>1. PICK r : Itemise(s, items \cup {RefundItem(s, r)})
  BY DEF RefundPartialMulti
<1>2. claimed \subseteq claimed'
  BY DEF RefundPartialMulti, Claim
<1>3. RefundItem(s, r).settlement = s /\ "settlement" \in DOMAIN RefundItem(s, r)
  BY DEF RefundItem, Item
<1> QED
  BY <1>1, <1>2, <1>3, RebuiltWithOneMore

\* The refund of the trap goes to the next settlement, which keeps adding up.
LEMMA RefundOutsidePeriodKeeps ==
    ASSUME IInv, NEW s \in Settlement, NEW later \in Settlement, RefundOutsidePeriod(s, later)
    PROVE  IInv'
<1>1. claimed \subseteq claimed'
  BY DEF RefundOutsidePeriod, Claim
<1>2. PICK r : /\ items' = items \cup {RefundItem(later, r)}
               /\ SetHeader(later, Rollup(items \cup {RefundItem(later, r)}, later))
  BY DEF RefundOutsidePeriod, Itemise
<1> DEFINE j == RefundItem(later, r)
<1>3. j.settlement = later /\ "settlement" \in DOMAIN j
  BY DEF RefundItem, Item
<1>4. Itemise(later, items \cup {j})
  BY <1>2 DEF Itemise
<1> HIDE DEF j
<1> QED
  BY <1>1, <1>3, <1>4, RebuiltWithOneMore
-----------------------------------------------------------------------------
\* The planters that break a header, and those that leave the items alone.

LEMMA ItemsUntouched ==
    ASSUME Shape, NEW s \in Settlement, items' = items
    PROVE  OnlyOf(s)
  BY DEF Shape, OnlyOf, ItemsIn

LEMMA NothingTouched ==
    ASSUME IInv, UNCHANGED <<items, header, credit>>, claimed \subseteq claimed'
    PROVE  IInv'
  BY DEF IInv, Shape, HeadersRollUp, BankInStep

LEMMA HeaderRollupMismatchKeeps ==
    ASSUME IInv, NEW s \in Settlement, HeaderRollupMismatch(s)
    PROVE  IInv'
<1>1. OnlyOf(s)
  BY ItemsUntouched DEF HeaderRollupMismatch, IInv
<1>2. PICK h : SetHeader(s, h)
  BY DEF HeaderRollupMismatch
<1> QED
  BY <1>1, <1>2, ClaimedMayDiffer DEF HeaderRollupMismatch

LEMMA AdjustmentAppliedKeeps ==
    ASSUME IInv, NEW s \in Settlement, AdjustmentApplied(s)
    PROVE  IInv'
<1>1. OnlyOf(s)
  BY ItemsUntouched DEF AdjustmentApplied, IInv
<1>2. PICK h : SetHeader(s, h)
  BY DEF AdjustmentApplied
<1> QED
  BY <1>1, <1>2, ClaimedMayDiffer DEF AdjustmentApplied

LEMMA PhantomDebitKeeps ==
    ASSUME IInv, NEW s \in Settlement, PhantomDebit(s)
    PROVE  IInv'
<1>1. OnlyOf(s)
  BY ItemsUntouched DEF PhantomDebit, IInv
<1>2. PICK h : SetHeader(s, h)
  BY DEF PhantomDebit
<1> QED
  BY <1>1, <1>2, ClaimedMayDiffer DEF PhantomDebit

LEMMA FeeCorrectedByAdjustmentKeeps ==
    ASSUME IInv, NEW s \in Settlement, FeeCorrectedByAdjustment(s)
    PROVE  IInv'
<1>1. PICK i \in CardItems(s) : items' = (items \ {i}) \cup {Drift(i)}
  BY DEF FeeCorrectedByAdjustment, Largest
<1>2. i.settlement = s /\ Drift(i).settlement = s /\ "settlement" \in DOMAIN Drift(i)
  BY ItsOwnItems DEF IInv
<1>3. OnlyOf(s)
  BY <1>1, <1>2, Replaced DEF IInv
<1>4. PICK h : SetHeader(s, h)
  BY DEF FeeCorrectedByAdjustment
<1> QED
  BY <1>3, <1>4, ClaimedMayDiffer DEF FeeCorrectedByAdjustment

\* The trap that ends outside the window touches no item in it.
LEMMA RefundOutsideWindowKeeps ==
    ASSUME IInv, NEW s \in Settlement, RefundOutsideWindow(s)
    PROVE  IInv'
<1>1. UNCHANGED <<items, header, credit>> /\ claimed \subseteq claimed'
  BY DEF RefundOutsideWindow, Claim
<1> QED
  BY <1>1, NothingTouched

\* A planter of bank lines keeps the line or takes it away.
LEMMA BankLineKeeps ==
    ASSUME IInv, NEW s \in Settlement, NEW type, BankLine(s, type)
    PROVE  IInv'
<1>1. UNCHANGED <<items, header>> /\ claimed \subseteq claimed'
  BY DEF BankLine, Claim, tables
<1>2. CASE UNCHANGED credit
  BY <1>1, <1>2, NothingTouched
<1>3. CASE credit' = [credit EXCEPT ![s] = 0]
  <2>1. /\ credit' = [x \in Settlement |-> credit'[x]]
        /\ credit'[s] = 0
        /\ \A x \in Settlement \ {s} : credit'[x] = credit[x]
    BY <1>3 DEF IInv, Shape
  <2>2. Shape' /\ HeadersRollUp'
    BY <1>1, <2>1 DEF IInv, Shape, HeadersRollUp
  <2>3. BankInStep'
    BY <1>1, <2>1 DEF IInv, BankInStep
  <2> QED
    BY <2>2, <2>3 DEF IInv
<1> QED
  BY <1>2, <1>3 DEF BankLine

\* One of two settlements is given the net of the other, and both are claimed.
LEMMA SameAmountSameDayKeeps ==
    ASSUME IInv, NEW a \in Settlement, NEW b \in Settlement, SameAmountSameDay(a, b)
    PROVE  IInv'
<1>1. /\ a # b /\ a \notin claimed /\ b \notin claimed
      /\ claimed' = claimed \cup {a, b}
      /\ credit' = [credit EXCEPT ![a] = header[a].net, ![b] = header[a].net]
  BY DEF SameAmountSameDay
<1> DEFINE diff == header[a].net - header[b].net
<1>2. header' = [header EXCEPT ![b].net = header[a].net, ![b].adjustment = @ + diff]
  BY DEF SameAmountSameDay
<1> HIDE DEF diff
<1>3. OnlyOf(b)
  <2>1. CASE items' = items
    BY <2>1, ItemsUntouched DEF IInv
  <2>2. CASE items' # items
    <3>1. PICK ref, x : items' = items \cup {Item(b, "ADJUSTMENT", ref, x, 0, 0)}
      BY <2>2 DEF SameAmountSameDay
    <3> DEFINE j == Item(b, "ADJUSTMENT", ref, x, 0, 0)
    <3>2. j.settlement = b /\ "settlement" \in DOMAIN j
      BY DEF Item
    <3> HIDE DEF j
    <3> QED
      BY <3>1, <3>2, Put DEF IInv, j
  <2> QED
    BY <2>1, <2>2
<1>4. header[b] = Rollup(items, b)
  BY <1>1 DEF IInv, HeadersRollUp
<1>5. "net" \in DOMAIN header[b]
  BY <1>4 DEF Rollup
<1>6. /\ header' = [x \in Settlement |-> header'[x]]
      /\ header'[b].net = header[a].net
      /\ \A x \in Settlement \ {b} : header'[x] = header[x]
  BY <1>2, <1>5 DEF IInv, Shape
<1>7. /\ credit' = [x \in Settlement |-> credit'[x]]
      /\ credit'[a] = header[a].net /\ credit'[b] = header[a].net
      /\ \A x \in Settlement \ {a, b} : credit'[x] = credit[x]
  BY <1>1 DEF IInv, Shape
<1>8. Shape'
  BY <1>3, <1>6, <1>7 DEF Shape, OnlyOf
<1>9. ASSUME NEW x \in Settlement \ claimed' PROVE header'[x] = Rollup(items', x)
  <2>1. x \in Settlement \ claimed /\ x # b
    BY <1>1
  <2>2. ItemsIn(items', x) = ItemsIn(items, x)
    BY <1>3, <2>1 DEF OnlyOf
  <2>3. Rollup(items', x) = Rollup(items, x)
    BY <2>2, SameItemsSameRollup, Zenon
  <2> QED
    BY <1>6, <2>1, <2>3 DEF IInv, HeadersRollUp
<1>10. BankInStep'
  BY <1>1, <1>6, <1>7 DEF IInv, BankInStep
<1> QED
  BY <1>8, <1>9, <1>10 DEF IInv, HeadersRollUp
-----------------------------------------------------------------------------
\* Posting the ledger, breaking it, breaking payouts and storing the batch.

LEMMA LedgerKeeps ==
    ASSUME IInv,
           \/ BuildLedger \/ Persist
           \/ \E s \in Settlement : DuplicateLedger(s) \/ MissingLedger(s) \/ WrongAccount(s)
    PROVE  IInv'
<1>1. UNCHANGED <<items, header, credit, claimed>>
  <2>1. CASE BuildLedger
    BY <2>1 DEF BuildLedger
  <2>2. CASE Persist
    BY <2>2 DEF Persist, tables
  <2>3. CASE \E s \in Settlement : DuplicateLedger(s) \/ MissingLedger(s) \/ WrongAccount(s)
    BY <2>3 DEF DuplicateLedger, MissingLedger, WrongAccount
  <2> QED
    BY <2>1, <2>2, <2>3
<1> QED
  BY <1>1, NothingTouched

LEMMA PayoutKeeps ==
    ASSUME IInv, PayoutNext
    PROVE  IInv'
<1>1. PICK a \in SettledAllocs :
          AllocExceeds(a) \/ AllocDiverges(a) \/ TransferMissing(a) \/ PhantomPayoutGap(a)
  BY DEF PayoutNext
<1>2. ASSUME NEW type, NEW row, Plant(type, a, row)
      PROVE  UNCHANGED <<items, header, credit, claimed>>
  BY <1>2 DEF Plant, tables
<1>3. CASE AllocExceeds(a)
  BY <1>2, <1>3, NothingTouched DEF AllocExceeds
<1>4. CASE AllocDiverges(a)
  <2>1. UNCHANGED <<tables, credit, claimed, claimed3>>
    BY <1>4 DEF AllocDiverges, Plant
  <2> QED
    BY <2>1, NothingTouched DEF tables
<1>5. CASE TransferMissing(a)
  BY <1>2, <1>5, NothingTouched DEF TransferMissing
<1>6. CASE PhantomPayoutGap(a)
  <2>1. UNCHANGED <<tables, credit, claimed, claimed3>>
    BY <1>6 DEF PhantomPayoutGap, Plant
  <2> QED
    BY <2>1, NothingTouched DEF tables
<1> QED
  BY <1>1, <1>3, <1>4, <1>5, <1>6
-----------------------------------------------------------------------------
LEMMA StepKeeps == IInv /\ [Next]_vars => IInv'
<1> SUFFICES ASSUME IInv, [Next]_vars PROVE IInv'
  OBVIOUS
<1>1. CASE UNCHANGED vars
  BY <1>1, NothingTouched DEF vars, bookVars, tables
<1>2. CASE PayoutNext
  BY <1>2, PayoutKeeps
<1>3. CASE Reconcile
  BY <1>3, NothingTouched DEF Reconcile, bookVars, tables
<1>4. CASE BookNext
  <2>1. CASE BuildLedger \/ Persist
    BY <2>1, LedgerKeeps
  <2>2. ASSUME NEW s \in Settlement,
               DuplicateLedger(s) \/ MissingLedger(s) \/ WrongAccount(s)
        PROVE  IInv'
    BY <2>2, LedgerKeeps
  <2>3. ASSUME NEW s \in Settlement,
               \/ FeeRateDrift(s) \/ TaxAggregateRounding(s) \/ RefundNotDeducted(s)
               \/ RefundPartialMulti(s) \/ RefundOutsideWindow(s)
        PROVE  IInv'
    BY <2>3, FeeRateDriftKeeps, TaxAggregateRoundingKeeps, RefundNotDeductedKeeps,
       RefundPartialMultiKeeps, RefundOutsideWindowKeeps
  <2>4. ASSUME NEW s \in Settlement,
               \/ HeaderRollupMismatch(s) \/ AdjustmentApplied(s)
               \/ FeeCorrectedByAdjustment(s) \/ PhantomDebit(s)
        PROVE  IInv'
    BY <2>4, HeaderRollupMismatchKeeps, AdjustmentAppliedKeeps,
       FeeCorrectedByAdjustmentKeeps, PhantomDebitKeeps
  <2>5. ASSUME NEW s \in Settlement,
               BankLine(s, "D2_BANK_LINE") \/ BankLine(s, "UNRESOLVABLE_AMBIGUOUS_CREDIT")
        PROVE  IInv'
    BY <2>5, BankLineKeeps
  <2>6. ASSUME NEW s \in Settlement, NEW x \in Settlement,
               RefundOutsidePeriod(s, x) \/ SameAmountSameDay(s, x)
        PROVE  IInv'
    BY <2>6, RefundOutsidePeriodKeeps, SameAmountSameDayKeeps
  <2> QED
    BY <1>4, <2>1, <2>2, <2>3, <2>4, <2>5, <2>6 DEF BookNext
<1> QED
  BY <1>1, <1>2, <1>3, <1>4 DEF Next

\* A batch keeps every header that no planter broke equal to the sum of its
\* items, however many planters repair it (generator/anomalies.py:57).
THEOREM HeadersAlwaysRollUp == Spec => []HeadersRollUp
<1>1. BatchInit => IInv
  BY InitEstablishes DEF BatchInit
<1>2. IInv => HeadersRollUp
  BY DEF IInv
<1> QED
  BY <1>1, <1>2, StepKeeps, PTL DEF Spec

\* The bank line a settlement owns is its net at every moment, so no defect of
\* the header becomes one of the bank (generator/anomalies.py:70).
THEOREM BankAlwaysInStep == Spec => []BankInStep
<1>1. BatchInit => IInv
  BY InitEstablishes DEF BatchInit
<1>2. IInv => BankInStep
  BY DEF IInv
<1> QED
  BY <1>1, <1>2, StepKeeps, PTL DEF Spec
-----------------------------------------------------------------------------
(***************************************************************************)
(* Payouts.  A planter takes at most one transfer from an allocation, and  *)
(* only a planter leaves one that did not go through.                      *)
(***************************************************************************)

Row(a) == a = [id |-> <<"A", a.payment, a.seller>>, payment |-> a.payment, seller |-> a.seller,
               gross |-> a.gross, commission |-> a.commission, status |-> a.status]
Movement(t) == t = [id |-> t.id, payment |-> t.payment, seller |-> t.seller,
                    amount |-> t.amount, status |-> t.status]

\* An allocation that no planter took has only transfers that went through; one that
\* was taken has such a transfer left, or none at all.
PayoutsWhole ==
    /\ \A a \in allocations : Row(a) /\ (Moved(a) # {} => Processed(a) # {})
    /\ \A t \in transfers : Movement(t)
    /\ \A a \in allocations : a.id \notin claimedAlloc => Moved(a) = Processed(a)

\* The tables that a run read stay as they are.
RunIsLast == results # {} => Done
PayoutInv == PayoutsWhole /\ RunIsLast /\ MissingMeansNoTransfer

LEMMA SameKey == \A p, q, u, v : <<"A", p, q>> = <<"A", u, v>> => p = u /\ q = v
  OBVIOUS

LEMMA IdNamesPayout ==
    ASSUME NEW a, NEW b, Row(a), Row(b)
    PROVE  a.id = b.id <=> a.payment = b.payment /\ a.seller = b.seller
<1>1. a.id = <<"A", a.payment, a.seller>>
  BY DEF Row
<1>2. b.id = <<"A", b.payment, b.seller>>
  BY DEF Row
<1>3. a.id = b.id <=> <<"A", a.payment, a.seller>> = <<"A", b.payment, b.seller>>
  BY <1>1, <1>2, Zenon
<1> QED
  BY <1>3, SameKey, Zenon

LEMMA FirstRaised ==
    ASSUME NEW delta, NEW r1, NEW r2, NEW fallback, r1.label # r2.label, fallback # r1.label,
           r1.label # "NONE", Verdict(delta, <<r1, r2>>, fallback).label = r1.label
    PROVE  r1.found # {}
<1> DEFINE rules == <<r1, r2>>
           raised == {k \in DOMAIN rules : rules[k].found # {}}
<1>1. raised \in SUBSET Nat /\ \A k \in raised : k = 1 \/ k = 2
  OBVIOUS
<1>2. raised # {}
  BY DEF Verdict
<1>3. Verdict(delta, rules, fallback).label = rules[Min(raised)].label
  BY <1>2 DEF Verdict
<1>4. Min(raised) \in raised
  <2> HIDE DEF raised
  <2>1. \E n \in raised : \A m \in raised : n <= m
    BY <1>1, <1>2, LeastNumber
  <2> QED
    BY <2>1 DEF Min
<1>5. Min(raised) = 1
  BY <1>1, <1>3, <1>4
<1> QED
  BY <1>4, <1>5

\* An allocation the engine finds no transfer for has none, when its transfers that
\* did not go through are never alone.
LEMMA DiagnosedMissing ==
    ASSUME PayoutsWhole, NEW a \in allocations, DiagnosePayout(a).label = "TRANSFER_MISSING"
    PROVE  Moved(a) = {}
<1> DEFINE r1 == [label |-> "TRANSFER_MISSING",
                  found |-> IF Owed(a) # 0 /\ Processed(a) = {}
                            THEN {Attribution("allocation", a.id, Owed(a))} ELSE {}]
           r2 == [label |-> "ALLOCATION_TRANSFER_DIVERGENCE",
                  found |-> IF Owed(a) = 0 \/ Processed(a) = {} THEN {}
                            ELSE {Attribution("transfer", t.id, Owed(a)) : t \in FirstOf(Returned(a))}]
<1>1. DiagnosePayout(a) = Verdict(Owed(a), <<r1, r2>>, "PHANTOM_PAYOUT_GAP")
  BY DEF DiagnosePayout, PayoutRules
<1>2. r1.label = "TRANSFER_MISSING" /\ r1.label # r2.label /\ r1.label # "PHANTOM_PAYOUT_GAP"
      /\ r1.label # "NONE"
  OBVIOUS
<1>3. r1.found # {} => Processed(a) = {}
  OBVIOUS
<1> HIDE DEF r1, r2
<1>4. r1.found # {}
  BY <1>1, <1>2, FirstRaised
<1> QED
  BY <1>3, <1>4 DEF PayoutsWhole

\* The next step of a planter keeps the payouts whole, when it leaves every other
\* payment and seller alone and says what it leaves of its own.
LEMMA PlantedPayout ==
    ASSUME PayoutsWhole, NEW a \in allocations, a.id \notin claimedAlloc,
           claimedAlloc' = claimedAlloc \cup {a.id},
           \A b \in allocations' : Row(b) /\ \E c \in allocations : b.id = c.id,
           \A t \in transfers' : Movement(t),
           \A b \in allocations : b.id # a.id => Moved(b)' = Moved(b),
           Moved(a)' # {} => Processed(a)' # {}
    PROVE  PayoutsWhole'
<1>1. ASSUME NEW b \in allocations'
      PROVE  /\ Moved(b)' # {} => Processed(b)' # {}
             /\ b.id \notin claimedAlloc' => Moved(b)' = Processed(b)'
  <2>1. PICK c \in allocations : b.id = c.id
    OBVIOUS
  <2>2. Row(b) /\ Row(c) /\ Row(a)
    BY DEF PayoutsWhole
  <2>3. b.payment = c.payment /\ b.seller = c.seller
    BY <2>1, <2>2, IdNamesPayout, Zenon
  <2>4. Moved(b)' = Moved(c)' /\ Processed(b)' = Processed(c)'
    BY <2>3 DEF Moved, Processed
  <2>5. CASE c.id = a.id
    <3>1. c.payment = a.payment /\ c.seller = a.seller
      BY <2>2, <2>5, IdNamesPayout, Zenon
    <3>2. Moved(c)' = Moved(a)' /\ Processed(c)' = Processed(a)'
      BY <3>1 DEF Moved, Processed
    <3> QED
      BY <2>1, <2>4, <2>5, <3>2
  <2>6. CASE c.id # a.id
    <3>1. Moved(c)' = Moved(c) /\ Processed(c)' = Processed(c)
      BY <2>6 DEF Processed
    <3> QED
      BY <2>1, <2>4, <2>6, <3>1 DEF PayoutsWhole
  <2> QED
    BY <2>5, <2>6
<1> QED
  BY <1>1 DEF PayoutsWhole

LEMMA PayoutInitEstablishes == BatchInit => PayoutInv
<1> SUFFICES ASSUME BatchInit PROVE PayoutInv
  OBVIOUS
<1>1. /\ allocations = {Allocation(t[1], t[2], t[3], t[4]) : t \in Allotments}
      /\ transfers = {Transfer(a, 1, Net(a), "PROCESSED") :
                         a \in {b \in allocations : b.status = "SETTLED"}}
      /\ results = {}
  BY DEF BatchInit, PayoutInit, Split
<1>2. \A a \in allocations : Row(a)
  BY <1>1 DEF Allocation, Row
<1>3. \A t \in transfers : Movement(t) /\ t.status = "PROCESSED"
  BY <1>1 DEF Transfer, Movement
<1>4. PayoutsWhole
  BY <1>2, <1>3 DEF PayoutsWhole, Moved, Processed
<1> QED
  BY <1>1, <1>4 DEF PayoutInv, RunIsLast, MissingMeansNoTransfer

\* Transfers of one payment and seller are exchanged for others of theirs.
LEMMA OthersKeepTransfers ==
    ASSUME PayoutsWhole, NEW a \in allocations, NEW gone, NEW new,
           transfers' = (transfers \ gone) \cup new,
           \A t \in gone \cup new : t.payment = a.payment /\ t.seller = a.seller
    PROVE  \A b \in allocations : b.id # a.id => Moved(b)' = Moved(b)
<1> SUFFICES ASSUME NEW b \in allocations, b.id # a.id PROVE Moved(b)' = Moved(b)
  OBVIOUS
<1>1. Row(a) /\ Row(b)
  BY DEF PayoutsWhole
<1>2. ~(b.payment = a.payment /\ b.seller = a.seller)
  BY <1>1, IdNamesPayout, Zenon
<1> QED
  BY <1>2 DEF Moved

LEMMA ShortKeepsPayout ==
    ASSUME NEW t, Movement(t), NEW short
    PROVE  /\ Movement(Short(t, short))
           /\ Short(t, short).payment = t.payment /\ Short(t, short).seller = t.seller
           /\ Short(t, short).status = t.status
  BY DEF Movement, Short

LEMMA PhantomPayoutGapKeeps ==
    ASSUME PayoutsWhole, NEW a \in SettledAllocs, PhantomPayoutGap(a)
    PROVE  PayoutsWhole'
<1>1. PICK t, short :
          /\ t \in Processed(a)
          /\ transfers' = (transfers \ {t}) \cup {Short(t, short)}
          /\ claimedAlloc' = claimedAlloc \cup {a.id} /\ allocations' = allocations
  BY DEF PhantomPayoutGap, Plant, Instead
<1>2. a \in allocations /\ a.id \notin claimedAlloc
  BY DEF SettledAllocs
<1>3. t \in transfers /\ t.payment = a.payment /\ t.seller = a.seller /\ t.status = "PROCESSED"
  BY <1>1 DEF Processed, Moved
<1> DEFINE left == Short(t, short)
<1>4. /\ Movement(left) /\ left.status = "PROCESSED"
      /\ left.payment = a.payment /\ left.seller = a.seller
  BY <1>3, ShortKeepsPayout DEF PayoutsWhole
<1> HIDE DEF left
<1>5. transfers' = (transfers \ {t}) \cup {left}
  BY <1>1 DEF left
<1>6. \A b \in allocations : b.id # a.id => Moved(b)' = Moved(b)
  <2> DEFINE gone == {t}
             new == {left}
  <2>1. transfers' = (transfers \ gone) \cup new
    BY <1>5
  <2>2. \A x \in gone \cup new : x.payment = a.payment /\ x.seller = a.seller
    BY <1>3, <1>4
  <2> HIDE DEF gone, new
  <2> QED
    BY <1>2, <2>1, <2>2, OthersKeepTransfers
<1>7. Processed(a)' # {}
  BY <1>4, <1>5 DEF Processed, Moved
<1>8. \A x \in transfers' : Movement(x)
  BY <1>4, <1>5 DEF PayoutsWhole
<1>9. \A b \in allocations' : Row(b) /\ \E c \in allocations : b.id = c.id
  BY <1>1 DEF PayoutsWhole
<1> QED
  BY <1>1, <1>2, <1>6, <1>7, <1>8, <1>9, PlantedPayout

LEMMA AllocDivergesKeeps ==
    ASSUME PayoutsWhole, NEW a \in SettledAllocs, AllocDiverges(a)
    PROVE  PayoutsWhole'
<1>1. PICK t, short :
          /\ t \in Processed(a)
          /\ transfers' = (transfers \ {t}) \cup {Short(t, short), Transfer(a, 2, short, "REVERSED")}
          /\ claimedAlloc' = claimedAlloc \cup {a.id} /\ allocations' = allocations
  BY DEF AllocDiverges, Plant, Diverged, Instead
<1>2. a \in allocations /\ a.id \notin claimedAlloc
  BY DEF SettledAllocs
<1>3. t \in transfers /\ t.payment = a.payment /\ t.seller = a.seller /\ t.status = "PROCESSED"
  BY <1>1 DEF Processed, Moved
<1> DEFINE left == Short(t, short)
           back == Transfer(a, 2, short, "REVERSED")
<1>4. /\ Movement(left) /\ left.status = "PROCESSED"
      /\ left.payment = a.payment /\ left.seller = a.seller
  BY <1>3, ShortKeepsPayout DEF PayoutsWhole
<1>5. Movement(back) /\ back.payment = a.payment /\ back.seller = a.seller
  BY DEF Movement, Transfer
<1> HIDE DEF left, back
<1>6. transfers' = (transfers \ {t}) \cup {left, back}
  BY <1>1 DEF left, back
<1>7. \A b \in allocations : b.id # a.id => Moved(b)' = Moved(b)
  <2> DEFINE new == {left, back}
  <2>1. \A x \in {t} \cup new : x.payment = a.payment /\ x.seller = a.seller
    BY <1>3, <1>4, <1>5
  <2> QED
    BY <1>2, <1>6, <2>1, OthersKeepTransfers
<1>8. Processed(a)' # {}
  BY <1>4, <1>6 DEF Processed, Moved
<1>9. \A x \in transfers' : Movement(x)
  BY <1>4, <1>5, <1>6 DEF PayoutsWhole
<1>10. \A b \in allocations' : Row(b) /\ \E c \in allocations : b.id = c.id
  BY <1>1 DEF PayoutsWhole
<1> QED
  BY <1>1, <1>2, <1>7, <1>8, <1>9, <1>10, PlantedPayout

\* The transfer taken was one of those that went through, like all the others: none
\* that did not is left behind.
LEMMA TransferMissingKeeps ==
    ASSUME PayoutsWhole, NEW a \in SettledAllocs, TransferMissing(a)
    PROVE  PayoutsWhole'
<1>1. PICK t \in Processed(a) :
          /\ transfers' = transfers \ {t}
          /\ claimedAlloc' = claimedAlloc \cup {a.id} /\ allocations' = allocations
  BY DEF TransferMissing, Plant
<1>2. a \in allocations /\ a.id \notin claimedAlloc
  BY DEF SettledAllocs
<1>3. t.payment = a.payment /\ t.seller = a.seller
  BY DEF Processed, Moved
<1>4. \A b \in allocations : b.id # a.id => Moved(b)' = Moved(b)
  <2> DEFINE gone == {t}
             new == {}
  <2>1. transfers' = (transfers \ gone) \cup new
    BY <1>1
  <2>2. \A x \in gone \cup new : x.payment = a.payment /\ x.seller = a.seller
    BY <1>3
  <2> HIDE DEF gone, new
  <2> QED
    BY <1>2, <2>1, <2>2, OthersKeepTransfers
<1>5. Moved(a)' = Processed(a)'
  <2>1. Moved(a) = Processed(a)
    BY <1>2 DEF PayoutsWhole
  <2> QED
    BY <1>1, <2>1 DEF Processed, Moved
<1>6. \A x \in transfers' : Movement(x)
  BY <1>1 DEF PayoutsWhole
<1>7. \A b \in allocations' : Row(b) /\ \E c \in allocations : b.id = c.id
  BY <1>1 DEF PayoutsWhole
<1> QED
  BY <1>1, <1>2, <1>4, <1>5, <1>6, <1>7, PlantedPayout

LEMMA GrownRow ==
    ASSUME NEW a, Row(a), NEW gross, NEW commission
    PROVE  LET grown == [a EXCEPT !.gross = gross, !.commission = commission]
           IN  Row(grown) /\ grown.id = a.id
<1>1. PICK p, seller, g, c, status :
          a = [id |-> <<"A", p, seller>>, payment |-> p, seller |-> seller,
               gross |-> g, commission |-> c, status |-> status]
  BY Zenon DEF Row
<1>2. PICK wider : wider = [a EXCEPT !.gross = gross]
  OBVIOUS
<1>3. PICK grown : grown = [wider EXCEPT !.commission = commission]
  OBVIOUS
<1>4. wider = [id |-> <<"A", p, seller>>, payment |-> p, seller |-> seller,
               gross |-> gross, commission |-> c, status |-> status]
  BY <1>1, <1>2
<1>5. grown = [id |-> <<"A", p, seller>>, payment |-> p, seller |-> seller,
               gross |-> gross, commission |-> commission, status |-> status]
  BY <1>3, <1>4
<1>6. [a EXCEPT !.gross = gross, !.commission = commission] = grown
  BY <1>1, <1>2, <1>3
<1>7. Row(grown) /\ grown.id = a.id
  BY <1>1, <1>5 DEF Row
<1> QED
  BY <1>6, <1>7

LEMMA AllocExceedsKeeps ==
    ASSUME PayoutsWhole, NEW a \in SettledAllocs, AllocExceeds(a)
    PROVE  PayoutsWhole'
<1>1. /\ transfers' = Follow(a) /\ claimedAlloc' = claimedAlloc \cup {a.id}
      /\ allocations' = (allocations \ {a}) \cup {Grown(a)}
  BY DEF AllocExceeds, Plant, Instead
<1>2. a \in allocations /\ a.id \notin claimedAlloc
  BY DEF SettledAllocs
<1> DEFINE Paid(t) == [t EXCEPT !.amount = Net(Grown(a))]
           new == {Paid(t) : t \in Processed(a)}
<1>3. ASSUME NEW t \in Processed(a)
      PROVE  /\ Movement(Paid(t)) /\ Paid(t).status = "PROCESSED"
             /\ Paid(t).payment = a.payment /\ Paid(t).seller = a.seller
  <2>1. /\ t \in transfers /\ t.payment = a.payment /\ t.seller = a.seller
        /\ t.status = "PROCESSED"
    BY DEF Processed, Moved
  <2>2. Movement(t)
    BY <2>1 DEF PayoutsWhole
  <2> QED
    BY <2>1, <2>2 DEF Movement
<1>4. transfers' = (transfers \ Processed(a)) \cup new
  <2>1. Processed(a) \subseteq transfers
    BY DEF Processed, Moved
  <2>2. transfers' = {IF t \in Processed(a) THEN Paid(t) ELSE t : t \in transfers}
    BY <1>1 DEF Follow
  <2> HIDE DEF Paid
  <2> QED
    BY <2>1, <2>2
<1> HIDE DEF Paid
<1>5. \A t \in new : /\ Movement(t) /\ t.status = "PROCESSED"
                     /\ t.payment = a.payment /\ t.seller = a.seller
  BY <1>3
<1> HIDE DEF new
<1>6. \A b \in allocations : b.id # a.id => Moved(b)' = Moved(b)
  <2>1. \A t \in Processed(a) \cup new : t.payment = a.payment /\ t.seller = a.seller
    BY <1>5 DEF Processed, Moved
  <2> QED
    BY <1>2, <1>4, <2>1, OthersKeepTransfers
<1>7. Moved(a)' = Processed(a)'
  <2>1. Moved(a) = Processed(a)
    BY <1>2 DEF PayoutsWhole
  <2>2. \A t \in transfers' : t.payment = a.payment /\ t.seller = a.seller => t \in new
    BY <1>4, <2>1 DEF Moved
  <2> QED
    BY <1>5, <2>2 DEF Processed, Moved
<1>8. \A x \in transfers' : Movement(x)
  BY <1>4, <1>5 DEF PayoutsWhole
<1>9. \A b \in allocations' : Row(b) /\ \E c \in allocations : b.id = c.id
  <2>1. Row(a)
    BY <1>2 DEF PayoutsWhole
  <2>2. Row(Grown(a)) /\ Grown(a).id = a.id
    BY <2>1, GrownRow DEF Grown
  <2> QED
    BY <1>1, <1>2, <2>2 DEF PayoutsWhole
<1> QED
  BY <1>1, <1>2, <1>6, <1>7, <1>8, <1>9, PlantedPayout

LEMMA PayoutStepKeeps ==
    ASSUME PayoutsWhole, PayoutNext
    PROVE  PayoutsWhole'
<1>1. PICK a \in SettledAllocs :
          AllocExceeds(a) \/ AllocDiverges(a) \/ TransferMissing(a) \/ PhantomPayoutGap(a)
  BY DEF PayoutNext
<1> QED
  BY <1>1, AllocExceedsKeeps, AllocDivergesKeeps, TransferMissingKeeps, PhantomPayoutGapKeeps

LEMMA PlanPositions ==
    /\ Position("PERSIST") = 21 /\ Position("BUILD_LEDGER") = 17
    /\ \A k \in DOMAIN Plan : k \in 1 .. 21
  BY DEF Position, Plan

\* No planter has a turn once the batch is stored.
LEMMA StoredIsFinal ==
    ASSUME Done, NEW type, Turn(type), \E k \in DOMAIN Plan : Plan[k][1] = type
    PROVE  FALSE
<1>1. Position(type) \in DOMAIN Plan
  BY DEF Position
<1> QED
  BY <1>1, PlanPositions DEF Done, Turn

LEMMA PayoutBeforeRun ==
    ASSUME PayoutNext
    PROVE  ~ Done
<1>1. PICK type \in {"D4_ALLOC_EXCEEDS_PAYMENT", "D4_ALLOC_TRANSFER_DIVERGENCE",
                     "D4_TRANSFER_MISSING", "UNRESOLVABLE_PHANTOM_PAYOUT_GAP"} : Turn(type)
  <2>1. PICK a : AllocExceeds(a) \/ AllocDiverges(a) \/ TransferMissing(a) \/ PhantomPayoutGap(a)
    BY DEF PayoutNext
  <2>2. \A type, row : Plant(type, a, row) => Turn(type)
    BY DEF Plant
  <2>3. CASE AllocExceeds(a)
    BY <2>2, <2>3 DEF AllocExceeds
  <2>4. CASE AllocDiverges(a)
    <3>1. Turn("D4_ALLOC_TRANSFER_DIVERGENCE")
      BY <2>4 DEF AllocDiverges, Plant
    <3> QED
      BY <3>1
  <2>5. CASE TransferMissing(a)
    BY <2>2, <2>5 DEF TransferMissing
  <2>6. CASE PhantomPayoutGap(a)
    <3>1. Turn("UNRESOLVABLE_PHANTOM_PAYOUT_GAP")
      BY <2>6 DEF PhantomPayoutGap, Plant
    <3> QED
      BY <3>1
  <2> QED
    BY <2>1, <2>3, <2>4, <2>5, <2>6
<1>2. \E k \in DOMAIN Plan : Plan[k][1] = type
  BY DEF Plan
<1> QED
  BY <1>1, <1>2, StoredIsFinal

LEMMA BookBeforeRun ==
    ASSUME BookNext
    PROVE  ~ Done
<1>1. CASE BuildLedger
  BY <1>1, PlanPositions DEF BuildLedger, Done
<1>2. CASE Persist
  BY <1>2, PlanPositions DEF Persist, Done
<1>3. CASE ~ BuildLedger /\ ~ Persist
  <2> DEFINE types == {"D1_FEE_RATE_DRIFT", "D1_TAX_AGGREGATE_ROUNDING",
                       "D1_REFUND_NOT_DEDUCTED", "D1_REFUND_PARTIAL_MULTI",
                       "D1_REFUND_OUTSIDE_PERIOD", "D1_HEADER_ROLLUP_MISMATCH",
                       "D1_ADJUSTMENT_APPLIED", "D1_FEE_CORRECTED_BY_ADJUSTMENT",
                       "D2_BANK_LINE", "D2_SAME_AMOUNT_SAME_DAY",
                       "UNRESOLVABLE_PHANTOM_DEBIT", "UNRESOLVABLE_AMBIGUOUS_CREDIT",
                       "D3_DUPLICATE_LEDGER", "D3_MISSING_LEDGER", "D3_WRONG_ACCOUNT"}
  <2>1. \A type \in types : \E k \in DOMAIN Plan : Plan[k][1] = type
    BY DEF Plan
  <2>2. \E type \in types : Turn(type)
    <3>1. PICK s \in Settlement :
        \/ FeeRateDrift(s) \/ TaxAggregateRounding(s) \/ RefundNotDeducted(s)
        \/ RefundPartialMulti(s) \/ RefundOutsideWindow(s) \/ HeaderRollupMismatch(s)
        \/ AdjustmentApplied(s) \/ FeeCorrectedByAdjustment(s) \/ PhantomDebit(s)
        \/ BankLine(s, "D2_BANK_LINE") \/ BankLine(s, "UNRESOLVABLE_AMBIGUOUS_CREDIT")
        \/ DuplicateLedger(s) \/ MissingLedger(s) \/ WrongAccount(s)
        \/ \E x \in Settlement : RefundOutsidePeriod(s, x) \/ SameAmountSameDay(s, x)
      BY <1>3 DEF BookNext
    <3>2. CASE FeeRateDrift(s) \/ TaxAggregateRounding(s) \/ RefundNotDeducted(s)
      BY <3>2 DEF FeeRateDrift, TaxAggregateRounding, RefundNotDeducted
    <3>3. CASE RefundPartialMulti(s)
      BY <3>3 DEF RefundPartialMulti
    <3>8. CASE RefundOutsideWindow(s)
      BY <3>8 DEF RefundOutsideWindow
    <3>9. CASE HeaderRollupMismatch(s)
      BY <3>9 DEF HeaderRollupMismatch
    <3>4. CASE AdjustmentApplied(s) \/ FeeCorrectedByAdjustment(s) \/ PhantomDebit(s)
      BY <3>4 DEF AdjustmentApplied, FeeCorrectedByAdjustment, PhantomDebit
    <3>5. CASE BankLine(s, "D2_BANK_LINE") \/ BankLine(s, "UNRESOLVABLE_AMBIGUOUS_CREDIT")
      BY <3>5 DEF BankLine
    <3>6. CASE DuplicateLedger(s) \/ MissingLedger(s) \/ WrongAccount(s)
      BY <3>6 DEF DuplicateLedger, MissingLedger, WrongAccount
    <3>7. CASE \E x \in Settlement : RefundOutsidePeriod(s, x)
      BY <3>7 DEF RefundOutsidePeriod
    <3>10. CASE \E x \in Settlement : SameAmountSameDay(s, x)
      <4>1. Turn("D2_SAME_AMOUNT_SAME_DAY")
        BY <3>10 DEF SameAmountSameDay
      <4> QED
        BY <4>1
    <3> QED
      BY <3>1, <3>2, <3>3, <3>4, <3>5, <3>6, <3>7, <3>8, <3>9, <3>10
  <2> HIDE DEF types
  <2> QED
    BY <2>1, <2>2, StoredIsFinal
<1> QED
  BY <1>1, <1>2, <1>3

\* The run reads whole payouts, and takes a payout for one without a transfer only if
\* the allocation has none, on whichever row of its payment and seller.
LEMMA ReconcileTellsTheTruth ==
    ASSUME PayoutsWhole, Reconcile
    PROVE  MissingMeansNoTransfer'
<1>1. results' = Diagnoses /\ UNCHANGED <<allocations, transfers>>
  BY DEF Reconcile, payoutVars
<1>2. ASSUME NEW r \in Diagnoses, NEW a \in allocations,
             r.subject = a.id, r.is.label = "TRANSFER_MISSING"
      PROVE  Moved(a) = {}
  <2>1. Row(a) /\ a.id = <<"A", a.payment, a.seller>>
    BY DEF PayoutsWhole, Row
  <2>2. PICK p \in Payouts : r.subject = p.subject /\ r.is = p.is
    <3>1. r \notin {Result(s, kind, NoSubject, Diagnose(kind, s)) :
                      s \in Settlement, kind \in {"D1_COMPUTE", "D3_LEDGER"}}
      <4>1. \A s, kind, d : Result(s, kind, NoSubject, d).subject = <<>>
        BY DEF Result, NoSubject
      <4>2. a.id # <<>>
        BY <2>1
      <4> QED
        BY <1>2, <4>1, <4>2
    <3>2. PICK p \in Payouts :
              r = Result(payments[p.payment].settlement, "D4_PAYOUT", p.subject, p.is)
      BY <3>1 DEF Diagnoses
    <3>3. r.subject = p.subject /\ r.is = p.is
      BY <3>2 DEF Result
    <3> QED
      BY <3>3
  <2>3. \A x : <<x>> # a.id
    BY <2>1
  <2>4. PICK b \in allocations : p.subject = b.id /\ p.is = DiagnosePayout(b)
    <3>1. ASSUME NEW x \in Overpromised,
                 p = [subject |-> <<x>>, payment |-> x, is |-> DiagnoseExcess(x)]
          PROVE  FALSE
      BY <1>2, <2>2, <2>3, <3>1
    <3> QED
      BY <3>1 DEF Payouts
  <2>5. Moved(b) = {}
    BY <1>2, <2>2, <2>4, DiagnosedMissing
  <2>6. a.payment = b.payment /\ a.seller = b.seller
    BY <1>2, <2>1, <2>2, <2>4, IdNamesPayout DEF PayoutsWhole
  <2> QED
    BY <2>5, <2>6 DEF Moved
<1> QED
  BY <1>1, <1>2 DEF MissingMeansNoTransfer, Moved

LEMMA PayoutStep == PayoutInv /\ [Next]_vars => PayoutInv'
<1> SUFFICES ASSUME PayoutInv, [Next]_vars PROVE PayoutInv'
  OBVIOUS
<1> USE DEF PayoutInv
<1>1. CASE UNCHANGED vars
  BY <1>1 DEF vars, bookVars, payoutVars, PayoutsWhole, RunIsLast, MissingMeansNoTransfer,
     Moved, Processed, Done
<1>2. CASE BookNext /\ UNCHANGED <<payoutVars, results>>
  <2>1. results = {}
    BY <1>2, BookBeforeRun DEF RunIsLast
  <2> QED
    BY <1>2, <2>1 DEF payoutVars, PayoutsWhole, RunIsLast, MissingMeansNoTransfer,
       Moved, Processed
<1>3. CASE PayoutNext /\ UNCHANGED results
  <2>1. results = {}
    BY <1>3, PayoutBeforeRun DEF RunIsLast
  <2> QED
    BY <1>3, <2>1, PayoutStepKeeps DEF RunIsLast, MissingMeansNoTransfer
<1>4. CASE Reconcile
  <2>1. PayoutsWhole'
    BY <1>4 DEF Reconcile, payoutVars, PayoutsWhole, Moved, Processed
  <2>2. RunIsLast'
    BY <1>4 DEF Reconcile, bookVars, RunIsLast, Done
  <2> QED
    BY <1>4, <2>1, <2>2, ReconcileTellsTheTruth
<1> QED
  BY <1>1, <1>2, <1>3, <1>4 DEF Next

\* TRANSFER_MISSING is said of a payout only when no transfer row of its payment and
\* seller exists at all, whatever its status, though the rule asks for processed ones
\* only (engine/attribution.py:339).
THEOREM MissingIsMissing == Spec => []MissingMeansNoTransfer
<1>1. PayoutInv => MissingMeansNoTransfer
  BY DEF PayoutInv
<1> QED
  BY <1>1, PayoutInitEstablishes, PayoutStep, PTL DEF Spec
-----------------------------------------------------------------------------
(***************************************************************************)
(* The engine on a settlement that nobody broke.  The sums over a column   *)
(* are sums of a function over the rows.                                   *)
(***************************************************************************)

LEMMA AmountSumIsSum ==
    ASSUME NEW f, NEW S, IsFiniteSet(S), \A x \in S : f[x] = x.amount
    PROVE  AmountSum(S) = SumFunctionOnSet(f, S)
<1> DEFINE Body(h) == [T \in SUBSET S |-> IF T = {} THEN 0
                                          ELSE Pick(T).amount + h[T \ {Pick(T)}]]
           g == CHOOSE h : h = Body(h)
<1>1. ASSUME NEW h PROVE h = Body(h) <=> Computes(h, f, SUBSET S)
  <2>1. \A T \in SUBSET S : T # {} => f[Pick(T)] = Pick(T).amount
    BY PickMember
  <2>2. Body(h) = [T \in SUBSET S |-> IF T = {} THEN 0 ELSE f[Pick(T)] + h[T \ {Pick(T)}]]
    BY <2>1
  <2> QED
    BY <2>2 DEF Computes
<1>2. \E h : h = Body(h)
  BY <1>1, ComputesExists
<1>3. g = Body(g)
  BY <1>2
<1>4. Computes(g, f, SUBSET S)
  BY <1>1, <1>3
<1>5. AmountSum(S) = g[S]
  BY DEF AmountSum, MapThenSumSet, MapThenFoldSet, Pick
<1> HIDE DEF g
<1>6. Sums(g, f, S)
  BY <1>4, ComputesSum
<1> QED
  BY <1>5, <1>6 DEF Sums

LEMMA FeeSumIsSum ==
    ASSUME NEW f, NEW S, IsFiniteSet(S), \A x \in S : f[x] = x.fee
    PROVE  FeeSum(S) = SumFunctionOnSet(f, S)
<1> DEFINE Body(h) == [T \in SUBSET S |-> IF T = {} THEN 0
                                          ELSE Pick(T).fee + h[T \ {Pick(T)}]]
           g == CHOOSE h : h = Body(h)
<1>1. ASSUME NEW h PROVE h = Body(h) <=> Computes(h, f, SUBSET S)
  <2>1. \A T \in SUBSET S : T # {} => f[Pick(T)] = Pick(T).fee
    BY PickMember
  <2>2. Body(h) = [T \in SUBSET S |-> IF T = {} THEN 0 ELSE f[Pick(T)] + h[T \ {Pick(T)}]]
    BY <2>1
  <2> QED
    BY <2>2 DEF Computes
<1>2. \E h : h = Body(h)
  BY <1>1, ComputesExists
<1>3. g = Body(g)
  BY <1>2
<1>4. Computes(g, f, SUBSET S)
  BY <1>1, <1>3
<1>5. FeeSum(S) = g[S]
  BY DEF FeeSum, MapThenSumSet, MapThenFoldSet, Pick
<1> HIDE DEF g
<1>6. Sums(g, f, S)
  BY <1>4, ComputesSum
<1> QED
  BY <1>5, <1>6 DEF Sums

LEMMA TaxSumIsSum ==
    ASSUME NEW f, NEW S, IsFiniteSet(S), \A x \in S : f[x] = x.tax
    PROVE  TaxSum(S) = SumFunctionOnSet(f, S)
<1> DEFINE Body(h) == [T \in SUBSET S |-> IF T = {} THEN 0
                                          ELSE Pick(T).tax + h[T \ {Pick(T)}]]
           g == CHOOSE h : h = Body(h)
<1>1. ASSUME NEW h PROVE h = Body(h) <=> Computes(h, f, SUBSET S)
  <2>1. \A T \in SUBSET S : T # {} => f[Pick(T)] = Pick(T).tax
    BY PickMember
  <2>2. Body(h) = [T \in SUBSET S |-> IF T = {} THEN 0 ELSE f[Pick(T)] + h[T \ {Pick(T)}]]
    BY <2>1
  <2> QED
    BY <2>2 DEF Computes
<1>2. \E h : h = Body(h)
  BY <1>1, ComputesExists
<1>3. g = Body(g)
  BY <1>2
<1>4. Computes(g, f, SUBSET S)
  BY <1>1, <1>3
<1>5. TaxSum(S) = g[S]
  BY DEF TaxSum, MapThenSumSet, MapThenFoldSet, Pick
<1> HIDE DEF g
<1>6. Sums(g, f, S)
  BY <1>4, ComputesSum
<1> QED
  BY <1>5, <1>6 DEF Sums

LEMMA PolicyFeeIsSum ==
    ASSUME NEW f, NEW S, IsFiniteSet(S), \A x \in S : f[x] = PolicyFee(x.ref[1])
    PROVE  MapThenSumSet(LAMBDA i : PolicyFee(i.ref[1]), S) = SumFunctionOnSet(f, S)
<1> DEFINE Body(h) == [T \in SUBSET S |-> IF T = {} THEN 0
                                          ELSE PolicyFee(Pick(T).ref[1]) + h[T \ {Pick(T)}]]
           g == CHOOSE h : h = Body(h)
<1>1. ASSUME NEW h PROVE h = Body(h) <=> Computes(h, f, SUBSET S)
  <2>1. \A T \in SUBSET S : T # {} => f[Pick(T)] = PolicyFee(Pick(T).ref[1])
    BY PickMember
  <2>2. Body(h) = [T \in SUBSET S |-> IF T = {} THEN 0 ELSE f[Pick(T)] + h[T \ {Pick(T)}]]
    BY <2>1
  <2> QED
    BY <2>2 DEF Computes
<1>2. \E h : h = Body(h)
  BY <1>1, ComputesExists
<1>3. g = Body(g)
  BY <1>2
<1>4. Computes(g, f, SUBSET S)
  BY <1>1, <1>3
<1>5. MapThenSumSet(LAMBDA i : PolicyFee(i.ref[1]), S) = g[S]
  BY DEF MapThenSumSet, MapThenFoldSet, Pick
<1> HIDE DEF g
<1>6. Sums(g, f, S)
  BY <1>4, ComputesSum
<1> QED
  BY <1>5, <1>6 DEF Sums

LEMMA PolicyTaxIsSum ==
    ASSUME NEW f, NEW S, IsFiniteSet(S), \A x \in S : f[x] = PolicyTax(x.ref[1])
    PROVE  MapThenSumSet(LAMBDA i : PolicyTax(i.ref[1]), S) = SumFunctionOnSet(f, S)
<1> DEFINE Body(h) == [T \in SUBSET S |-> IF T = {} THEN 0
                                          ELSE PolicyTax(Pick(T).ref[1]) + h[T \ {Pick(T)}]]
           g == CHOOSE h : h = Body(h)
<1>1. ASSUME NEW h PROVE h = Body(h) <=> Computes(h, f, SUBSET S)
  <2>1. \A T \in SUBSET S : T # {} => f[Pick(T)] = PolicyTax(Pick(T).ref[1])
    BY PickMember
  <2>2. Body(h) = [T \in SUBSET S |-> IF T = {} THEN 0 ELSE f[Pick(T)] + h[T \ {Pick(T)}]]
    BY <2>1
  <2> QED
    BY <2>2 DEF Computes
<1>2. \E h : h = Body(h)
  BY <1>1, ComputesExists
<1>3. g = Body(g)
  BY <1>2
<1>4. Computes(g, f, SUBSET S)
  BY <1>1, <1>3
<1>5. MapThenSumSet(LAMBDA i : PolicyTax(i.ref[1]), S) = g[S]
  BY DEF MapThenSumSet, MapThenFoldSet, Pick
<1> HIDE DEF g
<1>6. Sums(g, f, S)
  BY <1>4, ComputesSum
<1> QED
  BY <1>5, <1>6 DEF Sums

\* A row of settlement_items: a payment's names a payment, the others are free.
IsItem(i) ==
    /\ "settlement" \in DOMAIN i
    /\ i = Item(i.settlement, i.type, i.ref, i.amount, i.fee, i.tax)
    /\ i.amount \in Int /\ i.fee \in Int /\ i.tax \in Int
    /\ \/ i.type = "PAYMENT" /\ \E p \in DOMAIN payments : i.ref = <<p>>
       \/ i.type \in {"REFUND", "ADJUSTMENT"} /\ i.fee = 0 /\ i.tax = 0

PaymentsTyped ==
    \A p \in DOMAIN payments : payments[p].amount \in Int /\ payments[p].method \in DOMAIN MdrBps
IsRefund(r) == r.amount \in Int /\ r.id = <<"R", r.payment, r.id[3]>>
RefundsTyped ==
    /\ IsFiniteSet(refunds) /\ \A r \in refunds : IsRefund(r)
    /\ \A q, r \in refunds : q.id = r.id => q = r
ItemsTyped == IsFiniteSet(items) /\ \A i \in items : IsItem(i)
TaxTyped == \A s \in Settlement : header[s].tax \in Int
Typed == PaymentsTyped /\ RefundsTyped /\ ItemsTyped /\ TaxTyped

\* What makes delta 1 of a settlement zero, next to a header that its items add up to.
Clean(s) ==
    /\ \A i \in PaymentItems(s) : FeeGap(i) = 0 /\ TaxGap(i) = 0
    /\ OfType(ItemsIn(items, s), "REFUND") = {RefundItem(s, r) : r \in InPeriodRefunds(s)}
    /\ UnitemisedAdjustments(s) = {}

LEMMA BpsWhole == \A paise \in Int, rate \in Nat : Bps(paise, rate) \in Int
  BY BpsRounds

LEMMA PolicyIsWhole ==
    ASSUME PaymentsTyped, NEW p \in DOMAIN payments
    PROVE  PolicyFee(p) \in Int /\ PolicyTax(p) \in Int
<1>1. payments[p].amount \in Int /\ MdrBps[payments[p].method] \in Nat /\ GstBps \in Nat
  BY BooksAssumption DEF PaymentsTyped
<1>2. PolicyFee(p) \in Int
  BY <1>1, BpsWhole DEF PolicyFee
<1> QED
  BY <1>1, <1>2, BpsWhole DEF PolicyTax

\* Rows whose columns are whole numbers.
Rows(S) == IsFiniteSet(S) /\ \A i \in S : i.amount \in Int /\ i.fee \in Int /\ i.tax \in Int

LEMMA TypedRows == ItemsTyped => \A S \in SUBSET items : Rows(S)
  BY FS_Subset DEF ItemsTyped, IsItem, Rows

LEMMA SumsWhole ==
    ASSUME NEW S, Rows(S)
    PROVE  IsFiniteSet(S) /\ AmountSum(S) \in Int /\ FeeSum(S) \in Int /\ TaxSum(S) \in Int
<1>1. IsFiniteSet(S) /\ \A i \in S : i.amount \in Int /\ i.fee \in Int /\ i.tax \in Int
  BY DEF Rows
<1> DEFINE amount == [i \in S |-> i.amount]
           fee    == [i \in S |-> i.fee]
           tax    == [i \in S |-> i.tax]
<1>2. AmountSum(S) \in Int
  <2>1. (\A i \in S : amount[i] = i.amount) /\ IntegerOn(amount, S)
    BY <1>1 DEF IntegerOn
  <2> HIDE DEF amount
  <2> QED
    BY <1>1, <2>1, AmountSumIsSum, SumType
<1>3. FeeSum(S) \in Int
  <2>1. (\A i \in S : fee[i] = i.fee) /\ IntegerOn(fee, S)
    BY <1>1 DEF IntegerOn
  <2> HIDE DEF fee
  <2> QED
    BY <1>1, <2>1, FeeSumIsSum, SumType
<1>4. TaxSum(S) \in Int
  <2>1. (\A i \in S : tax[i] = i.tax) /\ IntegerOn(tax, S)
    BY <1>1 DEF IntegerOn
  <2> HIDE DEF tax
  <2> QED
    BY <1>1, <2>1, TaxSumIsSum, SumType
<1> QED
  BY <1>1, <1>2, <1>3, <1>4

LEMMA PartsOfASettlement ==
    ASSUME NEW its, NEW s
    PROVE  /\ ItemsIn(its, s) \subseteq its
           /\ \A t : OfType(ItemsIn(its, s), t) \subseteq its
  BY DEF ItemsIn, OfType

Whole6(r) ==
    /\ r.gross \in Int /\ r.refund \in Int /\ r.fee \in Int /\ r.tax \in Int
    /\ r.adjustment \in Int /\ r.net = r.gross - r.refund - r.fee - r.tax + r.adjustment

LEMMA RollupWhole ==
    ASSUME NEW its, Rows(its), NEW s
    PROVE  /\ Whole6(Rollup(its, s))
           /\ Rollup(its, s).refund = -AmountSum(OfType(ItemsIn(its, s), "REFUND"))
           /\ Rollup(its, s).fee = FeeSum(ItemsIn(its, s))
           /\ Rollup(its, s).tax = TaxSum(ItemsIn(its, s))
<1>1. PICK mine, pay, ref, adj :
         mine = ItemsIn(its, s) /\ pay = OfType(mine, "PAYMENT")
         /\ ref = OfType(mine, "REFUND") /\ adj = OfType(mine, "ADJUSTMENT")
  OBVIOUS
<1>2. Rows(mine) /\ Rows(pay) /\ Rows(ref) /\ Rows(adj)
  <2>1. \A S \in SUBSET its : Rows(S)
    BY FS_Subset DEF Rows
  <2> QED
    BY <1>1, <2>1, PartsOfASettlement
<1>3. /\ FeeSum(mine) \in Int /\ TaxSum(mine) \in Int /\ AmountSum(pay) \in Int
      /\ AmountSum(ref) \in Int /\ AmountSum(adj) \in Int
  BY <1>2, SumsWhole
<1>4. Rollup(its, s) =
        [gross |-> AmountSum(pay), refund |-> -AmountSum(ref), fee |-> FeeSum(mine),
         tax |-> TaxSum(mine), adjustment |-> AmountSum(adj),
         net |-> AmountSum(pay) - (-AmountSum(ref)) - FeeSum(mine) - TaxSum(mine) + AmountSum(adj)]
  BY <1>1 DEF Rollup
<1> QED
  BY <1>1, <1>3, <1>4 DEF Whole6

\* Charges are on payments only, so without a gap the settlement is charged what policy says.
LEMMA ChargesArePolicy ==
    ASSUME ItemsTyped, PaymentsTyped, NEW s,
           \A i \in PaymentItems(s) : FeeGap(i) = 0 /\ TaxGap(i) = 0
    PROVE  /\ FeeSum(ItemsIn(items, s)) = PolicyFees(s) /\ PolicyFees(s) \in Int
           /\ TaxSum(ItemsIn(items, s)) = PolicyTaxes(s) /\ PolicyTaxes(s) \in Int
<1> DEFINE P == PaymentItems(s)
           R == ItemsIn(items, s) \ P
           fee == [i \in items |-> i.fee]
           tax == [i \in items |-> i.tax]
<1>1. P \in SUBSET items /\ R \in SUBSET items /\ P \cap R = {} /\ ItemsIn(items, s) = P \cup R
  BY DEF PaymentItems, OfType, ItemsIn
<1>2. /\ ItemsIn(items, s) \in SUBSET items
      /\ FeeSum(ItemsIn(items, s)) \in Int /\ TaxSum(ItemsIn(items, s)) \in Int
      /\ IsFiniteSet(P) /\ IsFiniteSet(R) /\ IsFiniteSet(ItemsIn(items, s))
  BY <1>1, PartsOfASettlement, TypedRows, SumsWhole
<1>3. \A i \in R : i.fee = 0 /\ i.tax = 0
  BY DEF ItemsTyped, IsItem, PaymentItems, OfType, ItemsIn
<1>4. \A i \in P : /\ i.fee \in Int /\ i.tax \in Int
                   /\ \E p \in DOMAIN payments : i.ref[1] = p
  BY DEF ItemsTyped, IsItem, PaymentItems, OfType, ItemsIn
<1>5. \A i \in P : i.fee = PolicyFee(i.ref[1]) /\ i.tax = PolicyTax(i.ref[1])
  <2> TAKE i \in P
  <2>1. PolicyFee(i.ref[1]) \in Int /\ PolicyTax(i.ref[1]) \in Int
    BY <1>4, PolicyIsWhole
  <2>2. i.fee - PolicyFee(i.ref[1]) = 0 /\ i.tax - PolicyTax(i.ref[1]) = 0
    BY DEF FeeGap, TaxGap
  <2>3. i.fee \in Int /\ i.tax \in Int
    BY <1>4
  <2> QED
    BY <2>1, <2>2, <2>3
<1> HIDE DEF P, R
<1>6. FeeSum(ItemsIn(items, s)) = PolicyFees(s)
  <2>1. /\ \A i \in items : fee[i] = i.fee
        /\ IntegerOn(fee, P) /\ IntegerOn(fee, R) /\ \A i \in R : fee[i] = 0
        /\ \A i \in P : fee[i] = PolicyFee(i.ref[1])
    BY <1>1, <1>3, <1>4, <1>5 DEF IntegerOn
  <2> HIDE DEF fee
  <2>2. FeeSum(ItemsIn(items, s)) = SumFunctionOnSet(fee, ItemsIn(items, s))
    BY <1>2, <2>1, FeeSumIsSum
  <2>3. SumFunctionOnSet(fee, P \cup R)
          = SumFunctionOnSet(fee, P) + SumFunctionOnSet(fee, R)
    BY <1>1, <1>2, <2>1, SumUnion
  <2>4. SumFunctionOnSet(fee, R) = 0
    BY <1>2, <2>1, SumZero
  <2>5. SumFunctionOnSet(fee, P) \in Int
    BY <1>2, <2>1, SumType
  <2>6. PolicyFees(s) = SumFunctionOnSet(fee, P)
    <3>1. MapThenSumSet(LAMBDA i : PolicyFee(i.ref[1]), P) = SumFunctionOnSet(fee, P)
      BY <1>2, <2>1, PolicyFeeIsSum
    <3> QED
      BY <3>1 DEF PolicyFees, P
  <2> QED
    BY <1>1, <2>2, <2>3, <2>4, <2>5, <2>6
<1>7. TaxSum(ItemsIn(items, s)) = PolicyTaxes(s)
  <2>1. /\ \A i \in items : tax[i] = i.tax
        /\ IntegerOn(tax, P) /\ IntegerOn(tax, R) /\ \A i \in R : tax[i] = 0
        /\ \A i \in P : tax[i] = PolicyTax(i.ref[1])
    BY <1>1, <1>3, <1>4, <1>5 DEF IntegerOn
  <2> HIDE DEF tax
  <2>2. TaxSum(ItemsIn(items, s)) = SumFunctionOnSet(tax, ItemsIn(items, s))
    BY <1>2, <2>1, TaxSumIsSum
  <2>3. SumFunctionOnSet(tax, P \cup R)
          = SumFunctionOnSet(tax, P) + SumFunctionOnSet(tax, R)
    BY <1>1, <1>2, <2>1, SumUnion
  <2>4. SumFunctionOnSet(tax, R) = 0
    BY <1>2, <2>1, SumZero
  <2>5. SumFunctionOnSet(tax, P) \in Int
    BY <1>2, <2>1, SumType
  <2>6. PolicyTaxes(s) = SumFunctionOnSet(tax, P)
    <3>1. MapThenSumSet(LAMBDA i : PolicyTax(i.ref[1]), P) = SumFunctionOnSet(tax, P)
      BY <1>2, <2>1, PolicyTaxIsSum
    <3> QED
      BY <3>1 DEF PolicyTaxes, P
  <2> QED
    BY <1>1, <2>2, <2>3, <2>4, <2>5, <2>6
<1> QED
  BY <1>2, <1>6, <1>7

\* An item for each of some refunds, and none else: what was deducted is what they are.
LEMMA RefundsAddUp ==
    ASSUME ItemsTyped, RefundsTyped, NEW s, NEW D \in SUBSET refunds,
           OfType(ItemsIn(items, s), "REFUND") = {RefundItem(s, r) : r \in D}
    PROVE  /\ AmountSum(D) \in Int
           /\ AmountSum(OfType(ItemsIn(items, s), "REFUND")) = -AmountSum(D)
<1> DEFINE S == OfType(ItemsIn(items, s), "REFUND")
           f == [i \in S |-> i.amount]
           g == [r \in D |-> r.amount]
           F == [r \in D |-> 0 - g[r]]
           k == [i \in S |-> CHOOSE r \in D : i.ref = r.id]
           zero == [r \in D |-> 0]
<1>1. S \in SUBSET items
  BY PartsOfASettlement
<1>2. IsFiniteSet(D) /\ IsFiniteSet(S) /\ \A i \in S : i.amount \in Int
  BY <1>1, FS_Subset DEF ItemsTyped, IsItem, RefundsTyped
<1>3. /\ \A r \in D : RefundItem(s, r).ref = r.id /\ RefundItem(s, r).amount = -r.amount
      /\ \A r \in D : r.amount \in Int
      /\ \A q, r \in D : q.id = r.id => q = r
  BY <1>1 DEF RefundItem, Item, RefundsTyped, IsRefund
<1>4. S = {RefundItem(s, r) : r \in D}
  OBVIOUS
<1> HIDE DEF S
<1>5. \A r \in D : k[RefundItem(s, r)] = r
  <2> TAKE r \in D
  <2>1. RefundItem(s, r) \in S
    BY <1>4
  <2>2. \A q \in D : RefundItem(s, r).ref = q.id <=> q = r
    BY <1>3
  <2> QED
    BY <2>1, <2>2
<1>6. /\ \A i \in S : k[i] \in D /\ RefundItem(s, k[i]) = i
      /\ \A i \in S : f[i] = i.amount
      /\ \A r \in D : F[r] = -r.amount /\ F[r] = zero[r] - g[r] /\ g[r] = r.amount
  BY <1>3, <1>4, <1>5
<1>7. IntegerOn(f, S) /\ IntegerOn(g, D) /\ IntegerOn(zero, D) /\ \A r \in D : zero[r] = 0
  BY <1>2, <1>3 DEF IntegerOn
<1> HIDE DEF f, g, F, k, zero
<1>8. \A r \in D : F[r] = SumFunctionOnSet(f, ClassOf(k, S, r))
  <2> TAKE r \in D
  <2> DEFINE i == RefundItem(s, r)
             C == {i}
  <2>1. i \in S /\ f[i] = -r.amount /\ f[i] \in Int
    BY <1>3, <1>4, <1>6
  <2>2. ClassOf(k, S, r) = C
    BY <1>4, <1>5, <1>6, <2>1 DEF ClassOf
  <2> HIDE DEF i
  <2>3. IsFiniteSet(C) /\ IntegerOn(f, C) /\ i \in C /\ C \ {i} = {}
    BY <2>1, FS_Singleton DEF IntegerOn
  <2> HIDE DEF C
  <2>4. SumFunctionOnSet(f, C) = f[i] + SumFunctionOnSet(f, C \ {i})
    BY <2>3, SumRemove
  <2>5. SumFunctionOnSet(f, {}) = 0
    BY SumEmpty
  <2>6. SumFunctionOnSet(f, C) = f[i]
    <3>1. SumFunctionOnSet(f, C \ {i}) = 0
      BY <2>3, <2>5
    <3>2. SumFunctionOnSet(f, C) = f[i] + 0
      BY <2>4, <3>1
    <3> QED
      BY <2>1, <3>2
  <2>7. F[r] = f[i]
    BY <1>6, <2>1
  <2> QED
    BY <2>2, <2>6, <2>7
<1>9. SumFunctionOnSet(F, D) = SumFunctionOnSet(f, S)
  BY <1>2, <1>6, <1>7, <1>8, SumByClass
<1>10. SumFunctionOnSet(F, D) = SumFunctionOnSet(zero, D) - SumFunctionOnSet(g, D)
  BY <1>2, <1>6, <1>7, SumDifference
<1>11. SumFunctionOnSet(zero, D) = 0 /\ SumFunctionOnSet(g, D) \in Int
  BY <1>2, <1>7, SumZero, SumType
<1>12. AmountSum(D) = SumFunctionOnSet(g, D) /\ AmountSum(S) = SumFunctionOnSet(f, S)
  BY <1>2, <1>6, AmountSumIsSum
<1>13. AmountSum(D) \in Int /\ AmountSum(S) = -AmountSum(D)
  <2>1. PICK x \in Int : x = SumFunctionOnSet(g, D)
    BY <1>11
  <2>2. AmountSum(D) = x
    BY <1>12, <2>1
  <2>3. AmountSum(S) = 0 - x
    BY <1>9, <1>10, <1>11, <1>12, <2>1
  <2> QED
    BY <2>2, <2>3
<1> QED
  BY <1>13 DEF S

\* A diagnosis that says nothing is wrong.
Silent(d) == d.delta = 0 /\ d.label = "NONE" /\ d.attributions = {}

LEMMA NoFindingIsSilent ==
    ASSUME NEW rules, NEW fallback, \A k \in DOMAIN rules : rules[k].found = {}
    PROVE  Silent(Verdict(0, rules, fallback))
<1>1. UNION {rules[k].found : k \in DOMAIN rules} = {}
  OBVIOUS
<1>2. {k \in DOMAIN rules : rules[k].found # {}} = {}
  OBVIOUS
<1>3. AmountSum({}) = 0
  <2> DEFINE f == [x \in {} |-> 0]
             S == {}
  <2>1. IsFiniteSet(S) /\ \A x \in S : f[x] = x.amount
    BY FS_EmptySet
  <2> HIDE DEF f
  <2>2. AmountSum(S) = SumFunctionOnSet(f, S)
    BY <2>1, AmountSumIsSum
  <2> QED
    BY <2>2, SumEmpty
<1> QED
  BY <1>1, <1>2, <1>3 DEF Verdict, Silent

LEMMA CleanIsSilent ==
    ASSUME Typed, NEW s \in Settlement, Clean(s), header[s] = Rollup(items, s)
    PROVE  Silent(Diagnose1(s))
<1> USE DEF Typed
<1>1. /\ FeeSum(ItemsIn(items, s)) = PolicyFees(s) /\ PolicyFees(s) \in Int
      /\ TaxSum(ItemsIn(items, s)) = PolicyTaxes(s) /\ PolicyTaxes(s) \in Int
  BY ChargesArePolicy DEF Clean
<1>2. /\ AmountSum(InPeriodRefunds(s)) \in Int
      /\ AmountSum(OfType(ItemsIn(items, s), "REFUND")) = -AmountSum(InPeriodRefunds(s))
  BY RefundsAddUp DEF Clean, InPeriodRefunds
<1>3. PICK its : its = Rollup(items, s)
  OBVIOUS
<1>4. /\ Whole6(its) /\ its.fee = PolicyFees(s) /\ its.tax = PolicyTaxes(s)
      /\ its.refund = AmountSum(InPeriodRefunds(s))
  <2>1. Rows(items)
    BY TypedRows
  <2> QED
    BY <1>1, <1>2, <1>3, <2>1, RollupWhole
<1>5. Delta1(s) = 0
  <2>1. ExpectedNet(s) = its.gross - AmountSum(InPeriodRefunds(s)) - PolicyFees(s)
                            - PolicyTaxes(s) + its.adjustment
    BY <1>3 DEF ExpectedNet
  <2>2. ExpectedNet(s) = its.net /\ its.net \in Int
    BY <1>4, <2>1 DEF Whole6
  <2> QED
    BY <1>3, <2>2 DEF Delta1
<1>6. ~ TaxIsMethodError(s)
  <2>1. Rollup(items, s).tax - PolicyTaxes(s) = 0
    BY <1>1, <1>3, <1>4
  <2> QED
    BY <2>1 DEF TaxIsMethodError
<1>7. RollupGap(s) = 0
  BY <1>3, <1>4 DEF RollupGap, Whole6
<1>8. {i \in PaymentItems(s) : FeeGap(i) # 0 \/ TaxGap(i) # 0} = {}
  BY DEF Clean
<1>9. {q \in InPeriodRefunds(s) : q.id \notin Itemised(s, "REFUND")} = {}
  <2>1. \A q : RefundItem(s, q).ref = q.id
    BY DEF RefundItem, Item
  <2> QED
    BY <2>1 DEF Clean, Itemised
<1>10. {b \in UnitemisedAdjustments(s) : ~ IsFeeCorrection(b)} = {}
  BY DEF Clean
<1>11. \A k \in DOMAIN Rules1(s) : Rules1(s)[k].found = {}
  <2> DEFINE drifted == IF TaxIsMethodError(s) THEN {}
                        ELSE {i \in PaymentItems(s) : FeeGap(i) # 0 \/ TaxGap(i) # 0}
  <2>1. drifted = {}
    BY <1>6, <1>8
  <2> QED
    BY <1>6, <1>7, <1>9, <1>10, <2>1 DEF Rules1
<1> HIDE DEF Typed
<1>12. PICK rules : rules = Rules1(s)
  OBVIOUS
<1> QED
  BY <1>5, <1>11, <1>12, NoFindingIsSilent DEF Diagnose1

-----------------------------------------------------------------------------
\* What a planter of delta 1 may touch, seen from the settlements it does not claim.

LEMMA UntouchedStaysClean ==
    ASSUME NEW x, Clean(x), UNCHANGED payments, ItemsIn(items', x) = ItemsIn(items, x),
           InPeriodRefunds(x)' = InPeriodRefunds(x),
           \A a \in adjustments' : a.settlement = x => a \in adjustments
    PROVE  Clean(x)'
<1>1. PaymentItems(x)' = PaymentItems(x)
  BY DEF PaymentItems
<1>2. \A i : FeeGap(i)' = FeeGap(i) /\ TaxGap(i)' = TaxGap(i)
  BY DEF FeeGap, TaxGap, PolicyTax, PolicyFee
<1>3. \A t : Itemised(x, t)' = Itemised(x, t)
  BY DEF Itemised
<1>4. UnitemisedAdjustments(x)' = {}
  BY <1>3 DEF Clean, UnitemisedAdjustments
<1> QED
  BY <1>1, <1>2, <1>4 DEF Clean

\* Unclaimed settlements are clean.  With the headers, which roll up, and the shapes of
\* the rows, which make the sums whole numbers, this is inductive; that the engine finds
\* nothing is not, for a planter counts on the rows, not on the diagnosis.
CleanOthers == \A x \in Settlement \ claimed : Clean(x)
CleanInv == IInv /\ Typed /\ CleanOthers

\* New refunds of one payment that had none, each under a number of its own.
NewRefunds(p, new) ==
    /\ RefundsOf(p) = {} /\ IsFiniteSet(new)
    /\ \A r \in new : IsRefund(r) /\ r.payment = p
    /\ \A q, r \in new : q.id = r.id => q = r
    /\ refunds' = refunds \cup new

LEMMA RefundsStayTyped ==
    ASSUME RefundsTyped, NEW p, NEW new, NewRefunds(p, new)
    PROVE  RefundsTyped'
<1>1. IsFiniteSet(refunds')
  BY FS_Union DEF RefundsTyped, NewRefunds
<1>2. \A r \in refunds' : IsRefund(r)'
  BY DEF RefundsTyped, NewRefunds, IsRefund
<1>3. ASSUME NEW q \in refunds, NEW r \in new PROVE q.id # r.id
  <2>1. q.payment # p /\ r.payment = p
    BY DEF NewRefunds, RefundsOf
  <2>2. q.id = <<"R", q.payment, q.id[3]>>
    BY DEF RefundsTyped, IsRefund
  <2>3. r.id = <<"R", r.payment, r.id[3]>>
    BY DEF NewRefunds, IsRefund
  <2> QED
    BY <2>1, <2>2, <2>3
<1>4. \A q, r \in refunds' : q.id = r.id => q = r
  BY <1>3 DEF RefundsTyped, NewRefunds
<1> QED
  BY <1>1, <1>2, <1>4 DEF RefundsTyped

LEMMA PartialRefundTyped ==
    ASSUME PaymentsTyped, NEW p \in DOMAIN payments, NEW n, NEW rate \in Nat, NEW period
    PROVE  LET r == PartialRefund(p, n, rate, period)
           IN  /\ IsRefund(r) /\ r.payment = p /\ r.period = period /\ r.status = "PROCESSED"
               /\ r.id = <<"R", p, n>>
<1>1. Bps(payments[p].amount, rate) \in Int
  BY BpsWhole DEF PaymentsTyped
<1> QED
  BY <1>1 DEF PartialRefund, Refund, IsRefund

\* A planter exchanges some items of a settlement for others.
LEMMA ItemsStayTyped ==
    ASSUME ItemsTyped, UNCHANGED payments, NEW gone, NEW new, IsFiniteSet(new),
           \A i \in new : IsItem(i), items' = (items \ gone) \cup new
    PROVE  ItemsTyped'
<1>1. IsFiniteSet(items')
  <2>1. IsFiniteSet(items \ gone)
    BY FS_Subset DEF ItemsTyped
  <2> QED
    BY <2>1, FS_Union
<1>2. \A i \in items' : IsItem(i)'
  BY DEF ItemsTyped, IsItem
<1> QED
  BY <1>1, <1>2 DEF ItemsTyped

LEMMA OneItemTyped ==
    ASSUME ItemsTyped, UNCHANGED payments, NEW gone, NEW j, IsItem(j),
           items' = (items \ gone) \cup {j}
    PROVE  ItemsTyped'
<1> DEFINE new == {j}
<1>1. IsFiniteSet(new) /\ \A i \in new : IsItem(i)
  BY FS_Singleton
<1>2. items' = (items \ gone) \cup new
  OBVIOUS
<1> HIDE DEF new
<1> QED
  BY <1>1, <1>2, ItemsStayTyped

LEMMA RefundItemTyped ==
    ASSUME NEW s, NEW r, IsRefund(r)
    PROVE  /\ IsItem(RefundItem(s, r)) /\ RefundItem(s, r).settlement = s
           /\ RefundItem(s, r).type = "REFUND"
  BY DEF IsRefund, IsItem, RefundItem, Item

LEMMA TaxStaysTyped ==
    ASSUME Shape, TaxTyped, NEW s, NEW h, header' = [header EXCEPT ![s] = h], h.tax \in Int
    PROVE  TaxTyped'
<1>1. \A x \in Settlement : header'[x] = IF x = s THEN h ELSE header[x]
  BY DEF Shape
<1> QED
  BY <1>1 DEF TaxTyped

LEMMA RebuiltTaxTyped ==
    ASSUME Shape, TaxTyped, NEW s, header' = [header EXCEPT ![s] = Rollup(items', s)], ItemsTyped'
    PROVE  TaxTyped'
<1>1. PICK its : its = items'
  OBVIOUS
<1>2. Rows(its)
  BY <1>1 DEF ItemsTyped, IsItem, Rows
<1>3. Rollup(its, s).tax \in Int
  BY <1>2, RollupWhole DEF Whole6
<1> QED
  BY <1>1, <1>3, TaxStaysTyped

\* A planter claims the settlement whose items, refunds and adjustments it touches.
LEMMA PlanterKeepsOthers ==
    ASSUME CleanOthers, NEW s, OnlyOf(s), UNCHANGED payments,
           claimed \subseteq claimed', s \in claimed',
           \A r \in (refunds' \ refunds) \cup (refunds \ refunds') : r.period \notin Settlement \ {s},
           \A a \in adjustments' \ adjustments : a.settlement = s
    PROVE  CleanOthers'
<1> SUFFICES ASSUME NEW x \in Settlement \ claimed' PROVE Clean(x)'
  BY DEF CleanOthers
<1>1. x \in Settlement \ claimed /\ x # s
  OBVIOUS
<1>2. ItemsIn(items', x) = ItemsIn(items, x)
  BY <1>1 DEF OnlyOf
<1>3. InPeriodRefunds(x)' = InPeriodRefunds(x)
  BY <1>1 DEF InPeriodRefunds
<1> QED
  BY <1>1, <1>2, <1>3, UntouchedStaysClean DEF CleanOthers

\* The planters see an item of a payment, and charge it by whole numbers.
LEMMA PaymentItemTyped ==
    ASSUME Typed, NEW s, NEW i \in PaymentItems(s)
    PROVE  /\ IsItem(i) /\ i.type = "PAYMENT" /\ i.ref[1] \in DOMAIN payments
           /\ \E p \in DOMAIN payments : i.ref = <<p>>
  BY DEF Typed, ItemsTyped, IsItem, PaymentItems, OfType, ItemsIn

-----------------------------------------------------------------------------
\* One lemma for each planter.

LEMMA DriftTyped ==
    ASSUME Typed, NEW s, NEW i \in PaymentItems(s)
    PROVE  IsItem(Drift(i)) /\ Drift(i).settlement = i.settlement
<1>1. IsItem(i) /\ i.type = "PAYMENT" /\ i.ref[1] \in DOMAIN payments
      /\ \E p \in DOMAIN payments : i.ref = <<p>>
  BY PaymentItemTyped
<1>2. PICK fee \in Int, tax \in Int : Drift(i) = [i EXCEPT !.fee = fee, !.tax = tax]
  <2>1. payments[i.ref[1]].amount \in Int /\ DriftedMdrBps \in Nat /\ GstBps \in Nat
    BY <1>1, BooksAssumption DEF Typed, PaymentsTyped, DriftedMdrBps
  <2>2. Bps(payments[i.ref[1]].amount, DriftedMdrBps) \in Int
    BY <2>1, BpsWhole
  <2>3. Bps(Bps(payments[i.ref[1]].amount, DriftedMdrBps), GstBps) \in Int
    BY <2>1, <2>2, BpsWhole
  <2> QED
    BY <2>2, <2>3 DEF Drift
<1> QED
  BY <1>1, <1>2 DEF IsItem, Item

LEMMA FeeRateDriftClean ==
    ASSUME CleanInv, NEW s \in Settlement, FeeRateDrift(s)
    PROVE  Typed' /\ CleanOthers'
<1>1. PICK i \in PaymentItems(s) : Itemise(s, (items \ {i}) \cup {Drift(i)})
  BY DEF FeeRateDrift, Largest, CardItems
<1>2. /\ UNCHANGED <<payments, refunds, adjustments>>
      /\ s \in claimed' /\ claimed \subseteq claimed'
      /\ items' = (items \ {i}) \cup {Drift(i)}
  BY <1>1 DEF FeeRateDrift, Claim, Itemise
<1>3. IsItem(Drift(i)) /\ i.settlement = s /\ Drift(i).settlement = s
  BY DriftTyped, ItsOwnItems DEF CleanInv, IInv
<1>4. ItemsTyped'
  BY <1>2, <1>3, OneItemTyped DEF CleanInv, Typed
<1>5. OnlyOf(s)
  BY <1>2, <1>3, Replaced DEF CleanInv, IInv, IsItem
<1>6. TaxTyped'
  BY <1>1, <1>4, RebuiltTaxTyped DEF CleanInv, IInv, Typed, Itemise, SetHeader
<1>7. CleanOthers'
  BY <1>2, <1>5, PlanterKeepsOthers DEF CleanInv
<1> QED
  BY <1>2, <1>4, <1>6, <1>7 DEF CleanInv, Typed, PaymentsTyped, RefundsTyped, IsRefund

LEMMA TaxAggregateRoundingClean ==
    ASSUME CleanInv, NEW s \in Settlement, TaxAggregateRounding(s)
    PROVE  Typed' /\ CleanOthers'
<1> DEFINE its == {i \in PaymentItems(s) : i.fee > 0}
           diff == Bps(FeeSum(its), GstBps) - TaxSum(its)
           Corrected(i) == [i EXCEPT !.tax = @ + diff]
<1>1. PICK i \in its : Itemise(s, (items \ {i}) \cup {Corrected(i)})
  BY DEF TaxAggregateRounding, Largest
<1>2. /\ UNCHANGED <<payments, refunds, adjustments>>
      /\ s \in claimed' /\ claimed \subseteq claimed'
      /\ items' = (items \ {i}) \cup {Corrected(i)}
  BY <1>1 DEF TaxAggregateRounding, Claim, Itemise
<1>3. diff \in Int
  <2>1. its \in SUBSET items
    BY DEF PaymentItems, OfType, ItemsIn
  <2>2. FeeSum(its) \in Int /\ TaxSum(its) \in Int
    BY <2>1, TypedRows, SumsWhole DEF CleanInv, Typed
  <2>3. Bps(FeeSum(its), GstBps) \in Int
    BY <2>2, BpsWhole, BooksAssumption
  <2> QED
    BY <2>2, <2>3
<1>4. /\ IsItem(i) /\ i.type = "PAYMENT" /\ i.settlement = s
      /\ \E p \in DOMAIN payments : i.ref = <<p>>
  BY PaymentItemTyped, ItsOwnItems DEF CleanInv, IInv
<1> HIDE DEF its, diff
<1>5. IsItem(Corrected(i)) /\ Corrected(i).settlement = s
  BY <1>3, <1>4 DEF IsItem, Item
<1> HIDE DEF Corrected
<1>6. ItemsTyped'
  BY <1>2, <1>5, OneItemTyped DEF CleanInv, Typed
<1>7. OnlyOf(s)
  BY <1>2, <1>4, <1>5, Replaced DEF CleanInv, IInv, IsItem
<1>8. TaxTyped'
  BY <1>1, <1>6, RebuiltTaxTyped DEF CleanInv, IInv, Typed, Itemise, SetHeader
<1>9. CleanOthers'
  BY <1>2, <1>7, PlanterKeepsOthers DEF CleanInv
<1> QED
  BY <1>2, <1>6, <1>8, <1>9 DEF CleanInv, Typed, PaymentsTyped, RefundsTyped, IsRefund

LEMMA RefundNotDeductedClean ==
    ASSUME CleanInv, NEW s \in Settlement, RefundNotDeducted(s)
    PROVE  Typed' /\ CleanOthers'
<1>1. PICK i \in OfType(ItemsIn(items, s), "REFUND") : Itemise(s, items \ {i})
  BY DEF RefundNotDeducted, Largest
<1>2. /\ UNCHANGED <<payments, refunds, adjustments>>
      /\ s \in claimed' /\ claimed \subseteq claimed' /\ items' = items \ {i}
  BY <1>1 DEF RefundNotDeducted, Claim, Itemise
<1>3. ItemsTyped'
  BY <1>2, FS_RemoveElement DEF CleanInv, Typed, ItemsTyped, IsItem
<1>4. i.settlement = s
  BY DEF OfType, ItemsIn
<1>5. OnlyOf(s)
  BY <1>2, <1>4, Taken DEF CleanInv, IInv
<1>6. TaxTyped'
  BY <1>1, <1>3, RebuiltTaxTyped DEF CleanInv, IInv, Typed, Itemise, SetHeader
<1>7. CleanOthers'
  BY <1>2, <1>5, PlanterKeepsOthers DEF CleanInv
<1> QED
  BY <1>2, <1>3, <1>6, <1>7 DEF CleanInv, Typed, PaymentsTyped, RefundsTyped, IsRefund

LEMMA RefundPartialMultiClean ==
    ASSUME CleanInv, NEW s \in Settlement, RefundPartialMulti(s)
    PROVE  Typed' /\ CleanOthers'
<1>1. PICK i \in PaymentItems(s) :
          /\ RefundsOf(i.ref[1]) = {}
          /\ refunds' = refunds \cup {PartialRefund(i.ref[1], 1, 2000, s),
                                      PartialRefund(i.ref[1], 2, 1500, s)}
          /\ items' = items \cup {RefundItem(s, PartialRefund(i.ref[1], 1, 2000, s))}
          /\ header' = [header EXCEPT ![s] = Rollup(items', s)]
  BY DEF RefundPartialMulti, Itemise, SetHeader
<1> DEFINE first  == PartialRefund(i.ref[1], 1, 2000, s)
           second == PartialRefund(i.ref[1], 2, 1500, s)
<1>2. /\ UNCHANGED <<payments, adjustments>> /\ s \in claimed' /\ claimed \subseteq claimed'
  BY DEF RefundPartialMulti, Claim
<1>3. PICK p \in DOMAIN payments : p = i.ref[1]
  BY PaymentItemTyped DEF CleanInv
<1>4. /\ IsRefund(first) /\ first.payment = p /\ first.period = s /\ first.id = <<"R", p, 1>>
      /\ IsRefund(second) /\ second.payment = p /\ second.period = s /\ second.id = <<"R", p, 2>>
  BY <1>3, PartialRefundTyped DEF CleanInv, Typed
<1> HIDE DEF first, second
<1>11. /\ refunds' = refunds \cup {first, second}
       /\ items' = items \cup {RefundItem(s, first)}
       /\ header' = [header EXCEPT ![s] = Rollup(items', s)]
  BY <1>1 DEF first, second
<1>5. RefundsTyped'
  <2> DEFINE new == {first, second}
  <2>1. IsFiniteSet(new)
    <3>1. PICK one : one = {first} /\ IsFiniteSet(one)
      BY FS_Singleton
    <3>2. new = one \cup {second}
      BY <3>1
    <3> QED
      BY <3>1, <3>2, FS_AddElement
  <2>2. first.id # second.id
    BY <1>4
  <2>3. /\ \A r \in new : IsRefund(r) /\ r.payment = p
        /\ \A q, r \in new : q.id = r.id => q = r
    BY <1>4, <2>2
  <2>4. NewRefunds(p, new)
    BY <1>1, <1>3, <1>11, <2>1, <2>3 DEF NewRefunds
  <2> QED
    BY <2>4, RefundsStayTyped DEF CleanInv, Typed
<1> DEFINE j == RefundItem(s, first)
<1>6. IsItem(j) /\ j.settlement = s
  BY <1>4, RefundItemTyped
<1> HIDE DEF j
<1>7. ItemsTyped'
  <2>1. items' = (items \ {}) \cup {j}
    BY <1>11 DEF j
  <2> QED
    BY <1>2, <1>6, <2>1, OneItemTyped DEF CleanInv, Typed
<1>8. OnlyOf(s)
  BY <1>6, <1>11, Put DEF CleanInv, IInv, IsItem, j
<1>9. TaxTyped'
  BY <1>7, <1>11, RebuiltTaxTyped DEF CleanInv, IInv, Typed, Itemise, SetHeader
<1>10. CleanOthers'
  BY <1>2, <1>4, <1>8, <1>11, PlanterKeepsOthers DEF CleanInv
<1> QED
  BY <1>2, <1>5, <1>7, <1>9, <1>10 DEF CleanInv, Typed, PaymentsTyped

\* The refund of the trap and its item reach the next settlement together.
LEMMA ReceiverStaysClean ==
    ASSUME NEW x, Clean(x), UNCHANGED <<payments, adjustments>>, NEW r,
           r.period = x, r.status = "PROCESSED", refunds' = refunds \cup {r},
           items' = items \cup {RefundItem(x, r)}
    PROVE  Clean(x)'
<1>1. RefundItem(x, r).settlement = x /\ RefundItem(x, r).type = "REFUND"
  BY DEF RefundItem, Item
<1>2. PaymentItems(x)' = PaymentItems(x)
  BY <1>1 DEF PaymentItems, OfType, ItemsIn
<1>3. \A i : FeeGap(i)' = FeeGap(i) /\ TaxGap(i)' = TaxGap(i)
  BY DEF FeeGap, TaxGap, PolicyTax, PolicyFee
<1>4. OfType(ItemsIn(items', x), "REFUND")
        = OfType(ItemsIn(items, x), "REFUND") \cup {RefundItem(x, r)}
  BY <1>1 DEF OfType, ItemsIn
<1>5. InPeriodRefunds(x)' = InPeriodRefunds(x) \cup {r}
  BY DEF InPeriodRefunds
<1>6. OfType(ItemsIn(items', x), "REFUND") = {RefundItem(x, q) : q \in InPeriodRefunds(x)'}
  BY <1>4, <1>5 DEF Clean
<1>7. OfType(ItemsIn(items', x), "ADJUSTMENT") = OfType(ItemsIn(items, x), "ADJUSTMENT")
  BY <1>1 DEF OfType, ItemsIn
<1>8. UnitemisedAdjustments(x)' = {}
  BY <1>7 DEF Clean, UnitemisedAdjustments, Itemised
<1>9. OfType(ItemsIn(items, x), "REFUND")' = {RefundItem(x, q) : q \in InPeriodRefunds(x)}'
  BY <1>6 DEF RefundItem
<1> QED
  BY <1>2, <1>3, <1>8, <1>9 DEF Clean

LEMMA OneRefundTyped ==
    ASSUME RefundsTyped, NEW p, RefundsOf(p) = {}, NEW r, IsRefund(r), r.payment = p,
           refunds' = refunds \cup {r}
    PROVE  RefundsTyped'
<1> DEFINE new == {r}
<1>1. IsFiniteSet(new)
  BY FS_Singleton
<1>2. NewRefunds(p, new)
  BY <1>1 DEF NewRefunds
<1> QED
  BY <1>2, RefundsStayTyped

LEMMA RefundOutsidePeriodClean ==
    ASSUME CleanInv, NEW s \in Settlement, NEW later \in Settlement, RefundOutsidePeriod(s, later)
    PROVE  Typed' /\ CleanOthers'
<1>1. PICK i \in PaymentItems(s) :
          /\ RefundsOf(i.ref[1]) = {}
          /\ refunds' = refunds \cup {PartialRefund(i.ref[1], 1, 4000, later)}
          /\ items' = items \cup {RefundItem(later, PartialRefund(i.ref[1], 1, 4000, later))}
          /\ header' = [header EXCEPT ![later] = Rollup(items', later)]
  BY DEF RefundOutsidePeriod, Itemise, SetHeader, Largest, NeverRefunded
<1>2. /\ UNCHANGED <<payments, adjustments>> /\ s \in claimed' /\ claimed \subseteq claimed'
      /\ later \notin claimed
  BY DEF RefundOutsidePeriod, Claim
<1>3. PICK p \in DOMAIN payments : p = i.ref[1]
  BY PaymentItemTyped DEF CleanInv
<1>4. PICK r : r = PartialRefund(i.ref[1], 1, 4000, later)
  OBVIOUS
<1>5. IsRefund(r) /\ r.payment = p /\ r.period = later /\ r.status = "PROCESSED"
  BY <1>3, <1>4, PartialRefundTyped DEF CleanInv, Typed
<1>6. PICK j : j = RefundItem(later, r)
  OBVIOUS
<1>7. refunds' = refunds \cup {r} /\ items' = items \cup {j}
  BY <1>1, <1>4, <1>6
<1>8. IsItem(j) /\ j.settlement = later /\ j.type = "REFUND"
  BY <1>5, <1>6, RefundItemTyped
<1>9. RefundsTyped'
  BY <1>1, <1>3, <1>5, <1>7, OneRefundTyped DEF CleanInv, Typed
<1>10. ItemsTyped'
  <2>1. items' = (items \ {}) \cup {j}
    BY <1>7
  <2> QED
    BY <1>2, <1>8, <2>1, OneItemTyped DEF CleanInv, Typed
<1>11. TaxTyped'
  <2>1. header' = [header EXCEPT ![later] = Rollup(items', later)]
    BY <1>1
  <2> QED
    BY <1>10, <2>1, RebuiltTaxTyped DEF CleanInv, IInv, Typed
<1>12. OnlyOf(later)
  BY <1>7, <1>8, Put DEF CleanInv, IInv, IsItem
<1>13. ASSUME NEW x \in Settlement \ claimed' PROVE Clean(x)'
  <2>1. Clean(x)
    BY <1>2 DEF CleanInv, CleanOthers
  <2>2. CASE x = later
    BY <1>2, <1>5, <1>6, <1>7, <2>1, <2>2, ReceiverStaysClean
  <2>3. CASE x # later
    <3>1. ItemsIn(items', x) = ItemsIn(items, x)
      BY <1>12, <2>3 DEF OnlyOf
    <3>2. InPeriodRefunds(x)' = InPeriodRefunds(x)
      BY <1>5, <1>7, <2>3 DEF InPeriodRefunds
    <3> QED
      BY <1>2, <2>1, <3>1, <3>2, UntouchedStaysClean
  <2> QED
    BY <2>2, <2>3
<1> QED
  BY <1>2, <1>9, <1>10, <1>11, <1>13 DEF CleanInv, Typed, PaymentsTyped, CleanOthers

LEMMA RefundOutsideWindowClean ==
    ASSUME CleanInv, NEW s \in Settlement, RefundOutsideWindow(s)
    PROVE  Typed' /\ CleanOthers'
<1>1. PICK i \in PaymentItems(s) :
          /\ RefundsOf(i.ref[1]) = {}
          /\ refunds' = refunds \cup {PartialRefund(i.ref[1], 1, 4000, s + 1)}
  BY DEF RefundOutsideWindow, Largest, NeverRefunded
<1>2. /\ UNCHANGED <<payments, adjustments, items, header>>
      /\ s \in claimed' /\ claimed \subseteq claimed' /\ s = NSettlement
  BY DEF RefundOutsideWindow, Claim
<1>3. PICK p \in DOMAIN payments : p = i.ref[1]
  BY PaymentItemTyped DEF CleanInv
<1>4. PICK r : r = PartialRefund(i.ref[1], 1, 4000, s + 1)
  OBVIOUS
<1>5. IsRefund(r) /\ r.payment = p /\ r.period = s + 1
  BY <1>3, <1>4, PartialRefundTyped DEF CleanInv, Typed
<1>6. r.period \notin Settlement
  BY <1>2, <1>5, BooksAssumption DEF Settlement
<1>7. RefundsTyped'
  BY <1>1, <1>3, <1>4, <1>5, OneRefundTyped DEF CleanInv, Typed
<1>8. OnlyOf(s)
  BY <1>2, ItemsUntouched DEF CleanInv, IInv
<1>9. CleanOthers'
  BY <1>1, <1>2, <1>4, <1>6, <1>8, PlanterKeepsOthers DEF CleanInv
<1> QED
  BY <1>2, <1>7, <1>9 DEF CleanInv, Typed, PaymentsTyped, ItemsTyped, IsItem, TaxTyped

\* Planters that touch no item, and change another column of the header than the tax.
LEMMA HeaderPlanterClean ==
    ASSUME CleanInv, NEW s \in Settlement, NEW h, header' = [header EXCEPT ![s] = h],
           h.tax \in Int, UNCHANGED <<payments, refunds, items>>,
           s \in claimed', claimed \subseteq claimed',
           \A a \in adjustments' \ adjustments : a.settlement = s
    PROVE  Typed' /\ CleanOthers'
<1>1. OnlyOf(s)
  BY ItemsUntouched DEF CleanInv, IInv
<1>2. CleanOthers'
  BY <1>1, PlanterKeepsOthers DEF CleanInv
<1>3. TaxTyped'
  BY TaxStaysTyped DEF CleanInv, IInv, Typed
<1> QED
  BY <1>2, <1>3 DEF CleanInv, Typed, PaymentsTyped, ItemsTyped, IsItem, RefundsTyped, IsRefund

LEMMA ShortPaid ==
    ASSUME CleanInv, NEW s \in Settlement \ claimed, NEW amount
    PROVE  /\ ShortPay(s, amount).tax \in Int
           /\ \A g : [ShortPay(s, amount) EXCEPT !.gross = g].tax \in Int
<1>1. header[s] = Rollup(items, s)
  BY DEF CleanInv, IInv, HeadersRollUp
<1>2. PICK a, b, c, d, e, f :
          header[s] = [gross |-> a, refund |-> b, fee |-> c, tax |-> d, adjustment |-> e, net |-> f]
  BY <1>1 DEF Rollup
<1>3. d \in Int
  BY <1>2 DEF CleanInv, Typed, TaxTyped
<1>4. PICK h : h = ShortPay(s, amount)
  OBVIOUS
<1>5. h = [gross |-> a, refund |-> b, fee |-> c, tax |-> d, adjustment |-> e, net |-> h.net]
  BY <1>2, <1>4 DEF ShortPay
<1>6. h.tax = d /\ \A g : [h EXCEPT !.gross = g].tax = d
  BY <1>5
<1> QED
  BY <1>3, <1>4, <1>6

LEMMA HeaderRollupMismatchClean ==
    ASSUME CleanInv, NEW s \in Settlement, HeaderRollupMismatch(s)
    PROVE  Typed' /\ CleanOthers'
<1>1. /\ s \notin claimed /\ claimed \subseteq claimed' /\ s \in claimed'
      /\ UNCHANGED <<payments, refunds, adjustments, items>>
  BY DEF HeaderRollupMismatch, Claim
<1>2. PICK amount, g : header' = [header EXCEPT ![s] = [ShortPay(s, amount) EXCEPT !.gross = g]]
  BY DEF HeaderRollupMismatch, SetHeader
<1>3. PICK h : h = [ShortPay(s, amount) EXCEPT !.gross = g]
  OBVIOUS
<1>4. header' = [header EXCEPT ![s] = h] /\ h.tax \in Int
  BY <1>1, <1>2, <1>3, ShortPaid
<1> QED
  BY <1>1, <1>4, HeaderPlanterClean

LEMMA PhantomDebitClean ==
    ASSUME CleanInv, NEW s \in Settlement, PhantomDebit(s)
    PROVE  Typed' /\ CleanOthers'
<1>1. /\ s \notin claimed /\ claimed \subseteq claimed' /\ s \in claimed'
      /\ UNCHANGED <<payments, refunds, adjustments, items>>
  BY DEF PhantomDebit, Claim
<1>2. PICK amount : header' = [header EXCEPT ![s] = ShortPay(s, amount)]
  BY DEF PhantomDebit, SetHeader
<1>3. ShortPay(s, amount).tax \in Int
  BY <1>1, ShortPaid
<1> QED
  BY <1>1, <1>2, <1>3, HeaderPlanterClean

LEMMA AdjustmentAppliedClean ==
    ASSUME CleanInv, NEW s \in Settlement, AdjustmentApplied(s)
    PROVE  Typed' /\ CleanOthers'
<1>1. /\ s \notin claimed /\ claimed \subseteq claimed' /\ s \in claimed'
      /\ UNCHANGED <<payments, refunds, items>>
  BY DEF AdjustmentApplied, Claim
<1>2. PICK amount :
          /\ header' = [header EXCEPT ![s] = ShortPay(s, amount)]
          /\ adjustments' = adjustments
                               \cup {Adjustment(s, NextAdjustment(s), "CHARGEBACK", -amount, 0)}
  BY DEF AdjustmentApplied, SetHeader
<1>3. ShortPay(s, amount).tax \in Int
  BY <1>1, ShortPaid
<1>4. \A a \in adjustments' \ adjustments : a.settlement = s
  BY <1>2 DEF Adjustment
<1>5. header' = [header EXCEPT ![s] = ShortPay(s, amount)]
  BY <1>2
<1> QED
  BY <1>1, <1>3, <1>4, <1>5, HeaderPlanterClean

LEMMA FeeCorrectedClean ==
    ASSUME CleanInv, NEW s \in Settlement, FeeCorrectedByAdjustment(s)
    PROVE  Typed' /\ CleanOthers'
<1>1. PICK i \in PaymentItems(s) :
          /\ items' = (items \ {i}) \cup {Drift(i)}
          /\ adjustments' = adjustments
                 \cup {Adjustment(s, NextAdjustment(s), "FEE_CORRECTION", Excess(i) \div 2, i.ref[1])}
          /\ header' = [header EXCEPT ![s] = [Rollup(items', s) EXCEPT !.net = @ + Excess(i) \div 2]]
  BY DEF FeeCorrectedByAdjustment, Largest, CardItems, SetHeader
<1>8. \A a \in adjustments' \ adjustments : a.settlement = s
  BY <1>1 DEF Adjustment
<1>2. UNCHANGED <<payments, refunds>> /\ s \in claimed' /\ claimed \subseteq claimed'
  BY DEF FeeCorrectedByAdjustment, Claim
<1>3. IsItem(Drift(i)) /\ i.settlement = s /\ Drift(i).settlement = s
  BY DriftTyped, ItsOwnItems DEF CleanInv, IInv
<1>4. ItemsTyped'
  BY <1>1, <1>2, <1>3, OneItemTyped DEF CleanInv, Typed
<1>5. OnlyOf(s)
  BY <1>1, <1>3, Replaced DEF CleanInv, IInv, IsItem
<1>6. TaxTyped'
  <2>1. PICK its, h : /\ its = items' /\ h = [Rollup(its, s) EXCEPT !.net = @ + Excess(i) \div 2]
                      /\ header' = [header EXCEPT ![s] = h]
    BY <1>1
  <2>2. Rows(its)
    BY <1>4, <2>1 DEF ItemsTyped, IsItem, Rows
  <2>3. Rollup(its, s).tax \in Int
    BY <2>2, RollupWhole DEF Whole6
  <2>4. h.tax = Rollup(its, s).tax
    BY <2>1 DEF Rollup
  <2> QED
    BY <2>1, <2>3, <2>4, TaxStaysTyped DEF CleanInv, IInv, Typed
<1>7. CleanOthers'
  BY <1>2, <1>5, <1>8, PlanterKeepsOthers DEF CleanInv
<1> QED
  BY <1>2, <1>4, <1>6, <1>7 DEF CleanInv, Typed, PaymentsTyped, RefundsTyped, IsRefund

LEMMA TablesUntouchedClean ==
    ASSUME CleanInv, UNCHANGED <<payments, refunds, adjustments, items, header>>,
           claimed \subseteq claimed'
    PROVE  Typed' /\ CleanOthers'
<1>1. Typed'
  BY DEF CleanInv, Typed, PaymentsTyped, RefundsTyped, IsRefund, ItemsTyped, IsItem, TaxTyped
<1>2. ASSUME NEW x \in Settlement \ claimed' PROVE Clean(x)'
  <2>1. Clean(x)
    BY DEF CleanInv, CleanOthers
  <2>2. InPeriodRefunds(x)' = InPeriodRefunds(x)
    BY DEF InPeriodRefunds
  <2> QED
    BY <2>1, <2>2, UntouchedStaysClean
<1> QED
  BY <1>1, <1>2 DEF CleanOthers

LEMMA BankLineClean ==
    ASSUME CleanInv, NEW s \in Settlement, NEW type, BankLine(s, type)
    PROVE  Typed' /\ CleanOthers'
<1>1. UNCHANGED <<payments, refunds, adjustments, items, header>> /\ claimed \subseteq claimed'
  BY DEF BankLine, Claim, tables
<1> QED
  BY <1>1, TablesUntouchedClean

\* The pair is claimed together, and only the books of one of them change.
LEMMA SameAmountSameDayClean ==
    ASSUME CleanInv, NEW a \in Settlement, NEW b \in Settlement, SameAmountSameDay(a, b)
    PROVE  Typed' /\ CleanOthers'
<1>1. /\ a \notin claimed /\ b \notin claimed /\ claimed \subseteq claimed' /\ b \in claimed'
      /\ UNCHANGED <<payments, refunds>>
  BY DEF SameAmountSameDay
<1>2. Rows(items)
  BY TypedRows DEF CleanInv, Typed
<1>3. header[a] = Rollup(items, a) /\ header[b] = Rollup(items, b)
  BY <1>1 DEF CleanInv, IInv, HeadersRollUp
<1>4. Whole6(header[a]) /\ Whole6(header[b])
  BY <1>2, <1>3, RollupWhole
<1>5. PICK diff : diff = header[a].net - header[b].net
  OBVIOUS
<1>6. diff \in Int
  BY <1>4, <1>5 DEF Whole6
<1>7. PICK adj : adj = Adjustment(b, NextAdjustment(b), "MANUAL", diff, 0)
  OBVIOUS
<1>8. PICK j : j = Item(b, "ADJUSTMENT", adj.id, diff, 0, 0)
  OBVIOUS
<1>9. IsItem(j) /\ j.settlement = b /\ adj.settlement = b
  BY <1>6, <1>7, <1>8 DEF IsItem, Item, Adjustment
<1>10. /\ adjustments' = IF diff = 0 THEN adjustments ELSE adjustments \cup {adj}
       /\ items' = IF diff = 0 THEN items ELSE items \cup {j}
       /\ header' = [header EXCEPT ![b].net = header[a].net, ![b].adjustment = @ + diff]
  BY <1>5, <1>7, <1>8 DEF SameAmountSameDay
<1>11. ItemsTyped'
  <2>1. CASE diff = 0
    BY <1>1, <1>10, <2>1 DEF CleanInv, Typed, ItemsTyped, IsItem
  <2>2. CASE diff # 0
    <3>1. items' = (items \ {}) \cup {j}
      BY <1>10, <2>2
    <3> QED
      BY <1>1, <1>9, <3>1, OneItemTyped DEF CleanInv, Typed
  <2> QED
    BY <2>1, <2>2
<1>12. OnlyOf(b)
  <2>1. CASE items' = items
    BY <2>1, ItemsUntouched DEF CleanInv, IInv
  <2>2. CASE items' = items \cup {j}
    BY <1>9, <2>2, Put DEF CleanInv, IInv, IsItem
  <2> QED
    BY <1>10, <2>1, <2>2
<1>13. TaxTyped'
  <2>1. PICK net : net = header[a].net
    OBVIOUS
  <2>2. header' = [[header EXCEPT ![b].net = net] EXCEPT ![b].adjustment = @ + diff]
    BY <1>10, <2>1
  <2>3. \A x \in Settlement \ {b} : header'[x].tax = header[x].tax
    BY <2>2 DEF CleanInv, IInv, Shape
  <2>4. header'[b].tax = header[b].tax
    <3>1. header[b].tax \in Int /\ b \in DOMAIN header
      BY DEF CleanInv, IInv, Shape, Typed, TaxTyped
    <3>2. PICK g, r, f, t, d, n :
             header[b] = [gross |-> g, refund |-> r, fee |-> f, tax |-> t, adjustment |-> d, net |-> n]
      BY <1>3 DEF Rollup
    <3>3. header'[b] = [[header[b] EXCEPT !.net = net] EXCEPT !.adjustment = @ + diff]
      BY <2>2, <3>1
    <3>4. PICK h : h = [header[b] EXCEPT !.net = net]
      OBVIOUS
    <3>5. h = [gross |-> g, refund |-> r, fee |-> f, tax |-> t, adjustment |-> d, net |-> net]
      BY <3>2, <3>4
    <3>6. header'[b] = [h EXCEPT !.adjustment = @ + diff] /\ h.tax = t
      BY <3>3, <3>4, <3>5
    <3>7. header'[b].tax = h.tax
      BY <3>5, <3>6
    <3> QED
      BY <3>2, <3>6, <3>7
  <2> QED
    BY <2>3, <2>4 DEF CleanInv, Typed, TaxTyped
<1>14. CleanOthers'
  <2>1. \A c \in adjustments' \ adjustments : c.settlement = b
    BY <1>9, <1>10
  <2> QED
    BY <1>1, <1>12, <2>1, PlanterKeepsOthers DEF CleanInv
<1> QED
  BY <1>1, <1>11, <1>13, <1>14 DEF CleanInv, Typed, PaymentsTyped, RefundsTyped, IsRefund

-----------------------------------------------------------------------------
\* A clean book is clean, and has the shapes the planters rely on.

\* What is made of the members of a finite set, one of each.
LEMMA ImageFinite ==
    ASSUME NEW S, IsFiniteSet(S), NEW f
    PROVE  IsFiniteSet({f[x] : x \in S})
<1> DEFINE T == {f[x] : x \in S}
           g == [x \in S |-> f[x]]
<1>1. g \in Surjection(S, T)
  BY DEF Surjection
<1> HIDE DEF g, T
<1>2. IsFiniteSet(T)
  BY <1>1, FS_Surjection
<1> QED
  BY <1>2 DEF T

\* A book as it is after Init: one row for one source record.
CleanBook ==
    /\ \A p \in DOMAIN payments :
          payments[p].amount \in Int /\ payments[p].method \in DOMAIN MdrBps
    /\ IsFiniteSet(DOMAIN payments) /\ IsFiniteSet(refunds) /\ IsFiniteSet(adjustments)
    /\ \A r \in refunds : IsRefund(r)
    /\ \A q, r \in refunds : q.id = r.id => q = r
    /\ \A a \in adjustments : a.amount \in Int
    /\ items = {PaymentItem(p, payments[p]) :
                    p \in {q \in DOMAIN payments : payments[q].settlement \in Settlement}}
               \cup {RefundItem(r.period, r) :
                    r \in {q \in refunds : q.status = "PROCESSED" /\ q.period \in Settlement}}
               \cup {Item(a.settlement, "ADJUSTMENT", a.id, a.amount, 0, 0) : a \in adjustments}
    /\ header = [s \in Settlement |-> Rollup(items, s)]

LEMMA InitIsClean == Init => CleanBook
<1> SUFFICES ASSUME Init PROVE CleanBook
  OBVIOUS
<1>1. PICK book \in Books :
          /\ payments = book.payments /\ refunds = book.refunds
          /\ adjustments = book.adjustments /\ items = CleanItems(book)
          /\ header = [s \in Settlement |-> Rollup(items, s)]
  BY DEF Init
<1>2. /\ IsFiniteSet(DOMAIN payments) /\ IsFiniteSet(refunds) /\ IsFiniteSet(adjustments)
      /\ \A p \in DOMAIN payments :
            payments[p].amount \in Int /\ payments[p].method \in DOMAIN MdrBps
      /\ \A r \in refunds : IsRefund(r)
      /\ \A q, r \in refunds : q.id = r.id => q = r
      /\ \A a \in adjustments : a.amount \in Int
  BY <1>1, BooksAssumption DEF IsRefund
<1>3. items = {PaymentItem(p, payments[p]) :
                   p \in {q \in DOMAIN payments : payments[q].settlement \in Settlement}}
              \cup {RefundItem(r.period, r) :
                   r \in {q \in refunds : q.status = "PROCESSED" /\ q.period \in Settlement}}
              \cup {Item(a.settlement, "ADJUSTMENT", a.id, a.amount, 0, 0) : a \in adjustments}
  BY <1>1 DEF CleanItems, CleanPaymentItems
<1>4. header = [s \in Settlement |-> Rollup(items, s)]
  BY <1>1
<1> QED
  BY <1>2, <1>3, <1>4 DEF CleanBook

LEMMA CleanPaymentItem ==
    ASSUME PaymentsTyped, NEW p \in DOMAIN payments
    PROVE  LET i == PaymentItem(p, payments[p])
           IN  /\ IsItem(i) /\ i.type = "PAYMENT" /\ i.settlement = payments[p].settlement
               /\ i.ref = <<p>> /\ FeeGap(i) = 0 /\ TaxGap(i) = 0
<1> DEFINE i == PaymentItem(p, payments[p])
<1>1. /\ i.settlement = payments[p].settlement /\ i.type = "PAYMENT" /\ i.ref = <<p>>
      /\ i.amount = payments[p].amount /\ i.fee = PolicyFee(p) /\ i.tax = PolicyTax(p)
      /\ "settlement" \in DOMAIN i
      /\ i = Item(i.settlement, i.type, i.ref, i.amount, i.fee, i.tax)
  BY DEF PaymentItem, Item, PolicyFee, PolicyTax
<1>2. PolicyFee(p) \in Int /\ PolicyTax(p) \in Int /\ payments[p].amount \in Int
  BY PolicyIsWhole DEF PaymentsTyped
<1> HIDE DEF i
<1>3. IsItem(i)
  BY <1>1, <1>2 DEF IsItem, Item
<1>4. i.ref[1] = p
  BY <1>1
<1>5. FeeGap(i) = 0 /\ TaxGap(i) = 0
  BY <1>1, <1>2, <1>4 DEF FeeGap, TaxGap
<1> QED
  BY <1>1, <1>3, <1>5 DEF i

LEMMA CleanItemsTyped ==
    ASSUME CleanBook
    PROVE  ItemsTyped
<1>1. PaymentsTyped
  BY DEF CleanBook, PaymentsTyped
<1>2. PICK P, R : /\ P = {q \in DOMAIN payments : payments[q].settlement \in Settlement}
                  /\ R = {q \in refunds : q.status = "PROCESSED" /\ q.period \in Settlement}
  OBVIOUS
<1>3. P \subseteq DOMAIN payments /\ R \subseteq refunds
  BY <1>2
<1>4. IsFiniteSet(P) /\ IsFiniteSet(R) /\ IsFiniteSet(adjustments)
  BY <1>3, FS_Subset DEF CleanBook
<1>5. PICK pay, ref, adj :
          /\ pay = [p \in P |-> PaymentItem(p, payments[p])]
          /\ ref = [r \in R |-> RefundItem(r.period, r)]
          /\ adj = [a \in adjustments |-> Item(a.settlement, "ADJUSTMENT", a.id, a.amount, 0, 0)]
  OBVIOUS
<1>6. PICK I, J, K : I = {pay[p] : p \in P} /\ J = {ref[r] : r \in R}
                     /\ K = {adj[a] : a \in adjustments}
  OBVIOUS
<1>7. items = (I \cup J) \cup K
  <2>1. /\ I = {PaymentItem(p, payments[p]) : p \in P}
        /\ J = {RefundItem(r.period, r) : r \in R}
        /\ K = {Item(a.settlement, "ADJUSTMENT", a.id, a.amount, 0, 0) : a \in adjustments}
    BY <1>5, <1>6
  <2> QED
    BY <1>2, <2>1 DEF CleanBook
<1>8. IsFiniteSet(items)
  <2>1. IsFiniteSet(I) /\ IsFiniteSet(J) /\ IsFiniteSet(K)
    BY <1>4, <1>6, ImageFinite
  <2>2. IsFiniteSet(I \cup J)
    BY <2>1, FS_Union
  <2> QED
    BY <1>7, <2>1, <2>2, FS_Union
<1>9. \A i \in I : IsItem(i)
  <2> SUFFICES ASSUME NEW p \in P PROVE IsItem(pay[p])
    BY <1>6
  <2>1. IsItem(PaymentItem(p, payments[p]))
    BY <1>1, <1>3, CleanPaymentItem
  <2> QED
    BY <1>5, <2>1
<1>10. \A i \in J : IsItem(i)
  <2> SUFFICES ASSUME NEW r \in R PROVE IsItem(ref[r])
    BY <1>6
  <2>1. IsRefund(r)
    BY <1>3 DEF CleanBook
  <2>2. IsItem(RefundItem(r.period, r))
    BY <2>1, RefundItemTyped
  <2> QED
    BY <1>5, <2>2
<1>11. \A i \in K : IsItem(i)
  <2> SUFFICES ASSUME NEW a \in adjustments PROVE IsItem(adj[a])
    BY <1>6
  <2>1. a.amount \in Int
    BY DEF CleanBook
  <2>2. PICK s, n : s = a.settlement /\ n = a.id
    OBVIOUS
  <2>3. IsItem(Item(s, "ADJUSTMENT", n, a.amount, 0, 0))
    BY <2>1 DEF IsItem, Item
  <2> QED
    BY <1>5, <2>2, <2>3
<1> QED
  BY <1>7, <1>8, <1>9, <1>10, <1>11 DEF ItemsTyped

LEMMA CleanBookIsClean ==
    ASSUME CleanBook, NEW s \in Settlement
    PROVE  Clean(s)
<1>1. PaymentsTyped
  BY DEF CleanBook, PaymentsTyped
<1>2. PICK P, R : /\ P = {q \in DOMAIN payments : payments[q].settlement \in Settlement}
                  /\ R = {q \in refunds : q.status = "PROCESSED" /\ q.period \in Settlement}
  OBVIOUS
<1>3. items = {PaymentItem(p, payments[p]) : p \in P} \cup {RefundItem(r.period, r) : r \in R}
              \cup {Item(a.settlement, "ADJUSTMENT", a.id, a.amount, 0, 0) : a \in adjustments}
  BY <1>2 DEF CleanBook
<1>4. /\ \A r, x : RefundItem(x, r).type = "REFUND" /\ RefundItem(x, r).settlement = x
      /\ \A x, n, m : LET i == Item(x, "ADJUSTMENT", n, m, 0, 0)
                      IN  i.type = "ADJUSTMENT" /\ i.settlement = x /\ i.ref = n
  BY DEF RefundItem, Item
<1>5. \A p \in P : LET i == PaymentItem(p, payments[p])
                   IN  i.type = "PAYMENT" /\ FeeGap(i) = 0 /\ TaxGap(i) = 0
  BY <1>1, <1>2, CleanPaymentItem
<1>6. \A i \in PaymentItems(s) : FeeGap(i) = 0 /\ TaxGap(i) = 0
  <2> TAKE i \in PaymentItems(s)
  <2>1. i \in items /\ i.type = "PAYMENT"
    BY DEF PaymentItems, OfType, ItemsIn
  <2>2. \E p \in P : i = PaymentItem(p, payments[p])
    BY <1>3, <1>4, <2>1
  <2> QED
    BY <1>5, <2>2
<1>7. OfType(ItemsIn(items, s), "REFUND") = {RefundItem(s, r) : r \in InPeriodRefunds(s)}
  <2>1. \A i : i \in OfType(ItemsIn(items, s), "REFUND")
                 <=> \E r \in R : i = RefundItem(r.period, r) /\ r.period = s
    BY <1>3, <1>4, <1>5 DEF OfType, ItemsIn
  <2>2. \A r : r \in InPeriodRefunds(s) <=> r \in R /\ r.period = s
    BY <1>2 DEF InPeriodRefunds
  <2> QED
    BY <2>1, <2>2
<1>8. UnitemisedAdjustments(s) = {}
  <2> SUFFICES ASSUME NEW a \in adjustments, a.settlement = s
               PROVE  a.id \in Itemised(s, "ADJUSTMENT")
    BY DEF UnitemisedAdjustments
  <2>1. PICK i : i = Item(a.settlement, "ADJUSTMENT", a.id, a.amount, 0, 0)
    OBVIOUS
  <2>2. i \in items
    BY <1>3, <2>1
  <2>3. i.type = "ADJUSTMENT" /\ i.settlement = s /\ i.ref = a.id
    BY <1>4, <2>1
  <2> QED
    BY <2>2, <2>3 DEF Itemised, OfType, ItemsIn
<1> QED
  BY <1>6, <1>7, <1>8 DEF Clean

LEMMA InitClean == Init => CleanInv
<1> SUFFICES ASSUME Init PROVE CleanInv
  OBVIOUS
<1>1. IInv /\ CleanBook
  BY InitEstablishes, InitIsClean
<1>2. ItemsTyped /\ PaymentsTyped /\ RefundsTyped
  BY <1>1, CleanItemsTyped DEF CleanBook, PaymentsTyped, RefundsTyped
<1>3. TaxTyped
  <2>1. Rows(items)
    BY <1>2, TypedRows
  <2>2. \A s \in Settlement : header[s] = Rollup(items, s)
    BY <1>1 DEF CleanBook
  <2>3. \A s \in Settlement : Rollup(items, s).tax \in Int
    BY <2>1, RollupWhole DEF Whole6
  <2> QED
    BY <2>2, <2>3 DEF TaxTyped
<1> QED
  BY <1>1, <1>2, <1>3, CleanBookIsClean DEF CleanInv, Typed, CleanOthers
-----------------------------------------------------------------------------
LEMMA LedgerClean ==
    ASSUME CleanInv,
           \/ BuildLedger \/ Persist
           \/ \E s \in Settlement : DuplicateLedger(s) \/ MissingLedger(s) \/ WrongAccount(s)
    PROVE  Typed' /\ CleanOthers'
<1>1. UNCHANGED <<payments, refunds, adjustments, items, header, claimed>>
  <2>1. CASE BuildLedger
    BY <2>1 DEF BuildLedger
  <2>2. CASE Persist
    BY <2>2 DEF Persist, tables
  <2>3. CASE \E s \in Settlement : DuplicateLedger(s) \/ MissingLedger(s) \/ WrongAccount(s)
    BY <2>3 DEF DuplicateLedger, MissingLedger, WrongAccount
  <2> QED
    BY <2>1, <2>2, <2>3
<1> QED
  BY <1>1, TablesUntouchedClean

LEMMA PayoutClean ==
    ASSUME CleanInv, PayoutNext
    PROVE  Typed' /\ CleanOthers'
<1>1. PICK a \in SettledAllocs :
          AllocExceeds(a) \/ AllocDiverges(a) \/ TransferMissing(a) \/ PhantomPayoutGap(a)
  BY DEF PayoutNext
<1>2. UNCHANGED <<tables, claimed>>
  <2>1. CASE AllocExceeds(a)
    BY <2>1 DEF AllocExceeds, Plant
  <2>2. CASE AllocDiverges(a)
    BY <2>2 DEF AllocDiverges, Plant
  <2>3. CASE TransferMissing(a)
    BY <2>3 DEF TransferMissing, Plant
  <2>4. CASE PhantomPayoutGap(a)
    BY <2>4 DEF PhantomPayoutGap, Plant
  <2> QED
    BY <1>1, <2>1, <2>2, <2>3, <2>4
<1> QED
  BY <1>2, TablesUntouchedClean DEF tables

LEMMA CleanStep == CleanInv /\ [Next]_vars => CleanInv'
<1> SUFFICES ASSUME CleanInv, [Next]_vars PROVE Typed' /\ CleanOthers'
  BY StepKeeps DEF CleanInv
<1>1. CASE UNCHANGED vars
  BY <1>1, TablesUntouchedClean DEF vars, bookVars, tables
<1>2. CASE PayoutNext
  BY <1>2, PayoutClean
<1>3. CASE Reconcile
  BY <1>3, TablesUntouchedClean DEF Reconcile, bookVars, tables
<1>4. CASE BookNext
  <2>1. CASE BuildLedger \/ Persist
    BY <2>1, LedgerClean
  <2>2. ASSUME NEW s \in Settlement,
               DuplicateLedger(s) \/ MissingLedger(s) \/ WrongAccount(s)
        PROVE  Typed' /\ CleanOthers'
    BY <2>2, LedgerClean
  <2>3. ASSUME NEW s \in Settlement,
               \/ FeeRateDrift(s) \/ TaxAggregateRounding(s) \/ RefundNotDeducted(s)
               \/ RefundPartialMulti(s) \/ RefundOutsideWindow(s)
        PROVE  Typed' /\ CleanOthers'
    BY <2>3, FeeRateDriftClean, TaxAggregateRoundingClean, RefundNotDeductedClean,
       RefundPartialMultiClean, RefundOutsideWindowClean
  <2>4. ASSUME NEW s \in Settlement,
               \/ HeaderRollupMismatch(s) \/ AdjustmentApplied(s)
               \/ FeeCorrectedByAdjustment(s) \/ PhantomDebit(s)
        PROVE  Typed' /\ CleanOthers'
    BY <2>4, HeaderRollupMismatchClean, AdjustmentAppliedClean, FeeCorrectedClean,
       PhantomDebitClean
  <2>5. ASSUME NEW s \in Settlement,
               BankLine(s, "D2_BANK_LINE") \/ BankLine(s, "UNRESOLVABLE_AMBIGUOUS_CREDIT")
        PROVE  Typed' /\ CleanOthers'
    BY <2>5, BankLineClean
  <2>6. ASSUME NEW s \in Settlement, NEW x \in Settlement,
               RefundOutsidePeriod(s, x) \/ SameAmountSameDay(s, x)
        PROVE  Typed' /\ CleanOthers'
    BY <2>6, RefundOutsidePeriodClean, SameAmountSameDayClean
  <2> QED
    BY <1>4, <2>1, <2>2, <2>3, <2>4, <2>5, <2>6 DEF BookNext
<1> QED
  BY <1>1, <1>2, <1>3, <1>4 DEF Next

\* However many planters break its neighbours, the engine finds nothing on a settlement
\* nobody claimed: the repairs and traps of the generator leave it alone, and the engine
\* raises no false alarm (generator/anomalies.py:11, engine/attribution.py:6).
THEOREM UnclaimedStaysClean == Spec => []UnclaimedIsClean
<1>1. BatchInit => CleanInv
  BY InitClean DEF BatchInit
<1>2. CleanInv => UnclaimedIsClean
  <2> SUFFICES ASSUME CleanInv, NEW s \in Settlement \ claimed PROVE Silent(Diagnose1(s))
    BY DEF UnclaimedIsClean, Silent, CleanInv, IInv
  <2>1. Clean(s) /\ header[s] = Rollup(items, s)
    BY DEF CleanInv, CleanOthers, IInv, HeadersRollUp
  <2> QED
    BY <2>1, CleanIsSilent DEF CleanInv
<1> QED
  BY <1>1, <1>2, CleanStep, PTL DEF Spec

-----------------------------------------------------------------------------
(***************************************************************************)
(* The filing leg, for any tax, tolerance, window and calendar.            *)
(***************************************************************************)

LEMMA InvoiceTaxIsSum ==
    ASSUME NEW f, NEW S, IsFiniteSet(S), \A x \in S : f[x] = InvoiceTax(x)
    PROVE  MapThenSumSet(LAMBDA inv : InvoiceTax(inv), S) = SumFunctionOnSet(f, S)
<1> DEFINE Body(h) == [T \in SUBSET S |-> IF T = {} THEN 0
                                          ELSE InvoiceTax(Pick(T)) + h[T \ {Pick(T)}]]
           g == CHOOSE h : h = Body(h)
<1>1. ASSUME NEW h PROVE h = Body(h) <=> Computes(h, f, SUBSET S)
  <2>1. \A T \in SUBSET S : T # {} => f[Pick(T)] = InvoiceTax(Pick(T))
    BY PickMember
  <2>2. Body(h) = [T \in SUBSET S |-> IF T = {} THEN 0 ELSE f[Pick(T)] + h[T \ {Pick(T)}]]
    BY <2>1
  <2> QED
    BY <2>2 DEF Computes
<1>2. \E h : h = Body(h)
  BY <1>1, ComputesExists
<1>3. g = Body(g)
  BY <1>2
<1>4. Computes(g, f, SUBSET S)
  BY <1>1, <1>3
<1>5. MapThenSumSet(LAMBDA inv : InvoiceTax(inv), S) = g[S]
  BY DEF MapThenSumSet, MapThenFoldSet, Pick
<1> HIDE DEF g
<1>6. Sums(g, f, S)
  BY <1>4, ComputesSum
<1> QED
  BY <1>5, <1>6 DEF Sums

CanBeUsed(s, inv) ==
    inv.eligible /\ inv.igst = 0 /\ inv.period \in Month[s] .. (Month[s] + ClaimWindow)

\* Of one invoice the whole tax can be used, or none of it.
LEMMA UsableOfOne ==
    ASSUME NEW s, NEW inv, InvoiceTax(inv) \in Int
    PROVE  /\ CanBeUsed(s, inv) => Usable(s, {inv}) = InvoiceTax(inv)
           /\ ~ CanBeUsed(s, inv) => Usable(s, {inv}) = 0
           /\ Usable(s, {}) = 0
<1> DEFINE f == [x \in {inv} |-> InvoiceTax(inv)]
<1>1. \A S \in SUBSET {inv} :
          /\ IsFiniteSet(S) /\ IntegerOn(f, S)
          /\ MapThenSumSet(LAMBDA x : InvoiceTax(x), S) = SumFunctionOnSet(f, S)
  <2> TAKE S \in SUBSET {inv}
  <2>1. IsFiniteSet(S)
    BY FS_Singleton, FS_Subset
  <2>2. (\A x \in S : f[x] = InvoiceTax(x)) /\ IntegerOn(f, S)
    BY DEF IntegerOn
  <2> HIDE DEF f
  <2> QED
    BY <2>1, <2>2, InvoiceTaxIsSum
<1>2. f[inv] = InvoiceTax(inv)
  OBVIOUS
<1> HIDE DEF f
<1>3. SumFunctionOnSet(f, {}) = 0
  BY SumEmpty
<1>4. SumFunctionOnSet(f, {inv}) = InvoiceTax(inv)
  <2>1. PICK S, r : S = {inv} /\ r = SumFunctionOnSet(f, S \ {inv})
    OBVIOUS
  <2>2. SumFunctionOnSet(f, S) = f[inv] + r
    BY <1>1, <2>1, SumRemove
  <2>3. S \ {inv} = {}
    BY <2>1
  <2>4. r = 0
    BY <1>3, <2>1, <2>3
  <2> QED
    BY <1>2, <2>1, <2>2, <2>4
<1>5. PICK U : U = {x \in {inv} : /\ x.eligible /\ x.igst = 0
                                   /\ x.period \in Month[s] .. (Month[s] + ClaimWindow)}
  OBVIOUS
<1>6. Usable(s, {inv}) = SumFunctionOnSet(f, U)
  BY <1>1, <1>5 DEF Usable
<1>7. CanBeUsed(s, inv) => U = {inv}
  BY <1>5 DEF CanBeUsed
<1>8. ~ CanBeUsed(s, inv) => U = {}
  BY <1>5 DEF CanBeUsed
<1>9. Usable(s, {}) = 0
  <2>1. {x \in {} : /\ x.eligible /\ x.igst = 0
                    /\ x.period \in Month[s] .. (Month[s] + ClaimWindow)} = {}
    OBVIOUS
  <2>2. MapThenSumSet(LAMBDA x : InvoiceTax(x), {}) = 0
    BY <1>1, <1>3
  <2> QED
    BY <2>1, <2>2 DEF Usable
<1> QED
  BY <1>3, <1>4, <1>6, <1>7, <1>8, <1>9

\* The verdict on a lone invoice is the first that applies to it.
LEMMA FirstFinding ==
    ASSUME NEW s, NEW inv, NEW k \in 1 .. 6, Match(s, inv)[k].applies,
           \A j \in 1 .. 6 : j < k => ~ Match(s, inv)[j].applies
    PROVE  FilingVerdict(s, {inv}) = Match(s, inv)[k]
<1>1. DOMAIN Match(s, inv) = 1 .. 6
  BY DEF Match
<1>2. PICK found : found = Match(s, inv)
  OBVIOUS
<1>3. PICK K : K = {j \in DOMAIN found : found[j].applies}
  OBVIOUS
<1>4. k \in K /\ \A j \in K : k <= j /\ j \in Int
  BY <1>1, <1>2, <1>3
<1>5. Min(K) = k
  <2>1. \A x \in K : (\A y \in K : x <= y) => x = k
    BY <1>4
  <2> QED
    BY <1>4, <2>1 DEF Min
<1>6. (CHOOSE x \in {inv} : TRUE) = inv
  OBVIOUS
<1> QED
  BY <1>2, <1>3, <1>5, <1>6 DEF FilingVerdict

\* The credit at risk is what cannot be used, and the claim says whether it can.
Accounted(s, filed) ==
    LET verdict == FilingVerdict(s, filed)
        lost == header[s].tax - Usable(s, filed)
    IN  /\ Abs(lost - verdict.at_risk) <= AmountTolerance
        /\ verdict.claim_state \in {"CLAIMABLE", "DEFERRED"} <=> lost <= AmountTolerance
        /\ filed = {Derived(s)} => verdict.status = "MATCHED"

LEMMA UnfiledAccounted ==
    ASSUME NEW s \in Settlement, header[s].tax \in Int, header[s].tax > AmountTolerance
    PROVE  Accounted(s, {})
<1>1. PICK t \in Int : t = header[s].tax
  OBVIOUS
<1>2. FilingVerdict(s, {}) = [status |-> "NOT_FILED", applies |-> TRUE,
                              claim_state |-> "AT_RISK", at_risk |-> t]
  BY <1>1 DEF FilingVerdict, Finding
<1>3. Usable(s, {}) = 0
  <2>1. InvoiceTax(Invoice(0, 0, 0, 0, TRUE)) \in Int
    BY DEF InvoiceTax, Invoice
  <2> QED
    BY <1>1, <2>1, UsableOfOne
<1> QED
  BY <1>1, <1>2, <1>3, TaxAssumption DEF Accounted, Abs

\* What applies to an invoice, told by what is wrong with it.
LEMMA MatchOfInvoice ==
    ASSUME NEW s, NEW inv, NEW t \in Int, header[s].tax = t, NEW short \in Nat,
           InvoiceTax(inv) = t - short, NEW late \in Int, inv.period - Month[s] = late
    PROVE  LET m == Match(s, inv)
           IN  /\ m[1].applies <=> inv.igst # 0
               /\ m[2].applies <=> short > AmountTolerance
               /\ m[3].applies <=> ~ inv.eligible
               /\ m[4].applies <=> 0 < late /\ late <= ClaimWindow
               /\ m[5].applies <=> late # 0
               /\ m[6].applies
               /\ m[1].claim_state = "AT_RISK" /\ m[1].at_risk = t - short
               /\ m[2].claim_state = "AT_RISK" /\ m[2].at_risk = short
               /\ m[3].claim_state = "BLOCKED" /\ m[3].at_risk = t - short
               /\ m[4].claim_state = "DEFERRED" /\ m[4].at_risk = 0
               /\ m[5].claim_state = "AT_RISK" /\ m[5].at_risk = t - short
               /\ m[6].claim_state = "CLAIMABLE" /\ m[6].at_risk = 0 /\ m[6].status = "MATCHED"
<1>1. Abs((t - short) - t) = short /\ Abs(t - (t - short)) = short
  BY DEF Abs
<1>2. PICK a, b, c, d, e :
          /\ a = (Heads(inv) # ExpectedHeads) /\ b = (short > AmountTolerance)
          /\ c = ~ inv.eligible /\ d = (late # 0 /\ InClaimWindow(late)) /\ e = (late # 0)
  OBVIOUS
<1>3. Match(s, inv) =
        << [status |-> "SPLIT_MISMATCH", applies |-> a, claim_state |-> "AT_RISK",
            at_risk |-> t - short],
           [status |-> "AMOUNT_MISMATCH", applies |-> b, claim_state |-> "AT_RISK",
            at_risk |-> short],
           [status |-> "ITC_BLOCKED", applies |-> c, claim_state |-> "BLOCKED",
            at_risk |-> t - short],
           [status |-> "PERIOD_MISMATCH", applies |-> d, claim_state |-> "DEFERRED", at_risk |-> 0],
           [status |-> "PERIOD_MISMATCH", applies |-> e, claim_state |-> "AT_RISK",
            at_risk |-> t - short],
           [status |-> "MATCHED", applies |-> TRUE, claim_state |-> "CLAIMABLE", at_risk |-> 0] >>
  BY <1>1, <1>2 DEF Match, Finding
<1>4. a <=> inv.igst # 0
  BY <1>2 DEF Heads, ExpectedHeads
<1>5. d <=> 0 < late /\ late <= ClaimWindow
  <2>1. d <=> late # 0 /\ InClaimWindow(late)
    BY <1>2
  <2> QED
    BY <2>1 DEF InClaimWindow
<1>6. PICK m : m = Match(s, inv)
  OBVIOUS
<1>7. /\ m[1].applies = a /\ m[1].claim_state = "AT_RISK" /\ m[1].at_risk = t - short
      /\ m[2].applies = b /\ m[2].claim_state = "AT_RISK" /\ m[2].at_risk = short
      /\ m[3].applies = c /\ m[3].claim_state = "BLOCKED" /\ m[3].at_risk = t - short
      /\ m[4].applies = d /\ m[4].claim_state = "DEFERRED" /\ m[4].at_risk = 0
      /\ m[5].applies = e /\ m[5].claim_state = "AT_RISK" /\ m[5].at_risk = t - short
      /\ m[6].applies = TRUE /\ m[6].claim_state = "CLAIMABLE" /\ m[6].at_risk = 0
      /\ m[6].status = "MATCHED"
  BY <1>3, <1>6
<1>8. /\ (m[1].applies <=> a) /\ (m[2].applies <=> b) /\ (m[3].applies <=> c)
      /\ (m[4].applies <=> d) /\ (m[5].applies <=> e) /\ m[6].applies
  BY <1>7
<1>9. (b <=> short > AmountTolerance) /\ (c <=> ~ inv.eligible) /\ (e <=> late # 0)
  BY <1>2
<1> QED
  BY <1>4, <1>5, <1>6, <1>7, <1>8, <1>9

\* An invoice with at most one thing wrong, for the tax or for a little less.
OneThingWrong(s, t, inv, short, late) ==
    /\ t \in Int /\ header[s].tax = t /\ t > AmountTolerance
    /\ inv.igst \in Int
    /\ short \in 0 .. AmountTolerance + 1 /\ InvoiceTax(inv) = t - short
    /\ late \in Int /\ inv.period = Month[s] + late
    /\ \/ short = 0 /\ late = 0 /\ inv.eligible
       \/ short = 0 /\ late = 0 /\ inv.igst = 0
       \/ late = 0 /\ inv.igst = 0 /\ inv.eligible
       \/ short = 0 /\ inv.igst = 0 /\ inv.eligible
    /\ inv = Derived(s) => inv.igst = 0 /\ inv.eligible /\ short = 0 /\ late = 0

LEMMA InvoiceAccounted ==
    ASSUME NEW s \in Settlement, NEW t, NEW inv, NEW short, NEW late,
           OneThingWrong(s, t, inv, short, late)
    PROVE  Accounted(s, {inv})
<1>1. /\ AmountTolerance \in Nat /\ ClaimWindow \in Nat /\ Month[s] \in Int
      /\ t \in Int /\ t > AmountTolerance /\ short \in Nat /\ short <= AmountTolerance + 1
      /\ late \in Int /\ inv.period = Month[s] + late /\ header[s].tax = t
      /\ InvoiceTax(inv) = t - short
  BY TaxAssumption DEF OneThingWrong
<1>0. /\ \/ short = 0 /\ late = 0 /\ inv.eligible
         \/ short = 0 /\ late = 0 /\ inv.igst = 0
         \/ late = 0 /\ inv.igst = 0 /\ inv.eligible
         \/ short = 0 /\ inv.igst = 0 /\ inv.eligible
      /\ inv = Derived(s) => inv.igst = 0 /\ inv.eligible /\ short = 0 /\ late = 0
  BY DEF OneThingWrong
<1>2. PICK m : m = Match(s, inv)
  OBVIOUS
<1>3. inv.period - Month[s] = late
  BY <1>1
<1>4. /\ m[1].applies <=> inv.igst # 0
      /\ m[2].applies <=> short > AmountTolerance
      /\ m[3].applies <=> ~ inv.eligible
      /\ m[4].applies <=> 0 < late /\ late <= ClaimWindow
      /\ m[5].applies <=> late # 0
      /\ m[6].applies
      /\ m[1].claim_state = "AT_RISK" /\ m[1].at_risk = t - short
      /\ m[2].claim_state = "AT_RISK" /\ m[2].at_risk = short
      /\ m[3].claim_state = "BLOCKED" /\ m[3].at_risk = t - short
      /\ m[4].claim_state = "DEFERRED" /\ m[4].at_risk = 0
      /\ m[5].claim_state = "AT_RISK" /\ m[5].at_risk = t - short
      /\ m[6].claim_state = "CLAIMABLE" /\ m[6].at_risk = 0 /\ m[6].status = "MATCHED"
  BY <1>1, <1>2, <1>3, MatchOfInvoice
<1>5. CanBeUsed(s, inv) <=> inv.eligible /\ inv.igst = 0 /\ 0 <= late /\ late <= ClaimWindow
  BY <1>1 DEF CanBeUsed
<1>6. PICK u \in Int : /\ u = Usable(s, {inv})
                       /\ CanBeUsed(s, inv) => u = t - short
                       /\ ~ CanBeUsed(s, inv) => u = 0
  <2>1. t - short \in Int
    BY <1>1
  <2> QED
    BY <1>1, <2>1, UsableOfOne
<1>7. ASSUME NEW k \in 1 .. 6, m[k].applies, \A j \in 1 .. 6 : j < k => ~ m[j].applies
      PROVE  FilingVerdict(s, {inv}) = m[k]
  BY <1>2, <1>7, FirstFinding
<1>8. PICK lost \in Int : lost = t - u
  BY <1>1, <1>6
<1>9. ASSUME NEW v, FilingVerdict(s, {inv}) = v, v.at_risk \in Int,
             v.at_risk <= lost, lost <= v.at_risk + AmountTolerance,
             v.claim_state \in {"CLAIMABLE", "DEFERRED"} <=> lost <= AmountTolerance,
             (inv.igst = 0 /\ inv.eligible /\ short = 0 /\ late = 0) => v.status = "MATCHED"
      PROVE  Accounted(s, {inv})
  <2>1. Abs(lost - v.at_risk) <= AmountTolerance
    BY <1>1, <1>9 DEF Abs
  <2> QED
    BY <1>0, <1>1, <1>6, <1>8, <1>9, <2>1 DEF Accounted
<1>10. CASE inv.igst # 0
  <2>1. FilingVerdict(s, {inv}) = m[1]
    BY <1>4, <1>7, <1>10
  <2>2. lost = t /\ m[1].at_risk = t /\ m[1].claim_state = "AT_RISK"
    BY <1>0, <1>1, <1>4, <1>5, <1>6, <1>8, <1>10
  <2>3. /\ m[1].at_risk \in Int /\ m[1].at_risk <= lost
        /\ lost <= m[1].at_risk + AmountTolerance
        /\ m[1].claim_state \in {"CLAIMABLE", "DEFERRED"} <=> lost <= AmountTolerance
    BY <1>1, <1>10, <2>2
  <2> QED
    BY <1>0, <1>1, <1>9, <1>10, <2>1, <2>2, <2>3
<1>11. CASE inv.igst = 0 /\ short > AmountTolerance
  <2>1. FilingVerdict(s, {inv}) = m[2]
    BY <1>4, <1>7, <1>11
  <2>2. lost = short /\ m[2].at_risk = short /\ m[2].claim_state = "AT_RISK"
    BY <1>0, <1>1, <1>4, <1>5, <1>6, <1>8, <1>11
  <2>3. /\ m[2].at_risk \in Int /\ m[2].at_risk <= lost
        /\ lost <= m[2].at_risk + AmountTolerance
        /\ m[2].claim_state \in {"CLAIMABLE", "DEFERRED"} <=> lost <= AmountTolerance
    BY <1>1, <1>11, <2>2
  <2>4. ~ (inv.igst = 0 /\ inv.eligible /\ short = 0 /\ late = 0)
    BY <1>1, <1>11
  <2> QED
    BY <1>9, <2>1, <2>3, <2>4
<1>12. CASE inv.igst = 0 /\ short <= AmountTolerance /\ ~ inv.eligible
  <2>1. m[3].applies /\ ~ m[1].applies /\ ~ m[2].applies
    BY <1>0, <1>1, <1>4, <1>12
  <2>2. \A j \in 1 .. 6 : j < 3 => j = 1 \/ j = 2
    OBVIOUS
  <2>3. FilingVerdict(s, {inv}) = m[3]
    BY <1>7, <2>1, <2>2
  <2>4. lost = t /\ m[3].at_risk = t /\ m[3].claim_state = "BLOCKED"
    BY <1>0, <1>1, <1>4, <1>5, <1>6, <1>8, <1>12
  <2>5. /\ m[3].at_risk \in Int /\ m[3].at_risk <= lost
        /\ lost <= m[3].at_risk + AmountTolerance
        /\ m[3].claim_state \in {"CLAIMABLE", "DEFERRED"} <=> lost <= AmountTolerance
    BY <1>1, <1>12, <2>4
  <2> QED
    BY <1>0, <1>1, <1>9, <1>12, <2>3, <2>4, <2>5
<1>13. CASE inv.igst = 0 /\ short <= AmountTolerance /\ inv.eligible
            /\ 0 < late /\ late <= ClaimWindow
  <2>1. m[4].applies /\ ~ m[1].applies /\ ~ m[2].applies /\ ~ m[3].applies
    BY <1>0, <1>1, <1>4, <1>13
  <2>2. \A j \in 1 .. 6 : j < 4 => j = 1 \/ j = 2 \/ j = 3
    OBVIOUS
  <2>3. FilingVerdict(s, {inv}) = m[4]
    BY <1>7, <2>1, <2>2
  <2>4. lost = 0 /\ m[4].at_risk = 0 /\ m[4].claim_state = "DEFERRED"
    BY <1>0, <1>1, <1>4, <1>5, <1>6, <1>8, <1>13
  <2> QED
    BY <1>0, <1>1, <1>9, <1>13, <2>3, <2>4
<1>14. CASE inv.igst = 0 /\ short <= AmountTolerance /\ inv.eligible /\ late # 0
            /\ ~ (0 < late /\ late <= ClaimWindow)
  <2>1. m[5].applies /\ ~ m[1].applies /\ ~ m[2].applies /\ ~ m[3].applies /\ ~ m[4].applies
    BY <1>0, <1>1, <1>4, <1>14
  <2>2. \A j \in 1 .. 6 : j < 5 => j = 1 \/ j = 2 \/ j = 3 \/ j = 4
    OBVIOUS
  <2>3. FilingVerdict(s, {inv}) = m[5]
    BY <1>7, <2>1, <2>2
  <2>4. lost = t /\ m[5].at_risk = t /\ m[5].claim_state = "AT_RISK"
    BY <1>0, <1>1, <1>4, <1>5, <1>6, <1>8, <1>14
  <2> QED
    BY <1>0, <1>1, <1>9, <1>14, <2>3, <2>4
<1>15. CASE inv.igst = 0 /\ short <= AmountTolerance /\ inv.eligible /\ late = 0
  <2>1. /\ m[6].applies /\ ~ m[1].applies /\ ~ m[2].applies /\ ~ m[3].applies
        /\ ~ m[4].applies /\ ~ m[5].applies
    BY <1>0, <1>1, <1>4, <1>15
  <2>2. \A j \in 1 .. 6 : j < 6 => j = 1 \/ j = 2 \/ j = 3 \/ j = 4 \/ j = 5
    OBVIOUS
  <2>3. FilingVerdict(s, {inv}) = m[6]
    BY <1>7, <2>1, <2>2
  <2>4. lost = short /\ m[6].at_risk = 0 /\ m[6].claim_state = "CLAIMABLE" /\ m[6].status = "MATCHED"
    BY <1>0, <1>1, <1>4, <1>5, <1>6, <1>8, <1>15
  <2>5. /\ m[6].at_risk \in Int /\ m[6].at_risk <= lost
        /\ lost <= m[6].at_risk + AmountTolerance
        /\ m[6].claim_state \in {"CLAIMABLE", "DEFERRED"} <=> lost <= AmountTolerance
    BY <1>1, <1>15, <2>4
  <2> QED
    BY <1>0, <1>1, <1>9, <1>15, <2>3, <2>4, <2>5
<1>16. short <= AmountTolerance \/ short > AmountTolerance
  BY <1>1
<1> QED
  BY <1>10, <1>11, <1>12, <1>13, <1>14, <1>15, <1>16

LEMMA DefectsAccounted ==
    ASSUME NEW s \in Settlement, header[s].tax \in Int, header[s].tax > AmountTolerance,
           NEW filed \in OneDefect(s)
    PROVE  Accounted(s, filed)
<1>1. PICK t \in Int : t = header[s].tax
  OBVIOUS
<1>2. AmountTolerance \in Nat /\ ClaimWindow \in Nat /\ Month[s] \in Int
  BY TaxAssumption
<1>3. PICK c \in Int, g \in Int : c = t - t \div 2 /\ g = t \div 2 /\ c + g = t
  OBVIOUS
<1>4. PICK der : der = Derived(s)
  OBVIOUS
<1>5. der = [period |-> Month[s], cgst |-> c, sgst |-> g, igst |-> 0, eligible |-> TRUE]
  BY <1>1, <1>3, <1>4 DEF Derived, Invoice
<1>6. ASSUME NEW inv, NEW short, NEW late, OneThingWrong(s, t, inv, short, late), filed = {inv}
      PROVE  Accounted(s, filed)
  BY <1>6, InvoiceAccounted
<1>7. CASE filed = {}
  BY <1>7, UnfiledAccounted
<1>8. CASE filed = {der}
  <2>1. InvoiceTax(der) = t /\ der.igst = 0 /\ der.eligible /\ der.period = Month[s]
    BY <1>2, <1>3, <1>5 DEF InvoiceTax
  <2>2. OneThingWrong(s, t, der, 0, 0)
    BY <1>1, <1>2, <2>1 DEF OneThingWrong
  <2> QED
    BY <1>6, <1>8, <2>2
<1>9. ASSUME NEW inv, inv = [der EXCEPT !.cgst = 0, !.sgst = 0, !.igst = t], filed = {inv}
      PROVE  Accounted(s, filed)
  <2>1. inv.period = Month[s] /\ inv.cgst = 0 /\ inv.sgst = 0 /\ inv.igst = t /\ inv.eligible
    BY <1>5, <1>9
  <2>2. InvoiceTax(inv) = t /\ inv # der
    BY <1>1, <1>2, <1>5, <2>1 DEF InvoiceTax
  <2>3. OneThingWrong(s, t, inv, 0, 0)
    BY <1>1, <1>2, <1>4, <2>1, <2>2 DEF OneThingWrong
  <2> QED
    BY <1>6, <1>9, <2>3
<1>10. ASSUME NEW inv, inv = [der EXCEPT !.eligible = FALSE], filed = {inv}
       PROVE  Accounted(s, filed)
  <2>1. inv.period = Month[s] /\ inv.cgst = c /\ inv.sgst = g /\ inv.igst = 0 /\ ~ inv.eligible
    BY <1>5, <1>10
  <2>2. InvoiceTax(inv) = t /\ inv # der
    BY <1>3, <1>5, <2>1 DEF InvoiceTax
  <2>3. OneThingWrong(s, t, inv, 0, 0)
    BY <1>1, <1>2, <1>4, <2>1, <2>2 DEF OneThingWrong
  <2> QED
    BY <1>6, <1>10, <2>3
<1>11. ASSUME NEW d \in 1 .. (AmountTolerance + 1), NEW inv, inv = [der EXCEPT !.cgst = @ - d],
              filed = {inv}
       PROVE  Accounted(s, filed)
  <2>1. inv.period = Month[s] /\ inv.cgst = c - d /\ inv.sgst = g /\ inv.igst = 0 /\ inv.eligible
    BY <1>5, <1>11
  <2>2. InvoiceTax(inv) = t - d /\ inv # der
    BY <1>2, <1>3, <1>5, <2>1 DEF InvoiceTax
  <2>3. OneThingWrong(s, t, inv, d, 0)
    BY <1>1, <1>2, <1>4, <2>1, <2>2 DEF OneThingWrong
  <2> QED
    BY <1>6, <1>11, <2>3
<1>12. ASSUME NEW d \in -1 .. (ClaimWindow + 1), NEW inv, inv = [der EXCEPT !.period = @ + d],
              filed = {inv}
       PROVE  Accounted(s, filed)
  <2>1. inv.period = Month[s] + d /\ inv.cgst = c /\ inv.sgst = g /\ inv.igst = 0 /\ inv.eligible
    BY <1>5, <1>12
  <2>2. InvoiceTax(inv) = t
    BY <1>3, <2>1 DEF InvoiceTax
  <2>3. der.period = Month[s] /\ d \in Int
    BY <1>2, <1>5
  <2>4. inv = der => d = 0
    BY <1>2, <2>1, <2>3
  <2>5. OneThingWrong(s, t, inv, 0, d)
    BY <1>1, <1>2, <1>4, <2>1, <2>2, <2>3, <2>4 DEF OneThingWrong
  <2> QED
    BY <1>6, <1>12, <2>5
<1>13. \/ filed = {} \/ filed = {der}
       \/ filed = {[der EXCEPT !.cgst = 0, !.sgst = 0, !.igst = t]}
       \/ filed = {[der EXCEPT !.eligible = FALSE]}
       \/ \E d \in 1 .. (AmountTolerance + 1) : filed = {[der EXCEPT !.cgst = @ - d]}
       \/ \E d \in -1 .. (ClaimWindow + 1) : filed = {[der EXCEPT !.period = @ + d]}
  BY <1>1, <1>4 DEF OneDefect
<1> QED
  BY <1>7, <1>8, <1>9, <1>10, <1>11, <1>12, <1>13

\* Whatever one thing a supplier did to the invoice of a settlement, the report puts at
\* risk what the merchant cannot offset, to the tolerance, and calls the credit usable
\* exactly when it is (engine/taxmatch.py:296-351).
THEOREM FiledCreditIsAccounted == Spec => []FiledCreditAccounted
<1>1. BatchInit => CleanInv
  BY InitClean DEF BatchInit
<1>2. CleanInv => FiledCreditAccounted
  <2> SUFFICES ASSUME CleanInv, NEW s \in Taxed, NEW filed \in OneDefect(s),
                      header[s].tax > AmountTolerance
               PROVE  Accounted(s, filed)
    BY DEF FiledCreditAccounted, Accounted
  <2>1. s \in Settlement /\ header[s].tax \in Int
    BY DEF Taxed, CleanInv, Typed, TaxTyped
  <2> QED
    BY <2>1, DefectsAccounted
<1> QED
  BY <1>1, <1>2, CleanStep, PTL DEF Spec
=============================================================================
