---------------------------- MODULE MCPlantedBatch ----------------------------
(* Two consecutive settlements, with every kind of record in one of them. *)
EXTENDS PlantedBatch

Mdr == [UPI |-> 0, CARD |-> 200, NETBANKING |-> 175]
Sellers == <<800, 1500>>      \* an enterprise and an individual

MCMonth == <<1, 1>>

Pay(amount, method, s) == [amount |-> amount, method |-> method, settlement |-> s]
Pending(r) == [r EXCEPT !.status = "PENDING"]

\* Payments 1 to 3 are settled by 1, 4 and 5 by 2, 6 by an earlier batch.
\* Payment 4 is refunded after the window, payment 5 in full, and payment 6
\* after its books were closed; the refund of payment 3 is still pending.
MCBooks ==
    { [payments |-> << Pay(450000, "CARD", 1), Pay(19900, "CARD", 1), Pay(19900, "CARD", 1),
                       Pay(400000, "NETBANKING", 2), Pay(60000, "CARD", 2), Pay(90000, "UPI", 0) >>,
       refunds  |-> { Refund(2, 1, Bps(19900, 5000), 1), Pending(Refund(3, 1, Bps(19900, 2500), 2)),
                      Refund(4, 1, Bps(400000, 2500), 3), Refund(5, 1, Bps(60000, 10000), 2),
                      Refund(6, 1, Bps(90000, 3300), 2) },
       adjustments |-> { Adjustment(1, 1, "ROLLING_RESERVE_HOLD", -5000, 0) }] }
MCShortfalls == {50000}

\* Payment 4 is split between both sellers; payment 2 is too small a payout
\* to be broken, but not too small to be promised or withheld.
MCAllotments ==
    { <<4, 1, 250000, "SETTLED">>, <<4, 2, 150000, "SETTLED">>, <<2, 2, 19900, "SETTLED">>,
      <<1, 1, 450000, "PENDING">>, <<3, 2, 19900, "REVERSED">>, <<5, 1, 60000, "REVERSED">> }
=============================================================================
