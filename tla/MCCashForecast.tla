--------------------------- MODULE MCCashForecast ---------------------------
(* January 2026: the 5th is a Monday, the 26th a holiday. *)
EXTENDS CashForecast

Mdr == [UPI |-> 0, CARD |-> 200]
Card == [amount |-> 19900, method |-> "CARD"]
Upi == [amount |-> 60000, method |-> "UPI"]

\* One period or seven: a payment left over before seven is past due after them.
MCCycles ==
    {[size |-> 1, credit |-> c, sale |-> Card, share |-> "left over", owed |-> 70] : c \in Credits}
    \cup {[size |-> 7, credit |-> c, sale |-> Upi, share |-> "settled", owed |-> 90] : c \in {"paid", "withheld", "lost"}}

\* The default, before and after it, with a horizon at and beyond both bounds.
MCQuestions == {[offset |-> 0, horizon |-> 0], [offset |-> 0, horizon |-> 3],
                [offset |-> 0, horizon |-> 60], [offset |-> -2, horizon |-> 60],
                [offset |-> 1, horizon |-> 3], [offset |-> 5, horizon |-> 60]}

=============================================================================
