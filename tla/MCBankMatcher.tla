---------------------------- MODULE MCBankMatcher ----------------------------
(***************************************************************************)
(* Small instances of the bank matcher.  Each set of snapshots opens one   *)
(* dimension of the data and keeps the others still.                       *)
(***************************************************************************)
EXTENDS BankMatcher

CONSTANTS u1, u2, v1, tailU, tailV

MCUtr == {u1, u2, v1}
MCUtrTail == {tailU, tailV}
\* Two references end alike, one does not.
MCTailOf == [u \in MCUtr |-> IF u = v1 THEN tailV ELSE tailU]

\* What one bank line may say: nothing, the reference in its own column, the
\* reference in the narration (and so its tail), a truncated one, a garbled one.
Says(utr, quotes, resembles) ==
    [utr |-> utr, quotes |-> quotes, tails |-> {MCTailOf[u] : u \in quotes},
     resembles |-> resembles]
Silent == Says(NoUtr, {}, {})

SettlementRows(nets, dates, utrs) == [net : nets, date : dates, utr : utrs]

BankRows(credits, dates, texts) ==
    {[credit |-> c, date |-> d, utr |-> x.utr, quotes |-> x.quotes,
      tails |-> x.tails, resembles |-> x.resembles] :
        c \in credits, d \in dates, x \in texts}

SnapshotsOf(S, B) == [s : [Settlement -> S], b : [Bank -> B]]

\* Three settlements, two lines, amounts and dates without a reference.  Days 0
\* and 2 are outside the tolerance of one and inside the window of two.
AmountSnapshots ==
    SnapshotsOf(SettlementRows({1, 2}, {0, 1, 2}, {NoUtr}),
                BankRows({1, 2, 3}, {1, 2}, {Silent}))

\* Three settlements, two lines: references compete with amounts and sums.
MixedSnapshots ==
    SnapshotsOf(SettlementRows({1, 2}, {0}, {NoUtr, u1, u2}),
                BankRows({1}, {0}, {Says(NoUtr, {}, {u1})})
                \cup BankRows({1, 3}, {1}, {Silent, Says(u1, {}, {}),
                                            Says(NoUtr, {u2}, {u2})}))

ThreeByTwo == AmountSnapshots \cup MixedSnapshots
=============================================================================
