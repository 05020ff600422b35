-------------------------- MODULE CreditAssignment --------------------------
(***************************************************************************)
(* What the bank matcher promises, without saying how it looks for         *)
(* evidence: bank lines are handed to settlements for good, never twice,   *)
(* and where one line pays several settlements, or several lines pay one,  *)
(* the amounts agree to the paisa.                                         *)
(***************************************************************************)
EXTENDS Integers

CONSTANTS
    Settlement, Bank,
    Total(_, _)    \* the sum of a function's values over a set

VARIABLES
    net, credit,   \* what is due and what the bank statement shows
    link,          \* the lines each settlement was given
    flagged        \* settlements more than one match was possible for

Open  == {s \in Settlement : link[s] = {}}
Owned == UNION {link[s] : s \in Settlement}
Free  == {b \in Bank : credit[b] > 0 /\ b \notin Owned}

Several(X) == \E x, y \in X : x # y

\* One line for one settlement, on whatever evidence.
Give(s, b) ==
    /\ s \in Open /\ b \in Free
    /\ link' = [link EXCEPT ![s] = {b}]
    /\ UNCHANGED <<net, credit, flagged>>

\* One line pays several settlements in full.
Gather(S, b) ==
    /\ S \subseteq Open /\ Several(S) /\ b \in Free
    /\ Total(net, S) = credit[b]
    /\ link' = [s \in Settlement |-> IF s \in S THEN {b} ELSE link[s]]
    /\ UNCHANGED <<net, credit, flagged>>

\* Several lines pay one settlement in full.
Spread(s, B) ==
    /\ s \in Open /\ B \subseteq Free /\ Several(B)
    /\ Total(credit, B) = net[s]
    /\ link' = [link EXCEPT ![s] = B]
    /\ UNCHANGED <<net, credit, flagged>>

\* Only an open settlement may be found ambiguous.
Flag(s) ==
    /\ s \in Open
    /\ flagged' = flagged \cup {s}
    /\ UNCHANGED <<net, credit, link>>

Init ==
    /\ link = [s \in Settlement |-> {}]
    /\ flagged = {}

Next ==
    \/ \E s \in Settlement : Flag(s)
    \/ \E s \in Settlement, b \in Bank : Give(s, b)
    \/ \E S \in SUBSET Settlement, b \in Bank : Gather(S, b)
    \/ \E s \in Settlement, B \in SUBSET Bank : Spread(s, B)

Spec == Init /\ [][Next]_<<net, credit, link, flagged>>
=============================================================================
