---------------------------- MODULE AppendLedger ----------------------------
(***************************************************************************)
(* Append mode: a dataset that grows by ticks (generator/append.py,        *)
(* generator/origin.py), issued by any number of API workers, cron jobs    *)
(* and terminals with no shared state but PostgreSQL.                      *)
(*                                                                         *)
(* A tick reads its continuation state in separate statements.  Under READ *)
(* COMMITTED, the default isolation, each one sees what is committed when  *)
(* it runs, so every statement is an action.  Then the tick builds its     *)
(* batch in memory and writes it in one transaction: one action, committed *)
(* or refused by a primary key.                                            *)
(*                                                                         *)
(* Settlement ids are 1, 2, ...; a settlement covers one period of the     *)
(* calendar, and periods are numbered the same way.                        *)
(***************************************************************************)
EXTENDS Integers, Sequences, FiniteSets, Bags, FiniteSetsExt, Functions

CONSTANTS
    Process,       \* callers of tick
    NSequence,     \* length of _SEQUENCES; settlement ids come last
    NBase,         \* settlements of the generated dataset
    BatchSize,     \* most settlements one tick may append
    MaxSettlement  \* bound on the settlements of the dataset

ASSUME SequenceAssumption == NSequence \in Nat \ {0}
ASSUME SizeAssumption ==
    NBase \in Nat \ {0, 1} /\ BatchSize \in Nat /\ MaxSettlement \in Nat

(***************************************************************************)
(* What the batch that made a settlement did with its bank credit:         *)
(*   credited   a line of the batch carries its UTR                        *)
(*   silent     no line does: the line was merged, split, stripped, lost   *)
(*   in_flight  the credit is withheld, to land with the next batch        *)
(*   on_hold    the settlement has no UTR                                  *)
(*   owing      its net is not positive: there is nothing to credit        *)
(***************************************************************************)
Fate == {"credited", "silent", "in_flight", "on_hold", "owing"}

VARIABLES
    settlements,   \* the committed rows, by id
    bank,          \* the references the bank lines carry, as a bag
    row_counts,    \* datasets.row_counts: total and batch log
    pc,            \* the statement each caller is about to run
    origin         \* what each caller has read

vars == <<settlements, bank, row_counts, pc, origin>>

SettlementRow == [period : Nat, fate : Fate]
BatchEntry    == [settlements : Nat, withheld_bank : SUBSET Nat]
RowCounts     == [settlements : Nat, batches : Seq(BatchEntry)]
Origin        == [counts : RowCounts, last_end : Nat, seq : Seq(Nat),
                  pending : SUBSET Nat]

Statement == {"head", "bounds", "sequences", "pending", "persist"}

TypeOK ==
    /\ DOMAIN settlements = 1 .. Cardinality(DOMAIN settlements)
    /\ IsFiniteSet(DOMAIN settlements)
    /\ settlements \in [DOMAIN settlements -> SettlementRow]
    /\ IsABag(bank) /\ BagToSet(bank) \subseteq DOMAIN settlements
    /\ row_counts \in RowCounts
    /\ pc \in [Process -> Statement]
    /\ origin \in [Process -> Origin]

HighWater == Cardinality(DOMAIN settlements)
LastEnd   == Max({settlements[s].period : s \in DOMAIN settlements})
Withheld(counts) == UNION {e.withheld_bank : e \in Range(counts.batches)}

Unread == [counts |-> [settlements |-> 0, batches |-> <<>>], last_end |-> 0,
           seq |-> <<>>, pending |-> {}]
-----------------------------------------------------------------------------
\* load_origin, statement by statement.

\* A caller between two ticks has read nothing.
ReadHead(p) ==
    /\ pc[p] = "head"
    /\ pc' = [pc EXCEPT ![p] = "bounds"]
    /\ origin' = [origin EXCEPT ![p] = [Unread EXCEPT !.counts = row_counts]]
    /\ UNCHANGED <<settlements, bank, row_counts>>

ReadBounds(p) ==
    /\ pc[p] = "bounds"
    /\ pc' = [pc EXCEPT ![p] = "sequences"]
    /\ origin' = [origin EXCEPT ![p].last_end = LastEnd]
    /\ UNCHANGED <<settlements, bank, row_counts>>

\* Every batch adds rows under every sequence, so one high-water mark, the
\* number of settlements, stands for the highest id of each table.
ReadSequence(p) ==
    /\ pc[p] = "sequences" /\ Len(origin[p].seq) < NSequence
    /\ origin' = [origin EXCEPT ![p].seq = Append(@, HighWater)]
    /\ pc' = [pc EXCEPT ![p] =
           IF Len(origin[p].seq) + 1 = NSequence THEN "pending" ELSE @]
    /\ UNCHANGED <<settlements, bank, row_counts>>

\* Mutated form: without COALESCE one NULL reference in the bank statement,
\* and the noise lines have no other, makes NOT IN true of nothing.
PendingBank_NoCoalesce(p) == {}

\* Withheld, as the log read at the start has it, and not in the bank.  A NULL
\* UTR is never "NOT IN".
PendingBank(p) ==
    {s \in Withheld(origin[p].counts) :
        /\ s \in DOMAIN settlements
        /\ settlements[s].fate # "on_hold"
        /\ s \notin BagToSet(bank)}

ReadPending(p) ==
    /\ pc[p] = "pending"
    /\ pc' = [pc EXCEPT ![p] = "persist"]
    /\ origin' = [origin EXCEPT ![p].pending = PendingBank(p)]
    /\ UNCHANGED <<settlements, bank, row_counts>>
-----------------------------------------------------------------------------
\* build and persist_append.

(***************************************************************************)
(* A batch with anomalies withholds the credit of its last settlement with *)
(* a positive net.  The anomaly pass runs afterwards: it may put any       *)
(* settlement on hold, silence a credit that was not withheld, or sink the *)
(* net of the withheld one.  A clean batch does none of this.              *)
(***************************************************************************)
CleanBatch(fate) == Range(fate) \subseteq {"credited", "owing"}

AnomalousBatch(fate, held) ==
    \/ held = {} /\ Range(fate) \subseteq {"owing", "on_hold"}
    \/ \E w \in DOMAIN fate :
           /\ held = {w} /\ fate[w] \in {"in_flight", "on_hold", "owing"}
           /\ \A s \in DOMAIN fate :
                  /\ s < w => fate[s] # "in_flight"
                  /\ s > w => fate[s] \in {"owing", "on_hold"}

Landed(p) == {s \in origin[p].pending : settlements[s].fate # "owing"}
Credited(fate) == {s \in DOMAIN fate : fate[s] = "credited"}

\* The ids a batch mints and the periods they cover.
LastId(p) == origin[p].seq[NSequence]

\* Mutated form: the position in the batch is counted from one.
Minted_FromOne(p, n) == LastId(p) + 2 .. LastId(p) + n + 1

Minted(p, n) == LastId(p) + 1 .. LastId(p) + n

\* Mutated form: the calendar resumes on the day it stopped.
Period_SameDay(p, s) == origin[p].last_end + s - LastId(p) - 1

Period(p, s) == origin[p].last_end + s - LastId(p)

\* Mutated form: no table has a primary key.
Conflict_Never(p) == FALSE

\* A row that already has one of the ids the batch mints is a conflict.
Conflict(p) == \E i \in 1 .. NSequence : origin[p].seq[i] < HighWater

\* Mutated form: the log of a dataset that predates append mode starts empty.
RolledForward_NoFirst(counts, n, held) ==
    [settlements |-> counts.settlements + n,
     batches |-> Append(counts.batches, [settlements |-> n, withheld_bank |-> held])]

\* Mutated form: batch 1 is counted again when its entry is made up.
RolledForward_BaseTwice(counts, n, held) ==
    LET first == [settlements |-> counts.settlements, withheld_bank |-> {}]
    IN  IF counts.batches = <<>>
        THEN [settlements |-> 2 * counts.settlements + n,
              batches |-> <<first, [settlements |-> n, withheld_bank |-> held]>>]
        ELSE [settlements |-> counts.settlements + n,
              batches |-> Append(counts.batches,
                                 [settlements |-> n, withheld_bank |-> held])]

\* The whole row_counts document is written back from the copy read at the
\* start.  A dataset that predates append mode gets an entry for batch 1.
RolledForward(counts, n, held) ==
    LET first == [settlements |-> counts.settlements, withheld_bank |-> {}]
        log   == IF counts.batches = <<>> THEN <<first>> ELSE counts.batches
    IN  [settlements |-> counts.settlements + n,
         batches |-> Append(log, [settlements |-> n, withheld_bank |-> held])]

Finished(p) == /\ pc' = [pc EXCEPT ![p] = "head"]
               /\ origin' = [origin EXCEPT ![p] = Unread]

Persist(p) ==
    /\ pc[p] = "persist" /\ ~Conflict(p)
    /\ \E n \in 1 .. BatchSize :
           /\ LastId(p) + n <= MaxSettlement
           /\ \E fate \in [Minted(p, n) -> Fate], held \in SUBSET Minted(p, n) :
                  /\ (CleanBatch(fate) /\ held = {}) \/ AnomalousBatch(fate, held)
                  /\ settlements' = [s \in DOMAIN settlements \cup Minted(p, n) |->
                         IF s \in Minted(p, n)
                         THEN [period |-> Period(p, s), fate |-> fate[s]]
                         ELSE settlements[s]]
                  /\ bank' = bank (+) SetToBag(Landed(p)) (+) SetToBag(Credited(fate))
                  /\ row_counts' = RolledForward(origin[p].counts, n, held)
    /\ Finished(p)

\* The primary key refuses the batch and the whole transaction rolls back.
Refuse(p) ==
    /\ pc[p] = "persist" /\ Conflict(p)
    /\ Finished(p)
    /\ UNCHANGED <<settlements, bank, row_counts>>

\* The caller dies before its transaction commits.
Crash(p) ==
    /\ pc[p] # "head"
    /\ Finished(p)
    /\ UNCHANGED <<settlements, bank, row_counts>>

Init ==
    /\ settlements = [s \in 1 .. NBase |-> [period |-> s, fate |-> "credited"]]
    /\ bank = SetToBag(1 .. NBase)
    /\ row_counts = [settlements |-> NBase, batches |-> <<>>]
    /\ pc = [p \in Process |-> "head"]
    /\ origin = [p \in Process |-> Unread]

Tick(p) ==
    \/ ReadHead(p) \/ ReadBounds(p) \/ ReadSequence(p) \/ ReadPending(p)
    \/ Persist(p) \/ Refuse(p) \/ Crash(p)

Next == \E p \in Process : Tick(p)

Spec == Init /\ [][Next]_vars
-----------------------------------------------------------------------------
(***************************************************************************)
(* Properties.                                                             *)
(***************************************************************************)
InFlight == {s \in DOMAIN settlements : settlements[s].fate = "in_flight"}
Open     == InFlight \ BagToSet(bank)

\* No settlement is ever credited twice under its UTR, however many ticks run
\* at once: the second tick to land a withheld credit is refused, or has seen
\* it land (origin.py:92-137).
CreditLandsAtMostOnce == \A s \in BagToSet(bank) : bank[s] = 1

\* The log may lose a batch, but never counts settlements that are not there,
\* nor withholds a credit of a settlement nobody wrote (append.py:49-71).
LogNeverInvents ==
    /\ row_counts.settlements <= HighWater
    /\ Withheld(row_counts) \subseteq DOMAIN settlements

\* Periods tile the calendar with no gap and no overlap, across every seam
\* between two batches (generate.py:173-179).
PeriodsTile ==
    \A s \in DOMAIN settlements :
        /\ \A t \in DOMAIN settlements \ {s} : settlements[t].period # settlements[s].period
        /\ settlements[s].period > 1 =>
               \E t \in DOMAIN settlements : settlements[t].period = settlements[s].period - 1

\* The entries of the batch log add up to the total beside them and to the
\* rows that are there (append.py:49-71).
LogAddsUp ==
    LET Size(e) == row_counts.batches[e].settlements
    IN  /\ row_counts.settlements = HighWater
        /\ row_counts.batches # <<>> =>
               SumFunction([e \in DOMAIN row_counts.batches |-> Size(e)]) = HighWater

\* What a tick left in flight lands with the very next one: an open credit is
\* one the newest batch withheld (test_append.py:144).
InFlightLandsNext ==
    \A s \in Open : /\ row_counts.batches # <<>>
                    /\ s \in row_counts.batches[Len(row_counts.batches)].withheld_bank

\* "The batch log: what each tick added, and what it left in flight"
\* (api/main.py:136): an open credit is in the log, or it never lands.
InFlightIsLogged == Open \subseteq Withheld(row_counts)
=============================================================================
