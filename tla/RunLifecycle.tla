---------------------------- MODULE RunLifecycle ----------------------------
(***************************************************************************)
(* A reconciliation run (engine/runner.py: run) among ticks, regenerations *)
(* and other runs of one dataset, each in an API worker or a terminal of   *)
(* its own, with PostgreSQL (db/schema.sql) between them.                  *)
(*                                                                         *)
(* A run commits its row as RUNNING, loads the dataset table by table,     *)
(* reconciles in memory, commits all derived rows at once, scores itself   *)
(* with two more queries and commits COMPLETED.  Under READ COMMITTED each *)
(* query sees what is committed when it runs: one action per query, one    *)
(* per commit.                                                             *)
(*                                                                         *)
(* The dataset is counted in batches, the smallest unit that commits: a    *)
(* table read when the dataset has n batches holds the rows of 1 .. n.     *)
(* Beside its rows it has row_counts, which says how many there are; a     *)
(* tick writes it back from the copy it read first (append.py:49, 67-71),  *)
(* so it may be wrong.  AppendLedger has the ticks in full.                *)
(* Its id comes from the seed, so a regenerated dataset has the same id;   *)
(* incarnations are told apart here by an epoch no row carries.            *)
(***************************************************************************)
EXTENDS Integers

CONSTANTS
    Worker,            \* threads and processes that may run the engine
    Ticker,            \* threads and processes that may tick
    Table,             \* the tables of load an instance looks at
    MaxRun, MaxBatch, MaxEpoch,    \* bounds
    Mortal             \* workers that may be killed

\* Mutated form: transfers are loaded before the items and the allocations they pay.
LoadOrder_TransfersFirst ==
    [settlements |-> 1, transfers |-> 2, items |-> 3, payments |-> 4, refunds |-> 5,
     adjustments |-> 6, allocations |-> 7, bank |-> 8, ledger |-> 9, sellers |-> 10]

\* The SELECTs of load, in their order.
LoadOrder ==
    [settlements |-> 1, items |-> 2, payments |-> 3, refunds |-> 4, adjustments |-> 5,
     allocations |-> 6, transfers |-> 7, bank |-> 8, ledger |-> 9, sellers |-> 10]

ASSUME TableAssumption == Table \subseteq DOMAIN LoadOrder /\ "settlements" \in Table
ASSUME BoundAssumption == MaxRun \in Nat /\ MaxBatch \in Nat \ {0} /\ MaxEpoch \in Nat
ASSUME MortalAssumption == Mortal \subseteq Worker

VARIABLES
    dataset,   \* the committed dataset: epoch, batches, row_counts, and which
               \* batches planted guards
    head,      \* row_counts as each tick in progress read it; 0 where there is none
    runs,      \* reconciliation_runs and the rows derived under each run_id
    minted,    \* run ids handed out: uuid4 never repeats one
    pc, job    \* where each worker is, and what it holds in memory

vars == <<dataset, head, runs, minted, pc, job>>

Batch   == 1 .. MaxBatch
Reading == [read : BOOLEAN, epoch : Nat, batches : Nat]
Picture == [Table -> Reading]

Dataset == [epoch : Nat, batches : Nat, counted : Nat, guards : SUBSET Nat]
Run     == [status : {"RUNNING", "COMPLETED"}, picture : Picture, counts : Nat]
Job     == [run : Nat, view : Picture, truth : SUBSET Nat, counts : Nat]
Step    == {"idle", "load", "persist", "truth", "counts", "complete"}

TypeOK ==
    /\ dataset \in Dataset
    /\ head \in [Ticker -> Nat]
    /\ minted \in Nat
    /\ DOMAIN runs \subseteq 1 .. minted
    /\ runs \in [DOMAIN runs -> Run]
    /\ pc \in [Worker -> Step]
    /\ job \in [Worker -> Job]

NoPicture == [t \in Table |-> [read |-> FALSE, epoch |-> 0, batches |-> 0]]
NoJob == [run |-> 0, view |-> NoPicture, truth |-> {}, counts |-> 0]

Present   == dataset.batches > 0
Now       == [read |-> TRUE, epoch |-> dataset.epoch, batches |-> dataset.batches]
Exists(w) == job[w].run \in DOMAIN runs
Idle(w)   == /\ pc' = [pc EXCEPT ![w] = "idle"]
             /\ job' = [job EXCEPT ![w] = NoJob]
-----------------------------------------------------------------------------
\* The engine, one run.

\* Mutated form: the status column has no default.
Start_NoDefault(w) ==
    /\ pc[w] = "idle" /\ Present /\ minted < MaxRun
    /\ minted' = minted + 1
    /\ runs' = [r \in DOMAIN runs \cup {minted'} |->
           IF r = minted' THEN [status |-> "", picture |-> NoPicture, counts |-> 0]
           ELSE runs[r]]
    /\ pc' = [pc EXCEPT ![w] = "load"]
    /\ job' = [job EXCEPT ![w] = [NoJob EXCEPT !.run = minted']]
    /\ UNCHANGED <<dataset, head>>

\* The foreign key refuses a run of a dataset that is not there.
Start(w) ==
    /\ pc[w] = "idle" /\ Present /\ minted < MaxRun
    /\ minted' = minted + 1
    /\ runs' = [r \in DOMAIN runs \cup {minted'} |->
           IF r = minted' THEN [status |-> "RUNNING", picture |-> NoPicture, counts |-> 0]
           ELSE runs[r]]
    /\ pc' = [pc EXCEPT ![w] = "load"]
    /\ job' = [job EXCEPT ![w] = [NoJob EXCEPT !.run = minted']]
    /\ UNCHANGED <<dataset, head>>

\* The table that is read next.
Unread(w) == {t \in Table : ~ job[w].view[t].read}
IsNext(w, t) == t \in Unread(w) /\ \A u \in Unread(w) : LoadOrder[t] <= LoadOrder[u]

\* One SELECT of load: all of one table, as it is now.
ReadTable(w, t) ==
    /\ pc[w] = "load" /\ IsNext(w, t)
    /\ job' = [job EXCEPT ![w].view[t] = Now]
    /\ pc' = [pc EXCEPT ![w] = IF Unread(w) = {t} THEN "persist" ELSE @]
    /\ UNCHANGED <<dataset, head, runs, minted>>

\* Every derived row references the run: a run that was deleted gets none.
Persist(w) ==
    /\ pc[w] = "persist" /\ Exists(w)
    /\ runs' = [runs EXCEPT ![job[w].run].picture = job[w].view]
    /\ pc' = [pc EXCEPT ![w] = "truth"]
    /\ UNCHANGED <<dataset, head, minted, job>>

PersistFails(w) ==
    /\ pc[w] = "persist" /\ ~Exists(w)
    /\ Idle(w) /\ UNCHANGED <<dataset, head, runs, minted>>

ReadTruth(w) ==
    /\ pc[w] = "truth"
    /\ job' = [job EXCEPT ![w].truth = dataset.guards]
    /\ pc' = [pc EXCEPT ![w] = "counts"]
    /\ UNCHANGED <<dataset, head, runs, minted>>

\* Mutated form: results has no entry for a guarded settlement nobody matched.
Scorable_MatchedOnly(w) == job[w].truth = {}

\* results has an entry for every settlement that was loaded, and for no other.
Scorable(w) == \A g \in job[w].truth : g <= job[w].view.settlements.batches

ReadCounts(w) ==
    /\ pc[w] = "counts" /\ Present /\ Scorable(w)
    /\ job' = [job EXCEPT ![w].counts = dataset.counted]
    /\ pc' = [pc EXCEPT ![w] = "complete"]
    /\ UNCHANGED <<dataset, head, runs, minted>>

\* IndexError without a dataset, KeyError for a guard planted since the load.
ReadCountsFails(w) ==
    /\ pc[w] = "counts" /\ ~(Present /\ Scorable(w))
    /\ Idle(w) /\ UNCHANGED <<dataset, head, runs, minted>>

\* Mutated form: WHERE dataset_id instead of WHERE run_id.
Complete_WholeDataset(w) ==
    /\ pc[w] = "complete"
    /\ runs' = [r \in DOMAIN runs |->
           [runs[r] EXCEPT !.status = "COMPLETED", !.counts = job[w].counts]]
    /\ Idle(w) /\ UNCHANGED <<dataset, head, minted>>

\* An UPDATE of a run that was deleted meets no row, and is no error.
Complete(w) ==
    /\ pc[w] = "complete"
    /\ runs' = [r \in DOMAIN runs |->
           IF r = job[w].run
           THEN [runs[r] EXCEPT !.status = "COMPLETED", !.counts = job[w].counts]
           ELSE runs[r]]
    /\ Idle(w) /\ UNCHANGED <<dataset, head, minted>>

\* The worker is killed: what it had committed stays, what it had not is lost.
Crash(w) ==
    /\ w \in Mortal /\ pc[w] # "idle"
    /\ Idle(w) /\ UNCHANGED <<dataset, head, runs, minted>>
-----------------------------------------------------------------------------
\* What happens to the dataset meanwhile.

\* Mutated form: the runs of a dataset do not go with it.
Cascade_None == runs

\* ON DELETE CASCADE: all of these are runs of the one dataset.
Cascade == [r \in {} |-> runs[r]]

\* A tick reads row_counts first of all, and carries it through the generation.
TickReads(k) ==
    /\ head[k] = 0 /\ Present
    /\ head' = [head EXCEPT ![k] = dataset.counted]
    /\ UNCHANGED <<dataset, runs, minted, pc, job>>

\* Mutated form: the counts of the batch are not added to those before it.
Tick_OwnCounts(k) ==
    /\ head[k] > 0 /\ Present /\ dataset.batches < MaxBatch
    /\ \E planted \in SUBSET {dataset.batches + 1} :
           dataset' = [dataset EXCEPT !.batches = @ + 1, !.counted = 1,
                                      !.guards = @ \cup planted]
    /\ head' = [head EXCEPT ![k] = 0]
    /\ UNCHANGED <<runs, minted, pc, job>>

\* It commits one more batch, which may plant a matcher guard, and row_counts
\* with it: what it read, and its own.
Tick(k) ==
    /\ head[k] > 0 /\ Present /\ dataset.batches < MaxBatch
    /\ \E planted \in SUBSET {dataset.batches + 1} :
           dataset' = [dataset EXCEPT !.batches = @ + 1, !.counted = head[k] + 1,
                                      !.guards = @ \cup planted]
    /\ head' = [head EXCEPT ![k] = 0]
    /\ UNCHANGED <<runs, minted, pc, job>>

\* Refused by a key, or killed: nothing of it stays.
TickFails(k) ==
    /\ head[k] > 0
    /\ head' = [head EXCEPT ![k] = 0]
    /\ UNCHANGED <<dataset, runs, minted, pc, job>>

Fresh(planted) ==
    dataset' = [epoch |-> dataset.epoch + 1, batches |-> 1, counted |-> 1,
                guards |-> planted]

\* The API deletes and inserts in one transaction.
Regenerate ==
    /\ dataset.epoch < MaxEpoch
    /\ \E planted \in SUBSET {1} : Fresh(planted)
    /\ runs' = Cascade
    /\ UNCHANGED <<head, minted, pc, job>>

\* The command line commits the DELETE, then inserts.
Delete ==
    /\ Present /\ dataset.epoch < MaxEpoch
    /\ dataset' = [dataset EXCEPT !.batches = 0, !.counted = 0, !.guards = {}]
    /\ runs' = Cascade
    /\ UNCHANGED <<head, minted, pc, job>>

Insert ==
    /\ ~Present /\ dataset.epoch < MaxEpoch
    /\ \E planted \in SUBSET {1} : Fresh(planted)
    /\ UNCHANGED <<head, runs, minted, pc, job>>
-----------------------------------------------------------------------------
Init ==
    /\ \E planted \in SUBSET {1} :
           dataset = [epoch |-> 0, batches |-> 1, counted |-> 1, guards |-> planted]
    /\ head = [k \in Ticker |-> 0]
    /\ runs = [r \in {} |-> [status |-> "RUNNING", picture |-> NoPicture, counts |-> 0]]
    /\ minted = 0
    /\ pc = [w \in Worker |-> "idle"]
    /\ job = [w \in Worker |-> NoJob]

\* What a worker does on its own once its run has started.
Proceed(w) ==
    \/ \E t \in Table : ReadTable(w, t)
    \/ Persist(w) \/ PersistFails(w)
    \/ ReadTruth(w) \/ ReadCounts(w) \/ ReadCountsFails(w) \/ Complete(w)

Engine(w) == Start(w) \/ Proceed(w) \/ Crash(w)

Next ==
    \/ \E w \in Worker : Engine(w)
    \/ \E k \in Ticker : TickReads(k) \/ Tick(k) \/ TickFails(k)
    \/ Regenerate \/ Delete \/ Insert

Spec == Init /\ [][Next]_vars

\* A request that was accepted runs to its end on its own thread, unless that
\* thread is killed.  Nobody has to start a run, tick or regenerate.
Fairness == \A w \in Worker \ Mortal : WF_vars(Proceed(w))

FairSpec == Spec /\ Fairness
-----------------------------------------------------------------------------
(***************************************************************************)
(* Properties.                                                             *)
(***************************************************************************)
Persisted == {r \in DOMAIN runs : runs[r].picture # NoPicture}
Completed == {r \in DOMAIN runs : runs[r].status = "COMPLETED"}

\* A dataset may be replaced under a run that is still loading it, by one with
\* the same id and the same record ids.  No run that kept its rows mixes the
\* two, and all it reconciled is still in the book (runner.py:47-54, 161-182,
\* schema.sql:30).
RowsOfOneIncarnation ==
    \A r \in Persisted : \A t \in Table :
        /\ runs[r].picture[t].epoch = dataset.epoch
        /\ runs[r].picture[t].batches <= dataset.batches

\* <<t, u>>: a row of table t is judged by rows of table u that are looked up
\* for it, and one that is not found is held against it: a refund is missing, a
\* credit or a transfer was not made, a reference is unknown.
LooksUp ==
    { <<"settlements", "items">>,          \* calculation.py:50, invariants.py:103
      <<"settlements", "refunds">>,        \* calculation.py:82
      <<"settlements", "adjustments">>,    \* attribution.py:135, 182
      <<"settlements", "bank">>,           \* matcher.py:63
      <<"settlements", "ledger">>,         \* calculation.py:164
      <<"items", "payments">>,             \* invariants.py:42-49, calculation.py:56
      <<"items", "refunds">>,              \* invariants.py:43-49
      <<"items", "adjustments">>,          \* invariants.py:44-49
      <<"items", "transfers">>,            \* invariants.py:45-49
      <<"items", "ledger">>,               \* calculation.py:124
      <<"allocations", "transfers">> }     \* calculation.py:201, invariants.py:140

\* A tick that commits while the book is loaded tears the picture, but accuses
\* nobody: where a row is judged by others, those were read later, and what
\* committed with the row is among them (loader.py:44-54).
ReferencesResolve ==
    \A r \in Persisted : \A t, u \in Table :
        <<t, u>> \in LooksUp =>
            runs[r].picture[t].batches <= runs[r].picture[u].batches

RowsAreThere == \A r \in Completed : \A t \in Table : runs[r].picture[t].read

TotalCoversRows ==
    \A r \in Completed : \A t \in Table : runs[r].picture[t].batches <= runs[r].counts

\* COMPLETED is only said of a run that has the rows of every table.  With one
\* caller of tick, its total is at least what it reconciled: it is read after
\* the rows were committed, and no tick that fails, and none that began before
\* the dataset was replaced, takes from it (runner.py:161-190, metrics.py:29,
\* append.py:49, 67-71).
CompletedIsWhole == RowsAreThere /\ TotalCoversRows

\* "Re-running never mutates a prior run" (runner.py:6): persisted rows and
\* metrics never change, no run id comes back, and a run only goes with the
\* dataset it is about.
RunIsImmutable ==
    /\ \A r \in DOMAIN runs' :
           IF r \in DOMAIN runs
           THEN /\ r \in Persisted => runs'[r].picture = runs[r].picture
                /\ r \in Completed => runs'[r] = runs[r]
           ELSE r = minted' /\ r # minted
    /\ ~ DOMAIN runs \subseteq DOMAIN runs' =>
           dataset'.epoch # dataset.epoch \/ dataset'.batches = 0

RunsAreImmutable == [][RunIsImmutable]_vars

\* A run completes unless somebody interferes: one that starts to load a book
\* that is left alone from then on, on a worker nobody kills, is COMPLETED in
\* the end, whatever runs beside it (runner.py:42-192).
LeftAlone == Present /\ dataset.batches = MaxBatch /\ dataset.epoch = MaxEpoch

AboutToLoad(w, r) ==
    /\ r \in DOMAIN runs /\ job[w].run = r
    /\ pc[w] = "load" /\ job[w].view = NoPicture

UndisturbedRunCompletes ==
    \A w \in Worker \ Mortal, r \in 1 .. MaxRun :
        LeftAlone /\ AboutToLoad(w, r) ~> r \in Completed

\* A run without metrics is "not found or still running" (api/main.py:152):
\* while its status is RUNNING, somebody is running it.
RunningMeansAtWork ==
    \A r \in DOMAIN runs : runs[r].status = "RUNNING" =>
        \E w \in Worker : job[w].run = r

\* The settlements listed under a run are those the book has now, and a missing
\* verdict reads as "A" (api/main.py:164-195, 199-208).  A is "Auto-resolved on
\* deterministic evidence" (README.md:998): the run has reconciled what it
\* lists as A.
Listed == 1 .. dataset.batches
Reconciled(r) == 1 .. runs[r].picture.settlements.batches
WorstTier(r, s) == IF s \in Reconciled(r) THEN {"A", "B", "C"} ELSE {"A"}

TierAIsEarned ==
    \A r \in Completed : \A s \in Listed :
        "A" \in WorstTier(r, s) => s \in Reconciled(r)
=============================================================================
