# A verification development of RazorRecon AI

RazorRecon reconciles the settlements of a payment gateway: it recomputes each
settlement from its transactions and refunds, finds the bank credit that paid it,
compares the ledger and the Route transfers with it, and explains every difference
to the paisa or refuses to. This directory holds TLA+ models of that program, TLC
configurations that check them on small instances, and theorems about them that
TLAPS checks for every value of the constants. Paths below are relative to `src/`.

## 1. Inventory

| component | state it keeps | operations | properties that make it correct |
|---|---|---|---|
| **bank matcher** `engine/matcher.py`, `subset_sum.py` | lines claimed, settlements resolved, ambiguous ones, results, the trail of candidates | eight passes in a fixed order over one snapshot | no credit counted twice, amount evidence never guesses, the trail explains the results |
| **append mode** `generator/append.py`, `origin.py` | settlements, periods, bank lines, `datasets.row_counts` (the batch log) | tick: read the origin statement by statement, generate, commit once | no id or credit twice, periods tile, a withheld credit lands next, the log adds up |
| **run lifecycle** `engine/runner.py`, `loader.py`, `db.py` | `reconciliation_runs` and the rows derived under a run id | start, ten SELECTs, reconcile, persist, score, complete | rows of one dataset, nothing judged by rows read too early, COMPLETED means whole, runs are immutable |
| **calculation** `engine/calculation.py`, `money.py`, `policy.py` | none (pure) | recompute fee, tax and net per record and in aggregate | claimed − actual is exactly the sum of the defects planted |
| **attribution** `engine/attribution.py`, `exceptions.py` | none (pure) | explain the deltas D1–D4, residual, tier, exceptions | explained + residual = delta, a tier A has no residual, evidence keys are unique |
| **invariant checks** `engine/invariants.py` | none (pure) | flag malformed records, exclude them from the recomputation | an excluded record explains itself |
| **metrics** `engine/metrics.py` | none (pure, two queries) | score a run against the planted ground truth | the rates are of the picture that was reconciled |
| **generator** `generator/generate.py`, `anomalies.py` | the book under construction, the claims of planters, the ground truth | build, plant at most one defect a settlement, post the ledger, plant ledger and transfer defects | each planted row has the ground truth the engine should report |
| **cash forecast** `engine/forecast.py`, `generator/calendar.py` | none (reads the book and delta 2 of a run) | date what is due, running balance, overdue, cut of what is returned | nothing that is due is lost or counted twice, the days add up to the totals |
| **tax matching** `engine/taxmatch.py` | none (reads the book and `tax_invoices`) | compare settlement GST, postings and GSTR-2B | the books verdict sees ledger defects only, the amount at risk is what cannot be offset |
| **lineage** `engine/lineage.py` | `money_edges` of a run | build the edges, trace | every paisa of a net is traced to its origin |
| **investigation agent** `agent/*` | `agent_transcripts`, created on demand; a cached verdict on that table | ask the model, run read-only tools, retry, ground citations, record | bounded, grounded, the transcript is what was answered, errors have a cause, every question ends |
| **HTTP API** `api/main.py`, `browse.py` | none | entry points of ticks, regenerations and runs; projections | what it lists is what a run found |
| **single page app**, **fixtures**, **scripts and configuration** | none | presentation, hand-made data, command line | not modelled |

The parts interact through PostgreSQL only, with one exception: a run calls loader,
invariants, calculation, matcher, attribution and lineage in memory, in that order, on
the snapshot it loaded. FastAPI runs each synchronous endpoint on a thread of a pool, and
a terminal may run the CLI beside it, so ticks, regenerations and runs of one dataset
overlap. There is no lock and no isolation above READ COMMITTED: each *statement* sees
what is committed when it starts (`engine/db.py`), keys and foreign keys
(`db/schema.sql`) are the only arbiters, and a process may be killed anywhere.

The generator is the other half of the program: it builds a clean book, breaks it with planters
that each leave a row of ground truth, and the metrics of a run compare what the engine says
with what was planted. Planters and engine meet only in the tables.

The hard behaviours, each with its line, are the `hazards` of `PROJECT.json`. The main ones:
the order of the greedy passes and the sibling guard of the matcher; the numeric edges of
its windows and its pool; the reads of a tick that belong to different moments; the batch
log that is read first and written back last; a snapshot torn between two SELECTs; a
failure between two commits of a run; a scoring that reads a later state than the one
it scores; the turn number that two questions read at once, a transaction that a tool's
error has aborted, a reply that is no reply; debts to sellers that a list has no room for; due dates counted by several functions over weekends and holidays; and some twenty planters that repair after themselves in a fixed order, so that a
defect of one delta does not become one of another.

## 2. Modules

| module | models | composed of |
|---|---|---|
| `BankMatcher` | `engine/matcher.py`, `subset_sum.py` | |
| `CreditAssignment` | what the matcher promises: the abstract specification | |
| `AppendLedger` | `generator/append.py`, `origin.py`: ticks | |
| `RunLifecycle` | `engine/runner.py`, `loader.py`, `db.py`, `db/schema.sql`, the two queries of `metrics.py`, regeneration, the listing of `api/main.py` | |
| `Money` | `engine/money.py`: `bps` | |
| `SettlementDiagnosis` | `engine/calculation.py`, `attribution.py`: deltas 1 and 3 | `Money` |
| `Planter` | `generator/anomalies.py` (settlements, ledger), `generate.py` (`build_ledger`, `build`) | `SettlementDiagnosis` |
| `SellerPayout` | delta 4: `compute_d4`, `attribute_d4` and its planters | `Planter` |
| `TaxCredit` | `engine/taxmatch.py`, the derived feed of `generate.py` | `Planter` |
| `PlantedBatch` | a batch from `build` to its score in `engine/metrics.py` | `SellerPayout`, `TaxCredit` |
| `PlantedBank` | the bank statement of `generate.py`, the planters of bank lines, delta 2 | `BankMatcher`, `WorkingCalendar` |
| `WorkingCalendar` | `generator/calendar.py` | |
| `CashForecast` | `engine/forecast.py`, over the calendar and pipeline of `generate.py` and `append.py` | `WorkingCalendar`, `Money` |
| `Investigation` | `agent/investigator.py`, `llm.py`, `store.py`, `tools.py`, the `ask` endpoint | |
| `MC...` | instances for TLC | |
| `...Proofs` | theorems and their proofs | the module they are named after, `TLAPS` |
| `PlantedDefectsProofs` | that diagnosis inverts planting: the theorems of `PlantedBatch` about what was planted | `PlantedBatchProofs` |
| `SumTheorems` | facts about finite sets and sums over them, for the proofs | `FiniteSetsExt`, `TLAPS` |

`BankMatcher` implements `CreditAssignment`: a settlement's `link` is the set of lines in its
result, `flagged` is the set of ambiguous ones, and each visit of each pass is one of `Give`,
`Gather`, `Spread`, `Flag` or a stutter (`ImplementsAssignment`).

### State and actions against the code

**BankMatcher.** One action is one visit of a pass: the body of one iteration of its loop, with
every book it updates (`claimed`, `resolved`, `results`, `ambiguous`, `candidates`). The eight
passes run in the order of `run_matcher`; a visit reads what earlier visits left. Names are
positions in id order, so sorting and tie-breaking are comparisons of numbers. A narration is
the set of references it answers to, in full, by its tail, or by similarity; the score itself is
left out, because it is recorded and never decides.

**AppendLedger.** A tick reads its origin in separate statements (`head`, `bounds`, one per id
sequence, `pending`), one action each, then builds its batch in memory and commits it once or
is refused by a primary key. What a batch did to the credit of each settlement (`Fate`) is
chosen freely. A caller may die at any statement.

**RunLifecycle.** One action per query and per commit of a run: `Start`, `ReadTable`,
`Persist`, `ReadTruth`, `ReadCounts`, `Complete`, each with its failure. The tables are those of
`load`, read in its order (`LoadOrder`); `LooksUp` says which rows are judged by which others, with
the line that does it. Ticks, regenerations by the API (one transaction) and by the CLI (two)
interleave. A dataset is a number of batches, the `row_counts` beside them (`counted`) and an epoch,
the incarnation, which no row of the program carries; a derived row is the picture of the tables it
was computed from. A tick is two steps here: it reads `row_counts` (`TickReads`) and commits a
batch with what it read plus its own (`Tick`), or fails. With two of them `counted` falls behind
the rows, as it does in the program; what else a tick reads is in `AppendLedger`.

**SettlementDiagnosis, Planter, SellerPayout, PlantedBatch.** The variables are the tables. The
engine is a set of operators over them: the rules of each delta in their order, what each finds,
the residual that is derived and never claimed, and the tier and label that follow. One action
is one planter at work on one settlement or payout: the choice, the defect, `rebuild_header`,
`sync_bank`, the claim and the ground truth, all in one. `Plan` is the order and the quota of
the planters, and the ledger is posted once between those before and those after. Dates are the
number of the settlement whose period contains them. Planters of bank lines are reduced here to
what the other deltas see of them: they claim a settlement, and keep or take away the line it
owns; `PlantedBank` has them in full.
A planter may find nothing in the window, because the window is part of a larger dataset.
`Reconcile` is the run of the engine over the stored batch; `results` holds its deltas with
label, tier, residual and attributions, and the scoring and most properties read `results`.

**TaxCredit.** Operators over the same tables: the feed `_copy_tax_invoices` derives, the books
leg, and the filing leg as a list of verdicts of which the first that applies is taken. The
invoices are not a variable: `FiledCreditAccounted` compares each settlement with the derived
invoice and with that invoice broken in one way, for every way a supplier can.

**PlantedBank.** A clean statement, then one action per planter of bank lines (the claim, the
settlement, its lines, the ground truth), then the steps of `BankMatcher`, which see
settlements and lines and nothing else; `Diagnose2` reads their outcome. The lines that the
program marks with `_settlement_id` are `tag`; a deleted line keeps its place and has no credit,
and an appended one takes the next. References are pairs: whose it is, and whose tail it ends
in. A statement may also be of another origin: then the matcher starts on any of `Snapshots`.

**CashForecast.** A day is a number. One action is a generated batch, a tick, a run, or a
forecast; a settlement keeps its period, its date and what the bank has of it, a run what delta
2 leaves open, and `view` is the forecast shown last. `Forecast` is `build` and `_roll_up`, with
every line and the totals; `to_dict` returns of it the lines of the window and the first
`max_payouts` of the overdue payouts, fifty in the program. Its several SELECTs are taken as one reading.

**Investigation.** One action per statement of a request, per attempt at the provider and per
tool call; requests interleave, the process may be restarted and the run deleted. `work` holds
the locals of `investigate`. A message of the model is how many calls it makes, an answer the
ids it cites and whether a column takes its text, a tool result the ids it holds. A reply that is
not JSON or not of the shape of one is `Malformed` and ends the request, unlike an outage
(`ProviderFails`). The turn is committed in one step and the response sent in another. PostgreSQL is modelled by what the code relies on:
a key waits for an uncommitted row and refuses a committed one, a refused statement aborts its
transaction until it is rolled back, two `CREATE TABLE IF NOT EXISTS` at once refuse one.

## 3. Runs

| run | question | instance |
|---|---|---|
| `matcher_amounts` | Is money given twice, or guessed? Does the matcher implement `CreditAssignment`? | 3 settlements, 2 lines; amounts 1 to 3, dates on both sides of each window, or references beside amounts |
| `planted_bank` | Do books, money and trail agree? Does each defect of the bank statement get its lines and its name? | 3 settlements over two weeks, every planter of bank lines; and 2 settlements, 3 lines of another origin: every kind of reference, every small sum in both directions |
| `append_concurrent` | Can two ticks at once credit twice or invent log entries? | 2 callers, 2 sequences, up to 3 appended settlements, 2 a tick, crashes |
| `append_serial` | Do calendar, log and withheld credit survive tick after tick? | 1 caller, up to 5 appended settlements |
| `append_lost_batch` | Is every withheld credit in the log? (no) | 2 callers, 1 settlement a tick |
| `run_lifecycle` | Are rows of one dataset, whole, immutable, and never judged by rows read before them? Does an undisturbed run complete? | 2 workers, one mortal, 1 caller of tick, 3 tables, 2 runs, 2 batches, 1 regeneration |
| `run_stuck` | Is a RUNNING run being worked on? (no) | 2 workers, none mortal, 1 caller of tick, 2 tables, 3 runs, 2 batches, 1 regeneration |
| `run_listing` | Is every settlement listed as tier A proven by that run? (no) | as `run_stuck` |
| `planted_batch` | Is every planted defect found, named and scored, and nothing else? Does the tax report see what the ledger hides? | 2 settlements, 6 payments, every planter; each settlement's invoice with every single defect |
| `investigation` | Is the transcript what was answered, are the budgets kept, do errors have a cause, does every question end? | 2 requests, 2 iterations, 2 tool calls, 2 attempts; the table there, absent or forbidden |
| `ask_echoed_id` | Does a grounded answer cite records only? (no) | as `investigation` |
| `cash_forecast` | Is what is owed returned once, on its day, or cut with reason, and do the days add up? | 3 batches of 1 or 7 periods in January 2026; 6 forecasts around the default day; 2 overdue payouts shown |

Why the bounds are enough:

- *Matcher.* A sibling conflict needs two settlements and one line, a rival for the loser a third
  settlement; a merged credit two settlements and a line, a split two lines and a settlement, a
  second solution one row more. `MaxCandidates` of 2 and `MaxSubset` of 2 let the cut hide a
  member and leave a sum out; the dates lie on both sides of the tolerance and of the window.
- *Planted bank.* Three settlements are a pair and a neighbour; two working days of one week and
  the first of the next give a lag of a calendar day and one of three. The nets have distinct
  sums, so that a match is never a coincidence: collisions of random amounts with each other or
  with noise lines are what `AMBIGUOUS` and the review queue are for. `NBank` of 7 is a line per
  settlement, one of noise, and one more per settlement. `MaxCandidates` of 6 is more than the
  unclaimed lines of a window: with fewer, the cut can hide a part of a split credit, which is
  then reported missing. The program cuts at ten.
- *Append.* A lost update needs two callers. Settlement ids are the last of two sequences, so
  that a commit fits between reading one sequence and another. Two settlements a tick let a
  batch withhold one credit and land another.
- *Lifecycle.* Three tables, settlements, items and transfers, let a tick or a regeneration fall
  before, between and after the reads of a run, and are a chain in `LooksUp`: a settlement is judged
  by its items, an item by its transfers. Two batches are one before and one after; one regeneration
  makes two incarnations under one id; a second run overlaps the first or meets what it left. The other
  pairs of `LooksUp` are covered by the theorem `NothingDangles`, which is about all ten tables.
- *Batch.* Two consecutive settlements are the least for the period gate and its trap, and for
  two settlements of one amount. The book has a payment of each rate, two small payments whose
  taxes round differently alone and together, a payment worth two partial refunds, one refunded
  in full, a pending refund, a refund after the window, a late refund of a closed settlement, an
  itemised adjustment and a payment split between two sellers. Amounts are in paise and policy
  rates are the real ones, small enough that `bps` stays inside TLC's integers. Quotas are the plan's.
  `CHECK_DEADLOCK FALSE`: a generated batch is stored, or refused, and generation ends.

- *Investigation.* Two requests are enough for two readers of one turn number and two makers of
  one table. With two iterations and two calls a message can hold all the calls that are left, one
  of two, or more than are left, and either budget can end the work first. One record that exists
  and one that does not are all that grounding tells apart.
- *Forecast.* January 2026 has a second and a fourth Saturday, Sundays and a holiday. Seven periods
  push what was left over before them past its due date; a horizon of 0 and of 60 are clamped to
  1 and `max_horizon`; a day before the default and one long after it see money on both sides. Up to
  eight payouts are overdue, of two sizes with ties, and two are shown.

`RunLifecycle`, `Investigation` and `CashForecast` may stop too, when their requests have ended or
their bounds are used up; `AppendLedger`, `BankMatcher` and `PlantedBank` check deadlock.

**Fairness.** `RunLifecycle` states weak fairness of `Proceed(w)` for workers that are not mortal,
and `Investigation` weak fairness of "some accepted request takes a step". A request that FastAPI
accepted runs on a thread of its own until it returns or raises, and every wait in it is bounded:
an attempt by its timeout, a retry by its count, a key by the transaction that holds it. Nothing
else is promised, neither that a tick comes nor that a run or a question does, nor which of two
threads goes on. `UndisturbedRunCompletes` is about runs that start to load a dataset that nobody
ticks or replaces from then on.

**What the properties say.**

- `LineHasOneOwner`, `AmountMatchLeavesNoClaimant`, `SiblingsNotBothOnAmount`,
  `DecisionsAreFinal`: no credit is counted twice and amount evidence is used only where nothing
  else could claim the line, whatever the passes before did. `BooksAgree`, `MoneyConserved`,
  `TrailExplainsResults`, `MissingMeansNothingFits`: the books of the matcher tell one story, the
  trail fits its primary key, and "missing" is not said of a settlement with a line that fits.
  `BankDefectsDiagnosed`: whatever planters did to the lines of its neighbours, a settlement gets
  the lines that hold its money, and delta 2 names what was done to it.
- `CreditLandsAtMostOnce`, `LogNeverInvents` (concurrent), `PeriodsTile`, `LogAddsUp`,
  `InFlightLandsNext` (one caller).
- `RowsOfOneIncarnation`: a dataset replaced under a run never mixes with the new one.
  `ReferencesResolve`: a tick between two SELECTs of a run tears its picture, but a row is only judged
  by tables that were read after its own; change the loader's order, and a transfer that was made is
  reported missing. `CompletedIsWhole`: COMPLETED is said of whole runs, and with one caller of tick
  the total of a run covers its rows. `RunsAreImmutable`, `UndisturbedRunCompletes`.
- `DefectsDiagnosed`, `NothingInvented`: after any sequence of planters, each explained defect is explained to the
  paisa under its name, each unexplained one is reported as exactly that much, nothing else is
  reported. `UnclaimedIsClean`: at every moment in between, a settlement that no planter holds has a
  header its items add up to (`HeadersRollUp`) and the engine nothing to say of it, the receiver of a
  trap's refund included. `BankInStep`: the line a settlement owns follows its header.
  `MissingMeansNoTransfer`: the text of a diagnosis is true. `EveryRowScores`: the evaluation
  counts none of these verdicts against the engine. `BooksCorroborate`: the tax report, which
  knows nothing of delta 3, finds the defects planted in the ledger and no other.
  `FiledCreditAccounted`: of an invoice with one defect, the credit called at risk is what cannot
  be offset, if the tax exceeds the tolerance (of a smaller one every rule says that it matches).
- `TranscriptAgrees`, `FailureHasACause`: an answer that was given is recorded, once and under
  its own number, an error is not, and a request fails only on a malformed message or, in recording,
  for one of five reasons (the run gone, the table not to be had, the number taken, the transaction
  aborted by a tool's argument, a text that no column takes). A recorded answer that nobody received
  is one that a restart cut off after its commit. `WorkIsBounded`, `GroundedMeansSeen`: what the
  record says about how an answer was reached is true, as far as the program can tell a record from
  an id that a tool's error repeats (`ask_echoed_id`). `EveryAskEnds`: nobody waits for ever.
- `NothingDropped`, `DaysAddUp`: what is due by the end of the window is returned once, and on a day
  that is shown; what the cut leaves out is no larger than what it shows, and is in the total.
  `ProjectionIsTheCalendar`: the forecast, which looks at a capture day only, and the generator,
  which looks at its period, date a settlement alike.

## 4. Where code and text disagree

| run | what the run shows |
|---|---|
| `append_lost_batch` | A tick writes `row_counts` back from a copy read before another tick committed: that tick's entry disappears, and the credit it withheld never lands. |
| `run_stuck` | A tick between loading and scoring makes `metrics.compute` raise; the run stays RUNNING. |
| `run_listing` | Settlements appended after a run are listed under it as tier A. |
| `ask_echoed_id` | `tests/test_agent.py:8` says that a claim about a record never read is caught. A tool's error repeats the id it was asked for, the id counts as evidence, and the answer that cites it is recorded as grounded. |

Met while modelling, and not the subject of a run:

- `engine/exceptions.py:34` says of an ambiguous match that two or more credits fit. Three settlements
  with one net and no credit at all are reported so too (`engine/matcher.py:176` marks them before it looks
  for a credit), instead of as missing: `AmbiguousMeansACreditFits` fails with `MCMatcherAmounts.cfg`.
- `generator/append.py:11` calls a run "an immutable, complete picture of the book at a point in
  time". Its ten SELECTs see as many moments: after a tick between two of them, tables read early lack a
  batch that tables read late have. `ReferencesResolve` is what is left of the promise. It does not
  cover rows that are only labelled by others: a payout of that batch, whose items were read
  before it, is filed under `UNASSIGNED` (`engine/runner.py:147`).
- `tests/test_agent.py:166` says that a confused model gets no 500. A provider's reply that is no JSON
  is caught by neither handler of `agent/llm.py` (138), and content that is no string or a call that is
  no object by none of `investigator.py` (146, 150): the request ends in one. It is the action
  `Malformed` and the first cause of `FailureHasACause`.
- `agent/investigator.py:88` says that anything past its due date is listed as overdue. A captured
  payment that no settlement has picked up is in neither list once its projected date is past:
  pipeline lines have no overdue branch (`engine/forecast.py:175`), and the README's pipeline table, said to
  hold every captured payment, has those of the window only. `NothingDropped` exempts exactly these.
- `agent/tools.py:631` says that bad arguments come back "as data the model can react to, never as
  an exception that kills the conversation". An argument of the wrong type that PostgreSQL refuses
  (a number for a text id) does come back as data, but its transaction stays aborted: every later
  tool fails, and so does recording the answer, which is lost with an error 500. It is the cause
  `aborted` in `FailureHasACause`; a text that PostgreSQL refuses to store (a NUL, half of a surrogate
  pair) is the cause `~storable`.
- A verdict "refused" on the agent's table outlives its cause, for instance the race between two
  requests that both create it. Answers are recorded all the same, but history and the
  conversation view stay empty until the process is restarted.
- The overdue payouts of a forecast are cut at fifty (`engine/forecast.py:289`), and for the agent once
  more at twenty (`agent/tools.py:476`). The agent is told (`overdue_truncated`); a reader of the API
  can tell by `overdue_payout_count` only. `NothingDropped` says what can be relied on.
- With two callers of tick a completed run's total can be smaller than what it reconciled:
  `metrics.py:29` reads the `row_counts` that `append_lost_batch` shows to be overwritten. `TotalCoversRows`
  fails with two tickers and three batches in `MCRunLifecycle.cfg`; `RowsAreThere`, the other half of
  `CompletedIsWhole`, holds for any number.
- `generator/generate.py:176` says that every capture date of a period rolls forward to its end.
  The first period of a dataset reaches back over days that do not: `ProjectionIsTheCalendar`
  excepts it.
- A settlement whose net is not positive has no bank credit to find (`generate.py:474`) and is
  reported as `MISSING_BANK_CREDIT` in tier C all the same.
- The settlement posting of a fully refunded payment has no clearing leg; twice posted, it is
  reported as `CLEARING_NOT_ZERO` while clearing is zero (`engine/attribution.py:308`).
- An invoice filed for more than was charged is reported with the excess as "credit that will not
  be realised" (`engine/taxmatch.py:139`); `FiledCreditAccounted` is about invoices that were
  filed for less, late, early, under the wrong heads, or marked ineligible.
- A forecast for a run made before a tick still awaits credits that the tick has landed: it reads
  delta 2 of the run and the settlements of the book.

With two callers `PeriodsTile` fails as well: a tick that read the last period end before another
one committed, and the id sequences after it, appends settlements over the same calendar days
(`generator/origin.py:72` against `generate.py:176`). It is the same race as `append_lost_batch`;
`AppendLedger` with two callers and `INVARIANT PeriodsTile` shows it.

## 5. Theorems

Every theorem holds for all values of the constants that the assumptions of its module admit:
sizes, budgets and policy values are naturals (`SizeAssumption` and its like), there is at least
one table or sequence, the list of holidays is finite (`CalendarAssumption`), forecasts count in
whole days and paise (`ForecastAssumption`), a clean book is a finite set of rows in whole paise
whose payments have a method of the policy (`BooksAssumption`), months are numbers
(`TaxAssumption`). What `PlantedDefectsProofs` assumes beyond that is what the generator draws and
the schema admits; it is stated with the theorems below. TLC evaluates each of them on the
instances of section 3.

**BankMatcherProofs.** `TypeCorrect`, `BooksAlwaysAgree`, `NothingCountedTwice`,
`NoMoneyMadeOrLost`, `AmountNeverGuesses`, `SiblingsNeverGuessed`, `DecisionsNeverChange`,
`NothingLeftForTheMissing`, `TrailAlwaysExplains`, `Refinement`. The argument:
all visits have one `Effect`, a decision that adds open settlements and free lines to the books.
`BooksAgree` is what makes the others inductive (a line is free exactly when no result holds it);
siblings need `SiblingsWereResolved`, that every twin of a settlement matched on amount was
resolved already on other evidence, and the first pass, which does not test whether a settlement
is resolved, needs `FirstPassInOrder`: only settlements its cursor has left are. That money is
conserved needs `OpenMeansUnpaid` and, for the two passes that regroup it, that the subset they
picked adds up to what it is for. What is missing at the end was visited by every pass;
`SearchedInVain` says of each visit that is over what it then failed to find, and stays true
because free lines and open settlements only become fewer (`MissingShrinks`). The trail needs to
know that a row belongs to a visit that has happened (`TrailInOrder`), hence no later one can
write its key again (`WrittenOnce`). For the refinement each visit is mapped to one abstract
action.

**AppendLedgerProofs.** `TypeCorrect`, `NoCreditTwice`, `LogIsSound`, for any number of callers
and statements. Every reading is of an earlier moment of a dataset that only grows
(`ReadingsAreOld`); a batch that the primary keys admit read its id sequence after the last commit
(`AdmittedIsCurrent`), since ids are contiguous. So what it believes pending is still pending.
`SeamsAreExact`, `LogAlwaysAddsUp` and `InFlightAlwaysLands` are the three properties of the serial
run, for any number of batches, under the hypothesis that makes it serial: `OneCaller`, there are
no two. It is stated in the theorems and not assumed of the module, since `append_lost_batch`
shows that two callers break it. `SerialInv` says that then every reading is of the tables as they
are, also after a crash.

**RunLifecycleProofs.** `TypeCorrect`, `OneIncarnation`, `NothingDangles`,
`CompletedRunsHaveTheirRows`, `CompletedRunsAreWhole`, `NothingIsRewritten`. The invariant says that as
long as a run's row exists, the dataset it read from is there and has only grown (`PicturesSound`,
`NoRunWithoutDataset`): the foreign key with its cascade is the lock. A worker holds one run and a
run one worker (`OneWorkerEach`). Tables are read one after the other, so those read later are no
older; that this suffices for `NothingDangles` is a fact about `LoadOrder` and `LooksUp`, pair by
pair. `CompletedRunsAreWhole` has the hypothesis `OneTicker`, there are no two callers of tick, under
which `row_counts` is never behind the rows, also after failures and regenerations; it is stated in
the theorem and not assumed of the module.

**PlantedBatchProofs.** For any number of settlements, books, amounts, policy and plan:

- `BpsRounds`, `BpsSymmetric`, `BpsWithin`: the arithmetic of `bps`, within half a paisa, odd, and
  never more than the amount.
- `HeadersAlwaysRollUp`, `BankAlwaysInStep`. A planter touches the items of one settlement
  (`OnlyOf`), the items of every other one are the same set and so add up to the same header
  (`SameItemsSameRollup`), and the one it touches is rebuilt (`RebuiltRollsUp`) or claimed
  (`ClaimedMayDiffer`). `Shape`, that every table has a row for each settlement, is needed because
  `EXCEPT` says nothing outside a domain.
- `MissingIsMissing`. An allocation that no planter took has only transfers that went through, one
  that was taken has such a transfer left or none at all (`PayoutsWhole`), and the tables that a
  run read stay as they are (`RunIsLast`).
- `UnclaimedStaysClean`, the induction over all planters of what the whole evaluation rests on: that
  the rest of the book is clean. The property itself is not inductive, for a planter relies on
  the rows and not on a diagnosis. The invariant `CleanOthers` is about rows: each payment item is
  charged what policy says, the refund items are the refunds processed in the period, and there is
  no loose adjustment. `CleanIsSilent` shows that the engine then finds nothing, which is an
  argument about sums: claimed and expected net are rearranged into one another (`ChargesArePolicy`,
  `RefundsAddUp`). `ReceiverStaysClean` is the case of the trap.
- `FiledCreditIsAccounted`: which verdict comes first for each single defect of an invoice
  (`InvoiceAccounted`), and that what it puts at risk is the tax less what is usable.

**PlantedDefectsProofs.** For any number of settlements, any book, and any order in which the
planters find something to break: the engine recovers what they did.

- `Delta1AlwaysTells`: at every moment of the generation each row of ground truth of delta 1 is what
  the engine says of that settlement, and it says nothing of the others (`Diagnosed1`). The inductive
  invariant is `Delta1Inv`: the rest of the book is clean (`CleanInv`, above), what was drawn stays
  so (`Drawn`: a payment is positive, a drifted rate takes a paisa or more), and an adjustment that is
  added gets an id of its own (`Numbered`). Each planter has a lemma that computes the diagnosis of
  the settlement it broke from the one change to a clean one, and each other planter is shown to leave
  it. A rule of the engine subtracts what an earlier rule explained, so the order of the rules is part
  of each of these arguments.
- `Delta4AlwaysTells`: the same of payouts (`Diagnosed4`), from `PayoutsInv`. A planter picks a split by
  payment and seller, and what it changes is recognised by that key (`Keyed`); what is owed is
  gross less commission, in whole paise (`Priced`); a payout nobody took went through in one transfer of
  all of it (`UntakenPaid`), without which a withheld or shortened transfer would not be the whole
  difference; and no more of a payment is promised than was paid unless a planter made it grow
  (`PromisesKept`), without which the excess reported on a payment could hide one that was there before.
- Delta 3, the books, is told once they are posted (`BooksAreTold`). Until then the book is what it will be
  posted from (`BookInv`): one item for each payment, whose fee and tax are not negative
  (`OneItemEach`), refunds that keep within it (`RefundsWithin`), a header whose tax is that of its items
  (`TaxRollsUp`). From then on each payment's postings are those it should have or those its planter
  left (`LedgerInv`, `BooksKept`). `BooksBalance`: every shape a planter leaves balances in each of its
  groups. What a settlement finds in clearing, fees and input tax is the sum of what its payments
  leave there, and at most one of them is broken; the three rules then see exactly that one.
- `DefectsAlwaysDiagnosed`, `NothingEverInvented`, `EveryRowAlwaysScores`: what the run stores says so too, and
  the metrics score it so. `BatchInv` is the four invariants above with what a row of ground truth
  looks like (`TruthShaped`: only traps expect nothing, and they name what they are about), that the run is
  last and its results are those of the tables it read (`RunInv`), and that there are finitely many
  allocations, which a sum over the splits of a payment needs. Scoring looks at labels and
  subjects and not at deltas, so it needs in addition which labels a verdict of each delta can
  bear at all (`VerdictLabels`): a finding of one delta must not be taken for noise on another.
- `BooksAlwaysCorroborate`: what the tax report finds over- or under-recorded for a settlement is the
  tax of what was posted twice there less that of what was not posted, from `BookInv` and `BooksKept`.
  The other defects of the books leave the tax leg alone.

These rest on assumptions of `Planter` and `SellerPayout` about what is drawn. `DrawnAssumption`: amounts
are above zero (a `CHECK` of `db/schema.sql`) and a drifted card rate takes at least a paisa
(`generator/generate.py:222` draws 19900 paise or more, and 250 is 50 basis points above the policy's
200). `RefundAssumption`: processed refunds keep within their payment, which is INV-B2.
`NumberAssumption`: adjustments are numbered within their settlement. `RoundingAssumption`: what
rounding on the aggregated fee takes from the tax of the largest item is less than that tax. It takes
at most half a paisa per item and the largest tax is at least 63, so it takes more than a
hundred items to break it.
`PayoutAssumption`: splits have different sellers, each is left something after commission and together
they stay within the payment (INV-B3); a lone seller gets it all; 18% and 25% of the smallest payout that
is broken are a paisa or more (`PayoutFloor`, 20000 in the code, is at least 3). Where amounts coincide these theorems
hold all the same: two gaps of one settlement cannot cancel each other, because a settlement is
claimed for one defect only. That is not so of bank lines, of which a planter may break several at once.

**CashForecastProofs, the calendar.** `AddingCounts`: from a day to the one n working days on there are exactly
n + 1 of them; `BetweenUndoesAdding`: the two functions of `generator/calendar.py` agree. Both are
recursive there, and that they have a value at all needs the holidays to end (`WorkingDayAhead`).

**CashForecastProofs, the forecast.** `ProjectionIsRight`: a day of a period and its end are rolled to one working
day (`PeriodsRegular`), and so settled on one. `NothingIsDropped`: each line has one subject and one date,
and the places it can be returned in are apart; what is cut is the tail of an order by amount
(`CutIsFair`), after the totals were taken. `DaysAlwaysAddUp`: lines fall on working days only, so
that grouping them by day loses none; the running balance is a sum by induction over days
(`RunIsSum`). `TablesAndViewAgree` is the invariant beneath them, that what is shown is a
forecast of the tables as they are.

**InvestigationProofs.** `TypeCorrect`, `TranscriptCorrect`, `WorkBounded`, `GroundedCorrect`,
`FailuresExcused`, for any number of requests, records and budgets. The transcript is a set whose
ids are `1 .. n`: `Insert` is the only place where a number is taken, and between it and `Commit`
the row is held (`TurnsInHand`): no two requests hold one number, nor one that is committed, and
the run cannot go. `WorkFits` bounds what is used together with what a message still has pending,
because the budget is looked at once per message and not per call. `EvidenceIsRead` and
`ResultsHonest` carry what the tools returned into the result, since the evidence itself is gone
when the answer is recorded.

**How sums and recursive functions are reasoned about.** The library's induction theorems take a
predicate as a parameter and cannot be used. In their place stands a minimal counterexample:
strict inclusion is well founded on finite sets, so a non-empty collection of them has a minimal
member (`NoDescent`), and a non-empty set of numbers bounded below a least one (`LeastNumber`).
The collection is the set of subsets, or of numbers, on which the claim fails. `SumTheorems` shows
in this way that the fold beneath `MapThenSumSet` exists and is unique, and from it what a sum does
when an element is added, a set divided, two functions subtracted, or elements grouped by class
(`SumTakes`, `SumUnion`, `SumDifference`, `SumByClass`).

**Only model-checked.**

- *Liveness* (`UndisturbedRunCompletes`, `EveryAskEnds`): beyond the prover.
- *What delta 2 says of planted defects* (`BankDefectsDiagnosed`). It is not true of every book: where
  nets coincide a bank line can pay for a neighbour, and a subset of lines can add up by accident. Both
  then answer differently for a good reason. The instance has amounts whose sums do not collide.

## 6. Not modelled

- *Structural checks* of `invariants.py` exclude rows whose reference dangles. The schema would let
  them in (`settlement_items` has a foreign key on the settlement only), but the generator writes an
  item with its record and removes it with it, so the model's tables have none and nothing is excluded.
- *A bank line of zero*, which the schema refuses, is not told apart from no line in `Planter`: the model
  stores a few batches more than the database would. A credit below zero, which a planter that takes more
  than the net would leave (`generator/anomalies.py:70`), is refused in both, and with it the batch.
- *Random choice* among eligible records is nondeterministic; that a batch is a function of its
  seed is not used. Money edges and customers are left out.
- *Lineage* (`engine/lineage.py`) draws, for display, edges between rows that the deltas have
  compared already; it decides nothing, and a model of it would repeat its joins.
- *Regeneration during a tick* is modelled for runs, not for ticks: `AppendLedger` is about one
  incarnation of a dataset.
- *Readings of a forecast or a tax report* are taken as one, although each is several SELECTs: what
  a tick in between changes is shown once and stored nowhere.
- *Hand-authored tax feed and period totals* of `taxmatch.py`; the *conversation view* and the other
  read-only projections of the API.
- *Rates* of `metrics.py`, texts, audit log, scores, evidence rows: presentation of what is modelled.
- *Single page app, fixtures, scripts*: no state of their own.

## 7. Plan

Done: matcher, its abstract specification, and delta 2 behind the planters of bank lines; append
mode; run lifecycle; diagnosis, planters, payouts, tax credit and scoring; the investigation
agent; the calendar and the cash forecast; and the proof of every safety property but one. Left, in
this order:

1. Regeneration during a tick, in `AppendLedger`.
2. A proof of `BankDefectsDiagnosed` for nets whose sums are all different: what each of the eight
   passes leaves to the next when every other settlement has one line of its own net.
3. `Lineage`, should it come to decide anything.
