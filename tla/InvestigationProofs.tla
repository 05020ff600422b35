------------------------- MODULE InvestigationProofs -------------------------
(***************************************************************************)
(* Theorems about the investigation agent, for any number of requests, any *)
(* ids and any budgets.                                                    *)
(***************************************************************************)
EXTENDS Investigation, FiniteSetTheorems, TLAPS

\* What the locals of a request say of where it is.
Fits(p, w) ==
    /\ w.used + w.pending <= MaxToolCalls
    /\ p = "tools" => w.pending > 0 /\ w.stop = "answered"
    /\ p # "tools" => w.pending = 0 /\ (w.stop = "answered" => w.used < MaxToolCalls)
    /\ p = "model" => w.iteration < MaxIterations
    /\ w.stop = "iterations" => w.iteration = MaxIterations
    /\ w.stop = "budget" => w.used = MaxToolCalls
    /\ p \in {"idle", "history"} => w = FreshWork
WorkFits == \A a \in Asker : Fits(phase[a], work[a])

\* An invented id is evidence only when a call named it.
EvidenceIsRead == \A a \in Asker : work[a].evidence \subseteq Known \cup work[a].named

Honest(r) == r.grounded => r.cited \subseteq Known \cup r.named
ResultsHonest ==
    /\ \A a \in Asker : Honest(result[a])
    /\ \A t \in transcript : Honest(t.result)

\* The turn a request is about to write is the next one, unless it was taken.
Last == Cardinality(transcript)
TurnsInHand ==
    /\ \A a \in Asker : phase[a] = "insert" /\ run => turn[a] \in 1 .. (Last + 1)
    /\ \A a \in Asker : phase[a] = "inserted" => run /\ turn[a] = Last + 1
    /\ \A a, b \in Asker : phase[a] = "inserted" /\ phase[b] = "inserted" => a = b

IInv ==
    /\ TypeOK
    /\ WorkFits
    /\ EvidenceIsRead
    /\ ResultsHonest
    /\ IsFiniteSet(transcript)
    /\ TranscriptAgrees
    /\ TurnsInHand
-----------------------------------------------------------------------------
\* The number a request reads is one more than the turns there are.
LEMMA NextTurnIsNext ==
    ASSUME IsFiniteSet(transcript), TurnIds = 1 .. Last
    PROVE  Last \in Nat /\ NextTurn = Last + 1
<1>1. Last \in Nat
  BY FS_CardinalityType DEF Last
<1>2. {0} \cup TurnIds = 0 .. Last
  BY <1>1
<1>3. Max(0 .. Last) = Last
  <2>1. Last \in 0 .. Last /\ \A y \in 0 .. Last : Last >= y
    BY <1>1
  <2>2. \A x \in 0 .. Last : (\A y \in 0 .. Last : x >= y) => x = Last
    BY <1>1, <2>1
  <2> QED
    BY <2>1, <2>2 DEF Max
<1> QED
  BY <1>1, <1>2, <1>3 DEF NextTurn

LEMMA FreshWorkType == FreshWork \in Work /\ NoResult \in Results
BY BudgetAssumption DEF FreshWork, Work, NoResult, Results, Stops

LEMMA FreshFits == ASSUME NEW p, p # "tools" PROVE Fits(p, FreshWork)
BY BudgetAssumption DEF Fits, FreshWork

LEMMA InitIInv == ASSUME Init PROVE IInv
<1>1. TypeOK
  BY FreshWorkType DEF Init, TypeOK, Phases, Ended, Tables
<1>2. WorkFits
  BY FreshFits DEF Init, WorkFits
<1>3. EvidenceIsRead
  BY DEF Init, EvidenceIsRead, FreshWork
<1>4. ResultsHonest
  BY DEF Init, ResultsHonest, Honest, NoResult
<1>5. IsFiniteSet(transcript) /\ TranscriptAgrees
  BY FS_EmptySet DEF Init, TranscriptAgrees, TurnIds
<1>6. TurnsInHand
  BY DEF Init, TurnsInHand
<1> QED
  BY <1>1, <1>2, <1>3, <1>4, <1>5, <1>6 DEF IInv
-----------------------------------------------------------------------------
\* The locals of a request, as a step leaves them.

LEMMA StopReasonType ==
    ASSUME NEW w \in Work, w.pending = 0, w.used <= MaxToolCalls,
           w.stop = "answered" \/ (w.stop = "budget" /\ w.used = MaxToolCalls)
    PROVE  LET v == [w EXCEPT !.stop = StopReason(w)]
           IN  /\ v \in Work
               /\ Fits(IF w.iteration = MaxIterations THEN "final" ELSE "model", v)
<1>1. StopReason(w) \in Stops
  BY DEF StopReason, Stops, Work
<1>2. [w EXCEPT !.stop = StopReason(w)] \in Work
  BY <1>1 DEF Work
<1> QED
  BY <1>2, BudgetAssumption DEF Fits, StopReason, Work

\* A message that is left with calls to run, or with none.
LEMMA ContinueFits ==
    ASSUME TypeOK, NEW a \in Asker, NEW w \in Work, Continue(a, w),
           w.used + w.pending <= MaxToolCalls,
           w.pending > 0 => w.stop = "answered",
           w.pending = 0 => w.stop = "answered" \/ (w.stop = "budget" /\ w.used = MaxToolCalls)
    PROVE  /\ work' \in [Asker -> Work] /\ phase' \in [Asker -> Phases]
           /\ \A b \in Asker \ {a} : work'[b] = work[b] /\ phase'[b] = phase[b]
           /\ Fits(phase'[a], work'[a])
           /\ phase'[a] \in {"tools", "final", "model"}
           /\ work'[a].evidence = w.evidence /\ work'[a].named = w.named
<1>1. CASE w.pending > 0
  <2>1. work' = [work EXCEPT ![a] = w] /\ phase' = [phase EXCEPT ![a] = "tools"]
    BY <1>1 DEF Continue, Goto
  <2>2. Fits("tools", w)
    BY <1>1 DEF Fits, Work
  <2> QED
    BY <2>1, <2>2 DEF TypeOK, Phases
<1>2. CASE w.pending = 0
  <2> DEFINE v == [w EXCEPT !.stop = StopReason(w)]
             p == IF w.iteration = MaxIterations THEN "final" ELSE "model"
  <2>1. work' = [work EXCEPT ![a] = v] /\ phase' = [phase EXCEPT ![a] = p]
    BY <1>2 DEF Continue, Goto
  <2>2. v \in Work /\ Fits(p, v)
    BY <1>2, StopReasonType, BudgetAssumption DEF Work
  <2>3. v.evidence = w.evidence /\ v.named = w.named
    BY DEF Work
  <2>4. p \in {"final", "model"}
    OBVIOUS
  <2> HIDE DEF v, p
  <2> QED
    BY <2>1, <2>2, <2>3, <2>4 DEF TypeOK, Phases
<1> QED
  BY <1>1, <1>2 DEF Work

\* What a completion that asks for calls, or one call, does to the request.
Effect(a) ==
    /\ work' \in [Asker -> Work] /\ phase' \in [Asker -> Phases]
    /\ \A b \in Asker \ {a} : work'[b] = work[b] /\ phase'[b] = phase[b]
    /\ Fits(phase'[a], work'[a])
    /\ phase'[a] \in {"tools", "final", "model"}
    /\ work'[a].evidence \subseteq Known \cup work'[a].named

LEMMA CallToolsEffect == ASSUME IInv, NEW a \in Asker, CallTools(a) PROVE Effect(a)
<1>1. phase[a] = "model" /\ work[a] \in Work /\ Fits("model", work[a])
  BY DEF IInv, TypeOK, WorkFits, CallTools
<1>2. PICK n \in 0 .. BudgetLeft(a) :
         /\ n = 0 => BudgetLeft(a) = 0
         /\ Continue(a, [work[a] EXCEPT !.iteration = @ + 1, !.attempt = 0, !.pending = n])
  BY DEF CallTools
<1> DEFINE w == [work[a] EXCEPT !.iteration = @ + 1, !.attempt = 0, !.pending = n]
<1>3. /\ w.iteration = work[a].iteration + 1 /\ w.attempt = 0 /\ w.pending = n
      /\ w.used = work[a].used /\ w.stop = work[a].stop
      /\ w.evidence = work[a].evidence /\ w.named = work[a].named
  BY <1>1 DEF Work
<1>4. w.iteration \in 0 .. MaxIterations /\ n \in 0 .. MaxToolCalls /\ 0 \in 0 .. (MaxRetries - 1)
  BY <1>1, <1>2, <1>3, BudgetAssumption DEF Fits, Work, BudgetLeft
<1>5. w \in Work
  BY <1>1, <1>4 DEF Work
<1>6. w.used + w.pending <= MaxToolCalls
  BY <1>1, <1>2, <1>3, BudgetAssumption DEF Work, BudgetLeft
<1>7. w.stop = "answered" \/ (w.stop = "budget" /\ w.used = MaxToolCalls)
  BY <1>1, <1>3, BudgetAssumption DEF Fits, Work, Stops
<1>8. w.pending > 0 => w.stop = "answered"
  BY <1>1, <1>2, <1>3, <1>7, BudgetAssumption DEF BudgetLeft, Work
<1>9. work[a].evidence \subseteq Known \cup work[a].named
  BY DEF IInv, EvidenceIsRead
<1>10. Continue(a, w)
  BY <1>2
<1> HIDE DEF w
<1> QED
  BY <1>3, <1>5, <1>6, <1>7, <1>8, <1>9, <1>10, ContinueFits DEF IInv, Effect

LEMMA CalledEffect ==
    ASSUME IInv, NEW a \in Asker, phase[a] = "tools", NEW seen \in SUBSET Ids,
           NEW invented \in SUBSET Invented, seen \subseteq Known \cup invented,
           Called(a, seen, invented)
    PROVE  Effect(a)
<1>1. work[a] \in Work /\ Fits("tools", work[a])
  BY DEF IInv, TypeOK, WorkFits
<1> DEFINE w == [work[a] EXCEPT !.pending = @ - 1, !.used = @ + 1,
                                !.evidence = @ \cup seen, !.named = @ \cup invented]
<1>2. /\ w.pending = work[a].pending - 1 /\ w.used = work[a].used + 1
      /\ w.iteration = work[a].iteration /\ w.attempt = work[a].attempt /\ w.stop = work[a].stop
      /\ w.evidence = work[a].evidence \cup seen /\ w.named = work[a].named \cup invented
  BY <1>1 DEF Work
<1>3. w.pending \in 0 .. MaxToolCalls /\ w.used \in 0 .. MaxToolCalls
  BY <1>1, <1>2, BudgetAssumption DEF Fits, Work
<1>4. w \in Work
  BY <1>1, <1>2, <1>3 DEF Work
<1>5. w.used + w.pending <= MaxToolCalls /\ w.stop = "answered"
  BY <1>1, <1>2, BudgetAssumption DEF Fits, Work
<1>6. w.evidence \subseteq Known \cup w.named
  BY <1>2 DEF IInv, EvidenceIsRead
<1>7. Continue(a, w)
  BY DEF Called
<1> HIDE DEF w
<1> QED
  BY <1>4, <1>5, <1>6, <1>7, ContinueFits DEF IInv, Effect

LEMMA RunToolEffect ==
    ASSUME IInv, NEW a \in Asker, RunTool(a)
    PROVE  Effect(a) /\ phase[a] = "tools" /\ aborted' \in [Asker -> BOOLEAN]
<1>1. phase[a] = "tools"
  BY DEF RunTool
<1>2. CASE Read(a)
  <2>1. PICK ids \in SUBSET Known : Called(a, IF aborted[a] THEN {} ELSE ids, {})
    BY <1>2 DEF Read
  <2> QED
    BY <1>1, <1>2, <2>1, CalledEffect DEF Read, Ids, IInv, TypeOK
<1>3. CASE Miss(a)
  <2>1. PICK id \in Invented : Called(a, IF aborted[a] THEN {} ELSE {id}, {id})
    BY <1>3 DEF Miss
  <2> QED
    BY <1>1, <1>3, <2>1, CalledEffect DEF Miss, Ids, IInv, TypeOK
<1>4. CASE Garble(a)
  <2>1. PICK id \in Ids : Called(a, {id}, {id} \cap Invented)
    BY <1>4 DEF Garble
  <2> QED
    BY <1>1, <1>4, <2>1, CalledEffect DEF Garble, Ids, IInv, TypeOK
<1>5. CASE Refuse(a)
  BY <1>1, <1>5, CalledEffect DEF Refuse, IInv, TypeOK
<1> QED
  BY <1>1, <1>2, <1>3, <1>4, <1>5 DEF RunTool

LEMMA ReturnEffect ==
    ASSUME TypeOK, NEW a \in Asker, NEW ids \in SUBSET Ids, Return(a, ids)
    PROVE  /\ work' = [work EXCEPT ![a] = FreshWork] /\ work' \in [Asker -> Work]
           /\ phase' = [phase EXCEPT ![a] = "record"] /\ phase' \in [Asker -> Phases]
           /\ \E storable \in BOOLEAN :
                 result' = [result EXCEPT ![a] = Returned(a, ids, storable)]
           /\ result' \in [Asker -> Results]
<1>1. /\ work' = [work EXCEPT ![a] = FreshWork] /\ work' \in [Asker -> Work]
      /\ phase' = [phase EXCEPT ![a] = "record"] /\ phase' \in [Asker -> Phases]
  BY FreshWorkType DEF Return, Goto, TypeOK, Phases
<1>2. PICK storable \in BOOLEAN : result' = [result EXCEPT ![a] = Returned(a, ids, storable)]
  BY DEF Return
<1>3. Returned(a, ids, storable) \in Results
  BY DEF Returned, Results, TypeOK, Work
<1> QED
  BY <1>1, <1>2, <1>3 DEF TypeOK

\* The attempts of a completion are all that such a step changes of the locals.
LEMMA AttemptEffect ==
    ASSUME TypeOK, NEW a \in Asker, NEW n \in 0 .. (MaxRetries - 1),
           work' = [work EXCEPT ![a].attempt = n]
    PROVE  /\ work' \in [Asker -> Work]
           /\ \A b \in Asker \ {a} : work'[b] = work[b]
           /\ \A p \in {"model", "final"} : Fits(p, work[a]) => Fits(p, work'[a])
           /\ work'[a].evidence = work[a].evidence /\ work'[a].named = work[a].named
<1>1. work[a] \in Work
  BY DEF TypeOK
<1> DEFINE w == [work[a] EXCEPT !.attempt = n]
<1>2. w \in Work /\ work' = [work EXCEPT ![a] = w]
  BY <1>1 DEF Work, TypeOK
<1>3. /\ w.used = work[a].used /\ w.pending = work[a].pending /\ w.stop = work[a].stop
      /\ w.iteration = work[a].iteration
      /\ w.evidence = work[a].evidence /\ w.named = work[a].named
  BY <1>1 DEF Work
<1> HIDE DEF w
<1> QED
  BY <1>1, <1>2, <1>3 DEF TypeOK, Fits, Work

LEMMA TypeNext == ASSUME IInv, Next PROVE TypeOK'
<1> USE DEF IInv
<1> SUFFICES ASSUME TypeOK, WorkFits PROVE TypeOK'
  OBVIOUS
<1>1. ASSUME NEW a \in Asker, Ask(a) PROVE TypeOK'
  BY <1>1 DEF Ask, Goto, TypeOK, Phases, storage
<1>2. ASSUME NEW a \in Asker, JudgeSchema(a) \/ CreateTable(a) \/ CommitTable(a) PROVE TypeOK'
  BY <1>2 DEF JudgeSchema, CreateTable, CommitTable, TypeOK, Tables, local
<1>3. ASSUME NEW a \in Asker, ReadHistory(a) PROVE TypeOK'
  BY <1>3 DEF ReadHistory, Goto, TypeOK, Phases, storage
<1>4. ASSUME NEW a \in Asker, Retry(a) PROVE TypeOK'
  <2>1. work[a].attempt + 1 \in 0 .. (MaxRetries - 1)
    BY <1>4, BudgetAssumption DEF Retry, TypeOK, Work
  <2> QED
    BY <1>4, <2>1, AttemptEffect DEF Retry, TypeOK, storage
<1>5. ASSUME NEW a \in Asker, ProviderFails(a) PROVE TypeOK'
  <2>1. CASE Return(a, {})
    BY <1>5, <2>1, ReturnEffect DEF ProviderFails, TypeOK, storage
  <2>2. CASE Goto(a, "unavailable") /\ work' = [work EXCEPT ![a] = FreshWork] /\ UNCHANGED result
    BY <1>5, <2>2, FreshWorkType DEF ProviderFails, Goto, TypeOK, Phases, Ended, storage
  <2> QED
    BY <1>5, <2>1, <2>2 DEF ProviderFails
<1>6. ASSUME NEW a \in Asker, Answer(a) PROVE TypeOK'
  <2>1. PICK ids \in SUBSET Ids : Return(a, ids)
    BY <1>6 DEF Answer
  <2> QED
    BY <1>6, <2>1, ReturnEffect DEF Answer, TypeOK, storage
<1>7. ASSUME NEW a \in Asker, SayNothing(a) PROVE TypeOK'
  <2>1. 0 \in 0 .. (MaxRetries - 1)
    BY BudgetAssumption
  <2> QED
    BY <1>7, <2>1, AttemptEffect DEF SayNothing, Goto, TypeOK, Phases, storage
<1>8. ASSUME NEW a \in Asker, CallTools(a) PROVE TypeOK'
  BY <1>8, CallToolsEffect DEF CallTools, Effect, TypeOK, storage
<1>9. ASSUME NEW a \in Asker, RunTool(a) PROVE TypeOK'
  BY <1>9, RunToolEffect DEF RunTool, Effect, TypeOK, storage
<1>10. ASSUME NEW a \in Asker, Fail(a) PROVE TypeOK'
  BY <1>10, FreshWorkType DEF Fail, Goto, TypeOK, Phases, Ended, storage
<1>11. ASSUME NEW a \in Asker, ReadTurn(a) PROVE TypeOK'
  <2>1. NextTurn \in Nat
    BY NextTurnIsNext DEF TranscriptAgrees, Last
  <2> QED
    BY <1>10, <1>11, <2>1 DEF ReadTurn, Goto, TypeOK, Phases, storage
<1>12. ASSUME NEW a \in Asker, Insert(a) PROVE TypeOK'
  BY <1>10, <1>12 DEF Insert, Goto, TypeOK, Phases, storage
<1>13. ASSUME NEW a \in Asker, Commit(a) PROVE TypeOK'
  <2>1. [id |-> turn[a], by |-> a, result |-> result[a]] \in [id : Nat, by : Asker, result : Results]
    BY DEF TypeOK
  <2> QED
    BY <1>13, <2>1 DEF Commit, Goto, TypeOK, Phases, Ended, storage
<1>14. CASE Restart
  BY <1>14, FreshWorkType DEF Restart, TypeOK, Phases, Ended, Tables
<1>15. CASE DeleteRun
  BY <1>15 DEF DeleteRun, TypeOK, local, storage
<1>16. ASSUME NEW a \in Asker, Malformed(a) PROVE TypeOK'
  BY <1>16, FreshWorkType DEF Malformed, Goto, TypeOK, Phases, Ended, storage
<1>17. ASSUME NEW a \in Asker, Respond(a) PROVE TypeOK'
  BY <1>17 DEF Respond, Goto, TypeOK, Phases, Ended, storage
<1> QED
  BY <1>1, <1>2, <1>3, <1>4, <1>5, <1>6, <1>7, <1>8, <1>9, <1>11, <1>12, <1>13, <1>14, <1>15,
     <1>16, <1>17
     DEF Next, Step, Storage, Provider, Record

-----------------------------------------------------------------------------
\* Steps of one request that leave the locals alone, or are done with them.

Quiet == {"record", "insert", "inserted", "committed", "answered", "failed", "lost",
          "unavailable", "final"}

LEMMA QuietStep ==
    ASSUME IInv, NEW a \in Asker, NEW q \in Quiet, phase[a] \in Quiet, Goto(a, q), UNCHANGED work
    PROVE  WorkFits' /\ EvidenceIsRead'
BY DEF IInv, WorkFits, EvidenceIsRead, Fits, Goto, TypeOK, Quiet

LEMMA FreshStep ==
    ASSUME IInv, NEW a \in Asker, NEW q, q # "tools", Goto(a, q),
           \A b \in Asker \ {a} : work'[b] = work[b], work'[a] = FreshWork
    PROVE  WorkFits' /\ EvidenceIsRead'
<1>1. Fits(q, FreshWork)
  BY FreshFits
<1>2. FreshWork.evidence = {}
  BY DEF FreshWork
<1> QED
  BY <1>1, <1>2 DEF IInv, WorkFits, EvidenceIsRead, Goto, TypeOK

LEMMA WorkNext == ASSUME IInv, Next PROVE WorkFits' /\ EvidenceIsRead'
<1> SUFFICES ASSUME TypeOK, WorkFits, EvidenceIsRead PROVE WorkFits' /\ EvidenceIsRead'
  BY DEF IInv
<1>1. ASSUME NEW a \in Asker, Ask(a) \/ ReadHistory(a) PROVE WorkFits' /\ EvidenceIsRead'
  <2>1. work[a] = FreshWork
    BY <1>1 DEF Ask, ReadHistory, WorkFits, Fits
  <2> QED
    BY <1>1, <2>1, FreshStep DEF Ask, ReadHistory
<1>2. ASSUME UNCHANGED <<phase, work>> PROVE WorkFits' /\ EvidenceIsRead'
  BY <1>2 DEF WorkFits, EvidenceIsRead
<1>3. ASSUME NEW a \in Asker, Storage(a) PROVE WorkFits' /\ EvidenceIsRead'
  BY <1>2, <1>3 DEF Storage, JudgeSchema, CreateTable, CommitTable, local
<1>4. ASSUME NEW a \in Asker, Retry(a) PROVE WorkFits' /\ EvidenceIsRead'
  <2>1. work[a].attempt + 1 \in 0 .. (MaxRetries - 1)
    BY <1>4, BudgetAssumption DEF Retry, TypeOK, Work
  <2>2. phase' = phase /\ phase[a] \in {"model", "final"}
    BY <1>4 DEF Retry, Completing
  <2>3. work' = [work EXCEPT ![a].attempt = work[a].attempt + 1]
    BY <1>4 DEF Retry
  <2> QED
    BY <2>1, <2>2, <2>3, AttemptEffect DEF WorkFits, EvidenceIsRead
<1>5. ASSUME NEW a \in Asker, NEW ids \in SUBSET Ids, Return(a, ids)
      PROVE  WorkFits' /\ EvidenceIsRead'
  BY <1>5, ReturnEffect, FreshStep DEF Return, TypeOK
<1>6. ASSUME NEW a \in Asker, ProviderFails(a) PROVE WorkFits' /\ EvidenceIsRead'
  <2>1. CASE Return(a, {})
    BY <1>5, <2>1
  <2>2. CASE Goto(a, "unavailable") /\ work' = [work EXCEPT ![a] = FreshWork]
    BY <2>2, FreshStep DEF TypeOK
  <2> QED
    BY <1>6, <2>1, <2>2 DEF ProviderFails
<1>7. ASSUME NEW a \in Asker, Answer(a) \/ Malformed(a) PROVE WorkFits' /\ EvidenceIsRead'
  BY <1>5, <1>7, FreshStep DEF Answer, Malformed, TypeOK
<1>8. ASSUME NEW a \in Asker, SayNothing(a) PROVE WorkFits' /\ EvidenceIsRead'
  <2>1. 0 \in 0 .. (MaxRetries - 1) /\ work' = [work EXCEPT ![a].attempt = 0]
    BY <1>8, BudgetAssumption DEF SayNothing
  <2>2. phase' = [phase EXCEPT ![a] = "final"] /\ phase[a] = "model"
    BY <1>8 DEF SayNothing, Goto
  <2>3. Fits("final", work[a])
    BY <2>2 DEF WorkFits, Fits
  <2> QED
    BY <2>1, <2>2, <2>3, AttemptEffect DEF WorkFits, EvidenceIsRead, TypeOK
<1>9. ASSUME NEW a \in Asker, Effect(a) PROVE WorkFits' /\ EvidenceIsRead'
  BY <1>9 DEF Effect, WorkFits, EvidenceIsRead
<1>10. ASSUME NEW a \in Asker, CallTools(a) \/ RunTool(a) PROVE WorkFits' /\ EvidenceIsRead'
  BY <1>9, <1>10, CallToolsEffect, RunToolEffect
<1>11. ASSUME NEW a \in Asker, Record(a) PROVE WorkFits' /\ EvidenceIsRead'
  <2>1. UNCHANGED work /\ phase[a] \in Quiet
    BY <1>11 DEF Record, ReadTurn, Insert, Commit, Respond, Fail, Quiet
  <2>2. \E q \in Quiet : Goto(a, q)
    BY <1>11 DEF Record, ReadTurn, Insert, Commit, Respond, Fail, Quiet
  <2> QED
    BY <2>1, <2>2, QuietStep
<1>12. CASE Restart
  <2>1. \A a \in Asker : phase'[a] # "tools" /\ work'[a] = FreshWork
    BY <1>12 DEF Restart, Ended
  <2>2. \A a \in Asker : Fits(phase'[a], FreshWork)
    BY <2>1, FreshFits
  <2> QED
    BY <2>1, <2>2 DEF WorkFits, EvidenceIsRead, FreshWork
<1>13. CASE DeleteRun
  BY <1>2, <1>13 DEF DeleteRun, local
<1> QED
  BY <1>1, <1>3, <1>4, <1>6, <1>7, <1>8, <1>10, <1>11, <1>12, <1>13 DEF Next, Step, Provider
-----------------------------------------------------------------------------
\* Results: made once, from the evidence, and written as they are.

LEMMA ResultsNext == ASSUME IInv, Next PROVE ResultsHonest'
<1> SUFFICES ASSUME TypeOK, EvidenceIsRead, ResultsHonest PROVE ResultsHonest'
  BY DEF IInv
<1>1. ASSUME NEW a \in Asker, NEW ids \in SUBSET Ids, Return(a, ids), UNCHANGED transcript
      PROVE  ResultsHonest'
  <2>1. PICK storable \in BOOLEAN : result' = [result EXCEPT ![a] = Returned(a, ids, storable)]
    BY <1>1 DEF Return
  <2>2. Honest(Returned(a, ids, storable))
    BY DEF Honest, Returned, EvidenceIsRead
  <2> QED
    BY <1>1, <2>1, <2>2 DEF ResultsHonest, TypeOK
<1>2. ASSUME UNCHANGED <<result, transcript>> PROVE ResultsHonest'
  BY <1>2 DEF ResultsHonest
<1>3. Honest(NoResult)
  BY DEF Honest, NoResult
<1>4. ASSUME NEW a \in Asker, Fail(a) PROVE ResultsHonest'
  BY <1>3, <1>4 DEF Fail, ResultsHonest, TypeOK
<1>5. ASSUME NEW a \in Asker, Commit(a) PROVE ResultsHonest'
  BY <1>5 DEF Commit, ResultsHonest, Honest
<1>6. ASSUME NEW a \in Asker, Ask(a) \/ Storage(a) \/ ReadHistory(a) \/ RunTool(a) PROVE ResultsHonest'
  BY <1>2, <1>6 DEF Ask, Storage, JudgeSchema, CreateTable, CommitTable, ReadHistory, RunTool, local
<1>7. ASSUME NEW a \in Asker, Retry(a) \/ SayNothing(a) \/ CallTools(a) \/ Malformed(a) \/ Respond(a)
      PROVE  ResultsHonest'
  BY <1>2, <1>7 DEF Retry, SayNothing, CallTools, Malformed, Respond
<1>8. ASSUME NEW a \in Asker, ProviderFails(a) \/ Answer(a) PROVE ResultsHonest'
  BY <1>1, <1>2, <1>8 DEF ProviderFails, Answer
<1>9. ASSUME NEW a \in Asker, ReadTurn(a) \/ Insert(a) PROVE ResultsHonest'
  BY <1>2, <1>4, <1>9 DEF ReadTurn, Insert
<1>10. CASE Restart
  BY <1>3, <1>10 DEF Restart, ResultsHonest
<1>11. CASE DeleteRun
  BY <1>11 DEF DeleteRun, ResultsHonest, local
<1> QED
  BY <1>5, <1>6, <1>7, <1>8, <1>9, <1>10, <1>11 DEF Next, Step, Provider, Record
-----------------------------------------------------------------------------
\* The transcript.

Written == IsFiniteSet(transcript) /\ TranscriptAgrees /\ TurnsInHand

\* A step that writes no turn and gives no answer: a request stays where it is, or
\* moves among the phases before a turn is read, or gives up.
LEMMA ElsewhereStep ==
    ASSUME IInv, UNCHANGED <<transcript, run, turn>>,
           \A a \in Asker :
              \/ phase'[a] = phase[a] /\ result'[a] = result[a]
              \/ /\ phase[a] \notin {"inserted", "committed", "answered", "lost"}
                 /\ phase'[a] \notin {"insert", "inserted", "committed", "answered"}
    PROVE  Written'
<1>1. IsFiniteSet(transcript)' /\ TurnIds' = TurnIds /\ Last' = Last
  BY DEF IInv, TurnIds, Last
<1>2. TranscriptAgrees'
  <2>1. \A t \in transcript : t.by \in Asker
    BY DEF IInv, TypeOK
  <2> QED
    BY <1>1, <2>1 DEF IInv, TranscriptAgrees, TypeOK
<1>3. TurnsInHand'
  BY <1>1 DEF IInv, TurnsInHand
<1> QED
  BY <1>1, <1>2, <1>3 DEF Written

LEMMA ReadTurnWritten ==
    ASSUME IInv, NEW a \in Asker, turn' = [turn EXCEPT ![a] = NextTurn], phase[a] = "record",
           Goto(a, "insert"), UNCHANGED <<result, transcript, run>>
    PROVE  Written'
<1>1. Last \in Nat /\ NextTurn = Last + 1
  BY NextTurnIsNext DEF IInv, TranscriptAgrees, Last
<1>2. IsFiniteSet(transcript)' /\ TurnIds' = TurnIds /\ Last' = Last
  BY DEF IInv, TurnIds, Last
<1>3. TranscriptAgrees'
  <2>1. \A t \in transcript : t.by \in Asker
    BY DEF IInv, TypeOK
  <2> QED
    BY <1>2, <2>1 DEF IInv, TranscriptAgrees, TypeOK, Goto
<1>4. TurnsInHand'
  BY <1>1, <1>2 DEF IInv, TurnsInHand, TypeOK, Goto
<1> QED
  BY <1>2, <1>3, <1>4 DEF Written

\* Whoever may insert writes the next turn, and nobody else has.
LEMMA InsertWritten ==
    ASSUME IInv, NEW a \in Asker, phase[a] = "insert", Goto(a, "inserted"),
           turn[a] \notin TurnIds, run,
           \A b \in Asker : ~(phase[b] = "inserted" /\ turn[b] = turn[a]),
           UNCHANGED <<result, turn, transcript, run>>
    PROVE  Written'
<1>1. Last \in Nat /\ TurnIds = 1 .. Last
  BY FS_CardinalityType DEF IInv, TranscriptAgrees, Last
<1>2. turn[a] = Last + 1
  BY <1>1 DEF IInv, TurnsInHand, TypeOK
<1>3. \A b \in Asker : phase[b] # "inserted"
  BY <1>2 DEF IInv, TurnsInHand
<1>4. IsFiniteSet(transcript)' /\ TurnIds' = TurnIds /\ Last' = Last
  BY DEF IInv, TurnIds, Last
<1>5. TranscriptAgrees'
  <2>1. \A t \in transcript : t.by \in Asker
    BY DEF IInv, TypeOK
  <2> QED
    BY <1>4, <2>1 DEF IInv, TranscriptAgrees, TypeOK, Goto
<1>6. TurnsInHand'
  BY <1>2, <1>3, <1>4 DEF IInv, TurnsInHand, TypeOK, Goto
<1> QED
  BY <1>4, <1>5, <1>6 DEF Written

LEMMA CommitWritten == ASSUME IInv, NEW a \in Asker, Commit(a) PROVE Written'
<1> DEFINE new == [id |-> turn[a], by |-> a, result |-> result[a]]
<1>1. Last \in Nat /\ TurnIds = 1 .. Last
  BY FS_CardinalityType DEF IInv, TranscriptAgrees, Last
<1>2. phase[a] = "inserted" /\ turn[a] = Last + 1 /\ run
  BY DEF Commit, IInv, TurnsInHand
<1>3. \A t \in transcript : t.by \in Asker /\ t.by # a /\ t # new
  BY <1>2 DEF IInv, TypeOK, TranscriptAgrees
<1>4. transcript' = transcript \cup {new} /\ phase' = [phase EXCEPT ![a] = "committed"]
  BY DEF Commit, Goto
<1>5. new.id = turn[a] /\ new.by = a /\ new.result = result[a]
  OBVIOUS
<1> HIDE DEF new
<1>6. IsFiniteSet(transcript)' /\ Last' = Last + 1
  BY <1>3, <1>4, FS_AddElement DEF IInv, Last
<1>7. TurnIds' = 1 .. Last'
  <2>1. TurnIds' = TurnIds \cup {turn[a]}
    <3>1. \A x : x \in TurnIds' <=> \E t \in transcript \cup {new} : x = t.id
      BY <1>4 DEF TurnIds
    <3>2. \A x : x \in TurnIds <=> \E t \in transcript : x = t.id
      BY DEF TurnIds
    <3> QED
      BY <1>5, <3>1, <3>2
  <2> QED
    BY <1>1, <1>2, <1>6, <2>1
<1>8. \A t, u \in transcript' : t.by = u.by => t = u
  BY <1>3, <1>4, <1>5 DEF IInv, TranscriptAgrees
<1>9. ASSUME NEW b \in Asker, phase'[b] \in {"committed", "answered"} PROVE \E t \in transcript' : t.by = b
  <2>1. CASE b = a
    BY <1>4, <1>5, <2>1
  <2>2. CASE b # a
    <3>1. phase[b] \in {"committed", "answered"}
      BY <1>4, <1>9, <2>2 DEF IInv, TypeOK
    <3>2. PICK t \in transcript : t.by = b
      BY <1>2, <3>1 DEF IInv, TranscriptAgrees
    <3> QED
      BY <1>4, <3>2
  <2> QED
    BY <2>1, <2>2
<1>10. \A t \in transcript' :
          \/ phase'[t.by] = "lost"
          \/ phase'[t.by] \in {"committed", "answered"} /\ t.result = result'[t.by]
  BY <1>3, <1>4, <1>5 DEF IInv, TranscriptAgrees, TypeOK, Commit
<1>11. TurnsInHand'
  <2>1. \A b \in Asker : phase'[b] # "inserted"
    BY <1>2, <1>4 DEF IInv, TurnsInHand, TypeOK
  <2>2. turn' = turn /\ run' = run
    BY DEF Commit
  <2> QED
    BY <1>1, <1>4, <1>6, <2>1, <2>2 DEF IInv, TurnsInHand, TypeOK
<1> QED
  BY <1>6, <1>7, <1>8, <1>9, <1>10, <1>11 DEF Written, TranscriptAgrees, Last

LEMMA RespondWritten == ASSUME IInv, NEW a \in Asker, Respond(a) PROVE Written'
<1>1. /\ UNCHANGED <<result, turn, transcript, run>>
      /\ phase[a] = "committed" /\ phase' = [phase EXCEPT ![a] = "answered"]
  BY DEF Respond, Goto
<1>2. IsFiniteSet(transcript)' /\ TurnIds' = TurnIds /\ Last' = Last
  BY <1>1 DEF IInv, TurnIds, Last
<1>3. TranscriptAgrees'
  <2>1. \A t \in transcript : t.by \in Asker
    BY DEF IInv, TypeOK
  <2> QED
    BY <1>1, <1>2, <2>1 DEF IInv, TranscriptAgrees, TypeOK
<1>4. TurnsInHand'
  BY <1>1, <1>2 DEF IInv, TurnsInHand, TypeOK
<1> QED
  BY <1>2, <1>3, <1>4 DEF Written

LEMMA RestartWritten == ASSUME IInv, Restart PROVE Written'
<1>1. /\ UNCHANGED <<transcript, run>>
      /\ \A a \in Asker : \/ phase'[a] = "lost"
                          \/ /\ phase'[a] = phase[a] /\ result'[a] = result[a] /\ turn'[a] = turn[a]
                             /\ phase[a] \notin {"insert", "inserted"}
      /\ \A a \in Asker : phase[a] = "answered" => phase'[a] = phase[a] /\ result'[a] = result[a]
      /\ \A a \in Asker : phase'[a] # "committed"
  BY DEF Restart, Ended
<1>2. IsFiniteSet(transcript)' /\ TurnIds' = TurnIds /\ Last' = Last
  BY <1>1 DEF IInv, TurnIds, Last
<1>3. TranscriptAgrees'
  <2>1. \A t \in transcript : t.by \in Asker
    BY DEF IInv, TypeOK
  <2> QED
    BY <1>1, <1>2, <2>1 DEF IInv, TranscriptAgrees
<1>4. TurnsInHand'
  BY <1>1 DEF TurnsInHand
<1> QED
  BY <1>2, <1>3, <1>4 DEF Written

LEMMA DeleteRunWritten == ASSUME IInv, DeleteRun PROVE Written'
BY FS_EmptySet DEF DeleteRun, Written, TranscriptAgrees, TurnIds, TurnsInHand, local

LEMMA TranscriptNext == ASSUME IInv, Next PROVE Written'
<1>1. ASSUME NEW a \in Asker, NEW q, q \notin {"insert", "inserted", "committed", "answered"},
             phase[a] \notin {"inserted", "committed", "answered", "lost"},
             phase' = [phase EXCEPT ![a] = q],
             \A b \in Asker \ {a} : result'[b] = result[b], UNCHANGED <<transcript, run, turn>>
      PROVE  Written'
  BY <1>1, ElsewhereStep DEF IInv, TypeOK
<1>2. ASSUME UNCHANGED <<phase, result, transcript, run, turn>> PROVE Written'
  BY <1>2, ElsewhereStep
<1>3. ASSUME NEW a \in Asker, Ask(a) \/ ReadHistory(a) PROVE Written'
  BY <1>1, <1>3 DEF Ask, ReadHistory, Goto
<1>4. ASSUME NEW a \in Asker, Storage(a) PROVE Written'
  BY <1>2, <1>4 DEF Storage, JudgeSchema, CreateTable, CommitTable, local
<1>5. ASSUME NEW a \in Asker, NEW ids \in SUBSET Ids, Completing(a), Return(a, ids),
             UNCHANGED <<transcript, run, turn>>
      PROVE  Written'
  BY <1>1, <1>5, ReturnEffect DEF Completing, IInv, TypeOK
<1>6. ASSUME NEW a \in Asker, ProviderFails(a) PROVE Written'
  <2>1. CASE Return(a, {})
    BY <1>5, <1>6, <2>1 DEF ProviderFails
  <2>2. CASE Goto(a, "unavailable") /\ UNCHANGED result
    BY <1>1, <1>6, <2>2 DEF ProviderFails, Goto, Completing
  <2> QED
    BY <1>6, <2>1, <2>2 DEF ProviderFails
<1>7. ASSUME NEW a \in Asker, Answer(a) PROVE Written'
  BY <1>5, <1>7 DEF Answer
<1>8. ASSUME NEW a \in Asker, Retry(a) \/ SayNothing(a) \/ Malformed(a) PROVE Written'
  BY <1>1, <1>2, <1>8 DEF Retry, SayNothing, Malformed, Completing, Goto
<1>9. ASSUME NEW a \in Asker, CallTools(a) \/ RunTool(a) PROVE Written'
  <2>1. Effect(a) /\ phase[a] \in {"model", "tools"}
    BY <1>9, CallToolsEffect, RunToolEffect DEF CallTools
  <2>2. UNCHANGED <<result, transcript, run, turn>>
    BY <1>9 DEF CallTools, RunTool
  <2> QED
    BY <2>1, <2>2, ElsewhereStep DEF Effect
<1>10. ASSUME NEW a \in Asker, phase[a] \in {"record", "insert"}, Fail(a) PROVE Written'
  BY <1>1, <1>10 DEF Fail, Goto, IInv, TypeOK
<1>11. ASSUME NEW a \in Asker, ReadTurn(a) PROVE Written'
  BY <1>10, <1>11, ReadTurnWritten DEF ReadTurn
<1>12. ASSUME NEW a \in Asker, Insert(a) PROVE Written'
  BY <1>10, <1>12, InsertWritten DEF Insert
<1> QED
  BY <1>3, <1>4, <1>6, <1>7, <1>8, <1>9, <1>11, <1>12,
     CommitWritten, RespondWritten, RestartWritten, DeleteRunWritten
     DEF Next, Step, Provider, Record
-----------------------------------------------------------------------------
LEMMA NextIInv == ASSUME IInv, [Next]_vars PROVE IInv'
<1>1. CASE Next
  BY <1>1, TypeNext, WorkNext, ResultsNext, TranscriptNext DEF IInv, Written
<1>2. CASE UNCHANGED vars
  <2>1. UNCHANGED <<phase, work, result, aborted, turn, ddl, schemaState, table, transcript, run>>
    BY <1>2 DEF vars, local, storage
  <2>2. (TypeOK /\ WorkFits /\ EvidenceIsRead /\ ResultsHonest)'
    BY <2>1 DEF IInv, TypeOK, WorkFits, EvidenceIsRead, ResultsHonest
  <2>3. Written'
    BY <2>1, ElsewhereStep
  <2> QED
    BY <2>2, <2>3 DEF IInv, Written
<1> QED
  BY <1>1, <1>2

\* Whatever the model answers, however the requests interleave and wherever one of
\* them fails, the inductive invariant holds (agent/investigator.py, agent/store.py).
THEOREM Safety == Spec => []IInv
BY InitIInv, NextIInv, PTL DEF Spec

\* Every variable keeps its type: no budget is overrun into a value the loop of
\* investigator.py does not know, and the next turn is always a number.
THEOREM TypeCorrect == Spec => []TypeOK
BY Safety, PTL DEF IInv

\* The transcript is what was answered, for any number of requests at once
\* (agent/store.py:48).
THEOREM TranscriptCorrect == Spec => []TranscriptAgrees
BY Safety, PTL DEF IInv

\* Neither budget of an investigation is exceeded, whatever its size, and the stop
\* reason is the budget that ended the work (agent/investigator.py:134).
THEOREM WorkBounded == Spec => []WorkIsBounded
<1>1. IInv => WorkIsBounded
  <2> SUFFICES ASSUME IInv, NEW a \in Asker
               PROVE  /\ work[a].used + work[a].pending <= MaxToolCalls
                      /\ phase[a] = "model" => work[a].iteration < MaxIterations
                      /\ work[a].stop = "iterations" => work[a].iteration = MaxIterations
                      /\ work[a].stop = "budget" => work[a].used = MaxToolCalls
                      /\ work[a].stop = "answered" /\ phase[a] # "tools" => work[a].used < MaxToolCalls
    BY DEF WorkIsBounded
  <2> QED
    BY DEF IInv, WorkFits, Fits
<1> QED
  BY <1>1, Safety, PTL

\* An answer recorded as grounded cites only what the run holds or what the calls of
\* its own request named (agent/investigator.py:189).  That it cites only what the
\* run holds is not so: see GroundedMeansRead.
THEOREM GroundedCorrect == Spec => []GroundedMeansSeen
<1>1. IInv => GroundedMeansSeen
  BY DEF IInv, ResultsHonest, Honest, GroundedMeansSeen
<1> QED
  BY <1>1, Safety, PTL

\* Before investigate has returned, a request fails only where it takes up a message
\* of the model; after that, only for one of five causes, and neither a lost race for
\* the table nor a cached verdict is one of them (agent/store.py:31, 48,
\* api/main.py:535).
THEOREM FailuresExcused == Spec => FailureHasACause
<1> DEFINE Caused == \A a \in Asker : Failing(a) =>
               IF phase[a] \in {"record", "insert"} THEN Excused(a)
               ELSE phase[a] \in {"model", "tools", "final"}
<1>1. ASSUME IInv, [Next]_vars PROVE Caused
  <2> SUFFICES ASSUME NEW a \in Asker, phase[a] # "failed", phase'[a] = "failed"
               PROVE  IF phase[a] \in {"record", "insert"} THEN Excused(a)
                      ELSE phase[a] \in {"model", "tools", "final"}
    BY DEF Failing
  <2>1. ASSUME NEW b \in Asker, Ask(b) \/ Storage(b) \/ ReadHistory(b) PROVE FALSE
    BY <1>1, <2>1 DEF Ask, Storage, JudgeSchema, CreateTable, CommitTable, ReadHistory, Goto, local,
                      IInv, TypeOK
  <2>2. ASSUME NEW b \in Asker, Retry(b) \/ ProviderFails(b) \/ Answer(b) \/ SayNothing(b) PROVE FALSE
    BY <1>1, <2>2 DEF Retry, ProviderFails, Answer, SayNothing, Return, Goto, IInv, TypeOK
  <2>3. ASSUME NEW b \in Asker, CallTools(b) \/ RunTool(b) PROVE FALSE
    BY <1>1, <2>3, CallToolsEffect, RunToolEffect DEF Effect
  <2>4. ASSUME NEW b \in Asker, Malformed(b) PROVE phase[a] \in {"model", "tools", "final"}
    BY <1>1, <2>4 DEF Malformed, Completing, Goto, IInv, TypeOK
  <2>5. ASSUME NEW b \in Asker, ReadTurn(b) PROVE phase[a] = "record" /\ Excused(a)
    BY <1>1, <2>5 DEF ReadTurn, Fail, Goto, Excused, GoneOrTaken, IInv, TypeOK
  <2>6. ASSUME NEW b \in Asker, Insert(b) PROVE phase[a] = "insert" /\ Excused(a)
    <3>1. b = a /\ phase[a] = "insert" /\ (turn[a] \in TurnIds \/ ~run \/ ~result[a].storable)
      BY <1>1, <2>6 DEF Insert, Fail, Goto, IInv, TypeOK
    <3>2. ASSUME turn[a] \in TurnIds PROVE Excused(a)
      <4>1. PICK t \in transcript : t.id = turn[a]
        BY <3>2 DEF TurnIds
      <4>2. t.by # a
        BY <1>1, <3>1 DEF IInv, TranscriptAgrees
      <4> QED
        BY <4>1, <4>2 DEF Excused, GoneOrTaken
    <3> QED
      BY <3>1, <3>2 DEF Excused, GoneOrTaken
  <2>7. ASSUME NEW b \in Asker, Commit(b) \/ Respond(b) PROVE FALSE
    BY <1>1, <2>7 DEF Commit, Respond, Goto, IInv, TypeOK
  <2>8. ASSUME Restart \/ DeleteRun \/ UNCHANGED vars PROVE FALSE
    BY <2>8 DEF Restart, DeleteRun, Ended, vars, local
  <2> QED
    BY <1>1, <2>1, <2>2, <2>3, <2>4, <2>5, <2>6, <2>7, <2>8 DEF Next, Step, Provider, Record
<1>2. IInv /\ [Next]_vars => [Caused]_vars
  BY <1>1
<1> QED
  BY <1>2, Safety, PTL DEF Spec, FailureHasACause
=============================================================================
