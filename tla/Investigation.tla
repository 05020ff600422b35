---------------------------- MODULE Investigation ----------------------------
(***************************************************************************)
(* Questions put to the investigation agent about one run.  Each request   *)
(* is one transaction: it reads the last turns, lets a model and a set of  *)
(* read-only tools take turns within two budgets, and records the answer   *)
(* as the next turn of the run.  Requests run on threads of one process,   *)
(* which may be restarted; the run may be deleted under them.              *)
(*                                                                         *)
(* A record id is known to the run or invented by the model.  Of messages  *)
(* and results only the ids they hold are kept, of an answer the ids it    *)
(* cites, and whether PostgreSQL takes its text.                           *)
(***************************************************************************)
EXTENDS Integers, FiniteSets, FiniteSetsExt

CONSTANTS
    Asker,          \* requests
    Known,          \* ids of records of the run
    Invented,       \* ids the model makes up
    MaxIterations,  \* assistant messages of one investigation
    MaxToolCalls,   \* tool calls of one investigation
    MaxRetries      \* attempts of one completion

ASSUME BudgetAssumption ==
    /\ MaxIterations \in Nat \ {0}
    /\ MaxToolCalls \in Nat \ {0}
    /\ MaxRetries \in Nat \ {0}
ASSUME IdAssumption == Known \cap Invented = {}

VARIABLES
    phase,       \* [Asker -> Phases]
    work,        \* [Asker -> the locals of investigate]
    result,      \* [Asker -> what investigate returned]
    aborted,     \* [Asker -> whether its transaction refuses every statement]
    turn,        \* [Asker -> the turn id it read]
    ddl,         \* requests inside CREATE TABLE IF NOT EXISTS
    schemaState, \* the verdict cached by the process
    table,       \* there, absent, or absent and the role may not create it
    transcript,  \* the turns committed
    run          \* whether the run is there

local == <<phase, work, result, aborted, turn>>
storage == <<ddl, schemaState, table>>
vars == <<local, storage, transcript, run>>

-----------------------------------------------------------------------------
Ids == Known \cup Invented
Ended == {"answered", "unavailable", "failed", "lost"}
Phases == {"idle", "history", "model", "tools", "final",
           "record", "insert", "inserted", "committed"} \cup Ended
Tables == {"there", "absent", "forbidden"}
Stops == {"answered", "budget", "iterations"}

Work == [iteration : 0 .. MaxIterations, used : 0 .. MaxToolCalls, pending : 0 .. MaxToolCalls,
         attempt : 0 .. (MaxRetries - 1), evidence : SUBSET Ids, named : SUBSET Invented, stop : Stops]
FreshWork == [iteration |-> 0, used |-> 0, pending |-> 0, attempt |-> 0,
              evidence |-> {}, named |-> {}, stop |-> "answered"]
Results == [cited : SUBSET Ids, grounded : BOOLEAN, named : SUBSET Invented, storable : BOOLEAN]
NoResult == [cited |-> {}, grounded |-> TRUE, named |-> {}, storable |-> TRUE]

Init ==
    /\ phase = [a \in Asker |-> "idle"]
    /\ work = [a \in Asker |-> FreshWork]
    /\ result = [a \in Asker |-> NoResult]
    /\ aborted = [a \in Asker |-> FALSE]
    /\ turn = [a \in Asker |-> 0]
    /\ ddl = {}
    /\ schemaState = "unknown"
    /\ table \in Tables
    /\ transcript = {}
    /\ run = TRUE

Goto(a, p) == phase' = [phase EXCEPT ![a] = p]

-----------------------------------------------------------------------------
(* The request, and the storage it makes sure of.                          *)

\* A run that is not there is answered 404 before a transaction is opened.
Ask(a) ==
    /\ phase[a] = "idle"
    /\ run
    /\ \E use_history \in BOOLEAN : Goto(a, IF use_history THEN "history" ELSE "model")
    /\ UNCHANGED <<work, result, aborted, turn, storage, transcript, run>>

AtStorage(a) == phase[a] \in {"history", "record"}

\* The table is there, or it cannot be made: by the role, or by a transaction
\* that an earlier statement has aborted (the rollback clears that).
JudgeSchema(a) ==
    /\ AtStorage(a) /\ schemaState = "unknown" /\ a \notin ddl
    /\ aborted[a] \/ table # "absent"
    /\ schemaState' = IF table = "there" /\ ~aborted[a] THEN "ready" ELSE "refused"
    /\ aborted' = [aborted EXCEPT ![a] = FALSE]
    /\ UNCHANGED <<phase, work, result, turn, ddl, table, transcript, run>>

\* The statement found no table and is making one.
CreateTable(a) ==
    /\ AtStorage(a) /\ schemaState = "unknown" /\ a \notin ddl
    /\ ~aborted[a] /\ table = "absent"
    /\ ddl' = ddl \cup {a}
    /\ UNCHANGED <<local, schemaState, table, transcript, run>>

\* Of two statements that make it at once, the second is refused by the catalog,
\* and its verdict overwrites the first one's.
CommitTable(a) ==
    /\ a \in ddl
    /\ ddl' = ddl \ {a}
    /\ schemaState' = IF table = "there" THEN "refused" ELSE "ready"
    /\ table' = "there"
    /\ UNCHANGED <<local, transcript, run>>

\* Mutated form: a refused verdict is not a verdict, and is waited out.
Verdict_Ready(a) == schemaState = "ready" /\ a \notin ddl

Verdict(a) == schemaState # "unknown" /\ a \notin ddl

\* The last turns go into the prompt, or none while the verdict is "refused".
ReadHistory(a) ==
    /\ phase[a] = "history" /\ Verdict(a)
    /\ Goto(a, "model")
    /\ UNCHANGED <<work, result, aborted, turn, storage, transcript, run>>

-----------------------------------------------------------------------------
(* One completion: up to MaxRetries attempts at the provider.              *)

Completing(a) == phase[a] \in {"model", "final"}

\* A transient error is tried again, as long as attempts are left.
Retry(a) ==
    /\ Completing(a)
    /\ work[a].attempt + 1 < MaxRetries
    /\ work' = [work EXCEPT ![a].attempt = @ + 1]
    /\ UNCHANGED <<phase, result, aborted, turn, storage, transcript, run>>

\* Mutated form: one cited id from the evidence is enough.
Returned_AnyRead(a, ids, storable) ==
    [cited |-> ids, grounded |-> ids = {} \/ ids \cap work[a].evidence # {},
     named |-> work[a].named, storable |-> storable]

\* What investigate returns: ids cited from the evidence ground the answer.
Returned(a, ids, storable) ==
    [cited |-> ids, grounded |-> ids \subseteq work[a].evidence,
     named |-> work[a].named, storable |-> storable]

\* The locals of investigate are gone once it has returned.  Its text and the
\* arguments of its calls may hold what a TEXT or a JSONB column refuses: a NUL,
\* or half of a surrogate pair.
Return(a, ids) ==
    /\ \E storable \in BOOLEAN : result' = [result EXCEPT ![a] = Returned(a, ids, storable)]
    /\ work' = [work EXCEPT ![a] = FreshWork]
    /\ Goto(a, "record")

\* No key, no choices, an error that is not transient, or the last attempt: 503
\* from the loop, a ready-made sentence without ids from the last completion.
ProviderFails(a) ==
    /\ Completing(a)
    /\ \/ /\ phase[a] = "model"
          /\ Goto(a, "unavailable")
          /\ work' = [work EXCEPT ![a] = FreshWork]
          /\ UNCHANGED result
       \/ /\ phase[a] = "final"
          /\ Return(a, {})
    /\ UNCHANGED <<aborted, turn, storage, transcript, run>>

\* A reply that is no JSON, or a message, a list of calls or a call that is not of
\* the shape it should be: no handler is for it, and the request ends in a 500.
Malformed(a) ==
    /\ Completing(a) \/ phase[a] = "tools"
    /\ Goto(a, "failed")
    /\ work' = [work EXCEPT ![a] = FreshWork]
    /\ UNCHANGED <<result, aborted, turn, storage, transcript, run>>

\* An answer ends the loop, whatever its ids.
Answer(a) ==
    /\ Completing(a)
    /\ \E ids \in SUBSET Ids : Return(a, ids)
    /\ UNCHANGED <<aborted, turn, storage, transcript, run>>

\* Neither text nor calls: the loop ends and one completion without tools follows.
SayNothing(a) ==
    /\ phase[a] = "model"
    /\ work' = [work EXCEPT ![a].attempt = 0]
    /\ Goto(a, "final")
    /\ UNCHANGED <<result, aborted, turn, storage, transcript, run>>

\* Mutated form: the tool budget must be exceeded to end the work.
StopReason_Beyond(w) ==
    IF w.iteration = MaxIterations THEN "iterations"
    ELSE IF w.used > MaxToolCalls THEN "budget" ELSE w.stop

StopReason(w) ==
    IF w.iteration = MaxIterations THEN "iterations"
    ELSE IF w.used >= MaxToolCalls THEN "budget" ELSE w.stop

\* After the last call of a message the loop goes on, or is left without an answer.
Continue(a, w) ==
    \/ /\ w.pending > 0
       /\ work' = [work EXCEPT ![a] = w]
       /\ Goto(a, "tools")
    \/ /\ w.pending = 0
       /\ work' = [work EXCEPT ![a] = [w EXCEPT !.stop = StopReason(w)]]
       /\ Goto(a, IF w.iteration = MaxIterations THEN "final" ELSE "model")

BudgetLeft(a) == MaxToolCalls - work[a].used

\* Mutated form: the budget is looked at after a call instead of before it.
CallTools_OneMore(a) ==
    /\ phase[a] = "model"
    /\ \E n \in 0 .. (BudgetLeft(a) + 1) :
          Continue(a, [work[a] EXCEPT !.iteration = @ + 1, !.attempt = 0, !.pending = n])
    /\ UNCHANGED <<result, aborted, turn, storage, transcript, run>>

\* Calls beyond the budget are not run; a model may ask for tools it was not offered.
CallTools(a) ==
    /\ phase[a] = "model"
    /\ \E n \in 0 .. BudgetLeft(a) :
          /\ n = 0 => BudgetLeft(a) = 0
          /\ Continue(a, [work[a] EXCEPT !.iteration = @ + 1, !.attempt = 0, !.pending = n])
    /\ UNCHANGED <<result, aborted, turn, storage, transcript, run>>

-----------------------------------------------------------------------------
(* One tool call.  Every result is data, an error too.                     *)

Called(a, seen, invented) ==
    Continue(a, [work[a] EXCEPT !.pending = @ - 1, !.used = @ + 1,
                                !.evidence = @ \cup seen, !.named = @ \cup invented])

\* A tool reads records of the run, and nothing in an aborted transaction.
Read(a) ==
    /\ \E ids \in SUBSET Known : Called(a, IF aborted[a] THEN {} ELSE ids, {})
    /\ UNCHANGED aborted

\* There is no such record: the error names the id it was asked for.
Miss(a) ==
    /\ \E id \in Invented : Called(a, IF aborted[a] THEN {} ELSE {id}, {id})
    /\ UNCHANGED aborted

\* Arguments that are no JSON are quoted in the error; no tool is run.
Garble(a) ==
    /\ \E id \in Ids : Called(a, {id}, {id} \cap Invented)
    /\ UNCHANGED aborted

\* An argument the database refuses (a number for an id): the error is returned,
\* the transaction stays aborted.
Refuse(a) ==
    /\ Called(a, {}, {})
    /\ aborted' = [aborted EXCEPT ![a] = TRUE]

RunTool(a) ==
    /\ phase[a] = "tools"
    /\ Read(a) \/ Miss(a) \/ Garble(a) \/ Refuse(a)
    /\ UNCHANGED <<result, turn, storage, transcript, run>>

-----------------------------------------------------------------------------
(* Recording the answer: three statements, a commit, and the response.     *)

Fail(a) ==
    /\ Goto(a, "failed")
    /\ result' = [result EXCEPT ![a] = NoResult]
    /\ UNCHANGED <<work, aborted, turn, storage, transcript, run>>

TurnIds == {t.id : t \in transcript}
NextTurn == Max({0} \cup TurnIds) + 1

\* Mutated form: a refused verdict is believed without asking the table again.
ReadTurn_Trusting(a) ==
    /\ phase[a] = "record" /\ Verdict(a)
    /\ \/ /\ aborted[a] \/ schemaState = "refused"
          /\ Fail(a)
       \/ /\ ~aborted[a] /\ schemaState = "ready"
          /\ turn' = [turn EXCEPT ![a] = NextTurn]
          /\ Goto(a, "insert")
          /\ UNCHANGED <<work, result, aborted, storage, transcript, run>>

ReadTurn(a) ==
    /\ phase[a] = "record" /\ Verdict(a)
    /\ \/ /\ aborted[a] \/ table # "there"
          /\ Fail(a)
       \/ /\ ~aborted[a] /\ table = "there"
          /\ turn' = [turn EXCEPT ![a] = NextTurn]
          /\ Goto(a, "insert")
          /\ UNCHANGED <<work, result, aborted, storage, transcript, run>>

\* Mutated form: the table has no key on the run and the turn.
Insert_NoKey(a) ==
    /\ phase[a] = "insert"
    /\ \/ /\ ~run \/ ~result[a].storable
          /\ Fail(a)
       \/ /\ run /\ result[a].storable
          /\ Goto(a, "inserted")
          /\ UNCHANGED <<work, result, aborted, turn, storage, transcript, run>>

\* The primary key waits for an uncommitted row of the same number and refuses
\* a committed one; the foreign key refuses a run that is gone, a column a text.
Insert(a) ==
    /\ phase[a] = "insert"
    /\ \A b \in Asker : ~(phase[b] = "inserted" /\ turn[b] = turn[a])
    /\ \/ /\ turn[a] \in TurnIds \/ ~run \/ ~result[a].storable
          /\ Fail(a)
       \/ /\ turn[a] \notin TurnIds /\ run /\ result[a].storable
          /\ Goto(a, "inserted")
          /\ UNCHANGED <<work, result, aborted, turn, storage, transcript, run>>

Commit(a) ==
    /\ phase[a] = "inserted"
    /\ transcript' = transcript \cup {[id |-> turn[a], by |-> a, result |-> result[a]]}
    /\ Goto(a, "committed")
    /\ UNCHANGED <<work, result, aborted, turn, storage, run>>

Respond(a) ==
    /\ phase[a] = "committed"
    /\ Goto(a, "answered")
    /\ UNCHANGED <<work, result, aborted, turn, storage, transcript, run>>

-----------------------------------------------------------------------------
(* What happens around the requests.                                       *)

\* The process is restarted: transactions roll back, the cached verdict is forgotten.
Restart ==
    /\ phase' = [a \in Asker |-> IF phase[a] \in Ended \cup {"idle"} THEN phase[a] ELSE "lost"]
    /\ phase' # phase
    /\ work' = [a \in Asker |-> FreshWork]
    /\ result' = [a \in Asker |-> IF phase'[a] = "lost" THEN NoResult ELSE result[a]]
    /\ aborted' = [a \in Asker |-> aborted[a] /\ phase'[a] # "lost"]
    /\ turn' = [a \in Asker |-> IF phase'[a] = "lost" THEN 0 ELSE turn[a]]
    /\ ddl' = {}
    /\ schemaState' = "unknown"
    /\ UNCHANGED <<table, transcript, run>>

\* The dataset is replaced: the run goes, and its turns with it.  The row is
\* locked while a turn that refers to it is not committed.
DeleteRun ==
    /\ run
    /\ \A a \in Asker : phase[a] # "inserted"
    /\ run' = FALSE
    /\ transcript' = {}
    /\ UNCHANGED <<local, storage>>

Storage(a) == JudgeSchema(a) \/ CreateTable(a) \/ CommitTable(a)
Provider(a) == Retry(a) \/ ProviderFails(a) \/ Answer(a) \/ SayNothing(a) \/ CallTools(a)
Record(a) == ReadTurn(a) \/ Insert(a) \/ Commit(a) \/ Respond(a)
Step(a) == Storage(a) \/ ReadHistory(a) \/ Provider(a) \/ RunTool(a) \/ Malformed(a) \/ Record(a)

Next == \/ \E a \in Asker : Ask(a) \/ Step(a)
        \/ Restart
        \/ DeleteRun

\* The threads of accepted requests run on; nothing says in which order.
Fairness == WF_vars(\E a \in Asker : Step(a))
Spec == Init /\ [][Next]_vars /\ Fairness

-----------------------------------------------------------------------------
(* Properties.                                                             *)

TypeOK ==
    /\ phase \in [Asker -> Phases]
    /\ work \in [Asker -> Work]
    /\ result \in [Asker -> Results]
    /\ aborted \in [Asker -> BOOLEAN]
    /\ turn \in [Asker -> Nat]
    /\ ddl \subseteq Asker
    /\ schemaState \in {"unknown", "ready", "refused"}
    /\ table \in Tables
    /\ transcript \subseteq [id : Nat, by : Asker, result : Results]
    /\ run \in BOOLEAN

\* The transcript is what was answered: turns are numbered without a gap, each by
\* one request; an answer that was given is there as it was given, one that ended
\* in an error is not, and only a restart after the commit (store.py:64) leaves a
\* turn whose answer nobody received.
TranscriptAgrees ==
    /\ TurnIds = 1 .. Cardinality(transcript)
    /\ \A t, u \in transcript : t.by = u.by => t = u
    /\ \A a \in Asker : phase[a] \in {"committed", "answered"} /\ run => \E t \in transcript : t.by = a
    /\ \A t \in transcript :
          \/ phase[t.by] = "lost"
          \/ phase[t.by] \in {"committed", "answered"} /\ t.result = result[t.by]

\* Neither budget is exceeded, and the recorded stop reason names the budget that
\* ended the work, also when a message holds more calls than are left.
WorkIsBounded == \A a \in Asker :
    /\ work[a].used + work[a].pending <= MaxToolCalls
    /\ phase[a] = "model" => work[a].iteration < MaxIterations
    /\ work[a].stop = "iterations" => work[a].iteration = MaxIterations
    /\ work[a].stop = "budget" => work[a].used = MaxToolCalls
    /\ work[a].stop = "answered" /\ phase[a] # "tools" => work[a].used < MaxToolCalls

\* An answer recorded as grounded is accounted for by the calls of its own request:
\* what it cites is in the run, or one of these calls named it.  That an id was
\* invented in an earlier turn, and is in the prompt, does not ground it
\* (investigator.py:161, 189-198).  The second case is not what the text promises:
\* GroundedMeansRead, without it, fails.
GroundedMeansSeen == \A t \in transcript :
    t.result.grounded => t.result.cited \subseteq Known \cup t.result.named

\* "A claim it makes about a record it never read is caught rather than shipped"
\* (tests/test_agent.py:8-9): an answer recorded as grounded cites no record that
\* does not exist.
GroundedMeansRead == \A t \in transcript :
    t.result.grounded => t.result.cited \subseteq Known

\* A request ends in a 500 only while it takes up a message of the model, when that
\* is malformed; and once investigate has returned, only when the run is gone, the
\* table cannot be had, another request took the number it read, a tool's argument
\* aborted its transaction, or a column refuses its text.  A lost race for the table
\* and a verdict cached in an aborted transaction are no such cause (store.py:31,
\* 48-65, llm.py:138-142, investigator.py:138-150).
GoneOrTaken(a) ==
    \/ ~run
    \/ table # "there"
    \/ \E t \in transcript : t.by # a /\ t.id = turn[a]
Excused(a) == GoneOrTaken(a) \/ aborted[a] \/ ~result[a].storable
Failing(a) == phase[a] # "failed" /\ phase'[a] = "failed"
FailureHasACause ==
    [][\A a \in Asker : Failing(a) =>
          IF phase[a] \in {"record", "insert"} THEN Excused(a)
          ELSE phase[a] \in {"model", "tools", "final"}]_vars

\* The requests that were taken on all end, in an answer or in an error: none waits
\* for ever on the provider, on its budget or on the row of another one.
AtWork == {a \in Asker : phase[a] \notin Ended \cup {"idle"}}
EveryAskEnds == AtWork # {} ~> AtWork = {}
=============================================================================
