------------------------- MODULE RunLifecycleProofs -------------------------
(***************************************************************************)
(* Theorems about the run lifecycle, for any number of workers, callers of *)
(* tick, tables, runs, batches and incarnations.                           *)
(*                                                                         *)
(* The properties of persisted runs follow from what is true of a run that *)
(* is still in memory: as long as its row exists, the dataset it has read  *)
(* from is the one that is there, and has only grown; and what it read     *)
(* later it read of a later moment.                                        *)
(***************************************************************************)
EXTENDS RunLifecycle, TLAPS

\* There are no two callers of tick.
OneTicker == \A k, l \in Ticker : k = l

\* What a picture looks like while the dataset it was taken of is there.
Sound(v) ==
    \A t \in Table : v[t].read =>
        /\ v[t].epoch = dataset.epoch
        /\ v[t].batches <= dataset.batches
        /\ \A u \in Table :
               v[u].read /\ LoadOrder[t] < LoadOrder[u] => v[t].batches <= v[u].batches

\* Tables are read in the order of load.
InOrder(v) ==
    \A t, u \in Table : v[t].read /\ ~ v[u].read => LoadOrder[t] <= LoadOrder[u]

AllRead(v) == \A t \in Table : v[t].read

Covers(n, v) == \A t \in Table : v[t].batches <= n

Busy(w) == pc[w] # "idle"

JobsSound ==
    \A w \in Worker :
        /\ Busy(w) => job[w].run \in 1 .. minted
        /\ InOrder(job[w].view)
        /\ pc[w] \in {"persist", "truth", "counts", "complete"} => AllRead(job[w].view)
        /\ Busy(w) /\ Exists(w) => Sound(job[w].view)

\* A run in the hands of a worker is RUNNING, and has its rows or not.
InHand(w) ==
    /\ runs[job[w].run].status = "RUNNING"
    /\ pc[w] \in {"load", "persist"} => runs[job[w].run].picture = NoPicture
    /\ pc[w] \in {"truth", "counts", "complete"} => runs[job[w].run].picture = job[w].view
    /\ pc[w] = "complete" /\ OneTicker => Covers(job[w].counts, job[w].view)

RunsInHand == \A w \in Worker : Busy(w) /\ Exists(w) => InHand(w)

OneWorkerEach ==
    \A w, v \in Worker : Busy(w) /\ Busy(v) /\ job[w].run = job[v].run => w = v

NoRunWithoutDataset == Present \/ DOMAIN runs = {}

PicturesSound ==
    \A r \in DOMAIN runs :
        /\ Sound(runs[r].picture)
        /\ runs[r].picture # NoPicture => AllRead(runs[r].picture)

\* With one caller of tick, row_counts and the copy of it that the caller holds
\* count every batch, also where the copy is of an earlier incarnation.
CountsSound ==
    OneTicker => /\ dataset.batches <= dataset.counted
                 /\ \A k \in Ticker : head[k] > 0 => dataset.batches <= head[k]

CompletedSound ==
    \A r \in Completed :
        /\ AllRead(runs[r].picture)
        /\ OneTicker => Covers(runs[r].counts, runs[r].picture)

IInv ==
    /\ TypeOK
    /\ JobsSound
    /\ RunsInHand
    /\ OneWorkerEach
    /\ NoRunWithoutDataset
    /\ PicturesSound
    /\ CountsSound
    /\ CompletedSound
-----------------------------------------------------------------------------
LEMMA NothingRead == NoPicture \in Picture /\ InOrder(NoPicture) /\ Sound(NoPicture)
<1>1. /\ NoPicture \in Picture
      /\ \A t \in Table : NoPicture[t] = [read |-> FALSE, epoch |-> 0, batches |-> 0]
  BY DEF NoPicture, Picture, Reading
<1> QED
  BY <1>1 DEF InOrder, Sound

LEMMA NoJobTyped == NoJob \in Job /\ NoJob.run = 0 /\ NoJob.view = NoPicture
BY NothingRead DEF NoJob, Job

LEMMA Typed ==
    ASSUME TypeOK
    PROVE  /\ dataset.epoch \in Nat /\ dataset.batches \in Nat /\ dataset.counted \in Nat
           /\ dataset.guards \in SUBSET Nat /\ minted \in Nat
           /\ pc \in [Worker -> Step] /\ job \in [Worker -> Job] /\ head \in [Ticker -> Nat]
           /\ runs \in [DOMAIN runs -> Run]
           /\ \A w \in Worker : /\ job[w].view \in Picture /\ job[w].counts \in Nat
                                /\ \A t \in Table : job[w].view[t].batches \in Nat
           /\ \A r \in DOMAIN runs :
                  /\ runs[r].picture \in Picture /\ runs[r].counts \in Nat
                  /\ \A t \in Table : runs[r].picture[t].batches \in Nat
<1>1. /\ dataset \in Dataset /\ minted \in Nat /\ pc \in [Worker -> Step]
      /\ job \in [Worker -> Job] /\ head \in [Ticker -> Nat] /\ runs \in [DOMAIN runs -> Run]
  BY DEF TypeOK
<1>2. \A p \in Picture : \A t \in Table : p[t].batches \in Nat
  BY DEF Picture, Reading
<1>3. \A w \in Worker : job[w].view \in Picture /\ job[w].counts \in Nat
  BY <1>1 DEF Job
<1>4. \A r \in DOMAIN runs : runs[r].picture \in Picture /\ runs[r].counts \in Nat
  BY <1>1 DEF Run
<1>5. /\ dataset.epoch \in Nat /\ dataset.batches \in Nat /\ dataset.counted \in Nat
      /\ dataset.guards \in SUBSET Nat
  BY <1>1 DEF Dataset
<1> QED
  BY <1>1, <1>2, <1>3, <1>4, <1>5

LEMMA InitIInv == ASSUME Init PROVE IInv
<1>1. TypeOK
  <2>1. /\ job \in [Worker -> Job] /\ head \in [Ticker -> Nat] /\ pc \in [Worker -> Step]
        /\ minted = 0
    BY NoJobTyped DEF Init, Step
  <2>2. dataset \in Dataset
    BY DEF Init, Dataset
  <2>3. DOMAIN runs = {} /\ runs \in [DOMAIN runs -> Run]
    BY DEF Init
  <2> QED
    BY <2>1, <2>2, <2>3 DEF TypeOK
<1>2. JobsSound /\ RunsInHand /\ OneWorkerEach
  <2>1. \A w \in Worker : pc[w] = "idle" /\ job[w] = NoJob
    BY DEF Init
  <2> QED
    BY <2>1, NothingRead, NoJobTyped DEF JobsSound, RunsInHand, OneWorkerEach, Busy
<1>3. NoRunWithoutDataset /\ PicturesSound /\ CompletedSound
  BY DEF Init, NoRunWithoutDataset, PicturesSound, CompletedSound, Completed
<1>4. CountsSound
  BY DEF Init, CountsSound
<1> QED
  BY <1>1, <1>2, <1>3, <1>4 DEF IInv

\* A step that changes one worker's memory only, and keeps what it has read.
LEMMA MemoryOnly ==
    ASSUME IInv, NEW w \in Worker, TypeOK', UNCHANGED <<dataset, head, runs, minted>>,
           \A v \in Worker \ {w} : pc'[v] = pc[v] /\ job'[v] = job[v],
           InOrder(job'[w].view),
           \/ pc'[w] = "idle"
           \/ /\ Busy(w) /\ job'[w].run = job[w].run
              /\ pc'[w] # "load" => AllRead(job'[w].view)
              /\ Exists(w) => Sound(job'[w].view)
              /\ pc'[w] \in {"load", "persist"} => pc[w] = "load"
              /\ pc'[w] \in {"truth", "counts", "complete"} =>
                     pc[w] \in {"truth", "counts"} /\ job'[w].view = job[w].view
              /\ pc'[w] = "complete" => job'[w].counts = dataset.counted
    PROVE  IInv'
<1>1. (PicturesSound /\ CompletedSound /\ NoRunWithoutDataset /\ CountsSound)'
  BY DEF IInv, PicturesSound, CompletedSound, Completed, NoRunWithoutDataset, Present,
         CountsSound, Sound
<1>2. JobsSound'
  <2> SUFFICES ASSUME NEW v \in Worker
               PROVE  (/\ Busy(v) => job[v].run \in 1 .. minted
                       /\ InOrder(job[v].view)
                       /\ pc[v] \in {"persist", "truth", "counts", "complete"} =>
                              AllRead(job[v].view)
                       /\ Busy(v) /\ Exists(v) => Sound(job[v].view))'
    BY DEF JobsSound
  <2>1. CASE v # w
    BY <2>1 DEF IInv, JobsSound, Busy, Exists, Sound
  <2>2. CASE v = w
    BY <2>2 DEF IInv, JobsSound, Busy, Exists, Sound
  <2> QED
    BY <2>1, <2>2
<1>3. OneWorkerEach'
  BY DEF IInv, OneWorkerEach, Busy
<1>4. RunsInHand'
  <2> SUFFICES ASSUME NEW v \in Worker, Busy(v)', Exists(v)' PROVE InHand(v)'
    BY DEF RunsInHand
  <2>1. CASE v # w
    BY <2>1 DEF IInv, RunsInHand, InHand, Busy, Exists
  <2>2. CASE v = w
    <3>1. Busy(w) /\ Exists(w) /\ pc'[w] # "idle" /\ InHand(w)
      BY <2>2 DEF Busy, Exists, IInv, RunsInHand
    <3>2. ASSUME pc'[w] = "complete", OneTicker PROVE Covers(job'[w].counts, job'[w].view)
      <4>1. AllRead(job'[w].view) /\ Sound(job'[w].view) /\ dataset.batches <= dataset.counted
        BY <3>1, <3>2 DEF IInv, CountsSound
      <4>2. /\ dataset.batches \in Nat /\ dataset.counted \in Nat
            /\ \A t \in Table : job'[w].view[t].batches \in Nat
        <5>1. job'[w].view = job[w].view
          BY <3>1, <3>2
        <5> QED
          BY <5>1, Typed DEF IInv
      <4> QED
        BY <3>1, <3>2, <4>1, <4>2 DEF Sound, AllRead, Covers
    <3>3. pc'[w] \in Step
      BY DEF TypeOK
    <3> QED
      BY <2>2, <3>1, <3>2, <3>3 DEF InHand, Step
  <2> QED
    BY <2>1, <2>2
<1> QED
  BY <1>1, <1>2, <1>3, <1>4 DEF IInv

LEMMA ReadTablePreserves ==
    ASSUME IInv, NEW w \in Worker, NEW t \in Table, ReadTable(w, t) PROVE IInv'
<1> DEFINE v == job[w].view
           x == [v EXCEPT ![t] = Now]
<1>1. /\ pc \in [Worker -> Step] /\ job \in [Worker -> Job] /\ v \in Picture
      /\ dataset.batches \in Nat /\ Now \in Reading
      /\ Now.read /\ Now.batches = dataset.batches /\ Now.epoch = dataset.epoch
  BY Typed DEF IInv, Now, Reading
<1>2. /\ pc[w] = "load" /\ ~ v[t].read
      /\ \A u \in Table : ~ v[u].read => LoadOrder[t] <= LoadOrder[u]
      /\ UNCHANGED <<dataset, head, runs, minted>>
  BY DEF ReadTable, IsNext, Unread
<1>3. x \in Picture /\ x[t] = Now /\ \A u \in Table \ {t} : x[u] = v[u]
  BY <1>1 DEF Picture
<1>4. /\ job' = [job EXCEPT ![w] = [job[w] EXCEPT !.view = x]]
      /\ [job[w] EXCEPT !.view = x] \in Job
  <2>1. job[w] \in Job
    BY <1>1
  <2> QED
    BY <1>3, <2>1 DEF ReadTable, Job
<1>5. /\ job' \in [Worker -> Job] /\ job'[w].view = x /\ job'[w].run = job[w].run
      /\ \A u \in Worker \ {w} : job'[u] = job[u]
  BY <1>1, <1>4 DEF Job
<1>6. /\ pc' \in [Worker -> Step] /\ \A u \in Worker \ {w} : pc'[u] = pc[u]
      /\ pc'[w] = IF Unread(w) = {t} THEN "persist" ELSE "load"
  BY <1>1, <1>2 DEF ReadTable, Step
<1>7. TypeOK'
  BY <1>2, <1>5, <1>6 DEF IInv, TypeOK
<1>8. \A u \in Table : LoadOrder[u] \in Int
  BY TableAssumption DEF LoadOrder
<1>9. InOrder(v)
  BY DEF IInv, JobsSound
<1>10. InOrder(x)
  BY <1>2, <1>3, <1>8, <1>9 DEF InOrder
<1>11. ASSUME Exists(w) PROVE Sound(x)
  <2>1. Sound(v)
    BY <1>2, <1>11 DEF IInv, JobsSound, Busy
  <2>2. \A u \in Table : v[u].read => LoadOrder[u] <= LoadOrder[t]
    BY <1>2, <1>9 DEF InOrder
  <2> SUFFICES ASSUME NEW a \in Table, x[a].read
               PROVE  /\ x[a].epoch = dataset.epoch /\ x[a].batches <= dataset.batches
                      /\ \A u \in Table : x[u].read /\ LoadOrder[a] < LoadOrder[u] =>
                             x[a].batches <= x[u].batches
    BY DEF Sound
  <2>3. CASE a # t
    BY <1>1, <1>3, <2>1, <2>3 DEF Sound
  <2>4. CASE a = t
    <3>1. \A u \in Table : x[u].read => LoadOrder[u] <= LoadOrder[t]
      BY <1>3, <1>8, <2>2
    <3>2. \A u \in Table : ~ (x[u].read /\ LoadOrder[a] < LoadOrder[u])
      BY <1>8, <2>4, <3>1
    <3> QED
      BY <1>1, <1>3, <2>4, <3>2
  <2> QED
    BY <2>3, <2>4
<1>12. pc'[w] # "load" => AllRead(x)
  BY <1>1, <1>3, <1>6 DEF Unread, AllRead
<1> QED
  BY <1>2, <1>5, <1>6, <1>7, <1>10, <1>11, <1>12, MemoryOnly DEF Busy

LEMMA ScoringPreserves ==
    ASSUME IInv, NEW w \in Worker, ReadTruth(w) \/ ReadCounts(w) PROVE IInv'
<1>1. /\ pc \in [Worker -> Step] /\ job \in [Worker -> Job]
      /\ dataset.guards \in SUBSET Nat /\ dataset.counted \in Nat
  BY Typed DEF IInv
<1>2. TypeOK'
  <2>1. pc' \in [Worker -> Step]
    BY <1>1 DEF ReadTruth, ReadCounts, Step
  <2>2. job' \in [Worker -> Job]
    <3>1. job[w] \in Job
      BY <1>1
    <3>2. /\ [job[w] EXCEPT !.truth = dataset.guards] \in Job
          /\ [job[w] EXCEPT !.counts = dataset.counted] \in Job
      BY <1>1, <3>1 DEF Job
    <3>3. \/ job' = [job EXCEPT ![w] = [job[w] EXCEPT !.truth = dataset.guards]]
          \/ job' = [job EXCEPT ![w] = [job[w] EXCEPT !.counts = dataset.counted]]
      BY DEF ReadTruth, ReadCounts
    <3> QED
      BY <1>1, <3>2, <3>3
  <2> QED
    BY <2>1, <2>2 DEF IInv, TypeOK, ReadTruth, ReadCounts
<1>3. /\ UNCHANGED <<dataset, head, runs, minted>>
      /\ \A v \in Worker \ {w} : pc'[v] = pc[v] /\ job'[v] = job[v]
      /\ job'[w].run = job[w].run /\ job'[w].view = job[w].view
      /\ \/ pc[w] = "truth" /\ pc'[w] = "counts"
         \/ pc[w] = "counts" /\ pc'[w] = "complete" /\ job'[w].counts = dataset.counted
  BY <1>1 DEF ReadTruth, ReadCounts, Job
<1>4. /\ Busy(w) /\ AllRead(job[w].view) /\ InOrder(job[w].view)
      /\ Exists(w) => Sound(job[w].view)
  BY <1>3 DEF IInv, JobsSound, Busy
<1> QED
  BY <1>2, <1>3, <1>4, MemoryOnly

LEMMA GivingUpPreserves ==
    ASSUME IInv, NEW w \in Worker, PersistFails(w) \/ ReadCountsFails(w) \/ Crash(w)
    PROVE  IInv'
<1>1. Idle(w) /\ UNCHANGED <<dataset, head, runs, minted>>
  BY DEF PersistFails, ReadCountsFails, Crash
<1>2. pc \in [Worker -> Step] /\ job \in [Worker -> Job]
  BY Typed DEF IInv
<1>3. TypeOK'
  BY <1>1, <1>2, NoJobTyped DEF IInv, TypeOK, Idle, Step
<1>4. /\ pc'[w] = "idle" /\ job'[w].view = NoPicture
      /\ \A v \in Worker \ {w} : pc'[v] = pc[v] /\ job'[v] = job[v]
  BY <1>1, <1>2, NoJobTyped DEF Idle
<1> QED
  BY <1>1, <1>3, <1>4, NothingRead, MemoryOnly

\* A new run is nobody else's: its id is above all that were handed out.
LEMMA StartPreserves == ASSUME IInv, NEW w \in Worker, Start(w) PROVE IInv'
<1>1. /\ pc \in [Worker -> Step] /\ job \in [Worker -> Job] /\ minted \in Nat
      /\ DOMAIN runs \subseteq 1 .. minted
      /\ \A r \in DOMAIN runs : runs[r] \in Run
      /\ [NoJob EXCEPT !.run = minted + 1] \in Job
  <2>1. pc \in [Worker -> Step] /\ job \in [Worker -> Job] /\ minted \in Nat
    BY DEF IInv, TypeOK
  <2>2. DOMAIN runs \subseteq 1 .. minted /\ runs \in [DOMAIN runs -> Run]
    BY DEF IInv, TypeOK
  <2>3. [NoJob EXCEPT !.run = minted + 1] \in Job
    <3>1. minted + 1 \in Nat
      BY <2>1
    <3>2. \A j \in Job, n \in Nat : [j EXCEPT !.run = n] \in Job
      BY DEF Job
    <3> QED
      BY <3>1, <3>2, NoJobTyped
  <2> QED
    BY <2>1, <2>2, <2>3
<1>2. /\ minted' = minted + 1 /\ dataset' = dataset /\ head' = head
      /\ DOMAIN runs' = DOMAIN runs \cup {minted + 1} /\ minted + 1 \notin DOMAIN runs
      /\ \A r \in DOMAIN runs : runs'[r] = runs[r]
      /\ runs'[minted + 1] = [status |-> "RUNNING", picture |-> NoPicture, counts |-> 0]
      /\ runs' = [r \in DOMAIN runs' |-> runs'[r]]
  BY <1>1 DEF Start
<1>3. /\ pc[w] = "idle" /\ pc'[w] = "load"
      /\ job'[w].run = minted + 1 /\ job'[w].view = NoPicture
      /\ \A v \in Worker \ {w} : pc'[v] = pc[v] /\ job'[v] = job[v]
  BY <1>1 DEF Start, NoJob
<1>4. \A v \in Worker \ {w} : Busy(v) => job[v].run \in 1 .. minted
  BY DEF IInv, JobsSound
<1>5. TypeOK'
  <2>1. pc' \in [Worker -> Step] /\ job' \in [Worker -> Job]
    BY <1>1 DEF Start, Step
  <2>2. runs'[minted + 1] \in Run
    BY <1>2, NothingRead DEF Run
  <2>3. runs' \in [DOMAIN runs' -> Run]
    BY <1>1, <1>2, <2>2
  <2> QED
    BY <1>1, <1>2, <2>1, <2>3 DEF IInv, TypeOK
<1>6. Sound(NoPicture)' /\ InOrder(NoPicture)
  <2>1. Sound(NoPicture) /\ InOrder(NoPicture)
    BY NothingRead
  <2> QED
    BY <1>2, <2>1 DEF Sound
<1>7. JobsSound'
  <2> SUFFICES ASSUME NEW v \in Worker
               PROVE  (/\ Busy(v) => job[v].run \in 1 .. minted
                       /\ InOrder(job[v].view)
                       /\ pc[v] \in {"persist", "truth", "counts", "complete"} =>
                              AllRead(job[v].view)
                       /\ Busy(v) /\ Exists(v) => Sound(job[v].view))'
    BY DEF JobsSound
  <2>1. CASE v = w
    <3>1. Sound(job[w].view)'
      BY <1>3, <1>6 DEF Sound
    <3> QED
      BY <1>1, <1>2, <1>3, <1>6, <2>1, <3>1
  <2>2. CASE v # w
    BY <1>1, <1>2, <1>3, <1>4, <2>2 DEF IInv, JobsSound, Busy, Exists, Sound
  <2> QED
    BY <2>1, <2>2
<1>8. RunsInHand'
  <2> SUFFICES ASSUME NEW v \in Worker, Busy(v)', Exists(v)' PROVE InHand(v)'
    BY DEF RunsInHand
  <2>1. CASE v = w
    BY <1>2, <1>3, <2>1 DEF InHand
  <2>2. CASE v # w
    BY <1>1, <1>2, <1>3, <1>4, <2>2 DEF IInv, RunsInHand, InHand, Busy, Exists
  <2> QED
    BY <2>1, <2>2
<1>9. OneWorkerEach'
  BY <1>1, <1>3, <1>4 DEF IInv, OneWorkerEach, Busy
<1>10. PicturesSound'
  <2> SUFFICES ASSUME NEW r \in DOMAIN runs'
               PROVE  (/\ Sound(runs[r].picture)
                       /\ runs[r].picture # NoPicture => AllRead(runs[r].picture))'
    BY DEF PicturesSound
  <2>1. CASE r = minted + 1
    BY <1>2, <1>6, <2>1 DEF Sound
  <2>2. CASE r # minted + 1
    <3>1. r \in DOMAIN runs /\ runs'[r] = runs[r]
      BY <1>2, <2>2
    <3>2. /\ Sound(runs[r].picture)
          /\ runs[r].picture # NoPicture => AllRead(runs[r].picture)
      BY <3>1 DEF IInv, PicturesSound
    <3> QED
      BY <1>2, <3>1, <3>2 DEF Sound
  <2> QED
    BY <2>1, <2>2
<1>11. CompletedSound' /\ NoRunWithoutDataset' /\ CountsSound'
  BY <1>2 DEF IInv, CompletedSound, Completed, NoRunWithoutDataset, Present, CountsSound, Start
<1> QED
  BY <1>5, <1>7, <1>8, <1>9, <1>10, <1>11 DEF IInv

\* What a step does that writes the row of one run, and no other row.
OneRow(r) ==
    /\ DOMAIN runs' = DOMAIN runs
    /\ runs' \in [DOMAIN runs -> Run]
    /\ \A q \in DOMAIN runs \ {r} : runs'[q] = runs[q]

LEMMA PersistPreserves == ASSUME IInv, NEW w \in Worker, Persist(w) PROVE IInv'
<1> DEFINE r == job[w].run
<1>1. /\ pc \in [Worker -> Step] /\ job \in [Worker -> Job]
      /\ runs \in [DOMAIN runs -> Run] /\ r \in DOMAIN runs
  BY DEF IInv, TypeOK, Persist, Exists
<1>2. /\ UNCHANGED <<dataset, head, minted, job>> /\ pc[w] = "persist" /\ pc'[w] = "truth"
      /\ \A v \in Worker \ {w} : pc'[v] = pc[v]
      /\ pc' \in [Worker -> Step]
  BY <1>1 DEF Persist, Step
<1>3. /\ Busy(w) /\ Exists(w) /\ Sound(job[w].view) /\ AllRead(job[w].view)
      /\ runs[r].status = "RUNNING"
  BY <1>1, <1>2 DEF IInv, JobsSound, RunsInHand, InHand, Busy, Exists
<1>4. OneRow(r) /\ runs'[r].picture = job[w].view /\ runs'[r].status = "RUNNING"
  <2>1. runs[r] \in Run /\ job[w].view \in Picture
    BY <1>1 DEF Job
  <2>2. [runs[r] EXCEPT !.picture = job[w].view] \in Run
    BY <2>1 DEF Run
  <2>3. runs' = [runs EXCEPT ![r] = [runs[r] EXCEPT !.picture = job[w].view]]
    BY DEF Persist
  <2> QED
    BY <1>1, <1>3, <2>1, <2>2, <2>3 DEF OneRow, Run
<1>5. \A v \in Worker \ {w} : Busy(v) => job[v].run # r
  BY <1>3 DEF IInv, OneWorkerEach
<1>6. TypeOK'
  BY <1>2, <1>4 DEF IInv, TypeOK, OneRow
<1>7. JobsSound' /\ OneWorkerEach'
  BY <1>2, <1>3, <1>4 DEF IInv, JobsSound, OneWorkerEach, Busy, Exists, Sound, OneRow
<1>8. RunsInHand'
  <2> SUFFICES ASSUME NEW v \in Worker, Busy(v)', Exists(v)' PROVE InHand(v)'
    BY DEF RunsInHand
  <2>1. CASE v = w
    BY <1>2, <1>4, <2>1 DEF InHand
  <2>2. CASE v # w
    BY <1>2, <1>4, <1>5, <2>2 DEF IInv, RunsInHand, InHand, Busy, Exists, OneRow
  <2> QED
    BY <2>1, <2>2
<1>9. PicturesSound' /\ NoRunWithoutDataset' /\ CountsSound'
  BY <1>2, <1>3, <1>4
     DEF IInv, PicturesSound, NoRunWithoutDataset, Present, CountsSound, Sound, OneRow
<1>10. CompletedSound'
  BY <1>2, <1>4 DEF IInv, CompletedSound, Completed, OneRow
<1> QED
  BY <1>6, <1>7, <1>8, <1>9, <1>10 DEF IInv

LEMMA CompletePreserves == ASSUME IInv, NEW w \in Worker, Complete(w) PROVE IInv'
<1> DEFINE r == job[w].run
<1>1. /\ pc \in [Worker -> Step] /\ job \in [Worker -> Job]
      /\ runs \in [DOMAIN runs -> Run]
  BY Typed DEF IInv
<1>2. /\ UNCHANGED <<dataset, head, minted>> /\ pc[w] = "complete" /\ pc'[w] = "idle"
      /\ job'[w].view = NoPicture
      /\ \A v \in Worker \ {w} : pc'[v] = pc[v] /\ job'[v] = job[v]
      /\ pc' \in [Worker -> Step] /\ job' \in [Worker -> Job]
  BY <1>1, NoJobTyped DEF Complete, Idle, Step
<1>3. \A v \in Worker \ {w} : Busy(v) => job[v].run # r
  BY <1>2 DEF IInv, OneWorkerEach, Busy
<1>4. /\ OneRow(r)
      /\ r \in DOMAIN runs => runs'[r].picture = runs[r].picture
                              /\ runs'[r].counts = job[w].counts
  <2>1. \A q \in DOMAIN runs :
            [runs[q] EXCEPT !.status = "COMPLETED", !.counts = job[w].counts] \in Run
    BY <1>1 DEF Job, Run
  <2>2. /\ DOMAIN runs' = DOMAIN runs
        /\ \A q \in DOMAIN runs \ {r} : runs'[q] = runs[q]
        /\ r \in DOMAIN runs => runs'[r] =
               [runs[r] EXCEPT !.status = "COMPLETED", !.counts = job[w].counts]
        /\ runs' = [q \in DOMAIN runs |-> runs'[q]]
    BY DEF Complete
  <2>3. \A q \in DOMAIN runs : runs'[q] \in Run
    <3> SUFFICES ASSUME NEW q \in DOMAIN runs PROVE runs'[q] \in Run
      OBVIOUS
    <3>1. CASE q = r
      BY <2>1, <2>2, <3>1
    <3>2. CASE q # r
      <4>1. runs[q] \in Run
        BY <1>1
      <4> QED
        BY <2>2, <3>2, <4>1
    <3> QED
      BY <3>1, <3>2
  <2>4. r \in DOMAIN runs => runs[r] \in Run
    BY <1>1
  <2> QED
    <3>1. OneRow(r)
      BY <2>2, <2>3 DEF OneRow
    <3> QED
      BY <2>2, <2>4, <3>1 DEF Run
<1>5. TypeOK'
  BY <1>2, <1>4 DEF IInv, TypeOK, OneRow
<1>6. JobsSound' /\ OneWorkerEach'
  BY <1>2, <1>4, NothingRead
     DEF IInv, JobsSound, OneWorkerEach, Busy, Exists, Sound, OneRow
<1>7. RunsInHand'
  BY <1>2, <1>3, <1>4 DEF IInv, RunsInHand, InHand, Busy, Exists, OneRow
<1>8. PicturesSound' /\ NoRunWithoutDataset' /\ CountsSound'
  BY <1>2, <1>4
     DEF IInv, PicturesSound, NoRunWithoutDataset, Present, CountsSound, Sound, OneRow
<1>9. CompletedSound'
  <2> SUFFICES ASSUME NEW q \in DOMAIN runs, runs'[q].status = "COMPLETED"
               PROVE  /\ AllRead(runs'[q].picture)
                      /\ OneTicker => Covers(runs'[q].counts, runs'[q].picture)
    BY <1>2, <1>4 DEF CompletedSound, Completed, OneRow
  <2>1. CASE q = r
    <3>1. /\ runs[r].picture = job[w].view /\ AllRead(job[w].view)
          /\ OneTicker => Covers(job[w].counts, job[w].view)
      BY <1>2, <2>1 DEF IInv, RunsInHand, InHand, JobsSound, Busy, Exists
    <3> QED
      BY <1>4, <2>1, <3>1
  <2>2. CASE q # r
    BY <1>4, <2>2 DEF IInv, CompletedSound, Completed, OneRow
  <2> QED
    BY <2>1, <2>2
<1> QED
  BY <1>5, <1>6, <1>7, <1>8, <1>9 DEF IInv

\* A tick that reads or gives up changes nothing but its own reading.
LEMMA ReadingPreserves ==
    ASSUME IInv, NEW k \in Ticker, TickReads(k) \/ TickFails(k) PROVE IInv'
<1>1. /\ UNCHANGED <<dataset, runs, minted, pc, job>>
      /\ \/ head' = [head EXCEPT ![k] = dataset.counted]
         \/ head' = [head EXCEPT ![k] = 0]
  BY DEF TickReads, TickFails
<1>2. head \in [Ticker -> Nat] /\ dataset.counted \in Nat
  BY Typed DEF IInv
<1>3. TypeOK'
  BY <1>1, <1>2 DEF IInv, TypeOK
<1>4. CountsSound'
  BY <1>1, <1>2 DEF IInv, CountsSound
<1>5. JobsSound' /\ OneWorkerEach' /\ RunsInHand' /\ NoRunWithoutDataset'
  BY <1>1 DEF IInv, JobsSound, OneWorkerEach, RunsInHand, InHand, NoRunWithoutDataset,
              Present, Busy, Exists, Sound
<1>6. PicturesSound' /\ CompletedSound'
  BY <1>1 DEF IInv, PicturesSound, CompletedSound, Completed, Sound
<1> QED
  BY <1>3, <1>4, <1>5, <1>6 DEF IInv

LEMMA TickPreserves == ASSUME IInv, NEW k \in Ticker, Tick(k) PROVE IInv'
<1>1. PICK planted \in SUBSET {dataset.batches + 1} :
          dataset' = [dataset EXCEPT !.batches = @ + 1, !.counted = head[k] + 1,
                                     !.guards = @ \cup planted]
  BY DEF Tick
<1>2. /\ dataset.batches \in Nat /\ dataset.guards \in SUBSET Nat /\ head \in [Ticker -> Nat]
      /\ dataset \in Dataset
  BY Typed DEF IInv, TypeOK
<1>3. /\ dataset' \in Dataset /\ dataset'.counted = head[k] + 1
      /\ dataset'.epoch = dataset.epoch /\ dataset'.batches = dataset.batches + 1
  <2>1. dataset.batches + 1 \in Nat /\ head[k] + 1 \in Nat
    BY <1>2
  <2>2. planted \in SUBSET Nat
    BY <2>1, Zenon
  <2>3. dataset.guards \cup planted \in SUBSET Nat
    BY <1>2, <2>2, Zenon
  <2> QED
    BY <1>1, <1>2, <2>1, <2>3 DEF Dataset
<1>4. /\ UNCHANGED <<runs, minted, pc, job>> /\ head[k] > 0
      /\ head' = [head EXCEPT ![k] = 0]
  BY DEF Tick
<1>5. TypeOK'
  BY <1>2, <1>3, <1>4 DEF IInv, TypeOK
<1>6. ASSUME NEW v \in Picture, Sound(v) PROVE Sound(v)'
  <2>1. \A t \in Table : v[t].batches \in Nat
    BY DEF Picture, Reading
  <2> QED
    BY <1>2, <1>3, <1>6, <2>1 DEF Sound
<1>7. /\ \A w \in Worker : job[w].view \in Picture
      /\ \A r \in DOMAIN runs : runs[r].picture \in Picture
  BY Typed DEF IInv
<1>8. JobsSound'
  <2>1. \A w \in Worker : Sound(job[w].view) => Sound(job[w].view)'
    BY <1>4, <1>6, <1>7 DEF Sound
  <2> QED
    BY <1>4, <2>1 DEF IInv, JobsSound, Busy, Exists
<1>9. PicturesSound'
  <2>1. \A r \in DOMAIN runs : Sound(runs[r].picture) => Sound(runs[r].picture)'
    BY <1>4, <1>6, <1>7 DEF Sound
  <2> QED
    BY <1>4, <2>1 DEF IInv, PicturesSound
<1>10. OneWorkerEach' /\ RunsInHand' /\ CompletedSound'
  BY <1>4 DEF IInv, OneWorkerEach, RunsInHand, InHand, CompletedSound, Completed, Busy, Exists
<1>11. NoRunWithoutDataset'
  BY <1>2, <1>3 DEF NoRunWithoutDataset, Present
<1>12. CountsSound'
  <2> SUFFICES ASSUME OneTicker
               PROVE  /\ dataset'.batches <= dataset'.counted
                      /\ \A l \in Ticker : ~ head'[l] > 0
    BY DEF CountsSound
  <2>1. dataset.batches <= head[k]
    BY <1>4 DEF IInv, CountsSound
  <2>2. \A l \in Ticker : l = k
    BY DEF OneTicker
  <2>3. head'[k] = 0
    BY <1>2, <1>4
  <2> QED
    BY <1>2, <1>3, <2>1, <2>2, <2>3
<1> QED
  BY <1>5, <1>8, <1>9, <1>10, <1>11, <1>12 DEF IInv

\* A dataset that goes takes every run with it; it can only come back when
\* there is none.
LEMMA ReplacedPreserves ==
    ASSUME IInv, Regenerate \/ Delete \/ Insert PROVE IInv'
<1>1. /\ dataset' \in Dataset /\ dataset'.batches <= 1
      /\ dataset'.batches <= dataset'.counted
  <2>1. dataset.epoch \in Nat /\ dataset.batches \in Nat /\ dataset \in Dataset
    BY Typed DEF IInv, TypeOK
  <2>2. CASE Regenerate \/ Insert
    <3>1. PICK planted \in SUBSET {1} : Fresh(planted)
      BY <2>2 DEF Regenerate, Insert
    <3>2. planted \in SUBSET Nat /\ dataset.epoch + 1 \in Nat
      BY <2>1, <3>1
    <3> QED
      BY <3>1, <3>2 DEF Fresh, Dataset
  <2>3. CASE Delete
    <3>1. dataset' = [dataset EXCEPT !.batches = 0, !.counted = 0, !.guards = {}]
      BY <2>3 DEF Delete
    <3>2. dataset' \in Dataset
      BY <2>1, <3>1 DEF Dataset
    <3>3. dataset'.batches = 0 /\ dataset'.counted = 0
      BY <2>1, <3>1 DEF Dataset
    <3> QED
      BY <3>2, <3>3
  <2> QED
    BY <2>2, <2>3
<1>2. /\ DOMAIN runs' = {} /\ runs' \in [DOMAIN runs' -> Run]
      /\ UNCHANGED <<head, minted, pc, job>>
  BY DEF IInv, TypeOK, NoRunWithoutDataset, Regenerate, Delete, Insert, Cascade
<1>3. TypeOK'
  BY <1>1, <1>2 DEF IInv, TypeOK
<1>4. \A w \in Worker : ~ Exists(w)'
  BY <1>2 DEF Exists
<1>5. JobsSound' /\ OneWorkerEach' /\ RunsInHand'
  BY <1>2, <1>4 DEF IInv, JobsSound, OneWorkerEach, RunsInHand, Busy
<1>6. PicturesSound' /\ NoRunWithoutDataset' /\ CompletedSound'
  BY <1>2 DEF PicturesSound, NoRunWithoutDataset, CompletedSound, Completed
<1>7. CountsSound'
  <2>1. dataset'.batches \in Nat /\ head \in [Ticker -> Nat]
    BY <1>1, Typed DEF Dataset, IInv
  <2>2. \A k \in Ticker : head[k] > 0 => dataset'.batches <= head[k]
    BY <1>1, <2>1
  <2> QED
    BY <1>1, <1>2, <2>2 DEF CountsSound
<1> QED
  BY <1>3, <1>5, <1>6, <1>7 DEF IInv

LEMMA NextPreserves == IInv /\ [Next]_vars => IInv'
<1> SUFFICES ASSUME IInv, [Next]_vars PROVE IInv'
  OBVIOUS
<1>1. ASSUME NEW w \in Worker, Engine(w) PROVE IInv'
  BY <1>1, StartPreserves, ReadTablePreserves, PersistPreserves, ScoringPreserves,
     GivingUpPreserves, CompletePreserves DEF Engine, Proceed
<1>2. CASE UNCHANGED vars
  <2>1. TypeOK' /\ NoRunWithoutDataset' /\ CompletedSound' /\ PicturesSound' /\ CountsSound'
    BY <1>2 DEF vars, IInv, TypeOK, NoRunWithoutDataset, Present, CompletedSound,
                Completed, PicturesSound, CountsSound, Sound
  <2>2. JobsSound' /\ RunsInHand' /\ OneWorkerEach'
    BY <1>2 DEF vars, IInv, JobsSound, RunsInHand, InHand, OneWorkerEach, Busy, Exists, Sound
  <2> QED
    BY <2>1, <2>2 DEF IInv
<1>3. ASSUME NEW k \in Ticker, TickReads(k) \/ Tick(k) \/ TickFails(k) PROVE IInv'
  BY <1>3, ReadingPreserves, TickPreserves
<1> QED
  BY <1>1, <1>2, <1>3, ReplacedPreserves DEF Next
-----------------------------------------------------------------------------
\* Every state the program can reach satisfies the inductive invariant.
THEOREM Invariant == Spec => []IInv
BY InitIInv, NextPreserves, PTL DEF Spec

\* Every state is well typed, for any number of workers, tables and bounds.
THEOREM TypeCorrect == Spec => []TypeOK
<1>1. IInv => TypeOK
  BY DEF IInv
<1> QED
  BY <1>1, Invariant, PTL

\* No run that kept its rows mixes two incarnations of the dataset, and all it
\* reconciled is still there.
THEOREM OneIncarnation == Spec => []RowsOfOneIncarnation
<1>1. ASSUME IInv PROVE RowsOfOneIncarnation
  <2> SUFFICES ASSUME NEW r \in Persisted, NEW t \in Table
               PROVE  /\ runs[r].picture[t].epoch = dataset.epoch
                      /\ runs[r].picture[t].batches <= dataset.batches
    BY DEF RowsOfOneIncarnation
  <2>1. AllRead(runs[r].picture) /\ Sound(runs[r].picture)
    BY <1>1 DEF IInv, PicturesSound, Persisted
  <2> QED
    BY <2>1 DEF AllRead, Sound
<1> QED
  BY <1>1, Invariant, PTL

\* The order in which load reads its tables is one in which whatever a row is
\* judged by is read after the row, for every pair of tables that are so
\* related; so however many ticks commit in between, no row is judged by less
\* than what committed with it.
THEOREM NothingDangles == Spec => []ReferencesResolve
<1>1. \A t, u \in Table : <<t, u>> \in LooksUp => LoadOrder[t] < LoadOrder[u]
  BY TableAssumption DEF LooksUp, LoadOrder
<1>2. ASSUME IInv PROVE ReferencesResolve
  <2> SUFFICES ASSUME NEW r \in Persisted, NEW t \in Table, NEW u \in Table,
                      <<t, u>> \in LooksUp
               PROVE  runs[r].picture[t].batches <= runs[r].picture[u].batches
    BY DEF ReferencesResolve
  <2>1. AllRead(runs[r].picture) /\ Sound(runs[r].picture)
    BY <1>2 DEF IInv, PicturesSound, Persisted
  <2> QED
    BY <1>1, <2>1 DEF AllRead, Sound
<1> QED
  BY <1>2, Invariant, PTL

\* A COMPLETED run has the rows of every table, whatever ticks beside it.
THEOREM CompletedRunsHaveTheirRows == Spec => []RowsAreThere
<1>1. IInv => RowsAreThere
  BY DEF IInv, CompletedSound, AllRead, RowsAreThere
<1> QED
  BY <1>1, Invariant, PTL

\* With one caller of tick, a COMPLETED run also counts what it reconciled,
\* though the total is written back from a copy that may be of a dataset that
\* was replaced meanwhile.
THEOREM CompletedRunsAreWhole == ASSUME OneTicker PROVE Spec => []CompletedIsWhole
<1>1. IInv => CompletedIsWhole
  BY DEF IInv, CompletedSound, AllRead, Covers, CompletedIsWhole, RowsAreThere,
         TotalCoversRows
<1> QED
  BY <1>1, Invariant, PTL

\* No step changes what a run has persisted, nor brings a run id back.
THEOREM NothingIsRewritten == Spec => RunsAreImmutable
<1>1. ASSUME IInv, [Next]_vars PROVE [RunIsImmutable]_vars
  <2>1. ASSUME NEW w \in Worker, Start(w) PROVE RunIsImmutable
    <3>1. minted \in Nat /\ minted + 1 \notin DOMAIN runs
      BY <1>1 DEF IInv, TypeOK
    <3> QED
      BY <2>1, <3>1 DEF Start, RunIsImmutable
  <2>2. ASSUME NEW w \in Worker, Persist(w) PROVE RunIsImmutable
    <3>1. /\ Exists(w) /\ runs[job[w].run].picture = NoPicture
          /\ runs[job[w].run].status = "RUNNING"
      BY <1>1, <2>2 DEF IInv, RunsInHand, InHand, Busy, Persist
    <3> QED
      BY <2>2, <3>1 DEF Persist, RunIsImmutable, Persisted, Completed
  <2>3. ASSUME NEW w \in Worker, Complete(w) PROVE RunIsImmutable
    <3>1. Exists(w) => runs[job[w].run].status = "RUNNING"
      BY <1>1, <2>3 DEF IInv, RunsInHand, InHand, Busy, Complete
    <3> QED
      BY <1>1, <2>3, <3>1
         DEF IInv, TypeOK, Run, Complete, RunIsImmutable, Persisted, Completed, Exists
  <2>4. ASSUME NEW w \in Worker, Proceed(w) \/ Crash(w), ~ Persist(w), ~ Complete(w)
        PROVE  RunIsImmutable
    BY <2>4 DEF Proceed, ReadTable, PersistFails, ReadTruth, ReadCounts,
                ReadCountsFails, Crash, RunIsImmutable
  <2>5. ASSUME Insert \/ \E k \in Ticker : TickReads(k) \/ Tick(k) \/ TickFails(k)
        PROVE  RunIsImmutable
    BY <2>5 DEF TickReads, Tick, TickFails, Insert, RunIsImmutable
  <2>6. CASE Regenerate \/ Delete
    <3>1. dataset.epoch \in Nat /\ dataset \in Dataset
      BY <1>1 DEF IInv, TypeOK, Dataset
    <3> QED
      <4>1. DOMAIN runs' = {}
        BY <2>6 DEF Regenerate, Delete, Cascade
      <4>2. dataset'.epoch # dataset.epoch \/ dataset'.batches = 0
        <5>1. CASE Regenerate
          <6>1. PICK planted \in SUBSET {1} : Fresh(planted)
            BY <5>1 DEF Regenerate
          <6>2. dataset'.epoch = dataset.epoch + 1
            BY <6>1 DEF Fresh
          <6> QED
            BY <3>1, <6>2
        <5>2. CASE Delete
          BY <3>1, <5>2 DEF Delete, Dataset
        <5> QED
          BY <2>6, <5>1, <5>2
      <4> QED
        BY <4>1, <4>2 DEF RunIsImmutable
  <2> QED
    BY <1>1, <2>1, <2>2, <2>3, <2>4, <2>5, <2>6 DEF Next, Engine, Proceed
<1> QED
  BY <1>1, Invariant, PTL DEF Spec, RunsAreImmutable
=============================================================================
