------------------------- MODULE AppendLedgerProofs -------------------------
(***************************************************************************)
(* Append mode, for any number of callers and any sizes: type correctness, *)
(* no credit lands twice, and the batch log invents nothing.  For one      *)
(* caller at a time: periods tile, the log adds up, and a withheld credit  *)
(* lands with the next batch.                                              *)
(*                                                                         *)
(* The argument is about age.  What a caller has read is never ahead of    *)
(* the tables, and a caller whose id readings are still current has read   *)
(* everything after them on the tables as they are: nobody committed in    *)
(* between.  A caller whose readings are not current is refused.           *)
(***************************************************************************)
EXTENDS AppendLedger, FiniteSetTheorems, WellFoundedInduction, SumTheorems, TLAPS

\* What a caller has read was true once, and tables only grow.
ReadingsAreOld ==
    \A p \in Process :
        /\ pc[p] \in {"pending", "persist"} => Len(origin[p].seq) = NSequence
        /\ Len(origin[p].seq) <= NSequence
        /\ \A i \in 1 .. Len(origin[p].seq) : origin[p].seq[i] <= HighWater
        /\ origin[p].last_end <= HighWater
        /\ origin[p].counts.settlements <= HighWater
        /\ Withheld(origin[p].counts) \subseteq DOMAIN settlements
        /\ origin[p].pending \subseteq DOMAIN settlements

\* A caller the primary keys will admit holds a current list of open credits.
AdmittedIsCurrent ==
    \A p \in Process :
        pc[p] = "persist" /\ ~Conflict(p) => origin[p].pending \cap BagToSet(bank) = {}

\* The calendar never runs ahead of the ids, and never was empty.
PeriodsLag ==
    /\ HighWater > 0
    /\ \A s \in DOMAIN settlements : settlements[s].period <= s

IInv == TypeOK /\ ReadingsAreOld /\ AdmittedIsCurrent /\ PeriodsLag
                /\ CreditLandsAtMostOnce /\ LogNeverInvents
-----------------------------------------------------------------------------
\* A nonempty set of naturals with a bound has a maximum.
LEMMA MaxOfBounded ==
    ASSUME NEW S \in SUBSET Nat, S # {}, NEW b \in Nat, \A x \in S : x <= b
    PROVE  Max(S) \in S /\ \A x \in S : x <= Max(S)
<1> DEFINE Bounds == {k \in Nat : \A x \in S : x <= k}
<1>1. PICK m \in Bounds : \A k \in Bounds : ~ (<<k, m>> \in OpToRel(<, Nat))
  <2>1. Bounds \subseteq Nat /\ b \in Bounds
    OBVIOUS
  <2> QED
    BY <2>1, NatLessThanWellFounded, WFMin, Zenon
<1>2. \A k \in Bounds : m <= k
  <2>1. OpToRel(<, Nat) = {ss \in Nat \X Nat : ss[1] < ss[2]}
    BY DEF OpToRel
  <2>2. \A k \in Bounds : k < m => <<k, m>> \in OpToRel(<, Nat)
    BY <2>1
  <2>3. \A k \in Bounds : ~ (k < m)
    BY <1>1, <2>2, Zenon
  <2> QED
    BY <2>3
<1>3. m \in S
  <2> SUFFICES ASSUME m \notin S PROVE FALSE
    OBVIOUS
  <2>1. PICK x \in S : TRUE
    OBVIOUS
  <2>2. m - 1 \in Nat /\ \A y \in S : y <= m - 1
    BY <2>1
  <2> QED
    BY <2>2, <1>2
<1>4. \E x \in S : \A y \in S : x >= y
  BY <1>3
<1> QED
  BY <1>4 DEF Max

\* The settlement ids are an interval, and the high-water mark is its end.
LEMMA Ids ==
    ASSUME TypeOK
    PROVE  HighWater \in Nat /\ DOMAIN settlements = 1 .. HighWater
BY FS_CardinalityType DEF TypeOK, HighWater

\* Adding references to the bank statement.
LEMMA BankGrows ==
    ASSUME IsABag(bank), NEW S, NEW T, bank' = bank (+) SetToBag(S) (+) SetToBag(T)
    PROVE  /\ IsABag(bank')
           /\ BagToSet(bank') = BagToSet(bank) \cup S \cup T
           /\ \A s \in BagToSet(bank) : s \notin S \cup T => bank'[s] = bank[s]
           /\ \A s \in S : s \notin BagToSet(bank) \cup T => bank'[s] = 1
           /\ \A s \in T : s \notin BagToSet(bank) \cup S => bank'[s] = 1
<1> DEFINE first == bank (+) SetToBag(S)
<1>1. \A s \in DOMAIN bank : bank[s] \in Nat /\ bank[s] > 0
  BY DEF IsABag
<1>2. /\ DOMAIN first = DOMAIN bank \cup S
      /\ \A s \in DOMAIN bank \ S : first[s] = bank[s]
      /\ \A s \in S \ DOMAIN bank : first[s] = 1
      /\ \A s \in S \cap DOMAIN bank : first[s] = bank[s] + 1
  BY <1>1 DEF (+), SetToBag
<1>3. bank' = first (+) SetToBag(T)
  OBVIOUS
<1> HIDE DEF first
<1>4. \A s \in DOMAIN first : first[s] \in Nat /\ first[s] > 0
  BY <1>1, <1>2
<1>5. /\ DOMAIN bank' = DOMAIN first \cup T
      /\ \A s \in DOMAIN first \ T : bank'[s] = first[s]
      /\ \A s \in T \ DOMAIN first : bank'[s] = 1
      /\ \A s \in T \cap DOMAIN first : bank'[s] = first[s] + 1
  BY <1>3, <1>4 DEF (+), SetToBag
<1>6. \A s \in DOMAIN bank' : bank'[s] \in Nat /\ bank'[s] > 0
  BY <1>5, <1>4
<1>7. bank' = [s \in DOMAIN bank' |-> bank'[s]]
  BY <1>3 DEF (+)
<1>8. bank' \in [DOMAIN bank' -> {n \in Nat : n > 0}]
  BY <1>6, <1>7
<1> QED
  BY <1>2, <1>5, <1>8 DEF BagToSet, IsABag
-----------------------------------------------------------------------------
\* Rolling the log forward adds one entry, after the one made up for batch 1.
LEMMA RollForward ==
    ASSUME NEW counts \in RowCounts, NEW n \in Nat, NEW held \in SUBSET Nat
    PROVE  /\ RolledForward(counts, n, held) \in RowCounts
           /\ RolledForward(counts, n, held).settlements = counts.settlements + n
           /\ Withheld(RolledForward(counts, n, held)) = Withheld(counts) \cup held
<1> DEFINE first == [settlements |-> counts.settlements, withheld_bank |-> {}]
           log   == IF counts.batches = <<>> THEN <<first>> ELSE counts.batches
           entry == [settlements |-> n, withheld_bank |-> held]
<1>1. counts.settlements \in Nat /\ counts.batches \in Seq(BatchEntry)
  BY DEF RowCounts
<1>2. first \in BatchEntry /\ entry \in BatchEntry
  BY <1>1 DEF BatchEntry
<1>3. RolledForward(counts, n, held) =
          [settlements |-> counts.settlements + n, batches |-> Append(log, entry)]
  BY DEF RolledForward
<1>4. log \in Seq(BatchEntry)
  BY <1>1, <1>2
<1>5. UNION {e.withheld_bank : e \in Range(log)} = Withheld(counts)
  <2>1. CASE counts.batches = <<>>
    <3>1. log = <<first>> /\ first.withheld_bank = {}
      BY <2>1
    <3> HIDE DEF log, first
    <3>2. Range(<<first>>) = {first} /\ Range(counts.batches) = {}
      BY <2>1 DEF Range
    <3>3. UNION {e.withheld_bank : e \in {first}} = {}
      BY <3>1
    <3>4. UNION {e.withheld_bank : e \in Range(counts.batches)} = {}
      BY <3>2
    <3> QED
      BY <3>1, <3>2, <3>3, <3>4 DEF Withheld
  <2>2. CASE counts.batches # <<>>
    BY <2>2 DEF Withheld
  <2> QED
    BY <2>1, <2>2
<1> HIDE DEF log, entry, first
<1>6. Range(Append(log, entry)) = Range(log) \cup {entry}
  <2>1. /\ DOMAIN Append(log, entry) = 1 .. Len(log) + 1
        /\ DOMAIN log = 1 .. Len(log) /\ Len(log) \in Nat
        /\ \A i \in 1 .. Len(log) : Append(log, entry)[i] = log[i]
        /\ Append(log, entry)[Len(log) + 1] = entry
    BY <1>2, <1>4
  <2>2. 1 .. Len(log) + 1 = (1 .. Len(log)) \cup {Len(log) + 1}
    BY <2>1
  <2> QED
    BY <2>1, <2>2 DEF Range
<1>7. entry.withheld_bank = held
  BY DEF entry
<1>8. Append(log, entry) \in Seq(BatchEntry)
  BY <1>2, <1>4
<1>9. /\ RolledForward(counts, n, held).settlements = counts.settlements + n
      /\ RolledForward(counts, n, held).batches = Append(log, entry)
  BY <1>3
<1>10. UNION {e.withheld_bank : e \in Range(log) \cup {entry}} = Withheld(counts) \cup held
  BY <1>5, <1>7
<1>11. Withheld(RolledForward(counts, n, held)) = Withheld(counts) \cup held
  BY <1>6, <1>9, <1>10 DEF Withheld
<1>12. RolledForward(counts, n, held) \in RowCounts
  BY <1>1, <1>3, <1>8 DEF RowCounts
<1> QED
  BY <1>9, <1>11, <1>12

\* A caller between two ticks has read nothing.
LEMMA UnreadTyping == Unread \in Origin /\ Withheld(Unread.counts) = {}
BY DEF Unread, Origin, RowCounts, Withheld, Range

LEMMA InitIInv == Init => IInv
<1> SUFFICES ASSUME Init PROVE IInv
  OBVIOUS
<1>1. /\ IsFiniteSet(1 .. NBase) /\ Cardinality(1 .. NBase) = NBase
      /\ NBase \in Nat
  BY FS_Interval, SizeAssumption
<1>2. DOMAIN settlements = 1 .. NBase /\ DOMAIN bank = 1 .. NBase
  BY DEF Init, SetToBag
<1>3. HighWater = NBase
  BY <1>1, <1>2 DEF HighWater
<1>4. \A s \in 1 .. NBase : bank[s] = 1
  BY DEF Init, SetToBag
<1>5. IsABag(bank) /\ BagToSet(bank) = DOMAIN bank
  BY <1>2, <1>4 DEF IsABag, BagToSet, Init, SetToBag
<1>6. row_counts \in RowCounts /\ Withheld(row_counts) = {}
  BY <1>1 DEF Init, RowCounts, Withheld, Range
<1>7. TypeOK
  BY <1>1, <1>2, <1>3, <1>5, <1>6, UnreadTyping
     DEF TypeOK, Init, SettlementRow, Fate, Statement
<1>8. \A p \in Process : origin[p] = Unread /\ pc[p] = "head"
  BY DEF Init
<1>9. ReadingsAreOld
  <2>1. /\ Unread.seq = <<>> /\ Unread.pending = {} /\ Unread.counts.settlements = 0
        /\ Unread.last_end = 0 /\ Len(Unread.seq) = 0
    BY DEF Unread
  <2> QED
    BY <1>1, <1>3, <1>8, <2>1, UnreadTyping, SequenceAssumption DEF ReadingsAreOld
<1>10. AdmittedIsCurrent
  BY <1>8 DEF AdmittedIsCurrent
<1>11. CreditLandsAtMostOnce /\ LogNeverInvents
  BY <1>1, <1>2, <1>3, <1>4, <1>5, <1>6
     DEF CreditLandsAtMostOnce, LogNeverInvents, Init
<1>12. PeriodsLag
  BY <1>1, <1>2, <1>3, SizeAssumption DEF PeriodsLag, Init
<1> QED
  BY <1>7, <1>9, <1>10, <1>11, <1>12 DEF IInv
-----------------------------------------------------------------------------
\* The last period of the calendar, as MAX computes it.
LEMMA LastEndTyping ==
    ASSUME TypeOK, PeriodsLag
    PROVE  LastEnd \in Nat /\ LastEnd <= HighWater
<1> DEFINE Periods == {settlements[s].period : s \in DOMAIN settlements}
<1>1. HighWater \in Nat /\ DOMAIN settlements = 1 .. HighWater
  BY Ids
<1>2. \A s \in DOMAIN settlements : /\ settlements[s].period \in Nat
                                    /\ settlements[s].period <= HighWater
  BY <1>1 DEF TypeOK, SettlementRow, PeriodsLag
<1>3. Periods \subseteq Nat /\ \A e \in Periods : e <= HighWater
  BY <1>2
<1>4. Periods # {}
  <2>1. 1 \in DOMAIN settlements
    BY <1>1 DEF PeriodsLag
  <2>2. settlements[1].period \in Periods
    BY <2>1
  <2> QED
    BY <2>2
<1>5. Max(Periods) \in Periods
  BY <1>1, <1>3, <1>4, MaxOfBounded
<1> QED
  BY <1>3, <1>5 DEF LastEnd

\* A statement that reads leaves the book alone and changes one caller.
Reads(p) ==
    /\ UNCHANGED <<settlements, bank, row_counts>>
    /\ pc' \in [Process -> Statement] /\ origin' \in [Process -> Origin]
    /\ \A q \in Process \ {p} : pc'[q] = pc[q] /\ origin'[q] = origin[q]

\* What a reading has to establish for the caller that made it.
Sound(p) ==
    /\ pc[p] \in {"pending", "persist"} => Len(origin[p].seq) = NSequence
    /\ Len(origin[p].seq) <= NSequence
    /\ \A i \in 1 .. Len(origin[p].seq) : origin[p].seq[i] <= HighWater
    /\ origin[p].last_end <= HighWater
    /\ origin[p].counts.settlements <= HighWater
    /\ Withheld(origin[p].counts) \subseteq DOMAIN settlements
    /\ origin[p].pending \subseteq DOMAIN settlements

Admitted(p) ==
    pc[p] = "persist" /\ ~Conflict(p) => origin[p].pending \cap BagToSet(bank) = {}

LEMMA ReadingPreserves ==
    ASSUME IInv, NEW p \in Process, Reads(p), Sound(p)', Admitted(p)'
    PROVE  IInv'
<1>1. TypeOK' /\ PeriodsLag' /\ CreditLandsAtMostOnce' /\ LogNeverInvents'
  BY DEF IInv, Reads, TypeOK, PeriodsLag, CreditLandsAtMostOnce, LogNeverInvents,
         HighWater
<1>2. HighWater' = HighWater /\ bank' = bank /\ settlements' = settlements
  BY DEF Reads, HighWater
<1>3. ReadingsAreOld'
  <2> SUFFICES ASSUME NEW q \in Process PROVE Sound(q)'
    BY DEF Sound, ReadingsAreOld
  <2>1. CASE q = p
    BY <2>1
  <2>2. CASE q # p
    <3>1. Sound(q)
      BY DEF IInv, ReadingsAreOld, Sound
    <3> QED
      BY <1>2, <2>2, <3>1 DEF Sound, Reads, Withheld
  <2> QED
    BY <2>1, <2>2
<1>4. AdmittedIsCurrent'
  <2> SUFFICES ASSUME NEW q \in Process PROVE Admitted(q)'
    BY DEF Admitted, AdmittedIsCurrent
  <2>1. CASE q = p
    BY <2>1
  <2>2. CASE q # p
    <3>1. Admitted(q)
      BY DEF IInv, AdmittedIsCurrent, Admitted
    <3> QED
      BY <1>2, <2>2, <3>1 DEF Admitted, Reads, Conflict
  <2> QED
    BY <2>1, <2>2
<1> QED
  BY <1>1, <1>3, <1>4 DEF IInv

\* A caller that gives up, or was refused, forgets what it read.
LEMMA FinishedPreserves ==
    ASSUME IInv, NEW p \in Process, Finished(p),
           UNCHANGED <<settlements, bank, row_counts>>
    PROVE  IInv'
<1>1. Reads(p)
  BY UnreadTyping DEF Finished, Reads, IInv, TypeOK, Statement
<1>2. origin'[p] = Unread /\ pc'[p] = "head"
  BY DEF Finished, IInv, TypeOK
<1>3. HighWater' = HighWater /\ HighWater \in Nat
  BY Ids DEF IInv, HighWater
<1>4. /\ Unread.seq = <<>> /\ Unread.pending = {} /\ Unread.counts.settlements = 0
      /\ Unread.last_end = 0 /\ Len(Unread.seq) = 0
  BY DEF Unread
<1>5. Sound(p)'
  BY <1>2, <1>3, <1>4, UnreadTyping, SequenceAssumption DEF Sound, Withheld
<1>6. Admitted(p)'
  BY <1>2 DEF Admitted
<1> QED
  BY <1>1, <1>5, <1>6, ReadingPreserves
-----------------------------------------------------------------------------
\* The four statements of load_origin.
LEMMA HeadPreserves == ASSUME IInv, NEW p \in Process, ReadHead(p) PROVE IInv'
<1> DEFINE now == [Unread EXCEPT !.counts = row_counts]
<1>1. /\ row_counts \in RowCounts /\ now \in Origin /\ now.counts = row_counts
      /\ now.seq = <<>> /\ now.last_end = 0 /\ now.pending = {}
  BY UnreadTyping DEF Unread, Origin, IInv, TypeOK
<1>2. Reads(p) /\ origin'[p] = now /\ pc'[p] = "bounds"
  BY <1>1 DEF ReadHead, Reads, IInv, TypeOK, Statement
<1>3. HighWater' = HighWater /\ HighWater \in Nat /\ settlements' = settlements
  BY Ids DEF IInv, HighWater, ReadHead
<1>4. row_counts.settlements <= HighWater /\ Withheld(row_counts) \subseteq DOMAIN settlements
  BY DEF IInv, LogNeverInvents
<1> HIDE DEF now
<1>5. Sound(p)'
  BY <1>1, <1>2, <1>3, <1>4, SequenceAssumption DEF Sound, Withheld
<1>6. Admitted(p)'
  BY <1>2 DEF Admitted
<1> QED
  BY <1>2, <1>5, <1>6, ReadingPreserves

LEMMA BoundsPreserves == ASSUME IInv, NEW p \in Process, ReadBounds(p) PROVE IInv'
<1>1. LastEnd \in Nat /\ LastEnd <= HighWater
  BY LastEndTyping DEF IInv
<1>2. /\ origin'[p] = [origin[p] EXCEPT !.last_end = LastEnd]
      /\ origin[p] \in Origin /\ pc'[p] = "sequences"
  BY DEF ReadBounds, IInv, TypeOK
<1>3. Reads(p)
  BY <1>1, <1>2 DEF ReadBounds, Reads, IInv, TypeOK, Statement, Origin
<1>4. HighWater' = HighWater /\ settlements' = settlements
  BY DEF HighWater, ReadBounds
<1>5. Sound(p)
  BY DEF IInv, ReadingsAreOld, Sound
<1>6. Sound(p)'
  BY <1>1, <1>2, <1>4, <1>5 DEF Sound, Withheld, Origin
<1>7. Admitted(p)'
  BY <1>2 DEF Admitted
<1> QED
  BY <1>3, <1>6, <1>7, ReadingPreserves

LEMMA SequencePreserves == ASSUME IInv, NEW p \in Process, ReadSequence(p) PROVE IInv'
<1> DEFINE read == Append(origin[p].seq, HighWater)
<1>1. HighWater \in Nat /\ HighWater' = HighWater /\ settlements' = settlements
  BY Ids DEF IInv, HighWater, ReadSequence
<1>2. origin[p] \in Origin /\ origin[p].seq \in Seq(Nat)
  BY DEF IInv, TypeOK, Origin
<1>3. /\ read \in Seq(Nat) /\ Len(read) = Len(origin[p].seq) + 1
      /\ \A i \in 1 .. Len(origin[p].seq) : read[i] = origin[p].seq[i]
      /\ read[Len(read)] = HighWater
  BY <1>1, <1>2
<1>4. origin'[p] = [origin[p] EXCEPT !.seq = read]
  BY DEF ReadSequence, IInv, TypeOK
<1>5. /\ Len(origin[p].seq) < NSequence /\ Len(origin[p].seq) \in Nat
      /\ pc'[p] = IF Len(origin[p].seq) + 1 = NSequence THEN "pending" ELSE "sequences"
  BY <1>2 DEF ReadSequence, IInv, TypeOK
<1> HIDE DEF read
<1>6. Reads(p)
  BY <1>2, <1>3, <1>4 DEF ReadSequence, Reads, IInv, TypeOK, Statement, Origin
<1>7. Sound(p)
  BY DEF IInv, ReadingsAreOld, Sound
<1>8. /\ origin'[p].seq = read /\ origin'[p].last_end = origin[p].last_end
      /\ origin'[p].counts = origin[p].counts /\ origin'[p].pending = origin[p].pending
  BY <1>2, <1>4 DEF Origin
<1>9. \A i \in 1 .. Len(read) : read[i] <= HighWater
  <2> SUFFICES ASSUME NEW i \in 1 .. Len(read) PROVE read[i] <= HighWater
    OBVIOUS
  <2>1. CASE i = Len(read)
    BY <1>1, <1>3, <2>1
  <2>2. CASE i # Len(read)
    <3>1. i \in 1 .. Len(origin[p].seq)
      BY <1>3, <1>5, <2>2
    <3> QED
      BY <1>3, <1>7, <3>1 DEF Sound
  <2> QED
    BY <2>1, <2>2
<1>10. Sound(p)'
  <2>1. /\ pc'[p] \in {"pending", "persist"} => Len(read) = NSequence
        /\ Len(read) <= NSequence
    BY <1>3, <1>5, SequenceAssumption
  <2>2. /\ origin'[p].last_end <= HighWater'
        /\ origin'[p].counts.settlements <= HighWater'
        /\ Withheld(origin'[p].counts) \subseteq DOMAIN settlements'
        /\ origin'[p].pending \subseteq DOMAIN settlements'
    BY <1>1, <1>7, <1>8 DEF Sound
  <2>3. \A i \in 1 .. Len(origin'[p].seq) : origin'[p].seq[i] <= HighWater'
    BY <1>1, <1>8, <1>9
  <2>4. Withheld(origin[p].counts)' = Withheld(origin'[p].counts)
    BY DEF Withheld
  <2> QED
    BY <1>8, <2>1, <2>2, <2>3, <2>4 DEF Sound
<1>11. Admitted(p)'
  BY <1>5 DEF Admitted
<1> QED
  BY <1>6, <1>10, <1>11, ReadingPreserves

LEMMA PendingPreserves == ASSUME IInv, NEW p \in Process, ReadPending(p) PROVE IInv'
<1>1. /\ origin'[p] = [origin[p] EXCEPT !.pending = PendingBank(p)]
      /\ origin[p] \in Origin /\ pc[p] = "pending" /\ pc'[p] = "persist"
  BY DEF ReadPending, IInv, TypeOK
<1>2. HighWater \in Nat /\ DOMAIN settlements = 1 .. HighWater
      /\ HighWater' = HighWater /\ settlements' = settlements /\ bank' = bank
  BY Ids DEF IInv, HighWater, ReadPending
<1>3. PendingBank(p) \subseteq DOMAIN settlements /\ PendingBank(p) \cap BagToSet(bank) = {}
  BY DEF PendingBank
<1>4. PendingBank(p) \subseteq Nat
  BY <1>2, <1>3
<1>5. Reads(p)
  BY <1>1, <1>4 DEF ReadPending, Reads, IInv, TypeOK, Statement, Origin
<1>6. Sound(p)
  BY DEF IInv, ReadingsAreOld, Sound
<1>7. /\ origin'[p].seq = origin[p].seq /\ origin'[p].last_end = origin[p].last_end
      /\ origin'[p].counts = origin[p].counts /\ origin'[p].pending = PendingBank(p)
  BY <1>1 DEF Origin
<1>8. Sound(p)'
  BY <1>1, <1>2, <1>3, <1>6, <1>7 DEF Sound, Withheld
<1>9. Admitted(p)'
  BY <1>2, <1>3, <1>7 DEF Admitted
<1> QED
  BY <1>5, <1>8, <1>9, ReadingPreserves
-----------------------------------------------------------------------------
\* The primary keys admit only a caller that read the current high-water mark.
LEMMA AdmittedReadsTheMark ==
    ASSUME IInv, NEW p \in Process, Persist(p)
    PROVE  LastId(p) = HighWater
<1>1. HighWater \in Nat /\ origin[p].seq \in Seq(Nat)
  BY Ids DEF IInv, TypeOK, Origin
<1>2. Sound(p) /\ pc[p] = "persist" /\ ~Conflict(p)
  BY DEF IInv, ReadingsAreOld, Sound, Persist
<1>3. NSequence \in 1 .. Len(origin[p].seq)
  BY <1>1, <1>2, SequenceAssumption DEF Sound
<1>4. LastId(p) \in Nat /\ LastId(p) <= HighWater
  BY <1>1, <1>2, <1>3 DEF Sound, LastId
<1>5. ~ (LastId(p) < HighWater)
  BY <1>2, SequenceAssumption DEF Conflict, LastId
<1> QED
  BY <1>1, <1>4, <1>5

\* An admitted batch extends the book: its ids are new, the credits it lands
\* are not in the bank, and its log entry names settlements that exist.
LEMMA PersistEffect ==
    ASSUME IInv, NEW p \in Process, Persist(p)
    PROVE  \E n \in Nat \ {0}, T \in SUBSET Nat :
               /\ DOMAIN settlements' = 1 .. HighWater + n
               /\ HighWater' = HighWater + n
               /\ settlements' \in [1 .. HighWater + n -> SettlementRow]
               /\ \A s \in DOMAIN settlements' : settlements'[s].period <= s
               /\ T \subseteq HighWater + 1 .. HighWater + n
               /\ bank' = bank (+) SetToBag(Landed(p)) (+) SetToBag(T)
               /\ row_counts' \in RowCounts
               /\ row_counts'.settlements <= HighWater + n
               /\ Withheld(row_counts)' \subseteq 1 .. HighWater + n
<1>1. HighWater \in Nat /\ DOMAIN settlements = 1 .. HighWater
  BY Ids DEF IInv
<1>2. /\ origin[p] \in Origin /\ origin[p].seq \in Seq(Nat)
      /\ origin[p].last_end \in Nat /\ origin[p].counts \in RowCounts
  BY DEF IInv, TypeOK, Origin
<1>3. Sound(p) /\ pc[p] = "persist" /\ ~Conflict(p)
  BY DEF IInv, ReadingsAreOld, Sound, Persist
<1>4. LastId(p) = HighWater
  BY AdmittedReadsTheMark
<1>19. PICK n \in 1 .. BatchSize :
          \E fate \in [Minted(p, n) -> Fate], held \in SUBSET Minted(p, n) :
              /\ settlements' = [s \in DOMAIN settlements \cup Minted(p, n) |->
                     IF s \in Minted(p, n)
                     THEN [period |-> Period(p, s), fate |-> fate[s]]
                     ELSE settlements[s]]
              /\ bank' = bank (+) SetToBag(Landed(p)) (+) SetToBag(Credited(fate))
              /\ row_counts' = RolledForward(origin[p].counts, n, held)
  BY DEF Persist
<1>5. PICK fate \in [Minted(p, n) -> Fate], held \in SUBSET Minted(p, n) :
          /\ settlements' = [s \in DOMAIN settlements \cup Minted(p, n) |->
                 IF s \in Minted(p, n)
                 THEN [period |-> Period(p, s), fate |-> fate[s]]
                 ELSE settlements[s]]
          /\ bank' = bank (+) SetToBag(Landed(p)) (+) SetToBag(Credited(fate))
          /\ row_counts' = RolledForward(origin[p].counts, n, held)
  BY <1>19
<1>6. n \in Nat \ {0} /\ Minted(p, n) = HighWater + 1 .. HighWater + n
  BY <1>4, SizeAssumption DEF Minted
<1>7. DOMAIN settlements' = 1 .. HighWater + n
  BY <1>1, <1>5, <1>6
<1>8. HighWater' = HighWater + n
  BY <1>1, <1>6, <1>7, FS_Interval DEF HighWater
<1>9. \A s \in Minted(p, n) : Period(p, s) \in Nat /\ Period(p, s) <= s
  BY <1>1, <1>2, <1>3, <1>4, <1>6 DEF Period, Sound
<1>10. \A s \in DOMAIN settlements' :
           settlements'[s] \in SettlementRow /\ settlements'[s].period <= s
  <2> SUFFICES ASSUME NEW s \in DOMAIN settlements'
               PROVE  settlements'[s] \in SettlementRow /\ settlements'[s].period <= s
    OBVIOUS
  <2>1. CASE s \in Minted(p, n)
    BY <1>5, <1>7, <1>9, <2>1 DEF SettlementRow
  <2>2. CASE s \notin Minted(p, n)
    <3>1. s \in DOMAIN settlements
      BY <1>1, <1>6, <1>7, <2>2
    <3>2. settlements'[s] = settlements[s]
      BY <1>5, <2>2, <3>1
    <3> QED
      BY <3>1, <3>2 DEF IInv, TypeOK, PeriodsLag
  <2> QED
    BY <2>1, <2>2
<1>11. settlements' \in [1 .. HighWater + n -> SettlementRow]
  BY <1>5, <1>7, <1>10
<1>12. Credited(fate) \subseteq HighWater + 1 .. HighWater + n
  BY <1>6 DEF Credited
<1>13. held \in SUBSET Nat /\ held \subseteq 1 .. HighWater + n
  BY <1>1, <1>6
<1>14. /\ row_counts' \in RowCounts
       /\ row_counts'.settlements = origin[p].counts.settlements + n
       /\ Withheld(row_counts') = Withheld(origin[p].counts) \cup held
  BY <1>2, <1>5, <1>6, <1>13, RollForward
<1>15. origin[p].counts.settlements \in Nat
  BY <1>2 DEF RowCounts
<1>16. row_counts'.settlements <= HighWater + n
  BY <1>1, <1>3, <1>6, <1>14, <1>15 DEF Sound
<1>17. Withheld(row_counts)' \subseteq 1 .. HighWater + n
  <2>1. Withheld(origin[p].counts) \subseteq 1 .. HighWater + n
    BY <1>1, <1>3, <1>6 DEF Sound
  <2>2. Withheld(row_counts)' = Withheld(row_counts')
    BY DEF Withheld
  <2> QED
    BY <1>13, <1>14, <2>1, <2>2
<1>18. Credited(fate) \in SUBSET Nat
  BY <1>1, <1>12
<1> QED
  BY <1>5, <1>6, <1>7, <1>8, <1>10, <1>11, <1>12, <1>14, <1>16, <1>17, <1>18

\* An admitted batch refuses every other caller that had read its ids.
LEMMA PersistPreserves == ASSUME IInv, NEW p \in Process, Persist(p) PROVE IInv'
<1>1. PICK n \in Nat \ {0}, T \in SUBSET Nat :
          /\ DOMAIN settlements' = 1 .. HighWater + n
          /\ HighWater' = HighWater + n
          /\ settlements' \in [1 .. HighWater + n -> SettlementRow]
          /\ \A s \in DOMAIN settlements' : settlements'[s].period <= s
          /\ T \subseteq HighWater + 1 .. HighWater + n
          /\ bank' = bank (+) SetToBag(Landed(p)) (+) SetToBag(T)
          /\ row_counts' \in RowCounts
          /\ row_counts'.settlements <= HighWater + n
          /\ Withheld(row_counts)' \subseteq 1 .. HighWater + n
  BY PersistEffect
<1>2. HighWater \in Nat /\ DOMAIN settlements = 1 .. HighWater
  BY Ids DEF IInv
<1>3. /\ IsABag(bank) /\ BagToSet(bank) \subseteq 1 .. HighWater
      /\ \A s \in BagToSet(bank) : bank[s] = 1
  BY <1>2 DEF IInv, TypeOK, CreditLandsAtMostOnce
<1>4. /\ Landed(p) \subseteq 1 .. HighWater
      /\ Landed(p) \cap BagToSet(bank) = {}
  BY <1>2 DEF Landed, IInv, ReadingsAreOld, AdmittedIsCurrent, Persist
<1>5. /\ IsABag(bank')
      /\ BagToSet(bank') = BagToSet(bank) \cup Landed(p) \cup T
      /\ \A s \in BagToSet(bank) : s \notin Landed(p) \cup T => bank'[s] = bank[s]
      /\ \A s \in Landed(p) : s \notin BagToSet(bank) \cup T => bank'[s] = 1
      /\ \A s \in T : s \notin BagToSet(bank) \cup Landed(p) => bank'[s] = 1
  <2>1. PICK L : L = Landed(p)
    OBVIOUS
  <2>2. bank' = bank (+) SetToBag(L) (+) SetToBag(T)
    BY <1>1, <2>1
  <2> QED
    BY <1>3, <2>1, <2>2, BankGrows
<1>6. T \cap (1 .. HighWater) = {}
  BY <1>1, <1>2
<1>7. BagToSet(bank') \subseteq DOMAIN settlements'
  <2>1. 1 .. HighWater \subseteq DOMAIN settlements'
    BY <1>1, <1>2
  <2>2. T \subseteq DOMAIN settlements'
    BY <1>1, <1>2
  <2> QED
    BY <2>1, <2>2, <1>3, <1>4, <1>5
<1>8. CreditLandsAtMostOnce'
  <2> SUFFICES ASSUME NEW s \in BagToSet(bank') PROVE bank'[s] = 1
    BY DEF CreditLandsAtMostOnce, BagToSet
  <2>1. CASE s \in BagToSet(bank)
    BY <1>3, <1>4, <1>5, <1>6, <2>1
  <2>2. CASE s \in Landed(p)
    BY <1>3, <1>4, <1>5, <1>6, <2>2
  <2>3. CASE s \in T
    BY <1>3, <1>4, <1>5, <1>6, <2>3
  <2> QED
    BY <1>5, <2>1, <2>2, <2>3
<1>9. /\ pc' = [pc EXCEPT ![p] = "head"] /\ origin' = [origin EXCEPT ![p] = Unread]
      /\ pc \in [Process -> Statement] /\ origin \in [Process -> Origin]
  BY DEF Persist, Finished, IInv, TypeOK
<1>10. TypeOK'
  <2>1. /\ DOMAIN settlements' = 1 .. HighWater'
        /\ IsFiniteSet(DOMAIN settlements')
    BY <1>1, <1>2, FS_Interval
  <2>2. pc' \in [Process -> Statement] /\ origin' \in [Process -> Origin]
    BY <1>9, UnreadTyping DEF Statement
  <2> QED
    BY <1>1, <1>5, <1>7, <2>1, <2>2 DEF TypeOK, HighWater, BagToSet
<1>11. PeriodsLag'
  BY <1>1, <1>2 DEF PeriodsLag
<1>12. LogNeverInvents'
  BY <1>1 DEF LogNeverInvents
<1>13. ReadingsAreOld'
  <2> SUFFICES ASSUME NEW q \in Process PROVE Sound(q)'
    BY DEF Sound, ReadingsAreOld
  <2>1. CASE q = p
    <3>1. /\ Unread.seq = <<>> /\ Unread.pending = {} /\ Unread.counts.settlements = 0
          /\ Unread.last_end = 0 /\ Len(Unread.seq) = 0
      BY DEF Unread
    <3>2. origin'[q] = Unread /\ pc'[q] = "head"
      BY <1>9, <2>1
    <3> QED
      BY <1>1, <1>2, <3>1, <3>2, UnreadTyping, SequenceAssumption DEF Sound, Withheld
  <2>2. CASE q # p
    <3>1. origin'[q] = origin[q] /\ pc'[q] = pc[q] /\ origin[q] \in Origin
      BY <1>9, <2>2
    <3>2. Sound(q)
      BY DEF IInv, ReadingsAreOld, Sound
    <3>3. /\ origin[q].seq \in Seq(Nat) /\ origin[q].last_end \in Nat
          /\ origin[q].counts.settlements \in Nat
      BY <3>1 DEF Origin, RowCounts
    <3>4. \A i \in 1 .. Len(origin[q].seq) : origin[q].seq[i] <= HighWater + n
      BY <1>1, <1>2, <3>2, <3>3 DEF Sound
    <3>5. /\ origin[q].last_end <= HighWater + n
          /\ origin[q].counts.settlements <= HighWater + n
          /\ Withheld(origin[q].counts) \subseteq 1 .. HighWater + n
          /\ origin[q].pending \subseteq 1 .. HighWater + n
      BY <1>1, <1>2, <3>2, <3>3 DEF Sound
    <3>6. Withheld(origin[q].counts)' = Withheld(origin[q].counts)
      BY <3>1 DEF Withheld
    <3> QED
      BY <1>1, <3>1, <3>2, <3>4, <3>5, <3>6 DEF Sound
  <2> QED
    BY <2>1, <2>2
<1>14. AdmittedIsCurrent'
  <2> SUFFICES ASSUME NEW q \in Process, pc'[q] = "persist" PROVE Conflict(q)'
    BY DEF AdmittedIsCurrent
  <2>1. q # p
    BY <1>9
  <2>2. origin'[q] = origin[q] /\ pc[q] = "persist" /\ origin[q].seq \in Seq(Nat)
    BY <1>9, <2>1 DEF Origin
  <2>3. Sound(q)
    BY DEF IInv, ReadingsAreOld, Sound
  <2>4. 1 \in 1 .. NSequence /\ 1 \in 1 .. Len(origin[q].seq)
    BY <2>2, <2>3, SequenceAssumption DEF Sound
  <2>5. origin[q].seq[1] < HighWater'
    BY <1>1, <1>2, <2>2, <2>3, <2>4 DEF Sound
  <2> QED
    BY <2>2, <2>4, <2>5 DEF Conflict
<1> QED
  BY <1>8, <1>10, <1>11, <1>12, <1>13, <1>14 DEF IInv
-----------------------------------------------------------------------------
\* Every step keeps the invariant.
LEMMA NextIInv == IInv /\ [Next]_vars => IInv'
<1> SUFFICES ASSUME IInv, [Next]_vars PROVE IInv'
  OBVIOUS
<1>1. CASE UNCHANGED vars
  BY <1>1 DEF vars, IInv, TypeOK, ReadingsAreOld, AdmittedIsCurrent, PeriodsLag,
              CreditLandsAtMostOnce, LogNeverInvents, HighWater, Withheld, Conflict
<1>2. CASE Next
  <2>1. PICK p \in Process : Tick(p)
    BY <1>2 DEF Next
  <2>2. CASE ReadHead(p)
    BY <2>2, HeadPreserves
  <2>3. CASE ReadBounds(p)
    BY <2>3, BoundsPreserves
  <2>4. CASE ReadSequence(p)
    BY <2>4, SequencePreserves
  <2>5. CASE ReadPending(p)
    BY <2>5, PendingPreserves
  <2>6. CASE Persist(p)
    BY <2>6, PersistPreserves
  <2>7. CASE Refuse(p)
    BY <2>7, FinishedPreserves DEF Refuse
  <2>8. CASE Crash(p)
    BY <2>8, FinishedPreserves DEF Crash
  <2> QED
    BY <2>1, <2>2, <2>3, <2>4, <2>5, <2>6, <2>7, <2>8 DEF Tick
<1> QED
  BY <1>1, <1>2

LEMMA Invariance == Spec => []IInv
<1>1. Init => IInv
  BY InitIInv
<1>2. IInv /\ [Next]_vars => IInv'
  BY NextIInv
<1> QED
  BY <1>1, <1>2, PTL DEF Spec

\* Every row, log and reading has its type (append.py, origin.py).
THEOREM TypeCorrect == Spec => []TypeOK
<1>1. IInv => TypeOK
  BY DEF IInv
<1> QED
  BY <1>1, Invariance, PTL

\* However many callers tick at once, no settlement is credited twice under its
\* UTR (origin.py:92-137, append.py:39-73).
THEOREM NoCreditTwice == Spec => []CreditLandsAtMostOnce
<1>1. IInv => CreditLandsAtMostOnce
  BY DEF IInv
<1> QED
  BY <1>1, Invariance, PTL

\* The batch log never claims more than the tables hold (append.py:49-71).
THEOREM LogIsSound == Spec => []LogNeverInvents
<1>1. IInv => LogNeverInvents
  BY DEF IInv
<1> QED
  BY <1>1, Invariance, PTL
-----------------------------------------------------------------------------
(***************************************************************************)
(* One caller at a time.  Nothing is committed between its statements:     *)
(* what it has read is what the tables hold, and the seams between two     *)
(* batches are exact.  The three properties below need this: with a second *)
(* caller a stale last_end, a lost log entry or a late credit breaks them. *)
(***************************************************************************)
OneCaller == \A p, q \in Process : p = q

PeriodsAreIds == \A s \in DOMAIN settlements : settlements[s].period = s

Current(p) ==
    /\ pc[p] # "head" => origin[p].counts = row_counts
    /\ pc[p] \in {"sequences", "pending", "persist"} => origin[p].last_end = HighWater
    /\ pc[p] = "persist" => origin[p].pending = PendingBank(p)

SerialInv ==
    /\ PeriodsAreIds
    /\ LogAddsUp
    /\ InFlightLandsNext
    /\ \A p \in Process : Current(p)

\* What the entries of a batch log count.
Sizes(log) == [e \in DOMAIN log |-> log[e].settlements]

LEMMA LogGrows ==
    ASSUME NEW log \in Seq(BatchEntry), NEW entry \in BatchEntry
    PROVE  SumFunction(Sizes(Append(log, entry)))
             = SumFunction(Sizes(log)) + entry.settlements
<1> DEFINE k    == Len(log)
           more == Append(log, entry)
<1>1. /\ k \in Nat /\ DOMAIN log = 1 .. k /\ DOMAIN more = 1 .. k + 1
      /\ \A e \in 1 .. k : more[e] = log[e] /\ log[e] \in BatchEntry
      /\ more[k + 1] = entry
  OBVIOUS
<1> HIDE DEF k, more
<1>2. \A e \in BatchEntry : e.settlements \in Nat
  BY DEF BatchEntry
<1>3. \A e \in 1 .. k : Sizes(more)[e] = Sizes(log)[e] /\ Sizes(log)[e] \in Int
  BY <1>1, <1>2 DEF Sizes
<1>4. Sizes(more)[k + 1] = entry.settlements /\ entry.settlements \in Int
  BY <1>1, <1>2 DEF Sizes
<1>5. k + 1 \in 1 .. k + 1 /\ (1 .. k + 1) \ {k + 1} = 1 .. k
  BY <1>1
<1>6. IsFiniteSet(1 .. k + 1) /\ IsFiniteSet(1 .. k)
  BY <1>1, FS_Interval
<1>7. IntegerOn(Sizes(more), 1 .. k + 1) /\ IntegerOn(Sizes(log), 1 .. k)
  BY <1>1, <1>3, <1>4 DEF IntegerOn
<1>8. SumFunctionOnSet(Sizes(more), 1 .. k + 1)
        = entry.settlements + SumFunctionOnSet(Sizes(more), 1 .. k)
  <2>1. SumFunctionOnSet(Sizes(more), 1 .. k + 1)
          = Sizes(more)[k + 1] + SumFunctionOnSet(Sizes(more), (1 .. k + 1) \ {k + 1})
    BY <1>5, <1>6, <1>7, SumRemove
  <2> QED
    BY <1>4, <1>5, <2>1
<1>9. SumFunctionOnSet(Sizes(more), 1 .. k) = SumFunctionOnSet(Sizes(log), 1 .. k)
  BY <1>3, <1>6, SumCongruent
<1>10. SumFunctionOnSet(Sizes(log), 1 .. k) \in Int
  BY <1>6, <1>7, SumType
<1>11. DOMAIN Sizes(more) = 1 .. k + 1 /\ DOMAIN Sizes(log) = 1 .. k
  BY <1>1 DEF Sizes
<1> QED
  BY <1>4, <1>8, <1>9, <1>10, <1>11 DEF SumFunction, more

\* An entry made up for batch 1 counts all of it.
LEMMA LogStarts ==
    ASSUME NEW entry \in BatchEntry
    PROVE  SumFunction(Sizes(<<entry>>)) = entry.settlements
<1>1. SumFunction(Sizes(<<>>)) = 0
  BY SumEmpty DEF Sizes, SumFunction
<1>2. Append(<<>>, entry) = <<entry>> /\ <<>> \in Seq(BatchEntry)
  OBVIOUS
<1>3. entry.settlements \in Nat
  BY DEF BatchEntry
<1>4. SumFunction(Sizes(Append(<<>>, entry))) = SumFunction(Sizes(<<>>)) + entry.settlements
  BY <1>2, LogGrows
<1> QED
  BY <1>1, <1>2, <1>3, <1>4

LEMMA LogAddsUpMeans ==
    LogAddsUp <=> /\ row_counts.settlements = HighWater
                  /\ row_counts.batches # <<>> => SumFunction(Sizes(row_counts.batches)) = HighWater
BY DEF LogAddsUp, Sizes

LEMMA RollingAddsUp ==
    ASSUME NEW counts \in RowCounts, NEW n \in Nat, NEW held \in SUBSET Nat,
           NEW rolled, rolled = RolledForward(counts, n, held),
           counts.batches # <<>> => SumFunction(Sizes(counts.batches)) = counts.settlements
    PROVE  /\ rolled.settlements = counts.settlements + n
           /\ rolled.batches # <<>>
           /\ SumFunction(Sizes(rolled.batches)) = counts.settlements + n
           /\ rolled.batches[Len(rolled.batches)].withheld_bank = held
<1> DEFINE first == [settlements |-> counts.settlements, withheld_bank |-> {}]
           log   == IF counts.batches = <<>> THEN <<first>> ELSE counts.batches
           entry == [settlements |-> n, withheld_bank |-> held]
<1>1. counts.settlements \in Nat /\ counts.batches \in Seq(BatchEntry)
  BY DEF RowCounts
<1>2. first \in BatchEntry /\ entry \in BatchEntry /\ log \in Seq(BatchEntry)
  <2>1. first \in BatchEntry /\ entry \in BatchEntry
    BY <1>1 DEF BatchEntry
  <2> QED
    BY <1>1, <2>1
<1>3. first.settlements = counts.settlements /\ entry.settlements = n /\ entry.withheld_bank = held
  OBVIOUS
<1>4. rolled = [settlements |-> counts.settlements + n, batches |-> Append(log, entry)]
  BY DEF RolledForward
<1>5. counts.batches = <<>> => log = <<first>>
  OBVIOUS
<1>6. counts.batches # <<>> => log = counts.batches
  OBVIOUS
<1> HIDE DEF first, log, entry
<1>7. SumFunction(Sizes(log)) = counts.settlements
  BY <1>2, <1>3, <1>5, <1>6, LogStarts
<1>8. SumFunction(Sizes(Append(log, entry))) = counts.settlements + n
  BY <1>2, <1>3, <1>7, LogGrows
<1>9. /\ Append(log, entry) # <<>>
      /\ Append(log, entry)[Len(Append(log, entry))] = entry
  BY <1>2
<1> QED
  BY <1>3, <1>4, <1>8, <1>9

-----------------------------------------------------------------------------
LEMMA SerialInit == Init => SerialInv
<1> SUFFICES ASSUME Init PROVE SerialInv
  OBVIOUS
<1>1. /\ DOMAIN settlements = 1 .. NBase
      /\ \A s \in 1 .. NBase : settlements[s].period = s /\ settlements[s].fate = "credited"
  BY DEF Init
<1>2. HighWater = NBase
  BY <1>1, FS_Interval, SizeAssumption DEF HighWater
<1>3. LogAddsUp
  BY <1>2, LogAddsUpMeans DEF Init
<1>4. InFlightLandsNext
  BY <1>1 DEF InFlightLandsNext, Open, InFlight
<1>5. \A p \in Process : Current(p)
  BY DEF Init, Current
<1> QED
  BY <1>1, <1>3, <1>4, <1>5 DEF SerialInv, PeriodsAreIds

\* The calendar ends where the ids do.
LEMMA LastEndIsHighWater ==
    ASSUME TypeOK, PeriodsLag, PeriodsAreIds
    PROVE  LastEnd = HighWater
<1> DEFINE Periods == {settlements[s].period : s \in DOMAIN settlements}
<1>1. HighWater \in Nat /\ DOMAIN settlements = 1 .. HighWater /\ HighWater > 0
  BY Ids DEF PeriodsLag
<1>2. Periods = 1 .. HighWater
  BY <1>1 DEF PeriodsAreIds
<1> HIDE DEF Periods
<1>3. Periods \in SUBSET Nat /\ Periods # {} /\ \A x \in Periods : x <= HighWater
  BY <1>1, <1>2
<1>4. Max(Periods) \in Periods /\ \A x \in Periods : x <= Max(Periods)
  BY <1>1, <1>3, MaxOfBounded
<1>5. Max(Periods) = HighWater
  BY <1>1, <1>2, <1>4
<1> QED
  BY <1>5 DEF LastEnd, Periods

\* The books are untouched and the only caller is current again.
LEMMA SerialReading ==
    ASSUME SerialInv, UNCHANGED <<settlements, bank, row_counts>>,
           NEW p \in Process, OneCaller, Current(p)'
    PROVE  SerialInv'
<1>1. HighWater' = HighWater
  BY DEF HighWater
<1>2. \A q \in Process : Current(q)'
  BY DEF OneCaller
<1>3. LogAddsUp'
  BY <1>1, LogAddsUpMeans DEF SerialInv, LogAddsUp
<1>4. PeriodsAreIds' /\ InFlightLandsNext'
  BY DEF SerialInv, PeriodsAreIds, InFlightLandsNext, Open, InFlight
<1> QED
  BY <1>2, <1>3, <1>4 DEF SerialInv

LEMMA SerialPersist ==
    ASSUME IInv, SerialInv, OneCaller, NEW p \in Process, Persist(p)
    PROVE  SerialInv'
<1>1. HighWater \in Nat /\ DOMAIN settlements = 1 .. HighWater /\ LastId(p) = HighWater
  BY Ids, AdmittedReadsTheMark DEF IInv
<1>2. /\ origin[p].counts = row_counts /\ origin[p].last_end = HighWater
      /\ origin[p].pending = PendingBank(p) /\ row_counts \in RowCounts
  BY DEF SerialInv, Current, Persist, IInv, TypeOK
<1>3. PICK n \in 1 .. BatchSize :
          \E fate \in [Minted(p, n) -> Fate], held \in SUBSET Minted(p, n) :
              /\ (CleanBatch(fate) /\ held = {}) \/ AnomalousBatch(fate, held)
              /\ settlements' = [s \in DOMAIN settlements \cup Minted(p, n) |->
                     IF s \in Minted(p, n)
                     THEN [period |-> Period(p, s), fate |-> fate[s]]
                     ELSE settlements[s]]
              /\ bank' = bank (+) SetToBag(Landed(p)) (+) SetToBag(Credited(fate))
              /\ row_counts' = RolledForward(origin[p].counts, n, held)
  BY DEF Persist
<1>4. PICK fate \in [Minted(p, n) -> Fate], held \in SUBSET Minted(p, n) :
          /\ (CleanBatch(fate) /\ held = {}) \/ AnomalousBatch(fate, held)
          /\ settlements' = [s \in DOMAIN settlements \cup Minted(p, n) |->
                 IF s \in Minted(p, n)
                 THEN [period |-> Period(p, s), fate |-> fate[s]]
                 ELSE settlements[s]]
          /\ bank' = bank (+) SetToBag(Landed(p)) (+) SetToBag(Credited(fate))
          /\ row_counts' = RolledForward(origin[p].counts, n, held)
  BY <1>3
<1>5. n \in Nat /\ Minted(p, n) = HighWater + 1 .. HighWater + n /\ Minted(p, n) \subseteq Nat
  BY <1>1, SizeAssumption DEF Minted
<1>6. DOMAIN settlements' = 1 .. HighWater + n /\ HighWater' = HighWater + n
  <2>1. DOMAIN settlements' = 1 .. HighWater + n
    BY <1>1, <1>4, <1>5
  <2> QED
    BY <1>1, <1>5, <2>1, FS_Interval DEF HighWater
<1>7. PeriodsAreIds'
  <2> SUFFICES ASSUME NEW s \in DOMAIN settlements' PROVE settlements'[s].period = s
    BY DEF PeriodsAreIds
  <2>1. CASE s \in Minted(p, n)
    <3>1. settlements'[s].period = Period(p, s)
      BY <1>4, <2>1
    <3> QED
      BY <1>1, <1>2, <1>5, <2>1, <3>1 DEF Period
  <2>2. CASE s \notin Minted(p, n)
    <3>1. s \in DOMAIN settlements /\ settlements'[s] = settlements[s]
      BY <1>4, <2>2
    <3> QED
      BY <3>1 DEF SerialInv, PeriodsAreIds
  <2> QED
    BY <2>1, <2>2
<1>8. /\ row_counts.settlements = HighWater
      /\ row_counts.batches # <<>> => SumFunction(Sizes(row_counts.batches)) = HighWater
  BY LogAddsUpMeans DEF SerialInv
<1>9. /\ row_counts'.settlements = HighWater + n
      /\ row_counts'.batches # <<>>
      /\ SumFunction(Sizes(row_counts'.batches)) = HighWater + n
      /\ row_counts'.batches[Len(row_counts'.batches)].withheld_bank = held
  <2>1. held \in SUBSET Nat /\ row_counts' = RolledForward(row_counts, n, held)
    BY <1>2, <1>4, <1>5
  <2> QED
    BY <1>2, <1>5, <1>8, <2>1, RollingAddsUp
<1>10. LogAddsUp'
  BY <1>6, <1>9 DEF LogAddsUp, Sizes
\* A credit that was open lands, and an open one of this batch is withheld.
<1>11. Landed(p) \cup BagToSet(bank) \subseteq BagToSet(bank')
  <2>1. PICK L, T : L = Landed(p) /\ T = Credited(fate)
    OBVIOUS
  <2>2. IsABag(bank) /\ bank' = bank (+) SetToBag(L) (+) SetToBag(T)
    BY <1>4, <2>1 DEF IInv, TypeOK
  <2>3. BagToSet(bank') = BagToSet(bank) \cup L \cup T
    BY <2>2, BankGrows
  <2> QED
    BY <2>1, <2>3
<1>12. Open \subseteq Landed(p)
  <2> SUFFICES ASSUME NEW s \in Open PROVE s \in Landed(p)
    OBVIOUS
  <2>1. s \in DOMAIN settlements /\ settlements[s].fate = "in_flight" /\ s \notin BagToSet(bank)
    BY DEF Open, InFlight
  <2>2. /\ row_counts.batches # <<>>
        /\ s \in row_counts.batches[Len(row_counts.batches)].withheld_bank
    BY DEF SerialInv, InFlightLandsNext
  <2>3. row_counts.batches[Len(row_counts.batches)] \in Range(row_counts.batches)
    <3>1. row_counts.batches \in Seq(BatchEntry)
      BY <1>2 DEF RowCounts
    <3>2. Len(row_counts.batches) \in DOMAIN row_counts.batches
      BY <2>2, <3>1
    <3> QED
      BY <3>2 DEF Range
  <2>4. s \in Withheld(row_counts)
    BY <2>2, <2>3 DEF Withheld
  <2> QED
    BY <1>2, <2>1, <2>4 DEF PendingBank, Landed
<1>13. ASSUME NEW s \in Minted(p, n), fate[s] = "in_flight" PROVE s \in held
  <2>1. s \in Int /\ DOMAIN fate = Minted(p, n) /\ fate[s] \in Range(fate)
    BY <1>5 DEF Range
  <2>2. ~ CleanBatch(fate)
    BY <1>13, <2>1 DEF CleanBatch
  <2>3. PICK w \in DOMAIN fate :
            /\ held = {w}
            /\ \A t \in DOMAIN fate : /\ t < w => fate[t] # "in_flight"
                                      /\ t > w => fate[t] \in {"owing", "on_hold"}
    BY <1>4, <1>13, <2>1, <2>2 DEF AnomalousBatch
  <2>4. w \in Int /\ ~ (s < w) /\ ~ (s > w)
    BY <1>5, <1>13, <2>1, <2>3
  <2> QED
    BY <2>1, <2>3, <2>4
<1>14. InFlightLandsNext'
  <2> SUFFICES ASSUME NEW s \in Open' PROVE s \in held
    BY <1>9 DEF InFlightLandsNext
  <2>1. s \in DOMAIN settlements' /\ settlements'[s].fate = "in_flight" /\ s \notin BagToSet(bank')
    BY DEF Open, InFlight, BagToSet
  <2>2. CASE s \in Minted(p, n)
    <3>1. settlements'[s].fate = fate[s]
      BY <1>4, <2>2
    <3> QED
      BY <1>13, <2>1, <2>2, <3>1
  <2>3. CASE s \notin Minted(p, n)
    <3>1. s \in DOMAIN settlements /\ settlements'[s] = settlements[s]
      BY <1>4, <2>1, <2>3
    <3>2. s \in Open
      BY <1>11, <2>1, <3>1 DEF Open, InFlight
    <3> QED
      BY <1>11, <1>12, <2>1, <3>2
  <2> QED
    BY <2>2, <2>3
<1>15. \A q \in Process : Current(q)'
  <2>1. pc'[p] = "head"
    BY DEF Persist, Finished, IInv, TypeOK
  <2> QED
    BY <2>1 DEF Current, OneCaller
<1> QED
  BY <1>7, <1>10, <1>14, <1>15 DEF SerialInv

LEMMA SerialNext ==
    ASSUME OneCaller, IInv, SerialInv, [Next]_vars
    PROVE  SerialInv'
<1>1. CASE UNCHANGED vars
  <2>1. HighWater' = HighWater
    BY <1>1 DEF vars, HighWater
  <2> QED
    BY <1>1, <2>1 DEF vars, SerialInv, PeriodsAreIds, LogAddsUp, InFlightLandsNext, Open,
       InFlight, Current, PendingBank, Withheld
<1>2. ASSUME NEW p \in Process, Tick(p)
      PROVE  SerialInv'
  <2>1. TypeOK /\ Current(p) /\ origin[p] \in Origin /\ PeriodsLag /\ PeriodsAreIds
    BY DEF IInv, TypeOK, SerialInv
  <2>2. UNCHANGED settlements => HighWater' = HighWater
    BY DEF HighWater
  <2>3. CASE ReadHead(p)
    <3>1. pc'[p] = "bounds" /\ origin'[p] = [Unread EXCEPT !.counts = row_counts]
      BY <2>1, <2>3 DEF ReadHead, TypeOK
    <3>2. Current(p)'
      BY <2>3, <3>1 DEF Current, ReadHead, Unread
    <3> QED
      BY <2>3, <3>2, SerialReading DEF ReadHead
  <2>4. CASE ReadBounds(p)
    <3>1. /\ pc[p] = "bounds" /\ pc'[p] = "sequences"
          /\ origin'[p] = [origin[p] EXCEPT !.last_end = LastEnd]
          /\ UNCHANGED <<settlements, bank, row_counts>>
      BY <2>1, <2>4 DEF ReadBounds, TypeOK
    <3>2. LastEnd = HighWater
      BY <2>1, LastEndIsHighWater
    <3>3. Current(p)'
      BY <2>1, <2>2, <3>1, <3>2 DEF Current, Origin
    <3> QED
      BY <3>1, <3>3, SerialReading
  <2>5. CASE ReadSequence(p)
    <3>1. /\ pc[p] = "sequences" /\ pc'[p] \in {"sequences", "pending"}
          /\ origin'[p] = [origin[p] EXCEPT !.seq = Append(@, HighWater)]
          /\ UNCHANGED <<settlements, bank, row_counts>>
      BY <2>1, <2>5 DEF ReadSequence, TypeOK
    <3>2. Current(p)'
      BY <2>1, <2>2, <3>1 DEF Current, Origin
    <3> QED
      BY <3>1, <3>2, SerialReading
  <2>6. CASE ReadPending(p)
    <3>1. /\ pc[p] = "pending" /\ pc'[p] = "persist"
          /\ origin'[p] = [origin[p] EXCEPT !.pending = PendingBank(p)]
          /\ UNCHANGED <<settlements, bank, row_counts>>
      BY <2>1, <2>6 DEF ReadPending, TypeOK
    <3>2. /\ origin'[p].counts = origin[p].counts /\ origin'[p].last_end = origin[p].last_end
          /\ origin'[p].pending = PendingBank(p)
      BY <2>1, <3>1 DEF Origin
    <3>3. PendingBank(p)' = PendingBank(p)
      BY <3>1, <3>2 DEF PendingBank, Withheld
    <3>4. Current(p)'
      BY <2>1, <2>2, <3>1, <3>2, <3>3 DEF Current
    <3> QED
      BY <3>1, <3>4, SerialReading
  <2>7. CASE Persist(p)
    BY <2>7, SerialPersist
  <2>8. CASE Refuse(p) \/ Crash(p)
    <3>1. pc'[p] = "head" /\ UNCHANGED <<settlements, bank, row_counts>>
      BY <2>1, <2>8 DEF Refuse, Crash, Finished, TypeOK
    <3>2. Current(p)'
      BY <3>1 DEF Current
    <3> QED
      BY <3>1, <3>2, SerialReading
  <2> QED
    BY <1>2, <2>3, <2>4, <2>5, <2>6, <2>7, <2>8 DEF Tick
<1> QED
  BY <1>1, <1>2 DEF Next

LEMMA SerialInvariance == ASSUME OneCaller PROVE Spec => [](IInv /\ SerialInv)
<1>1. Init => IInv /\ SerialInv
  BY InitIInv, SerialInit
<1>2. IInv /\ SerialInv /\ [Next]_vars => (IInv /\ SerialInv)'
  BY NextIInv, SerialNext
<1> QED
  BY <1>1, <1>2, PTL DEF Spec

\* With one caller at a time the periods tile the calendar with no gap and no
\* overlap across every seam (generate.py:173-179).
THEOREM SeamsAreExact == ASSUME OneCaller PROVE Spec => []PeriodsTile
<1>1. IInv /\ SerialInv => PeriodsTile
  <2> SUFFICES ASSUME TypeOK, PeriodsAreIds PROVE PeriodsTile
    BY DEF IInv, SerialInv
  <2>1. HighWater \in Nat /\ DOMAIN settlements = 1 .. HighWater
    BY Ids
  <2>2. \A s \in 1 .. HighWater : s > 1 => s - 1 \in 1 .. HighWater
    BY <2>1
  <2> QED
    BY <2>1, <2>2 DEF PeriodsAreIds, PeriodsTile
<1> QED
  BY <1>1, SerialInvariance, PTL

\* With one caller at a time the batch log adds up to the rows that are there.
THEOREM LogAlwaysAddsUp == ASSUME OneCaller PROVE Spec => []LogAddsUp
<1>1. IInv /\ SerialInv => LogAddsUp
  BY DEF SerialInv
<1> QED
  BY <1>1, SerialInvariance, PTL

\* With one caller at a time a credit left in flight lands with the next tick
\* that commits, whatever was refused or died in between.
THEOREM InFlightAlwaysLands == ASSUME OneCaller PROVE Spec => []InFlightLandsNext
<1>1. IInv /\ SerialInv => InFlightLandsNext
  BY DEF SerialInv
<1> QED
  BY <1>1, SerialInvariance, PTL
=============================================================================
