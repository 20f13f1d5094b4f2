------------------------ MODULE JournaldSourceProofs ------------------------
(***************************************************************************)
(* For every batch size, byte cap and journal: the saved cursor of         *)
(* JournaldSource covers only entries that were handed to the caller or    *)
(* never read, no batch exceeds its caps, and what journald retains is not *)
(* passed over.                                                            *)
(***************************************************************************)
EXTENDS JournaldSource, TLAPS

USE JournalAssumption, SourceAssumption DEF JournalAssumption, SourceAssumption

-----------------------------------------------------------------------------
(* Lemmas about the operators. *)

\* Batch::push adds exactly the entry pushed.
LEMMA RangeOfPush ==
    ASSUME NEW s \in Seq(Nat), NEW e \in Nat
    PROVE  /\ Append(s, e) \in Seq(Nat)
           /\ Range(Append(s, e)) = Range(s) \cup {e}
  <1> DEFINE t == Append(s, e)
  <1>1. /\ t \in Seq(Nat)
        /\ DOMAIN s = 1 .. Len(s)
        /\ DOMAIN t = 1 .. (Len(s) + 1)
        /\ \A i \in 1 .. Len(s) : t[i] = s[i]
        /\ t[Len(s) + 1] = e
    OBVIOUS
  <1>2. Range(t) \subseteq Range(s) \cup {e}
    <2> SUFFICES ASSUME NEW i \in 1 .. (Len(s) + 1)
                 PROVE  t[i] \in Range(s) \cup {e}
      BY <1>1 DEF Range
    <2> QED BY <1>1 DEF Range
  <1>3. Range(s) \cup {e} \subseteq Range(t)
    <2> SUFFICES ASSUME NEW x \in Range(s) \cup {e}
                 PROVE  \E i \in 1 .. (Len(s) + 1) : t[i] = x
      BY <1>1 DEF Range
    <2> QED BY <1>1 DEF Range
  <1> QED BY <1>1, <1>2, <1>3

\* next_entry moves the handle forward, and never onto a vacuumed entry.
LEMMA AfterIsAhead ==
    ASSUME NEW p \in Nat, first \in Nat
    PROVE  After(p) \in Nat /\ After(p) > p /\ After(p) >= first
  BY DEF After

\* However position_to_start ends, the handle stands on an entry of the
\* journal that is not before the saved one.
LEMMA PositionsForward ==
    ASSUME SourceTypeOK, PositionToStart
    PROVE  \E p \in lastAcked .. Written : StandOn(p)
  <1>1. CASE ResumeAfterCursor
    BY <1>1 DEF ResumeAfterCursor, SourceTypeOK, Written
  <1>2. CASE ResumeAtClosest
    <2>1. Closest \in lastAcked .. Written
      BY <1>2 DEF ResumeAtClosest, Closest, SourceTypeOK, Written
    <2> QED BY <2>1, <1>2 DEF ResumeAtClosest
  <1>3. CASE FallBackToTail \/ StartAtTail
    BY <1>3 DEF FallBackToTail, StartAtTail, SourceTypeOK, Written
  <1> QED BY <1>1, <1>2, <1>3 DEF PositionToStart

\* A journal entry has a size.
LEMMA EntrySize ==
    ASSUME journal \in Seq(Sizes), NEW e \in 1 .. Len(journal)
    PROVE  journal[e] \in Nat
  <1>1. journal[e] \in Sizes
    OBVIOUS
  <1> QED BY <1>1

\* Where drain_available can return to, and what handing over can add.
LEMMA DrainReturns == EndDrain => phase' \in {"idle", "await", "coalesce"}
  BY DEF EndDrain

LEMMA HandsOverBatch ==
    HandOver => /\ handed \subseteq handed'
                /\ handed' \subseteq handed \cup Range(batch)
                /\ phase' = "idle" => handed' = handed \cup Range(batch)
  BY DEF HandOver

-----------------------------------------------------------------------------
(* Type correctness. *)

LEMMA TypeInit == SourceInit => SourceTypeOK
  <1> SUFFICES ASSUME SourceInit PROVE SourceTypeOK
    OBVIOUS
  <1>1. notified \in BOOLEAN /\ positioned \in BOOLEAN
    BY DEF SourceInit, JournalInit, MemoryEmpty
  <1> QED
    BY <1>1 DEF SourceInit, JournalInit, MemoryEmpty, NoEntry, SourceTypeOK, Phases

\* The two Boolean variables, apart: the other conjuncts need arithmetic.
LEMMA FlagsStep ==
    ASSUME notified \in BOOLEAN, positioned \in BOOLEAN, [SourceNext]_sourceVars
    PROVE  notified' \in BOOLEAN /\ positioned' \in BOOLEAN
  <1>1. CASE UNCHANGED sourceVars \/ JournalStep
    BY <1>1 DEF sourceVars, JournalStep, JournalNext, Log, Vacuum, journalVars, memory
  <1>2. CASE Open \/ Close \/ SourceFails \/ PeekFresh \/ PeekInFlight
    BY <1>2 DEF Open, Close, SourceFails, DropMemory, PeekFresh, PeekInFlight,
                journalVars, memory
  <1>3. CASE PeekProgress
    BY <1>3 DEF PeekProgress, PositionToStart, ResumeAfterCursor, ResumeAtClosest,
                FallBackToTail, StartAtTail, StandOn, DrainParked, DrainNext, DrainEnds, AwaitWakeup,
                CoalesceWakeup, Wakeup, CoalesceEnds, journalVars, memory
  <1>4. CASE AckWrite \/ AckRename
    BY <1>4 DEF AckWrite, AckRename, journalVars, memory
  <1> QED BY <1>1, <1>2, <1>3, <1>4 DEF SourceNext

LEMMA TypeStep ==
    ASSUME SourceTypeOK, LifeCycle, BatchInOrder, [SourceNext]_sourceVars
    PROVE  SourceTypeOK'
  <1> USE DEF SourceTypeOK, Phases, NoEntry, Written
  <1>0. /\ \A i \in 1 .. Len(batch) : batch[i] \in 1 .. Len(journal)
        /\ Range(batch) \subseteq 1 .. Len(journal)
    <2>1. ASSUME NEW i \in 1 .. Len(batch)
          PROVE  batch[i] \in 1 .. Len(journal)
      <3>1. batch[i] \in Nat
        OBVIOUS
      <3> QED BY <3>1 DEF BatchInOrder
    <2> QED BY <2>1 DEF Range
  <1>b. notified' \in BOOLEAN /\ positioned' \in BOOLEAN
    BY FlagsStep
  <1>1. CASE UNCHANGED sourceVars
    BY <1>1, <1>b DEF sourceVars, journalVars, memory, disk
  <1>2. CASE JournalStep
    <2>1. CASE Vacuum
      BY <1>2, <1>b, <2>1 DEF JournalStep, Vacuum, memory, disk
    <2>2. ASSUME NEW size \in Sizes, Log(size)
          PROVE  SourceTypeOK'
      <3>1. journal' \in Seq(Sizes) /\ Len(journal') = Len(journal) + 1
        BY <2>2 DEF Log
      <3>2. UNCHANGED <<first, phase, memory, disk, starts, handed, passed>>
        BY <2>2, <1>2 DEF JournalStep, Log
      <3> QED BY <3>1, <3>2, <1>b, SMTT(30) DEF memory, disk
    <2> QED BY <1>2, <2>1, <2>2 DEF JournalStep, JournalNext
  <1>3. CASE Open
    BY <1>3, <1>b DEF Open, disk
  <1>4. CASE Close \/ SourceFails
    <2>1. DropMemory /\ UNCHANGED <<journalVars, disk, starts, handed, passed>>
      BY <1>4 DEF Close, SourceFails
    <2>2. phase' \in {"off", "failed"}
      BY <1>4 DEF Close, SourceFails
    <2> QED BY <1>b, <2>1, <2>2 DEF DropMemory, journalVars, disk
  <1>5. CASE PeekFresh \/ PeekInFlight
    BY <1>5, <1>b DEF PeekFresh, PeekInFlight, journalVars, memory, disk
  <1>6. CASE PositionToStart
    <2>1. PICK p \in lastAcked .. Written : StandOn(p)
      BY <1>6, PositionsForward
    <2>2. (lastAcked + 1) .. p \subseteq 1 .. Len(journal)
      OBVIOUS
    <2> QED BY <1>b, <2>1, <2>2 DEF StandOn, journalVars, disk
  <1>7. ASSUME NEW e \in 1 .. Len(journal), AdmitOrPark(e)
        PROVE  /\ phase' \in Phases
               /\ batch' \in Seq(Nat)
               /\ bytes' \in Nat
               /\ parked' \in 0 .. Len(journal)
               /\ handed' \subseteq 1 .. Len(journal)
    <2>1. CASE Fits(e) /\ Push(e) /\ parked' = NoEntry /\ UNCHANGED <<phase, handed>>
      <3>1. journal[e] \in Nat
        BY EntrySize
      <3>2. Append(batch, e) \in Seq(Nat)
        BY RangeOfPush
      <3>3. batch' \in Seq(Nat) /\ UNCHANGED <<phase, handed>> /\ parked' = NoEntry
        BY <2>1, <3>2 DEF Push
      <3>4. bytes' \in Nat
        BY <2>1, <3>1 DEF Push
      <3> QED BY <3>3, <3>4
    <2>2. CASE /\ parked' = e
               /\ UNCHANGED <<batch, bytes>>
               /\ EndDrain
               /\ HandOver
      <3>1. phase' \in Phases
        BY <2>2, DrainReturns
      <3>2. handed' \subseteq 1 .. Len(journal)
        BY <1>0, <2>2, HandsOverBatch
      <3> QED BY <2>2, <3>1, <3>2
    <2> QED BY <1>7, <2>1, <2>2 DEF AdmitOrPark
  <1>8. CASE DrainParked
    <2>1. parked \in 1 .. Len(journal) /\ AdmitOrPark(parked)
      BY <1>8 DEF DrainParked
    <2> QED BY <1>b, <1>7, <1>8, <2>1 DEF DrainParked, journalVars, disk
  <1>9. CASE DrainNext
    <2>1. After(pos) \in Nat /\ After(pos) > pos /\ After(pos) <= Len(journal)
      <3>1. pos \in Nat /\ first \in Nat
        OBVIOUS
      <3>2. After(pos) <= Len(journal)
        BY <1>9 DEF DrainNext
      <3> QED BY <3>1, <3>2, AfterIsAhead
    <2>2. /\ After(pos) \in 1 .. Len(journal)
          /\ (pos + 1) .. (After(pos) - 1) \subseteq 1 .. Len(journal)
      BY <2>1
    <2>3. AdmitOrPark(After(pos))
      BY <1>9 DEF DrainNext
    <2>4. passed' \subseteq 1 .. Len(journal)
      <3>1. passed' = passed \cup (pos + 1) .. (After(pos) - 1)
        BY <1>9 DEF DrainNext
      <3> QED BY <2>2, <3>1
    <2>5. /\ pos' = After(pos)
          /\ UNCHANGED <<journal, first, notified, positioned, lastAcked,
                         cursorFile, tmpFile, starts>>
      BY <1>9 DEF DrainNext, journalVars, disk
    <2> HIDE DEF Phases
    <2> QED BY <1>b, <1>7, <2>2, <2>3, <2>4, <2>5
  <1>10. CASE DrainEnds \/ CoalesceEnds
    BY <1>0, <1>b, <1>10, DrainReturns, HandsOverBatch
       DEF DrainEnds, CoalesceEnds, journalVars, memory, disk
  <1>11. CASE AwaitWakeup \/ CoalesceWakeup
    BY <1>11, <1>b DEF AwaitWakeup, CoalesceWakeup, Wakeup, memory, disk
  <1>12. CASE AckWrite
    <2>1. batch[Len(batch)] \in 1 .. Len(journal)
      <3>1. Len(batch) \in 1 .. Len(batch)
        BY <1>12 DEF AckWrite
      <3> QED BY <1>0, <3>1
    <2> QED BY <2>1, <1>b, <1>12 DEF AckWrite, journalVars, memory
  <1>13. CASE AckRename
    BY <1>13, <1>b DEF AckRename, journalVars
  <1> QED
    BY <1>1, <1>2, <1>3, <1>4, <1>5, <1>6, <1>8, <1>9, <1>10, <1>11, <1>12, <1>13
       DEF SourceNext, PeekProgress

-----------------------------------------------------------------------------
(* The effect of the steps, in the terms of the invariant. *)

\* Every entry that drain_available takes, parked or read, follows the whole
\* batch, and the handle stands on it afterwards; the handle moves over
\* nothing else without recording it in passed.
Taken(e) == /\ AdmitOrPark(e)
            /\ positioned /\ Draining /\ BatchHasRoom
            /\ lastAcked < e /\ pos <= e /\ pos' = e
            /\ parked # NoEntry => e = parked
            /\ \A i \in 1 .. Len(batch) : batch[i] < e
            /\ passed \subseteq passed'
            /\ \A x \in (pos + 1) .. (e - 1) : x \in passed'
            /\ UNCHANGED <<journalVars, positioned, lastAcked, disk, starts>>

LEMMA DrainTakes ==
    ASSUME SourceTypeOK, LifeCycle, BatchInOrder, DrainParked \/ DrainNext
    PROVE  \E e \in 1 .. Len(journal) : Taken(e)
  <1> USE DEF SourceTypeOK, NoEntry, Written
  <1>1. /\ positioned
        /\ \A i \in 1 .. Len(batch) : batch[i] \in Nat
        /\ pos \in Nat /\ lastAcked \in Nat /\ first \in Nat /\ lastAcked <= pos
    <2>1. phase \in {"catchup", "refill", "topup"}
      BY DEF DrainParked, DrainNext, Draining
    <2>2. positioned /\ lastAcked <= pos
      BY <2>1 DEF LifeCycle
    <2>3. pos \in Nat /\ lastAcked \in Nat /\ first \in Nat
      OBVIOUS
    <2>4. \A i \in 1 .. Len(batch) : batch[i] \in Nat
      OBVIOUS
    <2> QED BY <2>2, <2>3, <2>4
  <1>2. CASE DrainParked
    <2>1. /\ parked \in 1 .. Len(journal)
          /\ parked = pos /\ lastAcked < parked
          /\ \A i \in 1 .. Len(batch) : batch[i] < parked
      BY <1>2 DEF DrainParked, BatchInOrder
    <2>2. passed' = passed /\ pos' = pos
      BY <1>2 DEF DrainParked
    <2>3. Taken(parked)
      BY <1>1, <1>2, <2>1, <2>2 DEF Taken, DrainParked
    <2> QED BY <2>1, <2>3
  <1>3. CASE DrainNext
    <2> DEFINE e == After(pos)
    <2>1. e \in Nat /\ e > pos
      BY <1>1, AfterIsAhead
    <2>2. e \in 1 .. Len(journal)
      BY <1>3, <2>1 DEF DrainNext
    <2>3. parked = NoEntry /\ pos' = e /\ passed' = passed \cup (pos + 1) .. (e - 1)
      BY <1>3 DEF DrainNext
    <2>4. \A i \in 1 .. Len(batch) : batch[i] < e
      BY <1>1, <2>1 DEF BatchInOrder
    <2>5. Taken(e)
      <3> HIDE DEF e
      <3>1. /\ AdmitOrPark(e) /\ Draining /\ BatchHasRoom
            /\ UNCHANGED <<journalVars, positioned, lastAcked, disk, starts>>
        BY <1>3 DEF DrainNext, e
      <3> QED BY <1>1, <2>1, <2>3, <2>4, <3>1 DEF Taken
    <2> QED BY <2>2, <2>5
  <1> QED BY <1>2, <1>3

\* Steps that leave the handle, the batch and the saved cursor alone.
Quiet == /\ UNCHANGED <<pos, positioned, batch, bytes, parked, lastAcked,
                        cursorFile, tmpFile, passed>>
         /\ handed \subseteq handed'
         /\ \/ /\ UNCHANGED phase
            \/ /\ phase = "idle"
               /\ phase' = IF batch # <<>> THEN "topup"
                           ELSE IF positioned THEN "catchup" ELSE "position"
               /\ handed' = handed
            \/ /\ Draining \/ phase \in {"await", "coalesce"}
               /\ phase' \in {"idle", "await", "coalesce", "catchup", "refill"}
               /\ phase' = "idle" => handed' = handed \cup Range(batch)

LEMMA QuietSteps ==
    ASSUME UNCHANGED sourceVars \/ JournalStep \/ PeekFresh \/ PeekInFlight
              \/ DrainEnds \/ AwaitWakeup \/ CoalesceWakeup \/ CoalesceEnds
    PROVE  Quiet
  <1>1. CASE UNCHANGED sourceVars \/ JournalStep
    BY <1>1 DEF Quiet, sourceVars, memory, disk, JournalStep
  <1>2. CASE PeekFresh \/ PeekInFlight
    BY <1>2 DEF Quiet, PeekFresh, PeekInFlight, memory, disk
  <1>3. CASE DrainEnds
    BY <1>3, DrainReturns, HandsOverBatch DEF Quiet, DrainEnds, memory, disk
  <1>4. CASE AwaitWakeup \/ CoalesceWakeup
    BY <1>4 DEF Quiet, AwaitWakeup, CoalesceWakeup, Wakeup, memory, disk
  <1>5. CASE CoalesceEnds
    BY <1>5, HandsOverBatch DEF Quiet, CoalesceEnds, memory, disk
  <1> QED BY <1>1, <1>2, <1>3, <1>4, <1>5

\* The steps that are left are those that change the memory in a way of their own.
LEMMA StepCases ==
    ASSUME SourceTypeOK, LifeCycle, BatchInOrder, [SourceNext]_sourceVars
    PROVE  \/ Quiet
           \/ Open
           \/ Close \/ SourceFails
           \/ \E p \in lastAcked .. Written : StandOn(p)
           \/ \E e \in 1 .. Len(journal) : Taken(e)
           \/ AckWrite
           \/ AckRename
  BY QuietSteps, PositionsForward, DrainTakes DEF SourceNext, PeekProgress

-----------------------------------------------------------------------------
(* Each conjunct of the invariant is preserved. *)

LEMMA LifeCycleStep ==
    ASSUME SourceTypeOK, LifeCycle, BatchInOrder, [SourceNext]_sourceVars
    PROVE  LifeCycle'
  <1> USE DEF SourceTypeOK, LifeCycle, MemoryEmpty, NoEntry
  <1>1. CASE Quiet
    BY <1>1 DEF Quiet, Draining
  <1>2. CASE Open
    BY <1>2 DEF Open, disk
  <1>3. CASE Close \/ SourceFails
    BY <1>3 DEF Close, SourceFails, DropMemory
  <1>4. ASSUME NEW p \in lastAcked .. Written, StandOn(p)
        PROVE  LifeCycle'
    BY <1>4 DEF StandOn, disk, Written
  <1>5. ASSUME NEW e \in 1 .. Len(journal), Taken(e)
        PROVE  LifeCycle'
    <2>1. phase' \in {phase, "idle", "await", "coalesce"}
      BY <1>5, DrainReturns DEF Taken, AdmitOrPark
    <2> QED BY <1>5, <2>1 DEF Taken, Draining, disk
  <1>6. CASE AckWrite
    BY <1>6 DEF AckWrite, memory
  <1>7. CASE AckRename
    <2>1. lastAcked' <= pos'
      <3>1. Len(batch) \in 1 .. Len(batch)
        BY <1>7 DEF AckRename
      <3> QED BY <1>7, <3>1 DEF AckRename, BatchInOrder
    <2> QED BY <1>7, <2>1 DEF AckRename
  <1> QED BY <1>1, <1>2, <1>3, <1>4, <1>5, <1>6, <1>7, StepCases

LEMMA BatchInOrderStep ==
    ASSUME SourceTypeOK, LifeCycle, BatchInOrder, [SourceNext]_sourceVars
    PROVE  BatchInOrder'
  <1> USE DEF SourceTypeOK, BatchInOrder, NoEntry
  <1>1. CASE Quiet
    BY <1>1 DEF Quiet
  <1>2. CASE Open
    BY <1>2 DEF Open, LifeCycle, MemoryEmpty
  <1>3. CASE Close \/ SourceFails
    BY <1>3 DEF Close, SourceFails, DropMemory
  <1>4. ASSUME NEW p \in lastAcked .. Written, StandOn(p)
        PROVE  BatchInOrder'
    BY <1>4 DEF StandOn, LifeCycle
  <1>5. ASSUME NEW e \in 1 .. Len(journal), Taken(e)
        PROVE  BatchInOrder'
    <2>1. /\ lastAcked < e /\ pos <= e /\ pos' = e /\ lastAcked' = lastAcked
          /\ \A i \in 1 .. Len(batch) : batch[i] < e /\ batch[i] \in Nat
      BY <1>5 DEF Taken
    <2>2. CASE Push(e) /\ parked' = NoEntry
      <3>1. /\ batch' = Append(batch, e)
            /\ Len(batch') = Len(batch) + 1
            /\ \A i \in 1 .. Len(batch) : batch'[i] = batch[i]
            /\ batch'[Len(batch) + 1] = e
        BY <2>2 DEF Push
      <3> QED BY <2>1, <2>2, <3>1, SMTT(30)
    <2>3. CASE parked' = e /\ UNCHANGED batch
      <3>1. \A i \in 1 .. Len(batch') : batch'[i] = batch[i] /\ batch'[i] < e
        BY <2>1, <2>3
      <3> QED BY <2>1, <2>3, <3>1, SMTT(30)
    <2> QED BY <1>5, <2>2, <2>3 DEF Taken, AdmitOrPark
  <1>6. CASE AckWrite
    BY <1>6 DEF AckWrite, memory
  <1>7. CASE AckRename
    BY <1>7 DEF AckRename, LifeCycle
  <1> QED BY <1>1, <1>2, <1>3, <1>4, <1>5, <1>6, <1>7, StepCases

\* A number above a bound of a sequence's elements is none of them.
LEMMA NotBeyond ==
    ASSUME NEW s \in Seq(Nat), NEW bound \in Nat, NEW p \in Nat, NEW x \in (bound + 1) .. p,
           \A i \in 1 .. Len(s) : s[i] <= bound
    PROVE  x \notin Range(s)
  <1> SUFFICES ASSUME NEW i \in DOMAIN s, x = s[i] PROVE FALSE
    BY DEF Range
  <1>1. i \in 1 .. Len(s) /\ s[i] \in Nat
    OBVIOUS
  <1> QED BY <1>1

LEMMA NothingBetweenStep ==
    ASSUME SourceTypeOK, LifeCycle, BatchInOrder, NothingBetween, [SourceNext]_sourceVars
    PROVE  NothingBetween'
  <1> USE DEF SourceTypeOK, NothingBetween, NoEntry
  <1>1. CASE Quiet
    BY <1>1 DEF Quiet
  <1>2. CASE Open
    BY <1>2 DEF Open, LifeCycle, MemoryEmpty
  <1>3. CASE Close \/ SourceFails
    BY <1>3 DEF Close, SourceFails, DropMemory
  <1>4. ASSUME NEW p \in lastAcked .. Written, StandOn(p)
        PROVE  NothingBetween'
    BY <1>4 DEF StandOn
  <1>5. ASSUME NEW e \in 1 .. Len(journal), Taken(e)
        PROVE  NothingBetween'
    <2> SUFFICES ASSUME NEW x \in (lastAcked + 1) .. e
                 PROVE  x \in Range(batch') \/ x = parked' \/ x \in passed'
      BY <1>5 DEF Taken
    <2>1. x = e \/ x \in (pos + 1) .. (e - 1) \/ x \in (lastAcked + 1) .. pos
      OBVIOUS
    <2>2. x \in Range(batch) \/ x = parked \/ x \in passed' \/ x = e
      BY <1>5, <2>1 DEF Taken
    <2>3. x \in Range(batch) \/ x = e \/ x \in passed'
      BY <1>5, <2>2 DEF Taken
    <2>4. CASE Push(e)
      <3>1. Range(batch') = Range(batch) \cup {e}
        BY <2>4, RangeOfPush DEF Push
      <3> QED BY <2>3, <3>1
    <2>5. CASE parked' = e /\ UNCHANGED batch
      BY <2>3, <2>5
    <2> QED BY <1>5, <2>4, <2>5 DEF Taken, AdmitOrPark
  <1>6. CASE AckWrite
    BY <1>6 DEF AckWrite, memory
  <1>7. CASE AckRename
    \* What was in the batch is now covered by the acked cursor.
    <2>1. /\ lastAcked' = batch[Len(batch)] /\ batch # <<>>
          /\ UNCHANGED <<pos, positioned, parked, passed>>
      BY <1>7 DEF AckRename, LifeCycle
    <2>2. ASSUME NEW i \in 1 .. Len(batch)
          PROVE  batch[i] \in Nat /\ batch[i] <= lastAcked'
      <3>1. /\ Len(batch) \in 1 .. Len(batch)
            /\ batch[i] \in Nat /\ batch[Len(batch)] \in Nat
        BY <2>1
      <3>2. i < Len(batch) => batch[i] < batch[Len(batch)]
        BY <3>1 DEF BatchInOrder
      <3>3. i < Len(batch) \/ i = Len(batch)
        BY <3>1
      <3> QED BY <2>1, <3>1, <3>2, <3>3
    <2>3. lastAcked < lastAcked'
      <3>1. Len(batch) \in 1 .. Len(batch)
        BY <2>1
      <3> QED BY <2>1, <3>1 DEF BatchInOrder
    <2>4. ASSUME positioned, NEW x \in (lastAcked' + 1) .. pos
          PROVE  x = parked \/ x \in passed
      <3>1. x \notin Range(batch)
        <4>1. batch \in Seq(Nat) /\ pos \in Nat
          OBVIOUS
        <4>2. lastAcked' \in Nat
          BY <2>1, <2>2
        <4> HIDE DEF SourceTypeOK, NothingBetween
        <4>3. \A i \in 1 .. Len(batch) : batch[i] <= lastAcked'
          BY <2>2
        <4> QED BY <2>4, <4>1, <4>2, <4>3, NotBeyond
      <3> QED BY <2>1, <2>3, <2>4, <3>1
    <2> QED BY <2>1, <2>4
  <1> QED BY <1>1, <1>2, <1>3, <1>4, <1>5, <1>6, <1>7, StepCases

LEMMA BatchIsHandedStep ==
    ASSUME SourceTypeOK, LifeCycle, BatchInOrder, BatchIsHanded, [SourceNext]_sourceVars
    PROVE  BatchIsHanded'
  <1> USE DEF BatchIsHanded
  <1>e. Range(<<>>) = {}
    BY DEF Range
  <1>1. CASE Quiet
    BY <1>1 DEF Quiet
  <1>2. CASE Open
    BY <1>2, <1>e DEF Open, LifeCycle, MemoryEmpty
  <1>3. CASE Close \/ SourceFails
    BY <1>3 DEF Close, SourceFails
  <1>4. ASSUME NEW p \in lastAcked .. Written, StandOn(p)
        PROVE  BatchIsHanded'
    BY <1>4 DEF StandOn
  <1>5. ASSUME NEW e \in 1 .. Len(journal), Taken(e)
        PROVE  BatchIsHanded'
    <2>1. \/ phase' \in {"catchup", "refill", "topup"}
          \/ HandOver /\ UNCHANGED batch /\ phase' \in {"idle", "await", "coalesce"}
      BY <1>5, DrainReturns DEF Taken, AdmitOrPark, Draining
    <2> QED BY <2>1, HandsOverBatch
  <1>6. CASE AckWrite
    BY <1>6 DEF AckWrite, memory
  <1>7. CASE AckRename
    BY <1>7, <1>e DEF AckRename
  <1> QED BY <1>1, <1>2, <1>3, <1>4, <1>5, <1>6, <1>7, StepCases

LEMMA CursorCoversStep ==
    ASSUME SourceInv, [SourceNext]_sourceVars
    PROVE  CursorCoversOnlyHanded'
  <1> USE DEF SourceInv, SourceTypeOK, CursorCoversOnlyHanded
  <1>1. CASE Quiet
    BY <1>1 DEF Quiet
  <1>2. CASE Open
    BY <1>2 DEF Open, disk
  <1>3. CASE Close \/ SourceFails
    BY <1>3 DEF Close, SourceFails, disk
  <1>4. ASSUME NEW p \in lastAcked .. Written, StandOn(p)
        PROVE  CursorCoversOnlyHanded'
    BY <1>4 DEF StandOn, disk
  <1>5. ASSUME NEW e \in 1 .. Len(journal), Taken(e)
        PROVE  CursorCoversOnlyHanded'
    <2>1. handed \subseteq handed'
      BY <1>5, HandsOverBatch DEF Taken, AdmitOrPark
    <2> QED BY <1>5, <2>1 DEF Taken, disk
  <1>6. CASE AckWrite
    BY <1>6 DEF AckWrite
  <1>7. CASE AckRename
    \* Up to the old cursor by hypothesis; from there to the end of the batch
    \* nothing can be parked, and the batch has been handed over.
    <2>1. /\ cursorFile' = batch[Len(batch)]
          /\ UNCHANGED <<handed, passed>>
          /\ lastAcked = cursorFile
          /\ Len(batch) \in 1 .. Len(batch)
          /\ positioned
          /\ Range(batch) \subseteq handed
      BY <1>7 DEF AckRename, LifeCycle, BatchIsHanded
    <2>2. batch[Len(batch)] <= pos
      BY <2>1 DEF BatchInOrder
    <2>3. parked # NoEntry => batch[Len(batch)] < parked
      BY <2>1 DEF BatchInOrder
    <2>4. ASSUME NEW x \in 1 .. batch[Len(batch)]
          PROVE  x \in handed \cup passed
      <3>1. CASE x <= cursorFile
        BY <3>1
      <3>2. CASE x > cursorFile
        <4>1. x \in (lastAcked + 1) .. pos
          BY <2>1, <2>2, <3>2
        <4>2. x # parked
          BY <2>3, <2>1 DEF NoEntry
        <4> QED BY <2>1, <4>1, <4>2 DEF NothingBetween
      <3> QED BY <2>1, <3>1, <3>2
    <2> QED BY <2>1, <2>4
  <1> QED BY <1>1, <1>2, <1>3, <1>4, <1>5, <1>6, <1>7, StepCases

-----------------------------------------------------------------------------
(* The theorems. *)

\* SourceInv is inductive, and each of its parts holds of every behaviour.
THEOREM SourceInvariant == SourceSpec => []SourceInv
  <1>1. SourceInit => SourceInv
    <2> SUFFICES ASSUME SourceInit PROVE SourceInv
      OBVIOUS
    <2>1. LifeCycle
      BY DEF SourceInit, LifeCycle, MemoryEmpty, NoEntry
    <2>2. BatchInOrder /\ NothingBetween /\ BatchIsHanded /\ CursorCoversOnlyHanded
      BY DEF SourceInit, BatchInOrder, NothingBetween, BatchIsHanded,
             CursorCoversOnlyHanded, MemoryEmpty, NoEntry
    <2> QED BY <2>1, <2>2, TypeInit DEF SourceInv
  <1>2. SourceInv /\ [SourceNext]_sourceVars => SourceInv'
    BY TypeStep, LifeCycleStep, BatchInOrderStep, NothingBetweenStep,
       BatchIsHandedStep, CursorCoversStep DEF SourceInv
  <1> QED BY <1>1, <1>2, PTL DEF SourceSpec

\* Type correctness of the journald source.
THEOREM SourceTypeCorrect == SourceSpec => []SourceTypeOK
  <1>1. SourceInv => SourceTypeOK
    BY DEF SourceInv
  <1> QED BY <1>1, SourceInvariant, PTL

\* The saved cursor covers only what was handed to the shipper or never read,
\* for every cap and every interleaving of writers, crashes and restarts.
THEOREM NoEntryIsLost == SourceSpec => []CursorCoversOnlyHanded
  <1>1. SourceInv => CursorCoversOnlyHanded
    BY DEF SourceInv
  <1> QED BY <1>1, SourceInvariant, PTL

LEMMA CapsStep ==
    ASSUME SourceInv, BatchWithinCaps, [SourceNext]_sourceVars
    PROVE  BatchWithinCaps'
  <1> USE DEF SourceInv, SourceTypeOK, BatchWithinCaps, NoEntry
  <1>1. CASE Quiet
    BY <1>1 DEF Quiet
  <1>2. CASE Open
    BY <1>2 DEF Open
  <1>3. CASE Close \/ SourceFails
    BY <1>3 DEF Close, SourceFails, DropMemory
  <1>4. ASSUME NEW p \in lastAcked .. Written, StandOn(p)
        PROVE  BatchWithinCaps'
    BY <1>4 DEF StandOn
  <1>5. ASSUME NEW e \in 1 .. Len(journal), Taken(e)
        PROVE  BatchWithinCaps'
    <2>1. CASE Fits(e) /\ Push(e)
      <3>1. /\ Len(batch') = Len(batch) + 1
            /\ bytes' = bytes + journal[e]
            /\ Len(batch) < BatchSize
        BY <1>5, <2>1 DEF Push, Taken, BatchHasRoom
      <3> QED BY <2>1, <3>1 DEF Fits
    <2>2. CASE UNCHANGED <<batch, bytes>>
      BY <2>2
    <2> QED BY <1>5, <2>1, <2>2 DEF Taken, AdmitOrPark
  <1>6. CASE AckWrite
    BY <1>6 DEF AckWrite, memory
  <1>7. CASE AckRename
    BY <1>7 DEF AckRename
  <1> QED BY <1>1, <1>2, <1>3, <1>4, <1>5, <1>6, <1>7, StepCases

\* No way of filling a batch exceeds batch_size or, beyond its first entry,
\* batch_max_bytes: not the catch-up, the window, the parked entry or a top-up.
THEOREM CapsAreKept == SourceSpec => []BatchWithinCaps
  <1>1. SourceInit => BatchWithinCaps
    BY DEF SourceInit, MemoryEmpty, BatchWithinCaps
  <1>2. SourceInv /\ BatchWithinCaps /\ [SourceNext]_sourceVars => BatchWithinCaps'
    BY CapsStep
  <1> QED BY <1>1, <1>2, SourceInvariant, PTL DEF SourceSpec

\* The saved cursor never moves back.
THEOREM CursorIsMonotone == SourceSpec => CursorNeverRegresses
  <1>1. SourceInv /\ [SourceNext]_sourceVars => [cursorFile' >= cursorFile]_sourceVars
    <2> SUFFICES ASSUME SourceInv, [SourceNext]_sourceVars
                 PROVE  cursorFile' >= cursorFile
      OBVIOUS
    <2> USE DEF SourceInv, SourceTypeOK
    <2>1. CASE AckRename
      <3>1. /\ cursorFile' = batch[Len(batch)]
            /\ lastAcked = cursorFile
            /\ Len(batch) \in 1 .. Len(batch)
        BY <2>1 DEF AckRename, LifeCycle
      <3> QED BY <3>1 DEF BatchInOrder
    <2>2. CASE ~AckRename
      <3>1. cursorFile' = cursorFile
        BY <2>2, StepCases DEF Quiet, Open, Close, SourceFails, StandOn, Taken,
                               AckWrite, disk
      <3> QED BY <3>1
    <2> QED BY <2>1, <2>2
  <1> QED BY <1>1, SourceInvariant, PTL DEF SourceSpec, CursorNeverRegresses

\* Between an entry into the batch and the ack, peek_batch only adds at the end:
\* what a caller has counted off in the batch stays counted off.
THEOREM BatchOnlyGrows == SourceSpec => TopUpOnlyAppends
  <1> DEFINE Appends == (batch # << >> /\ batch' # << >>) =>
                            /\ Len(batch') >= Len(batch)
                            /\ SubSeq(batch', 1, Len(batch)) = batch
  <1>1. SourceInv /\ [SourceNext]_sourceVars => [Appends]_sourceVars
    <2> SUFFICES ASSUME SourceInv, [SourceNext]_sourceVars PROVE Appends
      OBVIOUS
    <2> USE DEF SourceInv, SourceTypeOK
    <2>0. batch \in Seq(Nat)
      OBVIOUS
    <2>1. CASE batch' = batch
      BY <2>0, <2>1
    <2>2. CASE batch' = << >>
      BY <2>2
    <2>3. ASSUME NEW e \in 1 .. Len(journal), Taken(e) PROVE Appends
      <3>1. CASE Push(e)
        <4>1. batch' = Append(batch, e) /\ e \in Nat
          BY <3>1 DEF Push
        <4>2. /\ Len(batch') = Len(batch) + 1
              /\ \A i \in 1 .. Len(batch) : batch'[i] = batch[i]
          BY <2>0, <4>1
        <4>3. SubSeq(batch', 1, Len(batch)) = batch
          BY <2>0, <4>1, <4>2
        <4> QED BY <2>0, <4>2, <4>3
      <3>2. CASE UNCHANGED batch
        BY <2>1, <3>2
      <3> QED BY <2>3, <3>1, <3>2 DEF Taken, AdmitOrPark
    <2>4. \/ batch' = batch
          \/ batch' = << >>
          \/ \E e \in 1 .. Len(journal) : Taken(e)
      BY StepCases DEF Quiet, Open, Close, SourceFails, DropMemory, StandOn,
                       AckWrite, AckRename, memory
    <2> QED BY <2>1, <2>2, <2>3, <2>4
  <1> QED BY <1>1, SourceInvariant, PTL DEF SourceSpec, TopUpOnlyAppends
-----------------------------------------------------------------------------
(* What the handle moves over. *)

\* The handle records something as moved over only when the source is
\* positioned and when it reads the next entry of the journal.
LEMMA OnlyTwoPassOver ==
    ASSUME [SourceNext]_sourceVars
    PROVE  passed' = passed \/ PositionToStart \/ DrainNext
  <1>1. CASE UNCHANGED sourceVars \/ JournalStep
    BY <1>1 DEF sourceVars, JournalStep
  <1>2. CASE Open \/ Close \/ SourceFails \/ PeekFresh \/ PeekInFlight
    BY <1>2 DEF Open, Close, SourceFails, PeekFresh, PeekInFlight
  <1>3. CASE PeekProgress
    BY <1>3 DEF PeekProgress, DrainParked, DrainEnds, AwaitWakeup,
                CoalesceWakeup, Wakeup, CoalesceEnds
  <1>4. CASE AckWrite \/ AckRename
    BY <1>4 DEF AckWrite, AckRename
  <1> QED BY <1>1, <1>2, <1>3, <1>4 DEF SourceNext

\* While journald retains the saved entry, no start, crash or failed call makes
\* the source move over an entry that the journal still holds: position_to_start
\* takes the branch that steps onto the saved entry itself, since last_acked is
\* what the file holds, and next_entry skips only what is vacuumed.
THEOREM RetainedAreRead == SourceSpec => RetainedEntriesAreRead
  <1> DEFINE Reads == (cursorFile # NoEntry /\ cursorFile >= first) =>
                          \A e \in passed' \ passed : e < first
  <1>1. SourceInv /\ [SourceNext]_sourceVars => [Reads]_sourceVars
    <2> SUFFICES ASSUME SourceInv, [SourceNext]_sourceVars,
                        cursorFile # NoEntry, cursorFile >= first,
                        NEW e \in passed' \ passed
                 PROVE  e < first
      OBVIOUS
    <2> USE DEF SourceInv, SourceTypeOK
    <2>1. CASE PositionToStart
      <3>1. phase = "position"
        BY <2>1 DEF PositionToStart, ResumeAfterCursor, ResumeAtClosest,
                    FallBackToTail, StartAtTail, StandOn
      <3>2. lastAcked = cursorFile
        BY <3>1 DEF LifeCycle
      <3>3. StandOn(lastAcked)
        BY <2>1, <3>2 DEF PositionToStart, ResumeAfterCursor, ResumeAtClosest,
                          FallBackToTail, StartAtTail
      <3>4. e \in (lastAcked + 1) .. lastAcked
        BY <3>3 DEF StandOn
      <3> QED BY <3>4
    <2>2. CASE DrainNext
      <3>1. e \in (pos + 1) .. (After(pos) - 1)
        BY <2>2 DEF DrainNext
      <3> QED BY <3>1 DEF After
    <2> QED BY <2>1, <2>2, OnlyTwoPassOver
  <1> QED BY <1>1, SourceInvariant, PTL DEF SourceSpec, RetainedEntriesAreRead
=============================================================================
