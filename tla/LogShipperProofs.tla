-------------------------- MODULE LogShipperProofs --------------------------
(***************************************************************************)
(* For every batch size, byte cap, size limit of the sink and backoff: the *)
(* shipper drives the source as its contract allows, the saved cursor      *)
(* covers only entries that are accounted for, and the whole implements    *)
(* the at-least-once log.                                                  *)
(***************************************************************************)
EXTENDS LogShipper, JournaldSourceProofs

USE ShipperAssumption DEF ShipperAssumption

LEMMA BatchSizeIsPositive == BatchSize \in Nat /\ BatchSize >= 1
  BY SourceAssumption DEF SourceAssumption

-----------------------------------------------------------------------------
(* The shipper is a legal caller of the source. *)

LEMMA StepDrivesSource == [Next]_vars => [SourceNext]_sourceVars
  <1> SUFFICES ASSUME [Next]_vars PROVE [SourceNext]_sourceVars
    OBVIOUS
  <1>1. CASE UNCHANGED vars
    BY <1>1 DEF vars
  <1>2. CASE JournalStep
    BY <1>2 DEF SourceNext
  <1>3. CASE Start
    BY <1>3 DEF Start, SourceNext
  <1>4. CASE Interrupt \/ BackoffOver
    BY <1>4 DEF Interrupt, BackoffOver
  <1>5. CASE Stop \/ Crash
    BY <1>5 DEF Stop, Crash, GoDown, SourceNext
  <1>6. CASE Fail
    BY <1>6 DEF Fail, SourceNext
  <1>7. CASE CallPeek \/ Peek
    BY <1>7 DEF CallPeek, Peek, SourceNext
  <1>8. CASE HandleReply
    BY <1>8 DEF HandleReply, HandleDelivered, HandleDrop, HandleSplit, HandleError, Handle
  <1>9. CASE FinishWrite \/ FinishRename
    BY <1>9 DEF FinishWrite, FinishRename, SourceNext
  <1>10. CASE Loki
    BY <1>10 DEF Loki, LokiIngests, LokiRejects, LokiRefusesSize, LokiErrors, Answer
  <1> QED
    BY <1>1, <1>2, <1>3, <1>4, <1>5, <1>6, <1>7, <1>8, <1>9, <1>10 DEF Next, Run

\* Every behaviour of the shipper is one of the source's specification, so
\* the theorems about the source hold of the whole.
THEOREM ShipperDrivesSource == Spec => DrivesSource
  <1>1. Init => SourceInit
    BY DEF Init
  <1> QED BY <1>1, StepDrivesSource, PTL DEF Spec, SourceSpec, DrivesSource

\* The invariant of the source, under the shipper.
THEOREM SourceInvariantHolds == Spec => []SourceInv
  BY ShipperDrivesSource, SourceInvariant DEF DrivesSource

\* What the source promises of its steps holds of it under the shipper, which
\* drops it at any of its awaits: batches only grow, the saved cursor never moves
\* back, and no restart passes over an entry the journal still holds while it
\* holds the saved one.
THEOREM SourcePromisesHold == Spec => /\ TopUpOnlyAppends
                                      /\ CursorNeverRegresses
                                      /\ RetainedEntriesAreRead
  BY ShipperDrivesSource, BatchOnlyGrows, CursorIsMonotone, RetainedAreRead
     DEF DrivesSource

-----------------------------------------------------------------------------
(* Lemmas about slices. *)

\* A batch with entries left yields a slice of at least one of them.
LEMMA SliceWithin ==
    ASSUME batch \in Seq(Nat), sent \in Nat, chunk \in Nat, chunk >= 1, sent < Len(batch)
    PROVE  /\ SliceLen \in Nat
           /\ 1 <= SliceLen /\ SliceLen <= chunk
           /\ sent + SliceLen <= Len(batch)
           /\ SliceIndices \subseteq 1 .. Len(batch)
           /\ Slice \subseteq Range(batch)
  <1>1. /\ SliceLen \in Nat
        /\ 1 <= SliceLen /\ SliceLen <= chunk
        /\ sent + SliceLen <= Len(batch)
    BY DEF SliceLen, Lesser
  <1>2. SliceIndices \subseteq 1 .. Len(batch)
    BY <1>1 DEF SliceIndices
  <1>3. DOMAIN batch = 1 .. Len(batch)
    OBVIOUS
  <1>4. Slice \subseteq Range(batch)
    BY <1>2, <1>3 DEF Slice, Range
  <1> QED BY <1>1, <1>2, <1>4

\* The entries of a batch are entries of the journal.
LEMMA BatchOfJournal ==
    ASSUME SourceTypeOK, BatchInOrder
    PROVE  Range(batch) \subseteq 1 .. Written
  <1>1. ASSUME NEW i \in 1 .. Len(batch)
        PROVE  batch[i] \in 1 .. Written
    <2>1. batch[i] \in Nat /\ lastAcked \in Nat /\ pos \in 0 .. Len(journal)
      BY DEF SourceTypeOK
    <2> QED BY <2>1 DEF BatchInOrder, Written
  <1>2. DOMAIN batch = 1 .. Len(batch)
    BY DEF SourceTypeOK
  <1> QED BY <1>1, <1>2 DEF Range

-----------------------------------------------------------------------------
(* What peek_batch does to a batch that is partly sent. *)

LEMMA PushIsNotEmpty ==
    ASSUME NEW s \in Seq(Nat), NEW e \in Nat
    PROVE  Append(s, e) # <<>>
  OBVIOUS

\* peek_batch never disturbs what the batch already holds, and never returns
\* an empty batch: the contract on which the prefix count rests.
LEMMA PeekKeepsPrefix ==
    ASSUME SourceInv, PcMatchesPhase, PeekProgress
    PROVE  /\ Len(batch') >= Len(batch)
           /\ \A i \in 1 .. Len(batch) : batch'[i] = batch[i]
           /\ phase' \in {"catchup", "await", "coalesce", "refill", "topup", "idle"}
           /\ phase' \in {"coalesce", "refill", "topup", "idle"} => batch' # <<>>
           /\ passed \subseteq passed'
           /\ UNCHANGED <<journal, cursorFile, tmpFile, lastAcked>>
  <1> USE DEF SourceInv, SourceTypeOK
  <1>1. ASSUME NEW p \in lastAcked .. Written, StandOn(p)
        PROVE  /\ UNCHANGED <<batch, journal, cursorFile, tmpFile, lastAcked>>
               /\ phase' = "catchup"
               /\ passed \subseteq passed'
    BY <1>1 DEF StandOn, journalVars, disk
  <1>2. ASSUME NEW e \in 1 .. Len(journal), Taken(e)
        PROVE  /\ Len(batch') >= Len(batch)
               /\ \A i \in 1 .. Len(batch) : batch'[i] = batch[i]
               /\ \/ phase' = phase /\ batch' # <<>>
                  \/ EndDrain /\ UNCHANGED batch /\ batch # <<>>
               /\ passed \subseteq passed'
               /\ UNCHANGED <<journal, cursorFile, tmpFile, lastAcked>>
    <2>1. /\ passed \subseteq passed'
          /\ UNCHANGED <<journal, cursorFile, tmpFile, lastAcked>>
      BY <1>2 DEF Taken, journalVars, disk
    <2>2. CASE Push(e) /\ UNCHANGED phase
      <3>1. /\ batch' = Append(batch, e)
            /\ Len(batch') = Len(batch) + 1
            /\ \A i \in 1 .. Len(batch) : batch'[i] = batch[i]
        BY <2>2 DEF Push
      <3>2. batch' # <<>>
        BY <3>1, PushIsNotEmpty
      <3> QED BY <2>1, <2>2, <3>1, <3>2
    <2>3. CASE ~Fits(e) /\ EndDrain /\ UNCHANGED batch
      <3>1. batch # <<>>
        BY <2>3 DEF Fits
      <3> QED BY <2>1, <2>3, <3>1
    <2> QED BY <1>2, <2>2, <2>3 DEF Taken, AdmitOrPark
  <1>3. CASE PositionToStart
    <2>1. PICK p \in lastAcked .. Written : StandOn(p)
      BY <1>3, PositionsForward
    <2> QED BY <1>1, <2>1
  <1>4. CASE DrainParked \/ DrainNext
    <2>1. PICK e \in 1 .. Len(journal) : Taken(e)
      BY <1>4, DrainTakes
    <2>2. phase \in {"catchup", "refill", "topup"}
      BY <2>1 DEF Taken, Draining
    <2>3. CASE phase' = phase /\ batch' # <<>>
      BY <1>2, <2>1, <2>2, <2>3
    <2>4. CASE EndDrain /\ UNCHANGED batch /\ batch # <<>>
      <3>1. phase' \in {"idle", "coalesce"}
        BY <2>4 DEF EndDrain
      <3> QED BY <1>2, <2>1, <2>4, <3>1
    <2> QED BY <1>2, <2>1, <2>3, <2>4
  <1>5. CASE DrainEnds
    <2>1. UNCHANGED <<batch, journal, cursorFile, tmpFile, lastAcked, passed>>
      BY <1>5 DEF DrainEnds, journalVars, memory, disk
    <2>2. /\ phase' \in {"idle", "await", "coalesce"}
          /\ phase' # "await" => batch # <<>>
      BY <1>5 DEF DrainEnds, Draining, EndDrain, PcMatchesPhase
    <2> QED BY <2>1, <2>2
  <1>6. CASE AwaitWakeup
    <2>1. UNCHANGED <<batch, journal, cursorFile, tmpFile, lastAcked, passed>>
      BY <1>6 DEF AwaitWakeup, Wakeup, memory, disk
    <2>2. phase' = "catchup"
      BY <1>6, Zenon DEF AwaitWakeup, Wakeup
    <2> QED BY <2>1, <2>2
  <1>8. CASE CoalesceWakeup
    <2>1. UNCHANGED <<batch, journal, cursorFile, tmpFile, lastAcked, passed>>
      BY <1>8 DEF CoalesceWakeup, Wakeup, memory, disk
    <2>2. phase' = "refill" /\ phase = "coalesce"
      BY <1>8, Zenon DEF CoalesceWakeup, Wakeup
    <2> QED BY <2>1, <2>2 DEF PcMatchesPhase
  <1>7. CASE CoalesceEnds
    <2>1. UNCHANGED <<batch, journal, cursorFile, tmpFile, lastAcked, passed>>
      BY <1>7 DEF CoalesceEnds, journalVars, memory, disk
    <2>2. phase' = "idle" /\ batch # <<>>
      BY <1>7 DEF CoalesceEnds, PcMatchesPhase
    <2> QED BY <2>1, <2>2
  <1> QED BY <1>3, <1>4, <1>5, <1>6, <1>7, <1>8 DEF PeekProgress

-----------------------------------------------------------------------------
(* Type correctness. *)

\* The journal only grows.
LEMMA WrittenGrows ==
    ASSUME SourceInv, [SourceNext]_sourceVars
    PROVE  Written \in Nat /\ Written' \in Nat /\ Written <= Written'
  <1> USE DEF SourceInv, SourceTypeOK, Written
  <1>1. CASE JournalStep
    BY <1>1 DEF JournalStep, JournalNext, Vacuum, Log
  <1>2. CASE ~JournalStep
    <2>1. journal' = journal
      BY <1>2 DEF SourceNext, sourceVars, journalVars, Open, Close, SourceFails, PeekFresh,
         PeekInFlight, PeekProgress, PositionToStart, ResumeAfterCursor, ResumeAtClosest,
         FallBackToTail, StartAtTail, StandOn, DrainParked, DrainNext, DrainEnds, AwaitWakeup,
         CoalesceWakeup, Wakeup, CoalesceEnds, AckWrite, AckRename
    <2> QED BY <2>1
  <1> QED BY <1>1, <1>2

LEMMA ShipperTypeStep ==
    ASSUME SourceInv, TypeOK, SentMatchesPc, PcMatchesPhase, [Next]_vars
    PROVE  TypeOK'
  <1>w. Written \in Nat /\ Written' \in Nat /\ 1 .. Written \subseteq 1 .. Written'
    BY WrittenGrows, StepDrivesSource
  <1>i. interrupted' \in BOOLEAN
    BY DEF TypeOK, Next, Run, vars, shipperVars, Start, Interrupt, Stop, Crash, GoDown,
           Fail, BackoffOver, CallPeek, Peek, HandleReply, HandleDelivered, HandleDrop,
           HandleSplit, HandleError, Handle, FinishWrite, FinishRename, Loki, LokiIngests,
           LokiRejects, LokiRefusesSize, LokiErrors, Answer
  <1> USE DEF TypeOK, Pcs, Replies
  <1>1. CASE UNCHANGED shipperVars
    BY <1>1, <1>w DEF shipperVars, progress, history
  <1>2. CASE Start \/ Interrupt \/ BackoffOver \/ CallPeek \/ Peek
    <2>1. UNCHANGED <<progress, backoff, reply, history>> /\ pc' \in Pcs
      BY <1>2 DEF Start, Interrupt, BackoffOver, CallPeek, Peek
    <2> QED BY <1>i, <1>w, <2>1 DEF progress, history
  <1>3. CASE GoDown
    <2>1. /\ sent' = 0 /\ chunk' = BatchSize /\ backoff' = 0 /\ reply' = "none"
          /\ pc' = "down"
          /\ answered' = {}
          /\ UNCHANGED <<settled, dropped>>
      BY <1>3 DEF GoDown, LocalsReset, NoChunk
    <2> QED BY <1>i, <1>w, <2>1, BatchSizeIsPositive
  <1>4. CASE Fail
    <2>1. /\ sent' = 0 /\ chunk' = BatchSize /\ backoff' = 0 /\ reply' = "none"
          /\ pc' = "failed"
          /\ UNCHANGED history
      BY <1>4 DEF Fail, LocalsReset, NoChunk
    <2> QED BY <1>i, <1>w, <2>1, BatchSizeIsPositive DEF history
  <1>s. pc = "sending" => /\ SliceLen \in Nat /\ 1 <= SliceLen
                          /\ Slice \subseteq 1 .. Written
    <2> SUFFICES ASSUME pc = "sending"
                 PROVE  SliceLen \in Nat /\ 1 <= SliceLen /\ Slice \subseteq 1 .. Written
      OBVIOUS
    <2>1. batch \in Seq(Nat) /\ sent < Len(batch)
      BY DEF SourceInv, SourceTypeOK, SentMatchesPc, PcMatchesPhase
    <2>2. Range(batch) \subseteq 1 .. Written
      BY BatchOfJournal DEF SourceInv
    <2> QED BY <2>1, <2>2, SliceWithin DEF SentMatchesPc
  <1>5. CASE Loki
    <2>1. /\ pc = "sending"
          /\ reply' \in {"ok", "rejected", "tooLarge", "error"}
          /\ settled \subseteq settled' /\ settled' \subseteq settled \cup Slice
          /\ UNCHANGED <<pc, progress, backoff, dropped, answered>>
      BY <1>5 DEF Loki, LokiIngests, LokiRejects, LokiRefusesSize, LokiErrors, Answer
    <2> QED BY <1>i, <1>w, <1>s, <2>1 DEF progress
  <1>6. CASE HandleReply
    <2>1. pc = "sending" /\ reply' = "none" /\ UNCHANGED settled
      BY <1>6 DEF HandleReply, HandleDelivered, HandleDrop, HandleSplit, HandleError, Handle
    <2>2. /\ dropped' \subseteq dropped \cup Slice
          /\ answered' \subseteq answered \cup Slice
          /\ pc' \in {"ack", "loop", "backoff"}
      BY <1>6 DEF HandleReply, HandleDelivered, HandleDrop, HandleSplit, HandleError, Advance
    <2>3. sent' \in Nat
      BY <1>6, <1>s, <2>1 DEF HandleReply, HandleDelivered, HandleDrop, HandleSplit,
                        HandleError, Advance, progress
    <2>4. chunk' \in Nat
      BY <1>6, <1>s, <2>1 DEF HandleReply, HandleDelivered, HandleDrop, HandleSplit,
                        HandleError, progress
    <2>5. backoff' \in Nat
      BY <1>6 DEF HandleReply, HandleDelivered, HandleDrop, HandleSplit, HandleError,
                  NextBackoff, Lesser
    <2> QED BY <1>i, <1>w, <1>s, <2>1, <2>2, <2>3, <2>4, <2>5
  <1>7. CASE FinishRename
    <2>1. /\ sent' = 0 /\ chunk' = BatchSize /\ pc' = "loop"
          /\ UNCHANGED <<backoff, reply, history>>
      BY <1>7 DEF FinishRename, NoChunk
    <2> QED BY <1>i, <1>w, <2>1, BatchSizeIsPositive DEF history
  <1> QED
    BY <1>1, <1>2, <1>3, <1>4, <1>5, <1>6, <1>7
       DEF Next, Run, vars, Stop, Crash, FinishWrite

-----------------------------------------------------------------------------
(* The invariant of the shipper is preserved. *)

LEMMA SliceStable ==
    UNCHANGED <<batch, sent, chunk>> => Slice' = Slice /\ SliceLen' = SliceLen
  BY DEF Slice, SliceIndices, SliceLen, Lesser

\* What every step keeps, whatever else it does, when the batch, the cursor
\* and the prefix count stay: settled, dropped and passed only grow.
LEMMA PrefixAndCursorStay ==
    ASSUME SentPrefixAccounted, CursorCoversOnlyAccounted,
           UNCHANGED <<batch, sent, cursorFile>>,
           settled \subseteq settled', dropped \subseteq dropped', passed \subseteq passed'
    PROVE  SentPrefixAccounted' /\ CursorCoversOnlyAccounted'
  BY DEF SentPrefixAccounted, CursorCoversOnlyAccounted, Accounted

\* The end of a process forgets the batch and the prefix count together.
LEMMA ForgettingIsSafe ==
    ASSUME CursorCoversOnlyAccounted, batch' = <<>>, sent' = 0, chunk' = NoChunk,
           reply' = "none", UNCHANGED <<cursorFile, settled, dropped, passed>>,
           pc' # "ack"
    PROVE  SentMatchesPc' /\ ReplyIsTrue' /\ SentPrefixAccounted' /\ CursorCoversOnlyAccounted'
  <1>1. Len(<<>>) = 0
    OBVIOUS
  <1>2. SentMatchesPc' /\ ReplyIsTrue' /\ SentPrefixAccounted'
    BY <1>1, BatchSizeIsPositive
       DEF SentMatchesPc, ReplyIsTrue, SentPrefixAccounted, NoChunk
  <1>3. CursorCoversOnlyAccounted'
    BY DEF CursorCoversOnlyAccounted, Accounted
  <1> QED BY <1>2, <1>3

\* Advancing the prefix count over a slice that is settled or dropped.
LEMMA AdvanceIsSafe ==
    ASSUME SourceInv, ShipperInv, pc = "sending",
           Advance(sent + SliceLen), reply' = "none",
           UNCHANGED <<sourceVars, chunk, settled>>, dropped \subseteq dropped',
           Slice \subseteq settled' \cup dropped'
    PROVE  /\ PcMatchesPhase' /\ SentMatchesPc' /\ ReplyIsTrue'
           /\ SentPrefixAccounted' /\ CursorCoversOnlyAccounted'
  <1> USE DEF ShipperInv
  <1>1. /\ batch \in Seq(Nat) /\ sent \in Nat /\ chunk \in Nat
        /\ batch # <<>> /\ sent < Len(batch) /\ chunk >= 1 /\ phase = "idle"
    BY DEF SourceInv, SourceTypeOK, TypeOK, PcMatchesPhase, SentMatchesPc
  <1>2. /\ UNCHANGED <<batch, cursorFile, phase, passed>>
        /\ sent' = sent + SliceLen
        /\ pc' = IF sent' >= Len(batch) THEN "ack" ELSE "loop"
    BY DEF sourceVars, memory, disk, Advance
  <1>3. /\ SliceLen \in Nat /\ 1 <= SliceLen
        /\ sent + SliceLen <= Len(batch)
    BY <1>1, SliceWithin
  <1>4. PcMatchesPhase'
    BY <1>1, <1>2 DEF PcMatchesPhase
  <1>5. SentMatchesPc' /\ ReplyIsTrue'
    BY <1>1, <1>2, <1>3 DEF SentMatchesPc, ReplyIsTrue
  <1>6. SentPrefixAccounted'
    <2> SUFFICES ASSUME NEW i \in 1 .. (sent + SliceLen)
                 PROVE  batch[i] \in settled' \cup dropped'
      BY <1>1, <1>2, <1>3 DEF SentPrefixAccounted
    <2>1. CASE i \in 1 .. sent
      BY <2>1 DEF SentPrefixAccounted
    <2>2. CASE i \in SliceIndices
      BY <2>2 DEF Slice
    <2> QED BY <1>1, <1>3, <2>1, <2>2 DEF SliceIndices
  <1>7. CursorCoversOnlyAccounted'
    BY <1>2 DEF CursorCoversOnlyAccounted, Accounted
  <1> QED BY <1>4, <1>5, <1>6, <1>7

LEMMA ShipperInvStep ==
    ASSUME SourceInv, ShipperInv, [Next]_vars
    PROVE  /\ PcMatchesPhase' /\ SentMatchesPc' /\ ReplyIsTrue'
           /\ SentPrefixAccounted' /\ CursorCoversOnlyAccounted'
  <1> DEFINE Goal == /\ PcMatchesPhase' /\ SentMatchesPc' /\ ReplyIsTrue'
                     /\ SentPrefixAccounted' /\ CursorCoversOnlyAccounted'
  <1> USE DEF ShipperInv
  <1>1. CASE UNCHANGED vars \/ (JournalStep /\ UNCHANGED shipperVars) \/ Interrupt
    <2>1. UNCHANGED <<pc, sent, chunk, reply, settled, dropped, phase, batch,
                      cursorFile, passed>>
      BY <1>1 DEF vars, shipperVars, sourceVars, progress, history, memory, disk,
                  JournalStep, Interrupt
    <2>2. Slice' = Slice
      BY <2>1, SliceStable
    <2>3. PcMatchesPhase' /\ SentMatchesPc' /\ ReplyIsTrue'
      BY <2>1, <2>2 DEF PcMatchesPhase, SentMatchesPc, ReplyIsTrue
    <2> QED BY <2>1, <2>3, PrefixAndCursorStay
  <1>2. CASE Start
    <2>1. /\ phase = "off" /\ phase' = "idle" /\ pc' = "loop"
          /\ UNCHANGED <<sent, chunk, reply, settled, dropped, batch, cursorFile, passed>>
      BY <1>2 DEF Start, Open, progress, history, disk
    <2>2. batch = <<>>
      BY <2>1 DEF SourceInv, LifeCycle, MemoryEmpty
    <2>3. reply = "none"
      BY <2>1 DEF ReplyIsTrue, PcMatchesPhase
    <2>4. PcMatchesPhase' /\ SentMatchesPc' /\ ReplyIsTrue'
      BY <2>1, <2>2, <2>3 DEF PcMatchesPhase, SentMatchesPc, ReplyIsTrue
    <2> QED BY <2>1, <2>4, PrefixAndCursorStay
  <1>3. CASE GoDown
    <2>1. /\ batch' = <<>> /\ sent' = 0 /\ chunk' = NoChunk /\ reply' = "none"
          /\ phase' = "off" /\ pc' = "down"
          /\ UNCHANGED <<cursorFile, settled, dropped, passed>>
      BY <1>3 DEF GoDown, Close, DropMemory, LocalsReset, disk
    <2>2. PcMatchesPhase'
      BY <2>1 DEF PcMatchesPhase
    <2> QED BY <2>1, <2>2, ForgettingIsSafe
  <1>4. CASE Fail
    <2>1. /\ batch' = <<>> /\ sent' = 0 /\ chunk' = NoChunk /\ reply' = "none"
          /\ phase' = "failed" /\ pc' = "failed"
          /\ UNCHANGED <<cursorFile, settled, dropped, passed>>
      BY <1>4 DEF Fail, SourceFails, DropMemory, LocalsReset, disk, history
    <2>2. PcMatchesPhase'
      BY <2>1 DEF PcMatchesPhase
    <2> QED BY <2>1, <2>2, ForgettingIsSafe
  <1>5. CASE BackoffOver
    <2>1. /\ pc = "backoff" /\ pc' = "loop"
          /\ UNCHANGED <<sent, chunk, reply, settled, dropped, phase, batch,
                         cursorFile, passed>>
      BY <1>5 DEF BackoffOver, sourceVars, progress, history, memory, disk
    <2>2. PcMatchesPhase' /\ SentMatchesPc' /\ ReplyIsTrue'
      BY <2>1 DEF PcMatchesPhase, SentMatchesPc, ReplyIsTrue
    <2> QED BY <2>1, <2>2, PrefixAndCursorStay
  <1>6. CASE CallPeek
    <2>1. /\ pc = "loop" /\ pc' = "peek"
          /\ phase' \in {"catchup", "position", "topup"}
          /\ phase' = "topup" => batch # <<>>
          /\ UNCHANGED <<sent, chunk, reply, settled, dropped, batch, cursorFile, passed>>
      BY <1>6 DEF CallPeek, PeekFresh, PeekInFlight, progress, history, memory, disk
    <2>2. PcMatchesPhase' /\ SentMatchesPc' /\ ReplyIsTrue'
      BY <2>1 DEF PcMatchesPhase, SentMatchesPc, ReplyIsTrue
    <2> QED BY <2>1, <2>2, PrefixAndCursorStay
  <1>7. CASE Peek
    <2>1. /\ pc = "peek" /\ pc' = IF phase' = "idle" THEN "sending" ELSE "peek"
          /\ PeekProgress
          /\ UNCHANGED <<sent, chunk, reply, settled, dropped>>
      BY <1>7 DEF Peek, progress, history
    <2>2. /\ Len(batch') >= Len(batch)
          /\ \A i \in 1 .. Len(batch) : batch'[i] = batch[i]
          /\ phase' \in {"catchup", "await", "coalesce", "refill", "topup", "idle"}
          /\ phase' \in {"coalesce", "refill", "topup", "idle"} => batch' # <<>>
          /\ passed \subseteq passed'
          /\ cursorFile' = cursorFile
      BY <2>1, PeekKeepsPrefix
    <2>3. PcMatchesPhase'
      BY <2>1, <2>2 DEF PcMatchesPhase
    <2>4. reply = "none" /\ reply' = "none"
      BY <2>1 DEF ReplyIsTrue
    <2>5. batch \in Seq(Nat) /\ batch' \in Seq(Nat) /\ sent \in Nat
      BY TypeStep, StepDrivesSource DEF SourceInv, SourceTypeOK, TypeOK
    <2>6. SentMatchesPc'
      BY <2>1, <2>2, <2>5 DEF SentMatchesPc
    <2>7. SentPrefixAccounted'
      <3>1. /\ sent <= Len(batch) /\ Len(batch) \in Nat /\ Len(batch') \in Nat
            /\ \A i \in 1 .. sent : i \in 1 .. Len(batch)
        BY <2>5 DEF SentPrefixAccounted
      <3>2. \A i \in 1 .. sent : batch'[i] \in settled \cup dropped
        BY <2>2, <3>1 DEF SentPrefixAccounted
      <3> QED BY <2>1, <2>2, <2>5, <3>1, <3>2 DEF SentPrefixAccounted
    <2>8. CursorCoversOnlyAccounted'
      BY <2>1, <2>2 DEF CursorCoversOnlyAccounted, Accounted
    <2> QED BY <2>3, <2>4, <2>6, <2>7, <2>8 DEF ReplyIsTrue
  <1>8. CASE Loki
    <2>1. /\ pc = "sending"
          /\ settled \subseteq settled'
          /\ reply' \in {"ok", "rejected"} => Slice \subseteq settled'
          /\ UNCHANGED <<pc, sent, chunk, dropped, phase, batch, cursorFile, passed>>
      BY <1>8 DEF Loki, LokiIngests, LokiRejects, LokiRefusesSize, LokiErrors, Answer,
                  sourceVars, progress, memory, disk
    <2>2. Slice' = Slice
      BY <2>1, SliceStable
    <2>3. PcMatchesPhase' /\ SentMatchesPc' /\ ReplyIsTrue'
      BY <2>1, <2>2 DEF PcMatchesPhase, SentMatchesPc, ReplyIsTrue
    <2> QED BY <2>1, <2>3, PrefixAndCursorStay
  <1>9. CASE HandleDelivered
    <2>1. /\ pc = "sending" /\ reply \in {"ok", "rejected"} /\ reply' = "none"
          /\ Advance(sent + SliceLen)
          /\ UNCHANGED <<sourceVars, chunk, settled>> /\ dropped' = dropped
      BY <1>9 DEF HandleDelivered, Handle
    <2>2. Slice \subseteq settled' \cup dropped'
      BY <2>1 DEF ReplyIsTrue
    <2> QED BY <2>1, <2>2, AdvanceIsSafe
  <1>10. CASE HandleDrop
    <2>1. /\ pc = "sending" /\ reply' = "none"
          /\ SliceLen = 1 /\ Advance(sent + 1)
          /\ UNCHANGED <<sourceVars, chunk, settled>> /\ dropped' = dropped \cup Slice
      BY <1>10 DEF HandleDrop, Handle
    <2> QED BY <2>1, AdvanceIsSafe
  <1>11. CASE HandleSplit
    <2>1. /\ pc = "sending" /\ reply' = "none" /\ pc' = "loop"
          /\ SliceLen # 1 /\ chunk' = SliceLen \div 2
          /\ UNCHANGED <<sent, settled, dropped, phase, batch, cursorFile, passed>>
      BY <1>11 DEF HandleSplit, Handle, sourceVars, memory, disk
    <2>2. chunk' >= 1
      <3>1. /\ batch \in Seq(Nat) /\ sent \in Nat /\ chunk \in Nat
            /\ sent < Len(batch) /\ chunk >= 1
        BY <2>1 DEF SourceInv, SourceTypeOK, TypeOK, PcMatchesPhase, SentMatchesPc
      <3>2. SliceLen \in Nat /\ SliceLen >= 2
        BY <2>1, <3>1, SliceWithin
      <3> QED BY <2>1, <3>2
    <2>3. PcMatchesPhase' /\ SentMatchesPc' /\ ReplyIsTrue'
      BY <2>1, <2>2 DEF PcMatchesPhase, SentMatchesPc, ReplyIsTrue
    <2> QED BY <2>1, <2>3, PrefixAndCursorStay
  <1>12. CASE HandleError
    <2>1. /\ pc = "sending" /\ reply' = "none" /\ pc' = "backoff"
          /\ UNCHANGED <<sent, chunk, settled, dropped, phase, batch, cursorFile, passed>>
      BY <1>12 DEF HandleError, Handle, sourceVars, progress, memory, disk
    <2>2. batch # <<>> /\ PcMatchesPhase'
      BY <2>1 DEF PcMatchesPhase
    <2>3. SentMatchesPc'
      BY <2>1, <2>2 DEF SentMatchesPc
    <2>4. ReplyIsTrue'
      BY <2>1 DEF ReplyIsTrue
    <2> QED BY <2>1, <2>2, <2>3, <2>4, PrefixAndCursorStay
  <1>13. CASE FinishWrite
    <2>1. /\ pc = "ack" /\ phase' = "persist"
          /\ UNCHANGED <<pc, sent, chunk, reply, settled, dropped, batch, cursorFile, passed>>
      BY <1>13 DEF FinishWrite, AckWrite, shipperVars, progress, history, memory
    <2>2. PcMatchesPhase' /\ SentMatchesPc' /\ ReplyIsTrue'
      BY <2>1 DEF PcMatchesPhase, SentMatchesPc, ReplyIsTrue
    <2> QED BY <2>1, <2>2, PrefixAndCursorStay
  <1>14. CASE FinishRename
    <2>1. /\ pc = "ack" /\ phase = "persist" /\ phase' = "idle" /\ pc' = "loop"
          /\ batch' = <<>> /\ sent' = 0 /\ chunk' = NoChunk
          /\ cursorFile' = tmpFile
          /\ UNCHANGED <<reply, settled, dropped, passed>>
      BY <1>14 DEF FinishRename, AckRename, history
    <2>2. reply = "none"
      BY <2>1 DEF ReplyIsTrue
    <2>3. Len(<<>>) = 0
      OBVIOUS
    <2>4. PcMatchesPhase' /\ SentMatchesPc' /\ ReplyIsTrue' /\ SentPrefixAccounted'
      BY <2>1, <2>2, <2>3, BatchSizeIsPositive
         DEF PcMatchesPhase, SentMatchesPc, ReplyIsTrue, SentPrefixAccounted, NoChunk
    <2>5. CursorCoversOnlyAccounted'
      \* The batch is all sent; what lies before it was covered already.
      <3>1. /\ batch # <<>> /\ tmpFile = batch[Len(batch)] /\ sent = Len(batch)
            /\ positioned /\ lastAcked = cursorFile
        BY <2>1 DEF SourceInv, LifeCycle, PcMatchesPhase, SentMatchesPc
      <3>2. /\ Len(batch) \in 1 .. Len(batch) /\ DOMAIN batch = 1 .. Len(batch)
            /\ tmpFile \in Nat /\ cursorFile \in Nat /\ pos \in Nat
        BY <3>1 DEF SourceInv, SourceTypeOK
      <3>3. Range(batch) \subseteq settled \cup dropped
        BY <3>1, <3>2 DEF SentPrefixAccounted, Range
      <3>4. tmpFile <= pos /\ (parked # NoEntry => tmpFile < parked)
        BY <3>1, <3>2 DEF SourceInv, BatchInOrder
      <3>5. ASSUME NEW x \in 1 .. tmpFile
            PROVE  x \in Accounted
        <4>1. CASE x <= cursorFile
          BY <3>2, <4>1 DEF CursorCoversOnlyAccounted
        <4>2. CASE x > cursorFile
          <5>1. x \in (lastAcked + 1) .. pos
            BY <3>1, <3>2, <3>4, <4>2
          <5>2. x # parked
            BY <3>2, <3>4 DEF NoEntry, SourceInv, SourceTypeOK
          <5> QED BY <3>1, <3>3, <5>1, <5>2 DEF SourceInv, NothingBetween, Accounted
        <4> QED BY <3>2, <4>1, <4>2
      <3>6. Accounted' = Accounted
        BY <2>1 DEF Accounted
      <3> QED BY <2>1, <3>5, <3>6 DEF CursorCoversOnlyAccounted
    <2> QED BY <2>4, <2>5
  <1> QED
    BY <1>1, <1>2, <1>3, <1>4, <1>5, <1>6, <1>7, <1>8, <1>9, <1>10, <1>11, <1>12,
       <1>13, <1>14
       DEF Next, Run, HandleReply, Stop, Crash

-----------------------------------------------------------------------------
(* The theorems. *)

\* ShipperInv, together with the invariant of the source, is inductive.
THEOREM ShipperInvariant == Spec => []ShipperInv
  <1>1. Init => ShipperInv
    <2> SUFFICES ASSUME Init PROVE ShipperInv
      OBVIOUS
    <2>1. /\ pc = "down" /\ sent = 0 /\ chunk = BatchSize /\ backoff = 0 /\ reply = "none"
          /\ settled = {} /\ dropped = {} /\ answered = {}
          /\ phase = "off" /\ batch = <<>> /\ cursorFile = 0
      BY DEF Init, SourceInit, MemoryEmpty, NoChunk, NoEntry
    <2>2. interrupted \in BOOLEAN
      BY DEF Init
    <2>3. TypeOK
      BY <2>1, <2>2, BatchSizeIsPositive DEF TypeOK, Pcs, Replies
    <2>4. PcMatchesPhase /\ SentMatchesPc /\ ReplyIsTrue
      BY <2>1, BatchSizeIsPositive DEF PcMatchesPhase, SentMatchesPc, ReplyIsTrue
    <2>5. SentPrefixAccounted /\ CursorCoversOnlyAccounted
      BY <2>1 DEF SentPrefixAccounted, CursorCoversOnlyAccounted
    <2> QED BY <2>3, <2>4, <2>5 DEF ShipperInv
  <1>2. SourceInv /\ ShipperInv /\ [Next]_vars => ShipperInv'
    BY ShipperInvStep, ShipperTypeStep DEF ShipperInv
  <1> QED BY <1>1, <1>2, SourceInvariantHolds, PTL DEF Spec

\* At-least-once delivery: whatever the saved cursor covers was ingested or
\* refused by Loki, given up as too large, or never read, so a process that
\* resumes after it loses nothing.
THEOREM AtLeastOnce == Spec => []CursorCoversOnlyAccounted
  <1>1. ShipperInv => CursorCoversOnlyAccounted
    BY DEF ShipperInv
  <1> QED BY <1>1, ShipperInvariant, PTL

\* The prefix count stays true over top-ups, splits, retries and restarts.
THEOREM PrefixCountIsTrue == Spec => []SentPrefixAccounted
  <1>1. ShipperInv => SentPrefixAccounted
    BY DEF ShipperInv
  <1> QED BY <1>1, ShipperInvariant, PTL

\* The branch of run for a batch with nothing left to send is never taken, and
\* halving never reaches an empty chunk.
THEOREM AlwaysSomethingToSend == Spec => []SliceIsNotEmpty
  <1>1. SourceInv /\ ShipperInv => SliceIsNotEmpty
    <2> SUFFICES ASSUME SourceInv, ShipperInv, pc = "sending"
                 PROVE  SliceLen >= 1
      BY DEF SliceIsNotEmpty
    <2>1. /\ batch \in Seq(Nat) /\ sent \in Nat /\ chunk \in Nat
          /\ sent < Len(batch) /\ chunk >= 1
      BY DEF SourceInv, SourceTypeOK, ShipperInv, TypeOK, PcMatchesPhase, SentMatchesPc
    <2> QED BY <2>1, SliceWithin
  <1> QED BY <1>1, SourceInvariantHolds, ShipperInvariant, PTL

-----------------------------------------------------------------------------
(* Refinement. *)

\* Only the writers extend the journal, and only the rename moves the cursor.
LEMMA OtherStepsAccount ==
    ASSUME SourceInv, ShipperInv, [Next]_vars, ~FinishRename,
           ~(JournalStep /\ UNCHANGED shipperVars)
    PROVE  journal' = journal /\ cursorFile' = cursorFile /\ Accounted \subseteq Accounted'
  <1>1. ASSUME UNCHANGED <<journal, cursorFile, passed>>,
               settled \subseteq settled', dropped \subseteq dropped'
        PROVE  journal' = journal /\ cursorFile' = cursorFile /\ Accounted \subseteq Accounted'
    BY <1>1 DEF Accounted
  <1>2. CASE UNCHANGED vars \/ Interrupt \/ BackoffOver
    BY <1>1, <1>2 DEF vars, sourceVars, journalVars, disk, shipperVars, history,
                      Interrupt, BackoffOver
  <1>3. CASE Start \/ GoDown \/ Fail
    BY <1>1, <1>3 DEF Start, Open, GoDown, Close, Fail, SourceFails, journalVars, disk, history
  <1>4. CASE CallPeek
    BY <1>1, <1>4 DEF CallPeek, PeekFresh, PeekInFlight, journalVars, disk, history
  <1>5. CASE Peek
    <2>1. PeekProgress /\ UNCHANGED history
      BY <1>5 DEF Peek
    <2>2. passed \subseteq passed' /\ UNCHANGED <<journal, cursorFile>>
      BY <2>1, PeekKeepsPrefix DEF ShipperInv
    <2> QED BY <2>1, <2>2 DEF history, Accounted
  <1>6. CASE Loki
    BY <1>1, <1>6 DEF Loki, LokiIngests, LokiRejects, LokiRefusesSize, LokiErrors, Answer,
                      sourceVars, journalVars, disk
  <1>7. CASE HandleReply
    BY <1>1, <1>7 DEF HandleReply, HandleDelivered, HandleDrop, HandleSplit, HandleError,
                      Handle, sourceVars, journalVars, disk
  <1>8. CASE FinishWrite
    BY <1>1, <1>8 DEF FinishWrite, AckWrite, shipperVars, journalVars, history
  <1> QED
    BY <1>2, <1>3, <1>4, <1>5, <1>6, <1>7, <1>8 DEF Next, Run, Stop, Crash

\* Every step of the shipper is a step of the abstract log or changes nothing
\* of it.
LEMMA StepImplements ==
    ASSUME SourceInv, SourceInv', ShipperInv, ShipperInv', [Next]_vars
    PROVE  [Abstract!LogNext]_Abstract!logVars
  <1> USE DEF Abstract!LogNext, Abstract!logVars
  <1>1. Accounted' \subseteq 1 .. Written'
    BY DEF SourceInv, SourceTypeOK, ShipperInv, TypeOK, Accounted, Written
  <1>2. CASE JournalStep /\ UNCHANGED shipperVars
    <2>1. cursorFile' = cursorFile /\ Accounted' = Accounted
      BY <1>2 DEF JournalStep, disk, shipperVars, history, Accounted
    <2>2. CASE Vacuum
      BY <2>1, <2>2 DEF Vacuum, Written
    <2>3. ASSUME NEW size \in Sizes, Log(size)
          PROVE  Abstract!WriteEntry
      <3>1. Written' = Written + 1
        BY <2>3 DEF Log, Written, SourceInv, SourceTypeOK
      <3> QED BY <2>1, <3>1 DEF Abstract!WriteEntry
    <2> QED BY <1>2, <2>2, <2>3 DEF JournalStep, JournalNext
  <1>3. CASE FinishRename
    <2>1. /\ pc = "ack" /\ phase = "persist" /\ cursorFile' = tmpFile
          /\ UNCHANGED <<journal, settled, dropped, passed>>
      BY <1>3 DEF FinishRename, AckRename, journalVars, history
    <2>2. cursorFile' > cursorFile
      <3>1. tmpFile = batch[Len(batch)] /\ lastAcked = cursorFile /\ batch # <<>>
        BY <2>1 DEF SourceInv, LifeCycle
      <3>2. batch \in Seq(Nat) /\ tmpFile \in Nat /\ cursorFile \in Nat
        BY DEF SourceInv, SourceTypeOK
      <3>3. Len(batch) \in 1 .. Len(batch)
        BY <3>1, <3>2
      <3>4. lastAcked < tmpFile
        BY <3>1, <3>3 DEF SourceInv, BatchInOrder
      <3> QED BY <2>1, <3>1, <3>2, <3>4
    <2>3. Accounted' = Accounted /\ Written' = Written
      BY <2>1 DEF Accounted, Written
    <2>4. 1 .. cursorFile' \subseteq Accounted
      BY <2>3 DEF ShipperInv, CursorCoversOnlyAccounted
    <2> QED BY <2>2, <2>3, <2>4 DEF Abstract!Commit
  <1>4. CASE ~(JournalStep /\ UNCHANGED shipperVars) /\ ~FinishRename
    <2>1. journal' = journal /\ cursorFile' = cursorFile /\ Accounted \subseteq Accounted'
      BY <1>4, OtherStepsAccount
    <2>2. Written' = Written
      BY <2>1 DEF Written
    <2> QED BY <1>1, <2>1, <2>2 DEF Abstract!Account
  <1> QED BY <1>2, <1>3, <1>4

\* The shipper with its batches, chunks, retries and restarts implements the
\* at-least-once log.
THEOREM Refinement == Spec => ImplementsAtLeastOnce
  <1>1. Init => Abstract!LogInit
    BY DEF Init, SourceInit, JournalInit, Abstract!LogInit, Accounted, Written, NoEntry
  <1> QED
    BY <1>1, StepImplements, SourceInvariantHolds, ShipperInvariant, PTL
       DEF Spec, Abstract!LogSpec, ImplementsAtLeastOnce

-----------------------------------------------------------------------------
(* Answers. *)

\* The entries that are answered stay behind when the prefix grows over them.
LEMMA AnsweredAdvances ==
    ASSUME SourceInv, ShipperInv, AnsweredIsBehind, pc = "sending",
           Advance(sent + SliceLen), UNCHANGED <<batch, lastAcked>>,
           answered' = answered \cup Slice
    PROVE  AnsweredIsBehind'
  <1>1. /\ batch \in Seq(Nat) /\ sent \in Nat /\ chunk \in Nat
        /\ sent < Len(batch) /\ chunk >= 1
    BY DEF SourceInv, SourceTypeOK, ShipperInv, TypeOK, PcMatchesPhase, SentMatchesPc
  <1>2. SliceLen \in Nat /\ sent' = sent + SliceLen /\ pc' \in {"ack", "loop"}
    BY <1>1, SliceWithin DEF Advance
  <1>3. ASSUME NEW e \in answered PROVE e <= lastAcked \/ \E i \in 1 .. sent' : e = batch[i]
    <2>1. 1 .. sent \subseteq 1 .. sent'
      BY <1>1, <1>2
    <2> QED BY <1>3, <2>1 DEF AnsweredIsBehind
  <1>4. ASSUME NEW e \in Slice PROVE \E i \in 1 .. sent' : e = batch[i]
    <2>1. SliceIndices \subseteq 1 .. sent'
      BY <1>1, <1>2 DEF SliceIndices
    <2> QED BY <1>4, <2>1 DEF Slice
  <1> QED BY <1>2, <1>3, <1>4 DEF AnsweredIsBehind

\* ... and stay what they are while the batch keeps its prefix.
LEMMA AnsweredStays ==
    ASSUME AnsweredIsBehind, UNCHANGED <<sent, lastAcked, answered>>,
           \A i \in 1 .. sent : batch'[i] = batch[i],
           pc \in {"down", "failed"} <=> pc' \in {"down", "failed"}, pc' = "down" => pc = "down"
    PROVE  AnsweredIsBehind'
  BY DEF AnsweredIsBehind

LEMMA AnswerStep ==
    ASSUME SourceInv, ShipperInv, ShipperInv', AnswerInv, [Next]_vars
    PROVE  AnswerInv'
  <1> USE DEF AnswerInv
  <1>0. /\ BackoffInitial \in Nat /\ BackoffMax \in Nat /\ BackoffInitial <= BackoffMax
        /\ backoff \in Nat /\ sent \in Nat /\ lastAcked \in Nat /\ batch \in Seq(Nat)
        /\ journal \in Seq(Sizes) /\ Written = Len(journal) /\ dropped \subseteq 1 .. Written
    BY ShipperAssumption DEF SourceInv, SourceTypeOK, ShipperInv, TypeOK, Written
  <1>1. ASSUME UNCHANGED <<journal, dropped, backoff>> \/ (UNCHANGED <<journal, dropped>> /\ backoff' = 0)
        PROVE  OnlyOversizedAreDropped' /\ backoff' <= BackoffMax
    <2>1. UNCHANGED <<journal, dropped>> /\ (backoff' = backoff \/ backoff' = 0)
      BY <1>1
    <2>2. OnlyOversizedAreDropped'
      BY <2>1 DEF OnlyOversizedAreDropped
    <2>3. backoff' <= BackoffMax
      BY <1>0, <2>1
    <2> QED BY <2>2, <2>3
  <1>2. ASSUME reply' # "tooLarge" PROVE RefusalIsTrue'
    BY <1>2 DEF RefusalIsTrue
  <1>3. CASE UNCHANGED vars \/ Interrupt
    <2>1. UNCHANGED <<journal, pc, sent, chunk, reply, backoff, dropped, answered, batch, lastAcked>>
      BY <1>3 DEF vars, shipperVars, sourceVars, progress, history, memory, journalVars, Interrupt
    <2>2. RefusalIsTrue'
      BY <2>1, SliceStable DEF RefusalIsTrue, Oversized
    <2>3. AnsweredIsBehind'
      BY <2>1 DEF AnsweredIsBehind
    <2> QED BY <1>1, <2>1, <2>2, <2>3
  <1>4. CASE JournalStep /\ UNCHANGED shipperVars
    <2>1. UNCHANGED <<pc, sent, chunk, reply, backoff, dropped, answered, batch, lastAcked>>
      BY <1>4 DEF JournalStep, shipperVars, progress, history, memory
    <2>2. \A e \in 1 .. Written : journal'[e] = journal[e]
      <3>1. CASE UNCHANGED journal
        BY <3>1
      <3>2. ASSUME NEW size \in Sizes, Log(size) PROVE \A e \in 1 .. Written : journal'[e] = journal[e]
        BY <1>0, <3>2 DEF Log
      <3> QED BY <1>4, <3>1, <3>2 DEF JournalStep, JournalNext, Vacuum
    <2>3. OnlyOversizedAreDropped'
      BY <1>0, <2>1, <2>2 DEF OnlyOversizedAreDropped
    <2>4. RefusalIsTrue'
      <3> SUFFICES ASSUME reply = "tooLarge" PROVE SliceLen > 1 \/ Oversized'
        BY <2>1, SliceStable DEF RefusalIsTrue
      <3>1. pc = "sending"
        BY DEF ShipperInv, ReplyIsTrue
      <3>2. Slice \subseteq 1 .. Written
        <4>1. Range(batch) \subseteq 1 .. Written
          BY BatchOfJournal DEF SourceInv
        <4>2. chunk \in Nat /\ chunk >= 1 /\ sent < Len(batch)
          BY <3>1 DEF ShipperInv, TypeOK, PcMatchesPhase, SentMatchesPc
        <4> QED BY <1>0, <4>1, <4>2, SliceWithin
      <3>3. Slice' = Slice
        BY <2>1, SliceStable
      <3> QED BY <2>2, <3>2, <3>3 DEF RefusalIsTrue, Oversized
    <2>5. AnsweredIsBehind'
      BY <2>1 DEF AnsweredIsBehind
    <2> QED BY <2>1, <2>3, <2>4, <2>5
  <1>5. CASE Start
    <2>1. /\ pc = "down" /\ pc' = "loop" /\ UNCHANGED <<journal, dropped, backoff, reply, answered>>
      BY <1>5 DEF Start, Open, history, journalVars
    <2>2. reply' # "tooLarge"
      BY <2>1 DEF ShipperInv, ReplyIsTrue
    <2>3. AnsweredIsBehind'
      BY <2>1 DEF AnsweredIsBehind
    <2> QED BY <1>1, <1>2, <2>1, <2>2, <2>3
  <1>6. CASE GoDown
    <2>1. /\ pc' = "down" /\ answered' = {} /\ backoff' = 0 /\ reply' = "none"
          /\ UNCHANGED <<journal, dropped>>
      BY <1>6 DEF GoDown, Close, LocalsReset, journalVars
    <2>2. AnsweredIsBehind'
      BY <2>1 DEF AnsweredIsBehind
    <2> QED BY <1>1, <1>2, <2>1, <2>2
  <1>7. CASE Fail
    <2>1. /\ pc' = "failed" /\ backoff' = 0 /\ reply' = "none"
          /\ UNCHANGED <<journal, dropped>>
      BY <1>7 DEF Fail, SourceFails, LocalsReset, journalVars, history
    <2>2. AnsweredIsBehind'
      BY <2>1 DEF AnsweredIsBehind
    <2> QED BY <1>1, <1>2, <2>1, <2>2
  <1>8. CASE BackoffOver \/ CallPeek \/ FinishWrite
    <2>1. /\ pc \in {"backoff", "loop", "ack"} /\ pc' \in {"loop", "peek", "ack"}
          /\ UNCHANGED <<journal, sent, batch, lastAcked, dropped, backoff, reply, answered>>
      BY <1>8 DEF BackoffOver, CallPeek, PeekFresh, PeekInFlight, FinishWrite, AckWrite,
                  sourceVars, journalVars, memory, shipperVars, progress, history
    <2>2. reply' # "tooLarge"
      BY <2>1 DEF ShipperInv, ReplyIsTrue
    <2>3. AnsweredIsBehind'
      BY <2>1, AnsweredStays
    <2> QED BY <1>1, <1>2, <2>1, <2>2, <2>3
  <1>9. CASE Peek
    <2>1. /\ pc = "peek" /\ pc' \in {"sending", "peek"} /\ PeekProgress
          /\ UNCHANGED <<sent, dropped, backoff, reply, answered>>
      BY <1>9 DEF Peek, progress, history
    <2>2. /\ \A i \in 1 .. Len(batch) : batch'[i] = batch[i]
          /\ UNCHANGED <<journal, lastAcked>>
      BY <2>1, PeekKeepsPrefix DEF ShipperInv
    <2>3. reply' # "tooLarge"
      BY <2>1 DEF ShipperInv, ReplyIsTrue
    <2>4. 1 .. sent \subseteq 1 .. Len(batch)
      BY <1>0 DEF ShipperInv, SentPrefixAccounted
    <2>5. AnsweredIsBehind'
      BY <2>1, <2>2, <2>4, AnsweredStays
    <2> QED BY <1>1, <1>2, <2>1, <2>2, <2>3, <2>5
  <1>10. CASE Loki
    <2>1. /\ pc = "sending" /\ pc' = pc
          /\ reply' = "tooLarge" => SliceLen > 1 \/ Oversized
          /\ UNCHANGED <<journal, sent, chunk, batch, lastAcked, dropped, backoff, answered>>
      BY <1>10 DEF Loki, LokiIngests, LokiRejects, LokiRefusesSize, LokiErrors, Answer,
                   sourceVars, journalVars, memory, progress
    <2>2. RefusalIsTrue'
      BY <2>1, SliceStable DEF RefusalIsTrue, Oversized
    <2>3. AnsweredIsBehind'
      BY <2>1, AnsweredStays
    <2> QED BY <1>1, <2>1, <2>2, <2>3
  <1>11. CASE HandleDelivered
    <2>1. /\ pc = "sending" /\ reply' = "none" /\ backoff' = 0
          /\ Advance(sent + SliceLen) /\ answered' = answered \cup Slice
          /\ UNCHANGED <<journal, batch, lastAcked, dropped>>
      BY <1>11 DEF HandleDelivered, Handle, sourceVars, journalVars, memory
    <2>2. AnsweredIsBehind'
      BY <2>1, AnsweredAdvances
    <2> QED BY <1>1, <1>2, <2>1, <2>2
  <1>12. CASE HandleDrop
    <2>1. /\ pc = "sending" /\ reply = "tooLarge" /\ reply' = "none" /\ SliceLen = 1
          /\ Advance(sent + SliceLen) /\ answered' = answered \cup Slice
          /\ dropped' = dropped \cup Slice
          /\ UNCHANGED <<journal, batch, lastAcked, backoff>>
      BY <1>12 DEF HandleDrop, Handle, sourceVars, journalVars, memory
    <2>2. AnsweredIsBehind'
      BY <2>1, AnsweredAdvances
    <2>3. \A e \in Slice : journal[e] > SinkLimit
      \* A slice of one entry, and it is oversized.
      <3>1. PICK e \in Slice : journal[e] > SinkLimit
        BY <2>1 DEF RefusalIsTrue, Oversized
      <3>2. SliceIndices = {sent + 1}
        BY <1>0, <2>1 DEF SliceIndices
      <3>3. Slice = {batch[sent + 1]}
        BY <3>2 DEF Slice
      <3> QED BY <3>1, <3>3
    <2>4. OnlyOversizedAreDropped'
      BY <2>1, <2>3 DEF OnlyOversizedAreDropped
    <2> QED BY <1>2, <2>1, <2>2, <2>4
  <1>13. CASE HandleSplit
    <2>1. /\ pc = "sending" /\ pc' = "loop" /\ reply' = "none"
          /\ UNCHANGED <<journal, sent, batch, lastAcked, dropped, backoff, answered>>
      BY <1>13 DEF HandleSplit, Handle, sourceVars, journalVars, memory
    <2>2. AnsweredIsBehind'
      BY <2>1, AnsweredStays
    <2> QED BY <1>1, <1>2, <2>1, <2>2
  <1>14. CASE HandleError
    <2>1. /\ pc = "sending" /\ pc' = "backoff" /\ reply' = "none"
          /\ UNCHANGED <<journal, sent, batch, lastAcked, dropped, answered>>
      BY <1>14 DEF HandleError, Handle, sourceVars, journalVars, memory, progress
    <2>2. AnsweredIsBehind'
      BY <2>1, AnsweredStays
    <2>3. backoff' <= BackoffMax
      BY <1>0, <1>14 DEF HandleError, NextBackoff, Lesser
    <2>4. OnlyOversizedAreDropped'
      BY <2>1 DEF OnlyOversizedAreDropped
    <2> QED BY <1>2, <2>1, <2>2, <2>3, <2>4
  <1>15. CASE FinishRename
    <2>1. /\ pc = "ack" /\ phase = "persist" /\ pc' = "loop" /\ lastAcked' = tmpFile /\ batch' = << >>
          /\ UNCHANGED <<journal, dropped, backoff, reply, answered>>
      BY <1>15 DEF FinishRename, AckRename, journalVars, history
    <2>2. reply' # "tooLarge"
      BY <2>1 DEF ShipperInv, ReplyIsTrue
    <2>3. batch # << >> /\ tmpFile = batch[Len(batch)] /\ sent = Len(batch)
      BY <2>1 DEF SourceInv, LifeCycle, ShipperInv, PcMatchesPhase, SentMatchesPc
    <2>4. /\ Len(batch) \in 1 .. Len(batch) /\ lastAcked < tmpFile /\ tmpFile \in Nat
          /\ \A i \in 1 .. sent : batch[i] <= tmpFile
      <3>1. Len(batch) \in 1 .. Len(batch) /\ \A i \in 1 .. Len(batch) : batch[i] \in Nat
        BY <1>0, <2>3
      <3> QED BY <2>3, <3>1 DEF SourceInv, BatchInOrder
    <2>5. answered \subseteq Nat
      BY <1>0 DEF ShipperInv, TypeOK
    <2>6. \A e \in answered : e <= lastAcked'
      BY <1>0, <2>1, <2>4, <2>5 DEF AnsweredIsBehind
    <2>7. AnsweredIsBehind'
      BY <2>1, <2>6 DEF AnsweredIsBehind
    <2> QED BY <1>1, <1>2, <2>1, <2>2, <2>7
  <1> QED
    BY <1>3, <1>4, <1>5, <1>6, <1>7, <1>8, <1>9, <1>10, <1>11, <1>12, <1>13, <1>14, <1>15
       DEF Next, Run, HandleReply, Stop, Crash

\* What Loki answered in this process is behind the prefix or the cursor, and what is
\* refused as too large is too large: AnswerInv is inductive.
THEOREM AnswerInvariant == Spec => []AnswerInv
  <1>1. Init => AnswerInv
    BY ShipperAssumption
       DEF Init, AnswerInv, AnsweredIsBehind, RefusalIsTrue, OnlyOversizedAreDropped
  <1>2. SourceInv /\ ShipperInv /\ ShipperInv' /\ AnswerInv /\ [Next]_vars => AnswerInv'
    BY AnswerStep
  <1> QED BY <1>1, <1>2, SourceInvariantHolds, ShipperInvariant, PTL DEF Spec

\* No request repeats, or goes back behind, an entry that an earlier request of
\* the same process got an answer for: what a slice holds is ahead of the prefix
\* and of the cursor.
THEOREM OnlyUnansweredIsSent == Spec => []AnsweredIsNotResent
  <1>1. SourceInv /\ ShipperInv /\ AnswerInv => AnsweredIsNotResent
    <2> SUFFICES ASSUME SourceInv, ShipperInv, AnswerInv, pc = "sending",
                        NEW e \in Slice, NEW a \in answered
                 PROVE  a < e
      BY DEF AnsweredIsNotResent
    <2>1. /\ batch \in Seq(Nat) /\ sent \in Nat /\ chunk \in Nat /\ lastAcked \in Nat
          /\ sent < Len(batch) /\ chunk >= 1
      BY DEF SourceInv, SourceTypeOK, ShipperInv, TypeOK, PcMatchesPhase, SentMatchesPc
    <2>2. PICK i \in SliceIndices : e = batch[i]
      BY DEF Slice
    <2>3. i \in 1 .. Len(batch) /\ i > sent /\ e \in Nat /\ e > lastAcked
      <3>1. i \in 1 .. Len(batch) /\ i > sent
        BY <2>1, SliceWithin DEF SliceIndices
      <3> QED BY <2>1, <2>2, <3>1 DEF SourceInv, BatchInOrder
    <2>4. CASE a <= lastAcked
      <3>1. a \in Nat
        BY DEF ShipperInv, TypeOK
      <3> QED BY <2>1, <2>3, <2>4, <3>1
    <2>5. CASE \E j \in 1 .. sent : a = batch[j]
      <3>1. PICK j \in 1 .. sent : a = batch[j]
        BY <2>5
      <3>2. j \in 1 .. Len(batch) /\ j < i
        BY <2>1, <2>3
      <3> QED BY <2>2, <2>3, <3>1, <3>2 DEF SourceInv, BatchInOrder
    <2> QED BY <2>4, <2>5 DEF AnswerInv, AnsweredIsBehind
  <1> QED BY <1>1, SourceInvariantHolds, ShipperInvariant, AnswerInvariant, PTL

\* Splitting by halves isolates what Loki does not take: nothing else is dropped.
THEOREM SplittingIsolatesOversized == Spec => []OnlyOversizedAreDropped
  <1>1. AnswerInv => OnlyOversizedAreDropped
    BY DEF AnswerInv
  <1> QED BY <1>1, AnswerInvariant, PTL

\* The wait between retries shrinks on a delivery or with the process only, and grows
\* on an error only.
THEOREM BackoffIsKept == Spec => BackoffGrowsUntilDelivery
  <1> DEFINE Kept == /\ backoff' < backoff =>
                            reply \in {"ok", "rejected"} \/ pc' \in {"down", "failed"}
                     /\ backoff' > backoff => reply = "error"
  <1>1. ShipperInv /\ AnswerInv /\ [Next]_vars => [Kept]_vars
    <2> SUFFICES ASSUME ShipperInv, AnswerInv, Next, backoff' # backoff
                 PROVE  Kept
      BY DEF ShipperInv, TypeOK
    <2>1. /\ BackoffInitial \in Nat /\ BackoffMax \in Nat /\ backoff \in Nat
          /\ backoff <= BackoffMax
      BY ShipperAssumption DEF ShipperInv, TypeOK, AnswerInv
    <2>2. CASE HandleError
      <3>1. reply = "error"
        BY <2>2 DEF HandleError, Handle
      <3>2. backoff <= backoff'
        BY <2>1, <2>2, ShipperAssumption DEF HandleError, NextBackoff, Lesser
      <3>3. backoff' \in Nat
        BY <2>1, <2>2 DEF HandleError, NextBackoff, Lesser
      <3> QED BY <2>1, <3>1, <3>2, <3>3
    <2>3. CASE ~HandleError
      <3>1. HandleDelivered \/ GoDown \/ Fail
        BY <2>3
           DEF Next, Run, HandleReply, Stop, Crash, Start, Interrupt, BackoffOver, CallPeek, Peek,
               HandleDrop, HandleSplit, FinishWrite, FinishRename, shipperVars, Loki, LokiIngests,
               LokiRejects, LokiRefusesSize, LokiErrors, Answer
      <3>2. backoff' = 0 /\ (reply \in {"ok", "rejected"} \/ pc' \in {"down", "failed"})
        BY <3>1 DEF HandleDelivered, Handle, GoDown, Fail, LocalsReset
      <3> QED BY <2>1, <3>2
    <2> QED BY <2>2, <2>3
  <1> QED BY <1>1, ShipperInvariant, AnswerInvariant, PTL DEF Spec, BackoffGrowsUntilDelivery
=============================================================================
