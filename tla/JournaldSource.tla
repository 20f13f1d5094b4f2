--------------------------- MODULE JournaldSource ---------------------------
(***************************************************************************)
(* src/log/source/journald.rs: the pull source that turns the journal into *)
(* batches (peek_batch), keeps the batch in flight until it is acked, and  *)
(* persists the cursor of the last acked batch (ack).                      *)
(*                                                                         *)
(* One step is one journal read or one visit of a loop head, so that the   *)
(* processes that write the journal interleave inside drain_available.     *)
(*                                                                         *)
(*   phase       where the source is                                       *)
(*   "off"       the process is not running                                *)
(*   "idle"      no call in progress (batch # <<>> : in_flight is Some)    *)
(*   "position"  build_batch, about to call position_to_start              *)
(*   "catchup"   drain_available called from the first two loops           *)
(*   "await"     blocked in wait_for_journal_event with an empty batch     *)
(*   "coalesce"  in the batch_wait window                                  *)
(*   "refill"    drain_available called from the window's loop             *)
(*   "topup"     drain_available called for the batch in flight            *)
(*   "persist"   ack: the temporary file is written, not yet renamed       *)
(*   "failed"    a call returned Err; the caller has dropped the source    *)
(***************************************************************************)
EXTENDS Journal, Functions

CONSTANTS BatchSize,   \* batch_size
          MaxBytes,    \* batch_max_bytes, 0 disables the byte cap
          MaxStarts    \* bound: process starts

\* config.rs accepts batch-size = 0, with which no batch is ever built.
ASSUME SourceAssumption == /\ BatchSize \in Nat \ {0}
                           /\ MaxBytes \in Nat
                           /\ MaxStarts \in Nat

VARIABLES phase,
          pos,          \* the entry the journal handle stands on
          positioned,   \* position_to_start has run
          batch,        \* entries of the batch being built or in flight
          bytes,        \* its approx_bytes
          parked,       \* the `pending' entry that did not fit, or NoEntry
          lastAcked,    \* last_acked, NoEntry for None
          cursorFile,   \* the saved cursor on disk, NoEntry for no file
          tmpFile,      \* what the last write of the .tmp file left
          starts,       \* process starts so far
          handed,       \* history: entries returned to a caller
          passed        \* history: entries the handle moved over unread

memory == <<pos, positioned, batch, bytes, parked, lastAcked>>
disk == <<cursorFile, tmpFile>>
sourceVars == <<journalVars, phase, memory, disk, starts, handed, passed>>

Phases == {"off", "idle", "position", "catchup", "await", "coalesce",
           "refill", "topup", "persist", "failed"}

MemoryEmpty == /\ pos = 0
               /\ positioned = FALSE
               /\ batch = <<>>
               /\ bytes = 0
               /\ parked = NoEntry
               /\ lastAcked = NoEntry

SourceInit == /\ JournalInit
              /\ phase = "off"
              /\ MemoryEmpty
              /\ cursorFile = NoEntry
              /\ tmpFile = NoEntry
              /\ starts = 0
              /\ handed = {}
              /\ passed = {}

DropMemory == /\ pos' = 0
              /\ positioned' = FALSE
              /\ batch' = <<>>
              /\ bytes' = 0
              /\ parked' = NoEntry
              /\ lastAcked' = NoEntry

-----------------------------------------------------------------------------
(* Construction, and the end of the process. *)

\* JournaldSource::new reads the saved cursor and opens the journal.
Open == /\ phase = "off"
        /\ starts < MaxStarts
        /\ starts' = starts + 1
        /\ phase' = "idle"
        /\ lastAcked' = cursorFile
        /\ notified' = FALSE
        /\ UNCHANGED <<journal, first, pos, positioned, batch, bytes, parked,
                       disk, handed, passed>>

\* The caller drops the source: a graceful exit or a crash at any moment.
Close == /\ phase # "off"
         /\ phase' = "off"
         /\ DropMemory
         /\ UNCHANGED <<journalVars, disk, starts, handed, passed>>

\* A journal or file system call fails and `?' returns the error.
SourceFails ==
    /\ \/ phase \in {"position", "catchup", "await", "coalesce", "refill",
                     "topup", "persist"}
       \/ phase = "idle" /\ batch # <<>>
    /\ phase' = "failed"
    /\ DropMemory
    /\ UNCHANGED <<journalVars, disk, starts, handed, passed>>

-----------------------------------------------------------------------------
(* peek_batch *)

\* No batch in flight: build_batch.
PeekFresh == /\ phase = "idle"
             /\ batch = <<>>
             /\ phase' = IF positioned THEN "catchup" ELSE "position"
             /\ UNCHANGED <<journalVars, memory, disk, starts, handed, passed>>

\* A batch is in flight: process() (whose error is only logged), then drain.
PeekInFlight == /\ phase = "idle"
                /\ batch # <<>>
                /\ phase' = "topup"
                /\ notified' \in {notified, FALSE}
                /\ UNCHANGED <<journal, first, memory, disk, starts, handed, passed>>

\* position_to_start leaves the handle on entry p.
StandOn(p) == /\ phase = "position"
              /\ pos' = p
              /\ passed' = passed \cup (lastAcked + 1) .. p
              /\ positioned' = TRUE
              /\ phase' = "catchup"
              /\ UNCHANGED <<journalVars, batch, bytes, parked, lastAcked, disk,
                             starts, handed>>

\* Mistake: every start seeks the tail, saved cursor or not.
ResumeAtTail == lastAcked # NoEntry /\ lastAcked >= first /\ StandOn(Written)

\* seek_cursor finds the saved entry and next() steps onto it.
ResumeAfterCursor == lastAcked # NoEntry /\ lastAcked >= first /\ StandOn(lastAcked)

\* The saved entry is vacuumed: seek_cursor lands close to it, next() steps on.
ResumeAtClosest == /\ lastAcked # NoEntry
                   /\ lastAcked < first
                   /\ StandOn(Closest)

\* No saved cursor: seek_tail, and previous() steps back onto the last entry.
StartAtTail == lastAcked = NoEntry /\ StandOn(Written)

\* seek_cursor fails on a vacuumed entry: seek_tail, without previous().  No entry is
\* under the handle; libsystemd is taken to go on behind the tail of that moment.
FallBackToTail == /\ lastAcked # NoEntry
                  /\ lastAcked < first
                  /\ StandOn(Written)

PositionToStart == ResumeAfterCursor \/ ResumeAtClosest \/ FallBackToTail \/ StartAtTail

Draining == phase \in {"catchup", "refill", "topup"}

\* Mistake: <= for <.
BatchHasRoomForOneMore == /\ Len(batch) <= BatchSize
                          /\ MaxBytes = 0 \/ bytes < MaxBytes

BatchHasRoom == /\ Len(batch) < BatchSize
                /\ MaxBytes = 0 \/ bytes < MaxBytes

Fits(e) == MaxBytes = 0 \/ batch = <<>> \/ bytes + journal[e] <= MaxBytes

\* Mistake: the batch is filled from its front.
PushFront(e) == /\ batch' = <<e>> \o batch
                /\ bytes' = bytes + journal[e]

Push(e) == /\ batch' = Append(batch, e)
           /\ bytes' = bytes + journal[e]

\* drain_available returns to its call site.
EndDrain == phase' = CASE phase = "topup" -> "idle"
                       [] phase = "catchup" /\ batch = <<>> -> "await"
                       [] OTHER -> "coalesce"

\* The batch goes to the caller (and in_flight) when the call returns.
HandOver == handed' = IF phase' = "idle" THEN handed \cup Range(batch) ELSE handed

\* Admit the entry just taken, or park it and stop.
AdmitOrPark(e) ==
    \/ /\ Fits(e)
       /\ Push(e)
       /\ parked' = NoEntry
       /\ UNCHANGED <<phase, handed>>
    \/ /\ ~Fits(e)
       /\ parked' = e
       /\ UNCHANGED <<batch, bytes>>
       /\ EndDrain
       /\ HandOver

\* One round of the loop that takes the parked entry.
DrainParked == /\ Draining
               /\ BatchHasRoom
               /\ parked # NoEntry
               /\ AdmitOrPark(parked)
               /\ UNCHANGED <<journalVars, pos, positioned, lastAcked, disk,
                              starts, passed>>

\* One round of the loop that reads the next entry of the journal.
DrainNext == /\ Draining
             /\ BatchHasRoom
             /\ parked = NoEntry
             /\ After(pos) <= Written
             /\ pos' = After(pos)
             /\ passed' = passed \cup (pos + 1) .. (After(pos) - 1)
             /\ AdmitOrPark(After(pos))
             /\ UNCHANGED <<journalVars, positioned, lastAcked, disk, starts>>

\* Mistake: process() after a drain that found nothing, too.
DrainSwallowsWakeup == /\ Draining
                       /\ \/ ~BatchHasRoom
                          \/ parked = NoEntry /\ (After(pos) > Written \/ notified)
                       /\ EndDrain
                       /\ HandOver
                       /\ notified' = FALSE
                       /\ UNCHANGED <<journal, first, memory, disk, starts, passed>>

\* The batch is full, or next_entry() returns None: nothing is there, or what
\* is there only shows after process() has consumed the notification.
DrainEnds == /\ Draining
             /\ \/ ~BatchHasRoom
                \/ parked = NoEntry /\ (After(pos) > Written \/ notified)
             /\ EndDrain
             /\ HandOver
             /\ UNCHANGED <<journalVars, memory, disk, starts, passed>>

\* wait_for_journal_event returns: clear_ready and process().
Wakeup(from, to) == /\ phase = from
                    /\ notified
                    /\ notified' = FALSE
                    /\ phase' = to
                    /\ UNCHANGED <<journal, first, memory, disk, starts, handed,
                                   passed>>

AwaitWakeup == Wakeup("await", "catchup")

CoalesceWakeup == BatchHasRoom /\ Wakeup("coalesce", "refill")

\* The window closes: the batch is full, or batch_wait has passed.
CoalesceEnds == /\ phase = "coalesce"
                /\ phase' = "idle"
                /\ HandOver
                /\ UNCHANGED <<journalVars, memory, disk, starts, passed>>

PeekProgress == \/ PositionToStart
                \/ DrainParked \/ DrainNext \/ DrainEnds
                \/ AwaitWakeup \/ CoalesceWakeup \/ CoalesceEnds

-----------------------------------------------------------------------------
(* ack *)

\* Mistake: the cursor of the entry the handle stands on, not the batch's.
AckWriteAtHandle == /\ phase = "idle"
                    /\ batch # <<>>
                    /\ tmpFile' = pos
                    /\ phase' = "persist"
                    /\ UNCHANGED <<journalVars, memory, cursorFile, starts,
                                   handed, passed>>

\* persist_cursor writes the batch's end_cursor beside the cursor file...
AckWrite == /\ phase = "idle"
            /\ batch # <<>>
            /\ tmpFile' = batch[Len(batch)]
            /\ phase' = "persist"
            /\ UNCHANGED <<journalVars, memory, cursorFile, starts, handed, passed>>

\* ...and renames it into place; last_acked and in_flight follow.
AckRename == /\ phase = "persist"
             /\ cursorFile' = tmpFile
             /\ lastAcked' = tmpFile
             /\ batch' = <<>>
             /\ bytes' = 0
             /\ phase' = "idle"
             /\ UNCHANGED <<journalVars, pos, positioned, parked, tmpFile, starts,
                            handed, passed>>

-----------------------------------------------------------------------------
JournalStep == /\ JournalNext
               /\ UNCHANGED <<phase, memory, disk, starts, handed, passed>>

\* The source with a caller that peeks and acks in any legal order.
SourceNext == \/ JournalStep
              \/ Open \/ Close \/ SourceFails
              \/ PeekFresh \/ PeekInFlight \/ PeekProgress
              \/ AckWrite \/ AckRename

SourceSpec == SourceInit /\ [][SourceNext]_sourceVars

\* The runtime keeps polling the task that is inside peek_batch or ack, and
\* the caller, if it is not dropped, calls again and acks some batch.
SourceFairSpec == /\ SourceSpec
                  /\ WF_sourceVars(PeekProgress)
                  /\ WF_sourceVars(PeekFresh)
                  /\ SF_sourceVars(AckWrite)
                  /\ WF_sourceVars(AckRename)

-----------------------------------------------------------------------------
(* Properties *)

SourceTypeOK ==
    /\ journal \in Seq(Sizes)
    /\ first \in 1 .. (Len(journal) + 1)
    /\ notified \in BOOLEAN
    /\ phase \in Phases
    /\ pos \in 0 .. Len(journal)
    /\ positioned \in BOOLEAN
    /\ batch \in Seq(Nat)
    /\ bytes \in Nat
    /\ parked \in 0 .. Len(journal)
    /\ lastAcked \in 0 .. Len(journal)
    /\ cursorFile \in 0 .. Len(journal)
    /\ tmpFile \in 0 .. Len(journal)
    /\ starts \in 0 .. MaxStarts
    /\ handed \subseteq 1 .. Len(journal)
    /\ passed \subseteq 1 .. Len(journal)

\* No entry is lost between the journal and the caller: whatever the saved
\* cursor covers was in a batch that peek_batch returned, or was never read
\* because the handle was positioned past it or journald had deleted it.
\* The parked entry, a crash between the two halves of ack and a restart are
\* what could break it.
CursorCoversOnlyHanded ==
    \A e \in 1 .. cursorFile : e \in handed \cup passed

\* Every way a batch is filled respects both caps; one entry larger than the
\* byte cap still makes a batch of its own (drain_available, batch_has_room).
BatchWithinCaps ==
    /\ Len(batch) <= BatchSize
    /\ MaxBytes = 0 \/ Len(batch) <= 1 \/ bytes <= MaxBytes

\* The contract of the Source trait that the shipper's prefix count relies on:
\* until the batch is acked or dropped, peek_batch only appends to it.
TopUpOnlyAppends ==
    [][(batch # <<>> /\ batch' # <<>>) =>
         /\ Len(batch') >= Len(batch)
         /\ SubSeq(batch', 1, Len(batch)) = batch]_sourceVars

\* The saved cursor never moves back, over any number of crashes and restarts.
CursorNeverRegresses == [][cursorFile' >= cursorFile]_sourceVars

\* While journald retains the saved entry, nothing makes the source pass over
\* an entry that is still in the journal: not a restart, not a failed call.
RetainedEntriesAreRead ==
    [][(cursorFile # NoEntry /\ cursorFile >= first) =>
          \A e \in passed' \ passed : e < first]_sourceVars

\* No wakeup is lost: if the process stays up, every entry is returned by
\* peek_batch, passed over or vacuumed, even one that is written between a drain that
\* finds nothing and the wait for an event, or that was parked or in flight
\* when an earlier process died.
StaysUp == <>[](phase \notin {"off", "failed"})

WrittenIsReturned ==
    StaysUp => \A e \in 1 .. MaxEntries :
                  (Written >= e) ~> (e \in handed \cup passed \/ e < first)

-----------------------------------------------------------------------------
(* The inductive invariant behind CursorCoversOnlyHanded. *)

\* What holds of the memory in each phase of a process's life.
LifeCycle ==
    /\ phase \in {"off", "failed"} => MemoryEmpty
    /\ phase \notin {"off", "failed"} => lastAcked = cursorFile
    /\ phase = "position" => ~positioned
    /\ ~positioned => /\ batch = <<>>
                      /\ parked = NoEntry
                      /\ phase \in {"off", "failed", "idle", "position"}
    /\ positioned => lastAcked <= pos
    /\ phase = "persist" => batch # <<>> /\ tmpFile = batch[Len(batch)]

\* The batch is in journal order between the acked cursor and the handle; the
\* parked entry is the one the handle stands on and follows the whole batch.
BatchInOrder ==
    /\ \A i \in 1 .. Len(batch) : lastAcked < batch[i] /\ batch[i] <= pos
    /\ \A i, j \in 1 .. Len(batch) : i < j => batch[i] < batch[j]
    /\ parked # NoEntry => /\ parked = pos
                           /\ lastAcked < parked
                           /\ \A i \in 1 .. Len(batch) : batch[i] < parked

\* Whatever the handle has moved over since the last ack is in the batch,
\* parked, or was never read.
NothingBetween ==
    positioned => \A e \in (lastAcked + 1) .. pos :
                     e \in Range(batch) \/ e = parked \/ e \in passed

\* Outside a top-up, the batch in flight is what the caller was given.
BatchIsHanded == phase \in {"idle", "persist"} => Range(batch) \subseteq handed

SourceInv == /\ SourceTypeOK
             /\ LifeCycle
             /\ BatchInOrder
             /\ NothingBetween
             /\ BatchIsHanded
             /\ CursorCoversOnlyHanded
=============================================================================
