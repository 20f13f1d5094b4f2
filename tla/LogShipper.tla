----------------------------- MODULE LogShipper -----------------------------
(***************************************************************************)
(* src/log/shipper.rs driving a JournaldSource into a Loki sink            *)
(* (src/log/sink/loki.rs): peek a batch, send a slice of it, move the      *)
(* prefix count or halve the chunk on the answer, ack the whole batch,     *)
(* back off on errors, stop on Ctrl-C, and start again after the process   *)
(* has died at any point.                                                  *)
(*                                                                         *)
(* Loki is outside the repository: a request is answered as the            *)
(* classification at the end of LokiSink::send admits, an error may hide   *)
(* that the entries were ingested, and the answer may never come (the      *)
(* reqwest client of the sink has no timeout).                             *)
(*                                                                         *)
(*   pc         where the shipper is                                       *)
(*   "down"     the process is not running                                 *)
(*   "loop"     at the select! around peek_batch                           *)
(*   "peek"     inside peek_batch                                          *)
(*   "sending"  at the select! around sink.send                            *)
(*   "ack"      in finish_batch                                            *)
(*   "backoff"  at the select! around the backoff sleep                    *)
(*   "failed"   run returned Err; the rest of the process lives on         *)
(***************************************************************************)
EXTENDS JournaldSource

CONSTANTS BackoffInitial, BackoffMax,   \* backoff_initial, backoff_max
          SinkLimit                     \* size above which Loki never takes an entry

ASSUME ShipperAssumption == /\ BackoffInitial \in Nat
                            /\ BackoffMax \in Nat
                            /\ BackoffInitial <= BackoffMax
                            /\ SinkLimit \in Nat

VARIABLES pc,
          sent,            \* progress.sent
          chunk,           \* progress.chunk
          backoff,
          reply,           \* what Loki answered to the request in flight
          interrupted,     \* SIGINT was delivered to the process
          settled,         \* history: entries Loki has ingested or refused as invalid
          dropped,         \* history: entries the shipper gave up as too large
          answered         \* history: entries this process knows to be settled or dropped

progress == <<sent, chunk>>
history == <<settled, dropped, answered>>
shipperVars == <<pc, progress, backoff, reply, interrupted, history>>
vars == <<sourceVars, shipperVars>>

Pcs == {"down", "loop", "peek", "sending", "ack", "backoff", "failed"}
Replies == {"none", "ok", "tooLarge", "rejected", "error"}

Lesser(a, b) == IF a <= b THEN a ELSE b

\* usize::MAX: no batch has more entries than BatchSize.
NoChunk == BatchSize

\* n, and the entries of the slice pending[..n].
SliceLen == Lesser(Len(batch) - sent, chunk)
SliceIndices == (sent + 1) .. (sent + SliceLen)
Slice == {batch[i] : i \in SliceIndices}

Init == /\ SourceInit
        /\ pc = "down"
        /\ sent = 0
        /\ chunk = NoChunk
        /\ backoff = 0
        /\ reply = "none"
        /\ interrupted = FALSE
        /\ settled = {}
        /\ dropped = {}
        /\ answered = {}

\* The state of run's local variables when it starts, and once it is gone.
LocalsReset == /\ sent' = 0
               /\ chunk' = NoChunk
               /\ backoff' = 0
               /\ reply' = "none"

-----------------------------------------------------------------------------
(* The process *)

Start == /\ pc = "down"
         /\ Open
         /\ pc' = "loop"
         /\ UNCHANGED <<progress, backoff, reply, interrupted, history>>

Interrupt == /\ pc # "down"
             /\ ~interrupted
             /\ interrupted' = TRUE
             /\ UNCHANGED <<sourceVars, pc, progress, backoff, reply, history>>

GoDown == /\ Close
          /\ pc' = "down"
          /\ LocalsReset
          /\ interrupted' = FALSE
          /\ answered' = {}
          /\ UNCHANGED <<settled, dropped>>

\* Mistake: the request is awaited outside a select!.
StopBetweenRequests == /\ interrupted
                       /\ \/ pc \in {"loop", "backoff", "failed"}
                          \/ pc = "peek" /\ phase \in {"await", "coalesce"}
                       /\ GoDown

\* The shutdown branch of the three select!s; a source that has failed is not
\* waited for.  select! polls in random order, so the branch is taken or not
\* when the other one is ready too.
Stop == /\ interrupted
        /\ \/ pc \in {"loop", "sending", "backoff", "failed"}
           \/ pc = "peek" /\ phase \in {"await", "coalesce"}
        /\ GoDown

\* A panic, a SIGTERM, a power cut: between any two steps.
Crash == GoDown

\* peek_batch or ack returns Err and `?' ends run.
Fail == /\ pc \in {"peek", "ack"}
        /\ SourceFails
        /\ pc' = "failed"
        /\ LocalsReset
        /\ UNCHANGED <<interrupted, history>>

-----------------------------------------------------------------------------
(* The loop of run *)

\* The backoff sleep ends.
BackoffOver == /\ pc = "backoff"
               /\ pc' = "loop"
               /\ UNCHANGED <<sourceVars, progress, backoff, reply, interrupted, history>>

CallPeek == /\ pc = "loop"
            /\ PeekFresh \/ PeekInFlight
            /\ pc' = "peek"
            /\ UNCHANGED <<progress, backoff, reply, interrupted, history>>

\* peek_batch goes on; when it returns the slice is cut and sent at once.
Peek == /\ pc = "peek"
        /\ PeekProgress
        /\ pc' = IF phase' = "idle" THEN "sending" ELSE "peek"
        /\ UNCHANGED <<progress, backoff, reply, interrupted, history>>

Answer(r) == /\ pc = "sending"
             /\ reply = "none"
             /\ reply' = r
             /\ UNCHANGED <<sourceVars, pc, progress, backoff, interrupted,
                            dropped, answered>>

\* Loki takes a request only if each of its entries is within its limit.
Acceptable == \A e \in Slice : journal[e] <= SinkLimit

Oversized == \E e \in Slice : journal[e] > SinkLimit

\* 2xx: all entries are ingested.
LokiIngests == Acceptable /\ settled' = settled \cup Slice /\ Answer("ok")

\* 400: the valid entries are ingested and the others refused for good.
LokiRejects == Acceptable /\ settled' = settled \cup Slice /\ Answer("rejected")

\* 413, or a body that says so.  The body is looked at before the status, so
\* this may be a 400 that ingested the valid entries.  The limit on requests
\* may be any, and change; a single entry is refused only for its own size.
LokiRefusesSize == /\ SliceLen > 1 \/ Oversized
                   /\ \/ UNCHANGED settled
                      \/ settled' = settled \cup {e \in Slice : journal[e] <= SinkLimit}
                   /\ Answer("tooLarge")

\* A transport error or another status; the entries may have been ingested.
LokiErrors == /\ \/ UNCHANGED settled
                 \/ Acceptable /\ settled' = settled \cup Slice
              /\ Answer("error")

Loki == LokiIngests \/ LokiRejects \/ LokiRefusesSize \/ LokiErrors

\* Mistake: off by one, the batch is finished with its last entry unsent.
AdvanceEndsEarly(s) == /\ sent' = s
                       /\ pc' = IF s + 1 >= Len(batch) THEN "ack" ELSE "loop"

\* What follows once progress.sent is s: finish_batch, or the next slice.
Advance(s) == /\ sent' = s
              /\ pc' = IF s >= Len(batch) THEN "ack" ELSE "loop"

Handle(r) == /\ pc = "sending"
             /\ reply = r
             /\ reply' = "none"
             /\ UNCHANGED <<sourceVars, interrupted, settled>>

\* Ok(()) and Err(SinkRejected): the request counts as delivered.
HandleDelivered == /\ Handle("ok") \/ Handle("rejected")
                   /\ Advance(sent + SliceLen)
                   /\ backoff' = 0
                   /\ answered' = answered \cup Slice
                   /\ UNCHANGED <<chunk, dropped>>

\* Mistake: a refused request is given up whatever its length.
HandleDropChunk == /\ Handle("tooLarge")
                   /\ dropped' = dropped \cup Slice
                   /\ answered' = answered \cup Slice
                   /\ Advance(sent + SliceLen)
                   /\ UNCHANGED <<chunk, backoff>>

\* Err(SinkPayloadTooLarge) for one entry: drop it.
HandleDrop == /\ Handle("tooLarge")
              /\ SliceLen = 1
              /\ dropped' = dropped \cup Slice
              /\ answered' = answered \cup Slice
              /\ Advance(sent + 1)
              /\ UNCHANGED <<chunk, backoff>>

\* Mistake: the chunk is not halved.
HandleSplitSameChunk == /\ Handle("tooLarge")
                        /\ SliceLen # 1
                        /\ chunk' = SliceLen
                        /\ pc' = "loop"
                        /\ UNCHANGED <<sent, backoff, dropped, answered>>

\* Mistake: a size refusal resets the backoff as a delivery does.
HandleSplitResetsBackoff == /\ Handle("tooLarge")
                            /\ SliceLen # 1
                            /\ chunk' = SliceLen \div 2
                            /\ backoff' = 0
                            /\ pc' = "loop"
                            /\ UNCHANGED <<sent, dropped, answered>>

\* Err(SinkPayloadTooLarge) for several: halve the chunk, no backoff.
HandleSplit == /\ Handle("tooLarge")
               /\ SliceLen # 1
               /\ chunk' = SliceLen \div 2
               /\ pc' = "loop"
               /\ UNCHANGED <<sent, backoff, dropped, answered>>

NextBackoff == IF backoff = 0 THEN BackoffInitial
               ELSE Lesser(backoff * 2, BackoffMax)

\* Mistake: an error moves on to the next slice, as an answer does.
HandleErrorMovesOn == /\ Handle("error")
                      /\ Advance(sent + SliceLen)
                      /\ backoff' = NextBackoff
                      /\ UNCHANGED <<chunk, dropped, answered>>

\* Mistake: an error resets the progress in the batch.
HandleErrorFromStart == /\ Handle("error")
                        /\ sent' = 0
                        /\ backoff' = NextBackoff
                        /\ pc' = "backoff"
                        /\ UNCHANGED <<chunk, dropped, answered>>

\* Any other error: wait, then retry the same, possibly topped up, batch.
HandleError == /\ Handle("error")
               /\ backoff' = NextBackoff
               /\ pc' = "backoff"
               /\ UNCHANGED <<progress, dropped, answered>>

\* finish_batch: ack(end_cursor), then the progress is reset.
FinishWrite == /\ pc = "ack"
               /\ AckWrite
               /\ UNCHANGED shipperVars

FinishRename == /\ pc = "ack"
                /\ AckRename
                /\ pc' = "loop"
                /\ sent' = 0
                /\ chunk' = NoChunk
                /\ UNCHANGED <<backoff, reply, interrupted, history>>

HandleReply == HandleDelivered \/ HandleDrop \/ HandleSplit \/ HandleError

Run == \/ BackoffOver \/ CallPeek \/ Peek
       \/ HandleReply
       \/ FinishWrite \/ FinishRename

Next == \/ JournalStep /\ UNCHANGED shipperVars
        \/ Start \/ Interrupt \/ Stop \/ Crash \/ Fail
        \/ Run
        \/ Loki

Spec == Init /\ [][Next]_vars

\* WF(Run): the runtime polls the task whenever it can go on, a timer fires.
\* SF(Stop): select! starts polling at a random branch, so the shutdown branch
\* is not passed over for ever.
\* WF(Start): the service manager starts the process again.
FairSpec == /\ Spec
            /\ WF_vars(Run)
            /\ SF_vars(Stop)
            /\ WF_vars(Start)

-----------------------------------------------------------------------------
(* Properties *)

TypeOK == /\ pc \in Pcs
          /\ sent \in Nat
          /\ chunk \in Nat
          /\ backoff \in Nat
          /\ reply \in Replies
          /\ interrupted \in BOOLEAN
          /\ settled \subseteq 1 .. Written
          /\ dropped \subseteq 1 .. Written
          /\ answered \subseteq 1 .. Written

\* Delivered, given up with an error in the log, or never read.
Accounted == settled \cup dropped \cup passed

\* The heart of at-least-once delivery: the saved cursor covers an entry only
\* if Loki has decided about it, the shipper gave it up, or it was never read.
\* The prefix count over a batch that is topped up and split, the parked
\* entry, and a crash at any point are what could break it.
CursorCoversOnlyAccounted == \A e \in 1 .. cursorFile : e \in Accounted

\* Between two acks progress.sent counts a prefix of the batch in flight that
\* is delivered or given up, whatever was appended to the batch meanwhile.
SentPrefixAccounted ==
    /\ sent <= Len(batch)
    /\ \A i \in 1 .. sent : batch[i] \in settled \cup dropped

\* One process never sends an entry, or one written before it, once it has an
\* answer for it: Loki gets a stream in the order of the journal, and only
\* unanswered requests are repeated, however batches are split and topped up.
AnsweredIsNotResent ==
    (pc = "sending" /\ reply = "none") => \A a \in answered, e \in Slice : a < e

\* A batch that peek_batch returns always has something left to send, and the
\* chunk is never halved to nothing: the empty-batch branch of run is dead.
SliceIsNotEmpty == pc = "sending" => SliceLen >= 1

\* Splitting a refused batch costs no entry that Loki would take alone.
OnlyOversizedAreDropped == \A e \in dropped : journal[e] > SinkLimit

\* The waits between retries do not shrink until a request is delivered, and only an
\* error makes them longer: a size refusal in between leaves them as they are.
BackoffGrowsUntilDelivery ==
    [][/\ backoff' < backoff => reply \in {"ok", "rejected"} \/ pc' \in {"down", "failed"}
       /\ backoff' > backoff => reply = "error"]_vars

\* The shipper drives the source only as its contract allows.
DrivesSource == SourceSpec

\* Batches, chunks, retries and restarts implement the at-least-once log.
Abstract == INSTANCE AtLeastOnceLog
            WITH written <- Written, cursor <- cursorFile, done <- Accounted

ImplementsAtLeastOnce == Abstract!LogSpec

\* If the process stays up and Loki answers, and does not err for ever, every
\* entry is eventually covered by the saved cursor, or was never read: errors,
\* splits, oversized entries and parked entries delay it only.
KeepsRunning == <>[](pc \notin {"down", "failed"})

SinkAnswers == /\ WF_vars(Loki)
               /\ SF_vars(LokiIngests \/ LokiRejects \/ LokiRefusesSize)

EverythingIsAcked ==
    (KeepsRunning /\ SinkAnswers) =>
        \A e \in 1 .. MaxEntries :
            (Written >= e) ~> (e <= cursorFile \/ e \in passed \/ e < first)

\* Ctrl-C ends the shipper wherever it is: asleep, waiting for the journal,
\* or waiting for an answer that never comes.
InterruptStops == interrupted ~> (pc = "down")

\* README.md:11, "cursor-persisted across restarts so no entries get re-shipped
\* or skipped": no entry that was read into a batch and not
\* delivered is passed over by a later process.
RestartSkipsNothing == \A e \in passed \cap handed : e \in settled \cup dropped

-----------------------------------------------------------------------------
(* The inductive invariant behind CursorCoversOnlyAccounted. *)

\* Where the shipper is fixes where the source is.
PcMatchesPhase ==
    /\ pc = "down" <=> phase = "off"
    /\ pc = "failed" <=> phase = "failed"
    /\ pc \in {"loop", "backoff", "sending"} => phase = "idle"
    /\ pc = "ack" => phase \in {"idle", "persist"}
    /\ pc \in {"sending", "ack", "backoff"} => batch # <<>>
    /\ pc = "peek" => phase \notin {"idle", "persist"}
    /\ phase \in {"coalesce", "refill", "topup"} => batch # <<>>

\* Only a batch that is all sent is acked; any other has entries left to send,
\* and a batch that is still being built has nothing sent.
SentMatchesPc ==
    /\ batch = <<>> => sent = 0
    /\ pc = "ack" => sent = Len(batch)
    /\ (pc # "ack" /\ batch # <<>>) => sent < Len(batch)
    /\ chunk >= 1

\* An answer is on its way only while a request is, and "delivered" is true.
ReplyIsTrue ==
    /\ reply # "none" => pc = "sending"
    /\ reply \in {"ok", "rejected"} => Slice \subseteq settled

ShipperInv == /\ TypeOK
              /\ PcMatchesPhase
              /\ SentMatchesPc
              /\ ReplyIsTrue
              /\ SentPrefixAccounted
              /\ CursorCoversOnlyAccounted

-----------------------------------------------------------------------------
(* What is inductive besides: behind AnsweredIsNotResent,                    *)
(* OnlyOversizedAreDropped and BackoffGrowsUntilDelivery.                    *)

\* What this process has an answer for lies behind the saved cursor or in the
\* prefix that is sent.
AnsweredIsBehind ==
    /\ pc = "down" => answered = {}
    /\ pc # "failed" =>
          \A e \in answered : e <= lastAcked \/ \E i \in 1 .. sent : e = batch[i]

\* Loki refuses one entry alone only for its own size.
RefusalIsTrue == reply = "tooLarge" => SliceLen > 1 \/ Oversized

AnswerInv == /\ AnsweredIsBehind
             /\ RefusalIsTrue
             /\ OnlyOversizedAreDropped
             /\ backoff <= BackoffMax
=============================================================================
