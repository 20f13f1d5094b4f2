---------------------------- MODULE OtlpForwarder ----------------------------
(***************************************************************************)
(* src/forwarder/otlphttp.rs: the ring buffer of metric batches that the   *)
(* scheduler fills (submit) and one task drains into OTLP requests (run),  *)
(* with retries, a bounded buffer that drops its oldest batches, and one   *)
(* last flush after shutdown.                                              *)
(*                                                                         *)
(* The runtime has one thread (main.rs), so submit and shutdown are atomic *)
(* and interleave with run only where it awaits: the Notify, the backoff   *)
(* sleep and the response.  Batch b is the b-th batch submitted; sizes[b]  *)
(* is its number of metrics.                                               *)
(*                                                                         *)
(*   pc          where run is                                              *)
(*   "top"       at the head of its loop                                   *)
(*   "waiting"   at notified().await, with nothing to send                 *)
(*   "backoff"   at the select! of the sleep and notified()                *)
(*   "sending"   in drain_and_send, waiting for the response               *)
(*   "flushing"  the same, for the last time                               *)
(*   "done"      run returned                                              *)
(*   "panicked"  the expect after send().await failed                      *)
(*               (the release profile aborts the process: nothing follows) *)
(***************************************************************************)
EXTENDS Naturals, Sequences, Functions

CONSTANTS BatchSizes,                   \* numbers of metrics a batch may have
          MaxBatches,                   \* bound: batches ever submitted
          BufferMax,                    \* buffer_max_metrics
          RequestMax,                   \* request_max_metrics
          BackoffInitial, BackoffMax    \* backoff_initial, backoff_max

\* submit returns at once for an empty batch; config.rs checks the others.
ASSUME ForwarderAssumption == /\ BatchSizes \subseteq Nat \ {0}
                              /\ MaxBatches \in Nat
                              /\ BufferMax \in Nat \ {0}
                              /\ RequestMax \in Nat \ {0}
                              /\ BackoffInitial \in Nat
                              /\ BackoffMax \in Nat
                              /\ BackoffInitial <= BackoffMax

VARIABLES sizes,
          buffer,      \* state.batches
          total,       \* state.total_metrics
          inflight,    \* popped, while drain_and_send waits
          pc,
          permit,      \* the Notify holds a permit
          shutdown,
          backoff,
          cooling,     \* backoff_until lies in the future
          delivered,   \* history: batches in a request that was answered 2xx
          evicted,     \* history: batches dropped on overflow
          lost         \* history: batches in flight when run panicked

state == <<buffer, total>>
history == <<delivered, evicted, lost>>
forwarderVars == <<sizes, state, inflight, pc, permit, shutdown, backoff, cooling, history>>

Pcs == {"top", "waiting", "backoff", "sending", "flushing", "done", "panicked"}

Submitted == Len(sizes)

\* The metrics in a queue q of batches, given their sizes.
Metrics(size, q) == SumFunction([i \in DOMAIN q |-> size[q[i]]])

Front(q, n) == SubSeq(q, 1, n)
Rest(q, n) == SubSeq(q, n + 1, Len(q))

ForwarderInit == /\ sizes = <<>>
                 /\ buffer = <<>>
                 /\ total = 0
                 /\ inflight = <<>>
                 /\ pc = "top"
                 /\ permit = FALSE
                 /\ shutdown = FALSE
                 /\ backoff = 0
                 /\ cooling = FALSE
                 /\ delivered = {}
                 /\ evicted = {}
                 /\ lost = {}

-----------------------------------------------------------------------------
(* The buffer *)

\* pop_front while total_metrics is over the cap pops n batches of queue q,
\* which holds t metrics.
OverflowPops(size, q, t, n) ==
    /\ n < Len(q) => t - Metrics(size, Front(q, n)) <= BufferMax
    /\ \A m \in 0 .. (n - 1) : t - Metrics(size, Front(q, m)) > BufferMax

\* Mistake: the cap is enforced at the new end of the queue.
StoreDropsNewest(size, q, t) ==
    \E n \in 0 .. Len(q) :
        /\ OverflowPops(size, q, t, n)
        /\ buffer' = Front(q, Len(q) - n)
        /\ total' = t - Metrics(size, Rest(q, Len(q) - n))
        /\ evicted' = evicted \cup Range(Rest(q, Len(q) - n))

\* The buffer becomes queue q with its t metrics, less what is over the cap.
StoreWithinCap(size, q, t) ==
    \E n \in 0 .. Len(q) :
        /\ OverflowPops(size, q, t, n)
        /\ buffer' = Rest(q, n)
        /\ total' = t - Metrics(size, Front(q, n))
        /\ evicted' = evicted \cup Range(Front(q, n))

\* Mistake: the batch is buffered without a notification.
SubmitQuietly(n) == /\ ~shutdown
                    /\ Submitted < MaxBatches
                    /\ sizes' = Append(sizes, n)
                    /\ StoreWithinCap(sizes', Append(buffer, Submitted + 1), total + n)
                    /\ UNCHANGED <<permit, inflight, pc, shutdown, backoff, cooling,
                                   delivered, lost>>

\* submit, by the scheduler.
Submit(n) == /\ ~shutdown
             /\ Submitted < MaxBatches
             /\ sizes' = Append(sizes, n)
             /\ StoreWithinCap(sizes', Append(buffer, Submitted + 1), total + n)
             /\ permit' = TRUE
             /\ UNCHANGED <<inflight, pc, shutdown, backoff, cooling, delivered, lost>>

\* Mistake: the flag is set without a notification.
ShutdownQuietly == /\ ~shutdown
                   /\ shutdown' = TRUE
                   /\ UNCHANGED <<permit, sizes, state, inflight, pc, backoff, cooling,
                                  history>>

\* shutdown, by the pipeline once the scheduler has returned.
Shutdown == /\ ~shutdown
            /\ shutdown' = TRUE
            /\ permit' = TRUE
            /\ UNCHANGED <<sizes, state, inflight, pc, backoff, cooling, history>>

\* Mistake: batches are popped until the cap is reached, not while they fit.
PopsUntilFull(n) ==
    LET taken(m) == Metrics(sizes, Front(buffer, m)) IN
    /\ n < Len(buffer) => n > 0 /\ taken(n) >= RequestMax
    /\ \A m \in 1 .. (n - 1) : taken(m) < RequestMax

\* pop_for_send pops n batches: the first in any case, then as many as fit.
PopsForSend(n) ==
    LET taken(m) == Metrics(sizes, Front(buffer, m)) IN
    /\ n < Len(buffer) => n > 0 /\ (taken(n) >= RequestMax \/ taken(n + 1) > RequestMax)
    /\ \A m \in 1 .. (n - 1) : taken(m) < RequestMax /\ taken(m + 1) <= RequestMax

\* drain_and_send up to send().await, or to Ok(0) when nothing is popped.
Drain(awaiting, returned) ==
    \E n \in 0 .. Len(buffer) :
        /\ PopsForSend(n)
        /\ inflight' = Front(buffer, n)
        /\ buffer' = Rest(buffer, n)
        /\ total' = total - Metrics(sizes, Front(buffer, n))
        /\ pc' = IF n = 0 THEN returned ELSE awaiting

-----------------------------------------------------------------------------
(* The loop of run *)

\* Shutdown was signalled: the last drain_and_send.
Flush == /\ pc = "top"
         /\ shutdown
         /\ Drain("flushing", "done")
         /\ UNCHANGED <<sizes, permit, shutdown, backoff, cooling, history>>

AwaitData == /\ pc = "top"
             /\ ~shutdown
             /\ buffer = <<>>
             /\ pc' = "waiting"
             /\ UNCHANGED <<sizes, state, inflight, permit, shutdown, backoff, cooling, history>>

AwaitBackoff == /\ pc = "top"
                /\ ~shutdown
                /\ buffer # <<>>
                /\ cooling
                /\ pc' = "backoff"
                /\ UNCHANGED <<sizes, state, inflight, permit, shutdown, backoff, cooling, history>>

\* A permit ends either wait, and the loop starts over.
Notified == /\ pc \in {"waiting", "backoff"}
            /\ permit
            /\ permit' = FALSE
            /\ pc' = "top"
            /\ UNCHANGED <<sizes, state, inflight, shutdown, backoff, cooling, history>>

\* The sleep until backoff_until ends.
Cool == /\ cooling
        /\ cooling' = FALSE
        /\ UNCHANGED <<sizes, state, inflight, pc, permit, shutdown, backoff, history>>

\* Nothing holds the next request back, or the sleep was the branch taken:
\* then the buffer may have been emptied, and Ok(0) resets the backoff too.
Send == /\ \/ pc = "top" /\ ~shutdown /\ buffer # <<>>
           \/ pc = "backoff"
        /\ ~cooling
        /\ Drain("sending", "top")
        /\ backoff' = IF pc' = "top" THEN 0 ELSE backoff
        /\ UNCHANGED <<sizes, permit, shutdown, cooling, history>>

-----------------------------------------------------------------------------
(* The response, and the rest of drain_and_send *)

Awaiting == pc \in {"sending", "flushing"}

\* Mistake: the flush is repeated until the buffer is empty.
AfterSendLoops == pc' = "top"

AfterSend == pc' = IF pc = "flushing" THEN "done" ELSE "top"

\* 2xx.
Delivered == /\ Awaiting
             /\ delivered' = delivered \cup Range(inflight)
             /\ inflight' = <<>>
             /\ AfterSend
             /\ IF pc = "flushing" THEN UNCHANGED <<backoff, cooling>>
                                   ELSE backoff' = 0 /\ cooling' = FALSE
             /\ UNCHANGED <<sizes, state, permit, shutdown, evicted, lost>>

NextBackoff == IF backoff = 0 THEN BackoffInitial
               ELSE IF backoff * 2 <= BackoffMax THEN backoff * 2 ELSE BackoffMax

\* Mistake: requeue does not add the batches to total_metrics.
FailedUncounted == /\ Awaiting
                   /\ StoreWithinCap(sizes, inflight \o buffer, total)
                   /\ inflight' = <<>>
                   /\ AfterSend
                   /\ IF pc = "flushing" THEN UNCHANGED <<backoff, cooling>>
                                         ELSE backoff' = NextBackoff /\ cooling' = TRUE
                   /\ UNCHANGED <<sizes, permit, shutdown, delivered, lost>>

\* Mistake: requeue does not enforce the cap.
FailedOverfills == /\ Awaiting
                   /\ buffer' = inflight \o buffer
                   /\ total' = total + Metrics(sizes, inflight)
                   /\ inflight' = <<>>
                   /\ AfterSend
                   /\ IF pc = "flushing" THEN UNCHANGED <<backoff, cooling>>
                                         ELSE backoff' = NextBackoff /\ cooling' = TRUE
                   /\ UNCHANGED <<sizes, permit, shutdown, history>>

\* Mistake: requeue pushes to the back.
FailedRequeuesLast == /\ Awaiting
                      /\ StoreWithinCap(sizes, buffer \o inflight,
                                        total + Metrics(sizes, inflight))
                      /\ inflight' = <<>>
                      /\ AfterSend
                      /\ IF pc = "flushing" THEN UNCHANGED <<backoff, cooling>>
                                            ELSE backoff' = NextBackoff /\ cooling' = TRUE
                      /\ UNCHANGED <<sizes, permit, shutdown, delivered, lost>>

\* Another status, a transport error or the timeout: requeue.
Failed == /\ Awaiting
          /\ StoreWithinCap(sizes, inflight \o buffer, total + Metrics(sizes, inflight))
          /\ inflight' = <<>>
          /\ AfterSend
          /\ IF pc = "flushing" THEN UNCHANGED <<backoff, cooling>>
                                ELSE backoff' = NextBackoff /\ cooling' = TRUE
          /\ UNCHANGED <<sizes, permit, shutdown, delivered, lost>>

\* The response, or the timeout, is there before the HTTP client has dropped
\* the body stream: Arc::try_unwrap fails.
BodyStillHeld == /\ Awaiting
                 /\ lost' = lost \cup Range(inflight)
                 /\ inflight' = <<>>
                 /\ pc' = "panicked"
                 /\ UNCHANGED <<sizes, state, permit, shutdown, backoff, cooling,
                                delivered, evicted>>

Respond == Delivered \/ Failed \/ BodyStillHeld

Run == Flush \/ AwaitData \/ AwaitBackoff \/ Notified \/ Send

ForwarderNext == \/ \E n \in BatchSizes : Submit(n)
                 \/ Shutdown
                 \/ Run \/ Cool
                 \/ Respond

ForwarderSpec == ForwarderInit /\ [][ForwarderNext]_forwarderVars

\* The runtime polls the task, timers fire, and the client's timeout ends each
\* request.
PolledSpec == /\ ForwarderSpec
              /\ WF_forwarderVars(Run)
              /\ WF_forwarderVars(Cool)
              /\ WF_forwarderVars(Respond)

-----------------------------------------------------------------------------
(* Properties *)

\* For `total' see TotalIsExact.
TypeOK == /\ sizes \in Seq(BatchSizes)
          /\ buffer \in Seq(1 .. Submitted)
          /\ inflight \in Seq(1 .. Submitted)
          /\ pc \in Pcs
          /\ permit \in BOOLEAN
          /\ shutdown \in BOOLEAN
          /\ backoff \in 0 .. BackoffMax
          /\ cooling \in BOOLEAN
          /\ delivered \subseteq 1 .. Submitted
          /\ evicted \subseteq 1 .. Submitted
          /\ lost \subseteq 1 .. Submitted

\* total_metrics is maintained in four places and never recomputed; it is what
\* the cap is enforced on, and an underflow of the usize would empty the buffer.
TotalIsExact == total = Metrics(sizes, buffer)

\* Whatever is submitted while a request is in flight, and whatever comes back
\* from it, the buffer stays within its cap.
BufferWithinCap == Metrics(sizes, buffer) <= BufferMax

\* A request of several batches respects the cap on requests.
RequestWithinCap == Len(inflight) > 1 => Metrics(sizes, inflight) <= RequestMax

\* Failed requests come back in order: what is in flight and then what is
\* buffered is in the order of submission.
QueueInOrder == LET q == inflight \o buffer IN
                \A i, j \in DOMAIN q : i < j => q[i] < q[j]

\* No batch overtakes another on its way to the backend, whatever fails, comes
\* back and is dropped meanwhile: what was delivered was submitted before all
\* that is in flight or buffered.
InOrder == /\ QueueInOrder
           /\ \A d \in delivered, b \in Range(inflight \o buffer) : d < b

\* A wakeup is not lost: run does not wait on the Notify with a batch to send
\* or a shutdown to obey unless a permit is there.
WakeupIsPending ==
    pc = "waiting" /\ (buffer # <<>> \/ shutdown) => permit

\* As long as the forwarder runs and a request that is repeated for ever
\* succeeds at last, each batch is delivered or dropped for newer ones:
\* retries, backoff and coalesced notifications only delay it.
BackendReturns == SF_forwarderVars(Delivered)

EveryBatchIsSettled ==
    ([](pc # "panicked" /\ ~shutdown) /\ BackendReturns) =>
        \A b \in 1 .. MaxBatches : Submitted >= b ~> b \in delivered \cup evicted

\* Shutdown ends run from every await, the backoff sleep included, whether or
\* not the backend answers.
ShutdownEndsRun == shutdown ~> pc \in {"done", "panicked"}

\* forwarder/mod.rs:13, "Must never fail due to network state - delivery errors
\* are handled inside `run`": whatever the network does, each batch is settled.
NetworkNeverStopsRun ==
    ([]~shutdown /\ BackendReturns) =>
        \A b \in 1 .. MaxBatches : Submitted >= b ~> b \in delivered \cup evicted

\* The ring buffer, the running total, the wakeups and the backoff amount to the
\* abstract outbox, forwarder/mod.rs:12 ("drops oldest batches on overflow")
\* included; what was in flight when run panicked never comes back.
Promise == INSTANCE Outbox WITH submitted <- Submitted,
                                waiting <- Range(buffer),
                                outbound <- Range(inflight) \cup lost,
                                dropped <- evicted

ImplementsOutbox == Promise!OutboxSpec
-----------------------------------------------------------------------------
(* The inductive invariant behind InOrder, WakeupIsPending and                *)
(* ImplementsOutbox.                                                          *)

\* A request of at least one batch is under way exactly while run awaits it,
\* and only a panic loses batches.
InFlightMatchesPc == /\ inflight # <<>> <=> Awaiting
                     /\ lost # {} => pc = "panicked"

\* Each batch is in exactly one place: none vanishes, none is sent again after
\* a 2xx, none is counted as dropped and still kept.
EachBatchInOnePlace ==
    \A b \in 1 .. Submitted :
        \/ b \in Range(inflight \o buffer) /\ b \notin delivered \cup evicted \cup lost
        \/ b \in delivered /\ b \notin Range(inflight \o buffer) \cup evicted \cup lost
        \/ b \in evicted /\ b \notin Range(inflight \o buffer) \cup delivered \cup lost
        \/ b \in lost /\ b \notin Range(inflight \o buffer) \cup delivered \cup evicted

ForwarderInv == /\ TypeOK
                /\ QueueInOrder
                /\ InFlightMatchesPc
                /\ EachBatchInOnePlace
                /\ WakeupIsPending
=============================================================================
