------------------------------ MODULE Scheduler ------------------------------
(***************************************************************************)
(* scheduler_loop of src/pipeline.rs: one loop starts each collector when  *)
(* it is due and idle, receives the results of the spawned tasks over a    *)
(* channel, holds finished metrics until every collector is idle or the    *)
(* first soft deadline is over, and submits them to the forwarders.        *)
(*                                                                         *)
(* Instants are kept relative to the present: `until' is next_run - now,   *)
(* and every tick of the clock lowers the timers.  The runtime has one     *)
(* thread, so an iteration of the loop up to its select! is one step.      *)
(*                                                                         *)
(*   phase      "top": an iteration is about to begin                      *)
(*              "select": waiting in the select!                           *)
(*              "stopped": scheduler_loop returned                         *)
(*   task[c]    the spawned task: "none", "collecting", "sending" (it has  *)
(*              a result that is not yet in the channel), "panicked"       *)
(***************************************************************************)
EXTENDS Integers, Sequences

CONSTANTS Collectors,
          Interval, MaxRuntime,   \* per collector, in ticks
          SoftDeadline,           \* SOFT_DEADLINE, in ticks
          Capacity,               \* of the result channel
          MaxLag                  \* bound: lateness of a start, beyond which
                                  \* whole intervals are no longer counted

\* An interval of 0, which config.rs accepts, makes the catch-up loop endless.
ASSUME SchedulerAssumption ==
    /\ Collectors # {}
    /\ Interval \in [Collectors -> Nat \ {0}]
    /\ MaxRuntime \in [Collectors -> Nat]
    /\ SoftDeadline \in Nat
    /\ Capacity \in Nat \ {0}
    /\ MaxLag \in Nat
    /\ \A c \in Collectors : Interval[c] <= MaxLag

VARIABLES phase,
          active,        \* s.active.is_some()
          until,         \* s.next_run - now
          task,
          full,          \* the task's result has metrics
          runLeft,       \* what is left of the task's max_runtime
          softLeft,      \* started_at + SOFT_DEADLINE - now, of the latest start
          channel,       \* results sent and not received
          finished,      \* records of name and left: soft_deadline_at - now
          interrupted,   \* Ctrl-C was pressed
          clock,         \* history: per collector, ticks since its grid point
          slotUsed,      \* history: started since its last grid point
          prompt         \* history: no time has passed while there was work

tasks == <<task, full, runLeft>>
history == <<clock, slotUsed, prompt>>
schedulerVars == <<phase, active, until, tasks, softLeft, channel, finished,
                   interrupted, history>>

SchedulerInit == /\ phase = "top"
                 /\ active = [c \in Collectors |-> FALSE]
                 /\ until = [c \in Collectors |-> 0]
                 /\ task = [c \in Collectors |-> "none"]
                 /\ full = [c \in Collectors |-> FALSE]
                 /\ runLeft = [c \in Collectors |-> 0]
                 /\ softLeft = [c \in Collectors |-> 0]
                 /\ channel = <<>>
                 /\ finished = <<>>
                 /\ interrupted = FALSE
                 /\ clock = [c \in Collectors |-> 0]
                 /\ slotUsed = [c \in Collectors |-> FALSE]
                 /\ prompt = TRUE

-----------------------------------------------------------------------------
(* An iteration of the loop, up to its select! *)

\* Mistake: whether the collector is still in flight is not looked at.
DueInFlight == {c \in Collectors : until[c] <= 0}

Due == {c \in Collectors : ~active[c] /\ until[c] <= 0}

\* Mistake: the next start is planned from the present.
NextSlotFromNow(c) == Interval[c]

\* Mistake: an if in place of the while.
NextSlotOneOn(c) == until[c] + Interval[c]

\* next_run is moved along the collector's grid to the first point ahead.
NextSlot(c) == until[c] + Interval[c] * ((-until[c]) \div Interval[c] + 1)

StartDue == /\ active' = [c \in Collectors |-> active[c] \/ c \in Due]
            /\ until' = [c \in Collectors |-> IF c \in Due THEN NextSlot(c) ELSE until[c]]
            /\ task' = [c \in Collectors |-> IF c \in Due THEN "collecting" ELSE task[c]]
            /\ runLeft' = [c \in Collectors |-> IF c \in Due THEN MaxRuntime[c] ELSE runLeft[c]]
            /\ softLeft' = [c \in Collectors |-> IF c \in Due THEN SoftDeadline ELSE softLeft[c]]
            /\ slotUsed' = [c \in Collectors |-> c \in Due \/ slotUsed[c]]
            /\ UNCHANGED <<full, channel, interrupted, clock, prompt>>

\* Mistake: it is found out before the due ones are started.
AnyActiveBefore == \E c \in Collectors : active[c]

AnyActive == \E c \in Collectors : active[c] \/ c \in Due

SoftDeadlineOver == \E i \in DOMAIN finished : finished[i].left <= 0

ReadyToEmit == finished # <<>> /\ (~AnyActive \/ SoftDeadlineOver)

\* submit_batch hands everything finished to every forwarder.
Emit == /\ phase = "top"
        /\ StartDue
        /\ ReadyToEmit
        /\ finished' = <<>>
        /\ UNCHANGED phase

Wait == /\ phase = "top"
        /\ StartDue
        /\ ~ReadyToEmit
        /\ phase' = "select"
        /\ UNCHANGED finished

-----------------------------------------------------------------------------
(* The branches of the select!, polled in this order (biased) *)

\* Mistake: the collectors in flight are waited for.
StopLoopWhenIdle == /\ phase = "select"
                    /\ interrupted
                    /\ \A c \in Collectors : ~active[c]
                    /\ phase' = "stopped"
                    /\ finished' = <<>>
                    /\ UNCHANGED <<active, until, tasks, softLeft, channel, interrupted,
                                   history>>

\* Ctrl-C: abort the tasks, emit what is finished, return.
StopLoop == /\ phase = "select"
            /\ interrupted
            /\ phase' = "stopped"
            /\ active' = [c \in Collectors |-> FALSE]
            /\ task' = [c \in Collectors |-> IF task[c] = "panicked" THEN "panicked" ELSE "none"]
            /\ finished' = <<>>
            /\ UNCHANGED <<until, full, runLeft, softLeft, channel, interrupted, history>>

\* Mistake: the soft deadline is counted from the result.
ReceiveDelays == /\ phase = "select"
                 /\ ~interrupted
                 /\ channel # <<>>
                 /\ channel' = Tail(channel)
                 /\ LET c == Head(channel).name IN
                    /\ active' = [active EXCEPT ![c] = FALSE]
                    /\ finished' = IF Head(channel).full
                                   THEN Append(finished, [name |-> c, left |-> SoftDeadline])
                                   ELSE finished
                 /\ phase' = "top"
                 /\ UNCHANGED <<until, tasks, softLeft, interrupted, history>>

\* handle_result.
Receive == /\ phase = "select"
           /\ ~interrupted
           /\ channel # <<>>
           /\ channel' = Tail(channel)
           /\ LET c == Head(channel).name IN
              /\ active' = [active EXCEPT ![c] = FALSE]
              /\ finished' = IF Head(channel).full
                             THEN Append(finished, [name |-> c, left |-> softLeft[c]])
                             ELSE finished
           /\ phase' = "top"
           /\ UNCHANGED <<until, tasks, softLeft, interrupted, history>>

\* Mistake: no sleep until the next start.
TimerFiresToEmit == /\ phase = "select"
                    /\ ~interrupted
                    /\ channel = <<>>
                    /\ SoftDeadlineOver
                    /\ phase' = "top"
                    /\ UNCHANGED <<active, until, tasks, softLeft, channel, finished,
                                   interrupted, history>>

\* Mistake: no sleep until the soft deadline.
TimerFiresToStart == /\ phase = "select"
                     /\ ~interrupted
                     /\ channel = <<>>
                     /\ Due # {}
                     /\ phase' = "top"
                     /\ UNCHANGED <<active, until, tasks, softLeft, channel, finished,
                                    interrupted, history>>

\* One of the two sleeps is over.
TimerFires == /\ phase = "select"
              /\ ~interrupted
              /\ channel = <<>>
              /\ SoftDeadlineOver \/ Due # {}
              /\ phase' = "top"
              /\ UNCHANGED <<active, until, tasks, softLeft, channel, finished,
                             interrupted, history>>

-----------------------------------------------------------------------------
(* The spawned tasks *)

\* collect() returns with metrics, or without any: an error, or none found.
Collected(c) == /\ task[c] = "collecting"
                /\ task' = [task EXCEPT ![c] = "sending"]
                /\ \E hasMetrics \in BOOLEAN : full' = [full EXCEPT ![c] = hasMetrics]
                /\ UNCHANGED <<phase, active, until, runLeft, softLeft, channel, finished,
                               interrupted, history>>

\* Mistake: a task that is out of time sends no result.
TimedOutSilently(c) == /\ task[c] = "collecting"
                       /\ runLeft[c] = 0
                       /\ task' = [task EXCEPT ![c] = "none"]
                       /\ UNCHANGED <<phase, active, until, full, runLeft, softLeft, channel,
                                      finished, interrupted, history>>

\* max_runtime is over and the future is dropped.
TimedOut(c) == /\ task[c] = "collecting"
               /\ runLeft[c] = 0
               /\ task' = [task EXCEPT ![c] = "sending"]
               /\ full' = [full EXCEPT ![c] = FALSE]
               /\ UNCHANGED <<phase, active, until, runLeft, softLeft, channel, finished,
                              interrupted, history>>

\* The task ends without a result, and nobody looks at its JoinHandle.  So in a
\* build that unwinds; the release profile aborts the process, which ends the
\* behaviour.
Panics(c) == /\ task[c] = "collecting"
             /\ task' = [task EXCEPT ![c] = "panicked"]
             /\ UNCHANGED <<phase, active, until, full, runLeft, softLeft, channel,
                            finished, interrupted, history>>

\* tx.send() waits for room in the channel.
SendResult(c) == /\ task[c] = "sending"
                 /\ Len(channel) < Capacity
                 /\ channel' = Append(channel, [name |-> c, full |-> full[c]])
                 /\ task' = [task EXCEPT ![c] = "none"]
                 /\ full' = [full EXCEPT ![c] = FALSE]
                 /\ UNCHANGED <<phase, active, until, runLeft, softLeft, finished,
                                interrupted, history>>

-----------------------------------------------------------------------------
(* The environment *)

\* The first select! registers for the signal (Agent has what comes before); an
\* iteration up to its select! is over before anything else can happen.
CtrlC == /\ phase = "select"
         /\ ~interrupted
         /\ interrupted' = TRUE
         /\ UNCHANGED <<phase, active, until, tasks, softLeft, channel, finished, history>>

Less(n) == IF n = 0 THEN 0 ELSE n - 1

\* A start later than MaxLag loses a whole interval, which NextSlot would add.
Later(c) == IF until[c] <= -MaxLag THEN until[c] - 1 + Interval[c] ELSE until[c] - 1

Loop == Emit \/ Wait \/ StopLoop \/ Receive \/ TimerFires

TaskStep(c) == Collected(c) \/ TimedOut(c) \/ Panics(c) \/ SendResult(c)

\* The loop or a task can go on at once.
Busy == \/ ENABLED Loop
        \/ \E c \in Collectors : ENABLED TimedOut(c) \/ ENABLED SendResult(c)

\* Time passes, also while a step of the loop or of a task is possible.
Tick == /\ phase # "stopped"
        /\ until' = [c \in Collectors |-> Later(c)]
        /\ runLeft' = [c \in Collectors |-> Less(runLeft[c])]
        /\ softLeft' = [c \in Collectors |-> Less(softLeft[c])]
        /\ finished' = [i \in DOMAIN finished |->
                           [finished[i] EXCEPT !.left = Less(finished[i].left)]]
        /\ clock' = [c \in Collectors |-> (clock[c] + 1) % Interval[c]]
        /\ prompt' = (prompt /\ ~Busy)
        /\ slotUsed' = [c \in Collectors |-> slotUsed[c] /\ clock'[c] # 0]
        /\ UNCHANGED <<phase, active, task, full, channel, interrupted>>

SchedulerNext == \/ Loop
                 \/ \E c \in Collectors : TaskStep(c)
                 \/ CtrlC
                 \/ Tick

SchedulerSpec == SchedulerInit /\ [][SchedulerNext]_schedulerVars

\* The runtime polls the loop and the tasks whenever they can go on, timers
\* fire and time goes on.  SF(SendResult): the channel gives room to waiting
\* senders in the order they came.
SchedulerFairSpec == /\ SchedulerSpec
                     /\ WF_schedulerVars(Loop)
                     /\ WF_schedulerVars(Tick)
                     /\ \A c \in Collectors : /\ WF_schedulerVars(TimedOut(c))
                                              /\ SF_schedulerVars(SendResult(c))

-----------------------------------------------------------------------------
(* Properties *)

TypeOK ==
    /\ phase \in {"top", "select", "stopped"}
    /\ active \in [Collectors -> BOOLEAN]
    /\ \A c \in Collectors : until[c] \in -MaxLag .. Interval[c]
    /\ task \in [Collectors -> {"none", "collecting", "sending", "panicked"}]
    /\ full \in [Collectors -> BOOLEAN]
    /\ \A c \in Collectors : runLeft[c] \in 0 .. MaxRuntime[c]
    /\ softLeft \in [Collectors -> 0 .. SoftDeadline]
    /\ channel \in Seq([name : Collectors, full : BOOLEAN])
    /\ Len(channel) <= Capacity
    /\ finished \in Seq([name : Collectors, left : 0 .. SoftDeadline])
    /\ interrupted \in BOOLEAN
    /\ \A c \in Collectors : clock[c] \in 0 .. (Interval[c] - 1)
    /\ slotUsed \in [Collectors -> BOOLEAN]
    /\ prompt \in BOOLEAN

Queued(c) == {i \in DOMAIN channel : channel[i].name = c}

\* A collector never collects twice at a time, and `active' is never stale: it
\* says that a task runs, that its one result is on the way, or that the task
\* died.
ActiveIsTrue ==
    phase # "stopped" =>
        \A c \in Collectors :
            /\ active[c] <=> task[c] # "none" \/ Queued(c) # {}
            /\ task[c] # "none" => Queued(c) = {}
            /\ \A i, j \in Queued(c) : i = j

\* Metrics go out together: as long as no soft deadline is over, none are submitted
\* while a collection that could join them is on, has its result under way, or begins
\* in the same iteration.
EmittedTogether ==
    [][(phase = "top" /\ finished # <<>> /\ finished' = <<>> /\ ~SoftDeadlineOver) =>
          channel' = <<>> /\ \A c \in Collectors : task'[c] = "none"]_schedulerVars

\* Late starts, long runs and timeouts do not shift a collector's cadence: its
\* next start is always planned for a point of its grid.
OnGrid == \A c \in Collectors :
              \E k \in -MaxLag .. 1 : until[c] + clock[c] = k * Interval[c]

\* ... and a collector that was late is started once, not once per missed point.
OneStartPerSlot ==
    [][\A c \in Collectors : (~active[c] /\ active'[c]) => ~slotUsed[c]]_schedulerVars

\* On a machine that has never kept the loop or a task waiting, no metrics are
\* held beyond the soft deadline, counted from the start of their collection,
\* however slow the other collectors are.
SoftDeadlineIsKept ==
    [][(prompt' /\ clock' # clock) =>
          \A i \in DOMAIN finished :
              finished[i].left > 0 /\ softLeft[finished[i].name] > 0]_schedulerVars

\* ... and an idle collector starts at its grid point, however slow the others
\* are.
StartsOnTime ==
    [][(prompt' /\ clock' # clock) =>
          \A c \in Collectors : active[c] \/ until[c] > 0]_schedulerVars

\* Hanging, failing and panicking collectors do not keep a collector that
\* does not panic from being started again and again.
CollectedForEver ==
    \A c \in Collectors :
        [](~interrupted /\ task[c] # "panicked") => []<>(task[c] = "collecting")

\* ... nor finished metrics from being submitted.
FinishedIsEmitted == finished # <<>> ~> finished = <<>>

\* Ctrl-C ends the loop whatever the collectors do.
InterruptStopsLoop == interrupted ~> phase = "stopped"

\* pipeline.rs:187, "Emit whatever we have": when the loop has returned, no
\* metrics that were collected are left behind.
EmitsWhatItHas ==
    phase = "stopped" => \A i \in DOMAIN channel : ~channel[i].full
-----------------------------------------------------------------------------
(* The inductive invariant behind ActiveIsTrue, EmittedTogether, OnGrid and   *)
(* OneStartPerSlot.                                                           *)

\* A collector that was started since its last grid point is planned for the
\* next one.
PlannedForNextPoint ==
    \A c \in Collectors : slotUsed[c] => until[c] + clock[c] = Interval[c]

\* What SoftDeadlineIsKept rests on: metrics are held against the deadline of
\* the collection they came from, so that a collection started since, of the
\* same collector, has at least as long to go.
DeadlineFromStart ==
    \A i \in DOMAIN finished : finished[i].left <= softLeft[finished[i].name]

SchedulerInv == /\ TypeOK
                /\ ActiveIsTrue
                /\ OnGrid
                /\ PlannedForNextPoint
=============================================================================
