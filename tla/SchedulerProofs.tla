---------------------------- MODULE SchedulerProofs ----------------------------
(***************************************************************************)
(* For every set of collectors, all intervals and timeouts, every soft     *)
(* deadline and capacity of the channel: the loop knows which collectors   *)
(* are in flight, holds metrics only for them, keeps each collector on its *)
(* grid and starts it at most once per point of it, and counts deadlines   *)
(* from the start of a collection.                                         *)
(*                                                                         *)
(* Busy is about ENABLED, which the provers do not evaluate: nothing here  *)
(* depends on it, and the properties that do are left to TLC.              *)
(***************************************************************************)
EXTENDS Scheduler, TLAPS

-----------------------------------------------------------------------------
(* The grid. *)

LEMMA Division ==
    ASSUME NEW a \in Nat, NEW b \in Nat \ {0}
    PROVE  /\ a \div b \in Nat
           /\ a % b \in 0 .. (b - 1)
           /\ a = b * (a \div b) + (a % b)
  OBVIOUS

\* A clock that is advanced from within its interval wraps at its end.
LEMMA ClockWraps ==
    ASSUME NEW b \in Nat \ {0}, NEW a \in 0 .. (b - 1)
    PROVE  (a + 1) % b = IF a + 1 = b THEN 0 ELSE a + 1
  OBVIOUS

LEMMA Distribute ==
    ASSUME NEW b \in Int, NEW k \in Int, NEW j \in Int
    PROVE  k * b + j * b = (k + j) * b /\ k + j \in Int
  OBVIOUS

LEMMA MultipleInRange ==
    ASSUME NEW b \in Nat \ {0}, NEW m \in Nat, NEW k \in Int, k * b \in (-m) .. (2 * b - 1)
    PROVE  k \in (-m) .. 1
  OBVIOUS

LEMMA OnlyMultipleInRange ==
    ASSUME NEW b \in Nat \ {0}, NEW k \in Int, k * b \in 1 .. (2 * b - 1)
    PROVE  k * b = b
  OBVIOUS

\* While next_run lies in the past the loop adds the interval: it stops at the
\* first point of the grid ahead.
LEMMA NextSlotIsAhead ==
    ASSUME NEW c \in Collectors, until[c] \in Int, until[c] <= 0
    PROVE  /\ NextSlot(c) \in 1 .. Interval[c]
           /\ \E j \in Int : NextSlot(c) = until[c] + j * Interval[c]
  <1> DEFINE b == Interval[c]
             a == -until[c]
             j == a \div b + 1
  <1>1. b \in Nat \ {0} /\ a \in Nat
    BY SchedulerAssumption
  <1>2. NextSlot(c) = until[c] + b * j
    BY DEF NextSlot
  <1> HIDE DEF a, b
  <1>3. a \div b \in Nat /\ a % b \in 0 .. (b - 1) /\ a = b * (a \div b) + (a % b)
    BY <1>1, Division
  <1>4. j \in Int /\ b * j = b * (a \div b) + b /\ b * j = j * b
    BY <1>1, <1>3
  <1> HIDE DEF j
  <1>5. until[c] = -a
    BY DEF a
  <1>6. NextSlot(c) \in 1 .. b
    BY <1>1, <1>2, <1>3, <1>4, <1>5
  <1> QED BY <1>2, <1>4, <1>6 DEF b

\* What one instant means for a collector's schedule.
GridPoint(u, k, i) == \E j \in Int : u + k = j * i

\* The multiples that a planned start can be are within MaxLag of the present.
LEMMA GridPointIsNear ==
    ASSUME NEW i \in Nat \ {0}, NEW u \in -MaxLag .. i, NEW k \in 0 .. (i - 1)
    PROVE  GridPoint(u, k, i) <=> \E j \in -MaxLag .. 1 : u + k = j * i
  <1>1. MaxLag \in Nat
    BY SchedulerAssumption
  <1>2. u + k \in (-MaxLag) .. (2 * i - 1)
    BY <1>1
  <1>3. ASSUME NEW j \in Int, u + k = j * i PROVE j \in -MaxLag .. 1
    BY <1>1, <1>2, <1>3, MultipleInRange
  <1>4. -MaxLag .. 1 \subseteq Int
    BY <1>1
  <1> QED BY <1>3, <1>4 DEF GridPoint

LEMMA OnGridNow ==
    ASSUME TypeOK
    PROVE  OnGrid <=> \A c \in Collectors : GridPoint(until[c], clock[c], Interval[c])
  <1>1. ASSUME NEW c \in Collectors
        PROVE  /\ Interval[c] \in Nat \ {0} /\ until[c] \in -MaxLag .. Interval[c]
               /\ clock[c] \in 0 .. (Interval[c] - 1)
    BY SchedulerAssumption DEF TypeOK
  <1> QED BY <1>1, GridPointIsNear DEF OnGrid

LEMMA OnGridNext ==
    ASSUME TypeOK'
    PROVE  OnGrid' <=> \A c \in Collectors : GridPoint(until'[c], clock'[c], Interval[c])
  <1>1. ASSUME NEW c \in Collectors
        PROVE  /\ Interval[c] \in Nat \ {0} /\ until'[c] \in -MaxLag .. Interval[c]
               /\ clock'[c] \in 0 .. (Interval[c] - 1)
    BY SchedulerAssumption DEF TypeOK
  <1> QED BY <1>1, GridPointIsNear DEF OnGrid

-----------------------------------------------------------------------------
(* The steps that start collectors. *)

\* What StartDue does to the schedule, whatever follows it.
LEMMA StartDueKeepsGrid ==
    ASSUME TypeOK, TypeOK', OnGrid, PlannedForNextPoint, StartDue
    PROVE  OnGrid' /\ PlannedForNextPoint'
  <1>1. ASSUME NEW c \in Collectors
        PROVE  /\ until[c] \in Int /\ clock[c] \in 0 .. (Interval[c] - 1) /\ clock' = clock
               /\ Interval[c] \in Nat \ {0}
               /\ until'[c] = IF c \in Due THEN NextSlot(c) ELSE until[c]
               /\ slotUsed'[c] = (c \in Due \/ slotUsed[c])
               /\ GridPoint(until[c], clock[c], Interval[c])
    <2>1. Interval[c] \in Nat \ {0} /\ MaxLag \in Nat
      BY SchedulerAssumption
    <2>2. until[c] \in Int /\ clock[c] \in 0 .. (Interval[c] - 1)
      BY <2>1 DEF TypeOK
    <2>3. /\ until'[c] = IF c \in Due THEN NextSlot(c) ELSE until[c]
          /\ clock' = clock
      BY DEF StartDue
    <2>4. slotUsed'[c] = (c \in Due \/ slotUsed[c])
      BY Zenon DEF StartDue
    <2>5. GridPoint(until[c], clock[c], Interval[c])
      BY OnGridNow
    <2> QED BY <2>1, <2>2, <2>3, <2>4, <2>5
  <1>2. ASSUME NEW c \in Due
        PROVE  /\ GridPoint(until'[c], clock'[c], Interval[c])
               /\ until'[c] + clock'[c] = Interval[c]
    <2>0. c \in Collectors /\ until[c] <= 0
      BY DEF Due
    <2>1. PICK k \in Int : until[c] + clock[c] = k * Interval[c]
      BY <1>1, <2>0 DEF GridPoint
    <2>2. PICK j \in Int : NextSlot(c) = until[c] + j * Interval[c]
      BY <1>1, <2>0, NextSlotIsAhead
    <2>3. until'[c] + clock'[c] = k * Interval[c] + j * Interval[c]
      BY <1>1, <2>0, <2>1, <2>2
    <2>4. k * Interval[c] + j * Interval[c] = (k + j) * Interval[c] /\ k + j \in Int
      <3>1. Interval[c] \in Int
        BY <1>1, <2>0
      <3> QED BY <3>1, Distribute
    <2>5. until'[c] + clock'[c] \in 1 .. (2 * Interval[c] - 1)
      <3>1. NextSlot(c) \in 1 .. Interval[c]
        BY <1>1, <2>0, NextSlotIsAhead
      <3> QED BY <1>1, <2>0, <3>1
    <2>6. until'[c] + clock'[c] = Interval[c]
      BY <1>1, <2>0, <2>3, <2>4, <2>5, OnlyMultipleInRange
    <2> QED BY <2>3, <2>4, <2>6 DEF GridPoint
  <1>3. ASSUME NEW c \in Collectors PROVE GridPoint(until'[c], clock'[c], Interval[c])
    BY <1>1, <1>2
  <1>4. OnGrid'
    BY <1>3, OnGridNext
  <1>5. PlannedForNextPoint'
    BY <1>1, <1>2 DEF PlannedForNextPoint
  <1> QED BY <1>4, <1>5

LEMMA TickKeepsGrid ==
    ASSUME TypeOK, TypeOK', OnGrid, PlannedForNextPoint, Tick
    PROVE  OnGrid' /\ PlannedForNextPoint'
  <1>1. ASSUME NEW c \in Collectors
        PROVE  /\ until[c] \in Int /\ clock[c] \in 0 .. (Interval[c] - 1)
               /\ Interval[c] \in Nat \ {0} /\ MaxLag \in Nat
               /\ until'[c] = Later(c)
               /\ clock'[c] = IF clock[c] + 1 = Interval[c] THEN 0 ELSE clock[c] + 1
               /\ slotUsed'[c] = (slotUsed[c] /\ clock'[c] # 0)
               /\ GridPoint(until[c], clock[c], Interval[c])
    <2>1. Interval[c] \in Nat \ {0} /\ MaxLag \in Nat
      BY SchedulerAssumption
    <2>2. until[c] \in Int /\ clock[c] \in 0 .. (Interval[c] - 1)
      BY <2>1 DEF TypeOK
    <2>3. clock'[c] = (clock[c] + 1) % Interval[c] /\ until'[c] = Later(c)
      BY DEF Tick
    <2>4. slotUsed'[c] = (slotUsed[c] /\ clock'[c] # 0)
      BY Zenon DEF Tick
    <2> QED BY <2>1, <2>2, <2>3, <2>4, ClockWraps, OnGridNow
  <1>2. ASSUME NEW c \in Collectors PROVE GridPoint(until'[c], clock'[c], Interval[c])
    <2> DEFINE i == Interval[c]
    <2>1. PICK k \in Int : until[c] + clock[c] = k * i
      BY <1>1 DEF GridPoint
    <2>2. i \in Nat \ {0} /\ until[c] \in Int /\ clock[c] \in 0 .. (i - 1)
      BY <1>1
    <2>3. until'[c] = until[c] - 1 \/ until'[c] = until[c] - 1 + i
      BY <1>1 DEF Later
    <2>4. (clock'[c] = 0 /\ clock[c] + 1 = i) \/ clock'[c] = clock[c] + 1
      BY <1>1
    <2> HIDE DEF i
    <2>5. (k + 1) * i = k * i + i /\ (k - 1) * i = k * i - i /\ k * i \in Int
      BY <2>2
    <2>6. \/ until'[c] + clock'[c] = k * i - i
          \/ until'[c] + clock'[c] = k * i
          \/ until'[c] + clock'[c] = k * i + i
    <3> DEFINE p == k * i
    <3>1. until[c] + clock[c] = p /\ p \in Int
      BY <2>1, <2>5
    <3>2. until[c] \in Int /\ clock[c] \in Int /\ i \in Int
      BY <2>2
    <3>3. until'[c] \in Int /\ clock'[c] \in Int
      BY <2>3, <2>4, <3>2
    <3> HIDE DEF p
    <3>4. \/ until'[c] + clock'[c] = p - i
          \/ until'[c] + clock'[c] = p
          \/ until'[c] + clock'[c] = p + i
      BY <2>3, <2>4, <3>1, <3>2, <3>3
    <3> QED BY <3>4 DEF p
    <2>7. k - 1 \in Int /\ k + 1 \in Int
      OBVIOUS
    <2> QED BY <2>5, <2>6, <2>7 DEF GridPoint, i
  <1>3. OnGrid'
    BY <1>2, OnGridNext
  <1>4. PlannedForNextPoint'
    <2> SUFFICES ASSUME NEW c \in Collectors, slotUsed'[c]
                 PROVE  until'[c] + clock'[c] = Interval[c]
      BY DEF PlannedForNextPoint
    <2>1. until[c] + clock[c] = Interval[c] /\ clock'[c] = clock[c] + 1
      BY <1>1 DEF PlannedForNextPoint
    <2>2. until[c] > 0
      BY <1>1, <2>1
    <2> QED BY <1>1, <2>1, <2>2 DEF Later
  <1> QED BY <1>3, <1>4

-----------------------------------------------------------------------------
(* Types. *)

\* The environment and the loop keep what the rest of the invariant talks about
\* within its type; a late start loses whole intervals only.
LEMMA SchedulerTypeStep ==
    ASSUME TypeOK, [SchedulerNext]_schedulerVars
    PROVE  TypeOK'
  <1>0. /\ \A c \in Collectors : Interval[c] \in Nat \ {0} /\ Interval[c] <= MaxLag
        /\ MaxLag \in Nat /\ MaxRuntime \in [Collectors -> Nat] /\ SoftDeadline \in Nat
        /\ Capacity \in Nat \ {0}
    BY SchedulerAssumption
  <1> DEFINE Results == [name : Collectors, full : BOOLEAN]
             Held == [name : Collectors, left : 0 .. SoftDeadline]
  <1>1. /\ channel \in Seq(Results) /\ Len(channel) <= Capacity /\ finished \in Seq(Held)
        /\ \A c \in Collectors : until[c] \in -MaxLag .. Interval[c]
        /\ \A c \in Collectors : runLeft[c] \in 0 .. MaxRuntime[c]
        /\ softLeft \in [Collectors -> 0 .. SoftDeadline]
        /\ \A c \in Collectors : clock[c] \in 0 .. (Interval[c] - 1)
    BY DEF TypeOK
  <1>2. CASE UNCHANGED schedulerVars
    BY <1>2 DEF TypeOK, schedulerVars, tasks, history
  <1>3. ASSUME StartDue
        PROVE  /\ active' \in [Collectors -> BOOLEAN]
               /\ \A c \in Collectors : until'[c] \in -MaxLag .. Interval[c]
               /\ task' \in [Collectors -> {"none", "collecting", "sending", "panicked"}]
               /\ \A c \in Collectors : runLeft'[c] \in 0 .. MaxRuntime[c]
               /\ softLeft' \in [Collectors -> 0 .. SoftDeadline]
               /\ slotUsed' \in [Collectors -> BOOLEAN]
               /\ UNCHANGED <<full, channel, interrupted, clock, prompt>>
    <2>1. active' \in [Collectors -> BOOLEAN]
      BY <1>3 DEF StartDue, TypeOK
    <2>2. ASSUME NEW c \in Collectors PROVE until'[c] \in -MaxLag .. Interval[c]
      <3>1. until'[c] = IF c \in Due THEN NextSlot(c) ELSE until[c]
        BY <1>3 DEF StartDue
      <3>2. CASE c \in Due
        <4>1. until[c] \in Int /\ until[c] <= 0
          BY <1>0, <1>1, <3>2 DEF Due
        <4>2. NextSlot(c) \in 1 .. Interval[c]
          BY <4>1, NextSlotIsAhead
        <4> QED BY <1>0, <3>1, <3>2, <4>2
      <3> QED BY <1>1, <3>1, <3>2
    <2>3. /\ task' \in [Collectors -> {"none", "collecting", "sending", "panicked"}]
          /\ softLeft' \in [Collectors -> 0 .. SoftDeadline]
      BY <1>0, <1>3 DEF StartDue, TypeOK
    <2>4. \A c \in Collectors : runLeft'[c] \in 0 .. MaxRuntime[c]
      BY <1>0, <1>1, <1>3 DEF StartDue
    <2>5. slotUsed' \in [Collectors -> BOOLEAN]
      BY <1>3 DEF StartDue, TypeOK
    <2>6. UNCHANGED <<full, channel, interrupted, clock, prompt>>
      BY <1>3 DEF StartDue
    <2> QED BY <2>1, <2>2, <2>3, <2>4, <2>5, <2>6
  <1>4. CASE Emit
    <2>1. StartDue /\ finished' = << >> /\ UNCHANGED phase
      BY <1>4 DEF Emit
    <2>2. finished' \in Seq(Held)
      BY <2>1
    <2> QED BY <1>3, <2>1, <2>2 DEF TypeOK
  <1>5. CASE Wait
    <2>1. StartDue /\ phase' = "select" /\ UNCHANGED finished
      BY <1>5 DEF Wait
    <2> QED BY <1>3, <2>1 DEF TypeOK
  <1>6. CASE StopLoop
    <2>1. finished' \in Seq(Held)
      BY <1>6 DEF StopLoop
    <2>2. /\ active' \in [Collectors -> BOOLEAN]
          /\ task' \in [Collectors -> {"none", "collecting", "sending", "panicked"}]
      BY <1>6 DEF StopLoop
    <2> QED BY <1>6, <2>1, <2>2 DEF TypeOK, StopLoop, history
  <1>7. CASE Receive
    <2>1. channel # << >> /\ channel' = Tail(channel)
      BY <1>7 DEF Receive
    <2>2. Head(channel) \in Results
      <3> HIDE DEF Results
      <3>1. 1 \in 1 .. Len(channel) /\ Head(channel) = channel[1]
        BY <1>1, <2>1
      <3> QED BY <1>1, <3>1
    <2>3. channel' \in Seq(Results) /\ Len(channel') <= Capacity
      BY <1>0, <1>1, <2>1
    <2> DEFINE c == Head(channel).name
    <2>4. c \in Collectors
      BY <2>2
    <2>5. active' \in [Collectors -> BOOLEAN]
      <3>1. active' = [active EXCEPT ![c] = FALSE]
        BY <1>7 DEF Receive
      <3> QED BY <2>4, <3>1 DEF TypeOK
    <2>6. finished' \in Seq(Held)
      <3>1. \/ finished' = Append(finished, [name |-> c, left |-> softLeft[c]])
            \/ finished' = finished
        BY <1>7 DEF Receive
      <3>2. [name |-> c, left |-> softLeft[c]] \in Held
        BY <1>1, <2>4
      <3>3. finished \in Seq(Held)
        BY <1>1
      <3> DEFINE h == [name |-> c, left |-> softLeft[c]]
      <3> HIDE DEF c, Held, h
      <3> QED BY <3>1, <3>2, <3>3 DEF h
    <2> QED BY <1>7, <2>3, <2>5, <2>6 DEF TypeOK, Receive, tasks, history
  <1>8. CASE TimerFires \/ CtrlC
    BY <1>8 DEF TypeOK, TimerFires, CtrlC, tasks, history
  <1>9. ASSUME NEW c \in Collectors, Collected(c) \/ TimedOut(c) \/ Panics(c) PROVE TypeOK'
    <2>1. task' \in [Collectors -> {"none", "collecting", "sending", "panicked"}]
      BY <1>9 DEF Collected, TimedOut, Panics, TypeOK
    <2>2. full' \in [Collectors -> BOOLEAN]
      <3>1. \E b \in BOOLEAN : full' = [full EXCEPT ![c] = b] \/ full' = full
        BY <1>9 DEF Collected, TimedOut, Panics
      <3> QED BY <3>1 DEF TypeOK
    <2>3. UNCHANGED <<phase, active, until, runLeft, softLeft, channel, finished, interrupted, history>>
      BY <1>9 DEF Collected, TimedOut, Panics
    <2> QED BY <2>1, <2>2, <2>3 DEF TypeOK, history
  <1>10. ASSUME NEW c \in Collectors, SendResult(c) PROVE TypeOK'
    <2>1. /\ Len(channel) < Capacity
          /\ channel' = Append(channel, [name |-> c, full |-> full[c]])
      BY <1>10 DEF SendResult
    <2>2. [name |-> c, full |-> full[c]] \in Results
      BY DEF TypeOK
    <2>3. channel' \in Seq(Results) /\ Len(channel') <= Capacity
      <3> HIDE DEF Results
      <3> QED BY <1>0, <1>1, <2>1, <2>2
    <2>4. /\ task' \in [Collectors -> {"none", "collecting", "sending", "panicked"}]
          /\ full' \in [Collectors -> BOOLEAN]
      BY <1>10 DEF SendResult, TypeOK
    <2> QED BY <1>10, <2>3, <2>4 DEF TypeOK, SendResult, history
  <1>11. CASE Tick
    <2>1. UNCHANGED <<phase, active, task, full, channel, interrupted>>
      BY <1>11 DEF Tick
    <2>2. ASSUME NEW c \in Collectors
          PROVE  /\ until'[c] \in -MaxLag .. Interval[c]
                 /\ runLeft'[c] \in 0 .. MaxRuntime[c]
                 /\ clock'[c] \in 0 .. (Interval[c] - 1)
      <3>1. until'[c] = Later(c) /\ runLeft'[c] = Less(runLeft[c])
            /\ clock'[c] = (clock[c] + 1) % Interval[c]
        BY <1>11 DEF Tick
      <3>2. until'[c] \in -MaxLag .. Interval[c]
        <4>1. /\ until[c] \in -MaxLag .. Interval[c] /\ Interval[c] \in Nat \ {0}
              /\ Interval[c] <= MaxLag /\ MaxLag \in Nat
          BY <1>0, <1>1
        <4> DEFINE u == until[c]
                   v == Interval[c]
        <4>2. until'[c] = IF u <= -MaxLag THEN u - 1 + v ELSE u - 1
          BY <3>1 DEF Later
        <4> HIDE DEF u, v
        <4> QED BY <4>1, <4>2 DEF u, v
      <3>3. runLeft'[c] \in 0 .. MaxRuntime[c]
        <4>1. runLeft[c] \in 0 .. MaxRuntime[c] /\ MaxRuntime[c] \in Nat
          BY <1>0, <1>1
        <4> DEFINE n == runLeft[c]
                   m == MaxRuntime[c]
        <4>2. runLeft'[c] = IF n = 0 THEN 0 ELSE n - 1
          BY <3>1 DEF Less
        <4> HIDE DEF n, m
        <4> QED BY <4>1, <4>2 DEF n, m
      <3>4. clock'[c] \in 0 .. (Interval[c] - 1)
        <4>1. Interval[c] \in Nat \ {0} /\ clock[c] \in 0 .. (Interval[c] - 1)
          BY <1>0, <1>1
        <4>2. clock'[c] = IF clock[c] + 1 = Interval[c] THEN 0 ELSE clock[c] + 1
          BY <3>1, <4>1, ClockWraps
        <4> DEFINE k == clock[c]
                   v == Interval[c]
        <4> HIDE DEF k, v
        <4> QED BY <4>1, <4>2 DEF k, v
      <3> QED BY <3>2, <3>3, <3>4
    <2>3. softLeft' \in [Collectors -> 0 .. SoftDeadline]
      BY <1>0, <1>1, <1>11 DEF Tick, Less
    <2>4. finished' \in Seq(Held)
      <3>1. /\ Len(finished) \in Nat /\ DOMAIN finished = 1 .. Len(finished)
            /\ \A i \in DOMAIN finished : finished[i] \in Held
        <4> HIDE DEF Held
        <4> QED BY <1>1
      <3>2. finished' = [i \in DOMAIN finished |->
                            [finished[i] EXCEPT !.left = Less(finished[i].left)]]
        BY <1>11 DEF Tick
      <3>3. ASSUME NEW i \in DOMAIN finished
            PROVE  [finished[i] EXCEPT !.left = Less(finished[i].left)] \in Held
        BY <1>0, <3>1 DEF Less
      <3> HIDE DEF Held
      <3>4. finished' \in [1 .. Len(finished) -> Held]
        BY <3>1, <3>2, <3>3
      <3> QED BY <3>1, <3>4
    <2>5. slotUsed' \in [Collectors -> BOOLEAN] /\ prompt' \in BOOLEAN
      BY <1>11 DEF Tick
    <2> QED BY <2>1, <2>2, <2>3, <2>4, <2>5 DEF TypeOK
  <1> QED BY <1>2, <1>4, <1>5, <1>6, <1>7, <1>8, <1>9, <1>10, <1>11
      DEF SchedulerNext, Loop, TaskStep

-----------------------------------------------------------------------------
(* Which collectors are in flight. *)

\* The results of collector c that a channel holds.
ResultsOf(ch, c) == {i \in DOMAIN ch : ch[i].name = c}

LEMMA SendQueues ==
    ASSUME NEW R, NEW ch \in Seq(R), NEW r, NEW d
    PROVE  ResultsOf(Append(ch, r), d) = IF d = r.name THEN ResultsOf(ch, d) \cup {Len(ch) + 1}
                                                       ELSE ResultsOf(ch, d)
  <1>1. /\ Len(ch) \in Nat /\ DOMAIN ch = 1 .. Len(ch)
        /\ DOMAIN Append(ch, r) = 1 .. (Len(ch) + 1)
        /\ \A i \in 1 .. Len(ch) : Append(ch, r)[i] = ch[i]
        /\ Append(ch, r)[Len(ch) + 1] = r
    OBVIOUS
  <1>2. DOMAIN Append(ch, r) = DOMAIN ch \cup {Len(ch) + 1}
    BY <1>1
  <1> QED BY <1>1, <1>2 DEF ResultsOf

LEMMA ReceiveQueues ==
    ASSUME NEW R, NEW ch \in Seq(R), ch # << >>, NEW d
    PROVE  \A i \in ResultsOf(Tail(ch), d) : i \in Nat /\ i >= 1 /\ i + 1 \in ResultsOf(ch, d)
  <1>1. /\ Len(ch) \in Nat /\ DOMAIN ch = 1 .. Len(ch)
        /\ DOMAIN Tail(ch) = 1 .. (Len(ch) - 1)
        /\ \A i \in 1 .. (Len(ch) - 1) : Tail(ch)[i] = ch[i + 1]
    OBVIOUS
  <1> QED BY <1>1 DEF ResultsOf

LEMMA ReceiveKeepsOthers ==
    ASSUME NEW R, NEW ch \in Seq(R), ch # << >>, NEW d, d # ch[1].name, ResultsOf(ch, d) # {}
    PROVE  ResultsOf(Tail(ch), d) # {}
  <1>1. /\ Len(ch) \in Nat /\ DOMAIN ch = 1 .. Len(ch)
        /\ DOMAIN Tail(ch) = 1 .. (Len(ch) - 1)
        /\ \A i \in 1 .. (Len(ch) - 1) : Tail(ch)[i] = ch[i + 1]
    OBVIOUS
  <1>2. PICK i \in 1 .. Len(ch) : ch[i].name = d
    BY <1>1 DEF ResultsOf
  <1>3. i # 1 /\ i - 1 \in 1 .. (Len(ch) - 1) /\ Tail(ch)[i - 1] = ch[i]
    BY <1>1, <1>2
  <1> QED BY <1>1, <1>2, <1>3 DEF ResultsOf

\* ActiveIsTrue for one collector.
FlightIsKnown(a, t, ch, c) == /\ a <=> t # "none" \/ ResultsOf(ch, c) # {}
                              /\ t # "none" => ResultsOf(ch, c) = {}
                              /\ \A i, j \in ResultsOf(ch, c) : i = j

LEMMA ActiveNow ==
    ActiveIsTrue <=>
        (phase # "stopped" => \A c \in Collectors : FlightIsKnown(active[c], task[c], channel, c))
  BY DEF ActiveIsTrue, FlightIsKnown, Queued, ResultsOf

LEMMA ActiveNext ==
    ActiveIsTrue' <=>
        (phase' # "stopped" =>
            \A c \in Collectors : FlightIsKnown(active'[c], task'[c], channel', c))
  BY DEF ActiveIsTrue, FlightIsKnown, Queued, ResultsOf

LEMMA ActiveStep ==
    ASSUME TypeOK, ActiveIsTrue, [SchedulerNext]_schedulerVars
    PROVE  ActiveIsTrue'
  <1> DEFINE R == [name : Collectors, full : BOOLEAN]
  <1>0. /\ channel \in Seq(R) /\ active \in [Collectors -> BOOLEAN]
        /\ task \in [Collectors -> {"none", "collecting", "sending", "panicked"}]
    BY DEF TypeOK
  <1> HIDE DEF R
  <1>1. CASE UNCHANGED <<active, task, channel>> /\ (phase = "stopped" => phase' = "stopped")
    BY <1>1, ActiveNow, ActiveNext
  <1>2. CASE StartDue /\ phase = "top"
    <2>1. channel' = channel
      BY <1>2 DEF StartDue
    <2>2. ASSUME NEW c \in Collectors PROVE FlightIsKnown(active'[c], task'[c], channel', c)
      <3>1. FlightIsKnown(active[c], task[c], channel, c)
        BY <1>2, ActiveNow
      <3>2. CASE c \in Due
        <4>1. ~active[c] /\ active'[c] /\ task'[c] = "collecting"
          BY <1>2, <3>2 DEF StartDue, Due
        <4> QED BY <2>1, <3>1, <4>1 DEF FlightIsKnown
      <3>3. CASE c \notin Due
        <4>1. active'[c] = active[c] /\ task'[c] = task[c]
          BY <1>0, <1>2, <3>3 DEF StartDue
        <4> QED BY <2>1, <3>1, <4>1
      <3> QED BY <3>2, <3>3
    <2> QED BY <2>2, ActiveNext
  <1>3. CASE StopLoop
    BY <1>3, ActiveNext DEF StopLoop
  <1>4. CASE Receive
    <2> DEFINE d == Head(channel).name
    <2>1. /\ phase # "stopped" /\ channel # << >> /\ channel' = Tail(channel)
          /\ active' = [active EXCEPT ![d] = FALSE] /\ task' = task
      BY <1>4 DEF Receive, tasks
    <2>2. 1 \in DOMAIN channel /\ d = channel[1].name /\ 1 \in ResultsOf(channel, d)
      <3>1. 1 \in DOMAIN channel /\ d = channel[1].name
        BY <1>0, <2>1
      <3> QED BY <3>1 DEF ResultsOf
    <2> HIDE DEF d
    <2>3. ASSUME NEW c \in Collectors PROVE FlightIsKnown(active'[c], task'[c], channel', c)
      <3>1. FlightIsKnown(active[c], task[c], channel, c)
        BY <2>1, ActiveNow
      <3>2. \A i \in ResultsOf(channel', c) : i \in Nat /\ i >= 1 /\ i + 1 \in ResultsOf(channel, c)
        BY <1>0, <2>1, ReceiveQueues
      <3>3. CASE c = d
        <4>1. ResultsOf(channel', c) = {}
          BY <2>2, <3>1, <3>2, <3>3 DEF FlightIsKnown
        <4>2. task'[c] = "none" /\ ~active'[c]
          BY <1>0, <2>1, <2>2, <3>1, <3>3 DEF FlightIsKnown
        <4> QED BY <4>1, <4>2 DEF FlightIsKnown
      <3>4. CASE c # d
        <4>1. active'[c] = active[c]
          BY <1>0, <2>1, <3>4
        <4>2. ResultsOf(channel, c) # {} <=> ResultsOf(channel', c) # {}
          BY <1>0, <2>1, <2>2, <3>2, <3>4, ReceiveKeepsOthers
        <4>3. \A i, j \in ResultsOf(channel', c) : i = j
          <5> SUFFICES ASSUME NEW i \in ResultsOf(channel', c), NEW j \in ResultsOf(channel', c)
                       PROVE  i = j
            OBVIOUS
          <5>1. i + 1 = j + 1
            BY <3>1, <3>2 DEF FlightIsKnown
          <5> QED BY <3>2, <5>1
        <4> QED BY <2>1, <3>1, <4>1, <4>2, <4>3 DEF FlightIsKnown
      <3> QED BY <3>3, <3>4
    <2> QED BY <2>3, ActiveNext
  <1>5. ASSUME NEW c \in Collectors, Collected(c) \/ TimedOut(c) \/ Panics(c)
        PROVE  ActiveIsTrue'
    <2>1. /\ task[c] = "collecting" /\ UNCHANGED <<phase, active, channel>>
          /\ \E t \in {"sending", "panicked"} : task' = [task EXCEPT ![c] = t]
      BY <1>5 DEF Collected, TimedOut, Panics
    <2>2. ASSUME phase # "stopped", NEW d \in Collectors
          PROVE  FlightIsKnown(active'[d], task'[d], channel', d)
      <3>1. FlightIsKnown(active[d], task[d], channel, d)
        BY <2>2, ActiveNow
      <3>2. task'[d] # "none" <=> task[d] # "none"
        BY <1>0, <2>1
      <3> QED BY <2>1, <3>1, <3>2 DEF FlightIsKnown
    <2> QED BY <2>1, <2>2, ActiveNext
  <1>6. ASSUME NEW c \in Collectors, SendResult(c) PROVE ActiveIsTrue'
    <2> DEFINE r == [name |-> c, full |-> full[c]]
    <2>1. /\ task[c] = "sending" /\ UNCHANGED <<phase, active>>
          /\ channel' = Append(channel, r) /\ task' = [task EXCEPT ![c] = "none"]
      BY <1>6 DEF SendResult
    <2>2. r.name = c
      OBVIOUS
    <2> HIDE DEF r
    <2>3. ASSUME phase # "stopped", NEW d \in Collectors
          PROVE  FlightIsKnown(active'[d], task'[d], channel', d)
      <3>1. FlightIsKnown(active[d], task[d], channel, d)
        BY <2>3, ActiveNow
      <3>2. ResultsOf(channel', d) = IF d = c THEN ResultsOf(channel, d) \cup {Len(channel) + 1}
                                              ELSE ResultsOf(channel, d)
        BY <1>0, <2>1, <2>2, SendQueues
      <3>3. CASE d = c
        <4>1. ResultsOf(channel', d) = {Len(channel) + 1}
          BY <2>1, <3>1, <3>2, <3>3 DEF FlightIsKnown
        <4>2. task'[d] = "none" /\ active'[d]
          BY <1>0, <2>1, <3>1, <3>3 DEF FlightIsKnown
        <4> QED BY <4>1, <4>2 DEF FlightIsKnown
      <3>4. CASE d # c
        <4>1. task'[d] = task[d]
          BY <1>0, <2>1, <3>4
        <4>2. ResultsOf(channel', d) = ResultsOf(channel, d) /\ active'[d] = active[d]
          BY <2>1, <3>2, <3>4
        <4> QED BY <3>1, <4>1, <4>2 DEF FlightIsKnown
      <3> QED BY <3>3, <3>4
    <2> QED BY <2>1, <2>3, ActiveNext
  <1>7. CASE Emit \/ Wait
    BY <1>2, <1>7 DEF Emit, Wait
  <1>8. CASE TimerFires \/ CtrlC \/ Tick \/ UNCHANGED schedulerVars
    BY <1>1, <1>8 DEF TimerFires, CtrlC, Tick, schedulerVars, tasks
  <1> QED BY <1>3, <1>4, <1>5, <1>6, <1>7, <1>8 DEF SchedulerNext, Loop, TaskStep

LEMMA GridStep ==
    ASSUME TypeOK, TypeOK', OnGrid, PlannedForNextPoint, [SchedulerNext]_schedulerVars
    PROVE  OnGrid' /\ PlannedForNextPoint'
  <1>1. CASE UNCHANGED <<until, clock, slotUsed>>
    BY <1>1 DEF OnGrid, PlannedForNextPoint
  <1>2. CASE StartDue
    BY <1>2, StartDueKeepsGrid
  <1>3. CASE Tick
    BY <1>3, TickKeepsGrid
  <1>4. CASE Emit \/ Wait
    BY <1>2, <1>4 DEF Emit, Wait
  <1>5. CASE StopLoop \/ Receive \/ TimerFires \/ CtrlC
    BY <1>1, <1>5 DEF StopLoop, Receive, TimerFires, CtrlC, history
  <1>6. ASSUME NEW c \in Collectors, TaskStep(c) PROVE OnGrid' /\ PlannedForNextPoint'
    BY <1>1, <1>6 DEF TaskStep, Collected, TimedOut, Panics, SendResult, history
  <1>7. CASE UNCHANGED schedulerVars
    BY <1>1, <1>7 DEF schedulerVars, history
  <1> QED BY <1>3, <1>4, <1>5, <1>6, <1>7 DEF SchedulerNext, Loop

-----------------------------------------------------------------------------
(* The theorems. *)

LEMMA SchedulerInvInit == SchedulerInit => SchedulerInv
  <1> SUFFICES ASSUME SchedulerInit PROVE SchedulerInv
    OBVIOUS
  <1>0. /\ \A c \in Collectors : Interval[c] \in Nat \ {0}
        /\ MaxLag \in Nat /\ MaxRuntime \in [Collectors -> Nat] /\ SoftDeadline \in Nat
        /\ Capacity \in Nat \ {0}
    BY SchedulerAssumption
  <1>1. /\ phase = "top" /\ channel = << >> /\ finished = << >> /\ DOMAIN channel = {}
        /\ \A c \in Collectors : /\ ~active[c] /\ until[c] = 0 /\ task[c] = "none"
                                 /\ runLeft[c] = 0 /\ clock[c] = 0 /\ ~slotUsed[c]
    BY DEF SchedulerInit
  <1>2. TypeOK
    <2>1. /\ active \in [Collectors -> BOOLEAN] /\ full \in [Collectors -> BOOLEAN]
          /\ slotUsed \in [Collectors -> BOOLEAN] /\ interrupted \in BOOLEAN
          /\ prompt \in BOOLEAN
          /\ task \in [Collectors -> {"none", "collecting", "sending", "panicked"}]
      BY DEF SchedulerInit
    <2>2. softLeft \in [Collectors -> 0 .. SoftDeadline]
      BY <1>0 DEF SchedulerInit
    <2>3. /\ channel \in Seq([name : Collectors, full : BOOLEAN])
          /\ finished \in Seq([name : Collectors, left : 0 .. SoftDeadline])
          /\ Len(channel) <= Capacity
      BY <1>0, <1>1
    <2> QED BY <1>0, <1>1, <2>1, <2>2, <2>3 DEF TypeOK
  <1>3. ActiveIsTrue /\ PlannedForNextPoint
    BY <1>1 DEF ActiveIsTrue, PlannedForNextPoint, Queued
  <1>4. OnGrid
    <2>1. 0 \in -MaxLag .. 1 /\ \A c \in Collectors : until[c] + clock[c] = 0 * Interval[c]
      BY <1>0, <1>1
    <2> QED BY <2>1 DEF OnGrid
  <1> QED BY <1>2, <1>3, <1>4 DEF SchedulerInv

\* The invariant of scheduler_loop and its tasks.
THEOREM SchedulerInvariant == SchedulerSpec => []SchedulerInv
  <1>1. SchedulerInit => SchedulerInv
    BY SchedulerInvInit
  <1>2. SchedulerInv /\ [SchedulerNext]_schedulerVars => SchedulerInv'
    BY SchedulerTypeStep, ActiveStep, GridStep DEF SchedulerInv
  <1> QED BY <1>1, <1>2, PTL DEF SchedulerSpec

\* s.active says whether the collector's task, or its one result, is under way:
\* no collector ever collects twice at a time.
THEOREM InFlightIsKnown == SchedulerSpec => []ActiveIsTrue
  <1>1. SchedulerInv => ActiveIsTrue
    BY DEF SchedulerInv
  <1> QED BY <1>1, SchedulerInvariant, PTL

\* Before a soft deadline is over, what was finished is submitted only when nothing
\* that was started is missing from it: `active' tells of every collection, of one
\* whose result waits in the channel and of those just started as well.
THEOREM NothingIsLeftBehind == SchedulerSpec => EmittedTogether
  <1> DEFINE Together == (phase = "top" /\ finished # << >> /\ finished' = << >> /\ ~SoftDeadlineOver)
                            => channel' = << >> /\ \A c \in Collectors : task'[c] = "none"
  <1>1. SchedulerInv /\ [SchedulerNext]_schedulerVars => [Together]_schedulerVars
    <2> SUFFICES ASSUME SchedulerInv, SchedulerNext,
                        phase = "top", finished # << >>, finished' = << >>, ~SoftDeadlineOver
                 PROVE  channel' = << >> /\ \A c \in Collectors : task'[c] = "none"
      OBVIOUS
    <2> DEFINE F == [name : Collectors, left : 0 .. SoftDeadline]
               R == [name : Collectors, full : BOOLEAN]
    <2>1. /\ finished \in Seq(F) /\ channel \in Seq(R)
          /\ \A r \in R : r.name \in Collectors
          /\ task \in [Collectors -> {"none", "collecting", "sending", "panicked"}]
      BY DEF SchedulerInv, TypeOK
    <2> HIDE DEF F, R
    \* Only Emit empties `finished' at the top of the loop.
    <2>2. ~Wait /\ ~StopLoop /\ ~Receive /\ ~TimerFires /\ ~CtrlC
      BY DEF Wait, StopLoop, Receive, TimerFires, CtrlC
    <2>3. ~Tick
      <3>1. DOMAIN finished # {}
        <4>1. 1 \in DOMAIN finished
          BY <2>1
        <4> QED BY <4>1
      <3>2. Tick => DOMAIN finished' = DOMAIN finished
        BY DEF Tick
      <3> QED BY <3>1, <3>2
    <2>4. \A c \in Collectors : ~TaskStep(c)
      BY DEF TaskStep, Collected, TimedOut, Panics, SendResult
    <2>5. Emit
      BY <2>2, <2>3, <2>4 DEF SchedulerNext, Loop
    <2>6. StartDue /\ \A c \in Collectors : ~active[c] /\ c \notin Due
      BY <2>5 DEF Emit, ReadyToEmit, AnyActive
    <2>7. ASSUME NEW c \in Collectors PROVE task[c] = "none" /\ Queued(c) = {}
      BY <2>6 DEF SchedulerInv, ActiveIsTrue
    <2>8. channel = << >>
      <3> SUFFICES ASSUME channel # << >> PROVE FALSE
        OBVIOUS
      <3>1. 1 \in DOMAIN channel /\ channel[1].name \in Collectors
        BY <2>1
      <3> QED BY <2>7, <3>1 DEF Queued
    <2>9. channel' = channel /\ \A c \in Collectors : task'[c] = task[c]
      BY <2>1, <2>6 DEF StartDue
    <2> QED BY <2>7, <2>8, <2>9
  <1> QED BY <1>1, SchedulerInvariant, PTL DEF SchedulerSpec, EmittedTogether

\* The catch-up of next_run never leaves the collector's grid, however late it
\* starts and however long it runs.
THEOREM CadenceDoesNotDrift == SchedulerSpec => []OnGrid
  <1>1. SchedulerInv => OnGrid
    BY DEF SchedulerInv
  <1> QED BY <1>1, SchedulerInvariant, PTL

\* Missed starts are not made up for: one start per point of the grid.
THEOREM MissedStartsAreSkipped == SchedulerSpec => OneStartPerSlot
  <1> DEFINE Once == \A c \in Collectors : (~active[c] /\ active'[c]) => ~slotUsed[c]
  <1>1. SchedulerInv /\ [SchedulerNext]_schedulerVars => [Once]_schedulerVars
    <2> SUFFICES ASSUME SchedulerInv, SchedulerNext,
                        NEW c \in Collectors, ~active[c], active'[c], slotUsed[c]
                 PROVE  FALSE
      OBVIOUS
    <2>1. /\ active \in [Collectors -> BOOLEAN]
          /\ until[c] + clock[c] = Interval[c] /\ clock[c] \in 0 .. (Interval[c] - 1)
          /\ until[c] \in -MaxLag .. Interval[c] /\ Interval[c] \in Nat \ {0} /\ MaxLag \in Nat
      BY SchedulerAssumption DEF SchedulerInv, TypeOK, PlannedForNextPoint
    <2>2. CASE StartDue
      <3>1. c \in Due
        BY <2>1, <2>2 DEF StartDue
      <3> QED BY <2>1, <3>1 DEF Due
    <2>3. CASE Receive
      <3>1. active' = [active EXCEPT ![Head(channel).name] = FALSE]
        BY <2>3 DEF Receive
      <3> QED BY <2>1, <3>1
    <2>4. ~(UNCHANGED active)
      OBVIOUS
    <2>5. ~StopLoop
      BY DEF StopLoop
    <2>6. ~TimerFires /\ ~CtrlC /\ ~Tick
      BY <2>4 DEF TimerFires, CtrlC, Tick
    <2>7. \A d \in Collectors : ~TaskStep(d)
      BY <2>4 DEF TaskStep, Collected, TimedOut, Panics, SendResult
    <2> QED BY <2>2, <2>3, <2>5, <2>6, <2>7 DEF SchedulerNext, Loop, Emit, Wait
  <1> QED BY <1>1, SchedulerInvariant, PTL DEF SchedulerSpec, OneStartPerSlot
-----------------------------------------------------------------------------
(* Deadlines. *)

LEMMA ElementsOf ==
    ASSUME NEW R, NEW s \in Seq(R)
    PROVE  /\ DOMAIN s = 1 .. Len(s)
           /\ \A i \in DOMAIN s : s[i] \in R
           /\ s # << >> => Head(s) \in R
  OBVIOUS

LEMMA DeadlineStep ==
    ASSUME TypeOK, DeadlineFromStart, [SchedulerNext]_schedulerVars
    PROVE  DeadlineFromStart'
  <1> USE DEF DeadlineFromStart
  <1>0. /\ SoftDeadline \in Nat
        /\ softLeft \in [Collectors -> 0 .. SoftDeadline]
        /\ \A i \in DOMAIN finished : /\ finished[i].name \in Collectors
                                      /\ finished[i].left \in 0 .. SoftDeadline
    <2>1. \A i \in DOMAIN finished : finished[i] \in [name : Collectors, left : 0 .. SoftDeadline]
      BY ElementsOf DEF TypeOK
    <2> QED BY <2>1, SchedulerAssumption DEF TypeOK
  <1>1. CASE UNCHANGED <<finished, softLeft>>
    BY <1>1
  <1>2. CASE finished' = << >>
    BY <1>2
  <1>3. CASE Wait
    <2>1. /\ finished' = finished
          /\ softLeft' = [c \in Collectors |-> IF c \in Due THEN SoftDeadline ELSE softLeft[c]]
      BY <1>3 DEF Wait, StartDue
    <2> SUFFICES ASSUME NEW i \in DOMAIN finished
                 PROVE  finished[i].left <= softLeft'[finished[i].name]
      BY <2>1
    <2> DEFINE c == finished[i].name
    <2>2. c \in Collectors /\ softLeft'[c] = IF c \in Due THEN SoftDeadline ELSE softLeft[c]
      BY <1>0, <2>1
    <2>3. finished[i].left <= softLeft[c] /\ finished[i].left <= SoftDeadline
      BY <1>0
    <2> QED BY <2>2, <2>3
  <1>4. CASE Receive
    \* Only the record of the result received is new.
    <2> DEFINE c == Head(channel).name
               f == [name |-> c, left |-> softLeft[c]]
    <2>1. softLeft' = softLeft /\ finished' \in {finished, Append(finished, f)}
      BY <1>4 DEF Receive, tasks
    <2>2. CASE finished' = Append(finished, f)
      <3>1. f.left <= softLeft[f.name]
        <4>1. Head(channel) \in [name : Collectors, full : BOOLEAN]
          BY <1>4, ElementsOf DEF Receive, TypeOK
        <4>2. c \in Collectors
          BY <4>1
        <4> QED BY <1>0, <4>2
      <3>2. /\ finished \in Seq([name : Collectors, left : 0 .. SoftDeadline])
            /\ DOMAIN finished = 1 .. Len(finished)
        BY DEF TypeOK
      <3> HIDE DEF f
      <3>3. /\ DOMAIN finished' = 1 .. (Len(finished) + 1)
            /\ \A i \in 1 .. Len(finished) : finished'[i] = finished[i]
            /\ finished'[Len(finished) + 1] = f
        BY <2>2, <3>2
      <3> QED BY <2>1, <3>1, <3>2, <3>3
    <2> QED BY <1>1, <2>1, <2>2
  <1>5. CASE Tick
    <2> SUFFICES ASSUME NEW i \in DOMAIN finished'
                 PROVE  finished'[i].left <= softLeft'[finished'[i].name]
      OBVIOUS
    <2> DEFINE c == finished[i].name
    <2>1. /\ i \in DOMAIN finished
          /\ finished'[i] = [finished[i] EXCEPT !.left = Less(finished[i].left)]
      BY <1>5 DEF Tick
    <2>2. finished'[i].name = c /\ finished'[i].left = Less(finished[i].left)
      <3>1. finished[i] \in [name : Collectors, left : 0 .. SoftDeadline]
        BY <2>1, ElementsOf DEF TypeOK
      <3> QED BY <2>1, <3>1
    <2>3. c \in Collectors /\ softLeft'[c] = Less(softLeft[c])
      BY <1>0, <1>5, <2>1 DEF Tick
    <2>4. finished[i].left \in Nat /\ softLeft[c] \in Nat /\ finished[i].left <= softLeft[c]
      BY <1>0, <2>1, <2>3
    <2> QED BY <2>2, <2>3, <2>4 DEF Less
  <1>6. CASE Emit \/ StopLoop
    BY <1>2, <1>6 DEF Emit, StopLoop
  <1>7. CASE TimerFires \/ CtrlC \/ UNCHANGED schedulerVars
    BY <1>1, <1>7 DEF TimerFires, CtrlC, schedulerVars
  <1>8. ASSUME NEW c \in Collectors, TaskStep(c) PROVE DeadlineFromStart'
    BY <1>1, <1>8 DEF TaskStep, Collected, TimedOut, Panics, SendResult
  <1> QED BY <1>3, <1>4, <1>5, <1>6, <1>7, <1>8 DEF SchedulerNext, Loop

\* soft_deadline_at of a finished entry is that of the collection it came from,
\* not of the result (handle_result copies active.started_at): the sleep that
\* emits it is over no later than the soft deadline of that collector.
THEOREM DeadlinesCountFromStart == SchedulerSpec => []DeadlineFromStart
  <1>1. SchedulerInit => DeadlineFromStart
    BY DEF SchedulerInit, DeadlineFromStart
  <1>2. SchedulerInv /\ DeadlineFromStart /\ [SchedulerNext]_schedulerVars
            => DeadlineFromStart'
    BY DeadlineStep DEF SchedulerInv
  <1> QED BY <1>1, <1>2, SchedulerInvariant, PTL DEF SchedulerSpec
=============================================================================
