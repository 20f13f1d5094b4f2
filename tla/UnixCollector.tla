---------------------------- MODULE UnixCollector ----------------------------
(***************************************************************************)
(* src/collector/unix: a tick of the Unix collector under the scheduler's  *)
(* max_runtime (src/pipeline.rs).  The sub-collectors run one after the    *)
(* other and without an await, except filesystem: it picks one mount per   *)
(* device and asks each for its statvfs on the runtime's blocking pool,    *)
(* one at a time.  A mount may hang; then the tick is dropped at           *)
(* max_runtime, but the call keeps its thread until the mount answers.     *)
(*                                                                         *)
(* tokio is outside the repository: the pool has PoolSize threads and one  *)
(* queue, so the threads work on the first PoolSize unfinished jobs.       *)
(***************************************************************************)
EXTENDS Naturals, SequencesExt

CONSTANTS Mounts,      \* mountinfo lines that pass the filters: [dev, root, point]
          MaxMounts,   \* bound: lines of one table
          Dedupe,      \* filesystem_dedupe_devices
          PoolSize,    \* threads of the blocking pool
          MaxJobs      \* bound: jobs of the pool that the model remembers

ASSUME UnixAssumption == /\ \A m \in Mounts : m.root \in BOOLEAN /\ m.point \in Nat
                         /\ MaxMounts \in Nat
                         /\ Dedupe \in BOOLEAN
                         /\ PoolSize \in Nat \ {0}
                         /\ MaxJobs \in Nat /\ MaxJobs > PoolSize

VARIABLES table,       \* the lines of /proc/self/mountinfo, in order
          hung,        \* mount points whose statvfs does not return at present
          broken,      \* some other sub-collector fails at present
          collecting,  \* a tick waits for a statvfs
          todo,        \* candidates it has not asked yet
          jobs,        \* mount points of the pool's unfinished calls, oldest first
          awaited,     \* position in jobs of the call the tick waits for, or 0
          outcome      \* how the last tick ended; "none" while one is on

unixVars == <<table, hung, broken, collecting, todo, jobs, awaited, outcome>>

Tables == {t \in BoundedSeq(Mounts, MaxMounts) : IsInjective(t)}
Points == {m.point : m \in Mounts}

\* Mistake: a bind mount with a lesser path takes the place of the whole mount.
IsMoreCanonicalOneWay(m, current) == \/ m.root /\ ~current.root
                                     \/ m.point < current.point

\* The mount of the whole file system before bind mounts, then the lesser path.
IsMoreCanonical(m, current) == \/ m.root /\ ~current.root
                               \/ m.root = current.root /\ m.point < current.point

KeepCanonical(byDev, m) ==
    IF m.dev \in DOMAIN byDev /\ ~IsMoreCanonical(m, byDev[m.dev])
    THEN byDev
    ELSE [d \in DOMAIN byDev \cup {m.dev} |-> IF d = m.dev THEN m ELSE byDev[d]]

Candidates == IF Dedupe THEN Range(FoldLeft(KeepCanonical, <<>>, table))
              ELSE Range(table)

UnixInit == /\ table \in Tables
            /\ hung = {}
            /\ broken = FALSE
            /\ collecting = FALSE
            /\ todo = {}
            /\ jobs = <<>>
            /\ awaited = 0
            /\ outcome = "none"

-----------------------------------------------------------------------------
(* The machine *)

\* A mount that is not asked may hang unnoticed.
Hang == /\ \E m \in Candidates : m.point \notin hung /\ hung' = hung \cup {m.point}
        /\ UNCHANGED <<table, broken, collecting, todo, jobs, awaited, outcome>>

Heal == /\ \E p \in hung : hung' = hung \ {p}
        /\ UNCHANGED <<table, broken, collecting, todo, jobs, awaited, outcome>>

BreakOrRepair == /\ broken' = ~broken
                 /\ UNCHANGED <<table, hung, collecting, todo, jobs, awaited, outcome>>

-----------------------------------------------------------------------------
(* The tick *)

\* spawn_blocking; beyond MaxJobs the oldest queued job is forgotten.
Spawn(pool, m) ==
    Append(IF Len(pool) < MaxJobs THEN pool ELSE RemoveAt(pool, PoolSize + 1), m.point)

\* collect is over: the error of any sub-collector discards all metrics.
EndTick(result) == /\ collecting' = FALSE
                   /\ todo' = {}
                   /\ awaited' = 0
                   /\ outcome' = result

\* filesystem::collect with the mounts rest to go, and then the sub-collectors
\* behind it.
GoOn(pool, rest) ==
    \/ \E m \in rest : /\ collecting' = TRUE
                       /\ todo' = rest \ {m}
                       /\ jobs' = Spawn(pool, m)
                       /\ awaited' = Len(jobs')
                       /\ outcome' = "none"
    \/ /\ rest = {}
       /\ jobs' = pool
       /\ EndTick("returned") \/ (broken /\ EndTick("failed"))

StartTick == /\ ~collecting
             /\ \/ GoOn(jobs, Candidates)
                \/ broken /\ EndTick("failed") /\ UNCHANGED jobs
             /\ UNCHANGED <<table, hung, broken>>

\* The i-th call returns, with a result or an error; a tick that waits for it
\* goes on to the next mount.
JobDone(i) == /\ i <= PoolSize /\ i <= Len(jobs)
              /\ jobs[i] \notin hung
              /\ \/ i = awaited /\ GoOn(RemoveAt(jobs, i), todo)
                 \/ /\ i # awaited
                    /\ jobs' = RemoveAt(jobs, i)
                    /\ awaited' = IF i < awaited THEN awaited - 1 ELSE awaited
                    /\ UNCHANGED <<collecting, todo, outcome>>
              /\ UNCHANGED <<table, hung, broken>>

\* Mistake: the call is let go of, but the lock of the collector is not given back.
DropTickKeepsLock == /\ collecting
                     /\ todo' = {}
                     /\ awaited' = 0
                     /\ outcome' = "aborted"
                     /\ UNCHANGED <<table, hung, broken, collecting, jobs>>

\* max_runtime elapses: the future is dropped, the call on its thread is not.
DropTick == /\ collecting
            /\ EndTick("aborted")
            /\ UNCHANGED <<table, hung, broken, jobs>>

UnixNext == \/ Hang \/ Heal \/ BreakOrRepair
            \/ StartTick \/ DropTick
            \/ \E i \in 1 .. PoolSize : JobDone(i)

\* The scheduler starts the collector for ever, max_runtime elapses, and a call
\* that can return returns.
UnixFairness == /\ WF_unixVars(StartTick)
                /\ WF_unixVars(DropTick)
                /\ \A i \in 1 .. PoolSize : WF_unixVars(JobDone(i))

-----------------------------------------------------------------------------
(* Properties *)

UnixTypeOK == /\ table \in Tables
              /\ hung \subseteq Points
              /\ broken \in BOOLEAN
              /\ collecting \in BOOLEAN
              /\ todo \subseteq Candidates
              /\ jobs \in BoundedSeq(Points, MaxJobs)
              /\ awaited \in 0 .. Len(jobs)
              /\ collecting <=> awaited # 0
              /\ outcome \in {"none", "returned", "failed", "aborted"}

\* filesystem.rs:130, "the choice is stable across runs regardless of mount
\* ordering": one mount per device is reported, a whole mount if there is one,
\* and its path depends on the set of mounts only, not on their order.
CanonicalIsStable ==
    Dedupe => \A m \in Range(table) :
        LET same == {n \in Range(table) : n.dev = m.dev}
            whole == {n \in same : n.root}
            best == IF whole = {} THEN same ELSE whole
        IN  \E c \in best : /\ Candidates \cap same = {c}
                            /\ \A n \in best : c.point <= n.point

\* Mounts that hung, however often and whatever threads their dropped ticks
\* still hold, and failing sub-collectors do no lasting harm: once they have
\* recovered, and max_runtime is enough for mounts that answer, ticks return
\* metrics again and again.
Recovered == <>[](hung = {} /\ ~broken)
DropsOnlyHung == <>[][DropTick => hung # {}]_unixVars

CollectsAgain == (Recovered /\ DropsOnlyHung) => []<>(outcome = "returned")

\* filesystem.rs:77, "so a single hung mount can't freeze the collector": while
\* one mount hangs and nothing else fails, ticks return metrics.
HungMountFreezesNothing ==
    ((\E p \in Points : <>[](hung = {p} /\ ~broken)) /\ DropsOnlyHung) =>
        []<>(outcome = "returned")
=============================================================================
