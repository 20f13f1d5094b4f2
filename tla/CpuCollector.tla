---------------------------- MODULE CpuCollector ----------------------------
(***************************************************************************)
(* src/collector/unix/cpu.rs, on a machine whose CPUs go offline and come  *)
(* back.  /proc/stat and sysfs know only those that are online.  Of the    *)
(* time modes and the frequencies one each is kept.                        *)
(***************************************************************************)
EXTENDS Naturals, FiniteSets, LabelCache

CONSTANTS Cpus,         \* numbers from 0
          PackageOf,    \* of each CPU
          MaxSeconds    \* bound: seconds a CPU is busy

VARIABLES online, seconds

cpuVars == <<online, seconds>>

CpuInit == online = Cpus /\ seconds = [c \in Cpus |-> 0]

\* The line that /proc/stat has at position i, counted from 0.
StatLine(i) == CHOOSE c \in online : Cardinality({d \in online : d < c}) = i

\* The loop numbers the lines of /proc/stat, and takes the numbers for CPUs.
CpuIndexes == 0 .. (Cardinality(online) - 1)

\* Files in the sysfs directory of CPU i.
HasSysfs(i) == i \in online

\* Mistake: seen_packages is not looked at.
EveryOfPackage == {i \in CpuIndexes : HasSysfs(i)}

\* The first index of each package: seen_packages.insert() is true.
FirstOfPackage == {i \in CpuIndexes :
                       /\ HasSysfs(i)
                       /\ \A j \in CpuIndexes : HasSysfs(j) /\ PackageOf[j] = PackageOf[i]
                                                => i <= j}

CpuMetrics ==
    {Metric("cpu_seconds_total", [cpu |-> i, mode |-> "user"], seconds[StatLine(i)],
            StatLine(i)) : i \in CpuIndexes}
    \cup {Metric("cpu_scaling_frequency_hertz", [cpu |-> i], 1, i) :
              i \in {j \in CpuIndexes : HasSysfs(j)}}
    \cup {Metric("cpu_core_throttles_total", [cpu |-> i, package |-> PackageOf[i]], 0, i) :
              i \in {j \in CpuIndexes : HasSysfs(j)}}
    \cup {Metric("cpu_package_throttles_total", [package |-> PackageOf[i]], 0, i) :
              i \in FirstOfPackage}

-----------------------------------------------------------------------------
(* The machine *)

Work(c) == /\ c \in online
           /\ seconds[c] < MaxSeconds
           /\ seconds' = [seconds EXCEPT ![c] = @ + 1]
           /\ UNCHANGED online

\* CPU 0 stays.
Unplug(c) == /\ c \in online \ {0}
             /\ online' = online \ {c}
             /\ UNCHANGED seconds

Plug(c) == /\ c \in Cpus \ online
           /\ online' = online \cup {c}
           /\ UNCHANGED seconds

CpuMoves == \E c \in Cpus : Work(c) \/ Unplug(c) \/ Plug(c)
=============================================================================
