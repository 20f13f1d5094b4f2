------------------------------ MODULE Readings ------------------------------
(***************************************************************************)
(* UnixCollector::collect for the sub-collectors whose metrics tell things *)
(* apart that come and go: cpu, md and hwmon.  A tick runs the enabled     *)
(* ones in order; `report' is what the last tick that ended returned.      *)
(***************************************************************************)
EXTENDS CpuCollector, MdCollector, HwmonCollector, Sequences, Functions

CONSTANT Selections     \* values of the option `collectors' that are tried

\* config.rs refuses names that it does not know.
ASSUME SelectionAssumption == Selections \subseteq Seq({"cpu", "md", "hwmon"})

\* Nothing keeps a static label from having the name of a label of these metrics;
\* it would replace that label, and make one series of several.
ASSUME LabelAssumption ==
    DOMAIN Base \cap {"cpu", "mode", "package", "device", "state",
                      "chip", "sensor", "disk", "chip_name"} = {}

VARIABLES enabled,
          todo,         \* sub-collectors yet to run in this tick
          all,          \* the metrics of this tick so far
          report

tick == <<enabled, todo, all, report>>
readingsVars == <<tick, cpuVars, mdVars, hwmonVars>>

ReadingsInit == /\ CpuInit /\ MdInit /\ HwmonInit
                /\ enabled \in Selections
                /\ todo = <<>>
                /\ all = {}
                /\ report = {}

Sub == Head(todo)

Extend(metrics) == /\ all' = all \cup metrics
                   /\ todo' = Tail(todo)
                   /\ report' = IF Tail(todo) = <<>> THEN all \cup metrics ELSE report
                   /\ UNCHANGED enabled

BeginTick == /\ todo = <<>>
             /\ enabled # <<>>
             /\ todo' = enabled
             /\ all' = {}
             /\ UNCHANGED <<enabled, report, cpuVars, mdVars, hwmonVars>>

CollectCpu == /\ todo # <<>> /\ Sub = "cpu"
              /\ Extend(CpuMetrics)
              /\ UNCHANGED <<cpuVars, mdVars, hwmonVars>>

\* The scan of /sys/block, one entry after the other ...
ScanDisks == /\ todo # <<>> /\ Sub = "hwmon"
             /\ ListDisks \/ \E b \in BlockDevices : FindDisk(b)
             /\ UNCHANGED <<tick, cpuVars, mdVars>>

\* ... and then the chips.
CollectHwmon == /\ todo # <<>> /\ Sub = "hwmon"
                /\ DisksFound
                /\ Extend(HwmonMetrics)
                /\ ForgetDisks
                /\ UNCHANGED <<cpuVars, mdVars>>

\* One attribute more of the array ...
ReadArray == /\ todo # <<>> /\ Sub = "md"
             /\ \/ ListArray \/ ReadArrayState \/ ReadSyncAction
                \/ \E d \in Disks : ReadMember(d)
             /\ UNCHANGED <<tick, cpuVars, hwmonVars>>

\* ... until all have been read.  MdReportIsTrue judges the values there and then,
\* and the model of the report goes without them.
CollectMd == /\ todo # <<>> /\ Sub = "md"
             /\ MdRead
             /\ Extend({[m EXCEPT !.value = 0] : m \in MdMetrics})
             /\ Forget
             /\ UNCHANGED <<cpuVars, hwmonVars>>

CollectNoArray == /\ todo # <<>> /\ Sub = "md"
                  /\ NoArray
                  /\ Extend({})
                  /\ UNCHANGED <<cpuVars, mdVars, hwmonVars>>

\* The host changes at any time, as far as an enabled sub-collector looks.
Enabled(sub) == \E i \in DOMAIN enabled : enabled[i] = sub

HostMoves == /\ \/ Enabled("cpu") /\ CpuMoves /\ UNCHANGED <<mdVars, hwmonVars>>
                \/ Enabled("md") /\ MdMoves /\ UNCHANGED <<cpuVars, hwmonVars>>
                \/ Enabled("hwmon") /\ HwmonMoves /\ UNCHANGED <<cpuVars, mdVars>>
             /\ UNCHANGED tick

ReadingsNext == \/ BeginTick \/ CollectCpu
                \/ ReadArray \/ CollectMd \/ CollectNoArray
                \/ ScanDisks \/ CollectHwmon
                \/ HostMoves

ReadingsSpec == ReadingsInit /\ [][ReadingsNext]_readingsVars

-----------------------------------------------------------------------------
(* Properties *)

\* What hwmon.rs takes for granted: no two chips have one name.
ChipsAreApart == \A c, d \in Chips : ChipName(c) = ChipName(d) => c = d

\* No tick reports a series twice, whichever CPUs are plugged and disks attached: a
\* backend would keep one of the two values, or refuse the request.  That chips are
\* apart is up to the machine, and that `collectors' names none twice up to its user:
\* config.rs does not look, and collect goes through the list as it is.
NoSeriesTwice ==
    (ChipsAreApart /\ IsInjective(enabled)) =>
        \A m, n \in report : SameSeries(m, n) => m = n

\* What a tick says of an array was true while it read: the activity is one the
\* array had, exactly one is reported, none only if the array was gone for a moment,
\* and a disk that did not change is counted for what it is, however the kernel's
\* changes fall between the reads.
MdReportIsTrue ==
    MdRead =>
        /\ \E only \in activities :
               /\ \A m \in MdMetrics :
                      m.name = "md_state" => (m.value = 1 <=> m.labels.state = only)
               /\ only = "none" <=> \A m \in MdMetrics : m.name # "md_state"
        /\ \A m \in MdMetrics : m.name = "md_disks" =>
               LET counted == {d \in steady \cap Members : Bucket(flags[d]) = m.labels.state} IN
               /\ m.value >= Cardinality(counted)
               /\ steady = Disks => m.value = Cardinality(counted)
        /\ \A m \in MdMetrics : m.name = "md_disks" /\ m.labels.state = "failed" =>
               m.value >= Cardinality({d \in steady : "faulty" \in flags[d]})

\* A drive's sensors are never joined to another drive: the label `disk' names a
\* block device that was on the chip's own device during the tick, and no two devices
\* get one disk.  Where nothing was attached or detached since the scan began, the
\* label is there exactly if it is unambiguous.
DiskLabel(m) == {m.labels[l] : l \in DOMAIN m.labels \cap {"disk"}}

DiskLabelsAreTrue ==
    DisksFound =>
        /\ \A m \in HwmonMetrics :
               LET device == DeviceOf[m.from] IN
               /\ \A b \in DiskLabel(m) : <<b, device>> \in seenOn
               /\ device \in settled =>
                      DiskLabel(m) = {b \in disksOf[device] : disksOf[device] = {b}}
        /\ \A m, n \in HwmonMetrics :
               DiskLabel(m) \cap DiskLabel(n) # {} => DeviceOf[m.from] = DeviceOf[n.from]

\* README.md:94, "node_cpu_seconds_total (counter, ...)": a counter does not fall
\* from one tick to the next.
CountersNeverFall ==
    [][\A m \in report, n \in report' :
          SameSeries(m, n) /\ m.name = "cpu_seconds_total" => m.value <= n.value]_readingsVars
=============================================================================
