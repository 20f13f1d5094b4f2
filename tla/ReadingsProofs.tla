----------------------------- MODULE ReadingsProofs -----------------------------
(* For all chips, devices, disks and selections of sub-collectors.             *)
EXTENDS Readings, FiniteSetTheorems, TLAPS

-----------------------------------------------------------------------------
(* The array *)

Flags == {"in_sync", "faulty", "spare", "absent"}
SyncActions == {"idle", "recover", "check"}

MdTypeInv == /\ arrayState \in {"clean", "inactive", "gone"}
             /\ syncAction \in SyncActions
             /\ flags \in [Disks -> SUBSET Flags]
             /\ read \in [state : {"unread", "listed", "clean", "inactive", "gone"},
                          action : {"unread", "none"} \cup SyncActions]
             /\ toRead \in SUBSET Disks
             /\ tally \in [Buckets -> Nat]
             /\ steady \in SUBSET Disks

\* The state and the sync action are read at two moments.  What they say together
\* holds at one of the moments between, for a sync ends before an array stops, and an
\* array stops before it goes.
ActivityInv ==
    /\ syncAction # "idle" => arrayState = "clean"
    /\ read.state \in {"unread", "listed"} => read.action = "unread"
    /\ read.state # "unread" => Activity(arrayState, syncAction) \in activities
    /\ read.state = "inactive" => "inactive" \in activities
    /\ read.state = "gone" => "none" \in activities
    /\ read.state = "clean" /\ arrayState # "clean" => "active" \in activities
    /\ read.action # "unread" => Activity(read.state, read.action) \in activities

\* The disks that have been counted in a bucket and have not changed since.
Counted(b) == {d \in (steady \cap Members) \ toRead : Bucket(flags[d]) = b}

TallyInv == /\ read.action = "unread" => toRead = {} /\ tally = [b \in Buckets |-> 0]
            /\ read.action # "unread" =>
                   \A b \in Buckets : /\ tally[b] >= Cardinality(Counted(b))
                                      /\ steady = Disks => tally[b] = Cardinality(Counted(b))

MdInv == MdTypeInv /\ ActivityInv /\ TallyInv

LEMMA CountedIsFinite ==
    ASSUME MdTypeInv, NEW b
    PROVE  IsFiniteSet(Counted(b)) /\ Cardinality(Counted(b)) \in Nat
<1>1. Counted(b) \in SUBSET Disks
      BY DEF Counted, MdTypeInv
<1>2. IsFiniteSet(Counted(b))
      BY <1>1, MdAssumption, FS_Subset, Zenon
<1> QED
    BY <1>2, FS_CardinalityType

LEMMA MdReportHolds == MdInv => MdReportIsTrue
<1> SUFFICES ASSUME MdInv, MdRead
             PROVE  MdReportIsTrue
    BY DEF MdReportIsTrue
<1>1. "state" \notin DOMAIN Base
      BY LabelAssumption
<1> DEFINE now == Activity(read.state, read.action)
<1>2. ASSUME NEW m \in MdMetrics
      PROVE  \/ /\ m.name = "md_state" /\ now # "none"
                /\ m.value = 1 <=> m.labels.state = now
             \/ /\ m.name = "md_disks"
                /\ \E b \in Buckets : m.labels.state = b /\ m.value = tally[b]
  <2> DEFINE Of(name, s, value) == Metric(name, [device |-> "md0", state |-> s], value, "md0")
  <2>1. ASSUME NEW s, NEW value, NEW name
        PROVE  /\ Of(name, s, value).name = name
               /\ Of(name, s, value).labels.state = s
               /\ Of(name, s, value).value = value
        BY <1>1 DEF Metric, Interned, Insert
  <2>2. \/ /\ now # "none"
           /\ \E s \in MdStates : m = Of("md_state", s, IF s = now THEN 1 ELSE 0)
        \/ \E b \in Buckets : m = Of("md_disks", b, tally[b])
        BY DEF MdMetrics
  <2> HIDE DEF Of, now
  <2>3. CASE now # "none" /\ \E s : m = Of("md_state", s, IF s = now THEN 1 ELSE 0)
    <3>1. PICK s : m = Of("md_state", s, IF s = now THEN 1 ELSE 0)
          BY <2>3
    <3>2. m.name = "md_state" /\ m.labels.state = s /\ m.value = IF s = now THEN 1 ELSE 0
          BY <2>1, <3>1
    <3> QED
        BY <2>3, <3>2
  <2>4. CASE \E b \in Buckets : m = Of("md_disks", b, tally[b])
    <3>1. PICK b \in Buckets : m = Of("md_disks", b, tally[b])
          BY <2>4
    <3>2. m.name = "md_disks" /\ m.labels.state = b /\ m.value = tally[b]
          BY <2>1, <3>1
    <3> QED
        BY <3>2
  <2> QED
      BY <2>2, <2>3, <2>4
<1>3. read.action # "unread" /\ toRead = {}
      BY DEF MdRead
<1>4. now \in activities
      BY <1>3 DEF MdInv, ActivityInv
<1>5. \E only \in activities :
          /\ \A m \in MdMetrics : m.name = "md_state" => (m.value = 1 <=> m.labels.state = only)
          /\ only = "none" <=> \A m \in MdMetrics : m.name # "md_state"
  <2>1. \A m \in MdMetrics : m.name = "md_state" => (m.value = 1 <=> m.labels.state = now)
        BY <1>2
  <2>2. ASSUME now = "none" PROVE \A m \in MdMetrics : m.name # "md_state"
        BY <1>2, <2>2
  <2>3. ASSUME now # "none" PROVE \E m \in MdMetrics : m.name = "md_state"
    <3>1. "active" \in {t \in MdStates : now # "none"}
          BY <2>3 DEF MdStates
    <3> DEFINE m == Metric("md_state", [device |-> "md0", state |-> "active"],
                           IF "active" = now THEN 1 ELSE 0, "md0")
    <3>2. m \in MdMetrics
          BY <3>1 DEF MdMetrics
    <3>3. m.name = "md_state"
          BY DEF Metric
    <3> QED
        BY <3>2, <3>3
  <2> HIDE DEF now
  <2> QED
      BY <1>4, <2>1, <2>2, <2>3
<1>6. \A b \in Buckets : /\ tally[b] >= Cardinality(Counted(b))
                         /\ steady = Disks => tally[b] = Cardinality(Counted(b))
      BY <1>3 DEF MdInv, TallyInv
<1>7. \A b : Counted(b) = {d \in steady \cap Members : Bucket(flags[d]) = b}
      BY <1>3 DEF Counted
<1>8. \A m \in MdMetrics : m.name = "md_disks" =>
          LET counted == {d \in steady \cap Members : Bucket(flags[d]) = m.labels.state} IN
          /\ m.value >= Cardinality(counted)
          /\ steady = Disks => m.value = Cardinality(counted)
  <2> SUFFICES ASSUME NEW m \in MdMetrics, m.name = "md_disks"
               PROVE  /\ m.value >= Cardinality(Counted(m.labels.state))
                      /\ steady = Disks => m.value = Cardinality(Counted(m.labels.state))
      BY <1>7, Zenon
  <2>1. PICK b \in Buckets : m.labels.state = b /\ m.value = tally[b]
        BY <1>2
  <2> QED
      BY <1>6, <2>1
<1>9. \A m \in MdMetrics : m.name = "md_disks" /\ m.labels.state = "failed" =>
          m.value >= Cardinality({d \in steady : "faulty" \in flags[d]})
  <2> DEFINE faulty == {d \in steady : "faulty" \in flags[d]}
  <2>1. faulty \in SUBSET Counted("failed")
        BY <1>3 DEF Counted, Members, Bucket, Absent, MdInv, MdTypeInv
  <2>2. MdTypeInv
        BY DEF MdInv
  <2>3. IsFiniteSet(Counted("failed")) /\ Cardinality(Counted("failed")) \in Nat
        BY <2>2, CountedIsFinite
  <2>4. Cardinality(faulty) <= Cardinality(Counted("failed"))
        BY <2>1, <2>3, FS_Subset
  <2>5. Cardinality(faulty) \in Nat
        BY <2>1, <2>3, FS_Subset, FS_CardinalityType
  <2>6. tally["failed"] \in Nat /\ tally["failed"] >= Cardinality(Counted("failed"))
        BY <1>6 DEF Buckets, MdInv, MdTypeInv
  <2>7. Cardinality(faulty) <= tally["failed"]
        BY <2>3, <2>4, <2>5, <2>6
  <2> HIDE DEF faulty
  <2>8. \A m \in MdMetrics : m.name = "md_disks" /\ m.labels.state = "failed" =>
            m.value = tally["failed"]
        BY <1>2
  <2>9. \A m \in MdMetrics : m.name = "md_disks" /\ m.labels.state = "failed" =>
            m.value >= Cardinality(faulty)
        BY <2>5, <2>6, <2>7, <2>8
  <2> QED
      BY <2>9 DEF faulty
<1> QED
    BY <1>5, <1>8, <1>9 DEF MdReportIsTrue

LEMMA ListArrayInv ==
    ASSUME MdInv, ListArray
    PROVE  MdInv'
<1> USE DEF MdInv, ListArray, Unread, Gone, array, SyncActions
<1>1. MdTypeInv'
      BY DEF MdTypeInv, Buckets
<1>2. ActivityInv'
      BY DEF MdTypeInv, ActivityInv, Activity
<1>3. TallyInv'
      BY DEF MdTypeInv, TallyInv
<1> QED
    BY <1>1, <1>2, <1>3

LEMMA ReadArrayStateInv ==
    ASSUME MdInv, ReadArrayState
    PROVE  MdInv'
<1> USE DEF MdInv, ReadArrayState, array, mdHistory, SyncActions
<1>1. MdTypeInv'
      BY DEF MdTypeInv, Buckets
<1>2. ActivityInv'
      BY DEF MdTypeInv, ActivityInv, Activity
<1>3. TallyInv'
      BY DEF MdTypeInv, TallyInv, ActivityInv
<1> QED
    BY <1>1, <1>2, <1>3

LEMMA ReadSyncActionInv ==
    ASSUME MdInv, ReadSyncAction
    PROVE  MdInv'
<1> USE DEF MdInv, ReadSyncAction, Gone, array, mdHistory
<1>1. MdTypeInv'
      BY DEF MdTypeInv, Members
<1>2. ActivityInv'
      BY DEF MdTypeInv, ActivityInv, Activity, SyncActions
<1>3. TallyInv'
  <2>1. \A b \in Buckets : Counted(b)' = {} /\ tally'[b] = 0
        BY DEF Counted, Members, TallyInv
  <2>2. read'.action # "unread"
        BY DEF MdTypeInv, SyncActions
  <2> QED
      BY <2>1, <2>2, FS_EmptySet DEF TallyInv
<1> QED
    BY <1>1, <1>2, <1>3

\* A disk that has changed since it was listed may be counted or not, and in any
\* bucket; one that has not is counted in its own.
LEMMA ReadMemberInv ==
    ASSUME MdInv, NEW d \in Disks, ReadMember(d)
    PROVE  MdInv'
<1> USE DEF MdInv
<1>1. /\ d \in toRead /\ toRead' = toRead \ {d}
      /\ UNCHANGED <<arrayState, syncAction, flags, read, activities, steady>>
      BY DEF ReadMember, array, mdHistory
<1>2. Bucket(flags[d]) \in Buckets
      BY DEF Bucket, Buckets
<1>3. tally' = IF d \in Members THEN [tally EXCEPT ![Bucket(flags[d])] = @ + 1] ELSE tally
      BY DEF ReadMember
<1>4. MdTypeInv'
      BY <1>1, <1>2, <1>3 DEF MdTypeInv
<1>5. ActivityInv'
      BY <1>1 DEF ActivityInv
<1>6. read.action # "unread"
      BY <1>1 DEF TallyInv
<1>7. TallyInv'
  <2>1. SUFFICES ASSUME NEW b \in Buckets
                 PROVE  /\ tally'[b] >= Cardinality(Counted(b)')
                        /\ steady = Disks => tally'[b] = Cardinality(Counted(b)')
        BY <1>1, <1>6 DEF TallyInv
  <2>2. /\ tally[b] >= Cardinality(Counted(b))
        /\ steady = Disks => tally[b] = Cardinality(Counted(b))
        /\ tally[b] \in Nat
        BY <1>6 DEF TallyInv, MdTypeInv
  <2>3. IsFiniteSet(Counted(b)) /\ Cardinality(Counted(b)) \in Nat
        BY CountedIsFinite
  <2>4. CASE d \in steady \cap Members /\ Bucket(flags[d]) = b
    <3>1. Counted(b)' = Counted(b) \cup {d} /\ d \notin Counted(b)
          BY <1>1, <2>4 DEF Counted, Members
    <3>2. Cardinality(Counted(b)') = Cardinality(Counted(b)) + 1
          BY <2>3, <3>1, FS_AddElement
    <3>3. tally'[b] = tally[b] + 1
          BY <1>3, <2>4 DEF MdTypeInv
    <3> QED
        BY <2>2, <2>3, <3>2, <3>3
  <2>5. CASE ~(d \in steady \cap Members /\ Bucket(flags[d]) = b)
    <3>1. Counted(b)' = Counted(b)
          BY <1>1, <2>5 DEF Counted, Members
    <3>2. tally'[b] \in {tally[b], tally[b] + 1}
          BY <1>2, <1>3 DEF MdTypeInv
    <3>3. steady = Disks => tally'[b] = tally[b]
          BY <1>2, <1>3, <2>5 DEF MdTypeInv
    <3> QED
        BY <2>2, <2>3, <3>1, <3>2, <3>3
  <2> QED
      BY <2>4, <2>5
<1> QED
    BY <1>4, <1>5, <1>7

LEMMA ForgetInv ==
    ASSUME MdInv, MdRead, Forget
    PROVE  MdInv'
<1> USE DEF MdInv, MdRead, Forget, Unread, array
<1>1. MdTypeInv'
      BY DEF MdTypeInv, Buckets, SyncActions
<1>2. ActivityInv'
      BY DEF ActivityInv
<1>3. TallyInv'
      BY DEF TallyInv
<1> QED
    BY <1>1, <1>2, <1>3

\* Whatever the kernel does to the array while it is read.
LEMMA KernelKeepsTally ==
    ASSUME MdInv, MdTypeInv', UNCHANGED reading, steady' \subseteq steady,
           \A d \in steady' : flags'[d] = flags[d]
    PROVE  TallyInv'
<1>1. UNCHANGED <<read, toRead, tally>>
      BY DEF reading
<1>2. CASE read.action = "unread"
      BY <1>1, <1>2 DEF TallyInv, MdInv
<1>3. CASE read.action # "unread"
  <2>1. SUFFICES ASSUME NEW b \in Buckets
                 PROVE  /\ tally[b] >= Cardinality(Counted(b)')
                        /\ steady' = Disks => tally[b] = Cardinality(Counted(b)')
        BY <1>1, <1>3 DEF TallyInv
  <2>2. /\ tally[b] >= Cardinality(Counted(b))
        /\ steady = Disks => tally[b] = Cardinality(Counted(b))
        /\ tally[b] \in Nat
        BY <1>3 DEF TallyInv, MdInv, MdTypeInv
  <2>3. IsFiniteSet(Counted(b)) /\ Cardinality(Counted(b)) \in Nat
        BY CountedIsFinite DEF MdInv
  <2>4. Counted(b)' \in SUBSET Counted(b)
        BY <1>1 DEF Counted, Members, MdInv, MdTypeInv
  <2>5. Cardinality(Counted(b)') <= Cardinality(Counted(b)) /\ Cardinality(Counted(b)') \in Nat
        BY <2>3, <2>4, FS_Subset, FS_CardinalityType
  <2>6. steady' = Disks => steady = Disks /\ Counted(b)' = Counted(b)
        BY <1>1 DEF Counted, Members, MdInv, MdTypeInv
  <2> QED
      BY <2>2, <2>3, <2>5, <2>6
<1> QED
    BY <1>2, <1>3

LEMMA MdMovesInv ==
    ASSUME MdInv, MdMoves
    PROVE  MdInv'
<1> USE DEF MdInv, MdTypeInv, Observe, Running, Gone, Unread, Flags, SyncActions, Activity
<1>1. CASE StartSync
  <2>1. MdTypeInv' /\ ActivityInv'
        BY <1>1 DEF StartSync, ActivityInv, reading
  <2> QED
      BY <1>1, <2>1, KernelKeepsTally DEF StartSync
<1>2. CASE EndSync
  <2>1. MdTypeInv'
        BY <1>2 DEF EndSync, reading
  <2>2. ActivityInv'
        BY <1>2 DEF EndSync, ActivityInv, reading
  <2>3. steady' \subseteq steady /\ \A d \in steady' : flags'[d] = flags[d]
        BY <1>2 DEF EndSync
  <2>4. UNCHANGED reading
        BY <1>2 DEF EndSync
  <2> QED
      BY <2>1, <2>2, <2>3, <2>4, KernelKeepsTally
<1>3. CASE Stop
  <2>1. MdTypeInv' /\ ActivityInv'
        BY <1>3 DEF Stop, ActivityInv, reading
  <2> QED
      BY <1>3, <2>1, KernelKeepsTally DEF Stop
<1>4. CASE Start
  <2>1. MdTypeInv' /\ ActivityInv'
        BY <1>4 DEF Start, ActivityInv, reading
  <2> QED
      BY <1>4, <2>1, KernelKeepsTally DEF Start
<1>5. CASE Disassemble \/ Assemble
  <2>1. MdTypeInv' /\ ActivityInv'
        BY <1>5 DEF Disassemble, Assemble, Absent, ActivityInv, reading
  <2>2. steady' = {} /\ UNCHANGED reading
        BY <1>5 DEF Disassemble, Assemble
  <2> QED
      BY <2>1, <2>2, KernelKeepsTally
<1>6. ASSUME NEW d \in Disks, Fail(d) \/ Remove(d) \/ Add(d)
      PROVE  MdInv'
  <2>1. PICK f \in SUBSET Flags : SetFlags(d, f)
        BY <1>6 DEF Fail, Remove, Add, Absent
  <2>2. MdTypeInv'
        BY <2>1 DEF SetFlags, reading
  <2>3. ActivityInv'
        BY <2>1 DEF SetFlags, ActivityInv, reading
  <2>4. steady' \subseteq steady /\ \A e \in steady' : flags'[e] = flags[e]
        BY <2>1 DEF SetFlags
  <2>5. UNCHANGED reading
        BY <2>1 DEF SetFlags
  <2> QED
      BY <2>2, <2>3, <2>4, <2>5, KernelKeepsTally
<1> QED
    BY <1>1, <1>2, <1>3, <1>4, <1>5, <1>6 DEF MdMoves

LEMMA MdStutter == MdInv /\ UNCHANGED mdVars => MdInv'
<1> SUFFICES ASSUME MdInv, UNCHANGED mdVars
             PROVE  MdInv'
    OBVIOUS
<1>1. UNCHANGED <<arrayState, syncAction, flags, read, toRead, tally, activities, steady>>
      BY DEF mdVars, array, reading, mdHistory
<1>2. \A b : Counted(b)' = Counted(b)
      BY <1>1 DEF Counted, Members
<1> QED
    BY <1>1, <1>2 DEF MdInv, MdTypeInv, ActivityInv, TallyInv

LEMMA MdStepInv == MdInv /\ [ReadingsNext]_readingsVars => MdInv'
<1> SUFFICES ASSUME MdInv, [ReadingsNext]_readingsVars
             PROVE  MdInv'
    OBVIOUS
<1>1. CASE ReadArray
      BY <1>1, ListArrayInv, ReadArrayStateInv, ReadSyncActionInv, ReadMemberInv DEF ReadArray
<1>2. CASE CollectMd
      BY <1>2, ForgetInv DEF CollectMd
<1>3. CASE HostMoves
      BY <1>3, MdMovesInv, MdStutter DEF HostMoves
<1>4. CASE UNCHANGED mdVars
      BY <1>4, MdStutter
<1> QED
    BY <1>1, <1>2, <1>3, <1>4
    DEF ReadingsNext, BeginTick, CollectCpu, CollectNoArray, ScanDisks, CollectHwmon, readingsVars

LEMMA MdInitInv == ReadingsInit => MdInv
BY DEF ReadingsInit, MdInit, MdInv, MdTypeInv, ActivityInv, TallyInv, Flags, SyncActions,
       Unread, Buckets

\* However many disks an array has and however the kernel changes it while its
\* attributes are read, down to its end: the activity that is reported is one the
\* array had, and a disk that stayed as it was is counted for what it is.
THEOREM TornReadsAreTrue == ReadingsSpec => []MdReportIsTrue
BY MdInitInv, MdStepInv, MdReportHolds, PTL DEF ReadingsSpec

-----------------------------------------------------------------------------
(* The disks *)

HwmonTypeInv == /\ disksOf \in [Devices -> SUBSET BlockDevices]
                /\ found \in [Devices -> SUBSET BlockDevices]
                /\ toFind \subseteq BlockDevices
                /\ settled \subseteq Devices

\* An entry of /sys/block has one device.
OneDevice == \A d, e \in Devices : disksOf[d] \cap disksOf[e] # {} => d = e

\* Each entry is asked for its device once, so that it is found once, and on a device
\* that it was on during the scan.
ScanInv == /\ scanning => Attached \subseteq seenOn
           /\ \A d \in Devices : \A b \in found[d] : <<b, d>> \in seenOn /\ b \notin toFind
           /\ \A d, e \in Devices : found[d] \cap found[e] # {} => d = e
           /\ scanning => \A d \in settled : found[d] = disksOf[d] \ toFind
           /\ ~scanning => toFind = {} /\ found = NothingFound

DiskInv == HwmonTypeInv /\ OneDevice /\ ScanInv

\* The label is the one entry that was found on the chip's device.
LEMMA DiskLabelOf ==
    ASSUME NEW m \in HwmonMetrics
    PROVE  m.from \in Chips /\ DiskLabel(m) = DiskOf(m.from)
<1> DEFINE Of(name, c, more) == Metric(name, Insert(ChipLabels(c), more), 1, c)
<1>1. "disk" \notin DOMAIN Base
      BY LabelAssumption
<1>2. ASSUME NEW c \in Chips, NEW more, DOMAIN more \subseteq {"sensor", "chip_name"}, NEW name
      PROVE  /\ Of(name, c, more).from = c
             /\ DiskLabel(Of(name, c, more)) = DiskOf(c)
  <2> DEFINE labels == Insert(ChipLabels(c), more)
  <2>1. /\ "disk" \in DOMAIN labels <=> DiskOf(c) # {}
        /\ DiskOf(c) # {} => labels["disk"] \in DiskOf(c)
    <3>1. CASE DiskOf(c) = {}
          BY <1>2, <3>1 DEF Insert, ChipLabels
    <3>2. CASE DiskOf(c) # {}
      <4>1. DOMAIN ChipLabels(c) = {"chip", "disk"} /\ ChipLabels(c)["disk"] \in DiskOf(c)
            BY <3>2 DEF ChipLabels
      <4> QED
          BY <1>2, <3>2, <4>1 DEF Insert
    <3> QED
        BY <3>1, <3>2
  <2>2. \A b, e \in DiskOf(c) : b = e
        BY DEF DiskOf
  <2> HIDE DEF labels
  <2>3. LET metric == Metric(name, labels, 1, c) IN
        /\ metric.from = c
        /\ "disk" \in DOMAIN metric.labels <=> "disk" \in DOMAIN labels
        /\ "disk" \in DOMAIN labels => metric.labels["disk"] = labels["disk"]
        BY <1>1 DEF Metric, Interned, Insert
  <2>4. DiskLabel(Metric(name, labels, 1, c)) = DiskOf(c)
        BY <2>1, <2>2, <2>3 DEF DiskLabel
  <2> QED
      BY <2>3, <2>4 DEF labels
<1>3. \/ \E c \in Chips : m = Of("hwmon_chip_names", c, [chip_name |-> DriverOf[c]])
      \/ \E c \in Chips : m = Of("hwmon_temp_celsius", c, [sensor |-> "temp1"])
      BY DEF HwmonMetrics
<1> HIDE DEF Of
<1>4. ASSUME NEW c \in Chips, m = Of("hwmon_chip_names", c, [chip_name |-> DriverOf[c]])
      PROVE  m.from = c /\ DiskLabel(m) = DiskOf(c)
      BY <1>2, <1>4
<1>5. ASSUME NEW c \in Chips, m = Of("hwmon_temp_celsius", c, [sensor |-> "temp1"])
      PROVE  m.from = c /\ DiskLabel(m) = DiskOf(c)
      BY <1>2, <1>5
<1> QED
    BY <1>3, <1>4, <1>5

LEMMA DiskLabelsHold == DiskInv => DiskLabelsAreTrue
<1> SUFFICES ASSUME DiskInv, DisksFound
             PROVE  DiskLabelsAreTrue
    BY DEF DiskLabelsAreTrue
<1> USE DEF DiskInv, HwmonTypeInv
<1>1. scanning /\ toFind = {}
      BY DEF DisksFound
<1>2. ASSUME NEW c \in Chips, NEW b \in DiskOf(c)
      PROVE  DeviceOf[c] \in Devices /\ found[DeviceOf[c]] = {b} /\ <<b, DeviceOf[c]>> \in seenOn
      BY DEF DiskOf, ScanInv
<1>3. ASSUME NEW c \in Chips, DeviceOf[c] \in settled
      PROVE  DiskOf(c) = {b \in disksOf[DeviceOf[c]] : disksOf[DeviceOf[c]] = {b}}
  <2>1. DeviceOf[c] \in Devices /\ found[DeviceOf[c]] = disksOf[DeviceOf[c]]
        BY <1>1, <1>3 DEF ScanInv
  <2> QED
      BY <2>1 DEF DiskOf
<1>4. ASSUME NEW c \in Chips, NEW d \in Chips, DiskOf(c) \cap DiskOf(d) # {}
      PROVE  DeviceOf[c] = DeviceOf[d]
      BY <1>2, <1>4 DEF ScanInv
<1> QED
    BY <1>2, <1>3, <1>4, DiskLabelOf DEF DiskLabelsAreTrue

LEMMA ListDisksInv == ASSUME DiskInv, ListDisks PROVE DiskInv'
<1> USE DEF DiskInv, HwmonTypeInv, ListDisks
<1>1. HwmonTypeInv' /\ OneDevice'
      BY DEF OneDevice
<1>2. found = NothingFound /\ Attached' = Attached
      BY DEF ScanInv, Attached
<1>3. \A d \in Devices : found'[d] = {} /\ disksOf'[d] \ toFind' = {}
      BY <1>2 DEF NothingFound
<1>4. ScanInv'
      BY <1>2, <1>3 DEF ScanInv
<1> QED
    BY <1>1, <1>4

LEMMA FindDiskInv == ASSUME DiskInv, NEW b, FindDisk(b) PROVE DiskInv'
<1> USE DEF DiskInv, HwmonTypeInv, FindDisk, diskHistory
<1>1. HwmonTypeInv' /\ OneDevice'
      BY DEF OneDevice
<1>2. scanning /\ Attached' = Attached
      BY DEF ScanInv, Attached
<1>3. \A d \in Devices :
          /\ b \in disksOf[d] => found'[d] = found[d] \cup {b} /\ <<b, d>> \in seenOn
          /\ b \notin disksOf[d] => found'[d] = found[d]
      BY <1>2 DEF ScanInv, Attached
<1>4. \A d \in Devices : b \notin found[d]
      BY DEF ScanInv
<1>5. \A d, e \in Devices : b \in disksOf[d] /\ b \in disksOf[e] => d = e
      BY DEF OneDevice
<1>6. \A d \in Devices : \A c \in found'[d] : <<c, d>> \in seenOn' /\ c \notin toFind'
      BY <1>3 DEF ScanInv
<1>7. \A d, e \in Devices : found'[d] \cap found'[e] # {} => d = e
      BY <1>3, <1>4, <1>5 DEF ScanInv
<1>8. \A d \in settled' : found'[d] = disksOf'[d] \ toFind'
      BY <1>2, <1>3 DEF ScanInv
<1>9. ScanInv'
      BY <1>2, <1>6, <1>7, <1>8 DEF ScanInv
<1> QED
    BY <1>1, <1>9

LEMMA ForgetDisksInv == ASSUME DiskInv, DisksFound, ForgetDisks PROVE DiskInv'
<1> USE DEF DiskInv, HwmonTypeInv, ForgetDisks
<1>1. HwmonTypeInv' /\ OneDevice'
      BY DEF OneDevice, NothingFound
<1>2. toFind' = {} /\ \A d \in Devices : found'[d] = {}
      BY DEF DisksFound, NothingFound
<1>3. ScanInv'
      BY <1>2 DEF ScanInv
<1> QED
    BY <1>1, <1>3

\* What comes and goes after the listing was not listed, or is not settled.
LEMMA HwmonMovesInv == ASSUME DiskInv, HwmonMoves PROVE DiskInv'
<1> USE DEF DiskInv, HwmonTypeInv
<1>1. PICK b \in BlockDevices, d \in Devices : Attach(b, d) \/ Detach(b, d)
      BY DEF HwmonMoves
<1>2. PICK disks \in SUBSET BlockDevices : Change(d, disks)
      BY <1>1 DEF Attach, Detach
<1>3. /\ UNCHANGED <<scanning, toFind, found>>
      /\ settled' = settled \ {d}
      /\ seenOn' = IF scanning THEN seenOn \cup Attached' ELSE {}
      /\ disksOf' = [disksOf EXCEPT ![d] = disks]
      BY <1>2 DEF Change, scan
<1>4. HwmonTypeInv'
      BY <1>3
<1>5. OneDevice'
  <2>1. CASE Attach(b, d)
        BY <2>1 DEF Attach, Change, OneDevice
  <2>2. CASE Detach(b, d)
        BY <2>2 DEF Detach, Change, OneDevice
  <2> QED
      BY <1>1, <2>1, <2>2
<1>6. ScanInv'
  <2>1. CASE scanning
        BY <1>3, <2>1 DEF ScanInv
  <2>2. CASE ~scanning
    <3>1. \A e \in Devices : found'[e] = {}
          BY <1>3, <2>2 DEF ScanInv, NothingFound
    <3> QED
        BY <1>3, <2>2, <3>1 DEF ScanInv
  <2> QED
      BY <2>1, <2>2
<1> QED
    BY <1>4, <1>5, <1>6

LEMMA DiskStutter == ASSUME DiskInv, UNCHANGED hwmonVars PROVE DiskInv'
<1>1. UNCHANGED <<disksOf, scanning, toFind, found, seenOn, settled>>
      BY DEF hwmonVars, scan, diskHistory
<1>2. Attached' = Attached
      BY <1>1 DEF Attached
<1> QED
    BY <1>1, <1>2 DEF DiskInv, HwmonTypeInv, OneDevice, ScanInv

LEMMA DiskStepInv == DiskInv /\ [ReadingsNext]_readingsVars => DiskInv'
<1> SUFFICES ASSUME DiskInv, [ReadingsNext]_readingsVars
             PROVE  DiskInv'
    OBVIOUS
<1>1. CASE ScanDisks
      BY <1>1, ListDisksInv, FindDiskInv DEF ScanDisks
<1>2. CASE CollectHwmon
      BY <1>2, ForgetDisksInv DEF CollectHwmon
<1>3. CASE HostMoves
      BY <1>3, HwmonMovesInv, DiskStutter DEF HostMoves
<1>4. CASE UNCHANGED hwmonVars
      BY <1>4, DiskStutter
<1> QED
    BY <1>1, <1>2, <1>3, <1>4
    DEF ReadingsNext, BeginTick, CollectCpu, ReadArray, CollectMd, CollectNoArray, readingsVars

LEMMA DiskInitInv == ReadingsInit => DiskInv
<1> SUFFICES ASSUME ReadingsInit PROVE DiskInv
    OBVIOUS
<1>1. /\ disksOf = NothingFound /\ found = NothingFound /\ toFind = {}
      /\ ~scanning /\ settled = {}
      BY DEF ReadingsInit, HwmonInit
<1>2. \A d \in Devices : NothingFound[d] = {}
      BY DEF NothingFound
<1> QED
    BY <1>1, <1>2 DEF DiskInv, HwmonTypeInv, OneDevice, ScanInv, NothingFound

\* For any chips, devices and block devices, that come and go between any two steps of
\* the scan: a chip never gets a disk that was not on its device, nor the disk of
\* another device, and where nothing changed it gets its own.
THEOREM DisksAreNotMixedUp == ReadingsSpec => []DiskLabelsAreTrue
BY DiskInitInv, DiskStepInv, DiskLabelsHold, PTL DEF ReadingsSpec

-----------------------------------------------------------------------------
(* No series twice *)

Apart(metrics) == \A m, n \in metrics : SameSeries(m, n) => m = n

Named(metrics, names) == \A m \in metrics : m.name \in names

\* What the sub-collectors call their metrics.
NamesOf(sub) ==
    CASE sub = "cpu" -> {"cpu_seconds_total", "cpu_scaling_frequency_hertz",
                         "cpu_core_throttles_total", "cpu_package_throttles_total"}
      [] sub = "md" -> {"md_state", "md_disks"}
      [] OTHER -> {"hwmon_chip_names", "hwmon_temp_celsius"}

\* A label that is none of the base labels keeps its value.
LEMMA OwnLabelStays ==
    ASSUME NEW name, NEW labels, NEW value, NEW from,
           NEW l \in DOMAIN labels, l \notin DOMAIN Base
    PROVE  /\ Metric(name, labels, value, from).name = name
           /\ Metric(name, labels, value, from).labels[l] = labels[l]
BY DEF Metric, Interned, Insert

\* Whichever CPUs are online: one series per number or package and metric.
LEMMA CpuSeriesApart ==
    /\ Apart(CpuMetrics)
    /\ Named(CpuMetrics, NamesOf("cpu"))
<1> DEFINE A(i) == Metric("cpu_seconds_total", [cpu |-> i, mode |-> "user"],
                          seconds[StatLine(i)], StatLine(i))
           B(i) == Metric("cpu_scaling_frequency_hertz", [cpu |-> i], 1, i)
           C(i) == Metric("cpu_core_throttles_total",
                          [cpu |-> i, package |-> PackageOf[i]], 0, i)
           D(i) == Metric("cpu_package_throttles_total", [package |-> PackageOf[i]], 0, i)
<1>1. "cpu" \notin DOMAIN Base /\ "package" \notin DOMAIN Base
      BY LabelAssumption
<1>2. \A i : A(i).name = "cpu_seconds_total" /\ A(i).labels["cpu"] = i
      BY <1>1, OwnLabelStays
<1>3. \A i : B(i).name = "cpu_scaling_frequency_hertz" /\ B(i).labels["cpu"] = i
      BY <1>1, OwnLabelStays
<1>4. \A i : C(i).name = "cpu_core_throttles_total" /\ C(i).labels["cpu"] = i
      BY <1>1, OwnLabelStays
<1>5. \A i : D(i).name = "cpu_package_throttles_total" /\ D(i).labels["package"] = PackageOf[i]
      BY <1>1, OwnLabelStays
<1> HIDE DEF A, B, C, D
<1>6. ASSUME NEW m \in CpuMetrics
      PROVE  \/ \E i \in CpuIndexes : m = A(i)
             \/ \E i \in CpuIndexes : m = B(i)
             \/ \E i \in CpuIndexes : m = C(i)
             \/ \E i \in FirstOfPackage : m = D(i)
      BY DEF CpuMetrics, A, B, C, D
<1>7. ASSUME NEW i \in FirstOfPackage, NEW j \in FirstOfPackage, PackageOf[i] = PackageOf[j]
      PROVE  i = j
  <2>1. /\ i \in CpuIndexes /\ HasSysfs(i) /\ j \in CpuIndexes /\ HasSysfs(j)
        /\ i <= j /\ j <= i
        BY <1>7 DEF FirstOfPackage
  <2>2. i \in Int /\ j \in Int
        BY <2>1 DEF CpuIndexes
  <2> QED
      BY <2>1, <2>2
<1>8. ASSUME NEW m \in CpuMetrics, NEW n \in CpuMetrics, m.name = n.name, m.labels = n.labels
      PROVE  m = n
  <2>1. CASE \E i \in CpuIndexes : m = A(i)
        BY <1>2, <1>3, <1>4, <1>5, <1>6, <1>8, <2>1
  <2>2. CASE \E i \in CpuIndexes : m = B(i)
        BY <1>2, <1>3, <1>4, <1>5, <1>6, <1>8, <2>2
  <2>3. CASE \E i \in CpuIndexes : m = C(i)
        BY <1>2, <1>3, <1>4, <1>5, <1>6, <1>8, <2>3
  <2>4. CASE \E i \in FirstOfPackage : m = D(i)
        BY <1>2, <1>3, <1>4, <1>5, <1>6, <1>7, <1>8, <2>4
  <2> QED
      BY <1>6, <2>1, <2>2, <2>3, <2>4
<1>9. ASSUME NEW m \in CpuMetrics PROVE m.name \in NamesOf("cpu")
      BY <1>2, <1>3, <1>4, <1>5, <1>6 DEF NamesOf
<1> QED
    BY <1>8, <1>9 DEF Apart, Named, SameSeries

\* One series per state of the array, and one per bucket of its disks.
LEMMA MdSeriesApart ==
    LET metrics == {[m EXCEPT !.value = 0] : m \in MdMetrics} IN
    Apart(metrics) /\ Named(metrics, NamesOf("md"))
<1> DEFINE A(s) == Metric("md_state", [device |-> "md0", state |-> s],
                          IF s = Activity(read.state, read.action) THEN 1 ELSE 0, "md0")
           B(b) == Metric("md_disks", [device |-> "md0", state |-> b], tally[b], "md0")
           Plain(m) == [m EXCEPT !.value = 0]
           metrics == {Plain(m) : m \in MdMetrics}
<1>1. "state" \notin DOMAIN Base
      BY LabelAssumption
<1>2. \A s : /\ Plain(A(s)).name = "md_state" /\ Plain(A(s)).labels["state"] = s
  <2>1. \A s : A(s).name = "md_state" /\ A(s).labels["state"] = s
        BY <1>1, OwnLabelStays
  <2>2. \A s : Plain(A(s)).name = A(s).name /\ Plain(A(s)).labels = A(s).labels
        BY DEF Metric
  <2> HIDE DEF A, Plain
  <2> QED
      BY <2>1, <2>2
<1>3. \A b : /\ Plain(B(b)).name = "md_disks" /\ Plain(B(b)).labels["state"] = b
  <2>1. \A b : B(b).name = "md_disks" /\ B(b).labels["state"] = b
        BY <1>1, OwnLabelStays
  <2>2. \A b : Plain(B(b)).name = B(b).name /\ Plain(B(b)).labels = B(b).labels
        BY DEF Metric
  <2> HIDE DEF B, Plain
  <2> QED
      BY <2>1, <2>2
<1> HIDE DEF A, B, Plain
<1>4. ASSUME NEW m \in metrics
      PROVE  (\E s : m = Plain(A(s))) \/ (\E b : m = Plain(B(b)))
  <2>1. PICK o \in MdMetrics : m = Plain(o)
        OBVIOUS
  <2>2. (\E s : o = A(s)) \/ (\E b : o = B(b))
        BY DEF MdMetrics, A, B
  <2> QED
      BY <2>1, <2>2
<1>5. ASSUME NEW m \in metrics, NEW n \in metrics, m.name = n.name, m.labels = n.labels
      PROVE  m = n
      BY <1>2, <1>3, <1>4, <1>5
<1>6. ASSUME NEW m \in metrics PROVE m.name \in NamesOf("md")
      BY <1>2, <1>3, <1>4 DEF NamesOf
<1> QED
    BY <1>5, <1>6 DEF Apart, Named, SameSeries, Plain

\* Whichever disks were found.
LEMMA HwmonSeriesApart ==
    /\ ChipsAreApart => Apart(HwmonMetrics)
    /\ Named(HwmonMetrics, NamesOf("hwmon"))
<1> DEFINE A(c) == Metric("hwmon_chip_names", Insert(ChipLabels(c), [chip_name |-> DriverOf[c]]), 1, c)
           B(c) == Metric("hwmon_temp_celsius", Insert(ChipLabels(c), [sensor |-> "temp1"]), 1, c)
<1>1. "chip" \notin DOMAIN Base
      BY LabelAssumption
<1>2. ASSUME NEW c, NEW more, "chip" \notin DOMAIN more
      PROVE  /\ "chip" \in DOMAIN Insert(ChipLabels(c), more)
             /\ Insert(ChipLabels(c), more)["chip"] = ChipName(c)
  <2>1. "chip" \in DOMAIN ChipLabels(c) /\ ChipLabels(c)["chip"] = ChipName(c)
        BY DEF ChipLabels
  <2> QED
      BY <1>2, <2>1 DEF Insert
<1>3. ASSUME NEW c PROVE A(c).name = "hwmon_chip_names" /\ A(c).labels["chip"] = ChipName(c)
  <2> DEFINE labels == Insert(ChipLabels(c), [chip_name |-> DriverOf[c]])
  <2>1. "chip" \in DOMAIN labels /\ labels["chip"] = ChipName(c)
        BY <1>2
  <2> HIDE DEF labels
  <2>2. /\ Metric("hwmon_chip_names", labels, 1, c).name = "hwmon_chip_names"
        /\ Metric("hwmon_chip_names", labels, 1, c).labels["chip"] = ChipName(c)
        BY <1>1, <2>1, OwnLabelStays
  <2> QED
      BY <2>2 DEF labels
<1>4. ASSUME NEW c PROVE B(c).name = "hwmon_temp_celsius" /\ B(c).labels["chip"] = ChipName(c)
  <2> DEFINE labels == Insert(ChipLabels(c), [sensor |-> "temp1"])
  <2>1. "chip" \in DOMAIN labels /\ labels["chip"] = ChipName(c)
        BY <1>2
  <2> HIDE DEF labels
  <2>2. /\ Metric("hwmon_temp_celsius", labels, 1, c).name = "hwmon_temp_celsius"
        /\ Metric("hwmon_temp_celsius", labels, 1, c).labels["chip"] = ChipName(c)
        BY <1>1, <2>1, OwnLabelStays
  <2> QED
      BY <2>2 DEF labels
<1> HIDE DEF A, B
<1>5. ASSUME NEW m \in HwmonMetrics
      PROVE  (\E c \in Chips : m = A(c)) \/ (\E c \in Chips : m = B(c))
      BY DEF HwmonMetrics, A, B
<1>6. ASSUME ChipsAreApart, NEW m \in HwmonMetrics, NEW n \in HwmonMetrics,
             m.name = n.name, m.labels = n.labels
      PROVE  m = n
      BY <1>3, <1>4, <1>5, <1>6 DEF ChipsAreApart
<1>7. ASSUME NEW m \in HwmonMetrics PROVE m.name \in NamesOf("hwmon")
      BY <1>3, <1>4, <1>5 DEF NamesOf
<1> QED
    BY <1>6, <1>7 DEF Apart, Named, SameSeries

\* Collections with names of their own stay apart together.
LEMMA UnionApart ==
    ASSUME NEW p, NEW q, Apart(p), Apart(q), \A m \in p, n \in q : m.name # n.name
    PROVE  Apart(p \cup q)
BY DEF Apart, SameSeries

\* What was collected in this tick comes from the sub-collectors that are no more to do.
Collected == \E k \in 0 .. Len(enabled) :
                /\ todo = SubSeq(enabled, k + 1, Len(enabled))
                /\ \A m \in all : \E i \in 1 .. k : m.name \in NamesOf(enabled[i])

SeriesInv == /\ enabled \in Seq({"cpu", "md", "hwmon"})
             /\ Collected
             /\ ChipsAreApart /\ IsInjective(enabled) => Apart(all) /\ Apart(report)

\* The machine may change as it likes.
LEMMA SeriesStay ==
    ASSUME SeriesInv, UNCHANGED tick
    PROVE  SeriesInv'
<1>1. UNCHANGED <<enabled, todo, all, report>>
      BY DEF tick
<1>2. Collected' = Collected
      BY <1>1 DEF Collected
<1> QED
    BY <1>1, <1>2 DEF SeriesInv, Apart, SameSeries

\* One more sub-collector has had its turn, and not before in this tick.
LEMMA ExtendSeries ==
    ASSUME SeriesInv, todo # <<>>, NEW metrics, Extend(metrics),
           Named(metrics, NamesOf(Sub)), ChipsAreApart => Apart(metrics)
    PROVE  SeriesInv'
<1>1. PICK k \in 0 .. Len(enabled) :
          /\ todo = SubSeq(enabled, k + 1, Len(enabled))
          /\ \A m \in all : \E i \in 1 .. k : m.name \in NamesOf(enabled[i])
      BY DEF SeriesInv, Collected
<1>2. enabled \in Seq({"cpu", "md", "hwmon"}) /\ Len(enabled) \in Nat
      BY DEF SeriesInv
<1>3. k < Len(enabled)
      BY <1>1, <1>2
<1>4. /\ Sub = enabled[k + 1]
      /\ Tail(todo) = SubSeq(enabled, k + 2, Len(enabled))
      BY <1>1, <1>2, <1>3 DEF Sub
<1>5. /\ all' = all \cup metrics /\ todo' = Tail(todo) /\ enabled' = enabled
      /\ report' = IF Tail(todo) = <<>> THEN all \cup metrics ELSE report
      BY DEF Extend
<1>6. Collected'
  <2>1. k + 1 \in 0 .. Len(enabled') /\ todo' = SubSeq(enabled', (k + 1) + 1, Len(enabled'))
        BY <1>2, <1>3, <1>4, <1>5
  <2>2. ASSUME NEW m \in all' PROVE \E i \in 1 .. (k + 1) : m.name \in NamesOf(enabled'[i])
    <3>1. CASE m \in all
          BY <1>1, <1>5, <3>1
    <3>2. CASE m \in metrics
          BY <1>4, <1>5, <3>2 DEF Named
    <3> QED
        BY <1>5, <3>1, <3>2
  <2> QED
      BY <2>1, <2>2 DEF Collected
<1>7. ASSUME ChipsAreApart, IsInjective(enabled)
      PROVE  Apart(all \cup metrics) /\ Apart(report)
  <2>1. Apart(all) /\ Apart(report) /\ Apart(metrics)
        BY <1>7 DEF SeriesInv
  <2>2. ASSUME NEW m \in all, NEW n \in metrics PROVE m.name # n.name
    <3>1. PICK i \in 1 .. k : m.name \in NamesOf(enabled[i])
          BY <1>1
    <3>2. n.name \in NamesOf(enabled[k + 1])
          BY <1>4 DEF Named
    <3>3. enabled[i] # enabled[k + 1]
      <4>1. i \in DOMAIN enabled /\ k + 1 \in DOMAIN enabled /\ i # k + 1
            BY <1>2, <1>3
      <4> QED
          BY <1>7, <4>1 DEF IsInjective
    <3>4. enabled[i] \in {"cpu", "md", "hwmon"} /\ enabled[k + 1] \in {"cpu", "md", "hwmon"}
          BY <1>2, <1>3
    <3>5. NamesOf(enabled[i]) \cap NamesOf(enabled[k + 1]) = {}
          BY <3>3, <3>4 DEF NamesOf
    <3> QED
        BY <3>1, <3>2, <3>5
  <2> QED
      BY <2>1, <2>2, UnionApart
<1>8. (ChipsAreApart /\ IsInjective(enabled))' => Apart(all') /\ Apart(report')
      BY <1>5, <1>7
<1> QED
    BY <1>5, <1>6, <1>8 DEF SeriesInv, Apart, SameSeries

\* Nothing is collected yet.
LEMMA SeriesInitInv == ReadingsInit => SeriesInv
<1> SUFFICES ASSUME ReadingsInit PROVE SeriesInv
    OBVIOUS
<1>1. enabled \in Seq({"cpu", "md", "hwmon"})
      BY SelectionAssumption DEF ReadingsInit
<1>2. todo = <<>> /\ all = {} /\ report = {}
      BY DEF ReadingsInit
<1>3. Collected
  <2>1. Len(enabled) \in 0 .. Len(enabled)
        BY <1>1
  <2>2. SubSeq(enabled, Len(enabled) + 1, Len(enabled)) = <<>>
        BY <1>1
  <2> QED
      BY <1>2, <2>1, <2>2 DEF Collected
<1> QED
    BY <1>1, <1>2, <1>3 DEF SeriesInv, Apart

\* Each turn adds the metrics of one sub-collector; all else leaves them.
LEMMA SeriesStepInv == SeriesInv /\ [ReadingsNext]_readingsVars => SeriesInv'
<1> SUFFICES ASSUME SeriesInv, [ReadingsNext]_readingsVars
             PROVE  SeriesInv'
    OBVIOUS
<1>1. CASE BeginTick
  <2>1. /\ todo' = enabled /\ all' = {}
        /\ UNCHANGED <<enabled, report>>
        BY <1>1 DEF BeginTick
  <2>2. enabled \in Seq({"cpu", "md", "hwmon"})
        BY DEF SeriesInv
  <2>3. Collected'
    <3>1. 0 \in 0 .. Len(enabled) /\ SubSeq(enabled, 0 + 1, Len(enabled)) = enabled
          BY <2>2
    <3> QED
        BY <2>1, <3>1 DEF Collected
  <2> QED
      BY <2>1, <2>3 DEF SeriesInv, Apart, SameSeries
<1>2. CASE CollectCpu
      BY <1>2, CpuSeriesApart, ExtendSeries DEF CollectCpu
<1>3. CASE CollectHwmon
      BY <1>3, HwmonSeriesApart, ExtendSeries DEF CollectHwmon
<1>4. CASE CollectMd
  <2> DEFINE metrics == {[m EXCEPT !.value = 0] : m \in MdMetrics}
  <2>1. todo # <<>> /\ Sub = "md" /\ Extend(metrics)
        BY <1>4 DEF CollectMd
  <2>2. Apart(metrics) /\ Named(metrics, NamesOf("md"))
        BY MdSeriesApart
  <2> HIDE DEF metrics
  <2> QED
      BY <2>1, <2>2, ExtendSeries
<1>5. CASE CollectNoArray
  <2>1. Apart({}) /\ Named({}, NamesOf("md"))
        BY DEF Apart, Named
  <2> QED
      BY <1>5, <2>1, ExtendSeries DEF CollectNoArray
<1>6. CASE ReadArray \/ ScanDisks \/ HostMoves
      BY <1>6, SeriesStay DEF ReadArray, ScanDisks, HostMoves
<1>7. CASE UNCHANGED readingsVars
      BY <1>7, SeriesStay DEF readingsVars
<1> QED
    BY <1>1, <1>2, <1>3, <1>4, <1>5, <1>6, <1>7, Zenon DEF ReadingsNext

\* For any CPUs, packages, disks, chips, block devices and lists of sub-collectors: as
\* long as chips are apart and no sub-collector is listed twice, no tick reports a
\* series twice.
THEOREM SeriesAreNeverDoubled == ReadingsSpec => []NoSeriesTwice
<1>1. SeriesInv => NoSeriesTwice
      BY DEF SeriesInv, NoSeriesTwice, Apart
<1> QED
    BY <1>1, SeriesInitInv, SeriesStepInv, PTL DEF ReadingsSpec
=============================================================================
