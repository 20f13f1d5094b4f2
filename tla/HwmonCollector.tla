--------------------------- MODULE HwmonCollector ---------------------------
(***************************************************************************)
(* src/collector/unix/hwmon.rs: which labels the sensors of a chip are     *)
(* reported under, while block devices come and go.  The scan of           *)
(* /sys/block lists its entries and then asks for the device of each; only *)
(* after it are the chips read, which stay as they are.                    *)
(*                                                                         *)
(* A chip has one temperature.  That the value of an unset limit is        *)
(* dropped, and all of units, is left out.                                 *)
(***************************************************************************)
EXTENDS Naturals, FiniteSets, LabelCache

CONSTANTS Chips, NoDevice, NoName,
          DeviceOf,     \* of each chip: the device it hangs off, or NoDevice
          DriverOf,     \* of each chip: the driver's name for it, or NoName
          DirectoryOf,  \* of each chip: its hwmonN
          NameOf,       \* of each of these: what a label has of it (`sanitize')
          Filter,       \* the chip names that hwmon-chips matches
          BlockDevices

VARIABLES disksOf,      \* of each device: its entries in /sys/block
          scanning,     \* /sys/block has been listed in this tick
          toFind,       \* entries whose device has not been asked for
          found,        \* of each device: the entries found to be on it
          seenOn,       \* history: <<entry, device>> since the scan began
          settled       \* history: devices with the same entries since then

scan == <<scanning, toFind, found>>
diskHistory == <<seenOn, settled>>
hwmonVars == <<disksOf, scan, diskHistory>>

Devices == {DeviceOf[c] : c \in Chips} \ {NoDevice}
NothingFound == [d \in Devices |-> {}]

HwmonInit == /\ disksOf = NothingFound
             /\ scanning = FALSE
             /\ toFind = {}
             /\ found = NothingFound
             /\ seenOn = {}
             /\ settled = {}

-----------------------------------------------------------------------------
(* collect *)

Attached == {p \in BlockDevices \X Devices : p[1] \in disksOf[p[2]]}

ListDisks == /\ ~scanning
             /\ scanning' = TRUE
             /\ toFind' = UNION {disksOf[d] : d \in Devices}
             /\ seenOn' = Attached
             /\ settled' = Devices
             /\ UNCHANGED <<disksOf, found>>

\* An entry that is gone by now has no device.
FindDisk(b) == /\ b \in toFind
               /\ toFind' = toFind \ {b}
               /\ found' = [d \in Devices |-> IF b \in disksOf[d] THEN found[d] \cup {b}
                                              ELSE found[d]]
               /\ UNCHANGED <<disksOf, scanning, diskHistory>>

DisksFound == scanning /\ toFind = {}

\* The map of devices is dropped at the end of collect.
ForgetDisks == /\ scanning' = FALSE
               /\ found' = NothingFound
               /\ seenOn' = {}
               /\ settled' = {}
               /\ UNCHANGED <<disksOf, toFind>>

\* chip_name: the device, or else the driver's name, or else the directory.
ChipName(c) == CASE DeviceOf[c] # NoDevice -> NameOf[DeviceOf[c]]
                 [] DeviceOf[c] = NoDevice /\ DriverOf[c] # NoName -> NameOf[DriverOf[c]]
                 [] OTHER -> NameOf[DirectoryOf[c]]

\* Mistake: of several block devices one is taken.
DiskOfSeveral(c) == {b \in BlockDevices : DeviceOf[c] \in Devices /\ b \in found[DeviceOf[c]]}

\* block_devices_by_path: a device with several block devices has no disk.
DiskOf(c) == {b \in BlockDevices : DeviceOf[c] \in Devices /\ found[DeviceOf[c]] = {b}}

ChipLabels(c) == IF DiskOf(c) = {} THEN [chip |-> ChipName(c)]
                 ELSE [chip |-> ChipName(c), disk |-> CHOOSE b \in DiskOf(c) : TRUE]

HwmonMetrics ==
    LET matching == {c \in Chips : ChipName(c) \in Filter} IN
    {Metric("hwmon_chip_names", Insert(ChipLabels(c), [chip_name |-> DriverOf[c]]), 1, c) :
        c \in {d \in matching : DriverOf[d] # NoName}}
    \cup {Metric("hwmon_temp_celsius", Insert(ChipLabels(c), [sensor |-> "temp1"]), 1, c) :
              c \in matching}

-----------------------------------------------------------------------------
(* The machine *)

Change(d, disks) == /\ disksOf' = [disksOf EXCEPT ![d] = disks]
                    /\ seenOn' = IF scanning THEN seenOn \cup Attached' ELSE {}
                    /\ settled' = settled \ {d}
                    /\ UNCHANGED scan

Attach(b, d) == /\ \A e \in Devices : b \notin disksOf[e]
                /\ Change(d, disksOf[d] \cup {b})

Detach(b, d) == /\ b \in disksOf[d]
                /\ Change(d, disksOf[d] \ {b})

HwmonMoves == \E b \in BlockDevices, d \in Devices : Attach(b, d) \/ Detach(b, d)
=============================================================================
