----------------------------- MODULE MCReadings -----------------------------
(* Readings with three CPUs in two packages, an array of two disks, and four  *)
(* chips: those of two drives, one that has only a driver's name, and one     *)
(* that has no more than its directory.                                       *)
EXTENDS Readings, TLC

ThreeCpus == 0 .. 2
TwoPackages == [c \in ThreeCpus |-> IF c = 2 THEN 1 ELSE 0]
FourChips == 0 .. 3
SomeDevices == (0 :> "nvme/nvme0") @@ (1 :> "nvme/nvme1") @@ (2 :> "none") @@ (3 :> "none")
SomeDrivers == (0 :> "nvme") @@ (1 :> "nvme") @@ (2 :> "acpi-tz") @@ (3 :> "none")
Directories == (0 :> "hwmon0") @@ (1 :> "hwmon1") @@ (2 :> "hwmon2") @@ (3 :> "hwmon3")
Sanitized == ("nvme/nvme0" :> "nvme_nvme0") @@ ("nvme/nvme1" :> "nvme_nvme1") @@
             ("nvme" :> "nvme") @@ ("acpi-tz" :> "acpi_tz") @@
             ("hwmon0" :> "hwmon0") @@ ("hwmon1" :> "hwmon1") @@
             ("hwmon2" :> "hwmon2") @@ ("hwmon3" :> "hwmon3")
AllNames == Range(Sanitized)
StaticLabels == [role |-> "edge"]
EachAlone == {<<"cpu">>, <<"md">>, <<"hwmon">>}
=============================================================================
