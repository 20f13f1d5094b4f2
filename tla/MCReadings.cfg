SPECIFICATION ReadingsSpec
CONSTANTS
    Base <- StaticLabels
    Cpus <- ThreeCpus
    PackageOf <- TwoPackages
    MaxSeconds = 1
    Disks = {sda, sdb}
    Chips <- FourChips
    NoDevice = "none"
    NoName = "none"
    DeviceOf <- SomeDevices
    DriverOf <- SomeDrivers
    DirectoryOf <- Directories
    NameOf <- Sanitized
    Filter <- AllNames
    BlockDevices = {n1, n2}
    Selections <- EachAlone
INVARIANTS
    NoSeriesTwice
    MdReportIsTrue
    DiskLabelsAreTrue
CHECK_DEADLOCK FALSE
