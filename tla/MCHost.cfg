SPECIFICATION Spec
CONSTANTS
    t1 = t1
    t2 = t2
    Tasks = {t1, t2}
    Leaders = {t1, t2}
    ProcFs = FALSE
    GpuCount = 2
    Shapes <- FlexibleOrPair
    Reserve = 1
    StrictFifo = FALSE
    Crashable = {t1}
    Interruptible = {}
    Impatient = {}
    Stubborn = {}
    Cancellable = {t2}
    ExternalGpus = {2}
    Inventories = {{1}, {1, 2}}
    QueryFaults = TRUE
    LockFaults = FALSE
    ExecFaults = FALSE
INVARIANTS
    LeasesInInventory
    BatchAccepted
    ArrivalScheduledAtOnce
PROPERTIES
    OnlyFreeDevices
    OnlyUnfitRaises
