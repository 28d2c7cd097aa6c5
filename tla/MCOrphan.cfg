SPECIFICATION Spec
CONSTANTS
    t1 = t1
    t2 = t2
    Tasks = {t1, t2}
    Leaders = {t1, t2}
    ProcFs = TRUE
    GpuCount = 2
    Shapes <- FlexibleOrDouble
    Reserve = 1
    StrictFifo = FALSE
    Crashable = {}
    Interruptible = {}
    Impatient = {}
    Stubborn = {}
    Cancellable = {t1, t2}
    ExternalGpus = {}
    Inventories = {{1, 2}}
    QueryFaults = FALSE
    LockFaults = FALSE
    ExecFaults = FALSE
INVARIANTS
    LiveChildKeepsLease
