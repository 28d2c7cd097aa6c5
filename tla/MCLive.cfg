SPECIFICATION FairSpec
CONSTANTS
    t1 = t1
    t2 = t2
    Tasks = {t1, t2}
    Leaders = {}
    ProcFs = TRUE
    GpuCount = 2
    Shapes <- FlexibleOrDouble
    Reserve = 0
    StrictFifo = FALSE
    Crashable = {t1}
    Interruptible = {t1}
    Impatient = {}
    Stubborn = {}
    Cancellable = {t2}
    ExternalGpus = {}
    Inventories = {{1, 2}}
    QueryFaults = FALSE
    LockFaults = FALSE
    ExecFaults = FALSE
PROPERTIES
    EveryWaiterLeaves
    EveryLeaseReturns
