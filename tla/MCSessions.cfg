SPECIFICATION Spec
CONSTANTS
    t1 = t1
    t2 = t2
    Tasks = {t1, t2}
    Leaders = {t1}
    ProcFs = TRUE
    GpuCount = 2
    Shapes <- FlexibleOrDouble
    Reserve = 1
    StrictFifo = FALSE
    Crashable = {t1, t2}
    Interruptible = {t1, t2}
    Impatient = {t2}
    Stubborn = {t2}
    Cancellable = {t1, t2}
    ExternalGpus = {}
    Inventories = {{1, 2}}
    QueryFaults = FALSE
    LockFaults = TRUE
    ExecFaults = TRUE
INVARIANTS
    ChildCovered
    NoSharedDevice
    StatusMatchesLease
    CallsAccepted
    CleanedUp
PROPERTIES
    OutcomesHold
    
    ImplementsLeaseTable
