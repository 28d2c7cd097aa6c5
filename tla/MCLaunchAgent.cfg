SPECIFICATION FairSpec
CONSTANTS
    None = None
    Foreign = Foreign
    c1 = c1
    c2 = c2
    v1 = v1
    v2 = v2
    Invocations = {c1, c2}
    Versions = {v1, v2}
    Installs <- TwoUpgrade
    Commands <- AnyCommand
    Faults = {"slow", "write", "browser", "late", "kill", "bootout"}
INVARIANTS
    NoStaleService
PROPERTIES
    SuccessIsReal
    StartsAgree
    DashboardProgress
