SPECIFICATION FairSpec
CONSTANTS
    None = None
    Bad = Bad
    h1 = h1
    h2 = h2
    Hosts = {h1, h2}
    Gpus <- OneGpuEach
    Conditions <- SomeConditions
    Configs <- SomeConfigs
    Mishaps = 1
    Changes = 1
INVARIANTS
    SampledStateWasTrue
    HostsAccountedFor
    BusySampledSoon
PROPERTIES
    BackoffNeverShrinks
    EveryHostSampledAgain
