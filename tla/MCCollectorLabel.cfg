SPECIFICATION Spec
CONSTANTS
    None = None
    Bad = Bad
    h1 = h1
    h2 = h2
    Hosts = {h1, h2}
    Gpus <- OneGpuEach
    Conditions <- DottedConditions
    Configs <- SomeConfigs
    Mishaps = 0
    Changes = 1
INVARIANT
    LabelNeverKillsCollector
