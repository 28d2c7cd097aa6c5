SPECIFICATION DeliverySpec
CONSTANTS
    None = None
    Bad = Bad
    h1 = h1
    h2 = h2
    c1 = c1
    c2 = c2
    e1 = e1
    a = a
    b = b
    gpu0 = gpu0
    gpu1 = gpu1
    phaseOf = phaseOf
    toolOf = toolOf
    s = s
    lone = lone
    p = p
    x = x
    y = y
    Hooks = {h1, h2}
    Passes = {c1, c2}
    Editors = {e1}
    SafeIds = {a, b}
    Projects = {p}
    Unencodable = {lone}
    Seconds <- Moments
    Scenes <- OneUndatedPrompt
    HookRows <- Delivered
    Ids <- AllIds
    EventIds <- HookIds
    Contents <- AllContents
    Jobs <- JobsByKind
    Killable = {}
INVARIANTS
    HookIngestIdempotent
