SPECIFICATION Spec
CONSTANTS
    None = None
    Foreign = Foreign
    c1 = c1
    c2 = c2
    v1 = v1
    v2 = v2
    Invocations = {c1, c2}
    Versions = {v1, v2}
    Installs <- TwoUpgrade
    Commands <- OnlyOpen
    Faults = {}
INVARIANT
    OpenIdempotent
