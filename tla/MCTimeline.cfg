SPECIFICATION Spec
CONSTANTS
    None = None
    s1 = s1
    s2 = s2
    host = host
    p1 = p1
    p2 = p2
    PythonNames <- Pythons
    StallSeconds = 2
    SampleGap = 2
    MergeGap = 1
    DayLength = 4
    Scenes <- AllScenes
INVARIANTS
    LanesWellFormed
    TotalsAreSeconds
    BarsKeepTime
    StallsAgree
    HistorySettled
    LateHookIsLocal
PROPERTIES
    LatestOverrideReads
