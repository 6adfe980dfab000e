CONSTANTS
    Run = {1, 2}
    NoRun = NoRun
    Node <- MCNode
    Root <- MCRoot
    Type <- MCType
    Kids <- MCKids
    Count <- MCCount
    Motions <- MCMotions
    MaxItems = 2
    MaxLeft = 1
    Clouds <- MCClouds
    RgbArrays <- MCRgbArrays
    Jitter = 1
    Window = 3
    MinHits = 2
    MissTolerance = 1
    TTL = 1
    MaxSamples = 2
    MaxObjects = 4
    MaxFrames = 4
    MaxWrites = 2
SPECIFICATION BothSpec
CHECK_DEADLOCK FALSE
PROPERTIES
    StaleObjectsRemoved
