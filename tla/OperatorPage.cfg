SPECIFICATION PageSpec
CHECK_DEADLOCK FALSE
CONSTANTS
    Thread = {t1}
    Page = {p1}
    MaxChanges = 2
    MaxEvents = 2
    QUEUE_SIZE = 2
    MaxCalls = 1
    MaxPolls = 2
    NumJoints = 2
    Depth = 2
    MaxInstances = 2
    LIMIT_MARGIN = 1
    JointNames <- Joints2
    JointLimits <- Limits
    TrajPoints <- Points
    JogCommands <- Jogs
    SourceGroups <- Groups
INVARIANTS
    BridgeSafe
    JogIsBounded
    TelemetryIsHonest
    
PROPERTIES
    StartingEnds
    
    LinkRecovers
