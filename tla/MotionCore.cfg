CONSTANTS
    Motion = {m1, m2}
    NoMotion = NoMotion
    MaxSegments = 3
SPECIFICATION FairSpec
CHECK_DEADLOCK FALSE
INVARIANTS
    SuccessIsReal
    SegmentsInOrder
    OneLateSegment
PROPERTIES
    GoalsConclude
