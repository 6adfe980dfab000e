CONSTANTS
    Dispatch = {d1, d2}
    SimMode = FALSE
    Simulated = FALSE
    MaxAge = 1
    ReadTimeout = 1
    ReachWait = 1
    CallWait = 1
SPECIFICATION NodeSpec
INVARIANTS
    SingleExecution
    AnswersAreTruthful
    KnowledgeIsCurrent
PROPERTIES
    
    AdapterRecovers
    SilenceShows
