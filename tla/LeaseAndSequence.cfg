CONSTANTS
    Session = {s1, s2}
    Operator = {o1, o2}
    NoLease = NoLease
    MaxGrants = 3
    TTL = 2
    MaxTime = 6
    Thread = {t1, t2}
    MaxSteps = 3
    SimAutoConfirm = TRUE
SPECIFICATION BackendSpec
INVARIANTS
    LeaseSafe
    
PROPERTIES
    ImplementsControlLease
    
