CONSTANTS
    Session = {s1, s2}
    Operator = {o1}
    NoLease = NoLease
    MaxGrants = 2
    Thread = {t1, t2}
    Command = {c1}
    NoCommand = NoCommand
    NoClient = NoClient
    SimAutoConfirm = TRUE
SPECIFICATION Spec
SYMMETRY ThreadSymmetry
INVARIANTS
    
    SucceededIsReal
PROPERTIES
    OnlyOwnerActs
