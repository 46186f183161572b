SPECIFICATION Spec
CONSTANTS
    a1 = a1
    a2 = a2
    Address = {a1, a2}
    ReasonCode = {"other", "confirmed_fraud"}
    MaxTime = 1
    MaxCalls = 5
SYMMETRY MCSymmetry
INVARIANTS
    AuthorityHandedOn
    FlagsExplained
CHECK_DEADLOCK FALSE
