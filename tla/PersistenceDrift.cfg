SPECIFICATION PersistSpec
CONSTANTS
    ann = ann
    a1 = a1
    acc1 = acc1
    acc2 = acc2
    r1 = r1
    r2 = r2
    r3 = r3
    InvestigatorId = {ann}
    RoleOf <- MCRoleOfAnn
    Score = {57, 58}
    Confidence = {0, 57, 58}
    Reparse <- MCDrifting
    AlertId = {a1}
    AccountId = {acc1}
    Request = {r1, r2}
    Decision = {"confirmed_suspicious"}
    MaxCrashes = 2
    MaxLoadErrors = 1
SYMMETRY MCSymmetry
INVARIANTS
    UntamperedLogVerifies
