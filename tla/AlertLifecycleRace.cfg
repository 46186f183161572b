SPECIFICATION Spec
CONSTANTS
    ann = ann
    vic = vic
    a1 = a1
    a2 = a2
    acc1 = acc1
    acc2 = acc2
    r1 = r1
    r2 = r2
    r3 = r3
    InvestigatorId = {ann, vic}
    RoleOf <- MCRoleOf
    Score = {50}
    Confidence = {0}
    AlertId = {a1, a2}
    AccountId = {acc1, acc2}
    Request = {r1, r2, r3}
    Decision = {"dismissed", "confirmed_suspicious"}
SYMMETRY MCSymmetry
INVARIANTS
    AuditReplaysStatus
CHECK_DEADLOCK FALSE
