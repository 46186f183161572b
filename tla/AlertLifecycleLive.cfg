SPECIFICATION FairSpec
CONSTANTS
    ann = ann
    vic = vic
    a1 = a1
    a2 = a2
    acc1 = acc1
    acc2 = acc2
    r1 = r1
    r2 = r2
    r3 = r3
    InvestigatorId = {ann, vic}
    RoleOf <- MCRoleOf
    Score = {50}
    Confidence = {0, 70}
    AlertId = {a1}
    AccountId = {acc1}
    Request = {r1, r2, r3}
    Decision = {"dismissed", "confirmed_suspicious"}
PROPERTIES
    RequestsFinish
    ImplementsAuditTrail
\* Every request is served once: when all have finished, nothing is left to do.
CHECK_DEADLOCK FALSE
