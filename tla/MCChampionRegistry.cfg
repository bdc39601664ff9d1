CONSTANTS
    m1 = m1
    m2 = m2
    v1 = v1
    v2 = v2
    v3 = v3
    s1 = s1
    s2 = s2
    None = None
    Models = {m1, m2}
    Versions = {v1, v2, v3}
    Sessions = {s1, s2}
    Artifacts = {"a"}
    Reports = {"r1", "r2"}
    Notes = {"n1", "n2"}
    Candidates <- MCCandidates
    Approvals <- MCApprovals
    BootstrapRollback = FALSE
SPECIFICATION Spec
INVARIANTS
    AuditChain
    ApprovalSpentOnce
    PromotionsCarryEvidence
