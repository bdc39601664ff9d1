CONSTANTS
    m1 = m1
    v1 = v1
    v2 = v2
    s1 = s1
    t1 = t1
    t2 = t2
    None = None
    Models = {m1}
    Versions = {v1, v2}
    Sessions = {s1}
    Artifacts = {"a"}
    Reports = {"r1", "r2"}
    Notes = {"n"}
    Candidates <- MCCandidates
    Approvals <- MCApprovals
    Threads = {t1, t2}
    BootstrapRollback = FALSE
    MaxCalls = 8
SPECIFICATION ThreadSpec
INVARIANTS
    ApprovalRejectedTwice
