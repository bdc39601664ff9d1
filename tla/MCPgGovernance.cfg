CONSTANTS
    m1 = m1
    v1 = v1
    v2 = v2
    s1 = s1
    c1 = c1
    c2 = c2
    None = None
    Models = {m1}
    Versions = {v1, v2}
    Sessions = {s1}
    Artifacts = {"a"}
    Reports = {"r1", "r2"}
    Notes = {"n"}
    Candidates <- MCCandidates
    Approvals <- MCApprovals
    Conns = {c1, c2}
    MaxCrashes = 2
SPECIFICATION FairSpec
PROPERTIES
    ImplementsRegistry
    TransactionsEnd
