CONSTANTS
    m = m
    mx = mx
    base = base
    v2 = v2
    t1 = t1
    t2 = t2
    None = None
    Model = m
    OtherModel = mx
    Baseline = base
    Versions = {base, v2}
    Reports = {"r"}
    Notes = {"n"}
    Candidates <- MCCandidates
    Approvals <- MCApprovals
    Rules <- MCRules
    FirstRules <- MCFirstRules
    ScenarioIds = {"x"}
    Requests <- MCRequests
    Probes <- MCProbes
    Threads = {t1, t2}
    MaxDay = 2
    MaxRuns = 2
    MaxBoots = 2
    MaxProbes = 1
SPECIFICATION Spec
SYMMETRY Symmetry
CHECK_DEADLOCK FALSE
INVARIANTS
    GovernedRunsTheFrozenVersion
    OneIdentityPerSession
    LiveFailsClosed
    SnapshotDeterminesDecision
