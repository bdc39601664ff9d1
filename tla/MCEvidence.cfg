SPECIFICATION EvidenceSpec
CHECK_DEADLOCK FALSE
SYMMETRY MCSymmetry
CONSTANTS
    Jobs <- MCJobs
    LogicalKeys = {1, 2}
    Contents = {1, 2}
    LastInstant = 2
    MaxRecords = 3
    Fingerprints = {f1}
    Priorities = {"P0", "P1"}
    Hysteresis = 2
    Cooldown = 2
    EscalateAfter = 1
    LastMoment = 3
    MaxAlerts = 3
    MaxCount = 2
    MaxFeedback = 1
    MinSources = 1
    MinObservations = 1
    StabilityWindow = 1
    Offsets <- MCOffsets
    RequiredSlices = {1, 2}
    Ceilings <- MCCeilings
    Floors <- MCFloors
    RegisteredAt = 0
    Strikes <- MCStrikes
    SessionClose = 3
    FeePoints = 1
    Profit = 1
    StopMultiple = 1
    TimeExit = 2
    LastDay = 4
    Bars <- MCBars
    CorruptDays = {1}
    GapDays = {3}
    ChainDays = {2, 3}
    FirstDays = {2}
    AnchorFiles <- MCAnchorFiles
    EntryTimes = {1, 2}
    UsualClose = 3
    EarlyCloses <- MCEarlyCloses
    MaxGap = 1
    Commands = {c1, c2}
    MaxStarts = 3
    None = None
    Sessions <- MCSessions
    Manifests <- MCManifests
    Code = "v1"
    MinSessions = 1
    MinDates = 1
    Recorders = {c1, c2}
    MaxTime = 3
    MaxRecordCrashes = 2
    MaxEdits = 2
    NoReport = NoReport
    MaxDrills = 2
    MaxKills = 1
    MaxOutages = 2
INVARIANTS
    LedgerIsWhole
    ReportIsTrue
    SplitIsSound
    PassNeedsEverySlice
    ClearsWhenPromised
    HoldIsTheBaseline
    ExitsAreFair
    LabelsAreRight
PROPERTIES
    AdmissionRestsOnTheLedger
    ReplayNeverDrifts
    ClosedStaysClosed
