CONSTANTS
    None = None
    Procs = {"p1", "p2"}
    CoreTables = {"alerts"}
    StreamTables = {"attribution_tasks"}
    Keys = {"k"}
    Payloads = {"x", "y"}
    Tasks = {"t"}
    Requested = {"OPEN", "IN_REVIEW", "CONFIRMED", "REJECTED"}
    ReviewTimes = {1, 2}
    MaxReviews = 2
    MaxCrashes = 1
    MaxDrops = 1
SPECIFICATION Spec
CHECK_DEADLOCK FALSE
INVARIANTS
    AckMeansStored
    VerdictStands
PROPERTIES
    StartsAreSound
