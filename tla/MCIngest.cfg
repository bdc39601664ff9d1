CONSTANTS
    Procs = {"p1", "p2"}
    Windows <- MCWindows
    ZeroDte = {"z1", "z2"}
    DefinitionsOf <- MCDefinitionsOf
    EmptyDays = {"z2"}
    Days = {1, 2}
    DayOf <- MCDayOf
    Price <- MCPrice
    Ceiling = 4
    MaxRuns = 2
    MaxCrashes = 2
SPECIFICATION Spec
INVARIANTS
    VisibleIsWhole
    SpendIsAccounted
    ReportMatchesLedger
PROPERTIES
    LandedDayNotBilled
