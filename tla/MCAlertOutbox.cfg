CONSTANTS
    None = None
    Ids = {1, 2}
    Keys = {"k1"}
    Payloads = {"p"}
    MaxTime = 3
    Cooldown = 2
    MaxAttempts = 2
    BaseBackoff = 1
    MaxBackoff = 2
    RequireAck = TRUE
    AckTimeout = 1
    MaxEscalations = 2
    MaxCrashes = 1
    MaxRestarts = 1
SPECIFICATION Spec
INVARIANTS
    AttemptBudget
    NeverStuck
    EscalationPacing
PROPERTIES
    TerminalIsFinal
