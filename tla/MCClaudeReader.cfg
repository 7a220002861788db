SPECIFICATION FairReaderSpec
CONSTANTS
    Callers = {c1}
    Payloads = {a1, a2}
    MinInterval = 1
    Ladder <- MCLadder
    SnapshotKey = TRUE
    RunCap = 3
    Nobody = Nobody
    DefaultPause = 2
    RetryAfters = {0, 3}
PROPERTIES UsageGetsItsPause ProbeRidesOut SignInAsked
