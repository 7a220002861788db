SPECIFICATION FairSpec
CONSTANTS
    Callers = {c1, c2}
    Payloads = {p1, p2}
    MinInterval = 2
    Ladder <- MCLadder
    SnapshotKey = TRUE
    RunCap = 3
    Nobody = Nobody
INVARIANTS DegradesToNewest
PROPERTIES SourceLeftAlone KeepsPromise ForcedReachesSource RecoveryShown
