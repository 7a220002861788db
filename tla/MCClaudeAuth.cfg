SPECIFICATION FairSpec
CONSTANTS
    Accounts = {a1, a2}
    Exchanges = {x1}
    Ladder <- MCLadder
    RetryAfters = {0, 3}
    TokenLife = 1
    MaxRefreshStrikes = 2
    StrikeCap = 3
INVARIANTS LockoutBound ConnectLostOnlyToRefresh SetupTokenQuiet
PROPERTIES RefreshStandsDown SetupTokenUnblocks
