SPECIFICATION Spec
CONSTANTS
    Accounts = {a1, a2}
    Exchanges = {x1}
    Ladder <- MCLadder
    RetryAfters = {0, 3}
    TokenLife = 1
    MaxRefreshStrikes = 3
    StrikeCap = 4
INVARIANT ConnectSticks
