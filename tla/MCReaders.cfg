SPECIFICATION FairSpec
CONSTANTS
    MaxLogins = 2
    MaxTokens = 3
    MaxAccounts = 2
    MaxSerial = 3
    Ports = {p1, p2}
    StatusFiles = {fixed, found}
    FixedFiles = {fixed}
    EndpointTTL = 1
    PathTTL = 1
    Cutoff = 1
INVARIANTS TypeOK LoginStaysUsable FiledUnderItsAccount NoNeedlessRefresh
PROPERTIES RacesHeal NewestOrNothing LiveReturns StaleEnds
