SPECIFICATION FairSpec
CONSTANTS
    MaxStarts = 3
    MaxFaults = 3
INVARIANT
    SpaceAccounted
    StripKept
PROPERTY
    GivenBack
CHECK_DEADLOCK FALSE
