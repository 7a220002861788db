SPECIFICATION FairSpec
CONSTANTS MaxLogins = 2
INVARIANT LoginStands
