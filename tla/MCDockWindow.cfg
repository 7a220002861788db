SPECIFICATION FairSpec
CONSTANTS
    Displays = {d1, d2}
    Interior = {d2}
    RevealDwellTicks = 2
    HideDelayTicks = 2
    QueueCap = 2
INVARIANTS ThreadsAgree
PROPERTIES SlidesAway SlidesIn ComesToRest FollowsDisplay
