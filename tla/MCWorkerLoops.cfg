SPECIFICATION LoopsSpec
CONSTANTS
    None = None
    Starters = {u1}
    HeadChanSize = 1
    RecvSize = 1
    MaxHead = 2
    Many = 1
INVARIANT
    LoopsTypeOK
PROPERTIES
    JamsOnlyTwoWays
    WorkFollowsHead
CHECK_DEADLOCK FALSE
