SPECIFICATION Spec
CONSTANTS
    MaxSignerCount = 3
    LCRS = 2
    Period = 3
    Word = 256
    FullCredit = 10
    MissingCredit = 5
    SignCredit = 2
    AutoCredit = 1
    MinCredit = 3
    OfficialMax = 4
    FirstLevel = 1
    SecondLevel = 3
    SecondTake = 1
    ThirdLevel = 5
    ThirdTake = 1
    Addr = {1, 2, 3, 4}
    HashAt <- MCHashAt
    SelfVoteSigners <- MCSelfVoteSigners
    Tallies <- MCTallies
    GenesisTimestamp = 4
    StartEarly = 2
    Delays = {0, 1, 4}
    MaxNumber = 6
INVARIANTS
    NoWrapAfterStart
PROPERTIES
    RotationPermutes
    ElectsTopStake
    DominantStaysIn
    MissingIsMissed
CHECK_DEADLOCK FALSE
