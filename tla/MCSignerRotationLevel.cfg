SPECIFICATION Spec
CONSTANTS
    MaxSignerCount = 4
    LCRS = 2
    Period = 3
    Word = 256
    FullCredit = 10
    MissingCredit = 5
    SignCredit = 2
    AutoCredit = 1
    MinCredit = 3
    OfficialMax = 4
    FirstLevel = 1
    SecondLevel = 3
    SecondTake = 1
    ThirdLevel = 5
    ThirdTake = 1
    Addr = {1, 2, 3, 4, 5, 6, 7, 8, 9, 10, 11, 12, 13, 14}
    HashAt <- MCLevelHashAt
    SelfVoteSigners <- MCLevelSigners
    Tallies <- MCLevelTallies
    GenesisTimestamp = 4
    StartEarly = 2
    Delays = {0}
    MaxNumber = 8
INVARIANTS
    PanicOnlyBeyondWindow
PROPERTIES
    LevelsKeepShares
CHECK_DEADLOCK FALSE
