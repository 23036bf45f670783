SPECIFICATION Spec
CONSTANTS
    s1 = s1
    s2 = s2
    s3 = s3
    s4 = s4
    c1 = c1
    c2 = c2
    c3 = c3
    c4 = c4
    sc = sc
    Signer = {s1, s2, s3, s4}
    Hash = {sc}
    Coinbase = {c1, c2, c3, c4}
    InitialCoinbase <- MCInitialCoinbase
    Branches <- MCBranches
    Unfounded <- MCUnfounded
    Leavers = {s1}
    Settings <- MCSettings
    Offers <- MCOffers
    MaxSignerCount = 3
    Word = 256
    SignerBlockReward = 1000
    BlocksPerYear = 20
    MinerRewardPerThousand = 618
    Starts = {14}
    MaxBlocks = 12
    MaxCarrying = 7
    MaxEvents = 2
    MaxConfirms = 1
INVARIANTS
    PaidAsScored
PROPERTIES
    ConfirmedByQuorum
    ScoredOnce
    SplitOnlyByTwoQuorums
CHECK_DEADLOCK FALSE
