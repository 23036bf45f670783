SPECIFICATION Spec
CONSTANTS
    h1 = h1
    h2 = h2
    d1 = d1
    d2 = d2
    Hash <- MCHash
    Validity <- MCValidity
    Setups <- MCSetups
    Declarer <- MCDeclarer
    Candidate <- MCDeclarer
    DefaultReward = 618
    CheckpointInterval = 2
    MaxNumber = 4
    MaxDeclares = 2
    MaxEvents = 1
INVARIANTS
    RewardModified
CHECK_DEADLOCK FALSE
