SPECIFICATION MinerSpec
CONSTANTS
    Starters = {u1}
    Stoppers = {u2}
    None = None
    MaxCalls = 3
INVARIANTS
    UpdatersBalanced
    NoOrphanSeal
PROPERTIES
    MuReleased
    StopEmptiesAgent
    MiningResumes
