SPECIFICATION Spec
CONSTANTS
    g = g
    a1 = a1
    a2 = a2
    b1 = b1
    c1 = c1
    p1 = p1
    p2 = p2
    Blocks = {g, a1, a2, b1, c1}
    Genesis = g
    Parent <- MCParent
    History <- MCHistory
    Malformed = {c1}
    Callers = {p1, p2}
    Wanted <- MCWanted
    CheckpointInterval = 2
    CacheSize = 1
    MaxCrashes = 1
INVARIANTS
    SnapshotsFaithful
    GenesisVotesKept
PROPERTY
    ImplementsService
