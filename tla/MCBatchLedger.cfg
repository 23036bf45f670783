SPECIFICATION Spec
CONSTANTS
    g = g
    v1 = v1
    v2 = v2
    c1 = c1
    Voter <- MCVoter
    Candidate <- MCCandidate
    SelfVoteSigners <- MCSelfVoteSigners
    Balance = {0, 1}
    MinVoterBalance = 0
    MaxSignerCount = 2
    Epoch = 2
    LCRS = 1
    CandidateMaxLen = 1
    MaxNumber = 4
    MaxHeaders = 2
    MaxVotes = 2
SYMMETRY Symmetry
INVARIANTS
    BatchingTransparent
CHECK_DEADLOCK FALSE
