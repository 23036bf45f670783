SPECIFICATION Spec
CONSTANTS
    c1 = c1
    c2 = c2
    c3 = c3
    r = r
    Signer <- MCSigner
    CandidateSets <- WithAndWithout
    Queues <- WithAndWithout
    MaxSignerCount = 5
    Word = 64
    MaxNumber = 8
    MaxConfirms = 5
SYMMETRY Symmetry
INVARIANTS
    TypeOK
    ExpiryTransparent
    ConfirmedSupported
    ConfirmedIsLast
PROPERTIES
    ConfirmedMonotone
CHECK_DEADLOCK FALSE
