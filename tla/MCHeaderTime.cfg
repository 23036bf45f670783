SPECIFICATION SearchSpec
CONSTANTS
    MaxLen = 5
    Gaps = {2, 5}
    Chains <- MCChains
    Targets = {0, 1, 2, 3, 4, 5, 6, 7, 8, 9, 10, 11, 12, 13, 14, 15, 16, 17, 18, 19, 20, 21, 22, 23, 24, 25, 26, 27, 28}
    Period = 2
    TrantorBlock = 1
    MaxChanges = 1
INVARIANTS
    SearchExact
PROPERTY
    CallReturns
