CONSTANTS
    NumCases = 3
    DefaultLimit = 3
    Limits <- MCLimits
SPECIFICATION Spec
INVARIANTS
    TeardownEvenInPanic
