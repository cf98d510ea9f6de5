CONSTANTS
    Counts <- MCCounts
    MaxPlans = 2
    MaxSends = 1
    MaxLog = 2
SPECIFICATION Spec
CHECK_DEADLOCK FALSE
INVARIANTS
    ObservedIsWindow
    VerdictTrue
    PanicHasCause
