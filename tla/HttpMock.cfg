CONSTANTS
    a = a
    b = b
    Requests <- MCRequests
    Plans <- MCPlans
    MaxObserved = 3
    MaxPlans = 2
SPECIFICATION Spec
CHECK_DEADLOCK FALSE
INVARIANTS
    VerifyImpliesAwait
    AcceptedMeansServed
    DisjointIsFair
PROPERTIES
    AwaitStable
