CONSTANTS
    a = a
    b = b
    Requests <- MCRequests
    Plans <- MCPlans
    MaxObserved = 3
    MaxPlans = 1
SPECIFICATION Spec
CHECK_DEADLOCK FALSE
INVARIANTS
    AnyIgnoresOrder
