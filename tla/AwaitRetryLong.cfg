CONSTANTS
    Policies <- MCLongPolicies
    MaxElapsedTime = 3
    Horizon = 6
SPECIFICATION Spec
INVARIANTS
    PolicyExhausted
