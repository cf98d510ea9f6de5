CONSTANTS
    Policies <- MCPolicies
    MaxElapsedTime = 20
    Horizon = 6
SPECIFICATION FairSpec
INVARIANTS
    TypeOK
    AttemptsBounded
    StopsPromptly
    ConditionNotMissed
    CauseIsTrue
PROPERTIES
    AwaitReturns
