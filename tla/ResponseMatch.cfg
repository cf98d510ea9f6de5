CONSTANTS
    Templates <- MCTemplates
    Answers <- MCAnswers
    Keys <- MCKeys
    NewValues <- MCNewValues
    Responses <- MCResponses
SPECIFICATION Spec
CHECK_DEADLOCK FALSE
INVARIANTS
    PartialIsPartwise
    ExactIsClosedPartial
    RunnerVerdictIsPartwise
    ViewFollowsReachability
    
PROPERTIES
    FixturesSurviveGrowth
