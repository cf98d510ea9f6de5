CONSTANTS
    NumCases = 3
    DefaultLimit = 2
    Limits <- MCLimits
SPECIFICATION FairSpec
CHECK_DEADLOCK FALSE
INVARIANTS
    LimitRespected
    NoCaseOutlivesSuite
    PassMeansAllPassed
    RootCauseReported
    ContinueReportsAll
PROPERTIES
    RefinesContract
    SuiteEnds
