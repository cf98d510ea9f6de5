CONSTANTS
    Cases <- MCCases
    Answers <- MCAnswers
    CookieNames <- MCCookieNames
    MaxCalls = 3
SPECIFICATION Spec
CHECK_DEADLOCK FALSE
INVARIANTS
    JarIsLastSet
    SessionFollowsHistory
    CapturedAgreesWithJar
