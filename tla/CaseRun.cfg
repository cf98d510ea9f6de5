CONSTANTS
    NumSteps = 3
    TestCases <- MCTestCases
    Codes <- MCCodes
SPECIFICATION Spec
INVARIANTS
    TypeOK
    CleanupAttempted
    NothingAfterFailure
    InputsAvailable
    PassMeansClean
    TargetAgrees
    ExpectedCodeWasMet
