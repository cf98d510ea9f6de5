CONSTANTS
    DurationRange = 14400
    Families <- MCFamilies
    Handlers <- MCHandlers
SPECIFICATION Spec
CHECK_DEADLOCK FALSE
INVARIANTS
    StripIsReference
    LoadedInOrder
    AcceptedIsRunnable
    MacroDenotesInstant
