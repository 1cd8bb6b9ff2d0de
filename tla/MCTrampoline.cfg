\* A hook of every size on every function of three free instructions.
CONSTANTS
    Functions   <- MCFunctions
    HookOpSizes = {5, 6, 7}
    StubAt      = 1000
SPECIFICATION MCSpec
INVARIANTS
    NakedKeepsX86
    StubRunsOriginal
    HookAndStubFit
PROPERTY HookDecided
CHECK_DEADLOCK FALSE
