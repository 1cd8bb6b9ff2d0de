SPECIFICATION Spec
CONSTANTS
    f1 = f1
    f2 = f2
    g1 = g1
    m1 = m1
    siteA = siteA
    siteB = siteB
    FunctionPatches <- MCFunctionPatches
    MemoryPatches <- MCMemoryPatches
    BackupPatches <- MCMemoryPatches
    CallsOn <- MCCallsOn
    Sites <- MCSites
    SiteOf <- MCSiteOf
    Blocks = {b1, b2, b3}
    MaxCall = 2
    MaxList = 3
    Original = Original
    Free = Free
    NoBlock = NoBlock
SYMMETRY Symmetry
INVARIANTS LiveHooksCanCallOn TrampolinesNotShared NoTrampolineLost
PROPERTIES OnlyOwnSiteWritten ImplementsHookChain
