SPECIFICATION FairSpec
CONSTANTS
    Threads = {t1, t2}
    Handles = {h1, h2, h3}
    StockLast = 1
    FontOrder <- MCFontOrder
    SystemFont = 1
    OriginalOf <- MCOriginalOf
    NoHandle = NoHandle
    NoThread = NoThread
INVARIANTS StableAnswers ReplacementsSurvive NoFontLeaked
PROPERTIES CallsReturn PublishedTableFrozen ImplementsPromise
