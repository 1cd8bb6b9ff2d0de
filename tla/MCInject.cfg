SPECIFICATION Spec
CONSTANTS
    Suspended = {FALSE, TRUE}
    MaxPolls = 30
INVARIANTS KernelBeforeGame DownOnlyByBlunder PageOutlivesCode PageReleased
PROPERTIES GameStarts
CHECK_DEADLOCK FALSE
