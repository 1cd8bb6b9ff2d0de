SPECIFICATION Spec
INVARIANTS DownOnlyByHalfList FontsKeptUnlessHalfHooked
CHECK_DEADLOCK FALSE
