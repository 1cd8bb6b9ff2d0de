SPECIFICATION Spec
INVARIANT ContextIsTrueAmd64
CHECK_DEADLOCK FALSE
