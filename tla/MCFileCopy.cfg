\* Two files, CopyFile and one other object.
CONSTANTS
    a = a
    b = b
    source = source
    destination = destination
    client = client
    Files       = {a, b}
    Objects     = {source, destination, client}
    Source      = source
    Destination = destination
    LowRange    = 4
    BufferSize  = 2
    Missing     = Missing
    NoFile      = NoFile
    Bytes       <- MCBytes
    Fill        = 0
    Contents    <- MCContents
    Calls       <- MCCalls
    ClientMax   = 2
SPECIFICATION Spec
INVARIANT CopyOutcome
PROPERTIES
    AppendingAdds
    CopyEnds
CHECK_DEADLOCK FALSE
