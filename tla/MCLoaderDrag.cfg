SPECIFICATION Spec
CONSTANTS
    game1 = game1
    game2 = game2
    broken = broken
    long = long
    Loaders = {l1}
    Exes <- MCExes
    Startable <- MCStartable
    LengthOf <- MCLengthOf
    MaxPath <- MCMaxPath
    Worlds <- MCQuiet
    Mark = Mark
    OtherMark = OtherMark
    Off = Off
    Absent = Absent
    Torn = Torn
    Uninit = Uninit
    NoExe = NoExe
PROPERTIES DraggedGameRuns
