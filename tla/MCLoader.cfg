SPECIFICATION Spec
CONSTANTS
    game1 = game1
    game2 = game2
    broken = broken
    long = long
    Loaders = {l1, l2}
    Exes <- MCExes
    Startable <- MCStartable
    LengthOf <- MCLengthOf
    MaxPath <- MCMaxPath
    Worlds <- MCWorlds
    Mark = Mark
    OtherMark = OtherMark
    Off = Off
    Absent = Absent
    Torn = Torn
    Uninit = Uninit
    NoExe = NoExe
SYMMETRY Symmetry
INVARIANTS OnlyChosenLaunched FileClosed FailedGameForgotten NextTimeSameGame
