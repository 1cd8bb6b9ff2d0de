SPECIFICATION TableSpec
CONSTANTS
    k1 = k1
    k2 = k2
    k3 = k3
    k4 = k4
    k5 = k5
    k6 = k6
    k7 = k7
    k8 = k8
    Keys <- MCKeys
    IndexOf <- MCIndexOf
    Values <- MCValues
    NoValue = NoValue
    Empty = Empty
    Sizes <- MCSizes
    NextSize <- MCNextSize
    Uses <- MCUses
INVARIANTS TableSizeLeast RoomLeft GrowsOnce
PROPERTY ImplementsMap
CHECK_DEADLOCK FALSE
