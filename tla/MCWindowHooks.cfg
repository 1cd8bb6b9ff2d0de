SPECIFICATION Spec
CONSTANTS
    Windows = {w1, w2, w3}
    NoWindow = NoWindow
    MaxDepth = 4
SYMMETRY Symmetry
INVARIANTS MainIsUnicode OthersAreAnsi
PROPERTIES LiveMainNotRehooked
