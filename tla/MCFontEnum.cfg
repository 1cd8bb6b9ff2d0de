SPECIFICATION Spec
CONSTANTS
    plain = plain
    english = english
    alias = alias
    Fonts <- MCFonts
    NameOf <- MCNameOf
    NewName <- MCNewName
    Unwanted = {alias}
    None = None
    MaxDepth = 2
    MaxRefused = 2
INVARIANTS GdiBalanced StableVisibility MetricsOfName
PROPERTIES HiddenStaysHidden
