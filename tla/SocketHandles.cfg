CONSTANTS
    Sock = {s1, s2}
    FirstFd = 0
    FdLimit = 2
    Timeouts = {0, 3, 13, 26}
    Thousand = 5
    IntLimit = 64
SPECIFICATION HandlesSpec
INVARIANTS HandlesTypeOK
PROPERTIES OnlyMoveConstructionAliases OnlyReopeningLeaks OnlyTheseMisinform
