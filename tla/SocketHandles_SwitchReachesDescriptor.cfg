CONSTANTS
    Sock = {s1, s2}
    FirstFd = 0
    FdLimit = 2
    Timeouts = {0, 3000}
    Thousand = 1000
    IntLimit = 536870912
SPECIFICATION HandlesSpec
PROPERTIES SwitchReachesDescriptor
