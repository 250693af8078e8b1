CONSTANTS
    Client = client
    Sock = {client}
    FirstFd = 3
    FdLimit = 5
    Timeouts = {0, 5000}
    Thousand = 1000
    IntLimit = 536870912
    ReadTimeout = 5000
    Replies <- MCReplies
    BufSize = 2
    MaxIterations = 3
SPECIFICATION Spec
INVARIANTS NothingIsMissed
PROPERTIES EndsWithNothingOpen
