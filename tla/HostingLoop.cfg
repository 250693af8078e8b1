CONSTANTS
    Server = server
    Stream = stream
    Sock = {server, stream}
    FirstFd = 3
    FdLimit = 5
    Timeouts = {0, 30000}
    Thousand = 1000
    IntLimit = 536870912
    ReadTimeout = 30000
    Client = {c1, c2}
    Nobody = nobody
    Backlog = 2
    Requests <- MCRequests
SPECIFICATION Spec
INVARIANTS SafeAndTight WritesToItsClient OnlyRootAnswers
PROPERTIES UsesSocketsWell NobodyIsCutOff IsMortalService EveryClientLeaves
