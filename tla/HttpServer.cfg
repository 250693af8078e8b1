CONSTANTS
    Listener = listener
    Conn = conn
    Sock = {listener, conn}
    FirstFd = 0
    FdLimit = 3
    Timeouts = {0, 3000}
    Thousand = 1000
    IntLimit = 536870912
    ReadTimeout = 3000
    Client = {c1, c2}
    Nobody = nobody
    Backlog = 2
    MaxAttempts = 3
SPECIFICATION Spec
INVARIANTS Safe LeaksBounded ListenerKept ReadsFromItsClient
PROPERTIES IsService EveryClientLeavesUnlessExhausted
