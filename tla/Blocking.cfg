SPECIFICATION Spec
CONSTANTS
    p1 = p1
    p2 = p2
    Clients = {c1, c2, c3}
    Places = {p1, p2}
    Items = {1}
    MaxId = 1
    MaxNow = 1
    Timeouts = {1, Forever}
    Pops <- MCPops
    Forever = Forever
INVARIANTS TypeOK NoLostWakeup PoppedOnce
PROPERTIES EventuallyServed EventuallyReplies
CHECK_DEADLOCK FALSE
