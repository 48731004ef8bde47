SPECIFICATION Spec
CONSTANTS
    c1 = c1
    c2 = c2
    w1 = w1
    w2 = w2
    NoItem = NoItem
    Clients <- TwoClients
    Workers <- TwoWorkers
    MayLeave <- NoClient
    MaxReplies = 2
    MAX_QUEUE_LEN = 3
INVARIANT OwnRequestAnswered
CHECK_DEADLOCK FALSE
