SPECIFICATION Spec
CONSTANTS
    c1 = c1
    c2 = c2
    w1 = w1
    w2 = w2
    Clients <- TwoClients
    Workers <- OneWorker
    MayLeave <- OneClient
    MaxReplies = 1
    MAX_QUEUE_LEN = 3
    NoItem = NoItem
INVARIANTS SemTracksQueue
CHECK_DEADLOCK FALSE
