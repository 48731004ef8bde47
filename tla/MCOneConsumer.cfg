SPECIFICATION UsageSpec
CONSTANTS
    i1 = i1
    i2 = i2
    NoItem = NoItem
    Items <- MCItems
    MAX_QUEUE_LEN = 4
INVARIANT UsageTypeOK
PROPERTY ImplementsQueue
