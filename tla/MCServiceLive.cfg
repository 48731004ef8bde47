SPECIFICATION FairServiceSpec
CONSTANTS
    s1 = s1
    s2 = s2
    s3 = s3
    s4 = s4
    Slaves <- TwoSlaves
    FirstKeys <- KeyOne
    Keys <- KeyTwo
    Values <- OneValue
    MAX_KEY = 4
    UINT_RANGE = 100
    Overlap = FALSE
    AlarmOn = TRUE
    MaxStops = 2
    MaxAlarms = 1
    Commands <- AllCommands
PROPERTIES CommandReturns
CHECK_DEADLOCK FALSE
