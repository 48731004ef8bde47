SPECIFICATION ServiceSpec
CONSTANTS
    s1 = s1
    s2 = s2
    s3 = s3
    s4 = s4
    Slaves <- ThreeSlaves
    FirstKeys <- TwoKeys
    Keys <- KeyTwo
    Values <- OneValue
    MAX_KEY = 4
    UINT_RANGE = 100
    Overlap = FALSE
    AlarmOn = FALSE
    MaxStops = 2
    MaxAlarms = 0
    Commands <- Writes
SYMMETRY Symmetry
INVARIANTS AnswersKept
CHECK_DEADLOCK FALSE
