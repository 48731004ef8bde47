SPECIFICATION FairSpec
CONSTANTS
    s1 = s1
    s2 = s2
    s3 = s3
    s4 = s4
    Slaves <- FourSlaves
    FirstKeys <- KeyZero
    MAX_KEY = 4
    UINT_RANGE = 100
    Overlap = FALSE
    AlarmOn = FALSE
INVARIANTS AssertionsHold
PROPERTIES JoinCompletes StopCompletes
CHECK_DEADLOCK FALSE
