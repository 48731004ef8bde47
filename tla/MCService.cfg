SPECIFICATION ServiceSpec
CONSTANTS
    s1 = s1
    s2 = s2
    s3 = s3
    s4 = s4
    Slaves <- ThreeSlaves
    FirstKeys <- TwoKeys
    Keys <- KeyTwo
    Values <- OneValue
    MAX_KEY = 4
    UINT_RANGE = 100
    Overlap = FALSE
    AlarmOn = TRUE
    MaxStops = 1
    MaxAlarms = 1
    Commands <- Writes
SYMMETRY Symmetry
INVARIANTS ServiceTypeOK AnswersKept RecordsWhereRouted BackupsHold
PROPERTIES AcceptedAtHome
CHECK_DEADLOCK FALSE
