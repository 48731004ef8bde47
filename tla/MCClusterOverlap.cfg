SPECIFICATION Spec
CONSTANTS
    s1 = s1
    s2 = s2
    s3 = s3
    s4 = s4
    Slaves <- ThreeSlaves
    FirstKeys <- KeyZero
    MAX_KEY = 4
    UINT_RANGE = 100
    Overlap = TRUE
    AlarmOn = TRUE
SYMMETRY Symmetry3
INVARIANTS TypeOK ListsAgree OneChangeApart CallReplyAsserted
PROPERTIES ImplementsList RightSlaveLeaves
CHECK_DEADLOCK FALSE
