SPECIFICATION Spec
CONSTANTS
    s1 = s1
    s2 = s2
    s3 = s3
    s4 = s4
    s5 = s5
    Slaves <- MCSlaves
    MAX_KEY = 5
    UINT_RANGE = 3
SYMMETRY MCSymmetry
INVARIANTS TypeOK RingOrdered UniqueOwner RingKeysSplit
PROPERTY KeysMoveToNeighbour
