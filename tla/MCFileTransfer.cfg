SPECIFICATION FairSpec
CONSTANTS
    Bytes = {0, 1}
    APPENDSIZE = 2
    MaxLen = 5
INVARIANTS TypeOK Intact NeverStarved SameOutcome
PROPERTY TransferEnds
CHECK_DEADLOCK FALSE
