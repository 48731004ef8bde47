SPECIFICATION FairSpec
CONSTANTS
    Threads = {"main", "worker"}
    Users = {"u1", "u2", "u3"}
    Names = {"a.db", "backup1//", "backup1/"}
    Paths = {"a.db", "backup1"}
    Path <- MCPath
CONSTRAINT UntilRaced
INVARIANTS TypeOK CountsUsers HandlesOpen NothingLeftOpen EntryFound
PROPERTY CallsReturn
