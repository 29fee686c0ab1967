SPECIFICATION Spec
CONSTANTS
    r = r
    rm = rm
    y1 = y1
    m1 = m1
    y2 = y2
    m2 = m2
    bin = bin
    DocPath = {r, rm, y1, m1, y2, m2}
    Root = r
    BinIndex = bin
    NodeOf <- Pairs
    MaxDocs = 4
    MaxBump = 2
    None = None
    Absent = Absent
    Partial = Partial
INVARIANTS
    OneNodeEach
    BinAccurate
    ContentsMutual
    RegularBodiesKept
PROPERTIES
    RootedRecordsKept
    StagedDisciplined
CONSTRAINT
    Rooted
CHECK_DEADLOCK FALSE
