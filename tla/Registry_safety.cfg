SPECIFICATION Spec
CONSTANTS
    p1 = p1
    p2 = p2
    p3 = p3
    i1 = i1
    i2 = i2
    Path = {p1, p2, p3}
    Id = {i1, i2}
    MaxDocs = 2
    MaxTexts = 1
    HostMayAbort = FALSE
    None = None
VIEW Memory
SYMMETRY Symmetric
INVARIANTS
    IndexTracksHost
    IdsNameOneDocument
    CitedIdsKnown
PROPERTIES
    RecordsNeverLost
    EditsLand
CHECK_DEADLOCK FALSE
