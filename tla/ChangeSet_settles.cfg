\* A local filesystem (Capabilities::LOCAL_FS): faults that come to an end,
\* and sets with a path outside the root.
SPECIFICATION FairSpec
CONSTANTS
    a = a
    b = b
    c = c
    d = d
    o = o
    x = x
    y = y
    z = z
    Path = {a, b, c, o}
    Bytes = {x, y}
    Absent = Absent
    Partial = Partial
    NoJournal = NoJournal
    TornJournal = TornJournal
    ChangeSets <- EscapeSets
    Outside = {o}
    AtomicReplace = TRUE
    DestinationsGuarded = TRUE
    EditsWhilePending = FALSE
PROPERTIES
    Settles
    StaysInRoot
