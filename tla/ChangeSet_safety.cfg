\* Every fault and crash, on a backend whose writes may tear
\* (Capabilities::NONE); what a local filesystem may do is a part of it.
SPECIFICATION Spec
CONSTANTS
    a = a
    b = b
    c = c
    d = d
    o = o
    x = x
    y = y
    z = z
    Path = {a, b, c, d}
    Bytes = {x, y}
    Absent = Absent
    Partial = Partial
    NoJournal = NoJournal
    TornJournal = TornJournal
    ChangeSets <- MutationSets
    Outside = {}
    AtomicReplace = FALSE
    DestinationsGuarded = TRUE
    EditsWhilePending = FALSE
INVARIANTS
    OutcomeIsTrue
    MovesSurvive
    ReplayNeverStuck
    TornJournalUntouched
PROPERTIES
    Atomic
