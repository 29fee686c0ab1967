SPECIFICATION Spec
CONSTANTS
    Path = {a, b, c}
    Id = {x, y}
    Modes = {"registry", "both", "frontmatter"}
    MaxDocs = 3
    MaxRuns = 4
    None = None
    a = a
    b = b
    x = x
    c = c
    y = y
SYMMETRY Symmetric
INVARIANTS
    LinksLead
    StampsTrue
PROPERTIES
    KeepsIds
CHECK_DEADLOCK FALSE
