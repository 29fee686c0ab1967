SPECIFICATION Spec
CONSTANTS
    d1 = d1
    d2 = d2
    d3 = d3
    Partial = Partial
    Doc = {d1, d2}
    First = d1
    Index <- MCAnyIndex
    Place <- MCPairs
    Authored = "root"
    Style = {"root", "relative"}
    Written <- MCWritten
    Titles <- MCTwoTitles
    CopyOf <- MCCopyOf
    MaxLinks = 1
    ProseGiven = FALSE
VIEW View
CHECK_DEADLOCK FALSE
CONSTRAINT Regular
INVARIANTS
    PiecesTogether
    LabelsTrue
PROPERTIES
    GraphSteps
    StagedSafely
