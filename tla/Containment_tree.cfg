SPECIFICATION Spec
CONSTANTS
    d1 = d1
    d2 = d2
    d3 = d3
    Partial = Partial
    Doc = {d1, d2, d3}
    First = d1
    Index <- MCIndex
    Place <- MCSmallPlace
    Authored = "relative"
    Style = {"relative"}
    Written <- MCWritten
    Titles <- MCTitles
    CopyOf <- MCCopyOf
    MaxLinks = 1
    ProseGiven = FALSE
VIEW View
SYMMETRY Symmetry
CHECK_DEADLOCK FALSE
CONSTRAINT Regular
PROPERTIES
    GraphSteps
    CheckStaysClean
