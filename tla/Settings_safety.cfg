SPECIFICATION Spec
CONSTANTS
    Axes <- MCAxes
    Default <- MCDefault
    Valid <- MCValid
    Typos <- MCTypos
    Notes <- MCNotes
    Starts <- MCStarts
    Requests <- MCRequests
    MaxRuns = 3
    MaxEdits = 1
    None = None
PROPERTIES
    PolicyAsAsked
    NotesSurvive
CHECK_DEADLOCK FALSE
