SPECIFICATION Spec
CONSTANTS
    Place <- MCPlace
    Written <- MCWritten
    Style <- MCStyle
INVARIANTS
    StillLeads
    PathsAsRead
