SPECIFICATION Spec
CONSTANTS
    Authored <- UpById
    r = r
    a = a
    b = b
    i1 = i1
    i2 = i2
    i3 = i3
    i4 = i4
    None = None
    Absent = Absent
    Path = {r, a, b}
    Root = r
    Id = {i1, i2, i3, i4}
    Title = {"T", "U"}
    Retired = {}
    MaxEdits = 2
VIEW View
SYMMETRY Symmetry
CHECK_DEADLOCK FALSE
INVARIANTS
    CheckExact
    TreeAgrees

    
    
