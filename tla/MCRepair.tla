------------------------------ MODULE MCRepair ------------------------------
EXTENDS Repair, TLC

CONSTANTS r, a, b, i1, i2, i3, i4

UpById == [up |-> "id", down |-> "path"]
ByPath == [up |-> "path", down |-> "path"]

Symmetry == Permutations(Id)

View == <<doc, live, of, edits, pc, report, offer, same>>
=============================================================================
