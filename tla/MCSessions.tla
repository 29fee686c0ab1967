----------------------------- MODULE MCSessions -----------------------------
EXTENDS Sessions, TLC

CONSTANTS a, b, c, x, y

Symmetric == Permutations(Path) \cup Permutations(Id)
=============================================================================
