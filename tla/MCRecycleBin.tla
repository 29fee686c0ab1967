--------------------------- MODULE MCRecycleBin ---------------------------
(***************************************************************************)
(* RecycleBin on a root and two document names, combined or separated.     *)
(***************************************************************************)
EXTENDS RecycleBin

CONSTANTS r, rm, y1, m1, y2, m2, bin

\* note.yaml beside note.md
Pairs == [p \in {rm, m1, m2} |-> CASE p = rm -> r [] p = m1 -> y1 [] p = m2 -> y2]

=============================================================================
