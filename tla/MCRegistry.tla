---------------------------- MODULE MCRegistry ----------------------------
(***************************************************************************)
(* Registry on three paths, one of them the registry's own, and two ids.   *)
(***************************************************************************)
EXTENDS Registry, TLC

CONSTANTS p1, p2, p3, i1, i2

\* Paths are alike and so are ids: the model compares them for equality only.
\* (Its CHOOSEs have one candidate: no two ids are on record for one path.)
Symmetric == Permutations({p1, p2, p3}) \cup Permutations({i1, i2})

\* What is handed out guards nothing: a run that asks nothing of it need not
\* tell apart the states that differ in it only.
Memory == <<disk, journal, pc, index, saved, staged, astray, lost, made, names>>

=============================================================================
