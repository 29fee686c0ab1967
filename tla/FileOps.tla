------------------------------ MODULE FileOps ------------------------------
(***************************************************************************)
(* The vocabulary of a change set (prov/src/change.rs): the three kinds of *)
(* filesystem effect a mutation can stage, what each does to a workspace,  *)
(* and the disciplines a set of them can keep.                             *)
(*                                                                         *)
(* A workspace is a function from paths to contents.  Bytes are abstract:  *)
(* nothing here looks inside a document.                                   *)
(***************************************************************************)
EXTENDS Naturals, Sequences

CONSTANTS Path,     \* workspace-relative paths
          Bytes,    \* whole file contents
          Absent,   \* the content of a path with no file
          Partial   \* the content of a file an interrupted plain write left

ASSUME ContentAssumption ==
    /\ Absent \notin Bytes
    /\ Partial \notin Bytes
    /\ Absent # Partial

Whole == Bytes \cup {Absent}
File  == Whole \cup {Partial}
Disk  == [Path -> File]

FileOp ==
         [kind : {"write"}, path : Path, bytes : Bytes]
    \cup {r \in [kind : {"rename"}, from : Path, to : Path] : r.from # r.to}
    \cup [kind : {"remove"}, path : Path]

Write(p, b)  == [kind |-> "write", path |-> p, bytes |-> b]
Rename(p, q) == [kind |-> "rename", from |-> p, to |-> q]
Remove(p)    == [kind |-> "remove", path |-> p]

IsWrite(op)  == op.kind = "write"
IsRename(op) == op.kind = "rename"
IsRemove(op) == op.kind = "remove"

Touches(op, p) ==
    IF IsRename(op) THEN p = op.from \/ p = op.to ELSE p = op.path

\* A rename overwrites its destination: Storage::rename promises no refusal.
Effect(op, d) ==
    CASE IsWrite(op)  -> [d EXCEPT ![op.path] = op.bytes]
      [] IsRename(op) -> [d EXCEPT ![op.to] = d[op.from], ![op.from] = Absent]
      [] IsRemove(op) -> [d EXCEPT ![op.path] = Absent]

\* A write creates what it needs; the other two need their file.
Possible(op, d) ==
    /\ IsRename(op) => d[op.from] # Absent
    /\ IsRemove(op) => d[op.path] # Absent

-----------------------------------------------------------------------------
(***************************************************************************)
(* What a set leaves, said of each path by the last op that touches it,    *)
(* from the contents d the set found.                                      *)
(***************************************************************************)
LeftAt(op, p, d) ==
    CASE IsWrite(op)                 -> op.bytes
      [] IsRename(op) /\ p = op.to   -> d[op.from]
      [] IsRename(op) /\ p # op.to   -> Absent
      [] IsRemove(op)                -> Absent

\* Op i is the last of the first k that touches p.
LastTouch(ops, k, i, p) ==
    /\ i \in 1..k
    /\ Touches(ops[i], p)
    /\ \A j \in (i+1)..k : ~Touches(ops[j], p)

\* v is what the first k ops leave at p.
ValueAt(ops, k, d, p, v) ==
    /\ (\A i \in 1..k : ~Touches(ops[i], p)) => v = d[p]
    /\ \A i \in 1..k : LastTouch(ops, k, i, p) => v = LeftAt(ops[i], p, d)

\* e is what the first k ops make of d.
LandsTo(ops, k, d, e) == \A p \in Path : ValueAt(ops, k, d, p, e[p])

Lands(ops, d, e) == LandsTo(ops, Len(ops), d, e)

(***************************************************************************)
(* The discipline replay relies on: the source of a rename belongs to that *)
(* rename alone, and its destination is touched again only by later        *)
(* writes.  Every set prov's mutations stage is meant to be of this form.  *)
(***************************************************************************)
ReplaySafe(ops) ==
    \A i, j \in DOMAIN ops :
        (i # j /\ IsRename(ops[i])) =>
            /\ ~Touches(ops[j], ops[i].from)
            /\ Touches(ops[j], ops[i].to) => j > i /\ IsWrite(ops[j])

\* The set also writes the file p.
Rewritten(ops, p) == \E i \in DOMAIN ops : IsWrite(ops[i]) /\ ops[i].path = p

(***************************************************************************)
(* Part of a set has run, once or more, forwards or backwards, and took    *)
(* the workspace from b to d.  A file the set moves and does not rewrite   *)
(* is, whole, at exactly one end of its move; one it rewrites has a file   *)
(* at one end at least; and a path the set never touches is as it was.     *)
(***************************************************************************)
MoveSurvives(ops, op, b, d) ==
    IF Rewritten(ops, op.to)
    THEN d[op.from] # Absent \/ d[op.to] # Absent
    ELSE \/ d[op.from] = b[op.from] /\ d[op.to] = Absent
         \/ d[op.from] = Absent /\ d[op.to] = b[op.from]

AllMovesSurvive(ops, b, d) ==
    \A i \in DOMAIN ops : IsRename(ops[i]) => MoveSurvives(ops, ops[i], b, d)

OthersKept(ops, b, d) ==
    \A p \in Path : (\A i \in DOMAIN ops : ~Touches(ops[i], p)) => d[p] = b[p]

\* The existence checks a mutation makes before it stages its moves.
SourcesExist(ops, d) ==
    \A i \in DOMAIN ops : IsRename(ops[i]) => d[ops[i].from] # Absent

DestinationsFree(ops, d) ==
    \A i \in DOMAIN ops : IsRename(ops[i]) => d[ops[i].to] = Absent

=============================================================================
