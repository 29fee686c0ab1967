---------------------------- MODULE AtomicChange ----------------------------
(***************************************************************************)
(* What prov/src/change.rs promises of a change set: "Either the whole set *)
(* lands or the workspace is as it was."  The workspace changes by whole   *)
(* sets, each in a single step, and by the edits people make to their own  *)
(* files; a file is never seen half-written.                               *)
(***************************************************************************)
EXTENDS FileOps

CONSTANT ChangeSets   \* the sets mutations stage

VARIABLE store

Init == store \in [Path -> Whole]

\* Somebody saves or deletes one file of their own.
Edit ==
    \E p \in Path, c \in Whole : store' = [store EXCEPT ![p] = c]

\* A whole set lands.
Land ==
    \E ops \in ChangeSets :
        /\ store' \in Disk
        /\ Lands(ops, store, store')

Next == Edit \/ Land

Spec == Init /\ [][Next]_store

=============================================================================
