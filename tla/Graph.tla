------------------------------- MODULE Graph -------------------------------
(***************************************************************************)
(* What prov's mutations promise, with no paths in it: documents, the      *)
(* parent each names, the children each lists, and the documents each      *)
(* refers to.  create, adopt, reparent, delete and duplicate change this   *)
(* graph; rename, separate, combine, retitle and convert_link_style are    *)
(* about paths and spelling, and leave it as it is.                        *)
(***************************************************************************)
EXTENDS Naturals, FiniteSets

CONSTANT Doc

VARIABLES docs,  \* the documents there are
          up,    \* the parents each names: none or one
          down,  \* the children each lists
          refs   \* the documents each refers to by overlay links and prose

vars == <<docs, up, down, refs>>

WellFormed ==
    /\ docs \subseteq Doc
    /\ {up, down, refs} \subseteq [docs -> SUBSET docs]

\* d is new, below the documents ps, and refers to rs.
Insert(d, ps, rs) ==
    /\ d \in Doc \ docs
    /\ docs' = docs \cup {d}
    /\ up' = [e \in docs' |-> IF e = d THEN ps ELSE up[e]]
    /\ down' = [e \in docs' |-> CASE e = d  -> {}
                                  [] e \in ps -> down[e] \cup {d}
                                  [] OTHER  -> down[e]]
    /\ refs' = [e \in docs' |-> IF e = d THEN rs ELSE refs[e]]

\* d is below p and below nothing else.
Move(d, p) ==
    /\ d \in docs /\ p \in docs \ {d}
    /\ up' = [up EXCEPT ![d] = {p}]
    /\ down' = [e \in docs |-> CASE e = p     -> down[e] \cup {d}
                                 [] e \in up[d] /\ e # p -> down[e] \ {d}
                                 [] OTHER     -> down[e]]
    /\ UNCHANGED <<docs, refs>>

\* d is gone, and nothing names it.
Remove(d) ==
    /\ d \in docs
    /\ docs' = docs \ {d}
    /\ up' = [e \in docs' |-> up[e] \ {d}]
    /\ down' = [e \in docs' |-> down[e] \ {d}]
    /\ refs' = [e \in docs' |-> refs[e] \ {d}]

=============================================================================
