---------------------------- MODULE LinkRewrites ----------------------------
(***************************************************************************)
(* One link through everything prov does to its text: the document that    *)
(* declares it moves, the file it leads to moves, it is spelt in another   *)
(* style.  The rewriting rules are those rename, separate, combine and     *)
(* convert_link_style apply to every link (prov/src/mutate.rs); Paths      *)
(* gives their arithmetic.                                                 *)
(***************************************************************************)
EXTENDS Paths, FiniteSets

CONSTANTS Place,   \* the paths documents may be moved to
          Written, \* texts as a person may have written them
          Style    \* the styles links are converted to

ASSUME PlacesAreNormal ==
    /\ \A p \in Place : p \in Seq(Component) /\ p # <<>> /\ Normalize(p) = p /\ ~EscapesRoot(p)
    /\ \A t \in Written : t.abs \in BOOLEAN /\ t.parts \in Seq(Component)
    /\ Style \subseteq PathStyle

VARIABLES doc,     \* where the document that declares the link is
          text,    \* the link
          target   \* where it has to lead: a history of the moves

vars == <<doc, text, target>>

Init ==
    /\ doc \in Place
    /\ text \in Written
    /\ target = Resolve(doc, text)

\* Mutant: a link keeps its text when its document stays as deep as it was.
RerelativizedByDepth(t, from, to) ==
    IF Len(from) = Len(to) THEN t ELSE Relative(Dir(to), Resolve(from, t))

\* A link keeps its text when its document stays in its directory.
Rerelativized(t, from, to) ==
    IF Dir(from) = Dir(to) THEN t ELSE Relative(Dir(to), Resolve(from, t))

\* A text that led to from leads to to; any other is left alone.
Retargeted(t, source, from, to) ==
    IF Resolve(source, t) = from THEN Relative(Dir(source), to) ELSE t

Restyled(t, source, style) == PathText(style, source, Resolve(source, t))

MoveDocument ==
    \E to \in Place \ {doc, target} :
        /\ doc' = to
        /\ text' = Rerelativized(text, doc, to)
        /\ UNCHANGED target

\* Some file moves; the link's own document is not that file.
MoveFile ==
    \E from \in Place \ {doc}, to \in Place \ {doc, target} :
        /\ from # to
        /\ text' = Retargeted(text, doc, from, to)
        /\ target' = IF target = from THEN to ELSE target
        /\ UNCHANGED doc

Restyle ==
    \E style \in Style :
        /\ text' = Restyled(text, doc, style)
        /\ UNCHANGED <<doc, target>>

Next == MoveDocument \/ MoveFile \/ Restyle

Spec == Init /\ [][Next]_vars

-----------------------------------------------------------------------------
\* What the components in front of position i come to, counted and not
\* rewritten: how far below the point of departure they end.
Depth(path, i) ==
    LET after[k \in 0..Len(path)] ==
            IF k = 0 THEN 0
            ELSE CASE path[k] = Here -> after[k - 1]
                   [] path[k] = Up   -> IF after[k - 1] = 0 THEN 0 ELSE after[k - 1] - 1
                   [] OTHER          -> after[k - 1] + 1
    IN  after[i]

\* Component i is still there at the end: nothing after it climbs above it.
Survives(path, i) ==
    /\ IsNormal(path[i])
    /\ \A j \in i..Len(path) : Depth(path, j) >= Depth(path, i)

\* A ".." with nothing left to take.
Climbs(path, i) ==
    /\ path[i] = Up
    /\ Depth(path, i - 1) = 0

\* The path a person would read: the climbs, then what survives, in order.
Read(path) ==
    LET kept == {i \in 1..Len(path) : Survives(path, i) \/ Climbs(path, i)}
    IN  [n \in 1..Cardinality(kept) |->
            path[CHOOSE i \in kept : Cardinality({j \in kept : j <= i}) = n]]

Joined == IF text.abs THEN text.parts ELSE Dir(doc) \o text.parts

(***************************************************************************)
(* The link's document is at a place documents may be, its text is of      *)
(* components, and what it leads to is a normal path.                      *)
(***************************************************************************)
TypeOK ==
    /\ doc \in Place
    /\ text.abs \in BOOLEAN /\ text.parts \in Seq(Component)
    /\ target \in Seq(Component) /\ Normalize(target) = target

(***************************************************************************)
(* However often its document and its target have moved and its style has  *)
(* changed, the link leads where it led, wherever that now is ("every      *)
(* touched link must keep pointing at the truth", prov/src/mutate.rs 4-6). *)
(***************************************************************************)
StillLeads == Resolve(doc, text) = target

(***************************************************************************)
(* Path arithmetic, which folds as it reads, comes to what a reading of    *)
(* the whole path says: each ".." takes the nearest component before it    *)
(* that nothing has taken, and stays when there is none; and the clamp     *)
(* refuses a text exactly when that reading climbs out of the root at some *)
(* point, so that no detour hides a climb and no harmless detour is        *)
(* refused (normalize and escapes_root, link.rs 996-1033).                 *)
(***************************************************************************)
PathsAsRead ==
    /\ Normalize(Joined) = Read(Joined)
    /\ EscapesRoot(Joined) <=> \E i \in 1..Len(Joined) : Climbs(Joined, i)

=============================================================================
