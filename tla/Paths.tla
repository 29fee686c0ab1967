------------------------------- MODULE Paths -------------------------------
(***************************************************************************)
(* Paths and the texts of links (prov/src/link.rs).                        *)
(*                                                                         *)
(* A path is a sequence of components, a component a sequence of strings:  *)
(* <<"notes">> has no extension, <<"a", "md">> has one.  The text of a     *)
(* path link is its components and whether it begins with a slash, which   *)
(* anchors it at the workspace root.  A text of two leading slashes, which *)
(* names an absolute path, is left out, as are Windows prefixes.           *)
(***************************************************************************)
EXTENDS Folding, SequencesExt

Up   == <<"..">>
Here == <<".">>

\* What a component may be: a step up, the place itself, or a name.
Component == {Up, Here} \cup Seq(STRING)

IsNormal(c) == c # Up /\ c # Here

\* Mutant: ".." takes whatever is before it, a leading ".." too.
PushUpAlways(out, c) ==
    CASE c = Here -> out
      [] c = Up /\ out # <<>> -> Front(out)
      [] OTHER -> Append(out, c)

\* One component onto a path that is normal so far: "." says nothing, ".."
\* takes the component before it unless there is none to take.
Push(out, c) ==
    CASE c = Here -> out
      [] c = Up /\ out # <<>> /\ IsNormal(Last(out)) -> Front(out)
      [] OTHER -> Append(out, c)

Normalize(path) == Fold(Push, <<>>, path)

\* The path leads out of the workspace it is joined onto.
EscapesRoot(path) ==
    LET n == Normalize(path) IN n # <<>> /\ Head(n) = Up

Dir(path) == IF path = <<>> THEN <<>> ELSE Front(path)

Stem(path)      == <<Last(path)[1]>>
Extension(path) == Last(path)[2]
WithExtension(path, ext) == Append(Dir(path), <<Last(path)[1], ext>>)

PathLink(abs, parts) == [abs |-> abs, parts |-> parts]

\* Where the text, written in the document at doc, leads.
Resolve(doc, text) ==
    Normalize(IF text.abs THEN text.parts ELSE Dir(doc) \o text.parts)

\* The text that leads from a document in the directory from to the path to.
Relative(from, to) ==
    LET common == Len(LongestCommonPrefix({from, to}))
        climb  == [i \in 1..(Len(from) - common) |-> Up]
        parts  == climb \o SubSeq(to, common + 1, Len(to))
    IN  PathLink(FALSE, IF parts = <<>> THEN <<Here>> ELSE parts)

\* The spellings of a path link: from the root, from the document's own
\* directory, or the path itself with no slash.
PathStyle == {"root", "relative", "canonical"}

PathText(style, from, to) ==
    CASE style = "root"      -> PathLink(TRUE, to)
      [] style = "relative"  -> Relative(Dir(from), to)
      [] style = "canonical" -> PathLink(FALSE, to)

\* A bare name, no separator and no extension: read as a title or a stem
\* before it is read as a path.
AliasShaped(text) ==
    /\ ~text.abs
    /\ Len(text.parts) = 1
    /\ Len(text.parts[1]) = 1

=============================================================================
