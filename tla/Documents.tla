----------------------------- MODULE Documents -----------------------------
(***************************************************************************)
(* A workspace as prov reads it back from its files: documents, the links  *)
(* they declare, what the links lead to, and the walk down the spanning    *)
(* relation that census, check and every mutation start from               *)
(* (prov/src/workspace.rs, relation.rs, validate.rs, tree.rs).             *)
(*                                                                         *)
(* Every operator takes the files as its first parameter, so that the      *)
(* specifications that use this module can ask it of any workspace, the    *)
(* one before a step or the one after.  Documents link by path or by name; *)
(* links by id are in Registry.                                            *)
(***************************************************************************)
EXTENDS Paths, FiniteSets

CONSTANT Place   \* the workspace-relative paths there may be files at

\* What is at a path with no file: a record with no field of a file's.
Absent == [absent |-> TRUE]

Untitled == <<>>

\* A link as written: its label, if it has one, and its text.
Link(label, text) == [label |-> label, text |-> text]

\* The relations of the built-in vocabulary that documents link by, in the
\* order edges are read.  contents is the spanning one, part_of its inverse.
Relations == <<"contents", "part_of", "links">>
NoLinks   == [r \in {"contents", "part_of", "links"} |-> <<>>]

(***************************************************************************)
(* A file that reads as a document.  who tells which document it is part   *)
(* of, whatever its path and title: a history that nothing in prov reads.  *)
(* A file of prose alone has no metadata; content is the name of the body  *)
(* file beside a separated node, and body the links in a file's prose.     *)
(***************************************************************************)
Prose(who, body) ==
    [who |-> who, meta |-> FALSE, title |-> Untitled, rel |-> NoLinks,
     content |-> <<>>, body |-> body]

\* Mutant: only a document counts as a file.
ExistsRead(ws, p) == p \in Place /\ ws[p] # Absent /\ ws[p].meta

Exists(ws, p) == p \in Place /\ ws[p] # Absent
Files(ws)     == {p \in Place : ws[p] # Absent}

\* Whole-file metadata is told by the extension.
Whole(p) == Extension(p) = "yaml"

\* The file the content pointer of the document at p names.
ContentTarget(ws, p) == Append(Dir(p), ws[p].content[1])
Separated(ws, p)     == ws[p].content # <<>>

Edges(ws, p, r) == ws[p].rel[r]

\* Every link of the document at p: relation by relation, then the body's.
LinksOf(ws, p) ==
    FlattenSeq([i \in DOMAIN Relations |-> Edges(ws, p, Relations[i])])
        \o ws[p].body

-----------------------------------------------------------------------------
(* What a link leads to.                                                   *)

\* Without names: a path, whether or not there is a file.
ResolveLink(doc, link) == Resolve(doc, link.text)

\* The first link of the inverse relation, for a document that has one.
Parent(ws, p) ==
    LET up == Edges(ws, p, "part_of")
    IN  IF up = <<>> THEN {} ELSE {ResolveLink(p, up[1])}

\* The documents a traversal by path links reaches from start, and start.
Reached(ws, start) ==
    LET down(p) == {ResolveLink(p, l) : l \in {k \in ToSet(Edges(ws, p, "contents")) :
                                                  ~AliasShaped(k.text)}}
        wider(S) == S \cup UNION {down(p) : p \in S \cap Files(ws)}
    IN  Repeat(wider, {start}, Cardinality(Place))

\* The directories names are looked for in: those the tree's links lead into,
\* or all, when the tree itself is held together by names.
TitleScope(ws, start) ==
    LET reached == Reached(ws, start)
        read    == reached \cap Files(ws)
        out(p)  == {ResolveLink(p, l) :
                       l \in {k \in ToSet(LinksOf(ws, p)) : ~AliasShaped(k.text)}}
    IN  IF \E p \in read : \E l \in ToSet(Edges(ws, p, "contents")) : AliasShaped(l.text)
        THEN {Dir(p) : p \in Place}
        ELSE {Dir(p) : p \in reached \cup UNION {out(p) : p \in read}}

\* The names a document goes by: its stem and its title.
Claims(ws, p) == {Stem(p), ws[p].title}

\* The documents of those directories that go by the name.
Named(ws, scope, name) ==
    {p \in Files(ws) : Dir(p) \in scope /\ name \in Claims(ws, p)}

Leads(kind, path) == [kind |-> kind, path |-> path]

\* What a link of the document at p leads to: a file, a name several
\* documents claim, or nothing.  A bare name that nothing claims is a path.
Forward(ws, scope, p, link) ==
    LET claim(named, plain) ==
            CASE Cardinality(named) = 1 -> Leads("file", CHOOSE q \in named : TRUE)
              [] Cardinality(named) > 1 -> Leads("ambiguous", plain)
              [] named = {} /\ Exists(ws, plain) -> Leads("file", plain)
              [] OTHER -> Leads("broken", plain)
        named == IF AliasShaped(link.text) THEN Named(ws, scope, link.text.parts[1]) ELSE {}
    IN  With(named, LAMBDA n : With(ResolveLink(p, link), LAMBDA plain : claim(n, plain)))

\* The path a link leads to, there or not, with names.
ResolveWith(ws, scope, p, link) ==
    {f.path : f \in {g \in {Forward(ws, scope, p, link)} : g.kind # "ambiguous"}}

-----------------------------------------------------------------------------
(* Up the tree.                                                            *)

\* From p up the first part_of links, each document once: to one that has
\* none, to one that is not there, or to the first met again.
Climb(ws, p) ==
    LET ends(c) == \/ Last(c) \in ToSet(Front(c))
                   \/ ~Exists(ws, Last(c))
                   \/ Parent(ws, Last(c)) = {}
        up(c)   == IF ends(c) THEN c
                   ELSE Append(c, CHOOSE q \in Parent(ws, Last(c)) : TRUE)
    IN  Repeat(up, <<p>>, Cardinality(Place) + 1)

SpanningRoot(ws, p) == Last(Climb(ws, p))

-----------------------------------------------------------------------------
(***************************************************************************)
(* Down the tree.  The walk takes the newest of the documents waiting,     *)
(* reads its spanning links in order, and puts each child that is neither  *)
(* read nor waiting among those that wait.  A child met again is contained *)
(* twice; one that does not name its parent lacks its inverse.             *)
(***************************************************************************)
Finding(kind, doc, at) == [kind |-> kind, doc |-> doc, at |-> at]

PointsBack(ws, scope, child, p) ==
    \E l \in ToSet(Edges(ws, child, "part_of")) : p \in ResolveWith(ws, scope, child, l)

Meet(ws, scope, p, w, link) ==
    LET lacks(child) == ws[child].meta /\ ~PointsBack(ws, scope, child, p)
        met(f) ==
            CASE f.kind # "file" -> w
              [] f.kind = "file" /\ f.path \in w.read \cup ToSet(w.waiting) ->
                    [w EXCEPT !.findings = @ \cup {Finding("duplicate", p, f.path)}]
              [] OTHER ->
                    [w EXCEPT !.waiting = Append(@, f.path),
                              !.findings = @ \cup IF lacks(f.path)
                                                  THEN {Finding("no_inverse", p, f.path)}
                                                  ELSE {}]
    IN  With(Forward(ws, scope, p, link), met)

\* A separated document's body is reached through its content pointer.
Bodies(ws, w, p) ==
    CASE ~Separated(ws, p) -> w
      [] Separated(ws, p) /\ Exists(ws, ContentTarget(ws, p)) ->
            [w EXCEPT !.bodies = @ \cup {ContentTarget(ws, p)}]
      [] OTHER ->
            [w EXCEPT !.findings = @ \cup {Finding("broken", p, ContentTarget(ws, p))}]

Visit(ws, scope, w) ==
    LET p    == Last(w.waiting)
        rest == [w EXCEPT !.waiting = Front(@)]
        read == [rest EXCEPT !.read = @ \cup {p}]
        meet(v, link) == Meet(ws, scope, p, v, link)
    IN  CASE p \in w.read -> rest
          [] p \notin w.read /\ ~Exists(ws, p) ->
                [read EXCEPT !.findings = @ \cup {Finding("unreadable", p, p)}]
          [] OTHER -> With(Fold(meet, read, Edges(ws, p, "contents")),
                           LAMBDA v : Bodies(ws, v, p))

WalkIn(ws, scope, start) ==
    LET next(w) == IF w.waiting = <<>> THEN w ELSE Visit(ws, scope, w)
    IN  Repeat(next, [waiting |-> <<start>>, read |-> {}, bodies |-> {}, findings |-> {}],
               Cardinality(Place) + 1)

Walk(ws, start) ==
    With(TitleScope(ws, start), LAMBDA scope : WalkIn(ws, scope, start))

\* The documents the walk has read.
Walked(ws, start) == Walk(ws, start).read \cap Files(ws)

\* Every forward link of the documents walked, with what it leads to.
CensusOf(ws, scope, walked) ==
    UNION {{[source |-> p, link |-> l, leads |-> Forward(ws, scope, p, l)] :
                l \in ToSet(LinksOf(ws, p))} : p \in walked}

Census(ws, start) ==
    With(TitleScope(ws, start),
         LAMBDA scope : CensusOf(ws, scope, WalkIn(ws, scope, start).read \cap Files(ws)))

(***************************************************************************)
(* What check says: what the walk found, the links that lead nowhere or    *)
(* to several documents, and the files that nothing leads to, in the       *)
(* directories that something leads into.                                  *)
(***************************************************************************)
CheckOf(ws, start, w, census) ==
    LET reached == {start} \cup w.bodies
                     \cup {e.leads.path : e \in {c \in census : c.leads.kind = "file"}}
        orphans(known) == {p \in Files(ws) \ known :
                              ~Whole(p) /\ \E q \in known : Dir(q) = Dir(p)}
    IN  w.findings
        \cup {Finding(e.leads.kind, e.source, e.leads.path) :
                  e \in {c \in census : c.leads.kind # "file"}}
        \cup {Finding("orphan", p, p) : p \in With(reached, orphans)}

CheckIn(ws, scope, start) ==
    With(WalkIn(ws, scope, start),
         LAMBDA w : With(CensusOf(ws, scope, w.read \cap Files(ws)),
                         LAMBDA census : CheckOf(ws, start, w, census)))

Check(ws, start) ==
    With(TitleScope(ws, start), LAMBDA scope : CheckIn(ws, scope, start))

\* A recursive edit takes a document and what its path links contain.
SpanningSubtree(ws, p) ==
    LET down(q) == {ResolveLink(q, l) : l \in ToSet(Edges(ws, q, "contents"))}
        wider(S) == S \cup ((UNION {down(q) : q \in S}) \cap Files(ws))
    IN  Repeat(wider, {p} \cap Files(ws), Cardinality(Place))

=============================================================================
