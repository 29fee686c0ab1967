---------------------------- MODULE Containment ----------------------------
(***************************************************************************)
(* The mutations of prov/src/mutate.rs that keep the links of a workspace  *)
(* true: create, adopt, reparent, rename, delete, separate, combine,       *)
(* duplicate, retitle and convert_link_style, over the files themselves.   *)
(*                                                                         *)
(* Each computes every edit from the files it finds, stages them as one    *)
(* change set and commits it.  A committed set lands whole or not at all   *)
(* (ChangeSet), so a mutation is one step.  Between mutations people edit  *)
(* their documents.                                                        *)
(***************************************************************************)
EXTENDS Documents

CONSTANTS
    Doc,        \* documents ever written; their number is a bound
    First,      \* the document a workspace begins with
    Index,      \* the paths it begins at
    Authored,   \* the style prov writes links in
    Style,      \* the styles links are converted to
    Written,    \* the texts people write in links of their own
    Titles,     \* the titles documents are given
    CopyOf,     \* the path a copy is tried at first, of a document's path
    MaxLinks,   \* bound: links people write
    ProseGiven, \* whether commands are given prose files too
    Partial

(***************************************************************************)
(* Paths have components, the last with a stem and an extension.  A        *)
(* separated workspace begins with the place of its prose, and a copy has  *)
(* the extension of what it is a copy of.                                  *)
(***************************************************************************)
ASSUME PlacesAssumption ==
    /\ IsFiniteSet(Place)
    /\ \A p \in Place : p \in Seq(Component) /\ p # <<>> /\ Len(Last(p)) = 2
    /\ Index \subseteq Place
    /\ \A p \in Index : Whole(p) => WithExtension(p, "md") \in Place
    /\ \A p \in DOMAIN CopyOf : Extension(CopyOf[p]) = Extension(p)

ASSUME FirstAssumption == First \in Doc

\* Any file the mutations write.
File ==
    [who : Doc, meta : BOOLEAN, title : Titles \cup {Untitled},
     rel : [{"contents", "part_of", "links"} -> Seq([label : Seq(STRING),
                                                     text : [abs : BOOLEAN,
                                                             parts : Seq(Seq(STRING))]])],
     content : Seq(Seq(STRING)), body : Seq([label : Seq(STRING),
                                             text : [abs : BOOLEAN,
                                                     parts : Seq(Seq(STRING))]])]

Ops == INSTANCE FileOps WITH Path <- Place, Bytes <- File

VARIABLES
    ws,      \* the files
    born,    \* the documents written so far
    typed,   \* how many links people have written
    done,    \* history: the last operation and the set it committed
    seen     \* history: what a reader makes of the files

vars == <<ws, born, typed, done, seen>>

-----------------------------------------------------------------------------
(***************************************************************************)
(* A reading of the workspace: the graph of its documents, by who they are *)
(* whatever their paths, the documents of the tree, and what check says of *)
(* each.  A document has one file with its metadata, its node.             *)
(***************************************************************************)
NodesOf(w)   == {p \in Files(w) : w[p].meta}
NodeIn(w, d) == CHOOSE p \in NodesOf(w) : w[p].who = d

\* The document the tree is read from.
Top(w) == SpanningRoot(w, NodeIn(w, First))

Pointed(w, scope, p, links) ==
    {w[q].who : q \in (UNION {ResolveWith(w, scope, p, l) : l \in ToSet(links)}) \cap Files(w)}

ReadingFrom(w, docs, top, scope) ==
    LET leads(r) == [d \in docs |->
                        Pointed(w, scope, NodeIn(w, d), Edges(w, NodeIn(w, d), r))]
        prose(d) == UNION {Pointed(w, scope, p, w[p].body) :
                              p \in {q \in Files(w) : w[q].who = d}}
        who(p) == IF Exists(w, p) THEN w[p].who ELSE "nobody"
    IN  [docs   |-> docs,
         up     |-> leads("part_of"),
         down   |-> leads("contents"),
         refs   |-> With(leads("links"), LAMBDA l : [d \in docs |-> l[d] \cup prose(d)]),
         tree   |-> {w[p].who : p \in WalkIn(w, scope, top).read \cap Files(w)},
         faults |-> {<<f.kind, who(f.doc)>> : f \in CheckIn(w, scope, top)}]

\* With its first document gone, a workspace is read no further.
Lost(docs) == LET none == [d \in docs |-> {}]
              IN  [docs |-> docs, up |-> none, down |-> none, refs |-> none,
                   tree |-> {}, faults |-> {}]

Reading(w) ==
    LET from(docs) ==
            IF First \notin docs THEN Lost(docs)
            ELSE With(Top(w), LAMBDA top :
                     With(TitleScope(w, top), LAMBDA scope :
                         ReadingFrom(w, docs, top, scope)))
    IN  With({w[p].who : p \in NodesOf(w)}, from)

-----------------------------------------------------------------------------
(* Staging and committing.                                                 *)

After(ops, d) == LET run(e, op) == Ops!Effect(op, e) IN Fold(run, d, ops)

Runs(ops, d) ==
    \A k \in DOMAIN ops : Ops!Possible(ops[k], After(SubSeq(ops, 1, k - 1), d))

If(c, ops) == IF c THEN ops ELSE <<>>

Becomes(w) == \E next \in {w} : ws' = next /\ seen' = Reading(next)

Commit(op, about, ops) ==
    /\ Becomes(IF Runs(ops, ws) THEN After(ops, ws) ELSE ws)
    /\ done' = [op |-> op, about |-> about, ops |-> ops]

-----------------------------------------------------------------------------
(* Edits.                                                                  *)

\* What a link to the document at p is labelled: its title, or its stem's.
TitleOf(p) == IF ws[p].title = Untitled THEN Stem(p) ELSE ws[p].title

Author(from, to, title) == Link(title, PathText(Authored, from, to))

\* An edit of the metadata of a file that has none begins some.
SetUp(f, link)   == [f EXCEPT !.meta = TRUE, !.rel["part_of"] = <<link>>]
AddDown(f, link) == [f EXCEPT !.meta = TRUE, !.rel["contents"] = Append(@, link)]

\* The positions of the links of a relation that lead to a path.
Entries(f, doc, r, to) == {i \in DOMAIN f.rel[r] : ResolveLink(doc, f.rel[r][i]) = to}

FirstOf(S) == CHOOSE i \in S : \A j \in S : i <= j

\* Mutant: the last entry goes, whichever it is.
DropLast(f, doc, child) ==
    IF f.rel["contents"] = <<>> THEN f ELSE [f EXCEPT !.rel["contents"] = Front(@)]

\* The document's first entry for a child goes, if there is one.
DropDown(f, doc, child) ==
    LET at == Entries(f, doc, "contents", child)
    IN  IF at = {} THEN f
        ELSE [f EXCEPT !.rel["contents"] = RemoveAt(@, FirstOf(at))]

Lists(p, child) == Entries(ws[p], p, "contents", child) # {}

MapLinks(Op(_), links) == [i \in DOMAIN links |-> Op(links[i])]

\* Every link of a file, in its metadata and in its prose.
EditLinks(Op(_), f) ==
    [f EXCEPT !.rel = [r \in DOMAIN f.rel |-> MapLinks(Op, f.rel[r])],
              !.body = MapLinks(Op, f.body)]

\* Links of a document that moves from one directory to another are spelt so
\* that they lead to the same paths.
Rerelativized(f, from, to) ==
    LET move(l) == [l EXCEPT !.text = Relative(Dir(to), Resolve(from, l.text))]
    IN  IF Dir(from) = Dir(to) THEN f ELSE EditLinks(move, f)

\* Mutant: the link is spelt from its text, not from what it resolves to.
RestyledText(f, doc, style) ==
    LET spell(l) == [l EXCEPT !.text = PathText(style, doc, l.text.parts)]
    IN  EditLinks(spell, f)

Restyled(f, doc, style) ==
    LET spell(l) == IF AliasShaped(l.text) THEN l
                    ELSE [l EXCEPT !.text = PathText(style, doc, Resolve(doc, l.text))]
    IN  EditLinks(spell, f)

\* The links of the document at source that lead to from lead to to: every
\* one in its prose, and the first of each relation.
Retargeted(f, source, from, to) ==
    LET reach(l) == [l EXCEPT !.text = Relative(Dir(source), to)]
        prose(l) == IF ResolveLink(source, l) = from THEN reach(l) ELSE l
        first(r) == LET at == Entries(f, source, r, from)
                    IN  IF at = {} THEN f.rel[r]
                        ELSE [f.rel[r] EXCEPT ![FirstOf(at)] = reach(@)]
    IN  [f EXCEPT !.rel = [r \in DOMAIN f.rel |-> first(r)],
                  !.body = MapLinks(prose, f.body)]

\* Mutant: only the parent's entry is relabelled.
RelabelledDown(f, source, to, title) ==
    LET fresh(l) == IF l.label # <<>> /\ ResolveLink(source, l) = to
                    THEN [l EXCEPT !.label = title] ELSE l
    IN  [f EXCEPT !.rel["contents"] = MapLinks(fresh, f.rel["contents"])]

Relabelled(f, source, to, title) ==
    LET fresh(l) == IF l.label # <<>> /\ ResolveLink(source, l) = to
                    THEN [l EXCEPT !.label = title] ELSE l
    IN  [f EXCEPT !.rel = [r \in DOMAIN f.rel |-> MapLinks(fresh, f.rel[r])]]

\* Mutant: the census is taken from the document, not from its root.
InboundBelow(p) ==
    {e.source : e \in {c \in Census(ws, p) :
                          c.leads.kind = "file" /\ c.leads.path = p}} \ {p}

\* The documents of p's tree with a link that leads to p, other than p.
Inbound(p) ==
    {e.source : e \in {c \in Census(ws, SpanningRoot(ws, p)) :
                          c.leads.kind = "file" /\ c.leads.path = p}} \ {p}

\* The writes that make an edit of each of those documents that it changes.
Rewrites(Edit(_, _), sources) ==
    LET changed == {s \in sources : Edit(ws[s], s) # ws[s]}
    IN  [i \in 1..Cardinality(changed) |->
            LET s == SetToSeq(changed)[i] IN Ops!Write(s, Edit(ws[s], s))]

InboundRewrites(from, to) ==
    LET edit(f, s) == Retargeted(f, s, from, to)
    IN  Rewrites(edit, Inbound(from))

-----------------------------------------------------------------------------
(* create, adopt, reparent.                                                *)

New(d, title, up, body) ==
    [who |-> d, meta |-> TRUE, title |-> title,
     rel |-> [NoLinks EXCEPT !["part_of"] = up],
     content |-> body, body |-> <<>>]

\* A separated parent gets a separated child, unless the path is a metadata
\* file's: the prose at the path, the node beside it.
Create(p, q) ==
    /\ Exists(ws, q)
    /\ \E d \in Doc \ born, title \in Titles :
        LET apart == ~Whole(p) /\ Whole(q) /\ Separated(ws, q)
            node  == IF apart THEN WithExtension(p, "yaml") ELSE p
            up    == <<Author(node, q, TitleOf(q))>>
            body  == IF apart THEN <<Last(p)>> ELSE <<>>
        IN  /\ node \in Place
            /\ ~Exists(ws, node)
            /\ apart => ~Exists(ws, p)
            /\ Commit("create", <<d, ws[q].who>>,
                      <<Ops!Write(node, New(d, title, up, body))>>
                      \o If(apart, <<Ops!Write(p, Prose(d, <<>>))>>)
                      \o <<Ops!Write(q, AddDown(ws[q], Author(q, node, title)))>>)
            /\ born' = born \cup {d}
    /\ UNCHANGED typed

PointsUp(child, parent) ==
    \E i \in DOMAIN Edges(ws, child, "part_of") :
        ResolveLink(child, Edges(ws, child, "part_of")[i]) = parent

\* Whichever direction is missing is written.  A child that names another
\* parent is refused.
Adopt(child, parent) ==
    /\ child # parent
    /\ Exists(ws, child) /\ Exists(ws, parent)
    /\ Edges(ws, child, "part_of") # <<>> => PointsUp(child, parent)
    /\ ~(PointsUp(child, parent) /\ Lists(parent, child))
    /\ Commit("adopt", <<ws[child].who, ws[parent].who>>,
              If(~PointsUp(child, parent),
                 <<Ops!Write(child, SetUp(ws[child],
                                          Author(child, parent, TitleOf(parent))))>>)
              \o If(~Lists(parent, child),
                    <<Ops!Write(parent, AddDown(ws[parent],
                                                Author(parent, child, TitleOf(child))))>>))
    /\ UNCHANGED <<born, typed>>

\* The child's claim, the new parent's entry, and last the old parent's, read
\* from what is staged when that is one of the two.
Reparent(child, parent) ==
    LET old   == Parent(ws, child)
        begun == <<Ops!Write(child, SetUp(ws[child],
                                          Author(child, parent, TitleOf(parent))))>>
                 \o If(~Lists(parent, child),
                       <<Ops!Write(parent, AddDown(ws[parent],
                                                   Author(parent, child, TitleOf(child))))>>)
        staged == After(begun, ws)
        unlist(q) == LET f == DropDown(staged[q], q, child)
                     IN  If(f # staged[q], <<Ops!Write(q, f)>>)
    IN  /\ child # parent
        /\ Exists(ws, child) /\ Exists(ws, parent)
        /\ child \notin ToSet(Climb(ws, parent))
        /\ old # {parent}
        /\ \A q \in old : Exists(ws, q)
        /\ Commit("reparent", <<ws[child].who, ws[parent].who>>,
                  begun \o FlattenSeq([i \in 1..Cardinality(old) |->
                                          unlist(CHOOSE q \in old : TRUE)]))
        /\ UNCHANGED <<born, typed>>

-----------------------------------------------------------------------------
(* rename, delete.                                                         *)

\* The body beside a node: the node's stem, the body's extension.
BodyBeside(node, body) == WithExtension(node, Extension(body))

Rename(from, to) ==
    LET apart == Separated(ws, from)
        body  == ContentTarget(ws, from)
        goes  == BodyBeside(to, body)
        node  == Rerelativized(ws[from], from, to)
    IN  /\ Exists(ws, from) /\ ~Exists(ws, to)
        /\ Extension(from) = Extension(to)
        /\ apart => /\ Exists(ws, body)
                    /\ goes \in Place /\ ~Exists(ws, goes)
        /\ Commit("rename", <<ws[from].who>>,
                  <<Ops!Rename(from, to),
                    Ops!Write(to, IF apart THEN [node EXCEPT !.content = <<Last(goes)>>]
                                  ELSE node)>>
                  \o If(apart, <<Ops!Rename(body, goes),
                                 Ops!Write(goes, Rerelativized(ws[body], body, goes))>>)
                  \o InboundRewrites(from, to))
        /\ UNCHANGED <<born, typed>>

\* Mutant: the prose stays where it is.
DeleteNode(p, force) ==
    /\ Exists(ws, p)
    /\ Edges(ws, p, "contents") # <<>> => force
    /\ \A q \in Parent(ws, p) : Exists(ws, q)
    /\ Commit("delete", <<ws[p].who>>,
              <<Ops!Remove(p)>>
              \o FlattenSeq(SetToSeq({
                    If(Lists(q, p), <<Ops!Write(q, DropDown(ws[q], q, p))>>)
                        : q \in Parent(ws, p)})))
    /\ UNCHANGED <<born, typed>>

\* Refused for a document with children unless forced.
Delete(p, force) ==
    LET body == ContentTarget(ws, p)
    IN  /\ Exists(ws, p)
        /\ Edges(ws, p, "contents") # <<>> => force
        /\ \A q \in Parent(ws, p) : Exists(ws, q)
        /\ Commit("delete", <<ws[p].who>>,
                  <<Ops!Remove(p)>>
                  \o If(Separated(ws, p) /\ Exists(ws, body), <<Ops!Remove(body)>>)
                  \o FlattenSeq(SetToSeq({
                        If(Lists(q, p), <<Ops!Write(q, DropDown(ws[q], q, p))>>)
                            : q \in Parent(ws, p)})))
        /\ UNCHANGED <<born, typed>>

-----------------------------------------------------------------------------
(* separate, combine, duplicate.                                           *)

Separate(p) ==
    LET node == WithExtension(p, "yaml")
    IN  /\ Exists(ws, p) /\ ~Whole(p) /\ ws[p].meta /\ ~Separated(ws, p)
        /\ node \in Place /\ ~Exists(ws, node)
        /\ Commit("separate", <<ws[p].who>>,
                  <<Ops!Write(node, [ws[p] EXCEPT !.content = <<Last(p)>>, !.body = <<>>]),
                    Ops!Write(p, Prose(ws[p].who, ws[p].body))>>
                  \o InboundRewrites(p, node))
        /\ UNCHANGED <<born, typed>>

Combine(p) ==
    LET body == ContentTarget(ws, p)
    IN  /\ Exists(ws, p) /\ Whole(p) /\ Separated(ws, p)
        /\ Exists(ws, body)
        /\ Commit("combine", <<ws[p].who>>,
                  <<Ops!Write(body, [ws[p] EXCEPT !.content = <<>>, !.body = ws[body].body]),
                    Ops!Remove(p)>>
                  \o InboundRewrites(p, body))
        /\ UNCHANGED <<born, typed>>

\* A copy's name is bumped until node and body are free; one name is tried
\* here.
CopyFree(copy, goes, apart) ==
    /\ copy \in Place /\ ~Exists(ws, copy)
    /\ apart => goes \in Place /\ ~Exists(ws, goes)

\* A copy beside the document, below the same parent, without its children.
Duplicate(p) ==
    LET apart == Separated(ws, p)
        body  == ContentTarget(ws, p)
        copy  == CopyOf[p]
        goes  == BodyBeside(copy, body)
        kept  == [ws[p] EXCEPT !.rel["contents"] = <<>>]
    IN  /\ Exists(ws, p) /\ p \in DOMAIN CopyOf
        /\ apart => Exists(ws, body)
        /\ CopyFree(copy, goes, apart)
        /\ \A q \in Parent(ws, p) : Exists(ws, q)
        /\ \E d \in Doc \ born :
            /\ Commit("duplicate", <<d, ws[p].who>>,
                      <<Ops!Write(copy, IF apart
                                        THEN [kept EXCEPT !.who = d, !.content = <<Last(goes)>>]
                                        ELSE [kept EXCEPT !.who = d])>>
                      \o If(apart, <<Ops!Write(goes, [ws[body] EXCEPT !.who = d])>>)
                      \o FlattenSeq(SetToSeq({
                            <<Ops!Write(q, AddDown(ws[q], Author(q, copy, TitleOf(p))))>>
                                : q \in Parent(ws, p)})))
            /\ born' = born \cup {d}
        /\ UNCHANGED typed

-----------------------------------------------------------------------------
(* retitle, convert_link_style.                                            *)

Retitle(p, title) ==
    LET edit(f, s) == Relabelled(f, s, p, title)
    IN  /\ Exists(ws, p) /\ ws[p].meta /\ ws[p].title # title
        /\ Commit("retitle", <<ws[p].who>>,
                  <<Ops!Write(p, [ws[p] EXCEPT !.title = title])>>
                  \o Rewrites(edit, Inbound(p)))
        /\ UNCHANGED <<born, typed>>

ConvertLinkStyle(p, style, recursive) ==
    LET edit(f, s) == Restyled(f, s, style)
        scope      == IF recursive THEN SpanningSubtree(ws, p) ELSE {p}
    IN  /\ Exists(ws, p)
        /\ Commit("restyle", <<>>, Rewrites(edit, scope))
        /\ UNCHANGED <<born, typed>>

-----------------------------------------------------------------------------
(* What people do to their own files.                                      *)

\* A link of their own in a document's overlay relation or in its prose.
Write(p, text) ==
    /\ Exists(ws, p) /\ typed < MaxLinks
    /\ \/ /\ ws[p].meta
          /\ Becomes([ws EXCEPT ![p].rel["links"] = Append(@, Link(<<>>, text))])
       \/ /\ ~Whole(p)
          /\ Becomes([ws EXCEPT ![p].body = Append(@, Link(<<>>, text))])
    /\ typed' = typed + 1
    /\ done' = [op |-> "edit", about |-> <<>>, ops |-> <<>>]
    /\ UNCHANGED born

\* A document of their own, which names no parent.
Stray(p) ==
    /\ ~Exists(ws, p) /\ ~Whole(p)
    /\ \E d \in Doc \ born, title \in Titles :
        /\ Becomes([ws EXCEPT ![p] = New(d, title, <<>>, <<>>)])
        /\ born' = born \cup {d}
    /\ done' = [op |-> "edit", about |-> <<>>, ops |-> <<>>]
    /\ UNCHANGED typed

-----------------------------------------------------------------------------
\* A workspace of its first document alone, combined or separated.
Init ==
    /\ \E node \in Index, title \in Titles :
        LET apart == Whole(node)
            body  == WithExtension(node, "md")
        IN  ws = [p \in Place |->
                    CASE p = node -> New(First, title, <<>>,
                                         IF apart THEN <<Last(body)>> ELSE <<>>)
                      [] p # node /\ apart /\ p = body -> Prose(First, <<>>)
                      [] OTHER -> Absent]
    /\ born = {First}
    /\ typed = 0
    /\ done = [op |-> "init", about |-> <<>>, ops |-> <<>>]
    /\ seen = Reading(ws)

(***************************************************************************)
(* A document is given by the file with its metadata.  Nothing keeps a     *)
(* command from the prose of a separated one: ProseGiven says whether      *)
(* people give that as well.                                               *)
(***************************************************************************)
Given(p) == Exists(ws, p) /\ (ProseGiven \/ ws[p].meta)

Next ==
    \/ \E p, q \in Place :
        \/ Given(q) /\ Create(p, q)
        \/ Given(p) /\ Given(q) /\ Adopt(p, q)
        \/ Given(p) /\ Given(q) /\ Reparent(p, q)
        \/ Given(p) /\ Rename(p, q)
    \/ \E p \in Place :
        \/ Given(p) /\ Separate(p)
        \/ Given(p) /\ Combine(p)
        \/ Given(p) /\ Duplicate(p)
        \/ \E force \in BOOLEAN : Given(p) /\ Delete(p, force)
        \/ \E title \in Titles : Given(p) /\ Retitle(p, title)
        \/ \E style \in Style, recursive \in BOOLEAN :
              Given(p) /\ ConvertLinkStyle(p, style, recursive)
        \/ Stray(p)
        \/ \E text \in Written : Write(p, text)

Spec == Init /\ [][Next]_vars

-----------------------------------------------------------------------------
G == INSTANCE Graph WITH docs <- seen.docs, up <- seen.up,
                         down <- seen.down, refs <- seen.refs

(***************************************************************************)
(* Only documents that were written are in the files, a file that is       *)
(* metadata by its extension reads as metadata, and the graph that a       *)
(* reader makes of the files is one of the documents that have a node.     *)
(***************************************************************************)
TypeOK ==
    /\ born \subseteq Doc
    /\ typed \in 0..MaxLinks
    /\ \A p \in Files(ws) : ws[p].who \in born /\ (Whole(p) => ws[p].meta)
    /\ G!WellFormed

(***************************************************************************)
(* The files of a document stay together: it has one node, and prose of    *)
(* its own beside the node exactly when the node is separated.             *)
(***************************************************************************)
PiecesTogether ==
    \A d \in born :
        LET pieces == {p \in Files(ws) : ws[p].who = d}
            nodes  == pieces \cap NodesOf(ws)
        IN  /\ pieces # {} => Cardinality(nodes) = 1
            /\ \A p \in nodes :
                  pieces \ {p} = IF Separated(ws, p) THEN {ContentTarget(ws, p)} ELSE {}

(***************************************************************************)
(* Every label prov wrote says the present title of what its link leads    *)
(* to, whichever of the two has been moved, copied or retitled since.      *)
(***************************************************************************)
LabelsTrue ==
    \A p \in NodesOf(ws) : \A l \in UNION {ToSet(Edges(ws, p, r)) : r \in DOMAIN ws[p].rel} :
        (l.label # Untitled /\ ResolveLink(p, l) \in NodesOf(ws)) =>
            l.label = ws[ResolveLink(p, l)].title

(***************************************************************************)
(* The workspaces the promises below are about: check finds nothing but    *)
(* orphans, and the tree is one whose links the mutations undertake to     *)
(* maintain.  What they do not maintain is left out line by line: the      *)
(* second link of a relation that leads to one path, a document's links to *)
(* itself, the links in prose apart from its node and the links that lead  *)
(* to such prose, and the links of documents outside the tree.             *)
(***************************************************************************)
Regular ==
    /\ First \in seen.docs
    /\ \A f \in seen.faults : f[1] = "orphan"
    \* no document leads to itself, and no relation leads anywhere twice
    /\ \A p \in NodesOf(ws) : \A r \in DOMAIN ws[p].rel :
          LET to == [i \in DOMAIN Edges(ws, p, r) |-> ResolveLink(p, Edges(ws, p, r)[i])]
          IN  /\ p \notin ToSet(to)
              /\ IsInjective(to)
    /\ \A p \in NodesOf(ws) : \A l \in ToSet(ws[p].body) : ResolveLink(p, l) # p
    \* prose apart from its node has no links
    /\ \A p \in Files(ws) \ NodesOf(ws) : ws[p].body = <<>>
    \* links lead to nodes, never to prose beside one
    /\ \A p \in NodesOf(ws) : \A r \in DOMAIN ws[p].rel :
          \A l \in ToSet(Edges(ws, p, r)) \cup ToSet(ws[p].body) :
              ResolveLink(p, l) \notin Files(ws) \ NodesOf(ws)
    \* each document has the parent that lists it
    /\ \A d, e \in seen.docs : e \in seen.up[d] <=> d \in seen.down[e]
    /\ \A d \in seen.docs : Cardinality(seen.up[d]) <= 1
    \* documents outside the tree have no links, and none from it
    /\ \A p \in NodesOf(ws) : ws[p].who \notin seen.tree => LinksOf(ws, p) = <<>>
    /\ \A d \in seen.tree : seen.refs[d] \subseteq seen.tree

(***************************************************************************)
(* What a mutation promises of the documents, whatever it does to paths    *)
(* and spellings: rename, separate, combine, retitle and                   *)
(* convert_link_style change nothing of who contains, names and refers to  *)
(* whom; create, adopt, reparent, duplicate and delete change what they    *)
(* say and no more.  Every link of every document is resolved before and   *)
(* after, so that one missed rewrite, one entry too many dropped or one    *)
(* link spelt from the wrong directory, however far away, breaks the step. *)
(***************************************************************************)
GraphStep ==
    LET d == done'.about
    IN  CASE done'.op \in {"rename", "separate", "combine", "retitle", "restyle"} ->
               UNCHANGED G!vars
          [] done'.op = "create" -> G!Insert(d[1], {d[2]}, {})
          [] done'.op = "duplicate" -> G!Insert(d[1], seen.up[d[2]], seen.refs[d[2]])
          [] done'.op \in {"adopt", "reparent"} -> G!Move(d[1], d[2])
          [] done'.op = "delete" -> First \notin seen'.docs \/ G!Remove(d[1])
          [] OTHER -> TRUE

\* The mutations implement the steps of Graph.
GraphSteps == [][Regular => GraphStep]_vars

(***************************************************************************)
(* A workspace that check finds clean stays so: no mutation makes a link   *)
(* that leads nowhere or to two documents, a child contained twice or one  *)
(* that does not name its parent, or an orphan of what was in the tree.    *)
(* Of what delete leaves, only links to the deleted document are broken,   *)
(* when it was not forced over children.  adopt and reparent of the root   *)
(* itself, which detach the tree from where it is read, are left out.      *)
(***************************************************************************)
CleanStep ==
    LET d   == done'.about
        new == {f \in seen'.faults \ seen.faults : f[1] = "orphan" => f[2] \in seen.tree}
    IN  CASE done'.op = "edit" -> TRUE
          [] done'.op = "delete" ->
               \/ First \notin seen'.docs
               \/ seen.down[d[1]] # {}
               \/ new \subseteq {<<"broken", e>> : e \in {c \in seen.docs : d[1] \in seen.refs[c]}}
          [] done'.op = "adopt" -> d[1] = ws[Top(ws)].who \/ new = {}
          [] done'.op = "reparent" ->
               d[1] # ws[Top(ws)].who /\ d[2] \in seen.tree => new = {}
          [] OTHER -> new = {}

\* No step of prov's own takes away from a clean workspace.
CheckStaysClean == [][Regular => CleanStep]_vars

(***************************************************************************)
(* Every set a mutation commits can be carried out and carried out again   *)
(* from any point: its sources are there, what it moves goes where nothing *)
(* is, each op runs where the ones before it leave the files, and no write *)
(* puts one document's text over another's (the form of set the theorems   *)
(* of ChangeSetProofs assume).                                             *)
(***************************************************************************)
StagedSafely ==
    [][ LET ops == done'.ops
        IN  /\ Runs(ops, ws)
            /\ Ops!ReplaySafe(ops)
            /\ Ops!SourcesExist(ops, ws) /\ Ops!DestinationsFree(ops, ws)
            /\ \A i \in DOMAIN ops :
                  (Ops!IsWrite(ops[i]) /\ Exists(ws, ops[i].path)) =>
                      ops[i].bytes.who = ws[ops[i].path].who ]_vars

=============================================================================
