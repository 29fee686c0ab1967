------------------------------- MODULE Repair -------------------------------
(***************************************************************************)
(* check and check --fix over documents that people edit by hand           *)
(* (prov/src/validate.rs, prov-cli/src/main.rs).                           *)
(*                                                                         *)
(* check walks the tree, takes the census of its links and reports what is *)
(* wrong.  check --fix goes through that report once: for each finding it  *)
(* asks suggest_fix, as the files then are, shows the fix, waits for an    *)
(* answer and applies it.  The report, the fix shown and the files may by  *)
(* then be of different times.                                             *)
(*                                                                         *)
(* A link is by path or by id; how a path is spelt is in Documents, what a *)
(* process does with the registry's document in Registry.                  *)
(***************************************************************************)
EXTENDS Folding, FiniteSets, SequencesExt

CONSTANTS
    Path,      \* where there may be documents
    Root,      \* the document the workspace begins with
    Id,
    Title,
    None,      \* no id, no label, no hash
    Absent,    \* no document
    Authored,  \* how prov writes the links up and down: by "path" or by "id"
    Retired,   \* ids of documents deleted before
    MaxEdits   \* bound: edits by hand

Text == {0, 1}  \* bound: the texts a document's prose may have

Link == [by : {"path"}, to : Path, label : Title \cup {None}]
        \cup [by : {"id"}, to : Id, label : Title \cup {None}]

Document ==
    [id : Id \cup {None}, title : Title, up : Seq(Link), down : Seq(Link),
     prose : Seq(Link), text : Text, hash : Text \cup {None}]

VARIABLES
    doc,     \* the files
    live,    \* the registry: the path of an id, or None
    of,      \* the id the process knows a path by
    edits,   \* how many edits people have made
    found,   \* history: what check says of the files as they are
    pc,      \* "idle", "fixing" or "asked"
    report,  \* the findings the process has still to go through
    offer,   \* the fix shown
    same     \* history: no edit since the report was made

vars == <<doc, live, of, edits, found, pc, report, offer, same>>

-----------------------------------------------------------------------------
(* A workspace: files, registry, and the process's way from path to id.    *)

Space(d, l, o) == [doc |-> d, live |-> l, of |-> o]

Exists(w, p) == w.doc[p] # Absent
Files(w)     == {p \in Path : w.doc[p] # Absent}

Leads(kind, path) == [kind |-> kind, path |-> path]

\* An id leads where the registry says, whether or not there is a file.
Forward(w, l) ==
    CASE l.by = "id" /\ w.live[l.to] # None   -> Leads("id", w.live[l.to])
      [] l.by = "id" /\ w.live[l.to] = None   -> Leads("dangling", None)
      [] l.by = "path" /\ Exists(w, l.to)     -> Leads("path", l.to)
      [] OTHER                                -> Leads("broken", l.to)

\* The path a link leads to, there or not, without asking for the file.
ResolveLink(w, l) == IF l.by = "id" THEN w.live[l.to] ELSE l.to

PointsBack(w, child, p) ==
    \E i \in DOMAIN w.doc[child].up : ResolveLink(w, w.doc[child].up[i]) = p

-----------------------------------------------------------------------------
(* check.                                                                  *)

Finding(kind, p, at, what) ==
    [kind |-> kind, doc |-> p, at |-> at, what |-> what, site |-> None]

\* A document's own id against the registry's.
IdFindings(w, p) ==
    LET own == w.doc[p].id
    IN  CASE own = None \/ w.of[p] = own -> <<>>
          [] own # None /\ w.of[p] # None /\ w.of[p] # own ->
                <<Finding("id_mismatch", p, None, w.of[p])>>
          [] own # None /\ w.of[p] = None /\ w.live[own] = None ->
                <<Finding("unregistered", p, None, own)>>
          [] own # None /\ w.of[p] = None /\ w.live[own] \notin {None, p} ->
                <<Finding("id_mismatch", p, None, None)>>
          [] OTHER -> <<>>

\* Mutant: a child that waits to be read is put in line again.
MeetRead(w, p, v, l) ==
    LET to    == Forward(w, l).path
        lacks == Exists(w, to) /\ ~PointsBack(w, to, p)
    IN  CASE Forward(w, l).kind \notin {"id", "path"} -> v
          [] Forward(w, l).kind \in {"id", "path"} /\ to \in v.read ->
                [v EXCEPT !.findings = Append(@, Finding("duplicate", p, to, None))]
          [] OTHER ->
                [v EXCEPT !.waiting = Append(@, to),
                          !.findings = @ \o IF lacks
                                            THEN <<Finding("no_inverse", p, to, None)>>
                                            ELSE <<>>]

\* A child read or waiting already is contained twice; a new one has to name
\* its parent, and waits.
Meet(w, p, v, l) ==
    LET to    == Forward(w, l).path
        lacks == Exists(w, to) /\ ~PointsBack(w, to, p)
    IN  CASE Forward(w, l).kind \notin {"id", "path"} -> v
          [] Forward(w, l).kind \in {"id", "path"} /\ to \in v.read \cup ToSet(v.waiting) ->
                [v EXCEPT !.findings = Append(@, Finding("duplicate", p, to, None))]
          [] OTHER ->
                [v EXCEPT !.waiting = Append(@, to),
                          !.findings = @ \o IF lacks
                                            THEN <<Finding("no_inverse", p, to, None)>>
                                            ELSE <<>>]

Entry(p, site, l, w) == [source |-> p, site |-> site, link |-> l, leads |-> Forward(w, l)]

\* The links of one document, relation by relation and then its prose's.
EntriesOf(w, p) ==
    LET of_(site, links) == [i \in DOMAIN links |-> Entry(p, site, links[i], w)]
    IN  of_("contents", w.doc[p].down) \o of_("part_of", w.doc[p].up)
            \o of_("prose", w.doc[p].prose)

Visit(w, v) ==
    LET p    == Last(v.waiting)
        rest == [v EXCEPT !.waiting = Front(@)]
        read == [rest EXCEPT !.read = @ \cup {p}]
        meet(u, l) == Meet(w, p, u, l)
    IN  CASE p \in v.read -> rest
          [] p \notin v.read /\ ~Exists(w, p) ->
                [read EXCEPT !.findings = Append(@, Finding("unreadable", p, p, None))]
          [] OTHER ->
                [Fold(meet, [read EXCEPT !.findings = @ \o IdFindings(w, p)], w.doc[p].down)
                    EXCEPT !.census = @ \o EntriesOf(w, p)]

Walk(w) ==
    LET next(v) == IF v.waiting = <<>> THEN v ELSE Visit(w, v)
    IN  Repeat(next, [waiting |-> <<Root>>, read |-> {}, census |-> <<>>, findings |-> <<>>],
               Cardinality(Path) + 2)

EntryFinding(e) ==
    CASE e.leads.kind = "dangling" -> <<Finding("dangling", e.source, None, e.link.to)>>
      [] e.leads.kind = "broken"   ->
            <<[Finding("broken", e.source, e.leads.path, None) EXCEPT !.site = e.site]>>
      [] OTHER -> <<>>

LedTo(census) ==
    {Root} \cup {e.leads.path : e \in {c \in ToSet(census) : c.leads.kind \in {"id", "path"}}}

Orphans(w, census) ==
    {Finding("orphan", p, p, None) : p \in Files(w) \ LedTo(census)}

\* Whatever hash is on record is checked.
Fixity(w, census) ==
    {Finding("fixity", p, p, w.doc[p].text) :
        p \in {q \in LedTo(census) \cap Files(w) :
                  w.doc[q].hash # None /\ w.doc[q].hash # w.doc[q].text}}

\* The label of a link by id is to be the title of what it leads to.
StaleLabel(w, e) ==
    IF /\ e.leads.kind = "id" /\ e.link.label # None
       /\ Exists(w, e.leads.path) /\ w.doc[e.leads.path].title # e.link.label
    THEN <<[Finding("stale_label", e.source, e.link.to, w.doc[e.leads.path].title)
               EXCEPT !.site = e.site]>>
    ELSE <<>>

\* The report, in its order.  Orphans and hashes come in the order of paths.
Check(w) ==
    LET all(v) ==
            v.findings
            \o FlattenSeq([i \in DOMAIN v.census |-> EntryFinding(v.census[i])])
            \o SetToSeq(Orphans(w, v.census)) \o SetToSeq(Fixity(w, v.census))
            \o FlattenSeq([i \in DOMAIN v.census |-> StaleLabel(w, v.census[i])])
    IN  With(Walk(w), all)

-----------------------------------------------------------------------------
(* The fix for a finding, as the files are when it is asked for.           *)

Fix(kind, p, at, what) == [kind |-> kind, doc |-> p, at |-> at, what |-> what]

Refused == Fix("error", None, None, None)
NoFix   == Fix("none", None, None, None)


\* Only for a child that claims no parent.
MissingInverse(w, f) ==
    CASE ~Exists(w, f.at) -> Refused
      [] Exists(w, f.at) /\ w.doc[f.at].up # <<>> -> NoFix
      [] Exists(w, f.at) /\ w.doc[f.at].up = <<>> ->
            IF Exists(w, f.doc)
            THEN Fix("add_inverse", f.at, f.doc, w.doc[f.doc].title) ELSE Refused

\* An id only where the registry has one for the path, a label only where the
\* link leads somewhere.
Suggest(w, f) ==
    CASE f.kind = "no_inverse" -> MissingInverse(w, f)
      [] f.kind = "id_mismatch" /\ f.what # None -> Fix("set_id", f.doc, None, f.what)
      [] f.kind = "unregistered" -> Fix("register_id", f.doc, None, f.what)
      [] f.kind = "fixity"       -> Fix("restamp", f.doc, None, f.what)
      [] f.kind = "stale_label" /\ w.live[f.at] # None ->
            Fix("relabel", f.doc, w.live[f.at], f.what)
      [] f.kind = "orphan"       -> Fix("adopt", f.doc, Root, None)
      [] OTHER -> NoFix

\* The registry with an id given to a path, and the process's memory of it.
Register(w, i, p) == [w EXCEPT !.live[i] = p, !.of[p] = i]

\* The link prov writes to a document, and the workspace it leaves: a link by
\* id registers what it leads to, with an id that was never given out.
Author(w, way, to, label) ==
    CASE Authored[way] = "path" -> {<<[by |-> "path", to |-> to, label |-> label], w>>}
      [] Authored[way] = "id" /\ w.of[to] # None ->
            {<<[by |-> "id", to |-> w.of[to], label |-> label], w>>}
      [] OTHER ->
            {<<[by |-> "id", to |-> i, label |-> label], Register(w, i, to)>> :
                i \in {j \in Id \ Retired : w.live[j] = None}}

\* The labels of the links of a document's relations that lead to a path.
Relabel(w, p, to, title) ==
    LET fresh(l) == IF l.label # None /\ ResolveLink(w, l) = to
                    THEN [l EXCEPT !.label = title] ELSE l
    IN  [w EXCEPT !.doc[p].up = [i \in DOMAIN @ |-> fresh(@[i])],
                  !.doc[p].down = [i \in DOMAIN @ |-> fresh(@[i])]]

Lists(w, p, child) ==
    \E i \in DOMAIN w.doc[p].down : ResolveLink(w, w.doc[p].down[i]) = child

\* adopt: the workspaces it may leave; none when it refuses.
Adopt(w, child, parent) ==
    LET up(v) == IF PointsBack(v, child, parent) THEN {v}
                 ELSE {[a[2] EXCEPT !.doc[child].up = <<a[1]>>] :
                          a \in Author(v, "up", parent, v.doc[parent].title)}
        down(v) == IF Lists(w, parent, child) THEN {v}
                   ELSE {[a[2] EXCEPT !.doc[parent].down = Append(@, a[1])] :
                            a \in Author(v, "down", child, v.doc[child].title)}
    IN  IF \/ child = parent \/ ~Exists(w, child) \/ ~Exists(w, parent)
           \/ w.doc[child].up # <<>> /\ ~PointsBack(w, child, parent)
        THEN {} ELSE UNION {down(v) : v \in up(w)}

\* Applied, a fix writes what it was made of, whatever is there by now.
Applied(w, x) ==
    CASE x.kind = "add_inverse" ->
            IF ~Exists(w, x.doc) \/ (Authored["up"] = "id" /\ w.of[x.at] = None /\ ~Exists(w, x.at))
            THEN {}
            ELSE {[a[2] EXCEPT !.doc[x.doc].up = <<a[1]>>] :
                     a \in Author(w, "up", x.at, x.what)}
      [] x.kind = "relabel" ->
            IF Exists(w, x.doc) THEN {Relabel(w, x.doc, x.at, x.what)} ELSE {}
      [] x.kind = "set_id" ->
            IF Exists(w, x.doc) THEN {[w EXCEPT !.doc[x.doc].id = x.what]} ELSE {}
      [] x.kind = "register_id" -> {Register(w, x.what, x.doc)}
      [] x.kind = "restamp" ->
            IF Exists(w, x.doc) THEN {[w EXCEPT !.doc[x.doc].hash = x.what]} ELSE {}
      [] x.kind = "adopt" -> Adopt(w, x.doc, x.at)

-----------------------------------------------------------------------------
(* The process.                                                            *)

Now == Space(doc, live, of)

\* What a process that reads the registry knows each path by.
Inverses(l) ==
    {o \in [Path -> Id \cup {None}] :
        \A p \in Path : IF \E i \in Id : l[i] = p
                        THEN o[p] # None /\ l[o[p]] = p ELSE o[p] = None}

Becomes(w) ==
    /\ doc' = w.doc /\ live' = w.live /\ of' = w.of
    /\ found' = Check(w)

Begin ==
    /\ pc = "idle"
    /\ \E o \in Inverses(live) :
          \E r \in {Check(Space(doc, live, o))} :
             of' = o /\ found' = r /\ report' = r
    /\ pc' = "fixing" /\ same' = TRUE
    /\ UNCHANGED <<doc, live, edits, offer>>

End ==
    /\ pc = "fixing" /\ report = <<>>
    /\ pc' = "idle"
    /\ UNCHANGED <<doc, live, of, edits, found, report, offer, same>>

\* The next finding: passed over, shown with its fix, or the end of it all.
Consider ==
    /\ pc = "fixing" /\ report # <<>>
    /\ \E fix \in {Suggest(Now, Head(report))} :
        /\ offer' = fix
        /\ pc' = CASE fix = NoFix   -> "fixing"
                   [] fix = Refused -> "idle"
                   [] OTHER         -> "asked"
        /\ report' = CASE fix = NoFix   -> Tail(report)
                       [] fix = Refused -> <<>>
                       [] OTHER         -> report
    /\ UNCHANGED <<doc, live, of, edits, found, same>>

Decline ==
    /\ pc = "asked"
    /\ \/ pc' = "fixing" /\ report' = Tail(report)
       \/ pc' = "idle" /\ report' = <<>>
    /\ UNCHANGED <<doc, live, of, edits, found, offer, same>>

Accept ==
    /\ pc = "asked"
    /\ \E w \in Applied(Now, offer) : Becomes(w)
    /\ pc' = "fixing" /\ report' = Tail(report)
    /\ UNCHANGED <<edits, offer, same>>

\* A fix that cannot be applied ends the process.
Fail ==
    /\ pc = "asked" /\ Applied(Now, offer) = {}
    /\ "id" \in {Authored[way] : way \in {"up", "down"}} => Cardinality({i \in Id \ Retired : live[i] = None}) >= 2
    /\ pc' = "idle" /\ report' = <<>>
    /\ UNCHANGED <<doc, live, of, edits, found, offer, same>>

-----------------------------------------------------------------------------
(* What people do to their own files, while a process waits or not.        *)

Edit(p, d) ==
    /\ edits < MaxEdits
    /\ Becomes([Now EXCEPT !.doc[p] = d])
    /\ edits' = edits + 1 /\ same' = FALSE
    /\ UNCHANGED <<pc, report, offer>>

ByHand(q) == [by |-> "path", to |-> q, label |-> None]

Rewrite(p) ==
    /\ doc[p] # Absent
    /\ \/ \E t \in Title \ {doc[p].title} : Edit(p, [doc[p] EXCEPT !.title = t])
       \/ Edit(p, [doc[p] EXCEPT !.text = 1 - @])
       \/ doc[p].id # None /\ Edit(p, [doc[p] EXCEPT !.id = None])
       \/ \E i \in Id : live[i] = None /\ Edit(p, [doc[p] EXCEPT !.id = i])
       \/ \E q \in Path : doc[p].up # <<ByHand(q)>> /\ Edit(p, [doc[p] EXCEPT !.up = <<ByHand(q)>>])
       \/ doc[p].up # <<>> /\ Edit(p, [doc[p] EXCEPT !.up = <<>>])
       \/ \E q \in Path : Edit(p, [doc[p] EXCEPT !.down = Append(@, ByHand(q))])
       \/ doc[p].down # <<>> /\ Edit(p, [doc[p] EXCEPT !.down = Tail(@)])
       \/ \E i \in Id, t \in Title :
             doc[p].prose = <<>>
             /\ Edit(p, [doc[p] EXCEPT !.prose = <<[by |-> "id", to |-> i, label |-> t]>>])

\* A copy says it is what it was copied from.
CopyFile(p, q) == doc[p] # Absent /\ doc[q] = Absent /\ Edit(q, doc[p])

RemoveFile(p) == doc[p] # Absent /\ p # Root /\ Edit(p, Absent)

-----------------------------------------------------------------------------
\* A root and its child, as create leaves them; their ids may be in the
\* documents too, and hashes of their texts on record.
Init ==
    /\ \E child \in Path \ {Root}, i, j \in Id \ Retired,
          stamped, hashed, known \in BOOLEAN :
        LET t == CHOOSE x \in Title : TRUE
            link(way, to, k) ==
                [by |-> Authored[way], to |-> IF Authored[way] = "id" THEN k ELSE to, label |-> t]
            new(k, up, down) == [id |-> IF stamped THEN k ELSE None, title |-> t,
                                 up |-> up, down |-> down, prose |-> <<>>,
                                 text |-> 0, hash |-> IF hashed THEN 0 ELSE None]
        IN  /\ i # j
            /\ known \/ stamped
            /\ doc = [p \in Path |->
                         CASE p = Root  -> new(i, <<>>, <<link("down", child, j)>>)
                           [] p = child -> new(j, <<link("up", Root, i)>>, <<>>)
                           [] OTHER     -> Absent]
            /\ live = [k \in Id |-> CASE k = i /\ (known \/ Authored["up"] = "id") -> Root
                                      [] k = j /\ (known \/ Authored["down"] = "id") -> child
                                      [] OTHER          -> None]
    /\ of \in Inverses(live)
    /\ edits = 0 /\ found = Check(Now)
    /\ pc = "idle" /\ report = <<>> /\ offer = NoFix /\ same = TRUE

Next ==
    \/ Begin \/ Consider \/ Decline \/ Accept \/ Fail \/ End
    \/ \E p \in Path : Rewrite(p) \/ RemoveFile(p) \/ \E q \in Path : CopyFile(p, q)

Spec == Init /\ [][Next]_vars

-----------------------------------------------------------------------------
Links(p) == ToSet(doc[p].down \o doc[p].up \o doc[p].prose)

\* The files are documents and the registry leads to paths (workspace.rs,
\* authored_target and register).
TypeOK ==
    /\ \A p \in Files(Now) : doc[p] \in Document
    /\ live \in [Id -> Path \cup {None}]
    /\ of \in [Path -> Id \cup {None}]
    /\ pc = "asked" => report # <<>>

DownTo(p) == {ResolveLink(Now, l) : l \in ToSet(doc[p].down)} \ {None}

\* The documents contained in the root, through any number of others.
Below ==
    LET wider(S) == S \cup UNION {DownTo(p) : p \in S \cap Files(Now)}
    IN  Repeat(wider, {Root}, Cardinality(Path))

\* What an empty report is to mean, said of the files and not of the walk.
Sound ==
    LET tree == Below
        entries(q) == UNION {{p} \X {i \in DOMAIN doc[p].down : ResolveLink(Now, doc[p].down[i]) = q} :
                                p \in tree \cap Files(Now)}
        known(l)  == IF l.by = "id" THEN live[l.to] # None ELSE doc[l.to] # Absent
        led       == tree \cup {ResolveLink(Now, l) : l \in UNION {Links(p) : p \in tree \cap Files(Now)}}
    IN  /\ tree \subseteq Files(Now)
        /\ \A q \in tree : Cardinality(entries(q)) = IF q = Root THEN 0 ELSE 1
        /\ \A p \in tree, q \in tree : q \in DownTo(p) => PointsBack(Now, q, p)
        /\ \A p \in tree : \A l \in Links(p) :
              /\ known(l)
              /\ (l.by = "id" /\ l.label # None /\ doc[live[l.to]] # Absent) =>
                    l.label = doc[live[l.to]].title
        /\ \A p \in tree : doc[p].id # None =>
              of[p] = doc[p].id \/ (of[p] = None /\ live[doc[p].id] = p)
        /\ Files(Now) \subseteq led
        /\ \A p \in led \cap Files(Now) : doc[p].hash \in {None, doc[p].text}

\* check reports nothing exactly when the tree is sound: every document in it
\* contained once and naming its parent, every link leading somewhere, every id
\* the registry's own, every file linked, every hash and label as it should be
\* (validate.rs, check: "An empty result means the reachable graph holds its
\* invariants").
CheckExact == (found = <<>>) <=> Sound

\* tree: the way down to each node, link by link, and no further than to a
\* document that is on the way already.
Trails ==
    LET node(p, i) == [path |-> p, link |-> i]
        on(t, p)   == \E k \in 1..(Len(t) - 1) : t[k].path = p
        grow(S) ==
            S \cup UNION {
                {Append(t, node(ResolveLink(Now, doc[Last(t).path].down[i]), i)) :
                    i \in {k \in DOMAIN doc[Last(t).path].down :
                              ResolveLink(Now, doc[Last(t).path].down[k]) # None}} :
                t \in {u \in S : doc[Last(u).path] # Absent /\ ~on(u, Last(u).path)}}
    IN  Repeat(grow, {<<node(Root, 0)>>}, Cardinality(Path) + 1)

Kinds == {found[i].kind : i \in DOMAIN found}

\* tree (tree.rs, tree_node, depth first, with the way down as its memory) and
\* check (validate.rs, walk, newest first, with what it has read as its memory)
\* see the same tree: check reports a document contained twice once for every
\* link down that is not the first to it, whether it had read it or had it
\* waiting, and a missing node of the one is a finding of the other.
TreeAgrees ==
    LET below    == {t \in Trails : Len(t) > 1 /\ Last(t).path \in Files(Now)}
        listings == {<<t[Len(t) - 1].path, Last(t).link>> : t \in below}
        listed   == {Last(t).path : t \in below}
        doubled  == {i \in DOMAIN found : found[i].kind = "duplicate" /\ found[i].at \in Files(Now)}
    IN  /\ Cardinality(doubled) = Cardinality(listings) - Cardinality(listed \ {Root})
        /\ (\E t \in Trails : doc[Last(t).path] = Absent) <=>
              ("unreadable" \in Kinds
               \/ \E i \in DOMAIN found : found[i].kind = "broken" /\ found[i].site = "contents")

\* No two files carry one id.
OwnIds == \A p, q \in Files(Now) : doc[p].id = doc[q].id => p = q \/ doc[p].id = None

\* The finding at hand is gone and no new one has come.
Mended(before, after) ==
    /\ Head(report) \notin after
    /\ offer.kind \in {"adopt", "register_id"} \/ after \subseteq before


\* Every link is there and leads where it led, if it led anywhere.
Kept(before, after, w) ==
    \A i \in DOMAIN before :
        /\ i \in DOMAIN after
        /\ <<after[i].by, after[i].to>> = <<before[i].by, before[i].to>>
        /\ ResolveLink(Now, before[i]) \in {None, ResolveLink(w, after[i])}


\* No fix is applied for a finding that the files no longer have, while only
\* fixes have changed them (main.rs, cmd_check_fix: "a fix applied to one
\* document correctly declines a now-stale finding later").  An orphan's
\* adoption is left out: it does not come from suggest_fix.  The code does not
\* keep this (README, divergences).
FixesCurrent ==
    [][ (Accept /\ same /\ Head(report).kind # "orphan") =>
          Head(report) \in ToSet(found) ]_vars

=============================================================================
