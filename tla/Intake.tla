------------------------------- MODULE Intake -------------------------------
(***************************************************************************)
(* Bringing things into the tree: prov new, along a route or beside a      *)
(* document, prov attach, and the import of a directory tree, a call of    *)
(* the library that prov init makes (prov/src/route.rs, intake.rs,         *)
(* attach.rs, mutate.rs, and the commands of prov-cli/src/main.rs).        *)
(*                                                                         *)
(* Each of these plans from the files as they are and then applies the     *)
(* plan in steps, one change set per document.  The process may be killed  *)
(* between two steps, and people go on editing meanwhile.  A step is one   *)
(* action here because its change set is all or nothing (ChangeSet).       *)
(*                                                                         *)
(* A path is a sequence of names, the last the file's; a name is a         *)
(* sequence of strings, the last its extension.  Links are the paths they  *)
(* lead to: their spelling is in LinkRewrites, their ids in Registry.      *)
(***************************************************************************)
EXTENDS Folding, FiniteSets, SequencesExt, TLC

CONSTANTS
    Trees,      \* the workspaces to begin with
    Slug,       \* the file stem a title becomes
    Titled,     \* the title a file stem becomes
    Requests,   \* the commands people give
    ByHand,     \* the files people write, by path
    MaxRuns,    \* bound: commands given
    MaxEdits    \* bound: edits by hand

Dir(p)       == Front(p)
Name(p)      == Last(p)
Extension(p) == Last(Name(p))
Stem(p)      == Front(Name(p))
WithExtension(p, ext) == Append(Dir(p), Append(Stem(p), ext))

\* Prose, by its extension; metadata with nothing else; a file prov cannot
\* read.
Content(p) == Extension(p) = "md"
WholeFile(p) == Extension(p) \in {"yaml", "json"}
Opaque(p)  == ~Content(p) /\ ~WholeFile(p)

\* A title in metadata: its text, and whether it is read as a string.  One
\* that is written without quotes, as 2026, is read as a number.
Untitled  == [text |-> "", string |-> FALSE]
String(t) == [text |-> t, string |-> TRUE]

\* A file: whether it has metadata, and in it a title, the parents it names,
\* the children it lists and the file its content pointer names.
File(meta, title, up, down, content) ==
    [meta |-> meta, title |-> title, up |-> up, down |-> down, content |-> content]

Plain == File(FALSE, Untitled, {}, {}, {})

IsPlace(p) == p \in Seq(Seq(STRING)) \ {<<>>}
IsFile(f)  == f = File(f.meta, f.title, f.up, f.down, f.content)

ASSUME FilesAssumption ==
    /\ \A ws \in Trees : /\ IsFiniteSet(DOMAIN ws)
                        /\ \A p \in DOMAIN ws : IsPlace(p) /\ IsFile(ws[p])
    /\ \A p \in DOMAIN ByHand : IsPlace(p) /\ \A f \in ByHand[p] : IsFile(f)

VARIABLES
    file,   \* the files there are
    cmd,    \* the command that runs: its request and the steps still to take
    last,   \* history: how the last command ended
    same,   \* history: nobody has edited since the last command was planned
    runs, edits

vars == <<file, cmd, last, same, runs, edits>>

-----------------------------------------------------------------------------
(* The mutations the steps are made of: the files they leave, or refused.  *)

Refused(ws) == [ok |-> FALSE, file |-> ws]
Done(ws)    == [ok |-> TRUE, file |-> ws]

Readable(ws, p) == p \in DOMAIN ws /\ ~Opaque(p)

Updated(f, new) == [p \in DOMAIN f \cup DOMAIN new |->
                    IF p \in DOMAIN new THEN new[p] ELSE f[p]]

Listing(f, child) == File(TRUE, f.title, f.up, f.down \cup {child}, f.content)
Naming(f, parent) == File(TRUE, f.title, {parent}, f.down, f.content)

\* The document a new file is: below a separated node a pair, of the node
\* and its prose; otherwise the file itself.
Node(ws, path, parent) ==
    IF ~WholeFile(path) /\ WholeFile(parent) /\ ws[parent].content # {}
    THEN WithExtension(path, Extension(parent))
    ELSE path

\* Mutant: the document is titled by its file, not by what was asked for.
CreateByStem(ws, path, parent, title) ==
    IF Readable(ws, parent) /\ path \notin DOMAIN ws
    THEN Done(Updated(ws, [p \in {parent, path} |->
                              IF p = parent THEN Listing(ws[parent], path)
                              ELSE File(TRUE, String(Stem(path)[1]), {parent}, {}, {})]))
    ELSE Refused(ws)

\* Mutant: nothing asks whether the file is there.
CreateOver(ws, path, parent, title) ==
    IF Readable(ws, parent)
    THEN Done(Updated(ws, [p \in {parent, path} |->
                              IF p = parent THEN Listing(ws[parent], path)
                              ELSE File(TRUE, String(title), {parent}, {}, {})]))
    ELSE Refused(ws)

Create(ws, path, parent, title) ==
    LET node  == Node(ws, path, parent)
        body  == {path} \ {node}
        added == [p \in {node, parent} \cup body |->
                    CASE p = node   -> File(TRUE, String(title), {parent}, {}, body)
                      [] p = parent -> Listing(ws[parent], node)
                      [] OTHER      -> Plain]
    IN  IF Readable(ws, parent) /\ ({node} \cup body) \cap DOMAIN ws = {}
        THEN Done(Updated(ws, added))
        ELSE Refused(ws)

\* A document that names another parent is left to people.
Adopt(ws, child, parent) ==
    IF /\ child # parent
       /\ Readable(ws, child) /\ Readable(ws, parent)
       /\ ws[child].up = {} \/ parent \in ws[child].up
    THEN Done([p \in DOMAIN ws |->
                  CASE p = child /\ ws[p].up = {}             -> Naming(ws[p], parent)
                    [] p = parent /\ child \notin ws[p].down  -> Listing(ws[p], child)
                    [] OTHER                                  -> ws[p]])
    ELSE Refused(ws)

\* Mutant: the sidecar takes the place of the payload's extension.
SidecarByStem(q) == WithExtension(q, "yaml")

SidecarPath(q) == Append(Dir(q), Append(Name(q), "yaml"))

SidecarExtensions == {"yaml", "json"}

\* The sidecars of a payload that are called after it.
AttachmentFor(ws, q) ==
    {p \in {Append(Dir(q), Append(Name(q), ext)) : ext \in SidecarExtensions} \cap DOMAIN ws :
        q \in ws[p].content}

Attach(ws, q, parent) ==
    LET node == SidecarPath(q)
        doc  == File(TRUE, String(Titled[Stem(q)[1]]), {parent}, {}, {q})
    IN  IF /\ q \in DOMAIN ws /\ Opaque(q)
           /\ node \notin DOMAIN ws
           /\ Readable(ws, parent)
        THEN Done(Updated(ws, [p \in {node, parent} |->
                                  IF p = node THEN doc ELSE Listing(ws[p], node)]))
        ELSE Refused(ws)

-----------------------------------------------------------------------------
(* The root of a workspace is found, by every command: a document at the   *)
(* top with metadata that names no parent.  One called index goes first,   *)
(* then one called readme; of others there may be only one.                *)

RootCandidates(ws) ==
    {p \in DOMAIN ws : /\ Dir(p) = <<>> /\ ws[p].meta /\ ws[p].up = {}
                       /\ Content(p) \/ (WholeFile(p) /\ Stem(p) \in {<<"index">>, <<"readme">>})}

RootOf(ws) ==
    LET found     == RootCandidates(ws)
        called(s) == {p \in found : Stem(p) = <<s>>}
        one(S)    == {CHOOSE p \in S : TRUE}
    IN  IF called("index") # {} THEN one(called("index"))
        ELSE IF called("readme") # {} THEN one(called("readme"))
        ELSE IF Cardinality(found) = 1 THEN found
        ELSE {}

-----------------------------------------------------------------------------
(***************************************************************************)
(* A route: titles, from the root down.  Each leads to the one child that  *)
(* has it; from the first that none has, documents are to be created.      *)
(***************************************************************************)
Step(do, path, under, title) ==
    [do |-> do, path |-> path, under |-> under, title |-> title]

\* The children of a document that have the title.
ChildTitled(ws, p, segment) ==
    {c \in ws[p].down : Readable(ws, c) /\ ws[c].meta /\ ws[c].title.text = segment}

SynthPath(parent, segment, layout, ext) ==
    IF layout = "flat"
    THEN Append(Dir(parent), <<Slug[segment], ext>>)
    ELSE Dir(parent) \o <<<<Slug[segment]>>, <<"index", ext>>>>

DeclaresContainment(f) == f.up # {} \/ f.down # {}

\* No file where the document is to be, and, in a directory of its own, no
\* document there that is already part of a tree.
Vacant(ws, path, layout) ==
    /\ path \notin DOMAIN ws
    /\ layout = "nested" =>
          \A p \in DOMAIN ws : Dir(p) = Dir(path) /\ Content(p) => ~DeclaresContainment(ws[p])

Combined(ws, p) == ~WholeFile(p) /\ ws[p].content = {}

RoutePlan(ok, todo, at) == [ok |-> ok, todo |-> todo, at |-> at]

\* Mutant: only the first document to be created has its place looked at.
PlanSegmentFirst(ws, layout, ext, plan, segment) ==
    LET named == IF plan.todo = <<>> THEN ChildTitled(ws, plan.at, segment) ELSE {}
        path  == SynthPath(plan.at, segment, layout, ext)
        stuck == \/ Cardinality(named) > 1
                 \/ /\ named = {} /\ plan.todo = <<>>
                    /\ ~(Combined(ws, plan.at) /\ Vacant(ws, path, layout))
    IN  IF ~plan.ok \/ stuck THEN [plan EXCEPT !.ok = FALSE]
        ELSE IF named # {} THEN [plan EXCEPT !.at = CHOOSE c \in named : TRUE]
        ELSE RoutePlan(TRUE, Append(plan.todo, Step("create", path, plan.at, segment)), path)

PlanSegment(ws, layout, ext, plan, segment) ==
    LET named == IF plan.todo = <<>> THEN ChildTitled(ws, plan.at, segment) ELSE {}
        path  == SynthPath(plan.at, segment, layout, ext)
        stuck == \/ Cardinality(named) > 1
                 \/ /\ named = {}
                    /\ \/ plan.todo = <<>> /\ ~Combined(ws, plan.at)
                       \/ ~Vacant(ws, path, layout)
    IN  IF ~plan.ok \/ stuck THEN [plan EXCEPT !.ok = FALSE]
        ELSE IF named # {} THEN [plan EXCEPT !.at = CHOOSE c \in named : TRUE]
        ELSE RoutePlan(TRUE, Append(plan.todo, Step("create", path, plan.at, segment)), path)

PlanRoute(ws, root, segments, layout) ==
    Fold(LAMBDA plan, segment : PlanSegment(ws, layout, Extension(root), plan, segment),
         RoutePlan(TRUE, <<>>, root), segments)

-----------------------------------------------------------------------------
(***************************************************************************)
(* The import of a directory tree: every directory on the way to content   *)
(* has a document of its own, and contains the other documents there and   *)
(* the documents of the directories below.                                 *)
(***************************************************************************)
ContentDocuments(ws) == {p \in DOMAIN ws : Content(p)}

\* The document of a directory: one called index, else one called readme.
ExistingNode(files) ==
    LET called(stem) == {p \in files : Stem(p) = <<stem>>}
    IN  IF called("index") # {} THEN called("index") ELSE called("readme")

Directories(files) ==
    UNION {{SubSeq(p, 1, k) : k \in 0..(Len(p) - 1)} : p \in files}

\* Directories in the order of their depth.
ByDepth(dirs) ==
    CHOOSE s \in SetToSeqs(dirs) : \A i, j \in DOMAIN s : i < j => Len(s[i]) <= Len(s[j])

PlanMirror(ws, root) ==
    LET files    == ContentDocuments(ws) \ {root}
        dirs     == Directories(files) \ {<<>>}
        own(d)   == ExistingNode({p \in files : Dir(p) = d})
        bare     == {d \in dirs : own(d) = {}}
        node(d)  == CASE d = <<>>   -> root
                      [] d \in bare -> Append(d, <<"index", Extension(root)>>)
                      [] OTHER      -> CHOOSE p \in own(d) : TRUE
        above(d) == IF Front(d) = <<>> \/ Front(d) \in dirs THEN node(Front(d)) ELSE root
        byDepth  == ByDepth(bare)
        create(d) == Step("create", node(d), above(d), Titled[Last(d)[1]])
        nodes    == {Step("adopt", node(d), above(d), "") : d \in dirs \ bare}
        leaves   == {Step("adopt", p, node(Dir(p)), "") : p \in {q \in files : q # node(Dir(q))}}
    IN  [ok   |-> Combined(ws, root),
         todo |-> [k \in DOMAIN byDepth |-> create(byDepth[k])]
                      \o SetToSeq(nodes) \o SetToSeq(leaves)]

-----------------------------------------------------------------------------
(* attach --all: the payloads without a sidecar, in the directories the    *)
(* tree reaches or everywhere.                                             *)

ReachedDirs(ws, root) ==
    LET wider(S) == S \cup UNION {ws[p].down \cup ws[p].up : p \in {q \in S : Readable(ws, q)}}
        reached  == Repeat(wider, {root}, Cardinality(DOMAIN ws)) \cap DOMAIN ws
    IN  {Dir(p) : p \in reached}

Loose(ws, root, recursive) ==
    {q \in DOMAIN ws : /\ Opaque(q) /\ AttachmentFor(ws, q) = {}
                       /\ recursive \/ Dir(q) \in ReachedDirs(ws, root)}

PlanAttach(ws, root, recursive) ==
    [ok   |-> TRUE,
     todo |-> SetToSeq({Step("attach", q, root, "") : q \in Loose(ws, root, recursive)})]

-----------------------------------------------------------------------------
(* prov new.                                                               *)

LeafPath(parent, title) == Append(Dir(parent), <<Slug[title], "md">>)

\* With -p, a document that is there under the same title is the one asked
\* for, and is only linked.
Leaf(ws, parent, title, parents) ==
    LET path == LeafPath(parent, title)
    IN  CASE ~(parents /\ path \in DOMAIN ws) -> Create(ws, path, parent, title)
          [] path \in DOMAIN ws /\ parents /\ ws[path].title # String(title) -> Refused(ws)
          [] OTHER -> Adopt(ws, path, parent)

\* Where a document is to go: along a route or below a document.
Along(segments, layout) == [segments |-> segments, layout |-> layout]

New(segments, layout, parents, title) ==
    [op |-> "new", to |-> Along(segments, layout), parents |-> parents, title |-> title]
Mirror            == [op |-> "mirror"]
AttachAll(recursive) == [op |-> "attach", recursive |-> recursive]

ASSUME RequestsAssumption ==
    \A req \in Requests :
        \/ req.op \in {"mirror", "attach"}
        \/ /\ req.op = "new"
           /\ req.to.segments \in Seq(DOMAIN Slug) /\ req.to.layout \in {"flat", "nested"}

\* Without -p a route that is not there is refused before anything is done.
PlanNew(ws, root, req) ==
    LET plan == PlanRoute(ws, root, req.to.segments, req.to.layout)
    IN  [ok   |-> plan.ok /\ (req.parents \/ plan.todo = <<>>),
         todo |-> Append(plan.todo, Step("leaf", <<>>, plan.at, req.title))]

Plan(ws, root, req) ==
    CASE req.op = "new"    -> PlanNew(ws, root, req)
      [] req.op = "mirror" -> PlanMirror(ws, root)
      [] req.op = "attach" -> PlanAttach(ws, root, req.recursive)

Take(ws, step, req) ==
    CASE step.do = "create" -> Create(ws, step.path, step.under, step.title)
      [] step.do = "adopt"  -> Adopt(ws, step.path, step.under)
      [] step.do = "attach" -> Attach(ws, step.path, step.under)
      [] step.do = "leaf"   -> Leaf(ws, step.under, step.title, req.parents)

-----------------------------------------------------------------------------
Idle == [on |-> FALSE, req |-> Mirror, root |-> <<>>, todo |-> <<>>]
End(status, req, at) == [status |-> status, req |-> req, at |-> at]

Begin(req) ==
    /\ ~cmd.on /\ runs < MaxRuns
    /\ \E root \in RootOf(file) : \E plan \in {Plan(file, root, req)} :
         IF plan.ok
         THEN /\ cmd' = [on |-> TRUE, req |-> req, root |-> root, todo |-> plan.todo]
              /\ last' = End("running", req, "")
         ELSE /\ last' = End("refused", req, "")
              /\ UNCHANGED cmd
    /\ same' = TRUE /\ runs' = runs + 1
    /\ UNCHANGED <<file, edits>>

\* An import goes on after an adoption that is refused, attach --all after a
\* payload; a route ends where a document of it cannot be made.
Skips == {"adopt", "attach"}

Advance ==
    /\ cmd.on /\ cmd.todo # <<>>
    /\ \E step \in {Head(cmd.todo)} : \E r \in {Take(file, step, cmd.req)} :
         /\ file' = r.file
         /\ IF r.ok \/ step.do \in Skips
            THEN /\ cmd' = [cmd EXCEPT !.todo = Tail(@)]
                 /\ UNCHANGED last
            ELSE /\ cmd' = Idle
                 /\ last' = End("failed", cmd.req, step.do)
    /\ UNCHANGED <<same, runs, edits>>

Finish ==
    /\ cmd.on /\ cmd.todo = <<>>
    /\ cmd' = Idle
    /\ last' = End("done", cmd.req, "")
    /\ UNCHANGED <<file, same, runs, edits>>

Kill ==
    /\ cmd.on
    /\ cmd' = Idle
    /\ last' = End("killed", cmd.req, "")
    /\ UNCHANGED <<file, same, runs, edits>>

\* Somebody writes a file of his own, or removes one.
Edit ==
    /\ edits < MaxEdits
    /\ \/ \E p \in DOMAIN ByHand : \E f \in ByHand[p] : file' = Updated(file, [q \in {p} |-> f])
       \/ \E p \in DOMAIN file \ RootOf(file) : file' = [q \in DOMAIN file \ {p} |-> file[q]]
    /\ file' # file
    /\ edits' = edits + 1 /\ same' = FALSE
    /\ UNCHANGED <<cmd, last, runs>>

Init ==
    /\ file \in Trees
    /\ cmd = Idle /\ last = End("none", Mirror, "")
    /\ same = TRUE /\ runs = 0 /\ edits = 0

Next == (\E req \in Requests : Begin(req)) \/ Advance \/ Finish \/ Kill \/ Edit

Spec == Init /\ [][Next]_vars

-----------------------------------------------------------------------------
(***************************************************************************)
(* Correctness.                                                            *)
(***************************************************************************)
\* A plan that was made can be carried out: no document it is to create is
\* refused, unless somebody edited in between (assert_vacant refuses while
\* planning, "a partial route unwritten").
PlansHold ==
    last.status = "failed" /\ same => last.at # "create"

\* Wherever a route is interrupted, walking it again finds what is made and
\* plans what is not: "re-running resolves them instead of recreating them".
RoutesResume ==
    (cmd.on /\ cmd.req.op = "new" /\ same) =>
        (Plan(file, cmd.root, cmd.req).todo = cmd.todo \/ cmd.todo = <<>>)

\* A command that has run to its end has nothing left to do when it is run
\* again: new -p changes nothing (below a combined document: a separated one
\* is looked for by its prose, which has no title), an import creates nothing
\* and whatever it has not linked names another parent, attach --all leaves
\* only payloads whose sidecar's place another file has taken.
Again ==
    LET root == CHOOSE p \in RootOf(file) : TRUE
        plan == Plan(file, root, last.req)
    IN  CASE last.req.op = "new" ->
               last.req.parents =>
                   /\ plan.ok /\ Len(plan.todo) = 1
                   /\ Combined(file, plan.todo[1].under) =>
                         Take(file, plan.todo[1], last.req) = Done(file)
          [] last.req.op = "mirror" ->
               \A k \in DOMAIN plan.todo :
                   LET step == plan.todo[k]
                   IN  /\ step.do = "adopt"
                       /\ \/ Take(file, step, last.req) = Done(file)
                          \/ file[step.path].up \notin {{}, {step.under}}
          [] last.req.op = "attach" ->
               \A q \in Loose(file, root, last.req.recursive) :
                   SidecarPath(q) \in DOMAIN file /\ file[SidecarPath(q)].content = {}
          [] OTHER -> TRUE

RunAgain == last.status = "done" /\ same => Again

\* Whatever prov does here only adds: a file stays, with its title and every
\* link it had, and one that people wrote meanwhile is never replaced (but by
\* init, which writes its first files over whatever is there by then).
OnlyAdds ==
    [][edits' = edits /\ (cmd.on /\ cmd.req.op = "init" => same) =>
         \A p \in DOMAIN file :
            /\ p \in DOMAIN file'
            /\ file[p].meta => file'[p].title = file[p].title
            /\ file'[p].content = file[p].content
            /\ file[p].up \subseteq file'[p].up
            /\ file[p].down \subseteq file'[p].down]_vars

=============================================================================
