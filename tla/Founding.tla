------------------------------ MODULE Founding ------------------------------
(***************************************************************************)
(* prov init: a workspace made in a directory that may hold files already  *)
(* (prov-cli/src/init.rs), and then used (Intake).                         *)
(*                                                                         *)
(* The directory is inspected, the interview held, and then the root and   *)
(* the config document are written one file after the other, over whatever *)
(* is there by then; after that the documents and payloads that were there *)
(* are taken in, one change set each.                                      *)
(***************************************************************************)
EXTENDS Intake

CONSTANT Foundings    \* the answers people give to init

Index(ext)  == <<<<"index", ext>>>>
ConfigDoc   == <<<<"prov", "yaml">>>>

\* How the documents there are to be taken in: none, flat, mirror, or walk for
\* the walk through the directories; whether payloads are attached; whether
\* the root's prose is apart; in the walk, the document picked as the root and
\* those left out.
Founding(adopt, attach, separate, pick, leave) ==
    [op |-> "init", adopt |-> adopt, attach |-> attach, separate |-> separate,
     pick |-> pick, leave |-> leave]

-----------------------------------------------------------------------------
(* Inspecting the directory.                                               *)

AtTop(ws) == {p \in DOMAIN ws : Dir(p) = <<>>}

TopDocs(ws) == AtTop(ws) \cap ContentDocuments(ws)

Initialized(ws) ==
    \E p \in AtTop(ws) : \/ Stem(p) = <<"index">> /\ ~Opaque(p)
                         \/ Stem(p) = <<"prov">> /\ WholeFile(p)

Structured(ws) == \E p \in TopDocs(ws) : DeclaresContainment(ws[p])

\* Mutant: what the directories below hold is not looked at.
LooseAtTop(ws) == {p \in TopDocs(ws) : ~DeclaresContainment(ws[p])}

\* The documents that belong to no tree yet, and the payloads.
LooseDocs(ws)   == {p \in ContentDocuments(ws) : ~DeclaresContainment(ws[p])}
LooseOthers(ws) == {p \in DOMAIN ws : Opaque(p)}

ASSUME FoundingsAssumption == \A req \in Foundings : req.op = "init"

FoundingRoot(req) ==
    IF req.pick # {} THEN CHOOSE p \in req.pick : TRUE
    ELSE IF req.separate THEN Index("yaml")
    ELSE Index("md")

-----------------------------------------------------------------------------
(* The walk: in every directory its documents are linked below the         *)
(* directory's own, which is made where there is none.                     *)

AllDirectories(ws) == Directories(DOMAIN ws)

\* The document a directory has of its own, if it has one.
OwnNode(ws, d) == ExistingNode({p \in ContentDocuments(ws) : Dir(p) = d})

PlanWalk(ws, root, req) ==
    LET dirs     == AllDirectories(ws) \ {<<>>}
        bare     == {d \in dirs : OwnNode(ws, d) = {}}
        node(d)  == CASE d = <<>>   -> root
                      [] d \in bare -> Append(d, <<"index", "md">>)
                      [] OTHER      -> CHOOSE p \in OwnNode(ws, d) : TRUE
        byDepth  == ByDepth(bare)
        create(d) == Step("create", node(d), node(Front(d)), Titled[Last(d)[1]])
        nodes    == {Step("adopt", node(d), node(Front(d)), "") : d \in dirs \ bare}
        leaves   == {Step("adopt", p, node(Dir(p)), "") :
                        p \in {q \in ContentDocuments(ws) \ req.leave : q # node(Dir(q))}}
        payloads == IF req.attach
                    THEN {Step("attach", q, node(Dir(q)), "") : q \in LooseOthers(ws)} ELSE {}
    IN  [k \in DOMAIN byDepth |-> create(byDepth[k])]
            \o SetToSeq(nodes \cup leaves) \o SetToSeq(payloads)

Mirrors(req) == req.adopt = "mirror" /\ ~req.separate

\* The root's prose before its node, the config document, and then what is to
\* be taken in: read again once the root is there for the mirror and the
\* walk, as it was inspected for the rest.
FoundingWrites(ws, req) ==
    LET root    == FoundingRoot(req)
        write(p) == Step("write", p, <<>>, "")
        flat    == {Step("adopt", p, root, "") : p \in LooseDocs(ws)}
        payloads == {Step("attach", q, root, "") : q \in LooseOthers(ws)}
    IN  (IF req.pick # {} THEN <<write(ConfigDoc), Step("point", root, <<>>, "")>>
         ELSE IF req.separate THEN <<write(Index("md")), write(root), write(ConfigDoc)>>
         ELSE <<write(root), write(ConfigDoc)>>)
        \o (CASE \/ Mirrors(req) /\ LooseDocs(ws) # {}
                \/ req.adopt = "walk" -> <<Step("survey", root, <<>>, "")>>
              [] req.adopt = "none"  -> <<>>
              [] OTHER               -> SetToSeq(flat))
        \o (IF req.attach /\ req.adopt # "walk" THEN SetToSeq(payloads) ELSE <<>>)

Found(req) ==
    /\ ~cmd.on /\ runs < MaxRuns
    /\ ~Initialized(file) /\ ~Structured(file)
    /\ req.pick \subseteq TopDocs(file)
    /\ cmd' = [on |-> TRUE, req |-> req, root |-> FoundingRoot(req),
               todo |-> FoundingWrites(file, req)]
    /\ last' = End("running", req, "")
    /\ same' = TRUE /\ runs' = runs + 1
    /\ UNCHANGED <<file, edits>>

At(do) == cmd.on /\ cmd.todo # <<>> /\ Head(cmd.todo).do = do

\* What init writes: a root with its title and, apart from it, its prose; and
\* the config document.
FoundingFile(path) ==
    IF path = cmd.root
    THEN File(TRUE, String("Home"), {}, {}, IF cmd.req.separate THEN {Index("md")} ELSE {})
    ELSE IF path = ConfigDoc THEN File(TRUE, String("prov config"), {}, {}, {})
    ELSE Plain

WriteFile ==
    /\ At("write")
    /\ file' = Updated(file, [p \in {Head(cmd.todo).path} |-> FoundingFile(p)])
    /\ cmd' = [cmd EXCEPT !.todo = Tail(@)]
    /\ UNCHANGED <<last, same, runs, edits>>

\* The pointer to the config document, in the document picked as the root.
WithMetadata(f) == File(TRUE, f.title, f.up, f.down, f.content)

Point ==
    /\ At("point")
    /\ IF Readable(file, cmd.root)
       THEN /\ file' = [file EXCEPT ![cmd.root] = WithMetadata(@)]
            /\ cmd' = [cmd EXCEPT !.todo = Tail(@)]
            /\ UNCHANGED last
       ELSE /\ cmd' = Idle
            /\ last' = End("failed", cmd.req, "point")
            /\ UNCHANGED file
    /\ UNCHANGED <<same, runs, edits>>

Survey ==
    /\ At("survey")
    /\ cmd' = [cmd EXCEPT !.todo =
                  (IF cmd.req.adopt = "walk" THEN PlanWalk(file, cmd.root, cmd.req)
                                             ELSE PlanMirror(file, cmd.root).todo) \o Tail(@)]
    /\ UNCHANGED <<file, last, same, runs, edits>>

TakesIn == (At("create") \/ At("adopt") \/ At("attach") \/ At("leaf")) /\ Advance

FoundingNext ==
    \/ \E req \in Foundings : Found(req)
    \/ WriteFile \/ Point \/ Survey
    \/ \E req \in Requests : Begin(req)
    \/ TakesIn \/ Finish \/ Kill \/ Edit

FoundingSpec == Init /\ [][FoundingNext]_vars

-----------------------------------------------------------------------------
(***************************************************************************)
(* Correctness.                                                            *)
(***************************************************************************)

Below(ws, p) ==
    LET wider(S) == S \cup UNION {ws[q].down \cap DOMAIN ws : q \in S}
    IN  Repeat(wider, {p} \cap DOMAIN ws, Cardinality(DOMAIN ws))

\* The documents that init leaves where they are.
LeftOut(req, ws) ==
    CASE req.adopt = "none" -> ContentDocuments(ws)
      [] req.adopt = "walk" -> req.leave
      [] OTHER -> {p \in ContentDocuments(ws) : ~Mirrors(req) /\ ws[p].down # {}}

\* After init prov finds the root it made (also when it was killed on the way,
\* once that is written), init is refused, and no document it was to take in
\* is left without a parent or without its place in the tree.  Not so where
\* the walk leaves out documents beside the root that was picked, which may
\* be taken for roots; and not where the walk makes directories' documents
\* below a root whose prose is apart.
RootFound ==
    (last.req.op = "init" /\ same /\ ~cmd.on) =>
        LET req  == last.req
            root == FoundingRoot(req)
            done == last.status = "done"
        IN  /\ \/ done /\ (req.pick = {} \/ req.leave = {})
               \/ last.status = "killed" /\ req.pick = {} /\ root \in DOMAIN file
               => RootOf(file) = {root}
            /\ done => Initialized(file)
            /\ done /\ ~(req.adopt = "walk" /\ req.separate) =>
                  \A p \in ContentDocuments(file) \ (LeftOut(req, file) \cup file[root].content) :
                     file[p].up \subseteq Below(file, root) => p \in Below(file, root)
=============================================================================
