---------------------------- MODULE RecycleBin ----------------------------
(***************************************************************************)
(* The recycle bin of prov/src/mutate.rs: documents created, deleted,      *)
(* recycled, restored and purged.                                          *)
(*                                                                         *)
(* The workspace is its files, and nothing else: which document contains   *)
(* which, where the bin is and what it records are read back from the      *)
(* files by every operation.  An operation checks, stages a change set and *)
(* commits it; a committed set lands whole or not at all (ChangeSet), so   *)
(* an operation is one step.                                               *)
(***************************************************************************)
EXTENDS Naturals, Sequences, FiniteSets
Seqs == INSTANCE SequencesExt

CONSTANTS
    DocPath,   \* the paths documents and their bodies are created at
    Root,      \* the root document's path, one of them
    BinIndex,  \* recyclebin/index
    NodeOf,    \* node path of a separated document, of its body's path
    MaxDocs,   \* bound: documents ever created
    MaxBump,   \* bound: suffixes tried for one path in the bin
    None,      \* an absent field
    Absent, Partial

Item(p, k) == <<p, k>>   \* recyclebin/items/p, or p.k beside it
Place == DocPath \cup {BinIndex} \cup {Item(p, k) : p \in DocPath, k \in 0..MaxBump}
Doc   == 0..MaxDocs      \* 0 is the root document
Prose == DOMAIN NodeOf

\* from, bin, parent and body_from of a record; its body_bin is Item(text, 0).
Record == [doc : Doc, from : DocPath, bin : Place,
           parent : DocPath \cup {None}, text : DocPath \cup {None}]

Node  == [kind : {"node"}, doc : Doc, up : DocPath \cup {None},
          down : SUBSET DocPath, body : DocPath \cup {None}, hasBin : BOOLEAN]
Body  == [kind : {"body"}, doc : Doc]
Index == [kind : {"bin"}, records : Seq(Record)]

BinOf(records) == [kind |-> "bin", records |-> records]

INSTANCE FileOps WITH Path <- Place, Bytes <- Node \cup Body \cup Index

ASSUME BinAssumption ==
    /\ Root \in DocPath /\ BinIndex \notin DocPath /\ None \notin Place
    /\ NodeOf \in [Prose -> DocPath] /\ Prose \subseteq DocPath
    /\ \A p, q \in Prose : NodeOf[p] # q  \* its extension is no prose's
    /\ \A p \in DocPath, k \in 0..MaxBump : Item(p, k) \notin DocPath \cup {BinIndex}
    /\ Absent \notin Node \cup Body \cup Index
    /\ IsFiniteSet(DocPath)
    /\ MaxDocs \in Nat /\ MaxBump \in Nat

VARIABLES
    disk,    \* the files
    staged,  \* history: the last set an operation committed
    made,    \* history: what became of each document
    spoilt   \* history: the irregularities that have happened

vars == <<disk, staged, made, spoilt>>

\* "astray": a document is there whose parent is not, or that names none.
\* "overlaid": a body was moved onto another in the bin.
Irregularity == {"astray", "overlaid"}
Spoil(i, c) == spoilt' = spoilt \cup IF c THEN {i} ELSE {}

Fate == {"unmade", "whole", "separated", "destroyed"}

TypeOK ==
    /\ disk \in [Place -> Node \cup Body \cup Index \cup {Absent}]
    /\ staged \in Seq(FileOp)
    /\ made \in [Doc -> Fate]
    /\ spoilt \subseteq Irregularity

Holds(p, kind) == disk[p] # Absent /\ disk[p].kind = kind
IsNode(p) == Holds(p, "node")
IsBody(p) == Holds(p, "body")

RootNode(sep) ==
    [kind |-> "node", doc |-> 0, up |-> None, down |-> {}, hasBin |-> FALSE,
     body |-> IF sep THEN CHOOSE b \in Prose : NodeOf[b] = Root ELSE None]

\* A workspace of its root document alone, combined or separated.
Init ==
    /\ \E sep \in BOOLEAN :
        /\ sep => \E b \in Prose : NodeOf[b] = Root
        /\ disk = [p \in Place |->
                     IF p = Root THEN RootNode(sep)
                     ELSE IF sep /\ p = RootNode(sep).body
                          THEN [kind |-> "body", doc |-> 0] ELSE Absent]
        /\ made = [d \in Doc |-> IF d # 0 THEN "unmade"
                                 ELSE IF sep THEN "separated" ELSE "whole"]
    /\ staged = << >>
    /\ spoilt = {}

-----------------------------------------------------------------------------
(* Committing a set: all of it, or, when an op fails, none of it.          *)

After(ops, d) ==
    LET at[k \in 0..Len(ops)] == IF k = 0 THEN d ELSE Effect(ops[k], at[k - 1])
    IN  at

Runs(ops, d) == \A k \in 1..Len(ops) : Possible(ops[k], After(ops, d)[k - 1])

Commit(ops) ==
    /\ staged' = ops
    /\ disk' = IF Runs(ops, disk) THEN After(ops, disk)[Len(ops)] ELSE disk

If(c, op) == IF c THEN <<op>> ELSE << >>

-----------------------------------------------------------------------------
(* Creating documents.                                                     *)

Fresh == {d \in Doc : made[d] = "unmade" /\ \A e \in Doc : e < d => made[e] # "unmade"}

\* A document at prose path p, contained by the one at q.  A separated parent
\* gets a separated child: a node beside the body at p.
Create(p, q) ==
    /\ IsNode(q)
    /\ \E d \in Fresh :
        LET sep  == disk[q].body # None
            node == IF sep THEN NodeOf[p] ELSE p
            new  == [kind |-> "node", doc |-> d, up |-> q, down |-> {},
                     body |-> IF sep THEN p ELSE None, hasBin |-> FALSE]
        IN  /\ disk[node] = Absent
            /\ sep => disk[p] = Absent
            /\ Commit(<<Write(node, new)>>
                      \o If(sep, Write(p, [kind |-> "body", doc |-> d]))
                      \o <<Write(q, [disk[q] EXCEPT !.down = @ \cup {node}])>>)
            /\ made' = [made EXCEPT ![d] = IF sep THEN "separated" ELSE "whole"]
    /\ UNCHANGED spoilt

\* Somebody saves a document that declares no part_of.
Stray(p) ==
    /\ disk[p] = Absent
    /\ \E d \in Fresh :
        /\ disk' = [disk EXCEPT ![p] =
                      [kind |-> "node", doc |-> d, up |-> None, down |-> {},
                       body |-> None, hasBin |-> FALSE]]
        /\ made' = [made EXCEPT ![d] = "whole"]
    /\ staged' = << >>
    /\ Spoil("astray", TRUE)

-----------------------------------------------------------------------------
(* What delete and recycle share.                                          *)

\* Up the part_of links, to a document that has none, to a missing one, or
\* round a cycle.
SpanningRoot(p) ==
    LET up[k \in 0..Cardinality(DocPath)] ==
            IF k = 0 THEN p
            ELSE LET q == up[k - 1]
                 IN  IF \/ ~IsNode(q) \/ disk[q].up = None
                        \/ \E j \in 0..(k - 2) : up[j] = q
                     THEN q ELSE disk[q].up
    IN  up[Cardinality(DocPath)]

Parent(p) == disk[p].up
HasBody(p) == disk[p].body # None /\ disk[disk[p].body] # Absent

\* The entry the parent has for the document, if it has one.
Listed(p) == Parent(p) # None /\ p \in disk[Parent(p)].down
Unlisted(p) == [disk[Parent(p)] EXCEPT !.down = @ \ {p}]

\* A parent it names must be there.  One with children needs force, and leaves
\* them astray.
Removable(p) ==
    /\ IsNode(p) /\ p # Root
    /\ Parent(p) # None => IsNode(Parent(p))

Delete(p) ==
    /\ Removable(p)
    /\ Spoil("astray", disk[p].down # {})
    /\ Commit(<<Remove(p)>>
              \o If(HasBody(p), Remove(disk[p].body))
              \o If(Listed(p), Write(Parent(p), Unlisted(p))))
    /\ made' = [made EXCEPT ![disk[p].doc] = "destroyed"]

-----------------------------------------------------------------------------
(* recycle.                                                                *)

\* Mutant: the place in the bin is taken without looking.
BinPlaceUnchecked(p) == {Item(p, 0)}

\* The first free place for p in the bin.
BinPlace(p) ==
    {Item(p, k) : k \in {j \in 0..MaxBump :
        /\ disk[Item(p, j)] = Absent
        /\ \A i \in 0..(j - 1) : disk[Item(p, i)] # Absent}}

\* Mutant: the index is begun anew each time.
RecordsUnread(root) == << >>

\* The records of the bin that the spanning root points at.
Records(root) == IF disk[root].hasBin THEN disk[BinIndex].records ELSE << >>

\* Mutant: the parent keeps its entry.
ParentKept(p, root) ==
    If(~disk[root].hasBin, Write(root, [disk[root] EXCEPT !.hasBin = TRUE]))

\* The new text of the parent, and of the root that must learn of its bin,
\* which may be one document.
ParentAndRoot(p, root) ==
    LET mine  == Listed(p) /\ Parent(p) = root
        other == Listed(p) /\ Parent(p) # root
        base  == IF mine THEN Unlisted(p) ELSE disk[root]
    IN  If(other, Write(Parent(p), Unlisted(p)))
        \o If(mine \/ ~disk[root].hasBin, Write(root, [base EXCEPT !.hasBin = TRUE]))

Recycle(p) ==
    LET root == SpanningRoot(p)
        text == disk[p].body
        rec(bin) == [doc |-> disk[p].doc, from |-> p, bin |-> bin, parent |-> Parent(p),
                     text |-> IF HasBody(p) THEN text ELSE None]
    IN  /\ Removable(p) /\ IsNode(root)
        /\ \E bin \in BinPlace(p) :
            Commit(<<Rename(p, bin)>>
                   \o If(HasBody(p), Rename(text, Item(text, 0)))
                   \o <<Write(BinIndex, BinOf(Append(Records(root), rec(bin))))>>
                   \o ParentAndRoot(p, root))
        /\ spoilt' = spoilt
               \cup (IF disk[p].down # {} THEN {"astray"} ELSE {})
               \cup (IF HasBody(p) /\ disk[Item(text, 0)] # Absent
                     THEN {"overlaid"} ELSE {})
        /\ UNCHANGED made

-----------------------------------------------------------------------------
(* restore and empty_bin.                                                  *)

Bin == IF disk[Root].hasBin THEN disk[BinIndex].records ELSE << >>

\* The oldest record of a document recycled from p.
Oldest(p) ==
    {i \in DOMAIN Bin : Bin[i].from = p /\ \A j \in 1..(i - 1) : Bin[j].from # p}

\* The parent's new entry, unless the parent is gone or has one.
Relink(p, parent) ==
    If(parent # None /\ disk[parent] # Absent /\ p \notin disk[parent].down,
       Write(parent, [disk[parent] EXCEPT !.down = @ \cup {p}]))

\* Mutant: the body stays in the bin.
BodyBackNever(rec) == << >>

BodyBack(rec) == If(rec.text # None, Rename(Item(rec.text, 0), rec.text))

\* Mutant: the record stays in the bin.
RestoreKeepsRecord(p) ==
    /\ disk[p] = Absent
    /\ \E i \in Oldest(p) :
        /\ Commit(<<Rename(Bin[i].bin, p)>>
                  \o BodyBack(Bin[i])
                  \o <<Write(BinIndex, BinOf(Bin))>>
                  \o Relink(p, Bin[i].parent))
        /\ Spoil("astray", Bin[i].parent = None \/ disk[Bin[i].parent] = Absent)
    /\ UNCHANGED made

\* Mutant: whatever is at p is overwritten.
RestoreOver(p) ==
    /\ \E i \in Oldest(p) :
        /\ Commit(<<Rename(Bin[i].bin, p)>>
                  \o BodyBack(Bin[i])
                  \o <<Write(BinIndex, BinOf(Seqs!RemoveAt(Bin, i)))>>
                  \o Relink(p, Bin[i].parent))
        /\ Spoil("astray", Bin[i].parent = None \/ disk[Bin[i].parent] = Absent)
    /\ UNCHANGED made

Restore(p) ==
    /\ disk[p] = Absent
    /\ \E i \in Oldest(p) :
        /\ Commit(<<Rename(Bin[i].bin, p)>>
                  \o BodyBack(Bin[i])
                  \o <<Write(BinIndex, BinOf(Seqs!RemoveAt(Bin, i)))>>
                  \o Relink(p, Bin[i].parent))
        /\ Spoil("astray", Bin[i].parent = None \/ disk[Bin[i].parent] = Absent)
    /\ UNCHANGED made

IfThere(q) == If(disk[q] # Absent, Remove(q))

\* The files of the records that are there, one by one.
Purge ==
    LET gone[k \in 0..Len(Bin)] ==
            IF k = 0 THEN << >>
            ELSE gone[k - 1]
                 \o IfThere(Bin[k].bin)
                 \o IF Bin[k].text # None THEN IfThere(Item(Bin[k].text, 0)) ELSE << >>
    IN  gone[Len(Bin)]

EmptyBin ==
    LET purged == {Bin[i].doc : i \in DOMAIN Bin}
        ops    == Purge \o <<Write(BinIndex, BinOf(<< >>))>>
    IN  /\ disk[Root].hasBin
        /\ Commit(ops)
        /\ made' = [d \in Doc |-> IF Runs(ops, disk) /\ d \in purged
                                  THEN "destroyed" ELSE made[d]]
        /\ UNCHANGED spoilt

-----------------------------------------------------------------------------
Next ==
    \/ \E p \in Prose, q \in DocPath : Create(p, q)
    \/ \E p \in DocPath :
        Stray(p) \/ Delete(p) \/ Recycle(p) \/ Restore(p)
    \/ EmptyBin

Spec == Init /\ [][Next]_vars

-----------------------------------------------------------------------------
(* Properties.                                                             *)

NodePlaces(d) == {p \in Place : IsNode(p) /\ disk[p].doc = d}
BodyPlaces(d) == {p \in Place : IsBody(p) /\ disk[p].doc = d}
Alive(d) == made[d] \in {"whole", "separated"}

\* No document has gone astray; nothing irregular has happened at all.
Rooted  == "astray" \notin spoilt
Regular == spoilt = {}

\* A document not destroyed is in exactly one place, whatever is created,
\* recycled and restored around it at the same path; one destroyed is in none.
OneNodeEach ==
    Rooted => \A d \in Doc : Cardinality(NodePlaces(d)) = IF Alive(d) THEN 1 ELSE 0

\* The bin's records are its contents: every record names the place that holds
\* its document, and every document in the bin has one record.
BinAccurate ==
    Rooted =>
        /\ \A i \in DOMAIN Bin : NodePlaces(Bin[i].doc) = {Bin[i].bin}
        /\ \A p \in Place \ DocPath :
            IsNode(p) => \E i \in DOMAIN Bin : Bin[i].bin = p
        /\ \A i, j \in DOMAIN Bin : Bin[i].bin = Bin[j].bin => i = j

\* An entry of a document's contents reaches a document that points back, and
\* a document that names its parent is in its contents.
ContentsMutual ==
    Rooted =>
        \A p, q \in DocPath : IsNode(q) =>
            (p \in disk[q].down <=> IsNode(p) /\ disk[p].up = q)

\* "The tombstone record carries everything needed" (mutate.rs): a record
\* leaves the bin only with its document, restored or purged.  The code does
\* not keep this once a document is astray (README, divergences).
RecordsKept ==
    [][\A i \in DOMAIN Bin :
         \/ \E j \in DOMAIN Bin' : Bin'[j] = Bin[i]
         \/ disk'[Bin[i].from] = disk[Bin[i].bin]
         \/ made'[Bin[i].doc] = "destroyed"]_vars

\* The same, of a workspace whose documents are all under its root.
RootedRecordsKept ==
    [][Rooted' =>
       \A i \in DOMAIN Bin :
         \/ \E j \in DOMAIN Bin' : Bin'[j] = Bin[i]
         \/ disk'[Bin[i].from] = disk[Bin[i].bin]
         \/ made'[Bin[i].doc] = "destroyed"]_vars

\* "restore reverses it losslessly (bytes back, ...)" (DESIGN.md): the prose of
\* a separated document that was not destroyed is in one place.
BodiesKept ==
    \A d \in Doc :
        Cardinality(BodyPlaces(d)) = IF made[d] = "separated" THEN 1 ELSE 0

\* The same, while no body is moved onto another; and a restored document's
\* body is its own.
RegularBodiesKept ==
    Regular =>
        /\ BodiesKept
        /\ \A p \in DocPath :
            IsNode(p) /\ disk[p].body # None =>
                BodyPlaces(disk[p].doc) = {disk[p].body}

\* Every set these operations commit is of the form ChangeSet's theorems need:
\* it may be replayed, and it overwrites nothing it could not put back.
StagedDisciplined ==
    [][spoilt' = {} =>
         /\ ReplaySafe(staged')
         /\ SourcesExist(staged', disk)
         /\ DestinationsFree(staged', disk)]_vars

-----------------------------------------------------------------------------
(* The inductive invariant, while no document is astray.                   *)

Separated == disk[Root].body # None

\* What lies where.  Separated, every document is a node beside a body and no
\* node is at a body's place; combined, there are no bodies.
Filed ==
    /\ \A x \in Place : disk[x] # Absent => (disk[x].kind = "bin" <=> x = BinIndex)
    /\ \A x \in Place : IsNode(x) =>
         /\ disk[x].hasBin <=> x = Root /\ disk[BinIndex] # Absent
         /\ Separated => disk[x].body \in Prose
         /\ ~Separated => disk[x].body = None
         /\ Separated /\ x \in DocPath => NodeOf[disk[x].body] = x
    /\ \A x \in Place : IsBody(x) =>
         Separated /\ (x \in Prose \/ \E q \in Prose : x = Item(q, 0))

\* Every set of documents with the root not in it is left by a part_of link.
Acyclic ==
    \A S \in SUBSET {p \in DocPath \ {Root} : IsNode(p)} :
        S # {} => \E p \in S : disk[p].up \notin S

\* The documents that are not in the bin are a tree under the root.
Tree ==
    /\ IsNode(Root) /\ disk[Root].doc = 0 /\ disk[Root].up = None
    /\ \A p \in DocPath \ {Root} :
         IsNode(p) => disk[p].up \in DocPath /\ IsNode(disk[p].up)
    /\ \A p, q \in DocPath : IsNode(q) =>
         (p \in disk[q].down <=> IsNode(p) /\ disk[p].up = q)
    /\ Acyclic

\* One place for each document that is left.
Identified ==
    /\ \A p, q \in Place : IsNode(p) /\ IsNode(q) /\ disk[p].doc = disk[q].doc => p = q
    /\ \A d \in Doc : Alive(d) <=> \E p \in Place : IsNode(p) /\ disk[p].doc = d
    /\ \A d \in Doc : Alive(d) => (made[d] = "separated" <=> Separated)

\* A record fits the node it has the place of.
Fits(rec) ==
    /\ \E k \in 0..MaxBump : rec.bin = Item(rec.from, k)
    /\ IsNode(rec.bin) /\ disk[rec.bin].down = {}
    /\ disk[rec.bin].doc = rec.doc /\ disk[rec.bin].up = rec.parent
    /\ rec.parent \in DocPath \ {rec.from}
    /\ rec.text \in {disk[rec.bin].body, None}
    /\ Separated => NodeOf[disk[rec.bin].body] = rec.from /\ rec.parent \notin Prose

Recorded ==
    /\ \A i \in DOMAIN Bin : Fits(Bin[i])
    /\ \A p \in Place \ DocPath : IsNode(p) => \E i \in DOMAIN Bin : Bin[i].bin = p
    /\ \A i, j \in DOMAIN Bin : Bin[i].bin = Bin[j].bin => i = j

\* The body at b is document d's.
BodyOf(b, d) == IsBody(b) /\ disk[b].doc = d

\* Every body has its node, and every node its body.
Bodied ==
    /\ \A p \in DocPath : IsNode(p) => BodyOf(disk[p].body, disk[p].doc)
    /\ \A i \in DOMAIN Bin : Bin[i].text # None /\ BodyOf(Item(Bin[i].text, 0), Bin[i].doc)
    /\ \A b \in DocPath : IsBody(b) => IsNode(NodeOf[b]) /\ disk[NodeOf[b]].body = b
    /\ \A q \in Prose : IsBody(Item(q, 0)) => \E i \in DOMAIN Bin : Bin[i].text = q

Inv ==
    Rooted =>
        /\ TypeOK
        /\ Filed /\ Tree /\ Identified /\ Recorded
        /\ Regular /\ Separated => Bodied

=============================================================================
