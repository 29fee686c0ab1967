----------------------------- MODULE Registry -----------------------------
(***************************************************************************)
(* The ID registry: FileIndex of prov/src/index.rs, and the protocol by    *)
(* which prov/src/workspace.rs keeps it in step with the documents.        *)
(*                                                                         *)
(* The registry lives in a document of the workspace.  A process reads it  *)
(* once, keeps it in memory, and writes it in the change set of every      *)
(* operation that moved an ID.  An operation opens with a checkpoint of    *)
(* the memory, touches it while it stages its edits, and ends in a commit, *)
(* or by giving up in between.  What a commit does to the disk is what     *)
(* ChangeSet allows: the whole set, none of it, or, until a recovery, a    *)
(* part of it under a journal that holds the whole.                        *)
(***************************************************************************)
EXTENDS Naturals, FiniteSets

CONSTANTS
    Path,         \* document paths
    Id,           \* ids that may be minted
    MaxDocs,      \* bound: documents ever created
    MaxTexts,     \* bound: rewrites of the registry document's own links
    HostMayAbort, \* a set that moves the registry document may be unwound
    None

Live == Path          \* a record: an id is live at a path,
Tombstone == "null"   \* retired,
Unknown == "unknown"  \* or was never issued
Records == [Id -> Live \cup {Tombstone, Unknown}]
Doc  == 0..MaxDocs    \* 0 is the registry document
Text == 0..MaxTexts   \* the rest of the registry document

ASSUME RegistryAssumption ==
    /\ MaxDocs \in Nat /\ MaxTexts \in Nat /\ HostMayAbort \in BOOLEAN
    /\ Tombstone \notin Path /\ Unknown \notin Path
    /\ None \notin Path /\ None \notin Id /\ None \notin Doc

\* The registry document, and a whole workspace: what is at each path, where
\* the root says the registry is, the documents in the bin with the path and
\* the id they had, and the ids written in documents' links.
File  == [records : Records, text : Text]
Store == [doc : [Path -> Doc \cup {None}], ledger : [Path -> File \cup {None}],
          host : Path, bin : SUBSET [doc : Doc, from : Path, id : Id \cup {None}],
          cited : SUBSET Id]

\* FileIndex: two maps, the tombstones, and what is known of the host.
Index == [forward : [Id -> Path \cup {None}], reverse : [Path -> Id \cup {None}],
          tombstones : SUBSET Id, dirty : BOOLEAN, host : Path, file : File]

\* None is none of the values it stands beside.
ASSUME NoneAssumption == None \notin File /\ None \notin Store /\ None \notin Index

VARIABLES
    disk,    \* the workspace's files
    journal, \* what a pending change set makes of them, or None
    pc,      \* "closed", "idle" or, within an operation, "op"
    index,   \* the registry in memory
    saved,   \* its checkpoint, or None
    staged,  \* what the operation makes of disk, but for the registry's write
    astray,  \* the process is a check that looked for the registry too early
    lost,    \* history: ids in links that such a check recorded elsewhere
    made,    \* history: documents created so far
    names,   \* history: the document each id was first recorded for
    handed   \* history: ids this process has handed out between operations

vars == <<disk, journal, pc, index, saved, staged, astray, lost, made, names, handed>>
history == <<lost, made, names>>

TypeOK ==
    /\ disk \in Store
    /\ journal \in Store \cup {None}
    /\ pc \in {"closed", "idle", "op"}
    /\ index \in Index
    /\ saved \in Index \cup {None}
    /\ staged \in Store
    /\ astray \in BOOLEAN
    /\ lost \subseteq Id
    /\ made \in 0..MaxDocs
    /\ names \in [Id -> Doc \cup {None}]
    /\ handed \subseteq Id

-----------------------------------------------------------------------------
(* FileIndex.                                                              *)

Parse(path, file) ==
    LET forward == [i \in Id |-> IF file.records[i] \in Live
                                 THEN file.records[i] ELSE None]
    IN  [forward |-> forward,
         reverse |-> [p \in Path |->
                        IF \E i \in Id : forward[i] = p
                        THEN CHOOSE i \in Id : forward[i] = p ELSE None],
         tombstones |-> {i \in Id : file.records[i] = Tombstone},
         dirty |-> FALSE, host |-> path, file |-> file]

\* An empty registry document, or one that is not there.
NoRecords == [records |-> [i \in Id |-> Unknown], text |-> 0]

\* workspace: the index of a process that takes h for the registry's place.
ReadAt(d, h) == Parse(h, IF d.ledger[h] = None THEN NoRecords ELSE d.ledger[h])

Register(ix, i, p) ==
    [ix EXCEPT !.forward[i] = p, !.reverse[p] = i, !.dirty = TRUE]

SetPath(ix, i, p) ==
    LET old == ix.forward[i]
    IN  [ix EXCEPT !.forward[i] = p,
                   !.reverse = [q \in Path |-> IF q = p THEN i
                                               ELSE IF q = old THEN None
                                               ELSE @[q]],
                   !.dirty = TRUE]

Unregister(ix, i) ==
    LET old == ix.forward[i]
    IN  [ix EXCEPT !.forward[i] = None,
                   !.reverse = [q \in Path |-> IF q = old THEN None ELSE @[q]],
                   !.tombstones = @ \cup {i},
                   !.dirty = TRUE]

Known(ix, i) == ix.forward[i] # None \/ i \in ix.tombstones

\* Mutant: tombstones are not written.
RenderedLive(ix) ==
    [i \in Id |-> IF ix.forward[i] # None THEN ix.forward[i]
                  ELSE IF i \in ix.tombstones THEN Unknown
                  ELSE ix.file.records[i]]

\* The records as render writes them: a live path wins over a tombstone, and
\* what the index does not know stays as it is in the host.
Rendered(ix) ==
    [i \in Id |-> IF ix.forward[i] # None THEN ix.forward[i]
                  ELSE IF i \in ix.tombstones THEN Tombstone
                  ELSE ix.file.records[i]]

\* rollback restores all of a checkpoint but the host.
Rollback(ix, cp) == IF cp = None THEN ix ELSE [cp EXCEPT !.host = ix.host]

-----------------------------------------------------------------------------
(* History.                                                                *)

Names(d) ==
    [i \in Id |->
        IF names[i] = None /\ d.ledger[d.host] # None
           /\ d.ledger[d.host].records[i] \in Live
        THEN d.doc[d.ledger[d.host].records[i]] ELSE names[i]]

-----------------------------------------------------------------------------
(* A process begins, and ends.                                             *)

Fresh(h) ==
    [doc |-> [p \in Path |-> IF p = h THEN 0 ELSE None],
     ledger |-> [p \in Path |-> IF p = h THEN NoRecords ELSE None],
     host |-> h, bin |-> {}, cited |-> {}]

\* A workspace of its root and a registry without records.
Init ==
    /\ \E h \in Path : disk = Fresh(h)
    /\ journal = None
    /\ pc = "closed"
    /\ index = Parse(disk.host, disk.ledger[disk.host])
    /\ saved = None
    /\ staged = disk
    /\ astray = FALSE
    /\ lost = {}
    /\ made = 0
    /\ names = [i \in Id |-> None]
    /\ handed = {}

Open ==
    /\ pc = "closed"
    /\ pc' = "idle"
    /\ index' = ReadAt(disk, disk.host)
    /\ saved' = None
    /\ UNCHANGED <<disk, journal, staged, astray, history, handed>>

\* The process is over, and its memory with it.
Leave ==
    /\ pc' = "closed" /\ saved' = None /\ handed' = {} /\ astray' = FALSE
    /\ index' = ReadAt(disk, disk.host)
    /\ staged' = disk

Close == pc = "idle" /\ Leave /\ UNCHANGED <<disk, journal, history>>

\* `prov check` asks the root where the registry is, finds the journal and
\* finishes the change, and only then reads the registry, where it was to be
\* before: an empty one, if the change has moved it away.
Recover ==
    /\ pc = "closed" /\ journal # None
    /\ disk' = journal /\ journal' = None
    /\ pc' = "idle"
    /\ index' = ReadAt(journal, disk.host)
    /\ saved' = None
    /\ staged' = journal
    /\ astray' = (journal.host # disk.host)
    /\ names' = Names(journal)
    /\ UNCHANGED <<lost, made, handed>>

-----------------------------------------------------------------------------
(* Operations, up to their commit.  Of a check only those of check --fix    *)
(* are looked at where it is astray: it writes links, and rewrites them.   *)

Ready == pc = "idle" /\ ~astray

Empty(d, p) == d.doc[p] = None

IdFor(ix, p) == ix.reverse[p]

\* Mutant: only live ids are refused.
MintLive(ix) == {i \in Id : ix.forward[i] = None}

\* mint_unique returns an id the index has never known.
Mint(ix) == {i \in Id : ~Known(ix, i)}

\* Workspace::register, between operations: somebody asks for the id of a
\* document that has none.
RegisterBetween(p) ==
    /\ Ready /\ ~Empty(disk, p)
    /\ IdFor(index, p) = None
    /\ \E i \in Mint(index) :
        index' = Register(index, i, p) /\ handed' = handed \cup {i}
    /\ UNCHANGED <<disk, journal, pc, saved, staged, astray, history>>

\* change: unwind what an operation that gave up left behind.
Opened == Rollback(index, saved)

\* change, the index as the operation has touched it, and its edits.
Begin(ix, st) ==
    /\ pc' = "op"
    /\ saved' = Opened
    /\ index' = ix
    /\ staged' = st
    /\ UNCHANGED <<disk, journal, astray, lost, names, handed>>

\* An operation's work so far: the index it has touched, the disk it will leave.
Work(ix, st) == [index |-> ix, store |-> st]

\* authored_target: a link to p is written by path, or, where the style is by
\* id, with the id p has or is now given.
Linked(w, p) ==
    {w} \cup
    IF IdFor(w.index, p) # None
    THEN {[w EXCEPT !.store.cited = @ \cup {IdFor(w.index, p)}]}
    ELSE {[w EXCEPT !.index = Register(@, i, p), !.store.cited = @ \cup {i}] :
             i \in Mint(w.index)}

\* An eager policy gives a new document an id that nothing cites yet.
Stamped(w, p) ==
    {w} \cup {[w EXCEPT !.index = Register(@, i, p)] :
                 i \in IF IdFor(w.index, p) = None THEN Mint(w.index) ELSE {}}

\* create: the child links to its parent at q, the parent to the child.
Create(p, q) ==
    /\ Ready /\ Empty(disk, p) /\ ~Empty(disk, q) /\ made < MaxDocs
    /\ \E u \in Linked(Work(Opened, [disk EXCEPT !.doc[p] = made + 1]), q) :
       \E v \in Linked(u, p) :
       \E w \in Stamped(v, p) : Begin(w.index, w.store)
    /\ made' = made + 1

\* A link is written to a document that exists.
Link(p) ==
    /\ pc = "idle" /\ ~Empty(disk, p)
    /\ \E w \in Linked(Work(Opened, disk), p) : Begin(w.index, w.store)
    /\ UNCHANGED made

\* delete or, when it goes to the bin, recycle: which has looked the id up
\* before its change.
Remove(p, recycle) ==
    /\ Ready /\ disk.doc[p] \notin {0, None}
    /\ LET i  == IdFor(IF recycle THEN index ELSE Opened, p)
           st == [disk EXCEPT !.doc[p] = None,
                    !.bin = @ \cup IF recycle
                                   THEN {[doc |-> disk.doc[p], from |-> p, id |-> i]}
                                   ELSE {}]
       IN  Begin(IF i = None THEN Opened ELSE Unregister(Opened, i), st)
    /\ UNCHANGED made

\* restore: the id is registered again, then the parent's entry is written.
Restore(rec) ==
    /\ Ready /\ rec \in disk.bin /\ Empty(disk, rec.from)
    /\ LET ix == IF rec.id = None THEN Opened ELSE Register(Opened, rec.id, rec.from)
           st == [disk EXCEPT !.doc[rec.from] = rec.doc, !.bin = @ \ {rec}]
       IN  \E w \in Linked(Work(ix, st), rec.from) : Begin(w.index, w.store)
    /\ UNCHANGED made

\* rename, of any document: when it is the registry's, the root's pointer is
\* one of the links it rewrites.
Rename(p, q) ==
    /\ Ready /\ ~Empty(disk, p) /\ Empty(disk, q)
    /\ LET i  == IdFor(Opened, p)
           st == [disk EXCEPT
                    !.doc    = [@ EXCEPT ![q] = disk.doc[p], ![p] = None],
                    !.ledger = [@ EXCEPT ![q] = disk.ledger[p], ![p] = None],
                    !.host   = IF p = disk.host THEN q ELSE @]
       IN  Begin(IF i = None THEN Opened ELSE SetPath(Opened, i, q), st)
    /\ UNCHANGED made

\* An operation that rewrites the registry document's own links, and may write
\* a link of some other document.
Rewrite(p) ==
    /\ pc = "idle" /\ disk.ledger[disk.host] # None
    /\ disk.ledger[disk.host].text < MaxTexts
    /\ LET st == [disk EXCEPT !.ledger[disk.host].text = @ + 1]
       IN  \E w \in IF Empty(disk, p) THEN {Work(Opened, st)}
                    ELSE Linked(Work(Opened, st), p) :
              Begin(w.index, w.store)
    /\ UNCHANGED made

\* The operation fails on an edit it was still computing.  The index it leaves
\* has registrations at most: moves and retirements come last, with the commit.
GiveUp ==
    /\ pc = "op" /\ pc' = "idle"
    /\ index.tombstones = saved.tombstones
    /\ \A i \in Id : saved.forward[i] \in {None, index.forward[i]}
    /\ staged' = disk
    /\ UNCHANGED <<disk, journal, index, saved, astray, history, handed>>

-----------------------------------------------------------------------------
(* commit.                                                                 *)

\* Where the set leaves the file at h.
RenamedTo(h) ==
    IF disk.ledger[h] # None /\ staged.ledger[h] = None
    THEN CHOOSE q \in Path : staged.ledger[q] # None /\ disk.ledger[q] = None
    ELSE h

\* Mutant: the set's own edit of the host is not looked at.
RebaseBlind(ix) == [ix EXCEPT !.host = RenamedTo(ix.host)]

\* rebase: follow the host where the set moves it, and take up what the set
\* writes there.
Rebase(ix) ==
    LET dest  == RenamedTo(ix.host)
        edits == dest # ix.host \/ staged.ledger[dest] # disk.ledger[dest]
    IN  [ix EXCEPT !.host = dest, !.file = IF edits THEN staged.ledger[dest] ELSE @]

\* pending_write renders a dirty index.
Render(ix) == IF ix.dirty THEN [ix EXCEPT !.file.records = Rendered(ix)] ELSE ix

Written == Render(Rebase(index))

\* A check that is astray writes its registry where nothing is left: to a new
\* document, which the root does not point at and nobody reads.
Founds == astray /\ index.dirty /\ staged.doc[index.host] = None

\* The whole set: the operation's edits, then the registry.
Final ==
    CASE Founds -> [staged EXCEPT !.doc[index.host] = made + 1]
      [] index.dirty /\ ~astray -> [staged EXCEPT !.ledger[Written.host] = Written.file]
      [] OTHER -> staged

\* What is left of it besides the disk and the process.
Accounted ==
    /\ Founds => made < MaxDocs
    /\ made' = IF Founds THEN made + 1 ELSE made
    /\ lost' = {i \in Final.cited : Final.ledger[Final.host].records[i] = Unknown
                                     /\ (astray \/ i \in lost)}

\* Mutant: the checkpoint of an operation that succeeded stays.
CommittedKeeps == saved' = saved

\* committed: the checkpoint is spent.
Committed == saved' = None

Commit ==
    /\ pc = "op" /\ journal = None
    /\ disk' = Final
    /\ pc' = "idle"
    /\ index' = [Written EXCEPT !.dirty = FALSE]
    /\ Committed
    /\ staged' = Final
    /\ names' = Names(Final)
    /\ Accounted
    /\ UNCHANGED <<journal, astray, handed>>

\* apply reports an error: the index forgets the operation.
Fail ==
    /\ pc' = "idle"
    /\ index' = Rollback(Rebase(index), saved)
    /\ saved' = None
    /\ staged' = disk
    /\ UNCHANGED <<astray, handed>>

\* The set is refused over a pending journal, or unwound.
CommitAborted ==
    /\ pc = "op"
    /\ journal # None \/ HostMayAbort \/ staged.host = disk.host
    /\ Fail
    /\ UNCHANGED <<disk, journal, history>>

\* The set is journaled, and has not landed or is not seen to have landed when
\* the process fails or dies.  What it has half done stands behind the journal.
CommitPending ==
    /\ pc = "op" /\ journal = None
    /\ journal' = Final
    /\ disk' \in {disk, Final}
    /\ Fail \/ Leave
    /\ Accounted
    /\ UNCHANGED names

\* The process dies before the set is journaled.
Crash ==
    /\ pc = "op" /\ Leave
    /\ UNCHANGED <<disk, journal, history>>

-----------------------------------------------------------------------------
Operation ==
    \/ \E p \in Path :
        \/ Link(p) \/ Rewrite(p)
        \/ \E recycle \in BOOLEAN : Remove(p, recycle)
        \/ \E q \in Path : Create(p, q) \/ Rename(p, q)
    \/ \E rec \in disk.bin : Restore(rec)

Next ==
    \/ Open \/ Close \/ Recover
    \/ \E p \in Path : RegisterBetween(p)
    \/ Operation \/ GiveUp
    \/ Commit \/ CommitAborted \/ CommitPending \/ Crash

Spec == Init /\ [][Next]_vars

-----------------------------------------------------------------------------
(* Properties.                                                             *)

Registered(d) == d.ledger[d.host].records

\* Between operations and within them, what a process takes for the registry's
\* place and text is what is on disk; unless it is a check that has finished a
\* move of the registry document after it had looked for it.
IndexTracksHost ==
    pc # "closed" /\ journal = None /\ ~astray =>
        index.host = disk.host /\ index.file = disk.ledger[disk.host]

\* An id on record leads to the document it was first recorded for, wherever
\* that has moved, been recycled from or been restored to, and to no other:
\* ids are not reissued, and no record is of a document never written.
IdsNameOneDocument ==
    journal = None =>
        \A i \in Id : Registered(disk)[i] \in Live =>
            /\ names[i] # None
            /\ disk.doc[Registered(disk)[i]] = names[i]

\* "A mutation's registry update has to land in the same unit as its document
\* edits" (index.rs): an id a document's link carries is on record, but for
\* those that a check recorded in the place the registry document had before.
CitedIdsKnown ==
    journal = None => \A i \in disk.cited \ lost : Registered(disk)[i] # Unknown

\* "Roll it forward before reading the workspace" (a comment of cmd_check): the
\* same with no exception.  The code does not keep this (README, divergences).
EveryCitedIdKnown ==
    journal = None => \A i \in disk.cited : Registered(disk)[i] # Unknown

\* An id once on record stays on record, live or retired.
RecordsNeverLost ==
    [][\A i \in Id : Registered(disk)[i] # Unknown => Registered(disk)'[i] # Unknown]_vars

\* The two maps of the index are each other's inverse, through registrations,
\* moves, retirements, rollbacks and abandoned operations.
MapsAgree ==
    pc # "closed" /\ journal = None /\ ~astray =>
        \A i \in Id, p \in Path : index.forward[i] = p <=> index.reverse[p] = i

\* The registry's write, staged last, takes nothing from the operation it is
\* staged with: neither its edit of the registry document nor its move of it,
\* nor, where a check has it written to the wrong place, a document there.
EditsLand ==
    [][pc = "op" /\ disk' # disk =>
         /\ [disk' EXCEPT !.ledger = staged.ledger, !.doc = staged.doc] = staged
         /\ \A p \in Path :
              \/ disk'.doc[p] = staged.doc[p]
              \/ astray /\ p = index.host /\ staged.doc[p] = None
         /\ \A p \in Path :
              IF staged.ledger[p] = None THEN disk'.ledger[p] = None
              ELSE disk'.ledger[p].text = staged.ledger[p].text]_vars

\* "A registration made between ops must not be erased by the next one" (a
\* test of mutate.rs): an id handed to a caller stays known to the process.
\* The code does not keep this (README, divergences).
RegistrationsKept == \A i \in handed : Known(index, i)

-----------------------------------------------------------------------------
(***************************************************************************)
(* The inductive invariant, while a set that moves the registry document   *)
(* is not unwound: what a whole workspace's records say of its documents,  *)
(* what an index knows of the workspace an operation is making, and what   *)
(* an operation that gave up has left in the index.                        *)
(***************************************************************************)

\* The registry document is at its place, and nowhere else.
Placed(d) ==
    /\ \A p \in Path : d.ledger[p] # None <=> p = d.host
    /\ d.doc[d.host] = 0

\* Document e may be the one the id is first recorded for, or was.
Nameable(i, e) == e # None /\ names[i] \in {None, e}

\* A record of the bin that keeps an id keeps its own.
BinApart(d) ==
    \A r, s \in d.bin : r.id # None /\ r.id = s.id => r = s

\* A whole workspace.
Recorded(d) ==
    /\ Placed(d) /\ BinApart(d)
    /\ \A i \in Id : Registered(d)[i] \in Live => Nameable(i, d.doc[Registered(d)[i]])
    /\ \A i, j \in Id :
          Registered(d)[i] \in Live /\ Registered(d)[i] = Registered(d)[j] => i = j
    /\ \A i \in Id : names[i] # None \/ i \in d.cited \ lost => Registered(d)[i] # Unknown
    /\ \A rec \in d.bin : rec.id # None =>
          Registered(d)[rec.id] = Tombstone /\ Nameable(rec.id, rec.doc)

\* The index takes the registry to be where it is on disk, with that text.
Tracks(ix) == ix.host = disk.host /\ ix.file = disk.ledger[disk.host]

Inverse(ix) ==
    \A i \in Id, p \in Path : ix.forward[i] = p <=> ix.reverse[p] = i

\* It knows every id on record; with nothing to write it knows no other.
Covers(ix) == \A i \in Id : ix.file.records[i] # Unknown => Known(ix, i)

Clean(ix) ==
    ~ix.dirty =>
        \A i \in Id :
            /\ ix.forward[i] # None => ix.file.records[i] = ix.forward[i]
            /\ ix.file.records[i] \in Live => ix.forward[i] = ix.file.records[i]
            /\ i \in ix.tombstones /\ ix.forward[i] = None => ix.file.records[i] = Tombstone

\* It is the index of the documents, the bin and the links of workspace d.
Fits(ix, d) ==
    /\ Inverse(ix) /\ Covers(ix) /\ Clean(ix) /\ BinApart(d)
    /\ \A i \in Id : ix.forward[i] # None => Nameable(i, d.doc[ix.forward[i]])
    /\ \A rec \in d.bin : rec.id # None =>
          /\ ix.forward[rec.id] = None /\ rec.id \in ix.tombstones
          /\ Nameable(rec.id, rec.doc)
    /\ \A i \in d.cited \ lost : Known(ix, i)

\* Of the documents on disk it says nothing false, and of those in the bin
\* nothing.
Harmless(ix) ==
    /\ Inverse(ix) /\ Covers(ix)
    /\ \A i \in Id : ix.forward[i] # None /\ disk.doc[ix.forward[i]] # None =>
          Nameable(i, disk.doc[ix.forward[i]])
    /\ \A rec \in disk.bin : rec.id # None /\ ix.forward[rec.id] # None =>
          disk.doc[ix.forward[rec.id]] = None

\* The edits so far leave the records, and every document that stays, alone.
Edits(d) ==
    /\ d.ledger[d.host].records = disk.ledger[disk.host].records
    /\ \A p \in Path : disk.doc[p] # None /\ d.doc[p] # None => d.doc[p] = disk.doc[p]

Between ==
    /\ Tracks(index) /\ Tracks(Opened) /\ Fits(Opened, disk) /\ Harmless(index)
    /\ \A i \in Id : Opened.forward[i] \in {None, index.forward[i]}

Within ==
    /\ Tracks(index) /\ Tracks(Rollback(index, saved))
    /\ Fits(index, staged) /\ Fits(Rollback(index, saved), disk)
    /\ Harmless(index) /\ Edits(staged)

\* What a check that is astray stages: no document comes, goes or moves, and the
\* registry says what it said.
Aside(d) ==
    /\ d.doc = disk.doc /\ d.bin = disk.bin /\ d.host = disk.host
    /\ Registered(d) = Registered(disk)

Inv ==
    /\ TypeOK
    /\ Placed(disk)
    /\ astray => pc # "closed"
    /\ pc = "op" => saved # None /\ Placed(staged)
    /\ journal = None => Recorded(disk) /\ IdsNameOneDocument
    /\ journal # None =>
          /\ Recorded(journal)
          /\ \A i \in Id : Registered(disk)[i] # Unknown => Registered(journal)[i] # Unknown
    /\ journal = None /\ pc = "idle" /\ ~astray => Between
    /\ journal = None /\ pc = "op" /\ ~astray => Within
    /\ journal = None /\ pc = "op" /\ astray => Aside(staged)

=============================================================================
