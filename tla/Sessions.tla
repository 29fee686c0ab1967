----------------------------- MODULE Sessions -----------------------------
(***************************************************************************)
(* Where ids are kept from one command to the next: the three modes of     *)
(* id_storage (prov/src/config.rs), how a command of prov-cli/src/main.rs  *)
(* opens the ids, brings a registry document about, and persists what it   *)
(* changed, and what is left when it is killed on the way.                 *)
(*                                                                         *)
(* An operation is one step, with the registry's write where there is a    *)
(* registry document (Registry, ChangeSet).  What surrounds it is not: the *)
(* registry document is made before it, the ids are stamped into documents *)
(* after it, file by file.                                                 *)
(***************************************************************************)
EXTENDS Naturals, FiniteSets, Functions

CONSTANTS
    Path,     \* paths of documents
    Id,       \* ids that are drawn; the generator does not draw one twice
    Modes,    \* the modes of id_storage to begin in
    MaxDocs,  \* bound: documents ever created
    MaxRuns,  \* bound: commands given
    None

ASSUME SessionsAssumption ==
    /\ Modes \subseteq {"registry", "both", "frontmatter"}
    /\ MaxDocs \in Nat /\ MaxRuns \in Nat
    /\ None \notin Id

\* A document in the recycle bin is at the place of its path there.
InBin(p) == <<"bin", p>>
Outside(p) == <<"out", p>>
Out == {Outside(p) : p \in Path}

Stamps(m)        == m \in {"both", "frontmatter"}
KeepsRegistry(m) == m \in {"registry", "both"}

Nowhere == [i \in {} |-> Outside(None)]

\* f with value v for each of S.
Given(f, S, v) == [x \in S \cup DOMAIN f |-> IF x \in S THEN v ELSE f[x]]

VARIABLES
    file,    \* the files: which document, the id stamped in it, the ids it cites
    mode,    \* id_storage
    hosted,  \* the root points at a registry document
    ledger,  \* its records: the places of ids, and the ids retired
    binned,  \* the bin's records: a path, and the id the document had
    proc,    \* the process that runs a command
    ended,   \* history: how the last process ended, and which command it was
    owner,   \* history: the document each id was drawn for
    lost,    \* history: cited ids that a process took with it
    made, runs

vars == <<file, mode, hosted, ledger, binned, proc, ended, owner, lost, made, runs>>

-----------------------------------------------------------------------------
(* Opening a workspace: ids from the stamps or from the registry.          *)

Scanned(files) ==
    LET stamped == {l \in DOMAIN files : files[l].stamp # None}
        ids     == {files[l].stamp : l \in stamped}
    IN  [i \in ids |-> CHOOSE l \in stamped : files[l].stamp = i]

\* The ids that a process opening the workspace with these files has.
OpensAs(files) ==
    CASE mode = "frontmatter" -> [live |-> Scanned(files), retired |-> {}, home |-> FALSE]
      [] mode # "frontmatter" /\ hosted ->
            [live |-> ledger.live, retired |-> ledger.retired, home |-> TRUE]
      [] OTHER -> [live |-> Nowhere, retired |-> {}, home |-> FALSE]

Opened == OpensAs(file)

\* Commands that author links ensure a registry before they begin; moving and
\* removing draw no ids; restoring may, and ensures no registry; check --fix
\* waits until a fix did.
Authors  == {"new", "adopt", "id"}
Commands == Authors \cup {"move", "remove", "recycle", "restore", "fix"}

Off == [on |-> FALSE, cmd |-> "none", at |-> "off", live |-> Nowhere, retired |-> {},
        dirty |-> FALSE, home |-> FALSE, todo |-> {}, applied |-> FALSE]

\* Mutant: no command ensures a registry.
StartUnhosted(c) ==
    /\ ~proc.on /\ runs < MaxRuns
    /\ proc' = [Off EXCEPT !.on = TRUE, !.cmd = c, !.at = "open"]
    /\ runs' = runs + 1
    /\ UNCHANGED <<file, mode, hosted, ledger, binned, ended, owner, lost, made>>

Start(c) ==
    /\ ~proc.on /\ runs < MaxRuns
    /\ proc' = [Off EXCEPT !.on = TRUE, !.cmd = c,
                           !.at = IF c \in Authors THEN "ensure" ELSE "open"]
    /\ runs' = runs + 1
    /\ UNCHANGED <<file, mode, hosted, ledger, binned, ended, owner, lost, made>>

\* The registry document and the pointer to it, in one change set.
EnsureRegistry ==
    /\ proc.at \in {"ensure", "reensure"}
    /\ hosted' = (hosted \/ KeepsRegistry(mode))
    /\ proc' = [proc EXCEPT !.at = IF @ = "ensure" THEN "open" ELSE "persist"]
    /\ UNCHANGED <<file, mode, ledger, binned, ended, owner, lost, made, runs>>

Open ==
    /\ proc.at = "open"
    /\ proc' = [proc EXCEPT !.at = "op", !.live = Opened.live,
                            !.retired = Opened.retired, !.home = Opened.home]
    /\ UNCHANGED <<file, mode, hosted, ledger, binned, ended, owner, lost, made, runs>>

-----------------------------------------------------------------------------
(***************************************************************************)
(* Operations: what they do to the files, to the ids in memory and, in the *)
(* same change set, to the registry.                                       *)
(***************************************************************************)
IdsAt(p, l) == {i \in DOMAIN p.live : p.live[i] = l}

\* The id of the document at l: the one it has, or one drawn for it.
IdFor(p, l) == IF IdsAt(p, l) # {} THEN IdsAt(p, l) ELSE Id \ DOMAIN owner

Registered(p, i, l) ==
    IF IdsAt(p, l) # {} THEN p
    ELSE [p EXCEPT !.live = Given(@, {i}, l), !.dirty = TRUE]

Moved(p, l, to) ==
    [p EXCEPT !.live = [i \in DOMAIN @ |-> IF @[i] = l THEN to ELSE @[i]],
              !.dirty = @ \/ IdsAt(p, l) # {}]

Unregistered(p, l) ==
    [p EXCEPT !.live = Restrict(@, DOMAIN @ \ IdsAt(p, l)),
              !.retired = @ \cup IdsAt(p, l),
              !.dirty = @ \/ IdsAt(p, l) # {}]

Commit(p, files) ==
    /\ file' = files
    /\ ledger' = IF p.home /\ p.dirty THEN [live |-> p.live, retired |-> p.retired]
                                      ELSE ledger
    /\ proc' = [p EXCEPT !.dirty = @ /\ ~p.home]

Doc(key) == [key |-> key, stamp |-> None, cites |-> {}]
Without(l) == Restrict(file, DOMAIN file \ {l})
Carried(l, to) == Given(Without(l), {to}, file[l])

Next1 == [proc EXCEPT !.at = "persist"]

New(by, l) ==
    /\ proc.at = "op" /\ proc.cmd = "new"
    /\ by \in DOMAIN file /\ l \notin DOMAIN file /\ made < MaxDocs
    /\ made' = made + 1
    /\ \E i \in Id \ DOMAIN owner :
         /\ owner' = Given(owner, {i}, made')
         /\ Commit([Next1 EXCEPT !.live = Given(@, {i}, l), !.dirty = TRUE],
                   [Given(file, {l}, Doc(made')) EXCEPT ![by].cites = @ \cup {i}])
    /\ UNCHANGED <<mode, hosted, binned, ended, lost, runs>>

\* authored_target, of a link by id, and the commit of the files it is in.
Author(p, files, by, l) ==
    \E i \in IdFor(p, l) :
        /\ owner' = IF i \in DOMAIN owner THEN owner ELSE Given(owner, {i}, files[l].key)
        /\ Commit(Registered(p, i, l), [files EXCEPT ![by].cites = @ \cup {i}])

\* A link by id from one document to another: adopt, reparent, duplicate, and
\* the fixes of check --fix.
Cite(p, by, l) ==
    /\ {by, l} \subseteq DOMAIN file /\ by # l
    /\ Author(p, file, by, l)
    /\ UNCHANGED <<mode, hosted, binned, ended, lost, made, runs>>

Adopt(by, l) == proc.at = "op" /\ proc.cmd = "adopt" /\ Cite(Next1, by, l)

\* The command id: no change set at all.
TakeId(l) ==
    /\ proc.at = "op" /\ proc.cmd = "id" /\ l \in DOMAIN file
    /\ \E i \in IdFor(proc, l) :
         /\ owner' = IF i \in DOMAIN owner THEN owner ELSE Given(owner, {i}, file[l].key)
         /\ proc' = Registered(Next1, i, l)
    /\ UNCHANGED <<file, mode, hosted, ledger, binned, ended, lost, made, runs>>

Move(l, to) ==
    /\ proc.at = "op" /\ proc.cmd = "move"
    /\ l \in DOMAIN file /\ to \notin DOMAIN file
    /\ Commit(Moved(Next1, l, to), Carried(l, to))
    /\ UNCHANGED <<mode, hosted, binned, ended, owner, lost, made, runs>>

Remove(l) ==
    /\ proc.at = "op" /\ proc.cmd = "remove" /\ l \in DOMAIN file
    /\ Commit(Unregistered(Next1, l), Without(l))
    /\ UNCHANGED <<mode, hosted, binned, ended, owner, lost, made, runs>>

Recycle(p) ==
    LET l == Outside(p)
    IN  /\ proc.at = "op" /\ proc.cmd = "recycle"
        /\ l \in DOMAIN file /\ InBin(p) \notin DOMAIN file
        /\ binned' = Given(binned, {p}, IdsAt(proc, l))
        /\ Commit(Unregistered(Next1, l), Carried(l, InBin(p)))
        /\ UNCHANGED <<mode, hosted, ended, owner, lost, made, runs>>

\* Mutant: the id stays retired.
RestoreRetired(p) ==
    LET l == Outside(p)
    IN  /\ proc.at = "op" /\ proc.cmd = "restore"
        /\ p \in DOMAIN binned /\ l \notin DOMAIN file
        /\ binned' = Restrict(binned, DOMAIN binned \ {p})
        /\ Commit(Next1, Carried(InBin(p), l))
        /\ UNCHANGED <<mode, hosted, ended, owner, lost, made, runs>>

\* The id it had is registered again; then, unless the parent is gone, or
\* lists the document, or links by path, the parent's entry is written by id.
Restore(p) ==
    LET l        == Outside(p)
        ids      == binned[p]
        restored == [Next1 EXCEPT !.live = Given(@, ids, l),
                                  !.retired = @ \ ids, !.dirty = @ \/ ids # {}]
        files    == Carried(InBin(p), l)
    IN  /\ proc.at = "op" /\ proc.cmd = "restore"
        /\ p \in DOMAIN binned /\ l \notin DOMAIN file
        /\ binned' = Restrict(binned, DOMAIN binned \ {p})
        /\ \/ Commit(restored, files) /\ UNCHANGED owner
           \/ \E by \in DOMAIN file \cap Out : Author(restored, files, by, l)
        /\ UNCHANGED <<mode, hosted, ended, lost, made, runs>>

-----------------------------------------------------------------------------
(***************************************************************************)
(* check --fix: fixes one after another, each committed by itself, and ids *)
(* persisted at the end.                                                   *)
(***************************************************************************)
Fixing == proc.at = "op" /\ proc.cmd = "fix"

\* A link that is missing, or an orphan adopted.
FixLink(by, l) == Fixing /\ Cite([proc EXCEPT !.applied = TRUE], by, l)

\* An id that a document is stamped with and the registry does not know.
FixRegister(l) ==
    /\ Fixing /\ l \in DOMAIN file
    /\ file[l].stamp \notin DOMAIN proc.live \cup {None} /\ IdsAt(proc, l) = {}
    /\ Commit([proc EXCEPT !.applied = TRUE, !.live = Given(@, {file[l].stamp}, l),
                           !.retired = @ \ {file[l].stamp}, !.dirty = TRUE], file)
    /\ UNCHANGED <<mode, hosted, binned, ended, owner, lost, made, runs>>

\* The end of the report, or q where an orphan was offered.
FixesDone ==
    /\ Fixing
    /\ proc' = [proc EXCEPT !.at = IF proc.applied /\ proc.dirty THEN "reensure" ELSE "over"]
    /\ UNCHANGED <<file, mode, hosted, ledger, binned, ended, owner, lost, made, runs>>

-----------------------------------------------------------------------------
(***************************************************************************)
(* Persisting: the stamps, one file at a time, then the registry where no  *)
(* operation wrote it.                                                     *)
(***************************************************************************)
Persist ==
    /\ proc.at = "persist"
    /\ proc' = [proc EXCEPT !.at = "stamp", !.todo = IF Stamps(mode) THEN DOMAIN proc.live ELSE {}]
    /\ UNCHANGED <<file, mode, hosted, ledger, binned, ended, owner, lost, made, runs>>

\* Mutant: a document that carries an id keeps it.
StampOnce(i) ==
    /\ proc.at = "stamp" /\ i \in proc.todo
    /\ proc' = [proc EXCEPT !.todo = @ \ {i}]
    /\ file' = [l \in DOMAIN file |-> IF l = proc.live[i] /\ file[l].stamp = None
                                      THEN [file[l] EXCEPT !.stamp = i] ELSE file[l]]
    /\ UNCHANGED <<mode, hosted, ledger, binned, ended, owner, lost, made, runs>>

Stamp(i) ==
    /\ proc.at = "stamp" /\ i \in proc.todo
    /\ proc' = [proc EXCEPT !.todo = @ \ {i}]
    /\ file' = [l \in DOMAIN file |-> IF l = proc.live[i]
                                      THEN [file[l] EXCEPT !.stamp = i] ELSE file[l]]
    /\ UNCHANGED <<mode, hosted, ledger, binned, ended, owner, lost, made, runs>>

\* Ids that belong in a registry, and no registry document.
Homeless == proc.dirty /\ KeepsRegistry(mode) /\ ~hosted

SaveIndex ==
    /\ proc.at = "stamp" /\ proc.todo = {} /\ ~Homeless
    /\ ledger' = IF proc.dirty /\ KeepsRegistry(mode)
                 THEN [live |-> proc.live, retired |-> proc.retired] ELSE ledger
    /\ proc' = [proc EXCEPT !.at = "over", !.dirty = FALSE]
    /\ UNCHANGED <<file, mode, hosted, binned, ended, owner, lost, made, runs>>

-----------------------------------------------------------------------------
Cited(files, i) == \E l \in DOMAIN files : i \in files[l].cites

End(how) ==
    /\ proc' = Off
    /\ ended' = [how |-> how, cmd |-> proc.cmd]
    /\ lost' = lost \cup {i \in DOMAIN proc.live : Cited(file', i) /\ i \notin DOMAIN OpensAs(file').live}
    /\ UNCHANGED <<mode, hosted, ledger, binned, owner, made, runs>>

Finish == proc.at = "over" /\ UNCHANGED file /\ End("done")

\* "the registry changed but no registry document is declared"
SaveFails ==
    /\ proc.at = "stamp" /\ proc.todo = {} /\ Homeless
    /\ UNCHANGED file /\ End("failed")

\* The command cannot be carried out: nothing was changed.
Refuse == proc.at = "op" /\ proc.cmd # "fix" /\ UNCHANGED file /\ End("refused")

\* q where a fix was offered.
Quit == Fixing /\ UNCHANGED file /\ End("quit")

\* A stamp is written over the file it is in, which a kill leaves torn: with
\* nothing of what it said.
Kill ==
    /\ proc.on
    /\ \/ UNCHANGED file
       \/ \E i \in proc.todo :
            /\ proc.live[i] \in DOMAIN file /\ file[proc.live[i]].stamp # i
            /\ file' = [file EXCEPT ![proc.live[i]] = Doc(@.key)]
    /\ End("killed")

\* prov config id_storage, between the two modes with a registry.
SetMode(m) ==
    /\ ~proc.on /\ KeepsRegistry(mode) /\ KeepsRegistry(m) /\ m # mode
    /\ mode' = m /\ ended' = [how |-> "done", cmd |-> "config"]
    /\ UNCHANGED <<file, hosted, ledger, binned, proc, owner, lost, made, runs>>

\* Without a registry people may move documents themselves: "the ID travels
\* with the file".
MoveByHand(l, to) ==
    /\ ~proc.on /\ mode = "frontmatter"
    /\ l \in DOMAIN file /\ to \notin DOMAIN file
    /\ file' = Carried(l, to)
    /\ UNCHANGED <<mode, hosted, ledger, binned, proc, ended, owner, lost, made, runs>>

\* People write links by id themselves, as the command id gives them out.
CiteByHand(l, i) ==
    /\ ~proc.on
    /\ l \in DOMAIN file \cap Out /\ i \in DOMAIN Opened.live /\ i \notin file[l].cites
    /\ file' = [file EXCEPT ![l].cites = @ \cup {i}]
    /\ UNCHANGED <<mode, hosted, ledger, binned, proc, ended, owner, lost, made, runs>>

\* A workspace of one document, or of two that people have written.
Init ==
    /\ \E p, q \in Path :
         /\ file = [l \in {Outside(p), Outside(q)} |-> Doc(IF l = Outside(p) THEN 1 ELSE 2)]
         /\ made = IF p = q THEN 1 ELSE 2
    /\ mode \in Modes /\ hosted = FALSE
    /\ ledger = [live |-> Nowhere, retired |-> {}]
    /\ binned = [p \in {} |-> {}]
    /\ proc = Off /\ ended = [how |-> "none", cmd |-> "none"]
    /\ owner = [i \in {} |-> 0] /\ lost = {} /\ runs = 0

Operation ==
    \/ \E by, l \in Out : New(by, l) \/ Adopt(by, l) \/ FixLink(by, l) \/ Move(by, l)
    \/ \E l \in Out : TakeId(l) \/ Remove(l) \/ FixRegister(l)
    \/ \E p \in Path : Recycle(p) \/ Restore(p)

Next ==
    \/ \E c \in Commands : Start(c)
    \/ EnsureRegistry \/ Open \/ Operation \/ FixesDone \/ Persist
    \/ \E i \in Id : Stamp(i)
    \/ SaveIndex \/ SaveFails \/ Finish \/ Refuse \/ Quit \/ Kill
    \/ \E m \in Modes : SetMode(m)
    \/ \E l, to \in Out : MoveByHand(l, to)
    \/ \E l \in Out, i \in Id : CiteByHand(l, i)

Spec == Init /\ [][Next]_vars

-----------------------------------------------------------------------------
(***************************************************************************)
(* Correctness.                                                            *)
(***************************************************************************)

\* The ids of documents outside the bin.
InUse(live) == Restrict(live, {i \in DOMAIN live : live[i] \in Out})

\* What one command knew the next one knows.  A command that ends hands on
\* every id and every place (the bin's apart: scanned stamps are found there
\* well); one that fails, is killed or quits, every id that somebody cites,
\* but for the three gaps the code has: ids check --fix drew before there was
\* a registry, ids restore drew where there is none, and, in the mode without
\* a registry, ids not stamped yet.
HandsOn ==
    proc.on /\ ~proc'.on =>
        LET unsaved == /\ proc.cmd \in {"fix", "restore"}
                       /\ KeepsRegistry(mode) /\ ~proc.home
            gap(i)  == \/ unsaved
                       \/ ~KeepsRegistry(mode) /\ \A l \in DOMAIN file' : file'[l].stamp # i
        IN  IF ended'.how = "done"
            THEN InUse(Opened'.live) = InUse(proc.live)
            ELSE \A i \in DOMAIN proc.live :
                   Cited(file', i) /\ ~gap(i) =>
                      i \in DOMAIN Opened'.live /\ Opened'.live[i] = proc.live[i]

KeepsIds == [][HandsOn]_vars

\* A link by id leads to the document its id was drawn for, wherever it has
\* been moved, binned or restored, or nowhere once that document is removed;
\* unless the id was lost in one of the gaps of KeepsIds.
LinksLead ==
    ~proc.on =>
        \A l \in DOMAIN file : \A i \in file[l].cites \ lost :
            IF i \in DOMAIN Opened.live
            THEN /\ Opened.live[i] \in DOMAIN file
                 /\ file[Opened.live[i]].key = owner[i]
            ELSE \A k \in DOMAIN file \cap Out : file[k].key # owner[i]

\* A stamp in a document is an id drawn for it, and a command that stamps
\* leaves every document stamped with the id it goes by, also those that a
\* kill had left without ("re-stamped from the registry on any later run").
StampsTrue ==
    /\ \A l \in DOMAIN file :
          file[l].stamp # None => owner[file[l].stamp] = file[l].key
    /\ ~proc.on /\ ended.how = "done" /\ ended.cmd \notin {"fix", "config"} /\ mode = "both" =>
          \A i \in DOMAIN Opened.live :
             Opened.live[i] \in DOMAIN file => file[Opened.live[i]].stamp = i
-----------------------------------------------------------------------------
(***************************************************************************)
(* The inductive invariant: what the ids on record, those in a process and *)
(* the stamps in files know of the documents, and of each other, at every  *)
(* point of a command.                                                     *)
(***************************************************************************)
Place    == Out \cup {InBin(p) : p \in Path}
Document == [key : Nat, stamp : Id \cup {None}, cites : SUBSET Id]
Lives    == UNION {[S -> Place] : S \in SUBSET Id}
Stages   == {"off", "ensure", "open", "op", "reensure", "persist", "stamp", "over"}
Process  == [on : BOOLEAN, cmd : Commands \cup {"none"}, at : Stages, live : Lives,
             retired : SUBSET Id, dirty : BOOLEAN, home : BOOLEAN,
             todo : SUBSET Id, applied : BOOLEAN]

TypeOK ==
    /\ DOMAIN file \subseteq Place /\ file \in [DOMAIN file -> Document]
    /\ mode \in Modes /\ hosted \in BOOLEAN
    /\ ledger \in [live : Lives, retired : SUBSET Id]
    /\ DOMAIN binned \subseteq Path /\ binned \in [DOMAIN binned -> SUBSET Id]
    /\ proc \in Process
    /\ DOMAIN owner \subseteq Id /\ owner \in [DOMAIN owner -> Nat]
    /\ lost \subseteq Id /\ made \in Nat

\* A key is the key of one document, and ids in it have been drawn, its stamp
\* for itself.
FilesInv ==
    /\ \A l, k \in DOMAIN file : file[l].key = file[k].key => l = k
    /\ \A l \in DOMAIN file :
          /\ file[l].key <= made /\ file[l].cites \subseteq DOMAIN owner
          /\ file[l].stamp # None =>
                file[l].stamp \in DOMAIN owner /\ owner[file[l].stamp] = file[l].key
    /\ \A i \in DOMAIN owner : owner[i] <= made

\* The bin's records are of the documents there.  A record has the id of its
\* document, if anybody cites it or it can be scanned.
BinInv ==
    /\ \A p \in Path : p \in DOMAIN binned <=> InBin(p) \in DOMAIN file
    /\ \A p \in DOMAIN binned :
          /\ \A i \in binned[p] : i \in DOMAIN owner /\ owner[i] = file[InBin(p)].key
          /\ \A i, j \in binned[p] : i = j
          /\ mode = "frontmatter" => file[InBin(p)].stamp \in binned[p] \cup {None}
          /\ \A l \in DOMAIN file : \A i \in file[l].cites \ lost :
                owner[i] = file[InBin(p)].key => i \in binned[p]

\* Every id leads to its document, and is the only one that does.
Faithful(live) ==
    /\ \A i \in DOMAIN live :
          /\ i \in DOMAIN owner /\ live[i] \in DOMAIN file
          /\ file[live[i]].key = owner[i]
          /\ \A p \in Path : live[i] = InBin(p) => i \in binned[p]
    /\ \A i, j \in DOMAIN live : live[i] = live[j] => i = j

\* No document that is there and cited, by an id not lost, goes unknown.
Reaches(live) ==
    \A l \in DOMAIN file : \A i \in file[l].cites \ lost :
        i \notin DOMAIN live => \A k \in DOMAIN file \cap Out : file[k].key # owner[i]

Within(live, other) ==
    \A i \in DOMAIN live : i \in DOMAIN other /\ other[i] = live[i]

StampedAs(live, ids) ==
    \A i \in ids : live[i] \in DOMAIN file => file[live[i]].stamp = i

\* Without a registry document there is no record of an id, nor one to keep.
Unhosted ==
    /\ ledger.live = Nowhere
    /\ mode # "frontmatter" => \A p \in DOMAIN binned : binned[p] = {}

\* No process, or one that has not opened the workspace.
Before ==
    /\ proc.live = Nowhere /\ proc.todo = {} /\ ~proc.dirty /\ ~proc.home /\ ~proc.applied
    /\ Reaches(Opened.live)
    /\ proc.at = "ensure" => proc.cmd \in Authors
    /\ proc.at = "open" /\ proc.cmd \in Authors => hosted \/ mode = "frontmatter"
    /\ ~proc.on /\ ended.how = "done" /\ ended.cmd \notin {"fix", "config"} /\ mode = "both" =>
          StampedAs(ledger.live, DOMAIN ledger.live)

\* What it has still to write, with a registry: the ids of TakeId, which
\* nobody cites yet; or those of check --fix before there is one, or those of
\* restore where there is none.
Owing ==
    /\ proc.home => hosted /\ (proc.dirty => proc.cmd = "id" /\ proc.at \in {"persist", "stamp"})
    /\ ~proc.dirty => ledger.live = proc.live
    /\ proc.home /\ proc.dirty =>
          \A l \in DOMAIN file : \A i \in file[l].cites \cap DOMAIN proc.live : i \in DOMAIN ledger.live
    /\ proc.at = "op" /\ hosted => proc.home
    /\ ~proc.home => proc.cmd \notin Authors
    /\ ~proc.home /\ proc.at # "over" => ledger.live = Nowhere
    /\ ~proc.home /\ proc.cmd # "fix" /\ (proc.cmd = "restore" => proc.at = "op") =>
          proc.live = Nowhere /\ ~proc.dirty
    /\ ~proc.home /\ proc.cmd = "fix" /\ proc.at \in {"persist", "stamp"} => hosted

\* What it knows without one: the stamps.
Scanning ==
    /\ ~proc.home
    /\ \A l \in DOMAIN file \cap Out : file[l].stamp # None =>
          file[l].stamp \in DOMAIN proc.live /\ proc.live[file[l].stamp] = l
    /\ proc.at = "over" \/ (proc.at = "op" /\ ~proc.dirty) =>
          StampedAs(proc.live, DOMAIN proc.live)

\* A process at work.
After ==
    /\ Faithful(proc.live) /\ Reaches(proc.live) /\ Within(ledger.live, proc.live)
    /\ proc.todo \subseteq DOMAIN proc.live
    /\ proc.todo # {} => proc.at = "stamp"
    /\ proc.dirty /\ proc.cmd = "fix" => proc.applied
    /\ proc.at = "reensure" => proc.cmd = "fix" /\ proc.dirty
    /\ proc.at = "over" => ~proc.dirty
    /\ proc.at = "stamp" /\ Stamps(mode) =>
          StampedAs(proc.live, DOMAIN proc.live \ proc.todo)
    /\ proc.at = "over" /\ proc.cmd # "fix" /\ Stamps(mode) =>
          StampedAs(proc.live, DOMAIN proc.live)
    /\ mode # "frontmatter" => Owing
    /\ mode = "frontmatter" => Scanning

\* What is on disk, whoever is at work.
Recorded ==
    /\ TypeOK /\ FilesInv /\ BinInv
    /\ Faithful(ledger.live)
    /\ ~hosted => Unhosted
    /\ mode = "frontmatter" => ~hosted

Inv ==
    /\ Recorded
    /\ proc.on <=> proc.at # "off"
    /\ proc.at \in {"off", "ensure", "open"} => Before
    /\ proc.at \notin {"off", "ensure", "open"} => After

=============================================================================
