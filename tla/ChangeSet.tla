----------------------------- MODULE ChangeSet -----------------------------
(***************************************************************************)
(* ChangeSet::apply and journal::recover, run by one prov process at a     *)
(* time against one workspace (prov/src/change.rs, prov/src/journal.rs).   *)
(*                                                                         *)
(* Every filesystem call is a step that may succeed, may fail, and may be  *)
(* the last thing the process did.  What survives a crash is the disk and  *)
(* the journal; the process's own state (set, next, undo, failed) is lost. *)
(***************************************************************************)
EXTENDS FileOps

CONSTANTS
    ChangeSets,          \* the sets mutations stage
    Outside,             \* paths that resolve outside the workspace root
    NoJournal,           \* there is no journal file
    TornJournal,         \* the journal file does not decode
    AtomicReplace,       \* Capabilities::atomic_replace of the backend
    DestinationsGuarded, \* mutations refuse a move onto an existing file
    EditsWhilePending    \* people edit files while a journal is pending

ASSUME SetsAssumption ==
    /\ ChangeSets \subseteq Seq(FileOp)
    /\ NoJournal \notin ChangeSets
    /\ TornJournal \notin ChangeSets
    /\ NoJournal # TornJournal
    /\ Outside \subseteq Path
    /\ {AtomicReplace, DestinationsGuarded, EditsWhilePending} \subseteq BOOLEAN

VARIABLES
    disk,     \* the documents
    journal,  \* the file JOURNAL_NAME: a set, torn, or absent
    pc,       \* what the process is doing
    set,      \* the ops it is doing it with
    next,     \* the index of the op it is at
    undo,     \* apply's undo log, oldest first
    failed,   \* some undo step failed
    outcome,  \* what the last call to return has returned
    before    \* history: the disk when the journal was last written

vars == <<disk, journal, pc, set, next, undo, failed, outcome, before>>
memory == <<set, next, undo, failed>>

Undo ==
         [kind : {"restore"}, path : Path, bytes : File \ {Absent}]
    \cup [kind : {"delete"}, path : Path]
    \cup [kind : {"rename"}, from : Path, to : Path]

Outcomes == {"none", "nothing", "ok", "escape", "stale", "error",
             "uncleared", "torn", "crashed", "recovered", "unrecovered"}

TypeOK ==
    /\ disk \in Disk
    /\ journal \in ChangeSets \cup {NoJournal, TornJournal}
    /\ pc \in {"idle", "exec", "unwind", "replay"}
    /\ set \in ChangeSets \cup {<< >>}
    /\ next \in Nat \ {0}
    /\ undo \in Seq(Undo)
    /\ failed \in BOOLEAN
    /\ outcome \in Outcomes
    /\ before \in Disk

Init ==
    /\ disk \in [Path -> Whole]
    /\ journal = NoJournal
    /\ pc = "idle"
    /\ set = << >> /\ next = 1 /\ undo = << >> /\ failed = FALSE
    /\ outcome = "none"
    /\ before = disk

Pending == journal # NoJournal
Op == set[next]

AllDone == next > Len(set)

-----------------------------------------------------------------------------
(* What a write that did not report success may have left at its target.   *)

\* write_atomic: the target is untouched, or already replaced when the last
\* sync failed; without an atomic rename it is a plain write.
AtomicResidue(old, new) ==
    {old, new} \cup IF AtomicReplace THEN {} ELSE {Partial}

\* Storage::write truncates and writes in place.
PlainResidue(old, new) == {old, new, Partial}

-----------------------------------------------------------------------------
(* apply, up to its commit point.                                          *)

\* The process ends, or its call returns; set keeps, as history, the ops of
\* the last call that got past the commit point.
Leave(o) ==
    /\ pc' = "idle"
    /\ outcome' = o
    /\ next' = 1 /\ undo' = << >> /\ failed' = FALSE
    /\ UNCHANGED set

\* Mutant: only the source of a rename is clamped to the root.
InRootSources(ops) ==
    \A i \in DOMAIN ops :
        (IF IsRename(ops[i]) THEN ops[i].from ELSE ops[i].path) \notin Outside

InRoot(ops) ==
    \A i \in DOMAIN ops : \A p \in Outside : ~Touches(ops[i], p)

\* A mutation has read the workspace and staged ops; it commits the set.
Staged(ops) ==
    /\ pc = "idle"
    /\ ops \in ChangeSets
    /\ SourcesExist(ops, disk)
    /\ DestinationsGuarded => DestinationsFree(ops, disk)

ApplyEmpty(ops) ==
    /\ Staged(ops) /\ ops = << >>
    /\ Leave("nothing")
    /\ UNCHANGED <<disk, journal, before>>

RefuseEscape(ops) ==
    /\ Staged(ops) /\ ops # << >> /\ ~InRoot(ops)
    /\ Leave("escape")
    /\ UNCHANGED <<disk, journal, before>>

RefuseStale(ops) ==
    /\ Staged(ops) /\ ops # << >> /\ InRoot(ops) /\ Pending
    /\ Leave("stale")
    /\ UNCHANGED <<disk, journal, before>>

MayJournal(ops) ==
    Staged(ops) /\ ops # << >> /\ InRoot(ops) /\ ~Pending

\* The commit point: write_atomic of the encoded set.
WriteJournal(ops) ==
    /\ MayJournal(ops)
    /\ journal' = ops
    /\ pc' = "exec" /\ set' = ops /\ next' = 1
    /\ undo' = << >> /\ failed' = FALSE
    /\ outcome' = "none"
    /\ before' = disk
    /\ UNCHANGED disk

\* Mutant: apply goes on when the journal could not be written.
JournalUnwrittenIgnored(ops) ==
    /\ MayJournal(ops)
    /\ journal' \in {NoJournal, ops} \cup IF AtomicReplace THEN {} ELSE {TornJournal}
    /\ pc' = "exec" /\ set' = ops /\ next' = 1
    /\ undo' = << >> /\ failed' = FALSE
    /\ outcome' = "none"
    /\ before' = disk
    /\ UNCHANGED disk

\* write_atomic reports an error (or the process dies in it); apply returns.
JournalUnwritten(ops) ==
    /\ MayJournal(ops)
    /\ journal' \in {NoJournal, ops} \cup IF AtomicReplace THEN {} ELSE {TornJournal}
    /\ before' = disk
    /\ \E o \in {"error", "crashed"} : Leave(o)
    /\ UNCHANGED disk

-----------------------------------------------------------------------------
(* apply's loop: exec each op, recording how to reverse it.                *)

Executing == pc = "exec" /\ ~AllDone
Replaying == pc = "replay" /\ ~AllDone

\* Mutant: a move is undone by deleting what it moved.
UndoOfDeletes(op, d) ==
    IF IsRename(op) \/ d[op.path] = Absent
    THEN [kind |-> "delete",
          path |-> IF IsRename(op) THEN op.to ELSE op.path]
    ELSE [kind |-> "restore", path |-> op.path, bytes |-> d[op.path]]

UndoOf(op, d) ==
    CASE IsWrite(op) /\ d[op.path] = Absent ->
            [kind |-> "delete", path |-> op.path]
      [] IsRename(op) ->
            [kind |-> "rename", from |-> op.to, to |-> op.from]
      [] OTHER ->
            [kind |-> "restore", path |-> op.path, bytes |-> d[op.path]]

Exec ==
    /\ Executing /\ Possible(Op, disk)
    /\ disk' = Effect(Op, disk)
    /\ undo' = Append(undo, UndoOf(Op, disk))
    /\ next' = next + 1
    /\ UNCHANGED <<journal, pc, set, failed, outcome, before>>

\* The op fails having changed nothing and recorded nothing.
StartUnwind ==
    /\ pc' = "unwind"
    /\ UNCHANGED <<disk, journal, memory, outcome, before>>

ExecImpossible == Executing /\ ~Possible(Op, disk) /\ StartUnwind
ExecFails      == Executing /\ Possible(Op, disk) /\ StartUnwind

\* Mutant: the undo of a write is recorded only once it has succeeded.
ExecWriteFailsUnrecorded ==
    /\ Executing /\ IsWrite(Op)
    /\ \E c \in AtomicResidue(disk[Op.path], Op.bytes) :
            disk' = [disk EXCEPT ![Op.path] = c]
    /\ pc' = "unwind"
    /\ UNCHANGED <<journal, set, next, undo, failed, outcome, before>>

\* A write fails after its undo was recorded.
ExecWriteFails ==
    /\ Executing /\ IsWrite(Op)
    /\ \E c \in AtomicResidue(disk[Op.path], Op.bytes) :
            disk' = [disk EXCEPT ![Op.path] = c]
    /\ undo' = Append(undo, UndoOf(Op, disk))
    /\ pc' = "unwind"
    /\ UNCHANGED <<journal, set, next, failed, outcome, before>>

\* Every op landed; the journal is dropped.
Finish ==
    /\ pc = "exec" /\ AllDone
    /\ journal' = NoJournal
    /\ Leave("ok")
    /\ UNCHANGED <<disk, before>>

\* Dropping it fails: apply reports an error for a set that landed.
FinishFails ==
    /\ pc = "exec" /\ AllDone
    /\ Leave("uncleared")
    /\ UNCHANGED <<disk, journal, before>>

-----------------------------------------------------------------------------
(* unwind: reverse what was done, newest first, past any failure.          *)

Unwinding == pc = "unwind" /\ undo # << >>
Step == undo[Len(undo)]
Rest == SubSeq(undo, 1, Len(undo) - 1)

Unwind ==
    /\ Unwinding
    /\ \/ /\ Step.kind = "restore"
          /\ disk' = [disk EXCEPT ![Step.path] = Step.bytes]
       \/ /\ Step.kind = "delete"
          /\ disk' = [disk EXCEPT ![Step.path] = Absent]
       \/ /\ Step.kind = "rename"
          /\ disk[Step.from] # Absent
          /\ disk' = Effect(Rename(Step.from, Step.to), disk)
    /\ undo' = Rest
    /\ UNCHANGED <<journal, pc, set, next, failed, outcome, before>>

\* Mutant: a failure to undo is not reported.
UnwindFailsUnnoticed ==
    /\ Unwinding
    /\ undo' = Rest
    /\ UNCHANGED <<disk, journal, pc, set, next, failed, outcome, before>>

UnwindFails ==
    /\ Unwinding
    /\ IF Step.kind = "restore"
       THEN \E c \in PlainResidue(disk[Step.path], Step.bytes) :
                disk' = [disk EXCEPT ![Step.path] = c]
       ELSE disk' = disk
    /\ undo' = Rest
    /\ failed' = TRUE
    /\ UNCHANGED <<journal, pc, set, next, outcome, before>>

Unwound == pc = "unwind" /\ undo = << >>

\* Cleanly reverted: the journal must go, or recovery would redo the set.
Abort ==
    /\ Unwound /\ ~failed
    /\ journal' = NoJournal
    /\ Leave("error")
    /\ UNCHANGED <<disk, before>>

\* Error::Torn: the revert failed, so the journal is kept.
Torn ==
    /\ Unwound /\ failed
    /\ Leave("torn")
    /\ UNCHANGED <<disk, journal, before>>

\* Error::Torn: the revert worked, dropping the journal did not.
AbortFails ==
    /\ Unwound /\ ~failed
    /\ Leave("torn")
    /\ UNCHANGED <<disk, journal, before>>

\* What the disk may hold if the process dies now: as it is, or with the
\* write in progress half done.
HalfDone ==
    {disk} \cup
    IF (Executing \/ Replaying) /\ IsWrite(Op)
    THEN {[disk EXCEPT ![Op.path] = c] :
             c \in AtomicResidue(disk[Op.path], Op.bytes)}
    ELSE IF Unwinding /\ Step.kind = "restore"
    THEN {[disk EXCEPT ![Step.path] = c] :
             c \in PlainResidue(disk[Step.path], Step.bytes)}
    ELSE {}

-----------------------------------------------------------------------------
(* recover, which `prov check` runs: replay the journal from its start.    *)

Recover ==
    /\ pc = "idle" /\ journal \in ChangeSets
    /\ pc' = "replay" /\ set' = journal /\ next' = 1
    /\ undo' = << >> /\ failed' = FALSE
    /\ UNCHANGED <<disk, journal, outcome, before>>

\* The journal does not decode: refused loudly, left in place.
RecoverCorrupt ==
    /\ pc = "idle" /\ journal = TornJournal
    /\ Leave("unrecovered")
    /\ UNCHANGED <<disk, journal, before>>

\* The journal cannot be read.
RecoverUnread ==
    /\ pc = "idle" /\ journal \in ChangeSets
    /\ Leave("unrecovered")
    /\ UNCHANGED <<disk, journal, before>>

\* A rename is recognised by state: done, or to do, or beyond repair.
Moved(op, d) == IsRename(op) /\ d[op.from] = Absent /\ d[op.to] # Absent
Stuck(op, d) == IsRename(op) /\ d[op.from] = Absent /\ d[op.to] = Absent

\* Mutant: replay renames without looking.
ReplayBlind ==
    /\ Replaying
    /\ disk' = Effect(Op, disk)
    /\ next' = next + 1
    /\ UNCHANGED <<journal, pc, set, undo, failed, outcome, before>>

Replay ==
    /\ Replaying /\ ~Stuck(Op, disk)
    /\ disk' = IF Moved(Op, disk) THEN disk ELSE Effect(Op, disk)
    /\ next' = next + 1
    /\ UNCHANGED <<journal, pc, set, undo, failed, outcome, before>>

\* An op fails, or is beyond repair: recover returns, the journal stays.
ReplayFails ==
    /\ Replaying
    /\ disk' \in HalfDone
    /\ Leave("unrecovered")
    /\ UNCHANGED <<journal, before>>

\* Mutant: recovery forgets to remove the journal.
ReplayDoneKeeps ==
    /\ pc = "replay" /\ AllDone
    /\ Leave("recovered")
    /\ UNCHANGED <<disk, journal, before>>

ReplayDone ==
    /\ pc = "replay" /\ AllDone
    /\ journal' = NoJournal
    /\ Leave("recovered")
    /\ UNCHANGED <<disk, before>>

ReplayUncleared ==
    /\ pc = "replay" /\ AllDone
    /\ Leave("unrecovered")
    /\ UNCHANGED <<disk, journal, before>>

-----------------------------------------------------------------------------
(* The environment.                                                        *)

Crash ==
    /\ pc # "idle"
    /\ disk' \in HalfDone
    /\ Leave("crashed")
    /\ UNCHANGED <<journal, before>>

\* Somebody saves or deletes a file between two runs of prov.
Edit ==
    /\ pc = "idle"
    /\ Pending => EditsWhilePending
    /\ \E p \in Path \ Outside, c \in Whole : disk' = [disk EXCEPT ![p] = c]
    /\ outcome' = IF Pending THEN outcome ELSE "none"
    /\ UNCHANGED <<journal, pc, memory, before>>

-----------------------------------------------------------------------------
\* Steps in which the filesystem does what it is asked.
Progress ==
    \/ Exec \/ ExecImpossible \/ Finish
    \/ Unwind \/ Abort \/ Torn
    \/ Recover \/ RecoverCorrupt \/ Replay \/ ReplayDone

\* Faults of the filesystem and of the machine.
Fault ==
    \/ ExecFails \/ ExecWriteFails \/ FinishFails
    \/ UnwindFails \/ AbortFails
    \/ ReplayFails \/ ReplayUncleared
    \/ RecoverUnread
    \/ Crash

Begin(ops) ==
    \/ ApplyEmpty(ops) \/ RefuseEscape(ops) \/ RefuseStale(ops)
    \/ WriteJournal(ops) \/ JournalUnwritten(ops)

Next ==
    \/ \E ops \in ChangeSets : Begin(ops)
    \/ Progress
    \/ Fault
    \/ Edit

Spec == Init /\ [][Next]_vars

\* A prov process runs on, and somebody runs `prov check` while a journal
\* is pending.
FairSpec == Spec /\ WF_vars(Progress)

-----------------------------------------------------------------------------
(* Properties.                                                             *)

\* A change is pending, and its journal is whole.
InFlight == journal \in ChangeSets

\* What readers of a workspace at rest may rely on: while a journal is
\* pending the change has not happened yet.
Store == IF Pending THEN before ELSE disk

A == INSTANCE AtomicChange WITH store <- Store

\* "Either the whole set lands or the workspace is as it was" (change.rs):
\* seen through its journal, the workspace changes by whole sets only.
Atomic == A!Spec

\* What a call reports is what it did: after a success or a recovery the set
\* has landed and its journal is gone, an error that left no journal changed
\* nothing, and a torn change keeps the journal that will finish it.
OutcomeIsTrue ==
    pc = "idle" =>
        /\ outcome \in {"ok", "recovered"} =>
                ~Pending /\ Lands(set, before, disk)
        /\ outcome = "error" /\ ~Pending => disk = before
        /\ outcome = "torn" => journal = set

\* "On an error every op already applied is unwound in reverse, the workspace
\* is restored to what it was, and the journal is cleared" (change.rs).  The
\* code does not keep this (README, divergences).
ErrorMeansAborted ==
    pc = "idle" /\ outcome \in {"error", "uncleared"} =>
        ~Pending /\ disk = before

\* "If this delete fails, a later recovery re-applies the set idempotently and
\* clears it -- harmless" (change.rs): that recovery overwrites nothing but
\* what the set found or wrote.  The code does not keep this.
Own ==
    {Absent, Partial}
    \cup {before[p] : p \in {q \in Path : \E i \in DOMAIN set : Touches(set[i], q)}}
    \cup {set[i].bytes : i \in {j \in DOMAIN set : IsWrite(set[j])}}
RecoveryHarmless ==
    [][pc = "replay" /\ outcome = "uncleared" =>
         \A p \in Path : disk'[p] # disk[p] => disk[p] \in Own]_vars

\* A document a pending change moves is never lost on the way.  Its bytes are
\* at exactly one end of the move, or, when the set also rewrites it where it
\* goes, a file is at one end at least.
MovesSurvive == InFlight => AllMovesSurvive(journal, before, disk)

\* Replay never meets a rename both of whose ends are missing: the state
\* journal.rs says "no honest interruption of this set can produce".
ReplayNeverStuck == Replaying => ~Stuck(Op, disk)

\* A journal that does not decode guards a workspace nothing has touched.
TornJournalUntouched == journal = TornJournal => disk = before

\* No path outside the root is ever touched, by apply, unwind or replay.
StaysInRoot == [][\A p \in Outside : disk'[p] = disk[p]]_vars

\* If faults cease, every pending change is settled: applied, aborted or rolled
\* forward, and its journal removed.
Calm == <>[][~Fault /\ ~\E ops \in ChangeSets : JournalUnwritten(ops)]_vars
Settles == Calm => (InFlight ~> ~Pending)

-----------------------------------------------------------------------------
(* The inductive invariant behind Atomic, for replay-safe sets.            *)

\* A running process is working through the journaled set.
WorksOnJournal ==
    pc # "idle" => InFlight /\ set = journal /\ next <= Len(set) + 1

\* The set was journaled over sources that exist and destinations that do not.
JournaledOverStaged ==
    InFlight => SourcesExist(journal, before) /\ DestinationsFree(journal, before)

\* Only paths of the set differ from what it found.
OthersUntouched == InFlight => OthersKept(journal, before, disk)

\* u reverses the k-th op, which found what the ops before it leave.
Reverses(k, u) ==
    LET op == set[k]
    IN  IF IsRename(op)
        THEN u.kind = "rename" /\ u.from = op.to /\ u.to = op.from
        ELSE /\ u.path = op.path
             /\ \/ /\ u.kind = "restore"
                   /\ ValueAt(set, k - 1, before, op.path, u.bytes)
                \/ /\ u.kind = "delete"
                   /\ ValueAt(set, k - 1, before, op.path, Absent)
                   /\ \A i \in DOMAIN set : IsRename(set[i]) => set[i].to # op.path
UndoReverses ==
    pc \in {"exec", "unwind"} =>
        Len(undo) <= Len(set) /\ \A k \in 1..Len(undo) : Reverses(k, undo[k])

ExecInv ==
    pc = "exec" =>
        /\ Len(undo) = next - 1
        /\ ~failed
        /\ LandsTo(set, next - 1, before, disk)

\* Until an undo step fails, the disk is what the ops still to be undone make
\* of the disk they found, but perhaps where the newest of them writes.
UnwindInv ==
    pc = "unwind" /\ ~failed =>
        \A p \in Path :
            \/ ValueAt(set, Len(undo), before, p, disk[p])
            \/ /\ undo # << >>
               /\ IsWrite(set[Len(undo)]) /\ set[Len(undo)].path = p

\* What replay has done so far is final, but where a move's destination is
\* still to be rewritten.
ReplayInv ==
    pc = "replay" =>
        \A p \in Path : \A i \in 1..(next - 1) :
            LastTouch(set, next - 1, i, p) =>
                \/ disk[p] = LeftAt(set[i], p, before)
                \/ /\ IsRename(set[i]) /\ p = set[i].to
                   /\ \E j \in next..Len(set) : IsWrite(set[j]) /\ set[j].path = p

\* The journal on disk was clamped before it was written.
JournalInRoot == InFlight => InRoot(journal)

Inv ==
    /\ TypeOK
    /\ WorksOnJournal
    /\ TornJournalUntouched
    /\ JournaledOverStaged
    /\ OthersUntouched
    /\ MovesSurvive
    /\ UndoReverses
    /\ ExecInv
    /\ UnwindInv
    /\ ReplayInv

=============================================================================
