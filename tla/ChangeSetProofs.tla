-------------------------- MODULE ChangeSetProofs --------------------------
(***************************************************************************)
(* What ChangeSet guarantees for every workspace, every set of change sets *)
(* and every backend: its type invariant, and, when the sets are replay-   *)
(* safe, their moves guarded and nobody edits under a pending journal,     *)
(* that a change is atomic.  What the operators of FileOps compute for     *)
(* every set of ops comes first: the values a prefix of a set leaves, and  *)
(* what its steps, its replay and its undo keep of the files it moves.     *)
(***************************************************************************)
EXTENDS ChangeSet, SequenceTheorems, TLAPS

-----------------------------------------------------------------------------
(* Facts about ops.                                                        *)

\* The three kinds of op, and what each carries.
LEMMA OpKinds ==
    ASSUME NEW op \in FileOp
    PROVE  /\ IsWrite(op) \/ IsRename(op) \/ IsRemove(op)
           /\ ~(IsWrite(op) /\ IsRename(op))
           /\ ~(IsWrite(op) /\ IsRemove(op))
           /\ ~(IsRename(op) /\ IsRemove(op))
           /\ IsWrite(op) => op.path \in Path /\ op.bytes \in Bytes
           /\ IsRemove(op) => op.path \in Path
           /\ IsRename(op) => op.from \in Path /\ op.to \in Path /\ op.from # op.to
  BY DEF FileOp, IsWrite, IsRename, IsRemove

\* An op changes the paths it touches, as follows, and no other.
LEMMA EffectFacts ==
    ASSUME NEW op \in FileOp, NEW d \in Disk
    PROVE  /\ Effect(op, d) \in Disk
           /\ \A p \in Path : ~Touches(op, p) => Effect(op, d)[p] = d[p]
           /\ IsWrite(op) => Effect(op, d)[op.path] = op.bytes
           /\ IsRemove(op) => Effect(op, d)[op.path] = Absent
           /\ IsRename(op) => /\ Effect(op, d)[op.from] = Absent
                              /\ Effect(op, d)[op.to] = d[op.from]
  <1>1. CASE IsWrite(op)
    <2>1. Effect(op, d) = [d EXCEPT ![op.path] = op.bytes]
      BY <1>1, OpKinds DEF Effect
    <2>2. QED
      BY <1>1, <2>1, OpKinds DEF Disk, File, Whole, Touches
  <1>2. CASE IsRename(op)
    <2>1. Effect(op, d) = [d EXCEPT ![op.to] = d[op.from], ![op.from] = Absent]
      BY <1>2, OpKinds DEF Effect
    <2>2. QED
      BY <1>2, <2>1, OpKinds DEF Disk, File, Whole, Touches
  <1>3. CASE IsRemove(op)
    <2>1. Effect(op, d) = [d EXCEPT ![op.path] = Absent]
      BY <1>3, OpKinds DEF Effect
    <2>2. QED
      BY <1>3, <2>1, OpKinds DEF Disk, File, Whole, Touches
  <1>4. QED
    BY <1>1, <1>2, <1>3, OpKinds

\* What moving p to q does.
LEMMA MoveEffect ==
    ASSUME NEW p, NEW q, NEW d
    PROVE  Effect(Rename(p, q), d) = [d EXCEPT ![q] = d[p], ![p] = Absent]
  <1>1. /\ IsRename(Rename(p, q))
        /\ ~IsWrite(Rename(p, q))
        /\ ~IsRemove(Rename(p, q))
    BY DEF Rename, IsRename, IsWrite, IsRemove
  <1>2. Rename(p, q).from = p /\ Rename(p, q).to = q
    BY DEF Rename
  <1>3. QED
    BY <1>1, <1>2 DEF Effect

-----------------------------------------------------------------------------
(* What a prefix of a set leaves at a path.                                *)

\* An op that does not touch p adds nothing to what is left there.
LEMMA ValueUntouched ==
    ASSUME NEW ops \in Seq(FileOp), NEW k \in 1..Len(ops), NEW d, NEW p, NEW v,
           ~Touches(ops[k], p)
    PROVE  ValueAt(ops, k, d, p, v) <=> ValueAt(ops, k - 1, d, p, v)
  <1>1. (\A i \in 1..k : ~Touches(ops[i], p)) <=> (\A i \in 1..(k-1) : ~Touches(ops[i], p))
    <2>1. \A i \in 1..k : i = k \/ i \in 1..(k-1)
      OBVIOUS
    <2>2. \A i \in 1..(k-1) : i \in 1..k
      OBVIOUS
    <2>3. QED
      BY <2>1, <2>2
  <1>2. \A i : LastTouch(ops, k, i, p) <=> LastTouch(ops, k - 1, i, p)
    <2> SUFFICES ASSUME NEW i
                 PROVE LastTouch(ops, k, i, p) <=> LastTouch(ops, k - 1, i, p)
      OBVIOUS
    <2>1. CASE i \in 1..k
      <3>1. (i # k) <=> (i \in 1..(k-1))
        BY <2>1
      <3>2. ASSUME i # k
            PROVE  (\A j \in (i+1)..k : ~Touches(ops[j], p))
                     <=> (\A j \in (i+1)..(k-1) : ~Touches(ops[j], p))
        <4>1. \A j \in (i+1)..k : j = k \/ j \in (i+1)..(k-1)
          BY <2>1
        <4>2. \A j \in (i+1)..(k-1) : j \in (i+1)..k
          BY <2>1
        <4>3. QED
          BY <4>1, <4>2
      <3>3. QED
        BY <2>1, <3>1, <3>2 DEF LastTouch
    <2>2. CASE i \notin 1..k
      BY <2>2 DEF LastTouch
    <2>3. QED
      BY <2>1, <2>2
  <1>3. \A i : LastTouch(ops, k, i, p) => i \in 1..k
    BY DEF LastTouch
  <1>4. \A i : LastTouch(ops, k - 1, i, p) => i \in 1..(k-1)
    BY DEF LastTouch
  <1>5. QED
    BY <1>1, <1>2, <1>3, <1>4 DEF ValueAt

\* An op that touches p decides what is left there.
LEMMA ValueTouched ==
    ASSUME NEW ops \in Seq(FileOp), NEW k \in 1..Len(ops), NEW d, NEW p, NEW v,
           Touches(ops[k], p)
    PROVE  ValueAt(ops, k, d, p, v) <=> v = LeftAt(ops[k], p, d)
  <1>1. LastTouch(ops, k, k, p)
    BY DEF LastTouch
  <1>2. \A i \in 1..k : LastTouch(ops, k, i, p) => i = k
    BY DEF LastTouch
  <1>3. k \in 1..k
    OBVIOUS
  <1>4. QED
    BY <1>1, <1>2, <1>3 DEF ValueAt

\* Where nothing was touched, what is left is what was found.
LEMMA ValueFound ==
    ASSUME NEW ops, NEW k, NEW d, NEW p, NEW v,
           \A i \in 1..k : ~Touches(ops[i], p)
    PROVE  ValueAt(ops, k, d, p, v) <=> v = d[p]
  BY DEF ValueAt, LastTouch

\* In a replay-safe set the source of a move belongs to that move alone, and
\* nothing before the move touches its destination.
LEMMA MoveAlone ==
    ASSUME NEW ops \in Seq(FileOp), ReplaySafe(ops),
           NEW n \in DOMAIN ops, IsRename(ops[n])
    PROVE  /\ \A i \in DOMAIN ops : i # n => ~Touches(ops[i], ops[n].from)
           /\ \A i \in DOMAIN ops : i # n /\ Touches(ops[i], ops[n].to) =>
                                        i > n /\ IsWrite(ops[i])
  BY DEF ReplaySafe

\* Running the next op of a replay-safe set lands the longer prefix.
LEMMA LandsStep ==
    ASSUME NEW ops \in Seq(FileOp), ReplaySafe(ops), NEW k \in 1..Len(ops),
           NEW d \in Disk, NEW e \in Disk, LandsTo(ops, k - 1, d, e)
    PROVE  LandsTo(ops, k, d, Effect(ops[k], e))
  <1> DEFINE f == Effect(ops[k], e)
  <1> SUFFICES ASSUME NEW p \in Path PROVE ValueAt(ops, k, d, p, f[p])
    BY DEF LandsTo
  <1>1. ops[k] \in FileOp /\ k \in DOMAIN ops
    OBVIOUS
  <1>2. ValueAt(ops, k - 1, d, p, e[p])
    BY DEF LandsTo
  <1>3. CASE ~Touches(ops[k], p)
    <2>1. f[p] = e[p]
      BY <1>1, <1>3, EffectFacts
    <2>2. QED
      BY <1>2, <1>3, <2>1, ValueUntouched
  <1>4. CASE Touches(ops[k], p)
    <2> SUFFICES f[p] = LeftAt(ops[k], p, d)
      BY <1>4, ValueTouched
    <2>1. CASE IsWrite(ops[k])
      BY <1>1, <1>4, <2>1, OpKinds, EffectFacts DEF LeftAt, Touches
    <2>2. CASE IsRemove(ops[k])
      BY <1>1, <1>4, <2>2, OpKinds, EffectFacts DEF LeftAt, Touches
    <2>3. CASE IsRename(ops[k])
      <3>1. \A i \in 1..(k-1) : ~Touches(ops[i], ops[k].from)
        BY <1>1, <2>3, MoveAlone
      <3>2. e[ops[k].from] = d[ops[k].from]
        BY <1>1, <2>3, <3>1, OpKinds, ValueFound DEF LandsTo
      <3>3. QED
        BY <1>1, <1>4, <2>3, <3>2, OpKinds, EffectFacts DEF LeftAt, Touches
    <2>4. QED
      BY <1>1, <2>1, <2>2, <2>3, OpKinds
  <1>5. QED
    BY <1>3, <1>4

-----------------------------------------------------------------------------
(* What the steps of a set keep of the files it moves and of the others.   *)

\* Both, as one: d is a workspace some steps of ops have made of b.
Kept(ops, b, d) == AllMovesSurvive(ops, b, d) /\ OthersKept(ops, b, d)

\* A set that has done nothing yet has lost nothing.
LEMMA KeptAtFirst ==
    ASSUME NEW ops \in Seq(FileOp), NEW d \in Disk,
           SourcesExist(ops, d), DestinationsFree(ops, d)
    PROVE  Kept(ops, d, d)
  BY DEF Kept, AllMovesSurvive, MoveSurvives, OthersKept, SourcesExist,
         DestinationsFree

\* Rewriting, removing or half-writing the target of a write or a remove: only
\* a move's destination could lose by it, and there a file is left.
LEMMA KeptByWrite ==
    ASSUME NEW ops \in Seq(FileOp), ReplaySafe(ops), NEW n \in DOMAIN ops,
           ~IsRename(ops[n]), NEW b \in Disk, NEW d \in Disk, NEW c \in File,
           Kept(ops, b, d),
           \/ c = d[ops[n].path]
           \/ c # Absent
           \/ \A i \in DOMAIN ops : IsRename(ops[i]) => ops[i].to # ops[n].path
    PROVE  Kept(ops, b, [d EXCEPT ![ops[n].path] = c])
  <1> DEFINE q == ops[n].path
             e == [d EXCEPT ![q] = c]
  <1>1. ops[n] \in FileOp /\ q \in Path /\ Touches(ops[n], q)
    BY OpKinds DEF Touches
  <1>2. e[q] = c /\ \A p \in Path : p # q => e[p] = d[p]
    BY <1>1 DEF Disk
  <1>3. OthersKept(ops, b, e)
    BY <1>1, <1>2 DEF Kept, OthersKept
  <1>4. ASSUME NEW i \in DOMAIN ops, IsRename(ops[i])
        PROVE  MoveSurvives(ops, ops[i], b, e)
    <2>1. ops[i] \in FileOp /\ ops[i].from \in Path /\ ops[i].to \in Path
      BY <1>4, OpKinds
    <2>2. MoveSurvives(ops, ops[i], b, d)
      BY <1>4 DEF Kept, AllMovesSurvive
    <2>3. e[ops[i].from] = d[ops[i].from]
      BY <1>1, <1>2, <1>4, <2>1, MoveAlone
    <2>4. CASE q = ops[i].to
      <3>1. Rewritten(ops, ops[i].to)
        BY <1>1, <1>4, <2>4, MoveAlone DEF Rewritten
      <3>2. c = d[q] \/ c # Absent
        BY <1>4, <2>4
      <3>3. QED
        BY <1>2, <2>2, <2>3, <2>4, <3>1, <3>2 DEF MoveSurvives
    <2>5. CASE q # ops[i].to
      BY <1>2, <2>1, <2>2, <2>3, <2>5 DEF MoveSurvives
    <2>6. QED
      BY <2>4, <2>5
  <1>5. QED
    BY <1>3, <1>4 DEF Kept, AllMovesSurvive

\* Running a move that is still to do, or reversing one that was done.
LEMMA KeptByMove ==
    ASSUME NEW ops \in Seq(FileOp), ReplaySafe(ops), NEW n \in DOMAIN ops,
           IsRename(ops[n]), NEW b \in Disk, NEW d \in Disk, NEW p, NEW q,
           \/ p = ops[n].from /\ q = ops[n].to
           \/ p = ops[n].to /\ q = ops[n].from,
           d[p] # Absent,
           SourcesExist(ops, b), Kept(ops, b, d)
    PROVE  Kept(ops, b, [d EXCEPT ![q] = d[p], ![p] = Absent])
  <1> DEFINE e == [d EXCEPT ![q] = d[p], ![p] = Absent]
             op == ops[n]
  <1>1. /\ op \in FileOp
        /\ op.from \in Path /\ op.to \in Path /\ op.from # op.to
        /\ p \in Path /\ q \in Path /\ p # q
    BY OpKinds
  <1>2. /\ e[p] = Absent /\ e[q] = d[p]
        /\ \A r \in Path : r # op.from /\ r # op.to => e[r] = d[r]
    BY <1>1 DEF Disk
  <1>3. OthersKept(ops, b, e)
    BY <1>1, <1>2 DEF Kept, OthersKept, Touches
  <1>4. ASSUME NEW i \in DOMAIN ops, IsRename(ops[i])
        PROVE  MoveSurvives(ops, ops[i], b, e)
    <2>1. MoveSurvives(ops, ops[i], b, d) /\ b[ops[i].from] # Absent
      BY <1>4 DEF Kept, AllMovesSurvive, SourcesExist
    <2>2. CASE i = n
      <3>1. CASE Rewritten(ops, op.to)
        BY <1>1, <1>2, <2>2, <3>1 DEF MoveSurvives
      <3>2. CASE ~Rewritten(ops, op.to)
        <4>1. d[p] = b[op.from] /\ d[q] = Absent
          BY <1>1, <2>1, <2>2, <3>2 DEF MoveSurvives
        <4>2. QED
          BY <1>1, <1>2, <2>2, <3>2, <4>1 DEF MoveSurvives
      <3>3. QED
        BY <3>1, <3>2
    <2>3. CASE i # n
      <3>1. ops[i] \in FileOp /\ ops[i].from \in Path /\ ops[i].to \in Path
        BY <1>4, OpKinds
      <3>2. ~Touches(op, ops[i].from)
        BY <1>4, <2>3, MoveAlone
      <3>3. ~Touches(op, ops[i].to)
        BY <1>1, <1>4, <2>3, MoveAlone, OpKinds
      <3>4. e[ops[i].from] = d[ops[i].from] /\ e[ops[i].to] = d[ops[i].to]
        BY <1>2, <3>1, <3>2, <3>3 DEF Touches
      <3>5. QED
        BY <2>1, <3>4 DEF MoveSurvives
    <2>4. QED
      BY <2>2, <2>3
  <1>5. QED
    BY <1>3, <1>4 DEF Kept, AllMovesSurvive

\* Running any op whose file is there.
LEMMA KeptByEffect ==
    ASSUME NEW ops \in Seq(FileOp), ReplaySafe(ops), NEW n \in DOMAIN ops,
           NEW b \in Disk, NEW d \in Disk,
           IsRename(ops[n]) => d[ops[n].from] # Absent,
           SourcesExist(ops, b), Kept(ops, b, d)
    PROVE  Kept(ops, b, Effect(ops[n], d))
  <1>1. ops[n] \in FileOp
    OBVIOUS
  <1>2. CASE IsWrite(ops[n])
    <2>1. Effect(ops[n], d) = [d EXCEPT ![ops[n].path] = ops[n].bytes]
      BY <1>1, <1>2, OpKinds DEF Effect
    <2>2. ops[n].bytes \in File /\ ops[n].bytes # Absent
      BY <1>1, <1>2, OpKinds, ContentAssumption DEF File, Whole
    <2>3. ~IsRename(ops[n])
      BY <1>1, <1>2, OpKinds
    <2>4. Kept(ops, b, [d EXCEPT ![ops[n].path] = ops[n].bytes])
      BY <2>2, <2>3, KeptByWrite
    <2>5. QED
      BY <2>1, <2>4
  <1>3. CASE IsRemove(ops[n])
    <2>1. Effect(ops[n], d) = [d EXCEPT ![ops[n].path] = Absent]
      BY <1>1, <1>3, OpKinds DEF Effect
    <2>2. \A i \in DOMAIN ops : IsRename(ops[i]) => ops[i].to # ops[n].path
      BY <1>1, <1>3, OpKinds, MoveAlone DEF Touches
    <2>3. Absent \in File
      BY DEF File, Whole
    <2>4. ~IsRename(ops[n])
      BY <1>1, <1>3, OpKinds
    <2>5. Kept(ops, b, [d EXCEPT ![ops[n].path] = Absent])
      BY <2>2, <2>3, <2>4, KeptByWrite
    <2>6. QED
      BY <2>1, <2>5
  <1>4. CASE IsRename(ops[n])
    <2>1. Effect(ops[n], d)
            = [d EXCEPT ![ops[n].to] = d[ops[n].from], ![ops[n].from] = Absent]
      BY <1>1, <1>4, OpKinds DEF Effect
    <2>2. Kept(ops, b, [d EXCEPT ![ops[n].to] = d[ops[n].from], ![ops[n].from] = Absent])
      BY <1>4, KeptByMove
    <2>3. QED
      BY <2>1, <2>2
  <1>5. QED
    BY <1>1, <1>2, <1>3, <1>4, OpKinds

\* No move of a set that kept its files has lost both ends.
LEMMA KeptNotStuck ==
    ASSUME NEW ops \in Seq(FileOp), NEW n \in DOMAIN ops, IsRename(ops[n]),
           NEW b, NEW d, SourcesExist(ops, b), Kept(ops, b, d)
    PROVE  d[ops[n].from] # Absent \/ d[ops[n].to] # Absent
  BY DEF Kept, AllMovesSurvive, MoveSurvives, SourcesExist

-----------------------------------------------------------------------------
(* Facts about steps.                                                      *)

\* The undo recorded for an op that can run.
LEMMA UndoType ==
    ASSUME NEW op \in FileOp, NEW d \in Disk,
           IsWrite(op) \/ Possible(op, d)
    PROVE  UndoOf(op, d) \in Undo
  <1>1. CASE IsWrite(op) /\ d[op.path] = Absent
    BY <1>1, OpKinds DEF UndoOf, Undo
  <1>2. CASE IsRename(op)
    BY <1>2, OpKinds DEF UndoOf, Undo
  <1>3. CASE IsWrite(op) /\ d[op.path] # Absent
    BY <1>3, OpKinds DEF UndoOf, Undo, Disk
  <1>4. CASE IsRemove(op)
    BY <1>4, OpKinds DEF UndoOf, Undo, Disk, Possible
  <1>5. QED
    BY <1>1, <1>2, <1>3, <1>4, OpKinds

\* The op a running process is at is one.
LEMMA OpTyped ==
    ASSUME TypeOK, ~AllDone
    PROVE  Op \in FileOp /\ next \in DOMAIN set /\ set \in ChangeSets
  BY SetsAssumption DEF TypeOK, AllDone, Op

\* What an unfinished write may leave is a disk.
LEMMA HalfDoneType ==
    ASSUME TypeOK
    PROVE  \A e \in HalfDone : e \in Disk
  <1> SUFFICES ASSUME NEW e \in HalfDone PROVE e \in Disk
    OBVIOUS
  <1>1. CASE (Executing \/ Replaying) /\ IsWrite(Op)
    BY <1>1, OpTyped, OpKinds
    DEF HalfDone, AtomicResidue, Executing, Replaying, TypeOK, Disk, File, Whole
  <1>2. CASE ~((Executing \/ Replaying) /\ IsWrite(Op)) /\ Unwinding /\ Step.kind = "restore"
    <2>1. Step \in Undo
      BY <1>2 DEF Unwinding, Step, TypeOK
    <2>2. Step.path \in Path /\ Step.bytes \in File
      BY <1>2, <2>1 DEF Undo
    <2>3. QED
      BY <1>2, <2>2 DEF HalfDone, PlainResidue, TypeOK, Disk, File
  <1>3. CASE ~((Executing \/ Replaying) /\ IsWrite(Op)) /\ ~(Unwinding /\ Step.kind = "restore")
    BY <1>3 DEF HalfDone, TypeOK
  <1>4. QED
    BY <1>1, <1>2, <1>3

-----------------------------------------------------------------------------
(* Type correctness.                                                       *)

\* The memory of a process that starts.
LEMMA Cleared == 1 \in Nat \ {0} /\ << >> \in Seq(Undo) /\ FALSE \in BOOLEAN
  <1>1. 1 \in Nat \ {0} /\ << >> \in Seq(Undo)
    OBVIOUS
  <1>2. QED
    BY <1>1, Zenon

\* A call that returns leaves the process's memory empty.
LEMMA LeaveType ==
    ASSUME TypeOK, NEW o \in Outcomes, Leave(o)
    PROVE  /\ pc' = "idle"
           /\ set' \in ChangeSets \cup {<< >>}
           /\ next' \in Nat \ {0}
           /\ undo' \in Seq(Undo)
           /\ failed' \in BOOLEAN
           /\ outcome' \in Outcomes
  BY Cleared DEF Leave, TypeOK

\* The workspace prov is first run in.
LEMMA TypeInit == ASSUME Init PROVE TypeOK
  <1>1. disk \in Disk /\ before \in Disk
    BY DEF Init, Disk, File
  <1>2. undo \in Seq(Undo) /\ next \in Nat \ {0} /\ failed \in BOOLEAN
    BY Cleared DEF Init
  <1>3. QED
    BY <1>1, <1>2 DEF Init, TypeOK, Outcomes

\* One step, of prov, of its filesystem or of the people beside it.
LEMMA TypeStep == ASSUME TypeOK, [Next]_vars PROVE TypeOK'
  <1> USE SetsAssumption
  <1>1. ASSUME NEW ops \in ChangeSets, Begin(ops) PROVE TypeOK'
    <2>1. CASE ApplyEmpty(ops)
      BY <2>1, LeaveType DEF ApplyEmpty, Outcomes, TypeOK
    <2>2. CASE RefuseEscape(ops)
      BY <2>2, LeaveType DEF RefuseEscape, Outcomes, TypeOK
    <2>3. CASE RefuseStale(ops)
      BY <2>3, LeaveType DEF RefuseStale, Outcomes, TypeOK
    <2>4. CASE WriteJournal(ops)
      <3>1. undo' \in Seq(Undo) /\ next' \in Nat \ {0} /\ failed' \in BOOLEAN
        BY <2>4, Cleared DEF WriteJournal
      <3>2. QED
        BY <2>4, <3>1 DEF WriteJournal, Outcomes, TypeOK
    <2>5. CASE JournalUnwritten(ops)
      BY <2>5, LeaveType DEF JournalUnwritten, Outcomes, TypeOK
    <2>6. QED
      BY <1>1, <2>1, <2>2, <2>3, <2>4, <2>5 DEF Begin
  <1>2. CASE Exec
    <2>1. Op \in FileOp /\ Possible(Op, disk)
      BY <1>2, OpTyped DEF Exec, Executing
    <2>2. Effect(Op, disk) \in Disk /\ UndoOf(Op, disk) \in Undo
      BY <2>1, EffectFacts, UndoType DEF TypeOK
    <2>3. undo' \in Seq(Undo) /\ next' \in Nat \ {0}
      BY <1>2, <2>2 DEF Exec, TypeOK
    <2>4. QED
      BY <1>2, <2>2, <2>3 DEF Exec, TypeOK
  <1>3. CASE ExecImpossible \/ ExecFails
    BY <1>3 DEF ExecImpossible, ExecFails, StartUnwind, memory, TypeOK
  <1>4. CASE ExecWriteFails
    <2>1. Op \in FileOp /\ IsWrite(Op)
      BY <1>4, OpTyped DEF ExecWriteFails, Executing
    <2>2. UndoOf(Op, disk) \in Undo
      BY <2>1, UndoType DEF TypeOK
    <2>3. disk' \in Disk
      BY <1>4, <2>1, OpKinds
      DEF ExecWriteFails, AtomicResidue, TypeOK, Disk, File, Whole
    <2>4. undo' \in Seq(Undo)
      BY <1>4, <2>2 DEF ExecWriteFails, TypeOK
    <2>5. QED
      BY <1>4, <2>3, <2>4 DEF ExecWriteFails, TypeOK
  <1>5. CASE Finish \/ Abort \/ ReplayDone
    BY <1>5, LeaveType DEF Finish, Abort, ReplayDone, Outcomes, TypeOK
  <1>6. CASE FinishFails \/ Torn \/ AbortFails \/ ReplayUncleared
    BY <1>6, LeaveType
    DEF FinishFails, Torn, AbortFails, ReplayUncleared, Outcomes, TypeOK
  <1>7. CASE Unwind
    <2>1. Step \in Undo /\ Rest \in Seq(Undo)
      BY <1>7 DEF Unwind, Unwinding, Step, Rest, TypeOK
    <2>2. CASE Step.kind = "restore"
      <3>1. Step.path \in Path /\ Step.bytes \in File
        BY <2>1, <2>2 DEF Undo
      <3>2. disk' = [disk EXCEPT ![Step.path] = Step.bytes]
        BY <1>7, <2>2 DEF Unwind
      <3>3. QED
        BY <1>7, <2>1, <3>1, <3>2 DEF Unwind, TypeOK, Disk
    <2>3. CASE Step.kind = "delete"
      <3>1. disk' = [disk EXCEPT ![Step.path] = Absent]
        BY <1>7, <2>3 DEF Unwind
      <3>2. QED
        BY <1>7, <2>1, <3>1 DEF Unwind, TypeOK, Disk, File, Whole
    <2>4. CASE Step.kind = "rename"
      <3>1. Step.from \in Path /\ Step.to \in Path
        BY <2>1, <2>4 DEF Undo
      <3>2. disk' = [disk EXCEPT ![Step.to] = disk[Step.from], ![Step.from] = Absent]
        BY <1>7, <2>4, MoveEffect DEF Unwind
      <3>3. QED
        BY <1>7, <2>1, <3>1, <3>2 DEF Unwind, TypeOK, Disk, File, Whole
    <2>5. QED
      BY <2>1, <2>2, <2>3, <2>4 DEF Undo
  <1>8. CASE UnwindFails
    <2>1. Step \in Undo /\ Rest \in Seq(Undo)
      BY <1>8 DEF UnwindFails, Unwinding, Step, Rest, TypeOK
    <2>2. disk' \in Disk
      BY <1>8, <2>1 DEF UnwindFails, PlainResidue, Undo, TypeOK, Disk, File
    <2>3. QED
      BY <1>8, <2>1, <2>2 DEF UnwindFails, TypeOK
  <1>9. CASE Recover
    <2>1. undo' \in Seq(Undo) /\ next' \in Nat \ {0} /\ failed' \in BOOLEAN
      BY <1>9, Cleared DEF Recover
    <2>2. QED
      BY <1>9, <2>1 DEF Recover, TypeOK
  <1>10. CASE RecoverCorrupt \/ RecoverUnread
    BY <1>10, LeaveType DEF RecoverCorrupt, RecoverUnread, Outcomes, TypeOK
  <1>11. CASE Replay
    BY <1>11, OpTyped, EffectFacts DEF Replay, Replaying, TypeOK
  <1>12. CASE ReplayFails
    BY <1>12, LeaveType, HalfDoneType DEF ReplayFails, Outcomes, TypeOK
  <1>13. CASE Crash
    BY <1>13, LeaveType, HalfDoneType DEF Crash, Outcomes, TypeOK
  <1>14. CASE Edit
    BY <1>14 DEF Edit, memory, Outcomes, TypeOK, Disk, File
  <1>15. CASE UNCHANGED vars
    BY <1>15 DEF vars, TypeOK
  <1>16. QED
    BY <1>1, <1>2, <1>3, <1>4, <1>5, <1>6, <1>7, <1>8, <1>9, <1>10, <1>11,
       <1>12, <1>13, <1>14, <1>15
    DEF Next, Progress, Fault

\* Nothing but the types of TypeOK is ever stored, whatever fails or crashes.
THEOREM TypeCorrect == Spec => []TypeOK
  <1>1. Init => TypeOK
    BY TypeInit
  <1>2. TypeOK /\ [Next]_vars => TypeOK'
    BY TypeStep
  <1>3. QED
    BY <1>1, <1>2, PTL DEF Spec

-----------------------------------------------------------------------------
(* The inductive invariant, for the sets mutations are meant to stage.     *)

\* Every set is replay-safe, moves are guarded by existence checks, and nobody
\* edits a workspace whose journal is pending.
Disciplined ==
    /\ \A ops \in ChangeSets : ReplaySafe(ops)
    /\ DestinationsGuarded = TRUE
    /\ EditsWhilePending = FALSE

\* What a running process knows of the set it works through.
LEMMA RunningFacts ==
    ASSUME Disciplined, Inv, pc # "idle"
    PROVE  /\ set = journal /\ set \in ChangeSets
           /\ set \in Seq(FileOp) /\ ReplaySafe(set)
           /\ SourcesExist(set, before) /\ DestinationsFree(set, before)
           /\ Kept(set, before, disk)
           /\ next <= Len(set) + 1
           /\ disk \in Disk /\ before \in Disk
  <1>1. InFlight /\ set = journal /\ next <= Len(set) + 1
    BY DEF Inv, WorksOnJournal
  <1>2. set \in ChangeSets /\ set \in Seq(FileOp) /\ ReplaySafe(set)
    BY <1>1, SetsAssumption DEF InFlight, Disciplined
  <1>3. SourcesExist(set, before) /\ DestinationsFree(set, before)
    BY <1>1 DEF Inv, JournaledOverStaged
  <1>4. Kept(set, before, disk)
    BY <1>1 DEF Inv, OthersUntouched, MovesSurvive, Kept
  <1>5. disk \in Disk /\ before \in Disk
    BY DEF Inv, TypeOK
  <1>6. QED
    BY <1>1, <1>2, <1>3, <1>4, <1>5

\* A step to a workspace at rest: nothing pending, or a journal over the
\* workspace it was written for.
LEMMA ToIdle ==
    ASSUME TypeOK', pc' = "idle",
           \/ journal' = NoJournal
           \/ journal' = TornJournal /\ disk' = before'
           \/ /\ journal' \in ChangeSets
              /\ SourcesExist(journal', before') /\ DestinationsFree(journal', before')
              /\ Kept(journal', before', disk')
    PROVE  Inv'
  <1>1. NoJournal \notin ChangeSets /\ TornJournal \notin ChangeSets /\ NoJournal # TornJournal
    BY SetsAssumption
  <1>2. WorksOnJournal' /\ UndoReverses' /\ ExecInv' /\ UnwindInv' /\ ReplayInv'
    BY DEF WorksOnJournal, UndoReverses, ExecInv, UnwindInv, ReplayInv
  <1>3. TornJournalUntouched' /\ JournaledOverStaged'
    BY <1>1 DEF TornJournalUntouched, JournaledOverStaged, InFlight
  <1>4. OthersUntouched' /\ MovesSurvive'
    BY <1>1 DEF OthersUntouched, MovesSurvive, InFlight, Kept
  <1>5. QED
    BY <1>2, <1>3, <1>4 DEF Inv

\* A step of a process that runs on: its journal is whole, and what the set
\* moves is kept.
LEMMA ToRunning ==
    ASSUME TypeOK', journal' \in ChangeSets, set' = journal', next' <= Len(set') + 1,
           SourcesExist(journal', before'), DestinationsFree(journal', before'),
           Kept(journal', before', disk'),
           UndoReverses', ExecInv', UnwindInv', ReplayInv'
    PROVE  Inv'
  <1>1. WorksOnJournal'
    BY DEF WorksOnJournal, InFlight
  <1>2. TornJournalUntouched' /\ JournaledOverStaged'
    BY SetsAssumption DEF TornJournalUntouched, JournaledOverStaged
  <1>3. OthersUntouched' /\ MovesSurvive'
    BY DEF OthersUntouched, MovesSurvive, Kept
  <1>4. QED
    BY <1>1, <1>2, <1>3 DEF Inv

\* The op a running process is at, and its place in the set.
LEMMA OpFacts ==
    ASSUME Disciplined, Inv, pc # "idle", ~AllDone
    PROVE  /\ Op = set[next] /\ Op \in FileOp
           /\ next \in DOMAIN set /\ next \in 1..Len(set)
  BY RunningFacts, OpTyped DEF Inv, Op

\* A process that dies, or an op that fails half-way, keeps the moved files.
LEMMA HalfDoneKept ==
    ASSUME Disciplined, Inv, pc # "idle", NEW e \in HalfDone
    PROVE  Kept(set, before, e)
  <1>1. CASE e = disk
    BY <1>1, RunningFacts
  <1>2. CASE (Executing \/ Replaying) /\ IsWrite(Op) /\ e # disk
    <2>1. Op = set[next] /\ Op \in FileOp /\ next \in DOMAIN set
      BY <1>2, OpFacts DEF Executing, Replaying
    <2>2. PICK c \in AtomicResidue(disk[Op.path], Op.bytes) :
                    e = [disk EXCEPT ![Op.path] = c]
      BY <1>2 DEF HalfDone
    <2>3. ~IsRename(Op) /\ Op.bytes \in Bytes /\ Op.path \in Path
      BY <1>2, <2>1, OpKinds
    <2>4. c \in File /\ (c = disk[Op.path] \/ c # Absent)
      BY <2>3, ContentAssumption, RunningFacts
      DEF AtomicResidue, Disk, File, Whole
    <2>5. Kept(set, before, [disk EXCEPT ![set[next].path] = c])
      BY <2>1, <2>3, <2>4, RunningFacts, KeptByWrite
    <2>6. QED
      BY <2>1, <2>2, <2>5
  <1>3. CASE ~((Executing \/ Replaying) /\ IsWrite(Op)) /\ e # disk
    <2> DEFINE n == Len(undo)
    <2>1. Unwinding /\ Step.kind = "restore"
      BY <1>3 DEF HalfDone
    <2>2. PICK c \in PlainResidue(disk[Step.path], Step.bytes) :
                    e = [disk EXCEPT ![Step.path] = c]
      BY <1>3, <2>1 DEF HalfDone
    <2>3. n \in 1..Len(set) /\ n \in DOMAIN set /\ n \in 1..Len(undo)
      BY <2>1, RunningFacts DEF Inv, UndoReverses, Unwinding, TypeOK
    <2>4. Reverses(n, Step)
      BY <2>1, <2>3 DEF Inv, UndoReverses, Unwinding, Step
    <2>5. ~IsRename(set[n]) /\ Step.path = set[n].path
      BY <2>1, <2>4 DEF Reverses
    <2>6. Step \in Undo
      BY <2>1, <2>3 DEF Inv, TypeOK, Step
    <2>7. Step.path \in Path /\ Step.bytes \in File /\ Step.bytes # Absent
      BY <2>1, <2>6 DEF Undo
    <2>8. c \in File /\ (c = disk[Step.path] \/ c # Absent)
      BY <2>7, ContentAssumption, RunningFacts DEF PlainResidue, Disk, File
    <2>9. Kept(set, before, [disk EXCEPT ![set[n].path] = c])
      BY <2>3, <2>5, <2>8, RunningFacts, KeptByWrite
    <2>10. QED
      BY <2>2, <2>5, <2>9
  <1>4. QED
    BY <1>1, <1>2, <1>3

\* What apply records before an op, or as it runs, reverses that op.
LEMMA UndoOfReverses ==
    ASSUME Disciplined, Inv, Executing, IsWrite(Op) \/ Possible(Op, disk)
    PROVE  Reverses(next, UndoOf(Op, disk))
  <1> DEFINE u == UndoOf(Op, disk)
  <1>1. pc = "exec" /\ pc # "idle" /\ ~AllDone
    BY DEF Executing
  <1>2. Op = set[next] /\ Op \in FileOp /\ next \in 1..Len(set)
    BY <1>1, OpFacts
  <1>3. LandsTo(set, next - 1, before, disk)
    BY <1>1 DEF Inv, ExecInv
  <1>4. CASE IsRename(Op)
    BY <1>2, <1>4, OpKinds DEF UndoOf, Reverses
  <1>5. CASE ~IsRename(Op)
    <2>1. Op.path \in Path
      BY <1>2, <1>5, OpKinds
    <2>2. ValueAt(set, next - 1, before, Op.path, disk[Op.path])
      BY <1>3, <2>1 DEF LandsTo
    <2>3. CASE IsWrite(Op) /\ disk[Op.path] = Absent
      <3>1. u = [kind |-> "delete", path |-> Op.path]
        BY <2>3, <1>5 DEF UndoOf
      <3>2. ASSUME NEW i \in DOMAIN set, IsRename(set[i]), set[i].to = Op.path
            PROVE  FALSE
        <4>1. set[i] \in FileOp /\ set[i].from \in Path
          BY <1>1, <3>2, RunningFacts, OpKinds
        <4>2. i # next /\ next \in DOMAIN set /\ Touches(set[next], set[i].to)
          BY <1>1, <1>2, <1>5, <3>2, RunningFacts DEF Touches
        <4>3. i < next /\ i \in 1..(next - 1)
          BY <1>1, <1>2, <3>2, <4>2, MoveAlone, RunningFacts
        <4>4. LastTouch(set, next - 1, i, set[i].from)
          <5>1. Touches(set[i], set[i].from)
            BY <3>2 DEF Touches
          <5>2. \A j \in (i+1)..(next-1) : j \in DOMAIN set /\ j # i
            BY <1>1, <1>2, <4>3, RunningFacts
          <5>3. \A j \in (i+1)..(next-1) : ~Touches(set[j], set[i].from)
            BY <1>1, <3>2, <5>2, MoveAlone, RunningFacts
          <5>4. QED
            BY <4>3, <5>1, <5>3 DEF LastTouch
        <4>5. disk[set[i].from] = LeftAt(set[i], set[i].from, before)
          BY <1>3, <4>1, <4>3, <4>4 DEF LandsTo, ValueAt
        <4>6. disk[set[i].from] = Absent
          BY <3>2, <4>1, <4>5, OpKinds DEF LeftAt
        <4>7. disk[set[i].to] = Absent
          BY <2>3, <3>2
        <4>8. QED
          BY <1>1, <3>2, <4>6, <4>7, KeptNotStuck, RunningFacts
      <3>3. u.kind = "delete" /\ u.path = Op.path
        BY <3>1
      <3>4. QED
        BY <1>2, <1>5, <2>2, <2>3, <3>2, <3>3 DEF Reverses
    <2>4. CASE ~(IsWrite(Op) /\ disk[Op.path] = Absent)
      <3>1. u = [kind |-> "restore", path |-> Op.path, bytes |-> disk[Op.path]]
        BY <2>4, <1>5 DEF UndoOf
      <3>2. u.kind = "restore" /\ u.path = Op.path /\ u.bytes = disk[Op.path]
        BY <3>1
      <3>3. QED
        BY <1>2, <1>5, <2>2, <3>2 DEF Reverses
    <2>5. QED
      BY <2>3, <2>4
  <1>6. QED
    BY <1>4, <1>5

\* The undo log stays true when that record is added to it.
LEMMA UndoReversesMore ==
    ASSUME Disciplined, Inv, Executing, IsWrite(Op) \/ Possible(Op, disk),
           set' = set, before' = before, undo' = Append(undo, UndoOf(Op, disk))
    PROVE  UndoReverses' /\ Len(undo') = next
  <1> DEFINE u == UndoOf(Op, disk)
  <1>1. pc = "exec" /\ pc # "idle" /\ ~AllDone
    BY DEF Executing
  <1>2. undo \in Seq(Undo) /\ next \in 1..Len(set) /\ Len(undo) = next - 1
    BY <1>1, OpFacts DEF Inv, TypeOK, ExecInv
  <1>3. Len(undo') = next
    BY <1>2
  <1>4. /\ undo'[next] = u
        /\ \A k \in 1..(next - 1) : undo'[k] = undo[k]
    BY <1>2
  <1>5. Reverses(next, u)
    BY UndoOfReverses
  <1>6. \A k \in 1..(next - 1) : Reverses(k, undo[k])
    BY <1>1, <1>2 DEF Inv, UndoReverses
  <1>7. ASSUME NEW k \in 1..next PROVE Reverses(k, undo[k])'
    <2>1. Reverses(k, undo'[k])
      <3>1. CASE k = next
        BY <1>4, <1>5, <3>1
      <3>2. CASE k # next
        BY <1>2, <1>4, <1>6, <3>2
      <3>3. QED
        BY <3>1, <3>2
    <2>2. QED
      BY <2>1 DEF Reverses
  <1>8. Len(set) \in Nat /\ next <= Len(set)
    BY <1>1, <1>2, RunningFacts
  <1>9. QED
    BY <1>3, <1>7, <1>8 DEF UndoReverses

\* Each op that runs lands a longer prefix of the set.
LEMMA ExecStep ==
    ASSUME Disciplined, Inv, TypeOK', Exec
    PROVE  Inv'
  <1>1. /\ Executing /\ Possible(Op, disk) /\ pc = "exec" /\ pc # "idle" /\ ~AllDone
        /\ disk' = Effect(Op, disk) /\ next' = next + 1
        /\ undo' = Append(undo, UndoOf(Op, disk))
        /\ UNCHANGED <<journal, pc, set, failed, outcome, before>>
    BY DEF Exec, Executing
  <1>2. Op = set[next] /\ Op \in FileOp /\ next \in DOMAIN set /\ next \in 1..Len(set)
    BY <1>1, OpFacts
  <1>3. Kept(set, before, disk')
    BY <1>1, <1>2, RunningFacts, KeptByEffect DEF Possible
  <1>4. UndoReverses' /\ Len(undo') = next
    BY <1>1, UndoReversesMore
  <1>5. ExecInv'
    <2>1. LandsTo(set, next - 1, before, disk) /\ ~failed
      BY <1>1 DEF Inv, ExecInv
    <2>2. LandsTo(set, next, before, disk')
      BY <1>1, <1>2, <2>1, RunningFacts, LandsStep
    <2>3. next' - 1 = next
      BY <1>1, <1>2
    <2>4. LandsTo(set', next' - 1, before', disk')
      BY <1>1, <2>2, <2>3
    <2>5. Len(undo') = next' - 1
      BY <1>4, <2>3
    <2>6. ~failed'
      BY <1>1, <2>1
    <2>7. QED
      BY <2>4, <2>5, <2>6 DEF ExecInv
  <1>6. UnwindInv' /\ ReplayInv'
    BY <1>1 DEF UnwindInv, ReplayInv
  <1>7. next' <= Len(set') + 1
    BY <1>1, <1>2
  <1>8. /\ journal' \in ChangeSets /\ set' = journal'
        /\ SourcesExist(journal', before') /\ DestinationsFree(journal', before')
        /\ Kept(journal', before', disk')
    BY <1>1, <1>3, RunningFacts
  <1>9. QED
    BY <1>4, <1>5, <1>6, <1>7, <1>8, ToRunning

\* An op that fails without effect: what it had to undo is what has landed.
LEMMA StartUnwindStep ==
    ASSUME Disciplined, Inv, TypeOK', Executing, StartUnwind
    PROVE  Inv'
  <1>1. /\ pc = "exec" /\ pc # "idle" /\ pc' = "unwind"
        /\ UNCHANGED <<disk, journal, set, next, undo, failed, outcome, before>>
    BY DEF Executing, StartUnwind, memory
  <1>2. UndoReverses'
    BY <1>1 DEF Inv, UndoReverses, Reverses
  <1>3. UnwindInv'
    <2>1. Len(undo) = next - 1 /\ LandsTo(set, next - 1, before, disk)
      BY <1>1 DEF Inv, ExecInv
    <2>2. \A p \in Path : ValueAt(set, Len(undo), before, p, disk[p])
      BY <2>1 DEF LandsTo
    <2>3. QED
      BY <1>1, <2>2 DEF UnwindInv
  <1>4. ExecInv' /\ ReplayInv'
    BY <1>1 DEF ExecInv, ReplayInv
  <1>5. QED
    BY <1>1, <1>2, <1>3, <1>4, RunningFacts, ToRunning

\* A write that fails half-way: all but its target is as the ops before it left
\* it, and its undo is recorded.
LEMMA ExecWriteFailsStep ==
    ASSUME Disciplined, Inv, TypeOK', ExecWriteFails
    PROVE  Inv'
  <1>1. /\ Executing /\ IsWrite(Op) /\ pc = "exec" /\ pc # "idle" /\ ~AllDone
        /\ pc' = "unwind" /\ undo' = Append(undo, UndoOf(Op, disk))
        /\ UNCHANGED <<journal, set, next, failed, outcome, before>>
    BY DEF ExecWriteFails, Executing
  <1>2. /\ Op = set[next] /\ Op \in FileOp /\ next \in DOMAIN set
        /\ next \in 1..Len(set) /\ Op.path \in Path
    BY <1>1, OpFacts, OpKinds
  <1>3. disk' \in HalfDone
    BY <1>1 DEF ExecWriteFails, HalfDone
  <1>4. Kept(set, before, disk')
    BY <1>1, <1>3, HalfDoneKept
  <1>5. UndoReverses' /\ Len(undo') = next
    BY <1>1, UndoReversesMore
  <1>6. UnwindInv'
    <2>1. LandsTo(set, next - 1, before, disk)
      BY <1>1 DEF Inv, ExecInv
    <2>2. ASSUME NEW p \in Path, p # Op.path
          PROVE  ValueAt(set, next, before, p, disk'[p])
      <3>1. disk'[p] = disk[p]
        BY <1>2, <2>2, RunningFacts DEF ExecWriteFails, Disk
      <3>2. ~Touches(set[next], p)
        BY <1>1, <1>2, <2>2, OpKinds DEF Touches
      <3>3. ValueAt(set, next - 1, before, p, disk[p])
        BY <2>1 DEF LandsTo
      <3>4. QED
        BY <1>1, <1>2, <3>1, <3>2, <3>3, RunningFacts, ValueUntouched
    <2>3. undo' # << >>
      BY <1>1, <1>2 DEF Inv, TypeOK
    <2>4. QED
      BY <1>1, <1>2, <1>5, <2>2, <2>3 DEF UnwindInv
  <1>7. ExecInv' /\ ReplayInv'
    BY <1>1 DEF ExecInv, ReplayInv
  <1>8. next' <= Len(set') + 1
    BY <1>1, <1>2
  <1>9. QED
    BY <1>1, <1>4, <1>5, <1>6, <1>7, <1>8, RunningFacts, ToRunning

\* The undo step an unwinding process is at.
LEMMA StepFacts ==
    ASSUME Disciplined, Inv, Unwinding
    PROVE  /\ pc = "unwind" /\ pc # "idle"
           /\ Len(undo) \in 1..Len(set) /\ Len(undo) \in DOMAIN set
           /\ Step \in Undo /\ Reverses(Len(undo), Step)
           /\ Rest \in Seq(Undo) /\ Len(Rest) = Len(undo) - 1
           /\ \A k \in 1..Len(Rest) : Rest[k] = undo[k]
  <1>1. pc = "unwind" /\ pc # "idle" /\ undo \in Seq(Undo) /\ undo # << >>
    BY DEF Unwinding, Inv, TypeOK
  <1>2. Len(undo) \in 1..Len(undo)
    BY <1>1
  <1>3. Len(undo) <= Len(set) /\ Reverses(Len(undo), Step)
    BY <1>1, <1>2 DEF Inv, UndoReverses, Step
  <1>4. Len(undo) \in 1..Len(set) /\ Len(undo) \in DOMAIN set
    BY <1>1, <1>2, <1>3, RunningFacts
  <1>5. Step \in Undo
    BY <1>1, <1>2 DEF Step
  <1>6. /\ Rest \in Seq(Undo) /\ Len(Rest) = Len(undo) - 1
        /\ \A k \in 1..Len(Rest) : Rest[k] = undo[k]
    <2>1. Len(undo) - 1 \in Nat /\ Len(undo) - 1 <= Len(undo)
      BY <1>1, <1>2
    <2>2. 1 \in Int /\ Len(undo) - 1 \in Int
      BY <2>1
    <2>3. \A i \in 1..(Len(undo) - 1) : undo[i] \in Undo
      BY <1>1, <2>1
    <2>4. /\ Rest \in Seq(Undo)
          /\ Len(Rest) = IF 1 <= Len(undo) - 1 THEN Len(undo) - 1 - 1 + 1 ELSE 0
          /\ \A i \in 1..(Len(undo) - 1 - 1 + 1) : Rest[i] = undo[1 + i - 1]
      BY <2>2, <2>3, SubSeqProperties DEF Rest
    <2>5. Len(Rest) = Len(undo) - 1
      <3> DEFINE m == Len(undo) - 1
      <3>1. m \in Nat
        BY <2>1
      <3>2. Len(Rest) = IF 1 <= m THEN m - 1 + 1 ELSE 0
        BY <2>4
      <3> HIDE DEF m
      <3>3. Len(Rest) = m
        BY <3>1, <3>2
      <3>4. QED
        BY <3>3 DEF m
    <2>6. ASSUME NEW k \in 1..Len(Rest) PROVE Rest[k] = undo[k]
      <3>1. k \in 1..(Len(undo) - 1 - 1 + 1) /\ 1 + k - 1 = k
        BY <2>5
      <3>2. Rest[k] = undo[1 + k - 1]
        BY <2>4, <3>1
      <3>3. QED
        BY <3>1, <3>2
    <2>7. QED
      BY <2>4, <2>5, <2>6
  <1>7. QED
    BY <1>1, <1>3, <1>4, <1>5, <1>6

\* Dropping the newest entry leaves a true log.
LEMMA UndoReversesLess ==
    ASSUME Disciplined, Inv, Unwinding,
           set' = set, before' = before, undo' = Rest
    PROVE  UndoReverses'
  <1>1. /\ Len(undo') \in Nat /\ Len(undo') <= Len(set)
        /\ \A k \in 1..Len(undo') : undo'[k] = undo[k] /\ k \in 1..Len(undo)
    BY StepFacts
  <1>2. \A k \in 1..Len(undo) : Reverses(k, undo[k])
    BY StepFacts DEF Inv, UndoReverses
  <1>3. ASSUME NEW k \in 1..Len(undo') PROVE Reverses(k, undo[k])'
    <2>1. Reverses(k, undo'[k])
      BY <1>1, <1>2
    <2>2. QED
      BY <2>1 DEF Reverses
  <1>4. QED
    BY <1>1, <1>3 DEF UndoReverses

\* One op is reversed: the workspace is what one op fewer makes of the disk the
\* set found.
LEMMA UnwindStep ==
    ASSUME Disciplined, Inv, TypeOK', Unwind
    PROVE  Inv'
  <1> DEFINE m == Len(undo)
             op == set[m]
  <1>1. /\ Unwinding /\ pc = "unwind" /\ pc # "idle" /\ undo' = Rest
        /\ UNCHANGED <<journal, pc, set, next, failed, outcome, before>>
    BY DEF Unwind, Unwinding
  <1>2. /\ m \in 1..Len(set) /\ m \in DOMAIN set /\ op \in FileOp
        /\ Step \in Undo /\ Reverses(m, Step) /\ Len(undo') = m - 1
        /\ disk \in Disk /\ disk' \in Disk /\ set \in Seq(FileOp)
    BY <1>1, StepFacts, RunningFacts DEF TypeOK
  <1>3. ASSUME ~IsRename(op) PROVE Kept(set, before, disk') /\ UnwindInv'
    <2>1. /\ Step.path = op.path /\ op.path \in Path
          /\ Step.kind \in {"restore", "delete"}
      BY <1>2, <1>3, OpKinds DEF Reverses
    <2>2. PICK c \in File :
             /\ disk' = [disk EXCEPT ![op.path] = c]
             /\ ValueAt(set, m - 1, before, op.path, c)
             /\ \/ c # Absent
                \/ \A i \in DOMAIN set : IsRename(set[i]) => set[i].to # op.path
      <3>1. CASE Step.kind = "restore"
        <4>1. disk' = [disk EXCEPT ![op.path] = Step.bytes]
          BY <2>1, <3>1 DEF Unwind
        <4>2. Step.bytes \in File /\ Step.bytes # Absent
          BY <1>2, <3>1 DEF Undo
        <4>3. ValueAt(set, m - 1, before, op.path, Step.bytes)
          BY <1>2, <1>3, <3>1 DEF Reverses
        <4>4. QED
          BY <4>1, <4>2, <4>3
      <3>2. CASE Step.kind = "delete"
        <4>1. disk' = [disk EXCEPT ![op.path] = Absent] /\ Absent \in File
          BY <2>1, <3>2 DEF Unwind, File, Whole
        <4>2. /\ ValueAt(set, m - 1, before, op.path, Absent)
              /\ \A i \in DOMAIN set : IsRename(set[i]) => set[i].to # op.path
          BY <1>2, <1>3, <3>2 DEF Reverses
        <4>3. QED
          BY <4>1, <4>2
      <3>3. QED
        BY <2>1, <3>1, <3>2
    <2>3. Kept(set, before, disk')
      <3>1. Kept(set, before, [disk EXCEPT ![set[m].path] = c])
        BY <1>1, <1>2, <1>3, <2>2, RunningFacts, KeptByWrite
      <3>2. QED
        BY <2>2, <3>1
    <2>4. UnwindInv'
      <3> SUFFICES ASSUME ~failed, NEW p \in Path
                   PROVE  ValueAt(set, m - 1, before, p, disk'[p])
        BY <1>1, <1>2 DEF UnwindInv
      <3>1. CASE p = op.path
        BY <1>2, <2>1, <2>2, <3>1 DEF Disk
      <3>2. CASE p # op.path
        <4>1. ~Touches(op, p) /\ disk'[p] = disk[p]
          BY <1>2, <1>3, <2>1, <2>2, <3>2 DEF Touches, Disk
        <4>2. ValueAt(set, m, before, p, disk[p])
          BY <1>1, <3>2 DEF Inv, UnwindInv
        <4>3. QED
          BY <1>2, <4>1, <4>2, ValueUntouched
      <3>3. QED
        BY <3>1, <3>2
    <2>5. QED
      BY <2>3, <2>4
  <1>4. ASSUME IsRename(op) PROVE Kept(set, before, disk') /\ UnwindInv'
    <2>1. /\ Step.kind = "rename" /\ Step.from = op.to /\ Step.to = op.from
          /\ op.from \in Path /\ op.to \in Path /\ op.from # op.to
      BY <1>2, <1>4, OpKinds DEF Reverses
    <2>2. /\ disk[op.to] # Absent
          /\ disk' = [disk EXCEPT ![op.from] = disk[op.to], ![op.to] = Absent]
      BY <2>1, MoveEffect DEF Unwind
    <2>3. Kept(set, before, disk')
      <3>1. Kept(set, before,
                 [disk EXCEPT ![set[m].from] = disk[set[m].to], ![set[m].to] = Absent])
        BY <1>1, <1>2, <1>4, <2>2, RunningFacts, KeptByMove
      <3>2. QED
        BY <2>2, <3>1
    <2>4. UnwindInv'
      <3> SUFFICES ASSUME ~failed, NEW p \in Path
                   PROVE  ValueAt(set, m - 1, before, p, disk'[p])
        BY <1>1, <1>2 DEF UnwindInv
      <3>1. \A q \in Path : ValueAt(set, m, before, q, disk[q])
        BY <1>1, <1>2, <1>4, OpKinds DEF Inv, UnwindInv
      <3>2. \A i \in 1..(m - 1) : i \in DOMAIN set /\ i # m /\ ~(i > m)
        BY <1>2
      <3>3. \A i \in 1..(m - 1) : ~Touches(set[i], op.from) /\ ~Touches(set[i], op.to)
        BY <1>1, <1>2, <1>4, <3>2, MoveAlone, RunningFacts
      <3>4. CASE p = op.from
        <4>1. disk'[p] = disk[op.to]
          BY <1>2, <2>1, <2>2, <3>4 DEF Disk
        <4>2. Touches(set[m], op.to) /\ LeftAt(set[m], op.to, before) = before[op.from]
          BY <1>2, <1>4, OpKinds DEF Touches, LeftAt
        <4>3. disk[op.to] = before[op.from]
          BY <1>2, <2>1, <3>1, <4>2, ValueTouched
        <4>4. QED
          BY <3>3, <3>4, <4>1, <4>3, ValueFound
      <3>5. CASE p = op.to
        <4>1. disk'[p] = Absent
          BY <1>2, <2>1, <2>2, <3>5 DEF Disk
        <4>2. before[op.to] = Absent
          BY <1>1, <1>2, <1>4, RunningFacts DEF DestinationsFree
        <4>3. QED
          BY <3>3, <3>5, <4>1, <4>2, ValueFound
      <3>6. CASE p # op.from /\ p # op.to
        <4>1. ~Touches(op, p) /\ disk'[p] = disk[p]
          BY <1>2, <1>4, <2>1, <2>2, <3>6 DEF Touches, Disk
        <4>2. QED
          BY <1>2, <3>1, <4>1, ValueUntouched
      <3>7. QED
        BY <3>4, <3>5, <3>6
    <2>5. QED
      BY <2>3, <2>4
  <1>5. UndoReverses'
    BY <1>1, UndoReversesLess
  <1>6. ExecInv' /\ ReplayInv'
    BY <1>1 DEF ExecInv, ReplayInv
  <1>7. Kept(set, before, disk') /\ UnwindInv'
    BY <1>3, <1>4
  <1>8. QED
    BY <1>1, <1>5, <1>6, <1>7, RunningFacts, ToRunning

\* An undo step that fails: nothing more is promised of this process, and what
\* the set moves is kept for the recovery.
LEMMA UnwindFailsStep ==
    ASSUME Disciplined, Inv, TypeOK', UnwindFails
    PROVE  Inv'
  <1>1. /\ Unwinding /\ pc = "unwind" /\ pc # "idle" /\ undo' = Rest
        /\ failed' = TRUE
        /\ UNCHANGED <<journal, pc, set, next, outcome, before>>
    BY DEF UnwindFails, Unwinding
  <1>2. disk' \in HalfDone
    BY <1>1 DEF UnwindFails, HalfDone, Executing, Replaying
  <1>3. Kept(set, before, disk')
    BY <1>1, <1>2, HalfDoneKept
  <1>4. UndoReverses'
    BY <1>1, UndoReversesLess
  <1>5. UnwindInv'
    BY <1>1 DEF UnwindInv
  <1>6. ExecInv' /\ ReplayInv'
    BY <1>1 DEF ExecInv, ReplayInv
  <1>7. QED
    BY <1>1, <1>3, <1>4, <1>5, <1>6, RunningFacts, ToRunning

\* One op is redone, or seen to be done: what it leaves is final.
LEMMA ReplayStep ==
    ASSUME Disciplined, Inv, TypeOK', Replay
    PROVE  Inv'
  <1> DEFINE op == set[next]
  <1>1. /\ Replaying /\ pc = "replay" /\ pc # "idle" /\ ~AllDone /\ ~Stuck(Op, disk)
        /\ disk' = IF Moved(Op, disk) THEN disk ELSE Effect(Op, disk)
        /\ next' = next + 1
        /\ UNCHANGED <<journal, pc, set, undo, failed, outcome, before>>
    BY DEF Replay, Replaying
  <1>2. /\ Op = op /\ op \in FileOp /\ next \in DOMAIN set /\ next \in 1..Len(set)
        /\ disk \in Disk /\ disk' \in Disk /\ set \in Seq(FileOp)
    BY <1>1, OpFacts, RunningFacts DEF TypeOK
  <1>3. \/ ~IsRename(op) /\ disk' = Effect(op, disk)
        \/ IsRename(op) /\ disk[op.from] # Absent /\ disk' = Effect(op, disk)
        \/ IsRename(op) /\ disk[op.from] = Absent /\ disk[op.to] # Absent /\ disk' = disk
    BY <1>1, <1>2 DEF Moved, Stuck
  <1>4. Kept(set, before, disk')
    BY <1>1, <1>2, <1>3, RunningFacts, KeptByEffect
  <1>5. \A p \in Path : ~Touches(op, p) => disk'[p] = disk[p]
    BY <1>2, <1>3, EffectFacts
  <1>6. ASSUME NEW p \in Path, Touches(op, p)
        PROVE  \/ disk'[p] = LeftAt(op, p, before)
               \/ /\ IsRename(op) /\ p = op.to
                  /\ \E j \in (next + 1)..Len(set) : IsWrite(set[j]) /\ set[j].path = p
    <2>1. CASE ~IsRename(op)
      BY <1>2, <1>3, <1>6, <2>1, OpKinds, EffectFacts DEF Touches, LeftAt
    <2>2. CASE IsRename(op)
      <3>1. op.from \in Path /\ op.to \in Path /\ op.from # op.to
        BY <1>2, <2>2, OpKinds
      <3>2. disk'[op.from] = Absent
        BY <1>2, <1>3, <2>2, EffectFacts
      <3>3. CASE p = op.from
        BY <1>2, <2>2, <3>1, <3>2, <3>3, OpKinds DEF LeftAt
      <3>4. CASE p = op.to
        <4>1. LeftAt(op, p, before) = before[op.from]
          BY <1>2, <2>2, <3>4, OpKinds DEF LeftAt
        <4>2. CASE Rewritten(set, op.to)
          <5>1. PICK j \in DOMAIN set : IsWrite(set[j]) /\ set[j].path = op.to
            BY <4>2 DEF Rewritten
          <5>2. j # next /\ Touches(set[j], op.to)
            BY <1>1, <1>2, <2>2, <5>1, OpKinds, RunningFacts DEF Touches
          <5>3. j > next
            BY <1>1, <1>2, <2>2, <5>1, <5>2, MoveAlone, RunningFacts
          <5>4. j \in (next + 1)..Len(set)
            BY <1>2, <5>1, <5>3
          <5>5. QED
            BY <2>2, <3>4, <5>1, <5>4
        <4>3. CASE ~Rewritten(set, op.to)
          <5>1. MoveSurvives(set, op, before, disk')
            BY <1>2, <1>4, <2>2 DEF Kept, AllMovesSurvive
          <5>2. before[op.from] # Absent
            BY <1>1, <1>2, <2>2, RunningFacts DEF SourcesExist
          <5>3. disk'[op.to] = before[op.from]
            BY <3>2, <4>3, <5>1, <5>2 DEF MoveSurvives
          <5>4. QED
            BY <3>4, <4>1, <5>3
        <4>4. QED
          BY <4>2, <4>3
      <3>5. QED
        BY <1>6, <2>2, <3>3, <3>4 DEF Touches
    <2>3. QED
      BY <2>1, <2>2
  <1>7. ReplayInv'
    <2>1. next' - 1 = next
      BY <1>1, <1>2
    <2> SUFFICES ASSUME NEW p \in Path, NEW i \in 1..next, LastTouch(set, next, i, p)
                 PROVE  \/ disk'[p] = LeftAt(set[i], p, before)
                        \/ /\ IsRename(set[i]) /\ p = set[i].to
                           /\ \E j \in (next + 1)..Len(set) :
                                 IsWrite(set[j]) /\ set[j].path = p
      BY <1>1, <2>1 DEF ReplayInv
    <2>2. CASE i = next
      <3>1. Touches(op, p)
        BY <2>2 DEF LastTouch
      <3>2. QED
        BY <1>6, <2>2, <3>1
    <2>3. CASE i # next
      <3>1. i \in 1..(next - 1) /\ next \in (i + 1)..next
        BY <1>2, <2>3
      <3>2. ~Touches(op, p)
        BY <3>1 DEF LastTouch
      <3>3. LastTouch(set, next - 1, i, p)
        <4>1. \A j \in (i + 1)..(next - 1) : j \in (i + 1)..next
          BY <1>2
        <4>2. QED
          BY <3>1, <4>1 DEF LastTouch
      <3>4. disk'[p] = disk[p]
        BY <1>5, <3>2
      <3>5. \/ disk[p] = LeftAt(set[i], p, before)
            \/ /\ IsRename(set[i]) /\ p = set[i].to
               /\ \E j \in next..Len(set) : IsWrite(set[j]) /\ set[j].path = p
        BY <1>1, <3>1, <3>3 DEF Inv, ReplayInv
      <3>6. ASSUME NEW j \in next..Len(set), IsWrite(set[j]), set[j].path = p
            PROVE  j \in (next + 1)..Len(set)
        <4>1. j \in DOMAIN set /\ set[j] \in FileOp
          BY <1>2, <3>6
        <4>2. Touches(set[j], p)
          BY <3>6, <4>1, OpKinds DEF Touches
        <4>3. j # next
          BY <3>2, <4>2
        <4>4. QED
          BY <1>2, <4>3
      <3>7. QED
        BY <3>4, <3>5, <3>6
    <2>4. QED
      BY <2>2, <2>3
  <1>8. UndoReverses' /\ ExecInv' /\ UnwindInv'
    BY <1>1 DEF UndoReverses, ExecInv, UnwindInv
  <1>9. next' <= Len(set') + 1
    BY <1>1, <1>2
  <1>10. QED
    BY <1>1, <1>4, <1>7, <1>8, <1>9, RunningFacts, ToRunning

\* A replay that reaches its end has landed the set.
LEMMA ReplayLands ==
    ASSUME Disciplined, Inv, pc = "replay", AllDone
    PROVE  Lands(set, before, disk)
  <1>1. pc # "idle"
    OBVIOUS
  <1>2. /\ set = journal /\ next - 1 = Len(set) /\ next..Len(set) = {}
        /\ InFlight /\ set \in Seq(FileOp)
    BY <1>1, RunningFacts DEF Inv, TypeOK, AllDone, WorksOnJournal
  <1> SUFFICES ASSUME NEW p \in Path PROVE ValueAt(set, Len(set), before, p, disk[p])
    BY DEF Lands, LandsTo
  <1>3. (\A i \in 1..Len(set) : ~Touches(set[i], p)) => disk[p] = before[p]
    BY <1>2 DEF Inv, OthersUntouched, OthersKept
  <1>4. \A i \in 1..Len(set) : LastTouch(set, Len(set), i, p) => disk[p] = LeftAt(set[i], p, before)
    BY <1>2 DEF Inv, ReplayInv
  <1>5. QED
    BY <1>3, <1>4 DEF ValueAt

\* An unwind that reaches its end without a failure has restored the workspace.
LEMMA UnwindRestores ==
    ASSUME Disciplined, Inv, Unwound, ~failed
    PROVE  disk = before
  <1>1. pc = "unwind" /\ pc # "idle" /\ undo = << >> /\ Len(undo) = 0
    BY DEF Unwound
  <1>2. \A p \in Path : ValueAt(set, 0, before, p, disk[p])
    BY <1>1 DEF Inv, UnwindInv
  <1>3. \A p \in Path : disk[p] = before[p]
    <2>1. \A i \in 1..0 : FALSE
      OBVIOUS
    <2>2. QED
      BY <1>2, <2>1 DEF ValueAt
  <1>4. QED
    BY <1>1, <1>3, RunningFacts DEF Disk

\* An exec that reaches its end has landed the set.
LEMMA ExecLands ==
    ASSUME Disciplined, Inv, pc = "exec", AllDone
    PROVE  Lands(set, before, disk)
  <1>1. pc # "idle"
    OBVIOUS
  <1>2. next - 1 = Len(set)
    BY <1>1, RunningFacts DEF Inv, TypeOK, AllDone
  <1>3. QED
    BY <1>2 DEF Inv, ExecInv, Lands

\* A call that returns, or a process that dies, with its journal in place.
LEMMA KeptJournal ==
    ASSUME Disciplined, Inv, TypeOK', pc # "idle", pc' = "idle",
           disk' \in HalfDone, UNCHANGED <<journal, before>>
    PROVE  Inv'
  <1>1. Kept(set, before, disk')
    BY HalfDoneKept
  <1>2. QED
    BY <1>1, RunningFacts, ToIdle

\* Steps of a workspace at rest that leave it, and its journal, alone.
LEMMA StaysIdle ==
    ASSUME Inv, TypeOK', pc = "idle", pc' = "idle",
           UNCHANGED <<disk, journal, before>>
    PROVE  Inv'
  <1>1. journal = TornJournal => disk = before
    BY DEF Inv, TornJournalUntouched
  <1>2. journal \in ChangeSets =>
            /\ SourcesExist(journal, before) /\ DestinationsFree(journal, before)
            /\ Kept(journal, before, disk)
    BY DEF Inv, InFlight, JournaledOverStaged, OthersUntouched, MovesSurvive, Kept
  <1>3. journal \in ChangeSets \cup {NoJournal, TornJournal}
    BY DEF Inv, TypeOK
  <1>4. QED
    BY <1>1, <1>2, <1>3, ToIdle

\* apply, up to its commit point.
LEMMA BeginStep ==
    ASSUME Disciplined, Inv, TypeOK', NEW ops \in ChangeSets, Begin(ops)
    PROVE  Inv'
  <1>1. CASE ApplyEmpty(ops) \/ RefuseEscape(ops) \/ RefuseStale(ops)
    BY <1>1, StaysIdle
    DEF ApplyEmpty, RefuseEscape, RefuseStale, Staged, Leave
  <1>2. ASSUME MayJournal(ops)
        PROVE  /\ SourcesExist(ops, disk) /\ DestinationsFree(ops, disk)
               /\ Kept(ops, disk, disk) /\ ops \in Seq(FileOp)
    <2>1. SourcesExist(ops, disk) /\ DestinationsFree(ops, disk)
      BY <1>2 DEF MayJournal, Staged, Disciplined
    <2>2. ops \in Seq(FileOp) /\ disk \in Disk
      BY SetsAssumption DEF Inv, TypeOK
    <2>3. QED
      BY <2>1, <2>2, KeptAtFirst
  <1>3. CASE WriteJournal(ops)
    <2>1. /\ MayJournal(ops) /\ journal' = ops /\ set' = ops /\ next' = 1
          /\ pc' = "exec" /\ undo' = << >> /\ before' = disk /\ disk' = disk
      BY <1>3 DEF WriteJournal
    <2>2. Len(undo') = 0 /\ Len(set') \in Nat
      BY <1>2, <2>1
    <2>3. UndoReverses'
      BY <2>1, <2>2 DEF UndoReverses
    <2>4. ExecInv'
      <3>1. LandsTo(ops, 0, disk, disk)
        BY DEF LandsTo, ValueAt, LastTouch
      <3>2. next' - 1 = 0
        BY <2>1
      <3>3. ~failed'
        BY <1>3 DEF WriteJournal
      <3>4. LandsTo(set', next' - 1, before', disk')
        BY <2>1, <3>1, <3>2
      <3>5. QED
        BY <2>2, <3>2, <3>3, <3>4 DEF ExecInv
    <2>5. UnwindInv' /\ ReplayInv'
      BY <2>1 DEF UnwindInv, ReplayInv
    <2>6. next' <= Len(set') + 1
      BY <2>1, <2>2
    <2>7. /\ SourcesExist(journal', before') /\ DestinationsFree(journal', before')
          /\ Kept(journal', before', disk') /\ journal' \in ChangeSets /\ set' = journal'
      BY <1>2, <2>1
    <2>8. QED
      BY <2>3, <2>4, <2>5, <2>6, <2>7, ToRunning
  <1>4. CASE JournalUnwritten(ops)
    <2>1. /\ MayJournal(ops) /\ journal' \in {NoJournal, TornJournal, ops}
          /\ pc' = "idle" /\ before' = disk /\ disk' = disk
      BY <1>4 DEF JournalUnwritten, Leave
    <2>2. QED
      BY <1>2, <2>1, ToIdle
  <1>5. QED
    BY <1>1, <1>3, <1>4 DEF Begin

\* Recovery starts: it has done nothing yet.
LEMMA RecoverStep ==
    ASSUME Inv, TypeOK', Recover
    PROVE  Inv'
  <1>1. /\ pc = "idle" /\ journal \in ChangeSets /\ pc' = "replay"
        /\ set' = journal /\ next' = 1
        /\ UNCHANGED <<disk, journal, before>>
    BY DEF Recover
  <1>2. /\ SourcesExist(journal, before) /\ DestinationsFree(journal, before)
        /\ Kept(journal, before, disk)
    BY <1>1 DEF Inv, InFlight, JournaledOverStaged, OthersUntouched, MovesSurvive, Kept
  <1>3. next' <= Len(set') + 1
    BY <1>1, SetsAssumption
  <1>4. ReplayInv'
    <2>1. next' - 1 = 0 /\ \A i \in 1..0 : FALSE
      BY <1>1
    <2>2. QED
      BY <2>1 DEF ReplayInv
  <1>5. UndoReverses' /\ ExecInv' /\ UnwindInv'
    BY <1>1 DEF UndoReverses, ExecInv, UnwindInv
  <1>6. QED
    BY <1>1, <1>2, <1>3, <1>4, <1>5, ToRunning

\* Every step keeps the invariant.
LEMMA InvStep ==
    ASSUME Disciplined, Inv, [Next]_vars
    PROVE  Inv'
  <1>1. TypeOK /\ TypeOK'
    BY TypeStep DEF Inv
  <1>2. ASSUME NEW ops \in ChangeSets, Begin(ops) PROVE Inv'
    BY <1>1, <1>2, BeginStep
  <1>3. CASE Exec
    BY <1>1, <1>3, ExecStep
  <1>4. CASE ExecImpossible \/ ExecFails
    BY <1>1, <1>4, StartUnwindStep DEF ExecImpossible, ExecFails
  <1>5. CASE ExecWriteFails
    BY <1>1, <1>5, ExecWriteFailsStep
  <1>6. CASE Finish \/ Abort \/ ReplayDone
    BY <1>1, <1>6, ToIdle DEF Finish, Abort, ReplayDone, Leave
  <1>7. CASE FinishFails \/ Torn \/ AbortFails \/ ReplayUncleared
    <2>1. pc # "idle" /\ pc' = "idle" /\ disk' = disk /\ UNCHANGED <<journal, before>>
      BY <1>7 DEF FinishFails, Torn, AbortFails, ReplayUncleared, Unwound, Leave
    <2>2. disk' \in HalfDone
      BY <2>1 DEF HalfDone
    <2>3. QED
      BY <1>1, <2>1, <2>2, KeptJournal
  <1>8. CASE ReplayFails \/ Crash
    BY <1>1, <1>8, KeptJournal DEF ReplayFails, Crash, Replaying, Leave
  <1>9. CASE Unwind
    BY <1>1, <1>9, UnwindStep
  <1>10. CASE UnwindFails
    BY <1>1, <1>10, UnwindFailsStep
  <1>11. CASE Recover
    BY <1>1, <1>11, RecoverStep
  <1>12. CASE RecoverCorrupt \/ RecoverUnread
    BY <1>1, <1>12, StaysIdle DEF RecoverCorrupt, RecoverUnread, Leave
  <1>13. CASE Replay
    BY <1>1, <1>13, ReplayStep
  <1>14. CASE Edit
    <2>1. pc' = "idle" /\ journal' = NoJournal
      BY <1>14 DEF Edit, Disciplined, Pending
    <2>2. QED
      BY <1>1, <2>1, ToIdle
  <1>15. CASE UNCHANGED vars
    BY <1>15
    DEF vars, Inv, TypeOK, WorksOnJournal, TornJournalUntouched,
        JournaledOverStaged, OthersUntouched, MovesSurvive, UndoReverses, Reverses,
        ExecInv, UnwindInv, ReplayInv, InFlight
  <1>16. QED
    BY <1>2, <1>3, <1>4, <1>5, <1>6, <1>7, <1>8, <1>9, <1>10, <1>11, <1>12,
       <1>13, <1>14, <1>15
    DEF Next, Progress, Fault

\* Nothing is pending in a workspace prov has not touched.
LEMMA InvInit ==
    ASSUME Init
    PROVE  Inv
  <1>1. pc = "idle" /\ journal \notin ChangeSets /\ journal # TornJournal
    BY SetsAssumption DEF Init
  <1>2. QED
    BY <1>1, TypeInit
    DEF Inv, WorksOnJournal, TornJournalUntouched, JournaledOverStaged,
        OthersUntouched, MovesSurvive, UndoReverses, ExecInv, UnwindInv,
        ReplayInv, InFlight

\* The invariant: what a running apply, unwind or replay has done so far, and
\* what a journal left behind still says of the disk.
THEOREM Invariance ==
    ASSUME Disciplined
    PROVE  Spec => []Inv
  <1>1. Init => Inv
    BY InvInit
  <1>2. Inv /\ [Next]_vars => Inv'
    BY InvStep
  <1>3. QED
    BY <1>1, <1>2, PTL DEF Spec

-----------------------------------------------------------------------------
(* Atomicity.                                                              *)

\* The abstract set lands as the detailed one does.
LEMMA SameLands ==
    ASSUME NEW ops, NEW d, NEW e
    PROVE  A!Lands(ops, d, e) <=> Lands(ops, d, e)
  BY DEF A!Lands, A!LandsTo, A!ValueAt, A!LastTouch, A!LeftAt, A!Touches,
         A!IsWrite, A!IsRename, A!IsRemove,
         Lands, LandsTo, ValueAt, LastTouch, LeftAt, Touches,
         IsWrite, IsRename, IsRemove

\* A set whose every op has run has landed, the moment its journal goes.
LEMMA LandStep ==
    ASSUME Disciplined, Inv, TypeOK', pc \in {"exec", "replay"}, AllDone,
           journal' = NoJournal, UNCHANGED disk
    PROVE  A!Land
  <1>1. pc # "idle"
    OBVIOUS
  <1>2. Lands(set, before, disk)
    BY ExecLands, ReplayLands
  <1>3. set \in ChangeSets /\ journal = set /\ journal # NoJournal
    BY <1>1, RunningFacts, SetsAssumption
  <1>4. Store = before /\ Store' = disk
    BY <1>3 DEF Store, Pending
  <1>5. Store' \in A!Disk
    BY <1>1, <1>4, RunningFacts DEF A!Disk, A!File, A!Whole, Disk, File, Whole
  <1>6. A!Lands(set, Store, Store')
    BY <1>2, <1>4, SameLands
  <1>7. QED
    BY <1>3, <1>5, <1>6 DEF A!Land

\* Every step is, seen through the journal, a whole set, an edit, or nothing.
LEMMA AtomicStep ==
    ASSUME Disciplined, Inv, Inv', [Next]_vars
    PROVE  [A!Next]_Store
  <1>1. TypeOK /\ TypeOK'
    BY DEF Inv
  <1>2. ASSUME UNCHANGED <<journal, before>>, Pending \/ UNCHANGED disk
        PROVE  UNCHANGED Store
    BY <1>2 DEF Store, Pending
  <1>3. ASSUME NEW ops \in ChangeSets, Begin(ops) PROVE UNCHANGED Store
    <2>1. CASE ApplyEmpty(ops) \/ RefuseEscape(ops) \/ RefuseStale(ops)
      BY <1>2, <2>1 DEF ApplyEmpty, RefuseEscape, RefuseStale
    <2>2. CASE WriteJournal(ops) \/ JournalUnwritten(ops)
      BY <2>2 DEF WriteJournal, JournalUnwritten, MayJournal, Store, Pending
    <2>3. QED
      BY <1>3, <2>1, <2>2 DEF Begin
  <1>4. pc # "idle" => Pending
    BY SetsAssumption DEF Inv, WorksOnJournal, InFlight, Pending
  <1>5. CASE Exec \/ ExecImpossible \/ ExecFails \/ ExecWriteFails
    BY <1>2, <1>4, <1>5
    DEF Exec, ExecImpossible, ExecFails, ExecWriteFails, StartUnwind, Executing
  <1>6. CASE Unwind \/ UnwindFails \/ Torn \/ AbortFails
    BY <1>2, <1>4, <1>6
    DEF Unwind, UnwindFails, Torn, AbortFails, Unwinding, Unwound
  <1>7. CASE Replay \/ ReplayFails \/ ReplayUncleared \/ FinishFails \/ Crash
    BY <1>2, <1>4, <1>7
    DEF Replay, ReplayFails, ReplayUncleared, FinishFails, Crash, Replaying
  <1>8. CASE Recover \/ RecoverCorrupt \/ RecoverUnread
    BY <1>2, <1>8 DEF Recover, RecoverCorrupt, RecoverUnread
  <1>9. CASE Finish \/ ReplayDone
    BY <1>1, <1>9, LandStep DEF Finish, ReplayDone, A!Next
  <1>10. CASE Abort
    <2>1. disk = before /\ Pending /\ journal' = NoJournal /\ UNCHANGED <<disk, before>>
      BY <1>4, <1>10, UnwindRestores DEF Abort, Unwound
    <2>2. QED
      BY <2>1 DEF Store, Pending
  <1>11. CASE Edit
    <2>1. ~Pending /\ ~Pending'
      BY <1>11 DEF Edit, Disciplined, Pending
    <2>2. Store = disk /\ Store' = disk'
      BY <2>1 DEF Store
    <2>3. QED
      BY <1>11, <2>2 DEF Edit, A!Next, A!Edit, A!Whole, Whole
  <1>12. CASE UNCHANGED vars
    BY <1>12 DEF vars, Store, Pending
  <1>13. QED
    BY <1>3, <1>5, <1>6, <1>7, <1>8, <1>9, <1>10, <1>11, <1>12
    DEF Next, Progress, Fault

\* "Either the whole set lands or the workspace is as it was": for every
\* workspace, every family of disciplined sets, every fault and every crash, a
\* prov workspace changes by whole sets and by its owners' edits alone.
THEOREM ChangesAreAtomic ==
    ASSUME Disciplined
    PROVE  Spec => Atomic
  <1>1. Init => A!Init
    <2> SUFFICES ASSUME Init PROVE A!Init
      OBVIOUS
    <2>1. Store = disk
      BY DEF Init, Store, Pending
    <2>2. QED
      BY <2>1 DEF Init, A!Init, A!Whole, Whole
  <1>2. Inv /\ Inv' /\ [Next]_vars => [A!Next]_Store
    BY AtomicStep
  <1>3. Spec => []Inv
    BY Invariance
  <1>4. QED
    BY <1>1, <1>2, <1>3, PTL DEF Spec, Atomic, A!Spec

-----------------------------------------------------------------------------
(* The safety invariants.                                                  *)

\* No state between two steps, and none a crash leaves, has lost a document
\* the change moves.
THEOREM MovedFilesSurvive ==
    ASSUME Disciplined
    PROVE  Spec => []MovesSurvive
  <1>1. Inv => MovesSurvive
    BY DEF Inv
  <1>2. QED
    BY <1>1, Invariance, PTL

\* Recovery never meets a rename with both ends missing: replay can always go on.
THEOREM ReplayGoesOn ==
    ASSUME Disciplined
    PROVE  Spec => []ReplayNeverStuck
  <1>1. Inv => ReplayNeverStuck
    <2> SUFFICES ASSUME Inv, Replaying, IsRename(Op)
                 PROVE  disk[Op.from] # Absent \/ disk[Op.to] # Absent
      BY DEF ReplayNeverStuck, Stuck
    <2>1. pc # "idle" /\ ~AllDone
      BY DEF Replaying
    <2>2. QED
      BY <2>1, OpFacts, RunningFacts, KeptNotStuck
  <1>2. QED
    BY <1>1, Invariance, PTL

\* A journal that does not decode was never acted on.
THEOREM TornJournalsAreHarmless ==
    ASSUME Disciplined
    PROVE  Spec => []TornJournalUntouched
  <1>1. Inv => TornJournalUntouched
    BY DEF Inv
  <1>2. QED
    BY <1>1, Invariance, PTL

\* What a call reports: each return checks against the state that made it.
LEMMA OutcomeStep ==
    ASSUME Disciplined, Inv, OutcomeIsTrue, [Next]_vars
    PROVE  OutcomeIsTrue'
  <1> SUFFICES ASSUME pc' = "idle"
               PROVE  /\ outcome' \in {"ok", "recovered"} =>
                            ~Pending' /\ Lands(set', before', disk')
                      /\ outcome' = "error" /\ ~Pending' => disk' = before'
                      /\ outcome' = "torn" => journal' = set'
    BY DEF OutcomeIsTrue
  <1>1. ASSUME NEW ops \in ChangeSets, Begin(ops) PROVE OutcomeIsTrue'
    BY <1>1
    DEF Begin, ApplyEmpty, RefuseEscape, RefuseStale, WriteJournal,
        JournalUnwritten, Leave, OutcomeIsTrue
  <1>2. CASE Finish \/ ReplayDone
    <2>1. Lands(set, before, disk)
      BY <1>2, ExecLands, ReplayLands DEF Finish, ReplayDone
    <2>2. QED
      BY <1>2, <2>1 DEF Finish, ReplayDone, Leave, Pending
  <1>3. CASE Abort
    BY <1>3, UnwindRestores DEF Abort, Leave
  <1>4. CASE Torn \/ AbortFails
    BY <1>4, RunningFacts DEF Torn, AbortFails, Unwound, Leave
  <1>5. CASE \/ FinishFails \/ ReplayFails \/ ReplayUncleared
             \/ RecoverCorrupt \/ RecoverUnread \/ Crash
    BY <1>5
    DEF FinishFails, ReplayFails, ReplayUncleared, RecoverCorrupt, RecoverUnread,
        Crash, Leave
  <1>6. CASE Exec \/ ExecImpossible \/ ExecFails \/ ExecWriteFails
    BY <1>6
    DEF Exec, ExecImpossible, ExecFails, ExecWriteFails, Executing, StartUnwind
  <1>7. CASE Unwind \/ UnwindFails \/ Recover \/ Replay
    BY <1>7 DEF Unwind, UnwindFails, Unwinding, Recover, Replay, Replaying
  <1>8. CASE Edit
    BY <1>8 DEF Edit, Disciplined, Pending
  <1>9. CASE UNCHANGED vars
    BY <1>9 DEF vars, OutcomeIsTrue, Pending
  <1>10. QED
    BY <1>1, <1>2, <1>3, <1>4, <1>5, <1>6, <1>7, <1>8, <1>9
    DEF Next, Progress, Fault, OutcomeIsTrue

\* A success landed the set, a clean error changed nothing, and a torn change
\* kept the journal that will finish it.
THEOREM OutcomesAreTrue ==
    ASSUME Disciplined
    PROVE  Spec => []OutcomeIsTrue
  <1>1. Init => OutcomeIsTrue
    BY DEF Init, OutcomeIsTrue
  <1>2. Inv /\ OutcomeIsTrue /\ [Next]_vars => OutcomeIsTrue'
    BY OutcomeStep
  <1>3. QED
    BY <1>1, <1>2, Invariance, PTL DEF Spec

-----------------------------------------------------------------------------
(* Containment.                                                            *)

\* What a set never touches, a failed or dying write of it does not either.
LEMMA HalfDoneElsewhere ==
    ASSUME Disciplined, Inv, pc # "idle", NEW e \in HalfDone, NEW p \in Path,
           \A i \in DOMAIN set : ~Touches(set[i], p)
    PROVE  e[p] = disk[p]
  <1>1. CASE e = disk
    BY <1>1
  <1>2. CASE (Executing \/ Replaying) /\ IsWrite(Op) /\ e # disk
    <2>1. Op = set[next] /\ Op \in FileOp /\ next \in DOMAIN set
      BY <1>2, OpFacts DEF Executing, Replaying
    <2>2. PICK c : e = [disk EXCEPT ![Op.path] = c]
      BY <1>2 DEF HalfDone
    <2>3. Op.path # p
      BY <1>2, <2>1, OpKinds DEF Touches
    <2>4. QED
      BY <2>2, <2>3, RunningFacts DEF Disk
  <1>3. CASE ~((Executing \/ Replaying) /\ IsWrite(Op)) /\ e # disk
    <2>1. Unwinding /\ Step.kind = "restore"
      BY <1>3 DEF HalfDone
    <2>2. PICK c : e = [disk EXCEPT ![Step.path] = c]
      BY <1>3, <2>1 DEF HalfDone
    <2>3. ~IsRename(set[Len(undo)]) /\ Step.path = set[Len(undo)].path
      BY <2>1, StepFacts DEF Reverses
    <2>4. Step.path # p
      BY <2>1, <2>3, StepFacts DEF Touches
    <2>5. QED
      BY <2>2, <2>4, RunningFacts DEF Disk
  <1>4. QED
    BY <1>1, <1>2, <1>3

\* Nor does any other step of apply, unwind or replay.
LEMMA StepElsewhere ==
    ASSUME Disciplined, Inv, [Next]_vars, ~Edit, NEW p \in Path,
           pc # "idle" => \A i \in DOMAIN set : ~Touches(set[i], p)
    PROVE  disk'[p] = disk[p]
  <1>1. ASSUME NEW ops \in ChangeSets, Begin(ops) PROVE disk' = disk
    BY <1>1
    DEF Begin, ApplyEmpty, RefuseEscape, RefuseStale, WriteJournal, JournalUnwritten
  <1>2. ASSUME pc # "idle", ~AllDone
        PROVE  Effect(Op, disk)[p] = disk[p]
    BY <1>2, OpFacts, RunningFacts, EffectFacts
  <1>3. CASE Exec
    BY <1>2, <1>3 DEF Exec, Executing
  <1>4. CASE Replay
    BY <1>2, <1>4 DEF Replay, Replaying
  <1>5. CASE ExecWriteFails
    <2>1. disk' \in HalfDone /\ pc # "idle"
      BY <1>5 DEF ExecWriteFails, HalfDone, Executing
    <2>2. QED
      BY <2>1, HalfDoneElsewhere
  <1>6. CASE UnwindFails
    <2>1. disk' \in HalfDone /\ pc # "idle"
      BY <1>6 DEF UnwindFails, HalfDone, Unwinding, Executing, Replaying
    <2>2. QED
      BY <2>1, HalfDoneElsewhere
  <1>7. CASE ReplayFails \/ Crash
    BY <1>7, HalfDoneElsewhere DEF ReplayFails, Crash, Replaying
  <1>8. CASE Unwind
    <2> DEFINE op == set[Len(undo)]
    <2>1. /\ Unwinding /\ pc # "idle" /\ Reverses(Len(undo), Step)
          /\ op \in FileOp /\ ~Touches(op, p) /\ disk \in Disk
      BY <1>8, StepFacts, RunningFacts DEF Unwind
    <2>2. CASE IsRename(op)
      <3>1. /\ Step.kind = "rename" /\ Step.from = op.to /\ Step.to = op.from
            /\ p # op.from /\ p # op.to
        BY <2>1, <2>2 DEF Reverses, Touches
      <3>2. disk' = [disk EXCEPT ![op.from] = disk[op.to], ![op.to] = Absent]
        BY <1>8, <3>1, MoveEffect DEF Unwind
      <3>3. QED
        BY <2>1, <3>1, <3>2 DEF Disk
    <2>3. CASE ~IsRename(op)
      <3>1. Step.path # p /\ Step.kind \in {"restore", "delete"}
        BY <2>1, <2>3 DEF Reverses, Touches
      <3>2. PICK c : disk' = [disk EXCEPT ![Step.path] = c]
        BY <1>8, <3>1 DEF Unwind
      <3>3. QED
        BY <2>1, <3>1, <3>2 DEF Disk
    <2>4. QED
      BY <2>2, <2>3
  <1>9. CASE \/ ExecImpossible \/ ExecFails \/ Finish \/ FinishFails
             \/ Abort \/ Torn \/ AbortFails
             \/ Recover \/ RecoverCorrupt \/ RecoverUnread
             \/ ReplayDone \/ ReplayUncleared \/ UNCHANGED vars
    BY <1>9
    DEF ExecImpossible, ExecFails, StartUnwind, Finish, FinishFails, Abort, Torn,
        AbortFails, Recover, RecoverCorrupt, RecoverUnread, ReplayDone,
        ReplayUncleared, vars
  <1>10. QED
    BY <1>1, <1>3, <1>4, <1>5, <1>6, <1>7, <1>8, <1>9 DEF Next, Progress, Fault

\* No step of prov, and no failure or crash of one, changes a path outside the
\* root, whatever set a caller assembled.
THEOREM NothingEscapes ==
    ASSUME Disciplined
    PROVE  Spec => StaysInRoot
  <1>1. Init => JournalInRoot
    BY SetsAssumption DEF Init, JournalInRoot, InFlight
  <1>2. Inv /\ JournalInRoot /\ [Next]_vars => JournalInRoot'
    <2> SUFFICES ASSUME Inv, JournalInRoot, [Next]_vars,
                        journal' \in ChangeSets, journal' # journal
                 PROVE  InRoot(journal')
      BY DEF JournalInRoot, InFlight
    <2>1. PICK ops \in ChangeSets : WriteJournal(ops) \/ JournalUnwritten(ops)
      BY SetsAssumption
      DEF Next, Begin, Progress, Fault, vars, ApplyEmpty, RefuseEscape, RefuseStale,
          Exec, ExecImpossible, ExecFails, StartUnwind, ExecWriteFails, Finish,
          FinishFails, Unwind, UnwindFails, Abort, Torn, AbortFails, Recover,
          RecoverCorrupt, RecoverUnread, Replay, ReplayFails, ReplayDone,
          ReplayUncleared, Crash, Edit
    <2>2. journal' = ops /\ InRoot(ops)
      BY <2>1, SetsAssumption DEF WriteJournal, JournalUnwritten, MayJournal, Pending
    <2>3. QED
      BY <2>2
  <1>3. Inv /\ JournalInRoot /\ [Next]_vars
            => [\A p \in Outside : disk'[p] = disk[p]]_vars
    <2> SUFFICES ASSUME Inv, JournalInRoot, [Next]_vars, NEW p \in Outside
                 PROVE  disk'[p] = disk[p]
      OBVIOUS
    <2>1. p \in Path
      BY SetsAssumption
    <2>2. CASE Edit
      BY <2>1, <2>2 DEF Edit, Inv, TypeOK, Disk
    <2>3. CASE ~Edit
      <3>1. pc # "idle" => \A i \in DOMAIN set : ~Touches(set[i], p)
        BY DEF Inv, WorksOnJournal, JournalInRoot, InRoot
      <3>2. QED
        BY <2>1, <2>3, <3>1, StepElsewhere
    <2>4. QED
      BY <2>2, <2>3
  <1>4. QED
    BY <1>1, <1>2, <1>3, Invariance, PTL DEF Spec, StaysInRoot

=============================================================================
