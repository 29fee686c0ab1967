-------------------------- MODULE RecycleBinProofs --------------------------
(***************************************************************************)
(* What RecycleBin guarantees for all paths, documents and bounds, while   *)
(* no document is astray: its inductive invariant Inv, kept by each        *)
(* operation, and from it that every document and every body is in one     *)
(* place, that the bin's records are its contents, that contents and       *)
(* part_of agree, that no record is lost, and that every set committed may *)
(* be replayed.  Each operation has an operator for what it makes of the   *)
(* files, which a lemma gets from its commit, and one for what that makes  *)
(* of the documents, from which the invariant follows.                     *)
(***************************************************************************)
EXTENDS RecycleBin, FiniteSetTheorems, WellFoundedInduction, TLAPS

-----------------------------------------------------------------------------
(* Committing a set whose ops touch different places.                      *)

\* A set of naturals that is not empty has a least element.
LEMMA Least ==
    ASSUME NEW S, S \subseteq Nat, S # {}
    PROVE  \E m \in S : \A k \in S : m <= k
  <1> DEFINE R == {ss \in Nat \X Nat : ss[1] < ss[2]}
  <1>1. IsWellFoundedOn(R, Nat)
    BY NatLessThanWellFounded DEF OpToRel
  <1>2. PICK m \in S : \A k \in S : ~(<<k, m>> \in R)
    BY <1>1, WFMin
  <1>3. \A k \in S : ~(k < m)
    BY <1>2
  <1>4. QED
    BY <1>3

\* The states a set goes through are what After says.
LEMMA AfterIs ==
    ASSUME NEW ops \in Seq(FileOp), NEW d
    PROVE  After(ops, d) = [k \in 0..Len(ops) |->
                IF k = 0 THEN d ELSE Effect(ops[k], After(ops, d)[k - 1])]
  <1> DEFINE Run(n, f) == f = [k \in 0..n |->
                                IF k = 0 THEN d ELSE Effect(ops[k], f[k - 1])]
             S == {n \in 0..Len(ops) : ~\E f : Run(n, f)}
  <1>1. S = {}
    <2> SUFFICES ASSUME S # {} PROVE FALSE
      OBVIOUS
    <2>0. S \subseteq Nat
      OBVIOUS
    <2> HIDE DEF S
    <2>1. PICK m \in S : \A k \in S : m <= k
      BY <2>0, Least
    <2>a. m \in 0..Len(ops) /\ ~\E f : Run(m, f)
      BY DEF S
    <2>b. Len(ops) \in Nat /\ m \in Nat
      BY <2>a
    <2>2. CASE m = 0
      <3>1. Run(0, [k \in 0..0 |-> d])
        OBVIOUS
      <3>2. QED
        BY <2>a, <2>2, <3>1
    <2>3. CASE m # 0
      <3>1. m \in Nat /\ m - 1 \in 0..Len(ops) /\ m - 1 \in 0..m /\ ~(m <= m - 1)
        BY <2>a, <2>b, <2>3
      <3>0. m - 1 \notin S
        BY <2>1, <3>1
      <3>2. PICK f : Run(m - 1, f)
        BY <3>0, <3>1 DEF S
      <3> DEFINE g == [k \in 0..m |-> IF k = m THEN Effect(ops[m], f[m - 1]) ELSE f[k]]
      <3>3. \A k \in 0..(m-1) : f[k] = IF k = 0 THEN d ELSE Effect(ops[k], f[k - 1])
        BY <3>2
      <3>4. \A k \in 0..m : g[k] = IF k = 0 THEN d ELSE Effect(ops[k], g[k - 1])
        <4> TAKE k \in 0..m
        <4>1. CASE k = m
          BY <4>1, <2>3, <3>1
        <4>2. CASE k # m /\ k # 0
          <5>1. k \in 0..(m-1) /\ k - 1 \in 0..m /\ k - 1 # m
            BY <4>2, <3>1
          <5>2. g[k] = f[k] /\ g[k-1] = f[k-1]
            BY <5>1, <4>2
          <5> QED
            BY <5>1, <5>2, <4>2, <3>3
        <4>3. CASE k = 0
          <5>1. 0 \in 0..(m-1)
            BY <3>1, <2>3
          <5> QED
            BY <5>1, <4>3, <3>3, <2>3
        <4> QED
          BY <4>1, <4>2, <4>3
      <3>5. Run(m, g)
        BY <3>4
      <3>6. QED
        BY <2>a, <3>5
    <2>4. QED
      BY <2>2, <2>3
  <1>2. \E f : Run(Len(ops), f)
    BY <1>1
  <1>3. QED
    BY <1>2 DEF After

\* What the file at a place may be.
Text == Node \cup Body \cup Index \cup {Absent}

\* The three kinds of op, and what each carries.
LEMMA OpKinds ==
    ASSUME NEW op \in FileOp
    PROVE  /\ IsWrite(op) \/ IsRename(op) \/ IsRemove(op)
           /\ ~(IsWrite(op) /\ IsRename(op))
           /\ ~(IsWrite(op) /\ IsRemove(op))
           /\ ~(IsRename(op) /\ IsRemove(op))
           /\ IsWrite(op) => op.path \in Place /\ op.bytes \in Text
           /\ IsRemove(op) => op.path \in Place
           /\ IsRename(op) => op.from \in Place /\ op.to \in Place /\ op.from # op.to
  BY DEF FileOp, IsWrite, IsRename, IsRemove, Text

\* An op leaves alone what it does not touch, and leaves LeftAt at the rest.
LEMMA EffectIs ==
    ASSUME NEW op \in FileOp, NEW d \in [Place -> Text]
    PROVE  /\ Effect(op, d) \in [Place -> Text]
           /\ \A p \in Place : ~Touches(op, p) => Effect(op, d)[p] = d[p]
           /\ \A p \in Place : Touches(op, p) => Effect(op, d)[p] = LeftAt(op, p, d)
  <1>1. CASE IsWrite(op)
    <2>1. Effect(op, d) = [d EXCEPT ![op.path] = op.bytes]
      BY <1>1, OpKinds DEF Effect
    <2>2. \A p \in Place : LeftAt(op, p, d) = op.bytes
      BY <1>1, OpKinds DEF LeftAt
    <2>3. QED
      BY <1>1, <2>1, <2>2, OpKinds DEF Touches
  <1>2. CASE IsRename(op)
    <2>1. Effect(op, d) = [d EXCEPT ![op.to] = d[op.from], ![op.from] = Absent]
      BY <1>2, OpKinds DEF Effect
    <2>2. LeftAt(op, op.to, d) = d[op.from] /\ LeftAt(op, op.from, d) = Absent
      BY <1>2, OpKinds DEF LeftAt
    <2>3. Absent \in Text /\ op.from \in Place /\ op.to \in Place /\ op.from # op.to
      BY <1>2, OpKinds DEF Text
    <2>4. Effect(op, d) \in [Place -> Text]
      BY <2>1, <2>3
    <2>5. QED
      BY <1>2, <2>1, <2>2, <2>3, <2>4 DEF Touches
  <1>3. CASE IsRemove(op)
    <2>1. Effect(op, d) = [d EXCEPT ![op.path] = Absent]
      BY <1>3, OpKinds DEF Effect
    <2>2. \A p \in Place : LeftAt(op, p, d) = Absent
      BY <1>3, OpKinds DEF LeftAt
    <2>3. QED
      BY <1>3, <2>1, <2>2, OpKinds DEF Touches, Text
  <1>4. QED
    BY <1>1, <1>2, <1>3, OpKinds

\* What a rename touches, no other op of the set does.
Apart(ops) ==
    \A i, j \in DOMAIN ops : i # j /\ IsRename(ops[i]) =>
        \A p \in Place : Touches(ops[i], p) => ~Touches(ops[j], p)

\* e is what each op of the set leaves at what it touches, and d elsewhere.
Landed(ops, d, e) ==
    \A p \in Place :
        /\ (\A i \in DOMAIN ops : ~Touches(ops[i], p)) => e[p] = d[p]
        /\ \A i \in DOMAIN ops : Touches(ops[i], p) => e[p] = LeftAt(ops[i], p, d)

\* The first k ops have been carried out.
Midway(ops, d, e, k) ==
    /\ After(ops, d)[k] \in [Place -> Text]
    /\ \A p \in Place :
        /\ (\A i \in 1..k : ~Touches(ops[i], p)) => After(ops, d)[k][p] = d[p]
        /\ (\E i \in 1..k : Touches(ops[i], p)) => After(ops, d)[k][p] = e[p]

\* One op carried out more.
LEMMA MidwayStep ==
    ASSUME NEW ops \in Seq(FileOp), Apart(ops),
           NEW d \in [Place -> Text], NEW e \in [Place -> Text], Landed(ops, d, e),
           NEW k \in 1..Len(ops), Midway(ops, d, e, k - 1)
    PROVE  Midway(ops, d, e, k)
  <1> DEFINE a == After(ops, d)[k - 1]
             b == After(ops, d)[k]
             op == ops[k]
  <1>1. op \in FileOp /\ k \in DOMAIN ops /\ \A i \in 1..k : i \in DOMAIN ops
    OBVIOUS
  <1>2. b = Effect(op, a)
    <2>1. k \in 0..Len(ops) /\ k # 0
      OBVIOUS
    <2>2. QED
      BY <2>1, AfterIs
  <1>3. a \in [Place -> Text]
    BY DEF Midway
  <1>4. \A i \in 1..k : i = k \/ i \in 1..(k - 1)
    OBVIOUS
  <1>5. \A i \in 1..(k - 1) : i \in 1..k
    OBVIOUS
  <1>6. /\ b \in [Place -> Text]
        /\ \A p \in Place : ~Touches(op, p) => b[p] = a[p]
        /\ \A p \in Place : Touches(op, p) => b[p] = LeftAt(op, p, a)
    BY <1>1, <1>2, <1>3, EffectIs
  <1>7. ASSUME NEW p \in Place, Touches(op, p)
        PROVE  b[p] = e[p]
    <2>1. b[p] = LeftAt(op, p, a) /\ e[p] = LeftAt(op, p, d)
      BY <1>1, <1>6, <1>7 DEF Landed
    <2>2. CASE IsRename(op)
      <3>1. op.from \in Place /\ op.to \in Place /\ Touches(op, op.from)
        BY <1>1, <2>2, OpKinds DEF Touches
      <3>2. \A i \in 1..(k - 1) : ~Touches(ops[i], op.from)
        BY <1>1, <1>5, <2>2, <3>1 DEF Apart
      <3>3. a[op.from] = d[op.from]
        BY <3>1, <3>2 DEF Midway
      <3>4. QED
        BY <1>1, <2>1, <2>2, <3>3, OpKinds DEF LeftAt
    <2>3. CASE ~IsRename(op)
      BY <1>1, <2>1, <2>3, OpKinds DEF LeftAt
    <2>4. QED
      BY <2>2, <2>3
  <1>8. ASSUME NEW p \in Place
        PROVE  /\ (\A i \in 1..k : ~Touches(ops[i], p)) => b[p] = d[p]
               /\ (\E i \in 1..k : Touches(ops[i], p)) => b[p] = e[p]
    <2>1. CASE Touches(op, p)
      BY <1>7, <2>1
    <2>2. CASE ~Touches(op, p)
      <3>1. b[p] = a[p]
        BY <1>6, <2>2
      <3>2. (\E i \in 1..k : Touches(ops[i], p)) => \E i \in 1..(k - 1) : Touches(ops[i], p)
        BY <1>4, <2>2
      <3>3. (\A i \in 1..k : ~Touches(ops[i], p)) => \A i \in 1..(k - 1) : ~Touches(ops[i], p)
        BY <1>5
      <3>4. QED
        BY <3>1, <3>2, <3>3 DEF Midway
    <2>3. QED
      BY <2>1, <2>2
  <1>9. QED
    BY <1>6, <1>8 DEF Midway

\* Every prefix of a set lands as far as it goes.
LEMMA MidwayAlways ==
    ASSUME NEW ops \in Seq(FileOp), Apart(ops),
           NEW d \in [Place -> Text], NEW e \in [Place -> Text], Landed(ops, d, e)
    PROVE  \A k \in 0..Len(ops) : Midway(ops, d, e, k)
  <1> DEFINE S == {k \in 0..Len(ops) : ~Midway(ops, d, e, k)}
  <1> SUFFICES ASSUME S # {} PROVE FALSE
    OBVIOUS
  <1>1. S \subseteq Nat
    OBVIOUS
  <1> HIDE DEF S
  <1>2. PICK m \in S : \A k \in S : m <= k
    BY <1>1, Least
  <1>3. m \in 0..Len(ops) /\ ~Midway(ops, d, e, m)
    BY DEF S
  <1>4. CASE m = 0
    <2>1. After(ops, d)[0] = d
      <3>1. 0 \in 0..Len(ops)
        OBVIOUS
      <3>2. QED
        BY <3>1, AfterIs
    <2>2. Midway(ops, d, e, 0)
      BY <2>1 DEF Midway
    <2>3. QED
      BY <1>3, <1>4, <2>2
  <1>5. CASE m # 0
    <2>1. m \in 1..Len(ops) /\ m - 1 \in 0..Len(ops) /\ ~(m <= m - 1)
      BY <1>3, <1>5
    <2>2. m - 1 \notin S
      BY <1>2, <2>1
    <2>3. Midway(ops, d, e, m - 1)
      BY <2>1, <2>2 DEF S
    <2>4. QED
      BY <1>3, <2>1, <2>3, MidwayStep
  <1>6. QED
    BY <1>4, <1>5

\* A set whose renames are apart leaves at each place what its ops leave there.
LEMMA Landing ==
    ASSUME NEW ops \in Seq(FileOp), Apart(ops),
           NEW d \in [Place -> Text], NEW e \in [Place -> Text], Landed(ops, d, e)
    PROVE  After(ops, d)[Len(ops)] = e
  <1> DEFINE b == After(ops, d)[Len(ops)]
  <1>1. Midway(ops, d, e, Len(ops))
    <2>1. Len(ops) \in 0..Len(ops)
      OBVIOUS
    <2>2. QED
      BY <2>1, MidwayAlways
  <1>2. b \in [Place -> Text]
    BY <1>1 DEF Midway
  <1>3. ASSUME NEW p \in Place PROVE b[p] = e[p]
    <2>1. 1..Len(ops) = DOMAIN ops
      OBVIOUS
    <2>2. QED
      BY <1>1, <2>1 DEF Midway, Landed
  <1>4. QED
    BY <1>2, <1>3

-----------------------------------------------------------------------------
(* Sets put together from parts.                                           *)

\* The ops of a set, in no order.
Ops(s) == {s[i] : i \in DOMAIN s}

\* No two of the ops touch one place.
Solo(s) ==
    \A i, j \in DOMAIN s : i # j =>
        \A p \in Place : ~(Touches(s[i], p) /\ Touches(s[j], p))

\* No place is touched by ops of both kinds.
Clear(A, B) == \A a \in A, b \in B, p \in Place : ~(Touches(a, p) /\ Touches(b, p))

\* A set of one op.
LEMMA OneOp ==
    ASSUME NEW op \in FileOp
    PROVE  <<op>> \in Seq(FileOp) /\ Ops(<<op>>) = {op} /\ Solo(<<op>>)
  <1>1. <<op>> \in Seq(FileOp) /\ DOMAIN <<op>> = {1} /\ <<op>>[1] = op
    OBVIOUS
  <1>2. QED
    BY <1>1 DEF Ops, Solo

\* A set of one op or none.
LEMMA MaybeOp ==
    ASSUME NEW c \in BOOLEAN, NEW op, c => op \in FileOp
    PROVE  /\ If(c, op) \in Seq(FileOp) /\ Solo(If(c, op))
           /\ Ops(If(c, op)) = IF c THEN {op} ELSE {}
  <1>1. CASE c
    BY <1>1, OneOp DEF If
  <1>2. CASE ~c
    <2>1. << >> \in Seq(FileOp) /\ DOMAIN << >> = {}
      OBVIOUS
    <2>2. QED
      BY <1>2, <2>1 DEF If, Ops, Solo
  <1>3. QED
    BY <1>1, <1>2

\* One set after another.
LEMMA OpsCat ==
    ASSUME NEW s \in Seq(FileOp), NEW t \in Seq(FileOp)
    PROVE  s \o t \in Seq(FileOp) /\ Ops(s \o t) = Ops(s) \cup Ops(t)
  <1>1. /\ s \o t \in Seq(FileOp) /\ DOMAIN (s \o t) = 1..(Len(s) + Len(t))
        /\ DOMAIN s = 1..Len(s) /\ DOMAIN t = 1..Len(t) /\ Len(s) \in Nat /\ Len(t) \in Nat
    OBVIOUS
  <1>2. \A i \in 1..Len(s) : i \in DOMAIN (s \o t) /\ (s \o t)[i] = s[i]
    OBVIOUS
  <1>3. \A i \in 1..Len(t) : i + Len(s) \in DOMAIN (s \o t) /\ (s \o t)[i + Len(s)] = t[i]
    OBVIOUS
  <1>4. \A i \in DOMAIN (s \o t) : \/ i \in 1..Len(s) /\ (s \o t)[i] = s[i]
                                   \/ i - Len(s) \in 1..Len(t) /\ (s \o t)[i] = t[i - Len(s)]
    OBVIOUS
  <1>5. Ops(s \o t) \subseteq Ops(s) \cup Ops(t)
    BY <1>1, <1>4 DEF Ops
  <1>6. Ops(s) \subseteq Ops(s \o t)
    BY <1>1, <1>2 DEF Ops
  <1>7. Ops(t) \subseteq Ops(s \o t)
    <2> SUFFICES ASSUME NEW i \in 1..Len(t) PROVE t[i] \in Ops(s \o t)
      BY <1>1 DEF Ops
    <2> QED
      BY <1>3 DEF Ops
  <1>8. QED
    BY <1>1, <1>5, <1>6, <1>7

\* One set after another that touches other places.
LEMMA SoloCat ==
    ASSUME NEW s \in Seq(FileOp), NEW t \in Seq(FileOp),
           Solo(s), Solo(t), Clear(Ops(s), Ops(t))
    PROVE  Solo(s \o t)
  <1>1. /\ DOMAIN s = 1..Len(s) /\ DOMAIN t = 1..Len(t) /\ Len(s) \in Nat
    OBVIOUS
  <1>2. \A i \in DOMAIN (s \o t) : \/ i \in 1..Len(s) /\ (s \o t)[i] = s[i]
                                   \/ i - Len(s) \in 1..Len(t) /\ (s \o t)[i] = t[i - Len(s)]
    OBVIOUS
  <1> SUFFICES ASSUME NEW i \in DOMAIN (s \o t), NEW j \in DOMAIN (s \o t), i # j,
                      NEW p \in Place,
                      Touches((s \o t)[i], p), Touches((s \o t)[j], p)
               PROVE  FALSE
    BY DEF Solo
  <1>3. i \in Int /\ j \in Int
    OBVIOUS
  <1>4. \A k \in 1..Len(s) : s[k] \in Ops(s)
    BY <1>1 DEF Ops
  <1>5. \A k \in 1..Len(t) : t[k] \in Ops(t)
    BY <1>1 DEF Ops
  <1>6. CASE i \in 1..Len(s) /\ (s \o t)[i] = s[i]
    <2>1. CASE j \in 1..Len(s) /\ (s \o t)[j] = s[j]
      BY <1>1, <1>6, <2>1 DEF Solo
    <2>2. CASE j - Len(s) \in 1..Len(t) /\ (s \o t)[j] = t[j - Len(s)]
      BY <1>4, <1>5, <1>6, <2>2 DEF Clear
    <2>3. QED
      BY <1>2, <2>1, <2>2
  <1>7. CASE i - Len(s) \in 1..Len(t) /\ (s \o t)[i] = t[i - Len(s)]
    <2>1. CASE j \in 1..Len(s) /\ (s \o t)[j] = s[j]
      BY <1>4, <1>5, <1>7, <2>1 DEF Clear
    <2>2. CASE j - Len(s) \in 1..Len(t) /\ (s \o t)[j] = t[j - Len(s)]
      <3>1. i - Len(s) # j - Len(s)
        BY <1>1, <1>3
      <3>2. QED
        BY <1>1, <1>7, <2>2, <3>1 DEF Solo
    <2>3. QED
      BY <1>2, <2>1, <2>2
  <1>8. QED
    BY <1>2, <1>6, <1>7

\* Committing a set whose ops touch no place twice: it lands as its ops say, or
\* not at all; and it lands if each op finds its file.
LEMMA CommitSolo ==
    ASSUME NEW ops \in Seq(FileOp), Solo(ops), Commit(ops),
           disk \in [Place -> Text], NEW e \in [Place -> Text],
           \A p \in Place : (\A op \in Ops(ops) : ~Touches(op, p)) => e[p] = disk[p],
           \A p \in Place, op \in Ops(ops) : Touches(op, p) => e[p] = LeftAt(op, p, disk)
    PROVE  /\ staged' = ops
           /\ disk' = e \/ disk' = disk
           /\ (\A op \in Ops(ops) : Possible(op, disk)) => disk' = e
           /\ ReplaySafe(ops)
  <1>1. \A i \in DOMAIN ops : ops[i] \in Ops(ops) /\ ops[i] \in FileOp
    BY DEF Ops
  <1>2. Apart(ops)
    BY DEF Solo, Apart
  <1>3. Landed(ops, disk, e)
    <2> SUFFICES ASSUME NEW p \in Place
                 PROVE  /\ (\A i \in DOMAIN ops : ~Touches(ops[i], p)) => e[p] = disk[p]
                        /\ \A i \in DOMAIN ops : Touches(ops[i], p) =>
                               e[p] = LeftAt(ops[i], p, disk)
      BY DEF Landed
    <2>1. (\A i \in DOMAIN ops : ~Touches(ops[i], p)) => \A op \in Ops(ops) : ~Touches(op, p)
      BY DEF Ops
    <2>2. QED
      BY <1>1, <2>1
  <1>4. After(ops, disk)[Len(ops)] = e
    BY <1>2, <1>3, Landing
  <1>5. ASSUME \A op \in Ops(ops) : Possible(op, disk)
        PROVE  Runs(ops, disk)
    <2> SUFFICES ASSUME NEW k \in 1..Len(ops)
                 PROVE  Possible(ops[k], After(ops, disk)[k - 1])
      BY DEF Runs
    <2> DEFINE a == After(ops, disk)[k - 1]
    <2>1. k - 1 \in 0..Len(ops) /\ k \in DOMAIN ops
          /\ \A i \in 1..(k - 1) : i \in DOMAIN ops /\ i # k
      OBVIOUS
    <2>2. Midway(ops, disk, e, k - 1)
      BY <1>2, <1>3, <2>1, MidwayAlways
    <2>3. \A p \in Place : Touches(ops[k], p) => a[p] = disk[p]
      BY <2>1, <2>2 DEF Midway, Solo
    <2>4. Possible(ops[k], disk) /\ ops[k] \in FileOp
      BY <1>1, <1>5, <2>1
    <2>5. CASE IsRename(ops[k])
      BY <2>3, <2>4, <2>5, OpKinds DEF Possible, Touches
    <2>6. CASE IsRemove(ops[k])
      BY <2>3, <2>4, <2>6, OpKinds DEF Possible, Touches
    <2>7. CASE IsWrite(ops[k])
      BY <2>4, <2>7, OpKinds DEF Possible
    <2>8. QED
      BY <2>4, <2>5, <2>6, <2>7, OpKinds
  <1>6. ReplaySafe(ops)
    <2> SUFFICES ASSUME NEW i \in DOMAIN ops, NEW j \in DOMAIN ops, i # j, IsRename(ops[i])
                 PROVE  /\ ~Touches(ops[j], ops[i].from)
                        /\ ~Touches(ops[j], ops[i].to)
      BY DEF ReplaySafe
    <2>1. ops[i].from \in Place /\ ops[i].to \in Place
      BY <1>1, OpKinds
    <2>2. Touches(ops[i], ops[i].from) /\ Touches(ops[i], ops[i].to)
      BY DEF Touches
    <2>3. QED
      BY <2>1, <2>2 DEF Solo
  <1>7. QED
    BY <1>4, <1>5, <1>6 DEF Commit

\* One set after another that touches other places, put together.
LEMMA Joined ==
    ASSUME NEW s \in Seq(FileOp), NEW t \in Seq(FileOp),
           Solo(s), Solo(t), Clear(Ops(s), Ops(t))
    PROVE  /\ s \o t \in Seq(FileOp)
           /\ Solo(s \o t)
           /\ Ops(s \o t) = Ops(s) \cup Ops(t)
  BY OpsCat, SoloCat

\* A write touches its path and leaves its bytes there.
LEMMA WriteIs ==
    ASSUME NEW q, NEW b
    PROVE  /\ \A p : Touches(Write(q, b), p) <=> p = q
           /\ \A p, d : LeftAt(Write(q, b), p, d) = b
           /\ \A d : Possible(Write(q, b), d)
           /\ ~IsRename(Write(q, b))
           /\ q \in Place /\ b \in Node \cup Body \cup Index => Write(q, b) \in FileOp
  <1>1. /\ IsWrite(Write(q, b)) /\ ~IsRename(Write(q, b)) /\ ~IsRemove(Write(q, b))
        /\ Write(q, b).path = q /\ Write(q, b).bytes = b
    BY DEF Write, IsWrite, IsRename, IsRemove
  <1>2. q \in Place /\ b \in Node \cup Body \cup Index => Write(q, b) \in FileOp
    BY DEF Write, FileOp
  <1>3. QED
    BY <1>1, <1>2 DEF Touches, LeftAt, Possible

\* A removal touches its path and leaves nothing there.
LEMMA RemoveIs ==
    ASSUME NEW q
    PROVE  /\ \A p : Touches(Remove(q), p) <=> p = q
           /\ \A p, d : LeftAt(Remove(q), p, d) = Absent
           /\ \A d : d[q] # Absent => Possible(Remove(q), d)
           /\ ~IsRename(Remove(q))
           /\ q \in Place => Remove(q) \in FileOp
  <1>1. /\ ~IsWrite(Remove(q)) /\ ~IsRename(Remove(q)) /\ IsRemove(Remove(q))
        /\ Remove(q).path = q
    BY DEF Remove, IsWrite, IsRename, IsRemove
  <1>2. q \in Place => Remove(q) \in FileOp
    BY DEF Remove, FileOp
  <1>3. QED
    BY <1>1, <1>2 DEF Touches, LeftAt, Possible

\* A rename touches its two paths and leaves the file at the second.
LEMMA RenameIs ==
    ASSUME NEW q, NEW r
    PROVE  /\ \A p : Touches(Rename(q, r), p) <=> p = q \/ p = r
           /\ \A d : LeftAt(Rename(q, r), r, d) = d[q]
           /\ \A d : q # r => LeftAt(Rename(q, r), q, d) = Absent
           /\ \A d : d[q] # Absent => Possible(Rename(q, r), d)
           /\ IsRename(Rename(q, r)) /\ Rename(q, r).from = q /\ Rename(q, r).to = r
           /\ q \in Place /\ r \in Place /\ q # r => Rename(q, r) \in FileOp
  <1>1. /\ ~IsWrite(Rename(q, r)) /\ IsRename(Rename(q, r)) /\ ~IsRemove(Rename(q, r))
        /\ Rename(q, r).from = q /\ Rename(q, r).to = r
    BY DEF Rename, IsWrite, IsRename, IsRemove
  <1>2. q \in Place /\ r \in Place /\ q # r => Rename(q, r) \in FileOp
    BY <1>1 DEF Rename, FileOp
  <1>3. QED
    BY <1>1, <1>2 DEF Touches, LeftAt, Possible

-----------------------------------------------------------------------------
(* A workspace with no document astray.                                    *)

Sound == TypeOK /\ Filed /\ Tree /\ Identified /\ Recorded

\* The three kinds of file.
LEMMA Kinds ==
    ASSUME TypeOK, NEW x \in Place
    PROVE  /\ disk[x] \in Text /\ disk \in [Place -> Text]
           /\ IsNode(x) => disk[x] \in Node
           /\ IsBody(x) => disk[x] \in Body
           /\ Holds(x, "bin") => disk[x] \in Index
           /\ disk[x] # Absent => IsNode(x) \/ IsBody(x) \/ Holds(x, "bin")
           /\ ~(IsNode(x) /\ IsBody(x)) /\ ~(IsNode(x) /\ Holds(x, "bin"))
           /\ ~(IsBody(x) /\ Holds(x, "bin"))
           /\ IsNode(x) \/ IsBody(x) => disk[x] # Absent
  <1>1. disk[x] \in Node \cup Body \cup Index \cup {Absent} /\ disk \in [Place -> Text]
    BY DEF TypeOK, Text
  <1>2. /\ \A n \in Node : n.kind = "node"
        /\ \A n \in Body : n.kind = "body"
        /\ \A n \in Index : n.kind = "bin"
    BY DEF Node, Body, Index
  <1>3. QED
    BY <1>1, <1>2 DEF IsNode, IsBody, Holds, Text

\* Places in the bin.
LEMMA Items ==
    ASSUME NEW p \in DocPath, NEW k \in 0..MaxBump
    PROVE  /\ Item(p, k) \in Place \ DocPath /\ Item(p, k) # BinIndex
           /\ \A q, j : Item(p, k) = Item(q, j) => p = q /\ k = j
           /\ 0 \in 0..MaxBump
  BY BinAssumption DEF Item, Place

\* What Bin lists are records, and the root knows whether there is a bin.
LEMMA BinIs ==
    ASSUME Sound
    PROVE  /\ Bin \in Seq(Record)
           /\ disk[Root].hasBin <=> disk[BinIndex] # Absent
           /\ disk[Root].hasBin \in BOOLEAN
           /\ disk[BinIndex] # Absent => disk[BinIndex] \in Index
           /\ Root \in Place /\ BinIndex \in Place /\ disk[Root] \in Node
  <1>1. Root \in Place /\ BinIndex \in Place
    BY BinAssumption DEF Place
  <1>2. IsNode(Root) /\ disk[Root] \in Node
    BY <1>1, Kinds DEF Sound, Tree
  <1>3. disk[Root].hasBin <=> disk[BinIndex] # Absent
    BY <1>1, <1>2 DEF Sound, Filed
  <1>4. disk[BinIndex] # Absent => disk[BinIndex] \in Index
    BY <1>1, Kinds DEF Sound, Filed, Holds
  <1>5. disk[Root].hasBin \in BOOLEAN
    BY <1>2 DEF Node
  <1>6. Bin \in Seq(Record)
    BY <1>3, <1>4 DEF Bin, Index
  <1>7. QED
    BY <1>1, <1>2, <1>3, <1>4, <1>5, <1>6

\* A node in the bin is on record.
LEMMA InBin ==
    ASSUME Sound, NEW x \in Place \ DocPath, IsNode(x)
    PROVE  \E i \in DOMAIN Bin : Bin[i].bin = x /\ Fits(Bin[i]) /\ Bin[i] \in Record
  BY BinIs DEF Sound, Recorded

\* A record is of a place in the bin.
LEMMA RecordIs ==
    ASSUME Sound, NEW i \in DOMAIN Bin
    PROVE  /\ Bin[i] \in Record /\ Fits(Bin[i])
           /\ Bin[i].from \in DocPath /\ Bin[i].bin \in Place \ DocPath
           /\ Bin[i].doc \in Doc
           /\ Bin[i].parent \in DocPath /\ Bin[i].text \in DocPath \cup {None}
           /\ \E k \in 0..MaxBump : Bin[i].bin = Item(Bin[i].from, k)
  <1>1. Bin[i] \in Record /\ Fits(Bin[i])
    BY BinIs DEF Sound, Recorded
  <1>2. Bin[i].from \in DocPath /\ Bin[i].text \in DocPath \cup {None} /\ Bin[i].doc \in Doc
    BY <1>1 DEF Record
  <1>3. QED
    BY <1>1, <1>2, Items DEF Fits

\* Where bodies are no node is.
LEMMA NodePlace ==
    ASSUME Sound, NEW x \in Place, IsNode(x)
    PROVE  /\ x # BinIndex
           /\ Separated => /\ disk[x].body \in Prose /\ x \notin Prose
                           /\ \A q \in Prose : x # Item(q, 0)
           /\ ~Separated => disk[x].body = None
  <1>1. x # BinIndex
    BY DEF Sound, Filed, IsNode, Holds
  <1>2. (Separated => disk[x].body \in Prose) /\ (~Separated => disk[x].body = None)
    BY DEF Sound, Filed
  <1>3. ASSUME Separated
        PROVE  x \notin Prose /\ \A q \in Prose : x # Item(q, 0)
    <2>1. CASE x \in DocPath
      <3>1. NodeOf[disk[x].body] = x
        BY <1>3, <2>1 DEF Sound, Filed
      <3>2. x \notin Prose
        BY <1>2, <1>3, <3>1, BinAssumption
      <3>3. QED
        BY <2>1, <3>2, Items, BinAssumption
    <2>2. CASE x \notin DocPath
      <3>1. PICK i \in DOMAIN Bin : Bin[i].bin = x /\ Fits(Bin[i])
        BY <2>2, InBin
      <3>2. NodeOf[disk[x].body] = Bin[i].from
        BY <1>3, <3>1 DEF Fits
      <3>3. Bin[i].from \notin Prose
        BY <1>2, <1>3, <3>2, BinAssumption
      <3>4. PICK k \in 0..MaxBump : x = Item(Bin[i].from, k)
        BY <3>1 DEF Fits
      <3>5. QED
        BY <2>2, <3>3, <3>4, BinAssumption DEF Item
    <2>3. QED
      BY <2>1, <2>2
  <1>4. QED
    BY <1>1, <1>2, <1>3

\* A document of the tree, but the root, has its parent there.
LEMMA ParentIs ==
    ASSUME Sound, NEW p \in DocPath, IsNode(p), p # Root
    PROVE  /\ Parent(p) \in DocPath /\ IsNode(Parent(p)) /\ Parent(p) # p
           /\ Parent(p) # None /\ Listed(p) /\ p \in Place /\ Parent(p) \in Place
           /\ \A q \in DocPath : IsNode(q) => (p \in disk[q].down <=> q = Parent(p))
  <1>1. Parent(p) \in DocPath /\ IsNode(Parent(p))
    BY DEF Sound, Tree, Parent
  <1>2. Parent(p) # p
    <2>1. {p} \in SUBSET {x \in DocPath \ {Root} : IsNode(x)}
      OBVIOUS
    <2>2. \E x \in {p} : disk[x].up \notin {p}
      BY <2>1 DEF Sound, Tree, Acyclic
    <2>3. QED
      BY <2>2 DEF Parent
  <1>3. \A q \in DocPath : IsNode(q) => (p \in disk[q].down <=> q = Parent(p))
    BY DEF Sound, Tree, Parent
  <1>4. Parent(p) # None /\ p \in Place /\ Parent(p) \in Place
    BY <1>1, BinAssumption DEF Place
  <1>5. Listed(p)
    BY <1>1, <1>3, <1>4 DEF Listed
  <1>6. QED
    BY <1>1, <1>2, <1>3, <1>4, <1>5

\* Where the k-th step of the walk up from p leads, from those before it.
Climb(f, p, k) ==
    IF k = 0 THEN p
    ELSE LET q == f[k - 1]
         IN  IF \/ ~IsNode(q) \/ disk[q].up = None
                \/ \E j \in 0..(k - 2) : f[j] = q
             THEN q ELSE disk[q].up

\* There is such a walk, of any length.
LEMMA ClimbIs ==
    ASSUME NEW p, NEW C \in Nat
    PROVE  \E f : f = [k \in 0..C |-> Climb(f, p, k)]
  <1> DEFINE Run(n, f) == f = [k \in 0..n |-> Climb(f, p, k)]
             S == {n \in Nat : ~\E f : Run(n, f)}
  <1> SUFFICES ASSUME S # {} PROVE FALSE
    OBVIOUS
  <1>1. S \subseteq Nat
    OBVIOUS
  <1> HIDE DEF S
  <1>2. PICK m \in S : \A k \in S : m <= k
    BY <1>1, Least
  <1>3. m \in Nat /\ ~\E f : Run(m, f)
    BY DEF S
  <1>4. CASE m = 0
    <2> DEFINE f == [k \in 0..0 |-> p]
    <2>1. \A k \in 0..0 : f[k] = Climb(f, p, k)
      BY DEF Climb
    <2>2. Run(0, f)
      BY <2>1
    <2>3. QED
      BY <1>3, <1>4, <2>2
  <1>5. CASE m # 0
    <2>1. m - 1 \in Nat /\ ~(m <= m - 1) /\ m \in 0..m
      BY <1>3, <1>5
    <2>2. m - 1 \notin S
      BY <1>2, <2>1
    <2>3. PICK f : Run(m - 1, f)
      BY <2>1, <2>2 DEF S
    <2> DEFINE g == [k \in 0..m |-> IF k = m THEN Climb(f, p, m) ELSE f[k]]
    <2>4. \A k \in 0..(m - 1) : f[k] = Climb(f, p, k)
      BY <2>3
    <2>5. \A k \in 0..(m - 1) : g[k] = f[k]
      BY <1>3
    <2>6. \A k \in 0..m : Climb(g, p, k) = Climb(f, p, k)
      <3> TAKE k \in 0..m
      <3>1. CASE k = 0
        BY <3>1 DEF Climb
      <3>2. CASE k # 0
        <4>1. g[k - 1] = f[k - 1]
          BY <1>3, <2>5, <3>2
        <4>2. \A j \in 0..(k - 2) : g[j] = f[j]
          BY <1>3, <2>5, <3>2
        <4> HIDE DEF g
        <4>3. QED
          BY <3>2, <4>1, <4>2 DEF Climb
      <3>3. QED
        BY <3>1, <3>2
    <2>7. \A k \in 0..m : g[k] = Climb(f, p, k)
      <3> TAKE k \in 0..m
      <3>1. CASE k = m
        BY <3>1
      <3>2. CASE k # m
        <4>1. k \in 0..(m - 1)
          BY <1>3, <3>2
        <4>2. QED
          BY <2>4, <2>5, <4>1
      <3>3. QED
        BY <3>1, <3>2
    <2>8. g = [k \in 0..m |-> g[k]]
      OBVIOUS
    <2> HIDE DEF g
    <2>9. \A k \in 0..m : g[k] = Climb(g, p, k)
      BY <2>6, <2>7
    <2>10. Run(m, g)
      BY <2>8, <2>9
    <2>11. QED
      BY <1>3, <2>10
  <1>6. QED
    BY <1>4, <1>5

\* SpanningRoot is where such a walk ends.
LEMMA SpanningWalk ==
    ASSUME NEW p, Cardinality(DocPath) \in Nat
    PROVE  \E f : /\ f = [k \in 0..Cardinality(DocPath) |-> Climb(f, p, k)]
                  /\ SpanningRoot(p) = f[Cardinality(DocPath)]
  <1> DEFINE C == Cardinality(DocPath)
             F == CHOOSE f : f = [k \in 0..C |-> Climb(f, p, k)]
  <1>1. F = [k \in 0..C |-> Climb(F, p, k)]
    <2>1. \E f : f = [k \in 0..C |-> Climb(f, p, k)]
      BY ClimbIs
    <2>2. QED
      BY <2>1
  <1>2. SpanningRoot(p) = F[C]
    BY DEF SpanningRoot, Climb
  <1> HIDE DEF F
  <1>3. QED
    BY <1>1, <1>2

\* What is known of a walk after its k-th step: it is at a document; unless it
\* is at the root it has not been there before, nor at the root.
Going(f, k) ==
    /\ f[k] \in DocPath /\ IsNode(f[k])
    /\ f[k] # Root => \A i \in 0..(k - 1) : f[i] # f[k] /\ f[i] # Root
    /\ k # 0 /\ f[k - 1] # Root => f[k] = disk[f[k - 1]].up

\* One step further.
LEMMA GoingOn ==
    ASSUME Sound, NEW p \in DocPath, IsNode(p), NEW C \in Nat,
           NEW f, f = [k \in 0..C |-> Climb(f, p, k)],
           NEW k \in 0..C, \A i \in 0..(k - 1) : Going(f, i)
    PROVE  Going(f, k)
  <1>0. f[k] = Climb(f, p, k)
    OBVIOUS
  <1>1. CASE k = 0
    <2>1. f[k] = p
      BY <1>0, <1>1 DEF Climb
    <2>2. QED
      BY <1>1, <2>1 DEF Going
  <1>2. CASE k # 0
    <2> DEFINE q == f[k - 1]
    <2>1. k - 1 \in 0..(k - 1) /\ k \in Nat /\ k - 1 \in Nat
      BY <1>2
    <2>2. q \in DocPath /\ IsNode(q)
      BY <2>1 DEF Going
    <2>3. f[k] = IF \/ ~IsNode(q) \/ disk[q].up = None
                    \/ \E j \in 0..(k - 2) : f[j] = q
                 THEN q ELSE disk[q].up
      BY <1>0, <1>2 DEF Climb
    <2>4. CASE q = Root
      <3>1. f[k] = Root
        BY <2>3, <2>4 DEF Sound, Tree
      <3>2. f[k] \in DocPath /\ IsNode(f[k])
        BY <3>1, BinAssumption DEF Sound, Tree
      <3>3. f[k - 1] = Root
        BY <2>4
      <3> HIDE DEF q
      <3>4. QED
        BY <3>1, <3>2, <3>3 DEF Going
    <2>5. CASE q # Root
      <3>1. \A i \in 0..(k - 2) : f[i] # q /\ f[i] # Root
        <4>1. Going(f, k - 1) /\ f[k - 1] # Root /\ (k - 1) - 1 = k - 2
          BY <2>1, <2>5
        <4>2. QED
          BY <4>1 DEF Going
      <3>2. disk[q].up \in DocPath /\ IsNode(disk[q].up) /\ disk[q].up # None
        BY <2>2, <2>5, BinAssumption DEF Sound, Tree, Place
      <3>3. f[k] = disk[q].up
        BY <2>2, <2>3, <3>1, <3>2
      <3>4. \A i \in 0..(k - 1) : f[i] # Root
        <4>1. \A i \in 0..(k - 1) : i = k - 1 \/ i \in 0..(k - 2)
          BY <2>1
        <4>2. QED
          BY <2>5, <3>1, <4>1
      <3>5. ASSUME NEW i \in 0..(k - 1), f[i] = f[k]
            PROVE  FALSE
        <4> DEFINE S == {f[j] : j \in i..(k - 1)}
        <4>1. \A j \in i..(k - 1) : j \in 0..(k - 1)
          BY <2>1
        <4>2. S \in SUBSET {x \in DocPath \ {Root} : IsNode(x)}
          <5>1. \A j \in i..(k - 1) : f[j] \in DocPath /\ IsNode(f[j]) /\ f[j] # Root
            BY <3>4, <4>1 DEF Going
          <5>2. \A x \in S : x \in DocPath /\ IsNode(x) /\ x # Root
            BY <5>1
          <5> HIDE DEF S
          <5>3. QED
            BY <5>2
        <4>3. S # {}
          <5>1. i \in i..(k - 1)
            BY <2>1
          <5>2. QED
            BY <5>1
        <4>4. \A j \in i..(k - 1) : disk[f[j]].up \in S
          <5> TAKE j \in i..(k - 1)
          <5>1. CASE j = k - 1
            <6>1. i \in i..(k - 1)
              BY <2>1
            <6>2. disk[f[j]].up = f[i]
              BY <3>3, <3>5, <5>1
            <6>3. QED
              BY <6>1, <6>2
          <5>2. CASE j # k - 1
            <6>1. j + 1 \in i..(k - 1) /\ j + 1 \in 0..(k - 1) /\ j + 1 # 0 /\ (j + 1) - 1 = j
              BY <2>1, <4>1, <5>2
            <6>2. f[j] # Root /\ Going(f, j + 1)
              BY <3>4, <4>1, <6>1
            <6>3. f[j + 1] = disk[f[j]].up
              BY <6>1, <6>2 DEF Going
            <6>4. QED
              BY <6>1, <6>3
          <5>3. QED
            BY <5>1, <5>2
        <4>5. \A x \in S : disk[x].up \in S
          BY <4>4
        <4> HIDE DEF S
        <4>6. QED
          BY <4>2, <4>3, <4>5 DEF Sound, Tree, Acyclic
      <3>6. QED
        BY <2>1, <3>2, <3>3, <3>4, <3>5 DEF Going
    <2>6. QED
      BY <2>4, <2>5
  <1>3. QED
    BY <1>1, <1>2

\* Up the part_of links from a document of the tree is its root.
LEMMA SpanIs ==
    ASSUME Sound, NEW p \in DocPath, IsNode(p)
    PROVE  SpanningRoot(p) = Root
  <1> DEFINE C == Cardinality(DocPath)
  <1>1. IsFiniteSet(DocPath) /\ C \in Nat
    BY BinAssumption, FS_CardinalityType
  <1>2. PICK f : f = [k \in 0..C |-> Climb(f, p, k)] /\ SpanningRoot(p) = f[C]
    BY <1>1, SpanningWalk
  <1>3. \A k \in 0..C : Going(f, k)
    <2> DEFINE S == {k \in 0..C : ~Going(f, k)}
    <2> SUFFICES ASSUME S # {} PROVE FALSE
      OBVIOUS
    <2>1. S \subseteq Nat
      OBVIOUS
    <2> HIDE DEF S
    <2>2. PICK m \in S : \A k \in S : m <= k
      BY <2>1, Least
    <2>3. m \in 0..C /\ ~Going(f, m)
      BY DEF S
    <2>4. \A i \in 0..(m - 1) : i \in 0..C /\ i \notin S
      BY <1>1, <2>2, <2>3
    <2>5. \A i \in 0..(m - 1) : Going(f, i)
      BY <2>4 DEF S
    <2>6. Going(f, m)
      BY <1>1, <1>2, <2>3, <2>5, GoingOn
    <2>7. QED
      BY <2>3, <2>6
  <1>4. ASSUME f[C] # Root
        PROVE  FALSE
    <2>1. C \in 0..C /\ IsFiniteSet(0..C) /\ Cardinality(0..C) = C + 1
      BY <1>1, FS_Interval
    <2>2. \A i \in 0..C : f[i] # Root
      <3>1. \A i \in 0..C : i = C \/ i \in 0..(C - 1)
        BY <1>1
      <3>2. QED
        BY <1>3, <1>4, <2>1, <3>1 DEF Going
    <2>3. f \in [0..C -> DocPath]
      BY <1>2, <1>3 DEF Going
    <2>4. Cardinality(DocPath) < Cardinality(0..C)
      BY <1>1, <2>1
    <2>5. PICK x, y \in 0..C : x # y /\ f[x] = f[y]
      BY <1>1, <2>1, <2>3, <2>4, FS_PigeonHole
    <2>6. x \in 0..(y - 1) \/ y \in 0..(x - 1)
      BY <1>1, <2>5
    <2>7. QED
      BY <1>3, <2>2, <2>5, <2>6 DEF Going
  <1>5. QED
    BY <1>2, <1>4

-----------------------------------------------------------------------------
(* The tree, and the places of documents, when one comes, goes or moves.   *)

\* p, which has no children, leaves the tree.
Leaves(p) ==
    /\ p # Root /\ IsNode(p) /\ disk[p].down = {}
    /\ \A x \in DocPath : IsNode(x)' <=> IsNode(x) /\ x # p
    /\ \A x \in DocPath : IsNode(x) /\ x # p =>
         /\ disk'[x].doc = disk[x].doc
         /\ disk'[x].up = disk[x].up
         /\ disk'[x].down = disk[x].down \ {p}

\* p joins the tree, under q.
Joins(p, q) ==
    /\ ~IsNode(p) /\ IsNode(q)
    /\ \A x \in DocPath : IsNode(x)' <=> IsNode(x) \/ x = p
    /\ \A x \in DocPath : IsNode(x) =>
         /\ disk'[x].doc = disk[x].doc
         /\ disk'[x].up = disk[x].up
         /\ disk'[x].down = IF x = q THEN disk[x].down \cup {p} ELSE disk[x].down
    /\ disk'[p].up = q /\ disk'[p].down = {}

\* The documents at G are destroyed.
Destroyed(G) ==
    /\ \A x \in Place : IsNode(x)' <=> IsNode(x) /\ x \notin G
    /\ \A x \in Place : IsNode(x) /\ x \notin G => disk'[x].doc = disk[x].doc
    /\ Separated' <=> Separated
    /\ \A d \in Doc : made'[d] = IF \E x \in G : IsNode(x) /\ disk[x].doc = d
                                  THEN "destroyed" ELSE made[d]

\* The document at p goes to b.
Moved(p, b) ==
    /\ IsNode(p) /\ ~IsNode(b)
    /\ \A x \in Place : IsNode(x)' <=> (IsNode(x) /\ x # p) \/ x = b
    /\ \A x \in Place : IsNode(x) /\ x # p => disk'[x].doc = disk[x].doc
    /\ disk'[b].doc = disk[p].doc
    /\ Separated' <=> Separated
    /\ made' = made

\* Document d is made, at n.
Made(n, d) ==
    /\ ~IsNode(n) /\ ~Alive(d)
    /\ \A x \in Place : IsNode(x)' <=> IsNode(x) \/ x = n
    /\ \A x \in Place : IsNode(x) => disk'[x].doc = disk[x].doc
    /\ disk'[n].doc = d
    /\ Separated' <=> Separated
    /\ made' = [made EXCEPT ![d] = IF Separated THEN "separated" ELSE "whole"]

\* A document without children leaves the tree a tree.
LEMMA LeafGone ==
    ASSUME Tree, NEW p \in DocPath, Leaves(p)
    PROVE  Tree'
  <1> USE DEF Leaves
  <1>1. (IsNode(Root) /\ disk[Root].doc = 0 /\ disk[Root].up = None)'
    BY BinAssumption DEF Tree
  <1>2. \A x \in DocPath : IsNode(x) => disk[x].up # p
    BY DEF Tree
  <1>3. (\A x \in DocPath \ {Root} :
            IsNode(x) => disk[x].up \in DocPath /\ IsNode(disk[x].up))'
    <2> SUFFICES ASSUME NEW x \in DocPath \ {Root}, IsNode(x)'
                 PROVE  disk'[x].up \in DocPath /\ IsNode(disk[x].up)'
      OBVIOUS
    <2>1. IsNode(x) /\ x # p /\ disk'[x].up = disk[x].up
      OBVIOUS
    <2>2. PICK u \in DocPath : u = disk[x].up /\ IsNode(u) /\ u # p
      BY <1>2, <2>1 DEF Tree
    <2>3. IsNode(u)' /\ disk'[x].up = u
      BY <2>1, <2>2
    <2>4. QED
      BY <2>3 DEF IsNode, Holds
  <1>4. (\A x, y \in DocPath : IsNode(y) =>
            (x \in disk[y].down <=> IsNode(x) /\ disk[x].up = y))'
    <2> SUFFICES ASSUME NEW x \in DocPath, NEW y \in DocPath, IsNode(y)'
                 PROVE  x \in disk'[y].down <=> IsNode(x)' /\ disk'[x].up = y
      OBVIOUS
    <2>1. IsNode(y) /\ y # p /\ disk'[y].down = disk[y].down \ {p}
      OBVIOUS
    <2>2. x \in disk[y].down <=> IsNode(x) /\ disk[x].up = y
      BY <2>1 DEF Tree
    <2>3. QED
      BY <2>1, <2>2
  <1>5. Acyclic'
    <2> SUFFICES ASSUME NEW S \in SUBSET DocPath, \A x \in S : IsNode(x)' /\ x # Root, S # {}
                 PROVE  \E x \in S : disk'[x].up \notin S
      BY DEF Acyclic
    <2>1. \A x \in S : IsNode(x) /\ disk'[x].up = disk[x].up
      OBVIOUS
    <2>2. S \in SUBSET {x \in DocPath \ {Root} : IsNode(x)}
      BY <2>1
    <2>3. \E x \in S : disk[x].up \notin S
      BY <2>2 DEF Tree, Acyclic
    <2>4. QED
      BY <2>1, <2>3
  <1>6. QED
    BY <1>1, <1>3, <1>4, <1>5 DEF Tree

\* A document without children joins a tree.
LEMMA LeafNew ==
    ASSUME Tree, NEW p \in DocPath, NEW q \in DocPath, Joins(p, q)
    PROVE  Tree'
  <1> USE DEF Joins
  <1>1. (IsNode(Root) /\ disk[Root].doc = 0 /\ disk[Root].up = None)'
    BY BinAssumption DEF Tree
  <1>2. p # q /\ p # Root
    BY DEF Tree
  <1>3. (\A x \in DocPath \ {Root} :
            IsNode(x) => disk[x].up \in DocPath /\ IsNode(disk[x].up))'
    <2> SUFFICES ASSUME NEW x \in DocPath \ {Root}, IsNode(x)'
                 PROVE  disk'[x].up \in DocPath /\ IsNode(disk[x].up)'
      OBVIOUS
    <2>1. PICK u \in DocPath : disk'[x].up = u /\ IsNode(u)
      <3>1. CASE x = p
        BY <3>1
      <3>2. CASE x # p
        BY <3>2 DEF Tree
      <3>3. QED
        BY <3>1, <3>2
    <2>2. IsNode(u)'
      BY <2>1
    <2>3. QED
      BY <2>1, <2>2 DEF IsNode, Holds
  <1>4. (\A x, y \in DocPath : IsNode(y) =>
            (x \in disk[y].down <=> IsNode(x) /\ disk[x].up = y))'
    <2> SUFFICES ASSUME NEW x \in DocPath, NEW y \in DocPath, IsNode(y)'
                 PROVE  x \in disk'[y].down <=> IsNode(x)' /\ disk'[x].up = y
      OBVIOUS
    <2>1. IsNode(x) => disk[x].up # p
      BY BinAssumption DEF Tree, Place
    <2>2. CASE y = p
      BY <1>2, <2>1, <2>2
    <2>3. CASE y # p
      <3>1. IsNode(y) /\ (x \in disk[y].down <=> IsNode(x) /\ disk[x].up = y)
        BY <2>3 DEF Tree
      <3>2. x = p => ~(x \in disk[y].down)
        BY <3>1
      <3>3. disk'[y].down = IF y = q THEN disk[y].down \cup {p} ELSE disk[y].down
        BY <3>1
      <3>4. CASE x = p
        <4>1. IsNode(x)' /\ disk'[x].up = q
          BY <3>4
        <4>2. QED
          BY <3>2, <3>3, <3>4, <4>1
      <3>5. CASE x # p
        <4>1. IsNode(x)' <=> IsNode(x)
          BY <3>5
        <4>2. IsNode(x) => disk'[x].up = disk[x].up
          OBVIOUS
        <4>3. x \in disk'[y].down <=> x \in disk[y].down
          BY <3>3, <3>5
        <4>4. QED
          BY <3>1, <4>1, <4>2, <4>3
      <3>6. QED
        BY <3>4, <3>5
    <2>4. QED
      BY <2>2, <2>3
  <1>5. Acyclic'
    <2> SUFFICES ASSUME NEW S \in SUBSET DocPath, \A x \in S : IsNode(x)' /\ x # Root, S # {}
                 PROVE  \E x \in S : disk'[x].up \notin S
      BY DEF Acyclic
    <2>1. CASE S \ {p} = {}
      <3>1. p \in S /\ q \notin S
        BY <1>2, <2>1
      <3>2. QED
        BY <3>1
    <2>2. CASE S \ {p} # {}
      <3> DEFINE R == S \ {p}
      <3>1. \A x \in R : IsNode(x) /\ disk'[x].up = disk[x].up
        OBVIOUS
      <3>2. R \in SUBSET {x \in DocPath \ {Root} : IsNode(x)}
        BY <3>1
      <3>3. PICK x \in R : disk[x].up \notin R
        BY <2>2, <3>2 DEF Tree, Acyclic
      <3>4. x \in S /\ x \in DocPath /\ IsNode(x) /\ x # Root /\ disk'[x].up = disk[x].up
        BY <3>1, <3>3
      <3>5. disk[x].up # p
        BY <3>4 DEF Tree
      <3>6. QED
        BY <3>3, <3>4, <3>5
    <2>3. QED
      BY <2>1, <2>2
  <1>6. QED
    BY <1>1, <1>3, <1>4, <1>5 DEF Tree

\* The tree is as it was.
LEMMA TreeStays ==
    ASSUME Tree,
           \A x \in DocPath : IsNode(x)' <=> IsNode(x),
           \A x \in DocPath : IsNode(x) =>
               /\ disk'[x].doc = disk[x].doc
               /\ disk'[x].up = disk[x].up
               /\ disk'[x].down = disk[x].down
    PROVE  Tree'
  <1>1. (IsNode(Root) /\ disk[Root].doc = 0 /\ disk[Root].up = None)'
    BY BinAssumption DEF Tree
  <1>2. (\A x \in DocPath \ {Root} :
            IsNode(x) => disk[x].up \in DocPath /\ IsNode(disk[x].up))'
    <2> SUFFICES ASSUME NEW x \in DocPath \ {Root}, IsNode(x)'
                 PROVE  disk'[x].up \in DocPath /\ IsNode(disk[x].up)'
      OBVIOUS
    <2>1. PICK u \in DocPath : disk'[x].up = u /\ IsNode(u)
      BY DEF Tree
    <2>2. IsNode(u)'
      BY <2>1
    <2>3. QED
      BY <2>1, <2>2 DEF IsNode, Holds
  <1>3. (\A x, y \in DocPath : IsNode(y) =>
            (x \in disk[y].down <=> IsNode(x) /\ disk[x].up = y))'
    <2> SUFFICES ASSUME NEW x \in DocPath, NEW y \in DocPath, IsNode(y)'
                 PROVE  x \in disk'[y].down <=> IsNode(x)' /\ disk'[x].up = y
      OBVIOUS
    <2>1. IsNode(y) /\ (x \in disk[y].down <=> IsNode(x) /\ disk[x].up = y)
      BY DEF Tree
    <2>2. QED
      BY <2>1
  <1>4. Acyclic'
    <2> SUFFICES ASSUME NEW S \in SUBSET DocPath, \A x \in S : IsNode(x)' /\ x # Root, S # {}
                 PROVE  \E x \in S : disk'[x].up \notin S
      BY DEF Acyclic
    <2>1. \A x \in S : IsNode(x) /\ disk'[x].up = disk[x].up
      OBVIOUS
    <2>2. S \in SUBSET {x \in DocPath \ {Root} : IsNode(x)}
      BY <2>1
    <2>3. \E x \in S : disk[x].up \notin S
      BY <2>2 DEF Tree, Acyclic
    <2>4. QED
      BY <2>1, <2>3
  <1>5. QED
    BY <1>1, <1>2, <1>3, <1>4 DEF Tree

\* Those left after others are destroyed are in one place each.
LEMMA NodesGone ==
    ASSUME Identified, NEW G \in SUBSET Place, Destroyed(G)
    PROVE  Identified'
  <1> USE DEF Destroyed
  <1>1. (\A p, q \in Place : IsNode(p) /\ IsNode(q) /\ disk[p].doc = disk[q].doc => p = q)'
    <2> SUFFICES ASSUME NEW p \in Place, NEW q \in Place, IsNode(p)', IsNode(q)',
                        disk'[p].doc = disk'[q].doc
                 PROVE  p = q
      OBVIOUS
    <2>1. IsNode(p) /\ IsNode(q) /\ disk[p].doc = disk[q].doc
      OBVIOUS
    <2>2. QED
      BY <2>1 DEF Identified
  <1> SUFFICES ASSUME NEW d \in Doc
               PROVE  /\ Alive(d)' <=> \E p \in Place : IsNode(p)' /\ disk'[p].doc = d
                      /\ Alive(d)' => (made'[d] = "separated" <=> Separated')
    BY <1>1 DEF Identified
  <1>2. CASE \E x \in G : IsNode(x) /\ disk[x].doc = d
    <2>1. PICK x \in G : IsNode(x) /\ disk[x].doc = d
      BY <1>2
    <2>2. ~Alive(d)'
      BY <1>2 DEF Alive
    <2>3. ASSUME NEW p \in Place, IsNode(p)', disk'[p].doc = d
          PROVE  FALSE
      <3>1. IsNode(p) /\ disk[p].doc = d /\ p \notin G
        BY <2>3
      <3>2. p = x
        BY <2>1, <3>1 DEF Identified
      <3>3. QED
        BY <3>1, <3>2
    <2>4. QED
      BY <2>2, <2>3
  <1>3. CASE ~\E x \in G : IsNode(x) /\ disk[x].doc = d
    <2>1. made'[d] = made[d] /\ (Alive(d)' <=> Alive(d))
      BY <1>3 DEF Alive
    <2>2. (\E p \in Place : IsNode(p)' /\ disk'[p].doc = d)
            <=> \E p \in Place : IsNode(p) /\ disk[p].doc = d
      BY <1>3
    <2>3. QED
      BY <2>1, <2>2 DEF Identified
  <1>4. QED
    BY <1>2, <1>3

\* A document that goes elsewhere is in one place there.
LEMMA NodeMoved ==
    ASSUME Identified, NEW p \in Place, NEW b \in Place, Moved(p, b)
    PROVE  Identified'
  <1> USE DEF Moved
  <1>1. (\A x, y \in Place : IsNode(x) /\ IsNode(y) /\ disk[x].doc = disk[y].doc => x = y)'
    <2> SUFFICES ASSUME NEW x \in Place, NEW y \in Place, IsNode(x)', IsNode(y)',
                        disk'[x].doc = disk'[y].doc
                 PROVE  x = y
      OBVIOUS
    <2> DEFINE Was(z) == IF z = b THEN p ELSE z
    <2>1. \A z \in Place : IsNode(z)' =>
              Was(z) \in Place /\ IsNode(Was(z)) /\ disk[Was(z)].doc = disk'[z].doc
      OBVIOUS
    <2>2. Was(x) = Was(y)
      BY <2>1 DEF Identified
    <2>3. QED
      BY <2>2
  <1> SUFFICES ASSUME NEW d \in Doc
               PROVE  /\ Alive(d)' <=> \E x \in Place : IsNode(x)' /\ disk'[x].doc = d
                      /\ Alive(d)' => (made'[d] = "separated" <=> Separated')
    BY <1>1 DEF Identified
  <1>2. Alive(d)' <=> Alive(d)
    BY DEF Alive
  <1>3. (\E x \in Place : IsNode(x)' /\ disk'[x].doc = d)
          <=> \E x \in Place : IsNode(x) /\ disk[x].doc = d
    <2>1. ASSUME NEW x \in Place, IsNode(x)', disk'[x].doc = d
          PROVE  \E y \in Place : IsNode(y) /\ disk[y].doc = d
      BY <2>1
    <2>2. ASSUME NEW x \in Place, IsNode(x), disk[x].doc = d
          PROVE  \E y \in Place : IsNode(y)' /\ disk'[y].doc = d
      <3>1. CASE x = p
        <4>1. IsNode(b)' /\ disk'[b].doc = d
          BY <2>2, <3>1
        <4>2. QED
          BY <4>1
      <3>2. CASE x # p
        <4>1. IsNode(x)' /\ disk'[x].doc = d
          BY <2>2, <3>2
        <4>2. QED
          BY <4>1
      <3>3. QED
        BY <3>1, <3>2
    <2>3. QED
      BY <2>1, <2>2
  <1>4. QED
    BY <1>2, <1>3 DEF Identified

\* A new document is in one place.
LEMMA NodeMade ==
    ASSUME Identified, made \in [Doc -> Fate], NEW n \in Place, NEW d \in Doc, Made(n, d)
    PROVE  Identified'
  <1> USE DEF Made
  <1>0. \A x \in Place : IsNode(x) => disk[x].doc # d
    BY DEF Identified
  <1>1. (\A x, y \in Place : IsNode(x) /\ IsNode(y) /\ disk[x].doc = disk[y].doc => x = y)'
    <2> SUFFICES ASSUME NEW x \in Place, NEW y \in Place, IsNode(x)', IsNode(y)',
                        disk'[x].doc = disk'[y].doc
                 PROVE  x = y
      OBVIOUS
    <2>1. CASE x = n \/ y = n
      BY <1>0, <2>1
    <2>2. CASE x # n /\ y # n
      BY <2>2 DEF Identified
    <2>3. QED
      BY <2>1, <2>2
  <1> SUFFICES ASSUME NEW c \in Doc
               PROVE  /\ Alive(c)' <=> \E x \in Place : IsNode(x)' /\ disk'[x].doc = c
                      /\ Alive(c)' => (made'[c] = "separated" <=> Separated')
    BY <1>1 DEF Identified
  <1>2. CASE c = d
    <2>1. made'[c] = IF Separated THEN "separated" ELSE "whole"
      BY <1>2
    <2>2. IsNode(n)' /\ disk'[n].doc = c
      BY <1>2
    <2>3. QED
      BY <2>1, <2>2 DEF Alive
  <1>3. CASE c # d
    <2>1. made'[c] = made[c] /\ (Alive(c)' <=> Alive(c))
      BY <1>3 DEF Alive
    <2>2. (\E x \in Place : IsNode(x)' /\ disk'[x].doc = c)
            <=> \E x \in Place : IsNode(x) /\ disk[x].doc = c
      BY <1>3
    <2>3. QED
      BY <2>1, <2>2 DEF Identified
  <1>4. QED
    BY <1>2, <1>3

-----------------------------------------------------------------------------
(* Common to the operations.                                               *)

\* A record that fitted fits, when its node and the workspace's shape are kept.
LEMMA FitsStays ==
    ASSUME NEW rec, Fits(rec), disk'[rec.bin] = disk[rec.bin], Separated' <=> Separated
    PROVE  Fits(rec)'
  BY DEF Fits, IsNode, Holds

\* The bin is as it was.
LEMMA RecordedStays ==
    ASSUME Sound, Bin' = Bin, Separated' <=> Separated,
           \A x \in Place \ DocPath : IsNode(x) => disk'[x] = disk[x],
           \A x \in Place \ DocPath : IsNode(x)' => IsNode(x)
    PROVE  Recorded'
  <1>1. ASSUME NEW i \in DOMAIN Bin'
        PROVE  Fits(Bin[i])'
    <2>1. PICK rec : rec = Bin[i]
      OBVIOUS
    <2>2. Fits(rec) /\ rec.bin \in Place \ DocPath
      BY <2>1, RecordIs
    <2>3. disk'[rec.bin] = disk[rec.bin]
      BY <2>2 DEF Fits
    <2>4. Fits(rec)'
      BY <2>2, <2>3, FitsStays
    <2>5. Bin'[i] = rec
      BY <2>1
    <2>6. QED
      BY <2>4, <2>5 DEF Fits, IsNode, Holds
  <1>2. QED
    BY <1>1 DEF Sound, Recorded

\* No set without renames moves anything.
LEMMA NoMoves ==
    ASSUME NEW s, \A op \in Ops(s) : ~IsRename(op), NEW d
    PROVE  ReplaySafe(s) /\ SourcesExist(s, d) /\ DestinationsFree(s, d)
  BY DEF Ops, ReplaySafe, SourcesExist, DestinationsFree

-----------------------------------------------------------------------------
(* create.                                                                 *)

\* What Create(p, q) makes of the files: document d at n.
Created(p, q, n, d) ==
    /\ n = IF Separated THEN NodeOf[p] ELSE p
    /\ n \in DocPath /\ n # q /\ disk[n] = Absent /\ disk' \in [Place -> Text]
    /\ disk'[n] = [kind |-> "node", doc |-> d, up |-> q, down |-> {},
                   body |-> IF Separated THEN p ELSE None, hasBin |-> FALSE]
    /\ disk'[q] = [disk[q] EXCEPT !.down = @ \cup {n}]
    /\ Separated => disk[p] = Absent /\ disk'[p] = [kind |-> "body", doc |-> d]
    /\ \A x \in Place : x # n /\ x # q /\ (Separated => x # p) => disk'[x] = disk[x]
    /\ made' = [made EXCEPT ![d] = IF Separated THEN "separated" ELSE "whole"]
    /\ staged' \in Seq(FileOp) /\ \A op \in Ops(staged') : ~IsRename(op)

\* A set of three parts.
LEMMA ThreeParts ==
    ASSUME NEW a \in Seq(FileOp), NEW b \in Seq(FileOp), NEW c \in Seq(FileOp),
           Solo(a), Solo(b), Solo(c),
           Clear(Ops(a), Ops(b)), Clear(Ops(a), Ops(c)), Clear(Ops(b), Ops(c))
    PROVE  /\ a \o b \o c \in Seq(FileOp) /\ Solo(a \o b \o c)
           /\ Ops(a \o b \o c) = Ops(a) \cup Ops(b) \cup Ops(c)
  <1>1. a \o b \in Seq(FileOp) /\ Solo(a \o b) /\ Ops(a \o b) = Ops(a) \cup Ops(b)
    BY Joined
  <1>2. Clear(Ops(a \o b), Ops(c))
    BY <1>1 DEF Clear
  <1>3. QED
    BY <1>1, <1>2, Joined

\* Create runs, and leaves that.
LEMMA CreateIs ==
    ASSUME Sound, NEW p \in Prose, NEW q \in DocPath, Create(p, q)
    PROVE  IsNode(q) /\ \E d \in Fresh, n \in DocPath : Created(p, q, n, d)
  <1> DEFINE sep == disk[q].body # None
             n == IF sep THEN NodeOf[p] ELSE p
             new(d) == [kind |-> "node", doc |-> d, up |-> q, down |-> {},
                        body |-> IF sep THEN p ELSE None, hasBin |-> FALSE]
             text(d) == [kind |-> "body", doc |-> d]
             more == [disk[q] EXCEPT !.down = @ \cup {n}]
             s1(d) == <<Write(n, new(d))>>
             s2(d) == If(sep, Write(p, text(d)))
             s3 == <<Write(q, more)>>
  <1>1. IsNode(q)
    BY DEF Create
  <1>2. PICK d \in Fresh :
            /\ disk[n] = Absent /\ (sep => disk[p] = Absent)
            /\ Commit(s1(d) \o s2(d) \o s3)
            /\ made' = [made EXCEPT ![d] = IF sep THEN "separated" ELSE "whole"]
    BY DEF Create
  <1>3. q \in Place /\ p \in DocPath /\ p \in Place
    BY BinAssumption DEF Place
  <1>4. disk[q] \in Node /\ disk \in [Place -> Text] /\ disk[q] # Absent
    BY <1>1, <1>3, Kinds DEF Sound
  <1>5. sep <=> Separated
    BY <1>1, <1>3, NodePlace, BinAssumption DEF Place
  <1>6. n \in DocPath /\ n \in Place /\ (sep => n # p) /\ n # q /\ (sep => p # q)
        /\ d \in Doc
    BY <1>2, <1>3, <1>4, BinAssumption DEF Place, Fresh
  <1>7. new(d) \in Node /\ text(d) \in Body
    BY <1>3, <1>6 DEF Node, Body
  <1>8. more \in Node
    BY <1>4, <1>6 DEF Node
  <1> DEFINE ops == s1(d) \o s2(d) \o s3
  <1> HIDE DEF n, more, sep
  <1>9. Write(n, new(d)) \in FileOp /\ Write(q, more) \in FileOp /\ Write(p, text(d)) \in FileOp
    BY <1>3, <1>6, <1>7, <1>8, WriteIs
  <1>10. /\ s1(d) \in Seq(FileOp) /\ Ops(s1(d)) = {Write(n, new(d))} /\ Solo(s1(d))
         /\ s3 \in Seq(FileOp) /\ Ops(s3) = {Write(q, more)} /\ Solo(s3)
    BY <1>9, OneOp
  <1>11. /\ s2(d) \in Seq(FileOp) /\ Solo(s2(d))
         /\ Ops(s2(d)) = IF sep THEN {Write(p, text(d))} ELSE {}
    <2>1. sep \in BOOLEAN
      BY DEF sep
    <2>2. QED
      BY <1>9, <2>1, MaybeOp
  <1> HIDE DEF new, text, s1, s2, s3
  <1>12. /\ Clear(Ops(s1(d)), Ops(s2(d)))
         /\ Clear(Ops(s1(d)), Ops(s3))
         /\ Clear(Ops(s2(d)), Ops(s3))
    BY <1>6, <1>10, <1>11, WriteIs DEF Clear
  <1>13. /\ ops \in Seq(FileOp) /\ Solo(ops)
         /\ Ops(ops) = Ops(s1(d)) \cup Ops(s2(d)) \cup Ops(s3)
    <2>1. s1(d) \in Seq(FileOp) /\ s2(d) \in Seq(FileOp) /\ s3 \in Seq(FileOp)
      BY <1>10, <1>11
    <2>2. Solo(s1(d)) /\ Solo(s2(d)) /\ Solo(s3)
      BY <1>10, <1>11
    <2>3. QED
      BY <1>12, <2>1, <2>2, ThreeParts
  <1> HIDE DEF ops
  <1>14. /\ Write(n, new(d)) \in Ops(ops) /\ Write(q, more) \in Ops(ops)
         /\ sep => Write(p, text(d)) \in Ops(ops)
         /\ \A op \in Ops(ops) : \/ op = Write(n, new(d)) \/ op = Write(q, more)
                                 \/ sep /\ op = Write(p, text(d))
    BY <1>10, <1>11, <1>13
  <1> DEFINE e == [x \in Place |-> IF x = n THEN new(d)
                                   ELSE IF sep /\ x = p THEN text(d)
                                   ELSE IF x = q THEN more ELSE disk[x]]
  <1>15. e \in [Place -> Text]
    BY <1>4, <1>7, <1>8 DEF Text
  <1>16. /\ e[n] = new(d) /\ e[q] = more /\ (sep => e[p] = text(d))
         /\ \A x \in Place : x # n /\ x # q /\ (sep => x # p) => e[x] = disk[x]
    BY <1>3, <1>6
  <1> HIDE DEF e
  <1>17. Commit(ops)
    BY <1>2 DEF ops
  <1>18. \A x \in Place : (\A op \in Ops(ops) : ~Touches(op, x)) => e[x] = disk[x]
    <2> SUFFICES ASSUME NEW x \in Place, \A op \in Ops(ops) : ~Touches(op, x)
                 PROVE  e[x] = disk[x]
      OBVIOUS
    <2>1. x # n /\ x # q /\ (sep => x # p)
      BY <1>14, WriteIs
    <2>2. QED
      BY <1>16, <2>1
  <1>19. \A x \in Place, op \in Ops(ops) : Touches(op, x) => e[x] = LeftAt(op, x, disk)
    BY <1>14, <1>16, WriteIs
  <1>20. \A op \in Ops(ops) : Possible(op, disk) /\ ~IsRename(op)
    BY <1>14, WriteIs
  <1>21. staged' = ops /\ disk' = e
    BY <1>4, <1>13, <1>15, <1>17, <1>18, <1>19, <1>20, CommitSolo
  <1>22. /\ n = IF Separated THEN NodeOf[p] ELSE p
         /\ disk'[n] = [kind |-> "node", doc |-> d, up |-> q, down |-> {},
                        body |-> IF Separated THEN p ELSE None, hasBin |-> FALSE]
         /\ disk'[q] = [disk[q] EXCEPT !.down = @ \cup {n}]
    BY <1>5, <1>16, <1>21 DEF n, new, more
  <1>23. /\ Separated => disk[p] = Absent /\ disk'[p] = [kind |-> "body", doc |-> d]
         /\ \A x \in Place : x # n /\ x # q /\ (Separated => x # p) => disk'[x] = disk[x]
         /\ disk' \in [Place -> Text]
         /\ disk[n] = Absent
    BY <1>2, <1>5, <1>15, <1>16, <1>21 DEF text
  <1>24. made' = [made EXCEPT ![d] = IF Separated THEN "separated" ELSE "whole"]
    BY <1>2, <1>5
  <1>25. Created(p, q, n, d)
    BY <1>6, <1>13, <1>20, <1>21, <1>22, <1>23, <1>24 DEF Created
  <1>26. QED
    BY <1>1, <1>2, <1>6, <1>25

\* What that makes of the documents.
CreatedDocs(p, q, n, d) ==
    /\ \A x \in Place : IsNode(x)' <=> IsNode(x) \/ x = n
    /\ \A x \in Place : IsNode(x) =>
         /\ disk'[x].doc = disk[x].doc
         /\ disk'[x].up = disk[x].up
         /\ disk'[x].body = disk[x].body
         /\ disk'[x].hasBin = disk[x].hasBin
         /\ disk'[x].down = IF x = q THEN disk[x].down \cup {n} ELSE disk[x].down
         /\ x # q => disk'[x] = disk[x]
    /\ disk'[n].doc = d /\ disk'[n].up = q /\ disk'[n].down = {}
    /\ disk'[n].body = IF Separated THEN p ELSE None
    /\ disk'[n].hasBin = FALSE
    /\ \A x \in Place : IsBody(x)' <=> IsBody(x) \/ (Separated /\ x = p)
    /\ \A x \in Place : IsBody(x) => disk'[x] = disk[x]
    /\ Separated => disk'[p].doc = d /\ ~IsBody(p)
    /\ \A x \in Place : Holds(x, "bin")' <=> Holds(x, "bin")
    /\ disk'[BinIndex] = disk[BinIndex]
    /\ Separated' <=> Separated
    /\ Bin' = Bin

\* It makes that of them.
LEMMA CreatedNodes ==
    ASSUME Sound, NEW p \in Prose, NEW q \in DocPath, IsNode(q),
           NEW d \in Fresh, NEW n \in DocPath, Created(p, q, n, d)
    PROVE  /\ q \in Place /\ n \in Place /\ p \in Place /\ p \in DocPath /\ ~IsNode(n)
           /\ CreatedDocs(p, q, n, d)
  <1>1. q \in Place /\ n \in Place /\ p \in Place /\ p \in DocPath
    BY BinAssumption DEF Place
  <1>2. ~IsNode(n) /\ ~IsBody(n) /\ ~Holds(n, "bin")
    BY DEF Created, IsNode, IsBody, Holds
  <1>3. disk[q] \in Node
    BY <1>1, Kinds DEF Sound
  <1>4. Separated => n # p /\ q # p
    <2>1. disk[q] # Absent
      BY DEF IsNode, Holds
    <2>2. QED
      BY <2>1, BinAssumption DEF Created
  <1>5. /\ disk'[n].kind = "node"
        /\ disk'[n].doc = d /\ disk'[n].up = q /\ disk'[n].down = {}
        /\ disk'[n].body = IF Separated THEN p ELSE None
        /\ disk'[n].hasBin = FALSE
        /\ disk'[n] # Absent
    <2> DEFINE new == [kind |-> "node", doc |-> d, up |-> q, down |-> {},
                       body |-> IF Separated THEN p ELSE None, hasBin |-> FALSE]
    <2>1. disk'[n] = new
      BY DEF Created
    <2>2. new \in Node
      BY <1>1 DEF Node, Fresh
    <2>3. /\ new.kind = "node" /\ new.doc = d /\ new.up = q /\ new.down = {}
          /\ new.body = IF Separated THEN p ELSE None
          /\ new.hasBin = FALSE
      OBVIOUS
    <2> HIDE DEF new
    <2>4. new # Absent
      BY <2>2, BinAssumption
    <2>5. QED
      BY <2>1, <2>3, <2>4
  <1>6. /\ disk'[q].kind = "node"
        /\ disk'[q].doc = disk[q].doc /\ disk'[q].up = disk[q].up
        /\ disk'[q].body = disk[q].body /\ disk'[q].hasBin = disk[q].hasBin
        /\ disk'[q].down = disk[q].down \cup {n}
        /\ disk'[q] # Absent
    <2> DEFINE more == [disk[q] EXCEPT !.down = @ \cup {n}]
    <2>1. disk'[q] = more
      BY DEF Created
    <2>2. more \in Node
      BY <1>3 DEF Node
    <2>3. /\ more.kind = "node" /\ more.doc = disk[q].doc /\ more.up = disk[q].up
          /\ more.body = disk[q].body /\ more.hasBin = disk[q].hasBin
          /\ more.down = disk[q].down \cup {n}
      BY <1>3 DEF Node
    <2> HIDE DEF more
    <2>4. QED
      BY <2>1, <2>2, <2>3, BinAssumption
  <1>7. Separated => /\ disk'[p].kind = "body" /\ disk'[p].doc = d /\ disk'[p] # Absent
                     /\ disk[p] = Absent
    <2> DEFINE text == [kind |-> "body", doc |-> d]
    <2>1. Separated => disk'[p] = text /\ disk[p] = Absent
      BY DEF Created
    <2>2. text \in Body
      BY DEF Body, Fresh
    <2>3. QED
      BY <2>1, <2>2, BinAssumption
  <1>8. \A x \in Place : x # n /\ x # q /\ (Separated => x # p) => disk'[x] = disk[x]
    BY DEF Created
  <1>9. n # q
    BY DEF Created
  <1>10. \A x \in Place : IsNode(x)' <=> IsNode(x) \/ x = n
    BY <1>2, <1>4, <1>5, <1>6, <1>7, <1>8 DEF IsNode, Holds
  <1>11. \A x \in Place : IsNode(x) => x # n /\ (Separated => x # p)
    BY <1>2, <1>7 DEF IsNode, Holds
  <1>12. \A x \in Place : IsNode(x) =>
                 /\ disk'[x].doc = disk[x].doc
                 /\ disk'[x].up = disk[x].up
                 /\ disk'[x].body = disk[x].body
                 /\ disk'[x].hasBin = disk[x].hasBin
                 /\ disk'[x].down = IF x = q THEN disk[x].down \cup {n} ELSE disk[x].down
                 /\ x # q => disk'[x] = disk[x]
    BY <1>6, <1>8, <1>11
  <1>13. disk[q].kind = "node" /\ disk[q] # Absent
    BY DEF IsNode, Holds
  <1>14. \A x \in Place : IsBody(x)' <=> IsBody(x) \/ (Separated /\ x = p)
    BY <1>2, <1>4, <1>5, <1>6, <1>7, <1>8, <1>13 DEF IsBody, Holds
  <1>15. \A x \in Place : IsBody(x) => disk'[x] = disk[x]
    BY <1>2, <1>7, <1>8, <1>13 DEF IsBody, Holds
  <1>16. \A x \in Place : Holds(x, "bin")' <=> Holds(x, "bin")
    BY <1>2, <1>4, <1>5, <1>6, <1>7, <1>8, <1>13 DEF Holds
  <1>17. disk'[BinIndex] = disk[BinIndex] /\ Root \in Place /\ IsNode(Root)
    BY <1>1, <1>8, BinAssumption DEF Place, Sound, Tree
  <1>18. (Separated' <=> Separated) /\ disk'[Root].hasBin = disk[Root].hasBin
    BY <1>12, <1>17 DEF Separated
  <1>19. Bin' = Bin
    BY <1>17, <1>18 DEF Bin
  <1>20. Separated => ~IsBody(p)
    BY <1>7 DEF IsBody, Holds
  <1>21. QED
    BY <1>1, <1>2, <1>5, <1>7, <1>10, <1>12, <1>14, <1>15, <1>16, <1>17, <1>18, <1>19, <1>20
       DEF CreatedDocs

\* What Sound says holds after create.
LEMMA CreateSound ==
    ASSUME Sound, NEW p \in Prose, NEW q \in DocPath, IsNode(q), spoilt' = spoilt,
           NEW d \in Fresh, NEW n \in DocPath, Created(p, q, n, d)
    PROVE  Sound'
  <1>1. q \in Place /\ n \in Place /\ p \in Place /\ p \in DocPath /\ ~IsNode(n)
    BY CreatedNodes
  <1>2. CreatedDocs(p, q, n, d)
    BY CreatedNodes
  <1>3. (Separated' <=> Separated) /\ Bin' = Bin /\ disk'[BinIndex] = disk[BinIndex]
    BY <1>2 DEF CreatedDocs
  <1>4. TypeOK'
    <2>1. disk' \in [Place -> Node \cup Body \cup Index \cup {Absent}]
      BY DEF Created, Text
    <2>2. made' \in [Doc -> Fate]
      BY DEF Created, Sound, TypeOK, Fresh, Fate
    <2>3. QED
      BY <2>1, <2>2 DEF Created, Sound, TypeOK
  <1>5. Filed'
    <2>1. ASSUME NEW x \in Place, disk'[x] # Absent
          PROVE  disk'[x].kind = "bin" <=> x = BinIndex
      <3>1. CASE x = BinIndex
        <4>1. disk'[x] = disk[x]
          BY <1>3, <3>1
        <4>2. QED
          BY <2>1, <3>1, <4>1 DEF Sound, Filed
      <3>2. CASE x # BinIndex
        <4>1. ~Holds(x, "bin")
          BY <3>2 DEF Holds, Sound, Filed
        <4>2. ~Holds(x, "bin")'
          BY <1>2, <4>1 DEF CreatedDocs
        <4>3. QED
          BY <2>1, <3>2, <4>2 DEF Holds
      <3>3. QED
        BY <3>1, <3>2
    <2>2. ASSUME NEW x \in Place, IsNode(x)'
          PROVE  /\ disk'[x].hasBin <=> x = Root /\ disk'[BinIndex] # Absent
                 /\ Separated' => disk'[x].body \in Prose
                 /\ ~Separated' => disk'[x].body = None
                 /\ Separated' /\ x \in DocPath => NodeOf[disk'[x].body] = x
      <3>1. CASE x = n
        <4>1. n # Root
          BY <1>1 DEF Sound, Tree
        <4>2. Separated => NodeOf[p] = n
          BY DEF Created
        <4>3. disk'[x].hasBin = FALSE /\ disk'[x].body = IF Separated THEN p ELSE None
          BY <1>2, <3>1 DEF CreatedDocs
        <4>4. QED
          BY <1>3, <3>1, <4>1, <4>2, <4>3
      <3>2. CASE x # n
        <4>1. IsNode(x)
          BY <1>2, <2>2, <3>2 DEF CreatedDocs
        <4>2. disk'[x].hasBin = disk[x].hasBin /\ disk'[x].body = disk[x].body
          BY <1>2, <4>1 DEF CreatedDocs
        <4>3. /\ disk[x].hasBin <=> x = Root /\ disk[BinIndex] # Absent
              /\ Separated => disk[x].body \in Prose
              /\ ~Separated => disk[x].body = None
              /\ Separated /\ x \in DocPath => NodeOf[disk[x].body] = x
          BY <4>1 DEF Sound, Filed
        <4>4. QED
          BY <1>3, <4>2, <4>3
      <3>3. QED
        BY <3>1, <3>2
    <2>3. ASSUME NEW x \in Place, IsBody(x)'
          PROVE  Separated' /\ (x \in Prose \/ \E y \in Prose : x = Item(y, 0))
      <3>1. IsBody(x) \/ (Separated /\ x = p)
        BY <1>2, <2>3 DEF CreatedDocs
      <3>2. QED
        BY <1>3, <3>1 DEF Sound, Filed
    <2>4. QED
      BY <2>1, <2>2, <2>3 DEF Filed
  <1>6. Tree'
    <2>1. \A x \in DocPath : x \in Place
      BY DEF Place
    <2>2. Joins(n, q)
      BY <1>1, <1>2, <2>1 DEF CreatedDocs, Joins
    <2>3. QED
      BY <2>2, LeafNew DEF Sound
  <1>7. Identified'
    <2>1. Identified /\ made \in [Doc -> Fate] /\ d \in Doc
      BY DEF Sound, TypeOK, Fresh
    <2>2. ~Alive(d)
      BY DEF Fresh, Alive
    <2>3. made' = [made EXCEPT ![d] = IF Separated THEN "separated" ELSE "whole"]
      BY DEF Created
    <2>4. Made(n, d)
      BY <1>1, <1>2, <2>2, <2>3 DEF CreatedDocs, Made
    <2>5. QED
      BY <1>1, <2>1, <2>4, NodeMade
  <1>8. Recorded'
    <2>1. \A x \in Place \ DocPath : IsNode(x) => disk'[x] = disk[x]
      BY <1>2 DEF CreatedDocs
    <2>2. \A x \in Place \ DocPath : IsNode(x)' => IsNode(x)
      BY <1>2 DEF CreatedDocs
    <2>3. QED
      BY <1>3, <2>1, <2>2, RecordedStays
  <1>9. QED
    BY <1>4, <1>5, <1>6, <1>7, <1>8 DEF Sound

\* The bodies of the records, when the bin is as it was.
LEMMA BinBodiesStay ==
    ASSUME Sound, Bodied, Bin' = Bin,
           \A x \in Place \ DocPath : IsBody(x) => disk'[x] = disk[x],
           \A x \in Place \ DocPath : IsBody(x)' => IsBody(x)
    PROVE  /\ \A i \in DOMAIN Bin' : Bin'[i].text # None /\ BodyOf(Item(Bin[i].text, 0), Bin[i].doc)'
           /\ \A q \in Prose : IsBody(Item(q, 0))' => \E i \in DOMAIN Bin' : Bin'[i].text = q
  <1>1. ASSUME NEW i \in DOMAIN Bin'
        PROVE  Bin'[i].text # None /\ BodyOf(Item(Bin[i].text, 0), Bin[i].doc)'
    <2>1. PICK rec : rec = Bin[i]
      OBVIOUS
    <2>2. rec.text # None /\ BodyOf(Item(rec.text, 0), rec.doc) /\ rec.text \in DocPath
      BY <2>1, RecordIs DEF Bodied
    <2>3. Item(rec.text, 0) \in Place \ DocPath
      BY <2>2, Items, BinAssumption
    <2>4. disk'[Item(rec.text, 0)] = disk[Item(rec.text, 0)]
      BY <2>2, <2>3 DEF BodyOf
    <2>5. Bin'[i] = rec
      BY <2>1
    <2>6. QED
      BY <2>2, <2>4, <2>5 DEF BodyOf, IsBody, Holds
  <1>2. ASSUME NEW q \in Prose, IsBody(Item(q, 0))'
        PROVE  \E i \in DOMAIN Bin' : Bin'[i].text = q
    <2>1. Item(q, 0) \in Place \ DocPath
      BY Items, BinAssumption
    <2>2. IsBody(Item(q, 0))
      BY <1>2, <2>1
    <2>3. QED
      BY <2>2 DEF Bodied
  <1>3. QED
    BY <1>1, <1>2

\* What Bodied says holds after create.
LEMMA CreateBodied ==
    ASSUME Sound, Separated, Bodied, NEW p \in Prose, NEW q \in DocPath, IsNode(q),
           NEW d \in Fresh, NEW n \in DocPath, Created(p, q, n, d)
    PROVE  Bodied'
  <1>1. p \in Place /\ p \in DocPath /\ n \in Place /\ ~IsNode(n)
    BY CreatedNodes
  <1>2. CreatedDocs(p, q, n, d)
    BY CreatedNodes
  <1>3. Bin' = Bin /\ NodeOf[p] = n
    BY <1>2 DEF CreatedDocs, Created
  <1>4. \A x \in DocPath : x \in Place
    BY DEF Place
  <1>5. ASSUME NEW x \in DocPath, IsNode(x)'
        PROVE  BodyOf(disk[x].body, disk[x].doc)'
    <2>1. CASE x = n
      <3>1. disk'[x].body = p /\ disk'[x].doc = d /\ IsBody(p)' /\ disk'[p].doc = d
        BY <1>1, <1>2, <2>1 DEF CreatedDocs
      <3>2. QED
        BY <3>1 DEF BodyOf, IsBody, Holds
    <2>2. CASE x # n
      <3>1. IsNode(x) /\ disk'[x].body = disk[x].body /\ disk'[x].doc = disk[x].doc
        BY <1>2, <1>4, <1>5, <2>2 DEF CreatedDocs
      <3>2. PICK b : b = disk[x].body
        OBVIOUS
      <3>3. b \in Place
        BY <1>4, <3>1, <3>2, NodePlace, BinAssumption
      <3>4. IsBody(b) /\ disk[b].doc = disk[x].doc
        BY <3>1, <3>2 DEF Bodied, BodyOf
      <3>5. disk'[b] = disk[b]
        BY <1>2, <3>3, <3>4 DEF CreatedDocs
      <3>6. QED
        BY <3>1, <3>2, <3>4, <3>5 DEF BodyOf, IsBody, Holds
    <2>3. QED
      BY <2>1, <2>2
  <1>6. ASSUME NEW b \in DocPath, IsBody(b)'
        PROVE  IsNode(NodeOf[b])' /\ disk'[NodeOf[b]].body = b
    <2>1. CASE b = p
      BY <1>1, <1>2, <1>3, <2>1 DEF CreatedDocs
    <2>2. CASE b # p
      <3>1. IsBody(b)
        BY <1>2, <1>4, <1>6, <2>2 DEF CreatedDocs
      <3>2. IsNode(NodeOf[b]) /\ disk[NodeOf[b]].body = b
        BY <3>1 DEF Bodied
      <3>3. b \in Prose
        BY <1>4, <3>1, Items, BinAssumption DEF Sound, Filed
      <3>4. NodeOf[b] \in Place
        BY <1>4, <3>3, BinAssumption
      <3>5. QED
        BY <1>2, <3>2, <3>4 DEF CreatedDocs
    <2>3. QED
      BY <2>1, <2>2
  <1>7. \A x \in Place \ DocPath : IsBody(x) => disk'[x] = disk[x]
    BY <1>2 DEF CreatedDocs
  <1>8. \A x \in Place \ DocPath : IsBody(x)' => IsBody(x)
    BY <1>1, <1>2 DEF CreatedDocs
  <1>9. QED
    BY <1>3, <1>5, <1>6, <1>7, <1>8, BinBodiesStay DEF Bodied

-----------------------------------------------------------------------------
(* delete.                                                                 *)

\* Nothing is new but what a node lists.
Shrinks ==
    /\ Separated' <=> Separated
    /\ \A x \in Place : IsNode(x)' =>
         IsNode(x) /\ disk'[x].hasBin = disk[x].hasBin /\ disk'[x].body = disk[x].body
    /\ \A x \in Place : IsBody(x)' => IsBody(x)
    /\ \A x \in Place : Holds(x, "bin")' <=> Holds(x, "bin")
    /\ disk'[BinIndex] # Absent <=> disk[BinIndex] # Absent

\* Files that go leave the others filed.
LEMMA FiledShrinks ==
    ASSUME Sound, Shrinks
    PROVE  Filed'
  <1>1. ASSUME NEW x \in Place, disk'[x] # Absent
        PROVE  disk'[x].kind = "bin" <=> x = BinIndex
    <2>1. CASE x = BinIndex
      <3>1. Holds(x, "bin")
        BY <1>1, <2>1 DEF Shrinks, Sound, Filed, Holds
      <3>2. Holds(x, "bin")'
        BY <3>1 DEF Shrinks
      <3>3. QED
        BY <2>1, <3>2 DEF Holds
    <2>2. CASE x # BinIndex
      <3>1. ~Holds(x, "bin")
        BY <2>2 DEF Holds, Sound, Filed
      <3>2. ~Holds(x, "bin")'
        BY <3>1 DEF Shrinks
      <3>3. QED
        BY <1>1, <2>2, <3>2 DEF Holds
    <2>3. QED
      BY <2>1, <2>2
  <1>2. ASSUME NEW x \in Place, IsNode(x)'
        PROVE  /\ disk'[x].hasBin <=> x = Root /\ disk'[BinIndex] # Absent
               /\ Separated' => disk'[x].body \in Prose
               /\ ~Separated' => disk'[x].body = None
               /\ Separated' /\ x \in DocPath => NodeOf[disk'[x].body] = x
    <2>1. IsNode(x) /\ disk'[x].hasBin = disk[x].hasBin /\ disk'[x].body = disk[x].body
      BY <1>2 DEF Shrinks
    <2>2. /\ disk[x].hasBin <=> x = Root /\ disk[BinIndex] # Absent
          /\ Separated => disk[x].body \in Prose
          /\ ~Separated => disk[x].body = None
          /\ Separated /\ x \in DocPath => NodeOf[disk[x].body] = x
      BY <2>1 DEF Sound, Filed
    <2>3. QED
      BY <2>1, <2>2 DEF Shrinks
  <1>3. ASSUME NEW x \in Place, IsBody(x)'
        PROVE  Separated' /\ (x \in Prose \/ \E y \in Prose : x = Item(y, 0))
    BY <1>3 DEF Shrinks, Sound, Filed
  <1>4. QED
    BY <1>1, <1>2, <1>3 DEF Filed

\* What Delete(p) makes of the files, when p has no children.
Deleted(p) ==
    /\ disk' \in [Place -> Text] /\ disk'[p] = Absent
    /\ disk'[Parent(p)] = Unlisted(p)
    /\ HasBody(p) => disk'[disk[p].body] = Absent
    /\ \A x \in Place : x # p /\ x # Parent(p) /\ ~(HasBody(p) /\ x = disk[p].body)
                          => disk'[x] = disk[x]
    /\ made' = [made EXCEPT ![disk[p].doc] = "destroyed"]
    /\ staged' \in Seq(FileOp) /\ \A op \in Ops(staged') : ~IsRename(op)

\* The body of a document of the tree is beside it.
LEMMA HasBodyIs ==
    ASSUME Sound, NEW p \in Place, IsNode(p)
    PROVE  /\ HasBody(p) \in BOOLEAN
           /\ HasBody(p) => /\ Separated /\ disk[p].body \in Prose
                            /\ disk[p].body \in DocPath /\ disk[p].body \in Place
                            /\ IsBody(disk[p].body)
  <1>1. HasBody(p) \in BOOLEAN
    BY DEF HasBody
  <1>2. ASSUME HasBody(p)
        PROVE  /\ Separated /\ disk[p].body \in Prose
               /\ disk[p].body \in DocPath /\ disk[p].body \in Place
    BY <1>2, NodePlace, BinAssumption DEF HasBody, Place
  <1>3. ASSUME HasBody(p)
        PROVE  IsBody(disk[p].body)
    <2>1. PICK b \in Place : b = disk[p].body /\ b \in Prose /\ Separated /\ b \in DocPath
      BY <1>2, <1>3
    <2>2. ~IsNode(b)
      BY <2>1, NodePlace
    <2>3. b # BinIndex /\ disk[b] # Absent
      BY <1>3, <2>1, BinAssumption DEF HasBody
    <2>4. ~Holds(b, "bin")
      BY <2>3 DEF Holds, Sound, Filed
    <2>5. IsBody(b)
      BY <2>2, <2>3, <2>4, Kinds DEF Sound
    <2>6. QED
      BY <2>1, <2>5
  <1>4. QED
    BY <1>1, <1>2, <1>3

\* Delete runs, and leaves that.
LEMMA DeleteIs ==
    ASSUME Sound, NEW p \in DocPath, Delete(p), Rooted'
    PROVE  IsNode(p) /\ p # Root /\ disk[p].down = {} /\ Rooted /\ Deleted(p)
  <1>1. IsNode(p) /\ p # Root
    BY DEF Delete, Removable
  <1>2. disk[p].down = {} /\ Rooted
    BY DEF Delete, Rooted, Spoil
  <1> DEFINE q == Parent(p)
             b == disk[p].body
             less == Unlisted(p)
             s1 == <<Remove(p)>>
             s2 == If(HasBody(p), Remove(b))
             s3 == If(Listed(p), Write(q, less))
             ops == s1 \o s2 \o s3
  <1>3. Commit(ops) /\ made' = [made EXCEPT ![disk[p].doc] = "destroyed"]
    BY DEF Delete
  <1>4. q \in DocPath /\ q \in Place /\ q # p /\ IsNode(q) /\ Listed(p) /\ p \in Place
    BY <1>1, ParentIs
  <1>5. disk[q] \in Node /\ disk \in [Place -> Text] /\ disk[p] # Absent
    BY <1>1, <1>4, Kinds DEF Sound
  <1>6. less \in Node
    BY <1>5 DEF Unlisted, Node
  <1>7. HasBody(p) \in BOOLEAN /\ (HasBody(p) => b \in Place /\ b # p /\ b # q /\ disk[b] # Absent)
    <2>1. HasBody(p) \in BOOLEAN
          /\ (HasBody(p) => b \in Place /\ Separated /\ b \in Prose /\ disk[b] # Absent)
      BY <1>1, <1>4, HasBodyIs DEF HasBody
    <2>2. HasBody(p) => p \notin Prose /\ q \notin Prose
      BY <1>1, <1>4, <2>1, NodePlace
    <2>3. QED
      BY <2>1, <2>2
  <1> HIDE DEF q, b, less
  <1>8. /\ Remove(p) \in FileOp /\ Write(q, less) \in FileOp
        /\ HasBody(p) => Remove(b) \in FileOp
    BY <1>4, <1>6, <1>7, RemoveIs, WriteIs
  <1>9. s1 \in Seq(FileOp) /\ Ops(s1) = {Remove(p)} /\ Solo(s1)
    BY <1>8, OneOp
  <1>10. s2 \in Seq(FileOp) /\ Solo(s2) /\ Ops(s2) = IF HasBody(p) THEN {Remove(b)} ELSE {}
    BY <1>7, <1>8, MaybeOp
  <1>11. s3 \in Seq(FileOp) /\ Solo(s3) /\ Ops(s3) = {Write(q, less)}
    <2>1. s3 = <<Write(q, less)>>
      BY <1>4 DEF If
    <2> HIDE DEF s3
    <2>2. QED
      BY <1>8, <2>1, OneOp
  <1> HIDE DEF s1, s2, s3
  <1>12. Clear(Ops(s1), Ops(s2)) /\ Clear(Ops(s1), Ops(s3)) /\ Clear(Ops(s2), Ops(s3))
    BY <1>4, <1>7, <1>9, <1>10, <1>11, RemoveIs, WriteIs DEF Clear
  <1>13. /\ ops \in Seq(FileOp) /\ Solo(ops)
         /\ Ops(ops) = Ops(s1) \cup Ops(s2) \cup Ops(s3)
    <2>1. s1 \in Seq(FileOp) /\ s2 \in Seq(FileOp) /\ s3 \in Seq(FileOp)
      BY <1>9, <1>10, <1>11
    <2>2. Solo(s1) /\ Solo(s2) /\ Solo(s3)
      BY <1>9, <1>10, <1>11
    <2>3. QED
      BY <1>12, <2>1, <2>2, ThreeParts
  <1> HIDE DEF ops
  <1>14. /\ Remove(p) \in Ops(ops) /\ Write(q, less) \in Ops(ops)
         /\ HasBody(p) => Remove(b) \in Ops(ops)
         /\ \A op \in Ops(ops) : \/ op = Remove(p) \/ op = Write(q, less)
                                 \/ HasBody(p) /\ op = Remove(b)
    BY <1>9, <1>10, <1>11, <1>13
  <1> DEFINE e == [x \in Place |-> IF x = p \/ (HasBody(p) /\ x = b) THEN Absent
                                   ELSE IF x = q THEN less ELSE disk[x]]
  <1>15. e \in [Place -> Text]
    BY <1>5, <1>6 DEF Text
  <1>16. /\ e[p] = Absent /\ e[q] = less /\ (HasBody(p) => e[b] = Absent)
         /\ \A x \in Place : x # p /\ x # q /\ ~(HasBody(p) /\ x = b) => e[x] = disk[x]
    BY <1>4, <1>7
  <1> HIDE DEF e
  <1>17. \A x \in Place : (\A op \in Ops(ops) : ~Touches(op, x)) => e[x] = disk[x]
    <2> SUFFICES ASSUME NEW x \in Place, \A op \in Ops(ops) : ~Touches(op, x)
                 PROVE  e[x] = disk[x]
      OBVIOUS
    <2>1. x # p /\ x # q /\ ~(HasBody(p) /\ x = b)
      BY <1>14, WriteIs, RemoveIs
    <2>2. QED
      BY <1>16, <2>1
  <1>18. \A x \in Place, op \in Ops(ops) : Touches(op, x) => e[x] = LeftAt(op, x, disk)
    BY <1>14, <1>16, WriteIs, RemoveIs
  <1>19. \A op \in Ops(ops) : Possible(op, disk) /\ ~IsRename(op)
    BY <1>5, <1>7, <1>14, WriteIs, RemoveIs
  <1>20. staged' = ops /\ disk' = e
    BY <1>3, <1>5, <1>13, <1>15, <1>17, <1>18, <1>19, CommitSolo
  <1>21. Deleted(p)
    BY <1>3, <1>13, <1>15, <1>16, <1>19, <1>20 DEF Deleted, q, b, less
  <1>22. QED
    BY <1>1, <1>2, <1>21

\* What that makes of the documents.
DeletedDocs(p) ==
    /\ \A x \in Place : IsNode(x)' <=> IsNode(x) /\ x # p
    /\ \A x \in Place : IsNode(x) /\ x # p =>
         /\ disk'[x].doc = disk[x].doc
         /\ disk'[x].up = disk[x].up
         /\ disk'[x].body = disk[x].body
         /\ disk'[x].hasBin = disk[x].hasBin
         /\ x \in DocPath => disk'[x].down = disk[x].down \ {p}
    /\ \A x \in Place \ DocPath : disk'[x] = disk[x]
    /\ \A x \in Place : IsBody(x)' <=> IsBody(x) /\ ~(HasBody(p) /\ x = disk[p].body)
    /\ \A x \in Place : IsBody(x)' => disk'[x] = disk[x]
    /\ \A x \in Place : Holds(x, "bin")' <=> Holds(x, "bin")
    /\ disk'[BinIndex] = disk[BinIndex]
    /\ Separated' <=> Separated
    /\ Bin' = Bin

\* It makes that of them.
LEMMA DeletedNodes ==
    ASSUME Sound, NEW p \in DocPath, IsNode(p), p # Root, Deleted(p)
    PROVE  DeletedDocs(p)
  <1> DEFINE q == Parent(p)
             b == disk[p].body
  <1>1. /\ q \in DocPath /\ q \in Place /\ q # p /\ IsNode(q) /\ p \in Place
        /\ \A x \in DocPath : IsNode(x) => (p \in disk[x].down <=> x = q)
    BY ParentIs
  <1>2. HasBody(p) => b \in Place /\ b \in DocPath /\ b # p /\ b # q /\ IsBody(b)
    <2>1. HasBody(p) => b \in Place /\ b \in DocPath /\ Separated /\ b \in Prose /\ IsBody(b)
      BY <1>1, HasBodyIs
    <2>2. HasBody(p) => p \notin Prose /\ q \notin Prose
      BY <1>1, <2>1, NodePlace
    <2>3. QED
      BY <2>1, <2>2
  <1>3. disk[q] \in Node
    BY <1>1, Kinds DEF Sound
  <1>4. /\ disk'[q].kind = "node"
        /\ disk'[q].doc = disk[q].doc /\ disk'[q].up = disk[q].up
        /\ disk'[q].body = disk[q].body /\ disk'[q].hasBin = disk[q].hasBin
        /\ disk'[q].down = disk[q].down \ {p}
        /\ disk'[q] # Absent
    <2> DEFINE less == [disk[q] EXCEPT !.down = @ \ {p}]
    <2>1. disk'[q] = less
      BY DEF Deleted, Unlisted
    <2>2. less \in Node
      BY <1>3 DEF Node
    <2>3. /\ less.kind = "node" /\ less.doc = disk[q].doc /\ less.up = disk[q].up
          /\ less.body = disk[q].body /\ less.hasBin = disk[q].hasBin
          /\ less.down = disk[q].down \ {p}
      BY <1>3 DEF Node
    <2> HIDE DEF less
    <2>4. QED
      BY <2>1, <2>2, <2>3, BinAssumption
  <1>5. /\ disk'[p] = Absent /\ (HasBody(p) => disk'[b] = Absent)
        /\ \A x \in Place : x # p /\ x # q /\ ~(HasBody(p) /\ x = b) => disk'[x] = disk[x]
    BY DEF Deleted
  <1> HIDE DEF q, b
  <1>6. disk[q].kind = "node" /\ disk[q] # Absent /\ disk[p].kind = "node" /\ disk[p] # Absent
    BY <1>1 DEF IsNode, Holds
  <1>7. HasBody(p) => disk[b].kind = "body" /\ disk[b] # Absent
    BY <1>2 DEF IsBody, Holds
  <1>8. \A x \in Place : IsNode(x)' <=> IsNode(x) /\ x # p
    BY <1>4, <1>5, <1>6, <1>7 DEF IsNode, Holds
  <1>9. \A x \in Place : IsNode(x) => ~(HasBody(p) /\ x = b)
    BY <1>7 DEF IsNode, Holds
  <1>10. \A x \in Place : IsNode(x) /\ x # p =>
             /\ disk'[x].doc = disk[x].doc
             /\ disk'[x].up = disk[x].up
             /\ disk'[x].body = disk[x].body
             /\ disk'[x].hasBin = disk[x].hasBin
    BY <1>4, <1>5, <1>9
  <1>11. \A x \in DocPath : IsNode(x) /\ x # p => disk'[x].down = disk[x].down \ {p}
    <2> SUFFICES ASSUME NEW x \in DocPath, IsNode(x), x # p
                 PROVE  disk'[x].down = disk[x].down \ {p}
      OBVIOUS
    <2>1. x \in Place
      BY DEF Place
    <2>2. CASE x = q
      BY <1>4, <2>2
    <2>3. CASE x # q
      <3>1. disk'[x] = disk[x] /\ p \notin disk[x].down /\ disk[x] \in Node
        BY <1>1, <1>5, <1>9, <2>1, <2>3, Kinds DEF Sound
      <3>2. QED
        BY <3>1 DEF Node
    <2>4. QED
      BY <2>2, <2>3
  <1>12. \A x \in Place \ DocPath : disk'[x] = disk[x]
    BY <1>1, <1>2, <1>5
  <1>13. \A x \in Place : IsBody(x)' <=> IsBody(x) /\ ~(HasBody(p) /\ x = b)
    BY <1>1, <1>2, <1>4, <1>5, <1>6, <1>7 DEF IsBody, Holds
  <1>14. \A x \in Place : IsBody(x)' => disk'[x] = disk[x]
    BY <1>4, <1>5 DEF IsBody, Holds
  <1>15. \A x \in Place : Holds(x, "bin")' <=> Holds(x, "bin")
    BY <1>1, <1>2, <1>4, <1>5, <1>6, <1>7 DEF Holds
  <1>16. disk'[BinIndex] = disk[BinIndex] /\ Root \in Place /\ IsNode(Root)
    BY <1>12, BinAssumption DEF Place, Sound, Tree
  <1>17. disk'[Root].body = disk[Root].body /\ disk'[Root].hasBin = disk[Root].hasBin
    BY <1>10, <1>16
  <1>18. (Separated' <=> Separated) /\ Bin' = Bin
    BY <1>16, <1>17 DEF Separated, Bin
  <1>19. QED
    BY <1>8, <1>10, <1>11, <1>12, <1>13, <1>14, <1>15, <1>16, <1>18 DEF DeletedDocs, b

\* What Sound says holds after delete.
LEMMA DeleteSound ==
    ASSUME Sound, NEW p \in DocPath, IsNode(p), p # Root, disk[p].down = {}, Deleted(p),
           spoilt' \subseteq Irregularity
    PROVE  Sound'
  <1>1. DeletedDocs(p)
    BY DeletedNodes
  <1>2. p \in Place /\ \A x \in DocPath : x \in Place
    BY DEF Place
  <1>3. TypeOK'
    <2>1. disk' \in [Place -> Node \cup Body \cup Index \cup {Absent}]
      BY DEF Deleted, Text
    <2>2. made' \in [Doc -> Fate]
      BY DEF Deleted, Sound, TypeOK, Fate
    <2>3. QED
      BY <2>1, <2>2 DEF Deleted, TypeOK
  <1>4. Filed'
    <2>1. Shrinks
      BY <1>1 DEF DeletedDocs, Shrinks
    <2>2. QED
      BY <2>1, FiledShrinks
  <1>5. Tree'
    <2>1. Leaves(p)
      BY <1>1, <1>2 DEF DeletedDocs, Leaves
    <2>2. QED
      BY <2>1, LeafGone DEF Sound
  <1>6. Identified'
    <2>1. Destroyed({p})
      <3>1. disk[p] \in Node
        BY <1>2, Kinds DEF Sound
      <3>2. \A d \in Doc : made'[d] = IF d = disk[p].doc THEN "destroyed" ELSE made[d]
        BY <3>1 DEF Deleted, Sound, TypeOK, Node
      <3>3. \A d \in Doc : (\E x \in {p} : IsNode(x) /\ disk[x].doc = d) <=> d = disk[p].doc
        OBVIOUS
      <3>4. QED
        BY <1>1, <3>2, <3>3 DEF DeletedDocs, Destroyed
    <2>2. QED
      BY <1>2, <2>1, NodesGone DEF Sound
  <1>7. Recorded'
    <2>1. Bin' = Bin /\ (Separated' <=> Separated)
      BY <1>1 DEF DeletedDocs
    <2>2. \A x \in Place \ DocPath : IsNode(x) => disk'[x] = disk[x]
      BY <1>1 DEF DeletedDocs
    <2>3. \A x \in Place \ DocPath : IsNode(x)' => IsNode(x)
      BY <1>1 DEF DeletedDocs
    <2>4. QED
      BY <2>1, <2>2, <2>3, RecordedStays
  <1>8. QED
    BY <1>3, <1>4, <1>5, <1>6, <1>7 DEF Sound

\* What Bodied says holds after delete.
LEMMA DeleteBodied ==
    ASSUME Sound, Separated, Bodied, NEW p \in DocPath, IsNode(p), p # Root, Deleted(p)
    PROVE  Bodied'
  <1>1. DeletedDocs(p)
    BY DeletedNodes
  <1>2. p \in Place /\ \A x \in DocPath : x \in Place
    BY DEF Place
  <1>3. ASSUME NEW x \in DocPath, IsNode(x)'
        PROVE  BodyOf(disk[x].body, disk[x].doc)'
    <2>1. /\ IsNode(x) /\ x # p
          /\ disk'[x].body = disk[x].body /\ disk'[x].doc = disk[x].doc
      BY <1>1, <1>2, <1>3 DEF DeletedDocs
    <2>2. PICK b : b = disk[x].body
      OBVIOUS
    <2>3. b \in Place /\ NodeOf[b] = x
      BY <1>2, <2>1, <2>2, NodePlace, BinAssumption DEF Sound, Filed
    <2>4. IsBody(b) /\ disk[b].doc = disk[x].doc
      BY <2>1, <2>2 DEF Bodied, BodyOf
    <2>5. NodeOf[disk[p].body] = p
      BY <1>2 DEF Sound, Filed
    <2>6. IsBody(b)' /\ disk'[b] = disk[b]
      BY <1>1, <2>1, <2>3, <2>4, <2>5 DEF DeletedDocs
    <2>7. QED
      BY <2>1, <2>2, <2>4, <2>6 DEF BodyOf, IsBody, Holds
  <1>4. ASSUME NEW b \in DocPath, IsBody(b)'
        PROVE  IsNode(NodeOf[b])' /\ disk'[NodeOf[b]].body = b
    <2>1. IsBody(b) /\ ~(HasBody(p) /\ b = disk[p].body)
      BY <1>1, <1>2, <1>4 DEF DeletedDocs
    <2>2. IsNode(NodeOf[b]) /\ disk[NodeOf[b]].body = b
      BY <2>1 DEF Bodied
    <2>3. b \in Prose
      BY <1>2, <2>1, Items, BinAssumption DEF Sound, Filed
    <2>4. NodeOf[b] \in Place
      BY <1>2, <2>3, BinAssumption
    <2>5. NodeOf[b] # p
      <3>1. b # None /\ disk[b] # Absent
        BY <1>2, <2>1, BinAssumption DEF IsBody, Holds
      <3>2. QED
        BY <2>1, <2>2, <3>1 DEF HasBody
    <2>6. QED
      BY <1>1, <2>2, <2>4, <2>5 DEF DeletedDocs
  <1>5. \A x \in Place \ DocPath : IsBody(x) => disk'[x] = disk[x]
    BY <1>1 DEF DeletedDocs
  <1>6. \A x \in Place \ DocPath : IsBody(x)' => IsBody(x)
    BY <1>1 DEF DeletedDocs
  <1>7. Bin' = Bin
    BY <1>1 DEF DeletedDocs
  <1>8. QED
    BY <1>3, <1>4, <1>5, <1>6, <1>7, BinBodiesStay DEF Bodied

-----------------------------------------------------------------------------
(* recycle.                                                                *)

\* The record of a document that is moved to bin.
NewRecord(p, bin) ==
    [doc |-> disk[p].doc, from |-> p, bin |-> bin, parent |-> Parent(p),
     text |-> IF HasBody(p) THEN disk[p].body ELSE None]

\* The root's new text.
NewRoot(p) ==
    [(IF Parent(p) = Root THEN Unlisted(p) ELSE disk[Root]) EXCEPT !.hasBin = TRUE]

\* What Recycle(p) makes of the files, when p has no children.
Recycled(p, bin) ==
    /\ disk[bin] = Absent /\ \E k \in 0..MaxBump : bin = Item(p, k)
    /\ disk' \in [Place -> Text]
    /\ disk'[p] = Absent /\ disk'[bin] = disk[p]
    /\ HasBody(p) => /\ disk'[disk[p].body] = Absent
                     /\ disk'[Item(disk[p].body, 0)] = disk[disk[p].body]
    /\ disk'[BinIndex] = BinOf(Append(Bin, NewRecord(p, bin)))
    /\ disk'[Root] = NewRoot(p)
    /\ Parent(p) # Root => disk'[Parent(p)] = Unlisted(p)
    /\ \A x \in Place :
         /\ x \notin {p, bin, BinIndex, Root, Parent(p)}
         /\ HasBody(p) => x \notin {disk[p].body, Item(disk[p].body, 0)}
         => disk'[x] = disk[x]
    /\ made' = made

\* What it commits.
RecycleStages(p, bin) ==
    /\ staged' \in Seq(FileOp) /\ ReplaySafe(staged')
    /\ \A op \in Ops(staged') : IsRename(op) =>
         /\ disk[op.from] # Absent
         /\ (HasBody(p) => disk[Item(disk[p].body, 0)] = Absent) => disk[op.to] = Absent

\* The places recycle deals with are apart.
LEMMA RecyclePlaces ==
    ASSUME Sound, NEW p \in DocPath, IsNode(p), p # Root,
           NEW k \in 0..MaxBump, disk[Item(p, k)] = Absent
    PROVE  /\ p \in Place /\ Root \in Place /\ Parent(p) \in Place /\ BinIndex \in Place
           /\ Item(p, k) \in Place \ DocPath
           /\ p # BinIndex /\ Root # BinIndex /\ Parent(p) # BinIndex /\ Item(p, k) # BinIndex
           /\ Parent(p) # p /\ Parent(p) \in DocPath
           /\ Item(p, k) \notin {p, Root, Parent(p)}
           /\ HasBody(p) =>
                /\ disk[p].body \in Prose /\ disk[p].body \in DocPath /\ disk[p].body \in Place
                /\ IsBody(disk[p].body) /\ disk[disk[p].body] # Absent
                /\ disk[p].body \notin {p, Root, Parent(p), BinIndex, Item(p, k)}
                /\ Item(disk[p].body, 0) \in Place \ DocPath
                /\ Item(disk[p].body, 0) \notin {BinIndex, Item(p, k)}
  <1>1. /\ p \in Place /\ Parent(p) \in DocPath /\ IsNode(Parent(p)) /\ Parent(p) # p
        /\ Parent(p) \in Place
    BY ParentIs
  <1>2. IsNode(Root) /\ Root \in Place /\ BinIndex \in Place /\ Root \in DocPath
    BY BinAssumption DEF Sound, Tree, Place
  <1>3. p # BinIndex /\ Root # BinIndex /\ Parent(p) # BinIndex
    BY <1>1, <1>2, NodePlace
  <1>4. Item(p, k) \in Place \ DocPath /\ Item(p, k) # BinIndex
    BY Items
  <1>5. ASSUME HasBody(p)
        PROVE  /\ disk[p].body \in Prose /\ disk[p].body \in DocPath /\ disk[p].body \in Place
               /\ IsBody(disk[p].body) /\ disk[disk[p].body] # Absent
               /\ disk[p].body \notin {p, Root, Parent(p), BinIndex, Item(p, k)}
               /\ Item(disk[p].body, 0) \in Place \ DocPath
               /\ Item(disk[p].body, 0) \notin {BinIndex, Item(p, k)}
    <2>1. PICK b : b = disk[p].body
      OBVIOUS
    <2>2. b \in Prose /\ b \in DocPath /\ b \in Place /\ IsBody(b) /\ Separated
      BY <1>1, <1>5, <2>1, HasBodyIs
    <2>3. p \notin Prose /\ Root \notin Prose /\ Parent(p) \notin Prose
      BY <1>1, <1>2, <2>2, NodePlace
    <2>4. disk[b] # Absent
      BY <2>2 DEF IsBody, Holds
    <2>5. b # BinIndex
      BY <2>2, BinAssumption
    <2>6. /\ Item(b, 0) \in Place \ DocPath /\ Item(b, 0) # BinIndex
          /\ Item(b, 0) # Item(p, k)
      BY <2>2, <2>3, Items
    <2>7. QED
      BY <1>4, <2>1, <2>2, <2>3, <2>4, <2>5, <2>6
  <1>6. QED
    BY <1>1, <1>2, <1>3, <1>4, <1>5

\* The texts that recycle writes.
LEMMA RecycleTexts ==
    ASSUME Sound, NEW p \in DocPath, IsNode(p), p # Root,
           NEW k \in 0..MaxBump, disk[Item(p, k)] = Absent
    PROVE  /\ NewRecord(p, Item(p, k)) \in Record
           /\ BinOf(Append(Bin, NewRecord(p, Item(p, k)))) \in Index
           /\ Unlisted(p) \in Node
           /\ NewRoot(p) \in Node
           /\ disk[Root].hasBin /\ Parent(p) # Root => NewRoot(p) = disk[Root]
  <1>1. /\ p \in Place /\ Parent(p) \in DocPath /\ IsNode(Parent(p))
        /\ Parent(p) \in Place
    BY ParentIs
  <1>2. disk[p] \in Node /\ disk[Parent(p)] \in Node
    BY <1>1, Kinds DEF Sound
  <1>3. disk[Root] \in Node /\ Bin \in Seq(Record)
    BY BinIs
  <1>4. Item(p, k) \in Place
    BY Items
  <1>5. NewRecord(p, Item(p, k)) \in Record
    <2>1. HasBody(p) => disk[p].body \in DocPath
      BY <1>1, HasBodyIs
    <2>2. disk[p].doc \in Doc
      BY <1>2 DEF Node
    <2>3. (IF HasBody(p) THEN disk[p].body ELSE None) \in DocPath \cup {None}
      BY <2>1
    <2>4. QED
      BY <1>1, <1>4, <2>2, <2>3 DEF NewRecord, Record
  <1>6. BinOf(Append(Bin, NewRecord(p, Item(p, k)))) \in Index
    BY <1>3, <1>5 DEF BinOf, Index
  <1>7. Unlisted(p) \in Node
    BY <1>2 DEF Unlisted, Node
  <1>8. NewRoot(p) \in Node
    <2>1. PICK n \in Node : n = IF Parent(p) = Root THEN Unlisted(p) ELSE disk[Root]
      BY <1>3, <1>7
    <2>2. NewRoot(p) = [n EXCEPT !.hasBin = TRUE]
      BY <2>1 DEF NewRoot
    <2>3. QED
      BY <2>2 DEF Node
  <1>9. ASSUME disk[Root].hasBin, Parent(p) # Root
        PROVE  NewRoot(p) = disk[Root]
    <2>1. NewRoot(p) = [disk[Root] EXCEPT !.hasBin = TRUE]
      BY <1>9 DEF NewRoot
    <2>2. disk[Root].hasBin = TRUE
      BY <1>3, <1>9 DEF Node
    <2>3. QED
      BY <1>3, <2>1, <2>2 DEF Node
  <1>10. QED
    BY <1>5, <1>6, <1>7, <1>8, <1>9

\* Five parts.
LEMMA FiveParts ==
    ASSUME NEW a \in Seq(FileOp), NEW b \in Seq(FileOp), NEW c \in Seq(FileOp),
           NEW u \in Seq(FileOp), NEW v \in Seq(FileOp),
           Solo(a), Solo(b), Solo(c), Solo(u), Solo(v),
           Clear(Ops(a), Ops(b)), Clear(Ops(a), Ops(c)), Clear(Ops(b), Ops(c)),
           Clear(Ops(a), Ops(u)), Clear(Ops(b), Ops(u)), Clear(Ops(c), Ops(u)),
           Clear(Ops(a), Ops(v)), Clear(Ops(b), Ops(v)), Clear(Ops(c), Ops(v)),
           Clear(Ops(u), Ops(v))
    PROVE  /\ a \o b \o c \o (u \o v) \in Seq(FileOp) /\ Solo(a \o b \o c \o (u \o v))
           /\ Ops(a \o b \o c \o (u \o v))
                = Ops(a) \cup Ops(b) \cup Ops(c) \cup Ops(u) \cup Ops(v)
  <1>1. /\ a \o b \o c \in Seq(FileOp) /\ Solo(a \o b \o c)
        /\ Ops(a \o b \o c) = Ops(a) \cup Ops(b) \cup Ops(c)
    BY ThreeParts
  <1>2. u \o v \in Seq(FileOp) /\ Solo(u \o v) /\ Ops(u \o v) = Ops(u) \cup Ops(v)
    BY Joined
  <1>3. Clear(Ops(a \o b \o c), Ops(u \o v))
    BY <1>1, <1>2 DEF Clear
  <1> DEFINE s == a \o b \o c
             t == u \o v
  <1> HIDE DEF s, t
  <1>4. s \in Seq(FileOp) /\ t \in Seq(FileOp) /\ Solo(s) /\ Solo(t) /\ Clear(Ops(s), Ops(t))
    BY <1>1, <1>2, <1>3 DEF s, t
  <1>5. s \o t \in Seq(FileOp) /\ Solo(s \o t) /\ Ops(s \o t) = Ops(s) \cup Ops(t)
    BY <1>4, Joined
  <1>6. QED
    BY <1>1, <1>2, <1>5 DEF s, t

\* The commit of recycle, in its parts.
LEMMA RecycleCommits ==
    ASSUME Sound, NEW p \in DocPath, Recycle(p), Rooted'
    PROVE  /\ IsNode(p) /\ p # Root /\ disk[p].down = {} /\ Rooted /\ made' = made
           /\ \E k \in 0..MaxBump :
                /\ disk[Item(p, k)] = Absent
                /\ Commit(<<Rename(p, Item(p, k))>>
                          \o If(HasBody(p), Rename(disk[p].body, Item(disk[p].body, 0)))
                          \o <<Write(BinIndex, BinOf(Append(Bin, NewRecord(p, Item(p, k)))))>>
                          \o (If(Parent(p) # Root, Write(Parent(p), Unlisted(p)))
                              \o If(Parent(p) = Root \/ ~disk[Root].hasBin,
                                    Write(Root, NewRoot(p)))))
           /\ spoilt' \subseteq spoilt \cup {"overlaid"} /\ spoilt \subseteq spoilt'
           /\ HasBody(p) /\ disk[Item(disk[p].body, 0)] # Absent => "overlaid" \in spoilt'
  <1>1. IsNode(p) /\ p # Root /\ made' = made
    BY DEF Recycle, Removable
  <1>2. disk[p].down = {} /\ Rooted
    BY DEF Recycle, Rooted
  <1>3. /\ spoilt' \subseteq spoilt \cup {"overlaid"} /\ spoilt \subseteq spoilt'
        /\ HasBody(p) /\ disk[Item(disk[p].body, 0)] # Absent => "overlaid" \in spoilt'
    BY <1>2 DEF Recycle
  <1>4. SpanningRoot(p) = Root
    BY <1>1, SpanIs
  <1>5. Records(Root) = Bin
    BY DEF Records, Bin
  <1>6. Listed(p)
    BY <1>1, ParentIs
  <1>7. ParentAndRoot(p, Root) = If(Parent(p) # Root, Write(Parent(p), Unlisted(p)))
                                 \o If(Parent(p) = Root \/ ~disk[Root].hasBin,
                                       Write(Root, NewRoot(p)))
    BY <1>6 DEF ParentAndRoot, NewRoot
  <1>8. PICK k \in 0..MaxBump :
          /\ disk[Item(p, k)] = Absent
          /\ Commit(<<Rename(p, Item(p, k))>>
                    \o If(HasBody(p), Rename(disk[p].body, Item(disk[p].body, 0)))
                    \o <<Write(BinIndex, BinOf(Append(Bin, NewRecord(p, Item(p, k)))))>>
                    \o ParentAndRoot(p, Root))
    BY <1>4, <1>5 DEF Recycle, BinPlace, NewRecord
  <1>9. QED
    BY <1>1, <1>2, <1>3, <1>7, <1>8

\* Recycle runs, and leaves that.
LEMMA RecycleIs ==
    ASSUME Sound, NEW p \in DocPath, Recycle(p), Rooted'
    PROVE  \E bin \in Place : Recycled(p, bin) /\ RecycleStages(p, bin)
  <1> DEFINE q == Parent(p)
             b == disk[p].body
             t == Item(b, 0)
             less == Unlisted(p)
             root == NewRoot(p)
             B == HasBody(p)
             Q == q # Root
             R == q = Root \/ ~disk[Root].hasBin
  <1>1. IsNode(p) /\ p # Root /\ made' = made
    BY RecycleCommits
  <1>2. PICK k \in 0..MaxBump :
          /\ disk[Item(p, k)] = Absent
          /\ Commit(<<Rename(p, Item(p, k))>>
                    \o If(B, Rename(b, t))
                    \o <<Write(BinIndex, BinOf(Append(Bin, NewRecord(p, Item(p, k)))))>>
                    \o (If(Q, Write(q, less)) \o If(R, Write(Root, root))))
    BY RecycleCommits
  <1> DEFINE bin == Item(p, k)
             index == BinOf(Append(Bin, NewRecord(p, bin)))
             s1 == <<Rename(p, bin)>>
             s2 == If(B, Rename(b, t))
             s3 == <<Write(BinIndex, index)>>
             s4 == If(Q, Write(q, less))
             s5 == If(R, Write(Root, root))
             ops == s1 \o s2 \o s3 \o (s4 \o s5)
  <1>3. /\ p \in Place /\ Root \in Place /\ q \in Place /\ BinIndex \in Place
        /\ bin \in Place
        /\ p # BinIndex /\ Root # BinIndex /\ q # BinIndex /\ bin # BinIndex
        /\ q # p /\ bin # p /\ bin # Root /\ bin # q
    BY <1>1, <1>2, RecyclePlaces
  <1>4. ASSUME B
        PROVE  /\ b \in Place /\ t \in Place /\ disk[b] # Absent
               /\ b # p /\ b # Root /\ b # q /\ b # BinIndex /\ b # bin
               /\ t # BinIndex /\ t # bin /\ t # p /\ t # Root /\ t # q /\ t # b
    <2>1. p \in DocPath /\ Root \in DocPath /\ q \in DocPath
      BY <1>1, <1>2, RecyclePlaces, BinAssumption
    <2>2. QED
      BY <1>1, <1>2, <1>4, <2>1, RecyclePlaces
  <1>5. /\ index \in Index /\ less \in Node /\ root \in Node
        /\ ~R => root = disk[Root]
    BY <1>1, <1>2, RecycleTexts
  <1>6. disk \in [Place -> Text] /\ disk[p] # Absent
    BY <1>1, <1>3, Kinds DEF Sound
  <1>7. B \in BOOLEAN /\ Q \in BOOLEAN /\ R \in BOOLEAN
    BY DEF HasBody
  <1> HIDE DEF q, b, t, less, root, B, Q, R, bin, index
  <1>8. /\ Rename(p, bin) \in FileOp /\ Write(BinIndex, index) \in FileOp
        /\ Write(q, less) \in FileOp /\ Write(Root, root) \in FileOp
        /\ B => Rename(b, t) \in FileOp
    BY <1>3, <1>4, <1>5, RenameIs, WriteIs
  <1>9. s1 \in Seq(FileOp) /\ Ops(s1) = {Rename(p, bin)} /\ Solo(s1)
    BY <1>8, OneOp
  <1>10. s2 \in Seq(FileOp) /\ Solo(s2) /\ Ops(s2) = IF B THEN {Rename(b, t)} ELSE {}
    BY <1>7, <1>8, MaybeOp
  <1>11. s3 \in Seq(FileOp) /\ Ops(s3) = {Write(BinIndex, index)} /\ Solo(s3)
    BY <1>8, OneOp
  <1>12. s4 \in Seq(FileOp) /\ Solo(s4) /\ Ops(s4) = IF Q THEN {Write(q, less)} ELSE {}
    BY <1>7, <1>8, MaybeOp
  <1>13. s5 \in Seq(FileOp) /\ Solo(s5) /\ Ops(s5) = IF R THEN {Write(Root, root)} ELSE {}
    BY <1>7, <1>8, MaybeOp
  <1> HIDE DEF s1, s2, s3, s4, s5
  <1>14. Q <=> q # Root
    BY DEF Q
  <1>15. /\ Clear(Ops(s1), Ops(s2)) /\ Clear(Ops(s1), Ops(s3)) /\ Clear(Ops(s1), Ops(s4))
         /\ Clear(Ops(s1), Ops(s5))
    BY <1>1, <1>3, <1>4, <1>9, <1>10, <1>11, <1>12, <1>13, RenameIs, WriteIs DEF Clear
  <1>16. /\ Clear(Ops(s2), Ops(s3)) /\ Clear(Ops(s2), Ops(s4)) /\ Clear(Ops(s2), Ops(s5))
    BY <1>3, <1>4, <1>10, <1>11, <1>12, <1>13, RenameIs, WriteIs DEF Clear
  <1>17. /\ Clear(Ops(s3), Ops(s4)) /\ Clear(Ops(s3), Ops(s5)) /\ Clear(Ops(s4), Ops(s5))
    BY <1>3, <1>11, <1>12, <1>13, <1>14, WriteIs DEF Clear
  <1>18. /\ ops \in Seq(FileOp) /\ Solo(ops)
         /\ Ops(ops) = Ops(s1) \cup Ops(s2) \cup Ops(s3) \cup Ops(s4) \cup Ops(s5)
    <2>1. /\ s1 \in Seq(FileOp) /\ s2 \in Seq(FileOp) /\ s3 \in Seq(FileOp)
          /\ s4 \in Seq(FileOp) /\ s5 \in Seq(FileOp)
      BY <1>9, <1>10, <1>11, <1>12, <1>13
    <2>2. Solo(s1) /\ Solo(s2) /\ Solo(s3) /\ Solo(s4) /\ Solo(s5)
      BY <1>9, <1>10, <1>11, <1>12, <1>13
    <2>3. QED
      BY <1>15, <1>16, <1>17, <2>1, <2>2, FiveParts
  <1>19. Commit(ops)
    BY <1>2 DEF ops, s1, s2, s3, s4, s5, bin, index, B, b, t, q, less, Q, R, root
  <1> HIDE DEF ops
  <1>20. /\ Rename(p, bin) \in Ops(ops) /\ Write(BinIndex, index) \in Ops(ops)
         /\ B => Rename(b, t) \in Ops(ops)
         /\ Q => Write(q, less) \in Ops(ops)
         /\ R => Write(Root, root) \in Ops(ops)
         /\ \A op \in Ops(ops) : \/ op = Rename(p, bin) \/ op = Write(BinIndex, index)
                                 \/ B /\ op = Rename(b, t)
                                 \/ Q /\ op = Write(q, less)
                                 \/ R /\ op = Write(Root, root)
    BY <1>9, <1>10, <1>11, <1>12, <1>13, <1>18
  <1> DEFINE e == [x \in Place |->
                     IF x = p \/ (B /\ x = b) THEN Absent
                     ELSE IF x = bin THEN disk[p]
                     ELSE IF B /\ x = t THEN disk[b]
                     ELSE IF x = BinIndex THEN index
                     ELSE IF x = Root THEN root
                     ELSE IF x = q THEN less ELSE disk[x]]
  <1>21. e \in [Place -> Text]
    BY <1>3, <1>4, <1>5, <1>6 DEF Text
  <1>22. /\ e[p] = Absent /\ e[bin] = disk[p] /\ e[BinIndex] = index /\ e[Root] = root
         /\ q # Root => e[q] = less
    BY <1>1, <1>3, <1>4
  <1>23. B => e[b] = Absent /\ e[t] = disk[b]
    BY <1>3, <1>4
  <1>24. \A x \in Place : x \notin {p, bin, BinIndex, Root, q} /\ (B => x \notin {b, t})
                            => e[x] = disk[x]
    OBVIOUS
  <1> HIDE DEF e
  <1>25. \A x \in Place : (\A op \in Ops(ops) : ~Touches(op, x)) => e[x] = disk[x]
    <2> SUFFICES ASSUME NEW x \in Place, \A op \in Ops(ops) : ~Touches(op, x)
                 PROVE  e[x] = disk[x]
      OBVIOUS
    <2>1. /\ x # p /\ x # bin /\ x # BinIndex /\ (B => x # b /\ x # t)
          /\ (Q => x # q) /\ (R => x # Root)
      BY <1>20, WriteIs, RenameIs
    <2>2. CASE x = Root
      BY <1>5, <1>22, <2>1, <2>2
    <2>3. CASE x # Root
      <3>1. x # q
        BY <1>14, <2>1, <2>3
      <3>2. QED
        BY <1>24, <2>1, <2>3, <3>1
    <2>4. QED
      BY <2>2, <2>3
  <1>26. \A x \in Place, op \in Ops(ops) : Touches(op, x) => e[x] = LeftAt(op, x, disk)
    <2> SUFFICES ASSUME NEW x \in Place, NEW op \in Ops(ops), Touches(op, x)
                 PROVE  e[x] = LeftAt(op, x, disk)
      OBVIOUS
    <2>1. CASE op = Rename(p, bin)
      BY <1>3, <1>22, <2>1, RenameIs
    <2>2. CASE op = Write(BinIndex, index)
      BY <1>22, <2>2, WriteIs
    <2>3. CASE B /\ op = Rename(b, t)
      BY <1>4, <1>23, <2>3, RenameIs
    <2>4. CASE Q /\ op = Write(q, less)
      BY <1>14, <1>22, <2>4, WriteIs
    <2>5. CASE R /\ op = Write(Root, root)
      BY <1>22, <2>5, WriteIs
    <2>6. QED
      BY <1>20, <2>1, <2>2, <2>3, <2>4, <2>5
  <1>27. \A op \in Ops(ops) : Possible(op, disk)
    BY <1>4, <1>6, <1>20, WriteIs, RenameIs
  <1>28. staged' = ops /\ disk' = e /\ ReplaySafe(ops)
    BY <1>6, <1>18, <1>19, <1>21, <1>25, <1>26, <1>27, CommitSolo
  <1>29. disk[bin] = Absent
    BY <1>2 DEF bin
  <1>30. \A op \in Ops(ops) : IsRename(op) =>
           /\ disk[op.from] # Absent
           /\ (B => disk[t] = Absent) => disk[op.to] = Absent
    BY <1>4, <1>6, <1>20, <1>29, WriteIs, RenameIs
  <1>31. RecycleStages(p, bin)
    BY <1>18, <1>28, <1>30 DEF RecycleStages, B, t, b
  <1>32. Recycled(p, bin)
    <2>1. bin = Item(p, k)
      BY DEF bin
    <2>2. made' = made
      BY <1>1
    <2>3. QED
      BY <1>21, <1>22, <1>23, <1>24, <1>28, <1>29, <2>1, <2>2
         DEF Recycled, B, b, t, q, less, root, index
  <1>33. QED
    BY <1>3, <1>31, <1>32

\* What recycle makes of the documents.
RecycledDocs(p, bin) ==
    /\ bin \in Place \ DocPath /\ ~IsNode(bin) /\ disk'[bin] = disk[p]
    /\ \A x \in Place : IsNode(x)' <=> (IsNode(x) /\ x # p) \/ x = bin
    /\ \A x \in Place : IsNode(x) /\ x # p =>
         /\ disk'[x].doc = disk[x].doc
         /\ disk'[x].up = disk[x].up
         /\ disk'[x].body = disk[x].body
         /\ disk'[x].hasBin <=> x = Root
         /\ x \in DocPath => disk'[x].down = disk[x].down \ {p}
         /\ x \notin DocPath => disk'[x] = disk[x]
    /\ \A x \in Place : IsBody(x)' <=> \/ IsBody(x) /\ ~(HasBody(p) /\ x = disk[p].body)
                                       \/ HasBody(p) /\ x = Item(disk[p].body, 0)
    /\ \A x \in Place :
         IsBody(x) /\ ~(HasBody(p) /\ x \in {disk[p].body, Item(disk[p].body, 0)})
           => disk'[x] = disk[x]
    /\ \A x \in Place : Holds(x, "bin")' <=> x = BinIndex
    /\ disk'[BinIndex] # Absent
    /\ Separated' <=> Separated
    /\ Bin' = Append(Bin, NewRecord(p, bin))

\* It makes that of them.
LEMMA RecycledNodes ==
    ASSUME Sound, NEW p \in DocPath, IsNode(p), p # Root, NEW bin \in Place, Recycled(p, bin)
    PROVE  RecycledDocs(p, bin)
  <1> DEFINE q == Parent(p)
             b == disk[p].body
             t == Item(b, 0)
             B == HasBody(p)
  <1>0. PICK k \in 0..MaxBump : bin = Item(p, k)
    BY DEF Recycled
  <1>1. disk[bin] = Absent /\ disk[Item(p, k)] = Absent
    BY <1>0 DEF Recycled
  <1>2. /\ p \in Place /\ Root \in Place /\ q \in Place /\ BinIndex \in Place
        /\ bin \in Place \ DocPath
        /\ p # BinIndex /\ Root # BinIndex /\ q # BinIndex /\ bin # BinIndex
        /\ q # p /\ bin # p /\ bin # Root /\ bin # q
    BY <1>0, <1>1, RecyclePlaces
  <1>3. ASSUME B
        PROVE  /\ b \in Place /\ t \in Place /\ disk[b] # Absent /\ IsBody(b)
               /\ b # p /\ b # Root /\ b # q /\ b # BinIndex /\ b # bin /\ b \in DocPath
               /\ t # BinIndex /\ t # bin /\ t # p /\ t # Root /\ t # q /\ t # b
               /\ t \notin DocPath /\ Separated /\ b \in Prose
    <2>1. p \in DocPath /\ Root \in DocPath /\ q \in DocPath
      BY <1>0, <1>1, RecyclePlaces, BinAssumption
    <2>2. Separated
      BY <1>2, <1>3, HasBodyIs
    <2>3. QED
      BY <1>0, <1>1, <1>3, <2>1, <2>2, RecyclePlaces
  <1>4. IsNode(q) /\ IsNode(Root)
        /\ \A x \in DocPath : IsNode(x) => (p \in disk[x].down <=> x = q)
    BY ParentIs DEF Sound, Tree
  <1>5. disk[q] \in Node /\ disk[Root] \in Node /\ disk[p] \in Node
    BY <1>2, <1>4, Kinds DEF Sound
  <1>6. ~IsNode(bin)
    BY <1>1 DEF IsNode, Holds
  <1>7. /\ disk'[Root].kind = "node" /\ disk'[Root] # Absent
        /\ disk'[Root].doc = disk[Root].doc /\ disk'[Root].up = disk[Root].up
        /\ disk'[Root].body = disk[Root].body /\ disk'[Root].hasBin = TRUE
        /\ disk'[Root].down = disk[Root].down \ {p}
    <2>1. disk'[Root] = NewRoot(p) /\ NewRoot(p) \in Node
      BY <1>0, <1>1, RecycleTexts DEF Recycled
    <2>2. PICK n \in Node : /\ n = IF q = Root THEN Unlisted(p) ELSE disk[Root]
                            /\ NewRoot(p) = [n EXCEPT !.hasBin = TRUE]
      BY <1>0, <1>1, <1>5, RecycleTexts DEF NewRoot
    <2>3. /\ n.kind = "node" /\ n.doc = disk[Root].doc /\ n.up = disk[Root].up
          /\ n.body = disk[Root].body /\ n.down = disk[Root].down \ {p}
      <3>1. CASE q = Root
        <4>1. n = [disk[Root] EXCEPT !.down = @ \ {p}]
          BY <2>2, <3>1 DEF Unlisted
        <4>2. QED
          BY <1>5, <4>1 DEF Node
      <3>2. CASE q # Root
        <4>1. n = disk[Root] /\ p \notin disk[Root].down
          BY <1>4, <2>2, <3>2, BinAssumption
        <4>2. QED
          BY <1>5, <4>1 DEF Node
      <3>3. QED
        BY <3>1, <3>2
    <2> DEFINE r == NewRoot(p)
    <2>4. /\ r.kind = "node" /\ r.doc = n.doc /\ r.up = n.up
          /\ r.body = n.body /\ r.hasBin = TRUE /\ r.down = n.down
      BY <2>2 DEF Node
    <2> HIDE DEF r
    <2>5. disk'[Root] = r /\ r # Absent
      BY <2>1, BinAssumption DEF r
    <2>6. QED
      BY <2>3, <2>4, <2>5
  <1>8. ASSUME q # Root
        PROVE  /\ disk'[q].kind = "node" /\ disk'[q] # Absent
               /\ disk'[q].doc = disk[q].doc /\ disk'[q].up = disk[q].up
               /\ disk'[q].body = disk[q].body /\ disk'[q].hasBin = disk[q].hasBin
               /\ disk'[q].down = disk[q].down \ {p}
    <2> DEFINE less == [disk[q] EXCEPT !.down = @ \ {p}]
    <2>1. disk'[q] = less
      BY <1>8 DEF Recycled, Unlisted
    <2>2. less \in Node
      BY <1>5 DEF Node
    <2>3. /\ less.kind = "node" /\ less.doc = disk[q].doc /\ less.up = disk[q].up
          /\ less.body = disk[q].body /\ less.hasBin = disk[q].hasBin
          /\ less.down = disk[q].down \ {p}
      BY <1>5 DEF Node
    <2> HIDE DEF less
    <2>4. QED
      BY <2>1, <2>2, <2>3, BinAssumption
  <1>9. /\ disk'[p] = Absent /\ disk'[bin] = disk[p]
        /\ B => disk'[b] = Absent /\ disk'[t] = disk[b]
    BY DEF Recycled
  <1>10. \A x \in Place : x \notin {p, bin, BinIndex, Root, q} /\ (B => x \notin {b, t})
                            => disk'[x] = disk[x]
    BY DEF Recycled
  <1>11. Holds(BinIndex, "bin")' /\ disk'[BinIndex].records = Append(Bin, NewRecord(p, bin))
    <2> DEFINE index == BinOf(Append(Bin, NewRecord(p, bin)))
    <2>1. disk'[BinIndex] = index
      BY DEF Recycled
    <2>2. index \in Index
      BY <1>0, <1>1, RecycleTexts
    <2>3. index.kind = "bin" /\ index.records = Append(Bin, NewRecord(p, bin))
      BY DEF BinOf
    <2> HIDE DEF index
    <2>4. QED
      BY <2>1, <2>2, <2>3, BinAssumption DEF Holds
  <1> HIDE DEF q, b, t, B
  <1>12. /\ disk[q].kind = "node" /\ disk[q] # Absent /\ disk[p].kind = "node" /\ disk[p] # Absent
         /\ disk[Root].kind = "node" /\ disk[Root] # Absent
    BY <1>4 DEF IsNode, Holds
  <1>13. B => disk[b].kind = "body"
    BY <1>3 DEF IsBody, Holds
  <1>14. \A x \in Place : IsNode(x) => x # bin /\ x # BinIndex /\ (B => x # b /\ x # t)
    <2> SUFFICES ASSUME NEW x \in Place, IsNode(x)
                 PROVE  x # bin /\ x # BinIndex /\ (B => x # b /\ x # t)
      OBVIOUS
    <2>1. x # BinIndex /\ (Separated => x \notin Prose /\ \A y \in Prose : x # Item(y, 0))
      BY NodePlace
    <2>2. QED
      BY <1>3, <1>6, <2>1 DEF t
  <1>15. ASSUME NEW x \in Place PROVE IsNode(x)' <=> (IsNode(x) /\ x # p) \/ x = bin
    <2>1. CASE x \in {p, bin, BinIndex, Root, q}
      BY <1>2, <1>4, <1>7, <1>8, <1>9, <1>11, <1>12, <1>14, <2>1 DEF IsNode, Holds
    <2>2. CASE B /\ x \in {b, t}
      BY <1>3, <1>9, <1>13, <1>14, <2>2 DEF IsNode, Holds
    <2>3. CASE x \notin {p, bin, BinIndex, Root, q} /\ (B => x \notin {b, t})
      BY <1>10, <2>3 DEF IsNode, Holds
    <2>4. QED
      BY <2>1, <2>2, <2>3
  <1>16. \A x \in Place : IsNode(x) /\ x \notin {p, Root, q} => disk'[x] = disk[x]
    BY <1>10, <1>14
  <1>17. ASSUME NEW x \in Place, IsNode(x), x # p
         PROVE  /\ disk'[x].doc = disk[x].doc
                /\ disk'[x].up = disk[x].up
                /\ disk'[x].body = disk[x].body
                /\ disk'[x].hasBin <=> x = Root
                /\ x \in DocPath => disk'[x].down = disk[x].down \ {p}
                /\ x \notin DocPath => disk'[x] = disk[x]
    <2>0. x # Root => ~disk[x].hasBin
      BY <1>17 DEF Sound, Filed
    <2>1. q \in DocPath /\ Root \in DocPath
      BY <1>0, <1>1, RecyclePlaces, BinAssumption DEF q
    <2>2. CASE x = Root
      BY <1>7, <2>1, <2>2
    <2>3. CASE x # Root /\ x = q
      BY <1>8, <2>0, <2>1, <2>3
    <2>4. CASE x # Root /\ x # q
      <3>1. disk'[x] = disk[x] /\ disk[x] \in Node
        BY <1>16, <1>17, <2>4, Kinds DEF Sound
      <3>2. x \in DocPath => p \notin disk[x].down
        BY <1>4, <1>17, <2>4
      <3>3. x \in DocPath => disk[x].down \ {p} = disk[x].down
        BY <3>2
      <3>4. QED
        BY <2>0, <2>4, <3>1, <3>3
    <2>5. QED
      BY <2>2, <2>3, <2>4
  <1>18. ASSUME NEW x \in Place
         PROVE  /\ IsBody(x)' <=> \/ IsBody(x) /\ ~(B /\ x = b)
                                  \/ B /\ x = t
                /\ IsBody(x) /\ ~(B /\ x \in {b, t}) => disk'[x] = disk[x]
    <2>1. CASE x \in {p, bin, BinIndex, Root, q}
      <3>1. ~IsBody(x)
        <4>1. x # BinIndex => ~IsBody(x)
          BY <1>1, <1>12, <2>1 DEF IsBody, Holds
        <4>2. ~IsBody(BinIndex)
          BY <1>2 DEF Sound, Filed, IsBody, Holds
        <4>3. QED
          BY <4>1, <4>2
      <3>2. ~IsBody(x)'
        BY <1>7, <1>8, <1>9, <1>11, <1>12, <2>1 DEF IsBody, Holds
      <3>3. QED
        BY <1>3, <2>1, <3>1, <3>2
    <2>2. CASE B /\ x \in {b, t}
      BY <1>3, <1>9, <1>13, <2>2 DEF IsBody, Holds
    <2>3. CASE x \notin {p, bin, BinIndex, Root, q} /\ (B => x \notin {b, t})
      BY <1>10, <2>3 DEF IsBody, Holds
    <2>4. QED
      BY <2>1, <2>2, <2>3
  <1>19. ASSUME NEW x \in Place PROVE Holds(x, "bin")' <=> x = BinIndex
    <2>1. CASE x \in {p, bin, BinIndex, Root, q}
      BY <1>7, <1>8, <1>9, <1>11, <1>12, <2>1 DEF Holds
    <2>2. CASE B /\ x \in {b, t}
      BY <1>3, <1>9, <1>13, <2>2 DEF Holds
    <2>3. CASE x \notin {p, bin, BinIndex, Root, q} /\ (B => x \notin {b, t})
      BY <1>10, <2>3 DEF Sound, Filed, Holds
    <2>4. QED
      BY <2>1, <2>2, <2>3
  <1>20. disk'[BinIndex] # Absent /\ Bin' = Append(Bin, NewRecord(p, bin))
    BY <1>7, <1>11 DEF Bin, Holds
  <1>21. Separated' <=> Separated
    BY <1>7 DEF Separated
  <1>22. QED
    BY <1>2, <1>6, <1>9, <1>15, <1>17, <1>18, <1>19, <1>20, <1>21 DEF RecycledDocs, B, b, t

\* The entries of a sequence with one more.
LEMMA AppendIs ==
    ASSUME NEW S, NEW s \in Seq(S), NEW a \in S
    PROVE  /\ Append(s, a) \in Seq(S)
           /\ DOMAIN Append(s, a) = 1..(Len(s) + 1) /\ DOMAIN s = 1..Len(s) /\ Len(s) \in Nat
           /\ \A i \in 1..Len(s) : Append(s, a)[i] = s[i]
           /\ Append(s, a)[Len(s) + 1] = a
  OBVIOUS

\* The records after recycle: those there were, and the new one.
LEMMA RecycledRecords ==
    ASSUME Sound, NEW p \in DocPath, IsNode(p), p # Root, disk[p].down = {},
           NEW bin \in Place, Recycled(p, bin)
    PROVE  Recorded'
  <1> DEFINE rec == NewRecord(p, bin)
  <1>0. PICK n \in Nat : n = Len(Bin) + 1
    BY BinIs
  <1>1. RecycledDocs(p, bin)
    BY RecycledNodes
  <1>2. PICK k \in 0..MaxBump : bin = Item(p, k) /\ disk[Item(p, k)] = Absent
    BY DEF Recycled
  <1>3. rec \in Record /\ Bin \in Seq(Record) /\ p \in Place /\ Bin' = Append(Bin, rec)
    BY <1>1, <1>2, RecycleTexts, BinIs DEF RecycledDocs, Place
  <1> HIDE DEF rec
  <1>4. /\ DOMAIN Bin' = 1..n /\ DOMAIN Bin = 1..Len(Bin) /\ Len(Bin) \in Nat
        /\ \A i \in DOMAIN Bin : Bin'[i] = Bin[i]
        /\ Bin'[n] = rec
    BY <1>0, <1>3, AppendIs
  <1>5. /\ \A i \in DOMAIN Bin' : i \in DOMAIN Bin \/ i = n
        /\ \A i \in DOMAIN Bin : i \in DOMAIN Bin'
        /\ n \in DOMAIN Bin'
    BY <1>0, <1>4
  <1>6. \A i \in DOMAIN Bin : Bin[i].bin # bin /\ IsNode(Bin[i].bin)
                              /\ Bin[i].bin \in Place \ DocPath
    BY <1>1, RecordIs DEF RecycledDocs, Fits
  <1>7. ASSUME NEW i \in DOMAIN Bin
        PROVE  Fits(Bin[i])'
    <2>1. PICK r : r = Bin[i]
      OBVIOUS
    <2>2. Fits(r) /\ r.bin \in Place \ DocPath /\ IsNode(r.bin)
      BY <1>6, <2>1, RecordIs
    <2>3. disk'[r.bin] = disk[r.bin] /\ (Separated' <=> Separated)
      BY <1>1, <2>2 DEF RecycledDocs
    <2>4. Fits(r)'
      BY <2>2, <2>3, FitsStays
    <2>5. Bin'[i] = r
      BY <1>4, <2>1
    <2>6. QED
      BY <2>4, <2>5 DEF Fits, IsNode, Holds
  <1>8. Fits(Bin[n])'
    <2>1. PICK r : r = rec
      OBVIOUS
    <2>2. /\ r.doc = disk[p].doc /\ r.from = p /\ r.bin = bin /\ r.parent = Parent(p)
          /\ r.text = IF HasBody(p) THEN disk[p].body ELSE None
      BY <2>1 DEF rec, NewRecord
    <2>3. IsNode(bin)' /\ disk'[bin] = disk[p] /\ (Separated' <=> Separated)
      BY <1>1 DEF RecycledDocs
    <2>4. Parent(p) \in DocPath \ {p} /\ IsNode(Parent(p)) /\ Parent(p) \in Place
      BY ParentIs
    <2>5. Separated => NodeOf[disk[p].body] = p /\ Parent(p) \notin Prose
      BY <1>3, <2>4, NodePlace DEF Sound, Filed
    <2>6. Fits(r)'
      BY <1>2, <2>2, <2>3, <2>4, <2>5 DEF Fits, Parent
    <2>7. Bin'[n] = r
      BY <1>4, <2>1
    <2>8. QED
      BY <2>6, <2>7 DEF Fits, IsNode, Holds
  <1>9. \A i \in DOMAIN Bin' : Fits(Bin[i])'
    BY <1>5, <1>7, <1>8
  <1>10. ASSUME NEW x \in Place \ DocPath, IsNode(x)'
         PROVE  \E i \in DOMAIN Bin' : Bin'[i].bin = x
    <2>1. CASE x = bin
      <3>1. Bin'[n].bin = bin /\ n \in DOMAIN Bin'
        BY <1>4, <1>5 DEF rec, NewRecord
      <3>2. QED
        BY <2>1, <3>1
    <2>2. CASE x # bin
      <3>1. IsNode(x)
        BY <1>1, <1>10, <2>2 DEF RecycledDocs
      <3>2. PICK i \in DOMAIN Bin : Bin[i].bin = x
        BY <3>1, InBin
      <3>3. QED
        BY <1>4, <1>5, <3>2
    <2>3. QED
      BY <2>1, <2>2
  <1>11. ASSUME NEW i \in DOMAIN Bin', NEW j \in DOMAIN Bin', Bin'[i].bin = Bin'[j].bin
         PROVE  i = j
    <2>1. Bin'[n].bin = bin
      BY <1>4 DEF rec, NewRecord
    <2>2. CASE i \in DOMAIN Bin /\ j \in DOMAIN Bin
      BY <1>4, <1>11, <2>2 DEF Sound, Recorded
    <2>3. QED
      BY <1>4, <1>5, <1>6, <1>11, <2>1, <2>2
  <1>12. QED
    BY <1>9, <1>10, <1>11 DEF Recorded

\* What Sound says holds after recycle.
LEMMA RecycleSound ==
    ASSUME Sound, NEW p \in DocPath, IsNode(p), p # Root, disk[p].down = {},
           NEW bin \in Place, Recycled(p, bin), RecycleStages(p, bin),
           spoilt' \subseteq Irregularity
    PROVE  Sound'
  <1>1. RecycledDocs(p, bin)
    BY RecycledNodes
  <1>2. p \in Place /\ \A x \in DocPath : x \in Place
    BY DEF Place
  <1>3. TypeOK'
    <2>1. disk' \in [Place -> Node \cup Body \cup Index \cup {Absent}]
      BY DEF Recycled, Text
    <2>2. made' \in [Doc -> Fate]
      BY DEF Recycled, Sound, TypeOK
    <2>3. QED
      BY <2>1, <2>2 DEF RecycleStages, TypeOK
  <1>4. Filed'
    <2>1. ASSUME NEW x \in Place, disk'[x] # Absent
          PROVE  disk'[x].kind = "bin" <=> x = BinIndex
      BY <1>1, <2>1 DEF RecycledDocs, Holds
    <2>2. ASSUME NEW x \in Place, IsNode(x)'
          PROVE  /\ disk'[x].hasBin <=> x = Root /\ disk'[BinIndex] # Absent
                 /\ Separated' => disk'[x].body \in Prose
                 /\ ~Separated' => disk'[x].body = None
                 /\ Separated' /\ x \in DocPath => NodeOf[disk'[x].body] = x
      <3>1. PICK y \in Place : IsNode(y) /\ disk'[x].body = disk[y].body
                               /\ (x \in DocPath => y = x)
                               /\ (disk'[x].hasBin <=> x = Root)
        <4>1. CASE x = bin
          <5>1. disk'[x] = disk[p] /\ x \notin DocPath
            BY <1>1, <4>1 DEF RecycledDocs
          <5>2. ~disk[p].hasBin /\ x # Root
            BY <1>2, <5>1, BinAssumption DEF Sound, Filed
          <5>3. QED
            BY <1>2, <5>1, <5>2
        <4>2. CASE x # bin
          <5>1. IsNode(x) /\ x # p
            BY <1>1, <2>2, <4>2 DEF RecycledDocs
          <5>2. disk'[x].body = disk[x].body /\ (disk'[x].hasBin <=> x = Root)
            BY <1>1, <5>1 DEF RecycledDocs
          <5>3. QED
            BY <5>1, <5>2
        <4>3. QED
          BY <4>1, <4>2
      <3>2. /\ Separated => disk[y].body \in Prose
            /\ ~Separated => disk[y].body = None
            /\ Separated /\ y \in DocPath => NodeOf[disk[y].body] = y
        BY <3>1 DEF Sound, Filed
      <3>3. disk'[BinIndex] # Absent /\ (Separated' <=> Separated)
        BY <1>1 DEF RecycledDocs
      <3>4. QED
        BY <3>1, <3>2, <3>3
    <2>3. ASSUME NEW x \in Place, IsBody(x)'
          PROVE  Separated' /\ (x \in Prose \/ \E y \in Prose : x = Item(y, 0))
      <3>1. Separated' <=> Separated
        BY <1>1 DEF RecycledDocs
      <3>2. IsBody(x) \/ (HasBody(p) /\ x = Item(disk[p].body, 0))
        BY <1>1, <2>3 DEF RecycledDocs
      <3>3. HasBody(p) => Separated /\ disk[p].body \in Prose
        BY <1>2, HasBodyIs
      <3>4. QED
        BY <3>1, <3>2, <3>3 DEF Sound, Filed
    <2>4. QED
      BY <2>1, <2>2, <2>3 DEF Filed
  <1>5. Tree'
    <2>1. Leaves(p)
      BY <1>1, <1>2 DEF RecycledDocs, Leaves
    <2>2. QED
      BY <2>1, LeafGone DEF Sound
  <1>6. Identified'
    <2>1. Moved(p, bin)
      BY <1>1 DEF RecycledDocs, Recycled, Moved
    <2>2. QED
      BY <1>2, <2>1, NodeMoved DEF Sound
  <1>7. Recorded'
    BY RecycledRecords
  <1>8. QED
    BY <1>3, <1>4, <1>5, <1>6, <1>7 DEF Sound

\* What Bodied says holds after recycle, when no body lay in the way.
LEMMA RecycleBodied ==
    ASSUME Sound, Separated, Bodied, NEW p \in DocPath, IsNode(p), p # Root,
           NEW bin \in Place, Recycled(p, bin),
           HasBody(p) => disk[Item(disk[p].body, 0)] = Absent
    PROVE  Bodied'
  <1>1. RecycledDocs(p, bin)
    BY RecycledNodes
  <1>2. p \in Place /\ \A x \in DocPath : x \in Place
    BY DEF Place
  <1>3. PICK b : b = disk[p].body
    OBVIOUS
  <1>4. b \in Prose /\ b \in DocPath /\ b \in Place /\ NodeOf[b] = p /\ b # None
    BY <1>2, <1>3, NodePlace, BinAssumption DEF Sound, Filed
  <1>5. IsBody(b) /\ disk[b].doc = disk[p].doc /\ HasBody(p) /\ disk[b] # Absent
    BY <1>3, <1>4 DEF Bodied, BodyOf, HasBody, IsBody, Holds
  <1> DEFINE t == Item(b, 0)
             rec == NewRecord(p, bin)
  <1>6. t \in Place \ DocPath /\ disk[t] = Absent /\ disk'[t] = disk[b] /\ ~IsBody(t)
    BY <1>3, <1>4, <1>5, Items DEF Recycled, IsBody, Holds
  <1>7. /\ \A x \in Place : IsBody(x)' <=> (IsBody(x) /\ x # b) \/ x = t
        /\ \A x \in Place : IsBody(x) /\ x # b => disk'[x] = disk[x]
    BY <1>1, <1>3, <1>5, <1>6 DEF RecycledDocs
  <1>8. rec.text = b /\ rec.doc = disk[p].doc
    BY <1>3, <1>5 DEF NewRecord
  <1>9. rec \in Record /\ Bin \in Seq(Record) /\ Bin' = Append(Bin, rec)
    <2>1. PICK k \in 0..MaxBump : bin = Item(p, k) /\ disk[Item(p, k)] = Absent
      BY DEF Recycled
    <2>2. QED
      BY <1>1, <2>1, RecycleTexts, BinIs DEF RecycledDocs
  <1> HIDE DEF rec, t
  <1> DEFINE n == Len(Bin) + 1
  <1>10. /\ DOMAIN Bin' = 1..n /\ DOMAIN Bin = 1..Len(Bin) /\ Len(Bin) \in Nat
         /\ \A i \in DOMAIN Bin : Bin'[i] = Bin[i]
         /\ Bin'[n] = rec
    BY <1>9, AppendIs
  <1>11. \A i \in DOMAIN Bin' : i \in DOMAIN Bin \/ i = n
    BY <1>10
  <1>12. ASSUME NEW x \in DocPath, IsNode(x)'
         PROVE  BodyOf(disk[x].body, disk[x].doc)'
    <2>1. IsNode(x) /\ x # p /\ disk'[x].body = disk[x].body /\ disk'[x].doc = disk[x].doc
      BY <1>1, <1>2, <1>12 DEF RecycledDocs
    <2>2. PICK c : c = disk[x].body
      OBVIOUS
    <2>3. c \in Place /\ NodeOf[c] = x
      BY <1>2, <2>1, <2>2, NodePlace, BinAssumption DEF Sound, Filed
    <2>4. IsBody(c) /\ disk[c].doc = disk[x].doc
      BY <2>1, <2>2 DEF Bodied, BodyOf
    <2>5. IsBody(c)' /\ disk'[c] = disk[c]
      BY <1>4, <1>7, <2>1, <2>3, <2>4
    <2>6. QED
      BY <2>1, <2>2, <2>4, <2>5 DEF BodyOf, IsBody, Holds
  <1>13. ASSUME NEW i \in DOMAIN Bin'
         PROVE  Bin'[i].text # None /\ BodyOf(Item(Bin[i].text, 0), Bin[i].doc)'
    <2>1. CASE i \in DOMAIN Bin
      <3>1. PICK r : r = Bin[i]
        OBVIOUS
      <3>2. r.text # None /\ BodyOf(Item(r.text, 0), r.doc) /\ r.text \in DocPath
        BY <2>1, <3>1, RecordIs DEF Bodied
      <3>3. Item(r.text, 0) \in Place \ DocPath
        BY <3>2, Items, BinAssumption
      <3>4. disk'[Item(r.text, 0)] = disk[Item(r.text, 0)]
        BY <1>4, <1>7, <3>2, <3>3 DEF BodyOf
      <3>5. Bin'[i] = r
        BY <1>10, <2>1, <3>1
      <3>6. QED
        BY <3>2, <3>4, <3>5 DEF BodyOf, IsBody, Holds
    <2>2. CASE i = n
      <3>1. Bin'[i].text = b /\ Bin'[i].doc = disk[p].doc
        BY <1>8, <1>10, <2>2
      <3>2. IsBody(t)' /\ disk'[t].doc = disk[p].doc
        BY <1>5, <1>6, <1>7
      <3>3. QED
        BY <1>4, <3>1, <3>2 DEF BodyOf, IsBody, Holds, t
    <2>3. QED
      BY <1>11, <2>1, <2>2
  <1>14. ASSUME NEW c \in DocPath, IsBody(c)'
         PROVE  IsNode(NodeOf[c])' /\ disk'[NodeOf[c]].body = c
    <2>1. IsBody(c) /\ c # b
      BY <1>2, <1>6, <1>7, <1>14
    <2>2. IsNode(NodeOf[c]) /\ disk[NodeOf[c]].body = c
      BY <2>1 DEF Bodied
    <2>3. c \in Prose
      BY <1>2, <2>1, Items, BinAssumption DEF Sound, Filed
    <2>4. NodeOf[c] \in Place /\ NodeOf[c] # p
      BY <1>2, <1>3, <2>1, <2>2, <2>3, BinAssumption
    <2>5. QED
      BY <1>1, <2>2, <2>4 DEF RecycledDocs
  <1>15. ASSUME NEW q \in Prose, IsBody(Item(q, 0))'
         PROVE  \E i \in DOMAIN Bin' : Bin'[i].text = q
    <2>1. Item(q, 0) \in Place
      BY Items, BinAssumption
    <2>2. CASE Item(q, 0) = t
      <3>1. q = b
        BY <1>4, <2>2, Items, BinAssumption DEF t
      <3>2. n \in DOMAIN Bin' /\ Bin'[n].text = b
        BY <1>8, <1>10
      <3>3. QED
        BY <3>1, <3>2
    <2>3. CASE Item(q, 0) # t
      <3>1. IsBody(Item(q, 0))
        BY <1>7, <1>15, <2>1, <2>3
      <3>2. PICK i \in DOMAIN Bin : Bin[i].text = q
        BY <3>1 DEF Bodied
      <3>3. QED
        BY <1>10, <3>2
    <2>4. QED
      BY <2>2, <2>3
  <1>16. QED
    BY <1>12, <1>13, <1>14, <1>15 DEF Bodied

-----------------------------------------------------------------------------
(* restore.                                                                *)

\* Where the entry at j of a sequence without its i-th was.
Was(i, j) == IF j < i THEN j ELSE j + 1

\* The entries of a sequence without its i-th.
LEMMA RemoveAtIs ==
    ASSUME NEW S, NEW s \in Seq(S), NEW i \in DOMAIN s
    PROVE  /\ Seqs!RemoveAt(s, i) \in Seq(S)
           /\ DOMAIN Seqs!RemoveAt(s, i) = 1..(Len(s) - 1)
           /\ DOMAIN s = 1..Len(s) /\ Len(s) \in Nat
           /\ \A j \in 1..(Len(s) - 1) :
                /\ Seqs!RemoveAt(s, i)[j] = s[Was(i, j)]
                /\ Was(i, j) \in DOMAIN s \ {i}
           /\ \A k \in DOMAIN s \ {i} : \E j \in 1..(Len(s) - 1) : Was(i, j) = k
           /\ \A j, k \in 1..(Len(s) - 1) : Was(i, j) = Was(i, k) => j = k
  <1>1. DOMAIN s = 1..Len(s) /\ Len(s) \in Nat /\ i \in 1..Len(s)
    OBVIOUS
  <1> DEFINE a == SubSeq(s, 1, i - 1)
             b == SubSeq(s, i + 1, Len(s))
  <1>2. a \in Seq(S) /\ Len(a) = i - 1 /\ \A j \in 1..(i - 1) : a[j] = s[j]
    BY <1>1
  <1>3. b \in Seq(S) /\ Len(b) = Len(s) - i /\ \A j \in 1..(Len(s) - i) : b[j] = s[j + i]
    BY <1>1
  <1>4. Seqs!RemoveAt(s, i) = a \o b
    BY DEF Seqs!RemoveAt
  <1> HIDE DEF a, b
  <1>5. /\ a \o b \in Seq(S) /\ Len(a \o b) = Len(s) - 1
        /\ DOMAIN (a \o b) = 1..(Len(s) - 1)
    <2>0. a \in Seq(S) /\ b \in Seq(S)
      BY <1>2, <1>3
    <2>1. a \o b \in Seq(S) /\ Len(a \o b) = Len(a) + Len(b)
      BY <2>0
    <2>4. DOMAIN (a \o b) = 1..Len(a \o b)
      BY <2>1
    <2>2. Len(a) + Len(b) = Len(s) - 1
      BY <1>1, <1>2, <1>3
    <2>3. QED
      BY <2>1, <2>2, <2>4
  <1>6. ASSUME NEW j \in 1..(Len(s) - 1)
        PROVE  (a \o b)[j] = s[Was(i, j)] /\ Was(i, j) \in DOMAIN s \ {i}
    <2>1. CASE j < i
      BY <1>1, <1>2, <1>3, <2>1 DEF Was
    <2>2. CASE ~(j < i)
      <3>1. (a \o b)[j] = b[j - (i - 1)] /\ j - (i - 1) \in 1..(Len(s) - i)
        BY <1>1, <1>2, <1>3, <2>2
      <3>2. b[j - (i - 1)] = s[(j - (i - 1)) + i]
        BY <1>3, <3>1
      <3>3. (j - (i - 1)) + i = j + 1
        BY <1>1
      <3>4. QED
        BY <1>1, <2>2, <3>1, <3>2, <3>3 DEF Was
    <2>3. QED
      BY <2>1, <2>2
  <1>7. ASSUME NEW k \in DOMAIN s \ {i}
        PROVE  \E j \in 1..(Len(s) - 1) : Was(i, j) = k
    <2>1. CASE k < i
      <3>1. k \in 1..(Len(s) - 1) /\ Was(i, k) = k
        BY <1>1, <2>1 DEF Was
      <3>2. QED
        BY <3>1
    <2>2. CASE ~(k < i)
      <3>1. k - 1 \in 1..(Len(s) - 1) /\ Was(i, k - 1) = k
        BY <1>1, <2>2 DEF Was
      <3>2. QED
        BY <3>1
    <2>3. QED
      BY <2>1, <2>2
  <1>8. \A j, k \in 1..(Len(s) - 1) : Was(i, j) = Was(i, k) => j = k
    BY <1>1 DEF Was
  <1>9. QED
    BY <1>1, <1>4, <1>5, <1>6, <1>7, <1>8

\* What Restore(p) makes of the files: the document of record i is back.
Restored(p, i) ==
    LET rec == Bin[i]
    IN  /\ disk[p] = Absent /\ rec.from = p
        /\ disk' \in [Place -> Text]
        /\ disk'[rec.bin] = Absent /\ disk'[p] = disk[rec.bin]
        /\ rec.text # None => /\ disk'[Item(rec.text, 0)] = Absent
                              /\ disk'[rec.text] = disk[Item(rec.text, 0)]
        /\ disk'[BinIndex] = BinOf(Seqs!RemoveAt(Bin, i))
        /\ disk'[rec.parent] = [disk[rec.parent] EXCEPT !.down = @ \cup {p}]
        /\ \A x \in Place :
             /\ x \notin {p, rec.bin, BinIndex, rec.parent}
             /\ rec.text # None => x \notin {rec.text, Item(rec.text, 0)}
             => disk'[x] = disk[x]

\* What it commits.
RestoreStages(p, i) ==
    LET rec == Bin[i]
    IN  /\ staged' \in Seq(FileOp) /\ ReplaySafe(staged')
        /\ (rec.text # None => /\ disk[Item(rec.text, 0)] # Absent
                               /\ disk[rec.text] = Absent) =>
             \A op \in Ops(staged') : IsRename(op) =>
                 disk[op.from] # Absent /\ disk[op.to] = Absent

\* The places restore deals with are apart.
LEMMA RestorePlaces ==
    ASSUME Sound, NEW i \in DOMAIN Bin, disk[Bin[i].from] = Absent,
           disk[Bin[i].parent] # Absent,
           NEW rec, rec = Bin[i]
    PROVE  /\ rec.from \in DocPath /\ rec.from \in Place /\ rec.from # Root /\ rec.from # BinIndex
           /\ rec.bin \in Place \ DocPath /\ IsNode(rec.bin) /\ rec.bin # BinIndex
           /\ rec.parent \in DocPath /\ rec.parent \in Place /\ IsNode(rec.parent)
           /\ rec.parent # rec.from /\ rec.parent # BinIndex
           /\ rec.from \notin disk[rec.parent].down
           /\ BinIndex \in Place /\ BinIndex \notin DocPath
           /\ disk[Root].hasBin /\ disk[BinIndex] # Absent
           /\ rec.text # None =>
                /\ Separated /\ rec.text = disk[rec.bin].body
                /\ rec.text \in Prose /\ rec.text \in DocPath /\ rec.text \in Place
                /\ NodeOf[rec.text] = rec.from
                /\ rec.text \notin {rec.from, rec.bin, BinIndex, rec.parent, Root}
                /\ Item(rec.text, 0) \in Place \ DocPath
                /\ Item(rec.text, 0) \notin {rec.bin, BinIndex}
                /\ ~IsNode(rec.text) /\ ~IsNode(Item(rec.text, 0))
  <1>1. /\ rec \in Record /\ Fits(rec) /\ rec.from \in DocPath /\ rec.bin \in Place \ DocPath
        /\ rec.parent \in DocPath /\ rec.text \in DocPath \cup {None}
    BY RecordIs
  <1>2. \A x \in DocPath : x \in Place
    BY DEF Place
  <1>3. BinIndex \in Place /\ BinIndex \notin DocPath /\ Root \in DocPath
    BY BinAssumption DEF Place
  <1>4. IsNode(Root) /\ disk[Root] # Absent
    BY DEF Sound, Tree, IsNode, Holds
  <1>5. IsNode(rec.bin) /\ rec.bin # BinIndex
    BY <1>1, NodePlace DEF Fits
  <1>6. IsNode(rec.parent)
    <2>1. disk[rec.parent] # Absent /\ rec.parent # BinIndex
      BY <1>1, <1>3
    <2>2. ~Holds(rec.parent, "bin")
      BY <1>1, <1>2, <2>1 DEF Holds, Sound, Filed
    <2>3. ~IsBody(rec.parent)
      <3>1. IsBody(rec.parent) =>
              Separated /\ (rec.parent \in Prose \/ \E y \in Prose : rec.parent = Item(y, 0))
        BY <1>1, <1>2 DEF Sound, Filed
      <3>2. Separated => rec.parent \notin Prose
        BY <1>1 DEF Fits
      <3>3. \A y \in Prose : rec.parent # Item(y, 0)
        BY <1>1, Items, BinAssumption
      <3>4. QED
        BY <3>1, <3>2, <3>3
    <2>4. QED
      BY <1>1, <1>2, <2>1, <2>2, <2>3, Kinds DEF Sound
  <1>7. rec.parent # rec.from
    BY <1>1 DEF Fits
  <1>8. rec.from \notin disk[rec.parent].down
    <2>1. ~IsNode(rec.from)
      BY DEF IsNode, Holds
    <2>2. QED
      BY <1>1, <1>6, <2>1 DEF Sound, Tree
  <1>9. disk[Root].hasBin /\ disk[BinIndex] # Absent
    <2>1. disk[Root].hasBin
      <3>1. Bin # << >>
        OBVIOUS
      <3>2. QED
        BY <3>1 DEF Bin
    <2>2. QED
      BY <2>1, BinIs
  <1>10. ASSUME rec.text # None
         PROVE  /\ Separated /\ rec.text = disk[rec.bin].body
                /\ rec.text \in Prose /\ rec.text \in DocPath /\ rec.text \in Place
                /\ NodeOf[rec.text] = rec.from
                /\ rec.text \notin {rec.from, rec.bin, BinIndex, rec.parent, Root}
                /\ Item(rec.text, 0) \in Place \ DocPath
                /\ Item(rec.text, 0) \notin {rec.bin, BinIndex}
                /\ ~IsNode(rec.text) /\ ~IsNode(Item(rec.text, 0))
    <2>1. rec.text = disk[rec.bin].body
      BY <1>1, <1>10 DEF Fits
    <2>2. Separated /\ rec.text \in Prose
      BY <1>1, <1>5, <1>10, <2>1, NodePlace
    <2>3. NodeOf[rec.text] = rec.from /\ rec.parent \notin Prose
      BY <1>1, <2>1, <2>2 DEF Fits
    <2>4. rec.from \notin Prose
      BY <2>2, <2>3, BinAssumption
    <2>5. rec.text \in DocPath /\ rec.text \in Place
      BY <1>1, <1>2, <1>10
    <2>6. Item(rec.text, 0) \in Place \ DocPath /\ Item(rec.text, 0) # BinIndex
      BY <2>5, Items, BinAssumption
    <2>7. ~IsNode(rec.text) /\ ~IsNode(Item(rec.text, 0))
      BY <2>2, <2>5, <2>6, NodePlace
    <2>8. rec.text # rec.bin /\ rec.text # BinIndex /\ rec.text # Root
      BY <1>1, <1>3, <1>4, <2>5, <2>7
    <2>9. QED
      BY <1>5, <2>1, <2>2, <2>3, <2>4, <2>5, <2>6, <2>7, <2>8
  <1>11. rec.from # Root /\ rec.from # BinIndex /\ rec.parent # BinIndex
    BY <1>1, <1>3, <1>4
  <1>12. QED
    BY <1>1, <1>2, <1>3, <1>5, <1>6, <1>7, <1>8, <1>9, <1>10, <1>11

\* Four parts.
LEMMA FourParts ==
    ASSUME NEW a \in Seq(FileOp), NEW b \in Seq(FileOp), NEW c \in Seq(FileOp),
           NEW u \in Seq(FileOp),
           Solo(a), Solo(b), Solo(c), Solo(u),
           Clear(Ops(a), Ops(b)), Clear(Ops(a), Ops(c)), Clear(Ops(b), Ops(c)),
           Clear(Ops(a), Ops(u)), Clear(Ops(b), Ops(u)), Clear(Ops(c), Ops(u))
    PROVE  /\ a \o b \o c \o u \in Seq(FileOp) /\ Solo(a \o b \o c \o u)
           /\ Ops(a \o b \o c \o u) = Ops(a) \cup Ops(b) \cup Ops(c) \cup Ops(u)
  <1>1. /\ a \o b \o c \in Seq(FileOp) /\ Solo(a \o b \o c)
        /\ Ops(a \o b \o c) = Ops(a) \cup Ops(b) \cup Ops(c)
    BY ThreeParts
  <1>2. Clear(Ops(a \o b \o c), Ops(u))
    BY <1>1 DEF Clear
  <1> DEFINE s == a \o b \o c
  <1> HIDE DEF s
  <1>3. s \in Seq(FileOp) /\ Solo(s) /\ Clear(Ops(s), Ops(u))
    BY <1>1, <1>2 DEF s
  <1>4. s \o u \in Seq(FileOp) /\ Solo(s \o u) /\ Ops(s \o u) = Ops(s) \cup Ops(u)
    BY <1>3, Joined
  <1>5. QED
    BY <1>1, <1>4 DEF s

\* The commit of restore, in its parts.
LEMMA RestoreCommits ==
    ASSUME Sound, NEW p \in DocPath, Restore(p), Rooted'
    PROVE  /\ Rooted /\ made' = made /\ spoilt' = spoilt
           /\ \E i \in DOMAIN Bin :
                /\ disk[Bin[i].from] = Absent /\ Bin[i].from = p
                /\ disk[Bin[i].parent] # Absent
                /\ Commit(<<Rename(Bin[i].bin, p)>>
                          \o If(Bin[i].text # None,
                                Rename(Item(Bin[i].text, 0), Bin[i].text))
                          \o <<Write(BinIndex, BinOf(Seqs!RemoveAt(Bin, i)))>>
                          \o <<Write(Bin[i].parent,
                                     [disk[Bin[i].parent] EXCEPT !.down = @ \cup {p}])>>)
  <1>1. PICK i \in Oldest(p) :
          /\ Commit(<<Rename(Bin[i].bin, p)>>
                    \o BodyBack(Bin[i])
                    \o <<Write(BinIndex, BinOf(Seqs!RemoveAt(Bin, i)))>>
                    \o Relink(p, Bin[i].parent))
          /\ Spoil("astray", Bin[i].parent = None \/ disk[Bin[i].parent] = Absent)
    BY DEF Restore
  <1>2. i \in DOMAIN Bin /\ Bin[i].from = p /\ disk[Bin[i].from] = Absent /\ made' = made
    BY <1>1 DEF Restore, Oldest
  <1>3. ~(Bin[i].parent = None \/ disk[Bin[i].parent] = Absent)
    BY <1>1 DEF Spoil, Rooted
  <1>4. spoilt' = spoilt /\ Rooted
    BY <1>1, <1>3 DEF Spoil, Rooted
  <1>5. PICK rec : rec = Bin[i]
    OBVIOUS
  <1>6. p \notin disk[rec.parent].down
    BY <1>2, <1>3, <1>5, RestorePlaces
  <1>7. Relink(p, rec.parent)
          = <<Write(rec.parent, [disk[rec.parent] EXCEPT !.down = @ \cup {p}])>>
    BY <1>3, <1>5, <1>6 DEF Relink, If
  <1>8. QED
    BY <1>1, <1>2, <1>3, <1>4, <1>5, <1>7 DEF BodyBack

\* Restore leaves that, or, when the body is not in the bin, what there was.
LEMMA RestoreIs ==
    ASSUME Sound, NEW p \in DocPath, Restore(p), Rooted'
    PROVE  \E i \in DOMAIN Bin :
             /\ disk[Bin[i].from] = Absent /\ Bin[i].from = p /\ disk[Bin[i].parent] # Absent
             /\ RestoreStages(p, i)
             /\ Restored(p, i) \/ disk' = disk
             /\ (Bin[i].text # None /\ disk[Item(Bin[i].text, 0)] = Absent) \/ Restored(p, i)
  <1>1. PICK i \in DOMAIN Bin :
          /\ disk[Bin[i].from] = Absent /\ Bin[i].from = p /\ disk[Bin[i].parent] # Absent
          /\ Commit(<<Rename(Bin[i].bin, p)>>
                    \o If(Bin[i].text # None, Rename(Item(Bin[i].text, 0), Bin[i].text))
                    \o <<Write(BinIndex, BinOf(Seqs!RemoveAt(Bin, i)))>>
                    \o <<Write(Bin[i].parent,
                               [disk[Bin[i].parent] EXCEPT !.down = @ \cup {p}])>>)
    BY RestoreCommits
  <1>2. PICK rec : rec = Bin[i]
    OBVIOUS
  <1> DEFINE q == rec.parent
             b == rec.text
             t == Item(b, 0)
             bin == rec.bin
             T == b # None
             more == [disk[q] EXCEPT !.down = @ \cup {p}]
             index == BinOf(Seqs!RemoveAt(Bin, i))
             s1 == <<Rename(bin, p)>>
             s2 == If(T, Rename(t, b))
             s3 == <<Write(BinIndex, index)>>
             s4 == <<Write(q, more)>>
             ops == s1 \o s2 \o s3 \o s4
  <1>3. /\ p \in Place /\ p # BinIndex /\ bin \in Place \ DocPath /\ IsNode(bin)
        /\ bin # BinIndex /\ q \in DocPath /\ q \in Place /\ IsNode(q) /\ q # p
        /\ q # BinIndex /\ BinIndex \in Place /\ BinIndex \notin DocPath
    BY <1>1, <1>2, RestorePlaces
  <1>4. ASSUME T
        PROVE  /\ b \in Place /\ b \in DocPath /\ b \notin {p, bin, BinIndex, q}
               /\ t \in Place \ DocPath /\ t \notin {bin, BinIndex}
    BY <1>1, <1>2, <1>4, RestorePlaces
  <1>5. disk[q] \in Node /\ disk[bin] # Absent /\ disk \in [Place -> Text]
    BY <1>3, Kinds DEF Sound
  <1>6. more \in Node
    BY <1>5 DEF Node
  <1>7. index \in Index
    <2>1. Seqs!RemoveAt(Bin, i) \in Seq(Record)
      BY BinIs, RemoveAtIs
    <2>2. QED
      BY <2>1 DEF BinOf, Index
  <1>8. Commit(ops)
    BY <1>1, <1>2
  <1>9. T \in BOOLEAN
    OBVIOUS
  <1> HIDE DEF q, b, t, bin, T, more, index
  <1>10. /\ Rename(bin, p) \in FileOp /\ Write(BinIndex, index) \in FileOp
         /\ Write(q, more) \in FileOp
         /\ T => Rename(t, b) \in FileOp
    BY <1>3, <1>4, <1>6, <1>7, RenameIs, WriteIs
  <1>11. s1 \in Seq(FileOp) /\ Ops(s1) = {Rename(bin, p)} /\ Solo(s1)
    BY <1>10, OneOp
  <1>12. s2 \in Seq(FileOp) /\ Solo(s2) /\ Ops(s2) = IF T THEN {Rename(t, b)} ELSE {}
    BY <1>9, <1>10, MaybeOp
  <1>13. s3 \in Seq(FileOp) /\ Ops(s3) = {Write(BinIndex, index)} /\ Solo(s3)
    BY <1>10, OneOp
  <1>14. s4 \in Seq(FileOp) /\ Ops(s4) = {Write(q, more)} /\ Solo(s4)
    BY <1>10, OneOp
  <1> HIDE DEF s1, s2, s3, s4
  <1>15. /\ Clear(Ops(s1), Ops(s2)) /\ Clear(Ops(s1), Ops(s3)) /\ Clear(Ops(s1), Ops(s4))
    BY <1>3, <1>4, <1>11, <1>12, <1>13, <1>14, RenameIs, WriteIs DEF Clear
  <1>16. /\ Clear(Ops(s2), Ops(s3)) /\ Clear(Ops(s2), Ops(s4)) /\ Clear(Ops(s3), Ops(s4))
    BY <1>3, <1>4, <1>12, <1>13, <1>14, RenameIs, WriteIs DEF Clear
  <1>17. /\ ops \in Seq(FileOp) /\ Solo(ops)
         /\ Ops(ops) = Ops(s1) \cup Ops(s2) \cup Ops(s3) \cup Ops(s4)
    <2>1. s1 \in Seq(FileOp) /\ s2 \in Seq(FileOp) /\ s3 \in Seq(FileOp) /\ s4 \in Seq(FileOp)
      BY <1>11, <1>12, <1>13, <1>14
    <2>2. Solo(s1) /\ Solo(s2) /\ Solo(s3) /\ Solo(s4)
      BY <1>11, <1>12, <1>13, <1>14
    <2>3. QED
      BY <1>15, <1>16, <2>1, <2>2, FourParts
  <1> HIDE DEF ops
  <1>18. /\ Rename(bin, p) \in Ops(ops) /\ Write(BinIndex, index) \in Ops(ops)
         /\ Write(q, more) \in Ops(ops)
         /\ T => Rename(t, b) \in Ops(ops)
         /\ \A op \in Ops(ops) : \/ op = Rename(bin, p) \/ op = Write(BinIndex, index)
                                 \/ op = Write(q, more)
                                 \/ T /\ op = Rename(t, b)
    BY <1>11, <1>12, <1>13, <1>14, <1>17
  <1> DEFINE e == [x \in Place |->
                     IF x = bin \/ (T /\ x = t) THEN Absent
                     ELSE IF x = p THEN disk[bin]
                     ELSE IF T /\ x = b THEN disk[t]
                     ELSE IF x = BinIndex THEN index
                     ELSE IF x = q THEN more ELSE disk[x]]
  <1>19. e \in [Place -> Text]
    BY <1>3, <1>4, <1>5, <1>6, <1>7 DEF Text
  <1>20. e[bin] = Absent /\ e[p] = disk[bin] /\ e[BinIndex] = index /\ e[q] = more
    BY <1>3, <1>4
  <1>21. T => e[t] = Absent /\ e[b] = disk[t]
    BY <1>3, <1>4
  <1>22. \A x \in Place : x \notin {p, bin, BinIndex, q} /\ (T => x \notin {b, t})
                            => e[x] = disk[x]
    OBVIOUS
  <1> HIDE DEF e
  <1>23. \A x \in Place : (\A op \in Ops(ops) : ~Touches(op, x)) => e[x] = disk[x]
    BY <1>18, <1>22, WriteIs, RenameIs
  <1>24. \A x \in Place, op \in Ops(ops) : Touches(op, x) => e[x] = LeftAt(op, x, disk)
    <2> SUFFICES ASSUME NEW x \in Place, NEW op \in Ops(ops), Touches(op, x)
                 PROVE  e[x] = LeftAt(op, x, disk)
      OBVIOUS
    <2>1. CASE op = Rename(bin, p)
      BY <1>3, <1>20, <2>1, RenameIs
    <2>2. CASE op = Write(BinIndex, index)
      BY <1>20, <2>2, WriteIs
    <2>3. CASE T /\ op = Rename(t, b)
      BY <1>4, <1>21, <2>3, RenameIs
    <2>4. CASE op = Write(q, more)
      BY <1>20, <2>4, WriteIs
    <2>5. QED
      BY <1>18, <2>1, <2>2, <2>3, <2>4
  <1>25. (T => disk[t] # Absent) => \A op \in Ops(ops) : Possible(op, disk)
    BY <1>4, <1>5, <1>18, WriteIs, RenameIs
  <1>26. /\ staged' = ops /\ ReplaySafe(ops) /\ (disk' = e \/ disk' = disk)
         /\ (\A op \in Ops(ops) : Possible(op, disk)) => disk' = e
    BY <1>5, <1>8, <1>17, <1>19, <1>23, <1>24, CommitSolo DEF ops
  <1>27. disk[p] = Absent /\ rec.from = p
    BY <1>1, <1>2
  <1>28. (T => disk[t] # Absent /\ disk[b] = Absent) =>
           \A op \in Ops(ops) : IsRename(op) => disk[op.from] # Absent /\ disk[op.to] = Absent
    BY <1>4, <1>5, <1>18, <1>27, WriteIs, RenameIs
  <1>29. RestoreStages(p, i)
    BY <1>2, <1>17, <1>26, <1>28 DEF RestoreStages, T, t, b
  <1>30. ASSUME disk' = e PROVE Restored(p, i)
    BY <1>2, <1>19, <1>20, <1>21, <1>22, <1>27, <1>30
       DEF Restored, T, b, t, q, bin, more, index
  <1>31. (disk' = disk \/ Restored(p, i)) /\ ((T /\ disk[t] = Absent) \/ Restored(p, i))
    BY <1>25, <1>26, <1>30
  <1>32. QED
    BY <1>1, <1>2, <1>29, <1>31 DEF T, t, b

\* What restore makes of the documents: q and b are the record's parent and text.
RestoredDocs(p, i, bin, q, b) ==
    /\ p \in Place /\ p # Root /\ ~IsNode(p) /\ bin \in Place \ DocPath /\ IsNode(bin)
    /\ disk'[p] = disk[bin]
    /\ q \in DocPath /\ IsNode(q)
    /\ \A x \in Place : IsNode(x)' <=> (IsNode(x) /\ x # bin) \/ x = p
    /\ \A x \in Place : IsNode(x) /\ x # bin =>
         /\ disk'[x].doc = disk[x].doc
         /\ disk'[x].up = disk[x].up
         /\ disk'[x].body = disk[x].body
         /\ disk'[x].hasBin = disk[x].hasBin
         /\ disk'[x].down = IF x = q THEN disk[x].down \cup {p} ELSE disk[x].down
         /\ x \notin DocPath => disk'[x] = disk[x]
    /\ \A x \in Place : IsBody(x)' <=> \/ IsBody(x) /\ ~(b # None /\ x \in {b, Item(b, 0)})
                                       \/ b # None /\ x = b /\ IsBody(Item(b, 0))
    /\ \A x \in Place : IsBody(x) /\ ~(b # None /\ x \in {b, Item(b, 0)}) => disk'[x] = disk[x]
    /\ b # None => disk'[b] = disk[Item(b, 0)]
    /\ \A x \in Place : Holds(x, "bin")' <=> x = BinIndex
    /\ disk'[BinIndex] # Absent /\ disk[BinIndex] # Absent
    /\ Separated' <=> Separated
    /\ Bin' = Seqs!RemoveAt(Bin, i)

\* It makes that of them.
LEMMA RestoredNodes ==
    ASSUME Sound, NEW p \in DocPath, NEW i \in DOMAIN Bin, Restored(p, i),
           disk[Bin[i].parent] # Absent
    PROVE  RestoredDocs(p, i, Bin[i].bin, Bin[i].parent, Bin[i].text)
  <1>1. PICK rec : rec = Bin[i]
    OBVIOUS
  <1> DEFINE q == rec.parent
             b == rec.text
             t == Item(b, 0)
             bin == rec.bin
             T == b # None
  <1>2. disk[p] = Absent /\ rec.from = p
    BY <1>1 DEF Restored
  <1>3. /\ p \in Place /\ p # Root /\ p # BinIndex
        /\ bin \in Place \ DocPath /\ IsNode(bin) /\ bin # BinIndex
        /\ q \in DocPath /\ q \in Place /\ IsNode(q) /\ q # p /\ q # BinIndex
        /\ BinIndex \in Place /\ BinIndex \notin DocPath
        /\ disk[Root].hasBin /\ disk[BinIndex] # Absent
    BY <1>1, <1>2, RestorePlaces
  <1>4. ASSUME T
        PROVE  /\ b \in Place /\ b \in DocPath /\ b \notin {p, bin, BinIndex, q, Root}
               /\ t \in Place \ DocPath /\ t \notin {bin, BinIndex}
               /\ ~IsNode(b) /\ ~IsNode(t)
    BY <1>1, <1>2, <1>4, RestorePlaces
  <1>5. disk[q] \in Node /\ ~IsNode(p) /\ ~IsBody(p)
    BY <1>2, <1>3, Kinds DEF Sound, IsNode, IsBody, Holds
  <1>6. /\ disk'[q].kind = "node" /\ disk'[q] # Absent
        /\ disk'[q].doc = disk[q].doc /\ disk'[q].up = disk[q].up
        /\ disk'[q].body = disk[q].body /\ disk'[q].hasBin = disk[q].hasBin
        /\ disk'[q].down = disk[q].down \cup {p}
    <2> DEFINE more == [disk[q] EXCEPT !.down = @ \cup {p}]
    <2>1. disk'[q] = more
      BY <1>1 DEF Restored
    <2>2. more \in Node
      BY <1>5 DEF Node
    <2>3. /\ more.kind = "node" /\ more.doc = disk[q].doc /\ more.up = disk[q].up
          /\ more.body = disk[q].body /\ more.hasBin = disk[q].hasBin
          /\ more.down = disk[q].down \cup {p}
      BY <1>5 DEF Node
    <2> HIDE DEF more
    <2>4. QED
      BY <2>1, <2>2, <2>3, BinAssumption
  <1>7. /\ disk'[bin] = Absent /\ disk'[p] = disk[bin]
        /\ T => disk'[t] = Absent /\ disk'[b] = disk[t]
    BY <1>1 DEF Restored
  <1>8. \A x \in Place : x \notin {p, bin, BinIndex, q} /\ (T => x \notin {b, t})
                            => disk'[x] = disk[x]
    BY <1>1 DEF Restored
  <1>9. Holds(BinIndex, "bin")' /\ disk'[BinIndex].records = Seqs!RemoveAt(Bin, i)
    <2> DEFINE index == BinOf(Seqs!RemoveAt(Bin, i))
    <2>1. disk'[BinIndex] = index
      BY DEF Restored
    <2>2. Seqs!RemoveAt(Bin, i) \in Seq(Record)
      BY BinIs, RemoveAtIs
    <2>3. index \in Index
      BY <2>2 DEF BinOf, Index
    <2>4. index.kind = "bin" /\ index.records = Seqs!RemoveAt(Bin, i)
      BY DEF BinOf
    <2> HIDE DEF index
    <2>5. QED
      BY <2>1, <2>3, <2>4, BinAssumption DEF Holds
  <1> HIDE DEF q, b, t, bin, T
  <1>10. /\ disk[q].kind = "node" /\ disk[q] # Absent /\ disk[bin].kind = "node" /\ disk[bin] # Absent
    BY <1>3 DEF IsNode, Holds
  <1>11. ~IsNode(BinIndex) /\ ~IsBody(BinIndex)
    BY <1>3 DEF Sound, Filed, IsNode, IsBody, Holds
  <1>12. T => ~Holds(t, "bin") /\ ~Holds(b, "bin")
    BY <1>3, <1>4 DEF Sound, Filed, Holds
  <1>13. ASSUME NEW x \in Place PROVE IsNode(x)' <=> (IsNode(x) /\ x # bin) \/ x = p
    <2>1. CASE x \in {p, bin, BinIndex, q}
      BY <1>3, <1>6, <1>7, <1>9, <1>10, <1>11, <2>1 DEF IsNode, Holds
    <2>2. CASE T /\ x \in {b, t}
      BY <1>3, <1>4, <1>7, <2>2 DEF IsNode, Holds
    <2>3. CASE x \notin {p, bin, BinIndex, q} /\ (T => x \notin {b, t})
      BY <1>8, <2>3 DEF IsNode, Holds
    <2>4. QED
      BY <2>1, <2>2, <2>3
  <1>14. \A x \in Place : IsNode(x) /\ x # bin /\ x # q => disk'[x] = disk[x]
    BY <1>4, <1>5, <1>8, <1>11
  <1>15. ASSUME NEW x \in Place, IsNode(x), x # bin
         PROVE  /\ disk'[x].doc = disk[x].doc
                /\ disk'[x].up = disk[x].up
                /\ disk'[x].body = disk[x].body
                /\ disk'[x].hasBin = disk[x].hasBin
                /\ disk'[x].down = IF x = q THEN disk[x].down \cup {p} ELSE disk[x].down
                /\ x \notin DocPath => disk'[x] = disk[x]
    BY <1>3, <1>6, <1>14, <1>15
  <1>16. ASSUME NEW x \in Place
         PROVE  /\ IsBody(x)' <=> \/ IsBody(x) /\ ~(T /\ x \in {b, t})
                                  \/ T /\ x = b /\ IsBody(t)
                /\ IsBody(x) /\ ~(T /\ x \in {b, t}) => disk'[x] = disk[x]
    <2>1. CASE x \in {p, bin, BinIndex, q}
      <3>1. ~IsBody(x)
        BY <1>5, <1>10, <1>11, <2>1 DEF IsBody, Holds
      <3>2. ~IsBody(x)'
        BY <1>6, <1>7, <1>9, <1>10, <2>1 DEF IsBody, Holds
      <3>3. QED
        BY <1>4, <2>1, <3>1, <3>2
    <2>2. CASE T /\ x = t
      BY <1>4, <1>7, <2>2 DEF IsBody, Holds
    <2>3. CASE T /\ x = b
      BY <1>4, <1>7, <2>3 DEF IsBody, Holds
    <2>4. CASE x \notin {p, bin, BinIndex, q} /\ (T => x \notin {b, t})
      BY <1>8, <2>4 DEF IsBody, Holds
    <2>5. QED
      BY <2>1, <2>2, <2>3, <2>4
  <1>17. ASSUME NEW x \in Place PROVE Holds(x, "bin")' <=> x = BinIndex
    <2>1. CASE x \in {p, bin, BinIndex, q}
      BY <1>3, <1>6, <1>7, <1>9, <1>10, <2>1 DEF Holds
    <2>2. CASE T /\ x \in {b, t}
      BY <1>4, <1>7, <1>12, <2>2 DEF Holds
    <2>3. CASE x \notin {p, bin, BinIndex, q} /\ (T => x \notin {b, t})
      BY <1>8, <2>3 DEF Sound, Filed, Holds
    <2>4. QED
      BY <2>1, <2>2, <2>3
  <1>18. IsNode(Root) /\ Root \in Place /\ Root # bin
    BY <1>3, BinAssumption DEF Sound, Tree, Place
  <1>19. disk'[Root].hasBin = disk[Root].hasBin /\ disk'[Root].body = disk[Root].body
    BY <1>15, <1>18
  <1>20. disk'[BinIndex] # Absent /\ Bin' = Seqs!RemoveAt(Bin, i)
    BY <1>3, <1>9, <1>19 DEF Bin, Holds
  <1>21. Separated' <=> Separated
    BY <1>19 DEF Separated
  <1>22. RestoredDocs(p, i, bin, q, b)
    BY <1>3, <1>5, <1>7, <1>13, <1>15, <1>16, <1>17, <1>20, <1>21 DEF RestoredDocs, T, t
  <1>23. QED
    BY <1>1, <1>22 DEF bin, q, b

\* The records that are left when the i-th is taken out.
LEMMA RecordsLeft ==
    ASSUME Sound, NEW i \in DOMAIN Bin, Bin' = Seqs!RemoveAt(Bin, i)
    PROVE  \E n \in Int :
             /\ DOMAIN Bin' = 1..n
             /\ \A j \in 1..n : Bin'[j] = Bin[Was(i, j)] /\ Was(i, j) \in DOMAIN Bin \ {i}
             /\ \A k \in DOMAIN Bin \ {i} : \E j \in 1..n : Was(i, j) = k
             /\ \A j, k \in 1..n : Was(i, j) = Was(i, k) => j = k
  <1>1. PICK s \in Seq(Record) : s = Bin
    BY BinIs
  <1>2. PICK r : r = Seqs!RemoveAt(s, i)
    OBVIOUS
  <1>3. i \in DOMAIN s /\ Bin' = r
    BY <1>1, <1>2
  <1>4. PICK n \in Int : n = Len(s) - 1
    BY <1>1
  <1>5. /\ DOMAIN r = 1..n
        /\ \A j \in 1..n : r[j] = s[Was(i, j)] /\ Was(i, j) \in DOMAIN s \ {i}
        /\ \A k \in DOMAIN s \ {i} : \E j \in 1..n : Was(i, j) = k
        /\ \A j, k \in 1..n : Was(i, j) = Was(i, k) => j = k
    <2>1. s \in Seq(Record) /\ i \in DOMAIN s
      BY <1>1, <1>3
    <2>2. DOMAIN Seqs!RemoveAt(s, i) = 1..(Len(s) - 1)
      BY <2>1, RemoveAtIs
    <2>3. \A j \in 1..(Len(s) - 1) :
            Seqs!RemoveAt(s, i)[j] = s[Was(i, j)] /\ Was(i, j) \in DOMAIN s \ {i}
      BY <2>1, RemoveAtIs
    <2>4. \A k \in DOMAIN s \ {i} : \E j \in 1..(Len(s) - 1) : Was(i, j) = k
      BY <2>1, RemoveAtIs
    <2>5. \A j, k \in 1..(Len(s) - 1) : Was(i, j) = Was(i, k) => j = k
      BY <2>1, RemoveAtIs
    <2>6. QED
      BY <1>2, <1>4, <2>2, <2>3, <2>4, <2>5
  <1>6. QED
    BY <1>1, <1>3, <1>5

\* The records after restore: those there were, but that one.
LEMMA RestoredRecords ==
    ASSUME Sound, NEW p \in DocPath, NEW i \in DOMAIN Bin, Restored(p, i),
           disk[Bin[i].parent] # Absent
    PROVE  Recorded'
  <1>2. PICK rec : rec = Bin[i]
    OBVIOUS
  <1>3. RestoredDocs(p, i, rec.bin, rec.parent, rec.text)
    BY <1>2, RestoredNodes
  <1>4. PICK n \in Int :
        /\ DOMAIN Bin' = 1..n
        /\ \A j \in 1..n : Bin'[j] = Bin[Was(i, j)] /\ Was(i, j) \in DOMAIN Bin \ {i}
        /\ \A k \in DOMAIN Bin \ {i} : \E j \in 1..n : Was(i, j) = k
        /\ \A j, k \in 1..n : Was(i, j) = Was(i, k) => j = k
    <2>1. Bin' = Seqs!RemoveAt(Bin, i)
      BY <1>3 DEF RestoredDocs
    <2>2. QED
      BY <2>1, RecordsLeft
  <1>5. \A j, k \in DOMAIN Bin : Bin[j].bin = Bin[k].bin => j = k
    BY DEF Sound, Recorded
  <1>6. ASSUME NEW j \in DOMAIN Bin'
        PROVE  Fits(Bin[j])'
    <2>1. PICK k \in DOMAIN Bin : k # i /\ Bin'[j] = Bin[k]
      BY <1>4
    <2>2. PICK r : r = Bin[k]
      OBVIOUS
    <2>3. Fits(r) /\ r.bin \in Place \ DocPath
      BY <2>2, RecordIs
    <2>4. IsNode(r.bin) /\ r.bin # rec.bin
      BY <1>2, <1>5, <2>1, <2>2, <2>3 DEF Fits
    <2>5. disk'[r.bin] = disk[r.bin] /\ (Separated' <=> Separated)
      BY <1>3, <2>3, <2>4 DEF RestoredDocs
    <2>6. Fits(r)'
      BY <2>3, <2>5, FitsStays
    <2>7. Bin'[j] = r
      BY <2>1, <2>2
    <2>8. QED
      BY <2>6, <2>7 DEF Fits, IsNode, Holds
  <1>7. ASSUME NEW x \in Place \ DocPath, IsNode(x)'
        PROVE  \E j \in DOMAIN Bin' : Bin'[j].bin = x
    <2>1. IsNode(x) /\ x # rec.bin
      <3>1. x # p
        OBVIOUS
      <3>2. QED
        BY <1>3, <1>7, <3>1 DEF RestoredDocs
    <2>2. PICK k \in DOMAIN Bin : Bin[k].bin = x
      BY <2>1, InBin
    <2>3. k # i
      BY <1>2, <2>1, <2>2
    <2>4. QED
      BY <1>4, <2>2, <2>3
  <1>8. ASSUME NEW j \in DOMAIN Bin', NEW k \in DOMAIN Bin', Bin'[j].bin = Bin'[k].bin
        PROVE  j = k
    BY <1>4, <1>5, <1>8
  <1>9. QED
    BY <1>6, <1>7, <1>8 DEF Recorded

\* What Sound says holds after restore.
LEMMA RestoreSound ==
    ASSUME Sound, NEW p \in DocPath, NEW i \in DOMAIN Bin, Restored(p, i),
           disk[Bin[i].parent] # Absent, RestoreStages(p, i), made' = made, spoilt' = spoilt
    PROVE  Sound'
  <1>1. PICK rec : rec = Bin[i]
    OBVIOUS
  <1>2. RestoredDocs(p, i, rec.bin, rec.parent, rec.text)
    BY <1>1, RestoredNodes
  <1>3. \A x \in DocPath : x \in Place
    BY DEF Place
  <1>4. TypeOK'
    <2>1. disk' \in [Place -> Node \cup Body \cup Index \cup {Absent}]
      BY DEF Restored, Text
    <2>2. staged' \in Seq(FileOp)
      BY DEF RestoreStages
    <2>3. QED
      BY <2>1, <2>2 DEF Sound, TypeOK
  <1>5. Fits(rec) /\ rec.from = p /\ rec.text \in DocPath \cup {None}
    BY <1>1, RecordIs DEF Restored
  <1>6. disk[rec.bin].body = disk'[p].body /\ ~disk[rec.bin].hasBin
        /\ IsNode(rec.bin) /\ rec.bin \in Place
    <2>1. IsNode(rec.bin) /\ rec.bin \in Place /\ rec.bin # Root /\ disk'[p] = disk[rec.bin]
      BY <1>2, BinAssumption DEF RestoredDocs
    <2>2. QED
      BY <2>1 DEF Sound, Filed
  <1>7. rec.text # None => Separated /\ rec.text \in Prose
    BY <1>5, <1>6, NodePlace DEF Fits
  <1>8. (Separated' <=> Separated) /\ disk'[BinIndex] # Absent /\ disk[BinIndex] # Absent
    BY <1>2 DEF RestoredDocs
  <1>9. Filed'
    <2>1. ASSUME NEW x \in Place, disk'[x] # Absent
          PROVE  disk'[x].kind = "bin" <=> x = BinIndex
      BY <1>2, <2>1 DEF RestoredDocs, Holds
    <2>2. ASSUME NEW x \in Place, IsNode(x)'
          PROVE  /\ disk'[x].hasBin <=> x = Root /\ disk'[BinIndex] # Absent
                 /\ Separated' => disk'[x].body \in Prose
                 /\ ~Separated' => disk'[x].body = None
                 /\ Separated' /\ x \in DocPath => NodeOf[disk'[x].body] = x
      <3>1. CASE x = p
        <4>1. disk'[x] = disk[rec.bin] /\ x # Root
          BY <1>2, <3>1 DEF RestoredDocs
        <4>2. /\ Separated => disk[rec.bin].body \in Prose
              /\ ~Separated => disk[rec.bin].body = None
          BY <1>6 DEF Sound, Filed
        <4>3. Separated => NodeOf[disk[rec.bin].body] = p
          BY <1>5 DEF Fits
        <4>4. QED
          BY <1>6, <1>8, <3>1, <4>1, <4>2, <4>3
      <3>2. CASE x # p
        <4>1. IsNode(x) /\ x # rec.bin
          BY <1>2, <2>2, <3>2 DEF RestoredDocs
        <4>2. disk'[x].body = disk[x].body /\ disk'[x].hasBin = disk[x].hasBin
          BY <1>2, <4>1 DEF RestoredDocs
        <4>3. /\ disk[x].hasBin <=> x = Root /\ disk[BinIndex] # Absent
              /\ Separated => disk[x].body \in Prose
              /\ ~Separated => disk[x].body = None
              /\ Separated /\ x \in DocPath => NodeOf[disk[x].body] = x
          BY <4>1 DEF Sound, Filed
        <4>4. QED
          BY <1>8, <4>2, <4>3
      <3>3. QED
        BY <3>1, <3>2
    <2>3. ASSUME NEW x \in Place, IsBody(x)'
          PROVE  Separated' /\ (x \in Prose \/ \E y \in Prose : x = Item(y, 0))
      <3>1. IsBody(x) \/ (rec.text # None /\ x = rec.text)
        BY <1>2, <2>3 DEF RestoredDocs
      <3>2. QED
        BY <1>7, <1>8, <3>1 DEF Sound, Filed
    <2>4. QED
      BY <2>1, <2>2, <2>3 DEF Filed
  <1>10. Tree'
    <2>1. disk'[p].up = rec.parent /\ disk'[p].down = {} /\ rec.parent \in DocPath
      BY <1>2, <1>5 DEF RestoredDocs, Fits
    <2>2. Joins(p, rec.parent)
      BY <1>2, <1>3, <2>1 DEF RestoredDocs, Joins
    <2>3. QED
      BY <2>1, <2>2, LeafNew DEF Sound
  <1>11. Identified'
    <2>1. Moved(rec.bin, p)
      BY <1>2 DEF RestoredDocs, Moved
    <2>2. QED
      BY <1>3, <1>6, <2>1, NodeMoved DEF Sound
  <1>12. Recorded'
    BY RestoredRecords
  <1>13. QED
    BY <1>4, <1>9, <1>10, <1>11, <1>12 DEF Sound

\* The body of a document in the bin is there, and its place outside is free.
LEMMA BodyWaits ==
    ASSUME Sound, Separated, Bodied, NEW i \in DOMAIN Bin, disk[Bin[i].from] = Absent,
           NEW rec, rec = Bin[i]
    PROVE  /\ rec.text # None /\ rec.text \in Prose /\ NodeOf[rec.text] = rec.from
           /\ rec.text = disk[rec.bin].body /\ rec.doc = disk[rec.bin].doc
           /\ BodyOf(Item(rec.text, 0), rec.doc) /\ disk[Item(rec.text, 0)] # Absent
           /\ disk[rec.text] = Absent
  <1>1. /\ rec \in Record /\ Fits(rec) /\ rec.from \in DocPath /\ rec.bin \in Place \ DocPath
        /\ rec.text # None /\ BodyOf(Item(rec.text, 0), rec.doc)
    BY RecordIs DEF Bodied
  <1>2. rec.text = disk[rec.bin].body /\ rec.doc = disk[rec.bin].doc /\ IsNode(rec.bin)
        /\ NodeOf[disk[rec.bin].body] = rec.from
    BY <1>1 DEF Fits
  <1>3. rec.text \in Prose
    BY <1>1, <1>2, NodePlace
  <1>4. rec.text \in DocPath /\ rec.text \in Place /\ rec.text # BinIndex
    BY <1>3, BinAssumption DEF Place
  <1>5. disk[rec.text] = Absent
    <2>1. ~IsNode(rec.text)
      BY <1>3, <1>4, NodePlace
    <2>2. ~Holds(rec.text, "bin")
      BY <1>4 DEF Sound, Filed, Holds
    <2>3. ~IsBody(rec.text)
      <3>1. IsBody(rec.text) => IsNode(rec.from)
        BY <1>2, <1>4 DEF Bodied
      <3>2. QED
        BY <3>1 DEF IsNode, Holds
    <2>4. QED
      BY <1>4, <2>1, <2>2, <2>3, Kinds DEF Sound
  <1>6. disk[Item(rec.text, 0)] # Absent
    BY <1>1 DEF BodyOf, IsBody, Holds
  <1>7. QED
    BY <1>1, <1>2, <1>3, <1>5, <1>6

\* What Bodied says holds after restore.
LEMMA RestoreBodied ==
    ASSUME Sound, Separated, Bodied, NEW p \in DocPath, NEW i \in DOMAIN Bin, Restored(p, i),
           disk[Bin[i].parent] # Absent
    PROVE  Bodied'
  <1>1. PICK rec : rec = Bin[i]
    OBVIOUS
  <1>2. RestoredDocs(p, i, rec.bin, rec.parent, rec.text)
    BY <1>1, RestoredNodes
  <1>3. \A x \in DocPath : x \in Place
    BY DEF Place
  <1>4. PICK b : b = rec.text
    OBVIOUS
  <1> DEFINE t == Item(b, 0)
  <1>5. rec.from = p /\ disk[rec.from] = Absent /\ disk'[p] = disk[rec.bin]
    BY <1>1 DEF Restored
  <1>6. /\ b # None /\ b \in Prose /\ NodeOf[b] = p /\ b = disk[rec.bin].body
        /\ rec.doc = disk[rec.bin].doc /\ BodyOf(t, rec.doc) /\ disk[b] = Absent
    BY <1>1, <1>4, <1>5, BodyWaits
  <1>7. b \in DocPath /\ b \in Place /\ t \in Place \ DocPath /\ disk'[b] = disk[t]
        /\ IsBody(t) /\ disk[t].doc = rec.doc /\ ~IsBody(b)
    BY <1>2, <1>4, <1>6, Items, BinAssumption DEF Place, RestoredDocs, BodyOf, IsBody, Holds
  <1>8. /\ \A x \in Place : IsBody(x)' <=> (IsBody(x) /\ x # t) \/ x = b
        /\ \A x \in Place : IsBody(x) /\ x # t => disk'[x] = disk[x]
    BY <1>2, <1>4, <1>6, <1>7 DEF RestoredDocs
  <1> HIDE DEF t
  <1>10. PICK n \in Int :
         /\ DOMAIN Bin' = 1..n
         /\ \A j \in 1..n : Bin'[j] = Bin[Was(i, j)] /\ Was(i, j) \in DOMAIN Bin \ {i}
         /\ \A k \in DOMAIN Bin \ {i} : \E j \in 1..n : Was(i, j) = k
    <2>1. Bin' = Seqs!RemoveAt(Bin, i)
      BY <1>2 DEF RestoredDocs
    <2>2. QED
      BY <2>1, RecordsLeft
  <1>11. ASSUME NEW x \in DocPath, IsNode(x)'
         PROVE  BodyOf(disk[x].body, disk[x].doc)'
    <2>1. CASE x = p
      <3>1. disk'[x].body = b /\ disk'[x].doc = rec.doc
        BY <1>5, <1>6, <2>1
      <3>2. IsBody(b)' /\ disk'[b].doc = rec.doc
        BY <1>7, <1>8
      <3>3. QED
        BY <3>1, <3>2 DEF BodyOf, IsBody, Holds
    <2>2. CASE x # p
      <3>1. IsNode(x) /\ x # rec.bin
        BY <1>2, <1>3, <1>11, <2>2 DEF RestoredDocs
      <3>2. disk'[x].body = disk[x].body /\ disk'[x].doc = disk[x].doc
        BY <1>2, <1>3, <3>1 DEF RestoredDocs
      <3>3. PICK c : c = disk[x].body
        OBVIOUS
      <3>4. c \in DocPath /\ c \in Place
        BY <1>3, <3>1, <3>3, NodePlace, BinAssumption
      <3>5. IsBody(c) /\ disk[c].doc = disk[x].doc
        BY <3>1, <3>3 DEF Bodied, BodyOf
      <3>6. IsBody(c)' /\ disk'[c] = disk[c]
        BY <1>7, <1>8, <3>4, <3>5
      <3>7. QED
        BY <3>2, <3>3, <3>5, <3>6 DEF BodyOf, IsBody, Holds
    <2>3. QED
      BY <2>1, <2>2
  <1>12. ASSUME NEW j \in DOMAIN Bin'
         PROVE  Bin'[j].text # None /\ BodyOf(Item(Bin[j].text, 0), Bin[j].doc)'
    <2>1. PICK k \in DOMAIN Bin : k # i /\ Bin'[j] = Bin[k]
      BY <1>10
    <2>2. PICK r : r = Bin[k]
      OBVIOUS
    <2>3. r.text # None /\ BodyOf(Item(r.text, 0), r.doc) /\ r.text \in DocPath
      BY <2>2, RecordIs DEF Bodied
    <2>4. Item(r.text, 0) \in Place \ DocPath
      BY <2>3, Items, BinAssumption
    <2>5. Item(r.text, 0) # t
      <3>1. SUFFICES ASSUME Item(r.text, 0) = t PROVE FALSE
        OBVIOUS
      <3>2. r.doc = rec.doc
        BY <1>7, <2>3, <3>1 DEF BodyOf
      <3>3. /\ r.bin \in Place /\ IsNode(r.bin) /\ disk[r.bin].doc = r.doc
            /\ rec.bin \in Place /\ IsNode(rec.bin)
        BY <1>1, <2>2, RecordIs DEF Fits
      <3>4. r.bin = rec.bin
        BY <1>6, <3>2, <3>3 DEF Sound, Identified
      <3>5. QED
        BY <1>1, <2>1, <2>2, <3>4 DEF Sound, Recorded
    <2>6. disk'[Item(r.text, 0)] = disk[Item(r.text, 0)]
      BY <1>8, <2>3, <2>4, <2>5 DEF BodyOf
    <2>7. Bin'[j] = r
      BY <2>1, <2>2
    <2>8. QED
      BY <2>3, <2>6, <2>7 DEF BodyOf, IsBody, Holds
  <1>13. ASSUME NEW c \in DocPath, IsBody(c)'
         PROVE  IsNode(NodeOf[c])' /\ disk'[NodeOf[c]].body = c
    <2>1. CASE c = b
      <3>1. IsNode(p)' /\ disk'[p].body = b
        BY <1>2, <1>5, <1>6 DEF RestoredDocs
      <3>2. QED
        BY <1>6, <2>1, <3>1
    <2>2. CASE c # b
      <3>1. IsBody(c)
        BY <1>3, <1>8, <1>13, <2>2
      <3>2. IsNode(NodeOf[c]) /\ disk[NodeOf[c]].body = c
        BY <3>1 DEF Bodied
      <3>3. c \in Prose
        BY <1>3, <3>1, Items, BinAssumption DEF Sound, Filed
      <3>4. NodeOf[c] \in DocPath /\ NodeOf[c] \in Place
        BY <1>3, <3>3, BinAssumption
      <3>5. QED
        BY <1>2, <3>2, <3>4 DEF RestoredDocs
    <2>3. QED
      BY <2>1, <2>2
  <1>14. ASSUME NEW q \in Prose, IsBody(Item(q, 0))'
         PROVE  \E j \in DOMAIN Bin' : Bin'[j].text = q
    <2>1. Item(q, 0) \in Place \ DocPath
      BY Items, BinAssumption
    <2>2. IsBody(Item(q, 0)) /\ Item(q, 0) # t
      BY <1>7, <1>8, <1>14, <2>1
    <2>3. PICK k \in DOMAIN Bin : Bin[k].text = q
      BY <2>2 DEF Bodied
    <2>4. k # i
      BY <1>1, <1>4, <2>2, <2>3 DEF t
    <2>5. QED
      BY <1>10, <2>3, <2>4
  <1>15. QED
    BY <1>11, <1>12, <1>13, <1>14 DEF Bodied

-----------------------------------------------------------------------------
(* empty_bin.                                                              *)

\* The removals of s, and those of the k-th record.
Further(s, k) ==
    s \o IfThere(Bin[k].bin)
      \o IF Bin[k].text # None THEN IfThere(Item(Bin[k].text, 0)) ELSE << >>

\* There is such a run of removals, of any length.
LEMMA FurtherIs ==
    ASSUME NEW C \in Nat
    PROVE  \E f : f = [k \in 0..C |-> IF k = 0 THEN << >> ELSE Further(f[k - 1], k)]
  <1> DEFINE Step(f, k) == IF k = 0 THEN << >> ELSE Further(f[k - 1], k)
             Run(n, f) == f = [k \in 0..n |-> Step(f, k)]
             S == {n \in Nat : ~\E f : Run(n, f)}
  <1> SUFFICES ASSUME S # {} PROVE FALSE
    OBVIOUS
  <1>1. S \subseteq Nat
    OBVIOUS
  <1> HIDE DEF S
  <1>2. PICK m \in S : \A k \in S : m <= k
    BY <1>1, Least
  <1>3. m \in Nat /\ ~\E f : Run(m, f)
    BY DEF S
  <1>4. CASE m = 0
    <2> DEFINE f == [k \in 0..0 |-> << >>]
    <2>1. \A k \in 0..0 : f[k] = Step(f, k)
      OBVIOUS
    <2>2. Run(0, f)
      BY <2>1
    <2>3. QED
      BY <1>3, <1>4, <2>2
  <1>5. CASE m # 0
    <2>1. m - 1 \in Nat /\ ~(m <= m - 1) /\ m \in 0..m
      BY <1>3, <1>5
    <2>2. m - 1 \notin S
      BY <1>2, <2>1
    <2>3. PICK f : Run(m - 1, f)
      BY <2>1, <2>2 DEF S
    <2> DEFINE g == [k \in 0..m |-> IF k = m THEN Step(f, m) ELSE f[k]]
    <2>4. \A k \in 0..(m - 1) : f[k] = Step(f, k)
      BY <2>3
    <2>5. \A k \in 0..(m - 1) : g[k] = f[k]
      BY <1>3
    <2>6. \A k \in 0..m : g[k] = Step(f, k)
      <3> TAKE k \in 0..m
      <3>1. CASE k = m
        BY <3>1
      <3>2. CASE k # m
        <4>1. k \in 0..(m - 1)
          BY <1>3, <3>2
        <4> HIDE DEF Step, g
        <4>2. QED
          BY <2>4, <2>5, <4>1
      <3>3. QED
        BY <3>1, <3>2
    <2>7. g = [k \in 0..m |-> g[k]]
      OBVIOUS
    <2> HIDE DEF g
    <2>8. \A k \in 0..m : Step(g, k) = Step(f, k)
      <3> TAKE k \in 0..m
      <3>1. CASE k = 0
        BY <3>1
      <3>2. CASE k # 0
        <4>1. g[k - 1] = f[k - 1]
          BY <1>3, <2>5, <3>2
        <4>2. QED
          BY <3>2, <4>1
      <3>3. QED
        BY <3>1, <3>2
    <2> HIDE DEF Step
    <2>9. g = [k \in 0..m |-> Step(g, k)]
      BY <2>6, <2>7, <2>8
    <2>10. QED
      BY <1>3, <2>9
  <1>6. QED
    BY <1>4, <1>5

\* The removal op is one of the first k records' files, which is there.
Purges(op, k) ==
    \E j \in 1..k :
        \/ disk[Bin[j].bin] # Absent /\ op = Remove(Bin[j].bin)
        \/ /\ Bin[j].text # None /\ disk[Item(Bin[j].text, 0)] # Absent
           /\ op = Remove(Item(Bin[j].text, 0))

\* What one record adds.
LEMMA FurtherOps ==
    ASSUME Sound, NEW s \in Seq(FileOp), NEW k \in DOMAIN Bin
    PROVE  /\ Further(s, k) \in Seq(FileOp)
           /\ \A op : op \in Ops(Further(s, k)) <=>
                \/ op \in Ops(s)
                \/ disk[Bin[k].bin] # Absent /\ op = Remove(Bin[k].bin)
                \/ /\ Bin[k].text # None /\ disk[Item(Bin[k].text, 0)] # Absent
                   /\ op = Remove(Item(Bin[k].text, 0))
  <1>1. PICK rec : rec = Bin[k]
    OBVIOUS
  <1> DEFINE b == rec.bin
             t == Item(rec.text, 0)
             c == rec.text # None /\ disk[t] # Absent
             u == IfThere(b)
             v == IF rec.text # None THEN IfThere(t) ELSE << >>
  <1>2. b \in Place /\ (rec.text # None => t \in Place)
    BY <1>1, RecordIs, Items, BinAssumption
  <1>3. v = If(c, Remove(t))
    BY DEF IfThere, If
  <1>4. u = If(disk[b] # Absent, Remove(b))
    BY DEF IfThere
  <1> HIDE DEF b, t, u, v
  <1>5. Remove(b) \in FileOp /\ (c => Remove(t) \in FileOp)
    BY <1>2, RemoveIs
  <1>6. u \in Seq(FileOp) /\ Ops(u) = IF disk[b] # Absent THEN {Remove(b)} ELSE {}
    BY <1>4, <1>5, MaybeOp
  <1>7. v \in Seq(FileOp) /\ Ops(v) = IF c THEN {Remove(t)} ELSE {}
    BY <1>3, <1>5, MaybeOp
  <1>8. s \o u \in Seq(FileOp) /\ Ops(s \o u) = Ops(s) \cup Ops(u)
    BY <1>6, OpsCat
  <1>9. s \o u \o v \in Seq(FileOp) /\ Ops(s \o u \o v) = Ops(s) \cup Ops(u) \cup Ops(v)
    BY <1>7, <1>8, OpsCat
  <1>10. Further(s, k) = s \o u \o v
    BY <1>1 DEF Further, u, v, b, t
  <1>11. \A op : op \in Ops(s \o u \o v) <=>
            op \in Ops(s) \/ (disk[b] # Absent /\ op = Remove(b)) \/ (c /\ op = Remove(t))
    BY <1>6, <1>7, <1>9
  <1>12. QED
    BY <1>1, <1>9, <1>10, <1>11 DEF b, t

\* Purge removes the files of the records that are there, and does nothing else.
LEMMA PurgeIs ==
    ASSUME Sound
    PROVE  /\ Purge \in Seq(FileOp)
           /\ \A op : op \in Ops(Purge) <=> Purges(op, Len(Bin))
  <1>0. Len(Bin) \in Nat /\ DOMAIN Bin = 1..Len(Bin)
    BY BinIs
  <1> DEFINE F == CHOOSE f : f = [k \in 0..Len(Bin) |->
                                    IF k = 0 THEN << >> ELSE Further(f[k - 1], k)]
  <1>1. F = [k \in 0..Len(Bin) |-> IF k = 0 THEN << >> ELSE Further(F[k - 1], k)]
    <2>1. \E f : f = [k \in 0..Len(Bin) |-> IF k = 0 THEN << >> ELSE Further(f[k - 1], k)]
      BY <1>0, FurtherIs
    <2>2. QED
      BY <2>1
  <1>2. Purge = F[Len(Bin)]
    BY DEF Purge, Further
  <1> HIDE DEF F
  <1> DEFINE Good(k) == F[k] \in Seq(FileOp) /\ \A op : op \in Ops(F[k]) <=> Purges(op, k)
             S == {k \in 0..Len(Bin) : ~Good(k)}
  <1>3. ASSUME S # {} PROVE FALSE
    <2>1. S \subseteq Nat
      OBVIOUS
    <2> HIDE DEF S
    <2>2. PICK m \in S : \A k \in S : m <= k
      BY <1>3, <2>1, Least
    <2>3. m \in 0..Len(Bin) /\ ~Good(m)
      BY DEF S
    <2>4. CASE m = 0
      <3>1. F[m] = << >>
        BY <1>1, <2>3, <2>4
      <3>2. << >> \in Seq(FileOp) /\ \A op : op \notin Ops(<< >>)
        BY DEF Ops
      <3>3. \A op : ~Purges(op, 0)
        BY DEF Purges
      <3>4. Good(m)
        BY <2>4, <3>1, <3>2, <3>3
      <3>5. QED
        BY <2>3, <3>4
    <2>5. CASE m # 0
      <3>1. m - 1 \in 0..Len(Bin) /\ ~(m <= m - 1) /\ m \in DOMAIN Bin /\ m \in 1..m
            /\ (\A j \in 1..(m - 1) : j \in 1..m)
            /\ (\A j \in 1..m : j \in 1..(m - 1) \/ j = m)
        BY <1>0, <2>3, <2>5
      <3>2. Good(m - 1)
        BY <2>2, <3>1 DEF S
      <3>3. F[m] = Further(F[m - 1], m)
        BY <1>1, <2>3, <2>5
      <3>4. /\ F[m] \in Seq(FileOp)
            /\ \A op : op \in Ops(F[m]) <=>
                 \/ op \in Ops(F[m - 1])
                 \/ disk[Bin[m].bin] # Absent /\ op = Remove(Bin[m].bin)
                 \/ /\ Bin[m].text # None /\ disk[Item(Bin[m].text, 0)] # Absent
                    /\ op = Remove(Item(Bin[m].text, 0))
        BY <3>1, <3>2, <3>3, FurtherOps
      <3>5. \A op : Purges(op, m) <=>
                 \/ Purges(op, m - 1)
                 \/ disk[Bin[m].bin] # Absent /\ op = Remove(Bin[m].bin)
                 \/ /\ Bin[m].text # None /\ disk[Item(Bin[m].text, 0)] # Absent
                    /\ op = Remove(Item(Bin[m].text, 0))
        BY <3>1 DEF Purges
      <3>6. Good(m)
        BY <3>2, <3>4, <3>5
      <3>7. QED
        BY <2>3, <3>6
    <2>6. QED
      BY <2>4, <2>5
  <1>4. Len(Bin) \in 0..Len(Bin)
    BY <1>0
  <1>5. Good(Len(Bin))
    BY <1>3, <1>4
  <1>6. QED
    BY <1>2, <1>5

\* The places of the records' nodes, and of their bodies.
BinNodes  == {Bin[i].bin : i \in DOMAIN Bin}
BinBodies == {Item(Bin[i].text, 0) : i \in {j \in DOMAIN Bin : Bin[j].text # None}}

\* What EmptyBin makes of the files.
Emptied ==
    /\ disk' \in [Place -> Text]
    /\ disk'[BinIndex] = BinOf(<< >>)
    /\ \A x \in BinNodes \cup BinBodies : disk'[x] = Absent
    /\ \A x \in Place : x \notin BinNodes \cup BinBodies \cup {BinIndex} => disk'[x] = disk[x]
    /\ \A d \in Doc : made'[d] = IF \E i \in DOMAIN Bin : Bin[i].doc = d
                                  THEN "destroyed" ELSE made[d]

\* The places empty_bin deals with.
LEMMA EmptyPlaces ==
    ASSUME Sound
    PROVE  /\ BinNodes \cup BinBodies \subseteq Place \ DocPath
           /\ BinIndex \notin BinNodes \cup BinBodies /\ BinIndex \in Place
           /\ BinIndex \notin DocPath
           /\ \A x \in Place \ DocPath : IsNode(x) <=> x \in BinNodes
  <1>1. ASSUME NEW x \in BinNodes
        PROVE  x \in Place \ DocPath /\ x # BinIndex /\ IsNode(x)
    <2>1. PICK i \in DOMAIN Bin : x = Bin[i].bin
      BY <1>1 DEF BinNodes
    <2>2. x \in Place \ DocPath /\ IsNode(x)
      BY <2>1, RecordIs DEF Fits
    <2>3. QED
      BY <2>2, NodePlace
  <1>2. ASSUME NEW x \in BinBodies
        PROVE  x \in Place \ DocPath /\ x # BinIndex
    <2>1. PICK i \in DOMAIN Bin : x = Item(Bin[i].text, 0) /\ Bin[i].text # None
      BY <1>2 DEF BinBodies
    <2>2. QED
      BY <2>1, RecordIs, Items, BinAssumption
  <1>3. ASSUME NEW x \in Place \ DocPath, IsNode(x) PROVE x \in BinNodes
    BY <1>3, InBin DEF BinNodes
  <1>4. BinIndex \in Place /\ BinIndex \notin DocPath
    BY BinAssumption DEF Place
  <1>5. QED
    BY <1>1, <1>2, <1>3, <1>4

\* Empty_bin leaves that, or what there was.
LEMMA EmptyIs ==
    ASSUME Sound, EmptyBin
    PROVE  /\ spoilt' = spoilt /\ disk[Root].hasBin /\ disk[BinIndex] # Absent
           /\ staged' \in Seq(FileOp) /\ made' \in [Doc -> Fate]
           /\ \A op \in Ops(staged') : ~IsRename(op)
           /\ Emptied \/ (disk' = disk /\ made' = made)
  <1> DEFINE index == BinOf(<< >>)
             last == <<Write(BinIndex, index)>>
             ops == Purge \o last
             purged == {Bin[i].doc : i \in DOMAIN Bin}
             gone == BinNodes \cup BinBodies
  <1>1. /\ Commit(ops) /\ spoilt' = spoilt /\ disk[Root].hasBin
        /\ made' = [d \in Doc |-> IF Runs(ops, disk) /\ d \in purged
                                  THEN "destroyed" ELSE made[d]]
    BY DEF EmptyBin
  <1>2. disk[BinIndex] # Absent /\ BinIndex \in Place
    BY <1>1, BinIs
  <1>3. index \in Index
    <2>1. << >> \in Seq(Record)
      OBVIOUS
    <2>2. QED
      BY <2>1 DEF BinOf, Index
  <1>4. disk \in [Place -> Text] /\ made \in [Doc -> Fate]
    BY <1>2, Kinds DEF Sound, TypeOK
  <1> HIDE DEF index, purged, gone
  <1>5. Write(BinIndex, index) \in FileOp
    BY <1>2, <1>3, WriteIs
  <1>6. last \in Seq(FileOp) /\ Ops(last) = {Write(BinIndex, index)}
    BY <1>5, OneOp
  <1> HIDE DEF last
  <1>7. ops \in Seq(FileOp) /\ Ops(ops) = Ops(Purge) \cup {Write(BinIndex, index)}
    BY <1>6, PurgeIs, OpsCat
  <1> HIDE DEF ops
  <1>8. gone \subseteq Place /\ BinIndex \notin gone
    BY EmptyPlaces DEF gone
  <1>9. ASSUME NEW op \in Ops(ops)
        PROVE  op = Write(BinIndex, index) \/ \E x \in gone : op = Remove(x)
    <2>1. CASE op \in Ops(Purge)
      <3>1. Purges(op, Len(Bin)) /\ DOMAIN Bin = 1..Len(Bin)
        BY <2>1, PurgeIs, BinIs
      <3>2. PICK j \in DOMAIN Bin :
                \/ op = Remove(Bin[j].bin)
                \/ Bin[j].text # None /\ op = Remove(Item(Bin[j].text, 0))
        BY <3>1 DEF Purges
      <3>3. QED
        BY <3>2 DEF gone, BinNodes, BinBodies
    <2>2. QED
      BY <1>7, <1>9, <2>1
  <1>10. ASSUME NEW x \in gone, disk[x] # Absent
         PROVE  Remove(x) \in Ops(ops)
    <2>1. DOMAIN Bin = 1..Len(Bin)
      BY BinIs
    <2>2. CASE x \in BinNodes
      <3>1. PICK j \in DOMAIN Bin : x = Bin[j].bin
        BY <2>2 DEF BinNodes
      <3>2. Purges(Remove(x), Len(Bin))
        BY <1>10, <2>1, <3>1 DEF Purges
      <3>3. QED
        BY <1>7, <3>2, PurgeIs
    <2>3. CASE x \in BinBodies
      <3>1. PICK j \in DOMAIN Bin : x = Item(Bin[j].text, 0) /\ Bin[j].text # None
        BY <2>3 DEF BinBodies
      <3>2. Purges(Remove(x), Len(Bin))
        BY <1>10, <2>1, <3>1 DEF Purges
      <3>3. QED
        BY <1>7, <3>2, PurgeIs
    <2>4. QED
      BY <2>2, <2>3 DEF gone
  <1>11. Write(BinIndex, index) \in Ops(ops)
    BY <1>7
  <1>12. \A op \in Ops(ops) : ~IsRename(op)
    BY <1>9, WriteIs, RemoveIs
  <1> DEFINE e == [x \in Place |-> IF x \in gone THEN Absent
                                   ELSE IF x = BinIndex THEN index ELSE disk[x]]
  <1>13. e \in [Place -> Text]
    BY <1>3, <1>4 DEF Text
  <1>14. /\ \A x \in gone : e[x] = Absent
         /\ e[BinIndex] = index
         /\ \A x \in Place : x \notin gone /\ x # BinIndex => e[x] = disk[x]
    BY <1>2, <1>8
  <1> HIDE DEF e
  <1>15. ASSUME NEW x \in Place, \A op \in Ops(ops) : ~Touches(op, x)
         PROVE  e[x] = disk[x]
    <2>1. x # BinIndex
      BY <1>11, <1>15, WriteIs
    <2>2. x \in gone => disk[x] = Absent
      BY <1>10, <1>15, RemoveIs
    <2>3. QED
      BY <1>14, <2>1, <2>2
  <1>16. ASSUME NEW x \in Place, NEW op \in Ops(ops), Touches(op, x)
         PROVE  e[x] = LeftAt(op, x, disk)
    <2>1. CASE op = Write(BinIndex, index)
      BY <1>14, <1>16, <2>1, WriteIs
    <2>2. CASE op # Write(BinIndex, index)
      <3>1. PICK y \in gone : op = Remove(y)
        BY <1>9, <2>2
      <3>2. QED
        BY <1>14, <1>16, <3>1, RemoveIs
    <2>3. QED
      BY <2>1, <2>2
  <1>17. After(ops, disk)[Len(ops)] = e
    <2>1. \A k \in DOMAIN ops : ops[k] \in Ops(ops)
      BY DEF Ops
    <2>2. Apart(ops)
      BY <1>12, <2>1 DEF Apart
    <2>3. Landed(ops, disk, e)
      <3> SUFFICES ASSUME NEW x \in Place
                   PROVE  /\ (\A i \in DOMAIN ops : ~Touches(ops[i], x)) => e[x] = disk[x]
                          /\ \A i \in DOMAIN ops : Touches(ops[i], x) =>
                                 e[x] = LeftAt(ops[i], x, disk)
        BY DEF Landed
      <3>1. (\A i \in DOMAIN ops : ~Touches(ops[i], x)) =>
                \A op \in Ops(ops) : ~Touches(op, x)
        BY DEF Ops
      <3>2. QED
        BY <1>15, <1>16, <2>1, <3>1
    <2>4. QED
      BY <1>4, <1>7, <1>13, <2>2, <2>3, Landing
  <1>18. made' \in [Doc -> Fate]
    BY <1>1, <1>4 DEF Fate
  <1>19. CASE Runs(ops, disk)
    <2>1. disk' = e
      BY <1>1, <1>17, <1>19 DEF Commit
    <2>2. \A d \in Doc : made'[d] = IF d \in purged THEN "destroyed" ELSE made[d]
      BY <1>1, <1>19
    <2>3. \A d \in Doc : d \in purged <=> \E i \in DOMAIN Bin : Bin[i].doc = d
      BY DEF purged
    <2>4. Emptied
      BY <1>13, <1>14, <2>1, <2>2, <2>3 DEF Emptied, gone, index
    <2>5. QED
      BY <1>1, <1>2, <1>7, <1>12, <1>18, <2>4 DEF Commit
  <1>20. CASE ~Runs(ops, disk)
    <2>1. disk' = disk
      BY <1>1, <1>20 DEF Commit
    <2>2. made' = [d \in Doc |-> made[d]]
      BY <1>1, <1>20
    <2>3. made' = made
      BY <1>4, <2>2
    <2>4. QED
      BY <1>1, <1>2, <1>7, <1>12, <1>18, <2>1, <2>3 DEF Commit
  <1>21. QED
    BY <1>19, <1>20

\* What empty_bin makes of the documents.
EmptiedDocs ==
    /\ \A x \in Place : IsNode(x)' <=> IsNode(x) /\ x \in DocPath
    /\ \A x \in DocPath : disk'[x] = disk[x]
    /\ \A x \in Place : IsBody(x)' => IsBody(x) /\ x \notin BinBodies
    /\ Shrinks
    /\ Bin' = << >>

\* What the emptied bin leaves of them.
LEMMA EmptiedNodes ==
    ASSUME Sound, disk[Root].hasBin, disk[BinIndex] # Absent, Emptied
    PROVE  EmptiedDocs
  <1> DEFINE gone == BinNodes \cup BinBodies
  <1>1. /\ gone \subseteq Place \ DocPath /\ BinIndex \notin gone /\ BinIndex \in Place
        /\ BinIndex \notin DocPath
        /\ \A x \in Place \ DocPath : IsNode(x) => x \in gone
    BY EmptyPlaces
  <1>2. /\ \A x \in gone : disk'[x] = Absent
        /\ \A x \in Place : x \notin gone /\ x # BinIndex => disk'[x] = disk[x]
    BY DEF Emptied
  <1>3. \A x \in gone : x \notin BinBodies \/ disk'[x] = Absent
    BY <1>2
  <1>4. Holds(BinIndex, "bin")' /\ disk'[BinIndex].records = << >>
    <2> DEFINE index == BinOf(<< >>)
    <2>1. << >> \in Seq(Record)
      OBVIOUS
    <2>2. index \in Index
      BY <2>1 DEF BinOf, Index
    <2>3. index.kind = "bin" /\ index.records = << >> /\ disk'[BinIndex] = index
      BY DEF BinOf, Emptied
    <2> HIDE DEF index
    <2>4. QED
      BY <2>2, <2>3, BinAssumption DEF Holds
  <1>5. Holds(BinIndex, "bin") /\ ~IsNode(BinIndex) /\ ~IsBody(BinIndex)
    BY <1>1 DEF Sound, Filed, Holds, IsNode, IsBody
  <1>6. \A x \in DocPath : disk'[x] = disk[x] /\ x \in Place
    BY <1>1, <1>2 DEF Place
  <1>7. \A x \in BinBodies : disk'[x] = Absent
    BY <1>2
  <1>8. \A x \in gone : ~Holds(x, "bin")
    BY <1>1 DEF Sound, Filed, Holds
  <1> HIDE DEF gone
  <1>9. \A x \in Place : IsNode(x)' <=> IsNode(x) /\ x \in DocPath
    BY <1>1, <1>2, <1>4, <1>5, <1>6 DEF IsNode, Holds
  <1>10. \A x \in Place : IsBody(x)' => IsBody(x) /\ x \notin BinBodies
    BY <1>2, <1>4, <1>7 DEF IsBody, Holds
  <1>11. \A x \in Place : Holds(x, "bin")' <=> Holds(x, "bin")
    BY <1>2, <1>4, <1>5, <1>8 DEF Holds
  <1>12. disk'[Root] = disk[Root]
    BY <1>6, BinAssumption
  <1>13. (Separated' <=> Separated) /\ Bin' = << >>
    BY <1>4, <1>12 DEF Separated, Bin
  <1>14. disk'[BinIndex] # Absent
    BY <1>4 DEF Holds
  <1>15. Shrinks
    BY <1>6, <1>9, <1>10, <1>11, <1>13, <1>14 DEF Shrinks
  <1>16. QED
    BY <1>6, <1>9, <1>10, <1>13, <1>15 DEF EmptiedDocs

\* What Sound says holds after empty_bin.
LEMMA EmptySound ==
    ASSUME Sound, disk[Root].hasBin, disk[BinIndex] # Absent, Emptied,
           staged' \in Seq(FileOp), made' \in [Doc -> Fate], spoilt' = spoilt
    PROVE  Sound'
  <1>1. EmptiedDocs
    BY EmptiedNodes
  <1>2. TypeOK'
    BY DEF Emptied, Text, Sound, TypeOK
  <1>3. Filed'
    BY <1>1, FiledShrinks DEF EmptiedDocs
  <1>4. Tree'
    <2>1. \A x \in DocPath : (IsNode(x)' <=> IsNode(x)) /\ disk'[x] = disk[x]
      BY <1>1 DEF EmptiedDocs, Place
    <2>2. Tree
      BY DEF Sound
    <2>3. QED
      BY <2>1, <2>2, TreeStays
  <1>5. Identified'
    <2>1. BinNodes \in SUBSET Place
      BY EmptyPlaces
    <2>2. \A x \in Place : x \in DocPath /\ IsNode(x) <=> IsNode(x) /\ x \notin BinNodes
      BY EmptyPlaces
    <2>3. \A d \in Doc : (\E x \in BinNodes : IsNode(x) /\ disk[x].doc = d)
                          <=> \E i \in DOMAIN Bin : Bin[i].doc = d
      <3>1. \A i \in DOMAIN Bin : IsNode(Bin[i].bin) /\ disk[Bin[i].bin].doc = Bin[i].doc
        BY RecordIs DEF Fits
      <3>2. QED
        BY <3>1 DEF BinNodes
    <2>4. Destroyed(BinNodes)
      BY <1>1, <2>2, <2>3 DEF EmptiedDocs, Shrinks, Emptied, Destroyed
    <2>5. QED
      BY <2>1, <2>4, NodesGone DEF Sound
  <1>6. Recorded'
    <2>1. DOMAIN Bin' = {}
      BY <1>1 DEF EmptiedDocs
    <2>2. \A x \in Place \ DocPath : ~IsNode(x)'
      BY <1>1 DEF EmptiedDocs
    <2>3. QED
      BY <2>1, <2>2 DEF Recorded
  <1>7. QED
    BY <1>2, <1>3, <1>4, <1>5, <1>6 DEF Sound

\* What Bodied says holds after empty_bin.
LEMMA EmptyBodied ==
    ASSUME Sound, Separated, Bodied, disk[Root].hasBin, disk[BinIndex] # Absent, Emptied
    PROVE  Bodied'
  <1>1. EmptiedDocs
    BY EmptiedNodes
  <1>2. \A x \in DocPath : x \in Place /\ disk'[x] = disk[x]
    BY <1>1 DEF EmptiedDocs, Place
  <1>3. ASSUME NEW x \in DocPath, IsNode(x)'
        PROVE  BodyOf(disk[x].body, disk[x].doc)'
    <2>1. IsNode(x) /\ disk'[x] = disk[x]
      BY <1>2, <1>3 DEF IsNode, Holds
    <2>2. PICK c : c = disk[x].body
      OBVIOUS
    <2>3. c \in DocPath
      BY <1>2, <2>1, <2>2, NodePlace, BinAssumption
    <2>4. IsBody(c) /\ disk[c].doc = disk[x].doc /\ disk'[c] = disk[c]
      BY <1>2, <2>1, <2>2, <2>3 DEF Bodied, BodyOf
    <2>5. QED
      BY <2>1, <2>2, <2>4 DEF BodyOf, IsBody, Holds
  <1>4. DOMAIN Bin' = {}
    BY <1>1 DEF EmptiedDocs
  <1>5. ASSUME NEW c \in DocPath, IsBody(c)'
        PROVE  IsNode(NodeOf[c])' /\ disk'[NodeOf[c]].body = c
    <2>1. IsBody(c)
      BY <1>2, <1>5 DEF IsBody, Holds
    <2>2. IsNode(NodeOf[c]) /\ disk[NodeOf[c]].body = c
      BY <2>1 DEF Bodied
    <2>3. c \in Prose
      BY <1>2, <2>1, Items, BinAssumption DEF Sound, Filed
    <2>4. NodeOf[c] \in DocPath
      BY <2>3, BinAssumption
    <2>5. QED
      BY <1>2, <2>2, <2>4 DEF IsNode, Holds
  <1>6. ASSUME NEW q \in Prose, IsBody(Item(q, 0))'
        PROVE  FALSE
    <2>1. Item(q, 0) \in Place
      BY Items, BinAssumption
    <2>2. IsBody(Item(q, 0)) /\ Item(q, 0) \notin BinBodies
      BY <1>1, <1>6, <2>1 DEF EmptiedDocs
    <2>3. PICK i \in DOMAIN Bin : Bin[i].text = q
      BY <2>2 DEF Bodied
    <2>4. q # None
      BY BinAssumption DEF Place
    <2>5. QED
      BY <2>2, <2>3, <2>4 DEF BinBodies
  <1>7. QED
    BY <1>3, <1>4, <1>5, <1>6 DEF Bodied

-----------------------------------------------------------------------------
(* The invariant.                                                          *)

\* Nothing but the staged set is new.
LEMMA SoundStays ==
    ASSUME Sound, disk' = disk, made' = made, spoilt' = spoilt, staged' \in Seq(FileOp)
    PROVE  Sound'
  <1>1. TypeOK'
    BY DEF Sound, TypeOK
  <1>2. Filed'
    BY DEF Sound, Filed, IsNode, IsBody, Holds, Separated
  <1>3. Tree'
    <2>1. Tree
      BY DEF Sound
    <2>2. \A x \in DocPath : IsNode(x)' <=> IsNode(x)
      BY DEF IsNode, Holds
    <2>3. QED
      BY <2>1, <2>2, TreeStays
  <1>4. Identified'
    BY DEF Sound, Identified, IsNode, Holds, Separated, Alive
  <1>5. Recorded'
    <2>1. Bin' = Bin /\ (Separated' <=> Separated)
      BY DEF Bin, Separated
    <2>2. \A x \in Place \ DocPath : IsNode(x)' => IsNode(x)
      BY DEF IsNode, Holds
    <2>3. QED
      BY <2>1, <2>2, RecordedStays
  <1>6. QED
    BY <1>1, <1>2, <1>3, <1>4, <1>5 DEF Sound

\* The same of the bodies.
LEMMA BodiedStays ==
    ASSUME Bodied, disk' = disk
    PROVE  Bodied'
  BY DEF Bodied, BodyOf, IsNode, IsBody, Holds, Bin

\* The invariant, of a workspace with no document astray.
LEMMA InvIs ==
    ASSUME Rooted
    PROVE  Inv <=> Sound /\ (Regular /\ Separated => Bodied)
  BY DEF Inv, Sound

\* A workspace of its root alone has it.
LEMMA InvInit ==
    ASSUME Init
    PROVE  Inv
  <1>1. PICK sep \in BOOLEAN :
          /\ sep => \E b \in Prose : NodeOf[b] = Root
          /\ disk = [p \in Place |->
                       IF p = Root THEN RootNode(sep)
                       ELSE IF sep /\ p = RootNode(sep).body
                            THEN [kind |-> "body", doc |-> 0] ELSE Absent]
          /\ made = [d \in Doc |-> IF d # 0 THEN "unmade"
                                   ELSE IF sep THEN "separated" ELSE "whole"]
    BY DEF Init
  <1>2. staged = << >> /\ spoilt = {}
    BY DEF Init
  <1> DEFINE r == RootNode(sep)
             b == r.body
             text == [kind |-> "body", doc |-> 0]
  <1>3. sep => b \in Prose /\ NodeOf[b] = Root
    <2>1. sep => b = CHOOSE x \in Prose : NodeOf[x] = Root
      BY DEF RootNode
    <2>2. QED
      BY <1>1, <2>1
  <1>4. ~sep => b = None
    BY DEF RootNode
  <1>5. /\ Root \in DocPath /\ Root \in Place /\ BinIndex \in Place /\ BinIndex # Root
        /\ None \notin DocPath /\ \A x \in DocPath : x \in Place /\ x # BinIndex
    BY BinAssumption DEF Place
  <1>6. sep => b \in DocPath /\ b # Root /\ b # BinIndex /\ b \in Place /\ b # None
    BY <1>3, <1>5, BinAssumption
  <1>7. 0 \in Doc
    BY BinAssumption DEF Doc
  <1>8. /\ r.kind = "node" /\ r.doc = 0 /\ r.up = None /\ r.down = {} /\ r.hasBin = FALSE
        /\ r \in Node /\ text \in Body /\ text.kind = "body" /\ text.doc = 0
    <2>1. b \in DocPath \cup {None}
      BY <1>4, <1>6
    <2>2. r = [kind |-> "node", doc |-> 0, up |-> None, down |-> {}, hasBin |-> FALSE,
               body |-> b]
      BY DEF RootNode
    <2> HIDE DEF b
    <2>3. QED
      BY <1>7, <2>1, <2>2 DEF Node, Body
  <1>9. r # Absent /\ text # Absent
    BY <1>8, BinAssumption
  <1> HIDE DEF r, text
  <1>10. /\ disk[Root] = r
         /\ sep => disk[b] = text
         /\ \A x \in Place : x # Root /\ (sep => x # b) => disk[x] = Absent
    BY <1>1, <1>5, <1>6 DEF r, text
  <1>11. \A x \in Place : IsNode(x) <=> x = Root
    BY <1>5, <1>6, <1>8, <1>9, <1>10 DEF IsNode, Holds
  <1>12. \A x \in Place : IsBody(x) <=> sep /\ x = b
    BY <1>5, <1>6, <1>8, <1>9, <1>10 DEF IsBody, Holds
  <1>13. \A x \in Place : ~Holds(x, "bin")
    BY <1>6, <1>8, <1>10 DEF Holds
  <1>14. (Separated <=> sep) /\ Bin = << >> /\ disk[BinIndex] = Absent
    BY <1>4, <1>5, <1>6, <1>8, <1>10 DEF Separated, Bin
  <1>15. TypeOK
    <2>1. disk \in [Place -> Node \cup Body \cup Index \cup {Absent}]
      BY <1>1, <1>8 DEF r, text
    <2>2. staged \in Seq(FileOp) /\ spoilt \subseteq Irregularity
      BY <1>2
    <2>3. made \in [Doc -> Fate]
      BY <1>1 DEF Fate
    <2>4. QED
      BY <2>1, <2>2, <2>3 DEF TypeOK
  <1>16. Filed
    <2>1. ASSUME NEW x \in Place, disk[x] # Absent
          PROVE  disk[x].kind = "bin" <=> x = BinIndex
      BY <1>13, <1>14, <2>1 DEF Holds
    <2>2. ASSUME NEW x \in Place, IsNode(x)
          PROVE  /\ disk[x].hasBin <=> x = Root /\ disk[BinIndex] # Absent
                 /\ Separated => disk[x].body \in Prose
                 /\ ~Separated => disk[x].body = None
                 /\ Separated /\ x \in DocPath => NodeOf[disk[x].body] = x
      BY <1>3, <1>4, <1>8, <1>10, <1>11, <1>14, <2>2
    <2>3. ASSUME NEW x \in Place, IsBody(x)
          PROVE  Separated /\ (x \in Prose \/ \E q \in Prose : x = Item(q, 0))
      BY <1>3, <1>12, <1>14, <2>3
    <2>4. QED
      BY <2>1, <2>2, <2>3 DEF Filed
  <1>17. Tree
    <2>1. IsNode(Root) /\ disk[Root].doc = 0 /\ disk[Root].up = None /\ disk[Root].down = {}
      BY <1>5, <1>8, <1>10, <1>11
    <2>2. \A p \in DocPath : IsNode(p) => p = Root
      BY <1>5, <1>11
    <2>3. Acyclic
      BY <2>2 DEF Acyclic
    <2>4. \A p, q \in DocPath : IsNode(q) =>
            (p \in disk[q].down <=> IsNode(p) /\ disk[p].up = q)
      BY <1>5, <2>1, <2>2
    <2>5. QED
      BY <2>1, <2>2, <2>3, <2>4 DEF Tree
  <1>18. Identified
    <2>1. \A d \in Doc : Alive(d) <=> d = 0
      BY <1>1 DEF Alive
    <2>2. made[0] = "separated" <=> sep
      BY <1>1, <1>7
    <2>3. QED
      BY <1>5, <1>8, <1>10, <1>11, <1>14, <2>1, <2>2 DEF Identified
  <1>19. Recorded
    BY <1>5, <1>11, <1>14 DEF Recorded
  <1>20. ASSUME Separated PROVE Bodied
    <2>1. \A p \in DocPath : IsNode(p) => BodyOf(disk[p].body, disk[p].doc)
      BY <1>5, <1>6, <1>8, <1>10, <1>11, <1>12, <1>14, <1>20 DEF BodyOf
    <2>2. \A c \in DocPath : IsBody(c) => IsNode(NodeOf[c]) /\ disk[NodeOf[c]].body = c
      BY <1>3, <1>5, <1>10, <1>11, <1>12
    <2>3. \A q \in Prose : ~IsBody(Item(q, 0))
      <3> TAKE q \in Prose
      <3>1. Item(q, 0) \in Place \ DocPath
        BY Items, BinAssumption
      <3>2. QED
        BY <1>6, <1>12, <3>1
    <2>4. QED
      BY <1>14, <2>1, <2>2, <2>3 DEF Bodied
  <1>21. QED
    BY <1>15, <1>16, <1>17, <1>18, <1>19, <1>20 DEF Inv

\* What a step does that leaves the workspace rooted, from the invariant.
LEMMA InvHas ==
    ASSUME Inv, Rooted
    PROVE  Sound /\ (Regular /\ Separated => Bodied)
  BY InvIs

\* The invariant after a step that keeps the workspace's shape.
LEMMA InvAfter ==
    ASSUME Sound', Rooted',
           (Separated' <=> Separated), spoilt \subseteq spoilt',
           Regular' /\ Regular /\ Separated => Bodied'
    PROVE  Inv'
  <1>1. Regular' => Regular
    BY DEF Regular
  <1>2. Regular' /\ Separated' => Bodied'
    BY <1>1
  <1>3. QED
    BY <1>2 DEF Inv, Sound

\* create keeps the invariant.
LEMMA CreateKeeps ==
    ASSUME Inv, NEW p \in Prose, NEW q \in DocPath, Create(p, q), Rooted'
    PROVE  Inv'
  <1>1. spoilt' = spoilt /\ Rooted
    BY DEF Create, Rooted
  <1>2. Sound /\ (Regular /\ Separated => Bodied)
    BY <1>1, InvHas
  <1>3. PICK d \in Fresh, n \in DocPath : Created(p, q, n, d) /\ IsNode(q)
    BY <1>2, CreateIs
  <1>4. Sound'
    BY <1>1, <1>2, <1>3, CreateSound
  <1>5. Separated' <=> Separated
    BY <1>2, <1>3, CreatedNodes DEF CreatedDocs
  <1>6. Regular' /\ Regular /\ Separated => Bodied'
    BY <1>2, <1>3, CreateBodied
  <1>7. QED
    BY <1>1, <1>4, <1>5, <1>6, InvAfter

\* delete keeps the invariant.
LEMMA DeleteKeeps ==
    ASSUME Inv, NEW p \in DocPath, Delete(p), Rooted'
    PROVE  Inv'
  <1>1. spoilt \subseteq spoilt' /\ Rooted
    BY DEF Delete, Spoil, Rooted
  <1>2. Sound /\ (Regular /\ Separated => Bodied)
    BY <1>1, InvHas
  <1>3. IsNode(p) /\ p # Root /\ disk[p].down = {} /\ Deleted(p)
    BY <1>2, DeleteIs
  <1>4. spoilt' \subseteq Irregularity
    BY <1>2, <1>3 DEF Delete, Spoil, Sound, TypeOK
  <1>5. Sound'
    BY <1>2, <1>3, <1>4, DeleteSound
  <1>6. Separated' <=> Separated
    BY <1>2, <1>3, DeletedNodes DEF DeletedDocs
  <1>7. Regular' /\ Regular /\ Separated => Bodied'
    BY <1>2, <1>3, DeleteBodied
  <1>8. QED
    BY <1>1, <1>5, <1>6, <1>7, InvAfter

\* recycle keeps the invariant.
LEMMA RecycleKeeps ==
    ASSUME Inv, NEW p \in DocPath, Recycle(p), Rooted'
    PROVE  Inv'
  <1>1. spoilt \subseteq spoilt' /\ Rooted
    BY DEF Recycle, Rooted
  <1>2. Sound /\ (Regular /\ Separated => Bodied)
    BY <1>1, InvHas
  <1>3. /\ IsNode(p) /\ p # Root /\ disk[p].down = {}
        /\ spoilt' \subseteq spoilt \cup {"overlaid"}
        /\ HasBody(p) /\ disk[Item(disk[p].body, 0)] # Absent => "overlaid" \in spoilt'
    BY <1>2, RecycleCommits
  <1>4. PICK bin \in Place : Recycled(p, bin) /\ RecycleStages(p, bin)
    BY <1>2, RecycleIs
  <1>5. spoilt' \subseteq Irregularity
    BY <1>2, <1>3 DEF Sound, TypeOK, Irregularity
  <1>6. Sound'
    BY <1>2, <1>3, <1>4, <1>5, RecycleSound
  <1>7. Separated' <=> Separated
    BY <1>2, <1>3, <1>4, RecycledNodes DEF RecycledDocs
  <1>8. ASSUME Regular', Regular, Separated
        PROVE  Bodied'
    <2>1. HasBody(p) => disk[Item(disk[p].body, 0)] = Absent
      BY <1>3, <1>8 DEF Regular
    <2>2. QED
      BY <1>2, <1>3, <1>4, <1>8, <2>1, RecycleBodied
  <1>9. QED
    BY <1>1, <1>6, <1>7, <1>8, InvAfter

\* restore keeps the invariant.
LEMMA RestoreKeeps ==
    ASSUME Inv, NEW p \in DocPath, Restore(p), Rooted'
    PROVE  Inv'
  <1>1. Rooted
    BY DEF Restore, Spoil, Rooted
  <1>2. Sound /\ (Regular /\ Separated => Bodied)
    BY <1>1, InvHas
  <1>3. made' = made /\ spoilt' = spoilt
    BY <1>2, RestoreCommits
  <1>4. PICK i \in DOMAIN Bin :
             /\ disk[Bin[i].parent] # Absent
             /\ RestoreStages(p, i)
             /\ Restored(p, i) \/ disk' = disk
    BY <1>2, RestoreIs
  <1>5. staged' \in Seq(FileOp)
    BY <1>4 DEF RestoreStages
  <1>6. CASE Restored(p, i)
    <2>1. Sound'
      BY <1>2, <1>3, <1>4, <1>6, RestoreSound
    <2>2. Separated' <=> Separated
      BY <1>2, <1>4, <1>6, RestoredNodes DEF RestoredDocs
    <2>3. Regular' /\ Regular /\ Separated => Bodied'
      BY <1>2, <1>4, <1>6, RestoreBodied
    <2>4. QED
      BY <1>3, <2>1, <2>2, <2>3, InvAfter
  <1>7. CASE disk' = disk
    <2>1. Sound'
      BY <1>2, <1>3, <1>5, <1>7, SoundStays
    <2>2. Separated' <=> Separated
      BY <1>7 DEF Separated
    <2>3. Regular' /\ Regular /\ Separated => Bodied'
      BY <1>2, <1>7, BodiedStays
    <2>4. QED
      BY <1>3, <2>1, <2>2, <2>3, InvAfter
  <1>8. QED
    BY <1>4, <1>6, <1>7

\* empty_bin keeps the invariant.
LEMMA EmptyKeeps ==
    ASSUME Inv, EmptyBin, Rooted'
    PROVE  Inv'
  <1>1. spoilt' = spoilt /\ Rooted
    BY DEF EmptyBin, Rooted
  <1>2. Sound /\ (Regular /\ Separated => Bodied)
    BY <1>1, InvHas
  <1>3. /\ disk[Root].hasBin /\ disk[BinIndex] # Absent
        /\ staged' \in Seq(FileOp) /\ made' \in [Doc -> Fate]
        /\ Emptied \/ (disk' = disk /\ made' = made)
    BY <1>2, EmptyIs
  <1>4. CASE Emptied
    <2>1. Sound'
      BY <1>1, <1>2, <1>3, <1>4, EmptySound
    <2>2. Separated' <=> Separated
      BY <1>2, <1>3, <1>4, EmptiedNodes DEF EmptiedDocs, Shrinks
    <2>3. Regular' /\ Regular /\ Separated => Bodied'
      BY <1>2, <1>3, <1>4, EmptyBodied
    <2>4. QED
      BY <1>1, <2>1, <2>2, <2>3, InvAfter
  <1>5. CASE disk' = disk /\ made' = made
    <2>1. Sound'
      BY <1>1, <1>2, <1>3, <1>5, SoundStays
    <2>2. Separated' <=> Separated
      BY <1>5 DEF Separated
    <2>3. Regular' /\ Regular /\ Separated => Bodied'
      BY <1>2, <1>5, BodiedStays
    <2>4. QED
      BY <1>1, <2>1, <2>2, <2>3, InvAfter
  <1>6. QED
    BY <1>3, <1>4, <1>5

\* Nothing happens.
LEMMA StutterKeeps ==
    ASSUME Inv, UNCHANGED vars, Rooted'
    PROVE  Inv'
  <1>1. /\ disk' = disk /\ made' = made /\ spoilt' = spoilt /\ staged' = staged
        /\ Rooted
    BY DEF vars, Rooted
  <1>2. Sound /\ (Regular /\ Separated => Bodied)
    BY <1>1, InvHas
  <1>3. staged' \in Seq(FileOp)
    BY <1>1, <1>2 DEF Sound, TypeOK
  <1>4. Sound'
    BY <1>1, <1>2, <1>3, SoundStays
  <1>5. Separated' <=> Separated
    BY <1>1 DEF Separated
  <1>6. Regular' /\ Regular /\ Separated => Bodied'
    BY <1>1, <1>2, BodiedStays
  <1>7. QED
    BY <1>1, <1>4, <1>5, <1>6, InvAfter

\* Every step keeps the invariant.
LEMMA InvStep ==
    ASSUME Inv, [Next]_vars
    PROVE  Inv'
  <1>1. CASE ~Rooted'
    BY <1>1 DEF Inv
  <1>2. CASE Rooted'
    <2>1. ASSUME NEW p \in Prose, NEW q \in DocPath, Create(p, q) PROVE Inv'
      BY <1>2, <2>1, CreateKeeps
    <2>2. ASSUME NEW p \in DocPath, Stray(p) PROVE Inv'
      BY <1>2, <2>2 DEF Stray, Spoil, Rooted
    <2>3. ASSUME NEW p \in DocPath, Delete(p) PROVE Inv'
      BY <1>2, <2>3, DeleteKeeps
    <2>4. ASSUME NEW p \in DocPath, Recycle(p) PROVE Inv'
      BY <1>2, <2>4, RecycleKeeps
    <2>5. ASSUME NEW p \in DocPath, Restore(p) PROVE Inv'
      BY <1>2, <2>5, RestoreKeeps
    <2>6. CASE EmptyBin
      BY <1>2, <2>6, EmptyKeeps
    <2>7. CASE UNCHANGED vars
      BY <1>2, <2>7, StutterKeeps
    <2>8. QED
      BY <2>1, <2>2, <2>3, <2>4, <2>5, <2>6, <2>7 DEF Next
  <1>3. QED
    BY <1>1, <1>2

\* The invariant holds always.
THEOREM Invariance == Spec => []Inv
  <1>1. Init => Inv
    BY InvInit
  <1>2. Inv /\ [Next]_vars => Inv'
    BY InvStep
  <1>3. QED
    BY <1>1, <1>2, PTL DEF Spec

-----------------------------------------------------------------------------
(* What follows from the invariant.                                        *)

\* While no document is astray, the files are of the types the model gives them.
THEOREM TypesWhileRooted == Spec => [](Rooted => TypeOK)
  <1>1. Inv => (Rooted => TypeOK)
    BY DEF Inv
  <1>2. QED
    BY <1>1, Invariance, PTL

\* The documents that are left have a place each.
LEMMA PlacesOf ==
    ASSUME Sound, NEW d \in Doc
    PROVE  /\ \A p \in Place : IsNode(p) /\ disk[p].doc = d => NodePlaces(d) = {p}
           /\ Cardinality(NodePlaces(d)) = IF Alive(d) THEN 1 ELSE 0
  <1>1. ASSUME NEW p \in Place, IsNode(p), disk[p].doc = d
        PROVE  NodePlaces(d) = {p}
    BY <1>1 DEF Sound, Identified, NodePlaces
  <1>2. CASE Alive(d)
    <2>1. PICK p \in Place : IsNode(p) /\ disk[p].doc = d
      BY <1>2 DEF Sound, Identified
    <2>2. Cardinality(NodePlaces(d)) = 1
      BY <1>1, <2>1, FS_Singleton
    <2>3. QED
      BY <1>1, <1>2, <2>2
  <1>3. CASE ~Alive(d)
    <2>1. NodePlaces(d) = {}
      BY <1>3 DEF Sound, Identified, NodePlaces
    <2>2. Cardinality(NodePlaces(d)) = 0
      BY <2>1, FS_EmptySet
    <2>3. QED
      BY <1>1, <1>3, <2>2
  <1>4. QED
    BY <1>2, <1>3

\* A document that was not destroyed is in one place, one that was in none.
THEOREM OneNodeAlways == Spec => []OneNodeEach
  <1>1. Inv => OneNodeEach
    BY InvHas, PlacesOf DEF OneNodeEach
  <1>2. QED
    BY <1>1, Invariance, PTL

\* The records of the bin are its contents.
THEOREM BinAlwaysAccurate == Spec => []BinAccurate
  <1>1. ASSUME Inv, Rooted
        PROVE  /\ \A i \in DOMAIN Bin : NodePlaces(Bin[i].doc) = {Bin[i].bin}
               /\ \A p \in Place \ DocPath :
                    IsNode(p) => \E i \in DOMAIN Bin : Bin[i].bin = p
               /\ \A i, j \in DOMAIN Bin : Bin[i].bin = Bin[j].bin => i = j
    <2>1. Sound
      BY <1>1, InvHas
    <2>2. ASSUME NEW i \in DOMAIN Bin
          PROVE  NodePlaces(Bin[i].doc) = {Bin[i].bin}
      <3>1. /\ Bin[i].bin \in Place /\ IsNode(Bin[i].bin)
            /\ disk[Bin[i].bin].doc = Bin[i].doc /\ Bin[i].doc \in Doc
        BY <2>1, RecordIs DEF Fits
      <3>2. QED
        BY <2>1, <3>1, PlacesOf
    <2>3. QED
      BY <2>1, <2>2 DEF Sound, Recorded
  <1>2. Inv => BinAccurate
    BY <1>1 DEF BinAccurate
  <1>3. QED
    BY <1>2, Invariance, PTL

\* Contents and part_of agree.
THEOREM ContentsAlwaysMutual == Spec => []ContentsMutual
  <1>1. Inv => ContentsMutual
    BY DEF Inv, ContentsMutual, Tree
  <1>2. QED
    BY <1>1, Invariance, PTL

\* The node a body belongs to, and where that has it.
LEMMA BodyOwner ==
    ASSUME Sound, Separated, Bodied, NEW x \in Place, IsBody(x)
    PROVE  \E p \in Place :
             /\ IsNode(p) /\ disk[p].doc = disk[x].doc
             /\ \/ p \in DocPath /\ x = disk[p].body
                \/ p \notin DocPath /\ \E i \in DOMAIN Bin :
                                         Bin[i].bin = p /\ x = Item(Bin[i].text, 0)
  <1>1. x \in Prose \/ \E q \in Prose : x = Item(q, 0)
    BY DEF Sound, Filed
  <1>2. CASE x \in Prose
    <2>1. x \in DocPath /\ NodeOf[x] \in DocPath /\ NodeOf[x] \in Place
      BY <1>2, BinAssumption DEF Place
    <2>2. IsNode(NodeOf[x]) /\ disk[NodeOf[x]].body = x
      BY <2>1 DEF Bodied
    <2>3. disk[x].doc = disk[NodeOf[x]].doc
      BY <2>1, <2>2 DEF Bodied, BodyOf
    <2>4. QED
      BY <2>1, <2>2, <2>3
  <1>3. CASE \E q \in Prose : x = Item(q, 0)
    <2>1. PICK i \in DOMAIN Bin : x = Item(Bin[i].text, 0)
      BY <1>3 DEF Bodied
    <2>2. disk[x].doc = Bin[i].doc
      BY <2>1 DEF Bodied, BodyOf
    <2>3. /\ Bin[i].bin \in Place \ DocPath /\ IsNode(Bin[i].bin)
          /\ disk[Bin[i].bin].doc = Bin[i].doc
      BY RecordIs DEF Fits
    <2>4. QED
      BY <2>1, <2>2, <2>3
  <1>4. QED
    BY <1>1, <1>2, <1>3

\* Separated, a document has one body, at the place its node or its record says.
LEMMA BodiesOf ==
    ASSUME Sound, Separated, Bodied, NEW d \in Doc
    PROVE  /\ \A p \in DocPath : IsNode(p) /\ disk[p].doc = d => BodyPlaces(d) = {disk[p].body}
           /\ Cardinality(BodyPlaces(d)) = IF made[d] = "separated" THEN 1 ELSE 0
  <1>1. ASSUME NEW p \in DocPath, IsNode(p), disk[p].doc = d
        PROVE  BodyPlaces(d) = {disk[p].body}
    <2>1. p \in Place
      BY DEF Place
    <2>2. disk[p].body \in Place /\ IsBody(disk[p].body) /\ disk[disk[p].body].doc = d
      <3>1. disk[p].body \in DocPath
        BY <1>1, <2>1, NodePlace, BinAssumption
      <3>2. QED
        BY <1>1, <3>1 DEF Bodied, BodyOf, Place
    <2>3. ASSUME NEW x \in Place, IsBody(x), disk[x].doc = d
          PROVE  x = disk[p].body
      <3>1. PICK n \in Place :
              /\ IsNode(n) /\ disk[n].doc = d
              /\ n \in DocPath => x = disk[n].body
        BY <2>3, BodyOwner
      <3>2. n = p
        BY <1>1, <2>1, <3>1 DEF Sound, Identified
      <3>3. QED
        BY <3>1, <3>2
    <2>4. QED
      BY <2>2, <2>3 DEF BodyPlaces
  <1>2. ASSUME NEW i \in DOMAIN Bin, Bin[i].doc = d
        PROVE  BodyPlaces(d) = {Item(Bin[i].text, 0)}
    <2>1. /\ Bin[i].bin \in Place \ DocPath /\ IsNode(Bin[i].bin) /\ disk[Bin[i].bin].doc = d
          /\ Item(Bin[i].text, 0) \in Place
          /\ IsBody(Item(Bin[i].text, 0)) /\ disk[Item(Bin[i].text, 0)].doc = d
      BY <1>2, RecordIs, Items, BinAssumption DEF Bodied, BodyOf, Fits
    <2>2. ASSUME NEW x \in Place, IsBody(x), disk[x].doc = d
          PROVE  x = Item(Bin[i].text, 0)
      <3>1. PICK n \in Place :
              /\ IsNode(n) /\ disk[n].doc = d
              /\ n \notin DocPath => \E j \in DOMAIN Bin :
                                       Bin[j].bin = n /\ x = Item(Bin[j].text, 0)
        BY <2>2, BodyOwner
      <3>2. n = Bin[i].bin
        BY <2>1, <3>1 DEF Sound, Identified
      <3>3. PICK j \in DOMAIN Bin : Bin[j].bin = Bin[i].bin /\ x = Item(Bin[j].text, 0)
        BY <2>1, <3>1, <3>2
      <3>4. j = i
        BY <3>3 DEF Sound, Recorded
      <3>5. QED
        BY <3>3, <3>4
    <2>3. QED
      BY <2>1, <2>2 DEF BodyPlaces
  <1>3. CASE made[d] = "separated"
    <2>1. PICK p \in Place : IsNode(p) /\ disk[p].doc = d
      BY <1>3 DEF Sound, Identified, Alive
    <2>2. \E x : BodyPlaces(d) = {x}
      <3>1. CASE p \in DocPath
        BY <1>1, <2>1, <3>1
      <3>2. CASE p \notin DocPath
        <4>1. PICK i \in DOMAIN Bin : Bin[i].bin = p /\ Bin[i].doc = d
          BY <2>1, <3>2, InBin DEF Fits
        <4>2. QED
          BY <1>2, <4>1
      <3>3. QED
        BY <3>1, <3>2
    <2>3. Cardinality(BodyPlaces(d)) = 1
      BY <2>2, FS_Singleton
    <2>4. QED
      BY <1>1, <1>3, <2>3
  <1>4. CASE made[d] # "separated"
    <2>1. ASSUME NEW x \in Place, IsBody(x), disk[x].doc = d
          PROVE  FALSE
      <3>1. PICK n \in Place : IsNode(n) /\ disk[n].doc = d
        BY <2>1, BodyOwner
      <3>2. Alive(d)
        BY <3>1 DEF Sound, Identified
      <3>3. QED
        BY <1>4, <3>2 DEF Sound, Identified
    <2>2. BodyPlaces(d) = {}
      BY <2>1 DEF BodyPlaces
    <2>3. Cardinality(BodyPlaces(d)) = 0
      BY <2>2, FS_EmptySet
    <2>4. QED
      BY <1>1, <1>4, <2>3
  <1>5. QED
    BY <1>3, <1>4

\* While nothing irregular has happened every separated document that was not
\* destroyed has its body in one place, and outside the bin beside its node.
THEOREM BodiesAlwaysKept == Spec => []RegularBodiesKept
  <1>1. ASSUME Inv, Regular
        PROVE  /\ BodiesKept
               /\ \A p \in DocPath : IsNode(p) /\ disk[p].body # None =>
                      BodyPlaces(disk[p].doc) = {disk[p].body}
    <2>1. Sound /\ (Separated => Bodied)
      <3>1. Rooted
        BY <1>1 DEF Regular, Rooted
      <3>2. QED
        BY <1>1, <3>1, InvHas
    <2>2. ASSUME NEW p \in DocPath
          PROVE  p \in Place /\ (IsNode(p) => disk[p].doc \in Doc)
      <3>1. p \in Place
        BY DEF Place
      <3>2. IsNode(p) => disk[p] \in Node
        BY <2>1, <3>1, Kinds DEF Sound
      <3>3. QED
        BY <3>1, <3>2 DEF Node
    <2>3. CASE Separated
      BY <2>1, <2>2, <2>3, BodiesOf DEF BodiesKept
    <2>4. CASE ~Separated
      <3>1. \A x \in Place : ~IsBody(x)
        BY <2>1, <2>4 DEF Sound, Filed
      <3>2. \A d \in Doc : BodyPlaces(d) = {}
        BY <3>1 DEF BodyPlaces
      <3>3. \A d \in Doc : made[d] # "separated"
        BY <2>1, <2>4 DEF Sound, Identified, Alive
      <3>4. BodiesKept
        BY <3>2, <3>3, FS_EmptySet DEF BodiesKept
      <3>5. \A p \in DocPath : IsNode(p) => disk[p].body = None
        BY <2>1, <2>2, <2>4, NodePlace
      <3>6. QED
        BY <3>4, <3>5
    <2>5. QED
      BY <2>3, <2>4
  <1>2. Inv => RegularBodiesKept
    BY <1>1 DEF RegularBodiesKept
  <1>3. QED
    BY <1>2, Invariance, PTL

\* What became of record i in a step.
Kept(i) ==
    \/ \E j \in DOMAIN Bin' : Bin'[j] = Bin[i]
    \/ disk'[Bin[i].from] = disk[Bin[i].bin]
    \/ made'[Bin[i].doc] = "destroyed"

\* Restore takes out the record of the document it puts back, and no other.
LEMMA RestoreKept ==
    ASSUME Sound, NEW p \in DocPath, Restore(p), Rooted', NEW k \in DOMAIN Bin
    PROVE  Kept(k)
  <1>1. PICK i \in DOMAIN Bin :
          /\ disk[Bin[i].from] = Absent /\ Bin[i].from = p /\ disk[Bin[i].parent] # Absent
          /\ Restored(p, i) \/ disk' = disk
    BY RestoreIs
  <1>2. CASE disk' = disk
    BY <1>2 DEF Kept, Bin
  <1>3. CASE Restored(p, i)
    <2>1. CASE k = i
      BY <1>1, <1>3, <2>1 DEF Kept, Restored
    <2>2. CASE k # i
      <3>1. PICK rec : rec = Bin[i]
        OBVIOUS
      <3>2. RestoredDocs(p, i, rec.bin, rec.parent, rec.text)
        BY <1>1, <1>3, <3>1, RestoredNodes
      <3>3. Bin' = Seqs!RemoveAt(Bin, i)
        BY <3>2 DEF RestoredDocs
      <3>4. PICK n \in Int :
              /\ DOMAIN Bin' = 1..n
              /\ \A j \in 1..n : Bin'[j] = Bin[Was(i, j)] /\ Was(i, j) \in DOMAIN Bin \ {i}
              /\ \A m \in DOMAIN Bin \ {i} : \E j \in 1..n : Was(i, j) = m
        BY <3>3, RecordsLeft
      <3>5. PICK j \in 1..n : Was(i, j) = k
        BY <2>2, <3>4
      <3>6. j \in DOMAIN Bin' /\ Bin'[j] = Bin[k]
        BY <3>4, <3>5
      <3>7. QED
        BY <3>6 DEF Kept
    <2>3. QED
      BY <2>1, <2>2
  <1>4. QED
    BY <1>1, <1>2, <1>3

\* Every step keeps the records of what it does not restore or purge.
LEMMA RecordsStep ==
    ASSUME Inv, [Next]_vars, Rooted', NEW i \in DOMAIN Bin
    PROVE  Kept(i)
  <1>1. Rooted
    BY DEF Next, vars, Rooted, Create, Stray, Delete, Recycle, Restore, EmptyBin, Spoil
  <1>2. Sound
    BY <1>1, InvHas
  <1>3. ASSUME Bin' = Bin PROVE Kept(i)
    BY <1>3 DEF Kept
  <1>4. ASSUME NEW p \in Prose, NEW q \in DocPath, Create(p, q) PROVE Kept(i)
    <2>1. PICK d \in Fresh, n \in DocPath : Created(p, q, n, d) /\ IsNode(q)
      BY <1>2, <1>4, CreateIs
    <2>2. QED
      BY <1>2, <1>3, <2>1, CreatedNodes DEF CreatedDocs
  <1>5. ASSUME NEW p \in DocPath, Stray(p) PROVE Kept(i)
    BY <1>5 DEF Stray, Spoil, Rooted
  <1>6. ASSUME NEW p \in DocPath, Delete(p) PROVE Kept(i)
    <2>1. IsNode(p) /\ p # Root /\ Deleted(p)
      BY <1>2, <1>6, DeleteIs
    <2>2. QED
      BY <1>2, <1>3, <2>1, DeletedNodes DEF DeletedDocs
  <1>7. ASSUME NEW p \in DocPath, Recycle(p) PROVE Kept(i)
    <2>1. IsNode(p) /\ p # Root
      BY <1>2, <1>7, RecycleCommits
    <2>2. PICK bin \in Place : Recycled(p, bin)
      BY <1>2, <1>7, RecycleIs
    <2>3. Bin' = Append(Bin, NewRecord(p, bin))
      BY <1>2, <2>1, <2>2, RecycledNodes DEF RecycledDocs
    <2>4. Bin \in Seq(Record) /\ NewRecord(p, bin) \in Record
      BY <1>2, <2>1, <2>2, RecycleTexts, BinIs DEF Recycled
    <2>5. i \in DOMAIN Bin' /\ Bin'[i] = Bin[i]
      BY <2>3, <2>4, AppendIs
    <2>6. QED
      BY <2>5 DEF Kept
  <1>8. ASSUME NEW p \in DocPath, Restore(p) PROVE Kept(i)
    BY <1>2, <1>8, RestoreKept
  <1>9. CASE EmptyBin
    <2>1. Emptied \/ disk' = disk
      BY <1>2, <1>9, EmptyIs
    <2>2. CASE Emptied
      BY <1>2, <2>2, RecordIs DEF Kept, Emptied
    <2>3. CASE disk' = disk
      BY <1>3, <2>3 DEF Bin
    <2>4. QED
      BY <2>1, <2>2, <2>3
  <1>10. CASE UNCHANGED vars
    BY <1>3, <1>10 DEF vars, Bin
  <1>11. QED
    BY <1>4, <1>5, <1>6, <1>7, <1>8, <1>9, <1>10 DEF Next

\* A record leaves the bin only with its document, restored or purged, while
\* every document is under the root.
THEOREM RecordsAlwaysKept == Spec => RootedRecordsKept
  <1>1. Inv /\ [Next]_vars =>
          [Rooted' =>
             \A i \in DOMAIN Bin :
               \/ \E j \in DOMAIN Bin' : Bin'[j] = Bin[i]
               \/ disk'[Bin[i].from] = disk[Bin[i].bin]
               \/ made'[Bin[i].doc] = "destroyed"]_vars
    BY RecordsStep DEF Kept
  <1>2. QED
    BY <1>1, Invariance, PTL DEF Spec, RootedRecordsKept

-----------------------------------------------------------------------------
(* What is committed.                                                      *)

\* The moves of a set, told from its ops.
LEMMA MovesOf ==
    ASSUME NEW s, NEW d,
           \A op \in Ops(s) : IsRename(op) => d[op.from] # Absent /\ d[op.to] = Absent
    PROVE  SourcesExist(s, d) /\ DestinationsFree(s, d)
  BY DEF Ops, SourcesExist, DestinationsFree

\* What a set committed in a step is like.
Disciplined ==
    /\ ReplaySafe(staged')
    /\ SourcesExist(staged', disk)
    /\ DestinationsFree(staged', disk)

\* Recycle moves what is there to where nothing is, or spoils the bin.
LEMMA RecycleDisciplined ==
    ASSUME Sound, NEW p \in DocPath, Recycle(p), spoilt' = {}
    PROVE  Disciplined
  <1>1. Rooted'
    BY DEF Rooted
  <1>2. HasBody(p) => disk[Item(disk[p].body, 0)] = Absent
    BY <1>1, RecycleCommits
  <1>3. PICK bin \in Place : RecycleStages(p, bin)
    BY <1>1, RecycleIs
  <1>4. /\ ReplaySafe(staged')
        /\ \A op \in Ops(staged') : IsRename(op) => disk[op.from] # Absent /\ disk[op.to] = Absent
    BY <1>2, <1>3 DEF RecycleStages
  <1>5. QED
    BY <1>4, MovesOf DEF Disciplined

\* Restore moves a document back with its body, which is in the bin.
LEMMA RestoreDisciplined ==
    ASSUME Sound, Separated => Bodied, NEW p \in DocPath, Restore(p), Rooted'
    PROVE  Disciplined
  <1>1. PICK i \in DOMAIN Bin : disk[Bin[i].from] = Absent /\ RestoreStages(p, i)
    BY RestoreIs
  <1>2. PICK rec : rec = Bin[i]
    OBVIOUS
  <1>3. ASSUME rec.text # None
        PROVE  disk[Item(rec.text, 0)] # Absent /\ disk[rec.text] = Absent
    <2>1. Fits(rec) /\ rec.bin \in Place
      BY <1>2, RecordIs
    <2>2. Separated
      BY <1>3, <2>1, NodePlace DEF Fits
    <2>3. QED
      BY <1>1, <1>2, <2>2, BodyWaits
  <1>4. /\ ReplaySafe(staged')
        /\ \A op \in Ops(staged') : IsRename(op) => disk[op.from] # Absent /\ disk[op.to] = Absent
    BY <1>1, <1>2, <1>3 DEF RestoreStages
  <1>5. QED
    BY <1>4, MovesOf DEF Disciplined

\* Every step that commits a set, in a workspace where nothing irregular has happened.
LEMMA StagedStep ==
    ASSUME Inv, Next, spoilt' = {}
    PROVE  Disciplined
  <1>1. Rooted /\ Rooted' /\ Regular
    BY DEF Next, Rooted, Regular, Create, Stray, Delete, Recycle, Restore, EmptyBin, Spoil
  <1>2. Sound /\ (Separated => Bodied)
    BY <1>1, InvHas
  <1>3. ASSUME \A op \in Ops(staged') : ~IsRename(op) PROVE Disciplined
    BY <1>3, NoMoves DEF Disciplined
  <1>4. ASSUME NEW p \in Prose, NEW q \in DocPath, Create(p, q) PROVE Disciplined
    BY <1>2, <1>3, <1>4, CreateIs DEF Created
  <1>5. ASSUME NEW p \in DocPath, Stray(p) PROVE Disciplined
    BY <1>5 DEF Stray, Spoil
  <1>6. ASSUME NEW p \in DocPath, Delete(p) PROVE Disciplined
    BY <1>1, <1>2, <1>3, <1>6, DeleteIs DEF Deleted
  <1>7. ASSUME NEW p \in DocPath, Recycle(p) PROVE Disciplined
    BY <1>2, <1>7, RecycleDisciplined
  <1>8. ASSUME NEW p \in DocPath, Restore(p) PROVE Disciplined
    BY <1>1, <1>2, <1>8, RestoreDisciplined
  <1>9. CASE EmptyBin
    BY <1>2, <1>3, <1>9, EmptyIs
  <1>10. QED
    BY <1>4, <1>5, <1>6, <1>7, <1>8, <1>9 DEF Next

\* Every set the operations commit may be replayed and moves files that are
\* there to where none is, while nothing irregular has happened.
THEOREM StagedAlwaysDisciplined == Spec => StagedDisciplined
  <1>1. Inv /\ [Next]_vars =>
          [spoilt' = {} =>
             /\ ReplaySafe(staged')
             /\ SourcesExist(staged', disk)
             /\ DestinationsFree(staged', disk)]_vars
    BY StagedStep DEF Disciplined
  <1>2. QED
    BY <1>1, Invariance, PTL DEF Spec, StagedDisciplined

=============================================================================
