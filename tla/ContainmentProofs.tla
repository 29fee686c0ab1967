------------------------- MODULE ContainmentProofs -------------------------
(***************************************************************************)
(* What the mutations of Containment keep, for all paths, documents,       *)
(* styles and titles: the pieces of each document together, and every set  *)
(* committed one that can be carried out from any point.  The invariant    *)
(* (Pieces) says of each file which document it is part of and where the   *)
(* other file of that document is.  A mutation is a head, which takes a    *)
(* document out of the workspace and puts one into it, and a tail, which   *)
(* writes files anew that are there (Keeps); what the tail does to links   *)
(* changes nothing of the pieces, so that each mutation is shown by what   *)
(* its head does.                                                          *)
(***************************************************************************)
EXTENDS Containment, FiniteSetTheorems, FunctionTheorems, SequenceTheorems,
        WellFoundedInduction, TLAPS

-----------------------------------------------------------------------------
(* Carrying out a set.                                                     *)

\* Numbers have a least one.
LEMMA Least ==
    ASSUME NEW S, S \subseteq Nat, S # {}
    PROVE  \E m \in S : \A k \in S : m <= k
  <1> DEFINE R == {ss \in Nat \X Nat : ss[1] < ss[2]}
  <1>1. IsWellFoundedOn(R, Nat)
    BY NatLessThanWellFounded DEF OpToRel
  <1>2. PICK m \in S : \A k \in S : ~(<<k, m>> \in R)
    BY <1>1, WFMin
  <1>3. \A k \in S : ~(k < m)
    BY <1>2
  <1>4. QED
    BY <1>3

\* S holds every number up to n, if it holds 0 and with each the next.
LEMMA Upto ==
    ASSUME NEW n \in Nat, NEW S, 0 \in S, \A k \in 1..n : k - 1 \in S => k \in S
    PROVE  \A k \in 0..n : k \in S
  <1> DEFINE T == {k \in 0..n : k \notin S}
  <1>1. SUFFICES ASSUME T # {} PROVE FALSE
    OBVIOUS
  <1>2. T \subseteq Nat
    OBVIOUS
  <1> HIDE DEF T
  <1>3. PICK m \in T : \A k \in T : m <= k
    BY <1>1, <1>2, Least
  <1>4. m \in 0..n /\ m \notin S /\ m # 0
    BY DEF T
  <1>5. m \in 1..n /\ m - 1 \in 0..n /\ ~(m <= m - 1)
    BY <1>4
  <1>6. m - 1 \in S
    BY <1>3, <1>5 DEF T
  <1>7. QED
    BY <1>4, <1>5, <1>6

\* A sequence, of whatever.
IsSeq(s) == \E C : s \in Seq(C)

\* A sequence has a length, and its positions are the numbers up to it.
LEMMA SeqIs ==
    ASSUME NEW s, IsSeq(s)
    PROVE  Len(s) \in Nat /\ DOMAIN s = 1..Len(s)
  <1>1. PICK C : s \in Seq(C)
    BY DEF IsSeq
  <1>2. QED
    BY <1>1

\* A function on a sequence's positions is a sequence.
LEMMA SeqOn ==
    ASSUME NEW s, IsSeq(s), NEW g, g = [i \in DOMAIN s |-> g[i]]
    PROVE  IsSeq(g)
  <1>1. Len(s) \in Nat /\ DOMAIN s = 1..Len(s)
    BY SeqIs
  <1>2. g \in Seq({g[i] : i \in DOMAIN s})
    BY <1>1
  <1>3. QED
    BY <1>2 DEF IsSeq

\* A sequence with one more, and a sequence of one.
LEMMA SeqAppend ==
    ASSUME NEW s, IsSeq(s), NEW x
    PROVE  IsSeq(Append(s, x)) /\ IsSeq(<<x>>)
  <1>1. PICK C : s \in Seq(C)
    BY DEF IsSeq
  <1>2. s \in Seq(C \cup {x}) /\ x \in C \cup {x}
    BY <1>1
  <1>3. Append(s, x) \in Seq(C \cup {x}) /\ <<x>> \in Seq({x})
    BY <1>2
  <1>4. QED
    BY <1>3 DEF IsSeq

\* One sequence after another.
LEMMA SeqCat ==
    ASSUME NEW s, IsSeq(s), NEW t, IsSeq(t)
    PROVE  /\ IsSeq(s \o t) /\ Len(s \o t) = Len(s) + Len(t)
           /\ \A k \in 1..Len(s) : (s \o t)[k] = s[k]
           /\ \A k \in 1..Len(t) : (s \o t)[Len(s) + k] = t[k]
           /\ \A k \in 1..Len(s \o t) : k \in 1..Len(s) \/ k - Len(s) \in 1..Len(t)
  <1>1. PICK C : s \in Seq(C)
    BY DEF IsSeq
  <1>2. PICK D : t \in Seq(D)
    BY DEF IsSeq
  <1>3. s \in Seq(C \cup D) /\ t \in Seq(C \cup D)
    BY <1>1, <1>2
  <1>4. s \o t \in Seq(C \cup D)
    BY <1>3, ConcatProperties
  <1>5. /\ Len(s \o t) = Len(s) + Len(t)
        /\ \A k \in 1..Len(s) : (s \o t)[k] = s[k]
        /\ \A k \in 1..Len(t) : (s \o t)[Len(s) + k] = t[k]
    BY <1>3
  <1>6. Len(s) \in Nat /\ Len(t) \in Nat
    BY <1>3
  <1>7. IsSeq(s \o t)
    BY <1>4 DEF IsSeq
  <1>8. \A k \in 1..Len(s \o t) : k \in 1..Len(s) \/ k - Len(s) \in 1..Len(t)
    BY <1>5, <1>6
  <1>9. QED
    BY <1>5, <1>7, <1>8

Step(d, ops, f, k) == IF k = 0 THEN d ELSE Ops!Effect(ops[k], f[k - 1])

\* The workspaces the first n ops of a set go through, from d.
Goes(d, ops, n, f) == f = [k \in 0..n |-> Step(d, ops, f, k)]

\* There is such a way for every set.
LEMMA GoesOn ==
    ASSUME NEW d, NEW ops, NEW n \in Nat
    PROVE  \E f : Goes(d, ops, n, f)
  <1> DEFINE S == {k \in Nat : \E f : Goes(d, ops, k, f)}
  <1>1. 0 \in S
    <2>1. Goes(d, ops, 0, [k \in 0..0 |-> d])
      BY DEF Goes, Step
    <2>2. QED
      BY <2>1
  <1>2. ASSUME NEW m \in 1..n, m - 1 \in S PROVE m \in S
    <2>1. PICK f : Goes(d, ops, m - 1, f)
      BY <1>2
    <2> DEFINE g == [k \in 0..m |-> IF k = m THEN Ops!Effect(ops[m], f[m - 1]) ELSE f[k]]
    <2>2. \A k \in 0..(m - 1) : f[k] = Step(d, ops, f, k)
      BY <2>1 DEF Goes
    <2>3. \A k \in 0..m : g[k] = Step(d, ops, g, k)
      <3> TAKE k \in 0..m
      <3>1. CASE k = m
        BY <3>1 DEF Step
      <3>2. CASE k # m
        <4>1. k \in 0..(m - 1) /\ (k # 0 => k - 1 \in 0..m /\ k - 1 # m)
          BY <3>2
        <4>2. Step(d, ops, g, k) = Step(d, ops, f, k)
          BY <4>1 DEF Step
        <4>3. QED
          BY <4>1, <4>2, <2>2, <3>2
      <3>3. QED
        BY <3>1, <3>2
    <2>4. Goes(d, ops, m, g)
      BY <2>3 DEF Goes
    <2>5. QED
      BY <2>4
  <1> HIDE DEF S
  <1>3. n \in S
    BY <1>1, <1>2, Upto
  <1>4. QED
    BY <1>3 DEF S

\* What a set leaves is the last of them.
LEMMA AfterIs ==
    ASSUME NEW ops, IsSeq(ops), NEW d
    PROVE  \E f : /\ After(ops, d) = f[Len(ops)] /\ f[0] = d
                  /\ \A k \in 1..Len(ops) : f[k] = Ops!Effect(ops[k], f[k - 1])
  <1>1. Len(ops) \in Nat
    BY SeqIs
  <1>2. PICK g : Goes(d, ops, Len(ops), g)
    BY <1>1, GoesOn
  <1> DEFINE h == CHOOSE f : f = [k \in 0..Len(ops) |->
                      IF k = 0 THEN d
                      ELSE CHOOSE z \in {Ops!Effect(ops[k], y) : y \in {f[k - 1]}} : TRUE]
  <1>3. \A x, y : (CHOOSE z \in {Ops!Effect(y, w) : w \in {x}} : TRUE) = Ops!Effect(y, x)
    <2> TAKE x, y
    <2>1. {Ops!Effect(y, w) : w \in {x}} = {Ops!Effect(y, x)}
      OBVIOUS
    <2>2. QED
      BY <2>1
  <1>4. After(ops, d) = h[Len(ops)]
    BY DEF After, Fold, With
  <1>5. \A f : Goes(d, ops, Len(ops), f) <=> f = [k \in 0..Len(ops) |->
                      IF k = 0 THEN d
                      ELSE CHOOSE z \in {Ops!Effect(ops[k], y) : y \in {f[k - 1]}} : TRUE]
    BY <1>3 DEF Goes, Step
  <1>6. Goes(d, ops, Len(ops), h)
    BY <1>2, <1>5
  <1> HIDE DEF h
  <1>7. \A k \in 0..Len(ops) : h[k] = Step(d, ops, h, k)
    BY <1>6 DEF Goes
  <1>8. h[0] = d
    BY <1>1, <1>7 DEF Step
  <1>9. \A k \in 1..Len(ops) : h[k] = Ops!Effect(ops[k], h[k - 1])
    BY <1>1, <1>7 DEF Step
  <1>10. QED
    BY <1>4, <1>8, <1>9

\* Whoever goes through them comes to it.
LEMMA AfterBy ==
    ASSUME NEW ops, IsSeq(ops), NEW g,
           \A k \in 1..Len(ops) : g[k] = Ops!Effect(ops[k], g[k - 1])
    PROVE  After(ops, g[0]) = g[Len(ops)]
  <1>1. Len(ops) \in Nat /\ Len(ops) \in 0..Len(ops)
    BY SeqIs
  <1>2. PICK f : /\ After(ops, g[0]) = f[Len(ops)] /\ f[0] = g[0]
                 /\ \A k \in 1..Len(ops) : f[k] = Ops!Effect(ops[k], f[k - 1])
    BY AfterIs
  <1> DEFINE S == {k \in 0..Len(ops) : f[k] = g[k]}
  <1>3. 0 \in S
    BY <1>1, <1>2
  <1>4. ASSUME NEW k \in 1..Len(ops), k - 1 \in S PROVE k \in S
    BY <1>2, <1>4
  <1> HIDE DEF S
  <1>5. Len(ops) \in S
    BY <1>1, <1>3, <1>4, Upto
  <1>6. QED
    BY <1>2, <1>5 DEF S

\* One set after another.
LEMMA AfterCat ==
    ASSUME NEW s, IsSeq(s), NEW t, IsSeq(t), NEW d
    PROVE  After(s \o t, d) = After(t, After(s, d))
  <1>0. \E f : /\ After(s, d) = f[Len(s)] /\ f[0] = d
                /\ \A k \in 1..Len(s) : f[k] = Ops!Effect(s[k], f[k - 1])
    BY AfterIs
  <1>2. PICK f : /\ After(s, d) = f[Len(s)] /\ f[0] = d
                 /\ \A k \in 1..Len(s) : f[k] = Ops!Effect(s[k], f[k - 1])
    BY <1>0
  <1> DEFINE e == After(s, d)
  <1> HIDE DEF e
  <1>3. PICK g : /\ After(t, e) = g[Len(t)] /\ g[0] = e
                 /\ \A k \in 1..Len(t) : g[k] = Ops!Effect(t[k], g[k - 1])
    BY AfterIs
  <1> DEFINE m == Len(s)
             n == Len(t)
  <1>1. /\ m \in Nat /\ n \in Nat /\ IsSeq(s \o t) /\ Len(s \o t) = m + n
        /\ \A k \in 1..m : (s \o t)[k] = s[k]
        /\ \A k \in 1..n : (s \o t)[m + k] = t[k]
    BY SeqIs, SeqCat
  <1>a. e = f[m] /\ f[0] = d /\ \A k \in 1..m : f[k] = Ops!Effect(s[k], f[k - 1])
    BY <1>2 DEF e
  <1>b. After(t, e) = g[n] /\ g[0] = e /\ \A k \in 1..n : g[k] = Ops!Effect(t[k], g[k - 1])
    BY <1>3
  <1> HIDE DEF m, n
  <1> DEFINE h == [k \in 0..(m + n) |-> IF k <= m THEN f[k] ELSE g[k - m]]
  <1>4. ASSUME NEW k \in 1..(m + n) PROVE h[k] = Ops!Effect((s \o t)[k], h[k - 1])
    <2>1. CASE k <= m
      <3>1. k \in 1..m /\ h[k] = f[k] /\ h[k - 1] = f[k - 1]
        BY <1>1, <2>1
      <3>2. QED
        BY <3>1, <1>1, <1>a
    <2>2. CASE k = m + 1
      <3>1. 1 \in 1..n /\ h[k] = g[1] /\ h[k - 1] = f[m] /\ k = m + 1
        BY <1>1, <2>2
      <3>2. (s \o t)[k] = t[1]
        BY <3>1, <1>1
      <3>3. g[1] = Ops!Effect(t[1], g[0])
        <4>1. g[1] = Ops!Effect(t[1], g[1 - 1])
          BY <3>1, <1>b
        <4>2. QED
          BY <4>1
      <3>4. QED
        BY <3>1, <3>2, <3>3, <1>a, <1>b
    <2>3. CASE k > m + 1
      <3>1. k - m \in 1..n /\ h[k] = g[k - m] /\ h[k - 1] = g[k - m - 1] /\ k = m + (k - m)
        BY <1>1, <2>3
      <3>2. (s \o t)[k] = t[k - m]
        BY <3>1, <1>1
      <3>3. QED
        BY <3>1, <3>2, <1>b
    <2>4. QED
      BY <1>1, <2>1, <2>2, <2>3
  <1>5. h[0] = d
    BY <1>1, <1>a
  <1>6. h[m + n] = After(t, e)
    <2>0. m + n \in 0..(m + n) /\ h[m + n] = IF m + n <= m THEN f[m + n] ELSE g[m + n - m]
      BY <1>1
    <2> HIDE DEF h
    <2>1. CASE n = 0
      <3>1. m + n = m /\ m + n <= m
        BY <1>1, <2>1
      <3>2. h[m + n] = f[m]
        BY <2>0, <3>1
      <3>3. QED
        BY <1>a, <1>b, <2>1, <3>2
    <2>2. CASE n # 0
      <3>1. ~(m + n <= m) /\ m + n - m = n
        BY <1>1, <2>2
      <3>2. h[m + n] = g[m + n - m]
        BY <2>0, <3>1
      <3>3. QED
        BY <1>b, <3>1, <3>2
    <2>3. QED
      BY <2>1, <2>2
  <1> HIDE DEF h
  <1>7. After(s \o t, h[0]) = h[Len(s \o t)]
    BY <1>1, <1>4, AfterBy
  <1>8. QED
    BY <1>1, <1>5, <1>6, <1>7 DEF e

\* A set of one op, and of none.
LEMMA AfterOne ==
    ASSUME NEW op, NEW d
    PROVE  IsSeq(<<op>>) /\ After(<<op>>, d) = Ops!Effect(op, d)
  <1>1. <<op>> \in Seq({op}) /\ Len(<<op>>) = 1 /\ <<op>>[1] = op
    OBVIOUS
  <1>2. IsSeq(<<op>>)
    BY <1>1 DEF IsSeq
  <1> DEFINE g == [k \in 0..1 |-> IF k = 0 THEN d ELSE Ops!Effect(op, d)]
  <1>3. g[0] = d /\ g[1] = Ops!Effect(op, d)
    OBVIOUS
  <1> HIDE DEF g
  <1>4. \A k \in 1..Len(<<op>>) : g[k] = Ops!Effect(<<op>>[k], g[k - 1])
    BY <1>1, <1>3
  <1>5. QED
    BY <1>1, <1>2, <1>3, <1>4, AfterBy

\* A set of no ops leaves everything as it was.
LEMMA AfterNone ==
    ASSUME NEW d
    PROVE  IsSeq(<<>>) /\ Len(<<>>) = 0 /\ After(<<>>, d) = d
  <1>1. <<>> \in Seq({}) /\ Len(<<>>) = 0
    OBVIOUS
  <1>2. IsSeq(<<>>)
    BY <1>1 DEF IsSeq
  <1>3. PICK f : After(<<>>, d) = f[Len(<<>>)] /\ f[0] = d
    BY <1>2, AfterIs
  <1>4. QED
    BY <1>1, <1>2, <1>3

\* What each kind of op does.
LEMMA WriteIs ==
    ASSUME NEW p, NEW f
    PROVE  LET op == Ops!Write(p, f)
           IN  /\ Ops!IsWrite(op) /\ ~Ops!IsRename(op) /\ ~Ops!IsRemove(op)
               /\ op.path = p /\ op.bytes = f
               /\ \A q : Ops!Touches(op, q) <=> q = p
               /\ \A d : Ops!Possible(op, d) /\ Ops!Effect(op, d) = [d EXCEPT ![p] = f]
  BY DEF Ops!IsWrite, Ops!IsRename, Ops!IsRemove, Ops!Write, Ops!Effect, Ops!Touches,
         Ops!Possible

\* The same of writes, for all of them at once.
LEMMA WriteDoes ==
    \A p, f, d : /\ Ops!Possible(Ops!Write(p, f), d)
                 /\ Ops!Effect(Ops!Write(p, f), d) = [d EXCEPT ![p] = f]
  BY WriteIs

\* What a rename is and does.
LEMMA RenameIs ==
    ASSUME NEW p, NEW q
    PROVE  LET op == Ops!Rename(p, q)
           IN  /\ Ops!IsRename(op) /\ ~Ops!IsWrite(op) /\ ~Ops!IsRemove(op)
               /\ op.from = p /\ op.to = q
               /\ \A r : Ops!Touches(op, r) <=> r = p \/ r = q
               /\ \A d : /\ Ops!Possible(op, d) <=> d[p] # Absent
                         /\ Ops!Effect(op, d) = [d EXCEPT ![q] = d[p], ![p] = Absent]
  BY DEF Ops!IsWrite, Ops!IsRename, Ops!IsRemove, Ops!Rename, Ops!Effect, Ops!Touches,
         Ops!Possible

\* What a removal is and does.
LEMMA RemoveIs ==
    ASSUME NEW p
    PROVE  LET op == Ops!Remove(p)
           IN  /\ Ops!IsRemove(op) /\ ~Ops!IsWrite(op) /\ ~Ops!IsRename(op)
               /\ op.path = p
               /\ \A q : Ops!Touches(op, q) <=> q = p
               /\ \A d : /\ Ops!Possible(op, d) <=> d[p] # Absent
                         /\ Ops!Effect(op, d) = [d EXCEPT ![p] = Absent]
  BY DEF Ops!IsWrite, Ops!IsRename, Ops!IsRemove, Ops!Remove, Ops!Effect, Ops!Touches,
         Ops!Possible

\* The beginning of a path, and what it grows by.
LEMMA PrefixIs ==
    ASSUME NEW C, NEW s \in Seq(C), NEW k \in 0..Len(s)
    PROVE  /\ SubSeq(s, 1, k) \in Seq(C) /\ Len(SubSeq(s, 1, k)) = k
           /\ \A i \in 1..k : SubSeq(s, 1, k)[i] = s[i]
  <1>1. Len(s) \in Nat /\ k \in Nat /\ k <= Len(s)
    OBVIOUS
  <1>2. \A i \in 1..k : s[i] \in C
    BY <1>1
  <1>3. /\ SubSeq(s, 1, k) \in Seq(C)
        /\ Len(SubSeq(s, 1, k)) = IF 1 <= k THEN k - 1 + 1 ELSE 0
        /\ \A i \in 1..(k - 1 + 1) : SubSeq(s, 1, k)[i] = s[1 + i - 1]
    BY <1>1, <1>2, SubSeqProperties
  <1>4. \A n \in Nat : (IF 1 <= n THEN n - 1 + 1 ELSE 0) = n /\ n - 1 + 1 = n
    OBVIOUS
  <1>5. \A i \in 1..k : 1 + i - 1 = i
    OBVIOUS
  <1>6. Len(SubSeq(s, 1, k)) = k
    BY <1>1, <1>3, <1>4
  <1>7. \A i \in 1..k : SubSeq(s, 1, k)[i] = s[i]
    BY <1>1, <1>3, <1>4, <1>5
  <1>8. QED
    BY <1>3, <1>6, <1>7

\* What is left of a path without its last component.
LEMMA FrontIs ==
    ASSUME NEW C, NEW s \in Seq(C), s # <<>>
    PROVE  /\ Front(s) \in Seq(C) /\ Len(Front(s)) = Len(s) - 1
           /\ \A i \in 1..(Len(s) - 1) : Front(s)[i] = s[i]
  <1>1. Len(s) \in Nat /\ Len(s) # 0 /\ 1 \in Int /\ Len(s) - 1 \in Int
    OBVIOUS
  <1>2. \A i \in 1..(Len(s) - 1) : s[i] \in C
    BY <1>1
  <1>3. /\ SubSeq(s, 1, Len(s) - 1) \in Seq(C)
        /\ Len(SubSeq(s, 1, Len(s) - 1)) = IF 1 <= Len(s) - 1 THEN Len(s) - 1 - 1 + 1 ELSE 0
        /\ \A i \in 1..(Len(s) - 1 - 1 + 1) : SubSeq(s, 1, Len(s) - 1)[i] = s[1 + i - 1]
    BY <1>1, <1>2, SubSeqProperties
  <1>4. Front(s) = SubSeq(s, 1, Len(s) - 1)
    BY DEF Front
  <1>5. Len(s) - 1 - 1 + 1 = Len(s) - 1 /\ \A i \in 1..(Len(s) - 1) : 1 + i - 1 = i
    BY <1>1
  <1>6. Len(Front(s)) = Len(s) - 1
    <2>1. Len(Front(s)) = IF 1 <= Len(s) - 1 THEN Len(s) - 1 - 1 + 1 ELSE 0
      BY <1>3, <1>4
    <2>2. \A n \in Nat : n # 0 => (IF 1 <= n - 1 THEN n - 1 - 1 + 1 ELSE 0) = n - 1
      OBVIOUS
    <2>3. QED
      BY <1>1, <2>1, <2>2
  <1>7. \A i \in 1..(Len(s) - 1) : Front(s)[i] = s[i]
    BY <1>1, <1>3, <1>4, <1>5
  <1>8. QED
    BY <1>3, <1>4, <1>6, <1>7


\* What comes before an op of two sets.
LEMMA PrefixCat ==
    ASSUME NEW s, IsSeq(s), NEW t, IsSeq(t)
    PROVE  /\ \A k \in 1..Len(s) : SubSeq(s \o t, 1, k - 1) = SubSeq(s, 1, k - 1)
           /\ \A k \in 1..Len(t) : /\ SubSeq(s \o t, 1, Len(s) + k - 1) = s \o SubSeq(t, 1, k - 1)
                                   /\ IsSeq(SubSeq(t, 1, k - 1))
  <1>1. PICK C : s \in Seq(C)
    BY DEF IsSeq
  <1>2. PICK D : t \in Seq(D)
    BY DEF IsSeq
  <1> DEFINE E == C \cup D
             m == Len(s)
             n == Len(t)
             u == s \o t
  <1>3. s \in Seq(E) /\ t \in Seq(E)
    BY <1>1, <1>2
  <1>4. /\ u \in Seq(E) /\ Len(u) = m + n /\ m \in Nat /\ n \in Nat
        /\ (\A k \in 1..m : u[k] = s[k]) /\ (\A k \in 1..n : u[m + k] = t[k])
    BY <1>3, SeqCat DEF IsSeq
  <1> HIDE DEF u, E
  <1>5. ASSUME NEW k \in 1..m PROVE SubSeq(u, 1, k - 1) = SubSeq(s, 1, k - 1)
    <2>1. k - 1 \in 0..m /\ k - 1 \in 0..Len(u) /\ k - 1 \in Nat
      BY <1>4
    <2>2. /\ SubSeq(s, 1, k - 1) \in Seq(E) /\ Len(SubSeq(s, 1, k - 1)) = k - 1
          /\ \A i \in 1..(k - 1) : SubSeq(s, 1, k - 1)[i] = s[i]
      BY <1>3, <2>1, PrefixIs
    <2>3. /\ SubSeq(u, 1, k - 1) \in Seq(E) /\ Len(SubSeq(u, 1, k - 1)) = k - 1
          /\ \A i \in 1..(k - 1) : SubSeq(u, 1, k - 1)[i] = u[i]
      BY <1>4, <2>1, PrefixIs
    <2>4. \A i \in 1..(k - 1) : i \in 1..m
      BY <1>4
    <2>5. \A i \in 1..(k - 1) : SubSeq(u, 1, k - 1)[i] = SubSeq(s, 1, k - 1)[i]
      BY <1>4, <2>2, <2>3, <2>4
    <2>6. QED
      BY <2>2, <2>3, <2>5, SeqEqual
  <1>6. ASSUME NEW k \in 1..n
        PROVE  SubSeq(u, 1, m + k - 1) = s \o SubSeq(t, 1, k - 1) /\ IsSeq(SubSeq(t, 1, k - 1))
    <2> DEFINE l == k - 1
               v == SubSeq(t, 1, l)
    <2>1. l \in 0..n /\ m + l \in 0..Len(u) /\ l \in Nat /\ m + k - 1 = m + l
      BY <1>4
    <2> HIDE DEF l
    <2>2. v \in Seq(E) /\ Len(v) = l /\ \A i \in 1..l : v[i] = t[i]
      BY <1>3, <2>1, PrefixIs
    <2> HIDE DEF v
    <2>3. IsSeq(v) /\ IsSeq(s)
      BY <2>2 DEF IsSeq
    <2>4. /\ Len(s \o v) = m + l /\ (\A i \in 1..m : (s \o v)[i] = s[i])
          /\ \A i \in 1..l : (s \o v)[m + i] = v[i]
      <3>1. /\ Len(s \o v) = Len(s) + Len(v) /\ (\A i \in 1..Len(s) : (s \o v)[i] = s[i])
            /\ \A i \in 1..Len(v) : (s \o v)[Len(s) + i] = v[i]
        BY <2>3, SeqCat
      <3>2. QED
        BY <2>2, <3>1
    <2>5. s \o v \in Seq(E)
      BY <1>3, <2>2, ConcatProperties
    <2>6. /\ SubSeq(u, 1, m + l) \in Seq(E) /\ Len(SubSeq(u, 1, m + l)) = m + l
          /\ \A i \in 1..(m + l) : SubSeq(u, 1, m + l)[i] = u[i]
      BY <1>4, <2>1, PrefixIs
    <2>7. ASSUME NEW i \in 1..(m + l) PROVE SubSeq(u, 1, m + l)[i] = (s \o v)[i]
      <3>1. CASE i \in 1..m
        BY <1>4, <2>4, <2>6, <3>1
      <3>2. CASE i \notin 1..m
        <4>1. i - m \in 1..l /\ i - m \in 1..n /\ m + (i - m) = i
          BY <1>4, <2>1, <3>2
        <4>2. u[i] = t[i - m] /\ (s \o v)[i] = v[i - m]
          BY <1>4, <2>4, <4>1
        <4>3. QED
          BY <2>2, <2>6, <4>1, <4>2
      <3>3. QED
        BY <3>1, <3>2
    <2>8. SubSeq(u, 1, m + l) = s \o v
      BY <2>4, <2>5, <2>6, <2>7, SeqEqual
    <2>9. QED
      BY <2>1, <2>3, <2>8 DEF v, l
  <1>7. QED
    BY <1>5, <1>6 DEF u

\* A set that runs, and one that runs on what it leaves, run one after the other.
LEMMA RunsCat ==
    ASSUME NEW s, NEW t, IsSeq(s), IsSeq(t), NEW d, Runs(s, d), Runs(t, After(s, d))
    PROVE  Runs(s \o t, d)
  <1>1. /\ IsSeq(s \o t) /\ DOMAIN (s \o t) = 1..Len(s \o t)
        /\ DOMAIN s = 1..Len(s) /\ DOMAIN t = 1..Len(t)
        /\ Len(s) \in Nat /\ Len(t) \in Nat
    BY SeqIs, SeqCat
  <1>2. ASSUME NEW k \in 1..Len(s \o t)
        PROVE  Ops!Possible((s \o t)[k], After(SubSeq(s \o t, 1, k - 1), d))
    <2>1. CASE k \in 1..Len(s)
      <3>1. (s \o t)[k] = s[k] /\ SubSeq(s \o t, 1, k - 1) = SubSeq(s, 1, k - 1)
        BY <2>1, SeqCat, PrefixCat
      <3>2. QED
        BY <1>1, <2>1, <3>1 DEF Runs
    <2>2. CASE k \notin 1..Len(s)
      <3>1. PICK l \in 1..Len(t) : k = Len(s) + l
        <4>1. k - Len(s) \in 1..Len(t)
          BY <2>2, SeqCat
        <4>2. k = Len(s) + (k - Len(s))
          BY <1>1
        <4>3. QED
          BY <4>1, <4>2
      <3>2. (s \o t)[k] = t[l]
        BY <3>1, SeqCat
      <3>3. /\ SubSeq(s \o t, 1, k - 1) = s \o SubSeq(t, 1, l - 1)
            /\ IsSeq(SubSeq(t, 1, l - 1))
        <4>1. /\ SubSeq(s \o t, 1, Len(s) + l - 1) = s \o SubSeq(t, 1, l - 1)
              /\ IsSeq(SubSeq(t, 1, l - 1))
          BY PrefixCat
        <4>2. QED
          BY <3>1, <4>1
      <3>4. After(SubSeq(s \o t, 1, k - 1), d) = After(SubSeq(t, 1, l - 1), After(s, d))
        <4>1. SubSeq(s \o t, 1, k - 1) = s \o SubSeq(t, 1, l - 1)
          BY <3>3
        <4>2. IsSeq(SubSeq(t, 1, l - 1))
          BY <3>3
        <4>3. After(s \o SubSeq(t, 1, l - 1), d) = After(SubSeq(t, 1, l - 1), After(s, d))
          BY <4>2, AfterCat
        <4>4. QED
          BY <4>1, <4>3
      <3>5. QED
        BY <1>1, <3>2, <3>4 DEF Runs
    <2>3. QED
      BY <2>1, <2>2
  <1>3. QED
    BY <1>1, <1>2 DEF Runs

\* A set of one op runs if the op is possible.
LEMMA RunsOne ==
    ASSUME NEW op, NEW d, Ops!Possible(op, d)
    PROVE  Runs(<<op>>, d)
  <1>1. DOMAIN <<op>> = {1} /\ <<op>>[1] = op
    OBVIOUS
  <1>2. SubSeq(<<op>>, 1, 1 - 1) = <<>>
    BY SubSeqEmpty
  <1>3. After(<<>>, d) = d
    BY AfterNone
  <1>4. QED
    BY <1>1, <1>2, <1>3 DEF Runs

-----------------------------------------------------------------------------
(* The files.                                                              *)

\* A file as the mutations know it: prose alone has no links of metadata.
Good(f) ==
    /\ f = [x \in {"who", "meta", "title", "rel", "content", "body"} |-> f[x]]
    /\ f.meta \in BOOLEAN
    /\ f.rel = [r \in {"contents", "part_of", "links"} |-> f.rel[r]]
    /\ \A r \in {"contents", "part_of", "links"} : IsSeq(f.rel[r])
    /\ ~f.meta => f.rel = NoLinks /\ f.content = <<>>

\* A file is not the absence of one.
LEMMA GoodThere ==
    ASSUME NEW f, Good(f)
    PROVE  f # Absent
  <1>1. "who" \in DOMAIN f
    BY DEF Good
  <1>2. DOMAIN Absent = {"absent"}
    BY DEF Absent
  <1>3. QED
    BY <1>1, <1>2

\* g is a later text of the file f.
Kin(f, g) == Good(g) /\ g.who = f.who /\ g.meta = f.meta /\ g.content = f.content

\* v has the files of e, each in some text.
Like(e, v) ==
    /\ v = [p \in Place |-> v[p]]
    /\ Files(v) = Files(e)
    /\ \A p \in Files(e) : Kin(e[p], v[p])

\* A workspace of such files.
AllGood(e) == e = [p \in Place |-> e[p]] /\ \A p \in Files(e) : Good(e[p])

\* The set only writes files anew that are there.
Keeps(t, e) ==
    /\ IsSeq(t)
    /\ \A i \in 1..Len(t) : \E p \in Files(e) : \E f : t[i] = Ops!Write(p, f) /\ Kin(e[p], f)

\* Such a set leaves the same files, in other texts.
LEMMA LikeAfter ==
    ASSUME NEW t, NEW e, AllGood(e), Keeps(t, e)
    PROVE  Like(e, After(t, e))
  <1>0. IsSeq(t) /\ Len(t) \in Nat /\ Len(t) \in 0..Len(t)
    BY SeqIs DEF Keeps
  <1>1. PICK f : /\ After(t, e) = f[Len(t)] /\ f[0] = e
                 /\ \A k \in 1..Len(t) : f[k] = Ops!Effect(t[k], f[k - 1])
    BY <1>0, AfterIs
  <1> DEFINE S == {k \in 0..Len(t) : Like(e, f[k])}
  <1>2. 0 \in S
    BY <1>0, <1>1 DEF AllGood, Like, Kin
  <1>3. ASSUME NEW k \in 1..Len(t), k - 1 \in S PROVE k \in S
    <2> DEFINE v == f[k - 1]
    <2>1. Like(e, v)
      BY <1>3
    <2>2. PICK p \in Files(e) : \E g : t[k] = Ops!Write(p, g) /\ Kin(e[p], g)
      BY DEF Keeps
    <2>3. PICK g : t[k] = Ops!Write(p, g) /\ Kin(e[p], g)
      BY <2>2
    <2>4. f[k] = [v EXCEPT ![p] = g]
      <3>1. f[k] = Ops!Effect(Ops!Write(p, g), v)
        BY <1>1, <2>3
      <3>2. QED
        BY <3>1, WriteIs
    <2> HIDE DEF v
    <2>5. v = [q \in Place |-> v[q]] /\ Files(v) = Files(e) /\ \A q \in Files(e) : Kin(e[q], v[q])
      BY <2>1 DEF Like
    <2>6. p \in Place
      BY DEF Files
    <2>7. f[k] = [q \in Place |-> IF q = p THEN g ELSE v[q]]
      BY <2>4, <2>5, <2>6
    <2>8. g # Absent
      BY <2>3, GoodThere DEF Kin
    <2>9. Files(f[k]) = Files(e)
      <3>1. \A q \in Place : f[k][q] # Absent <=> q \in Files(e)
        <4> TAKE q \in Place
        <4>1. CASE q = p
          BY <2>7, <2>8, <4>1
        <4>2. CASE q # p
          BY <2>5, <2>7, <4>2 DEF Files
        <4>3. QED
          BY <4>1, <4>2
      <3>2. QED
        BY <3>1 DEF Files
    <2>10. \A q \in Files(e) : Kin(e[q], f[k][q])
      <3> TAKE q \in Files(e)
      <3>1. q \in Place
        BY DEF Files
      <3>2. CASE q = p
        BY <2>3, <2>7, <3>1, <3>2
      <3>3. CASE q # p
        BY <2>5, <2>7, <3>1, <3>3
      <3>4. QED
        BY <3>2, <3>3
    <2>11. f[k] = [q \in Place |-> f[k][q]]
      BY <2>7
    <2>12. QED
      BY <2>9, <2>10, <2>11 DEF Like
  <1> HIDE DEF S
  <1>4. Len(t) \in S
    BY <1>0, <1>2, <1>3, Upto
  <1>5. QED
    BY <1>1, <1>4 DEF S

\* Such a set runs, wherever it is run.
LEMMA KeepsRuns ==
    ASSUME NEW t, NEW e, Keeps(t, e), NEW d
    PROVE  Runs(t, d)
  <1>1. DOMAIN t = 1..Len(t)
    BY SeqIs DEF Keeps
  <1>2. ASSUME NEW i \in 1..Len(t), NEW x PROVE Ops!Possible(t[i], x)
    <2>1. PICK p, f : t[i] = Ops!Write(p, f)
      BY DEF Keeps
    <2>2. QED
      BY <2>1, WriteIs
  <1>3. QED
    BY <1>1, <1>2 DEF Runs

\* Two such sets, one after the other, are one.
LEMMA KeepsCat ==
    ASSUME NEW s, NEW t, NEW e, Keeps(s, e), Keeps(t, e)
    PROVE  Keeps(s \o t, e)
  <1>1. IsSeq(s) /\ IsSeq(t) /\ Len(s) \in Nat /\ Len(t) \in Nat
    BY SeqIs DEF Keeps
  <1>2. IsSeq(s \o t)
    BY <1>1, SeqCat
  <1>3. ASSUME NEW i \in 1..Len(s \o t)
        PROVE  \E p \in Files(e) : \E f : (s \o t)[i] = Ops!Write(p, f) /\ Kin(e[p], f)
    <2>1. CASE i \in 1..Len(s)
      <3>1. (s \o t)[i] = s[i]
        BY <1>1, <2>1, SeqCat
      <3>2. QED
        BY <2>1, <3>1 DEF Keeps
    <2>2. CASE i \notin 1..Len(s)
      <3>1. i - Len(s) \in 1..Len(t) /\ i = Len(s) + (i - Len(s))
        BY <1>1, <2>2, SeqCat
      <3>2. (s \o t)[i] = t[i - Len(s)]
        BY <1>1, <3>1, SeqCat
      <3>3. QED
        BY <3>1, <3>2 DEF Keeps
    <2>3. QED
      BY <2>1, <2>2
  <1>4. QED
    BY <1>2, <1>3 DEF Keeps

\* One write over a file.
LEMMA KeepsOne ==
    ASSUME NEW e, NEW p \in Files(e), NEW f, Kin(e[p], f)
    PROVE  Keeps(<<Ops!Write(p, f)>>, e)
  <1>1. Len(<<Ops!Write(p, f)>>) = 1 /\ <<Ops!Write(p, f)>>[1] = Ops!Write(p, f)
    OBVIOUS
  <1>2. QED
    BY <1>1, AfterOne DEF Keeps

\* No write.
LEMMA KeepsNone ==
    ASSUME NEW e
    PROVE  Keeps(<<>>, e)
  BY AfterNone DEF Keeps

\* A write over a file, or none.
LEMMA KeepsIf ==
    ASSUME NEW e, NEW c \in BOOLEAN, NEW p, NEW f, c => p \in Files(e) /\ Kin(e[p], f)
    PROVE  Keeps(If(c, <<Ops!Write(p, f)>>), e)
  <1>1. CASE c
    BY <1>1, KeepsOne DEF If
  <1>2. CASE ~c
    BY <1>2, KeepsNone DEF If
  <1>3. QED
    BY <1>1, <1>2

\* A sequence of a set is of its members.
LEMMA SetToSeqIs ==
    ASSUME NEW S, IsFiniteSet(S)
    PROVE  /\ Cardinality(S) \in Nat
           /\ \A i \in 1..Cardinality(S) : SetToSeq(S)[i] \in S
  <1>1. Cardinality(S) \in Nat /\ ExistsBijection(1..Cardinality(S), S)
    BY FS_CardinalityType
  <1>2. PICK g : g \in Bijection(1..Cardinality(S), S)
    BY <1>1 DEF ExistsBijection
  <1>3. g \in [1..Cardinality(S) -> S] /\ IsInjective(g)
    BY <1>2 DEF Bijection, Injection, Surjection, IsInjective
  <1>4. SetToSeq(S) \in [1..Cardinality(S) -> S]
    BY <1>3 DEF SetToSeq
  <1>5. QED
    BY <1>1, <1>4

\* t writes g of each path of S.
WritesOf(t, S, g) ==
    t = [i \in 1..Cardinality(S) |-> Ops!Write(SetToSeq(S)[i], g[SetToSeq(S)[i]])]

\* Its ops are those writes.
LEMMA RewritesAre ==
    ASSUME NEW S, S \subseteq Place, NEW g, NEW t, WritesOf(t, S, g)
    PROVE  IsSeq(t) /\ \A i \in 1..Len(t) : \E p \in S : t[i] = Ops!Write(p, g[p])
  <1>1. IsFiniteSet(S)
    BY PlacesAssumption, FS_Subset
  <1>2. /\ Cardinality(S) \in Nat
        /\ \A i \in 1..Cardinality(S) : SetToSeq(S)[i] \in S
    BY <1>1, SetToSeqIs
  <1>3. t \in Seq({t[i] : i \in 1..Cardinality(S)}) /\ Len(t) = Cardinality(S)
    BY <1>2 DEF WritesOf
  <1>4. IsSeq(t)
    BY <1>3 DEF IsSeq
  <1>5. \A i \in 1..Len(t) : \E p \in S : t[i] = Ops!Write(p, g[p])
    BY <1>2, <1>3 DEF WritesOf
  <1>6. QED
    BY <1>4, <1>5

\* Such writes over files keep them.
LEMMA KeepsRewrites ==
    ASSUME NEW S, NEW g, NEW t, WritesOf(t, S, g),
           NEW e, S \subseteq Files(e), \A p \in S : Kin(e[p], g[p])
    PROVE  Keeps(t, e)
  <1>1. S \subseteq Place
    BY DEF Files
  <1>2. IsSeq(t) /\ \A i \in 1..Len(t) : \E p \in S : t[i] = Ops!Write(p, g[p])
    BY <1>1, RewritesAre
  <1>3. QED
    BY <1>2 DEF Keeps

\* A list of lists: none, or one.
LEMMA FlattenIs ==
    ASSUME NEW s
    PROVE  FlattenSeq(<<>>) = <<>> /\ FlattenSeq(<<s>>) = s
  <1>1. Len(<<>>) = 0 /\ Len(<<s>>) = 1 /\ <<s>>[1] = s
    OBVIOUS
  <1>2. FlattenSeq(<<>>) = <<>>
    BY <1>1 DEF FlattenSeq
  <1> DEFINE h == CHOOSE f : f = [i \in 1..Len(<<s>>) |->
                      IF i = 1 THEN <<s>>[i] ELSE f[i - 1] \o <<s>>[i]]
  <1>3. FlattenSeq(<<s>>) = h[1]
    BY <1>1 DEF FlattenSeq
  <1>4. \E f : f = [i \in 1..Len(<<s>>) |-> IF i = 1 THEN <<s>>[i] ELSE f[i - 1] \o <<s>>[i]]
    <2> DEFINE f == [i \in 1..1 |-> s]
    <2>1. f = [i \in 1..Len(<<s>>) |-> IF i = 1 THEN <<s>>[i] ELSE f[i - 1] \o <<s>>[i]]
      BY <1>1
    <2>2. QED
      BY <2>1
  <1>5. h = [i \in 1..Len(<<s>>) |-> IF i = 1 THEN <<s>>[i] ELSE h[i - 1] \o <<s>>[i]]
    BY <1>4
  <1> HIDE DEF h
  <1>6. h[1] = s
    BY <1>1, <1>5
  <1>7. QED
    BY <1>2, <1>3, <1>6

\* The sequence of no members.
LEMMA NoneToSeq == SetToSeq({}) = <<>>
  <1> DEFINE F == [1..Cardinality({}) -> {}]
  <1>1. Cardinality({}) = 0 /\ 1..0 = {}
    BY FS_EmptySet
  <1>2. \A f \in F : f = <<>>
    BY <1>1
  <1>3. <<>> \in F /\ IsInjective(<<>>)
    BY <1>1 DEF IsInjective
  <1>4. SetToSeq({}) = CHOOSE f \in F : IsInjective(f)
    BY DEF SetToSeq
  <1> HIDE DEF F
  <1>5. QED
    BY <1>2, <1>3, <1>4

\* The sequence of one member.
LEMMA OneToSeq ==
    ASSUME NEW s
    PROVE  SetToSeq({s}) = <<s>>
  <1> DEFINE F == [1..Cardinality({s}) -> {s}]
  <1>1. Cardinality({s}) = 1 /\ 1..1 = {1}
    BY FS_Singleton
  <1>2. \A f \in F : f = <<s>>
    BY <1>1
  <1>3. <<s>> \in F /\ IsInjective(<<s>>)
    BY <1>1 DEF IsInjective
  <1>4. SetToSeq({s}) = CHOOSE f \in F : IsInjective(f)
    BY DEF SetToSeq
  <1> HIDE DEF F
  <1>5. QED
    BY <1>2, <1>3, <1>4

\* The lists of no members, together.
LEMMA FlattenNone == FlattenSeq(SetToSeq({})) = <<>>
  <1>1. FlattenSeq(<<>>) = <<>>
    BY FlattenIs
  <1>2. QED
    BY <1>1, NoneToSeq

\* The list of one member.
LEMMA FlattenOne ==
    ASSUME NEW s
    PROVE  FlattenSeq(SetToSeq({s})) = s
  BY OneToSeq, FlattenIs

-----------------------------------------------------------------------------
(* Paths.                                                                  *)

\* A path with one more component.
LEMMA AppendIs ==
    ASSUME NEW C, NEW s \in Seq(C), NEW x \in C
    PROVE  /\ Append(s, x) \in Seq(C) /\ Append(s, x) # <<>>
           /\ Front(Append(s, x)) = s /\ Last(Append(s, x)) = x
  <1> DEFINE t == Append(s, x)
  <1>1. /\ t \in Seq(C) /\ Len(t) = Len(s) + 1 /\ t[Len(s) + 1] = x
        /\ \A i \in 1..Len(s) : t[i] = s[i]
    OBVIOUS
  <1>2. t # <<>> /\ Len(s) \in Nat
    BY <1>1
  <1> HIDE DEF t
  <1>3. /\ Front(t) \in Seq(C) /\ Len(Front(t)) = Len(t) - 1
        /\ \A i \in 1..(Len(t) - 1) : Front(t)[i] = t[i]
    BY <1>1, <1>2, FrontIs
  <1>4. Len(t) - 1 = Len(s)
    BY <1>1, <1>2
  <1>5. Front(t) = s
    BY <1>1, <1>3, <1>4, SeqEqual
  <1>6. Last(t) = x
    BY <1>1 DEF Last
  <1>7. QED
    BY <1>1, <1>2, <1>5, <1>6 DEF t

\* A path is its directory and its last component.
LEMMA SplitLast ==
    ASSUME NEW C, NEW s \in Seq(C), s # <<>>
    PROVE  /\ Front(s) \in Seq(C) /\ Last(s) \in C
           /\ Append(Front(s), Last(s)) = s
  <1>1. /\ Front(s) \in Seq(C) /\ Len(Front(s)) = Len(s) - 1
        /\ \A i \in 1..(Len(s) - 1) : Front(s)[i] = s[i]
    BY FrontIs
  <1>2. Len(s) \in Nat /\ Len(s) # 0 /\ Last(s) = s[Len(s)] /\ Last(s) \in C
    BY DEF Last
  <1> DEFINE t == Append(Front(s), Last(s))
  <1>3. /\ t \in Seq(C) /\ Len(t) = Len(Front(s)) + 1 /\ t[Len(Front(s)) + 1] = Last(s)
        /\ \A i \in 1..Len(Front(s)) : t[i] = Front(s)[i]
    BY <1>1, <1>2
  <1> HIDE DEF t
  <1>4. Len(t) = Len(s)
    BY <1>1, <1>2, <1>3
  <1>5. \A i \in 1..Len(s) : t[i] = s[i]
    <2> TAKE i \in 1..Len(s)
    <2>1. CASE i = Len(s)
      BY <1>1, <1>2, <1>3, <2>1
    <2>2. CASE i # Len(s)
      <3>1. i \in 1..(Len(s) - 1)
        BY <1>2, <2>2
      <3>2. QED
        BY <1>1, <1>3, <3>1
    <2>3. QED
      BY <2>1, <2>2
  <1>6. t = s
    BY <1>3, <1>4, <1>5, SeqEqual
  <1>7. QED
    BY <1>1, <1>2, <1>6 DEF t

\* The file beside a path: its directory and stem, and another extension.
LEMMA Beside ==
    ASSUME NEW p \in Place, NEW x
    PROVE  LET q == WithExtension(p, x)
           IN  /\ Dir(q) = Dir(p) /\ Extension(q) = x
               /\ Append(Dir(p), Last(q)) = q
               /\ Append(Dir(q), Last(p)) = p
  <1>1. p \in Seq(Component) /\ p # <<>>
    BY PlacesAssumption
  <1>2. Front(p) \in Seq(Component) /\ Append(Front(p), Last(p)) = p
    BY <1>1, SplitLast
  <1> DEFINE c == <<Last(p)[1], x>>
             C == Component \cup {c}
             q == Append(Front(p), c)
  <1>3. Dir(p) = Front(p) /\ WithExtension(p, x) = q
    BY <1>1 DEF Dir, WithExtension
  <1>4. Front(p) \in Seq(C)
    BY <1>2
  <1>5. c \in C /\ c[2] = x
    OBVIOUS
  <1> HIDE DEF c, C
  <1>6. q # <<>> /\ Front(q) = Front(p) /\ Last(q) = c
    BY <1>4, <1>5, AppendIs
  <1> HIDE DEF q
  <1>7. Dir(q) = Front(q) /\ Extension(q) = x
    BY <1>5, <1>6 DEF Dir, Extension
  <1>8. Append(Dir(p), Last(q)) = q
    BY <1>3, <1>6 DEF q
  <1>9. QED
    BY <1>2, <1>3, <1>6, <1>7, <1>8

-----------------------------------------------------------------------------
(* The pieces of documents.                                                *)

\* t is the body of the node at n.
BodyOf(w, n, t) ==
    /\ Separated(w, n) /\ t = ContentTarget(w, n)
    /\ w[t].who = w[n].who

Pieces(w, b) ==
    /\ AllGood(w)
    /\ \A p \in Files(w) : w[p].who \in b
    /\ \A p \in NodesOf(w) : Separated(w, p) =>
          \E t \in Files(w) \ NodesOf(w) : BodyOf(w, p, t) /\ Whole(p) /\ ~Whole(t)
    /\ \A t \in Files(w) \ NodesOf(w) : \E n \in NodesOf(w) : BodyOf(w, n, t)
    /\ \A p, q \in NodesOf(w) : w[p].who = w[q].who => p = q

\* Pieces that fit, fit whatever other documents there were.
LEMMA PiecesMore ==
    ASSUME NEW w, NEW b, NEW c, b \subseteq c, Pieces(w, b)
    PROVE  Pieces(w, c)
  BY DEF Pieces

\* Files in other texts fit as they did.
LEMMA PiecesLike ==
    ASSUME NEW e, NEW b, Pieces(e, b), NEW v, Like(e, v)
    PROVE  Pieces(v, b)
  <1>1. /\ v = [p \in Place |-> v[p]] /\ Files(v) = Files(e)
        /\ \A p \in Files(e) : /\ Good(v[p]) /\ v[p].who = e[p].who
                               /\ v[p].meta = e[p].meta /\ v[p].content = e[p].content
    BY DEF Like, Kin
  <1>2. AllGood(v)
    BY <1>1 DEF AllGood
  <1>3. NodesOf(v) = NodesOf(e) /\ NodesOf(e) \subseteq Files(e)
    BY <1>1 DEF NodesOf
  <1>4. \A n \in Files(e), t \in Files(e) : BodyOf(v, n, t) <=> BodyOf(e, n, t)
    BY <1>1 DEF BodyOf, Separated, ContentTarget
  <1>5. \A n \in Files(e) : Separated(v, n) <=> Separated(e, n)
    BY <1>1 DEF Separated
  <1>6. \A p \in Files(v) : v[p].who \in b
    BY <1>1 DEF Pieces
  <1>7. \A p \in NodesOf(v) : Separated(v, p) =>
            \E t \in Files(v) \ NodesOf(v) : BodyOf(v, p, t) /\ Whole(p) /\ ~Whole(t)
    BY <1>1, <1>3, <1>4, <1>5 DEF Pieces
  <1>8. \A t \in Files(v) \ NodesOf(v) : \E n \in NodesOf(v) : BodyOf(v, n, t)
    BY <1>1, <1>3, <1>4 DEF Pieces
  <1>9. \A p, q \in NodesOf(v) : v[p].who = v[q].who => p = q
    BY <1>1, <1>3 DEF Pieces
  <1>10. QED
    BY <1>2, <1>6, <1>7, <1>8, <1>9 DEF Pieces

\* Files in pieces that fit are together as PiecesTogether says: a document
\* has one node, and prose beside it exactly when the node is separated.
LEMMA PiecesApart ==
    ASSUME NEW b, Pieces(ws, b)
    PROVE  PiecesTogether
  <1> SUFFICES ASSUME NEW d \in born
               PROVE  LET pieces == {p \in Files(ws) : ws[p].who = d}
                          nodes  == pieces \cap NodesOf(ws)
                      IN  /\ pieces # {} => Cardinality(nodes) = 1
                          /\ \A p \in nodes :
                                pieces \ {p} = IF Separated(ws, p)
                                               THEN {ContentTarget(ws, p)} ELSE {}
    BY DEF PiecesTogether
  <1> DEFINE pieces == {p \in Files(ws) : ws[p].who = d}
             nodes  == pieces \cap NodesOf(ws)
  <1>1. ASSUME pieces # {} PROVE Cardinality(nodes) = 1
    <2>1. PICK x \in Files(ws) : ws[x].who = d
      BY <1>1
    <2>2. PICK n \in NodesOf(ws) : ws[n].who = d /\ n \in Files(ws)
      <3>1. CASE x \in NodesOf(ws)
        BY <2>1, <3>1
      <3>2. CASE x \notin NodesOf(ws)
        BY <2>1, <3>2 DEF Pieces, BodyOf, NodesOf
      <3>3. QED
        BY <3>1, <3>2
    <2>3. nodes = {n}
      BY <2>2 DEF Pieces
    <2>4. QED
      BY <2>3, FS_Singleton
  <1>2. ASSUME NEW p \in nodes
        PROVE  pieces \ {p} = IF Separated(ws, p) THEN {ContentTarget(ws, p)} ELSE {}
    <2>1. p \in NodesOf(ws) /\ p \in Files(ws) /\ ws[p].who = d
      OBVIOUS
    <2>2. \A t \in pieces \ {p} : Separated(ws, p) /\ t = ContentTarget(ws, p)
      <3> TAKE t \in pieces \ {p}
      <3>1. t \in Files(ws) /\ ws[t].who = d /\ t # p
        OBVIOUS
      <3>2. t \notin NodesOf(ws)
        BY <2>1, <3>1 DEF Pieces
      <3>3. PICK n \in NodesOf(ws) : BodyOf(ws, n, t)
        BY <3>1, <3>2 DEF Pieces
      <3>4. n = p
        BY <2>1, <3>1, <3>3 DEF Pieces, BodyOf
      <3>5. QED
        BY <3>3, <3>4 DEF BodyOf
    <2>3. ASSUME Separated(ws, p) PROVE ContentTarget(ws, p) \in pieces \ {p}
      <3>1. PICK t \in Files(ws) \ NodesOf(ws) : BodyOf(ws, p, t)
        BY <2>1, <2>3 DEF Pieces
      <3>2. QED
        BY <2>1, <3>1 DEF BodyOf
    <2>4. QED
      BY <2>2, <2>3
  <1>3. QED
    BY <1>1, <1>2

\* The files without those of the document whose node is at p.
Without(w, p) ==
    [x \in Place |-> IF x = p \/ (Separated(w, p) /\ x = ContentTarget(w, p))
                     THEN Absent ELSE w[x]]

\* Without one of its documents the rest of the workspace fits.
LEMMA PiecesWithout ==
    ASSUME NEW w, NEW b, Pieces(w, b), NEW p \in NodesOf(w)
    PROVE  /\ Pieces(Without(w, p), b \ {w[p].who})
           /\ w[p].who \in b
  <1> DEFINE e == Without(w, p)
             gone(x) == x = p \/ (Separated(w, p) /\ x = ContentTarget(w, p))
  <1>1. e = [x \in Place |-> e[x]] /\ \A x \in Place : e[x] = IF gone(x) THEN Absent ELSE w[x]
    BY DEF Without
  <1>2. /\ p \in Files(w) /\ p \in Place /\ w[p].meta
        /\ w[p].who \in b
        /\ \A x \in Files(w) : gone(x) => w[x].who = w[p].who
    <2>1. p \in Files(w) /\ p \in Place /\ w[p].meta /\ w[p].who \in b
      BY DEF NodesOf, Files, Pieces
    <2>2. ASSUME NEW x \in Files(w), gone(x), x # p PROVE w[x].who = w[p].who
      <3>1. PICK t \in Files(w) \ NodesOf(w) : BodyOf(w, p, t)
        BY <2>2 DEF Pieces
      <3>2. QED
        BY <2>2, <3>1 DEF BodyOf
    <2>3. QED
      BY <2>1, <2>2
  <1>3. \A x \in Files(w) : ~gone(x) => w[x].who # w[p].who
    <2> SUFFICES ASSUME NEW x \in Files(w), ~gone(x), w[x].who = w[p].who
                 PROVE  FALSE
      OBVIOUS
    <2>1. x \notin NodesOf(w)
      BY DEF Pieces
    <2>2. PICK n \in NodesOf(w) : BodyOf(w, n, x)
      BY <2>1 DEF Pieces
    <2>3. n = p
      BY <2>2 DEF Pieces, BodyOf
    <2>4. QED
      BY <2>2, <2>3 DEF BodyOf
  <1>4. /\ \A x : x \in Files(e) <=> x \in Files(w) /\ ~gone(x)
        /\ \A x \in Files(e) : e[x] = w[x]
    BY <1>1 DEF Files
  <1>5. \A x : x \in NodesOf(e) <=> x \in NodesOf(w) /\ ~gone(x)
    BY <1>4 DEF NodesOf
  <1> HIDE DEF e, gone
  <1>6. AllGood(e)
    BY <1>1, <1>4 DEF AllGood, Pieces
  <1>7. \A x \in Files(e) : e[x].who \in b \ {w[p].who}
    BY <1>3, <1>4 DEF Pieces
  <1>8. ASSUME NEW n \in NodesOf(e), Separated(e, n)
        PROVE  \E t \in Files(e) \ NodesOf(e) : BodyOf(e, n, t) /\ Whole(n) /\ ~Whole(t)
    <2>1. n \in NodesOf(w) /\ ~gone(n) /\ n \in Files(e) /\ n \in Files(w) /\ Separated(w, n)
      BY <1>4, <1>5, <1>8 DEF NodesOf, Separated
    <2>2. PICK t \in Files(w) \ NodesOf(w) : BodyOf(w, n, t) /\ Whole(n) /\ ~Whole(t)
      BY <2>1 DEF Pieces
    <2>3. ~gone(t)
      BY <1>2, <1>3, <2>1, <2>2 DEF BodyOf
    <2>4. t \in Files(e) \ NodesOf(e)
      BY <1>4, <1>5, <2>2, <2>3
    <2>5. BodyOf(e, n, t)
      BY <1>4, <2>1, <2>2, <2>4 DEF BodyOf, Separated, ContentTarget
    <2>6. QED
      BY <2>2, <2>4, <2>5
  <1>9. ASSUME NEW t \in Files(e) \ NodesOf(e)
        PROVE  \E n \in NodesOf(e) : BodyOf(e, n, t)
    <2>1. t \in Files(w) \ NodesOf(w) /\ ~gone(t)
      BY <1>4, <1>5
    <2>2. PICK n \in NodesOf(w) : BodyOf(w, n, t)
      BY <2>1 DEF Pieces
    <2>3. ~gone(n)
      BY <1>2, <1>3, <2>1, <2>2 DEF BodyOf, NodesOf
    <2>4. n \in NodesOf(e) /\ n \in Files(e)
      BY <1>4, <1>5, <2>2, <2>3 DEF NodesOf
    <2>5. QED
      BY <1>4, <2>2, <2>4 DEF BodyOf, Separated, ContentTarget
  <1>10. \A m, n \in NodesOf(e) : e[m].who = e[n].who => m = n
    BY <1>4, <1>5 DEF Pieces, NodesOf
  <1>11. QED
    BY <1>2, <1>6, <1>7, <1>8, <1>9, <1>10 DEF Pieces, e

\* A document of one file that may be put at n, and one of a node at n and
\* prose at t.
Fresh1(w, n, f, b) ==
    /\ n \in Place /\ n \notin Files(w)
    /\ Good(f) /\ f.meta /\ f.content = <<>> /\ f.who \notin b

Fresh2(w, n, f, t, g, b) ==
    /\ n \in Place /\ n \notin Files(w) /\ t \in Place /\ t \notin Files(w)
    /\ Good(f) /\ f.meta /\ f.content # <<>> /\ f.who \notin b
    /\ Good(g) /\ ~g.meta /\ g.who = f.who
    /\ Whole(n) /\ ~Whole(t) /\ t = Append(Dir(n), f.content[1])

\* The files with a new document, of one file.
LEMMA PiecesOne ==
    ASSUME NEW w, NEW b, Pieces(w, b), NEW n, NEW f, Fresh1(w, n, f, b)
    PROVE  Pieces([w EXCEPT ![n] = f], b \cup {f.who})
  <1>0. /\ n \in Place /\ n \notin Files(w)
        /\ Good(f) /\ f.meta /\ f.content = <<>> /\ f.who \notin b
    BY DEF Fresh1
  <1> DEFINE e == [w EXCEPT ![n] = f]
  <1>1. w = [x \in Place |-> w[x]]
    BY <1>0 DEF Pieces, AllGood
  <1>2. e = [x \in Place |-> IF x = n THEN f ELSE w[x]]
    BY <1>0, <1>1
  <1> HIDE DEF e
  <1>3. f # Absent
    BY <1>0, GoodThere
  <1>4. /\ n \in Files(e) /\ e[n] = f
        /\ \A x : x \in Files(e) <=> x \in Files(w) \/ x = n
        /\ \A x \in Files(w) : e[x] = w[x] /\ x # n
    BY <1>0, <1>2, <1>3 DEF Files
  <1>5. /\ n \in NodesOf(e)
        /\ \A x : x \in NodesOf(e) <=> x \in NodesOf(w) \/ x = n
        /\ \A x \in NodesOf(w) : x \in Files(w)
    BY <1>0, <1>4 DEF NodesOf
  <1>6. AllGood(e)
    BY <1>0, <1>2, <1>4 DEF AllGood, Pieces
  <1>7. \A x \in Files(e) : e[x].who \in b \cup {f.who}
    BY <1>0, <1>4 DEF Pieces
  <1>8. \A x \in Files(w), t \in Files(w) : BodyOf(e, x, t) <=> BodyOf(w, x, t)
    BY <1>0, <1>4 DEF BodyOf, Separated, ContentTarget
  <1>9. ~Separated(e, n)
    BY <1>0, <1>4 DEF Separated
  <1>10. \A x \in Files(w) : Separated(e, x) <=> Separated(w, x)
    BY <1>0, <1>4 DEF Separated
  <1>11. \A x \in NodesOf(e) : Separated(e, x) =>
            \E t \in Files(e) \ NodesOf(e) : BodyOf(e, x, t) /\ Whole(x) /\ ~Whole(t)
    <2> SUFFICES ASSUME NEW x \in NodesOf(e), Separated(e, x)
                 PROVE  \E t \in Files(e) \ NodesOf(e) :
                            BodyOf(e, x, t) /\ Whole(x) /\ ~Whole(t)
      OBVIOUS
    <2>1. x \in NodesOf(w) /\ x \in Files(w) /\ Separated(w, x)
      BY <1>0, <1>5, <1>9, <1>10
    <2>2. PICK t \in Files(w) \ NodesOf(w) : BodyOf(w, x, t) /\ Whole(x) /\ ~Whole(t)
      BY <1>0, <2>1 DEF Pieces
    <2>3. t \in Files(e) \ NodesOf(e)
      BY <1>0, <1>4, <1>5, <2>2
    <2>4. QED
      BY <1>0, <1>8, <2>1, <2>2, <2>3
  <1>12. \A t \in Files(e) \ NodesOf(e) : \E m \in NodesOf(e) : BodyOf(e, m, t)
    <2> TAKE t \in Files(e) \ NodesOf(e)
    <2>1. t \in Files(w) \ NodesOf(w)
      BY <1>0, <1>4, <1>5
    <2>2. PICK m \in NodesOf(w) : BodyOf(w, m, t)
      BY <1>0, <2>1 DEF Pieces
    <2>3. QED
      BY <1>0, <1>5, <1>8, <2>1, <2>2
  <1>13. \A p, q \in NodesOf(e) : e[p].who = e[q].who => p = q
    BY <1>0, <1>4, <1>5 DEF Pieces
  <1>14. QED
    BY <1>0, <1>6, <1>7, <1>11, <1>12, <1>13 DEF Pieces, e

\* The files with a new document, of a node and its prose.
LEMMA PiecesTwo ==
    ASSUME NEW w, NEW b, Pieces(w, b), NEW n, NEW f, NEW t, NEW g, Fresh2(w, n, f, t, g, b)
    PROVE  Pieces([w EXCEPT ![n] = f, ![t] = g], b \cup {f.who})
  <1>0. /\ n \in Place /\ n \notin Files(w) /\ Good(f) /\ f.meta /\ f.content # <<>>
        /\ f.who \notin b /\ Whole(n) /\ t \in Place /\ t \notin Files(w) /\ ~Whole(t)
        /\ t = Append(Dir(n), f.content[1]) /\ Good(g) /\ ~g.meta /\ g.who = f.who
    BY DEF Fresh2
  <1> DEFINE e == [w EXCEPT ![n] = f, ![t] = g]
  <1>1. w = [x \in Place |-> w[x]] /\ n # t
    BY <1>0 DEF Pieces, AllGood
  <1>2. e = [x \in Place |-> IF x = t THEN g ELSE IF x = n THEN f ELSE w[x]]
    BY <1>0, <1>1
  <1> HIDE DEF e
  <1>3. f # Absent /\ g # Absent
    BY <1>0, GoodThere
  <1>4. /\ n \in Files(e) /\ e[n] = f /\ t \in Files(e) /\ e[t] = g
        /\ \A x : x \in Files(e) <=> x \in Files(w) \/ x = n \/ x = t
        /\ \A x \in Files(w) : e[x] = w[x] /\ x # n /\ x # t
    BY <1>0, <1>1, <1>2, <1>3 DEF Files
  <1>5. /\ n \in NodesOf(e) /\ t \notin NodesOf(e)
        /\ \A x : x \in NodesOf(e) <=> x \in NodesOf(w) \/ x = n
        /\ \A x \in NodesOf(w) : x \in Files(w)
    BY <1>0, <1>4 DEF NodesOf
  <1>6. AllGood(e)
    BY <1>0, <1>2, <1>4 DEF AllGood, Pieces
  <1>7. \A x \in Files(e) : e[x].who \in b \cup {f.who}
    BY <1>0, <1>4 DEF Pieces
  <1>8. \A x \in Files(w), y \in Files(w) : BodyOf(e, x, y) <=> BodyOf(w, x, y)
    BY <1>0, <1>4 DEF BodyOf, Separated, ContentTarget
  <1>9. BodyOf(e, n, t)
    BY <1>0, <1>4 DEF Separated, BodyOf, ContentTarget
  <1>10. \A x \in Files(w) : Separated(e, x) <=> Separated(w, x)
    BY <1>0, <1>4 DEF Separated
  <1>11. \A x \in NodesOf(e) : Separated(e, x) =>
            \E y \in Files(e) \ NodesOf(e) : BodyOf(e, x, y) /\ Whole(x) /\ ~Whole(y)
    <2> SUFFICES ASSUME NEW x \in NodesOf(e), Separated(e, x)
                 PROVE  \E y \in Files(e) \ NodesOf(e) :
                            BodyOf(e, x, y) /\ Whole(x) /\ ~Whole(y)
      OBVIOUS
    <2>1. CASE x = n
      BY <1>0, <1>4, <1>5, <1>9, <2>1
    <2>2. CASE x # n
      <3>1. x \in NodesOf(w) /\ x \in Files(w) /\ Separated(w, x)
        BY <1>0, <1>5, <1>10, <2>2
      <3>2. PICK y \in Files(w) \ NodesOf(w) : BodyOf(w, x, y) /\ Whole(x) /\ ~Whole(y)
        BY <1>0, <3>1 DEF Pieces
      <3>3. y \in Files(e) \ NodesOf(e)
        BY <1>0, <1>4, <1>5, <3>2
      <3>4. QED
        BY <1>0, <1>8, <3>1, <3>2, <3>3
    <2>3. QED
      BY <1>0, <2>1, <2>2
  <1>12. \A y \in Files(e) \ NodesOf(e) : \E m \in NodesOf(e) : BodyOf(e, m, y)
    <2> TAKE y \in Files(e) \ NodesOf(e)
    <2>1. CASE y = t
      BY <1>0, <1>5, <1>9, <2>1
    <2>2. CASE y # t
      <3>1. y \in Files(w) \ NodesOf(w)
        BY <1>0, <1>4, <1>5, <2>2
      <3>2. PICK m \in NodesOf(w) : BodyOf(w, m, y)
        BY <1>0, <3>1 DEF Pieces
      <3>3. QED
        BY <1>0, <1>5, <1>8, <3>1, <3>2
    <2>3. QED
      BY <1>0, <2>1, <2>2
  <1>13. \A p, q \in NodesOf(e) : e[p].who = e[q].who => p = q
    BY <1>0, <1>4, <1>5 DEF Pieces
  <1>14. QED
    BY <1>0, <1>6, <1>7, <1>11, <1>12, <1>13 DEF Pieces, e

-----------------------------------------------------------------------------
(* Edits.                                                                  *)

Links3 == {"contents", "part_of", "links"}

\* A file with other links and other prose is a later text of it.
LEMMA KinEdit ==
    ASSUME NEW f, NEW R, NEW B, NEW g, g = [f EXCEPT !.rel = R, !.body = B],
           Good(f), R = [r \in Links3 |-> R[r]], \A r \in Links3 : IsSeq(R[r]),
           f.meta \/ R = NoLinks
    PROVE  Kin(f, g)
  <1>1. f = [x \in {"who", "meta", "title", "rel", "content", "body"} |-> f[x]]
    BY DEF Good
  <1>2. /\ g = [x \in {"who", "meta", "title", "rel", "content", "body"} |-> g[x]]
        /\ g.who = f.who /\ g.meta = f.meta /\ g.content = f.content /\ g.rel = R
    BY <1>1
  <1>3. /\ g.meta \in BOOLEAN
        /\ g.rel = [r \in {"contents", "part_of", "links"} |-> g.rel[r]]
        /\ \A r \in {"contents", "part_of", "links"} : IsSeq(g.rel[r])
        /\ ~g.meta => g.rel = NoLinks /\ g.content = <<>>
    BY <1>2 DEF Good, Links3
  <1>4. Good(g)
    BY <1>2, <1>3 DEF Good
  <1>5. QED
    BY <1>2, <1>4 DEF Kin

\* A file with other links.
LEMMA KinRel ==
    ASSUME NEW f, NEW R, NEW g, g = [f EXCEPT !.rel = R],
           Good(f), R = [r \in Links3 |-> R[r]], \A r \in Links3 : IsSeq(R[r]),
           f.meta \/ R = NoLinks
    PROVE  Kin(f, g)
  <1>1. f = [x \in {"who", "meta", "title", "rel", "content", "body"} |-> f[x]]
    BY DEF Good
  <1>2. g = [f EXCEPT !.rel = R, !.body = f.body]
    BY <1>1
  <1>3. QED
    BY <1>2, KinEdit

\* A file is a text of itself.
LEMMA KinSelf ==
    ASSUME NEW f, Good(f)
    PROVE  Kin(f, f)
  BY DEF Kin

\* A file with other links of one relation.
LEMMA KinOneRel ==
    ASSUME NEW f, NEW r \in Links3, NEW v, NEW g,
           g = [f EXCEPT !.rel = [f.rel EXCEPT ![r] = v]],
           Good(f), f.meta, IsSeq(v)
    PROVE  Kin(f, g)
  <1> DEFINE R == [f.rel EXCEPT ![r] = v]
  <1>1. f.rel = [x \in Links3 |-> f.rel[x]] /\ \A x \in Links3 : IsSeq(f.rel[x])
    BY DEF Good, Links3
  <1>2. R = [x \in Links3 |-> R[x]] /\ \A x \in Links3 : IsSeq(R[x])
    BY <1>1
  <1>3. g = [f EXCEPT !.rel = R]
    OBVIOUS
  <1> HIDE DEF R
  <1>4. QED
    BY <1>2, <1>3, KinRel

\* Adding a link up or down.
LEMMA KinAdds ==
    ASSUME NEW f, Good(f), f.meta, NEW l
    PROVE  Kin(f, SetUp(f, l)) /\ Kin(f, AddDown(f, l))
  <1>1. /\ f = [x \in {"who", "meta", "title", "rel", "content", "body"} |-> f[x]]
        /\ f.meta = TRUE /\ IsSeq(f.rel["contents"])
    BY DEF Good
  <1>2. Kin(f, SetUp(f, l))
    <2>1. SetUp(f, l) = [f EXCEPT !.meta = TRUE, !.rel = [f.rel EXCEPT !["part_of"] = <<l>>]]
      BY DEF SetUp
    <2>2. SetUp(f, l) = [f EXCEPT !.rel = [f.rel EXCEPT !["part_of"] = <<l>>]]
      BY <1>1, <2>1
    <2>3. "part_of" \in Links3
      BY DEF Links3
    <2>4. IsSeq(<<l>>)
      BY <1>1, SeqAppend
    <2>5. QED
      BY <2>2, <2>3, <2>4, KinOneRel
  <1>3. Kin(f, AddDown(f, l))
    <2> DEFINE v == Append(f.rel["contents"], l)
    <2>1. AddDown(f, l) = [f EXCEPT !.meta = TRUE, !.rel = [f.rel EXCEPT !["contents"] = v]]
      BY DEF AddDown
    <2>2. AddDown(f, l) = [f EXCEPT !.rel = [f.rel EXCEPT !["contents"] = v]]
      BY <1>1, <2>1
    <2>3. "contents" \in Links3
      BY DEF Links3
    <2>4. IsSeq(v)
      BY <1>1, SeqAppend
    <2> HIDE DEF v
    <2>5. QED
      BY <2>2, <2>3, <2>4, KinOneRel
  <1>4. QED
    BY <1>2, <1>3

\* Without one of its entries a list is a list.
LEMMA SeqRemove ==
    ASSUME NEW s, IsSeq(s), NEW i \in DOMAIN s
    PROVE  IsSeq(RemoveAt(s, i))
  <1>1. PICK C : s \in Seq(C)
    BY DEF IsSeq
  <1>2. Len(s) \in Nat /\ i \in 1..Len(s)
    BY <1>1
  <1>3. SubSeq(s, 1, i - 1) \in Seq(C)
    <2>1. i - 1 \in 0..Len(s)
      BY <1>2
    <2>2. QED
      BY <1>1, <2>1, PrefixIs
  <1>4. SubSeq(s, i + 1, Len(s)) \in Seq(C)
    <2>1. i + 1 \in Int /\ Len(s) \in Int
      BY <1>2
    <2>2. \A k \in (i + 1)..Len(s) : s[k] \in C
      BY <1>1, <1>2
    <2>3. QED
      BY <1>1, <2>1, <2>2, SubSeqProperties
  <1>5. RemoveAt(s, i) \in Seq(C)
    BY <1>3, <1>4, ConcatProperties DEF RemoveAt
  <1>6. QED
    BY <1>5 DEF IsSeq

\* The first of some positions is one of them.
LEMMA FirstIs ==
    ASSUME NEW S, S \subseteq Nat, S # {}
    PROVE  FirstOf(S) \in S
  <1>1. PICK m \in S : \A k \in S : m <= k
    BY Least
  <1>2. QED
    BY <1>1 DEF FirstOf

\* Dropping an entry, or finding none to drop.
LEMMA KinDrop ==
    ASSUME NEW f, Good(f), NEW doc, NEW child
    PROVE  Kin(f, DropDown(f, doc, child))
  <1> DEFINE at == Entries(f, doc, "contents", child)
             l == f.rel["contents"]
             v == RemoveAt(l, FirstOf(at))
  <1>1. CASE at = {}
    BY <1>1, KinSelf DEF DropDown
  <1>2. CASE at # {}
    <2>1. DropDown(f, doc, child) = [f EXCEPT !.rel = [f.rel EXCEPT !["contents"] = v]]
      BY <1>2 DEF DropDown
    <2>2. IsSeq(l)
      BY DEF Good
    <2>3. Len(l) \in Nat /\ DOMAIN l = 1..Len(l) /\ at \subseteq DOMAIN l
      BY <2>2, SeqIs DEF Entries
    <2>4. f.meta
      <3>1. CASE ~f.meta
        <4>1. l = <<>>
          BY <3>1 DEF Good, NoLinks
        <4>2. at = {}
          BY <4>1 DEF Entries
        <4>3. QED
          BY <1>2, <4>2
      <3>2. QED
        BY <3>1 DEF Good
    <2> HIDE DEF at, l
    <2>5. FirstOf(at) \in DOMAIN l
      <3>1. at \subseteq Nat
        BY <2>3
      <3>2. QED
        BY <1>2, <2>3, <3>1, FirstIs
    <2>6. IsSeq(v)
      BY <2>2, <2>5, SeqRemove
    <2>7. "contents" \in Links3
      BY DEF Links3
    <2> HIDE DEF v
    <2>8. QED
      BY <2>1, <2>4, <2>6, <2>7, KinOneRel
  <1>3. QED
    BY <1>1, <1>2

\* Editing link by link leaves prose alone without links of metadata.
LEMMA KinMoved ==
    ASSUME NEW f, Good(f), NEW from, NEW to
    PROVE  Kin(f, Rerelativized(f, from, to))
  <1> DEFINE move(l) == [l EXCEPT !.text = Relative(Dir(to), Resolve(from, l.text))]
             R == [r \in DOMAIN f.rel |-> MapLinks(move, f.rel[r])]
  <1>1. CASE Dir(from) = Dir(to)
    BY <1>1, KinSelf DEF Rerelativized
  <1>2. CASE Dir(from) # Dir(to)
    <2>1. DOMAIN f.rel = Links3
      BY DEF Good, Links3
    <2>2. R = [r \in Links3 |-> R[r]] /\ \A r \in Links3 : IsSeq(R[r])
      <3>1. \A r \in Links3 : R[r] = [i \in DOMAIN f.rel[r] |-> R[r][i]] /\ IsSeq(f.rel[r])
        BY <2>1 DEF MapLinks, Good, Links3
      <3>2. \A r \in Links3 : IsSeq(R[r])
        <4> HIDE DEF R
        <4>1. QED
          BY <3>1, SeqOn
      <3>3. QED
        BY <2>1, <3>2
    <2>3. f.meta \/ R = NoLinks
      BY <2>1 DEF Good, NoLinks, MapLinks, Links3
    <2>4. Rerelativized(f, from, to) = [f EXCEPT !.rel = R, !.body = MapLinks(move, f.body)]
      BY <1>2 DEF Rerelativized, EditLinks
    <2> HIDE DEF R
    <2>5. QED
      BY <2>2, <2>3, <2>4, KinEdit
  <1>3. QED
    BY <1>1, <1>2

\* Spelling links in a style.
LEMMA KinRestyled ==
    ASSUME NEW f, Good(f), NEW doc, NEW style
    PROVE  Kin(f, Restyled(f, doc, style))
  <1> DEFINE spell(l) == IF AliasShaped(l.text) THEN l
                         ELSE [l EXCEPT !.text = PathText(style, doc, Resolve(doc, l.text))]
             R == [r \in DOMAIN f.rel |-> MapLinks(spell, f.rel[r])]
  <1>1. DOMAIN f.rel = Links3
    BY DEF Good, Links3
  <1>2. R = [r \in Links3 |-> R[r]] /\ \A r \in Links3 : IsSeq(R[r])
    <2>1. \A r \in Links3 : R[r] = [i \in DOMAIN f.rel[r] |-> R[r][i]] /\ IsSeq(f.rel[r])
      BY <1>1 DEF MapLinks, Good, Links3
    <2>2. \A r \in Links3 : IsSeq(R[r])
      <3> HIDE DEF R
      <3>1. QED
        BY <2>1, SeqOn
    <2>3. QED
      BY <1>1, <2>2
  <1>3. f.meta \/ R = NoLinks
    BY <1>1 DEF Good, NoLinks, MapLinks, Links3
  <1>4. Restyled(f, doc, style) = [f EXCEPT !.rel = R, !.body = MapLinks(spell, f.body)]
    BY DEF Restyled, EditLinks
  <1> HIDE DEF R
  <1>5. QED
    BY <1>2, <1>3, <1>4, KinEdit

\* Giving the links to a document its new title.
LEMMA KinRelabelled ==
    ASSUME NEW f, Good(f), NEW source, NEW to, NEW title
    PROVE  Kin(f, Relabelled(f, source, to, title))
  <1> DEFINE fresh(l) == IF l.label # <<>> /\ ResolveLink(source, l) = to
                         THEN [l EXCEPT !.label = title] ELSE l
             R == [r \in DOMAIN f.rel |-> MapLinks(fresh, f.rel[r])]
  <1>1. DOMAIN f.rel = Links3
    BY DEF Good, Links3
  <1>2. R = [r \in Links3 |-> R[r]] /\ \A r \in Links3 : IsSeq(R[r])
    <2>1. \A r \in Links3 : R[r] = [i \in DOMAIN f.rel[r] |-> R[r][i]] /\ IsSeq(f.rel[r])
      BY <1>1 DEF MapLinks, Good, Links3
    <2>2. \A r \in Links3 : IsSeq(R[r])
      <3> HIDE DEF R
      <3>1. QED
        BY <2>1, SeqOn
    <2>3. QED
      BY <1>1, <2>2
  <1>3. f.meta \/ R = NoLinks
    BY <1>1 DEF Good, NoLinks, MapLinks, Links3
  <1>4. Relabelled(f, source, to, title) = [f EXCEPT !.rel = R]
    BY DEF Relabelled
  <1> HIDE DEF R
  <1>5. QED
    BY <1>2, <1>3, <1>4, KinRel

\* Leading the links to one path to another; prose without links stays.
LEMMA KinRetargeted ==
    ASSUME NEW f, Good(f), NEW source, NEW from, NEW to
    PROVE  /\ Kin(f, Retargeted(f, source, from, to))
           /\ ~f.meta /\ f.body = <<>> => Retargeted(f, source, from, to) = f
  <1> DEFINE reach(l) == [l EXCEPT !.text = Relative(Dir(source), to)]
             prose(l) == IF ResolveLink(source, l) = from THEN reach(l) ELSE l
             at(r) == Entries(f, source, r, from)
             first(r) == IF at(r) = {} THEN f.rel[r]
                         ELSE [f.rel[r] EXCEPT ![FirstOf(at(r))] = reach(f.rel[r][FirstOf(at(r))])]
             R == [r \in DOMAIN f.rel |-> first(r)]
             B == MapLinks(prose, f.body)
  <1>1. DOMAIN f.rel = Links3
    BY DEF Good, Links3
  <1>2. R = [r \in Links3 |-> R[r]] /\ \A r \in Links3 : IsSeq(R[r])
    <2>1. ASSUME NEW r \in Links3 PROVE IsSeq(R[r])
      <3> DEFINE l == f.rel[r]
      <3>1. IsSeq(l)
        BY DEF Good, Links3
      <3>2. \E C : l \in Seq(C)
        BY <3>1 DEF IsSeq
      <3>3. l = [i \in DOMAIN l |-> l[i]]
        BY <3>2
      <3>4. R[r] = first(r)
        BY <1>1
      <3>5. first(r) = [i \in DOMAIN l |-> first(r)[i]]
        <4>1. first(r) = l \/ \E k, x : first(r) = [l EXCEPT ![k] = x]
          OBVIOUS
        <4> HIDE DEF l, first
        <4>2. QED
          BY <3>3, <4>1
      <3> HIDE DEF first, R, l
      <3>6. IsSeq(first(r))
        BY <3>1, <3>5, SeqOn
      <3>7. QED
        BY <3>4, <3>6
    <2>2. QED
      BY <1>1, <2>1
  <1>3. ASSUME ~f.meta PROVE R = NoLinks /\ f.rel = NoLinks
    <2>1. \A r \in Links3 : f.rel[r] = <<>>
      BY <1>3 DEF Good, NoLinks, Links3
    <2>2. \A r \in Links3 : at(r) = {}
      BY <2>1 DEF Entries
    <2>3. \A r \in Links3 : R[r] = <<>>
      BY <1>1, <2>1, <2>2
    <2> HIDE DEF R
    <2>4. R = NoLinks
      BY <1>2, <2>3 DEF NoLinks, Links3
    <2>5. QED
      BY <1>3, <2>4 DEF Good
  <1>4. Retargeted(f, source, from, to) = [f EXCEPT !.rel = R, !.body = B]
    BY DEF Retargeted
  <1>5. f.body = <<>> => B = f.body
    BY DEF MapLinks
  <1> HIDE DEF R, B
  <1>6. Kin(f, Retargeted(f, source, from, to))
    BY <1>2, <1>3, <1>4, KinEdit
  <1>7. ASSUME ~f.meta, f.body = <<>> PROVE Retargeted(f, source, from, to) = f
    <2>1. f = [x \in {"who", "meta", "title", "rel", "content", "body"} |-> f[x]]
      BY DEF Good
    <2>2. [f EXCEPT !.rel = f.rel, !.body = f.body] = f
      BY <2>1
    <2>3. R = f.rel /\ B = f.body
      BY <1>3, <1>5, <1>7
    <2>4. QED
      BY <1>4, <2>2, <2>3
  <1>8. QED
    BY <1>6, <1>7

-----------------------------------------------------------------------------
(* Whose links are edited.                                                 *)

\* What is read once for its value is its value.
LEMMA WithSame ==
    ASSUME NEW x, NEW y
    PROVE  (CHOOSE z \in {y : w \in {x}} : TRUE) = y
  <1>1. {y : w \in {x}} = {y}
    OBVIOUS
  <1>2. QED
    BY <1>1

\* The sources of a census have files.
LEMMA InboundThere ==
    ASSUME NEW p
    PROVE  Inbound(p) \subseteq Files(ws) \ {p}
  <1> DEFINE top == SpanningRoot(ws, p)
             of(scope) == CensusOf(ws, scope, WalkIn(ws, scope, top).read \cap Files(ws))
             scope == TitleScope(ws, top)
  <1>1. Census(ws, top) = CHOOSE z \in {of(y) : y \in {scope}} : TRUE
    BY DEF Census, With
  <1>2. {of(y) : y \in {scope}} = {of(scope)}
    OBVIOUS
  <1>3. Census(ws, top) = of(scope)
    BY <1>1, <1>2
  <1> DEFINE walked == WalkIn(ws, scope, top).read \cap Files(ws)
  <1>4. Census(ws, top) = CensusOf(ws, scope, walked)
    BY <1>3
  <1>5. walked \subseteq Files(ws)
    OBVIOUS
  <1> HIDE DEF walked, scope, of
  <1>6. \A c \in Census(ws, top) : c.source \in Files(ws)
    BY <1>4, <1>5 DEF CensusOf
  <1>7. Inbound(p) = {e.source : e \in {c \in Census(ws, top) :
                          c.leads.kind = "file" /\ c.leads.path = p}} \ {p}
    BY DEF Inbound
  <1> HIDE DEF top
  <1>8. QED
    BY <1>6, <1>7

\* Whatever is widened n times within the files stays within them.
LEMMA SubtreeThere ==
    ASSUME NEW p
    PROVE  SpanningSubtree(ws, p) \subseteq Files(ws)
  <1> DEFINE N == Cardinality(Place)
             down(q) == {ResolveLink(q, l) : l \in ToSet(Edges(ws, q, "contents"))}
             wider(S) == S \cup ((UNION {down(q) : q \in S}) \cap Files(ws))
             x == {p} \cap Files(ws)
             step(f, k) == IF k = 0 THEN x ELSE wider(f[k - 1])
             tick == [k \in 1..N |-> k]
             h == CHOOSE f : f = [k \in 0..Len(tick) |->
                      IF k = 0 THEN x
                      ELSE CHOOSE z \in {wider(y) : y \in {f[k - 1]}} : TRUE]
             runs(n) == \E f : f = [k \in 0..n |-> step(f, k)]
  <1>1. N \in Nat
    BY PlacesAssumption, FS_CardinalityType
  <1>2. Len(tick) = N
    <2>1. tick \in Seq(Nat)
      BY <1>1
    <2>2. QED
      BY <1>1, <2>1
  <1>3. SpanningSubtree(ws, p) = h[N]
    BY <1>2 DEF SpanningSubtree, Repeat, Fold, With
  <1>4. \A y : (CHOOSE z \in {wider(w) : w \in {y}} : TRUE) = wider(y)
    <2> TAKE y
    <2>1. {wider(w) : w \in {y}} = {wider(y)}
      OBVIOUS
    <2> HIDE DEF wider
    <2>2. QED
      BY <2>1
  <1> HIDE DEF tick
  <1>5. \A f : f = [k \in 0..Len(tick) |->
                      IF k = 0 THEN x
                      ELSE CHOOSE z \in {wider(y) : y \in {f[k - 1]}} : TRUE]
               <=> f = [k \in 0..N |-> step(f, k)]
    BY <1>2, <1>4
  <1>6. \A S : S \subseteq Files(ws) => wider(S) \subseteq Files(ws)
    <2>1. \A S, U : S \subseteq Files(ws) => S \cup (U \cap Files(ws)) \subseteq Files(ws)
      OBVIOUS
    <2>2. QED
      BY <2>1
  <1> HIDE DEF wider
  <1>7. runs(N)
    <2> DEFINE S == {n \in 0..N : runs(n)}
    <2>1. 0 \in S
      <3> DEFINE f0 == [k \in 0..0 |-> x]
      <3>1. f0 = [k \in 0..0 |-> step(f0, k)]
        OBVIOUS
      <3> HIDE DEF f0, step
      <3>2. runs(0)
        BY <3>1
      <3> HIDE DEF runs
      <3>3. QED
        BY <1>1, <3>2
    <2>2. ASSUME NEW m \in 1..N, m - 1 \in S PROVE m \in S
      <3>1. PICK f : f = [k \in 0..(m - 1) |-> step(f, k)]
        BY <2>2
      <3> DEFINE g == [k \in 0..m |-> IF k = m THEN wider(f[m - 1]) ELSE f[k]]
      <3>2. \A k \in 0..(m - 1) : f[k] = step(f, k)
        BY <3>1
      <3>3. \A k \in 0..m : g[k] = step(g, k)
        <4> TAKE k \in 0..m
        <4>1. CASE k = m
          BY <1>1, <4>1
        <4>2. CASE k # m
          <5>1. k \in 0..(m - 1) /\ (k # 0 => k - 1 \in 0..m /\ k - 1 # m)
            BY <1>1, <4>2
          <5>2. step(g, k) = step(f, k)
            BY <5>1
          <5>3. g[k] = f[k]
            BY <5>1, <4>2
          <5>4. QED
            BY <5>1, <5>2, <5>3, <3>2
        <4>3. QED
          BY <4>1, <4>2
      <3>4. g = [k \in 0..m |-> g[k]]
        OBVIOUS
      <3> HIDE DEF g, step
      <3>5. g = [k \in 0..m |-> step(g, k)]
        BY <3>3, <3>4
      <3>6. QED
        BY <1>1, <3>5
    <2> HIDE DEF S
    <2>3. N \in S
      BY <1>1, <2>1, <2>2, Upto
    <2>4. QED
      BY <2>3 DEF S
  <1>8. h = [k \in 0..N |-> step(h, k)]
    <2> HIDE DEF step
    <2>1. PICK f : f = [k \in 0..N |-> step(f, k)]
      BY <1>7
    <2>2. QED
      BY <1>5, <2>1
  <1> HIDE DEF h
  <1>9. \A k \in 0..N : h[k] = step(h, k)
    <2> HIDE DEF step
    <2>1. QED
      BY <1>8
  <1> DEFINE T == {k \in 0..N : h[k] \subseteq Files(ws)}
  <1>10. 0 \in T
    BY <1>1, <1>9
  <1>11. ASSUME NEW k \in 1..N, k - 1 \in T PROVE k \in T
    <2>1. k \in 0..N /\ k # 0 /\ h[k - 1] \subseteq Files(ws)
      BY <1>1, <1>11
    <2>2. h[k] = wider(h[k - 1])
      BY <1>9, <2>1
    <2>3. QED
      BY <1>6, <2>1, <2>2
  <1> HIDE DEF T
  <1>12. N \in T
    BY <1>1, <1>10, <1>11, Upto
  <1>13. QED
    BY <1>3, <1>12 DEF T

\* e holds the files with links to p as they are in the workspace.
Spares(e, p) ==
    \A s \in Inbound(p) :
        ws[s].meta \/ ws[s].body # <<>> => s \in Files(e) /\ e[s] = ws[s]

\* The set writes such files.
Respells(t, p) ==
    \A i \in 1..Len(t) :
        \E s \in Inbound(p) : \E f : t[i] = Ops!Write(s, f) /\ (ws[s].meta \/ ws[s].body # <<>>)

\* Writing anew the files an edit changes.
LEMMA RetargetsKeep ==
    ASSUME NEW e, NEW from, NEW to, AllGood(ws), Spares(e, from)
    PROVE  /\ Keeps(InboundRewrites(from, to), e)
           /\ Respells(InboundRewrites(from, to), from)
  <1> DEFINE g == [s \in Inbound(from) |-> Retargeted(ws[s], s, from, to)]
             S == {s \in Inbound(from) : Retargeted(ws[s], s, from, to) # ws[s]}
             t == InboundRewrites(from, to)
  <1>1. t = [i \in 1..Cardinality(S) |->
                Ops!Write(SetToSeq(S)[i],
                          Retargeted(ws[SetToSeq(S)[i]], SetToSeq(S)[i], from, to))]
    BY DEF InboundRewrites, Rewrites
  <1>2. \A s \in Inbound(from) : s \in Files(ws) /\ Good(ws[s])
    BY InboundThere DEF AllGood
  <1>3. \A s \in S : ws[s].meta \/ ws[s].body # <<>>
    BY <1>2, KinRetargeted
  <1>4. S \subseteq Files(e) /\ \A s \in S : e[s] = ws[s]
    BY <1>3 DEF Spares
  <1>5. \A s \in S : Kin(e[s], g[s])
    BY <1>2, <1>4, KinRetargeted
  <1>6. IsFiniteSet(S)
    BY <1>4, PlacesAssumption, FS_Subset DEF Files
  <1> HIDE DEF t
  <1>7. \A i \in 1..Cardinality(S) : SetToSeq(S)[i] \in S /\ S \subseteq Inbound(from)
    BY <1>6, SetToSeqIs
  <1>8. WritesOf(t, S, g)
    BY <1>1, <1>7 DEF WritesOf
  <1> HIDE DEF g, S
  <1>9. /\ Keeps(t, e)
        /\ \A i \in 1..Len(t) : \E s \in S : t[i] = Ops!Write(s, g[s])
    <2>1. S \subseteq Files(e)
      BY <1>4
    <2>2. \A s \in S : Kin(e[s], g[s])
      BY <1>5
    <2>3. Keeps(t, e)
      BY <1>8, <2>1, <2>2, KeepsRewrites
    <2>4. \A i \in 1..Len(t) : \E s \in S : t[i] = Ops!Write(s, g[s])
      <3>1. S \subseteq Place
        BY <2>1 DEF Files
      <3>2. QED
        BY <1>8, <3>1, RewritesAre
    <2>5. QED
      BY <2>3, <2>4
  <1>10. \A s \in S : s \in Inbound(from)
    BY DEF S
  <1>11. QED
    BY <1>3, <1>9, <1>10 DEF t, Respells

\* Retitling rewrites files of the workspace.
LEMMA RelabelsKeep ==
    ASSUME NEW p, NEW title, AllGood(ws),
           NEW S, S = {s \in Inbound(p) : Relabelled(ws[s], s, p, title) # ws[s]},
           NEW t, t = [i \in 1..Cardinality(S) |->
                          Ops!Write(SetToSeq(S)[i],
                                    Relabelled(ws[SetToSeq(S)[i]], SetToSeq(S)[i], p, title))]
    PROVE  Keeps(t, ws)
  <1> DEFINE g == [s \in Inbound(p) |-> Relabelled(ws[s], s, p, title)]
  <1>1. \A s \in Inbound(p) : s \in Files(ws) /\ Good(ws[s])
    BY InboundThere DEF AllGood
  <1>2. S \subseteq Files(ws) /\ S \subseteq Inbound(p)
    BY <1>1
  <1>3. \A s \in S : Kin(ws[s], g[s])
    BY <1>1, KinRelabelled
  <1>4. IsFiniteSet(S)
    BY <1>2, PlacesAssumption, FS_Subset DEF Files
  <1>5. \A i \in 1..Cardinality(S) : SetToSeq(S)[i] \in Inbound(p)
    BY <1>2, <1>4, SetToSeqIs
  <1>6. WritesOf(t, S, g)
    BY <1>5 DEF WritesOf
  <1> HIDE DEF g
  <1>7. QED
    BY <1>2, <1>3, <1>6, KeepsRewrites

\* Converting the style of links rewrites files of the workspace.
LEMMA RestylesKeep ==
    ASSUME NEW style, NEW scope, scope \subseteq Files(ws), AllGood(ws),
           NEW S, S = {s \in scope : Restyled(ws[s], s, style) # ws[s]},
           NEW t, t = [i \in 1..Cardinality(S) |->
                          Ops!Write(SetToSeq(S)[i],
                                    Restyled(ws[SetToSeq(S)[i]], SetToSeq(S)[i], style))]
    PROVE  Keeps(t, ws)
  <1> DEFINE g == [s \in scope |-> Restyled(ws[s], s, style)]
  <1>1. \A s \in scope : Good(ws[s])
    BY DEF AllGood
  <1>2. S \subseteq Files(ws) /\ S \subseteq scope
    OBVIOUS
  <1>3. \A s \in S : Kin(ws[s], g[s])
    BY <1>1, KinRestyled
  <1>4. IsFiniteSet(S)
    BY <1>2, PlacesAssumption, FS_Subset DEF Files
  <1>5. \A i \in 1..Cardinality(S) : SetToSeq(S)[i] \in scope
    BY <1>2, <1>4, SetToSeqIs
  <1>6. WritesOf(t, S, g)
    BY <1>5 DEF WritesOf
  <1> HIDE DEF g
  <1>7. QED
    BY <1>2, <1>3, <1>6, KeepsRewrites

-----------------------------------------------------------------------------
(* Committing a set.                                                       *)

\* A write over a file is of the document the file is part of.
OwnText(op, w) ==
    (Ops!IsWrite(op) /\ Exists(w, op.path)) => op.bytes.who = w[op.path].who

\* What StagedSafely says of a set.
Sound(ops, w) ==
    /\ Runs(ops, w)
    /\ Ops!ReplaySafe(ops)
    /\ Ops!SourcesExist(ops, w) /\ Ops!DestinationsFree(ops, w)
    /\ \A i \in DOMAIN ops : OwnText(ops[i], w)

\* A file that is in both is part of the same document.
Steady(w, e) == \A p \in Files(w) \cap Files(e) : e[p].who = w[p].who

\* Writes over files that are there are of the documents they are part of,
\* and touch those files alone.
LEMMA KeepsOwn ==
    ASSUME NEW t, NEW e, Keeps(t, e), Steady(ws, e), NEW i \in 1..Len(t)
    PROVE  /\ ~Ops!IsRename(t[i]) /\ OwnText(t[i], ws)
           /\ \E p \in Files(e) : \A q : Ops!Touches(t[i], q) => q = p
  <1>1. PICK p \in Files(e) : \E f : t[i] = Ops!Write(p, f) /\ Kin(e[p], f)
    BY DEF Keeps
  <1>2. PICK f : t[i] = Ops!Write(p, f) /\ Kin(e[p], f)
    BY <1>1
  <1>3. /\ ~Ops!IsRename(t[i]) /\ t[i].path = p /\ t[i].bytes = f
        /\ \A q : Ops!Touches(t[i], q) <=> q = p
    BY <1>2, WriteIs
  <1>4. f.who = e[p].who
    BY <1>2 DEF Kin
  <1>5. Exists(ws, p) => p \in Files(ws)
    BY DEF Exists, Files
  <1>6. OwnText(t[i], ws)
    BY <1>3, <1>4, <1>5 DEF OwnText, Steady
  <1>7. QED
    BY <1>3, <1>6

\* A set without moves whose head runs.
LEMMA SoundBy ==
    ASSUME NEW s, IsSeq(s), Runs(s, ws), NEW t, Keeps(t, After(s, ws)),
           Steady(ws, After(s, ws)),
           \A i \in 1..Len(s) : ~Ops!IsRename(s[i]) /\ OwnText(s[i], ws)
    PROVE  Sound(s \o t, ws)
  <1>1. IsSeq(t) /\ Runs(t, After(s, ws))
    BY KeepsRuns DEF Keeps
  <1>2. Runs(s \o t, ws)
    BY <1>1, RunsCat
  <1>3. IsSeq(s \o t) /\ DOMAIN (s \o t) = 1..Len(s \o t) /\ Len(s) \in Nat
    BY <1>1, SeqIs, SeqCat
  <1>4. ASSUME NEW i \in 1..Len(s \o t)
        PROVE  ~Ops!IsRename((s \o t)[i]) /\ OwnText((s \o t)[i], ws)
    <2>1. CASE i \in 1..Len(s)
      <3>1. (s \o t)[i] = s[i]
        BY <1>1, <2>1, SeqCat
      <3>2. QED
        BY <2>1, <3>1
    <2>2. CASE i \notin 1..Len(s)
      <3>1. i - Len(s) \in 1..Len(t) /\ i = Len(s) + (i - Len(s))
        BY <1>1, <1>3, <2>2, SeqCat
      <3>2. (s \o t)[i] = t[i - Len(s)]
        BY <1>1, <3>1, SeqCat
      <3>3. QED
        BY <3>1, <3>2, KeepsOwn
    <2>3. QED
      BY <2>1, <2>2
  <1> DEFINE u == s \o t
  <1>5. \A i \in DOMAIN u : ~Ops!IsRename(u[i]) /\ OwnText(u[i], ws)
    BY <1>3, <1>4
  <1> HIDE DEF u
  <1>6. /\ Ops!ReplaySafe(u) /\ Ops!SourcesExist(u, ws) /\ Ops!DestinationsFree(u, ws)
    BY <1>5 DEF Ops!ReplaySafe, Ops!SourcesExist, Ops!DestinationsFree
  <1>7. QED
    BY <1>2, <1>5, <1>6 DEF Sound, u

\* A set whose tail rewrites files leaves them fitting if its head does.
LEMMA PiecesBy ==
    ASSUME NEW s, IsSeq(s), NEW t, Keeps(t, After(s, ws)),
           NEW b, Pieces(After(s, ws), b)
    PROVE  Pieces(After(s \o t, ws), b)
  <1>1. IsSeq(t)
    BY DEF Keeps
  <1>2. After(s \o t, ws) = After(t, After(s, ws))
    BY <1>1, AfterCat
  <1>3. AllGood(After(s, ws))
    BY DEF Pieces
  <1>4. Like(After(s, ws), After(t, After(s, ws)))
    BY <1>3, LikeAfter
  <1>5. QED
    BY <1>2, <1>4, PiecesLike

\* A set that runs is committed whole.
LEMMA CommitIs ==
    ASSUME NEW op, NEW about, NEW ops, Commit(op, about, ops), Runs(ops, ws)
    PROVE  ws' = After(ops, ws) /\ done'.ops = ops
  BY DEF Commit, Becomes

\* A mutation whose head leaves the files in pieces that fit, and whose tail
\* rewrites files that are there.
LEMMA Committed ==
    ASSUME NEW op, NEW about, NEW s, NEW t, Commit(op, about, s \o t),
           IsSeq(s), Runs(s, ws), Keeps(t, After(s, ws)),
           Steady(ws, After(s, ws)),
           \A i \in 1..Len(s) : ~Ops!IsRename(s[i]) /\ OwnText(s[i], ws),
           NEW b, Pieces(After(s, ws), b)
    PROVE  Pieces(ws', b) /\ Sound(done'.ops, ws)
  <1>1. Sound(s \o t, ws)
    BY SoundBy
  <1>2. Runs(s \o t, ws)
    BY <1>1 DEF Sound
  <1>3. ws' = After(s \o t, ws) /\ done'.ops = s \o t
    BY <1>2, CommitIs
  <1>4. Pieces(After(s \o t, ws), b)
    BY PiecesBy
  <1>5. QED
    BY <1>1, <1>3, <1>4

\* A mutation that only rewrites files.
LEMMA CommittedEdit ==
    ASSUME NEW op, NEW about, NEW t, Commit(op, about, t), Keeps(t, ws),
           NEW b, Pieces(ws, b)
    PROVE  Pieces(ws', b) /\ Sound(done'.ops, ws)
  <1>1. IsSeq(<<>>) /\ Len(<<>>) = 0 /\ After(<<>>, ws) = ws
    BY AfterNone
  <1>2. Runs(<<>>, ws)
    BY DEF Runs
  <1>3. Steady(ws, ws)
    BY DEF Steady
  <1>4. <<>> \o t = t
    <2>1. PICK C : t \in Seq(C)
      BY DEF Keeps, IsSeq
    <2>2. QED
      BY <2>1, ConcatEmptySeq
  <1>5. Sound(<<>> \o t, ws)
    <2>1. \A i \in 1..Len(<<>>) : ~Ops!IsRename(<<>>[i]) /\ OwnText(<<>>[i], ws)
      BY <1>1
    <2>2. Keeps(t, After(<<>>, ws)) /\ Steady(ws, After(<<>>, ws))
      BY <1>1, <1>3
    <2> DEFINE s == <<>>
    <2>3. /\ IsSeq(s) /\ Runs(s, ws) /\ Keeps(t, After(s, ws)) /\ Steady(ws, After(s, ws))
          /\ \A i \in 1..Len(s) : ~Ops!IsRename(s[i]) /\ OwnText(s[i], ws)
      BY <1>1, <1>2, <2>1, <2>2
    <2> HIDE DEF s
    <2>4. Sound(s \o t, ws)
      BY <2>3, SoundBy
    <2>5. QED
      BY <2>4 DEF s
  <1>6. Sound(t, ws) /\ Runs(t, ws)
    BY <1>4, <1>5 DEF Sound
  <1>7. ws' = After(t, ws) /\ done'.ops = t
    BY <1>6, CommitIs
  <1>8. AllGood(ws)
    BY DEF Pieces
  <1>9. Like(ws, After(t, ws))
    BY <1>8, LikeAfter
  <1>10. QED
    BY <1>6, <1>7, <1>9, PiecesLike

\* Two ops are one and then the other.
LEMMA PairCat ==
    ASSUME NEW x, NEW y
    PROVE  <<x, y>> = <<x>> \o <<y>>
  <1>1. <<x>> \in Seq({x, y}) /\ <<y>> \in Seq({x, y}) /\ <<x, y>> \in Seq({x, y})
    OBVIOUS
  <1>2. Len(<<x>>) = 1 /\ Len(<<y>>) = 1 /\ Len(<<x, y>>) = 2
    OBVIOUS
  <1>3. <<x>> \o <<y>> \in Seq({x, y}) /\ Len(<<x>> \o <<y>>) = 2
    BY <1>1, <1>2
  <1>4. (<<x>> \o <<y>>)[1] = x /\ (<<x>> \o <<y>>)[2] = y
    BY <1>1, <1>2
  <1>5. \A i \in 1..2 : <<x, y>>[i] = (<<x>> \o <<y>>)[i]
    BY <1>4
  <1> DEFINE u == <<x>> \o <<y>>
             v == <<x, y>>
  <1>6. u \in Seq({x, y}) /\ v \in Seq({x, y}) /\ Len(u) = Len(v)
    BY <1>1, <1>2, <1>3
  <1>7. \A i \in 1..Len(u) : u[i] = v[i]
    BY <1>3, <1>5
  <1> HIDE DEF u, v
  <1>8. u = v
    BY <1>6, <1>7, SeqEqual
  <1>9. QED
    BY <1>8 DEF u, v

\* A set of one op: what it leaves, and when it runs.
LEMMA HeadOne ==
    ASSUME NEW x, NEW d
    PROVE  /\ IsSeq(<<x>>) /\ After(<<x>>, d) = Ops!Effect(x, d)
           /\ \A i \in 1..Len(<<x>>) : <<x>>[i] = x
           /\ Ops!Possible(x, d) => Runs(<<x>>, d)
  <1>1. IsSeq(<<x>>) /\ After(<<x>>, d) = Ops!Effect(x, d)
    BY AfterOne
  <1>2. \A i \in 1..Len(<<x>>) : <<x>>[i] = x
    OBVIOUS
  <1>3. Ops!Possible(x, d) => Runs(<<x>>, d)
    BY RunsOne
  <1>4. QED
    BY <1>1, <1>2, <1>3

\* A set of two.
LEMMA HeadTwo ==
    ASSUME NEW x, NEW y, NEW d
    PROVE  /\ IsSeq(<<x, y>>)
           /\ After(<<x, y>>, d) = Ops!Effect(y, Ops!Effect(x, d))
           /\ \A i \in 1..Len(<<x, y>>) : <<x, y>>[i] = x \/ <<x, y>>[i] = y
           /\ (Ops!Possible(x, d) /\ Ops!Possible(y, Ops!Effect(x, d))) => Runs(<<x, y>>, d)
  <1>1. IsSeq(<<x>>) /\ After(<<x>>, d) = Ops!Effect(x, d)
    BY AfterOne
  <1>2. /\ IsSeq(<<y>>)
        /\ After(<<y>>, Ops!Effect(x, d)) = Ops!Effect(y, Ops!Effect(x, d))
    BY AfterOne
  <1>3. <<x, y>> = <<x>> \o <<y>>
    BY PairCat
  <1>4. IsSeq(<<x>> \o <<y>>)
    BY <1>1, <1>2, SeqCat
  <1>5. After(<<x>> \o <<y>>, d) = After(<<y>>, After(<<x>>, d))
    BY <1>1, <1>2, AfterCat
  <1>6. \A i \in 1..Len(<<x, y>>) : <<x, y>>[i] = x \/ <<x, y>>[i] = y
    OBVIOUS
  <1>7. ASSUME Ops!Possible(x, d), Ops!Possible(y, Ops!Effect(x, d)) PROVE Runs(<<x, y>>, d)
    <2>1. Runs(<<x>>, d)
      BY <1>7, RunsOne
    <2>2. Runs(<<y>>, After(<<x>>, d))
      BY <1>1, <1>7, RunsOne
    <2>3. Runs(<<x>> \o <<y>>, d)
      BY <1>1, <1>2, <2>1, <2>2, RunsCat
    <2>4. QED
      BY <1>3, <2>3
  <1>8. QED
    BY <1>1, <1>2, <1>3, <1>4, <1>5, <1>6, <1>7

\* One op, and another if there is need of it.
LEMMA IfIs ==
    ASSUME NEW x, NEW y, NEW c
    PROVE  /\ c => <<x>> \o If(c, <<y>>) = <<x, y>>
           /\ ~c => <<x>> \o If(c, <<y>>) = <<x>>
  <1>1. c => <<x>> \o If(c, <<y>>) = <<x, y>>
    BY PairCat DEF If
  <1>2. <<x>> \o <<>> = <<x>>
    <2>1. <<x>> \in Seq({x})
      OBVIOUS
    <2>2. QED
      BY <2>1, ConcatEmptySeq
  <1>3. ~c => <<x>> \o If(c, <<y>>) = <<x>>
    BY <1>2 DEF If
  <1>4. QED
    BY <1>1, <1>3

-----------------------------------------------------------------------------
(* The first ops of a set.                                                 *)

\* The set's first ops run, and leave the files in pieces that fit.
Head1(s, b) ==
    /\ IsSeq(s) /\ Runs(s, ws)
    /\ Steady(ws, After(s, ws))
    /\ Pieces(After(s, ws), b)
    /\ \A i \in 1..Len(s) : ~Ops!IsRename(s[i]) /\ OwnText(s[i], ws)

\* A mutation that begins so and goes on to rewrite files.
LEMMA HeadCommits ==
    ASSUME NEW op, NEW about, NEW s, NEW t, Commit(op, about, s \o t),
           NEW b, Head1(s, b), Keeps(t, After(s, ws))
    PROVE  Pieces(ws', b) /\ Sound(done'.ops, ws)
  BY Committed DEF Head1

\* The paths that exist are those with files.
LEMMA ExistsIs == \A p : Exists(ws, p) <=> p \in Files(ws)
  BY DEF Exists, Files

\* A new document's node is a file.
LEMMA NewIs ==
    ASSUME NEW d, NEW title, NEW up, IsSeq(up), NEW body
    PROVE  LET f == New(d, title, up, body)
           IN  Good(f) /\ f.meta /\ f.who = d /\ f.content = body
  <1> DEFINE f == New(d, title, up, body)
  <1>1. /\ f = [x \in {"who", "meta", "title", "rel", "content", "body"} |-> f[x]]
        /\ f.meta = TRUE /\ f.who = d /\ f.content = body
        /\ f.rel = [NoLinks EXCEPT !["part_of"] = up]
    BY DEF New
  <1>2. f.rel = [r \in {"contents", "part_of", "links"} |-> f.rel[r]]
    BY <1>1 DEF NoLinks
  <1>3. \A r \in {"contents", "part_of", "links"} : IsSeq(f.rel[r])
    BY <1>1, AfterNone DEF NoLinks
  <1> HIDE DEF f
  <1>4. Good(f) /\ f.meta /\ f.who = d /\ f.content = body
    BY <1>1, <1>2, <1>3 DEF Good
  <1>5. QED
    BY <1>4 DEF f

\* So is prose.
LEMMA ProseIs ==
    ASSUME NEW d, NEW body
    PROVE  LET f == Prose(d, body) IN Good(f) /\ ~f.meta /\ f.who = d
  <1> DEFINE f == Prose(d, body)
  <1>1. /\ f = [x \in {"who", "meta", "title", "rel", "content", "body"} |-> f[x]]
        /\ f.meta = FALSE /\ f.who = d /\ f.content = <<>> /\ f.rel = NoLinks
    BY DEF Prose
  <1>2. f.rel = [r \in {"contents", "part_of", "links"} |-> f.rel[r]]
    BY <1>1 DEF NoLinks
  <1>3. \A r \in {"contents", "part_of", "links"} : IsSeq(f.rel[r])
    BY <1>1, AfterNone DEF NoLinks
  <1> HIDE DEF f
  <1>4. Good(f) /\ ~f.meta /\ f.who = d
    BY <1>1, <1>2, <1>3 DEF Good
  <1>5. QED
    BY <1>4 DEF f

\* A set begins by writing a new document, of one file.
LEMMA FreshOne ==
    ASSUME NEW n, NEW f, NEW s, s = <<Ops!Write(n, f)>>,
           NEW b, Pieces(ws, b), Fresh1(ws, n, f, b)
    PROVE  /\ Head1(s, b \cup {f.who})
           /\ \A x \in Files(ws) : x \in Files(After(s, ws)) /\ After(s, ws)[x] = ws[x]
  <1> DEFINE op == Ops!Write(n, f)
             e == [ws EXCEPT ![n] = f]
  <1>1. /\ ~Ops!IsRename(op) /\ op.path = n
        /\ Ops!Possible(op, ws) /\ Ops!Effect(op, ws) = e
    BY WriteIs
  <1>2. OwnText(op, ws)
    BY <1>1, ExistsIs DEF OwnText, Fresh1
  <1> HIDE DEF op
  <1>3. s = <<op>>
    BY DEF op
  <1>4. /\ IsSeq(s) /\ After(s, ws) = e /\ Runs(s, ws)
        /\ \A i \in 1..Len(s) : s[i] = op
    <2>1. /\ IsSeq(<<op>>) /\ After(<<op>>, ws) = Ops!Effect(op, ws)
          /\ \A i \in 1..Len(<<op>>) : <<op>>[i] = op
          /\ Ops!Possible(op, ws) => Runs(<<op>>, ws)
      BY HeadOne
    <2>2. QED
      BY <1>1, <1>3, <2>1
  <1>5. Pieces(e, b \cup {f.who})
    BY PiecesOne
  <1>6. ws = [x \in Place |-> ws[x]] /\ f # Absent /\ n \in Place /\ n \notin Files(ws)
    BY GoodThere DEF Pieces, AllGood, Fresh1
  <1>7. \A x \in Files(ws) : x \in Files(e) /\ e[x] = ws[x]
    BY <1>6 DEF Files
  <1>8. Steady(ws, e)
    BY <1>7 DEF Steady
  <1> HIDE DEF e
  <1>9. QED
    BY <1>1, <1>2, <1>4, <1>5, <1>7, <1>8 DEF Head1

\* Or a new document of a node and its prose.
LEMMA FreshTwo ==
    ASSUME NEW n, NEW f, NEW t, NEW g, NEW s, s = <<Ops!Write(n, f), Ops!Write(t, g)>>,
           NEW b, Pieces(ws, b), Fresh2(ws, n, f, t, g, b)
    PROVE  /\ Head1(s, b \cup {f.who})
           /\ \A x \in Files(ws) : x \in Files(After(s, ws)) /\ After(s, ws)[x] = ws[x]
  <1> DEFINE op1 == Ops!Write(n, f)
             op2 == Ops!Write(t, g)
             e1 == [ws EXCEPT ![n] = f]
             e == [ws EXCEPT ![n] = f, ![t] = g]
  <1>0. /\ ws = [x \in Place |-> ws[x]] /\ f # Absent /\ g # Absent
        /\ n \in Place /\ n \notin Files(ws) /\ t \in Place /\ t \notin Files(ws)
    BY GoodThere DEF Pieces, AllGood, Fresh2
  <1>1. /\ ~Ops!IsRename(op1) /\ op1.path = n
        /\ Ops!Possible(op1, ws) /\ Ops!Effect(op1, ws) = e1
    BY WriteIs
  <1>2. /\ ~Ops!IsRename(op2) /\ op2.path = t
        /\ Ops!Possible(op2, e1) /\ Ops!Effect(op2, e1) = [e1 EXCEPT ![t] = g]
    <2>1. ~Ops!IsRename(op2) /\ op2.path = t
      BY WriteIs
    <2> HIDE DEF e1
    <2>2. Ops!Possible(op2, e1) /\ Ops!Effect(op2, e1) = [e1 EXCEPT ![t] = g]
      BY WriteDoes
    <2>3. QED
      BY <2>1, <2>2
  <1>3. [e1 EXCEPT ![t] = g] = e
    BY <1>0
  <1>4. OwnText(op1, ws) /\ OwnText(op2, ws)
    BY <1>0, <1>1, <1>2, ExistsIs DEF OwnText
  <1>5. s = <<op1, op2>>
    OBVIOUS
  <1>6. Pieces(e, b \cup {f.who})
    BY PiecesTwo
  <1>7. \A x \in Files(ws) : x \in Files(e) /\ e[x] = ws[x]
    BY <1>0 DEF Files
  <1>8. Steady(ws, e)
    BY <1>7 DEF Steady
  <1> HIDE DEF op1, op2, e1, e
  <1>9. /\ IsSeq(s) /\ After(s, ws) = e /\ Runs(s, ws)
        /\ \A i \in 1..Len(s) : s[i] = op1 \/ s[i] = op2
    <2> DEFINE u == <<op1, op2>>
    <2>1. /\ IsSeq(u) /\ After(u, ws) = Ops!Effect(op2, Ops!Effect(op1, ws))
          /\ \A i \in 1..Len(u) : u[i] = op1 \/ u[i] = op2
          /\ (Ops!Possible(op1, ws) /\ Ops!Possible(op2, Ops!Effect(op1, ws))) => Runs(u, ws)
      BY HeadTwo
    <2>2. s = u
      BY <1>5
    <2> HIDE DEF u
    <2>3. QED
      BY <1>1, <1>2, <1>3, <2>1, <2>2
  <1>10. QED
    BY <1>1, <1>2, <1>4, <1>6, <1>7, <1>8, <1>9 DEF Head1

-----------------------------------------------------------------------------
(* create, adopt, reparent.                                                *)

\* create leaves the pieces of documents together, by a set staged safely.
LEMMA CreateFits ==
    ASSUME NEW p \in Place, NEW q \in NodesOf(ws), Pieces(ws, born), Create(p, q)
    PROVE  Pieces(ws', born') /\ Sound(done'.ops, ws)
  <1>1. PICK d \in Doc \ born, title \in Titles :
            LET apart == ~Whole(p) /\ Whole(q) /\ Separated(ws, q)
                node  == IF apart THEN WithExtension(p, "yaml") ELSE p
                up    == <<Author(node, q, TitleOf(q))>>
                body  == IF apart THEN <<Last(p)>> ELSE <<>>
            IN  /\ node \in Place
                /\ ~Exists(ws, node)
                /\ apart => ~Exists(ws, p)
                /\ Commit("create", <<d, ws[q].who>>,
                          <<Ops!Write(node, New(d, title, up, body))>>
                          \o If(apart, <<Ops!Write(p, Prose(d, <<>>))>>)
                          \o <<Ops!Write(q, AddDown(ws[q], Author(q, node, title)))>>)
                /\ born' = born \cup {d}
    BY DEF Create
  <1> DEFINE apart == ~Whole(p) /\ Whole(q) /\ Separated(ws, q)
             node  == IF apart THEN WithExtension(p, "yaml") ELSE p
             up    == <<Author(node, q, TitleOf(q))>>
             body  == IF apart THEN <<Last(p)>> ELSE <<>>
             f == New(d, title, up, body)
             g == Prose(d, <<>>)
             x == Ops!Write(node, f)
             y == Ops!Write(p, g)
             s == <<x>> \o If(apart, <<y>>)
             l == Author(q, node, title)
             t == <<Ops!Write(q, AddDown(ws[q], l))>>
  <1>2. /\ node \in Place /\ node \notin Files(ws) /\ (apart => p \notin Files(ws))
        /\ Commit("create", <<d, ws[q].who>>, s \o t)
        /\ born' = born \cup {d}
    BY <1>1, ExistsIs
  <1>3. Good(f) /\ f.meta /\ f.who = d /\ f.content = body
    <2>1. IsSeq(up)
      BY HeadOne
    <2>2. QED
      BY <2>1, NewIs
  <1>4. Good(g) /\ ~g.meta /\ g.who = d
    BY ProseIs
  <1>5. d \notin born
    OBVIOUS
  <1>6. /\ Head1(s, born \cup {d})
        /\ \A z \in Files(ws) : z \in Files(After(s, ws)) /\ After(s, ws)[z] = ws[z]
    <2>1. CASE apart
      <3>1. s = <<x, y>>
        <4> HIDE DEF x, y, apart
        <4>1. QED
          BY <2>1, IfIs
      <3>2. node = WithExtension(p, "yaml") /\ body = <<Last(p)>> /\ ~Whole(p)
        BY <2>1
      <3>3. Whole(node) /\ p = Append(Dir(node), Last(p))
        BY <3>2, Beside DEF Whole
      <3>4. f.content # <<>> /\ f.content[1] = Last(p)
        BY <1>3, <3>2
      <3>5. p \notin Files(ws)
        BY <1>2, <2>1
      <3> HIDE DEF node, f, g, s, apart, body
      <3>6. QED
        <4>1. s = <<Ops!Write(node, f), Ops!Write(p, g)>>
          BY <3>1
        <4>2. Fresh2(ws, node, f, p, g, born) /\ f.who = d
          BY <1>2, <1>3, <1>4, <1>5, <3>2, <3>3, <3>4, <3>5 DEF Fresh2
        <4>3. /\ Head1(s, born \cup {f.who})
              /\ \A z \in Files(ws) : z \in Files(After(s, ws)) /\ After(s, ws)[z] = ws[z]
          <5> HIDE DEF x, y
          <5>1. QED
            BY <4>1, <4>2, FreshTwo
        <4>4. QED
          BY <4>2, <4>3
    <2>2. CASE ~apart
      <3>1. s = <<x>>
        <4> HIDE DEF x, y, apart
        <4>1. QED
          BY <2>2, IfIs
      <3>2. f.content = <<>>
        BY <1>3, <2>2
      <3> HIDE DEF node, f, s, apart, body
      <3>3. Fresh1(ws, node, f, born) /\ f.who = d
        BY <1>2, <1>3, <1>5, <3>2 DEF Fresh1
      <3>4. QED
        BY <1>2, <1>3, <1>5, <3>1, <3>3, FreshOne
    <2>3. QED
      BY <2>1, <2>2
  <1> HIDE DEF s, l
  <1>7. q \in Files(ws) /\ Good(ws[q]) /\ ws[q].meta
    BY DEF NodesOf, Pieces, AllGood
  <1>8. Kin(ws[q], AddDown(ws[q], l))
    BY <1>7, KinAdds
  <1>9. Keeps(t, After(s, ws))
    BY <1>6, <1>7, <1>8, KeepsOne
  <1> HIDE DEF t
  <1>10. QED
    BY <1>2, <1>6, <1>9, HeadCommits

\* adopt leaves the pieces of documents together, by a set staged safely.
LEMMA AdoptFits ==
    ASSUME NEW child \in NodesOf(ws), NEW parent \in NodesOf(ws), Pieces(ws, born),
           Adopt(child, parent)
    PROVE  Pieces(ws', born') /\ Sound(done'.ops, ws)
  <1> DEFINE l == Author(child, parent, TitleOf(parent))
             m == Author(parent, child, TitleOf(child))
             a == ~PointsUp(child, parent)
             b == ~Lists(parent, child)
             s == If(a, <<Ops!Write(child, SetUp(ws[child], l))>>)
             t == If(b, <<Ops!Write(parent, AddDown(ws[parent], m))>>)
  <1>1. Commit("adopt", <<ws[child].who, ws[parent].who>>, s \o t) /\ born' = born
    BY DEF Adopt
  <1>2. /\ child \in Files(ws) /\ Good(ws[child]) /\ ws[child].meta
        /\ parent \in Files(ws) /\ Good(ws[parent]) /\ ws[parent].meta
    BY DEF NodesOf, Pieces, AllGood
  <1>3. a \in BOOLEAN /\ b \in BOOLEAN
    OBVIOUS
  <1> HIDE DEF l, m, a, b
  <1>4. Kin(ws[child], SetUp(ws[child], l)) /\ Kin(ws[parent], AddDown(ws[parent], m))
    BY <1>2, KinAdds
  <1>5. Keeps(s, ws) /\ Keeps(t, ws)
    BY <1>2, <1>3, <1>4, KeepsIf
  <1> HIDE DEF s, t
  <1>6. Keeps(s \o t, ws)
    BY <1>5, KeepsCat
  <1>7. QED
    BY <1>1, <1>6, CommittedEdit

\* What is said once, or not at all.
LEMMA ForOne ==
    ASSUME NEW x
    PROVE  [i \in 1..1 |-> x] = <<x>> /\ [i \in 1..0 |-> x] = <<>>
  <1>1. [i \in 1..1 |-> x] = <<x>>
    <2> DEFINE u == [i \in 1..1 |-> x]
               v == <<x>>
    <2>1. u \in Seq({x}) /\ v \in Seq({x}) /\ Len(u) = Len(v) /\ \A i \in 1..Len(u) : u[i] = v[i]
      OBVIOUS
    <2> HIDE DEF u, v
    <2>2. u = v
      BY <2>1, SeqEqual
    <2>3. QED
      BY <2>2 DEF u, v
  <1>2. [i \in 1..0 |-> x] = <<>>
    OBVIOUS
  <1>3. QED
    BY <1>1, <1>2

\* The parent of a document is one, or none.
LEMMA ParentOne ==
    ASSUME NEW p
    PROVE  \/ Parent(ws, p) = {} /\ Cardinality(Parent(ws, p)) = 0
           \/ \E r : Parent(ws, p) = {r} /\ Cardinality(Parent(ws, p)) = 1
  <1>1. Parent(ws, p) = {} \/ \E r : Parent(ws, p) = {r}
    BY DEF Parent
  <1>2. QED
    BY <1>1, FS_EmptySet, FS_Singleton

\* A later text of a later text is one.
LEMMA KinAgain ==
    ASSUME NEW f, NEW g, NEW h, Kin(f, g), Kin(g, h)
    PROVE  Kin(f, h)
  BY DEF Kin

\* reparent leaves the pieces of documents together, by a set staged safely:
\* what it drops from the old parent it reads from what is staged by then.
LEMMA ReparentFits ==
    ASSUME NEW child \in NodesOf(ws), NEW parent \in NodesOf(ws), Pieces(ws, born),
           Reparent(child, parent)
    PROVE  Pieces(ws', born') /\ Sound(done'.ops, ws)
  <1> DEFINE l == Author(child, parent, TitleOf(parent))
             m == Author(parent, child, TitleOf(child))
             b == ~Lists(parent, child)
             s1 == <<Ops!Write(child, SetUp(ws[child], l))>>
             s2 == If(b, <<Ops!Write(parent, AddDown(ws[parent], m))>>)
             s == s1 \o s2
             old == Parent(ws, child)
             staged == After(s, ws)
             drop(q) == DropDown(staged[q], q, child)
             unlist(q) == If(drop(q) # staged[q], <<Ops!Write(q, drop(q))>>)
             t == FlattenSeq([i \in 1..Cardinality(old) |-> unlist(CHOOSE q \in old : TRUE)])
  <1>1. /\ Commit("reparent", <<ws[child].who, ws[parent].who>>, s \o t) /\ born' = born
        /\ \A q \in old : Exists(ws, q)
    BY DEF Reparent
  <1>2. /\ child \in Files(ws) /\ Good(ws[child]) /\ ws[child].meta
        /\ parent \in Files(ws) /\ Good(ws[parent]) /\ ws[parent].meta /\ AllGood(ws)
    BY DEF NodesOf, Pieces, AllGood
  <1>3. b \in BOOLEAN
    OBVIOUS
  <1> HIDE DEF l, m, b
  <1>4. Kin(ws[child], SetUp(ws[child], l)) /\ Kin(ws[parent], AddDown(ws[parent], m))
    BY <1>2, KinAdds
  <1>5. Keeps(s1, ws) /\ Keeps(s2, ws)
    BY <1>2, <1>3, <1>4, KeepsIf, KeepsOne
  <1> HIDE DEF s1, s2
  <1>6. Keeps(s, ws)
    BY <1>5, KeepsCat
  <1> HIDE DEF s
  <1>7. Like(ws, staged)
    BY <1>2, <1>6, LikeAfter
  <1> HIDE DEF staged
  <1>8. ASSUME NEW q \in Files(ws) PROVE Keeps(unlist(q), ws)
    <2>1. Kin(ws[q], staged[q])
      BY <1>7 DEF Like
    <2>2. Kin(staged[q], drop(q))
      BY <2>1, KinDrop DEF Kin
    <2>3. Kin(ws[q], drop(q))
      BY <2>1, <2>2, KinAgain
    <2> HIDE DEF drop
    <2>4. QED
      BY <1>8, <2>3, KeepsOne, KeepsNone DEF If
  <1>9. Keeps(t, ws)
    <2>1. CASE old = {} /\ Cardinality(old) = 0
      <3>1. t = <<>>
        <4> DEFINE v == unlist(CHOOSE q \in old : TRUE)
        <4> HIDE DEF v, old
        <4>1. t = FlattenSeq([i \in 1..0 |-> v])
          BY <2>1 DEF v
        <4>2. QED
          BY <4>1, ForOne, FlattenIs
      <3>2. QED
        BY <3>1, KeepsNone
    <2>2. CASE \E r : old = {r} /\ Cardinality(old) = 1
      <3>1. PICK r : old = {r} /\ Cardinality(old) = 1
        BY <2>2
      <3>2. r \in Files(ws)
        BY <1>1, <3>1, ExistsIs
      <3>3. t = FlattenSeq(<<unlist(CHOOSE q \in old : TRUE)>>)
        <4> DEFINE v == unlist(CHOOSE q \in old : TRUE)
        <4> HIDE DEF v, old
        <4>1. t = FlattenSeq([i \in 1..1 |-> v])
          BY <3>1 DEF v
        <4>2. QED
          BY <4>1, ForOne DEF v
      <3>4. (CHOOSE q \in old : TRUE) = r
        BY <3>1
      <3>5. t = unlist(r)
        BY <3>3, <3>4, FlattenIs
      <3> HIDE DEF t
      <3>6. QED
        BY <1>8, <3>2, <3>5
    <2>3. QED
      BY <2>1, <2>2, ParentOne
  <1> HIDE DEF t
  <1>10. Keeps(s \o t, ws)
    BY <1>6, <1>9, KeepsCat
  <1>11. QED
    BY <1>1, <1>10, CommittedEdit

-----------------------------------------------------------------------------
(* What a step needs of the workspace.                                     *)

\* Prose apart from its node has no links, and no document names itself or
\* such prose as its parent.
Plain ==
    /\ \A t \in Files(ws) \ NodesOf(ws) : ws[t].body = <<>>
    /\ \A p \in NodesOf(ws) : \A q \in Parent(ws, p) :
          q # p /\ q \notin Files(ws) \ NodesOf(ws)

\* Regular workspaces are plain.
LEMMA RegularPlain ==
    ASSUME NEW b, Pieces(ws, b), Regular
    PROVE  Plain
  <1>1. ASSUME NEW p \in NodesOf(ws), NEW q \in Parent(ws, p)
        PROVE  q # p /\ q \notin Files(ws) \ NodesOf(ws)
    <2> DEFINE up == Edges(ws, p, "part_of")
               to == [i \in DOMAIN up |-> ResolveLink(p, up[i])]
    <2>1. Good(ws[p])
      BY DEF NodesOf, Pieces, AllGood
    <2>2. IsSeq(up) /\ "part_of" \in DOMAIN ws[p].rel
      BY <2>1 DEF Good, Edges
    <2>3. up # <<>> /\ q = ResolveLink(p, up[1])
      BY DEF Parent
    <2>4. 1 \in DOMAIN up
      <3>1. PICK C : up \in Seq(C)
        BY <2>2 DEF IsSeq
      <3> HIDE DEF up
      <3>2. QED
        BY <2>3, <3>1
    <2>5. p \notin ToSet(to) /\ \A l \in ToSet(up) : ResolveLink(p, l) \notin Files(ws) \ NodesOf(ws)
      BY <2>2 DEF Regular
    <2> HIDE DEF up
    <2>6. up[1] \in ToSet(up)
      BY <2>4 DEF ToSet
    <2>7. to[1] = q /\ to[1] \in ToSet(to)
      BY <2>3, <2>4 DEF ToSet
    <2> HIDE DEF to
    <2>8. QED
      BY <2>3, <2>5, <2>6, <2>7
  <1>2. \A t \in Files(ws) \ NodesOf(ws) : ws[t].body = <<>>
    BY DEF Regular
  <1>3. QED
    BY <1>1, <1>2 DEF Plain

\* What Plain says of one document, and of one file of prose.
LEMMA ParentIs ==
    ASSUME Plain, NEW p \in NodesOf(ws), NEW q \in Parent(ws, p)
    PROVE  q # p /\ (q \in Files(ws) => q \in NodesOf(ws))
  BY DEF Plain

\* And of one file of prose.
LEMMA ProseUnlinked ==
    ASSUME Plain, NEW t \in Files(ws) \ NodesOf(ws)
    PROVE  ws[t].body = <<>> /\ ~ws[t].meta
  BY DEF Plain, NodesOf

-----------------------------------------------------------------------------
(* A document and its prose.                                               *)

\* The files of the document at p, and those of the others.
LEMMA BodyIs ==
    ASSUME NEW b, Pieces(ws, b), NEW p \in NodesOf(ws)
    PROVE  /\ p \in Files(ws) /\ p \in Place /\ Good(ws[p]) /\ ws[p].meta /\ ws[p].who \in b
           /\ Separated(ws, p) => LET t == ContentTarget(ws, p)
                                  IN  /\ t \in Files(ws) \ NodesOf(ws)
                                      /\ Good(ws[t]) /\ ~ws[t].meta /\ t # p
                                      /\ ws[t].who = ws[p].who
                                      /\ Whole(p) /\ ~Whole(t)
  <1>1. p \in Files(ws) /\ p \in Place /\ Good(ws[p]) /\ ws[p].meta /\ ws[p].who \in b
    BY DEF Pieces, AllGood, NodesOf, Files
  <1>2. ASSUME Separated(ws, p)
        PROVE  LET t == ContentTarget(ws, p)
               IN  /\ t \in Files(ws) \ NodesOf(ws)
                   /\ Good(ws[t]) /\ ~ws[t].meta /\ t # p
                   /\ ws[t].who = ws[p].who
                   /\ Whole(p) /\ ~Whole(t)
    <2>1. PICK t \in Files(ws) \ NodesOf(ws) : BodyOf(ws, p, t) /\ Whole(p) /\ ~Whole(t)
      BY <1>2 DEF Pieces
    <2>2. t = ContentTarget(ws, p) /\ ws[t].who = ws[p].who
      BY <2>1 DEF BodyOf
    <2>3. Good(ws[t]) /\ ~ws[t].meta
      BY <2>1 DEF Pieces, AllGood, NodesOf
    <2>4. QED
      BY <2>1, <2>2, <2>3
  <1>3. QED
    BY <1>1, <1>2

\* A file of another document is where it was, and files are all that is left.
LEMMA WithoutIs ==
    ASSUME NEW p
    PROVE  LET e == Without(ws, p)
               gone(x) == x = p \/ (Separated(ws, p) /\ x = ContentTarget(ws, p))
           IN  \A x : /\ x \in Files(e) <=> x \in Files(ws) /\ ~gone(x)
                      /\ x \in Files(e) => e[x] = ws[x]
  BY DEF Without, Files

-----------------------------------------------------------------------------
(* delete.                                                                 *)

\* A set begins by removing a document: its node, and its prose if it has some.
LEMMA RemoveHead ==
    ASSUME NEW b, Pieces(ws, b), NEW p \in NodesOf(ws), NEW t, t = ContentTarget(ws, p),
           NEW s, s = <<Ops!Remove(p)>> \o If(Separated(ws, p) /\ Exists(ws, t), <<Ops!Remove(t)>>)
    PROVE  Head1(s, b) /\ After(s, ws) = Without(ws, p)
  <1> DEFINE x == Ops!Remove(p)
             y == Ops!Remove(t)
             c == Separated(ws, p) /\ Exists(ws, t)
             e1 == [ws EXCEPT ![p] = Absent]
             e2 == [e1 EXCEPT ![t] = Absent]
             e == Without(ws, p)
  <1>1. /\ p \in Files(ws) /\ p \in Place
        /\ Separated(ws, p) => t \in Files(ws) \ NodesOf(ws) /\ t # p
    BY BodyIs
  <1>2. ws = [z \in Place |-> ws[z]]
    BY DEF Pieces, AllGood
  <1>3. /\ ~Ops!IsRename(x) /\ ~Ops!IsWrite(x)
        /\ Ops!Possible(x, ws) /\ Ops!Effect(x, ws) = e1
    BY <1>1, RemoveIs DEF Files
  <1>4. /\ ~Ops!IsRename(y) /\ ~Ops!IsWrite(y)
        /\ \A d : /\ Ops!Possible(y, d) <=> d[t] # Absent
                  /\ Ops!Effect(y, d) = [d EXCEPT ![t] = Absent]
    BY RemoveIs
  <1>5. c <=> Separated(ws, p)
    BY <1>1, ExistsIs
  <1>6. Separated(ws, p) => e1[t] # Absent /\ e2 = e
    BY <1>1, <1>2 DEF Without, Files
  <1>7. ~Separated(ws, p) => e1 = e
    BY <1>1, <1>2 DEF Without
  <1>8. Pieces(e, b)
    <2>1. Pieces(e, b \ {ws[p].who})
      BY PiecesWithout
    <2>2. b \ {ws[p].who} \subseteq b
      OBVIOUS
    <2>3. QED
      BY <2>1, <2>2, PiecesMore
  <1>9. Steady(ws, e)
    BY WithoutIs DEF Steady
  <1>10. Separated(ws, p) => Ops!Possible(y, e1) /\ Ops!Effect(y, e1) = e2
    BY <1>4, <1>6
  <1>11. s = <<x>> \o If(c, <<y>>)
    BY DEF c
  <1> HIDE DEF x, y, c, e1, e2, e
  <1>12. CASE Separated(ws, p)
    <2>1. s = <<x, y>>
      BY <1>5, <1>11, <1>12, IfIs
    <2>2. /\ IsSeq(<<x, y>>)
          /\ After(<<x, y>>, ws) = Ops!Effect(y, Ops!Effect(x, ws))
          /\ \A i \in 1..Len(<<x, y>>) : <<x, y>>[i] = x \/ <<x, y>>[i] = y
          /\ (Ops!Possible(x, ws) /\ Ops!Possible(y, Ops!Effect(x, ws))) => Runs(<<x, y>>, ws)
      BY HeadTwo
    <2>3. IsSeq(s) /\ After(s, ws) = e /\ Runs(s, ws)
      BY <1>3, <1>6, <1>10, <1>12, <2>1, <2>2
    <2>4. \A i \in 1..Len(s) : s[i] = x \/ s[i] = y
      BY <2>1, <2>2
    <2>5. \A i \in 1..Len(s) : ~Ops!IsRename(s[i]) /\ OwnText(s[i], ws)
      BY <1>3, <1>4, <2>4 DEF OwnText
    <2>6. QED
      BY <1>8, <1>9, <2>3, <2>5 DEF Head1, e
  <1>13. CASE ~Separated(ws, p)
    <2>1. s = <<x>>
      BY <1>5, <1>11, <1>13, IfIs
    <2>2. /\ IsSeq(<<x>>) /\ After(<<x>>, ws) = Ops!Effect(x, ws)
          /\ \A i \in 1..Len(<<x>>) : <<x>>[i] = x
          /\ Ops!Possible(x, ws) => Runs(<<x>>, ws)
      BY HeadOne
    <2>3. IsSeq(s) /\ After(s, ws) = e /\ Runs(s, ws)
      BY <1>3, <1>7, <1>13, <2>1, <2>2
    <2>4. \A i \in 1..Len(s) : ~Ops!IsRename(s[i]) /\ OwnText(s[i], ws)
      BY <1>3, <2>1, <2>2 DEF OwnText
    <2>5. QED
      BY <1>8, <1>9, <2>3, <2>4 DEF Head1, e
  <1>14. QED
    BY <1>12, <1>13

\* delete leaves the pieces of documents together, by a set staged safely.
LEMMA DeleteFits ==
    ASSUME NEW p \in NodesOf(ws), NEW force, Pieces(ws, born), Plain, Delete(p, force)
    PROVE  Pieces(ws', born') /\ Sound(done'.ops, ws)
  <1> DEFINE body == ContentTarget(ws, p)
             s == <<Ops!Remove(p)>> \o If(Separated(ws, p) /\ Exists(ws, body), <<Ops!Remove(body)>>)
             drop(q) == DropDown(ws[q], q, p)
             unlist(q) == If(Lists(q, p), <<Ops!Write(q, drop(q))>>)
             old == Parent(ws, p)
             t == FlattenSeq(SetToSeq({unlist(q) : q \in old}))
             e == Without(ws, p)
  <1>1. /\ Commit("delete", <<ws[p].who>>, s \o t) /\ born' = born
        /\ \A q \in old : q \in Files(ws)
    BY ExistsIs DEF Delete
  <1>2. Head1(s, born) /\ After(s, ws) = e
    BY RemoveHead
  <1>3. ASSUME NEW q \in old PROVE Keeps(unlist(q), e)
    <2>1. q \in NodesOf(ws) /\ q # p
      BY <1>1, <1>3, ParentIs
    <2>2. Good(ws[q]) /\ q \in Files(ws)
      BY <2>1, BodyIs
    <2>3. Separated(ws, p) => q # body
      BY <2>1, BodyIs
    <2>4. q \in Files(e) /\ e[q] = ws[q]
      BY <2>1, <2>2, <2>3, WithoutIs
    <2>5. Kin(e[q], drop(q))
      BY <2>2, <2>4, KinDrop
    <2> HIDE DEF drop, e
    <2>6. QED
      BY <2>4, <2>5, KeepsOne, KeepsNone DEF If
  <1> HIDE DEF s, e
  <1>4. Keeps(t, e)
    <2>1. CASE old = {}
      <3>1. {unlist(q) : q \in old} = {}
        BY <2>1
      <3>2. t = <<>>
        BY <3>1, FlattenNone
      <3> HIDE DEF t
      <3>3. QED
        BY <3>2, KeepsNone
    <2>2. CASE \E r : old = {r}
      <3>1. PICK r : old = {r}
        BY <2>2
      <3> DEFINE v == unlist(r)
      <3>2. {unlist(q) : q \in old} = {v}
        BY <3>1
      <3>3. t = FlattenSeq(SetToSeq({v}))
        BY <3>2
      <3>4. Keeps(v, e)
        BY <1>3, <3>1
      <3> HIDE DEF v, t
      <3>5. QED
        BY <3>3, <3>4, FlattenOne
    <2>3. QED
      BY <2>1, <2>2, ParentOne
  <1> HIDE DEF t
  <1>5. QED
    BY <1>1, <1>2, <1>4, HeadCommits

-----------------------------------------------------------------------------
(* separate, combine, duplicate.                                           *)

\* Edits of a file that leave it one.
LEMMA GoodContent ==
    ASSUME NEW f, Good(f), f.meta, NEW c, NEW g, g = [f EXCEPT !.content = c]
    PROVE  Good(g) /\ g.meta /\ g.content = c /\ g.who = f.who
  <1>1. f = [z \in {"who", "meta", "title", "rel", "content", "body"} |-> f[z]]
    BY DEF Good
  <1>2. QED
    BY <1>1 DEF Good

\* A copy of a file, of another document.
LEMMA GoodWho ==
    ASSUME NEW f, Good(f), f.meta, NEW d, NEW g, g = [f EXCEPT !.who = d]
    PROVE  Good(g) /\ g.meta /\ g.content = f.content /\ g.who = d
  <1>1. f = [z \in {"who", "meta", "title", "rel", "content", "body"} |-> f[z]]
    BY DEF Good
  <1>2. QED
    BY <1>1 DEF Good

\* A file with another title.
LEMMA GoodTitle ==
    ASSUME NEW f, Good(f), f.meta, NEW x, NEW g, g = [f EXCEPT !.title = x]
    PROVE  Good(g) /\ g.meta /\ g.content = f.content /\ g.who = f.who
  <1>1. f = [z \in {"who", "meta", "title", "rel", "content", "body"} |-> f[z]]
    BY DEF Good
  <1>2. QED
    BY <1>1 DEF Good

\* A file with other prose.
LEMMA GoodBody ==
    ASSUME NEW f, Good(f), f.meta, NEW B, NEW g, g = [f EXCEPT !.body = B]
    PROVE  Good(g) /\ g.meta /\ g.content = f.content /\ g.who = f.who
  <1>1. f = [z \in {"who", "meta", "title", "rel", "content", "body"} |-> f[z]]
    BY DEF Good
  <1>2. QED
    BY <1>1 DEF Good

\* A file without links down.
LEMMA GoodChildless ==
    ASSUME NEW f, Good(f), f.meta, NEW g, g = [f EXCEPT !.rel["contents"] = <<>>]
    PROVE  Good(g) /\ g.meta /\ g.content = f.content /\ g.who = f.who
  <1> DEFINE R == [f.rel EXCEPT !["contents"] = <<>>]
  <1>1. R = [r \in Links3 |-> R[r]] /\ \A r \in Links3 : IsSeq(R[r])
    BY AfterNone DEF Good, Links3
  <1>2. g = [f EXCEPT !.rel = R]
    OBVIOUS
  <1> HIDE DEF R
  <1>3. Kin(f, g)
    BY <1>1, <1>2, KinRel
  <1>4. QED
    BY <1>3 DEF Kin

\* Edits of prose.
LEMMA ProseWho ==
    ASSUME NEW f, Good(f), ~f.meta, NEW d, NEW g, g = [f EXCEPT !.who = d]
    PROVE  Good(g) /\ ~g.meta /\ g.who = d
  <1>1. f = [z \in {"who", "meta", "title", "rel", "content", "body"} |-> f[z]]
    BY DEF Good
  <1>2. QED
    BY <1>1 DEF Good

\* Prose in another text.
LEMMA ProseBody ==
    ASSUME NEW f, Good(f), ~f.meta, NEW B, NEW g, g = [f EXCEPT !.body = B]
    PROVE  Good(g) /\ ~g.meta /\ g.content = f.content /\ g.who = f.who
  <1>1. f = [z \in {"who", "meta", "title", "rel", "content", "body"} |-> f[z]]
    BY DEF Good
  <1>2. QED
    BY <1>1 DEF Good

\* The set writes files of documents other than that whose node is at p.
Others(t, p) ==
    \A i \in 1..Len(t) : \E s \in Files(Without(ws, p)) : \E f : t[i] = Ops!Write(s, f)

\* The tail of a set that moves a document from p: the links to p are spelt
\* anew, in the files the head leaves as they were.
LEMMA TailKeeps ==
    ASSUME NEW b, Pieces(ws, b), Plain, NEW p \in NodesOf(ws), NEW q,
           NEW e, \A x \in Files(Without(ws, p)) : x \in Files(e) /\ e[x] = ws[x]
    PROVE  /\ Keeps(InboundRewrites(p, q), e)
           /\ Others(InboundRewrites(p, q), p)
  <1>1. AllGood(ws)
    BY DEF Pieces
  <1>2. ASSUME NEW s \in Inbound(p), ws[s].meta \/ ws[s].body # <<>>
        PROVE  s \in Files(Without(ws, p)) /\ s \in Files(e) /\ e[s] = ws[s]
    <2>1. s \in Files(ws) /\ s # p
      BY InboundThere
    <2>2. s \in NodesOf(ws)
      BY <1>2, <2>1, ProseUnlinked
    <2>3. Separated(ws, p) => s # ContentTarget(ws, p)
      BY <2>2, BodyIs
    <2>4. s \in Files(Without(ws, p))
      BY <2>1, <2>3, WithoutIs
    <2>5. QED
      BY <2>4
  <1> DEFINE t == InboundRewrites(p, q)
  <1>3. /\ Keeps(t, e)
        /\ Respells(t, p)
    <2>1. Spares(e, p)
      BY <1>2 DEF Spares
    <2>2. QED
      BY <1>1, <2>1, RetargetsKeep
  <1> HIDE DEF t
  <1>4. QED
    BY <1>2, <1>3 DEF t, Respells, Others

\* separate leaves the pieces of documents together, by a set staged safely:
\* the document goes, as it were, and one of two files comes in its place.
LEMMA SeparateFits ==
    ASSUME NEW p \in NodesOf(ws), Pieces(ws, born), Plain, Separate(p)
    PROVE  Pieces(ws', born') /\ Sound(done'.ops, ws)
  <1> DEFINE node == WithExtension(p, "yaml")
             f == [ws[p] EXCEPT !.content = <<Last(p)>>, !.body = <<>>]
             g == Prose(ws[p].who, ws[p].body)
             x == Ops!Write(node, f)
             y == Ops!Write(p, g)
             s == <<x, y>>
             t == InboundRewrites(p, node)
             d == ws[p].who
             e0 == Without(ws, p)
             e1 == [ws EXCEPT ![node] = f]
             e == [e0 EXCEPT ![node] = f, ![p] = g]
  <1>1. /\ Commit("separate", <<ws[p].who>>, s \o t) /\ born' = born
        /\ ~Whole(p) /\ ~Separated(ws, p) /\ node \in Place /\ node \notin Files(ws)
    BY ExistsIs DEF Separate
  <1>2. p \in Files(ws) /\ p \in Place /\ Good(ws[p]) /\ ws[p].meta /\ d \in born
    BY BodyIs
  <1>3. Good(f) /\ f.meta /\ f.content = <<Last(p)>> /\ f.who = d
    <2> DEFINE h == ws[p]
               c == <<Last(p)>>
               B == <<>>
    <2>1. f = [h EXCEPT !.content = c, !.body = B] /\ Good(h) /\ h.meta /\ h.who = d
      BY <1>2
    <2> HIDE DEF f, h, d, c, B
    <2>2. h = [z \in {"who", "meta", "title", "rel", "content", "body"} |-> h[z]]
      BY <2>1 DEF Good
    <2>3. Good(f) /\ f.meta /\ f.content = c /\ f.who = d
      BY <2>1, <2>2 DEF Good
    <2>4. QED
      BY <2>3 DEF c
  <1>4. Good(g) /\ ~g.meta /\ g.who = d
    BY ProseIs
  <1>5. Whole(node) /\ p = Append(Dir(node), Last(p))
    BY <1>2, Beside DEF Whole
  <1>6. f.content # <<>> /\ f.content[1] = Last(p)
    BY <1>3
  <1>7. ws = [z \in Place |-> ws[z]] /\ f # Absent /\ g # Absent
    BY <1>3, <1>4, GoodThere DEF Pieces, AllGood
  <1>8. /\ p \notin Files(e0) /\ node \notin Files(e0)
        /\ Pieces(e0, born \ {d})
    BY <1>1, WithoutIs, PiecesWithout
  <1>9. /\ ~Ops!IsRename(x) /\ x.path = node
        /\ ~Ops!IsRename(y) /\ y.path = p /\ y.bytes = g
        /\ Ops!Possible(x, ws) /\ Ops!Effect(x, ws) = e1
    <2>1. ~Ops!IsRename(y) /\ y.path = p /\ y.bytes = g
      BY WriteIs
    <2>2. /\ ~Ops!IsRename(x) /\ x.path = node
          /\ Ops!Possible(x, ws) /\ Ops!Effect(x, ws) = e1
      BY WriteIs
    <2>3. QED
      BY <2>1, <2>2
  <1>10. [e1 EXCEPT ![p] = g] = e
    BY <1>1, <1>2, <1>7 DEF Without, Files
  <1>11. Ops!Possible(y, e1) /\ Ops!Effect(y, e1) = e
    <2> HIDE DEF e1, e
    <2>1. QED
      BY <1>10, WriteDoes
  <1>12. OwnText(x, ws) /\ OwnText(y, ws)
    BY <1>1, <1>4, <1>9, ExistsIs DEF OwnText
  <1>13. /\ \A z \in Files(e0) : z \in Files(e) /\ e[z] = ws[z]
         /\ Steady(ws, e)
    <2>1. \A z \in Files(e0) : z \in Files(ws) /\ z # p /\ z # node /\ e0[z] = ws[z] /\ z \in Place
      BY <1>8, WithoutIs DEF Files
    <2>2. \A z \in Files(ws) : z = p \/ z \in Files(e0)
      BY <1>1, WithoutIs
    <2>3. e0 = [z \in Place |-> e0[z]]
      BY DEF Without
    <2> HIDE DEF e0, f, g, node
    <2>4. \A z \in Place : e[z] = IF z = p THEN g ELSE IF z = node THEN f ELSE e0[z]
      BY <1>2, <2>3
    <2>5. \A z \in Files(e0) : e[z] = e0[z]
      BY <2>1, <2>4
    <2> HIDE DEF e
    <2>6. \A z \in Files(e0) : z \in Files(e) /\ e[z] = ws[z]
      BY <2>1, <2>5 DEF Files
    <2>7. e[p] = g
      BY <1>2, <2>4
    <2>8. Steady(ws, e)
      BY <1>4, <2>2, <2>6, <2>7 DEF Steady
    <2>9. QED
      BY <2>6, <2>8
  <1> HIDE DEF e, e0, e1, f, g, node, x, y
  <1>14. Pieces(e, born)
    <2>1. Fresh2(e0, node, f, p, g, born \ {d})
      BY <1>1, <1>2, <1>3, <1>4, <1>5, <1>6, <1>8 DEF Fresh2
    <2>2. Pieces(e, (born \ {d}) \cup {f.who})
      BY <1>8, <2>1, PiecesTwo DEF e
    <2>3. (born \ {d}) \cup {f.who} = born
      BY <1>2, <1>3
    <2>4. QED
      BY <2>2, <2>3
  <1>15. Head1(s, born) /\ After(s, ws) = e
    <2>1. /\ IsSeq(s)
          /\ After(s, ws) = Ops!Effect(y, Ops!Effect(x, ws))
          /\ \A i \in 1..Len(s) : s[i] = x \/ s[i] = y
          /\ (Ops!Possible(x, ws) /\ Ops!Possible(y, Ops!Effect(x, ws))) => Runs(s, ws)
      BY HeadTwo
    <2> HIDE DEF s
    <2>2. QED
      BY <1>9, <1>11, <1>12, <1>13, <1>14, <2>1 DEF Head1
  <1> HIDE DEF s
  <1>16. Keeps(t, e)
    BY <1>13, TailKeeps DEF e0
  <1> HIDE DEF t
  <1>17. QED
    BY <1>1, <1>15, <1>16, HeadCommits

\* combine leaves the pieces of documents together, by a set staged safely.
LEMMA CombineFits ==
    ASSUME NEW p \in NodesOf(ws), Pieces(ws, born), Plain, Combine(p)
    PROVE  Pieces(ws', born') /\ Sound(done'.ops, ws)
  <1> DEFINE body == ContentTarget(ws, p)
             f == [ws[p] EXCEPT !.content = <<>>, !.body = ws[body].body]
             x == Ops!Write(body, f)
             y == Ops!Remove(p)
             s == <<x, y>>
             t == InboundRewrites(p, body)
             d == ws[p].who
             e0 == Without(ws, p)
             e1 == [ws EXCEPT ![body] = f]
             e == [e0 EXCEPT ![body] = f]
  <1>1. /\ Commit("combine", <<ws[p].who>>, s \o t) /\ born' = born
        /\ Separated(ws, p)
    BY DEF Combine
  <1>2. /\ p \in Files(ws) /\ p \in Place /\ Good(ws[p]) /\ ws[p].meta /\ d \in born
        /\ body \in Files(ws) /\ body # p /\ ws[body].who = d /\ body \in Place
    BY <1>1, BodyIs DEF Files
  <1>3. Good(f) /\ f.meta /\ f.content = <<>> /\ f.who = d
    <2> DEFINE h == ws[p]
               c == <<>>
               B == ws[body].body
    <2>1. f = [h EXCEPT !.content = c, !.body = B] /\ Good(h) /\ h.meta /\ h.who = d
      BY <1>2
    <2> HIDE DEF f, h, d, c, B
    <2>2. h = [z \in {"who", "meta", "title", "rel", "content", "body"} |-> h[z]]
      BY <2>1 DEF Good
    <2>3. Good(f) /\ f.meta /\ f.content = c /\ f.who = d
      BY <2>1, <2>2 DEF Good
    <2>4. QED
      BY <2>3 DEF c
  <1>4. ws = [z \in Place |-> ws[z]] /\ f # Absent
    BY <1>3, GoodThere DEF Pieces, AllGood
  <1>5. body \notin Files(e0) /\ Pieces(e0, born \ {d})
    BY <1>1, WithoutIs, PiecesWithout
  <1>6. /\ ~Ops!IsRename(x) /\ x.path = body /\ x.bytes = f
        /\ Ops!Possible(x, ws) /\ Ops!Effect(x, ws) = e1
    BY WriteIs
  <1>7. /\ ~Ops!IsRename(y) /\ ~Ops!IsWrite(y)
        /\ \A z : Ops!Possible(y, z) <=> z[p] # Absent
        /\ \A z : Ops!Effect(y, z) = [z EXCEPT ![p] = Absent]
    BY RemoveIs
  <1>8. [e1 EXCEPT ![p] = Absent] = e /\ e1[p] # Absent
    BY <1>1, <1>2, <1>4 DEF Without, Files
  <1>9. Ops!Possible(y, e1) /\ Ops!Effect(y, e1) = e
    <2> HIDE DEF e1, e, y
    <2>1. QED
      BY <1>7, <1>8
  <1>10. OwnText(x, ws) /\ OwnText(y, ws)
    BY <1>2, <1>3, <1>6, <1>7 DEF OwnText
  <1>11. /\ \A z \in Files(e0) : z \in Files(e) /\ e[z] = ws[z]
         /\ Steady(ws, e)
    <2>1. \A z \in Files(e0) : z \in Files(ws) /\ z # p /\ z # body /\ e0[z] = ws[z] /\ z \in Place
      BY <1>5, WithoutIs DEF Files
    <2>2. \A z \in Files(ws) : z = p \/ z = body \/ z \in Files(e0)
      BY WithoutIs
    <2>3. e0 = [z \in Place |-> e0[z]] /\ e0[p] = Absent
      BY <1>2 DEF Without
    <2> HIDE DEF e0, f, body
    <2>4. \A z \in Place : e[z] = IF z = body THEN f ELSE e0[z]
      BY <1>2, <2>3
    <2>5. \A z \in Files(e0) : e[z] = e0[z]
      BY <2>1, <2>4
    <2> HIDE DEF e
    <2>6. \A z \in Files(e0) : z \in Files(e) /\ e[z] = ws[z]
      BY <2>1, <2>5 DEF Files
    <2>7. e[body] = f /\ p \notin Files(e)
      BY <1>2, <2>3, <2>4 DEF Files
    <2>8. Steady(ws, e)
      BY <1>2, <1>3, <2>2, <2>6, <2>7 DEF Steady
    <2>9. QED
      BY <2>6, <2>8
  <1> HIDE DEF e, e0, e1, f, body, x, y
  <1>12. Pieces(e, born)
    <2>1. Fresh1(e0, body, f, born \ {d})
      BY <1>2, <1>3, <1>5 DEF Fresh1
    <2>2. Pieces(e, (born \ {d}) \cup {f.who})
      BY <1>5, <2>1, PiecesOne DEF e
    <2>3. (born \ {d}) \cup {f.who} = born
      BY <1>2, <1>3
    <2>4. QED
      BY <2>2, <2>3
  <1>13. Head1(s, born) /\ After(s, ws) = e
    <2>1. /\ IsSeq(s)
          /\ After(s, ws) = Ops!Effect(y, Ops!Effect(x, ws))
          /\ \A i \in 1..Len(s) : s[i] = x \/ s[i] = y
          /\ (Ops!Possible(x, ws) /\ Ops!Possible(y, Ops!Effect(x, ws))) => Runs(s, ws)
      BY HeadTwo
    <2> HIDE DEF s
    <2>2. QED
      BY <1>6, <1>7, <1>9, <1>10, <1>11, <1>12, <2>1 DEF Head1
  <1> HIDE DEF s
  <1>14. Keeps(t, e)
    BY <1>11, TailKeeps DEF e0
  <1> HIDE DEF t
  <1>15. QED
    BY <1>1, <1>13, <1>14, HeadCommits

\* duplicate leaves the pieces of documents together, by a set staged safely.
LEMMA DuplicateFits ==
    ASSUME NEW p \in NodesOf(ws), Pieces(ws, born), Plain, Duplicate(p)
    PROVE  Pieces(ws', born') /\ Sound(done'.ops, ws)
  <1> DEFINE apart == Separated(ws, p)
             body == ContentTarget(ws, p)
             copy == CopyOf[p]
             goes == BodyBeside(copy, body)
             kept == [ws[p] EXCEPT !.rel["contents"] = <<>>]
             old == Parent(ws, p)
             title == TitleOf(p)
  <1>1. PICK d \in Doc \ born :
            /\ Commit("duplicate", <<d, ws[p].who>>,
                      <<Ops!Write(copy, IF apart
                                        THEN [kept EXCEPT !.who = d, !.content = <<Last(goes)>>]
                                        ELSE [kept EXCEPT !.who = d])>>
                      \o If(apart, <<Ops!Write(goes, [ws[body] EXCEPT !.who = d])>>)
                      \o FlattenSeq(SetToSeq({
                            <<Ops!Write(q, AddDown(ws[q], Author(q, copy, title)))>>
                                : q \in old})))
            /\ born' = born \cup {d}
    BY DEF Duplicate
  <1> DEFINE f == IF apart THEN [kept EXCEPT !.who = d, !.content = <<Last(goes)>>]
                  ELSE [kept EXCEPT !.who = d]
             g == [ws[body] EXCEPT !.who = d]
             x == Ops!Write(copy, f)
             y == Ops!Write(goes, g)
             s == <<x>> \o If(apart, <<y>>)
             list(q) == <<Ops!Write(q, AddDown(ws[q], Author(q, copy, title)))>>
             t == FlattenSeq(SetToSeq({list(q) : q \in old}))
  <1>2. /\ Commit("duplicate", <<d, ws[p].who>>, s \o t) /\ born' = born \cup {d}
        /\ d \notin born
        /\ \A q \in old : q \in Files(ws)
        /\ copy \in Place /\ copy \notin Files(ws)
        /\ apart => goes \in Place /\ goes \notin Files(ws)
        /\ Extension(copy) = Extension(p)
    <2>1. p \in DOMAIN CopyOf /\ CopyFree(copy, goes, apart) /\ \A q \in old : Exists(ws, q)
      BY DEF Duplicate
    <2>2. Extension(copy) = Extension(p)
      BY <2>1, PlacesAssumption
    <2>3. QED
      BY <1>1, <2>1, <2>2, ExistsIs DEF CopyFree
  <1>3. /\ Good(ws[p]) /\ ws[p].meta
        /\ apart => /\ Good(ws[body]) /\ ~ws[body].meta
                    /\ Whole(p) /\ ~Whole(body)
    BY BodyIs
  <1>4. Good(kept) /\ kept.meta /\ kept.content = ws[p].content
    <2> HIDE DEF kept
    <2>1. kept = [ws[p] EXCEPT !.rel["contents"] = <<>>]
      BY DEF kept
    <2>2. QED
      BY <1>3, <2>1, GoodChildless
  <1>5. apart => Good(g) /\ ~g.meta /\ g.who = d
    BY <1>3, ProseWho
  <1>6. /\ Good(f) /\ f.meta /\ f.who = d
        /\ f.content = IF apart THEN <<Last(goes)>> ELSE <<>>
    <2>1. CASE apart
      <3> DEFINE c == <<Last(goes)>>
      <3>1. f = [kept EXCEPT !.who = d, !.content = c]
        BY <2>1
      <3> HIDE DEF f, kept, c
      <3>2. kept = [z \in {"who", "meta", "title", "rel", "content", "body"} |-> kept[z]]
        BY <1>4 DEF Good
      <3>3. Good(f) /\ f.meta /\ f.content = c /\ f.who = d
        BY <1>4, <3>1, <3>2 DEF Good
      <3>4. QED
        BY <2>1, <3>3 DEF c
    <2>2. CASE ~apart
      <3>1. f = [kept EXCEPT !.who = d] /\ kept.content = <<>>
        BY <1>4, <2>2 DEF Separated
      <3> HIDE DEF f, kept
      <3>2. Good(f) /\ f.meta /\ f.content = kept.content /\ f.who = d
        BY <1>4, <3>1, GoodWho
      <3>3. QED
        BY <2>2, <3>1, <3>2
    <2>3. QED
      BY <2>1, <2>2
  <1>7. /\ Head1(s, born \cup {d})
        /\ \A z \in Files(ws) : z \in Files(After(s, ws)) /\ After(s, ws)[z] = ws[z]
    <2>1. CASE apart
      <3>1. s = <<x, y>>
        <4> HIDE DEF x, y, apart
        <4>1. QED
          BY <2>1, IfIs
      <3>2. Whole(copy) /\ ~Whole(goes) /\ goes = Append(Dir(copy), Last(goes))
        BY <1>2, <1>3, <2>1, Beside DEF BodyBeside, Whole
      <3>3. f.content # <<>> /\ f.content[1] = Last(goes)
        BY <1>6, <2>1
      <3>4. goes \in Place /\ goes \notin Files(ws) /\ Good(g) /\ ~g.meta /\ g.who = d
        BY <1>2, <1>5, <2>1
      <3> HIDE DEF copy, goes, f, g, s, apart, kept
      <3>5. s = <<Ops!Write(copy, f), Ops!Write(goes, g)>>
        BY <3>1
      <3>6. Fresh2(ws, copy, f, goes, g, born) /\ f.who = d
        BY <1>2, <1>6, <3>2, <3>3, <3>4 DEF Fresh2
      <3>7. /\ Head1(s, born \cup {f.who})
            /\ \A z \in Files(ws) : z \in Files(After(s, ws)) /\ After(s, ws)[z] = ws[z]
        <4> HIDE DEF x, y
        <4>1. QED
          BY <3>5, <3>6, FreshTwo
      <3>8. QED
        BY <3>6, <3>7
    <2>2. CASE ~apart
      <3>1. s = <<x>>
        <4> HIDE DEF x, y, apart
        <4>1. QED
          BY <2>2, IfIs
      <3>2. f.content = <<>>
        BY <1>6, <2>2
      <3> HIDE DEF copy, f, s, apart, kept
      <3>3. Fresh1(ws, copy, f, born) /\ f.who = d
        BY <1>2, <1>6, <3>2 DEF Fresh1
      <3>4. s = <<Ops!Write(copy, f)>>
        BY <3>1
      <3>5. /\ Head1(s, born \cup {f.who})
            /\ \A z \in Files(ws) : z \in Files(After(s, ws)) /\ After(s, ws)[z] = ws[z]
        <4> HIDE DEF x
        <4>1. QED
          BY <3>3, <3>4, FreshOne
      <3>6. QED
        BY <3>3, <3>5
    <2>3. QED
      BY <2>1, <2>2
  <1> DEFINE e == After(s, ws)
  <1>8. ASSUME NEW q \in old PROVE Keeps(list(q), e)
    <2>1. q \in NodesOf(ws)
      BY <1>2, <1>8, ParentIs
    <2>2. q \in Files(ws) /\ Good(ws[q]) /\ ws[q].meta
      BY <2>1, BodyIs
    <2>3. q \in Files(e) /\ e[q] = ws[q]
      BY <1>7, <2>2
    <2> DEFINE l == Author(q, copy, title)
    <2> HIDE DEF l, e
    <2>4. Kin(e[q], AddDown(ws[q], l))
      BY <2>2, <2>3, KinAdds
    <2>5. Keeps(<<Ops!Write(q, AddDown(ws[q], l))>>, e)
      BY <2>3, <2>4, KeepsOne
    <2>6. QED
      BY <2>5 DEF l
  <1> HIDE DEF s, e
  <1>9. Keeps(t, e)
    <2>1. CASE old = {}
      <3>1. {list(q) : q \in old} = {}
        BY <2>1
      <3>2. t = <<>>
        BY <3>1, FlattenNone
      <3> HIDE DEF t
      <3>3. QED
        BY <3>2, KeepsNone
    <2>2. CASE \E r : old = {r}
      <3>1. PICK r : old = {r}
        BY <2>2
      <3> DEFINE v == list(r)
      <3>2. {list(q) : q \in old} = {v}
        BY <3>1
      <3>3. t = FlattenSeq(SetToSeq({v}))
        BY <3>2
      <3>4. Keeps(v, e)
        BY <1>8, <3>1
      <3> HIDE DEF v, t
      <3>5. QED
        BY <3>3, <3>4, FlattenOne
    <2>3. QED
      BY <2>1, <2>2, ParentOne
  <1> HIDE DEF t
  <1>10. QED
    BY <1>2, <1>7, <1>9, HeadCommits DEF e

-----------------------------------------------------------------------------
(* retitle, convert_link_style.                                            *)

\* retitle leaves the pieces of documents together, by a set staged safely.
LEMMA RetitleFits ==
    ASSUME NEW p \in NodesOf(ws), NEW title, Pieces(ws, born), Retitle(p, title)
    PROVE  Pieces(ws', born') /\ Sound(done'.ops, ws)
  <1> DEFINE edit(f, s) == Relabelled(f, s, p, title)
             g == [ws[p] EXCEPT !.title = title]
             s == <<Ops!Write(p, g)>>
             t == Rewrites(edit, Inbound(p))
  <1>1. Commit("retitle", <<ws[p].who>>, s \o t) /\ born' = born
    BY DEF Retitle
  <1>2. p \in Files(ws) /\ Good(ws[p]) /\ ws[p].meta /\ AllGood(ws)
    BY BodyIs DEF Pieces
  <1>3. Kin(ws[p], g)
    <2> DEFINE h == ws[p]
    <2>1. g = [h EXCEPT !.title = title] /\ Good(h) /\ h.meta
      BY <1>2
    <2> HIDE DEF g, h
    <2>2. Good(g) /\ g.meta /\ g.content = h.content /\ g.who = h.who
      BY <2>1, GoodTitle
    <2>3. Kin(h, g)
      BY <2>1, <2>2 DEF Kin, Good
    <2>4. QED
      BY <2>3 DEF h
  <1> HIDE DEF g
  <1>4. Keeps(s, ws)
    BY <1>2, <1>3, KeepsOne
  <1>5. Keeps(t, ws)
    <2> DEFINE S == {q \in Inbound(p) : Relabelled(ws[q], q, p, title) # ws[q]}
    <2>1. t = [i \in 1..Cardinality(S) |->
                  Ops!Write(SetToSeq(S)[i],
                            Relabelled(ws[SetToSeq(S)[i]], SetToSeq(S)[i], p, title))]
      BY DEF Rewrites
    <2> HIDE DEF t
    <2>2. QED
      BY <1>2, <2>1, RelabelsKeep
  <1> HIDE DEF s, t
  <1>6. QED
    BY <1>1, <1>4, <1>5, KeepsCat, CommittedEdit

\* convert_link_style leaves the pieces of documents together, by a set
\* staged safely.
LEMMA ConvertFits ==
    ASSUME NEW p \in NodesOf(ws), NEW style, NEW recursive, Pieces(ws, born),
           ConvertLinkStyle(p, style, recursive)
    PROVE  Pieces(ws', born') /\ Sound(done'.ops, ws)
  <1> DEFINE edit(f, s) == Restyled(f, s, style)
             scope == IF recursive THEN SpanningSubtree(ws, p) ELSE {p}
             t == Rewrites(edit, scope)
  <1>1. Commit("restyle", <<>>, t) /\ born' = born
    BY DEF ConvertLinkStyle
  <1>2. p \in Files(ws) /\ AllGood(ws)
    BY BodyIs DEF Pieces
  <1>3. scope \subseteq Files(ws)
    BY <1>2, SubtreeThere
  <1> HIDE DEF scope
  <1>4. Keeps(t, ws)
    <2> DEFINE S == {q \in scope : Restyled(ws[q], q, style) # ws[q]}
    <2>1. t = [i \in 1..Cardinality(S) |->
                  Ops!Write(SetToSeq(S)[i],
                            Restyled(ws[SetToSeq(S)[i]], SetToSeq(S)[i], style))]
      BY DEF Rewrites
    <2> HIDE DEF t
    <2>2. QED
      BY <1>2, <1>3, <2>1, RestylesKeep
  <1> HIDE DEF t
  <1>5. QED
    BY <1>1, <1>4, CommittedEdit

-----------------------------------------------------------------------------
(* What people do to their own files.                                      *)

\* No ops are staged safely.
LEMMA SoundNone ==
    ASSUME done'.ops = <<>>
    PROVE  Sound(done'.ops, ws)
  BY DEF Sound, Runs, Ops!ReplaySafe, Ops!SourcesExist, Ops!DestinationsFree

\* One file in another text.
LEMMA LikeOne ==
    ASSUME NEW e, AllGood(e), NEW p \in Files(e), NEW f, Kin(e[p], f)
    PROVE  Like(e, [e EXCEPT ![p] = f])
  <1>1. e = [x \in Place |-> e[x]] /\ f # Absent /\ p \in Place
    BY GoodThere DEF AllGood, Kin, Files
  <1>2. \A x \in Files(e) : Kin(e[x], e[x])
    BY KinSelf DEF AllGood
  <1> DEFINE v == [e EXCEPT ![p] = f]
  <1>3. v = [x \in Place |-> v[x]] /\ \A x \in Place : v[x] = IF x = p THEN f ELSE e[x]
    BY <1>1
  <1> HIDE DEF v
  <1>4. Files(v) = Files(e)
    BY <1>1, <1>3 DEF Files
  <1>5. \A x \in Files(e) : Kin(e[x], v[x])
    BY <1>2, <1>3 DEF Files
  <1>6. QED
    BY <1>3, <1>4, <1>5 DEF Like, v

\* People's own edits leave the pieces of documents together.
LEMMA WriteFits ==
    ASSUME NEW p \in Place, NEW text, Pieces(ws, born), Write(p, text)
    PROVE  Pieces(ws', born') /\ Sound(done'.ops, ws)
  <1>1. p \in Files(ws) /\ born' = born /\ done'.ops = <<>>
    BY ExistsIs DEF Write
  <1>2. AllGood(ws) /\ Good(ws[p])
    BY <1>1 DEF Pieces, AllGood
  <1>3. \E f : ws' = [ws EXCEPT ![p] = f] /\ Kin(ws[p], f)
    <2>1. CASE /\ ws[p].meta
               /\ Becomes([ws EXCEPT ![p].rel["links"] = Append(@, Link(<<>>, text))])
      <3> DEFINE h == ws[p]
                 u == Append(h.rel["links"], Link(<<>>, text))
                 f == [h EXCEPT !.rel = [h.rel EXCEPT !["links"] = u]]
      <3>1. ws' = [ws EXCEPT ![p] = f]
        BY <2>1 DEF Becomes
      <3>2. IsSeq(u)
        BY <1>2, SeqAppend DEF Good
      <3>3. Kin(h, f)
        <4> HIDE DEF u
        <4>1. "links" \in Links3 /\ f = [h EXCEPT !.rel = [h.rel EXCEPT !["links"] = u]]
          BY DEF Links3
        <4> HIDE DEF f, h
        <4>2. Good(h) /\ h.meta
          BY <1>2, <2>1 DEF h
        <4>3. QED
          BY <3>2, <4>1, <4>2, KinOneRel
      <3>4. QED
        BY <3>1, <3>3
    <2>2. CASE Becomes([ws EXCEPT ![p].body = Append(@, Link(<<>>, text))])
      <3> DEFINE h == ws[p]
                 B == Append(h.body, Link(<<>>, text))
                 f == [h EXCEPT !.body = B]
      <3>1. ws' = [ws EXCEPT ![p] = f]
        BY <2>2 DEF Becomes
      <3>2. Kin(h, f)
        <4> HIDE DEF B
        <4>1. f = [h EXCEPT !.body = B] /\ Good(h)
          BY <1>2
        <4> HIDE DEF f, h
        <4>2. CASE h.meta
          <5>1. Good(f) /\ f.meta /\ f.content = h.content /\ f.who = h.who
            BY <4>1, <4>2, GoodBody
          <5>2. QED
            BY <4>1, <4>2, <5>1 DEF Kin, Good
        <4>3. CASE ~h.meta
          <5>1. Good(f) /\ ~f.meta /\ f.content = h.content /\ f.who = h.who
            BY <4>1, <4>3, ProseBody
          <5>2. QED
            BY <4>1, <4>3, <5>1 DEF Kin, Good
        <4>4. QED
          BY <4>2, <4>3
      <3>3. QED
        BY <3>1, <3>2
    <2>3. QED
      BY <2>1, <2>2 DEF Write
  <1>4. PICK f : ws' = [ws EXCEPT ![p] = f] /\ Kin(ws[p], f)
    BY <1>3
  <1>5. Like(ws, ws')
    BY <1>1, <1>2, <1>4, LikeOne
  <1>6. QED
    BY <1>1, <1>5, PiecesLike, SoundNone

\* So do documents of their own.
LEMMA StrayFits ==
    ASSUME NEW p \in Place, Pieces(ws, born), Stray(p)
    PROVE  Pieces(ws', born') /\ Sound(done'.ops, ws)
  <1>1. PICK d \in Doc \ born, title \in Titles :
            Becomes([ws EXCEPT ![p] = New(d, title, <<>>, <<>>)]) /\ born' = born \cup {d}
    BY DEF Stray
  <1> DEFINE f == New(d, title, <<>>, <<>>)
  <1>2. p \notin Files(ws) /\ done'.ops = <<>> /\ ws' = [ws EXCEPT ![p] = f]
    BY <1>1, ExistsIs DEF Stray, Becomes
  <1>3. Good(f) /\ f.meta /\ f.who = d /\ f.content = <<>>
    <2> DEFINE up == <<>>
               body == <<>>
    <2>1. IsSeq(up) /\ f = New(d, title, up, body)
      BY AfterNone
    <2> HIDE DEF f, up, body
    <2>2. Good(f) /\ f.meta /\ f.who = d /\ f.content = body
      BY <2>1, NewIs
    <2>3. QED
      BY <2>2 DEF body
  <1> HIDE DEF f
  <1>4. Fresh1(ws, p, f, born)
    BY <1>2, <1>3 DEF Fresh1
  <1>5. Pieces(ws', born \cup {f.who})
    BY <1>2, <1>4, PiecesOne
  <1>6. QED
    BY <1>1, <1>2, <1>3, <1>5, SoundNone

\* A workspace begins with its pieces together.
LEMMA InitFits ==
    ASSUME Init
    PROVE  Pieces(ws, born)
  <1>1. PICK node \in Index, title \in Titles :
            LET apart == Whole(node)
                body  == WithExtension(node, "md")
            IN  ws = [p \in Place |->
                        CASE p = node -> New(First, title, <<>>,
                                             IF apart THEN <<Last(body)>> ELSE <<>>)
                          [] p # node /\ apart /\ p = body -> Prose(First, <<>>)
                          [] OTHER -> Absent]
    BY DEF Init
  <1> DEFINE apart == Whole(node)
             body == WithExtension(node, "md")
             up == <<>>
             c == IF apart THEN <<Last(body)>> ELSE <<>>
             f == New(First, title, up, c)
             g == Prose(First, <<>>)
             w == [p \in Place |-> Absent]
  <1>2. born = {} \cup {First}
    BY DEF Init
  <1>3. /\ w = [p \in Place |-> w[p]] /\ Files(w) = {}
        /\ Pieces(w, {})
    BY DEF Files, NodesOf, Pieces, AllGood
  <1>4. node \in Place /\ (apart => body \in Place)
    BY PlacesAssumption
  <1>5. Good(f) /\ f.meta /\ f.who = First /\ f.content = c
    <2>1. IsSeq(up)
      BY AfterNone
    <2> HIDE DEF up, c
    <2>2. QED
      BY <2>1, NewIs
  <1>6. Good(g) /\ ~g.meta /\ g.who = First
    <2> DEFINE B == <<>>
    <2>1. g = Prose(First, B)
      OBVIOUS
    <2> HIDE DEF g, B
    <2>2. QED
      BY <2>1, ProseIs
  <1>7. CASE apart
    <2>1. Extension(body) = "md" /\ body = Append(Dir(node), Last(body))
      BY <1>4, Beside
    <2>2. ~Whole(body) /\ Whole(node)
      BY <1>7, <2>1 DEF Whole
    <2>3. f.content # <<>> /\ f.content[1] = Last(body)
      BY <1>5, <1>7
    <2>4. ws = [w EXCEPT ![node] = f, ![body] = g]
      <3>1. node # body
        BY <2>2
      <3>2. ws = [p \in Place |-> IF p = node THEN f ELSE IF p = body THEN g ELSE Absent]
        BY <1>1, <1>7
      <3> HIDE DEF f, g, body
      <3>3. QED
        BY <3>1, <3>2
    <2>5. node \in Place /\ body \in Place
      BY <1>4, <1>7
    <2> HIDE DEF f, g, body, w, apart
    <2>6. Fresh2(w, node, f, body, g, {})
      BY <1>3, <1>5, <1>6, <2>1, <2>2, <2>3, <2>5 DEF Fresh2
    <2>7. Pieces(ws, {} \cup {f.who})
      BY <1>3, <2>4, <2>6, PiecesTwo
    <2>8. QED
      BY <1>2, <1>5, <2>7
  <1>8. CASE ~apart
    <2>1. f.content = <<>>
      BY <1>5, <1>8
    <2>2. ws = [w EXCEPT ![node] = f]
      <3>1. ws = [p \in Place |-> IF p = node THEN f ELSE Absent]
        BY <1>1, <1>8
      <3> HIDE DEF f
      <3>2. QED
        BY <3>1
    <2> HIDE DEF f, w
    <2>3. Fresh1(w, node, f, {})
      BY <1>3, <1>4, <1>5, <2>1 DEF Fresh1
    <2>4. Pieces(ws, {} \cup {f.who})
      BY <1>3, <2>2, <2>3, PiecesOne
    <2>5. QED
      BY <1>2, <1>5, <2>4
  <1>9. QED
    BY <1>7, <1>8

-----------------------------------------------------------------------------
(* rename.                                                                 *)

\* The op writes a file that is none of those of X.
Aside(op, X) == \E q, f : q \notin X /\ op = Ops!Write(q, f)

\* Such an op leaves the files of X alone.
LEMMA AsideIs ==
    ASSUME NEW op, NEW X, Aside(op, X)
    PROVE  /\ Ops!IsWrite(op) /\ ~Ops!IsRename(op)
           /\ \A x \in X : ~Ops!Touches(op, x)
  <1>1. PICK q, f : q \notin X /\ op = Ops!Write(q, f)
    BY DEF Aside
  <1>2. /\ Ops!IsWrite(op) /\ ~Ops!IsRename(op)
        /\ \A x : Ops!Touches(op, x) <=> x = q
    BY <1>1, WriteIs
  <1>3. QED
    BY <1>1, <1>2

\* A file is moved from a to b and written anew there.
MovesTo(x, y, a, b) ==
    /\ Ops!IsRename(x) /\ x.from = a /\ x.to = b
    /\ \A z : Ops!Touches(x, z) <=> z = a \/ z = b
    /\ Ops!IsWrite(y) /\ ~Ops!IsRename(y) /\ y.path = b
    /\ \A z : Ops!Touches(y, z) <=> z = b

\* Moving a file and writing it anew: what that leaves, and that it runs.
LEMMA MoveIs ==
    ASSUME NEW a \in Place, NEW b \in Place, NEW n, NEW w, w = [z \in Place |-> w[z]],
           w[a] # Absent, w[b] = Absent,
           NEW s, s = <<Ops!Rename(a, b), Ops!Write(b, n)>>
    PROVE  /\ IsSeq(s) /\ Len(s) = 2 /\ Runs(s, w) /\ MovesTo(s[1], s[2], a, b)
           /\ s[2].bytes = n
           /\ After(s, w) = [w EXCEPT ![a] = Absent, ![b] = n]
  <1> DEFINE x == Ops!Rename(a, b)
             y == Ops!Write(b, n)
             e1 == [w EXCEPT ![b] = w[a], ![a] = Absent]
             e == [w EXCEPT ![a] = Absent, ![b] = n]
  <1>1. MovesTo(x, y, a, b)
    <2>1. /\ Ops!IsRename(x) /\ x.from = a /\ x.to = b
          /\ \A z : Ops!Touches(x, z) <=> z = a \/ z = b
      BY RenameIs
    <2>2. /\ Ops!IsWrite(y) /\ ~Ops!IsRename(y) /\ y.path = b
          /\ \A z : Ops!Touches(y, z) <=> z = b
      BY WriteIs
    <2> HIDE DEF x, y
    <2>3. QED
      BY <2>1, <2>2 DEF MovesTo
  <1>2. y.bytes = n
    BY WriteIs
  <1>3. Ops!Possible(x, w) /\ Ops!Effect(x, w) = e1
    BY RenameIs
  <1>4. [e1 EXCEPT ![b] = n] = e
    <2>1. a # b
      OBVIOUS
    <2>2. \A z \in Place : e1[z] = IF z = a THEN Absent ELSE IF z = b THEN w[a] ELSE w[z]
      BY <2>1
    <2>3. \A z \in Place : e[z] = IF z = b THEN n ELSE IF z = a THEN Absent ELSE w[z]
      BY <2>1
    <2>4. e1 = [z \in Place |-> e1[z]] /\ e = [z \in Place |-> e[z]]
      OBVIOUS
    <2> HIDE DEF e1, e
    <2>5. QED
      BY <2>1, <2>2, <2>3, <2>4
  <1>5. Ops!Possible(y, e1) /\ Ops!Effect(y, e1) = e
    <2> HIDE DEF e1, e
    <2>1. QED
      BY <1>4, WriteDoes
  <1>6. s = <<x, y>>
    OBVIOUS
  <1> HIDE DEF x, y, e1, e
  <1>7. Len(s) = 2 /\ s[1] = x /\ s[2] = y
    BY <1>6
  <1> DEFINE u == <<x, y>>
  <1>8. /\ IsSeq(u) /\ After(u, w) = Ops!Effect(y, Ops!Effect(x, w))
        /\ (Ops!Possible(x, w) /\ Ops!Possible(y, Ops!Effect(x, w))) => Runs(u, w)
    BY HeadTwo
  <1>9. s = u
    BY <1>6
  <1> HIDE DEF u
  <1>10. QED
    BY <1>1, <1>2, <1>3, <1>5, <1>7, <1>8, <1>9 DEF e

\* What is left to be shown of a set with moves.
Mover(u, w) ==
    Ops!ReplaySafe(u) /\ Ops!SourcesExist(u, w) /\ Ops!DestinationsFree(u, w)

\* A set moves one file, and writes others.
LEMMA MoverOne ==
    ASSUME NEW u, NEW a, NEW b, a # b, NEW w, w[a] # Absent, w[b] = Absent,
           MovesTo(u[1], u[2], a, b),
           \A i \in DOMAIN u : i \in Nat /\ (i = 1 \/ i = 2 \/ Aside(u[i], {a, b}))
    PROVE  Mover(u, w)
  <1>1. \A i \in DOMAIN u : Ops!IsRename(u[i]) => i = 1
    BY AsideIs DEF MovesTo
  <1>2. ASSUME NEW j \in DOMAIN u, j # 1
        PROVE  /\ ~Ops!Touches(u[j], a)
               /\ Ops!Touches(u[j], b) => j > 1 /\ Ops!IsWrite(u[j])
    BY <1>2, AsideIs DEF MovesTo
  <1>3. u[1].from = a /\ u[1].to = b
    BY DEF MovesTo
  <1>4. Ops!ReplaySafe(u)
    BY <1>1, <1>2, <1>3 DEF Ops!ReplaySafe
  <1>5. Ops!SourcesExist(u, w) /\ Ops!DestinationsFree(u, w)
    BY <1>1, <1>3 DEF Ops!SourcesExist, Ops!DestinationsFree
  <1>6. QED
    BY <1>4, <1>5 DEF Mover

\* A set moves two, and writes others.
LEMMA MoverTwo ==
    ASSUME NEW u, NEW a, NEW b, NEW c, NEW d, NEW w,
           a # b, a # c, a # d, b # c, b # d, c # d,
           w[a] # Absent, w[b] = Absent, w[c] # Absent, w[d] = Absent,
           MovesTo(u[1], u[2], a, b), MovesTo(u[3], u[4], c, d),
           \A i \in DOMAIN u : i \in Nat /\ (i \in 1..4 \/ (i > 4 /\ Aside(u[i], {a, b, c, d})))
    PROVE  Mover(u, w)
  <1>0. \A i \in DOMAIN u : \/ i = 1 \/ i = 2 \/ i = 3 \/ i = 4
                            \/ i \in Nat /\ i > 4 /\ Aside(u[i], {a, b, c, d})
    OBVIOUS
  <1>1. \A i \in DOMAIN u : Ops!IsRename(u[i]) => i = 1 \/ i = 3
    BY <1>0, AsideIs DEF MovesTo
  <1>2. ASSUME NEW j \in DOMAIN u, j # 1
        PROVE  /\ ~Ops!Touches(u[j], a)
               /\ Ops!Touches(u[j], b) => j > 1 /\ Ops!IsWrite(u[j])
    BY <1>0, <1>2, AsideIs DEF MovesTo
  <1>3. ASSUME NEW j \in DOMAIN u, j # 3
        PROVE  /\ ~Ops!Touches(u[j], c)
               /\ Ops!Touches(u[j], d) => j > 3 /\ Ops!IsWrite(u[j])
    BY <1>0, <1>3, AsideIs DEF MovesTo
  <1>4. u[1].from = a /\ u[1].to = b /\ u[3].from = c /\ u[3].to = d
    BY DEF MovesTo
  <1>5. Ops!ReplaySafe(u)
    BY <1>1, <1>2, <1>3, <1>4 DEF Ops!ReplaySafe
  <1>6. Ops!SourcesExist(u, w) /\ Ops!DestinationsFree(u, w)
    BY <1>1, <1>4 DEF Ops!SourcesExist, Ops!DestinationsFree
  <1>7. QED
    BY <1>5, <1>6 DEF Mover

\* A mutation whose head moves files and leaves them in pieces that fit.
LEMMA MoverCommits ==
    ASSUME NEW op, NEW about, NEW s, NEW t, Commit(op, about, s \o t),
           IsSeq(s), Runs(s, ws), NEW e, e = After(s, ws), Keeps(t, e), Steady(ws, e),
           \A i \in 1..Len(s) : OwnText(s[i], ws),
           Mover(s \o t, ws),
           NEW b, Pieces(e, b)
    PROVE  Pieces(ws', b) /\ Sound(done'.ops, ws)
  <1>1. IsSeq(t) /\ Runs(t, After(s, ws))
    BY KeepsRuns DEF Keeps
  <1>2. Runs(s \o t, ws)
    BY <1>1, RunsCat
  <1>3. ws' = After(s \o t, ws) /\ done'.ops = s \o t
    BY <1>2, CommitIs
  <1>4. Pieces(After(s \o t, ws), b)
    BY PiecesBy
  <1>5. /\ IsSeq(s \o t) /\ Len(s \o t) = Len(s) + Len(t)
        /\ \A k \in 1..Len(s) : (s \o t)[k] = s[k]
        /\ \A k \in 1..Len(t) : (s \o t)[Len(s) + k] = t[k]
        /\ \A k \in 1..Len(s \o t) : k \in 1..Len(s) \/ k - Len(s) \in 1..Len(t)
    BY <1>1, SeqCat
  <1>6. Len(s) \in Nat /\ DOMAIN (s \o t) = 1..Len(s \o t)
    BY <1>5, SeqIs
  <1>7. \A k \in DOMAIN (s \o t) : OwnText((s \o t)[k], ws)
    <2>1. SUFFICES ASSUME NEW k \in 1..Len(s \o t) PROVE OwnText((s \o t)[k], ws)
      BY <1>6
    <2>2. CASE k \in 1..Len(s)
      BY <1>5, <2>2
    <2>3. CASE k - Len(s) \in 1..Len(t)
      <3>1. (s \o t)[Len(s) + (k - Len(s))] = t[k - Len(s)]
        BY <1>5, <2>3
      <3>2. Len(s) + (k - Len(s)) = k
        BY <1>5, <1>6, SeqIs
      <3>3. OwnText(t[k - Len(s)], ws)
        BY <2>3, KeepsOwn
      <3>4. QED
        BY <3>1, <3>2, <3>3
    <2>4. QED
      BY <1>5, <2>2, <2>3
  <1>8. Sound(s \o t, ws)
    BY <1>2, <1>7 DEF Sound, Mover
  <1>9. QED
    BY <1>3, <1>4, <1>8

\* rename leaves the pieces of documents together, by a set staged safely:
\* its moves go to free places, and nothing else touches what they move.
LEMMA RenameFits ==
    ASSUME NEW from \in NodesOf(ws), NEW to \in Place, Pieces(ws, born), Plain,
           Rename(from, to)
    PROVE  Pieces(ws', born') /\ Sound(done'.ops, ws)
  <1> DEFINE apart == Separated(ws, from)
             body == ContentTarget(ws, from)
             goes == BodyBeside(to, body)
             node == Rerelativized(ws[from], from, to)
             n == IF apart THEN [node EXCEPT !.content = <<Last(goes)>>] ELSE node
             g == Rerelativized(ws[body], body, goes)
             s1 == <<Ops!Rename(from, to), Ops!Write(to, n)>>
             s2 == <<Ops!Rename(body, goes), Ops!Write(goes, g)>>
             s == s1 \o If(apart, s2)
             t == InboundRewrites(from, to)
             d == ws[from].who
             e0 == Without(ws, from)
  <1>1. /\ Commit("rename", <<ws[from].who>>, s \o t) /\ born' = born
        /\ to \notin Files(ws) /\ Extension(from) = Extension(to)
        /\ apart => goes \in Place /\ goes \notin Files(ws)
    BY ExistsIs DEF Rename
  <1>2. /\ from \in Files(ws) /\ from \in Place /\ Good(ws[from]) /\ ws[from].meta
        /\ d \in born
        /\ apart => /\ body \in Files(ws) /\ body \in Place
                    /\ Good(ws[body]) /\ ~ws[body].meta /\ body # from
                    /\ ws[body].who = d
                    /\ Whole(from) /\ ~Whole(body)
    BY BodyIs DEF Files
  <1>3. Good(node) /\ node.meta /\ node.who = d /\ node.content = ws[from].content
    BY <1>2, KinMoved DEF Kin
  <1>4. /\ Good(n) /\ n.meta /\ n.who = d
        /\ n.content = IF apart THEN <<Last(goes)>> ELSE <<>>
    <2>1. CASE apart
      <3> DEFINE c == <<Last(goes)>>
      <3>1. n = [node EXCEPT !.content = c]
        BY <2>1
      <3> HIDE DEF n, node, c, d
      <3>2. Good(n) /\ n.meta /\ n.content = c /\ n.who = node.who
        BY <1>3, <3>1, GoodContent
      <3>3. QED
        BY <1>3, <2>1, <3>2 DEF c
    <2>2. CASE ~apart
      BY <1>3, <2>2 DEF Separated
    <2>3. QED
      BY <2>1, <2>2
  <1>5. apart => Good(g) /\ ~g.meta /\ g.who = d
    BY <1>2, KinMoved DEF Kin
  <1>6. ws = [z \in Place |-> ws[z]] /\ n # Absent /\ (apart => g # Absent)
    BY <1>4, <1>5, GoodThere DEF Pieces, AllGood
  <1>7. /\ to \notin Files(e0) /\ Pieces(e0, born \ {d})
        /\ apart => goes \notin Files(e0)
        /\ e0 = [z \in Place |-> e0[z]]
    <2>1. to \notin Files(e0) /\ (apart => goes \notin Files(e0))
      BY <1>1, WithoutIs
    <2>2. Pieces(e0, born \ {d})
      BY PiecesWithout
    <2>3. e0 = [z \in Place |-> e0[z]]
      BY DEF Without
    <2>4. QED
      BY <2>1, <2>2, <2>3
  <1>8. (born \ {d}) \cup {n.who} = born
    BY <1>2, <1>4
  <1>9. /\ IsSeq(s1) /\ Len(s1) = 2 /\ Runs(s1, ws) /\ MovesTo(s1[1], s1[2], from, to)
        /\ s1[2].bytes = n
        /\ After(s1, ws) = [ws EXCEPT ![from] = Absent, ![to] = n]
    <2>1. ws[from] # Absent /\ ws[to] = Absent
      BY <1>1, <1>2 DEF Files
    <2> HIDE DEF n
    <2>2. QED
      BY <1>2, <1>6, <2>1, MoveIs
  \* The files the tail writes are others.
  <1>10. ASSUME NEW e, \A x \in Files(e0) : x \in Files(e) /\ e[x] = ws[x]
         PROVE  /\ Keeps(t, e)
                /\ Others(t, from)
    BY <1>10, TailKeeps
  <1>11. CASE ~apart
    <2> DEFINE e == [e0 EXCEPT ![to] = n]
    <2>1. s = s1
      <3>1. s = s1 \o <<>>
        BY <1>11 DEF If
      <3> HIDE DEF s1
      <3>2. PICK C : s1 \in Seq(C)
        BY <1>9 DEF IsSeq
      <3>3. QED
        BY <3>1, <3>2, ConcatEmptySeq
    <2>2. e = [ws EXCEPT ![from] = Absent, ![to] = n]
      <3>1. e0 = [ws EXCEPT ![from] = Absent]
        BY <1>2, <1>6, <1>11 DEF Without
      <3>2. QED
        BY <1>2, <1>6, <3>1
    <2>3. \A x \in Files(e0) : x \in Files(ws) /\ x # from /\ x # to /\ e0[x] = ws[x] /\ x \in Place
      BY <1>1, WithoutIs DEF Files
    <2>4. \A x \in Files(ws) : x = from \/ x \in Files(e0)
      BY <1>11, WithoutIs
    <2> HIDE DEF e0, n
    <2>5. \A z \in Place : e[z] = IF z = to THEN n ELSE e0[z]
      BY <1>7
    <2>6. e0[from] = Absent
      BY <1>2 DEF e0, Without
    <2> HIDE DEF e
    <2>7. \A x \in Files(e0) : x \in Files(e) /\ e[x] = ws[x]
      BY <2>3, <2>5 DEF Files
    <2>8. from \notin Files(e)
      BY <1>1, <1>2, <2>5, <2>6 DEF Files
    <2>9. Steady(ws, e)
      BY <2>4, <2>7, <2>8 DEF Steady
    <2>10. Fresh1(e0, to, n, born \ {d})
      BY <1>4, <1>7, <1>11 DEF Fresh1
    <2>11. Pieces(e, born)
      BY <1>7, <1>8, <2>10, PiecesOne DEF e
    <2>12. /\ Keeps(t, e)
           /\ Others(t, from)
      BY <1>10, <2>7
    <2>13. \A i \in 1..Len(t) : Aside(t[i], {from, to})
      BY <2>3, <2>12 DEF Aside, Others, e0
    <2> HIDE DEF s1, s, t, d
    <2>14. \A i \in 1..Len(s1) : OwnText(s1[i], ws)
      <3>1. \A i \in 1..Len(s1) : i = 1 \/ i = 2
        BY <1>9
      <3>2. QED
        BY <1>1, <1>9, <3>1, ExistsIs DEF OwnText, MovesTo, Ops!IsWrite, Ops!IsRename
    <2>15. Mover(s1 \o t, ws)
      <3> DEFINE u == s1 \o t
      <3>1. IsSeq(t)
        BY <2>12 DEF Keeps
      <3>2. /\ IsSeq(u) /\ \A k \in 1..Len(s1) : u[k] = s1[k]
            /\ \A k \in 1..Len(t) : u[Len(s1) + k] = t[k]
            /\ \A k \in 1..Len(u) : k \in 1..Len(s1) \/ k - Len(s1) \in 1..Len(t)
        <4>1. IsSeq(s1)
          BY <1>9
        <4>2. QED
          BY <3>1, <4>1, SeqCat
      <3>3. DOMAIN u = 1..Len(u) /\ Len(u) \in Nat
        BY <3>2, SeqIs
      <3> HIDE DEF u
      <3>4. \A i \in DOMAIN u : i \in Nat /\ (i = 1 \/ i = 2 \/ Aside(u[i], {from, to}))
        <4>1. SUFFICES ASSUME NEW i \in DOMAIN u, i # 1, i # 2
                       PROVE  Aside(u[i], {from, to})
          <5>1. \A i \in DOMAIN u : i \in Nat
            BY <3>3
          <5>2. QED
            BY <5>1
        <4>2. i \in 1..Len(u) /\ i - 2 \in 1..Len(t) /\ 2 + (i - 2) = i
          BY <1>9, <3>2, <3>3, <4>1
        <4>3. u[i] = t[i - 2]
          BY <1>9, <3>2, <4>2
        <4>4. QED
          BY <2>13, <4>2, <4>3
      <3>5. u[1] = s1[1] /\ u[2] = s1[2]
        BY <1>9, <3>2
      <3>6. from # to /\ ws[from] # Absent /\ ws[to] = Absent
        BY <1>1, <1>2 DEF Files
      <3>7. MovesTo(u[1], u[2], from, to)
        BY <1>9, <3>5
      <3>8. Mover(u, ws)
        BY <3>4, <3>6, <3>7, MoverOne
      <3>9. QED
        BY <3>8 DEF u
    <2>16. Commit("rename", <<ws[from].who>>, s1 \o t) /\ e = After(s1, ws)
      BY <1>1, <1>9, <2>1, <2>2
    <2>17. QED
      BY <1>1, <1>9, <2>9, <2>11, <2>12, <2>14, <2>15, <2>16, MoverCommits
  <1>12. CASE apart
    <2> DEFINE w1 == [ws EXCEPT ![from] = Absent, ![to] = n]
               e == [e0 EXCEPT ![to] = n, ![goes] = g]
    <2>1. s = s1 \o s2
      BY <1>12 DEF If
    <2>2. Whole(to) /\ ~Whole(goes) /\ goes = Append(Dir(to), Last(goes))
      BY <1>1, <1>2, <1>12, Beside DEF BodyBeside, Whole
    <2>3. n.content # <<>> /\ n.content[1] = Last(goes)
      BY <1>4, <1>12
    <2>4. /\ body \in Files(ws) /\ body \in Place /\ ws[body].who = d
          /\ goes \in Place /\ goes \notin Files(ws) /\ goes \notin Files(e0)
          /\ Good(g) /\ ~g.meta /\ g.who = d /\ g # Absent
      BY <1>1, <1>2, <1>5, <1>6, <1>7, <1>12
    <2>5. /\ from # to /\ from # body /\ from # goes /\ to # body /\ to # goes /\ body # goes
          /\ ws[from] # Absent /\ ws[to] = Absent /\ ws[body] # Absent /\ ws[goes] = Absent
      BY <1>1, <1>2, <1>12, <2>2, <2>4 DEF Files
    <2>6. e0 = [z \in Place |-> IF z = from \/ z = body THEN Absent ELSE ws[z]]
      BY <1>12 DEF Without
    <2>7. \A x \in Files(e0) : /\ x \in Files(ws) /\ x # from /\ x # body /\ x # to /\ x # goes
                               /\ e0[x] = ws[x] /\ x \in Place
      BY <1>1, <1>12, <2>4, WithoutIs DEF Files
    <2>8. \A x \in Files(ws) : x = from \/ x = body \/ x \in Files(e0)
      BY WithoutIs
    <2> HIDE DEF e0, n, g, goes, body, d, apart
    <2>9. /\ w1 = [z \in Place |-> w1[z]]
          /\ \A z \in Place : w1[z] = IF z = to THEN n ELSE IF z = from THEN Absent ELSE ws[z]
      BY <1>2, <1>6, <2>5
    <2>10. w1[body] # Absent /\ w1[goes] = Absent
      BY <2>4, <2>5, <2>9
    <2> HIDE DEF w1
    <2>11. /\ IsSeq(s2) /\ Len(s2) = 2 /\ Runs(s2, w1) /\ MovesTo(s2[1], s2[2], body, goes)
           /\ s2[2].bytes = g
           /\ After(s2, w1) = [w1 EXCEPT ![body] = Absent, ![goes] = g]
      BY <2>4, <2>9, <2>10, MoveIs
    <2>12. [w1 EXCEPT ![body] = Absent, ![goes] = g] = e
      <3>1. \A z \in Place : e[z] = IF z = goes THEN g ELSE IF z = to THEN n ELSE e0[z]
        BY <1>7, <2>4, <2>5
      <3> DEFINE v == [w1 EXCEPT ![body] = Absent, ![goes] = g]
      <3>2. \A z \in Place : v[z] = IF z = goes THEN g ELSE IF z = body THEN Absent ELSE w1[z]
        BY <2>4, <2>5, <2>9
      <3>3. e = [z \in Place |-> e[z]] /\ v = [z \in Place |-> v[z]]
        BY <1>7, <2>9
      <3> HIDE DEF e, v
      <3>4. \A z \in Place : v[z] = e[z]
        BY <2>5, <2>6, <2>9, <3>1, <3>2
      <3>5. v = e
        BY <3>3, <3>4
      <3>6. QED
        BY <3>5 DEF v
    <2>13. \A z \in Place : e[z] = IF z = goes THEN g ELSE IF z = to THEN n ELSE e0[z]
      BY <1>7, <2>4, <2>5
    <2>14. Fresh2(e0, to, n, goes, g, born \ {d})
      BY <1>4, <1>7, <2>2, <2>3, <2>4 DEF Fresh2, d
    <2>15. Pieces(e, born)
      BY <1>7, <1>8, <2>14, PiecesTwo DEF d
    <2> HIDE DEF e
    <2>16. \A x \in Files(e0) : x \in Files(e) /\ e[x] = ws[x]
      BY <2>7, <2>13 DEF Files
    <2>17. from \notin Files(e) /\ body \notin Files(e)
      BY <1>2, <2>4, <2>5, <2>6, <2>13 DEF Files
    <2>18. Steady(ws, e)
      BY <2>8, <2>16, <2>17 DEF Steady
    <2>19. Keeps(t, e) /\ Others(t, from)
      BY <1>10, <2>16
    <2> DEFINE X == {from, to, body, goes}
    <2>20. \A i \in 1..Len(t) : Aside(t[i], X)
      <3>1. \A x \in Files(e0) : x \notin X
        BY <2>7
      <3> HIDE DEF X
      <3>2. QED
        BY <2>19, <3>1 DEF Aside, Others, e0
    <2> HIDE DEF s1, s2, s, t
    <2>21. /\ IsSeq(s) /\ Runs(s, ws) /\ After(s, ws) = e
      <3>1. After(s1, ws) = w1
        BY <1>9 DEF w1
      <3>2. After(s1 \o s2, ws) = After(s2, After(s1, ws))
        <4>1. IsSeq(s1) /\ IsSeq(s2)
          BY <1>9, <2>11
        <4>2. QED
          BY <4>1, AfterCat
      <3>3. Runs(s1 \o s2, ws)
        BY <1>9, <2>11, <3>1, RunsCat
      <3>4. IsSeq(s1 \o s2)
        BY <1>9, <2>11, SeqCat
      <3>5. QED
        BY <2>1, <2>11, <2>12, <3>1, <3>2, <3>3, <3>4
    <2>22. /\ Len(s) = 4 /\ s[1] = s1[1] /\ s[2] = s1[2] /\ s[3] = s2[1] /\ s[4] = s2[2]
      <3> DEFINE u == s1 \o s2
      <3>1. IsSeq(s1) /\ IsSeq(s2)
        BY <1>9, <2>11
      <3>2. /\ Len(u) = Len(s1) + Len(s2)
            /\ \A k \in 1..Len(s1) : u[k] = s1[k]
            /\ \A k \in 1..Len(s2) : u[Len(s1) + k] = s2[k]
        BY <3>1, SeqCat
      <3> HIDE DEF u
      <3>3. u[2 + 1] = s2[1] /\ u[2 + 2] = s2[2] /\ u[1] = s1[1] /\ u[2] = s1[2] /\ Len(u) = 4
        BY <1>9, <2>11, <3>2
      <3>4. QED
        BY <2>1, <3>3 DEF u
    <2>23. MovesTo(s[1], s[2], from, to) /\ MovesTo(s[3], s[4], body, goes)
      BY <1>9, <2>11, <2>22
    <2>24. \A i \in 1..Len(s) : OwnText(s[i], ws)
      <3>1. \A i \in 1..Len(s) : i = 1 \/ i = 2 \/ i = 3 \/ i = 4
        BY <2>22
      <3>2. QED
        BY <1>1, <2>4, <2>23, <3>1, ExistsIs DEF OwnText, MovesTo, Ops!IsWrite, Ops!IsRename
    <2>25. Mover(s \o t, ws)
      <3> DEFINE u == s \o t
      <3>1. IsSeq(t)
        BY <2>19 DEF Keeps
      <3>2. /\ IsSeq(u) /\ \A k \in 1..Len(s) : u[k] = s[k]
            /\ \A k \in 1..Len(t) : u[Len(s) + k] = t[k]
            /\ \A k \in 1..Len(u) : k \in 1..Len(s) \/ k - Len(s) \in 1..Len(t)
        <4>1. IsSeq(s)
          BY <2>21
        <4>2. QED
          BY <3>1, <4>1, SeqCat
      <3>3. DOMAIN u = 1..Len(u) /\ Len(u) \in Nat
        BY <3>2, SeqIs
      <3> HIDE DEF u, X
      <3>4. \A i \in DOMAIN u : i \in Nat /\ (i \in 1..4 \/ (i > 4 /\ Aside(u[i], X)))
        <4>1. SUFFICES ASSUME NEW i \in DOMAIN u, i \notin 1..4
                       PROVE  i > 4 /\ Aside(u[i], X)
          <5>1. \A i \in DOMAIN u : i \in Nat
            BY <3>3
          <5>2. QED
            BY <5>1
        <4>2. i \in 1..Len(u) /\ i - 4 \in 1..Len(t) /\ 4 + (i - 4) = i /\ i > 4
          BY <2>22, <3>2, <3>3, <4>1
        <4>3. u[i] = t[i - 4]
          BY <2>22, <3>2, <4>2
        <4>4. QED
          BY <2>20, <4>2, <4>3
      <3>5. u[1] = s[1] /\ u[2] = s[2] /\ u[3] = s[3] /\ u[4] = s[4]
        BY <2>22, <3>2
      <3>6. MovesTo(u[1], u[2], from, to) /\ MovesTo(u[3], u[4], body, goes)
        BY <2>23, <3>5
      <3>7. Mover(u, ws)
        BY <2>5, <3>4, <3>6, MoverTwo DEF X
      <3>8. QED
        BY <3>7 DEF u
    <2>26. QED
      BY <1>1, <2>15, <2>18, <2>19, <2>21, <2>24, <2>25, MoverCommits
  <1>13. QED
    BY <1>11, <1>12

-----------------------------------------------------------------------------
(* Every step.                                                             *)

\* The files are in pieces that fit, whatever the documents.
Inv == Pieces(ws, born)

\* Every step, of prov's or of people's, from a plain workspace.
LEMMA StepFits ==
    ASSUME ~ProseGiven, Plain, Inv, Next
    PROVE  Inv' /\ Sound(done'.ops, ws)
  <1>1. \A p : Given(p) => p \in NodesOf(ws)
    BY ExistsIs DEF Given, NodesOf
  <1>2. ASSUME NEW p \in Place, NEW q \in Place,
               \/ Given(q) /\ Create(p, q)
               \/ Given(p) /\ Given(q) /\ Adopt(p, q)
               \/ Given(p) /\ Given(q) /\ Reparent(p, q)
               \/ Given(p) /\ Rename(p, q)
        PROVE  Pieces(ws', born') /\ Sound(done'.ops, ws)
    BY <1>1, <1>2, CreateFits, AdoptFits, ReparentFits, RenameFits DEF Inv
  <1>3. ASSUME NEW p \in Place,
               \/ Given(p) /\ Separate(p)
               \/ Given(p) /\ Combine(p)
               \/ Given(p) /\ Duplicate(p)
               \/ \E force \in BOOLEAN : Given(p) /\ Delete(p, force)
               \/ \E title \in Titles : Given(p) /\ Retitle(p, title)
               \/ \E style \in Style, recursive \in BOOLEAN :
                     Given(p) /\ ConvertLinkStyle(p, style, recursive)
               \/ Stray(p)
               \/ \E text \in Written : Write(p, text)
        PROVE  Pieces(ws', born') /\ Sound(done'.ops, ws)
    BY <1>1, <1>3, SeparateFits, CombineFits, DuplicateFits, DeleteFits, RetitleFits,
       ConvertFits, StrayFits, WriteFits DEF Inv
  <1>4. QED
    BY <1>2, <1>3 DEF Next, Inv

\* The invariant is inductive while the workspace is plain when prov acts.
LEMMA InvStays ==
    ASSUME ~ProseGiven
    PROVE  Inv /\ [Next]_vars /\ [Plain]_vars => Inv'
  <1>1. SUFFICES ASSUME Inv, [Next]_vars /\ [Plain]_vars PROVE Inv'
    OBVIOUS
  <1>2. CASE UNCHANGED vars
    BY <1>1, <1>2 DEF vars, Inv, Pieces, AllGood, Files, NodesOf, BodyOf, Separated, ContentTarget
  <1>3. CASE Next /\ Plain
    BY <1>1, <1>3, StepFits
  <1>4. QED
    BY <1>1, <1>2, <1>3

\* Every set committed meanwhile is staged safely.
LEMMA InvStages ==
    ASSUME ~ProseGiven
    PROVE  Inv /\ [Next]_vars /\ [Plain]_vars =>
           [ LET ops == done'.ops
             IN  /\ Runs(ops, ws)
                 /\ Ops!ReplaySafe(ops)
                 /\ Ops!SourcesExist(ops, ws) /\ Ops!DestinationsFree(ops, ws)
                 /\ \A i \in DOMAIN ops :
                       (Ops!IsWrite(ops[i]) /\ Exists(ws, ops[i].path)) =>
                           ops[i].bytes.who = ws[ops[i].path].who ]_vars
  <1>1. SUFFICES ASSUME Inv, [Next]_vars /\ [Plain]_vars, ~UNCHANGED vars
                 PROVE  Sound(done'.ops, ws)
    BY DEF Sound, OwnText
  <1>2. Next /\ Plain
    BY <1>1
  <1>3. QED
    BY <1>1, <1>2, StepFits

\* For all paths, documents, styles and titles: while prose has no links of
\* its own and no document names itself, or prose beside a node, as its
\* parent, every document keeps one node, and prose beside it exactly when it
\* is separated, through every mutation given the node and every edit of
\* people's.
THEOREM ContainmentPieces ==
    ~ProseGiven => (Spec /\ [][Plain]_vars => []PiecesTogether)
  <1>1. SUFFICES ASSUME ~ProseGiven PROVE Spec /\ [][Plain]_vars => []PiecesTogether
    OBVIOUS
  <1>2. Init => Inv
    BY InitFits DEF Inv
  <1>3. Inv /\ [Next]_vars /\ [Plain]_vars => Inv'
    BY <1>1, InvStays
  <1>4. Inv => PiecesTogether
    BY PiecesApart DEF Inv
  <1>5. QED
    BY <1>2, <1>3, <1>4, PTL DEF Spec

\* Meanwhile every set a mutation commits can be carried out from any point:
\* it runs, its moves are from files that are there to places that are free,
\* nothing else touches what they move, and no write puts one document's text
\* over another's.
THEOREM ContainmentStagedSafely ==
    ~ProseGiven => (Spec /\ [][Plain]_vars => StagedSafely)
  <1>1. SUFFICES ASSUME ~ProseGiven PROVE Spec /\ [][Plain]_vars => StagedSafely
    OBVIOUS
  <1>2. Init => Inv
    BY InitFits DEF Inv
  <1>3. Inv /\ [Next]_vars /\ [Plain]_vars => Inv'
    BY <1>1, InvStays
  <1>4. Inv /\ [Next]_vars /\ [Plain]_vars =>
           [ LET ops == done'.ops
             IN  /\ Runs(ops, ws)
                 /\ Ops!ReplaySafe(ops)
                 /\ Ops!SourcesExist(ops, ws) /\ Ops!DestinationsFree(ops, ws)
                 /\ \A i \in DOMAIN ops :
                       (Ops!IsWrite(ops[i]) /\ Exists(ws, ops[i].path)) =>
                           ops[i].bytes.who = ws[ops[i].path].who ]_vars
    BY <1>1, InvStages
  <1>5. QED
    BY <1>2, <1>3, <1>4, PTL DEF Spec, StagedSafely

\* Both hold of the workspaces the runs go through, those that are regular
\* whenever a step is taken.
THEOREM ContainmentRegular ==
    ~ProseGiven => (Spec /\ [][Regular]_vars => []PiecesTogether /\ StagedSafely)
  <1>1. SUFFICES ASSUME ~ProseGiven
                 PROVE  Spec /\ [][Regular]_vars => []PiecesTogether /\ StagedSafely
    OBVIOUS
  <1>2. Init => Inv
    BY InitFits DEF Inv
  <1>3. Inv /\ [Next]_vars /\ [Plain]_vars => Inv'
    BY <1>1, InvStays
  <1>4. Inv /\ [Regular]_vars => [Plain]_vars
    BY RegularPlain DEF Inv
  <1>5. Spec /\ [][Regular]_vars => [][Plain]_vars
    BY <1>2, <1>3, <1>4, PTL DEF Spec
  <1>6. Spec /\ [][Plain]_vars => []PiecesTogether /\ StagedSafely
    BY <1>1, ContainmentPieces, ContainmentStagedSafely
  <1>7. QED
    BY <1>5, <1>6, PTL
=============================================================================
