------------------------- MODULE LinkRewritesProofs -------------------------
(***************************************************************************)
(* What LinkRewrites and Paths guarantee for all places, texts, lengths of *)
(* paths and numbers of moves.  normalize is a loop that goes through the  *)
(* components of a path once: Goes gives the states it goes through, Makes *)
(* its result, and what holds of the result is shown by going along with   *)
(* it (Upto).  A link still leads because Relative and normalize undo each *)
(* other; the paths are as a person reads them because what is left at     *)
(* each component is what has been read by then (ReadAt).                  *)
(***************************************************************************)
EXTENDS LinkRewrites, FiniteSetTheorems, FunctionTheorems, SequenceTheorems,
        WellFoundedInduction, TLAPS

-----------------------------------------------------------------------------
(* Going through a path.                                                   *)

\* Numbers have a least one.
LEMMA Least ==
    ASSUME NEW S, S \subseteq Nat, S # {}
    PROVE  \E m \in S : \A k \in S : m <= k
  <1> DEFINE R == {ss \in Nat \X Nat : ss[1] < ss[2]}
  <1>1. IsWellFoundedOn(R, Nat)
    BY NatLessThanWellFounded DEF OpToRel
  <1>2. PICK m \in S : \A k \in S : ~(<<k, m>> \in R)
    BY <1>1, WFMin
  <1>3. \A k \in S : ~(k < m)
    BY <1>2
  <1>4. QED
    BY <1>3

\* S holds every number up to n, if it holds 0 and with each the next.
LEMMA Upto ==
    ASSUME NEW n \in Nat, NEW S, 0 \in S, \A k \in 1..n : k - 1 \in S => k \in S
    PROVE  \A k \in 0..n : k \in S
  <1> DEFINE T == {k \in 0..n : k \notin S}
  <1>1. SUFFICES ASSUME T # {} PROVE FALSE
    OBVIOUS
  <1>2. T \subseteq Nat
    OBVIOUS
  <1> HIDE DEF T
  <1>3. PICK m \in T : \A k \in T : m <= k
    BY <1>1, <1>2, Least
  <1>4. m \in 0..n /\ m \notin S /\ m # 0
    BY DEF T
  <1>5. m \in 1..n /\ m - 1 \in 0..n /\ ~(m <= m - 1)
    BY <1>4
  <1>6. m - 1 \in S
    BY <1>3, <1>5 DEF T
  <1>7. QED
    BY <1>4, <1>5, <1>6

\* What normalize has after k components, by what it had before them.
Step(x, path, f, k) == IF k = 0 THEN x ELSE Push(f[k - 1], path[k])

\* The states normalize goes through from x, over the first n components.
Goes(x, path, n, f) == f = [k \in 0..n |-> Step(x, path, f, k)]

\* Pushed one by one onto x, the components of path make y of it.
Makes(x, path, y) == \E f : Goes(x, path, Len(path), f) /\ y = f[Len(path)]

\* There are such states.
LEMMA GoesOn ==
    ASSUME NEW x, NEW path, NEW n \in Nat
    PROVE  \E f : Goes(x, path, n, f)
  <1> DEFINE S == {k \in Nat : \E f : Goes(x, path, k, f)}
  <1>1. 0 \in S
    <2>1. Goes(x, path, 0, [k \in 0..0 |-> x])
      BY DEF Goes, Step
    <2>2. QED
      BY <2>1
  <1>2. ASSUME NEW m \in 1..n, m - 1 \in S PROVE m \in S
    <2>1. PICK f : Goes(x, path, m - 1, f)
      BY <1>2
    <2> DEFINE g == [k \in 0..m |-> IF k = m THEN Push(f[m - 1], path[m]) ELSE f[k]]
    <2>2. \A k \in 0..(m - 1) : f[k] = Step(x, path, f, k)
      BY <2>1 DEF Goes
    <2>3. \A k \in 0..m : g[k] = Step(x, path, g, k)
      <3> TAKE k \in 0..m
      <3>1. CASE k = m
        BY <3>1 DEF Step
      <3>2. CASE k # m
        <4>1. k \in 0..(m - 1) /\ (k # 0 => k - 1 \in 0..m /\ k - 1 # m)
          BY <3>2
        <4>2. Step(x, path, g, k) = Step(x, path, f, k)
          BY <4>1 DEF Step
        <4>3. QED
          BY <4>1, <4>2, <2>2, <3>2
      <3>3. QED
        BY <3>1, <3>2
    <2>4. Goes(x, path, m, g)
      BY <2>3 DEF Goes
    <2>5. QED
      BY <2>4
  <1> HIDE DEF S
  <1>3. n \in S
    BY <1>1, <1>2, Upto
  <1>4. QED
    BY <1>3 DEF S

\* The states are the same, whoever goes through them.
LEMMA GoesOneWay ==
    ASSUME NEW x, NEW path, NEW n \in Nat, NEW f, NEW g,
           Goes(x, path, n, f), Goes(x, path, n, g)
    PROVE  \A k \in 0..n : f[k] = g[k]
  <1> DEFINE S == {k \in 0..n : f[k] = g[k]}
  <1>1. \A k \in 0..n : f[k] = Step(x, path, f, k) /\ g[k] = Step(x, path, g, k)
    BY DEF Goes
  <1>2. 0 \in S
    BY <1>1 DEF Step
  <1>3. ASSUME NEW k \in 1..n, k - 1 \in S PROVE k \in S
    BY <1>1, <1>3 DEF Step
  <1> HIDE DEF S
  <1>4. \A k \in 0..n : k \in S
    BY <1>2, <1>3, Upto
  <1>5. QED
    BY <1>4 DEF S

\* The result of normalize is what a path makes from nothing.
LEMMA NormalizeIs ==
    ASSUME NEW C, NEW path \in Seq(C)
    PROVE  Makes(<<>>, path, Normalize(path))
  <1>1. Len(path) \in Nat
    OBVIOUS
  <1>2. PICK g : Goes(<<>>, path, Len(path), g)
    BY <1>1, GoesOn
  <1> DEFINE h == CHOOSE f : f = [k \in 0..Len(path) |->
                      IF k = 0 THEN <<>> ELSE CHOOSE z \in {Push(y, path[k]) : y \in {f[k - 1]}} : TRUE]
  <1>3. \A x, y : (CHOOSE z \in {Push(w, y) : w \in {x}} : TRUE) = Push(x, y)
    <2> TAKE x, y
    <2>1. {Push(w, y) : w \in {x}} = {Push(x, y)}
      OBVIOUS
    <2>2. QED
      BY <2>1
  <1>4. Normalize(path) = h[Len(path)]
    BY DEF Normalize, Fold, With
  <1>5. \A f : Goes(<<>>, path, Len(path), f) <=> f = [k \in 0..Len(path) |->
                      IF k = 0 THEN <<>> ELSE CHOOSE z \in {Push(y, path[k]) : y \in {f[k - 1]}} : TRUE]
    BY <1>3 DEF Goes, Step
  <1>6. Goes(<<>>, path, Len(path), h)
    BY <1>2, <1>5
  <1> HIDE DEF h
  <1>7. QED
    BY <1>4, <1>6 DEF Makes

\* A path makes one thing of another.
LEMMA MakesOne ==
    ASSUME NEW C, NEW path \in Seq(C), NEW x, NEW y, NEW z,
           Makes(x, path, y), Makes(x, path, z)
    PROVE  y = z
  <1>1. Len(path) \in Nat /\ Len(path) \in 0..Len(path)
    OBVIOUS
  <1>2. PICK f : Goes(x, path, Len(path), f) /\ y = f[Len(path)]
    BY DEF Makes
  <1>3. PICK g : Goes(x, path, Len(path), g) /\ z = g[Len(path)]
    BY DEF Makes
  <1>4. QED
    BY <1>1, <1>2, <1>3, GoesOneWay

\* What a path makes from nothing is the result of normalize.
LEMMA NormalizeMakes ==
    ASSUME NEW C, NEW path \in Seq(C), NEW y, Makes(<<>>, path, y)
    PROVE  Normalize(path) = y
  BY NormalizeIs, MakesOne

\* What the state after each component is, is a matter of the step.
LEMMA MakesBy ==
    ASSUME NEW C, NEW path \in Seq(C), NEW f,
           \A k \in 1..Len(path) : f[k] = Push(f[k - 1], path[k])
    PROVE  Makes(f[0], path, f[Len(path)])
  <1> DEFINE g == [k \in 0..Len(path) |-> f[k]]
  <1>1. \A k \in 0..Len(path) : g[k] = Step(f[0], path, g, k)
    BY DEF Step
  <1>2. Goes(f[0], path, Len(path), g)
    BY <1>1 DEF Goes
  <1>3. g[Len(path)] = f[Len(path)]
    OBVIOUS
  <1> HIDE DEF g
  <1>4. QED
    BY <1>2, <1>3 DEF Makes

\* One path after the other makes what the second makes of what the first did.
LEMMA MakesConcat ==
    ASSUME NEW C, NEW p \in Seq(C), NEW q \in Seq(C), NEW x, NEW y, NEW z,
           Makes(x, p, y), Makes(y, q, z)
    PROVE  Makes(x, p \o q, z)
  <1> DEFINE m == Len(p)
             n == Len(q)
  <1>0. m \in Nat /\ n \in Nat /\ Len(p \o q) = m + n /\ p \o q \in Seq(C)
    OBVIOUS
  <1>1. PICK f : Goes(x, p, m, f) /\ y = f[m]
    BY DEF Makes
  <1>2. PICK g : Goes(y, q, n, g) /\ z = g[n]
    BY DEF Makes
  <1>3. \A k \in 0..m : f[k] = Step(x, p, f, k)
    BY <1>1 DEF Goes
  <1>4. \A k \in 0..n : g[k] = Step(y, q, g, k)
    BY <1>2 DEF Goes
  <1>a. m = Len(p) /\ n = Len(q)
    OBVIOUS
  <1> HIDE DEF m, n
  <1>5. g[0] = y /\ f[0] = x
    BY <1>0, <1>3, <1>4 DEF Step
  <1> DEFINE h == [k \in 0..(m + n) |-> IF k <= m THEN f[k] ELSE g[k - m]]
  <1>6. ASSUME NEW k \in 1..(m + n) PROVE h[k] = Push(h[k - 1], (p \o q)[k])
    <2>1. CASE k <= m
      <3>1. (p \o q)[k] = p[k] /\ h[k] = f[k] /\ h[k - 1] = f[k - 1] /\ k \in 0..m
        BY <1>0, <1>a, <2>1
      <3>2. QED
        BY <3>1, <1>3 DEF Step
    <2>2. CASE k = m + 1
      <3>1. (p \o q)[k] = q[1] /\ h[k] = g[1] /\ h[k - 1] = f[m] /\ 1 \in 0..n
        BY <1>0, <1>a, <2>2
      <3>2. QED
        BY <3>1, <1>1, <1>4, <1>5 DEF Step
    <2>3. CASE k > m + 1
      <3>1. (p \o q)[k] = q[k - m] /\ h[k] = g[k - m] /\ h[k - 1] = g[k - m - 1] /\ k - m \in 1..n
        BY <1>0, <1>a, <2>3
      <3>2. QED
        BY <3>1, <1>4 DEF Step
    <2>4. QED
      BY <1>0, <2>1, <2>2, <2>3
  <1>b. z = g[n] /\ y = g[0] /\ y = f[m]
    BY <1>1, <1>2, <1>5
  <1>7. h[0] = x /\ h[m + n] = z
    <2>1. h[0] = x
      BY <1>0, <1>5
    <2>2. CASE n = 0
      <3>1. m + n <= m /\ m + n = m /\ m + n \in 0..(m + n)
        BY <1>0, <2>2
      <3>2. h[m + n] = f[m + n]
        BY <1>0, <3>1
      <3>3. g[0] = g[n]
        BY <2>2
      <3>4. QED
        BY <1>b, <2>1, <3>1, <3>2, <3>3
    <2>3. CASE n # 0
      <3>1. ~(m + n <= m) /\ m + n - m = n /\ m + n \in 0..(m + n)
        BY <1>0, <2>3
      <3>2. h[m + n] = g[m + n - m]
        BY <1>0, <3>1
      <3>3. g[m + n - m] = g[n]
        BY <3>1
      <3>4. QED
        BY <1>b, <2>1, <3>2, <3>3
    <2>4. QED
      BY <1>0, <2>1, <2>2, <2>3
  <1> HIDE DEF h
  <1>8. Makes(h[0], p \o q, h[Len(p \o q)])
    BY <1>0, <1>6, MakesBy
  <1>9. QED
    BY <1>0, <1>7, <1>8

-----------------------------------------------------------------------------
(* Normal form.                                                            *)

\* A path in normal form: no ".", and ".." only at its beginning.
IsNormalForm(n) ==
    /\ \A i \in 1..Len(n) : n[i] # Here
    /\ \A i \in 1..Len(n) : n[i] = Up => \A j \in 1..i : n[j] = Up

\* What is left of a path without its last component.
LEMMA FrontIs ==
    ASSUME NEW C, NEW s \in Seq(C), s # <<>>
    PROVE  /\ Front(s) \in Seq(C) /\ Len(Front(s)) = Len(s) - 1
           /\ \A i \in 1..(Len(s) - 1) : Front(s)[i] = s[i]
  <1>1. Len(s) \in Nat /\ Len(s) # 0 /\ 1 \in Int /\ Len(s) - 1 \in Int
    OBVIOUS
  <1>2. \A i \in 1..(Len(s) - 1) : s[i] \in C
    BY <1>1
  <1>3. /\ SubSeq(s, 1, Len(s) - 1) \in Seq(C)
        /\ Len(SubSeq(s, 1, Len(s) - 1)) = IF 1 <= Len(s) - 1 THEN Len(s) - 1 - 1 + 1 ELSE 0
        /\ \A i \in 1..(Len(s) - 1 - 1 + 1) : SubSeq(s, 1, Len(s) - 1)[i] = s[1 + i - 1]
    BY <1>1, <1>2, SubSeqProperties
  <1>4. Front(s) = SubSeq(s, 1, Len(s) - 1)
    BY DEF Front
  <1>5. Len(s) - 1 - 1 + 1 = Len(s) - 1 /\ \A i \in 1..(Len(s) - 1) : 1 + i - 1 = i
    BY <1>1
  <1>6. Len(Front(s)) = Len(s) - 1
    <2>1. Len(Front(s)) = IF 1 <= Len(s) - 1 THEN Len(s) - 1 - 1 + 1 ELSE 0
      BY <1>3, <1>4
    <2>2. \A n \in Nat : n # 0 => (IF 1 <= n - 1 THEN n - 1 - 1 + 1 ELSE 0) = n - 1
      OBVIOUS
    <2>3. QED
      BY <1>1, <2>1, <2>2
  <1>7. \A i \in 1..(Len(s) - 1) : Front(s)[i] = s[i]
    BY <1>1, <1>3, <1>4, <1>5
  <1>8. QED
    BY <1>3, <1>4, <1>6, <1>7

\* A component pushed onto a path in normal form leaves it so.
LEMMA PushIs ==
    ASSUME NEW C, NEW out \in Seq(C), NEW c \in C, IsNormalForm(out)
    PROVE  Push(out, c) \in Seq(C) /\ IsNormalForm(Push(out, c))
  <1>0. Here # Up
    BY DEF Here, Up
  <1>1. CASE c = Here
    BY <1>0, <1>1 DEF Push
  <1>2. CASE c = Up /\ out # <<>> /\ IsNormal(Last(out))
    <2>2. Push(out, c) = Front(out)
      BY <1>0, <1>2 DEF Push
    <2>3. Len(out) \in Nat /\ Len(out) # 0
      BY <1>2
    <2>4. /\ Front(out) \in Seq(C) /\ Len(Front(out)) = Len(out) - 1
          /\ \A i \in 1..(Len(out) - 1) : Front(out)[i] = out[i]
      BY <2>3, FrontIs
    <2>5. QED
      BY <2>2, <2>3, <2>4 DEF IsNormalForm
  <1>3. CASE c # Here /\ ~(c = Up /\ out # <<>> /\ IsNormal(Last(out)))
    <2>1. Push(out, c) = Append(out, c)
      BY <1>3 DEF Push
    <2>2. /\ Append(out, c) \in Seq(C) /\ Len(Append(out, c)) = Len(out) + 1
          /\ \A i \in 1..Len(out) : Append(out, c)[i] = out[i]
          /\ Append(out, c)[Len(out) + 1] = c /\ Len(out) \in Nat
      OBVIOUS
    <2>3. ASSUME c = Up PROVE \A j \in 1..Len(out) : out[j] = Up
      <3>1. CASE out = <<>>
        BY <3>1
      <3>2. CASE out # <<>>
        <4>1. Len(out) \in 1..Len(out)
          BY <3>2
        <4>2. out[Len(out)] = Up
          BY <1>3, <2>3, <3>2, <4>1 DEF IsNormal, Last, IsNormalForm
        <4>3. QED
          BY <4>1, <4>2 DEF IsNormalForm
      <3>3. QED
        BY <3>1, <3>2
    <2>4. \A i \in 1..(Len(out) + 1) : Append(out, c)[i] # Here
      BY <1>3, <2>2 DEF IsNormalForm
    <2>5. ASSUME NEW i \in 1..(Len(out) + 1), Append(out, c)[i] = Up, NEW j \in 1..i
          PROVE  Append(out, c)[j] = Up
      <3>1. CASE i = Len(out) + 1
        BY <2>2, <2>3, <2>5, <3>1
      <3>2. CASE i # Len(out) + 1
        <4>1. i \in 1..Len(out) /\ j \in 1..Len(out)
          BY <2>2, <3>2
        <4>2. QED
          BY <2>2, <2>5, <4>1 DEF IsNormalForm
      <3>3. QED
        BY <3>1, <3>2
    <2>6. QED
      BY <2>1, <2>2, <2>4, <2>5 DEF IsNormalForm
  <1>4. QED
    BY <1>1, <1>2, <1>3

\* normalize ends in normal form.
LEMMA NormalizeNormal ==
    ASSUME NEW C, NEW path \in Seq(C)
    PROVE  Normalize(path) \in Seq(C) /\ IsNormalForm(Normalize(path))
  <1>0. Len(path) \in Nat /\ Len(path) \in 0..Len(path)
    OBVIOUS
  <1>1. PICK f : Goes(<<>>, path, Len(path), f) /\ Normalize(path) = f[Len(path)]
    BY NormalizeIs DEF Makes
  <1>2. \A k \in 0..Len(path) : f[k] = Step(<<>>, path, f, k)
    BY <1>1 DEF Goes
  <1> DEFINE S == {k \in 0..Len(path) : f[k] \in Seq(C) /\ IsNormalForm(f[k])}
  <1>3. 0 \in S
    <2>1. f[0] = <<>> /\ 0 \in 0..Len(path)
      BY <1>0, <1>2 DEF Step
    <2>2. <<>> \in Seq(C) /\ Len(<<>>) = 0
      OBVIOUS
    <2>3. IsNormalForm(<<>>)
      BY <2>2 DEF IsNormalForm
    <2>4. QED
      BY <2>1, <2>2, <2>3
  <1>4. ASSUME NEW k \in 1..Len(path), k - 1 \in S PROVE k \in S
    <2>1. f[k] = Push(f[k - 1], path[k]) /\ path[k] \in C
      BY <1>2 DEF Step
    <2>2. f[k - 1] \in Seq(C) /\ IsNormalForm(f[k - 1])
      BY <1>4
    <2>3. QED
      BY <2>1, <2>2, PushIs
  <1> HIDE DEF S
  <1>5. Len(path) \in S
    BY <1>0, <1>3, <1>4, Upto
  <1>6. QED
    BY <1>1, <1>5 DEF S

\* The beginning of a path, and what it grows by.
LEMMA PrefixIs ==
    ASSUME NEW C, NEW s \in Seq(C), NEW k \in 0..Len(s)
    PROVE  /\ SubSeq(s, 1, k) \in Seq(C) /\ Len(SubSeq(s, 1, k)) = k
           /\ \A i \in 1..k : SubSeq(s, 1, k)[i] = s[i]
  <1>1. Len(s) \in Nat /\ k \in Nat /\ k <= Len(s)
    OBVIOUS
  <1>2. \A i \in 1..k : s[i] \in C
    BY <1>1
  <1>3. /\ SubSeq(s, 1, k) \in Seq(C)
        /\ Len(SubSeq(s, 1, k)) = IF 1 <= k THEN k - 1 + 1 ELSE 0
        /\ \A i \in 1..(k - 1 + 1) : SubSeq(s, 1, k)[i] = s[1 + i - 1]
    BY <1>1, <1>2, SubSeqProperties
  <1>4. \A n \in Nat : (IF 1 <= n THEN n - 1 + 1 ELSE 0) = n /\ n - 1 + 1 = n
    OBVIOUS
  <1>5. \A i \in 1..k : 1 + i - 1 = i
    OBVIOUS
  <1>6. Len(SubSeq(s, 1, k)) = k
    BY <1>1, <1>3, <1>4
  <1>7. \A i \in 1..k : SubSeq(s, 1, k)[i] = s[i]
    BY <1>1, <1>3, <1>4, <1>5
  <1>8. QED
    BY <1>3, <1>6, <1>7

\* The rest of a path.
LEMMA RestIs ==
    ASSUME NEW C, NEW s \in Seq(C), NEW k \in 0..Len(s)
    PROVE  /\ SubSeq(s, k + 1, Len(s)) \in Seq(C)
           /\ Len(SubSeq(s, k + 1, Len(s))) = Len(s) - k
           /\ \A i \in 1..(Len(s) - k) : SubSeq(s, k + 1, Len(s))[i] = s[k + i]
  <1>1. Len(s) \in Nat /\ k \in Nat /\ k <= Len(s) /\ k + 1 \in Int
    OBVIOUS
  <1>2. \A i \in (k + 1)..Len(s) : s[i] \in C
    BY <1>1
  <1>3. /\ SubSeq(s, k + 1, Len(s)) \in Seq(C)
        /\ Len(SubSeq(s, k + 1, Len(s))) = IF k + 1 <= Len(s) THEN Len(s) - (k + 1) + 1 ELSE 0
        /\ \A i \in 1..(Len(s) - (k + 1) + 1) : SubSeq(s, k + 1, Len(s))[i] = s[(k + 1) + i - 1]
    BY <1>1, <1>2, SubSeqProperties
  <1>4. \A n \in Nat : k <= n => (IF k + 1 <= n THEN n - (k + 1) + 1 ELSE 0) = n - k
                                 /\ n - (k + 1) + 1 = n - k
    OBVIOUS
  <1>5. \A i \in 1..(Len(s) - k) : (k + 1) + i - 1 = k + i
    BY <1>1
  <1>6. Len(SubSeq(s, k + 1, Len(s))) = Len(s) - k
    BY <1>1, <1>3, <1>4
  <1>7. \A i \in 1..(Len(s) - k) : SubSeq(s, k + 1, Len(s))[i] = s[k + i]
    BY <1>1, <1>3, <1>4, <1>5
  <1>8. QED
    BY <1>3, <1>6, <1>7

\* Onto the beginning of a path in normal form, the next component is only
\* put at the end.
LEMMA PushNext ==
    ASSUME NEW C, NEW s \in Seq(C), IsNormalForm(s), NEW k \in 1..Len(s)
    PROVE  Push(SubSeq(s, 1, k - 1), s[k]) = SubSeq(s, 1, k)
  <1> DEFINE before == SubSeq(s, 1, k - 1)
             after  == SubSeq(s, 1, k)
  <1>0. k - 1 \in 0..Len(s) /\ k \in 0..Len(s) /\ k \in Nat /\ s[k] \in C /\ Len(s) \in Nat
    OBVIOUS
  <1>1. before \in Seq(C) /\ Len(before) = k - 1 /\ \A i \in 1..(k - 1) : before[i] = s[i]
    BY <1>0, PrefixIs
  <1>2. after \in Seq(C) /\ Len(after) = k /\ \A i \in 1..k : after[i] = s[i]
    BY <1>0, PrefixIs
  <1> HIDE DEF before, after
  <1>3. Append(before, s[k]) \in Seq(C) /\ Len(Append(before, s[k])) = k
        /\ \A i \in 1..k : Append(before, s[k])[i] = s[i]
    BY <1>0, <1>1
  <1>4. Append(before, s[k]) = after
    BY <1>2, <1>3, SeqEqual
  <1>5. s[k] # Here
    BY DEF IsNormalForm
  <1>6. ASSUME s[k] = Up, before # <<>> PROVE ~IsNormal(Last(before))
    <2>1. k - 1 \in 1..k /\ k - 1 \in 1..(k - 1)
      BY <1>0, <1>1, <1>6
    <2>2. s[k - 1] = Up
      BY <1>6, <2>1 DEF IsNormalForm
    <2>3. Last(before) = Up
      BY <1>1, <2>1, <2>2 DEF Last
    <2>4. QED
      BY <2>3 DEF IsNormal
  <1>7. Push(before, s[k]) = Append(before, s[k])
    BY <1>5, <1>6 DEF Push
  <1>8. QED
    BY <1>4, <1>7 DEF before, after

\* From its beginning, the rest of a path in normal form makes the path.
LEMMA RestMakes ==
    ASSUME NEW C, NEW s \in Seq(C), IsNormalForm(s), NEW k \in 0..Len(s)
    PROVE  Makes(SubSeq(s, 1, k), SubSeq(s, k + 1, Len(s)), s)
  <1> DEFINE rest == SubSeq(s, k + 1, Len(s))
             f    == [i \in 0..(Len(s) - k) |-> SubSeq(s, 1, k + i)]
  <1>0. Len(s) \in Nat /\ k \in Nat /\ Len(s) - k \in Nat
    OBVIOUS
  <1>1. rest \in Seq(C) /\ Len(rest) = Len(s) - k
        /\ \A i \in 1..(Len(s) - k) : rest[i] = s[k + i]
    BY RestIs
  <1>2. ASSUME NEW i \in 1..Len(rest) PROVE f[i] = Push(f[i - 1], rest[i])
    <2>1. i \in 1..(Len(s) - k)
      BY <1>1
    <2>2. k + i \in 1..Len(s) /\ i \in 0..(Len(s) - k) /\ i - 1 \in 0..(Len(s) - k)
          /\ k + (i - 1) = (k + i) - 1
      BY <1>0, <2>1
    <2>3. f[i] = SubSeq(s, 1, k + i) /\ f[i - 1] = SubSeq(s, 1, (k + i) - 1)
      BY <2>2
    <2>4. rest[i] = s[k + i]
      BY <1>1, <2>1
    <2>5. QED
      BY <2>2, <2>3, <2>4, PushNext
  <1>3. f[0] = SubSeq(s, 1, k) /\ f[Len(s) - k] = s
    <2>1. 0 \in 0..(Len(s) - k) /\ Len(s) - k \in 0..(Len(s) - k) /\ k + 0 = k
          /\ k + (Len(s) - k) = Len(s)
      BY <1>0
    <2>2. f[0] = SubSeq(s, 1, k) /\ f[Len(s) - k] = SubSeq(s, 1, Len(s))
      BY <2>1
    <2>3. QED
      BY <2>2, SubSeqFull
  <1> HIDE DEF rest, f
  <1>4. Makes(f[0], rest, f[Len(rest)])
    BY <1>1, <1>2, MakesBy
  <1>5. QED
    BY <1>1, <1>3, <1>4 DEF rest

\* A path in normal form is what normalize makes of it.
LEMMA NormalFormKept ==
    ASSUME NEW C, NEW s \in Seq(C), IsNormalForm(s)
    PROVE  Normalize(s) = s /\ Makes(<<>>, s, s)
  <1>1. 0 \in 0..Len(s) /\ SubSeq(s, 0 + 1, Len(s)) = s
    BY SubSeqFull
  <1>2. SubSeq(s, 1, 0) = <<>>
    BY SubSeqEmpty
  <1>3. Makes(<<>>, s, s)
    BY <1>1, <1>2, RestMakes
  <1>4. QED
    BY <1>3, NormalizeMakes

\* Climbs take the last components of a path that has only names.
LEMMA ClimbMakes ==
    ASSUME NEW C, NEW s \in Seq(C), \A i \in 1..Len(s) : IsNormal(s[i]), NEW k \in 0..Len(s), Up \in C
    PROVE  Makes(s, [i \in 1..(Len(s) - k) |-> Up], SubSeq(s, 1, k))
  <1> DEFINE n     == Len(s) - k
             climb == [i \in 1..n |-> Up]
             f     == [i \in 0..n |-> SubSeq(s, 1, Len(s) - i)]
  <1>0. Len(s) \in Nat /\ k \in Nat /\ n \in Nat /\ Len(s) - n = k
    OBVIOUS
  <1>1. climb \in Seq(C) /\ Len(climb) = n
    BY <1>0
  <1>2. ASSUME NEW i \in 1..n PROVE f[i] = Push(f[i - 1], climb[i])
    <2> DEFINE at == Len(s) - (i - 1)
    <2>1. /\ at \in 0..Len(s) /\ at - 1 \in 0..Len(s) /\ at \in Nat /\ at # 0 /\ i - 1 \in 0..n
          /\ Len(s) - i = at - 1 /\ at \in 1..at /\ at \in 1..Len(s) /\ i \in 0..n
      BY <1>0
    <2>2. f[i] = SubSeq(s, 1, at - 1) /\ f[i - 1] = SubSeq(s, 1, at)
      BY <2>1
    <2> HIDE DEF at
    <2>3. /\ SubSeq(s, 1, at) \in Seq(C) /\ Len(SubSeq(s, 1, at)) = at
          /\ \A j \in 1..at : SubSeq(s, 1, at)[j] = s[j]
      BY <2>1, PrefixIs
    <2>4. SubSeq(s, 1, at) # <<>> /\ IsNormal(Last(SubSeq(s, 1, at)))
      BY <2>1, <2>3 DEF Last
    <2>5. Up # Here
      BY DEF Up, Here
    <2>6. Push(SubSeq(s, 1, at), Up) = Front(SubSeq(s, 1, at))
      BY <2>4, <2>5 DEF Push
    <2>7. /\ Front(SubSeq(s, 1, at)) \in Seq(C) /\ Len(Front(SubSeq(s, 1, at))) = at - 1
          /\ \A j \in 1..(at - 1) : Front(SubSeq(s, 1, at))[j] = SubSeq(s, 1, at)[j]
      BY <2>3, <2>4, FrontIs
    <2>8. /\ SubSeq(s, 1, at - 1) \in Seq(C) /\ Len(SubSeq(s, 1, at - 1)) = at - 1
          /\ \A j \in 1..(at - 1) : SubSeq(s, 1, at - 1)[j] = s[j]
      BY <2>1, PrefixIs
    <2>9. \A j \in 1..(at - 1) : j \in 1..at
      BY <2>1
    <2>10. Front(SubSeq(s, 1, at)) = SubSeq(s, 1, at - 1)
      BY <2>3, <2>7, <2>8, <2>9, SeqEqual
    <2>11. QED
      BY <2>2, <2>6, <2>10
  <1>3. f[0] = s /\ f[n] = SubSeq(s, 1, k)
    <2>1. 0 \in 0..n /\ n \in 0..n /\ Len(s) - 0 = Len(s)
      BY <1>0
    <2>2. f[0] = SubSeq(s, 1, Len(s)) /\ f[n] = SubSeq(s, 1, k)
      BY <1>0, <2>1
    <2>3. QED
      BY <2>2, SubSeqFull
  <1> HIDE DEF climb, f
  <1>4. Makes(f[0], climb, f[Len(climb)])
    BY <1>1, <1>2, MakesBy
  <1>5. QED
    BY <1>1, <1>3, <1>4 DEF climb

-----------------------------------------------------------------------------
(* From a directory to a path.                                             *)

\* Of two paths, their longest common prefix is a prefix of both.
LEMMA CommonIs ==
    ASSUME NEW C, NEW s \in Seq(C), NEW t \in Seq(C)
    PROVE  \E k \in 0..Len(s) :
              /\ k \in 0..Len(t) /\ Len(LongestCommonPrefix({s, t})) = k
              /\ SubSeq(s, 1, k) = SubSeq(t, 1, k)
  <1> DEFINE P == CommonPrefixes({s, t})
             S == {Len(s) - Len(p) : p \in P}
  <1>0. Len(s) \in Nat /\ Len(t) \in Nat
    OBVIOUS
  <1>1. \A p \in P : \E k \in 0..Len(s) : k \in 0..Len(t) /\ Len(p) = k /\ SubSeq(s, 1, k) = SubSeq(t, 1, k)
    <2> TAKE p \in P
    <2>1. IsPrefix(p, s) /\ IsPrefix(p, t) /\ p \in Prefixes(s) \cup Prefixes(t)
      BY DEF CommonPrefixes
    <2>2. Len(p) \in Nat
      <3>1. PICK u \in {s, t} : \E l \in 0..Len(u) : p = SubSeq(u, 1, l)
        BY <2>1 DEF Prefixes
      <3>2. PICK l \in 0..Len(u) : p = SubSeq(u, 1, l)
        BY <3>1
      <3>3. u \in Seq(C)
        BY <3>1
      <3>4. QED
        BY <3>2, <3>3, PrefixIs
    <2>3. Len(p) \in 0..Len(s) /\ Len(p) \in 0..Len(t)
      BY <1>0, <2>1, <2>2 DEF IsPrefix
    <2>4. SubSeq(s, 1, Len(p)) = SubSeq(t, 1, Len(p))
      BY <2>1 DEF IsPrefix
    <2>5. QED
      BY <2>3, <2>4
  <1>2. <<>> \in P
    <2>1. SubSeq(s, 1, 0) = <<>> /\ SubSeq(t, 1, 0) = <<>> /\ SubSeq(<<>>, 1, 0) = <<>>
      BY SubSeqEmpty
    <2>2. <<>> \in Prefixes(s)
      BY <1>0, <2>1 DEF Prefixes
    <2>3. Len(<<>>) = 0
      OBVIOUS
    <2>4. IsPrefix(<<>>, s) /\ IsPrefix(<<>>, t)
      BY <1>0, <2>1, <2>3 DEF IsPrefix
    <2>5. QED
      BY <2>2, <2>4 DEF CommonPrefixes
  <1> HIDE DEF P
  <1>3. S \subseteq Nat /\ S # {}
    BY <1>0, <1>1, <1>2
  <1>4. PICK m \in S : \A k \in S : m <= k
    <2> HIDE DEF S
    <2>1. QED
      BY <1>3, Least
  <1>5. PICK p \in P : m = Len(s) - Len(p)
    OBVIOUS
  <1>6. \A q \in P : Len(q) <= Len(p)
    <2> TAKE q \in P
    <2>1. Len(q) \in Nat /\ Len(p) \in Nat
      BY <1>1
    <2>2. m <= Len(s) - Len(q)
      BY <1>4
    <2>3. QED
      BY <1>0, <1>5, <2>1, <2>2
  <1>7. LongestCommonPrefix({s, t}) \in P
    BY <1>5, <1>6 DEF LongestCommonPrefix, P
  <1>8. QED
    BY <1>1, <1>7

\* Neither "." nor "..".
Names(s) == \A i \in 1..Len(s) : IsNormal(s[i])

\* The text from a directory to a path leads from the directory to the path.
LEMMA RelativeMakes ==
    ASSUME NEW C, NEW from \in Seq(C), NEW to \in Seq(C), Up \in C, Here \in C,
           Names(from), IsNormalForm(to)
    PROVE  /\ Relative(from, to).abs = FALSE /\ Relative(from, to).parts \in Seq(C)
           /\ Normalize(from \o Relative(from, to).parts) = to
  <1>1. PICK k \in 0..Len(from) :
            /\ k \in 0..Len(to) /\ Len(LongestCommonPrefix({from, to})) = k
            /\ SubSeq(from, 1, k) = SubSeq(to, 1, k)
    BY CommonIs
  <1> DEFINE climb == [i \in 1..(Len(from) - k) |-> Up]
             rest  == SubSeq(to, k + 1, Len(to))
             parts == climb \o rest
  <1>2. Relative(from, to) = PathLink(FALSE, IF parts = <<>> THEN <<Here>> ELSE parts)
    BY <1>1 DEF Relative
  <1>3. Relative(from, to).abs = FALSE /\ Relative(from, to).parts = IF parts = <<>> THEN <<Here>> ELSE parts
    BY <1>2 DEF PathLink
  <1>4. Len(from) - k \in Nat /\ k \in Nat /\ k <= Len(to)
    BY <1>1
  <1>5. climb \in Seq(C) /\ rest \in Seq(C) /\ parts \in Seq(C)
    <2>1. climb \in Seq(C)
      BY <1>4
    <2>2. rest \in Seq(C)
      BY <1>1, RestIs
    <2>3. QED
      BY <2>1, <2>2, ConcatProperties
  <1>6. Makes(from, climb, SubSeq(from, 1, k))
    BY <1>1, ClimbMakes DEF Names
  <1>7. Makes(SubSeq(to, 1, k), rest, to)
    BY <1>1, RestMakes
  <1> HIDE DEF climb, rest
  <1>8. Makes(from, parts, to)
    BY <1>1, <1>5, <1>6, <1>7, MakesConcat
  <1>9. IsNormalForm(from)
    BY DEF Names, IsNormalForm, IsNormal
  <1>10. Makes(<<>>, from, from)
    BY <1>9, NormalFormKept
  <1>11. CASE parts # <<>>
    <2> HIDE DEF parts
    <2>1. Makes(<<>>, from \o parts, to)
      BY <1>5, <1>8, <1>10, MakesConcat
    <2>2. from \o parts \in Seq(C)
      BY <1>5, ConcatProperties
    <2>3. Normalize(from \o parts) = to
      BY <2>1, <2>2, NormalizeMakes
    <2>4. QED
      BY <1>3, <1>5, <1>11, <2>3
  <1>12. CASE parts = <<>>
    <2> HIDE DEF parts
    <2>1. <<Here>> \in Seq(C) /\ Len(<<Here>>) = 1 /\ <<Here>>[1] = Here
      OBVIOUS
    <2>2. to = from
      <3>1. Makes(from, <<>>, from)
        <4>1. \A i \in 1..Len(<<>>) : [j \in {0} |-> from][i] = Push([j \in {0} |-> from][i - 1], <<>>[i])
          OBVIOUS
        <4>2. Len(<<>>) = 0 /\ <<>> \in Seq(C) /\ [j \in {0} |-> from][0] = from
          OBVIOUS
        <4> DEFINE f == [j \in {0} |-> from]
        <4>3. \A i \in 1..Len(<<>>) : f[i] = Push(f[i - 1], <<>>[i])
          BY <4>2
        <4>4. Makes(f[0], <<>>, f[Len(<<>>)])
          <5> HIDE DEF f
          <5>1. QED
            BY <4>2, <4>3, MakesBy
        <4>5. QED
          BY <4>2, <4>4
      <3>2. QED
        BY <1>5, <1>8, <1>12, <3>1, MakesOne
    <2>3. Makes(from, <<Here>>, from)
      <3> DEFINE f == [j \in {0, 1} |-> from]
      <3>1. \A i \in 1..Len(<<Here>>) : f[i] = Push(f[i - 1], <<Here>>[i])
        BY <2>1 DEF Push, Here, Up
      <3>2. f[0] = from /\ f[Len(<<Here>>)] = from
        BY <2>1
      <3> HIDE DEF f
      <3>3. QED
        BY <2>1, <3>1, <3>2, MakesBy
    <2>4. Makes(<<>>, from \o <<Here>>, from)
      BY <1>10, <2>1, <2>3, MakesConcat
    <2>5. from \o <<Here>> \in Seq(C)
      BY <2>1, ConcatProperties
    <2>6. Normalize(from \o <<Here>>) = from
      BY <2>4, <2>5, NormalizeMakes
    <2>7. QED
      BY <1>3, <1>12, <2>1, <2>2, <2>6
  <1>13. QED
    BY <1>11, <1>12

-----------------------------------------------------------------------------
(* The link.                                                               *)

\* ".." and "." are components.
LEMMA UpIsComponent == Up \in Component /\ Here \in Component
  BY DEF Component

\* Where a document may be, and its directory, have names only.
LEMMA PlaceIs ==
    ASSUME NEW p \in Place
    PROVE  /\ p \in Seq(Component) /\ IsNormalForm(p)
           /\ Dir(p) \in Seq(Component) /\ Names(Dir(p))
  <1>1. p \in Seq(Component) /\ p # <<>> /\ Normalize(p) = p /\ ~EscapesRoot(p)
    BY PlacesAreNormal
  <1>2. IsNormalForm(p)
    BY <1>1, NormalizeNormal
  <1>3. p[1] # Up
    <2>1. Head(p) # Up
      BY <1>1 DEF EscapesRoot
    <2>2. Head(p) = p[1]
      BY <1>1
    <2>3. QED
      BY <2>1, <2>2
  <1>4. \A i \in 1..Len(p) : IsNormal(p[i])
    <2> TAKE i \in 1..Len(p)
    <2>1. 1 \in 1..i
      BY <1>1
    <2>2. QED
      BY <1>2, <1>3, <2>1 DEF IsNormal, IsNormalForm
  <1>5. Dir(p) = Front(p)
    BY <1>1 DEF Dir
  <1>6. /\ Front(p) \in Seq(Component) /\ Len(Front(p)) = Len(p) - 1
        /\ \A i \in 1..(Len(p) - 1) : Front(p)[i] = p[i]
    BY <1>1, FrontIs
  <1>7. \A i \in 1..(Len(p) - 1) : i \in 1..Len(p)
    BY <1>1
  <1>8. Names(Dir(p))
    BY <1>4, <1>5, <1>6, <1>7 DEF Names
  <1>9. QED
    BY <1>1, <1>2, <1>5, <1>6, <1>8

\* A link written anew in a document leads where it was meant to
\* (relative_from_dir and resolve, link.rs).
LEMMA RelativeLeads ==
    ASSUME NEW p \in Place, NEW to \in Seq(Component), IsNormalForm(to)
    PROVE  /\ Relative(Dir(p), to).abs \in BOOLEAN
           /\ Relative(Dir(p), to).parts \in Seq(Component)
           /\ Resolve(p, Relative(Dir(p), to)) = to
  <1>1. /\ Relative(Dir(p), to).abs = FALSE /\ Relative(Dir(p), to).parts \in Seq(Component)
        /\ Normalize(Dir(p) \o Relative(Dir(p), to).parts) = to
    BY PlaceIs, UpIsComponent, RelativeMakes
  <1>2. QED
    BY <1>1 DEF Resolve

\* What a link leads to is in normal form.
LEMMA ResolveNormal ==
    ASSUME NEW p \in Place, NEW t, t.abs \in BOOLEAN, t.parts \in Seq(Component)
    PROVE  Resolve(p, t) \in Seq(Component) /\ IsNormalForm(Resolve(p, t))
  <1>1. Dir(p) \in Seq(Component)
    BY PlaceIs
  <1>2. Dir(p) \o t.parts \in Seq(Component)
    BY <1>1, ConcatProperties
  <1>3. QED
    BY <1>2, NormalizeNormal DEF Resolve

\* The inductive invariant: the link leads to its target, and everything is
\* of components, the target in normal form.
Leads ==
    /\ doc \in Place
    /\ text.abs \in BOOLEAN /\ text.parts \in Seq(Component)
    /\ target \in Seq(Component) /\ IsNormalForm(target)
    /\ Resolve(doc, text) = target

\* It holds of what a person wrote.
LEMMA LeadsInit == Init => Leads
  <1>1. SUFFICES ASSUME Init PROVE Leads
    OBVIOUS
  <1>2. doc \in Place /\ text.abs \in BOOLEAN /\ text.parts \in Seq(Component)
    BY <1>1, PlacesAreNormal DEF Init
  <1>3. target = Resolve(doc, text)
    BY <1>1 DEF Init
  <1>4. QED
    BY <1>2, <1>3, ResolveNormal DEF Leads

\* It survives every move and every change of style.
LEMMA LeadsNext ==
    ASSUME "canonical" \notin Style, Leads, [Next]_vars
    PROVE  Leads'
  <1>1. /\ doc \in Place /\ text.abs \in BOOLEAN /\ text.parts \in Seq(Component)
        /\ target \in Seq(Component) /\ IsNormalForm(target) /\ Resolve(doc, text) = target
    BY DEF Leads
  <1>2. CASE MoveDocument
    <2>1. PICK to \in Place \ {doc, target} :
              doc' = to /\ text' = Rerelativized(text, doc, to) /\ target' = target
      BY <1>2 DEF MoveDocument
    <2>2. CASE Dir(doc) = Dir(to)
      <3>1. text' = text
        BY <2>1, <2>2 DEF Rerelativized
      <3>2. Resolve(to, text) = Resolve(doc, text)
        BY <2>2 DEF Resolve
      <3>3. QED
        BY <1>1, <2>1, <3>1, <3>2 DEF Leads
    <2>3. CASE Dir(doc) # Dir(to)
      <3>1. text' = Relative(Dir(to), target)
        BY <1>1, <2>1, <2>3 DEF Rerelativized
      <3>2. QED
        BY <1>1, <2>1, <3>1, RelativeLeads DEF Leads
    <2>4. QED
      BY <2>2, <2>3
  <1>3. CASE MoveFile
    <2>1. PICK from \in Place \ {doc}, to \in Place \ {doc, target} :
              /\ text' = Retargeted(text, doc, from, to)
              /\ target' = IF target = from THEN to ELSE target
              /\ doc' = doc
      BY <1>3 DEF MoveFile
    <2>2. CASE target = from
      <3>1. text' = Relative(Dir(doc), to) /\ target' = to
        BY <1>1, <2>1, <2>2 DEF Retargeted
      <3>2. to \in Seq(Component) /\ IsNormalForm(to)
        BY PlaceIs
      <3>3. QED
        BY <1>1, <2>1, <3>1, <3>2, RelativeLeads DEF Leads
    <2>3. CASE target # from
      <3>1. text' = text /\ target' = target
        BY <1>1, <2>1, <2>3 DEF Retargeted
      <3>2. QED
        BY <1>1, <2>1, <3>1 DEF Leads
    <2>4. QED
      BY <2>2, <2>3
  <1>4. CASE Restyle
    <2>1. PICK style \in Style : text' = Restyled(text, doc, style) /\ doc' = doc /\ target' = target
      BY <1>4 DEF Restyle
    <2>2. text' = PathText(style, doc, target)
      BY <1>1, <2>1 DEF Restyled
    <2>3. style \in {"root", "relative"}
      BY PlacesAreNormal DEF PathStyle
    <2>4. CASE style = "root"
      <3>1. text' = PathLink(TRUE, target)
        BY <2>2, <2>4 DEF PathText
      <3>2. text'.abs = TRUE /\ text'.parts = target
        BY <3>1 DEF PathLink
      <3>3. Normalize(target) = target
        BY <1>1, NormalFormKept
      <3>4. Resolve(doc, text') = target
        BY <3>2, <3>3 DEF Resolve
      <3>5. QED
        BY <1>1, <2>1, <3>2, <3>4 DEF Leads
    <2>5. CASE style = "relative"
      <3>1. text' = Relative(Dir(doc), target)
        BY <2>2, <2>5 DEF PathText
      <3>2. QED
        BY <1>1, <2>1, <3>1, RelativeLeads DEF Leads
    <2>6. QED
      BY <2>3, <2>4, <2>5
  <1>5. CASE UNCHANGED vars
    BY <1>1, <1>5 DEF vars, Leads
  <1>6. QED
    BY <1>2, <1>3, <1>4, <1>5 DEF Next

\* A link leads where it led, wherever its document and its target have moved,
\* as long as it is only restyled to the forms that are read as they are written:
\* the canonical text of a path, one with no slash, is read from the directory
\* of its document, and so does not lead back from below the root.
THEOREM LinkStillLeads == ("canonical" \notin Style) => (Spec => []StillLeads)
  <1>1. SUFFICES ASSUME "canonical" \notin Style PROVE Spec => []StillLeads
    OBVIOUS
  <1>2. Leads /\ [Next]_vars => Leads'
    BY <1>1, LeadsNext
  <1>3. Leads => StillLeads
    BY DEF Leads, StillLeads
  <1>4. QED
    BY <1>2, <1>3, LeadsInit, PTL DEF Spec

-----------------------------------------------------------------------------
(* A reading of the whole path.                                            *)

\* The depth after k components, by the depth before.
DepthStep(path, f, k) ==
    IF k = 0 THEN 0
    ELSE CASE path[k] = Here -> f[k - 1]
           [] path[k] = Up   -> IF f[k - 1] = 0 THEN 0 ELSE f[k - 1] - 1
           [] OTHER          -> f[k - 1] + 1

\* There are such depths.
LEMMA DepthGoesOn ==
    ASSUME NEW path, NEW n \in Nat
    PROVE  \E f : f = [k \in 0..n |-> DepthStep(path, f, k)]
  <1> DEFINE S == {k \in Nat : \E f : f = [l \in 0..k |-> DepthStep(path, f, l)]}
  <1>1. 0 \in S
    <2>1. [l \in 0..0 |-> 0] = [l \in 0..0 |-> DepthStep(path, [i \in 0..0 |-> 0], l)]
      BY DEF DepthStep
    <2>2. QED
      BY <2>1
  <1>2. ASSUME NEW m \in 1..n, m - 1 \in S PROVE m \in S
    <2>1. PICK f : f = [l \in 0..(m - 1) |-> DepthStep(path, f, l)]
      BY <1>2
    <2> DEFINE g == [l \in 0..m |-> IF l = m THEN DepthStep(path, f, l) ELSE f[l]]
    <2>2. \A l \in 0..(m - 1) : f[l] = DepthStep(path, f, l)
      BY <2>1
    <2>3. \A l \in 0..m : g[l] = DepthStep(path, g, l)
      <3> TAKE l \in 0..m
      <3>1. l # 0 => l - 1 \in 0..m /\ l - 1 # m
        OBVIOUS
      <3>2. l # 0 => g[l - 1] = f[l - 1]
        BY <3>1
      <3> HIDE DEF g
      <3>3. DepthStep(path, g, l) = DepthStep(path, f, l)
        BY <3>2 DEF DepthStep
      <3>4. g[l] = DepthStep(path, f, l)
        <4>1. CASE l = m
          BY <4>1 DEF g
        <4>2. CASE l # m
          <5>1. l \in 0..(m - 1) /\ g[l] = f[l]
            BY <4>2 DEF g
          <5>2. QED
            BY <5>1, <2>2
        <4>3. QED
          BY <4>1, <4>2
      <3>5. QED
        BY <3>3, <3>4
    <2>4. g = [l \in 0..m |-> DepthStep(path, g, l)]
      <3> DEFINE h == [l \in 0..m |-> DepthStep(path, g, l)]
      <3>1. DOMAIN g = 0..m /\ g = [l \in 0..m |-> g[l]]
        OBVIOUS
      <3> HIDE DEF g
      <3>2. QED
        BY <2>3, <3>1
    <2> HIDE DEF g
    <2>5. QED
      BY <2>4
  <1> HIDE DEF S
  <1>3. n \in S
    BY <1>1, <1>2, Upto
  <1>4. QED
    BY <1>3 DEF S

\* The depth, one component after the other.
LEMMA DepthIs ==
    ASSUME NEW C, NEW path \in Seq(C)
    PROVE  /\ \A k \in 0..Len(path) : Depth(path, k) \in Nat
           /\ Depth(path, 0) = 0
           /\ \A k \in 1..Len(path) :
                /\ path[k] = Here => Depth(path, k) = Depth(path, k - 1)
                /\ path[k] = Up /\ Depth(path, k - 1) = 0 => Depth(path, k) = 0
                /\ path[k] = Up /\ Depth(path, k - 1) # 0 => Depth(path, k) = Depth(path, k - 1) - 1
                /\ IsNormal(path[k]) => Depth(path, k) = Depth(path, k - 1) + 1
  <1>0. Len(path) \in Nat
    OBVIOUS
  <1> DEFINE f == CHOOSE a : a = [k \in 0..Len(path) |->
                      IF k = 0 THEN 0
                      ELSE CASE path[k] = Here -> a[k - 1]
                             [] path[k] = Up   -> IF a[k - 1] = 0 THEN 0 ELSE a[k - 1] - 1
                             [] OTHER          -> a[k - 1] + 1]
  <1>1. \A i : Depth(path, i) = f[i]
    BY DEF Depth
  <1>2. \E a : a = [k \in 0..Len(path) |-> DepthStep(path, a, k)]
    BY <1>0, DepthGoesOn
  <1>3. f = [k \in 0..Len(path) |-> DepthStep(path, f, k)]
    BY <1>2 DEF DepthStep
  <1> HIDE DEF f
  <1>4. \A k \in 0..Len(path) : f[k] = DepthStep(path, f, k)
    BY <1>3
  <1>5. f[0] = 0
    BY <1>0, <1>4 DEF DepthStep
  <1>6. ASSUME NEW k \in 1..Len(path)
        PROVE  /\ path[k] = Here => f[k] = f[k - 1]
               /\ path[k] = Up /\ f[k - 1] = 0 => f[k] = 0
               /\ path[k] = Up /\ f[k - 1] # 0 => f[k] = f[k - 1] - 1
               /\ IsNormal(path[k]) => f[k] = f[k - 1] + 1
    <2>1. f[k] = DepthStep(path, f, k) /\ k # 0
      BY <1>4
    <2>2. Here # Up
      BY DEF Here, Up
    <2>3. CASE path[k] = Here
      BY <2>1, <2>2, <2>3 DEF DepthStep, IsNormal
    <2>4. CASE path[k] = Up
      BY <2>1, <2>2, <2>4 DEF DepthStep, IsNormal
    <2>5. CASE IsNormal(path[k])
      BY <2>1, <2>5 DEF DepthStep, IsNormal
    <2>6. QED
      BY <2>3, <2>4, <2>5 DEF IsNormal
  <1> DEFINE S == {k \in 0..Len(path) : f[k] \in Nat}
  <1>7. 0 \in S
    BY <1>0, <1>5
  <1>8. ASSUME NEW k \in 1..Len(path), k - 1 \in S PROVE k \in S
    BY <1>6, <1>8 DEF IsNormal
  <1> HIDE DEF S
  <1>9. \A k \in 0..Len(path) : k \in S
    BY <1>0, <1>7, <1>8, Upto
  <1>10. QED
    BY <1>1, <1>5, <1>6, <1>9 DEF S

\* The components of the first k that the reading of those keeps.
Kept(path, k) ==
    {i \in 1..k : \/ IsNormal(path[i]) /\ \A j \in i..k : Depth(path, j) >= Depth(path, i)
                  \/ Climbs(path, i)}

\* out is the reading of the first k components, e where each of its
\* components stands: the climbs first, then what is left below them.
ReadAt(path, k, out, e) ==
    /\ \A n \in 1..Len(out) : e[n] \in Kept(path, k) /\ out[n] = path[e[n]]
    /\ \A n, l \in 1..Len(out) : n < l => e[n] < e[l]
    /\ \A i \in Kept(path, k) : \E n \in 1..Len(out) : e[n] = i
    /\ Depth(path, k) <= Len(out)
    /\ \A n \in 1..Len(out) :
          IF n + Depth(path, k) <= Len(out) THEN path[e[n]] = Up
          ELSE IsNormal(path[e[n]]) /\ Depth(path, e[n]) = n + Depth(path, k) - Len(out)

\* One component more is read as it is pushed: a name is kept, a ".." takes
\* the last name that is left, or is kept when there is none.
LEMMA ReadAtNext ==
    ASSUME NEW C, NEW path \in Seq(C), NEW k \in 1..Len(path), NEW out \in Seq(C), NEW e,
           ReadAt(path, k - 1, out, e)
    PROVE  \E d : ReadAt(path, k, Push(out, path[k]), d)
  <1>0. Len(path) \in Nat /\ k - 1 \in 0..Len(path) /\ k \in 0..Len(path) /\ Len(out) \in Nat
        /\ Here # Up /\ path[k] \in C
    BY DEF Here, Up
  <1>1. /\ Depth(path, k) \in Nat /\ Depth(path, k - 1) \in Nat
        /\ \A i \in 0..Len(path) : Depth(path, i) \in Nat
        /\ path[k] = Here => Depth(path, k) = Depth(path, k - 1)
        /\ path[k] = Up /\ Depth(path, k - 1) = 0 => Depth(path, k) = 0
        /\ path[k] = Up /\ Depth(path, k - 1) # 0 => Depth(path, k) = Depth(path, k - 1) - 1
        /\ IsNormal(path[k]) => Depth(path, k) = Depth(path, k - 1) + 1
    BY <1>0, DepthIs
  <1>2. /\ \A n \in 1..Len(out) : e[n] \in Kept(path, k - 1) /\ out[n] = path[e[n]]
        /\ \A n, l \in 1..Len(out) : n < l => e[n] < e[l]
        /\ \A i \in Kept(path, k - 1) : \E n \in 1..Len(out) : e[n] = i
        /\ Depth(path, k - 1) <= Len(out)
        /\ \A n \in 1..Len(out) :
              IF n + Depth(path, k - 1) <= Len(out) THEN path[e[n]] = Up
              ELSE IsNormal(path[e[n]]) /\ Depth(path, e[n]) = n + Depth(path, k - 1) - Len(out)
    BY DEF ReadAt
  <1>3. Kept(path, k - 1) \subseteq 1..(k - 1)
    BY DEF Kept
  \* What an earlier component needs to be kept still.
  <1>4. ASSUME NEW i \in 1..(k - 1)
        PROVE  i \in Kept(path, k) <=>
                  i \in Kept(path, k - 1) /\ (Climbs(path, i) \/ Depth(path, k) >= Depth(path, i))
    <2>1. i \in 1..k /\ i..k = i..(k - 1) \cup {k}
      BY <1>0
    <2>2. (\A j \in i..k : Depth(path, j) >= Depth(path, i))
             <=> (\A j \in i..(k - 1) : Depth(path, j) >= Depth(path, i)) /\ Depth(path, k) >= Depth(path, i)
      BY <2>1
    <2>3. QED
      BY <2>1, <2>2 DEF Kept
  <1>5. k \in Kept(path, k) <=> IsNormal(path[k]) \/ Climbs(path, k)
    <2>1. k \in 1..k /\ k..k = {k} /\ Depth(path, k) >= Depth(path, k)
      BY <1>0, <1>1
    <2>2. QED
      BY <2>1 DEF Kept
  <1>6. \A i \in Kept(path, k) : i \in 1..(k - 1) \/ i = k
    BY <1>0 DEF Kept
  \* A component that is kept lies no deeper than the path has come.
  <1>7. \A i \in Kept(path, k - 1) : Climbs(path, i) \/ Depth(path, k - 1) >= Depth(path, i)
    <2> TAKE i \in Kept(path, k - 1)
    <2>1. i \in 1..(k - 1) /\ k - 1 \in i..(k - 1)
      BY <1>0, <1>3
    <2>2. QED
      BY <2>1 DEF Kept
  <1>8. CASE path[k] = Here
    <2>1. Push(out, path[k]) = out
      BY <1>0, <1>8 DEF Push
    <2>2. Depth(path, k) = Depth(path, k - 1)
      BY <1>1, <1>8
    <2>3. ~(k \in Kept(path, k))
      BY <1>0, <1>5, <1>8 DEF IsNormal, Climbs
    <2>4. Kept(path, k) = Kept(path, k - 1)
      BY <1>3, <1>4, <1>6, <1>7, <2>2, <2>3
    <2>5. ReadAt(path, k, out, e)
      BY <1>2, <2>2, <2>4 DEF ReadAt
    <2>6. QED
      BY <2>1, <2>5
  <1>9. CASE IsNormal(path[k]) \/ (path[k] = Up /\ Depth(path, k - 1) = 0)
    <2> DEFINE new == Append(out, path[k])
               d   == [n \in 1..(Len(out) + 1) |-> IF n = Len(out) + 1 THEN k ELSE e[n]]
    <2>1. Push(out, path[k]) = new
      <3>1. CASE IsNormal(path[k])
        BY <3>1 DEF Push, IsNormal
      <3>2. CASE path[k] = Up /\ Depth(path, k - 1) = 0
        <4>1. ASSUME NEW n \in 1..Len(out) PROVE out[n] = Up
          <5>1. n + Depth(path, k - 1) <= Len(out)
            BY <1>0, <3>2
          <5>2. path[e[n]] = Up
            BY <1>2, <5>1
          <5>3. QED
            BY <1>2, <5>2
        <4>2. ~(out # <<>> /\ IsNormal(Last(out)))
          <5>1. SUFFICES ASSUME out # <<>> PROVE ~IsNormal(Last(out))
            OBVIOUS
          <5>2. Len(out) \in 1..Len(out)
            BY <5>1, <1>0
          <5>3. QED
            BY <4>1, <5>2 DEF Last, IsNormal
        <4>3. QED
          BY <1>0, <3>2, <4>2 DEF Push
      <3>3. QED
        BY <1>9, <3>1, <3>2
    <2>2. /\ Len(new) = Len(out) + 1 /\ new[Len(out) + 1] = path[k]
          /\ \A n \in 1..Len(out) : new[n] = out[n]
      BY <1>0
    <2>3. d[Len(out) + 1] = k /\ \A n \in 1..Len(out) : d[n] = e[n]
      BY <1>0
    <2> HIDE DEF new, d
    <2>4. Depth(path, k) >= Depth(path, k - 1)
      BY <1>1, <1>9
    <2>5. k \in Kept(path, k)
      BY <1>5, <1>9 DEF Climbs
    <2>6. \A i \in 1..(k - 1) : i \in Kept(path, k) <=> i \in Kept(path, k - 1)
      <3> TAKE i \in 1..(k - 1)
      <3>1. i \in 0..Len(path) /\ Depth(path, i) \in Nat
        BY <1>0, <1>1
      <3>2. QED
        BY <1>1, <1>4, <1>7, <2>4, <3>1
    <2>7. \A n \in 1..(Len(out) + 1) : n \in 1..Len(out) \/ n = Len(out) + 1
      BY <1>0
    <2>8. \A n \in 1..Len(out) : e[n] \in 1..(k - 1)
      BY <1>2, <1>3
    <2>9. \A n \in 1..Len(new) : d[n] \in Kept(path, k) /\ new[n] = path[d[n]]
      BY <1>2, <2>2, <2>3, <2>5, <2>6, <2>7, <2>8
    <2>10. \A n, l \in 1..Len(new) : n < l => d[n] < d[l]
      <3> TAKE n, l \in 1..Len(new)
      <3>1. SUFFICES ASSUME n < l PROVE d[n] < d[l]
        OBVIOUS
      <3>2. n \in 1..Len(out)
        BY <1>0, <2>2, <3>1
      <3>3. CASE l = Len(out) + 1
        BY <1>0, <2>3, <2>8, <3>2, <3>3
      <3>4. CASE l \in 1..Len(out)
        BY <1>2, <2>3, <3>1, <3>2, <3>4
      <3>5. QED
        BY <2>2, <2>7, <3>3, <3>4
    <2>11. \A i \in Kept(path, k) : \E n \in 1..Len(new) : d[n] = i
      <3> TAKE i \in Kept(path, k)
      <3>1. CASE i = k
        <4>1. Len(out) + 1 \in 1..Len(new)
          BY <1>0, <2>2
        <4>2. QED
          BY <2>3, <3>1, <4>1
      <3>2. CASE i \in 1..(k - 1)
        <4>1. PICK n \in 1..Len(out) : e[n] = i
          BY <1>2, <2>6, <3>2
        <4>2. n \in 1..Len(new)
          BY <1>0, <2>2
        <4>3. QED
          BY <2>3, <4>1, <4>2
      <3>3. QED
        BY <1>6, <3>1, <3>2
    <2>12. CASE IsNormal(path[k])
      <3>1. Depth(path, k) = Depth(path, k - 1) + 1
        BY <1>1, <2>12
      <3>2. Depth(path, k) <= Len(new)
        BY <1>0, <1>1, <1>2, <2>2, <3>1
      <3>3. ASSUME NEW n \in 1..Len(new)
            PROVE  IF n + Depth(path, k) <= Len(new) THEN path[d[n]] = Up
                   ELSE IsNormal(path[d[n]]) /\ Depth(path, d[n]) = n + Depth(path, k) - Len(new)
        <4>1. n + Depth(path, k) <= Len(new) <=> n + Depth(path, k - 1) <= Len(out)
          BY <1>0, <1>1, <2>2, <3>1
        <4>2. n + Depth(path, k) - Len(new) = n + Depth(path, k - 1) - Len(out)
          BY <1>0, <1>1, <2>2, <3>1
        <4>3. CASE n \in 1..Len(out)
          BY <1>2, <2>3, <4>1, <4>2, <4>3
        <4>4. CASE n = Len(out) + 1
          <5>1. ~(n + Depth(path, k) <= Len(new))
            BY <1>0, <1>1, <2>2, <3>1, <4>4
          <5>2. Depth(path, d[n]) = n + Depth(path, k) - Len(new)
            BY <1>0, <1>1, <2>2, <2>3, <4>4
          <5>3. QED
            BY <2>3, <2>12, <4>4, <5>1, <5>2
        <4>5. QED
          BY <2>2, <2>7, <4>3, <4>4
      <3>4. ReadAt(path, k, new, d)
        BY <2>9, <2>10, <2>11, <3>2, <3>3 DEF ReadAt
      <3>5. QED
        BY <2>1, <3>4
    <2>13. CASE path[k] = Up /\ Depth(path, k - 1) = 0
      <3>1. Depth(path, k) = 0
        BY <1>1, <2>13
      <3>2. Depth(path, k) <= Len(new)
        BY <1>0, <2>2, <3>1
      <3>3. ASSUME NEW n \in 1..Len(new) PROVE n + Depth(path, k) <= Len(new) /\ path[d[n]] = Up
        <4>1. n + Depth(path, k) <= Len(new)
          BY <1>0, <2>2, <3>1
        <4>2. CASE n \in 1..Len(out)
          <5>1. n + Depth(path, k - 1) <= Len(out)
            BY <1>0, <2>13, <4>2
          <5>2. path[e[n]] = Up
            BY <1>2, <4>2, <5>1
          <5>3. QED
            BY <2>3, <4>1, <4>2, <5>2
        <4>3. CASE n = Len(out) + 1
          BY <2>3, <2>13, <4>1, <4>3
        <4>4. QED
          BY <2>2, <2>7, <4>2, <4>3
      <3>4. ReadAt(path, k, new, d)
        BY <2>9, <2>10, <2>11, <3>2, <3>3 DEF ReadAt
      <3>5. QED
        BY <2>1, <3>4
    <2>14. QED
      BY <1>9, <2>12, <2>13
  <1>10. CASE path[k] = Up /\ Depth(path, k - 1) # 0
    <2> DEFINE m == Len(out)
    <2>0. m \in Nat /\ m # 0 /\ m \in 1..m
      BY <1>0, <1>1, <1>2, <1>10
    <2>1. out # <<>> /\ IsNormal(Last(out))
      <3>1. ~(m + Depth(path, k - 1) <= m)
        BY <1>0, <1>1, <1>10
      <3>2. IsNormal(out[m])
        BY <1>2, <2>0, <3>1
      <3>3. QED
        BY <2>0, <3>2 DEF Last
    <2>2. Push(out, path[k]) = Front(out)
      BY <1>0, <1>10, <2>1 DEF Push
    <2>3. /\ Len(Front(out)) = m - 1
          /\ \A n \in 1..(m - 1) : Front(out)[n] = out[n]
      BY <2>1, FrontIs
    <2>4. Depth(path, k) = Depth(path, k - 1) - 1
      BY <1>1, <1>10
    <2>5. ~(k \in Kept(path, k))
      BY <1>0, <1>5, <1>10 DEF IsNormal, Climbs
    <2>6. \A n \in 1..(m - 1) : n \in 1..m
      BY <2>0
    \* The last of what was kept goes, and nothing else.
    <2>7. ASSUME NEW n \in 1..m PROVE e[n] \in Kept(path, k) <=> n # m
      <3>1. e[n] \in Kept(path, k - 1) /\ e[n] \in 1..(k - 1)
        BY <1>2, <1>3
      <3>2. CASE n + Depth(path, k - 1) <= m
        <4>1. path[e[n]] = Up /\ n # m
          BY <1>1, <1>2, <1>10, <2>0, <3>2
        <4>2. Climbs(path, e[n])
          BY <3>1, <4>1 DEF Kept, IsNormal
        <4>3. QED
          BY <1>4, <3>1, <4>1, <4>2
      <3>3. CASE ~(n + Depth(path, k - 1) <= m)
        <4>1. IsNormal(path[e[n]]) /\ Depth(path, e[n]) = n + Depth(path, k - 1) - m
          BY <1>2, <3>3
        <4>2. ~Climbs(path, e[n])
          BY <4>1 DEF Climbs, IsNormal
        <4>3. Depth(path, k) >= Depth(path, e[n]) <=> n # m
          BY <1>1, <2>0, <2>4, <4>1
        <4>4. QED
          BY <1>4, <3>1, <4>2, <4>3
      <3>4. QED
        BY <3>2, <3>3
    <2> HIDE DEF m
    <2>8. \A n \in 1..(m - 1) : e[n] \in Kept(path, k) /\ Front(out)[n] = path[e[n]]
      <3> TAKE n \in 1..(m - 1)
      <3>1. n \in 1..m /\ n # m
        BY <2>0
      <3>2. QED
        BY <1>2, <2>3, <2>7, <3>1 DEF m
    <2>9. \A n, l \in 1..(m - 1) : n < l => e[n] < e[l]
      BY <1>2, <2>6 DEF m
    <2>10. \A i \in Kept(path, k) : \E n \in 1..(m - 1) : e[n] = i
      <3> TAKE i \in Kept(path, k)
      <3>1. i \in 1..(k - 1) /\ i \in Kept(path, k - 1)
        BY <1>4, <1>6, <2>5
      <3>2. PICK n \in 1..m : e[n] = i
        BY <1>2, <3>1 DEF m
      <3>3. n # m
        BY <2>7, <3>2
      <3>4. n \in 1..(m - 1)
        BY <2>0, <3>3
      <3>5. QED
        BY <3>2, <3>4
    <2>11. Depth(path, k) <= m - 1
      BY <1>1, <1>2, <2>0, <2>4 DEF m
    <2>12. ASSUME NEW n \in 1..(m - 1)
           PROVE  IF n + Depth(path, k) <= m - 1 THEN path[e[n]] = Up
                  ELSE IsNormal(path[e[n]]) /\ Depth(path, e[n]) = n + Depth(path, k) - (m - 1)
      <3>1. n + Depth(path, k) <= m - 1 <=> n + Depth(path, k - 1) <= m
        BY <1>1, <2>0, <2>4
      <3>2. n + Depth(path, k) - (m - 1) = n + Depth(path, k - 1) - m
        BY <1>1, <2>0, <2>4
      <3>3. IF n + Depth(path, k - 1) <= m THEN path[e[n]] = Up
            ELSE IsNormal(path[e[n]]) /\ Depth(path, e[n]) = n + Depth(path, k - 1) - m
        BY <1>2, <2>6 DEF m
      <3>4. QED
        BY <3>1, <3>2, <3>3
    <2>13. ReadAt(path, k, Front(out), e)
      BY <2>3, <2>8, <2>9, <2>10, <2>11, <2>12 DEF ReadAt
    <2>14. QED
      BY <2>2, <2>13
  <1>11. QED
    BY <1>8, <1>9, <1>10 DEF IsNormal

\* A component pushed makes a path.
LEMMA PushTyped ==
    ASSUME NEW C, NEW out \in Seq(C), NEW c \in C
    PROVE  Push(out, c) \in Seq(C)
  <1>1. out # <<>> => Front(out) \in Seq(C)
    BY FrontIs
  <1>2. Append(out, c) \in Seq(C)
    OBVIOUS
  <1>3. QED
    BY <1>1, <1>2 DEF Push

\* At the end of a path, all of it has been read.
LEMMA ReadAtEnd ==
    ASSUME NEW C, NEW path \in Seq(C)
    PROVE  /\ Normalize(path) \in Seq(C)
           /\ \E e : ReadAt(path, Len(path), Normalize(path), e)
  <1>0. Len(path) \in Nat /\ Len(path) \in 0..Len(path)
    OBVIOUS
  <1>1. PICK f : Goes(<<>>, path, Len(path), f) /\ Normalize(path) = f[Len(path)]
    BY NormalizeIs DEF Makes
  <1>2. \A k \in 0..Len(path) : f[k] = Step(<<>>, path, f, k)
    BY <1>1 DEF Goes
  <1> DEFINE S == {k \in 0..Len(path) : f[k] \in Seq(C) /\ \E e : ReadAt(path, k, f[k], e)}
  <1>3. 0 \in S
    <2>1. f[0] = <<>> /\ 0 \in 0..Len(path)
      BY <1>0, <1>2 DEF Step
    <2>2. <<>> \in Seq(C) /\ Len(<<>>) = 0
      OBVIOUS
    <2>3. Kept(path, 0) = {} /\ Depth(path, 0) = 0
      BY DepthIs DEF Kept
    <2>4. ReadAt(path, 0, <<>>, <<>>)
      BY <2>2, <2>3 DEF ReadAt
    <2>5. QED
      BY <2>1, <2>2, <2>4
  <1>4. ASSUME NEW k \in 1..Len(path), k - 1 \in S PROVE k \in S
    <2>1. f[k] = Push(f[k - 1], path[k]) /\ path[k] \in C
      BY <1>2 DEF Step
    <2>2. f[k - 1] \in Seq(C)
      BY <1>4
    <2>3. PICK e : ReadAt(path, k - 1, f[k - 1], e)
      BY <1>4
    <2>4. \E d : ReadAt(path, k, f[k], d)
      BY <2>1, <2>2, <2>3, ReadAtNext
    <2>5. f[k] \in Seq(C)
      BY <2>1, <2>2, PushTyped
    <2>6. QED
      BY <2>4, <2>5
  <1> HIDE DEF S
  <1>5. Len(path) \in S
    BY <1>0, <1>3, <1>4, Upto
  <1>6. QED
    BY <1>1, <1>5 DEF S

\* The components a list names once each, in order, are as many as it is long.
LEMMA Counted ==
    ASSUME NEW n \in Nat, NEW T, NEW e,
           \A i \in 1..n : e[i] \in T,
           \A i, j \in 1..n : i < j => e[i] # e[j],
           \A t \in T : \E i \in 1..n : e[i] = t
    PROVE  Cardinality(T) = n
  <1> DEFINE g == [i \in 1..n |-> e[i]]
  <1>1. g \in [1..n -> T] /\ \A i \in 1..n : g[i] = e[i]
    OBVIOUS
  <1> HIDE DEF g
  <1>2. \A a, b \in 1..n : g[a] = g[b] => a = b
    <2> TAKE a, b \in 1..n
    <2>1. a < b \/ b < a \/ a = b
      OBVIOUS
    <2>2. QED
      BY <1>1, <2>1
  <1>3. \A t \in T : \E s \in 1..n : g[s] = t
    BY <1>1
  <1>4. g \in Bijection(1..n, T)
    BY <1>1, <1>2, <1>3, Fun_IsBij
  <1>5. ExistsBijection(1..n, T)
    BY <1>4 DEF ExistsBijection
  <1>6. IsFiniteSet(1..n) /\ Cardinality(1..n) = n
    BY FS_CountingElements, Fun_ExistsBijReflexive, FS_Interval
  <1>7. QED
    BY <1>5, <1>6, FS_Bijection

\* normalize comes to what a person reads, and escapes_root to whether that
\* reading climbs out anywhere, for every path (link.rs 996-1033).
THEOREM NormalizeReads ==
    ASSUME NEW C, NEW path \in Seq(C)
    PROVE  /\ Normalize(path) = Read(path)
           /\ EscapesRoot(path) <=> \E i \in 1..Len(path) : Climbs(path, i)
  <1> DEFINE out  == Normalize(path)
             kept == {i \in 1..Len(path) : Survives(path, i) \/ Climbs(path, i)}
             d    == Depth(path, Len(path))
  <1>0. Len(path) \in Nat /\ Len(path) \in 0..Len(path)
    OBVIOUS
  <1>1. out \in Seq(C) /\ Len(out) \in Nat
    BY ReadAtEnd
  <1>2. PICK e : ReadAt(path, Len(path), out, e)
    BY ReadAtEnd
  <1>3. kept = Kept(path, Len(path))
    BY DEF Kept, Survives
  <1>4. d \in Nat
    BY <1>0, DepthIs
  <1> HIDE DEF out, d
  <1>5. /\ \A n \in 1..Len(out) : e[n] \in kept /\ out[n] = path[e[n]]
        /\ \A n, l \in 1..Len(out) : n < l => e[n] < e[l]
        /\ \A i \in kept : \E n \in 1..Len(out) : e[n] = i
        /\ d <= Len(out)
        /\ \A n \in 1..Len(out) :
              IF n + d <= Len(out) THEN path[e[n]] = Up ELSE IsNormal(path[e[n]])
    BY <1>2, <1>3 DEF ReadAt, d
  <1>6. \A i \in kept : i \in Nat
    OBVIOUS
  <1>c. \A i \in 1..Len(path) : Climbs(path, i) => i \in kept
    OBVIOUS
  <1>k. \A i \in kept : i \in 1..Len(path) /\ (path[i] = Up => Climbs(path, i))
    BY DEF Survives, IsNormal
  <1>r. Read(path) = [n \in 1..Cardinality(kept) |->
                        path[CHOOSE i \in kept : Cardinality({j \in kept : j <= i}) = n]]
    BY DEF Read
  <1> HIDE DEF kept
  <1>7. Cardinality(kept) = Len(out)
    <2>1. \A i, j \in 1..Len(out) : i < j => e[i] # e[j]
      BY <1>5, <1>6
    <2>2. \A n \in 1..Len(out) : e[n] \in kept
      BY <1>5
    <2>3. \A i \in kept : \E n \in 1..Len(out) : e[n] = i
      BY <1>5
    <2>4. QED
      BY <1>1, <2>1, <2>2, <2>3, Counted
  <1>8. ASSUME NEW n \in 1..Len(out)
        PROVE  Cardinality({j \in kept : j <= e[n]}) = n
    <2> DEFINE T == {j \in kept : j <= e[n]}
    <2>1. n \in Nat /\ \A i \in 1..n : i \in 1..Len(out)
      BY <1>1
    <2>2. \A i \in 1..n : e[i] \in T
      <3> TAKE i \in 1..n
      <3>1. i = n \/ i < n
        BY <2>1
      <3>2. e[i] \in kept /\ e[n] \in kept /\ e[i] \in Nat
        BY <1>5, <1>6, <2>1
      <3>3. e[i] <= e[n]
        BY <1>5, <1>6, <2>1, <3>1, <3>2
      <3>4. QED
        BY <3>2, <3>3
    <2>3. \A i, j \in 1..n : i < j => e[i] # e[j]
      BY <1>5, <1>6, <2>1
    <2>4. \A t \in T : \E i \in 1..n : e[i] = t
      <3> TAKE t \in T
      <3>1. PICK i \in 1..Len(out) : e[i] = t
        BY <1>5
      <3>2. ~(n < i)
        BY <1>5, <1>6, <3>1
      <3>3. i \in 1..n
        BY <1>1, <3>2
      <3>4. QED
        BY <3>1, <3>3
    <2> HIDE DEF T
    <2>5. Cardinality(T) = n
      BY <2>1, <2>2, <2>3, <2>4, Counted
    <2>6. QED
      BY <2>5 DEF T
  <1>9. ASSUME NEW n \in 1..Len(out)
        PROVE  (CHOOSE i \in kept : Cardinality({j \in kept : j <= i}) = n) = e[n]
    <2>1. \A i \in kept : Cardinality({j \in kept : j <= i}) = n => i = e[n]
      <3> TAKE i \in kept
      <3>1. PICK l \in 1..Len(out) : e[l] = i
        BY <1>5
      <3>2. Cardinality({j \in kept : j <= i}) = l
        BY <1>8, <3>1
      <3>3. QED
        BY <3>1, <3>2
    <2>2. e[n] \in kept /\ Cardinality({j \in kept : j <= e[n]}) = n
      BY <1>5, <1>8
    <2>3. QED
      BY <2>1, <2>2
  <1>10. out = Read(path)
    <2>1. Read(path) = [n \in 1..Len(out) |-> out[n]]
      <3>1. \A n \in 1..Len(out) :
               path[CHOOSE i \in kept : Cardinality({j \in kept : j <= i}) = n] = out[n]
        BY <1>5, <1>9
      <3>2. QED
        BY <1>7, <1>r, <3>1
    <2>2. out = [n \in 1..Len(out) |-> out[n]]
      BY <1>1
    <2>3. QED
      BY <2>1, <2>2
  <1>11. EscapesRoot(path) <=> out # <<>> /\ out[1] = Up
    <2>1. EscapesRoot(path) <=> out # <<>> /\ Head(out) = Up
      BY DEF EscapesRoot, out
    <2>2. out # <<>> => Head(out) = out[1]
      BY <1>1
    <2>3. QED
      BY <2>1, <2>2
  <1>12. ASSUME EscapesRoot(path) PROVE \E i \in 1..Len(path) : Climbs(path, i)
    <2>1. out # <<>> /\ out[1] = Up
      BY <1>11, <1>12
    <2>2. 1 \in 1..Len(out)
      BY <1>1, <2>1
    <2>3. e[1] \in kept /\ path[e[1]] = Up
      BY <1>5, <2>1, <2>2
    <2>4. QED
      BY <1>k, <2>3
  <1>13. ASSUME NEW i \in 1..Len(path), Climbs(path, i) PROVE EscapesRoot(path)
    <2>1. PICK n \in 1..Len(out) : e[n] = i
      BY <1>5, <1>c, <1>13
    <2>2. path[e[n]] = Up
      BY <1>13, <2>1 DEF Climbs
    <2>3. n + d <= Len(out)
      BY <1>5, <2>2 DEF IsNormal
    <2>4. 1 + d <= Len(out) /\ 1 \in 1..Len(out)
      BY <1>1, <1>4, <2>3
    <2>5. out[1] = Up
      BY <1>5, <2>4
    <2>6. out # <<>>
      BY <1>1, <2>4
    <2>7. QED
      BY <1>11, <2>5, <2>6
  <1>14. QED
    BY <1>10, <1>12, <1>13 DEF out

-----------------------------------------------------------------------------
(* In every style.                                                         *)

\* What holds for the canonical form too: places, texts and target are paths,
\* the target one in normal form.
Typed ==
    /\ doc \in Place
    /\ text.abs \in BOOLEAN /\ text.parts \in Seq(Component)
    /\ target \in Seq(Component) /\ IsNormalForm(target)

\* Moves and styles of all kinds keep it.
LEMMA TypedNext ==
    ASSUME Typed, [Next]_vars
    PROVE  Typed'
  <1>1. /\ doc \in Place /\ text.abs \in BOOLEAN /\ text.parts \in Seq(Component)
        /\ target \in Seq(Component) /\ IsNormalForm(target)
    BY DEF Typed
  <1>2. Resolve(doc, text) \in Seq(Component) /\ IsNormalForm(Resolve(doc, text))
    BY <1>1, ResolveNormal
  <1>3. CASE MoveDocument
    <2>1. PICK to \in Place :
              doc' = to /\ text' = Rerelativized(text, doc, to) /\ target' = target
      BY <1>3 DEF MoveDocument
    <2>2. text' = text \/ text' = Relative(Dir(to), Resolve(doc, text))
      BY <2>1 DEF Rerelativized
    <2>3. QED
      BY <1>1, <1>2, <2>1, <2>2, RelativeLeads DEF Typed
  <1>4. CASE MoveFile
    <2>1. PICK from \in Place \ {doc}, to \in Place \ {doc, target} :
              /\ text' = Retargeted(text, doc, from, to)
              /\ target' = IF target = from THEN to ELSE target
              /\ doc' = doc
      BY <1>4 DEF MoveFile
    <2>2. text' = text \/ text' = Relative(Dir(doc), to)
      BY <2>1 DEF Retargeted
    <2>3. to \in Seq(Component) /\ IsNormalForm(to)
      BY PlaceIs
    <2>4. target' \in Seq(Component) /\ IsNormalForm(target')
      BY <1>1, <2>1, <2>3
    <2>5. QED
      BY <1>1, <2>1, <2>2, <2>3, <2>4, RelativeLeads DEF Typed
  <1>5. CASE Restyle
    <2> DEFINE to == Resolve(doc, text)
    <2>1. PICK style \in Style : text' = Restyled(text, doc, style) /\ doc' = doc /\ target' = target
      BY <1>5 DEF Restyle
    <2>2. text' = PathText(style, doc, to) /\ style \in {"root", "relative", "canonical"}
      BY <2>1, PlacesAreNormal DEF PathStyle, Restyled
    <2> HIDE DEF to
    <2>3. text' = PathLink(TRUE, to) \/ text' = PathLink(FALSE, to) \/ text' = Relative(Dir(doc), to)
      BY <2>2 DEF PathText
    <2>4. to \in Seq(Component) /\ IsNormalForm(to)
      BY <1>2 DEF to
    <2>5. text'.abs \in BOOLEAN /\ text'.parts \in Seq(Component)
      <3>1. CASE text' = PathLink(TRUE, to) \/ text' = PathLink(FALSE, to)
        <4>1. PICK b \in BOOLEAN : text' = PathLink(b, to)
          BY <3>1
        <4>2. text'.abs = b /\ text'.parts = to
          BY <4>1 DEF PathLink
        <4>3. QED
          BY <2>4, <4>2
      <3>2. CASE text' = Relative(Dir(doc), to)
        BY <1>1, <2>4, <3>2, RelativeLeads
      <3>3. QED
        BY <2>3, <3>1, <3>2
    <2>6. QED
      BY <1>1, <2>1, <2>5 DEF Typed
  <1>6. CASE UNCHANGED vars
    BY <1>1, <1>6 DEF vars, Typed
  <1>7. QED
    BY <1>3, <1>4, <1>5, <1>6 DEF Next

\* Texts and targets are paths in every reachable state, in every style.
THEOREM LinkTyped == Spec => []Typed
  <1>1. Init => Typed
    BY LeadsInit DEF Leads, Typed
  <1>2. Typed /\ [Next]_vars => Typed'
    BY TypedNext
  <1>3. QED
    BY <1>1, <1>2, PTL DEF Spec

\* The type invariant of LinkRewrites.
THEOREM LinkTypeOK == Spec => []TypeOK
  <1>1. Typed => TypeOK
    BY NormalFormKept DEF Typed, TypeOK
  <1>2. QED
    BY <1>1, LinkTyped, PTL

\* Every text that moves and styles come to is resolved as a person reads it
\* (normalize and escapes_root, link.rs 996-1033).
THEOREM LinkPathsAsRead == Spec => []PathsAsRead
  <1>1. Typed => PathsAsRead
    <2>1. SUFFICES ASSUME Typed PROVE PathsAsRead
      OBVIOUS
    <2>2. Dir(doc) \in Seq(Component) /\ text.parts \in Seq(Component) /\ text.abs \in BOOLEAN
      BY <2>1, PlaceIs DEF Typed
    <2>3. Joined \in Seq(Component)
      BY <2>2, ConcatProperties DEF Joined
    <2>4. QED
      BY <2>3, NormalizeReads DEF PathsAsRead
  <1>2. QED
    BY <1>1, LinkTyped, PTL
=============================================================================
