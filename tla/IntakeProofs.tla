---------------------------- MODULE IntakeProofs ----------------------------
(***************************************************************************)
(* What Intake and Founding guarantee for all workspaces, requests and     *)
(* bounds: that prov only adds to what people have, that a plan that was   *)
(* made can be carried out, and that a route that was interrupted is       *)
(* resumed.  A plan is a sequence of steps; it is Ready when each document *)
(* it is to create has a free place, different from those before, below a  *)
(* document that is there or made before.                                  *)
(***************************************************************************)
EXTENDS Founding, FiniteSetTheorems, FunctionTheorems, SequenceTheorems,
        WellFoundedInduction, TLAPS

-----------------------------------------------------------------------------
(* Paths.                                                                  *)

\* A path is a sequence, of whatever, with a last component.
Place(p) == (\E C : p \in Seq(C)) /\ p # <<>>

\* A sequence without its last member.
LEMMA FrontIs ==
    ASSUME NEW C, NEW s \in Seq(C), s # <<>>
    PROVE  /\ Front(s) \in Seq(C) /\ Len(Front(s)) = Len(s) - 1
           /\ \A i \in 1..(Len(s) - 1) : Front(s)[i] = s[i]
  <1>1. Len(s) \in Nat /\ Len(s) # 0
    OBVIOUS
  <1> DEFINE n == Len(s) - 1
  <1>2. n \in Nat /\ \A k \in 1..n : k \in 1..Len(s) /\ s[k] \in C
    BY <1>1
  <1>3. Front(s) = [k \in 1..n |-> s[k]]
    BY <1>1 DEF Front
  <1>4. [k \in 1..n |-> s[k]] \in Seq(C) /\ Len([k \in 1..n |-> s[k]]) = n
    BY <1>2
  <1>5. QED
    BY <1>3, <1>4

\* A sequence with one more member.
LEMMA AppendIs ==
    ASSUME NEW s, NEW C, s \in Seq(C), NEW x
    PROVE  /\ Place(Append(s, x))
           /\ Front(Append(s, x)) = s /\ Last(Append(s, x)) = x
           /\ Len(Append(s, x)) = Len(s) + 1
  <1> DEFINE D == C \cup {x}
             t == Append(s, x)
  <1>0. s \in Seq(D) /\ x \in D
    OBVIOUS
  <1> HIDE DEF D
  <1>1. /\ t \in Seq(D) /\ Len(t) = Len(s) + 1 /\ t[Len(s) + 1] = x
        /\ \A i \in 1..Len(s) : t[i] = s[i]
    BY <1>0
  <1>2. t # <<>> /\ Len(s) \in Nat
    BY <1>0, <1>1
  <1> HIDE DEF t
  <1>3. /\ Front(t) \in Seq(D) /\ Len(Front(t)) = Len(t) - 1
        /\ \A i \in 1..(Len(t) - 1) : Front(t)[i] = t[i]
    BY <1>1, <1>2, FrontIs
  <1>4. Len(t) - 1 = Len(s)
    BY <1>1, <1>2
  <1>5. Front(t) = s
    BY <1>0, <1>1, <1>3, <1>4, SeqEqual
  <1>6. Last(t) = x
    BY <1>1 DEF Last
  <1>7. QED
    BY <1>1, <1>2, <1>5, <1>6 DEF t, Place

\* The directory of a path is a sequence, one shorter.
LEMMA DirIs ==
    ASSUME NEW p, Place(p)
    PROVE  \E C : p \in Seq(C) /\ Dir(p) \in Seq(C) /\ Len(p) \in Nat /\ Len(Dir(p)) = Len(p) - 1
  <1>1. PICK C : p \in Seq(C)
    BY DEF Place
  <1>2. QED
    BY <1>1, FrontIs DEF Place, Dir

\* A path in the directory of another.
LEMMA InDirIs ==
    ASSUME NEW p, Place(p), NEW x
    PROVE  LET q == Append(Dir(p), x)
           IN  /\ Place(q) /\ Dir(q) = Dir(p) /\ Name(q) = x
               /\ Extension(q) = Last(x)
  <1>1. PICK C : p \in Seq(C) /\ Dir(p) \in Seq(C)
    BY DirIs
  <1>2. QED
    BY <1>1, AppendIs DEF Dir, Name, Extension

-----------------------------------------------------------------------------
(* Files.                                                                  *)

\* What prov does to a workspace only adds to it.
Adds(v, w) ==
    \A p \in DOMAIN v :
        /\ p \in DOMAIN w
        /\ v[p].meta => w[p].title = v[p].title
        /\ w[p].content = v[p].content
        /\ v[p].up \subseteq w[p].up /\ v[p].down \subseteq w[p].down

\* Finitely many files, at paths.
Filed(w) == IsFiniteSet(DOMAIN w) /\ \A p \in DOMAIN w : Place(p) /\ IsFile(w[p])

\* A file is its fields.
LEMMA FileIs ==
    \A m, t, u, d, c :
        /\ IsFile(File(m, t, u, d, c))
        /\ File(m, t, u, d, c).meta = m /\ File(m, t, u, d, c).title = t
        /\ File(m, t, u, d, c).up = u /\ File(m, t, u, d, c).down = d
        /\ File(m, t, u, d, c).content = c
  BY DEF File, IsFile

\* A file that lists a child more.
LEMMA ListingIs ==
    \A f, c : /\ IsFile(Listing(f, c))
              /\ Listing(f, c).meta = TRUE /\ Listing(f, c).title = f.title
              /\ Listing(f, c).up = f.up /\ Listing(f, c).down = f.down \cup {c}
              /\ Listing(f, c).content = f.content
  BY DEF Listing, File, IsFile

\* A file that names a parent.
LEMMA NamingIs ==
    \A f, c : /\ IsFile(Naming(f, c))
              /\ Naming(f, c).meta = TRUE /\ Naming(f, c).title = f.title
              /\ Naming(f, c).up = {c} /\ Naming(f, c).down = f.down
              /\ Naming(f, c).content = f.content
  BY DEF Naming, File, IsFile

\* New files over old ones.
LEMMA UpdatedIs ==
    ASSUME NEW f, NEW new
    PROVE  /\ DOMAIN Updated(f, new) = DOMAIN f \cup DOMAIN new
           /\ \A p \in DOMAIN new : Updated(f, new)[p] = new[p]
           /\ \A p \in DOMAIN f \ DOMAIN new : Updated(f, new)[p] = f[p]
  BY DEF Updated

\* The files of a change are few.
LEMMA PairFinite ==
    ASSUME NEW a, NEW b
    PROVE  IsFiniteSet({a}) /\ IsFiniteSet({a, b})
  <1>1. IsFiniteSet({a}) /\ IsFiniteSet({b})
    BY FS_Singleton
  <1>2. {a, b} = {a} \cup {b}
    OBVIOUS
  <1>3. QED
    BY <1>1, <1>2, FS_Union

\* Every mutation: what it leaves, if it is not refused.
Fits(ws, r, new) ==
    /\ ~r.ok => r.file = ws
    /\ Filed(r.file) /\ Adds(ws, r.file)
    /\ DOMAIN r.file = IF r.ok THEN DOMAIN ws \cup new ELSE DOMAIN ws

\* New files that hold what was there: a workspace with them.
LEMMA UpdatedFits ==
    ASSUME NEW ws, Filed(ws), NEW new, Filed(new),
           \A p \in DOMAIN ws \cap DOMAIN new :
               /\ ws[p].meta => new[p].title = ws[p].title
               /\ new[p].content = ws[p].content
               /\ ws[p].up \subseteq new[p].up /\ ws[p].down \subseteq new[p].down
    PROVE  Filed(Updated(ws, new)) /\ Adds(ws, Updated(ws, new))
  <1> DEFINE w == Updated(ws, new)
  <1>1. /\ DOMAIN w = DOMAIN ws \cup DOMAIN new
        /\ \A p \in DOMAIN new : w[p] = new[p]
        /\ \A p \in DOMAIN ws \ DOMAIN new : w[p] = ws[p]
    BY UpdatedIs
  <1>2. IsFiniteSet(DOMAIN ws \cup DOMAIN new)
    BY FS_Union DEF Filed
  <1> HIDE DEF w
  <1>3. Filed(w)
    BY <1>1, <1>2 DEF Filed
  <1>4. Adds(ws, w)
    BY <1>1 DEF Adds
  <1>5. QED
    BY <1>3, <1>4 DEF w

\* A workspace adds to itself.
LEMMA AddsSelf == \A ws : Adds(ws, ws)
  BY DEF Adds

\* The files of a new document.
NewFiles(ws, path, parent) ==
    {Node(ws, path, parent)} \cup ({path} \ {Node(ws, path, parent)})

\* Where the node of a new document is.
LEMMA NodeIs ==
    ASSUME NEW ws, NEW path, Place(path), NEW parent
    PROVE  Place(Node(ws, path, parent))
  BY InDirIs DEF Node, WithExtension

\* Creating a document only adds, or is refused.
LEMMA CreateFits ==
    ASSUME NEW ws, Filed(ws), NEW path, NEW parent, NEW title,
           Readable(ws, parent) => Place(path)
    PROVE  Fits(ws, Create(ws, path, parent, title), NewFiles(ws, path, parent))
  <1> DEFINE node == Node(ws, path, parent)
             body == {path} \ {node}
             added == [p \in {node, parent} \cup body |->
                    CASE p = node   -> File(TRUE, String(title), {parent}, {}, body)
                      [] p = parent -> Listing(ws[parent], node)
                      [] OTHER      -> Plain]
             ok == Readable(ws, parent) /\ ({node} \cup body) \cap DOMAIN ws = {}
             r == Create(ws, path, parent, title)
  <1>1. r = IF ok THEN Done(Updated(ws, added)) ELSE Refused(ws)
    BY DEF Create
  <1>0. NewFiles(ws, path, parent) = {node} \cup body
    BY DEF NewFiles
  <1>2. CASE ~ok
    BY <1>1, <1>2, AddsSelf DEF Fits, Refused
  <1>3. CASE ok
    <2>1. parent \in DOMAIN ws /\ node \notin DOMAIN ws /\ body \cap DOMAIN ws = {}
      BY <1>3 DEF Readable
    <2>2. Place(node) /\ Place(parent) /\ \A p \in body : Place(p)
      BY <1>3, <2>1, NodeIs DEF Filed
    <2>3. /\ DOMAIN added = {node, parent} \cup body
          /\ added[node] = File(TRUE, String(title), {parent}, {}, body)
          /\ added[parent] = Listing(ws[parent], node)
          /\ \A p \in body : added[p] = Plain
      BY <2>1
    <2>4. IsFiniteSet(DOMAIN added)
      <3>1. IsFiniteSet({node, parent}) /\ IsFiniteSet({path})
        BY PairFinite
      <3>2. IsFiniteSet(body)
        BY <3>1, FS_Subset
      <3>3. QED
        BY <2>3, <3>1, <3>2, FS_Union
    <2> HIDE DEF added, body, node
    <2>5. IsFile(added[node]) /\ IsFile(added[parent]) /\ IsFile(Plain)
      <3>1. IsFile(added[node])
        <4>1. IsFile(File(TRUE, String(title), {parent}, {}, body))
          BY FileIs
        <4>2. QED
          BY <2>3, <4>1
      <3>2. IsFile(added[parent])
        BY <2>3, ListingIs
      <3>3. IsFile(Plain)
        BY FileIs DEF Plain
      <3>4. QED
        BY <3>1, <3>2, <3>3
    <2>6. Filed(added)
      BY <2>2, <2>3, <2>4, <2>5 DEF Filed
    <2>7. /\ added[parent].title = ws[parent].title
          /\ added[parent].content = ws[parent].content
          /\ added[parent].up = ws[parent].up
          /\ added[parent].down = ws[parent].down \cup {node}
      BY <2>3, ListingIs
    <2>8. DOMAIN ws \cap DOMAIN added = {parent}
      BY <2>1, <2>3
    <2>9. Filed(Updated(ws, added)) /\ Adds(ws, Updated(ws, added))
      BY <2>6, <2>7, <2>8, UpdatedFits
    <2>10. DOMAIN Updated(ws, added) = DOMAIN ws \cup NewFiles(ws, path, parent)
      <3>1. DOMAIN Updated(ws, added) = DOMAIN ws \cup DOMAIN added
        BY UpdatedIs
      <3>2. DOMAIN Updated(ws, added) = DOMAIN ws \cup ({node} \cup body)
        BY <2>1, <2>3, <3>1
      <3>3. QED
        BY <1>0, <3>2
    <2>11. QED
      BY <1>1, <1>3, <2>9, <2>10 DEF Fits, Done
  <1>4. QED
    BY <1>2, <1>3

\* Adopting one only adds, or is refused.
LEMMA AdoptFits ==
    ASSUME NEW ws, Filed(ws), NEW child, NEW parent
    PROVE  Fits(ws, Adopt(ws, child, parent), {})
  <1> DEFINE ok == /\ child # parent
                   /\ Readable(ws, child) /\ Readable(ws, parent)
                   /\ ws[child].up = {} \/ parent \in ws[child].up
             w == [p \in DOMAIN ws |->
                  CASE p = child /\ ws[p].up = {}             -> Naming(ws[p], parent)
                    [] p = parent /\ child \notin ws[p].down  -> Listing(ws[p], child)
                    [] OTHER                                  -> ws[p]]
             r == Adopt(ws, child, parent)
  <1>1. r = IF ok THEN Done(w) ELSE Refused(ws)
    BY DEF Adopt
  <1>2. CASE ~ok
    BY <1>1, <1>2, AddsSelf DEF Fits, Refused
  <1>3. CASE ok
    <2>1. DOMAIN w = DOMAIN ws
      OBVIOUS
    <2>2. ASSUME NEW p \in DOMAIN ws
          PROVE  \/ w[p] = ws[p]
                 \/ w[p] = Listing(ws[p], child)
                 \/ w[p] = Naming(ws[p], parent) /\ ws[p].up = {}
      BY <1>3
    <2> HIDE DEF w
    <2>3. ASSUME NEW p \in DOMAIN ws
          PROVE  /\ IsFile(w[p])
                 /\ w[p].title = ws[p].title /\ w[p].content = ws[p].content
                 /\ ws[p].up \subseteq w[p].up /\ ws[p].down \subseteq w[p].down
      <3>1. CASE w[p] = ws[p]
        BY <3>1 DEF Filed
      <3>2. CASE w[p] = Listing(ws[p], child)
        BY <3>2, ListingIs
      <3>3. CASE w[p] = Naming(ws[p], parent) /\ ws[p].up = {}
        BY <3>3, NamingIs
      <3>4. QED
        BY <2>2, <3>1, <3>2, <3>3
    <2>4. Filed(w) /\ Adds(ws, w)
      BY <2>1, <2>3 DEF Filed, Adds
    <2>5. QED
      BY <1>1, <1>3, <2>1, <2>4 DEF Fits, Done
  <1>4. QED
    BY <1>2, <1>3

\* Attaching a payload only adds, or is refused.
LEMMA AttachFits ==
    ASSUME NEW ws, Filed(ws), NEW q, NEW parent
    PROVE  Fits(ws, Attach(ws, q, parent), {SidecarPath(q)})
  <1> DEFINE node == SidecarPath(q)
             doc == File(TRUE, String(Titled[Stem(q)[1]]), {parent}, {}, {q})
             ok == /\ q \in DOMAIN ws /\ Opaque(q)
                   /\ node \notin DOMAIN ws
                   /\ Readable(ws, parent)
             added == [p \in {node, parent} |->
                          IF p = node THEN doc ELSE Listing(ws[p], node)]
             r == Attach(ws, q, parent)
  <1>1. r = IF ok THEN Done(Updated(ws, added)) ELSE Refused(ws)
    BY DEF Attach
  <1>2. CASE ~ok
    BY <1>1, <1>2, AddsSelf DEF Fits, Refused
  <1>3. CASE ok
    <2>1. parent \in DOMAIN ws /\ node \notin DOMAIN ws /\ q \in DOMAIN ws
      BY <1>3 DEF Readable
    <2>2. Place(node) /\ Place(parent)
      BY <2>1, InDirIs DEF Filed, SidecarPath
    <2>3. /\ DOMAIN added = {node, parent}
          /\ added[node] = doc
          /\ added[parent] = Listing(ws[parent], node)
      BY <2>1
    <2>4. IsFiniteSet(DOMAIN added)
      BY <2>3, PairFinite
    <2>5. IsFile(doc)
      BY FileIs
    <2> HIDE DEF added, doc
    <2>6. IsFile(added[node]) /\ IsFile(added[parent])
      BY <2>3, <2>5, ListingIs
    <2>7. Filed(added)
      BY <2>2, <2>3, <2>4, <2>6 DEF Filed
    <2>8. /\ added[parent].title = ws[parent].title
          /\ added[parent].content = ws[parent].content
          /\ added[parent].up = ws[parent].up
          /\ added[parent].down = ws[parent].down \cup {node}
      BY <2>3, ListingIs
    <2>9. DOMAIN ws \cap DOMAIN added = {parent}
      BY <2>1, <2>3
    <2>10. Filed(Updated(ws, added)) /\ Adds(ws, Updated(ws, added))
      BY <2>7, <2>8, <2>9, UpdatedFits
    <2>11. DOMAIN Updated(ws, added) = DOMAIN ws \cup {node}
      BY ZenonT(30), <2>1, <2>3, UpdatedIs
    <2>12. QED
      BY <1>1, <1>3, <2>10, <2>11 DEF Fits, Done
  <1>4. QED
    BY <1>2, <1>3

\* Numbers have a least one.
LEMMA Least ==
    ASSUME NEW S, S \subseteq Nat, S # {}
    PROVE  \E m \in S : \A k \in S : m <= k
  <1> DEFINE R == {ss \in Nat \X Nat : ss[1] < ss[2]}
  <1>1. IsWellFoundedOn(R, Nat)
    BY NatLessThanWellFounded DEF OpToRel
  <1>2. PICK m \in S : \A k \in S : ~(<<k, m>> \in R)
    BY <1>1, WFMin
  <1>3. \A k \in S : ~(k < m)
    BY <1>2
  <1>4. QED
    BY <1>3

\* S holds every number up to n, if it holds 0 and with each the next.
LEMMA Upto ==
    ASSUME NEW n \in Nat, NEW S, 0 \in S, \A k \in 1..n : k - 1 \in S => k \in S
    PROVE  \A k \in 0..n : k \in S
  <1> DEFINE T == {k \in 0..n : k \notin S}
  <1>1. SUFFICES ASSUME T # {} PROVE FALSE
    OBVIOUS
  <1>2. T \subseteq Nat
    OBVIOUS
  <1> HIDE DEF T
  <1>3. PICK m \in T : \A k \in T : m <= k
    BY <1>1, <1>2, Least
  <1>4. m \in 0..n /\ m \notin S /\ m # 0
    BY DEF T
  <1>5. m \in 1..n /\ m - 1 \in 0..n /\ ~(m <= m - 1)
    BY <1>4
  <1>6. m - 1 \in S
    BY <1>3, <1>5 DEF T
  <1>7. QED
    BY <1>4, <1>5, <1>6

\* A sequence, of whatever.
IsSeq(s) == \E C : s \in Seq(C)

\* A sequence has a length, and its positions are the numbers up to it.
LEMMA SeqIs ==
    ASSUME NEW s, IsSeq(s)
    PROVE  Len(s) \in Nat /\ DOMAIN s = 1..Len(s)
  <1>1. PICK C : s \in Seq(C)
    BY DEF IsSeq
  <1>2. QED
    BY <1>1

\* A sequence with one more, and a sequence of one.
LEMMA SeqAppend ==
    ASSUME NEW s, IsSeq(s), NEW x
    PROVE  IsSeq(Append(s, x)) /\ IsSeq(<<x>>)
  <1>1. PICK C : s \in Seq(C)
    BY DEF IsSeq
  <1>2. s \in Seq(C \cup {x}) /\ x \in C \cup {x}
    BY <1>1
  <1>3. Append(s, x) \in Seq(C \cup {x}) /\ <<x>> \in Seq({x})
    BY <1>2
  <1>4. QED
    BY <1>3 DEF IsSeq

\* One sequence after another.
LEMMA SeqCat ==
    ASSUME NEW s, IsSeq(s), NEW t, IsSeq(t)
    PROVE  /\ IsSeq(s \o t) /\ Len(s \o t) = Len(s) + Len(t)
           /\ \A k \in 1..Len(s) : (s \o t)[k] = s[k]
           /\ \A k \in 1..Len(t) : (s \o t)[Len(s) + k] = t[k]
           /\ \A k \in 1..Len(s \o t) : k \in 1..Len(s) \/ k - Len(s) \in 1..Len(t)
  <1>1. PICK C : s \in Seq(C)
    BY DEF IsSeq
  <1>2. PICK D : t \in Seq(D)
    BY DEF IsSeq
  <1>3. s \in Seq(C \cup D) /\ t \in Seq(C \cup D)
    BY <1>1, <1>2
  <1>4. s \o t \in Seq(C \cup D)
    BY <1>3, ConcatProperties
  <1>5. /\ Len(s \o t) = Len(s) + Len(t)
        /\ \A k \in 1..Len(s) : (s \o t)[k] = s[k]
        /\ \A k \in 1..Len(t) : (s \o t)[Len(s) + k] = t[k]
    BY <1>3
  <1>6. Len(s) \in Nat /\ Len(t) \in Nat
    BY <1>3
  <1>7. IsSeq(s \o t)
    BY <1>4 DEF IsSeq
  <1>8. \A k \in 1..Len(s \o t) : k \in 1..Len(s) \/ k - Len(s) \in 1..Len(t)
    BY <1>5, <1>6
  <1>9. QED
    BY <1>5, <1>7, <1>8

\* A sequence of a set is of its members.
LEMMA SetToSeqIs ==
    ASSUME NEW S, IsFiniteSet(S)
    PROVE  /\ Cardinality(S) \in Nat
           /\ \A i \in 1..Cardinality(S) : SetToSeq(S)[i] \in S
  <1>1. Cardinality(S) \in Nat /\ ExistsBijection(1..Cardinality(S), S)
    BY FS_CardinalityType
  <1>2. PICK g : g \in Bijection(1..Cardinality(S), S)
    BY <1>1 DEF ExistsBijection
  <1>3. g \in [1..Cardinality(S) -> S] /\ IsInjective(g)
    BY <1>2 DEF Bijection, Injection, Surjection, IsInjective
  <1>4. SetToSeq(S) \in [1..Cardinality(S) -> S]
    BY <1>3 DEF SetToSeq
  <1>5. QED
    BY <1>1, <1>4

\* The values of a function on finitely many arguments.
LEMMA ImageFinite ==
    ASSUME NEW S, IsFiniteSet(S), NEW f
    PROVE  IsFiniteSet({f[x] : x \in S})
  <1> DEFINE T == {f[x] : x \in S}
             g == [x \in S |-> f[x]]
  <1>1. g \in Surjection(S, T)
    BY DEF Surjection
  <1>2. QED
    BY <1>1, FS_Surjection

\* The members of a finite set, in the order of their lengths.
Sorted(s, T) ==
    /\ s \in [1..Cardinality(T) -> T]
    /\ \A i, j \in 1..Cardinality(T) : i # j => s[i] # s[j]
    /\ \A i, j \in 1..Cardinality(T) : i < j => Len(s[i]) <= Len(s[j])

\* There is such an order.
LEMMA SortedIs ==
    ASSUME NEW S, IsFiniteSet(S), \A d \in S : Len(d) \in Nat
    PROVE  \E s : Sorted(s, S)
  <1> DEFINE N == {n \in Nat : \A T \in SUBSET S : Cardinality(T) = n => \E s : Sorted(s, T)}
  <1>0. \A T \in SUBSET S : IsFiniteSet(T) /\ Cardinality(T) \in Nat
    BY FS_Subset, FS_CardinalityType
  <1>1. 0 \in N
    <2> SUFFICES ASSUME NEW T \in SUBSET S, Cardinality(T) = 0 PROVE \E s : Sorted(s, T)
      OBVIOUS
    <2>1. T = {}
      BY <1>0, FS_EmptySet
    <2>2. Sorted([i \in 1..0 |-> 0], T)
      BY <2>1 DEF Sorted
    <2>3. QED
      BY <2>2
  <1>2. ASSUME NEW m \in Nat, m # 0, m - 1 \in N PROVE m \in N
    <2> SUFFICES ASSUME NEW T \in SUBSET S, Cardinality(T) = m PROVE \E s : Sorted(s, T)
      OBVIOUS
    <2>1. T # {}
      BY <1>2, <1>0, FS_EmptySet
    <2>2. PICK d \in T : \A e \in T : Len(d) <= Len(e)
      <3> DEFINE L == {Len(e) : e \in T}
      <3>1. L \subseteq Nat /\ L # {}
        BY <2>1
      <3>2. PICK k \in L : \A l \in L : k <= l
        BY <3>1, Least
      <3>3. QED
        BY <3>2
    <2> DEFINE U == T \ {d}
    <2>3. U \in SUBSET S /\ Cardinality(U) = m - 1
      BY <1>0, FS_RemoveElement
    <2>4. PICK t : Sorted(t, U)
      BY <1>2, <2>3
    <2> DEFINE s == [k \in 1..m |-> IF k = 1 THEN d ELSE t[k - 1]]
    <2>5. /\ t \in [1..(m - 1) -> U]
          /\ \A i, j \in 1..(m - 1) : i # j => t[i] # t[j]
          /\ \A i, j \in 1..(m - 1) : i < j => Len(t[i]) <= Len(t[j])
      BY <2>3, <2>4 DEF Sorted
    <2>6. \A k \in 1..m : k # 1 => k - 1 \in 1..(m - 1)
      BY <1>2
    <2>7. \A k \in 1..m : k # 1 => s[k] \in U /\ s[k] = t[k - 1]
      BY <2>5, <2>6
    <2>8. s[1] = d /\ 1 \in 1..m
      BY <1>2
    <2>9. s \in [1..m -> T]
      BY <2>7, <2>8
    <2>10. \A i, j \in 1..m : i # j => s[i] # s[j]
      <3> SUFFICES ASSUME NEW i \in 1..m, NEW j \in 1..m, i # j PROVE s[i] # s[j]
        OBVIOUS
      <3>1. CASE i = 1 \/ j = 1
        BY <2>7, <2>8, <3>1
      <3>2. CASE i # 1 /\ j # 1
        <4>1. i - 1 \in 1..(m - 1) /\ j - 1 \in 1..(m - 1) /\ i - 1 # j - 1
          BY <2>6, <3>2
        <4>2. QED
          BY <2>5, <2>7, <3>2, <4>1
      <3>3. QED
        BY <3>1, <3>2
    <2>11. \A i, j \in 1..m : i < j => Len(s[i]) <= Len(s[j])
      <3> SUFFICES ASSUME NEW i \in 1..m, NEW j \in 1..m, i < j PROVE Len(s[i]) <= Len(s[j])
        OBVIOUS
      <3>1. CASE i = 1
        BY <2>2, <2>8, <2>9, <3>1
      <3>2. CASE i # 1
        <4>1. i - 1 \in 1..(m - 1) /\ j - 1 \in 1..(m - 1) /\ i - 1 < j - 1 /\ j # 1
          BY <2>6, <3>2
        <4>2. QED
          BY <2>5, <2>7, <3>2, <4>1
      <3>3. QED
        BY <3>1, <3>2
    <2> HIDE DEF s, U
    <2>12. Sorted(s, T)
      BY <2>9, <2>10, <2>11 DEF Sorted
    <2>13. QED
      BY <2>12
  <1> HIDE DEF N
  <1>3. Cardinality(S) \in Nat
    BY FS_CardinalityType
  <1>4. \A k \in 0..Cardinality(S) : k \in N
    BY <1>1, <1>2, <1>3, Upto
  <1>5. QED
    BY <1>3, <1>4 DEF N

\* ByDepth is one, and has each directory at some place.
LEMMA ByDepthIs ==
    ASSUME NEW S, IsFiniteSet(S), \A d \in S : Len(d) \in Nat
    PROVE  /\ Sorted(ByDepth(S), S) /\ Cardinality(S) \in Nat
           /\ \A d \in S : \E i \in 1..Cardinality(S) : ByDepth(S)[i] = d
           /\ DOMAIN ByDepth(S) = 1..Cardinality(S)
  <1>1. PICK s : Sorted(s, S)
    BY SortedIs
  <1>2. s \in SetToSeqs(S) /\ DOMAIN s = 1..Cardinality(S)
    BY <1>1 DEF Sorted, SetToSeqs
  <1>3. \A i, j \in DOMAIN s : i < j => Len(s[i]) <= Len(s[j])
    BY <1>1, <1>2 DEF Sorted
  <1>4. /\ ByDepth(S) \in SetToSeqs(S)
        /\ \A i, j \in DOMAIN ByDepth(S) : i < j => Len(ByDepth(S)[i]) <= Len(ByDepth(S)[j])
    BY <1>2, <1>3 DEF ByDepth
  <1>5. Sorted(ByDepth(S), S)
    BY <1>4 DEF Sorted, SetToSeqs
  <1>6. ByDepth(S) \in Injection(1..Cardinality(S), S)
    BY <1>5 DEF Sorted, Injection, IsInjective
  <1>7. Cardinality(S) \in Nat
    BY FS_CardinalityType
  <1>8. Cardinality(1..Cardinality(S)) = Cardinality(S)
    BY <1>7, FS_Interval
  <1>9. ByDepth(S) \in Surjection(1..Cardinality(S), S)
    BY <1>6, <1>8, FS_Injection
  <1>10. QED
    BY <1>5, <1>7, <1>9 DEF Surjection, Sorted

-----------------------------------------------------------------------------
(* Steps.                                                                  *)

\* Where a sequence of a finite set's members has no more than they.
LEMMA SeqOfSet ==
    ASSUME NEW S, IsFiniteSet(S)
    PROVE  /\ IsSeq(SetToSeq(S))
           /\ \A i \in DOMAIN SetToSeq(S) : SetToSeq(S)[i] \in S
  <1>1. Cardinality(S) \in Nat /\ ExistsBijection(1..Cardinality(S), S)
    BY FS_CardinalityType
  <1>2. PICK g : g \in Bijection(1..Cardinality(S), S)
    BY <1>1 DEF ExistsBijection
  <1>3. g \in [1..Cardinality(S) -> S] /\ IsInjective(g)
    BY <1>2 DEF Bijection, Injection, Surjection, IsInjective
  <1>4. SetToSeq(S) \in [1..Cardinality(S) -> S]
    BY <1>3 DEF SetToSeq
  <1>5. SetToSeq(S) \in Seq(S)
    BY <1>1, <1>4
  <1>6. QED
    BY <1>4, <1>5 DEF IsSeq

Moves == {"create", "adopt", "attach", "leaf"}
Early == {"write", "point", "survey"}

\* What prov has still to do.
Typed(todo) ==
    /\ IsSeq(todo)
    /\ \A i \in DOMAIN todo : /\ todo[i].do \in Moves \cup Early
                              /\ todo[i].do \in {"create", "write"} => Place(todo[i].path)

\* A document can be created at path below under, as a file of its own.
Under(ws, path, under) ==
    /\ Readable(ws, under)
    /\ WholeFile(path) \/ ~WholeFile(under) \/ ws[under].content = {}

\* What is to be created can be, one after the other.
Ready(ws, todo) ==
    \A i \in DOMAIN todo : todo[i].do = "create" =>
        /\ todo[i].path \notin DOMAIN ws /\ ~Opaque(todo[i].path)
        /\ \A j \in 1..(i - 1) : todo[j].do = "create" /\ todo[j].path # todo[i].path
        /\ \/ Under(ws, todo[i].path, todo[i].under)
           \/ \E j \in 1..(i - 1) : todo[j].path = todo[i].under

\* The document of a directory that has none.
Stub(d, ext) == Append(d, <<"index", ext>>)

\* First a document for every bare directory, then what is to be linked.
Stubs(todo, bare, ext, above) ==
    /\ IsFiniteSet(bare) /\ \A d \in bare : \E C : d \in Seq(C)
    /\ IsSeq(todo) /\ Cardinality(bare) <= Len(todo)
    /\ \E title : \A i \in 1..Cardinality(bare) :
          LET d == ByDepth(bare)[i]
          IN  todo[i] = Step("create", Stub(d, ext), above[d], title[d])
    /\ \A i \in DOMAIN todo : i \notin 1..Cardinality(bare) => todo[i].do \in {"adopt", "attach"}

\* More to be linked changes nothing of that.
LEMMA StubsMore ==
    ASSUME NEW todo, NEW bare, NEW ext, NEW above, Stubs(todo, bare, ext, above),
           NEW more, IsSeq(more), \A i \in DOMAIN more : more[i].do \in {"adopt", "attach"}
    PROVE  Stubs(todo \o more, bare, ext, above)
  <1>1. IsSeq(todo) /\ Len(todo) \in Nat /\ Len(more) \in Nat
        /\ DOMAIN todo = 1..Len(todo) /\ DOMAIN more = 1..Len(more)
    BY SeqIs DEF Stubs
  <1>2. Cardinality(bare) \in Nat /\ Cardinality(bare) <= Len(todo)
    BY FS_CardinalityType DEF Stubs
  <1> DEFINE t == todo \o more
  <1>3. /\ IsSeq(t) /\ Len(t) = Len(todo) + Len(more)
        /\ \A k \in 1..Len(todo) : t[k] = todo[k]
        /\ \A k \in 1..Len(more) : t[Len(todo) + k] = more[k]
        /\ \A k \in 1..Len(t) : k \in 1..Len(todo) \/ k - Len(todo) \in 1..Len(more)
    BY <1>1, SeqCat
  <1> HIDE DEF t
  <1>4. DOMAIN t = 1..Len(t)
    BY <1>3, SeqIs
  <1>5. ASSUME NEW i \in DOMAIN t, i \notin 1..Cardinality(bare)
        PROVE  t[i].do \in {"adopt", "attach"}
    <2>1. CASE i \in 1..Len(todo)
      BY <1>1, <1>3, <1>5, <2>1 DEF Stubs
    <2>2. CASE i - Len(todo) \in 1..Len(more)
      <3>1. t[Len(todo) + (i - Len(todo))] = more[i - Len(todo)] /\ Len(todo) + (i - Len(todo)) = i
        BY <1>1, <1>3, <1>4, <2>2
      <3>2. QED
        BY <1>1, <2>2, <3>1
    <2>3. QED
      BY <1>3, <1>4, <2>1, <2>2
  <1>6. PICK title : \A i \in 1..Cardinality(bare) :
          todo[i] = Step("create", Stub(ByDepth(bare)[i], ext), above[ByDepth(bare)[i]],
                         title[ByDepth(bare)[i]])
    BY DEF Stubs
  <1>7. \A i \in 1..Cardinality(bare) : i \in 1..Len(todo)
    BY <1>1, <1>2
  <1>8. \A i \in 1..Cardinality(bare) :
          t[i] = Step("create", Stub(ByDepth(bare)[i], ext), above[ByDepth(bare)[i]],
                      title[ByDepth(bare)[i]])
    BY <1>3, <1>6, <1>7
  <1>9. Cardinality(bare) <= Len(t)
    BY <1>1, <1>2, <1>3
  <1>10. IsFiniteSet(bare) /\ \A d \in bare : \E C : d \in Seq(C)
    BY DEF Stubs
  <1>11. Stubs(t, bare, ext, above)
    BY <1>3, <1>5, <1>8, <1>9, <1>10 DEF Stubs
  <1>12. QED
    BY <1>11 DEF t

\* A step is its fields.
LEMMA StepIs ==
    \A do, path, under, title :
        LET s == Step(do, path, under, title)
        IN  s.do = do /\ s.path = path /\ s.under = under /\ s.title = title
  BY DEF Step

\* What stubs are.
LEMMA StubsAre ==
    ASSUME NEW todo, NEW bare, NEW ext, NEW above, Stubs(todo, bare, ext, above)
    PROVE  /\ Cardinality(bare) \in Nat /\ Sorted(ByDepth(bare), bare)
           /\ Len(todo) \in Nat /\ DOMAIN todo = 1..Len(todo)
           /\ \A d \in bare : \E i \in 1..Cardinality(bare) : ByDepth(bare)[i] = d
           /\ \A i \in 1..Cardinality(bare) :
                 /\ ByDepth(bare)[i] \in bare
                 /\ todo[i].do = "create"
                 /\ todo[i].path = Stub(ByDepth(bare)[i], ext)
                 /\ todo[i].under = above[ByDepth(bare)[i]]
  <1>1. IsFiniteSet(bare) /\ \A d \in bare : Len(d) \in Nat
    <2>1. ASSUME NEW d \in bare PROVE Len(d) \in Nat
      <3>1. PICK C : d \in Seq(C)
        BY DEF Stubs
      <3>2. QED
        BY <3>1
    <2>2. QED
      BY <2>1 DEF Stubs
  <1>2. /\ Sorted(ByDepth(bare), bare) /\ Cardinality(bare) \in Nat
        /\ \A d \in bare : \E i \in 1..Cardinality(bare) : ByDepth(bare)[i] = d
    BY <1>1, ByDepthIs
  <1>3. PICK title : \A i \in 1..Cardinality(bare) :
          todo[i] = Step("create", Stub(ByDepth(bare)[i], ext), above[ByDepth(bare)[i]],
                         title[ByDepth(bare)[i]])
    BY DEF Stubs
  <1>4. \A i \in 1..Cardinality(bare) :
           /\ todo[i].do = "create"
           /\ todo[i].path = Stub(ByDepth(bare)[i], ext)
           /\ todo[i].under = above[ByDepth(bare)[i]]
    BY <1>3, StepIs
  <1>5. \A i \in 1..Cardinality(bare) : ByDepth(bare)[i] \in bare
    BY <1>2 DEF Sorted
  <1>6. Len(todo) \in Nat /\ DOMAIN todo = 1..Len(todo)
    BY SeqIs DEF Stubs
  <1>7. QED
    BY <1>2, <1>4, <1>5, <1>6

\* A stub is a step that creates.
LEMMA StubIs ==
    ASSUME NEW d, NEW C, d \in Seq(C), NEW ext
    PROVE  /\ Place(Stub(d, ext)) /\ Dir(Stub(d, ext)) = d
           /\ Extension(Stub(d, ext)) = ext /\ Name(Stub(d, ext)) = <<"index", ext>>
  BY AppendIs DEF Stub, Dir, Name, Extension, Last

\* Stubs are steps to be taken in.
LEMMA StubsTyped ==
    ASSUME NEW todo, NEW bare, NEW ext, NEW above, Stubs(todo, bare, ext, above)
    PROVE  Typed(todo) /\ \A i \in DOMAIN todo : todo[i].do \in Moves
  <1>1. ASSUME NEW i \in DOMAIN todo
        PROVE  /\ todo[i].do \in {"create", "adopt", "attach"}
               /\ todo[i].do = "create" => Place(todo[i].path)
    <2>1. CASE i \in 1..Cardinality(bare)
      <3>1. ByDepth(bare)[i] \in bare /\ todo[i].path = Stub(ByDepth(bare)[i], ext)
            /\ todo[i].do = "create"
        BY <2>1, StubsAre
      <3>2. PICK C : ByDepth(bare)[i] \in Seq(C)
        BY <3>1 DEF Stubs
      <3>3. QED
        BY <3>1, <3>2, StubIs
    <2>2. CASE i \notin 1..Cardinality(bare)
      BY <2>2 DEF Stubs
    <2>3. QED
      BY <2>1, <2>2
  <1>2. QED
    BY <1>1 DEF Typed, Moves, Stubs

\* Where nothing is at the documents to be made, and each goes below a file
\* that is there or one to be made for the directory above.
LEMMA StubsReady ==
    ASSUME NEW todo, NEW bare, NEW ext, NEW above, Stubs(todo, bare, ext, above),
           NEW ws, ext = "md",
           \A d \in bare : d # <<>> /\ Stub(d, ext) \notin DOMAIN ws,
           \A d \in bare : \/ Under(ws, Stub(d, ext), above[d])
                           \/ Front(d) \in bare /\ above[d] = Stub(Front(d), ext)
    PROVE  Ready(ws, todo)
  <1> DEFINE s == ByDepth(bare)
             n == Cardinality(bare)
  <1>1. /\ n \in Nat /\ Sorted(s, bare) /\ Len(todo) \in Nat /\ DOMAIN todo = 1..Len(todo)
        /\ \A d \in bare : \E i \in 1..n : s[i] = d
        /\ \A i \in 1..n : /\ s[i] \in bare /\ todo[i].do = "create"
                           /\ todo[i].path = Stub(s[i], ext)
                           /\ todo[i].under = above[s[i]]
    BY StubsAre
  <1> HIDE DEF s, n
  <1>2. ASSUME NEW d \in bare
        PROVE  /\ ~Opaque(Stub(d, ext)) /\ Dir(Stub(d, ext)) = d
               /\ Len(d) \in Nat /\ Len(Front(d)) = Len(d) - 1
    <2>1. PICK C : d \in Seq(C)
      BY DEF Stubs
    <2>2. Extension(Stub(d, ext)) = "md" /\ Dir(Stub(d, ext)) = d
      BY <2>1, StubIs
    <2>3. Len(d) \in Nat /\ Len(Front(d)) = Len(d) - 1
      BY <2>1, FrontIs
    <2>4. QED
      BY <2>2, <2>3 DEF Opaque, Content
  <1>3. SUFFICES ASSUME NEW i \in DOMAIN todo, todo[i].do = "create"
                 PROVE  /\ todo[i].path \notin DOMAIN ws /\ ~Opaque(todo[i].path)
                        /\ \A j \in 1..(i - 1) : todo[j].do = "create" /\ todo[j].path # todo[i].path
                        /\ \/ Under(ws, todo[i].path, todo[i].under)
                           \/ \E j \in 1..(i - 1) : todo[j].path = todo[i].under
    BY DEF Ready
  <1>4. i \in 1..n
    BY <1>3 DEF Stubs, n
  <1>5. todo[i].path \notin DOMAIN ws /\ ~Opaque(todo[i].path)
    BY <1>1, <1>2, <1>4
  <1>6. ASSUME NEW j \in 1..(i - 1) PROVE todo[j].do = "create" /\ todo[j].path # todo[i].path
    <2>1. j \in 1..n /\ j # i
      BY <1>1, <1>4
    <2>2. s[j] # s[i]
      BY <1>1, <1>4, <2>1 DEF Sorted, n
    <2>3. QED
      BY <1>1, <1>2, <1>4, <2>1, <2>2
  <1>7. ASSUME ~Under(ws, todo[i].path, todo[i].under)
        PROVE  \E j \in 1..(i - 1) : todo[j].path = todo[i].under
    <2>1. Front(s[i]) \in bare /\ above[s[i]] = Stub(Front(s[i]), ext)
      BY <1>1, <1>4, <1>7
    <2>2. PICK j \in 1..n : s[j] = Front(s[i])
      BY <1>1, <2>1
    <2>3. Len(s[j]) < Len(s[i])
      BY <1>1, <1>2, <1>4, <2>1, <2>2
    <2>4. Len(s[j]) \in Nat /\ Len(s[i]) \in Nat
      BY <1>1, <1>2, <1>4
    <2>5. ~(i < j) /\ i # j
      BY <1>1, <1>4, <2>3, <2>4 DEF Sorted, n
    <2>6. j \in 1..(i - 1)
      BY <1>1, <1>4, <2>5
    <2>7. QED
      BY <1>1, <1>4, <2>1, <2>2, <2>6
  <1>8. QED
    BY <1>5, <1>6, <1>7

-----------------------------------------------------------------------------
(* The directories of files, and the documents these have.                 *)

\* The directories of finitely many files are finitely many, and each is in
\* one of them.
LEMMA DirectoriesAre ==
    ASSUME NEW files, IsFiniteSet(files), \A p \in files : Place(p)
    PROVE  /\ IsFiniteSet(Directories(files))
           /\ \A d \in Directories(files) : \E C : d \in Seq(C)
           /\ \A d \in Directories(files) : d # <<>> => Front(d) \in Directories(files)
  <1> DEFINE dirs(p) == {SubSeq(p, 1, k) : k \in 0..(Len(p) - 1)}
             f == [p \in files |-> dirs(p)]
  <1>1. Directories(files) = UNION {f[p] : p \in files}
    BY DEF Directories
  <1>2. ASSUME NEW p \in files PROVE IsFiniteSet(f[p]) /\ Len(p) \in Nat
    <2>1. PICK C : p \in Seq(C)
      BY DEF Place
    <2> DEFINE S == 0..(Len(p) - 1)
               g == [k \in S |-> SubSeq(p, 1, k)]
    <2>2. IsFiniteSet(S)
      BY <2>1, FS_Interval
    <2>3. IsFiniteSet({g[k] : k \in S})
      <3> HIDE DEF S, g
      <3>1. QED
        BY <2>2, ImageFinite
    <2>4. f[p] = {g[k] : k \in S}
      OBVIOUS
    <2>5. Len(p) \in Nat
      BY <2>1
    <2> HIDE DEF f, S, g
    <2>6. QED
      BY <2>3, <2>4, <2>5
  <1>3. IsFiniteSet({f[p] : p \in files})
    <2> HIDE DEF f
    <2>1. QED
      BY ImageFinite
  <1>4. IsFiniteSet(UNION {f[p] : p \in files})
    <2> HIDE DEF f
    <2>1. \A x \in {f[p] : p \in files} : IsFiniteSet(x)
      BY <1>2
    <2>2. QED
      BY <1>3, <2>1, FS_UNION
  <1>5. ASSUME NEW d \in Directories(files)
        PROVE  (\E C : d \in Seq(C)) /\ (d # <<>> => Front(d) \in Directories(files))
    <2>1. PICK p \in files : \E k \in 0..(Len(p) - 1) : d = SubSeq(p, 1, k)
      BY DEF Directories
    <2>2. PICK k \in 0..(Len(p) - 1) : d = SubSeq(p, 1, k)
      BY <2>1
    <2>3. PICK C : p \in Seq(C)
      BY DEF Place
    <2>4. Len(p) \in Nat /\ k \in Nat /\ k <= Len(p)
      BY <2>2, <2>3
    <2>5. d \in Seq(C) /\ Len(d) = k /\ \A i \in 1..k : d[i] = p[i]
      BY <2>2, <2>3, <2>4
    <2>6. CASE d # <<>>
      <3>1. k # 0 /\ k - 1 \in 0..(Len(p) - 1)
        BY <2>2, <2>4, <2>5, <2>6
      <3> DEFINE e == SubSeq(p, 1, k - 1)
      <3>2. e \in Seq(C) /\ Len(e) = k - 1 /\ \A i \in 1..(k - 1) : e[i] = p[i]
        BY <2>3, <2>4, <3>1
      <3>3. /\ Front(d) \in Seq(C) /\ Len(Front(d)) = k - 1
            /\ \A i \in 1..(k - 1) : Front(d)[i] = d[i]
        BY <2>5, <2>6, FrontIs
      <3>4. \A i \in 1..(k - 1) : d[i] = p[i]
        BY <2>4, <2>5, <3>1
      <3>5. e \in Directories(files)
        BY <3>1 DEF Directories
      <3> HIDE DEF e
      <3>6. Front(d) = e
        BY <3>2, <3>3, <3>4, SeqEqual
      <3>7. QED
        BY <2>5, <3>5, <3>6
    <2>7. QED
      BY <2>5, <2>6
  <1>6. QED
    BY <1>1, <1>4, <1>5

\* Where a directory has no document of its own, its index is not there; one
\* that it has is one of the files.
LEMMA OwnIs ==
    ASSUME NEW files, NEW d, \E C : d \in Seq(C), NEW ext
    PROVE  ExistingNode({p \in files : Dir(p) = d}) = {} => Stub(d, ext) \notin files
  <1>1. PICK C : d \in Seq(C)
    OBVIOUS
  <1>2. Dir(Stub(d, ext)) = d /\ Name(Stub(d, ext)) = <<"index", ext>>
    BY <1>1, StubIs
  <1>3. Front(<<"index", ext>>) = <<"index">>
    <2>1. <<"index">> \in Seq({"index"}) /\ <<"index", ext>> = Append(<<"index">>, ext)
      OBVIOUS
    <2>2. QED
      BY <2>1, AppendIs
  <1>4. Stem(Stub(d, ext)) = <<"index">>
    BY <1>2, <1>3 DEF Stem
  <1>5. QED
    BY <1>2, <1>4 DEF ExistingNode

\* It is among them.
LEMMA OwnAmong ==
    \A files, d : ExistingNode({p \in files : Dir(p) = d}) \subseteq files
  BY DEF ExistingNode

-----------------------------------------------------------------------------
(* Plans that make a document for every directory that has none.           *)

\* A plan made of a document for each, and two sets of what is to be linked.
LEMMA StubsPlan ==
    ASSUME NEW bare, IsFiniteSet(bare), \A d \in bare : \E C : d \in Seq(C),
           NEW ext, NEW above, NEW title,
           NEW made,
           DOMAIN made = DOMAIN ByDepth(bare),
           \A k \in DOMAIN made :
               made[k] = Step("create", Stub(ByDepth(bare)[k], ext), above[ByDepth(bare)[k]],
                              title[ByDepth(bare)[k]]),
           made = [k \in DOMAIN made |-> made[k]],
           NEW nodes, IsFiniteSet(nodes), NEW leaves, IsFiniteSet(leaves),
           \A s \in nodes \cup leaves : s.do \in {"adopt", "attach"}
    PROVE  Stubs(made \o SetToSeq(nodes) \o SetToSeq(leaves), bare, ext, above)
  <1>1. \A d \in bare : Len(d) \in Nat
    <2>1. ASSUME NEW d \in bare PROVE Len(d) \in Nat
      <3>1. PICK C : d \in Seq(C)
        OBVIOUS
      <3>2. QED
        BY <3>1
    <2>2. QED
      BY <2>1
  <1>2. Cardinality(bare) \in Nat /\ DOMAIN ByDepth(bare) = 1..Cardinality(bare)
    BY <1>1, ByDepthIs
  <1>3. IsSeq(made) /\ Len(made) = Cardinality(bare)
    <2> DEFINE C == {made[k] : k \in 1..Cardinality(bare)}
    <2>1. made \in [1..Cardinality(bare) -> C]
      BY <1>2
    <2>2. made \in Seq(C) /\ Len(made) = Cardinality(bare)
      <3> HIDE DEF C
      <3>1. QED
        BY <1>2, <2>1
    <2>3. QED
      BY <2>2 DEF IsSeq
  <1>4. Stubs(made, bare, ext, above)
    <2>1. \A i \in 1..Cardinality(bare) :
             made[i] = Step("create", Stub(ByDepth(bare)[i], ext), above[ByDepth(bare)[i]],
                            title[ByDepth(bare)[i]])
      BY <1>2
    <2>2. \A i \in DOMAIN made : i \in 1..Cardinality(bare)
      BY <1>2
    <2>3. QED
      BY <1>2, <1>3, <2>1, <2>2 DEF Stubs
  <1>5. /\ IsSeq(SetToSeq(nodes)) /\ IsSeq(SetToSeq(leaves))
        /\ \A i \in DOMAIN SetToSeq(nodes) : SetToSeq(nodes)[i].do \in {"adopt", "attach"}
        /\ \A i \in DOMAIN SetToSeq(leaves) : SetToSeq(leaves)[i].do \in {"adopt", "attach"}
    <2>1. \A i \in DOMAIN SetToSeq(nodes) : SetToSeq(nodes)[i] \in nodes
      BY SeqOfSet
    <2>2. \A i \in DOMAIN SetToSeq(leaves) : SetToSeq(leaves)[i] \in leaves
      BY SeqOfSet
    <2>3. QED
      BY <2>1, <2>2, SeqOfSet
  <1>6. Stubs(made \o SetToSeq(nodes), bare, ext, above)
    BY <1>4, <1>5, StubsMore
  <1>7. QED
    BY <1>5, <1>6, StubsMore

\* It can be carried out below a root of prose, where each document goes
\* below the root, a document that is there, or one made for the directory
\* above.
LEMMA StubsBelow ==
    ASSUME NEW todo, NEW bare, NEW above, Stubs(todo, bare, "md", above), NEW ws,
           \A d \in bare : d # <<>> /\ Stub(d, "md") \notin DOMAIN ws,
           \A d \in bare : \/ above[d] \in DOMAIN ws /\ Content(above[d])
                           \/ Front(d) \in bare /\ above[d] = Stub(Front(d), "md")
    PROVE  Ready(ws, todo)
  <1>1. ASSUME NEW d \in bare, above[d] \in DOMAIN ws, Content(above[d])
        PROVE  Under(ws, Stub(d, "md"), above[d])
    BY <1>1 DEF Under, Readable, Opaque, Content, WholeFile
  <1> DEFINE ext == "md"
  <1>2. \A d \in bare : \/ Under(ws, Stub(d, ext), above[d])
                        \/ Front(d) \in bare /\ above[d] = Stub(Front(d), ext)
    BY <1>1
  <1>3. /\ Stubs(todo, bare, ext, above)
        /\ \A d \in bare : d # <<>> /\ Stub(d, ext) \notin DOMAIN ws
    OBVIOUS
  <1>4. ext = "md"
    OBVIOUS
  <1> HIDE DEF ext
  <1>5. QED
    BY <1>2, <1>3, <1>4, StubsReady

-----------------------------------------------------------------------------
(* The plans of an import, of the walk and of attach --all.                *)

\* A plan of nothing but what prov new and attach may do.
Moving(todo) == Typed(todo) /\ \A i \in DOMAIN todo : todo[i].do \in Moves

\* A mirror plan is to be taken in, and can be below a root of prose (PlanMirror).
LEMMA MirrorPlanned ==
    ASSUME NEW ws, Filed(ws), NEW root, Dir(root) = <<>>
    PROVE  /\ Moving(PlanMirror(ws, root).todo)
           /\ root \in DOMAIN ws /\ Content(root) => Ready(ws, PlanMirror(ws, root).todo)
  <1> DEFINE files    == ContentDocuments(ws) \ {root}
             dirs     == Directories(files) \ {<<>>}
             own(d)   == ExistingNode({p \in files : Dir(p) = d})
             bare     == {d \in dirs : own(d) = {}}
             node(d)  == CASE d = <<>>   -> root
                           [] d \in bare -> Append(d, <<"index", Extension(root)>>)
                           [] OTHER      -> CHOOSE p \in own(d) : TRUE
             above(d) == IF Front(d) = <<>> \/ Front(d) \in dirs THEN node(Front(d)) ELSE root
             byDepth  == ByDepth(bare)
             create(d) == Step("create", node(d), above(d), Titled[Last(d)[1]])
             nodes    == {Step("adopt", node(d), above(d), "") : d \in dirs \ bare}
             linked   == {q \in files : q # node(Dir(q))}
             leaves   == {Step("adopt", p, node(Dir(p)), "") : p \in linked}
             made     == [k \in DOMAIN byDepth |-> create(byDepth[k])]
             up       == [d \in bare |-> above(d)]
             title    == [d \in bare |-> Titled[Last(d)[1]]]
             todo     == made \o SetToSeq(nodes) \o SetToSeq(leaves)
             ext      == Extension(root)
  <1>1. PlanMirror(ws, root).todo = todo
    BY Zenon DEF PlanMirror
  <1>2. IsFiniteSet(files) /\ files \subseteq DOMAIN ws /\ \A p \in files : Place(p)
    <2>1. files \subseteq DOMAIN ws
      BY DEF ContentDocuments
    <2>2. QED
      BY <2>1, FS_Subset DEF Filed
  <1>3. /\ IsFiniteSet(dirs) /\ \A d \in dirs : \E C : d \in Seq(C)
        /\ \A d \in dirs : d # <<>> /\ (Front(d) = <<>> \/ Front(d) \in dirs)
    <2>1. /\ IsFiniteSet(Directories(files))
          /\ \A d \in Directories(files) : \E C : d \in Seq(C)
          /\ \A d \in Directories(files) : d # <<>> => Front(d) \in Directories(files)
      BY <1>2, DirectoriesAre
    <2>2. dirs \subseteq Directories(files)
      OBVIOUS
    <2>3. IsFiniteSet(dirs)
      BY <2>1, <2>2, FS_Subset
    <2>4. QED
      BY <2>1, <2>2, <2>3
  <1>4. IsFiniteSet(bare) /\ bare \subseteq dirs /\ IsFiniteSet(dirs \ bare) /\ IsFiniteSet(linked)
    <2>1. bare \subseteq dirs /\ dirs \ bare \subseteq dirs /\ linked \subseteq files
      OBVIOUS
    <2>2. QED
      BY <1>2, <1>3, <2>1, FS_Subset
  <1>5. IsFiniteSet(nodes) /\ IsFiniteSet(leaves)
    <2> DEFINE f == [d \in dirs \ bare |-> Step("adopt", node(d), above(d), "")]
               g == [p \in linked |-> Step("adopt", p, node(Dir(p)), "")]
    <2>1. nodes = {f[d] : d \in dirs \ bare} /\ leaves = {g[p] : p \in linked}
      OBVIOUS
    <2> HIDE DEF f, g, nodes, leaves, linked, dirs, bare
    <2>2. IsFiniteSet({f[d] : d \in dirs \ bare}) /\ IsFiniteSet({g[p] : p \in linked})
      BY <1>4, ImageFinite
    <2>3. QED
      BY <2>1, <2>2
  <1>6. \A s \in nodes \cup leaves : s.do \in {"adopt", "attach"}
    <2> HIDE DEF node, above, linked, dirs, bare
    <2>1. \A s \in nodes : \E p, u : s = Step("adopt", p, u, "")
      OBVIOUS
    <2>2. \A s \in leaves : \E p, u : s = Step("adopt", p, u, "")
      OBVIOUS
    <2> HIDE DEF nodes, leaves
    <2>3. \A p, u : Step("adopt", p, u, "").do = "adopt"
      BY DEF Step
    <2>4. ASSUME NEW s \in nodes \cup leaves PROVE s.do \in {"adopt", "attach"}
      <3>1. PICK p, u : s = Step("adopt", p, u, "")
        BY <2>1, <2>2
      <3>2. QED
        BY <2>3, <3>1
    <2>5. QED
      BY <2>4
  <1>7. /\ Sorted(byDepth, bare) /\ DOMAIN byDepth = 1..Cardinality(bare)
    <2> HIDE DEF bare, dirs
    <2>1. \A d \in bare : Len(d) \in Nat
      <3>1. ASSUME NEW d \in bare PROVE Len(d) \in Nat
        <4>1. PICK C : d \in Seq(C)
          BY <1>3, <1>4
        <4>2. QED
          BY <4>1
      <3>2. QED
        BY <3>1
    <2>2. QED
      BY <1>4, <2>1, ByDepthIs
  <1>8. \A k \in DOMAIN byDepth : byDepth[k] \in bare
    BY <1>7 DEF Sorted
  <1>9. \A d \in bare : node(d) = Stub(d, ext) /\ above(d) = node(Front(d))
    BY <1>3, <1>4 DEF Stub
  <1>10. /\ DOMAIN made = DOMAIN ByDepth(bare) /\ made = [k \in DOMAIN made |-> made[k]]
         /\ \A k \in DOMAIN made :
               made[k] = Step("create", Stub(ByDepth(bare)[k], ext), up[ByDepth(bare)[k]],
                              title[ByDepth(bare)[k]])
    <2>1. \A d \in bare : create(d) = Step("create", Stub(d, ext), up[d], title[d])
      BY <1>9
    <2> HIDE DEF bare, create, up, title
    <2>2. QED
      BY <1>8, <2>1
  <1>11. \A d \in bare : \E C : d \in Seq(C)
    BY <1>3, <1>4
  <1>12. Stubs(todo, bare, ext, up)
    <2> HIDE DEF bare, made, nodes, leaves, up, title, ext
    <2>1. QED
      BY <1>4, <1>5, <1>6, <1>10, <1>11, StubsPlan
  <1>13. ASSUME root \in DOMAIN ws, Content(root)
         PROVE  Ready(ws, todo)
    <2>1. ext = "md"
      BY <1>13 DEF Content
    <2>2. ASSUME NEW d \in bare
          PROVE  /\ d # <<>> /\ Stub(d, "md") \notin DOMAIN ws
                 /\ \/ up[d] \in DOMAIN ws /\ Content(up[d])
                    \/ Front(d) \in bare /\ up[d] = Stub(Front(d), "md")
      <3>1. d \in dirs /\ own(d) = {} /\ d # <<>> /\ \E C : d \in Seq(C)
        BY <1>3, <1>4
      <3>2. Stub(d, "md") \notin files
        BY <3>1, OwnIs
      <3>3. Content(Stub(d, "md")) /\ Dir(Stub(d, "md")) = d
        BY <3>1, StubIs DEF Content
      <3>4. Stub(d, "md") \notin DOMAIN ws
        BY <3>1, <3>2, <3>3 DEF ContentDocuments
      <3>5. up[d] = node(Front(d))
        BY <1>9
      <3>6. CASE Front(d) = <<>>
        BY <3>1, <3>4, <3>5, <3>6, <1>13
      <3>7. CASE Front(d) \in bare
        <4>1. node(Front(d)) = Stub(Front(d), "md")
          BY <1>9, <2>1, <3>7
        <4>2. QED
          BY <3>1, <3>4, <3>5, <3>7, <4>1
      <3>8. CASE Front(d) # <<>> /\ Front(d) \notin bare
        <4>1. Front(d) \in dirs /\ own(Front(d)) # {}
          BY <1>3, <3>1, <3>8
        <4>2. own(Front(d)) \subseteq files
          BY OwnAmong
        <4>3. node(Front(d)) \in files
          <5>1. (CHOOSE p \in own(Front(d)) : TRUE) \in own(Front(d))
            BY <4>1
          <5> HIDE DEF own, bare
          <5>2. node(Front(d)) = CHOOSE p \in own(Front(d)) : TRUE
            BY <3>8
          <5> HIDE DEF node
          <5>3. QED
            BY <4>2, <5>1, <5>2
        <4>4. up[d] \in DOMAIN ws /\ Content(up[d])
          BY <3>5, <4>3 DEF ContentDocuments
        <4>5. QED
          BY <3>1, <3>4, <4>4
      <3>9. QED
        BY <3>6, <3>7, <3>8
    <2>3. Stubs(todo, bare, "md", up)
      BY <1>12, <2>1
    <2> HIDE DEF todo, bare, up
    <2>4. QED
      BY <2>2, <2>3, StubsBelow
  <1>14. Moving(todo)
    <2> HIDE DEF todo, bare, up, ext
    <2>1. QED
      BY <1>12, StubsTyped DEF Moving
  <1>15. QED
    BY Zenon, <1>1, <1>13, <1>14

\* The walk of init likewise (PlanWalk).
LEMMA WalkPlanned ==
    ASSUME NEW ws, Filed(ws), NEW root, Dir(root) = <<>>, NEW req
    PROVE  /\ Moving(PlanWalk(ws, root, req))
           /\ root \in DOMAIN ws /\ Content(root) => Ready(ws, PlanWalk(ws, root, req))
  <1> DEFINE files    == ContentDocuments(ws)
             dirs     == AllDirectories(ws) \ {<<>>}
             own(d)   == OwnNode(ws, d)
             bare     == {d \in dirs : own(d) = {}}
             node(d)  == CASE d = <<>>   -> root
                           [] d \in bare -> Append(d, <<"index", "md">>)
                           [] OTHER      -> CHOOSE p \in own(d) : TRUE
             byDepth  == ByDepth(bare)
             create(d) == Step("create", node(d), node(Front(d)), Titled[Last(d)[1]])
             nodes    == {Step("adopt", node(d), node(Front(d)), "") : d \in dirs \ bare}
             linked   == {q \in files \ req.leave : q # node(Dir(q))}
             leaves   == {Step("adopt", p, node(Dir(p)), "") : p \in linked}
             others   == LooseOthers(ws)
             some     == {Step("attach", q, node(Dir(q)), "") : q \in others}
             payloads == IF req.attach THEN some ELSE {}
             made     == [k \in DOMAIN byDepth |-> create(byDepth[k])]
             links    == nodes \cup leaves
             up       == [d \in bare |-> node(Front(d))]
             title    == [d \in bare |-> Titled[Last(d)[1]]]
             todo     == made \o SetToSeq(links) \o SetToSeq(payloads)
             ext      == "md"
  <1>1. PlanWalk(ws, root, req) = todo
    BY DEF PlanWalk
  <1>2. /\ IsFiniteSet(files) /\ files \subseteq DOMAIN ws
        /\ IsFiniteSet(others) /\ IsFiniteSet(DOMAIN ws) /\ \A p \in DOMAIN ws : Place(p)
    <2>1. files \subseteq DOMAIN ws /\ others \subseteq DOMAIN ws
      BY DEF ContentDocuments, LooseOthers
    <2>2. QED
      BY <2>1, FS_Subset DEF Filed
  <1>3. /\ IsFiniteSet(dirs) /\ \A d \in dirs : \E C : d \in Seq(C)
        /\ \A d \in dirs : d # <<>> /\ (Front(d) = <<>> \/ Front(d) \in dirs)
    <2> DEFINE all == AllDirectories(ws)
    <2>1. /\ IsFiniteSet(all) /\ \A d \in all : \E C : d \in Seq(C)
          /\ \A d \in all : d # <<>> => Front(d) \in all
      BY <1>2, DirectoriesAre DEF AllDirectories
    <2> HIDE DEF all
    <2>2. dirs = all \ {<<>>} /\ dirs \subseteq all
      BY DEF all
    <2>3. IsFiniteSet(dirs)
      BY <2>1, <2>2, FS_Subset
    <2>4. QED
      BY <2>1, <2>2, <2>3
  <1>4. IsFiniteSet(bare) /\ bare \subseteq dirs /\ IsFiniteSet(dirs \ bare) /\ IsFiniteSet(linked)
    <2>1. bare \subseteq dirs /\ dirs \ bare \subseteq dirs /\ linked \subseteq files
      OBVIOUS
    <2>2. QED
      BY <1>2, <1>3, <2>1, FS_Subset
  <1>5. IsFiniteSet(links) /\ IsFiniteSet(payloads)
    <2> DEFINE f == [d \in dirs \ bare |-> Step("adopt", node(d), node(Front(d)), "")]
               g == [p \in linked |-> Step("adopt", p, node(Dir(p)), "")]
               h == [q \in others |-> Step("attach", q, node(Dir(q)), "")]
    <2>1. /\ nodes = {f[d] : d \in dirs \ bare} /\ leaves = {g[p] : p \in linked}
          /\ some = {h[q] : q \in others}
      OBVIOUS
    <2> HIDE DEF f, g, h, nodes, leaves, linked, dirs, bare, some, others
    <2>2. /\ IsFiniteSet({f[d] : d \in dirs \ bare}) /\ IsFiniteSet({g[p] : p \in linked})
          /\ IsFiniteSet({h[q] : q \in others})
      BY <1>2, <1>4, ImageFinite
    <2>3. IsFiniteSet(nodes \cup leaves) /\ IsFiniteSet(some) /\ IsFiniteSet({})
      BY <2>1, <2>2, FS_Union, FS_EmptySet
    <2>4. QED
      BY <2>3
  <1>6. \A s \in links \cup payloads : s.do \in {"adopt", "attach"}
    <2> HIDE DEF node, linked, dirs, bare, others
    <2>1. \A s \in nodes : \E p, u : s = Step("adopt", p, u, "")
      OBVIOUS
    <2>2. \A s \in leaves : \E p, u : s = Step("adopt", p, u, "")
      OBVIOUS
    <2>3. \A s \in some : \E p, u : s = Step("attach", p, u, "")
      OBVIOUS
    <2> HIDE DEF nodes, leaves, some
    <2>4. \A p, u : Step("adopt", p, u, "").do = "adopt" /\ Step("attach", p, u, "").do = "attach"
      BY DEF Step
    <2>5. ASSUME NEW s \in links \cup payloads PROVE s.do \in {"adopt", "attach"}
      <3>1. s \in nodes \cup leaves \cup some
        OBVIOUS
      <3>2. \/ \E p, u : s = Step("adopt", p, u, "")
            \/ \E p, u : s = Step("attach", p, u, "")
        BY <2>1, <2>2, <2>3, <3>1
      <3>3. CASE \E p, u : s = Step("adopt", p, u, "")
        BY <2>4, <3>3
      <3>4. CASE \E p, u : s = Step("attach", p, u, "")
        BY <2>4, <3>4
      <3>5. QED
        BY <3>2, <3>3, <3>4
    <2>6. QED
      BY <2>5
  <1>7. /\ Sorted(byDepth, bare) /\ DOMAIN byDepth = 1..Cardinality(bare)
    <2> HIDE DEF bare, dirs
    <2>1. \A d \in bare : Len(d) \in Nat
      <3>1. ASSUME NEW d \in bare PROVE Len(d) \in Nat
        <4>1. PICK C : d \in Seq(C)
          BY <1>3, <1>4
        <4>2. QED
          BY <4>1
      <3>2. QED
        BY <3>1
    <2>2. QED
      BY <1>4, <2>1, ByDepthIs
  <1>8. \A k \in DOMAIN byDepth : byDepth[k] \in bare
    BY <1>7 DEF Sorted
  <1>9. \A d \in bare : node(d) = Stub(d, ext)
    BY <1>3, <1>4 DEF Stub
  <1>10. /\ DOMAIN made = DOMAIN ByDepth(bare) /\ made = [k \in DOMAIN made |-> made[k]]
         /\ \A k \in DOMAIN made :
               made[k] = Step("create", Stub(ByDepth(bare)[k], ext), up[ByDepth(bare)[k]],
                              title[ByDepth(bare)[k]])
    <2>1. \A d \in bare : create(d) = Step("create", Stub(d, ext), up[d], title[d])
      BY <1>9
    <2> HIDE DEF bare, create, up, title
    <2>2. QED
      BY <1>8, <2>1
  <1>11. \A d \in bare : \E C : d \in Seq(C)
    BY <1>3, <1>4
  <1>12. Stubs(todo, bare, ext, up)
    <2> HIDE DEF bare, made, links, payloads, up, title, ext
    <2>1. QED
      BY <1>4, <1>5, <1>6, <1>10, <1>11, StubsPlan
  <1>13. ASSUME root \in DOMAIN ws, Content(root)
         PROVE  Ready(ws, todo)
    <2>1. ext = "md"
      BY DEF ext
    <2>2. ASSUME NEW d \in bare
          PROVE  /\ d # <<>> /\ Stub(d, "md") \notin DOMAIN ws
                 /\ \/ up[d] \in DOMAIN ws /\ Content(up[d])
                    \/ Front(d) \in bare /\ up[d] = Stub(Front(d), "md")
      <3>1. d \in dirs /\ own(d) = {} /\ d # <<>> /\ \E C : d \in Seq(C)
        BY <1>3, <1>4
      <3>2. Stub(d, "md") \notin files
        BY <3>1, OwnIs DEF OwnNode
      <3>3. Content(Stub(d, "md")) /\ Dir(Stub(d, "md")) = d
        BY <3>1, StubIs DEF Content
      <3>4. Stub(d, "md") \notin DOMAIN ws
        BY <3>1, <3>2, <3>3 DEF ContentDocuments
      <3>5. up[d] = node(Front(d))
        BY <1>9
      <3>6. CASE Front(d) = <<>>
        BY <3>1, <3>4, <3>5, <3>6, <1>13
      <3>7. CASE Front(d) \in bare
        <4>1. node(Front(d)) = Stub(Front(d), "md")
          BY <1>9, <2>1, <3>7
        <4>2. QED
          BY <3>1, <3>4, <3>5, <3>7, <4>1
      <3>8. CASE Front(d) # <<>> /\ Front(d) \notin bare
        <4>1. Front(d) \in dirs /\ own(Front(d)) # {}
          BY <1>3, <3>1, <3>8
        <4>2. own(Front(d)) \subseteq files
          BY OwnAmong DEF OwnNode
        <4>3. node(Front(d)) \in files
          <5>1. (CHOOSE p \in own(Front(d)) : TRUE) \in own(Front(d))
            BY <4>1
          <5> HIDE DEF own, bare
          <5>2. node(Front(d)) = CHOOSE p \in own(Front(d)) : TRUE
            BY <3>8
          <5> HIDE DEF node
          <5>3. QED
            BY <4>2, <5>1, <5>2
        <4>4. up[d] \in DOMAIN ws /\ Content(up[d])
          BY <3>5, <4>3 DEF ContentDocuments
        <4>5. QED
          BY <3>1, <3>4, <4>4
      <3>9. QED
        BY <3>6, <3>7, <3>8
    <2>3. Stubs(todo, bare, "md", up)
      BY <1>12, <2>1
    <2> HIDE DEF todo, bare, up
    <2>4. QED
      BY <2>2, <2>3, StubsBelow
  <1>14. Moving(todo)
    <2> HIDE DEF todo, bare, up, ext
    <2>1. QED
      BY <1>12, StubsTyped DEF Moving
  <1>15. QED
    BY Zenon, <1>1, <1>13, <1>14

\* A plan to attach creates nothing (PlanAttach).
LEMMA AttachPlanned ==
    ASSUME NEW ws, Filed(ws), NEW root, NEW recursive
    PROVE  /\ Moving(PlanAttach(ws, root, recursive).todo)
           /\ Ready(ws, PlanAttach(ws, root, recursive).todo)
  <1> DEFINE loose == Loose(ws, root, recursive)
             S == {Step("attach", q, root, "") : q \in loose}
             f == [q \in loose |-> Step("attach", q, root, "")]
             todo == SetToSeq(S)
  <1>1. PlanAttach(ws, root, recursive).todo = todo
    BY DEF PlanAttach
  <1>2. IsFiniteSet(loose)
    <2>1. loose \subseteq DOMAIN ws
      BY DEF Loose
    <2>2. QED
      BY <2>1, FS_Subset DEF Filed
  <1>3. S = {f[q] : q \in loose} /\ \A s \in S : s.do = "attach"
    <2> HIDE DEF loose
    <2>1. S = {f[q] : q \in loose}
      OBVIOUS
    <2>2. \A q : Step("attach", q, root, "").do = "attach"
      BY DEF Step
    <2>3. QED
      BY <2>1, <2>2
  <1> HIDE DEF f, loose, S
  <1>4. IsFiniteSet(S)
    BY <1>2, <1>3, ImageFinite
  <1>5. IsSeq(todo) /\ \A i \in DOMAIN todo : todo[i].do = "attach"
    BY <1>3, <1>4, SeqOfSet
  <1>6. QED
    BY <1>1, <1>5 DEF Moving, Typed, Moves, Ready

-----------------------------------------------------------------------------
(* The walk along a route.                                                 *)

\* What a walk knows after each segment.
Walked(ws, root, segments, layout, f) ==
    f = [k \in 0..Len(segments) |->
            IF k = 0 THEN RoutePlan(TRUE, <<>>, root)
            ELSE PlanSegment(ws, layout, Extension(root), f[k - 1], segments[k])]

\* A walk goes as far as its segments do.
LEMMA WalkGoesOn ==
    ASSUME NEW ws, NEW root, NEW C, NEW segments \in Seq(C), NEW layout
    PROVE  \E f : Walked(ws, root, segments, layout, f)
  <1> DEFINE n == Len(segments)
             W(f, m) == f = [k \in 0..m |->
                               IF k = 0 THEN RoutePlan(TRUE, <<>>, root)
                               ELSE PlanSegment(ws, layout, Extension(root), f[k - 1], segments[k])]
             S == {m \in 0..n : \E f : W(f, m)}
  <1>1. n \in Nat
    OBVIOUS
  <1>2. 0 \in S
    <2> DEFINE f == [k \in 0..0 |-> RoutePlan(TRUE, <<>>, root)]
    <2>1. W(f, 0)
      OBVIOUS
    <2> HIDE DEF W
    <2>2. QED
      BY <1>1, <2>1
  <1>3. ASSUME NEW m \in 1..n, m - 1 \in S PROVE m \in S
    <2>1. PICK f : W(f, m - 1)
      BY <1>3
    <2> DEFINE x == PlanSegment(ws, layout, Extension(root), f[m - 1], segments[m])
               g == [k \in 0..m |-> IF k = m THEN x ELSE f[k]]
    <2>2. \A k \in 0..(m - 1) : f[k] = IF k = 0 THEN RoutePlan(TRUE, <<>>, root)
               ELSE PlanSegment(ws, layout, Extension(root), f[k - 1], segments[k])
      BY <2>1
    <2>3. m \in Nat /\ m # 0 /\ m - 1 \in 0..m
      BY <1>1
    <2>4. ASSUME NEW k \in 0..m
          PROVE  g[k] = IF k = 0 THEN RoutePlan(TRUE, <<>>, root)
               ELSE PlanSegment(ws, layout, Extension(root), g[k - 1], segments[k])
      <3>1. CASE k = m
        <4>1. g[k] = x /\ g[k - 1] = f[m - 1]
          BY <2>3, <3>1
        <4>2. QED
          BY <2>3, <3>1, <4>1
      <3>2. CASE k # m
        <4>1. k \in 0..(m - 1) /\ g[k] = f[k] /\ (k # 0 => g[k - 1] = f[k - 1])
          BY <2>3, <3>2
        <4> HIDE DEF g
        <4>2. QED
          BY <2>2, <4>1
      <3>3. QED
        BY <3>1, <3>2
    <2>5. g = [k \in 0..m |-> g[k]]
      OBVIOUS
    <2> HIDE DEF g
    <2>6. W(g, m)
      BY <2>4, <2>5
    <2> HIDE DEF W
    <2>7. QED
      BY <1>1, <2>6
  <1>4. n \in S
    <2> HIDE DEF S
    <2>1. \A k \in 0..n : k \in S
      BY <1>1, <1>2, <1>3, Upto
    <2>2. QED
      BY <1>1, <2>1
  <1>5. PICK f : W(f, n)
    BY <1>4
  <1>6. QED
    BY <1>5 DEF Walked

\* The plan of a route is what the walk knows in the end.
LEMMA PlanRouteIs ==
    ASSUME NEW ws, NEW root, NEW C, NEW segments \in Seq(C), NEW layout
    PROVE  \E f : /\ Walked(ws, root, segments, layout, f)
                  /\ PlanRoute(ws, root, segments, layout) = f[Len(segments)]
  <1>1. PICK g : Walked(ws, root, segments, layout, g)
    BY WalkGoesOn
  <1> DEFINE seg(y, s) == PlanSegment(ws, layout, Extension(root), y, s)
             h == CHOOSE f : f = [k \in 0..Len(segments) |->
                      IF k = 0 THEN RoutePlan(TRUE, <<>>, root)
                      ELSE CHOOSE z \in {seg(y, segments[k]) : y \in {f[k - 1]}} : TRUE]
  <1>2. \A x, y : (CHOOSE z \in {seg(w, y) : w \in {x}} : TRUE) = seg(x, y)
    <2> TAKE x, y
    <2>1. {seg(w, y) : w \in {x}} = {seg(x, y)}
      OBVIOUS
    <2> HIDE DEF seg
    <2>2. QED
      BY <2>1
  <1>3. PlanRoute(ws, root, segments, layout) = h[Len(segments)]
    BY DEF PlanRoute, Fold, With
  <1>4. \A f : Walked(ws, root, segments, layout, f) <=>
                  f = [k \in 0..Len(segments) |->
                      IF k = 0 THEN RoutePlan(TRUE, <<>>, root) ELSE seg(f[k - 1], segments[k])]
    BY DEF Walked
  <1>5. \A f : Walked(ws, root, segments, layout, f) <=>
                  f = [k \in 0..Len(segments) |->
                      IF k = 0 THEN RoutePlan(TRUE, <<>>, root)
                      ELSE CHOOSE z \in {seg(y, segments[k]) : y \in {f[k - 1]}} : TRUE]
    <2> TAKE f
    <2> DEFINE A(k) == IF k = 0 THEN RoutePlan(TRUE, <<>>, root) ELSE seg(f[k - 1], segments[k])
               B(k) == IF k = 0 THEN RoutePlan(TRUE, <<>>, root)
                       ELSE CHOOSE z \in {seg(y, segments[k]) : y \in {f[k - 1]}} : TRUE
    <2>1. ASSUME NEW k \in 0..Len(segments) PROVE A(k) = B(k)
      <3> HIDE DEF seg
      <3>1. (CHOOSE z \in {seg(y, segments[k]) : y \in {f[k - 1]}} : TRUE) = seg(f[k - 1], segments[k])
        BY <1>2
      <3>2. QED
        BY <3>1
    <2>2. [k \in 0..Len(segments) |-> A(k)] = [k \in 0..Len(segments) |-> B(k)]
      <3> HIDE DEF A, B
      <3>1. QED
        BY <2>1
    <2>3. Walked(ws, root, segments, layout, f) <=> f = [k \in 0..Len(segments) |-> A(k)]
      BY <1>4
    <2>4. QED
      BY <2>2, <2>3
  <1>6. Walked(ws, root, segments, layout, h)
    <2> HIDE DEF seg
    <2>1. QED
      BY <1>1, <1>5
  <1> HIDE DEF h
  <1>7. QED
    BY <1>3, <1>6

-----------------------------------------------------------------------------
(* One segment.                                                            *)

Planned(y) == y = RoutePlan(y.ok, y.todo, y.at)

\* The children a walk looks at.
Named(ws, y, segment) == IF y.todo = <<>> THEN ChildTitled(ws, y.at, segment) ELSE {}

\* It is refused, goes to a child, or goes on with a document to be made.
Misses(ws, layout, ext, y, segment, z) ==
    LET path == SynthPath(y.at, segment, layout, ext)
    IN  /\ y.ok /\ Named(ws, y, segment) = {}
        /\ y.todo = <<>> => Combined(ws, y.at)
        /\ Vacant(ws, path, layout)
        /\ z = RoutePlan(TRUE, Append(y.todo, Step("create", path, y.at, segment)), path)

Finds(ws, y, segment, z) ==
    /\ y.ok /\ y.todo = <<>>
    /\ \E c : Named(ws, y, segment) = {c} /\ z = RoutePlan(TRUE, <<>>, c)

\* A route plan is its fields.
LEMMA PlanIs ==
    \A o, t, a : /\ Planned(RoutePlan(o, t, a)) /\ RoutePlan(o, t, a).ok = o
                 /\ RoutePlan(o, t, a).todo = t /\ RoutePlan(o, t, a).at = a
  BY DEF Planned, RoutePlan

\* What a segment does to a route plan: stuck, found, or to be made (PlanSegment).
LEMMA SegmentIs ==
    ASSUME NEW ws, Filed(ws), NEW layout, NEW ext, NEW y, Planned(y), y.ok \in BOOLEAN, NEW segment
    PROVE  LET z == PlanSegment(ws, layout, ext, y, segment)
           IN  /\ Planned(z) /\ z.ok \in BOOLEAN
               /\ z.ok => \/ Misses(ws, layout, ext, y, segment, z)
                          \/ Finds(ws, y, segment, z)
  <1> DEFINE named == Named(ws, y, segment)
             path == SynthPath(y.at, segment, layout, ext)
             z == PlanSegment(ws, layout, ext, y, segment)
             bad == \/ y.todo = <<>> /\ ~Combined(ws, y.at)
                    \/ ~Vacant(ws, path, layout)
  <1>1. IsFiniteSet(named)
    <2>1. Named(ws, y, segment) \subseteq DOMAIN ws
      BY DEF Named, ChildTitled, Readable
    <2>2. QED
      BY <2>1, FS_Subset DEF Filed
  <1>3. Cardinality(named) \in Nat /\ (Cardinality(named) = 0 <=> named = {})
    BY <1>1, FS_CardinalityType, FS_EmptySet
  <1> DEFINE failed == [y EXCEPT !.ok = FALSE]
             found  == [y EXCEPT !.at = CHOOSE c \in named : TRUE]
             made   == RoutePlan(TRUE, Append(y.todo, Step("create", path, y.at, segment)), path)
             no     == ~y.ok \/ Cardinality(named) > 1 \/ (named = {} /\ bad)
  <1>4. z = IF no THEN failed ELSE IF named # {} THEN found ELSE made
    BY DEF PlanSegment, Named
  <1>5. y = RoutePlan(y.ok, y.todo, y.at)
    BY DEF Planned
  <1>6. Planned(failed) /\ failed.ok = FALSE
    <2>1. \A o, t, a, b : [RoutePlan(o, t, a) EXCEPT !.ok = b] = RoutePlan(b, t, a)
      BY DEF RoutePlan
    <2> DEFINE o == y.ok
               t == y.todo
               a == y.at
               b == FALSE
    <2>2. failed = [y EXCEPT !.ok = b] /\ y = RoutePlan(o, t, a)
      BY <1>5
    <2> HIDE DEF failed, o, t, a, b
    <2>3. failed = RoutePlan(b, t, a)
      BY <2>1, <2>2
    <2>4. Planned(failed) /\ failed.ok = b
      BY <2>3, PlanIs
    <2>5. QED
      BY <2>4 DEF b
  <1>7. \A o, t, a, c : [RoutePlan(o, t, a) EXCEPT !.at = c] = RoutePlan(o, t, c)
    BY DEF RoutePlan
  <1>8. found = RoutePlan(y.ok, y.todo, CHOOSE c \in named : TRUE)
    <2> DEFINE c == CHOOSE c \in named : TRUE
               o == y.ok
               t == y.todo
               a == y.at
    <2>1. found = [y EXCEPT !.at = c] /\ y = RoutePlan(o, t, a)
      BY <1>5
    <2> HIDE DEF found, c, o, t, a
    <2>2. found = RoutePlan(o, t, c)
      BY <1>7, <2>1
    <2>3. QED
      BY <2>2 DEF c, o, t
  <1> HIDE DEF named, path, bad, z, failed, found
  <1>9. CASE no
    <2>1. z = failed
      BY <1>4, <1>9
    <2>2. Planned(z) /\ z.ok = FALSE
      BY <1>6, <2>1
    <2>3. QED
      BY <2>2 DEF z
  <1>10. CASE ~no /\ named # {}
    <2>1. PICK c : named = {c}
      <3>1. Cardinality(named) = 1
        BY <1>3, <1>10
      <3>2. QED
        BY <1>1, <3>1, FS_Singleton
    <2>2. z = found /\ y.ok
      BY <1>4, <1>10
    <2>3. (CHOOSE d \in named : TRUE) = c
      BY <2>1
    <2>4. y.todo = <<>>
      BY <2>1 DEF named, Named
    <2>5. z = RoutePlan(TRUE, <<>>, c)
      BY <1>8, <2>2, <2>3, <2>4
    <2>6. Finds(ws, y, segment, z)
      BY <2>1, <2>2, <2>4, <2>5 DEF Finds, named
    <2>7. Planned(z) /\ z.ok = TRUE
      BY <2>5, PlanIs
    <2>8. QED
      BY <2>6, <2>7 DEF z
  <1>11. CASE ~no /\ named = {}
    <2>1. z = made
      BY <1>4, <1>11
    <2>2. Misses(ws, layout, ext, y, segment, z)
      BY <1>11, <2>1 DEF Misses, named, path, bad
    <2>3. Planned(z) /\ z.ok = TRUE
      BY <2>1, PlanIs
    <2>4. QED
      BY <2>2, <2>3 DEF z
  <1>12. QED
    BY <1>9, <1>10, <1>11

\* The place of a document that a route makes.
LEMMA SynthIs ==
    ASSUME NEW parent, Place(parent), NEW segment, NEW layout, NEW ext
    PROVE  /\ Place(SynthPath(parent, segment, layout, ext))
           /\ Extension(SynthPath(parent, segment, layout, ext)) = ext
           /\ layout = "flat" =>
                /\ Name(SynthPath(parent, segment, layout, ext)) = <<Slug[segment], ext>>
                /\ Dir(SynthPath(parent, segment, layout, ext)) = Dir(parent)
           /\ layout # "flat" =>
                /\ Len(SynthPath(parent, segment, layout, ext)) = Len(parent) + 1
                /\ Dir(SynthPath(parent, segment, layout, ext)) = Append(Dir(parent), <<Slug[segment]>>)
  <1>1. PICK C : /\ parent \in Seq(C) /\ Dir(parent) \in Seq(C) /\ Len(parent) \in Nat
                 /\ Len(Dir(parent)) = Len(parent) - 1
    BY DirIs
  <1> DEFINE d == Dir(parent)
             a == <<Slug[segment]>>
             b == <<"index", ext>>
             D == C \cup {a}
             q == SynthPath(parent, segment, layout, ext)
  <1>2. CASE layout = "flat"
    <2>1. q = Append(d, <<Slug[segment], ext>>)
      BY <1>2 DEF SynthPath
    <2>2. Last(<<Slug[segment], ext>>) = ext
      BY DEF Last
    <2>3. QED
      BY ZenonT(30), <1>1, <1>2, <2>1, <2>2, AppendIs DEF Dir, Name, Extension
  <1>3. CASE layout # "flat"
    <2>1. d \in Seq(D) /\ a \in D
      BY <1>1
    <2> HIDE DEF D
    <2>2. d \o <<a, b>> = Append(Append(d, a), b)
      <3> DEFINE E == D \cup {b}
      <3>1. d \in Seq(E) /\ a \in E /\ b \in E
        BY <2>1
      <3> HIDE DEF E, d, a, b
      <3>2. QED
        BY <3>1
    <2>3. q = Append(Append(d, a), b)
      BY <1>3, <2>2 DEF SynthPath
    <2>4. Append(d, a) \in Seq(D) /\ Len(Append(d, a)) = Len(d) + 1
      <3> HIDE DEF d, a
      <3>1. QED
        BY <2>1
    <2>5. /\ Place(q) /\ Front(q) = Append(d, a) /\ Last(q) = b /\ Len(q) = Len(Append(d, a)) + 1
      <3> HIDE DEF d, a, b, q
      <3>1. QED
        BY <2>3, <2>4, AppendIs
    <2>6. Last(b) = ext
      BY DEF Last
    <2>7. Len(q) = Len(parent) + 1
      BY <1>1, <2>4, <2>5
    <2>8. QED
      BY <1>3, <2>5, <2>6, <2>7 DEF Dir, Name, Extension
  <1>4. QED
    BY <1>2, <1>3

-----------------------------------------------------------------------------
(* The documents a route makes.                                            *)

\* No steps.
LEMMA EmptyIs == IsSeq(<<>>) /\ Len(<<>>) = 0
  <1>1. <<>> \in Seq({}) /\ Len(<<>>) = 0
    OBVIOUS
  <1>2. QED
    BY <1>1 DEF IsSeq

\* A route plan that goes on.
LEMMA OkIs ==
    \A t, a : /\ Planned(RoutePlan(TRUE, t, a)) /\ RoutePlan(TRUE, t, a).ok = TRUE
              /\ RoutePlan(TRUE, t, a).todo = t /\ RoutePlan(TRUE, t, a).at = a
  BY DEF Planned, RoutePlan

\* A document for each of the last of k segments, each below the one before.
Chain(ws, segments, layout, ext, k, y) ==
    LET n == Len(y.todo)
    IN  /\ IsSeq(y.todo) /\ n <= k
        /\ n = 0 => Readable(ws, y.at)
        /\ n # 0 => /\ y.at = y.todo[n].path
                    /\ Readable(ws, y.todo[1].under) /\ Combined(ws, y.todo[1].under)
        /\ \A i \in 1..n : /\ y.todo[i].do = "create" /\ y.todo[i].path \notin DOMAIN ws
                           /\ Place(y.todo[i].under)
                           /\ y.todo[i].path =
                                  SynthPath(y.todo[i].under, y.todo[i].title, layout, ext)
                           /\ y.todo[i].title = segments[(k - n) + i]
        /\ \A i \in 2..n : y.todo[i].under = y.todo[i - 1].path

\* Another segment keeps it so.
LEMMA ChainGoesOn ==
    ASSUME NEW ws, Filed(ws), NEW segments, NEW layout, NEW ext, NEW k \in Nat, k # 0,
           NEW y, Planned(y), Chain(ws, segments, layout, ext, k - 1, y),
           NEW z,
           \/ Misses(ws, layout, ext, y, segments[k], z)
           \/ Finds(ws, y, segments[k], z)
    PROVE  Chain(ws, segments, layout, ext, k, z)
  <1> DEFINE n == Len(y.todo)
             path == SynthPath(y.at, segments[k], layout, ext)
             step == Step("create", path, y.at, segments[k])
  <1>1. IsSeq(y.todo) /\ n \in Nat /\ n <= k - 1
    BY SeqIs DEF Chain
  <1>2. CASE Finds(ws, y, segments[k], z)
    <2>1. PICK c : c \in ChildTitled(ws, y.at, segments[k]) /\ z = RoutePlan(TRUE, <<>>, c)
      BY <1>2 DEF Finds, Named
    <2>2. Readable(ws, c)
      BY <2>1 DEF ChildTitled
    <2>3. z.todo = <<>> /\ z.at = c
      BY <2>1, OkIs
    <2>4. IsSeq(<<>>) /\ Len(<<>>) = 0
      BY EmptyIs
    <2>5. QED
      BY <2>2, <2>3, <2>4 DEF Chain
  <1>3. CASE Misses(ws, layout, ext, y, segments[k], z)
    <2>1. /\ z = RoutePlan(TRUE, Append(y.todo, step), path)
          /\ path \notin DOMAIN ws /\ (y.todo = <<>> => Combined(ws, y.at))
      BY <1>3 DEF Misses, Vacant
    <2> DEFINE t == Append(y.todo, step)
    <2>2. z.todo = t /\ z.at = path
      <3> HIDE DEF t, path
      <3>1. z = RoutePlan(TRUE, t, path)
        BY <2>1 DEF t
      <3>2. QED
        BY <3>1, OkIs
    <2>3. /\ IsSeq(t) /\ Len(t) = n + 1 /\ t[n + 1] = step
          /\ \A i \in 1..n : t[i] = y.todo[i]
      <3>1. IsSeq(t)
        BY <1>1, SeqAppend
      <3>2. PICK C : y.todo \in Seq(C)
        BY <1>1 DEF IsSeq
      <3> DEFINE D == C \cup {step}
      <3>3. y.todo \in Seq(D) /\ step \in D
        BY <3>2
      <3> HIDE DEF D, step
      <3>4. Len(t) = n + 1 /\ t[n + 1] = step /\ \A i \in 1..n : t[i] = y.todo[i]
        BY <3>3
      <3>5. QED
        BY <3>1, <3>4
    <2>4. step.do = "create" /\ step.path = path /\ step.under = y.at /\ step.title = segments[k]
      BY StepIs
    <2>5. y.todo = <<>> <=> n = 0
      <3>1. PICK C : y.todo \in Seq(C)
        BY <1>1 DEF IsSeq
      <3>2. QED
        BY <3>1
    <2>6. Place(y.at)
      <3>1. CASE n = 0
        BY <3>1 DEF Chain, Readable, Filed
      <3>2. CASE n # 0
        <4>1. n \in 1..n
          BY <1>1, <3>2
        <4>2. y.at = y.todo[n].path /\ Place(y.todo[n].under)
              /\ y.todo[n].path = SynthPath(y.todo[n].under, y.todo[n].title, layout, ext)
          BY <3>2, <4>1 DEF Chain
        <4>3. QED
          BY <4>2, SynthIs
      <3>3. QED
        BY <3>1, <3>2
    <2> HIDE DEF t, step, path, n
    <2>7. \A i \in 1..(n + 1) : i \in 1..n \/ i = n + 1
      BY <1>1
    <2>8. ASSUME NEW i \in 1..(n + 1)
          PROVE  /\ t[i].do = "create" /\ t[i].path \notin DOMAIN ws /\ Place(t[i].under)
                 /\ t[i].path = SynthPath(t[i].under, t[i].title, layout, ext)
                 /\ t[i].title = segments[(k - (n + 1)) + i]
      <3>1. CASE i \in 1..n
        <4>1. t[i] = y.todo[i]
          BY <2>3, <3>1
        <4>2. ((k - 1) - n) + i = (k - (n + 1)) + i
          BY <1>1, <3>1
        <4>3. QED
          BY <3>1, <4>1, <4>2 DEF Chain, n
      <3>2. CASE i = n + 1
        <4>1. (k - (n + 1)) + i = k
          BY <1>1, <3>2
        <4>2. t[i] = step
          BY <2>3, <3>2
        <4>3. QED
          BY <2>1, <2>4, <2>6, <4>1, <4>2 DEF path
      <3>3. QED
        BY <2>7, <3>1, <3>2
    <2>9. ASSUME NEW i \in 2..(n + 1)
          PROVE  t[i].under = t[i - 1].path
      <3>1. CASE i \in 1..n
        <4>1. t[i] = y.todo[i] /\ t[i - 1] = y.todo[i - 1] /\ i \in 2..n
          BY <1>1, <2>3, <3>1
        <4>2. QED
          BY <4>1 DEF Chain, n
      <3>2. CASE i = n + 1
        <4>1. t[i] = step /\ t[i - 1] = y.todo[n] /\ n # 0
          BY <1>1, <2>3, <3>2
        <4>2. y.at = y.todo[n].path
          BY <4>1 DEF Chain, n
        <4>3. QED
          BY <2>4, <4>1, <4>2
      <3>3. QED
        BY <1>1, <3>1, <3>2
    <2>10. path = t[n + 1].path /\ Readable(ws, t[1].under) /\ Combined(ws, t[1].under)
      <3>1. CASE n = 0
        <4>1. Readable(ws, y.at)
          BY <3>1 DEF Chain, n
        <4>2. QED
          BY <2>1, <2>3, <2>4, <2>5, <3>1, <4>1
      <3>2. CASE n # 0
        <4>1. t[1] = y.todo[1]
          BY <1>1, <2>3, <3>2
        <4>2. QED
          BY <2>3, <2>4, <3>2, <4>1 DEF Chain, n
      <3>3. QED
        BY <3>1, <3>2
    <2>11. n + 1 <= k /\ n + 1 # 0
      BY <1>1
    <2>12. QED
      BY <2>2, <2>3, <2>8, <2>9, <2>10, <2>11 DEF Chain
  <1>4. QED
    BY <1>2, <1>3

\* What a walk knows, from the first segment to the last.
LEMMA WalkedIs ==
    ASSUME NEW ws, Filed(ws), NEW root, Readable(ws, root), NEW C, NEW segments \in Seq(C),
           NEW layout, NEW f, Walked(ws, root, segments, layout, f)
    PROVE  /\ f[0] = RoutePlan(TRUE, <<>>, root)
           /\ \A k \in 0..Len(segments) :
                 /\ Planned(f[k]) /\ f[k].ok \in BOOLEAN
                 /\ f[k].ok => Chain(ws, segments, layout, Extension(root), k, f[k])
           /\ \A k \in 1..Len(segments) :
                 /\ f[k] = PlanSegment(ws, layout, Extension(root), f[k - 1], segments[k])
                 /\ f[k].ok =>
                       /\ f[k - 1].ok
                       /\ \/ Misses(ws, layout, Extension(root), f[k - 1], segments[k], f[k])
                          \/ Finds(ws, f[k - 1], segments[k], f[k])
  <1> DEFINE ext == Extension(root)
             n == Len(segments)
             Good(k) == /\ Planned(f[k]) /\ f[k].ok \in BOOLEAN
                        /\ f[k].ok => Chain(ws, segments, layout, ext, k, f[k])
             S == {k \in 0..n : Good(k)}
  <1>1. n \in Nat
    OBVIOUS
  <1>2. f[0] = RoutePlan(TRUE, <<>>, root)
    BY <1>1 DEF Walked
  <1>3. \A k \in 1..n : f[k] = PlanSegment(ws, layout, ext, f[k - 1], segments[k])
    BY <1>1 DEF Walked
  <1>4. 0 \in S
    <2> DEFINE y == f[0]
               t == <<>>
    <2>0. y = RoutePlan(TRUE, t, root)
      BY <1>2
    <2> HIDE DEF y, t
    <2>1. y.todo = t /\ y.at = root /\ y.ok = TRUE /\ Planned(y)
      BY <2>0, OkIs
    <2>2. IsSeq(t) /\ Len(t) = 0
      BY EmptyIs DEF t
    <2>3. Chain(ws, segments, layout, ext, 0, y)
      BY <2>1, <2>2 DEF Chain
    <2>4. Good(0) /\ 0 \in 0..n
      <3> HIDE DEF ext, n
      <3>1. y.ok \in BOOLEAN
        BY <2>1
      <3>2. /\ Planned(y) /\ y.ok \in BOOLEAN
            /\ y.ok => Chain(ws, segments, layout, ext, 0, y)
        BY <2>1, <2>3, <3>1
      <3>3. 0 \in 0..n
        BY <1>1
      <3>4. QED
        BY <3>2, <3>3 DEF y
    <2> HIDE DEF Good
    <2>5. QED
      BY <2>4
  <1>5. ASSUME NEW k \in 1..n, k - 1 \in S
        PROVE  /\ k \in S
               /\ f[k].ok => /\ f[k - 1].ok
                             /\ \/ Misses(ws, layout, ext, f[k - 1], segments[k], f[k])
                                \/ Finds(ws, f[k - 1], segments[k], f[k])
    <2> HIDE DEF ext
    <2>1. Planned(f[k - 1]) /\ f[k - 1].ok \in BOOLEAN
      BY <1>5
    <2>2. /\ Planned(f[k]) /\ f[k].ok \in BOOLEAN
          /\ f[k].ok => \/ Misses(ws, layout, ext, f[k - 1], segments[k], f[k])
                        \/ Finds(ws, f[k - 1], segments[k], f[k])
      BY <1>3, <2>1, SegmentIs
    <2>3. f[k].ok => f[k - 1].ok
      BY <2>2 DEF Misses, Finds
    <2>4. ASSUME f[k].ok PROVE Chain(ws, segments, layout, ext, k, f[k])
      <3>1. Chain(ws, segments, layout, ext, k - 1, f[k - 1])
        BY <1>5, <2>3, <2>4
      <3>2. k \in Nat /\ k # 0
        BY <1>1
      <3>3. QED
        BY <2>1, <2>2, <2>4, <3>1, <3>2, ChainGoesOn
    <2>5. QED
      BY <2>2, <2>3, <2>4
  <1> HIDE DEF S
  <1>6. \A k \in 0..n : k \in S
    BY <1>1, <1>4, <1>5, Upto
  <1>7. \A k \in 1..n : k - 1 \in 0..n
    BY <1>1
  <1>8. \A k \in 1..n : f[k].ok => /\ f[k - 1].ok
                             /\ \/ Misses(ws, layout, ext, f[k - 1], segments[k], f[k])
                                \/ Finds(ws, f[k - 1], segments[k], f[k])
    BY <1>5, <1>6, <1>7
  <1>9. QED
    BY <1>2, <1>3, <1>6, <1>8 DEF S

-----------------------------------------------------------------------------
(* The plan of prov new.                                                   *)

\* Titles that become file stems that differ.
Apart(segments) ==
    \A i, j \in DOMAIN segments : i # j => Slug[segments[i]] # Slug[segments[j]]

\* Documents in places of their own: each a directory deeper than the one
\* before, or side by side under names that differ.
Spread(t, layout, ext) ==
    /\ Len(t) \in Nat /\ DOMAIN t = 1..Len(t)
    /\ \A i \in 1..Len(t) :
          /\ Place(t[i].path) /\ Extension(t[i].path) = ext
          /\ layout = "flat" => Name(t[i].path) = <<Slug[t[i].title], ext>>
          /\ layout # "flat" => Len(t[1].under) \in Nat /\ Len(t[i].path) = Len(t[1].under) + i
    /\ \A i, j \in 1..Len(t) : i # j => t[i].path # t[j].path

\* The documents of a route are made at different places.
LEMMA ChainApart ==
    ASSUME NEW ws, NEW C, NEW segments \in Seq(C), NEW layout, NEW ext,
           NEW k \in 0..Len(segments), NEW y, Chain(ws, segments, layout, ext, k, y),
           layout = "flat" => Apart(segments)
    PROVE  Spread(y.todo, layout, ext)
  <1> DEFINE n == Len(y.todo)
             t == y.todo
  <1>1. n \in Nat /\ DOMAIN t = 1..n /\ n <= k /\ k \in Nat /\ k <= Len(segments)
    BY SeqIs DEF Chain
  <1>2. \A i \in 1..n : /\ Place(t[i].under)
                        /\ t[i].path = SynthPath(t[i].under, t[i].title, layout, ext)
                        /\ t[i].title = segments[(k - n) + i]
    BY DEF Chain
  <1>3. \A i \in 2..n : t[i].under = t[i - 1].path
    BY DEF Chain
  <1> HIDE DEF n, t
  <1>4. ASSUME NEW i \in 1..n
        PROVE  /\ Place(t[i].path) /\ Extension(t[i].path) = ext
               /\ layout = "flat" => Name(t[i].path) = <<Slug[t[i].title], ext>>
               /\ layout # "flat" => Len(t[i].path) = Len(t[i].under) + 1
    <2> DEFINE u == t[i].under
               s == t[i].title
               p == t[i].path
    <2>1. Place(u) /\ p = SynthPath(u, s, layout, ext)
      BY <1>2
    <2> HIDE DEF u, s, p
    <2>2. /\ Place(p) /\ Extension(p) = ext
          /\ layout = "flat" => Name(p) = <<Slug[s], ext>>
          /\ layout # "flat" => Len(p) = Len(u) + 1
      BY <2>1, SynthIs
    <2>3. QED
      BY <2>2 DEF u, s, p
  <1>5. ASSUME layout # "flat", n # 0
        PROVE  /\ Len(t[1].under) \in Nat
               /\ \A i \in 1..n : Len(t[i].path) = Len(t[1].under) + i
    <2>1. 1 \in 1..n
      BY <1>1, <1>5
    <2>2. Len(t[1].under) \in Nat
      BY <1>2, <2>1, DirIs
    <2> DEFINE S == {i \in 0..n : i # 0 => Len(t[i].path) = Len(t[1].under) + i}
    <2>3. 0 \in S
      BY <1>1
    <2>4. ASSUME NEW i \in 1..n, i - 1 \in S PROVE i \in S
      <3>1. CASE i = 1
        BY <1>4, <1>5, <2>1, <3>1
      <3>2. CASE i # 1
        <4>1. i \in 2..n /\ i - 1 # 0
          BY <1>1, <3>2
        <4>2. Len(t[i - 1].path) = Len(t[1].under) + (i - 1)
          BY <2>4, <4>1
        <4>3. Len(t[i].path) = Len(t[i - 1].path) + 1
          BY <1>3, <1>4, <1>5, <4>1
        <4>4. Len(t[i].path) = Len(t[1].under) + i
          BY <1>1, <2>2, <4>2, <4>3
        <4>5. QED
          BY <1>1, <4>4
      <3>3. QED
        BY <3>1, <3>2
    <2> HIDE DEF S
    <2>5. \A i \in 0..n : i \in S
      BY <1>1, <2>3, <2>4, Upto
    <2>6. \A i \in 1..n : i \in 0..n /\ i # 0
      BY <1>1
    <2>7. QED
      BY <2>2, <2>5, <2>6 DEF S
  <1>6. ASSUME NEW i \in 1..n, NEW j \in 1..n, i # j
        PROVE  t[i].path # t[j].path
    <2>1. CASE layout = "flat"
      <3> DEFINE a == (k - n) + i
                 b == (k - n) + j
      <3>1. a \in DOMAIN segments /\ b \in DOMAIN segments /\ a # b
        BY <1>1, <1>6
      <3>2. Slug[segments[a]] # Slug[segments[b]]
        <4> HIDE DEF a, b
        <4>1. QED
          BY <2>1, <3>1 DEF Apart
      <3>3. t[i].title = segments[a] /\ t[j].title = segments[b]
        BY <1>2
      <3>4. Name(t[i].path) = <<Slug[segments[a]], ext>> /\ Name(t[j].path) = <<Slug[segments[b]], ext>>
        <4> HIDE DEF a, b
        <4>1. QED
          BY <1>4, <2>1, <3>3
      <3> DEFINE u == Slug[segments[a]]
                 v == Slug[segments[b]]
      <3> HIDE DEF u, v
      <3>5. u # v /\ Name(t[i].path) = <<u, ext>> /\ Name(t[j].path) = <<v, ext>>
        BY <3>2, <3>4 DEF u, v
      <3>6. <<u, ext>> # <<v, ext>>
        BY <3>5
      <3>7. QED
        BY <3>5, <3>6
    <2>2. CASE layout # "flat"
      <3>1. n # 0
        BY <1>1
      <3>2. Len(t[i].path) = Len(t[1].under) + i /\ Len(t[j].path) = Len(t[1].under) + j
            /\ Len(t[1].under) \in Nat
        BY <1>5, <2>2, <3>1
      <3>3. i \in Int /\ j \in Int
        BY <1>1
      <3>4. Len(t[i].path) # Len(t[j].path)
        BY <1>6, <3>2, <3>3
      <3>5. QED
        BY <3>4
    <2>3. QED
      BY <2>1, <2>2
  <1>7. \A i \in 1..n : n # 0
    BY <1>1
  <1>8. ASSUME NEW i \in 1..n, layout # "flat"
        PROVE  Len(t[1].under) \in Nat /\ Len(t[i].path) = Len(t[1].under) + i
    BY <1>5, <1>7, <1>8
  <1>9. /\ n \in Nat /\ DOMAIN t = 1..n
        /\ \A i \in 1..n :
                 /\ Place(t[i].path) /\ Extension(t[i].path) = ext
                 /\ layout = "flat" => Name(t[i].path) = <<Slug[t[i].title], ext>>
                 /\ layout # "flat" =>
                       Len(t[1].under) \in Nat /\ Len(t[i].path) = Len(t[1].under) + i
        /\ \A i, j \in 1..n : i # j => t[i].path # t[j].path
    BY <1>1, <1>4, <1>6, <1>8
  <1>10. QED
    BY <1>9 DEF n, t, Spread

\* They can be made, one after the other.
LEMMA ChainReady ==
    ASSUME NEW ws, NEW C, NEW segments \in Seq(C), NEW layout,
           NEW ext, ext \in {"md", "yaml", "json"},
           NEW k \in 0..Len(segments), NEW y, Chain(ws, segments, layout, ext, k, y),
           layout = "flat" => Apart(segments)
    PROVE  Ready(ws, y.todo)
  <1> DEFINE n == Len(y.todo)
             t == y.todo
  <1>1. /\ n \in Nat /\ DOMAIN t = 1..n
        /\ \A i \in 1..n : Extension(t[i].path) = ext
        /\ \A i, j \in 1..n : i # j => t[i].path # t[j].path
    <2>1. Spread(t, layout, ext)
      BY ChainApart
    <2>2. QED
      BY <2>1 DEF Spread
  <1>2. /\ \A i \in 1..n : t[i].do = "create" /\ t[i].path \notin DOMAIN ws
        /\ \A i \in 2..n : t[i].under = t[i - 1].path
        /\ n # 0 => Readable(ws, t[1].under) /\ Combined(ws, t[1].under)
    BY DEF Chain
  <1> HIDE DEF n, t
  <1>3. ASSUME NEW i \in 1..n
        PROVE  /\ t[i].path \notin DOMAIN ws /\ ~Opaque(t[i].path)
               /\ \A j \in 1..(i - 1) : t[j].do = "create" /\ t[j].path # t[i].path
               /\ \/ Under(ws, t[i].path, t[i].under)
                  \/ \E j \in 1..(i - 1) : t[j].path = t[i].under
    <2>1. ~Opaque(t[i].path)
      <3>1. Extension(t[i].path) = ext
        BY <1>1
      <3>2. QED
        BY <3>1 DEF Opaque, Content, WholeFile
    <2>2. \A j \in 1..(i - 1) : j \in 1..n /\ j # i
      BY <1>1
    <2>3. \A j \in 1..(i - 1) : t[j].do = "create" /\ t[j].path # t[i].path
      BY <1>1, <1>2, <2>2
    <2>4. CASE i = 1
      <3>1. n # 0
        BY <1>1
      <3>2. Under(ws, t[i].path, t[i].under)
        BY <1>2, <2>4, <3>1 DEF Under, Combined
      <3>3. QED
        BY <1>2, <2>1, <2>3, <3>2
    <2>5. CASE i # 1
      <3>1. i \in 2..n /\ i - 1 \in 1..(i - 1)
        BY <1>1, <2>5
      <3>2. t[i - 1].path = t[i].under
        BY <1>2, <3>1
      <3>3. QED
        BY <1>2, <2>1, <2>3, <3>1, <3>2
    <2>6. QED
      BY <2>4, <2>5
  <1>4. Ready(ws, t)
    BY <1>1, <1>3 DEF Ready
  <1>5. QED
    BY <1>4 DEF t

\* A last step that creates nothing at a place known beforehand.
LEMMA ReadyAppend ==
    ASSUME NEW ws, NEW t, IsSeq(t), Ready(ws, t), NEW s, s.do # "create"
    PROVE  Ready(ws, Append(t, s))
  <1> DEFINE u == Append(t, s)
             n == Len(t)
  <1>1. PICK C : t \in Seq(C)
    BY DEF IsSeq
  <1>2. /\ n \in Nat /\ DOMAIN t = 1..n /\ DOMAIN u = 1..(n + 1)
        /\ u[n + 1] = s /\ \A i \in 1..n : u[i] = t[i]
    <2> DEFINE D == C \cup {s}
    <2>1. t \in Seq(D) /\ s \in D
      BY <1>1
    <2> HIDE DEF D
    <2>2. QED
      BY <2>1
  <1> HIDE DEF u, n
  <1>3. SUFFICES ASSUME NEW i \in DOMAIN u, u[i].do = "create"
                 PROVE  /\ u[i].path \notin DOMAIN ws /\ ~Opaque(u[i].path)
                        /\ \A j \in 1..(i - 1) : u[j].do = "create" /\ u[j].path # u[i].path
                        /\ \/ Under(ws, u[i].path, u[i].under)
                           \/ \E j \in 1..(i - 1) : u[j].path = u[i].under
    BY DEF Ready, u
  <1>4. i \in 1..n /\ i \in DOMAIN t
    BY <1>2, <1>3
  <1>5. \A j \in 1..(i - 1) : u[j] = t[j]
    BY <1>2, <1>4
  <1>6. u[i] = t[i]
    BY <1>2, <1>4
  <1>7. /\ t[i].path \notin DOMAIN ws /\ ~Opaque(t[i].path)
        /\ \A j \in 1..(i - 1) : t[j].do = "create" /\ t[j].path # t[i].path
        /\ \/ Under(ws, t[i].path, t[i].under)
           \/ \E j \in 1..(i - 1) : t[j].path = t[i].under
    BY <1>3, <1>4, <1>6 DEF Ready
  <1>8. QED
    BY <1>5, <1>6, <1>7

\* The plan of a new document along a route can be carried out (PlanNew).
LEMMA NewPlanned ==
    ASSUME NEW ws, Filed(ws), NEW root, Readable(ws, root), NEW req,
           req.to.segments \in Seq(DOMAIN Slug), PlanNew(ws, root, req).ok
    PROVE  /\ Moving(PlanNew(ws, root, req).todo)
           /\ (req.to.layout = "flat" => Apart(req.to.segments)) =>
                  Ready(ws, PlanNew(ws, root, req).todo)
  <1> DEFINE segments == req.to.segments
             layout == req.to.layout
             plan == PlanRoute(ws, root, segments, layout)
             n == Len(segments)
             ext == Extension(root)
             leaf == Step("leaf", <<>>, plan.at, req.title)
  <1>1. PICK f : Walked(ws, root, segments, layout, f) /\ plan = f[n]
    BY PlanRouteIs
  <1>2. n \in 0..n
    OBVIOUS
  <1>3. PlanNew(ws, root, req).todo = Append(plan.todo, leaf) /\ plan.ok
    BY DEF PlanNew
  <1> HIDE DEF plan, leaf
  <1>4. Chain(ws, segments, layout, ext, n, plan)
    <2>1. \A k \in 0..n : f[k].ok => Chain(ws, segments, layout, ext, k, f[k])
      BY <1>1, WalkedIs
    <2>2. QED
      BY <1>1, <1>2, <1>3, <2>1
  <1>5. IsSeq(plan.todo) /\ leaf.do = "leaf"
    BY <1>4, StepIs DEF Chain, leaf
  <1>6. ext \in {"md", "yaml", "json"}
    BY DEF Readable, Opaque, Content, WholeFile
  <1>7. ASSUME layout = "flat" => Apart(segments)
        PROVE  Ready(ws, Append(plan.todo, leaf))
    <2> HIDE DEF segments, layout, ext, n
    <2>1. Ready(ws, plan.todo)
      <3>1. segments \in Seq(DOMAIN Slug)
        BY DEF segments
      <3>2. n = Len(segments)
        BY DEF n
      <3>3. QED
        BY <1>2, <1>4, <1>6, <1>7, <3>1, <3>2, ChainReady
    <2>2. QED
      BY <1>5, <2>1, ReadyAppend
  <1>8. Moving(Append(plan.todo, leaf))
    <2> DEFINE u == Append(plan.todo, leaf)
               m == Len(plan.todo)
    <2>1. PICK C : plan.todo \in Seq(C)
      BY <1>5 DEF IsSeq
    <2>2. /\ m \in Nat /\ DOMAIN u = 1..(m + 1)
          /\ u[m + 1] = leaf /\ \A i \in 1..m : u[i] = plan.todo[i]
      <3> DEFINE D == C \cup {leaf}
      <3>1. plan.todo \in Seq(D) /\ leaf \in D
        BY <2>1
      <3> HIDE DEF D
      <3>2. QED
        BY <3>1
    <2>3. IsSeq(u)
      BY <1>5, SeqAppend
    <2>4. \A i \in 1..m : plan.todo[i].do = "create" /\ Place(plan.todo[i].path)
      <3> HIDE DEF segments, layout, ext, n, u
      <3>1. \A i \in 1..m : /\ plan.todo[i].do = "create" /\ Place(plan.todo[i].under)
                           /\ plan.todo[i].path =
                                  SynthPath(plan.todo[i].under, plan.todo[i].title, layout, ext)
        BY <1>4 DEF Chain
      <3>2. QED
        BY <3>1, SynthIs
    <2> HIDE DEF u, m
    <2>5. ASSUME NEW i \in DOMAIN u
          PROVE  u[i].do \in Moves /\ (u[i].do \in {"create", "write"} => Place(u[i].path))
      <3>1. i \in 1..m \/ i = m + 1
        BY <2>2
      <3>2. CASE i \in 1..m
        <4>1. u[i].do = "create" /\ Place(u[i].path)
          BY <2>2, <2>4, <3>2
        <4>2. QED
          BY <4>1 DEF Moves
      <3>3. CASE i = m + 1
        <4>1. u[i].do = "leaf"
          BY <1>5, <2>2, <3>3
        <4>2. QED
          BY <4>1 DEF Moves
      <3>4. QED
        BY <3>1, <3>2, <3>3
    <2>6. Moving(u)
      BY <2>3, <2>5 DEF Moving, Typed
    <2>7. QED
      BY <2>6 DEF u
  <1>9. QED
    BY <1>3, <1>7, <1>8

-----------------------------------------------------------------------------
(* Taking a step.                                                          *)

\* A sequence after its first member.
LEMMA TailIs ==
    ASSUME NEW s, IsSeq(s), s # <<>>
    PROVE  /\ IsSeq(Tail(s)) /\ Len(s) \in Nat /\ Len(s) # 0 /\ Len(Tail(s)) = Len(s) - 1
           /\ Head(s) = s[1] /\ 1 \in DOMAIN s
           /\ \A i \in DOMAIN Tail(s) : i \in Nat /\ i # 0 /\ i + 1 \in DOMAIN s /\ Tail(s)[i] = s[i + 1]
  <1>1. PICK C : s \in Seq(C)
    BY DEF IsSeq
  <1>2. /\ Tail(s) \in Seq(C) /\ Len(s) \in Nat /\ Len(s) # 0 /\ Len(Tail(s)) = Len(s) - 1
        /\ Head(s) = s[1] /\ 1 \in DOMAIN s
    BY <1>1
  <1>3. DOMAIN Tail(s) = 1..(Len(s) - 1) /\ DOMAIN s = 1..Len(s)
    BY <1>1, <1>2
  <1>4. \A i \in 1..(Len(s) - 1) : Tail(s)[i] = s[i + 1]
    BY <1>1, <1>2
  <1>5. QED
    BY <1>2, <1>3, <1>4 DEF IsSeq

\* A document made where nothing is, as a file of its own.
Makes(ws, path, under, title, r) ==
    /\ r.ok /\ DOMAIN r.file = DOMAIN ws \cup {path}
    /\ r.file[path] = File(TRUE, String(title), {under}, {}, {})
    /\ r.file[under] = Listing(ws[under], path)
    /\ \A p \in DOMAIN ws \ {under} : r.file[p] = ws[p]
    /\ Filed(r.file) /\ Adds(ws, r.file)

\* A document that can be created is made, and listed by its parent (Create).
LEMMA CreateMakes ==
    ASSUME NEW ws, Filed(ws), NEW path, Place(path), path \notin DOMAIN ws,
           NEW under, Under(ws, path, under), NEW title
    PROVE  Makes(ws, path, under, title, Create(ws, path, under, title))
  <1> DEFINE node  == Node(ws, path, under)
             body  == {path} \ {node}
             added == [p \in {node, under} \cup body |->
                         CASE p = node  -> File(TRUE, String(title), {under}, {}, body)
                           [] p = under -> Listing(ws[under], node)
                           [] OTHER     -> Plain]
             r == Create(ws, path, under, title)
  <1>1. node = path /\ body = {}
    BY DEF Under, Node
  <1>2. Readable(ws, under) /\ under \in DOMAIN ws /\ under # path
    BY DEF Under, Readable
  <1>3. ({node} \cup body) \cap DOMAIN ws = {}
    BY <1>1
  <1>4. r = Done(Updated(ws, added))
    BY <1>2, <1>3 DEF Create
  <1>5. /\ DOMAIN added = {path, under}
        /\ added[path] = File(TRUE, String(title), {under}, {}, {})
        /\ added[under] = Listing(ws[under], path)
    BY <1>1, <1>2
  <1> HIDE DEF added, node, body
  <1> DEFINE w == Updated(ws, added)
  <1>6. /\ DOMAIN w = DOMAIN ws \cup DOMAIN added
        /\ \A p \in DOMAIN added : w[p] = added[p]
        /\ \A p \in DOMAIN ws \ DOMAIN added : w[p] = ws[p]
    BY UpdatedIs
  <1>7. r.ok /\ r.file = w
    BY <1>4 DEF Done
  <1>8. Filed(r.file) /\ Adds(ws, r.file)
    BY CreateFits DEF Fits
  <1> HIDE DEF w, r
  <1>9. /\ DOMAIN w = DOMAIN ws \cup {path}
        /\ w[path] = File(TRUE, String(title), {under}, {}, {})
        /\ w[under] = Listing(ws[under], path)
        /\ \A p \in DOMAIN ws \ {under} : w[p] = ws[p]
    BY <1>2, <1>5, <1>6
  <1>10. QED
    BY <1>7, <1>8, <1>9 DEF r, Makes

\* Every step only adds, and one that is refused changes nothing.
LEMMA TakeFits ==
    ASSUME NEW ws, Filed(ws), NEW step, step.do \in Moves,
           step.do = "create" => Place(step.path), NEW req
    PROVE  LET r == Take(ws, step, req)
           IN  Filed(r.file) /\ Adds(ws, r.file) /\ (~r.ok => r.file = ws)
  <1> DEFINE r == Take(ws, step, req)
             Fine(x) == Filed(x.file) /\ Adds(ws, x.file) /\ (~x.ok => x.file = ws)
  <1>1. \A x, new : Fits(ws, x, new) => Fine(x)
    BY DEF Fits
  <1>2. CASE step.do = "create"
    <2>1. r = Create(ws, step.path, step.under, step.title)
      BY <1>2 DEF Take
    <2>2. Fits(ws, Create(ws, step.path, step.under, step.title),
                   NewFiles(ws, step.path, step.under))
      BY <1>2, CreateFits
    <2>3. QED
      BY <1>1, <2>1, <2>2
  <1>3. CASE step.do = "adopt"
    <2>1. r = Adopt(ws, step.path, step.under)
      BY <1>3 DEF Take
    <2>2. QED
      BY <1>1, <2>1, AdoptFits
  <1>4. CASE step.do = "attach"
    <2>1. r = Attach(ws, step.path, step.under)
      BY <1>4 DEF Take
    <2>2. QED
      BY <1>1, <2>1, AttachFits
  <1>5. CASE step.do = "leaf"
    <2> DEFINE path == LeafPath(step.under, step.title)
    <2>1. r = Leaf(ws, step.under, step.title, req.parents)
      BY <1>5 DEF Take
    <2>2. \/ r = Create(ws, path, step.under, step.title)
          \/ r = Refused(ws)
          \/ r = Adopt(ws, path, step.under)
      BY <2>1 DEF Leaf
    <2>3. Readable(ws, step.under) => Place(path)
      <3>1. Readable(ws, step.under) => Place(step.under)
        BY DEF Readable, Filed
      <3>2. QED
        BY <3>1, InDirIs DEF LeafPath
    <2> HIDE DEF path
    <2>4. Fits(ws, Create(ws, path, step.under, step.title), NewFiles(ws, path, step.under))
      BY <2>3, CreateFits
    <2>5. Fits(ws, Adopt(ws, path, step.under), {})
      BY AdoptFits
    <2>6. Fine(Refused(ws))
      BY AddsSelf DEF Refused
    <2>7. QED
      BY <1>1, <2>2, <2>4, <2>5, <2>6
  <1>6. QED
    BY <1>2, <1>3, <1>4, <1>5 DEF Moves

\* What can be carried out: the next document is made, and what remains can
\* be carried out after it.
LEMMA ReadyStep ==
    ASSUME NEW ws, Filed(ws), NEW todo, Moving(todo), Ready(ws, todo), todo # <<>>, NEW req
    PROVE  LET r == Take(ws, Head(todo), req)
           IN  (Head(todo).do = "create" => r.ok) /\ Ready(r.file, Tail(todo))
  <1> DEFINE s == Head(todo)
             r == Take(ws, s, req)
             t == Tail(todo)
  <1>1. /\ s = todo[1] /\ 1 \in DOMAIN todo
        /\ \A i \in DOMAIN t : i \in Nat /\ i # 0 /\ i + 1 \in DOMAIN todo /\ t[i] = todo[i + 1]
        /\ IsSeq(t) /\ Len(todo) \in Nat
    BY TailIs DEF Moving, Typed
  <1>2. DOMAIN t = 1..Len(t) /\ Len(t) \in Nat
    BY <1>1, SeqIs
  <1> HIDE DEF s, t
  <1>3. CASE s.do # "create"
    <2>1. ASSUME NEW i \in DOMAIN t PROVE t[i].do # "create"
      <3>1. 1 \in 1..((i + 1) - 1) /\ i + 1 \in DOMAIN todo /\ t[i] = todo[i + 1]
        BY <1>1, <2>1
      <3>2. QED
        BY <1>1, <1>3, <3>1 DEF Ready
    <2>2. Ready(r.file, t)
      BY <2>1 DEF Ready
    <2>3. QED
      BY <1>3, <2>2 DEF s, t
  <1>4. CASE s.do = "create"
    <2> DEFINE p == s.path
               u == s.under
    <2>1. p \notin DOMAIN ws /\ ~Opaque(p) /\ Under(ws, p, u) /\ Place(p)
      <3>1. \A j \in 1..(1 - 1) : FALSE
        OBVIOUS
      <3>2. p \notin DOMAIN ws /\ ~Opaque(p) /\ Under(ws, p, u)
        BY <1>1, <1>4, <3>1 DEF Ready
      <3>3. QED
        BY <1>1, <1>4, <3>2 DEF Moving, Typed
    <2>2. r = Create(ws, p, u, s.title)
      BY <1>4 DEF Take
    <2> HIDE DEF p, u, r
    <2>3. /\ r.ok /\ DOMAIN r.file = DOMAIN ws \cup {p}
          /\ r.file[p] = File(TRUE, String(s.title), {u}, {}, {})
          /\ Adds(ws, r.file)
      <3>1. Makes(ws, p, u, s.title, r)
        BY <2>1, <2>2, CreateMakes
      <3>2. QED
        BY <3>1 DEF Makes
    <2>4. Readable(r.file, p) /\ r.file[p].content = {}
      <3>1. \A t0, u0, d0, c0 : File(TRUE, t0, u0, d0, c0).content = c0
        BY DEF File
      <3> DEFINE new == File(TRUE, String(s.title), {u}, {}, {})
      <3>2. new.content = {}
        BY <3>1
      <3> HIDE DEF new
      <3>3. r.file[p] = new
        BY <2>3 DEF new
      <3>4. QED
        BY <2>1, <2>3, <3>2, <3>3 DEF Readable
    <2>5. Ready(r.file, t)
      <3>1. SUFFICES ASSUME NEW i \in DOMAIN t, t[i].do = "create"
                     PROVE  /\ t[i].path \notin DOMAIN r.file /\ ~Opaque(t[i].path)
                            /\ \A j \in 1..(i - 1) : t[j].do = "create" /\ t[j].path # t[i].path
                            /\ \/ Under(r.file, t[i].path, t[i].under)
                               \/ \E j \in 1..(i - 1) : t[j].path = t[i].under
        BY DEF Ready
      <3> DEFINE k == i + 1
      <3>2. i \in Nat /\ i # 0 /\ k \in DOMAIN todo /\ t[i] = todo[k] /\ 1 \in 1..(k - 1)
        BY <1>1, <3>1
      <3>3. /\ t[i].path \notin DOMAIN ws /\ ~Opaque(t[i].path)
            /\ \A j \in 1..(k - 1) : todo[j].do = "create" /\ todo[j].path # t[i].path
            /\ \/ Under(ws, t[i].path, t[i].under)
               \/ \E j \in 1..(k - 1) : todo[j].path = t[i].under
        <4> HIDE DEF k
        <4>1. QED
          BY <3>1, <3>2 DEF Ready
      <3>4. t[i].path # p
        BY <1>1, <3>2, <3>3 DEF p
      <3>5. ASSUME NEW j \in 1..(i - 1) PROVE t[j].do = "create" /\ t[j].path # t[i].path
        <4>1. j \in DOMAIN t /\ j + 1 \in 1..(k - 1)
          BY <1>2, <3>1, <3>2
        <4>2. t[j] = todo[j + 1]
          BY <1>1, <4>1
        <4>3. QED
          BY <3>3, <4>1, <4>2
      <3>6. CASE Under(ws, t[i].path, t[i].under)
        <4>1. Under(r.file, t[i].path, t[i].under)
          BY <2>3, <3>6 DEF Under, Readable, Adds
        <4>2. QED
          BY <2>3, <3>3, <3>4, <3>5, <4>1
      <3>7. CASE \E j \in 1..(k - 1) : todo[j].path = t[i].under
        <4>1. PICK j \in 1..(k - 1) : todo[j].path = t[i].under
          BY <3>7
        <4>2. CASE j = 1
          <5>1. t[i].under = p
            BY <1>1, <4>1, <4>2 DEF p
          <5>2. Under(r.file, t[i].path, t[i].under)
            BY <2>4, <5>1 DEF Under
          <5>3. QED
            BY <2>3, <3>3, <3>4, <3>5, <5>2
        <4>3. CASE j # 1
          <5>1. j - 1 \in 1..(i - 1) /\ j - 1 \in DOMAIN t
            BY <1>2, <3>1, <3>2, <4>1, <4>3
          <5>2. t[j - 1] = todo[(j - 1) + 1] /\ (j - 1) + 1 = j
            BY <1>1, <3>2, <4>1, <5>1
          <5>3. t[j - 1].path = t[i].under
            BY <4>1, <5>2
          <5>4. QED
            BY <2>3, <3>3, <3>4, <3>5, <5>1, <5>3
        <4>4. QED
          BY <4>2, <4>3
      <3>8. QED
        BY <3>3, <3>6, <3>7
    <2>6. QED
      BY <1>4, <2>3, <2>5 DEF r, s, t
  <1>5. QED
    BY <1>3, <1>4

-----------------------------------------------------------------------------
(* What init has still to do.                                              *)

\* First the files it writes, each once; a survey of what there is, if it
\* makes one, before nothing but payloads.
Opening(t) ==
    /\ Typed(t)
    /\ \A i \in DOMAIN t :
          /\ t[i].do \in Early \cup {"adopt", "attach"}
          /\ t[i].do = "write" =>
                \A j \in 1..(i - 1) : t[j].do = "write" /\ t[j].path # t[i].path
          /\ t[i].do = "survey" => \A j \in DOMAIN t : i < j => t[j].do = "attach"

\* Nothing is where they are to be written.
Free(ws, t) == \A i \in DOMAIN t : t[i].do = "write" => t[i].path \notin DOMAIN ws

\* What init does, from its second step.
LEMMA OpeningTail ==
    ASSUME NEW t, Opening(t), t # <<>>
    PROVE  Opening(Tail(t))
  <1> DEFINE u == Tail(t)
  <1>1. /\ IsSeq(u) /\ Len(t) \in Nat /\ Len(u) = Len(t) - 1
        /\ \A i \in DOMAIN u : i \in Nat /\ i # 0 /\ i + 1 \in DOMAIN t /\ u[i] = t[i + 1]
    BY TailIs DEF Opening, Typed
  <1>2. DOMAIN u = 1..Len(u) /\ Len(u) \in Nat
    BY <1>1, SeqIs
  <1> HIDE DEF u
  <1>3. Typed(u)
    BY <1>1 DEF Opening, Typed
  <1>4. ASSUME NEW i \in DOMAIN u
        PROVE  /\ u[i].do \in Early \cup {"adopt", "attach"}
               /\ u[i].do = "write" =>
                     \A j \in 1..(i - 1) : u[j].do = "write" /\ u[j].path # u[i].path
               /\ u[i].do = "survey" => \A j \in DOMAIN u : i < j => u[j].do = "attach"
    <2>1. i \in Nat /\ i # 0 /\ i + 1 \in DOMAIN t /\ u[i] = t[i + 1]
      BY <1>1
    <2>2. \A j \in 1..(i - 1) : j \in DOMAIN u /\ j + 1 \in 1..((i + 1) - 1) /\ u[j] = t[j + 1]
      BY <1>1, <1>2, <1>4, <2>1
    <2>3. \A j \in DOMAIN u : i < j => j + 1 \in DOMAIN t /\ i + 1 < j + 1 /\ u[j] = t[j + 1]
      BY <1>1, <2>1
    <2> DEFINE k == i + 1
    <2>4. /\ t[k].do \in Early \cup {"adopt", "attach"}
          /\ t[k].do = "write" =>
                \A j \in 1..(k - 1) : t[j].do = "write" /\ t[j].path # t[k].path
          /\ t[k].do = "survey" => \A j \in DOMAIN t : k < j => t[j].do = "attach"
      <3> HIDE DEF k
      <3>1. k \in DOMAIN t
        BY <2>1 DEF k
      <3>2. QED
        BY <3>1 DEF Opening
    <2>5. QED
      BY <2>1, <2>2, <2>3, <2>4
  <1>5. QED
    BY <1>3, <1>4 DEF Opening, u

\* What is taken in, from the second step.
LEMMA MovingTail ==
    ASSUME NEW t, Moving(t), t # <<>>
    PROVE  Moving(Tail(t))
  BY TailIs DEF Moving, Typed

\* The places left to write stay free of files.
LEMMA FreeTail ==
    ASSUME NEW ws, NEW t, IsSeq(t), t # <<>>, Free(ws, t)
    PROVE  Free(ws, Tail(t))
  BY TailIs DEF Free

\* More to be taken in, after what it writes.
LEMMA OpeningMore ==
    ASSUME NEW t, Opening(t), NEW m, IsSeq(m),
           \A i \in DOMAIN m : /\ m[i].do \in {"survey", "adopt", "attach"}
                               /\ m[i].do = "survey" => \A j \in DOMAIN m : i < j => m[j].do = "attach",
           (\E i \in DOMAIN t : t[i].do = "survey") => \A i \in DOMAIN m : m[i].do = "attach"
    PROVE  /\ Opening(t \o m)
           /\ \A i \in DOMAIN (t \o m) : \/ \E k \in DOMAIN t : (t \o m)[i] = t[k]
                                         \/ \E k \in DOMAIN m : (t \o m)[i] = m[k]
           /\ \A k \in DOMAIN t : k \in DOMAIN (t \o m) /\ (t \o m)[k] = t[k]
  <1> DEFINE u == t \o m
             n == Len(t)
  <1>1. IsSeq(t) /\ n \in Nat /\ Len(m) \in Nat /\ DOMAIN t = 1..n /\ DOMAIN m = 1..Len(m)
    BY SeqIs DEF Opening, Typed
  <1>2. /\ IsSeq(u) /\ Len(u) = n + Len(m)
        /\ \A k \in 1..n : u[k] = t[k]
        /\ \A k \in 1..Len(m) : u[n + k] = m[k]
        /\ \A k \in 1..Len(u) : k \in 1..n \/ k - n \in 1..Len(m)
    BY <1>1, SeqCat
  <1> HIDE DEF u, n
  <1>3. DOMAIN u = 1..Len(u)
    BY <1>2, SeqIs
  <1>4. \A i \in DOMAIN u : i \in 1..n \/ (i - n \in DOMAIN m /\ u[i] = m[i - n] /\ i \in Nat)
    <2>1. ASSUME NEW i \in DOMAIN u, i \notin 1..n
          PROVE  i - n \in DOMAIN m /\ u[i] = m[i - n] /\ i \in Nat
      <3>1. i - n \in 1..Len(m) /\ i \in Nat
        BY <1>2, <1>3, <2>1
      <3>2. u[n + (i - n)] = m[i - n] /\ n + (i - n) = i
        BY <1>1, <1>2, <3>1
      <3>3. QED
        BY <1>1, <3>1, <3>2
    <2>2. QED
      BY <2>1
  <1>5. \A i \in 1..n : i \in DOMAIN t /\ i \in DOMAIN u /\ u[i] = t[i]
    BY <1>1, <1>2, <1>3
  <1>6. \A i \in DOMAIN t : /\ t[i].do \in Early \cup {"adopt", "attach"}
                            /\ t[i].do \in {"create", "write"} => Place(t[i].path)
    BY DEF Opening, Typed
  <1>7. Typed(u)
    <2>1. ASSUME NEW i \in DOMAIN u
          PROVE  /\ u[i].do \in Moves \cup Early
                 /\ u[i].do \in {"create", "write"} => Place(u[i].path)
      <3>1. CASE i \in 1..n
        BY <1>5, <1>6, <3>1 DEF Moves
      <3>2. CASE i - n \in DOMAIN m /\ u[i] = m[i - n]
        BY <3>2 DEF Moves, Early
      <3>3. QED
        BY <1>4, <3>1, <3>2
    <2>2. QED
      BY <1>2, <2>1 DEF Typed
  <1>8. ASSUME NEW i \in DOMAIN u
        PROVE  /\ u[i].do \in Early \cup {"adopt", "attach"}
               /\ u[i].do = "write" =>
                     \A j \in 1..(i - 1) : u[j].do = "write" /\ u[j].path # u[i].path
               /\ u[i].do = "survey" => \A j \in DOMAIN u : i < j => u[j].do = "attach"
    <2>1. CASE i \in 1..n
      <3>1. /\ t[i].do \in Early \cup {"adopt", "attach"}
            /\ t[i].do = "write" =>
                  \A j \in 1..(i - 1) : t[j].do = "write" /\ t[j].path # t[i].path
            /\ t[i].do = "survey" => \A j \in DOMAIN t : i < j => t[j].do = "attach"
        BY <1>5, <2>1 DEF Opening
      <3>2. \A j \in 1..(i - 1) : u[j] = t[j]
        BY <1>1, <1>5, <2>1
      <3>3. ASSUME t[i].do = "survey", NEW j \in DOMAIN u, i < j PROVE u[j].do = "attach"
        <4>1. CASE j \in 1..n
          BY <1>5, <3>1, <3>3, <4>1
        <4>2. CASE j - n \in DOMAIN m /\ u[j] = m[j - n]
          BY <1>5, <2>1, <3>3, <4>2
        <4>3. QED
          BY <1>4, <4>1, <4>2
      <3>4. QED
        BY <1>5, <2>1, <3>1, <3>2, <3>3
    <2>2. CASE i - n \in DOMAIN m /\ u[i] = m[i - n] /\ i \in Nat
      <3>1. u[i].do \in {"survey", "adopt", "attach"}
        BY <2>2
      <3>2. ASSUME u[i].do = "survey", NEW j \in DOMAIN u, i < j PROVE u[j].do = "attach"
        <4>1. j \notin 1..n
          BY <1>1, <2>2, <3>2
        <4>2. j - n \in DOMAIN m /\ u[j] = m[j - n] /\ j \in Nat
          BY <1>4, <4>1
        <4>3. i - n < j - n
          BY <1>1, <2>2, <3>2, <4>2
        <4>4. QED
          BY <2>2, <3>2, <4>2, <4>3
      <3>3. QED
        BY <3>1, <3>2 DEF Early
    <2>3. QED
      BY <1>4, <2>1, <2>2
  <1>9. Opening(u)
    BY <1>7, <1>8 DEF Opening
  <1>10. /\ \A i \in DOMAIN u : (\E k \in DOMAIN t : u[i] = t[k]) \/ (\E k \in DOMAIN m : u[i] = m[k])
         /\ \A k \in DOMAIN t : k \in DOMAIN u /\ u[k] = t[k]
    BY <1>1, <1>4, <1>5
  <1>11. QED
    BY <1>9, <1>10 DEF u

-----------------------------------------------------------------------------
(* The files that init writes.                                             *)

\* A file at the top.
LEMMA TopIs ==
    \A s, ext : /\ Place(<<<<s, ext>>>>) /\ Dir(<<<<s, ext>>>>) = <<>>
                /\ Name(<<<<s, ext>>>>) = <<s, ext>> /\ Stem(<<<<s, ext>>>>) = <<s>>
                /\ Extension(<<<<s, ext>>>>) = ext
  <1> TAKE s, ext
  <1> DEFINE x == <<s, ext>>
             p == <<x>>
             e == <<>>
  <1>1. e \in Seq({}) /\ p = Append(e, x)
    OBVIOUS
  <1>2. <<s>> \in Seq({s}) /\ x = Append(<<s>>, ext)
    OBVIOUS
  <1>3. Front(x) = <<s>> /\ Last(x) = ext
    <2> DEFINE t == <<s>>
    <2>1. t \in Seq({s}) /\ x = Append(t, ext)
      BY <1>2
    <2> HIDE DEF t, x
    <2>2. Front(x) = t /\ Last(x) = ext
      BY <2>1, AppendIs
    <2>3. QED
      BY <2>2 DEF t
  <1> HIDE DEF x, p, e
  <1>4. Place(p) /\ Front(p) = e /\ Last(p) = x
    BY <1>1, AppendIs
  <1>5. QED
    BY <1>3, <1>4 DEF Dir, Name, Stem, Extension, x, p, e

\* The files that init writes are different files.
LEMMA WritesApart ==
    Index("md") # Index("yaml") /\ Index("md") # ConfigDoc /\ Index("yaml") # ConfigDoc
  <1>1. Extension(Index("md")) = "md" /\ Extension(Index("yaml")) = "yaml"
        /\ Extension(ConfigDoc) = "yaml"
    BY TopIs DEF Index, ConfigDoc
  <1>2. Stem(Index("yaml")) = <<"index">> /\ Stem(ConfigDoc) = <<"prov">>
    BY TopIs DEF Index, ConfigDoc
  <1>3. <<"index">> # <<"prov">>
    OBVIOUS
  <1>4. QED
    BY <1>1, <1>2, <1>3

Write(p) == Step("write", p, <<>>, "")

\* A step that writes.
LEMMA WriteIs == \A p : Write(p).do = "write" /\ Write(p).path = p
  BY DEF Write, Step

\* The first of what init does: a file or two or three.
LEMMA OpeningTwo ==
    ASSUME NEW p, Place(p), NEW s, s.do \in {"write", "point"},
           s.do = "write" => Place(s.path) /\ s.path # p
    PROVE  Opening(<<Write(p), s>>)
  <1> DEFINE w == Write(p)
             t == <<w, s>>
  <1>1. w.do = "write" /\ w.path = p
    BY WriteIs
  <1> HIDE DEF w
  <1>2. t \in Seq({w, s}) /\ DOMAIN t = 1..2 /\ t[1] = w /\ t[2] = s
    OBVIOUS
  <1> HIDE DEF t
  <1>3. \A i \in 1..2 : i = 1 \/ i = 2
    OBVIOUS
  <1>4. \A j \in 1..(1 - 1) : FALSE
    OBVIOUS
  <1>5. \A j \in 1..(2 - 1) : j = 1
    OBVIOUS
  <1>6. Typed(t)
    BY <1>1, <1>2, <1>3 DEF Typed, IsSeq, Early
  <1>7. Opening(t)
    BY <1>1, <1>2, <1>3, <1>4, <1>5, <1>6 DEF Opening, Early
  <1>8. QED
    BY <1>7 DEF t, w

\* Three files to begin with.
LEMMA OpeningThree ==
    ASSUME NEW p, Place(p), NEW q, Place(q), NEW r, Place(r), p # q, p # r, q # r
    PROVE  Opening(<<Write(p), Write(q), Write(r)>>)
  <1> DEFINE a == Write(p)
             b == Write(q)
             c == Write(r)
             t == <<a, b, c>>
  <1>1. /\ a.do = "write" /\ a.path = p /\ b.do = "write" /\ b.path = q
        /\ c.do = "write" /\ c.path = r
    BY WriteIs
  <1> HIDE DEF a, b, c
  <1>2. t \in Seq({a, b, c}) /\ DOMAIN t = 1..3 /\ t[1] = a /\ t[2] = b /\ t[3] = c
    OBVIOUS
  <1> HIDE DEF t
  <1>3. \A i \in 1..3 : i = 1 \/ i = 2 \/ i = 3
    OBVIOUS
  <1>4. /\ \A j \in 1..(1 - 1) : FALSE
        /\ \A j \in 1..(2 - 1) : j = 1
        /\ \A j \in 1..(3 - 1) : j = 1 \/ j = 2
    OBVIOUS
  <1>6. Typed(t)
    BY <1>1, <1>2, <1>3 DEF Typed, IsSeq, Early
  <1>7. Opening(t)
    BY <1>1, <1>2, <1>3, <1>4, <1>6 DEF Opening, Early
  <1>8. QED
    BY <1>7 DEF t, a, b, c

\* What init is to do, in a directory that is no workspace yet.
Sound(ws, req, root, t) ==
    /\ Dir(root) = <<>> /\ Opening(t) /\ Free(ws, t)
    /\ (\E i \in DOMAIN t : t[i].do = "survey") => req.adopt = "walk" \/ Mirrors(req)
    /\ \/ root \in DOMAIN ws
       \/ \E i \in DOMAIN t : t[i].do = "write" /\ t[i].path = root
    /\ ~(req.separate /\ req.pick = {}) => Content(root)

\* What init plans is Sound (FoundingWrites).
LEMMA FoundingPlanned ==
    ASSUME NEW ws, Filed(ws), ~Initialized(ws), NEW req, req.pick \subseteq TopDocs(ws)
    PROVE  Sound(ws, req, FoundingRoot(req), FoundingWrites(ws, req))
  <1> DEFINE root == FoundingRoot(req)
             a == IF req.pick # {} THEN <<Write(ConfigDoc), Step("point", root, <<>>, "")>>
                  ELSE IF req.separate THEN <<Write(Index("md")), Write(root), Write(ConfigDoc)>>
                  ELSE <<Write(root), Write(ConfigDoc)>>
             flat == {Step("adopt", p, root, "") : p \in LooseDocs(ws)}
             payloads == {Step("attach", q, root, "") : q \in LooseOthers(ws)}
             survey == <<Step("survey", root, <<>>, "")>>
             looks == \/ Mirrors(req) /\ LooseDocs(ws) # {}
                      \/ req.adopt = "walk"
             b == CASE looks -> survey
                    [] req.adopt = "none" -> <<>>
                    [] OTHER -> SetToSeq(flat)
             c == IF req.attach /\ req.adopt # "walk" THEN SetToSeq(payloads) ELSE <<>>
             t == a \o b \o c
  <1>1. FoundingWrites(ws, req) = t
    BY DEF FoundingWrites, Write
  <1>2. /\ Place(Index("md")) /\ Place(Index("yaml")) /\ Place(ConfigDoc)
        /\ Dir(Index("md")) = <<>> /\ Dir(Index("yaml")) = <<>> /\ Dir(ConfigDoc) = <<>>
        /\ Stem(Index("md")) = <<"index">> /\ Stem(Index("yaml")) = <<"index">>
        /\ Stem(ConfigDoc) = <<"prov">>
        /\ Content(Index("md")) /\ WholeFile(Index("yaml")) /\ WholeFile(ConfigDoc)
    BY TopIs DEF Index, ConfigDoc, Content, WholeFile
  <1>3. /\ Index("md") \notin DOMAIN ws /\ Index("yaml") \notin DOMAIN ws /\ ConfigDoc \notin DOMAIN ws
    BY <1>2 DEF Initialized, AtTop, Opaque
  <1>4. /\ req.pick # {} => root \in DOMAIN ws /\ Dir(root) = <<>> /\ Content(root)
        /\ req.pick = {} /\ req.separate => root = Index("yaml")
        /\ req.pick = {} /\ ~req.separate => root = Index("md")
    BY DEF FoundingRoot, TopDocs, AtTop, ContentDocuments
  <1>5. Dir(root) = <<>> /\ (~(req.separate /\ req.pick = {}) => Content(root))
    BY <1>2, <1>4
  <1>6. /\ Opening(a) /\ \A i \in DOMAIN a : a[i].do \in {"write", "point"}
        /\ Free(ws, a)
        /\ root \in DOMAIN ws \/ \E i \in DOMAIN a : a[i].do = "write" /\ a[i].path = root
    <2> HIDE DEF root
    <2>1. CASE req.pick # {}
      <3> DEFINE s == Step("point", root, <<>>, "")
                 w == Write(ConfigDoc)
      <3>1. s.do = "point"
        BY DEF Step
      <3>2. w.do = "write" /\ w.path = ConfigDoc
        BY WriteIs
      <3>3. a = <<w, s>>
        BY <2>1
      <3>4. Opening(<<w, s>>)
        <4> HIDE DEF s
        <4>1. QED
          BY <1>2, <3>1, OpeningTwo
      <3> HIDE DEF s, w, a
      <3>5. DOMAIN a = 1..2 /\ a[1] = w /\ a[2] = s /\ \A i \in 1..2 : i = 1 \/ i = 2
        BY <3>3
      <3>6. QED
        BY <1>3, <1>4, <2>1, <3>1, <3>2, <3>3, <3>4, <3>5 DEF Free
    <2>2. CASE req.pick = {} /\ req.separate
      <3> DEFINE u == Write(Index("md"))
                 v == Write(root)
                 w == Write(ConfigDoc)
      <3>1. /\ u.do = "write" /\ u.path = Index("md") /\ v.do = "write" /\ v.path = Index("yaml")
            /\ w.do = "write" /\ w.path = ConfigDoc /\ root = Index("yaml")
        BY <1>4, <2>2, WriteIs
      <3>2. a = <<u, v, w>>
        BY <2>2
      <3>3. Opening(<<u, v, w>>)
        BY <1>2, <3>1, WritesApart, OpeningThree
      <3> HIDE DEF u, v, w, a
      <3>4. /\ DOMAIN a = 1..3 /\ a[1] = u /\ a[2] = v /\ a[3] = w
            /\ \A i \in 1..3 : i = 1 \/ i = 2 \/ i = 3
        BY <3>2
      <3>5. QED
        BY <1>3, <3>1, <3>2, <3>3, <3>4 DEF Free
    <2>3. CASE req.pick = {} /\ ~req.separate
      <3> DEFINE v == Write(root)
                 w == Write(ConfigDoc)
      <3>1. /\ v.do = "write" /\ v.path = Index("md")
            /\ w.do = "write" /\ w.path = ConfigDoc /\ root = Index("md")
        BY <1>4, <2>3, WriteIs
      <3>2. a = <<v, w>>
        BY <2>3
      <3>3. Opening(<<v, w>>)
        <4> HIDE DEF w
        <4>1. QED
          BY <1>2, <3>1, WritesApart, OpeningTwo
      <3> HIDE DEF v, w, a
      <3>4. DOMAIN a = 1..2 /\ a[1] = v /\ a[2] = w /\ \A i \in 1..2 : i = 1 \/ i = 2
        BY <3>2
      <3>5. QED
        BY <1>3, <3>1, <3>2, <3>3, <3>4 DEF Free
    <2>4. QED
      BY <2>1, <2>2, <2>3
  <1>7. /\ IsSeq(SetToSeq(flat)) /\ \A i \in DOMAIN SetToSeq(flat) : SetToSeq(flat)[i].do = "adopt"
        /\ IsSeq(SetToSeq(payloads))
        /\ \A i \in DOMAIN SetToSeq(payloads) : SetToSeq(payloads)[i].do = "attach"
    <2> DEFINE f == [p \in LooseDocs(ws) |-> Step("adopt", p, root, "")]
               g == [q \in LooseOthers(ws) |-> Step("attach", q, root, "")]
    <2>1. flat = {f[p] : p \in LooseDocs(ws)} /\ payloads = {g[q] : q \in LooseOthers(ws)}
      OBVIOUS
    <2>2. IsFiniteSet(LooseDocs(ws)) /\ IsFiniteSet(LooseOthers(ws))
      <3>1. LooseDocs(ws) \subseteq DOMAIN ws /\ LooseOthers(ws) \subseteq DOMAIN ws
        BY DEF LooseDocs, LooseOthers, ContentDocuments
      <3>2. QED
        BY <3>1, FS_Subset DEF Filed
    <2>3. (\A s \in flat : s.do = "adopt") /\ \A s \in payloads : s.do = "attach"
      <3> HIDE DEF root
      <3>1. \A p : Step("adopt", p, root, "").do = "adopt" /\ Step("attach", p, root, "").do = "attach"
        BY DEF Step
      <3>2. QED
        BY <3>1
    <2> HIDE DEF f, g, flat, payloads
    <2>4. IsFiniteSet(flat) /\ IsFiniteSet(payloads)
      BY <2>1, <2>2, ImageFinite
    <2>5. QED
      BY <2>3, <2>4, SeqOfSet
  <1>8. /\ IsSeq(survey) /\ DOMAIN survey = 1..1 /\ survey[1].do = "survey"
        /\ IsSeq(<<>>) /\ DOMAIN <<>> = {}
    <2> DEFINE s == Step("survey", root, <<>>, "")
    <2>1. s.do = "survey"
      BY DEF Step
    <2> HIDE DEF s
    <2>2. <<s>> \in Seq({s}) /\ DOMAIN <<s>> = 1..1 /\ <<s>>[1] = s
      OBVIOUS
    <2>3. survey = <<s>>
      BY DEF s
    <2>4. DOMAIN <<>> = {}
      OBVIOUS
    <2>5. QED
      BY <2>1, <2>2, <2>3, <2>4, EmptyIs DEF IsSeq
  <1>9. /\ IsSeq(b)
        /\ \A i \in DOMAIN b : /\ b[i].do \in {"survey", "adopt", "attach"}
                               /\ b[i].do = "survey" =>
                                     looks /\ \A j \in DOMAIN b : i < j => b[j].do = "attach"
    <2> HIDE DEF flat, survey, looks, b
    <2>1. CASE looks
      <3>1. looks => req.adopt # "none"
        BY DEF looks, Mirrors
      <3>2. b = survey
        BY <2>1, <3>1 DEF b
      <3>3. \A i, j \in 1..1 : i = 1 /\ ~(i < j)
        OBVIOUS
      <3>4. QED
        BY <1>8, <2>1, <3>2, <3>3
    <2>2. CASE ~looks /\ req.adopt = "none"
      <3>1. b = <<>>
        BY <2>2 DEF b
      <3>2. QED
        BY <1>8, <3>1
    <2>3. CASE ~looks /\ req.adopt # "none"
      <3>1. b = SetToSeq(flat)
        BY <2>3 DEF b
      <3>2. QED
        BY <1>7, <3>1
    <2>4. QED
      BY <2>1, <2>2, <2>3
  <1>10. IsSeq(c) /\ \A i \in DOMAIN c : c[i].do = "attach"
    <2> HIDE DEF payloads
    <2>1. QED
      BY <1>7, <1>8
  <1> HIDE DEF a, b, c, root, looks
  <1> DEFINE ab == a \o b
  <1>11. /\ Opening(ab)
         /\ \A i \in DOMAIN ab : (\E k \in DOMAIN a : ab[i] = a[k]) \/ (\E k \in DOMAIN b : ab[i] = b[k])
         /\ \A k \in DOMAIN a : k \in DOMAIN ab /\ ab[k] = a[k]
    <2>1. ~ \E i \in DOMAIN a : a[i].do = "survey"
      BY <1>6
    <2>2. \A i \in DOMAIN b : /\ b[i].do \in {"survey", "adopt", "attach"}
                              /\ b[i].do = "survey" => \A j \in DOMAIN b : i < j => b[j].do = "attach"
      BY <1>9
    <2>3. QED
      BY <1>6, <1>9, <2>1, <2>2, OpeningMore
  <1> HIDE DEF ab
  <1>12. /\ Opening(t)
         /\ \A i \in DOMAIN t : (\E k \in DOMAIN ab : t[i] = ab[k]) \/ (\E k \in DOMAIN c : t[i] = c[k])
         /\ \A k \in DOMAIN ab : k \in DOMAIN t /\ t[k] = ab[k]
    <2>1. t = ab \o c
      BY DEF ab
    <2>2. \A i \in DOMAIN c : /\ c[i].do \in {"survey", "adopt", "attach"}
                              /\ c[i].do = "survey" => \A j \in DOMAIN c : i < j => c[j].do = "attach"
      BY <1>10
    <2> HIDE DEF t
    <2>3. QED
      BY <1>10, <1>11, <2>1, <2>2, OpeningMore
  <1> HIDE DEF t
  <1>13. \A i \in DOMAIN t : \/ \E k \in DOMAIN a : t[i] = a[k]
                             \/ \E k \in DOMAIN b : t[i] = b[k]
                             \/ \E k \in DOMAIN c : t[i] = c[k]
    BY <1>11, <1>12
  <1>14. Free(ws, t)
    <2>1. ASSUME NEW i \in DOMAIN t, t[i].do = "write" PROVE t[i].path \notin DOMAIN ws
      <3>1. PICK k \in DOMAIN a : t[i] = a[k]
        BY <1>9, <1>10, <1>13, <2>1
      <3>2. QED
        BY <1>6, <2>1, <3>1 DEF Free
    <2>2. QED
      BY <2>1 DEF Free
  <1>15. (\E i \in DOMAIN t : t[i].do = "survey") => looks
    <2>1. ASSUME NEW i \in DOMAIN t, t[i].do = "survey" PROVE looks
      <3>1. PICK k \in DOMAIN b : t[i] = b[k]
        BY <1>6, <1>10, <1>13, <2>1
      <3>2. QED
        BY <1>9, <2>1, <3>1
    <2>2. QED
      BY <2>1
  <1>16. root \in DOMAIN ws \/ \E i \in DOMAIN t : t[i].do = "write" /\ t[i].path = root
    BY <1>6, <1>11, <1>12
  <1>17. Sound(ws, req, root, t)
    BY <1>5, <1>12, <1>14, <1>15, <1>16 DEF Sound, looks
  <1>18. QED
    BY <1>1, <1>17 DEF root

-----------------------------------------------------------------------------
(* Plans as they are made.                                                 *)

\* The root that a command finds can be read.
LEMMA RootIs ==
    ASSUME NEW ws, NEW root \in RootOf(ws)
    PROVE  /\ root \in DOMAIN ws /\ Dir(root) = <<>> /\ Readable(ws, root)
           /\ Content(root) \/ WholeFile(root)
           /\ ws[root].meta
  <1> DEFINE found     == RootCandidates(ws)
             called(s) == {p \in found : Stem(p) = <<s>>}
  <1>1. root \in found
    <2>1. \A S : S # {} => (CHOOSE p \in S : TRUE) \in S
      OBVIOUS
    <2>2. called("index") \subseteq found /\ called("readme") \subseteq found
      OBVIOUS
    <2>3. RootOf(ws) \subseteq found
      <3> HIDE DEF found, called
      <3>1. RootOf(ws) =
               IF called("index") # {} THEN {CHOOSE p \in called("index") : TRUE}
               ELSE IF called("readme") # {} THEN {CHOOSE p \in called("readme") : TRUE}
               ELSE IF Cardinality(found) = 1 THEN found
               ELSE {}
        BY DEF RootOf, found, called
      <3>2. QED
        BY <2>1, <2>2, <3>1
    <2>4. QED
      BY <2>3
  <1>2. QED
    BY <1>1 DEF RootCandidates, Readable, Opaque

\* Routes whose documents, side by side, have names that differ.
RoutesApart ==
    \A req \in Requests :
        req.op = "new" /\ req.to.layout = "flat" => Apart(req.to.segments)

\* Whatever a command plans is to be taken in, and can be (Plan).
LEMMA BeginPlanned ==
    ASSUME NEW ws, Filed(ws), NEW root \in RootOf(ws), NEW req \in Requests,
           Plan(ws, root, req).ok
    PROVE  /\ Moving(Plan(ws, root, req).todo) /\ req.op # "init"
           /\ RoutesApart => Ready(ws, Plan(ws, root, req).todo)
  <1>1. /\ root \in DOMAIN ws /\ Dir(root) = <<>> /\ Readable(ws, root)
        /\ Content(root) \/ WholeFile(root)
    BY RootIs
  <1>2. CASE req.op = "new"
    <2>1. Plan(ws, root, req) = PlanNew(ws, root, req)
      BY <1>2 DEF Plan
    <2>2. req.to.segments \in Seq(DOMAIN Slug)
      BY <1>2, RequestsAssumption
    <2>3. PlanNew(ws, root, req).ok
      BY <2>1
    <2>4. /\ Moving(PlanNew(ws, root, req).todo)
          /\ (req.to.layout = "flat" => Apart(req.to.segments)) =>
                  Ready(ws, PlanNew(ws, root, req).todo)
      BY <1>1, <2>2, <2>3, NewPlanned
    <2>5. QED
      BY <1>2, <2>1, <2>4 DEF RoutesApart
  <1>3. CASE req.op = "mirror"
    <2>1. Plan(ws, root, req) = PlanMirror(ws, root)
      BY <1>3 DEF Plan
    <2>2. PlanMirror(ws, root).ok = Combined(ws, root)
      BY DEF PlanMirror
    <2>3. Content(root)
      BY <1>1, <2>1, <2>2 DEF Combined
    <2>4. Moving(PlanMirror(ws, root).todo) /\ Ready(ws, PlanMirror(ws, root).todo)
      BY <1>1, <2>3, MirrorPlanned
    <2>5. QED
      BY <1>3, <2>1, <2>4
  <1>4. CASE req.op = "attach"
    <2>1. Plan(ws, root, req) = PlanAttach(ws, root, req.recursive)
      BY <1>4 DEF Plan
    <2>2. QED
      BY <1>4, <2>1, AttachPlanned
  <1>5. req.op \in {"new", "mirror", "attach"}
    BY RequestsAssumption
  <1>6. QED
    BY <1>2, <1>3, <1>4, <1>5

\* One plan after another, and one that creates nothing after one that can be
\* carried out.
LEMMA PlansAfter ==
    ASSUME NEW a, Moving(a), NEW b, Moving(b)
    PROVE  /\ Moving(a \o b)
           /\ \A ws : Ready(ws, a) /\ (\A i \in DOMAIN b : b[i].do # "create") => Ready(ws, a \o b)
  <1> DEFINE u == a \o b
             n == Len(a)
  <1>1. IsSeq(a) /\ IsSeq(b) /\ n \in Nat /\ Len(b) \in Nat /\ DOMAIN a = 1..n /\ DOMAIN b = 1..Len(b)
    BY SeqIs DEF Moving, Typed
  <1>2. /\ IsSeq(u) /\ Len(u) = n + Len(b)
        /\ \A k \in 1..n : u[k] = a[k]
        /\ \A k \in 1..Len(b) : u[n + k] = b[k]
        /\ \A k \in 1..Len(u) : k \in 1..n \/ k - n \in 1..Len(b)
    BY <1>1, SeqCat
  <1> HIDE DEF u, n
  <1>3. DOMAIN u = 1..Len(u)
    BY <1>2, SeqIs
  <1>4. ASSUME NEW i \in DOMAIN u
        PROVE  \/ i \in 1..n /\ u[i] = a[i]
               \/ i - n \in DOMAIN b /\ u[i] = b[i - n]
    <2>1. CASE i \in 1..n
      BY <1>2, <2>1
    <2>2. CASE i - n \in 1..Len(b)
      <3>1. u[n + (i - n)] = b[i - n] /\ n + (i - n) = i
        BY <1>1, <1>2, <1>3, <2>2
      <3>2. QED
        BY <1>1, <2>2, <3>1
    <2>3. QED
      BY <1>2, <1>3, <2>1, <2>2
  <1>5. Moving(u)
    <2>1. \A i \in DOMAIN a : a[i].do \in Moves /\ (a[i].do \in {"create", "write"} => Place(a[i].path))
      BY DEF Moving, Typed
    <2>2. \A i \in DOMAIN b : b[i].do \in Moves /\ (b[i].do \in {"create", "write"} => Place(b[i].path))
      BY DEF Moving, Typed
    <2>3. \A i \in DOMAIN u : u[i].do \in Moves /\ (u[i].do \in {"create", "write"} => Place(u[i].path))
      BY <1>1, <1>4, <2>1, <2>2
    <2>4. QED
      BY <1>2, <2>3 DEF Moving, Typed
  <1>6. ASSUME NEW ws, Ready(ws, a), \A i \in DOMAIN b : b[i].do # "create"
        PROVE  Ready(ws, u)
    <2>1. SUFFICES ASSUME NEW i \in DOMAIN u, u[i].do = "create"
                   PROVE  /\ u[i].path \notin DOMAIN ws /\ ~Opaque(u[i].path)
                          /\ \A j \in 1..(i - 1) : u[j].do = "create" /\ u[j].path # u[i].path
                          /\ \/ Under(ws, u[i].path, u[i].under)
                             \/ \E j \in 1..(i - 1) : u[j].path = u[i].under
      BY DEF Ready
    <2>2. i \in 1..n /\ i \in DOMAIN a /\ u[i] = a[i]
      BY <1>1, <1>4, <1>6, <2>1
    <2>3. \A j \in 1..(i - 1) : u[j] = a[j]
      BY <1>1, <1>2, <2>2
    <2>4. /\ a[i].path \notin DOMAIN ws /\ ~Opaque(a[i].path)
          /\ \A j \in 1..(i - 1) : a[j].do = "create" /\ a[j].path # a[i].path
          /\ \/ Under(ws, a[i].path, a[i].under)
             \/ \E j \in 1..(i - 1) : a[j].path = a[i].under
      BY <1>6, <2>1, <2>2 DEF Ready
    <2>5. QED
      BY <2>2, <2>3, <2>4
  <1>7. QED
    BY <1>5, <1>6 DEF u

-----------------------------------------------------------------------------
(* The invariant that the proofs below rest on.                            *)

IsCommand(c) == c = [on |-> c.on, req |-> c.req, root |-> c.root, todo |-> c.todo]

\* The files are files; what is still to do is either all to be taken in, or
\* begins with the files that init writes, and where nobody edits nothing is
\* where these are to be.
IntakeInv ==
    /\ Filed(file) /\ edits \in Nat
    /\ IsCommand(cmd)
    /\ cmd.on => \/ Moving(cmd.todo)
                 \/ cmd.req.op = "init" /\ Dir(cmd.root) = <<>> /\ Opening(cmd.todo)
    /\ cmd.on /\ same => Free(file, cmd.todo)

\* The invariant holds to begin with.
LEMMA IntakeInit == Init => IntakeInv
  <1> SUFFICES ASSUME Init PROVE IntakeInv
    OBVIOUS
  <1>1. Filed(file)
    BY FilesAssumption DEF Init, Filed, IsPlace, Place
  <1>2. IsCommand(cmd) /\ ~cmd.on
    BY DEF Init, Idle, IsCommand
  <1>3. QED
    BY <1>1, <1>2 DEF Init, IntakeInv

\* A command with something else to do.
After(c, t, d) ==
    IsCommand(d) /\ d.on = c.on /\ d.req = c.req /\ d.root = c.root /\ d.todo = t

\* A command with other steps to take.
LEMMA CommandIs ==
    \A c, t : IsCommand(c) => After(c, t, [c EXCEPT !.todo = t])
  BY DEF IsCommand, After

\* No command.
LEMMA IdleIs == IsCommand(Idle) /\ ~Idle.on
  BY DEF Idle, IsCommand

\* What remains to be taken in has nothing to write.
LEMMA MovingFree ==
    ASSUME NEW t, Moving(t)
    PROVE  \A ws : Free(ws, t)
  BY DEF Moving, Moves, Free

\* The first step of what is to be taken in, or of what init does.
LEMMA HeadIs ==
    ASSUME NEW t, t # <<>>, Moving(t) \/ Opening(t)
    PROVE  /\ IsSeq(t) /\ Head(t) = t[1] /\ 1 \in DOMAIN t
           /\ Head(t).do \in Moves \cup Early
           /\ Head(t).do \in {"create", "write"} => Place(Head(t).path)
           /\ Moving(t) => Head(t).do \in Moves
  BY TailIs DEF Moving, Opening, Typed

\* TakesIn keeps the invariant and only adds.
LEMMA IntakeTakesIn ==
    ASSUME IntakeInv, TakesIn
    PROVE  IntakeInv' /\ Adds(file, file')
  <1> DEFINE s == Head(cmd.todo)
             r == Take(file, s, cmd.req)
             t == cmd.todo
  <1>1. cmd.on /\ t # <<>> /\ s.do \in Moves /\ edits' = edits /\ same' = same
    BY DEF TakesIn, At, Advance, Moves
  <1>2. /\ file' = r.file
        /\ \/ cmd' = [cmd EXCEPT !.todo = Tail(t)]
           \/ cmd' = Idle
    BY DEF TakesIn, Advance
  <1>3. Moving(t) \/ (cmd.req.op = "init" /\ Dir(cmd.root) = <<>> /\ Opening(t))
    BY <1>1 DEF IntakeInv
  <1>4. IsSeq(t) /\ s = t[1] /\ 1 \in DOMAIN t /\ (s.do = "create" => Place(s.path))
    BY <1>1, <1>3, HeadIs
  <1>5. Filed(file) /\ IsCommand(cmd) /\ edits \in Nat
    BY DEF IntakeInv
  <1> HIDE DEF s, t
  <1>6. Filed(file') /\ Adds(file, file')
    BY <1>1, <1>2, <1>4, <1>5, TakeFits
  <1> HIDE DEF r
  <1>7. CASE cmd' = Idle
    BY <1>1, <1>5, <1>6, <1>7, IdleIs DEF IntakeInv
  <1>8. CASE cmd' = [cmd EXCEPT !.todo = Tail(t)]
    <2>1. /\ IsCommand(cmd') /\ cmd'.on = cmd.on /\ cmd'.req = cmd.req
          /\ cmd'.root = cmd.root /\ cmd'.todo = Tail(t)
      BY <1>5, <1>8, CommandIs DEF After
    <2>2. CASE Moving(t)
      <3>1. Moving(Tail(t)) /\ Free(file', Tail(t))
        BY <1>1, <2>2, MovingTail, MovingFree
      <3>2. QED
        BY <1>1, <1>5, <1>6, <2>1, <3>1 DEF IntakeInv
    <2>3. CASE cmd.req.op = "init" /\ Dir(cmd.root) = <<>> /\ Opening(t)
      <3>1. Opening(Tail(t))
        BY <1>1, <2>3, OpeningTail
      <3>2. Free(file', Tail(t))
        <4>1. ASSUME NEW i \in DOMAIN Tail(t), Tail(t)[i].do = "write" PROVE FALSE
          <5>1. i \in Nat /\ i # 0 /\ i + 1 \in DOMAIN t /\ t[i + 1].do = "write"
            BY <1>1, <1>4, <4>1, TailIs
          <5>2. 1 \in 1..((i + 1) - 1)
            BY <5>1
          <5>3. t[1].do = "write"
            BY <2>3, <5>1, <5>2 DEF Opening
          <5>4. QED
            BY <1>1, <1>4, <5>3 DEF Moves
        <4>2. QED
          BY <4>1 DEF Free
      <3>3. QED
        BY <1>5, <1>6, <1>1, <2>1, <2>3, <3>1, <3>2 DEF IntakeInv
    <2>4. QED
      BY <1>3, <2>2, <2>3
  <1>9. QED
    BY <1>2, <1>6, <1>7, <1>8

\* WriteFile keeps the invariant and, with nobody editing, only adds.
LEMMA IntakeWriteFile ==
    ASSUME IntakeInv, WriteFile
    PROVE  /\ IntakeInv'
           /\ (cmd.on /\ cmd.req.op = "init" => same) => Adds(file, file')
           /\ DOMAIN file' = DOMAIN file \cup {Head(cmd.todo).path}
           /\ cmd.req.op = "init" /\ Opening(cmd.todo)
  <1> DEFINE s == Head(cmd.todo)
             t == cmd.todo
             q == s.path
             new == [p \in {q} |-> FoundingFile(p)]
  <1>1. cmd.on /\ t # <<>> /\ s.do = "write" /\ edits' = edits /\ same' = same
    BY DEF WriteFile, At
  <1>2. file' = Updated(file, new) /\ cmd' = [cmd EXCEPT !.todo = Tail(t)]
    BY DEF WriteFile
  <1>3. Filed(file) /\ IsCommand(cmd) /\ edits \in Nat
    BY DEF IntakeInv
  <1>4. Moving(t) \/ (cmd.req.op = "init" /\ Dir(cmd.root) = <<>> /\ Opening(t))
    BY <1>1 DEF IntakeInv
  <1>5. IsSeq(t) /\ s = t[1] /\ 1 \in DOMAIN t /\ Place(q)
    BY <1>1, <1>4, HeadIs
  <1>6. cmd.req.op = "init" /\ Dir(cmd.root) = <<>> /\ Opening(t)
    <2>1. ~Moving(t)
      BY <1>1, HeadIs DEF Moves
    <2>2. QED
      BY <1>4, <2>1
  <1>7. IsFile(FoundingFile(q))
    <2> DEFINE apart == IF cmd.req.separate THEN {Index("md")} ELSE {}
    <2>1. \/ FoundingFile(q) = File(TRUE, String("Home"), {}, {}, apart)
          \/ FoundingFile(q) = File(TRUE, String("prov config"), {}, {}, {})
          \/ FoundingFile(q) = Plain
      <3> DEFINE a == File(TRUE, String("Home"), {}, {}, apart)
                 b == File(TRUE, String("prov config"), {}, {}, {})
      <3>1. FoundingFile(q) = IF q = cmd.root THEN a ELSE IF q = ConfigDoc THEN b ELSE Plain
        BY DEF FoundingFile
      <3> HIDE DEF a, b
      <3>2. FoundingFile(q) \in {a, b, Plain}
        BY <3>1
      <3>3. QED
        BY <3>2 DEF a, b
    <2>2. IsFile(Plain)
      BY FileIs DEF Plain
    <2>3. \A x, u, d, c : IsFile(File(TRUE, x, u, d, c))
      BY DEF File, IsFile
    <2> HIDE DEF apart
    <2>4. QED
      BY <2>1, <2>2, <2>3
  <1>8. DOMAIN new = {q} /\ new[q] = FoundingFile(q)
    OBVIOUS
  <1>9. IsFiniteSet({q})
    BY FS_Singleton
  <1> HIDE DEF s, t, q, new
  <1>10. Filed(new)
    BY <1>5, <1>7, <1>8, <1>9 DEF Filed
  <1>11. DOMAIN file' = DOMAIN file \cup {q} /\ Filed(file')
    <2>1. /\ DOMAIN Updated(file, new) = DOMAIN file \cup DOMAIN new
          /\ \A p \in DOMAIN new : Updated(file, new)[p] = new[p]
          /\ \A p \in DOMAIN file \ DOMAIN new : Updated(file, new)[p] = file[p]
      BY UpdatedIs
    <2>2. IsFiniteSet(DOMAIN file \cup {q})
      BY <1>3, <1>9, FS_Union DEF Filed
    <2> DEFINE w == Updated(file, new)
    <2> HIDE DEF w
    <2>3. /\ DOMAIN w = DOMAIN file \cup {q}
          /\ \A p \in DOMAIN w : (w[p] = new[p] /\ p \in DOMAIN new) \/ (w[p] = file[p] /\ p \in DOMAIN file)
      <3>1. /\ DOMAIN w = DOMAIN file \cup DOMAIN new
            /\ \A p \in DOMAIN new : w[p] = new[p]
            /\ \A p \in DOMAIN file \ DOMAIN new : w[p] = file[p]
        BY <2>1 DEF w
      <3>2. QED
        BY <1>8, <3>1
    <2>4. Filed(w)
      BY <1>3, <1>10, <2>2, <2>3 DEF Filed
    <2>5. QED
      BY <1>2, <2>3, <2>4 DEF w
  <1>12. ASSUME cmd.on /\ cmd.req.op = "init" => same
         PROVE  Adds(file, file')
    <2>1. q \notin DOMAIN file
      BY <1>1, <1>5, <1>6, <1>12 DEF IntakeInv, Free, t, q, s
    <2>2. QED
      BY <1>2, <1>3, <1>8, <1>10, <2>1, UpdatedFits
  <1>13. /\ IsCommand(cmd') /\ cmd'.on = cmd.on /\ cmd'.req = cmd.req
         /\ cmd'.root = cmd.root /\ cmd'.todo = Tail(t)
    BY <1>2, <1>3, CommandIs DEF After
  <1>14. Opening(Tail(t))
    BY <1>1, <1>6, OpeningTail
  <1>15. ASSUME same PROVE Free(file', Tail(t))
    <2>1. Free(file, t)
      BY <1>1, <1>15 DEF IntakeInv, t
    <2>2. ASSUME NEW i \in DOMAIN Tail(t), Tail(t)[i].do = "write"
          PROVE  Tail(t)[i].path \notin DOMAIN file'
      <3>1. i \in Nat /\ i # 0 /\ i + 1 \in DOMAIN t /\ Tail(t)[i] = t[i + 1]
        BY <1>1, <1>5, <2>2, TailIs
      <3>2. 1 \in 1..((i + 1) - 1)
        BY <3>1
      <3>3. t[1].path # t[i + 1].path
        BY <1>6, <2>2, <3>1, <3>2 DEF Opening
      <3>4. t[i + 1].path \notin DOMAIN file
        BY <2>1, <2>2, <3>1 DEF Free
      <3>5. QED
        BY <1>5, <1>11, <3>1, <3>3, <3>4 DEF q
    <2>3. QED
      BY <2>2 DEF Free
  <1>16. IntakeInv'
    BY <1>1, <1>3, <1>6, <1>11, <1>13, <1>14, <1>15 DEF IntakeInv
  <1>17. QED
    BY <1>6, <1>11, <1>12, <1>16 DEF t, q, s

\* Point keeps the invariant and only adds.
LEMMA IntakePoint ==
    ASSUME IntakeInv, Point
    PROVE  /\ IntakeInv' /\ Adds(file, file') /\ DOMAIN file' = DOMAIN file
           /\ cmd'.on => /\ cmd.req.op = "init" /\ Opening(cmd.todo)
                         /\ cmd'.todo = Tail(cmd.todo) /\ cmd'.root = cmd.root
  <1> DEFINE t == cmd.todo
  <1>1. cmd.on /\ t # <<>> /\ Head(t).do = "point" /\ edits' = edits /\ same' = same
    BY DEF Point, At
  <1>2. Filed(file) /\ IsCommand(cmd) /\ edits \in Nat
    BY DEF IntakeInv
  <1>3. cmd.req.op = "init" /\ Dir(cmd.root) = <<>> /\ Opening(t)
    <2>1. Moving(t) \/ (cmd.req.op = "init" /\ Dir(cmd.root) = <<>> /\ Opening(t))
      BY <1>1 DEF IntakeInv
    <2>2. ~Moving(t)
      BY <1>1, HeadIs DEF Moves
    <2>3. QED
      BY <2>1, <2>2
  <1> HIDE DEF t
  <1>4. CASE Readable(file, cmd.root)
    <2> DEFINE r == cmd.root
               w == [file EXCEPT ![r] = WithMetadata(file[r])]
    <2>1. file' = w /\ cmd' = [cmd EXCEPT !.todo = Tail(t)] /\ r \in DOMAIN file
      BY <1>4 DEF Point, Readable, t
    <2>2. /\ DOMAIN w = DOMAIN file /\ w[r] = WithMetadata(file[r])
          /\ \A p \in DOMAIN file : p # r => w[p] = file[p]
      BY <2>1
    <2>3. /\ IsFile(WithMetadata(file[r]))
          /\ WithMetadata(file[r]).title = file[r].title
          /\ WithMetadata(file[r]).up = file[r].up /\ WithMetadata(file[r]).down = file[r].down
          /\ WithMetadata(file[r]).content = file[r].content
      BY DEF WithMetadata, File, IsFile
    <2> HIDE DEF w, r
    <2>4. Filed(w) /\ Adds(file, w)
      BY <1>2, <2>2, <2>3 DEF Filed, Adds
    <2>5. /\ IsCommand(cmd') /\ cmd'.on = cmd.on /\ cmd'.req = cmd.req
          /\ cmd'.root = cmd.root /\ cmd'.todo = Tail(t)
      BY <1>2, <2>1, CommandIs DEF After
    <2>6. Opening(Tail(t))
      BY <1>1, <1>3, OpeningTail
    <2>7. ASSUME same PROVE Free(file', Tail(t))
      <3>1. Free(file, t) /\ IsSeq(t)
        BY <1>1, <1>3, <2>7 DEF IntakeInv, t, Opening, Typed
      <3>2. Free(file, Tail(t))
        BY <1>1, <3>1, FreeTail
      <3>3. QED
        BY <2>1, <2>2, <3>2 DEF Free
    <2>8. IntakeInv'
      BY <1>1, <1>2, <1>3, <2>1, <2>4, <2>5, <2>6, <2>7 DEF IntakeInv
    <2>9. QED
      BY <1>3, <2>1, <2>2, <2>4, <2>5, <2>8 DEF t
  <1>5. CASE ~Readable(file, cmd.root)
    <2>1. file' = file /\ cmd' = Idle
      BY <1>5 DEF Point
    <2>2. QED
      BY <1>1, <1>2, <2>1, IdleIs, AddsSelf DEF IntakeInv
  <1>6. QED
    BY <1>4, <1>5

\* Survey keeps the invariant: what it plans is to be taken in.
LEMMA IntakeSurvey ==
    ASSUME IntakeInv, Survey
    PROVE  /\ IntakeInv' /\ file' = file
           /\ Opening(cmd.todo) /\ cmd.todo # <<>> /\ Head(cmd.todo).do = "survey"
           /\ cmd.on /\ Dir(cmd.root) = <<>>
           /\ cmd'.todo = (IF cmd.req.adopt = "walk" THEN PlanWalk(file, cmd.root, cmd.req)
                           ELSE PlanMirror(file, cmd.root).todo) \o Tail(cmd.todo)
           /\ \A i \in DOMAIN Tail(cmd.todo) : Tail(cmd.todo)[i].do = "attach"
           /\ Moving(Tail(cmd.todo)) /\ Moving(cmd'.todo)
  <1> DEFINE t == cmd.todo
             plan == IF cmd.req.adopt = "walk" THEN PlanWalk(file, cmd.root, cmd.req)
                                               ELSE PlanMirror(file, cmd.root).todo
  <1>1. /\ cmd.on /\ t # <<>> /\ Head(t).do = "survey" /\ edits' = edits /\ same' = same
        /\ file' = file
    BY DEF Survey, At
  <1>2. Filed(file) /\ IsCommand(cmd) /\ edits \in Nat
    BY DEF IntakeInv
  <1>3. cmd.req.op = "init" /\ Dir(cmd.root) = <<>> /\ Opening(t)
    <2>1. Moving(t) \/ (cmd.req.op = "init" /\ Dir(cmd.root) = <<>> /\ Opening(t))
      BY <1>1 DEF IntakeInv
    <2>2. ~Moving(t)
      BY <1>1, HeadIs DEF Moves
    <2>3. QED
      BY <2>1, <2>2
  <1>4. Moving(plan)
    BY <1>2, <1>3, MirrorPlanned, WalkPlanned
  <1>5. cmd' = [cmd EXCEPT !.todo = plan \o Tail(t)]
    BY DEF Survey
  <1> HIDE DEF plan, t
  <1>6. \A i \in DOMAIN Tail(t) : Tail(t)[i].do = "attach"
    <2>1. IsSeq(t)
      BY <1>3 DEF Opening, Typed
    <2>2. /\ Head(t) = t[1] /\ 1 \in DOMAIN t
          /\ \A i \in DOMAIN Tail(t) : i \in Nat /\ i # 0 /\ i + 1 \in DOMAIN t /\ Tail(t)[i] = t[i + 1]
      BY <1>1, <2>1, TailIs
    <2>3. \A i \in DOMAIN Tail(t) : 1 < i + 1
      BY <2>2
    <2>4. \A j \in DOMAIN t : 1 < j => t[j].do = "attach"
      BY <1>1, <1>3, <2>2 DEF Opening
    <2>5. QED
      BY <2>2, <2>3, <2>4
  <1>7. Moving(Tail(t))
    <2>1. IsSeq(Tail(t))
      BY <1>1, <1>3, TailIs DEF Opening, Typed
    <2>2. QED
      BY <1>6, <2>1 DEF Moving, Typed, Moves
  <1> DEFINE u == plan \o Tail(t)
  <1>8. Moving(u)
    BY <1>4, <1>7, PlansAfter
  <1> HIDE DEF u
  <1>9. /\ IsCommand(cmd') /\ cmd'.on = cmd.on /\ cmd'.req = cmd.req
        /\ cmd'.root = cmd.root /\ cmd'.todo = u
    BY <1>2, <1>5, CommandIs DEF After, u
  <1>10. \A ws : Free(ws, u)
    BY <1>8, MovingFree
  <1>11. IntakeInv'
    BY <1>1, <1>2, <1>8, <1>9, <1>10 DEF IntakeInv
  <1>12. QED
    BY <1>1, <1>3, <1>6, <1>7, <1>8, <1>9, <1>11 DEF t, plan, u

\* Begin keeps the invariant.
LEMMA IntakeBegin ==
    ASSUME IntakeInv, NEW req \in Requests, Begin(req)
    PROVE  /\ IntakeInv' /\ file' = file /\ edits' = edits /\ last'.status # "failed"
           /\ cmd'.on => \E root \in RootOf(file) :
                 /\ Plan(file, root, req).ok /\ cmd'.todo = Plan(file, root, req).todo
                 /\ cmd'.req = req /\ cmd'.root = root
  <1>1. ~cmd.on /\ file' = file /\ edits' = edits
    BY DEF Begin
  <1>2. Filed(file) /\ IsCommand(cmd) /\ edits \in Nat
    BY DEF IntakeInv
  <1>3. PICK root \in RootOf(file) :
           LET plan == Plan(file, root, req)
           IN  IF plan.ok
               THEN /\ cmd' = [on |-> TRUE, req |-> req, root |-> root, todo |-> plan.todo]
                    /\ last' = End("running", req, "")
               ELSE /\ last' = End("refused", req, "")
                    /\ UNCHANGED cmd
    BY DEF Begin
  <1> DEFINE plan == Plan(file, root, req)
  <1>4. CASE plan.ok
    <2>1. /\ cmd' = [on |-> TRUE, req |-> req, root |-> root, todo |-> plan.todo]
          /\ last' = End("running", req, "")
      BY <1>3, <1>4
    <2>2. Moving(plan.todo)
      BY <1>2, <1>4, BeginPlanned
    <2> HIDE DEF plan
    <2>3. IsCommand(cmd') /\ cmd'.todo = plan.todo /\ cmd'.req = req /\ cmd'.root = root
      BY <2>1 DEF IsCommand
    <2>4. \A ws : Free(ws, plan.todo)
      BY <2>2, MovingFree
    <2>5. IntakeInv'
      BY <1>1, <1>2, <2>2, <2>3, <2>4 DEF IntakeInv
    <2>6. last'.status # "failed"
      BY <2>1 DEF End
    <2>7. QED
      BY <1>1, <1>4, <2>3, <2>5, <2>6 DEF plan
  <1>5. CASE ~plan.ok
    <2>1. last' = End("refused", req, "") /\ cmd' = cmd
      BY <1>3, <1>5
    <2>2. last'.status # "failed"
      BY <2>1 DEF End
    <2>3. QED
      BY <1>1, <1>2, <2>1, <2>2 DEF IntakeInv
  <1>6. QED
    BY <1>4, <1>5

\* Found keeps the invariant, with a plan that is Sound.
LEMMA IntakeFound ==
    ASSUME IntakeInv, NEW req \in Foundings, Found(req)
    PROVE  /\ IntakeInv' /\ file' = file /\ edits' = edits /\ last'.status # "failed"
           /\ Sound(file, req, cmd'.root, cmd'.todo) /\ cmd'.req = req
  <1>1. /\ file' = file /\ edits' = edits /\ ~Initialized(file) /\ req.pick \subseteq TopDocs(file)
        /\ cmd' = [on |-> TRUE, req |-> req, root |-> FoundingRoot(req),
                   todo |-> FoundingWrites(file, req)]
        /\ last' = End("running", req, "")
    BY DEF Found
  <1>2. Filed(file) /\ IsCommand(cmd) /\ edits \in Nat
    BY DEF IntakeInv
  <1> DEFINE r == FoundingRoot(req)
             t == FoundingWrites(file, req)
  <1>3. Sound(file, req, r, t)
    BY <1>1, <1>2, FoundingPlanned
  <1> HIDE DEF r, t
  <1>4. IsCommand(cmd') /\ cmd'.todo = t /\ cmd'.req = req /\ cmd'.root = r
    BY <1>1 DEF IsCommand, r, t
  <1>5. req.op = "init"
    BY FoundingsAssumption
  <1>6. Dir(r) = <<>> /\ Opening(t) /\ Free(file, t)
    BY <1>3 DEF Sound
  <1>7. IntakeInv'
    BY <1>1, <1>2, <1>4, <1>5, <1>6 DEF IntakeInv
  <1>8. last'.status # "failed"
    BY <1>1 DEF End
  <1>9. QED
    BY <1>1, <1>3, <1>4, <1>7, <1>8

\* People keep the invariant.
LEMMA IntakeEdit ==
    ASSUME IntakeInv, Edit
    PROVE  IntakeInv' /\ edits' # edits /\ ~same'
  <1>1. Filed(file) /\ IsCommand(cmd) /\ edits \in Nat
    BY DEF IntakeInv
  <1>2. edits' = edits + 1 /\ same' = FALSE /\ cmd' = cmd
    BY DEF Edit
  <1>3. Filed(file')
    <2>1. CASE \E p \in DOMAIN ByHand : \E f \in ByHand[p] : file' = Updated(file, [q \in {p} |-> f])
      <3>0. PICK p \in DOMAIN ByHand : \E f \in ByHand[p] : file' = Updated(file, [q \in {p} |-> f])
        BY <2>1
      <3>1. PICK f \in ByHand[p] : file' = Updated(file, [q \in {p} |-> f])
        BY <3>0
      <3> DEFINE new == [q \in {p} |-> f]
      <3>2. Place(p) /\ IsFile(f)
        BY FilesAssumption DEF IsPlace, Place
      <3>3. DOMAIN new = {p} /\ new[p] = f /\ IsFiniteSet({p})
        BY FS_Singleton
      <3>4. file' = Updated(file, new)
        BY <3>1
      <3> HIDE DEF new
      <3>5. /\ DOMAIN Updated(file, new) = DOMAIN file \cup DOMAIN new
            /\ \A q \in DOMAIN new : Updated(file, new)[q] = new[q]
            /\ \A q \in DOMAIN file \ DOMAIN new : Updated(file, new)[q] = file[q]
        BY UpdatedIs
      <3>6. IsFiniteSet(DOMAIN file \cup {p})
        BY <1>1, <3>3, FS_Union DEF Filed
      <3> DEFINE w == file'
      <3>7. /\ DOMAIN w = DOMAIN file \cup {p} /\ w[p] = f
            /\ \A q \in DOMAIN file : q # p => w[q] = file[q]
        BY <3>3, <3>4, <3>5
      <3> HIDE DEF w
      <3>8. Filed(w)
        BY <1>1, <3>2, <3>6, <3>7 DEF Filed
      <3>9. QED
        BY <3>8 DEF w
    <2>2. CASE \E p \in DOMAIN file \ RootOf(file) : file' = [q \in DOMAIN file \ {p} |-> file[q]]
      <3>1. PICK p \in DOMAIN file : file' = [q \in DOMAIN file \ {p} |-> file[q]]
        BY <2>2
      <3> DEFINE D == DOMAIN file \ {p}
                 w == [q \in D |-> file[q]]
      <3>2. IsFiniteSet(D)
        BY <1>1, FS_Difference DEF Filed
      <3>3. DOMAIN w = D /\ \A q \in D : q \in DOMAIN file /\ w[q] = file[q]
        OBVIOUS
      <3> HIDE DEF w, D
      <3>4. Filed(w)
        BY <1>1, <3>2, <3>3 DEF Filed
      <3>5. QED
        BY <3>1, <3>4 DEF w, D
    <2>3. QED
      BY <2>1, <2>2 DEF Edit
  <1>4. IntakeInv'
    BY <1>1, <1>2, <1>3 DEF IntakeInv
  <1>5. QED
    BY <1>1, <1>2, <1>4

\* Every step keeps the invariant.
LEMMA IntakeStep ==
    ASSUME IntakeInv, [FoundingNext]_vars
    PROVE  IntakeInv'
  <1>1. CASE UNCHANGED vars
    BY <1>1 DEF vars, IntakeInv
  <1>2. CASE \E req \in Foundings : Found(req)
    BY <1>2, IntakeFound
  <1>3. CASE \E req \in Requests : Begin(req)
    BY <1>3, IntakeBegin
  <1>4. CASE WriteFile
    BY <1>4, IntakeWriteFile
  <1>5. CASE Point
    BY <1>5, IntakePoint
  <1>6. CASE Survey
    BY <1>6, IntakeSurvey
  <1>7. CASE TakesIn
    BY <1>7, IntakeTakesIn
  <1>8. CASE Finish \/ Kill
    BY <1>8, IdleIs DEF Finish, Kill, IntakeInv
  <1>9. CASE Edit
    BY <1>9, IntakeEdit
  <1>10. QED
    BY <1>1, <1>2, <1>3, <1>4, <1>5, <1>6, <1>7, <1>8, <1>9 DEF FoundingNext

\* IntakeInv is an invariant, of every workspace, request and interview
\* (route.rs, intake.rs, init.rs).
THEOREM IntakeSound == FoundingSpec => []IntakeInv
  <1>1. Init => IntakeInv
    BY IntakeInit
  <1>2. IntakeInv /\ [FoundingNext]_vars => IntakeInv'
    BY IntakeStep
  <1>3. QED
    BY <1>1, <1>2, PTL DEF FoundingSpec

\* What prov does here only adds (OnlyAdds).
Kept ==
    edits' = edits /\ (cmd.on /\ cmd.req.op = "init" => same) =>
         \A p \in DOMAIN file :
            /\ p \in DOMAIN file'
            /\ file[p].meta => file'[p].title = file[p].title
            /\ file'[p].content = file[p].content
            /\ file[p].up \subseteq file'[p].up
            /\ file[p].down \subseteq file'[p].down

\* Every step but an edit only adds.
LEMMA StepAdds ==
    ASSUME IntakeInv, FoundingNext
    PROVE  Kept
  <1>1. SUFFICES ASSUME edits' = edits, cmd.on /\ cmd.req.op = "init" => same
                 PROVE  Adds(file, file')
    BY DEF Adds, Kept
  <1>2. CASE \E req \in Foundings : Found(req)
    BY <1>2, IntakeFound, AddsSelf
  <1>3. CASE \E req \in Requests : Begin(req)
    BY <1>3, IntakeBegin, AddsSelf
  <1>4. CASE WriteFile
    BY <1>1, <1>4, IntakeWriteFile
  <1>5. CASE Point
    BY <1>5, IntakePoint
  <1>6. CASE Survey
    BY <1>6, IntakeSurvey, AddsSelf
  <1>7. CASE TakesIn
    BY <1>7, IntakeTakesIn
  <1>8. CASE Finish \/ Kill
    BY <1>8, AddsSelf DEF Finish, Kill
  <1>9. CASE Edit
    BY <1>1, <1>9, IntakeEdit
  <1>10. QED
    BY <1>2, <1>3, <1>4, <1>5, <1>6, <1>7, <1>8, <1>9 DEF FoundingNext

\* Whatever prov does only adds (OnlyAdds): no step of new, attach, import or
\* init takes a file, a title or a link away (mutate.rs create, adopt; attach.rs).
THEOREM IntakeOnlyAdds == FoundingSpec => OnlyAdds
  <1>1. IntakeInv /\ [FoundingNext]_vars => [Kept]_vars
    BY StepAdds
  <1>2. QED
    BY <1>1, IntakeSound, PTL DEF FoundingSpec, OnlyAdds, Kept

\* The root is there when it is to be surveyed.
Awaits(ws, root, t) ==
    (\E i \in DOMAIN t : t[i].do = "survey") =>
        /\ Content(root)
        /\ root \in DOMAIN ws \/ \E i \in DOMAIN t : t[i].do = "write" /\ t[i].path = root

PlansInv ==
    /\ cmd.on /\ same => Ready(file, cmd.todo) /\ Awaits(file, cmd.root, cmd.todo)
    /\ PlansHold

\* No document is made below a root whose prose is apart while a workspace is
\* founded.
NoWalkBelowApart ==
    \A req \in Foundings : ~(req.adopt = "walk" /\ req.separate /\ req.pick = {})

\* The root is still to come, or there, a step later.
LEMMA AwaitsTail ==
    ASSUME NEW ws, NEW root, NEW t, IsSeq(t), t # <<>>, Awaits(ws, root, t),
           NEW more, DOMAIN ws \subseteq DOMAIN more,
           Head(t).do = "write" => Head(t).path \in DOMAIN more
    PROVE  Awaits(more, root, Tail(t))
  <1> DEFINE u == Tail(t)
  <1>1. /\ IsSeq(u) /\ Len(t) \in Nat /\ Len(t) # 0 /\ Len(u) = Len(t) - 1
        /\ Head(t) = t[1] /\ 1 \in DOMAIN t
        /\ \A i \in DOMAIN u : i \in Nat /\ i # 0 /\ i + 1 \in DOMAIN t /\ u[i] = t[i + 1]
    BY TailIs
  <1>2. DOMAIN t = 1..Len(t) /\ DOMAIN u = 1..Len(u)
    BY <1>1, SeqIs
  <1> HIDE DEF u
  <1>3. SUFFICES ASSUME NEW i \in DOMAIN u, u[i].do = "survey"
                 PROVE  /\ Content(root)
                        /\ \/ root \in DOMAIN more
                           \/ \E j \in DOMAIN u : u[j].do = "write" /\ u[j].path = root
    BY DEF Awaits, u
  <1>4. Content(root) /\ (root \in DOMAIN ws \/ \E j \in DOMAIN t : t[j].do = "write" /\ t[j].path = root)
    BY <1>1, <1>3 DEF Awaits
  <1>5. ASSUME NEW j \in DOMAIN t, t[j].do = "write", t[j].path = root, root \notin DOMAIN more
        PROVE  \E k \in DOMAIN u : u[k].do = "write" /\ u[k].path = root
    <2>1. j # 1
      BY <1>1, <1>5
    <2>2. j - 1 \in DOMAIN u /\ (j - 1) + 1 = j
      BY <1>1, <1>2, <2>1
    <2>3. u[j - 1] = t[j]
      BY <1>1, <2>2
    <2>4. QED
      BY <1>5, <2>2, <2>3
  <1>6. QED
    BY <1>4, <1>5

\* What creates nothing can be carried out.
LEMMA ReadyNothing ==
    ASSUME NEW ws, NEW t, Opening(t)
    PROVE  Ready(ws, t)
  BY DEF Opening, Early, Ready

\* Nothing is surveyed while things are taken in.
LEMMA MovingAwaits ==
    ASSUME NEW ws, NEW root, NEW t, Moving(t)
    PROVE  Awaits(ws, root, t)
  BY DEF Moving, Moves, Awaits

\* A command that is done or killed has not failed.
LEMMA EndIs ==
    \A e, r, a : e = End("done", r, a) \/ e = End("killed", r, a) => e.status # "failed"
  BY DEF End

\* No command has failed to begin with.
LEMMA PlansInit == Init => PlansInv
  <1> SUFFICES ASSUME Init PROVE PlansInv
    OBVIOUS
  <1>1. ~cmd.on
    BY IdleIs DEF Init
  <1>2. last.status # "failed"
    BY DEF Init, End
  <1>3. QED
    BY <1>1, <1>2 DEF PlansInv, PlansHold

\* TakesIn keeps PlansInv: what is to be created can be.
LEMMA PlansTakesIn ==
    ASSUME IntakeInv, PlansInv, TakesIn
    PROVE  PlansInv'
  <1> DEFINE t == cmd.todo
             s == Head(t)
             r == Take(file, s, cmd.req)
  <1>1. cmd.on /\ t # <<>> /\ s.do \in Moves /\ same' = same
    BY DEF TakesIn, At, Advance, Moves
  <1>2. /\ file' = r.file
        /\ \/ cmd' = [cmd EXCEPT !.todo = Tail(t)] /\ last' = last
           \/ cmd' = Idle /\ last' = End("failed", cmd.req, s.do) /\ ~r.ok
    BY DEF TakesIn, Advance
  <1>3. Moving(t) \/ Opening(t)
    BY <1>1 DEF IntakeInv
  <1>4. Filed(file) /\ IsCommand(cmd) /\ Adds(file, file')
    BY IntakeTakesIn DEF IntakeInv
  <1>5. IsSeq(t)
    BY <1>3 DEF Moving, Opening, Typed
  <1>6. ASSUME Moving(t), cmd.on /\ same
        PROVE  (s.do = "create" => r.ok) /\ Ready(r.file, Tail(t))
    <2>1. Ready(file, t)
      BY <1>6 DEF PlansInv
    <2> HIDE DEF t
    <2>2. QED
      BY <1>1, <1>4, <1>6, <2>1, ReadyStep
  <1>7. Opening(t) => s.do # "create"
    <2>1. s = t[1] /\ 1 \in DOMAIN t
      BY <1>1, <1>5, TailIs
    <2>2. QED
      BY <2>1 DEF Opening, Early
  <1> HIDE DEF t, s, r
  <1>8. CASE cmd' = [cmd EXCEPT !.todo = Tail(t)] /\ last' = last
    <2>1. cmd'.on = cmd.on /\ cmd'.root = cmd.root /\ cmd'.todo = Tail(t)
      BY <1>4, <1>8, CommandIs DEF After
    <2>2. ASSUME same PROVE Ready(file', Tail(t))
      <3>1. CASE Moving(t)
        BY <1>1, <1>2, <1>6, <2>2, <3>1
      <3>2. CASE Opening(t)
        BY <1>1, <3>2, OpeningTail, ReadyNothing
      <3>3. QED
        BY <1>3, <3>1, <3>2
    <2>3. ASSUME same PROVE Awaits(file', cmd.root, Tail(t))
      <3>1. Awaits(file, cmd.root, t)
        BY <1>1, <2>3 DEF PlansInv, t
      <3>2. DOMAIN file \subseteq DOMAIN file'
        BY <1>4 DEF Adds
      <3>3. s.do # "write"
        BY <1>1 DEF Moves
      <3>4. QED
        BY <1>1, <1>5, <3>1, <3>2, <3>3, AwaitsTail DEF s
    <2>4. PlansHold'
      BY <1>1, <1>8 DEF PlansInv, PlansHold
    <2>5. QED
      BY <1>1, <2>1, <2>2, <2>3, <2>4 DEF PlansInv
  <1>9. CASE cmd' = Idle /\ last' = End("failed", cmd.req, s.do) /\ ~r.ok
    <2>1. ~cmd'.on /\ last'.at = s.do
      BY <1>9, IdleIs DEF End
    <2>2. same => s.do # "create"
      BY <1>1, <1>3, <1>6, <1>7, <1>9
    <2>3. PlansHold'
      BY <1>1, <2>1, <2>2 DEF PlansHold
    <2>4. QED
      BY <2>1, <2>3 DEF PlansInv
  <1>10. QED
    BY <1>2, <1>8, <1>9

\* WriteFile keeps PlansInv.
LEMMA PlansWriteFile ==
    ASSUME IntakeInv, PlansInv, WriteFile
    PROVE  PlansInv'
  <1> DEFINE t == cmd.todo
  <1>1. /\ cmd.on /\ t # <<>> /\ Head(t).do = "write" /\ same' = same /\ last' = last
        /\ cmd' = [cmd EXCEPT !.todo = Tail(t)]
    BY DEF WriteFile, At
  <1>2. IsCommand(cmd)
    BY DEF IntakeInv
  <1>3. Opening(t) /\ DOMAIN file' = DOMAIN file \cup {Head(t).path}
    BY IntakeWriteFile
  <1>4. same => Awaits(file, cmd.root, t)
    BY <1>1 DEF PlansInv
  <1> HIDE DEF t
  <1>5. cmd'.root = cmd.root /\ cmd'.todo = Tail(t)
    BY <1>1, <1>2, CommandIs DEF After
  <1>6. Ready(file', Tail(t))
    BY <1>1, <1>3, OpeningTail, ReadyNothing
  <1>7. same => Awaits(file', cmd.root, Tail(t))
    <2>1. IsSeq(t)
      BY <1>3 DEF Opening, Typed
    <2>2. DOMAIN file \subseteq DOMAIN file' /\ Head(t).path \in DOMAIN file'
      BY <1>3
    <2>3. QED
      BY <1>1, <1>4, <2>1, <2>2, AwaitsTail
  <1>8. QED
    BY <1>1, <1>5, <1>6, <1>7 DEF PlansInv, PlansHold

\* Point keeps PlansInv.
LEMMA PlansPoint ==
    ASSUME IntakeInv, PlansInv, Point
    PROVE  PlansInv'
  <1> DEFINE t == cmd.todo
  <1>1. /\ cmd.on /\ t # <<>> /\ Head(t).do = "point" /\ same' = same
        /\ \/ last' = last
           \/ last' = End("failed", cmd.req, "point")
    BY DEF Point, At
  <1>2. /\ DOMAIN file' = DOMAIN file
        /\ cmd'.on => Opening(t) /\ cmd'.todo = Tail(t) /\ cmd'.root = cmd.root
    BY IntakePoint
  <1>3. same => Awaits(file, cmd.root, t)
    BY <1>1 DEF PlansInv
  <1>4. PlansHold'
    BY <1>1 DEF PlansInv, PlansHold, End
  <1> HIDE DEF t
  <1>5. ASSUME cmd'.on, same
        PROVE  Ready(file', Tail(t)) /\ Awaits(file', cmd.root, Tail(t))
    <2>1. Ready(file', Tail(t))
      BY <1>1, <1>2, <1>5, OpeningTail, ReadyNothing
    <2>2. IsSeq(t)
      BY <1>2, <1>5 DEF Opening, Typed
    <2>3. QED
      BY <1>1, <1>2, <1>3, <1>5, <2>1, <2>2, AwaitsTail
  <1>6. QED
    BY <1>1, <1>2, <1>4, <1>5 DEF PlansInv

\* Survey keeps PlansInv: the root is there, and what it plans can be carried out.
LEMMA PlansSurvey ==
    ASSUME IntakeInv, PlansInv, Survey
    PROVE  PlansInv'
  <1> DEFINE t == cmd.todo
             plan == IF cmd.req.adopt = "walk" THEN PlanWalk(file, cmd.root, cmd.req)
                                               ELSE PlanMirror(file, cmd.root).todo
             rest == Tail(t)
  <1>1. last' = last /\ same' = same
    BY DEF Survey
  <1>2. /\ file' = file /\ Opening(t) /\ t # <<>> /\ Head(t).do = "survey"
        /\ cmd.on /\ Dir(cmd.root) = <<>> /\ cmd'.todo = plan \o rest
        /\ \A i \in DOMAIN rest : rest[i].do = "attach"
        /\ Moving(rest) /\ Moving(cmd'.todo)
    BY IntakeSurvey
  <1>3. Filed(file)
    BY DEF IntakeInv
  <1>4. Moving(plan) /\ (cmd.root \in DOMAIN file /\ Content(cmd.root) => Ready(file, plan))
    BY <1>2, <1>3, MirrorPlanned, WalkPlanned
  <1>5. same => Awaits(file, cmd.root, t)
    BY <1>2 DEF PlansInv
  <1> HIDE DEF t, plan, rest
  <1>6. ASSUME same PROVE cmd.root \in DOMAIN file /\ Content(cmd.root)
    <2>1. IsSeq(t)
      BY <1>2 DEF Opening, Typed
    <2>2. Head(t) = t[1] /\ 1 \in DOMAIN t
      BY <1>2, <2>1, TailIs
    <2>3. ASSUME NEW i \in DOMAIN t, t[i].do = "write" PROVE FALSE
      <3>1. Len(t) \in Nat /\ DOMAIN t = 1..Len(t)
        BY <2>1, SeqIs
      <3>2. i # 1 /\ i \in 1..Len(t)
        BY <1>2, <2>2, <2>3, <3>1
      <3>3. 1 \in 1..(i - 1)
        BY <3>1, <3>2
      <3>4. t[1].do = "write"
        BY <1>2, <2>3, <3>3 DEF Opening
      <3>5. QED
        BY <1>2, <2>2, <3>4
    <2>4. QED
      BY <1>2, <1>5, <1>6, <2>2, <2>3 DEF Awaits
  <1>7. same => Ready(file, plan \o rest)
    <2>1. ASSUME same PROVE Ready(file, plan)
      BY <1>4, <1>6, <2>1
    <2>2. \A i \in DOMAIN rest : rest[i].do # "create"
      BY <1>2
    <2>3. QED
      BY <1>2, <1>4, <2>1, <2>2, PlansAfter
  <1>8. \A root : Awaits(file', root, cmd'.todo)
    BY <1>2, MovingAwaits
  <1>9. QED
    BY <1>1, <1>2, <1>7, <1>8 DEF PlansInv, PlansHold

\* Begin keeps PlansInv, if routes are apart.
LEMMA PlansBegin ==
    ASSUME IntakeInv, PlansInv, RoutesApart, NEW req \in Requests, Begin(req)
    PROVE  PlansInv'
  <1>1. /\ file' = file /\ last'.status # "failed"
        /\ cmd'.on => \E root \in RootOf(file) :
                 Plan(file, root, req).ok /\ cmd'.todo = Plan(file, root, req).todo
    BY IntakeBegin
  <1>2. Filed(file)
    BY DEF IntakeInv
  <1>3. ASSUME cmd'.on
        PROVE  Ready(file', cmd'.todo) /\ Awaits(file', cmd'.root, cmd'.todo)
    <2>1. PICK root \in RootOf(file) : /\ Plan(file, root, req).ok
                                       /\ cmd'.todo = Plan(file, root, req).todo
      BY <1>1, <1>3
    <2>2. Moving(cmd'.todo) /\ Ready(file, cmd'.todo)
      BY <1>2, <2>1, BeginPlanned
    <2>3. QED
      BY <1>1, <2>2, MovingAwaits
  <1>4. QED
    BY <1>1, <1>3 DEF PlansInv, PlansHold

\* Found keeps PlansInv.
LEMMA PlansFound ==
    ASSUME IntakeInv, PlansInv, NoWalkBelowApart, NEW req \in Foundings, Found(req)
    PROVE  PlansInv'
  <1> DEFINE root == cmd'.root
             t == cmd'.todo
  <1>1. file' = file /\ last'.status # "failed" /\ Sound(file, req, root, t)
    BY IntakeFound
  <1>2. ~(req.adopt = "walk" /\ req.separate /\ req.pick = {})
    BY DEF NoWalkBelowApart
  <1> HIDE DEF root, t
  <1>3. Ready(file, t)
    BY <1>1, ReadyNothing DEF Sound
  <1>4. Awaits(file, root, t)
    <2>1. ASSUME \E i \in DOMAIN t : t[i].do = "survey" PROVE ~(req.separate /\ req.pick = {})
      BY <1>1, <1>2, <2>1 DEF Sound, Mirrors
    <2>2. QED
      BY <1>1, <2>1 DEF Sound, Awaits
  <1>5. QED
    BY <1>1, <1>3, <1>4 DEF PlansInv, PlansHold, root, t

\* A plan that is made can be carried out (PlansHold).
LEMMA PlansStep ==
    ASSUME RoutesApart, NoWalkBelowApart, IntakeInv, PlansInv, [FoundingNext]_vars
    PROVE  PlansInv'
  <1>1. CASE UNCHANGED vars
    BY <1>1 DEF vars, PlansInv, PlansHold
  <1>2. CASE \E req \in Foundings : Found(req)
    BY <1>2, PlansFound
  <1>3. CASE \E req \in Requests : Begin(req)
    BY <1>3, PlansBegin
  <1>4. CASE WriteFile
    BY <1>4, PlansWriteFile
  <1>5. CASE Point
    BY <1>5, PlansPoint
  <1>6. CASE Survey
    BY <1>6, PlansSurvey
  <1>7. CASE TakesIn
    BY <1>7, PlansTakesIn
  <1>8. CASE Finish \/ Kill
    <2>1. ~cmd'.on
      BY <1>8, IdleIs DEF Finish, Kill
    <2>2. last'.status # "failed"
      <3>1. last' = End("done", cmd.req, "") \/ last' = End("killed", cmd.req, "")
        BY <1>8 DEF Finish, Kill
      <3>2. QED
        BY <3>1, EndIs
    <2>3. QED
      BY <2>1, <2>2 DEF PlansInv, PlansHold
  <1>9. CASE Edit
    <2>1. ~same'
      BY <1>9, IntakeEdit
    <2>2. QED
      BY <2>1 DEF PlansInv, PlansHold
  <1>10. QED
    BY <1>1, <1>2, <1>3, <1>4, <1>5, <1>6, <1>7, <1>8, <1>9 DEF FoundingNext

\* A plan that was made can be carried out (PlansHold): with nobody editing, no
\* document it is to create is refused (route.rs assert_vacant, intake.rs
\* plan_mirror), if routes are RoutesApart and the walk is not below a root
\* whose prose is apart.
THEOREM IntakePlansHold ==
    ASSUME RoutesApart, NoWalkBelowApart
    PROVE  FoundingSpec => []PlansHold
  <1>1. Init => PlansInv
    BY PlansInit
  <1>2. IntakeInv /\ PlansInv /\ [FoundingNext]_vars => PlansInv'
    BY PlansStep
  <1>3. PlansInv => PlansHold
    BY DEF PlansInv
  <1>4. QED
    BY <1>1, <1>2, <1>3, IntakeSound, PTL DEF FoundingSpec

-----------------------------------------------------------------------------
(* A route that is walked again after its first document was made.         *)

\* A sequence with one member more, from its head and from its tail.
LEMMA AppendTail ==
    ASSUME NEW t, IsSeq(t), NEW x
    PROVE  /\ IsSeq(Append(t, x)) /\ Append(t, x) # <<>> /\ Len(Append(t, x)) = Len(t) + 1
           /\ Append(t, x)[Len(t) + 1] = x
           /\ t = <<>> => Head(Append(t, x)) = x /\ Tail(Append(t, x)) = <<>>
           /\ t # <<>> => /\ Head(Append(t, x)) = Head(t) /\ Append(t, x)[1] = t[1]
                          /\ Tail(Append(t, x)) = Append(Tail(t), x)
  <1>1. PICK C : t \in Seq(C)
    BY DEF IsSeq
  <1> DEFINE D == C \cup {x}
             u == Append(t, x)
  <1>2. t \in Seq(D) /\ x \in D
    BY <1>1
  <1> HIDE DEF D
  <1>3. /\ u \in Seq(D) /\ u # <<>> /\ Len(u) = Len(t) + 1 /\ u[Len(t) + 1] = x
        /\ \A i \in 1..Len(t) : u[i] = t[i]
    BY <1>2
  <1>4. IsSeq(u)
    BY <1>3 DEF IsSeq
  <1>5. ASSUME t = <<>> PROVE Head(u) = x /\ Tail(u) = <<>>
    <2>1. Len(t) = 0
      BY <1>5
    <2>2. Len(u) = 1 /\ u[1] = x
      BY <1>3, <2>1
    <2>3. Head(u) = u[1] /\ Tail(u) \in Seq(D) /\ Len(Tail(u)) = Len(u) - 1
      BY <1>3
    <2>4. Len(Tail(u)) = 0
      BY <2>2, <2>3
    <2>5. Tail(u) = <<>>
      BY <2>3, <2>4
    <2>6. QED
      BY <2>2, <2>3, <2>5
  <1>6. ASSUME t # <<>>
        PROVE  Head(u) = Head(t) /\ u[1] = t[1] /\ Tail(u) = Append(Tail(t), x)
    <2>1. Len(t) \in Nat /\ Len(t) # 0 /\ 1 \in 1..Len(t)
      BY <1>2, <1>6
    <2>2. u[1] = t[1] /\ Head(u) = u[1] /\ Head(t) = t[1]
      BY <1>2, <1>3, <1>6, <2>1
    <2> DEFINE a == Tail(u)
               b == Append(Tail(t), x)
               n == Len(t)
    <2>3. /\ a \in Seq(D) /\ Len(a) = n
          /\ \A i \in 1..n : a[i] = u[i + 1]
      BY <1>3, <2>1
    <2>4. /\ Tail(t) \in Seq(D) /\ Len(Tail(t)) = n - 1
          /\ \A i \in 1..(n - 1) : Tail(t)[i] = t[i + 1]
      BY <1>2, <1>6, <2>1
    <2>5. /\ b \in Seq(D) /\ Len(b) = n /\ b[n] = x
          /\ \A i \in 1..(n - 1) : b[i] = Tail(t)[i]
      BY <1>2, <2>1, <2>4
    <2> HIDE DEF a, b, n, u
    <2>6. ASSUME NEW i \in 1..n PROVE a[i] = b[i]
      <3>1. CASE i = n
        <4>1. a[i] = u[n + 1]
          BY <2>3, <3>1
        <4>2. QED
          BY <1>3, <2>5, <3>1, <4>1 DEF n
      <3>2. CASE i # n
        <4>1. n \in Nat
          BY <2>1 DEF n
        <4>2. i \in 1..(n - 1) /\ i + 1 \in 1..n
          BY <3>2, <4>1
        <4>3. u[i + 1] = t[i + 1]
          BY <1>3, <4>2 DEF n
        <4>4. QED
          BY <2>3, <2>4, <2>5, <4>2, <4>3
      <3>3. QED
        BY <3>1, <3>2
    <2>7. a = b
      BY <2>3, <2>5, <2>6, SeqEqual
    <2>8. QED
      BY <2>2, <2>7 DEF a, b
  <1>7. QED
    BY <1>3, <1>4, <1>5, <1>6

\* The one child a segment leads to; no child, and a place for a document.
OneNamed(ws, y, segment, c) == Named(ws, y, segment) = {c}
NoneNamed(ws, y, segment, path, layout) ==
    /\ Named(ws, y, segment) = {} /\ Vacant(ws, path, layout)
    /\ y.todo = <<>> => Combined(ws, y.at)

ToCreate(todo, path, under, title) == Append(todo, Step("create", path, under, title))

\* What a segment comes to, where it is not stuck: the one child, or a document
\* to be created.
LEMMA SegmentDoes ==
    ASSUME NEW ws, NEW layout, NEW ext, NEW y, Planned(y), y.ok, NEW segment,
           NEW path, path = SynthPath(y.at, segment, layout, ext),
           NEW z, z = PlanSegment(ws, layout, ext, y, segment)
    PROVE  /\ \A c : OneNamed(ws, y, segment, c) =>
                      Planned(z) /\ z.ok /\ z.todo = y.todo /\ z.at = c
           /\ NoneNamed(ws, y, segment, path, layout)
              => /\ Planned(z) /\ z.ok /\ z.at = path
                 /\ z.todo = ToCreate(y.todo, path, y.at, segment)
  <1> DEFINE named == Named(ws, y, segment)
             bad == \/ y.todo = <<>> /\ ~Combined(ws, y.at)
                    \/ ~Vacant(ws, path, layout)
             failed == [y EXCEPT !.ok = FALSE]
             found  == [y EXCEPT !.at = CHOOSE c \in named : TRUE]
             step   == Step("create", path, y.at, segment)
             made   == RoutePlan(TRUE, Append(y.todo, step), path)
             no     == ~y.ok \/ Cardinality(named) > 1 \/ (named = {} /\ bad)
  <1>1. z = IF no THEN failed ELSE IF named # {} THEN found ELSE made
    BY DEF PlanSegment, Named
  <1>2. y = RoutePlan(y.ok, y.todo, y.at)
    BY DEF Planned
  <1>3. \A o, t, a, c : [RoutePlan(o, t, a) EXCEPT !.at = c] = RoutePlan(o, t, c)
    BY DEF RoutePlan
  <1>4. found = RoutePlan(y.ok, y.todo, CHOOSE c \in named : TRUE)
    <2> DEFINE c == CHOOSE c \in named : TRUE
               o == y.ok
               t == y.todo
               a == y.at
    <2>1. found = [y EXCEPT !.at = c] /\ y = RoutePlan(o, t, a)
      BY <1>2
    <2> HIDE DEF found, c, o, t, a
    <2>2. found = RoutePlan(o, t, c)
      BY <1>3, <2>1
    <2>3. QED
      BY <2>2 DEF c, o, t
  <1>5. Planned(made) /\ made.ok = TRUE /\ made.todo = Append(y.todo, step) /\ made.at = path
    <2> DEFINE t == Append(y.todo, step)
               o == TRUE
    <2>1. made = RoutePlan(o, t, path)
      OBVIOUS
    <2> HIDE DEF t, o, made
    <2>2. Planned(made) /\ made.ok = o /\ made.todo = t /\ made.at = path
      BY <2>1, PlanIs
    <2>3. QED
      BY <2>2 DEF o, t
  <1>6. \A c : Cardinality({c}) = 1 /\ Cardinality({}) = 0
    BY FS_Singleton, FS_EmptySet
  <1> HIDE DEF named, bad, failed, found, step, made
  <1>7. ASSUME NEW c, named = {c}
        PROVE  Planned(z) /\ z.ok /\ z.todo = y.todo /\ z.at = c
    <2>1. ~no /\ named # {}
      <3>1. Cardinality(named) = 1 /\ named # {}
        BY <1>6, <1>7
      <3>2. ~(Cardinality(named) > 1)
        BY <3>1
      <3>3. QED
        BY <3>1, <3>2
    <2>2. z = found
      BY <1>1, <2>1
    <2>3. (CHOOSE d \in named : TRUE) = c
      BY <1>7
    <2>4. z = RoutePlan(y.ok, y.todo, c)
      BY <1>4, <2>2, <2>3
    <2>5. Planned(z) /\ z.ok = y.ok /\ z.todo = y.todo /\ z.at = c
      <3> DEFINE o == y.ok
                 t == y.todo
      <3>1. z = RoutePlan(o, t, c)
        BY <2>4
      <3> HIDE DEF o, t
      <3>2. Planned(z) /\ z.ok = o /\ z.todo = t /\ z.at = c
        BY <3>1, PlanIs
      <3>3. QED
        BY <3>2 DEF o, t
    <2>6. QED
      BY <2>5
  <1>8. ASSUME named = {}, ~bad PROVE z = made
    <2>1. Cardinality(named) = 0
      BY <1>6, <1>8
    <2>2. ~no
      BY <1>8, <2>1
    <2>3. QED
      BY <1>1, <1>8, <2>2
  <1>9. named = {} /\ ~bad => /\ Planned(z) /\ z.ok /\ z.at = path
                              /\ z.todo = Append(y.todo, step)
    BY <1>5, <1>8
  <1>10. ASSUME NEW c, OneNamed(ws, y, segment, c)
         PROVE  Planned(z) /\ z.ok /\ z.todo = y.todo /\ z.at = c
    BY <1>7, <1>10 DEF named, OneNamed
  <1>11. NoneNamed(ws, y, segment, path, layout) => named = {} /\ ~bad
    BY DEF named, bad, NoneNamed
  <1>12. Append(y.todo, step) = ToCreate(y.todo, path, y.at, segment)
    BY DEF step, ToCreate
  <1>13. QED
    BY <1>9, <1>10, <1>11, <1>12

\* The children with a title, once a document is made and listed by its parent.
LEMMA TitledAfter ==
    ASSUME NEW ws, NEW p, p \notin DOMAIN ws, ~Opaque(p), NEW u, u \in DOMAIN ws, ws[u].meta,
           NEW t, NEW r, Makes(ws, p, u, t, r)
    PROVE  /\ \A q, x : q \in DOMAIN ws /\ x # t => ChildTitled(r.file, q, x) = ChildTitled(ws, q, x)
           /\ ChildTitled(ws, u, t) = {} => ChildTitled(r.file, u, t) = {p}
           /\ \A x : ChildTitled(r.file, p, x) = {}
           /\ ~WholeFile(p) => Combined(r.file, p)
  <1> DEFINE v == r.file
  <1>1. /\ DOMAIN v = DOMAIN ws \cup {p} /\ v[u] = Listing(ws[u], p)
        /\ v[p] = File(TRUE, String(t), {u}, {}, {})
        /\ \A q \in DOMAIN ws \ {u} : v[q] = ws[q]
    BY DEF Makes
  <1> HIDE DEF v
  <1>2. v[u].meta = TRUE /\ v[u].title = ws[u].title /\ v[u].down = ws[u].down \cup {p}
    BY <1>1, ListingIs
  <1>3. v[p].meta = TRUE /\ v[p].title = String(t) /\ v[p].down = {} /\ v[p].content = {}
    <2> DEFINE e == {}
               o == TRUE
               s == String(t)
    <2>1. v[p] = File(o, s, {u}, e, e)
      BY <1>1
    <2> HIDE DEF e, o, s
    <2>2. v[p].meta = o /\ v[p].title = s /\ v[p].down = e /\ v[p].content = e
      BY <2>1, FileIs
    <2>3. QED
      BY <2>2 DEF e, o, s
  <1>4. v[p].title.text = t
    BY <1>3 DEF String
  <1>5. ASSUME NEW c \in DOMAIN ws
        PROVE  /\ Readable(v, c) <=> Readable(ws, c)
               /\ v[c].meta <=> ws[c].meta
               /\ v[c].title = ws[c].title
    <2>1. Readable(v, c) <=> Readable(ws, c)
      BY <1>1 DEF Readable
    <2>2. CASE c = u
      BY <1>2, <2>1, <2>2
    <2>3. CASE c # u
      BY <1>1, <2>1, <2>3
    <2>4. QED
      BY <2>2, <2>3
  <1>6. \A c : c \notin DOMAIN ws => ~Readable(ws, c) /\ (c # p => ~Readable(v, c))
    BY <1>1 DEF Readable
  <1>7. \A q \in DOMAIN ws : v[q].down = IF q = u THEN ws[q].down \cup {p} ELSE ws[q].down
    BY <1>1, <1>2
  <1>8. ASSUME NEW q \in DOMAIN ws, NEW x, x # t
        PROVE  ChildTitled(v, q, x) = ChildTitled(ws, q, x)
    <2>1. ASSUME NEW c PROVE c \in ChildTitled(v, q, x) <=> c \in ChildTitled(ws, q, x)
      <3>1. CASE c \in DOMAIN ws
        <4>1. c # p
          BY <3>1
        <4>2. c \in v[q].down <=> c \in ws[q].down
          BY <1>7, <4>1
        <4>3. QED
          BY <1>5, <3>1, <4>2 DEF ChildTitled
      <3>2. CASE c \notin DOMAIN ws
        <4>1. c \notin ChildTitled(ws, q, x)
          BY <1>6, <3>2 DEF ChildTitled
        <4>2. c \notin ChildTitled(v, q, x)
          <5>1. CASE c = p
            BY <1>4, <1>8, <5>1 DEF ChildTitled
          <5>2. CASE c # p
            BY <1>6, <3>2, <5>2 DEF ChildTitled
          <5>3. QED
            BY <5>1, <5>2
        <4>3. QED
          BY <4>1, <4>2
      <3>3. QED
        BY <3>1, <3>2
    <2>2. QED
      BY <2>1
  <1>9. ASSUME ChildTitled(ws, u, t) = {} PROVE ChildTitled(v, u, t) = {p}
    <2>1. p \in ChildTitled(v, u, t)
      <3>1. Readable(v, p)
        BY <1>1 DEF Readable
      <3>2. p \in v[u].down
        BY <1>2
      <3>3. QED
        BY <1>3, <1>4, <3>1, <3>2 DEF ChildTitled
    <2>2. ASSUME NEW c \in ChildTitled(v, u, t), c # p PROVE FALSE
      <3>1. c \in v[u].down /\ Readable(v, c) /\ v[c].meta /\ v[c].title.text = t
        BY <2>2 DEF ChildTitled
      <3>2. c \in ws[u].down /\ c \in DOMAIN ws
        BY <1>2, <1>6, <2>2, <3>1
      <3>3. c \in ChildTitled(ws, u, t)
        BY <1>5, <3>1, <3>2 DEF ChildTitled
      <3>4. QED
        BY <1>9, <3>3
    <2>3. QED
      BY <2>1, <2>2
  <1>10. \A x : ChildTitled(v, p, x) = {}
    BY <1>3 DEF ChildTitled
  <1>11. ~WholeFile(p) => Combined(v, p)
    BY <1>3 DEF Combined
  <1>12. QED
    BY <1>8, <1>9, <1>10, <1>11 DEF v

\* The first document of a route, made and listed by its parent.
Opened(ws, p, u, t, r) ==
    /\ p \notin DOMAIN ws /\ ~Opaque(p) /\ ~WholeFile(p)
    /\ u \in DOMAIN ws /\ ws[u].meta /\ Makes(ws, p, u, t, r)

\* The first document a walk is to create.
Leads(y, p, u, t) ==
    y.todo # <<>> => y.todo[1].path = p /\ y.todo[1].under = u /\ y.todo[1].title = t

\* One walk has come to the same document as another, with one less to create.
Retraces(h, y) ==
    /\ Planned(h) /\ h.ok /\ h.at = y.at
    /\ y.todo = <<>> => h.todo = <<>>
    /\ y.todo # <<>> => h.todo = Tail(y.todo)

\* What the first document leaves as it is, and where it is found.
LEMMA OpenedIs ==
    ASSUME NEW ws, NEW p, NEW u, NEW t, NEW r, Opened(ws, p, u, t, r), NEW v, v = r.file
    PROVE  /\ \A q, x : q \in DOMAIN ws /\ x # t => ChildTitled(v, q, x) = ChildTitled(ws, q, x)
           /\ ChildTitled(ws, u, t) = {} => ChildTitled(v, u, t) = {p}
           /\ \A x : ChildTitled(v, p, x) = {}
           /\ Combined(v, p)
  <1>1. /\ p \notin DOMAIN ws /\ ~Opaque(p) /\ ~WholeFile(p)
        /\ u \in DOMAIN ws /\ ws[u].meta /\ Makes(ws, p, u, t, r)
    BY DEF Opened
  <1>2. /\ \A q, x : q \in DOMAIN ws /\ x # t => ChildTitled(r.file, q, x) = ChildTitled(ws, q, x)
        /\ ChildTitled(ws, u, t) = {} => ChildTitled(r.file, u, t) = {p}
        /\ \A x : ChildTitled(r.file, p, x) = {}
        /\ ~WholeFile(p) => Combined(r.file, p)
    BY <1>1, TitledAfter
  <1>3. QED
    BY <1>1, <1>2

\* A segment that leads to one child.
LEMMA SegmentFinds ==
    \A ws, layout, ext, y, segment, c :
        LET z == PlanSegment(ws, layout, ext, y, segment)
        IN  Planned(y) /\ y.ok /\ OneNamed(ws, y, segment, c) =>
                Planned(z) /\ z.ok /\ z.todo = y.todo /\ z.at = c
  <1> TAKE ws, layout, ext, y, segment, c
  <1> DEFINE z == PlanSegment(ws, layout, ext, y, segment)
             path == SynthPath(y.at, segment, layout, ext)
  <1>1. z = PlanSegment(ws, layout, ext, y, segment) /\ path = SynthPath(y.at, segment, layout, ext)
    OBVIOUS
  <1> HIDE DEF z, path
  <1>2. ASSUME Planned(y), y.ok, OneNamed(ws, y, segment, c)
        PROVE  Planned(z) /\ z.ok /\ z.todo = y.todo /\ z.at = c
    BY <1>1, <1>2, SegmentDoes
  <1>3. QED
    BY <1>2 DEF z

\* A segment that leads to none.
LEMMA SegmentMisses ==
    \A ws, layout, ext, y, segment :
        LET z    == PlanSegment(ws, layout, ext, y, segment)
            path == SynthPath(y.at, segment, layout, ext)
        IN  Planned(y) /\ y.ok /\ NoneNamed(ws, y, segment, path, layout) =>
                /\ Planned(z) /\ z.ok /\ z.at = path
                /\ z.todo = ToCreate(y.todo, path, y.at, segment)
  <1> TAKE ws, layout, ext, y, segment
  <1> DEFINE z == PlanSegment(ws, layout, ext, y, segment)
             path == SynthPath(y.at, segment, layout, ext)
  <1>1. z = PlanSegment(ws, layout, ext, y, segment) /\ path = SynthPath(y.at, segment, layout, ext)
    OBVIOUS
  <1> HIDE DEF z, path
  <1>2. ASSUME Planned(y), y.ok, NoneNamed(ws, y, segment, path, layout)
        PROVE  /\ Planned(z) /\ z.ok /\ z.at = path
               /\ z.todo = ToCreate(y.todo, path, y.at, segment)
    BY <1>1, <1>2, SegmentDoes
  <1>3. QED
    BY <1>2 DEF z, path

\* A segment that leads to a document by another title.
FindsOther(ws, y, segment, t, z) ==
    Readable(ws, y.at) /\ segment # t /\ Finds(ws, y, segment, z)

\* A document that was found is found again.
LEMMA RetraceFound ==
    ASSUME NEW ws, NEW p, NEW u, NEW t, NEW r, Opened(ws, p, u, t, r),
           NEW y, NEW h, Retraces(h, y),
           NEW segment, NEW z, FindsOther(ws, y, segment, t, z)
    PROVE  \A layout, ext : Retraces(PlanSegment(r.file, layout, ext, h, segment), z)
  <1> TAKE layout, ext
  <1>0. Readable(ws, y.at) /\ segment # t /\ Finds(ws, y, segment, z)
    BY DEF FindsOther
  <1> DEFINE e == <<>>
  <1>1. PICK c : Named(ws, y, segment) = {c} /\ z = RoutePlan(TRUE, e, c)
    BY <1>0 DEF Finds
  <1>2. y.todo = e /\ h.todo = e /\ h.at = y.at /\ Planned(h) /\ h.ok
    BY <1>0 DEF Finds, Retraces
  <1>3. ChildTitled(r.file, y.at, segment) = ChildTitled(ws, y.at, segment)
    <2>1. \A q, x : q \in DOMAIN ws /\ x # t => ChildTitled(r.file, q, x) = ChildTitled(ws, q, x)
      BY OpenedIs
    <2>2. QED
      BY <1>0, <2>1 DEF Readable
  <1>4. Named(r.file, h, segment) = {c}
    BY <1>1, <1>2, <1>3 DEF Named
  <1> DEFINE v == r.file
             g == PlanSegment(v, layout, ext, h, segment)
  <1> HIDE DEF e
  <1>5. z.todo = e /\ z.at = c
    BY <1>1, OkIs
  <1>6. Planned(g) /\ g.ok /\ g.todo = h.todo /\ g.at = c
    <2> HIDE DEF v
    <2>1. OneNamed(v, h, segment, c)
      BY <1>4 DEF v, OneNamed
    <2>2. QED
      BY <1>2, <2>1, SegmentFinds
  <1> HIDE DEF g
  <1>7. Retraces(g, z)
    BY <1>2, <1>5, <1>6 DEF Retraces, e
  <1>8. QED
    BY <1>7 DEF g

\* The document that was made is found where it was to be made.
LEMMA RetraceFirst ==
    ASSUME NEW ws, NEW p, NEW u, NEW t, NEW r, Opened(ws, p, u, t, r),
           NEW y, y.todo = <<>>, NEW h, Retraces(h, y),
           NEW segment, NEW layout, NEW ext, NEW z, Misses(ws, layout, ext, y, segment, z),
           Leads(z, p, u, t)
    PROVE  Retraces(PlanSegment(r.file, layout, ext, h, segment), z)
  <1> DEFINE e == <<>>
             path == SynthPath(y.at, segment, layout, ext)
             s == Step("create", path, y.at, segment)
             a == Append(e, s)
  <1>1. /\ Named(ws, y, segment) = {} /\ z = RoutePlan(TRUE, a, path)
    BY DEF Misses
  <1>2. y.todo = e /\ h.todo = e /\ h.at = y.at /\ Planned(h) /\ h.ok
    BY DEF Retraces
  <1>3. s.path = path /\ s.under = y.at /\ s.title = segment
    BY StepIs
  <1>4. a # e /\ a[1] = s /\ Tail(a) = e
    <2>1. IsSeq(e) /\ Len(e) = 0
      BY EmptyIs
    <2> HIDE DEF s
    <2>2. e = <<>>
      OBVIOUS
    <2> HIDE DEF e
    <2>3. a # <<>> /\ a[Len(e) + 1] = s /\ Tail(a) = <<>>
      BY <2>1, <2>2, AppendTail
    <2>4. QED
      BY <2>1, <2>2, <2>3
  <1> HIDE DEF path, a
  <1>5. z.todo = a /\ z.at = path
    BY <1>1, OkIs
  <1>6. path = p /\ y.at = u /\ segment = t
    BY <1>3, <1>4, <1>5 DEF Leads
  <1>7. ChildTitled(ws, u, t) = {}
    BY <1>1, <1>6 DEF Named
  <1>8. ChildTitled(r.file, u, t) = {p}
    BY <1>7, OpenedIs
  <1>9. Named(r.file, h, segment) = {p}
    BY <1>2, <1>6, <1>8 DEF Named
  <1> DEFINE v == r.file
             g == PlanSegment(v, layout, ext, h, segment)
  <1> HIDE DEF e
  <1>10. Planned(g) /\ g.ok /\ g.todo = h.todo /\ g.at = p
    <2> HIDE DEF v
    <2>1. OneNamed(v, h, segment, p)
      BY <1>9 DEF v, OneNamed
    <2>2. QED
      BY <1>2, <2>1, SegmentFinds
  <1> HIDE DEF g
  <1>11. Retraces(g, z)
    BY <1>2, <1>4, <1>5, <1>6, <1>10 DEF Retraces, e
  <1>12. QED
    BY <1>11 DEF g

\* What is to be made below the first document is still to be made.
LEMMA RetraceRest ==
    ASSUME NEW ws, Filed(ws), NEW p, NEW u, NEW t, NEW r, Opened(ws, p, u, t, r),
           NEW segments, NEW layout, NEW ext, NEW k,
           NEW y, y.todo # <<>>, Chain(ws, segments, layout, ext, k, y), Leads(y, p, u, t),
           NEW h, Retraces(h, y),
           NEW segment, NEW z, Misses(ws, layout, ext, y, segment, z),
           Spread(z.todo, layout, ext)
    PROVE  Retraces(PlanSegment(r.file, layout, ext, h, segment), z)
  <1> DEFINE path == SynthPath(y.at, segment, layout, ext)
             s == Step("create", path, y.at, segment)
             b == y.todo
             a == Append(b, s)
             n == Len(b)
             v == r.file
  <1>1. Vacant(ws, path, layout) /\ z = RoutePlan(TRUE, a, path)
    BY DEF Misses
  <1>2. b # <<>> /\ h.todo = Tail(b) /\ h.at = y.at /\ Planned(h) /\ h.ok
    BY DEF Retraces
  <1>3. s.path = path
    BY StepIs
  <1>4. IsSeq(b) /\ n # 0 /\ y.at = b[n].path
    <2>1. IsSeq(b)
      BY DEF Chain
    <2>2. n # 0
      <3>1. PICK C : b \in Seq(C)
        BY <2>1 DEF IsSeq
      <3>2. QED
        BY <1>2, <3>1
    <2>3. QED
      BY <2>1, <2>2 DEF Chain
  <1>5. /\ IsSeq(a) /\ a # <<>> /\ Len(a) = n + 1 /\ a[n + 1] = s
        /\ a[1] = b[1] /\ Tail(a) = Append(Tail(b), s)
    <2> HIDE DEF s, b
    <2>1. QED
      BY <1>2, <1>4, AppendTail DEF a, n
  <1>6. n \in Nat
    BY <1>4, SeqIs
  <1>7. b[1].path = p /\ b[1].under = u
    BY <1>2 DEF Leads
  <1> HIDE DEF path, a
  <1>8. z.todo = a /\ z.at = path
    BY <1>1, OkIs
  <1>9. /\ \A i, j \in 1..(n + 1) : i # j => a[i].path # a[j].path
        /\ layout # "flat" =>
              /\ Len(u) \in Nat
              /\ \A i \in 1..(n + 1) : Len(a[i].path) = Len(u) + i
    <2> DEFINE d == z.todo
    <2>1. d = a /\ Len(a) = n + 1 /\ a[1].under = u
      BY <1>5, <1>7, <1>8
    <2>2. /\ \A i, j \in 1..Len(d) : i # j => d[i].path # d[j].path
          /\ \A i \in 1..Len(d) :
                layout # "flat" => /\ Len(d[1].under) \in Nat
                                   /\ Len(d[i].path) = Len(d[1].under) + i
      BY DEF Spread
    <2> HIDE DEF d, b, v, n
    <2>3. /\ \A i, j \in 1..(n + 1) : i # j => a[i].path # a[j].path
          /\ \A i \in 1..(n + 1) :
                layout # "flat" => Len(u) \in Nat /\ Len(a[i].path) = Len(u) + i
      BY <2>1, <2>2
    <2>4. 1 \in 1..(n + 1)
      BY <1>6
    <2>5. QED
      BY <2>3, <2>4
  <1>10. 1 \in 1..(n + 1) /\ n + 1 \in 1..(n + 1) /\ n + 1 # 1
    BY <1>4, <1>6
  <1>11. path # p
    BY <1>3, <1>5, <1>7, <1>9, <1>10
  <1>12. layout # "flat" => /\ Len(u) \in Nat /\ Len(p) = Len(u) + 1
                            /\ Len(path) = Len(u) + (n + 1)
    BY <1>3, <1>5, <1>7, <1>9, <1>10
  <1>13. Place(u) /\ Place(p) /\ Place(path)
    <2>1. \A i \in 1..(n + 1) : Place(a[i].path)
      BY Zenon, <1>5, <1>8 DEF Spread
    <2>2. QED
      BY <1>3, <1>5, <1>7, <1>10, <2>1 DEF Opened, Filed
  <1>14. ASSUME layout # "flat" PROVE Dir(path) # Dir(p) /\ Dir(path) # Dir(u)
    <2>1. /\ Len(Dir(p)) = Len(p) - 1 /\ Len(Dir(u)) = Len(u) - 1
          /\ Len(Dir(path)) = Len(path) - 1
      BY <1>13, DirIs
    <2> DEFINE lu == Len(u)
               dp == Len(Dir(p))
               du == Len(Dir(u))
               dq == Len(Dir(path))
    <2>2. lu \in Nat /\ dp = lu /\ du = lu - 1 /\ dq = lu + n
      BY <1>6, <1>12, <1>14, <2>1
    <2> HIDE DEF lu, dp, du, dq, n
    <2>3. dq # dp /\ dq # du
      BY <1>4, <1>6, <2>2
    <2>4. QED
      BY <2>3 DEF dp, du, dq
  <1>15. Vacant(v, path, layout)
    <2>1. /\ DOMAIN v = DOMAIN ws \cup {p} /\ \A q \in DOMAIN ws \ {u} : v[q] = ws[q]
      BY DEF Opened, Makes
    <2>2. path \notin DOMAIN v
      BY <1>1, <1>11, <2>1 DEF Vacant
    <2>3. ASSUME layout = "nested", NEW q \in DOMAIN v, Dir(q) = Dir(path), Content(q)
          PROVE  ~DeclaresContainment(v[q])
      <3>1. q # p /\ q # u
        BY <1>14, <2>3
      <3>2. q \in DOMAIN ws \ {u}
        BY <2>1, <3>1
      <3>3. ~DeclaresContainment(ws[q])
        BY <1>1, <2>3, <3>2 DEF Vacant
      <3>4. QED
        BY <2>1, <3>2, <3>3
    <2>4. QED
      BY <2>2, <2>3 DEF Vacant
  <1>16. ASSUME h.todo = <<>> PROVE ChildTitled(v, h.at, segment) = {} /\ Combined(v, h.at)
    <2>1. n = 1
      <3>1. PICK C : b \in Seq(C)
        BY <1>4 DEF IsSeq
      <3>2. Len(Tail(b)) = n - 1
        BY <1>2, <3>1
      <3> DEFINE m == Len(Tail(b))
      <3>3. m = 0
        <4>1. Tail(b) = <<>>
          BY <1>2, <1>16
        <4> DEFINE c == Tail(b)
        <4> HIDE DEF b
        <4>2. c = <<>>
          BY <4>1
        <4> HIDE DEF c
        <4>3. Len(c) = 0
          BY <4>2
        <4>4. QED
          BY <4>3 DEF c
      <3>4. m = n - 1
        BY <3>2
      <3> HIDE DEF n, b, m
      <3>5. QED
        BY <1>6, <3>3, <3>4
    <2>2. h.at = p
      BY <1>2, <1>4, <1>7, <2>1
    <2>3. (\A x : ChildTitled(v, p, x) = {}) /\ Combined(v, p)
      BY OpenedIs
    <2>4. QED
      BY <2>2, <2>3
  <1>17. Named(v, h, segment) = {}
    BY <1>16 DEF Named
  <1> DEFINE g == PlanSegment(v, layout, ext, h, segment)
             w == SynthPath(h.at, segment, layout, ext)
  <1>18. w = path
    BY <1>2 DEF path
  <1>19. Planned(g) /\ g.ok /\ g.at = w /\ g.todo = ToCreate(h.todo, w, h.at, segment)
    <2>1. NoneNamed(v, h, segment, w, layout)
      BY <1>15, <1>16, <1>17, <1>18 DEF NoneNamed
    <2> HIDE DEF v, path
    <2>2. QED
      BY <1>2, <2>1, SegmentMisses
  <1>20. g.todo = Append(Tail(b), s)
    BY <1>2, <1>18, <1>19 DEF ToCreate
  <1> HIDE DEF g, w, s, b, v
  <1>21. Retraces(g, z)
    BY <1>5, <1>8, <1>18, <1>19, <1>20 DEF Retraces
  <1>22. QED
    BY <1>21 DEF g, v

\* No title comes twice in a route.
Differ(segments) ==
    \A i, j \in DOMAIN segments : i # j => segments[i] # segments[j]

\* What a segment that has no document leaves to be created.
LEMMA MissesMore ==
    ASSUME NEW ws, NEW layout, NEW ext, NEW y, IsSeq(y.todo), NEW segment, NEW z,
           Misses(ws, layout, ext, y, segment, z)
    PROVE  /\ z.ok /\ z.todo # <<>> /\ IsSeq(z.todo) /\ Len(z.todo) = Len(y.todo) + 1
           /\ y.todo # <<>> => z.todo[1] = y.todo[1]
           /\ y.todo = <<>> => z.todo[1].under = y.at
  <1> DEFINE path == SynthPath(y.at, segment, layout, ext)
             s == Step("create", path, y.at, segment)
             b == y.todo
             a == Append(b, s)
  <1>1. z = RoutePlan(TRUE, a, path)
    BY DEF Misses
  <1>2. s.under = y.at
    BY StepIs
  <1> HIDE DEF s, b, path
  <1>3. IsSeq(b)
    BY DEF b
  <1>4. /\ IsSeq(a) /\ a # <<>> /\ Len(a) = Len(b) + 1 /\ a[Len(b) + 1] = s
        /\ b # <<>> => a[1] = b[1]
    BY <1>3, AppendTail
  <1>5. b = <<>> => a[1] = s
    <2>1. ASSUME b = <<>> PROVE Len(b) + 1 = 1
      <3>1. Len(b) = 0
        BY <2>1
      <3>2. QED
        BY <3>1
    <2>2. QED
      BY <1>4, <2>1
  <1> HIDE DEF a
  <1>6. z.todo = a /\ z.ok
    BY <1>1, OkIs
  <1>7. QED
    BY <1>2, <1>4, <1>5, <1>6 DEF b

\* The empty route and no other has no length.
LEMMA NoneIs ==
    \A s : IsSeq(s) => Len(s) \in Nat /\ (s = <<>> <=> Len(s) = 0)
  <1> SUFFICES ASSUME NEW s, IsSeq(s)
               PROVE  Len(s) \in Nat /\ (s = <<>> <=> Len(s) = 0)
    OBVIOUS
  <1>1. PICK C : s \in Seq(C)
    BY DEF IsSeq
  <1>2. QED
    BY <1>1

\* What a walk that came through knew on the way: it had come through so far,
\* and had no other document to create first.
LEMMA WalkedBack ==
    ASSUME NEW ws, Filed(ws), NEW root, Readable(ws, root), NEW C, NEW segments \in Seq(C),
           NEW layout, NEW f, Walked(ws, root, segments, layout, f),
           f[Len(segments)].ok, NEW p, NEW u, NEW t, Leads(f[Len(segments)], p, u, t)
    PROVE  \A k \in 0..Len(segments) :
              /\ f[k].ok /\ Leads(f[k], p, u, t)
              /\ Len(f[Len(segments)].todo) <= Len(f[k].todo) + (Len(segments) - k)
  <1> DEFINE n == Len(segments)
             ext == Extension(root)
             m == Len(f[n].todo)
             Good(k) == /\ f[k].ok /\ Leads(f[k], p, u, t)
                        /\ m <= Len(f[k].todo) + (n - k)
             S == {j \in 0..n : Good(n - j)}
  <1>1. n \in Nat
    OBVIOUS
  <1>2. /\ \A k \in 0..n : f[k].ok => Chain(ws, segments, layout, ext, k, f[k])
        /\ \A k \in 1..n : f[k].ok =>
              /\ f[k - 1].ok
              /\ \/ Misses(ws, layout, ext, f[k - 1], segments[k], f[k])
                 \/ Finds(ws, f[k - 1], segments[k], f[k])
    BY WalkedIs
  <1>3. \A k \in 0..n : f[k].ok => IsSeq(f[k].todo) /\ Len(f[k].todo) \in Nat
    BY <1>2, NoneIs DEF Chain
  <1> HIDE DEF n, ext
  <1>4. 0 \in S
    <2>1. n - 0 = n /\ n \in 0..n /\ 0 \in 0..n /\ f[n].ok /\ Leads(f[n], p, u, t)
      BY <1>1 DEF n
    <2>2. m \in Nat
      BY <1>3, <2>1
    <2> HIDE DEF m
    <2>3. m <= m + (n - n)
      BY <1>1, <2>2
    <2>4. Good(n)
      BY <2>1, <2>3 DEF m
    <2> HIDE DEF Good
    <2>5. QED
      BY <2>1, <2>4
  <1>5. ASSUME NEW j \in 1..n, j - 1 \in S PROVE j \in S
    <2> DEFINE k == n - (j - 1)
               y == f[k - 1]
               z == f[k]
    <2>1. k \in 1..n /\ k \in 0..n /\ k - 1 \in 0..n /\ k - 1 = n - j /\ k - 1 \in Nat
      BY <1>1
    <2>2. Good(k)
      <3> HIDE DEF Good
      <3>1. QED
        BY <1>5
    <2> HIDE DEF k
    <2>3. /\ y.ok
          /\ \/ Misses(ws, layout, ext, y, segments[k], z)
             \/ Finds(ws, y, segments[k], z)
      BY <1>2, <2>1, <2>2
    <2>4. IsSeq(y.todo) /\ Len(y.todo) \in Nat /\ IsSeq(z.todo) /\ Len(z.todo) \in Nat /\ m \in Nat
      <3>1. n \in 0..n /\ f[n].ok
        BY <1>1 DEF n
      <3>2. QED
        BY <1>3, <2>1, <2>2, <2>3, <3>1
    <2> DEFINE a == Len(y.todo)
               b == Len(z.todo)
    <2>5. Leads(y, p, u, t) /\ b <= a + 1
      <3>1. CASE Misses(ws, layout, ext, y, segments[k], z)
        <4>1. /\ z.todo # <<>> /\ b = a + 1
              /\ y.todo # <<>> => z.todo[1] = y.todo[1]
          BY <2>4, <3>1, MissesMore
        <4>2. b <= a + 1
          BY <2>4, <4>1
        <4>3. QED
          BY <2>2, <4>1, <4>2 DEF Leads
      <3>2. CASE Finds(ws, y, segments[k], z)
        <4> DEFINE e == <<>>
        <4>1. PICK c : z = RoutePlan(TRUE, e, c)
          BY <3>2 DEF Finds
        <4>2. y.todo = <<>>
          BY <3>2 DEF Finds
        <4>3. z.todo = <<>>
          <5> HIDE DEF e
          <5>1. z.todo = e
            BY <4>1, OkIs
          <5>2. QED
            BY <5>1 DEF e
        <4>4. b = 0
          BY <2>4, <4>3, NoneIs
        <4> HIDE DEF a, b
        <4>5. b <= a + 1
          BY <2>4, <4>4 DEF a
        <4>6. QED
          BY <4>2, <4>5 DEF Leads
      <3>3. QED
        BY <2>3, <3>1, <3>2
    <2>6. m <= a + (n - (k - 1))
      <3>1. m <= b + (n - k)
        BY <2>2
      <3> HIDE DEF a, b, m
      <3>2. a \in Nat /\ b \in Nat /\ m \in Nat
        BY <2>4 DEF a, b, m
      <3>3. k \in Nat
        BY <2>1
      <3>4. QED
        BY <1>1, <2>5, <3>1, <3>2, <3>3
    <2>7. Good(k - 1)
      BY <2>3, <2>5, <2>6
    <2> HIDE DEF Good
    <2>8. j \in 0..n /\ Good(n - j)
      BY <1>1, <2>1, <2>7
    <2>9. QED
      BY <2>8
  <1> HIDE DEF S
  <1>6. \A j \in 0..n : j \in S
    BY <1>1, <1>4, <1>5, Upto
  <1>7. ASSUME NEW k \in 0..n PROVE Good(k)
    <2> HIDE DEF Good
    <2>1. n - k \in 0..n /\ n - (n - k) = k
      BY <1>1
    <2>2. n - k \in S
      BY <1>6, <2>1
    <2>3. Good(n - (n - k))
      BY <2>2 DEF S
    <2>4. QED
      BY <2>1, <2>3
  <1>8. QED
    BY <1>7 DEF n

\* The documents a walk comes to have metadata.
LEMMA WalkedMeta ==
    ASSUME NEW ws, Filed(ws), NEW root, Readable(ws, root), ws[root].meta,
           NEW C, NEW segments \in Seq(C),
           NEW layout, NEW f, Walked(ws, root, segments, layout, f),
           \A k \in 0..Len(segments) : f[k].ok
    PROVE  LET y == f[Len(segments)] IN y.todo # <<>> => ws[y.todo[1].under].meta
  <1> DEFINE n == Len(segments)
             ext == Extension(root)
             Good(k) == /\ f[k].todo = <<>> => ws[f[k].at].meta
                        /\ f[k].todo # <<>> => ws[f[k].todo[1].under].meta
             S == {k \in 0..n : Good(k)}
  <1>1. n \in Nat
    OBVIOUS
  <1>2. /\ f[0] = RoutePlan(TRUE, <<>>, root)
        /\ \A k \in 0..n : f[k].ok => Chain(ws, segments, layout, ext, k, f[k])
        /\ \A k \in 1..n : f[k].ok =>
              /\ f[k - 1].ok
              /\ \/ Misses(ws, layout, ext, f[k - 1], segments[k], f[k])
                 \/ Finds(ws, f[k - 1], segments[k], f[k])
    BY ZenonT(30), WalkedIs
  <1> HIDE DEF ext
  <1>3. 0 \in S
    <2> DEFINE e == <<>>
               y == f[0]
    <2>1. y = RoutePlan(TRUE, e, root)
      BY <1>2
    <2> HIDE DEF e, y
    <2>2. y.todo = e /\ y.at = root
      BY <2>1, OkIs
    <2>3. Good(0)
      BY <2>2 DEF e, y
    <2> HIDE DEF Good
    <2>4. 0 \in 0..n
      BY <1>1
    <2>5. QED
      BY <2>3, <2>4
  <1>4. ASSUME NEW k \in 1..n, k - 1 \in S PROVE k \in S
    <2> DEFINE y == f[k - 1]
               z == f[k]
    <2>1. k \in 0..n /\ k - 1 \in 0..n
      BY <1>1
    <2>2. Good(k - 1)
      <3> HIDE DEF Good
      <3>1. QED
        BY <1>4
    <2>3. /\ IsSeq(y.todo)
          /\ \/ Misses(ws, layout, ext, y, segments[k], z)
             \/ Finds(ws, y, segments[k], z)
      BY <1>2, <2>1 DEF Chain
    <2>4. Good(k)
      <3>1. CASE Misses(ws, layout, ext, y, segments[k], z)
        <4>1. /\ z.todo # <<>>
              /\ y.todo # <<>> => z.todo[1] = y.todo[1]
              /\ y.todo = <<>> => z.todo[1].under = y.at
          BY <2>3, <3>1, MissesMore
        <4>2. QED
          BY <2>2, <4>1
      <3>2. CASE Finds(ws, y, segments[k], z)
        <4> DEFINE e == <<>>
        <4>0. y.todo = <<>>
          BY <3>2 DEF Finds
        <4>1. PICK c : Named(ws, y, segments[k]) = {c} /\ z = RoutePlan(TRUE, e, c)
          BY <3>2 DEF Finds
        <4>2. ws[c].meta
          <5>1. c \in ChildTitled(ws, y.at, segments[k])
            BY <4>0, <4>1 DEF Named
          <5>2. QED
            BY <5>1 DEF ChildTitled
        <4> HIDE DEF e
        <4>3. z.todo = e /\ z.at = c
          <5>1. z = RoutePlan(TRUE, e, c)
            BY <4>1
          <5> HIDE DEF z
          <5>2. QED
            BY <5>1, OkIs
        <4>4. z.todo = <<>> /\ ws[z.at].meta
          BY <4>2, <4>3 DEF e
        <4> HIDE DEF z
        <4>5. /\ z.todo = <<>> => ws[z.at].meta
              /\ z.todo # <<>> => ws[z.todo[1].under].meta
          BY <4>4
        <4>6. QED
          BY <4>5 DEF z
      <3>3. QED
        BY <2>3, <3>1, <3>2
    <2> HIDE DEF Good
    <2>5. QED
      BY <2>1, <2>4
  <1> HIDE DEF S
  <1>5. \A k \in 0..n : k \in S
    BY <1>1, <1>3, <1>4, Upto
  <1>6. n \in 0..n
    BY <1>1
  <1>7. Good(n)
    BY <1>5, <1>6 DEF S
  <1>8. QED
    BY <1>7

\* A route, the first document it is to create made, and the route again.
Resuming(ws, root, segments, layout, a, s, r, b) ==
    /\ a = PlanRoute(ws, root, segments, layout) /\ a.ok /\ a.todo # <<>>
    /\ s = a.todo[1] /\ r = Create(ws, s.path, s.under, s.title)
    /\ b = PlanRoute(r.file, root, segments, layout)

\* A route is resumed: once its first document is made, walking it again
\* plans the others.
LEMMA Resumes ==
    ASSUME NEW ws, Filed(ws), NEW root, Readable(ws, root), ws[root].meta, Content(root),
           NEW C, NEW segments \in Seq(C), NEW layout,
           Differ(segments), layout = "flat" => Apart(segments),
           NEW a, NEW s, NEW r, NEW b, Resuming(ws, root, segments, layout, a, s, r, b)
    PROVE  /\ Filed(r.file) /\ Readable(r.file, root) /\ r.file[root].meta /\ s.do = "create"
           /\ b.ok /\ b.todo = Tail(a.todo) /\ b.at = a.at
  <1> DEFINE n == Len(segments)
             ext == Extension(root)
             v == r.file
             p == s.path
             u == s.under
             t == s.title
             m == Len(a.todo)
  <1>0. a.ok /\ a.todo # <<>> /\ s = a.todo[1]
    BY DEF Resuming
  <1>1. PICK f : Walked(ws, root, segments, layout, f) /\ a = f[n]
    BY PlanRouteIs DEF Resuming
  <1>2. n \in Nat /\ n \in 0..n /\ 0 \in 0..n
    OBVIOUS
  <1>3. /\ f[0] = RoutePlan(TRUE, <<>>, root)
        /\ \A k \in 0..n : f[k].ok => Chain(ws, segments, layout, ext, k, f[k])
        /\ \A k \in 1..n : f[k].ok =>
              /\ f[k - 1].ok
              /\ \/ Misses(ws, layout, ext, f[k - 1], segments[k], f[k])
                 \/ Finds(ws, f[k - 1], segments[k], f[k])
    <2>1. f[0] = RoutePlan(TRUE, <<>>, root)
      BY <1>1, <1>2 DEF Walked
    <2> HIDE DEF ext
    <2>2. \A k \in 0..n : f[k].ok => Chain(ws, segments, layout, ext, k, f[k])
      BY <1>1, WalkedIs DEF ext
    <2>3. \A k \in 1..n : f[k].ok =>
              /\ f[k - 1].ok
              /\ \/ Misses(ws, layout, ext, f[k - 1], segments[k], f[k])
                 \/ Finds(ws, f[k - 1], segments[k], f[k])
      BY <1>1, WalkedIs DEF ext
    <2>4. QED
      BY <2>1, <2>2, <2>3
  <1>4. Chain(ws, segments, layout, ext, n, a)
    BY <1>0, <1>1, <1>2, <1>3
  <1>5. m \in Nat /\ m # 0 /\ m <= n
    BY <1>0, <1>4, NoneIs DEF Chain
  <1>6. ext \in {"md", "yaml", "json"} /\ ext = "md"
    BY DEF Content
  <1>7. 1 \in 1..m
    BY <1>5
  <1>8. /\ s.do = "create" /\ p \notin DOMAIN ws /\ Place(u)
        /\ p = SynthPath(u, t, layout, ext) /\ t = segments[(n - m) + 1]
        /\ Readable(ws, u)
    BY <1>0, <1>4, <1>5, <1>7 DEF Chain
  <1>9. Place(p) /\ ~Opaque(p) /\ ~WholeFile(p)
    <2> HIDE DEF p, u, t, ext
    <2>0. Place(u)
      BY <1>8
    <2>1. Place(SynthPath(u, t, layout, ext)) /\ Extension(SynthPath(u, t, layout, ext)) = ext
      BY <2>0, SynthIs
    <2>3. Place(p) /\ Extension(p) = ext
      BY <1>8, <2>1
    <2>2. QED
      BY <1>6, <2>3 DEF Opaque, Content, WholeFile
  <1>10. Under(ws, p, u)
    <2>1. Ready(ws, a.todo)
      <3> HIDE DEF ext, n
      <3>1. n \in 0..Len(segments)
        BY <1>2 DEF n
      <3>2. QED
        BY <1>4, <1>6, <3>1, ChainReady
    <2>2. 1 \in DOMAIN a.todo
      <3>1. IsSeq(a.todo)
        BY <1>4 DEF Chain
      <3>2. QED
        BY <1>7, <3>1, SeqIs
    <2>3. \/ Under(ws, p, u)
          \/ \E j \in 1..(1 - 1) : a.todo[j].path = u
      BY <1>0, <1>8, <2>1, <2>2 DEF Ready
    <2>4. QED
      BY <2>3
  <1>11. Makes(ws, p, u, t, r)
    <2> HIDE DEF p, u, t
    <2>1. r = Create(ws, p, u, t)
      BY DEF p, u, t, Resuming
    <2>2. QED
      BY <1>8, <1>9, <1>10, <2>1, CreateMakes
  <1>12. Leads(a, p, u, t)
    BY <1>0 DEF Leads
  <1>13. ASSUME NEW k \in 0..n
         PROVE  f[k].ok /\ Leads(f[k], p, u, t) /\ m <= Len(f[k].todo) + (n - k)
    <2> HIDE DEF p, u, t
    <2>1. f[Len(segments)].ok /\ Leads(f[Len(segments)], p, u, t)
      BY <1>0, <1>1, <1>12
    <2>2. \A i \in 0..Len(segments) :
              /\ f[i].ok /\ Leads(f[i], p, u, t)
              /\ Len(f[Len(segments)].todo) <= Len(f[i].todo) + (Len(segments) - i)
      BY <1>1, <2>1, WalkedBack
    <2>3. QED
      BY <1>1, <2>2
  <1>14. ws[u].meta
    <2>1. \A k \in 0..Len(segments) : f[k].ok
      BY <1>13
    <2>2. a.todo # <<>> => ws[a.todo[1].under].meta
      BY <1>1, <2>1, WalkedMeta
    <2>3. QED
      BY <1>0, <2>2
  <1>15. u \in DOMAIN ws
    BY <1>8 DEF Readable
  <1>16. Opened(ws, p, u, t, r)
    BY <1>8, <1>9, <1>11, <1>14, <1>15 DEF Opened
  <1>17. Filed(v) /\ Readable(v, root) /\ v[root].meta
    <2>1. /\ Filed(v) /\ DOMAIN v = DOMAIN ws \cup {p}
          /\ v[u] = Listing(ws[u], p) /\ \A q \in DOMAIN ws \ {u} : v[q] = ws[q]
      BY <1>11 DEF Makes
    <2>2. Readable(v, root) /\ root \in DOMAIN ws
      BY <2>1 DEF Readable
    <2> HIDE DEF v, p, u
    <2>3. v[u].meta
      BY <2>1, ListingIs
    <2>4. root # u => v[root] = ws[root]
      BY <2>1, <2>2
    <2>5. QED
      BY <2>1, <2>2, <2>3, <2>4
  <1>18. PICK g : Walked(v, root, segments, layout, g) /\ b = g[n]
    BY PlanRouteIs DEF Resuming
  <1>19. /\ g[0] = RoutePlan(TRUE, <<>>, root)
         /\ \A k \in 1..n : g[k] = PlanSegment(v, layout, ext, g[k - 1], segments[k])
    <2>1. g[0] = RoutePlan(TRUE, <<>>, root)
      BY <1>2, <1>18 DEF Walked
    <2>2. \A k \in 1..n : g[k] = PlanSegment(v, layout, ext, g[k - 1], segments[k])
      BY <1>2, <1>18 DEF Walked
    <2>3. QED
      BY <2>1, <2>2
  <1> DEFINE S == {k \in 0..n : Retraces(g[k], f[k])}
  <1> HIDE DEF n, ext, p, u, t, m, v
  <1>20. 0 \in S
    <2> DEFINE e == <<>>
               y == f[0]
               h == g[0]
    <2>1. y = RoutePlan(TRUE, e, root) /\ h = RoutePlan(TRUE, e, root)
      BY <1>3, <1>19
    <2> HIDE DEF e, y, h
    <2>2. y.todo = e /\ y.at = root /\ h.todo = e /\ h.at = root /\ h.ok /\ Planned(h)
      BY <2>1, OkIs
    <2>3. Retraces(h, y)
      BY <2>2 DEF Retraces, e
    <2>4. QED
      BY <1>2, <2>3 DEF h, y
  <1>21. ASSUME NEW k \in 1..n, k - 1 \in S PROVE k \in S
    <2> DEFINE y == f[k - 1]
               z == f[k]
               h == g[k - 1]
               x == segments[k]
    <2>1. k \in 0..n /\ k - 1 \in 0..n
      BY <1>2
    <2>2. Retraces(h, y)
      BY <1>21
    <2>3. /\ Leads(y, p, u, t) /\ Leads(z, p, u, t) /\ z.ok
          /\ Chain(ws, segments, layout, ext, k - 1, y) /\ Chain(ws, segments, layout, ext, k, z)
          /\ \/ Misses(ws, layout, ext, y, x, z)
             \/ Finds(ws, y, x, z)
      BY <1>3, <1>13, <2>1
    <2>4. g[k] = PlanSegment(v, layout, ext, h, x)
      BY <1>19
    <2>5. Retraces(PlanSegment(r.file, layout, ext, h, x), z)
      <3>1. CASE Finds(ws, y, x, z)
        <4>1. x # t
          <5> DEFINE e == <<>>
          <5>1. PICK c : z = RoutePlan(TRUE, e, c)
            BY <3>1 DEF Finds
          <5>2. Len(z.todo) = 0
            <6>1. z.todo = <<>>
              <7> HIDE DEF e, z
              <7>1. z.todo = e
                BY <5>1, OkIs
              <7>2. QED
                BY <7>1 DEF e
            <6>2. IsSeq(z.todo)
              BY <2>3 DEF Chain
            <6> HIDE DEF z
            <6>3. QED
              BY <6>1, <6>2, NoneIs
          <5>3. m <= 0 + (n - k)
            BY <1>13, <2>1, <5>2
          <5> DEFINE i == (n - m) + 1
          <5>4. i \in 1..n /\ k # i
            BY <1>2, <1>5, <5>3
          <5>5. DOMAIN segments = 1..n
            BY DEF n
          <5>6. t = segments[i]
            BY <1>8
          <5> HIDE DEF i
          <5>7. QED
            BY <5>4, <5>5, <5>6 DEF Differ
        <4>2. Readable(ws, y.at)
          <5>1. y.todo = <<>>
            BY <3>1 DEF Finds
          <5>2. IsSeq(y.todo)
            BY <2>3 DEF Chain
          <5>3. Len(y.todo) = 0
            BY <5>1, <5>2, NoneIs
          <5>4. QED
            BY <2>3, <5>3 DEF Chain
        <4> HIDE DEF x, y, z, h
        <4>3. FindsOther(ws, y, x, t, z)
          BY <3>1, <4>1, <4>2 DEF FindsOther
        <4>4. QED
          BY <1>16, <2>2, <4>3, RetraceFound
      <3>2. CASE Misses(ws, layout, ext, y, x, z) /\ y.todo = <<>>
        <4> HIDE DEF x, y, z, h
        <4>1. QED
          BY <1>16, <2>2, <2>3, <3>2, RetraceFirst
      <3>3. CASE Misses(ws, layout, ext, y, x, z) /\ y.todo # <<>>
        <4>1. Spread(z.todo, layout, ext)
          <5> HIDE DEF z
          <5>1. k \in 0..Len(segments)
            BY <2>1 DEF n
          <5>2. QED
            BY <2>3, <5>1, ChainApart
        <4> DEFINE j == k - 1
        <4>2. Chain(ws, segments, layout, ext, j, y)
          BY <2>3
        <4> HIDE DEF x, y, z, h, j
        <4>3. QED
          BY <1>16, <2>2, <2>3, <3>3, <4>1, <4>2, RetraceRest
      <3>4. QED
        BY <2>3, <3>1, <3>2, <3>3
    <2>6. Retraces(g[k], z)
      BY <2>4, <2>5 DEF v
    <2>7. QED
      BY <2>1, <2>6
  <1> HIDE DEF S
  <1>22. \A k \in 0..n : k \in S
    BY <1>2, <1>20, <1>21, Upto
  <1>23. Retraces(b, a)
    BY <1>1, <1>2, <1>18, <1>22 DEF S
  <1>24. b.ok /\ b.todo = Tail(a.todo) /\ b.at = a.at
    BY <1>0, <1>23 DEF Retraces
  <1>25. Filed(r.file) /\ Readable(r.file, root) /\ r.file[root].meta
    BY <1>17 DEF v
  <1>26. s.do = "create"
    BY <1>8
  <1>27. QED
    BY <1>24, <1>25, <1>26

\* Every route of titles that differ.
RoutesDiffer ==
    \A req \in Requests : req.op = "new" => Differ(req.to.segments)

\* What a route plans is at each point what is left of it.
Left(ws, root, req, todo) ==
    /\ req \in Requests /\ Readable(ws, root) /\ ws[root].meta
    /\ PlanNew(ws, root, req).ok /\ todo = PlanNew(ws, root, req).todo

ResumeInv ==
    cmd.on /\ cmd.req.op = "new" /\ same /\ Content(cmd.root) /\ cmd.todo # <<>> =>
        Left(file, cmd.root, cmd.req, cmd.todo)

\* The plan of new: the route's, and the document itself.
LEMMA PlanNewIs ==
    ASSUME NEW ws, NEW root, NEW req,
           NEW a, a = PlanRoute(ws, root, req.to.segments, req.to.layout)
    PROVE  /\ PlanNew(ws, root, req).ok <=> a.ok /\ (req.parents \/ a.todo = <<>>)
           /\ PlanNew(ws, root, req).todo = Append(a.todo, Step("leaf", <<>>, a.at, req.title))
  BY DEF PlanNew

\* After a step of a route the rest of it is what would be planned.
LEMMA LeftGoesOn ==
    ASSUME RoutesApart, RoutesDiffer,
           NEW ws, Filed(ws), NEW root, Content(root), NEW req, req.op = "new",
           NEW todo, todo # <<>>, Left(ws, root, req, todo), Tail(todo) # <<>>,
           NEW r, r = Take(ws, Head(todo), req)
    PROVE  Left(r.file, root, req, Tail(todo))
  <1> DEFINE segments == req.to.segments
             layout == req.to.layout
             a == PlanRoute(ws, root, segments, layout)
             l == Step("leaf", <<>>, a.at, req.title)
             s == a.todo[1]
             b == PlanRoute(r.file, root, segments, layout)
             c == Create(ws, s.path, s.under, s.title)
  <1>1. /\ req \in Requests /\ Readable(ws, root) /\ ws[root].meta
        /\ PlanNew(ws, root, req).ok /\ todo = PlanNew(ws, root, req).todo
    BY DEF Left
  <1>2. /\ segments \in Seq(DOMAIN Slug) /\ Differ(segments)
        /\ layout = "flat" => Apart(segments)
    BY <1>1, RequestsAssumption DEF RoutesApart, RoutesDiffer
  <1>3. /\ a.ok /\ (req.parents \/ a.todo = <<>>)
        /\ todo = Append(a.todo, l)
    <2> HIDE DEF l
    <2>1. /\ PlanNew(ws, root, req).ok <=> a.ok /\ (req.parents \/ a.todo = <<>>)
          /\ PlanNew(ws, root, req).todo = Append(a.todo, l)
      BY PlanNewIs DEF l
    <2>2. QED
      BY Zenon, <1>1, <2>1
  <1>4. IsSeq(a.todo)
    <2>1. PICK f : Walked(ws, root, segments, layout, f) /\ a = f[Len(segments)]
      BY <1>2, PlanRouteIs
    <2> DEFINE ext == Extension(root)
    <2>2. Len(segments) \in 0..Len(segments)
      BY <1>2
    <2>3. Readable(ws, root)
      BY <1>1
    <2> HIDE DEF segments, layout, ext, a, l
    <2>4. \A k \in 0..Len(segments) : f[k].ok => Chain(ws, segments, layout, ext, k, f[k])
      BY <1>2, <2>1, <2>3, WalkedIs DEF ext
    <2>5. Chain(ws, segments, layout, ext, Len(segments), a)
      BY <1>3, <2>1, <2>2, <2>4
    <2>6. QED
      BY <2>5 DEF Chain
  <1> HIDE DEF l, segments, layout
  <1>5. a.todo # <<>> /\ Head(todo) = s /\ Tail(todo) = Append(Tail(a.todo), l)
    <2> DEFINE d == a.todo
    <2>1. todo = Append(d, l) /\ IsSeq(d)
      BY <1>3, <1>4
    <2> HIDE DEF d, a
    <2>2. d # <<>>
      BY <2>1, AppendTail
    <2>3. Head(todo) = Head(d) /\ Tail(todo) = Append(Tail(d), l)
      BY <2>1, <2>2, AppendTail
    <2>4. Head(d) = d[1]
      BY <2>1, <2>2, TailIs
    <2>5. QED
      BY <2>2, <2>3, <2>4 DEF d
  <1> HIDE DEF a
  <1>6. a = PlanRoute(ws, root, segments, layout) /\ b = PlanRoute(r.file, root, segments, layout)
    BY DEF a
  <1> HIDE DEF b
  <1>7. s.do = "create"
    <2> DEFINE q == Create(ws, s.path, s.under, s.title)
               e == PlanRoute(q.file, root, segments, layout)
    <2>1. q = Create(ws, s.path, s.under, s.title) /\ e = PlanRoute(q.file, root, segments, layout)
      OBVIOUS
    <2>2. s = a.todo[1]
      OBVIOUS
    <2> HIDE DEF q, e, s
    <2>3. Resuming(ws, root, segments, layout, a, s, q, e)
      BY <1>3, <1>5, <1>6, <2>1, <2>2 DEF Resuming
    <2>4. QED
      BY <1>1, <1>2, <2>3, Resumes
  <1>8. r = c
    BY <1>5, <1>7 DEF Take
  <1>9. s = a.todo[1] /\ c = Create(ws, s.path, s.under, s.title)
    OBVIOUS
  <1> HIDE DEF s, c
  <1>10. /\ Readable(r.file, root) /\ r.file[root].meta
         /\ b.ok /\ b.todo = Tail(a.todo) /\ b.at = a.at
    <2>1. r = Create(ws, s.path, s.under, s.title)
      BY <1>8, <1>9
    <2>2. Resuming(ws, root, segments, layout, a, s, r, b)
      BY <1>3, <1>5, <1>6, <1>9, <2>1 DEF Resuming
    <2>3. QED
      BY <1>1, <1>2, <2>2, Resumes
  <1>11. /\ PlanNew(r.file, root, req).ok
         /\ PlanNew(r.file, root, req).todo = Append(b.todo, Step("leaf", <<>>, b.at, req.title))
    <2>1. b = PlanRoute(r.file, root, req.to.segments, req.to.layout)
      BY <1>6 DEF segments, layout
    <2>2. PlanNew(r.file, root, req).ok <=> b.ok /\ (req.parents \/ b.todo = <<>>)
      BY <2>1, PlanNewIs
    <2>3. PlanNew(r.file, root, req).todo = Append(b.todo, Step("leaf", <<>>, b.at, req.title))
      BY <2>1 DEF PlanNew
    <2>4. req.parents
      BY <1>3, <1>5
    <2>5. QED
      BY <1>10, <2>2, <2>3, <2>4
  <1>12. PlanNew(r.file, root, req).todo = Tail(todo)
    <2>1. Append(b.todo, Step("leaf", <<>>, b.at, req.title)) = Append(Tail(a.todo), l)
      BY <1>10 DEF l
    <2>2. QED
      BY <1>5, <1>11, <2>1
  <1>13. PlanNew(r.file, root, req).ok /\ Readable(r.file, root) /\ r.file[root].meta
    BY <1>10, <1>11
  <1>14. QED
    BY <1>1, <1>12, <1>13 DEF Left

\* No route has begun.
LEMMA ResumeInit == Init => ResumeInv
  BY IdleIs DEF Init, ResumeInv

\* TakesIn keeps ResumeInv: a document made leaves the rest of the route.
LEMMA ResumeTakesIn ==
    ASSUME RoutesApart, RoutesDiffer, IntakeInv, ResumeInv, TakesIn
    PROVE  ResumeInv'
  <1> DEFINE t == cmd.todo
             r == Take(file, Head(t), cmd.req)
  <1>1. cmd.on /\ t # <<>> /\ same' = same /\ file' = r.file
    BY DEF TakesIn, Advance
  <1>2. cmd' = [cmd EXCEPT !.todo = Tail(t)] \/ cmd' = Idle
    BY DEF TakesIn, Advance
  <1>3. IsCommand(cmd) /\ Filed(file)
    BY DEF IntakeInv
  <1> HIDE DEF t
  <1>4. CASE cmd' = [cmd EXCEPT !.todo = Tail(t)]
    <2>1. cmd'.on = cmd.on /\ cmd'.req = cmd.req /\ cmd'.root = cmd.root /\ cmd'.todo = Tail(t)
      BY <1>3, <1>4, CommandIs DEF After
    <2>2. ASSUME cmd.req.op = "new", same, Content(cmd.root), Tail(t) # <<>>
          PROVE  Left(file', cmd.root, cmd.req, Tail(t))
      <3>1. Left(file, cmd.root, cmd.req, t)
        BY <1>1, <2>2 DEF ResumeInv, t
      <3>2. Left(r.file, cmd.root, cmd.req, Tail(t))
        <4>1. r = Take(file, Head(t), cmd.req)
          OBVIOUS
        <4> HIDE DEF r
        <4>2. QED
          BY <1>1, <1>3, <2>2, <3>1, <4>1, LeftGoesOn
      <3>3. QED
        BY <1>1, <3>2
    <2>3. QED
      BY <1>1, <2>1, <2>2 DEF ResumeInv
  <1>5. CASE cmd' = Idle
    BY <1>5, IdleIs DEF ResumeInv
  <1>6. QED
    BY <1>2, <1>4, <1>5

\* Begin keeps ResumeInv: nothing is made yet.
LEMMA ResumeBegin ==
    ASSUME IntakeInv, NEW req \in Requests, Begin(req)
    PROVE  ResumeInv'
  <1>1. file' = file
    BY IntakeBegin
  <1>2. SUFFICES ASSUME cmd'.on, cmd'.req.op = "new"
                 PROVE  Left(file, cmd'.root, cmd'.req, cmd'.todo)
    BY <1>1 DEF ResumeInv
  <1>3. PICK root \in RootOf(file) :
            /\ Plan(file, root, req).ok /\ cmd'.todo = Plan(file, root, req).todo
            /\ cmd'.req = req /\ cmd'.root = root
    BY <1>2, IntakeBegin
  <1>4. Plan(file, root, req) = PlanNew(file, root, req)
    BY <1>2, <1>3 DEF Plan
  <1>5. Readable(file, root) /\ file[root].meta
    BY RootIs
  <1>6. QED
    BY <1>3, <1>4, <1>5 DEF Left

\* A route that is walked again plans what is left of it (RoutesResume).
LEMMA ResumeStep ==
    ASSUME RoutesApart, RoutesDiffer, IntakeInv, ResumeInv, [FoundingNext]_vars
    PROVE  ResumeInv'
  <1>1. CASE UNCHANGED vars
    BY <1>1 DEF vars, ResumeInv
  <1>2. ASSUME NEW req \in Foundings, Found(req) PROVE ResumeInv'
    <2>1. cmd'.req = req
      BY <1>2, IntakeFound
    <2>2. req.op = "init"
      BY FoundingsAssumption
    <2>3. QED
      BY <2>1, <2>2 DEF ResumeInv
  <1>3. CASE \E req \in Requests : Begin(req)
    BY <1>3, ResumeBegin
  <1>4. CASE WriteFile \/ Point \/ Survey
    <2>1. Head(cmd.todo).do \in Early /\ cmd.on /\ cmd.todo # <<>>
      BY <1>4 DEF WriteFile, Point, Survey, At, Early
    <2>2. cmd.req.op = "init"
      <3>1. ~Moving(cmd.todo)
        <4>1. Moving(cmd.todo) => Head(cmd.todo).do \in Moves
          BY <2>1, HeadIs
        <4>2. QED
          BY <2>1, <4>1 DEF Early, Moves
      <3>2. QED
        BY <2>1, <3>1 DEF IntakeInv
    <2>3. ~cmd'.on \/ cmd'.req = cmd.req
      <3>1. cmd' = Idle \/ \E x : cmd' = [cmd EXCEPT !.todo = x]
        BY <1>4 DEF WriteFile, Point, Survey
      <3>2. \A x : cmd' = [cmd EXCEPT !.todo = x] => cmd'.req = cmd.req
        BY CommandIs DEF IntakeInv, After
      <3>3. QED
        BY <3>1, <3>2, IdleIs
    <2>4. QED
      BY <2>2, <2>3 DEF ResumeInv
  <1>5. CASE TakesIn
    BY <1>5, ResumeTakesIn
  <1>6. CASE Finish \/ Kill
    <2>1. ~cmd'.on
      BY <1>6, IdleIs DEF Finish, Kill
    <2>2. QED
      BY <2>1 DEF ResumeInv
  <1>7. CASE Edit
    <2>1. ~same'
      BY <1>7, IntakeEdit
    <2>2. QED
      BY <2>1 DEF ResumeInv
  <1>8. QED
    BY <1>1, <1>2, <1>3, <1>4, <1>5, <1>6, <1>7 DEF FoundingNext

\* RoutesResume, below a root whose prose is in it: walked again after any
\* step of it, a route plans exactly what is left to create.
THEOREM IntakeRoutesResume ==
    ASSUME RoutesApart, RoutesDiffer
    PROVE  FoundingSpec => [](Content(cmd.root) => RoutesResume)
  <1>1. Init => ResumeInv
    BY ResumeInit
  <1>2. IntakeInv /\ ResumeInv /\ [FoundingNext]_vars => ResumeInv'
    BY ResumeStep
  <1>3. ResumeInv => (Content(cmd.root) => RoutesResume)
    <2>1. SUFFICES ASSUME ResumeInv, Content(cmd.root), cmd.on /\ cmd.req.op = "new" /\ same,
                          cmd.todo # <<>>
                   PROVE  Plan(file, cmd.root, cmd.req).todo = cmd.todo
      BY DEF RoutesResume
    <2>2. Left(file, cmd.root, cmd.req, cmd.todo)
      BY <2>1 DEF ResumeInv
    <2>3. Plan(file, cmd.root, cmd.req) = PlanNew(file, cmd.root, cmd.req)
      BY <2>1 DEF Plan
    <2>4. QED
      BY <2>2, <2>3 DEF Left
  <1>4. QED
    BY <1>1, <1>2, <1>3, IntakeSound, PTL DEF FoundingSpec
=============================================================================
