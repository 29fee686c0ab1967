--------------------------- MODULE RegistryProofs ---------------------------
(***************************************************************************)
(* What Registry guarantees for all paths, ids and bounds: the inductive   *)
(* invariant Inv, and from it that an id on record names one document,     *)
(* that ids in links are on record, that records are never lost, and that  *)
(* the index of a process and the disk agree.  The premise that            *)
(* HostMayAbort is FALSE leaves out the unwinding of a set that moves the  *)
(* registry document, after which they do not.                             *)
(***************************************************************************)
EXTENDS Registry, TLAPS

-----------------------------------------------------------------------------
(* The index.                                                              *)

\* What register of index.rs does to each field.
LEMMA RegisterFacts ==
    ASSUME NEW ix \in Index, NEW i \in Id, NEW p \in Path
    PROVE  /\ Register(ix, i, p) \in Index
           /\ Register(ix, i, p).forward = [ix.forward EXCEPT ![i] = p]
           /\ Register(ix, i, p).reverse = [ix.reverse EXCEPT ![p] = i]
           /\ Register(ix, i, p).tombstones = ix.tombstones
           /\ Register(ix, i, p).dirty
           /\ Register(ix, i, p).host = ix.host
           /\ Register(ix, i, p).file = ix.file
  BY DEF Register, Index

\* What set_path does to each field.
LEMMA SetPathFacts ==
    ASSUME NEW ix \in Index, NEW i \in Id, NEW p \in Path
    PROVE  /\ SetPath(ix, i, p) \in Index
           /\ SetPath(ix, i, p).forward = [ix.forward EXCEPT ![i] = p]
           /\ SetPath(ix, i, p).reverse =
                [q \in Path |-> IF q = p THEN i
                                ELSE IF q = ix.forward[i] THEN None ELSE ix.reverse[q]]
           /\ SetPath(ix, i, p).tombstones = ix.tombstones
           /\ SetPath(ix, i, p).dirty
           /\ SetPath(ix, i, p).host = ix.host
           /\ SetPath(ix, i, p).file = ix.file
  BY DEF SetPath, Index

\* What unregister does to each field.
LEMMA UnregisterFacts ==
    ASSUME NEW ix \in Index, NEW i \in Id
    PROVE  /\ Unregister(ix, i) \in Index
           /\ Unregister(ix, i).forward = [ix.forward EXCEPT ![i] = None]
           /\ Unregister(ix, i).reverse =
                [q \in Path |-> IF q = ix.forward[i] THEN None ELSE ix.reverse[q]]
           /\ Unregister(ix, i).tombstones = ix.tombstones \cup {i}
           /\ Unregister(ix, i).dirty
           /\ Unregister(ix, i).host = ix.host
           /\ Unregister(ix, i).file = ix.file
  BY DEF Unregister, Index

\* rollback gives back every field of a checkpoint but the host.
LEMMA RollbackFacts ==
    ASSUME NEW ix \in Index, NEW cp \in Index \cup {None}
    PROVE  /\ Rollback(ix, cp) \in Index
           /\ Rollback(ix, cp).host = ix.host
           /\ cp = None => Rollback(ix, cp) = ix
           /\ cp # None =>
                /\ Rollback(ix, cp).forward = cp.forward
                /\ Rollback(ix, cp).reverse = cp.reverse
                /\ Rollback(ix, cp).tombstones = cp.tombstones
                /\ Rollback(ix, cp).dirty = cp.dirty
                /\ Rollback(ix, cp).file = cp.file
  BY DEF Rollback, Index

\* What parsing a registry document gives.
Parsed(ix, p, file) ==
    /\ ix \in Index
    /\ \A i \in Id : ix.forward[i] =
         IF file.records[i] \in Live THEN file.records[i] ELSE None
    /\ \A q \in Path :
         /\ ix.reverse[q] # None => ix.forward[ix.reverse[q]] = q
         /\ ix.reverse[q] = None => \A i \in Id : ix.forward[i] # q
    /\ \A i \in Id : i \in ix.tombstones <=> file.records[i] = Tombstone
    /\ ix.dirty = FALSE /\ ix.host = p /\ ix.file = file

\* parse reads a registry document into an index of it.
LEMMA ParseFacts ==
    ASSUME NEW p \in Path, NEW file \in File
    PROVE  Parsed(Parse(p, file), p, file)
  <1> SUFFICES ASSUME NEW ix, ix = Parse(p, file) PROVE Parsed(ix, p, file)
    OBVIOUS
  <1> DEFINE forward == [i \in Id |-> IF file.records[i] \in Live THEN file.records[i] ELSE None]
             reverse == [q \in Path |->
                           IF \E i \in Id : forward[i] = q
                           THEN CHOOSE i \in Id : forward[i] = q ELSE None]
  <1>1. /\ ix.forward = forward /\ ix.reverse = reverse
        /\ ix.tombstones = {i \in Id : file.records[i] = Tombstone}
        /\ ix.dirty = FALSE /\ ix.host = p /\ ix.file = file
    BY DEF Parse
  <1>2. forward \in [Id -> Path \cup {None}]
    BY DEF Live
  <1>3. ASSUME NEW q \in Path
        PROVE  /\ reverse[q] \in Id \cup {None}
               /\ reverse[q] # None => forward[reverse[q]] = q
               /\ reverse[q] = None => \A i \in Id : forward[i] # q
    <2>1. CASE \E i \in Id : forward[i] = q
      <3> HIDE DEF forward
      <3>1. reverse[q] = CHOOSE i \in Id : forward[i] = q
        BY <2>1
      <3>2. reverse[q] \in Id /\ forward[reverse[q]] = q
        BY <2>1, <3>1
      <3>3. QED
        BY <3>2, RegistryAssumption
    <2>2. CASE ~\E i \in Id : forward[i] = q
      BY <2>2
    <2>3. QED
      BY <2>1, <2>2
  <1>4. ix = [forward |-> forward, reverse |-> reverse,
              tombstones |-> {i \in Id : file.records[i] = Tombstone},
              dirty |-> FALSE, host |-> p, file |-> file]
    BY DEF Parse
  <1>5. reverse \in [Path -> Id \cup {None}]
    BY <1>3
  <1>6. ix \in Index
    <2> HIDE DEF forward, reverse
    <2>1. QED
      BY <1>2, <1>4, <1>5 DEF Index
  <1>7. \A q \in Path :
          /\ ix.reverse[q] # None => ix.forward[ix.reverse[q]] = q
          /\ ix.reverse[q] = None => \A i \in Id : ix.forward[i] # q
    <2> HIDE DEF forward, reverse
    <2>1. QED
      BY <1>1, <1>3
  <1>8. \A i \in Id : ix.forward[i] =
           IF file.records[i] \in Live THEN file.records[i] ELSE None
    BY <1>1
  <1>9. \A i \in Id : i \in ix.tombstones <=> file.records[i] = Tombstone
    BY <1>1
  <1>10. ix.dirty = FALSE /\ ix.host = p /\ ix.file = file
    BY <1>1
  <1> HIDE DEF forward, reverse
  <1>11. QED
    BY <1>6, <1>7, <1>8, <1>9, <1>10 DEF Parsed

-----------------------------------------------------------------------------
(* Links an operation writes, and ids it gives to what they lead to.       *)

Works == [index : Index, store : Store]

\* v is w after a link to p was written, or p was given an id.
Touched(w, v, p) ==
    /\ v \in Works
    /\ \/ v.index = w.index
       \/ w.index.reverse[p] = None /\ \E i \in Mint(w.index) : v.index = Register(w.index, i, p)
    /\ v.store.doc = w.store.doc /\ v.store.ledger = w.store.ledger
    /\ v.store.host = w.store.host /\ v.store.bin = w.store.bin
    /\ \A i \in v.store.cited : i \in w.store.cited \/ v.index.reverse[p] = i

\* An index and a workspace are work.
LEMMA WorkType ==
    ASSUME NEW ix \in Index, NEW st \in Store
    PROVE  Work(ix, st) \in Works /\ Work(ix, st).index = ix /\ Work(ix, st).store = st
  BY DEF Work, Works

\* A link written by authored_target touches the work at its target only.
LEMMA LinkedTouches ==
    ASSUME NEW w \in Works, NEW p \in Path, NEW v \in Linked(w, p)
    PROVE  Touched(w, v, p)
  <1>1. CASE v = w
    BY <1>1 DEF Touched
  <1>2. CASE v # w /\ IdFor(w.index, p) # None
    <2>1. IdFor(w.index, p) \in Id
      BY <1>2 DEF IdFor, Works, Index
    <2>2. v = [w EXCEPT !.store.cited = @ \cup {IdFor(w.index, p)}]
      BY <1>2 DEF Linked
    <2>3. QED
      BY <2>1, <2>2 DEF Touched, IdFor, Works, Store
  <1>3. CASE v # w /\ IdFor(w.index, p) = None
    <2>1. PICK i \in Mint(w.index) :
             v = [w EXCEPT !.index = Register(@, i, p), !.store.cited = @ \cup {i}]
      BY <1>3 DEF Linked
    <2>2. i \in Id /\ w.index \in Index
      BY DEF Mint, Works
    <2> DEFINE ix == w.index
    <2>3. Register(w.index, i, p) \in Index /\ Register(w.index, i, p).reverse[p] = i
      <3>1. /\ Register(ix, i, p) \in Index
            /\ Register(ix, i, p).reverse = [ix.reverse EXCEPT ![p] = i]
        BY <2>2, RegisterFacts
      <3>2. ix.reverse \in [Path -> Id \cup {None}]
        BY <2>2 DEF Index
      <3>3. QED
        BY <3>1, <3>2
    <2>4. v.index = Register(w.index, i, p) /\ v.store = [w.store EXCEPT !.cited = @ \cup {i}]
      BY <2>1 DEF Works
    <2>5. v \in Works
      BY <2>1, <2>2, <2>3 DEF Works, Store
    <2>6. QED
      BY <1>3, <2>2, <2>3, <2>4, <2>5 DEF Touched, IdFor, Works, Store
  <1>4. QED
    BY <1>1, <1>2, <1>3

\* So does the id an eager policy gives.
LEMMA StampedTouches ==
    ASSUME NEW w \in Works, NEW p \in Path, NEW v \in Stamped(w, p)
    PROVE  Touched(w, v, p)
  <1>1. CASE v = w
    BY <1>1 DEF Touched
  <1>2. CASE v # w
    <2>1. IdFor(w.index, p) = None
      BY <1>2 DEF Stamped
    <2>2. PICK i \in Mint(w.index) : v = [w EXCEPT !.index = Register(@, i, p)]
      BY <1>2, <2>1 DEF Stamped
    <2>3. i \in Id /\ w.index \in Index
      BY DEF Mint, Works
    <2>4. Register(w.index, i, p) \in Index
      BY <2>3, RegisterFacts
    <2>5. QED
      BY <2>1, <2>2, <2>4 DEF Touched, IdFor, Works
  <1>3. QED
    BY <1>1, <1>2

\* What an operation has made so far.
Sound(w) ==
    /\ Tracks(w.index) /\ Fits(w.index, w.store)
    /\ Harmless(w.index) /\ Edits(w.store)

\* An id that may be minted was never recorded, nor kept in the bin.
LEMMA MintedIsNew ==
    ASSUME NEW ix \in Index, Recorded(disk), Tracks(ix), Covers(ix), NEW i \in Mint(ix)
    PROVE  /\ i \in Id /\ names[i] = None
           /\ ix.forward[i] = None /\ i \notin ix.tombstones
           /\ \A rec \in disk.bin : rec.id # i
  <1>1. i \in Id /\ ~Known(ix, i)
    BY DEF Mint
  <1>2. Registered(disk)[i] = Unknown
    BY <1>1 DEF Covers, Tracks, Registered
  <1>3. names[i] = None
    BY <1>1, <1>2 DEF Recorded
  <1>4. \A rec \in disk.bin : rec.id # i
    BY <1>1, <1>2, RegistryAssumption DEF Recorded, Tombstone, Unknown
  <1>5. QED
    BY <1>1, <1>3, <1>4 DEF Known

\* Registering a new id for a document that has none.
LEMMA RegisterGood ==
    ASSUME NEW ix \in Index, NEW i \in Id, NEW p \in Path, NEW d \in Store,
           names[i] = None, ix.forward[i] = None, i \notin ix.tombstones,
           ix.reverse[p] = None, d.doc[p] # None, Fits(ix, d)
    PROVE  Fits(Register(ix, i, p), d)
  <1> DEFINE nx == Register(ix, i, p)
  <1>1. /\ nx \in Index
        /\ nx.forward = [ix.forward EXCEPT ![i] = p]
        /\ nx.reverse = [ix.reverse EXCEPT ![p] = i]
        /\ nx.tombstones = ix.tombstones /\ nx.dirty /\ nx.file = ix.file
    BY RegisterFacts
  <1>2. i # None /\ p # None
    BY RegistryAssumption
  <1> HIDE DEF nx
  <1>3. Inverse(nx)
    <2>1. /\ ix.forward \in [Id -> Path \cup {None}]
          /\ ix.reverse \in [Path -> Id \cup {None}]
      BY DEF Index
    <2>2. \A j \in Id, q \in Path : ix.forward[j] = q <=> ix.reverse[q] = j
      BY DEF Fits, Inverse
    <2>3. QED
      BY <1>1, <2>1, <2>2, RegistryAssumption DEF Inverse
  <1>4. Covers(nx) /\ Clean(nx)
    BY <1>1, <1>2 DEF Covers, Clean, Fits, Index, Known
  <1>5. ASSUME NEW j \in Id, nx.forward[j] # None
        PROVE  Nameable(j, d.doc[nx.forward[j]])
    BY <1>1, <1>5 DEF Nameable, Fits, Index
  <1>6. ASSUME NEW rec \in d.bin, rec.id # None
        PROVE  /\ nx.forward[rec.id] = None /\ rec.id \in nx.tombstones
               /\ Nameable(rec.id, rec.doc)
    <2>1. rec.id \in Id
      BY <1>6 DEF Store
    <2>2. rec.id \in ix.tombstones /\ ix.forward[rec.id] = None /\ Nameable(rec.id, rec.doc)
      BY <1>6 DEF Fits
    <2>3. QED
      BY <1>1, <2>1, <2>2 DEF Index
  <1>7. \A j \in d.cited \ lost : Known(nx, j)
    BY <1>1, <1>2 DEF Fits, Known, Index, Store
  <1>8. QED
    BY <1>3, <1>4, <1>5, <1>6, <1>7 DEF Fits, nx

\* Registering a new id claims nothing of a document on disk or in the bin.
LEMMA RegisterHarmless ==
    ASSUME NEW ix \in Index, NEW i \in Id, NEW p \in Path, disk \in Store,
           names[i] = None, ix.forward[i] = None, i \notin ix.tombstones,
           ix.reverse[p] = None, \A rec \in disk.bin : rec.id # i, Harmless(ix)
    PROVE  Harmless(Register(ix, i, p))
  <1> DEFINE nx == Register(ix, i, p)
  <1>1. /\ nx \in Index
        /\ nx.forward = [ix.forward EXCEPT ![i] = p]
        /\ nx.reverse = [ix.reverse EXCEPT ![p] = i]
        /\ nx.tombstones = ix.tombstones /\ nx.dirty /\ nx.file = ix.file
    BY RegisterFacts
  <1>2. /\ ix.forward \in [Id -> Path \cup {None}]
        /\ ix.reverse \in [Path -> Id \cup {None}]
    BY DEF Index
  <1> HIDE DEF nx
  <1>3. Inverse(nx)
    <2>1. \A j \in Id, q \in Path : ix.forward[j] = q <=> ix.reverse[q] = j
      BY DEF Harmless, Inverse
    <2>2. QED
      BY <1>1, <1>2, <2>1, RegistryAssumption DEF Inverse
  <1>4. Covers(nx)
    BY <1>1, <1>2, RegistryAssumption DEF Covers, Harmless, Known
  <1>5. \A j \in Id : nx.forward[j] # None /\ disk.doc[nx.forward[j]] # None =>
            Nameable(j, disk.doc[nx.forward[j]])
    BY <1>1, <1>2 DEF Harmless, Nameable
  <1>6. ASSUME NEW rec \in disk.bin, rec.id # None, nx.forward[rec.id] # None
        PROVE  disk.doc[nx.forward[rec.id]] = None
    <2>1. rec.id \in Id /\ rec.id # i
      BY <1>6 DEF Store
    <2>2. QED
      BY <1>1, <1>2, <1>6, <2>1 DEF Harmless
  <1>7. QED
    BY <1>3, <1>4, <1>5, <1>6 DEF Harmless, nx

\* Registering leaves the host alone and forgets nothing.
LEMMA RegisterKeeps ==
    ASSUME NEW ix \in Index, NEW i \in Id, NEW p \in Path, Tracks(ix)
    PROVE  /\ Tracks(Register(ix, i, p))
           /\ \A j \in Id : Known(ix, j) => Known(Register(ix, i, p), j)
           /\ Register(ix, i, p) \in Index
  <1>1. /\ Register(ix, i, p) \in Index
        /\ Register(ix, i, p).forward = [ix.forward EXCEPT ![i] = p]
        /\ Register(ix, i, p).reverse = [ix.reverse EXCEPT ![p] = i]
        /\ Register(ix, i, p).tombstones = ix.tombstones
        /\ Register(ix, i, p).dirty
        /\ Register(ix, i, p).host = ix.host
        /\ Register(ix, i, p).file = ix.file
    BY RegisterFacts
  <1>2. ix.forward \in [Id -> Path \cup {None}]
    BY DEF Index
  <1>3. \A j \in Id : Known(ix, j) => Known(Register(ix, i, p), j)
    <2>1. p # None
      BY RegistryAssumption
    <2>2. QED
      BY <1>1, <1>2, <2>1 DEF Known
  <1>4. QED
    BY <1>1, <1>3 DEF Tracks

\* Another text of the documents cites ids the index knows: nothing else of
\* the workspace is looked at.
LEMMA CitesFit ==
    ASSUME NEW ix \in Index, NEW d \in Store, NEW e \in Store, Fits(ix, d),
           e.doc = d.doc, e.bin = d.bin,
           \A i \in e.cited \ lost : Known(ix, i)
    PROVE  Fits(ix, e)
  BY DEF Fits, BinApart

\* Sound work stays sound when a link to a document of it is written.
LEMMA TouchedSound ==
    ASSUME disk \in Store, Recorded(disk), NEW w \in Works, NEW v, NEW p \in Path,
           Touched(w, v, p), w.store.doc[p] # None, Sound(w)
    PROVE  Sound(v)
  <1> DEFINE ix == w.index
             d  == [w.store EXCEPT !.cited = {}]
             nx == v.index
  <1>1. /\ ix \in Index /\ w.store \in Store /\ nx \in Index /\ v.store \in Store
        /\ d \in Store /\ d.doc = w.store.doc /\ d.bin = w.store.bin /\ d.cited = {}
    BY DEF Works, Touched, Store
  <1>2. Fits(ix, d)
    <2> HIDE DEF ix, d
    <2>1. QED
      BY <1>1, CitesFit DEF Sound, ix
  <1>3. Tracks(nx) /\ Fits(nx, d) /\ Harmless(nx)
        /\ (\A i \in Id : Known(ix, i) => Known(nx, i))
    <2>1. CASE nx = ix
      BY <1>2, <2>1 DEF Sound
    <2>2. CASE nx # ix
      <3>1. ix.reverse[p] = None
        BY <2>2 DEF Touched
      <3>2. PICK i \in Mint(ix) : nx = Register(ix, i, p)
        BY <2>2 DEF Touched
      <3>3. Tracks(ix) /\ Covers(ix) /\ Harmless(ix)
        BY DEF Sound, Fits
      <3>4. /\ i \in Id /\ names[i] = None
            /\ ix.forward[i] = None /\ i \notin ix.tombstones
            /\ \A rec \in disk.bin : rec.id # i
        BY <1>1, <3>3, MintedIsNew
      <3>5. Fits(nx, d)
        <4> HIDE DEF ix, d, nx
        <4>1. d.doc[p] # None
          BY <1>1
        <4>2. QED
          BY <1>1, <1>2, <3>1, <3>2, <3>4, <4>1, RegisterGood
      <3>6. Harmless(nx)
        BY <1>1, <3>1, <3>2, <3>3, <3>4, RegisterHarmless
      <3>7. nx \in Index /\ Tracks(nx) /\ \A j \in Id : Known(ix, j) => Known(nx, j)
        BY <1>1, <3>2, <3>3, <3>4, RegisterKeeps
      <3>10. QED
        BY <3>5, <3>6, <3>7
    <2>3. QED
      BY <2>1, <2>2
  <1>4. \A i \in v.store.cited \ lost : Known(nx, i)
    <2> SUFFICES ASSUME NEW i \in v.store.cited \ lost PROVE Known(nx, i)
      OBVIOUS
    <2>1. i \in Id
      BY <1>1 DEF Store
    <2>2. CASE i \in w.store.cited
      BY <1>3, <2>1, <2>2 DEF Sound, Fits
    <2>3. CASE nx.reverse[p] = i
      <3>1. nx.forward[i] = p
        BY <1>3, <2>1, <2>3 DEF Fits, Inverse
      <3>2. QED
        BY <3>1, RegistryAssumption DEF Known
    <2>4. QED
      BY <2>2, <2>3 DEF Touched
  <1>5. Fits(nx, v.store)
    <2>1. v.store.doc = d.doc /\ v.store.bin = d.bin
      BY <1>1 DEF Touched
    <2> HIDE DEF nx, d
    <2>2. QED
      BY <1>1, <1>3, <1>4, <2>1, CitesFit
  <1>6. Edits(v.store)
    BY DEF Sound, Touched, Edits
  <1>7. QED
    BY <1>3, <1>5, <1>6 DEF Sound

-----------------------------------------------------------------------------
(* Operations, up to their commit.                                         *)

\* Work is sound, or, in a check that is astray, beside the workspace.
Due(w) == IF astray THEN Aside(w.store) ELSE Sound(w)

\* A step that opens an operation, and leaves it with such work.
Opens ==
    /\ pc = "idle" /\ made' \in 0..MaxDocs
    /\ \E w \in Works :
          /\ Begin(w.index, w.store) /\ Placed(w.store)
          /\ journal = None => Due(w)

\* What an operation opens with, after what the one before it may have left.
LEMMA OpenedFacts ==
    ASSUME Inv, pc = "idle"
    PROVE  /\ disk \in Store /\ index \in Index /\ Opened \in Index /\ Placed(disk)
           /\ made \in 0..MaxDocs
           /\ journal = None => Recorded(disk)
           /\ journal = None /\ ~astray =>
                Between /\ Harmless(Opened) /\ Sound(Work(Opened, disk))
  <1>1. /\ disk \in Store /\ index \in Index /\ saved \in Index \cup {None}
        /\ Placed(disk) /\ made \in 0..MaxDocs
        /\ journal = None => Recorded(disk)
        /\ journal = None /\ ~astray => Between
    BY DEF Inv, TypeOK
  <1>2. Opened \in Index
    BY <1>1, RollbackFacts DEF Opened
  <1>3. ASSUME journal = None, ~astray
        PROVE  Harmless(Opened) /\ Sound(Work(Opened, disk))
    <2>1. Fits(Opened, disk) /\ Tracks(Opened)
      BY <1>1, <1>3 DEF Between
    <2>2. Harmless(Opened)
      BY <2>1 DEF Fits, Harmless
    <2>3. Edits(disk)
      BY DEF Edits
    <2>4. QED
      BY <1>1, <1>2, <2>1, <2>2, <2>3, WorkType DEF Sound
  <1>4. QED
    BY <1>1, <1>2, <1>3

\* Where the registry document is depends on three fields only.
LEMMA PlacedAlike ==
    ASSUME NEW d, NEW e, Placed(d), e.ledger = d.ledger, e.host = d.host, e.doc = d.doc
    PROVE  Placed(e)
  BY DEF Placed

\* A workspace with documents and links added is one its index fits.
LEMMA FitsMore ==
    ASSUME NEW ix \in Index, NEW d \in Store, NEW e \in Store, Fits(ix, d),
           e.bin = d.bin, e.cited = d.cited,
           \A p \in Path : d.doc[p] # None => e.doc[p] = d.doc[p]
    PROVE  Fits(ix, e)
  <1>1. \A i \in Id : ix.forward[i] # None => Nameable(i, e.doc[ix.forward[i]])
    BY DEF Fits, Nameable, Index
  <1>2. QED
    BY <1>1 DEF Fits, BinApart

\* Work that is sound stays so through the links it then writes to p.
LEMMA LinkedOpens ==
    ASSUME Inv, pc = "idle", made' \in 0..MaxDocs, NEW w \in Works, NEW p \in Path,
           Placed(w.store), journal = None => Due(w), w.store.doc[p] # None,
           NEW v, Touched(w, v, p)
    PROVE  /\ v \in Works /\ Placed(v.store) /\ v.store.doc = w.store.doc
           /\ journal = None => Due(v)
  <1>1. v \in Works /\ v.store.doc = w.store.doc /\ Placed(v.store)
    BY PlacedAlike DEF Touched
  <1>2. ASSUME journal = None, ~astray PROVE Sound(v)
    BY <1>2, OpenedFacts, TouchedSound DEF Due
  <1>3. ASSUME journal = None, astray PROVE Aside(v.store)
    BY <1>3 DEF Due, Touched, Aside, Registered
  <1>4. QED
    BY <1>1, <1>2, <1>3 DEF Due

\* Link leaves sound work.
LEMMA LinkOpens ==
    ASSUME Inv, NEW p \in Path, Link(p)
    PROVE  Opens
  <1>1. pc = "idle" /\ disk.doc[p] # None /\ made' = made
    BY DEF Link, Empty
  <1>2. PICK w \in Linked(Work(Opened, disk), p) : Begin(w.index, w.store)
    BY DEF Link
  <1> DEFINE b == Work(Opened, disk)
  <1>3. b \in Works /\ b.index = Opened /\ b.store = disk
    BY <1>1, OpenedFacts, WorkType
  <1>4. Placed(b.store) /\ (journal = None => Due(b)) /\ made' \in 0..MaxDocs
    <2>1. Aside(disk)
      BY DEF Aside
    <2>2. QED
      BY <1>1, <1>3, <2>1, OpenedFacts DEF Due
  <1>5. Touched(b, w, p)
    BY <1>3, LinkedTouches
  <1> HIDE DEF b
  <1>6. w \in Works /\ Placed(w.store) /\ (journal = None => Due(w))
    BY <1>1, <1>3, <1>4, <1>5, LinkedOpens
  <1>7. QED
    BY <1>1, <1>2, <1>4, <1>6 DEF Opens

\* create leaves sound work.
LEMMA CreateOpens ==
    ASSUME Inv, NEW p \in Path, NEW q \in Path, Create(p, q)
    PROVE  Opens
  <1> DEFINE st == [disk EXCEPT !.doc[p] = made + 1]
             b  == Work(Opened, st)
  <1>1. /\ pc = "idle" /\ ~astray /\ disk.doc[p] = None /\ disk.doc[q] # None
        /\ made < MaxDocs /\ made' = made + 1
    BY DEF Create, Empty, Ready
  <1>2. /\ disk \in Store /\ Opened \in Index /\ Placed(disk)
        /\ made' \in 0..MaxDocs /\ made + 1 \in Doc
    BY <1>1, OpenedFacts, RegistryAssumption DEF Doc
  <1>3. /\ st \in Store /\ st.doc = [disk.doc EXCEPT ![p] = made + 1]
        /\ st.ledger = disk.ledger /\ st.host = disk.host
        /\ st.bin = disk.bin /\ st.cited = disk.cited
    BY <1>2 DEF Store
  <1>4. disk.doc \in [Path -> Doc \cup {None}] /\ disk.host \in Path /\ None \notin Doc
    BY <1>2, RegistryAssumption DEF Store
  <1> HIDE DEF st
  <1>5. st.doc[p] # None /\ st.doc[q] # None /\ Placed(st)
    <2>1. p # disk.host /\ 0 \in Doc
      BY <1>1, <1>2, <1>4, RegistryAssumption DEF Placed, Doc
    <2>2. QED
      BY <1>1, <1>2, <1>3, <1>4, <2>1 DEF Placed
  <1>6. b \in Works /\ b.index = Opened /\ b.store = st
    BY <1>2, <1>3, WorkType
  <1>7. ASSUME journal = None PROVE Due(b)
    <2>1. Fits(Opened, disk) /\ Tracks(Opened) /\ Harmless(Opened)
      BY <1>1, <1>7, OpenedFacts DEF Between
    <2>2. \A x \in Path : disk.doc[x] # None => st.doc[x] = disk.doc[x]
      BY <1>1, <1>3, <1>4
    <2>3. Fits(Opened, st)
      BY <1>2, <1>3, <2>1, <2>2, FitsMore
    <2>4. Edits(st)
      BY <1>3, <2>2 DEF Edits
    <2>5. QED
      BY <1>1, <1>6, <2>1, <2>3, <2>4 DEF Due, Sound
  <1>8. PICK u \in Linked(b, q) : \E v \in Linked(u, p) :
           \E w \in Stamped(v, p) : Begin(w.index, w.store)
    BY DEF Create, st
  <1>9. PICK v \in Linked(u, p) : \E w \in Stamped(v, p) : Begin(w.index, w.store)
    BY <1>8
  <1>10. PICK w \in Stamped(v, p) : Begin(w.index, w.store)
    BY <1>9
  <1> HIDE DEF b
  <1>11. /\ u \in Works /\ Placed(u.store) /\ u.store.doc = st.doc
         /\ journal = None => Due(u)
    <2>1. Touched(b, u, q)
      BY <1>6, LinkedTouches
    <2>2. QED
      BY <1>1, <1>2, <1>5, <1>6, <1>7, <2>1, LinkedOpens
  <1>12. /\ v \in Works /\ Placed(v.store) /\ v.store.doc = st.doc
         /\ journal = None => Due(v)
    <2>1. Touched(u, v, p)
      BY <1>11, LinkedTouches
    <2>2. QED
      BY <1>1, <1>2, <1>5, <1>11, <2>1, LinkedOpens
  <1>13. w \in Works /\ Placed(w.store) /\ (journal = None => Due(w))
    <2>1. Touched(v, w, p)
      BY <1>12, StampedTouches
    <2>2. QED
      BY <1>1, <1>2, <1>5, <1>12, <2>1, LinkedOpens
  <1>14. QED
    BY <1>1, <1>2, <1>10, <1>13 DEF Opens

\* A rewrite of the registry document's own links leaves sound work.
LEMMA RewriteOpens ==
    ASSUME Inv, NEW p \in Path, Rewrite(p)
    PROVE  Opens
  <1> DEFINE st == [disk EXCEPT !.ledger[disk.host].text = @ + 1]
             b  == Work(Opened, st)
  <1>1. /\ pc = "idle" /\ disk.ledger[disk.host] # None
        /\ disk.ledger[disk.host].text < MaxTexts /\ made' = made
    BY DEF Rewrite
  <1>2. /\ disk \in Store /\ Opened \in Index /\ Placed(disk) /\ made' \in 0..MaxDocs
    BY <1>1, OpenedFacts
  <1>3. /\ disk.host \in Path /\ disk.ledger \in [Path -> File \cup {None}]
        /\ disk.ledger[disk.host] \in File
    BY <1>1, <1>2 DEF Store
  <1>4. [disk.ledger[disk.host] EXCEPT !.text = @ + 1] \in File
    BY <1>1, <1>3, RegistryAssumption DEF File, Text
  <1>5. /\ st \in Store /\ st.doc = disk.doc /\ st.host = disk.host
        /\ st.ledger = [disk.ledger EXCEPT ![disk.host] =
                           [disk.ledger[disk.host] EXCEPT !.text = @ + 1]]
        /\ st.bin = disk.bin /\ st.cited = disk.cited
    BY <1>2, <1>3, <1>4 DEF Store
  <1>6. st.ledger[st.host].records = disk.ledger[disk.host].records
    BY <1>3, <1>5 DEF File
  <1> HIDE DEF st
  <1>7. Placed(st)
    <2>1. [disk.ledger[disk.host] EXCEPT !.text = @ + 1] # None
      BY <1>4, NoneAssumption
    <2>2. QED
      BY <1>2, <1>3, <1>5, <2>1 DEF Placed
  <1>8. b \in Works /\ b.index = Opened /\ b.store = st
    BY <1>2, <1>5, WorkType
  <1>9. ASSUME journal = None, ~astray PROVE Sound(b)
    <2>1. Fits(Opened, disk) /\ Tracks(Opened) /\ Harmless(Opened)
      BY <1>1, <1>9, OpenedFacts DEF Between
    <2>2. Fits(Opened, st)
      BY <1>2, <1>5, <2>1, FitsMore
    <2>3. Edits(st)
      BY <1>5, <1>6 DEF Edits
    <2>4. QED
      BY <1>8, <2>1, <2>2, <2>3 DEF Sound
  <1>10. journal = None => Due(b)
    <2>1. Aside(st)
      BY <1>5, <1>6 DEF Aside, Registered
    <2>2. QED
      BY <1>8, <1>9, <2>1 DEF Due
  <1>11. CASE disk.doc[p] = None
    <2>1. Begin(b.index, b.store)
      BY <1>8, <1>11 DEF Rewrite, Empty, st
    <2>2. QED
      BY <1>1, <1>2, <1>7, <1>8, <1>10, <2>1 DEF Opens
  <1>12. CASE disk.doc[p] # None
    <2>1. PICK w \in Linked(b, p) : Begin(w.index, w.store)
      BY <1>12 DEF Rewrite, Empty, st
    <2> HIDE DEF b
    <2>2. Touched(b, w, p)
      BY <1>8, LinkedTouches
    <2>3. w \in Works /\ Placed(w.store) /\ (journal = None => Due(w))
      BY <1>1, <1>2, <1>5, <1>7, <1>8, <1>10, <1>12, <2>2, LinkedOpens
    <2>4. QED
      BY <1>1, <1>2, <2>1, <2>3 DEF Opens
  <1>13. QED
    BY <1>11, <1>12

\* The index after a move of the document at p to an empty path q.
LEMMA SetPathGood ==
    ASSUME NEW ix \in Index, NEW i \in Id, NEW p \in Path, NEW q \in Path,
           NEW d \in Store, NEW e \in Store, Fits(ix, d),
           ix.reverse[p] = i, d.doc[p] # None, d.doc[q] = None,
           e.doc = [d.doc EXCEPT ![q] = d.doc[p], ![p] = None],
           e.bin = d.bin, e.cited = d.cited
    PROVE  Fits(SetPath(ix, i, q), e)
  <1> DEFINE nx == SetPath(ix, i, q)
  <1>1. /\ ix.forward \in [Id -> Path \cup {None}]
        /\ ix.reverse \in [Path -> Id \cup {None}]
        /\ d.doc \in [Path -> Doc \cup {None}]
        /\ None \notin Path /\ None \notin Id /\ p # q
    BY RegistryAssumption DEF Index, Store
  <1>2. \A j \in Id, x \in Path : ix.forward[j] = x <=> ix.reverse[x] = j
    BY DEF Fits, Inverse
  <1>3. ix.forward[i] = p
    BY <1>2
  <1>4. \A j \in Id : ix.forward[j] # q
    BY <1>1 DEF Fits, Nameable
  <1>5. /\ nx.forward = [ix.forward EXCEPT ![i] = q]
        /\ nx.reverse = [x \in Path |-> IF x = q THEN i
                                         ELSE IF x = p THEN None ELSE ix.reverse[x]]
        /\ nx.tombstones = ix.tombstones /\ nx.dirty /\ nx.file = ix.file
    BY <1>3, SetPathFacts
  <1> HIDE DEF nx
  <1>6. Inverse(nx)
    <2> SUFFICES ASSUME NEW j \in Id, NEW x \in Path
                 PROVE  nx.forward[j] = x <=> nx.reverse[x] = j
      BY DEF Inverse
    <2>1. CASE x = q
      BY <1>1, <1>4, <1>5, <2>1
    <2>2. CASE x = p
      BY <1>1, <1>2, <1>3, <1>5, <2>2
    <2>3. CASE x # q /\ x # p
      BY <1>1, <1>2, <1>3, <1>5, <2>3
    <2>4. QED
      BY <2>1, <2>2, <2>3
  <1>7. Covers(nx) /\ Clean(nx)
    BY <1>1, <1>5 DEF Covers, Clean, Fits, Known
  <1>8. ASSUME NEW j \in Id, nx.forward[j] # None
        PROVE  Nameable(j, e.doc[nx.forward[j]])
    <2>1. CASE j = i
      <3>1. Nameable(i, d.doc[p])
        BY <1>1, <1>3 DEF Fits
      <3>2. QED
        BY <1>1, <1>5, <2>1, <3>1
    <2>2. CASE j # i
      <3>1. ix.forward[j] # p /\ ix.forward[j] # q /\ ix.forward[j] \in Path
        BY <1>1, <1>2, <1>4, <1>5, <1>8, <2>2
      <3>2. Nameable(j, d.doc[ix.forward[j]])
        BY <1>1, <3>1 DEF Fits
      <3>3. QED
        BY <1>1, <1>5, <2>2, <3>1, <3>2
    <2>3. QED
      BY <2>1, <2>2
  <1>9. ASSUME NEW rec \in e.bin, rec.id # None
        PROVE  /\ nx.forward[rec.id] = None /\ rec.id \in nx.tombstones
               /\ Nameable(rec.id, rec.doc)
    <2>1. rec.id \in Id
      BY <1>9 DEF Store
    <2>2. rec.id \in ix.tombstones /\ ix.forward[rec.id] = None /\ Nameable(rec.id, rec.doc)
      BY <1>9 DEF Fits
    <2>3. rec.id # i
      BY <1>1, <1>3, <2>2
    <2>4. QED
      BY <1>1, <1>5, <2>1, <2>2, <2>3
  <1>10. \A j \in e.cited \ lost : Known(nx, j)
    BY <1>1, <1>5 DEF Fits, Known, Store
  <1>11. BinApart(e)
    BY DEF Fits, BinApart
  <1>12. QED
    BY <1>6, <1>7, <1>8, <1>9, <1>10, <1>11 DEF Fits, nx

\* set_path moves one id and leaves the host alone.
LEMMA SetPathMoves ==
    ASSUME NEW ix \in Index, NEW i \in Id, NEW q \in Path
    PROVE  /\ \A j \in Id : SetPath(ix, i, q).forward[j] \in {q, ix.forward[j]}
           /\ SetPath(ix, i, q).host = ix.host /\ SetPath(ix, i, q).file = ix.file
  <1>1. /\ SetPath(ix, i, q).forward = [ix.forward EXCEPT ![i] = q]
        /\ SetPath(ix, i, q).host = ix.host /\ SetPath(ix, i, q).file = ix.file
    BY SetPathFacts
  <1>2. ix.forward \in [Id -> Path \cup {None}]
    BY DEF Index
  <1>3. QED
    BY <1>1, <1>2

\* rename leaves sound work, of the registry document as of any other.
LEMMA RenameOpens ==
    ASSUME Inv, NEW p \in Path, NEW q \in Path, Rename(p, q)
    PROVE  Opens
  <1> DEFINE i  == IdFor(Opened, p)
             st == [disk EXCEPT
                      !.doc    = [@ EXCEPT ![q] = disk.doc[p], ![p] = None],
                      !.ledger = [@ EXCEPT ![q] = disk.ledger[p], ![p] = None],
                      !.host   = IF p = disk.host THEN q ELSE @]
             nx == IF i = None THEN Opened ELSE SetPath(Opened, i, q)
             b  == Work(nx, st)
  <1>1. pc = "idle" /\ ~astray /\ disk.doc[p] # None /\ disk.doc[q] = None /\ made' = made
    BY DEF Rename, Empty, Ready
  <1>2. /\ disk \in Store /\ Opened \in Index /\ Placed(disk) /\ made' \in 0..MaxDocs
    BY <1>1, OpenedFacts
  <1>3. /\ disk.host \in Path /\ disk.ledger \in [Path -> File \cup {None}]
        /\ disk.doc \in [Path -> Doc \cup {None}]
        /\ p # q /\ q # disk.host /\ disk.ledger[q] = None
    BY <1>1, <1>2, RegistryAssumption DEF Store, Placed, Doc
  <1>4. /\ st \in Store
        /\ st.doc = [disk.doc EXCEPT ![q] = disk.doc[p], ![p] = None]
        /\ st.ledger = [disk.ledger EXCEPT ![q] = disk.ledger[p], ![p] = None]
        /\ st.host = IF p = disk.host THEN q ELSE disk.host
        /\ st.bin = disk.bin /\ st.cited = disk.cited
    BY <1>2, <1>3 DEF Store
  <1> HIDE DEF st
  <1>5. Placed(st)
    <2>1. CASE p = disk.host
      BY <1>2, <1>3, <1>4, <2>1 DEF Placed
    <2>2. CASE p # disk.host
      BY <1>2, <1>3, <1>4, <2>2 DEF Placed
    <2>3. QED
      BY <2>1, <2>2
  <1>6. Edits(st)
    <2>1. st.ledger[st.host] = disk.ledger[disk.host]
      BY <1>2, <1>3, <1>4
    <2>2. ASSUME NEW x \in Path, disk.doc[x] # None, st.doc[x] # None
          PROVE  st.doc[x] = disk.doc[x]
      <3>1. x # q /\ x # p
        BY <1>1, <1>3, <1>4, <2>2
      <3>2. QED
        BY <1>3, <1>4, <3>1
    <2>3. QED
      BY <2>1, <2>2 DEF Edits
  <1>7. i \in Id \cup {None}
    BY <1>2 DEF IdFor, Index
  <1>8. nx \in Index
    BY <1>2, <1>7, SetPathFacts
  <1>9. Begin(nx, st)
    BY DEF Rename, st
  <1>10. ASSUME journal = None PROVE Tracks(nx) /\ Fits(nx, st) /\ Harmless(nx)
    <2>1. Fits(Opened, disk) /\ Tracks(Opened) /\ Harmless(Opened)
      BY <1>1, <1>10, OpenedFacts DEF Between
    <2>2. \A j \in Id, x \in Path : Opened.forward[j] = x <=> Opened.reverse[x] = j
      BY <2>1 DEF Fits, Inverse
    <2>3. Opened.forward \in [Id -> Path \cup {None}]
      BY <1>2 DEF Index
    <2>4. CASE i = None
      <3>1. \A j \in Id : Opened.forward[j] # p
        BY <2>2, <2>4, RegistryAssumption DEF IdFor
      <3>2. \A j \in Id : Opened.forward[j] # None => Nameable(j, st.doc[Opened.forward[j]])
        <4> SUFFICES ASSUME NEW j \in Id, Opened.forward[j] # None
                     PROVE  Nameable(j, st.doc[Opened.forward[j]])
          OBVIOUS
        <4>1. Nameable(j, disk.doc[Opened.forward[j]])
          BY <2>1 DEF Fits
        <4>2. Opened.forward[j] \in Path /\ Opened.forward[j] # p /\ Opened.forward[j] # q
          BY <1>1, <2>3, <3>1, <4>1 DEF Nameable
        <4>3. QED
          BY <1>3, <1>4, <4>1, <4>2
      <3>3. Fits(Opened, st)
        BY <1>4, <2>1, <3>2 DEF Fits, BinApart
      <3>4. QED
        BY <2>1, <2>4, <3>3
    <2>5. CASE i # None
      <3>1. i \in Id /\ Opened.reverse[p] = i
        BY <1>7, <2>5 DEF IdFor
      <3> HIDE DEF i
      <3>2. nx = SetPath(Opened, i, q)
        BY <2>5
      <3>3. Fits(SetPath(Opened, i, q), st)
        BY <1>1, <1>2, <1>4, <2>1, <3>1, SetPathGood
      <3>4. /\ \A j \in Id : nx.forward[j] = q \/ nx.forward[j] = Opened.forward[j]
            /\ nx.host = Opened.host /\ nx.file = Opened.file
        BY <1>2, <3>1, <3>2, SetPathMoves
      <3>5. Fits(nx, st)
        BY <3>2, <3>3
      <3> HIDE DEF nx
      <3>6. Tracks(nx)
        BY <2>1, <3>4 DEF Tracks
      <3>7. Harmless(nx)
        <4>1. Inverse(nx) /\ Covers(nx)
          BY <3>5 DEF Fits
        <4>2. QED
          BY <1>1, <1>2, <2>1, <3>4, <4>1 DEF Harmless, Store
      <3>8. QED
        BY <3>5, <3>6, <3>7
    <2>6. QED
      BY <2>4, <2>5
  <1> HIDE DEF nx
  <1>11. b \in Works /\ b.index = nx /\ b.store = st
    BY <1>4, <1>8, WorkType
  <1> HIDE DEF b
  <1>12. QED
    BY <1>1, <1>2, <1>5, <1>6, <1>9, <1>10, <1>11 DEF Opens, Due, Sound

\* The index without one id that, if it is live at all, is live at p, after
\* the document at p went; a record of it in the bin may keep the id.
LEMMA UnregisterGood ==
    ASSUME NEW ix \in Index, NEW i \in Id, NEW p \in Path, NEW d \in Store, NEW e \in Store,
           Fits(ix, d), ix.forward[i] \in {None, p},
           \A j \in Id : ix.forward[j] = p => j = i,
           e.doc = [d.doc EXCEPT ![p] = None], e.cited = d.cited,
           BinApart(e), \A rec \in e.bin : rec \in d.bin \/ (rec.id = i /\ Nameable(i, rec.doc))
    PROVE  Fits(Unregister(ix, i), e)
  <1> DEFINE nx == Unregister(ix, i)
  <1>1. /\ ix.forward \in [Id -> Path \cup {None}]
        /\ ix.reverse \in [Path -> Id \cup {None}]
        /\ d.doc \in [Path -> Doc \cup {None}]
        /\ None \notin Path /\ None \notin Id
    BY RegistryAssumption DEF Index, Store
  <1>2. \A j \in Id, x \in Path : ix.forward[j] = x <=> ix.reverse[x] = j
    BY DEF Fits, Inverse
  <1>3. /\ nx.forward = [ix.forward EXCEPT ![i] = None]
        /\ nx.reverse = [x \in Path |-> IF x = ix.forward[i] THEN None ELSE ix.reverse[x]]
        /\ nx.tombstones = ix.tombstones \cup {i} /\ nx.dirty /\ nx.file = ix.file
    BY UnregisterFacts
  <1> HIDE DEF nx
  <1>4. Inverse(nx)
    <2> SUFFICES ASSUME NEW j \in Id, NEW x \in Path
                 PROVE  nx.forward[j] = x <=> nx.reverse[x] = j
      BY DEF Inverse
    <2>1. CASE x = ix.forward[i]
      BY <1>1, <1>2, <1>3, <2>1
    <2>2. CASE x # ix.forward[i]
      BY <1>1, <1>2, <1>3, <2>2
    <2>3. QED
      BY <2>1, <2>2
  <1>5. Covers(nx) /\ Clean(nx)
    BY <1>1, <1>3 DEF Covers, Clean, Fits, Known
  <1>6. ASSUME NEW j \in Id, nx.forward[j] # None
        PROVE  Nameable(j, e.doc[nx.forward[j]])
    <2>1. j # i /\ nx.forward[j] = ix.forward[j] /\ ix.forward[j] \in Path
      BY <1>1, <1>3, <1>6
    <2>2. ix.forward[j] # p /\ Nameable(j, d.doc[ix.forward[j]])
      BY <1>1, <2>1 DEF Fits
    <2>3. QED
      BY <1>1, <2>1, <2>2
  <1>7. ASSUME NEW rec \in e.bin, rec.id # None
        PROVE  /\ nx.forward[rec.id] = None /\ rec.id \in nx.tombstones
               /\ Nameable(rec.id, rec.doc)
    <2>1. rec.id \in Id
      BY <1>7 DEF Store
    <2>2. CASE rec \in d.bin
      <3>1. rec.id \in ix.tombstones /\ ix.forward[rec.id] = None /\ Nameable(rec.id, rec.doc)
        BY <1>7, <2>2 DEF Fits
      <3>2. QED
        BY <1>1, <1>3, <2>1, <3>1
    <2>3. CASE rec.id = i /\ Nameable(i, rec.doc)
      BY <1>1, <1>3, <2>3
    <2>4. QED
      BY <2>2, <2>3
  <1>8. \A j \in e.cited \ lost : Known(nx, j)
    BY <1>1, <1>3 DEF Fits, Known, Store
  <1>9. QED
    BY <1>4, <1>5, <1>6, <1>7, <1>8 DEF Fits, nx

\* unregister retires one id and leaves the host alone.
LEMMA UnregisterForgets ==
    ASSUME NEW ix \in Index, NEW i \in Id
    PROVE  /\ Unregister(ix, i) \in Index
           /\ \A j \in Id : Unregister(ix, i).forward[j] \in {None, ix.forward[j]}
           /\ Unregister(ix, i).host = ix.host /\ Unregister(ix, i).file = ix.file
  <1>1. /\ Unregister(ix, i) \in Index
        /\ Unregister(ix, i).forward = [ix.forward EXCEPT ![i] = None]
        /\ Unregister(ix, i).host = ix.host /\ Unregister(ix, i).file = ix.file
    BY UnregisterFacts
  <1>2. ix.forward \in [Id -> Path \cup {None}]
    BY DEF Index
  <1>3. QED
    BY <1>1, <1>2

\* delete and recycle leave sound work, though recycle looked the id up in the
\* index as an operation that gave up had left it.
LEMMA RemoveOpens ==
    ASSUME Inv, NEW p \in Path, NEW recycle \in BOOLEAN, Remove(p, recycle)
    PROVE  Opens
  <1> DEFINE i  == IdFor(IF recycle THEN index ELSE Opened, p)
             st == [disk EXCEPT !.doc[p] = None,
                      !.bin = @ \cup IF recycle
                                     THEN {[doc |-> disk.doc[p], from |-> p, id |-> i]}
                                     ELSE {}]
             nx == IF i = None THEN Opened ELSE Unregister(Opened, i)
             b  == Work(nx, st)
  <1>1. pc = "idle" /\ ~astray /\ disk.doc[p] # None /\ disk.doc[p] # 0 /\ made' = made
    BY DEF Remove, Ready
  <1>2. /\ disk \in Store /\ Opened \in Index /\ index \in Index /\ Placed(disk)
        /\ made' \in 0..MaxDocs
    BY <1>1, OpenedFacts
  <1>3. /\ disk.host \in Path /\ disk.ledger \in [Path -> File \cup {None}]
        /\ disk.doc \in [Path -> Doc \cup {None}] /\ p # disk.host
        /\ disk.bin \in SUBSET [doc : Doc, from : Path, id : Id \cup {None}]
    BY <1>1, <1>2, RegistryAssumption DEF Store, Placed, Doc
  <1>4. i \in Id \cup {None}
    BY <1>2 DEF IdFor, Index
  <1> HIDE DEF i
  <1>5. /\ st \in Store
        /\ st.doc = [disk.doc EXCEPT ![p] = None]
        /\ st.ledger = disk.ledger /\ st.host = disk.host /\ st.cited = disk.cited
        /\ st.bin = disk.bin \cup IF recycle
                                   THEN {[doc |-> disk.doc[p], from |-> p, id |-> i]}
                                   ELSE {}
    <2>1. disk.doc[p] \in Doc
      BY <1>1, <1>3
    <2> DEFINE bin == disk.bin \cup IF recycle
                                    THEN {[doc |-> disk.doc[p], from |-> p, id |-> i]}
                                    ELSE {}
    <2>2. bin \in SUBSET [doc : Doc, from : Path, id : Id \cup {None}]
      BY <1>3, <1>4, <2>1
    <2>3. st = [disk EXCEPT !.doc[p] = None, !.bin = bin]
      BY <1>2 DEF Store
    <2> HIDE DEF bin, st
    <2>4. /\ st \in Store
          /\ st.doc = [disk.doc EXCEPT ![p] = None]
          /\ st.ledger = disk.ledger /\ st.host = disk.host /\ st.cited = disk.cited
          /\ st.bin = bin
      BY <1>2, <2>2, <2>3 DEF Store
    <2>5. QED
      BY <2>4 DEF bin
  <1> HIDE DEF st
  <1>6. Placed(st)
    BY <1>2, <1>3, <1>5 DEF Placed
  <1>7. Edits(st)
    BY <1>3, <1>5 DEF Edits
  <1>8. nx \in Index
    BY <1>2, <1>4, UnregisterFacts
  <1>9. Begin(nx, st)
    BY DEF Remove, st, i
  <1>10. \A rec \in st.bin : rec \in disk.bin \/ (rec.id = i /\ rec.doc = disk.doc[p])
    BY <1>5
  <1>11. ASSUME journal = None PROVE Tracks(nx) /\ Fits(nx, st) /\ Harmless(nx)
    <2>1. /\ Fits(Opened, disk) /\ Tracks(Opened) /\ Harmless(Opened) /\ Harmless(index)
          /\ \A j \in Id : Opened.forward[j] \in {None, index.forward[j]}
      BY <1>1, <1>11, OpenedFacts DEF Between
    <2>2. /\ \A j \in Id, x \in Path : Opened.forward[j] = x <=> Opened.reverse[x] = j
          /\ \A j \in Id, x \in Path : index.forward[j] = x <=> index.reverse[x] = j
      BY <2>1 DEF Fits, Harmless, Inverse
    <2>3. /\ Opened.forward \in [Id -> Path \cup {None}]
          /\ index.forward \in [Id -> Path \cup {None}]
          /\ None \notin Id /\ None \notin Path
      BY <1>2, RegistryAssumption DEF Index
    <2>4. CASE i = None
      <3>1. \A j \in Id : Opened.forward[j] # p
        BY <2>1, <2>2, <2>3, <2>4 DEF IdFor, i
      <3>2. \A j \in Id : Opened.forward[j] # None => Nameable(j, st.doc[Opened.forward[j]])
        <4> SUFFICES ASSUME NEW j \in Id, Opened.forward[j] # None
                     PROVE  Nameable(j, st.doc[Opened.forward[j]])
          OBVIOUS
        <4>1. Nameable(j, disk.doc[Opened.forward[j]])
          BY <2>1 DEF Fits
        <4>2. Opened.forward[j] \in Path /\ Opened.forward[j] # p
          BY <2>3, <3>1
        <4>3. QED
          BY <1>3, <1>5, <4>1, <4>2
      <3>3. BinApart(st)
        BY <1>10, <2>1, <2>4 DEF Fits, BinApart
      <3>4. Fits(Opened, st)
        BY <1>5, <1>10, <2>1, <2>4, <3>2, <3>3 DEF Fits
      <3>5. QED
        BY <2>1, <2>4, <3>4
    <2>5. CASE i # None
      <3>1. i \in Id
        BY <1>4, <2>5
      <3>2. Opened.forward[i] \in {None, p} /\ (\A j \in Id : Opened.forward[j] = p => j = i)
        <4>1. CASE recycle
          <5>1. index.reverse[p] = i
            BY <4>1 DEF IdFor, i
          <5>2. QED
            BY <2>1, <2>2, <2>3, <3>1, <5>1
        <4>2. CASE ~recycle
          <5>1. Opened.reverse[p] = i
            BY <4>2 DEF IdFor, i
          <5>2. QED
            BY <2>2, <2>3, <3>1, <5>1
        <4>3. QED
          BY <4>1, <4>2
      <3>3. ASSUME recycle
            PROVE  Nameable(i, disk.doc[p]) /\ \A rec \in disk.bin : rec.id # i
        <4>1. index.forward[i] = p
          BY <2>2, <3>1, <3>3 DEF IdFor, i
        <4>2. QED
          BY <1>1, <2>1, <2>3, <3>1, <4>1 DEF Harmless
      <3>4. BinApart(st)
        <4>1. BinApart(disk)
          BY <2>1 DEF Fits
        <4>2. CASE recycle
          <5>1. st.bin = disk.bin \cup {[doc |-> disk.doc[p], from |-> p, id |-> i]}
            BY <1>5, <4>2
          <5>2. QED
            BY <3>3, <4>1, <4>2, <5>1 DEF BinApart
        <4>3. CASE ~recycle
          BY <1>5, <4>1, <4>3 DEF BinApart
        <4>4. QED
          BY <4>2, <4>3
      <3>5. \A rec \in st.bin : rec \in disk.bin \/ (rec.id = i /\ Nameable(i, rec.doc))
        BY <1>5, <3>3
      <3>6. Fits(Unregister(Opened, i), st)
        BY <1>2, <1>5, <2>1, <3>1, <3>2, <3>4, <3>5, UnregisterGood
      <3>7. nx = Unregister(Opened, i)
        BY <2>5
      <3>8. /\ \A j \in Id : nx.forward[j] \in {None, Opened.forward[j]}
            /\ nx.host = Opened.host /\ nx.file = Opened.file
        BY <1>2, <3>1, <3>7, UnregisterForgets
      <3> HIDE DEF nx
      <3>9. Fits(nx, st)
        BY <3>6, <3>7
      <3>10. Tracks(nx)
        BY <2>1, <3>8 DEF Tracks
      <3>11. Harmless(nx)
        <4>1. Inverse(nx) /\ Covers(nx)
          BY <3>9 DEF Fits
        <4>2. QED
          BY <1>2, <2>1, <3>8, <4>1 DEF Harmless, Store
      <3>12. QED
        BY <3>9, <3>10, <3>11
    <2>6. QED
      BY <2>4, <2>5
  <1> HIDE DEF nx
  <1>12. b \in Works /\ b.index = nx /\ b.store = st
    BY <1>5, <1>8, WorkType
  <1> HIDE DEF b
  <1>13. QED
    BY <1>1, <1>2, <1>6, <1>7, <1>9, <1>11, <1>12 DEF Opens, Due, Sound

\* The index with an id registered again for a document restored to p.
LEMMA ReissueGood ==
    ASSUME NEW ix \in Index, NEW i \in Id, NEW p \in Path, NEW d \in Store, NEW e \in Store,
           Fits(ix, d), ix.forward[i] = None, d.doc[p] = None,
           NEW doc, e.doc = [d.doc EXCEPT ![p] = doc], e.cited = d.cited,
           Nameable(i, doc), e.bin \subseteq d.bin, \A rec \in e.bin : rec.id # i
    PROVE  Fits(Register(ix, i, p), e)
  <1> DEFINE nx == Register(ix, i, p)
  <1>1. /\ ix.forward \in [Id -> Path \cup {None}]
        /\ ix.reverse \in [Path -> Id \cup {None}]
        /\ d.doc \in [Path -> Doc \cup {None}]
        /\ None \notin Path /\ None \notin Id
    BY RegistryAssumption DEF Index, Store
  <1>2. \A j \in Id, x \in Path : ix.forward[j] = x <=> ix.reverse[x] = j
    BY DEF Fits, Inverse
  <1>3. \A j \in Id : ix.forward[j] # p
    BY <1>1 DEF Fits, Nameable
  <1>4. /\ nx.forward = [ix.forward EXCEPT ![i] = p]
        /\ nx.reverse = [ix.reverse EXCEPT ![p] = i]
        /\ nx.tombstones = ix.tombstones /\ nx.dirty /\ nx.file = ix.file
    BY RegisterFacts
  <1> HIDE DEF nx
  <1>5. Inverse(nx)
    BY <1>1, <1>2, <1>3, <1>4 DEF Inverse
  <1>6. Covers(nx) /\ Clean(nx)
    BY <1>1, <1>4 DEF Covers, Clean, Fits, Known
  <1>7. ASSUME NEW j \in Id, nx.forward[j] # None
        PROVE  Nameable(j, e.doc[nx.forward[j]])
    <2>1. CASE j = i
      BY <1>1, <1>4, <2>1
    <2>2. CASE j # i
      <3>1. nx.forward[j] = ix.forward[j] /\ ix.forward[j] \in Path
        BY <1>1, <1>4, <1>7, <2>2
      <3>2. ix.forward[j] # p /\ Nameable(j, d.doc[ix.forward[j]])
        BY <1>1, <1>3, <3>1 DEF Fits
      <3>3. QED
        BY <1>1, <3>1, <3>2
    <2>3. QED
      BY <2>1, <2>2
  <1>8. ASSUME NEW rec \in e.bin, rec.id # None
        PROVE  /\ nx.forward[rec.id] = None /\ rec.id \in nx.tombstones
               /\ Nameable(rec.id, rec.doc)
    <2>1. rec.id \in Id /\ rec.id # i /\ rec \in d.bin
      BY <1>8 DEF Store
    <2>2. rec.id \in ix.tombstones /\ ix.forward[rec.id] = None /\ Nameable(rec.id, rec.doc)
      BY <1>8, <2>1 DEF Fits
    <2>3. QED
      BY <1>1, <1>4, <2>1, <2>2
  <1>9. \A j \in e.cited \ lost : Known(nx, j)
    BY <1>1, <1>4 DEF Fits, Known, Store
  <1>10. BinApart(e)
    BY DEF Fits, BinApart
  <1>11. QED
    BY <1>5, <1>6, <1>7, <1>8, <1>9, <1>10 DEF Fits, nx

\* register sets one path and leaves the host alone.
LEMMA RegisterAdds ==
    ASSUME NEW ix \in Index, NEW i \in Id, NEW p \in Path
    PROVE  /\ Register(ix, i, p) \in Index
           /\ \A j \in Id : Register(ix, i, p).forward[j] = IF j = i THEN p ELSE ix.forward[j]
           /\ Register(ix, i, p).host = ix.host /\ Register(ix, i, p).file = ix.file
  <1>1. /\ Register(ix, i, p) \in Index
        /\ Register(ix, i, p).forward = [ix.forward EXCEPT ![i] = p]
        /\ Register(ix, i, p).host = ix.host /\ Register(ix, i, p).file = ix.file
    BY RegisterFacts
  <1>2. ix.forward \in [Id -> Path \cup {None}]
    BY DEF Index
  <1>3. QED
    BY <1>1, <1>2

\* restore leaves sound work.
LEMMA RestoreOpens ==
    ASSUME Inv, NEW rec \in disk.bin, Restore(rec)
    PROVE  Opens
  <1> DEFINE p  == rec.from
             i  == rec.id
             st == [disk EXCEPT !.doc[rec.from] = rec.doc, !.bin = @ \ {rec}]
             nx == IF i = None THEN Opened ELSE Register(Opened, i, p)
             b  == Work(nx, st)
  <1>1. pc = "idle" /\ ~astray /\ disk.doc[p] = None /\ made' = made
    BY DEF Restore, Empty, Ready
  <1>2. /\ disk \in Store /\ Opened \in Index /\ Placed(disk) /\ made' \in 0..MaxDocs
    BY <1>1, OpenedFacts
  <1>3. /\ disk.host \in Path /\ disk.doc \in [Path -> Doc \cup {None}]
        /\ disk.bin \in SUBSET [doc : Doc, from : Path, id : Id \cup {None}]
    BY <1>2 DEF Store
  <1>4. rec.doc \in Doc /\ p \in Path /\ i \in Id \cup {None} /\ rec.doc # None
    BY <1>3, RegistryAssumption
  <1>5. p # disk.host
    BY <1>1, <1>2, RegistryAssumption DEF Placed, Doc
  <1>6. /\ st \in Store
        /\ st.doc = [disk.doc EXCEPT ![p] = rec.doc] /\ st.bin = disk.bin \ {rec}
        /\ st.ledger = disk.ledger /\ st.host = disk.host /\ st.cited = disk.cited
    BY <1>2, <1>4 DEF Store
  <1>7. PICK w \in Linked(b, p) : Begin(w.index, w.store)
    BY DEF Restore
  <1> HIDE DEF st
  <1>8. Placed(st) /\ st.doc[p] # None
    BY <1>2, <1>3, <1>4, <1>5, <1>6 DEF Placed
  <1>9. \A x \in Path : disk.doc[x] # None => st.doc[x] = disk.doc[x]
    BY <1>1, <1>3, <1>4, <1>6
  <1>10. Edits(st)
    BY <1>6, <1>9 DEF Edits
  <1> HIDE DEF p, i
  <1>11. nx \in Index
    BY <1>2, <1>4, RegisterFacts
  <1>12. ASSUME journal = None PROVE Tracks(nx) /\ Fits(nx, st) /\ Harmless(nx)
    <2>1. Fits(Opened, disk) /\ Tracks(Opened) /\ Harmless(Opened)
      BY <1>1, <1>12, OpenedFacts DEF Between
    <2>2. BinApart(disk)
      BY <2>1 DEF Fits
    <2>3. CASE i = None
      <3>1. \A j \in Id : Opened.forward[j] # None => Nameable(j, st.doc[Opened.forward[j]])
        <4> SUFFICES ASSUME NEW j \in Id, Opened.forward[j] # None
                     PROVE  Nameable(j, st.doc[Opened.forward[j]])
          OBVIOUS
        <4>1. Nameable(j, disk.doc[Opened.forward[j]]) /\ Opened.forward[j] \in Path
          BY <1>2, <2>1 DEF Fits, Index
        <4>2. QED
          BY <1>9, <4>1 DEF Nameable
      <3>2. BinApart(st)
        BY <1>6, <2>2 DEF BinApart
      <3>3. Fits(Opened, st)
        BY <1>6, <2>1, <3>1, <3>2 DEF Fits
      <3>4. QED
        BY <2>1, <2>3, <3>3
    <2>4. CASE i # None
      <3>1. i \in Id
        BY <1>4, <2>4
      <3>2. Opened.forward[i] = None /\ Nameable(i, rec.doc)
        BY <2>1, <2>4 DEF Fits, i
      <3>3. \A r \in st.bin : r.id # i
        BY <1>6, <2>2, <2>4 DEF BinApart, i
      <3>4. st.bin \subseteq disk.bin
        BY <1>6
      <3>5. Fits(Register(Opened, i, p), st)
        BY <1>1, <1>2, <1>4, <1>6, <2>1, <3>1, <3>2, <3>3, <3>4, ReissueGood
      <3>6. nx = Register(Opened, i, p)
        BY <2>4
      <3>7. /\ \A j \in Id : nx.forward[j] \in {p, Opened.forward[j]}
            /\ nx.host = Opened.host /\ nx.file = Opened.file
        BY <1>2, <1>4, <3>1, <3>6, RegisterAdds
      <3> HIDE DEF nx
      <3>8. Fits(nx, st)
        BY <3>5, <3>6
      <3>9. Tracks(nx)
        BY <2>1, <3>7 DEF Tracks
      <3>10. Harmless(nx)
        <4>1. Inverse(nx) /\ Covers(nx)
          BY <3>8 DEF Fits
        <4>2. \A r \in disk.bin : r.id # None => r.id \in Id
          BY <1>3
        <4>3. QED
          BY <1>1, <2>1, <3>7, <4>1, <4>2 DEF Harmless
      <3>11. QED
        BY <3>8, <3>9, <3>10
    <2>5. QED
      BY <2>3, <2>4
  <1> HIDE DEF nx
  <1>13. b \in Works /\ b.index = nx /\ b.store = st
    BY <1>6, <1>11, WorkType DEF st
  <1> HIDE DEF b
  <1>14. Placed(b.store) /\ b.store.doc[p] # None /\ (journal = None => Due(b))
    BY <1>1, <1>8, <1>10, <1>12, <1>13 DEF Due, Sound
  <1>15. Touched(b, w, p)
    BY <1>4, <1>7, <1>13, LinkedTouches
  <1>16. w \in Works /\ Placed(w.store) /\ (journal = None => Due(w))
    BY <1>1, <1>2, <1>4, <1>13, <1>14, <1>15, LinkedOpens
  <1>17. QED
    BY <1>1, <1>2, <1>7, <1>16 DEF Opens

\* So does every operation.
LEMMA OperationOpens ==
    ASSUME Inv, Operation
    PROVE  Opens
  <1>1. ASSUME NEW p \in Path, Link(p) PROVE Opens
    BY <1>1, LinkOpens
  <1>2. ASSUME NEW p \in Path, Rewrite(p) PROVE Opens
    BY <1>2, RewriteOpens
  <1>3. ASSUME NEW p \in Path, NEW recycle \in BOOLEAN, Remove(p, recycle) PROVE Opens
    BY <1>3, RemoveOpens
  <1>4. ASSUME NEW p \in Path, NEW q \in Path, Create(p, q) PROVE Opens
    BY <1>4, CreateOpens
  <1>5. ASSUME NEW p \in Path, NEW q \in Path, Rename(p, q) PROVE Opens
    BY <1>5, RenameOpens
  <1>6. ASSUME NEW rec \in disk.bin, Restore(rec) PROVE Opens
    BY <1>6, RestoreOpens
  <1>7. QED
    BY <1>1, <1>2, <1>3, <1>4, <1>5, <1>6 DEF Operation

-----------------------------------------------------------------------------
(* What a commit writes.                                                   *)

\* Where the set leaves the host, and the index typed.
LEMMA RebaseFacts ==
    ASSUME disk \in Store, staged \in Store, index \in Index, Placed(disk), Placed(staged)
    PROVE  /\ Rebase(index) \in Index
           /\ Rebase(index) = [index EXCEPT !.host = Rebase(index).host,
                                            !.file = Rebase(index).file]
           /\ Tracks(index) =>
                /\ Rebase(index).host = staged.host
                /\ Rebase(index).file = staged.ledger[staged.host]
  <1> DEFINE h    == index.host
             dest == RenamedTo(h)
             edits == dest # h \/ staged.ledger[dest] # disk.ledger[dest]
             file == IF edits THEN staged.ledger[dest] ELSE index.file
  <1>1. /\ h \in Path /\ disk.host \in Path /\ staged.host \in Path
        /\ index.file \in File
        /\ staged.ledger \in [Path -> File \cup {None}]
        /\ disk.ledger \in [Path -> File \cup {None}]
    BY DEF Index, Store
  <1>2. Rebase(index) = [index EXCEPT !.host = dest, !.file = file]
    BY DEF Rebase, Index
  <1>3. CASE disk.ledger[h] # None /\ staged.ledger[h] = None
    <2>1. dest = CHOOSE q \in Path : staged.ledger[q] # None /\ disk.ledger[q] = None
      BY <1>3 DEF RenamedTo
    <2>2. staged.ledger[staged.host] # None /\ disk.ledger[staged.host] = None
      BY <1>1, <1>3 DEF Placed
    <2>3. dest \in Path /\ staged.ledger[dest] # None
      BY <1>1, <2>1, <2>2
    <2>4. dest = staged.host /\ dest # h
      BY <1>3, <2>3 DEF Placed
    <2> HIDE DEF dest, h
    <2>5. file = staged.ledger[staged.host] /\ file \in File
      BY <1>1, <2>3, <2>4
    <2>6. QED
      BY <1>1, <1>2, <2>3, <2>4, <2>5 DEF Index
  <1>4. CASE ~(disk.ledger[h] # None /\ staged.ledger[h] = None)
    <2>1. dest = h
      BY <1>4 DEF RenamedTo
    <2> HIDE DEF dest
    <2>2. file \in File
      BY <1>1, <1>4, <2>1
    <2>3. ASSUME Tracks(index)
          PROVE  dest = staged.host /\ file = staged.ledger[staged.host]
      <3>1. h = disk.host /\ index.file = disk.ledger[h]
        BY <2>3 DEF Tracks
      <3>2. disk.ledger[h] # None
        BY <1>1, <3>1 DEF Placed
      <3>3. h = staged.host
        BY <1>1, <1>4, <3>2 DEF Placed
      <3>4. QED
        BY <2>1, <3>1, <3>3
    <2> HIDE DEF file, h
    <2>4. QED
      BY <1>1, <1>2, <2>1, <2>2, <2>3 DEF Index
  <1>5. QED
    BY <1>3, <1>4

\* What an index says of an id is what it writes of it.
Says(ix, records) ==
    \A i \in Id :
        /\ ix.forward[i] # None => records[i] = ix.forward[i]
        /\ ix.forward[i] = None /\ i \in ix.tombstones => records[i] = Tombstone
        /\ ~Known(ix, i) => records[i] = Unknown

\* The index that a commit leaves is typed, whatever it knows of the host.
LEMMA WrittenType ==
    ASSUME TypeOK, Placed(disk), Placed(staged)
    PROVE  Written \in Index
  <1> DEFINE rb == Rebase(index)
  <1>1. rb \in Index
    BY RebaseFacts DEF TypeOK
  <1> HIDE DEF rb
  <1>2. Rendered(rb) \in Records
    BY <1>1 DEF Rendered, Index, File, Records, Live
  <1>3. Render(rb) \in Index
    BY <1>1, <1>2 DEF Render, Index, File
  <1>4. QED
    BY <1>3 DEF Written, rb

\* What a commit writes of the registry is what the index says.
LEMMA WrittenFacts ==
    ASSUME TypeOK, Placed(disk), Placed(staged), Within
    PROVE  /\ Written \in Index
           /\ Written.forward = index.forward /\ Written.reverse = index.reverse
           /\ Written.tombstones = index.tombstones /\ Written.host = staged.host
           /\ Written.file.text = staged.ledger[staged.host].text
           /\ Says(index, Written.file.records)
           /\ ~index.dirty => Written.file = staged.ledger[staged.host]
  <1> DEFINE rb == Rebase(index)
             old == staged.ledger[staged.host]
  <1>1. disk \in Store /\ staged \in Store /\ index \in Index
    BY DEF TypeOK
  <1>2. /\ rb \in Index /\ rb.host = staged.host /\ rb.file = old
        /\ rb = [index EXCEPT !.host = rb.host, !.file = rb.file]
    BY <1>1, RebaseFacts DEF Within
  <1>3. /\ rb.forward = index.forward /\ rb.reverse = index.reverse
        /\ rb.tombstones = index.tombstones /\ rb.dirty = index.dirty
    BY <1>1, <1>2 DEF Index
  <1>4. old \in File /\ old.records = index.file.records
    <2>1. old \in File
      BY <1>2 DEF Index
    <2>2. QED
      BY <2>1 DEF Within, Edits, Tracks
  <1>5. Covers(index) /\ Clean(index)
    BY DEF Within, Fits
  <1>6. index.forward \in [Id -> Path \cup {None}] /\ index.tombstones \subseteq Id
    BY <1>1 DEF Index
  <1> HIDE DEF rb, old
  <1>7. CASE index.dirty
    <2>1. Written = [rb EXCEPT !.file.records = Rendered(rb)]
      BY <1>3, <1>7 DEF Written, Render, rb
    <2>2. Rendered(rb) = [i \in Id |-> IF index.forward[i] # None THEN index.forward[i]
                                       ELSE IF i \in index.tombstones THEN Tombstone
                                       ELSE old.records[i]]
      BY <1>2, <1>3 DEF Rendered
    <2>3. Rendered(rb) \in Records
      BY <1>4, <1>6, <2>2 DEF File, Records, Live
    <2>4. /\ Written \in Index /\ Written.forward = rb.forward /\ Written.reverse = rb.reverse
          /\ Written.tombstones = rb.tombstones /\ Written.host = rb.host
          /\ Written.file.text = old.text /\ Written.file.records = Rendered(rb)
      BY <1>2, <1>4, <2>1, <2>3 DEF Index, File
    <2>5. Says(index, Rendered(rb))
      BY <1>4, <1>5, <1>6, <2>2 DEF Says, Covers, Known
    <2>6. QED
      BY <1>2, <1>3, <1>7, <2>4, <2>5 DEF old
  <1>8. CASE ~index.dirty
    <2>1. Written = rb
      BY <1>3, <1>8 DEF Written, Render, rb
    <2>2. Says(index, old.records)
      BY <1>4, <1>5, <1>8 DEF Says, Covers, Clean, Known
    <2>3. QED
      BY <1>2, <1>3, <2>1, <2>2 DEF old
  <1>9. QED
    BY <1>7, <1>8

\* Recorded(d), of given histories.
Whole(nm, ls, d) ==
    /\ Placed(d) /\ BinApart(d)
    /\ \A i \in Id : Registered(d)[i] \in Live =>
          /\ d.doc[Registered(d)[i]] # None
          /\ nm[i] \in {None, d.doc[Registered(d)[i]]}
    /\ \A i, j \in Id :
          Registered(d)[i] \in Live /\ Registered(d)[i] = Registered(d)[j] => i = j
    /\ \A i \in Id : nm[i] # None \/ i \in d.cited \ ls => Registered(d)[i] # Unknown
    /\ \A rec \in d.bin : rec.id # None =>
          /\ Registered(d)[rec.id] = Tombstone
          /\ rec.doc # None /\ nm[rec.id] \in {None, rec.doc}

LEMMA RecordedWhole ==
    ASSUME NEW d
    PROVE  Recorded(d) <=> Whole(names, lost, d)
  BY DEF Recorded, Whole, Nameable

\* The set, the registry in it, makes a whole workspace of a whole one, with every
\* record it had.
LEMMA FinalFacts ==
    ASSUME TypeOK, Placed(disk), Placed(staged), Within, Recorded(disk), ~astray, Accounted
    PROVE  /\ Final \in Store /\ Whole(names, lost', Final)
           /\ made' = made /\ lost' \subseteq Id
           /\ Final = [staged EXCEPT !.ledger[staged.host] = Written.file]
           /\ Final.host = staged.host /\ Final.doc = staged.doc
           /\ Final.bin = staged.bin /\ Final.cited = staged.cited
           /\ Final.ledger[Final.host] = Written.file
           /\ \A i \in Id : Registered(disk)[i] # Unknown => Registered(Final)[i] # Unknown
  <1> DEFINE f == Written.file
  <1>1. staged \in Store /\ index \in Index
    BY DEF TypeOK
  <1>2. /\ f \in File /\ Written.host = staged.host /\ Says(index, f.records)
        /\ ~index.dirty => f = staged.ledger[staged.host]
    <2>1. Written \in Index
      BY WrittenFacts
    <2>2. QED
      BY <2>1, WrittenFacts DEF Index
  <1> HIDE DEF f
  <1>3. Final = [staged EXCEPT !.ledger[staged.host] = f]
    BY <1>1, <1>2 DEF Final, Founds, Store, f
  <1>4. /\ Final \in Store
        /\ Final.ledger = [staged.ledger EXCEPT ![staged.host] = f]
        /\ Final.host = staged.host /\ Final.doc = staged.doc
        /\ Final.bin = staged.bin /\ Final.cited = staged.cited
        /\ staged.host \in Path /\ staged.ledger \in [Path -> File \cup {None}]
        /\ staged.cited \subseteq Id
        /\ staged.bin \in SUBSET [doc : Doc, from : Path, id : Id \cup {None}]
    BY <1>1, <1>2, <1>3 DEF Store
  <1>5. Final.ledger[Final.host] = f /\ Registered(Final) = f.records
    BY <1>4 DEF Registered
  <1>6. Placed(Final)
    BY <1>2, <1>4, NoneAssumption DEF Placed
  <1>7. Fits(index, staged) /\ Inverse(index) /\ Covers(index)
    BY DEF Within, Fits
  <1>8. /\ index.forward \in [Id -> Path \cup {None}]
        /\ Unknown \notin Path /\ Tombstone \notin Path /\ None \notin Path /\ Unknown # Tombstone
    BY <1>1, RegistryAssumption DEF Index, Unknown, Tombstone
  <1>9. \A i \in Id : Known(index, i) <=> f.records[i] # Unknown
    BY <1>2, <1>8 DEF Says, Known
  <1>10. \A i \in Id : f.records[i] \in Live => index.forward[i] = f.records[i]
    BY <1>2, <1>8 DEF Says, Known, Live
  <1>11. \A i \in Id : f.records[i] \in Live => Nameable(i, staged.doc[f.records[i]])
    BY <1>7, <1>8, <1>10 DEF Fits, Live
  <1>12. \A i, j \in Id : f.records[i] \in Live /\ f.records[i] = f.records[j] => i = j
    <2> SUFFICES ASSUME NEW i \in Id, NEW j \in Id, f.records[i] \in Live,
                        f.records[i] = f.records[j]
                 PROVE  i = j
      OBVIOUS
    <2>1. index.forward[i] = f.records[i] /\ index.forward[j] = f.records[i]
      BY <1>10
    <2>2. QED
      BY <1>7, <2>1 DEF Inverse, Live
  <1>13. \A i \in Id : Registered(disk)[i] # Unknown => f.records[i] # Unknown
    BY <1>7, <1>9 DEF Covers, Within, Tracks, Registered
  <1>14. \A i \in Id : names[i] # None \/ i \in staged.cited \ lost' => f.records[i] # Unknown
    <2>1. \A i \in Id : names[i] # None \/ i \in staged.cited \ lost => f.records[i] # Unknown
      BY <1>7, <1>9, <1>13 DEF Recorded, Fits
    <2>2. \A i \in staged.cited : f.records[i] = Unknown /\ i \in lost => i \in lost'
      BY <1>4, <1>5 DEF Accounted
    <2>3. QED
      BY <2>1, <2>2
  <1>15. \A rec \in staged.bin : rec.id # None =>
            f.records[rec.id] = Tombstone /\ Nameable(rec.id, rec.doc)
    BY <1>2, <1>4, <1>7 DEF Fits, Says
  <1>16. BinApart(Final)
    BY <1>4, <1>7 DEF Fits, BinApart
  <1>17. Whole(names, lost', Final)
    BY <1>4, <1>5, <1>6, <1>11, <1>12, <1>14, <1>15, <1>16 DEF Whole, Nameable
  <1>18. made' = made /\ lost' \subseteq Id
    BY <1>4 DEF Accounted, Founds
  <1>19. QED
    BY <1>3, <1>4, <1>5, <1>13, <1>17, <1>18 DEF f

\* So does the set of a check that is astray, which leaves the records alone.
LEMMA FinalAstray ==
    ASSUME TypeOK, Placed(disk), Placed(staged), Aside(staged), Recorded(disk), astray, Accounted
    PROVE  /\ Final \in Store /\ Whole(names, lost', Final)
           /\ made' \in 0..MaxDocs /\ lost' \subseteq Id
           /\ Final.ledger = staged.ledger /\ Final.host = staged.host
           /\ Final.bin = staged.bin /\ Final.cited = staged.cited
           /\ \A p \in Path :
                Final.doc[p] = staged.doc[p] \/ (p = index.host /\ staged.doc[p] = None)
           /\ Registered(Final) = Registered(disk)
  <1>1. /\ staged \in Store /\ disk \in Store /\ index.host \in Path /\ made \in 0..MaxDocs
        /\ staged.doc \in [Path -> Doc \cup {None}] /\ staged.cited \subseteq Id
        /\ staged.host \in Path
        /\ staged.bin \in SUBSET [doc : Doc, from : Path, id : Id \cup {None}]
        /\ Unknown \notin Path /\ Tombstone \notin Path /\ None \notin Doc /\ MaxDocs \in Nat
    BY RegistryAssumption DEF TypeOK, Store, Index
  <1>2. /\ Final \in Store /\ made' \in 0..MaxDocs
        /\ Final.ledger = staged.ledger /\ Final.host = staged.host
        /\ Final.bin = staged.bin /\ Final.cited = staged.cited
        /\ \A p \in Path :
             Final.doc[p] = staged.doc[p] \/ (p = index.host /\ staged.doc[p] = None)
    <2>1. CASE Founds
      <3>1. Final = [staged EXCEPT !.doc[index.host] = made + 1]
        BY <2>1 DEF Final
      <3>2. made < MaxDocs /\ made' = made + 1 /\ staged.doc[index.host] = None
        BY <2>1 DEF Accounted, Founds
      <3>3. made + 1 \in Doc /\ made' \in 0..MaxDocs
        BY <1>1, <3>2 DEF Doc
      <3>4. QED
        BY <1>1, <3>1, <3>2, <3>3 DEF Store
    <2>2. CASE ~Founds
      BY <1>1, <2>2 DEF Final, Accounted
    <2>3. QED
      BY <2>1, <2>2
  <1>3. Registered(Final) = Registered(disk)
    BY <1>2 DEF Aside, Registered
  <1>4. Placed(Final)
    <2>1. \A p \in Path : Final.ledger[p] # None <=> p = Final.host
      BY <1>2 DEF Placed
    <2>2. staged.doc[staged.host] = 0 /\ 0 # None
      BY <1>1 DEF Placed, Doc
    <2>3. QED
      BY <1>1, <1>2, <2>1, <2>2 DEF Placed
  <1>5. \A i \in Id : Registered(disk)[i] \in Live =>
           /\ Final.doc[Registered(disk)[i]] # None
           /\ names[i] \in {None, Final.doc[Registered(disk)[i]]}
    <2> SUFFICES ASSUME NEW i \in Id, NEW p \in Path, Registered(disk)[i] = p
                 PROVE  Final.doc[p] # None /\ names[i] \in {None, Final.doc[p]}
      BY DEF Live
    <2>1. disk.doc[p] # None /\ names[i] \in {None, disk.doc[p]}
      BY DEF Recorded, Nameable, Live
    <2>2. Final.doc[p] = disk.doc[p]
      BY <1>2, <2>1 DEF Aside
    <2>3. QED
      BY <2>1, <2>2
  <1>6. \A i \in Id : names[i] # None \/ i \in Final.cited \ lost' =>
           Registered(disk)[i] # Unknown
    <2>1. \A i \in Final.cited : Registered(Final)[i] = Unknown => i \in lost'
      BY DEF Accounted, Registered
    <2>2. QED
      BY <1>3, <2>1 DEF Recorded
  <1>7. \A rec \in Final.bin : rec.id # None =>
           /\ Registered(disk)[rec.id] = Tombstone
           /\ rec.doc # None /\ names[rec.id] \in {None, rec.doc}
    BY <1>2 DEF Aside, Recorded, Nameable
  <1>8. BinApart(Final)
    BY <1>2 DEF Aside, Recorded, BinApart
  <1>9. Whole(names, lost', Final)
    BY <1>3, <1>4, <1>5, <1>6, <1>7, <1>8 DEF Whole, Recorded
  <1>10. lost' \subseteq Id
    BY <1>1, <1>2 DEF Accounted
  <1>11. QED
    BY <1>2, <1>3, <1>9, <1>10

\* Either way.
LEMMA FinalWhole ==
    ASSUME Inv, pc = "op", journal = None, Accounted
    PROVE  /\ Final \in Store /\ Whole(names, lost', Final)
           /\ made' \in 0..MaxDocs /\ lost' \subseteq Id
           /\ \A i \in Id : Registered(disk)[i] # Unknown => Registered(Final)[i] # Unknown
  <1>1. TypeOK /\ Placed(disk) /\ Placed(staged) /\ Recorded(disk) /\ made \in 0..MaxDocs
    BY DEF Inv, TypeOK
  <1>2. CASE astray
    BY <1>1, <1>2, FinalAstray DEF Inv
  <1>3. CASE ~astray
    BY <1>1, <1>3, FinalFacts DEF Inv
  <1>4. QED
    BY <1>2, <1>3

-----------------------------------------------------------------------------
(* The invariant.                                                          *)

\* Whole, of a history that has taken up what is on record.
Told(nm, ls, d) ==
    /\ Placed(d) /\ BinApart(d)
    /\ \A i \in Id : Registered(d)[i] \in Live =>
          d.doc[Registered(d)[i]] # None /\ nm[i] = d.doc[Registered(d)[i]]
    /\ \A i, j \in Id :
          Registered(d)[i] \in Live /\ Registered(d)[i] = Registered(d)[j] => i = j
    /\ \A i \in Id : nm[i] # None \/ i \in d.cited \ ls => Registered(d)[i] # Unknown
    /\ \A rec \in d.bin : rec.id # None =>
          /\ Registered(d)[rec.id] = Tombstone
          /\ rec.doc # None /\ nm[rec.id] \in {None, rec.doc}

\* The history takes up what a whole workspace has on record.
LEMMA NamesTold ==
    ASSUME TypeOK, NEW d \in Store, NEW ls, Whole(names, ls, d)
    PROVE  /\ Told(Names(d), ls, d) /\ Names(d) \in [Id -> Doc \cup {None}]
           /\ \A i \in Id : Names(d)[i] =
                IF Registered(d)[i] \in Live THEN d.doc[Registered(d)[i]] ELSE names[i]
  <1> DEFINE nm == Names(d)
  <1>1. /\ d.host \in Path /\ d.ledger \in [Path -> File \cup {None}]
        /\ d.doc \in [Path -> Doc \cup {None}]
        /\ d.bin \in SUBSET [doc : Doc, from : Path, id : Id \cup {None}]
        /\ names \in [Id -> Doc \cup {None}]
        /\ Unknown \notin Path /\ Tombstone \notin Path
    BY RegistryAssumption DEF Store, TypeOK
  <1>2. d.ledger[d.host] # None
    BY <1>1 DEF Whole, Placed
  <1>3. nm = [i \in Id |-> IF names[i] = None /\ Registered(d)[i] \in Live
                           THEN d.doc[Registered(d)[i]] ELSE names[i]]
    BY <1>2 DEF Names, Registered
  <1> HIDE DEF nm
  <1>4. nm \in [Id -> Doc \cup {None}]
    <2>1. \A i \in Id : Registered(d)[i] \in Live => d.doc[Registered(d)[i]] \in Doc \cup {None}
      BY <1>1 DEF Live
    <2>2. QED
      BY <1>1, <1>3, <2>1
  <1>5. \A i \in Id : Registered(d)[i] \in Live =>
           d.doc[Registered(d)[i]] # None /\ nm[i] = d.doc[Registered(d)[i]]
    BY <1>3 DEF Whole
  <1>6. \A i \in Id : Registered(d)[i] \notin Live => nm[i] = names[i]
    BY <1>3
  <1>7. \A i \in Id : nm[i] # None => Registered(d)[i] # Unknown
    BY <1>1, <1>6 DEF Whole, Live
  <1>8. \A rec \in d.bin : rec.id # None =>
          /\ Registered(d)[rec.id] = Tombstone
          /\ rec.doc # None /\ nm[rec.id] \in {None, rec.doc}
    <2> SUFFICES ASSUME NEW rec \in d.bin, rec.id # None
                 PROVE  /\ Registered(d)[rec.id] = Tombstone
                        /\ rec.doc # None /\ nm[rec.id] \in {None, rec.doc}
      OBVIOUS
    <2>1. rec.id \in Id
      BY <1>1
    <2>2. /\ Registered(d)[rec.id] = Tombstone
          /\ rec.doc # None /\ names[rec.id] \in {None, rec.doc}
      BY DEF Whole
    <2>3. QED
      BY <1>1, <1>6, <2>1, <2>2 DEF Live
  <1>9. Told(nm, ls, d)
    BY <1>5, <1>7, <1>8 DEF Told, Whole
  <1>10. QED
    BY <1>4, <1>5, <1>6, <1>9 DEF nm

\* Fits(ix, d), of given histories.
FitsOf(nm, ls, ix, d) ==
    /\ Inverse(ix) /\ Covers(ix) /\ Clean(ix) /\ BinApart(d)
    /\ \A i \in Id : ix.forward[i] # None =>
          d.doc[ix.forward[i]] # None /\ nm[i] \in {None, d.doc[ix.forward[i]]}
    /\ \A rec \in d.bin : rec.id # None =>
          /\ ix.forward[rec.id] = None /\ rec.id \in ix.tombstones
          /\ rec.doc # None /\ nm[rec.id] \in {None, rec.doc}
    /\ \A i \in d.cited \ ls : Known(ix, i)

\* The index read from a whole workspace fits it.
LEMMA ReadFits ==
    ASSUME NEW nm, NEW ls, NEW d \in Store, Whole(nm, ls, d)
    PROVE  LET ix == ReadAt(d, d.host)
           IN  /\ ix \in Index /\ ix.host = d.host /\ ix.file = d.ledger[d.host]
               /\ FitsOf(nm, ls, ix, d)
  <1> SUFFICES ASSUME NEW f, f = d.ledger[d.host],
                      NEW ix, ix = Parse(d.host, f)
               PROVE  /\ ix \in Index /\ ix.host = d.host /\ ix.file = f
                      /\ FitsOf(nm, ls, ix, d)
    <2>1. d.ledger[d.host] # None
      BY DEF Whole, Placed, Store
    <2>2. QED
      BY <2>1 DEF ReadAt
  <1>1. d.host \in Path /\ f \in File
    BY DEF Store, Whole, Placed
  <1>2. /\ ix \in Index
        /\ \A i \in Id : ix.forward[i] = IF f.records[i] \in Live THEN f.records[i] ELSE None
        /\ \A q \in Path :
             /\ ix.reverse[q] # None => ix.forward[ix.reverse[q]] = q
             /\ ix.reverse[q] = None => \A i \in Id : ix.forward[i] # q
        /\ \A i \in Id : i \in ix.tombstones <=> f.records[i] = Tombstone
        /\ ix.dirty = FALSE /\ ix.host = d.host /\ ix.file = f
    <2>1. Parsed(ix, d.host, f)
      BY <1>1, ParseFacts
    <2>2. QED
      BY <2>1 DEF Parsed
  <1>3. f.records = Registered(d) /\ Unknown \notin Path /\ Tombstone \notin Path
        /\ None \notin Path /\ None \notin Id /\ Unknown # Tombstone
    BY RegistryAssumption DEF Registered, Unknown, Tombstone
  <1>4. f.records \in Records /\ ix.reverse \in [Path -> Id \cup {None}]
    BY <1>1, <1>2 DEF File, Index
  <1>5. Inverse(ix)
    <2> SUFFICES ASSUME NEW i \in Id, NEW q \in Path
                 PROVE  ix.forward[i] = q <=> ix.reverse[q] = i
      BY DEF Inverse
    <2>1. ASSUME ix.reverse[q] = i PROVE ix.forward[i] = q
      BY <1>2, <1>3, <2>1
    <2>2. ASSUME ix.forward[i] = q PROVE ix.reverse[q] = i
      <3>1. ix.reverse[q] # None
        BY <1>2, <2>2
      <3>2. ix.reverse[q] \in Id /\ ix.forward[ix.reverse[q]] = q
        BY <1>2, <1>4, <3>1
      <3>3. f.records[ix.reverse[q]] = q /\ f.records[i] = q
        BY <1>2, <1>3, <2>2, <3>2
      <3>4. QED
        BY <1>3, <3>2, <3>3 DEF Whole, Live
    <2>3. QED
      BY <2>1, <2>2
  <1>6. Covers(ix)
    BY <1>2, <1>3, <1>4 DEF Covers, Known, Records, Live
  <1>7. Clean(ix)
    BY <1>2, <1>3 DEF Clean
  <1>8. \A i \in Id : ix.forward[i] # None => d.doc[ix.forward[i]] # None /\ nm[i] \in {None, d.doc[ix.forward[i]]}
    BY <1>2, <1>3 DEF Whole
  <1>9. \A rec \in d.bin : rec.id # None =>
          /\ ix.forward[rec.id] = None /\ rec.id \in ix.tombstones
          /\ rec.doc # None /\ nm[rec.id] \in {None, rec.doc}
    <2> SUFFICES ASSUME NEW rec \in d.bin, rec.id # None
                 PROVE  /\ ix.forward[rec.id] = None /\ rec.id \in ix.tombstones
                        /\ rec.doc # None /\ nm[rec.id] \in {None, rec.doc}
      OBVIOUS
    <2>1. rec.id \in Id
      BY DEF Store
    <2>2. f.records[rec.id] = Tombstone /\ rec.doc # None /\ nm[rec.id] \in {None, rec.doc}
      BY <1>3 DEF Whole
    <2>3. QED
      BY <1>2, <1>3, <2>1, <2>2 DEF Live
  <1>10. \A i \in d.cited \ ls : Known(ix, i)
    <2>1. d.cited \subseteq Id
      BY DEF Store
    <2>2. QED
      BY <1>2, <1>3, <1>6, <2>1 DEF Whole, Covers
  <1>11. BinApart(d)
    BY DEF Whole
  <1>12. FitsOf(nm, ls, ix, d)
    BY <1>5, <1>6, <1>7, <1>8, <1>9, <1>10, <1>11 DEF FitsOf
  <1>13. QED
    BY <1>2, <1>12

\* Whatever is read at a path is typed.
LEMMA ReadType ==
    ASSUME NEW d \in Store, NEW h \in Path
    PROVE  ReadAt(d, h) \in Index
  <1> DEFINE f == IF d.ledger[h] = None THEN NoRecords ELSE d.ledger[h]
  <1>1. f \in File
    BY RegistryAssumption DEF Store, NoRecords, File, Records, Text
  <1> HIDE DEF f
  <1>2. Parsed(Parse(h, f), h, f)
    BY <1>1, ParseFacts
  <1>3. QED
    BY <1>2 DEF f, Parsed, ReadAt

\* The invariant holds of a workspace of its root and an empty registry.
LEMMA InitInv ==
    ASSUME Init
    PROVE  Inv
  <1>1. PICK h \in Path : disk = Fresh(h)
    BY DEF Init
  <1> DEFINE blank == [records |-> [i \in Id |-> Unknown], text |-> 0]
  <1>2. blank \in File
    BY RegistryAssumption DEF File, Records, Text
  <1>3. /\ disk.doc = [p \in Path |-> IF p = h THEN 0 ELSE None]
        /\ disk.ledger = [p \in Path |-> IF p = h THEN blank ELSE None]
        /\ disk.host = h /\ disk.bin = {} /\ disk.cited = {}
    BY <1>1 DEF Fresh, NoRecords
  <1>4. disk \in Store
    <2>1. disk = [doc |-> [p \in Path |-> IF p = h THEN 0 ELSE None],
                  ledger |-> [p \in Path |-> IF p = h THEN blank ELSE None],
                  host |-> h, bin |-> {}, cited |-> {}]
      BY <1>1 DEF Fresh, NoRecords
    <2>2. 0 \in Doc
      BY RegistryAssumption DEF Doc
    <2> HIDE DEF blank
    <2>3. QED
      BY <1>2, <2>1, <2>2 DEF Store
  <1>5. Placed(disk)
    <2> HIDE DEF blank
    <2>1. QED
      BY <1>2, <1>3, NoneAssumption DEF Placed
  <1>6. Registered(disk) = [i \in Id |-> Unknown]
    BY <1>3 DEF Registered
  <1>7. Recorded(disk) /\ IdsNameOneDocument
    BY <1>3, <1>5, <1>6, RegistryAssumption DEF Recorded, BinApart, Live, Init, IdsNameOneDocument
  <1>8. Parse(disk.host, disk.ledger[disk.host]) \in Index
    <2>1. disk.host \in Path /\ disk.ledger[disk.host] # None
      BY <1>4, <1>5 DEF Store, Placed
    <2>2. QED
      BY <1>4, <2>1, ReadType DEF ReadAt
  <1>9. TypeOK
    <2>1. /\ pc \in {"closed", "idle", "op"} /\ made \in 0..MaxDocs /\ lost \subseteq Id
          /\ names \in [Id -> Doc \cup {None}] /\ handed \subseteq Id
          /\ journal = None /\ saved = None /\ staged = disk
      BY RegistryAssumption DEF Init
    <2>2. astray \in BOOLEAN
      BY DEF Init
    <2>3. index \in Index
      BY <1>8 DEF Init
    <2> HIDE DEF blank
    <2>4. QED
      BY <1>4, <2>1, <2>2, <2>3 DEF TypeOK
  <1>10. QED
    BY <1>5, <1>7, <1>9 DEF Init, Inv

\* An operation's opening keeps the invariant.
LEMMA OpensInv ==
    ASSUME Inv, Opens
    PROVE  Inv'
  <1>1. PICK w \in Works : Begin(w.index, w.store) /\ Placed(w.store) /\ (journal = None => Due(w))
    BY DEF Opens
  <1>2. /\ pc = "idle" /\ pc' = "op" /\ saved' = Opened /\ index' = w.index /\ staged' = w.store
        /\ disk' = disk /\ journal' = journal /\ names' = names /\ handed' = handed
        /\ astray' = astray /\ lost' = lost /\ made' \in 0..MaxDocs
    BY <1>1 DEF Begin, Opens
  <1>3. /\ Opened \in Index /\ Opened # None /\ w.index \in Index /\ w.store \in Store
        /\ Placed(disk)
    BY <1>2, OpenedFacts, NoneAssumption DEF Works
  <1>4. TypeOK'
    BY <1>2, <1>3 DEF Inv, TypeOK
  <1>5. Placed(disk)' /\ Placed(staged)'
    BY <1>1, <1>2, <1>3 DEF Placed
  <1>6. (journal = None => Recorded(disk) /\ IdsNameOneDocument)'
    BY <1>2 DEF Inv, Recorded, Placed, BinApart, Registered, Nameable, IdsNameOneDocument
  <1>7. (journal # None =>
          /\ Recorded(journal)
          /\ \A i \in Id : Registered(disk)[i] # Unknown => Registered(journal)[i] # Unknown)'
    BY <1>2 DEF Inv, Recorded, Placed, BinApart, Registered, Nameable
  <1>8. ASSUME journal = None, ~astray PROVE Within'
    <2>1. /\ Tracks(w.index) /\ Fits(w.index, w.store) /\ Harmless(w.index) /\ Edits(w.store)
          /\ Tracks(Opened) /\ Fits(Opened, disk)
      BY <1>1, <1>2, <1>8, OpenedFacts DEF Due, Sound, Between
    <2>2. Rollback(w.index, Opened) = Opened
      BY <1>3, <2>1 DEF Rollback, Tracks, Index
    <2>3. Tracks(index)' /\ Tracks(Rollback(index, saved))'
      <3>1. Rollback(index', saved') = Opened
        BY <1>2, <2>2
      <3>2. QED
        BY <1>2, <2>1, <3>1 DEF Tracks
    <2>4. Fits(index, staged)'
      BY <1>2, <2>1 DEF Fits, Nameable
    <2>5. Fits(Rollback(index, saved), disk)'
      <3>1. Rollback(index', saved') = Opened
        BY <1>2, <2>2
      <3>2. QED
        BY <1>2, <2>1, <3>1 DEF Fits, Nameable
    <2>6. Harmless(index)'
      BY <1>2, <2>1 DEF Harmless, Nameable
    <2>7. Edits(staged)'
      BY <1>2, <2>1 DEF Edits
    <2>8. QED
      BY <2>3, <2>4, <2>5, <2>6, <2>7 DEF Within
  <1>9. ASSUME journal = None, astray PROVE Aside(staged)'
    BY <1>1, <1>2, <1>9 DEF Due, Aside, Registered
  <1>10. QED
    BY <1>2, <1>3, <1>4, <1>5, <1>6, <1>7, <1>8, <1>9 DEF Inv

\* What is on disk stays, and with it what is said of it.
LEMMA DiskStays ==
    ASSUME Inv, UNCHANGED <<disk, journal, lost, names>>
    PROVE  /\ Placed(disk)'
           /\ (journal = None => Recorded(disk) /\ IdsNameOneDocument)'
           /\ (journal # None =>
                 /\ Recorded(journal)
                 /\ \A i \in Id : Registered(disk)[i] # Unknown => Registered(journal)[i] # Unknown)'
  BY DEF Inv, Recorded, Placed, BinApart, Registered, Nameable, IdsNameOneDocument

\* A process's end keeps the invariant.
LEMMA LeaveInv ==
    ASSUME Inv, Leave, UNCHANGED <<disk, journal, lost, made, names>>
    PROVE  Inv'
  <1>1. disk \in Store /\ disk.host \in Path
    BY DEF Inv, TypeOK, Store
  <1>2. ReadAt(disk, disk.host) \in Index
    BY <1>1, ReadType
  <1>3. TypeOK'
    BY <1>2 DEF Leave, Inv, TypeOK
  <1>4. QED
    BY <1>3, DiskStays DEF Leave, Inv

\* An operation that gives up keeps it.
LEMMA GiveUpInv ==
    ASSUME Inv, GiveUp
    PROVE  Inv'
  <1>1. /\ pc = "op" /\ pc' = "idle" /\ staged' = disk
        /\ UNCHANGED <<disk, journal, index, saved, astray, lost, made, names, handed>>
    BY DEF GiveUp, history
  <1>2. TypeOK'
    BY <1>1 DEF Inv, TypeOK
  <1>3. ASSUME journal = None, ~astray PROVE Between'
    <2>1. Within /\ saved \in Index /\ index \in Index
      BY <1>1, <1>3 DEF Inv, TypeOK
    <2>2. Opened' = Rollback(index, saved)
      BY <1>1 DEF Opened
    <2>3. Tracks(index)' /\ Tracks(Opened)'
      BY <1>1, <2>1, <2>2 DEF Within, Tracks
    <2>4. Fits(Opened, disk)'
      BY <1>1, <2>1, <2>2 DEF Within, Fits, Nameable
    <2>5. Harmless(index)'
      BY <1>1, <2>1 DEF Within, Harmless, Nameable
    <2>6. Rollback(index, saved).forward = saved.forward
      BY <2>1, RollbackFacts, NoneAssumption
    <2>7. \A i \in Id : Opened'.forward[i] \in {None, index'.forward[i]}
      BY <1>1, <2>2, <2>6 DEF GiveUp
    <2>8. QED
      BY <2>3, <2>4, <2>5, <2>7 DEF Between
  <1>4. QED
    BY <1>1, <1>2, <1>3, DiskStays DEF Inv

\* An index that fits what is on disk, and no checkpoint.
LEMMA SettledBetween ==
    ASSUME saved' = None, Tracks(index)', Fits(index, disk)'
    PROVE  Between'
  <1>1. Opened' = index'
    BY DEF Opened, Rollback
  <1>2. Tracks(Opened)' /\ Fits(Opened, disk)'
    BY <1>1 DEF Tracks, Fits, Nameable
  <1>3. Harmless(index)'
    BY DEF Fits, Harmless
  <1>4. QED
    BY <1>1, <1>2, <1>3 DEF Between

\* A process that opens the workspace keeps it.
LEMMA OpenInv ==
    ASSUME Inv, Open
    PROVE  Inv'
  <1> DEFINE ix == ReadAt(disk, disk.host)
  <1>1. /\ pc = "closed" /\ pc' = "idle" /\ index' = ix /\ saved' = None
        /\ UNCHANGED <<disk, journal, staged, astray, lost, made, names, handed>>
    BY DEF Open, history
  <1>2. disk \in Store /\ disk.host \in Path
    BY DEF Inv, TypeOK, Store
  <1>3. ix \in Index
    BY <1>2, ReadType
  <1> HIDE DEF ix
  <1>4. TypeOK'
    BY <1>1, <1>3 DEF Inv, TypeOK
  <1>5. ASSUME journal = None PROVE Between'
    <2>1. Whole(names, lost, disk)
      BY <1>5, RecordedWhole DEF Inv
    <2>2. ix.host = disk.host /\ ix.file = disk.ledger[disk.host] /\ FitsOf(names, lost, ix, disk)
      BY <1>2, <2>1, ReadFits DEF ix
    <2>3. Tracks(index)'
      BY <1>1, <2>2 DEF Tracks
    <2>4. Fits(index, disk)'
      BY <1>1, <2>2 DEF Fits, FitsOf, Nameable
    <2>5. QED
      BY <1>1, <2>3, <2>4, SettledBetween
  <1>6. QED
    BY <1>1, <1>4, <1>5, DiskStays DEF Inv

\* So does a registration between operations.
LEMMA RegisterBetweenInv ==
    ASSUME Inv, NEW p \in Path, RegisterBetween(p)
    PROVE  Inv'
  <1>1. /\ pc = "idle" /\ ~astray /\ disk.doc[p] # None /\ index.reverse[p] = None
        /\ UNCHANGED <<disk, journal, pc, saved, staged, astray, lost, made, names>>
    BY DEF RegisterBetween, Ready, Empty, IdFor, history
  <1>2. PICK i \in Mint(index) :
           index' = Register(index, i, p) /\ handed' = handed \cup {i}
    BY DEF RegisterBetween
  <1>3. /\ index \in Index /\ saved \in Index \cup {None} /\ i \in Id /\ disk \in Store
        /\ index' \in Index
    BY <1>2, RegisterFacts DEF Mint, Inv, TypeOK
  <1>4. TypeOK'
    BY <1>1, <1>2, <1>3 DEF Inv, TypeOK
  <1>5. ASSUME journal = None PROVE Between'
    <2>1. Between /\ Recorded(disk)
      BY <1>1, <1>5 DEF Inv
    <2>2. Tracks(index) /\ Harmless(index) /\ Covers(index)
      BY <2>1 DEF Between, Harmless
    <2>3. /\ names[i] = None /\ index.forward[i] = None /\ i \notin index.tombstones
          /\ \A rec \in disk.bin : rec.id # i
      BY <1>3, <2>1, <2>2, MintedIsNew
    <2>4. Harmless(index')
      BY <1>1, <1>2, <1>3, <2>2, <2>3, RegisterHarmless
    <2>5. Tracks(index')
      BY <1>2, <1>3, <2>2, RegisterKeeps
    <2>6. /\ \A j \in Id : index'.forward[j] = IF j = i THEN p ELSE index.forward[j]
          /\ index'.host = index.host
      BY <1>2, <1>3, RegisterAdds
    <2>7. Tracks(index)' /\ Harmless(index)'
      BY <1>1, <2>4, <2>5 DEF Tracks, Harmless, Nameable
    <2>8. CASE saved = None
      <3>1. Opened = index
        BY <2>8 DEF Opened, Rollback
      <3>2. Fits(index, disk)
        BY <2>1, <3>1 DEF Between
      <3>3. Fits(index', disk)
        BY <1>1, <1>2, <1>3, <2>3, <3>2, RegisterGood
      <3>4. Fits(index, disk)'
        BY <1>1, <3>3 DEF Fits, Nameable
      <3>5. QED
        BY <1>1, <2>7, <2>8, <3>4, SettledBetween
    <2>9. CASE saved # None
      <3>1. /\ Opened = [saved EXCEPT !.host = index.host]
            /\ Opened' = [saved' EXCEPT !.host = index'.host]
        BY <1>1, <2>9 DEF Opened, Rollback
      <3>2. Opened' = Opened
        BY <1>1, <2>6, <3>1
      <3>3. Tracks(Opened)' /\ Fits(Opened, disk)'
        BY <1>1, <2>1, <3>2 DEF Between, Tracks, Fits, Nameable
      <3>4. \A j \in Id : Opened'.forward[j] \in {None, index'.forward[j]}
        BY <2>1, <2>3, <2>6, <3>2 DEF Between
      <3>5. QED
        BY <2>7, <3>3, <3>4 DEF Between
    <2>10. QED
      BY <2>8, <2>9
  <1>6. QED
    BY <1>1, <1>4, <1>5, DiskStays DEF Inv

\* Whatever workspace is told, and is then on disk.
LEMMA ToldRecorded ==
    ASSUME Told(names', lost', disk')
    PROVE  Recorded(disk)' /\ IdsNameOneDocument'
  <1>1. Recorded(disk)'
    BY DEF Told, Recorded, Nameable, Registered
  <1>2. IdsNameOneDocument'
    BY DEF Told, IdsNameOneDocument, Registered
  <1>3. QED
    BY <1>1, <1>2

\* A recovery keeps it, by a check that then finds the registry or is astray.
LEMMA RecoverInv ==
    ASSUME Inv, Recover
    PROVE  Inv'
  <1>1. /\ pc = "closed" /\ journal # None /\ disk' = journal /\ journal' = None
        /\ pc' = "idle" /\ index' = ReadAt(journal, disk.host) /\ saved' = None
        /\ staged' = journal /\ astray' = (journal.host # disk.host)
        /\ names' = Names(journal) /\ UNCHANGED <<lost, made, handed>>
    BY DEF Recover
  <1>2. /\ journal \in Store /\ Whole(names, lost, journal) /\ TypeOK
        /\ disk.host \in Path /\ journal.host \in Path
    BY <1>1, RecordedWhole DEF Inv, TypeOK, Store
  <1>3. Told(names', lost', disk') /\ names' \in [Id -> Doc \cup {None}]
    BY <1>1, <1>2, NamesTold
  <1>4. index' \in Index
    BY <1>1, <1>2, ReadType
  <1>5. TypeOK'
    BY <1>1, <1>2, <1>3, <1>4 DEF TypeOK
  <1>6. Recorded(disk)' /\ IdsNameOneDocument'
    BY <1>3, ToldRecorded
  <1>7. Placed(disk)'
    BY <1>6 DEF Recorded
  <1>8. ASSUME ~astray' PROVE Between'
    <2>1. index' = ReadAt(disk', disk'.host) /\ disk' \in Store
      BY <1>1, <1>2, <1>8
    <2>2. Whole(names', lost', disk')
      BY <1>3 DEF Told, Whole
    <2>3. /\ index'.host = disk'.host /\ index'.file = disk'.ledger[disk'.host]
          /\ FitsOf(names', lost', index', disk')
      BY <2>1, <2>2, ReadFits
    <2>4. Tracks(index)' /\ Fits(index, disk)'
      BY <2>3 DEF Tracks, Fits, FitsOf, Nameable
    <2>5. QED
      BY <1>1, <2>4, SettledBetween
  <1>9. QED
    BY <1>1, <1>5, <1>6, <1>7, <1>8 DEF Inv

\* A commit keeps it.
LEMMA CommitInv ==
    ASSUME Inv, Commit
    PROVE  Inv'
  <1>1. /\ pc = "op" /\ journal = None /\ disk' = Final /\ pc' = "idle"
        /\ index' = [Written EXCEPT !.dirty = FALSE] /\ saved' = None /\ staged' = Final
        /\ names' = Names(Final) /\ Accounted /\ UNCHANGED <<journal, astray, handed>>
    BY DEF Commit, Committed
  <1>2. /\ TypeOK /\ Placed(disk) /\ Placed(staged) /\ Recorded(disk) /\ index \in Index
        /\ Written \in Index
    BY <1>1, WrittenType DEF Inv, TypeOK
  <1>3. /\ Final \in Store /\ Whole(names, lost', Final)
        /\ made' \in 0..MaxDocs /\ lost' \subseteq Id
    BY <1>1, FinalWhole
  <1>4. /\ Told(Names(Final), lost', Final) /\ Names(Final) \in [Id -> Doc \cup {None}]
        /\ \A i \in Id : Names(Final)[i] =
             IF Registered(Final)[i] \in Live THEN Final.doc[Registered(Final)[i]] ELSE names[i]
    BY <1>2, <1>3, NamesTold
  <1>5. index' \in Index
    BY <1>1, <1>2 DEF Index
  <1>6. TypeOK'
    BY <1>1, <1>2, <1>3, <1>4, <1>5 DEF TypeOK
  <1>7. Recorded(disk)' /\ IdsNameOneDocument'
    BY <1>1, <1>4, ToldRecorded
  <1>8. Placed(disk)'
    BY <1>7 DEF Recorded
  <1>9. ASSUME ~astray PROVE Between'
    <2> DEFINE records == Written.file.records
    <2>1. Fits(index, staged) /\ Within
      BY <1>1, <1>9 DEF Inv, Within
    <2>2. /\ Final.host = staged.host /\ Final.bin = staged.bin /\ Final.cited = staged.cited
          /\ Final.ledger[Final.host] = Written.file /\ Registered(Final) = records
      BY <1>1, <1>2, <1>9, <2>1, FinalFacts DEF Registered
    <2>3. /\ Written.forward = index.forward /\ Written.reverse = index.reverse
          /\ Written.tombstones = index.tombstones /\ Written.host = staged.host
          /\ Says(index, records)
      BY <1>2, <2>1, WrittenFacts
    <2>4. /\ index'.forward = index.forward /\ index'.reverse = index.reverse
          /\ index'.tombstones = index.tombstones /\ index'.host = staged.host
          /\ index'.file = Written.file /\ index'.dirty = FALSE
      BY <1>1, <1>2, <2>3 DEF Index
    <2>5. Tracks(index)'
      BY <1>1, <2>2, <2>4 DEF Tracks
    <2>6. Fits(index, disk)'
      <3>1. /\ index.forward \in [Id -> Path \cup {None}]
            /\ Unknown \notin Path /\ Tombstone \notin Path /\ None \notin Path
            /\ Unknown # Tombstone
        BY <1>2, RegistryAssumption DEF Index, Unknown, Tombstone
      <3>2. Inverse(index')
        BY <2>1, <2>4 DEF Fits, Inverse
      <3>3. index'.file.records = records
        BY <2>4
      <3> HIDE DEF records
      <3>4. \A i \in Id : Known(index', i) <=> Known(index, i)
        BY <2>4 DEF Known
      <3>5. Covers(index')
        BY <2>3, <3>3, <3>4 DEF Covers, Says
      <3>6. Clean(index')
        BY <2>3, <2>4, <3>1, <3>3 DEF Clean, Says, Known, Live
      <3>7. \A i \in Id : index.forward[i] # None =>
               names'[i] = Final.doc[index.forward[i]] /\ Final.doc[index.forward[i]] # None
        <4> SUFFICES ASSUME NEW i \in Id, index.forward[i] # None
                     PROVE  /\ names'[i] = Final.doc[index.forward[i]]
                            /\ Final.doc[index.forward[i]] # None
          OBVIOUS
        <4>1. records[i] = index.forward[i] /\ records[i] \in Live
          BY <2>3, <3>1 DEF Says, Live
        <4>2. QED
          BY <1>1, <1>4, <2>2, <4>1 DEF Told
      <3>8. \A rec \in Final.bin : rec.id # None =>
               /\ index.forward[rec.id] = None /\ rec.id \in index.tombstones
               /\ rec.doc # None /\ names'[rec.id] \in {None, rec.doc}
        BY <1>1, <1>4, <2>1, <2>2 DEF Fits, Told
      <3>9. \A i \in Final.cited : i \in Id
        BY <1>3 DEF Store
      <3>10. \A i \in Final.cited \ lost' : Known(index, i)
        <4>1. \A i \in Final.cited : records[i] = Unknown /\ i \in lost => i \in lost'
          BY <1>1, <2>2 DEF Accounted, Registered
        <4>2. \A i \in Id : ~Known(index, i) => records[i] = Unknown
          BY <2>3 DEF Says
        <4>3. \A i \in Final.cited \ lost : Known(index, i)
          BY <2>1, <2>2 DEF Fits
        <4>4. QED
          BY <3>9, <4>1, <4>2, <4>3
      <3>11. BinApart(Final)
        BY <1>3 DEF Whole
      <3>12. QED
        BY <1>1, <2>4, <3>2, <3>4, <3>5, <3>6, <3>7, <3>8, <3>9, <3>10, <3>11 DEF Fits, Nameable
    <2>7. QED
      BY <1>1, <2>5, <2>6, SettledBetween
  <1>10. QED
    BY <1>1, <1>6, <1>7, <1>8, <1>9 DEF Inv

\* After a failed commit the index is typed, whatever state the set was in.
LEMMA FailType ==
    ASSUME Inv, pc = "op", Fail
    PROVE  /\ index' \in Index /\ index'.host = Rebase(index).host
           /\ index' = [saved EXCEPT !.host = index'.host]
  <1>1. /\ disk \in Store /\ staged \in Store /\ index \in Index
        /\ Placed(disk) /\ Placed(staged) /\ saved \in Index /\ saved # None
    BY DEF Inv, TypeOK
  <1>2. Rebase(index) \in Index
    BY <1>1, RebaseFacts
  <1>3. index' = Rollback(Rebase(index), saved)
    BY DEF Fail
  <1>4. index' \in Index /\ index'.host = Rebase(index).host
    BY <1>1, <1>2, <1>3, RollbackFacts
  <1>5. QED
    BY <1>1, <1>3, <1>4 DEF Rollback

\* A commit refused or unwound keeps it, when it did not move the registry
\* document.
LEMMA CommitAbortedInv ==
    ASSUME Inv, CommitAborted, HostMayAbort = FALSE
    PROVE  Inv'
  <1>1. /\ pc = "op" /\ pc' = "idle" /\ saved' = None /\ staged' = disk /\ Fail
        /\ journal # None \/ staged.host = disk.host
        /\ UNCHANGED <<disk, journal, astray, lost, made, names, handed>>
    BY DEF CommitAborted, Fail, history
  <1>2. /\ index' \in Index /\ index'.host = Rebase(index).host
        /\ index' = [saved EXCEPT !.host = index'.host]
    BY <1>1, FailType
  <1>3. TypeOK'
    BY <1>1, <1>2 DEF Inv, TypeOK
  <1>4. ASSUME journal = None, ~astray PROVE Between'
    <2>1. /\ Within /\ disk \in Store /\ staged \in Store /\ index \in Index
          /\ Placed(disk) /\ Placed(staged) /\ saved # None
      BY <1>1, <1>4 DEF Inv, TypeOK
    <2>2. Rebase(index).host = disk.host /\ index.host = disk.host
      BY <1>1, <1>4, <2>1, RebaseFacts DEF Within, Tracks
    <2>3. index' = Rollback(index, saved)
      BY <1>2, <2>1, <2>2 DEF Rollback
    <2>4. Tracks(index)' /\ Fits(index, disk)'
      BY <1>1, <2>1, <2>3 DEF Within, Tracks, Fits, Nameable
    <2>5. QED
      BY <1>1, <2>4, SettledBetween
  <1>5. QED
    BY <1>1, <1>3, <1>4, DiskStays DEF Inv

\* A commit that leaves a journal behind keeps it.
LEMMA CommitPendingInv ==
    ASSUME Inv, CommitPending
    PROVE  Inv'
  <1>1. /\ pc = "op" /\ journal = None /\ journal' = Final /\ disk' \in {disk, Final}
        /\ (Fail \/ Leave) /\ Accounted /\ UNCHANGED names
    BY DEF CommitPending
  <1>2. TypeOK /\ Placed(disk) /\ disk.host \in Path
    BY <1>1 DEF Inv, TypeOK, Store
  <1>3. /\ Final \in Store /\ Whole(names, lost', Final) /\ Placed(Final) /\ Final # None
        /\ made' \in 0..MaxDocs /\ lost' \subseteq Id
        /\ \A i \in Id : Registered(disk)[i] # Unknown => Registered(Final)[i] # Unknown
    BY <1>1, FinalWhole, NoneAssumption DEF Whole
  <1>4. /\ pc' \in {"closed", "idle"} /\ saved' = None /\ staged' = disk /\ handed' \subseteq Id
        /\ index' \in Index /\ astray' \in BOOLEAN /\ (astray' => pc' # "closed")
    <2>1. CASE Fail
      <3>1. index' \in Index
        BY <1>1, <2>1, FailType
      <3>2. QED
        BY <1>2, <2>1, <3>1 DEF Fail, TypeOK
    <2>2. CASE Leave
      <3>1. index' \in Index
        BY <1>2, <2>2, ReadType DEF Leave, TypeOK
      <3>2. QED
        BY <2>2, <3>1 DEF Leave
    <2>3. QED
      BY <1>1, <2>1, <2>2
  <1>5. TypeOK'
    BY <1>1, <1>2, <1>3, <1>4 DEF TypeOK
  <1>6. Placed(disk)'
    BY <1>1, <1>2, <1>3 DEF Placed
  <1>7. Recorded(journal)'
    BY <1>1, <1>3 DEF Whole, Recorded, Placed, BinApart, Registered, Nameable
  <1>8. \A i \in Id : Registered(disk')[i] # Unknown => Registered(journal')[i] # Unknown
    BY <1>1, <1>3
  <1>9. \A i \in Id : Registered(disk)'[i] # Unknown => Registered(journal)'[i] # Unknown
    BY <1>8 DEF Registered
  <1>10. QED
    BY <1>1, <1>3, <1>4, <1>5, <1>6, <1>7, <1>9 DEF Inv

\* A step of somebody else keeps it.
LEMMA StutterInv ==
    ASSUME Inv, UNCHANGED vars
    PROVE  Inv'
  <1>1. UNCHANGED <<disk, journal, pc, index, saved, staged, astray, lost, made, names, handed>>
    BY DEF vars
  <1>2. TypeOK'
    BY <1>1 DEF Inv, TypeOK
  <1>3. (pc = "op" => saved # None /\ Placed(staged))'
    BY <1>1 DEF Inv, Placed
  <1>4. Opened' = Opened /\ Rollback(index, saved)' = Rollback(index, saved)
    BY <1>1 DEF Opened, Rollback
  <1>5. (journal = None /\ pc = "idle" /\ ~astray => Between)'
    BY <1>1, <1>4 DEF Inv, Between, Tracks, Fits, Harmless, Nameable
  <1>6. (journal = None /\ pc = "op" /\ ~astray => Within)'
    BY <1>1, <1>4 DEF Inv, Within, Tracks, Fits, Harmless, Nameable, Edits
  <1>7. (journal = None /\ pc = "op" /\ astray => Aside(staged))'
    BY <1>1 DEF Inv, Aside, Registered
  <1>8. QED
    BY <1>1, <1>2, <1>3, <1>5, <1>6, <1>7, DiskStays DEF Inv

\* The invariant holds of every behaviour in which no set that moves the
\* registry document is unwound.
THEOREM Invariance ==
    ASSUME HostMayAbort = FALSE
    PROVE  Spec => []Inv
  <1>1. Init => Inv
    BY InitInv
  <1>2. Inv /\ [Next]_vars => Inv'
    <2> SUFFICES ASSUME Inv, [Next]_vars PROVE Inv'
      OBVIOUS
    <2>1. CASE Open
      BY <2>1, OpenInv
    <2>2. CASE Close
      BY <2>2, LeaveInv DEF Close, history
    <2>3. CASE Recover
      BY <2>3, RecoverInv
    <2>4. ASSUME NEW p \in Path, RegisterBetween(p) PROVE Inv'
      BY <2>4, RegisterBetweenInv
    <2>5. CASE Operation
      BY <2>5, OperationOpens, OpensInv
    <2>6. CASE GiveUp
      BY <2>6, GiveUpInv
    <2>7. CASE Commit
      BY <2>7, CommitInv
    <2>8. CASE CommitAborted
      BY <2>8, CommitAbortedInv
    <2>9. CASE CommitPending
      BY <2>9, CommitPendingInv
    <2>10. CASE Crash
      BY <2>10, LeaveInv DEF Crash, history
    <2>11. CASE UNCHANGED vars
      BY <2>11, StutterInv
    <2>12. QED
      BY <2>1, <2>2, <2>3, <2>4, <2>5, <2>6, <2>7, <2>8, <2>9, <2>10, <2>11 DEF Next
  <1>3. QED
    BY <1>1, <1>2, PTL DEF Spec

-----------------------------------------------------------------------------
(* What follows.                                                           *)

\* The variables keep their types.
THEOREM TypeCorrect ==
    ASSUME HostMayAbort = FALSE
    PROVE  Spec => []TypeOK
  <1>1. Inv => TypeOK
    BY DEF Inv
  <1>2. QED
    BY <1>1, Invariance, PTL

\* A process knows where the registry is on disk, and what it says, between
\* operations and within them.
THEOREM IndexFollowsHost ==
    ASSUME HostMayAbort = FALSE
    PROVE  Spec => []IndexTracksHost
  <1>1. Inv => IndexTracksHost
    BY DEF Inv, TypeOK, IndexTracksHost, Between, Within, Tracks
  <1>2. QED
    BY <1>1, Invariance, PTL

\* An id on record leads to the document it was first recorded for.
THEOREM IdsKept ==
    ASSUME HostMayAbort = FALSE
    PROVE  Spec => []IdsNameOneDocument
  <1>1. Inv => IdsNameOneDocument
    BY DEF Inv, IdsNameOneDocument
  <1>2. QED
    BY <1>1, Invariance, PTL

\* An id that a link carries is on record.
THEOREM CitedRecorded ==
    ASSUME HostMayAbort = FALSE
    PROVE  Spec => []CitedIdsKnown
  <1>1. Inv => CitedIdsKnown
    <2> SUFFICES ASSUME Inv, journal = None PROVE \A i \in disk.cited \ lost : Registered(disk)[i] # Unknown
      BY DEF CitedIdsKnown
    <2>1. Recorded(disk) /\ disk.cited \subseteq Id
      BY DEF Inv, TypeOK, Store
    <2>2. QED
      BY <2>1 DEF Recorded
  <1>2. QED
    BY <1>1, Invariance, PTL

\* The index's two maps are each other's inverse.
THEOREM MapsInverse ==
    ASSUME HostMayAbort = FALSE
    PROVE  Spec => []MapsAgree
  <1>1. Inv => MapsAgree
    BY DEF Inv, TypeOK, MapsAgree, Between, Within, Fits, Harmless, Inverse
  <1>2. QED
    BY <1>1, Invariance, PTL

\* The steps that change what is on disk.
LEMMA DiskSteps ==
    ASSUME Inv, [Next]_vars, disk' # disk
    PROVE  \/ pc = "op" /\ journal = None /\ disk' = Final /\ Accounted
           \/ pc = "closed" /\ journal # None /\ disk' = journal
  <1>1. CASE Recover
    BY <1>1 DEF Recover
  <1>2. CASE Commit
    BY <1>2 DEF Commit
  <1>3. CASE CommitPending
    BY <1>3 DEF CommitPending
  <1>4. ASSUME Operation PROVE FALSE
    BY <1>4, OperationOpens DEF Opens, Begin
  <1>5. QED
    BY <1>1, <1>2, <1>3, <1>4 DEF Next, vars, Open, Close, RegisterBetween, GiveUp,
       CommitAborted, Crash

\* No step takes an id from the record.
THEOREM RecordsKept ==
    ASSUME HostMayAbort = FALSE
    PROVE  Spec => RecordsNeverLost
  <1>1. Inv /\ [Next]_vars =>
           [\A i \in Id : Registered(disk)[i] # Unknown => Registered(disk)'[i] # Unknown]_vars
    <2> SUFFICES ASSUME Inv, [Next]_vars, NEW i \in Id, Registered(disk)[i] # Unknown
                 PROVE  Registered(disk')[i] # Unknown
      BY DEF Registered
    <2>1. CASE disk' = disk
      BY <2>1
    <2>2. CASE pc = "op" /\ journal = None /\ disk' = Final /\ Accounted
      BY <2>2, FinalWhole
    <2>3. CASE pc = "closed" /\ journal # None /\ disk' = journal
      BY <2>3 DEF Inv
    <2>4. QED
      BY <2>1, <2>2, <2>3, DiskSteps
  <1>2. QED
    BY <1>1, Invariance, PTL DEF Spec, RecordsNeverLost

\* A commit writes the operation's own edits, the registry's text and place
\* among them; a check that is astray adds a document where none is left.
THEOREM EditsKept ==
    ASSUME HostMayAbort = FALSE
    PROVE  Spec => EditsLand
  <1> DEFINE Lands ==
        pc = "op" /\ disk' # disk =>
          /\ [disk' EXCEPT !.ledger = staged.ledger, !.doc = staged.doc] = staged
          /\ \A p \in Path :
               \/ disk'.doc[p] = staged.doc[p]
               \/ astray /\ p = index.host /\ staged.doc[p] = None
          /\ \A p \in Path :
               IF staged.ledger[p] = None THEN disk'.ledger[p] = None
               ELSE disk'.ledger[p].text = staged.ledger[p].text
  <1>1. Inv /\ [Next]_vars => [Lands]_vars
    <2> SUFFICES ASSUME Inv, [Next]_vars, pc = "op", disk' # disk
                 PROVE  /\ [disk' EXCEPT !.ledger = staged.ledger, !.doc = staged.doc] = staged
                        /\ \A p \in Path :
                             \/ disk'.doc[p] = staged.doc[p]
                             \/ astray /\ p = index.host /\ staged.doc[p] = None
                        /\ \A p \in Path :
                             IF staged.ledger[p] = None THEN disk'.ledger[p] = None
                             ELSE disk'.ledger[p].text = staged.ledger[p].text
      OBVIOUS
    <2>1. /\ journal = None /\ disk' = Final /\ Accounted
          /\ TypeOK /\ Placed(disk) /\ Placed(staged) /\ Recorded(disk) /\ staged \in Store
      BY DiskSteps DEF Inv, TypeOK
    <2>2. CASE ~astray
      <3>1. /\ disk' = [staged EXCEPT !.ledger[staged.host] = Written.file]
            /\ Written.file.text = staged.ledger[staged.host].text
        BY <2>1, <2>2, FinalFacts, WrittenFacts DEF Inv
      <3>2. /\ disk'.ledger = [staged.ledger EXCEPT ![staged.host] = Written.file]
            /\ disk'.doc = staged.doc
            /\ staged.ledger \in [Path -> File \cup {None}] /\ staged.host \in Path
        BY <2>1, <3>1 DEF Store
      <3>3. [disk' EXCEPT !.ledger = staged.ledger, !.doc = staged.doc] = staged
        BY <2>1, <3>1 DEF Store
      <3>4. QED
        BY <2>1, <3>1, <3>2, <3>3 DEF Placed
    <2>3. CASE astray
      <3>1. /\ disk' \in Store /\ disk'.ledger = staged.ledger /\ disk'.host = staged.host
            /\ disk'.bin = staged.bin /\ disk'.cited = staged.cited
            /\ \A p \in Path :
                 disk'.doc[p] = staged.doc[p] \/ (p = index.host /\ staged.doc[p] = None)
        BY <2>1, <2>3, FinalAstray DEF Inv
      <3>2. [disk' EXCEPT !.ledger = staged.ledger, !.doc = staged.doc] = staged
        BY <2>1, <3>1 DEF Store
      <3>3. QED
        BY <2>3, <3>1, <3>2
    <2>4. QED
      BY <2>2, <2>3
  <1>2. QED
    BY <1>1, Invariance, PTL DEF Spec, EditsLand

=============================================================================
