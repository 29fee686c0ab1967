--------------------------- MODULE SessionsProofs ---------------------------
(***************************************************************************)
(* What Sessions guarantees for all paths, ids and bounds, and in all      *)
(* three modes of id_storage: links by id lead to the documents they were  *)
(* written for, stamps are true, and one command hands its ids on to the   *)
(* next.  The inductive invariant is Inv: what is recorded fits the files  *)
(* at every step, and so does what the process at work has in memory.      *)
(***************************************************************************)
EXTENDS Sessions, TLAPS

-----------------------------------------------------------------------------
(* Values.                                                                 *)

\* A map of ids to places is a function.
LEMMA LivesFacts ==
    \A f : f \in Lives <=> DOMAIN f \subseteq Id /\ f \in [DOMAIN f -> Place]
  <1>1. ASSUME NEW f, f \in Lives PROVE DOMAIN f \subseteq Id /\ f \in [DOMAIN f -> Place]
    <2>1. PICK S \in SUBSET Id : f \in [S -> Place]
      BY <1>1 DEF Lives
    <2>2. QED
      BY <2>1
  <1>2. ASSUME NEW f, DOMAIN f \subseteq Id, f \in [DOMAIN f -> Place] PROVE f \in Lives
    BY <1>2 DEF Lives
  <1>3. QED
    BY <1>1, <1>2

\* Places of the bin are not those of documents outside.
LEMMA PlacesApart ==
    /\ \A p, q \in Path : InBin(p) # Outside(q)
    /\ \A p, q \in Path : InBin(p) = InBin(q) => p = q
    /\ \A p, q \in Path : Outside(p) = Outside(q) => p = q
    /\ \A l \in Out, p \in Path : l # InBin(p)
    /\ Place = Out \cup {InBin(p) : p \in Path}
  BY DEF InBin, Outside, Out, Place

\* No id is at no place.
LEMMA NowhereFacts == DOMAIN Nowhere = {} /\ Nowhere \in Lives
  <1>1. DOMAIN Nowhere = {}
    BY DEF Nowhere
  <1>2. Nowhere \in [{} -> Place]
    BY DEF Nowhere
  <1>3. QED
    BY <1>1, <1>2, LivesFacts

\* A map with no ids is Nowhere.
LEMMA NowhereIs ==
    ASSUME NEW f \in Lives, DOMAIN f = {}
    PROVE  f = Nowhere
  <1>1. f \in [{} -> Place]
    BY LivesFacts
  <1>2. Nowhere \in [{} -> Place]
    BY LivesFacts, NowhereFacts
  <1>3. QED
    BY <1>1, <1>2

\* What a scan of stamps gives, where no two documents have one stamp.
LEMMA ScannedFacts ==
    ASSUME NEW f, DOMAIN f \subseteq Place, f \in [DOMAIN f -> Document],
           \A l, k \in DOMAIN f : f[l].stamp # None /\ f[l].stamp = f[k].stamp => l = k
    PROVE  /\ Scanned(f) \in Lives
           /\ \A i \in DOMAIN Scanned(f) :
                 Scanned(f)[i] \in DOMAIN f /\ f[Scanned(f)[i]].stamp = i
           /\ \A l \in DOMAIN f : f[l].stamp # None =>
                 f[l].stamp \in DOMAIN Scanned(f) /\ Scanned(f)[f[l].stamp] = l
  <1> DEFINE stamped == {l \in DOMAIN f : f[l].stamp # None}
             ids == {f[l].stamp : l \in stamped}
             at(i) == CHOOSE l \in stamped : f[l].stamp = i
  <1>1. Scanned(f) = [i \in ids |-> at(i)]
    BY DEF Scanned
  <1>2. ASSUME NEW i \in ids PROVE at(i) \in stamped /\ f[at(i)].stamp = i
    BY <1>2
  <1>3. ids \subseteq Id
    BY DEF Document
  <1>4. DOMAIN Scanned(f) = ids /\ \A i \in ids : Scanned(f)[i] = at(i)
    BY <1>1
  <1>5. Scanned(f) \in [ids -> Place]
    BY <1>1, <1>2
  <1> HIDE DEF at
  <1>6. \A l \in DOMAIN f : f[l].stamp # None => f[l].stamp \in ids /\ at(f[l].stamp) = l
    BY <1>2
  <1>7. QED
    BY <1>2, <1>3, <1>4, <1>5, <1>6, LivesFacts

-----------------------------------------------------------------------------
(* Opening the workspace.                                                  *)

\* Stamps are of one document each.
LEMMA StampsApart ==
    FilesInv =>
        \A l, k \in DOMAIN file : file[l].stamp # None /\ file[l].stamp = file[k].stamp => l = k
  BY DEF FilesInv

\* The ids a process has that opens the workspace: the stamps, or the record.
LEMMA OpenedFacts ==
    Recorded =>
        /\ Opened.live \in Lives
        /\ mode # "frontmatter" =>
              Opened.live = ledger.live /\ Opened.home = hosted
        /\ mode = "frontmatter" => Opened.live = Scanned(file) /\ Opened.home = FALSE
        /\ Opened.retired \subseteq Id
        /\ Opened.home \in BOOLEAN
  <1> SUFFICES ASSUME Recorded
               PROVE  /\ Opened.live \in Lives
                      /\ mode # "frontmatter" =>
                            Opened.live = ledger.live /\ Opened.home = hosted
                      /\ mode = "frontmatter" => Opened.live = Scanned(file) /\ Opened.home = FALSE
                      /\ Opened.retired \subseteq Id
                      /\ Opened.home \in BOOLEAN
    OBVIOUS
  <1>1. TypeOK /\ FilesInv /\ (~hosted => ledger.live = Nowhere)
    BY DEF Recorded, Unhosted
  <1>2. CASE mode = "frontmatter"
    <2>1. Opened = [live |-> Scanned(file), retired |-> {}, home |-> FALSE]
      BY <1>2 DEF Opened, OpensAs
    <2>2. Scanned(file) \in Lives
      BY <1>1, StampsApart, ScannedFacts DEF TypeOK
    <2>3. QED
      BY <1>2, <2>1, <2>2
  <1>3. CASE mode # "frontmatter" /\ hosted
    <2>1. Opened = [live |-> ledger.live, retired |-> ledger.retired, home |-> TRUE]
      BY <1>3 DEF Opened, OpensAs
    <2>2. QED
      BY <1>1, <1>3, <2>1 DEF TypeOK
  <1>4. CASE mode # "frontmatter" /\ ~hosted
    <2>1. Opened = [live |-> Nowhere, retired |-> {}, home |-> FALSE]
      BY <1>4 DEF Opened, OpensAs
    <2>2. QED
      BY <1>1, <1>4, <2>1, NowhereFacts DEF TypeOK
  <1>5. QED
    BY <1>2, <1>3, <1>4

\* They lead to their documents.
LEMMA OpenedFaithful ==
    Recorded =>
        /\ Faithful(Opened.live)
        /\ mode = "frontmatter" =>
              /\ StampedAs(Opened.live, DOMAIN Opened.live)
              /\ \A l \in DOMAIN file : file[l].stamp # None =>
                    file[l].stamp \in DOMAIN Opened.live /\ Opened.live[file[l].stamp] = l
  <1> SUFFICES ASSUME Recorded
               PROVE  /\ Faithful(Opened.live)
                      /\ mode = "frontmatter" =>
                            /\ StampedAs(Opened.live, DOMAIN Opened.live)
                            /\ \A l \in DOMAIN file : file[l].stamp # None =>
                                  /\ file[l].stamp \in DOMAIN Opened.live
                                  /\ Opened.live[file[l].stamp] = l
    OBVIOUS
  <1>1. CASE mode # "frontmatter"
    BY <1>1, OpenedFacts DEF Recorded
  <1>2. CASE mode = "frontmatter"
    <2> DEFINE live == Scanned(file)
    <2>1. /\ \A i \in DOMAIN live : live[i] \in DOMAIN file /\ file[live[i]].stamp = i
          /\ \A l \in DOMAIN file : file[l].stamp # None =>
                file[l].stamp \in DOMAIN live /\ live[file[l].stamp] = l
          /\ live \in Lives
      BY StampsApart, ScannedFacts DEF Recorded, TypeOK
    <2>2. Opened.live = live
      BY <1>2, OpenedFacts
    <2> HIDE DEF live
    <2>3. DOMAIN live \subseteq Id
      BY <2>1, LivesFacts
    <2>4. None \notin Id
      BY SessionsAssumption
    <2>5. ASSUME NEW i \in DOMAIN live
          PROVE  i \in DOMAIN owner /\ file[live[i]].key = owner[i]
      BY <2>1, <2>3, <2>4 DEF Recorded, FilesInv
    <2>6. ASSUME NEW i \in DOMAIN live, NEW p \in Path, live[i] = InBin(p)
          PROVE  i \in binned[p]
      BY <1>2, <2>1, <2>3, <2>4, <2>6 DEF Recorded, BinInv
    <2>7. Faithful(live)
      BY <2>1, <2>5, <2>6 DEF Faithful
    <2>8. QED
      BY <2>1, <2>2, <2>7 DEF StampedAs
  <1>3. QED
    BY <1>1, <1>2

-----------------------------------------------------------------------------
(* A commit.                                                               *)

\* What every operation that commits does to its process and to the registry.
Commits ==
    /\ proc.at = "op" /\ proc'.on /\ proc'.cmd = proc.cmd
    /\ proc'.home = proc.home /\ proc'.todo = {}
    /\ IF proc.cmd = "fix" THEN proc'.at = "op" /\ (proc'.dirty => proc'.applied)
                           ELSE proc'.at = "persist"
    /\ proc.home => ~proc'.dirty /\ ledger'.live = proc'.live
    /\ ~proc.home => ledger' = ledger
    /\ ~proc.home /\ ~proc'.dirty => ~proc.dirty /\ proc'.live = proc.live
    /\ mode' = mode /\ hosted' = hosted

\* Then the invariant holds if the files, the bin's records and the ids in
\* memory still fit each other.
LEMMA CommitKeeps ==
    ASSUME Inv, Commits, TypeOK', FilesInv', BinInv',
           Faithful(proc.live)', Reaches(proc.live)',
           mode # "frontmatter" /\ ~proc.home =>
              /\ proc.cmd \notin {"fix", "restore"} => proc'.live = Nowhere /\ ~proc'.dirty
              /\ ~hosted => \A p \in DOMAIN binned' : binned'[p] = {},
           mode = "frontmatter" => Scanning'
    PROVE  Inv'
  <1>1. After /\ Recorded
    BY DEF Inv, Commits
  <1>2. mode # "frontmatter" => Owing /\ (hosted <=> proc.home)
    BY <1>1 DEF After, Owing, Commits
  <1>3. mode = "frontmatter" => ~hosted /\ ~proc.home /\ ledger.live = Nowhere
    BY <1>1 DEF After, Scanning, Recorded, Unhosted
  <1>4. ~proc.home => ledger'.live = Nowhere
    BY <1>2, <1>3 DEF Owing, Commits
  <1>5. proc.home => ledger'.live = proc'.live
    BY DEF Commits
  <1>6. proc.home \in BOOLEAN
    BY <1>1 DEF Recorded, TypeOK, Process
  <1>7. Faithful(ledger.live)'
    <2>1. CASE proc.home
      BY <2>1, <1>5 DEF Faithful
    <2>2. CASE ~proc.home
      BY <2>2, <1>4, NowhereFacts DEF Faithful
    <2>3. QED
      BY <2>1, <2>2, <1>6
  <1>8. Within(ledger.live, proc.live)'
    <2>1. CASE proc.home
      BY <2>1, <1>5 DEF Within
    <2>2. CASE ~proc.home
      BY <2>2, <1>4, NowhereFacts DEF Within
    <2>3. QED
      BY <2>1, <2>2, <1>6
  <1>9. ~hosted' => Unhosted'
    BY <1>2, <1>3, <1>4 DEF Unhosted, Commits
  <1>10. Recorded'
    BY <1>1, <1>7, <1>9 DEF Recorded, Commits
  <1>11. mode' # "frontmatter" => Owing'
    <2> SUFFICES ASSUME mode # "frontmatter" PROVE Owing'
      BY DEF Commits
    <2>1. CASE proc.home
      BY <2>1, <1>2 DEF Owing, Commits
    <2>2. CASE ~proc.home
      BY <2>2, <1>2, <1>4 DEF Owing, Commits
    <2>3. QED
      BY <2>1, <2>2, <1>6
  <1>12. After'
    BY <1>8, <1>11, <1>1 DEF After, Commits
  <1>13. QED
    BY <1>10, <1>12 DEF Inv, Commits

\* What an operation begins with.
LEMMA AtWork ==
    ASSUME Inv, proc.at = "op"
    PROVE  /\ Recorded /\ After /\ TypeOK /\ FilesInv /\ BinInv
           /\ proc.on /\ proc.todo = {}
           /\ mode = "frontmatter" => Scanning /\ ~hosted
           /\ mode # "frontmatter" => Owing /\ (hosted <=> proc.home) /\ (proc.home => ~proc.dirty)
           /\ ~proc.home => ledger.live = Nowhere
           /\ DOMAIN proc.live \subseteq Id /\ proc.live \in [DOMAIN proc.live -> Place]
  <1>1. Recorded /\ After
    BY DEF Inv
  <1>2. TypeOK /\ FilesInv /\ BinInv /\ (mode = "frontmatter" => ~hosted) /\ (~hosted => Unhosted)
    BY <1>1 DEF Recorded
  <1>3. proc.live \in Lives /\ proc.home \in BOOLEAN
    BY <1>2 DEF TypeOK, Process
  <1>4. proc.on /\ proc.todo = {}
    BY <1>1 DEF Inv, After
  <1>5. mode = "frontmatter" => Scanning
    BY <1>1 DEF After
  <1>6. mode # "frontmatter" => Owing /\ (hosted <=> proc.home) /\ (proc.home => ~proc.dirty)
    BY <1>1 DEF After, Owing
  <1>7. ~proc.home => ledger.live = Nowhere
    BY <1>2, <1>5, <1>6 DEF Unhosted, Owing
  <1>8. QED
    BY <1>1, <1>2, <1>3, <1>4, <1>5, <1>6, <1>7, LivesFacts

\* What an operation does that commits with process p, the registry's write in
\* the set with the files.
LEMMA CommitFacts ==
    ASSUME Inv, proc.at = "op", NEW p \in Process, NEW files, Commit(p, files),
           p.on, p.cmd = proc.cmd, p.home = proc.home, p.todo = {},
           IF proc.cmd = "fix" THEN p.at = "op" /\ (p.dirty => p.applied) ELSE p.at = "persist",
           ~p.dirty => ~proc.dirty /\ p.live = proc.live,
           mode' = mode, hosted' = hosted
    PROVE  /\ Commits
           /\ file' = files
           /\ proc' \in Process /\ proc'.live = p.live
           /\ ledger' \in [live : Lives, retired : SUBSET Id]
           /\ proc'.dirty = (p.dirty /\ ~p.home)
  <1>1. TypeOK /\ (proc.home => hosted /\ ~proc.dirty /\ ledger.live = proc.live)
    BY AtWork DEF Owing, Scanning
  <1>2. file' = files /\ proc' = [p EXCEPT !.dirty = p.dirty /\ ~p.home]
    BY DEF Commit
  <1>3. ledger' = IF p.home /\ p.dirty THEN [live |-> p.live, retired |-> p.retired] ELSE ledger
    BY DEF Commit
  <1>4. /\ proc' \in Process
        /\ proc'.on = p.on /\ proc'.cmd = p.cmd /\ proc'.at = p.at /\ proc'.live = p.live
        /\ proc'.home = p.home /\ proc'.todo = p.todo /\ proc'.applied = p.applied
        /\ proc'.dirty = (p.dirty /\ ~p.home)
        /\ p.home \in BOOLEAN /\ p.dirty \in BOOLEAN
    BY <1>2 DEF Process
  <1>a. p.live \in Lives /\ p.retired \in SUBSET Id
    BY DEF Process
  <1>b. ledger \in [live : Lives, retired : SUBSET Id]
    BY <1>1 DEF TypeOK
  <1>5. ledger' \in [live : Lives, retired : SUBSET Id]
    <2>1. CASE p.home /\ p.dirty
      <3>1. ledger' = [live |-> p.live, retired |-> p.retired]
        BY <2>1, <1>3
      <3>2. QED
        BY <3>1, <1>a
    <2>2. CASE ~(p.home /\ p.dirty)
      BY <2>2, <1>b, <1>3
    <2>3. QED
      BY <2>1, <2>2
  <1>6. proc.home => ~proc'.dirty /\ ledger'.live = proc'.live
    <2>1. CASE p.home /\ p.dirty
      <3>1. ledger' = [live |-> p.live, retired |-> p.retired]
        BY <2>1, <1>3
      <3>2. QED
        BY <3>1, <2>1, <1>4
    <2>2. CASE p.home /\ ~p.dirty
      <3>1. ledger' = ledger
        BY <2>2, <1>3
      <3>2. QED
        BY <3>1, <2>2, <1>1, <1>4
    <2>3. QED
      BY <2>1, <2>2
  <1>7. ~proc.home => ledger' = ledger
    BY <1>3
  <1>8. QED
    BY <1>2, <1>4, <1>5, <1>6, <1>7 DEF Commits

\* A function with more values, or other ones.
LEMMA GivenFacts ==
    ASSUME NEW f, NEW S, NEW v
    PROVE  /\ DOMAIN Given(f, S, v) = S \cup DOMAIN f
           /\ \A x \in S : Given(f, S, v)[x] = v
           /\ \A x \in DOMAIN f : x \notin S => Given(f, S, v)[x] = f[x]
  BY DEF Given

\* Its values are of a set that has the old ones and the new one.
LEMMA GivenTypes ==
    ASSUME NEW T, NEW f, f \in [DOMAIN f -> T], NEW S, NEW v, S = {} \/ v \in T
    PROVE  Given(f, S, v) \in [S \cup DOMAIN f -> T]
  BY DEF Given

\* As a map of ids to places, it is one still.
LEMMA GivenLives ==
    ASSUME NEW f \in Lives, NEW S \in SUBSET Id, NEW l \in Place
    PROVE  Given(f, S, l) \in Lives
  <1>1. DOMAIN f \subseteq Id /\ f \in [DOMAIN f -> Place]
    BY LivesFacts
  <1>2. Given(f, S, l) \in [S \cup DOMAIN f -> Place]
    BY <1>1, GivenTypes
  <1>3. QED
    BY <1>1, <1>2, GivenFacts, LivesFacts

\* Types, after a commit.
LEMMA CommitTypes ==
    ASSUME TypeOK, Commits, proc' \in Process, ledger' \in [live : Lives, retired : SUBSET Id],
           file' \in [DOMAIN file' -> Document], DOMAIN file' \subseteq Place,
           binned' \in [DOMAIN binned' -> SUBSET Id], DOMAIN binned' \subseteq Path,
           owner' \in [DOMAIN owner' -> Nat], DOMAIN owner' \subseteq Id,
           lost' = lost, made' \in Nat
    PROVE  TypeOK'
  BY DEF TypeOK, Commits

\* What an operation leaves true that gives the document at l, an old one or a
\* new one, the id i, and lets documents cite it.
LEMMA NamingKeeps ==
    ASSUME Inv, proc.at = "op", NEW l \in Out, NEW i \in Id,
           DOMAIN file' = {l} \cup DOMAIN file,
           \A k \in DOMAIN file :
              /\ file'[k].key = file[k].key /\ file'[k].stamp = file[k].stamp
              /\ file'[k].cites \subseteq file[k].cites \cup {i},
           l \in DOMAIN file => made' = made,
           l \notin DOMAIN file =>
              /\ made' = made + 1 /\ file'[l].key = made'
              /\ file'[l].stamp = None /\ file'[l].cites = {},
           DOMAIN proc'.live = {i} \cup DOMAIN proc.live, proc'.live[i] = l,
           \A j \in DOMAIN proc.live : j # i => proc'.live[j] = proc.live[j],
           \A j \in DOMAIN proc.live : proc.live[j] = l => j = i,
           DOMAIN owner' = {i} \cup DOMAIN owner, owner'[i] = file'[l].key,
           \A j \in DOMAIN owner : owner'[j] = owner[j],
           binned' = binned, lost' = lost, mode' = mode
    PROVE  /\ FilesInv' /\ BinInv' /\ Faithful(proc.live)' /\ Reaches(proc.live)'
           /\ mode = "frontmatter" =>
                 \A k \in DOMAIN file' \cap Out : file'[k].stamp # None =>
                    file'[k].stamp \in DOMAIN proc'.live /\ proc'.live[file'[k].stamp] = k
  <1>1. /\ TypeOK /\ FilesInv /\ BinInv /\ Faithful(proc.live) /\ Reaches(proc.live)
        /\ mode = "frontmatter" => Scanning
    BY AtWork DEF After
  <1>2. made \in Nat /\ \A k \in DOMAIN file : file[k].key \in Nat
    BY <1>1 DEF TypeOK, Document
  <1>3. \A k \in DOMAIN file : file[k].key <= made /\ file[k].cites \subseteq DOMAIN owner
    BY <1>1 DEF FilesInv
  <1>4. \A j \in DOMAIN owner : owner[j] <= made
    BY <1>1 DEF FilesInv
  <1>5. /\ l \notin DOMAIN file => \A k \in DOMAIN file : file[k].key # file'[l].key
        /\ l \notin DOMAIN file => \A j \in DOMAIN owner : j # i => owner'[j] # file'[l].key
    BY <1>1, <1>2, <1>3, <1>4 DEF TypeOK
  <1>6. \A k, m \in DOMAIN file' : file'[k].key = file'[m].key => k = m
    BY <1>1, <1>5 DEF FilesInv
  <1>7. FilesInv'
    <2>1. \A k \in DOMAIN file' : file'[k].key <= made'
      BY <1>2, <1>3
    <2>2. \A k \in DOMAIN file' : file'[k].cites \subseteq DOMAIN owner'
      BY <1>3
    <2>3. \A k \in DOMAIN file' : file'[k].stamp # None =>
             file'[k].stamp \in DOMAIN owner' /\ owner'[file'[k].stamp] = file'[k].key
      BY <1>1 DEF FilesInv
    <2>4. \A j \in DOMAIN owner' : owner'[j] <= made'
      <3>1. owner'[i] <= made'
        BY <2>1
      <3>2. \A j \in DOMAIN owner : owner'[j] \in Nat
        BY <1>1 DEF TypeOK
      <3>3. QED
        BY <3>1, <3>2, <1>2, <1>4
    <2>5. QED
      BY <1>6, <2>1, <2>2, <2>3, <2>4 DEF FilesInv
  <1>8. \A p \in Path : InBin(p) # l
    BY PlacesApart
  <1>9. BinInv'
    <2>1. \A p \in Path : p \in DOMAIN binned' <=> InBin(p) \in DOMAIN file'
      BY <1>1, <1>8 DEF BinInv
    <2>2. ASSUME NEW p \in DOMAIN binned
          PROVE  /\ p \in Path /\ InBin(p) \in DOMAIN file
                 /\ file'[InBin(p)].key = file[InBin(p)].key
                 /\ file'[InBin(p)].stamp = file[InBin(p)].stamp
                 /\ owner'[i] # file'[InBin(p)].key
      <3>1. p \in Path /\ InBin(p) \in DOMAIN file
        BY <1>1 DEF BinInv, TypeOK
      <3>2. QED
        BY <3>1, <1>6, <1>8
    <2>3. ASSUME NEW p \in DOMAIN binned', NEW k \in DOMAIN file', NEW j \in file'[k].cites \ lost',
                 owner'[j] = file'[InBin(p)].key
          PROVE  j \in binned'[p]
      <3>1. j # i
        BY <2>2, <2>3
      <3>2. k \in DOMAIN file /\ j \in file[k].cites \ lost
        BY <3>1
      <3>3. owner'[j] = owner[j]
        BY <3>2, <1>3
      <3>4. QED
        BY <2>2, <2>3, <3>2, <3>3, <1>1 DEF BinInv
    <2>4. \A p \in DOMAIN binned' : \A j \in binned'[p] :
             j \in DOMAIN owner' /\ owner'[j] = file'[InBin(p)].key
      BY <2>2, <1>1 DEF BinInv
    <2>5. \A p \in DOMAIN binned' : \A j, m \in binned'[p] : j = m
      BY <1>1 DEF BinInv
    <2>6. \A p \in DOMAIN binned' : mode' = "frontmatter" => file'[InBin(p)].stamp \in binned'[p] \cup {None}
      BY <2>2, <1>1 DEF BinInv
    <2>7. QED
      BY <2>1, <2>3, <2>4, <2>5, <2>6 DEF BinInv
  <1>10. Faithful(proc.live)'
    <2>1. ASSUME NEW j \in DOMAIN proc'.live
          PROVE  /\ j \in DOMAIN owner' /\ proc'.live[j] \in DOMAIN file'
                 /\ file'[proc'.live[j]].key = owner'[j]
                 /\ \A p \in Path : proc'.live[j] = InBin(p) => j \in binned'[p]
      <3>1. CASE j = i
        BY <3>1, <1>8
      <3>2. CASE j # i
        <4>1. /\ j \in DOMAIN owner /\ proc.live[j] \in DOMAIN file
              /\ file[proc.live[j]].key = owner[j]
              /\ \A p \in Path : proc.live[j] = InBin(p) => j \in binned[p]
          BY <3>2, <1>1 DEF Faithful
        <4>2. proc'.live[j] = proc.live[j]
          BY <3>2
        <4>3. QED
          BY <4>1, <4>2
      <3>3. QED
        BY <3>1, <3>2
    <2>2. \A j, m \in DOMAIN proc'.live : proc'.live[j] = proc'.live[m] => j = m
      BY <1>1 DEF Faithful
    <2>3. QED
      BY <2>1, <2>2 DEF Faithful
  <1>11. Reaches(proc.live)'
    <2> SUFFICES ASSUME NEW k \in DOMAIN file', NEW j \in file'[k].cites \ lost',
                        j \notin DOMAIN proc'.live, NEW m \in DOMAIN file' \cap Out
                 PROVE  file'[m].key # owner'[j]
      BY DEF Reaches
    <2>1. j # i /\ j \notin DOMAIN proc.live /\ k \in DOMAIN file /\ j \in file[k].cites \ lost
      OBVIOUS
    <2>2. j \in DOMAIN owner /\ owner'[j] = owner[j]
      BY <2>1, <1>3
    <2>3. CASE m \in DOMAIN file
      BY <2>1, <2>2, <2>3, <1>1 DEF Reaches
    <2>4. CASE m \notin DOMAIN file
      BY <2>1, <2>2, <2>4, <1>5
    <2>5. QED
      BY <2>3, <2>4
  <1>12. ASSUME mode = "frontmatter", NEW k \in DOMAIN file' \cap Out, file'[k].stamp # None
         PROVE  file'[k].stamp \in DOMAIN proc'.live /\ proc'.live[file'[k].stamp] = k
    <2>1. k \in DOMAIN file /\ file'[k].stamp = file[k].stamp
      BY <1>12
    <2>2. file[k].stamp \in DOMAIN proc.live /\ proc.live[file[k].stamp] = k
      BY <1>12, <2>1, <1>1 DEF Scanning
    <2>3. file[k].stamp \in DOMAIN owner /\ owner[file[k].stamp] = file[k].key
      BY <2>1, <1>12, <1>1 DEF FilesInv
    <2>4. file[k].stamp = i => k = l
      BY <2>1, <2>3, <1>6
    <2>5. QED
      BY <2>1, <2>2, <2>4
  <1>13. QED
    BY <1>7, <1>9, <1>10, <1>11, <1>12

\* A new document, linked by id from the one at by.
LEMMA NewStep ==
    ASSUME Inv, NEW by \in Out, NEW l \in Out, New(by, l)
    PROVE  Inv'
  <1> PICK i \in Id \ DOMAIN owner :
        /\ owner' = Given(owner, {i}, made')
        /\ Commit([Next1 EXCEPT !.live = Given(@, {i}, l), !.dirty = TRUE],
                  [Given(file, {l}, Doc(made')) EXCEPT ![by].cites = @ \cup {i}])
    BY DEF New
  <1> DEFINE p == [Next1 EXCEPT !.live = Given(@, {i}, l), !.dirty = TRUE]
             files == [Given(file, {l}, Doc(made')) EXCEPT ![by].cites = @ \cup {i}]
  <1>1. /\ proc.at = "op" /\ proc.cmd = "new" /\ by \in DOMAIN file /\ l \notin DOMAIN file
        /\ made' = made + 1 /\ mode' = mode /\ hosted' = hosted /\ binned' = binned
        /\ lost' = lost
    BY DEF New
  <1>2. /\ TypeOK /\ FilesInv /\ BinInv /\ After /\ Recorded
        /\ proc.on /\ proc.todo = {}
        /\ mode = "frontmatter" => Scanning /\ ~hosted
        /\ mode # "frontmatter" => Owing /\ (hosted <=> proc.home) /\ (proc.home => ~proc.dirty)
        /\ DOMAIN proc.live \subseteq Id /\ proc.live \in [DOMAIN proc.live -> Place]
    BY <1>1, AtWork
  <1>3. /\ Commits /\ file' = files
        /\ proc' \in Process /\ proc'.live = Given(proc.live, {i}, l)
        /\ ledger' \in [live : Lives, retired : SUBSET Id]
        /\ proc'.dirty = ~proc.home
    <2>1. /\ Next1 \in Process /\ proc.live \in Lives /\ Next1.on /\ Next1.todo = {}
          /\ Next1.cmd = proc.cmd /\ Next1.at = "persist" /\ Next1.live = proc.live
          /\ Next1.home = proc.home
      BY <1>2 DEF TypeOK, Next1, Process, Stages
    <2> DEFINE x == Given(Next1.live, {i}, l)
    <2>2. x \in Lives
      BY <2>1, GivenLives DEF Place
    <2>3. p = [Next1 EXCEPT !.live = x, !.dirty = TRUE]
      OBVIOUS
    <2>4. Commit(p, files)
      OBVIOUS
    <2> HIDE DEF p, x, files
    <2>5. /\ p \in Process /\ p.on /\ p.cmd = proc.cmd /\ p.at = "persist"
          /\ p.live = x /\ p.home = proc.home /\ p.todo = {} /\ p.dirty = TRUE
      BY <2>1, <2>2, <2>3 DEF Process
    <2>6. /\ Commits /\ file' = files /\ proc' \in Process /\ proc'.live = x
          /\ ledger' \in [live : Lives, retired : SUBSET Id]
          /\ proc'.dirty = ~proc.home
      BY <2>4, <2>5, <1>1, CommitFacts
    <2>7. x = Given(proc.live, {i}, l)
      BY <2>1 DEF x
    <2>8. QED
      BY <2>6, <2>7
  <1>4. /\ DOMAIN proc'.live = {i} \cup DOMAIN proc.live /\ proc'.live[i] = l
        /\ \A j \in DOMAIN proc.live : j # i => proc'.live[j] = proc.live[j]
    BY <1>3 DEF Given
  <1>5. /\ DOMAIN owner' = {i} \cup DOMAIN owner /\ owner'[i] = made + 1
        /\ \A j \in DOMAIN owner : owner'[j] = owner[j]
    BY <1>1 DEF Given
  <1>6. /\ DOMAIN file' = {l} \cup DOMAIN file
        /\ file'[l] = Doc(made + 1)
        /\ file'[by] = [file[by] EXCEPT !.cites = @ \cup {i}]
        /\ \A k \in DOMAIN file : k # by => file'[k] = file[k]
    <2> DEFINE g == Given(file, {l}, Doc(made + 1))
    <2>1. /\ DOMAIN g = {l} \cup DOMAIN file /\ g[l] = Doc(made + 1)
          /\ \A k \in DOMAIN file : k # l => g[k] = file[k]
      BY DEF Given
    <2>2. file' = [g EXCEPT ![by] = [g[by] EXCEPT !.cites = @ \cup {i}]]
      BY <1>1, <1>3
    <2> HIDE DEF g
    <2>3. QED
      BY <1>1, <2>1, <2>2
  <1>7. i \in Id /\ i \notin DOMAIN owner /\ l \in Place /\ made \in Nat
    BY <1>2 DEF TypeOK, Place
  <1>8. /\ file'[l].key = made + 1 /\ file'[l].stamp = None /\ file'[l].cites = {}
        /\ file'[by].key = file[by].key /\ file'[by].stamp = file[by].stamp
        /\ file'[by].cites = file[by].cites \cup {i}
    BY <1>1, <1>2, <1>6 DEF Doc, TypeOK, Document
  <1>9. TypeOK'
    <2>1. file' \in [DOMAIN file' -> Document] /\ DOMAIN file' \subseteq Place
      <3>1. Doc(made + 1) \in Document
        BY <1>7 DEF Doc, Document
      <3>2. [file[by] EXCEPT !.cites = @ \cup {i}] \in Document
        BY <1>1, <1>2, <1>7 DEF TypeOK, Document
      <3>3. \A k \in DOMAIN file' : file'[k] \in Document
        BY <3>1, <3>2, <1>2, <1>6 DEF TypeOK
      <3>4. file' = [k \in DOMAIN file' |-> file'[k]]
        <4> DEFINE g == Given(file, {l}, Doc(made'))
        <4>1. g = [k \in DOMAIN g |-> g[k]]
          BY DEF Given
        <4>2. file' = [g EXCEPT ![by].cites = @ \cup {i}]
          BY <1>3
        <4> HIDE DEF g
        <4>3. QED
          BY <4>1, <4>2
      <3>5. QED
        BY <3>3, <3>4, <1>2, <1>6, <1>7 DEF TypeOK
    <2>2. owner' \in [DOMAIN owner' -> Nat] /\ DOMAIN owner' \subseteq Id
      BY <1>1, <1>2, <1>7 DEF TypeOK, Given
    <2>3. binned' \in [DOMAIN binned' -> SUBSET Id] /\ DOMAIN binned' \subseteq Path
      BY <1>1, <1>2 DEF TypeOK
    <2>4. TypeOK /\ Commits /\ proc' \in Process /\ ledger' \in [live : Lives, retired : SUBSET Id]
      BY <1>2, <1>3
    <2>5. lost' = lost /\ made' \in Nat
      BY <1>1, <1>7
    <2>6. QED
      BY <2>1, <2>2, <2>3, <2>4, <2>5, CommitTypes
  <1>10. /\ FilesInv' /\ BinInv' /\ Faithful(proc.live)' /\ Reaches(proc.live)'
         /\ mode = "frontmatter" =>
               \A k \in DOMAIN file' \cap Out : file'[k].stamp # None =>
                  file'[k].stamp \in DOMAIN proc'.live /\ proc'.live[file'[k].stamp] = k
    <2>a. \A k \in DOMAIN file : k # by => file'[k] = file[k]
      BY <1>6
    <2>1. \A k \in DOMAIN file :
              /\ file'[k].key = file[k].key /\ file'[k].stamp = file[k].stamp
              /\ file'[k].cites \subseteq file[k].cites \cup {i}
      BY <2>a, <1>8
    <2>b. Faithful(proc.live)
      BY <1>2 DEF After
    <2>2. \A j \in DOMAIN proc.live : proc.live[j] # l
      BY <2>b, <1>1 DEF Faithful
    <2>c. DOMAIN file' = {l} \cup DOMAIN file
      BY <1>6
    <2>d. owner'[i] = file'[l].key /\ made' = made + 1 /\ file'[l].key = made'
      BY <1>1, <1>5, <1>8
    <2>e. /\ l \in DOMAIN file => made' = made
          /\ l \notin DOMAIN file =>
                /\ made' = made + 1 /\ file'[l].key = made'
                /\ file'[l].stamp = None /\ file'[l].cites = {}
      BY <1>1, <1>8, <2>d
    <2>f. \A j \in DOMAIN proc.live : proc.live[j] = l => j = i
      BY <2>2
    <2>3. QED
      BY <1>1, <1>4, <1>5, <1>7, <2>1, <2>c, <2>d, <2>e, <2>f, NamingKeeps
  <1>14. mode # "frontmatter" => proc.home
    BY <1>1, <1>2 DEF Owing, Authors
  <1>15. mode = "frontmatter" => Scanning'
    <2>1. mode = "frontmatter" => proc'.at = "persist" /\ ~proc'.home
      BY <1>1, <1>2, <1>3 DEF Commits, Scanning
    <2>2. QED
      BY <1>10, <2>1 DEF Scanning
  <1>16. QED
    BY <1>3, <1>9, <1>10, <1>14, <1>15, CommitKeeps

\* A link by id, from adopt or from a fix.
LEMMA CiteStep ==
    ASSUME Inv, proc.at = "op", proc.cmd \in Authors \cup {"fix"},
           NEW q \in Process, q.on, q.cmd = proc.cmd, q.home = proc.home, q.todo = {},
           q.live = proc.live, q.dirty = proc.dirty,
           IF proc.cmd = "fix" THEN q.at = "op" /\ q.applied ELSE q.at = "persist",
           NEW by \in Out, NEW l \in Out, Cite(q, by, l)
    PROVE  Inv'
  <1> PICK i \in IdFor(q, l) :
        /\ owner' = IF i \in DOMAIN owner THEN owner ELSE Given(owner, {i}, file[l].key)
        /\ Commit(Registered(q, i, l), [file EXCEPT ![by].cites = @ \cup {i}])
    BY DEF Cite, Author
  <1> DEFINE p == Registered(q, i, l)
             files == [file EXCEPT ![by].cites = @ \cup {i}]
  <1>1. /\ by \in DOMAIN file /\ l \in DOMAIN file /\ by # l
        /\ made' = made /\ mode' = mode /\ hosted' = hosted /\ binned' = binned /\ lost' = lost
    BY DEF Cite
  <1>2. Recorded /\ After /\ TypeOK /\ FilesInv /\ BinInv
    BY AtWork
  <1>3. /\ mode = "frontmatter" => Scanning /\ ~hosted
        /\ mode # "frontmatter" => Owing /\ (hosted <=> proc.home)
        /\ DOMAIN proc.live \subseteq Id
        /\ Faithful(proc.live)
        /\ proc.live \in Lives
    BY <1>2, AtWork DEF After, TypeOK, Process
  <1>4. /\ i \in Id
        /\ p \in Process /\ p.on = q.on /\ p.cmd = q.cmd /\ p.at = q.at /\ p.home = q.home
        /\ p.todo = q.todo /\ p.applied = q.applied
        /\ ~p.dirty => ~proc.dirty /\ p.live = proc.live
        /\ DOMAIN p.live = {i} \cup DOMAIN proc.live /\ p.live[i] = l
        /\ \A j \in DOMAIN proc.live : j # i => p.live[j] = proc.live[j]
        /\ \A j \in DOMAIN proc.live : proc.live[j] = l => j = i
        /\ DOMAIN owner' = {i} \cup DOMAIN owner /\ owner'[i] = file[l].key
        /\ \A j \in DOMAIN owner : owner'[j] = owner[j]
        /\ owner' \in [DOMAIN owner' -> Nat]
    <2>1. CASE IdsAt(q, l) # {}
      <3>1. i \in DOMAIN proc.live /\ proc.live[i] = l
        BY <2>1 DEF IdFor, IdsAt
      <3>2. p = q
        BY <2>1 DEF Registered
      <3>3. i \in DOMAIN owner /\ owner[i] = file[l].key
        BY <3>1, <1>3 DEF Faithful
      <3>4. owner' = owner
        BY <3>3
      <3>5. \A j \in DOMAIN proc.live : proc.live[j] = l => j = i
        BY <3>1, <1>3 DEF Faithful
      <3>6. owner \in [DOMAIN owner -> Nat]
        BY <1>2 DEF TypeOK
      <3> HIDE DEF p
      <3>7. QED
        BY <3>1, <3>2, <3>3, <3>4, <3>5, <3>6, <1>3
    <2>2. CASE IdsAt(q, l) = {}
      <3> DEFINE x == Given(q.live, {i}, l)
      <3>1. i \in Id /\ i \notin DOMAIN owner
        BY <2>2 DEF IdFor
      <3>2. p = [q EXCEPT !.live = x, !.dirty = TRUE]
        BY <2>2 DEF Registered
      <3>3. \A j \in DOMAIN proc.live : proc.live[j] # l
        BY <2>2 DEF IdsAt
      <3>4. owner' = Given(owner, {i}, file[l].key)
        BY <3>1
      <3>5. x \in Lives
        BY <3>1, <1>3, GivenLives DEF Place
      <3>6. /\ DOMAIN x = {i} \cup DOMAIN proc.live /\ x[i] = l
            /\ \A j \in DOMAIN proc.live : j # i => x[j] = proc.live[j]
        BY DEF Given
      <3>7. /\ DOMAIN owner' = {i} \cup DOMAIN owner /\ owner'[i] = file[l].key
            /\ \A j \in DOMAIN owner : owner'[j] = owner[j]
        BY <3>1, <3>4 DEF Given
      <3>8. owner' \in [DOMAIN owner' -> Nat]
        BY <3>4, <1>1, <1>2 DEF TypeOK, Given, Document
      <3> HIDE DEF x, p
      <3>9. /\ p \in Process /\ p.on = q.on /\ p.cmd = q.cmd /\ p.at = q.at /\ p.home = q.home
            /\ p.todo = q.todo /\ p.applied = q.applied /\ p.dirty = TRUE /\ p.live = x
        BY <3>2, <3>5 DEF Process
      <3>10. QED
        BY <3>1, <3>3, <3>6, <3>7, <3>8, <3>9
    <2>3. QED
      BY <2>1, <2>2
  <1>5. Commit(p, files)
    OBVIOUS
  <1> HIDE DEF p, files
  <1>6. /\ Commits /\ file' = files
        /\ proc' \in Process /\ proc'.live = p.live
        /\ ledger' \in [live : Lives, retired : SUBSET Id]
    <2>1. IF proc.cmd = "fix" THEN p.at = "op" /\ (p.dirty => p.applied) ELSE p.at = "persist"
      BY <1>4
    <2>2. p \in Process /\ p.on /\ p.cmd = proc.cmd /\ p.home = proc.home /\ p.todo = {}
      BY <1>4
    <2>3. ~p.dirty => ~proc.dirty /\ p.live = proc.live
      BY <1>4
    <2>4. QED
      BY <1>1, <1>5, <2>1, <2>2, <2>3, CommitFacts
  <1>7. file' \in [DOMAIN file' -> Document] /\ DOMAIN file' = DOMAIN file
    BY <1>1, <1>2, <1>4, <1>6 DEF files, TypeOK, Document
  <1>8. \A k \in DOMAIN file :
              /\ file'[k].key = file[k].key /\ file'[k].stamp = file[k].stamp
              /\ file'[k].cites \subseteq file[k].cites \cup {i}
    BY <1>1, <1>2, <1>6 DEF files, TypeOK, Document
  <1>9. TypeOK'
    <2>1. TypeOK /\ Commits /\ proc' \in Process /\ ledger' \in [live : Lives, retired : SUBSET Id]
      BY <1>2, <1>6
    <2>2. binned' \in [DOMAIN binned' -> SUBSET Id] /\ DOMAIN binned' \subseteq Path
      BY <1>1, <1>2 DEF TypeOK
    <2>3. DOMAIN owner' \subseteq Id /\ DOMAIN file' \subseteq Place /\ made' \in Nat
      BY <1>1, <1>2, <1>4, <1>7 DEF TypeOK
    <2>4. QED
      BY <1>1, <1>4, <1>7, <2>1, <2>2, <2>3, CommitTypes
  <1>10. /\ FilesInv' /\ BinInv' /\ Faithful(proc.live)' /\ Reaches(proc.live)'
         /\ mode = "frontmatter" =>
               \A k \in DOMAIN file' \cap Out : file'[k].stamp # None =>
                  file'[k].stamp \in DOMAIN proc'.live /\ proc'.live[file'[k].stamp] = k
    <2>1. DOMAIN file' = {l} \cup DOMAIN file
      BY <1>1, <1>7
    <2>2. owner'[i] = file'[l].key
      BY <1>1, <1>4, <1>8
    <2>3. /\ DOMAIN proc'.live = {i} \cup DOMAIN proc.live /\ proc'.live[i] = l
          /\ \A j \in DOMAIN proc.live : j # i => proc'.live[j] = proc.live[j]
      BY <1>4, <1>6
    <2>4. QED
      BY <1>1, <1>4, <1>8, <2>1, <2>2, <2>3, NamingKeeps
  <1>11. mode # "frontmatter" /\ ~proc.home =>
            /\ proc.cmd \notin {"fix", "restore"} => proc'.live = Nowhere /\ ~proc'.dirty
            /\ ~hosted => \A b \in DOMAIN binned' : binned'[b] = {}
    BY <1>1, <1>2, <1>3 DEF Owing, Recorded, Unhosted
  <1>12. mode = "frontmatter" => Scanning'
    <2> SUFFICES ASSUME mode = "frontmatter" PROVE Scanning'
      OBVIOUS
    <2>1. ~proc'.home /\ proc'.at # "over"
      BY <1>3, <1>6 DEF Commits, Scanning
    <2>2. ASSUME proc'.at = "op", ~proc'.dirty PROVE StampedAs(proc.live, DOMAIN proc.live)'
      <3>1. ~proc.dirty /\ proc'.live = proc.live
        BY <2>2, <1>3, <1>6 DEF Commits, Scanning
      <3>2. StampedAs(proc.live, DOMAIN proc.live)
        BY <3>1, <1>3 DEF Scanning
      <3>3. QED
        BY <3>1, <3>2, <1>7, <1>8 DEF StampedAs
    <2>3. QED
      BY <1>10, <2>1, <2>2 DEF Scanning
  <1>13. QED
    BY <1>6, <1>9, <1>10, <1>11, <1>12, CommitKeeps

\* Adopting, and the fixes that link.
LEMMA LinkStep ==
    ASSUME Inv, NEW by \in Out, NEW l \in Out, Adopt(by, l) \/ FixLink(by, l)
    PROVE  Inv'
  <1>1. proc.at = "op" /\ proc \in Process /\ proc.on /\ proc.todo = {}
    BY AtWork DEF Adopt, FixLink, Fixing, TypeOK
  <1>2. CASE Adopt(by, l)
    <2>1. proc.cmd = "adopt" /\ Cite(Next1, by, l)
      BY <1>2 DEF Adopt
    <2>2. /\ Next1 \in Process /\ Next1.on /\ Next1.cmd = proc.cmd /\ Next1.home = proc.home
          /\ Next1.todo = {} /\ Next1.live = proc.live /\ Next1.dirty = proc.dirty
          /\ Next1.at = "persist"
      BY <1>1 DEF Next1, Process, Stages
    <2>3. QED
      BY <1>1, <2>1, <2>2, CiteStep DEF Authors
  <1>3. CASE FixLink(by, l)
    <2> DEFINE q == [proc EXCEPT !.applied = TRUE]
    <2>1. proc.cmd = "fix" /\ Cite(q, by, l)
      BY <1>3 DEF FixLink, Fixing
    <2>2. /\ q \in Process /\ q.on /\ q.cmd = proc.cmd /\ q.home = proc.home
          /\ q.todo = {} /\ q.live = proc.live /\ q.dirty = proc.dirty
          /\ q.at = "op" /\ q.applied
      BY <1>1 DEF Process
    <2> HIDE DEF q
    <2>3. QED
      BY <1>1, <2>1, <2>2, CiteStep
  <1>4. QED
    BY <1>2, <1>3

\* The command id, which commits nothing.
LEMMA TakeIdStep ==
    ASSUME Inv, NEW l \in Out, TakeId(l)
    PROVE  Inv'
  <1> PICK i \in IdFor(proc, l) :
        /\ owner' = IF i \in DOMAIN owner THEN owner ELSE Given(owner, {i}, file[l].key)
        /\ proc' = Registered(Next1, i, l)
    BY DEF TakeId
  <1>1. /\ proc.at = "op" /\ proc.cmd = "id" /\ l \in DOMAIN file
        /\ UNCHANGED <<file, mode, hosted, ledger, binned, ended, lost, made>>
    BY DEF TakeId
  <1>2. Recorded /\ After /\ TypeOK /\ FilesInv /\ BinInv
    BY <1>1, AtWork
  <1>3. /\ mode = "frontmatter" => Scanning /\ ~hosted
        /\ mode # "frontmatter" => Owing /\ proc.home /\ hosted /\ ~proc.dirty /\ ledger.live = proc.live
        /\ ~proc.home => ledger.live = Nowhere
        /\ DOMAIN proc.live \subseteq Id
        /\ Faithful(proc.live) /\ Within(ledger.live, proc.live)
        /\ proc.live \in Lives
        /\ proc.on /\ proc.todo = {}
    BY <1>1, <1>2, AtWork DEF After, TypeOK, Process, Owing, Authors
  <1>4. /\ Next1 \in Process /\ Next1.on /\ Next1.cmd = "id" /\ Next1.home = proc.home
        /\ Next1.todo = {} /\ Next1.live = proc.live /\ Next1.dirty = proc.dirty
        /\ Next1.at = "persist"
    BY <1>1, <1>2, <1>3 DEF Next1, Process, Stages, TypeOK
  <1>5. /\ i \in Id
        /\ proc' \in Process /\ proc'.on /\ proc'.cmd = "id" /\ proc'.at = "persist"
        /\ proc'.home = proc.home /\ proc'.todo = {}
        /\ ~proc'.dirty => ~proc.dirty /\ proc'.live = proc.live
        /\ i \in DOMAIN proc.live \/ (\A k \in DOMAIN file : i \notin file[k].cites)
        /\ DOMAIN proc'.live = {i} \cup DOMAIN proc.live /\ proc'.live[i] = l
        /\ \A j \in DOMAIN proc.live : j # i => proc'.live[j] = proc.live[j]
        /\ \A j \in DOMAIN proc.live : proc.live[j] = l => j = i
        /\ DOMAIN owner' = {i} \cup DOMAIN owner /\ owner'[i] = file[l].key
        /\ \A j \in DOMAIN owner : owner'[j] = owner[j]
        /\ owner' \in [DOMAIN owner' -> Nat]
    <2>1. CASE IdsAt(proc, l) # {}
      <3>1. i \in DOMAIN proc.live /\ proc.live[i] = l
        BY <2>1 DEF IdFor, IdsAt
      <3>2. proc' = Next1
        BY <2>1, <1>4 DEF Registered, IdsAt
      <3>3. i \in DOMAIN owner /\ owner[i] = file[l].key
        BY <3>1, <1>3 DEF Faithful
      <3>4. owner' = owner
        BY <3>3
      <3>5. \A j \in DOMAIN proc.live : proc.live[j] = l => j = i
        BY <3>1, <1>3 DEF Faithful
      <3>6. owner \in [DOMAIN owner -> Nat]
        BY <1>2 DEF TypeOK
      <3>7. QED
        BY <3>1, <3>2, <3>3, <3>4, <3>5, <3>6, <1>3, <1>4
    <2>2. CASE IdsAt(proc, l) = {}
      <3> DEFINE x == Given(Next1.live, {i}, l)
      <3>1. i \in Id /\ i \notin DOMAIN owner
        BY <2>2 DEF IdFor
      <3>2. proc' = [Next1 EXCEPT !.live = x, !.dirty = TRUE]
        BY <2>2, <1>4 DEF Registered, IdsAt
      <3>3. \A j \in DOMAIN proc.live : proc.live[j] # l
        BY <2>2 DEF IdsAt
      <3>4. owner' = Given(owner, {i}, file[l].key)
        BY <3>1
      <3>5. x \in Lives
        BY <3>1, <1>3, <1>4, GivenLives DEF Place
      <3>6. /\ DOMAIN x = {i} \cup DOMAIN proc.live /\ x[i] = l
            /\ \A j \in DOMAIN proc.live : j # i => x[j] = proc.live[j]
        BY <1>4 DEF Given
      <3>7. /\ DOMAIN owner' = {i} \cup DOMAIN owner /\ owner'[i] = file[l].key
            /\ \A j \in DOMAIN owner : owner'[j] = owner[j]
        BY <3>1, <3>4 DEF Given
      <3>8. owner' \in [DOMAIN owner' -> Nat]
        BY <3>4, <1>1, <1>2 DEF TypeOK, Given, Document
      <3>9. \A k \in DOMAIN file : i \notin file[k].cites
        BY <3>1, <1>2 DEF FilesInv
      <3> HIDE DEF x
      <3>10. /\ proc' \in Process /\ proc'.on /\ proc'.cmd = "id" /\ proc'.at = "persist"
             /\ proc'.home = proc.home /\ proc'.todo = {} /\ proc'.dirty = TRUE /\ proc'.live = x
        BY <3>2, <3>5, <1>4 DEF Process
      <3>11. QED
        BY <3>1, <3>3, <3>6, <3>7, <3>8, <3>9, <3>10
    <2>3. QED
      BY <2>1, <2>2
  <1>6. TypeOK'
    BY <1>1, <1>2, <1>5 DEF TypeOK
  <1>7. /\ FilesInv' /\ BinInv' /\ Faithful(proc.live)' /\ Reaches(proc.live)'
        /\ mode = "frontmatter" =>
              \A k \in DOMAIN file' \cap Out : file'[k].stamp # None =>
                 file'[k].stamp \in DOMAIN proc'.live /\ proc'.live[file'[k].stamp] = k
    <2>1. /\ DOMAIN file' = {l} \cup DOMAIN file /\ owner'[i] = file'[l].key
          /\ \A k \in DOMAIN file :
              /\ file'[k].key = file[k].key /\ file'[k].stamp = file[k].stamp
              /\ file'[k].cites \subseteq file[k].cites \cup {i}
      BY <1>1, <1>5
    <2>2. /\ proc.at = "op" /\ l \in DOMAIN file /\ made' = made
          /\ binned' = binned /\ lost' = lost /\ mode' = mode
      BY <1>1
    <2>3. QED
      BY <1>5, <2>1, <2>2, NamingKeeps
  <1>8. Faithful(ledger.live)'
    <2>1. file' = file /\ ledger' = ledger /\ binned' = binned
      BY <1>1
    <2>2. \A j \in DOMAIN owner : j \in DOMAIN owner' /\ owner'[j] = owner[j]
      BY <1>5
    <2>3. Faithful(ledger.live)
      BY <1>2 DEF Recorded
    <2>4. QED
      BY <2>1, <2>2, <2>3 DEF Faithful
  <1>9. Recorded'
    BY <1>1, <1>2, <1>6, <1>7, <1>8 DEF Recorded, Unhosted
  <1>10. Within(ledger.live, proc.live)'
    <2>1. \A j \in DOMAIN ledger.live : j \in DOMAIN proc.live /\ proc.live[j] = ledger.live[j]
      BY <1>3 DEF Within
    <2>2. \A j \in DOMAIN proc.live : proc'.live[j] = proc.live[j]
      BY <1>3, <1>5, <1>7, <1>1 DEF Faithful, FilesInv
    <2>3. QED
      BY <1>1, <1>5, <2>1, <2>2 DEF Within
  <1>11. mode # "frontmatter" => Owing'
    <2>1. \A k \in DOMAIN file' : \A j \in file'[k].cites \cap DOMAIN proc'.live : j \in DOMAIN proc.live
      BY <1>1, <1>5
    <2> SUFFICES ASSUME mode # "frontmatter" PROVE Owing'
      OBVIOUS
    <2>2. proc'.home /\ hosted' /\ ledger'.live = proc.live /\ ~proc.dirty
      BY <1>1, <1>3, <1>5
    <2>3. QED
      BY <1>5, <2>1, <2>2 DEF Owing
  <1>12. mode = "frontmatter" => Scanning'
    BY <1>1, <1>3, <1>5, <1>7 DEF Scanning
  <1>13. After'
    BY <1>1, <1>5, <1>7, <1>10, <1>11, <1>12 DEF After
  <1>14. QED
    BY <1>5, <1>9, <1>13 DEF Inv

\* An id that check --fix finds in a document.
LEMMA FixRegisterStep ==
    ASSUME Inv, NEW l \in Out, FixRegister(l)
    PROVE  Inv'
  <1> DEFINE i == file[l].stamp
             x == Given(proc.live, {i}, l)
             p == [proc EXCEPT !.applied = TRUE, !.live = Given(@, {i}, l),
                               !.retired = @ \ {i}, !.dirty = TRUE]
  <1>1. /\ proc.at = "op" /\ proc.cmd = "fix" /\ l \in DOMAIN file
        /\ i \notin DOMAIN proc.live /\ i # None /\ IdsAt(proc, l) = {}
        /\ made' = made /\ mode' = mode /\ hosted' = hosted /\ binned' = binned
        /\ lost' = lost /\ owner' = owner
        /\ Commit(p, file)
    BY DEF FixRegister, Fixing
  <1>2. Recorded /\ After /\ TypeOK /\ FilesInv /\ BinInv
    BY <1>1, AtWork
  <1>3. /\ mode = "frontmatter" => Scanning /\ ~hosted
        /\ mode # "frontmatter" => Owing /\ (hosted <=> proc.home)
        /\ proc.live \in Lives /\ proc \in Process /\ proc.on /\ proc.todo = {}
    BY <1>1, <1>2, AtWork DEF After, TypeOK, Process
  <1>4. i \in Id /\ i \in DOMAIN owner /\ owner[i] = file[l].key
    BY <1>1, <1>2 DEF TypeOK, FilesInv
  <1>5. x \in Lives
    BY <1>3, <1>4, GivenLives DEF Place
  <1>6. /\ DOMAIN x = {i} \cup DOMAIN proc.live /\ x[i] = l
        /\ \A j \in DOMAIN proc.live : j # i => x[j] = proc.live[j]
    BY DEF Given
  <1>7. p = [proc EXCEPT !.applied = TRUE, !.live = x, !.retired = @ \ {i}, !.dirty = TRUE]
    OBVIOUS
  <1>8. \A j \in DOMAIN proc.live : proc.live[j] # l
    BY <1>1 DEF IdsAt
  <1> HIDE DEF x, p, i
  <1>9. /\ p \in Process /\ p.on /\ p.cmd = proc.cmd /\ p.at = "op" /\ p.home = proc.home
        /\ p.todo = {} /\ p.applied = TRUE /\ p.dirty = TRUE /\ p.live = x
    BY <1>1, <1>3, <1>5, <1>7 DEF Process
  <1>10. /\ Commits /\ file' = file /\ proc' \in Process /\ proc'.live = x
         /\ ledger' \in [live : Lives, retired : SUBSET Id] /\ proc'.dirty = (p.dirty /\ ~p.home)
    <2>1. IF proc.cmd = "fix" THEN p.at = "op" /\ (p.dirty => p.applied) ELSE p.at = "persist"
      BY <1>1, <1>9
    <2>2. QED
      BY <1>1, <1>9, <2>1, CommitFacts
  <1>11. TypeOK'
    <2>1. /\ file' \in [DOMAIN file' -> Document] /\ DOMAIN file' \subseteq Place
          /\ binned' \in [DOMAIN binned' -> SUBSET Id] /\ DOMAIN binned' \subseteq Path
          /\ owner' \in [DOMAIN owner' -> Nat] /\ DOMAIN owner' \subseteq Id
          /\ made' \in Nat
      BY <1>1, <1>2, <1>10 DEF TypeOK
    <2>2. QED
      BY <1>1, <1>2, <1>10, <2>1, CommitTypes
  <1>12. /\ FilesInv' /\ BinInv' /\ Faithful(proc.live)' /\ Reaches(proc.live)'
         /\ mode = "frontmatter" =>
               \A k \in DOMAIN file' \cap Out : file'[k].stamp # None =>
                  file'[k].stamp \in DOMAIN proc'.live /\ proc'.live[file'[k].stamp] = k
    <2>1. /\ DOMAIN file' = {l} \cup DOMAIN file /\ owner'[i] = file'[l].key
          /\ \A k \in DOMAIN file :
              /\ file'[k].key = file[k].key /\ file'[k].stamp = file[k].stamp
              /\ file'[k].cites \subseteq file[k].cites \cup {i}
      BY <1>1, <1>4, <1>10
    <2>2. /\ DOMAIN proc'.live = {i} \cup DOMAIN proc.live /\ proc'.live[i] = l
          /\ \A j \in DOMAIN proc.live : j # i => proc'.live[j] = proc.live[j]
      BY <1>6, <1>10
    <2>3. DOMAIN owner' = {i} \cup DOMAIN owner /\ \A j \in DOMAIN owner : owner'[j] = owner[j]
      BY <1>1, <1>4
    <2>4. /\ proc.at = "op" /\ l \in DOMAIN file /\ made' = made
          /\ binned' = binned /\ lost' = lost /\ mode' = mode
      BY <1>1
    <2>5. \A j \in DOMAIN proc.live : proc.live[j] = l => j = i
      BY <1>8
    <2>6. QED
      BY <1>4, <2>1, <2>2, <2>3, <2>4, <2>5, NamingKeeps
  <1>13. mode # "frontmatter" /\ ~proc.home =>
            /\ proc.cmd \notin {"fix", "restore"} => proc'.live = Nowhere /\ ~proc'.dirty
            /\ ~hosted => \A b \in DOMAIN binned' : binned'[b] = {}
    BY <1>1, <1>2 DEF Recorded, Unhosted
  <1>14. mode = "frontmatter" => Scanning'
    <2> SUFFICES ASSUME mode = "frontmatter" PROVE Scanning'
      OBVIOUS
    <2>1. ~proc'.home /\ proc'.at # "over"
      BY <1>1, <1>3, <1>10 DEF Commits, Scanning
    <2>2. proc'.dirty
      BY <1>3, <1>9, <1>10 DEF Scanning
    <2>3. QED
      BY <1>12, <2>1, <2>2 DEF Scanning
  <1>15. QED
    BY <1>10, <1>11, <1>12, <1>13, <1>14, CommitKeeps

-----------------------------------------------------------------------------
(* A document that moves.                                                  *)

\* One file fewer.
LEMMA WithoutFacts ==
    ASSUME NEW l
    PROVE  /\ DOMAIN Without(l) = DOMAIN file \ {l}
           /\ \A k \in DOMAIN file : k # l => Without(l)[k] = file[k]
  BY DEF Without, Restrict

\* One file at another place.
LEMMA CarriedFacts ==
    ASSUME TypeOK, NEW l \in DOMAIN file, NEW to \in Place, to \notin DOMAIN file
    PROVE  /\ DOMAIN Carried(l, to) = (DOMAIN file \ {l}) \cup {to}
           /\ Carried(l, to)[to] = file[l]
           /\ \A k \in DOMAIN file : k # l => Carried(l, to)[k] = file[k]
           /\ Carried(l, to) \in [DOMAIN Carried(l, to) -> Document]
           /\ DOMAIN Carried(l, to) \subseteq Place
  <1> DEFINE f == Carried(l, to)
  <1>1. f = [x \in {to} \cup DOMAIN Without(l) |-> IF x \in {to} THEN file[l] ELSE Without(l)[x]]
    BY DEF Carried, Given
  <1>2. DOMAIN f = (DOMAIN file \ {l}) \cup {to} /\ f[to] = file[l]
    BY <1>1, WithoutFacts
  <1>3. \A k \in DOMAIN file : k # l => f[k] = file[k]
    BY <1>1, WithoutFacts
  <1>4. f = [x \in DOMAIN f |-> f[x]]
    BY <1>1
  <1> HIDE DEF f
  <1>5. \A x \in DOMAIN f : f[x] \in Document
    BY <1>2, <1>3 DEF TypeOK
  <1>6. f \in [DOMAIN f -> Document] /\ DOMAIN f \subseteq Place
    BY <1>2, <1>4, <1>5 DEF TypeOK
  <1>7. QED
    BY <1>2, <1>3, <1>6 DEF f

\* Every document is still what it was.
LEMMA CarriedKeeps ==
    ASSUME FilesInv, NEW l \in DOMAIN file, NEW to, to \notin DOMAIN file,
           DOMAIN file' = (DOMAIN file \ {l}) \cup {to}, file'[to] = file[l],
           \A k \in DOMAIN file : k # l => file'[k] = file[k],
           owner' = owner, made' = made
    PROVE  FilesInv'
  BY DEF FilesInv

\* A process that has opened the workspace and is about to persist.
LEMMA NextOne ==
    ASSUME TypeOK, proc.on, proc.todo = {}
    PROVE  /\ Next1 \in Process /\ Next1.on /\ Next1.cmd = proc.cmd /\ Next1.home = proc.home
           /\ Next1.todo = {} /\ Next1.live = proc.live /\ Next1.dirty = proc.dirty
           /\ Next1.at = "persist" /\ Next1.retired = proc.retired
  BY DEF Next1, Process, Stages, TypeOK

\* rename and reparent.
LEMMA MoveStep ==
    ASSUME Inv, NEW l \in Out, NEW to \in Out, Move(l, to)
    PROVE  Inv'
  <1> DEFINE p == Moved(Next1, l, to)
             x == [i \in DOMAIN proc.live |-> IF proc.live[i] = l THEN to ELSE proc.live[i]]
  <1>1. /\ proc.at = "op" /\ proc.cmd = "move" /\ l \in DOMAIN file /\ to \notin DOMAIN file
        /\ made' = made /\ mode' = mode /\ hosted' = hosted /\ binned' = binned
        /\ lost' = lost /\ owner' = owner
        /\ Commit(p, Carried(l, to))
    BY DEF Move
  <1>2. Recorded /\ After /\ TypeOK /\ FilesInv /\ BinInv
    BY <1>1, AtWork
  <1>3. /\ mode = "frontmatter" => Scanning /\ ~hosted
        /\ mode # "frontmatter" => Owing /\ (hosted <=> proc.home)
        /\ proc.live \in Lives /\ proc.on /\ proc.todo = {}
        /\ Faithful(proc.live) /\ Reaches(proc.live)
    BY <1>1, <1>2, AtWork DEF After, TypeOK, Process
  <1>4. /\ Next1 \in Process /\ Next1.on /\ Next1.cmd = proc.cmd /\ Next1.home = proc.home
        /\ Next1.todo = {} /\ Next1.live = proc.live /\ Next1.dirty = proc.dirty
        /\ Next1.at = "persist"
    BY <1>2, <1>3, NextOne
  <1>5. /\ DOMAIN x = DOMAIN proc.live /\ x \in Lives
        /\ \A i \in DOMAIN proc.live : x[i] = IF proc.live[i] = l THEN to ELSE proc.live[i]
    <2>1. DOMAIN proc.live \subseteq Id /\ proc.live \in [DOMAIN proc.live -> Place] /\ to \in Place
      BY <1>3, LivesFacts DEF Place
    <2>2. x \in [DOMAIN proc.live -> Place]
      BY <2>1
    <2>3. QED
      BY <2>1, <2>2, LivesFacts
  <1>6. p = [Next1 EXCEPT !.live = x, !.dirty = proc.dirty \/ IdsAt(Next1, l) # {}]
    BY <1>4 DEF Moved
  <1> HIDE DEF p, x
  <1>7. /\ p \in Process /\ p.on /\ p.cmd = proc.cmd /\ p.at = "persist" /\ p.home = proc.home
        /\ p.todo = {} /\ p.live = x /\ p.dirty = (proc.dirty \/ IdsAt(Next1, l) # {})
    BY <1>4, <1>5, <1>6 DEF Process
  <1>8. ~p.dirty => ~proc.dirty /\ p.live = proc.live
    <2> SUFFICES ASSUME ~p.dirty PROVE ~proc.dirty /\ p.live = proc.live
      OBVIOUS
    <2>1. ~proc.dirty /\ IdsAt(Next1, l) = {}
      BY <1>7
    <2>2. \A i \in DOMAIN proc.live : x[i] = proc.live[i]
      BY <2>1, <1>4, <1>5 DEF IdsAt
    <2>3. x = proc.live
      BY <2>2, <1>3, <1>5, LivesFacts
    <2>4. QED
      BY <2>1, <2>3, <1>7
  <1>9. /\ Commits /\ file' = Carried(l, to) /\ proc' \in Process /\ proc'.live = x
        /\ ledger' \in [live : Lives, retired : SUBSET Id] /\ proc'.dirty = (p.dirty /\ ~p.home)
    <2>1. IF proc.cmd = "fix" THEN p.at = "op" /\ (p.dirty => p.applied) ELSE p.at = "persist"
      BY <1>1, <1>7
    <2>2. QED
      BY <1>1, <1>7, <1>8, <2>1, CommitFacts
  <1>10. /\ DOMAIN file' = (DOMAIN file \ {l}) \cup {to} /\ file'[to] = file[l]
         /\ \A k \in DOMAIN file : k # l => file'[k] = file[k]
         /\ file' \in [DOMAIN file' -> Document] /\ DOMAIN file' \subseteq Place
    <2>1. to \in Place
      BY DEF Place
    <2>2. TypeOK /\ l \in DOMAIN file /\ to \notin DOMAIN file
      BY <1>1, <1>2
    <2> DEFINE f == Carried(l, to)
    <2>3. /\ DOMAIN f = (DOMAIN file \ {l}) \cup {to} /\ f[to] = file[l]
          /\ \A k \in DOMAIN file : k # l => f[k] = file[k]
          /\ f \in [DOMAIN f -> Document] /\ DOMAIN f \subseteq Place
      BY <2>1, <2>2, CarriedFacts
    <2>4. file' = f
      BY <1>9
    <2> HIDE DEF f
    <2>5. QED
      BY <2>3, <2>4
  <1>11. TypeOK'
    <2>1. /\ binned' \in [DOMAIN binned' -> SUBSET Id] /\ DOMAIN binned' \subseteq Path
          /\ owner' \in [DOMAIN owner' -> Nat] /\ DOMAIN owner' \subseteq Id
          /\ made' \in Nat
      BY <1>1, <1>2 DEF TypeOK
    <2>2. QED
      BY <1>1, <1>2, <1>9, <1>10, <2>1, CommitTypes
  <1>12. FilesInv'
    BY <1>1, <1>2, <1>10, CarriedKeeps
  <1>13. \A b \in Path : InBin(b) # l /\ InBin(b) # to
    BY PlacesApart
  <1>14. \A k \in DOMAIN file' : \A i \in file'[k].cites : \E m \in DOMAIN file : i \in file[m].cites
    BY <1>1, <1>10
  <1>15. BinInv'
    <2>1. \A b \in Path : b \in DOMAIN binned' <=> InBin(b) \in DOMAIN file'
      BY <1>1, <1>2, <1>10, <1>13 DEF BinInv
    <2>2. \A b \in DOMAIN binned : file'[InBin(b)] = file[InBin(b)]
      BY <1>2, <1>10, <1>13 DEF BinInv, TypeOK
    <2>3. QED
      BY <1>1, <1>2, <1>14, <2>1, <2>2 DEF BinInv
  <1>16. Faithful(proc.live)'
    <2>1. ASSUME NEW i \in DOMAIN proc'.live
          PROVE  /\ i \in DOMAIN owner' /\ proc'.live[i] \in DOMAIN file'
                 /\ file'[proc'.live[i]].key = owner'[i]
                 /\ \A b \in Path : proc'.live[i] = InBin(b) => i \in binned'[b]
      <3>1. /\ i \in DOMAIN owner /\ proc.live[i] \in DOMAIN file
            /\ file[proc.live[i]].key = owner[i]
            /\ \A b \in Path : proc.live[i] = InBin(b) => i \in binned[b]
        BY <1>3, <1>5, <1>9 DEF Faithful
      <3>2. proc'.live[i] = IF proc.live[i] = l THEN to ELSE proc.live[i]
        BY <1>5, <1>9
      <3>3. QED
        BY <3>1, <3>2, <1>1, <1>10, <1>13
    <2>2. \A i, j \in DOMAIN proc'.live : proc'.live[i] = proc'.live[j] => i = j
      BY <1>1, <1>3, <1>5, <1>9 DEF Faithful
    <2>3. QED
      BY <2>1, <2>2 DEF Faithful
  <1>17. Reaches(proc.live)'
    <2> SUFFICES ASSUME NEW k \in DOMAIN file', NEW i \in file'[k].cites \ lost',
                        i \notin DOMAIN proc'.live, NEW m \in DOMAIN file' \cap Out
                 PROVE  file'[m].key # owner'[i]
      BY DEF Reaches
    <2>1. i \notin DOMAIN proc.live
      BY <1>5, <1>9
    <2>2. PICK n \in DOMAIN file : i \in file[n].cites \ lost
      BY <1>1, <1>14
    <2>3. \A o \in DOMAIN file \cap Out : file[o].key # owner[i]
      BY <2>1, <2>2, <1>3 DEF Reaches
    <2>4. QED
      BY <2>3, <1>1, <1>10
  <1>18. mode # "frontmatter" /\ ~proc.home =>
            /\ proc.cmd \notin {"fix", "restore"} => proc'.live = Nowhere /\ ~proc'.dirty
            /\ ~hosted => \A b \in DOMAIN binned' : binned'[b] = {}
    <2> SUFFICES ASSUME mode # "frontmatter", ~proc.home
                 PROVE  /\ proc'.live = Nowhere /\ ~proc'.dirty
                        /\ ~hosted => \A b \in DOMAIN binned' : binned'[b] = {}
      OBVIOUS
    <2>1. DOMAIN proc.live = {} /\ ~proc.dirty
      BY <1>1, <1>3, NowhereFacts DEF Owing
    <2>2. proc'.live = Nowhere
      BY <2>1, <1>5, <1>9, NowhereIs
    <2>3. ~proc'.dirty
      BY <2>1, <1>4, <1>7, <1>9 DEF IdsAt
    <2>4. QED
      BY <2>2, <2>3, <1>1, <1>2 DEF Recorded, Unhosted
  <1>19. mode = "frontmatter" => Scanning'
    <2> SUFFICES ASSUME mode = "frontmatter" PROVE Scanning'
      OBVIOUS
    <2>1. ~proc'.home /\ proc'.at = "persist"
      BY <1>1, <1>3, <1>9 DEF Commits, Scanning
    <2>2. ASSUME NEW k \in DOMAIN file' \cap Out, file'[k].stamp # None
          PROVE  file'[k].stamp \in DOMAIN proc'.live /\ proc'.live[file'[k].stamp] = k
      <3>1. CASE k = to
        BY <3>1, <2>2, <1>1, <1>3, <1>5, <1>9, <1>10 DEF Scanning
      <3>2. CASE k # to
        BY <3>2, <2>2, <1>1, <1>3, <1>5, <1>9, <1>10 DEF Scanning
      <3>3. QED
        BY <3>1, <3>2
    <2>3. QED
      BY <2>1, <2>2 DEF Scanning
  <1>20. QED
    BY <1>9, <1>11, <1>12, <1>15, <1>16, <1>17, <1>18, <1>19, CommitKeeps

\* The ids at a place are retired.
LEMMA UnregisteredFacts ==
    ASSUME NEW q \in Process, NEW l
    PROVE  /\ Unregistered(q, l) \in Process
           /\ Unregistered(q, l).on = q.on /\ Unregistered(q, l).cmd = q.cmd
           /\ Unregistered(q, l).at = q.at /\ Unregistered(q, l).home = q.home
           /\ Unregistered(q, l).todo = q.todo
           /\ DOMAIN Unregistered(q, l).live = {i \in DOMAIN q.live : q.live[i] # l}
           /\ \A i \in DOMAIN Unregistered(q, l).live : Unregistered(q, l).live[i] = q.live[i]
           /\ Unregistered(q, l).dirty = (q.dirty \/ IdsAt(q, l) # {})
           /\ ~Unregistered(q, l).dirty => ~q.dirty /\ Unregistered(q, l).live = q.live
  <1> DEFINE r == Unregistered(q, l)
             S == DOMAIN q.live \ IdsAt(q, l)
             x == [i \in S |-> q.live[i]]
  <1>1. q.live \in Lives /\ q.retired \in SUBSET Id /\ q.dirty \in BOOLEAN
    BY DEF Process
  <1>2. DOMAIN q.live \subseteq Id /\ q.live \in [DOMAIN q.live -> Place]
    BY <1>1, LivesFacts
  <1>3. S = {i \in DOMAIN q.live : q.live[i] # l} /\ IdsAt(q, l) \subseteq Id
    BY <1>2 DEF IdsAt
  <1>4. x \in Lives
    <2>1. x \in [S -> Place] /\ S \subseteq Id
      BY <1>2
    <2>2. QED
      BY <2>1, LivesFacts
  <1>5. r = [q EXCEPT !.live = x, !.retired = q.retired \cup IdsAt(q, l),
                      !.dirty = q.dirty \/ IdsAt(q, l) # {}]
    BY DEF Unregistered, Restrict
  <1> DEFINE t == q.retired \cup IdsAt(q, l)
             d == q.dirty \/ IdsAt(q, l) # {}
  <1>6. t \in SUBSET Id /\ d \in BOOLEAN
    BY <1>1, <1>3
  <1>7. r = [q EXCEPT !.live = x, !.retired = t, !.dirty = d]
    BY <1>5
  <1>8. DOMAIN x = S /\ \A i \in S : x[i] = q.live[i]
    OBVIOUS
  <1>9. ~d => ~q.dirty /\ x = q.live
    <2> SUFFICES ASSUME ~d PROVE ~q.dirty /\ x = q.live
      OBVIOUS
    <2>1. ~q.dirty /\ S = DOMAIN q.live
      OBVIOUS
    <2>2. QED
      BY <2>1, <1>2
  <1>10. d = (q.dirty \/ IdsAt(q, l) # {})
    OBVIOUS
  <1> HIDE DEF r, x, t, d
  <1>11. /\ r \in Process /\ r.on = q.on /\ r.cmd = q.cmd /\ r.at = q.at /\ r.home = q.home
         /\ r.todo = q.todo /\ r.live = x /\ r.dirty = d
    BY <1>4, <1>6, <1>7 DEF Process
  <1> HIDE DEF S
  <1>12. /\ DOMAIN r.live = {i \in DOMAIN q.live : q.live[i] # l}
         /\ \A i \in DOMAIN r.live : r.live[i] = q.live[i]
         /\ r.dirty = (q.dirty \/ IdsAt(q, l) # {})
         /\ ~r.dirty => ~q.dirty /\ r.live = q.live
    BY <1>3, <1>8, <1>9, <1>10, <1>11
  <1>13. QED
    BY <1>11, <1>12 DEF r

\* What delete and recycle leave in memory: nothing of the document.
LEMMA RetiringKeeps ==
    ASSUME Inv, proc.at = "op", proc.cmd \notin Authors \cup {"fix"},
           NEW l \in Out, NEW files, Commit(Unregistered(Next1, l), files),
           mode' = mode, hosted' = hosted
    PROVE  /\ Commits /\ file' = files /\ proc' \in Process
           /\ ledger' \in [live : Lives, retired : SUBSET Id]
           /\ DOMAIN proc'.live = {i \in DOMAIN proc.live : proc.live[i] # l}
           /\ \A i \in DOMAIN proc'.live : proc'.live[i] = proc.live[i]
           /\ mode # "frontmatter" /\ ~proc.home => proc'.live = Nowhere /\ ~proc'.dirty
  <1> DEFINE p == Unregistered(Next1, l)
  <1>1. /\ TypeOK /\ proc.on /\ proc.todo = {} /\ proc.live \in Lives
        /\ mode # "frontmatter" /\ ~proc.home => proc.live = Nowhere /\ ~proc.dirty
    BY AtWork DEF Owing, TypeOK, Process
  <1>2. /\ Next1 \in Process /\ Next1.on /\ Next1.cmd = proc.cmd /\ Next1.home = proc.home
        /\ Next1.todo = {} /\ Next1.live = proc.live /\ Next1.dirty = proc.dirty
        /\ Next1.at = "persist"
    BY <1>1, NextOne
  <1>3. /\ p \in Process /\ p.on /\ p.cmd = proc.cmd /\ p.at = "persist" /\ p.home = proc.home
        /\ p.todo = {}
        /\ DOMAIN p.live = {i \in DOMAIN proc.live : proc.live[i] # l}
        /\ \A i \in DOMAIN p.live : p.live[i] = proc.live[i]
        /\ p.dirty = (proc.dirty \/ IdsAt(Next1, l) # {})
        /\ ~p.dirty => ~proc.dirty /\ p.live = proc.live
    BY <1>2, UnregisteredFacts
  <1>4. Commit(p, files)
    OBVIOUS
  <1> HIDE DEF p
  <1>5. /\ Commits /\ file' = files /\ proc' \in Process /\ proc'.live = p.live
        /\ ledger' \in [live : Lives, retired : SUBSET Id] /\ proc'.dirty = (p.dirty /\ ~p.home)
    <2>1. IF proc.cmd = "fix" THEN p.at = "op" /\ (p.dirty => p.applied) ELSE p.at = "persist"
      BY <1>3
    <2>2. p \in Process /\ p.on /\ p.cmd = proc.cmd /\ p.home = proc.home /\ p.todo = {}
      BY <1>3
    <2>3. ~p.dirty => ~proc.dirty /\ p.live = proc.live
      BY <1>3
    <2>4. QED
      BY <1>4, <2>1, <2>2, <2>3, CommitFacts
  <1>6. mode # "frontmatter" /\ ~proc.home => proc'.live = Nowhere /\ ~proc'.dirty
    <2> SUFFICES ASSUME mode # "frontmatter", ~proc.home
                 PROVE  proc'.live = Nowhere /\ ~proc'.dirty
      OBVIOUS
    <2>1. DOMAIN proc.live = {} /\ ~proc.dirty
      BY <1>1, NowhereFacts
    <2>2. proc'.live \in Lives
      BY <1>5 DEF Process
    <2>3. DOMAIN proc'.live = {}
      BY <2>1, <1>3, <1>5
    <2>4. ~proc'.dirty
      BY <2>1, <1>2, <1>3, <1>5 DEF IdsAt
    <2>5. QED
      BY <2>2, <2>3, <2>4, NowhereIs
  <1>7. QED
    BY <1>3, <1>5, <1>6

\* delete.
LEMMA RemoveStep ==
    ASSUME Inv, NEW l \in Out, Remove(l)
    PROVE  Inv'
  <1>1. /\ proc.at = "op" /\ proc.cmd = "remove" /\ l \in DOMAIN file
        /\ made' = made /\ mode' = mode /\ hosted' = hosted /\ binned' = binned
        /\ lost' = lost /\ owner' = owner
        /\ Commit(Unregistered(Next1, l), Without(l))
    BY DEF Remove
  <1>2. Recorded /\ After /\ TypeOK /\ FilesInv /\ BinInv
    BY <1>1, AtWork
  <1>3. /\ mode = "frontmatter" => Scanning
        /\ Faithful(proc.live) /\ Reaches(proc.live)
    BY <1>1, <1>2, AtWork DEF After
  <1>4. /\ Commits /\ file' = Without(l) /\ proc' \in Process
        /\ ledger' \in [live : Lives, retired : SUBSET Id]
        /\ DOMAIN proc'.live = {i \in DOMAIN proc.live : proc.live[i] # l}
        /\ \A i \in DOMAIN proc'.live : proc'.live[i] = proc.live[i]
        /\ mode # "frontmatter" /\ ~proc.home => proc'.live = Nowhere /\ ~proc'.dirty
    BY <1>1, RetiringKeeps DEF Authors
  <1>5. /\ DOMAIN file' = DOMAIN file \ {l}
        /\ \A k \in DOMAIN file : k # l => file'[k] = file[k]
    BY <1>4, WithoutFacts
  <1>6. TypeOK'
    <2>1. file' = [k \in DOMAIN file' |-> file'[k]]
      BY <1>4 DEF Without, Restrict
    <2>2. \A k \in DOMAIN file' : file'[k] \in Document
      BY <1>2, <1>5 DEF TypeOK
    <2>3. /\ file' \in [DOMAIN file' -> Document] /\ DOMAIN file' \subseteq Place
          /\ binned' \in [DOMAIN binned' -> SUBSET Id] /\ DOMAIN binned' \subseteq Path
          /\ owner' \in [DOMAIN owner' -> Nat] /\ DOMAIN owner' \subseteq Id
          /\ made' \in Nat
      BY <1>1, <1>2, <1>5, <2>1, <2>2 DEF TypeOK
    <2>4. QED
      BY <1>1, <1>2, <1>4, <2>3, CommitTypes
  <1>7. FilesInv'
    BY <1>1, <1>2, <1>5 DEF FilesInv
  <1>8. \A b \in Path : InBin(b) # l
    BY PlacesApart
  <1>9. BinInv'
    <2>1. \A b \in Path : b \in DOMAIN binned' <=> InBin(b) \in DOMAIN file'
      BY <1>1, <1>2, <1>5, <1>8 DEF BinInv
    <2>2. \A b \in DOMAIN binned : file'[InBin(b)] = file[InBin(b)]
      BY <1>2, <1>5, <1>8 DEF BinInv, TypeOK
    <2>3. \A k \in DOMAIN file' : k \in DOMAIN file /\ file'[k] = file[k]
      BY <1>5
    <2>4. QED
      BY <1>1, <1>2, <2>1, <2>2, <2>3 DEF BinInv
  <1>10. Faithful(proc.live)'
    BY <1>1, <1>3, <1>4, <1>5 DEF Faithful
  <1>11. Reaches(proc.live)'
    <2> SUFFICES ASSUME NEW k \in DOMAIN file', NEW i \in file'[k].cites \ lost',
                        i \notin DOMAIN proc'.live, NEW m \in DOMAIN file' \cap Out
                 PROVE  file'[m].key # owner'[i]
      BY DEF Reaches
    <2>1. k \in DOMAIN file /\ i \in file[k].cites \ lost /\ m \in DOMAIN file /\ m # l /\ file'[m] = file[m]
      BY <1>1, <1>5
    <2>2. CASE i \in DOMAIN proc.live
      <3>1. proc.live[i] = l
        BY <2>2, <1>4
      <3>2. file[l].key = owner[i]
        BY <2>2, <3>1, <1>3 DEF Faithful
      <3>3. QED
        BY <2>1, <3>2, <1>1, <1>2 DEF FilesInv
    <2>3. CASE i \notin DOMAIN proc.live
      BY <2>1, <2>3, <1>1, <1>3 DEF Reaches
    <2>4. QED
      BY <2>2, <2>3
  <1>12. mode # "frontmatter" /\ ~proc.home =>
            /\ proc.cmd \notin {"fix", "restore"} => proc'.live = Nowhere /\ ~proc'.dirty
            /\ ~hosted => \A b \in DOMAIN binned' : binned'[b] = {}
    BY <1>1, <1>2, <1>4 DEF Recorded, Unhosted
  <1>13. mode = "frontmatter" => Scanning'
    <2> SUFFICES ASSUME mode = "frontmatter" PROVE Scanning'
      OBVIOUS
    <2>1. ~proc'.home /\ proc'.at = "persist"
      BY <1>1, <1>3, <1>4 DEF Commits, Scanning
    <2>2. \A k \in DOMAIN file' \cap Out : file'[k].stamp # None =>
             file'[k].stamp \in DOMAIN proc'.live /\ proc'.live[file'[k].stamp] = k
      BY <1>3, <1>4, <1>5 DEF Scanning
    <2>3. QED
      BY <2>1, <2>2 DEF Scanning
  <1>14. QED
    BY <1>4, <1>6, <1>7, <1>9, <1>10, <1>11, <1>12, <1>13, CommitKeeps

\* recycle.
LEMMA RecycleStep ==
    ASSUME Inv, NEW p \in Path, Recycle(p)
    PROVE  Inv'
  <1> DEFINE l == Outside(p)
             to == InBin(p)
  <1>1. /\ proc.at = "op" /\ proc.cmd = "recycle" /\ l \in DOMAIN file /\ to \notin DOMAIN file
        /\ made' = made /\ mode' = mode /\ hosted' = hosted
        /\ lost' = lost /\ owner' = owner /\ binned' = Given(binned, {p}, IdsAt(proc, l))
        /\ Commit(Unregistered(Next1, l), Carried(l, to))
    BY DEF Recycle
  <1>2. Recorded /\ After /\ TypeOK /\ FilesInv /\ BinInv
    BY <1>1, AtWork
  <1>3. /\ mode = "frontmatter" => Scanning
        /\ Faithful(proc.live) /\ Reaches(proc.live) /\ proc.live \in Lives
    BY <1>1, <1>2, AtWork DEF After, TypeOK, Process
  <1>4. l \in Out /\ l \in Place /\ to \in Place /\ to \notin Out
    BY PlacesApart DEF Out
  <1>5. /\ Commits /\ file' = Carried(l, to) /\ proc' \in Process
        /\ ledger' \in [live : Lives, retired : SUBSET Id]
        /\ DOMAIN proc'.live = {i \in DOMAIN proc.live : proc.live[i] # l}
        /\ \A i \in DOMAIN proc'.live : proc'.live[i] = proc.live[i]
        /\ mode # "frontmatter" /\ ~proc.home => proc'.live = Nowhere /\ ~proc'.dirty
    BY <1>1, <1>4, RetiringKeeps DEF Authors
  <1> DEFINE ids == IdsAt(proc, l)
  <1>6. /\ DOMAIN binned' = {p} \cup DOMAIN binned /\ binned'[p] = ids
        /\ \A b \in DOMAIN binned : b # p => binned'[b] = binned[b]
        /\ binned' = [b \in DOMAIN binned' |-> binned'[b]]
    BY <1>1 DEF Given
  <1>7. /\ DOMAIN file' = (DOMAIN file \ {l}) \cup {to} /\ file'[to] = file[l]
        /\ \A k \in DOMAIN file : k # l => file'[k] = file[k]
        /\ file' \in [DOMAIN file' -> Document] /\ DOMAIN file' \subseteq Place
    <2>1. TypeOK /\ l \in DOMAIN file /\ to \notin DOMAIN file
      BY <1>1, <1>2
    <2> DEFINE f == Carried(l, to)
    <2>2. file' = f
      BY <1>5
    <2> HIDE DEF l, to
    <2>3. /\ DOMAIN f = (DOMAIN file \ {l}) \cup {to} /\ f[to] = file[l]
          /\ \A k \in DOMAIN file : k # l => f[k] = file[k]
          /\ f \in [DOMAIN f -> Document] /\ DOMAIN f \subseteq Place
      BY <1>4, <2>1, CarriedFacts
    <2> HIDE DEF f
    <2>4. QED
      BY <2>2, <2>3
  <1>8. \A i \in Id : i \in ids <=> i \in DOMAIN proc.live /\ proc.live[i] = l
    BY <1>3, LivesFacts DEF IdsAt
  <1>9. ids \subseteq Id
    BY <1>3, LivesFacts DEF IdsAt
  <1>10. /\ \A b \in Path : InBin(b) # l
         /\ \A b \in Path : InBin(b) = to => b = p
    BY PlacesApart
  <1> HIDE DEF l, to, ids
  <1>11. TypeOK'
    <2>1. \A b \in DOMAIN binned' : binned'[b] \in SUBSET Id
      BY <1>2, <1>6, <1>9 DEF TypeOK
    <2>2. DOMAIN binned' \subseteq Path
      BY <1>2, <1>6 DEF TypeOK
    <2>3. binned' \in [DOMAIN binned' -> SUBSET Id]
      BY <1>6, <2>1
    <2>4. /\ owner' \in [DOMAIN owner' -> Nat] /\ DOMAIN owner' \subseteq Id
          /\ made' \in Nat
      BY <1>1, <1>2 DEF TypeOK
    <2>5. QED
      BY <1>1, <1>2, <1>5, <1>7, <2>2, <2>3, <2>4, CommitTypes
  <1>12. FilesInv'
    BY <1>1, <1>2, <1>7, CarriedKeeps
  <1>13. \A k \in DOMAIN file' : \A i \in file'[k].cites : \E m \in DOMAIN file : i \in file[m].cites
    BY <1>1, <1>7
  <1>14. BinInv'
    <2>1. \A b \in Path : b \in DOMAIN binned' <=> InBin(b) \in DOMAIN file'
      BY <1>1, <1>2, <1>6, <1>7, <1>10 DEF BinInv, to
    <2>2. InBin(p) = to /\ p \notin DOMAIN binned
      BY <1>1, <1>2 DEF BinInv, to
    <2>3. \A b \in DOMAIN binned : b # p /\ file'[InBin(b)] = file[InBin(b)] /\ binned'[b] = binned[b]
      BY <1>2, <1>6, <1>7, <1>10, <2>2 DEF BinInv, TypeOK
    <2>4. ASSUME NEW i \in ids PROVE i \in DOMAIN owner /\ owner[i] = file[l].key
      BY <1>3, <1>8, <1>9 DEF Faithful
    <2>5. \A i, j \in ids : i = j
      BY <1>3, <1>8, <1>9 DEF Faithful
    <2>6. ASSUME mode = "frontmatter" PROVE file[l].stamp \in ids \cup {None}
      <3>1. CASE file[l].stamp = None
        BY <3>1
      <3>2. CASE file[l].stamp # None
        <4>1. file[l].stamp \in DOMAIN proc.live /\ proc.live[file[l].stamp] = l
          BY <2>6, <3>2, <1>1, <1>3, <1>4 DEF Scanning
        <4>2. file[l].stamp \in Id
          BY <3>2, <1>1, <1>2 DEF TypeOK, Document
        <4>3. QED
          BY <4>1, <4>2, <1>8
      <3>3. QED
        BY <3>1, <3>2
    <2>7. ASSUME NEW m \in DOMAIN file, NEW i \in file[m].cites \ lost, owner[i] = file[l].key
          PROVE  i \in ids
      <3>1. i \in DOMAIN proc.live
        BY <2>7, <1>1, <1>3, <1>4 DEF Reaches
      <3>2. proc.live[i] \in DOMAIN file /\ file[proc.live[i]].key = owner[i]
        BY <3>1, <1>3 DEF Faithful
      <3>3. proc.live[i] = l
        BY <3>2, <2>7, <1>1, <1>2 DEF FilesInv
      <3>4. i \in Id
        BY <1>2, <2>7 DEF TypeOK, Document
      <3>5. QED
        BY <3>1, <3>3, <3>4, <1>8
    <2>8. ASSUME NEW b \in DOMAIN binned'
          PROVE  /\ \A i \in binned'[b] : i \in DOMAIN owner' /\ owner'[i] = file'[InBin(b)].key
                 /\ \A i, j \in binned'[b] : i = j
                 /\ mode' = "frontmatter" => file'[InBin(b)].stamp \in binned'[b] \cup {None}
                 /\ \A k \in DOMAIN file' : \A i \in file'[k].cites \ lost' :
                       owner'[i] = file'[InBin(b)].key => i \in binned'[b]
      <3>1. CASE b = p
        BY <3>1, <2>2, <2>4, <2>5, <2>6, <2>7, <1>1, <1>6, <1>7, <1>13
      <3>2. CASE b # p
        <4>1. b \in DOMAIN binned /\ file'[InBin(b)] = file[InBin(b)] /\ binned'[b] = binned[b]
          BY <3>2, <2>3, <1>6
        <4>2. QED
          BY <4>1, <1>1, <1>2, <1>13 DEF BinInv
      <3>3. QED
        BY <3>1, <3>2
    <2>9. QED
      BY <2>1, <2>8 DEF BinInv
  <1>15. Faithful(proc.live)'
    <2>1. ASSUME NEW i \in DOMAIN proc'.live
          PROVE  /\ i \in DOMAIN owner' /\ proc'.live[i] \in DOMAIN file'
                 /\ file'[proc'.live[i]].key = owner'[i]
                 /\ \A b \in Path : proc'.live[i] = InBin(b) => i \in binned'[b]
      <3>1. /\ i \in DOMAIN owner /\ proc.live[i] \in DOMAIN file
            /\ file[proc.live[i]].key = owner[i]
            /\ \A b \in Path : proc.live[i] = InBin(b) => i \in binned[b]
            /\ proc'.live[i] = proc.live[i] /\ proc.live[i] # l
        BY <1>3, <1>5 DEF Faithful
      <3>2. \A b \in Path : proc.live[i] = InBin(b) => b \in DOMAIN binned /\ b # p
        BY <3>1, <1>1, <1>2 DEF BinInv, to
      <3>3. QED
        BY <3>1, <3>2, <1>1, <1>6, <1>7
    <2>2. \A i, j \in DOMAIN proc'.live : proc'.live[i] = proc'.live[j] => i = j
      BY <1>3, <1>5 DEF Faithful
    <2>3. QED
      BY <2>1, <2>2 DEF Faithful
  <1>16. Reaches(proc.live)'
    <2> SUFFICES ASSUME NEW k \in DOMAIN file', NEW i \in file'[k].cites \ lost',
                        i \notin DOMAIN proc'.live, NEW m \in DOMAIN file' \cap Out
                 PROVE  file'[m].key # owner'[i]
      BY DEF Reaches
    <2>1. m \in DOMAIN file /\ m # l /\ file'[m] = file[m]
      BY <1>4, <1>7
    <2>2. CASE i \in DOMAIN proc.live
      <3>1. proc.live[i] = l
        BY <2>2, <1>5
      <3>2. file[l].key = owner[i]
        BY <2>2, <3>1, <1>3 DEF Faithful
      <3>3. QED
        BY <2>1, <3>2, <1>1, <1>2 DEF FilesInv
    <2>3. CASE i \notin DOMAIN proc.live
      <3>1. PICK n \in DOMAIN file : i \in file[n].cites \ lost
        BY <1>1, <1>13
      <3>2. QED
        BY <2>1, <2>3, <3>1, <1>1, <1>3 DEF Reaches
    <2>4. QED
      BY <2>2, <2>3
  <1>17. mode # "frontmatter" /\ ~proc.home =>
            /\ proc.cmd \notin {"fix", "restore"} => proc'.live = Nowhere /\ ~proc'.dirty
            /\ ~hosted => \A b \in DOMAIN binned' : binned'[b] = {}
    <2> SUFFICES ASSUME mode # "frontmatter", ~proc.home
                 PROVE  ~hosted => \A b \in DOMAIN binned' : binned'[b] = {}
      BY <1>5
    <2>1. DOMAIN proc.live = {}
      BY <1>1, <1>2, NowhereFacts DEF After, Owing
    <2>2. ids = {}
      BY <2>1, <1>8, <1>9
    <2>3. QED
      BY <2>2, <1>2, <1>6 DEF Recorded, Unhosted
  <1>18. mode = "frontmatter" => Scanning'
    <2> SUFFICES ASSUME mode = "frontmatter" PROVE Scanning'
      OBVIOUS
    <2>1. ~proc'.home /\ proc'.at = "persist"
      BY <1>1, <1>3, <1>5 DEF Commits, Scanning
    <2>2. \A k \in DOMAIN file' \cap Out : file'[k].stamp # None =>
             file'[k].stamp \in DOMAIN proc'.live /\ proc'.live[file'[k].stamp] = k
      BY <1>3, <1>4, <1>5, <1>7 DEF Scanning
    <2>3. QED
      BY <2>1, <2>2 DEF Scanning
  <1>19. QED
    BY <1>5, <1>11, <1>12, <1>14, <1>15, <1>16, <1>17, <1>18, CommitKeeps

\* recycle restore: the document is at its path again, under the id it had or
\* one drawn for it, and documents may cite it.
Restoring(p, l, from, ids) ==
    /\ binned[p] \subseteq ids
    /\ \A i \in ids \ binned[p] : i \notin DOMAIN owner
    /\ \A i, j \in ids : i = j
    /\ DOMAIN proc'.live = ids \cup DOMAIN proc.live
    /\ \A i \in ids : proc'.live[i] = l
    /\ \A i \in DOMAIN proc.live : i \notin ids => proc'.live[i] = proc.live[i]
    /\ DOMAIN file' = (DOMAIN file \ {from}) \cup {l}
    /\ file' \in [DOMAIN file' -> Document]
    /\ file'[l].key = file[from].key /\ file'[l].stamp = file[from].stamp
    /\ file'[l].cites \subseteq file[from].cites \cup ids
    /\ \A k \in DOMAIN file : k # from =>
          /\ file'[k].key = file[k].key /\ file'[k].stamp = file[k].stamp
          /\ file'[k].cites \subseteq file[k].cites \cup ids
    /\ DOMAIN owner' = ids \cup DOMAIN owner /\ owner' \in [DOMAIN owner' -> Nat]
    /\ \A i \in ids : owner'[i] = file[from].key
    /\ \A j \in DOMAIN owner : owner'[j] = owner[j]

\* Then the invariant holds after it.
LEMMA RestoringKeeps ==
    ASSUME Inv, proc.at = "op", proc.cmd = "restore",
           NEW l \in Out, l \notin DOMAIN file,
           NEW p \in Path, p \in DOMAIN binned, NEW from, from = InBin(p),
           NEW ids \in SUBSET Id, Restoring(p, l, from, ids),
           Commits, proc' \in Process, ledger' \in [live : Lives, retired : SUBSET Id],
           binned' = Restrict(binned, DOMAIN binned \ {p}),
           made' = made, mode' = mode, hosted' = hosted, lost' = lost
    PROVE  Inv'
  <1>a. /\ binned[p] \subseteq ids /\ \A i, j \in ids : i = j
        /\ \A i \in ids \ binned[p] : i \notin DOMAIN owner
    BY DEF Restoring
  <1>b. /\ DOMAIN proc'.live = ids \cup DOMAIN proc.live
        /\ \A i \in ids : proc'.live[i] = l
        /\ \A i \in DOMAIN proc.live : i \notin ids => proc'.live[i] = proc.live[i]
    BY DEF Restoring
  <1>c. /\ DOMAIN file' = (DOMAIN file \ {from}) \cup {l}
        /\ file'[l].key = file[from].key /\ file'[l].stamp = file[from].stamp
        /\ file'[l].cites \subseteq file[from].cites \cup ids
        /\ \A k \in DOMAIN file : k # from =>
              /\ file'[k].key = file[k].key /\ file'[k].stamp = file[k].stamp
              /\ file'[k].cites \subseteq file[k].cites \cup ids
    BY DEF Restoring
  <1>d. /\ DOMAIN owner' = ids \cup DOMAIN owner
        /\ \A i \in ids : owner'[i] = file[from].key
        /\ \A j \in DOMAIN owner : owner'[j] = owner[j]
    BY DEF Restoring
  <1>e. file' \in [DOMAIN file' -> Document] /\ owner' \in [DOMAIN owner' -> Nat]
    BY DEF Restoring
  <1>1. Recorded /\ After /\ TypeOK /\ FilesInv /\ BinInv
    BY AtWork
  <1>2. /\ mode = "frontmatter" => Scanning
        /\ mode # "frontmatter" => Owing /\ (hosted <=> proc.home)
        /\ Faithful(proc.live) /\ Reaches(proc.live)
    BY <1>1, AtWork DEF After
  <1>3. from \in DOMAIN file /\ from \in Place /\ from \notin Out /\ l \in Place
    <2>1. from \in Place /\ from \notin Out /\ l \in Place
      BY PlacesApart
    <2>2. from \in DOMAIN file
      BY <1>1 DEF BinInv
    <2>3. QED
      BY <2>1, <2>2
  <1>4. /\ DOMAIN binned' = DOMAIN binned \ {p}
        /\ \A b \in DOMAIN binned' : binned'[b] = binned[b]
        /\ binned' = [b \in DOMAIN binned' |-> binned'[b]]
    BY DEF Restrict
  <1>5. /\ \A b \in Path : InBin(b) # l
        /\ \A b \in Path : InBin(b) = from => b = p
    BY PlacesApart
  <1>6. /\ \A i \in binned[p] : i \in DOMAIN owner /\ owner[i] = file[from].key
        /\ mode = "frontmatter" => file[from].stamp \in binned[p] \cup {None}
        /\ \A k \in DOMAIN file : \A i \in file[k].cites \ lost :
              owner[i] = file[from].key => i \in binned[p]
        /\ \A i \in DOMAIN proc.live : proc.live[i] = from => i \in binned[p]
    BY <1>1, <1>2 DEF BinInv, Faithful
  <1>7. \A k \in DOMAIN file' : \A i \in file'[k].cites :
            i \in ids \/ (\E m \in DOMAIN file : i \in file[m].cites)
    BY <1>3, <1>c
  <1>8. \A m \in DOMAIN file : \A i \in file[m].cites : i \in DOMAIN owner
    BY <1>1 DEF FilesInv
  <1>9. TypeOK'
    <2>1. \A b \in DOMAIN binned' : binned'[b] \in SUBSET Id
      BY <1>1, <1>4 DEF TypeOK
    <2>2. DOMAIN binned' \subseteq Path
      BY <1>1, <1>4 DEF TypeOK
    <2>3. binned' \in [DOMAIN binned' -> SUBSET Id]
      BY <1>4, <2>1
    <2>4. DOMAIN owner' \subseteq Id /\ DOMAIN file' \subseteq Place /\ made' \in Nat
      BY <1>1, <1>3, <1>c, <1>d DEF TypeOK
    <2>5. QED
      BY <1>1, <1>e, <2>2, <2>3, <2>4, CommitTypes
  <1>10. FilesInv'
    <2> DEFINE old(k) == IF k = l THEN from ELSE k
    <2>1. ASSUME NEW k \in DOMAIN file'
          PROVE  /\ old(k) \in DOMAIN file /\ file'[k].key = file[old(k)].key
                 /\ file'[k].stamp = file[old(k)].stamp
                 /\ file'[k].cites \subseteq file[old(k)].cites \cup ids
      BY <1>3, <1>c
    <2>2. \A k, m \in DOMAIN file' : old(k) = old(m) => k = m
      BY <1>3, <1>c
    <2> HIDE DEF old
    <2>3. \A k, m \in DOMAIN file' : file'[k].key = file'[m].key => k = m
      BY <1>1, <2>1, <2>2 DEF FilesInv
    <2>4. ASSUME NEW k \in DOMAIN file'
          PROVE  /\ file'[k].key <= made' /\ file'[k].cites \subseteq DOMAIN owner'
                 /\ file'[k].stamp # None =>
                       file'[k].stamp \in DOMAIN owner' /\ owner'[file'[k].stamp] = file'[k].key
      BY <1>1, <1>d, <2>1 DEF FilesInv
    <2>5. \A j \in DOMAIN owner' : owner'[j] <= made'
      BY <1>1, <1>3, <1>d DEF FilesInv
    <2>6. QED
      BY <2>3, <2>4, <2>5 DEF FilesInv
  <1>11. BinInv'
    <2>1. \A b \in Path : b \in DOMAIN binned' <=> InBin(b) \in DOMAIN file'
      BY <1>1, <1>4, <1>5, <1>c DEF BinInv
    <2>2. ASSUME NEW b \in DOMAIN binned'
          PROVE  /\ b \in DOMAIN binned /\ binned'[b] = binned[b]
                 /\ file'[InBin(b)].key = file[InBin(b)].key
                 /\ file'[InBin(b)].stamp = file[InBin(b)].stamp
                 /\ file[InBin(b)].key # file[from].key
      <3>1. b \in DOMAIN binned /\ b # p /\ b \in Path
        BY <1>1, <1>4 DEF TypeOK
      <3>2. InBin(b) \in DOMAIN file /\ InBin(b) # from
        BY <3>1, <1>1, <1>5 DEF BinInv
      <3>3. QED
        BY <3>1, <3>2, <1>1, <1>3, <1>4, <1>c DEF FilesInv
    <2>3. ASSUME NEW b \in DOMAIN binned'
          PROVE  /\ \A i \in binned'[b] : i \in DOMAIN owner' /\ owner'[i] = file'[InBin(b)].key
                 /\ \A i, j \in binned'[b] : i = j
                 /\ mode' = "frontmatter" => file'[InBin(b)].stamp \in binned'[b] \cup {None}
      <3>1. /\ \A i \in binned[b] : i \in DOMAIN owner /\ owner[i] = file[InBin(b)].key
            /\ \A i, j \in binned[b] : i = j
            /\ mode = "frontmatter" => file[InBin(b)].stamp \in binned[b] \cup {None}
        BY <2>2, <1>1 DEF BinInv
      <3>2. \A i \in binned[b] : i \in DOMAIN owner' /\ owner'[i] = file'[InBin(b)].key
        BY <2>2, <3>1, <1>d
      <3>3. QED
        BY <2>2, <3>1, <3>2
    <2>4. ASSUME NEW b \in DOMAIN binned', NEW k \in DOMAIN file', NEW i \in file'[k].cites \ lost',
                 owner'[i] = file'[InBin(b)].key
          PROVE  i \in binned'[b]
      <3>1. i \notin ids
        BY <2>2, <2>4, <1>d
      <3>2. PICK m \in DOMAIN file : i \in file[m].cites
        BY <3>1, <1>7
      <3>3. owner'[i] = owner[i]
        BY <3>2, <1>8, <1>d
      <3>4. QED
        BY <2>2, <2>4, <3>2, <3>3, <1>1 DEF BinInv
    <2>5. QED
      BY <2>1, <2>3, <2>4 DEF BinInv
  <1>12. Faithful(proc.live)'
    <2>1. ASSUME NEW i \in DOMAIN proc'.live
          PROVE  /\ i \in DOMAIN owner' /\ proc'.live[i] \in DOMAIN file'
                 /\ file'[proc'.live[i]].key = owner'[i]
                 /\ \A b \in Path : proc'.live[i] = InBin(b) => i \in binned'[b]
      <3>1. CASE i \in ids
        BY <3>1, <1>5, <1>b, <1>c, <1>d
      <3>2. CASE i \notin ids
        <4>1. i \in DOMAIN proc.live /\ proc'.live[i] = proc.live[i]
          BY <3>2, <1>b
        <4>2. /\ i \in DOMAIN owner /\ proc.live[i] \in DOMAIN file
              /\ file[proc.live[i]].key = owner[i]
              /\ \A b \in Path : proc.live[i] = InBin(b) => i \in binned[b]
          BY <4>1, <1>2 DEF Faithful
        <4>3. proc.live[i] # from
          BY <3>2, <4>1, <1>6, <1>a
        <4>4. \A b \in Path : proc.live[i] = InBin(b) => b \in DOMAIN binned /\ b # p
          BY <4>2, <4>3, <1>1 DEF BinInv
        <4>5. QED
          BY <4>1, <4>2, <4>3, <4>4, <1>4, <1>c, <1>d
      <3>3. QED
        BY <3>1, <3>2
    <2>2. \A i \in DOMAIN proc.live : proc.live[i] # l
      BY <1>2 DEF Faithful
    <2>3. \A i, j \in DOMAIN proc'.live : proc'.live[i] = proc'.live[j] => i = j
      BY <2>2, <1>2, <1>a, <1>b DEF Faithful
    <2>4. QED
      BY <2>1, <2>3 DEF Faithful
  <1>13. Reaches(proc.live)'
    <2> SUFFICES ASSUME NEW k \in DOMAIN file', NEW i \in file'[k].cites \ lost',
                        i \notin DOMAIN proc'.live, NEW m \in DOMAIN file' \cap Out
                 PROVE  file'[m].key # owner'[i]
      BY DEF Reaches
    <2>1. i \notin DOMAIN proc.live /\ i \notin ids
      BY <1>b
    <2>2. PICK n \in DOMAIN file : i \in file[n].cites \ lost
      BY <1>7, <2>1
    <2>3. owner'[i] = owner[i]
      BY <2>2, <1>8, <1>d
    <2>4. CASE m = l
      BY <2>1, <2>2, <2>3, <2>4, <1>6, <1>a, <1>c
    <2>5. CASE m # l
      BY <2>1, <2>2, <2>3, <2>5, <1>2, <1>3, <1>c DEF Reaches
    <2>6. QED
      BY <2>4, <2>5
  <1>14. mode # "frontmatter" /\ ~proc.home /\ ~hosted => \A b \in DOMAIN binned' : binned'[b] = {}
    BY <1>1, <1>4 DEF Recorded, Unhosted
  <1>15. mode = "frontmatter" => Scanning'
    <2> SUFFICES ASSUME mode = "frontmatter" PROVE Scanning'
      OBVIOUS
    <2>1. ~proc'.home /\ proc'.at = "persist"
      BY <1>2 DEF Commits, Scanning
    <2>2. ASSUME NEW k \in DOMAIN file' \cap Out, file'[k].stamp # None
          PROVE  file'[k].stamp \in DOMAIN proc'.live /\ proc'.live[file'[k].stamp] = k
      <3>1. CASE k = l
        BY <3>1, <2>2, <1>6, <1>a, <1>b, <1>c
      <3>2. CASE k # l
        <4>1. k \in DOMAIN file \cap Out /\ k # from /\ file'[k].stamp = file[k].stamp
          BY <3>2, <1>3, <1>c
        <4>2. file[k].stamp \in DOMAIN proc.live /\ proc.live[file[k].stamp] = k
          BY <4>1, <2>2, <1>2 DEF Scanning
        <4>3. file[k].stamp \in DOMAIN owner /\ owner[file[k].stamp] = file[k].key
          BY <4>1, <2>2, <1>1 DEF FilesInv
        <4>4. file[k].stamp \notin ids
          BY <4>1, <4>3, <1>1, <1>3, <1>6, <1>a DEF FilesInv
        <4>5. QED
          BY <4>1, <4>2, <4>4, <1>b
      <3>3. QED
        BY <3>1, <3>2
    <2>3. QED
      BY <2>1, <2>2 DEF Scanning
  <1>16. QED
    BY <1>9, <1>10, <1>11, <1>12, <1>13, <1>14, <1>15, CommitKeeps

\* Where the parent keeps its entry, or has a new one written by id.
LEMMA RestoreStep ==
    ASSUME Inv, NEW p \in Path, Restore(p)
    PROVE  Inv'
  <1> DEFINE l == Outside(p)
             from == InBin(p)
             ids == binned[p]
             x == Given(Next1.live, ids, l)
             t == Next1.retired \ ids
             d == Next1.dirty \/ ids # {}
             q == [Next1 EXCEPT !.live = Given(@, ids, l),
                                !.retired = @ \ ids, !.dirty = @ \/ ids # {}]
             f == Carried(from, l)
  <1>1. /\ proc.at = "op" /\ proc.cmd = "restore" /\ p \in DOMAIN binned /\ l \notin DOMAIN file
        /\ made' = made /\ mode' = mode /\ hosted' = hosted
        /\ lost' = lost /\ binned' = Restrict(binned, DOMAIN binned \ {p})
        /\ \/ Commit(q, f) /\ owner' = owner
           \/ \E by \in DOMAIN file \cap Out : Author(q, f, by, l)
    BY DEF Restore
  <1>2. TypeOK /\ FilesInv /\ BinInv
    BY <1>1, AtWork
  <1>3. Faithful(proc.live) /\ proc.live \in Lives /\ proc.on /\ proc.todo = {}
    BY <1>1, <1>2, AtWork DEF After, TypeOK, Process
  <1>4. /\ l \in Out /\ l \in Place /\ from \in Place /\ from \notin Out /\ from \in DOMAIN file
        /\ ids \in SUBSET Id /\ from = InBin(p)
    <2>1. l \in Out /\ l \in Place /\ from \in Place /\ from \notin Out
      BY PlacesApart DEF Out
    <2>2. from \in DOMAIN file
      BY <1>1, <1>2 DEF BinInv
    <2>3. ids \in SUBSET Id
      BY <1>1, <1>2 DEF TypeOK
    <2>4. QED
      BY <2>1, <2>2, <2>3
  <1>5. /\ Next1 \in Process /\ Next1.on /\ Next1.cmd = proc.cmd /\ Next1.home = proc.home
        /\ Next1.todo = {} /\ Next1.live = proc.live /\ Next1.dirty = proc.dirty
        /\ Next1.at = "persist"
    BY <1>2, <1>3, NextOne
  <1>6. /\ x \in Lives /\ DOMAIN x = ids \cup DOMAIN proc.live
        /\ \A i \in ids : x[i] = l
        /\ \A i \in DOMAIN proc.live : i \notin ids => x[i] = proc.live[i]
        /\ ids = {} => x = proc.live
    <2>1. x \in Lives
      BY <1>3, <1>4, <1>5, GivenLives
    <2>2. /\ DOMAIN x = ids \cup DOMAIN proc.live
          /\ \A i \in ids : x[i] = l
          /\ \A i \in DOMAIN proc.live : i \notin ids => x[i] = proc.live[i]
      BY <1>5 DEF Given
    <2> HIDE DEF x
    <2>3. x \in [DOMAIN x -> Place] /\ proc.live \in [DOMAIN proc.live -> Place]
      BY <2>1, <1>3, LivesFacts
    <2>4. ids = {} => x = proc.live
      BY <2>2, <2>3
    <2>5. QED
      BY <2>1, <2>2, <2>4
  <1>7. q = [Next1 EXCEPT !.live = x, !.retired = t, !.dirty = d]
    OBVIOUS
  <1>8. d = (proc.dirty \/ ids # {}) /\ t \in SUBSET Id /\ d \in BOOLEAN
    BY <1>5 DEF Process
  <1> HIDE DEF t, d, x, q
  <1>9. /\ q \in Process /\ q.on /\ q.cmd = proc.cmd /\ q.at = "persist" /\ q.home = proc.home
        /\ q.todo = {} /\ q.live = x /\ q.dirty = d
    BY <1>5, <1>6, <1>7, <1>8 DEF Process
  <1>10. /\ DOMAIN f = (DOMAIN file \ {from}) \cup {l} /\ f[l] = file[from]
         /\ \A k \in DOMAIN file : k # from => f[k] = file[k]
         /\ f \in [DOMAIN f -> Document]
    <2>1. TypeOK /\ from \in DOMAIN file /\ l \notin DOMAIN file
      BY <1>1, <1>2, <1>4
    <2> HIDE DEF l, from
    <2>2. QED
      BY <1>4, <2>1, CarriedFacts
  <1>11. /\ \A i \in ids : i \in DOMAIN owner /\ owner[i] = file[from].key
         /\ \A i, j \in ids : i = j
    BY <1>1, <1>2 DEF BinInv
  <1>12. \A i \in DOMAIN proc.live : proc.live[i] # l
    BY <1>1, <1>3 DEF Faithful
  <1>13. owner \in [DOMAIN owner -> Nat] /\ file[from].key \in Nat
    BY <1>2, <1>4 DEF TypeOK, Document
  <1> HIDE DEF l, from, ids, f
  <1>14. IdsAt(q, l) = ids
    BY <1>6, <1>9, <1>12 DEF IdsAt
  <1>15. CASE Commit(q, f) /\ owner' = owner
    <2>1. ~q.dirty => ~proc.dirty /\ q.live = proc.live
      BY <1>6, <1>8, <1>9
    <2>2. /\ Commits /\ file' = f /\ proc' \in Process /\ proc'.live = x
          /\ ledger' \in [live : Lives, retired : SUBSET Id]
      BY <1>1, <1>9, <1>15, <2>1, CommitFacts
    <2>3. binned[p] = ids
      BY DEF ids
    <2>4. /\ DOMAIN owner' = ids \cup DOMAIN owner /\ owner' \in [DOMAIN owner' -> Nat]
          /\ \A i \in ids : owner'[i] = file[from].key
          /\ \A j \in DOMAIN owner : owner'[j] = owner[j]
      BY <1>11, <1>13, <1>15
    <2>5. /\ file'[l].key = file[from].key /\ file'[l].stamp = file[from].stamp
          /\ file'[l].cites \subseteq file[from].cites \cup ids
          /\ \A k \in DOMAIN file : k # from =>
                /\ file'[k].key = file[k].key /\ file'[k].stamp = file[k].stamp
                /\ file'[k].cites \subseteq file[k].cites \cup ids
      BY <1>10, <2>2
    <2>6. DOMAIN file' = (DOMAIN file \ {from}) \cup {l} /\ file' \in [DOMAIN file' -> Document]
      BY <1>10, <2>2
    <2>7. Restoring(p, l, from, ids)
      BY <1>6, <1>11, <2>2, <2>3, <2>4, <2>5, <2>6 DEF Restoring
    <2>8. l \notin DOMAIN file
      BY <1>1 DEF l
    <2>9. QED
      BY <1>1, <1>4, <2>2, <2>7, <2>8, RestoringKeeps
  <1>16. CASE \E by \in DOMAIN file \cap Out : Author(q, f, by, l)
    <2> PICK by \in DOMAIN file \cap Out : Author(q, f, by, l)
      BY <1>16
    <2> PICK i \in IdFor(q, l) :
          /\ owner' = IF i \in DOMAIN owner THEN owner ELSE Given(owner, {i}, f[l].key)
          /\ Commit(Registered(q, i, l), [f EXCEPT ![by].cites = @ \cup {i}])
      BY DEF Author
    <2> DEFINE r == Registered(q, i, l)
               g == [f EXCEPT ![by].cites = @ \cup {i}]
               all == ids \cup {i}
    <2>1. /\ i \in Id /\ all \in SUBSET Id /\ ids \subseteq all /\ \A j, k \in all : j = k
          /\ \A j \in all \ ids : j \notin DOMAIN owner
          /\ r \in Process /\ r.on /\ r.cmd = proc.cmd /\ r.at = "persist" /\ r.home = proc.home
          /\ r.todo = {} /\ r.dirty
          /\ DOMAIN r.live = all \cup DOMAIN proc.live
          /\ \A j \in all : r.live[j] = l
          /\ \A j \in DOMAIN proc.live : j \notin all => r.live[j] = proc.live[j]
          /\ DOMAIN owner' = all \cup DOMAIN owner /\ owner' \in [DOMAIN owner' -> Nat]
          /\ \A j \in all : owner'[j] = file[from].key
          /\ \A j \in DOMAIN owner : owner'[j] = owner[j]
      <3>1. CASE ids # {}
        <4>1. i \in ids /\ r = q
          BY <3>1, <1>14 DEF IdFor, Registered
        <4>2. all = ids /\ owner' = owner
          BY <4>1, <1>11
        <4> HIDE DEF r, all
        <4>3. QED
          BY <3>1, <4>1, <4>2, <1>4, <1>6, <1>8, <1>9, <1>11, <1>13
      <3>2. CASE ids = {}
        <4> DEFINE y == Given(q.live, {i}, l)
        <4>1. i \in Id /\ i \notin DOMAIN owner /\ all = {i}
          BY <3>2, <1>14 DEF IdFor
        <4>2. r = [q EXCEPT !.live = y, !.dirty = TRUE]
          BY <3>2, <1>14 DEF Registered
        <4>3. y \in Lives
          BY <4>1, <1>4, <1>6, <1>9, GivenLives
        <4>4. /\ DOMAIN y = {i} \cup DOMAIN proc.live /\ y[i] = l
              /\ \A j \in DOMAIN proc.live : j # i => y[j] = proc.live[j]
          BY <3>2, <1>6, <1>9 DEF Given
        <4>5. owner' = Given(owner, {i}, file[from].key)
          BY <4>1, <1>10
        <4>6. /\ DOMAIN owner' = {i} \cup DOMAIN owner /\ owner'[i] = file[from].key
              /\ \A j \in DOMAIN owner : owner'[j] = owner[j]
          BY <4>1, <4>5 DEF Given
        <4>7. owner' \in [DOMAIN owner' -> Nat]
          <5>1. Given(owner, {i}, file[from].key) \in [{i} \cup DOMAIN owner -> Nat]
            BY <1>13, GivenTypes
          <5>2. QED
            BY <4>5, <4>6, <5>1
        <4> HIDE DEF y, r, all
        <4>8. /\ r \in Process /\ r.on /\ r.cmd = proc.cmd /\ r.at = "persist" /\ r.home = proc.home
              /\ r.todo = {} /\ r.dirty /\ r.live = y
          BY <4>2, <4>3, <1>9 DEF Process
        <4>9. QED
          BY <3>2, <4>1, <4>4, <4>6, <4>7, <4>8
      <3>3. QED
        BY <3>1, <3>2
    <2>2. Commit(r, g)
      OBVIOUS
    <2>3. by \in DOMAIN f /\ by \in DOMAIN file /\ by # l /\ by # from
      BY <1>1, <1>4, <1>10 DEF l
    <2>4. /\ DOMAIN g = DOMAIN f /\ g \in [DOMAIN g -> Document]
          /\ \A k \in DOMAIN f : /\ g[k].key = f[k].key /\ g[k].stamp = f[k].stamp
                                 /\ g[k].cites \subseteq f[k].cites \cup all
      BY <1>10, <2>1, <2>3 DEF Document
    <2> HIDE DEF r, g, all
    <2>5. /\ Commits /\ file' = g /\ proc' \in Process /\ proc'.live = r.live
          /\ ledger' \in [live : Lives, retired : SUBSET Id]
      BY <1>1, <2>1, <2>2, CommitFacts
    <2>6. /\ file'[l].key = file[from].key /\ file'[l].stamp = file[from].stamp
          /\ file'[l].cites \subseteq file[from].cites \cup all
          /\ \A k \in DOMAIN file : k # from =>
                /\ file'[k].key = file[k].key /\ file'[k].stamp = file[k].stamp
                /\ file'[k].cites \subseteq file[k].cites \cup all
      BY <1>10, <2>4, <2>5
    <2>7. DOMAIN file' = (DOMAIN file \ {from}) \cup {l} /\ file' \in [DOMAIN file' -> Document]
      BY <1>10, <2>4, <2>5
    <2>8. binned[p] \subseteq all /\ \A j \in all \ binned[p] : j \notin DOMAIN owner
      BY <2>1 DEF ids
    <2>9. l \notin DOMAIN file
      BY <1>1 DEF l
    <2>10. Restoring(p, l, from, all)
      <3>1. /\ DOMAIN proc'.live = all \cup DOMAIN proc.live
            /\ \A j \in all : proc'.live[j] = l
            /\ \A j \in DOMAIN proc.live : j \notin all => proc'.live[j] = proc.live[j]
        BY <2>1, <2>5
      <3>2. QED
        BY <2>1, <2>6, <2>7, <2>8, <3>1 DEF Restoring
    <2>11. QED
      BY <1>1, <1>4, <2>1, <2>5, <2>9, <2>10, RestoringKeeps
  <1>17. QED
    BY <1>1, <1>15, <1>16

-----------------------------------------------------------------------------
(* Around the operations.                                                  *)

\* What a process finds that opens the workspace.
OpensTrue ==
    /\ Opened.live \in Lives /\ Opened.retired \subseteq Id /\ Opened.home \in BOOLEAN
    /\ Faithful(Opened.live)
    /\ mode # "frontmatter" => Opened.live = ledger.live /\ Opened.home = hosted
    /\ mode = "frontmatter" =>
          /\ Opened.home = FALSE
          /\ StampedAs(Opened.live, DOMAIN Opened.live)
          /\ \A l \in DOMAIN file : file[l].stamp # None =>
                file[l].stamp \in DOMAIN Opened.live /\ Opened.live[file[l].stamp] = l

\* The two lemmas on Opened, as one formula.
LEMMA OpensTruly == Recorded => OpensTrue
  BY OpenedFacts, OpenedFaithful DEF OpensTrue

\* The same after a step.
LEMMA OpensTrulyNext == Recorded' => OpensTrue'
  BY OpensTruly, PTL

\* It finds the same where nothing was written.
LEMMA OpenedSame ==
    ASSUME file' = file, mode' = mode, hosted' = hosted, ledger' = ledger
    PROVE  Opened' = Opened
  BY DEF Opened, OpensAs

\* No process at work.
LEMMA OffFacts ==
    /\ Off \in Process /\ ~Off.on /\ Off.at = "off" /\ Off.live = Nowhere /\ Off.todo = {}
    /\ ~Off.dirty /\ ~Off.home /\ ~Off.applied
  BY NowhereFacts DEF Off, Process, Stages

\* What a step leaves true that writes to no file, in a workspace that keeps
\* its settings.
LEMMA RecordedKeeps ==
    ASSUME Recorded, file' = file, mode' = mode, hosted' = hosted, binned' = binned,
           owner' = owner, lost' = lost, made' = made, proc' \in Process,
           ledger' \in [live : Lives, retired : SUBSET Id], Faithful(ledger'.live),
           ~hosted => ledger' = ledger
    PROVE  Recorded'
  <1>1. TypeOK'
    BY DEF Recorded, TypeOK
  <1>2. FilesInv' /\ BinInv'
    BY DEF Recorded, FilesInv, BinInv
  <1>3. Faithful(ledger.live)'
    BY DEF Faithful
  <1>4. ~hosted' => Unhosted'
    BY DEF Recorded, Unhosted
  <1>5. QED
    BY <1>1, <1>2, <1>3, <1>4 DEF Recorded

\* And where only the process is another.
LEMMA ProcessKeeps ==
    ASSUME Recorded, file' = file, mode' = mode, hosted' = hosted, binned' = binned,
           owner' = owner, lost' = lost, made' = made, proc' \in Process, ledger' = ledger
    PROVE  Recorded'
  <1>1. ledger' \in [live : Lives, retired : SUBSET Id] /\ Faithful(ledger'.live)
    BY DEF Recorded, TypeOK
  <1>2. QED
    BY <1>1, RecordedKeeps

\* In the beginning there are one or two documents, with no ids.
LEMMA InitInv == Init => Inv
  <1> SUFFICES ASSUME Init PROVE Inv
    OBVIOUS
  <1>1. PICK p \in Path, q \in Path :
           /\ file = [l \in {Outside(p), Outside(q)} |-> Doc(IF l = Outside(p) THEN 1 ELSE 2)]
           /\ made = IF p = q THEN 1 ELSE 2
    BY DEF Init
  <1> DEFINE key(l) == IF l = Outside(p) THEN 1 ELSE 2
  <1>2. /\ DOMAIN file = {Outside(p), Outside(q)}
        /\ \A l \in DOMAIN file : /\ file[l] \in Document /\ file[l].key = key(l)
                                  /\ file[l].stamp = None /\ file[l].cites = {}
    BY <1>1 DEF Doc, Document
  <1>3. /\ made \in Nat /\ \A l \in DOMAIN file : key(l) <= made
        /\ \A l, k \in DOMAIN file : key(l) = key(k) => l = k
    BY <1>1, <1>2
  <1> HIDE DEF key
  <1>4. /\ mode \in Modes /\ hosted = FALSE /\ ledger = [live |-> Nowhere, retired |-> {}]
        /\ DOMAIN binned = {} /\ binned \in [{} -> SUBSET Id] /\ proc = Off /\ ended.how = "none"
        /\ DOMAIN owner = {} /\ owner \in [{} -> Nat] /\ lost = {}
    BY DEF Init
  <1>5. TypeOK
    <2>1. DOMAIN file \subseteq Place /\ file \in [DOMAIN file -> Document]
      BY <1>1, <1>2 DEF Place, Out
    <2>2. ledger \in [live : Lives, retired : SUBSET Id]
      BY <1>4, NowhereFacts
    <2>3. proc \in Process
      BY <1>4, OffFacts
    <2>4. QED
      BY <1>3, <1>4, <2>1, <2>2, <2>3 DEF TypeOK
  <1>6. FilesInv
    BY <1>2, <1>3, <1>4 DEF FilesInv
  <1>7. BinInv
    BY <1>2, <1>4, PlacesApart DEF BinInv
  <1>8. Faithful(ledger.live) /\ Unhosted
    BY <1>4, NowhereFacts DEF Faithful, Unhosted
  <1>9. Recorded
    BY <1>4, <1>5, <1>6, <1>7, <1>8 DEF Recorded
  <1>10. Before
    BY <1>2, <1>4, OffFacts DEF Before, Reaches
  <1>11. QED
    BY <1>4, <1>9, <1>10, OffFacts DEF Inv

\* A command begins.
LEMMA StartStep ==
    ASSUME Inv, NEW c \in Commands, Start(c)
    PROVE  Inv'
  <1>1. /\ ~proc.on
        /\ proc' = [Off EXCEPT !.on = TRUE, !.cmd = c,
                               !.at = IF c \in Authors THEN "ensure" ELSE "open"]
        /\ file' = file /\ mode' = mode /\ hosted' = hosted /\ ledger' = ledger
        /\ binned' = binned /\ ended' = ended /\ owner' = owner /\ lost' = lost /\ made' = made
    BY DEF Start
  <1>2. Recorded /\ Before
    BY <1>1 DEF Inv
  <1>3. /\ proc' \in Process /\ proc'.on /\ proc'.cmd = c
        /\ proc'.at = IF c \in Authors THEN "ensure" ELSE "open"
        /\ proc'.live = Nowhere /\ proc'.todo = {} /\ ~proc'.dirty /\ ~proc'.home /\ ~proc'.applied
    BY <1>1, OffFacts DEF Process, Stages
  <1>4. Recorded'
    BY <1>1, <1>2, <1>3, ProcessKeeps
  <1>5. Opened' = Opened
    BY <1>1, OpenedSame
  <1>6. Reaches(Opened.live)'
    BY <1>1, <1>2, <1>5 DEF Before, Reaches
  <1>7. Before'
    BY <1>3, <1>6 DEF Before
  <1>8. QED
    BY <1>3, <1>4, <1>7 DEF Inv

\* A registry document is made, or was there.
LEMMA EnsureStep ==
    ASSUME Inv, EnsureRegistry
    PROVE  Inv'
  <1>1. /\ proc.at \in {"ensure", "reensure"}
        /\ hosted' = (hosted \/ KeepsRegistry(mode))
        /\ proc' = [proc EXCEPT !.at = IF proc.at = "ensure" THEN "open" ELSE "persist"]
        /\ file' = file /\ mode' = mode /\ ledger' = ledger
        /\ binned' = binned /\ ended' = ended /\ owner' = owner /\ lost' = lost /\ made' = made
    BY DEF EnsureRegistry
  <1>2. Recorded /\ proc.on
    BY <1>1 DEF Inv
  <1>3. /\ proc' \in Process /\ proc'.on = proc.on /\ proc'.cmd = proc.cmd
        /\ proc'.at = IF proc.at = "ensure" THEN "open" ELSE "persist"
        /\ proc'.live = proc.live /\ proc'.todo = proc.todo /\ proc'.dirty = proc.dirty
        /\ proc'.home = proc.home /\ proc'.applied = proc.applied
    BY <1>1, <1>2 DEF Recorded, TypeOK, Process, Stages
  <1>4. /\ mode = "frontmatter" => ~hosted /\ ~hosted'
        /\ mode # "frontmatter" => hosted'
    BY <1>1, <1>2, SessionsAssumption DEF Recorded, TypeOK, KeepsRegistry
  <1>5. Recorded'
    <2>1. TypeOK' /\ FilesInv' /\ BinInv' /\ Faithful(ledger.live)'
      BY <1>1, <1>2, <1>3 DEF Recorded, TypeOK, FilesInv, BinInv, Faithful
    <2>2. ~hosted' => Unhosted'
      BY <1>1, <1>2 DEF Recorded, Unhosted
    <2>3. QED
      BY <1>1, <1>4, <2>1, <2>2 DEF Recorded
  <1>6. CASE proc.at = "ensure"
    <2>1. Before
      BY <1>6 DEF Inv
    <2>2. Opened'.live = Opened.live
      <3>1. CASE mode = "frontmatter"
        <4>1. hosted' = hosted
          BY <3>1, <1>2, <1>4, <1>5 DEF Recorded, TypeOK
        <4>2. Opened' = Opened
          BY <4>1, <1>1, OpenedSame
        <4>3. QED
          BY <4>2
      <3>2. CASE mode # "frontmatter"
        BY <3>2, <1>1, <1>2, <1>5, OpensTruly, OpensTrulyNext DEF OpensTrue
      <3>3. QED
        BY <3>1, <3>2
    <2>3. Reaches(Opened.live)'
      BY <1>1, <2>1, <2>2 DEF Before, Reaches
    <2>4. Before'
      BY <1>1, <1>2, <1>3, <1>4, <1>6, <2>1, <2>3 DEF Before
    <2>5. QED
      BY <1>2, <1>3, <1>5, <1>6, <2>4 DEF Inv
  <1>7. CASE proc.at = "reensure"
    <2>1. After
      BY <1>7 DEF Inv
    <2>2. Faithful(proc.live)' /\ Reaches(proc.live)' /\ Within(ledger.live, proc.live)'
      BY <1>1, <1>3, <2>1 DEF After, Faithful, Reaches, Within
    <2>3. mode' # "frontmatter" => Owing'
      BY <1>1, <1>3, <1>4, <1>7, <2>1 DEF After, Owing
    <2>4. mode' = "frontmatter" => Scanning'
      BY <1>1, <1>3, <1>7, <2>1 DEF After, Scanning
    <2>5. After'
      BY <1>1, <1>3, <1>7, <2>1, <2>2, <2>3, <2>4 DEF After
    <2>6. QED
      BY <1>2, <1>3, <1>5, <1>7, <2>5 DEF Inv
  <1>8. QED
    BY <1>1, <1>6, <1>7

\* The workspace is opened, with the ids of the registry or of the stamps.
LEMMA OpenStep ==
    ASSUME Inv, Open
    PROVE  Inv'
  <1>1. /\ proc.at = "open"
        /\ proc' = [proc EXCEPT !.at = "op", !.live = Opened.live,
                                !.retired = Opened.retired, !.home = Opened.home]
        /\ file' = file /\ mode' = mode /\ hosted' = hosted /\ ledger' = ledger
        /\ binned' = binned /\ ended' = ended /\ owner' = owner /\ lost' = lost /\ made' = made
    BY DEF Open
  <1>2. Recorded /\ Before /\ proc.on
    BY <1>1 DEF Inv
  <1>3. OpensTrue
    BY <1>2, OpensTruly
  <1>4. /\ proc' \in Process /\ proc'.on /\ proc'.cmd = proc.cmd /\ proc'.at = "op"
        /\ proc'.live = Opened.live /\ proc'.todo = {} /\ ~proc'.dirty
        /\ proc'.home = Opened.home /\ ~proc'.applied
    <2>1. proc \in Process /\ proc.todo = {} /\ ~proc.dirty /\ ~proc.applied
      BY <1>2 DEF Recorded, TypeOK, Before
    <2>2. Opened.live \in Lives /\ Opened.retired \in SUBSET Id /\ Opened.home \in BOOLEAN
      BY <1>3 DEF OpensTrue
    <2>3. QED
      BY <1>1, <1>2, <2>1, <2>2 DEF Process, Stages
  <1>5. Recorded'
    BY <1>1, <1>2, <1>4, ProcessKeeps
  <1>6. mode = "frontmatter" => ledger.live = Nowhere
    BY <1>2 DEF Recorded, Unhosted
  <1>7. Faithful(proc.live)' /\ Reaches(proc.live)'
    BY <1>1, <1>2, <1>3, <1>4 DEF OpensTrue, Before, Faithful, Reaches
  <1>8. Within(ledger.live, proc.live)'
    <2>1. CASE mode = "frontmatter"
      BY <2>1, <1>1, <1>6, NowhereFacts DEF Within
    <2>2. CASE mode # "frontmatter"
      BY <2>2, <1>1, <1>3, <1>4 DEF OpensTrue, Within
    <2>3. QED
      BY <2>1, <2>2
  <1>9. mode' # "frontmatter" => Owing'
    <2> SUFFICES ASSUME mode # "frontmatter" PROVE Owing'
      BY <1>1
    <2>1. Opened.live = ledger.live /\ Opened.home = hosted
      BY <1>3 DEF OpensTrue
    <2>2. ~hosted => ledger.live = Nowhere /\ proc.cmd \notin Authors
      BY <1>1, <1>2 DEF Recorded, Unhosted, Before
    <2>3. QED
      BY <1>1, <1>4, <2>1, <2>2 DEF Owing
  <1>10. mode' = "frontmatter" => Scanning'
    BY <1>1, <1>3, <1>4 DEF OpensTrue, Scanning, StampedAs
  <1>11. After'
    BY <1>4, <1>7, <1>8, <1>9, <1>10 DEF After
  <1>12. QED
    BY <1>4, <1>5, <1>11 DEF Inv

\* The report of fixes ends.
LEMMA FixesDoneStep ==
    ASSUME Inv, FixesDone
    PROVE  Inv'
  <1>1. /\ proc.at = "op" /\ proc.cmd = "fix"
        /\ proc' = [proc EXCEPT !.at = IF proc.applied /\ proc.dirty THEN "reensure" ELSE "over"]
        /\ file' = file /\ mode' = mode /\ hosted' = hosted /\ ledger' = ledger
        /\ binned' = binned /\ ended' = ended /\ owner' = owner /\ lost' = lost /\ made' = made
    BY DEF FixesDone, Fixing
  <1>2. Recorded /\ After /\ proc.on
    BY <1>1 DEF Inv
  <1>3. /\ proc' \in Process /\ proc'.on = proc.on /\ proc'.cmd = proc.cmd
        /\ proc'.at = IF proc.applied /\ proc.dirty THEN "reensure" ELSE "over"
        /\ proc'.live = proc.live /\ proc'.todo = proc.todo /\ proc'.dirty = proc.dirty
        /\ proc'.home = proc.home /\ proc'.applied = proc.applied
    BY <1>1, <1>2 DEF Recorded, TypeOK, Process, Stages
  <1>4. Recorded'
    BY <1>1, <1>2, <1>3, ProcessKeeps
  <1>5. proc.dirty => proc.applied
    BY <1>1, <1>2 DEF After
  <1>6. Faithful(proc.live)' /\ Reaches(proc.live)' /\ Within(ledger.live, proc.live)'
    BY <1>1, <1>2, <1>3 DEF After, Faithful, Reaches, Within
  <1>7. mode' # "frontmatter" => Owing'
    BY <1>1, <1>2, <1>3, <1>5 DEF After, Owing
  <1>8. mode' = "frontmatter" => Scanning'
    BY <1>1, <1>2, <1>3, <1>5 DEF After, Scanning, StampedAs
  <1>9. After'
    BY <1>1, <1>2, <1>3, <1>5, <1>6, <1>7, <1>8 DEF After
  <1>10. QED
    BY <1>2, <1>3, <1>4, <1>9 DEF Inv

\* The stamps that are due.
LEMMA PersistStep ==
    ASSUME Inv, Persist
    PROVE  Inv'
  <1> DEFINE due == IF Stamps(mode) THEN DOMAIN proc.live ELSE {}
  <1>1. /\ proc.at = "persist"
        /\ proc' = [proc EXCEPT !.at = "stamp", !.todo = due]
        /\ file' = file /\ mode' = mode /\ hosted' = hosted /\ ledger' = ledger
        /\ binned' = binned /\ ended' = ended /\ owner' = owner /\ lost' = lost /\ made' = made
    BY DEF Persist
  <1>2. Recorded /\ After /\ proc.on
    BY <1>1 DEF Inv
  <1>3. due \subseteq DOMAIN proc.live /\ due \in SUBSET Id
        /\ (Stamps(mode) => due = DOMAIN proc.live)
    BY <1>2, LivesFacts DEF Recorded, TypeOK, Process
  <1> HIDE DEF due
  <1>4. /\ proc' \in Process /\ proc'.on = proc.on /\ proc'.cmd = proc.cmd
        /\ proc'.at = "stamp"
        /\ proc'.live = proc.live /\ proc'.todo = due /\ proc'.dirty = proc.dirty
        /\ proc'.home = proc.home /\ proc'.applied = proc.applied
    BY <1>1, <1>2, <1>3 DEF Recorded, TypeOK, Process, Stages
  <1>5. Recorded'
    BY <1>1, <1>2, <1>4, ProcessKeeps
  <1>6. Faithful(proc.live)' /\ Reaches(proc.live)' /\ Within(ledger.live, proc.live)'
    BY <1>1, <1>2, <1>4 DEF After, Faithful, Reaches, Within
  <1>7. mode' # "frontmatter" => Owing'
    BY <1>1, <1>2, <1>4 DEF After, Owing
  <1>8. mode' = "frontmatter" => Scanning'
    BY <1>1, <1>2, <1>4 DEF After, Scanning
  <1>9. (Stamps(mode) => StampedAs(proc.live, DOMAIN proc.live \ proc.todo))'
    BY <1>1, <1>3, <1>4 DEF StampedAs
  <1>10. After'
    BY <1>1, <1>2, <1>3, <1>4, <1>6, <1>7, <1>8, <1>9 DEF After
  <1>11. QED
    BY <1>2, <1>4, <1>5, <1>10 DEF Inv

\* The stamp of one document is written.
LEMMA StampStep ==
    ASSUME Inv, NEW i \in Id, Stamp(i)
    PROVE  Inv'
  <1> DEFINE at == proc.live[i]
  <1>1. /\ proc.at = "stamp" /\ i \in proc.todo
        /\ proc' = [proc EXCEPT !.todo = proc.todo \ {i}]
        /\ file' = [l \in DOMAIN file |-> IF l = at
                                          THEN [file[l] EXCEPT !.stamp = i] ELSE file[l]]
        /\ mode' = mode /\ hosted' = hosted /\ ledger' = ledger
        /\ binned' = binned /\ ended' = ended /\ owner' = owner /\ lost' = lost /\ made' = made
    BY DEF Stamp
  <1>2. Recorded /\ After /\ proc.on /\ TypeOK /\ FilesInv /\ BinInv
    BY <1>1 DEF Inv, Recorded
  <1>3. /\ proc' \in Process /\ proc'.on = proc.on /\ proc'.cmd = proc.cmd
        /\ proc'.at = "stamp"
        /\ proc'.live = proc.live /\ proc'.todo = proc.todo \ {i} /\ proc'.dirty = proc.dirty
        /\ proc'.home = proc.home /\ proc'.applied = proc.applied
    BY <1>1, <1>2 DEF TypeOK, Process
  <1>4. /\ i \in DOMAIN proc.live /\ i \in DOMAIN owner /\ at \in DOMAIN file
        /\ file[at].key = owner[i]
        /\ \A p \in Path : at = InBin(p) => i \in binned[p]
        /\ \A j \in DOMAIN proc.live : proc.live[j] = at => j = i
    BY <1>1, <1>2 DEF After, Faithful
  <1>5. \A l \in DOMAIN file : file[l] \in Document
    BY <1>2 DEF TypeOK
  <1>6. /\ DOMAIN file' = DOMAIN file
        /\ \A l \in DOMAIN file :
              /\ file'[l].key = file[l].key /\ file'[l].cites = file[l].cites
              /\ file'[l].stamp = IF l = at THEN i ELSE file[l].stamp
              /\ file'[l] \in Document
    <2>1. DOMAIN file' = DOMAIN file
      BY <1>1
    <2>2. ASSUME NEW l \in DOMAIN file
          PROVE  /\ file'[l].key = file[l].key /\ file'[l].cites = file[l].cites
                 /\ file'[l].stamp = IF l = at THEN i ELSE file[l].stamp
                 /\ file'[l] \in Document
      <3>1. file[l] \in Document
        BY <1>5
      <3>2. CASE l = at
        <4>1. file'[l] = [file[l] EXCEPT !.stamp = i]
          BY <3>2, <1>1
        <4>2. QED
          BY <3>1, <3>2, <4>1 DEF Document
      <3>3. CASE l # at
        BY <3>1, <3>3, <1>1
      <3>4. QED
        BY <3>2, <3>3
    <2>3. QED
      BY <2>1, <2>2
  <1> HIDE DEF at
  <1>7. TypeOK'
    <2>1. file' \in [DOMAIN file' -> Document]
      BY <1>1, <1>6
    <2>2. QED
      BY <1>1, <1>2, <1>3, <1>6, <2>1 DEF TypeOK
  <1>8. FilesInv'
    BY <1>1, <1>2, <1>4, <1>6 DEF FilesInv
  <1>9. BinInv'
    <2>1. \A p \in Path : p \in DOMAIN binned' <=> InBin(p) \in DOMAIN file'
      BY <1>1, <1>2, <1>6 DEF BinInv
    <2>2. ASSUME NEW p \in DOMAIN binned'
          PROVE  /\ \A j \in binned'[p] : j \in DOMAIN owner' /\ owner'[j] = file'[InBin(p)].key
                 /\ \A j, m \in binned'[p] : j = m
                 /\ mode' = "frontmatter" => file'[InBin(p)].stamp \in binned'[p] \cup {None}
                 /\ \A l \in DOMAIN file' : \A j \in file'[l].cites \ lost' :
                       owner'[j] = file'[InBin(p)].key => j \in binned'[p]
      <3>1. p \in DOMAIN binned /\ p \in Path /\ InBin(p) \in DOMAIN file
        BY <1>1, <1>2 DEF TypeOK, BinInv
      <3>2. file'[InBin(p)].key = file[InBin(p)].key
        BY <3>1, <1>6
      <3>3. mode = "frontmatter" => file'[InBin(p)].stamp \in binned[p] \cup {None}
        BY <3>1, <1>2, <1>4, <1>6 DEF BinInv
      <3>4. QED
        BY <3>1, <3>2, <3>3, <1>1, <1>2, <1>6 DEF BinInv
    <2>3. QED
      BY <2>1, <2>2 DEF BinInv
  <1>10. /\ Faithful(ledger.live)' /\ Faithful(proc.live)' /\ Reaches(proc.live)'
         /\ Within(ledger.live, proc.live)'
    <2>1. Faithful(ledger.live) /\ Faithful(proc.live) /\ Reaches(proc.live) /\ Within(ledger.live, proc.live)
      BY <1>2 DEF Recorded, After
    <2>2. Faithful(ledger.live)'
      BY <2>1, <1>1, <1>6 DEF Faithful
    <2>3. Faithful(proc.live)'
      BY <2>1, <1>1, <1>3, <1>6 DEF Faithful
    <2>4. Reaches(proc.live)'
      BY <2>1, <1>1, <1>3, <1>6 DEF Reaches
    <2>5. QED
      BY <2>1, <2>2, <2>3, <2>4, <1>1, <1>3 DEF Within
  <1>11. Recorded'
    BY <1>1, <1>2, <1>7, <1>8, <1>9, <1>10 DEF Recorded, Unhosted
  <1>12. mode' # "frontmatter" => Owing'
    BY <1>1, <1>2, <1>3, <1>6 DEF After, Owing
  <1>13. mode' = "frontmatter" => Scanning'
    <2> SUFFICES ASSUME mode = "frontmatter" PROVE Scanning'
      BY <1>1
    <2>1. Scanning
      BY <1>2 DEF After
    <2>2. ASSUME NEW l \in DOMAIN file' \cap Out, file'[l].stamp # None
          PROVE  file'[l].stamp \in DOMAIN proc'.live /\ proc'.live[file'[l].stamp] = l
      <3>1. CASE l = at
        BY <3>1, <1>3, <1>4, <1>6 DEF at
      <3>2. CASE l # at
        BY <3>2, <2>1, <2>2, <1>3, <1>6 DEF Scanning
      <3>3. QED
        BY <3>1, <3>2
    <2>3. QED
      BY <2>1, <2>2, <1>1, <1>3 DEF Scanning
  <1>14. (Stamps(mode) => StampedAs(proc.live, DOMAIN proc.live \ proc.todo))'
    <2> SUFFICES ASSUME Stamps(mode), NEW j \in DOMAIN proc.live \ (proc.todo \ {i}),
                        proc.live[j] \in DOMAIN file
                 PROVE  file'[proc.live[j]].stamp = j
      BY <1>1, <1>3, <1>6 DEF StampedAs
    <2>1. CASE j = i
      BY <2>1, <1>6 DEF at
    <2>2. CASE j # i
      BY <2>2, <1>1, <1>2, <1>4, <1>6 DEF After, StampedAs
    <2>3. QED
      BY <2>1, <2>2
  <1>15. After'
    BY <1>1, <1>2, <1>3, <1>10, <1>12, <1>13, <1>14 DEF After
  <1>16. QED
    BY <1>2, <1>3, <1>11, <1>15 DEF Inv

\* The registry is written, where the command did not write it with its changes.
LEMMA SaveIndexStep ==
    ASSUME Inv, SaveIndex
    PROVE  Inv'
  <1>1. /\ proc.at = "stamp" /\ proc.todo = {}
        /\ ledger' = IF proc.dirty /\ KeepsRegistry(mode)
                     THEN [live |-> proc.live, retired |-> proc.retired] ELSE ledger
        /\ proc' = [proc EXCEPT !.at = "over", !.dirty = FALSE]
        /\ file' = file /\ mode' = mode /\ hosted' = hosted
        /\ binned' = binned /\ ended' = ended /\ owner' = owner /\ lost' = lost /\ made' = made
        /\ proc.dirty /\ KeepsRegistry(mode) => hosted
    BY DEF SaveIndex, Homeless
  <1>2. Recorded /\ After /\ proc.on
    BY <1>1 DEF Inv
  <1>3. /\ proc' \in Process /\ proc'.on = proc.on /\ proc'.cmd = proc.cmd
        /\ proc'.at = "over"
        /\ proc'.live = proc.live /\ proc'.todo = proc.todo /\ ~proc'.dirty
        /\ proc'.home = proc.home /\ proc'.applied = proc.applied
    BY <1>1, <1>2 DEF Recorded, TypeOK, Process, Stages
  <1> DEFINE writes == proc.dirty /\ KeepsRegistry(mode)
  <1>4. /\ writes => ledger'.live = proc.live
        /\ ~writes => ledger' = ledger
        /\ ledger' \in [live : Lives, retired : SUBSET Id]
    <2>1. proc.live \in Lives /\ proc.retired \in SUBSET Id /\ ledger \in [live : Lives, retired : SUBSET Id]
      BY <1>2 DEF Recorded, TypeOK, Process
    <2>2. CASE writes
      <3>1. ledger' = [live |-> proc.live, retired |-> proc.retired]
        BY <2>2, <1>1
      <3>2. QED
        BY <2>1, <2>2, <3>1
    <2>3. CASE ~writes
      BY <2>1, <2>3, <1>1
    <2>4. QED
      BY <2>2, <2>3
  <1>5. Faithful(proc.live) /\ Reaches(proc.live) /\ Within(ledger.live, proc.live)
    BY <1>2 DEF After
  <1>6. Recorded'
    <2>1. Faithful(ledger'.live)
      BY <1>2, <1>4, <1>5 DEF Recorded
    <2>2. ~hosted => ledger' = ledger
      BY <1>1, <1>4
    <2>3. QED
      BY <1>1, <1>2, <1>3, <1>4, <2>1, <2>2, RecordedKeeps
  <1>7. Faithful(proc.live)' /\ Reaches(proc.live)'
    BY <1>1, <1>3, <1>5 DEF Faithful, Reaches
  <1>8. Within(ledger.live, proc.live)'
    <2>1. CASE writes
      BY <2>1, <1>3, <1>4 DEF Within
    <2>2. CASE ~writes
      BY <2>2, <1>3, <1>4, <1>5 DEF Within
    <2>3. QED
      BY <2>1, <2>2
  <1>9. mode' # "frontmatter" => Owing'
    <2> SUFFICES ASSUME mode # "frontmatter" PROVE Owing'
      BY <1>1
    <2>1. Owing
      BY <1>2 DEF After
    <2>2. KeepsRegistry(mode)
      BY <1>2, SessionsAssumption DEF Recorded, TypeOK, KeepsRegistry
    <2>3. ledger'.live = proc.live
      BY <2>1, <2>2, <1>4 DEF Owing
    <2>4. QED
      BY <2>1, <2>3, <1>1, <1>3 DEF Owing
  <1>10. Stamps(mode) => StampedAs(proc.live, DOMAIN proc.live)
    BY <1>1, <1>2 DEF After, StampedAs
  <1>11. (Stamps(mode) => StampedAs(proc.live, DOMAIN proc.live))'
    BY <1>1, <1>3, <1>10 DEF StampedAs
  <1>12. mode' = "frontmatter" => Scanning'
    <2> SUFFICES ASSUME mode = "frontmatter" PROVE Scanning'
      BY <1>1
    <2>1. Scanning
      BY <1>2 DEF After
    <2>2. (StampedAs(proc.live, DOMAIN proc.live))'
      BY <1>1, <1>11 DEF Stamps
    <2>3. QED
      BY <2>1, <2>2, <1>1, <1>3 DEF Scanning
  <1>13. After'
    BY <1>1, <1>2, <1>3, <1>7, <1>8, <1>9, <1>11, <1>12 DEF After
  <1>14. QED
    BY <1>2, <1>3, <1>6, <1>13 DEF Inv

-----------------------------------------------------------------------------
(* The end of a process, and what people do themselves.                    *)

\* A file with nothing of what it said.
Torn == \E i \in proc.todo :
            /\ proc.live[i] \in DOMAIN file /\ file[proc.live[i]].stamp # i
            /\ file' = [file EXCEPT ![proc.live[i]] = Doc(@.key)]

\* Documents say no more than before.
LEMMA TornFacts ==
    ASSUME TypeOK, UNCHANGED file \/ Torn
    PROVE  /\ DOMAIN file' = DOMAIN file /\ file' \in [DOMAIN file' -> Document]
           /\ \A l \in DOMAIN file :
                 /\ file'[l].key = file[l].key /\ file'[l].cites \subseteq file[l].cites
                 /\ file'[l].stamp \in {file[l].stamp, None}
  <1>1. CASE UNCHANGED file
    BY <1>1 DEF TypeOK
  <1>2. CASE Torn
    <2>1. PICK i \in proc.todo :
             /\ proc.live[i] \in DOMAIN file
             /\ file' = [file EXCEPT ![proc.live[i]] = Doc(file[proc.live[i]].key)]
      BY <1>2 DEF Torn
    <2> DEFINE at == proc.live[i]
               d == Doc(file[at].key)
    <2>2. d \in Document /\ d.key = file[at].key /\ d.stamp = None /\ d.cites = {}
      BY <2>1 DEF TypeOK, Doc, Document
    <2>3. file' = [file EXCEPT ![at] = d] /\ at \in DOMAIN file
      BY <2>1
    <2> HIDE DEF at, d
    <2>4. QED
      BY <2>2, <2>3 DEF TypeOK
  <1>3. QED
    BY <1>1, <1>2

\* A process ends, or is ended.
LEMMA EndStep ==
    ASSUME Inv, proc.on, NEW how, End(how), UNCHANGED file \/ Torn, how = "done" => proc.at = "over"
    PROVE  Inv'
  <1>1. /\ proc' = Off /\ ended' = [how |-> how, cmd |-> proc.cmd]
        /\ lost' = lost \cup {i \in DOMAIN proc.live :
                                 Cited(file', i) /\ i \notin DOMAIN OpensAs(file').live}
        /\ mode' = mode /\ hosted' = hosted /\ ledger' = ledger /\ binned' = binned
        /\ owner' = owner /\ made' = made
    BY DEF End
  <1>2. Recorded /\ TypeOK /\ FilesInv /\ BinInv
    BY DEF Inv, Recorded
  <1>3. /\ DOMAIN file' = DOMAIN file /\ file' \in [DOMAIN file' -> Document]
        /\ \A l \in DOMAIN file :
              /\ file'[l].key = file[l].key /\ file'[l].cites \subseteq file[l].cites
              /\ file'[l].stamp \in {file[l].stamp, None}
    BY <1>2, TornFacts
  <1>4. OpensAs(file') = Opened'
    BY <1>1 DEF Opened, OpensAs
  <1>5. lost \subseteq lost' /\ lost' \subseteq Id
    <2>1. DOMAIN proc.live \subseteq Id
      BY <1>2, LivesFacts DEF TypeOK, Process
    <2>2. QED
      BY <2>1, <1>1, <1>2 DEF TypeOK
  <1>6. TypeOK'
    BY <1>1, <1>2, <1>3, <1>5, OffFacts DEF TypeOK
  <1>7. FilesInv'
    BY <1>1, <1>2, <1>3 DEF FilesInv
  <1>8. BinInv'
    <2>1. \A p \in Path : p \in DOMAIN binned' <=> InBin(p) \in DOMAIN file'
      BY <1>1, <1>2, <1>3 DEF BinInv
    <2>2. ASSUME NEW p \in DOMAIN binned'
          PROVE  /\ \A j \in binned'[p] : j \in DOMAIN owner' /\ owner'[j] = file'[InBin(p)].key
                 /\ \A j, m \in binned'[p] : j = m
                 /\ mode' = "frontmatter" => file'[InBin(p)].stamp \in binned'[p] \cup {None}
                 /\ \A l \in DOMAIN file' : \A j \in file'[l].cites \ lost' :
                       owner'[j] = file'[InBin(p)].key => j \in binned'[p]
      <3>1. p \in DOMAIN binned /\ p \in Path /\ InBin(p) \in DOMAIN file
        BY <1>1, <1>2 DEF TypeOK, BinInv
      <3>2. file'[InBin(p)].key = file[InBin(p)].key
        BY <3>1, <1>3
      <3>3. mode = "frontmatter" => file'[InBin(p)].stamp \in binned[p] \cup {None}
        BY <3>1, <1>2, <1>3 DEF BinInv
      <3>4. QED
        BY <3>1, <3>2, <3>3, <1>1, <1>2, <1>3, <1>5 DEF BinInv
    <2>3. QED
      BY <2>1, <2>2 DEF BinInv
  <1>9. Recorded'
    <2>1. Faithful(ledger.live)'
      BY <1>1, <1>2, <1>3 DEF Recorded, Faithful
    <2>2. QED
      BY <1>1, <1>2, <1>6, <1>7, <1>8, <2>1 DEF Recorded, Unhosted
  <1>10. Reaches(Opened.live)'
    <2>1. CASE proc.at \in {"off", "ensure", "open"}
      <3>1. Before
        BY <2>1 DEF Inv
      <3>2. file' = file
        BY <3>1 DEF Before, Torn
      <3>3. Opened' = Opened
        BY <3>2, <1>1, OpenedSame
      <3>4. QED
        BY <3>1, <3>2, <3>3, <1>1, <1>5 DEF Before, Reaches
    <2>2. CASE proc.at \notin {"off", "ensure", "open"}
      <3>1. Reaches(proc.live)
        BY <2>2 DEF Inv, After
      <3> SUFFICES ASSUME NEW l \in DOMAIN file', NEW i \in file'[l].cites \ lost',
                          i \notin DOMAIN Opened'.live, NEW k \in DOMAIN file' \cap Out
                   PROVE  file'[k].key # owner'[i]
        BY DEF Reaches
      <3>2. Cited(file', i)
        BY DEF Cited
      <3>3. i \notin DOMAIN proc.live
        BY <3>2, <1>1, <1>4
      <3>4. i \in file[l].cites \ lost
        BY <1>3, <1>5
      <3>5. QED
        BY <3>1, <3>3, <3>4, <1>1, <1>3 DEF Reaches
    <2>3. QED
      BY <2>1, <2>2
  <1>11. ASSUME ended'.how = "done", ended'.cmd \notin {"fix", "config"}, mode' = "both"
         PROVE  StampedAs(ledger.live, DOMAIN ledger.live)'
    <2>1. how = "done" /\ proc.cmd # "fix" /\ mode = "both" /\ proc.at = "over"
      BY <1>1, <1>11
    <2>2. After
      BY <2>1 DEF Inv
    <2>3. StampedAs(proc.live, DOMAIN proc.live) /\ Within(ledger.live, proc.live) /\ proc.todo = {}
      BY <2>1, <2>2 DEF After, Stamps
    <2>4. file' = file
      BY <2>3 DEF Torn
    <2>5. QED
      BY <2>3, <2>4, <1>1 DEF StampedAs, Within
  <1>12. Before'
    BY <1>1, <1>10, <1>11, OffFacts DEF Before
  <1>13. QED
    BY <1>1, <1>9, <1>12, OffFacts DEF Inv

\* All the ways of it.
LEMMA EndsStep ==
    ASSUME Inv, Finish \/ SaveFails \/ Refuse \/ Quit \/ Kill
    PROVE  /\ Inv'
           /\ proc.on /\ proc' = Off /\ (UNCHANGED file \/ Torn)
           /\ ended'.how \in {"done", "failed", "refused", "quit", "killed"} /\ ended'.cmd = proc.cmd
           /\ ended'.how = "done" => proc.at = "over" /\ UNCHANGED file
           /\ ended'.how \in {"refused", "quit"} => proc.at = "op" /\ UNCHANGED file
           /\ UNCHANGED <<mode, hosted, ledger, binned, owner, made, runs>>
  <1>1. proc.on \in BOOLEAN /\ (proc.on <=> proc.at # "off")
    BY DEF Inv, Recorded, TypeOK, Process
  <1>2. CASE Finish
    BY <1>1, <1>2, EndStep DEF Finish, End
  <1>3. CASE Refuse
    BY <1>1, <1>3, EndStep DEF Refuse, End
  <1>4. CASE Quit
    BY <1>1, <1>4, EndStep DEF Quit, Fixing, End
  <1>5. CASE Kill
    BY <1>1, <1>5, EndStep DEF Kill, End, Torn
  <1>6. CASE SaveFails
    BY <1>1, <1>6, EndStep DEF SaveFails, End
  <1>7. QED
    BY <1>2, <1>3, <1>4, <1>5, <1>6

\* The registry is to be written along with the stamps, or without.
LEMMA SetModeStep ==
    ASSUME Inv, NEW m \in Modes, SetMode(m)
    PROVE  Inv'
  <1>1. /\ ~proc.on /\ KeepsRegistry(mode) /\ KeepsRegistry(m) /\ mode' = m
        /\ ended' = [how |-> "done", cmd |-> "config"]
        /\ file' = file /\ hosted' = hosted /\ ledger' = ledger /\ binned' = binned
        /\ proc' = proc /\ owner' = owner /\ lost' = lost /\ made' = made
    BY DEF SetMode
  <1>2. Recorded /\ Before
    BY <1>1 DEF Inv
  <1>3. mode # "frontmatter" /\ mode' # "frontmatter" /\ mode' \in Modes
    BY <1>1 DEF KeepsRegistry
  <1>4. Recorded'
    <2>1. TypeOK' /\ FilesInv' /\ BinInv' /\ Faithful(ledger.live)'
      BY <1>1, <1>2, <1>3 DEF Recorded, TypeOK, FilesInv, BinInv, Faithful
    <2>2. QED
      BY <1>1, <1>2, <1>3, <2>1 DEF Recorded, Unhosted
  <1>5. Opened'.live = Opened.live
    BY <1>1, <1>2, <1>3, <1>4, OpensTruly, OpensTrulyNext DEF OpensTrue
  <1>6. Reaches(Opened.live)'
    BY <1>1, <1>2, <1>5 DEF Before, Reaches
  <1>7. Before'
    BY <1>1, <1>2, <1>3, <1>6 DEF Before
  <1>8. QED
    BY <1>1, <1>4, <1>7 DEF Inv

\* Somebody moves a document, in a workspace with no registry.
LEMMA MoveByHandStep ==
    ASSUME Inv, NEW l \in Out, NEW to \in Out, MoveByHand(l, to)
    PROVE  Inv'
  <1>1. /\ ~proc.on /\ mode = "frontmatter" /\ l \in DOMAIN file /\ to \notin DOMAIN file
        /\ file' = Carried(l, to)
        /\ mode' = mode /\ hosted' = hosted /\ ledger' = ledger /\ binned' = binned
        /\ proc' = proc /\ ended' = ended /\ owner' = owner /\ lost' = lost /\ made' = made
    BY DEF MoveByHand
  <1>2. Recorded /\ Before /\ TypeOK /\ FilesInv /\ BinInv /\ ~hosted /\ ledger.live = Nowhere
    BY <1>1 DEF Inv, Recorded, Unhosted
  <1>3. to \in Place
    BY DEF Place
  <1>4. /\ DOMAIN file' = (DOMAIN file \ {l}) \cup {to} /\ file'[to] = file[l]
        /\ \A k \in DOMAIN file : k # l => file'[k] = file[k]
        /\ file' \in [DOMAIN file' -> Document] /\ DOMAIN file' \subseteq Place
    <2> DEFINE f == Carried(l, to)
    <2>1. /\ DOMAIN f = (DOMAIN file \ {l}) \cup {to} /\ f[to] = file[l]
          /\ \A k \in DOMAIN file : k # l => f[k] = file[k]
          /\ f \in [DOMAIN f -> Document] /\ DOMAIN f \subseteq Place
      BY <1>1, <1>2, <1>3, CarriedFacts
    <2>2. file' = f
      BY <1>1
    <2> HIDE DEF f
    <2>3. QED
      BY <2>1, <2>2
  <1>5. TypeOK'
    BY <1>1, <1>2, <1>4 DEF TypeOK
  <1>6. FilesInv'
    BY <1>1, <1>2, <1>4, CarriedKeeps
  <1>7. \A b \in Path : InBin(b) # l /\ InBin(b) # to
    BY PlacesApart
  <1>8. \A k \in DOMAIN file' : \E m \in DOMAIN file : file'[k] = file[m] /\ (k \in Out => m \in Out)
    BY <1>1, <1>4
  <1>9. BinInv'
    <2>1. \A b \in Path : b \in DOMAIN binned' <=> InBin(b) \in DOMAIN file'
      BY <1>1, <1>2, <1>4, <1>7 DEF BinInv
    <2>2. \A b \in DOMAIN binned : file'[InBin(b)] = file[InBin(b)]
      BY <1>2, <1>4, <1>7 DEF BinInv, TypeOK
    <2>3. QED
      BY <1>1, <1>2, <1>8, <2>1, <2>2 DEF BinInv
  <1>10. Recorded'
    <2>1. Faithful(ledger.live)'
      BY <1>1, <1>2, NowhereFacts DEF Faithful
    <2>2. QED
      BY <1>1, <1>2, <1>5, <1>6, <1>9, <2>1 DEF Recorded, Unhosted
  <1>11. OpensTrue /\ OpensTrue'
    BY <1>2, <1>10, OpensTruly, OpensTrulyNext
  <1>12. Reaches(Opened.live)'
    <2> SUFFICES ASSUME NEW k \in DOMAIN file', NEW i \in file'[k].cites \ lost',
                        i \notin DOMAIN Opened'.live, NEW m \in DOMAIN file' \cap Out
                 PROVE  file'[m].key # owner'[i]
      BY DEF Reaches
    <2>1. i \notin DOMAIN Opened.live
      <3> SUFFICES ASSUME i \in DOMAIN Opened.live PROVE FALSE
        OBVIOUS
      <3>1. Opened.live[i] \in DOMAIN file /\ file[Opened.live[i]].stamp = i
        BY <1>1, <1>11 DEF OpensTrue, StampedAs, Faithful
      <3>2. PICK n \in DOMAIN file' : file'[n].stamp = i
        BY <3>1, <1>1, <1>4
      <3>3. i # None
        BY <1>11, LivesFacts, SessionsAssumption DEF OpensTrue
      <3>4. QED
        BY <3>2, <3>3, <1>1, <1>11 DEF OpensTrue
    <2>2. PICK n \in DOMAIN file : i \in file[n].cites \ lost
      BY <1>1, <1>8
    <2>3. PICK o \in DOMAIN file \cap Out : file'[m] = file[o]
      BY <1>8
    <2>4. QED
      BY <2>1, <2>2, <2>3, <1>1, <1>2 DEF Before, Reaches
  <1>13. Before'
    BY <1>1, <1>2, <1>12 DEF Before
  <1>14. QED
    BY <1>1, <1>10, <1>13 DEF Inv

\* Somebody writes a link by an id that a command gave out.
LEMMA CiteByHandStep ==
    ASSUME Inv, NEW l \in Out, NEW i \in Id, CiteByHand(l, i)
    PROVE  Inv'
  <1>1. /\ ~proc.on /\ l \in DOMAIN file /\ i \in DOMAIN Opened.live
        /\ file' = [file EXCEPT ![l].cites = @ \cup {i}]
        /\ mode' = mode /\ hosted' = hosted /\ ledger' = ledger /\ binned' = binned
        /\ proc' = proc /\ ended' = ended /\ owner' = owner /\ lost' = lost /\ made' = made
    BY DEF CiteByHand
  <1>2. Recorded /\ Before /\ TypeOK /\ FilesInv /\ BinInv /\ OpensTrue
    BY <1>1, OpensTruly DEF Inv, Recorded
  <1>3. /\ DOMAIN file' = DOMAIN file /\ file' \in [DOMAIN file' -> Document]
        /\ \A k \in DOMAIN file :
              /\ file'[k].key = file[k].key /\ file'[k].stamp = file[k].stamp
              /\ file'[k].cites \subseteq file[k].cites \cup {i}
    BY <1>1, <1>2 DEF TypeOK, Document
  <1>4. /\ i \in DOMAIN owner /\ Opened.live[i] \in DOMAIN file
        /\ file[Opened.live[i]].key = owner[i]
        /\ \A p \in Path : Opened.live[i] = InBin(p) => i \in binned[p]
    BY <1>1, <1>2 DEF OpensTrue, Faithful
  <1>5. TypeOK'
    BY <1>1, <1>2, <1>3 DEF TypeOK
  <1>6. FilesInv'
    BY <1>1, <1>2, <1>3, <1>4 DEF FilesInv
  <1>7. BinInv'
    <2>1. \A p \in Path : p \in DOMAIN binned' <=> InBin(p) \in DOMAIN file'
      BY <1>1, <1>2, <1>3 DEF BinInv
    <2>2. ASSUME NEW p \in DOMAIN binned'
          PROVE  /\ \A j \in binned'[p] : j \in DOMAIN owner' /\ owner'[j] = file'[InBin(p)].key
                 /\ \A j, m \in binned'[p] : j = m
                 /\ mode' = "frontmatter" => file'[InBin(p)].stamp \in binned'[p] \cup {None}
                 /\ \A k \in DOMAIN file' : \A j \in file'[k].cites \ lost' :
                       owner'[j] = file'[InBin(p)].key => j \in binned'[p]
      <3>1. p \in DOMAIN binned /\ p \in Path /\ InBin(p) \in DOMAIN file
        BY <1>1, <1>2 DEF TypeOK, BinInv
      <3>2. file'[InBin(p)].key = file[InBin(p)].key /\ file'[InBin(p)].stamp = file[InBin(p)].stamp
        BY <3>1, <1>3
      <3>3. owner[i] = file[InBin(p)].key => i \in binned[p]
        BY <3>1, <1>2, <1>4 DEF FilesInv
      <3>4. QED
        BY <3>1, <3>2, <3>3, <1>1, <1>2, <1>3 DEF BinInv
    <2>3. QED
      BY <2>1, <2>2 DEF BinInv
  <1>8. Recorded'
    <2>1. Faithful(ledger.live)'
      BY <1>1, <1>2, <1>3 DEF Recorded, Faithful
    <2>2. QED
      BY <1>1, <1>2, <1>5, <1>6, <1>7, <2>1 DEF Recorded, Unhosted
  <1>9. OpensTrue'
    BY <1>8, OpensTrulyNext
  <1>10. DOMAIN Opened.live \subseteq DOMAIN Opened'.live
    <2>1. CASE mode = "frontmatter"
      <3> SUFFICES ASSUME NEW j \in DOMAIN Opened.live PROVE j \in DOMAIN Opened'.live
        OBVIOUS
      <3>1. Opened.live[j] \in DOMAIN file /\ file[Opened.live[j]].stamp = j
        BY <2>1, <1>2 DEF OpensTrue, StampedAs, Faithful
      <3>2. j # None
        BY <1>2, LivesFacts, SessionsAssumption DEF OpensTrue
      <3>3. QED
        BY <2>1, <3>1, <3>2, <1>1, <1>3, <1>9 DEF OpensTrue
    <2>2. CASE mode # "frontmatter"
      BY <2>2, <1>1, <1>2, <1>9 DEF OpensTrue
    <2>3. QED
      BY <2>1, <2>2
  <1>11. Reaches(Opened.live)'
    BY <1>1, <1>2, <1>3, <1>10 DEF Before, Reaches
  <1>12. Before'
    BY <1>1, <1>2, <1>3, <1>11 DEF Before, StampedAs
  <1>13. QED
    BY <1>1, <1>8, <1>12 DEF Inv

-----------------------------------------------------------------------------
(* The theorems.                                                           *)

\* Each operation leaves the invariant true.
LEMMA OperationStep ==
    ASSUME Inv, Operation
    PROVE  Inv'
  <1>1. ASSUME NEW by \in Out, NEW l \in Out, New(by, l) PROVE Inv'
    BY <1>1, NewStep
  <1>2. ASSUME NEW by \in Out, NEW l \in Out, Adopt(by, l) \/ FixLink(by, l) PROVE Inv'
    BY <1>2, LinkStep
  <1>3. ASSUME NEW by \in Out, NEW l \in Out, Move(by, l) PROVE Inv'
    BY <1>3, MoveStep
  <1>4. ASSUME NEW l \in Out, TakeId(l) PROVE Inv'
    BY <1>4, TakeIdStep
  <1>5. ASSUME NEW l \in Out, Remove(l) PROVE Inv'
    BY <1>5, RemoveStep
  <1>6. ASSUME NEW l \in Out, FixRegister(l) PROVE Inv'
    BY <1>6, FixRegisterStep
  <1>7. ASSUME NEW p \in Path, Recycle(p) PROVE Inv'
    BY <1>7, RecycleStep
  <1>8. ASSUME NEW p \in Path, Restore(p) PROVE Inv'
    BY <1>8, RestoreStep
  <1>9. QED
    BY <1>1, <1>2, <1>3, <1>4, <1>5, <1>6, <1>7, <1>8 DEF Operation

\* Nothing happens.
LEMMA StutterStep == Inv /\ UNCHANGED vars => Inv'
  <1> SUFFICES ASSUME Inv, UNCHANGED vars PROVE Inv'
    OBVIOUS
  <1>1. Opened' = Opened
    BY OpenedSame DEF vars
  <1>2. TypeOK' = TypeOK /\ FilesInv' = FilesInv /\ BinInv' = BinInv /\ Unhosted' = Unhosted
    BY DEF vars, TypeOK, FilesInv, BinInv, Unhosted
  <1>3. Recorded' = Recorded
    BY <1>2 DEF vars, Recorded, Faithful
  <1>4. Before' = Before
    BY <1>1 DEF vars, Before, Reaches, StampedAs
  <1>5. After' = After
    BY DEF vars, After, Owing, Scanning, Faithful, Reaches, Within, StampedAs
  <1>6. QED
    BY <1>3, <1>4, <1>5 DEF Inv, vars

\* The invariant of the module.
THEOREM Invariance == Spec => []Inv
  <1>1. Init => Inv
    BY InitInv
  <1>2. Inv /\ [Next]_vars => Inv'
    <2> SUFFICES ASSUME Inv, [Next]_vars PROVE Inv'
      OBVIOUS
    <2>1. ASSUME NEW c \in Commands, Start(c) PROVE Inv'
      BY <2>1, StartStep
    <2>2. CASE EnsureRegistry
      BY <2>2, EnsureStep
    <2>3. CASE Open
      BY <2>3, OpenStep
    <2>4. CASE Operation
      BY <2>4, OperationStep
    <2>5. CASE FixesDone
      BY <2>5, FixesDoneStep
    <2>6. CASE Persist
      BY <2>6, PersistStep
    <2>7. ASSUME NEW i \in Id, Stamp(i) PROVE Inv'
      BY <2>7, StampStep
    <2>8. CASE SaveIndex
      BY <2>8, SaveIndexStep
    <2>9. CASE Finish \/ SaveFails \/ Refuse \/ Quit \/ Kill
      BY <2>9, EndsStep
    <2>10. ASSUME NEW m \in Modes, SetMode(m) PROVE Inv'
      BY <2>10, SetModeStep
    <2>11. ASSUME NEW l \in Out, NEW to \in Out, MoveByHand(l, to) PROVE Inv'
      BY <2>11, MoveByHandStep
    <2>12. ASSUME NEW l \in Out, NEW i \in Id, CiteByHand(l, i) PROVE Inv'
      BY <2>12, CiteByHandStep
    <2>13. CASE UNCHANGED vars
      BY <2>13, StutterStep
    <2>14. QED
      BY <2>1, <2>2, <2>3, <2>4, <2>5, <2>6, <2>7, <2>8, <2>9, <2>10, <2>11, <2>12, <2>13 DEF Next
  <1>3. QED
    BY <1>1, <1>2, PTL DEF Spec

\* Places are places, ids are ids, and a process is at one of its stages.
THEOREM TypeCorrect == Spec => []TypeOK
  <1>1. Inv => TypeOK
    BY DEF Inv, Recorded
  <1>2. QED
    BY <1>1, Invariance, PTL

\* Links by id lead to the documents they were written for, in all three modes
\* of id_storage, whatever commands were killed before.
THEOREM LinksLeadTrue == Spec => []LinksLead
  <1>1. Inv => LinksLead
    <2> SUFFICES ASSUME Inv, ~proc.on,
                        NEW l \in DOMAIN file, NEW i \in file[l].cites \ lost
                 PROVE  IF i \in DOMAIN Opened.live
                        THEN /\ Opened.live[i] \in DOMAIN file
                             /\ file[Opened.live[i]].key = owner[i]
                        ELSE \A k \in DOMAIN file \cap Out : file[k].key # owner[i]
      BY DEF LinksLead
    <2>1. OpensTrue /\ Before
      BY OpensTruly DEF Inv
    <2>2. CASE i \in DOMAIN Opened.live
      BY <2>1, <2>2 DEF OpensTrue, Faithful
    <2>3. CASE i \notin DOMAIN Opened.live
      BY <2>1, <2>3 DEF Before, Reaches
    <2>4. QED
      BY <2>2, <2>3
  <1>2. QED
    BY <1>1, Invariance, PTL

\* Stamps are true, also in documents that were moved, binned and restored; and
\* complete where a command that stamps was not killed.
THEOREM StampsAreTrue == Spec => []StampsTrue
  <1>1. Inv => StampsTrue
    <2> SUFFICES ASSUME Inv PROVE StampsTrue
      OBVIOUS
    <2>1. \A l \in DOMAIN file : file[l].stamp # None => owner[file[l].stamp] = file[l].key
      BY DEF Inv, Recorded, FilesInv
    <2>2. ASSUME ~proc.on, ended.how = "done", ended.cmd \notin {"fix", "config"}, mode = "both"
          PROVE  \A i \in DOMAIN Opened.live :
                    Opened.live[i] \in DOMAIN file => file[Opened.live[i]].stamp = i
      <3>1. OpensTrue /\ Before
        BY <2>2, OpensTruly DEF Inv
      <3>2. QED
        BY <2>2, <3>1 DEF OpensTrue, Before, StampedAs
    <2>3. QED
      BY <2>1, <2>2 DEF StampsTrue
  <1>2. QED
    BY <1>1, Invariance, PTL

\* Only the end of a process ends it.
LEMMA StaysOn ==
    ASSUME Inv, proc.on, Next, ~(Finish \/ SaveFails \/ Refuse \/ Quit \/ Kill)
    PROVE  proc'.on
  <1>1. proc \in Process
    BY DEF Inv, Recorded, TypeOK
  <1>2. ASSUME Operation PROVE proc'.on
    <2>1. ASSUME NEW by \in Out, NEW l \in Out, New(by, l) PROVE proc'.on
      BY <1>1, <2>1 DEF New, Commit, Next1, Process
    <2>2. ASSUME NEW by \in Out, NEW l \in Out, Adopt(by, l) PROVE proc'.on
      BY <1>1, <2>2 DEF Adopt, Cite, Author, Registered, Commit, Next1, Process
    <2>3. ASSUME NEW by \in Out, NEW l \in Out, FixLink(by, l) PROVE proc'.on
      BY <1>1, <2>3 DEF FixLink, Cite, Author, Registered, Commit, Process
    <2>4. ASSUME NEW l \in Out, NEW to \in Out, Move(l, to) PROVE proc'.on
      BY <1>1, <2>4 DEF Move, Moved, Commit, Next1, Process
    <2>5. ASSUME NEW l \in Out, TakeId(l) PROVE proc'.on
      BY <1>1, <2>5 DEF TakeId, Registered, Next1, Process
    <2>6. ASSUME NEW l \in Out, Remove(l) PROVE proc'.on
      BY <1>1, <2>6 DEF Remove, Unregistered, Commit, Next1, Process
    <2>7. ASSUME NEW l \in Out, FixRegister(l) PROVE proc'.on
      BY <1>1, <2>7 DEF FixRegister, Commit, Process
    <2>8. ASSUME NEW p \in Path, Recycle(p) PROVE proc'.on
      BY <1>1, <2>8 DEF Recycle, Unregistered, Commit, Next1, Process
    <2>9. ASSUME NEW p \in Path, Restore(p) PROVE proc'.on
      <3> DEFINE q == [Next1 EXCEPT !.live = Given(@, binned[p], Outside(p)),
                                    !.retired = @ \ binned[p], !.dirty = @ \/ binned[p] # {}]
                 f == Carried(InBin(p), Outside(p))
      <3>1. q.on /\ (\A i : Registered(q, i, Outside(p)).on)
        BY <1>1 DEF Next1, Process, Registered
      <3>2. Commit(q, f) \/ (\E by \in DOMAIN file \cap Out : Author(q, f, by, Outside(p)))
        BY <2>9 DEF Restore
      <3>3. \E files : Commit(q, files) \/ (\E i : Commit(Registered(q, i, Outside(p)), files))
        BY <3>2 DEF Author
      <3>4. ASSUME NEW r, NEW files, Commit(r, files), r.on PROVE proc'.on
        <4>1. proc' = [r EXCEPT !.dirty = r.dirty /\ ~r.home]
          BY <3>4 DEF Commit
        <4>2. proc'.on = r.on
          BY <4>1
        <4>3. QED
          BY <3>4, <4>2
      <3> HIDE DEF q
      <3>5. QED
        BY <3>1, <3>3, <3>4
    <2>10. QED
      BY <1>2, <2>1, <2>2, <2>3, <2>4, <2>5, <2>6, <2>7, <2>8, <2>9 DEF Operation
  <1>3. ASSUME EnsureRegistry \/ Open \/ FixesDone \/ Persist \/ SaveIndex PROVE proc'.on
    BY <1>1, <1>3 DEF EnsureRegistry, Open, FixesDone, Persist, SaveIndex, Process
  <1>4. ASSUME NEW i \in Id, Stamp(i) PROVE proc'.on
    BY <1>1, <1>4 DEF Stamp, Process
  <1>5. QED
    BY <1>2, <1>3, <1>4 DEF Next, Start, SetMode, MoveByHand, CiteByHand

\* A command that ends hands its ids on.
LEMMA EndsHandOn ==
    ASSUME Inv, Finish \/ SaveFails \/ Refuse \/ Quit \/ Kill
    PROVE  HandsOn
  <1>1. /\ Inv' /\ proc.on /\ (UNCHANGED file \/ Torn)
        /\ ended'.cmd = proc.cmd
        /\ ended'.how = "done" => proc.at = "over" /\ UNCHANGED file
        /\ mode' = mode /\ hosted' = hosted /\ ledger' = ledger
    BY EndsStep
  <1>2. Recorded /\ TypeOK /\ FilesInv /\ OpensTrue /\ OpensTrue'
    BY <1>1, OpensTruly, OpensTrulyNext DEF Inv, Recorded
  <1>3. mode \in Modes /\ (mode # "frontmatter" <=> KeepsRegistry(mode))
    BY <1>2, SessionsAssumption DEF TypeOK, KeepsRegistry
  <1>4. proc.live \in Lives /\ DOMAIN proc.live \subseteq Id
    BY <1>2, LivesFacts DEF TypeOK, Process
  <1>5. DOMAIN Opened'.live \subseteq Id
    BY <1>2, LivesFacts DEF OpensTrue
  <1>6. ASSUME ended'.how = "done" PROVE InUse(Opened'.live) = InUse(proc.live)
    <2>1. After /\ ~proc.dirty /\ proc.at = "over" /\ file' = file
      BY <1>1, <1>6 DEF Inv, After
    <2>2. CASE mode # "frontmatter"
      BY <2>1, <2>2, <1>1, <1>2 DEF After, Owing, OpensTrue
    <2>3. CASE mode = "frontmatter"
      <3> DEFINE f == Opened'.live
                 g == proc.live
                 S == {i \in DOMAIN f : f[i] \in Out}
                 T == {i \in DOMAIN g : g[i] \in Out}
      <3>1. /\ \A i \in DOMAIN f : f[i] \in DOMAIN file /\ file[f[i]].stamp = i
            /\ \A l \in DOMAIN file : file[l].stamp # None =>
                  file[l].stamp \in DOMAIN f /\ f[file[l].stamp] = l
        BY <2>1, <2>3, <1>1, <1>2 DEF OpensTrue, Faithful, StampedAs
      <3>2. /\ \A i \in DOMAIN g : g[i] \in DOMAIN file /\ file[g[i]].stamp = i
            /\ \A l \in DOMAIN file \cap Out : file[l].stamp # None =>
                  file[l].stamp \in DOMAIN g /\ g[file[l].stamp] = l
        BY <2>1, <2>3 DEF After, Scanning, Faithful, StampedAs
      <3>3. None \notin DOMAIN f /\ None \notin DOMAIN g
        BY <1>4, <1>5, SessionsAssumption
      <3>4. InUse(f) = [i \in S |-> f[i]] /\ InUse(g) = [i \in T |-> g[i]]
        BY DEF InUse, Restrict
      <3> HIDE DEF f, g
      <3>5. ASSUME NEW i \in S PROVE i \in T /\ g[i] = f[i]
        BY <3>1, <3>2, <3>3
      <3>6. ASSUME NEW i \in T PROVE i \in S
        BY <3>1, <3>2, <3>3
      <3>7. S = T
        BY <3>5, <3>6
      <3>8. InUse(f) = InUse(g)
        BY <3>4, <3>5, <3>7
      <3>9. QED
        BY <3>8 DEF f, g
    <2>4. QED
      BY <2>2, <2>3
  <1>7. ASSUME NEW i \in DOMAIN proc.live, Cited(file', i),
               ~(proc.cmd \in {"fix", "restore"} /\ KeepsRegistry(mode) /\ ~proc.home),
               ~(~KeepsRegistry(mode) /\ \A l \in DOMAIN file' : file'[l].stamp # i)
        PROVE  i \in DOMAIN Opened'.live /\ Opened'.live[i] = proc.live[i]
    <2>1. After
      BY NowhereFacts DEF Inv, Before
    <2>2. /\ DOMAIN file' = DOMAIN file
          /\ \A l \in DOMAIN file :
                /\ file'[l].cites \subseteq file[l].cites
                /\ file'[l].stamp \in {file[l].stamp, None}
      BY <1>1, <1>2, TornFacts
    <2>3. i # None
      BY <1>4, SessionsAssumption
    <2>4. CASE mode # "frontmatter"
      <3>1. Owing /\ Opened'.live = ledger.live
        BY <2>1, <2>4, <1>1, <1>2 DEF After, OpensTrue
      <3>2. proc.home
        BY <3>1, <2>4, <1>3, <1>7, NowhereFacts DEF Owing
      <3>3. CASE ~proc.dirty
        BY <3>1, <3>3 DEF Owing
      <3>4. CASE proc.dirty
        <4>1. PICK l \in DOMAIN file' : i \in file'[l].cites
          BY <1>7 DEF Cited
        <4>2. l \in DOMAIN file /\ i \in file[l].cites \cap DOMAIN proc.live
          BY <4>1, <2>2
        <4>3. i \in DOMAIN ledger.live
          BY <3>1, <3>2, <3>4, <4>2 DEF Owing
        <4>4. QED
          BY <3>1, <4>3, <2>1 DEF After, Within
      <3>5. QED
        BY <3>3, <3>4
    <2>5. CASE mode = "frontmatter"
      <3>1. PICK l \in DOMAIN file' : file'[l].stamp = i
        BY <2>5, <1>3, <1>7
      <3>2. i \in DOMAIN Opened'.live /\ Opened'.live[i] = l
        BY <3>1, <2>3, <2>5, <1>1, <1>2 DEF OpensTrue
      <3>3. l \in DOMAIN file /\ file[l].stamp = i
        BY <3>1, <2>2, <2>3
      <3>4. file[l].key = owner[i]
        BY <3>3, <2>3, <1>2 DEF FilesInv
      <3>5. proc.live[i] \in DOMAIN file /\ file[proc.live[i]].key = owner[i]
        BY <2>1 DEF After, Faithful
      <3>6. proc.live[i] = l
        BY <3>3, <3>4, <3>5, <1>2 DEF FilesInv
      <3>7. QED
        BY <3>2, <3>6
    <2>6. QED
      BY <2>4, <2>5
  <1>8. QED
    BY <1>6, <1>7 DEF HandsOn

\* From one command to the next no id is lost that could be kept, and none
\* leads elsewhere.
THEOREM IdsHandedOn == Spec => KeepsIds
  <1>1. Inv /\ [Next]_vars => HandsOn
    <2> SUFFICES ASSUME Inv, [Next]_vars, proc.on, ~proc'.on PROVE HandsOn
      BY DEF HandsOn
    <2>1. Next
      BY DEF vars
    <2>2. Finish \/ SaveFails \/ Refuse \/ Quit \/ Kill
      BY <2>1, StaysOn
    <2>3. QED
      BY <2>2, EndsHandOn
  <1>2. QED
    BY <1>1, Invariance, PTL DEF Spec, KeepsIds

=============================================================================
