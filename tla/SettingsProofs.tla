--------------------------- MODULE SettingsProofs ---------------------------
(***************************************************************************)
(* Proofs about Settings, for any keys and values, any workspace to begin  *)
(* with and any commands: PolicyAsAsked and NotesSurvive.                  *)
(*                                                                         *)
(* What is read of two surfaces is first put key by key, and each write is *)
(* shown on two surfaces alone to change nothing that is read (or, for     *)
(* prov config, the key asked for).  The invariant then says how far a     *)
(* command is and what is written so far, and each write takes one stage   *)
(* to the next.                                                            *)
(***************************************************************************)
EXTENDS Settings, TLAPS

-----------------------------------------------------------------------------
(* Surfaces.                                                               *)

\* What is kept and what is dropped by first names.
LEMMA TopsIs ==
    ASSUME NEW s, NEW P
    PROVE  /\ DOMAIN KeepTops(s, P) = {k \in DOMAIN s : Top(k) \in P}
           /\ DOMAIN DropTops(s, P) = {k \in DOMAIN s : Top(k) \notin P}
           /\ \A k \in DOMAIN KeepTops(s, P) : KeepTops(s, P)[k] = s[k]
           /\ \A k \in DOMAIN DropTops(s, P) : DropTops(s, P)[k] = s[k]
  BY DEF KeepTops, DropTops, Restrict

\* What is made of surfaces is a surface.
LEMMA SurfacesAre ==
    ASSUME NEW s, NEW t, IsSurface(s), IsSurface(t), NEW P
    PROVE  /\ IsSurface(Atop(s, t)) /\ IsSurface(KeepTops(s, P)) /\ IsSurface(DropTops(s, P))
           /\ \A S : IsSurface(Restrict(s, DOMAIN s \ S))
           /\ \A k \in Keys, v \in Value : IsSurface(Saying(k, v))
           /\ IsSurface(Blank)
  <1>1. IsSurface(Atop(s, t))
    BY DEF IsSurface, Atop
  <1>2. IsSurface(KeepTops(s, P)) /\ IsSurface(DropTops(s, P))
    BY DEF IsSurface, KeepTops, DropTops, Restrict
  <1>3. \A S : IsSurface(Restrict(s, DOMAIN s \ S))
    BY DEF IsSurface, Restrict
  <1>4. \A k \in Keys, v \in Value : IsSurface(Saying(k, v))
    BY DEF IsSurface, Saying
  <1>5. IsSurface(Blank)
    BY DEF IsSurface, Blank
  <1>6. QED
    BY <1>1, <1>2, <1>3, <1>4, <1>5

\* The keys of a controlled field have one first name, and are no axes.
LEMMA Fields ==
    /\ Field = {Vocabulary, Values} /\ Settled = Axes \cup Field
    /\ \A k \in Field : Top(k) = "fields" /\ k \notin Axes
  <1>1. Top(Vocabulary) = "fields" /\ Top(Values) = "fields"
    BY DEF Top, Vocabulary, Values
  <1>2. QED
    BY <1>1, SettingsAssumption DEF Field, Settled

-----------------------------------------------------------------------------
(* What is read of two surfaces.                                           *)

\* The configuration of a block with a config document over it.
Combine(b, s) == Applied(Applied(Defaults, b), s)

\* What it says of each key.
Reading(b, s, k) ==
    IF k \in Axes
    THEN IF Reads(s, k) THEN s[k] ELSE IF Reads(b, k) THEN b[k] ELSE Default[k]
    ELSE IF Reads(s, Vocabulary) THEN IF Reads(s, k) THEN s[k] ELSE Default[k]
    ELSE IF Reads(b, Vocabulary) THEN IF Reads(b, k) THEN b[k] ELSE Default[k]
    ELSE None

\* A surface over a configuration, key by key.
LEMMA AppliedIs ==
    ASSUME NEW c, NEW s
    PROVE  /\ Applied(c, s) = [k \in Settled |-> Applied(c, s)[k]]
           /\ \A k \in Axes : Applied(c, s)[k] = IF Reads(s, k) THEN s[k] ELSE c[k]
           /\ \A k \in Field : Applied(c, s)[k] =
                IF Reads(s, Vocabulary) THEN IF Reads(s, k) THEN s[k] ELSE Default[k] ELSE c[k]
  <1>1. Applied(c, s) = [k \in Settled |-> Applied(c, s)[k]]
    BY DEF Applied
  <1>2. ASSUME NEW k \in Axes
        PROVE  Applied(c, s)[k] = IF Reads(s, k) THEN s[k] ELSE c[k]
    <2>1. k \in Settled /\ k \notin Field
      BY Fields
    <2>2. QED
      BY <2>1 DEF Applied
  <1>3. ASSUME NEW k \in Field
        PROVE  Applied(c, s)[k] =
                 IF Reads(s, Vocabulary) THEN IF Reads(s, k) THEN s[k] ELSE Default[k] ELSE c[k]
    <2>1. k \in Settled /\ k \notin Axes
      BY Fields
    <2>2. QED
      BY <2>1 DEF Applied
  <1>4. QED
    BY <1>1, <1>2, <1>3

\* The combined configuration, key by key.
LEMMA CombineIs ==
    ASSUME NEW b, NEW s
    PROVE  Combine(b, s) = [k \in Settled |-> Reading(b, s, k)]
  <1>1. PICK c : c = Applied(Defaults, b)
    OBVIOUS
  <1>2. \A k \in Axes : c[k] = IF Reads(b, k) THEN b[k] ELSE Default[k]
    <2>1. \A k \in Axes : Defaults[k] = Default[k]
      BY Fields DEF Defaults
    <2>2. QED
      BY <1>1, <2>1, AppliedIs
  <1>3. \A k \in Field : c[k] = IF Reads(b, Vocabulary)
                                THEN IF Reads(b, k) THEN b[k] ELSE Default[k] ELSE None
    <2>1. \A k \in Field : Defaults[k] = None
      BY Fields DEF Defaults
    <2>2. QED
      BY <1>1, <2>1, AppliedIs
  <1>4. ASSUME NEW k \in Settled
        PROVE  Applied(c, s)[k] = Reading(b, s, k)
    <2>1. CASE k \in Axes
      BY <1>2, <2>1, AppliedIs DEF Reading
    <2>2. CASE k \in Field
      BY <1>3, <2>2, AppliedIs, Fields DEF Reading
    <2>3. QED
      BY <2>1, <2>2, Fields
  <1>5. Applied(c, s) = [k \in Settled |-> Applied(c, s)[k]]
    BY AppliedIs
  <1>6. QED
    BY <1>1, <1>4, <1>5 DEF Combine

\* Surfaces that read alike make one configuration.
LEMMA CombineSame ==
    ASSUME NEW b, NEW s, NEW c, NEW t,
           \A k \in Settled : Reading(b, s, k) = Reading(c, t, k)
    PROVE  Combine(b, s) = Combine(c, t)
  BY CombineIs

\* Nothing that is read is None.
LEMMA ReadsIs ==
    ASSUME NEW s, NEW k \in Settled, Reads(s, k)
    PROVE  s[k] # None /\ s[k] \in Value /\ k \in DOMAIN s
  BY SettingsAssumption DEF Reads, Value

\* Every configuration has values, and a format.
LEMMA Configurations ==
    ASSUME NEW b, NEW s
    PROVE  /\ Combine(b, s) \in [Settled -> Value]
           /\ Combine(b, s)[FormatKey] \in Formats
  <1>1. \A k \in Settled : Default[k] \in Value /\ None \in Value
    BY DEF Value
  <1>2. ASSUME NEW k \in Settled
        PROVE  Reading(b, s, k) \in Value
    BY <1>1, ReadsIs DEF Reading
  <1>3. FormatKey \in Axes /\ FormatKey \in Settled
    BY SettingsAssumption DEF Settled
  <1>4. Reading(b, s, FormatKey) \in Formats
    BY <1>3, SettingsAssumption DEF Reading, Reads, Formats
  <1>5. QED
    BY <1>2, <1>3, <1>4, CombineIs

\* A configuration with every setting written out.
LEMMA ExplicitIs ==
    ASSUME NEW c
    PROVE  /\ DOMAIN Explicit(c) = {k \in Settled : c[k] # None}
           /\ \A k \in DOMAIN Explicit(c) : Explicit(c)[k] = c[k]
  BY DEF Explicit, Restrict

\* A setting that is read is policy.
LEMMA PolicyHas ==
    ASSUME NEW b, NEW s, NEW P, Tops(DOMAIN Explicit(Combine(b, s))) \subseteq P
    PROVE  \A k \in Axes \cup {Vocabulary} : Reads(s, k) \/ Reads(b, k) => Top(k) \in P
  <1> SUFFICES ASSUME NEW k \in Axes \cup {Vocabulary}, Reads(s, k) \/ Reads(b, k)
               PROVE  Top(k) \in P
    OBVIOUS
  <1>1. k \in Settled
    BY Fields
  <1>2. Reading(b, s, k) # None
    BY <1>1, Fields, ReadsIs DEF Reading
  <1>3. k \in DOMAIN Explicit(Combine(b, s))
    BY <1>1, <1>2, CombineIs, ExplicitIs
  <1>4. QED
    BY <1>3 DEF Tops

-----------------------------------------------------------------------------
(* What the writes make of what is read.                                   *)

\* put: one key is set, where a controlled field is the config document's.
LEMMA PutReads ==
    ASSUME NEW b, NEW s, NEW k \in Settled, NEW v \in Valid[k],
           k \in Field => Reads(s, Vocabulary)
    PROVE  Combine(b, Atop(Saying(k, v), s)) = [Combine(b, s) EXCEPT ![k] = v]
  <1> DEFINE t == Atop(Saying(k, v), s)
  <1>1. /\ k \in DOMAIN t /\ t[k] = v
        /\ \A x : x # k => (x \in DOMAIN t <=> x \in DOMAIN s)
        /\ \A x \in DOMAIN s : x # k => t[x] = s[x]
    BY DEF Atop, Saying
  <1> HIDE DEF t
  <1>2. Reads(t, k) /\ \A x : x # k => (Reads(t, x) <=> Reads(s, x))
    BY <1>1 DEF Reads
  <1>3. k \in Field => Reads(t, Vocabulary)
    BY <1>2
  <1>4. ASSUME NEW x \in Settled
        PROVE  Reading(b, t, x) = IF x = k THEN v ELSE Reading(b, s, x)
    <2>1. CASE x = k
      BY <1>1, <1>2, <1>3, <2>1, Fields DEF Reading
    <2>2. CASE x # k /\ x \in Axes
      BY <1>1, <1>2, <2>2 DEF Reading, Reads
    <2>3. CASE x # k /\ x \in Field
      <3>1. Reads(t, Vocabulary) <=> Reads(s, Vocabulary)
        BY <1>2, <2>3, Fields
      <3>2. Reads(t, x) <=> Reads(s, x)
        BY <1>2, <2>3
      <3>3. Reads(s, x) => t[x] = s[x]
        BY <1>1, <2>3 DEF Reads
      <3>4. x \notin Axes
        BY <2>3, Fields
      <3>5. QED
        BY <2>3, <3>1, <3>2, <3>3, <3>4 DEF Reading
    <2>4. QED
      BY <2>1, <2>2, <2>3, Fields
  <1>5. QED
    BY <1>4, CombineIs DEF t

\* materialize: what is in effect is written out.
LEMMA MaterializeReads ==
    ASSUME NEW b, NEW s, NEW e, e = Explicit(Combine(b, s))
    PROVE  Combine(b, Atop(e, DropTops(s, Tops(DOMAIN e)))) = Combine(b, s)
  <1> DEFINE t == Atop(e, DropTops(s, Tops(DOMAIN e)))
  <1>1. /\ DOMAIN e = {k \in Settled : Reading(b, s, k) # None}
        /\ \A k \in DOMAIN e : e[k] = Reading(b, s, k)
    <2>1. \A k \in Settled : Combine(b, s)[k] = Reading(b, s, k)
      BY CombineIs
    <2>2. DOMAIN e = {k \in Settled : Combine(b, s)[k] # None}
      BY ExplicitIs
    <2>3. \A k \in DOMAIN e : e[k] = Combine(b, s)[k]
      BY ExplicitIs
    <2>4. QED
      BY <2>1, <2>2, <2>3
  <1>2. ASSUME NEW k, k \in DOMAIN e
        PROVE  k \in DOMAIN t /\ t[k] = e[k]
    BY <1>2 DEF Atop
  <1>3. ASSUME NEW k, k \in DOMAIN t, k \notin DOMAIN e
        PROVE  k \in DOMAIN s /\ t[k] = s[k] /\ Top(k) \notin Tops(DOMAIN e)
    BY <1>3 DEF Atop, DropTops, Restrict
  <1> HIDE DEF t
  <1>4. ASSUME NEW k \in Axes
        PROVE  Reading(b, t, k) = Reading(b, s, k)
    <2>1. k \in Settled
      BY Fields
    <2>2. CASE k \in DOMAIN e
      BY <1>1, <1>2, <2>2 DEF Reading, Reads
    <2>3. CASE k \notin DOMAIN e
      <3>1. Reading(b, s, k) = None
        BY <1>1, <2>1, <2>3
      <3>2. ~Reads(s, k) /\ ~Reads(b, k)
        BY <2>1, <3>1, ReadsIs DEF Reading
      <3>3. ~Reads(t, k)
        BY <1>3, <2>3, <3>2 DEF Reads
      <3>4. QED
        BY <3>2, <3>3 DEF Reading
    <2>4. QED
      BY <2>2, <2>3
  <1>5. ASSUME NEW k \in Field
        PROVE  Reading(b, t, k) = Reading(b, s, k)
    <2>1. k \in Settled /\ Vocabulary \in Settled /\ k \notin Axes /\ Vocabulary \notin Axes
      BY Fields
    <2>2. CASE Vocabulary \in DOMAIN e
      <3>1. Reads(s, Vocabulary) \/ Reads(b, Vocabulary)
        BY <1>1, <2>1, <2>2 DEF Reading
      <3>2. Reads(t, Vocabulary)
        BY <1>1, <1>2, <2>1, <2>2, <3>1 DEF Reading, Reads
      <3>3. CASE k \in DOMAIN e
        BY <1>1, <1>2, <2>1, <3>1, <3>2, <3>3 DEF Reading, Reads
      <3>4. CASE k \notin DOMAIN e
        <4>1. Reading(b, s, k) = None
          BY <1>1, <2>1, <3>4
        <4>2. Default[k] = None
          BY <2>1, <3>1, <4>1, ReadsIs DEF Reading
        <4>3. Top(k) = Top(Vocabulary)
          BY Fields
        <4>4. k \notin DOMAIN t
          BY <1>3, <2>2, <3>4, <4>3 DEF Tops
        <4>5. QED
          BY <2>1, <3>2, <4>1, <4>2, <4>4 DEF Reading, Reads
      <3>5. QED
        BY <3>3, <3>4
    <2>3. CASE Vocabulary \notin DOMAIN e
      <3>1. Reading(b, s, Vocabulary) = None
        BY <1>1, <2>1, <2>3
      <3>2. ~Reads(s, Vocabulary) /\ ~Reads(b, Vocabulary)
        BY <2>1, <3>1, ReadsIs DEF Reading
      <3>3. ~Reads(t, Vocabulary)
        BY <1>3, <2>3, <3>2 DEF Reads
      <3>4. QED
        BY <2>1, <3>2, <3>3 DEF Reading
    <2>4. QED
      BY <2>2, <2>3
  <1>6. QED
    BY <1>4, <1>5, Fields, CombineSame DEF t

\* The policy of two surfaces, the second over the first, is taken into one.
TakenIn(s, b, P) == Atop(KeepTops(s, P), KeepTops(b, P))

\* Where --home does what it promises.
Apart(b, s) ==
    /\ \A k \in DOMAIN b \cap DOMAIN s : k \in Settled => Reads(s, k)
    /\ ~("fields" \in Tops(DOMAIN b) /\ "fields" \in Tops(DOMAIN s))

\* Of a controlled field one surface says nothing.
LEMMA FieldApart ==
    ASSUME NEW b, NEW s, Apart(b, s)
    PROVE  \/ \A k \in Field : k \notin DOMAIN b
           \/ \A k \in Field : k \notin DOMAIN s
  <1>1. ASSUME NEW t, NEW k \in Field, k \in DOMAIN t
        PROVE  "fields" \in Tops(DOMAIN t)
    BY <1>1, Fields DEF Tops
  <1>2. QED
    BY <1>1 DEF Apart

\* fill: the config document takes the block's policy in.
LEMMA FillReads ==
    ASSUME NEW b, NEW s, NEW P, Apart(b, s), Tops(DOMAIN Explicit(Combine(b, s))) \subseteq P
    PROVE  LET t == Atop(TakenIn(s, b, P), DropTops(s, P))
           IN  /\ Combine(b, t) = Combine(b, s)
               /\ \A k \in Axes \cup {Vocabulary} : Reads(b, k) => Reads(t, k)
  <1> DEFINE t == Atop(TakenIn(s, b, P), DropTops(s, P))
  <1>a. /\ DOMAIN TakenIn(s, b, P) = {k \in DOMAIN s \cup DOMAIN b : Top(k) \in P}
        /\ \A k \in DOMAIN TakenIn(s, b, P) :
             TakenIn(s, b, P)[k] = IF k \in DOMAIN s THEN s[k] ELSE b[k]
    <2>1. DOMAIN TakenIn(s, b, P) = {k \in DOMAIN s \cup DOMAIN b : Top(k) \in P}
      BY DEF TakenIn, Atop, KeepTops, Restrict
    <2>2. ASSUME NEW k \in DOMAIN TakenIn(s, b, P)
          PROVE  TakenIn(s, b, P)[k] = IF k \in DOMAIN s THEN s[k] ELSE b[k]
      BY DEF TakenIn, Atop, KeepTops, Restrict
    <2>3. QED
      BY <2>1, <2>2
  <1>b. /\ DOMAIN DropTops(s, P) = {k \in DOMAIN s : Top(k) \notin P}
        /\ \A k \in DOMAIN DropTops(s, P) : DropTops(s, P)[k] = s[k]
    BY TopsIs
  <1>c. /\ DOMAIN t = DOMAIN TakenIn(s, b, P) \cup DOMAIN DropTops(s, P)
        /\ \A k \in DOMAIN t : t[k] = IF k \in DOMAIN TakenIn(s, b, P)
                                     THEN TakenIn(s, b, P)[k] ELSE DropTops(s, P)[k]
    BY DEF Atop
  <1>1. ASSUME NEW k, k \in DOMAIN s
        PROVE  k \in DOMAIN t /\ t[k] = s[k]
    BY <1>1, <1>a, <1>b, <1>c
  <1>2. ASSUME NEW k, k \notin DOMAIN s
        PROVE  /\ k \in DOMAIN t <=> k \in DOMAIN b /\ Top(k) \in P
               /\ k \in DOMAIN t => t[k] = b[k]
    BY <1>2, <1>a, <1>b, <1>c
  <1> HIDE DEF t
  <1>3. \A k \in Axes \cup {Vocabulary} : Reads(s, k) \/ Reads(b, k) => Top(k) \in P
    BY PolicyHas
  <1>4. ASSUME NEW k \in Axes
        PROVE  Reading(b, t, k) = Reading(b, s, k) /\ (Reads(b, k) => Reads(t, k))
    <2>1. k \in Settled
      BY Fields
    <2>2. CASE k \in DOMAIN s
      <3>1. Reads(t, k) <=> Reads(s, k)
        BY <1>1, <2>2 DEF Reads
      <3>2. Reads(b, k) => Reads(s, k)
        BY <2>1, <2>2 DEF Apart, Reads
      <3>3. QED
        BY <1>1, <2>2, <3>1, <3>2 DEF Reading
    <2>3. CASE k \notin DOMAIN s
      <3>1. ~Reads(s, k)
        BY <2>3 DEF Reads
      <3>2. Reads(t, k) <=> Reads(b, k)
        BY <1>2, <1>3, <2>3 DEF Reads
      <3>3. Reads(b, k) => t[k] = b[k]
        BY <1>2, <1>3, <2>3 DEF Reads
      <3>4. QED
        BY <3>1, <3>2, <3>3 DEF Reading
    <2>4. QED
      BY <2>2, <2>3
  <1>5. ASSUME NEW k \in Field
        PROVE  Reading(b, t, k) = Reading(b, s, k)
    <2>1. k \in Field /\ Vocabulary \in Field /\ k \notin Axes
      BY Fields
    <2>2. CASE \A x \in Field : x \notin DOMAIN b
      <3>1. \A x \in Field : Reads(t, x) <=> Reads(s, x)
        BY <1>1, <1>2, <2>2 DEF Reads
      <3>2. Reads(s, k) => t[k] = s[k]
        BY <1>1 DEF Reads
      <3>3. QED
        BY <2>1, <3>1, <3>2 DEF Reading
    <2>3. CASE \A x \in Field : x \notin DOMAIN s
      <3>1. ~Reads(s, Vocabulary)
        BY <2>1, <2>3 DEF Reads
      <3>2. CASE Reads(b, Vocabulary)
        <4>1. Top(k) \in P /\ Top(Vocabulary) \in P
          BY <1>3, <2>1, <3>2, Fields
        <4>2. Reads(t, Vocabulary)
          BY <1>2, <2>1, <2>3, <3>2, <4>1 DEF Reads
        <4>3. (Reads(t, k) <=> Reads(b, k)) /\ (Reads(b, k) => t[k] = b[k])
          BY <1>2, <2>1, <2>3, <4>1 DEF Reads
        <4>4. QED
          BY <2>1, <3>1, <3>2, <4>2, <4>3 DEF Reading
      <3>3. CASE ~Reads(b, Vocabulary)
        <4>1. ~Reads(t, Vocabulary)
          BY <1>2, <2>1, <2>3, <3>3 DEF Reads
        <4>2. QED
          BY <2>1, <3>1, <3>3, <4>1 DEF Reading
      <3>4. QED
        BY <3>2, <3>3
    <2>4. QED
      BY <2>2, <2>3, FieldApart
  <1>6. Reads(b, Vocabulary) => Reads(t, Vocabulary)
    <2>1. Vocabulary \in Field /\ Vocabulary \in Settled
      BY Fields
    <2>2. CASE Vocabulary \in DOMAIN s
      BY <1>1, <2>1, <2>2 DEF Apart, Reads
    <2>3. CASE Vocabulary \notin DOMAIN s
      BY <1>2, <1>3, <2>3 DEF Reads
    <2>4. QED
      BY <2>2, <2>3
  <1>7. Combine(b, t) = Combine(b, s)
    BY <1>4, <1>5, Fields, CombineSame
  <1>8. QED
    BY <1>4, <1>6, <1>7 DEF t

\* strip: the block is emptied of what the config document says as well.
LEMMA StripReads ==
    ASSUME NEW b, NEW s, NEW P, Tops(DOMAIN Explicit(Combine(b, s))) \subseteq P,
           \A k \in Axes \cup {Vocabulary} : Top(k) \in P /\ Reads(b, k) => Reads(s, k)
    PROVE  Combine(DropTops(b, P), s) = Combine(b, s)
  <1> DEFINE c == DropTops(b, P)
  <1>1. \A k : k \in DOMAIN c <=> k \in DOMAIN b /\ Top(k) \notin P
    BY DEF DropTops, Restrict
  <1> HIDE DEF c
  <1>2. \A k \in Axes \cup {Vocabulary} : Reads(b, k) => Reads(s, k)
    BY PolicyHas
  <1>3. \A k \in Axes \cup {Vocabulary} : ~Reads(b, k) => ~Reads(c, k)
    <2>1. \A k \in DOMAIN c : c[k] = b[k]
      BY DEF c, DropTops, Restrict
    <2>2. QED
      BY <1>1, <2>1 DEF Reads
  <1>4. ASSUME NEW k \in Settled
        PROVE  Reading(c, s, k) = Reading(b, s, k)
    <2>1. CASE k \in Axes
      BY <1>2, <1>3, <2>1 DEF Reading
    <2>2. CASE k \in Field
      BY <1>2, <1>3, <2>2, Fields DEF Reading
    <2>3. QED
      BY <2>1, <2>2, Fields
  <1>5. QED
    BY <1>4, CombineSame DEF c

\* What one surface says of the policy another says too.
Agree(b, s) ==
    /\ \A k \in Axes : Reads(s, k) => Reads(b, k) /\ b[k] = s[k]
    /\ Reads(s, Vocabulary) =>
          \A k \in Field : /\ Reads(s, k) <=> Reads(b, k)
                           /\ Reads(s, k) => b[k] = s[k]

\* merge: the block takes the config document's policy in.
LEMMA MergeReads ==
    ASSUME NEW b, NEW s, NEW P, Apart(b, s), Tops(DOMAIN Explicit(Combine(b, s))) \subseteq P,
           NEW d, d = TakenIn(s, b, P)
    PROVE  LET c == Atop(d, DropTops(b, Tops(DOMAIN d)))
           IN  Combine(c, s) = Combine(b, s) /\ Agree(c, s)
  <1> DEFINE c == Atop(d, DropTops(b, Tops(DOMAIN d)))
             r == DropTops(b, Tops(DOMAIN d))
  <1>a. /\ DOMAIN d = {k \in DOMAIN s \cup DOMAIN b : Top(k) \in P}
        /\ \A k \in DOMAIN d : d[k] = IF k \in DOMAIN s THEN s[k] ELSE b[k]
    <2>1. DOMAIN d = {k \in DOMAIN s \cup DOMAIN b : Top(k) \in P}
      BY DEF TakenIn, Atop, KeepTops, Restrict
    <2>2. ASSUME NEW k \in DOMAIN d
          PROVE  d[k] = IF k \in DOMAIN s THEN s[k] ELSE b[k]
      BY DEF TakenIn, Atop, KeepTops, Restrict
    <2>3. QED
      BY <2>1, <2>2
  <1>b. /\ DOMAIN r = {k \in DOMAIN b : Top(k) \notin Tops(DOMAIN d)}
        /\ \A k \in DOMAIN r : r[k] = b[k]
    BY TopsIs
  <1>c. /\ DOMAIN c = DOMAIN d \cup DOMAIN r
        /\ \A k \in DOMAIN c : c[k] = IF k \in DOMAIN d THEN d[k] ELSE r[k]
    BY DEF Atop
  <1> HIDE DEF c, r
  <1>d. \A k : Top(k) \in Tops(DOMAIN d) => Top(k) \in P
    BY <1>a DEF Tops
  <1>e. \A k \in DOMAIN d : Top(k) \in Tops(DOMAIN d)
    BY DEF Tops
  <1>1. ASSUME NEW k, Top(k) \in P
        PROVE  /\ k \in DOMAIN c <=> k \in DOMAIN s \cup DOMAIN b
               /\ k \in DOMAIN s => c[k] = s[k]
               /\ k \in DOMAIN b /\ k \notin DOMAIN s => c[k] = b[k]
    BY <1>1, <1>a, <1>b, <1>c, <1>e
  <1>2. ASSUME NEW k, Top(k) \notin P
        PROVE  /\ k \in DOMAIN c <=> k \in DOMAIN b
               /\ k \in DOMAIN b => c[k] = b[k]
    BY <1>2, <1>a, <1>b, <1>c, <1>d
  <1>3. \A k \in Axes \cup {Vocabulary} : Reads(s, k) \/ Reads(b, k) => Top(k) \in P
    BY PolicyHas
  <1>4. ASSUME NEW k \in Axes
        PROVE  /\ Reading(c, s, k) = Reading(b, s, k)
               /\ Reads(s, k) => Reads(c, k) /\ c[k] = s[k]
    <2>1. k \in Settled
      BY Fields
    <2>2. CASE Reads(s, k)
      <3>1. k \in DOMAIN s /\ Top(k) \in P
        BY <1>3, <2>2 DEF Reads
      <3>2. Reads(c, k) /\ c[k] = s[k]
        BY <1>1, <2>2, <3>1 DEF Reads
      <3>3. QED
        BY <2>2, <3>2 DEF Reading
    <2>3. CASE ~Reads(s, k)
      <3>1. k \in DOMAIN s => ~Reads(b, k)
        BY <2>1, <2>3 DEF Apart, Reads
      <3>2. Reads(b, k) => Reads(c, k) /\ c[k] = b[k]
        BY <1>1, <1>3, <3>1 DEF Reads
      <3>3. ~Reads(b, k) => ~Reads(c, k)
        BY <1>1, <1>2, <2>3 DEF Reads
      <3>4. QED
        BY <2>3, <3>2, <3>3 DEF Reading
    <2>4. QED
      BY <2>2, <2>3
  <1>5. ASSUME NEW k \in Field
        PROVE  /\ Reading(c, s, k) = Reading(b, s, k)
               /\ Reads(s, Vocabulary) => /\ Reads(s, k) <=> Reads(c, k)
                                          /\ Reads(s, k) => c[k] = s[k]
    <2>1. k \in Field /\ Vocabulary \in Field /\ k \notin Axes /\ Top(k) = Top(Vocabulary)
      BY Fields
    <2>2. CASE Reads(s, Vocabulary)
      <3>1. Top(k) \in P
        BY <1>3, <2>1, <2>2
      <3>2. Vocabulary \in DOMAIN s
        BY <2>2 DEF Reads
      <3>3. k \notin DOMAIN b
        BY <2>1, <3>2, FieldApart
      <3>4. (Reads(s, k) <=> Reads(c, k)) /\ (Reads(s, k) => c[k] = s[k])
        BY <1>1, <3>1, <3>3 DEF Reads
      <3>5. QED
        BY <2>1, <2>2, <3>4 DEF Reading
    <2>3. CASE ~Reads(s, Vocabulary) /\ Reads(b, Vocabulary)
      <3>1. Top(k) \in P /\ Top(Vocabulary) \in P
        BY <1>3, <2>1, <2>3
      <3>2. \A x \in Field : x \notin DOMAIN s
        BY <2>1, <2>3, FieldApart DEF Reads
      <3>3. /\ Reads(c, Vocabulary)
            /\ Reads(b, k) <=> Reads(c, k)
            /\ Reads(b, k) => c[k] = b[k]
        BY <1>1, <2>1, <2>3, <3>1, <3>2 DEF Reads
      <3>4. QED
        BY <2>1, <2>3, <3>3 DEF Reading
    <2>4. CASE ~Reads(s, Vocabulary) /\ ~Reads(b, Vocabulary)
      <3>1. ~Reads(c, Vocabulary)
        BY <1>1, <1>2, <2>4 DEF Reads
      <3>2. QED
        BY <2>1, <2>4, <3>1 DEF Reading
    <2>5. QED
      BY <2>2, <2>3, <2>4
  <1>6. Combine(c, s) = Combine(b, s)
    BY <1>4, <1>5, Fields, CombineSame
  <1>7. Agree(c, s)
    BY <1>4, <1>5 DEF Agree
  <1>8. QED
    BY <1>6, <1>7 DEF c

\* retire: a config document that says nothing the block does not may go.
LEMMA RetireReads ==
    ASSUME NEW b, NEW s, NEW r, Agree(b, s), \A k \in Axes \cup {Vocabulary} : ~Reads(r, k)
    PROVE  Combine(b, r) = Combine(b, s)
  <1>1. ASSUME NEW k \in Axes
        PROVE  Reading(b, r, k) = Reading(b, s, k)
    BY DEF Agree, Reading
  <1>2. ASSUME NEW k \in Field
        PROVE  Reading(b, r, k) = Reading(b, s, k)
    BY Fields DEF Agree, Reading
  <1>3. QED
    BY <1>1, <1>2, Fields, CombineSame

\* Policy that is dropped is not read.
LEMMA DroppedReads ==
    ASSUME NEW b, NEW s, NEW P, Tops(DOMAIN Explicit(Combine(b, s))) \subseteq P
    PROVE  \A k \in Axes \cup {Vocabulary} : ~Reads(DropTops(s, P), k)
  <1> SUFFICES ASSUME NEW k \in Axes \cup {Vocabulary}, Reads(DropTops(s, P), k)
               PROVE  FALSE
    OBVIOUS
  <1>1. k \in DOMAIN DropTops(s, P)
    BY DEF Reads
  <1>2. k \in DOMAIN s /\ Top(k) \notin P /\ DropTops(s, P)[k] = s[k]
    BY <1>1 DEF DropTops, Restrict
  <1>3. Reads(s, k)
    BY <1>2 DEF Reads
  <1>4. QED
    BY <1>2, <1>3, PolicyHas

\* An empty surface changes nothing.
LEMMA BlankReads ==
    /\ \A k : ~Reads(Blank, k)
    /\ \A b : Combine(b, Blank) = Applied(Defaults, b)
  <1>1. \A k : ~Reads(Blank, k)
    BY DEF Reads, Blank
  <1>2. ASSUME NEW b
        PROVE  Combine(b, Blank) = Applied(Defaults, b)
    <2>1. PICK c : c = Applied(Defaults, b)
      OBVIOUS
    <2>2. \A k \in Settled : Applied(c, Blank)[k] = c[k]
      BY <1>1, AppliedIs, Fields
    <2>3. Applied(c, Blank) = [k \in Settled |-> Applied(c, Blank)[k]] /\ c = [k \in Settled |-> c[k]]
      BY <2>1, AppliedIs
    <2>4. Applied(c, Blank) = c
      BY <2>2, <2>3
    <2>5. QED
      BY <2>1, <2>4 DEF Combine
  <1>3. QED
    BY <1>1, <1>2

-----------------------------------------------------------------------------
(* The commands.                                                           *)

\* What is asked.
LEMMA RequestIs ==
    ASSUME NEW req \in Request
    PROVE  /\ req.op \in {"set", "setup", "home sidecar", "home root"}
           /\ req.op = "set" => req.key \in Keys /\ req.value \in Value
  <1>1. CASE \E k \in Keys, v \in Value : req = Set(k, v)
    BY <1>1 DEF Set
  <1>2. CASE req \in {Setup, HomeSide, HomeRoot}
    <2>1. CASE req = Setup
      BY <2>1 DEF Setup
    <2>2. CASE req = HomeSide
      BY <2>2 DEF HomeSide
    <2>3. CASE req = HomeRoot
      BY <2>3 DEF HomeRoot
    <2>4. QED
      BY <1>2, <2>1, <2>2, <2>3
  <1>3. (\E k \in Keys, v \in Value : req = Set(k, v)) \/ req \in {Setup, HomeSide, HomeRoot}
    BY DEF Request
  <1>4. QED
    BY <1>1, <1>2, <1>3

\* What is left to write, and what comes after each write.
LEMMA LeftIs ==
    ASSUME NEW req \in Request, NEW todo \in Left(req), todo # <<>>
    PROVE  /\ Head(todo) = "ensure" =>
                /\ todo = Writes(req) /\ req.op # "home root"
                /\ Tail(todo) \in {<<"put">>, <<"materialize">>, <<"fill", "strip">>}
           /\ Head(todo) = "put" => req.op = "set" /\ todo = <<"put">>
           /\ Head(todo) = "materialize" => req.op = "setup" /\ todo = <<"materialize">>
           /\ Head(todo) = "fill" => req.op = "home sidecar" /\ todo = <<"fill", "strip">>
           /\ Head(todo) = "strip" => req.op = "home sidecar" /\ todo = <<"strip">>
           /\ Head(todo) = "merge" => req.op = "home root" /\ todo = Writes(req)
           /\ Head(todo) = "retire" => req.op = "home root" /\ todo = <<"retire">>
           /\ Head(todo) = "remove" => req.op = "home root" /\ todo = <<"remove">>
           /\ Tail(todo) \in Left(req) /\ Tail(todo) # <<"remove">>
           /\ todo = Writes(req) => Head(todo) \in {"ensure", "merge"}
  <1>1. CASE req.op = "set"
    <2>1. /\ Writes(req) = <<"ensure", "put">>
          /\ Left(req) = {<<"ensure", "put">>, <<>>, <<"put">>}
      BY <1>1 DEF Left, Writes
    <2>2. CASE todo = <<"ensure", "put">>
      <3>1. Head(todo) = "ensure" /\ Tail(todo) = <<"put">>
        BY <2>2
      <3>2. Tail(todo) \in Left(req) /\ Tail(todo) # <<"remove">>
        BY <2>1, <3>1
      <3>3. todo = Writes(req) => Head(todo) \in {"ensure", "merge"}
        BY <2>1, <2>2, <3>1
      <3>4. Head(todo) = "ensure" =>
              /\ todo = Writes(req) /\ req.op # "home root"
              /\ Tail(todo) \in {<<"put">>, <<"materialize">>, <<"fill", "strip">>}
        BY <1>1, <2>1, <2>2, <3>1
      <3>5. Head(todo) = "merge" => req.op = "home root" /\ todo = Writes(req)
        BY <1>1, <2>1, <2>2, <3>1
      <3>6. QED
        BY <1>1, <2>2, <3>1, <3>2, <3>3, <3>4, <3>5
    <2>3. CASE todo = <<"put">>
      <3>1. Head(todo) = "put" /\ Tail(todo) = <<>>
        BY <2>3
      <3>2. Tail(todo) \in Left(req) /\ Tail(todo) # <<"remove">>
        BY <2>1, <3>1
      <3>3. todo = Writes(req) => Head(todo) \in {"ensure", "merge"}
        BY <2>1, <2>3, <3>1
      <3>4. Head(todo) = "ensure" =>
              /\ todo = Writes(req) /\ req.op # "home root"
              /\ Tail(todo) \in {<<"put">>, <<"materialize">>, <<"fill", "strip">>}
        BY <1>1, <2>1, <2>3, <3>1
      <3>5. Head(todo) = "merge" => req.op = "home root" /\ todo = Writes(req)
        BY <1>1, <2>1, <2>3, <3>1
      <3>6. QED
        BY <1>1, <2>3, <3>1, <3>2, <3>3, <3>4, <3>5
    <2>4. QED
      BY <2>1, <2>2, <2>3
  <1>2. CASE req.op = "setup"
    <2>1. /\ Writes(req) = <<"ensure", "materialize">>
          /\ Left(req) = {<<"ensure", "materialize">>, <<>>, <<"materialize">>}
      BY <1>2 DEF Left, Writes
    <2>2. CASE todo = <<"ensure", "materialize">>
      <3>1. Head(todo) = "ensure" /\ Tail(todo) = <<"materialize">>
        BY <2>2
      <3>2. Tail(todo) \in Left(req) /\ Tail(todo) # <<"remove">>
        BY <2>1, <3>1
      <3>3. todo = Writes(req) => Head(todo) \in {"ensure", "merge"}
        BY <2>1, <2>2, <3>1
      <3>4. Head(todo) = "ensure" =>
              /\ todo = Writes(req) /\ req.op # "home root"
              /\ Tail(todo) \in {<<"put">>, <<"materialize">>, <<"fill", "strip">>}
        BY <1>2, <2>1, <2>2, <3>1
      <3>5. Head(todo) = "merge" => req.op = "home root" /\ todo = Writes(req)
        BY <1>2, <2>1, <2>2, <3>1
      <3>6. QED
        BY <1>2, <2>2, <3>1, <3>2, <3>3, <3>4, <3>5
    <2>3. CASE todo = <<"materialize">>
      <3>1. Head(todo) = "materialize" /\ Tail(todo) = <<>>
        BY <2>3
      <3>2. Tail(todo) \in Left(req) /\ Tail(todo) # <<"remove">>
        BY <2>1, <3>1
      <3>3. todo = Writes(req) => Head(todo) \in {"ensure", "merge"}
        BY <2>1, <2>3, <3>1
      <3>4. Head(todo) = "ensure" =>
              /\ todo = Writes(req) /\ req.op # "home root"
              /\ Tail(todo) \in {<<"put">>, <<"materialize">>, <<"fill", "strip">>}
        BY <1>2, <2>1, <2>3, <3>1
      <3>5. Head(todo) = "merge" => req.op = "home root" /\ todo = Writes(req)
        BY <1>2, <2>1, <2>3, <3>1
      <3>6. QED
        BY <1>2, <2>3, <3>1, <3>2, <3>3, <3>4, <3>5
    <2>4. QED
      BY <2>1, <2>2, <2>3
  <1>3. CASE req.op = "home sidecar"
    <2>1. /\ Writes(req) = <<"ensure", "fill", "strip">>
          /\ Left(req) = {<<"ensure", "fill", "strip">>, <<>>, <<"fill", "strip">>, <<"strip">>}
      BY <1>3 DEF Left, Writes
    <2>2. CASE todo = <<"ensure", "fill", "strip">>
      <3>1. Head(todo) = "ensure" /\ Tail(todo) = <<"fill", "strip">>
        BY <2>2
      <3>2. Tail(todo) \in Left(req) /\ Tail(todo) # <<"remove">>
        BY <2>1, <3>1
      <3>3. todo = Writes(req) => Head(todo) \in {"ensure", "merge"}
        BY <2>1, <2>2, <3>1
      <3>4. Head(todo) = "ensure" =>
              /\ todo = Writes(req) /\ req.op # "home root"
              /\ Tail(todo) \in {<<"put">>, <<"materialize">>, <<"fill", "strip">>}
        BY <1>3, <2>1, <2>2, <3>1
      <3>5. Head(todo) = "merge" => req.op = "home root" /\ todo = Writes(req)
        BY <1>3, <2>1, <2>2, <3>1
      <3>6. QED
        BY <1>3, <2>2, <3>1, <3>2, <3>3, <3>4, <3>5
    <2>3. CASE todo = <<"fill", "strip">>
      <3>1. Head(todo) = "fill" /\ Tail(todo) = <<"strip">>
        BY <2>3
      <3>2. Tail(todo) \in Left(req) /\ Tail(todo) # <<"remove">>
        BY <2>1, <3>1
      <3>3. todo = Writes(req) => Head(todo) \in {"ensure", "merge"}
        BY <2>1, <2>3, <3>1
      <3>4. Head(todo) = "ensure" =>
              /\ todo = Writes(req) /\ req.op # "home root"
              /\ Tail(todo) \in {<<"put">>, <<"materialize">>, <<"fill", "strip">>}
        BY <1>3, <2>1, <2>3, <3>1
      <3>5. Head(todo) = "merge" => req.op = "home root" /\ todo = Writes(req)
        BY <1>3, <2>1, <2>3, <3>1
      <3>6. QED
        BY <1>3, <2>3, <3>1, <3>2, <3>3, <3>4, <3>5
    <2>4. CASE todo = <<"strip">>
      <3>1. Head(todo) = "strip" /\ Tail(todo) = <<>>
        BY <2>4
      <3>2. Tail(todo) \in Left(req) /\ Tail(todo) # <<"remove">>
        BY <2>1, <3>1
      <3>3. todo = Writes(req) => Head(todo) \in {"ensure", "merge"}
        BY <2>1, <2>4, <3>1
      <3>4. Head(todo) = "ensure" =>
              /\ todo = Writes(req) /\ req.op # "home root"
              /\ Tail(todo) \in {<<"put">>, <<"materialize">>, <<"fill", "strip">>}
        BY <1>3, <2>1, <2>4, <3>1
      <3>5. Head(todo) = "merge" => req.op = "home root" /\ todo = Writes(req)
        BY <1>3, <2>1, <2>4, <3>1
      <3>6. QED
        BY <1>3, <2>4, <3>1, <3>2, <3>3, <3>4, <3>5
    <2>5. QED
      BY <2>1, <2>2, <2>3, <2>4
  <1>4. CASE req.op = "home root"
    <2>1. /\ Writes(req) = <<"merge", "retire">>
          /\ Left(req) = {<<"merge", "retire">>, <<>>, <<"retire">>, <<"remove">>}
      BY <1>4 DEF Left, Writes
    <2>2. CASE todo = <<"merge", "retire">>
      <3>1. Head(todo) = "merge" /\ Tail(todo) = <<"retire">>
        BY <2>2
      <3>2. Tail(todo) \in Left(req) /\ Tail(todo) # <<"remove">>
        BY <2>1, <3>1
      <3>3. todo = Writes(req) => Head(todo) \in {"ensure", "merge"}
        BY <2>1, <2>2, <3>1
      <3>4. Head(todo) = "ensure" =>
              /\ todo = Writes(req) /\ req.op # "home root"
              /\ Tail(todo) \in {<<"put">>, <<"materialize">>, <<"fill", "strip">>}
        BY <1>4, <2>1, <2>2, <3>1
      <3>5. Head(todo) = "merge" => req.op = "home root" /\ todo = Writes(req)
        BY <1>4, <2>1, <2>2, <3>1
      <3>6. QED
        BY <1>4, <2>2, <3>1, <3>2, <3>3, <3>4, <3>5
    <2>3. CASE todo = <<"retire">>
      <3>1. Head(todo) = "retire" /\ Tail(todo) = <<>>
        BY <2>3
      <3>2. Tail(todo) \in Left(req) /\ Tail(todo) # <<"remove">>
        BY <2>1, <3>1
      <3>3. todo = Writes(req) => Head(todo) \in {"ensure", "merge"}
        BY <2>1, <2>3, <3>1
      <3>4. Head(todo) = "ensure" =>
              /\ todo = Writes(req) /\ req.op # "home root"
              /\ Tail(todo) \in {<<"put">>, <<"materialize">>, <<"fill", "strip">>}
        BY <1>4, <2>1, <2>3, <3>1
      <3>5. Head(todo) = "merge" => req.op = "home root" /\ todo = Writes(req)
        BY <1>4, <2>1, <2>3, <3>1
      <3>6. QED
        BY <1>4, <2>3, <3>1, <3>2, <3>3, <3>4, <3>5
    <2>4. CASE todo = <<"remove">>
      <3>1. Head(todo) = "remove" /\ Tail(todo) = <<>>
        BY <2>4
      <3>2. Tail(todo) \in Left(req) /\ Tail(todo) # <<"remove">>
        BY <2>1, <3>1
      <3>3. todo = Writes(req) => Head(todo) \in {"ensure", "merge"}
        BY <2>1, <2>4, <3>1
      <3>4. Head(todo) = "ensure" =>
              /\ todo = Writes(req) /\ req.op # "home root"
              /\ Tail(todo) \in {<<"put">>, <<"materialize">>, <<"fill", "strip">>}
        BY <1>4, <2>1, <2>4, <3>1
      <3>5. Head(todo) = "merge" => req.op = "home root" /\ todo = Writes(req)
        BY <1>4, <2>1, <2>4, <3>1
      <3>6. QED
        BY <1>4, <2>4, <3>1, <3>2, <3>3, <3>4, <3>5
    <2>5. QED
      BY <2>1, <2>2, <2>3, <2>4
  <1>5. QED
    BY <1>1, <1>2, <1>3, <1>4, RequestIs

\* Every command has something to write.
LEMMA WritesIs ==
    ASSUME NEW req \in Request
    PROVE  /\ Writes(req) # <<>> /\ Writes(req) \in Left(req) /\ Writes(req) # <<"remove">>
           /\ <<>> \in Left(req)
           /\ req.op = "home root" => <<"remove">> \in Left(req)
  <1>1. CASE req.op = "set"
    BY <1>1 DEF Left, Writes
  <1>2. CASE req.op = "setup"
    BY <1>2 DEF Left, Writes
  <1>3. CASE req.op = "home sidecar"
    BY <1>3 DEF Left, Writes
  <1>4. CASE req.op = "home root"
    BY <1>4 DEF Left, Writes
  <1>5. QED
    BY <1>1, <1>2, <1>3, <1>4, RequestIs

-----------------------------------------------------------------------------
(* What is in effect.                                                      *)

\* What is seen of a config document.
Seen(docs, ptr) == IF Readable(docs, ptr) THEN docs[ptr].says ELSE Blank

\* What is in effect is what is seen of both places.
LEMMA EffectiveIs ==
    ASSUME NEW b, NEW p, NEW d
    PROVE  Effective(b, p, d) = Combine(b, Seen(d, p))
  BY BlankReads DEF Effective, Seen, Combine

\* The names that are policy, and what is written of it.
LEMMA PolicyIs ==
    ASSUME IsSurface(root), AreDocs(side), points \in DOMAIN side \cup {None}
    PROVE  /\ Tops(DOMAIN Explicit(Now)) \subseteq Policy /\ Policy \subseteq PolicyTops
           /\ IsSurface(Says) /\ Declared = TakenIn(Says, root, Policy)
           /\ IsSurface(Declared) /\ Tops(DOMAIN Declared) \subseteq Policy
           /\ Now = Combine(root, Seen(side, points))
           /\ Now \in [Settled -> Value] /\ Now[FormatKey] \in Formats
           /\ None \notin DOMAIN side
  <1>1. Now = Combine(root, Seen(side, points))
    BY EffectiveIs DEF Now
  <1>2. Now \in [Settled -> Value] /\ Now[FormatKey] \in Formats
    BY <1>1, Configurations
  <1>3. Tops(DOMAIN Explicit(Now)) \subseteq Policy
    BY DEF Policy
  <1>4. Policy \subseteq PolicyTops
    <2>1. DOMAIN Explicit(Now) \subseteq Settled
      BY ExplicitIs
    <2>2. QED
      BY <2>1 DEF Policy, PolicyTops, Tops
  <1>5. FormatKey \in Settled
    BY SettingsAssumption DEF Settled
  <1>6. None \notin DOMAIN side
    BY <1>5, SettingsAssumption DEF AreDocs, Formats
  <1>7. IsSurface(Says)
    <2>1. IsSurface(Blank)
      BY DEF IsSurface, Blank
    <2>2. CASE points = None
      BY <2>1, <2>2 DEF Says
    <2>3. CASE points # None
      BY <2>3 DEF Says, AreDocs, IsDoc
    <2>4. QED
      BY <2>2, <2>3
  <1>8. Declared = TakenIn(Says, root, Policy)
    <2>1. CASE points # None
      BY <2>1 DEF Declared, TakenIn, Says
    <2>2. CASE points = None
      <3>1. Declared = KeepTops(root, Policy)
        BY <2>2 DEF Declared
      <3>2. Atop(KeepTops(Blank, Policy), KeepTops(root, Policy)) = KeepTops(root, Policy)
        BY DEF Atop, KeepTops, Restrict, Blank
      <3>3. QED
        BY <2>2, <3>1, <3>2 DEF TakenIn, Says
    <2>3. QED
      BY <2>1, <2>2
  <1>9. IsSurface(Declared)
    BY <1>7, <1>8, SurfacesAre DEF TakenIn
  <1>10. Tops(DOMAIN Declared) \subseteq Policy
    <2>1. DOMAIN Declared = {k \in DOMAIN Says \cup DOMAIN root : Top(k) \in Policy}
      BY <1>8 DEF TakenIn, Atop, KeepTops, Restrict
    <2>2. QED
      BY <2>1 DEF Tops
  <1>11. QED
    BY <1>1, <1>2, <1>3, <1>4, <1>6, <1>7, <1>8, <1>9, <1>10

-----------------------------------------------------------------------------
(* Types.                                                                  *)

ProcOK(p) ==
    /\ p \in [on : BOOLEAN, req : Request, todo : Left(p.req), config : [Settled -> Value],
              policy : SUBSET PolicyTops, declared : {p.declared},
              doc : Formats \cup {None}, regular : BOOLEAN]
    /\ IsSurface(p.declared) /\ Tops(DOMAIN p.declared) \subseteq p.policy
    /\ p.config[FormatKey] \in Formats

\* The command's fields, one at a time.
LEMMA ProcIs ==
    ASSUME NEW p, ProcOK(p)
    PROVE  /\ p.on \in BOOLEAN /\ p.req \in Request /\ p.todo \in Left(p.req)
           /\ p.config \in [Settled -> Value] /\ p.policy \subseteq PolicyTops
           /\ p.doc \in Formats \cup {None} /\ p.regular \in BOOLEAN
           /\ IsSurface(p.declared) /\ Tops(DOMAIN p.declared) \subseteq p.policy
           /\ p.config[FormatKey] \in Formats
  BY DEF ProcOK

\* A command goes on.
LEMMA ProcTodo ==
    ASSUME NEW p, ProcOK(p), NEW t \in Left(p.req), NEW q, q = [p EXCEPT !.todo = t]
    PROVE  /\ ProcOK(q)
           /\ q.on = p.on /\ q.req = p.req /\ q.todo = t /\ q.config = p.config
           /\ q.policy = p.policy /\ q.declared = p.declared
           /\ q.doc = p.doc /\ q.regular = p.regular
  BY DEF ProcOK

\* A command learns which config document it writes.
LEMMA ProcDoc ==
    ASSUME NEW p, ProcOK(p), NEW e \in Formats, NEW q, q = [p EXCEPT !.doc = e]
    PROVE  /\ ProcOK(q)
           /\ q.on = p.on /\ q.req = p.req /\ q.todo = p.todo /\ q.config = p.config
           /\ q.policy = p.policy /\ q.declared = p.declared
           /\ q.doc = e /\ q.regular = p.regular
  BY DEF ProcOK

\* People write while a command runs.
LEMMA ProcEdited ==
    ASSUME NEW p, ProcOK(p), NEW q, q = [p EXCEPT !.regular = FALSE]
    PROVE  ProcOK(q) /\ q.regular = FALSE /\ q.on = p.on /\ q.todo = p.todo
  BY DEF ProcOK

\* No command.
LEMMA IdleIs ==
    ProcOK(Idle) /\ Idle.on = FALSE /\ Idle.todo = <<>> /\ Idle.regular = FALSE
  <1>1. Setup \in Request
    BY DEF Request
  <1>2. <<>> \in Left(Setup)
    BY <1>1, WritesIs
  <1>3. Defaults \in [Settled -> Value]
    BY DEF Defaults, Value
  <1>4. Defaults[FormatKey] \in Formats
    BY SettingsAssumption DEF Defaults, Formats, Settled
  <1>5. IsSurface(Blank) /\ DOMAIN Blank = {} /\ Tops(DOMAIN Blank) = {}
    BY DEF Blank, IsSurface, Tops
  <1>6. QED
    BY <1>1, <1>2, <1>3, <1>4, <1>5 DEF ProcOK, Idle

\* What is made of config documents.
LEMMA DocsAre ==
    ASSUME NEW d, AreDocs(d), NEW e \in Formats, NEW x, IsDoc(x)
    PROVE  /\ AreDocs([d EXCEPT ![e] = x])
           /\ AreDocs(Atop(d, Saying(e, x)))
           /\ AreDocs(Restrict(d, DOMAIN d \ {e}))
  <1>1. AreDocs([d EXCEPT ![e] = x])
    BY DEF AreDocs
  <1>2. AreDocs(Atop(d, Saying(e, x)))
    BY DEF AreDocs, Atop, Saying
  <1>3. AreDocs(Restrict(d, DOMAIN d \ {e}))
    BY DEF AreDocs, Restrict
  <1>4. QED
    BY <1>1, <1>2, <1>3

\* A config document.
LEMMA DocIs ==
    /\ \A t \in Formats : \A s : IsSurface(s) => IsDoc([text |-> t, says |-> s])
    /\ \A x, s : IsDoc(x) /\ IsSurface(s) =>
         /\ IsDoc([x EXCEPT !.says = s])
         /\ [x EXCEPT !.says = s].says = s /\ [x EXCEPT !.says = s].text = x.text
    /\ \A x : IsDoc(x) => x.text \in Formats /\ IsSurface(x.says)
  <1>1. \A t \in Formats : \A s : IsSurface(s) => IsDoc([text |-> t, says |-> s])
    BY DEF IsDoc
  <1>2. ASSUME NEW x, NEW s, IsDoc(x), IsSurface(s)
        PROVE  /\ IsDoc([x EXCEPT !.says = s])
               /\ [x EXCEPT !.says = s].says = s /\ [x EXCEPT !.says = s].text = x.text
    <2>1. x = [text |-> x.text, says |-> x.says] /\ x.text \in Formats
      BY <1>2 DEF IsDoc
    <2>2. [x EXCEPT !.says = s] = [text |-> x.text, says |-> s]
      BY <2>1
    <2>3. QED
      BY <1>2, <2>1, <2>2 DEF IsDoc
  <1>3. \A x : IsDoc(x) => x.text \in Formats /\ IsSurface(x.says)
    BY DEF IsDoc
  <1>4. QED
    BY <1>1, <1>2, <1>3

\* The parts of the types.
LEMMA TypesAre ==
    TypeOK <=> /\ IsSurface(root) /\ AreDocs(side) /\ points \in DOMAIN side \cup {None}
               /\ ProcOK(proc)
               /\ proc.on => ended = "running"
               /\ proc.todo = <<"remove">> => points = None
               /\ runs \in 0..MaxRuns /\ edits \in 0..MaxEdits
  BY DEF TypeOK, ProcOK

\* The parts of the types hold of the next state.
LEMMA TypesNext ==
    ASSUME IsSurface(root'), AreDocs(side'), points' \in DOMAIN side' \cup {None}, ProcOK(proc'),
           proc'.on => ended' = "running", proc'.todo = <<"remove">> => points' = None,
           runs' \in 0..MaxRuns, edits' \in 0..MaxEdits
    PROVE  TypeOK'
  BY DEF TypeOK, ProcOK

\* The bounds.
LEMMA Counted ==
    ASSUME TypeOK, [Next]_vars
    PROVE  runs' \in 0..MaxRuns /\ edits' \in 0..MaxEdits
  <1>1. runs \in 0..MaxRuns /\ edits \in 0..MaxEdits
    BY TypesAre
  <1>2. ASSUME NEW req \in Requests, Begin(req)
        PROVE  runs' = runs + 1 /\ runs < MaxRuns /\ edits' = edits
    BY <1>2 DEF Begin
  <1>3. ASSUME NEW k \in Keys, NEW v \in Written(k), Edit(k, v)
        PROVE  edits' = edits + 1 /\ edits < MaxEdits /\ runs' = runs
    BY <1>3 DEF Edit
  <1>4. CASE \/ Ensure \/ Put \/ Materialize \/ Fill \/ Strip \/ Merge \/ Retire \/ RemoveDoc
             \/ Finish \/ Fail \/ Kill \/ UNCHANGED vars
    <2>1. runs' = runs /\ edits' = edits
      BY <1>4 DEF Ensure, Put, Materialize, Fill, Strip, Merge, Retire, RemoveDoc, Finish, Fail,
                  Kill, Over, vars
    <2>2. QED
      BY <1>1, <2>1
  <1>5. QED
    BY <1>1, <1>2, <1>3, <1>4, SettingsAssumption DEF Next

\* A write's place in its command, and what the command goes on to.
LEMMA WriteIs ==
    ASSUME TypeOK, NEW w, At(w)
    PROVE  /\ proc.on /\ proc.req \in Request /\ proc.todo \in Left(proc.req)
           /\ proc.todo # <<>> /\ Head(proc.todo) = w
           /\ Tail(proc.todo) \in Left(proc.req) /\ Tail(proc.todo) # <<"remove">>
           /\ Goes(proc) = [proc EXCEPT !.todo = Tail(proc.todo)]
           /\ ProcOK(Goes(proc)) /\ Goes(proc).on = proc.on /\ Goes(proc).req = proc.req
           /\ Goes(proc).todo = Tail(proc.todo) /\ Goes(proc).config = proc.config
           /\ Goes(proc).policy = proc.policy /\ Goes(proc).doc = proc.doc
           /\ Goes(proc).declared = proc.declared /\ Goes(proc).regular = proc.regular
  <1>1. ProcOK(proc)
    BY TypesAre
  <1>2. proc.on /\ proc.todo # <<>> /\ Head(proc.todo) = w
    BY DEF At
  <1>3. proc.req \in Request /\ proc.todo \in Left(proc.req)
    BY <1>1, ProcIs
  <1>4. Tail(proc.todo) \in Left(proc.req) /\ Tail(proc.todo) # <<"remove">>
    BY <1>2, <1>3, LeftIs
  <1>5. Goes(proc) = [proc EXCEPT !.todo = Tail(proc.todo)]
    BY DEF Goes
  <1>6. PICK t : t = Tail(proc.todo)
    OBVIOUS
  <1>7. PICK q : q = Goes(proc)
    OBVIOUS
  <1>8. t \in Left(proc.req) /\ q = [proc EXCEPT !.todo = t]
    BY <1>4, <1>5, <1>6, <1>7
  <1>9. /\ ProcOK(q)
        /\ q.on = proc.on /\ q.req = proc.req /\ q.todo = t /\ q.config = proc.config
        /\ q.policy = proc.policy /\ q.declared = proc.declared
        /\ q.doc = proc.doc /\ q.regular = proc.regular
    BY <1>1, <1>8, ProcTodo
  <1>10. QED
    BY <1>2, <1>3, <1>4, <1>5, <1>6, <1>7, <1>9

\* Which command a write is of.
LEMMA AtIs ==
    ASSUME TypeOK
    PROVE  /\ At("ensure") => /\ proc.todo = Writes(proc.req) /\ proc.req.op # "home root"
                              /\ Tail(proc.todo) \in {<<"put">>, <<"materialize">>, <<"fill", "strip">>}
           /\ At("put") => /\ proc.req.op = "set" /\ proc.todo = <<"put">>
                           /\ proc.req.key \in Keys /\ proc.req.value \in Value
           /\ At("materialize") => proc.req.op = "setup" /\ proc.todo = <<"materialize">>
           /\ At("fill") => proc.req.op = "home sidecar" /\ proc.todo = <<"fill", "strip">>
           /\ At("strip") => proc.req.op = "home sidecar" /\ proc.todo = <<"strip">>
           /\ At("merge") => proc.req.op = "home root" /\ proc.todo = Writes(proc.req)
           /\ At("retire") => proc.req.op = "home root" /\ proc.todo = <<"retire">>
           /\ At("remove") => proc.req.op = "home root" /\ proc.todo = <<"remove">>
  <1>1. ProcOK(proc)
    BY TypesAre
  <1>2. proc.req \in Request /\ proc.todo \in Left(proc.req)
    BY <1>1, ProcIs
  <1>3. \A w : At(w) => proc.todo # <<>> /\ Head(proc.todo) = w
    BY DEF At
  <1>4. proc.req.op = "set" => proc.req.key \in Keys /\ proc.req.value \in Value
    BY <1>2, RequestIs
  <1>5. QED
    BY <1>2, <1>3, <1>4, LeftIs

\* The config document that a command rewrites.
LEMMA DocTyped ==
    ASSUME TypeOK, Readable(side, proc.doc)
    PROVE  /\ proc.doc \in DOMAIN side /\ proc.doc \in Formats /\ IsDoc(Doc) /\ IsSurface(Doc.says)
           /\ \A x : IsDoc(x) => LET d == [side EXCEPT ![proc.doc] = x]
                                 IN  /\ AreDocs(d) /\ DOMAIN d = DOMAIN side
                                     /\ d[proc.doc] = x
                                     /\ \A e \in DOMAIN side : e # proc.doc => d[e] = side[e]
           /\ \A s : IsSurface(s) => IsDoc(Fresh(s))
  <1>1. AreDocs(side)
    BY TypesAre
  <1>2. proc.doc \in DOMAIN side /\ proc.doc \in Formats
    BY <1>1 DEF Readable, AreDocs
  <1>3. IsDoc(Doc) /\ IsSurface(Doc.says)
    BY <1>1, <1>2, DocIs DEF AreDocs, Doc
  <1>4. ASSUME NEW x, IsDoc(x)
        PROVE  LET d == [side EXCEPT ![proc.doc] = x]
               IN  /\ AreDocs(d) /\ DOMAIN d = DOMAIN side
                   /\ d[proc.doc] = x
                   /\ \A e \in DOMAIN side : e # proc.doc => d[e] = side[e]
    <2>1. AreDocs([side EXCEPT ![proc.doc] = x])
      BY <1>1, <1>2, <1>4, DocsAre
    <2>2. QED
      BY <1>2, <2>1
  <1>5. ASSUME NEW s, IsSurface(s)
        PROVE  IsDoc(Fresh(s))
    <2>1. ProcOK(proc)
      BY TypesAre
    <2>2. proc.config[FormatKey] \in Formats
      BY <2>1, ProcIs
    <2>3. QED
      BY <1>5, <2>2, DocIs DEF Fresh
  <1>6. QED
    BY <1>2, <1>3, <1>4, <1>5

\* Every step keeps the types.
LEMMA Typed ==
    ASSUME TypeOK, [Next]_vars
    PROVE  TypeOK'
  <1>a. /\ IsSurface(root) /\ AreDocs(side) /\ points \in DOMAIN side \cup {None}
        /\ ProcOK(proc)
        /\ proc.on => ended = "running"
        /\ proc.todo = <<"remove">> => points = None
    BY TypesAre
  <1>b. runs' \in 0..MaxRuns /\ edits' \in 0..MaxEdits
    BY Counted
  <1>1. ASSUME NEW req \in Requests, Begin(req)
        PROVE  TypeOK'
    <2>1. UNCHANGED <<root, points, side>>
      BY <1>1 DEF Begin
    <2>2. CASE UNCHANGED proc
      <3>1. ~proc.on
        BY <1>1 DEF Begin
      <3>2. QED
        BY <1>a, <2>1, <2>2, <3>1, <1>b, TypesNext
    <2>3. CASE proc' = Begins(req) /\ ended' = "running"
      <3>1. req \in Request
        BY SettingsAssumption
      <3>2. /\ Policy \subseteq PolicyTops /\ Now \in [Settled -> Value] /\ Now[FormatKey] \in Formats
            /\ IsSurface(Declared) /\ Tops(DOMAIN Declared) \subseteq Policy
        BY <1>a, PolicyIs
      <3>3. points \in Formats \cup {None}
        BY <1>a DEF AreDocs
      <3>4. PICK d : /\ d = IF points = None \/ Readable(side, points) THEN Declared ELSE Blank
                     /\ IsSurface(d) /\ Tops(DOMAIN d) \subseteq Policy
        <4>1. IsSurface(Blank) /\ Tops(DOMAIN Blank) = {}
          BY DEF Blank, IsSurface, Tops
        <4>2. QED
          BY <3>2, <4>1
      <3>5. PICK g : g = Regular(req) /\ g \in BOOLEAN
        BY DEF Regular, Homes
      <3>6. proc' = [on |-> TRUE, req |-> req, todo |-> Writes(req), config |-> Now,
                     policy |-> Policy, declared |-> d, doc |-> points, regular |-> g]
        BY <2>3, <3>4, <3>5 DEF Begins
      <3>7. ProcOK(proc')
        BY <3>1, <3>2, <3>3, <3>4, <3>5, <3>6, WritesIs DEF ProcOK
      <3>8. proc'.todo # <<"remove">>
        BY <3>1, <3>6, WritesIs
      <3>9. QED
        BY <1>a, <2>1, <2>3, <3>7, <3>8, <1>b, TypesNext
    <2>4. QED
      BY <1>1, <2>2, <2>3 DEF Begin
  <1>2. CASE Ensure
    <2>1. At("ensure") /\ UNCHANGED <<root, ended>>
      BY <1>2 DEF Ensure
    <2>2. PICK ext : ext = IF points = None THEN proc.config[FormatKey] ELSE points
      OBVIOUS
    <2>3. /\ side' = Atop(side, Saying(ext, [text |-> ext, says |-> Blank]))
          /\ points' = ext
          /\ proc' = Goes([proc EXCEPT !.doc = ext])
      BY <1>2, <2>2 DEF Ensure
    <2>4. ext \in Formats
      BY <1>a, <2>2, ProcIs DEF AreDocs
    <2>5. AreDocs(side')
      <3>1. IsDoc([text |-> ext, says |-> Blank])
        BY <2>4, DocIs DEF IsSurface, Blank
      <3>2. QED
        BY <1>a, <2>3, <2>4, <3>1, DocsAre
    <2>6. points' \in DOMAIN side'
      BY <2>3 DEF Atop, Saying
    <2>7. PICK p : p = [proc EXCEPT !.doc = ext]
      OBVIOUS
    <2>8. ProcOK(p) /\ p.on = proc.on /\ p.req = proc.req /\ p.todo = proc.todo
      BY <1>a, <2>4, <2>7, ProcDoc
    <2>9. Tail(proc.todo) \in Left(proc.req) /\ Tail(proc.todo) # <<"remove">>
      BY <2>1, WriteIs
    <2>10. proc' = [p EXCEPT !.todo = Tail(proc.todo)]
      BY <2>3, <2>7, <2>8 DEF Goes
    <2>11. ProcOK(proc') /\ proc'.on = proc.on /\ proc'.todo = Tail(proc.todo)
      <3>1. PICK t : t = Tail(proc.todo)
        OBVIOUS
      <3>2. PICK q : q = proc'
        OBVIOUS
      <3>3. t \in Left(p.req) /\ q = [p EXCEPT !.todo = t]
        BY <2>8, <2>9, <2>10, <3>1, <3>2
      <3>4. ProcOK(q) /\ q.on = p.on /\ q.todo = t
        BY <2>8, <3>3, ProcTodo
      <3>5. QED
        BY <2>8, <3>1, <3>2, <3>4
    <2>12. QED
      BY <1>a, <2>1, <2>5, <2>6, <2>9, <2>11, <1>b, TypesNext
  <1>3. CASE Put
    <2>1. /\ At("put") /\ Readable(side, proc.doc) /\ UNCHANGED <<root, points, ended>>
          /\ proc' = Goes(proc)
          /\ side' = [side EXCEPT ![proc.doc] =
                        [Doc EXCEPT !.says = Atop(Saying(proc.req.key, proc.req.value), Doc.says)]]
      BY <1>3 DEF Put, Rewrite
    <2>2. proc.req.key \in Keys /\ proc.req.value \in Value
      BY <2>1, AtIs
    <2>3. IsSurface(Atop(Saying(proc.req.key, proc.req.value), Doc.says))
      BY <2>1, <2>2, DocTyped, SurfacesAre
    <2>4. IsDoc([Doc EXCEPT !.says = Atop(Saying(proc.req.key, proc.req.value), Doc.says)])
      BY <2>1, <2>3, DocTyped, DocIs
    <2>5. AreDocs(side') /\ DOMAIN side' = DOMAIN side
      BY <2>1, <2>4, DocTyped
    <2>6. QED
      BY <1>a, <2>1, <2>5, WriteIs, <1>b, TypesNext
  <1>4. CASE Materialize
    <2>1. /\ At("materialize") /\ Readable(side, proc.doc) /\ UNCHANGED <<root, points, ended>>
          /\ proc' = Goes(proc)
      BY <1>4 DEF Materialize
    <2>2. PICK e : e = Explicit(proc.config)
      OBVIOUS
    <2>3. side' = [side EXCEPT ![proc.doc] = Fresh(Atop(e, DropTops(Doc.says, Tops(DOMAIN e))))]
      BY <1>4, <2>2 DEF Materialize, Rewrite
    <2>4. IsSurface(e)
      BY <1>a, <2>2, ProcIs DEF Explicit, Restrict, IsSurface, Keys
    <2>5. IsDoc(Fresh(Atop(e, DropTops(Doc.says, Tops(DOMAIN e)))))
      BY <2>1, <2>4, DocTyped, SurfacesAre
    <2>6. AreDocs(side') /\ DOMAIN side' = DOMAIN side
      BY <2>1, <2>3, <2>5, DocTyped
    <2>7. QED
      BY <1>a, <2>1, <2>6, WriteIs, <1>b, TypesNext
  <1>5. CASE Fill
    <2>1. /\ At("fill") /\ Readable(side, proc.doc) /\ UNCHANGED <<root, points, ended>>
          /\ proc' = Goes(proc)
          /\ side' = [side EXCEPT ![proc.doc] =
                        Fresh(Atop(proc.declared, DropTops(Doc.says, proc.policy)))]
      BY <1>5 DEF Fill, Rewrite
    <2>2. IsDoc(Fresh(Atop(proc.declared, DropTops(Doc.says, proc.policy))))
      BY <1>a, <2>1, DocTyped, ProcIs, SurfacesAre
    <2>3. AreDocs(side') /\ DOMAIN side' = DOMAIN side
      BY <2>1, <2>2, DocTyped
    <2>4. QED
      BY <1>a, <2>1, <2>3, WriteIs, <1>b, TypesNext
  <1>6. CASE Strip
    <2>1. /\ At("strip") /\ root' = DropTops(root, proc.policy) /\ proc' = Goes(proc)
          /\ UNCHANGED <<points, side, ended>>
      BY <1>6 DEF Strip
    <2>2. IsSurface(root')
      BY <1>a, <2>1, SurfacesAre
    <2>3. QED
      BY <1>a, <2>1, <2>2, WriteIs, <1>b, TypesNext
  <1>7. CASE Merge
    <2>1. /\ At("merge") /\ proc' = Goes(proc) /\ UNCHANGED <<points, side, ended>>
          /\ root' = Atop(proc.declared, DropTops(root, Tops(DOMAIN proc.declared)))
      BY <1>7 DEF Merge
    <2>2. IsSurface(root')
      BY <1>a, <2>1, ProcIs, SurfacesAre
    <2>3. QED
      BY <1>a, <2>1, <2>2, WriteIs, <1>b, TypesNext
  <1>8. CASE Retire
    <2>1. At("retire") /\ UNCHANGED <<root, ended>>
      BY <1>8 DEF Retire
    <2>2. CASE proc' = Goes(proc) /\ UNCHANGED <<points, side>>
      BY <1>a, <2>1, <2>2, WriteIs, <1>b, TypesNext
    <2>3. CASE points' = None /\ proc' = [proc EXCEPT !.todo = <<"remove">>] /\ UNCHANGED side
      <3>1. <<"remove">> \in Left(proc.req)
        <4>1. proc.req \in Request /\ proc.req.op = "home root"
          BY <2>1, WriteIs, AtIs
        <4>2. QED
          BY <4>1, WritesIs
      <3>2. ProcOK(proc') /\ proc'.on = proc.on
        BY <1>a, <2>3, <3>1, ProcTodo
      <3>3. QED
        BY <1>a, <2>1, <2>3, <3>2, <1>b, TypesNext
    <2>4. CASE /\ Readable(side, proc.doc) /\ Rewrite(Fresh(DropTops(Doc.says, proc.policy)))
               /\ proc' = Goes(proc) /\ UNCHANGED points
      <3>1. IsDoc(Fresh(DropTops(Doc.says, proc.policy)))
        BY <2>4, DocTyped, SurfacesAre
      <3>2. AreDocs(side') /\ DOMAIN side' = DOMAIN side
        BY <2>4, <3>1, DocTyped DEF Rewrite
      <3>3. QED
        BY <1>a, <2>1, <2>4, <3>2, WriteIs, <1>b, TypesNext
    <2>5. QED
      BY <1>8, <2>2, <2>3, <2>4 DEF Retire
  <1>9. CASE RemoveDoc
    <2>1. /\ At("remove") /\ side' = Restrict(side, DOMAIN side \ {proc.doc})
          /\ proc' = Goes(proc) /\ UNCHANGED <<root, points, ended>>
      BY <1>9 DEF RemoveDoc
    <2>2. AreDocs(side')
      BY <1>a, <2>1 DEF AreDocs, Restrict
    <2>3. points = None
      BY <1>a, <2>1, AtIs
    <2>4. QED
      BY <1>a, <2>1, <2>2, <2>3, WriteIs, <1>b, TypesNext
  <1>10. ASSUME NEW how, Over(how)
         PROVE  TypeOK'
    BY <1>a, <1>10, IdleIs, <1>b, TypesNext DEF Over
  <1>11. ASSUME NEW k \in Keys, NEW v \in Written(k), Edit(k, v)
         PROVE  TypeOK'
    <2>1. /\ proc' = [proc EXCEPT !.regular = FALSE]
          /\ UNCHANGED <<points, ended>>
      BY <1>11 DEF Edit
    <2>2. ProcOK(proc') /\ proc'.on = proc.on /\ proc'.todo = proc.todo
      BY <1>a, <2>1, ProcEdited
    <2>3. v \in Value
      BY DEF Written, Value
    <2>4. ASSUME NEW s, IsSurface(s)
          PROVE  IsSurface(Edited(s, k, v))
      BY <2>3, <2>4, SurfacesAre DEF Edited
    <2>5. CASE root' = Edited(root, k, v) /\ UNCHANGED side
      BY <1>a, <2>1, <2>2, <2>4, <2>5, <1>b, TypesNext
    <2>6. CASE points # None /\ UNCHANGED root
                /\ side' = [side EXCEPT ![points].says = Edited(@, k, v)]
      <3>1. points \in Formats /\ IsDoc(side[points])
        BY <1>a, <2>6 DEF AreDocs
      <3>2. IsDoc([side[points] EXCEPT !.says = Edited(side[points].says, k, v)])
        BY <2>4, <3>1, DocIs
      <3>3. side' = [side EXCEPT ![points] =
                       [side[points] EXCEPT !.says = Edited(side[points].says, k, v)]]
        BY <2>6
      <3>4. AreDocs(side') /\ DOMAIN side' = DOMAIN side
        BY <1>a, <3>1, <3>2, <3>3, DocsAre
      <3>5. QED
        BY <1>a, <2>1, <2>2, <2>6, <3>4, <1>b, TypesNext
    <2>7. QED
      BY <1>11, <2>5, <2>6 DEF Edit
  <1>12. CASE UNCHANGED vars
    BY <1>12 DEF vars, TypeOK
  <1>13. Finish => \E how : Over(how)
    BY DEF Finish
  <1>14. Fail => \E how : Over(how)
    BY DEF Fail
  <1>15. Kill => \E how : Over(how)
    BY DEF Kill
  <1>16. QED
    BY <1>1, <1>2, <1>3, <1>4, <1>5, <1>6, <1>7, <1>8, <1>9, <1>10, <1>11, <1>12, <1>13,
       <1>14, <1>15 DEF Next

-----------------------------------------------------------------------------
(* How far a command is.                                                   *)

\* A key that is no setting changes nothing.
LEMMA PutElse ==
    ASSUME NEW b, NEW s, NEW k, k \notin Settled, NEW v
    PROVE  Combine(b, Atop(Saying(k, v), s)) = Combine(b, s)
  <1> DEFINE t == Atop(Saying(k, v), s)
  <1>1. \A x \in Settled : (x \in DOMAIN t <=> x \in DOMAIN s) /\ (x \in DOMAIN s => t[x] = s[x])
    BY DEF Atop, Saying
  <1> HIDE DEF t
  <1>2. \A x \in Settled : (Reads(t, x) <=> Reads(s, x)) /\ (Reads(s, x) => t[x] = s[x])
    BY <1>1 DEF Reads
  <1>3. Vocabulary \in Settled
    BY Fields
  <1>4. \A x \in Settled : Reading(b, t, x) = Reading(b, s, x)
    BY <1>2, <1>3 DEF Reading
  <1>5. QED
    BY <1>4, CombineSame DEF t

\* What holds by how much is left.
LEMMA StageAt ==
    ASSUME TypeOK, Stages
    PROVE  /\ proc.todo = Writes(proc.req) => AsBegun
           /\ proc.todo \in {<<"put">>, <<"materialize">>, <<"fill", "strip">>} =>
                AsBegun /\ points # None
           /\ proc.todo = <<"strip">> => proc.config = Now /\ Readable(side, points) /\ Copied
           /\ proc.todo = <<"retire">> => /\ proc.config = Now /\ Merged
                                          /\ proc.doc = points /\ points \in {None, Now[FormatKey]}
           /\ proc.todo = <<"remove">> =>
                /\ proc.config = Now
                /\ proc.doc \in DOMAIN side => DOMAIN side[proc.doc].says \cap Notes = {}
           /\ proc.todo = <<>> => Now = Asked(proc.config, proc.req)
           /\ proc.todo # <<>> => proc.config = Now
  <1>1. ProcOK(proc)
    BY TypesAre
  <1>2. proc.req \in Request /\ proc.todo \in Left(proc.req)
    BY <1>1, ProcIs
  <1>3. Writes(proc.req) # <<>>
    BY <1>2, WritesIs
  <1>4. proc.todo = Writes(proc.req) => Head(proc.todo) \in {"ensure", "merge"}
    BY <1>2, <1>3, LeftIs
  <1>5. AsBegun => proc.config = Now
    BY DEF AsBegun
  <1>6. CASE proc.todo = Writes(proc.req)
    BY <1>3, <1>4, <1>5, <1>6 DEF Stages
  <1>7. CASE proc.todo # Writes(proc.req)
    <2>1. proc.todo \in {<<"put">>, <<"materialize">>, <<"fill", "strip">>} => AsBegun /\ points # None
      BY <1>7 DEF Stages
    <2>2. proc.todo = <<"strip">> => proc.config = Now /\ Readable(side, points) /\ Copied
      BY <1>7 DEF Stages
    <2>3. proc.todo = <<"retire">> => /\ proc.config = Now /\ Merged
                                      /\ proc.doc = points /\ points \in {None, Now[FormatKey]}
      BY <1>7 DEF Stages
    <2>4. proc.todo = <<"remove">> =>
                /\ proc.config = Now
                /\ proc.doc \in DOMAIN side => DOMAIN side[proc.doc].says \cap Notes = {}
      BY <1>7 DEF Stages
    <2>5. proc.todo = <<>> => Now = Asked(proc.config, proc.req)
      BY <1>7 DEF Stages
    <2>6. proc.todo # <<>> => proc.config = Now
      BY <1>5, <1>7 DEF Stages
    <2>7. QED
      BY <1>7, <2>1, <2>2, <2>3, <2>4, <2>5, <2>6
  <1>8. QED
    BY <1>6, <1>7

\* What is in effect next.
LEMMA NowNext ==
    Now' = Combine(root', Seen(side', points'))
  BY EffectiveIs DEF Now

\* The config document that is seen.
LEMMA SeenIs ==
    ASSUME TypeOK
    PROVE  /\ points = None => Seen(side, points) = Blank /\ Says = Blank
           /\ Readable(side, points) => Seen(side, points) = Says /\ points # None
           /\ Now = Combine(root, Seen(side, points))
           /\ \A k \in Notes : Top(k) \notin PolicyTops
           /\ None \notin DOMAIN side /\ None \notin Formats
  <1>1. IsSurface(root) /\ AreDocs(side) /\ points \in DOMAIN side \cup {None}
    BY TypesAre
  <1>2. Now = Combine(root, Seen(side, points)) /\ None \notin DOMAIN side
    BY <1>1, PolicyIs
  <1>3. FormatKey \in Settled
    BY SettingsAssumption DEF Settled
  <1>4. None \notin Formats
    BY <1>3, SettingsAssumption DEF Formats
  <1>5. QED
    BY <1>2, <1>4, SettingsAssumption DEF Seen, Says, Readable

\* ensure keeps what was begun.
LEMMA EnsureKeeps ==
    ASSUME TypeOK, Stages, Ensure
    PROVE  Stages'
  <1>1. At("ensure") /\ UNCHANGED root
    BY DEF Ensure
  <1>2. /\ proc.todo = Writes(proc.req) /\ proc.req.op # "home root" /\ proc.req \in Request
        /\ Tail(proc.todo) \in {<<"put">>, <<"materialize">>, <<"fill", "strip">>}
    BY <1>1, AtIs, WriteIs
  <1>3. AsBegun
    BY <1>2, StageAt
  <1>4. PICK ext : ext = IF points = None THEN proc.config[FormatKey] ELSE points
    OBVIOUS
  <1>5. /\ side' = Atop(side, Saying(ext, [text |-> ext, says |-> Blank]))
        /\ points' = ext
        /\ proc' = Goes([proc EXCEPT !.doc = ext])
    BY <1>4 DEF Ensure
  <1>6. ProcOK(proc) /\ AreDocs(side) /\ points \in DOMAIN side \cup {None}
    BY TypesAre
  <1>7. ext \in Formats
    BY <1>4, <1>6, ProcIs DEF AreDocs
  <1>8. PICK p : p = [proc EXCEPT !.doc = ext]
    OBVIOUS
  <1>9. /\ ProcOK(p) /\ p.req = proc.req /\ p.todo = proc.todo /\ p.doc = ext
        /\ p.config = proc.config /\ p.policy = proc.policy /\ p.declared = proc.declared
    BY <1>6, <1>7, <1>8, ProcDoc
  <1>10. /\ proc'.req = proc.req /\ proc'.todo = Tail(proc.todo) /\ proc'.doc = ext
         /\ proc'.config = proc.config /\ proc'.policy = proc.policy
         /\ proc'.declared = proc.declared
    <2>1. Tail(proc.todo) \in Left(proc.req)
      BY <1>1, WriteIs
    <2>2. PICK t : t = Tail(proc.todo)
      OBVIOUS
    <2>3. PICK q : q = proc'
      OBVIOUS
    <2>4. t \in Left(p.req) /\ q = [p EXCEPT !.todo = t]
      BY <1>5, <1>8, <1>9, <2>1, <2>2, <2>3 DEF Goes
    <2>5. /\ q.req = p.req /\ q.todo = t /\ q.config = p.config
          /\ q.policy = p.policy /\ q.declared = p.declared /\ q.doc = p.doc
      BY <1>9, <2>4, ProcTodo
    <2>6. QED
      BY <1>9, <2>2, <2>3, <2>5
  <1>11. points' # None
    BY <1>5, <1>7, SeenIs
  <1>12. /\ Seen(side', points') = Seen(side, points) /\ Says' = Says
         /\ DOMAIN side' \subseteq {points'}
         /\ points = None \/ Readable(side, points) => Readable(side', points')
         /\ points # None => points' = points
         /\ points = None => points' = Now[FormatKey]
    <2>1. DOMAIN side \subseteq {points} /\ proc.config = Now
      BY <1>3 DEF AsBegun, Regular
    <2>2. CASE points = None
      <3>1. DOMAIN side = {}
        BY <2>1, <2>2, SeenIs
      <3>2. DOMAIN side' = {ext} /\ side'[ext] = [text |-> ext, says |-> Blank]
        BY <1>5, <3>1 DEF Atop, Saying
      <3>3. Readable(side', points') /\ side'[points'].says = Blank
        BY <1>5, <3>2 DEF Readable
      <3>4. Seen(side', points') = Blank /\ Says' = Blank
        BY <1>11, <3>3 DEF Seen, Says
      <3>5. QED
        BY <1>4, <1>5, <2>1, <2>2, <3>2, <3>3, <3>4, SeenIs
    <2>3. CASE points # None
      <3>1. ext = points /\ points \in DOMAIN side
        BY <1>4, <1>6, <2>3
      <3>2. side' = side
        <4>1. side = [e \in DOMAIN side |-> side[e]]
          BY <1>6 DEF AreDocs
        <4>2. side' = [e \in DOMAIN side |-> side[e]]
          BY <1>5, <3>1 DEF Atop, Saying
        <4>3. QED
          BY <4>1, <4>2
      <3>3. points' = points
        BY <1>5, <3>1
      <3>4. QED
        BY <2>1, <2>3, <3>2, <3>3 DEF Says
    <2>4. QED
      BY <2>2, <2>3
  <1>13. Now' = Now
    BY <1>1, <1>12, NowNext, SeenIs
  <1>14. Policy' = Policy
    <2>1. Policy = Tops(DOMAIN Explicit(Now))
                     \cup ({"relations"} \cap Tops(DOMAIN root \cup DOMAIN Seen(side, points)))
      BY DEF Policy, Seen, Blank
    <2>2. Policy' = Tops(DOMAIN Explicit(Now'))
                     \cup ({"relations"} \cap Tops(DOMAIN root' \cup DOMAIN Seen(side', points')))
      BY DEF Policy, Seen, Blank
    <2>3. QED
      BY <1>1, <1>12, <1>13, <2>1, <2>2
  <1>15. Declared' = Declared
    <2>1. Declared = TakenIn(Says, root, Policy)
      BY TypesAre, PolicyIs
    <2>2. Declared' = TakenIn(Says', root', Policy')
      BY <1>11 DEF Declared, TakenIn, Says
    <2>3. QED
      BY <1>1, <1>12, <1>14, <2>1, <2>2
  <1>16. AsBegun'
    <2>1. Regular(proc.req)
      BY <1>3 DEF AsBegun
    <2>2. Regular(proc.req)'
      BY <1>1, <1>10, <1>12, <1>13, <2>1 DEF Regular, Homes
    <2>3. Homes(proc.req) => proc.declared = Declared /\ (points # None => Readable(side, points))
      BY <1>3 DEF AsBegun
    <2>4. Homes(proc.req) => proc'.declared = Declared' /\ Readable(side', points')
      BY <1>10, <1>12, <1>15, <2>3
    <2>5. proc'.config = Now' /\ proc'.policy = Policy' /\ proc'.doc = points'
      BY <1>3, <1>5, <1>10, <1>13, <1>14 DEF AsBegun
    <2>6. proc'.req.op = "set" => ~Diagnosed(proc'.req.key, proc'.req.value)
      BY <1>3, <1>10 DEF AsBegun
    <2>7. Homes(proc.req)' <=> Homes(proc.req)
      BY <1>10 DEF Homes
    <2>8. (Homes(proc.req) => proc.declared = Declared /\ (points # None => Readable(side, points)))'
      BY <2>4, <2>7
    <2>9. QED
      BY <2>2, <2>8, <2>5, <2>6 DEF AsBegun
  <1>17. QED
    BY <1>2, <1>10, <1>11, <1>16 DEF Stages

\* A command that is not prov config should change nothing.
LEMMA AskedIs ==
    ASSUME NEW cfg, NEW req, req.op # "set" \/ req.key \notin Settled
    PROVE  Asked(cfg, req) = cfg
  BY DEF Asked

\* A command goes on to its next write.
LEMMA GoesOn ==
    ASSUME TypeOK, proc' = Goes(proc)
    PROVE  /\ proc'.todo = Tail(proc.todo) /\ proc'.config = proc.config /\ proc'.req = proc.req
           /\ proc'.doc = proc.doc /\ proc'.on = proc.on /\ proc'.policy = proc.policy
           /\ proc'.regular = proc.regular
  BY TypesAre DEF ProcOK, Goes

\* The config document that is seen, once it is rewritten.
LEMMA Rewritten ==
    ASSUME TypeOK, proc.doc = points, Readable(side, points), NEW x, IsDoc(x), x.text = points,
           side' = [side EXCEPT ![proc.doc] = x], points' = points
    PROVE  /\ Readable(side', points') /\ Seen(side', points') = x.says /\ Says' = x.says
           /\ points' # None /\ Doc.says = Says /\ Doc.text = points
           /\ Now = Combine(root, Says)
  <1>1. points \in DOMAIN side /\ side[points].text = points
    BY DEF Readable
  <1>2. side'[points'] = x /\ points' \in DOMAIN side'
    BY <1>1
  <1>3. Readable(side', points')
    BY <1>2 DEF Readable
  <1>4. points # None /\ Seen(side, points) = Says /\ Now = Combine(root, Seen(side, points))
    BY SeenIs
  <1>5. Says = side[points].says /\ Says' = x.says
    BY <1>2, <1>4 DEF Says
  <1>6. QED
    BY <1>1, <1>2, <1>3, <1>4, <1>5 DEF Seen, Doc

\* put makes what is asked.
LEMMA PutKeeps ==
    ASSUME TypeOK, Stages, Put
    PROVE  Stages'
  <1> DEFINE k == proc.req.key
             v == proc.req.value
             x == [Doc EXCEPT !.says = Atop(Saying(k, v), Doc.says)]
  <1>1. /\ At("put") /\ Readable(side, proc.doc) /\ UNCHANGED <<root, points>>
        /\ proc' = Goes(proc) /\ side' = [side EXCEPT ![proc.doc] = x]
    BY DEF Put, Rewrite
  <1>2. proc.req.op = "set" /\ proc.todo = <<"put">> /\ k \in Keys /\ v \in Value
    BY <1>1, AtIs
  <1>3. AsBegun
    BY <1>2, StageAt
  <1>4. proc.doc = points /\ proc.config = Now /\ ~Diagnosed(k, v) /\ Regular(proc.req)
    BY <1>2, <1>3 DEF AsBegun
  <1>5. IsDoc(Doc) /\ IsSurface(Atop(Saying(k, v), Doc.says))
    BY <1>1, <1>2, DocTyped, SurfacesAre
  <1>6. /\ IsDoc(x) /\ x.says = Atop(Saying(k, v), Doc.says) /\ x.text = Doc.text
    BY <1>5, DocIs
  <1>7. Doc.text = points
    BY <1>1, <1>4 DEF Doc, Readable
  <1> HIDE DEF x
  <1>8. /\ Seen(side', points') = Atop(Saying(k, v), Says) /\ Now = Combine(root, Says)
    BY <1>1, <1>4, <1>6, <1>7, Rewritten
  <1>9. Now' = Combine(root, Atop(Saying(k, v), Says))
    BY <1>1, <1>8, NowNext
  <1>10. Now' = Asked(proc.config, proc.req)
    <2>1. CASE k \in Settled
      <3>1. v \in Valid[k]
        BY <1>4, <2>1, Fields DEF Diagnosed, BadAxis, BadField
      <3>2. k \in Field => Reads(Says, Vocabulary)
        BY <1>2, <1>4 DEF Regular
      <3>3. Now' = [Now EXCEPT ![k] = v]
        BY <1>8, <1>9, <2>1, <3>1, <3>2, PutReads
      <3>4. QED
        BY <1>2, <1>4, <2>1, <3>3 DEF Asked
    <2>2. CASE k \notin Settled
      <3>1. Now' = Now
        BY <1>8, <1>9, <2>2, PutElse
      <3>2. QED
        BY <1>4, <2>2, <3>1, AskedIs
    <2>3. QED
      BY <2>1, <2>2
  <1>11. proc'.todo = <<>> /\ proc'.config = proc.config /\ proc'.req = proc.req
    <2>1. Tail(proc.todo) = <<>>
      <3>1. proc.todo = <<"put">>
        BY <1>2
      <3>2. QED
        BY <3>1
    <2>2. QED
      BY <1>1, <1>2, <2>1, GoesOn
  <1>12. QED
    BY <1>10, <1>11 DEF Stages

\* materialize changes nothing that is in effect.
LEMMA MaterializeKeeps ==
    ASSUME TypeOK, Stages, Materialize
    PROVE  Stages'
  <1>1. PICK e : e = Explicit(proc.config)
    OBVIOUS
  <1>2. PICK x : x = Fresh(Atop(e, DropTops(Doc.says, Tops(DOMAIN e))))
    OBVIOUS
  <1>3. /\ At("materialize") /\ Readable(side, proc.doc) /\ UNCHANGED <<root, points>>
        /\ proc' = Goes(proc) /\ side' = [side EXCEPT ![proc.doc] = x]
    BY <1>1, <1>2 DEF Materialize, Rewrite
  <1>4. proc.req.op = "setup" /\ proc.todo = <<"materialize">>
    BY <1>3, AtIs
  <1>5. AsBegun /\ points # None
    BY <1>4, StageAt
  <1>6. proc.doc = points /\ proc.config = Now /\ points = Now[FormatKey]
    BY <1>4, <1>5 DEF AsBegun, Regular
  <1>7. IsSurface(e)
    <2>1. ProcOK(proc)
      BY TypesAre
    <2>2. QED
      BY <1>1, <2>1, ProcIs DEF Explicit, Restrict, IsSurface, Keys
  <1>8. IsDoc(x)
    BY <1>2, <1>3, <1>7, DocTyped, SurfacesAre
  <1>9. x.text = points /\ x.says = Atop(e, DropTops(Doc.says, Tops(DOMAIN e)))
    BY <1>2, <1>6 DEF Fresh
  <1>10. /\ Seen(side', points') = x.says /\ Doc.says = Says /\ Now = Combine(root, Says)
    BY <1>3, <1>6, <1>8, <1>9, Rewritten
  <1>11. Now' = Combine(root, Atop(e, DropTops(Says, Tops(DOMAIN e))))
    BY <1>3, <1>9, <1>10, NowNext
  <1>12. Now' = Now
    BY <1>1, <1>6, <1>10, <1>11, MaterializeReads
  <1>13. proc'.todo = <<>> /\ proc'.config = proc.config /\ proc'.req = proc.req
    <2>1. Tail(proc.todo) = <<>>
      <3>1. proc.todo = <<"materialize">>
        BY <1>4
      <3>2. QED
        BY <3>1
    <2>2. QED
      BY <1>3, <1>4, <2>1, GoesOn
  <1>14. Asked(proc.config, proc.req) = proc.config
    BY <1>4, AskedIs
  <1>15. QED
    BY <1>6, <1>12, <1>13, <1>14 DEF Stages

\* fill changes nothing that is in effect, and copies the block's policy.
LEMMA FillKeeps ==
    ASSUME TypeOK, Stages, Tops(DOMAIN Explicit(proc.config)) \subseteq proc.policy, Fill
    PROVE  Stages'
  <1>1. PICK x : x = Fresh(Atop(proc.declared, DropTops(Doc.says, proc.policy)))
    OBVIOUS
  <1>2. /\ At("fill") /\ Readable(side, proc.doc) /\ UNCHANGED <<root, points>>
        /\ proc' = Goes(proc) /\ side' = [side EXCEPT ![proc.doc] = x]
    BY <1>1 DEF Fill, Rewrite
  <1>3. proc.req.op = "home sidecar" /\ proc.todo = <<"fill", "strip">>
    BY <1>2, AtIs
  <1>4. AsBegun /\ points # None
    BY <1>3, StageAt
  <1>5. /\ proc.doc = points /\ proc.config = Now /\ points = Now[FormatKey]
        /\ proc.policy = Policy /\ proc.declared = Declared /\ Regular(proc.req)
    BY <1>3, <1>4 DEF AsBegun, Regular, Homes
  <1>6. Apart(root, Says)
    BY <1>3, <1>5 DEF Regular, Homes, Apart
  <1>7. Declared = TakenIn(Says, root, Policy)
    BY TypesAre, PolicyIs
  <1>8. IsSurface(proc.declared)
    BY TypesAre, ProcIs
  <1>9. IsDoc(x)
    BY <1>1, <1>2, <1>8, DocTyped, SurfacesAre
  <1>10. x.text = points /\ x.says = Atop(proc.declared, DropTops(Doc.says, proc.policy))
    BY <1>1, <1>5 DEF Fresh
  <1>11. /\ Seen(side', points') = x.says /\ Says' = x.says /\ Doc.says = Says
         /\ Now = Combine(root, Says) /\ Readable(side', points')
    BY <1>2, <1>5, <1>9, <1>10, Rewritten
  <1>12. PICK t : t = Atop(TakenIn(Says, root, Policy), DropTops(Says, Policy))
    OBVIOUS
  <1>13. x.says = t
    BY <1>5, <1>7, <1>10, <1>11, <1>12
  <1>14. Tops(DOMAIN Explicit(Combine(root, Says))) \subseteq Policy
    BY <1>5, <1>11
  <1>15. /\ Combine(root, t) = Combine(root, Says)
         /\ \A k \in Axes \cup {Vocabulary} : Reads(root, k) => Reads(t, k)
    BY <1>6, <1>12, <1>14, FillReads
  <1>16. Now' = Now
    BY <1>2, <1>11, <1>13, <1>15, NowNext
  <1>17. proc'.todo = <<"strip">> /\ proc'.config = proc.config
    <2>1. Tail(proc.todo) = <<"strip">>
      <3>1. proc.todo = <<"fill", "strip">>
        BY <1>3
      <3>2. QED
        BY <3>1
    <2>2. QED
      BY <1>2, <1>3, <2>1, GoesOn
  <1>18. Copied'
    BY <1>2, <1>11, <1>13, <1>15 DEF Copied
  <1>19. QED
    BY <1>5, <1>11, <1>16, <1>17, <1>18 DEF Stages

\* strip changes nothing that is in effect.
LEMMA StripKeeps ==
    ASSUME TypeOK, Stages, Tops(DOMAIN Explicit(proc.config)) \subseteq proc.policy, Strip
    PROVE  Stages'
  <1>1. /\ At("strip") /\ root' = DropTops(root, proc.policy) /\ proc' = Goes(proc)
        /\ UNCHANGED <<points, side>>
    BY DEF Strip
  <1>2. proc.req.op = "home sidecar" /\ proc.todo = <<"strip">>
    BY <1>1, AtIs
  <1>3. proc.config = Now /\ Readable(side, points) /\ Copied
    BY <1>2, StageAt
  <1>4. Seen(side, points) = Says /\ Now = Combine(root, Says)
    BY <1>3, SeenIs
  <1>5. Combine(DropTops(root, proc.policy), Says) = Combine(root, Says)
    <2>1. Tops(DOMAIN Explicit(Combine(root, Says))) \subseteq proc.policy
      BY <1>3, <1>4
    <2>2. \A k \in Axes \cup {Vocabulary} :
             Top(k) \in proc.policy /\ Reads(root, k) => Reads(Says, k)
      BY <1>3 DEF Copied
    <2>3. QED
      BY <2>1, <2>2, StripReads
  <1>6. Now' = Now
    BY <1>1, <1>4, <1>5, NowNext
  <1>7. proc'.todo = <<>> /\ proc'.config = proc.config /\ proc'.req = proc.req
    <2>1. Tail(proc.todo) = <<>>
      <3>1. proc.todo = <<"strip">>
        BY <1>2
      <3>2. QED
        BY <3>1
    <2>2. QED
      BY <1>1, <1>2, <2>1, GoesOn
  <1>8. Asked(proc.config, proc.req) = proc.config
    BY <1>2, AskedIs
  <1>9. QED
    BY <1>3, <1>6, <1>7, <1>8 DEF Stages

\* merge changes nothing that is in effect, and the block then says it all.
LEMMA MergeKeeps ==
    ASSUME TypeOK, Stages, Tops(DOMAIN Explicit(proc.config)) \subseteq proc.policy, Merge
    PROVE  Stages'
  <1>1. /\ At("merge") /\ proc' = Goes(proc) /\ UNCHANGED <<points, side>>
        /\ root' = Atop(proc.declared, DropTops(root, Tops(DOMAIN proc.declared)))
    BY DEF Merge
  <1>2. proc.req.op = "home root" /\ proc.todo = Writes(proc.req)
    BY <1>1, AtIs
  <1>3. AsBegun
    BY <1>2, StageAt
  <1>4. /\ proc.doc = points /\ proc.config = Now /\ points \in {None, Now[FormatKey]}
        /\ proc.policy = Policy /\ proc.declared = Declared /\ Regular(proc.req)
        /\ points # None => Readable(side, points)
    BY <1>2, <1>3 DEF AsBegun, Regular, Homes
  <1>5. Apart(root, Says)
    BY <1>2, <1>4 DEF Regular, Homes, Apart
  <1>6. Declared = TakenIn(Says, root, Policy)
    BY TypesAre, PolicyIs
  <1>7. Seen(side, points) = Says /\ Now = Combine(root, Says)
    BY <1>4, SeenIs
  <1>8. Tops(DOMAIN Explicit(Combine(root, Says))) \subseteq Policy
    BY <1>4, <1>7
  <1>9. Combine(root', Says) = Combine(root, Says) /\ Agree(root', Says)
    <2>1. PICK d : d = TakenIn(Says, root, Policy)
      OBVIOUS
    <2>2. PICK c : c = Atop(d, DropTops(root, Tops(DOMAIN d)))
      OBVIOUS
    <2>3. Combine(c, Says) = Combine(root, Says) /\ Agree(c, Says)
      BY <1>5, <1>8, <2>1, <2>2, MergeReads
    <2>4. root' = c
      BY <1>1, <1>4, <1>6, <2>1, <2>2
    <2>5. QED
      BY <2>3, <2>4
  <1>10. Now' = Now
    BY <1>1, <1>7, <1>9, NowNext
  <1>11. proc'.todo = <<"retire">> /\ proc'.config = proc.config /\ proc'.doc = proc.doc
    <2>1. proc.todo = <<"merge", "retire">>
      BY <1>2 DEF Writes
    <2>2. QED
      BY <1>1, <2>1, WriteIs
  <1>12. Merged'
    BY <1>1, <1>9 DEF Merged, Agree, Says
  <1>13. QED
    BY <1>1, <1>4, <1>10, <1>11, <1>12 DEF Stages

\* retire changes nothing that is in effect, and what goes says nothing else.
LEMMA RetireKeeps ==
    ASSUME TypeOK, Stages, Tops(DOMAIN Explicit(proc.config)) \subseteq proc.policy, Retire
    PROVE  Stages'
  <1>1. At("retire") /\ UNCHANGED root
    BY DEF Retire
  <1>2. proc.req.op = "home root" /\ proc.todo = <<"retire">>
    BY <1>1, AtIs
  <1>3. /\ proc.config = Now /\ Merged
        /\ proc.doc = points /\ points \in {None, Now[FormatKey]}
    BY <1>2, StageAt
  <1>4. Asked(proc.config, proc.req) = proc.config
    BY <1>2, AskedIs
  <1>5. Agree(root, Says)
    BY <1>3 DEF Merged, Agree
  <1>6. CASE points = None
    <2>1. proc' = Goes(proc) /\ UNCHANGED <<points, side>>
      BY <1>6 DEF Retire
    <2>2. Now' = Now
      BY <1>1, <2>1, NowNext, SeenIs
    <2>3. proc'.todo = <<>> /\ proc'.config = proc.config /\ proc'.req = proc.req
      <3>1. Tail(proc.todo) = <<>>
        <4>1. proc.todo = <<"retire">>
          BY <1>2
        <4>2. QED
          BY <4>1
      <3>2. QED
        BY <1>1, <1>2, <2>1, <3>1, GoesOn
    <2>4. QED
      BY <1>3, <1>4, <2>2, <2>3 DEF Stages
  <1>7. CASE points # None
    <2>1. PICK rest : rest = DropTops(Doc.says, proc.policy)
      OBVIOUS
    <2>2. /\ Readable(side, proc.doc)
          /\ IF rest = Blank
             THEN points' = None /\ proc' = [proc EXCEPT !.todo = <<"remove">>] /\ UNCHANGED side
             ELSE Rewrite(Fresh(rest)) /\ proc' = Goes(proc) /\ UNCHANGED points
      BY <1>7, <2>1 DEF Retire
    <2>3. Doc.says = Says /\ Seen(side, points) = Says /\ Now = Combine(root, Says)
      BY <1>3, <1>7, <2>2, SeenIs DEF Doc, Says
    <2>4. \A k \in Axes \cup {Vocabulary} : ~Reads(rest, k)
      <3>1. Tops(DOMAIN Explicit(Combine(root, Says))) \subseteq proc.policy
        BY <1>3, <2>3
      <3>2. QED
        BY <2>1, <2>3, <3>1, DroppedReads
    <2>5. Combine(root, rest) = Now
      BY <1>5, <2>3, <2>4, RetireReads
    <2>6. CASE rest = Blank
      <3>1. points' = None /\ proc' = [proc EXCEPT !.todo = <<"remove">>] /\ UNCHANGED side
        BY <2>2, <2>6
      <3>2. None \notin DOMAIN side
        BY SeenIs
      <3>3. Seen(side', points') = Blank
        BY <3>1, <3>2 DEF Seen, Readable
      <3>4. Now' = Now
        BY <1>1, <2>5, <2>6, <3>3, NowNext
      <3>5. ProcOK(proc) /\ <<"remove">> \in Left(proc.req)
        BY <1>1, <1>2, WriteIs, WritesIs, TypesAre
      <3>6. proc'.todo = <<"remove">> /\ proc'.config = proc.config /\ proc'.doc = proc.doc
        BY <3>1, <3>5, ProcTodo
      <3>7. DOMAIN side[proc.doc].says \cap Notes = {}
        <4>1. proc.policy \subseteq PolicyTops
          BY <3>5, ProcIs
        <4>2. ASSUME NEW k \in DOMAIN Doc.says, k \in Notes
              PROVE  FALSE
          <5>1. Top(k) \notin proc.policy
            BY <4>1, <4>2, SeenIs
          <5>2. k \in DOMAIN rest
            BY <2>1, <5>1 DEF DropTops, Restrict
          <5>3. QED
            BY <2>6, <5>2 DEF Blank
        <4>3. QED
          BY <4>2 DEF Doc
      <3>8. QED
        BY <1>3, <3>1, <3>4, <3>6, <3>7 DEF Stages
    <2>7. CASE rest # Blank
      <3>1. Rewrite(Fresh(rest)) /\ proc' = Goes(proc) /\ UNCHANGED points
        BY <2>2, <2>7
      <3>2. PICK x : x = Fresh(rest)
        OBVIOUS
      <3>3. IsDoc(x)
        BY <2>1, <2>2, <3>2, DocTyped, SurfacesAre
      <3>4. x.text = points /\ x.says = rest
        BY <1>3, <1>7, <3>2 DEF Fresh
      <3>5. side' = [side EXCEPT ![proc.doc] = x]
        BY <3>1, <3>2 DEF Rewrite
      <3>6. Seen(side', points') = rest
        BY <1>3, <2>2, <3>1, <3>3, <3>4, <3>5, Rewritten
      <3>7. Now' = Now
        BY <1>1, <2>5, <3>6, NowNext
      <3>8. proc'.todo = <<>> /\ proc'.config = proc.config /\ proc'.req = proc.req
        <4>1. Tail(proc.todo) = <<>>
          <5>1. proc.todo = <<"retire">>
            BY <1>2
          <5>2. QED
            BY <5>1
        <4>2. QED
          BY <1>1, <1>2, <3>1, <4>1, GoesOn
      <3>9. QED
        BY <1>3, <1>4, <3>7, <3>8 DEF Stages
    <2>8. QED
      BY <2>6, <2>7
  <1>8. QED
    BY <1>6, <1>7

\* The config document that goes was not read.
LEMMA RemoveKeeps ==
    ASSUME TypeOK, Stages, RemoveDoc
    PROVE  Stages'
  <1>1. /\ At("remove") /\ side' = Restrict(side, DOMAIN side \ {proc.doc})
        /\ proc' = Goes(proc) /\ UNCHANGED <<root, points>>
    BY DEF RemoveDoc
  <1>2. proc.req.op = "home root" /\ proc.todo = <<"remove">>
    BY <1>1, AtIs
  <1>3. proc.config = Now /\ points = None
    BY <1>2, StageAt, TypesAre
  <1>4. None \notin DOMAIN side' /\ None \notin DOMAIN side
    BY <1>1, SeenIs DEF Restrict
  <1>5. Seen(side', points') = Blank /\ Seen(side, points) = Blank
    BY <1>1, <1>3, <1>4 DEF Seen, Readable
  <1>6. Now' = Now
    BY <1>1, <1>5, NowNext, SeenIs
  <1>7. proc'.todo = <<>> /\ proc'.config = proc.config /\ proc'.req = proc.req
    <2>1. Tail(proc.todo) = <<>>
      <3>1. proc.todo = <<"remove">>
        BY <1>2
      <3>2. QED
        BY <3>1
    <2>2. QED
      BY <1>1, <1>2, <2>1, GoesOn
  <1>8. Asked(proc.config, proc.req) = proc.config
    BY <1>2, AskedIs
  <1>9. QED
    BY <1>3, <1>6, <1>7, <1>8 DEF Stages

\* What a write leaves as it is.
LEMMA WriteKeeps ==
    ASSUME TypeOK, \/ Ensure \/ Put \/ Materialize \/ Fill
                   \/ Strip \/ Merge \/ Retire \/ RemoveDoc
    PROVE  /\ proc.on /\ proc'.on = proc.on /\ proc'.regular = proc.regular
           /\ proc'.config = proc.config /\ proc'.policy = proc.policy /\ proc'.req = proc.req
           /\ ended' = ended /\ edits' = edits
  <1>1. ProcOK(proc)
    BY TypesAre
  <1>2. ASSUME proc' = Goes(proc)
        PROVE  /\ proc'.on = proc.on /\ proc'.regular = proc.regular
               /\ proc'.config = proc.config /\ proc'.policy = proc.policy /\ proc'.req = proc.req
    BY <1>2, GoesOn
  <1>3. ASSUME NEW e, proc' = Goes([proc EXCEPT !.doc = e])
        PROVE  /\ proc'.on = proc.on /\ proc'.regular = proc.regular
               /\ proc'.config = proc.config /\ proc'.policy = proc.policy /\ proc'.req = proc.req
    BY <1>1, <1>3 DEF ProcOK, Goes
  <1>4. ASSUME NEW t, proc' = [proc EXCEPT !.todo = t]
        PROVE  /\ proc'.on = proc.on /\ proc'.regular = proc.regular
               /\ proc'.config = proc.config /\ proc'.policy = proc.policy /\ proc'.req = proc.req
    BY <1>1, <1>4 DEF ProcOK
  <1>5. CASE Ensure
    <2>1. At("ensure") /\ ended' = ended /\ edits' = edits
      BY <1>5 DEF Ensure
    <2>2. \E e : proc' = Goes([proc EXCEPT !.doc = e])
      BY <1>5 DEF Ensure
    <2>3. QED
      BY <1>3, <2>1, <2>2 DEF At
  <1>6. CASE Put
    BY <1>2, <1>6 DEF Put, At
  <1>7. CASE Materialize
    BY <1>2, <1>7 DEF Materialize, At
  <1>8. CASE Fill
    BY <1>2, <1>8 DEF Fill, At
  <1>9. CASE Strip
    BY <1>2, <1>9 DEF Strip, At
  <1>10. CASE Merge
    BY <1>2, <1>10 DEF Merge, At
  <1>11. CASE Retire
    <2>1. At("retire") /\ ended' = ended /\ edits' = edits
      BY <1>11 DEF Retire
    <2>2. proc' = Goes(proc) \/ proc' = [proc EXCEPT !.todo = <<"remove">>]
      BY <1>11 DEF Retire
    <2>3. QED
      BY <1>2, <1>4, <2>1, <2>2 DEF At
  <1>12. CASE RemoveDoc
    BY <1>2, <1>12 DEF RemoveDoc, At
  <1>13. QED
    BY <1>5, <1>6, <1>7, <1>8, <1>9, <1>10, <1>11, <1>12

\* A command that begins where it does what it promises has begun.
LEMMA BeginKeeps ==
    ASSUME TypeOK, NEW req \in Requests, Begin(req), proc'.on, proc'.regular
    PROVE  Tops(DOMAIN Explicit(proc'.config)) \subseteq proc'.policy /\ Stages'
  <1>1. ~proc.on /\ UNCHANGED <<root, points, side>>
    BY DEF Begin
  <1>2. proc' = Begins(req)
    BY <1>1 DEF Begin
  <1>3. /\ req.op = "set" => ~Diagnosed(req.key, req.value)
        /\ Homes(req) => points = None \/ Readable(side, points)
    <2>1. ~(\/ req.op = "set" /\ Diagnosed(req.key, req.value)
            \/ Homes(req) /\ ~Readable(side, points) /\ points # None)
      BY <1>1 DEF Begin
    <2>2. QED
      BY <2>1
  <1>4. /\ proc'.req = req /\ proc'.todo = Writes(req) /\ proc'.config = Now
        /\ proc'.policy = Policy /\ proc'.doc = points /\ proc'.regular = Regular(req)
        /\ proc'.declared = IF points = None \/ Readable(side, points) THEN Declared ELSE Blank
    BY <1>2 DEF Begins
  <1>5. Now' = Now /\ Policy' = Policy /\ Declared' = Declared
    BY <1>1 DEF Now, Policy, Declared
  <1>6. Regular(req)
    BY <1>4
  <1>7. Regular(proc.req)'
    BY <1>1, <1>4, <1>5, <1>6 DEF Regular, Says
  <1>8. Homes(proc.req)' <=> Homes(req)
    BY <1>4 DEF Homes
  <1>9. (Homes(proc.req) => proc.declared = Declared /\ (points # None => Readable(side, points)))'
    BY <1>1, <1>3, <1>4, <1>5, <1>8
  <1>10. (proc.req.op = "set" => ~Diagnosed(proc.req.key, proc.req.value))'
    BY <1>3, <1>4
  <1>11. (proc.config = Now /\ proc.policy = Policy /\ proc.doc = points)'
    BY <1>1, <1>4, <1>5
  <1>12. AsBegun'
    BY <1>7, <1>9, <1>10, <1>11 DEF AsBegun
  <1>13. (proc.todo = Writes(proc.req))'
    BY <1>4
  <1>14. Stages'
    BY <1>12, <1>13 DEF Stages
  <1>15. Tops(DOMAIN Explicit(Now)) \subseteq Policy
    BY TypesAre, PolicyIs
  <1>16. QED
    BY <1>4, <1>14, <1>15

\* Every step keeps the invariant.
LEMMA Kept ==
    ASSUME Inv, [Next]_vars
    PROVE  Inv'
  <1>1. TypeOK /\ TypeOK'
    BY Typed DEF Inv
  <1>2. SUFFICES ASSUME proc'.on, proc'.regular
                 PROVE  Tops(DOMAIN Explicit(proc'.config)) \subseteq proc'.policy /\ Stages'
    BY <1>1 DEF Inv
  <1>3. CASE \E req \in Requests : Begin(req)
    BY <1>1, <1>2, <1>3, BeginKeeps
  <1>4. CASE \/ Ensure \/ Put \/ Materialize \/ Fill
             \/ Strip \/ Merge \/ Retire \/ RemoveDoc
    <2>1. /\ proc.on /\ proc.regular
          /\ proc'.config = proc.config /\ proc'.policy = proc.policy
      BY <1>1, <1>2, <1>4, WriteKeeps
    <2>2. Tops(DOMAIN Explicit(proc.config)) \subseteq proc.policy /\ Stages
      BY <2>1 DEF Inv
    <2>3. Stages'
      BY <1>1, <1>4, <2>2, EnsureKeeps, PutKeeps, MaterializeKeeps, FillKeeps, StripKeeps,
         MergeKeeps, RetireKeeps, RemoveKeeps
    <2>4. QED
      BY <2>1, <2>2, <2>3
  <1>5. CASE Finish \/ Fail \/ Kill
    <2>1. proc' = Idle
      BY <1>5 DEF Finish, Fail, Kill, Over
    <2>2. QED
      BY <1>2, <2>1, IdleIs
  <1>6. CASE \E k \in Keys : \E v \in Written(k) : Edit(k, v)
    <2>1. proc' = [proc EXCEPT !.regular = FALSE]
      BY <1>6 DEF Edit
    <2>2. QED
      BY <1>1, <1>2, <2>1, TypesAre, ProcEdited
  <1>7. CASE UNCHANGED vars
    <2>1. UNCHANGED <<root, points, side, proc>>
      BY <1>7 DEF vars
    <2>2. Tops(DOMAIN Explicit(proc.config)) \subseteq proc.policy /\ Stages
      BY <1>2, <2>1 DEF Inv
    <2>3. Now' = Now /\ Policy' = Policy /\ Declared' = Declared /\ Says' = Says
      BY <2>1 DEF Now, Policy, Declared, Says
    <2>4. Regular(proc.req)' <=> Regular(proc.req)
      BY <2>1, <2>3 DEF Regular
    <2>5. AsBegun => AsBegun'
      BY <2>1, <2>3, <2>4 DEF AsBegun
    <2>6. (Copied => Copied') /\ (Merged => Merged')
      BY <2>1, <2>3 DEF Copied, Merged
    <2>7. Stages'
      BY <2>1, <2>2, <2>3, <2>5, <2>6 DEF Stages
    <2>8. QED
      BY <2>1, <2>2, <2>7
  <1>8. QED
    BY <1>3, <1>4, <1>5, <1>6, <1>7 DEF Next

\* A workspace to begin with has no command.
LEMMA Begun ==
    Init => Inv
  <1> SUFFICES ASSUME Init
               PROVE  Inv
    OBVIOUS
  <1>1. IsSurface(root) /\ AreDocs(side) /\ points \in DOMAIN side \cup {None}
    BY SettingsAssumption DEF Init
  <1>2. proc = Idle
    BY DEF Init
  <1>3. ProcOK(proc) /\ proc.on = FALSE /\ proc.todo = <<>>
    BY <1>2, IdleIs
  <1>4. TypeOK
    <2>1. runs \in 0..MaxRuns /\ edits \in 0..MaxEdits
      BY SettingsAssumption DEF Init
    <2>2. QED
      BY <1>1, <1>3, <2>1, TypesAre
  <1>5. QED
    BY <1>3, <1>4 DEF Inv

\* The invariant holds of every state.
THEOREM Invariance == Spec => []Inv
  <1>1. Inv /\ [Next]_vars => Inv'
    BY Kept
  <1>2. QED
    BY <1>1, Begun, PTL DEF Spec

\* One step of a command.
LEMMA PolicyStep ==
    ASSUME Inv, [Next]_vars
    PROVE  [proc.on /\ proc.regular /\ edits' = edits =>
              /\ Now' \in {proc.config, Asked(proc.config, proc.req)}
              /\ ended' = "done" => Now' = Asked(proc.config, proc.req)]_vars
  <1> SUFFICES ASSUME proc.on, proc.regular, edits' = edits
               PROVE  /\ Now' \in {proc.config, Asked(proc.config, proc.req)}
                      /\ ended' = "done" => Now' = Asked(proc.config, proc.req)
    OBVIOUS
  <1>1. TypeOK /\ TypeOK' /\ Inv'
    BY Typed, Kept DEF Inv
  <1>2. Stages /\ ended = "running" /\ edits' = edits
    BY <1>1, TypesAre DEF Inv
  <1>3. Now \in {proc.config, Asked(proc.config, proc.req)}
    BY <1>1, <1>2, StageAt
  <1>4. CASE \E req \in Requests : Begin(req)
    BY <1>4 DEF Begin
  <1>5. CASE \/ Ensure \/ Put \/ Materialize \/ Fill
             \/ Strip \/ Merge \/ Retire \/ RemoveDoc
    <2>1. /\ proc'.on /\ proc'.regular /\ ended' = ended
          /\ proc'.config = proc.config /\ proc'.req = proc.req
      BY <1>1, <1>5, WriteKeeps
    <2>2. Stages'
      BY <1>1, <2>1 DEF Inv
    <2>3. (Now \in {proc.config, Asked(proc.config, proc.req)})'
      BY <2>2 DEF Stages, AsBegun
    <2>4. QED
      BY <1>2, <2>1, <2>3
  <1>6. CASE Finish
    <2>1. proc.todo = <<>> /\ UNCHANGED <<root, points, side>>
      BY <1>6 DEF Finish, Over
    <2>2. Now = Asked(proc.config, proc.req)
      BY <1>1, <1>2, <2>1, StageAt
    <2>3. QED
      BY <2>1, <2>2 DEF Now
  <1>7. CASE Fail \/ Kill
    <2>1. ended' # "done" /\ UNCHANGED <<root, points, side>>
      BY <1>7 DEF Fail, Kill, Over
    <2>2. QED
      BY <1>3, <2>1 DEF Now
  <1>8. CASE \E k \in Keys : \E v \in Written(k) : Edit(k, v)
    <2>1. edits' = edits + 1 /\ edits \in Nat
      BY <1>1, <1>8, TypesAre DEF Edit
    <2>2. QED
      BY <2>1
  <1>9. CASE UNCHANGED vars
    BY <1>2, <1>3, <1>9 DEF vars, Now
  <1>10. QED
    BY <1>4, <1>5, <1>6, <1>7, <1>8, <1>9 DEF Next

-----------------------------------------------------------------------------
(* What people wrote for themselves.                                       *)

\* Surfaces that say the same of people's own.
LEMMA OwnSame ==
    ASSUME NEW s, NEW t,
           \A k \in Notes : proc.req.op # "set" \/ k # proc.req.key =>
              /\ k \in DOMAIN s <=> k \in DOMAIN t
              /\ k \in DOMAIN s => t[k] = s[k]
    PROVE  Own(t) = Own(s)
  <1> DEFINE mine(x) == {k \in DOMAIN x \cap Notes : proc.req.op # "set" \/ k # proc.req.key}
  <1>1. mine(t) = mine(s)
    OBVIOUS
  <1>2. \A k \in mine(s) : t[k] = s[k]
    OBVIOUS
  <1>3. Own(s) = [k \in mine(s) |-> s[k]] /\ Own(t) = [k \in mine(t) |-> t[k]]
    BY DEF Own, Restrict
  <1> HIDE DEF mine
  <1>4. QED
    BY <1>1, <1>2, <1>3

\* Policy that is dropped or laid over is nobody's own.
LEMMA OwnKept ==
    ASSUME NEW s, NEW d, NEW P, \A k \in Notes : Top(k) \notin P /\ k \notin DOMAIN d
    PROVE  Own(DropTops(s, P)) = Own(s) /\ Own(Atop(d, DropTops(s, P))) = Own(s)
  <1>1. \A k \in Notes : /\ k \in DOMAIN s <=> k \in DOMAIN DropTops(s, P)
                         /\ k \in DOMAIN s => DropTops(s, P)[k] = s[k]
    BY DEF DropTops, Restrict
  <1>2. \A k \in Notes : /\ k \in DOMAIN s <=> k \in DOMAIN Atop(d, DropTops(s, P))
                         /\ k \in DOMAIN s => Atop(d, DropTops(s, P))[k] = s[k]
    BY <1>1 DEF Atop
  <1>3. QED
    BY <1>1, <1>2, OwnSame

\* What a command takes for policy is nobody's own.
LEMMA NotesApart ==
    ASSUME TypeOK
    PROVE  /\ \A k \in Notes : /\ Top(k) \notin proc.policy /\ k \notin DOMAIN proc.declared
                               /\ Top(k) \notin Tops(DOMAIN proc.declared)
           /\ \A c : \A k \in Notes : /\ k \notin DOMAIN Explicit(c)
                                      /\ Top(k) \notin Tops(DOMAIN Explicit(c))
  <1>1. \A k \in Notes : Top(k) \notin PolicyTops
    BY SettingsAssumption
  <1>2. proc.policy \subseteq PolicyTops /\ Tops(DOMAIN proc.declared) \subseteq proc.policy
    BY TypesAre, ProcIs
  <1>3. \A k \in DOMAIN proc.declared : Top(k) \in Tops(DOMAIN proc.declared)
    BY DEF Tops
  <1>4. ASSUME NEW c
        PROVE  Tops(DOMAIN Explicit(c)) \subseteq PolicyTops
    <2>1. DOMAIN Explicit(c) \subseteq Settled
      BY ExplicitIs
    <2>2. QED
      BY <2>1 DEF PolicyTops, Tops
  <1>5. \A c : \A k \in DOMAIN Explicit(c) : Top(k) \in Tops(DOMAIN Explicit(c))
    BY DEF Tops
  <1>6. QED
    BY <1>1, <1>2, <1>3, <1>4, <1>5

\* The notes of every config document stay.
DocsKept ==
    \A ext \in DOMAIN side :
       Own(side[ext].says) # Blank =>
          ext \in DOMAIN side' /\ Own(side'[ext].says) = Own(side[ext].says)

\* One config document is rewritten.
LEMMA RewriteKept ==
    ASSUME TypeOK, Readable(side, proc.doc), NEW x, IsDoc(x), Own(x.says) = Own(Doc.says),
           side' = [side EXCEPT ![proc.doc] = x]
    PROVE  DocsKept
  <1>1. /\ DOMAIN side' = DOMAIN side /\ side'[proc.doc] = x
        /\ \A e \in DOMAIN side : e # proc.doc => side'[e] = side[e]
    BY DocTyped
  <1>2. ASSUME NEW ext \in DOMAIN side
        PROVE  ext \in DOMAIN side' /\ Own(side'[ext].says) = Own(side[ext].says)
    <2>1. CASE ext = proc.doc
      BY <1>1, <2>1 DEF Doc
    <2>2. CASE ext # proc.doc
      BY <1>1, <2>2
    <2>3. QED
      BY <2>1, <2>2
  <1>3. QED
    BY <1>2 DEF DocsKept

\* One step keeps what people wrote for themselves.
LEMMA NotesStep ==
    ASSUME Inv, [Next]_vars, edits' = edits, proc.on => proc.regular
    PROVE  Own(root') = Own(root) /\ DocsKept
  <1>1. TypeOK
    BY DEF Inv
  <1>2. /\ \A k \in Notes : /\ Top(k) \notin proc.policy /\ k \notin DOMAIN proc.declared
                            /\ Top(k) \notin Tops(DOMAIN proc.declared)
        /\ \A c : \A k \in Notes : /\ k \notin DOMAIN Explicit(c)
                                   /\ Top(k) \notin Tops(DOMAIN Explicit(c))
    BY <1>1, NotesApart
  <1>3. ASSUME UNCHANGED <<root, side>>
        PROVE  Own(root') = Own(root) /\ DocsKept
    BY <1>3 DEF DocsKept
  <1>4. CASE Ensure
    <2>1. PICK ext : side' = Atop(side, Saying(ext, [text |-> ext, says |-> Blank]))
      BY <1>4 DEF Ensure
    <2>2. \A e \in DOMAIN side : e \in DOMAIN side' /\ side'[e] = side[e]
      BY <2>1 DEF Atop
    <2>3. root' = root
      BY <1>4 DEF Ensure
    <2>4. QED
      BY <2>2, <2>3 DEF DocsKept
  <1>5. CASE Put
    <2>1. PICK x : x = [Doc EXCEPT !.says = Atop(Saying(proc.req.key, proc.req.value), Doc.says)]
      OBVIOUS
    <2>2. /\ At("put") /\ Readable(side, proc.doc) /\ root' = root
          /\ side' = [side EXCEPT ![proc.doc] = x]
      BY <1>5, <2>1 DEF Put, Rewrite
    <2>3. /\ proc.req.op = "set" /\ proc.req.key \in Keys /\ proc.req.value \in Value
      BY <1>1, <2>2, AtIs
    <2>4. IsDoc(Doc) /\ IsSurface(Atop(Saying(proc.req.key, proc.req.value), Doc.says))
      BY <1>1, <2>2, <2>3, DocTyped, SurfacesAre
    <2>5. IsDoc(x) /\ x.says = Atop(Saying(proc.req.key, proc.req.value), Doc.says)
      BY <2>1, <2>4, DocIs
    <2>6. Own(x.says) = Own(Doc.says)
      <3>1. \A k : k # proc.req.key =>
               /\ k \in DOMAIN Doc.says <=> k \in DOMAIN x.says
               /\ k \in DOMAIN Doc.says => x.says[k] = Doc.says[k]
        BY <2>5 DEF Atop, Saying
      <3>2. QED
        BY <2>3, <3>1, OwnSame
    <2>7. QED
      BY <1>1, <2>2, <2>5, <2>6, RewriteKept
  <1>6. CASE Materialize
    <2>1. PICK e : e = Explicit(proc.config)
      OBVIOUS
    <2>2. PICK x : x = Fresh(Atop(e, DropTops(Doc.says, Tops(DOMAIN e))))
      OBVIOUS
    <2>3. /\ Readable(side, proc.doc) /\ root' = root
          /\ side' = [side EXCEPT ![proc.doc] = x]
      BY <1>6, <2>1, <2>2 DEF Materialize, Rewrite
    <2>4. IsSurface(e)
      <3>1. proc.config \in [Settled -> Value]
        BY <1>1, TypesAre, ProcIs
      <3>2. QED
        BY <2>1, <3>1 DEF Explicit, Restrict, IsSurface, Keys
    <2>5. IsDoc(x)
      BY <1>1, <2>2, <2>3, <2>4, DocTyped, SurfacesAre
    <2>6. x.says = Atop(e, DropTops(Doc.says, Tops(DOMAIN e)))
      BY <2>2 DEF Fresh
    <2>7. Own(x.says) = Own(Doc.says)
      BY <1>2, <2>1, <2>6, OwnKept
    <2>8. QED
      BY <1>1, <2>3, <2>5, <2>7, RewriteKept
  <1>7. CASE Fill
    <2>1. PICK x : x = Fresh(Atop(proc.declared, DropTops(Doc.says, proc.policy)))
      OBVIOUS
    <2>2. /\ Readable(side, proc.doc) /\ root' = root
          /\ side' = [side EXCEPT ![proc.doc] = x]
      BY <1>7, <2>1 DEF Fill, Rewrite
    <2>3. IsSurface(proc.declared)
      BY <1>1, TypesAre, ProcIs
    <2>4. IsDoc(x)
      BY <1>1, <2>1, <2>2, <2>3, DocTyped, SurfacesAre
    <2>5. x.says = Atop(proc.declared, DropTops(Doc.says, proc.policy))
      BY <2>1 DEF Fresh
    <2>6. Own(x.says) = Own(Doc.says)
      BY <1>2, <2>5, OwnKept
    <2>7. QED
      BY <1>1, <2>2, <2>4, <2>6, RewriteKept
  <1>8. CASE Strip
    <2>1. root' = DropTops(root, proc.policy) /\ side' = side
      BY <1>8 DEF Strip
    <2>2. Own(root') = Own(root)
      BY <1>2, <2>1, OwnKept
    <2>3. QED
      BY <2>1, <2>2 DEF DocsKept
  <1>9. CASE Merge
    <2>1. /\ root' = Atop(proc.declared, DropTops(root, Tops(DOMAIN proc.declared)))
          /\ side' = side
      BY <1>9 DEF Merge
    <2>2. Own(root') = Own(root)
      BY <1>2, <2>1, OwnKept
    <2>3. QED
      BY <2>1, <2>2 DEF DocsKept
  <1>10. CASE Retire
    <2>1. root' = root
      BY <1>10 DEF Retire
    <2>2. CASE UNCHANGED side
      BY <1>3, <2>1, <2>2
    <2>3. CASE Readable(side, proc.doc) /\ Rewrite(Fresh(DropTops(Doc.says, proc.policy)))
      <3>1. PICK x : x = Fresh(DropTops(Doc.says, proc.policy))
        OBVIOUS
      <3>2. IsDoc(x)
        BY <1>1, <2>3, <3>1, DocTyped, SurfacesAre
      <3>3. x.says = DropTops(Doc.says, proc.policy)
        BY <3>1 DEF Fresh
      <3>4. Own(x.says) = Own(Doc.says)
        BY <1>2, <3>3, OwnKept
      <3>5. side' = [side EXCEPT ![proc.doc] = x]
        BY <2>3, <3>1 DEF Rewrite
      <3>6. DocsKept
        BY <1>1, <2>3, <3>2, <3>4, <3>5, RewriteKept
      <3>7. QED
        BY <2>1, <3>6
    <2>4. QED
      BY <1>10, <2>2, <2>3 DEF Retire
  <1>11. CASE RemoveDoc
    <2>1. /\ At("remove") /\ side' = Restrict(side, DOMAIN side \ {proc.doc})
          /\ root' = root
      BY <1>11 DEF RemoveDoc
    <2>2. proc.on /\ proc.todo = <<"remove">>
      BY <1>1, <2>1, AtIs DEF At
    <2>3. Stages
      BY <2>2 DEF Inv
    <2>4. proc.doc \in DOMAIN side => DOMAIN side[proc.doc].says \cap Notes = {}
      BY <1>1, <2>2, <2>3, StageAt
    <2>5. proc.doc \in DOMAIN side => Own(side[proc.doc].says) = Blank
      BY <2>4 DEF Own, Restrict, Blank
    <2>6. \A e \in DOMAIN side : e # proc.doc => e \in DOMAIN side' /\ side'[e] = side[e]
      BY <2>1 DEF Restrict
    <2>7. QED
      BY <2>1, <2>5, <2>6 DEF DocsKept
  <1>12. CASE \/ \E req \in Requests : Begin(req)
              \/ Finish \/ Fail \/ Kill \/ UNCHANGED vars
    <2>1. UNCHANGED <<root, side>>
      BY <1>12 DEF Begin, Finish, Fail, Kill, Over, vars
    <2>2. QED
      BY <1>3, <2>1
  <1>13. CASE \E k \in Keys : \E v \in Written(k) : Edit(k, v)
    <2>1. edits' = edits + 1 /\ edits \in Nat
      BY <1>1, <1>13, TypesAre DEF Edit
    <2>2. QED
      BY <2>1
  <1>14. QED
    BY <1>4, <1>5, <1>6, <1>7, <1>8, <1>9, <1>10, <1>11, <1>12, <1>13 DEF Next

\* Types.
THEOREM TypeCorrect == Spec => []TypeOK
  <1>1. Inv => TypeOK
    BY DEF Inv
  <1>2. QED
    BY <1>1, Invariance, PTL

\* PolicyAsAsked.
THEOREM PolicyAlwaysAsked == Spec => PolicyAsAsked
  <1>1. Inv /\ [Next]_vars =>
          [proc.on /\ proc.regular /\ edits' = edits =>
             /\ Now' \in {proc.config, Asked(proc.config, proc.req)}
             /\ ended' = "done" => Now' = Asked(proc.config, proc.req)]_vars
    BY PolicyStep
  <1>2. QED
    BY <1>1, Invariance, PTL DEF Spec, PolicyAsAsked

\* NotesSurvive.
THEOREM NotesAlwaysSurvive == Spec => NotesSurvive
  <1>1. Inv /\ [Next]_vars =>
          [edits' = edits /\ (proc.on => proc.regular) =>
             /\ Own(root') = Own(root)
             /\ \A ext \in DOMAIN side :
                   Own(side[ext].says) # Blank =>
                      ext \in DOMAIN side' /\ Own(side'[ext].says) = Own(side[ext].says)]_vars
    BY NotesStep DEF DocsKept
  <1>2. QED
    BY <1>1, Invariance, PTL DEF Spec, NotesSurvive
=============================================================================
