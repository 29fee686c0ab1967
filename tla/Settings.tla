------------------------------ MODULE Settings ------------------------------
(***************************************************************************)
(* The workspace's policy: where it is written, what is read of it, and    *)
(* the commands prov config, --setup and --home that write it              *)
(* (prov/src/config.rs, workspace.rs and discovery.rs, and the cmd_config  *)
(* functions of prov-cli/src/main.rs).                                     *)
(*                                                                         *)
(* Policy lives in two places, the prov: block of the root document and a  *)
(* config document the root points at.  A command reads both, then writes  *)
(* one file after another; it may be killed between two writes, and people *)
(* edit both places by hand.                                               *)
(*                                                                         *)
(* A key is the sequence of the names on the way to it.  A surface is a    *)
(* function from the keys that are written in it to what is written.       *)
(***************************************************************************)
EXTENDS Naturals, Sequences, Functions

CONSTANTS
    Axes,      \* keys that are read each by itself
    Default,   \* what an axis is when it is not written
    Valid,     \* the values a key may have
    Typos,     \* keys that nearly are one of the others
    Notes,     \* keys that are people's own, beside the policy
    Starts,    \* the workspaces to begin with
    Requests,  \* the commands people give
    MaxRuns,   \* bound: commands given
    MaxEdits,  \* bound: edits by hand
    None

\* A controlled field is read as a whole, once it names a vocabulary.
Vocabulary == <<"fields", "tags", "vocabulary">>
Values     == <<"fields", "tags", "values">>
Field      == {Vocabulary, Values}
FormatKey  == <<"metadata", "format">>

Settled == Axes \cup Field
Keys    == Settled \cup Typos \cup Notes

Top(k)   == Head(k)
Tops(S)  == {Top(k) : k \in S}
Blank    == [k \in {} |-> None]
DropTops(s, tops) == Restrict(s, {k \in DOMAIN s : Top(k) \notin tops})
KeepTops(s, tops) == Restrict(s, {k \in DOMAIN s : Top(k) \in tops})

\* A surface that says one thing; one laid over another.
Saying(k, v) == [x \in {k} |-> v]
Atop(s, t)   == [k \in DOMAIN s \cup DOMAIN t |-> IF k \in DOMAIN s THEN s[k] ELSE t[k]]

PolicyTops == Tops(Settled) \cup {"relations"}

Value   == {None, "other"} \cup UNION {Valid[k] \cup {Default[k]} : k \in Settled}
Formats == Valid[FormatKey]

IsSurface(s) == DOMAIN s \subseteq Keys /\ s \in [DOMAIN s -> Value]

IsDoc(d) == d = [text |-> d.text, says |-> d.says] /\ d.text \in Formats /\ IsSurface(d.says)

AreDocs(docs) ==
    /\ DOMAIN docs \subseteq Formats /\ docs = [ext \in DOMAIN docs |-> docs[ext]]
    /\ \A ext \in DOMAIN docs : IsDoc(docs[ext])

Set(k, v)  == [op |-> "set", key |-> k, value |-> v]
Setup      == [op |-> "setup"]
HomeSide   == [op |-> "home sidecar"]
HomeRoot   == [op |-> "home root"]

Request == {Set(k, v) : k \in Keys, v \in Value} \cup {Setup, HomeSide, HomeRoot}

ASSUME SettingsAssumption ==
    /\ FormatKey \in Axes /\ Axes \cap Field = {}
    /\ DOMAIN Default = Settled /\ DOMAIN Valid = Settled
    /\ \A k \in Settled : None \notin Valid[k]
    /\ Default[FormatKey] \in Valid[FormatKey]
    /\ \A k \in Notes : Top(k) \notin PolicyTops  \* people's own maps
    /\ \A w \in Starts : /\ IsSurface(w.root) /\ AreDocs(w.side)
                        /\ w.points \in DOMAIN w.side \cup {None}
    /\ Requests \subseteq Request
    /\ MaxRuns \in Nat /\ MaxEdits \in Nat

VARIABLES
    root,    \* the prov: block of the root document
    points,  \* the config document the root points at, by its extension, or None
    side,    \* the config documents there are: the format of their text, and a surface
    proc,    \* the command that runs
    ended,   \* history: how the last command ended
    runs, edits

vars == <<root, points, side, proc, ended, runs, edits>>

-----------------------------------------------------------------------------
(* What is read.                                                           *)

Reads(s, k) == k \in DOMAIN s /\ s[k] \in Valid[k]

\* A surface over the configuration so far.
Applied(cfg, s) ==
    [k \in Settled |->
        CASE k \in Field /\ Reads(s, Vocabulary) -> IF Reads(s, k) THEN s[k] ELSE Default[k]
          [] k \in Axes /\ Reads(s, k)           -> s[k]
          [] OTHER                               -> cfg[k]]

\* No controlled field, and the axes at their defaults.
Defaults == [k \in Settled |-> IF k \in Field THEN None ELSE Default[k]]

\* A config document is parsed as its extension says.
Readable(docs, ext) == ext \in DOMAIN docs /\ docs[ext].text = ext

\* The config document wins over the block; one that cannot be read is passed
\* over.
Effective(block, ptr, docs) ==
    IF Readable(docs, ptr) THEN Applied(Applied(Defaults, block), docs[ptr].says)
                           ELSE Applied(Defaults, block)

Now == Effective(root, points, side)

\* A configuration with every setting written out.
Explicit(cfg) == Restrict(cfg, {k \in Settled : cfg[k] # None})

\* The names that are policy here: those of the settings in effect, and
\* relations wherever one is spoken of.
Policy ==
    LET spoken == DOMAIN root \cup (IF Readable(side, points) THEN DOMAIN side[points].says ELSE {})
    IN  Tops(DOMAIN Explicit(Now)) \cup ({"relations"} \cap Tops(spoken))

\* Mutant: where both places speak of a key the block wins.
DeclaredRootWins ==
    LET block == KeepTops(root, Policy)
    IN  IF points = None THEN block ELSE Atop(block, KeepTops(side[points].says, Policy))

\* The policy that is written, from both places.
Declared ==
    LET block == KeepTops(root, Policy)
    IN  IF points = None THEN block ELSE Atop(KeepTops(side[points].says, Policy), block)

\* What check and config say of a key: it is nearly another one, or its value
\* cannot be read.  A key that resembles none is people's own.
Resembles(k)   == k \in Typos
BadAxis(k, v)  == k \in Axes /\ v \notin Valid[k]
BadField(k, v) == k \in Field /\ v \notin Valid[k]

Diagnosed(k, v) == Resembles(k) \/ BadAxis(k, v) \/ BadField(k, v)

-----------------------------------------------------------------------------
(* The commands.                                                           *)

Writes(req) ==
    CASE req.op = "set"          -> <<"ensure", "put">>
      [] req.op = "setup"        -> <<"ensure", "materialize">>
      [] req.op = "home sidecar" -> <<"ensure", "fill", "strip">>
      [] req.op = "home root"    -> <<"merge", "retire">>

\* What a command that succeeds should make of the configuration.
Asked(cfg, req) ==
    IF req.op = "set" /\ req.key \in Settled THEN [cfg EXCEPT ![req.key] = req.value] ELSE cfg

Homes(req) == req.op \in {"home sidecar", "home root"}

\* What the config document says, or would.
Says == IF points = None THEN Blank ELSE side[points].says

\* Where a command does what it promises.  Not so: with a config document
\* left behind that the root does not point at, which is taken up again;
\* where a config document is rewritten in another format than its name
\* says; where --home finds a controlled field in both places, or a value
\* that cannot be read over one that can; and where a controlled field is set
\* key by key.
Regular(req) ==
    /\ DOMAIN side \subseteq {points}
    /\ req.op # "set" => points \in {None, Now[FormatKey]}
    /\ Homes(req) =>
          /\ \A k \in DOMAIN root \cap DOMAIN Says : k \in Settled => Reads(Says, k)
          /\ ~("fields" \in Tops(DOMAIN root) /\ "fields" \in Tops(DOMAIN Says))
    /\ req.op = "set" /\ req.key \in Field => Reads(Says, Vocabulary)

Idle == [on |-> FALSE, req |-> Setup, todo |-> <<>>, config |-> Defaults, policy |-> {},
         declared |-> Blank, doc |-> None, regular |-> FALSE]

Begins(req) ==
    [on |-> TRUE, req |-> req, todo |-> Writes(req), config |-> Now, policy |-> Policy,
     declared |-> IF points = None \/ Readable(side, points) THEN Declared ELSE Blank,
     doc |-> points, regular |-> Regular(req)]

Begin(req) ==
    /\ ~proc.on /\ runs < MaxRuns
    /\ IF \/ req.op = "set" /\ Diagnosed(req.key, req.value)
          \/ Homes(req) /\ ~Readable(side, points) /\ points # None
       THEN ended' = "refused" /\ UNCHANGED proc
       ELSE ended' = "running" /\ proc' = Begins(req)
    /\ runs' = runs + 1
    /\ UNCHANGED <<root, points, side, edits>>

At(write) == proc.on /\ proc.todo # <<>> /\ Head(proc.todo) = write
Goes(p)   == [p EXCEPT !.todo = Tail(@)]

\* The config document, if there is none called so, and the pointer to it.
Ensure ==
    /\ At("ensure")
    /\ LET ext == IF points = None THEN proc.config[FormatKey] ELSE points
       IN  /\ side' = Atop(side, Saying(ext, [text |-> ext, says |-> Blank]))
           /\ points' = ext
           /\ proc' = Goes([proc EXCEPT !.doc = ext])
    /\ UNCHANGED <<root, ended, runs, edits>>

Doc == side[proc.doc]
Rewrite(doc) == side' = [side EXCEPT ![proc.doc] = doc]

Fresh(says) == [text |-> proc.config[FormatKey], says |-> says]

Put ==
    /\ At("put") /\ Readable(side, proc.doc)
    /\ Rewrite([Doc EXCEPT !.says = Atop(Saying(proc.req.key, proc.req.value), @)])
    /\ proc' = Goes(proc)
    /\ UNCHANGED <<root, points, ended, runs, edits>>

Materialize ==
    /\ At("materialize") /\ Readable(side, proc.doc)
    /\ LET policy == Explicit(proc.config)
       IN  Rewrite(Fresh(Atop(policy, DropTops(Doc.says, Tops(DOMAIN policy)))))
    /\ proc' = Goes(proc)
    /\ UNCHANGED <<root, points, ended, runs, edits>>

Fill ==
    /\ At("fill") /\ Readable(side, proc.doc)
    /\ Rewrite(Fresh(Atop(proc.declared, DropTops(Doc.says, proc.policy))))
    /\ proc' = Goes(proc)
    /\ UNCHANGED <<root, points, ended, runs, edits>>

Strip ==
    /\ At("strip")
    /\ root' = DropTops(root, proc.policy)
    /\ proc' = Goes(proc)
    /\ UNCHANGED <<points, side, ended, runs, edits>>

Merge ==
    /\ At("merge")
    /\ root' = Atop(proc.declared, DropTops(root, Tops(DOMAIN proc.declared)))
    /\ proc' = Goes(proc)
    /\ UNCHANGED <<points, side, ended, runs, edits>>

\* Mutant: whatever else the config document says, it goes.
RetireAlways ==
    /\ At("retire")
    /\ points' = None
    /\ proc' = [proc EXCEPT !.todo = IF points = None THEN <<>> ELSE <<"remove">>]
    /\ UNCHANGED <<root, side, ended, runs, edits>>

\* A config document that says nothing else is no longer pointed at, and then
\* removed; another is kept without the policy.
Retire ==
    /\ At("retire")
    /\ IF points = None THEN proc' = Goes(proc) /\ UNCHANGED <<points, side>>
       ELSE LET rest == DropTops(Doc.says, proc.policy)
            IN  /\ Readable(side, proc.doc)
                /\ IF rest = Blank
                   THEN /\ points' = None
                        /\ proc' = [proc EXCEPT !.todo = <<"remove">>]
                        /\ UNCHANGED side
                   ELSE /\ Rewrite(Fresh(rest))
                        /\ proc' = Goes(proc)
                        /\ UNCHANGED points
    /\ UNCHANGED <<root, ended, runs, edits>>

RemoveDoc ==
    /\ At("remove")
    /\ side' = Restrict(side, DOMAIN side \ {proc.doc})
    /\ proc' = Goes(proc)
    /\ UNCHANGED <<root, points, ended, runs, edits>>

Over(how) == proc' = Idle /\ ended' = how /\ UNCHANGED <<root, points, side, runs, edits>>

Finish == proc.on /\ proc.todo = <<>> /\ Over("done")

\* A config document that cannot be read.
Fail ==
    /\ At("put") \/ At("materialize") \/ At("fill") \/ (At("retire") /\ points # None)
    /\ ~Readable(side, proc.doc)
    /\ Over("failed")

Kill == proc.on /\ Over("killed")

\* People write in either place what they like.
Edited(s, k, v) == IF v = None THEN Restrict(s, DOMAIN s \ {k}) ELSE Atop(Saying(k, v), s)

Edit(k, v) ==
    /\ edits < MaxEdits
    /\ \/ root' = Edited(root, k, v) /\ root' # root /\ UNCHANGED side
       \/ /\ points # None
          /\ side' = [side EXCEPT ![points].says = Edited(@, k, v)] /\ side' # side
          /\ UNCHANGED root
    /\ edits' = edits + 1
    /\ proc' = [proc EXCEPT !.regular = FALSE]
    /\ UNCHANGED <<points, ended, runs>>

Written(k) == {None, "other"} \cup (IF k \in Settled THEN Valid[k] ELSE {})

Init ==
    /\ \E w \in Starts : root = w.root /\ points = w.points /\ side = w.side
    /\ proc = Idle /\ ended = "none" /\ runs = 0 /\ edits = 0

Next ==
    \/ \E req \in Requests : Begin(req)
    \/ Ensure \/ Put \/ Materialize \/ Fill \/ Strip \/ Merge \/ Retire \/ RemoveDoc
    \/ Finish \/ Fail \/ Kill
    \/ \E k \in Keys : \E v \in Written(k) : Edit(k, v)

Spec == Init /\ [][Next]_vars

-----------------------------------------------------------------------------
(***************************************************************************)
(* Correctness.                                                            *)
(***************************************************************************)

\* The configuration in effect is at every moment of a command, whatever kills
\* it, the one before it or the one asked for, and the one asked for when it
\* ends: prov config changes the key it names and no other, and is refused
\* where prov would not read the value; --setup and --home change nothing
\* ("the effective config is unchanged, just consolidated").
PolicyAsAsked ==
    [][proc.on /\ proc.regular /\ edits' = edits =>
         /\ Now' \in {proc.config, Asked(proc.config, proc.req)}
         /\ ended' = "done" => Now' = Asked(proc.config, proc.req)]_vars

\* What people wrote for themselves beside the policy stays where it is, in a
\* config document too that --home root empties of policy ("kept ... so
\* nothing is lost"), unless they write it while the command runs, and but for
\* the key that prov config is asked to set.
Own(s) == Restrict(s, {k \in DOMAIN s \cap Notes : proc.req.op # "set" \/ k # proc.req.key})

NotesSurvive ==
    [][edits' = edits /\ (proc.on => proc.regular) =>
         /\ Own(root') = Own(root)
         /\ \A ext \in DOMAIN side :
               Own(side[ext].says) # Blank =>
                  ext \in DOMAIN side' /\ Own(side'[ext].says) = Own(side[ext].says)]_vars

-----------------------------------------------------------------------------
(* The inductive invariant.                                                *)

\* What a command may have left to write.
Left(req) ==
    {Writes(req), <<>>} \cup
    CASE req.op = "set"          -> {<<"put">>}
      [] req.op = "setup"        -> {<<"materialize">>}
      [] req.op = "home sidecar" -> {<<"fill", "strip">>, <<"strip">>}
      [] req.op = "home root"    -> {<<"retire">>, <<"remove">>}

TypeOK ==
    /\ IsSurface(root) /\ AreDocs(side) /\ points \in DOMAIN side \cup {None}
    /\ proc \in [on : BOOLEAN, req : Request, todo : Left(proc.req), config : [Settled -> Value],
                policy : SUBSET PolicyTops, declared : {proc.declared},
                doc : Formats \cup {None}, regular : BOOLEAN]
    /\ IsSurface(proc.declared) /\ Tops(DOMAIN proc.declared) \subseteq proc.policy
    /\ proc.config[FormatKey] \in Formats
    /\ proc.on => ended = "running"
    /\ proc.todo = <<"remove">> => points = None
    /\ runs \in 0..MaxRuns /\ edits \in 0..MaxEdits

\* Nothing has been written but an empty config document.
AsBegun ==
    /\ proc.config = Now /\ proc.policy = Policy /\ proc.doc = points
    /\ Regular(proc.req)
    /\ proc.req.op = "set" => ~Diagnosed(proc.req.key, proc.req.value)
    /\ Homes(proc.req) => /\ proc.declared = Declared
                          /\ points # None => Readable(side, points)

\* What the block says of the policy the config document says too.
Copied ==
    \A k \in Axes \cup {Vocabulary} :
        Top(k) \in proc.policy /\ Reads(root, k) => Reads(Says, k)

\* What the config document says of the policy the block says too.
Merged ==
    /\ \A k \in Axes : Reads(Says, k) => Reads(root, k) /\ root[k] = Says[k]
    /\ Reads(Says, Vocabulary) =>
          \A k \in Field : /\ Reads(Says, k) <=> Reads(root, k)
                           /\ Reads(Says, k) => root[k] = Says[k]

\* How far a command is, and what is then written.
Stages ==
    LET left(todo) == proc.todo = todo
    IN  \/ left(Writes(proc.req)) /\ AsBegun
        \/ /\ left(<<"put">>) \/ left(<<"materialize">>) \/ left(<<"fill", "strip">>)
           /\ AsBegun /\ points # None
        \/ /\ left(<<"strip">>)
           /\ proc.config = Now /\ Readable(side, points) /\ Copied
        \/ /\ left(<<"retire">>)
           /\ proc.config = Now /\ Merged
           /\ proc.doc = points /\ points \in {None, Now[FormatKey]}
        \/ /\ left(<<"remove">>)
           /\ proc.config = Now
           /\ proc.doc \in DOMAIN side => DOMAIN side[proc.doc].says \cap Notes = {}
        \/ left(<<>>) /\ Now = Asked(proc.config, proc.req)

Inv ==
    /\ TypeOK
    /\ proc.on /\ proc.regular =>
          Tops(DOMAIN Explicit(proc.config)) \subseteq proc.policy /\ Stages
=============================================================================
