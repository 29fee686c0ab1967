------------------------------ MODULE MCIntake ------------------------------
EXTENDS Founding

SlugOf   == "Daily" :> "daily" @@ "2026" :> "2026"
TitledAs == "daily" :> "Daily" @@ "2026" :> "2026" @@ "pic" :> "Pic" @@ "note" :> "Note"

Root == <<<<"index", "md">>>>

Home(down) == Root :> File(TRUE, String("Home"), {}, down, {})

Under(p) == <<<<"daily">>>> \o p
Deep(p)  == Under(<<<<"2026">>>> \o p)

Note   == <<<<"note", "md">>>>
Year   == <<<<"2026", "md">>>>
Readme == <<<<"readme", "md">>>>
Pic    == <<<<"pic", "jpg">>>>
Png    == <<<<"pic", "png">>>>
Daily  == <<<<"daily", "yaml">>>>
Prose  == <<<<"daily", "md">>>>
Json   == <<<<"pic", "jpg", "json">>>>

Named(title) == File(TRUE, String(title), {}, {}, {})
Loaded == File(TRUE, String("Daily"), {}, {}, {})
Number == File(TRUE, [text |-> "2026", string |-> FALSE], {Root}, {}, {})
Sidecar(q) == File(TRUE, String("Pic"), {Root}, {}, {q})

\* Nothing but the root; a tree of directories with prose and payloads, one
\* with a readme; documents in the way of routes; a separated one on the way; payloads, one of which
\* has a sidecar.
Bare  == Home({})
Tree  == Home({}) @@ Under(Note) :> Plain @@ Deep(Readme) :> Plain @@ Deep(Pic) :> Plain
Skip  == Home({}) @@ Deep(Note) :> Loaded @@ Pic :> Plain @@ Png :> Plain
InWay == Home({Year}) @@ Year :> Number @@ Under(Note) :> File(TRUE, String("Note"), {Root}, {}, {})
Pair  == Home({Daily}) @@ Daily :> File(TRUE, String("Daily"), {Root}, {}, {Prose}) @@ Prose :> Plain
Pics  == Home({Json}) @@ Pic :> Plain @@ Json :> Sidecar(Pic) @@ Under(Png) :> Plain

\* No workspace yet: an empty directory; a folder of prose and payloads; documents with
\* metadata, one of which contains another.
Empty  == <<>>
Folder == Note :> Plain @@ Under(Note) :> Plain @@ Deep(Pic) :> Plain
Notes  == Note :> Named("Note") @@ Readme :> Named("Read me") @@ Under(Note) :> File(TRUE, String("Note"), {}, {Deep(Note)}, {})
              @@ Deep(Note) :> File(TRUE, String("Note"), {Under(Note)}, {}, {})

SafeTrees == {Bare, Tree, Skip, InWay, Pics, Pair, Empty, Folder, Notes}

SafeFoundings ==
    {Founding(adopt, adopt # "none", separate, {}, {}) :
        adopt \in {"none", "flat", "mirror", "walk"}, separate \in BOOLEAN}
    \cup {Founding("walk", FALSE, FALSE, {pick}, leave) :
             pick \in {Note, Readme}, leave \in {{}, {Note}}}

Ways == {Along(<<>>, "flat")}
        \cup {Along(segments, layout) : segments \in {<<"Daily">>, <<"Daily", "2026">>},
                                        layout \in {"nested", "flat"}}

AllRequests ==
    {New(way.segments, way.layout, TRUE, title) : way \in Ways, title \in {"Daily", "2026"}}
    \cup {New(<<>>, "nested", FALSE, "Daily"), New(<<"Daily">>, "nested", FALSE, "2026")}
    \cup {Mirror} \cup {AttachAll(recursive) : recursive \in BOOLEAN}

\* A title twice in a route, its documents beside each other.
BareTrees     == {Bare}
TwiceRequests == {New(<<"Daily", "Daily">>, "flat", TRUE, "2026")}

\* A root with nothing but metadata, a document of prose below it, and a route
\* on from there.
Whole        == <<<<"index", "yaml">>>>
Journal      == <<<<"daily", "md">>>>
WholeTrees   == {Whole :> File(TRUE, String("Home"), {}, {Journal}, {})
                 @@ Journal :> File(TRUE, String("Daily"), {Whole}, {}, {})}
LongSlug     == SlugOf @@ "Note" :> "note"
DeepRequests == {New(<<"Daily", "2026", "Note">>, "nested", TRUE, "Daily")}

\* A link to nothing, where a route would make a document with a title that
\* another child of the same parent has.
Dangling     == {Home({Journal, Under(Root)})
                 @@ Journal :> File(TRUE, String("Daily"), {Root}, {}, {})}
SameRequests == {New(<<"Daily", "Daily">>, "nested", TRUE, "2026")}

NoFoundings == {}

Written == Under(Index("md")) :> {Loaded} @@ Year :> {Loaded} @@ Deep(Png) :> {Plain}
=============================================================================
