----------------------------- MODULE MCSettings -----------------------------
EXTENDS Settings, TLC

notation == <<"references", "notation">>
label    == <<"relations", "up", "label">>
typo     == <<"references", "notaton">>
note     == <<"note">>

MCAxes  == {FormatKey, notation, label}
MCTypos == {typo}
MCNotes == {note}

MCDefault ==
    FormatKey :> "yaml" @@ notation :> "markdown" @@ label :> None
        @@ Vocabulary :> None @@ Values :> "open"

MCValid ==
    FormatKey :> {"yaml", "toml"} @@ notation :> {"markdown", "bare"} @@ label :> {"true"}
        @@ Vocabulary :> {"tags.yaml"} @@ Values :> {"open", "closed"}

\* Policy in the block, in a config document, in both, with a note.
World(block, ptr, docs) == [root |-> block, points |-> ptr, side |-> docs]
Yaml(says) == "yaml" :> [text |-> "yaml", says |-> says]

MCStarts ==
    {World(Blank, None, Blank),
     World(notation :> "bare" @@ note :> "other", None, Blank),
     World(notation :> "bare", "yaml", Yaml(notation :> "markdown" @@ label :> "true")),
     World(Vocabulary :> "tags.yaml" @@ Values :> "closed", "yaml", Yaml(note :> "other")),
     World(FormatKey :> "toml", None, Blank)}

MCRequests ==
    {Setup, HomeSide, HomeRoot, Set(notation, "bare"), Set(notation, "other"), Set(typo, "bare"),
     Set(note, "other"), Set(FormatKey, "toml"), Set(Values, "open"), Set(Vocabulary, "tags.yaml")}
=============================================================================
