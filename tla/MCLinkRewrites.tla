--------------------------- MODULE MCLinkRewrites ---------------------------
(* Two directories, one inside the other, and one beside them; texts of up *)
(* to three components, climbs and detours among them.                     *)
EXTENDS LinkRewrites

D == <<"d">>
E == <<"e">>
A == <<"a", "md">>

MCPlace == {<<A>>, <<D, A>>, <<D, E, A>>, <<E, A>>}

MCWritten ==
    [abs : BOOLEAN, parts : UNION {[1..n -> {Up, Here, D, E, A}] : n \in 1..3}]

MCStyle == {"root", "relative"}

=============================================================================
