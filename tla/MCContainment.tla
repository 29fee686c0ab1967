--------------------------- MODULE MCContainment ---------------------------
(* A root, and beside it and in one directory the paths of two documents.  *)
EXTENDS Containment, TLC

CONSTANTS d1, d2, d3

D == <<"d">>
At(stem, ext) == <<stem, ext>>
MCIndex == {<<At("index", "md")>>}

Pair(dir, stem) == {dir \o <<At(stem, e)>> : e \in {"md", "yaml"}}

MCPlace == MCIndex \cup Pair(<<>>, "a") \cup Pair(<<>>, "b") \cup Pair(<<D>>, "a")
MCSmallPlace == MCIndex \cup Pair(<<>>, "a") \cup {<<At("b", "md")>>, <<D, At("a", "md")>>}
MCWritten == {PathLink(TRUE, <<At("a", "md")>>)}
MCTitles == {<<"T">>}
MCTwoTitles == {<<"T">>, <<"U">>}
MCAnyIndex == Pair(<<>>, "index")
MCPairs == MCAnyIndex \cup Pair(<<>>, "a") \cup Pair(<<D>>, "a")
MCCopyOf == [p \in Pair(<<>>, "a") |-> <<At("b", p[1][2])>>]
View == <<ws, born, typed>>
Symmetry == Permutations(Doc \ {First})
=============================================================================
