--------------------------- MODULE MCChangeSet ---------------------------
(***************************************************************************)
(* ChangeSet on a workspace of four documents, or of two documents and one *)
(* path outside it.  The sets are the shapes prov/src/mutate.rs stages.    *)
(***************************************************************************)
EXTENDS ChangeSet

CONSTANTS a, b, c, d, o, x, y, z

\* create: the child, then its parent
CreateSet == <<Write(b, x), Write(a, y)>>
\* rename: the move, the moved text, an inbound reference
RenameSet == <<Rename(a, b), Write(b, y), Write(c, x)>>
\* rename of a separated node: its prose body moves and is rewritten too
RenamePairSet == <<Rename(a, b), Write(b, y), Rename(c, d), Write(d, x)>>
\* recycle and restore of a node with an opaque body
RecycleSet == <<Rename(a, b), Rename(c, d)>>
\* delete: the document, then its parent's entry
DeleteSet == <<Remove(a), Write(c, x)>>
\* empty_bin: the binned files, then the bin index
EmptyBinSet == <<Remove(a), Remove(b), Write(c, y)>>
\* a document two steps of one mutation both edit (ChangeSet::staged)
TwiceSet == <<Write(a, x), Write(c, y), Write(a, y)>>
MutationSets == {<< >>, CreateSet, RenameSet, RenamePairSet, RecycleSet,
                 DeleteSet, EmptyBinSet, TwiceSet}

\* The shapes that fit a workspace of three documents.
SmallSets == {CreateSet, RenameSet, DeleteSet, TwiceSet}

\* Sets a caller assembled with a path that climbs out of the root, beside
\* two that stay inside.
EscapeSets == {<<Write(a, x), Write(o, y)>>, <<Rename(a, o)>>,
               <<Rename(o, a)>>, <<Remove(o), Write(a, y)>>,
               <<Rename(a, b), Write(b, y)>>, DeleteSet,
               TwiceSet}

\* The discipline of FileOps!ReplaySafe, met by every set above.
ASSUME MutationSetsAreReplaySafe == \A ops \in MutationSets : ReplaySafe(ops)

=============================================================================
