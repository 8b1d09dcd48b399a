--------------------------- MODULE MCMetadataCache ---------------------------
EXTENDS MetadataCache, TLC

CONSTANTS r1, r2, pathA, pathB

\* One repository at pathA; pathB is its old name.
Alone == r1 :> pathA
Renamed == pathA :> r1 @@ pathB :> r1

\* Two repositories.
Neighbours == r1 :> pathA @@ r2 :> pathB
Separate == pathA :> r1 @@ pathB :> r2

MetadataSymmetry == Permutations(Clients)
==============================================================================
