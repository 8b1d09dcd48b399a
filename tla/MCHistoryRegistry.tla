-------------------------- MODULE MCHistoryRegistry --------------------------
EXTENDS HistoryRegistry, TLC

CONSTANTS v1, v2, v3, s1, s2

\* Three snapshots, built one after the other, the last one of a rebuilt day 2.
Watermarks == v1 :> 1 @@ v2 :> 2 @@ v3 :> 2
Creation == v1 :> 1 @@ v2 :> 2 @@ v3 :> 3

OneOfEach == [version : {v1, v2, v3}, sum : {s1}]
FirstOnly == [version : {v1}, sum : {s1}]

\* The second one was rebuilt under its old identifier.
Rebuilt == OneOfEach \cup [version : {v2}, sum : {s2}]

\* Deltas for the days 2 and 3; that of day 2 was rebuilt as well.
Deltas == [day : {2}, sum : {s1, s2}] \cup [day : {3}, sum : {s1}]
DayTwo == [day : {2}, sum : {s1}]
DeltasOnce == [day : {2, 3}, sum : {s1}]

RegistrySymmetry ==
    Permutations(Publishers) \cup Permutations(Readers) \cup Permutations(Files)
==============================================================================
