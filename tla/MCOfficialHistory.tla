-------------------------- MODULE MCOfficialHistory --------------------------
EXTENDS OfficialHistory, TLC

\* Requests are interchangeable.
ClientSymmetry == Permutations(Clients)
==============================================================================
