---------------------------- MODULE MCGitHubCalls ----------------------------
EXTENDS GitHubCalls, TLC

CallsSymmetry == Permutations(Lookups)
==============================================================================
