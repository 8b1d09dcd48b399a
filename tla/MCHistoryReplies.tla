--------------------------- MODULE MCHistoryReplies ---------------------------
EXTENDS HistoryReplies

CONSTANTS first, second

\* The model does not tell one description from another.
RepliesSymmetry == Permutations(Descriptions)

\* The Sunday of 4 January 2026.
Sunday == 20457

Weeks(patterns) ==
    [i \in DOMAIN patterns |-> [start |-> Sunday + 7 * (i - 1), days |-> patterns[i]]]

Quiet == <<0, 0, 0, 0, 0, 0, 0>>
Few == <<1, 0, 0, 2, 0, 0, 1>>
Burst == <<0, 0, 12, 1, 0, 0, 0>>
Nonsense == << >>

\* More points than are drawn, more than 90 quiet days, and one lively week.
Long == Weeks(<<Few, Few, Quiet, Quiet, Quiet, Quiet, Quiet, Quiet, Quiet, Quiet,
                Quiet, Quiet, Quiet, Quiet, Quiet, Burst, Few>>)
Early == Weeks(<<Few, Few, Few>>)
\* As many stars as half of the values of a word: no share of them can be taken.
Half == Weeks(<<<<Words \div 2>>>>)

AllHistories == {Long, Half}
AllPatterns == {Burst, Nonsense}

\* An archive without the repository, with all of its days, or one that has been
\* without deltas for a quarter.
AllSnapshots == {None, OfficialEvents(Long), OfficialEvents(Early)}

\* Metadata written before there was a creation date, and a repository that is created
\* a few weeks before its first star: for a short curve within the metrics' period.
AllCreations == {None, Sunday - 20}
==============================================================================
