--------------------------- MODULE MCDailyPipeline ---------------------------
EXTENDS DailyPipeline, TLC

CONSTANTS v1, v2

\* Two snapshots: one before the first day, one that holds it.
Watermarks == v1 :> 0 @@ v2 :> 1

\* The first downloads are wrong: that of day 1 has events of the next day too, that of
\* day 2 events of the day before.  The second one of day 1 has the next day's only.
Partitions == [k \in (1..2) \X (1..2) |->
                  CASE k = <<1, 1>> -> {"own", "later"}
                    [] k = <<2, 1>> -> {"earlier", "own"}
                    [] k = <<1, 2>> -> {"later"}
                    [] OTHER        -> {"own"}]
==============================================================================
