--------------------------- MODULE PublishedHistory ---------------------------
(***************************************************************************)
(* What the history registry promises to whoever queries it: at any time   *)
(* the answers come from exactly one published version, complete up to     *)
(* some day.  Publishing replaces the version at once, a daily delta adds  *)
(* exactly the next day, and a stop of the process may take days that were *)
(* added later away again, but never a day of the published snapshot.      *)
(***************************************************************************)
EXTENDS Integers

CONSTANTS
    Versions,         \* identifiers of snapshots
    SourceWatermark,  \* the last day a snapshot holds
    LastDay,          \* the last day a delta may add
    Nothing           \* served before the first snapshot is activated

VARIABLES
    version,   \* the version whose data is served
    watermark, \* the last day served
    days       \* days[d]: how often the events of day d are counted

vars == <<version, watermark, days>>

Days == 1..LastDay

Complete(w) == [d \in Days |-> IF d <= w THEN 1 ELSE 0]

Serve(v, w) ==
    /\ version' = v
    /\ watermark' = w
    /\ days' = Complete(w)

Init ==
    /\ version = Nothing
    /\ watermark = 0
    /\ days = Complete(0)

Publish == \E v \in Versions : Serve(v, SourceWatermark[v])

AddDay ==
    /\ version \in Versions
    /\ watermark < LastDay
    /\ Serve(version, watermark + 1)

LoseDays ==
    /\ version \in Versions
    /\ \E w \in SourceWatermark[version]..watermark : Serve(version, w)

Next == Publish \/ AddDay \/ LoseDays

Spec == Init /\ [][Next]_vars
==============================================================================
