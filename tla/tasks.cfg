SPECIFICATION MCSpec
CONSTANTS
    Tasks = {t1, t2, g1}
    Guests = {g1}
    Streams = {s1, s2}
    MaxActive = 1
    MaxStreams = 1
    NoTask = NoTask
    First = t1
    Second = t2
INVARIANTS
    WithinLimit
    WorkStaysInTable
    RestIsEnded
    RowAgrees
    StreamsWithinLimit
PROPERTIES
    TasksSettle
\* Every task may be done.
CHECK_DEADLOCK FALSE
