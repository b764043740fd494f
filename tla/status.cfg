\* Commands of two projects, overlapping or one after the other; or of one while a
\* server starts and serves.
SPECIFICATION Spec
CONSTANTS
    Procs = {p1, p2}
    Projects = {"alpha", "beta"}
    Absent = Absent
    Empty = Empty
    Garbled = Garbled
    Never = Never
    AtFailure = AtFailure
    ServerRuns = TRUE
    MaxCommands = 3
CONSTRAINT Interesting
CHECK_DEADLOCK FALSE
SYMMETRY Symmetry
INVARIANTS OkOnlyAfterSuccess QuietOutcomeShown MissesOnlyAtStart
