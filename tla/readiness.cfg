\* Two threads; scenes of which module MCReadiness tells.
SPECIFICATION Spec
CONSTANTS
    Threads = {t1, t2}
    p1 = p1  p2 = p2
    Projects = {p1, p2}
    Statuses <- AllStatuses
    Databases = {"up", "down", "no_vector", "no_schema"}
    DefaultEmbedder = "local-st"
    Dedicated = TRUE
    ProbeTTL = 2
    MaxTime = 2
    MaxCalls = 3
    Warm = warm
    FallbackEmbedder = "local-hash"
    NoThread = NoThread
    NoProbe = NoProbe
CONSTRAINT Interesting
CHECK_DEADLOCK FALSE
SYMMETRY Symmetry
INVARIANTS OneEmbedder LoadingInv  ReportCoherent
