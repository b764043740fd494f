\* Two exports of two areas and one call, at any speed; exports may die.
SPECIFICATION SnapshotSpec
CONSTANTS
    Exports = {e1, e2}
    Readers = {r}
    Asked = {"all", "areas"}
    ScopeMap <- MCScopeMap
    NoExport = NoExport
    Nothing = Nothing  Failed = Failed  Refused = Refused
    north = north  south = south
    LastVersion = 2
SYMMETRY Symmetry
CONSTRAINT Interesting
CHECK_DEADLOCK FALSE
INVARIANTS ReadIsOneExport  
