\* Two runs that overlap, or follow one another, on a text and a code file that may
\* both be removed.
SPECIFICATION FairSpec
CONSTANTS
    Procs = {p1, p2}
    Files = {"a.md", "lib.py"}
    Dirs = {"docs"}
    DirOf <- DirectoryOf
    Paths = {"a.md", "lib.py"}
    Norm <- LowerCase
    Contents = {"x", "y"}
    Hashes = {"x", "y"}
    HashOf <- HashOfText
    Blank = {}
    Code = {"lib.py"}
    InitialTrees <- SomeTrees
    Edited <- SomeEdit
    Models = {"m1"}
    SymbolModes = {TRUE}
    ExtractionMayRaise = FALSE
    ConfigIncremental = FALSE
    Missing = Missing
    Unreadable = Unreadable
    NoRow = NoRow
    None = None
    MaxEdits = 2
    MaxRuns = 3
CONSTRAINT AllGone
CHECK_DEADLOCK FALSE
INVARIANTS NoTornDocument QuietRunMirrorsTree SymbolsMatchDocument
PROPERTIES VanishesOnlyForCause ImplementsSearchIndex RunEnds
