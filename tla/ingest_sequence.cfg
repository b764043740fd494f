\* One run after another over two directories: colliding names, blank texts, two models.
SPECIFICATION Spec
CONSTANTS
    Procs = {p1}
    Files = {"a.md", "A.md", "lib.py"}
    Dirs = {"docs", "src"}
    DirOf <- DirectoryOf
    Paths = {"a.md", "lib.py"}
    Norm <- LowerCase
    Contents = {"x", "x2", "blank"}
    Hashes = {"x", "blank"}
    HashOf <- HashOfText
    Blank = {"blank"}
    Code = {"lib.py"}
    InitialTrees <- SomeTrees
    Edited <- AnyEdit
    Models = {"m1", "m2"}
    SymbolModes = {TRUE, FALSE}
    ExtractionMayRaise = TRUE
    ConfigIncremental = FALSE
    Missing = Missing
    Unreadable = Unreadable
    NoRow = NoRow
    None = None
    MaxEdits = 2
    MaxRuns = 3
CHECK_DEADLOCK FALSE
INVARIANTS QuietRunMirrorsTree  
CONSTRAINT Interesting
