\* Three results, two per document, while ingest replaces a document.
SPECIFICATION Spec
CONSTANTS
    d = d  e = e  d1 = d1  d2 = d2  d3 = d3  e1 = e1  e2 = e2
    Docs = {d, e}
    Chunks <- MCChunks
    DocOf <- MCDocOf
    VersionOf <- MCVersionOf
    Corpora <- MCCorpora
    VectorWeight = 2
    KeywordWeight = 1
    HeaderPenalty = 1
    MinScore = 1
    TopK = 3
    MaxPerDoc = 2
    MaxChars = 8
    LastVersion = 1
CHECK_DEADLOCK FALSE
INVARIANTS VersionsMixOnlyInBetween ResultsAreBest ContextFilled
