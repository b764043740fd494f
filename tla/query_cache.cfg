\* Two threads, one cache entry: six kinds of requests at one moment, or one question
\* while the clock passes the TTL and the index changes.
SPECIFICATION Spec
CONSTANTS
    Threads = {t1, t2}
    p1 = p1
    p2 = p2
    docs = docs
    manual = manual
    Projects = {p1, p2}
    Texts <- MCTexts
    FoldedText <- MCFolded
    Scopes <- MCScopes
    FoldedScope <- MCFoldedScope
    Prefixes = {docs, manual}
    PrefixOf <- MCPrefixOf
    Requests <- MCRequests
    CacheMax = 1
    TTL = 1
    RelaxedScore = TRUE
    MaxTime = 3
    MaxVersion = 2
    MaxCalls = 3
    NoPrefix = NoPrefix
    NoScope = NoScope
    NoKey = NoKey
    NoEntry = NoEntry
    NoAnswer = NoAnswer
CONSTRAINT Interesting
CHECK_DEADLOCK FALSE
SYMMETRY Symmetry
INVARIANTS CacheBounded   FreshOnceSettled
