----------------------------- MODULE QueryCache -----------------------------
(***************************************************************************)
(* rag_context and rag_search of MCPHandler, run by worker threads: the    *)
(* query cache with its time to live and its limit, the searches with      *)
(* their fallbacks, and an index that ingest commands replace meanwhile.   *)
(* An index is a version number; what a search in it finds is any outcome. *)
(*                                                                         *)
(* GetCachedSliding, EvictLate, CacheKeyOfText and ResolveAfterHit are     *)
(* deliberate defects that nothing uses; PROJECT.json names the property   *)
(* that each breaks.                                                       *)
(***************************************************************************)
EXTENDS Naturals, FiniteSets

CONSTANTS
    Threads,        \* worker threads (asyncio.to_thread)
    Projects,       \* project ids a client may name
    Texts,          \* query texts
    FoldedText,     \* text -> str.strip().lower() of it
    Scopes,         \* values of path_prefix and file that clients name
    FoldedScope,    \* scope -> str.strip().lower() of it
    Prefixes,       \* normalised path prefixes
    PrefixOf,       \* scope -> the prefix it resolves to, path_aliases applied
    Requests,       \* requests that clients send
    CacheMax,       \* LLM_CONTEXT_CACHE_MAX
    TTL,            \* LLM_CONTEXT_CACHE_TTL_SECONDS
    RelaxedScore,   \* min_score_floor is below min_score
    MaxTime,        \* bound: clock ticks
    MaxVersion,     \* bound: versions of the index
    MaxCalls,       \* bound: calls
    NoPrefix,       \* the whole project
    NoScope,        \* neither path_prefix nor file
    NoKey,          \* the answer is not cached
    NoEntry,        \* no cache entry
    NoAnswer        \* a call that has no answer

\* query_embedding or only query_text; the tool; path_prefix or file, and
\* whether a derived prefix may be given up.
Request == [project : Projects, text : Texts, scope : Scopes \cup {NoScope},
            auto : BOOLEAN, tool : {"rag_context", "rag_search"}, embedding : BOOLEAN]

ASSUME QueryCacheAssumption ==
    /\ FoldedText \in [Texts -> Texts]
    /\ Requests \subseteq Request
    /\ FoldedScope \in [Scopes -> Scopes] /\ NoScope \notin Scopes
    /\ PrefixOf \in [Scopes -> Prefixes \cup {NoPrefix}] /\ NoPrefix \notin Prefixes
    /\ CacheMax \in Nat /\ TTL \in Nat /\ MaxTime \in Nat /\ MaxVersion \in Nat /\ MaxCalls \in Nat
    /\ RelaxedScore \in BOOLEAN

Keys == [project : Projects, text : Texts, scope : Scopes \cup {NoScope}, auto : BOOLEAN]
\* What the properties tell apart of a payload: whose it is, where its results
\* come from, and the index they were read from.
Payloads == [req : Requests, prefix : Prefixes \cup {NoPrefix}, version : Nat]
Entries == [payload : Payloads, ts : Nat]

ASSUME CacheSentinels == NoKey \notin Keys /\ NoEntry \notin Entries /\ NoAnswer \notin Payloads

VARIABLES
    now,        \* monotonic()
    version,    \* how often an ingest has changed the index
    registered, \* projects of the registry
    cache,      \* _query_cache: key -> entry
    pc,         \* where each thread is
    call,       \* its request, and when it began
    found,      \* the prefix and version of its last search, and its results
    answer,     \* the payload it returns
    calls,      \* calls made so far
    settled,    \* history: when the index, or the cache from an old index, last changed
    seen        \* history: thread -> its project was registered during the call

vars == <<now, version, registered, cache, pc, call, found, answer, calls, settled, seen>>

Working == {"resolve", "lookup", "prepare", "search", "unscoped", "relaxed", "store"}

TypeOK ==
    /\ now \in Nat /\ version \in Nat /\ settled \in Nat /\ calls \in Nat
    /\ registered \subseteq Projects
    /\ cache \in [Keys -> Entries \cup {NoEntry}]
    /\ pc \in [Threads -> Working \cup {"idle", "answered", "failed"}]
    /\ call \in [Threads -> [req : Requests, began : Nat]]
    /\ found \in [Threads -> [prefix : Prefixes \cup {NoPrefix}, version : Nat, any : BOOLEAN]]
    /\ answer \in [Threads -> Payloads \cup {NoAnswer}]
    /\ seen \in [Threads -> BOOLEAN]

NothingFound == [prefix |-> NoPrefix, version |-> 0, any |-> FALSE]

Init ==
    /\ now = 0 /\ version = 0 /\ settled = 0 /\ calls = 0
    /\ registered \in SUBSET Projects
    /\ cache = [k \in Keys |-> NoEntry]
    /\ pc = [t \in Threads |-> "idle"]
    /\ \E r \in Requests : call = [t \in Threads |-> [req |-> r, began |-> 0]]
    /\ found = [t \in Threads |-> NothingFound]
    /\ answer = [t \in Threads |-> NoAnswer]
    /\ seen = [t \in Threads |-> FALSE]

Req(t) == call[t].req

-----------------------------------------------------------------------------
(* The world outside the handler *)

Tick ==
    /\ now < MaxTime
    /\ now' = now + 1
    /\ UNCHANGED <<version, registered, cache, pc, call, found, answer, calls, settled, seen>>

\* An ingest run commits a document, or its final delete.
Publish ==
    /\ version < MaxVersion
    /\ version' = version + 1
    /\ settled' = now
    /\ UNCHANGED <<now, registered, cache, pc, call, found, answer, calls, seen>>

\* Somebody edits projects.yaml.
Register(p) ==
    /\ registered' = IF p \in registered THEN registered \ {p} ELSE registered \cup {p}
    /\ seen' = [t \in Threads |->
                  seen[t] \/ (pc[t] # "idle" /\ p \notin registered /\ Req(t).project = p)]
    /\ UNCHANGED <<now, version, cache, pc, call, found, answer, calls, settled>>

-----------------------------------------------------------------------------
(* The cache: each operation holds _query_cache_lock. *)

Folded(scope) == IF scope = NoScope THEN NoScope ELSE FoldedScope[scope]

\* The key leaves the project out.
CacheKeyOfText(r) ==
    IF r.embedding \/ r.tool # "rag_context" THEN NoKey
    ELSE [project |-> CHOOSE p \in Projects : TRUE, text |-> FoldedText[r.text],
          scope |-> Folded(r.scope), auto |-> r.auto]

\* _make_cache_key; limits, filters and the embedder are the same for all.
CacheKey(r) ==
    IF r.embedding \/ r.tool # "rag_context" THEN NoKey
    ELSE [project |-> r.project, text |-> FoldedText[r.text], scope |-> Folded(r.scope),
          auto |-> r.auto]

\* The keys a cache has an entry for.
Held(c) == {k \in Keys : c[k] # NoEntry}
Stored == Held(cache)
Expired(k) == now - cache[k].ts > TTL

\* A hit makes the entry young again.
GetCachedSliding(k) ==
    cache' = [cache EXCEPT ![k] =
        IF k \notin Stored THEN NoEntry
        ELSE IF Expired(k) THEN NoEntry ELSE [payload |-> cache[k].payload, ts |-> now]]

\* What _get_cached leaves: an expired entry is deleted.
GetCached(k) ==
    cache' = [cache EXCEPT ![k] =
        IF k \notin Stored THEN NoEntry ELSE IF Expired(k) THEN NoEntry ELSE cache[k]]

\* The entry is made room for only when the limit is already exceeded.
EvictLate(c) ==
    IF Cardinality(Held(c)) <= CacheMax THEN {c}
    ELSE {[c EXCEPT ![o] = NoEntry] : o \in Held(c)}

\* The caches _set_cache may be left with before it inserts: an oldest entry
\* goes when the limit is reached, also when the key is there already.  With
\* nothing to evict, min raises: there is no outcome.
Evict(c) ==
    IF Cardinality(Held(c)) < CacheMax THEN {c}
    ELSE {[c EXCEPT ![o] = NoEntry] :
             o \in {k \in Held(c) : \A l \in Held(c) : c[k].ts <= c[l].ts}}

-----------------------------------------------------------------------------
(* _run_rag_context *)

Begin(t, r) ==
    /\ pc[t] = "idle" /\ calls < MaxCalls
    /\ calls' = calls + 1
    /\ call' = [call EXCEPT ![t] = [req |-> r, began |-> now]]
    /\ seen' = [seen EXCEPT ![t] = r.project \in registered]
    /\ pc' = [pc EXCEPT ![t] = "resolve"]
    /\ UNCHANGED <<now, version, registered, cache, found, answer, settled>>

\* A cached answer is looked for whether or not the project is known.
ResolveAfterHit(t) ==
    /\ pc[t] = "resolve"
    /\ pc' = [pc EXCEPT ![t] =
         IF CacheKey(Req(t)) \in Stored \/ Req(t).project \in registered THEN "lookup" ELSE "failed"]
    /\ UNCHANGED <<now, version, registered, cache, call, found, answer, calls, settled, seen>>

\* _resolve_project_id reloads the registry and refuses an unknown project.
Resolve(t) ==
    /\ pc[t] = "resolve"
    /\ pc' = [pc EXCEPT ![t] = IF Req(t).project \in registered THEN "lookup" ELSE "failed"]
    /\ UNCHANGED <<now, version, registered, cache, call, found, answer, calls, settled, seen>>

LookUp(t) ==
    /\ pc[t] = "lookup"
    /\ IF CacheKey(Req(t)) = NoKey
       THEN pc' = [pc EXCEPT ![t] = "prepare"] /\ UNCHANGED <<cache, answer>>
       ELSE LET k == CacheKey(Req(t)) IN
            /\ GetCached(k)
            /\ IF cache'[k] # NoEntry
               THEN /\ answer' = [answer EXCEPT ![t] = cache[k].payload]
                    /\ pc' = [pc EXCEPT ![t] = "answered"]
               ELSE /\ pc' = [pc EXCEPT ![t] = "prepare"]
                    /\ UNCHANGED answer
    /\ UNCHANGED <<now, version, registered, call, found, calls, settled, seen>>

\* _get_embedder and resolve_path_prefix: an explicit scope is resolved as it
\* is; without one the text may name a path, or a word of scope_map.
Prepare(t) ==
    /\ pc[t] = "prepare"
    /\ \E prefix \in IF Req(t).scope # NoScope THEN {PrefixOf[Req(t).scope]}
                     ELSE Prefixes \cup {NoPrefix} :
         found' = [found EXCEPT ![t] = [NothingFound EXCEPT !.prefix = prefix]]
    /\ pc' = [pc EXCEPT ![t] = "search"]
    /\ UNCHANGED <<now, version, registered, cache, call, answer, calls, settled, seen>>

\* Only a derived prefix is given up when nothing is found in it.
MayWiden(t) == Req(t).auto /\ found[t].prefix # NoPrefix /\ Req(t).scope = NoScope

\* run_context_search sees the index as it is now; it finds something or not.
Searched(t, prefix, any) ==
    found' = [found EXCEPT ![t] = [prefix |-> prefix, version |-> version, any |-> any]]
Relax == IF RelaxedScore THEN "relaxed" ELSE "store"

Search(t) ==
    /\ pc[t] = "search"
    /\ \E any \in BOOLEAN :
         /\ Searched(t, found[t].prefix, any)
         /\ pc' = [pc EXCEPT ![t] = IF any THEN "store" ELSE IF MayWiden(t) THEN "unscoped" ELSE Relax]
    /\ UNCHANGED <<now, version, registered, cache, call, answer, calls, settled, seen>>

SearchUnscoped(t) ==
    /\ pc[t] = "unscoped"
    /\ \E any \in BOOLEAN :
         /\ Searched(t, NoPrefix, any)
         /\ pc' = [pc EXCEPT ![t] = IF any THEN "store" ELSE Relax]
    /\ UNCHANGED <<now, version, registered, cache, call, answer, calls, settled, seen>>

SearchRelaxed(t) ==
    /\ pc[t] = "relaxed"
    /\ \E any \in BOOLEAN : Searched(t, found[t].prefix, any)
    /\ pc' = [pc EXCEPT ![t] = "store"]
    /\ UNCHANGED <<now, version, registered, cache, call, answer, calls, settled, seen>>

Payload(t) == [req |-> Req(t), prefix |-> found[t].prefix, version |-> found[t].version]

\* The payload is built; only one with results is cached.
Store(t) ==
    /\ pc[t] = "store"
    /\ answer' = [answer EXCEPT ![t] = Payload(t)]
    /\ IF found[t].any /\ CacheKey(Req(t)) # NoKey
       THEN /\ \E c \in Evict(cache) :
                 cache' = [c EXCEPT ![CacheKey(Req(t))] = [payload |-> Payload(t), ts |-> now]]
            /\ settled' = IF found[t].version < version THEN now ELSE settled
       ELSE UNCHANGED <<cache, settled>>
    /\ pc' = [pc EXCEPT ![t] = "answered"]
    /\ UNCHANGED <<now, version, registered, call, found, calls, seen>>

\* _set_cache takes the minimum of an empty cache, or the embedder, the
\* database or the assembly of the payload raises: handle_message answers
\* with an error, and nothing is cached.
Fail(t) ==
    /\ pc[t] \in {"prepare", "search", "unscoped", "relaxed", "store"}
    /\ pc' = [pc EXCEPT ![t] = "failed"]
    /\ UNCHANGED <<now, version, registered, cache, call, found, answer, calls, settled, seen>>

Return(t) ==
    /\ pc[t] \in {"answered", "failed"}
    /\ pc' = [pc EXCEPT ![t] = "idle"]
    /\ answer' = [answer EXCEPT ![t] = NoAnswer]
    /\ found' = [found EXCEPT ![t] = NothingFound]
    /\ seen' = [seen EXCEPT ![t] = FALSE]
    /\ UNCHANGED <<now, version, registered, cache, call, calls, settled>>

Step(t) ==
    \/ Resolve(t) \/ LookUp(t) \/ Prepare(t) \/ Search(t) \/ SearchUnscoped(t)
    \/ SearchRelaxed(t) \/ Store(t) \/ Fail(t) \/ Return(t)

Next ==
    \/ Tick \/ Publish
    \/ \E p \in Projects : Register(p)
    \/ \E t \in Threads, r \in Requests : Begin(t, r)
    \/ \E t \in Threads : Step(t)

Spec == Init /\ [][Next]_vars

-----------------------------------------------------------------------------
(* Properties *)

\* The cache never holds more than LLM_CONTEXT_CACHE_MAX answers, however
\* many threads store at once and whether their keys are new or not.
CacheBounded == Cardinality(Stored) <= CacheMax

\* An answer is one to the question asked: computed for the same project and
\* for a text that differs in case and outer white space at most, and a scope
\* that the client named, up to case and white space, is never left, neither
\* by a fallback nor through the cache.
AnswerFitsRequest ==
    \A t \in Threads : pc[t] = "answered" =>
        /\ answer[t].req.project = Req(t).project
        /\ FoldedText[answer[t].req.text] = FoldedText[Req(t).text]
        /\ Req(t).scope # NoScope =>
             \E s \in Scopes : /\ FoldedScope[s] = FoldedScope[Req(t).scope]
                              /\ answer[t].prefix = PrefixOf[s]

\* How stale an answer can be.  The cache is not invalidated by an ingest, and
\* a slow search may store what it read before one.  But an answer to a call
\* that began more than the TTL after both the last ingest and the last such
\* late store is read from the current index.
FreshOnceSettled ==
    \A t \in Threads : pc[t] = "answered" /\ call[t].began > settled + TTL =>
        answer[t].version = version

\* What is read, cached or not, is read for a project that was in the registry
\* at some time during the call: answers cached for a project that has been
\* removed are not served.
OnlyRegisteredAnswered == \A t \in Threads : pc[t] = "answered" => seen[t]
=============================================================================
