----------------------------- MODULE Readiness -----------------------------
(***************************************************************************)
(* What MCPHandler reports about its own readiness, and what the report is *)
(* made of: the embedder, loaded once under a lock by the warm-up thread   *)
(* or by the first call that needs it; the _ready event; the database      *)
(* probe, cached for a few seconds; the integrity of every project. Worker *)
(* threads run /health, context_info and calls that embed a query.         *)
(*                                                                         *)
(* Operators named AcquireUnlocked, LoadKeepingLock, KeepProbeDatedLate    *)
(* and BlockersWithoutIndex are deliberate defects that nothing uses;      *)
(* PROJECT.json names the property that each breaks.                       *)
(***************************************************************************)
EXTENDS Naturals, FiniteSets

CONSTANTS
    Threads,            \* worker threads of the server
    Warm,               \* the warm-up thread
    Projects,           \* projects of the registry
    Statuses,           \* values of a project's integrity
    Databases,          \* conditions the database server may be in
    DefaultEmbedder,    \* LLM_CONTEXT_EMBEDDER
    FallbackEmbedder,   \* LLM_CONTEXT_FALLBACK_EMBEDDER
    Dedicated,          \* the DSN names a database of its own
    ProbeTTL,           \* LLM_CONTEXT_DB_PROBE_TTL_SECONDS
    MaxTime,            \* bound: clock ticks
    MaxCalls,           \* bound: calls made to the server
    NoThread,           \* nobody
    NoProbe             \* _db_probe_cache is None

ASSUME ReadinessAssumption ==
    /\ Warm \notin Threads
    /\ NoThread \notin Threads \cup {Warm}
    /\ Statuses \subseteq {"ok", "indexing", "not_indexed", "stale", "unreliable"}
    /\ Databases \subseteq {"up", "down", "no_vector", "no_schema"}
    /\ Dedicated \in BOOLEAN
    /\ ProbeTTL \in Nat /\ MaxTime \in Nat /\ MaxCalls \in Nat

VARIABLES
    now,        \* monotonic()
    database,   \* the PostgreSQL server and its schema, not the handler's
    allowFallback, \* LLM_CONTEXT_ALLOW_EMBEDDER_FALLBACK, read once
    integrity,  \* project -> _build_project_integrity of its current files
    embedder,   \* what _embedder_cache holds, or "none"
    embLock,    \* the thread that holds _embedder_lock
    ready,      \* the _ready event
    probe,      \* _db_probe_cache and _db_probe_cache_at
    pc,         \* where each thread is
    call,       \* what each thread has gathered for its report
    calls,      \* calls made so far
    handedOut,  \* history: embedders that _get_embedder has returned
    schemaAt,   \* history: when the database last was reachable and whole
    seenOk      \* history: thread -> projects that were ok during its call

env == <<now, database, allowFallback, integrity>>
shared == <<embedder, embLock, ready, probe>>
vars == <<env, shared, pc, call, calls, handedOut, schemaAt, seenOk>>

All == Threads \cup {Warm}
Embedders == {"local-hash", "local-st", "dummy"}
\* inspect_database_runtime before it has asked anything
Unreachable == [reachable |-> FALSE, vector |-> FALSE, schema |-> FALSE]
Observations == [reachable : BOOLEAN, vector : BOOLEAN, schema : BOOLEAN]
NoCall == [ready |-> FALSE, began |-> 0, asked |-> 0,
           summary |-> [p \in Projects |-> "not_indexed"], runtime |-> Unreachable]
Calls == [ready : BOOLEAN, began : Nat, asked : Nat,
          summary : [Projects -> Statuses \cup {"not_indexed"}], runtime : Observations]

TypeOK ==
    /\ now \in Nat /\ database \in Databases /\ allowFallback \in BOOLEAN /\ integrity \in [Projects -> Statuses]
    /\ embedder \in Embedders \cup {"none"} /\ embLock \in All \cup {NoThread}
    /\ ready \in BOOLEAN
    /\ probe \in [runtime : Observations, at : Nat] \cup {NoProbe}
    /\ pc \in [All -> {"idle", "want", "load", "set", "projects", "lookup", "vector",
                       "tables", "keep", "report"}]
    /\ call \in [All -> Calls] /\ calls \in Nat
    /\ handedOut \subseteq Embedders /\ schemaAt \in Nat
    /\ seenOk \in [All -> SUBSET Projects]

HasSchema(d) == d \in {"up", "no_vector"}

\* The clock starts late enough for "never seen" to be out of reach of the TTL.
StartTime == ProbeTTL + 1

Init ==
    /\ now = StartTime
    /\ database \in Databases /\ allowFallback \in BOOLEAN
    /\ integrity \in [Projects -> Statuses]
    /\ embedder = "none" /\ embLock = NoThread /\ ready = FALSE /\ probe = NoProbe
    /\ pc = [t \in All |-> IF t = Warm THEN "want" ELSE "idle"]
    /\ call = [t \in All |-> NoCall]
    /\ calls = 0 /\ handedOut = {}
    /\ schemaAt = IF HasSchema(database) THEN StartTime ELSE 0
    /\ seenOk = [t \in All |-> {}]

-----------------------------------------------------------------------------
(* The world outside the handler *)

Tick ==
    /\ now < StartTime + MaxTime
    /\ now' = now + 1
    /\ schemaAt' = IF HasSchema(database) THEN now + 1 ELSE schemaAt
    /\ UNCHANGED <<database, allowFallback, integrity, shared, pc, call, calls, handedOut, seenOk>>

DatabaseChanges(d) ==
    /\ d # database
    /\ database' = d
    /\ schemaAt' = IF HasSchema(d) THEN now ELSE schemaAt
    /\ UNCHANGED <<now, allowFallback, integrity, shared, pc, call, calls, handedOut, seenOk>>

\* An ingest command saves its status; IngestStatus has the details.
ProjectChanges(p, s) ==
    /\ integrity[p] # s
    /\ integrity' = [integrity EXCEPT ![p] = s]
    /\ seenOk' = [t \in All |-> seenOk[t] \cup (IF s = "ok" /\ pc[t] # "idle" THEN {p} ELSE {})]
    /\ UNCHANGED <<now, database, allowFallback, shared, pc, call, calls, handedOut, schemaAt>>

-----------------------------------------------------------------------------
(* _get_embedder *)

\* What loading the configured embedder may give.  A sentence-transformers
\* model may be unavailable at any time.
Fallback == IF allowFallback /\ FallbackEmbedder = "local-hash" THEN {"local-hash"} ELSE {"raised"}
Loadable ==
    CASE DefaultEmbedder \in {"local-hash", "dummy"} -> {DefaultEmbedder}
      [] DefaultEmbedder \in {"local-st", "sentence-transformers", "local"} -> {"local-st"} \cup Fallback
      [] OTHER -> {"raised"}

After(t) == IF t = Warm THEN "set" ELSE "idle"

\* A tool call that embeds its query.
Embed(t) ==
    /\ pc[t] = "idle" /\ t \in Threads /\ calls < MaxCalls
    /\ calls' = calls + 1
    /\ pc' = [pc EXCEPT ![t] = "want"]
    /\ UNCHANGED <<env, shared, call, handedOut, schemaAt, seenOk>>

\* Without the lock two threads may both find the cache empty.
AcquireUnlocked(t) ==
    /\ pc[t] = "want"
    /\ IF embedder = "none"
       THEN /\ pc' = [pc EXCEPT ![t] = "load"]
            /\ UNCHANGED handedOut
       ELSE /\ handedOut' = handedOut \cup {embedder}
            /\ pc' = [pc EXCEPT ![t] = After(t)]
    /\ UNCHANGED <<env, shared, call, calls, schemaAt, seenOk>>

\* with self._embedder_lock: the cached embedder is returned at once.
Acquire(t) ==
    /\ pc[t] = "want" /\ embLock = NoThread
    /\ IF embedder = "none"
       THEN /\ embLock' = t
            /\ pc' = [pc EXCEPT ![t] = "load"]
            /\ UNCHANGED handedOut
       ELSE /\ handedOut' = handedOut \cup {embedder}
            /\ pc' = [pc EXCEPT ![t] = After(t)]
            /\ UNCHANGED embLock
    /\ UNCHANGED <<env, embedder, ready, probe, call, calls, schemaAt, seenOk>>

\* The lock is kept when loading raises.
LoadKeepingLock(t) ==
    /\ pc[t] = "load"
    /\ \E e \in Loadable :
        IF e = "raised" THEN UNCHANGED <<embedder, handedOut, embLock>>
        ELSE embedder' = e /\ handedOut' = handedOut \cup {e} /\ embLock' = NoThread
    /\ pc' = [pc EXCEPT ![t] = After(t)]
    /\ UNCHANGED <<env, ready, probe, call, calls, schemaAt, seenOk>>

\* Loading returns an embedder, which is cached whichever it is, or raises.
Load(t) ==
    /\ pc[t] = "load"
    /\ \E e \in Loadable :
        IF e = "raised" THEN UNCHANGED <<embedder, handedOut>>
        ELSE embedder' = e /\ handedOut' = handedOut \cup {e}
    /\ embLock' = NoThread
    /\ pc' = [pc EXCEPT ![t] = After(t)]
    /\ UNCHANGED <<env, ready, probe, call, calls, schemaAt, seenOk>>

\* The finally of _warmup_embedder: also when the load raised.
SetReady ==
    /\ pc[Warm] = "set"
    /\ ready' = TRUE
    /\ pc' = [pc EXCEPT ![Warm] = "idle"]
    /\ UNCHANGED <<env, embedder, embLock, probe, call, calls, handedOut, schemaAt, seenOk>>

-----------------------------------------------------------------------------
(* get_operational_status *)

\* ready is an argument, read before anything else.
AskStatus(t) ==
    /\ pc[t] = "idle" /\ t \in Threads /\ calls < MaxCalls
    /\ calls' = calls + 1
    /\ call' = [call EXCEPT ![t] = [NoCall EXCEPT !.ready = ready, !.began = now]]
    /\ seenOk' = [seenOk EXCEPT ![t] = {p \in Projects : integrity[p] = "ok"}]
    /\ pc' = [pc EXCEPT ![t] = "projects"]
    /\ UNCHANGED <<env, shared, handedOut, schemaAt>>

\* The registry is reloaded and summarised before the database is probed.
SummariseProjects(t) ==
    /\ pc[t] = "projects"
    /\ call' = [call EXCEPT ![t].summary = integrity]
    /\ pc' = [pc EXCEPT ![t] = "lookup"]
    /\ UNCHANGED <<env, shared, calls, handedOut, schemaAt, seenOk>>

\* _get_database_runtime_summary: now is taken before the probe.
Fresh(t) == probe # NoProbe /\ ProbeTTL > 0 /\ now - probe.at < ProbeTTL
LookUp(t) ==
    /\ pc[t] = "lookup"
    /\ IF Fresh(t)
       THEN /\ call' = [call EXCEPT ![t].asked = now, ![t].runtime = probe.runtime]
            /\ pc' = [pc EXCEPT ![t] = "report"]
       ELSE /\ call' = [call EXCEPT ![t].asked = now, ![t].runtime = Unreachable]
            /\ pc' = [pc EXCEPT ![t] = "vector"]
    /\ UNCHANGED <<env, shared, calls, handedOut, schemaAt, seenOk>>

\* inspect_database_runtime asks for the extension, then for the tables; an
\* exception anywhere leaves reachable FALSE.
ProbeExtension(t) ==
    /\ pc[t] = "vector"
    /\ IF database = "down"
       THEN UNCHANGED call /\ pc' = [pc EXCEPT ![t] = "keep"]
       ELSE /\ call' = [call EXCEPT ![t].runtime =
                        [call[t].runtime EXCEPT !.vector = database # "no_vector"]]
            /\ pc' = [pc EXCEPT ![t] = "tables"]
    /\ UNCHANGED <<env, shared, calls, handedOut, schemaAt, seenOk>>

ProbeTables(t) ==
    /\ pc[t] = "tables"
    /\ IF database = "down"
       THEN UNCHANGED call
       ELSE call' = [call EXCEPT ![t].runtime =
                    [reachable |-> TRUE, vector |-> call[t].runtime.vector,
                     schema |-> HasSchema(database)]]
    /\ pc' = [pc EXCEPT ![t] = "keep"]
    /\ UNCHANGED <<env, shared, calls, handedOut, schemaAt, seenOk>>

\* The entry is dated by the end of the probe.
KeepProbeDatedLate(t) ==
    /\ pc[t] = "keep"
    /\ probe' = [runtime |-> call[t].runtime, at |-> now]
    /\ pc' = [pc EXCEPT ![t] = "report"]
    /\ UNCHANGED <<env, embedder, embLock, ready, call, calls, handedOut, schemaAt, seenOk>>

\* A later probe may have been stored meanwhile; it is overwritten.
KeepProbe(t) ==
    /\ pc[t] = "keep"
    /\ probe' = [runtime |-> call[t].runtime, at |-> call[t].asked]
    /\ pc' = [pc EXCEPT ![t] = "report"]
    /\ UNCHANGED <<env, embedder, embLock, ready, call, calls, handedOut, schemaAt, seenOk>>

Return(t) ==
    /\ pc[t] = "report"
    /\ pc' = [pc EXCEPT ![t] = "idle"]
    /\ call' = [call EXCEPT ![t] = NoCall]
    /\ seenOk' = [seenOk EXCEPT ![t] = {}]
    /\ UNCHANGED <<env, shared, calls, handedOut, schemaAt>>

-----------------------------------------------------------------------------
(* _build_runtime_readiness *)

Having(c, s) == {p \in Projects : c.summary[p] = s}
Queryable(c) == Having(c, "ok")
Indexing(c) == Having(c, "indexing")

\* The last blocker is left out: registered projects are enough.
BlockersWithoutIndex(c) ==
    {b \in {"embedder_warmup_in_progress", "database_unreachable"} :
        \/ b = "embedder_warmup_in_progress" /\ ~c.ready
        \/ b = "database_unreachable" /\ ~c.runtime.reachable}

\* A database that cannot be reached is not asked for more.
Blockers(c) ==
    {b \in {"embedder_warmup_in_progress", "database_unreachable", "pgvector_extension_missing",
            "database_schema_not_initialized", "no_registered_projects", "no_project_with_integrity_ok"} :
        \/ b = "embedder_warmup_in_progress" /\ ~c.ready
        \/ b = "database_unreachable" /\ ~c.runtime.reachable
        \/ b = "pgvector_extension_missing" /\ c.runtime.reachable /\ ~c.runtime.vector
        \/ b = "database_schema_not_initialized" /\ c.runtime.reachable /\ ~c.runtime.schema
        \/ b = "no_registered_projects" /\ Projects = {}
        \/ b = "no_project_with_integrity_ok" /\ Projects # {} /\ Queryable(c) = {} /\ Indexing(c) = {}}

Warned(c) == ~Dedicated \/ \E p \in Projects : c.summary[p] # "ok"

ReadyForQueries(c) == c.ready /\ Queryable(c) # {} /\ Blockers(c) = {}

Status(c) ==
    IF Blockers(c) # {} THEN "blocked"
    ELSE IF Warned(c) THEN IF c.ready THEN "degraded" ELSE "blocked"
    ELSE IF ReadyForQueries(c) THEN "ready" ELSE "blocked"

-----------------------------------------------------------------------------
GetEmbedder(t) == Acquire(t) \/ Load(t)

ReportStatus(t) ==
    \/ SummariseProjects(t) \/ LookUp(t) \/ ProbeExtension(t) \/ ProbeTables(t)
    \/ KeepProbe(t) \/ Return(t)

Next ==
    \/ Tick
    \/ \E d \in Databases : DatabaseChanges(d)
    \/ \E p \in Projects, s \in Statuses : ProjectChanges(p, s)
    \/ \E t \in All : Embed(t) \/ AskStatus(t) \/ GetEmbedder(t) \/ ReportStatus(t)
    \/ SetReady

Spec == Init /\ [][Next]_vars

-----------------------------------------------------------------------------
(* Properties *)

\* Every call of _get_embedder gets the same embedder: no answer mixes
\* vectors of the model and of its fallback, although a load may fail at one
\* moment and succeed at the next and two threads may ask at once.
OneEmbedder == Cardinality(handedOut) <= 1

\* Nobody waits for the embedder in vain: the lock is held by a thread that
\* is loading, and given back whether that succeeds or raises; one thread at a
\* time loads, and only while nothing is cached; what was handed out is cached.
LoadingInv ==
    /\ \A t \in All : pc[t] = "load" => embLock = t /\ embedder = "none"
    /\ \A t \in All : embLock = t => pc[t] = "load"
    /\ handedOut = {embedder} \ {"none"}

\* ready_for_queries is founded: the warm-up has ended, some listed project
\* was ok after the call began, and the database was reachable with its
\* schema after the call began or less than the TTL before, however long
\* probes take and in whatever order threads store them.
Founded(t) ==
    /\ ready
    /\ Queryable(call[t]) \cap seenOk[t] # {}
    /\ schemaAt >= call[t].began \/ schemaAt + ProbeTTL > call[t].began
ReadyReportFounded ==
    \A t \in Threads : pc[t] = "report" /\ ReadyForQueries(call[t]) => Founded(t)

\* The parts of a report agree: "ready" is queryable and without a warning,
\* "blocked" is not queryable, and a report that is not blocked without being
\* queryable is degraded because a project is being indexed.
Coherent(c) ==
    /\ Status(c) = "ready" => ReadyForQueries(c) /\ ~Warned(c)
    /\ Status(c) = "blocked" => Blockers(c) # {} /\ ~ReadyForQueries(c)
    /\ Status(c) = "degraded" /\ ~ReadyForQueries(c) => Indexing(c) # {}
ReportCoherent == \A t \in Threads : pc[t] = "report" => Coherent(call[t])
=============================================================================
