-------------------------- MODULE ReadinessProofs --------------------------
(***************************************************************************)
(* Theorems about Readiness, for any number of threads and projects.       *)
(***************************************************************************)
EXTENDS Readiness, FiniteSetTheorems, TLAPS

LEMMA LoadableTyped == Loadable \subseteq Embedders \cup {"raised"}
  BY DEF Loadable, Fallback, Embedders

LEMMA NoCallTyped == NoCall \in Calls
  BY DEF NoCall, Calls, Unreachable, Observations

LEMMA TypeInit == Init => TypeOK
<1> SUFFICES ASSUME Init PROVE TypeOK
  OBVIOUS
<1>1. StartTime \in Nat
  BY ReadinessAssumption DEF StartTime
<1>2. pc \in [All -> {"idle", "want", "load", "set", "projects", "lookup", "vector", "tables",
                     "keep", "report"}]
  BY DEF Init
<1>3. call \in [All -> Calls] /\ seenOk \in [All -> SUBSET Projects]
  BY NoCallTyped DEF Init
<1> QED
  BY <1>1, <1>2, <1>3 DEF Init, TypeOK

LEMMA TypeNext == TypeOK /\ [Next]_vars => TypeOK'
<1> SUFFICES ASSUME TypeOK, [Next]_vars PROVE TypeOK'
  OBVIOUS
<1> USE ReadinessAssumption DEF TypeOK
<1>1. CASE Tick
  BY <1>1 DEF Tick, shared
<1>2. CASE \E d \in Databases : DatabaseChanges(d)
  BY <1>2 DEF DatabaseChanges, shared
<1>3. CASE \E p \in Projects, s \in Statuses : ProjectChanges(p, s)
  BY <1>3 DEF ProjectChanges, shared
<1>4. ASSUME NEW t \in All, Embed(t) \/ AskStatus(t) \/ GetEmbedder(t) \/ ReportStatus(t)
      PROVE TypeOK'
  <2>1. CASE Embed(t)
    BY <2>1 DEF Embed, env, shared
  <2>2. CASE AskStatus(t)
    <3>1. [NoCall EXCEPT !.ready = ready, !.began = now] \in Calls
      BY NoCallTyped DEF Calls
    <3> QED
      BY <2>2, <3>1 DEF AskStatus, env, shared
  <2>3. CASE Acquire(t)
    BY <2>3 DEF Acquire, env, After
  <2>4. CASE Load(t)
    BY <2>4, LoadableTyped DEF Load, env, After
  <2>5. CASE SummariseProjects(t)
    <3>1. [call[t] EXCEPT !.summary = integrity] \in Calls
      BY DEF Calls
    <3> QED
      BY <2>5, <3>1 DEF SummariseProjects, env, shared
  <2>6. CASE LookUp(t)
    <3>1. \A o \in Observations : [call[t] EXCEPT !.asked = now, !.runtime = o] \in Calls
      BY DEF Calls
    <3>2. Unreachable \in Observations /\ (Fresh(t) => probe.runtime \in Observations)
      BY DEF Unreachable, Observations, Fresh
    <3> QED
      BY <2>6, <3>1, <3>2 DEF LookUp, env, shared
  <2>7. CASE ProbeExtension(t)
    <3>1. \A b \in BOOLEAN :
            [call[t] EXCEPT !.runtime = [call[t].runtime EXCEPT !.vector = b]] \in Calls
      <4>1. \A b \in BOOLEAN : [call[t].runtime EXCEPT !.vector = b] \in Observations
        BY DEF Calls, Observations
      <4> QED
        BY <4>1 DEF Calls
    <3> QED
      BY <2>7, <3>1 DEF ProbeExtension, env, shared
  <2>8. CASE ProbeTables(t)
    <3>1. \A b \in BOOLEAN : [call[t] EXCEPT !.runtime =
            [reachable |-> TRUE, vector |-> call[t].runtime.vector, schema |-> b]] \in Calls
      BY DEF Calls, Observations
    <3>2. HasSchema(database) \in BOOLEAN
      BY DEF HasSchema
    <3> QED
      BY <2>8, <3>1, <3>2 DEF ProbeTables, env, shared
  <2>9. CASE KeepProbe(t)
    <3>1. [runtime |-> call[t].runtime, at |-> call[t].asked] \in [runtime : Observations, at : Nat]
      BY DEF Calls
    <3> QED
      BY <2>9, <3>1 DEF KeepProbe, env
  <2>10. CASE Return(t)
    BY <2>10, NoCallTyped DEF Return, env, shared
  <2> QED
    BY <1>4, <2>1, <2>2, <2>3, <2>4, <2>5, <2>6, <2>7, <2>8, <2>9, <2>10
    DEF GetEmbedder, ReportStatus
<1>5. CASE SetReady
  BY <1>5 DEF SetReady, env
<1>6. CASE UNCHANGED vars
  BY <1>6 DEF vars, env, shared
<1> QED
  BY <1>1, <1>2, <1>3, <1>4, <1>5, <1>6 DEF Next

\* Every variable keeps its type.
THEOREM TypeCorrect == Spec => []TypeOK
  BY TypeInit, TypeNext, PTL DEF Spec

-----------------------------------------------------------------------------
LEMMA LoadingStep == TypeOK /\ LoadingInv /\ [Next]_vars => LoadingInv'
<1> SUFFICES ASSUME TypeOK, LoadingInv, [Next]_vars PROVE LoadingInv'
  OBVIOUS
<1> USE ReadinessAssumption DEF LoadingInv
<1>1. CASE UNCHANGED <<embedder, embLock, handedOut>> /\ \A t \in All : pc'[t] = "load" <=> pc[t] = "load"
  BY <1>1
<1>2. ASSUME NEW t \in All, Acquire(t) PROVE LoadingInv'
  BY <1>2 DEF Acquire, TypeOK, After, All
<1>3. ASSUME NEW t \in All, Load(t) PROVE LoadingInv'
  <2>1. embLock = t /\ embedder = "none" /\ handedOut = {} /\ embLock' = NoThread
    BY <1>3 DEF Load
  <2>2. \A u \in All : pc'[u] # "load"
    BY <1>3, <2>1 DEF Load, TypeOK, After
  <2>3. handedOut' = {embedder'} \ {"none"}
    <3>1. PICK e \in Loadable :
            IF e = "raised" THEN UNCHANGED <<embedder, handedOut>>
            ELSE embedder' = e /\ handedOut' = handedOut \cup {e}
      BY <1>3 DEF Load
    <3>2. e # "none"
      BY <3>1, LoadableTyped DEF Embedders
    <3> QED
      BY <2>1, <3>1, <3>2
  <2> QED
    BY <2>1, <2>2, <2>3 DEF All
<1>4. CASE Tick \/ (\E d \in Databases : DatabaseChanges(d))
           \/ (\E p \in Projects, s \in Statuses : ProjectChanges(p, s)) \/ UNCHANGED vars
  BY <1>4, <1>1 DEF Tick, DatabaseChanges, ProjectChanges, shared, vars
<1>5. CASE SetReady
  BY <1>5, <1>1 DEF SetReady, TypeOK, All
<1>6. ASSUME NEW t \in All, Embed(t) \/ AskStatus(t) \/ ReportStatus(t) PROVE LoadingInv'
  BY <1>6, <1>1
  DEF Embed, AskStatus, ReportStatus, SummariseProjects, LookUp, ProbeExtension, ProbeTables,
      KeepProbe, Return, shared, TypeOK
<1> QED
  BY <1>2, <1>3, <1>4, <1>5, <1>6 DEF Next, GetEmbedder

\* Loading is exclusive, and what was handed out is what is cached.
THEOREM LoadingExclusive == Spec => []LoadingInv
<1>1. Init => LoadingInv
  BY ReadinessAssumption DEF Init, LoadingInv, All
<1> QED
  BY <1>1, TypeCorrect, LoadingStep, PTL DEF Spec

\* All calls of _get_embedder return one embedder.
THEOREM OneEmbedderEver == Spec => []OneEmbedder
<1>1. LoadingInv => OneEmbedder
  <2>1. Cardinality({}) = 0 /\ Cardinality({embedder}) = 1
    BY FS_EmptySet, FS_Singleton
  <2>2. LoadingInv => handedOut = {} \/ handedOut = {embedder}
    BY DEF LoadingInv
  <2> QED
    BY <2>1, <2>2 DEF OneEmbedder
<1> QED
  BY <1>1, LoadingExclusive, PTL

-----------------------------------------------------------------------------
LEMMA CoherentCall == \A c \in Calls : Coherent(c)
<1> SUFFICES ASSUME NEW c \in Calls PROVE Coherent(c)
  OBVIOUS
<1>1. Blockers(c) = {} => c.ready /\ (Projects # {}) /\ (Queryable(c) # {} \/ Indexing(c) # {})
  BY DEF Blockers
<1>2. CASE Blockers(c) # {}
  BY <1>2 DEF Coherent, Status, ReadyForQueries
<1>3. CASE Blockers(c) = {}
  <2>1. ~ReadyForQueries(c) => Indexing(c) # {} /\ Warned(c)
    BY <1>1, <1>3 DEF ReadyForQueries, Warned, Indexing, Having
  <2> QED
    BY <1>1, <1>3, <2>1 DEF Coherent, Status
<1> QED
  BY <1>2, <1>3

\* Status, ready_for_queries, blockers and warnings agree in every report.
THEOREM CoherentReports == Spec => []ReportCoherent
<1>1. TypeOK => ReportCoherent
  BY CoherentCall DEF TypeOK, ReportCoherent, All
<1> QED
  BY <1>1, TypeCorrect, PTL

-----------------------------------------------------------------------------
(* ready_for_queries is founded. *)

Gathering == {"projects", "lookup", "vector", "tables", "keep", "report"}

\* When the database last had its schema, and what the cached probe saw.
ProbeInv ==
    /\ schemaAt <= now
    /\ HasSchema(database) => schemaAt = now
    /\ probe # NoProbe => probe.at <= now
    /\ probe # NoProbe /\ probe.runtime.schema => schemaAt >= probe.at

\* What a thread has gathered so far.
GatheredInv(t) ==
    /\ pc[t] \in Gathering => call[t].began <= now /\ (call[t].ready => ready)
    /\ pc[t] \in Gathering \ {"projects"} => Queryable(call[t]) \subseteq seenOk[t]
    /\ pc[t] \in Gathering \ {"projects", "lookup"} =>
          call[t].began <= call[t].asked /\ call[t].asked <= now
    /\ pc[t] \in {"vector", "tables"} => ~call[t].runtime.schema
    /\ pc[t] = "keep" /\ call[t].runtime.schema => schemaAt >= call[t].asked
    /\ pc[t] = "report" /\ call[t].runtime.schema =>
          schemaAt >= call[t].began \/ schemaAt + ProbeTTL > call[t].began

\* Whoever is about to read the projects has met all that are ok.
SeenInv == \A t \in All : pc[t] = "projects" =>
              \A p \in Projects : integrity[p] = "ok" => p \in seenOk[t]

FoundedInv == ProbeInv /\ SeenInv /\ \A t \in All : GatheredInv(t)

LEMMA SeenStep == TypeOK /\ SeenInv /\ [Next]_vars => SeenInv'
<1> SUFFICES ASSUME TypeOK, SeenInv, [Next]_vars PROVE SeenInv'
  OBVIOUS
<1> USE DEF SeenInv
<1>1. ASSUME NEW p \in Projects, NEW s \in Statuses, ProjectChanges(p, s) PROVE SeenInv'
  BY <1>1 DEF ProjectChanges, TypeOK
<1>2. ASSUME NEW t \in All, AskStatus(t) PROVE SeenInv'
  BY <1>2 DEF AskStatus, TypeOK, env
<1>3. ASSUME NEW t \in All, Return(t) PROVE SeenInv'
  BY <1>3 DEF Return, TypeOK, env
<1>4. CASE Tick \/ (\E d \in Databases : DatabaseChanges(d)) \/ UNCHANGED vars
  BY <1>4 DEF Tick, DatabaseChanges, vars, env
<1>5. CASE SetReady
  BY <1>5 DEF SetReady, TypeOK, env
<1>6. ASSUME NEW t \in All, Embed(t) \/ GetEmbedder(t) \/ SummariseProjects(t) \/ LookUp(t)
              \/ ProbeExtension(t) \/ ProbeTables(t) \/ KeepProbe(t)
      PROVE SeenInv'
  BY <1>6
  DEF Embed, GetEmbedder, Acquire, Load, SummariseProjects, LookUp, ProbeExtension, ProbeTables,
      KeepProbe, TypeOK, env, After
<1> QED
  BY <1>1, <1>2, <1>3, <1>4, <1>5, <1>6 DEF Next, ReportStatus

LEMMA FoundedInit == Init => FoundedInv
<1> SUFFICES ASSUME Init PROVE FoundedInv
  OBVIOUS
<1>1. ProbeInv
  BY ReadinessAssumption DEF Init, ProbeInv, StartTime
<1>2. \A t \in All : pc[t] \in {"idle", "want"}
  BY DEF Init
<1> QED
  BY <1>1, <1>2 DEF FoundedInv, SeenInv, GatheredInv, Gathering

\* What a step does to one thread when it only lets time pass or changes
\* the world: what was gathered stays gathered.
LEMMA GatheredKept ==
  ASSUME TypeOK, TypeOK', NEW t \in All, GatheredInv(t),
         now <= now', schemaAt <= schemaAt', ready => ready',
         pc'[t] = pc[t], call'[t] = call[t], pc[t] \in Gathering => seenOk[t] \subseteq seenOk'[t]
  PROVE  GatheredInv(t)'
<1>1. call[t] \in Calls /\ t \in All
  BY DEF TypeOK, All
<1>2. call[t].began \in Nat /\ call[t].asked \in Nat
  BY <1>1 DEF Calls
<1>3. Queryable(call[t])' = Queryable(call[t])
  BY DEF Queryable, Having
<1> QED
  BY <1>2, <1>3, ReadinessAssumption DEF GatheredInv, Gathering, TypeOK

LEMMA FoundedStep == TypeOK /\ TypeOK' /\ FoundedInv /\ [Next]_vars => FoundedInv'
<1> SUFFICES ASSUME TypeOK, TypeOK', FoundedInv, [Next]_vars PROVE FoundedInv'
  OBVIOUS
<1> USE ReadinessAssumption
<1>0. SeenInv'
  BY SeenStep DEF FoundedInv
<1>1. CASE Tick
  <2>1. ProbeInv'
    BY <1>1 DEF Tick, FoundedInv, ProbeInv, TypeOK, shared
  <2>2. now <= now' /\ schemaAt <= schemaAt'
    BY <1>1 DEF Tick, FoundedInv, ProbeInv, TypeOK
  <2> QED
    BY <1>0, <1>1, <2>1, <2>2, GatheredKept DEF Tick, FoundedInv, shared
<1>2. ASSUME NEW d \in Databases, DatabaseChanges(d) PROVE FoundedInv'
  <2>1. ProbeInv'
    BY <1>2 DEF DatabaseChanges, FoundedInv, ProbeInv, TypeOK, shared
  <2>2. now <= now' /\ schemaAt <= schemaAt'
    BY <1>2 DEF DatabaseChanges, FoundedInv, ProbeInv, TypeOK
  <2> QED
    BY <1>0, <1>2, <2>1, <2>2, GatheredKept DEF DatabaseChanges, FoundedInv, shared
<1>3. ASSUME NEW p \in Projects, NEW s \in Statuses, ProjectChanges(p, s) PROVE FoundedInv'
  <2>1. ProbeInv'
    BY <1>3 DEF ProjectChanges, FoundedInv, ProbeInv, shared
  <2>2. \A t \in All : seenOk[t] \subseteq seenOk'[t]
    BY <1>0, <1>3 DEF ProjectChanges, TypeOK
  <2> QED
    BY <1>0, <1>3, <2>1, <2>2, GatheredKept DEF ProjectChanges, FoundedInv, shared, TypeOK
<1>4. CASE SetReady \/ UNCHANGED vars
  <2>1. ProbeInv' /\ UNCHANGED <<now, schemaAt, call, seenOk>> /\ (ready => ready')
    BY <1>4 DEF SetReady, vars, env, shared, FoundedInv, ProbeInv
  <2>2. ASSUME NEW t \in All PROVE GatheredInv(t)'
    <3>1. pc'[t] = pc[t] \/ pc'[t] = "idle"
      BY <1>4 DEF SetReady, vars, TypeOK
    <3>2. CASE pc'[t] = "idle"
      BY <3>2 DEF GatheredInv, Gathering
    <3>3. CASE pc'[t] = pc[t]
      BY <2>1, <3>3, GatheredKept DEF FoundedInv, TypeOK
    <3> QED
      BY <3>1, <3>2, <3>3
  <2> QED
    BY <1>0, <2>1, <2>2 DEF FoundedInv
<1>5. ASSUME NEW u \in All, Embed(u) \/ GetEmbedder(u) PROVE FoundedInv'
  <2>1. ProbeInv' /\ UNCHANGED <<now, schemaAt, call, seenOk, ready>>
    BY <1>5 DEF Embed, GetEmbedder, Acquire, Load, env, shared, FoundedInv, ProbeInv
  <2>2. pc'[u] \notin Gathering /\ \A t \in All \ {u} : pc'[t] = pc[t]
    BY <1>0, <1>5 DEF Embed, GetEmbedder, Acquire, Load, TypeOK, Gathering, After
  <2>3. ASSUME NEW t \in All PROVE GatheredInv(t)'
    <3>1. CASE t = u
      BY <2>2, <3>1 DEF GatheredInv, Gathering
    <3>2. CASE t # u
      BY <2>1, <2>2, <3>2, GatheredKept DEF FoundedInv, TypeOK
    <3> QED
      BY <3>1, <3>2
  <2> QED
    BY <1>0, <2>1, <2>3 DEF FoundedInv
<1>6. ASSUME NEW u \in All, AskStatus(u) \/ ReportStatus(u) PROVE FoundedInv'
  <2>1. UNCHANGED <<now, database, schemaAt, ready>> /\ (\A t \in All \ {u} :
          pc'[t] = pc[t] /\ call'[t] = call[t] /\ seenOk'[t] = seenOk[t])
    BY <1>0, <1>6
    DEF AskStatus, ReportStatus, SummariseProjects, LookUp, ProbeExtension, ProbeTables, KeepProbe,
        Return, env, shared, TypeOK
  <2>2. ASSUME NEW t \in All, t # u PROVE GatheredInv(t)'
    BY <2>1, <2>2, GatheredKept DEF FoundedInv, TypeOK
  <2>3. GatheredInv(u)'
    <3>0. call[u] \in Calls /\ GatheredInv(u) /\ ProbeInv /\ u \in All
      BY DEF TypeOK, FoundedInv
    <3>1. /\ call[u].began \in Nat /\ call[u].asked \in Nat /\ call[u].runtime \in Observations
          /\ now \in Nat /\ schemaAt \in Nat /\ ProbeTTL \in Nat
      BY <3>0 DEF Calls, TypeOK
    <3>2. CASE AskStatus(u)
      <4>1. pc'[u] = "projects" /\ call'[u] = [NoCall EXCEPT !.ready = ready, !.began = now]
        BY <3>0, <3>2 DEF AskStatus, TypeOK
      <4>2. call'[u].ready = ready /\ call'[u].began = now
        BY <4>1 DEF NoCall
      <4> QED
        BY <2>1, <3>1, <4>1, <4>2 DEF GatheredInv, Gathering
    <3>3. CASE SummariseProjects(u)
      <4>1. pc'[u] = "lookup" /\ call'[u] = [call[u] EXCEPT !.summary = integrity]
        BY <3>0, <3>3 DEF SummariseProjects, TypeOK
      <4>2. call'[u].summary = integrity /\ call'[u].began = call[u].began
            /\ call'[u].ready = call[u].ready
        BY <3>0, <4>1 DEF Calls
      <4>3. Queryable(call'[u]) \subseteq seenOk'[u]
        BY <3>3, <4>2 DEF SummariseProjects, FoundedInv, SeenInv, Queryable, Having
      <4> QED
        BY <2>1, <3>0, <3>3, <4>1, <4>2, <4>3
        DEF SummariseProjects, GatheredInv, Gathering, Queryable
    <3>4. CASE LookUp(u)
      <4>1. /\ call'[u].began = call[u].began /\ call'[u].ready = call[u].ready
            /\ call'[u].asked = now /\ Queryable(call'[u]) = Queryable(call[u])
        <5>1. \E r : call'[u] = [call[u] EXCEPT !.asked = now, !.runtime = r]
          <6>1. CASE Fresh(u)
            <7>1. call'[u] = [call[u] EXCEPT !.asked = now, !.runtime = probe.runtime]
              BY <3>0, <3>4, <6>1 DEF LookUp, TypeOK
            <7> QED
              BY <7>1
          <6>2. CASE ~Fresh(u)
            <7>1. call'[u] = [call[u] EXCEPT !.asked = now, !.runtime = Unreachable]
              BY <3>0, <3>4, <6>2 DEF LookUp, TypeOK
            <7> QED
              BY <7>1
          <6> QED
            BY <6>1, <6>2
        <5>2. PICK r : call'[u] = [call[u] EXCEPT !.asked = now, !.runtime = r]
          BY <5>1
        <5>3. call'[u].summary = call[u].summary
          BY <3>0, <5>2 DEF Calls
        <5> QED
          BY <3>0, <5>2, <5>3 DEF Calls, Queryable, Having
      <4>2. CASE Fresh(u)
        <5>1. pc'[u] = "report" /\ call'[u].runtime = probe.runtime
          BY <3>0, <3>4, <4>2 DEF LookUp, TypeOK, Calls
        <5>2. probe.at \in Nat /\ probe.at <= now /\ now - probe.at < ProbeTTL
              /\ (probe.runtime.schema => schemaAt >= probe.at)
          BY <3>0, <4>2 DEF Fresh, ProbeInv, TypeOK
        <5>3. call[u].began <= now
          BY <3>0, <3>4 DEF LookUp, GatheredInv, Gathering
        <5>4. probe.runtime.schema => schemaAt + ProbeTTL > call[u].began
          BY <3>1, <5>2, <5>3
        <5> QED
          BY <2>1, <3>0, <3>1, <3>4, <4>1, <5>1, <5>3, <5>4
          DEF LookUp, GatheredInv, Gathering, Queryable
      <4>3. CASE ~Fresh(u)
        <5>1. pc'[u] = "vector" /\ call'[u].runtime = Unreachable
          BY <3>0, <3>4, <4>3 DEF LookUp, TypeOK, Calls
        <5> QED
          BY <2>1, <3>0, <3>1, <3>4, <4>1, <5>1
          DEF LookUp, GatheredInv, Gathering, Queryable, Unreachable
      <4> QED
        BY <4>2, <4>3
    <3>5. CASE ProbeExtension(u)
      <4>1. /\ call'[u].began = call[u].began /\ call'[u].ready = call[u].ready
            /\ call'[u].asked = call[u].asked /\ Queryable(call'[u]) = Queryable(call[u])
            /\ call'[u].runtime.schema = call[u].runtime.schema
            /\ pc[u] = "vector" /\ pc'[u] \in {"keep", "tables"}
        BY <3>0, <3>1, <3>5 DEF ProbeExtension, TypeOK, Calls, Queryable, Having, Observations
      <4> QED
        BY <2>1, <3>0, <3>1, <3>5, <4>1 DEF ProbeExtension, GatheredInv, Gathering, Queryable
    <3>6. CASE ProbeTables(u)
      <4>1. /\ call'[u].began = call[u].began /\ call'[u].ready = call[u].ready
            /\ call'[u].asked = call[u].asked /\ Queryable(call'[u]) = Queryable(call[u])
            /\ call'[u].runtime.schema => HasSchema(database) \/ call[u].runtime.schema
            /\ pc[u] = "tables" /\ pc'[u] = "keep"
        BY <3>0, <3>1, <3>6 DEF ProbeTables, TypeOK, Calls, Queryable, Having, Observations
      <4>2. call'[u].runtime.schema => schemaAt >= call[u].asked
        BY <3>0, <3>1, <4>1 DEF GatheredInv, Gathering, ProbeInv
      <4> QED
        BY <2>1, <3>0, <3>1, <3>6, <4>1, <4>2 DEF ProbeTables, GatheredInv, Gathering, Queryable
    <3>7. CASE KeepProbe(u)
      <4>1. call'[u] = call[u] /\ pc[u] = "keep" /\ pc'[u] = "report" /\ seenOk' = seenOk
        BY <3>0, <3>7 DEF KeepProbe, TypeOK
      <4>2. Queryable(call[u])' = Queryable(call[u])
        BY <4>1 DEF Queryable, Having
      <4> QED
        BY <2>1, <3>0, <3>1, <4>1, <4>2 DEF GatheredInv, Gathering
    <3>8. CASE Return(u)
      BY <3>0, <3>8 DEF Return, GatheredInv, Gathering, TypeOK
    <3> QED
      BY <1>6, <3>2, <3>3, <3>4, <3>5, <3>6, <3>7, <3>8 DEF ReportStatus
  <2>4. ProbeInv'
    <3>1. CASE KeepProbe(u)
      <4>1. call[u] \in Calls /\ GatheredInv(u) /\ ProbeInv /\ pc[u] = "keep"
        BY <3>1 DEF TypeOK, FoundedInv, KeepProbe
      <4> QED
        BY <2>1, <3>1, <4>1 DEF KeepProbe, ProbeInv, GatheredInv, Gathering
    <3>2. CASE probe' = probe
      BY <2>1, <3>2 DEF FoundedInv, ProbeInv
    <3> QED
      BY <1>6, <3>1, <3>2
      DEF AskStatus, ReportStatus, SummariseProjects, LookUp, ProbeExtension, ProbeTables, Return,
          shared
  <2> QED
    BY <1>0, <2>2, <2>3, <2>4 DEF FoundedInv
<1> QED
  BY <1>1, <1>2, <1>3, <1>4, <1>5, <1>6 DEF Next

\* A report that says ready_for_queries is founded on what was the case.
THEOREM FoundedReports == Spec => []ReadyReportFounded
<1>1. TypeOK /\ FoundedInv => ReadyReportFounded
  <2> SUFFICES ASSUME TypeOK, FoundedInv, NEW t \in Threads, pc[t] = "report",
                      ReadyForQueries(call[t])
               PROVE  Founded(t)
    BY DEF ReadyReportFounded
  <2>1. call[t].runtime.schema /\ call[t].ready /\ Queryable(call[t]) # {}
    BY DEF ReadyForQueries, Blockers
  <2>2. Queryable(call[t]) \subseteq seenOk[t]
    BY DEF FoundedInv, GatheredInv, Gathering, All
  <2>3. ready /\ (schemaAt >= call[t].began \/ schemaAt + ProbeTTL > call[t].began)
    BY <2>1 DEF FoundedInv, GatheredInv, Gathering, All
  <2> QED
    BY <2>1, <2>2, <2>3 DEF Founded
<1> QED
  BY <1>1, TypeCorrect, FoundedInit, TypeNext, FoundedStep, PTL DEF Spec
=============================================================================
