-------------------------- MODULE QueryCacheProofs --------------------------
(***************************************************************************)
(* Theorems about QueryCache, for any threads, requests, limits and times. *)
(***************************************************************************)
EXTENDS QueryCache, FiniteSetTheorems, TLAPS

LEMMA KeyTyped == \A r \in Requests : CacheKey(r) \in Keys \cup {NoKey}
<1> SUFFICES ASSUME NEW r \in Requests PROVE CacheKey(r) \in Keys \cup {NoKey}
  OBVIOUS
<1>1. /\ r.project \in Projects /\ r.text \in Texts /\ r.scope \in Scopes \cup {NoScope}
      /\ r.auto \in BOOLEAN
  BY QueryCacheAssumption DEF Request
<1>2. FoldedText[r.text] \in Texts /\ Folded(r.scope) \in Scopes \cup {NoScope}
  BY <1>1, QueryCacheAssumption DEF Folded
<1> QED
  BY <1>1, <1>2 DEF CacheKey, Keys

LEMMA GetCachedTyped ==
  ASSUME TypeOK, NEW k \in Keys, GetCached(k)
  PROVE  /\ cache' \in [Keys -> Entries \cup {NoEntry}]
         /\ \A l \in Keys : cache'[l] = cache[l] \/ cache'[l] = NoEntry
         /\ cache'[k] # NoEntry => cache'[k] = cache[k] /\ k \in Stored /\ ~Expired(k)
  BY DEF GetCached, TypeOK, Stored, Held

\* What eviction may do: entries go, none is added or changed, and there is
\* room for one.
LEMMA EvictMakesRoom ==
  ASSUME NEW c \in [Keys -> Entries \cup {NoEntry}], IsFiniteSet(Held(c)), NEW d \in Evict(c),
         Cardinality(Held(c)) <= CacheMax
  PROVE  /\ d \in [Keys -> Entries \cup {NoEntry}]
         /\ \A k \in Keys : d[k] = c[k] \/ d[k] = NoEntry
         /\ IsFiniteSet(Held(d))
         /\ Cardinality(Held(d)) + 1 <= CacheMax
<1>0. Cardinality(Held(c)) \in Nat /\ CacheMax \in Nat
  BY FS_CardinalityType, QueryCacheAssumption
<1>1. CASE Cardinality(Held(c)) < CacheMax
  BY <1>0, <1>1 DEF Evict
<1>2. CASE ~(Cardinality(Held(c)) < CacheMax)
  <2>1. PICK o \in Held(c) : d = [c EXCEPT ![o] = NoEntry]
    BY <1>2 DEF Evict
  <2>2. Held(d) = Held(c) \ {o}
    BY <2>1 DEF Held
  <2>3. IsFiniteSet(Held(d)) /\ Cardinality(Held(d)) = Cardinality(Held(c)) - 1
    BY <2>1, <2>2, FS_RemoveElement
  <2> QED
    BY <1>0, <2>1, <2>3 DEF Held
<1> QED
  BY <1>1, <1>2

LEMMA PayloadTyped == \A t \in Threads : TypeOK => Payload(t) \in Payloads
  BY DEF Payload, Payloads, TypeOK, Req

LEMMA SearchedTyped ==
  ASSUME TypeOK, NEW t \in Threads, NEW p \in Prefixes \cup {NoPrefix}, NEW any \in BOOLEAN,
         Searched(t, p, any)
  PROVE  found' \in [Threads -> [prefix : Prefixes \cup {NoPrefix}, version : Nat, any : BOOLEAN]]
  BY DEF Searched, TypeOK

LEMMA TypeInit == Init => TypeOK
<1> SUFFICES ASSUME Init PROVE TypeOK
  OBVIOUS
<1>1. NothingFound \in [prefix : Prefixes \cup {NoPrefix}, version : Nat, any : BOOLEAN]
  BY DEF NothingFound
<1>2. call \in [Threads -> [req : Requests, began : Nat]]
  BY DEF Init
<1>3. pc \in [Threads -> Working \cup {"idle", "answered", "failed"}]
  BY DEF Init
<1> QED
  BY <1>1, <1>2, <1>3 DEF Init, TypeOK

\* What Store leaves in the cache.
LEMMA StoreCases ==
  ASSUME TypeOK, NEW t \in Threads, Store(t)
  PROVE  \/ UNCHANGED <<cache, settled>>
         \/ LET k == CacheKey(Req(t)) IN
            /\ k \in Keys
            /\ \E c \in Evict(cache) : cache' = [c EXCEPT ![k] = [payload |-> Payload(t), ts |-> now]]
            /\ settled' = IF found[t].version < version THEN now ELSE settled
<1>1. Req(t) \in Requests
  BY DEF TypeOK, Req
<1> QED
  BY <1>1, KeyTyped DEF Store

\* Evict without a bound keeps the type.
LEMMA EvictTyped ==
  ASSUME NEW c \in [Keys -> Entries \cup {NoEntry}], NEW d \in Evict(c)
  PROVE  /\ d \in [Keys -> Entries \cup {NoEntry}]
         /\ \A k \in Keys : d[k] = c[k] \/ d[k] = NoEntry
  BY DEF Evict

LEMMA TypeNext == TypeOK /\ [Next]_vars => TypeOK'
<1> SUFFICES ASSUME TypeOK, [Next]_vars PROVE TypeOK'
  OBVIOUS
<1> USE QueryCacheAssumption
<1>1. CASE Tick
  BY <1>1 DEF Tick, TypeOK
<1>2. CASE Publish
  BY <1>2 DEF Publish, TypeOK
<1>3. ASSUME NEW p \in Projects, Register(p) PROVE TypeOK'
  BY <1>3 DEF Register, TypeOK
<1>4. ASSUME NEW t \in Threads, NEW r \in Requests, Begin(t, r) PROVE TypeOK'
  BY <1>4 DEF Begin, TypeOK, Working
<1>5. ASSUME NEW t \in Threads, Step(t) PROVE TypeOK'
  <2>0. Req(t) \in Requests /\ found[t].prefix \in Prefixes \cup {NoPrefix}
    BY DEF TypeOK, Req
  <2>1. CASE Resolve(t)
    BY <2>1 DEF Resolve, TypeOK, Working
  <2>2. CASE LookUp(t)
    <3>1. CASE CacheKey(Req(t)) = NoKey
      BY <2>2, <3>1 DEF LookUp, TypeOK, Working
    <3>2. CASE CacheKey(Req(t)) # NoKey
      <4>1. CacheKey(Req(t)) \in Keys
        BY <2>0, <3>2, KeyTyped
      <4>2. GetCached(CacheKey(Req(t)))
        BY <2>2, <3>2 DEF LookUp
      <4>3. cache' \in [Keys -> Entries \cup {NoEntry}]
            /\ (cache'[CacheKey(Req(t))] # NoEntry => cache[CacheKey(Req(t))].payload \in Payloads)
        BY <4>1, <4>2, GetCachedTyped DEF Entries, TypeOK, Stored, Held
      <4> QED
        BY <2>2, <3>2, <4>3 DEF LookUp, TypeOK, Working
    <3> QED
      BY <3>1, <3>2
  <2>3. CASE Prepare(t)
    <3>1. \A p \in Prefixes \cup {NoPrefix} : [NothingFound EXCEPT !.prefix = p] \in
            [prefix : Prefixes \cup {NoPrefix}, version : Nat, any : BOOLEAN]
      BY DEF NothingFound
    <3>2. Req(t).scope # NoScope => PrefixOf[Req(t).scope] \in Prefixes \cup {NoPrefix}
      BY <2>0 DEF Request
    <3> QED
      BY <2>3, <3>1, <3>2 DEF Prepare, TypeOK, Working
  <2>4. CASE Search(t)
    BY <2>0, <2>4, SearchedTyped DEF Search, TypeOK, Working, Relax
  <2>5. CASE SearchUnscoped(t)
    BY <2>5, SearchedTyped DEF SearchUnscoped, TypeOK, Working, Relax
  <2>6. CASE SearchRelaxed(t)
    BY <2>0, <2>6, SearchedTyped DEF SearchRelaxed, TypeOK, Working
  <2>7. CASE Store(t)
    <3>1. Payload(t) \in Payloads /\ [payload |-> Payload(t), ts |-> now] \in Entries
      BY PayloadTyped DEF Entries, TypeOK
    <3>2. cache' \in [Keys -> Entries \cup {NoEntry}] /\ settled' \in Nat
      <4>1. CASE UNCHANGED <<cache, settled>>
        BY <4>1 DEF TypeOK
      <4>2. CASE ~UNCHANGED <<cache, settled>>
        <5>1. PICK c \in Evict(cache) :
                cache' = [c EXCEPT ![CacheKey(Req(t))] = [payload |-> Payload(t), ts |-> now]]
          BY <2>7, <4>2, StoreCases
        <5>2. c \in [Keys -> Entries \cup {NoEntry}]
          BY <5>1, EvictTyped DEF TypeOK
        <5>3. settled' = IF found[t].version < version THEN now ELSE settled
          BY <2>7, <4>2, StoreCases
        <5> QED
          BY <3>1, <5>1, <5>2, <5>3 DEF TypeOK
      <4> QED
        BY <4>1, <4>2
    <3> QED
      BY <2>7, <3>1, <3>2 DEF Store, TypeOK
  <2>8. CASE Fail(t)
    BY <2>8 DEF Fail, TypeOK
  <2>9. CASE Return(t)
    BY <2>9 DEF Return, TypeOK, NothingFound
  <2> QED
    BY <1>5, <2>1, <2>2, <2>3, <2>4, <2>5, <2>6, <2>7, <2>8, <2>9 DEF Step
<1>6. CASE UNCHANGED vars
  BY <1>6 DEF vars, TypeOK
<1> QED
  BY <1>1, <1>2, <1>3, <1>4, <1>5, <1>6 DEF Next

\* Every variable keeps its type.
THEOREM TypeCorrect == Spec => []TypeOK
  BY TypeInit, TypeNext, PTL DEF Spec

-----------------------------------------------------------------------------
SizeInv == IsFiniteSet(Stored) /\ Cardinality(Stored) <= CacheMax

LEMMA SizeStep == TypeOK /\ SizeInv /\ [Next]_vars => SizeInv'
<1> SUFFICES ASSUME TypeOK, SizeInv, [Next]_vars PROVE SizeInv'
  OBVIOUS
<1>0. Cardinality(Stored) \in Nat /\ CacheMax \in Nat
  BY FS_CardinalityType, QueryCacheAssumption DEF SizeInv
<1>1. CASE Stored' \subseteq Stored
  <2>1. IsFiniteSet(Stored') /\ Cardinality(Stored') <= Cardinality(Stored)
    BY <1>1, FS_Subset DEF SizeInv
  <2>2. Cardinality(Stored') \in Nat
    BY <2>1, FS_CardinalityType
  <2> QED
    BY <1>0, <2>1, <2>2 DEF SizeInv
<1>2. ASSUME NEW t \in Threads, Store(t) PROVE SizeInv'
  <2>1. CASE UNCHANGED <<cache, settled>>
    BY <2>1, <1>1 DEF Stored, Held
  <2>2. CASE ~UNCHANGED <<cache, settled>>
    <3> DEFINE k == CacheKey(Req(t))
    <3>1. k \in Keys
      BY <1>2, <2>2, StoreCases
    <3>2. PICK c \in Evict(cache) : cache' = [c EXCEPT ![k] = [payload |-> Payload(t), ts |-> now]]
      BY <1>2, <2>2, StoreCases
    <3>3. c \in [Keys -> Entries \cup {NoEntry}] /\ IsFiniteSet(Held(c))
          /\ Cardinality(Held(c)) + 1 <= CacheMax
      BY <3>2, EvictMakesRoom DEF SizeInv, Stored, TypeOK
    <3>4. Stored' \subseteq Held(c) \cup {k}
      BY <3>2, <3>3 DEF Stored, Held
    <3>5. IsFiniteSet(Held(c) \cup {k}) /\ Cardinality(Held(c) \cup {k}) <= Cardinality(Held(c)) + 1
      <4>1. Cardinality(Held(c)) \in Nat
        BY <3>3, FS_CardinalityType
      <4>2. IsFiniteSet(Held(c) \cup {k})
            /\ Cardinality(Held(c) \cup {k}) =
                 IF k \in Held(c) THEN Cardinality(Held(c)) ELSE Cardinality(Held(c)) + 1
        BY <3>3, FS_AddElement
      <4> QED
        BY <4>1, <4>2
    <3>6. IsFiniteSet(Stored') /\ Cardinality(Stored') <= Cardinality(Held(c) \cup {k})
      BY <3>4, <3>5, FS_Subset
    <3>7. Cardinality(Stored') \in Nat /\ Cardinality(Held(c) \cup {k}) \in Nat
          /\ Cardinality(Held(c)) \in Nat
      BY <3>3, <3>5, <3>6, FS_CardinalityType
    <3> QED
      BY <1>0, <3>3, <3>5, <3>6, <3>7 DEF SizeInv
  <2> QED
    BY <2>1, <2>2
<1>3. ASSUME NEW t \in Threads, LookUp(t) PROVE SizeInv'
  <2>1. Req(t) \in Requests
    BY DEF TypeOK, Req
  <2>2. CASE CacheKey(Req(t)) = NoKey
    BY <1>1, <1>3, <2>2 DEF LookUp, Stored, Held
  <2>3. CASE CacheKey(Req(t)) # NoKey
    <3>1. CacheKey(Req(t)) \in Keys /\ GetCached(CacheKey(Req(t)))
      BY <1>3, <2>1, <2>3, KeyTyped DEF LookUp
    <3>2. Stored' \subseteq Stored
      BY <3>1, GetCachedTyped DEF Stored, Held
    <3> QED
      BY <1>1, <3>2
  <2> QED
    BY <2>2, <2>3
<1>4. CASE UNCHANGED cache
  BY <1>1, <1>4 DEF Stored, Held
<1> QED
  BY <1>2, <1>3, <1>4
  DEF Next, Tick, Publish, Register, Begin, Step, Resolve, Prepare, Search, SearchUnscoped,
      SearchRelaxed, Fail, Return, vars

\* The cache never exceeds its limit.
THEOREM BoundedCache == Spec => []CacheBounded
<1>1. Init => SizeInv
  <2> SUFFICES ASSUME Init PROVE SizeInv
    OBVIOUS
  <2>1. Stored = {}
    BY DEF Init, Stored, Held
  <2> QED
    BY <2>1, FS_EmptySet, QueryCacheAssumption DEF SizeInv
<1>2. SizeInv => CacheBounded
  BY DEF SizeInv, CacheBounded
<1> QED
  BY <1>1, <1>2, TypeCorrect, SizeStep, PTL DEF Spec

-----------------------------------------------------------------------------
(* What a payload is about. *)

InScope(r, prefix) == r.scope # NoScope => prefix = PrefixOf[r.scope]

\* A payload of the cache under key k answers every request with that key.
EntryInv == \A k \in Stored :
    /\ CacheKey(cache[k].payload.req) = k
    /\ InScope(cache[k].payload.req, cache[k].payload.prefix)

\* A search of a request with an explicit scope stays in it.
SearchInv == \A t \in Threads :
    /\ pc[t] \in {"search", "relaxed", "store"} => InScope(Req(t), found[t].prefix)
    /\ pc[t] = "unscoped" => Req(t).scope = NoScope

FitInv == EntryInv /\ SearchInv /\ AnswerFitsRequest

\* Requests with one key ask the same question.
LEMMA OneKeyOneQuestion ==
  ASSUME NEW r \in Requests, NEW q \in Requests, CacheKey(r) = CacheKey(q), CacheKey(r) # NoKey
  PROVE  r.project = q.project /\ FoldedText[r.text] = FoldedText[q.text]
         /\ Folded(r.scope) = Folded(q.scope)
<1>1. /\ CacheKey(r).project = r.project
      /\ CacheKey(r).text = FoldedText[r.text]
      /\ CacheKey(r).scope = Folded(r.scope)
  BY DEF CacheKey
<1>2. /\ CacheKey(q).project = q.project
      /\ CacheKey(q).text = FoldedText[q.text]
      /\ CacheKey(q).scope = Folded(q.scope)
  BY DEF CacheKey
<1> QED
  BY <1>1, <1>2

\* What is found for one of them fits the scope of the other.
LEMMA ScopeFits ==
  ASSUME NEW r \in Requests, NEW q \in Requests, NEW prefix,
         Folded(r.scope) = Folded(q.scope), InScope(r, prefix), q.scope # NoScope
  PROVE  \E s \in Scopes : FoldedScope[s] = FoldedScope[q.scope] /\ prefix = PrefixOf[s]
<1>1. r.scope \in Scopes \cup {NoScope} /\ q.scope \in Scopes
  BY QueryCacheAssumption DEF Request
<1>2. FoldedScope[q.scope] # NoScope
  BY <1>1, QueryCacheAssumption
<1>3. r.scope \in Scopes /\ FoldedScope[r.scope] = FoldedScope[q.scope]
  BY <1>1, <1>2 DEF Folded
<1> QED
  BY <1>1, <1>3, QueryCacheAssumption DEF InScope

LEMMA FitStep == TypeOK /\ TypeOK' /\ FitInv /\ [Next]_vars => FitInv'
<1> SUFFICES ASSUME TypeOK, TypeOK', FitInv, [Next]_vars PROVE FitInv'
  OBVIOUS
<1> USE QueryCacheAssumption
<1>1. CASE \/ UNCHANGED <<cache, pc, call, found, answer>>
  BY <1>1 DEF FitInv, EntryInv, SearchInv, AnswerFitsRequest, Stored, Held, Req
<1>2. ASSUME NEW t \in Threads, NEW r \in Requests, Begin(t, r) PROVE FitInv'
  <2>1. /\ UNCHANGED <<cache, found, answer>> /\ pc'[t] = "resolve"
        /\ \A u \in Threads \ {t} : pc'[u] = pc[u] /\ call'[u] = call[u]
    BY <1>2 DEF Begin, TypeOK
  <2>2. EntryInv' /\ SearchInv'
    BY <2>1 DEF FitInv, EntryInv, SearchInv, Stored, Held, Req
  <2>3. AnswerFitsRequest'
    BY <2>1 DEF FitInv, AnswerFitsRequest, Req
  <2> QED
    BY <2>2, <2>3 DEF FitInv
<1>3. ASSUME NEW t \in Threads, Resolve(t) \/ Fail(t) \/ Return(t) PROVE FitInv'
  <2>1. UNCHANGED <<cache, call>> /\ pc'[t] \in {"lookup", "failed", "idle"}
    BY <1>3 DEF Resolve, Fail, Return, TypeOK
  <2>2. \A u \in Threads \ {t} : pc'[u] = pc[u] /\ found'[u] = found[u] /\ answer'[u] = answer[u]
    BY <1>3 DEF Resolve, Fail, Return, TypeOK
  <2>3. EntryInv' /\ SearchInv'
    BY <2>1, <2>2 DEF FitInv, EntryInv, SearchInv, Stored, Held, Req
  <2>4. AnswerFitsRequest'
    BY <2>1, <2>2 DEF FitInv, AnswerFitsRequest, Req
  <2> QED
    BY <2>3, <2>4 DEF FitInv
<1>4. ASSUME NEW t \in Threads, Search(t) \/ SearchUnscoped(t) \/ SearchRelaxed(t) \/ Prepare(t)
      PROVE FitInv'
  <2>0. Req(t) \in Requests /\ Req(t).scope \in Scopes \cup {NoScope}
    BY DEF TypeOK, Req, Request
  <2>1. EntryInv' /\ UNCHANGED call
    BY <1>4
    DEF Search, SearchUnscoped, SearchRelaxed, Prepare, FitInv, EntryInv, Stored, Held
  <2>2. \A u \in Threads \ {t} : pc'[u] = pc[u] /\ found'[u] = found[u]
    BY <1>4 DEF Search, SearchUnscoped, SearchRelaxed, Prepare, Searched, TypeOK
  <2>3. pc'[t] \in {"search", "unscoped", "relaxed", "store"}
    BY <1>4 DEF Search, SearchUnscoped, SearchRelaxed, Prepare, TypeOK, Relax
  <2>4. InScope(Req(t), found'[t].prefix) /\ (pc'[t] = "unscoped" => Req(t).scope = NoScope)
    <3>1. CASE Prepare(t)
      BY <2>0, <3>1 DEF Prepare, TypeOK, InScope, NothingFound
    <3>2. CASE Search(t)
      BY <3>2 DEF Search, Searched, TypeOK, InScope, FitInv, SearchInv, MayWiden, Relax
    <3>3. CASE SearchUnscoped(t)
      BY <3>3 DEF SearchUnscoped, Searched, TypeOK, InScope, FitInv, SearchInv, Relax
    <3>4. CASE SearchRelaxed(t)
      BY <3>4 DEF SearchRelaxed, Searched, TypeOK, InScope, FitInv, SearchInv
    <3> QED
      BY <1>4, <3>1, <3>2, <3>3, <3>4
  <2>5. AnswerFitsRequest'
    BY <1>4, <2>1, <2>2, <2>3
    DEF Search, SearchUnscoped, SearchRelaxed, Prepare, FitInv, AnswerFitsRequest, Req
  <2>6. SearchInv'
    BY <2>1, <2>2, <2>4 DEF FitInv, SearchInv, Req
  <2> QED
    BY <2>1, <2>5, <2>6 DEF FitInv
<1>5. ASSUME NEW t \in Threads, LookUp(t) PROVE FitInv'
  <2>0. Req(t) \in Requests /\ UNCHANGED <<call, found>>
    BY <1>5 DEF TypeOK, Req, LookUp
  <2>1. CASE CacheKey(Req(t)) = NoKey
    BY <1>5, <2>1
    DEF LookUp, FitInv, EntryInv, SearchInv, AnswerFitsRequest, Stored, Held, Req, TypeOK
  <2>2. CASE CacheKey(Req(t)) # NoKey
    <3> DEFINE k == CacheKey(Req(t))
    <3>1. k \in Keys /\ GetCached(k)
      BY <1>5, <2>0, <2>2, KeyTyped DEF LookUp
    <3>2. EntryInv'
      BY <3>1, GetCachedTyped DEF FitInv, EntryInv, Stored, Held
    <3>3. CASE cache'[k] = NoEntry
      BY <1>5, <2>0, <2>2, <3>2, <3>3 DEF LookUp, FitInv, SearchInv, AnswerFitsRequest, Req, TypeOK
    <3>4. CASE cache'[k] # NoEntry
      <4>1. k \in Stored /\ cache[k] \in Entries
        BY <3>1, <3>4, GetCachedTyped DEF TypeOK, Stored, Held
      <4>2. cache[k].payload.req \in Requests
        BY <4>1 DEF Entries, Payloads
      <4>3. CacheKey(cache[k].payload.req) = k /\ InScope(cache[k].payload.req, cache[k].payload.prefix)
        BY <4>1 DEF FitInv, EntryInv
      <4>4. /\ cache[k].payload.req.project = Req(t).project
            /\ FoldedText[cache[k].payload.req.text] = FoldedText[Req(t).text]
            /\ Folded(cache[k].payload.req.scope) = Folded(Req(t).scope)
        BY <2>0, <2>2, <4>2, <4>3, OneKeyOneQuestion
      <4>5. answer' = [answer EXCEPT ![t] = cache[k].payload] /\ pc' = [pc EXCEPT ![t] = "answered"]
        BY <1>5, <2>2, <3>4 DEF LookUp
      <4>6. SearchInv'
        BY <2>0, <4>5 DEF FitInv, SearchInv, Req, TypeOK
      <4>7. Req(t).scope # NoScope =>
              \E s \in Scopes : /\ FoldedScope[s] = FoldedScope[Req(t).scope]
                               /\ cache[k].payload.prefix = PrefixOf[s]
        BY <2>0, <4>2, <4>3, <4>4, ScopeFits
      <4>8. AnswerFitsRequest'
        BY <2>0, <4>4, <4>5, <4>7 DEF FitInv, AnswerFitsRequest, Req, TypeOK
      <4> QED
        BY <3>2, <4>6, <4>8 DEF FitInv
    <3> QED
      BY <3>3, <3>4
  <2> QED
    BY <2>1, <2>2
<1>6. ASSUME NEW t \in Threads, Store(t) PROVE FitInv'
  <2>0. /\ Req(t) \in Requests /\ UNCHANGED <<call, found>>
        /\ Payload(t).req = Req(t) /\ Payload(t).prefix = found[t].prefix
        /\ InScope(Req(t), found[t].prefix)
    BY <1>6 DEF TypeOK, Req, Store, Payload, FitInv, SearchInv
  <2>1. answer' = [answer EXCEPT ![t] = Payload(t)] /\ pc' = [pc EXCEPT ![t] = "answered"]
    BY <1>6 DEF Store
  <2>4. Req(t).scope # NoScope =>
          \E s \in Scopes : /\ FoldedScope[s] = FoldedScope[Req(t).scope]
                           /\ found[t].prefix = PrefixOf[s]
    BY <2>0, ScopeFits
  <2>5. AnswerFitsRequest'
    BY <2>0, <2>1, <2>4 DEF FitInv, AnswerFitsRequest, Req, TypeOK
  <2>2. SearchInv' /\ AnswerFitsRequest'
    BY <2>0, <2>1, <2>5 DEF FitInv, SearchInv, Req, TypeOK
  <2>3. EntryInv'
    <3>1. CASE UNCHANGED <<cache, settled>>
      BY <3>1 DEF FitInv, EntryInv, Stored, Held
    <3>2. CASE ~UNCHANGED <<cache, settled>>
      <4>1. CacheKey(Req(t)) \in Keys
        BY <1>6, <3>2, StoreCases
      <4>2. PICK c \in Evict(cache) :
              cache' = [c EXCEPT ![CacheKey(Req(t))] = [payload |-> Payload(t), ts |-> now]]
        BY <1>6, <3>2, StoreCases
      <4>3. c \in [Keys -> Entries \cup {NoEntry}]
            /\ \A k \in Keys : c[k] = cache[k] \/ c[k] = NoEntry
        BY <4>2, EvictTyped DEF TypeOK
      <4> QED
        BY <2>0, <4>1, <4>2, <4>3 DEF FitInv, EntryInv, Stored, Held
    <3> QED
      BY <3>1, <3>2
  <2> QED
    BY <2>2, <2>3 DEF FitInv
<1> QED
  BY <1>1, <1>2, <1>3, <1>4, <1>5, <1>6 DEF Next, Tick, Publish, Register, Step, vars

\* Every answer, cached or not, is one to the question asked.
THEOREM FittingAnswers == Spec => []AnswerFitsRequest
<1>1. Init => FitInv
  BY DEF Init, FitInv, EntryInv, SearchInv, AnswerFitsRequest, Stored, Held
<1>2. FitInv => AnswerFitsRequest
  BY DEF FitInv
<1> QED
  BY <1>1, <1>2, TypeCorrect, TypeInit, TypeNext, FitStep, PTL DEF Spec

-----------------------------------------------------------------------------
(* How stale an answer can be. *)

\* What is cached from an older index was stored no later than "settled"; a
\* call that began after that searches, and has searched, the current index.
StaleInv ==
    /\ settled <= now
    /\ \A k \in Stored : cache[k].payload.version # version => cache[k].ts <= settled
    /\ \A k \in Stored : cache[k].ts <= now /\ cache[k].payload.version <= version
    /\ \A t \in Threads :
          /\ call[t].began <= now /\ found[t].version <= version
          /\ pc[t] = "store" /\ call[t].began > settled => found[t].version = version

SettledInv == StaleInv /\ FreshOnceSettled

LEMMA SettledStep == TypeOK /\ TypeOK' /\ SettledInv /\ [Next]_vars => SettledInv'
<1> SUFFICES ASSUME TypeOK, TypeOK', SettledInv, [Next]_vars PROVE SettledInv'
  OBVIOUS
<1> USE QueryCacheAssumption
<1>0. /\ now \in Nat /\ version \in Nat /\ settled \in Nat
      /\ \A t \in Threads : call[t].began \in Nat /\ found[t].version \in Nat
      /\ \A k \in Stored : cache[k].ts \in Nat /\ cache[k].payload.version \in Nat
  BY DEF TypeOK, Entries, Payloads, Stored, Held
<1>1. CASE Tick
  <2>1. now' = now + 1 /\ UNCHANGED <<version, settled, cache, pc, call, found, answer>>
    BY <1>1 DEF Tick
  <2>2. StaleInv'
    BY <1>0, <2>1 DEF SettledInv, StaleInv, Stored, Held
  <2>3. FreshOnceSettled'
    BY <2>1 DEF SettledInv, FreshOnceSettled
  <2> QED
    BY <2>2, <2>3 DEF SettledInv
<1>2. CASE Publish
  <2>1. /\ version' = version + 1 /\ settled' = now
        /\ UNCHANGED <<now, cache, pc, call, found, answer>>
    BY <1>2 DEF Publish
  <2>2. \A t \in Threads : ~(call[t].began > settled')
    BY <1>0, <2>1 DEF SettledInv, StaleInv
  <2>3. \A k \in Stored : cache[k].ts <= now
    BY DEF SettledInv, StaleInv
  <2>4. StaleInv'
    BY <1>0, <2>1, <2>2, <2>3 DEF SettledInv, StaleInv, Stored, Held
  <2>5. FreshOnceSettled'
    BY <1>0, <2>1, <2>2, QueryCacheAssumption DEF FreshOnceSettled
  <2> QED
    BY <2>4, <2>5 DEF SettledInv
<1>3. ASSUME NEW p \in Projects, Register(p) PROVE SettledInv'
  <2>1. UNCHANGED <<now, version, settled, cache, pc, call, found, answer>>
    BY <1>3 DEF Register
  <2>2. StaleInv'
    BY <2>1 DEF SettledInv, StaleInv, Stored, Held
  <2>3. FreshOnceSettled'
    BY <2>1 DEF SettledInv, FreshOnceSettled
  <2> QED
    BY <2>2, <2>3 DEF SettledInv
<1>4. ASSUME NEW t \in Threads, NEW r \in Requests, Begin(t, r) PROVE SettledInv'
  <2>1. /\ UNCHANGED <<now, version, settled, cache, found, answer>>
        /\ pc'[t] = "resolve" /\ call'[t].began = now
        /\ \A u \in Threads \ {t} : pc'[u] = pc[u] /\ call'[u] = call[u]
    BY <1>4 DEF Begin, TypeOK
  <2>2. StaleInv'
    BY <1>0, <2>1 DEF SettledInv, StaleInv, Stored, Held
  <2>3. FreshOnceSettled'
    BY <2>1 DEF SettledInv, FreshOnceSettled
  <2> QED
    BY <2>2, <2>3 DEF SettledInv
<1>5. ASSUME NEW t \in Threads, Resolve(t) \/ Fail(t) \/ Return(t) PROVE SettledInv'
  <2>1. UNCHANGED <<now, version, settled, cache, call>> /\ pc'[t] \notin {"store", "answered"}
    BY <1>5 DEF Resolve, Fail, Return, TypeOK
  <2>2. /\ \A u \in Threads \ {t} : pc'[u] = pc[u] /\ found'[u] = found[u] /\ answer'[u] = answer[u]
        /\ found'[t] = found[t] \/ found'[t].version = 0
    BY <1>5 DEF Resolve, Fail, Return, TypeOK, NothingFound
  <2>3. StaleInv'
    BY <1>0, <2>1, <2>2 DEF SettledInv, StaleInv, Stored, Held
  <2>4. FreshOnceSettled'
    BY <2>1, <2>2 DEF SettledInv, FreshOnceSettled
  <2> QED
    BY <2>3, <2>4 DEF SettledInv
<1>6. ASSUME NEW t \in Threads, Search(t) \/ SearchUnscoped(t) \/ SearchRelaxed(t) \/ Prepare(t)
      PROVE SettledInv'
  <2>1. UNCHANGED <<now, version, settled, cache, call, answer>>
    BY <1>6 DEF Search, SearchUnscoped, SearchRelaxed, Prepare
  <2>2. \A u \in Threads \ {t} : pc'[u] = pc[u] /\ found'[u] = found[u]
    BY <1>6 DEF Search, SearchUnscoped, SearchRelaxed, Prepare, Searched, TypeOK
  <2>3. found'[t].version <= version /\ (pc'[t] = "store" => found'[t].version = version)
        /\ pc'[t] # "answered"
    <3>1. CASE Prepare(t)
      BY <1>0, <3>1 DEF Prepare, TypeOK, NothingFound
    <3>2. CASE Search(t) \/ SearchUnscoped(t) \/ SearchRelaxed(t)
      BY <1>0, <3>2 DEF Search, SearchUnscoped, SearchRelaxed, Searched, TypeOK, Relax
    <3> QED
      BY <1>6, <3>1, <3>2
  <2> QED
    BY <2>1, <2>2, <2>3 DEF SettledInv, StaleInv, FreshOnceSettled, Stored, Held
<1>7. ASSUME NEW t \in Threads, LookUp(t) PROVE SettledInv'
  <2>0. Req(t) \in Requests /\ UNCHANGED <<now, version, settled, call, found>>
    BY <1>7 DEF TypeOK, Req, LookUp
  <2>1. CASE CacheKey(Req(t)) = NoKey
    BY <1>7, <2>1 DEF LookUp, SettledInv, StaleInv, FreshOnceSettled, Stored, Held, TypeOK
  <2>2. CASE CacheKey(Req(t)) # NoKey
    <3> DEFINE k == CacheKey(Req(t))
    <3>1. k \in Keys /\ GetCached(k)
      BY <1>7, <2>0, <2>2, KeyTyped DEF LookUp
    <3>2. \A u \in Threads : pc'[u] = "store" => pc[u] = "store"
      BY <1>7, <2>2 DEF LookUp, TypeOK
    <3>3. StaleInv'
      BY <2>0, <3>1, <3>2, GetCachedTyped DEF SettledInv, StaleInv, Stored, Held
    <3>4. CASE cache'[k] = NoEntry
      BY <1>7, <2>0, <2>2, <3>3, <3>4 DEF LookUp, SettledInv, FreshOnceSettled, TypeOK
    <3>5. CASE cache'[k] # NoEntry
      <4>1. k \in Stored /\ now - cache[k].ts <= TTL
        BY <1>0, <3>1, <3>5, GetCachedTyped DEF Expired
      <4>2. answer' = [answer EXCEPT ![t] = cache[k].payload] /\ pc' = [pc EXCEPT ![t] = "answered"]
        BY <1>7, <2>2, <3>5 DEF LookUp
      <4>3. call[t].began > settled + TTL => cache[k].payload.version = version
        BY <1>0, <4>1 DEF SettledInv, StaleInv
      <4> QED
        BY <2>0, <3>3, <4>2, <4>3 DEF SettledInv, FreshOnceSettled, TypeOK
    <3> QED
      BY <3>4, <3>5
  <2> QED
    BY <2>1, <2>2
<1>8. ASSUME NEW t \in Threads, Store(t) PROVE SettledInv'
  <2>0. /\ UNCHANGED <<now, version, call, found>> /\ pc[t] = "store"
        /\ Payload(t).version = found[t].version
        /\ answer' = [answer EXCEPT ![t] = Payload(t)] /\ pc' = [pc EXCEPT ![t] = "answered"]
    BY <1>8 DEF Store, Payload
  <2>1. settled <= settled' /\ settled' <= now
        /\ (\A k \in Stored' : cache'[k].payload.version <= version /\ cache'[k].ts <= now
              /\ (cache'[k].payload.version # version => cache'[k].ts <= settled'))
    <3>1. CASE UNCHANGED <<cache, settled>>
      BY <1>0, <3>1 DEF SettledInv, StaleInv, Stored, Held
    <3>2. CASE ~UNCHANGED <<cache, settled>>
      <4>1. CacheKey(Req(t)) \in Keys /\ settled' = IF found[t].version < version THEN now ELSE settled
        BY <1>8, <3>2, StoreCases
      <4>2. PICK c \in Evict(cache) :
              cache' = [c EXCEPT ![CacheKey(Req(t))] = [payload |-> Payload(t), ts |-> now]]
        BY <1>8, <3>2, StoreCases
      <4>3. c \in [Keys -> Entries \cup {NoEntry}]
            /\ \A k \in Keys : c[k] = cache[k] \/ c[k] = NoEntry
        BY <4>2, EvictTyped DEF TypeOK
      <4>4. settled <= settled' /\ settled' <= now
        BY <1>0, <4>1 DEF SettledInv, StaleInv
      <4>5. ASSUME NEW k \in Stored'
            PROVE  /\ cache'[k].payload.version <= version
                   /\ cache'[k].ts <= now
                   /\ cache'[k].payload.version # version => cache'[k].ts <= settled'
        <5>1. CASE k = CacheKey(Req(t))
          <6>1. cache'[k].payload.version = found[t].version /\ cache'[k].ts = now
            BY <2>0, <4>1, <4>2, <4>3, <5>1
          <6>2. found[t].version <= version
            BY DEF SettledInv, StaleInv
          <6> QED
            BY <1>0, <4>1, <6>1, <6>2
        <5>2. CASE k # CacheKey(Req(t))
          <6>1. k \in Stored /\ cache'[k] = cache[k]
            BY <4>2, <4>3, <5>2 DEF Stored, Held
          <6> QED
            BY <1>0, <4>1, <4>4, <6>1 DEF SettledInv, StaleInv
        <5> QED
          BY <5>1, <5>2
      <4> QED
        BY <4>4, <4>5
    <3> QED
      BY <3>1, <3>2
  <2>2. settled' \in Nat
    BY DEF TypeOK
  <2>3. StaleInv'
    BY <1>0, <2>0, <2>1, <2>2 DEF SettledInv, StaleInv, TypeOK
  <2>4. FreshOnceSettled'
    BY <1>0, <2>0, <2>1, <2>2 DEF SettledInv, StaleInv, FreshOnceSettled, TypeOK
  <2> QED
    BY <2>3, <2>4 DEF SettledInv
<1>9. CASE UNCHANGED vars
  BY <1>9 DEF vars, SettledInv, StaleInv, FreshOnceSettled, Stored, Held
<1> QED
  BY <1>1, <1>2, <1>3, <1>4, <1>5, <1>6, <1>7, <1>8, <1>9 DEF Next, Step

\* Once index and cache have settled for longer than the TTL, answers are current.
THEOREM BoundedStaleness == Spec => []FreshOnceSettled
<1>1. Init => SettledInv
  BY DEF Init, SettledInv, StaleInv, FreshOnceSettled, Stored, Held, NothingFound
<1>2. SettledInv => FreshOnceSettled
  BY DEF SettledInv
<1> QED
  BY <1>1, <1>2, TypeCorrect, TypeInit, TypeNext, SettledStep, PTL DEF Spec

-----------------------------------------------------------------------------
\* Past Resolve, a thread's project was registered during the call.
SeenInv == \A t \in Threads :
    /\ pc[t] \notin {"idle", "resolve", "failed"} => seen[t]
    /\ pc[t] = "resolve" /\ Req(t).project \in registered => seen[t]

LEMMA SeenStep == TypeOK /\ SeenInv /\ [Next]_vars => SeenInv'
<1> SUFFICES ASSUME TypeOK, SeenInv, [Next]_vars PROVE SeenInv'
  OBVIOUS
<1>1. ASSUME NEW p \in Projects, Register(p) PROVE SeenInv'
  BY <1>1 DEF Register, SeenInv, Req, TypeOK
<1>2. ASSUME NEW t \in Threads, NEW r \in Requests, Begin(t, r) PROVE SeenInv'
  BY <1>2 DEF Begin, SeenInv, Req, TypeOK
<1>3. ASSUME NEW t \in Threads, Resolve(t) \/ Fail(t) \/ Return(t) PROVE SeenInv'
  BY <1>3 DEF Resolve, Fail, Return, SeenInv, Req, TypeOK
<1>4. ASSUME NEW t \in Threads,
             LookUp(t) \/ Prepare(t) \/ Search(t) \/ SearchUnscoped(t) \/ SearchRelaxed(t) \/ Store(t)
      PROVE SeenInv'
  <2>1. UNCHANGED <<registered, call, seen>> /\ seen[t]
    BY <1>4 DEF LookUp, Prepare, Search, SearchUnscoped, SearchRelaxed, Store, SeenInv
  <2>2. pc'[t] # "resolve" /\ \A u \in Threads \ {t} : pc'[u] = pc[u]
    BY <1>4 DEF LookUp, Prepare, Search, SearchUnscoped, SearchRelaxed, Store, TypeOK, Relax
  <2> QED
    BY <2>1, <2>2 DEF SeenInv, Req
<1>5. CASE Tick \/ Publish \/ UNCHANGED vars
  BY <1>5 DEF Tick, Publish, vars, SeenInv, Req
<1> QED
  BY <1>1, <1>2, <1>3, <1>4, <1>5 DEF Next, Step

\* No answer for a project that was not registered at some time of the call.
THEOREM RegisteredAnswers == Spec => []OnlyRegisteredAnswered
<1>1. Init => SeenInv
  BY DEF Init, SeenInv
<1>2. SeenInv => OnlyRegisteredAnswered
  BY DEF SeenInv, OnlyRegisteredAnswered
<1> QED
  BY <1>1, <1>2, TypeCorrect, SeenStep, PTL DEF Spec
=============================================================================
