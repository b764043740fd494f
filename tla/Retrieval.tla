----------------------------- MODULE Retrieval -----------------------------
(***************************************************************************)
(* One search: retrieve_v2 with its two queries, each of which sees the    *)
(* index as it is then, the merge, the loop that picks the results, and    *)
(* the loop of format_context that fits them into max_chars.  Ingest runs  *)
(* replace documents meanwhile.  Distances, ranks, weights and lengths are *)
(* small integers; equal scores are taken in any order.                    *)
(*                                                                         *)
(* Operators named IndexedLeftOver, PickAnyNext and FormatUnseparated are  *)
(* deliberate defects that nothing uses; PROJECT.json names the property   *)
(* that each breaks.                                                       *)
(***************************************************************************)
EXTENDS Naturals, Integers, Sequences, FiniteSets

CONSTANTS
    Docs,           \* documents in the scope of the search
    Chunks,         \* chunks of all their versions; a chunk_id is never reused
    DocOf,          \* chunk -> its document
    VersionOf,      \* chunk -> the version of its document
    Corpora,        \* what chunks may be like, for the query at hand
    VectorWeight, KeywordWeight, HeaderPenalty, MinScore,
    TopK,           \* top_k
    MaxPerDoc,      \* max_chunks_per_doc
    MaxChars,       \* max_chars
    LastVersion     \* bound: versions of a document

\* Fields of a corpus, functions of the chunk: text (text_hash), close (1 -
\* distance, at least 0), rank (0 without a match), header (is_header), size
\* (length of the block in the context).
ASSUME RetrievalAssumption ==
    /\ IsFiniteSet(Chunks)
    /\ DocOf \in [Chunks -> Docs] /\ VersionOf \in [Chunks -> Nat]
    /\ \A q \in Corpora :
          /\ q.close \in [Chunks -> Nat] /\ q.rank \in [Chunks -> Nat]
          /\ q.header \in [Chunks -> BOOLEAN] /\ q.size \in [Chunks -> Nat \ {0}]
    /\ VectorWeight \in Nat /\ KeywordWeight \in Nat /\ HeaderPenalty \in Nat /\ MinScore \in Nat
    /\ TopK \in Nat \ {0} /\ MaxPerDoc \in Nat /\ MaxChars \in Nat \ {0} /\ LastVersion \in Nat

VARIABLES
    corpus,     \* what the chunks are like
    version,    \* document -> its version in the index
    pc,         \* where the search is
    hasText,    \* there is a query_text, and not only a vector
    vectorHits, \* chunks that query_vector returned
    keywordHits,\* chunks that query_keyword returned
    left,       \* merged candidates that the loop has not looked at
    deduped,    \* results, in order
    perDoc,     \* per_doc of the loop: document -> results
    next,       \* position of the result that format_context looks at
    blocks,     \* length of each block in the context
    total,      \* total of format_context
    length,     \* length of the context so far
    replaced    \* history: documents replaced between the two queries

index == <<corpus, version, replaced>>
hits == <<hasText, vectorHits, keywordHits>>
picked == <<left, deduped, perDoc>>
context == <<next, blocks, total, length>>

vars == <<index, pc, hits, picked, context>>

TypeOK ==
    /\ corpus \in Corpora
    /\ version \in [Docs -> 0..LastVersion]
    /\ pc \in {"vector", "keyword", "merge", "pick", "format", "done"}
    /\ hasText \in BOOLEAN
    /\ vectorHits \subseteq Chunks /\ keywordHits \subseteq Chunks /\ left \subseteq Chunks
    /\ deduped \in Seq(Chunks)
    /\ perDoc \in [Docs -> Nat]
    /\ next \in Nat \ {0} /\ blocks \in Seq(Nat) /\ total \in Nat /\ length \in Nat
    /\ replaced \subseteq Docs

Init ==
    /\ corpus \in Corpora
    /\ version = [d \in Docs |-> 0]
    /\ pc = "vector" /\ hasText \in BOOLEAN
    /\ vectorHits = {} /\ keywordHits = {} /\ left = {}
    /\ deduped = <<>> /\ perDoc = [d \in Docs |-> 0]
    /\ next = 1 /\ blocks = <<>> /\ total = 0 /\ length = 0
    /\ replaced = {}

\* The chunks of an earlier version are left behind.
IndexedLeftOver == {c \in Chunks : VersionOf[c] <= version[DocOf[c]]}

\* Chunks of the documents in the index; a version without chunks is a
\* document that has gone.
Indexed == {c \in Chunks : VersionOf[c] = version[DocOf[c]]}

\* An ingest run commits a document.
Replace(d) ==
    /\ version[d] < LastVersion /\ pc \in {"vector", "keyword"}
    /\ version' = [version EXCEPT ![d] = @ + 1]
    /\ replaced' = IF pc = "keyword" THEN replaced \cup {d} ELSE replaced
    /\ UNCHANGED <<corpus, pc, hits, picked, context>>

-----------------------------------------------------------------------------
(* The two queries *)

CandidateK == 4 * TopK

\* ORDER BY key LIMIT k: the best ones, whichever of equal ones.
Best(S, key, k) ==
    {T \in SUBSET S : /\ Cardinality(T) = IF Cardinality(S) < k THEN Cardinality(S) ELSE k
                      /\ \A t \in T, s \in S \ T : key[t] >= key[s]}

QueryVector ==
    /\ pc = "vector"
    /\ vectorHits' \in Best(Indexed, corpus.close, CandidateK)
    /\ pc' = "keyword"
    /\ UNCHANGED <<index, hasText, keywordHits, picked, context>>

\* Another statement, hence another snapshot of the index.
QueryKeyword ==
    /\ pc = "keyword"
    /\ keywordHits' \in IF hasText THEN Best({c \in Indexed : corpus.rank[c] > 0}, corpus.rank, CandidateK)
                        ELSE {{}}
    /\ pc' = "merge"
    /\ UNCHANGED <<index, hasText, vectorHits, picked, context>>

-----------------------------------------------------------------------------
(* The merge by chunk_id, and the scores *)

\* The best rank counts as 1: ranks are compared in units of it.
MaxRank ==
    IF keywordHits = {} THEN 1
    ELSE CHOOSE r \in {corpus.rank[c] : c \in keywordHits} : \A c \in keywordHits : r >= corpus.rank[c]

\* vector_weight * score_vector + keyword_weight * score_keyword, times MaxRank.
MergedScore(c) ==
    (IF c \in vectorHits THEN MaxRank * VectorWeight * corpus.close[c] ELSE 0)
      + (IF c \in keywordHits THEN KeywordWeight * corpus.rank[c] ELSE 0)

\* A header chunk is moved down, not below zero.
Score(c) ==
    IF corpus.header[c]
    THEN IF MergedScore(c) > MaxRank * HeaderPenalty THEN MergedScore(c) - MaxRank * HeaderPenalty
         ELSE 0
    ELSE MergedScore(c)

Merge ==
    /\ pc = "merge"
    /\ left' = {c \in vectorHits \cup keywordHits : Score(c) >= MaxRank * MinScore}
    /\ pc' = "pick"
    /\ UNCHANGED <<index, hits, deduped, perDoc, context>>

-----------------------------------------------------------------------------
(* The loop over the sorted candidates *)

Listed == {deduped[i] : i \in DOMAIN deduped}
SeenHashes == {corpus.text[c] : c \in Listed}
Taken(c) == corpus.text[c] \notin SeenHashes /\ perDoc[DocOf[c]] < MaxPerDoc

\* The first of a text is kept, up to MaxPerDoc of a document and TopK in all.
Pick(c) ==
    /\ left' = left \ {c}
    /\ IF Taken(c)
       THEN /\ deduped' = Append(deduped, c)
            /\ perDoc' = [perDoc EXCEPT ![DocOf[c]] = @ + 1]
            /\ pc' = IF Len(deduped) + 1 >= TopK THEN "format" ELSE pc
       ELSE UNCHANGED <<deduped, perDoc, pc>>
    /\ UNCHANGED <<index, hits, context>>

\* The candidates are not sorted.
PickAnyNext(c) == pc = "pick" /\ c \in left

\* Next in descending order of score.
IsNext(c) == pc = "pick" /\ c \in left /\ \A d \in left : Score(c) >= Score(d)

NoMoreCandidates ==
    /\ pc = "pick" /\ left = {}
    /\ pc' = "format"
    /\ UNCHANGED <<index, hits, picked, context>>

-----------------------------------------------------------------------------
(* format_context; no chunk of the index is blank *)

Budget(size) == IF size < MaxChars THEN size ELSE MaxChars

\* The blank line between two blocks is not counted.
FormatUnseparated ==
    /\ pc = "format"
    /\ IF next > Len(deduped) THEN pc' = "done" /\ UNCHANGED context
       ELSE IF total + corpus.size[deduped[next]] > MaxChars /\ blocks # <<>>
       THEN pc' = "done" /\ UNCHANGED context
       ELSE LET size == Budget(corpus.size[deduped[next]]) IN
            /\ blocks' = Append(blocks, size)
            /\ length' = IF blocks = <<>> THEN size ELSE length + 2 + size
            /\ total' = total + size
            /\ next' = next + 1
            /\ pc' = IF total + size >= MaxChars THEN "done" ELSE pc
    /\ UNCHANGED <<index, hits, picked>>

\* A block that does not fit ends the context, unless it is the first, which
\* is cut; total counts the blank line that would follow.
Format ==
    /\ pc = "format"
    /\ IF next > Len(deduped) THEN pc' = "done" /\ UNCHANGED context
       ELSE IF total + corpus.size[deduped[next]] > MaxChars /\ blocks # <<>>
       THEN pc' = "done" /\ UNCHANGED context
       ELSE LET size == Budget(corpus.size[deduped[next]]) IN
            /\ blocks' = Append(blocks, size)
            /\ length' = IF blocks = <<>> THEN size ELSE length + 2 + size
            /\ total' = total + size + 2
            /\ next' = next + 1
            /\ pc' = IF total + size + 2 >= MaxChars THEN "done" ELSE pc
    /\ UNCHANGED <<index, hits, picked>>

-----------------------------------------------------------------------------
Next ==
    \/ \E d \in Docs : Replace(d)
    \/ QueryVector \/ QueryKeyword \/ Merge
    \/ \E c \in left : IsNext(c) /\ Pick(c)
    \/ NoMoreCandidates \/ Format

Spec == Init /\ [][Next]_vars

-----------------------------------------------------------------------------
(* Properties *)

\* The caps hold although the hits come from two queries and, when a document
\* is replaced in between, from two of its versions: at most TopK results, at
\* most MaxPerDoc of a document, no text twice.
CapsHold ==
    /\ Len(deduped) <= TopK
    /\ \A d \in Docs : Cardinality({i \in DOMAIN deduped : DocOf[deduped[i]] = d}) <= MaxPerDoc
    /\ \A i, j \in DOMAIN deduped : corpus.text[deduped[i]] = corpus.text[deduped[j]] => i = j

\* What the results should be: the candidates in descending order of score,
\* and whoever is left out is out for a reason that outranks it: its text, or
\* MaxPerDoc chunks of its document, or TopK results, with scores at least as
\* high.
Candidates == {c \in vectorHits \cup keywordHits : Score(c) >= MaxRank * MinScore}
Above(c) == {i \in DOMAIN deduped : Score(deduped[i]) >= Score(c)}
Outranked(c) ==
    \/ \E i \in Above(c) : corpus.text[deduped[i]] = corpus.text[c]
    \/ Cardinality({i \in Above(c) : DocOf[deduped[i]] = DocOf[c]}) >= MaxPerDoc
    \/ Cardinality(Above(c)) >= TopK
ResultsAreBest ==
    pc \in {"format", "done"} =>
        /\ Listed \subseteq Candidates
        /\ \A i, j \in DOMAIN deduped : i <= j => Score(deduped[i]) >= Score(deduped[j])
        /\ \A c \in Candidates \ Listed : Outranked(c)

\* Results show two versions of a document only if it was replaced between
\* the two queries; a result of an older version is one of the vector query.
VersionsMixOnlyInBetween ==
    /\ \A c \in Listed : VersionOf[c] # version[DocOf[c]] =>
          DocOf[c] \in replaced /\ c \in vectorHits
    /\ \A c, e \in Listed : DocOf[c] = DocOf[e] /\ DocOf[c] \notin replaced =>
          VersionOf[c] = VersionOf[e]

ContextFits == length <= MaxChars
ContextIsMaximal ==
    pc = "done" =>
        /\ \A i \in DOMAIN blocks : blocks[i] = corpus.size[deduped[i]] \/ (i = 1 /\ blocks[i] = MaxChars)
        /\ Len(blocks) < Len(deduped) =>
             length + 2 + corpus.size[deduped[Len(blocks) + 1]] > MaxChars

\* The context never exceeds max_chars, separators included, and is the
\* longest run of whole results that fits; only a first block may be cut.
ContextFilled == ContextFits /\ ContextIsMaximal
=============================================================================
