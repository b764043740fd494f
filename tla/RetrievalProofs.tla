-------------------------- MODULE RetrievalProofs --------------------------
(***************************************************************************)
(* Theorems about Retrieval, for any index, query, weights and limits.     *)
(***************************************************************************)
EXTENDS Retrieval, FiniteSetTheorems, WellFoundedInduction, TLAPS

-----------------------------------------------------------------------------
(* The best rank exists *)

IsMax(S, m) == m \in S /\ \A x \in S : m >= x

\* Induction over finite sets, as the well-foundedness of inclusion.
LEMMA FiniteMax ==
  ASSUME NEW S \in SUBSET Nat, IsFiniteSet(S), S # {}
  PROVE  \E m \in S : IsMax(S, m)
<1> DEFINE F == FiniteSubsetsOf(S)
           R == StrictSubsetOrdering(S)
           T == {U \in F : U # {} /\ ~ \E m \in U : IsMax(U, m)}
<1>1. S \in F
  BY DEF FiniteSubsetsOf
<1>2. SUFFICES T = {}
  BY <1>1
<1>3. SUFFICES ASSUME T # {} PROVE FALSE
  OBVIOUS
<1>4. IsWellFoundedOn(R, F)
  BY FS_StrictSubsetOrderingWellFounded
<1>5. PICK U \in T : \A V \in T : ~ (<<V, U>> \in R)
  <2>1. T \subseteq F
    OBVIOUS
  <2> HIDE DEF T, R, F
  <2> QED
    BY <1>3, <1>4, <2>1, WFMin
<1>6. PICK x \in U : TRUE
  BY <1>5
<1>7. U \subseteq Nat /\ IsFiniteSet(U) /\ U \subseteq S
  BY <1>5 DEF FiniteSubsetsOf
<1>8. IsFiniteSet(U \ {x})
  BY <1>7, FS_RemoveElement
<1>9. CASE U \ {x} = {}
  <2>1. IsMax(U, x)
    BY <1>6, <1>7, <1>9 DEF IsMax
  <2> QED
    BY <1>5, <1>6, <2>1
<1>10. CASE U \ {x} # {}
  <2>1. U \ {x} \in F
    BY <1>7, <1>8 DEF FiniteSubsetsOf
  <2>2. <<U \ {x}, U>> \in R
    BY <1>6, <1>7, <2>1 DEF StrictSubsetOrdering
  <2>3. U \ {x} \notin T
    BY <1>5, <2>2
  <2>4. PICK m \in U \ {x} : IsMax(U \ {x}, m)
    BY <1>10, <2>1, <2>3
  <2>5. CASE m >= x
    <3>1. IsMax(U, m)
      BY <1>7, <2>4, <2>5 DEF IsMax
    <3> QED
      BY <1>5, <2>4, <3>1
  <2>6. CASE ~(m >= x)
    <3>1. IsMax(U, x)
      BY <1>6, <1>7, <2>4, <2>6 DEF IsMax
    <3> QED
      BY <1>5, <1>6, <3>1
  <2> QED
    BY <2>5, <2>6
<1> QED
  BY <1>9, <1>10

LEMMA MaxRankTyped == TypeOK => MaxRank \in Nat
<1> SUFFICES ASSUME TypeOK PROVE MaxRank \in Nat
  OBVIOUS
<1>1. CASE keywordHits = {}
  BY <1>1 DEF MaxRank
<1>2. CASE keywordHits # {}
  <2> DEFINE S == {corpus.rank[c] : c \in keywordHits}
  <2>1. keywordHits \subseteq Chunks /\ corpus.rank \in [Chunks -> Nat]
    BY RetrievalAssumption DEF TypeOK
  <2>2. S \in SUBSET Nat /\ S # {}
    BY <1>2, <2>1
  <2>3. IsFiniteSet(keywordHits)
    BY <2>1, RetrievalAssumption, FS_Subset
  <2>4. IsFiniteSet(S)
    <3> DEFINE f == [c \in keywordHits |-> corpus.rank[c]]
    <3>1. f \in Surjection(keywordHits, S)
      BY <2>1 DEF Surjection
    <3> QED
      BY <2>3, <3>1, FS_Surjection
  <2>5. PICK m \in S : IsMax(S, m)
    <3> HIDE DEF S
    <3> QED
      BY <2>2, <2>4, FiniteMax
  <2>6. \A c \in keywordHits : m >= corpus.rank[c]
    BY <2>5 DEF IsMax
  <2>7. MaxRank \in S
    BY <1>2, <2>5, <2>6 DEF MaxRank
  <2> QED
    BY <2>2, <2>7
<1> QED
  BY <1>1, <1>2

Scores == [c \in Chunks |-> Score(c)]

LEMMA ScoresTyped == TypeOK => Scores \in [Chunks -> Int]
<1> SUFFICES ASSUME TypeOK, NEW c \in Chunks PROVE Score(c) \in Int
  BY DEF Scores
<1>1. MaxRank \in Nat
  BY MaxRankTyped
<1>2. corpus.close[c] \in Nat /\ corpus.rank[c] \in Nat
  BY RetrievalAssumption DEF TypeOK
<1>3. VectorWeight \in Nat /\ KeywordWeight \in Nat /\ HeaderPenalty \in Nat
  BY RetrievalAssumption
<1>4. MaxRank * VectorWeight * corpus.close[c] \in Int /\ KeywordWeight * corpus.rank[c] \in Int
  BY <1>1, <1>2, <1>3
<1>5. MergedScore(c) \in Int
  BY <1>4 DEF MergedScore
<1>6. MaxRank * HeaderPenalty \in Int
  BY <1>1, <1>3
<1> QED
  BY <1>5, <1>6 DEF Score

\* The scores are a function of what the loop does not change.
LEMMA ScoresKept ==
  ASSUME UNCHANGED <<corpus, vectorHits, keywordHits>>
  PROVE  Scores' = Scores /\ MaxRank' = MaxRank
<1>1. MaxRank' = MaxRank
  BY DEF MaxRank
<1>2. Scores' = Scores
  BY <1>1 DEF Scores, Score, MergedScore
<1> QED
  BY <1>1, <1>2

-----------------------------------------------------------------------------
(* Types *)

LEMMA BestTyped == ASSUME NEW S, NEW key, NEW k PROVE \A T \in Best(S, key, k) : T \subseteq S
  BY DEF Best

LEMMA TypeInit == Init => TypeOK
  BY RetrievalAssumption DEF Init, TypeOK

LEMMA BudgetTyped ==
  ASSUME NEW n \in Nat
  PROVE  Budget(n) \in Nat /\ Budget(n) <= MaxChars /\ (n <= MaxChars => Budget(n) = n)
         /\ (n > MaxChars => Budget(n) = MaxChars)
  BY RetrievalAssumption DEF Budget

\* What one round of the loop of format_context does.
Fits == total + corpus.size[deduped[next]] <= MaxChars \/ blocks = <<>>
FormatAdds(size) ==
  /\ size \in Nat /\ size <= MaxChars
  /\ corpus.size[deduped[next]] <= MaxChars => size = corpus.size[deduped[next]]
  /\ corpus.size[deduped[next]] > MaxChars => size = MaxChars
  /\ blocks' = Append(blocks, size)
  /\ length' = IF blocks = <<>> THEN size ELSE length + 2 + size
  /\ total' = total + size + 2
  /\ next' = next + 1
  /\ pc' = IF total + size + 2 >= MaxChars THEN "done" ELSE "format"

LEMMA FormatCases ==
  ASSUME TypeOK, Format
  PROVE  /\ UNCHANGED <<index, hits, picked>>
         /\ \/ pc' = "done" /\ UNCHANGED context /\ next > Len(deduped)
            \/ pc' = "done" /\ UNCHANGED context /\ next \in DOMAIN deduped /\ ~Fits
            \/ next \in DOMAIN deduped /\ Fits /\ FormatAdds(Budget(corpus.size[deduped[next]]))
<1>1. UNCHANGED <<index, hits, picked>>
  BY DEF Format
<1>2. CASE next > Len(deduped)
  BY <1>1, <1>2 DEF Format
<1>3. CASE ~(next > Len(deduped))
  <2> DEFINE n == corpus.size[deduped[next]]
  <2>1. next \in DOMAIN deduped
    BY <1>3 DEF TypeOK
  <2>2. n \in Nat
    BY <2>1, RetrievalAssumption DEF TypeOK
  <2>3. total \in Nat /\ MaxChars \in Nat
    BY RetrievalAssumption DEF TypeOK
  <2>4. CASE total + n > MaxChars /\ blocks # <<>>
    BY <1>1, <1>3, <2>1, <2>2, <2>3, <2>4 DEF Format, Fits
  <2>5. CASE ~(total + n > MaxChars /\ blocks # <<>>)
    <3>1. Fits
      BY <2>2, <2>3, <2>5 DEF Fits
    <3>2. FormatAdds(Budget(n))
      <4>1. Budget(n) \in Nat /\ Budget(n) <= MaxChars /\ (n <= MaxChars => Budget(n) = n)
            /\ (n > MaxChars => Budget(n) = MaxChars)
        BY <2>2, BudgetTyped
      <4>2. /\ blocks' = Append(blocks, Budget(n))
            /\ length' = IF blocks = <<>> THEN Budget(n) ELSE length + 2 + Budget(n)
            /\ total' = total + Budget(n) + 2
            /\ next' = next + 1
            /\ pc' = IF total + Budget(n) + 2 >= MaxChars THEN "done" ELSE "format"
        BY <1>3, <2>5 DEF Format
      <4> QED
        BY <4>1, <4>2 DEF FormatAdds
    <3> QED
      BY <1>1, <2>1, <3>1, <3>2
  <2> QED
    BY <2>4, <2>5
<1> QED
  BY <1>2, <1>3

\* What one round of the loop over the candidates does.
PickTakes(c) ==
  /\ left' = left \ {c}
  /\ deduped' = Append(deduped, c)
  /\ perDoc' = [perDoc EXCEPT ![DocOf[c]] = perDoc[DocOf[c]] + 1]
  /\ pc' = IF Len(deduped) + 1 >= TopK THEN "format" ELSE pc

LEMMA PickCases ==
  ASSUME NEW c, Pick(c)
  PROVE  /\ UNCHANGED <<index, hits, context>>
         /\ Taken(c) => PickTakes(c)
         /\ ~Taken(c) => left' = left \ {c} /\ UNCHANGED <<deduped, perDoc, pc>>
  BY DEF Pick, PickTakes

LEMMA TypeNext == TypeOK /\ [Next]_vars => TypeOK'
<1> SUFFICES ASSUME TypeOK, [Next]_vars PROVE TypeOK'
  OBVIOUS
<1> USE RetrievalAssumption
<1>1. ASSUME NEW d \in Docs, Replace(d) PROVE TypeOK'
  BY <1>1 DEF Replace, TypeOK, hits, picked, context
<1>2. CASE QueryVector
  <2>1. vectorHits' \subseteq Chunks
    BY <1>2, BestTyped DEF QueryVector, Indexed
  <2> QED
    BY <1>2, <2>1 DEF QueryVector, TypeOK, index, picked, context
<1>3. CASE QueryKeyword
  <2>1. keywordHits' \subseteq Chunks
    BY <1>3, BestTyped DEF QueryKeyword, Indexed
  <2> QED
    BY <1>3, <2>1 DEF QueryKeyword, TypeOK, index, picked, context
<1>4. CASE Merge
  BY <1>4 DEF Merge, TypeOK, index, hits, context
<1>5. ASSUME NEW c \in left, IsNext(c), Pick(c) PROVE TypeOK'
  <2>1. c \in Chunks /\ DocOf[c] \in Docs
    BY DEF TypeOK
  <2>2. CASE Taken(c)
    <3>0. PickTakes(c)
      BY <1>5, <2>2, PickCases
    <3>1. deduped' \in Seq(Chunks) /\ left' \subseteq Chunks
      BY <2>1, <3>0 DEF PickTakes, TypeOK
    <3>2. perDoc' \in [Docs -> Nat]
      <4>1. perDoc \in [Docs -> Nat] /\ perDoc[DocOf[c]] + 1 \in Nat
        BY <2>1 DEF TypeOK
      <4> QED
        BY <3>0, <4>1 DEF PickTakes
    <3>3. pc' \in {pc, "format"}
      BY <3>0 DEF PickTakes
    <3> QED
      BY <1>5, <3>1, <3>2, <3>3 DEF Pick, TypeOK, index, hits, context
  <2>3. CASE ~Taken(c)
    BY <1>5, <2>1, <2>3 DEF Pick, TypeOK, index, hits, context
  <2> QED
    BY <2>2, <2>3
<1>6. CASE NoMoreCandidates
  BY <1>6 DEF NoMoreCandidates, TypeOK, index, hits, picked, context
<1>7. CASE Format
  <2>1. CASE UNCHANGED context
    <3>1. pc' \in {"format", "done"}
      BY <1>7, FormatCases DEF FormatAdds
    <3> QED
      BY <1>7, <2>1, <3>1, FormatCases DEF TypeOK, index, hits, picked, context
  <2>2. CASE ~ UNCHANGED context
    <3>1. PICK size \in Nat : FormatAdds(size)
      BY <1>7, <2>2, FormatCases DEF FormatAdds
    <3>2. next' \in Nat \ {0} /\ blocks' \in Seq(Nat) /\ total' \in Nat /\ length' \in Nat
      BY <3>1 DEF FormatAdds, TypeOK
    <3>3. pc' \in {"format", "done"}
      BY <3>1 DEF FormatAdds
    <3> QED
      BY <1>7, <3>2, <3>3, FormatCases DEF TypeOK, index, hits, picked
  <2> QED
    BY <2>1, <2>2
<1>8. CASE UNCHANGED vars
  BY <1>8 DEF vars, index, hits, picked, context, TypeOK
<1> QED
  BY <1>1, <1>2, <1>3, <1>4, <1>5, <1>6, <1>7, <1>8 DEF Next

\* Scores, counts and lengths stay what the settings and the index make them.
THEOREM TypeCorrect == Spec => []TypeOK
<1>1. Init => TypeOK
  BY TypeInit
<1>2. TypeOK /\ [Next]_vars => TypeOK'
  BY TypeNext
<1> QED
  BY <1>1, <1>2, PTL DEF Spec

-----------------------------------------------------------------------------
(* The caps *)

Of(q, d) == {i \in DOMAIN q : DocOf[q[i]] = d}

LEMMA OfAppended ==
  ASSUME NEW q \in Seq(Chunks), NEW c \in Chunks, NEW d
  PROVE  /\ IsFiniteSet(Of(q, d)) /\ Cardinality(Of(q, d)) \in Nat
         /\ Cardinality(Of(Append(q, c), d)) = Cardinality(Of(q, d)) + IF DocOf[c] = d THEN 1 ELSE 0
<1>1. Of(q, d) \subseteq 1..Len(q) /\ Len(q) \in Nat
  BY DEF Of
<1>2. IsFiniteSet(Of(q, d))
  <2>1. IsFiniteSet(1..Len(q))
    BY <1>1, FS_Interval
  <2> QED
    BY <1>1, <2>1, FS_Subset
<1>3. Of(Append(q, c), d) = IF DocOf[c] = d THEN Of(q, d) \cup {Len(q) + 1} ELSE Of(q, d)
  BY DEF Of
<1>4. Len(q) + 1 \notin Of(q, d)
  BY <1>1
<1>5. Cardinality(Of(q, d)) \in Nat
  BY <1>2, FS_CardinalityType
<1>6. Cardinality(Of(q, d) \cup {Len(q) + 1}) = Cardinality(Of(q, d)) + 1
  BY <1>2, <1>4, FS_AddElement
<1> QED
  BY <1>2, <1>3, <1>5, <1>6

\* per_doc counts the results of each document, and the loop stops in time.
CapsInv ==
  /\ pc \in {"vector", "keyword", "merge"} => deduped = <<>>
  /\ Len(deduped) <= TopK
  /\ pc = "pick" => Len(deduped) < TopK
  /\ \A d \in Docs : perDoc[d] = Cardinality(Of(deduped, d)) /\ perDoc[d] <= MaxPerDoc
  /\ \A i, j \in DOMAIN deduped : corpus.text[deduped[i]] = corpus.text[deduped[j]] => i = j

LEMMA CapsInit == Init => CapsInv
<1> SUFFICES ASSUME Init PROVE CapsInv
  OBVIOUS
<1>1. \A d \in Docs : Of(deduped, d) = {} /\ perDoc[d] = 0
  BY DEF Init, Of
<1>2. \A d \in Docs : perDoc[d] = Cardinality(Of(deduped, d)) /\ perDoc[d] <= MaxPerDoc
  <2>1. MaxPerDoc \in Nat /\ Cardinality({}) = 0
    BY FS_EmptySet, RetrievalAssumption
  <2> QED
    BY <1>1, <2>1
<1>3. deduped = <<>> /\ pc = "vector" /\ Len(deduped) <= TopK
  BY RetrievalAssumption DEF Init
<1> QED
  BY <1>2, <1>3 DEF CapsInv

LEMMA CapsPick ==
  ASSUME TypeOK, CapsInv, NEW c \in left, IsNext(c), Taken(c), PickTakes(c), corpus' = corpus
  PROVE  CapsInv'
<1>1. c \in Chunks /\ DocOf[c] \in Docs
  BY RetrievalAssumption DEF TypeOK
<1>2. deduped \in Seq(Chunks) /\ Len(deduped) \in Nat /\ perDoc \in [Docs -> Nat]
  BY DEF TypeOK
<1>3. pc = "pick" /\ Len(deduped) < TopK /\ TopK \in Nat /\ MaxPerDoc \in Nat
  BY RetrievalAssumption DEF IsNext, CapsInv
<1>4. Len(deduped') = Len(deduped) + 1
  BY <1>2 DEF PickTakes
<1>5. /\ pc' \in {"pick", "format"}
      /\ Len(deduped') <= TopK
      /\ pc' = "pick" => Len(deduped') < TopK
  BY <1>2, <1>3, <1>4 DEF PickTakes
<1>6. \A d \in Docs : perDoc'[d] = Cardinality(Of(deduped', d)) /\ perDoc'[d] <= MaxPerDoc
  <2>1. SUFFICES ASSUME NEW d \in Docs
                 PROVE  perDoc'[d] = Cardinality(Of(deduped', d)) /\ perDoc'[d] <= MaxPerDoc
    OBVIOUS
  <2>2. perDoc[d] = Cardinality(Of(deduped, d)) /\ perDoc[d] <= MaxPerDoc /\ perDoc[d] \in Nat
    BY <1>2 DEF CapsInv
  <2>3. Cardinality(Of(deduped', d)) = perDoc[d] + IF DocOf[c] = d THEN 1 ELSE 0
    BY <1>1, <1>2, <2>2, OfAppended DEF PickTakes
  <2>4. perDoc'[d] = perDoc[d] + IF DocOf[c] = d THEN 1 ELSE 0
    BY <1>1, <1>2, <2>2 DEF PickTakes
  <2>5. perDoc[DocOf[c]] < MaxPerDoc
    BY DEF Taken
  <2> QED
    BY <1>3, <2>2, <2>3, <2>4, <2>5
<1>7. \A i, j \in DOMAIN deduped' : corpus.text[deduped'[i]] = corpus.text[deduped'[j]] => i = j
  <2>1. \A i \in DOMAIN deduped : corpus.text[deduped[i]] # corpus.text[c]
    BY DEF Taken, SeenHashes, Listed
  <2>2. /\ DOMAIN deduped' = DOMAIN deduped \cup {Len(deduped) + 1}
        /\ deduped'[Len(deduped) + 1] = c
        /\ \A i \in DOMAIN deduped : deduped'[i] = deduped[i]
    BY <1>1, <1>2 DEF PickTakes
  <2> QED
    BY <2>1, <2>2 DEF CapsInv
<1> QED
  BY <1>5, <1>6, <1>7 DEF CapsInv

LEMMA CapsNext == TypeOK /\ CapsInv /\ [Next]_vars => CapsInv'
<1> SUFFICES ASSUME TypeOK, CapsInv, [Next]_vars PROVE CapsInv'
  OBVIOUS
<1>1. ASSUME NEW d \in Docs, Replace(d) PROVE CapsInv'
  BY <1>1 DEF Replace, CapsInv, picked, Of
<1>2. CASE QueryVector
  BY <1>2 DEF QueryVector, CapsInv, index, picked, Of
<1>3. CASE QueryKeyword
  BY <1>3 DEF QueryKeyword, CapsInv, index, picked, Of
<1>4. CASE Merge
  <2>1. deduped = <<>> /\ pc' = "pick"
    BY <1>4 DEF Merge, CapsInv
  <2>2. Len(deduped) < TopK
    BY <2>1, RetrievalAssumption
  <2>3. UNCHANGED <<corpus, deduped, perDoc>>
    BY <1>4 DEF Merge, index
  <2> QED
    BY <2>1, <2>2, <2>3 DEF CapsInv, Of
<1>5. ASSUME NEW c \in left, IsNext(c), Pick(c) PROVE CapsInv'
  <2>1. CASE Taken(c)
    BY <1>5, <2>1, PickCases, CapsPick DEF index
  <2>2. CASE ~Taken(c)
    <3>1. UNCHANGED <<corpus, deduped, perDoc, pc>>
      BY <1>5, <2>2, PickCases DEF index
    <3> QED
      BY <3>1 DEF CapsInv, Of
  <2> QED
    BY <2>1, <2>2
<1>6. CASE NoMoreCandidates
  BY <1>6 DEF NoMoreCandidates, CapsInv, index, picked, Of
<1>7. CASE Format
  <2>1. pc = "format" /\ pc' \in {"format", "done"}
    BY <1>7, FormatCases DEF Format, FormatAdds
  <2>2. UNCHANGED <<corpus, deduped, perDoc>>
    BY <1>7, FormatCases DEF index, picked
  <2> QED
    BY <2>1, <2>2 DEF CapsInv, Of
<1>8. CASE UNCHANGED vars
  BY <1>8 DEF vars, index, picked, CapsInv, Of
<1> QED
  BY <1>1, <1>2, <1>3, <1>4, <1>5, <1>6, <1>7, <1>8 DEF Next

\* The caps of retrieve_v2 hold for every index and query, whichever versions
\* of the documents the two queries see.
THEOREM ResultsWithinCaps == Spec => []CapsHold
<1>1. Init => CapsInv
  BY CapsInit
<1>2. TypeOK /\ CapsInv /\ [Next]_vars => CapsInv'
  BY CapsNext
<1>3. TypeOK /\ CapsInv => CapsHold
  <2>1. SUFFICES ASSUME TypeOK, CapsInv PROVE CapsHold
    OBVIOUS
  <2>2. \A d \in Docs : Cardinality(Of(deduped, d)) <= MaxPerDoc
    BY <2>1 DEF CapsInv
  <2> QED
    BY <2>1, <2>2 DEF CapsInv, CapsHold, Of
<1> QED
  BY <1>1, <1>2, <1>3, TypeCorrect, PTL DEF Spec

-----------------------------------------------------------------------------
(* The versions *)

\* Only the vector query may have seen an older version, and only of a
\* document replaced since.
VersionsInv ==
  /\ pc = "vector" => replaced = {} /\ vectorHits = {}
  /\ pc \in {"vector", "keyword"} => keywordHits = {}
  /\ pc \in {"vector", "keyword", "merge"} => left = {} /\ deduped = <<>>
  /\ \A c \in vectorHits : VersionOf[c] = version[DocOf[c]] \/ DocOf[c] \in replaced
  /\ \A c \in keywordHits : VersionOf[c] = version[DocOf[c]]
  /\ left \subseteq vectorHits \cup keywordHits
  /\ Listed \subseteq vectorHits \cup keywordHits

LEMMA ListedAppended ==
  ASSUME NEW c \in Chunks, deduped \in Seq(Chunks), deduped' = Append(deduped, c)
  PROVE  Listed' = Listed \cup {c}
<1>1. /\ DOMAIN deduped' = DOMAIN deduped \cup {Len(deduped) + 1}
      /\ deduped'[Len(deduped) + 1] = c
      /\ \A i \in DOMAIN deduped : deduped'[i] = deduped[i]
  OBVIOUS
<1> QED
  BY <1>1 DEF Listed

LEMMA VersionsInit == Init => VersionsInv
  BY DEF Init, VersionsInv, Listed

LEMMA VersionsNext == TypeOK /\ VersionsInv /\ [Next]_vars => VersionsInv'
<1> SUFFICES ASSUME TypeOK, VersionsInv, [Next]_vars PROVE VersionsInv'
  OBVIOUS
<1>1. ASSUME NEW d \in Docs, Replace(d) PROVE VersionsInv'
  <2>1. CASE pc = "vector"
    BY <1>1, <2>1 DEF Replace, VersionsInv, hits, picked, Listed
  <2>2. CASE pc = "keyword"
    <3>1. \A c \in Chunks : version'[DocOf[c]] = version[DocOf[c]] \/ DocOf[c] = d
      BY <1>1, RetrievalAssumption DEF Replace, TypeOK
    <3>2. replaced' = replaced \cup {d} /\ vectorHits' = vectorHits /\ vectorHits \subseteq Chunks
      BY <1>1, <2>2 DEF Replace, hits, TypeOK
    <3>3. \A c \in vectorHits' : VersionOf[c] = version'[DocOf[c]] \/ DocOf[c] \in replaced'
      BY <3>1, <3>2 DEF VersionsInv
    <3> QED
      BY <1>1, <2>2, <3>3 DEF Replace, VersionsInv, hits, picked, Listed
  <2> QED
    BY <1>1, <2>1, <2>2 DEF Replace
<1>2. CASE QueryVector
  <2>1. \A c \in vectorHits' : VersionOf[c] = version[DocOf[c]]
    BY <1>2, BestTyped DEF QueryVector, Indexed
  <2>2. pc = "vector" /\ pc' = "keyword" /\ UNCHANGED <<version, replaced, keywordHits, left, deduped>>
    BY <1>2 DEF QueryVector, index, picked
  <2> QED
    BY <2>1, <2>2 DEF VersionsInv, Listed
<1>3. CASE QueryKeyword
  <2>1. \A c \in keywordHits' : VersionOf[c] = version[DocOf[c]]
    BY <1>3, BestTyped DEF QueryKeyword, Indexed
  <2>2. pc = "keyword" /\ pc' = "merge" /\ UNCHANGED <<version, replaced, vectorHits, left, deduped>>
    BY <1>3 DEF QueryKeyword, index, picked
  <2> QED
    BY <2>1, <2>2 DEF VersionsInv, Listed
<1>4. CASE Merge
  <2>1. left' \subseteq vectorHits \cup keywordHits /\ pc' = "pick"
    BY <1>4 DEF Merge
  <2>2. UNCHANGED <<version, replaced, vectorHits, keywordHits, deduped>>
    BY <1>4 DEF Merge, index, hits
  <2> QED
    BY <2>1, <2>2 DEF VersionsInv, Listed
<1>5. ASSUME NEW c \in left, IsNext(c), Pick(c) PROVE VersionsInv'
  <2>1. c \in Chunks /\ deduped \in Seq(Chunks)
    BY DEF TypeOK
  <2>2. UNCHANGED <<version, replaced, vectorHits, keywordHits>> /\ left' = left \ {c}
        /\ pc = "pick" /\ pc' \in {"pick", "format"}
    BY <1>5, PickCases DEF index, hits, PickTakes, IsNext
  <2>3. Listed' = Listed \cup {c} \/ Listed' = Listed
    BY <1>5, <2>1, PickCases, ListedAppended DEF PickTakes, Listed
  <2> QED
    BY <2>2, <2>3 DEF VersionsInv
<1>6. CASE NoMoreCandidates
  BY <1>6 DEF NoMoreCandidates, VersionsInv, index, hits, picked, Listed
<1>7. CASE Format
  <2>1. UNCHANGED <<version, replaced, vectorHits, keywordHits, left, deduped>>
    BY <1>7, FormatCases DEF index, hits, picked
  <2>2. pc' \in {"format", "done"}
    BY <1>7, FormatCases DEF FormatAdds
  <2> QED
    BY <2>1, <2>2 DEF VersionsInv, Listed
<1>8. CASE UNCHANGED vars
  BY <1>8 DEF vars, index, hits, picked, VersionsInv, Listed
<1> QED
  BY <1>1, <1>2, <1>3, <1>4, <1>5, <1>6, <1>7, <1>8 DEF Next

\* A search shows two versions of a document only if an ingest replaced it
\* between the two queries of retrieve_v2.
THEOREM VersionsMixOnlyByReplacement == Spec => []VersionsMixOnlyInBetween
<1>1. Init => VersionsInv
  BY VersionsInit
<1>2. TypeOK /\ VersionsInv /\ [Next]_vars => VersionsInv'
  BY VersionsNext
<1>3. VersionsInv => VersionsMixOnlyInBetween
  BY DEF VersionsInv, VersionsMixOnlyInBetween
<1> QED
  BY <1>1, <1>2, <1>3, TypeCorrect, PTL DEF Spec

-----------------------------------------------------------------------------
(* The context *)

Whole(i) == blocks[i] = corpus.size[deduped[i]] \/ (i = 1 /\ blocks[i] = MaxChars)

\* total is the length of the context and of the blank line that would follow.
ContextInv ==
  /\ pc \in {"vector", "keyword", "merge", "pick"} => blocks = <<>>
  /\ next = Len(blocks) + 1
  /\ total = IF blocks = <<>> THEN 0 ELSE length + 2
  /\ length <= MaxChars
  /\ pc = "format" => total < MaxChars
  /\ \A i \in DOMAIN blocks : i \in DOMAIN deduped /\ Whole(i)
  /\ pc = "done" /\ Len(blocks) < Len(deduped) =>
       blocks # <<>> /\ length + 2 + corpus.size[deduped[Len(blocks) + 1]] > MaxChars

LEMMA ContextInit == Init => ContextInv
  BY RetrievalAssumption DEF Init, ContextInv

LEMMA FormatKeeps == TypeOK /\ ContextInv /\ Format => ContextInv'
<1> SUFFICES ASSUME TypeOK, ContextInv, Format PROVE ContextInv'
  OBVIOUS
<1>0. pc = "format" /\ UNCHANGED <<corpus, deduped>>
  BY FormatCases DEF Format, index, picked
<1>1. /\ MaxChars \in Nat \ {0} /\ total \in Nat /\ length \in Nat /\ next \in Nat \ {0}
      /\ blocks \in Seq(Nat) /\ deduped \in Seq(Chunks) /\ next = Len(blocks) + 1
      /\ total = IF blocks = <<>> THEN 0 ELSE length + 2
      /\ length <= MaxChars /\ total < MaxChars
  BY <1>0, RetrievalAssumption DEF TypeOK, ContextInv
<1>2. \A i \in DOMAIN deduped : corpus.size[deduped[i]] \in Nat \ {0}
  <2>1. corpus.size \in [Chunks -> Nat \ {0}]
    BY RetrievalAssumption DEF TypeOK
  <2>2. \A i \in DOMAIN deduped : deduped[i] \in Chunks
    BY <1>1
  <2> QED
    BY <2>1, <2>2
<1>3. CASE pc' = "done" /\ UNCHANGED context /\ next > Len(deduped)
  BY <1>0, <1>1, <1>3 DEF ContextInv, Whole, context
<1>4. CASE pc' = "done" /\ UNCHANGED context /\ next \in DOMAIN deduped /\ ~Fits
  <2>1. blocks # <<>> /\ total + corpus.size[deduped[next]] > MaxChars
    BY <1>1, <1>2, <1>4 DEF Fits
  <2>2. length + 2 + corpus.size[deduped[Len(blocks) + 1]] > MaxChars
    BY <1>1, <2>1
  <2> QED
    BY <1>0, <1>1, <1>4, <2>1, <2>2 DEF ContextInv, Whole, context
<1>5. CASE next \in DOMAIN deduped /\ Fits /\ FormatAdds(Budget(corpus.size[deduped[next]]))
  <2> DEFINE n == corpus.size[deduped[next]]
  <2>1. n \in Nat \ {0}
    BY <1>2, <1>5
  <2>2. PICK size \in Nat :
           /\ size <= MaxChars /\ (n <= MaxChars => size = n) /\ (n > MaxChars => size = MaxChars)
           /\ blocks' = Append(blocks, size)
           /\ length' = IF blocks = <<>> THEN size ELSE length + 2 + size
           /\ total' = total + size + 2
           /\ next' = next + 1
           /\ pc' = IF total + size + 2 >= MaxChars THEN "done" ELSE "format"
    BY <1>5 DEF FormatAdds
  <2> HIDE DEF n
  <2>3. blocks # <<>> => total + n <= MaxChars /\ size = n
    <3>1. blocks # <<>> => total + n <= MaxChars
      BY <1>5 DEF Fits, n
    <3> QED
      BY <1>1, <2>1, <2>2, <3>1
  <2>4. length' = total + size /\ total' = length' + 2 /\ length' <= MaxChars
    BY <1>1, <2>1, <2>2, <2>3
  <2>5. /\ blocks' # <<>> /\ Len(blocks') = next /\ blocks'[next] = size
        /\ DOMAIN blocks' = DOMAIN blocks \cup {next}
        /\ \A i \in DOMAIN blocks : blocks'[i] = blocks[i]
    BY <1>1, <2>2
  <2>6. size = n \/ (next = 1 /\ size = MaxChars)
    BY <1>1, <2>1, <2>2, <2>3
  <2>7. \A i \in DOMAIN blocks' : i \in DOMAIN deduped' /\ Whole(i)'
    <3>1. SUFFICES ASSUME NEW i \in DOMAIN blocks'
                   PROVE  i \in DOMAIN deduped /\
                            (blocks'[i] = corpus.size[deduped[i]] \/ (i = 1 /\ blocks'[i] = MaxChars))
      BY <1>0 DEF Whole
    <3>2. CASE i = next
      BY <1>5, <2>5, <2>6, <3>2 DEF n
    <3>3. CASE i \in DOMAIN blocks
      BY <2>5, <3>3 DEF ContextInv, Whole
    <3> QED
      BY <2>5, <3>2, <3>3
  <2>8. /\ pc' \in {"format", "done"}
        /\ pc' = "format" => total' < MaxChars
        /\ pc' = "done" => length' + 2 >= MaxChars
    BY <1>1, <2>2, <2>4
  <2>9. pc' = "done" /\ Len(blocks') < Len(deduped') =>
          length' + 2 + corpus'.size[deduped'[Len(blocks') + 1]] > MaxChars
    <3>1. SUFFICES ASSUME pc' = "done", next < Len(deduped)
                   PROVE  length' + 2 + corpus.size[deduped[next + 1]] > MaxChars
      BY <1>0, <2>5
    <3>2. corpus.size[deduped[next + 1]] \in Nat \ {0}
      BY <1>1, <1>2, <3>1
    <3>3. length' \in Nat
      BY <1>1, <2>2
    <3>4. length' + 2 >= MaxChars
      BY <2>8, <3>1
    <3>5. \A l \in Nat, m \in Nat \ {0} : l + 2 >= MaxChars => l + 2 + m > MaxChars
      BY <1>1
    <3> QED
      BY <3>2, <3>3, <3>4, <3>5
  <2> QED
    BY <2>2, <2>4, <2>5, <2>7, <2>8, <2>9 DEF ContextInv
<1> QED
  BY <1>3, <1>4, <1>5, FormatCases

LEMMA ContextNext == TypeOK /\ ContextInv /\ [Next]_vars => ContextInv'
<1> SUFFICES ASSUME TypeOK, ContextInv, [Next]_vars PROVE ContextInv'
  OBVIOUS
<1>1. CASE Format
  BY <1>1, FormatKeeps
<1>2. CASE UNCHANGED vars
  BY <1>2 DEF vars, index, picked, context, ContextInv, Whole
\* Before format_context there is no block.
<1>3. ASSUME blocks = <<>>, UNCHANGED <<corpus, context>>, pc' # "done"
      PROVE  ContextInv'
  <2>1. next = 1 /\ total = 0 /\ length <= MaxChars
    BY <1>3 DEF ContextInv
  <2>2. 0 < MaxChars
    BY RetrievalAssumption
  <2> QED
    BY <1>3, <2>1, <2>2 DEF ContextInv, context
<1>4. ASSUME NEW d \in Docs, Replace(d) PROVE ContextInv'
  BY <1>3, <1>4 DEF Replace, ContextInv
<1>5. CASE QueryVector
  BY <1>3, <1>5 DEF QueryVector, ContextInv, index
<1>6. CASE QueryKeyword
  BY <1>3, <1>6 DEF QueryKeyword, ContextInv, index
<1>7. CASE Merge
  BY <1>3, <1>7 DEF Merge, ContextInv, index
<1>8. ASSUME NEW c \in left, IsNext(c), Pick(c) PROVE ContextInv'
  BY <1>3, <1>8, PickCases DEF PickTakes, IsNext, ContextInv, index
<1>9. CASE NoMoreCandidates
  BY <1>3, <1>9 DEF NoMoreCandidates, ContextInv, index
<1> QED
  BY <1>1, <1>2, <1>4, <1>5, <1>6, <1>7, <1>8, <1>9 DEF Next

LEMMA ContextHolds == Spec => []ContextInv
<1>1. Init => ContextInv
  BY ContextInit
<1>2. TypeOK /\ ContextInv /\ [Next]_vars => ContextInv'
  BY ContextNext
<1> QED
  BY <1>1, <1>2, TypeCorrect, PTL DEF Spec

\* The context stays within max_chars, stops only where the next result does
\* not fit, and cuts only a first one.
THEOREM ContextUsesBudget == Spec => []ContextFilled
<1>1. ContextInv => ContextFits
  BY DEF ContextInv, ContextFits
<1>2. ContextInv => ContextIsMaximal
  BY DEF ContextInv, ContextIsMaximal, Whole
<1>3. ContextInv => ContextFilled
  BY <1>1, <1>2 DEF ContextFilled
<1> QED
  BY <1>3, ContextHolds, PTL

-----------------------------------------------------------------------------
(* The best candidates *)

\* Above and Outranked, of a list q with scores f and texts t.
AboveIn(q, f, c) == {i \in DOMAIN q : f[q[i]] >= f[c]}
OutrankedIn(q, f, t, c) ==
  \/ \E i \in AboveIn(q, f, c) : t[q[i]] = t[c]
  \/ Cardinality({i \in AboveIn(q, f, c) : DocOf[q[i]] = DocOf[c]}) >= MaxPerDoc
  \/ Cardinality(AboveIn(q, f, c)) >= TopK

LEMMA FiniteDomain ==
  ASSUME NEW q \in Seq(Chunks), NEW S \in SUBSET DOMAIN q
  PROVE  IsFiniteSet(S) /\ Cardinality(S) \in Nat
<1>1. IsFiniteSet(1..Len(q))
  BY FS_Interval
<1>2. IsFiniteSet(S)
  BY <1>1, FS_Subset
<1> QED
  BY <1>2, FS_CardinalityType

\* A chunk that is out stays out when the list grows.
LEMMA OutrankedStays ==
  ASSUME NEW q \in Seq(Chunks), NEW f, NEW t, NEW c, NEW e \in Chunks, OutrankedIn(q, f, t, c)
  PROVE  OutrankedIn(Append(q, e), f, t, c)
<1> DEFINE r == Append(q, e)
           A == AboveIn(q, f, c)
           B == AboveIn(r, f, c)
           C == {i \in A : DocOf[q[i]] = DocOf[c]}
           D == {i \in B : DocOf[r[i]] = DocOf[c]}
<1>1. r \in Seq(Chunks) /\ DOMAIN q \subseteq DOMAIN r /\ \A i \in DOMAIN q : r[i] = q[i]
  OBVIOUS
<1>2. A \subseteq B /\ C \subseteq D /\ A \subseteq DOMAIN q /\ B \subseteq DOMAIN r
  BY <1>1 DEF AboveIn
<1> HIDE DEF r
<1>3. /\ IsFiniteSet(B) /\ Cardinality(A) \in Nat /\ Cardinality(B) \in Nat
      /\ IsFiniteSet(D) /\ Cardinality(C) \in Nat /\ Cardinality(D) \in Nat
  <2>1. C \subseteq DOMAIN q /\ D \subseteq DOMAIN r
    BY <1>2
  <2> HIDE DEF A, B, C, D
  <2> QED
    BY <1>1, <1>2, <2>1, FiniteDomain
<1>4. Cardinality(A) <= Cardinality(B) /\ Cardinality(C) <= Cardinality(D)
  <2> HIDE DEF A, B, C, D
  <2> QED
    BY <1>2, <1>3, FS_Subset
<1>5. (\E i \in A : t[q[i]] = t[c]) => \E i \in B : t[r[i]] = t[c]
  BY <1>1, <1>2
<1>6. MaxPerDoc \in Nat /\ TopK \in Nat
  BY RetrievalAssumption
<1>7. (\E i \in A : t[q[i]] = t[c]) \/ Cardinality(C) >= MaxPerDoc \/ Cardinality(A) >= TopK
  BY DEF OutrankedIn
<1>8. (\E i \in B : t[r[i]] = t[c]) \/ Cardinality(D) >= MaxPerDoc \/ Cardinality(B) >= TopK
  <2> HIDE DEF A, B, C, D
  <2> QED
    BY <1>3, <1>4, <1>5, <1>6, <1>7
<1> QED
  BY <1>8 DEF OutrankedIn, r

\* Whoever is left out is outranked, and whoever is left is below the list.
BestInv ==
  /\ left \subseteq Candidates /\ Listed \subseteq Candidates
  /\ pc = "pick" =>
       \A i \in DOMAIN deduped, c \in left : Scores[deduped[i]] >= Scores[c]
  /\ \A i, j \in DOMAIN deduped : i <= j => Scores[deduped[i]] >= Scores[deduped[j]]
  /\ pc = "pick" =>
       \A c \in Candidates \ Listed : c \in left \/ OutrankedIn(deduped, Scores, corpus.text, c)
  /\ pc \in {"format", "done"} =>
       \A c \in Candidates \ Listed : OutrankedIn(deduped, Scores, corpus.text, c)

LEMMA CandidatesKept ==
  ASSUME UNCHANGED <<corpus, vectorHits, keywordHits>>, TypeOK, TypeOK'
  PROVE  Candidates' = Candidates
<1>1. \A c \in Chunks : Score(c)' = Score(c)
  BY DEF Score, MergedScore, MaxRank
<1>2. MaxRank' = MaxRank
  BY ScoresKept
<1>3. Candidates \subseteq Chunks /\ Candidates' \subseteq Chunks
  BY DEF Candidates, TypeOK
<1> QED
  BY <1>1, <1>2, <1>3 DEF Candidates

LEMMA BestInit == Init => BestInv
  BY DEF Init, BestInv, Listed

\* One round of the loop.
LEMMA BestPick ==
  ASSUME TypeOK, TypeOK', CapsInv, BestInv, NEW c \in left, IsNext(c), Pick(c)
  PROVE  BestInv'
<1>0. /\ UNCHANGED <<corpus, vectorHits, keywordHits>> /\ left' = left \ {c}
      /\ Scores' = Scores /\ Candidates' = Candidates
      /\ pc = "pick" /\ corpus'.text = corpus.text
  <2>1. UNCHANGED <<corpus, vectorHits, keywordHits>> /\ left' = left \ {c}
    BY PickCases DEF index, hits, PickTakes
  <2> QED
    BY <2>1, ScoresKept, CandidatesKept DEF IsNext
<1>1. /\ deduped \in Seq(Chunks) /\ left \subseteq Chunks /\ c \in Chunks
      /\ Scores \in [Chunks -> Int] /\ Candidates \subseteq Chunks
  BY ScoresTyped DEF TypeOK, Candidates
<1>2. \A d \in left : Scores[c] >= Scores[d]
  BY <1>1 DEF IsNext, Scores
<1>3. \A i \in DOMAIN deduped : Scores[deduped[i]] >= Scores[c]
  BY <1>0 DEF BestInv
<1>4. AboveIn(deduped, Scores, c) = DOMAIN deduped
  BY <1>3 DEF AboveIn
<1>5. CASE Taken(c)
  <2>1. PickTakes(c)
    BY <1>5, PickCases
  <2>2. Listed' = Listed \cup {c}
    BY <1>1, <2>1, ListedAppended DEF PickTakes
  <2>3. /\ DOMAIN deduped' = DOMAIN deduped \cup {Len(deduped) + 1}
        /\ deduped'[Len(deduped) + 1] = c
        /\ \A i \in DOMAIN deduped : deduped'[i] = deduped[i]
    BY <1>1, <2>1 DEF PickTakes
  <2>4. pc' \in {"pick", "format"} /\ (pc' = "format" => Len(deduped) + 1 >= TopK)
    BY <1>0, <2>1 DEF PickTakes
  <2>5. left' \subseteq Candidates' /\ Listed' \subseteq Candidates'
    BY <1>0, <2>2 DEF BestInv
  <2>6. \A i \in DOMAIN deduped', d \in left' : Scores[deduped'[i]] >= Scores[d]
    <3>1. SUFFICES ASSUME NEW i \in DOMAIN deduped', NEW d \in left'
                   PROVE  Scores[deduped'[i]] >= Scores[d]
      OBVIOUS
    <3>2. CASE i \in DOMAIN deduped
      BY <1>0, <2>3, <3>2 DEF BestInv
    <3>3. CASE i = Len(deduped) + 1
      BY <1>0, <1>2, <2>3, <3>3
    <3> QED
      BY <2>3, <3>2, <3>3
  <2>7. \A i, j \in DOMAIN deduped' : i <= j => Scores[deduped'[i]] >= Scores[deduped'[j]]
    <3>1. SUFFICES ASSUME NEW i \in DOMAIN deduped', NEW j \in DOMAIN deduped', i <= j
                   PROVE  Scores[deduped'[i]] >= Scores[deduped'[j]]
      OBVIOUS
    <3>2. CASE j \in DOMAIN deduped
      <4>1. i \in DOMAIN deduped
        BY <1>1, <2>3, <3>1, <3>2
      <4> QED
        BY <2>3, <3>1, <3>2, <4>1 DEF BestInv
    <3>3. CASE j = Len(deduped) + 1
      <4>1. Scores[c] \in Int
        BY <1>1
      <4> QED
        BY <1>3, <2>3, <3>3, <4>1
    <3> QED
      BY <2>3, <3>2, <3>3
  <2>8. \A d \in Candidates \ Listed' :
           d \in left' \/ OutrankedIn(deduped', Scores, corpus.text, d)
    <3>1. SUFFICES ASSUME NEW d \in Candidates \ Listed', d \notin left'
                   PROVE  OutrankedIn(deduped', Scores, corpus.text, d)
      OBVIOUS
    <3>2. d \in Candidates \ Listed /\ d \notin left
      BY <1>0, <2>2, <3>1
    <3>3. OutrankedIn(deduped, Scores, corpus.text, d)
      BY <1>0, <3>2 DEF BestInv
    <3> QED
      BY <1>1, <2>1, <3>3, OutrankedStays DEF PickTakes
  <2>9. pc' = "format" => \A d \in Candidates \ Listed' : OutrankedIn(deduped', Scores, corpus.text, d)
    <3>1. SUFFICES ASSUME pc' = "format", NEW d \in left'
                   PROVE  OutrankedIn(deduped', Scores, corpus.text, d)
      BY <2>8
    <3>2. AboveIn(deduped', Scores, d) = DOMAIN deduped'
      BY <2>6 DEF AboveIn
    <3>3. DOMAIN deduped' = 1..(Len(deduped) + 1) /\ Len(deduped) \in Nat
      BY <1>1, <2>3
    <3>4. Cardinality(DOMAIN deduped') = Len(deduped) + 1
      BY <3>3, FS_Interval
    <3> QED
      BY <2>4, <3>1, <3>2, <3>4 DEF OutrankedIn
  <2> QED
    BY <1>0, <2>4, <2>5, <2>6, <2>7, <2>8, <2>9 DEF BestInv
<1>6. CASE ~Taken(c)
  <2>1. UNCHANGED <<deduped, perDoc, pc>>
    BY <1>6, PickCases
  <2>2. Listed' = Listed
    BY <2>1 DEF Listed
  <2>3. OutrankedIn(deduped, Scores, corpus.text, c)
    <3>1. CASE corpus.text[c] \in SeenHashes
      <4>1. \E i \in DOMAIN deduped : corpus.text[deduped[i]] = corpus.text[c]
        BY <3>1 DEF SeenHashes, Listed
      <4> QED
        BY <1>4, <4>1 DEF OutrankedIn
    <3>2. CASE ~(perDoc[DocOf[c]] < MaxPerDoc)
      <4>1. DocOf[c] \in Docs
        BY <1>1, RetrievalAssumption
      <4>2. perDoc[DocOf[c]] = Cardinality(Of(deduped, DocOf[c])) /\ perDoc[DocOf[c]] \in Nat
        BY <4>1 DEF CapsInv, TypeOK
      <4>3. {i \in AboveIn(deduped, Scores, c) : DocOf[deduped[i]] = DocOf[c]} = Of(deduped, DocOf[c])
        BY <1>4 DEF Of
      <4>4. Cardinality(Of(deduped, DocOf[c])) >= MaxPerDoc
        BY <3>2, <4>2, RetrievalAssumption
      <4> QED
        BY <4>3, <4>4 DEF OutrankedIn
    <3> QED
      BY <1>6, <3>1, <3>2 DEF Taken
  <2>4. \A d \in Candidates \ Listed : d \in left' \/ OutrankedIn(deduped, Scores, corpus.text, d)
    BY <1>0, <2>3 DEF BestInv
  <2> QED
    BY <1>0, <2>1, <2>2, <2>4 DEF BestInv
<1> QED
  BY <1>5, <1>6

LEMMA BestNext == TypeOK /\ TypeOK' /\ CapsInv /\ VersionsInv /\ BestInv /\ [Next]_vars => BestInv'
<1> SUFFICES ASSUME TypeOK, TypeOK', CapsInv, VersionsInv, BestInv, [Next]_vars PROVE BestInv'
  OBVIOUS
\* Before the merge there is nothing to rank.
<1>1. ASSUME pc' \in {"vector", "keyword", "merge"}, left' = {}, deduped' = <<>> PROVE BestInv'
  BY <1>1 DEF BestInv, Listed
\* format_context changes none of it.
<1>2. ASSUME UNCHANGED <<corpus, vectorHits, keywordHits, left, deduped>>,
             pc' \in {"format", "done"}, pc \in {"format", "done"} \/ (left = {} /\ pc = "pick")
      PROVE  BestInv'
  <2>1. Scores' = Scores /\ Candidates' = Candidates /\ Listed' = Listed
    BY <1>2, ScoresKept, CandidatesKept DEF Listed
  <2>2. \A c \in Candidates \ Listed : OutrankedIn(deduped, Scores, corpus.text, c)
    BY <1>2 DEF BestInv
  <2> QED
    BY <1>2, <2>1, <2>2 DEF BestInv
<1>3. ASSUME NEW d \in Docs, Replace(d) PROVE BestInv'
  BY <1>1, <1>3 DEF Replace, VersionsInv, picked
<1>4. CASE QueryVector
  BY <1>1, <1>4 DEF QueryVector, VersionsInv, picked
<1>5. CASE QueryKeyword
  BY <1>1, <1>5 DEF QueryKeyword, VersionsInv, picked
<1>6. CASE Merge
  <2>1. UNCHANGED <<corpus, vectorHits, keywordHits, deduped>> /\ pc' = "pick" /\ left' = Candidates
    BY <1>6 DEF Merge, index, hits, Candidates
  <2>2. deduped' = <<>> /\ Listed' = {}
    BY <1>6, <2>1 DEF Merge, VersionsInv, Listed
  <2>3. Candidates' = Candidates
    BY <2>1, CandidatesKept
  <2> QED
    BY <2>1, <2>2, <2>3 DEF BestInv
<1>7. ASSUME NEW c \in left, IsNext(c), Pick(c) PROVE BestInv'
  BY <1>7, BestPick
<1>8. CASE NoMoreCandidates
  BY <1>2, <1>8 DEF NoMoreCandidates, index, hits, picked
<1>9. CASE Format
  <2>1. UNCHANGED <<corpus, vectorHits, keywordHits, left, deduped>>
    BY <1>9, FormatCases DEF index, hits, picked
  <2>2. pc' \in {"format", "done"}
    BY <1>9, FormatCases DEF FormatAdds
  <2>3. pc \in {"format", "done"} \/ (left = {} /\ pc = "pick")
    BY <1>9 DEF Format
  <2> QED
    BY <1>2, <2>1, <2>2, <2>3
<1>10. CASE UNCHANGED vars
  <2>1. UNCHANGED <<corpus, vectorHits, keywordHits, left, deduped, pc>>
    BY <1>10 DEF vars, index, hits, picked
  <2>2. Scores' = Scores /\ Candidates' = Candidates /\ Listed' = Listed
    BY <2>1, ScoresKept, CandidatesKept DEF Listed
  <2> QED
    BY <2>1, <2>2 DEF BestInv
<1> QED
  BY <1>3, <1>4, <1>5, <1>6, <1>7, <1>8, <1>9, <1>10 DEF Next

\* The results of retrieve_v2 are the best candidates in order of score, and a
\* candidate is left out only for results that outrank it.
THEOREM ResultsOutrankTheRest == Spec => []ResultsAreBest
<1>1. Init => CapsInv /\ VersionsInv /\ BestInv
  BY CapsInit, VersionsInit, BestInit
<1>2. TypeOK /\ TypeOK' /\ CapsInv /\ VersionsInv /\ BestInv /\ [Next]_vars
        => CapsInv' /\ VersionsInv' /\ BestInv'
  BY CapsNext, VersionsNext, BestNext
<1>3. TypeOK /\ BestInv => ResultsAreBest
  <2>1. SUFFICES ASSUME TypeOK, BestInv, pc \in {"format", "done"} PROVE ResultsAreBest
    BY DEF ResultsAreBest
  <2>2. Candidates \subseteq Chunks /\ \A i \in DOMAIN deduped : deduped[i] \in Chunks
    BY <2>1 DEF Candidates, TypeOK
  <2>3. \A c \in Chunks : Scores[c] = Score(c)
    BY DEF Scores
  <2>4. \A i, j \in DOMAIN deduped : i <= j => Score(deduped[i]) >= Score(deduped[j])
    BY <2>1, <2>2, <2>3 DEF BestInv
  <2>5. \A c \in Candidates \ Listed : Outranked(c)
    <3>1. SUFFICES ASSUME NEW c \in Candidates \ Listed PROVE Outranked(c)
      OBVIOUS
    <3>2. AboveIn(deduped, Scores, c) = Above(c)
      BY <2>2, <2>3 DEF AboveIn, Above
    <3>3. OutrankedIn(deduped, Scores, corpus.text, c)
      BY <2>1 DEF BestInv
    <3> QED
      BY <3>2, <3>3 DEF Outranked, OutrankedIn
  <2> QED
    BY <2>1, <2>4, <2>5 DEF ResultsAreBest, BestInv
<1> QED
  BY <1>1, <1>2, <1>3, TypeCorrect, PTL DEF Spec
=============================================================================
