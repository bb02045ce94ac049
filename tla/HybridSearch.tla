---------------------------- MODULE HybridSearch ----------------------------
(***************************************************************************)
(* Retrieve over the index of KnowledgeIndex: the chunks that match the    *)
(* query's words, ranked by BM25 over the process's own documents, and the *)
(* points nearest to the query's vector, whoever stored them, are fused by *)
(* reciprocal rank and cut to topK.  It changes no state.  What BM25, the  *)
(* vectors and the reranker say of a query is any ranking they can give.   *)
(***************************************************************************)
EXTENDS KnowledgeIndex, SequencesExt

CONSTANTS
    Asked,              \* values of topK; one that is not positive means 5
    CandidateK,         \* vector candidates at least
    RerankCandidateK,   \* candidates the reranker gets at least
    RrfK,               \* the constant of the fusion, 60 in the code
    Scale               \* the unit of the fusion's scores, see ScaleAssumption

ASSUME SearchAssumption ==
    /\ IsFiniteSet(Id) /\ Asked \subseteq Int
    /\ CandidateK \in Nat \ {0} /\ RerankCandidateK \in Nat \ {0} /\ RrfK \in Nat

Least(a, b) == IF a < b THEN a ELSE b
Most(a, b) == IF a < b THEN b ELSE a

Wanted(topK) == IF topK <= 0 THEN 5 ELSE topK

Ids(docs) == {docs[k].id : k \in DOMAIN docs}

(* An id that several results have gets the rank of the last of them.      *)
Ranks(list) == [i \in ToSet(list) |-> Max({k \in DOMAIN list : list[k] = i})]

(* BM25 scores some of the chunks, in any order.                           *)
bm25Ranks(docs) ==
    {Ranks([k \in DOMAIN s |-> docs[s[k]].id]) :
        s \in SetToAllKPermutations(DOMAIN docs)}

CandidatesUnraised(topK) == CandidateK      \* mutant: topK does not raise it

Candidates(topK) == Most(CandidateK, Wanted(topK))

Cut(list, n) == SubSeq(list, 1, Least(n, Len(list)))

(* The points nearest to the query, in any order of nearness.              *)
Search(stored, k) == {Cut(s, k) : s \in SetToSeqs(stored)}

vectorRanks(stored, topK) == {Ranks(s) : s \in Search(stored, Candidates(topK))}

-----------------------------------------------------------------------------
(* rrfScores, multiplied by Scale to stay with integers: every RrfK + rank *)
(* divides it, so that the weights of two ranks differ as the code's do.   *)
RankBounds == {Cardinality(Id)} \cup {Len(docs) : docs \in ToSet(Versions)}

ASSUME ScaleAssumption ==
    /\ Scale \in Nat \ {0}
    /\ \A n \in RankBounds : \A k \in 1 .. n : Scale % (RrfK + k) = 0

Weight(ranks, i) == IF i \in DOMAIN ranks THEN Scale \div (RrfK + ranks[i]) ELSE 0

rrfScore(lexical, vector, i) == Weight(lexical, i) + Weight(vector, i)

Ahead(lexical, vector, i, j) ==
    LET si == rrfScore(lexical, vector, i)
        sj == rrfScore(lexical, vector, j)
    IN  si > sj \/ (si = sj /\ i < j)

(* Ids that are no chunk of this process are dropped before the sort.      *)
Fused(docs, lexical, vector) ==
    CHOOSE list \in SetToSeqs((DOMAIN lexical \cup DOMAIN vector) \cap Ids(docs)) :
        \A m, n \in DOMAIN list : m < n => Ahead(lexical, vector, list[m], list[n])

(* The scores of a reranker can bring its documents into any order.        *)
Rerank(list) == {[k \in DOMAIN list |-> list[p[k]]] : p \in SetToSeqs(DOMAIN list)}

(* The reranker gets the first of the list.                                *)
Reranked(list, topK) == Rerank(Cut(list, Most(RerankCandidateK, Wanted(topK))))

(* The chunk an id stands for: the last of the documents that has it.      *)
ChunkOf(docs, i) == docs[Max({k \in DOMAIN docs : docs[k].id = i})]

(* The possible results of Retrieve with these rankings.                   *)
Retrieve(docs, lexical, vector, topK, reranking) ==
    LET list == Fused(docs, lexical, vector)
        lists == IF reranking THEN Reranked(list, topK) ELSE {list}
        top(l) == Cut(l, Wanted(topK))
    IN  {[k \in DOMAIN top(l) |-> ChunkOf(docs, top(l)[k])] : l \in lists}

-----------------------------------------------------------------------------
(* Points of chunks the process does not have cost at most one result      *)
(* each, and beyond what is stored none.                                   *)
Enough(docs, stored, topK, answer) ==
    Len(answer) >= Least(Wanted(topK), Cardinality(stored)) - Cardinality(stored \ Ids(docs))

(* No chunk is left out, or comes second, behind another that is ranked no *)
(* better by either search.                                                *)
NoBetter(ranks, i, j) == i \in DOMAIN ranks => j \in DOMAIN ranks /\ ranks[j] <= ranks[i]
Undominated(lexical, vector, docs, answer) ==
    \A n \in DOMAIN answer : \A j \in Ids(docs) \ {answer[n].id} :
        NoBetter(lexical, answer[n].id, j) /\ NoBetter(vector, answer[n].id, j) =>
            \E m \in 1 .. n - 1 : answer[m].id = j

(* What Retrieve promises of every answer over the given documents and ids.*)
SoundOver(docs, stored) ==
    \A topK \in Asked, lexical \in bm25Ranks(docs) :
        \A vector \in vectorRanks(stored, topK), reranking \in BOOLEAN :
            \A answer \in Retrieve(docs, lexical, vector, topK, reranking) :
                /\ ToSet(answer) \subseteq ToSet(docs)
                /\ \A m, n \in DOMAIN answer : answer[m].id = answer[n].id => m = n
                /\ Len(answer) <= Wanted(topK)
                /\ Enough(docs, stored, topK, answer)
                /\ reranking \/ Undominated(lexical, vector, docs, answer)

(* The verdict for every version and every set of ids, computed once.      *)
Verdicts ==
    {<<v, stored, SoundOver(Versions[v], stored)>> :
        v \in DOMAIN Versions, stored \in SUBSET Id}

(* Whatever other versions, unfinished starts and dropped chunks left in   *)
(* the collection, an answer has only own chunks, none twice, is short by  *)
(* at most one per foreign point, and leaves out no chunk for a dominated  *)
(* one (retriever.go:140).                                                 *)
AnswersSound ==
    \A r \in Replica :
        at[r] = "up" => <<image[r], {i \in Id : points[i] # None}, TRUE>> \in Verdicts

=============================================================================
