------------------------ MODULE HybridSearchProofs ------------------------
(***************************************************************************)
(* Proofs, for every collection of documents, every set of stored points   *)
(* and every ranking, of what Retrieve of HybridSearch promises.  A finite *)
(* set that is totally ordered can be listed in that order, because the    *)
(* number of elements before one is its place; so the fused list exists,   *)
(* and everything else is read off it.                                     *)
(***************************************************************************)
EXTENDS HybridSearch, KnowledgeIndexProofs, FiniteSetTheorems

-----------------------------------------------------------------------------
(* Lists of finite sets.                                                   *)

Total(R, S) ==
    /\ \A x \in S : <<x, x>> \notin R
    /\ \A x, y \in S : x # y => <<x, y>> \in R \/ <<y, x>> \in R
    /\ \A x, y, z \in S : <<x, y>> \in R /\ <<y, z>> \in R => <<x, z>> \in R

InOrder(list, R) == \A m, n \in DOMAIN list : m < n => <<list[m], list[n]>> \in R

(* A list of a finite set is a sequence without repetition of all of it.   *)
LEMMA Enumeration ==
    ASSUME NEW S, IsFiniteSet(S), NEW list \in SetToSeqs(S)
    PROVE  /\ Cardinality(S) \in Nat
           /\ DOMAIN list = 1 .. Cardinality(S)
           /\ list \in [1 .. Cardinality(S) -> S]
           /\ list \in Seq(S) /\ Len(list) = Cardinality(S)
           /\ \A m, n \in DOMAIN list : list[m] = list[n] => m = n
           /\ \A x \in S : \E m \in DOMAIN list : list[m] = x
<1> DEFINE n == Cardinality(S)
<1>1. n \in Nat
  BY FS_CardinalityType
<1>2. list \in [1 .. n -> S] /\ \A i, j \in 1 .. n : i # j => list[i] # list[j]
  BY DEF SetToSeqs
<1>3. IsFiniteSet(1 .. n) /\ Cardinality(1 .. n) = n
  BY <1>1, FS_Interval
<1>4. list \in Injection(1 .. n, S)
  BY <1>2 DEF Injection, IsInjective
<1>5. list \in Surjection(1 .. n, S)
  BY <1>3, <1>4, FS_Injection
<1>6. \A x \in S : \E m \in 1 .. n : list[m] = x
  BY <1>5 DEF Surjection
<1>7. list \in Seq(S) /\ Len(list) = n
  BY <1>1, <1>2
<1> QED
  BY <1>1, <1>2, <1>6, <1>7

(* A finite ordered set can be listed in its order.                        *)
LEMMA Sortable ==
    ASSUME NEW S, IsFiniteSet(S), NEW R, Total(R, S)
    PROVE  \E list \in SetToSeqs(S) : InOrder(list, R)
<1> DEFINE n == Cardinality(S)
           Before(x) == {y \in S : <<y, x>> \in R}
           count == [x \in S |-> Cardinality(Before(x))]
           place == [x \in S |-> count[x] + 1]
<1>1. n \in Nat
  BY FS_CardinalityType
<1>2. ASSUME NEW x \in S
      PROVE  /\ IsFiniteSet(Before(x)) /\ count[x] = Cardinality(Before(x))
             /\ count[x] \in Nat /\ count[x] < n
  <2>1. Before(x) \subseteq S /\ x \in S /\ x \notin Before(x)
    BY DEF Total
  <2> HIDE DEF Before
  <2>2. IsFiniteSet(Before(x)) /\ Cardinality(Before(x)) <= n
        /\ (n = Cardinality(Before(x)) => S = Before(x))
    BY <2>1, FS_Subset
  <2>3. Cardinality(Before(x)) \in Nat /\ Cardinality(Before(x)) # n
    BY <2>1, <2>2, FS_CardinalityType
  <2>4. count[x] = Cardinality(Before(x))
    OBVIOUS
  <2> HIDE DEF n, count
  <2> QED
    BY <1>1, <2>2, <2>3, <2>4
<1>3. ASSUME NEW x \in S, NEW y \in S, <<x, y>> \in R
      PROVE  count[x] < count[y]
  <2>1. Before(x) \subseteq Before(y) /\ x \in Before(y) /\ x \notin Before(x)
    BY <1>3 DEF Total
  <2> HIDE DEF Before, count
  <2>2. Cardinality(Before(x)) <= Cardinality(Before(y))
        /\ (Cardinality(Before(y)) = Cardinality(Before(x)) => Before(y) = Before(x))
    BY <1>2, <2>1, FS_Subset
  <2>3. count[x] <= count[y] /\ count[x] # count[y]
    BY <1>2, <2>1, <2>2
  <2> QED
    BY <1>2, <2>3
<1> HIDE DEF count, n, Before
<1>4. place \in [S -> 1 .. n]
  BY <1>1, <1>2
<1>5. ASSUME NEW x \in S, NEW y \in S, place[x] = place[y]
      PROVE  x = y
  <2>1. count[x] = count[y]
    BY <1>2, <1>5
  <2>2. <<x, y>> \notin R /\ <<y, x>> \notin R
    BY <1>2, <1>3, <2>1
  <2> QED
    BY <2>2 DEF Total
<1>6. IsFiniteSet(1 .. n) /\ Cardinality(1 .. n) = n
  BY <1>1, FS_Interval
<1>7. place \in Injection(S, 1 .. n)
  BY <1>4, <1>5 DEF Injection, IsInjective
<1>8. place \in Surjection(S, 1 .. n)
  BY <1>6, <1>7, FS_Injection DEF n
<1>9. \A k \in 1 .. n : \E x \in S : place[x] = k
  BY <1>8 DEF Surjection
<1> DEFINE list == [k \in 1 .. n |-> CHOOSE x \in S : place[x] = k]
<1>10. \A k \in 1 .. n : list[k] \in S /\ place[list[k]] = k
  BY <1>9
<1>11. list \in SetToSeqs(S)
  BY <1>10 DEF SetToSeqs, n
<1>12. ASSUME NEW j \in 1 .. n, NEW k \in 1 .. n, j < k
       PROVE  <<list[j], list[k]>> \in R
  <2> DEFINE x == list[j]
             y == list[k]
  <2>1. x \in S /\ y \in S /\ place[x] = j /\ place[y] = k
    BY <1>10
  <2> HIDE DEF x, y, list
  <2>2. count[x] < count[y] /\ count[x] # count[y]
    BY <1>1, <1>2, <1>12, <2>1
  <2>3. <<y, x>> \notin R /\ x # y
    BY <1>2, <1>3, <2>1, <2>2
  <2> QED
    BY <2>1, <2>3 DEF Total, x, y
<1>13. DOMAIN list = 1 .. n
  OBVIOUS
<1> HIDE DEF list
<1> QED
  BY <1>11, <1>12, <1>13 DEF InOrder

(* A set of numbers up to n that is not empty has its Max.                 *)
LEMMA MaxOf ==
    ASSUME NEW n \in Nat, NEW S \in SUBSET (1 .. n), S # {}
    PROVE  Max(S) \in S /\ \A k \in S : k <= Max(S)
<1> DEFINE R == {x \in S \X S : x[1] < x[2]}
<1>1. IsFiniteSet(S)
  <2>1. IsFiniteSet(1 .. n)
    BY FS_Interval
  <2> QED
    BY <2>1, FS_Subset
<1>2. \A k \in S : k \in Nat
  OBVIOUS
<1>3. Total(R, S)
  BY <1>2 DEF Total
<1>4. PICK list \in SetToSeqs(S) : InOrder(list, R)
  BY <1>1, <1>3, Sortable
<1> DEFINE c == Cardinality(S)
<1>5. /\ c \in Nat /\ DOMAIN list = 1 .. c
      /\ \A m \in 1 .. c : list[m] \in S
      /\ \A x \in S : \E m \in DOMAIN list : list[m] = x
  BY <1>1, Enumeration
<1> HIDE DEF c
<1>6. c \in 1 .. c
  <2>1. PICK x \in S : TRUE
    OBVIOUS
  <2>2. PICK m \in 1 .. c : list[m] = x
    BY <1>5
  <2> QED
    BY <1>5, <2>2
<1>7. ASSUME NEW k \in S
      PROVE  k <= list[c]
  <2>1. PICK m \in 1 .. c : list[m] = k
    BY <1>5
  <2>2. m < c \/ m = c
    BY <1>5
  <2>3. m < c => list[m] < list[c]
    <3> SUFFICES ASSUME m < c PROVE list[m] < list[c]
      OBVIOUS
    <3>1. <<list[m], list[c]>> \in R
      BY <1>4, <1>5, <1>6 DEF InOrder
    <3> QED
      BY <3>1
  <2>4. k \in Nat /\ list[c] \in Nat
    BY <1>2, <1>5, <1>6
  <2> HIDE DEF R
  <2> QED
    BY <2>1, <2>2, <2>3, <2>4
<1> HIDE DEF R
<1>8. \E x \in S : \A y \in S : x >= y
  BY <1>2, <1>5, <1>6, <1>7
<1> QED
  BY <1>2, <1>8 DEF Max

-----------------------------------------------------------------------------
(* Rankings.                                                               *)

LEMMA CutOf ==
    ASSUME NEW T, NEW list \in Seq(T), NEW n \in Nat
    PROVE  /\ Cut(list, n) \in Seq(T)
           /\ Len(Cut(list, n)) = Least(n, Len(list))
           /\ DOMAIN Cut(list, n) = 1 .. Least(n, Len(list))
           /\ \A k \in DOMAIN Cut(list, n) : k \in DOMAIN list /\ Cut(list, n)[k] = list[k]
<1> DEFINE m == Least(n, Len(list))
<1>1. m \in Nat /\ m <= Len(list)
  BY DEF Least
<1>2. Cut(list, n) = SubSeq(list, 1, m)
  BY DEF Cut
<1> HIDE DEF m
<1> QED
  BY <1>1, <1>2 DEF m

(* Every id of a list has one of its places as its rank, and different ids *)
(* have different ones.                                                    *)
LEMMA RanksOf ==
    ASSUME NEW T, NEW list \in Seq(T)
    PROVE  /\ DOMAIN Ranks(list) = ToSet(list) /\ ToSet(list) \subseteq T
           /\ \A i \in ToSet(list) :
                 Ranks(list)[i] \in 1 .. Len(list) /\ list[Ranks(list)[i]] = i
<1>1. DOMAIN Ranks(list) = ToSet(list) /\ ToSet(list) \subseteq T
  BY DEF Ranks, ToSet
<1>2. ASSUME NEW i \in ToSet(list)
      PROVE  Ranks(list)[i] \in 1 .. Len(list) /\ list[Ranks(list)[i]] = i
  <2> DEFINE places == {k \in DOMAIN list : list[k] = i}
  <2>1. places \in SUBSET (1 .. Len(list)) /\ places # {} /\ Len(list) \in Nat
    BY <1>2 DEF ToSet
  <2>2. Ranks(list)[i] = Max(places)
    BY <1>2 DEF Ranks
  <2>3. Max(places) \in places
    <3> HIDE DEF places
    <3> QED
      BY <2>1, MaxOf
  <2> QED
    BY <2>2, <2>3
<1> QED
  BY <1>1, <1>2

(* What the fusion needs of a ranking: its ranks are positive, within one  *)
(* of the bounds, and no two ids share one.                                *)
Ranking(ranks) ==
    /\ DOMAIN ranks \subseteq Id
    /\ \E n \in RankBounds : n \in Nat /\ \A i \in DOMAIN ranks : ranks[i] \in 1 .. n
    /\ \A i, j \in DOMAIN ranks : ranks[i] = ranks[j] => i = j

LEMMA RanksRank ==
    ASSUME NEW list \in Seq(Id), NEW n \in RankBounds, n \in Nat, Len(list) <= n
    PROVE  Ranking(Ranks(list))
<1>1. /\ DOMAIN Ranks(list) \subseteq Id
      /\ \A i \in DOMAIN Ranks(list) :
            Ranks(list)[i] \in 1 .. Len(list) /\ list[Ranks(list)[i]] = i
  BY RanksOf
<1>2. \A i \in DOMAIN Ranks(list) : Ranks(list)[i] \in 1 .. n
  BY <1>1
<1> QED
  BY <1>1, <1>2 DEF Ranking

LEMMA LexicalRanks ==
    ASSUME NEW v \in DOMAIN Versions, NEW lexical \in bm25Ranks(Versions[v])
    PROVE  Ranking(lexical) /\ DOMAIN lexical \subseteq Ids(Versions[v])
<1> DEFINE docs == Versions[v]
<1>1. /\ docs \in Seq(Chunk) /\ Len(docs) \in Nat /\ DOMAIN docs = 1 .. Len(docs)
      /\ \A k \in DOMAIN docs : docs[k] \in Chunk
      /\ Len(docs) \in RankBounds
  BY KnowledgeAssumption DEF RankBounds, ToSet
<1> HIDE DEF docs
<1>2. PICK s \in SetToAllKPermutations(DOMAIN docs) :
         lexical = Ranks([k \in DOMAIN s |-> docs[s[k]].id])
  BY DEF bm25Ranks, docs
<1>3. PICK D \in SUBSET (DOMAIN docs) : s \in SetToSeqs(D)
  BY DEF SetToAllKPermutations
<1>4. IsFiniteSet(1 .. Len(docs)) /\ Cardinality(1 .. Len(docs)) = Len(docs)
  <2> DEFINE n == Len(docs)
  <2>1. n \in Nat
    BY <1>1
  <2> HIDE DEF n
  <2>2. IsFiniteSet(1 .. n) /\ Cardinality(1 .. n) = n
    BY <2>1, FS_Interval
  <2> QED
    BY <2>2 DEF n
<1>5. IsFiniteSet(D) /\ Cardinality(D) <= Len(docs)
  BY <1>1, <1>4, FS_Subset
<1>6. s \in Seq(D) /\ Len(s) = Cardinality(D)
  BY <1>3, <1>5, Enumeration
<1> DEFINE list == [k \in DOMAIN s |-> docs[s[k]].id]
<1>7. \A k \in DOMAIN s : docs[s[k]].id \in Ids(docs) /\ docs[s[k]].id \in Id
  BY <1>1, <1>6 DEF Ids, Chunk
<1>8. list \in Seq(Ids(docs)) /\ list \in Seq(Id) /\ Len(list) = Len(s)
  BY <1>6, <1>7
<1> HIDE DEF list
<1>9. Ranking(Ranks(list))
  BY <1>1, <1>5, <1>6, <1>8, RanksRank
<1>10. DOMAIN Ranks(list) \subseteq Ids(docs)
  BY <1>8, RanksOf
<1> QED
  BY <1>2, <1>9, <1>10 DEF list, docs

LEMMA WantedPositive ==
    ASSUME NEW topK \in Asked
    PROVE  /\ Wanted(topK) \in Nat \ {0} /\ Candidates(topK) \in Nat \ {0}
           /\ Candidates(topK) >= Wanted(topK)
           /\ Most(RerankCandidateK, Wanted(topK)) \in Nat
           /\ Most(RerankCandidateK, Wanted(topK)) >= Wanted(topK)
BY SearchAssumption DEF Wanted, Candidates, Most

LEMMA VectorRanks ==
    ASSUME NEW stored \in SUBSET Id, NEW topK \in Asked,
           NEW vector \in vectorRanks(stored, topK)
    PROVE  /\ Ranking(vector) /\ DOMAIN vector \subseteq stored
           /\ IsFiniteSet(stored) /\ Cardinality(stored) \in Nat
           /\ Cardinality(DOMAIN vector) = Least(Candidates(topK), Cardinality(stored))
<1> DEFINE k == Candidates(topK)
           n == Cardinality(stored)
<1>1. IsFiniteSet(stored) /\ n \in Nat /\ n <= Cardinality(Id) /\ Cardinality(Id) \in Nat
  BY SearchAssumption, FS_Subset, FS_CardinalityType
<1>2. k \in Nat
  BY WantedPositive
<1>3. PICK s \in SetToSeqs(stored) : vector = Ranks(Cut(s, k))
  BY DEF vectorRanks, Search
<1> HIDE DEF k
<1>4. /\ s \in Seq(stored) /\ Len(s) = n
      /\ \A i, j \in DOMAIN s : s[i] = s[j] => i = j
  BY <1>1, Enumeration
<1> HIDE DEF n
<1> DEFINE list == Cut(s, k)
           m == Least(k, n)
<1>5. /\ list \in Seq(stored) /\ Len(list) = m /\ DOMAIN list = 1 .. m
      /\ \A i \in DOMAIN list : i \in DOMAIN s /\ list[i] = s[i]
  BY <1>2, <1>4, CutOf
<1>6. m \in Nat /\ m <= n
  BY <1>1, <1>2 DEF Least
<1> HIDE DEF list, m
<1>7. list \in Seq(Id) /\ Cardinality(Id) \in RankBounds
  BY <1>5 DEF RankBounds
<1>8. Ranking(Ranks(list))
  BY <1>1, <1>5, <1>6, <1>7, RanksRank
<1>9. DOMAIN Ranks(list) = ToSet(list) /\ ToSet(list) \subseteq stored
  BY <1>5, RanksOf
<1>10. list \in Injection(1 .. m, ToSet(list)) /\ list \in Surjection(1 .. m, ToSet(list))
  BY <1>4, <1>5 DEF Injection, IsInjective, Surjection, ToSet
<1>11. IsFiniteSet(1 .. m) /\ Cardinality(1 .. m) = m
  BY <1>6, FS_Interval
<1>12. Cardinality(ToSet(list)) = m
  BY <1>10, <1>11, FS_Surjection
<1> QED
  BY <1>1, <1>3, <1>8, <1>9, <1>12 DEF list, m, n, k

-----------------------------------------------------------------------------
(* The order of the fused list.                                            *)

LEMMA WeightType ==
    ASSUME NEW ranks, Ranking(ranks), NEW i
    PROVE  Weight(ranks, i) \in Nat /\ (i \in DOMAIN ranks => Weight(ranks, i) > 0)
<1>1. PICK n \in RankBounds : n \in Nat /\ \A j \in DOMAIN ranks : ranks[j] \in 1 .. n
  BY DEF Ranking
<1>2. i \notin DOMAIN ranks => Weight(ranks, i) = 0
  BY DEF Weight
<1>3. ASSUME i \in DOMAIN ranks
      PROVE  Weight(ranks, i) \in Nat /\ Weight(ranks, i) > 0
  <2> DEFINE k == RrfK + ranks[i]
  <2>1. ranks[i] \in 1 .. n
    BY <1>1, <1>3
  <2>2. k \in Nat \ {0} /\ Scale % k = 0 /\ Scale \in Nat \ {0}
    BY <1>1, <2>1, ScaleAssumption, SearchAssumption
  <2>3. Weight(ranks, i) = Scale \div k
    BY <1>3 DEF Weight
  <2> HIDE DEF k
  <2>4. Scale \div k \in Nat /\ Scale \div k > 0
    BY <2>2
  <2> QED
    BY <2>3, <2>4
<1> QED
  BY <1>2, <1>3

(* Because the ranks divide the scale, a better rank weighs strictly more. *)
LEMMA WeightOrder ==
    ASSUME NEW ranks, Ranking(ranks), NEW i, NEW j, i # j, NoBetter(ranks, i, j)
    PROVE  /\ Weight(ranks, j) >= Weight(ranks, i)
           /\ i \in DOMAIN ranks => Weight(ranks, j) > Weight(ranks, i)
<1>1. PICK n \in RankBounds : n \in Nat /\ \A l \in DOMAIN ranks : ranks[l] \in 1 .. n
  BY DEF Ranking
<1>2. ASSUME i \in DOMAIN ranks
      PROVE  Weight(ranks, j) > Weight(ranks, i)
  <2> DEFINE a == RrfK + ranks[j]
             b == RrfK + ranks[i]
  <2>1. j \in DOMAIN ranks /\ ranks[j] \in 1 .. n /\ ranks[i] \in 1 .. n
        /\ ranks[j] <= ranks[i] /\ ranks[j] # ranks[i]
    BY <1>1, <1>2 DEF NoBetter, Ranking
  <2>2. a \in Nat \ {0} /\ b \in Nat \ {0} /\ a < b
    BY <1>1, <2>1, SearchAssumption
  <2>3. Scale % a = 0 /\ Scale % b = 0 /\ Scale \in Nat \ {0}
    BY <1>1, <2>1, ScaleAssumption
  <2>4. Weight(ranks, j) = Scale \div a /\ Weight(ranks, i) = Scale \div b
    BY <1>2, <2>1 DEF Weight
  <2> HIDE DEF a, b
  <2>5. Scale \div a > Scale \div b
    BY <2>2, <2>3
  <2> QED
    BY <2>4, <2>5
<1>3. i \notin DOMAIN ranks => Weight(ranks, i) = 0
  BY DEF Weight
<1>4. Weight(ranks, i) \in Nat /\ Weight(ranks, j) \in Nat
  BY WeightType
<1> QED
  BY <1>2, <1>3, <1>4

Candidate(docs, lexical, vector) == (DOMAIN lexical \cup DOMAIN vector) \cap Ids(docs)

(* The fused list exists: it is the candidates in the order of Ahead.      *)
LEMMA FusedInOrder ==
    ASSUME NEW docs, NEW lexical, NEW vector, Ranking(lexical), Ranking(vector)
    PROVE  /\ IsFiniteSet(Candidate(docs, lexical, vector))
           /\ Candidate(docs, lexical, vector) \subseteq Id
           /\ Fused(docs, lexical, vector) \in SetToSeqs(Candidate(docs, lexical, vector))
           /\ \A m, n \in DOMAIN Fused(docs, lexical, vector) : m < n =>
                 Ahead(lexical, vector, Fused(docs, lexical, vector)[m],
                                        Fused(docs, lexical, vector)[n])
<1> DEFINE S == Candidate(docs, lexical, vector)
           R == {p \in S \X S : Ahead(lexical, vector, p[1], p[2])}
           Fits(list) == \A m, n \in DOMAIN list :
                            m < n => Ahead(lexical, vector, list[m], list[n])
<1>1. S \subseteq Id /\ IsFiniteSet(S)
  <2>1. S \subseteq Id
    BY DEF Candidate, Ranking
  <2> QED
    BY <2>1, SearchAssumption, FS_Subset
<1>2. \A i : rrfScore(lexical, vector, i) \in Nat
  BY WeightType DEF rrfScore
<1>3. \A i \in S : i \in Nat
  BY <1>1, KnowledgeAssumption
<1> HIDE DEF S
<1>4. \A x, y \in S : <<x, y>> \in R <=> Ahead(lexical, vector, x, y)
  OBVIOUS
<1> HIDE DEF R
<1>5. \A x \in S : ~Ahead(lexical, vector, x, x)
  BY <1>2, <1>3 DEF Ahead
<1>6. \A x, y \in S : x # y => Ahead(lexical, vector, x, y) \/ Ahead(lexical, vector, y, x)
  BY <1>2, <1>3 DEF Ahead
<1>7. \A x, y, z \in S : Ahead(lexical, vector, x, y) /\ Ahead(lexical, vector, y, z) =>
         Ahead(lexical, vector, x, z)
  BY <1>2, <1>3 DEF Ahead
<1>8. Total(R, S)
  BY <1>4, <1>5, <1>6, <1>7 DEF Total
<1>9. PICK list \in SetToSeqs(S) : InOrder(list, R)
  BY <1>1, <1>8, Sortable
<1>10. \A m \in DOMAIN list : list[m] \in S
  BY <1>1, Enumeration
<1>11. Fits(list)
  BY <1>4, <1>9, <1>10 DEF InOrder
<1>12. Fused(docs, lexical, vector) = CHOOSE l \in SetToSeqs(S) : Fits(l)
  BY DEF Fused, S, Candidate
<1> HIDE DEF Fits
<1>13. /\ Fused(docs, lexical, vector) \in SetToSeqs(S)
       /\ Fits(Fused(docs, lexical, vector))
  BY <1>11, <1>12
<1> QED
  BY <1>1, <1>13 DEF Fits, S

(* An id that neither search ranks worse is ahead, if the other is ranked. *)
LEMMA Dominated ==
    ASSUME NEW docs, NEW lexical, NEW vector, Ranking(lexical), Ranking(vector),
           NEW i \in Candidate(docs, lexical, vector), NEW j \in Ids(docs) \ {i},
           NoBetter(lexical, i, j), NoBetter(vector, i, j)
    PROVE  /\ j \in Candidate(docs, lexical, vector)
           /\ ~Ahead(lexical, vector, i, j)
<1>1. i # j /\ (i \in DOMAIN lexical \/ i \in DOMAIN vector)
  BY DEF Candidate
<1>2. j \in Candidate(docs, lexical, vector)
  BY <1>1 DEF Candidate, NoBetter
<1> DEFINE a == Weight(lexical, i)
           b == Weight(vector, i)
           c == Weight(lexical, j)
           d == Weight(vector, j)
<1>3. a \in Nat /\ b \in Nat /\ c \in Nat /\ d \in Nat
  BY WeightType
<1>4. c >= a /\ (i \in DOMAIN lexical => c > a)
  BY <1>1, WeightOrder
<1>5. d >= b /\ (i \in DOMAIN vector => d > b)
  BY <1>1, WeightOrder
<1>6. rrfScore(lexical, vector, i) = a + b /\ rrfScore(lexical, vector, j) = c + d
  BY DEF rrfScore
<1> HIDE DEF a, b, c, d
<1>7. c + d > a + b
  BY <1>1, <1>3, <1>4, <1>5
<1>8. ~Ahead(lexical, vector, i, j)
  BY <1>3, <1>6, <1>7 DEF Ahead
<1> QED
  BY <1>2, <1>8

-----------------------------------------------------------------------------
(* The answer.                                                             *)

LEMMA ChunkOfId ==
    ASSUME NEW docs \in Seq(Chunk), NEW i \in Ids(docs)
    PROVE  ChunkOf(docs, i) \in ToSet(docs) /\ ChunkOf(docs, i).id = i
<1> DEFINE places == {k \in DOMAIN docs : docs[k].id = i}
<1>1. places \in SUBSET (1 .. Len(docs)) /\ places # {} /\ Len(docs) \in Nat
  BY DEF Ids
<1>2. Max(places) \in places
  <2> HIDE DEF places
  <2> QED
    BY <1>1, MaxOf
<1>3. ChunkOf(docs, i) = docs[Max(places)]
  BY DEF ChunkOf
<1> QED
  BY <1>2, <1>3 DEF ToSet

(* A sequence without repetition.                                          *)
Distinct(list) == \A m, n \in DOMAIN list : list[m] = list[n] => m = n

(* The reranker gets what it gets in some order.                           *)
LEMMA Reordered ==
    ASSUME NEW T, NEW list \in Seq(T), Distinct(list), NEW l \in Rerank(list)
    PROVE  l \in Seq(T) /\ Len(l) = Len(list) /\ Distinct(l)
<1> DEFINE n == Len(list)
<1>1. n \in Nat /\ DOMAIN list = 1 .. n /\ \A k \in 1 .. n : list[k] \in T
  OBVIOUS
<1>2. PICK p \in SetToSeqs(DOMAIN list) : l = [k \in DOMAIN list |-> list[p[k]]]
  BY DEF Rerank
<1> HIDE DEF n
<1>3. IsFiniteSet(1 .. n) /\ Cardinality(1 .. n) = n
  BY <1>1, FS_Interval
<1>4. p \in SetToSeqs(1 .. n)
  BY <1>1, <1>2
<1>5. p \in [1 .. n -> 1 .. n] /\ \A j, k \in 1 .. n : j # k => p[j] # p[k]
  BY <1>3, <1>4 DEF SetToSeqs
<1>6. l = [k \in 1 .. n |-> list[p[k]]]
  BY <1>1, <1>2
<1>7. l \in Seq(T) /\ Len(l) = n /\ DOMAIN l = 1 .. n
  BY <1>1, <1>5, <1>6
<1>8. Distinct(l)
  BY <1>1, <1>5, <1>6, <1>7 DEF Distinct
<1> QED
  BY <1>7, <1>8 DEF n

(* What Retrieve cuts to topK: the fused list, or a reordering of its      *)
(* beginning.  It loses nothing that the cut would have kept.              *)
LEMMA Listed ==
    ASSUME NEW docs \in Seq(Chunk), NEW topK \in Asked, NEW lexical, NEW vector,
           Ranking(lexical), Ranking(vector), NEW reranking \in BOOLEAN,
           NEW l \in IF reranking THEN Reranked(Fused(docs, lexical, vector), topK)
                                  ELSE {Fused(docs, lexical, vector)}
    PROVE  /\ l \in Seq(Ids(docs)) /\ Distinct(l)
           /\ Len(l) >= Least(Wanted(topK), Cardinality(Candidate(docs, lexical, vector)))
           /\ ~reranking => l = Fused(docs, lexical, vector)
<1> DEFINE S == Candidate(docs, lexical, vector)
           list == Fused(docs, lexical, vector)
           n == Cardinality(S)
           w == Wanted(topK)
           g == Most(RerankCandidateK, w)
<1>1. IsFiniteSet(S) /\ list \in SetToSeqs(S)
  BY FusedInOrder
<1>2. w \in Nat /\ g \in Nat /\ g >= w
  BY WantedPositive
<1> HIDE DEF list, g, w
<1>3. S \subseteq Ids(docs)
  BY DEF Candidate
<1> HIDE DEF S
<1>4. n \in Nat /\ list \in Seq(S) /\ Len(list) = n /\ Distinct(list)
  BY <1>1, Enumeration DEF Distinct
<1>5. list \in Seq(Ids(docs))
  BY <1>3, <1>4
<1> HIDE DEF n
<1>6. CASE ~reranking
  <2>1. l = list
    BY <1>6 DEF list
  <2>2. Len(l) >= Least(w, n)
    BY <1>2, <1>4, <2>1 DEF Least
  <2> QED
    BY <1>4, <1>5, <2>1, <2>2 DEF list, n, S, w
<1>7. CASE reranking
  <2> DEFINE cut == Cut(list, g)
  <2>1. l \in Rerank(cut)
    BY <1>7 DEF Reranked, list, g, w
  <2>2. /\ cut \in Seq(Ids(docs)) /\ Len(cut) = Least(g, n)
        /\ \A k \in DOMAIN cut : k \in DOMAIN list /\ cut[k] = list[k]
    BY <1>2, <1>4, <1>5, CutOf
  <2>3. Distinct(cut)
    BY <1>4, <2>2 DEF Distinct
  <2> HIDE DEF cut
  <2>4. l \in Seq(Ids(docs)) /\ Len(l) = Least(g, n) /\ Distinct(l)
    BY <2>1, <2>2, <2>3, Reordered
  <2>5. Least(g, n) >= Least(w, n)
    BY <1>2, <1>4 DEF Least
  <2> QED
    BY <1>7, <2>4, <2>5 DEF n, S, w
<1> QED
  BY <1>6, <1>7

(* An answer is the beginning of such a list, chunk for id.                *)
LEMMA AnswerOf ==
    ASSUME NEW docs \in Seq(Chunk), NEW topK \in Asked, NEW lexical, NEW vector,
           Ranking(lexical), Ranking(vector), NEW reranking \in BOOLEAN,
           NEW answer \in Retrieve(docs, lexical, vector, topK, reranking)
    PROVE  \E l \in Seq(Ids(docs)) :
             /\ Distinct(l) /\ (~reranking => l = Fused(docs, lexical, vector))
             /\ Len(l) >= Least(Wanted(topK), Cardinality(Candidate(docs, lexical, vector)))
             /\ Len(answer) = Least(Wanted(topK), Len(l))
             /\ DOMAIN answer = 1 .. Least(Wanted(topK), Len(l))
             /\ \A k \in DOMAIN answer : k \in DOMAIN l /\ l[k] \in Ids(docs)
                    /\ answer[k] \in ToSet(docs) /\ answer[k].id = l[k]
<1> DEFINE w == Wanted(topK)
           Cuts(l) == Cut(l, w)
<1>1. PICK l \in IF reranking THEN Reranked(Fused(docs, lexical, vector), topK)
                              ELSE {Fused(docs, lexical, vector)} :
         answer = [k \in DOMAIN Cuts(l) |-> ChunkOf(docs, Cuts(l)[k])]
  BY DEF Retrieve
<1>2. /\ l \in Seq(Ids(docs)) /\ Distinct(l)
      /\ Len(l) >= Least(w, Cardinality(Candidate(docs, lexical, vector)))
      /\ ~reranking => l = Fused(docs, lexical, vector)
  BY Listed
<1>3. w \in Nat
  BY WantedPositive
<1> HIDE DEF w
<1> DEFINE cut == Cut(l, w)
           m == Least(w, Len(l))
<1>4. /\ DOMAIN cut = 1 .. m
      /\ \A k \in DOMAIN cut : k \in DOMAIN l /\ cut[k] = l[k]
  BY <1>2, <1>3, CutOf
<1>5. m \in Nat
  BY <1>2, <1>3 DEF Least
<1>6. answer = [k \in DOMAIN cut |-> ChunkOf(docs, cut[k])]
  BY <1>1
<1> HIDE DEF cut, m
<1>7. Len(answer) = m /\ DOMAIN answer = 1 .. m
  BY <1>4, <1>5, <1>6
<1>8. ASSUME NEW k \in DOMAIN answer
      PROVE  /\ k \in DOMAIN l /\ l[k] \in Ids(docs)
             /\ answer[k] \in ToSet(docs) /\ answer[k].id = l[k]
  <2>1. k \in DOMAIN l /\ l[k] \in Ids(docs) /\ answer[k] = ChunkOf(docs, l[k])
    BY <1>2, <1>4, <1>6, <1>7
  <2> QED
    BY <2>1, ChunkOfId
<1> QED
  BY <1>2, <1>7, <1>8 DEF m, w

-----------------------------------------------------------------------------
(* What Retrieve promises.                                                 *)

(* Among the ids that the two searches rank there are all of the nearest   *)
(* points but the foreign ones.                                            *)
LEMMA EnoughCandidates ==
    ASSUME NEW docs, NEW lexical, NEW stored \in SUBSET Id, NEW topK \in Asked,
           NEW vector \in vectorRanks(stored, topK), Ranking(lexical)
    PROVE  LET c == Cardinality(Candidate(docs, lexical, vector))
               f == Cardinality(stored \ Ids(docs))
           IN  /\ c \in Nat /\ f \in Nat /\ Cardinality(stored) \in Nat
               /\ c >= Least(Wanted(topK), Cardinality(stored)) - f
<1> DEFINE V == DOMAIN vector
           own == V \cap Ids(docs)
           foreign == stored \ Ids(docs)
           C == Candidate(docs, lexical, vector)
           s == Cardinality(stored)
           w == Wanted(topK)
           k == Candidates(topK)
<1>1. /\ Ranking(vector) /\ V \subseteq stored /\ IsFiniteSet(stored) /\ s \in Nat
      /\ Cardinality(V) = Least(k, s)
  BY VectorRanks
<1>2. w \in Nat /\ k \in Nat /\ k >= w
  BY WantedPositive
<1>3. own \subseteq C /\ own \subseteq V /\ V \ own \subseteq foreign /\ V \cap own = own
  BY <1>1 DEF Candidate
<1>4. IsFiniteSet(C)
  BY <1>1, FusedInOrder
<1>5. IsFiniteSet(V) /\ IsFiniteSet(foreign)
  BY <1>1, FS_Subset
<1> HIDE DEF own, foreign, C, V, s, w, k
<1>6. IsFiniteSet(own) /\ Cardinality(own) <= Cardinality(C)
  BY <1>3, <1>4, FS_Subset
<1>7. Cardinality(V \ own) <= Cardinality(foreign) /\ IsFiniteSet(V \ own)
  BY <1>3, <1>5, FS_Subset
<1>8. Cardinality(V \ own) = Cardinality(V) - Cardinality(own)
  BY <1>3, <1>5, FS_Difference
<1>9. /\ Cardinality(C) \in Nat /\ Cardinality(foreign) \in Nat
      /\ Cardinality(own) \in Nat /\ Cardinality(V) \in Nat
  BY <1>4, <1>5, <1>6, FS_CardinalityType
<1>10. Least(k, s) >= Least(w, s)
  BY <1>1, <1>2 DEF Least
<1>11. Least(k, s) \in Nat /\ Least(w, s) \in Nat
  BY <1>1, <1>2 DEF Least
<1>12. Cardinality(C) >= Least(w, s) - Cardinality(foreign)
  BY <1>1, <1>6, <1>7, <1>8, <1>9, <1>10, <1>11
<1> QED
  BY <1>1, <1>9, <1>12 DEF C, foreign, s, w

(* A chunk that no search ranks worse than an answer's is in the list, and *)
(* before it.                                                              *)
LEMMA NothingDominated ==
    ASSUME NEW docs \in Seq(Chunk), NEW topK \in Asked, NEW lexical, NEW vector,
           Ranking(lexical), Ranking(vector), NEW reranking \in BOOLEAN, ~reranking,
           NEW answer \in Retrieve(docs, lexical, vector, topK, reranking)
    PROVE  Undominated(lexical, vector, docs, answer)
<1> DEFINE C == Candidate(docs, lexical, vector)
           list == Fused(docs, lexical, vector)
<1>1. /\ IsFiniteSet(C) /\ list \in SetToSeqs(C)
      /\ \A m, n \in DOMAIN list : m < n => Ahead(lexical, vector, list[m], list[n])
  BY FusedInOrder
<1>2. /\ Distinct(list) /\ DOMAIN answer = 1 .. Least(Wanted(topK), Len(list))
      /\ \A n \in DOMAIN answer : n \in DOMAIN list /\ answer[n].id = list[n]
  <2>1. PICK l \in Seq(Ids(docs)) :
           /\ Distinct(l) /\ (~reranking => l = list)
           /\ DOMAIN answer = 1 .. Least(Wanted(topK), Len(l))
           /\ \A n \in DOMAIN answer : n \in DOMAIN l /\ answer[n].id = l[n]
    BY AnswerOf
  <2>2. l = list
    BY <2>1
  <2> QED
    BY <2>1, <2>2
<1> HIDE DEF list, C
<1>3. /\ DOMAIN list = 1 .. Cardinality(C) /\ Cardinality(C) \in Nat
      /\ Len(list) = Cardinality(C)
      /\ \A m \in DOMAIN list : list[m] \in C
      /\ \A x \in C : \E m \in DOMAIN list : list[m] = x
  BY <1>1, Enumeration
<1>4. Least(Wanted(topK), Len(list)) \in Nat
  BY <1>3, WantedPositive DEF Least
<1>5. ASSUME NEW n \in DOMAIN answer, NEW j \in Ids(docs) \ {answer[n].id},
             NoBetter(lexical, answer[n].id, j), NoBetter(vector, answer[n].id, j)
      PROVE  \E m \in 1 .. n - 1 : answer[m].id = j
  <2> DEFINE i == list[n]
  <2>1. n \in DOMAIN list /\ answer[n].id = i /\ i \in C
    BY <1>2, <1>3
  <2> HIDE DEF i
  <2>2. j \in C /\ ~Ahead(lexical, vector, i, j)
    BY <1>5, <2>1, Dominated DEF C
  <2>3. PICK m \in DOMAIN list : list[m] = j
    BY <1>3, <2>2
  <2>4. ~(n < m) /\ m # n
    BY <1>1, <1>5, <2>1, <2>2, <2>3 DEF i
  <2>5. m \in Nat /\ n \in Nat /\ m >= 1
    BY <1>3, <2>1
  <2>6. m \in 1 .. n - 1 /\ m \in DOMAIN answer
    BY <1>2, <1>4, <2>4, <2>5
  <2> QED
    BY <1>2, <2>3, <2>6
<1> QED
  BY <1>5 DEF Undominated

(* Whatever the documents of a version, the stored points and the          *)
(* rankings: an answer has only own chunks, none twice and no more than    *)
(* wanted, is short by at most one per foreign point, and leaves out no    *)
(* chunk for a dominated one.                                              *)
THEOREM RetrieveSound ==
    ASSUME NEW v \in DOMAIN Versions, NEW stored \in SUBSET Id
    PROVE  SoundOver(Versions[v], stored)
<1> DEFINE docs == Versions[v]
<1>1. docs \in Seq(Chunk)
  BY KnowledgeAssumption
<1>2. ASSUME NEW topK \in Asked, NEW lexical \in bm25Ranks(docs),
             NEW vector \in vectorRanks(stored, topK), NEW reranking \in BOOLEAN,
             NEW answer \in Retrieve(docs, lexical, vector, topK, reranking)
      PROVE  /\ ToSet(answer) \subseteq ToSet(docs)
             /\ \A m, n \in DOMAIN answer : answer[m].id = answer[n].id => m = n
             /\ Len(answer) <= Wanted(topK)
             /\ Enough(docs, stored, topK, answer)
             /\ reranking \/ Undominated(lexical, vector, docs, answer)
  <2>1. Ranking(lexical)
    BY LexicalRanks
  <2>2. Ranking(vector)
    BY VectorRanks
  <2> HIDE DEF docs
  <2> DEFINE C == Candidate(docs, lexical, vector)
             c == Cardinality(C)
             f == Cardinality(stored \ Ids(docs))
             s == Cardinality(stored)
             w == Wanted(topK)
  <2>3. c \in Nat /\ f \in Nat /\ s \in Nat /\ c >= Least(w, s) - f
    BY <2>1, EnoughCandidates
  <2>4. w \in Nat
    BY WantedPositive
  <2>5. PICK l \in Seq(Ids(docs)) :
           /\ Distinct(l) /\ Len(l) >= Least(w, c)
           /\ Len(answer) = Least(w, Len(l)) /\ DOMAIN answer = 1 .. Least(w, Len(l))
           /\ \A k \in DOMAIN answer : k \in DOMAIN l /\ l[k] \in Ids(docs)
                  /\ answer[k] \in ToSet(docs) /\ answer[k].id = l[k]
    BY <1>1, <2>1, <2>2, AnswerOf DEF docs
  <2> HIDE DEF C, c, f, s, w
  <2>6. ToSet(answer) \subseteq ToSet(docs)
    BY <2>5 DEF ToSet
  <2>7. \A m, n \in DOMAIN answer : answer[m].id = answer[n].id => m = n
    BY <2>5 DEF Distinct
  <2>8. Len(l) \in Nat
    OBVIOUS
  <2>9. Len(answer) <= w
    BY <2>4, <2>5, <2>8 DEF Least
  <2>10. Len(answer) >= Least(w, s) - f
    BY <2>3, <2>4, <2>5, <2>8 DEF Least
  <2>11. Enough(docs, stored, topK, answer)
    BY <2>10 DEF Enough, w, s, f
  <2>12. ~reranking => Undominated(lexical, vector, docs, answer)
    <3> SUFFICES ASSUME ~reranking
                 PROVE  Undominated(lexical, vector, docs, answer)
      OBVIOUS
    <3> QED
      BY <1>1, <2>1, <2>2, NothingDominated DEF docs
  <2> QED
    BY <2>6, <2>7, <2>9, <2>11, <2>12 DEF w
<1> HIDE DEF docs
<1> QED
  BY <1>2 DEF SoundOver, docs

(* In every reachable state, whatever other versions, unfinished starts    *)
(* and dropped chunks left in the collection, every answer of a process    *)
(* that serves keeps that promise (retriever.go:140).                      *)
THEOREM AnswersAlwaysSound == Spec => []AnswersSound
<1>1. TypeOK => AnswersSound
  <2> SUFFICES ASSUME TypeOK, NEW r \in Replica
               PROVE  <<image[r], {i \in Id : points[i] # None}, TRUE>> \in Verdicts
    BY DEF AnswersSound
  <2> DEFINE v == image[r]
             stored == {i \in Id : points[i] # None}
  <2>1. v \in DOMAIN Versions /\ stored \in SUBSET Id
    BY DEF TypeOK
  <2> HIDE DEF v, stored
  <2>2. SoundOver(Versions[v], stored)
    BY <2>1, RetrieveSound
  <2>3. SoundOver(Versions[v], stored) = TRUE
    BY <2>2
  <2>4. <<v, stored, SoundOver(Versions[v], stored)>> \in Verdicts
    BY <2>1 DEF Verdicts
  <2> QED
    BY <2>3, <2>4 DEF v, stored
<1> QED
  BY <1>1, TypeCorrect, PTL

=============================================================================
