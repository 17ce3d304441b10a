------------------------------ MODULE Retrieval ------------------------------
(***************************************************************************)
(* SearchKnowledge behind dataset.MemoryRepository, for the two backends   *)
(* that docs/rag.md calls implementations of one contract: the external    *)
(* one (internal/rag/service.go, milvus.go, dashscope.go) and the local    *)
(* one (internal/retrieval/engine.go).  KnowledgeBase has what happens to  *)
(* documents while one searches; this module has what a search makes of    *)
(* documents at rest: embedding in batches, fusion, reranking, merging of  *)
(* chunks into their parents, the context budget, the second attempt.      *)
(*                                                                         *)
(* A hit is named <<level, number in the tree>>; numbers stand for the     *)
(* order of chunk IDs as well.  What an index or a model answers is a      *)
(* choice from constants.  Scores are in ten-thousandths.                  *)
(***************************************************************************)
EXTENDS Chunking

CONSTANTS
    Libraries,     \* sets of documents: sequences of texts
    Configs,       \* chunk sizes, valid or not
    BatchSize,     \* 10: texts in one call of the embedding service
    Embeddings(_), \* the sequences of indexes it may answer to n texts
    Superseded,    \* documents with leaves in Milvus that are not in force
    Rankings(_),   \* orders in which an index may return n leaves
    Matches,       \* how many leaves match anything
    Relevance(_),  \* what the reranker may answer to n documents
    Scores,        \* scores of the local reranker
    Outages,       \* sets of parents that cannot be loaded
    TopK, CandidateK, DenseWeight, SparseWeight, RRFK,
    MergeThreshold, RelevanceThreshold, MaxContextChars

Trees ==
    {ChunkTree(texts, sizes) : texts \in Libraries,
                               sizes \in {sizes \in Configs : ValidSizes(sizes)}}
    \cup {Corpus(texts) : texts \in Libraries}

(* No document is blank.  A leaf is once in each ranking, and a score is   *)
(* not negative.                                                           *)
ASSUME RetrievalAssumption ==
    /\ {TopK, CandidateK, RRFK, BatchSize} \subseteq Nat \ {0} /\ CandidateK >= TopK
    /\ {DenseWeight, SparseWeight} \cup Matches \cup Scores \subseteq Nat
    /\ DenseWeight + SparseWeight = 100
    /\ Libraries \subseteq Seq(Seq(STRING))
    /\ \A texts \in Libraries : \A d \in DOMAIN texts :
          Solid(texts[d], 0, Len(texts[d])) # {}
    /\ \A sizes \in Configs :
          sizes \in [1 .. 3 -> [size : Int, overlap : Int]]
    /\ \A t \in Trees : \A ranking \in Rankings(Len(t.l3)) :
          /\ ranking \in Seq(1 .. Len(t.l3)) /\ Len(ranking) = Len(t.l3)
          /\ IsInjective(ranking)
    /\ \A n \in 1 .. CandidateK : Relevance(n) \subseteq Seq([index : Int, score : Nat])

VARIABLES
    backend,   \* "external" or "local"
    rewriting, \* the policy has a query rewrite strategy
    stage,     \* what is next
    tree,      \* the chunks of all documents
    vectors,   \* for each leaf embedded so far, the leaf its vector is of
    attempt,   \* 1, or 2 for the rewritten query
    hits,      \* hits of this attempt
    kept,      \* hits of the first attempt, while the second is made
    top        \* history: the best score any hit had in any attempt

vars == <<backend, rewriting, stage, tree, vectors, attempt, hits, kept, top>>
fixed == <<backend, rewriting, tree, vectors>>

Unit == 10000

Rounded(part, whole) == (2 * part + whole) \div (2 * whole)
Best(list) == IF list = <<>> THEN 0 ELSE list[1].rerank

Leaf(i) == <<3, i>>
Leaves == DOMAIN tree.l3

Level(n) == CASE n = 1 -> tree.l1 [] n = 2 -> tree.l2 [] n = 3 -> tree.l3
ChunkOf(id) == Level(id[1])[id[2]]
Size(id) == Len(ChunkOf(id).text)

(* The level above, of which the local backend has only one.               *)
ParentOf(id) ==
    <<IF backend = "local" THEN 1 ELSE id[1] - 1, ChunkOf(id).parent>>

Hit(id, rrf) == [id |-> id, rrf |-> rrf, rerank |-> 0, from |-> {}]

Prefix(list, n) == SubSeq(list, 1, Least(n, Len(list)))

-----------------------------------------------------------------------------
(* Embedding: every batch of a document in a call of its own; the answers  *)
(* may come in any order and are sorted by their index.                    *)

Done == Len(vectors)

Batch ==
    1 .. Cardinality({i \in Leaves : /\ i \in Done + 1 .. Done + BatchSize
                                     /\ tree.l3[i].doc = tree.l3[Done + 1].doc})

ByIndex(data) == SortSeq(data, <)

ValidEmbedding(data) == ByIndex(data) = [i \in Batch |-> i]

-----------------------------------------------------------------------------
(* Fusion: weighted reciprocal ranks, rounded, and ties by chunk ID.       *)

Position(list, i) == CHOOSE p \in DOMAIN list : list[p] = i

(* weight / (RRFK + position), as a fraction                               *)
Share(weight, list, i) ==
    IF Contains(list, i) THEN <<weight, RRFK + Position(list, i)>> ELSE <<0, 1>>

FusedScore(dense, sparse, i) ==
    LET d == Share(DenseWeight, dense, i)
        s == Share(SparseWeight, sparse, i)
    IN  <<d[1] * s[2] + s[1] * d[2], d[2] * s[2]>>

RRF(dense, sparse, i) ==
    LET f == FusedScore(dense, sparse, i) IN Rounded((Unit \div 100) * f[1], f[2])

FusedHits(dense, sparse, order) ==
    [k \in DOMAIN order |-> Hit(Leaf(order[k]), RRF(dense, sparse, order[k]))]

Milvus(dense, sparse) ==
    Descending([i \in Range(dense) \cup Range(sparse) |-> RRF(dense, sparse, i)])

(* Fault: no more than the final number of hits leaves the index.          *)
FuseMilvus_TopK(dense, sparse) ==
    FusedHits(dense, sparse, Prefix(Milvus(dense, sparse), TopK))

(* The external backend sorts by the rounded scores, ties by chunk ID, ... *)
FuseMilvus(dense, sparse) ==
    FusedHits(dense, sparse, Prefix(Milvus(dense, sparse), CandidateK))

(* ... the local one by the exact ones, without leaves that match nothing. *)
Ahead(f, g) == f[1] * g[2] > g[1] * f[2]

Fuse(dense, sparse, matching) ==
    LET score == [i \in matching |-> FusedScore(dense, sparse, i)]
        ahead == {e \in matching \X matching :
                     \/ Ahead(score[e[1]], score[e[2]])
                     \/ ~Ahead(score[e[2]], score[e[1]]) /\ e[1] < e[2]}
    IN  FusedHits(dense, sparse, Prefix(Arranged(matching, ahead), CandidateK))

(* ReadyDocuments *)
InForce(list) ==
    ElementsAt(list, Ascending({k \in DOMAIN list :
                                   ChunkOf(list[k].id).doc \notin Superseded}))

-----------------------------------------------------------------------------
(* Reranking *)

ByScore(list) == ElementsAt(list, Descending([k \in DOMAIN list |-> list[k].rerank]))

(* The fallback: relative to the best fused score, unless that is nothing. *)
NormalizeRRF(list) ==
    LET highest == Max({list[k].rrf : k \in DOMAIN list})
    IN  IF highest = 0 THEN list
        ELSE [k \in DOMAIN list |->
                 [list[k] EXCEPT !.rerank = Rounded(Unit * list[k].rrf, highest)]]

ValidRanking(answer, list) ==
    /\ answer # <<>>
    /\ \A k \in DOMAIN answer : answer[k].index \in DOMAIN list
    /\ IsInjective([k \in DOMAIN answer |-> answer[k].index])

(* DashScopeReranker.Rerank: the documents it answers about, and no other. *)
Reranked(answer, list) ==
    IF ValidRanking(answer, list)
    THEN ByScore([k \in DOMAIN answer |->
             [list[answer[k].index] EXCEPT !.rerank = answer[k].score]])
    ELSE NormalizeRRF(list)

-----------------------------------------------------------------------------
(* Merging chunks into their parents *)

Group(list, level, parent) ==
    {k \in DOMAIN list : list[k].id[1] = level /\ ParentOf(list[k].id) = parent}

Reaches(group, parent) ==
    100 * Cardinality(group) >= MergeThreshold * ChunkOf(parent).children

(* Fault: a single child will do. *)
Merges_AnyNumber(group, parent, lost) == parent \notin lost /\ Reaches(group, parent)

Merges(group, parent, lost) ==
    /\ backend = "external" => Cardinality(group) >= 2
    /\ parent \notin lost
    /\ Reaches(group, parent)

Strength(hit) == IF backend = "external" THEN hit.rerank ELSE hit.rrf

(* The parent takes the place of its first child and the scores of the     *)
(* best one.                                                               *)
Replacement(list, group, parent) ==
    LET best == Min({k \in group : \A j \in group : Strength(list[j]) <= Strength(list[k])})
    IN  [id |-> parent, rrf |-> list[best].rrf, rerank |-> list[best].rerank,
         from |-> {list[k].id : k \in group}]

MergeGroups(list, level, lost) ==
    LET Own(k)  == Group(list, level, ParentOf(list[k].id))
        Gone(k) == list[k].id[1] = level /\ Merges(Own(k), ParentOf(list[k].id), lost)
        places  == Ascending({k \in DOMAIN list : Gone(k) => k = Min(Own(k))})
    IN  ElementsAt([k \in DOMAIN list |->
               IF Gone(k) THEN Replacement(list, Own(k), ParentOf(list[k].id)) ELSE list[k]],
           places)

(* enforceContextBudget: a hit that does not fit is passed over, but the   *)
(* first one is always taken.                                              *)
Characters(list, places) == MapThenSumSet(LAMBDA k : Size(list[k].id), places)

Fits(list, taken, k) ==
    /\ Cardinality(taken) < TopK
    /\ taken = {} \/ Characters(list, taken \cup {k}) <= MaxContextChars

WithinBudget(list) ==
    LET taken[n \in 0 .. Len(list)] ==
            IF n = 0 THEN {}
            ELSE LET before == taken[n - 1]
                 IN  IF Fits(list, before, n) THEN before \cup {n} ELSE before
    IN  ElementsAt(list, Ascending(taken[Len(list)]))

-----------------------------------------------------------------------------
Init ==
    /\ backend \in {"external", "local"}
    /\ rewriting \in BOOLEAN
    /\ stage = IF backend = "local" THEN "corpus" ELSE "chunk"
    /\ tree = [l0 |-> <<>>, l1 |-> <<>>, l2 |-> <<>>, l3 |-> <<>>]
    /\ vectors = <<>>
    /\ attempt = 1
    /\ hits = <<>> /\ kept = <<>>
    /\ top = 0

(* Ingest: the chunks of every document, unless the sizes are refused.     *)
Ingest ==
    /\ stage = "chunk"
    /\ \E texts \in Libraries, sizes \in Configs :
          IF ValidSizes(sizes)
          THEN stage' = "embed" /\ tree' = ChunkTree(texts, sizes)
          ELSE stage' = "failed" /\ UNCHANGED tree
    /\ UNCHANGED <<backend, rewriting, vectors, attempt, hits, kept, top>>

EmbedBatch ==
    /\ stage = "embed"
    /\ \E data \in Embeddings(Cardinality(Batch)) :
          IF ValidEmbedding(data)
          THEN /\ vectors' = vectors \o [i \in Batch |-> Done + ByIndex(data)[i]]
               /\ stage' = IF Len(vectors') = Len(tree.l3) THEN "recall" ELSE "embed"
          ELSE stage' = "failed" /\ UNCHANGED vectors
    /\ UNCHANGED <<backend, rewriting, tree, attempt, hits, kept, top>>

BuildCorpus ==
    /\ stage = "corpus"
    /\ \E texts \in Libraries : tree' = Corpus(texts)
    /\ stage' = "recall"
    /\ UNCHANGED <<backend, rewriting, vectors, attempt, hits, kept, top>>

(* Milvus returns as many leaves as it has, up to the limit, by distance,  *)
(* and those with a term of the query by BM25, or fails at the latter.     *)
Recall ==
    /\ stage = "recall" /\ backend = "external"
    /\ \E dense, sparse \in Rankings(Len(tree.l3)), m \in Matches :
          hits' = InForce(FuseMilvus(Prefix(dense, CandidateK),
                                     Prefix(sparse, Least(m, CandidateK))))
    /\ stage' = "rerank"
    /\ UNCHANGED <<fixed, attempt, kept, top>>

(* The query cannot be embedded, or a store fails: an error, or what the   *)
(* first attempt found.                                                    *)
SearchFails ==
    /\ stage = "recall" /\ backend = "external"
    /\ stage' = IF attempt = 1 THEN "failed" ELSE "answered"
    /\ hits' = kept
    /\ kept' = <<>>
    /\ UNCHANGED <<fixed, attempt, top>>

Scored(list) ==
    /\ hits' = list
    /\ top' = Max({top} \cup {list[k].rerank : k \in DOMAIN list})

Rerank ==
    /\ stage = "rerank" /\ backend = "external"
    /\ IF hits = <<>> THEN Scored(hits)
       ELSE \/ Scored(NormalizeRRF(hits))
            \/ \E answer \in Relevance(Len(hits)) : Scored(Reranked(answer, hits))
    /\ stage' = "merge"
    /\ UNCHANGED <<fixed, attempt, kept>>

(* A parent that cannot be loaded leaves its children where they are.      *)
Merge ==
    /\ stage = "merge"
    /\ \E lost \in Outages :
          hits' = WithinBudget(MergeGroups(MergeGroups(hits, 3, lost), 2, lost))
    /\ stage' = "decide"
    /\ UNCHANGED <<fixed, attempt, kept, top>>

(* searchPass of the local backend: merging comes before reranking, which  *)
(* may be switched off, and the number of hits is all that is limited.     *)
SearchPass ==
    /\ stage = "recall" /\ backend = "local"
    /\ \E dense, sparse \in Rankings(Len(tree.l3)), m \in Matches :
          LET matching == Range(Prefix(dense, m)) \cup Range(Prefix(sparse, m))
          IN  hits' = MergeGroups(Fuse(dense, sparse, matching), 3, {})
    /\ stage' = "rerank"
    /\ UNCHANGED <<fixed, attempt, kept, top>>

RerankHits ==
    /\ stage = "rerank" /\ backend = "local"
    /\ \E scores \in {[k \in DOMAIN hits |-> hits[k].rrf]} \cup [DOMAIN hits -> Scores] :
          LET scored == [k \in DOMAIN hits |-> [hits[k] EXCEPT !.rerank = scores[k]]]
          IN  /\ hits' = Prefix(ByScore(scored), TopK)
              /\ top' = Max({top} \cup Range(scores))
    /\ stage' = "decide"
    /\ UNCHANGED <<fixed, attempt, kept>>

Weak == hits = <<>> \/ Best(hits) < RelevanceThreshold

Rewrite ==
    /\ stage = "decide" /\ attempt = 1 /\ rewriting /\ Weak
    /\ attempt' = 2
    /\ kept' = hits
    /\ hits' = <<>>
    /\ stage' = "recall"
    /\ UNCHANGED <<fixed, top>>

(* Fault: the second attempt is taken whenever it found something. *)
Preferred_IfAny == IF attempt = 2 /\ hits = <<>> THEN kept ELSE hits

(* The second attempt must do better; for the local backend, no worse.     *)
Preferred ==
    IF attempt = 1 \/ Best(hits) > Best(kept)
       \/ (backend = "local" /\ Best(hits) = Best(kept))
    THEN hits ELSE kept

Answer ==
    /\ stage = "decide"
    /\ attempt = 2 \/ ~rewriting \/ ~Weak
    /\ hits' = Preferred
    /\ kept' = <<>>
    /\ stage' = "answered"
    /\ UNCHANGED <<fixed, attempt, top>>

Next ==
    \/ Ingest \/ EmbedBatch \/ BuildCorpus
    \/ Recall \/ SearchFails \/ Rerank \/ Merge
    \/ SearchPass \/ RerankHits
    \/ Rewrite \/ Answer

Spec == Init /\ [][Next]_vars

-----------------------------------------------------------------------------
Indexed == stage \in {"recall", "rerank", "merge", "decide", "answered"}
Answered == stage = "answered"

(* What is searched is what was written: every character of a document is  *)
(* in a leaf, every chunk says where in its document it is and lies in its *)
(* parent, and every leaf has the vector of its own text, although windows *)
(* are cut and trimmed on three levels and vectors come in batches.        *)
IndexSound ==
    Indexed =>
        /\ Covered(tree, IF backend = "local" THEN {Blank, Stop} ELSE {Blank})
        /\ Located(tree, tree.l3, IF backend = "local" THEN tree.l1 ELSE tree.l2)
        /\ Located(tree, tree.l2, tree.l1)
        /\ Located(tree, tree.l1, <<>>)
        /\ backend = "external" => vectors = [i \in Leaves |-> i]

(* An answer is ordered by score, and its first hit has the best score     *)
(* that any leaf had in any attempt: sorting, merging, the budget and the  *)
(* choice between the attempts never lose it.  The choice, and the policy  *)
(* threshold for a second attempt, look at the first hit alone.            *)
BestFirst ==
    Answered =>
        /\ \A k \in 2 .. Len(hits) : hits[k].rerank <= hits[k - 1].rerank
        /\ Best(hits) = top

Under(id, ancestor) ==
    id[1] > ancestor[1] /\ (ParentOf(id) = ancestor
        \/ (id[1] = 3 /\ backend = "external" /\ ParentOf(ParentOf(id)) = ancestor))

(* docs/rag.md: a parent takes the place of at least two of its children   *)
(* that reach the threshold (of one, in the local backend).  No chunk is   *)
(* in an answer twice, and none beside its parent; a leaf may lie in the   *)
(* L1 chunk beside it when its own L2 chunk did not merge.                 *)
MergeEarned ==
    Answered =>
        /\ \A h \in Range(hits) : h.from # {} =>
              /\ \A id \in h.from : ParentOf(id) = h.id
              /\ backend = "external" => Cardinality(h.from) >= 2
              /\ Reaches(h.from, h.id)
        /\ \A h \in Range(hits) : h.from = {} => h.id[1] = 3
        /\ IsInjective([k \in DOMAIN hits |-> hits[k].id])
        /\ \A g, h \in Range(hits) :
              Under(g.id, h.id) => ParentOf(g.id) # h.id /\ ParentOf(g.id) \notin h.from

StaleLeaves == {i \in Leaves : tree.l3[i].doc \in Superseded}

(* Leaves of versions that are no longer in force take places in Milvus:   *)
(* a search comes back with nothing only when they could take all of them. *)
NotCrowdedOut ==
    Answered /\ backend = "external" /\ hits = <<>> =>
        StaleLeaves = Leaves \/ Cardinality(StaleLeaves) >= CandidateK

=============================================================================
