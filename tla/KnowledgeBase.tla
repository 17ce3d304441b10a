---------------------------- MODULE KnowledgeBase ----------------------------
(***************************************************************************)
(* The external retrieval backend: rag.Service.Ingest and SearchKnowledge  *)
(* over PostgreSQL (documents and parent chunks), Milvus (leaf chunks) and *)
(* Redis (a cache of parent chunks), none of which shares a transaction    *)
(* with another (internal/rag/service.go, postgres.go, milvus.go,          *)
(* redis.go).                                                              *)
(*                                                                         *)
(* Every ingestion is a process of its own (the CLI's ingest command, or   *)
(* the seeding at start), every search a request of the server; each is    *)
(* made once; one whose process dies takes no further step.  A document    *)
(* is named by the ingestion that creates it.  A store call either         *)
(* succeeds or returns an error; the effect of one that returned an error  *)
(* may still land, at once or much later, when the connection failed and   *)
(* not the statement.  MaxErrors bounds the errors of the stores.          *)
(*                                                                         *)
(* Chunks of one kind are abstracted to one per document, scores to a free *)
(* choice of the hits, and tenants are left out: all sources are visible   *)
(* to all searches.                                                        *)
(***************************************************************************)
EXTENDS Integers, FiniteSets, FiniteSetsExt

CONSTANTS
    Ingests,    \* calls of Ingest; also the names of the documents
    Searches,   \* calls of SearchKnowledge
    Source,     \* the source each ingestion reads
    Content,    \* the content it finds there
    MaxErrors

ASSUME KnowledgeAssumption ==
    /\ IsFiniteSet(Ingests)
    /\ MaxErrors \in Nat
    /\ DOMAIN Source = Ingests /\ DOMAIN Content = Ingests

VARIABLES
    status,     \* rag_documents.status; "absent" without a row
    version,    \* rag_documents.version; 0 without a row
    parents,    \* documents whose rows are in rag_parent_chunks
    leaves,     \* documents whose leaves are in Milvus
    cache,      \* documents with a parent chunk in Redis
    errors,     \* errors the stores have returned
    late,       \* calls that returned an error and will still take effect
    pc,
    outcome,    \* what each ingestion returned
    disowned,   \* history: documents whose publication returned an error
    search      \* one record of locals per search

stores == <<status, version, parents, leaves, errors, late>>
vars == <<status, version, parents, leaves, cache, errors, late, pc,
          outcome, disowned, search>>

Calls == {"insert", "parents", "leaves", "ready", "failed", "purge"}
Stages == {"new", "prepare", "done"} \cup Calls

Hits == [doc : Ingests, merged : BOOLEAN]

Locals ==
    [at : {"new", "recall", "verify", "merge", "answered", "failed"},
     found : SUBSET Ingests, hits : SUBSET Hits, kept : SUBSET Hits,
     retried : BOOLEAN, seen : SUBSET Ingests]

NewSearch == [at |-> "new", found |-> {}, hits |-> {}, kept |-> {},
              retried |-> FALSE, seen |-> {}]

(* The documents keep their rows and numbers from the moment they have     *)
(* one, and every local of a call is of its type.                          *)
TypeOK ==
    /\ status \in [Ingests -> {"absent", "processing", "ready", "failed"}]
    /\ version \in [Ingests -> 0 .. Cardinality(Ingests)]
    /\ \A i \in Ingests : status[i] = "absent" <=> version[i] = 0
    /\ parents \subseteq Ingests /\ leaves \subseteq Ingests
    /\ cache \subseteq Ingests /\ disowned \subseteq Ingests
    /\ errors \in 0 .. MaxErrors /\ late \subseteq Ingests \X Calls
    /\ pc \in [Ingests -> Stages]
    /\ outcome \in [Ingests -> {"none", "created", "reused", "error"}]
    /\ search \in [Searches -> Locals]

Init ==
    /\ status = [i \in Ingests |-> "absent"]
    /\ version = [i \in Ingests |-> 0]
    /\ parents = {} /\ leaves = {} /\ cache = {} /\ late = {} /\ errors = 0
    /\ pc = [i \in Ingests |-> "new"]
    /\ outcome = [i \in Ingests |-> "none"]
    /\ disowned = {}
    /\ search = [q \in Searches |-> NewSearch]

-----------------------------------------------------------------------------
SameSource(i, j) == Source[i] = Source[j]

(* Fault: every newer row hides the older ones, ready or not.              *)
Shadowed_ByAnyStatus(i) ==
    \E j \in Ingests : SameSource(i, j) /\ version[j] > version[i]

(* The NOT EXISTS of ReadyDocuments and GetParent.                         *)
Shadowed(i) ==
    \E j \in Ingests :
        SameSource(i, j) /\ status[j] = "ready" /\ version[j] > version[i]

(* Fault: the readiness check forgets the status.                          *)
ReadyDocuments_AnyStatus(ids) == {i \in ids : ~Shadowed(i)}

ReadyDocuments(ids) == {i \in ids : status[i] = "ready" /\ ~Shadowed(i)}

(* History's own view of what a search may return: the newest ready        *)
(* version of each source.                                                 *)
InForce ==
    {i \in Ingests : /\ status[i] = "ready"
                     /\ \A j \in Ingests : SameSource(i, j) /\ status[j] = "ready"
                                            => version[j] <= version[i]}

(* The reusable rows: the same content of the same source, ready; newer    *)
(* versions of the source with other content do not matter.                *)
Reusable(i) ==
    {j \in Ingests : /\ SameSource(i, j) /\ Content[i] = Content[j]
                     /\ status[j] = "ready"}

NextVersion(i) ==
    1 + Max({0} \cup {version[j] : j \in {k \in Ingests : SameSource(i, k)}})

(* What a call does to the stores.                                         *)
Effect(i, call) ==
    /\ status' = CASE call = "insert" -> [status EXCEPT ![i] = "processing"]
                   [] call \in {"ready", "failed"} -> [status EXCEPT ![i] = call]
                   [] OTHER -> status
    /\ version' = IF call = "insert" THEN [version EXCEPT ![i] = NextVersion(i)]
                  ELSE version
    /\ parents' = IF call = "parents" THEN parents \cup {i} ELSE parents
    /\ leaves' = CASE call = "leaves" -> leaves \cup {i}
                   [] call = "purge" -> leaves \ {i}
                   [] OTHER -> leaves

(* The searches under way see which documents are in force.                *)
Observe ==
    search' = [q \in Searches |->
        IF search[q].at \in {"recall", "verify", "merge"}
        THEN [search[q] EXCEPT !.seen = @ \cup InForce']
        ELSE search[q]]

Goto(i, stage) == pc' = [pc EXCEPT ![i] = stage]
Return(i, result) ==
    /\ Goto(i, "done")
    /\ outcome' = [outcome EXCEPT ![i] = result]

Works(i, call) ==
    /\ pc[i] = call
    /\ Effect(i, call)
    /\ Observe
    /\ UNCHANGED <<cache, errors, late>>

Errs(i, call) ==
    /\ pc[i] = call
    /\ late' \in {late, late \cup {<<i, call>>}}
    /\ errors < MaxErrors /\ errors' = errors + 1
    /\ UNCHANGED <<status, version, parents, leaves, cache, search>>

-----------------------------------------------------------------------------
(* BeginDocument, first statement: look for a version to reuse.            *)
Lookup(i) ==
    /\ pc[i] = "new"
    /\ \/ Reusable(i) # {} /\ Return(i, "reused")
       \/ Reusable(i) = {} /\ Goto(i, "insert") /\ UNCHANGED outcome
       \/ Return(i, "error")
    /\ UNCHANGED <<stores, cache, disowned, search>>

(* BeginDocument, second statement.  A version that a concurrent insert    *)
(* took meanwhile violates the unique key, which is one of the errors.     *)
Insert(i) ==
    /\ \/ Works(i, "insert") /\ Goto(i, "prepare") /\ UNCHANGED outcome
       \/ Errs(i, "insert") /\ Return(i, "error")
    /\ UNCHANGED disowned

(* ChunkDocument and EmbedDocuments, with the check of the count.          *)
Prepare(i) ==
    /\ pc[i] = "prepare"
    /\ Goto(i, "parents") \/ Goto(i, "failed")
    /\ UNCHANGED <<stores, cache, outcome, disowned, search>>

SaveParents(i) ==
    /\ \/ Works(i, "parents") /\ Goto(i, "leaves")
       \/ Errs(i, "parents") /\ Goto(i, "failed")
    /\ UNCHANGED <<outcome, disowned>>

(* Fault: the error of Upsert is dropped.                                  *)
Upsert_IgnoresError(i) ==
    /\ Works(i, "leaves") \/ Errs(i, "leaves")
    /\ Goto(i, "ready")
    /\ UNCHANGED <<outcome, disowned>>

Upsert(i) ==
    /\ \/ Works(i, "leaves") /\ Goto(i, "ready")
       \/ Errs(i, "leaves") /\ Goto(i, "failed")
    /\ UNCHANGED <<outcome, disowned>>

Publish(i) ==
    \/ Works(i, "ready") /\ Return(i, "created") /\ UNCHANGED disowned
    \/ /\ Errs(i, "ready")
       /\ Goto(i, "failed")
       /\ disowned' = disowned \cup {i}
       /\ UNCHANGED outcome

(* The deferred clean-up drops the errors of both of its calls.            *)
MarkFailed(i) ==
    /\ Works(i, "failed") \/ Errs(i, "failed")
    /\ Goto(i, "purge")
    /\ UNCHANGED <<outcome, disowned>>

DeleteLeaves(i) ==
    /\ Works(i, "purge") \/ Errs(i, "purge")
    /\ Return(i, "error")
    /\ UNCHANGED disowned

(* The effect of a call whose caller saw an error.                         *)
Land(i, call) ==
    /\ <<i, call>> \in late
    /\ Effect(i, call)
    /\ Observe
    /\ late' = late \ {<<i, call>>}
    /\ UNCHANGED <<cache, errors, pc, outcome, disowned>>

-----------------------------------------------------------------------------
Update(q, locals) ==
    /\ search' = [search EXCEPT ![q] = locals]
    /\ UNCHANGED <<stores, pc, outcome, disowned>>

SearchKnowledge(q) ==
    /\ search[q].at = "new"
    /\ Update(q, [search[q] EXCEPT !.at = "recall", !.seen = InForce])
    /\ UNCHANGED cache

(* An error of the first attempt is returned, one of the second makes the  *)
(* first attempt the answer.                                               *)
Fails(s) ==
    IF s.retried THEN [s EXCEPT !.at = "answered", !.found = {},
                                           !.hits = s.kept, !.kept = {}]
    ELSE [s EXCEPT !.at = "failed"]

(* LeafStore.Search: some of the leaves, of every version that has any.    *)
Recall(q) ==
    /\ search[q].at = "recall"
    /\ \/ \E found \in SUBSET leaves :
            Update(q, [search[q] EXCEPT !.at = "verify", !.found = found])
       \/ Update(q, Fails(search[q]))
    /\ UNCHANGED cache

Verify(q) ==
    /\ search[q].at = "verify"
    /\ \/ Update(q, [search[q] EXCEPT !.at = "merge", !.found = {},
            !.hits = [doc : ReadyDocuments(search[q].found), merged : {FALSE}]])
       \/ Update(q, Fails(search[q]))
    /\ UNCHANGED cache

(* A parent that Redis still has and returns, and otherwise the one that   *)
(* PostgreSQL returns, which checks the document again; it is then cached, *)
(* unless Redis fails.                                                     *)
LoadParent(d) ==
    \/ d \in cache /\ UNCHANGED cache
    \/ d \in ReadyDocuments(parents) /\ cache' \in {cache, cache \cup {d}}

(* mergeGroups, for a document with enough hits to give way to a parent;   *)
(* without a parent the leaves stay.                                       *)
Merge(q, d) ==
    LET leaf == [doc |-> d, merged |-> FALSE] IN
    /\ search[q].at = "merge" /\ leaf \in search[q].hits
    /\ LoadParent(d)
    /\ Update(q, [search[q] EXCEPT !.hits =
            (@ \ {leaf}) \cup {[doc |-> d, merged |-> TRUE]}])

(* The rewritten query, when the first answer is empty or scores low.      *)
Rewrite(q) ==
    /\ search[q].at = "merge" /\ ~search[q].retried
    /\ Update(q, [search[q] EXCEPT !.at = "recall", !.retried = TRUE,
                                   !.kept = search[q].hits, !.hits = {}])
    /\ UNCHANGED cache

(* Fault: the answer joins the hits of both attempts.                      *)
Answers_Joined(s) == {s.hits \cup s.kept}

(* The second attempt is the answer only when its best hit scores higher.  *)
Answers(s) ==
    {h \in {s.hits, s.kept} : IF s.retried THEN h = s.kept \/ h # {} ELSE h = s.hits}

Answer(q) ==
    /\ search[q].at = "merge"
    /\ \E hits \in Answers(search[q]) :
        Update(q, [search[q] EXCEPT !.at = "answered", !.hits = hits,
                                       !.kept = {}])
    /\ UNCHANGED cache

IngestStep(i) ==
    \/ Lookup(i) \/ Insert(i) \/ Prepare(i) \/ SaveParents(i) \/ Upsert(i)
    \/ Publish(i) \/ MarkFailed(i) \/ DeleteLeaves(i)

SearchStep(q) ==
    \/ SearchKnowledge(q) \/ Recall(q) \/ Verify(q) \/ Rewrite(q) \/ Answer(q)
    \/ \E d \in Ingests : Merge(q, d)

Next ==
    \/ \E i \in Ingests : IngestStep(i)
    \/ \E i \in Ingests, call \in Calls : Land(i, call)
    \/ \E q \in Searches : SearchStep(q)

Spec == Init /\ [][Next]_vars

-----------------------------------------------------------------------------
Answered(q) == search[q].at = "answered"
Documents(q) == {h.doc : h \in search[q].hits}

(* docs/rag.md: failed versions and old versions of a source do not enter  *)
(* the results.  Whatever is published, fails, lands late or is cached     *)
(* while the search runs, every document in an answer was ready and the    *)
(* newest ready one of its source at some moment of that search.           *)
AnswersInForce ==
    \A q \in Searches : Answered(q) => Documents(q) \subseteq search[q].seen

(* An answer never mixes two versions of a source, although it is put      *)
(* together from several reads of three stores and up to two attempts.     *)
OneVersionPerSource ==
    \A q \in Searches : Answered(q) =>
        \A d, e \in Documents(q) : SameSource(d, e) => d = e

(* docs/rag.md: a document becomes ready only when its parents and its     *)
(* leaves are written.  A ready document has both, for ever, unless the    *)
(* call that published it took effect although it returned an error: then  *)
(* the clean-up may take the leaves away from a document that stays ready. *)
ReadyComplete ==
    \A i \in Ingests \ disowned :
        status[i] = "ready" => i \in parents /\ i \in leaves

(* A source that searches can find stays to be found, and its version only *)
(* gives way to a newer one: neither a newer version under construction    *)
(* nor one that failed takes it away, except for a publication taken back. *)
CoverageKept ==
    [][\A d \in ReadyDocuments(Ingests) \ disowned :
        \E e \in ReadyDocuments(Ingests)' :
            SameSource(d, e) /\ version'[e] >= version[d]]_vars

=============================================================================
