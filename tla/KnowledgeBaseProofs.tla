------------------------ MODULE KnowledgeBaseProofs ------------------------
(***************************************************************************)
(* Proofs about KnowledgeBase, for any number of ingestions, sources,      *)
(* searches and store errors: what is published is complete, and what a    *)
(* search answers was in force and of one version per source.              *)
(***************************************************************************)
EXTENDS KnowledgeBase, FiniteSetTheorems, TLAPS

(* The rows of rag_documents, and their versions of one source.            *)
Rows == {i \in Ingests : version[i] > 0}

VersionsOf(i) == {0} \cup {version[j] : j \in {k \in Ingests : SameSource(i, k)}}

(* Versions are numbered from one, no two of a source alike, and there is  *)
(* a newest one to count on from.                                          *)
RowsInOrder ==
    /\ \A i \in Ingests : version[i] <= Cardinality(Rows)
    /\ \A i, j \in Ingests :
          SameSource(i, j) /\ i # j /\ version[i] > 0 => version[i] # version[j]
    /\ \A i \in Ingests : \E v \in VersionsOf(i) : \A w \in VersionsOf(i) : v >= w

(* The stages of an ingestion that has seen no error.                      *)
Untroubled == {"new", "insert", "prepare", "parents", "leaves", "ready"}

Troubled(i) == i \in disowned \/ \E call \in Calls : <<i, call>> \in late

(* What an ingestion has written at each stage; and only one that has seen *)
(* an error leaves calls behind that may still land.                       *)
InOrder(i) ==
    /\ pc[i] \in {"new", "insert"} => version[i] = 0
    /\ pc[i] \in {"prepare"} \cup (Calls \ {"insert"}) => version[i] > 0
    /\ pc[i] \in {"leaves", "ready"} => i \in parents
    /\ pc[i] = "ready" => i \in leaves
    /\ pc[i] \in Untroubled => ~Troubled(i)
    /\ outcome[i] = "created" =>
          pc[i] = "done" /\ i \in parents /\ i \in leaves /\ ~Troubled(i)
    /\ status[i] = "ready" => outcome[i] = "created" \/ i \in disowned

(* A late insertion is the first that is heard of its document, and a late *)
(* publication is one of a document that was disowned.                     *)
LateInOrder(i) ==
    /\ <<i, "insert">> \in late => version[i] = 0 /\ pc[i] = "done"
    /\ \A call \in Calls \ {"insert"} : <<i, call>> \in late => version[i] > 0
    /\ <<i, "ready">> \in late => i \in disowned

IngestOrder == \A i \in Ingests : InOrder(i) /\ LateInOrder(i)

OneVersion(hits) ==
    \A h, g \in hits : SameSource(h.doc, g.doc) => h.doc = g.doc

DocumentsOf(hits) == {h.doc : h \in hits}

(* A search holds the hits of at most two attempts, each verified at one   *)
(* moment of the search.                                                   *)
SoundLocals(s) ==
    /\ s.at = "new" => s.hits = {} /\ s.kept = {}
    /\ s.at \in {"recall", "verify", "merge"} => InForce \subseteq s.seen
    /\ DocumentsOf(s.hits) \subseteq s.seen
    /\ DocumentsOf(s.kept) \subseteq s.seen
    /\ OneVersion(s.hits) /\ OneVersion(s.kept)

SearchOrder == \A q \in Searches : SoundLocals(search[q])

IInv == TypeOK /\ RowsInOrder /\ IngestOrder /\ SearchOrder

-----------------------------------------------------------------------------
LEMMA SourcesCompare ==
    \A i, j, k : /\ SameSource(i, i)
                 /\ SameSource(i, j) => SameSource(j, i)
                 /\ SameSource(i, j) /\ SameSource(j, k) => SameSource(i, k)
BY DEF SameSource

LEMMA RowsAreFinite ==
    IsFiniteSet(Rows) /\ Cardinality(Rows) \in Nat /\ Cardinality(Rows) <= Cardinality(Ingests)
    /\ Cardinality(Ingests) \in Nat
BY KnowledgeAssumption, FS_Subset, FS_CardinalityType DEF Rows

LEMMA NewSearchIsLocal == NewSearch \in Locals
BY DEF NewSearch, Locals

LEMMA Initially == Init => IInv
<1> SUFFICES ASSUME Init PROVE IInv
  OBVIOUS
<1> USE DEF Init
<1>1. TypeOK
  BY KnowledgeAssumption, RowsAreFinite, NewSearchIsLocal DEF TypeOK, Stages
<1>2. RowsInOrder
  <2>1. \A i \in Ingests : 0 \in VersionsOf(i) /\ \A w \in VersionsOf(i) : 0 >= w
    BY DEF VersionsOf
  <2>2. \A i \in Ingests : version[i] <= Cardinality(Rows)
    BY RowsAreFinite
  <2> QED
    BY <2>1, <2>2 DEF RowsInOrder
<1>3. IngestOrder
  BY DEF IngestOrder, InOrder, LateInOrder, Calls, Untroubled, Troubled
<1>4. SearchOrder
  BY DEF SearchOrder, SoundLocals, NewSearch, DocumentsOf, OneVersion
<1> QED
  BY <1>1, <1>2, <1>3, <1>4 DEF IInv

-----------------------------------------------------------------------------
(* Rows and versions *)

(* NextVersion counts on from the newest version of the source.            *)
LEMMA NextVersionIsNewest ==
    ASSUME TypeOK, RowsInOrder, NEW i \in Ingests
    PROVE  /\ NextVersion(i) \in Nat /\ NextVersion(i) >= 1
           /\ NextVersion(i) <= Cardinality(Rows) + 1
           /\ \A j \in Ingests : SameSource(i, j) => version[j] < NextVersion(i)
<1> DEFINE newest == Max(VersionsOf(i))
<1>1. NextVersion(i) = 1 + newest
  BY DEF NextVersion, VersionsOf
<1>2. VersionsOf(i) \subseteq Nat /\ \A v \in VersionsOf(i) : v <= Cardinality(Rows)
  BY RowsAreFinite DEF TypeOK, RowsInOrder, VersionsOf
<1>3. newest \in VersionsOf(i) /\ \A w \in VersionsOf(i) : newest >= w
  BY DEF RowsInOrder, Max
<1>4. \A j \in Ingests : SameSource(i, j) => version[j] \in VersionsOf(i)
  BY DEF VersionsOf
<1> HIDE DEF newest
<1>5. newest \in Nat /\ newest <= Cardinality(Rows)
  BY <1>2, <1>3
<1>6. \A j \in Ingests : SameSource(i, j) => version[j] <= newest /\ version[j] \in Nat
  BY <1>2, <1>3, <1>4
<1> QED
  BY <1>1, <1>5, <1>6, RowsAreFinite

LEMMA InsertKeepsRows ==
    ASSUME TypeOK, RowsInOrder, NEW i \in Ingests, version[i] = 0,
           version' = [version EXCEPT ![i] = NextVersion(i)]
    PROVE  RowsInOrder' /\ version' \in [Ingests -> 0 .. Cardinality(Ingests)]
<1> DEFINE new == NextVersion(i)
<1>1. /\ new \in Nat /\ new >= 1 /\ new <= Cardinality(Rows) + 1
      /\ \A j \in Ingests : SameSource(i, j) => version[j] < new
  BY NextVersionIsNewest
<1> HIDE DEF new
<1>2. /\ version'[i] = new /\ \A j \in Ingests \ {i} : version'[j] = version[j]
      /\ version \in [Ingests -> Nat] /\ version' \in [Ingests -> Nat]
  BY <1>1 DEF TypeOK, new
<1>3. Rows' = Rows \cup {i} /\ i \notin Rows
  BY <1>1, <1>2 DEF Rows
<1>4. Cardinality(Rows') = Cardinality(Rows) + 1
  BY <1>3, RowsAreFinite, FS_AddElement
<1>5. Rows' \subseteq Ingests
  BY DEF Rows
<1>6. Cardinality(Rows') <= Cardinality(Ingests)
  BY <1>5, KnowledgeAssumption, FS_Subset
<1>7. \A j \in Ingests : version'[j] <= Cardinality(Rows')
  BY <1>1, <1>2, <1>4, RowsAreFinite DEF RowsInOrder
<1>8. \A j, k \in Ingests :
         SameSource(j, k) /\ j # k /\ version'[j] > 0 => version'[j] # version'[k]
  BY <1>1, <1>2, SourcesCompare DEF RowsInOrder
<1>9. ASSUME NEW k \in Ingests
      PROVE  \E v \in VersionsOf(k)' : \A w \in VersionsOf(k)' : v >= w
  <2>1. CASE SameSource(k, i)
    <3>1. new \in VersionsOf(k)'
      BY <1>2, <2>1 DEF VersionsOf
    <3>2. \A w \in VersionsOf(k)' : new >= w
      BY <1>1, <1>2, <2>1, SourcesCompare DEF VersionsOf
    <3> QED
      BY <3>1, <3>2
  <2>2. CASE ~SameSource(k, i)
    <3>1. VersionsOf(k)' = VersionsOf(k)
      BY <1>2, <2>2 DEF VersionsOf
    <3> QED
      BY <3>1 DEF RowsInOrder
  <2> QED
    BY <2>1, <2>2
<1>10. version' \in [Ingests -> 0 .. Cardinality(Ingests)]
  BY <1>2, <1>4, <1>6, <1>7, RowsAreFinite
<1> QED
  BY <1>7, <1>8, <1>9, <1>10 DEF RowsInOrder

LEMMA RowsKept ==
    ASSUME RowsInOrder, UNCHANGED version
    PROVE  RowsInOrder'
BY DEF RowsInOrder, Rows, VersionsOf

-----------------------------------------------------------------------------
(* Ingestions *)

(* What a step of one ingestion leaves alone of another one.               *)
Untouched(k) ==
    /\ pc'[k] = pc[k] /\ outcome'[k] = outcome[k]
    /\ status'[k] = status[k] /\ version'[k] = version[k]
    /\ k \in parents' <=> k \in parents
    /\ k \in leaves' <=> k \in leaves
    /\ k \in disowned' <=> k \in disowned
    /\ \A call \in Calls : <<k, call>> \in late' <=> <<k, call>> \in late

LEMMA OthersStayInOrder ==
    ASSUME IInv, NEW i \in Ingests, InOrder(i)', LateInOrder(i)',
           \A k \in Ingests \ {i} : Untouched(k)
    PROVE  IngestOrder'
<1>1. ASSUME NEW k \in Ingests \ {i} PROVE InOrder(k)' /\ LateInOrder(k)'
  <2>1. InOrder(k) /\ LateInOrder(k) /\ Untouched(k)
    BY DEF IInv, IngestOrder
  <2>2. Troubled(k)' <=> Troubled(k)
    BY <2>1 DEF Untouched, Troubled
  <2>3. InOrder(k)'
    BY <2>1, <2>2 DEF InOrder, Untouched
  <2>4. LateInOrder(k)'
    BY <2>1 DEF LateInOrder, Untouched, Calls
  <2> QED
    BY <2>3, <2>4
<1> QED
  BY <1>1 DEF IngestOrder

(* What a call that takes effect does to its document.                     *)
LEMMA EffectOnRow ==
    ASSUME IInv, NEW i \in Ingests, NEW call \in Calls, Effect(i, call),
           version[i] = 0 <=> call = "insert"
    PROVE  /\ RowsInOrder'
           /\ status' \in [Ingests -> {"absent", "processing", "ready", "failed"}]
           /\ version' \in [Ingests -> 0 .. Cardinality(Ingests)]
           /\ \A k \in Ingests : status'[k] = "absent" <=> version'[k] = 0
           /\ parents' \subseteq Ingests /\ leaves' \subseteq Ingests
           /\ version'[i] > 0
           /\ call # "insert" => version'[i] = version[i]
           /\ status'[i] = "ready" => call = "ready" \/ status[i] = "ready"
           /\ i \in parents => i \in parents'
           /\ i \in leaves /\ call # "purge" => i \in leaves'
           /\ call = "parents" => i \in parents'
           /\ call = "leaves" => i \in leaves'
           /\ \A k \in Ingests \ {i} :
                 /\ status'[k] = status[k] /\ version'[k] = version[k]
                 /\ k \in parents' <=> k \in parents
                 /\ k \in leaves' <=> k \in leaves
<1> USE DEF IInv, TypeOK, Effect
<1>1. RowsInOrder' /\ version' \in [Ingests -> 0 .. Cardinality(Ingests)]
  BY InsertKeepsRows, RowsKept
<1>2. /\ \A k \in Ingests \ {i} : version'[k] = version[k]
      /\ call # "insert" => version' = version
      /\ version'[i] > 0
  <2>1. call = "insert" => version'[i] >= 1 /\ version'[i] \in Nat
    BY NextVersionIsNewest
  <2> QED
    BY <2>1
<1>3. /\ status' \in [Ingests -> {"absent", "processing", "ready", "failed"}]
      /\ \A k \in Ingests \ {i} : status'[k] = status[k]
      /\ status'[i] = "ready" => call = "ready" \/ status[i] = "ready"
      /\ status'[i] # "absent"
  BY DEF Calls
<1>4. /\ parents' \subseteq Ingests /\ leaves' \subseteq Ingests
      /\ i \in parents => i \in parents'
      /\ i \in leaves /\ call # "purge" => i \in leaves'
      /\ call = "parents" => i \in parents'
      /\ call = "leaves" => i \in leaves'
      /\ \A k \in Ingests \ {i} : /\ k \in parents' <=> k \in parents
                                  /\ k \in leaves' <=> k \in leaves
  OBVIOUS
<1>5. \A k \in Ingests : status'[k] = "absent" <=> version'[k] = 0
  BY <1>1, <1>2, <1>3
<1> QED
  BY <1>1, <1>2, <1>3, <1>4, <1>5

(* The searches under way learn what has come into force.                  *)
LEMMA ObserveKeeps ==
    ASSUME IInv, Observe
    PROVE  search' \in [Searches -> Locals] /\ SearchOrder'
<1>1. search \in [Searches -> Locals] /\ InForce' \subseteq Ingests
  BY DEF IInv, TypeOK, InForce
<1>2. ASSUME NEW q \in Searches
      PROVE  /\ search'[q] \in Locals
             /\ search'[q].at = search[q].at
             /\ search'[q].hits = search[q].hits /\ search'[q].kept = search[q].kept
             /\ search[q].seen \subseteq search'[q].seen
             /\ search[q].at \in {"recall", "verify", "merge"} => InForce' \subseteq search'[q].seen
  <2>1. search[q] \in Locals
    BY <1>1
  <2>2. CASE search[q].at \in {"recall", "verify", "merge"}
    <3>1. search'[q] = [search[q] EXCEPT !.seen = @ \cup InForce']
      BY <2>2 DEF Observe
    <3> QED
      BY <1>1, <2>1, <3>1 DEF Locals
  <2>3. CASE search[q].at \notin {"recall", "verify", "merge"}
    BY <2>1, <2>3 DEF Observe
  <2> QED
    BY <2>2, <2>3
<1>3. search' \in [Searches -> Locals]
  BY <1>2 DEF Observe
<1>4. SearchOrder'
  BY <1>2 DEF IInv, SearchOrder, SoundLocals, OneVersion
<1> QED
  BY <1>3, <1>4

LEMMA SearchesKept ==
    ASSUME IInv, UNCHANGED <<status, version, search>>
    PROVE  search' \in [Searches -> Locals] /\ SearchOrder'
<1>1. InForce' = InForce
  BY DEF InForce
<1> QED
  BY <1>1 DEF IInv, TypeOK, SearchOrder, SoundLocals

(* A call of an ingestion that the store answered with success ...         *)
LEMMA WorkIsInOrder ==
    ASSUME IInv, NEW i \in Ingests, NEW call \in Calls, Works(i, call),
           NEW stage \in Stages, pc' = [pc EXCEPT ![i] = stage],
           outcome' \in [Ingests -> {"none", "created", "reused", "error"}],
           \A k \in Ingests \ {i} : outcome'[k] = outcome[k],
           UNCHANGED disowned,
           InOrder(i)'
    PROVE  IInv'
<1>1. version[i] = 0 <=> call = "insert"
  BY DEF Works, IInv, TypeOK, IngestOrder, InOrder, Calls
<1>2. /\ pc' \in [Ingests -> Stages] /\ pc'[i] = stage /\ pc[i] = call
      /\ \A k \in Ingests \ {i} : pc'[k] = pc[k]
      /\ cache' = cache /\ errors' = errors /\ late' = late /\ Effect(i, call) /\ Observe
  BY DEF Works, IInv, TypeOK
<1>3. TypeOK'
  BY <1>1, <1>2, EffectOnRow, ObserveKeeps DEF IInv, TypeOK
<1>4. LateInOrder(i)'
  <2>1. LateInOrder(i) /\ ~(<<i, "insert">> \in late)
    BY <1>2 DEF IInv, IngestOrder, LateInOrder, Calls
  <2> QED
    BY <1>1, <1>2, <2>1, EffectOnRow DEF LateInOrder
<1>5. \A k \in Ingests \ {i} : Untouched(k)
  BY <1>1, <1>2, EffectOnRow DEF Untouched
<1>6. IngestOrder'
  BY <1>4, <1>5, OthersStayInOrder
<1> QED
  BY <1>1, <1>2, <1>3, <1>6, EffectOnRow, ObserveKeeps DEF IInv

(* ... or with an error, and then its effect may still come.               *)
LEMMA ErrorIsInOrder ==
    ASSUME IInv, NEW i \in Ingests, NEW call \in Calls, Errs(i, call),
           NEW stage \in {"failed", "purge", "done"}, pc' = [pc EXCEPT ![i] = stage],
           stage = "done" <=> call \in {"insert", "purge"},
           outcome' \in [Ingests -> {"none", "created", "reused", "error"}],
           \A k \in Ingests \ {i} : outcome'[k] = outcome[k],
           outcome'[i] # "created",
           disowned' = IF call = "ready" THEN disowned \cup {i} ELSE disowned
    PROVE  IInv'
<1>1. /\ pc' \in [Ingests -> Stages] /\ pc'[i] = stage /\ pc[i] = call
      /\ \A k \in Ingests \ {i} : pc'[k] = pc[k]
      /\ late \subseteq late' /\ late' \subseteq late \cup {<<i, call>>}
      /\ errors' \in 0 .. MaxErrors
      /\ UNCHANGED <<status, version, parents, leaves, cache, search>>
  BY KnowledgeAssumption DEF Errs, IInv, TypeOK, Stages, Calls
<1>2. TypeOK'
  BY <1>1 DEF IInv, TypeOK
<1>3. InOrder(i) /\ LateInOrder(i)
  BY DEF IInv, IngestOrder
<1>4. InOrder(i)'
  BY <1>1, <1>3 DEF InOrder, Untroubled, Calls
<1>5. LateInOrder(i)'
  BY <1>1, <1>3 DEF InOrder, LateInOrder, Calls
<1>6. \A k \in Ingests \ {i} : Untouched(k)
  BY <1>1 DEF Untouched
<1>7. IngestOrder'
  BY <1>4, <1>5, <1>6, OthersStayInOrder
<1> QED
  BY <1>1, <1>2, <1>7, RowsKept, SearchesKept DEF IInv

LEMMA StageNames == Calls \subseteq Stages /\ {"prepare", "done"} \subseteq Stages
BY DEF Stages

LEMMA QuietStepKeeps ==
    ASSUME IInv, NEW i \in Ingests, Lookup(i) \/ Prepare(i)
    PROVE  IInv'
<1> USE DEF Goto, Return, stores
<1>1. PICK stage \in {"insert", "done", "parents", "failed"} :
         /\ pc' = [pc EXCEPT ![i] = stage]
         /\ \/ pc[i] = "new" /\ stage \in {"insert", "done"}
            \/ pc[i] = "prepare" /\ stage \in {"parents", "failed"}
  BY DEF Lookup, Prepare
<1>2. /\ outcome' \in [Ingests -> {"none", "created", "reused", "error"}]
      /\ \A k \in Ingests \ {i} : outcome'[k] = outcome[k]
      /\ outcome'[i] # "created"
      /\ UNCHANGED <<status, version, parents, leaves, errors, late, cache, disowned, search>>
  BY DEF Lookup, Prepare, IInv, TypeOK, IngestOrder, InOrder, Calls
<1>3. /\ pc' \in [Ingests -> Stages] /\ pc'[i] = stage
      /\ \A k \in Ingests \ {i} : pc'[k] = pc[k]
  BY <1>1 DEF IInv, TypeOK, Stages, Calls
<1>4. TypeOK'
  BY <1>2, <1>3 DEF IInv, TypeOK
<1>5. InOrder(i)'
  BY <1>1, <1>2, <1>3 DEF IInv, IngestOrder, InOrder, Untroubled, Troubled, Calls
<1>6. LateInOrder(i)'
  BY <1>1, <1>2, <1>3 DEF IInv, IngestOrder, InOrder, LateInOrder, Untroubled, Troubled, Calls
<1>7. \A k \in Ingests \ {i} : Untouched(k)
  BY <1>2, <1>3 DEF Untouched
<1>8. IngestOrder'
  BY <1>5, <1>6, <1>7, OthersStayInOrder
<1> QED
  BY <1>2, <1>4, <1>8, RowsKept, SearchesKept DEF IInv

(* The order of an ingestion after a call that succeeded.                  *)
LEMMA WorkInOrder ==
    ASSUME IInv, NEW i \in Ingests, NEW call \in Calls, Works(i, call),
           NEW stage, pc' = [pc EXCEPT ![i] = stage], UNCHANGED disowned,
           \/ /\ <<call, stage>> \in {<<"insert", "prepare">>, <<"parents", "leaves">>,
                                      <<"leaves", "ready">>, <<"failed", "purge">>}
              /\ outcome' = outcome
           \/ /\ call = "ready" /\ stage = "done"
              /\ outcome' = [outcome EXCEPT ![i] = "created"]
           \/ /\ call = "purge" /\ stage = "done"
              /\ outcome' = [outcome EXCEPT ![i] = "error"]
    PROVE  IInv'
<1>1. InOrder(i) /\ LateInOrder(i) /\ pc[i] = call /\ late' = late /\ Effect(i, call)
  BY DEF IInv, IngestOrder, Works
<1>2. version[i] = 0 <=> call = "insert"
  BY <1>1 DEF InOrder, IInv, TypeOK, Calls
<1>3. /\ stage \in Stages /\ pc'[i] = stage
      /\ outcome' \in [Ingests -> {"none", "created", "reused", "error"}]
      /\ \A k \in Ingests \ {i} : outcome'[k] = outcome[k]
      /\ call \notin {"ready", "purge"} => outcome'[i] = outcome[i]
      /\ call = "ready" => outcome'[i] = "created"
      /\ call = "purge" => outcome'[i] = "error"
  BY DEF IInv, TypeOK, Stages, Calls
<1>4. Troubled(i)' <=> Troubled(i)
  BY <1>1 DEF Troubled
<1>5. InOrder(i)'
  BY <1>1, <1>2, <1>3, <1>4, EffectOnRow DEF InOrder, Untroubled, Calls
<1> QED
  BY <1>1, <1>3, <1>5, WorkIsInOrder

LEMMA IngestKeeps ==
    ASSUME IInv, NEW i \in Ingests, IngestStep(i)
    PROVE  IInv'
<1> USE DEF Goto, Return
<1> DEFINE Outcomes == [Ingests -> {"none", "created", "reused", "error"}]
<1>1. {"insert", "parents", "leaves", "ready", "failed", "purge"} = Calls
  BY DEF Calls
<1>2. outcome \in Outcomes
  BY DEF IInv, TypeOK
<1>3. pc[i] # "done" => outcome[i] # "created"
  BY DEF IInv, IngestOrder, InOrder
<1>4. ASSUME NEW call \in Calls, Errs(i, call) PROVE outcome[i] # "created"
  BY <1>3, <1>4 DEF Errs, Calls
<1>5. CASE Insert(i)
  <2>1. CASE Works(i, "insert") /\ Goto(i, "prepare") /\ UNCHANGED outcome
    BY <1>1, <1>5, <2>1, WorkInOrder DEF Insert
  <2>2. CASE Errs(i, "insert") /\ Return(i, "error")
    <3>1. outcome' \in Outcomes /\ outcome'[i] = "error"
          /\ \A k \in Ingests \ {i} : outcome'[k] = outcome[k]
      BY <1>2, <2>2
    <3>2. disowned' = disowned
      BY <1>5 DEF Insert
    <3> QED
      BY <1>1, <2>2, <3>1, <3>2, ErrorIsInOrder
  <2> QED
    BY <1>5, <2>1, <2>2 DEF Insert
<1>6. CASE SaveParents(i)
  BY <1>1, <1>2, <1>4, <1>6, WorkInOrder, ErrorIsInOrder DEF SaveParents
<1>7. CASE Upsert(i)
  BY <1>1, <1>2, <1>4, <1>7, WorkInOrder, ErrorIsInOrder DEF Upsert
<1>8. CASE Publish(i)
  <2>1. CASE Works(i, "ready") /\ Return(i, "created") /\ UNCHANGED disowned
    BY <1>1, <2>1, WorkInOrder
  <2>2. CASE /\ Errs(i, "ready") /\ Goto(i, "failed")
             /\ disowned' = disowned \cup {i} /\ UNCHANGED outcome
    BY <1>1, <1>2, <1>4, <2>2, ErrorIsInOrder
  <2> QED
    BY <1>8, <2>1, <2>2 DEF Publish
<1>9. CASE MarkFailed(i)
  BY <1>1, <1>2, <1>4, <1>9, WorkInOrder, ErrorIsInOrder DEF MarkFailed
<1>10. CASE DeleteLeaves(i)
  <2>1. CASE Works(i, "purge")
    BY <1>1, <1>10, <2>1, WorkInOrder DEF DeleteLeaves
  <2>2. CASE Errs(i, "purge")
    <3>1. outcome' \in Outcomes /\ outcome'[i] = "error"
          /\ \A k \in Ingests \ {i} : outcome'[k] = outcome[k]
      BY <1>2, <1>10 DEF DeleteLeaves
    <3> QED
      BY <1>1, <1>10, <2>2, <3>1, ErrorIsInOrder DEF DeleteLeaves
  <2> QED
    BY <1>10, <2>1, <2>2 DEF DeleteLeaves
<1> QED
  BY <1>5, <1>6, <1>7, <1>8, <1>9, <1>10, QuietStepKeeps DEF IngestStep

(* A call lands whose ingestion has long gone on: it is of a document that *)
(* was never published with success.                                       *)
LEMMA LandKeeps ==
    ASSUME IInv, NEW i \in Ingests, NEW call \in Calls, Land(i, call)
    PROVE  IInv'
<1> USE DEF Land
<1>1. /\ InOrder(i) /\ LateInOrder(i) /\ <<i, call>> \in late /\ Troubled(i)
      /\ late' = late \ {<<i, call>>} /\ Effect(i, call) /\ Observe
      /\ UNCHANGED <<cache, errors, pc, outcome, disowned>>
  BY DEF IInv, IngestOrder, Troubled
<1>2. version[i] = 0 <=> call = "insert"
  BY <1>1 DEF LateInOrder
<1>3. TypeOK'
  BY <1>1, <1>2, EffectOnRow, ObserveKeeps DEF IInv, TypeOK
<1>4. pc[i] \notin Untroubled /\ outcome[i] # "created"
  BY <1>1 DEF InOrder
<1>5. InOrder(i)'
  BY <1>1, <1>2, <1>4, EffectOnRow DEF InOrder, LateInOrder, Untroubled, Calls
<1>6. LateInOrder(i)'
  BY <1>1, <1>2, EffectOnRow DEF LateInOrder
<1>7. \A k \in Ingests \ {i} : Untouched(k)
  BY <1>1, <1>2, EffectOnRow DEF Untouched
<1>8. IngestOrder'
  BY <1>5, <1>6, <1>7, OthersStayInOrder
<1> QED
  BY <1>1, <1>2, <1>3, <1>8, EffectOnRow, ObserveKeeps DEF IInv

-----------------------------------------------------------------------------
(* Searches *)

(* What ReadyDocuments returns is in force at that moment, and one version *)
(* of each source.                                                         *)
LEMMA ReadyIsInForce ==
    ASSUME IInv, NEW ids \in SUBSET Ingests
    PROVE  /\ ReadyDocuments(ids) \subseteq InForce
           /\ \A d, e \in ReadyDocuments(ids) : SameSource(d, e) => d = e
<1>1. \A i \in Ingests : version[i] \in Nat /\ (status[i] = "ready" => version[i] > 0)
  BY DEF IInv, TypeOK
<1>2. ReadyDocuments(ids) \subseteq InForce
  BY <1>1 DEF ReadyDocuments, Shadowed, InForce
<1>3. ASSUME NEW d \in ReadyDocuments(ids), NEW e \in ReadyDocuments(ids), SameSource(d, e)
      PROVE  d = e
  <2>1. version[d] = version[e]
    BY <1>1, <1>3, SourcesCompare DEF ReadyDocuments, Shadowed
  <2> QED
    BY <1>1, <1>3, <2>1 DEF IInv, RowsInOrder, ReadyDocuments
<1> QED
  BY <1>2, <1>3

(* A step of one search is judged by its new locals alone.                *)
LEMMA UpdateKeeps ==
    ASSUME IInv, NEW q \in Searches, NEW locals \in Locals, Update(q, locals),
           SoundLocals(locals), cache' \subseteq Ingests
    PROVE  IInv'
<1> USE DEF Update, stores
<1>1. /\ search' \in [Searches -> Locals] /\ search'[q] = locals
      /\ \A r \in Searches \ {q} : search'[r] = search[r]
  BY DEF IInv, TypeOK
<1>2. TypeOK'
  BY <1>1 DEF IInv, TypeOK
<1>3. RowsInOrder'
  BY RowsKept DEF IInv
<1>4. IngestOrder'
  BY DEF IInv, IngestOrder, InOrder, LateInOrder, Troubled
<1>5. InForce' = InForce
  BY DEF InForce
<1>6. SearchOrder'
  BY <1>1, <1>5 DEF IInv, SearchOrder, SoundLocals
<1> QED
  BY <1>2, <1>3, <1>4, <1>6 DEF IInv

LEMMA LocalsAreSound ==
    ASSUME IInv, NEW q \in Searches
    PROVE  search[q] \in Locals /\ SoundLocals(search[q])
BY DEF IInv, TypeOK, SearchOrder

LEMMA FailsIsSound ==
    ASSUME NEW s \in Locals, SoundLocals(s)
    PROVE  Fails(s) \in Locals /\ SoundLocals(Fails(s))
<1>1. CASE s.retried
  <2> DEFINE new == [s EXCEPT !.at = "answered", !.found = {}, !.hits = s.kept, !.kept = {}]
  <2>1. new \in Locals /\ Fails(s) = new
    BY <1>1 DEF Fails, Locals
  <2>2. /\ new.at = "answered" /\ new.hits = s.kept /\ new.kept = {} /\ new.seen = s.seen
    BY DEF Locals
  <2>3. SoundLocals(new)
    BY <2>2 DEF SoundLocals, DocumentsOf, OneVersion
  <2> QED
    BY <2>1, <2>3
<1>2. CASE ~s.retried
  <2>1. Fails(s) = [s EXCEPT !.at = "failed"]
    BY <1>2 DEF Fails
  <2> QED
    BY <2>1 DEF Locals, SoundLocals
<1> QED
  BY <1>1, <1>2

LEMMA SearchKeeps ==
    ASSUME IInv, NEW q \in Searches, SearchStep(q)
    PROVE  IInv'
<1> DEFINE s == search[q]
<1>1. /\ s \in Locals /\ SoundLocals(s) /\ cache \subseteq Ingests
      /\ InForce \subseteq Ingests /\ leaves \subseteq Ingests
  BY LocalsAreSound DEF IInv, TypeOK, InForce
<1>2. ASSUME Update(q, Fails(s)), UNCHANGED cache PROVE IInv'
  BY <1>1, <1>2, FailsIsSound, UpdateKeeps
<1>3. CASE SearchKnowledge(q)
  <2> DEFINE new == [s EXCEPT !.at = "recall", !.seen = InForce]
  <2>1. s.hits = {} /\ s.kept = {}
    BY <1>1, <1>3 DEF SearchKnowledge, SoundLocals
  <2>2. new \in Locals /\ SoundLocals(new)
    BY <1>1, <2>1 DEF Locals, SoundLocals, DocumentsOf, OneVersion
  <2> QED
    BY <1>1, <1>3, <2>2, UpdateKeeps DEF SearchKnowledge
<1>4. CASE Recall(q)
  <2>1. ASSUME NEW found \in SUBSET leaves,
               Update(q, [s EXCEPT !.at = "verify", !.found = found]), UNCHANGED cache
        PROVE  IInv'
    <3> DEFINE new == [s EXCEPT !.at = "verify", !.found = found]
    <3>1. new \in Locals /\ SoundLocals(new)
      BY <1>1, <1>4 DEF Recall, Locals, SoundLocals
    <3> QED
      BY <1>1, <2>1, <3>1, UpdateKeeps
  <2> QED
    BY <1>2, <1>4, <2>1 DEF Recall
<1>5. CASE Verify(q)
  <2> DEFINE ready == ReadyDocuments(s.found)
             new == [s EXCEPT !.at = "merge", !.found = {},
                              !.hits = [doc : ready, merged : {FALSE}]]
  <2>1. s.found \subseteq Ingests
    BY <1>1 DEF Locals
  <2>2. ready \subseteq InForce /\ \A d, e \in ready : SameSource(d, e) => d = e
    BY <2>1, ReadyIsInForce
  <2> HIDE DEF ready
  <2>3. InForce \subseteq s.seen
    BY <1>1, <1>5 DEF Verify, SoundLocals
  <2>4. new \in Locals
    BY <1>1, <2>2 DEF Locals, Hits
  <2>5. SoundLocals(new)
    BY <1>1, <2>2, <2>3 DEF Locals, SoundLocals, DocumentsOf, OneVersion
  <2>6. CASE Update(q, new)
    BY <1>1, <1>5, <2>4, <2>5, <2>6, UpdateKeeps DEF Verify
  <2> QED
    BY <1>2, <1>5, <2>6 DEF Verify, ready
<1>6. ASSUME NEW d \in Ingests, Merge(q, d) PROVE IInv'
  <2> DEFINE leaf == [doc |-> d, merged |-> FALSE]
             new == [s EXCEPT !.hits = (@ \ {leaf}) \cup {[doc |-> d, merged |-> TRUE]}]
  <2>1. leaf \in s.hits /\ s.at = "merge" /\ Update(q, new)
    BY <1>6 DEF Merge
  <2>2. cache' \subseteq Ingests
    BY <1>1, <1>6 DEF Merge, LoadParent
  <2>3. new \in Locals
    <3>1. [doc |-> d, merged |-> TRUE] \in Hits
      BY DEF Hits
    <3>2. (s.hits \ {leaf}) \cup {[doc |-> d, merged |-> TRUE]} \in SUBSET Hits
      BY <1>1, <3>1 DEF Locals
    <3> QED
      BY <1>1, <3>2 DEF Locals
  <2>4. SoundLocals(new)
    BY <1>1, <2>1 DEF Locals, SoundLocals, DocumentsOf, OneVersion
  <2> QED
    BY <2>1, <2>2, <2>3, <2>4, UpdateKeeps
<1>7. CASE Rewrite(q)
  <2> DEFINE new == [s EXCEPT !.at = "recall", !.retried = TRUE,
                              !.kept = s.hits, !.hits = {}]
  <2>1. new \in Locals /\ SoundLocals(new)
    BY <1>1, <1>7 DEF Rewrite, Locals, SoundLocals, DocumentsOf, OneVersion
  <2> QED
    BY <1>1, <1>7, <2>1, UpdateKeeps DEF Rewrite
<1>8. CASE Answer(q)
  <2>1. PICK hits \in {s.hits, s.kept} :
           Update(q, [s EXCEPT !.at = "answered", !.hits = hits, !.kept = {}])
    BY <1>8 DEF Answer, Answers
  <2> DEFINE new == [s EXCEPT !.at = "answered", !.hits = hits, !.kept = {}]
  <2>2. hits \in SUBSET Hits /\ DocumentsOf(hits) \subseteq s.seen /\ OneVersion(hits)
    BY <1>1 DEF Locals, SoundLocals
  <2>3. new \in Locals
    BY <1>1, <2>2 DEF Locals
  <2>4. new.at = "answered" /\ new.hits = hits /\ new.kept = {} /\ new.seen = s.seen
    BY <1>1 DEF Locals
  <2>5. SoundLocals(new)
    BY <2>2, <2>4 DEF SoundLocals, DocumentsOf, OneVersion
  <2> QED
    BY <1>1, <1>8, <2>1, <2>3, <2>5, UpdateKeeps DEF Answer
<1> QED
  BY <1>3, <1>4, <1>5, <1>6, <1>7, <1>8 DEF SearchStep

LEMMA StutterKeeps == IInv /\ UNCHANGED vars => IInv'
<1> SUFFICES ASSUME IInv, UNCHANGED vars PROVE IInv'
  OBVIOUS
<1> USE DEF vars
<1>1. TypeOK'
  BY DEF IInv, TypeOK
<1>2. IngestOrder'
  BY DEF IInv, IngestOrder, InOrder, LateInOrder, Troubled
<1> QED
  BY <1>1, <1>2, RowsKept, SearchesKept DEF IInv

LEMMA StepKeeps == IInv /\ [Next]_vars => IInv'
BY IngestKeeps, LandKeeps, SearchKeeps, StutterKeeps DEF Next

-----------------------------------------------------------------------------
(* The inductive invariant: the rows, each ingestion and what it left      *)
(* behind, and what each search holds.                                     *)
THEOREM Invariance == Spec => []IInv
BY Initially, StepKeeps, PTL DEF Spec

(* The rows of rag_documents keep their status, their numbers stay within  *)
(* the number of ingestions, and every local of a call is of its type.     *)
THEOREM TypeCorrect == Spec => []TypeOK
<1>1. IInv => TypeOK
  BY DEF IInv
<1> QED
  BY <1>1, Invariance, PTL

(* Every document SearchKnowledge returns was ready and the newest ready   *)
(* one of its source at some moment of the search.                         *)
THEOREM AnswersInForceHolds == Spec => []AnswersInForce
<1>1. IInv => AnswersInForce
  BY DEF IInv, SearchOrder, SoundLocals, AnswersInForce, Documents, DocumentsOf
<1> QED
  BY <1>1, Invariance, PTL

(* No answer of SearchKnowledge mixes two versions of a source.            *)
THEOREM OneVersionPerSourceHolds == Spec => []OneVersionPerSource
<1>1. IInv => OneVersionPerSource
  BY DEF IInv, SearchOrder, SoundLocals, OneVersionPerSource, Documents, OneVersion
<1> QED
  BY <1>1, Invariance, PTL

(* What Ingest publishes has its parents and leaves for ever, unless the   *)
(* publication itself returned an error.                                   *)
THEOREM ReadyCompleteHolds == Spec => []ReadyComplete
<1>1. IInv => ReadyComplete
  BY DEF IInv, IngestOrder, InOrder, ReadyComplete
<1> QED
  BY <1>1, Invariance, PTL

-----------------------------------------------------------------------------
(* Coverage *)

(* One row at a time changes, and never that of a document that was        *)
(* published with success.                                                 *)
LEMMA OneRowChanges ==
    ASSUME IInv, [Next]_vars
    PROVE  \/ UNCHANGED <<status, version>>
           \/ \E i \in Ingests :
                 /\ status[i] # "ready" \/ i \in disowned
                 /\ version'[i] >= version[i] /\ version'[i] \in Nat
                 /\ status[i] = "ready" => version'[i] = version[i]
                 /\ \A k \in Ingests \ {i} : status'[k] = status[k] /\ version'[k] = version[k]
<1>1. ASSUME NEW i \in Ingests, NEW call \in Calls, Effect(i, call),
             version[i] = 0 <=> call = "insert", status[i] # "ready" \/ i \in disowned
      PROVE  /\ version'[i] >= version[i] /\ version'[i] \in Nat
             /\ status[i] = "ready" => version'[i] = version[i]
             /\ \A k \in Ingests \ {i} : status'[k] = status[k] /\ version'[k] = version[k]
  BY <1>1, EffectOnRow DEF IInv, TypeOK
<1>2. ASSUME NEW i \in Ingests, NEW call \in Calls, Works(i, call)
      PROVE  /\ Effect(i, call)
             /\ version[i] = 0 <=> call = "insert"
             /\ status[i] # "ready" \/ i \in disowned
  <2>1. Effect(i, call) /\ pc[i] = call /\ InOrder(i) /\ version[i] \in Nat
    BY <1>2 DEF Works, IInv, TypeOK, IngestOrder
  <2>2. version[i] = 0 <=> call = "insert"
    BY <2>1 DEF InOrder, Calls
  <2>3. status[i] # "ready" \/ i \in disowned
    BY <2>1 DEF InOrder, Calls
  <2> QED
    BY <2>1, <2>2, <2>3
<1>3. ASSUME NEW i \in Ingests, NEW call \in Calls, Land(i, call)
      PROVE  /\ Effect(i, call)
             /\ version[i] = 0 <=> call = "insert"
             /\ status[i] # "ready" \/ i \in disowned
  <2>1. /\ Effect(i, call) /\ <<i, call>> \in late
        /\ InOrder(i) /\ LateInOrder(i) /\ Troubled(i) /\ version[i] \in Nat
    BY <1>3 DEF Land, IInv, TypeOK, IngestOrder, Troubled
  <2>2. version[i] = 0 <=> call = "insert"
    BY <2>1 DEF LateInOrder
  <2>3. status[i] # "ready" \/ i \in disowned
    BY <2>1 DEF InOrder
  <2> QED
    BY <2>1, <2>2, <2>3
<1>4. ASSUME NEW i \in Ingests, IngestStep(i)
      PROVE  (\E call \in Calls : Works(i, call)) \/ UNCHANGED <<status, version>>
  BY <1>4 DEF IngestStep, Lookup, Insert, Prepare, SaveParents, Upsert, Publish,
              MarkFailed, DeleteLeaves, Errs, Calls, stores
<1>5. ASSUME NEW q \in Searches, SearchStep(q) PROVE UNCHANGED <<status, version>>
  BY <1>5 DEF SearchStep, SearchKnowledge, Recall, Verify, Merge, Rewrite, Answer,
              Update, stores
<1>6. CASE UNCHANGED vars
  BY <1>6 DEF vars
<1> QED
  BY <1>1, <1>2, <1>3, <1>4, <1>5, <1>6 DEF Next

(* A source with a version in force keeps one, and only for a newer one    *)
(* does that version give way.                                             *)
THEOREM CoverageKeptHolds == Spec => CoverageKept
<1> DEFINE Ready == ReadyDocuments(Ingests)
           Kept == \A d \in Ready \ disowned : \E e \in Ready' :
                       SameSource(d, e) /\ version'[e] >= version[d]
<1>1. ASSUME IInv, [Next]_vars PROVE Kept
  <2> SUFFICES ASSUME NEW d \in Ready \ disowned
               PROVE  \E e \in Ready' : SameSource(d, e) /\ version'[e] >= version[d]
    OBVIOUS
  <2>1. /\ d \in Ingests /\ status[d] = "ready" /\ ~Shadowed(d)
        /\ \A k \in Ingests : version[k] \in Nat
    BY <1>1 DEF ReadyDocuments, IInv, TypeOK
  <2>2. CASE UNCHANGED <<status, version>>
    <3>1. d \in Ready'
      BY <2>1, <2>2 DEF ReadyDocuments, Shadowed
    <3> QED
      BY <2>1, <2>2, <3>1, SourcesCompare
  <2>3. ASSUME NEW i \in Ingests,
               status[i] # "ready" \/ i \in disowned,
               version'[i] >= version[i], version'[i] \in Nat,
               status[i] = "ready" => version'[i] = version[i],
               \A k \in Ingests \ {i} : status'[k] = status[k] /\ version'[k] = version[k]
        PROVE  \E e \in Ready' : SameSource(d, e) /\ version'[e] >= version[d]
    <3>1. d # i /\ status'[d] = "ready" /\ version'[d] = version[d]
      BY <2>1, <2>3
    <3>2. CASE ~Shadowed(d)'
      BY <2>1, <3>1, <3>2, SourcesCompare DEF ReadyDocuments
    <3>3. CASE Shadowed(d)'
      <4>1. SameSource(d, i) /\ status'[i] = "ready" /\ version'[i] > version[d]
        BY <2>1, <2>3, <3>1, <3>3 DEF Shadowed
      <4>2. ~Shadowed(i)'
        BY <2>1, <2>3, <3>1, <4>1, SourcesCompare DEF Shadowed
      <4>3. i \in Ready'
        BY <4>1, <4>2 DEF ReadyDocuments
      <4> QED
        BY <2>1, <2>3, <4>1, <4>3
    <3> QED
      BY <3>2, <3>3
  <2> QED
    BY <1>1, <2>2, <2>3, OneRowChanges
<1>2. IInv /\ [Next]_vars => [Kept]_vars
  BY <1>1
<1> QED
  BY <1>2, Invariance, PTL DEF Spec, CoverageKept

=============================================================================
