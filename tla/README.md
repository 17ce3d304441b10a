# Specifications of EvoOps

EvoOps is an advertising assistant whose *policy* (approval threshold, retrieval
settings, ROI threshold, prompt) evolves: a regression suite (the Harness) replays the
active policy, its failures are attributed to fields, a candidate is derived, evaluated
against its parent, given canary traffic and promoted, or rolled back. Around that loop
runs an agent that diagnoses a store, waits for human approval before it executes
anything risky, learns from feedback, and reads a knowledge base kept in three stores.

This directory holds TLA+ models of the parts of that program that keep state or decide
something, the TLC instances that check them, and TLAPS proofs, for every value of the
constants, about the policy lifecycle and the service that drives it, the policy store,
the Harness, runs and approvals, tool calling, the knowledge base, search, and feedback
with what it advises. Line numbers below refer to `src/`; `PROJECT.json` maps every definition
to its lines.

## 1. Inventory

| Component | State | Operations | Interacts with |
|---|---|---|---|
| `policy.Manager` | `policies.json`: active, previous, canary version and percentage, map of policies; a mutex | NewManager, Select, GenerateCandidate, MarkEvaluated, StartCanary, Promote, Rollback | repository; called by evolution, engine, HTTP |
| `evolution.Service` | none between requests; locals of each request; reports and run records on disk | RunHarness, GenerateCandidate, Evolve, and delegation of the release operations | Manager, Harness, optimizer, repository |
| `harness.Suite`, semantic judge | the suite file, read at start; locals of an evaluation | Evaluate: two replays per case, six layers of scores, gate, attribution | engine in replay mode, a judge model |
| `prompt` optimizers | none | Optimize, Normalize, Validate | a chat model |
| `repository.FileRepository` | one JSON file per aggregate; an RWMutex | save, load, list | everybody; the file system |
| `agent.Engine` | a run per request, also on disk; a mutex taken by Approve only | Run, Replay, Approve | Manager, tools, memory, repository |
| analyzer (`agent`) | none | Analyze, ApplyMerchantMemory | engine, memory |
| tool calling (`agent`) | locals of one loop: rounds, calls, errors, cache, evidence | collectWithTools | a chat model, the tool registry |
| `memory.Service` | a profile of at most 200 facts per store; a mutex | Get, Validate, Learn | repository; feedback handler |
| `rag.Service` | document rows and parents (PostgreSQL), leaves (Milvus), cached parents (Redis) | Ingest, SearchKnowledge | three stores with no common transaction |
| chunker, DashScope clients (`rag`) | none | ChunkDocument, Embed, Rerank | two remote models |
| `retrieval.Engine` | chunks of the local articles | Search | dataset |
| `dataset` | read-only articles and campaigns; list of executed operations | Store, SearchKnowledge, Execute | either search backend, tools |
| `tools.Registry` | tools and MCP sessions | Register, ConnectMCP, Invoke | engine |
| `httpapi`, `app`, `cmd`, `config` | wiring | handlers, serve, CLI commands | all |

What makes these parts hard, and what makes them correct:

* **Policy lifecycle.** Every operation is atomic in one process, but their sequences are
  not: a credential is a statement about two policies and one suite, and promotions,
  rollbacks, re-evaluations, displaced canaries and restarts come between its writing and
  its use. Correct means: one active policy; a release rests on the policy's own passing
  report against the policy that is active; a rollback stays on one edge of the lineage;
  nothing but a rollback loosens the approval threshold; a candidate changes what the
  failures call for and nothing else.
* **Evolution.** A request holds no lock between its steps, which take minutes. Correct
  means that the Manager is only driven as its lifecycle allows, that every credential's
  report is on disk, and that recorded runs describe a consistent comparison.
* **Harness.** Weighted scores, thresholds below one, tolerances of a regression gate.
  Correct means: no defect of any case or replay is made up for by the rest; every defect
  reaches the attribution; tolerances do not add up over a chain of promotions.
* **Repository.** Nested locks, errors at every step, a fallback that removes a file
  before it replaces it, crashes, and a command line beside the server with locks of its
  own. Correct means: one document, changed by whole updates.
* **Runs and approvals.** `Run` and `Approve` write the same file from copies of their
  own, and `Run` does not take the mutex. Correct means: effects need a decision and happen
  once; the record is truthful; an end is an end.
* **Tool calling.** An adversarially unhelpful model, a deadline, five limits. Correct
  means: budgets are kept, answers rest on reads that succeeded, the loop ends.
* **Knowledge base.** Three stores, partial failure, effects that land after an error was
  returned, concurrent versions of a source. Correct means: answers from one version in
  force, nothing published incomplete, nothing lost while it is replaced.
* **Search.** Windows on three levels, embeddings in batches, fusion, reranking, merging,
  a budget and a second attempt. Correct means: all of the text is searchable where it is;
  the best hit is answered; parents replace children that earn it.
* **Feedback.** Three writes per request, two files, a limit of facts, concurrent
  requests. Correct means: facts are traceable, the newest survive, records are truthful,
  and the merchant's last word decides how the next run shows an action, and only that.

`PROJECT.json` lists the hazards of this kind at their lines, those no property covers
with the reason.

## 2. Modules

```
PolicyMutation      fields of a policy: derivation, completion       (operators)
  PolicyRelease     policy.Manager over policies.json                 EXTENDS
    Evolution       requests of evolution.Service, composed with it   EXTENDS
      EvolutionProofs     theorems about both                         EXTENDS, TLAPS
Harness             harness.Suite and its judge
  HarnessProofs     theorems                                          EXTENDS, TLAPS
PolicyStore         one update of the Manager, opened up, in several processes
  AtomicDocument    what it implements                                INSTANCE WITH
  PolicyStoreProofs theorems                                          EXTENDS, TLAPS
RunApproval         agent.Engine.Run and Approve
  RunApprovalProofs theorems                                          EXTENDS, TLAPS
ToolCalling         agent.collectWithTools
  ToolCallingProofs theorems                                          EXTENDS, TLAPS
KnowledgeBase       rag.Service over three stores
  KnowledgeBaseProofs     theorems                                    EXTENDS, TLAPS
Arrangements        sorting and filtering as places in a list         (operators)
  Chunking          windows, sentences, trees of chunks               (operators) EXTENDS
    Retrieval       one search, by either backend                     EXTENDS
      RetrievalProofs     theorems about both                         EXTENDS, TLAPS
  Analysis          diagnosis and its personalization                 (operators) EXTENDS
    MemoryLearning  feedback handler, memory.Service, two files       EXTENDS
      MemoryLearningProofs  theorems about both                       EXTENDS, TLAPS
```

Definitions named `<Operation>_<Fault>` are not part of any specification. Each is an
operation with one plausible programming error; substituting it for the operation makes
the property that `PROJECT.json` names for it fail.

**PolicyMutation** (`policy/manager.go` 101-245, 387-426). `Mutate(base, cats, fb, opt)` is
the candidate's parameters from those of the active policy, the failed layers, the
feedback totals and the optimizer's result; `Normalize` completes a policy read from an
older file. The ROI threshold is in hundredths, as the code rounds it; a prompt is a
member of a set; the retrieval weights, which no mutation touches, are left out.

**PolicyRelease** (`manager.go` 23-353). The variables are the fields of
`domain.PolicyState`, the suite of the running process and one history variable. One
action per Manager operation, because the Manager's mutex is held from load to rename;
`Start` is NewManager with the completion of legacy files, `Stop` the end of the process.
A report is what the Manager reads of it. `MarkEvaluated` may be handed any report of the
loaded suite whose baseline has ever been active: an evaluation takes arbitrarily long.

**Evolution** (`evolution/service.go`). A session is a request with its locals and a `pc`;
each step ends with at most one write. `Generate` uses the attribution of the policy read
at the beginning and derives from the one that is active by then, as the code does. The
administrator's calls, crashes and restarts interleave. `Suite.Evaluate` is its outcome.

**Harness** (`harness/suite.go` 66-690, `semantic_evaluator.go`). Opens that outcome up: a
baseline and then a candidate are evaluated, case by case, with a first and a second
replay each. The agent and the judge answer anything in a set; a replay is what the scores
read of it. Scores are integers in ten-thousandths, the precision to which the code rounds
the score of a layer. Where the exact sum lies at a tolerance of the gate, floating
point may fall on either side, so the verdict is a choice there. A quotient is a pair, so
that it can be compared with a threshold exactly; the edit distance behind the similarity
of trajectories is computed row by row, as in the code.

**PolicyStore** and **AtomicDocument** (`manager.go` 30-48, 368-379, `repository.go`
145-159, 225-270). The step that PolicyRelease takes at once: mutex, read lock, load,
write lock and temporary file, rename, the remove-and-rename fallback, answer, and an error at
every one; and the start of a process, which writes the bootstrap document when it finds
no file. Processes share the file and nothing else. The document is the set of updates
it contains, so a lost update is a missing element. `damage` records the first step
after which the code promises nothing: a fallback that removed the file and could not
replace it, or a process that wrote over an update it had not read.

**RunApproval** (`agent/engine.go` 114-220, 336-398). `Run` works on `run` and saves to
`saved`; each approval has a copy of its own. Saves that drop their error are modelled as
saves that may not happen. `mishaps` names the three events after which record and
effects may differ: a crash before an effect is on disk, a last save of Run or Approve that
fails while the disk holds something older, and Run's last save when it overwrites a decision
that was recorded after the gate's. `AtMostOnce` and `RecordTruthful` hold until the first of
them, `SettledStaysSettled` but for the third, and `EffectsAuthorized` through all of them.

**ToolCalling** (`agent/toolcalling.go` 192-358). The model is the environment. A request
is its cache key, `"invalid"` or `"denied"`, chosen when the loop reaches it.

**KnowledgeBase** (`rag/service.go` 42-276, `postgres.go`, `milvus.go`, `redis.go`). Every
call of a store either works, or errs with its effect landing now, later (`late`,
`Land`) or never. A search keeps, as history, every document that was in force at some
moment of it.

**Arrangements**. What the filter loops and `sort.SliceStable` make of a list is a set of
its places in some order: `Ascending` keeps the order of the list, `Descending` sorts places
by a key, ties in the order of the list, and `ElementsAt` reads the list there. Written
this way a sort can be reasoned about: it is a function, defined without recursion, onto
the places.

**Chunking** (`rag/chunker.go`, `retrieval/engine.go` `buildCorpus`). A text is a sequence
of letters, blanks and stops; `SlidingWindows`, the trimming of a window and the nesting
of three levels are as in the code, with offsets relative to the parent where it has them.

**Retrieval** (`rag/service.go` 122-276, `milvus.go`, `dashscope.go`, `retrieval/engine.go`,
`dataset/dataset.go`). Documents at rest, two backends behind one contract: embedding
in batches, rank fusion with its weights, reranking or its fallback, merging twice, the
context budget, the rewritten second attempt. What an index ranks and a model scores is
chosen from sets of answers, wrong ones (short, repeated) included.

**Analysis** (`agent/analyzer.go` 29-154). Which actions a list of campaigns calls for,
which memory speaks about an action, and in which order actions are shown.

**MemoryLearning** (`httpapi/server.go` 140-180, `memory/service.go` 59-207). The handler's
stages, a clock that may tie or reorder requests, the facts derived from each feedback,
the service's mutex, and files that the repository's fallback may tear. A run that reads
the profile is an evaluation of `ApplyMerchantMemory`, in every state.

## 3. Runs

| Run | Instance | States | Shows |
|---|---|---|---|
| `policy_release` | 4 versions, 2 suites, 2 attributions, percentages 0, 5 and 51 | 458,213 | seven invariants, `PromotionNeverLooser`, `AllowlistRespected` |
| `policy_release_suite` | the same | violation | `ReleaseRechecksSuite` |
| `evolution` | 3 sessions, 3 versions, 1 suite | 285,668 | reports on disk, consistent run records, refinement of PolicyRelease |
| `evolution_mutations` | 2 sessions, 3 versions | violation | `MutationsFromParent` |
| `harness` | 2 cases of 16 and 3 replays, a deviating second replay, 4 judgements, 2 sets of limits | 771,256 | complete reports in range, no defect passes, defects are attributed, no drift |
| `policy_store` | a server with 2 updates and 1 read, a command with 1 update | 152,892 | reads, refinement of AtomicDocument, every call returns |
| `run_approval` | 4 actions (risks 1, 3, 1, 3), 2 thresholds, 2 approvals | 155,686 | effects, records, ends, every request returns |
| `run_approval_rejection` | 1 approval | violation | `RejectionCloses` |
| `tool_calling` | the code's limits (6 rounds, 4 calls, 2 repairs), 2 queries, batches up to 5, policy budget unset or 2 | 23,584 | evidence, budgets, no read repeated, `Terminates` |
| `knowledge_base` | 3 ingestions of one source (third content = first), 1 search, 1 store error | 829,005 | answers in force, one version, complete publications, `CoverageKept` |
| `retrieval` | 2 libraries of 2 documents, 3 chunk configurations (one invalid), both backends, 5 rankings, 5 answers of the reranker, 3 outages | 116,815 | the index is complete, the best hit survives, merges are earned, stale leaves cannot silence a search |
| `memory_learning` | 3 feedbacks (2, 3, 3 facts), capacity 4, clock 0..2, 2 ROI thresholds | 222,516 | sources, newest facts, records, what a run makes of them |

Why the bounds are enough. Four versions hold the bootstrap, its child, a grandchild and a
sibling, so a promotion, a rollback, a displaced canary and a candidate of each of two
active policies coexist; the proofs cover any number. Percentages are one allowed, one zero and
one too large; stores are one below and one above every percentage. Three sessions let one
be overtaken while another generates and a third evaluates. In the Harness each replay
of the first case but the good one deviates in one respect, or in two that could cancel
out; the second case has no relevant chunks, operations or budget, for the defaults of
empty expectations; of the two limits of cost, five model turns keep one and exceed the
other, and the budget of a case is the smaller of its own and the policy's. In the policy store one update of the server is answered or in the
file system while another waits, and a command overtakes both. A batch of five exceeds
the budget of four. In the knowledge base one error with a late effect already reaches every
combination of stores for a single document, three ingestions give an old version, a newer
one and a reused content; a second error multiplies the states without a new kind of
interleaving, but was not checked. Texts of eight to thirteen characters are longer than
the windows of every level, end and begin with blanks, and have windows of blanks alone;
one library has as many stale leaves as candidates are asked for, the other one fewer.
Capacity four cuts a feedback's three facts apart, and two feedbacks contradict a third
about one action. Calls that are made once are the bound on behaviours in
PolicyStore, RunApproval, KnowledgeBase and MemoryLearning; Versions bounds them in the
policy modules.

Deadlock is checked except in `knowledge_base`, `memory_learning` and `retrieval`, where all
calls having returned is the normal end. ToolCalling marks its end by the action `Done`.

**Symmetry** is used for candidates, suites and sessions, and for the two ingestions with
equal content, only in runs without liveness properties.

**Fairness.** PolicyStore: strong fairness of every update and every read, which wait
for locks that others keep taking: Go schedules every goroutine, and `sync.Mutex` and
`sync.RWMutex` do not starve waiters; calls being made, starts and crashes have none.
RunApproval: weak fairness of the goroutine of Run, which waits for nobody, and strong
fairness of each approval, which waits for the mutex; no fairness of requests, crashes
and restarts. ToolCalling: weak fairness of the loop as a whole, because every model and
tool call has a deadline. No property relies on the model, a store or a user being helpful.

## 4. Where the code differs from what is written about it

1. `ReleaseRechecksSuite`: `docs/self-evolution.md:51` says canary and promotion re-check
   the credential's fields, `evaluated_suite_version` included. `manager.go:301` and
   `:321` check the report and the version only. A restart with another suite keeps old
   evaluations valid.
2. `MutationsFromParent`: `evolution/service.go:72-73` says mutations derive from current
   failures; a promotion during the replay makes the parent another policy than the one
   replayed. `RecordedRunsConsistent` shows that Evolve refuses such a candidate later.
3. `RejectionCloses`: `docs/architecture.md:125` says a rejection closes the run; Run's last
   save (`engine.go:163`) can overwrite it. The overwriting is the mishap `race`: after it a
   second approval can execute what the first one has executed. `SettledStaysSettled` shows
   that no other step reopens a run, and `AtMostOnce` that approvals which overlap with Run do
   no harm as long as none of their decisions is overwritten.

Three limits are not divergences but are worth knowing. `AtomicUnlessDamaged` exempts the
moment between the removal and the second rename of the fallback (`repository.go:264-269`),
which the atomic replacement of `docs/architecture.md:88` is not, and an update of one
process written over by another. It shows that nothing else loses an update.
`NotCrowdedOut` allows an empty answer once the leaves of superseded versions can fill
the candidates of a search (`milvus.go:120`), which they then do. And `PassedIsSound` needs
suites like the one in the repository: the F1 thresholds of the outcome layer, 0.95 for signals
and 0.90 for operations, let a wrong signal pass in a case that expects ten or more of them,
and a missing operation in one that expects six or more. `SuiteAssumption` admits nine and
five; `data/harness/suite.json` has at most two signals and one operation per case.

## 5. Proofs

Every safety property of the passing runs is proved for every value of the constants, and
so are the two refinements. Each proof module has one inductive invariant (`IInv`;
`ServiceInv` of Evolution; `AdviceInv`, above `IInv`, for what MemoryLearning advises), its lemma for the initial
states, one lemma per action or kind of action, a theorem `Invariance`, and the properties
as corollaries of it. TLC checked each invariant on the instance of the run first. The
constants are assumed to be what the named `ASSUME`s say; TLC evaluates those on every run.

**Policies** (`EvolutionProofs`, first half; `PromptAssumption`, `VersionAssumption`,
`InputAssumption`). `IInv` is the checked invariants together with `Structure`. None of them
is inductive alone. A promotion keeps `CredentialsEarned` only
because a canary's credential is its own, which generation endangers by copying the
active policy's; generation keeps it only because a fresh version has never been active, so
the versions that ever were must still be in the map (`Structure`). `RollbackOneEdge` needs
that no policy is its own parent; `LineageTightens` needs that a derivation tightens
(`MutateInRange`) and that completing a legacy file leaves the threshold alone
(`NormalizeInRange`), which needs the parameters of existing policies to be complete and in
range while a process runs (`TypeOK`). `ServedNeverLooser` then follows without a step of
its own, from `CanaryFresh` (the canary is a child of the active policy) and
`LineageTightens`; `PromotionNeverLooser` from the invariant and the guard of Promote;
`AllowlistHolds` from `AllowlistTheorem`, which says of the operators alone that a derivation
changes only fields the attribution allows.

**Evolution** (`EvolutionProofs`, second half). A request works for minutes on what it once
read, so `ServiceInv` says of its locals only what no other request and no administrator
takes back (`SoundLocals`): the base was active once, its baseline report is on disk, the
candidate is in the map, a passing report about the two is on disk before it is handed to the
Manager, and a candidate about to be given traffic has earned its credential. `ManagerKeeps`
is the rely condition: whatever operation of the Manager comes between, it forgets no policy,
no parent, no past and no credential. `ReleaseStep` is the refinement: each action of the
service is one operation of PolicyRelease, with a report that operation accepts, or leaves the
policies alone. Hence `ImplementsReleaseHolds`, and the theorems about `Spec` carry over
(`ServiceReleasesSoundly`).

**Policy store** (`PolicyStoreProofs`, `StoreAssumption`). `LocksMatchCalls` needs no other
invariant. While nothing is damaged (`Intact`), what a call has loaded is the document, but
for updates of other processes (`NothingForgotten`); an update is in the document from its
rename on (`WrittenOnce`); the file is missing only between the two steps of one fallback
(`OneReplacement`, `FileThere`). Each step then is an update, a read or a stutter of
AtomicDocument, until `damage` is recorded.

**Runs and approvals** (`RunApprovalProofs`, `ApprovalAssumption`). `Authorized` counts: the
executions of a guarded action are at most the granted approvals that have spent their turn on it,
so an approval that is about to execute still has one to spend. `RunnerOrder` and
`RequestOrder` say what Run and each approval know at each stage, from the mutex of Approve
and from Run's not taking it, and how far they have decided each action: every copy of the run
that can reach the disk is `Told`, its status fits its actions. `OnDisk` says what a save can
find on disk, with every mishap included: while an approval works, the run that waits or the
one it has closed, so only Run's last save can rewrite an end. `Faithful`, the agreement of
record and effects, is inductive only while `mishaps` is empty, and is stated so.

**Tool calling** (`ToolCallingProofs`, `LimitAssumption`). The counters stay below their limits
while the loop runs (`WithinLimits`, whence the budgets), the cache is the set of reads whose
results are in the context (`EvidenceKept`, whence evidence), and invocations and failures are accounted for.

**Knowledge base** (`KnowledgeBaseProofs`, `KnowledgeAssumption`). Versions of a source are
distinct and there is always a newest to count on from (`RowsInOrder`). `IngestOrder` says what
an ingestion has written at each stage and what a call that landed after its error may still
change. `SearchOrder` ties the hits a search holds to one moment of verification each.

**Feedback** (`MemoryLearningProofs`, `MemoryAssumption`). The holder of the mutex has read the
profile as it is (`ProfileOwned`); facts are learned in their turn (`LearnedInTurn`). The core is
`PushedOutByNewer`: the profile is sorted, and a fact that is gone from it, unless torn away, left a full
profile of facts at least as new. That needs lemmas on merging a feedback's facts
into a sorted sequence and cutting it off.

`MemoryAdvises` needs two more things (`AdviceInv`). What a memory says of an operation is about a
campaign of the store (`Aimed`), so all candidates for an action match it exactly and only kind and
time rank them. And no memory that was torn away comes back (`TornApart`), because the facts of a
request are new when it saves them. `SelectedIs` then says that some memory is selected wherever one
is left, since the first of the deciding kind in a sorted profile cannot be outranked, and that no
memory of that kind in the profile is newer; by `PushedOutByNewer`, neither is one that was pushed
out of it. `Reordered` says that the sort only moves actions, by `DescendingFalls`.

**Harness** (`HarnessProofs`; `SuiteAssumption`, `ReplayAssumption`, `LimitAssumption`,
`NoReportAssumption`). Here the steps are simple and the operators are not. For each layer a lemma
says that its score lies between 0 and 1, that its verdict excludes the defects that belong to it,
and how high its score is when it passes: `RetrievalSound` (a discounted gain is at most the ideal one,
`GainBounded`), `TrajectorySound` (full coverage and an expected sequence that is a subsequence of the
other: `CoverageFull`, `SimilarityFull`, by an invariant of the rows of the matrix, `RowCorrect`),
`SafetySound`, `OutcomeSound` (by the bounds above, an F1 over its threshold is 1), `SemanticSound`,
`CostSound`. `ReportSound` puts the layers of a case together: with the weights, all passing means a score
of at least 0.9265, or 0.904 with a judge, which is `Floor`. The inductive invariant then says of the
trail of reports that a defect found so far has failed its layer in one of them (`DefectsTraced`), and
`AggregateSound` that means and conjunctions over the cases keep both facts; when the baseline and
when the candidate is concluded, every defect is attributed (`AllAttributed`).

The theorems of the library that state induction take an operator as a parameter and cannot be
instantiated by the provers at hand. `Smallest` derives the least element of a set of naturals from the
well-foundedness of inclusion among finite sets; `Induction` and `Recursion` follow for sets
and for recursive functions, and are what the sums, gains and matrix rows are proved with.

**Search and chunker** (`RetrievalProofs`; `RetrievalAssumption`: limits are positive, `CandidateK` is
at least `TopK`, the weights add up to one, no document is blank, and an index ranks every leaf
once; chunk sizes may be invalid, the embedding service may answer anything, and so may the reranker
with scores that are not negative).
`IInv` says of each stage of a search what the ones before have made of the hits: leaves, each there
once (`Raw`), in the order of their fused scores (`ByRRF`) or of their reranked ones (`ByRerank`), then
parents that have earned their places (`Earned`); that the best score so far heads the hits of this attempt or of
the first one (`Ranked`); and that nothing was found only where superseded leaves can fill
the candidates (`Found`, `Crowded`). The argument has four layers.

* *Lists.* `Arrangement`: there are as many places as members, and no two members have as many
  others before them, so sorting and filtering lose and repeat nothing (`AscendingRises`,
  `DescendingFalls`, `AtPlaces`).
* *Scores.* Fused scores are fractions, whose order must be transitive for sorting to make sense
  (`AheadOrders`); rounding and normalizing keep it (`RoundedIs`, `NormalizingScores`).
* *Stages*, as relations between a list and the places of another: `Thinned` (filters, and the budget,
  which always takes the first hit), `Shuffled` (sorts) and `Regrouped` (merging). A parent takes the
  first place and the best score of its group, so the order survives both passes
  (`MergingKeepsOrder`, for `BestFirst`); a group leaves as a whole, so no child stays beside
  its parent (`MergingEarns`, for `MergeEarned`). For `NotCrowdedOut`, `ManyStale` counts: when
  filtering leaves nothing, the leaves ranked for the query are all superseded, and there are
  `CandidateK` of them or all there are.
* *Trees.* `WindowsCover`: each position of a text lies in a window of `SlidingWindows`, the last one
  that starts at or before it (`Strides`, division with remainder): either it reaches past the
  position, or the code has stopped at an earlier one that reaches the end. `Trimming`, `CuttingOut`
  and `CuttingUp` carry covering and locating through trimming and one level of nesting. Three
  levels of windows, or one of sentences, are a `SoundTree`, which with the batches of vectors is
  `IndexSound`.

Only model-checked: the liveness properties `EveryCallReturns`, `EveryRequestReturns` and `Terminates`,
which are out of the prover's reach.

## 6. Not modelled

* BM25, the hashed vectors and the lexical reranker of the local backend: floating-point
  formulas. Their rankings and scores are free choices in Retrieval.
* The exact rounding of floating point elsewhere: Harness takes either verdict where a sum
  lies at a tolerance, and rounds quotients to the precision of the report. The thresholds
  0.72 of the retrieval layer (`suite.go:177`) and 0.93 of the outcome layer (`suite.go:307`) are
  compared with the rounded score in the model and with the unrounded one in the code, so a
  score less than 0.00005 below them passes in the model only.
* The two step sequences of a Harness case (`suite.go:211-214`): the execution mode of the
  replay chooses one; a case of the model has the one for the mode of the process, which
  does not change while a suite is evaluated.
* Replays whose final rankings list more than eight chunks together: `Discount` is a table of
  eight logarithms, and `WellFormedReplay` requires that they suffice. The code has no such
  bound; one search answers at most `TopK` chunks, but a replay may search several times.
* The models' texts, prompts and JSON; wording of evidence, impacts and failures; parsing of
  files; HTTP.
* Memory fixtures of Harness cases: a case's preferences are part of what its replay answers.
* Tenants in the knowledge base (`store_id`, `scope`): every source is visible to every search.
* Recovery of runs left `running` by a crash: the code has none.
* Configuration, authentication, rate limits, listings and the web page: no shared state.

## 7. Plan

Done: the modules of section 2, the runs of section 3, and the proofs of section 5, which leave
no safety property of a passing run that is model-checked only. Left to model:

1. What re-ingesting an older content should do (`rag/postgres.go:44`), once the project decides it.
2. Recovery of runs that a crash left `running` (`agent/engine.go:141`), once the code has one.
3. The memory fixtures of Harness cases, as input of Analysis instead of a replay's answer.

## 8. Running

```
tlc -config MCPolicyRelease.cfg MCPolicyRelease.tla     # any run: its cfg and module
tlapm RetrievalProofs.tla                                # five to eight minutes
tlapm HarnessProofs.tla                                  # two to three minutes
tlapm EvolutionProofs.tla                                # a minute, as MemoryLearningProofs
tlapm ToolCallingProofs.tla                              # less, as the other proof modules
```
