-------------------------- MODULE ToolCallingProofs --------------------------
(***************************************************************************)
(* Proofs about ToolCalling, for all limits, queries and policies: type    *)
(* correctness, the budgets, and what an answer rests on.                  *)
(***************************************************************************)
EXTENDS ToolCalling, FiniteSetTheorems, TLAPS

(* While the loop runs its counters are below their limits, so that the    *)
(* next error, repetition or round can be counted before it ends the loop. *)
WithinLimits ==
    /\ pc # "done" => errorsSeen <= Repairs /\ duplicates <= 1 /\ outcome = "running"
    /\ pc = "batch" => round <= Rounds /\ batch > 0 /\ calls + batch <= limit

(* The cache has the reads whose results are in the context, and the two   *)
(* flags say which kinds of them there are.                                *)
EvidenceKept ==
    /\ cache = context
    /\ IsFiniteSet(context)
    /\ gotCampaigns => Campaigns \in context
    /\ gotKnowledge => context \cap Queries # {}

(* A request that reaches the registry was counted as a call, and what     *)
(* came back was a new result or an error.                                 *)
Accounted ==
    /\ invocations <= calls
    /\ failures <= errorsSeen /\ failures <= Repairs
    /\ NoReadRepeated

IInv == TypeOK /\ WithinLimits /\ EvidenceKept /\ Accounted /\ EvidenceBacked

-----------------------------------------------------------------------------
LEMMA LimitsAreNumbers ==
    Rounds \in Nat /\ Rounds > 0 /\ MaxCalls \in Nat /\ Repairs \in Nat /\ MaxBatch \in Nat
BY LimitAssumption

LEMMA Initially == Init => IInv
<1> SUFFICES ASSUME Init PROVE IInv
  OBVIOUS
<1>1. limit \in 0..MaxCalls
  <2>1. PICK p \in PolicyCalls : limit = IF p > 0 /\ p < MaxCalls THEN p ELSE MaxCalls
    BY DEF Init
  <2>2. p \in Nat
    BY LimitAssumption
  <2> QED
    BY <2>1, <2>2, LimitsAreNumbers
<1>2. TypeOK
  <2>1. /\ round \in 1..(Rounds + 1)
        /\ calls \in 0..limit
        /\ errorsSeen \in 0..(Repairs + 1)
        /\ duplicates \in 0..2
        /\ batch \in 0..MaxBatch
        /\ invocations \in Nat /\ failures \in Nat
    BY <1>1, LimitsAreNumbers DEF Init
  <2>2. gotCampaigns \in BOOLEAN /\ gotKnowledge \in BOOLEAN /\ expired \in BOOLEAN
    BY Zenon DEF Init
  <2> QED
    BY <1>1, <2>1, <2>2 DEF Init, TypeOK
<1>3. WithinLimits
  BY LimitsAreNumbers DEF Init, WithinLimits
<1>4. EvidenceKept
  BY FS_EmptySet DEF Init, EvidenceKept
<1>5. Accounted
  BY FS_EmptySet, LimitsAreNumbers DEF Init, Accounted, NoReadRepeated
<1>6. EvidenceBacked
  BY DEF Init, EvidenceBacked, Tasks
<1> QED
  BY <1>2, <1>3, <1>4, <1>5, <1>6 DEF IInv

-----------------------------------------------------------------------------
(* Steps that look at no result: the evidence and its accounts stay.       *)
LEMMA SameEvidence ==
    ASSUME IInv, UNCHANGED <<Configuration, Evidence>>,
           calls' >= calls, errorsSeen' >= errorsSeen,
           calls' \in Nat, errorsSeen' \in Nat,
           failures' <= errorsSeen', failures' <= Repairs
    PROVE  EvidenceKept' /\ Accounted'
<1> USE DEF IInv, Configuration, Evidence
<1>1. EvidenceKept'
  BY DEF EvidenceKept
<1>2. Cardinality(context) \in Nat
  BY FS_CardinalityType DEF EvidenceKept
<1>3. Accounted'
  BY <1>2, LimitsAreNumbers DEF Accounted, NoReadRepeated, TypeOK
<1> QED
  BY <1>1, <1>3

LEMMA ExpireKeeps == IInv /\ Expire => IInv'
<1> SUFFICES ASSUME IInv, Expire PROVE IInv'
  OBVIOUS
<1> USE LimitsAreNumbers DEF IInv, Expire, Configuration, Evidence
<1>1. TypeOK'
  BY DEF TypeOK
<1>2. WithinLimits' /\ EvidenceBacked'
  BY DEF WithinLimits, EvidenceBacked
<1>3. EvidenceKept' /\ Accounted'
  BY SameEvidence DEF TypeOK, Accounted
<1> QED
  BY <1>1, <1>2, <1>3

LEMMA AbortKeeps == IInv /\ Abort => IInv'
<1> SUFFICES ASSUME IInv, Abort PROVE IInv'
  OBVIOUS
<1> USE LimitsAreNumbers DEF IInv, Abort, Finish, Configuration, Evidence
<1>1. TypeOK'
  BY DEF TypeOK
<1>2. WithinLimits' /\ EvidenceBacked'
  BY DEF WithinLimits, EvidenceBacked, Tasks
<1>3. EvidenceKept' /\ Accounted'
  BY SameEvidence DEF TypeOK, Accounted
<1> QED
  BY <1>1, <1>2, <1>3

(* validatePlannerFinal and the flags: what an accepted task needs is in   *)
(* the context.                                                            *)
LEMMA AcceptFinalKeeps ==
    ASSUME IInv, NEW task \in Tasks, AcceptFinal(task)
    PROVE  IInv'
<1> USE LimitsAreNumbers DEF IInv, AcceptFinal, Finish, Configuration, Evidence
<1>1. TypeOK'
  BY DEF TypeOK
<1>2. WithinLimits'
  BY DEF WithinLimits
<1>3. EvidenceKept' /\ Accounted'
  BY SameEvidence DEF TypeOK, Accounted
<1>4. EvidenceBacked'
  BY DEF FinalAcceptable, EvidenceKept, EvidenceBacked, TypeOK
<1> QED
  BY <1>1, <1>2, <1>3, <1>4

LEMMA RefuseFinalKeeps == IInv /\ RefuseFinal => IInv'
<1> SUFFICES ASSUME IInv, RefuseFinal PROVE IInv'
  OBVIOUS
<1> USE LimitsAreNumbers DEF IInv, RefuseFinal, Answering, Finish, Configuration, Evidence
<1>1. TypeOK'
  BY DEF TypeOK, WithinLimits
<1>2. WithinLimits' /\ EvidenceBacked'
  BY DEF WithinLimits, EvidenceBacked, Tasks, TypeOK
<1>3. EvidenceKept' /\ Accounted'
  BY SameEvidence DEF TypeOK, Accounted
<1> QED
  BY <1>1, <1>2, <1>3

(* The batch that was accepted fits into what is left of the budget.       *)
LEMMA AcceptBatchKeeps ==
    ASSUME IInv, NEW n \in 1..MaxBatch, AcceptBatch(n)
    PROVE  IInv'
<1> USE LimitsAreNumbers
    DEF IInv, AcceptBatch, BatchFits, Answering, Finish, Configuration, Evidence
<1>1. TypeOK'
  BY DEF TypeOK
<1>2. WithinLimits' /\ EvidenceBacked'
  BY DEF WithinLimits, EvidenceBacked, Tasks, TypeOK
<1>3. EvidenceKept' /\ Accounted'
  BY SameEvidence DEF TypeOK, Accounted
<1> QED
  BY <1>1, <1>2, <1>3

-----------------------------------------------------------------------------
(* One request of a batch *)

LEMMA DenyKeeps == IInv /\ Deny => IInv'
<1> SUFFICES ASSUME IInv, Deny PROVE IInv'
  OBVIOUS
<1> USE LimitsAreNumbers DEF IInv, Deny, Processing, Finish, Configuration, Evidence
<1>1. TypeOK'
  BY DEF TypeOK, WithinLimits
<1>2. WithinLimits' /\ EvidenceBacked'
  BY DEF WithinLimits, EvidenceBacked, Tasks, TypeOK
<1>3. EvidenceKept' /\ Accounted'
  BY SameEvidence DEF TypeOK, Accounted
<1> QED
  BY <1>1, <1>2, <1>3

(* A request takes one call of those the batch has reserved, and its reply *)
(* leaves the others reserved.                                             *)
LEMMA RepliesInLimits ==
    ASSUME IInv, Processing, UNCHANGED Configuration,
           \/ Reply
           \/ (Finish("failed") /\ UNCHANGED <<round, batch>>)
    PROVE  /\ limit' \in 0..MaxCalls /\ calls' \in 0..limit'
           /\ pc' \in {"ask", "batch", "done"}
           /\ round' \in 1..(Rounds + 1) /\ batch' \in 0..MaxBatch
           /\ outcome' \in {"running", "failed"}
           /\ pc' # "done" => outcome' = "running" /\ Reply
           /\ pc' = "batch" => round' <= Rounds /\ batch' > 0 /\ calls' + batch' <= limit'
BY LimitsAreNumbers DEF IInv, TypeOK, WithinLimits, Processing, Reply, Finish, Configuration

(* An error is counted, and told to the model while repairs are left.      *)
LEMMA ErrorsInLimits ==
    ASSUME IInv, Processing, ReportError
    PROVE  /\ errorsSeen' = errorsSeen + 1 /\ errorsSeen' \in 0..(Repairs + 1)
           /\ failures' \in Nat /\ failures' <= errorsSeen' /\ failures' <= Repairs
           /\ \/ Reply /\ errorsSeen' <= Repairs
              \/ Finish("failed") /\ UNCHANGED <<round, batch>>
BY LimitsAreNumbers DEF IInv, TypeOK, WithinLimits, Accounted, Processing, ReportError

LEMMA InvalidArgumentsKeeps == IInv /\ InvalidArguments => IInv'
<1> SUFFICES ASSUME IInv, InvalidArguments PROVE IInv'
  OBVIOUS
<1> USE DEF InvalidArguments
<1>1. Processing /\ ReportError /\ UNCHANGED Configuration
  OBVIOUS
<1>2. TypeOK'
  BY <1>1, RepliesInLimits, ErrorsInLimits DEF IInv, TypeOK, Configuration, Evidence
<1>3. WithinLimits' /\ EvidenceBacked'
  BY <1>1, RepliesInLimits, ErrorsInLimits
     DEF IInv, WithinLimits, EvidenceBacked, Tasks, Processing, Finish
<1>4. EvidenceKept' /\ Accounted'
  BY <1>1, ErrorsInLimits, SameEvidence, LimitsAreNumbers DEF IInv, TypeOK, Processing
<1> QED
  BY <1>2, <1>3, <1>4 DEF IInv

LEMMA CachedKeeps ==
    ASSUME IInv, NEW r \in Reads, Cached(r)
    PROVE  IInv'
<1> USE DEF Cached
<1>1. /\ Processing /\ UNCHANGED Configuration
      /\ \/ Reply /\ duplicates' < 2
         \/ Finish("failed") /\ UNCHANGED <<round, batch>>
  BY DEF IInv, TypeOK
<1>2. duplicates' \in 0..2
  BY <1>1 DEF IInv, TypeOK, WithinLimits, Processing
<1>3. TypeOK'
  BY <1>1, <1>2, RepliesInLimits DEF IInv, TypeOK, Configuration, Evidence
<1>4. WithinLimits' /\ EvidenceBacked'
  BY <1>1, <1>2, RepliesInLimits
     DEF IInv, WithinLimits, EvidenceBacked, Tasks, Processing, Finish
<1>5. EvidenceKept' /\ Accounted'
  BY <1>1, SameEvidence DEF IInv, TypeOK, Accounted, Processing
<1> QED
  BY <1>3, <1>4, <1>5 DEF IInv

(* A read that failed left the registry with an error, not with evidence.  *)
LEMMA ReadFailsKeeps ==
    ASSUME IInv, NEW r \in Reads, ReadFails(r)
    PROVE  IInv'
<1> USE DEF ReadFails, Invoke
<1>1. Processing /\ ReportError /\ UNCHANGED Configuration
  OBVIOUS
<1>2. TypeOK'
  BY <1>1, RepliesInLimits, ErrorsInLimits DEF IInv, TypeOK, Configuration
<1>3. WithinLimits' /\ EvidenceBacked'
  BY <1>1, RepliesInLimits, ErrorsInLimits
     DEF IInv, WithinLimits, EvidenceBacked, Tasks, Processing, Finish
<1>4. EvidenceKept'
  BY DEF IInv, EvidenceKept
<1>5. Cardinality(context) \in Nat
  BY FS_CardinalityType DEF IInv, EvidenceKept
<1>6. Accounted'
  BY <1>1, <1>5, ErrorsInLimits
     DEF IInv, Accounted, NoReadRepeated, TypeOK, Processing
<1> QED
  BY <1>2, <1>3, <1>4, <1>6 DEF IInv

(* A read that succeeded was not in the cache: it adds one to the context. *)
LEMMA ReadSucceedsKeeps ==
    ASSUME IInv, NEW r \in Reads, ReadSucceeds(r)
    PROVE  IInv'
<1> USE DEF ReadSucceeds, Invoke, Remember
<1>1. Processing /\ Reply /\ UNCHANGED Configuration
  OBVIOUS
<1>2. gotCampaigns' \in BOOLEAN /\ gotKnowledge' \in BOOLEAN
  BY DEF IInv, TypeOK
<1>3. TypeOK'
  BY <1>1, <1>2, RepliesInLimits DEF IInv, TypeOK, Configuration
<1>4. WithinLimits' /\ EvidenceBacked'
  BY <1>1, RepliesInLimits
     DEF IInv, WithinLimits, EvidenceBacked, Tasks, Processing, Reply
<1>5. /\ IsFiniteSet(context')
      /\ Cardinality(context') = Cardinality(context) + 1
      /\ Cardinality(context) \in Nat
  BY FS_AddElement, FS_CardinalityType DEF IInv, EvidenceKept
<1>6. EvidenceKept'
  BY <1>5 DEF IInv, EvidenceKept, TypeOK, Reads
<1>7. Accounted'
  BY <1>1, <1>5 DEF IInv, Accounted, NoReadRepeated, TypeOK, Processing
<1> QED
  BY <1>3, <1>4, <1>6, <1>7 DEF IInv

-----------------------------------------------------------------------------
LEMMA StepKeeps == IInv /\ [Next]_vars => IInv'
<1> SUFFICES ASSUME IInv, [Next]_vars PROVE IInv'
  OBVIOUS
<1>1. CASE Expire
  BY <1>1, ExpireKeeps
<1>2. CASE Step
  BY <1>2, AbortKeeps, AcceptFinalKeeps, RefuseFinalKeeps, AcceptBatchKeeps, DenyKeeps,
     InvalidArgumentsKeeps, CachedKeeps, ReadFailsKeeps, ReadSucceedsKeeps DEF Step
<1>3. CASE UNCHANGED vars
  BY <1>3 DEF vars, IInv, TypeOK, WithinLimits, EvidenceKept, Accounted, EvidenceBacked,
              NoReadRepeated
<1> QED
  BY <1>1, <1>2, <1>3 DEF Next, Done

(* The inductive invariant holds of every behaviour of the loop.           *)
THEOREM Invariance == Spec => []IInv
BY Initially, StepKeeps, PTL DEF Spec

(* Counters keep their ranges whatever the model answers (toolCallingLimits, *)
(* collectWithTools).                                                        *)
THEOREM TypeCorrect == Spec => []TypeOK
<1>1. IInv => TypeOK
  BY DEF IInv
<1> QED
  BY <1>1, Invariance, PTL

(* An accepted answer is of the task asked for and rests on reads that     *)
(* succeeded (validatePlannerFinal).                                       *)
THEOREM EvidenceBackedHolds == Spec => []EvidenceBacked
<1>1. IInv => EvidenceBacked
  BY DEF IInv
<1> QED
  BY <1>1, Invariance, PTL

(* The registry is never reached more often than the budget allows, nor    *)
(* the model told of more errors than it may repair.                       *)
THEOREM BudgetKeptHolds == Spec => []BudgetKept
<1>1. IInv => BudgetKept
  BY LimitsAreNumbers DEF IInv, Accounted, BudgetKept, TypeOK
<1> QED
  BY <1>1, Invariance, PTL

(* A read is sent to the registry again only after it failed.              *)
THEOREM NoReadRepeatedHolds == Spec => []NoReadRepeated
<1>1. IInv => NoReadRepeated
  BY DEF IInv, Accounted
<1> QED
  BY <1>1, Invariance, PTL

=============================================================================
