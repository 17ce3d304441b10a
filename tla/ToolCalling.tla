----------------------------- MODULE ToolCalling -----------------------------
(***************************************************************************)
(* The bounded loop in which a model selects read-only tools:              *)
(* Engine.collectWithTools (internal/agent/toolcalling.go).                *)
(*                                                                         *)
(* The model is the environment: it may answer anything.  A request for a  *)
(* tool is abstracted to its cache key (a member of Reads), to "invalid"   *)
(* (an allowed tool, arguments that do not validate) or to "denied" (any   *)
(* other tool), chosen when the loop reaches the request; a batch is the   *)
(* number of its requests.  A final answer is abstracted to its task, or   *)
(* "malformed" for whatever strictObject and the answer checks refuse.     *)
(***************************************************************************)
EXTENDS Integers, FiniteSets

CONSTANTS
    Queries,        \* normalised knowledge queries
    Campaigns,      \* the cache key of the campaign read
    Rounds, MaxCalls, Repairs,   \* toolCallingLimits
    PolicyCalls,    \* values of MaxToolCalls in a policy; 0 is unset
    MaxBatch        \* requests in one response, at most (bound)

Reads == Queries \cup {Campaigns}
Tasks == {"diagnosis", "data_query", "knowledge_qa", "clarify"}

ASSUME LimitAssumption ==
    /\ Campaigns \notin Queries
    /\ {Rounds, MaxCalls, Repairs, MaxBatch} \subseteq Nat
    /\ PolicyCalls \subseteq Nat
    /\ Rounds > 0
    /\ Reads \cap {"invalid", "denied"} = {}

VARIABLES
    requested,    \* task of the request
    limit,        \* calls allowed: the smaller of MaxCalls and the policy's
    expired,      \* the context is cancelled or past its deadline
    pc,
    round, calls, errorsSeen, duplicates,
    batch,        \* requests of the last response still to be processed
    cache,        \* reads with a cached result
    gotCampaigns, gotKnowledge,
    outcome,      \* "running", "failed" or the accepted task
    context,      \* history: reads whose result reached the context
    invocations,  \* history: how often a read was sent to the registry
    failures      \* history: errors reported back to the model

vars == <<requested, limit, expired, pc, round, calls, errorsSeen, duplicates, batch,
          cache, gotCampaigns, gotKnowledge, outcome, context, invocations, failures>>

TypeOK ==
    /\ requested \in {"auto", "diagnosis", "data_query", "knowledge_qa"}
    /\ limit \in 0..MaxCalls
    /\ expired \in BOOLEAN
    /\ pc \in {"ask", "batch", "done"}
    /\ round \in 1..(Rounds + 1)
    /\ calls \in 0..limit
    /\ errorsSeen \in 0..(Repairs + 1)
    /\ duplicates \in 0..2
    /\ batch \in 0..MaxBatch
    /\ cache \subseteq Reads
    /\ gotCampaigns \in BOOLEAN
    /\ gotKnowledge \in BOOLEAN
    /\ outcome \in {"running", "failed"} \cup Tasks
    /\ context \subseteq Reads
    /\ invocations \in Nat
    /\ failures \in Nat

Init ==
    /\ requested \in {"auto", "diagnosis", "data_query", "knowledge_qa"}
    /\ \E p \in PolicyCalls : limit = IF p > 0 /\ p < MaxCalls THEN p ELSE MaxCalls
    /\ expired \in BOOLEAN
    /\ pc = "ask"
    /\ round = 1
    /\ calls = 0 /\ errorsSeen = 0 /\ duplicates = 0 /\ batch = 0
    /\ cache = {}
    /\ gotCampaigns = FALSE /\ gotKnowledge = FALSE
    /\ outcome = "running"
    /\ context = {}
    /\ invocations = 0
    /\ failures = 0

-----------------------------------------------------------------------------
Finish(result) == pc' = "done" /\ outcome' = result

Configuration == <<requested, limit>>
Evidence == <<cache, gotCampaigns, gotKnowledge, context, invocations>>

(* The deadline passes or the caller goes away.                            *)
Expire ==
    /\ pc # "done"
    /\ ~expired
    /\ expired' = TRUE
    /\ UNCHANGED <<Configuration, pc, round, calls, errorsSeen, duplicates, batch,
                   Evidence, outcome, failures>>

(* Fault: running out of rounds is not the end.                            *)
Abort_OnlyExpired ==
    /\ pc = "ask"
    /\ expired
    /\ Finish("failed")
    /\ UNCHANGED <<Configuration, expired, round, calls, errorsSeen, duplicates, batch,
                   Evidence, failures>>

(* The rounds are used up, the context is done, the model call fails, or   *)
(* its response is cut off.                                                *)
Abort ==
    /\ pc = "ask"
    /\ Finish("failed")
    /\ UNCHANGED <<Configuration, expired, round, calls, errorsSeen, duplicates, batch,
                   Evidence, failures>>

Answering == pc = "ask" /\ round <= Rounds /\ ~expired

(* validatePlannerFinal: the task asked for, and the reads it rests on.    *)
FinalAcceptable(task) ==
    /\ task \in Tasks
    /\ requested # "auto" => task \in {requested, "clarify"}
    /\ task \in {"diagnosis", "data_query"} => gotCampaigns
    /\ task \in {"diagnosis", "knowledge_qa"} => gotKnowledge

AcceptFinal(task) ==
    /\ Answering
    /\ FinalAcceptable(task)
    /\ Finish(task)
    /\ UNCHANGED <<Configuration, expired, round, calls, errorsSeen, duplicates, batch,
                   Evidence, failures>>

(* An unacceptable final is sent back while repairs are left.              *)
RefuseFinal ==
    /\ Answering
    /\ errorsSeen' = errorsSeen + 1
    /\ IF errorsSeen' > Repairs
       THEN Finish("failed") /\ UNCHANGED <<round, failures>>
       ELSE /\ round' = round + 1
            /\ failures' = failures + 1
            /\ UNCHANGED <<pc, outcome>>
    /\ UNCHANGED <<Configuration, expired, calls, duplicates, batch, Evidence>>

(* Fault: the budget is compared before the batch is added to it.          *)
BatchFits_BeforeAdding(n) == calls < limit

BatchFits(n) == calls + n <= limit

(* The whole batch is checked, against the budget and for identifiers,     *)
(* before any of its requests is executed.                                 *)
AcceptBatch(n) ==
    /\ Answering
    /\ \/ BatchFits(n) /\ pc' = "batch" /\ batch' = n /\ UNCHANGED outcome
       \/ Finish("failed") /\ UNCHANGED batch
    /\ UNCHANGED <<Configuration, expired, round, calls, errorsSeen, duplicates,
                   Evidence, failures>>

-----------------------------------------------------------------------------
(* One request of the batch.  Its tool message answers it; the message of  *)
(* the last one starts the next round.                                     *)
Reply ==
    /\ batch' = batch - 1
    /\ UNCHANGED outcome
    /\ IF batch = 1 THEN pc' = "ask" /\ round' = round + 1
       ELSE UNCHANGED <<pc, round>>

Processing == pc = "batch" /\ calls' = calls + 1

Deny ==
    /\ Processing
    /\ Finish("failed")
    /\ UNCHANGED <<Configuration, expired, round, errorsSeen, duplicates, batch,
                   Evidence, failures>>

ReportError ==
    /\ errorsSeen' = errorsSeen + 1
    /\ IF errorsSeen' > Repairs
       THEN Finish("failed") /\ UNCHANGED <<round, batch, failures>>
       ELSE Reply /\ failures' = failures + 1

InvalidArguments ==
    /\ Processing
    /\ ReportError
    /\ UNCHANGED <<Configuration, expired, duplicates, Evidence>>

Cached(r) ==
    /\ Processing
    /\ r \in cache
    /\ duplicates' = duplicates + 1
    /\ IF duplicates' >= 2 THEN Finish("failed") /\ UNCHANGED <<round, batch>>
       ELSE Reply
    /\ UNCHANGED <<Configuration, expired, errorsSeen, Evidence, failures>>

Invoke(r) ==
    /\ Processing
    /\ r \notin cache
    /\ invocations' = invocations + 1

(* Fault: a result that is too large still counts as evidence.             *)
ReadFails_Counts(r) ==
    /\ Invoke(r)
    /\ ReportError
    /\ gotCampaigns' = (gotCampaigns \/ r = Campaigns)
    /\ gotKnowledge' = (gotKnowledge \/ r \in Queries)
    /\ UNCHANGED <<Configuration, expired, duplicates, cache, context>>

(* The tool fails, times out, is cancelled, or its result is too large.    *)
ReadFails(r) ==
    /\ Invoke(r)
    /\ ReportError
    /\ UNCHANGED <<Configuration, expired, duplicates, cache, gotCampaigns,
                   gotKnowledge, context>>

(* Fault: the result is not cached.                                        *)
Remember_Nothing(r) == UNCHANGED cache
Remember(r) == cache' = cache \cup {r}

ReadSucceeds(r) ==
    /\ Invoke(r)
    /\ ~expired
    /\ Remember(r)
    /\ gotCampaigns' = (gotCampaigns \/ r = Campaigns)
    /\ gotKnowledge' = (gotKnowledge \/ r \in Queries)
    /\ context' = context \cup {r}
    /\ Reply
    /\ UNCHANGED <<Configuration, expired, errorsSeen, duplicates, failures>>

(* The loop has returned.                                                  *)
Done == pc = "done" /\ UNCHANGED vars

Step ==
    \/ Abort
    \/ \E task \in Tasks : AcceptFinal(task)
    \/ RefuseFinal
    \/ \E n \in 1..MaxBatch : AcceptBatch(n)
    \/ Deny
    \/ InvalidArguments
    \/ \E r \in Reads : Cached(r) \/ ReadFails(r) \/ ReadSucceeds(r)

Next == Expire \/ Step \/ Done

Spec == Init /\ [][Next]_vars

(* Every model call and every tool call carries a deadline, so a step that *)
(* can be taken is taken.                                                  *)
FairSpec == Spec /\ WF_vars(Step)

-----------------------------------------------------------------------------
(* A failed read is never taken for empty data: the accepted task is the   *)
(* one that was requested, or a clarification, and the results it needs    *)
(* are in the context, whatever failed, was repeated or was refused.       *)
EvidenceBacked ==
    outcome \in Tasks =>
        /\ requested \in {"auto", outcome} \/ outcome = "clarify"
        /\ outcome \in {"diagnosis", "data_query"} => Campaigns \in context
        /\ outcome \in {"diagnosis", "knowledge_qa"} => context \cap Queries # {}

(* The registry is reached at most as often as the budget of the policy    *)
(* allows, over all rounds and batches, failed calls included; and the     *)
(* model is told of at most Repairs errors, of its finals and of its       *)
(* requests together: the next one ends the run, not another round.        *)
BudgetKept == invocations <= limit /\ failures <= Repairs

(* A successful read is served from the cache and never sent again: every  *)
(* repeated invocation follows a failure.                                  *)
NoReadRepeated == invocations <= Cardinality(context) + errorsSeen

(* Whatever the model answers, the loop comes to an end.                   *)
Terminates == <>(pc = "done")

=============================================================================
