----------------------------- MODULE RunApproval -----------------------------
(***************************************************************************)
(* One live run of agent.Engine from POST /api/runs to its end: the        *)
(* workflow, the approval and execution gate, and the requests that        *)
(* approve or reject what waits (internal/agent/engine.go, Run and         *)
(* Approve).                                                               *)
(*                                                                         *)
(* Run works on its own copy of the run and persists it after every step;  *)
(* Approve works on the copy it loads from disk, under Engine.mu, which    *)
(* Run does not take.  The run is listed by GET /api/runs as soon as it is *)
(* on disk, so an approval need not wait for Run to return.                *)
(*                                                                         *)
(* The steps before the gate are one step: they persist a running run and  *)
(* have no side effects.  Runs do not share state, apart from the mutex.   *)
(***************************************************************************)
EXTENDS Integers, Sequences, FiniteSets

CONSTANTS
    Risk,        \* risk rank of each proposed action, in the order of the result
    MinRisks,    \* approval thresholds the selected policy may have
    Approvers,   \* approval requests; each is made once (bound)
    NoRun,       \* no file for the run
    NoApprover   \* Engine.mu is free

ActionIds == DOMAIN Risk

ASSUME ApprovalAssumption ==
    /\ Risk \in Seq(1..3)
    /\ MinRisks \subseteq 1..3
    /\ NoApprover \notin Approvers

VARIABLES
    up,          \* the process runs
    planner,     \* model tool calling is configured
    minRisk,     \* RequiredApprovalRisk of the selected policy
    pc,          \* of the request that called Run
    run,         \* its copy of the run
    next,        \* the action it is at
    saved,       \* the run on disk
    approval,    \* the approval requests
    mutex,       \* Engine.mu
    executions,  \* how often each action took effect
    granted,     \* history: approvals that went on to execute
    rejected,    \* history: rejections that were answered
    mishaps      \* history: what made the record differ from the effects: a
                 \*   "crash" before an effect was recorded, the last "save" of a
                 \*   request failed, a "race" with Run's last save lost a decision

vars == <<up, planner, minRisk, pc, run, next, saved, approval, mutex,
          executions, granted, rejected, mishaps>>

ActionStatus == {"proposed", "waiting_approval", "executed", "failed", "rejected"}

Run ==
    [status : {"running", "waiting_approval", "completed", "rejected", "failed"},
     actions : [ActionIds -> ActionStatus],
     pending : SUBSET ActionIds]

NewRun == [status |-> "running", actions |-> [a \in ActionIds |-> "proposed"],
           pending |-> {}]

Approval ==
    [pc : {"new", "waiting", "deciding", "recording", "answering", "returned"},
     approve : BOOLEAN, copy : Run, todo : SUBSET ActionIds]

NewApproval == [pc |-> "new", approve |-> FALSE, copy |-> NewRun, todo |-> {}]

TypeOK ==
    /\ up \in BOOLEAN
    /\ planner \in BOOLEAN
    /\ minRisk \in MinRisks
    /\ pc \in {"new", "working", "guard", "recorded", "returned"}
    /\ run \in Run
    /\ next \in 1..(Len(Risk) + 1)
    /\ saved \in {NoRun} \cup Run
    /\ approval \in [Approvers -> Approval]
    /\ mutex \in Approvers \cup {NoApprover}
    /\ executions \in [ActionIds -> Nat]
    /\ granted \subseteq Approvers
    /\ rejected \subseteq Approvers
    /\ mishaps \subseteq {"crash", "save", "race"}

Init ==
    /\ up = TRUE
    /\ planner \in BOOLEAN
    /\ minRisk \in MinRisks
    /\ pc = "new"
    /\ run = NewRun
    /\ next = 1
    /\ saved = NoRun
    /\ approval = [c \in Approvers |-> NewApproval]
    /\ mutex = NoApprover
    /\ executions = [a \in ActionIds |-> 0]
    /\ granted = {}
    /\ rejected = {}
    /\ mishaps = {}

-----------------------------------------------------------------------------
(* Run *)

RunnerOnly == UNCHANGED <<up, planner, minRisk, approval, mutex, granted, rejected>>

Begin ==
    /\ up /\ pc = "new"
    /\ \/ saved' = NewRun /\ pc' = "working"
       \/ pc' = "returned" /\ UNCHANGED saved
    /\ UNCHANGED <<run, next, executions, mishaps>>
    /\ RunnerOnly

(* The steps before the gate succeed: memory, tools, retrieval, analysis.  *)
Work ==
    /\ up /\ pc = "working"
    /\ pc' = "guard"
    /\ UNCHANGED <<run, next, saved, executions, mishaps>>
    /\ RunnerOnly

(* One of them fails, and the run with it; the error of saving the failed  *)
(* run is dropped.                                                         *)
Abandon ==
    /\ up /\ pc = "working"
    /\ pc' = "returned"
    /\ run' = [run EXCEPT !.status = "failed"]
    /\ saved' = run' \/ UNCHANGED saved
    /\ UNCHANGED <<next, executions, mishaps>>
    /\ RunnerOnly

(* Fault: an action at the threshold itself is taken to be below it.       *)
NeedsApproval_Above(a) == planner \/ Risk[a] > minRisk

NeedsApproval(a) == planner \/ Risk[a] >= minRisk

Waiting(a) == [run EXCEPT !.actions[a] = "waiting_approval", !.pending = @ \cup {a}]

(* The gate deals with one action: it waits, or takes effect at once, or   *)
(* its tool call fails.                                                    *)
GuardAction ==
    /\ up /\ pc = "guard" /\ next \in ActionIds
    /\ next' = next + 1
    /\ IF NeedsApproval(next)
       THEN run' = Waiting(next) /\ UNCHANGED executions
       ELSE \/ /\ run' = [run EXCEPT !.actions[next] = "executed"]
               /\ executions' = [executions EXCEPT ![next] = @ + 1]
            \/ /\ run' = [run EXCEPT !.actions[next] = "failed"]
               /\ UNCHANGED executions
    /\ UNCHANGED <<pc, saved, mishaps>>
    /\ RunnerOnly

(* finishStep of the gate persists the whole result and drops an error.    *)
GuardEnd ==
    /\ up /\ pc = "guard" /\ next \notin ActionIds
    /\ run' = [run EXCEPT !.status =
                   IF run.pending # {} THEN "waiting_approval" ELSE "completed"]
    /\ saved' = run' \/ UNCHANGED saved
    /\ pc' = "recorded"
    /\ UNCHANGED <<next, executions, mishaps>>
    /\ RunnerOnly

(* Run saves its copy once more, whatever is on disk by now: a decision    *)
(* that was recorded meanwhile is overwritten.                             *)
Overwrites == saved # run /\ saved.status \in {"completed", "rejected"}

FinalSave ==
    /\ up /\ pc = "recorded"
    /\ pc' = "returned"
    /\ \/ /\ saved' = run
          /\ mishaps' = mishaps \cup (IF Overwrites THEN {"race"} ELSE {})
       \/ /\ UNCHANGED saved
          /\ mishaps' = mishaps \cup (IF saved.status = "running" THEN {"save"} ELSE {})
    /\ UNCHANGED <<run, next, executions>>
    /\ RunnerOnly

-----------------------------------------------------------------------------
(* Approve *)

ApproverOnly == UNCHANGED <<up, planner, minRisk, pc, run, next>>

(* Fault: the state of the run is not looked at.                           *)
Approvable_AnyStatus == saved # NoRun

Approvable == saved # NoRun /\ saved.status = "waiting_approval" /\ saved.pending # {}

(* Fault: Approve without Engine.mu.                                       *)
Lock_Always(c) == mutex' = c

Lock(c) == mutex = NoApprover /\ mutex' = c

Ask(c, approve) ==
    /\ up /\ approval[c].pc = "new"
    /\ approval' = [approval EXCEPT ![c].pc = "waiting", ![c].approve = approve]
    /\ UNCHANGED <<saved, mutex, executions, granted, rejected, mishaps>>
    /\ ApproverOnly

(* The mutex is taken and the run loaded; a run that does not wait is      *)
(* refused.                                                                *)
Load(c) ==
    LET p == approval[c]
    IN  /\ up /\ p.pc = "waiting"
        /\ \/ /\ Approvable
              /\ Lock(c)
              /\ approval' = [approval EXCEPT ![c] =
                    [p EXCEPT !.pc = "deciding", !.copy = saved, !.todo = saved.pending]]
              /\ granted' = IF p.approve THEN granted \cup {c} ELSE granted
           \/ /\ ~Approvable
              /\ mutex = NoApprover
              /\ approval' = [approval EXCEPT ![c].pc = "returned"]
              /\ UNCHANGED <<mutex, granted>>
        /\ UNCHANGED <<saved, executions, rejected, mishaps>>
        /\ ApproverOnly

(* Fault: a failed call is recorded as an executed action.                 *)
Failure_Executed == "executed"
Failure == "failed"

(* One pending action, in the order of the result.                         *)
Decide(c) ==
    LET p == approval[c]
    IN  \E a \in p.todo :
        LET Step(status) == approval' = [approval EXCEPT ![c] =
                            [p EXCEPT !.copy.actions[a] = status, !.todo = @ \ {a}]]
        IN  /\ up /\ p.pc = "deciding"
            /\ \A b \in p.todo : a <= b
            /\ \/ ~p.approve /\ Step("rejected") /\ UNCHANGED executions
               \/ /\ p.approve
                  /\ Step("executed")
                  /\ executions' = [executions EXCEPT ![a] = @ + 1]
               \/ p.approve /\ Step(Failure) /\ UNCHANGED executions
            /\ UNCHANGED <<saved, mutex, granted, rejected, mishaps>>
            /\ ApproverOnly

(* finishStep persists the decided run and drops an error ...              *)
Close(c) ==
    LET p == approval[c]
        closed == [p.copy EXCEPT
                      !.status = IF p.approve THEN "completed" ELSE "rejected",
                      !.pending = {}]
    IN  /\ up /\ p.pc = "deciding" /\ p.todo = {}
        /\ approval' = [approval EXCEPT ![c] = [p EXCEPT !.pc = "recording", !.copy = closed]]
        /\ saved' = closed \/ UNCHANGED saved
        /\ UNCHANGED <<mutex, executions, granted, rejected, mishaps>>
        /\ ApproverOnly

(* Fault: an early return that keeps the mutex.                            *)
Unlock_Never(c) == UNCHANGED mutex

Unlock(c) == mutex' = NoApprover

(* ... then Approve saves it again and returns that error.                 *)
Return(c) ==
    LET p == approval[c]
    IN  /\ up /\ p.pc = "recording"
        /\ approval' = [approval EXCEPT ![c].pc = "returned"]
        /\ \/ /\ saved' = p.copy
              /\ rejected' = IF p.approve THEN rejected ELSE rejected \cup {c}
              /\ UNCHANGED mishaps
           \/ /\ UNCHANGED <<saved, rejected>>
              /\ mishaps' = mishaps \cup (IF saved # p.copy THEN {"save"} ELSE {})
        /\ Unlock(c)
        /\ UNCHANGED <<executions, granted>>
        /\ ApproverOnly

-----------------------------------------------------------------------------
(* The process dies.  It is a mishap when an effect is not on disk yet.    *)
Crash ==
    /\ up
    /\ up' = FALSE
    /\ pc' = IF pc = "new" THEN "new" ELSE "returned"
    /\ approval' = [c \in Approvers |->
          IF approval[c].pc = "new" THEN approval[c]
          ELSE [approval[c] EXCEPT !.pc = "returned"]]
    /\ mutex' = NoApprover
    /\ mishaps' = mishaps \cup
          (IF \E a \in ActionIds :
                 executions[a] > 0 /\ (saved = NoRun \/ saved.actions[a] # "executed")
           THEN {"crash"} ELSE {})
    /\ UNCHANGED <<planner, minRisk, run, next, saved, executions, granted, rejected>>

Restart ==
    /\ ~up
    /\ up' = TRUE
    /\ UNCHANGED <<planner, minRisk, pc, run, next, saved, approval, mutex,
                   executions, granted, rejected, mishaps>>

RunStep == Work \/ Abandon \/ GuardAction \/ GuardEnd \/ FinalSave

ApprovalStep(c) == Load(c) \/ Decide(c) \/ Close(c) \/ Return(c)

Next ==
    \/ Begin
    \/ RunStep
    \/ \E c \in Approvers, approve \in BOOLEAN : Ask(c, approve)
    \/ \E c \in Approvers : ApprovalStep(c)
    \/ Crash
    \/ Restart

Spec == Init /\ [][Next]_vars

(* Go runs every goroutine and sync.Mutex does not starve a waiter.  No    *)
(* fairness for requests being made, crashes and restarts.                 *)
Fairness ==
    /\ WF_vars(RunStep)
    /\ \A c \in Approvers : SF_vars(ApprovalStep(c))

FairSpec == Spec /\ Fairness

-----------------------------------------------------------------------------
(* A guarded action takes effect only by the decision of an approver: as   *)
(* often as approvals were granted at most, and any other action at most   *)
(* once.  Crashes, failed saves and overlapping requests included: none of *)
(* them makes an action run that nobody approved.                          *)
EffectsAuthorized ==
    \A a \in ActionIds :
        executions[a] <= IF planner \/ Risk[a] >= minRisk
                         THEN Cardinality(granted) ELSE 1

(* No action takes effect twice, however many approvals are sent and       *)
(* however they overlap with Run and with each other, as long as nothing   *)
(* was lost from the record: no crash before an effect was recorded, no    *)
(* last save that failed, and no decision overwritten by Run's last save.  *)
AtMostOnce == mishaps = {} => \A a \in ActionIds : executions[a] <= 1

(* What the status of a run says of an action that needed approval, and of *)
(* one that did not.                                                       *)
GuardedClaim(status) ==
    CASE status \in {"running", "failed"} -> {"proposed"}
      [] status = "waiting_approval" -> {"waiting_approval"}
      [] status = "rejected" -> {"rejected"}
      [] OTHER -> {"executed", "failed"}

FreeClaim(status) ==
    IF status \in {"running", "failed"} THEN {"proposed"} ELSE {"executed", "failed"}

Quiescent ==
    /\ pc = "returned"
    /\ \A c \in Approvers : approval[c].pc \in {"new", "waiting", "returned"}

(* When nobody works on the run and nothing was lost from its record, the  *)
(* record tells what happened.  An action is recorded as executed exactly  *)
(* when it took effect, so a failed, rejected or waiting one did not.  The *)
(* status of the run fits every action: while it waits, all that needs     *)
(* approval is pending; when it was rejected, all that needed approval is  *)
(* rejected; when it is completed, nothing is left undecided or rejected.  *)
RecordTruthful ==
    (Quiescent /\ mishaps = {} /\ saved # NoRun) =>
        /\ \A a \in ActionIds : saved.actions[a] = "executed" <=> executions[a] > 0
        /\ \A a \in ActionIds :
              saved.actions[a] \in IF NeedsApproval(a) THEN GuardedClaim(saved.status)
                                                      ELSE FreeClaim(saved.status)
        /\ saved.pending = {a \in ActionIds : saved.actions[a] = "waiting_approval"}
        /\ saved.status \in {"waiting_approval", "rejected"} =>
              \E a \in ActionIds : NeedsApproval(a)

(* A run that reached an end keeps it, through crashes and failed saves: a *)
(* second decision is refused and no request that is still at work rewrites *)
(* it, but for Run's last save when it overtakes a decision.               *)
SettledStaysSettled ==
    [][ (saved # NoRun /\ saved.status \in {"completed", "rejected", "failed"})
          => saved' = saved \/ "race" \in mishaps' \ mishaps ]_vars

(* Every request that began returns or dies with the process: the approval *)
(* of one run can neither block itself nor the next.                       *)
EveryRequestReturns ==
    /\ pc \notin {"new", "returned"} ~> pc = "returned"
    /\ \A c \in Approvers :
          approval[c].pc # "new" ~> approval[c].pc \in {"returned", "new"}

-----------------------------------------------------------------------------
(* docs/architecture.md: "Rejected approvals close the run and mark the    *)
(* exact pending actions rejected": once a rejection was answered, the run *)
(* is rejected for good.                                                   *)
RejectionCloses == rejected # {} => saved.status = "rejected"

=============================================================================
