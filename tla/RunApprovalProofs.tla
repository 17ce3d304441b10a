------------------------- MODULE RunApprovalProofs -------------------------
(***************************************************************************)
(* Proofs about RunApproval, for every result of a run, every threshold    *)
(* and any number of approval requests: no action takes effect without     *)
(* authority or twice, the record tells what happened, and what is settled *)
(* stays settled.                                                          *)
(***************************************************************************)
EXTENDS RunApproval, FiniteSetTheorems, TLAPS

(* The actions that wait for an approver.                                  *)
Gated == {a \in ActionIds : NeedsApproval(a)}

(* The requests that are working on the run.                               *)
Active == {c \in Approvers : approval[c].pc \in {"deciding", "recording"}}

(* The granted approvals that have yet to execute the action.              *)
Unspent(a) ==
    {c \in Approvers : approval[c].pc = "deciding" /\ approval[c].approve
                       /\ a \in approval[c].todo}

Spent(a) == granted \ Unspent(a)

WaitingIn(r) == {a \in ActionIds : r.actions[a] = "waiting_approval"}

(* The status of the run fits every action.                                *)
Told(r) ==
    /\ \A a \in Gated : r.actions[a] \in GuardedClaim(r.status)
    /\ \A a \in ActionIds \ Gated : r.actions[a] \in FreeClaim(r.status)

(* What holds of a record wherever it is: nothing is recorded as executed  *)
(* that was not.                                                           *)
Consistent(r) ==
    /\ r.pending = WaitingIn(r)
    /\ r.status = "waiting_approval" <=> r.pending # {}
    /\ r.status \in {"waiting_approval", "rejected"} => Gated # {}
    /\ Told(r)
    /\ \A a \in ActionIds : r.actions[a] = "executed" => executions[a] > 0

Agrees(r) == \A a \in ActionIds : r.actions[a] = "executed" <=> executions[a] > 0

-----------------------------------------------------------------------------
(* Every effect of a guarded action has used up one granted approval.      *)
Authorized ==
    /\ IsFiniteSet(granted)
    /\ \A c \in Approvers : approval[c].pc \in {"new", "waiting"} => c \notin granted
    /\ \A a \in ActionIds : Unspent(a) \subseteq granted
    /\ \A a \in Gated : executions[a] <= Cardinality(Spent(a))
    /\ \A a \in ActionIds \ Gated : executions[a] <= 1

(* Only guarded actions wait for a decision.                               *)
PendingGated ==
    /\ run.pending \subseteq Gated
    /\ saved # NoRun => saved.pending \subseteq Gated
    /\ \A c \in Approvers : approval[c].todo \subseteq Gated

(* How far the request that called Run has come.  Nobody else touches the  *)
(* run before the gate is through.                                         *)
RunnerOrder ==
    /\ pc \in {"new", "working"} => run = NewRun /\ next = 1
    /\ pc = "new" => saved = NoRun
    /\ pc \in {"working", "guard"} => saved = NewRun
    /\ pc \in {"new", "working", "guard"} =>
          /\ Active = {}
          /\ run.status = "running"
          /\ run.pending = WaitingIn(run)
          /\ Agrees(run)
          /\ \A a \in ActionIds : executions[a] <= 1
          /\ \A a \in ActionIds : a >= next => run.actions[a] = "proposed"
          /\ \A a \in ActionIds : a < next => run.actions[a] \in
                IF a \in Gated THEN {"waiting_approval"} ELSE {"executed", "failed"}
    /\ pc = "recorded" => Consistent(run)

(* A request holds the mutex exactly while it works on its copy.           *)
RequestOrder ==
    /\ \A c \in Approvers : mutex = c <=> c \in Active
    /\ saved # NoRun => Consistent(saved)
    /\ \A c \in Approvers : approval[c].pc = "deciding" =>
          LET p == approval[c] IN
          /\ p.todo = WaitingIn(p.copy)
          /\ Gated # {}
          /\ \A a \in Gated \ p.todo : p.copy.actions[a] \in
                IF p.approve THEN {"executed", "failed"} ELSE {"rejected"}
          /\ \A a \in ActionIds \ Gated : p.copy.actions[a] \in {"executed", "failed"}
          /\ \A a \in ActionIds : p.copy.actions[a] = "executed" => executions[a] > 0
    /\ \A c \in Approvers : approval[c].pc = "recording" =>
          /\ Consistent(approval[c].copy)
          /\ approval[c].copy.status \in {"completed", "rejected"}

(* What is on disk while somebody works on the run: the copy of Run until  *)
(* a request has decided it, and under a request the run that waits or the *)
(* one it has closed.                                                      *)
OnDisk ==
    /\ pc # "returned" => "race" \notin mishaps
    /\ pc = "recorded" =>
          saved \in {NewRun, run} \/ saved.status \in {"completed", "rejected"}
    /\ \A c \in Active :
          /\ pc = "recorded" => run.status = "waiting_approval"
          /\ approval[c].pc = "deciding" => saved.status = "waiting_approval"
          /\ approval[c].pc = "recording" =>
                saved = approval[c].copy \/ saved.status = "waiting_approval"

(* Until something went wrong, whoever works on the run has a copy that    *)
(* agrees with the effects, and so has the disk when nobody does.          *)
Faithful ==
    /\ \A a \in ActionIds : executions[a] <= 1
    /\ pc = "recorded" /\ Active = {} =>
          \/ saved \in {run, NewRun} /\ Agrees(run)
          \/ saved.status \in {"completed", "rejected"} /\ Agrees(saved)
    /\ \A c \in Active : Agrees(approval[c].copy)
    /\ pc = "returned" /\ Active = {} /\ saved # NoRun => Agrees(saved)

IInv ==
    /\ TypeOK /\ Authorized /\ PendingGated /\ RunnerOrder /\ RequestOrder /\ OnDisk
    /\ mishaps = {} => Faithful

-----------------------------------------------------------------------------
LEMMA ActionsAreNumbers ==
    /\ Len(Risk) \in Nat /\ ActionIds = 1..Len(Risk)
    /\ MinRisks \subseteq 1..3
    /\ NoApprover \notin Approvers
    /\ NewRun \in Run /\ NewApproval \in Approval
BY ApprovalAssumption DEF ActionIds, NewRun, Run, ActionStatus, NewApproval, Approval

(* What each status claims, one by one.                                    *)
LEMMA Claims ==
    /\ \A status \in {"running", "failed"} :
          GuardedClaim(status) = {"proposed"} /\ FreeClaim(status) = {"proposed"}
    /\ \A status \in {"waiting_approval", "completed", "rejected"} :
          FreeClaim(status) = {"executed", "failed"}
    /\ GuardedClaim("waiting_approval") = {"waiting_approval"}
    /\ GuardedClaim("rejected") = {"rejected"}
    /\ GuardedClaim("completed") = {"executed", "failed"}
BY DEF GuardedClaim, FreeClaim

LEMMA NewRunWaitsForNothing ==
    /\ NewRun.pending = {} /\ WaitingIn(NewRun) = {}
    /\ NewRun.status = "running"
    /\ \A a \in ActionIds : NewRun.actions[a] = "proposed"
BY DEF NewRun, WaitingIn

LEMMA Initially == Init => IInv
<1> SUFFICES ASSUME Init PROVE IInv
  OBVIOUS
<1> USE ActionsAreNumbers, NewRunWaitsForNothing DEF Init
<1>1. TypeOK
  <2>1. \A c \in Approvers : approval[c] \in Approval
    OBVIOUS
  <2>2. next \in 1..(Len(Risk) + 1) /\ executions \in [ActionIds -> Nat]
    OBVIOUS
  <2> QED
    BY <2>1, <2>2 DEF TypeOK
<1>2. Active = {} /\ \A a \in ActionIds : Unspent(a) = {}
  BY DEF Active, Unspent, NewApproval
<1>3. Authorized
  <2>1. Gated \subseteq ActionIds
    BY DEF Gated
  <2>2. \A a \in Gated : executions[a] <= Cardinality(Spent(a))
    <3>1. \A a \in Gated : Spent(a) = {}
      BY DEF Spent
    <3>2. \A a \in Gated : Cardinality(Spent(a)) = 0
      BY <3>1, FS_EmptySet, Zenon
    <3> QED
      BY <2>1, <3>2
  <2> QED
    BY <1>2, <2>1, <2>2, FS_EmptySet DEF Authorized
<1>4. PendingGated
  BY DEF PendingGated, NewApproval
<1>5. RunnerOrder
  BY <1>2 DEF RunnerOrder, Agrees
<1>6. RequestOrder
  BY <1>2 DEF RequestOrder, NewApproval
<1>7. OnDisk /\ Faithful
  BY <1>2 DEF OnDisk, Faithful
<1> QED
  BY <1>1, <1>3, <1>4, <1>5, <1>6, <1>7 DEF IInv

-----------------------------------------------------------------------------
(* Run *)

(* The request that called Run changes nothing of what an approval rests   *)
(* on but its own run and the effects of what is below the threshold.      *)
LEMMA RequestsUntouched ==
    ASSUME UNCHANGED approval
    PROVE  Active' = Active /\ \A a \in ActionIds : Unspent(a)' = Unspent(a)
BY DEF Active, Unspent

LEMMA GateUntouched ==
    ASSUME UNCHANGED <<planner, minRisk>>
    PROVE  Gated' = Gated /\ Gated \subseteq ActionIds
BY DEF Gated, NeedsApproval

LEMMA AuthorizedKept ==
    ASSUME IInv, UNCHANGED <<planner, minRisk, approval, granted, executions>>
    PROVE  Authorized'
BY RequestsUntouched, GateUntouched DEF IInv, Authorized, Spent

LEMMA RequestOrderKept ==
    ASSUME IInv, UNCHANGED <<planner, minRisk, approval, mutex, executions>>,
           saved' # NoRun => saved' = saved \/ Consistent(saved')
    PROVE  RequestOrder'
BY RequestsUntouched, GateUntouched DEF IInv, RequestOrder, Consistent, Told

LEMMA BeginKeeps == IInv /\ Begin => IInv'
<1> SUFFICES ASSUME IInv, Begin PROVE IInv'
  OBVIOUS
<1> USE ActionsAreNumbers, NewRunWaitsForNothing, RequestsUntouched DEF Begin, RunnerOnly
<1>1. TypeOK'
  BY DEF IInv, TypeOK
<1>2. Authorized'
  BY AuthorizedKept
<1>3. PendingGated'
  BY GateUntouched DEF IInv, PendingGated
<1>4. Consistent(NewRun)
  BY Claims, GateUntouched DEF Consistent, Told
<1>5. RequestOrder'
  BY <1>4, RequestOrderKept
<1>6. RunnerOrder'
  BY GateUntouched DEF IInv, RunnerOrder, Agrees
<1>7. OnDisk' /\ Faithful'
  BY DEF IInv, RunnerOrder, OnDisk, Faithful, Agrees
<1> QED
  BY <1>1, <1>2, <1>3, <1>5, <1>6, <1>7 DEF IInv

LEMMA WorkKeeps == IInv /\ Work => IInv'
<1> SUFFICES ASSUME IInv, Work PROVE IInv'
  OBVIOUS
<1> USE ActionsAreNumbers, NewRunWaitsForNothing, RequestsUntouched DEF Work, RunnerOnly
<1>1. TypeOK'
  BY DEF IInv, TypeOK
<1>2. Authorized' /\ RequestOrder'
  BY AuthorizedKept, RequestOrderKept
<1>3. PendingGated'
  BY GateUntouched DEF IInv, PendingGated
<1>4. RunnerOrder'
  BY GateUntouched DEF IInv, RunnerOrder, Agrees
<1>5. OnDisk' /\ Faithful'
  BY DEF IInv, RunnerOrder, OnDisk, Faithful, Agrees
<1> QED
  BY <1>1, <1>2, <1>3, <1>4, <1>5 DEF IInv

LEMMA AbandonKeeps == IInv /\ Abandon => IInv'
<1> SUFFICES ASSUME IInv, Abandon PROVE IInv'
  OBVIOUS
<1> USE ActionsAreNumbers, NewRunWaitsForNothing, RequestsUntouched DEF Abandon, RunnerOnly
<1>1. run = NewRun /\ Active = {}
  BY DEF IInv, RunnerOrder
<1>2. /\ run' \in Run /\ run'.status = "failed" /\ run'.pending = {}
      /\ run'.actions = NewRun.actions
  BY <1>1 DEF Run, NewRun, ActionStatus
<1>3. TypeOK'
  BY <1>2 DEF IInv, TypeOK
<1>4. WaitingIn(run') = {}
  BY <1>2 DEF WaitingIn
<1>5. Consistent(run')
  <2>1. \A a \in ActionIds : run'.actions[a] = "proposed"
    BY <1>2
  <2>2. GuardedClaim(run'.status) = {"proposed"} /\ FreeClaim(run'.status) = {"proposed"}
    BY <1>2, Claims
  <2>3. Told(run')
    BY <2>1, <2>2, GateUntouched DEF Told
  <2> QED
    BY <1>2, <1>4, <2>1, <2>3 DEF Consistent
<1>6. Authorized' /\ RequestOrder'
  BY <1>5, AuthorizedKept, RequestOrderKept
<1>7. PendingGated'
  BY <1>2, GateUntouched DEF IInv, PendingGated
<1>8. RunnerOrder'
  BY DEF RunnerOrder
<1>9. \A a \in ActionIds : executions[a] <= 1 /\ ~(executions[a] > 0)
  BY <1>1 DEF IInv, RunnerOrder, Agrees
<1>10. saved'.actions = NewRun.actions
  BY <1>2 DEF IInv, RunnerOrder
<1>11. Agrees(saved)'
  BY <1>9, <1>10 DEF Agrees
<1>12. OnDisk' /\ Faithful'
  BY <1>1, <1>9, <1>11 DEF IInv, OnDisk, Faithful
<1> QED
  BY <1>3, <1>6, <1>7, <1>8, <1>12 DEF IInv

(* The gate deals with one action: what it executes it records, and what   *)
(* is above the threshold it leaves to an approver.                        *)
LEMMA GuardActionKeeps == IInv /\ GuardAction => IInv'
<1> SUFFICES ASSUME IInv, GuardAction PROVE IInv'
  OBVIOUS
<1> USE ActionsAreNumbers, NewRunWaitsForNothing, RequestsUntouched DEF GuardAction, RunnerOnly
<1> DEFINE Now(status) == [run EXCEPT !.actions[next] = status]
<1>1. /\ run \in Run /\ next \in ActionIds /\ executions \in [ActionIds -> Nat]
      /\ run.status = "running" /\ run.pending = WaitingIn(run)
      /\ run.actions[next] = "proposed" /\ executions[next] = 0
      /\ Active = {} /\ saved = NewRun
  BY DEF IInv, TypeOK, RunnerOrder, Agrees
<1>2. /\ run' \in Run
      /\ \A a \in ActionIds \ {next} : run'.actions[a] = run.actions[a]
      /\ run'.status = "running"
  <2>1. CASE run' = Waiting(next)
    BY <1>1, <2>1 DEF Run, ActionStatus, Waiting
  <2>2. CASE run' = Now("executed")
    BY <1>1, <2>2 DEF Run, ActionStatus
  <2>3. CASE run' = Now("failed")
    BY <1>1, <2>3 DEF Run, ActionStatus
  <2> QED
    BY <2>1, <2>2, <2>3
<1>3. CASE /\ NeedsApproval(next)
           /\ run' = Waiting(next)
           /\ UNCHANGED executions
  <2>1. run'.pending = run.pending \cup {next} /\ run'.actions[next] = "waiting_approval"
    BY <1>1, <1>3 DEF Run, Waiting
  <2>2. run'.pending = WaitingIn(run')
    BY <1>1, <1>2, <2>1 DEF WaitingIn
  <2>3. PendingGated'
    BY <1>3, <2>1, GateUntouched DEF IInv, PendingGated, Gated
  <2>4. Agrees(run)'
    BY <1>1, <1>2, <1>3, <2>1 DEF IInv, RunnerOrder, Agrees
  <2>5. RunnerOrder'
    BY <1>1, <1>2, <1>3, <2>1, <2>2, <2>4, GateUntouched DEF IInv, RunnerOrder, Gated
  <2>6. TypeOK'
    BY <1>1, <1>2, <1>3 DEF IInv, TypeOK
  <2>7. Authorized' /\ RequestOrder'
    BY <1>3, AuthorizedKept, RequestOrderKept
  <2>8. OnDisk' /\ Faithful'
    BY <1>1, <1>3 DEF IInv, RunnerOrder, OnDisk, Faithful
  <2> QED
    BY <2>3, <2>5, <2>6, <2>7, <2>8 DEF IInv
<1>4. CASE ~NeedsApproval(next) /\ run' = Now("failed") /\ UNCHANGED executions
  <2>1. run'.pending = run.pending /\ run'.actions[next] = "failed"
    BY <1>1, <1>4 DEF Run
  <2>2. run'.pending = WaitingIn(run')
    BY <1>1, <1>2, <2>1 DEF WaitingIn
  <2>3. PendingGated'
    BY <2>1, GateUntouched DEF IInv, PendingGated
  <2>4. Agrees(run)'
    BY <1>1, <1>2, <1>4, <2>1 DEF IInv, RunnerOrder, Agrees
  <2>5. RunnerOrder'
    BY <1>1, <1>2, <1>4, <2>1, <2>2, <2>4, GateUntouched DEF IInv, RunnerOrder, Gated
  <2>6. TypeOK'
    BY <1>1, <1>2, <1>4 DEF IInv, TypeOK
  <2>7. Authorized' /\ RequestOrder'
    BY <1>4, AuthorizedKept, RequestOrderKept
  <2>8. OnDisk' /\ Faithful'
    BY <1>1, <1>4 DEF IInv, RunnerOrder, OnDisk, Faithful
  <2> QED
    BY <2>3, <2>5, <2>6, <2>7, <2>8 DEF IInv
<1>5. CASE /\ ~NeedsApproval(next)
           /\ run' = Now("executed")
           /\ executions' = [executions EXCEPT ![next] = @ + 1]
  <2>1. run'.pending = run.pending /\ run'.actions[next] = "executed"
    BY <1>1, <1>5 DEF Run
  <2>2. run'.pending = WaitingIn(run')
    BY <1>1, <1>2, <2>1 DEF WaitingIn
  <2>3. PendingGated'
    BY <2>1, GateUntouched DEF IInv, PendingGated
  <2>4. executions' \in [ActionIds -> Nat] /\ executions'[next] = 1
    BY <1>1, <1>5
  <2>5. \A a \in ActionIds \ {next} : executions'[a] = executions[a]
    BY <1>1, <1>5
  <2>6. Agrees(run)'
    BY <1>1, <1>2, <2>1, <2>4, <2>5 DEF IInv, RunnerOrder, Agrees
  <2>7. \A a \in ActionIds : executions'[a] <= 1
    BY <1>1, <2>4, <2>5 DEF IInv, RunnerOrder
  <2>8. RunnerOrder'
    BY <1>1, <1>2, <1>5, <2>1, <2>2, <2>6, <2>7, GateUntouched DEF IInv, RunnerOrder, Gated
  <2>9. TypeOK'
    BY <1>1, <1>2, <2>4 DEF IInv, TypeOK
  <2>10. Authorized'
    BY <1>5, <2>5, <2>7, GateUntouched DEF IInv, Authorized, Gated, Spent
  <2>11. RequestOrder'
    BY <1>1, GateUntouched, Claims DEF IInv, RequestOrder, Consistent, Told, Active
  <2>12. OnDisk' /\ Faithful'
    BY <1>1, <2>7 DEF IInv, RunnerOrder, OnDisk, Faithful
  <2> QED
    BY <2>3, <2>8, <2>9, <2>10, <2>11, <2>12 DEF IInv
<1> QED
  BY <1>3, <1>4, <1>5

LEMMA GuardEndKeeps == IInv /\ GuardEnd => IInv'
<1> SUFFICES ASSUME IInv, GuardEnd PROVE IInv'
  OBVIOUS
<1> USE ActionsAreNumbers, NewRunWaitsForNothing, RequestsUntouched DEF GuardEnd, RunnerOnly
<1>1. /\ run \in Run /\ run.pending = WaitingIn(run) /\ Agrees(run)
      /\ Active = {} /\ saved = NewRun
  BY DEF IInv, TypeOK, RunnerOrder
<1>2. /\ run' \in Run
      /\ run'.pending = run.pending /\ run'.actions = run.actions
      /\ run'.status = IF run.pending # {} THEN "waiting_approval" ELSE "completed"
  BY <1>1 DEF Run
<1>3. Agrees(run)' /\ Consistent(run)'
  <2>1. \A a \in ActionIds : run.actions[a] \in
           IF a \in Gated THEN {"waiting_approval"} ELSE {"executed", "failed"}
    BY DEF IInv, TypeOK, RunnerOrder
  <2>2. run.pending = Gated
    BY <1>1, <2>1, GateUntouched DEF WaitingIn
  <2>3. Told(run)'
    BY <1>2, <2>1, <2>2, GateUntouched, Claims DEF Told
  <2> QED
    BY <1>1, <1>2, <2>2, <2>3, GateUntouched DEF Agrees, Consistent, WaitingIn
<1>4. saved' = saved \/ Consistent(saved')
  BY <1>3, GateUntouched DEF Consistent, Told
<1>5. TypeOK'
  BY <1>2 DEF IInv, TypeOK
<1>6. Authorized' /\ RequestOrder'
  BY <1>4, AuthorizedKept, RequestOrderKept
<1>7. PendingGated'
  BY <1>2, GateUntouched DEF IInv, PendingGated
<1>8. RunnerOrder'
  BY <1>3 DEF RunnerOrder
<1>9. OnDisk' /\ Faithful'
  BY <1>1, <1>3 DEF IInv, RunnerOrder, OnDisk, Faithful
<1> QED
  BY <1>5, <1>6, <1>7, <1>8, <1>9 DEF IInv

LEMMA FinalSaveKeeps == IInv /\ FinalSave => IInv'
<1> SUFFICES ASSUME IInv, FinalSave PROVE IInv'
  OBVIOUS
<1> USE ActionsAreNumbers, NewRunWaitsForNothing, RequestsUntouched DEF FinalSave, RunnerOnly
<1>1. run \in Run /\ Consistent(run)
  BY DEF IInv, TypeOK, RunnerOrder
<1>2. TypeOK'
  BY <1>1 DEF IInv, TypeOK
<1>3. Authorized' /\ RequestOrder'
  BY <1>1, AuthorizedKept, RequestOrderKept DEF Consistent
<1>4. PendingGated'
  BY GateUntouched DEF IInv, PendingGated
<1>5. RunnerOrder'
  BY DEF RunnerOrder
<1>6. OnDisk'
  BY DEF IInv, OnDisk
<1>7. mishaps' = {} => Faithful'
  BY DEF Overwrites, IInv, OnDisk, Faithful, Agrees
<1> QED
  BY <1>2, <1>3, <1>4, <1>5, <1>6, <1>7 DEF IInv

-----------------------------------------------------------------------------
(* Approve *)

LEMMA SpentIsFinite ==
    ASSUME IInv, NEW a
    PROVE  IsFiniteSet(Spent(a)) /\ Cardinality(Spent(a)) \in Nat
BY FS_Subset, FS_CardinalityType DEF IInv, Authorized, Spent

(* An approval that is used up stays used up.                              *)
LEMMA SpendingMore ==
    ASSUME NEW S, NEW T, IsFiniteSet(T), S \subseteq T
    PROVE  Cardinality(S) \in Nat /\ Cardinality(T) \in Nat /\ Cardinality(S) <= Cardinality(T)
BY FS_Subset, FS_CardinalityType

LEMMA AuthorizedWhenSpendingMore ==
    ASSUME IInv, UNCHANGED <<planner, minRisk, executions>>, IsFiniteSet(granted'),
           \A a \in ActionIds : Unspent(a)' \subseteq granted' /\ Spent(a) \subseteq Spent(a)',
           \A c \in Approvers : approval'[c].pc \in {"new", "waiting"} => c \notin granted'
    PROVE  Authorized'
<1>1. \A a \in Gated : executions[a] \in Nat
  BY DEF IInv, TypeOK, Gated
<1>2. \A a \in Gated : IsFiniteSet(Spent(a)')
  BY FS_Subset DEF Spent
<1>3. \A a \in Gated : /\ Cardinality(Spent(a)) \in Nat /\ Cardinality(Spent(a)') \in Nat
                       /\ Cardinality(Spent(a)) <= Cardinality(Spent(a)')
  BY <1>2, SpendingMore, GateUntouched
<1>4. \A a \in Gated : executions[a] <= Cardinality(Spent(a)')
  BY <1>1, <1>3 DEF IInv, Authorized
<1> QED
  BY <1>4, GateUntouched DEF IInv, Authorized

(* Steps of a request that is not at work on the run.                      *)
LEMMA FaithfulKept ==
    ASSUME IInv, UNCHANGED <<pc, run, saved, executions, mishaps>>,
           Active' = Active, \A d \in Active : approval'[d] = approval[d]
    PROVE  OnDisk' /\ (mishaps' = {} => Faithful')
<1>1. OnDisk'
  BY DEF IInv, OnDisk
<1> SUFFICES ASSUME Faithful PROVE Faithful'
  BY <1>1 DEF IInv
<1>2. \A d \in Active' : Agrees(approval[d].copy)'
  BY DEF Faithful, Agrees
<1> QED
  BY <1>2 DEF Faithful, Agrees

LEMMA AskKeeps ==
    ASSUME IInv, NEW c \in Approvers, NEW approve \in BOOLEAN, Ask(c, approve)
    PROVE  IInv'
<1> USE DEF Ask, ApproverOnly
<1>1. /\ approval[c] \in Approval /\ approval[c].pc = "new"
      /\ approval' = [approval EXCEPT ![c] =
             [@ EXCEPT !.pc = "waiting", !.approve = approve]]
      /\ c \notin granted
  BY DEF IInv, TypeOK, Authorized
<1>2. /\ approval'[c].pc = "waiting" /\ approval'[c].todo = approval[c].todo
      /\ approval' \in [Approvers -> Approval]
      /\ \A d \in Approvers \ {c} : approval'[d] = approval[d]
  BY <1>1 DEF IInv, TypeOK, Approval
<1>3. Active' = Active /\ \A a \in ActionIds : Unspent(a)' = Unspent(a)
  BY <1>1, <1>2 DEF Active, Unspent
<1>4. TypeOK'
  BY <1>2 DEF IInv, TypeOK
<1>5. Authorized'
  BY <1>1, <1>2, <1>3, GateUntouched DEF IInv, Authorized, Spent
<1>6. PendingGated'
  BY <1>2, GateUntouched DEF IInv, PendingGated
<1>7. RunnerOrder'
  BY <1>3, GateUntouched DEF IInv, RunnerOrder, Consistent, Told, Agrees
<1>8. RequestOrder'
  BY <1>2, <1>3, GateUntouched DEF IInv, RequestOrder, Consistent, Told
<1>9. OnDisk' /\ (mishaps' = {} => Faithful')
  <2>1. \A d \in Active : approval'[d] = approval[d]
    BY <1>1, <1>2 DEF Active
  <2> QED
    BY <1>3, <2>1, FaithfulKept
<1> QED
  BY <1>4, <1>5, <1>6, <1>7, <1>8, <1>9 DEF IInv

LEMMA RefusedKeeps ==
    ASSUME IInv, NEW c \in Approvers, Load(c), ~Approvable
    PROVE  IInv'
<1> USE DEF Load, ApproverOnly
<1>1. /\ approval[c].pc = "waiting" /\ mutex = NoApprover
      /\ approval' = [approval EXCEPT ![c].pc = "returned"]
      /\ UNCHANGED <<mutex, granted, mishaps>>
  OBVIOUS
<1>2. /\ approval'[c].pc = "returned" /\ approval'[c].todo = approval[c].todo
      /\ approval' \in [Approvers -> Approval]
      /\ \A d \in Approvers \ {c} : approval'[d] = approval[d]
  BY <1>1 DEF IInv, TypeOK, Approval
<1>3. Active' = Active /\ \A a \in ActionIds : Unspent(a)' = Unspent(a)
  BY <1>1, <1>2 DEF Active, Unspent
<1>4. TypeOK'
  BY <1>1, <1>2 DEF IInv, TypeOK
<1>5. Authorized'
  BY <1>1, <1>2, <1>3, GateUntouched DEF IInv, Authorized, Spent
<1>6. PendingGated'
  BY <1>2, GateUntouched DEF IInv, PendingGated
<1>7. RunnerOrder'
  BY <1>3, GateUntouched DEF IInv, RunnerOrder, Consistent, Told, Agrees
<1>8. RequestOrder'
  BY <1>1, <1>2, <1>3, GateUntouched DEF IInv, RequestOrder, Consistent, Told
<1>9. OnDisk' /\ (mishaps' = {} => Faithful')
  <2>1. \A d \in Active : approval'[d] = approval[d]
    BY <1>1, <1>2 DEF Active
  <2> QED
    BY <1>1, <1>3, <2>1, FaithfulKept
<1> QED
  BY <1>4, <1>5, <1>6, <1>7, <1>8, <1>9 DEF IInv

(* The run is loaded when nobody works on it, and before that only once    *)
(* the gate is through with it.                                            *)
LEMMA LoadKeeps ==
    ASSUME IInv, NEW c \in Approvers, Load(c), Approvable
    PROVE  IInv'
<1> USE DEF Load, ApproverOnly
<1>1. /\ approval[c] \in Approval /\ approval[c].pc = "waiting" /\ c \notin granted
      /\ mutex = NoApprover /\ mutex' = c
      /\ granted' = IF approval[c].approve THEN granted \cup {c} ELSE granted
      /\ UNCHANGED mishaps
      /\ approval' = [approval EXCEPT ![c] =
             [@ EXCEPT !.pc = "deciding", !.copy = saved, !.todo = saved.pending]]
  BY DEF Lock, IInv, TypeOK, Authorized
<1>2. /\ saved \in Run /\ saved # NoRun /\ saved.status = "waiting_approval" /\ saved.pending # {}
      /\ Consistent(saved) /\ saved.pending \subseteq Gated
      /\ pc \in {"recorded", "returned"}
  BY NewRunWaitsForNothing DEF Approvable, IInv, TypeOK, RunnerOrder, RequestOrder, PendingGated
<1>3. saved.pending \subseteq ActionIds
  BY <1>2 DEF Run
<1>4. /\ approval'[c].pc = "deciding" /\ approval'[c].copy = saved
      /\ approval'[c].approve = approval[c].approve /\ approval'[c].todo = saved.pending
      /\ approval' \in [Approvers -> Approval]
      /\ \A d \in Approvers \ {c} : approval'[d] = approval[d]
  BY <1>1, <1>2, <1>3 DEF IInv, TypeOK, Approval
<1>5. Active = {} /\ Active' = {c}
  <2>1. Active = {}
    BY <1>1, ActionsAreNumbers DEF IInv, RequestOrder, Active
  <2> QED
    BY <1>4, <2>1 DEF Active
<1>6. TypeOK'
  BY <1>1, <1>4 DEF IInv, TypeOK
<1>7. Authorized'
  <2>1. IsFiniteSet(granted')
    BY <1>1, FS_AddElement DEF IInv, Authorized
  <2>2. \A a \in ActionIds : /\ Unspent(a)' \subseteq Unspent(a) \cup {c}
                             /\ approval[c].approve \/ Unspent(a)' \subseteq Unspent(a)
    BY <1>1, <1>4 DEF Unspent
  <2>3. \A a \in ActionIds : Unspent(a)' \subseteq granted' /\ Spent(a) \subseteq Spent(a)'
    BY <1>1, <2>2 DEF IInv, Authorized, Spent
  <2>4. \A d \in Approvers : approval'[d].pc \in {"new", "waiting"} => d \notin granted'
    BY <1>1, <1>4 DEF IInv, Authorized
  <2> QED
    BY <2>1, <2>3, <2>4, AuthorizedWhenSpendingMore
<1>8. PendingGated'
  BY <1>2, <1>4, GateUntouched DEF IInv, PendingGated
<1>9. RunnerOrder'
  BY <1>2, GateUntouched DEF IInv, RunnerOrder, Consistent, Told
<1>10. RequestOrder'
  <2>1. /\ Gated # {} /\ saved.pending = WaitingIn(saved) /\ Gated \subseteq saved.pending
        /\ \A a \in ActionIds \ Gated : saved.actions[a] \in {"executed", "failed"}
        /\ \A a \in ActionIds : saved.actions[a] = "executed" => executions[a] > 0
    BY <1>2, Claims, GateUntouched DEF Consistent, Told, WaitingIn
  <2>2. saved # NoRun => Consistent(saved)'
    BY <1>2, GateUntouched DEF Consistent, Told
  <2> QED
    BY <1>1, <1>2, <1>4, <1>5, <2>1, <2>2, GateUntouched
       DEF IInv, RequestOrder, Consistent, Told, WaitingIn
<1>11. pc = "recorded" => saved = run
  BY <1>2, NewRunWaitsForNothing DEF IInv, OnDisk
<1>12. OnDisk'
  BY <1>1, <1>2, <1>4, <1>5, <1>11 DEF IInv, OnDisk
<1>13. mishaps' = {} => Faithful'
  BY <1>1, <1>2, <1>4, <1>5, <1>11 DEF IInv, Faithful, Agrees
<1> QED
  BY <1>6, <1>7, <1>8, <1>9, <1>10, <1>12, <1>13 DEF IInv

LEMMA HolderIsAlone ==
    ASSUME IInv, NEW c \in Active
    PROVE  Active = {c} /\ c \in Approvers /\ mutex = c /\ pc \in {"recorded", "returned"}
BY DEF IInv, TypeOK, RequestOrder, RunnerOrder, Active

(* One pending action is decided.  It waited, so it had not taken effect,  *)
(* unless something went wrong before; and it uses up this approval.       *)
LEMMA DecideKeeps ==
    ASSUME IInv, NEW c \in Approvers, Decide(c)
    PROVE  IInv'
<1> USE ActionsAreNumbers DEF ApproverOnly
<1> DEFINE p == approval[c]
           Step(a, status) == approval' = [approval EXCEPT ![c] =
                 [p EXCEPT !.copy.actions[a] = status, !.todo = @ \ {a}]]
           Executes(a) == /\ p.approve /\ Step(a, "executed")
                          /\ executions' = [executions EXCEPT ![a] = @ + 1]
           Skips(a) == /\ \/ ~p.approve /\ Step(a, "rejected")
                          \/ p.approve /\ Step(a, "failed")
                       /\ UNCHANGED executions
<1>1. /\ p.pc = "deciding" /\ p \in Approval /\ executions \in [ActionIds -> Nat]
      /\ UNCHANGED <<up, planner, minRisk, pc, run, next, saved, mutex, granted,
                     rejected, mishaps>>
  BY DEF Decide, IInv, TypeOK
<1>2. PICK a \in p.todo : Executes(a) \/ Skips(a)
  BY DEF Decide, Failure
<1>3. a \in ActionIds /\ a \in Gated /\ p.todo \subseteq Gated
  BY <1>1 DEF Approval, IInv, PendingGated
<1>4. PICK status \in {"executed", "rejected", "failed"} :
         /\ Step(a, status)
         /\ status = "executed" => Executes(a)
         /\ status # "executed" => Skips(a)
         /\ p.approve <=> status # "rejected"
  BY <1>2
<1> HIDE DEF Step
<1>5. /\ approval' \in [Approvers -> Approval]
      /\ \A d \in Approvers \ {c} : approval'[d] = approval[d]
      /\ approval'[c].pc = "deciding" /\ approval'[c].approve = p.approve
      /\ approval'[c].todo = p.todo \ {a}
      /\ approval'[c].copy.actions[a] = status
      /\ \A b \in ActionIds \ {a} : approval'[c].copy.actions[b] = p.copy.actions[b]
  <2>1. p.copy \in Run /\ p.copy.actions \in [ActionIds -> ActionStatus]
    BY <1>1 DEF Approval, Run
  <2>2. approval' = [approval EXCEPT ![c] =
             [p EXCEPT !.copy.actions[a] = status, !.todo = @ \ {a}]]
    BY <1>4 DEF Step
  <2>3. [p.copy EXCEPT !.actions[a] = status] \in Run
    BY <1>3, <2>1 DEF Run, ActionStatus
  <2>4. [p EXCEPT !.copy.actions[a] = status, !.todo = @ \ {a}] \in Approval
    BY <1>1, <2>3 DEF Approval
  <2> QED
    BY <1>1, <1>3, <2>1, <2>2, <2>4 DEF IInv, TypeOK, Approval, Run
<1>6. /\ executions' \in [ActionIds -> Nat]
      /\ \A b \in ActionIds \ {a} : executions'[b] = executions[b]
      /\ status = "executed" => executions'[a] = executions[a] + 1
      /\ status # "executed" => executions'[a] = executions[a]
  BY <1>1, <1>3, <1>4
<1>7. /\ Active = {c} /\ Active' = {c}
      /\ pc \in {"recorded", "returned"}
  BY <1>1, <1>5, HolderIsAlone DEF Active
<1>8. TypeOK'
  BY <1>1, <1>5, <1>6 DEF IInv, TypeOK
<1>9. Authorized'
  <2>1. \A b \in ActionIds : Unspent(b)' = IF b = a THEN Unspent(b) \ {c} ELSE Unspent(b)
    BY <1>1, <1>5 DEF Unspent
  <2>2. \A b \in ActionIds : Unspent(b)' \subseteq granted' /\ Spent(b) \subseteq Spent(b)'
    BY <1>1, <2>1 DEF IInv, Authorized, Spent
  <2>3. \A b \in Gated : /\ Cardinality(Spent(b)) \in Nat /\ Cardinality(Spent(b)') \in Nat
                         /\ Cardinality(Spent(b)) <= Cardinality(Spent(b)')
                         /\ executions[b] <= Cardinality(Spent(b))
    <3>1. \A b \in Gated : IsFiniteSet(Spent(b)')
      BY <1>1, FS_Subset DEF IInv, Authorized, Spent
    <3> QED
      BY <1>1, <2>2, <3>1, SpendingMore, GateUntouched DEF IInv, Authorized
  <2>4. CASE status = "executed"
    <3>1. c \in Unspent(a) /\ Spent(a)' = Spent(a) \cup {c} /\ c \notin Spent(a)
      BY <1>1, <1>3, <1>4, <2>1, <2>4 DEF Unspent, IInv, Authorized, Spent
    <3>2. Cardinality(Spent(a)') = Cardinality(Spent(a)) + 1
      BY <3>1, SpentIsFinite, FS_AddElement
    <3>3. \A b \in Gated : executions'[b] <= Cardinality(Spent(b)')
      BY <1>1, <1>3, <1>6, <2>3, <2>4, <3>2, GateUntouched
    <3> QED
      BY <1>1, <1>3, <1>5, <1>6, <2>2, <3>3, GateUntouched DEF IInv, Authorized
  <2>5. CASE status # "executed"
    <3>1. \A b \in Gated : executions'[b] <= Cardinality(Spent(b)')
      BY <1>1, <1>3, <1>6, <2>3, <2>5, GateUntouched
    <3> QED
      BY <1>1, <1>3, <1>5, <1>6, <2>2, <3>1, GateUntouched DEF IInv, Authorized
  <2> QED
    BY <2>4, <2>5
<1>10. PendingGated'
  BY <1>1, <1>5, GateUntouched DEF IInv, PendingGated
<1>11. \A b \in ActionIds : executions[b] > 0 => executions'[b] > 0
  BY <1>1, <1>3, <1>6
<1>12. RunnerOrder'
  BY <1>1, <1>7, <1>11, GateUntouched DEF IInv, RunnerOrder, Consistent, Told, WaitingIn
<1>13. RequestOrder'
  <2>1. saved' # NoRun => Consistent(saved)'
    BY <1>1, <1>11, GateUntouched DEF IInv, RequestOrder, Consistent, Told, WaitingIn
  <2>2. approval'[c].todo = WaitingIn(approval'[c].copy)
    BY <1>1, <1>3, <1>5 DEF IInv, RequestOrder, WaitingIn
  <2>3. /\ Gated' # {}
        /\ \A b \in Gated' \ approval'[c].todo : approval'[c].copy.actions[b] \in
              IF approval'[c].approve THEN {"executed", "failed"} ELSE {"rejected"}
        /\ \A b \in ActionIds \ Gated' :
              approval'[c].copy.actions[b] \in {"executed", "failed"}
    <3>1. /\ Gated # {} /\ Gated' = Gated /\ Gated \subseteq ActionIds
          /\ \A b \in Gated \ p.todo : p.copy.actions[b] \in
                IF p.approve THEN {"executed", "failed"} ELSE {"rejected"}
          /\ \A b \in ActionIds \ Gated : p.copy.actions[b] \in {"executed", "failed"}
      BY <1>1, GateUntouched DEF IInv, RequestOrder
    <3>2. status \in IF p.approve THEN {"executed", "failed"} ELSE {"rejected"}
      BY <1>4
    <3> QED
      BY ONLY <1>3, <1>5, <3>1, <3>2
  <2>4. \A b \in ActionIds :
           approval'[c].copy.actions[b] = "executed" => executions'[b] > 0
    BY <1>1, <1>3, <1>5, <1>6, <1>11 DEF IInv, RequestOrder
  <2>5. \A d \in Approvers \ {c} : d \notin Active'
    BY <1>7
  <2> QED
    BY <1>1, <1>5, <1>7, <2>1, <2>2, <2>3, <2>4, <2>5 DEF IInv, RequestOrder, Active
<1>14. mishaps' = {} => Faithful'
  <2> SUFFICES ASSUME Faithful PROVE Faithful'
    BY <1>1 DEF IInv
  <2>1. p.copy.actions[a] = "waiting_approval"
    BY <1>1, <1>3 DEF IInv, RequestOrder, WaitingIn
  <2>2. executions[a] = 0
    BY <1>1, <1>3, <1>7, <2>1 DEF Faithful, Agrees
  <2>3. Agrees(approval[c].copy)'
    BY <1>1, <1>3, <1>5, <1>6, <1>7, <2>2 DEF Faithful, Agrees
  <2>4. \A b \in ActionIds : executions'[b] <= 1
    BY <1>1, <1>3, <1>6, <2>2 DEF Faithful
  <2> QED
    BY <1>1, <1>5, <1>7, <2>3, <2>4 DEF Faithful
<1>15. OnDisk'
  BY <1>1, <1>5, <1>7 DEF IInv, OnDisk
<1> QED
  BY <1>8, <1>9, <1>10, <1>12, <1>13, <1>14, <1>15 DEF IInv

LEMMA CloseKeeps ==
    ASSUME IInv, NEW c \in Approvers, Close(c)
    PROVE  IInv'
<1> USE ActionsAreNumbers DEF ApproverOnly
<1> DEFINE p == approval[c]
<1>1. PICK closed \in Run :
      /\ closed.actions = p.copy.actions /\ closed.pending = {}
      /\ closed.status = IF p.approve THEN "completed" ELSE "rejected"
      /\ p \in Approval /\ p.pc = "deciding" /\ p.todo = {}
      /\ approval' = [approval EXCEPT ![c] = [p EXCEPT !.pc = "recording", !.copy = closed]]
      /\ saved' = closed \/ UNCHANGED saved
      /\ UNCHANGED <<up, planner, minRisk, pc, run, next, mutex, executions, granted,
                     rejected, mishaps>>
  <2> DEFINE record == [p.copy EXCEPT
                           !.status = IF p.approve THEN "completed" ELSE "rejected",
                           !.pending = {}]
  <2>1. p \in Approval /\ p.copy \in Run
    BY DEF IInv, TypeOK, Approval
  <2>2. /\ record \in Run /\ record.actions = p.copy.actions /\ record.pending = {}
        /\ record.status = IF p.approve THEN "completed" ELSE "rejected"
    BY <2>1 DEF Run
  <2> QED
    BY <2>1, <2>2 DEF Close
<1>2. \A a \in ActionIds : closed.actions[a] # "waiting_approval"
  BY <1>1 DEF IInv, RequestOrder, WaitingIn
<1>3. /\ approval' \in [Approvers -> Approval]
      /\ \A d \in Approvers \ {c} : approval'[d] = approval[d]
      /\ approval'[c].pc = "recording" /\ approval'[c].todo = {} /\ approval'[c].copy = closed
  BY <1>1, <1>2 DEF IInv, TypeOK, Approval
<1>4. Active = {c} /\ Active' = {c} /\ pc \in {"recorded", "returned"}
  BY <1>1, <1>3, HolderIsAlone DEF Active
<1>5. Consistent(closed)'
  <2>1. Told(closed)'
    BY <1>1, Claims, GateUntouched DEF IInv, RequestOrder, Told
  <2> QED
    BY <1>1, <1>2, <2>1, GateUntouched DEF IInv, RequestOrder, Consistent, WaitingIn
<1>6. TypeOK'
  BY <1>1, <1>2, <1>3 DEF IInv, TypeOK
<1>7. Authorized'
  <2>1. \A a \in ActionIds : Unspent(a)' = Unspent(a)
    BY <1>1, <1>3 DEF Unspent
  <2> QED
    BY <1>1, <1>3, <2>1, GateUntouched DEF IInv, Authorized, Spent
<1>8. PendingGated'
  BY <1>1, <1>2, <1>3, GateUntouched DEF IInv, PendingGated
<1>9. RunnerOrder'
  BY <1>1, <1>4, GateUntouched DEF IInv, RunnerOrder, Consistent, Told
<1>10. RequestOrder'
  <2>1. saved' # NoRun => Consistent(saved)'
    BY <1>1, <1>5, GateUntouched DEF IInv, RequestOrder, Consistent, Told
  <2> QED
    BY <1>1, <1>2, <1>3, <1>4, <1>5, <2>1 DEF IInv, RequestOrder, Active
<1>11. OnDisk'
  BY <1>1, <1>3, <1>4 DEF IInv, OnDisk
<1>12. mishaps' = {} => Faithful'
  BY <1>1, <1>2, <1>3, <1>4 DEF IInv, Faithful, Agrees
<1> QED
  BY <1>6, <1>7, <1>8, <1>9, <1>10, <1>11, <1>12 DEF IInv

LEMMA ReturnKeeps ==
    ASSUME IInv, NEW c \in Approvers, Return(c)
    PROVE  IInv'
<1> USE ActionsAreNumbers DEF ApproverOnly
<1> DEFINE p == approval[c]
<1>1. /\ p \in Approval /\ p.pc = "recording" /\ p.copy \in Run
      /\ approval' = [approval EXCEPT ![c].pc = "returned"]
      /\ mutex' = NoApprover
      /\ UNCHANGED <<up, planner, minRisk, pc, run, next, executions, granted>>
      /\ rejected' \subseteq Approvers /\ mishaps \subseteq mishaps'
      /\ mishaps' \subseteq mishaps \cup {"save"}
      /\ saved' = p.copy \/ UNCHANGED saved
      /\ mishaps' = {} => saved' = p.copy
  BY DEF Return, Unlock, IInv, TypeOK, Approval
<1>2. /\ approval' \in [Approvers -> Approval]
      /\ \A d \in Approvers \ {c} : approval'[d] = approval[d]
      /\ approval'[c].pc = "returned" /\ approval'[c].todo = p.todo
  BY <1>1 DEF IInv, TypeOK, Approval
<1>3. Active = {c} /\ Active' = {} /\ pc \in {"recorded", "returned"}
  BY <1>1, <1>2, HolderIsAlone DEF Active
<1>4. Consistent(p.copy) /\ p.copy.status \in {"completed", "rejected"} /\ p.copy.pending = {}
  BY <1>1 DEF IInv, RequestOrder, Consistent
<1>5. TypeOK'
  BY <1>1, <1>2 DEF IInv, TypeOK
<1>6. Authorized'
  <2>1. \A a \in ActionIds : Unspent(a)' = Unspent(a)
    BY <1>1, <1>2 DEF Unspent
  <2> QED
    BY <1>1, <1>2, <2>1, GateUntouched DEF IInv, Authorized, Spent
<1>7. PendingGated'
  BY <1>1, <1>2, <1>4, GateUntouched DEF IInv, PendingGated
<1>8. RunnerOrder'
  BY <1>1, <1>3, GateUntouched DEF IInv, RunnerOrder, Consistent, Told
<1>9. RequestOrder'
  BY <1>1, <1>2, <1>3, <1>4, GateUntouched DEF IInv, RequestOrder, Consistent, Told, Active
<1>10. OnDisk'
  BY <1>1, <1>3, <1>4 DEF IInv, OnDisk
<1>11. mishaps' = {} => Faithful'
  BY <1>1, <1>3, <1>4 DEF IInv, Faithful, Agrees
<1> QED
  BY <1>5, <1>6, <1>7, <1>8, <1>9, <1>10, <1>11 DEF IInv

-----------------------------------------------------------------------------
(* The process dies: what no approval executed remains unexecuted, and     *)
(* without an effect that is not on disk the record is still faithful.     *)
LEMMA CrashKeeps == IInv /\ Crash => IInv'
<1> SUFFICES ASSUME IInv, Crash PROVE IInv'
  OBVIOUS
<1> USE ActionsAreNumbers, NewRunWaitsForNothing DEF Crash
<1>1. /\ \A c \in Approvers : approval'[c].todo = approval[c].todo
      /\ \A c \in Approvers : approval'[c].pc \in {"new", "returned"}
      /\ \A c \in Approvers : approval'[c].pc = "new" => approval[c].pc = "new"
      /\ approval' \in [Approvers -> Approval]
  <2>1. approval \in [Approvers -> Approval]
    BY DEF IInv, TypeOK
  <2>2. ASSUME NEW p \in Approval
        PROVE  /\ [p EXCEPT !.pc = "returned"] \in Approval
               /\ [p EXCEPT !.pc = "returned"].pc = "returned"
               /\ [p EXCEPT !.pc = "returned"].todo = p.todo
    BY DEF Approval
  <2>3. approval' = [c \in Approvers |->
            IF approval[c].pc = "new" THEN approval[c]
            ELSE [approval[c] EXCEPT !.pc = "returned"]]
    OBVIOUS
  <2> QED
    BY ONLY <2>1, <2>2, <2>3
<1>2. Active' = {} /\ \A a \in ActionIds : Unspent(a)' = {}
  BY <1>1 DEF Active, Unspent
<1>3. TypeOK'
  BY <1>1 DEF IInv, TypeOK
<1>4. Authorized'
  <2>1. \A a \in ActionIds : Unspent(a)' \subseteq granted' /\ Spent(a) \subseteq Spent(a)'
    BY <1>2 DEF Spent
  <2>2. IsFiniteSet(granted') /\ \A c \in Approvers :
           approval'[c].pc \in {"new", "waiting"} => c \notin granted'
    BY <1>1 DEF IInv, Authorized
  <2> QED
    BY <2>1, <2>2, AuthorizedWhenSpendingMore
<1>5. PendingGated'
  BY <1>1, GateUntouched DEF IInv, PendingGated
<1>6. RunnerOrder'
  BY <1>2, GateUntouched DEF IInv, RunnerOrder, Agrees
<1>7. RequestOrder'
  BY <1>1, <1>2, GateUntouched DEF IInv, RequestOrder, Consistent, Told, Active
<1>8. mishaps' = {} => Faithful'
  <2> SUFFICES ASSUME mishaps' = {} PROVE Faithful'
    OBVIOUS
  <2>1. Faithful
    BY DEF IInv
  <2>2. \A a \in ActionIds : executions[a] > 0 => saved # NoRun /\ saved.actions[a] = "executed"
    OBVIOUS
  <2>3. saved # NoRun => Agrees(saved)
    BY <2>2 DEF IInv, RequestOrder, Consistent, Agrees
  <2> QED
    BY <1>2, <2>1, <2>3 DEF Faithful, Agrees
<1>9. OnDisk'
  BY <1>2 DEF IInv, OnDisk
<1> QED
  BY <1>3, <1>4, <1>5, <1>6, <1>7, <1>8, <1>9 DEF IInv

LEMMA RestartKeeps == IInv /\ (Restart \/ UNCHANGED vars) => IInv'
<1> SUFFICES ASSUME IInv, Restart \/ UNCHANGED vars PROVE IInv'
  OBVIOUS
<1>1. /\ up' \in BOOLEAN
      /\ UNCHANGED <<planner, minRisk, pc, run, next, saved, approval, mutex,
                     executions, granted, rejected, mishaps>>
  BY DEF Restart, vars, IInv, TypeOK
<1>2. TypeOK'
  BY <1>1 DEF IInv, TypeOK
<1>3. Authorized'
  BY <1>1, AuthorizedKept
<1>4. PendingGated' /\ RunnerOrder' /\ RequestOrder'
  BY <1>1, RequestsUntouched, GateUntouched
     DEF IInv, PendingGated, RunnerOrder, RequestOrder, Consistent, Told, Agrees
<1>5. OnDisk' /\ (mishaps' = {} => Faithful')
  BY <1>1, RequestsUntouched, FaithfulKept DEF Active
<1> QED
  BY <1>2, <1>3, <1>4, <1>5 DEF IInv

LEMMA StepKeeps == IInv /\ [Next]_vars => IInv'
<1> SUFFICES ASSUME IInv, [Next]_vars PROVE IInv'
  OBVIOUS
<1>1. CASE Begin
  BY <1>1, BeginKeeps
<1>2. CASE RunStep
  BY <1>2, WorkKeeps, AbandonKeeps, GuardActionKeeps, GuardEndKeeps, FinalSaveKeeps DEF RunStep
<1>3. CASE \E c \in Approvers, approve \in BOOLEAN : Ask(c, approve)
  BY <1>3, AskKeeps
<1>4. CASE \E c \in Approvers : ApprovalStep(c)
  BY <1>4, LoadKeeps, RefusedKeeps, DecideKeeps, CloseKeeps, ReturnKeeps DEF ApprovalStep
<1>5. CASE Crash
  BY <1>5, CrashKeeps
<1>6. CASE Restart \/ UNCHANGED vars
  BY <1>6, RestartKeeps
<1> QED
  BY <1>1, <1>2, <1>3, <1>4, <1>5, <1>6 DEF Next

(* The inductive invariant: where the run is, in whose copy, and who still *)
(* owes what to it.                                                        *)
THEOREM Invariance == Spec => []IInv
BY Initially, StepKeeps, PTL DEF Spec

(* Every variable keeps its type: no step leaves a run or a request in a   *)
(* state the code of Run and Approve has no name for.                      *)
THEOREM TypeCorrect == Spec => []TypeOK
<1>1. IInv => TypeOK
  BY DEF IInv
<1> QED
  BY <1>1, Invariance, PTL

-----------------------------------------------------------------------------
(* The approval gate of Run and Approve holds for any result and any       *)
(* number of requests: an action at or above the threshold takes effect at *)
(* most as often as approvals were granted, whatever crashes and fails.    *)
THEOREM EffectsAuthorizedHolds == Spec => []EffectsAuthorized
<1>1. IInv => EffectsAuthorized
  <2> SUFFICES ASSUME IInv, NEW a \in ActionIds
               PROVE  executions[a] <= IF planner \/ Risk[a] >= minRisk
                                       THEN Cardinality(granted) ELSE 1
    BY DEF EffectsAuthorized
  <2>1. CASE a \in Gated
    <3>1. Cardinality(Spent(a)) <= Cardinality(granted) /\ Cardinality(Spent(a)) \in Nat
          /\ Cardinality(granted) \in Nat
      BY SpendingMore DEF IInv, Authorized, Spent
    <3>2. executions[a] \in Nat /\ executions[a] <= Cardinality(Spent(a))
      BY <2>1 DEF IInv, TypeOK, Authorized
    <3>3. planner \/ Risk[a] >= minRisk
      BY <2>1 DEF Gated, NeedsApproval
    <3> QED
      BY <3>1, <3>2, <3>3
  <2>2. CASE a \notin Gated
    BY <2>2 DEF Gated, NeedsApproval, IInv, Authorized
  <2> QED
    BY <2>1, <2>2
<1> QED
  BY <1>1, Invariance, PTL

(* However many approvals of one run are sent, overlapping with Run and    *)
(* with each other, each action is executed at most once, as long as no    *)
(* crash lost an effect, no last save failed and Run's last save replaced  *)
(* no decision.                                                            *)
THEOREM AtMostOnceHolds == Spec => []AtMostOnce
<1>1. IInv => AtMostOnce
  BY DEF IInv, Faithful, AtMostOnce
<1> QED
  BY <1>1, Invariance, PTL

(* When Run and Approve have returned and nothing was lost, the record     *)
(* says executed of exactly what took effect, and the status of the run    *)
(* fits every action: in a rejected run all that needed approval is        *)
(* rejected and was never executed.                                        *)
THEOREM RecordTruthfulHolds == Spec => []RecordTruthful
<1>1. IInv => RecordTruthful
  <2> SUFFICES ASSUME IInv, Quiescent, mishaps = {}, saved # NoRun
               PROVE  Consistent(saved) /\ Agrees(saved)
    BY DEF RecordTruthful, Consistent, Told, Gated, Agrees, WaitingIn
  <2>1. Active = {} /\ pc = "returned"
    BY DEF Quiescent, Active
  <2> QED
    BY <2>1 DEF IInv, RequestOrder, Faithful
<1> QED
  BY <1>1, Invariance, PTL

(* No second decision and no save that is still due rewrites a run that    *)
(* has reached an end, whatever crashes and fails, but for Run's last save *)
(* when it overtakes a decision.                                           *)
THEOREM SettledStaysSettledHolds == Spec => SettledStaysSettled
<1> DEFINE Settled == saved # NoRun /\ saved.status \in {"completed", "rejected", "failed"}
           Kept == saved' = saved \/ "race" \in mishaps' \ mishaps
<1>1. ASSUME IInv, [Next]_vars, Settled PROVE Kept
  <2>1. CASE Begin
    BY <1>1, <2>1 DEF Begin, IInv, RunnerOrder
  <2>2. CASE Work \/ GuardAction
    BY <2>2 DEF Work, GuardAction
  <2>3. CASE Abandon \/ GuardEnd
    BY <1>1, <2>3, NewRunWaitsForNothing DEF Abandon, GuardEnd, IInv, RunnerOrder
  <2>4. CASE FinalSave
    BY <1>1, <2>4, NewRunWaitsForNothing DEF FinalSave, Overwrites, IInv, OnDisk
  <2>5. ASSUME NEW c \in Approvers, NEW approve \in BOOLEAN, Ask(c, approve)
        PROVE  saved' = saved
    BY <2>5 DEF Ask
  <2>6. ASSUME NEW c \in Approvers, Load(c) \/ Decide(c) PROVE saved' = saved
    BY <2>6 DEF Load, Decide
  <2>7. ASSUME NEW c \in Approvers, Close(c) PROVE saved' = saved
    BY <1>1, <2>7 DEF Close, IInv, OnDisk, Active
  <2>8. ASSUME NEW c \in Approvers, Return(c) PROVE saved' = saved
    BY <1>1, <2>8 DEF Return, IInv, OnDisk, Active
  <2>9. CASE Crash \/ Restart \/ UNCHANGED vars
    BY <2>9 DEF Crash, Restart, vars
  <2> QED
    BY <1>1, <2>1, <2>2, <2>3, <2>4, <2>5, <2>6, <2>7, <2>8, <2>9
       DEF Next, RunStep, ApprovalStep
<1>2. IInv /\ [Next]_vars =>
         [Settled => Kept]_vars
  BY <1>1
<1> QED
  BY <1>2, Invariance, PTL DEF Spec, SettledStaysSettled

=============================================================================
