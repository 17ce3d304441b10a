------------------------------ MODULE Analysis ------------------------------
(***************************************************************************)
(* The deterministic diagnosis of internal/agent/analyzer.go: campaigns    *)
(* below the ROI threshold become signals with two proposed actions each   *)
(* (Analyze), which the merchant's memory then annotates and reorders      *)
(* (ApplyMerchantMemory).                                                  *)
(*                                                                         *)
(* An ROI is a number in hundredths.  Evidence, titles and the wording of  *)
(* impacts are left out; an action keeps what the memory and the approval  *)
(* gate look at.                                                           *)
(***************************************************************************)
EXTENDS Arrangements, SequencesExt, FiniteSetsExt

CONSTANT NoTarget  \* a memory of an operation on any target

Review == "create_campaign_diagnostic_task"
Pause == "pause_campaign"

Proposed(operation, target, risk) ==
    [operation |-> operation, target |-> target, risk |-> risk, preference |-> "none"]

(* The active campaigns below the threshold, a low-risk and a high-risk    *)
(* action for each.                                                        *)
Analyze(campaigns, threshold) ==
    LET low == Ascending({i \in DOMAIN campaigns :
                             campaigns[i].active /\ campaigns[i].roi < threshold})
    IN  [p \in 1 .. 2 * Len(low) |->
            LET target == campaigns[low[(p + 1) \div 2]].id
            IN  IF p % 2 = 1 THEN Proposed(Review, target, 1) ELSE Proposed(Pause, target, 3)]

-----------------------------------------------------------------------------
IsExplicit(memory) == memory.kind = "action_preference"

Matches(memory, action) ==
    /\ memory.operation = action.operation
    /\ memory.kind \in {"action_preference", "action_outcome"}
    /\ memory.target \in {NoTarget, action.target} \/ action.target = NoTarget

IsExact(memory, action) == memory.target # NoTarget /\ memory.target = action.target

(* Fault: the oldest memory comes first.                                   *)
Outranks_OldestFirst(m, n, action) ==
    IF IsExact(m, action) # IsExact(n, action) THEN IsExact(m, action)
    ELSE IF IsExplicit(m) # IsExplicit(n) THEN IsExplicit(m)
    ELSE m.updated < n.updated

(* An exact target, then an explicit preference, then the newest.  The     *)
(* last criterion of the code, the confidence, is the same for all         *)
(* memories of one kind that were learned.                                 *)
Outranks(m, n, action) ==
    IF IsExact(m, action) # IsExact(n, action) THEN IsExact(m, action)
    ELSE IF IsExplicit(m) # IsExplicit(n) THEN IsExplicit(m)
    ELSE m.updated > n.updated

(* Where the matching memories are that none outranks; the stable sort by  *)
(* Outranks puts the first of them first.                                  *)
SelectActionMemory(memories, action) ==
    LET candidates == {i \in DOMAIN memories : Matches(memories[i], action)}
    IN  {i \in candidates :
            \A j \in candidates : ~Outranks(memories[j], memories[i], action)}

PreferenceOf(polarity) ==
    CASE polarity \in {"prefer", "success"} -> "preferred"
      [] polarity \in {"avoid", "failure"} -> "deprioritized"
      [] OTHER -> "none"

PreferenceRank(action) ==
    CASE action.preference = "preferred" -> 2
      [] action.preference = "deprioritized" -> 0
      [] OTHER -> 1

(* The action as the memory selected for it has it shown.                 *)
Annotated(action, memories) ==
    LET selected == SelectActionMemory(memories, action)
    IN  IF selected = {} THEN action
        ELSE [action EXCEPT !.preference = PreferenceOf(memories[Min(selected)].polarity)]

(* A stable sort shows the preferred actions first and the deprioritized   *)
(* ones last.                                                              *)
ApplyMerchantMemory(actions, memories) ==
    LET annotated == [i \in DOMAIN actions |-> Annotated(actions[i], memories)]
    IN  ElementsAt(annotated,
                   Descending([i \in DOMAIN annotated |-> PreferenceRank(annotated[i])]))

=============================================================================
