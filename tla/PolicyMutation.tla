--------------------------- MODULE PolicyMutation ---------------------------
(***************************************************************************)
(* How policy.Manager derives the tunable fields of a candidate policy     *)
(* from the active policy (internal/policy/manager.go,                     *)
(* GenerateCandidateWithPrompt), and how it completes the fields a policy  *)
(* written by an older release lacks (normalizePolicy).                    *)
(*                                                                         *)
(* Abstracted: the ROI threshold is in hundredths (the code rounds it to   *)
(* two decimals after every mutation); a prompt artifact is a member of    *)
(* Prompts; fields no mutation touches are left out; so are the wording of *)
(* reasons and rationales.                                                 *)
(*                                                                         *)
(* Definitions named <Operator>_<Fault> are not part of the model: each is *)
(* its operator with one plausible programming error, and shows that a     *)
(* property notices the error.                                             *)
(***************************************************************************)
EXTENDS Integers

CONSTANTS
    Prompts,         \* prompt artifacts an optimizer can return
    ValidPrompts,    \* those prompt.Validate accepts
    DefaultPrompt,   \* prompt.DefaultArtifact
    FallbackPrompt,  \* what RuleBasedOptimizer returns
    NoPrompt,        \* "no artifact": a nil optimizer result, an empty content
    GroundedLabel    \* no content either, but a legacy "+grounding" revision

ASSUME PromptAssumption ==
    /\ ValidPrompts \subseteq Prompts
    /\ DefaultPrompt \in ValidPrompts
    /\ FallbackPrompt \in ValidPrompts
    /\ NoPrompt \notin Prompts
    /\ GroundedLabel \notin Prompts
    /\ NoPrompt # GroundedLabel

-----------------------------------------------------------------------------
(* Values of the tunable fields *)

LowRisk  == 1       \* rank of domain.RiskLow; an action whose risk ranks at
HighRisk == 3       \* or above the threshold needs a human approval
TopK     == 3
MaxPool  == 30      \* cap of the hybrid recall pool
MinRoi   == 50
MaxRoi   == 300

Risks == LowRisk..HighRisk

DefaultParams ==
    [risk |-> 2, candidateK |-> 12, roi |-> 150, rewrite |-> "step_back",
     prompt |-> DefaultPrompt]

(* What a complete policy may hold, and what a policy file written before  *)
(* the newer fields existed may hold.                                      *)
Params ==
    [risk : Risks, candidateK : TopK..MaxPool, roi : MinRoi..MaxRoi,
     rewrite : {"step_back", "hyde"}, prompt : ValidPrompts]

LegacyParams ==
    [risk : Risks, candidateK : {0}, roi : {0}, rewrite : {""},
     prompt : {NoPrompt, GroundedLabel}]

(* prompt.Normalize: a legacy "+grounding" revision becomes the rule-based *)
(* patch, any other the default text; normalizePolicy fills the rest.      *)
NormalizePrompt(prompt) ==
    IF prompt = GroundedLabel THEN FallbackPrompt
    ELSE IF prompt = NoPrompt THEN DefaultPrompt
    ELSE prompt

Normalize_RoiLeft(p) ==
    [risk       |-> p.risk,
     candidateK |-> IF p.candidateK = 0 THEN DefaultParams.candidateK ELSE p.candidateK,
     roi        |-> p.roi,
     rewrite    |-> IF p.candidateK = 0 THEN DefaultParams.rewrite ELSE p.rewrite,
     prompt     |-> NormalizePrompt(p.prompt)]

Normalize(p) ==
    [risk       |-> p.risk,
     candidateK |-> IF p.candidateK = 0 THEN DefaultParams.candidateK ELSE p.candidateK,
     roi        |-> IF p.roi = 0 THEN DefaultParams.roi ELSE p.roi,
     rewrite    |-> IF p.candidateK = 0 THEN DefaultParams.rewrite ELSE p.rewrite,
     prompt     |-> NormalizePrompt(p.prompt)]

-----------------------------------------------------------------------------
(* Failure attribution: harness.attribute gives each failed layer the      *)
(* fields a mutation may touch.                                            *)

Categories == {"retrieval", "trajectory", "safety", "outcome",
               "model_quality", "cost"}

Allowlist ==
    [c \in Categories |->
        CASE c = "retrieval"     -> {"retrieval_candidate_k", "dense_weight",
                                     "sparse_weight", "merge_threshold",
                                     "relevance_threshold",
                                     "query_rewrite_strategy"}
          [] c = "trajectory"    -> {"max_workflow_steps", "max_tool_calls"}
          [] c = "safety"        -> {"required_approval_risk", "tool_allowlist"}
          [] c = "outcome"       -> {"campaign_roi_threshold"}
          [] c = "model_quality" -> {"prompt_revision"}
          [] c = "cost"          -> {"retrieval_top_k", "retrieval_candidate_k",
                                     "rerank_enabled", "max_cost_units"}]

AllowedMutations(cats) == UNION {Allowlist[c] : c \in cats}

CanMutate(cats, field) == cats = {} \/ field \in AllowedMutations(cats)

Mutates(cats, category, field) == category \in cats /\ CanMutate(cats, field)

(* Counters over the stored feedback; only the comparisons matter.         *)
Feedback == [useful : Nat, notUseful : Nat, positive : Nat]

-----------------------------------------------------------------------------
(* The clean branch runs only without attributions and without an          *)
(* optimized prompt; its three cases exclude each other.                   *)

Clean(cats, opt) == cats = {} /\ opt = NoPrompt
Disliked(fb) == fb.notUseful > fb.useful
Rewarded(fb) == ~Disliked(fb) /\ fb.useful > 0 /\ fb.positive > 0

Clamp(x) == IF x < MinRoi THEN MinRoi ELSE IF x > MaxRoi THEN MaxRoi ELSE x

(* bounded(v*1.05, .5, 3) and bounded(v*.95, .5, 3). math.Round rounds     *)
(* halves up, but at four thresholds the product v*.95 falls just below    *)
(* the half in float64.                                                    *)
RaiseRoi(r) == Clamp((r * 105 + 50) \div 100)
LowerRoi(r) == Clamp((r * 95 + (IF r \in {70, 130, 150, 230} THEN 49 ELSE 50)) \div 100)

WidenPool(k) == IF k + 4 > MaxPool THEN MaxPool ELSE k + 4

TrimPool(k, cut) == IF k - cut < TopK THEN TopK ELSE k - cut

-----------------------------------------------------------------------------
(* One operator per mutated field, in the order the code assigns them.     *)

NextRisk_FixedLevel(base, cats) ==
    IF Mutates(cats, "safety", "required_approval_risk")
    THEN LowRisk + 1 ELSE base.risk

NextRisk(base, cats) ==
    IF Mutates(cats, "safety", "required_approval_risk")
    THEN LowRisk ELSE base.risk

NextPool_AnyBaseline(base, cats, fb, opt) ==
    LET widened == IF Mutates(cats, "retrieval", "retrieval_candidate_k")
                   THEN WidenPool(base.candidateK) ELSE base.candidateK
    IN  IF Mutates(cats, "cost", "retrieval_candidate_k")
        THEN TrimPool(widened, 3)
        ELSE IF opt = NoPrompt /\ ~Disliked(fb) /\ ~Rewarded(fb)
        THEN TrimPool(widened, 2)
        ELSE widened

NextPool(base, cats, fb, opt) ==
    LET widened == IF Mutates(cats, "retrieval", "retrieval_candidate_k")
                   THEN WidenPool(base.candidateK) ELSE base.candidateK
    IN  IF Mutates(cats, "cost", "retrieval_candidate_k")
        THEN TrimPool(widened, 3)
        ELSE IF Clean(cats, opt) /\ ~Disliked(fb) /\ ~Rewarded(fb)
        THEN TrimPool(widened, 2)
        ELSE widened

NextRoi(base, cats, fb, opt) ==
    IF Mutates(cats, "outcome", "campaign_roi_threshold") THEN RaiseRoi(base.roi)
    ELSE IF Clean(cats, opt) /\ Disliked(fb) THEN LowerRoi(base.roi)
    ELSE IF Clean(cats, opt) /\ Rewarded(fb) THEN RaiseRoi(base.roi)
    ELSE base.roi

NextRewrite(base, cats) ==
    IF Mutates(cats, "retrieval", "query_rewrite_strategy")
    THEN "hyde" ELSE base.rewrite

(* canApplyOptimizedPrompt: an optimized text is used for a model quality  *)
(* failure or a clean baseline, and never as a by-product of another one.  *)
AppliesOptimized(cats, opt) ==
    opt # NoPrompt /\ (Mutates(cats, "model_quality", "prompt_revision") \/ cats = {})

NextPrompt(base, cats, opt) ==
    IF AppliesOptimized(cats, opt) THEN opt
    ELSE IF Mutates(cats, "model_quality", "prompt_revision") THEN FallbackPrompt
    ELSE base.prompt

(* Generation fails, and nothing is saved, when the optimized text that    *)
(* would be applied does not validate.                                     *)
OptimizedAccepted(cats, opt) == AppliesOptimized(cats, opt) => opt \in ValidPrompts

Mutate(base, cats, fb, opt) ==
    [risk       |-> NextRisk(base, cats),
     candidateK |-> NextPool(base, cats, fb, opt),
     roi        |-> NextRoi(base, cats, fb, opt),
     rewrite    |-> NextRewrite(base, cats),
     prompt     |-> NextPrompt(base, cats, opt)]

(* The fields on which two policies differ, by the names attribution uses. *)
ChangedFields(base, new) ==
    (IF new.risk # base.risk THEN {"required_approval_risk"} ELSE {})
      \cup (IF new.candidateK # base.candidateK THEN {"retrieval_candidate_k"} ELSE {})
      \cup (IF new.roi # base.roi THEN {"campaign_roi_threshold"} ELSE {})
      \cup (IF new.rewrite # base.rewrite THEN {"query_rewrite_strategy"} ELSE {})
      \cup (IF new.prompt # base.prompt THEN {"prompt_revision"} ELSE {})

=============================================================================
