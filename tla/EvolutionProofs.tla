--------------------------- MODULE EvolutionProofs ---------------------------
(***************************************************************************)
(* Machine-checked proofs about PolicyRelease and Evolution, for every     *)
(* number of concurrent requests, versions, suites, attributions, prompts  *)
(* and canary percentages: the Manager releases what its history earned,   *)
(* the service drives it as PolicyRelease allows (a refinement), its       *)
(* credentials can be audited, and what it records is true.                *)
(***************************************************************************)
EXTENDS Evolution, TLAPS

-----------------------------------------------------------------------------
(* The manager of policies.  Facts about mutation: *)

(* Clamping an integer gives a threshold within the limits of bounded().   *)
LEMMA ClampInRange ==
    ASSUME NEW x \in Int
    PROVE  Clamp(x) \in MinRoi..MaxRoi
BY DEF Clamp, MinRoi, MaxRoi

(* A mutated ROI threshold stays within the limits of bounded().           *)
LEMMA RoiInRange ==
    ASSUME NEW r \in MinRoi..MaxRoi
    PROVE  RaiseRoi(r) \in MinRoi..MaxRoi /\ LowerRoi(r) \in MinRoi..MaxRoi
<1>1. r \in Int
  BY DEF MinRoi, MaxRoi
<1>2. (r * 105 + 50) \div 100 \in Int
  BY <1>1
<1>3. (r * 95 + (IF r \in {70, 130, 150, 230} THEN 49 ELSE 50)) \div 100 \in Int
  BY <1>1
<1> QED
  BY <1>2, <1>3, ClampInRange DEF RaiseRoi, LowerRoi

(* The candidate pool never leaves TopK..MaxPool.                          *)
LEMMA PoolInRange ==
    ASSUME NEW k \in TopK..MaxPool
    PROVE  /\ WidenPool(k) \in TopK..MaxPool
           /\ TrimPool(k, 2) \in TopK..MaxPool
           /\ TrimPool(k, 3) \in TopK..MaxPool
BY DEF WidenPool, TrimPool, TopK, MaxPool

(* A candidate derived from a complete policy is complete, and its         *)
(* approval threshold is at most that of its base.                         *)
LEMMA MutateInRange ==
    ASSUME NEW base \in Params, NEW cats, NEW fb,
           NEW opt \in Prompts \cup {NoPrompt}, OptimizedAccepted(cats, opt)
    PROVE  /\ Mutate(base, cats, fb, opt) \in Params
           /\ Mutate(base, cats, fb, opt).risk <= base.risk
<1>1. NextRisk(base, cats) \in Risks /\ NextRisk(base, cats) <= base.risk
  BY DEF Params, Risks, NextRisk, LowRisk, HighRisk
<1>2. NextPool(base, cats, fb, opt) \in TopK..MaxPool
  <2>1. base.candidateK \in TopK..MaxPool
    BY DEF Params
  <2>2. PICK w \in TopK..MaxPool :
          w = IF Mutates(cats, "retrieval", "retrieval_candidate_k")
              THEN WidenPool(base.candidateK) ELSE base.candidateK
    BY <2>1, PoolInRange
  <2> QED
    BY <2>2, PoolInRange DEF NextPool
<1>3. NextRoi(base, cats, fb, opt) \in MinRoi..MaxRoi
  BY RoiInRange DEF Params, NextRoi
<1>4. NextRewrite(base, cats) \in {"step_back", "hyde"}
  BY DEF Params, NextRewrite
<1>5. NextPrompt(base, cats, opt) \in ValidPrompts
  BY PromptAssumption DEF Params, NextPrompt, OptimizedAccepted
<1> QED
  BY <1>1, <1>2, <1>3, <1>4, <1>5 DEF Mutate, Params

(* Completing a complete policy changes nothing (normalizePolicy).         *)
LEMMA CompleteIsNormal ==
    ASSUME NEW p \in Params
    PROVE  Normalize(p) = p
<1>1. /\ p.candidateK # 0 /\ p.roi # 0
      /\ p.prompt # NoPrompt /\ p.prompt # GroundedLabel
  BY PromptAssumption DEF Params, TopK, MaxPool, MinRoi, MaxRoi
<1> QED
  BY <1>1 DEF Normalize, NormalizePrompt, Params

(* Completing a policy leaves a complete one within range and never        *)
(* touches the approval threshold.                                         *)
LEMMA NormalizeInRange ==
    ASSUME NEW p \in Params \cup LegacyParams
    PROVE  Normalize(p) \in Params /\ Normalize(p).risk = p.risk
<1> DEFINE n == Normalize(p)
<1>1. CASE p \in Params
  BY <1>1, CompleteIsNormal
<1>2. CASE p \in LegacyParams
  <2>1. n = [risk |-> p.risk, candidateK |-> 12, roi |-> 150,
             rewrite |-> "step_back", prompt |-> NormalizePrompt(p.prompt)]
    BY <1>2 DEF LegacyParams, Normalize, DefaultParams
  <2>2. NormalizePrompt(p.prompt) \in ValidPrompts
    BY <1>2, PromptAssumption DEF LegacyParams, NormalizePrompt
  <2>3. p.risk \in Risks
    BY <1>2 DEF LegacyParams
  <2>4. 12 \in TopK..MaxPool /\ 150 \in MinRoi..MaxRoi
    BY DEF TopK, MaxPool, MinRoi, MaxRoi
  <2> QED
    BY <2>1, <2>2, <2>3, <2>4 DEF Params
<1> QED
  BY <1>1, <1>2

(* The allowlist theorem: whatever base policy, failed layers, feedback    *)
(* and optimizer output, generation changes only fields that attribution   *)
(* allows (manager.go, canMutate).                                         *)
THEOREM AllowlistTheorem ==
    ASSUME NEW base, NEW cats \in SUBSET Categories, cats # {}, NEW fb, NEW opt
    PROVE  ChangedFields(base, Mutate(base, cats, fb, opt)) \subseteq AllowedMutations(cats)
<1> DEFINE new == Mutate(base, cats, fb, opt)
<1>1. new.risk # base.risk => "required_approval_risk" \in AllowedMutations(cats)
  BY DEF Mutate, NextRisk, Mutates, CanMutate
<1>2. new.candidateK # base.candidateK => "retrieval_candidate_k" \in AllowedMutations(cats)
  BY DEF Mutate, NextPool, Mutates, CanMutate, Clean
<1>3. new.roi # base.roi => "campaign_roi_threshold" \in AllowedMutations(cats)
  BY DEF Mutate, NextRoi, Mutates, CanMutate, Clean
<1>4. new.rewrite # base.rewrite => "query_rewrite_strategy" \in AllowedMutations(cats)
  BY DEF Mutate, NextRewrite, Mutates, CanMutate
<1>5. new.prompt # base.prompt => "prompt_revision" \in AllowedMutations(cats)
  BY DEF Mutate, NextPrompt, AppliesOptimized, Mutates, CanMutate
<1> QED
  BY <1>1, <1>2, <1>3, <1>4, <1>5 DEF ChangedFields

(* On a clean baseline generation may change the pool, the ROI threshold   *)
(* and the prompt, and nothing else.                                       *)
LEMMA CleanAllowlist ==
    ASSUME NEW base, NEW fb, NEW opt
    PROVE  ChangedFields(base, Mutate(base, {}, fb, opt)) \subseteq
             {"retrieval_candidate_k", "campaign_roi_threshold", "prompt_revision"}
<1> DEFINE new == Mutate(base, {}, fb, opt)
<1>1. new.risk = base.risk /\ new.rewrite = base.rewrite
  BY DEF Mutate, NextRisk, NextRewrite, Mutates
<1> QED
  BY <1>1 DEF ChangedFields

-----------------------------------------------------------------------------
(* The inductive invariant *)

(* What ties the pointers, the map and the history together, and is needed *)
(* for the properties to be preserved:                                     *)
(*   - a running manager has a persisted state;                            *)
(*   - before the first start of an empty directory nothing exists;        *)
(*   - every version that has ever been active is still in the map (so a   *)
(*     fresh version is none of them), and no policy is its own parent.    *)
Structure ==
    /\ Running => activeVersion # NoVersion
    /\ activeVersion = NoVersion =>
          /\ previousVersion = NoVersion
          /\ canaryVersion = NoVersion
          /\ everActive = {}
          /\ \A v \in Versions : policies[v].status = "absent"
    /\ activeVersion # NoVersion => activeVersion \in everActive
    /\ \A v \in everActive : policies[v].status # "absent"
    /\ \A v \in Versions :
          IF policies[v].status = "absent" THEN policies[v].params \in Params
          ELSE policies[v].parent # v

IInv ==
    /\ TypeOK
    /\ Structure
    /\ OneActive
    /\ CredentialsEarned
    /\ CanaryFresh
    /\ RollbackOneEdge
    /\ LineageTightens

(* The invariant holds of an empty data directory and of one with the      *)
(* active policy of an older release.                                      *)
LEMMA InitIInv == Init => IInv
<1> SUFFICES ASSUME Init PROVE IInv
  OBVIOUS
<1> USE DEF Init
<1>0. DefaultParams \in Params
  BY PromptAssumption DEF DefaultParams, Params, Risks, LowRisk, HighRisk, TopK, MaxPool, MinRoi, MaxRoi
<1>1. TypeOK
  <2>1. \A p \in Params \cup LegacyParams, st \in Status : Unreleased(st, p) \in Policy
    BY DEF Unreleased, Policy
  <2>2. policies \in [Versions -> Policy]
    BY <1>0, <2>1 DEF Status
  <2> QED
    BY <2>2, VersionAssumption DEF TypeOK
<1>2. \A v \in Versions : policies[v].parent = NoVersion
  BY DEF Unreleased
<1>3. \A v \in Versions : policies[v].status = (IF v = activeVersion THEN "active" ELSE "absent")
  BY VersionAssumption DEF Unreleased
<1>4. Structure
  BY <1>0, <1>2, <1>3, VersionAssumption DEF Structure, Running, Unreleased
<1>5. OneActive /\ CredentialsEarned
  BY <1>3 DEF OneActive, CredentialsEarned
<1>6. CanaryFresh /\ RollbackOneEdge /\ LineageTightens
  BY <1>2 DEF CanaryFresh, RollbackOneEdge, LineageTightens
<1> QED
  BY <1>1, <1>4, <1>5, <1>6 DEF IInv

(* NewManager keeps it: completing legacy policies touches neither         *)
(* statuses, credentials nor approval thresholds.                          *)
LEMMA StartIInv ==
    ASSUME IInv, NEW s \in Suites, Start(s)
    PROVE  IInv'
<1> USE DEF IInv
<1>0. DefaultParams \in Params
  BY PromptAssumption DEF DefaultParams, Params, Risks, LowRisk, HighRisk, TopK, MaxPool, MinRoi, MaxRoi
<1>1. CASE activeVersion = NoVersion
  <2> USE <1>1
  <2>1. /\ activeVersion' = Bootstrap
        /\ policies' = [policies EXCEPT ![Bootstrap] = Unreleased("active", DefaultParams)]
        /\ everActive' = {Bootstrap}
        /\ suite' = s
        /\ previousVersion' = NoVersion
        /\ canaryVersion' = NoVersion
        /\ canaryPercent' = canaryPercent
    BY DEF Start, Structure
  <2>2. \A v \in Versions : v # Bootstrap => policies'[v] = policies[v] /\ policies'[v].status = "absent"
    BY <2>1 DEF TypeOK, Structure
  <2>3. policies'[Bootstrap] = Unreleased("active", DefaultParams)
    BY <2>1, VersionAssumption DEF TypeOK
  <2>4. TypeOK'
    <3>1. Unreleased("active", DefaultParams) \in Policy
      BY <1>0 DEF Unreleased, Policy, Status
    <3>2. \A v \in Versions : policies'[v].params \in Params
      BY <1>0, <2>1, <2>2, <2>3 DEF Unreleased, Structure
    <3> QED
      BY <2>1, <3>1, <3>2, VersionAssumption DEF TypeOK
  <2>5. Structure'
    <3>1. \A v \in Versions : policies'[v].params \in Params
      BY <1>0, <2>1, <2>2, <2>3 DEF Unreleased, Structure
    <3>2. \A v \in Versions : policies'[v].status # "absent" => policies'[v].parent # v
      BY <2>2, <2>3, VersionAssumption DEF Unreleased
    <3> QED
      BY <2>1, <2>3, <3>1, <3>2, VersionAssumption DEF Structure, Running, Unreleased
  <2>6. OneActive'
    BY <2>1, <2>2, <2>3 DEF OneActive, Unreleased
  <2>7. CredentialsEarned'
    BY <2>1, <2>2, <2>3 DEF CredentialsEarned, Unreleased
  <2>8. CanaryFresh' /\ RollbackOneEdge'
    BY <2>1 DEF CanaryFresh, RollbackOneEdge, Structure
  <2>9. LineageTightens'
    BY <2>2, <2>3 DEF LineageTightens, Unreleased
  <2> QED
    BY <2>4, <2>5, <2>6, <2>7, <2>8, <2>9
<1>2. CASE activeVersion # NoVersion
  <2> USE <1>2
  <2>1. /\ policies' = [v \in Versions |-> [policies[v] EXCEPT !.params = Normalize(@)]]
        /\ suite' = s
        /\ UNCHANGED <<activeVersion, everActive, previousVersion, canaryVersion, canaryPercent>>
    BY DEF Start
  <2>2. ASSUME NEW v \in Versions
        PROVE  /\ policies'[v] \in Policy
               /\ policies'[v].params \in Params
               /\ policies'[v].params.risk = policies[v].params.risk
               /\ policies'[v].status = policies[v].status
               /\ policies'[v].parent = policies[v].parent
               /\ policies'[v].report = policies[v].report
               /\ policies'[v].against = policies[v].against
    <3>1. policies[v] \in Policy /\ policies[v].params \in Params \cup LegacyParams
      BY DEF TypeOK, Policy
    <3>2. /\ Normalize(policies[v].params) \in Params
          /\ Normalize(policies[v].params).risk = policies[v].params.risk
      BY <3>1, NormalizeInRange
    <3>3. policies'[v] = [policies[v] EXCEPT !.params = Normalize(policies[v].params)]
      BY <2>1
    <3> QED
      BY <3>1, <3>2, <3>3 DEF Policy
  <2>3. TypeOK'
    BY <2>1, <2>2 DEF TypeOK
  <2>4. Structure'
    BY <2>1, <2>2 DEF Structure, Running, TypeOK
  <2>5. OneActive'
    BY <2>1, <2>2 DEF OneActive
  <2>5a. CredentialsEarned'
    BY <2>1, <2>2 DEF CredentialsEarned, Earned
  <2>6. CanaryFresh' /\ RollbackOneEdge'
    BY <2>1, <2>2 DEF CanaryFresh, RollbackOneEdge, TypeOK
  <2>7. LineageTightens'
    <3> SUFFICES ASSUME NEW v \in Versions, policies'[v].status # "absent",
                        policies'[v].parent # NoVersion
                 PROVE  /\ policies'[v].parent \in everActive'
                        /\ policies'[v].params.risk <= policies'[policies'[v].parent].params.risk
      BY DEF LineageTightens
    <3>1. policies[v].parent \in everActive /\ policies[v].parent \in Versions
      BY <2>2 DEF LineageTightens, TypeOK
    <3>2. policies[v].params.risk <= policies[policies[v].parent].params.risk
      BY <2>2 DEF LineageTightens
    <3>3. policies'[v].parent = policies[v].parent
      BY <2>2
    <3>4. policies'[policies[v].parent].params.risk = policies[policies[v].parent].params.risk
      BY <2>2, <3>1
    <3>5. policies'[v].params.risk = policies[v].params.risk
      BY <2>2
    <3> QED
      BY <2>1, <3>1, <3>2, <3>3, <3>4, <3>5
  <2> QED
    BY <2>3, <2>4, <2>5, <2>5a, <2>6, <2>7
<1> QED
  BY <1>1, <1>2

(* A generated candidate keeps it: it is a child of the active policy with *)
(* an approval threshold at most the parent's, and no release status yet.  *)
LEMMA GenerateIInv ==
    ASSUME IInv, NEW v \in Versions, NEW cats \in Attributions,
           NEW fb \in FeedbackCounts, NEW opt \in Prompts \cup {NoPrompt},
           GenerateCandidate(v, cats, fb, opt)
    PROVE  IInv'
<1> USE DEF IInv
<1> DEFINE base == policies[activeVersion]
           derived == Mutate(Normalize(base.params), cats, fb, opt)
<1>1. /\ Running
      /\ policies[v].status = "absent"
      /\ OptimizedAccepted(cats, opt)
      /\ policies' = [policies EXCEPT ![v] =
            [base EXCEPT !.status = "candidate", !.parent = activeVersion, !.params = derived]]
      /\ UNCHANGED <<suite, activeVersion, previousVersion, canaryVersion,
                     canaryPercent, everActive>>
  BY DEF GenerateCandidate
<1>2. /\ activeVersion \in everActive
      /\ activeVersion \in Versions
      /\ activeVersion # NoVersion
      /\ base \in Policy
      /\ base.params \in Params
  BY <1>1 DEF Structure, TypeOK, Running
<1>3. v \notin everActive /\ v # activeVersion
  BY <1>1, <1>2 DEF Structure
<1>4. derived \in Params /\ derived.risk <= base.params.risk
  BY <1>1, <1>2, MutateInRange, NormalizeInRange
<1>5. \A w \in Versions : w # v => policies'[w] = policies[w]
  BY <1>1 DEF TypeOK
<1>6. /\ policies'[v] \in Policy
      /\ policies'[v].status = "candidate"
      /\ policies'[v].parent = activeVersion
      /\ policies'[v].params = derived
  <2>1. policies'[v] = [base EXCEPT !.status = "candidate", !.parent = activeVersion, !.params = derived]
    BY <1>1 DEF TypeOK
  <2> HIDE DEF derived, base
  <2>2. policies'[v] = [status |-> "candidate", parent |-> activeVersion, params |-> derived,
                        report |-> base.report, against |-> base.against,
                        evalSuite |-> base.evalSuite]
    BY <1>2, <2>1 DEF Policy
  <2>3. /\ base.report \in Report \cup {NoReport}
        /\ base.against \in Versions \cup {NoVersion}
        /\ base.evalSuite \in Suites \cup {NoSuite}
    BY <1>2 DEF Policy
  <2>4. policies'[v] \in Policy
    BY <1>2, <1>4, <2>2, <2>3 DEF Policy, Status
  <2> QED
    BY <2>2, <2>4
<1>7. TypeOK'
  <2>1. \A w \in Versions : policies'[w].params \in Params
    BY <1>1, <1>4, <1>5, <1>6 DEF TypeOK, Running
  <2> QED
    BY <1>1, <1>5, <1>6, <2>1 DEF TypeOK
<1>8. Structure'
  BY <1>1, <1>2, <1>3, <1>4, <1>5, <1>6 DEF Structure, Running, TypeOK
<1>9. OneActive'
  BY <1>1, <1>3, <1>5, <1>6 DEF OneActive
<1>10. CredentialsEarned'
  BY <1>1, <1>3, <1>5, <1>6 DEF CredentialsEarned, Earned
<1>11. CanaryFresh'
  BY <1>1, <1>5 DEF CanaryFresh, TypeOK
<1>12. RollbackOneEdge'
  BY <1>1, <1>2, <1>3, <1>5 DEF RollbackOneEdge, TypeOK
<1>13. LineageTightens'
  BY <1>1, <1>2, <1>3, <1>4, <1>5, <1>6 DEF LineageTightens, TypeOK
<1> QED
  BY <1>7, <1>8, <1>9, <1>10, <1>11, <1>12, <1>13

(* Binding a report keeps it: the report is the candidate's own, and its   *)
(* baseline is the active policy and the parent.                           *)
LEMMA MarkEvaluatedIInv ==
    ASSUME IInv, NEW v \in Versions, NEW r \in PossibleReports, MarkEvaluated(v, r)
    PROVE  IInv'
<1> USE DEF IInv
<1>1. /\ Running
      /\ policies[v].status # "absent"
      /\ r.passed /\ r.policy = v /\ r.baseline = activeVersion
      /\ policies[v].parent = activeVersion
      /\ policies' = [policies EXCEPT ![v] =
            [@ EXCEPT !.status = "evaluated", !.report = r,
                      !.against = r.baseline, !.evalSuite = r.suite]]
      /\ UNCHANGED <<suite, activeVersion, previousVersion, canaryVersion,
                     canaryPercent, everActive>>
  BY DEF MarkEvaluated, Markable, Exists
<1>2. r \in Report /\ activeVersion \in Versions /\ activeVersion # NoVersion
  BY <1>1 DEF PossibleReports, TypeOK, Structure
<1>3. v # activeVersion
  BY <1>1 DEF Structure
<1>4. \A w \in Versions : w # v => policies'[w] = policies[w]
  BY <1>1 DEF TypeOK
<1>5. /\ policies'[v] \in Policy
      /\ policies'[v].status = "evaluated"
      /\ policies'[v].parent = policies[v].parent
      /\ policies'[v].params = policies[v].params
      /\ policies'[v].report = r
      /\ policies'[v].against = activeVersion
  <2>1. policies[v] \in Policy
    BY DEF TypeOK
  <2>2. policies'[v] = [policies[v] EXCEPT !.status = "evaluated", !.report = r,
                            !.against = r.baseline, !.evalSuite = r.suite]
    BY <1>1 DEF TypeOK
  <2>3. r.baseline \in Versions /\ r.suite \in Suites
    BY <1>2 DEF Report
  <2>4. policies'[v] = [status |-> "evaluated", parent |-> policies[v].parent,
                        params |-> policies[v].params, report |-> r,
                        against |-> r.baseline, evalSuite |-> r.suite]
    BY <2>1, <2>2 DEF Policy
  <2>5. policies[v].parent \in Versions \cup {NoVersion}
        /\ policies[v].params \in Params \cup LegacyParams
    BY <2>1 DEF Policy
  <2>6. policies'[v] \in Policy
    BY <1>2, <2>3, <2>4, <2>5 DEF Policy, Status
  <2> QED
    BY <1>1, <2>4, <2>6
<1>6. TypeOK'
  BY <1>1, <1>4, <1>5 DEF TypeOK
<1>7. Structure'
  BY <1>1, <1>4, <1>5 DEF Structure, Running, TypeOK
<1>8. OneActive'
  BY <1>1, <1>3, <1>4, <1>5 DEF OneActive
<1>9. CredentialsEarned'
  BY <1>1, <1>2, <1>4, <1>5 DEF CredentialsEarned, Earned
<1>10. CanaryFresh'
  BY <1>1, <1>4, <1>5 DEF CanaryFresh, TypeOK
<1>11. RollbackOneEdge'
  BY <1>1, <1>2, <1>4, <1>5 DEF RollbackOneEdge, TypeOK
<1>12. LineageTightens'
  BY <1>1, <1>4, <1>5 DEF LineageTightens, TypeOK
<1> QED
  BY <1>6, <1>7, <1>8, <1>9, <1>10, <1>11, <1>12

(* Assigning canary traffic keeps it: the credential is current.           *)
LEMMA StartCanaryIInv ==
    ASSUME IInv, NEW v \in Versions, NEW percent \in Percents, StartCanary(v, percent)
    PROVE  IInv'
<1> USE DEF IInv
<1>1. /\ Running
      /\ percent \in 1..50
      /\ policies[v].status \in {"evaluated", "canary"}
      /\ policies[v].against = activeVersion
      /\ policies' = [policies EXCEPT ![v].status = "canary"]
      /\ canaryVersion' = v /\ canaryPercent' = percent
      /\ UNCHANGED <<suite, activeVersion, previousVersion, everActive>>
  BY DEF StartCanary, Canariable, CredentialCurrent
<1>2. activeVersion # NoVersion
  BY <1>1 DEF Structure
<1>3. v # activeVersion
  BY <1>1, <1>2 DEF OneActive
<1>4. Earned(v)
  BY <1>1 DEF CredentialsEarned
<1>5. /\ policies[v].parent = activeVersion
      /\ policies[v].report.baseline = activeVersion
  BY <1>1, <1>4 DEF Earned
<1>6. \A w \in Versions : w # v => policies'[w] = policies[w]
  BY <1>1 DEF TypeOK
<1>7. /\ policies'[v] \in Policy
      /\ policies'[v].status = "canary"
      /\ policies'[v].parent = policies[v].parent
      /\ policies'[v].params = policies[v].params
      /\ policies'[v].report = policies[v].report
      /\ policies'[v].against = policies[v].against
  BY <1>1 DEF TypeOK, Policy, Status
<1>8. TypeOK'
  BY <1>1, <1>6, <1>7 DEF TypeOK
<1>9. Structure'
  BY <1>1, <1>6, <1>7 DEF Structure, Running, TypeOK
<1>10. OneActive'
  BY <1>1, <1>3, <1>6, <1>7 DEF OneActive
<1>11. CredentialsEarned'
  BY <1>1, <1>4, <1>6, <1>7 DEF CredentialsEarned, Earned
<1>12. CanaryFresh'
  BY <1>1, <1>3, <1>5, <1>7, VersionAssumption DEF CanaryFresh
<1>13. RollbackOneEdge'
  BY <1>1, <1>2, <1>6, <1>7 DEF RollbackOneEdge, TypeOK
<1>14. LineageTightens'
  BY <1>1, <1>6, <1>7 DEF LineageTightens, TypeOK
<1> QED
  BY <1>8, <1>9, <1>10, <1>11, <1>12, <1>13, <1>14

(* A canary policy that Promote accepts has the active policy as parent,   *)
(* so the two are different and the parent is its evaluation baseline.     *)
LEMMA PromoteIInv ==
    ASSUME IInv, NEW v \in Versions, Promote(v)
    PROVE  IInv'
<1> USE DEF IInv
<1>1. /\ Running
      /\ policies[v].status = "canary"
      /\ policies[v].parent = activeVersion
      /\ policies' = [policies EXCEPT ![activeVersion].status = "retired",
                                      ![v].status = "active"]
      /\ previousVersion' = activeVersion /\ activeVersion' = v
      /\ canaryVersion' = NoVersion /\ canaryPercent' = 0
      /\ everActive' = everActive \cup {v}
      /\ suite' = suite
  BY DEF Promote, Promotable
<1>2. /\ activeVersion # NoVersion
      /\ activeVersion \in everActive
      /\ activeVersion \in Versions
  BY <1>1 DEF Structure, TypeOK
<1>3. v # activeVersion
  BY <1>1, <1>2 DEF OneActive
<1>4. Earned(v)
  BY <1>1 DEF CredentialsEarned
<1>5. \A w \in Versions : w \notin {v, activeVersion} => policies'[w] = policies[w]
  BY <1>1 DEF TypeOK
<1>6. /\ policies'[v].status = "active"
      /\ policies'[activeVersion].status = "retired"
  BY <1>1, <1>2, <1>3 DEF TypeOK, Policy
<1>7. ASSUME NEW w \in Versions
      PROVE  /\ policies'[w] \in Policy
             /\ policies'[w].parent = policies[w].parent
             /\ policies'[w].params = policies[w].params
             /\ policies'[w].report = policies[w].report
             /\ policies'[w].against = policies[w].against
  BY <1>1, <1>2, <1>3 DEF TypeOK, Policy, Status
<1>8. TypeOK'
  BY <1>1, <1>2, <1>7 DEF TypeOK
<1>9. Structure'
  BY <1>1, <1>2, <1>3, <1>5, <1>6, <1>7, VersionAssumption DEF Structure, Running, TypeOK
<1>10. OneActive'
  BY <1>1, <1>2, <1>5, <1>6 DEF OneActive
<1>11. CredentialsEarned'
  <2>1. \A w \in Versions : Earned(w) => Earned(w)'
    BY <1>7 DEF Earned
  <2> QED
    BY <1>1, <1>2, <1>4, <1>5, <1>6, <2>1 DEF CredentialsEarned
<1>12. CanaryFresh'
  BY <1>1 DEF CanaryFresh
<1>13. RollbackOneEdge'
  BY <1>1, <1>2, <1>3, <1>7 DEF RollbackOneEdge
<1>14. LineageTightens'
  <2> SUFFICES ASSUME NEW w \in Versions, policies'[w].status # "absent",
                      policies'[w].parent # NoVersion
               PROVE  /\ policies'[w].parent \in everActive'
                      /\ policies'[w].params.risk <= policies'[policies'[w].parent].params.risk
    BY DEF LineageTightens
  <2>1. policies[w].status # "absent"
    BY <1>1, <1>2, <1>5 DEF Structure
  <2>2. /\ policies[w].parent \in everActive
        /\ policies[w].params.risk <= policies[policies[w].parent].params.risk
    BY <1>7, <2>1 DEF LineageTightens
  <2>3. policies[w].parent \in Versions
    BY <2>2 DEF TypeOK
  <2>4. policies'[policies[w].parent].params = policies[policies[w].parent].params
    BY <1>7, <2>3
  <2>5. policies'[w].parent = policies[w].parent /\ policies'[w].params = policies[w].params
    BY <1>7
  <2>6. everActive \subseteq everActive'
    BY <1>1
  <2> QED
    BY <2>2, <2>4, <2>5, <2>6
<1> QED
  BY <1>8, <1>9, <1>10, <1>11, <1>12, <1>13, <1>14

(* A rollback keeps it: it exchanges the two ends of one lineage edge and  *)
(* drops the canary, whose credential would be stale.                      *)
LEMMA RollbackIInv ==
    ASSUME IInv, Rollback
    PROVE  IInv'
<1> USE DEF IInv
<1>1. /\ Running
      /\ previousVersion # NoVersion
      /\ policies' = [policies EXCEPT ![activeVersion].status = "rolled_back",
                                      ![previousVersion].status = "active"]
      /\ activeVersion' = previousVersion /\ previousVersion' = activeVersion
      /\ canaryVersion' = NoVersion /\ canaryPercent' = 0
      /\ UNCHANGED <<suite, everActive>>
  BY DEF Rollback
<1>2. /\ activeVersion # NoVersion
      /\ activeVersion \in everActive /\ activeVersion \in Versions
      /\ previousVersion \in everActive /\ previousVersion \in Versions
      /\ previousVersion # activeVersion
  BY <1>1 DEF Structure, TypeOK, RollbackOneEdge
<1>3. \A w \in Versions : w \notin {previousVersion, activeVersion} => policies'[w] = policies[w]
  BY <1>1 DEF TypeOK
<1>4. /\ policies'[previousVersion].status = "active"
      /\ policies'[activeVersion].status = "rolled_back"
  BY <1>1, <1>2 DEF TypeOK, Policy
<1>5. ASSUME NEW w \in Versions
      PROVE  /\ policies'[w] \in Policy
             /\ policies'[w].parent = policies[w].parent
             /\ policies'[w].params = policies[w].params
             /\ policies'[w].report = policies[w].report
             /\ policies'[w].against = policies[w].against
  BY <1>1, <1>2 DEF TypeOK, Policy, Status
<1>6. TypeOK'
  BY <1>1, <1>2, <1>5 DEF TypeOK
<1>7. Structure'
  BY <1>1, <1>2, <1>3, <1>4, <1>5 DEF Structure, Running, TypeOK
<1>8. OneActive'
  BY <1>1, <1>2, <1>3, <1>4 DEF OneActive
<1>9. CredentialsEarned'
  <2>1. \A w \in Versions : Earned(w) => Earned(w)'
    BY <1>5 DEF Earned
  <2> QED
    BY <1>1, <1>2, <1>3, <1>4, <2>1 DEF CredentialsEarned
<1>10. CanaryFresh'
  BY <1>1 DEF CanaryFresh
<1>11. RollbackOneEdge'
  BY <1>1, <1>2, <1>5 DEF RollbackOneEdge
<1>12. LineageTightens'
  BY <1>1, <1>2, <1>3, <1>4, <1>5 DEF LineageTightens, TypeOK, Structure
<1> QED
  BY <1>6, <1>7, <1>8, <1>9, <1>10, <1>11, <1>12

-----------------------------------------------------------------------------
(* The theorems *)

(* Every operation of the Manager keeps the invariant.                     *)
LEMMA NextIInv == IInv /\ [Next]_vars => IInv'
<1> SUFFICES ASSUME IInv, [Next]_vars PROVE IInv'
  OBVIOUS
<1>1. ASSUME NEW s \in Suites, Start(s) PROVE IInv'
  BY <1>1, StartIInv
<1>2. CASE Stop
  <2>1. UNCHANGED <<state, everActive>> /\ ~Running'
    BY <1>2 DEF Stop, Running
  <2>2. TypeOK' /\ Structure'
    BY <1>2, <2>1 DEF Stop, IInv, TypeOK, Structure, state
  <2> QED
    BY <2>1, <2>2 DEF IInv, OneActive, CredentialsEarned, Earned, CanaryFresh,
                      RollbackOneEdge, LineageTightens, state
<1>3. ASSUME NEW v \in Versions, NEW cats \in Attributions, NEW fb \in FeedbackCounts,
             NEW opt \in Prompts \cup {NoPrompt}, GenerateCandidate(v, cats, fb, opt)
      PROVE  IInv'
  BY <1>3, GenerateIInv
<1>4. ASSUME NEW v \in Versions, NEW r \in PossibleReports, MarkEvaluated(v, r) PROVE IInv'
  BY <1>4, MarkEvaluatedIInv
<1>5. ASSUME NEW v \in Versions, NEW percent \in Percents, StartCanary(v, percent) PROVE IInv'
  BY <1>5, StartCanaryIInv
<1>6. ASSUME NEW v \in Versions, Promote(v) PROVE IInv'
  BY <1>6, PromoteIInv
<1>7. CASE Rollback
  BY <1>7, RollbackIInv
<1>8. CASE UNCHANGED vars
  BY <1>8 DEF IInv, TypeOK, Structure, Running, OneActive, CredentialsEarned, Earned,
              CanaryFresh, RollbackOneEdge, LineageTightens, vars, state
<1> QED
  BY <1>1, <1>2, <1>3, <1>4, <1>5, <1>6, <1>7, <1>8 DEF Next

(* The inductive invariant holds of every behaviour of the Manager.        *)
THEOREM Invariance == Spec => []IInv
BY InitIInv, NextIInv, PTL DEF Spec

(* Every reachable state is well typed: policies are complete or legacy,   *)
(* pointers name versions or nothing (domain.PolicyState).                 *)
THEOREM TypeCorrect == Spec => []TypeOK
<1>1. IInv => TypeOK
  BY DEF IInv
<1> QED
  BY <1>1, Invariance, PTL

(* Exactly the policy ActiveVersion names has status "active"              *)
(* (manager.go, Promote and Rollback).                                     *)
THEOREM OneActiveHolds == Spec => []OneActive
<1>1. IInv => OneActive
  BY DEF IInv
<1> QED
  BY <1>1, Invariance, PTL

(* Every released version owns a passing report against its parent         *)
(* (manager.go, MarkEvaluated).                                            *)
THEOREM CredentialsEarnedHolds == Spec => []CredentialsEarned
<1>1. IInv => CredentialsEarned
  BY DEF IInv
<1> QED
  BY <1>1, Invariance, PTL

(* Canary traffic runs only on a policy evaluated against the active one   *)
(* (manager.go, StartCanary).                                              *)
THEOREM CanaryFreshHolds == Spec => []CanaryFresh
<1>1. IInv => CanaryFresh
  BY DEF IInv
<1> QED
  BY <1>1, Invariance, PTL

(* A rollback stays on one edge of the lineage (manager.go, Rollback).     *)
THEOREM RollbackOneEdgeHolds == Spec => []RollbackOneEdge
<1>1. IInv => RollbackOneEdge
  BY DEF IInv
<1> QED
  BY <1>1, Invariance, PTL

(* Along every edge of the lineage the approval threshold only tightens    *)
(* (manager.go, GenerateCandidateWithPrompt).                              *)
THEOREM LineageTightensHolds == Spec => []LineageTightens
<1>1. IInv => LineageTightens
  BY DEF IInv
<1> QED
  BY <1>1, Invariance, PTL

(* No store is served under a looser approval threshold than the active    *)
(* policy's (manager.go, Select), because generation only tightens and     *)
(* the canary is always a child of the active policy.                      *)
THEOREM ServedNeverLooserHolds == Spec => []ServedNeverLooser
<1>1. IInv => ServedNeverLooser
  <2> SUFFICES ASSUME IInv, Running, NEW store \in Stores
               PROVE  policies[Select(store)].params.risk <= policies[activeVersion].params.risk
    BY DEF ServedNeverLooser
  <2>1. activeVersion \in Versions /\ activeVersion # NoVersion
    BY DEF IInv, TypeOK, Structure
  <2>2. CASE Select(store) = activeVersion
    <3>1. policies[activeVersion].params.risk \in Int
      BY <2>1 DEF IInv, TypeOK, Running, Params, Risks, LowRisk, HighRisk
    <3> QED
      BY <2>2, <3>1
  <2>3. CASE Select(store) = canaryVersion /\ canaryVersion # NoVersion
    <3>1. /\ canaryVersion \in Versions
          /\ policies[canaryVersion].status # "absent"
          /\ policies[canaryVersion].parent = activeVersion
      BY <2>3 DEF IInv, TypeOK, CanaryFresh
    <3> QED
      BY <2>1, <2>3, <3>1 DEF IInv, LineageTightens
  <2> QED
    BY <2>2, <2>3 DEF Select
<1> QED
  BY <1>1, Invariance, PTL

(* No promotion loosens the approval threshold in force (manager.go,       *)
(* Promote): only a rollback to the previous version can.                  *)
THEOREM PromotionNeverLooserHolds == Spec => PromotionNeverLooser
<1> DEFINE Tightens ==
      (activeVersion # NoVersion /\ activeVersion' \notin {activeVersion, previousVersion})
         => policies'[activeVersion'].params.risk <= policies[activeVersion].params.risk
<1>1. IInv /\ [Next]_vars => [Tightens]_vars
  <2> SUFFICES ASSUME IInv, Next, activeVersion # NoVersion,
                      activeVersion' \notin {activeVersion, previousVersion}
               PROVE  policies'[activeVersion'].params.risk <= policies[activeVersion].params.risk
    OBVIOUS
  <2>1. PICK v \in Versions : Promote(v)
    BY DEF Next, Start, Stop, GenerateCandidate, MarkEvaluated, StartCanary, Rollback, state
  <2>2. /\ activeVersion' = v
        /\ policies[v].status = "canary"
        /\ policies[v].parent = activeVersion
        /\ policies' = [policies EXCEPT ![activeVersion].status = "retired",
                                        ![v].status = "active"]
    BY <2>1 DEF Promote, Promotable
  <2>3. policies'[v].params = policies[v].params
    BY <2>2 DEF IInv, TypeOK, Policy
  <2> QED
    BY <2>2, <2>3 DEF IInv, LineageTightens
<1> QED
  BY <1>1, Invariance, PTL DEF Spec, PromotionNeverLooser

(* Generation changes of a completed active policy only what the           *)
(* attribution of its failed layers allows (manager.go, canMutate), for    *)
(* every prompt, feedback and attribution.                                 *)
THEOREM AllowlistHolds == Spec => AllowlistRespected
<1> DEFINE Respects ==
      \A v \in Versions, cats \in Attributions :
          (\E fb \in FeedbackCounts, opt \in Prompts \cup {NoPrompt} :
                GenerateCandidate(v, cats, fb, opt))
             => ChangedFields(policies[activeVersion].params, policies'[v].params)
                  \subseteq MayChange(cats)
<1>1. IInv => [Respects]_vars
  <2> SUFFICES ASSUME IInv, NEW v \in Versions, NEW cats \in Attributions,
                      NEW fb \in FeedbackCounts, NEW opt \in Prompts \cup {NoPrompt},
                      GenerateCandidate(v, cats, fb, opt)
               PROVE  ChangedFields(policies[activeVersion].params, policies'[v].params)
                        \subseteq MayChange(cats)
    OBVIOUS
  <2> DEFINE params == policies[activeVersion].params
  <2>1. params \in Params
    BY DEF GenerateCandidate, Running, IInv, TypeOK, Structure
  <2>2. Normalize(params) = params
    BY <2>1, CompleteIsNormal
  <2>3. policies'[v].params = Mutate(params, cats, fb, opt)
    <3>1. policies[activeVersion] \in Policy
      BY DEF GenerateCandidate, Running, IInv, TypeOK, Structure
    <3>2. policies'[v] = [policies[activeVersion] EXCEPT !.status = "candidate",
                             !.parent = activeVersion,
                             !.params = Mutate(Normalize(params), cats, fb, opt)]
      BY DEF GenerateCandidate, IInv, TypeOK
    <3> HIDE DEF params
    <3> QED
      BY <2>2, <3>1, <3>2 DEF Policy
  <2> HIDE DEF params
  <2>4. ChangedFields(params, Mutate(params, cats, fb, opt)) \subseteq MayChange(cats)
    <3>1. CASE cats = {}
      BY <3>1, CleanAllowlist DEF MayChange
    <3>2. CASE cats # {}
      BY <3>2, AllowlistTheorem, InputAssumption DEF MayChange
    <3> QED
      BY <3>1, <3>2
  <2> QED
    BY <2>3, <2>4 DEF params
<1> QED
  BY <1>1, Invariance, PTL DEF AllowlistRespected


-----------------------------------------------------------------------------
(* The service.  Its inductive invariant: *)

(* The baseline report of policy v is on disk.                             *)
BaselineSaved(v) == \E r \in reports : r.baseline = NoVersion /\ r.policy = v

(* What a release claims of a candidate and the policy it was derived from.*)
Released(v, base) == policies[v].parent = base /\ Earned(v)

Generated == {"evaluate", "mark", "canary", "record"}

(* What the locals of a running request say about the state, however it    *)
(* has moved on since they were read: facts that no operation of another   *)
(* request or of the administrator takes back.                             *)
SoundLocals(s) ==
    LET l == session[s]
    IN  /\ l.pc \notin {"new", "done"} =>
              /\ Running
              /\ l.base \in everActive
              /\ l.percent \in Percents
        /\ (l.pc = "baseline" /\ l.op = "harness") => Exists(l.target)
        /\ l.pc = "generate" => l.op # "harness" /\ l.cats \in Attributions
        /\ l.pc \in {"generate"} \cup Generated => BaselineSaved(l.base)
        /\ l.pc \in Generated =>
              /\ l.op # "generate"
              /\ Exists(l.target)
              /\ l.op = "evolve" => attributedTo[l.target] = l.base
        /\ l.pc \in {"baseline", "generate", "evaluate", "mark"} => l.status = "blocked"
        /\ l.pc = "mark" =>
              /\ l.report = [policy |-> l.target, baseline |-> l.base,
                             suite |-> suite, passed |-> TRUE]
              /\ l.report \in reports
        /\ l.pc \in {"canary", "record"} => l.op = "evolve"
        /\ l.pc = "canary" => l.status = "evaluated"
        /\ l.pc \in {"canary", "record"} /\ l.status # "blocked" =>
              Released(l.target, l.base)

(* A recorded candidate is in the map, so no later generation reuses it.   *)
RecordedExist == \A run \in runs : Exists(run.candidate)

ServiceInv ==
    /\ IInv
    /\ EvolutionTypeOK
    /\ \A s \in Sessions : SoundLocals(s)
    /\ CredentialsOnDisk
    /\ RecordedExist
    /\ RecordedRunsConsistent


-----------------------------------------------------------------------------
(* What every operation of the Manager leaves alone *)

(* Policy v stays in the map, with its parent and the credential it earned.*)
PolicyKept(v) ==
    /\ Exists(v)'
    /\ policies'[v].parent = policies[v].parent
    /\ Earned(v) => Earned(v)'

(* No operation forgets a policy, a policy's past or what it has earned.   *)
LEMMA ManagerKeeps ==
    ASSUME IInv, [Next]_vars
    PROVE  /\ everActive \subseteq everActive'
           /\ \A v \in Versions : Exists(v) => PolicyKept(v)
<1> USE DEF IInv
<1>1. ASSUME NEW x \in Suites, Start(x)
      PROVE  /\ everActive \subseteq everActive'
             /\ \A v \in Versions : Exists(v) => PolicyKept(v)
  <2>1. CASE activeVersion = NoVersion
    BY <1>1, <2>1 DEF Start, Structure, Exists
  <2>2. CASE activeVersion # NoVersion
    <3>1. \A v \in Versions : policies'[v] = [policies[v] EXCEPT !.params = Normalize(@)]
      BY <1>1, <2>2 DEF Start
    <3>2. ASSUME NEW v \in Versions
          PROVE  /\ policies'[v].status = policies[v].status
                 /\ policies'[v].parent = policies[v].parent
                 /\ policies'[v].report = policies[v].report
                 /\ policies'[v].against = policies[v].against
      BY <3>1 DEF TypeOK, Policy
    <3>3. everActive' = everActive
      BY <1>1, <2>2 DEF Start
    <3> QED
      BY <3>2, <3>3 DEF PolicyKept, Exists, Earned
  <2> QED
    BY <2>1, <2>2
<1>2. ASSUME NEW v \in Versions, NEW r \in Report, MarkEvaluated(v, r)
      PROVE  \A w \in Versions : Exists(w) => PolicyKept(w)
  <2>1. \A w \in Versions : w # v => policies'[w] = policies[w]
    BY <1>2 DEF MarkEvaluated, TypeOK
  <2>2. policies'[v] = [policies[v] EXCEPT !.status = "evaluated", !.report = r,
                            !.against = r.baseline, !.evalSuite = r.suite]
    BY <1>2 DEF MarkEvaluated, TypeOK
  <2>3. /\ policies'[v].status = "evaluated" /\ policies'[v].report = r
        /\ policies'[v].against = r.baseline /\ policies'[v].parent = policies[v].parent
    BY <2>2 DEF TypeOK, Policy
  <2>4. PolicyKept(v)
    BY <1>2, <2>3 DEF MarkEvaluated, Markable, PolicyKept, Exists, Earned
  <2> QED
    BY <2>1, <2>4 DEF PolicyKept, Exists, Earned
<1>3. ASSUME NEW v \in Versions, NEW cats, NEW fb, NEW opt, GenerateCandidate(v, cats, fb, opt)
      PROVE  \A w \in Versions : Exists(w) => PolicyKept(w)
  <2>1. \A w \in Versions : Exists(w) => policies'[w] = policies[w]
    BY <1>3 DEF GenerateCandidate, TypeOK, Exists
  <2> QED
    BY <2>1 DEF PolicyKept, Exists, Earned
<1>4. ASSUME \A w \in Versions :
               /\ policies'[w].status = policies[w].status
                  \/ policies'[w].status \in {"canary", "active", "retired", "rolled_back"}
               /\ policies'[w].parent = policies[w].parent
               /\ policies'[w].report = policies[w].report
               /\ policies'[w].against = policies[w].against
      PROVE  \A w \in Versions : Exists(w) => PolicyKept(w)
  BY <1>4 DEF PolicyKept, Exists, Earned
<1>5. ASSUME NEW v \in Versions, NEW percent, StartCanary(v, percent)
      PROVE  \A w \in Versions : Exists(w) => PolicyKept(w)
  <2>1. policies' = [policies EXCEPT ![v].status = "canary"]
    BY <1>5 DEF StartCanary
  <2> QED
    BY <1>4, <2>1 DEF TypeOK, Policy
<1>6. ASSUME NEW v \in Versions, Promote(v)
      PROVE  \A w \in Versions : Exists(w) => PolicyKept(w)
  <2>1. policies' = [policies EXCEPT ![activeVersion].status = "retired", ![v].status = "active"]
    BY <1>6 DEF Promote
  <2> QED
    BY <1>4, <2>1 DEF TypeOK, Policy
<1>7. CASE Rollback
  <2>1. policies' = [policies EXCEPT ![activeVersion].status = "rolled_back",
                                     ![previousVersion].status = "active"]
    BY <1>7 DEF Rollback
  <2>2. \A w \in Versions : Exists(w) => PolicyKept(w)
    BY <1>4, <2>1 DEF TypeOK, Policy
  <2> QED
    BY <1>7, <2>2 DEF Rollback
<1>8. CASE Stop \/ UNCHANGED vars
  <2>1. UNCHANGED <<policies, everActive>>
    BY <1>8 DEF Stop, vars, state
  <2> QED
    BY <2>1 DEF PolicyKept, Exists, Earned
<1> QED
  BY <1>1, <1>2, <1>3, <1>5, <1>6, <1>7, <1>8
     DEF Next, PossibleReports, GenerateCandidate, MarkEvaluated, StartCanary, Promote

(* Only MarkEvaluated attaches a report: every other operation leaves a    *)
(* policy with a report some policy had, or none (a candidate is born with *)
(* the credential of the policy it was copied from).                       *)
LEMMA ReportsCopied ==
    ASSUME IInv,
           \/ \E x \in Suites : Start(x)
           \/ \E v \in Versions, cats \in Attributions, fb \in FeedbackCounts,
                 opt \in Prompts \cup {NoPrompt} : GenerateCandidate(v, cats, fb, opt)
           \/ \E v \in Versions, percent \in Percents : StartCanary(v, percent)
           \/ \E v \in Versions : Promote(v)
           \/ Rollback
    PROVE  \A v \in Versions : \E w \in Versions :
               policies'[v].report \in {NoReport, policies[w].report}
<1> USE DEF IInv
<1>1. ASSUME NEW x \in Suites, Start(x), NEW v \in Versions
      PROVE  policies'[v].report \in {NoReport, policies[v].report}
  BY <1>1 DEF Start, TypeOK, Policy, Unreleased
<1>2. ASSUME NEW u \in Versions, NEW cats, NEW fb, NEW opt, GenerateCandidate(u, cats, fb, opt),
             NEW v \in Versions
      PROVE  \E w \in Versions : policies'[v].report = policies[w].report
  <2>1. CASE v # u
    BY <1>2, <2>1 DEF GenerateCandidate, TypeOK
  <2>2. CASE v = u
    <3>1. activeVersion \in Versions
      BY <1>2 DEF GenerateCandidate, TypeOK, Structure
    <3> DEFINE p == Mutate(Normalize(policies[activeVersion].params), cats, fb, opt)
    <3>2. policies'[u] = [policies[activeVersion] EXCEPT !.status = "candidate",
                              !.parent = activeVersion, !.params = p]
      BY <1>2 DEF GenerateCandidate, TypeOK
    <3> HIDE DEF p
    <3>3. policies'[u].report = policies[activeVersion].report
      BY <3>1, <3>2 DEF TypeOK, Policy
    <3> QED
      BY <2>2, <3>1, <3>3
  <2> QED
    BY <2>1, <2>2
<1>3. ASSUME NEW u \in Versions, NEW percent, StartCanary(u, percent), NEW v \in Versions
      PROVE  policies'[v].report = policies[v].report
  BY <1>3 DEF StartCanary, TypeOK, Policy
<1>4. ASSUME NEW u \in Versions, Promote(u), NEW v \in Versions
      PROVE  policies'[v].report = policies[v].report
  BY <1>4 DEF Promote, TypeOK, Policy
<1>5. ASSUME Rollback, NEW v \in Versions
      PROVE  policies'[v].report = policies[v].report
  BY <1>5 DEF Rollback, TypeOK, Policy
<1> QED
  BY <1>1, <1>2, <1>3, <1>4, <1>5

-----------------------------------------------------------------------------
(* The service drives the Manager as PolicyRelease allows *)

(* What a request hands to the Manager is what PolicyRelease offers it: an *)
(* attribution, a report of this process against a policy that has been    *)
(* active, a percentage a caller asked for.                                *)
LEMMA ReleaseStep ==
    ASSUME ServiceInv, [EvolutionNext]_allVars
    PROVE  [Next]_vars
<1> USE DEF ServiceInv
<1>1. ASSUME NEW s \in Sessions, SessionStep(s) PROVE [Next]_vars
  <2>1. CASE \E op \in {"harness", "generate", "evolve"}, target \in Versions \cup {NoVersion},
                percent \in Percents : Begin(s, op, target, percent)
    BY <2>1 DEF Begin
  <2>2. CASE \E cats \in Attributions : EvaluateBaseline(s, cats)
    BY <2>2 DEF EvaluateBaseline
  <2>3. ASSUME NEW v \in Versions, NEW fb \in FeedbackCounts,
               NEW opt \in Prompts \cup {NoPrompt}, Generate(s, v, fb, opt)
        PROVE  [Next]_vars
    <3>1. session[s].cats \in Attributions
      BY <2>3 DEF Generate, At, SoundLocals
    <3> QED
      BY <2>3, <3>1 DEF Generate, Next
  <2>4. CASE \E passed \in BOOLEAN : Evaluate(s, passed)
    BY <2>4 DEF Evaluate
  <2>5. CASE Mark(s)
    <3>1. CASE MarkEvaluated(session[s].target, session[s].report)
      <4>1. /\ session[s].pc = "mark"
            /\ Markable(session[s].target, session[s].report)
        BY <2>5, <3>1 DEF Mark, At, MarkEvaluated
      <4>2. session[s].report = [policy |-> session[s].target, baseline |-> session[s].base,
                                 suite |-> suite, passed |-> TRUE]
        BY <4>1 DEF SoundLocals
      <4>3. /\ session[s].target \in Versions /\ Exists(session[s].target)
            /\ session[s].base \in everActive /\ everActive \subseteq Versions
            /\ suite \in Suites
        BY <4>1 DEF SoundLocals, Markable, Exists, IInv, TypeOK, Running
      <4>4. session[s].report \in PossibleReports
        BY <4>2, <4>3 DEF PossibleReports, Report
      <4> QED
        BY <3>1, <4>3, <4>4 DEF Next
    <3> QED
      BY <2>5, <3>1 DEF Mark
  <2>6. CASE AssignCanary(s)
    <3>1. CASE StartCanary(session[s].target, session[s].percent)
      <4>1. session[s].target \in Versions /\ session[s].percent \in Percents
        BY <2>6 DEF AssignCanary, At, SoundLocals, Generated, Exists
      <4> QED
        BY <3>1, <4>1 DEF Next
    <3> QED
      BY <2>6, <3>1 DEF AssignCanary
  <2>7. CASE Record(s) \/ Fail(s)
    BY <2>7 DEF Record, Fail
  <2> QED
    BY <1>1, <2>1, <2>2, <2>3, <2>4, <2>5, <2>6, <2>7 DEF SessionStep
<1>2. CASE Administer \/ StartProcess \/ Crash
  BY <1>2 DEF Administer, StartProcess, Crash, Next
<1>3. CASE UNCHANGED allVars
  BY <1>3 DEF allVars
<1> QED
  BY <1>1, <1>2, <1>3 DEF EvolutionNext

-----------------------------------------------------------------------------
(* Preservation: what holds of the requests that do not move *)

(* No step takes back what the locals of a request rely on.                *)
Kept ==
    /\ everActive \subseteq everActive'
    /\ reports \subseteq reports'
    /\ \A v \in Versions : Exists(v) => PolicyKept(v) /\ attributedTo'[v] = attributedTo[v]

(* A request that does not move keeps its facts whatever the others do, as *)
(* long as the process lives.                                              *)
LEMMA LocalsKept ==
    ASSUME NEW s \in Sessions, SoundLocals(s), Kept,
           session'[s] = session[s], suite' = suite
    PROVE  SoundLocals(s)'
<1>l. PICK l : l = session[s]
  OBVIOUS
<1>m. session'[s] = l
  BY <1>l
<1>1. l.pc \notin {"new", "done"} =>
         Running' /\ l.base \in everActive' /\ l.percent \in Percents
  BY <1>l DEF SoundLocals, Kept, Running
<1>2. ASSUME NEW v, Exists(v)
      PROVE  /\ Exists(v)' /\ attributedTo'[v] = attributedTo[v]
             /\ \A base : Released(v, base) => Released(v, base)'
  BY <1>2 DEF Kept, PolicyKept, Released, Exists
<1>3. \A v : BaselineSaved(v) => BaselineSaved(v)'
  BY DEF BaselineSaved, Kept
<1>4. (l.pc = "baseline" /\ l.op = "harness") => Exists(l.target)'
  BY <1>l, <1>2 DEF SoundLocals
<1>5. /\ l.pc = "generate" => l.op # "harness" /\ l.cats \in Attributions
      /\ l.pc \in {"generate"} \cup Generated => BaselineSaved(l.base)'
  BY <1>l, <1>3 DEF SoundLocals
<1>6. l.pc \in Generated =>
         /\ l.op # "generate" /\ Exists(l.target)'
         /\ l.op = "evolve" => attributedTo'[l.target] = l.base
  BY <1>l, <1>2 DEF SoundLocals
<1>7. l.pc = "mark" =>
         /\ l.report = [policy |-> l.target, baseline |-> l.base,
                        suite |-> suite', passed |-> TRUE]
         /\ l.report \in reports'
  BY <1>l DEF SoundLocals, Kept
<1>8. l.pc \in {"canary", "record"} /\ l.status # "blocked" => Released(l.target, l.base)'
  BY <1>l, <1>2 DEF SoundLocals, Generated
<1>9. /\ l.pc \in {"baseline", "generate", "evaluate", "mark"} => l.status = "blocked"
      /\ l.pc \in {"canary", "record"} => l.op = "evolve"
      /\ l.pc = "canary" => l.status = "evaluated"
  BY <1>l DEF SoundLocals
<1> QED
  BY <1>1, <1>4, <1>5, <1>6, <1>7, <1>8, <1>9, <1>m DEF SoundLocals

(* A recorded run stays true: its candidate stays in the map with its      *)
(* parent, attribution and credential.                                     *)
LEMMA RunsKept ==
    ASSUME ServiceInv, Kept, runs' = runs
    PROVE  RecordedExist' /\ RecordedRunsConsistent'
<1>1. ASSUME NEW run \in runs
      PROVE  /\ Exists(run.candidate)'
             /\ attributedTo'[run.candidate] = run.baseline
             /\ run.status # "blocked" => /\ policies'[run.candidate].parent = run.baseline
                                          /\ Earned(run.candidate)'
  <2>1. Exists(run.candidate) /\ run.candidate \in Versions
    BY DEF ServiceInv, RecordedExist, Exists
  <2> QED
    BY <2>1 DEF ServiceInv, RecordedRunsConsistent, Kept, PolicyKept
<1> QED
  BY <1>1 DEF RecordedExist, RecordedRunsConsistent

(* A credential that was audited stays audited.                            *)
LEMMA CredentialsKept ==
    ASSUME ServiceInv, Kept,
           \A v \in Versions : \E w \in Versions :
               policies'[v].report \in {NoReport, policies[w].report}
    PROVE  CredentialsOnDisk'
<1> SUFFICES ASSUME NEW v \in Versions, policies'[v].report # NoReport
             PROVE  /\ policies'[v].report \in reports'
                    /\ \E r \in reports' : /\ r.baseline = NoVersion
                                           /\ r.policy = policies'[v].report.baseline
  BY DEF CredentialsOnDisk
<1>1. PICK w \in Versions : policies'[v].report = policies[w].report
  OBVIOUS
<1>2. /\ policies[w].report \in reports
      /\ \E r \in reports : r.baseline = NoVersion /\ r.policy = policies[w].report.baseline
  BY <1>1 DEF ServiceInv, CredentialsOnDisk
<1> QED
  BY <1>1, <1>2 DEF Kept

-----------------------------------------------------------------------------
(* Preservation: the steps *)

(* A step that withdraws no report and no attribution keeps what others    *)
(* rely on, and the invariant of the Manager.                              *)
LEMMA KeptByStep ==
    ASSUME ServiceInv, [EvolutionNext]_allVars, reports \subseteq reports',
           \A v \in Versions : Exists(v) => attributedTo'[v] = attributedTo[v]
    PROVE  Kept /\ IInv'
<1>1. IInv /\ [Next]_vars
  BY ReleaseStep DEF ServiceInv
<1> QED
  BY <1>1, ManagerKeeps, NextIInv DEF Kept

(* One request moves: its new locals have to be sound, the others' are.    *)
LEMMA OneMoves ==
    ASSUME ServiceInv, NEW s \in Sessions, NEW l \in Session, Continue(s, l),
           suite' = suite, Kept, IInv', SoundLocals(s)',
           reports' \subseteq Report \cup BaselineReport, runs' \subseteq EvolutionRun,
           attributedTo' \in [Versions -> Versions \cup {NoVersion}],
           CredentialsOnDisk', RecordedExist', RecordedRunsConsistent'
    PROVE  ServiceInv'
<1>1. session \in [Sessions -> Session] /\ session' = [session EXCEPT ![s] = l]
  BY DEF ServiceInv, EvolutionTypeOK, Continue
<1>2. EvolutionTypeOK'
  BY <1>1 DEF EvolutionTypeOK, IInv
<1>3. ASSUME NEW t \in Sessions PROVE SoundLocals(t)'
  <2>1. CASE t = s
    BY <2>1
  <2>2. CASE t # s
    BY <1>1, <2>2, LocalsKept DEF ServiceInv
  <2> QED
    BY <2>1, <2>2
<1> QED
  BY <1>2, <1>3 DEF ServiceInv

(* The same for a step that leaves the Manager, attributions and runs      *)
(* alone.                                                                  *)
LEMMA LocalStep ==
    ASSUME ServiceInv, [EvolutionNext]_allVars, NEW s \in Sessions, NEW l \in Session,
           Continue(s, l), UNCHANGED <<vars, runs, attributedTo>>,
           reports \subseteq reports', reports' \subseteq Report \cup BaselineReport,
           SoundLocals(s)'
    PROVE  ServiceInv'
<1>1. UNCHANGED <<suite, policies>>
  BY DEF vars, state
<1>2. Kept /\ IInv'
  BY KeptByStep
<1>3. CredentialsOnDisk' /\ RecordedExist' /\ RecordedRunsConsistent'
  BY <1>1, <1>2, RunsKept, CredentialsKept
<1>4. runs' \subseteq EvolutionRun /\ attributedTo' \in [Versions -> Versions \cup {NoVersion}]
  BY DEF ServiceInv, EvolutionTypeOK
<1> QED
  BY <1>1, <1>2, <1>3, <1>4, OneMoves

(* A request that has returned claims nothing.                             *)
LEMMA DoneSound ==
    ASSUME NEW s \in Sessions
    PROVE  /\ Done \in Session
           /\ ServiceInv /\ Return(s) => SoundLocals(s)'
<1>1. /\ Done \in Session
      /\ Done.pc = "done"
  BY DEF Done, NewSession, Session
<1>2. ASSUME ServiceInv, Return(s) PROVE SoundLocals(s)'
  <2>1. session'[s] = Done
    BY <1>2 DEF Return, Continue, ServiceInv, EvolutionTypeOK
  <2> QED
    BY <1>1, <2>1 DEF SoundLocals, Generated
<1> QED
  BY <1>1, <1>2

(* A request starts from the policy that is active, so one that has been.  *)
LEMMA BeginKeeps ==
    ASSUME ServiceInv, NEW s \in Sessions, NEW op \in {"harness", "generate", "evolve"},
           NEW target \in Versions \cup {NoVersion}, NEW percent \in Percents,
           Begin(s, op, target, percent)
    PROVE  ServiceInv'
<1>1. PICK l : l = [NewSession EXCEPT !.pc = "baseline", !.op = op, !.base = activeVersion,
                                      !.target = target, !.percent = percent]
  OBVIOUS
<1>2. Running /\ Continue(s, l) /\ UNCHANGED <<vars, reports, runs, attributedTo>>
  BY <1>1 DEF Begin, At
<1>2a. /\ l.pc = "baseline" /\ l.op = op /\ l.base = activeVersion /\ l.target = target
       /\ l.percent = percent /\ l.status = "blocked"
  BY <1>1 DEF NewSession
<1>3. activeVersion \in everActive /\ activeVersion \in Versions
  BY <1>2 DEF ServiceInv, IInv, Structure, TypeOK
<1>4. /\ op = "harness" => Exists(target)
      /\ percent \in 0..50
  <2>1. CASE op = "harness"
    BY <2>1 DEF Begin
  <2>2. CASE op = "generate"
    BY <2>2 DEF Begin
  <2>3. CASE op = "evolve"
    BY <2>3 DEF Begin
  <2> QED
    BY <2>1, <2>2, <2>3
<1>5. l \in Session
  BY <1>1, <1>3, <1>4 DEF Session, NewSession
<1>6. session'[s] = l
  BY <1>2 DEF Continue, ServiceInv, EvolutionTypeOK
<1>7. UNCHANGED <<suite, policies, everActive>>
  BY <1>2 DEF vars, state
<1>8. SoundLocals(s)'
  BY <1>2, <1>2a, <1>3, <1>4, <1>6, <1>7 DEF SoundLocals, Generated, Running, Exists
<1>9. [EvolutionNext]_allVars
  BY DEF EvolutionNext, SessionStep
<1>10. reports \subseteq reports' /\ reports' \subseteq Report \cup BaselineReport
  BY <1>2 DEF ServiceInv, EvolutionTypeOK
<1> QED
  BY <1>2, <1>5, <1>8, <1>9, <1>10, LocalStep

(* The baseline report is saved before anything is derived from it.        *)
LEMMA EvaluateBaselineKeeps ==
    ASSUME ServiceInv, NEW s \in Sessions, NEW cats \in Attributions, EvaluateBaseline(s, cats)
    PROVE  ServiceInv'
<1>1. PICK l : l = session[s]
  OBVIOUS
<1>2. PICK r : r = [policy |-> l.base, baseline |-> NoVersion, suite |-> suite,
                    passed |-> cats = {}]
  OBVIOUS
<1>3. /\ Running /\ l.pc = "baseline"
      /\ reports' = reports \cup {r}
      /\ UNCHANGED <<vars, runs, attributedTo>>
  BY <1>1, <1>2 DEF EvaluateBaseline, At
<1>4. /\ l \in Session
      /\ l.base \in Versions /\ l.base \in everActive /\ l.percent \in Percents
      /\ l.op = "harness" => Exists(l.target)
      /\ l.status = "blocked"
      /\ suite \in Suites
  BY <1>1, <1>3 DEF ServiceInv, EvolutionTypeOK, SoundLocals, IInv, TypeOK, Running
<1>5. r \in BaselineReport /\ r.baseline = NoVersion /\ r.policy = l.base
  BY <1>2, <1>4 DEF BaselineReport
<1>6. UNCHANGED <<suite, policies, everActive>>
  BY <1>3 DEF vars, state
<1>7. reports \subseteq reports' /\ reports' \subseteq Report \cup BaselineReport
  BY <1>3, <1>5 DEF ServiceInv, EvolutionTypeOK
<1>8. [EvolutionNext]_allVars
  BY DEF EvolutionNext, SessionStep
<1>9. CASE Return(s)
  BY <1>3, <1>7, <1>8, <1>9, DoneSound, LocalStep DEF Return
<1>10. ASSUME NEW k \in Session, Continue(s, k),
              \/ l.op = "harness" /\ k = [l EXCEPT !.pc = "evaluate"]
              \/ l.op # "harness" /\ k = [l EXCEPT !.pc = "generate", !.cats = cats]
       PROVE  ServiceInv'
  <2>1. session'[s] = k
    BY <1>10 DEF Continue, ServiceInv, EvolutionTypeOK
  <2>2. /\ k.pc \in {"evaluate", "generate"}
        /\ k.pc = "evaluate" => k.op = "harness"
        /\ k.pc = "generate" => k.op # "harness" /\ k.cats \in Attributions
        /\ k.base = l.base /\ k.percent = l.percent /\ k.status = l.status
        /\ k.op = l.op /\ k.target = l.target
    BY <1>4, <1>10 DEF Session
  <2>3. \E x \in reports' : x.baseline = NoVersion /\ x.policy = l.base
    BY <1>3, <1>5
  <2>4. SoundLocals(s)'
    BY <1>3, <1>4, <1>6, <2>1, <2>2, <2>3
       DEF SoundLocals, Generated, Running, Exists, BaselineSaved
  <2> QED
    BY <1>3, <1>7, <1>8, <1>10, <2>4, LocalStep
<1>11. cats \in SUBSET Categories
  BY InputAssumption
<1>12. /\ [l EXCEPT !.pc = "evaluate"] \in Session
       /\ [l EXCEPT !.pc = "generate", !.cats = cats] \in Session
  BY <1>4, <1>11 DEF Session
<1> QED
  BY <1>1, <1>9, <1>10, <1>12 DEF EvaluateBaseline

(* A fresh candidate is attributed to the policy the request evaluated,    *)
(* and no recorded run or other request can be speaking of it.             *)
LEMMA GenerateKeeps ==
    ASSUME ServiceInv, NEW s \in Sessions, NEW v \in Versions, NEW fb \in FeedbackCounts,
           NEW opt \in Prompts \cup {NoPrompt}, Generate(s, v, fb, opt)
    PROVE  ServiceInv'
<1>1. PICK l : l = session[s]
  OBVIOUS
<1>2. /\ Running /\ l.pc = "generate" /\ l \in Session
      /\ GenerateCandidate(v, l.cats, fb, opt)
      /\ attributedTo' = [attributedTo EXCEPT ![v] = l.base]
      /\ reports' = reports /\ runs' = runs
  BY <1>1 DEF Generate, At, ServiceInv, EvolutionTypeOK
<1>3. /\ l.base \in everActive /\ l.base \in Versions /\ l.percent \in Percents
      /\ l.op # "harness" /\ l.cats \in Attributions
      /\ BaselineSaved(l.base) /\ l.status = "blocked"
  BY <1>1, <1>2 DEF ServiceInv, SoundLocals, IInv, TypeOK
<1>4. /\ ~Exists(v) /\ suite' = suite
      /\ policies'[v].status = "candidate"
  <2>1. policies \in [Versions -> Policy] /\ activeVersion \in Versions
    BY <1>2 DEF ServiceInv, IInv, TypeOK, Structure
  <2> DEFINE p == Mutate(Normalize(policies[activeVersion].params), l.cats, fb, opt)
  <2>2. /\ policies[v].status = "absent" /\ suite' = suite
        /\ policies'[v] = [policies[activeVersion] EXCEPT !.status = "candidate",
                              !.parent = activeVersion, !.params = p]
    BY <1>2, <2>1 DEF GenerateCandidate
  <2> HIDE DEF p
  <2> QED
    BY <2>1, <2>2 DEF Exists, Policy
<1>5. \A w \in Versions : Exists(w) => attributedTo'[w] = attributedTo[w]
  BY <1>2, <1>4 DEF ServiceInv, EvolutionTypeOK
<1>6. attributedTo'[v] = l.base
  BY <1>2 DEF ServiceInv, EvolutionTypeOK
<1>7. [EvolutionNext]_allVars
  BY DEF EvolutionNext, SessionStep
<1>8. Kept /\ IInv'
  BY <1>2, <1>5, <1>7, KeptByStep
<1>9. RecordedExist' /\ RecordedRunsConsistent'
  BY <1>2, <1>8, RunsKept
<1>10. CredentialsOnDisk'
  <2>1. \A u \in Versions : \E w \in Versions :
            policies'[u].report \in {NoReport, policies[w].report}
    BY <1>2, <1>3, ReportsCopied DEF ServiceInv
  <2> QED
    BY <1>8, <2>1, CredentialsKept
<1>11. /\ attributedTo' \in [Versions -> Versions \cup {NoVersion}]
       /\ reports' \subseteq Report \cup BaselineReport /\ runs' \subseteq EvolutionRun
  BY <1>2, <1>3 DEF ServiceInv, EvolutionTypeOK
<1>12. CASE Return(s)
  BY <1>4, <1>8, <1>9, <1>10, <1>11, <1>12, DoneSound, OneMoves DEF Return
<1>13. CASE l.op # "generate" /\ Continue(s, [l EXCEPT !.pc = "evaluate", !.target = v])
  <2>1. PICK k : k = [l EXCEPT !.pc = "evaluate", !.target = v]
    OBVIOUS
  <2>2. /\ k.pc = "evaluate" /\ k.target = v /\ k.op = l.op /\ k.base = l.base
        /\ k.percent = l.percent /\ k.status = l.status /\ k \in Session
    BY <1>2, <2>1 DEF Session
  <2>3. session'[s] = k
    BY <1>13, <2>1 DEF Continue, ServiceInv, EvolutionTypeOK
  <2>4. \E r \in reports' : r.baseline = NoVersion /\ r.policy = l.base
    BY <1>2, <1>3 DEF BaselineSaved
  <2>5. SoundLocals(s)'
    BY <1>2, <1>3, <1>4, <1>6, <1>8, <1>13, <2>2, <2>3, <2>4
       DEF SoundLocals, Generated, Running, Exists, BaselineSaved, Kept
  <2> QED
    BY <1>4, <1>8, <1>9, <1>10, <1>11, <1>13, <2>1, <2>2, <2>5, OneMoves
<1> QED
  BY <1>1, <1>12, <1>13 DEF Generate

(* The candidate's report is saved before the request can use it.          *)
LEMMA EvaluateKeeps ==
    ASSUME ServiceInv, NEW s \in Sessions, NEW passed \in BOOLEAN, Evaluate(s, passed)
    PROVE  ServiceInv'
<1>1. PICK l : l = session[s]
  OBVIOUS
<1>2. PICK r : r = [policy |-> l.target, baseline |-> l.base, suite |-> suite, passed |-> passed]
  OBVIOUS
<1>3. /\ Running /\ l.pc = "evaluate" /\ l \in Session
      /\ reports' = reports \cup {r}
      /\ UNCHANGED <<vars, runs, attributedTo>>
  BY <1>1, <1>2 DEF Evaluate, At, ServiceInv, EvolutionTypeOK
<1>4. /\ l.base \in everActive /\ l.base \in Versions /\ l.percent \in Percents
      /\ l.op # "generate" /\ Exists(l.target) /\ BaselineSaved(l.base)
      /\ l.op = "evolve" => attributedTo[l.target] = l.base
      /\ l.status = "blocked" /\ suite \in Suites
  BY <1>1, <1>3 DEF ServiceInv, SoundLocals, Generated, IInv, TypeOK, Running
<1>5. r \in Report
  BY <1>2, <1>4 DEF Report, Exists
<1>6. UNCHANGED <<suite, policies, everActive>>
  BY <1>3 DEF vars, state
<1>7. reports \subseteq reports' /\ reports' \subseteq Report \cup BaselineReport
  BY <1>3, <1>5 DEF ServiceInv, EvolutionTypeOK
<1>8. [EvolutionNext]_allVars
  BY DEF EvolutionNext, SessionStep
<1>9. CASE Return(s)
  BY <1>3, <1>7, <1>8, <1>9, DoneSound, LocalStep DEF Return
<1>10. ASSUME NEW pc \in {"mark", "record"}, Continue(s, [l EXCEPT !.pc = pc, !.report = r]),
              pc = "mark" => passed = TRUE, pc = "record" => l.op = "evolve"
       PROVE  ServiceInv'
  <2>1. PICK k : k = [l EXCEPT !.pc = pc, !.report = r]
    OBVIOUS
  <2>2. /\ k.pc = pc /\ k.report = r /\ k.target = l.target /\ k.op = l.op /\ k.base = l.base
        /\ k.percent = l.percent /\ k.status = l.status /\ k \in Session
    BY <1>3, <1>5, <2>1 DEF Session
  <2>3. session'[s] = k
    BY <1>10, <2>1 DEF Continue, ServiceInv, EvolutionTypeOK
  <2>4. \E x \in reports' : x.baseline = NoVersion /\ x.policy = l.base
    BY <1>3, <1>4 DEF BaselineSaved
  <2>5. pc = "mark" => r = [policy |-> l.target, baseline |-> l.base,
                            suite |-> suite, passed |-> TRUE]
    BY <1>2, <1>10
  <2>6. SoundLocals(s)'
    BY <1>3, <1>4, <1>6, <1>10, <2>2, <2>3, <2>4, <2>5
       DEF SoundLocals, Generated, Running, Exists, BaselineSaved
  <2> QED
    BY <1>3, <1>7, <1>8, <1>10, <2>1, <2>2, <2>6, LocalStep
<1> QED
  BY <1>1, <1>2, <1>9, <1>10 DEF Evaluate

(* MarkEvaluated either refuses, or gives the candidate a credential whose *)
(* two reports are on disk and whose baseline is the candidate's parent.   *)
LEMMA MarkKeeps ==
    ASSUME ServiceInv, NEW s \in Sessions, Mark(s)
    PROVE  ServiceInv'
<1>1. PICK l : l = session[s]
  OBVIOUS
<1>2. /\ Running /\ l.pc = "mark" /\ l \in Session
      /\ reports' = reports /\ runs' = runs /\ attributedTo' = attributedTo
  BY <1>1 DEF Mark, At, ServiceInv, EvolutionTypeOK
<1>3. /\ l.base \in everActive /\ l.base \in Versions /\ l.percent \in Percents
      /\ l.op # "generate" /\ Exists(l.target) /\ l.target \in Versions
      /\ l.op = "evolve" => attributedTo[l.target] = l.base
      /\ l.report \in reports
      /\ l.report = [policy |-> l.target, baseline |-> l.base,
                     suite |-> suite, passed |-> TRUE]
      /\ \E r \in reports : r.baseline = NoVersion /\ r.policy = l.base
      /\ suite \in Suites
  BY <1>1, <1>2 DEF ServiceInv, SoundLocals, Generated, IInv, TypeOK, Running, Exists, BaselineSaved
<1>4. /\ l.report.policy = l.target /\ l.report.baseline = l.base /\ l.report.passed
      /\ l.report \in Report
  BY <1>3 DEF Report
<1>5. [EvolutionNext]_allVars
  BY DEF EvolutionNext, SessionStep
<1>6. Kept /\ IInv'
  BY <1>2, <1>5, KeptByStep
<1>7. RecordedExist' /\ RecordedRunsConsistent'
  BY <1>2, <1>6, RunsKept
<1>8. /\ attributedTo' \in [Versions -> Versions \cup {NoVersion}]
      /\ reports' \subseteq Report \cup BaselineReport /\ runs' \subseteq EvolutionRun
  BY <1>2 DEF ServiceInv, EvolutionTypeOK
<1>9. CASE UNCHANGED vars /\ Return(s)
  <2>1. reports \subseteq reports'
    BY <1>2
  <2> QED
    BY <1>2, <1>5, <1>8, <1>9, <2>1, DoneSound, LocalStep DEF Return
<1>10. ASSUME MarkEvaluated(l.target, l.report)
       PROVE  suite' = suite /\ CredentialsOnDisk' /\ Released(l.target, l.base)'
  <2>1. /\ policies[l.target].parent = l.base /\ suite' = suite
        /\ policies' = [policies EXCEPT
              ![l.target] = [@ EXCEPT !.status = "evaluated", !.report = l.report,
                               !.against = l.report.baseline, !.evalSuite = l.report.suite]]
    BY <1>4, <1>10 DEF MarkEvaluated, Markable
  <2>2. policies \in [Versions -> Policy]
    BY DEF ServiceInv, IInv, TypeOK
  <2>3. /\ policies'[l.target].parent = l.base
        /\ policies'[l.target].report = l.report
        /\ policies'[l.target].against = l.base
    BY <1>3, <1>4, <2>1, <2>2 DEF Policy
  <2>4. \A v \in Versions : v # l.target => policies'[v] = policies[v]
    BY <2>1, <2>2
  <2>5. Released(l.target, l.base)'
    <3>1. /\ policies'[l.target].report \in Report
          /\ policies'[l.target].report.policy = l.target
          /\ policies'[l.target].report.passed
          /\ policies'[l.target].report.baseline = policies'[l.target].parent
          /\ policies'[l.target].against = policies'[l.target].parent
      BY <1>4, <2>3
    <3> QED
      BY <2>3, <3>1 DEF Released, Earned
  <2>6. CredentialsOnDisk'
    BY <1>2, <1>3, <1>4, <2>3, <2>4 DEF CredentialsOnDisk, ServiceInv
  <2> QED
    BY <2>1, <2>5, <2>6
<1>11. ASSUME MarkEvaluated(l.target, l.report), l.op = "evolve",
              NEW pc \in {"canary", "record"},
              Continue(s, [l EXCEPT !.pc = pc, !.status = "evaluated"])
       PROVE  ServiceInv'
  <2>1. PICK k : k = [l EXCEPT !.pc = pc, !.status = "evaluated"]
    OBVIOUS
  <2>2. /\ k.pc = pc /\ k.target = l.target /\ k.op = l.op /\ k.base = l.base
        /\ k.percent = l.percent /\ k.status = "evaluated" /\ k \in Session
    BY <1>2, <2>1 DEF Session
  <2>3. session'[s] = k
    BY <1>11, <2>1 DEF Continue, ServiceInv, EvolutionTypeOK
  <2>4. /\ Running' /\ l.base \in everActive' /\ Exists(l.target)'
        /\ BaselineSaved(l.base)' /\ Released(l.target, l.base)'
    BY <1>2, <1>3, <1>6, <1>10, <1>11 DEF Running, Kept, PolicyKept, BaselineSaved
  <2>5. SoundLocals(s)'
    BY <1>2, <1>3, <1>11, <2>2, <2>3, <2>4 DEF SoundLocals, Generated
  <2> QED
    BY <1>6, <1>7, <1>8, <1>10, <1>11, <2>1, <2>2, <2>5, OneMoves
<1>12. CASE MarkEvaluated(l.target, l.report) /\ Return(s)
  BY <1>6, <1>7, <1>8, <1>10, <1>12, DoneSound, OneMoves DEF Return
<1> QED
  BY <1>1, <1>9, <1>11, <1>12 DEF Mark

(* Canary traffic changes no credential.                                   *)
LEMMA AssignCanaryKeeps ==
    ASSUME ServiceInv, NEW s \in Sessions, AssignCanary(s)
    PROVE  ServiceInv'
<1>1. PICK l : l = session[s]
  OBVIOUS
<1>2. /\ Running /\ l.pc = "canary" /\ l \in Session
      /\ reports' = reports /\ runs' = runs /\ attributedTo' = attributedTo
  BY <1>1 DEF AssignCanary, At, ServiceInv, EvolutionTypeOK
<1>3. /\ l.base \in everActive /\ l.percent \in Percents
      /\ l.op = "evolve" /\ Exists(l.target) /\ l.target \in Versions
      /\ attributedTo[l.target] = l.base /\ BaselineSaved(l.base)
      /\ Released(l.target, l.base)
  BY <1>1, <1>2 DEF ServiceInv, SoundLocals, Generated, Exists
<1>4. [EvolutionNext]_allVars
  BY DEF EvolutionNext, SessionStep
<1>5. Kept /\ IInv'
  BY <1>2, <1>4, KeptByStep
<1>6. RecordedExist' /\ RecordedRunsConsistent'
  BY <1>2, <1>5, RunsKept
<1>7. /\ attributedTo' \in [Versions -> Versions \cup {NoVersion}]
      /\ reports' \subseteq Report \cup BaselineReport /\ runs' \subseteq EvolutionRun
      /\ reports \subseteq reports'
  BY <1>2 DEF ServiceInv, EvolutionTypeOK
<1>8. CASE UNCHANGED vars /\ Return(s)
  BY <1>2, <1>4, <1>7, <1>8, DoneSound, LocalStep DEF Return
<1>9. CASE /\ StartCanary(l.target, l.percent)
           /\ Continue(s, [l EXCEPT !.pc = "record", !.status = "canary"])
  <2>1. PICK k : k = [l EXCEPT !.pc = "record", !.status = "canary"]
    OBVIOUS
  <2>2. /\ k.pc = "record" /\ k.target = l.target /\ k.op = l.op /\ k.base = l.base
        /\ k.percent = l.percent /\ k \in Session
    BY <1>2, <2>1 DEF Session
  <2>3. session'[s] = k
    BY <1>9, <2>1 DEF Continue, ServiceInv, EvolutionTypeOK
  <2>4. /\ suite' = suite /\ Running'
        /\ l.base \in everActive' /\ Exists(l.target)'
        /\ BaselineSaved(l.base)' /\ Released(l.target, l.base)'
    BY <1>2, <1>3, <1>5, <1>9
       DEF StartCanary, Running, Kept, PolicyKept, BaselineSaved, Released
  <2>5. SoundLocals(s)'
    BY <1>2, <1>3, <2>2, <2>3, <2>4 DEF SoundLocals, Generated
  <2>6. CredentialsOnDisk'
    BY <1>3, <1>5, <1>9, ReportsCopied, CredentialsKept DEF ServiceInv
  <2> QED
    BY <1>5, <1>6, <1>7, <1>9, <2>1, <2>2, <2>4, <2>5, <2>6, OneMoves
<1> QED
  BY <1>1, <1>8, <1>9 DEF AssignCanary

(* What is recorded of a released candidate is what its locals guarantee.  *)
LEMMA RecordKeeps ==
    ASSUME ServiceInv, NEW s \in Sessions, Record(s)
    PROVE  ServiceInv'
<1>1. PICK l : l = session[s]
  OBVIOUS
<1>2. PICK run : run = [candidate |-> l.target, baseline |-> l.base, status |-> l.status]
  OBVIOUS
<1>3. /\ l.pc = "record" /\ l \in Session
      /\ runs' = runs \cup {run} /\ Return(s)
      /\ UNCHANGED <<vars, reports, attributedTo>>
  BY <1>1, <1>2 DEF Record, At, ServiceInv, EvolutionTypeOK
<1>4. /\ l.base \in Versions /\ l.target \in Versions /\ Exists(l.target)
      /\ attributedTo[l.target] = l.base
      /\ l.status # "blocked" => Released(l.target, l.base)
  BY <1>1, <1>3 DEF ServiceInv, SoundLocals, Generated, Exists, IInv, TypeOK
<1>5. /\ run.candidate = l.target /\ run.baseline = l.base /\ run.status = l.status
      /\ run \in EvolutionRun
  BY <1>2, <1>3, <1>4 DEF EvolutionRun, Session
<1>6. UNCHANGED <<suite, policies, everActive>>
  BY <1>3 DEF vars, state
<1>7. [EvolutionNext]_allVars
  BY DEF EvolutionNext, SessionStep
<1>8. Kept /\ IInv'
  BY <1>3, <1>7, KeptByStep
<1>9. RecordedExist'
  BY <1>3, <1>4, <1>5, <1>6 DEF RecordedExist, ServiceInv, Exists
<1>10. RecordedRunsConsistent'
  BY <1>3, <1>4, <1>5, <1>6 DEF RecordedRunsConsistent, ServiceInv, Released, Earned
<1>11. CredentialsOnDisk'
  BY <1>6, <1>8, CredentialsKept
<1>12. /\ attributedTo' \in [Versions -> Versions \cup {NoVersion}]
       /\ reports' \subseteq Report \cup BaselineReport /\ runs' \subseteq EvolutionRun
  BY <1>3, <1>5 DEF ServiceInv, EvolutionTypeOK
<1> QED
  BY <1>3, <1>6, <1>8, <1>9, <1>10, <1>11, <1>12, DoneSound, OneMoves DEF Return

(* An error ends the request and leaves what it had saved.                 *)
LEMMA FailKeeps ==
    ASSUME ServiceInv, NEW s \in Sessions, Fail(s)
    PROVE  ServiceInv'
<1>1. /\ Return(s) /\ UNCHANGED <<vars, runs, attributedTo>> /\ reports' = reports
  BY DEF Fail
<1>2. [EvolutionNext]_allVars
  BY DEF EvolutionNext, SessionStep
<1>3. reports \subseteq reports' /\ reports' \subseteq Report \cup BaselineReport
  BY <1>1 DEF ServiceInv, EvolutionTypeOK
<1> QED
  BY <1>1, <1>2, <1>3, DoneSound, LocalStep DEF Return

(* What an administrator does in between invalidates no request's facts.   *)
LEMMA AdministerKeeps ==
    ASSUME ServiceInv, Administer
    PROVE  ServiceInv'
<1>1. UNCHANGED <<session, reports, runs, attributedTo>> /\ suite' = suite
  BY DEF Administer, evolutionVars, StartCanary, Promote, Rollback
<1>2. Kept /\ IInv'
  BY <1>1, KeptByStep DEF EvolutionNext
<1>3. RecordedExist' /\ RecordedRunsConsistent'
  BY <1>1, <1>2, RunsKept
<1>4. CredentialsOnDisk'
  BY <1>2, ReportsCopied, CredentialsKept DEF Administer, ServiceInv
<1>5. \A s \in Sessions : SoundLocals(s)'
  BY <1>1, <1>2, LocalsKept DEF ServiceInv
<1>6. EvolutionTypeOK'
  BY <1>1, <1>2 DEF EvolutionTypeOK, ServiceInv, IInv
<1> QED
  BY <1>2, <1>3, <1>4, <1>5, <1>6 DEF ServiceInv

(* A process starts with no request running.                               *)
LEMMA StartProcessKeeps ==
    ASSUME ServiceInv, StartProcess
    PROVE  ServiceInv'
<1>1. UNCHANGED <<session, reports, runs, attributedTo>> /\ ~Running
  BY DEF StartProcess, evolutionVars, Start
<1>2. Kept /\ IInv'
  BY <1>1, KeptByStep DEF EvolutionNext
<1>3. RecordedExist' /\ RecordedRunsConsistent'
  BY <1>1, <1>2, RunsKept
<1>4. CredentialsOnDisk'
  BY <1>2, ReportsCopied, CredentialsKept DEF StartProcess, ServiceInv
<1>5. \A s \in Sessions : session[s].pc \in {"new", "done"}
  BY <1>1 DEF ServiceInv, SoundLocals
<1>6. \A s \in Sessions : SoundLocals(s)'
  BY <1>1, <1>5 DEF SoundLocals, Generated
<1>7. EvolutionTypeOK'
  BY <1>1, <1>2 DEF EvolutionTypeOK, ServiceInv, IInv
<1> QED
  BY <1>2, <1>3, <1>4, <1>6, <1>7 DEF ServiceInv

(* A crash forgets the locals of every request and nothing that was saved. *)
LEMMA CrashKeeps ==
    ASSUME ServiceInv, Crash
    PROVE  ServiceInv'
<1>1. /\ UNCHANGED <<policies, reports, runs, attributedTo>>
      /\ session' = [s \in Sessions |-> IF session[s].pc = "new" THEN session[s] ELSE Done]
  BY DEF Crash, Stop, state
<1>2. Kept /\ IInv'
  BY <1>1, KeptByStep DEF EvolutionNext
<1>3. RecordedExist' /\ RecordedRunsConsistent' /\ CredentialsOnDisk'
  BY <1>1, <1>2, RunsKept, CredentialsKept
<1>4. /\ Done \in Session
      /\ Done.pc = "done"
  BY DEF Done, NewSession, Session
<1>5. \A s \in Sessions : session'[s] \in Session /\ session'[s].pc \in {"new", "done"}
  BY <1>1, <1>4 DEF ServiceInv, EvolutionTypeOK
<1>6. \A s \in Sessions : SoundLocals(s)'
  BY <1>5 DEF SoundLocals, Generated
<1>7. EvolutionTypeOK'
  BY <1>1, <1>2, <1>5 DEF EvolutionTypeOK, ServiceInv, IInv
<1> QED
  BY <1>2, <1>3, <1>6, <1>7 DEF ServiceInv

-----------------------------------------------------------------------------
(* The theorems *)

(* No request has read anything before the first start.                    *)
LEMMA EvolutionInitInv == EvolutionInit => ServiceInv
<1> SUFFICES ASSUME EvolutionInit PROVE ServiceInv
  OBVIOUS
<1>1. IInv
  BY InitIInv DEF EvolutionInit
<1>2. NewSession \in Session /\ NewSession.pc = "new"
  BY DEF NewSession, Session
<1>3. EvolutionTypeOK
  BY <1>1, <1>2 DEF EvolutionInit, EvolutionTypeOK, IInv
<1>4. \A s \in Sessions : SoundLocals(s)
  BY <1>2 DEF EvolutionInit, SoundLocals, Generated
<1>5. \A v \in Versions : policies[v].report = NoReport
  BY DEF EvolutionInit, Init, Unreleased
<1>6. CredentialsOnDisk /\ RecordedExist /\ RecordedRunsConsistent
  BY <1>5 DEF EvolutionInit, CredentialsOnDisk, RecordedExist, RecordedRunsConsistent
<1> QED
  BY <1>1, <1>3, <1>4, <1>6 DEF ServiceInv

(* Every step of every interleaving keeps the invariant.                   *)
LEMMA EvolutionNextInv == ServiceInv /\ [EvolutionNext]_allVars => ServiceInv'
<1> SUFFICES ASSUME ServiceInv, [EvolutionNext]_allVars PROVE ServiceInv'
  OBVIOUS
<1>1. ASSUME NEW s \in Sessions, SessionStep(s) PROVE ServiceInv'
  BY <1>1, BeginKeeps, EvaluateBaselineKeeps, GenerateKeeps, EvaluateKeeps, MarkKeeps,
     AssignCanaryKeeps, RecordKeeps, FailKeeps DEF SessionStep
<1>2. CASE UNCHANGED allVars
  <2>1. /\ UNCHANGED <<session, reports, runs, attributedTo, suite, policies>>
    BY <1>2 DEF allVars, evolutionVars, vars, state
  <2>2. Kept /\ IInv'
    BY <2>1, KeptByStep
  <2>3. RecordedExist' /\ RecordedRunsConsistent' /\ CredentialsOnDisk'
    BY <2>1, <2>2, RunsKept, CredentialsKept
  <2>4. \A s \in Sessions : SoundLocals(s)'
    BY <2>1, <2>2, LocalsKept DEF ServiceInv
  <2>5. EvolutionTypeOK'
    BY <2>1, <2>2 DEF EvolutionTypeOK, ServiceInv, IInv
  <2> QED
    BY <2>2, <2>3, <2>4, <2>5 DEF ServiceInv
<1> QED
  BY <1>1, <1>2, AdministerKeeps, StartProcessKeeps, CrashKeeps DEF EvolutionNext

(* The inductive invariant holds of every behaviour of the service: the    *)
(* state an overtaken request acts on, whatever was interleaved with it.   *)
THEOREM EvolutionInvariance == EvolutionSpec => []ServiceInv
BY EvolutionInitInv, EvolutionNextInv, PTL DEF EvolutionSpec

(* The requests, policies, reports and runs of the service are well typed  *)
(* (service.go).                                                           *)
THEOREM EvolutionTypeCorrect == EvolutionSpec => []EvolutionTypeOK
<1>1. ServiceInv => EvolutionTypeOK
  BY DEF ServiceInv
<1> QED
  BY <1>1, EvolutionInvariance, PTL

(* The service implements the Manager's specification (service.go,         *)
(* RunHarness, GenerateCandidate, Evolve): every step is one operation of  *)
(* the Manager with inputs it was specified for, or leaves its state alone.*)
THEOREM ImplementsReleaseHolds == EvolutionSpec => ImplementsRelease
<1>1. EvolutionInit => Init
  BY DEF EvolutionInit
<1>2. ServiceInv /\ [EvolutionNext]_allVars => [Next]_vars
  BY ReleaseStep
<1> QED
  BY <1>1, <1>2, EvolutionInvariance, PTL DEF EvolutionSpec, ImplementsRelease, Spec

(* A credential never refers to a report that is not on disk (service.go,  *)
(* SaveHarnessReport before MarkEvaluated), across crashes and failures.   *)
THEOREM CredentialsOnDiskHolds == EvolutionSpec => []CredentialsOnDisk
<1>1. ServiceInv => CredentialsOnDisk
  BY DEF ServiceInv
<1> QED
  BY <1>1, EvolutionInvariance, PTL

(* A run recorded as released names the policy its candidate descends from *)
(* and was measured against (service.go, Evolve), whatever was promoted or *)
(* rolled back meanwhile.                                                  *)
THEOREM RecordedRunsConsistentHolds == EvolutionSpec => []RecordedRunsConsistent
<1>1. ServiceInv => RecordedRunsConsistent
  BY DEF ServiceInv
<1> QED
  BY <1>1, EvolutionInvariance, PTL

(* Of the running service too: every released version owns a passing       *)
(* report against its parent, and traffic runs only on a canary evaluated  *)
(* against the active policy (service.go over manager.go).                 *)
THEOREM ServiceReleasesSoundly == EvolutionSpec => [](CredentialsEarned /\ CanaryFresh)
BY ImplementsReleaseHolds, CredentialsEarnedHolds, CanaryFreshHolds, PTL DEF ImplementsRelease

=============================================================================
