---------------------------- MODULE PolicyRelease ----------------------------
(***************************************************************************)
(* The release lifecycle of policies: policy.Manager over the persisted    *)
(* domain.PolicyState (internal/policy/manager.go).                        *)
(*                                                                         *)
(* Every mutator of the Manager holds its mutex from the load of           *)
(* policies.json to the atomic rename that replaces it, and readers see    *)
(* one whole file, so within one process each operation is one action.     *)
(* PolicyStore.tla opens that step up.                                     *)
(*                                                                         *)
(* A Harness report is the record of what the Manager reads of it; its ID  *)
(* is the record itself.  A report reaches MarkEvaluated an arbitrary time *)
(* after its baseline was active, so the reports offered to MarkEvaluated  *)
(* may name any version that has ever been active as baseline.             *)
(***************************************************************************)
EXTENDS PolicyMutation

CONSTANTS
    Versions,      \* version identifiers; GenerateCandidate takes a fresh one
    Bootstrap,     \* the version DefaultPolicy writes
    NoVersion,     \* the empty version string
    Suites,        \* versions of the Harness suite file
    NoSuite,       \* no process is running / the credential has no suite
    NoReport,      \* the empty EvaluationReportID
    Attributions,  \* sets of failed layers a baseline report can attribute
    FeedbackCounts,\* totals over the stored feedback
    Percents,      \* canary percentages a caller may ask for
    Stores,        \* store identifiers
    Bucket         \* hash bucket of each store: fnv32a(store) % 100

ASSUME VersionAssumption ==
    /\ Bootstrap \in Versions
    /\ NoVersion \notin Versions
    /\ NoSuite \notin Suites

ASSUME InputAssumption ==
    /\ Attributions \subseteq SUBSET Categories
    /\ FeedbackCounts \subseteq Feedback
    /\ Percents \subseteq Nat
    /\ Bucket \in [Stores -> 0..99]

VARIABLES
    suite,            \* suite loaded by the running process, or NoSuite
    activeVersion, previousVersion, canaryVersion, canaryPercent,
    policies,         \* the map; status "absent" marks a version not in it
    everActive        \* history: the versions that have been active

state == <<activeVersion, previousVersion, canaryVersion, canaryPercent, policies>>
vars == <<suite, state, everActive>>

Report ==
    [policy : Versions, baseline : Versions, suite : Suites, passed : BOOLEAN]

Status ==
    {"absent", "candidate", "evaluated", "canary", "active", "retired", "rolled_back"}

Policy ==
    [status : Status,
     parent : Versions \cup {NoVersion},
     params : Params \cup LegacyParams,
     report : Report \cup {NoReport},          \* evaluation_report_id
     against : Versions \cup {NoVersion},      \* evaluated_against_version
     evalSuite : Suites \cup {NoSuite}]        \* evaluated_suite_version

(* A running manager has completed every policy, and no chain of mutations *)
(* leaves the limits: pool or ROI threshold 0 would mark a legacy file and *)
(* be silently reset to the defaults by the next start.                    *)
TypeOK ==
    /\ suite \in Suites \cup {NoSuite}
    /\ activeVersion \in Versions \cup {NoVersion}
    /\ previousVersion \in Versions \cup {NoVersion}
    /\ canaryVersion \in Versions \cup {NoVersion}
    /\ canaryPercent \in Nat
    /\ policies \in [Versions -> Policy]
    /\ everActive \subseteq Versions
    /\ suite # NoSuite => \A v \in Versions : policies[v].params \in Params

-----------------------------------------------------------------------------
Unreleased(status, params) ==
    [status |-> status, parent |-> NoVersion, params |-> params,
     report |-> NoReport, against |-> NoVersion, evalSuite |-> NoSuite]

Running == suite # NoSuite
Exists(v) == v \in Versions /\ policies[v].status # "absent"

(* The data directory is empty, or holds the active policy of a release    *)
(* that predates the newer fields.                                         *)
Init ==
    /\ suite = NoSuite
    /\ previousVersion = NoVersion
    /\ canaryVersion = NoVersion
    /\ canaryPercent = 0
    /\ \/ /\ activeVersion = NoVersion
          /\ policies = [v \in Versions |-> Unreleased("absent", DefaultParams)]
          /\ everActive = {}
       \/ /\ activeVersion = Bootstrap
          /\ \E p \in LegacyParams :
                policies = [v \in Versions |->
                    IF v = Bootstrap THEN Unreleased("active", p)
                    ELSE Unreleased("absent", DefaultParams)]
          /\ everActive = {Bootstrap}

(* Faults.  Definitions named <Operation>_<Fault> are not part of the      *)
(* specification: each is its operation with one plausible programming     *)
(* error, and shows that a property notices the error.                     *)

(* NewManager: write the bootstrap policy, or complete legacy policies.    *)
Start(s) ==
    /\ ~Running
    /\ suite' = s
    /\ \/ /\ activeVersion = NoVersion
          /\ activeVersion' = Bootstrap
          /\ policies' = [policies EXCEPT ![Bootstrap] = Unreleased("active", DefaultParams)]
          /\ everActive' = {Bootstrap}
       \/ /\ activeVersion # NoVersion
          /\ policies' = [v \in Versions |->
                [policies[v] EXCEPT !.params = Normalize(@)]]
          /\ UNCHANGED <<activeVersion, everActive>>
    /\ UNCHANGED <<previousVersion, canaryVersion, canaryPercent>>

(* The process ends: the state on disk stays, whatever was in memory goes. *)
Stop ==
    /\ Running
    /\ suite' = NoSuite
    /\ UNCHANGED <<state, everActive>>

-----------------------------------------------------------------------------
(* GenerateCandidateWithPrompt.  The candidate is a copy of the active     *)
(* policy, the credential it was released with included.                   *)
GenerateCandidate(v, cats, fb, opt) ==
    /\ Running
    /\ policies[v].status = "absent"
    /\ OptimizedAccepted(cats, opt)
    /\ LET base == policies[activeVersion]
       IN  policies' = [policies EXCEPT ![v] =
              [base EXCEPT !.status = "candidate",
                           !.parent = activeVersion,
                           !.params = Mutate(Normalize(base.params), cats, fb, opt)]]
    /\ UNCHANGED <<suite, activeVersion, previousVersion, canaryVersion,
                   canaryPercent, everActive>>

(* Reports this process can hold: some version was evaluated against the   *)
(* policy that was active when the evaluation began.                       *)
PossibleReports ==
    {r \in Report : Exists(r.policy) /\ r.baseline \in everActive /\ r.suite = suite}

Markable_AnyReport(v, r) ==
    /\ Running
    /\ Exists(v)
    /\ r.passed
    /\ r.baseline = activeVersion
    /\ policies[v].parent = activeVersion

Markable(v, r) ==
    /\ Running
    /\ Exists(v)
    /\ r.passed
    /\ r.policy = v
    /\ r.baseline = activeVersion
    /\ policies[v].parent = activeVersion

MarkEvaluated(v, r) ==
    /\ Markable(v, r)
    /\ policies' = [policies EXCEPT
          ![v] = [@ EXCEPT !.status = "evaluated", !.report = r,
                           !.against = r.baseline, !.evalSuite = r.suite]]
    /\ UNCHANGED <<suite, activeVersion, previousVersion, canaryVersion,
                   canaryPercent, everActive>>

(* EvaluationReportID and EvaluatedAgainstVersion, as canary reads them.   *)
CredentialCurrent(p) == p.report # NoReport /\ p.against = activeVersion

Canariable_StaleCredential(v, percent) ==
    Running /\ percent \in 1..50 /\ policies[v].status \in {"evaluated", "canary"}

Canariable(v, percent) ==
    /\ Running
    /\ percent \in 1..50
    /\ policies[v].status \in {"evaluated", "canary"}
    /\ CredentialCurrent(policies[v])

StartCanary(v, percent) ==
    /\ Canariable(v, percent)
    /\ policies' = [policies EXCEPT ![v].status = "canary"]
    /\ canaryVersion' = v
    /\ canaryPercent' = percent
    /\ UNCHANGED <<suite, activeVersion, previousVersion, everActive>>

Promotable_StatusOnly(v) == Running /\ policies[v].status = "canary"

Promotable(v) ==
    /\ Running
    /\ policies[v].status = "canary"
    /\ CredentialCurrent(policies[v])
    /\ policies[v].parent = activeVersion

Promote_KeepsOldestPrevious(v) ==
    /\ Promotable(v)
    /\ policies' = [policies EXCEPT ![activeVersion].status = "retired",
                                    ![v].status = "active"]
    /\ previousVersion' = IF previousVersion = NoVersion THEN activeVersion
                          ELSE previousVersion
    /\ activeVersion' = v
    /\ canaryVersion' = NoVersion
    /\ canaryPercent' = 0
    /\ everActive' = everActive \cup {v}
    /\ UNCHANGED suite

Promote(v) ==
    /\ Promotable(v)
    /\ policies' = [policies EXCEPT ![activeVersion].status = "retired",
                                    ![v].status = "active"]
    /\ previousVersion' = activeVersion
    /\ activeVersion' = v
    /\ canaryVersion' = NoVersion
    /\ canaryPercent' = 0
    /\ everActive' = everActive \cup {v}
    /\ UNCHANGED suite

Rollback_KeepsStatus ==
    /\ Running
    /\ previousVersion # NoVersion
    /\ policies' = [policies EXCEPT ![previousVersion].status = "active"]
    /\ activeVersion' = previousVersion
    /\ previousVersion' = activeVersion
    /\ canaryVersion' = NoVersion
    /\ canaryPercent' = 0
    /\ UNCHANGED <<suite, everActive>>

Rollback ==
    /\ Running
    /\ previousVersion # NoVersion
    /\ policies' = [policies EXCEPT ![activeVersion].status = "rolled_back",
                                    ![previousVersion].status = "active"]
    /\ activeVersion' = previousVersion
    /\ previousVersion' = activeVersion
    /\ canaryVersion' = NoVersion
    /\ canaryPercent' = 0
    /\ UNCHANGED <<suite, everActive>>

(* Select: a request of a store runs under the canary when its bucket      *)
(* falls below the percentage, under the active policy otherwise.          *)
Select(store) ==
    IF canaryVersion # NoVersion /\ Bucket[store] < canaryPercent
    THEN canaryVersion ELSE activeVersion

Next ==
    \/ \E s \in Suites : Start(s)
    \/ Stop
    \/ \E v \in Versions, cats \in Attributions, fb \in FeedbackCounts,
          opt \in Prompts \cup {NoPrompt} : GenerateCandidate(v, cats, fb, opt)
    \/ \E v \in Versions, r \in PossibleReports : MarkEvaluated(v, r)
    \/ \E v \in Versions, percent \in Percents : StartCanary(v, percent)
    \/ \E v \in Versions : Promote(v)
    \/ Rollback

Spec == Init /\ [][Next]_vars

-----------------------------------------------------------------------------
(* Safety *)

(* The map and the pointers agree: once a state is persisted, exactly one  *)
(* policy has status "active" and it is the one ActiveVersion names.       *)
(* (Promote and Rollback move the status and the pointer separately.)      *)
OneActive ==
    activeVersion # NoVersion =>
        \A v \in Versions : policies[v].status = "active" <=> v = activeVersion

(* A release status is earned by the policy's own passing report against   *)
(* its parent, never inherited: GenerateCandidate copies the credential of *)
(* the active policy into the candidate.                                   *)
Earned(v) ==
    LET p == policies[v]
    IN  /\ p.report \in Report
        /\ p.report.policy = v
        /\ p.report.passed
        /\ p.report.baseline = p.parent
        /\ p.against = p.parent

CredentialsEarned ==
    \A v \in Versions :
        (policies[v].status \in {"evaluated", "canary"} \/ v \in everActive \ {Bootstrap})
            => Earned(v)

(* No traffic on a stale credential: whenever a canary is assigned it was  *)
(* evaluated against the policy that is active now, whatever promotions,   *)
(* rollbacks, re-evaluations and displaced canaries came in between.       *)
CanaryFresh ==
    IF canaryVersion = NoVersion THEN canaryPercent = 0
    ELSE /\ canaryVersion # activeVersion
         /\ policies[canaryVersion].status \in {"evaluated", "canary"}
         /\ policies[canaryVersion].report.baseline = activeVersion
         /\ policies[canaryVersion].parent = activeVersion
         /\ canaryPercent \in 1..50

(* Rollback moves along one edge of the lineage: the version it restores   *)
(* was active before, and is the parent or the child of the active one.    *)
RollbackOneEdge ==
    previousVersion # NoVersion =>
        /\ previousVersion \in everActive
        /\ previousVersion # activeVersion
        /\ \/ policies[activeVersion].parent = previousVersion
           \/ policies[previousVersion].parent = activeVersion

(* "no automated path relaxes it": generation may only tighten the         *)
(* approval threshold of the policy it descends from.                      *)
LineageTightens ==
    \A v \in Versions :
        (policies[v].status # "absent" /\ policies[v].parent # NoVersion) =>
            /\ policies[v].parent \in everActive
            /\ policies[v].params.risk <= policies[policies[v].parent].params.risk

(* A store in the canary arm never runs under a looser approval threshold  *)
(* than the stores on the active policy.                                   *)
ServedNeverLooser ==
    Running => \A store \in Stores :
        policies[Select(store)].params.risk <= policies[activeVersion].params.risk

(* Only a rollback to the previous version can loosen the approval         *)
(* threshold in force: no promotion does, however the candidate was        *)
(* generated, re-evaluated or canaried.                                    *)
PromotionNeverLooser ==
    [][ (activeVersion # NoVersion /\ activeVersion' \notin {activeVersion, previousVersion})
          => policies'[activeVersion'].params.risk <= policies[activeVersion].params.risk ]_vars

(* The attribution of the failed layers bounds what generation may change, *)
(* whatever the feedback and the optimizer's result; a clean baseline may  *)
(* change the pool, the ROI threshold or the prompt, never the approval    *)
(* threshold or the query rewrite.                                         *)
MayChange(cats) ==
    IF cats = {}
    THEN {"retrieval_candidate_k", "campaign_roi_threshold", "prompt_revision"}
    ELSE AllowedMutations(cats)

AllowlistRespected ==
    [][ \A v \in Versions, cats \in Attributions :
          (\E fb \in FeedbackCounts, opt \in Prompts \cup {NoPrompt} :
                GenerateCandidate(v, cats, fb, opt))
             => ChangedFields(policies[activeVersion].params, policies'[v].params)
                  \subseteq MayChange(cats) ]_vars

-----------------------------------------------------------------------------
(* A claim of the documentation that the code does not keep *)

(* docs/self-evolution.md: "Canary and promotion re-check these fields     *)
(* against current state", evaluated_suite_version among them: a policy    *)
(* enters canary or is promoted only if the suite it passed is the one the *)
(* process has loaded.                                                     *)
ReleaseRechecksSuite ==
    [][ \A v \in Versions :
          (Promote(v) \/ \E percent \in Percents : StartCanary(v, percent))
             => policies[v].evalSuite = suite ]_vars

=============================================================================
