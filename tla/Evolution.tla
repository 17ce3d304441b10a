------------------------------ MODULE Evolution ------------------------------
(***************************************************************************)
(* evolution.Service over the policy Manager (internal/evolution/          *)
(* service.go): Harness evaluation, candidate generation and the Evolve    *)
(* loop as sequences of steps of concurrent requests to one serving        *)
(* process, interleaved with canary, promotion and rollback by an          *)
(* administrator, and with a crash or restart at any point.                *)
(*                                                                         *)
(* No lock is held between the steps of a request: the policy state it     *)
(* read at the beginning may be outdated at every later step.  Each step   *)
(* ends with at most one write of the repository.                          *)
(*                                                                         *)
(* harness.Suite.Evaluate is modelled by its outcome: any verdict, any     *)
(* attribution in Attributions, or an error.                               *)
(***************************************************************************)
EXTENDS PolicyRelease

CONSTANT Sessions   \* the requests of a behaviour; each is served once (bound)

VARIABLES
    session,       \* locals of the running requests
    reports,       \* saved Harness reports (directory harness/)
    runs,          \* saved evolution runs (directory evolution/)
    attributedTo   \* history: the policy whose failures a candidate's
                   \* mutations were derived from

evolutionVars == <<session, reports, runs, attributedTo>>
allVars == <<vars, evolutionVars>>

BaselineReport ==
    [policy : Versions, baseline : {NoVersion}, suite : Suites, passed : BOOLEAN]

EvolutionRun ==
    [candidate : Versions, baseline : Versions, status : {"blocked", "evaluated", "canary"}]

Session ==
    [pc : {"new", "done", "baseline", "generate", "evaluate", "mark", "canary", "record"},
     op : {"harness", "generate", "evolve"},
     base : Versions \cup {NoVersion},       \* active policy of the snapshot
     target : Versions \cup {NoVersion},     \* policy under evaluation
     cats : SUBSET Categories,                \* baseline failure attribution
     report : Report \cup {NoReport},        \* candidate report
     percent : 0..50,
     status : {"blocked", "evaluated", "canary"}]

NewSession ==
    [pc |-> "new", op |-> "harness", base |-> NoVersion, target |-> NoVersion,
     cats |-> {}, report |-> NoReport, percent |-> 0, status |-> "blocked"]

Done == [NewSession EXCEPT !.pc = "done"]

EvolutionTypeOK ==
    /\ TypeOK
    /\ session \in [Sessions -> Session]
    /\ reports \subseteq Report \cup BaselineReport
    /\ runs \subseteq EvolutionRun
    /\ attributedTo \in [Versions -> Versions \cup {NoVersion}]

EvolutionInit ==
    /\ Init
    /\ session = [s \in Sessions |-> NewSession]
    /\ reports = {}
    /\ runs = {}
    /\ attributedTo = [v \in Versions |-> NoVersion]

-----------------------------------------------------------------------------
At(s, pc) == Running /\ session[s].pc = pc

Continue(s, locals) == session' = [session EXCEPT ![s] = locals]

(* The request returns, with a result or an error, and forgets its locals. *)
Return(s) == Continue(s, Done)

(* RunHarness, GenerateCandidate and Evolve begin by reading the policy    *)
(* state; RunHarness refuses a version that is not in it.                  *)
Begin(s, op, target, percent) ==
    /\ At(s, "new")
    /\ CASE op = "harness"  -> Exists(target) /\ percent = 0
         [] op = "generate" -> target = NoVersion /\ percent = 0
         [] op = "evolve"   -> target = NoVersion /\ percent \in 0..50
    /\ Continue(s, [NewSession EXCEPT !.pc = "baseline", !.op = op, !.base = activeVersion,
                                !.target = target, !.percent = percent])
    /\ UNCHANGED <<vars, reports, runs, attributedTo>>

(* The active policy of the snapshot is replayed and its report saved.     *)
EvaluateBaseline(s, cats) ==
    /\ At(s, "baseline")
    /\ reports' = reports \cup {[policy |-> session[s].base, baseline |-> NoVersion,
                                 suite |-> suite, passed |-> cats = {}]}
    /\ IF session[s].op = "harness"
       THEN IF session[s].target = session[s].base THEN Return(s)
            ELSE Continue(s, [session[s] EXCEPT !.pc = "evaluate"])
       ELSE Continue(s, [session[s] EXCEPT !.pc = "generate", !.cats = cats])
    /\ UNCHANGED <<vars, runs, attributedTo>>

(* shouldOptimizePrompt: the optimizer is called for a model quality       *)
(* failure, or on a clean baseline that had semantic evaluations; what it  *)
(* returns has passed prompt.Validate.                                     *)
OptimizerResult(cats, opt) ==
    \/ opt = NoPrompt /\ "model_quality" \notin cats
    \/ opt \in ValidPrompts /\ (cats = {} \/ "model_quality" \in cats)

(* Fault: the candidate is derived from the policy the request read.       *)
Generate_FromSnapshot(s, v, fb, opt) ==
    /\ At(s, "generate")
    /\ OptimizerResult(session[s].cats, opt)
    /\ policies[v].status = "absent"
    /\ LET base == policies[session[s].base]
       IN  policies' = [policies EXCEPT ![v] =
              [base EXCEPT !.status = "candidate", !.parent = session[s].base,
                           !.params = Mutate(Normalize(base.params),
                                             session[s].cats, fb, opt)]]
    /\ attributedTo' = [attributedTo EXCEPT ![v] = session[s].base]
    /\ IF session[s].op = "generate" THEN Return(s)
       ELSE Continue(s, [session[s] EXCEPT !.pc = "evaluate", !.target = v])
    /\ UNCHANGED <<suite, activeVersion, previousVersion, canaryVersion,
                   canaryPercent, everActive, reports, runs>>

(* The Manager derives the candidate from the policy that is active NOW,   *)
(* by the attribution of the policy that was active at the beginning.      *)
Generate(s, v, fb, opt) ==
    /\ At(s, "generate")
    /\ OptimizerResult(session[s].cats, opt)
    /\ GenerateCandidate(v, session[s].cats, fb, opt)
    /\ attributedTo' = [attributedTo EXCEPT ![v] = session[s].base]
    /\ IF session[s].op = "generate" THEN Return(s)
       ELSE Continue(s, [session[s] EXCEPT !.pc = "evaluate", !.target = v])
    /\ UNCHANGED <<reports, runs>>

(* Fault: the candidate's report is used before it is saved.               *)
Evaluate_Unsaved(s, passed) ==
    /\ At(s, "evaluate")
    /\ passed
    /\ Continue(s, [session[s] EXCEPT !.pc = "mark", !.report =
          [policy |-> session[s].target, baseline |-> session[s].base,
           suite |-> suite, passed |-> TRUE]])
    /\ UNCHANGED <<vars, reports, runs, attributedTo>>

(* The candidate's report, compared with the baseline, is saved; only a    *)
(* passing one goes on to MarkEvaluated.                                   *)
Evaluate(s, passed) ==
    /\ At(s, "evaluate")
    /\ LET r == [policy |-> session[s].target, baseline |-> session[s].base,
                 suite |-> suite, passed |-> passed]
       IN  /\ reports' = reports \cup {r}
           /\ IF passed
              THEN Continue(s, [session[s] EXCEPT !.pc = "mark", !.report = r])
              ELSE IF session[s].op = "evolve"
              THEN Continue(s, [session[s] EXCEPT !.pc = "record", !.report = r])
              ELSE Return(s)
    /\ UNCHANGED <<vars, runs, attributedTo>>

(* Fault: Evolve goes on although MarkEvaluated returned an error.         *)
Mark_IgnoresError(s) ==
    /\ At(s, "mark")
    /\ MarkEvaluated(session[s].target, session[s].report) \/ UNCHANGED vars
    /\ Continue(s, [session[s] EXCEPT !.pc = "record", !.status = "evaluated"])
    /\ UNCHANGED <<reports, runs, attributedTo>>

(* MarkEvaluated re-checks the report against the state of this moment; an *)
(* error ends the request.                                                 *)
Mark(s) ==
    /\ At(s, "mark")
    /\ \/ /\ MarkEvaluated(session[s].target, session[s].report)
          /\ IF session[s].op = "evolve"
             THEN Continue(s, [session[s] EXCEPT
                      !.pc = IF session[s].percent > 0 THEN "canary" ELSE "record",
                      !.status = "evaluated"])
             ELSE Return(s)
       \/ /\ ~Markable(session[s].target, session[s].report)
          /\ Return(s)
          /\ UNCHANGED vars
    /\ UNCHANGED <<reports, runs, attributedTo>>

AssignCanary(s) ==
    /\ At(s, "canary")
    /\ \/ /\ StartCanary(session[s].target, session[s].percent)
          /\ Continue(s, [session[s] EXCEPT !.pc = "record", !.status = "canary"])
       \/ /\ ~Canariable(session[s].target, session[s].percent)
          /\ Return(s)
          /\ UNCHANGED vars
    /\ UNCHANGED <<reports, runs, attributedTo>>

Record(s) ==
    /\ At(s, "record")
    /\ runs' = runs \cup {[candidate |-> session[s].target, baseline |-> session[s].base,
                           status |-> session[s].status]}
    /\ Return(s)
    /\ UNCHANGED <<vars, reports, attributedTo>>

(* Any step can fail (evaluation, optimizer, repository, cancellation):    *)
(* the request returns and what it had saved stays.                        *)
Fail(s) ==
    /\ Running
    /\ session[s].pc \notin {"new", "done"}
    /\ Return(s)
    /\ UNCHANGED <<vars, reports, runs, attributedTo>>

-----------------------------------------------------------------------------
(* An administrator's direct calls, each one operation of the Manager.     *)
Administer ==
    /\ \/ \E v \in Versions, percent \in Percents : StartCanary(v, percent)
       \/ \E v \in Versions : Promote(v)
       \/ Rollback
    /\ UNCHANGED evolutionVars

StartProcess == (\E s \in Suites : Start(s)) /\ UNCHANGED evolutionVars

Crash ==
    /\ Stop
    /\ session' = [s \in Sessions |->
          IF session[s].pc = "new" THEN session[s] ELSE Done]
    /\ UNCHANGED <<reports, runs, attributedTo>>

SessionStep(s) ==
    \/ \E op \in {"harness", "generate", "evolve"}, target \in Versions \cup {NoVersion},
          percent \in Percents : Begin(s, op, target, percent)
    \/ \E cats \in Attributions : EvaluateBaseline(s, cats)
    \/ \E v \in Versions, fb \in FeedbackCounts, opt \in Prompts \cup {NoPrompt} :
          Generate(s, v, fb, opt)
    \/ \E passed \in BOOLEAN : Evaluate(s, passed)
    \/ Mark(s)
    \/ AssignCanary(s)
    \/ Record(s)
    \/ Fail(s)

EvolutionNext ==
    \/ \E s \in Sessions : SessionStep(s)
    \/ Administer
    \/ StartProcess
    \/ Crash

EvolutionSpec == EvolutionInit /\ [][EvolutionNext]_allVars

-----------------------------------------------------------------------------
(* The sessions drive the Manager only through its operations, and every   *)
(* report they hand to it is one PolicyRelease allows for: all that is     *)
(* proved of PolicyRelease holds of the running service.                   *)
ImplementsRelease == Spec

(* A credential never refers to a report that is not on disk: the report   *)
(* is saved before the policy is marked, so no crash and no failed write   *)
(* in between leaves a release that cannot be audited.                     *)
CredentialsOnDisk ==
    \A v \in Versions :
        policies[v].report # NoReport =>
            /\ policies[v].report \in reports
            /\ \E b \in reports : b.baseline = NoVersion
                                  /\ b.policy = policies[v].report.baseline

(* An evolution run is recorded as released only for a candidate that was  *)
(* measured against the very policy its mutations were derived from and    *)
(* that it descends from: an Evolve overtaken by a promotion or a rollback *)
(* aborts or records nothing.                                              *)
RecordedRunsConsistent ==
    \A run \in runs :
        /\ attributedTo[run.candidate] = run.baseline
        /\ run.status # "blocked" =>
              /\ policies[run.candidate].parent = run.baseline
              /\ Earned(run.candidate)

(* service.go: "GenerateCandidate first replays the active policy so       *)
(* mutations are derived from current failures": what a candidate changes  *)
(* relative to its parent answers failures of that parent.                 *)
MutationsFromParent ==
    \A v \in Versions :
        attributedTo[v] # NoVersion => policies[v].parent = attributedTo[v]

=============================================================================
