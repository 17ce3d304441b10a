--------------------------- MODULE MemoryLearning ---------------------------
(***************************************************************************)
(* From a merchant's feedback to the memory that later runs read: the      *)
(* feedback handler of internal/httpapi/server.go, Learn of                *)
(* internal/memory/service.go and the two files it leaves in the           *)
(* repository, the feedback record and the store's memory profile, and     *)
(* what a run that reads the profile makes of it (Analysis).               *)
(*                                                                         *)
(* Each request is made once, with an ID of its own, about actions of a    *)
(* run on the same campaigns.  Statements and evidence of a fact are left  *)
(* out, and so are the other stores, which share the mutex only.           *)
(***************************************************************************)
EXTENDS Analysis, FiniteSets, Functions

CONSTANTS
    Feedbacks,  \* requests to POST a feedback
    Content,    \* what each says: actions accepted and rejected, KPIs observed
    Campaigns,  \* of the store
    Thresholds, \* ROI thresholds of the policies runs are made under
    Capacity,   \* maxMemoriesPerStore
    LastTime,   \* bound of the clock
    Nobody      \* a mutex that is free

Targets == {Campaigns[i].id : i \in DOMAIN Campaigns}

(* What a merchant can say something about: the actions Analyze proposes.  *)
Actions == [operation : {Review, Pause}, target : Targets]

ASSUME MemoryAssumption ==
    /\ \A f \in Feedbacks :
        /\ Content[f].accepted \in Seq(Actions) /\ Content[f].rejected \in Seq(Actions)
        /\ IsInjective(Content[f].accepted \o Content[f].rejected)
        /\ Content[f].observed \in {"none", "gain", "loss"}
    /\ Campaigns \in Seq([id : Targets, active : BOOLEAN, roi : Int])
    /\ Thresholds \subseteq Int
    /\ NoTarget \notin Targets
    /\ Capacity \in Nat \ {0} /\ LastTime \in Nat
    /\ Nobody \notin Feedbacks

VARIABLES
    clock,
    created,    \* Feedback.CreatedAt
    record,     \* the feedback's file
    profile,    \* the memories in the store's file, newest first
    mutex,      \* holder of memory.Service.mu
    loaded,     \* the profile a Learn has read
    pc,
    learned,    \* history: facts ever saved to the profile
    lost,       \* history: facts saved to a profile that was torn
    dropped     \* history: records whose replacement was torn

history == <<learned, lost, dropped>>
vars == <<clock, created, record, profile, mutex, loaded, pc, history>>

Finished == {"created", "rejected", "failed", "dead"}

Facts ==
    [feedback : Feedbacks,
     kind : {"diagnosis_episode", "action_preference", "action_outcome"},
     operation : {"", Review, Pause}, target : Targets \cup {NoTarget},
     polarity : {"useful", "prefer", "avoid", "success", "failure"},
     updated : 0 .. LastTime]

(* A record is the bare event until the facts learned from it are added.   *)
TypeOK ==
    /\ clock \in 0 .. LastTime
    /\ created \in [Feedbacks -> 0 .. LastTime]
    /\ record \in [Feedbacks -> {"none", "event", "annotated"}]
    /\ learned \subseteq Facts
    /\ profile \in Seq(learned) /\ Len(profile) <= Capacity /\ IsInjective(profile)
    /\ mutex \in Feedbacks \cup {Nobody}
    /\ loaded \in [Feedbacks -> Seq(learned)]
    /\ pc \in [Feedbacks -> {"new", "record", "lock", "load", "save", "replace",
                             "annotate", "reannotate"} \cup Finished]
    /\ lost \subseteq learned /\ dropped \subseteq Feedbacks

Init ==
    /\ clock = 0
    /\ created = [f \in Feedbacks |-> 0]
    /\ record = [f \in Feedbacks |-> "none"]
    /\ profile = <<>>
    /\ mutex = Nobody
    /\ loaded = [f \in Feedbacks |-> <<>>]
    /\ pc = [f \in Feedbacks |-> "new"]
    /\ learned = {} /\ lost = {} /\ dropped = {}

-----------------------------------------------------------------------------
(* The repository's lock is held while a file is being replaced, so nobody *)
(* sees it missing.                                                        *)
RepositoryFree == \A f \in Feedbacks : pc[f] \notin {"replace", "reannotate"}

At(f, stage) == pc[f] = stage /\ (RepositoryFree \/ stage \in {"replace", "reannotate"})
Goto(f, stage) == pc' = [pc EXCEPT ![f] = stage]

Fact(f, kind, action, polarity) ==
    [feedback |-> f, kind |-> kind, operation |-> action.operation,
     target |-> action.target, polarity |-> polarity, updated |-> created[f]]

(* The updates of Learn: the episode, a preference for each action that    *)
(* was accepted or rejected, and an outcome for each accepted one when the *)
(* feedback brings KPIs.                                                   *)
FactsOf(f) ==
    LET About(actions, kind, polarity) ==
            [i \in DOMAIN actions |-> Fact(f, kind, actions[i], polarity)]
        content == Content[f]
        result == IF content.observed = "loss" THEN "failure" ELSE "success"
    IN  <<Fact(f, "diagnosis_episode", [operation |-> "", target |-> NoTarget], "useful")>>
        \o About(content.accepted, "action_preference", "prefer")
        \o About(content.rejected, "action_preference", "avoid")
        \o (IF content.observed = "none" THEN <<>>
            ELSE About(content.accepted, "action_outcome", result))

(* The stable sort by UpdatedAt, newest first, of a profile that is sorted *)
(* and the facts of f appended to it: they share one time and enter behind *)
(* the last memory that is not older.                                      *)
Insertion(f) ==
    {n \in 0 .. Len(loaded[f]) :
        /\ \A i \in 1 .. n : loaded[f][i].updated >= created[f]
        /\ \A i \in n + 1 .. Len(loaded[f]) : loaded[f][i].updated < created[f]}

Merged(f, n) ==
    SubSeq(loaded[f], 1, n) \o FactsOf(f) \o SubSeq(loaded[f], n + 1, Len(loaded[f]))

Truncated(memories) ==
    IF Len(memories) > Capacity THEN SubSeq(memories, 1, Capacity) ELSE memories

-----------------------------------------------------------------------------
Tick ==
    /\ clock < LastTime
    /\ clock' = clock + 1
    /\ UNCHANGED <<created, record, profile, mutex, loaded, pc, history>>

(* GetRun and Validate: the run exists, has a result and owns the actions. *)
Receive(f) ==
    /\ At(f, "new")
    /\ \/ created' = [created EXCEPT ![f] = clock] /\ Goto(f, "record")
       \/ Goto(f, "rejected") /\ UNCHANGED created
    /\ UNCHANGED <<clock, record, profile, mutex, loaded, history>>

(* Fault: the facts are learned although the event was not persisted.      *)
AddFeedback_IgnoresError(f) ==
    /\ At(f, "record")
    /\ Goto(f, "lock")
    /\ \/ record' = [record EXCEPT ![f] = "event"]
       \/ UNCHANGED record
    /\ UNCHANGED <<clock, created, profile, mutex, loaded, history>>

AddFeedback(f) ==
    /\ At(f, "record")
    /\ \/ record' = [record EXCEPT ![f] = "event"] /\ Goto(f, "lock")
       \/ Goto(f, "failed") /\ UNCHANGED record
    /\ UNCHANGED <<clock, created, profile, mutex, loaded, history>>

(* Fault: Learn without the Service's mutex.                               *)
Lock_NoMutex(f) ==
    /\ pc[f] = "lock"
    /\ mutex' = f
    /\ Goto(f, "load")
    /\ UNCHANGED <<clock, created, record, profile, loaded, history>>

Lock(f) ==
    /\ pc[f] = "lock"
    /\ mutex = Nobody
    /\ mutex' = f
    /\ Goto(f, "load")
    /\ UNCHANGED <<clock, created, record, profile, loaded, history>>

(* Fault: the handler goes on after an error of Learn.                     *)
LearnFails_Unnoticed(f) == Goto(f, "annotate") /\ mutex' = Nobody

LearnFails(f) == Goto(f, "failed") /\ mutex' = Nobody

(* A missing file is an empty profile.                                     *)
Load(f) ==
    /\ At(f, "load")
    /\ \/ /\ loaded' = [loaded EXCEPT ![f] = profile]
          /\ Goto(f, "save")
          /\ UNCHANGED mutex
       \/ LearnFails(f) /\ UNCHANGED loaded
    /\ UNCHANGED <<clock, created, record, profile, history>>

Saved(f) ==
    /\ \E n \in Insertion(f) : profile' = Truncated(Merged(f, n))
    /\ learned' = learned \cup Range(FactsOf(f))
    /\ mutex' = Nobody
    /\ loaded' = [loaded EXCEPT ![f] = <<>>]
    /\ Goto(f, "annotate")

(* SaveMerchantMemory: the file is replaced, or nothing is written, or the *)
(* rename fails and the old file is removed first.                         *)
Save(f) ==
    /\ At(f, "save")
    /\ \/ Saved(f)
       \/ LearnFails(f) /\ UNCHANGED <<profile, loaded, learned>>
       \/ /\ profile # <<>>
          /\ Goto(f, "replace")
          /\ UNCHANGED <<profile, mutex, loaded, learned>>
    /\ UNCHANGED <<clock, created, record, lost, dropped>>

(* The second rename; when it fails too, the profile is gone.              *)
Replace(f) ==
    /\ At(f, "replace")
    /\ \/ Saved(f) /\ UNCHANGED lost
       \/ /\ LearnFails(f)
          /\ profile' = <<>>
          /\ lost' = learned
          /\ UNCHANGED <<loaded, learned>>
    /\ UNCHANGED <<clock, created, record, dropped>>

(* The second AddFeedback, with MemoryUpdates, over the first one's file.  *)
Annotate(f) ==
    /\ At(f, "annotate")
    /\ \/ record' = [record EXCEPT ![f] = "annotated"] /\ Goto(f, "created")
       \/ Goto(f, "failed") /\ UNCHANGED record
       \/ Goto(f, "reannotate") /\ UNCHANGED record
    /\ UNCHANGED <<clock, created, profile, mutex, loaded, history>>

Reannotate(f) ==
    /\ At(f, "reannotate")
    /\ \/ /\ record' = [record EXCEPT ![f] = "annotated"]
          /\ Goto(f, "created")
          /\ UNCHANGED dropped
       \/ /\ record' = [record EXCEPT ![f] = "none"]
          /\ dropped' = dropped \cup {f}
          /\ Goto(f, "failed")
    /\ UNCHANGED <<clock, created, profile, mutex, loaded, learned, lost>>

(* The process dies and is started again; a file that was being replaced   *)
(* is missing.                                                             *)
Crash ==
    LET torn(stage) == {f \in Feedbacks : pc[f] = stage} IN
    /\ \E f \in Feedbacks : pc[f] \notin {"new"} \cup Finished
    /\ pc' = [f \in Feedbacks |->
                IF pc[f] \in {"new"} \cup Finished THEN pc[f] ELSE "dead"]
    /\ mutex' = Nobody
    /\ loaded' = [f \in Feedbacks |-> <<>>]
    /\ profile' = IF torn("replace") # {} THEN <<>> ELSE profile
    /\ lost' = IF torn("replace") # {} THEN learned ELSE lost
    /\ record' = [f \in Feedbacks |->
                    IF f \in torn("reannotate") THEN "none" ELSE record[f]]
    /\ dropped' = dropped \cup torn("reannotate")
    /\ UNCHANGED <<clock, created, learned>>

Step(f) ==
    \/ Receive(f) \/ AddFeedback(f) \/ Lock(f) \/ Load(f) \/ Save(f)
    \/ Replace(f) \/ Annotate(f) \/ Reannotate(f)

Next == Tick \/ Crash \/ \E f \in Feedbacks : Step(f)

Spec == Init /\ [][Next]_vars

-----------------------------------------------------------------------------
(* internal/httpapi/server.go: "every memory can always be traced back to  *)
(* an existing feedback record".  Through failures and crashes between the *)
(* three writes, a memory has its record on disk, unless the replacement   *)
(* of that record itself was torn.                                         *)
Traceable ==
    \A fact \in Range(profile) :
        record[fact.feedback] # "none" \/ fact.feedback \in dropped

(* Learning loses no fact but to newer ones: whatever order concurrent     *)
(* feedbacks are timed, loaded and saved in, a fact that was saved is in   *)
(* the profile unless as many facts at least as new as the limit allows    *)
(* are, and the newest come first.  Only a torn profile starts anew.       *)
NewestKept ==
    /\ \A fact \in learned \ (lost \cup Range(profile)) :
        Cardinality({m \in Range(profile) : m.updated >= fact.updated})
            = Capacity
    /\ \A i, j \in DOMAIN profile :
        i < j => profile[i].updated >= profile[j].updated

(* The three writes of a request agree, whatever fails between them: a     *)
(* record lists facts only when they were saved, and a client that got its *)
(* 201 finds its record on disk, facts included.                           *)
RecordsTruthful ==
    \A f \in Feedbacks :
        /\ record[f] = "annotated" => Range(FactsOf(f)) \subseteq learned
        /\ pc[f] = "created" => record[f] = "annotated"

(* analyzer.go: memory "personalizes presentation and ordering only".  A   *)
(* run that reads the profile at any moment proposes the actions and risks *)
(* it would propose without it, those the merchant prefers first; and      *)
(* however feedbacks overlapped or pushed each other out of the profile,   *)
(* the last explicit word about an action decides how it is shown, results *)
(* only when no such word is left.                                         *)
MemoryAdvises ==
    \A threshold \in Thresholds :
        LET without == Analyze(Campaigns, threshold)
            proposal == ApplyMerchantMemory(without, profile)
            Unmarked(action) == [action EXCEPT !.preference = "none"]
            Known(action, kind) ==
                {m \in learned \ lost : /\ m.kind = kind
                                        /\ m.operation = action.operation
                                        /\ m.target = action.target}
            Decided(action, kind) ==
                \E m \in Known(action, kind) :
                    /\ \A n \in Known(action, kind) : n.updated <= m.updated
                    /\ action.preference = PreferenceOf(m.polarity)
            Left(action, kind) == Known(action, kind) \cap Range(profile) # {}
        IN  /\ Len(proposal) = Len(without)
            /\ {Unmarked(a) : a \in Range(proposal)} = Range(without)
            /\ \A i, j \in DOMAIN proposal :
                i < j => PreferenceRank(proposal[i]) >= PreferenceRank(proposal[j])
            /\ \A action \in Range(proposal) :
                IF Left(action, "action_preference")
                THEN Decided(action, "action_preference")
                ELSE IF Left(action, "action_outcome")
                     THEN Decided(action, "action_outcome")
                     ELSE action.preference = "none"

=============================================================================
