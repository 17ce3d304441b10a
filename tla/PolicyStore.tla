----------------------------- MODULE PolicyStore -----------------------------
(***************************************************************************)
(* One atomic step of PolicyRelease, opened up: Manager.update under the   *)
(* Manager's mutex, FileRepository's load and save under its RWMutex, and  *)
(* writeJSON with its temporary file, its rename and the fallback for a    *)
(* platform where the rename cannot replace a file (internal/policy/       *)
(* manager.go, internal/repository/repository.go).                         *)
(*                                                                         *)
(* The server and the commands of cmd/evoops are processes with locks of   *)
(* their own over one file.  Each call is made once.  The document is      *)
(* abstracted to the set of updates it contains: an update reads the whole *)
(* document and writes the whole document back, so an update that another  *)
(* one overwrote is missing from the set.  Files of older programs, which  *)
(* a start completes, are left to PolicyRelease.                           *)
(***************************************************************************)
CONSTANTS
    Processes,  \* the server, a command
    Updates,    \* calls that change the policy state
    Reads,      \* calls of Select, State and Versions
    Home,       \* the process that makes a call
    NoFile,     \* policies.json does not exist
    NoCall      \* a lock nobody holds

Calls == Updates \cup Reads

ASSUME StoreAssumption ==
    /\ Updates \cap Reads = {}
    /\ \A d \in SUBSET Updates : d # NoFile
    /\ NoCall \notin Calls
    /\ Home \in [Calls -> Processes]

VARIABLES
    process,    \* "up" when NewManager has returned
    file,       \* content of policies.json
    pc,
    loaded,     \* the document each call has read
    mutex,      \* holder of Manager.mu, in each process
    writer,     \* holder of the write side of FileRepository.mu
    answered,   \* updates that returned without an error
    required,   \* history: updates answered before a read began
    damage      \* history: what undid an update first, if anything did

history == <<required, damage>>
vars == <<process, file, pc, loaded, mutex, writer, answered, history>>

\* "failed" stands for calls that die with their process, too.
Finished == {"answered", "failed", "missing"}
Stages == {"new", "lock", "load", "save", "rename", "remove",
           "replace", "answer", "read"} \cup Finished

TypeOK ==
    /\ process \in [Processes -> {"down", "bootstrap", "up"}]
    /\ file \in {NoFile} \cup SUBSET Updates
    /\ pc \in [Calls -> Stages]
    /\ loaded \in [Calls -> SUBSET Updates]
    /\ mutex \in [Processes -> Updates \cup {NoCall}]
    /\ writer \in [Processes -> Updates \cup {NoCall}]
    /\ answered \subseteq Updates
    /\ required \in [Reads -> SUBSET Updates]
    /\ damage \in {"none", "dropped", "overwritten"}

Init ==
    /\ process = [p \in Processes |-> "down"]
    /\ file = NoFile
    /\ pc = [c \in Calls |-> "new"]
    /\ loaded = [c \in Calls |-> {}]
    /\ mutex = [p \in Processes |-> NoCall]
    /\ writer = [p \in Processes |-> NoCall]
    /\ answered = {}
    /\ required = [r \in Reads |-> {}]
    /\ damage = "none"

-----------------------------------------------------------------------------
At(c, stage) == process[Home[c]] = "up" /\ pc[c] = stage
Goto(c, stage) == pc' = [pc EXCEPT ![c] = stage]

Free(lock, c) == lock[Home[c]] = NoCall
Take(lock, c) == [lock EXCEPT ![Home[c]] = c]
Release(lock, c) == [lock EXCEPT ![Home[c]] = NoCall]

(* What call u writes: the document it read, with its own change.          *)
NewDocument(u) == loaded[u] \cup {u}

Replacing == {u \in Updates : pc[u] = "replace"}

(* The document this store implements: once the old file is removed, the   *)
(* new document exists only in the temporary file.                         *)
Document ==
    IF file # NoFile THEN file ELSE UNION {NewDocument(u) : u \in Replacing}

Damage(kind, done) == damage' = IF damage = "none" /\ done THEN kind ELSE damage

(* A save that undoes what another process has saved since the file was    *)
(* read.                                                                   *)
Saves(u) == Damage("overwritten", \E v \in Document \ loaded[u] : Home[v] # Home[u])

(* NewManager: the file is there, ...                                      *)
Start(p) ==
    /\ process[p] = "down"
    /\ process' = [process EXCEPT ![p] = IF file = NoFile THEN "bootstrap" ELSE "up"]
    /\ UNCHANGED <<file, pc, loaded, mutex, writer, answered, history>>

(* ... or it is written.  A rename to a free name is atomic, so a failure  *)
(* is a start that did not happen; a file that another process has put     *)
(* there in the meantime is replaced by the bootstrap policy.              *)
Bootstrap(p) ==
    /\ process[p] = "bootstrap"
    /\ process' = [process EXCEPT ![p] = "up"]
    /\ file' = {}
    /\ Damage("overwritten", Document # {})
    /\ UNCHANGED <<pc, loaded, mutex, writer, answered, required>>

Begin(c) ==
    /\ At(c, "new")
    /\ Goto(c, IF c \in Updates THEN "lock" ELSE "read")
    /\ required' = [r \in Reads |-> IF r = c THEN answered ELSE required[r]]
    /\ UNCHANGED <<process, file, loaded, mutex, writer, answered, damage>>

(* Fault: update without the Manager's mutex.                              *)
Lock_NoMutex(u) ==
    /\ At(u, "lock")
    /\ mutex' = Take(mutex, u)
    /\ Goto(u, "load")
    /\ UNCHANGED <<process, file, loaded, writer, answered, history>>

Lock(u) ==
    /\ At(u, "lock")
    /\ Free(mutex, u)
    /\ mutex' = Take(mutex, u)
    /\ Goto(u, "load")
    /\ UNCHANGED <<process, file, loaded, writer, answered, history>>

(* Fault: an early return that forgets to unlock.                          *)
FailWith_KeepsMutex(u) ==
    /\ Goto(u, "failed")
    /\ writer' = Release(writer, u)
    /\ UNCHANGED mutex

(* The call returns an error; the deferred unlocks run.                    *)
FailWith(u) ==
    /\ Goto(u, "failed")
    /\ writer' = Release(writer, u)
    /\ mutex' = Release(mutex, u)

(* LoadPolicyState under the read lock, then the operation itself: it is   *)
(* refused when the file is missing or a guard of the operation fails.     *)
Load(u) ==
    /\ At(u, "load")
    /\ Free(writer, u)
    /\ \/ /\ file # NoFile
          /\ loaded' = [loaded EXCEPT ![u] = file]
          /\ Goto(u, "save")
          /\ UNCHANGED <<mutex, writer>>
       \/ FailWith(u) /\ UNCHANGED loaded
    /\ UNCHANGED <<process, file, answered, history>>

(* SavePolicyState takes the write lock, then writes and syncs a temporary *)
(* file of its own, which nobody else looks at.                            *)
WriteTemp(u) ==
    /\ At(u, "save")
    /\ Free(writer, u)
    /\ \/ writer' = Take(writer, u) /\ Goto(u, "rename") /\ UNCHANGED mutex
       \/ FailWith(u)
    /\ UNCHANGED <<process, file, loaded, answered, history>>

Rename(u) ==
    /\ At(u, "rename")
    /\ \/ /\ file' = NewDocument(u)
          /\ Saves(u)
          /\ writer' = Release(writer, u)
          /\ Goto(u, "answer")
       \/ Goto(u, "remove") /\ UNCHANGED <<file, writer, damage>>
    /\ UNCHANGED <<process, loaded, mutex, answered, required>>

(* The fallback: remove the old file, then rename into the free name.      *)
RemoveOld(u) ==
    /\ At(u, "remove")
    /\ \/ /\ file' = NoFile
          /\ Saves(u)
          /\ Goto(u, "replace")
          /\ UNCHANGED <<mutex, writer>>
       \/ FailWith(u) /\ UNCHANGED <<file, damage>>
    /\ UNCHANGED <<process, loaded, answered, required>>

Replace(u) ==
    /\ At(u, "replace")
    /\ \/ /\ file' = NewDocument(u)
          /\ Saves(u)
          /\ writer' = Release(writer, u)
          /\ Goto(u, "answer")
          /\ UNCHANGED mutex
       \/ /\ FailWith(u)
          /\ Damage("dropped", TRUE)
          /\ UNCHANGED file
    /\ UNCHANGED <<process, loaded, answered, required>>

Answer(u) ==
    /\ At(u, "answer")
    /\ answered' = answered \cup {u}
    /\ mutex' = Release(mutex, u)
    /\ Goto(u, "answered")
    /\ UNCHANGED <<process, file, loaded, writer, history>>

(* A read that finds no file fails; its stage says whether the fallback of *)
(* another process, against which no lock helps, is the reason.            *)
ReadFile(r) ==
    /\ \/ /\ file # NoFile
          /\ loaded' = [loaded EXCEPT ![r] = file]
          /\ Goto(r, "answered")
       \/ /\ file = NoFile
          /\ Goto(r, IF \E u \in Replacing : Home[u] # Home[r] THEN "failed" ELSE "missing")
          /\ UNCHANGED loaded
    /\ UNCHANGED <<process, file, mutex, writer, answered, history>>

(* Fault: the file is read without the repository's lock.                  *)
Read_NoLock(r) == At(r, "read") /\ ReadFile(r)

Read(r) == At(r, "read") /\ Free(writer, r) /\ ReadFile(r)

(* A process dies: its locks are gone, its calls are never answered.       *)
Crash(p) ==
    /\ process[p] # "down"
    /\ process' = [process EXCEPT ![p] = "down"]
    /\ pc' = [c \in Calls |-> IF Home[c] # p \/ pc[c] \in {"new"} \cup Finished
                              THEN pc[c] ELSE "failed"]
    /\ mutex' = [mutex EXCEPT ![p] = NoCall]
    /\ writer' = [writer EXCEPT ![p] = NoCall]
    /\ Damage("dropped", \E u \in Replacing : Home[u] = p)
    /\ UNCHANGED <<file, loaded, answered, required>>

UpdateStep(u) ==
    \/ Lock(u) \/ Load(u) \/ WriteTemp(u) \/ Rename(u)
    \/ RemoveOld(u) \/ Replace(u) \/ Answer(u)

Next ==
    \/ \E p \in Processes : Start(p) \/ Bootstrap(p) \/ Crash(p)
    \/ \E c \in Calls : Begin(c)
    \/ \E u \in Updates : UpdateStep(u)
    \/ \E r \in Reads : Read(r)

Spec == Init /\ [][Next]_vars

(* Go schedules every goroutine, and neither sync.Mutex nor sync.RWMutex   *)
(* starves a waiter.  Nobody promises that a call is made or a process     *)
(* started.                                                                *)
Fairness ==
    /\ \A u \in Updates : SF_vars(UpdateStep(u))
    /\ \A r \in Reads : SF_vars(Read(r))

FairSpec == Spec /\ Fairness

-----------------------------------------------------------------------------
Writing == {"rename", "remove", "replace"}
Critical == {"load", "save", "answer"} \cup Writing

(* The locks of a process follow its calls: a call holds the Manager's     *)
(* mutex exactly from before its load until its return, and the write lock *)
(* exactly while the file may be missing or about to change, on every      *)
(* error path too; so at most one call of a process is between its load    *)
(* and its save.                                                           *)
LocksMatchCalls ==
    /\ TypeOK
    /\ \A u \in Updates : mutex[Home[u]] = u <=> pc[u] \in Critical
    /\ \A u \in Updates : writer[Home[u]] = u <=> pc[u] \in Writing

Abstract == INSTANCE AtomicDocument WITH document <- Document

(* The store is an atomic document, through every interleaving of calls,   *)
(* failed writes, crashes and starts of several processes, until a         *)
(* fallback removes the file and does not replace it, or a process writes  *)
(* over what another one has saved since it read the file: nothing else    *)
(* loses an update, and within one process nothing is overwritten.         *)
AtomicUnlessDamaged ==
    /\ Abstract!Init
    /\ [][Abstract!Next \/ damage' # "none"]_<<Document, answered>>

(* The lock keeps the readers of its process out while the fallback        *)
(* replaces the file: a read that returns has seen every update that any   *)
(* process had answered before it began, and no read misses the file that  *)
(* a fallback of its own process removes for a while.                      *)
ReadsCurrent ==
    damage = "none" => \A r \in Reads :
        /\ pc[r] # "missing"
        /\ pc[r] = "answered" => required[r] \subseteq loaded[r]

(* No call is stuck behind a lock: every call that began returns or dies   *)
(* with its process, whatever fails on the way.  (Calls are made once, so  *)
(* in the end none is under way.)                                          *)
EveryCallReturns == <>[](\A c \in Calls : pc[c] \in {"new"} \cup Finished)

=============================================================================
