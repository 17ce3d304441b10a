------------------------- MODULE PolicyStoreProofs -------------------------
(***************************************************************************)
(* Proofs about PolicyStore, for any processes, calls and reads: the locks *)
(* follow the calls, the store implements AtomicDocument as long as        *)
(* nothing undid an update, and reads are current.                         *)
(***************************************************************************)
EXTENDS PolicyStore, TLAPS

(* The calls that have read the document and not yet changed it.           *)
Holding == {u \in Updates : pc[u] \in {"save", "rename", "remove"}}

(* What a call holds is the document, apart from what other processes have *)
(* added since it was read.                                                *)
NothingForgotten ==
    \A u \in Holding :
        /\ loaded[u] \subseteq Document
        /\ \A v \in Document \ loaded[u] : Home[v] # Home[u]

(* An update is in the document from its write on, and not before.         *)
WrittenOnce ==
    /\ answered \subseteq Document
    /\ \A u \in Updates : pc[u] = "answer" => u \in Document
    /\ \A u \in Updates :
          pc[u] \in {"new", "lock", "load", "save", "rename", "remove"} => u \notin Document

(* One fallback at a time has removed the file, and nobody has read what   *)
(* it is about to put there.                                               *)
OneReplacement ==
    \A w \in Replacing :
        /\ file = NoFile
        /\ Replacing = {w}
        /\ \A u \in Holding : w \notin loaded[u]

(* Once a process is up, the file is there or about to be replaced.        *)
FileThere == file = NoFile /\ Replacing = {} => \A p \in Processes : process[p] # "up"

Intact ==
    NothingForgotten /\ WrittenOnce /\ OneReplacement /\ FileThere

IInv ==
    /\ LocksMatchCalls
    /\ \A r \in Reads : required[r] \subseteq answered
    /\ damage = "none" => Intact
    /\ ReadsCurrent

-----------------------------------------------------------------------------
LEMMA CallsAreSeparate ==
    /\ Updates \cap Reads = {} /\ Updates \subseteq Calls /\ Reads \subseteq Calls
    /\ NoCall \notin Calls /\ \A c \in Calls : Home[c] \in Processes
    /\ \A d \in SUBSET Updates : d # NoFile
BY StoreAssumption DEF Calls

LEMMA InitiallyEmpty == Init => Document = {} /\ Replacing = {}
BY CallsAreSeparate DEF Init, Document, Replacing

LEMMA Initially == Init => IInv
<1> SUFFICES ASSUME Init PROVE IInv
  OBVIOUS
<1> USE CallsAreSeparate DEF Init
<1>1. LocksMatchCalls
  <2>1. TypeOK
    BY DEF TypeOK, Stages
  <2> QED
    BY <2>1 DEF LocksMatchCalls, Critical, Writing
<1>2. Document = {} /\ Replacing = {}
  BY InitiallyEmpty
<1>3. Intact
  BY <1>2 DEF Intact, NothingForgotten, WrittenOnce, OneReplacement, FileThere, Holding
<1>4. ReadsCurrent
  BY DEF ReadsCurrent
<1> QED
  BY <1>1, <1>3, <1>4 DEF IInv

-----------------------------------------------------------------------------
(* The locks *)

LEMMA DocumentIsUpdates == LocksMatchCalls => Document \subseteq Updates
BY DEF LocksMatchCalls, TypeOK, Document, Replacing, NewDocument, Calls

(* A stage of a call that does not concern a lock.                         *)
LEMMA StartsKeepLocks ==
    ASSUME LocksMatchCalls, NEW p \in Processes, Start(p) \/ Bootstrap(p)
    PROVE  LocksMatchCalls'
<1> USE CallsAreSeparate DEF LocksMatchCalls, TypeOK, Start, Bootstrap, Damage, history
<1>1. TypeOK'
  OBVIOUS
<1> QED
  BY <1>1

LEMMA CallsKeepLocks ==
    ASSUME LocksMatchCalls, NEW c \in Calls, Begin(c) \/ (c \in Reads /\ Read(c))
    PROVE  LocksMatchCalls'
<1> USE CallsAreSeparate DEF LocksMatchCalls, Begin, Read, ReadFile, At, Goto, history
<1>1. TypeOK'
  BY DEF TypeOK, Stages, Finished
<1>2. \A u \in Updates : /\ pc'[u] \in Critical <=> pc[u] \in Critical
                         /\ pc'[u] \in Writing <=> pc[u] \in Writing
  BY DEF TypeOK, Critical, Writing
<1> QED
  BY <1>1, <1>2

(* A call takes and releases the locks of its own process, which another   *)
(* call of that process cannot hold at the same time.                      *)
LEMMA UpdatesKeepLocks ==
    ASSUME LocksMatchCalls, NEW u \in Updates, UpdateStep(u)
    PROVE  LocksMatchCalls'
<1> USE CallsAreSeparate
<1>1. TypeOK'
  <2> USE DEF LocksMatchCalls, TypeOK, At, Goto, FailWith, Take, Release, Damage, Saves,
          NewDocument, history, Stages, Finished
  <2>1. CASE Lock(u)
    BY <2>1 DEF Lock
  <2>2. CASE Load(u)
    BY <2>2 DEF Load
  <2>3. CASE WriteTemp(u)
    BY <2>3 DEF WriteTemp
  <2>4. CASE Rename(u)
    BY <2>4 DEF Rename
  <2>5. CASE RemoveOld(u)
    BY <2>5 DEF RemoveOld
  <2>6. CASE Replace(u)
    BY <2>6 DEF Replace
  <2>7. CASE Answer(u)
    BY <2>7 DEF Answer
  <2> QED
    BY <2>1, <2>2, <2>3, <2>4, <2>5, <2>6, <2>7 DEF UpdateStep
<1>2. /\ \A v \in Updates : mutex'[Home[v]] = v <=> pc'[v] \in Critical
      /\ \A v \in Updates : writer'[Home[v]] = v <=> pc'[v] \in Writing
  <2> USE DEF LocksMatchCalls, TypeOK, At, Goto, FailWith, Take, Release, Free,
          Critical, Writing
  <2>1. CASE Lock(u)
    BY <2>1 DEF Lock
  <2>2. CASE Load(u)
    BY <2>2 DEF Load
  <2>3. CASE WriteTemp(u)
    BY <2>3 DEF WriteTemp
  <2>4. CASE Rename(u)
    BY <2>4 DEF Rename
  <2>5. CASE RemoveOld(u)
    BY <2>5 DEF RemoveOld
  <2>6. CASE Replace(u)
    <3>1. /\ pc[u] = "replace" /\ writer' = Release(writer, u)
          /\ \/ pc' = [pc EXCEPT ![u] = "answer"] /\ mutex' = mutex
             \/ pc' = [pc EXCEPT ![u] = "failed"] /\ mutex' = Release(mutex, u)
      BY <2>6 DEF Replace
    <3> QED
      BY <3>1
  <2>7. CASE Answer(u)
    BY <2>7 DEF Answer
  <2> QED
    BY <2>1, <2>2, <2>3, <2>4, <2>5, <2>6, <2>7 DEF UpdateStep
<1> QED
  BY <1>1, <1>2 DEF LocksMatchCalls

LEMMA CrashKeepsLocks ==
    ASSUME LocksMatchCalls, NEW p \in Processes, Crash(p)
    PROVE  LocksMatchCalls'
<1> USE CallsAreSeparate DEF LocksMatchCalls, Crash
<1>1. TypeOK'
  BY DEF TypeOK, Damage, Stages, Finished
<1>2. \A u \in Updates : IF Home[u] = p THEN pc'[u] \in {"new"} \cup Finished
                         ELSE pc'[u] = pc[u]
  BY DEF Finished
<1> QED
  BY <1>1, <1>2 DEF TypeOK, Critical, Writing, Finished

-----------------------------------------------------------------------------
(* The document *)

Unwritten == {"new", "lock", "load", "save", "rename", "remove"}

LEMMA DamageIsForGood ==
    ASSUME NEW kind \in {"dropped", "overwritten"}, NEW done, Damage(kind, done), damage' = "none"
    PROVE  damage = "none" /\ ~done
BY DEF Damage

(* The mutex of a process lets one of its calls at a time between load and *)
(* answer.                                                                 *)
LEMMA AloneInProcess ==
    ASSUME LocksMatchCalls, NEW u \in Updates, NEW v \in Updates, Home[u] = Home[v],
           pc[u] \in Critical, pc[v] \in Critical
    PROVE  u = v
BY DEF LocksMatchCalls

(* A call that is about to write and overwrites nobody holds the document. *)
LEMMA HoldsTheDocument ==
    ASSUME IInv, Intact, NEW u \in Holding,
           ~ \E v \in Document \ loaded[u] : Home[v] # Home[u]
    PROVE  Document = loaded[u] /\ Replacing = {} /\ u \notin Document
<1>1. Document = loaded[u]
  BY DEF Intact, NothingForgotten
<1>2. ASSUME NEW w \in Replacing PROVE FALSE
  <2>1. file = NoFile /\ w \notin loaded[u]
    BY <1>2 DEF Intact, OneReplacement
  <2>2. w \in Document
    BY <1>2, <2>1 DEF Document, NewDocument
  <2> QED
    BY <1>1, <2>1, <2>2
<1>3. u \notin Document
  BY DEF Intact, WrittenOnce, Holding
<1> QED
  BY <1>1, <1>2, <1>3

(* Steps that change neither the file nor who is replacing it.             *)
LEMMA QuietStep ==
    ASSUME IInv, Intact, file' = file, answered' = answered,
           \A u \in Updates : loaded'[u] = loaded[u],
           \A u \in Updates : /\ pc'[u] = "replace" <=> pc[u] = "replace"
                              /\ pc'[u] \in {"save", "rename", "remove"} =>
                                    pc[u] \in {"save", "rename", "remove"}
                              /\ pc'[u] \in Unwritten => pc[u] \in Unwritten
                              /\ pc'[u] = "answer" => pc[u] = "answer",
           file # NoFile \/ \A p \in Processes : process'[p] = "up" => process[p] = "up"
    PROVE  Intact' /\ Document' = Document
<1>1. Replacing' = Replacing
  BY DEF Replacing
<1>2. Document' = Document
  <2>1. \A u \in Replacing : NewDocument(u)' = NewDocument(u)
    BY DEF Replacing, NewDocument
  <2> QED
    BY <1>1, <2>1 DEF Document
<1>3. Holding' \subseteq Holding /\ Holding \subseteq Updates
  BY DEF Holding
<1>4. NothingForgotten'
  BY <1>2, <1>3 DEF Intact, NothingForgotten
<1>5. WrittenOnce'
  BY <1>2 DEF Intact, WrittenOnce, Unwritten
<1>6. OneReplacement'
  BY <1>1, <1>3 DEF Intact, OneReplacement
<1>7. FileThere'
  BY <1>1 DEF Intact, FileThere
<1> QED
  BY <1>2, <1>4, <1>5, <1>6, <1>7 DEF Intact

(* The document gains the update of one call, which held it: whoever else  *)
(* still holds the document of before belongs to another process.          *)
LEMMA GrowingStep ==
    ASSUME IInv, Intact, NEW u \in Holding, pc[u] \in Critical,
           Document' = Document \cup {u}, u \notin Document,
           answered' = answered, loaded' = loaded,
           \A v \in Updates \ {u} : pc'[v] = pc[v],
           pc'[u] \in {"replace", "answer"}
    PROVE  NothingForgotten' /\ WrittenOnce'
<1>1. Holding' = Holding \ {u} /\ Holding \subseteq Updates
  BY DEF Holding
<1>2. ASSUME NEW v \in Holding, v # u PROVE Home[v] # Home[u]
  BY <1>2, AloneInProcess DEF Holding, Critical, Writing, IInv
<1>3. NothingForgotten'
  BY <1>1, <1>2 DEF Intact, NothingForgotten
<1>4. WrittenOnce'
  BY <1>1 DEF Intact, WrittenOnce, Holding
<1> QED
  BY <1>3, <1>4

-----------------------------------------------------------------------------
(* The store and the atomic document, step by step *)

Same == Document' = Document /\ answered' = answered

LEMMA StartIsIntact ==
    ASSUME IInv, NEW p \in Processes, Start(p) \/ Bootstrap(p), damage' = "none"
    PROVE  damage = "none" /\ Intact' /\ Same
<1> USE CallsAreSeparate DEF Same
<1>1. CASE Start(p)
  <2>1. damage = "none" /\ Intact
    BY <1>1 DEF Start, history, IInv
  <2>2. file # NoFile \/ \A q \in Processes : process'[q] = "up" => process[q] = "up"
    BY <1>1 DEF Start, IInv, LocksMatchCalls, TypeOK
  <2>3. file' = file /\ answered' = answered /\ loaded' = loaded /\ pc' = pc
    BY <1>1 DEF Start
  <2> QED
    BY <2>1, <2>2, <2>3, QuietStep
<1>2. CASE Bootstrap(p)
  <2>1. damage = "none" /\ Intact /\ Document = {}
    BY <1>2, DamageIsForGood DEF Bootstrap, IInv
  <2>2. Replacing = {}
    BY <2>1 DEF Intact, OneReplacement, Document, NewDocument
  <2>3. file' = {} /\ file' # NoFile /\ answered' = answered /\ loaded' = loaded /\ pc' = pc
    BY <1>2 DEF Bootstrap
  <2>4. Document' = {} /\ Replacing' = {} /\ Holding' = Holding
    BY <2>2, <2>3 DEF Document, Replacing, Holding
  <2> QED
    BY <2>1, <2>3, <2>4
       DEF Intact, NothingForgotten, WrittenOnce, OneReplacement, FileThere
<1> QED
  BY <1>1, <1>2

LEMMA CallsAreIntact ==
    ASSUME IInv, NEW c \in Calls, Begin(c) \/ (c \in Reads /\ Read(c)), damage' = "none"
    PROVE  damage = "none" /\ Intact' /\ Same
<1> USE CallsAreSeparate DEF Same, Begin, Read, ReadFile, At, Goto, history
<1>1. damage = "none" /\ Intact
  BY DEF IInv
<1>2. /\ file' = file /\ answered' = answered /\ process' = process
      /\ \A u \in Updates : loaded'[u] = loaded[u]
  BY DEF IInv, LocksMatchCalls, TypeOK
<1>3. \A u \in Updates : pc'[u] = pc[u] \/ (pc[u] = "new" /\ pc'[u] = "lock")
  BY DEF IInv, LocksMatchCalls, TypeOK
<1> QED
  BY <1>1, <1>2, <1>3, QuietStep DEF Unwritten

LEMMA CrashIsIntact ==
    ASSUME IInv, NEW p \in Processes, Crash(p), damage' = "none"
    PROVE  damage = "none" /\ Intact' /\ Same
<1> USE CallsAreSeparate DEF Same, Crash
<1>1. damage = "none" /\ Intact /\ ~ \E u \in Replacing : Home[u] = p
  BY DamageIsForGood DEF IInv
<1>2. file' = file /\ answered' = answered /\ loaded' = loaded
  OBVIOUS
<1>3. \A u \in Updates : pc'[u] = pc[u] \/ (pc'[u] = "failed" /\ pc[u] # "replace")
  BY <1>1 DEF Replacing
<1>4. \A q \in Processes : process'[q] = "up" => process[q] = "up"
  BY DEF IInv, LocksMatchCalls, TypeOK
<1> QED
  BY <1>1, <1>2, <1>3, <1>4, QuietStep DEF Unwritten

(* A call moves on towards its write, or gives up before it.               *)
LEMMA MoveIsIntact ==
    ASSUME IInv, Intact, NEW u \in Updates, NEW stage,
           pc' = [pc EXCEPT ![u] = stage],
           <<pc[u], stage>> \in {<<"lock", "load">>, <<"save", "rename">>, <<"rename", "remove">>}
              \/ (pc[u] \in {"load", "save", "remove"} /\ stage = "failed"),
           UNCHANGED <<process, file, loaded, answered>>
    PROVE  Intact' /\ Same
<1>1. pc \in [Calls -> Stages] /\ u \in Calls
  BY CallsAreSeparate DEF IInv, LocksMatchCalls, TypeOK
<1>2. \A v \in Updates :
         \/ pc'[v] = pc[v]
         \/ pc[v] = "lock" /\ pc'[v] = "load"
         \/ pc[v] = "save" /\ pc'[v] = "rename"
         \/ pc[v] = "rename" /\ pc'[v] = "remove"
         \/ pc[v] \in {"load", "save", "remove"} /\ pc'[v] = "failed"
  BY <1>1
<1> QED
  BY <1>2, QuietStep DEF Unwritten, Same

(* The write of a call, in one step or by removing the old file first.     *)
LEMMA WriteApplies ==
    ASSUME IInv, Intact, NEW u \in Updates, NEW stage,
           ~ \E v \in Document \ loaded[u] : Home[v] # Home[u],
           pc' = [pc EXCEPT ![u] = stage],
           UNCHANGED <<loaded, answered>>,
           \/ /\ pc[u] = "rename" /\ stage = "answer"
              /\ file' = NewDocument(u)
           \/ /\ pc[u] = "remove" /\ stage = "replace"
              /\ file' = NoFile
    PROVE  Intact' /\ Abstract!Apply(u)
<1> USE CallsAreSeparate
<1>1. pc \in [Calls -> Stages] /\ loaded[u] \subseteq Updates /\ u \in Calls /\ u \in Holding
      /\ pc[u] \in Critical
  BY DEF IInv, LocksMatchCalls, TypeOK, Holding, Critical, Writing
<1>2. Document = loaded[u] /\ Replacing = {} /\ u \notin Document
  BY <1>1, HoldsTheDocument
<1>3. \A v \in Updates \ {u} : pc'[v] = pc[v]
  BY <1>1
<1>4. pc'[u] = stage /\ NewDocument(u)' = NewDocument(u)
  BY <1>1 DEF NewDocument
<1>5. CASE stage = "answer"
  <2>1. file' = NewDocument(u) /\ file' # NoFile
    BY <1>1, <1>5 DEF NewDocument
  <2>2. Replacing' = {}
    BY <1>2, <1>3, <1>4, <1>5 DEF Replacing
  <2>3. Document' = Document \cup {u}
    BY <1>2, <2>1 DEF Document, NewDocument
  <2>4. NothingForgotten' /\ WrittenOnce'
    BY <1>1, <1>2, <1>3, <1>4, <1>5, <2>3, GrowingStep
  <2> QED
    BY <1>2, <2>1, <2>2, <2>3, <2>4 DEF Intact, OneReplacement, FileThere, Abstract!Apply
<1>6. CASE stage = "replace"
  <2>1. file' = NoFile
    BY <1>6
  <2>2. Replacing' = {u}
    BY <1>2, <1>3, <1>4, <1>6 DEF Replacing
  <2>3. Document' = Document \cup {u}
    BY <1>2, <1>4, <2>1, <2>2 DEF Document, NewDocument
  <2>4. NothingForgotten' /\ WrittenOnce'
    BY <1>1, <1>2, <1>3, <1>4, <1>6, <2>3, GrowingStep
  <2>5. \A v \in Holding' : u \notin loaded'[v]
    BY <1>2, <1>3, <1>4, <1>6 DEF Intact, NothingForgotten, Holding
  <2> QED
    BY <1>2, <2>1, <2>2, <2>3, <2>4, <2>5 DEF Intact, OneReplacement, FileThere, Abstract!Apply
<1> QED
  BY <1>5, <1>6

(* The second rename of the fallback: nothing that the document did not    *)
(* already count as written.                                               *)
LEMMA ReplaceIsIntact ==
    ASSUME IInv, Intact, NEW u \in Updates, pc[u] = "replace",
           pc' = [pc EXCEPT ![u] = "answer"], file' = NewDocument(u),
           UNCHANGED <<process, loaded, answered>>
    PROVE  Intact' /\ Same
<1> USE CallsAreSeparate
<1>1. pc \in [Calls -> Stages] /\ u \in Calls /\ file' # NoFile
  BY DEF IInv, LocksMatchCalls, TypeOK, NewDocument
<1>2. file = NoFile /\ Replacing = {u}
  BY DEF Intact, OneReplacement, Replacing
<1>3. Document = NewDocument(u) /\ Document' = Document
  BY <1>1, <1>2 DEF Document
<1>4. \A v \in Updates \ {u} : pc'[v] = pc[v]
  BY <1>1
<1>5. Replacing' = {} /\ Holding' = Holding /\ pc'[u] = "answer"
  BY <1>1, <1>2, <1>4 DEF Replacing, Holding
<1>6. NothingForgotten'
  BY <1>3, <1>5 DEF Intact, NothingForgotten
<1>7. WrittenOnce'
  BY <1>3, <1>4, <1>5 DEF Intact, WrittenOnce, NewDocument
<1> QED
  BY <1>1, <1>3, <1>5, <1>6, <1>7 DEF Intact, OneReplacement, FileThere, Same

LEMMA UpdateIsIntact ==
    ASSUME IInv, NEW u \in Updates, UpdateStep(u), damage' = "none"
    PROVE  damage = "none" /\ Intact' /\ (Same \/ Abstract!Apply(u) \/ Abstract!Answer(u))
<1> USE DEF At, Goto, history
<1> DEFINE Overwrites == \E v \in Document \ loaded[u] : Home[v] # Home[u]
<1>1. CASE Lock(u)
  <2>1. damage = "none" /\ Intact
    BY <1>1 DEF Lock, IInv
  <2> QED
    BY <1>1, <2>1, MoveIsIntact DEF Lock
<1>2. CASE WriteTemp(u)
  <2>1. damage = "none" /\ Intact
    BY <1>2 DEF WriteTemp, IInv
  <2> QED
    BY <1>2, <2>1, MoveIsIntact DEF WriteTemp, FailWith
<1>3. CASE Load(u)
  <2>1. damage = "none" /\ Intact
    BY <1>3 DEF Load, IInv
  <2>2. CASE UNCHANGED loaded /\ pc' = [pc EXCEPT ![u] = "failed"]
    BY <1>3, <2>1, <2>2, MoveIsIntact DEF Load
  <2>3. CASE /\ file # NoFile
             /\ loaded' = [loaded EXCEPT ![u] = file]
             /\ pc' = [pc EXCEPT ![u] = "save"]
    <3>1. /\ pc \in [Calls -> Stages] /\ loaded \in [Calls -> SUBSET Updates] /\ u \in Calls
          /\ pc[u] = "load" /\ file' = file /\ answered' = answered /\ process' = process
      BY <1>3, CallsAreSeparate DEF Load, IInv, LocksMatchCalls, TypeOK
    <3>2. Replacing = {} /\ Replacing' = {} /\ Document = file /\ Document' = file
      <4>1. Replacing = {}
        BY <2>1, <2>3 DEF Intact, OneReplacement, Replacing
      <4>2. Replacing' = {}
        BY <2>3, <3>1, <4>1 DEF Replacing
      <4> QED
        BY <2>3, <3>1, <4>1, <4>2 DEF Document
    <3>3. Holding' = Holding \cup {u} /\ loaded'[u] = Document
      BY <2>3, <3>1, <3>2 DEF Holding
    <3>4. \A v \in Updates \ {u} : loaded'[v] = loaded[v] /\ pc'[v] = pc[v]
      BY <2>3, <3>1, CallsAreSeparate
    <3>5. NothingForgotten'
      BY <2>1, <3>2, <3>3, <3>4 DEF Intact, NothingForgotten, Holding
    <3>6. WrittenOnce'
      BY <2>1, <2>3, <3>1, <3>2, <3>4 DEF Intact, WrittenOnce
    <3> QED
      BY <2>1, <2>3, <3>1, <3>2, <3>5, <3>6 DEF Intact, OneReplacement, FileThere, Same
  <2> QED
    BY <1>3, <2>2, <2>3 DEF Load, FailWith
<1>4. CASE Rename(u)
  <2>1. CASE pc' = [pc EXCEPT ![u] = "remove"] /\ UNCHANGED <<file, writer, damage>>
    BY <1>4, <2>1, MoveIsIntact DEF Rename, IInv
  <2>2. CASE /\ file' = NewDocument(u) /\ Saves(u)
             /\ pc' = [pc EXCEPT ![u] = "answer"]
    <3>1. damage = "none" /\ Intact /\ ~Overwrites
      BY <2>2, DamageIsForGood DEF Saves, IInv
    <3> QED
      BY <1>4, <2>2, <3>1, WriteApplies DEF Rename
  <2> QED
    BY <1>4, <2>1, <2>2 DEF Rename
<1>5. CASE RemoveOld(u)
  <2>1. CASE pc' = [pc EXCEPT ![u] = "failed"] /\ UNCHANGED <<file, damage>>
    BY <1>5, <2>1, MoveIsIntact DEF RemoveOld, IInv
  <2>2. CASE file' = NoFile /\ Saves(u) /\ pc' = [pc EXCEPT ![u] = "replace"]
    <3>1. damage = "none" /\ Intact /\ ~Overwrites
      BY <2>2, DamageIsForGood DEF Saves, IInv
    <3> QED
      BY <1>5, <2>2, <3>1, WriteApplies DEF RemoveOld
  <2> QED
    BY <1>5, <2>1, <2>2 DEF RemoveOld, FailWith
<1>6. CASE Replace(u)
  <2>1. ~Damage("dropped", TRUE)
    BY DEF Damage
  <2>2. file' = NewDocument(u) /\ Saves(u) /\ pc' = [pc EXCEPT ![u] = "answer"]
    BY <1>6, <2>1 DEF Replace
  <2>3. damage = "none" /\ Intact
    BY <2>2, DamageIsForGood DEF Saves, IInv
  <2> QED
    BY <1>6, <2>2, <2>3, ReplaceIsIntact DEF Replace
<1>7. CASE Answer(u)
  <2>1. /\ damage = "none" /\ Intact /\ u \in Document /\ u \in Calls /\ pc \in [Calls -> Stages]
        /\ pc[u] = "answer" /\ pc' = [pc EXCEPT ![u] = "answered"]
        /\ answered' = answered \cup {u} /\ file' = file /\ loaded' = loaded
        /\ process' = process
    BY <1>7, CallsAreSeparate DEF Answer, IInv, LocksMatchCalls, TypeOK, Intact, WrittenOnce
  <2>2. pc'[u] = "answered" /\ \A v \in Updates \ {u} : pc'[v] = pc[v]
    BY <2>1
  <2>3. Replacing' = Replacing /\ Holding' = Holding
    BY <2>1, <2>2 DEF Replacing, Holding
  <2>4. Document' = Document
    BY <2>1, <2>3 DEF Document, NewDocument
  <2>5. WrittenOnce'
    BY <2>1, <2>2, <2>4 DEF Intact, WrittenOnce
  <2> QED
    BY <2>1, <2>3, <2>4, <2>5
       DEF Intact, NothingForgotten, OneReplacement, FileThere, Abstract!Answer
<1> QED
  BY <1>1, <1>2, <1>3, <1>4, <1>5, <1>6, <1>7 DEF UpdateStep

(* Every step, as long as nothing was undone: the store stays intact and   *)
(* the atomic document takes a step or none.                               *)
LEMMA StepIsIntact ==
    ASSUME IInv, [Next]_vars, damage' = "none"
    PROVE  damage = "none" /\ Intact' /\ (Same \/ Abstract!Next)
<1>1. CASE \E p \in Processes : Start(p) \/ Bootstrap(p) \/ Crash(p)
  BY <1>1, StartIsIntact, CrashIsIntact
<1>2. CASE \E c \in Calls : Begin(c)
  BY <1>2, CallsAreIntact
<1>3. CASE \E u \in Updates : UpdateStep(u)
  BY <1>3, UpdateIsIntact DEF Abstract!Next
<1>4. CASE \E r \in Reads : Read(r)
  BY <1>4, CallsAreIntact, CallsAreSeparate
<1>5. CASE UNCHANGED vars
  <2>1. damage = "none" /\ Intact
    BY <1>5 DEF vars, history, IInv
  <2>2. Document' = Document /\ Holding' = Holding /\ Replacing' = Replacing
    BY <1>5 DEF vars, Document, Holding, Replacing, NewDocument
  <2> QED
    BY <1>5, <2>1, <2>2 DEF vars, Same, Intact, NothingForgotten, WrittenOnce,
                            OneReplacement, FileThere
<1> QED
  BY <1>1, <1>2, <1>3, <1>4, <1>5 DEF Next

-----------------------------------------------------------------------------
(* Reads *)

LEMMA LocksKept == LocksMatchCalls /\ [Next]_vars => LocksMatchCalls'
<1> SUFFICES ASSUME LocksMatchCalls, [Next]_vars PROVE LocksMatchCalls'
  OBVIOUS
<1>1. CASE UNCHANGED vars
  BY <1>1 DEF vars, history, LocksMatchCalls, TypeOK
<1> QED
  BY <1>1, StartsKeepLocks, CallsKeepLocks, UpdatesKeepLocks, CrashKeepsLocks, CallsAreSeparate
     DEF Next

LEMMA RequiredKept ==
    ASSUME IInv, [Next]_vars
    PROVE  /\ answered \subseteq answered'
           /\ \A r \in Reads : required'[r] \subseteq answered'
<1>1. CASE \E p \in Processes : Start(p) \/ Bootstrap(p) \/ Crash(p)
  BY <1>1 DEF Start, Bootstrap, Crash, history, IInv
<1>2. CASE \E c \in Calls : Begin(c)
  BY <1>2 DEF Begin, IInv
<1>3. CASE \E u \in Updates : UpdateStep(u)
  BY <1>3 DEF UpdateStep, Lock, Load, WriteTemp, Rename, RemoveOld, Replace, Answer,
              history, IInv
<1>4. CASE \E r \in Reads : Read(r)
  BY <1>4 DEF Read, ReadFile, history, IInv
<1>5. CASE UNCHANGED vars
  BY <1>5 DEF vars, history, IInv
<1> QED
  BY <1>1, <1>2, <1>3, <1>4, <1>5 DEF Next

(* A read that returns has the file in front of it, not the gap a fallback *)
(* of its own process leaves.                                              *)
LEMMA ReadIsCurrent ==
    ASSUME IInv, Intact, NEW r \in Reads, Read(r)
    PROVE  pc'[r] # "missing" /\ (pc'[r] = "answered" => required[r] \subseteq loaded'[r])
<1> USE CallsAreSeparate DEF Read, At, Goto
<1>1. /\ pc \in [Calls -> Stages] /\ loaded \in [Calls -> SUBSET Updates] /\ r \in Calls
      /\ process[Home[r]] = "up" /\ writer[Home[r]] = NoCall
  BY DEF IInv, LocksMatchCalls, TypeOK, Free
<1>2. CASE file # NoFile
  <2>1. loaded'[r] = file /\ pc'[r] = "answered" /\ Document = file
    BY <1>1, <1>2 DEF ReadFile, Document
  <2> QED
    BY <2>1 DEF Intact, WrittenOnce, IInv
<1>3. CASE file = NoFile
  <2>1. PICK u \in Replacing : TRUE
    BY <1>1, <1>3 DEF Intact, FileThere
  <2>2. Home[u] # Home[r]
    BY <1>1, <2>1 DEF Replacing, IInv, LocksMatchCalls, Writing
  <2>3. pc'[r] = "failed"
    BY <1>1, <1>3, <2>1, <2>2 DEF ReadFile
  <2> QED
    BY <2>3
<1> QED
  BY <1>2, <1>3

(* Other steps leave a read that has returned alone.                       *)
LEMMA ReadsKept ==
    ASSUME IInv, [Next]_vars, NEW r \in Reads, ~Read(r)
    PROVE  /\ pc'[r] = "missing" => pc[r] = "missing"
           /\ pc'[r] = "answered" => /\ pc[r] = "answered" /\ loaded'[r] = loaded[r]
                                     /\ required'[r] = required[r]
<1> USE CallsAreSeparate DEF Goto, history
<1>1. /\ pc \in [Calls -> Stages] /\ loaded \in [Calls -> SUBSET Updates] /\ r \in Calls
      /\ required \in [Reads -> SUBSET Updates]
  BY DEF IInv, LocksMatchCalls, TypeOK
<1>2. CASE \E p \in Processes : Start(p) \/ Bootstrap(p) \/ Crash(p)
  BY <1>1, <1>2 DEF Start, Bootstrap, Crash
<1>3. CASE \E c \in Calls : Begin(c)
  BY <1>1, <1>3 DEF Begin, At
<1>4. ASSUME NEW u \in Updates, UpdateStep(u)
      PROVE  pc'[r] = pc[r] /\ loaded'[r] = loaded[r] /\ required' = required
  BY <1>1, <1>4
     DEF UpdateStep, Lock, Load, WriteTemp, Rename, RemoveOld, Replace, Answer, FailWith
<1>5. CASE \E q \in Reads : Read(q)
  BY <1>1, <1>5 DEF Read, ReadFile
<1>6. CASE UNCHANGED vars
  BY <1>6 DEF vars
<1> QED
  BY <1>2, <1>3, <1>4, <1>5, <1>6 DEF Next

LEMMA StepKeeps == IInv /\ [Next]_vars => IInv'
<1> SUFFICES ASSUME IInv, [Next]_vars PROVE IInv'
  OBVIOUS
<1>1. ASSUME damage' = "none", NEW r \in Reads
      PROVE  pc'[r] # "missing" /\ (pc'[r] = "answered" => required'[r] \subseteq loaded'[r])
  <2>1. damage = "none" /\ Intact
    BY <1>1, StepIsIntact DEF IInv
  <2>2. CASE Read(r)
    BY <2>1, <2>2, ReadIsCurrent DEF Read, ReadFile, history
  <2>3. CASE ~Read(r)
    BY <2>1, <2>3, ReadsKept DEF IInv, ReadsCurrent
  <2> QED
    BY <2>2, <2>3
<1>2. ReadsCurrent'
  BY <1>1 DEF ReadsCurrent
<1> QED
  BY <1>2, LocksKept, RequiredKept, StepIsIntact DEF IInv

-----------------------------------------------------------------------------
(* The inductive invariant: the locks, what the document contains at each  *)
(* stage of each call, and what the reads have seen.                       *)
THEOREM Invariance == Spec => []IInv
BY Initially, StepKeeps, PTL DEF Spec

(* Manager.mu and the write side of FileRepository.mu are held exactly by  *)
(* the calls between their load and their return, on every error path and  *)
(* after every crash: no two calls of a process change the state at once.  *)
THEOREM LocksMatchCallsAlways == Spec => []LocksMatchCalls
<1>1. IInv => LocksMatchCalls
  BY DEF IInv
<1> QED
  BY <1>1, Invariance, PTL

(* A read of LoadPolicyState returns every update answered before it       *)
(* began, and never misses a file that its own process is replacing.       *)
THEOREM ReadsCurrentHolds == Spec => []ReadsCurrent
<1>1. IInv => ReadsCurrent
  BY DEF IInv
<1> QED
  BY <1>1, Invariance, PTL

(* Until a fallback drops the file or one process overwrites another's     *)
(* update, Manager.update, the two locks and writeJSON together implement  *)
(* an atomic document, for any number of processes and calls.              *)
THEOREM ImplementsAtomicDocument == Spec => AtomicUnlessDamaged
<1>1. Init => Abstract!Init
  BY InitiallyEmpty DEF Init, Abstract!Init
<1>2. IInv /\ [Next]_vars =>
         [Abstract!Next \/ damage' # "none"]_<<Document, answered>>
  BY StepIsIntact DEF Same
<1> QED
  BY <1>1, <1>2, Invariance, PTL DEF Spec, AtomicUnlessDamaged

=============================================================================
