------------------------ MODULE MemoryLearningProofs -------------------------
(***************************************************************************)
(* Machine-checked proofs about MemoryLearning, for every number of        *)
(* requests and campaigns, every content and every capacity of a profile:  *)
(* no memory without its source, no fact lost but to newer ones, no record *)
(* that lists what was not learned, and no run that is advised otherwise   *)
(* than the merchant last said.  The last one adds to the invariant what   *)
(* memories are about and that torn ones stay away (AdviceInv); it needs   *)
(* of the analyzer which memory it selects for an action (SelectedIs) and  *)
(* that its sort only moves actions (Reordered).                           *)
(***************************************************************************)
EXTENDS MemoryLearning, SequenceTheorems, FiniteSetTheorems, TLAPS

-----------------------------------------------------------------------------
(* The inductive invariant *)

(* Whoever reads, merges and replaces the profile holds the mutex, so what *)
(* it has read is still the profile when it saves.                         *)
ProfileOwned ==
    \A f \in Feedbacks :
        /\ pc[f] \in {"load", "save", "replace"} <=> mutex = f
        /\ pc[f] \in {"save", "replace"} => loaded[f] = profile

(* The stages before the facts of a request are saved.                     *)
Unlearned == {"new", "record", "rejected", "lock", "load", "save", "replace"}

(* A fact is learned only in its turn, and after its source was recorded.  *)
LearnedInTurn ==
    /\ \A f \in Feedbacks :
        /\ pc[f] = "new" => record[f] = "none"
        /\ pc[f] \in {"lock", "load", "save", "replace", "annotate", "reannotate"}
              => record[f] # "none"
        /\ pc[f] \in {"annotate", "reannotate"} => Range(FactsOf(f)) \subseteq learned
    /\ \A fact \in learned :
        /\ pc[fact.feedback] \notin Unlearned
        /\ record[fact.feedback] # "none" \/ fact.feedback \in dropped

(* Newest first; and a fact that was saved, is gone and was not torn away  *)
(* was pushed out of a full profile, which only ever holds facts at least  *)
(* as new from then on.                                                    *)
PushedOutByNewer ==
    /\ \A i, j \in DOMAIN profile : i < j => profile[i].updated >= profile[j].updated
    /\ \A fact \in learned \ (lost \cup Range(profile)) :
        /\ Len(profile) = Capacity
        /\ \A i \in DOMAIN profile : profile[i].updated >= fact.updated

IInv ==
    /\ TypeOK
    /\ ProfileOwned
    /\ LearnedInTurn
    /\ PushedOutByNewer
    /\ RecordsTruthful

-----------------------------------------------------------------------------
(* Facts about sequences *)

(* The elements of a concatenation.                                        *)
LEMMA ConcatElements ==
    ASSUME NEW S, NEW s \in Seq(S), NEW t \in Seq(S)
    PROVE  /\ s \o t \in Seq(S)
           /\ Len(s \o t) = Len(s) + Len(t)
           /\ \A i \in 1 .. Len(s) : (s \o t)[i] = s[i]
           /\ \A i \in 1 .. Len(t) : (s \o t)[Len(s) + i] = t[i]
           /\ Range(s \o t) = Range(s) \cup Range(t)
<1>1. /\ s \o t \in Seq(S) /\ Len(s \o t) = Len(s) + Len(t)
      /\ \A i \in 1 .. Len(s) : (s \o t)[i] = s[i]
      /\ \A i \in 1 .. Len(t) : (s \o t)[Len(s) + i] = t[i]
      /\ Len(s) \in Nat /\ Len(t) \in Nat
  OBVIOUS
<1>2. /\ DOMAIN s = 1 .. Len(s) /\ DOMAIN t = 1 .. Len(t)
      /\ DOMAIN (s \o t) = 1 .. Len(s) + Len(t)
  OBVIOUS
<1>3. \A i \in 1 .. Len(s) + Len(t) : i \in 1 .. Len(s) \/ i - Len(s) \in 1 .. Len(t)
  BY <1>1
<1>4. \A i \in 1 .. Len(t) : Len(s) + i \in 1 .. Len(s) + Len(t)
  BY <1>1
<1>5. \A i \in 1 .. Len(s) : i \in 1 .. Len(s) + Len(t)
  BY <1>1
<1> DEFINE c == s \o t
<1>6. \A i \in DOMAIN c : c[i] \in Range(s) \cup Range(t)
  <2> SUFFICES ASSUME NEW i \in DOMAIN c PROVE c[i] \in Range(s) \cup Range(t)
    OBVIOUS
  <2>1. CASE i \in 1 .. Len(s)
    BY <1>1, <1>2, <2>1 DEF Range
  <2>2. CASE i - Len(s) \in 1 .. Len(t)
    <3>1. c[Len(s) + (i - Len(s))] = t[i - Len(s)] /\ Len(s) + (i - Len(s)) = i
      BY <1>1, <1>2, <2>2
    <3> QED
      BY <1>2, <2>2, <3>1 DEF Range
  <2> QED
    BY <1>2, <1>3, <2>1, <2>2
<1>7. Range(s) \subseteq Range(c) /\ Range(t) \subseteq Range(c)
  BY <1>1, <1>2, <1>4, <1>5 DEF Range
<1>8. Range(c) \subseteq Range(s) \cup Range(t)
  BY <1>6 DEF Range
<1> QED
  BY <1>1, <1>7, <1>8

(* Sequences without repetition that share nothing can be concatenated.    *)
LEMMA ConcatInjective ==
    ASSUME NEW S, NEW s \in Seq(S), NEW t \in Seq(S), IsInjective(s), IsInjective(t),
           Range(s) \cap Range(t) = {}
    PROVE  IsInjective(s \o t)
<1> DEFINE c == s \o t
<1> SUFFICES ASSUME NEW i \in DOMAIN c, NEW j \in DOMAIN c, c[i] = c[j] PROVE i = j
  BY DEF IsInjective
<1>1. /\ Len(s) \in Nat /\ Len(t) \in Nat
      /\ DOMAIN s = 1 .. Len(s) /\ DOMAIN t = 1 .. Len(t) /\ DOMAIN c = 1 .. Len(s) + Len(t)
  BY ConcatElements
<1>2. \A k \in 1 .. Len(s) : c[k] = s[k] /\ c[k] \in Range(s)
  BY <1>1, ConcatElements DEF Range
<1>3. \A k \in DOMAIN c : k \notin 1 .. Len(s) =>
         k - Len(s) \in 1 .. Len(t) /\ c[k] = t[k - Len(s)] /\ c[k] \in Range(t)
  <2> SUFFICES ASSUME NEW k \in DOMAIN c, k \notin 1 .. Len(s)
               PROVE  k - Len(s) \in 1 .. Len(t) /\ c[k] = t[k - Len(s)] /\ c[k] \in Range(t)
    OBVIOUS
  <2>1. k - Len(s) \in 1 .. Len(t) /\ Len(s) + (k - Len(s)) = k
    BY <1>1
  <2>2. c[Len(s) + (k - Len(s))] = t[k - Len(s)]
    BY <2>1, ConcatElements
  <2> QED
    BY <1>1, <2>1, <2>2 DEF Range
<1>4. CASE i \in 1 .. Len(s) /\ j \in 1 .. Len(s)
  BY <1>1, <1>2, <1>4 DEF IsInjective
<1>5. CASE i \notin 1 .. Len(s) /\ j \notin 1 .. Len(s)
  <2>1. i - Len(s) = j - Len(s)
    BY <1>1, <1>3, <1>5 DEF IsInjective
  <2> QED
    BY <1>1, <2>1
<1>6. CASE ~(i \in 1 .. Len(s) <=> j \in 1 .. Len(s))
  BY <1>2, <1>3, <1>6
<1> QED
  BY <1>4, <1>5, <1>6

(* A part of a sequence has its elements.                                  *)
LEMMA PartElements ==
    ASSUME NEW S, NEW s \in Seq(S), NEW m \in 1 .. Len(s) + 1, NEW n \in m - 1 .. Len(s)
    PROVE  /\ SubSeq(s, m, n) \in Seq(S)
           /\ Len(SubSeq(s, m, n)) = n - m + 1
           /\ \A i \in 1 .. n - m + 1 : SubSeq(s, m, n)[i] = s[m + i - 1]
<1>1. Len(s) \in Nat /\ DOMAIN s = 1 .. Len(s)
  OBVIOUS
<1>2. \A i \in m .. n : s[i] \in S
  BY <1>1, ElementOfSeq
<1> QED
  BY <1>1, <1>2, SubSeqProperties

-----------------------------------------------------------------------------
(* Arrangements *)

(* A set of natural numbers has a smallest one.                            *)
LEMMA Smallest ==
    ASSUME NEW S \in SUBSET Nat, S # {}
    PROVE  \E m \in S : \A k \in S : m <= k
<1> DEFINE R == StrictSubsetOrdering(Nat)
           T == {1 .. n : n \in S}
<1>1. IsWellFoundedOn(R, FiniteSubsetsOf(Nat))
  BY FS_StrictSubsetOrderingWellFounded
<1>2. \A n \in Nat : 1 .. n \in FiniteSubsetsOf(Nat)
  BY FS_Interval DEF FiniteSubsetsOf
<1>3. T # {} /\ T \subseteq FiniteSubsetsOf(Nat)
  BY <1>2
<1> HIDE DEF T, R
<1>4. PICK x \in T : \A y \in T : ~(<<y, x>> \in R)
  BY <1>1, <1>3, WFMin, Zenon
<1>5. PICK m \in S : x = 1 .. m
  BY DEF T
<1>6. ASSUME NEW k \in S, k < m PROVE FALSE
  <2>1. 1 .. k \in T
    BY DEF T
  <2>2. (1 .. k) \subseteq (1 .. m) /\ (1 .. k) # (1 .. m)
    BY <1>6
  <2>3. <<1 .. k, x>> \in R
    BY <2>2, <1>5 DEF R, StrictSubsetOrdering
  <2> QED BY <2>1, <2>3, <1>4
<1> QED BY <1>6

(* The least element is what Min chooses.                                   *)
LEMMA MinIs ==
    ASSUME NEW S \in SUBSET Nat, S # {}
    PROVE  Min(S) \in S /\ \A k \in S : Min(S) <= k
<1>1. \E m \in S : \A k \in S : m <= k
  BY Smallest
<1> QED BY <1>1 DEF Min

(* R orders S, and orders no member before itself.                        *)
StrictOrder(S, R) ==
    /\ \A k \in S : <<k, k>> \notin R
    /\ \A j, k \in S : j # k => <<j, k>> \in R \/ <<k, j>> \in R
    /\ \A i, j, k \in S : <<i, j>> \in R /\ <<j, k>> \in R => <<i, k>> \in R

(* A list of all members of S, none twice, in the order of R.              *)
InOrder(a, S, R) ==
    /\ Cardinality(S) \in Nat
    /\ a \in [1 .. Cardinality(S) -> S]
    /\ \A p, q \in 1 .. Cardinality(S) : p < q => <<a[p], a[q]>> \in R
    /\ \A p, q \in 1 .. Cardinality(S) : p # q => a[p] # a[q]
    /\ \A k \in S : \E p \in 1 .. Cardinality(S) : a[p] = k

(* As many places as there are members, and no two members with as many    *)
(* others before them.                                                     *)
LEMMA Arrangement ==
    ASSUME NEW S, IsFiniteSet(S), NEW R, StrictOrder(S, R)
    PROVE  InOrder(Arranged(S, R), S, R)
<1> DEFINE n == Cardinality(S)
           Before(k) == {j \in S : <<j, k>> \in R}
           rank == [k \in S |-> Cardinality(Before(k))]
<1>1. n \in Nat
  BY FS_CardinalityType
<1>2. \A k \in S : IsFiniteSet(Before(k)) /\ rank[k] \in Nat /\ rank[k] < n
  <2> TAKE k \in S
  <2>1. Before(k) \subseteq S /\ k \notin Before(k)
    BY DEF StrictOrder
  <2> HIDE DEF Before
  <2>2. /\ IsFiniteSet(Before(k)) /\ Cardinality(Before(k)) <= n
        /\ n = Cardinality(Before(k)) => S = Before(k)
    BY <2>1, FS_Subset
  <2>3. Cardinality(Before(k)) \in Nat
    BY <2>2, FS_CardinalityType
  <2>4. Cardinality(Before(k)) < n
    <3> HIDE DEF n
    <3> QED BY <1>1, <2>1, <2>2, <2>3
  <2> QED BY <2>2, <2>3, <2>4
<1>3. \A j, k \in S : <<j, k>> \in R => rank[j] < rank[k]
  <2> TAKE j, k \in S
  <2> HAVE <<j, k>> \in R
  <2>1. Before(j) \subseteq Before(k) /\ j \in Before(k) /\ j \notin Before(j)
    BY DEF StrictOrder
  <2> HIDE DEF Before
  <2>2. IsFiniteSet(Before(k)) /\ Cardinality(Before(k)) \in Nat /\ Cardinality(Before(j)) \in Nat
    BY <1>2
  <2>3. /\ Cardinality(Before(j)) <= Cardinality(Before(k))
        /\ Cardinality(Before(k)) = Cardinality(Before(j)) => Before(k) = Before(j)
    BY <2>1, <2>2, FS_Subset
  <2>4. Cardinality(Before(j)) < Cardinality(Before(k))
    BY <2>1, <2>2, <2>3
  <2> QED BY <2>4
<1>4. \A j, k \in S : j # k => rank[j] # rank[k]
  <2> TAKE j, k \in S
  <2> HAVE j # k
  <2>1. rank[j] < rank[k] \/ rank[k] < rank[j]
    BY <1>3 DEF StrictOrder
  <2> QED BY <2>1, <1>2
<1>5. \A p \in 1 .. n : \E k \in S : rank[k] = p - 1
  <2>1. rank \in Injection(S, 0 .. n - 1)
    <3>1. DOMAIN rank = S
      OBVIOUS
    <3>2. \A k \in S : rank[k] \in 0 .. n - 1
      <4> HIDE DEF rank, n, Before
      <4> TAKE k \in S
      <4>1. rank[k] \in Nat /\ rank[k] < n
        BY <1>2
      <4> QED BY <1>1, <4>1
    <3>3. rank \in [S -> 0 .. n - 1]
      BY <3>2
    <3> HIDE DEF rank, n
    <3> QED BY <3>1, <3>3, <1>4 DEF Injection, IsInjective
  <2>2. IsFiniteSet(0 .. n - 1) /\ Cardinality(0 .. n - 1) = n
    BY <1>1, FS_Interval
  <2>3. rank \in Surjection(S, 0 .. n - 1)
    <3> HIDE DEF rank
    <3> QED BY <2>1, <2>2, FS_Injection
  <2> TAKE p \in 1 .. n
  <2>4. p - 1 \in 0 .. n - 1
    BY <1>1
  <2> HIDE DEF rank, n
  <2> QED BY <2>3, <2>4 DEF Surjection
<1> HIDE DEF n
<1>6. \A p \in 1 .. n : Arranged(S, R)[p] \in S /\ rank[Arranged(S, R)[p]] = p - 1
  <2> TAKE p \in 1 .. n
  <2>1. Arranged(S, R)[p] = CHOOSE k \in S : Cardinality(Before(k)) = p - 1
    BY DEF Arranged, n
  <2>2. \E k \in S : Cardinality(Before(k)) = p - 1
    BY <1>5
  <2>3. Arranged(S, R)[p] \in S /\ Cardinality(Before(Arranged(S, R)[p])) = p - 1
    <3> HIDE DEF Before
    <3> QED BY <2>1, <2>2
  <2> QED BY <2>3
<1>7. Arranged(S, R) \in [1 .. n -> S]
  BY <1>6 DEF Arranged, n
<1> DEFINE a == Arranged(S, R)
<1> HIDE DEF a, rank
<1>8. \A p, q \in 1 .. n : p < q => <<a[p], a[q]>> \in R
  <2> TAKE p, q \in 1 .. n
  <2> HAVE p < q
  <2>1. a[p] \in S /\ a[q] \in S /\ rank[a[p]] = p - 1 /\ rank[a[q]] = q - 1
    BY <1>6 DEF a
  <2>2. a[p] # a[q] /\ ~(rank[a[q]] < rank[a[p]])
    BY <2>1, <1>1
  <2> QED BY <2>1, <2>2, <1>3 DEF StrictOrder
<1>9. \A p, q \in 1 .. n : p # q => a[p] # a[q]
  BY <1>6, <1>1 DEF a
<1>10. \A k \in S : \E p \in 1 .. n : a[p] = k
  <2> TAKE k \in S
  <2>1. rank[k] \in Nat /\ rank[k] < n
    BY <1>2 DEF rank
  <2>2. rank[k] + 1 \in 1 .. n /\ (rank[k] + 1) - 1 = rank[k]
    BY <2>1, <1>1
  <2>3. a[rank[k] + 1] = k
    BY <2>2, <1>6, <1>4 DEF a
  <2> QED BY <2>2, <2>3
<1> QED BY <1>1, <1>7, <1>8, <1>9, <1>10 DEF InOrder, n, a

(* The members of a set of numbers, smallest first.                        *)
Rising(a, S) ==
    /\ Cardinality(S) \in Nat
    /\ a \in [1 .. Cardinality(S) -> S]
    /\ \A p, q \in 1 .. Cardinality(S) : p < q => a[p] < a[q]
    /\ \A k \in S : \E p \in 1 .. Cardinality(S) : a[p] = k

(* Ascending lists a set of numbers in their order.                         *)
LEMMA AscendingRises ==
    ASSUME NEW S \in SUBSET Int, IsFiniteSet(S)
    PROVE  Rising(Ascending(S), S)
<1> DEFINE R == {e \in S \X S : e[1] < e[2]}
<1>1. \A j, k \in S : <<j, k>> \in R <=> j < k
  <2> TAKE j, k \in S
  <2>1. <<j, k>> \in S \X S /\ <<j, k>>[1] = j /\ <<j, k>>[2] = k
    OBVIOUS
  <2> QED BY <2>1
<1> HIDE DEF R
<1>2. \A k \in S : k \in Int
  OBVIOUS
<1>3. StrictOrder(S, R)
  BY <1>1, <1>2 DEF StrictOrder
<1>4. InOrder(Arranged(S, R), S, R)
  BY <1>3, Arrangement
<1>5. Ascending(S) = Arranged(S, R)
  BY DEF Ascending, R
<1> DEFINE a == Arranged(S, R)
           n == Cardinality(S)
<1> HIDE DEF a, n
<1>6. /\ n \in Nat /\ a \in [1 .. n -> S]
      /\ \A p, q \in 1 .. n : p < q => <<a[p], a[q]>> \in R
      /\ \A k \in S : \E p \in 1 .. n : a[p] = k
  BY <1>4 DEF InOrder, a, n
<1>7. \A p, q \in 1 .. n : p < q => a[p] < a[q]
  BY <1>1, <1>6
<1> QED BY <1>5, <1>6, <1>7 DEF Rising, a, n

(* The places of a list, the highest key first.                            *)
Falling(a, key) ==
    /\ Cardinality(DOMAIN key) \in Nat
    /\ a \in [1 .. Cardinality(DOMAIN key) -> DOMAIN key]
    /\ \A p, q \in 1 .. Cardinality(DOMAIN key) : p < q => key[a[p]] >= key[a[q]]
    /\ \A p, q \in 1 .. Cardinality(DOMAIN key) : p # q => a[p] # a[q]
    /\ \A k \in DOMAIN key : \E p \in 1 .. Cardinality(DOMAIN key) : a[p] = k

(* Descending lists places by falling key, every one once.                  *)
LEMMA DescendingFalls ==
    ASSUME NEW S \in SUBSET Int, IsFiniteSet(S), NEW key \in [S -> Nat]
    PROVE  Falling(Descending(key), key)
<1> DEFINE R == {e \in S \X S :
                    key[e[1]] > key[e[2]] \/ (key[e[1]] = key[e[2]] /\ e[1] < e[2])}
<1>1. \A j, k \in S : <<j, k>> \in R <=> key[j] > key[k] \/ (key[j] = key[k] /\ j < k)
  <2> TAKE j, k \in S
  <2>1. <<j, k>> \in S \X S /\ <<j, k>>[1] = j /\ <<j, k>>[2] = k
    OBVIOUS
  <2> QED BY <2>1
<1>2. Descending(key) = Arranged(S, R) /\ DOMAIN key = S
  BY DEF Descending
<1> HIDE DEF R
<1>3. \A k \in S : k \in Int /\ key[k] \in Nat
  OBVIOUS
<1>4. StrictOrder(S, R)
  BY <1>1, <1>3 DEF StrictOrder
<1>5. InOrder(Arranged(S, R), S, R)
  BY <1>4, Arrangement
<1> DEFINE a == Arranged(S, R)
           n == Cardinality(S)
<1> HIDE DEF a, n
<1>6. /\ n \in Nat /\ a \in [1 .. n -> S]
      /\ \A p, q \in 1 .. n : p < q => <<a[p], a[q]>> \in R
      /\ \A p, q \in 1 .. n : p # q => a[p] # a[q]
      /\ \A k \in S : \E p \in 1 .. n : a[p] = k
  BY <1>5 DEF InOrder, a, n
<1>7. \A p, q \in 1 .. n : p < q => key[a[p]] >= key[a[q]]
  <2> TAKE p, q \in 1 .. n
  <2> HAVE p < q
  <2>1. a[p] \in S /\ a[q] \in S /\ <<a[p], a[q]>> \in R
    BY <1>6
  <2>2. key[a[p]] > key[a[q]] \/ key[a[p]] = key[a[q]]
    BY <1>1, <2>1
  <2>3. key[a[p]] \in Nat /\ key[a[q]] \in Nat
    BY <1>3, <2>1
  <2> QED BY <2>2, <2>3
<1> QED BY <1>2, <1>6, <1>7 DEF Falling, a, n

(* What ElementsAt makes of a list and n places in it.                     *)
Taken(new, list, places, n, E) ==
    /\ new \in Seq(E) /\ Len(new) = n
    /\ \A p \in 1 .. n : new[p] = list[places[p]]

(* What a list has at given places.                                         *)
LEMMA AtPlaces ==
    ASSUME NEW D, NEW E, NEW list \in [D -> E], NEW n \in Nat, NEW places \in [1 .. n -> D]
    PROVE  Taken(ElementsAt(list, places), list, places, n, E)
<1> DEFINE f == [p \in DOMAIN places |-> list[places[p]]]
<1>1. f \in [1 .. n -> E]
  OBVIOUS
<1>2. f \in Seq(E) /\ Len(f) = n
  <2> HIDE DEF f
  <2> QED BY <1>1
<1>3. f \o <<>> = f
  <2> HIDE DEF f
  <2> QED BY <1>2
<1>4. ElementsAt(list, places) = f
  BY <1>3 DEF ElementsAt
<1> QED BY <1>2, <1>4 DEF Taken

-----------------------------------------------------------------------------
(* What one feedback teaches *)

(* A fact of request f with this kind and polarity.                        *)
IsFactOf(x, f, kinds, polarities) ==
    /\ x \in Facts
    /\ x.feedback = f /\ x.updated = created[f]
    /\ x.kind \in kinds /\ x.polarity \in polarities
    /\ x.kind # "diagnosis_episode" => x.target \in Targets

(* One fact for each action, and different ones for different actions.     *)
LEMMA FactsAbout ==
    ASSUME TypeOK, NEW f \in Feedbacks, NEW actions \in Seq(Actions), IsInjective(actions),
           NEW kind \in {"action_preference", "action_outcome"},
           NEW polarity \in {"prefer", "avoid", "success", "failure"},
           NEW s, s = [i \in DOMAIN actions |-> Fact(f, kind, actions[i], polarity)]
    PROVE  /\ s \in Seq(Facts) /\ IsInjective(s)
           /\ \A x \in Range(s) : IsFactOf(x, f, {kind}, {polarity})
<1>1. created[f] \in 0 .. LastTime
  BY DEF TypeOK
<1>2. DOMAIN actions = 1 .. Len(actions) /\ Len(actions) \in Nat
  OBVIOUS
<1>3. ASSUME NEW i \in DOMAIN actions
      PROVE  /\ IsFactOf(s[i], f, {kind}, {polarity})
             /\ s[i].operation = actions[i].operation /\ s[i].target = actions[i].target
             /\ actions[i] \in Actions
  <2>1. actions[i] \in Actions
    BY <1>2, ElementOfSeq
  <2>2. PICK x : x = Fact(f, kind, actions[i], polarity)
    OBVIOUS
  <2>3. actions[i].operation \in {Review, Pause} /\ actions[i].target \in Targets
    BY <2>1 DEF Actions
  <2>4. /\ x.feedback = f /\ x.kind = kind /\ x.operation = actions[i].operation
        /\ x.target = actions[i].target /\ x.polarity = polarity /\ x.updated = created[f]
    BY <2>2 DEF Fact
  <2>5. x \in Facts
    BY <1>1, <2>2, <2>3 DEF Fact, Facts
  <2>6. s[i] = x
    BY <2>2
  <2> QED
    BY <2>1, <2>3, <2>4, <2>5, <2>6 DEF IsFactOf
<1>4. s \in Seq(Facts)
  <2>1. s \in [1 .. Len(actions) -> Facts]
    BY <1>2, <1>3 DEF IsFactOf
  <2> QED
    BY <1>2, <2>1, SeqDef
<1>5. ASSUME NEW i \in DOMAIN s, NEW j \in DOMAIN s, s[i] = s[j] PROVE i = j
  <2>1. /\ actions[i].operation = actions[j].operation /\ actions[i].target = actions[j].target
        /\ actions[i] \in Actions /\ actions[j] \in Actions
    BY <1>3, <1>5
  <2>2. actions[i] = actions[j]
    BY <2>1 DEF Actions
  <2> QED
    BY <2>2 DEF IsInjective
<1>6. \A x \in Range(s) : IsFactOf(x, f, {kind}, {polarity})
  BY <1>3 DEF Range
<1> QED
  BY <1>4, <1>5, <1>6 DEF IsInjective

(* The facts of a feedback are different, carry its ID and share its time; *)
(* what they say of an operation is about a campaign.                      *)
LEMMA FactsOfFeedback ==
    ASSUME TypeOK, NEW f \in Feedbacks
    PROVE  /\ FactsOf(f) \in Seq(Facts) /\ IsInjective(FactsOf(f))
           /\ \A x \in Range(FactsOf(f)) :
                 /\ x.feedback = f /\ x.updated = created[f]
                 /\ x.kind # "diagnosis_episode" => x.target \in Targets
<1> DEFINE about(actions, kind, polarity) ==
             [i \in DOMAIN actions |-> Fact(f, kind, actions[i], polarity)]
<1>1. PICK accepted, rejected : accepted = Content[f].accepted /\ rejected = Content[f].rejected
  OBVIOUS
<1>2. accepted \in Seq(Actions) /\ rejected \in Seq(Actions)
  BY <1>1, MemoryAssumption
<1>3. IsInjective(accepted) /\ IsInjective(rejected)
  <2> DEFINE both == accepted \o rejected
  <2>1. IsInjective(both)
    BY <1>1, MemoryAssumption
  <2>2. /\ Len(accepted) \in Nat /\ Len(rejected) \in Nat
        /\ DOMAIN accepted = 1 .. Len(accepted) /\ DOMAIN rejected = 1 .. Len(rejected)
        /\ DOMAIN both = 1 .. Len(accepted) + Len(rejected)
    BY <1>2, ConcatElements
  <2>3. /\ \A i \in DOMAIN accepted : i \in DOMAIN both /\ both[i] = accepted[i]
        /\ \A i \in DOMAIN rejected : /\ Len(accepted) + i \in DOMAIN both
                                      /\ both[Len(accepted) + i] = rejected[i]
    BY <1>2, <2>2, ConcatElements
  <2> HIDE DEF both
  <2>4. \A i, j \in DOMAIN rejected : Len(accepted) + i = Len(accepted) + j => i = j
    BY <2>2
  <2> QED
    BY <2>1, <2>3, <2>4 DEF IsInjective
<1>4. PICK result \in {"success", "failure"} :
         result = (IF Content[f].observed = "loss" THEN "failure" ELSE "success")
  OBVIOUS
<1>5. PICK e : e = <<Fact(f, "diagnosis_episode", [operation |-> "", target |-> NoTarget], "useful")>>
  OBVIOUS
<1>6. PICK a : a = about(accepted, "action_preference", "prefer")
  OBVIOUS
<1>7. PICK b : b = about(rejected, "action_preference", "avoid")
  OBVIOUS
<1>8. PICK c : c = (IF Content[f].observed = "none" THEN <<>>
                    ELSE about(accepted, "action_outcome", result))
  OBVIOUS
<1>9. FactsOf(f) = e \o a \o b \o c
  BY <1>1, <1>4, <1>5, <1>6, <1>7, <1>8 DEF FactsOf
<1>10. /\ e \in Seq(Facts) /\ IsInjective(e)
       /\ \A x \in Range(e) : IsFactOf(x, f, {"diagnosis_episode"}, {"useful"})
  <2>1. PICK x : x = Fact(f, "diagnosis_episode", [operation |-> "", target |-> NoTarget], "useful")
    OBVIOUS
  <2>2. created[f] \in 0 .. LastTime
    BY DEF TypeOK
  <2>3. IsFactOf(x, f, {"diagnosis_episode"}, {"useful"})
    BY <2>1, <2>2 DEF Fact, Facts, IsFactOf
  <2>4. e = <<x>> /\ x \in Facts
    BY <1>5, <2>1, <2>3 DEF IsFactOf
  <2> QED
    BY <2>3, <2>4 DEF Range, IsInjective
<1>11. /\ a \in Seq(Facts) /\ IsInjective(a)
       /\ \A x \in Range(a) : IsFactOf(x, f, {"action_preference"}, {"prefer"})
  BY <1>2, <1>3, <1>6, FactsAbout
<1>12. /\ b \in Seq(Facts) /\ IsInjective(b)
       /\ \A x \in Range(b) : IsFactOf(x, f, {"action_preference"}, {"avoid"})
  BY <1>2, <1>3, <1>7, FactsAbout
<1>13. /\ c \in Seq(Facts) /\ IsInjective(c)
       /\ \A x \in Range(c) : IsFactOf(x, f, {"action_outcome"}, {"success", "failure"})
  <2>1. CASE Content[f].observed = "none"
    BY <1>8, <2>1 DEF Range, IsInjective
  <2>2. CASE Content[f].observed # "none"
    <3>1. c = about(accepted, "action_outcome", result)
      BY <1>8, <2>2
    <3>2. /\ c \in Seq(Facts) /\ IsInjective(c)
          /\ \A x \in Range(c) : IsFactOf(x, f, {"action_outcome"}, {result})
      BY <1>2, <1>3, <3>1, FactsAbout
    <3> QED
      BY <3>2 DEF IsFactOf
  <2> QED
    BY <2>1, <2>2
<1> HIDE DEF about
<1>14. PICK ea : ea = e \o a
  OBVIOUS
<1>15. PICK eab : eab = ea \o b
  OBVIOUS
<1>16. /\ ea \in Seq(Facts) /\ IsInjective(ea) /\ Range(ea) = Range(e) \cup Range(a)
  <2>1. Range(e) \cap Range(a) = {}
    BY <1>10, <1>11 DEF IsFactOf
  <2> QED
    BY <1>10, <1>11, <1>14, <2>1, ConcatElements, ConcatInjective
<1>17. /\ eab \in Seq(Facts) /\ IsInjective(eab) /\ Range(eab) = Range(ea) \cup Range(b)
  <2>1. Range(ea) \cap Range(b) = {}
    BY <1>10, <1>11, <1>12, <1>16 DEF IsFactOf
  <2> QED
    BY <1>12, <1>15, <1>16, <2>1, ConcatElements, ConcatInjective
<1>18. /\ FactsOf(f) \in Seq(Facts) /\ IsInjective(FactsOf(f))
       /\ Range(FactsOf(f)) = Range(eab) \cup Range(c)
  <2>1. Range(eab) \cap Range(c) = {}
    BY <1>10, <1>11, <1>12, <1>13, <1>16, <1>17 DEF IsFactOf
  <2>2. FactsOf(f) = eab \o c
    BY <1>9, <1>14, <1>15
  <2> QED
    BY <1>13, <1>17, <2>1, <2>2, ConcatElements, ConcatInjective
<1> QED
  BY <1>10, <1>11, <1>12, <1>13, <1>16, <1>17, <1>18 DEF IsFactOf

-----------------------------------------------------------------------------
(* What saving makes of the profile *)

Sorted(memories) ==
    \A i, j \in DOMAIN memories : i < j => memories[i].updated >= memories[j].updated

(* A profile with the facts of f inserted: newer memories, the facts, and  *)
(* the older ones, none lost, repeated or out of order.                    *)
LEMMA MergedProfile ==
    ASSUME TypeOK, NEW f \in Feedbacks, NEW n \in Insertion(f),
           NEW old, old = loaded[f], IsInjective(old), Sorted(old),
           \A x \in Range(old) : x.feedback # f,
           NEW new, new = FactsOf(f), NEW m, m = Merged(f, n)
    PROVE  /\ m \in Seq(Facts) /\ IsInjective(m) /\ Sorted(m)
           /\ Range(m) = Range(old) \cup Range(new)
           /\ Len(m) >= Len(old)
           /\ \A i \in 1 .. Len(old) : m[i].updated >= old[i].updated
<1> DEFINE head == SubSeq(old, 1, n)
           tail == SubSeq(old, n + 1, Len(old))
<1>1. old \in Seq(Facts)
  BY SeqMonotonic DEF TypeOK
<1>2. /\ Len(old) \in Nat /\ DOMAIN old = 1 .. Len(old)
      /\ n \in 0 .. Len(old) /\ n \in Nat
      /\ \A i \in 1 .. n : old[i].updated >= created[f]
      /\ \A i \in n + 1 .. Len(old) : old[i].updated < created[f]
  BY <1>1 DEF Insertion
<1>3. /\ new \in Seq(Facts) /\ IsInjective(new)
      /\ \A x \in Range(new) : x.feedback = f /\ x.updated = created[f]
      /\ Len(new) \in Nat /\ DOMAIN new = 1 .. Len(new)
  BY FactsOfFeedback
<1>4. /\ head \in Seq(Facts) /\ Len(head) = n
      /\ \A i \in 1 .. n : head[i] = old[i]
  <2>1. 1 \in 1 .. Len(old) + 1 /\ n \in 1 - 1 .. Len(old) /\ n - 1 + 1 = n
    BY <1>2
  <2>2. \A i \in 1 .. n : 1 + i - 1 = i
    BY <1>2
  <2> QED
    BY <1>1, <2>1, <2>2, PartElements
<1>5. /\ tail \in Seq(Facts) /\ Len(tail) = Len(old) - n
      /\ \A i \in 1 .. Len(old) - n : tail[i] = old[n + i]
  <2>1. n + 1 \in 1 .. Len(old) + 1 /\ Len(old) \in (n + 1) - 1 .. Len(old)
        /\ Len(old) - (n + 1) + 1 = Len(old) - n
    BY <1>2
  <2>2. \A i \in 1 .. Len(old) - n : (n + 1) + i - 1 = n + i
    BY <1>2
  <2> QED
    BY <1>1, <2>1, <2>2, PartElements
<1>6. PICK front : front = head \o new
  OBVIOUS
<1>7. m = front \o tail
  BY <1>6 DEF Merged
<1> HIDE DEF head, tail
<1>8. /\ IsInjective(head) /\ Range(head) \subseteq Range(old)
      /\ IsInjective(tail) /\ Range(tail) \subseteq Range(old)
      /\ Range(head) \cap Range(tail) = {}
      /\ Range(old) \subseteq Range(head) \cup Range(tail)
  <2>1. DOMAIN head = 1 .. n /\ DOMAIN tail = 1 .. Len(old) - n
    BY <1>4, <1>5
  <2>2. /\ \A i \in DOMAIN head : i \in DOMAIN old /\ i <= n /\ head[i] = old[i]
        /\ \A i \in DOMAIN tail : n + i \in DOMAIN old /\ n + i > n /\ tail[i] = old[n + i]
        /\ \A i, j \in DOMAIN tail : n + i = n + j => i = j
    BY <1>2, <1>4, <1>5, <2>1
  <2>3. IsInjective(head) /\ Range(head) \subseteq Range(old)
    BY <2>2 DEF IsInjective, Range
  <2>4. IsInjective(tail) /\ Range(tail) \subseteq Range(old)
    BY <2>2 DEF IsInjective, Range
  <2>5. \A i \in DOMAIN head, j \in DOMAIN tail : head[i] # tail[j]
    <3> SUFFICES ASSUME NEW i \in DOMAIN head, NEW j \in DOMAIN tail, head[i] = tail[j]
                 PROVE  FALSE
      OBVIOUS
    <3>1. i = n + j
      BY <2>2 DEF IsInjective
    <3> QED
      BY <1>2, <2>1, <2>2, <3>1
  <2>6. \A i \in DOMAIN old : i \in DOMAIN head \/ (i - n \in DOMAIN tail /\ n + (i - n) = i)
    BY <1>2, <2>1
  <2>7. Range(old) \subseteq Range(head) \cup Range(tail)
    <3> SUFFICES ASSUME NEW i \in DOMAIN old PROVE old[i] \in Range(head) \cup Range(tail)
      BY DEF Range
    <3>1. CASE i \in DOMAIN head
      BY <2>2, <3>1 DEF Range
    <3>2. CASE i - n \in DOMAIN tail /\ n + (i - n) = i
      <4>1. tail[i - n] = old[i]
        BY <2>2, <3>2
      <4> QED
        BY <3>2, <4>1 DEF Range
    <3> QED
      BY <2>6, <3>1, <3>2
  <2> QED
    BY <2>3, <2>4, <2>5, <2>7 DEF Range
<1>9. /\ front \in Seq(Facts) /\ IsInjective(front)
      /\ Range(front) = Range(head) \cup Range(new)
      /\ Len(front) = n + Len(new)
      /\ \A i \in 1 .. n : front[i] = old[i]
      /\ \A i \in 1 .. Len(new) : front[n + i] = new[i]
  <2>1. Range(head) \cap Range(new) = {}
    BY <1>3, <1>8
  <2>2. front \in Seq(Facts) /\ IsInjective(front)
    BY <1>3, <1>4, <1>6, <1>8, <2>1, ConcatElements, ConcatInjective
  <2>3. Range(front) = Range(head) \cup Range(new)
    BY <1>3, <1>4, <1>6, ConcatElements
  <2>4. /\ Len(front) = Len(head) + Len(new)
        /\ \A i \in 1 .. Len(head) : front[i] = head[i]
        /\ \A i \in 1 .. Len(new) : front[Len(head) + i] = new[i]
    BY <1>3, <1>4, <1>6, ConcatElements
  <2> QED
    BY <1>4, <2>2, <2>3, <2>4
<1>10. /\ m \in Seq(Facts) /\ IsInjective(m)
       /\ Range(m) = Range(front) \cup Range(tail)
       /\ Len(m) = Len(front) + Len(tail)
       /\ \A i \in 1 .. Len(front) : m[i] = front[i]
       /\ \A i \in 1 .. Len(tail) : m[Len(front) + i] = tail[i]
  <2>1. Range(front) \cap Range(tail) = {}
    BY <1>3, <1>8, <1>9
  <2>2. m \in Seq(Facts) /\ IsInjective(m)
    BY <1>5, <1>7, <1>8, <1>9, <2>1, ConcatElements, ConcatInjective
  <2>3. Range(m) = Range(front) \cup Range(tail)
    BY <1>5, <1>7, <1>9, ConcatElements
  <2>4. /\ Len(m) = Len(front) + Len(tail)
        /\ \A i \in 1 .. Len(front) : m[i] = front[i]
        /\ \A i \in 1 .. Len(tail) : m[Len(front) + i] = tail[i]
    BY <1>5, <1>7, <1>9, ConcatElements
  <2> QED
    BY <2>2, <2>3, <2>4
<1>11. Range(m) = Range(old) \cup Range(new)
  BY <1>8, <1>9, <1>10
<1>12. /\ Len(m) = Len(old) + Len(new)
       /\ \A i \in 1 .. n : m[i] = old[i]
       /\ \A i \in n + 1 .. n + Len(new) : m[i].updated = created[f]
       /\ \A i \in n + Len(new) + 1 .. Len(m) :
             /\ i - Len(new) \in n + 1 .. Len(old)
             /\ m[i] = old[i - Len(new)]
  <2>1. Len(m) = Len(old) + Len(new)
    <3>1. Len(m) = (n + Len(new)) + (Len(old) - n)
      BY <1>5, <1>9, <1>10
    <3>2. n \in Nat /\ Len(new) \in Nat /\ Len(old) \in Nat
      BY <1>2, <1>3
    <3>3. \A x, y, z \in Nat : (x + y) + (z - x) = z + y
      OBVIOUS
    <3> QED
      BY <3>1, <3>2, <3>3
  <2>2. \A i \in 1 .. n : m[i] = old[i]
    BY <1>2, <1>3, <1>9, <1>10
  <2>3. ASSUME NEW i \in n + 1 .. n + Len(new) PROVE m[i].updated = created[f]
    <3>1. i - n \in 1 .. Len(new) /\ n + (i - n) = i /\ i \in 1 .. Len(front)
      BY <1>2, <1>3, <1>9
    <3>2. m[i] = new[i - n]
      BY <1>9, <1>10, <3>1
    <3> QED
      BY <1>3, <3>1, <3>2 DEF Range
  <2>4. ASSUME NEW i \in n + Len(new) + 1 .. Len(m)
        PROVE  i - Len(new) \in n + 1 .. Len(old) /\ m[i] = old[i - Len(new)]
    <3>1. PICK k \in 1 .. Len(tail) : i = Len(front) + k
      <4>1. i - Len(front) \in 1 .. Len(tail) /\ i = Len(front) + (i - Len(front))
        BY <1>2, <1>3, <1>5, <1>9, <2>1
      <4> QED
        BY <4>1
    <3>2. m[i] = tail[k] /\ tail[k] = old[n + k]
      BY <1>5, <1>10, <3>1
    <3>3. n + k = i - Len(new) /\ i - Len(new) \in n + 1 .. Len(old)
      BY <1>2, <1>3, <1>5, <1>9, <3>1
    <3> QED
      BY <3>2, <3>3
  <2> QED
    BY <2>1, <2>2, <2>3, <2>4
<1>13. created[f] \in Int /\ \A i \in DOMAIN old : old[i].updated \in Int
  <2>1. \A i \in DOMAIN old : old[i] \in Facts
    BY <1>1, <1>2, ElementOfSeq
  <2>2. LastTime \in Nat
    BY MemoryAssumption
  <2>3. \A x \in Facts : x.updated \in Int
    <3>1. \A x \in Facts : x.updated \in 0 .. LastTime
      BY DEF Facts
    <3> QED
      BY <2>2, <3>1
  <2>4. created[f] \in Int
    BY <2>2 DEF TypeOK
  <2> QED
    BY <2>1, <2>3, <2>4
<1>14. DOMAIN m = 1 .. Len(m)
  BY <1>10
<1>15. Sorted(m)
  <2> SUFFICES ASSUME NEW i \in 1 .. Len(m), NEW j \in 1 .. Len(m), i < j
               PROVE  m[i].updated >= m[j].updated
    BY <1>14 DEF Sorted
  <2>1. \A k \in 1 .. n : k \in DOMAIN old /\ m[k] = old[k] /\ old[k].updated >= created[f]
    BY <1>2, <1>12
  <2>2. \A k \in n + Len(new) + 1 .. Len(m) :
           /\ k - Len(new) \in DOMAIN old /\ m[k] = old[k - Len(new)]
           /\ old[k - Len(new)].updated < created[f]
    <3>1. \A k \in n + 1 .. Len(old) : k \in DOMAIN old
      BY <1>2
    <3> QED
      BY <1>2, <1>12, <3>1
  <2>3. /\ i \in 1 .. n \/ i \in n + 1 .. n + Len(new) \/ i \in n + Len(new) + 1 .. Len(m)
        /\ j \in 1 .. n \/ j \in n + 1 .. n + Len(new) \/ j \in n + Len(new) + 1 .. Len(m)
    BY <1>2, <1>3, <1>12
  <2>4. CASE i \in 1 .. n /\ j \in 1 .. n
    BY <2>1, <2>4 DEF Sorted
  <2>5. CASE i \in n + Len(new) + 1 .. Len(m) /\ j \in n + Len(new) + 1 .. Len(m)
    <3>1. i - Len(new) < j - Len(new)
      BY <1>3
    <3> QED
      BY <2>2, <2>5, <3>1 DEF Sorted
  <2>6. CASE i \in 1 .. n /\ j \in n + 1 .. n + Len(new)
    BY <1>12, <2>1, <2>6
  <2>7. CASE i \in n + 1 .. n + Len(new) /\ j \in n + 1 .. n + Len(new)
    BY <1>12, <1>13, <2>7
  <2>8. CASE i \in n + 1 .. n + Len(new) /\ j \in n + Len(new) + 1 .. Len(m)
    BY <1>12, <1>13, <2>2, <2>8
  <2>9. CASE i \in 1 .. n /\ j \in n + Len(new) + 1 .. Len(m)
    BY <1>13, <2>1, <2>2, <2>9
  <2> QED
    BY <1>2, <1>3, <1>12, <2>3, <2>4, <2>5, <2>6, <2>7, <2>8, <2>9
<1>16. ASSUME NEW i \in 1 .. Len(old) PROVE m[i].updated >= old[i].updated
  <2>1. i \in 1 .. n \/ i \in n + 1 .. n + Len(new) \/ i \in n + Len(new) + 1 .. Len(m)
    BY <1>2, <1>3, <1>12
  <2>2. CASE i \in 1 .. n
    BY <1>2, <1>12, <1>13, <2>2
  <2>3. CASE i \in n + 1 .. n + Len(new)
    <3>1. old[i].updated < created[f] /\ m[i].updated = created[f]
      BY <1>2, <1>12, <2>3
    <3> QED
      BY <1>2, <1>13, <3>1
  <2>4. CASE i \in n + Len(new) + 1 .. Len(m)
    <3>1. m[i] = old[i - Len(new)] /\ i - Len(new) \in DOMAIN old /\ i - Len(new) <= i
      BY <1>2, <1>3, <1>12, <2>4
    <3>2. CASE i - Len(new) = i
      BY <1>2, <1>13, <3>1, <3>2
    <3>3. CASE i - Len(new) < i
      BY <1>2, <3>1, <3>3 DEF Sorted
    <3> QED
      BY <1>2, <1>3, <3>1, <3>2, <3>3
  <2> QED
    BY <2>1, <2>2, <2>3, <2>4
<1>17. Len(m) >= Len(old)
  BY <1>2, <1>3, <1>12
<1> QED
  BY <1>10, <1>11, <1>15, <1>16, <1>17

(* The start of a sequence that the limit leaves.                          *)
LEMMA TruncatedElements ==
    ASSUME NEW S, NEW m \in Seq(S), NEW p, p = Truncated(m)
    PROVE  /\ p \in Seq(S) /\ Len(p) <= Capacity /\ Len(p) <= Len(m)
           /\ Len(m) > Len(p) => Len(p) = Capacity
           /\ \A i \in 1 .. Len(p) : p[i] = m[i]
<1>1. Len(m) \in Nat /\ Capacity \in Nat \ {0}
  BY MemoryAssumption
<1>2. CASE Len(m) > Capacity
  <2>1. p = SubSeq(m, 1, Capacity)
    BY <1>2 DEF Truncated
  <2>2. /\ 1 \in 1 .. Len(m) + 1 /\ Capacity \in 1 - 1 .. Len(m) /\ Capacity - 1 + 1 = Capacity
        /\ \A i \in 1 .. Capacity : 1 + i - 1 = i
    BY <1>1, <1>2
  <2>3. p \in Seq(S) /\ Len(p) = Capacity /\ \A i \in 1 .. Capacity : p[i] = m[i]
    BY <2>1, <2>2, PartElements
  <2> QED
    BY <1>1, <1>2, <2>3
<1>3. CASE ~(Len(m) > Capacity)
  <2>1. p = m
    BY <1>3 DEF Truncated
  <2> QED
    BY <1>1, <1>3, <2>1
<1> QED
  BY <1>2, <1>3

(* A saved profile holds learned facts only, newest first, and what it no  *)
(* longer holds was pushed out by facts at least as new.                   *)
LEMMA SavedProfile ==
    ASSUME IInv, NEW f \in Feedbacks, pc[f] \in {"save", "replace"}, Saved(f), lost' = lost
    PROVE  /\ profile' \in Seq(learned') /\ Len(profile') <= Capacity /\ IsInjective(profile')
           /\ PushedOutByNewer'
           /\ Range(profile') \subseteq Range(profile) \cup Range(FactsOf(f))
<1> USE DEF IInv
<1>1. PICK old : old = profile
  OBVIOUS
<1>2. PICK new : new = FactsOf(f)
  OBVIOUS
<1>3. PICK n \in Insertion(f) : profile' = Truncated(Merged(f, n))
  BY DEF Saved
<1>4. PICK m : m = Merged(f, n)
  OBVIOUS
<1>5. /\ old = loaded[f] /\ IsInjective(old) /\ Sorted(old)
      /\ Range(old) \subseteq learned
      /\ old \in Seq(Facts) /\ DOMAIN old = 1 .. Len(old) /\ Len(old) \in Nat
  <2>1. profile \in Seq(Facts)
    BY SeqMonotonic DEF TypeOK
  <2>2. \A i \in 1 .. Len(old) : old[i] \in learned
    BY <1>1, ElementOfSeq DEF TypeOK
  <2> QED
    BY <1>1, <2>1, <2>2 DEF ProfileOwned, TypeOK, PushedOutByNewer, Sorted, Range
<1>6. \A x \in Range(old) : x.feedback # f
  BY <1>5 DEF LearnedInTurn, Unlearned
<1>7. /\ m \in Seq(Facts) /\ IsInjective(m) /\ Sorted(m)
      /\ Range(m) = Range(old) \cup Range(new)
      /\ Len(m) >= Len(old)
      /\ \A i \in 1 .. Len(old) : m[i].updated >= old[i].updated
  BY <1>2, <1>4, <1>5, <1>6, MergedProfile
<1>8. PICK p : p = profile'
  OBVIOUS
<1>9. /\ p \in Seq(Facts) /\ Len(p) <= Capacity /\ Len(p) <= Len(m)
      /\ Len(m) > Len(p) => Len(p) = Capacity
      /\ \A i \in 1 .. Len(p) : p[i] = m[i]
  BY <1>3, <1>4, <1>7, <1>8, TruncatedElements
<1>10. /\ Len(p) \in Nat /\ Len(m) \in Nat /\ Capacity \in Nat
       /\ DOMAIN p = 1 .. Len(p) /\ DOMAIN m = 1 .. Len(m)
       /\ \A i \in DOMAIN p : i \in DOMAIN m /\ p[i] = m[i]
  <2>1. /\ Len(p) \in Nat /\ DOMAIN p = 1 .. Len(p)
        /\ Len(m) \in Nat /\ DOMAIN m = 1 .. Len(m)
    BY ONLY <1>7, <1>9, LenProperties
  <2>2. Capacity \in Nat
    BY ONLY MemoryAssumption
  <2>3. /\ Len(p) <= Len(m)
        /\ \A i \in 1 .. Len(p) : p[i] = m[i]
    BY ONLY <1>9
  <2> QED
    BY ONLY <2>1, <2>2, <2>3
<1>10a. /\ Len(p) \in Nat /\ Len(m) \in Nat /\ Len(old) \in Nat /\ Capacity \in Nat
        /\ Len(p) <= Capacity /\ Len(m) >= Len(old)
        /\ Len(m) > Len(p) => Len(p) = Capacity
  BY <1>5, <1>7, <1>9, <1>10
<1>11. IsInjective(p) /\ Sorted(p) /\ Range(p) \subseteq Range(m)
  BY <1>7, <1>10 DEF IsInjective, Sorted, Range
<1>12. learned' = learned \cup Range(new)
  BY <1>2 DEF Saved
<1>13. p \in Seq(learned')
  <2>1. \A i \in 1 .. Len(p) : p[i] \in learned'
    BY <1>5, <1>7, <1>10, <1>11, <1>12 DEF Range
  <2>2. p \in [1 .. Len(p) -> Facts]
    BY <1>9, LenProperties
  <2>3. p \in [1 .. Len(p) -> learned']
    BY <2>1, <2>2
  <2> QED
    BY <1>10, <2>3, SeqDef
<1>14. ASSUME NEW fact \in learned', fact \notin lost, fact \notin Range(p)
       PROVE  Len(p) = Capacity /\ \A i \in DOMAIN p : p[i].updated >= fact.updated
  <2>1. CASE fact \in Range(m)
    <3>1. PICK j \in DOMAIN m : m[j] = fact
      BY <2>1 DEF Range
    <3>2. j > Len(p)
      BY <1>10, <1>14, <3>1 DEF Range
    <3>3. Len(p) = Capacity
      <4>1. j \in 1 .. Len(m)
        BY <1>10
      <4> QED
        BY <1>10a, <3>2, <4>1
    <3>4. \A i \in DOMAIN p : i < j
      BY <1>10, <3>2
    <3> QED
      BY <1>7, <1>10, <3>1, <3>3, <3>4 DEF Sorted
  <2>2. CASE fact \notin Range(m)
    <3>1. fact \in learned \ (lost \cup Range(profile))
      BY <1>1, <1>7, <1>12, <1>14, <2>2
    <3>2. Len(old) = Capacity /\ \A i \in 1 .. Len(old) : old[i].updated >= fact.updated
      BY <1>1, <1>5, <3>1 DEF PushedOutByNewer
    <3>3. Len(p) = Capacity
      <4>1. Len(old) = Capacity
        BY <3>2
      <4> QED
        BY <1>10a, <4>1
    <3>4. ASSUME NEW i \in DOMAIN p PROVE p[i].updated >= fact.updated
      <4>1. /\ p[i] = m[i] /\ m[i].updated >= old[i].updated /\ old[i].updated >= fact.updated
            /\ i \in DOMAIN m /\ i \in 1 .. Len(old)
        BY <1>7, <1>10, <3>2, <3>3
      <4>2. m[i] \in Facts /\ old[i] \in Facts /\ fact \in Facts
        BY <1>5, <1>7, <1>10, <3>1, <4>1, ElementOfSeq DEF TypeOK
      <4>3. \A x \in Facts : x.updated \in 0 .. LastTime
        BY DEF Facts
      <4>4. LastTime \in Nat
        BY MemoryAssumption
      <4>5. m[i].updated \in Int /\ old[i].updated \in Int /\ fact.updated \in Int
        BY <4>2, <4>3, <4>4
      <4> QED
        BY <4>1, <4>5
    <3> QED
      BY <3>3, <3>4
  <2> QED
    BY <2>1, <2>2
<1>15. PushedOutByNewer'
  BY <1>8, <1>11, <1>14 DEF PushedOutByNewer, Sorted
<1>16. Range(p) \subseteq Range(profile) \cup Range(FactsOf(f))
  BY <1>1, <1>2, <1>7, <1>11
<1> QED
  BY <1>8, <1>9, <1>11, <1>13, <1>15, <1>16

-----------------------------------------------------------------------------
(* Preservation *)

Stages ==
    {"new", "record", "lock", "load", "save", "replace", "annotate", "reannotate"}
      \cup Finished

(* The facts of a feedback depend on its time only.                        *)
LEMMA SameFacts ==
    ASSUME NEW f \in Feedbacks, created'[f] = created[f]
    PROVE  FactsOf(f)' = FactsOf(f)
BY DEF FactsOf, Fact

(* A step that touches neither the profile nor what was learned keeps what *)
(* is said of them.                                                        *)
LEMMA ProfileUntouched ==
    ASSUME IInv, UNCHANGED <<profile, learned, lost>>
    PROVE  /\ PushedOutByNewer'
           /\ learned' \subseteq Facts' /\ profile' \in Seq(learned')
           /\ Len(profile') <= Capacity /\ IsInjective(profile')
           /\ lost' \subseteq learned'
BY DEF IInv, TypeOK, PushedOutByNewer, Facts

(* The clock moves nothing else.                                           *)
LEMMA TickKeeps ==
    ASSUME IInv, Tick
    PROVE  IInv'
<1>1. /\ UNCHANGED <<created, record, profile, mutex, loaded, pc, learned, lost, dropped>>
      /\ clock' = clock + 1 /\ clock < LastTime
  BY DEF Tick, history
<1>2. clock' \in 0 .. LastTime
  BY <1>1, MemoryAssumption DEF IInv, TypeOK
<1>3. TypeOK'
  BY <1>1, <1>2 DEF IInv, TypeOK, Facts
<1>4. \A f \in Feedbacks : FactsOf(f)' = FactsOf(f)
  BY <1>1, SameFacts
<1>5. ProfileOwned' /\ PushedOutByNewer'
  BY <1>1 DEF IInv, ProfileOwned, PushedOutByNewer
<1>6. LearnedInTurn' /\ RecordsTruthful'
  BY <1>1, <1>4 DEF IInv, LearnedInTurn, RecordsTruthful
<1> QED
  BY <1>3, <1>5, <1>6 DEF IInv

(* A request is given its time before anything of it is learned.           *)
LEMMA ReceiveKeeps ==
    ASSUME IInv, NEW f \in Feedbacks, Receive(f)
    PROVE  IInv'
<1>1. /\ pc[f] = "new"
      /\ UNCHANGED <<clock, record, profile, mutex, loaded, learned, lost, dropped>>
      /\ \/ created' = [created EXCEPT ![f] = clock] /\ pc' = [pc EXCEPT ![f] = "record"]
         \/ created' = created /\ pc' = [pc EXCEPT ![f] = "rejected"]
  BY DEF Receive, At, Goto, history
<1>2. /\ pc'[f] \in {"record", "rejected"}
      /\ \A g \in Feedbacks : g # f => pc'[g] = pc[g] /\ created'[g] = created[g]
  BY <1>1 DEF IInv, TypeOK
<1>3. TypeOK'
  BY <1>1, ProfileUntouched DEF IInv, TypeOK, Finished
<1>4. ProfileOwned' /\ PushedOutByNewer'
  BY <1>1, <1>2, ProfileUntouched DEF IInv, ProfileOwned
<1>5. \A g \in Feedbacks : g # f => FactsOf(g)' = FactsOf(g)
  BY <1>2, SameFacts
<1>6. record[f] = "none"
  BY <1>1 DEF IInv, LearnedInTurn
<1>7. \A fact \in learned : fact.feedback \in Feedbacks
  BY DEF IInv, TypeOK, Facts
<1>8. LearnedInTurn'
  BY <1>1, <1>2, <1>5, <1>6, <1>7 DEF IInv, LearnedInTurn, Unlearned
<1>9. RecordsTruthful'
  BY <1>1, <1>2, <1>5, <1>6 DEF IInv, RecordsTruthful
<1> QED
  BY <1>3, <1>4, <1>8, <1>9 DEF IInv

(* Only f moves, and leaves its time, the profile and what was learned     *)
(* alone.                                                                  *)
Moves(f) ==
    /\ UNCHANGED <<clock, created, profile, learned, lost>>
    /\ pc' \in [Feedbacks -> Stages]
    /\ record' \in [Feedbacks -> {"none", "event", "annotated"}]
    /\ \A g \in Feedbacks : g # f => pc'[g] = pc[g] /\ record'[g] = record[g]
    /\ pc'[f] # "new"
    /\ pc'[f] \in Unlearned => pc[f] \in Unlearned

(* It takes the mutex when it is free, reads the profile under it and      *)
(* releases it, or leaves both alone.                                      *)
Holds(f) ==
    /\ mutex' \in Feedbacks \cup {Nobody}
    /\ \A g \in Feedbacks : g # f => (mutex' = g <=> mutex = g)
    /\ pc'[f] \in {"load", "save", "replace"} <=> mutex' = f
    /\ loaded' \in [Feedbacks -> Seq(learned)]
    /\ \A g \in Feedbacks : g # f => loaded'[g] = loaded[g]
    /\ pc'[f] \in {"save", "replace"} => loaded'[f] = profile

(* Its record is there when its stage says so, and says what was learned.  *)
Records(f) ==
    /\ dropped \subseteq dropped' /\ dropped' \subseteq Feedbacks
    /\ pc'[f] \in {"lock", "load", "save", "replace", "annotate", "reannotate"}
          => record'[f] # "none"
    /\ record'[f] # "none" \/ record[f] = "none" \/ f \in dropped'
    /\ (pc'[f] \in {"annotate", "reannotate"} \/ record'[f] = "annotated")
          => Range(FactsOf(f)) \subseteq learned
    /\ pc'[f] = "created" => record'[f] = "annotated"

(* That is all a step of one request needs to keep the invariant.          *)
LEMMA StageStep ==
    ASSUME IInv, NEW f \in Feedbacks, Moves(f), Holds(f), Records(f)
    PROVE  IInv'
<1>1. /\ \A g \in Feedbacks : g # f => pc'[g] = pc[g] /\ record'[g] = record[g]
      /\ UNCHANGED <<clock, created, profile, learned, lost>>
      /\ dropped \subseteq dropped'
  BY DEF Moves, Records
<1>2. TypeOK'
  BY <1>1, ProfileUntouched DEF IInv, TypeOK, Stages, Moves, Holds, Records
<1>3. \A g \in Feedbacks : FactsOf(g)' = FactsOf(g)
  BY <1>1, SameFacts
<1>4. ProfileOwned'
  BY <1>1 DEF IInv, ProfileOwned, Holds
<1>5. \A fact \in learned : fact.feedback \in Feedbacks
  BY DEF IInv, TypeOK, Facts
<1>6. LearnedInTurn'
  <2>1. \A g \in Feedbacks :
           /\ pc'[g] = "new" => record'[g] = "none"
           /\ pc'[g] \in {"lock", "load", "save", "replace", "annotate", "reannotate"}
                 => record'[g] # "none"
           /\ pc'[g] \in {"annotate", "reannotate"} => Range(FactsOf(g)) \subseteq learned
    BY <1>1 DEF IInv, LearnedInTurn, Moves, Records
  <2>2. \A fact \in learned :
           /\ pc'[fact.feedback] \notin Unlearned
           /\ record'[fact.feedback] # "none" \/ fact.feedback \in dropped'
    BY <1>1, <1>5 DEF IInv, LearnedInTurn, Moves, Records
  <2> QED
    BY <1>1, <1>3, <2>1, <2>2 DEF LearnedInTurn
<1>7. RecordsTruthful'
  BY <1>1, <1>3 DEF IInv, RecordsTruthful, Records
<1>8. PushedOutByNewer'
  BY <1>1, ProfileUntouched
<1> QED
  BY <1>2, <1>4, <1>6, <1>7, <1>8 DEF IInv

(* A step that concerns neither the mutex nor what was read.               *)
LEMMA HoldsNothing ==
    ASSUME IInv, NEW f \in Feedbacks, UNCHANGED <<mutex, loaded>>,
           pc[f] \notin {"load", "save", "replace"}, pc'[f] \notin {"load", "save", "replace"}
    PROVE  Holds(f)
BY DEF IInv, TypeOK, ProfileOwned, Holds

(* A step that leaves the record alone.                                    *)
LEMMA RecordsNothing ==
    ASSUME IInv, NEW f \in Feedbacks, UNCHANGED <<record, dropped>>,
           \/ pc'[f] = "failed"
           \/ /\ pc[f] \in {"lock", "load", "save", "replace", "annotate"}
              /\ pc'[f] \in {"load", "save", "replace"}
           \/ pc[f] = "annotate" /\ pc'[f] = "reannotate"
    PROVE  Records(f)
BY DEF IInv, TypeOK, LearnedInTurn, RecordsTruthful, Records

(* AddFeedback persists the bare event, or the request ends.               *)
LEMMA AddFeedbackKeeps ==
    ASSUME IInv, NEW f \in Feedbacks, AddFeedback(f)
    PROVE  IInv'
<1>1. /\ pc[f] = "record"
      /\ UNCHANGED <<clock, created, profile, mutex, loaded, learned, lost, dropped>>
      /\ \/ record' = [record EXCEPT ![f] = "event"] /\ pc' = [pc EXCEPT ![f] = "lock"]
         \/ record' = record /\ pc' = [pc EXCEPT ![f] = "failed"]
  BY DEF AddFeedback, At, Goto, history
<1>2. Moves(f)
  BY <1>1 DEF IInv, TypeOK, Moves, Stages, Finished, Unlearned
<1>3. Holds(f)
  BY <1>1, HoldsNothing DEF IInv, TypeOK
<1>4. Records(f)
  BY <1>1 DEF IInv, TypeOK, RecordsTruthful, Records
<1> QED
  BY <1>2, <1>3, <1>4, StageStep

(* The mutex is taken by one request at a time.                            *)
LEMMA LockKeeps ==
    ASSUME IInv, NEW f \in Feedbacks, Lock(f)
    PROVE  IInv'
<1>1. /\ pc[f] = "lock" /\ mutex = Nobody /\ mutex' = f /\ pc' = [pc EXCEPT ![f] = "load"]
      /\ UNCHANGED <<clock, created, record, profile, loaded, learned, lost, dropped>>
  BY DEF Lock, Goto, history
<1>2. pc'[f] = "load"
  BY <1>1 DEF IInv, TypeOK
<1>3. Moves(f)
  BY <1>1, <1>2 DEF IInv, TypeOK, Moves, Stages, Unlearned
<1>4. Holds(f)
  BY <1>1, <1>2, MemoryAssumption DEF IInv, TypeOK, Holds
<1>5. Records(f)
  BY <1>1, <1>2, RecordsNothing
<1> QED
  BY <1>3, <1>4, <1>5, StageStep

(* An error of Learn ends the request and releases the mutex.              *)
LEMMA LearnFailsKeeps ==
    ASSUME IInv, NEW f \in Feedbacks, pc[f] \in {"load", "save", "replace"}, LearnFails(f),
           UNCHANGED <<clock, created, record, profile, loaded, learned, lost, dropped>>
    PROVE  IInv'
<1>1. pc' = [pc EXCEPT ![f] = "failed"] /\ mutex' = Nobody /\ mutex = f
  BY DEF LearnFails, Goto, IInv, ProfileOwned
<1>2. pc'[f] = "failed"
  BY <1>1 DEF IInv, TypeOK
<1>3. Moves(f)
  BY <1>1, <1>2 DEF IInv, TypeOK, Moves, Stages, Finished, Unlearned
<1>4. Holds(f)
  BY <1>1, <1>2, MemoryAssumption DEF IInv, TypeOK, Holds
<1>5. Records(f)
  BY <1>1, <1>2, RecordsNothing
<1> QED
  BY <1>3, <1>4, <1>5, StageStep

(* What the holder of the mutex reads stays the profile until it saves.    *)
LEMMA LoadKeeps ==
    ASSUME IInv, NEW f \in Feedbacks, Load(f)
    PROVE  IInv'
<1>1. /\ pc[f] = "load"
      /\ UNCHANGED <<clock, created, record, profile, learned, lost, dropped>>
  BY DEF Load, At, history
<1>2. CASE /\ loaded' = [loaded EXCEPT ![f] = profile]
           /\ pc' = [pc EXCEPT ![f] = "save"] /\ mutex' = mutex
  <2>1. pc'[f] = "save" /\ mutex = f
    BY <1>1, <1>2 DEF IInv, TypeOK, ProfileOwned
  <2>2. Moves(f)
    BY <1>1, <1>2, <2>1 DEF IInv, TypeOK, Moves, Stages, Unlearned
  <2>3. Holds(f)
    BY <1>1, <1>2, <2>1 DEF IInv, TypeOK, Holds
  <2>4. Records(f)
    BY <1>1, <1>2, <2>1, RecordsNothing
  <2> QED
    BY <2>2, <2>3, <2>4, StageStep
<1>3. CASE LearnFails(f) /\ UNCHANGED loaded
  BY <1>1, <1>3, LearnFailsKeeps
<1> QED
  BY <1>2, <1>3 DEF Load, Goto

(* A saved profile: the facts of f are learned, after their source.        *)
LEMMA SavedKeeps ==
    ASSUME IInv, NEW f \in Feedbacks, pc[f] \in {"save", "replace"}, Saved(f),
           UNCHANGED <<clock, created, record, lost, dropped>>
    PROVE  IInv'
<1>1. /\ learned' = learned \cup Range(FactsOf(f)) /\ mutex' = Nobody
      /\ loaded' = [loaded EXCEPT ![f] = <<>>] /\ pc' = [pc EXCEPT ![f] = "annotate"]
  BY DEF Saved, Goto
<1>2. /\ pc'[f] = "annotate" /\ mutex = f /\ record[f] # "none"
      /\ \A g \in Feedbacks : g # f => pc'[g] = pc[g] /\ loaded'[g] = loaded[g]
  BY <1>1 DEF IInv, TypeOK, ProfileOwned, LearnedInTurn
<1>3. /\ \A x \in Range(FactsOf(f)) : x \in Facts /\ x.feedback = f
  BY FactsOfFeedback DEF IInv, Range
<1>4. TypeOK'
  <2>1. learned' \subseteq Facts /\ lost' \subseteq learned'
    BY <1>1, <1>3 DEF IInv, TypeOK
  <2>2. loaded' \in [Feedbacks -> Seq(learned')]
    <3>1. \A g \in Feedbacks : loaded[g] \in Seq(learned')
      BY <1>1, SeqMonotonic DEF IInv, TypeOK
    <3>2. <<>> \in Seq(learned')
      OBVIOUS
    <3> QED
      BY <1>1, <3>1, <3>2 DEF IInv, TypeOK
  <2>3. pc' \in [Feedbacks -> Stages] /\ mutex' \in Feedbacks \cup {Nobody}
    BY <1>1 DEF IInv, TypeOK, Stages
  <2>4. profile' \in Seq(learned') /\ Len(profile') <= Capacity /\ IsInjective(profile')
    BY SavedProfile
  <2> QED
    BY <2>1, <2>2, <2>3, <2>4 DEF IInv, TypeOK, Stages, Facts
<1>5. ProfileOwned'
  BY <1>1, <1>2, MemoryAssumption DEF IInv, ProfileOwned
<1>6. \A g \in Feedbacks : FactsOf(g)' = FactsOf(g)
  BY SameFacts
<1>7. \A fact \in learned : fact.feedback \in Feedbacks
  BY DEF IInv, TypeOK, Facts
<1>8. LearnedInTurn'
  <2>1. \A fact \in learned' :
           /\ pc'[fact.feedback] \notin Unlearned
           /\ record[fact.feedback] # "none" \/ fact.feedback \in dropped
    BY <1>1, <1>2, <1>3, <1>7 DEF IInv, LearnedInTurn, Unlearned
  <2>2. \A g \in Feedbacks :
           /\ pc'[g] = "new" => record[g] = "none"
           /\ pc'[g] \in {"lock", "load", "save", "replace", "annotate", "reannotate"}
                 => record[g] # "none"
           /\ pc'[g] \in {"annotate", "reannotate"} => Range(FactsOf(g)) \subseteq learned'
    BY <1>1, <1>2 DEF IInv, LearnedInTurn
  <2> QED
    BY <1>6, <2>1, <2>2 DEF LearnedInTurn
<1>9. RecordsTruthful'
  BY <1>1, <1>2, <1>6 DEF IInv, RecordsTruthful
<1>10. PushedOutByNewer'
  BY SavedProfile
<1> QED
  BY <1>4, <1>5, <1>8, <1>9, <1>10 DEF IInv

(* Saving succeeds, fails, or begins to replace the file.                  *)
LEMMA SaveKeeps ==
    ASSUME IInv, NEW f \in Feedbacks, Save(f)
    PROVE  IInv'
<1>1. pc[f] = "save" /\ UNCHANGED <<clock, created, record, lost, dropped>>
  BY DEF Save, At
<1>2. CASE Saved(f)
  BY <1>1, <1>2, SavedKeeps
<1>3. CASE LearnFails(f) /\ UNCHANGED <<profile, loaded, learned>>
  BY <1>1, <1>3, LearnFailsKeeps
<1>4. CASE pc' = [pc EXCEPT ![f] = "replace"] /\ UNCHANGED <<profile, mutex, loaded, learned>>
  <2>1. pc'[f] = "replace" /\ mutex = f /\ loaded[f] = profile
    BY <1>1, <1>4 DEF IInv, TypeOK, ProfileOwned
  <2>2. Moves(f)
    BY <1>1, <1>4, <2>1 DEF IInv, TypeOK, Moves, Stages, Unlearned
  <2>3. Holds(f)
    BY <1>1, <1>4, <2>1 DEF IInv, TypeOK, Holds
  <2>4. Records(f)
    BY <1>1, <1>4, <2>1, RecordsNothing
  <2> QED
    BY <2>2, <2>3, <2>4, StageStep
<1> QED
  BY <1>2, <1>3, <1>4 DEF Save, Goto

(* A torn profile starts anew, and what it held is lost, not pushed out.   *)
LEMMA TornProfile ==
    ASSUME IInv, profile' = <<>>, lost' = learned, learned' = learned
    PROVE  PushedOutByNewer' /\ profile' \in Seq(learned') /\ Len(profile') <= Capacity
           /\ IsInjective(profile')
<1>1. Capacity \in Nat /\ DOMAIN profile' = {}
  BY MemoryAssumption
<1> QED
  BY <1>1 DEF PushedOutByNewer, IsInjective

(* The second rename succeeds, or the profile is gone.                     *)
LEMMA ReplaceKeeps ==
    ASSUME IInv, NEW f \in Feedbacks, Replace(f)
    PROVE  IInv'
<1>1. pc[f] = "replace" /\ UNCHANGED <<clock, created, record, dropped>>
  BY DEF Replace, At
<1>2. CASE Saved(f) /\ UNCHANGED lost
  BY <1>1, <1>2, SavedKeeps
<1>3. CASE /\ pc' = [pc EXCEPT ![f] = "failed"] /\ mutex' = Nobody
           /\ profile' = <<>> /\ lost' = learned
           /\ UNCHANGED <<loaded, learned>>
  <2>1. /\ pc'[f] = "failed" /\ mutex = f
        /\ \A g \in Feedbacks : g # f => pc'[g] = pc[g]
    BY <1>1, <1>3 DEF IInv, TypeOK, ProfileOwned
  <2>2. \A g \in Feedbacks : FactsOf(g)' = FactsOf(g)
    BY <1>1, SameFacts
  <2>3. TypeOK'
    BY <1>1, <1>3, TornProfile DEF IInv, TypeOK, Finished, Facts
  <2>4. ProfileOwned'
    BY <1>3, <2>1, MemoryAssumption DEF IInv, ProfileOwned
  <2>5. LearnedInTurn' /\ RecordsTruthful'
    BY <1>1, <1>3, <2>1, <2>2 DEF IInv, LearnedInTurn, RecordsTruthful, Unlearned
  <2>6. PushedOutByNewer'
    BY <1>3, TornProfile
  <2> QED
    BY <2>3, <2>4, <2>5, <2>6 DEF IInv
<1> QED
  BY <1>2, <1>3 DEF Replace, LearnFails, Goto

(* The record lists the facts once they were saved.                        *)
LEMMA AnnotateKeeps ==
    ASSUME IInv, NEW f \in Feedbacks, Annotate(f)
    PROVE  IInv'
<1>1. /\ pc[f] = "annotate"
      /\ UNCHANGED <<clock, created, profile, mutex, loaded, learned, lost, dropped>>
      /\ \/ record' = [record EXCEPT ![f] = "annotated"] /\ pc' = [pc EXCEPT ![f] = "created"]
         \/ record' = record /\ pc' = [pc EXCEPT ![f] = "failed"]
         \/ record' = record /\ pc' = [pc EXCEPT ![f] = "reannotate"]
  BY DEF Annotate, At, Goto, history
<1>2. pc'[f] \in {"created", "failed", "reannotate"}
  BY <1>1 DEF IInv, TypeOK
<1>3. Moves(f)
  BY <1>1, <1>2 DEF IInv, TypeOK, Moves, Stages, Finished, Unlearned
<1>4. Holds(f)
  BY <1>1, <1>2, HoldsNothing
<1>5. Records(f)
  <2>1. CASE record' = record
    BY <1>1, <1>2, <2>1 DEF IInv, TypeOK, LearnedInTurn, RecordsTruthful, Records
  <2>2. CASE record' = [record EXCEPT ![f] = "annotated"]
    BY <1>1, <1>2, <2>2 DEF IInv, TypeOK, LearnedInTurn, Records
  <2> QED
    BY <1>1, <2>1, <2>2
<1> QED
  BY <1>3, <1>4, <1>5, StageStep

(* The second rename of the record succeeds, or the record is gone.        *)
LEMMA ReannotateKeeps ==
    ASSUME IInv, NEW f \in Feedbacks, Reannotate(f)
    PROVE  IInv'
<1>1. /\ pc[f] = "reannotate"
      /\ UNCHANGED <<clock, created, profile, mutex, loaded, learned, lost>>
      /\ \/ /\ record' = [record EXCEPT ![f] = "annotated"]
            /\ pc' = [pc EXCEPT ![f] = "created"] /\ dropped' = dropped
         \/ /\ record' = [record EXCEPT ![f] = "none"]
            /\ pc' = [pc EXCEPT ![f] = "failed"] /\ dropped' = dropped \cup {f}
  BY DEF Reannotate, At, Goto
<1>2. pc'[f] \in {"created", "failed"}
  BY <1>1 DEF IInv, TypeOK
<1>3. Moves(f)
  BY <1>1, <1>2 DEF IInv, TypeOK, Moves, Stages, Finished, Unlearned
<1>4. Holds(f)
  BY <1>1, <1>2, HoldsNothing
<1>5. Records(f)
  BY <1>1 DEF IInv, TypeOK, LearnedInTurn, Records
<1> QED
  BY <1>3, <1>4, <1>5, StageStep

(* A crash tears the file that is being replaced, ends the running         *)
(* requests and changes nothing else.                                      *)
LEMMA CrashKeeps ==
    ASSUME IInv, Crash
    PROVE  IInv'
<1>1. PICK torn : torn = {f \in Feedbacks : pc[f] = "reannotate"}
  OBVIOUS
<1>2. /\ pc' = [f \in Feedbacks |-> IF pc[f] \in {"new"} \cup Finished THEN pc[f] ELSE "dead"]
      /\ mutex' = Nobody /\ loaded' = [f \in Feedbacks |-> <<>>]
      /\ record' = [f \in Feedbacks |-> IF f \in torn THEN "none" ELSE record[f]]
      /\ dropped' = dropped \cup torn
      /\ UNCHANGED <<clock, created, learned>>
      /\ \/ profile' = <<>> /\ lost' = learned
         \/ profile' = profile /\ lost' = lost
  BY <1>1 DEF Crash
<1>3. /\ PushedOutByNewer'
      /\ profile' \in Seq(learned') /\ Len(profile') <= Capacity /\ IsInjective(profile')
      /\ lost' \subseteq learned'
  BY <1>2, TornProfile, ProfileUntouched DEF IInv, TypeOK
<1>4. \A f \in Feedbacks :
         /\ \/ pc'[f] = pc[f] /\ pc[f] \in {"new"} \cup Finished
            \/ pc'[f] = "dead"
         /\ \/ record'[f] = record[f] /\ f \notin torn
            \/ record'[f] = "none" /\ f \in torn /\ pc'[f] = "dead"
  BY <1>1, <1>2 DEF Finished
<1>5. TypeOK'
  <2>1. \A f \in Feedbacks : pc'[f] \in Stages /\ record'[f] \in {"none", "event", "annotated"}
    BY <1>4 DEF IInv, TypeOK, Stages, Finished
  <2>2. <<>> \in Seq(learned')
    OBVIOUS
  <2> QED
    BY <1>1, <1>2, <1>3, <2>1, <2>2 DEF IInv, TypeOK, Stages, Facts
<1>6. ProfileOwned'
  BY <1>2, <1>4, MemoryAssumption DEF ProfileOwned, Finished
<1>7. \A f \in Feedbacks : FactsOf(f)' = FactsOf(f)
  BY <1>2, SameFacts
<1>8. \A fact \in learned : fact.feedback \in Feedbacks
  BY DEF IInv, TypeOK, Facts
<1>9. LearnedInTurn'
  <2>1. \A f \in Feedbacks :
           /\ pc'[f] = "new" => record'[f] = "none"
           /\ pc'[f] \notin {"lock", "load", "save", "replace", "annotate", "reannotate"}
    BY <1>4 DEF IInv, LearnedInTurn, Finished
  <2>2. \A fact \in learned :
           /\ pc'[fact.feedback] \notin Unlearned
           /\ record'[fact.feedback] # "none" \/ fact.feedback \in dropped'
    BY <1>2, <1>4, <1>8 DEF IInv, LearnedInTurn, Unlearned, Finished
  <2> QED
    BY <1>2, <2>1, <2>2 DEF LearnedInTurn
<1>10. RecordsTruthful'
  BY <1>2, <1>4, <1>7 DEF IInv, RecordsTruthful, Finished
<1> QED
  BY <1>3, <1>5, <1>6, <1>9, <1>10 DEF IInv

-----------------------------------------------------------------------------
(* The theorems *)

(* Nothing has been said yet.                                              *)
LEMMA InitIInv == Init => IInv
<1> SUFFICES ASSUME Init PROVE IInv
  OBVIOUS
<1>1. /\ <<>> \in Seq(learned) /\ Len(<<>>) = 0 /\ DOMAIN <<>> = {}
      /\ Capacity \in Nat \ {0} /\ LastTime \in Nat /\ Nobody \notin Feedbacks
  BY MemoryAssumption
<1>2. TypeOK
  BY <1>1 DEF Init, TypeOK, IsInjective
<1>3. ProfileOwned /\ LearnedInTurn /\ PushedOutByNewer /\ RecordsTruthful
  BY <1>1 DEF Init, ProfileOwned, LearnedInTurn, PushedOutByNewer, RecordsTruthful
<1> QED
  BY <1>2, <1>3 DEF IInv

(* Every step of every request, the clock and a crash keep the invariant.  *)
LEMMA NextIInv == IInv /\ [Next]_vars => IInv'
<1> SUFFICES ASSUME IInv, [Next]_vars PROVE IInv'
  OBVIOUS
<1>1. ASSUME NEW f \in Feedbacks, Step(f) PROVE IInv'
  BY <1>1, ReceiveKeeps, AddFeedbackKeeps, LockKeeps, LoadKeeps, SaveKeeps, ReplaceKeeps,
     AnnotateKeeps, ReannotateKeeps DEF Step
<1>2. CASE UNCHANGED vars
  <2>1. UNCHANGED <<clock, created, record, profile, mutex, loaded, pc, learned, lost, dropped>>
    BY <1>2 DEF vars, history
  <2>2. \A f \in Feedbacks : FactsOf(f)' = FactsOf(f)
    BY <2>1, SameFacts
  <2>3. TypeOK'
    BY <2>1 DEF IInv, TypeOK, Facts
  <2> QED
    BY <2>1, <2>2, <2>3
       DEF IInv, ProfileOwned, LearnedInTurn, PushedOutByNewer, RecordsTruthful
<1> QED
  BY <1>1, <1>2, TickKeeps, CrashKeeps DEF Next

(* The inductive invariant holds of every behaviour of the requests.       *)
THEOREM Invariance == Spec => []IInv
BY InitIInv, NextIInv, PTL DEF Spec

(* Profiles are well formed: at most Capacity memories, none of them twice *)
(* (memory/service.go, Learn).                                             *)
THEOREM TypeCorrect == Spec => []TypeOK
<1>1. IInv => TypeOK
  BY DEF IInv
<1> QED
  BY <1>1, Invariance, PTL

(* Every memory has its feedback record on disk, unless the replacement of *)
(* the record itself was torn (httpapi/server.go, feedback).               *)
THEOREM TraceableHolds == Spec => []Traceable
<1>1. IInv => Traceable
  <2> SUFFICES ASSUME IInv, NEW fact \in Range(profile)
               PROVE  record[fact.feedback] # "none" \/ fact.feedback \in dropped
    BY DEF Traceable
  <2>1. fact \in learned
    BY ElementOfSeq DEF IInv, TypeOK, Range
  <2> QED
    BY <2>1 DEF IInv, LearnedInTurn
<1> QED
  BY <1>1, Invariance, PTL

(* A fact that was saved is in the profile, unless the limit's worth of    *)
(* facts at least as new are (memory/service.go, Learn under its mutex),   *)
(* for every order in which requests are timed, loaded and saved.          *)
THEOREM NewestKeptHolds == Spec => []NewestKept
<1>1. IInv => NewestKept
  <2> SUFFICES ASSUME IInv PROVE NewestKept
    OBVIOUS
  <2>1. ASSUME NEW fact \in learned \ (lost \cup Range(profile))
        PROVE  Cardinality({m \in Range(profile) : m.updated >= fact.updated}) = Capacity
    <3>1. {m \in Range(profile) : m.updated >= fact.updated} = Range(profile)
      BY DEF IInv, PushedOutByNewer, Range
    <3>2. /\ DOMAIN profile = 1 .. Len(profile) /\ Len(profile) = Capacity
          /\ Capacity \in Nat /\ profile \in [1 .. Len(profile) -> learned]
      BY LenProperties, MemoryAssumption DEF IInv, TypeOK, PushedOutByNewer
    <3>3. profile \in Bijection(1 .. Capacity, Range(profile))
      BY <3>2 DEF IInv, TypeOK, Bijection, Injection, Surjection, Range, IsInjective
    <3> QED
      BY <3>1, <3>2, <3>3, FS_CountingElements DEF ExistsBijection
  <2> QED
    BY <2>1 DEF NewestKept, IInv, PushedOutByNewer
<1> QED
  BY <1>1, Invariance, PTL

(* A record lists facts only when they were saved, and a request that was  *)
(* answered with success left its record (httpapi/server.go, feedback).    *)
THEOREM RecordsTruthfulHolds == Spec => []RecordsTruthful
<1>1. IInv => RecordsTruthful
  BY DEF IInv
<1> QED
  BY <1>1, Invariance, PTL

-----------------------------------------------------------------------------
(* What memories are about, and where they are *)

(* What a memory says of an operation is about a campaign of the store.    *)
Aimed == \A m \in learned : m.kind # "diagnosis_episode" => m.target \in Targets

(* Nothing that was torn away comes back.                                  *)
TornApart == Range(profile) \cap lost = {}

(* The inductive invariant with what advice depends on besides.            *)
AdviceInv == IInv /\ Aimed /\ TornApart

(* Only a profile that is saved or torn away is another one.               *)
LEMMA ProfileSteps ==
    ASSUME IInv, [Next]_vars
    PROVE  \/ profile' = profile /\ learned' = learned /\ lost' = lost
           \/ profile' = <<>> /\ learned' = learned
           \/ \E f \in Feedbacks : /\ pc[f] \in {"save", "replace"}
                                   /\ Saved(f) /\ lost' = lost
<1>1. ASSUME NEW f \in Feedbacks, Step(f)
      PROVE  \/ profile' = profile /\ learned' = learned /\ lost' = lost
             \/ profile' = <<>> /\ learned' = learned
             \/ pc[f] \in {"save", "replace"} /\ Saved(f) /\ lost' = lost
  <2>1. CASE Receive(f) \/ AddFeedback(f) \/ Lock(f) \/ Load(f) \/ Annotate(f) \/ Reannotate(f)
    BY <2>1 DEF Receive, AddFeedback, Lock, Load, Annotate, Reannotate, history
  <2>2. CASE Save(f)
    BY <2>2 DEF Save, At
  <2>3. CASE Replace(f)
    BY <2>3 DEF Replace, At
  <2> QED
    BY <1>1, <2>1, <2>2, <2>3 DEF Step
<1>2. CASE Tick \/ UNCHANGED vars
  BY <1>2 DEF Tick, vars, history
<1>3. CASE Crash
  BY <1>3 DEF Crash
<1> QED
  BY <1>1, <1>2, <1>3 DEF Next

(* Nobody has said anything that could be wrong.                           *)
LEMMA InitAdviceInv == Init => AdviceInv
BY InitIInv DEF Init, AdviceInv, Aimed, TornApart, Range

(* The facts of a request are new when they are saved, so no torn profile  *)
(* had them.                                                               *)
LEMMA NextAdviceInv == AdviceInv /\ [Next]_vars => AdviceInv'
<1> SUFFICES ASSUME AdviceInv, [Next]_vars PROVE AdviceInv'
  OBVIOUS
<1>1. IInv /\ Aimed /\ TornApart /\ IInv'
  BY NextIInv DEF AdviceInv
<1>2. CASE profile' = profile /\ learned' = learned /\ lost' = lost
  BY <1>1, <1>2 DEF AdviceInv, Aimed, TornApart
<1>3. CASE profile' = <<>> /\ learned' = learned
  <2>1. Range(profile') = {}
    BY <1>3 DEF Range
  <2> QED
    BY <1>1, <1>3, <2>1 DEF AdviceInv, Aimed, TornApart
<1>4. ASSUME NEW f \in Feedbacks, pc[f] \in {"save", "replace"}, Saved(f), lost' = lost
      PROVE  AdviceInv'
  <2>1. PICK new : new = Range(FactsOf(f))
    OBVIOUS
  <2>2. \A x \in new : x.feedback = f /\ (x.kind # "diagnosis_episode" => x.target \in Targets)
    BY <1>1, <2>1, FactsOfFeedback DEF IInv
  <2>3. learned' = learned \cup new
    BY <1>4, <2>1 DEF Saved
  <2>4. Range(profile') \subseteq Range(profile) \cup new
    BY <1>1, <1>4, <2>1, SavedProfile
  <2>5. new \cap lost = {}
    BY <1>1, <1>4, <2>2 DEF IInv, TypeOK, LearnedInTurn, Unlearned
  <2>6. Aimed'
    BY <1>1, <2>2, <2>3 DEF Aimed, Targets
  <2>7. TornApart'
    BY <1>1, <1>4, <2>4, <2>5 DEF TornApart
  <2> QED
    BY <1>1, <2>6, <2>7 DEF AdviceInv
<1> QED
  BY <1>2, <1>3, <1>4, <1>1, ProfileSteps

-----------------------------------------------------------------------------
(* What a run is advised *)

(* An action as Analyze proposes it, and as memory has it shown.           *)
Plain == [operation : {Review, Pause}, target : Targets, risk : {1, 3}, preference : {"none"}]
Shown == [operation : {Review, Pause}, target : Targets, risk : {1, 3},
          preference : {"none", "preferred", "deprioritized"}]

(* An action without its mark.                                             *)
Bare(action) == [action EXCEPT !.preference = "none"]

(* The actions without memory, about campaigns of the store.               *)
LEMMA AnalyzeIs ==
    ASSUME NEW threshold \in Thresholds
    PROVE  Analyze(Campaigns, threshold) \in Seq(Plain)
<1> DEFINE S == {i \in DOMAIN Campaigns :
                    Campaigns[i].active /\ Campaigns[i].roi < threshold}
           low == Ascending(S)
           n == Cardinality(S)
<1>1. DOMAIN Campaigns = 1 .. Len(Campaigns) /\ Len(Campaigns) \in Nat
  BY MemoryAssumption
<1>2. S \in SUBSET Int /\ IsFiniteSet(S) /\ S \subseteq DOMAIN Campaigns
  <2> DEFINE all == 1 .. Len(Campaigns)
  <2>1. S \subseteq all /\ S \subseteq DOMAIN Campaigns
    BY <1>1
  <2>2. IsFiniteSet(all)
    BY <1>1, FS_Interval
  <2>3. \A k \in all : k \in Int
    BY <1>1
  <2> HIDE DEF S, all
  <2>4. IsFiniteSet(S)
    BY <2>1, <2>2, FS_Subset
  <2> QED
    BY <2>1, <2>3, <2>4
<1>3. Analyze(Campaigns, threshold) =
        [p \in 1 .. 2 * Len(low) |->
            IF p % 2 = 1 THEN Proposed(Review, Campaigns[low[(p + 1) \div 2]].id, 1)
                         ELSE Proposed(Pause, Campaigns[low[(p + 1) \div 2]].id, 3)]
  BY DEF Analyze
<1> HIDE DEF S, low, n
<1>4. n \in Nat /\ low \in [1 .. n -> S] /\ Len(low) = n
  <2>1. Rising(low, S)
    BY <1>2, AscendingRises DEF low
  <2>2. n \in Nat /\ low \in [1 .. n -> S]
    BY <2>1 DEF Rising, n
  <2> QED
    BY <2>2
<1>5. \A p \in 1 .. 2 * n : (p + 1) \div 2 \in 1 .. n
  BY ONLY <1>4
<1>6. \A q \in 1 .. n : Campaigns[low[q]].id \in Targets
  <2> TAKE q \in 1 .. n
  <2>1. low[q] \in DOMAIN Campaigns
    BY <1>2, <1>4
  <2> QED
    BY <2>1 DEF Targets
<1>7. \A p \in 1 .. 2 * n : Campaigns[low[(p + 1) \div 2]].id \in Targets
  BY <1>5, <1>6
<1>8. \A t \in Targets : Proposed(Review, t, 1) \in Plain /\ Proposed(Pause, t, 3) \in Plain
  BY DEF Proposed, Plain
<1>9. Analyze(Campaigns, threshold) \in [1 .. 2 * n -> Plain]
  BY <1>3, <1>4, <1>7, <1>8
<1>10. 2 * n \in Nat
  BY <1>4
<1> QED
  BY <1>9, <1>10, SeqDef

(* What MemoryAdvises says of memories of one kind about an action: those  *)
(* the merchant ever gave, the newest of them that decides, and those that *)
(* are left in the profile.                                                *)
KnownOf(action, kind) ==
    {m \in learned \ lost : /\ m.kind = kind
                            /\ m.operation = action.operation
                            /\ m.target = action.target}

DecidedBy(action, kind) ==
    \E m \in KnownOf(action, kind) :
        /\ \A n \in KnownOf(action, kind) : n.updated <= m.updated
        /\ action.preference = PreferenceOf(m.polarity)

LeftOf(action, kind) == KnownOf(action, kind) \cap Range(profile) # {}

(* The last clause of MemoryAdvises.                                       *)
AsLastTold(action) ==
    IF LeftOf(action, "action_preference") THEN DecidedBy(action, "action_preference")
    ELSE IF LeftOf(action, "action_outcome") THEN DecidedBy(action, "action_outcome")
         ELSE action.preference = "none"

(* The places of the memories of one kind about an action.                 *)
PlacesOf(action, kind) == {i \in DOMAIN profile : profile[i] \in KnownOf(action, kind)}

(* The candidates are the explicit words and the outcomes about just this  *)
(* action on just this campaign, all of them exact.                        *)
LEMMA Candidates ==
    ASSUME AdviceInv, NEW action \in Plain
    PROVE  /\ \A i \in DOMAIN profile :
                 Matches(profile[i], action) <=>
                     i \in PlacesOf(action, "action_preference")
                           \cup PlacesOf(action, "action_outcome")
           /\ \A i \in DOMAIN profile :
                 Matches(profile[i], action) => IsExact(profile[i], action)
<1>1. action.target \in Targets /\ NoTarget \notin Targets
  BY MemoryAssumption DEF Plain
<1>2. ASSUME NEW i \in DOMAIN profile
      PROVE  /\ profile[i] \in learned \ lost
             /\ profile[i].kind # "diagnosis_episode" => profile[i].target \in Targets
  <2>1. profile[i] \in Range(profile) /\ Range(profile) \cap lost = {}
    BY DEF Range, AdviceInv, TornApart
  <2>2. profile[i] \in learned
    BY ElementOfSeq DEF AdviceInv, IInv, TypeOK
  <2> QED
    BY <2>1, <2>2 DEF AdviceInv, Aimed
<1> SUFFICES ASSUME NEW i \in DOMAIN profile
             PROVE  /\ Matches(profile[i], action) <=>
                          i \in PlacesOf(action, "action_preference")
                                \cup PlacesOf(action, "action_outcome")
                    /\ Matches(profile[i], action) => IsExact(profile[i], action)
  OBVIOUS
<1>3. Matches(profile[i], action) <=>
        /\ profile[i].operation = action.operation
        /\ profile[i].kind \in {"action_preference", "action_outcome"}
        /\ profile[i].target = action.target
  BY <1>1, <1>2 DEF Matches
<1> QED
  BY <1>1, <1>2, <1>3 DEF PlacesOf, KnownOf, IsExact

(* Where a word of the deciding kind is left, one is selected, and none of *)
(* that kind in the profile is newer.                                      *)
LEMMA SelectedIs ==
    ASSUME AdviceInv, NEW action \in Plain,
           NEW kind \in {"action_preference", "action_outcome"},
           PlacesOf(action, kind) # {},
           kind = "action_outcome" => PlacesOf(action, "action_preference") = {}
    PROVE  /\ SelectActionMemory(profile, action) # {}
           /\ \A s \in SelectActionMemory(profile, action) :
                 /\ s \in PlacesOf(action, kind)
                 /\ \A j \in PlacesOf(action, kind) : profile[j].updated <= profile[s].updated
<1> DEFINE E == PlacesOf(action, kind)
           C == {i \in DOMAIN profile : Matches(profile[i], action)}
           selected == SelectActionMemory(profile, action)
<1>1. /\ DOMAIN profile = 1 .. Len(profile) /\ Len(profile) \in Nat
      /\ \A i \in DOMAIN profile : profile[i].updated \in Int
  <2>1. \A i \in DOMAIN profile : profile[i] \in Facts
    BY ElementOfSeq DEF AdviceInv, IInv, TypeOK
  <2>2. \A x \in Facts : x.updated \in 0 .. LastTime
    BY DEF Facts
  <2>3. LastTime \in Nat
    BY MemoryAssumption
  <2> QED
    BY <2>1, <2>2, <2>3 DEF AdviceInv, IInv, TypeOK
<1>2. \A i, j \in DOMAIN profile : i < j => profile[i].updated >= profile[j].updated
  BY DEF AdviceInv, IInv, PushedOutByNewer
<1>3. /\ C = PlacesOf(action, "action_preference") \cup PlacesOf(action, "action_outcome")
      /\ \A i \in C : IsExact(profile[i], action)
  <2>1. PlacesOf(action, "action_preference") \subseteq DOMAIN profile
        /\ PlacesOf(action, "action_outcome") \subseteq DOMAIN profile
    BY DEF PlacesOf
  <2> QED
    BY <2>1, Candidates
<1>4. /\ E \subseteq C /\ C \subseteq DOMAIN profile
      /\ \A i \in E : profile[i].kind = kind
      /\ \A i \in C : i \in E \/ (kind = "action_preference" /\ profile[i].kind = "action_outcome")
  BY <1>3 DEF PlacesOf, KnownOf
<1>5. selected = {i \in C : \A j \in C : ~Outranks(profile[j], profile[i], action)}
  BY DEF SelectActionMemory
<1> HIDE DEF C, E, selected
<1>6. \A i \in E : \A j \in C : Outranks(profile[j], profile[i], action) <=>
         j \in E /\ profile[j].updated > profile[i].updated
  BY <1>3, <1>4 DEF Outranks, IsExplicit
<1>7. \A i \in C : \A j \in E : i \notin E => Outranks(profile[j], profile[i], action)
  BY <1>3, <1>4 DEF Outranks, IsExplicit
<1>8. E \in SUBSET Nat /\ E # {}
  BY <1>1, <1>4 DEF E
<1>9. PICK m \in E : \A k \in E : m <= k
  BY <1>8, Smallest
<1>10. m \in selected
  <2>1. ASSUME NEW j \in E PROVE ~(profile[j].updated > profile[m].updated)
    <3>1. m \in DOMAIN profile /\ j \in DOMAIN profile /\ m <= j
      BY <1>4, <1>9
    <3>2. m = j \/ m < j
      BY <1>1, <3>1
    <3>3. profile[m].updated >= profile[j].updated
      BY <1>1, <1>2, <3>1, <3>2
    <3> QED
      BY <1>1, <3>1, <3>3
  <2> QED
    BY <1>4, <1>5, <1>6, <2>1
<1>11. ASSUME NEW s \in selected
       PROVE  s \in E /\ \A j \in E : profile[j].updated <= profile[s].updated
  <2>1. s \in C /\ \A j \in C : ~Outranks(profile[j], profile[s], action)
    BY <1>5
  <2>2. s \in E
    BY <1>7, <1>9, <1>4, <2>1
  <2>3. \A j \in E : ~(profile[j].updated > profile[s].updated)
    BY <1>4, <1>6, <2>1, <2>2
  <2> QED
    BY <1>1, <1>4, <2>2, <2>3
<1> QED
  BY <1>10, <1>11 DEF E, selected

(* An annotated action is the proposed one, shown as it was last told.     *)
LEMMA AnnotatedIs ==
    ASSUME AdviceInv, NEW action \in Plain, NEW shown, shown = Annotated(action, profile)
    PROVE  /\ shown \in Shown
           /\ Bare(shown) = action
           /\ AsLastTold(shown)
<1> DEFINE selected == SelectActionMemory(profile, action)
           mark == IF selected = {} THEN "none" ELSE PreferenceOf(profile[Min(selected)].polarity)
<1>1. shown = [action EXCEPT !.preference = mark]
  BY DEF Annotated, Plain
<1>2. mark \in {"none", "preferred", "deprioritized"}
  BY DEF PreferenceOf
<1>3. selected \in SUBSET Nat /\ selected \subseteq DOMAIN profile
  <2>1. selected \subseteq DOMAIN profile
    BY DEF SelectActionMemory
  <2>2. DOMAIN profile \subseteq Nat
    BY DEF AdviceInv, IInv, TypeOK
  <2> QED
    BY <2>1, <2>2
<1>4. selected # {} => Min(selected) \in selected
  <2> HIDE DEF selected
  <2> QED
    BY <1>3, MinIs
<1>5. /\ selected # {} => mark = PreferenceOf(profile[Min(selected)].polarity)
      /\ selected = {} => mark = "none"
  OBVIOUS
<1> HIDE DEF mark, selected
<1>6. /\ shown \in Shown /\ Bare(shown) = action
      /\ shown.operation = action.operation /\ shown.target = action.target
      /\ shown.preference = mark
  BY <1>1, <1>2 DEF Plain, Shown, Bare
<1>7. \A kind : KnownOf(shown, kind) = KnownOf(action, kind)
  BY <1>6 DEF KnownOf
<1>8. \A kind : LeftOf(shown, kind) <=> PlacesOf(action, kind) # {}
  BY <1>7 DEF LeftOf, PlacesOf, Range
<1>9. ASSUME NEW kind \in {"action_preference", "action_outcome"},
             PlacesOf(action, kind) # {},
             kind = "action_outcome" => PlacesOf(action, "action_preference") = {}
      PROVE  DecidedBy(shown, kind)
  <2>1. PICK s \in PlacesOf(action, kind) :
           /\ mark = PreferenceOf(profile[s].polarity)
           /\ \A j \in PlacesOf(action, kind) : profile[j].updated <= profile[s].updated
    BY <1>4, <1>5, <1>9, SelectedIs DEF selected
  <2>2. profile[s] \in KnownOf(shown, kind) /\ s \in DOMAIN profile
    BY <1>7, <2>1 DEF PlacesOf
  <2>3. ASSUME NEW n \in KnownOf(shown, kind) PROVE n.updated <= profile[s].updated
    <3>1. CASE n \in Range(profile)
      <4>1. PICK j \in DOMAIN profile : profile[j] = n
        BY <3>1 DEF Range
      <4>2. j \in PlacesOf(action, kind)
        BY <1>7, <4>1 DEF PlacesOf
      <4> QED
        BY <2>1, <4>1, <4>2
    <3>2. CASE n \notin Range(profile)
      <4>1. n \in learned \ (lost \cup Range(profile))
        BY <3>2 DEF KnownOf
      <4>2. profile[s].updated >= n.updated
        BY <2>2, <4>1 DEF AdviceInv, IInv, PushedOutByNewer
      <4>3. profile[s] \in Facts /\ n \in Facts
        BY <2>2, <4>1 DEF KnownOf, AdviceInv, IInv, TypeOK
      <4>4. profile[s].updated \in 0 .. LastTime /\ n.updated \in 0 .. LastTime
        BY <4>3 DEF Facts
      <4> QED
        BY <4>2, <4>4, MemoryAssumption
    <3> QED
      BY <3>1, <3>2
  <2> QED
    BY <1>6, <2>1, <2>2, <2>3 DEF DecidedBy
<1>10. ASSUME PlacesOf(action, "action_preference") = {},
              PlacesOf(action, "action_outcome") = {}
       PROVE  shown.preference = "none"
  <2>1. \A i \in DOMAIN profile : ~Matches(profile[i], action)
    BY <1>10, Candidates
  <2>2. selected = {}
    BY <2>1 DEF selected, SelectActionMemory
  <2> QED
    BY <1>5, <1>6, <2>2
<1>11. AsLastTold(shown)
  BY <1>8, <1>9, <1>10 DEF AsLastTold
<1> QED
  BY <1>6, <1>11

(* The proposed actions as memory has them shown, still in their order.    *)
Annotations(actions) == [i \in DOMAIN actions |-> Annotated(actions[i], profile)]

(* What a run proposes is what it would propose without memory, in another *)
(* order.                                                                  *)
LEMMA Reordered ==
    ASSUME AdviceInv, NEW actions \in Seq(Plain),
           NEW proposal, proposal = ApplyMerchantMemory(actions, profile)
    PROVE  /\ proposal \in Seq(Shown) /\ Len(proposal) = Len(actions)
           /\ \A p \in DOMAIN proposal : \E i \in DOMAIN actions :
                 proposal[p] = Annotated(actions[i], profile)
           /\ \A i \in DOMAIN actions : \E p \in DOMAIN proposal :
                 proposal[p] = Annotated(actions[i], profile)
           /\ \A p, q \in DOMAIN proposal :
                 p < q => PreferenceRank(proposal[p]) >= PreferenceRank(proposal[q])
<1> DEFINE D == DOMAIN actions
           n == Len(actions)
           annotated == Annotations(actions)
           key == [i \in D |-> PreferenceRank(annotated[i])]
           places == Descending(key)
<1>1. D = 1 .. n /\ n \in Nat /\ \A i \in D : actions[i] \in Plain
  BY ElementOfSeq
<1>2. \A i \in D : annotated[i] = Annotated(actions[i], profile) /\ annotated[i] \in Shown
  BY <1>1, AnnotatedIs DEF Annotations
<1>3. annotated \in [D -> Shown]
  BY <1>2 DEF Annotations
<1>4. DOMAIN annotated = D /\ proposal = ElementsAt(annotated, places)
  BY DEF ApplyMerchantMemory, Annotations
<1>5. \A x : PreferenceRank(x) \in Nat
  BY DEF PreferenceRank
<1> HIDE DEF annotated
<1>6. key \in [D -> Nat]
  BY <1>5
<1>7. \A i \in D : key[i] = PreferenceRank(annotated[i])
  OBVIOUS
<1>8. D \in SUBSET Int /\ IsFiniteSet(D) /\ Cardinality(D) = n
  BY <1>1, FS_Interval
<1> HIDE DEF D, n, key, places
<1>9. Falling(places, key)
  BY <1>6, <1>8, DescendingFalls DEF places
<1>10. /\ places \in [1 .. n -> D]
       /\ \A p, q \in 1 .. n : p < q => key[places[p]] >= key[places[q]]
       /\ \A k \in D : \E p \in 1 .. n : places[p] = k
  BY <1>6, <1>8, <1>9 DEF Falling
<1>11. Taken(proposal, annotated, places, n, Shown)
  BY <1>1, <1>3, <1>4, <1>10, AtPlaces
<1>12. /\ proposal \in Seq(Shown) /\ Len(proposal) = n /\ DOMAIN proposal = 1 .. n
       /\ \A p \in 1 .. n : proposal[p] = annotated[places[p]]
  BY <1>11 DEF Taken
<1>13. \A p, q \in 1 .. n :
          p < q => PreferenceRank(proposal[p]) >= PreferenceRank(proposal[q])
  BY <1>7, <1>10, <1>12
<1>14. \A p \in 1 .. n : places[p] \in D /\ proposal[p] = Annotated(actions[places[p]], profile)
  BY <1>2, <1>10, <1>12
<1>15. \A i \in D : \E p \in 1 .. n : proposal[p] = Annotated(actions[i], profile)
  BY <1>10, <1>14
<1> QED
  BY <1>12, <1>13, <1>14, <1>15 DEF D, n

(* The inductive invariant of the advice.                                  *)
THEOREM AdviceInvariant == Spec => []AdviceInv
BY InitAdviceInv, NextAdviceInv, PTL DEF Spec

(* Memory changes the order and the marks of what a run proposes, never    *)
(* the actions or their risks, and the last explicit word about an action  *)
(* decides, then its last result (analyzer.go, ApplyMerchantMemory): for   *)
(* every history of feedbacks, failures and crashes.                       *)
THEOREM MemoryAdvisesHolds == Spec => []MemoryAdvises
<1>1. AdviceInv => MemoryAdvises
  <2> SUFFICES ASSUME AdviceInv, NEW threshold \in Thresholds,
                      NEW without, without = Analyze(Campaigns, threshold),
                      NEW proposal, proposal = ApplyMerchantMemory(without, profile)
               PROVE  /\ Len(proposal) = Len(without)
                      /\ {Bare(a) : a \in Range(proposal)} = Range(without)
                      /\ \A i, j \in DOMAIN proposal :
                            i < j => PreferenceRank(proposal[i]) >= PreferenceRank(proposal[j])
                      /\ \A action \in Range(proposal) : AsLastTold(action)
    BY DEF MemoryAdvises, Bare, AsLastTold, DecidedBy, LeftOf, KnownOf
  <2>1. without \in Seq(Plain) /\ \A i \in DOMAIN without : without[i] \in Plain
    BY AnalyzeIs, ElementOfSeq
  <2>2. /\ proposal \in Seq(Shown) /\ Len(proposal) = Len(without)
        /\ \A p \in DOMAIN proposal : \E i \in DOMAIN without :
              proposal[p] = Annotated(without[i], profile)
        /\ \A i \in DOMAIN without : \E p \in DOMAIN proposal :
              proposal[p] = Annotated(without[i], profile)
        /\ \A p, q \in DOMAIN proposal :
              p < q => PreferenceRank(proposal[p]) >= PreferenceRank(proposal[q])
    BY <2>1, Reordered
  <2>3. \A i \in DOMAIN without :
           /\ Bare(Annotated(without[i], profile)) = without[i]
           /\ AsLastTold(Annotated(without[i], profile))
    BY <2>1, AnnotatedIs
  <2>4. \A action \in Range(proposal) : AsLastTold(action)
    BY <2>2, <2>3 DEF Range
  <2>5. ASSUME NEW p \in DOMAIN proposal
        PROVE  Bare(proposal[p]) \in Range(without)
    <3>1. PICK i \in DOMAIN without : proposal[p] = Annotated(without[i], profile)
      BY <2>2
    <3>2. Bare(proposal[p]) = without[i]
      BY <2>3, <3>1
    <3> QED
      BY <3>2 DEF Range
  <2>6. ASSUME NEW i \in DOMAIN without
        PROVE  \E p \in DOMAIN proposal : without[i] = Bare(proposal[p])
    <3>1. PICK p \in DOMAIN proposal : proposal[p] = Annotated(without[i], profile)
      BY <2>2
    <3>2. Bare(proposal[p]) = without[i]
      BY <2>3, <3>1
    <3> QED
      BY <3>2
  <2>7. {Bare(a) : a \in Range(proposal)} = Range(without)
    <3> DEFINE bare == {Bare(a) : a \in Range(proposal)}
    <3>1. bare \subseteq Range(without)
      BY <2>5 DEF Range
    <3>2. Range(without) \subseteq bare
      BY <2>6 DEF Range
    <3> QED
      BY <3>1, <3>2
  <2> QED
    BY <2>2, <2>4, <2>7
<1> QED
  BY <1>1, AdviceInvariant, PTL

=============================================================================
