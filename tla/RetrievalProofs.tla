--------------------------- MODULE RetrievalProofs ---------------------------
(***************************************************************************)
(* Proofs about Retrieval and Chunking, for any documents, valid chunk     *)
(* sizes, rankings, answers of the services, weights, thresholds and       *)
(* limits.  The invariant IInv says of each stage of a search what the     *)
(* stages before have made of the hits: leaves that are each there once    *)
(* (Raw), in the order of their fused scores (ByRRF) and then of their     *)
(* reranked ones (ByRerank), then parents that have earned their places    *)
(* (Earned), while the best score stays in front.  What it needs:          *)
(*                                                                         *)
(*   - Arranged, and with it Ascending and Descending, puts every element  *)
(*     of a finite set in its place;                                       *)
(*   - fused scores are fractions whose order is transitive, and rounding  *)
(*     and normalizing keep it;                                            *)
(*   - MergeGroups, WithinBudget and sorting, as relations between a list  *)
(*     and the places of another (Regrouped, Thinned, Shuffled, Within),   *)
(*     and what such relations keep;                                       *)
(*   - the trees of ChunkTree and Corpus cover and locate (SoundTree), by  *)
(*     what windows, trimming and cutting up do on each level.             *)
(***************************************************************************)
EXTENDS Retrieval, FiniteSetTheorems, TLAPS

-----------------------------------------------------------------------------
(* Induction, recursion and division *)

(* A set of natural numbers has a smallest one.                            *)
LEMMA Smallest ==
    ASSUME NEW S \in SUBSET Nat, S # {}
    PROVE  \E m \in S : \A k \in S : m <= k
<1> DEFINE R == StrictSubsetOrdering(Nat)
           T == {1 .. n : n \in S}
<1>1. IsWellFoundedOn(R, FiniteSubsetsOf(Nat))
  BY FS_StrictSubsetOrderingWellFounded
<1>2. \A n \in Nat : 1 .. n \in FiniteSubsetsOf(Nat)
  BY FS_Interval DEF FiniteSubsetsOf
<1>3. T # {} /\ T \subseteq FiniteSubsetsOf(Nat)
  BY <1>2
<1> HIDE DEF T, R
<1>4. PICK x \in T : \A y \in T : ~(<<y, x>> \in R)
  BY <1>1, <1>3, WFMin, Zenon
<1>5. PICK m \in S : x = 1 .. m
  BY DEF T
<1>6. ASSUME NEW k \in S, k < m PROVE FALSE
  <2>1. 1 .. k \in T
    BY DEF T
  <2>2. (1 .. k) \subseteq (1 .. m) /\ (1 .. k) # (1 .. m)
    BY <1>6
  <2>3. <<1 .. k, x>> \in R
    BY <2>2, <1>5 DEF R, StrictSubsetOrdering
  <2> QED BY <2>1, <2>3, <1>4
<1> QED BY <1>6

(* Induction up to n, for what is said of the members of a set: its        *)
(* smallest exception would be neither 0 nor the successor of a member.    *)
LEMMA Induction ==
    ASSUME NEW n \in Nat, NEW S, 0 \in S,
           \A i \in 0 .. n - 1 : i \in S => i + 1 \in S
    PROVE  \A i \in 0 .. n : i \in S
<1> DEFINE exceptions == {i \in 0 .. n : i \notin S}
<1> SUFFICES ASSUME exceptions # {} PROVE FALSE
  OBVIOUS
<1>1. PICK m \in exceptions : \A k \in exceptions : m <= k
  <2>1. exceptions \in SUBSET Nat
    OBVIOUS
  <2> HIDE DEF exceptions
  <2> QED BY <2>1, Smallest
<1>2. m \in 0 .. n /\ m # 0 /\ m \notin S
  OBVIOUS
<1>3. m - 1 \in 0 .. n - 1 /\ m - 1 \notin exceptions /\ (m - 1) + 1 = m
  BY <1>1, <1>2
<1> QED BY <1>2, <1>3

(* A function that is defined by a step from each value to the next one    *)
(* exists.                                                                 *)
Iterates(n, V, v0, Step) ==
    {f \in [0 .. n -> V] : f[0] = v0 /\ \A i \in 1 .. n : f[i] = Step[i][f[i - 1]]}

(* A recursive function exists: the iterates up to n are built one by one.  *)
LEMMA Recursion ==
    ASSUME NEW n \in Nat, NEW V, NEW v0 \in V, NEW Step \in [1 .. n -> [V -> V]]
    PROVE  \E f : f \in Iterates(n, V, v0, Step)
<1> DEFINE Value(f, i) == IF i = 0 THEN v0 ELSE Step[i][f[i - 1]]
           Correct(f, m) == \A i \in 0 .. n : i <= m => f[i] = Value(f, i)
           S == {m \in 0 .. n : \E f \in [0 .. n -> V] : Correct(f, m)}
<1>1. 0 \in S
  <2>1. [i \in 0 .. n |-> v0] \in [0 .. n -> V] /\ Correct([i \in 0 .. n |-> v0], 0)
    OBVIOUS
  <2> QED BY <2>1
<1>2. \A m \in 0 .. n - 1 : m \in S => m + 1 \in S
  <2> TAKE m \in 0 .. n - 1
  <2> HAVE m \in S
  <2>1. PICK f \in [0 .. n -> V] : Correct(f, m)
    OBVIOUS
  <2> DEFINE g == [i \in 0 .. n |-> IF i <= m THEN f[i] ELSE Value(f, m + 1)]
  <2>2. Value(f, m + 1) \in V
    OBVIOUS
  <2>3. g \in [0 .. n -> V]
    BY <2>2
  <2>4. \A i \in 0 .. m : g[i] = f[i]
    OBVIOUS
  <2>5. g[m + 1] = Value(f, m + 1)
    OBVIOUS
  <2> HIDE DEF g
  <2>6. Value(g, m + 1) = Value(f, m + 1)
    BY <2>4, m \in 0 .. m, (m + 1) - 1 = m
  <2>7. \A i \in 0 .. m : Value(g, i) = Value(f, i)
    <3> TAKE i \in 0 .. m
    <3>1. i = 0 \/ i - 1 \in 0 .. m
      OBVIOUS
    <3> QED BY <2>4, <3>1
  <2>8. Correct(g, m + 1)
    <3> HIDE DEF Value
    <3>1. \A i \in 0 .. n : i <= m + 1 => i \in 0 .. m \/ i = m + 1
      OBVIOUS
    <3>2. \A i \in 0 .. m : i \in 0 .. n /\ i <= m
      OBVIOUS
    <3> QED BY <2>1, <2>4, <2>5, <2>6, <2>7, <3>1, <3>2
  <2> QED BY <2>3, <2>8
<1> HIDE DEF S
<1>3. n \in S
  BY <1>1, <1>2, Induction, n \in 0 .. n
<1>4. PICK f \in [0 .. n -> V] : Correct(f, n)
  BY <1>3 DEF S
<1>5. \A i \in 0 .. n : f[i] = Value(f, i)
  BY <1>4
<1>6. f[0] = v0 /\ \A i \in 1 .. n : f[i] = Step[i][f[i - 1]]
  BY <1>5
<1> QED BY <1>4, <1>6 DEF Iterates

(* The bounds of a quotient.                                                *)
LEMMA Division ==
    ASSUME NEW a \in Nat, NEW b \in Nat \ {0}, NEW c \in Nat
    PROVE  /\ a \div b \in Nat
           /\ a >= c * b => a \div b >= c
           /\ a < (c + 1) * b => a \div b <= c
<1>1. a \div b \in Nat /\ a = b * (a \div b) + (a % b) /\ (a % b) \in 0 .. b - 1
  OBVIOUS
<1> DEFINE q == a \div b
<1> HIDE DEF q
<1>2. q \in Nat /\ b * q <= a /\ a < b * q + b
  BY <1>1 DEF q
<1>3. ASSUME a >= c * b, q < c PROVE FALSE
  <2>1. PICK d \in Nat : c = q + 1 + d
    <3>1. c - q - 1 \in Nat /\ c = q + 1 + (c - q - 1)
      BY <1>2, <1>3
    <3> QED BY <3>1
  <2>2. c * b = b * q + b + d * b /\ d * b \in Nat
    BY <1>2, <2>1, SMT
  <2> QED BY <1>2, <1>3, <2>2
<1>4. ASSUME a < (c + 1) * b, q > c PROVE FALSE
  <2>1. PICK d \in Nat : q = c + 1 + d
    <3>1. q - c - 1 \in Nat /\ q = c + 1 + (q - c - 1)
      BY <1>2, <1>4
    <3> QED BY <3>1
  <2>2. b * q = (c + 1) * b + d * b /\ d * b \in Nat
    BY <1>2, <2>1, SMT
  <2> QED BY <1>2, <1>4, <2>2
<1> QED BY <1>2, <1>3, <1>4 DEF q

(* Division with a stride: the number of strides that go into n.           *)
LEMMA Strides ==
    ASSUME NEW n \in Nat, NEW stride \in Nat \ {0}
    PROVE  /\ n \div stride \in Nat
           /\ (n \div stride) * stride <= n
           /\ n < (n \div stride + 1) * stride
  <1>1. n = stride * (n \div stride) + (n % stride) /\ (n % stride) \in 0 .. stride - 1
    OBVIOUS
  <1>2. n \div stride \in Nat
    OBVIOUS
  <1> DEFINE q == n \div stride
             r == n % stride
  <1>3. q * stride = stride * q /\ (q + 1) * stride = stride * q + stride
    BY <1>2, SMT
  <1>4. n = stride * q + r /\ r \in 0 .. stride - 1
    BY <1>1
  <1> HIDE DEF q, r
  <1>5. stride * q \in Nat
    BY <1>2, SMT DEF q
  <1>6. q * stride <= n /\ n < (q + 1) * stride
    BY <1>3, <1>4, <1>5
  <1> QED BY <1>2, <1>6 DEF q

-----------------------------------------------------------------------------
(* Arrangements *)

(* A finite set of numbers has a largest one.                              *)
LEMMA Largest ==
    ASSUME NEW S \in SUBSET Int, IsFiniteSet(S), S # {}
    PROVE  \E m \in S : \A k \in S : k <= m
<1> DEFINE Above(x) == {y \in S : y > x}
           R == StrictSubsetOrdering(S)
           T == {Above(x) : x \in S}
<1>1. IsWellFoundedOn(R, FiniteSubsetsOf(S))
  BY FS_StrictSubsetOrderingWellFounded
<1>2. \A x \in S : Above(x) \in FiniteSubsetsOf(S)
  BY FS_Subset DEF FiniteSubsetsOf
<1>3. T # {} /\ T \subseteq FiniteSubsetsOf(S)
  BY <1>2
<1> HIDE DEF T, R
<1>4. PICK a \in T : \A b \in T : ~(<<b, a>> \in R)
  BY <1>1, <1>3, WFMin, Zenon
<1>5. PICK m \in S : a = Above(m)
  BY DEF T
<1>6. ASSUME NEW k \in S, k > m PROVE FALSE
  <2>1. Above(k) \in T
    BY DEF T
  <2>0. k \in Int /\ m \in Int /\ \A y \in S : y \in Int
    OBVIOUS
  <2>2. Above(k) \subseteq Above(m) /\ k \in Above(m) /\ k \notin Above(k)
    <3>1. k \in Above(m)
      BY <2>0, <1>6
    <3>2. k \notin Above(k)
      BY <2>0
    <3>3. ASSUME NEW y \in Above(k) PROVE y \in Above(m)
      <4>1. y \in S /\ y > k /\ y \in Int
        BY <2>0
      <4> QED BY <4>1, <2>0, <1>6
    <3> HIDE DEF Above
    <3> QED BY <3>1, <3>2, <3>3
  <2>3. <<Above(k), a>> \in R
    BY <2>2, <1>5 DEF R, StrictSubsetOrdering
  <2> QED BY <2>1, <2>3, <1>4
<1> QED BY <1>6

(* Max and Min of the community module, of the sets it is asked about.     *)
LEMMA MaxIs ==
    ASSUME NEW S \in SUBSET Int, IsFiniteSet(S), S # {}
    PROVE  Max(S) \in S /\ \A k \in S : k <= Max(S)
<1>1. \E m \in S : \A k \in S : m >= k
  BY Largest
<1> QED BY <1>1 DEF Max

(* The least element is what Min chooses.                                   *)
LEMMA MinIs ==
    ASSUME NEW S \in SUBSET Nat, S # {}
    PROVE  Min(S) \in S /\ \A k \in S : Min(S) <= k
<1>1. \E m \in S : \A k \in S : m <= k
  BY Smallest
<1> QED BY <1>1 DEF Min

(* R orders S, and orders no member before itself.                        *)
StrictOrder(S, R) ==
    /\ \A k \in S : <<k, k>> \notin R
    /\ \A j, k \in S : j # k => <<j, k>> \in R \/ <<k, j>> \in R
    /\ \A i, j, k \in S : <<i, j>> \in R /\ <<j, k>> \in R => <<i, k>> \in R

(* A list of all members of S, none twice, in the order of R.              *)
InOrder(a, S, R) ==
    /\ Cardinality(S) \in Nat
    /\ a \in [1 .. Cardinality(S) -> S]
    /\ \A p, q \in 1 .. Cardinality(S) : p < q => <<a[p], a[q]>> \in R
    /\ \A p, q \in 1 .. Cardinality(S) : p # q => a[p] # a[q]
    /\ \A k \in S : \E p \in 1 .. Cardinality(S) : a[p] = k

(* As many places as there are members, and no two members with as many    *)
(* others before them.                                                     *)
LEMMA Arrangement ==
    ASSUME NEW S, IsFiniteSet(S), NEW R, StrictOrder(S, R)
    PROVE  InOrder(Arranged(S, R), S, R)
<1> DEFINE n == Cardinality(S)
           Before(k) == {j \in S : <<j, k>> \in R}
           rank == [k \in S |-> Cardinality(Before(k))]
<1>1. n \in Nat
  BY FS_CardinalityType
<1>2. \A k \in S : IsFiniteSet(Before(k)) /\ rank[k] \in Nat /\ rank[k] < n
  <2> TAKE k \in S
  <2>1. Before(k) \subseteq S /\ k \notin Before(k)
    BY DEF StrictOrder
  <2> HIDE DEF Before
  <2>2. /\ IsFiniteSet(Before(k)) /\ Cardinality(Before(k)) <= n
        /\ n = Cardinality(Before(k)) => S = Before(k)
    BY <2>1, FS_Subset
  <2>3. Cardinality(Before(k)) \in Nat
    BY <2>2, FS_CardinalityType
  <2>4. Cardinality(Before(k)) < n
    <3> HIDE DEF n
    <3> QED BY <1>1, <2>1, <2>2, <2>3
  <2> QED BY <2>2, <2>3, <2>4
<1>3. \A j, k \in S : <<j, k>> \in R => rank[j] < rank[k]
  <2> TAKE j, k \in S
  <2> HAVE <<j, k>> \in R
  <2>1. Before(j) \subseteq Before(k) /\ j \in Before(k) /\ j \notin Before(j)
    BY DEF StrictOrder
  <2> HIDE DEF Before
  <2>2. IsFiniteSet(Before(k)) /\ Cardinality(Before(k)) \in Nat /\ Cardinality(Before(j)) \in Nat
    BY <1>2
  <2>3. /\ Cardinality(Before(j)) <= Cardinality(Before(k))
        /\ Cardinality(Before(k)) = Cardinality(Before(j)) => Before(k) = Before(j)
    BY <2>1, <2>2, FS_Subset
  <2>4. Cardinality(Before(j)) < Cardinality(Before(k))
    BY <2>1, <2>2, <2>3
  <2> QED BY <2>4
<1>4. \A j, k \in S : j # k => rank[j] # rank[k]
  <2> TAKE j, k \in S
  <2> HAVE j # k
  <2>1. rank[j] < rank[k] \/ rank[k] < rank[j]
    BY <1>3 DEF StrictOrder
  <2> QED BY <2>1, <1>2
<1>5. \A p \in 1 .. n : \E k \in S : rank[k] = p - 1
  <2>1. rank \in Injection(S, 0 .. n - 1)
    <3>1. DOMAIN rank = S
      OBVIOUS
    <3>2. \A k \in S : rank[k] \in 0 .. n - 1
      <4> HIDE DEF rank, n, Before
      <4> TAKE k \in S
      <4>1. rank[k] \in Nat /\ rank[k] < n
        BY <1>2
      <4> QED BY <1>1, <4>1
    <3>3. rank \in [S -> 0 .. n - 1]
      BY <3>2
    <3> HIDE DEF rank, n
    <3> QED BY <3>1, <3>3, <1>4 DEF Injection, IsInjective
  <2>2. IsFiniteSet(0 .. n - 1) /\ Cardinality(0 .. n - 1) = n
    BY <1>1, FS_Interval
  <2>3. rank \in Surjection(S, 0 .. n - 1)
    <3> HIDE DEF rank
    <3> QED BY <2>1, <2>2, FS_Injection
  <2> TAKE p \in 1 .. n
  <2>4. p - 1 \in 0 .. n - 1
    BY <1>1
  <2> HIDE DEF rank, n
  <2> QED BY <2>3, <2>4 DEF Surjection
<1> HIDE DEF n
<1>6. \A p \in 1 .. n : Arranged(S, R)[p] \in S /\ rank[Arranged(S, R)[p]] = p - 1
  <2> TAKE p \in 1 .. n
  <2>1. Arranged(S, R)[p] = CHOOSE k \in S : Cardinality(Before(k)) = p - 1
    BY DEF Arranged, n
  <2>2. \E k \in S : Cardinality(Before(k)) = p - 1
    BY <1>5
  <2>3. Arranged(S, R)[p] \in S /\ Cardinality(Before(Arranged(S, R)[p])) = p - 1
    <3> HIDE DEF Before
    <3> QED BY <2>1, <2>2
  <2> QED BY <2>3
<1>7. Arranged(S, R) \in [1 .. n -> S]
  BY <1>6 DEF Arranged, n
<1> DEFINE a == Arranged(S, R)
<1> HIDE DEF a, rank
<1>8. \A p, q \in 1 .. n : p < q => <<a[p], a[q]>> \in R
  <2> TAKE p, q \in 1 .. n
  <2> HAVE p < q
  <2>1. a[p] \in S /\ a[q] \in S /\ rank[a[p]] = p - 1 /\ rank[a[q]] = q - 1
    BY <1>6 DEF a
  <2>2. a[p] # a[q] /\ ~(rank[a[q]] < rank[a[p]])
    BY <2>1, <1>1
  <2> QED BY <2>1, <2>2, <1>3 DEF StrictOrder
<1>9. \A p, q \in 1 .. n : p # q => a[p] # a[q]
  BY <1>6, <1>1 DEF a
<1>10. \A k \in S : \E p \in 1 .. n : a[p] = k
  <2> TAKE k \in S
  <2>1. rank[k] \in Nat /\ rank[k] < n
    BY <1>2 DEF rank
  <2>2. rank[k] + 1 \in 1 .. n /\ (rank[k] + 1) - 1 = rank[k]
    BY <2>1, <1>1
  <2>3. a[rank[k] + 1] = k
    BY <2>2, <1>6, <1>4 DEF a
  <2> QED BY <2>2, <2>3
<1> QED BY <1>1, <1>7, <1>8, <1>9, <1>10 DEF InOrder, n, a

(* The members of a set of numbers, smallest first.                        *)
Rising(a, S) ==
    /\ Cardinality(S) \in Nat
    /\ a \in [1 .. Cardinality(S) -> S]
    /\ \A p, q \in 1 .. Cardinality(S) : p < q => a[p] < a[q]
    /\ \A k \in S : \E p \in 1 .. Cardinality(S) : a[p] = k

(* Ascending lists a set of numbers in their order.                         *)
LEMMA AscendingRises ==
    ASSUME NEW S \in SUBSET Int, IsFiniteSet(S)
    PROVE  Rising(Ascending(S), S)
<1> DEFINE R == {e \in S \X S : e[1] < e[2]}
<1>1. \A j, k \in S : <<j, k>> \in R <=> j < k
  <2> TAKE j, k \in S
  <2>1. <<j, k>> \in S \X S /\ <<j, k>>[1] = j /\ <<j, k>>[2] = k
    OBVIOUS
  <2> QED BY <2>1
<1> HIDE DEF R
<1>2. \A k \in S : k \in Int
  OBVIOUS
<1>3. StrictOrder(S, R)
  BY <1>1, <1>2 DEF StrictOrder
<1>4. InOrder(Arranged(S, R), S, R)
  BY <1>3, Arrangement
<1>5. Ascending(S) = Arranged(S, R)
  BY DEF Ascending, R
<1> DEFINE a == Arranged(S, R)
           n == Cardinality(S)
<1> HIDE DEF a, n
<1>6. /\ n \in Nat /\ a \in [1 .. n -> S]
      /\ \A p, q \in 1 .. n : p < q => <<a[p], a[q]>> \in R
      /\ \A k \in S : \E p \in 1 .. n : a[p] = k
  BY <1>4 DEF InOrder, a, n
<1>7. \A p, q \in 1 .. n : p < q => a[p] < a[q]
  BY <1>1, <1>6
<1> QED BY <1>5, <1>6, <1>7 DEF Rising, a, n

(* The places of a list, the highest key first.                            *)
Falling(a, key) ==
    /\ Cardinality(DOMAIN key) \in Nat
    /\ a \in [1 .. Cardinality(DOMAIN key) -> DOMAIN key]
    /\ \A p, q \in 1 .. Cardinality(DOMAIN key) : p < q => key[a[p]] >= key[a[q]]
    /\ \A p, q \in 1 .. Cardinality(DOMAIN key) : p # q => a[p] # a[q]
    /\ \A k \in DOMAIN key : \E p \in 1 .. Cardinality(DOMAIN key) : a[p] = k

(* Descending lists places by falling key, every one once.                  *)
LEMMA DescendingFalls ==
    ASSUME NEW S \in SUBSET Int, IsFiniteSet(S), NEW key \in [S -> Nat]
    PROVE  Falling(Descending(key), key)
<1> DEFINE R == {e \in S \X S :
                    key[e[1]] > key[e[2]] \/ (key[e[1]] = key[e[2]] /\ e[1] < e[2])}
<1>1. \A j, k \in S : <<j, k>> \in R <=> key[j] > key[k] \/ (key[j] = key[k] /\ j < k)
  <2> TAKE j, k \in S
  <2>1. <<j, k>> \in S \X S /\ <<j, k>>[1] = j /\ <<j, k>>[2] = k
    OBVIOUS
  <2> QED BY <2>1
<1>2. Descending(key) = Arranged(S, R) /\ DOMAIN key = S
  BY DEF Descending
<1> HIDE DEF R
<1>3. \A k \in S : k \in Int /\ key[k] \in Nat
  OBVIOUS
<1>4. StrictOrder(S, R)
  BY <1>1, <1>3 DEF StrictOrder
<1>5. InOrder(Arranged(S, R), S, R)
  BY <1>4, Arrangement
<1> DEFINE a == Arranged(S, R)
           n == Cardinality(S)
<1> HIDE DEF a, n
<1>6. /\ n \in Nat /\ a \in [1 .. n -> S]
      /\ \A p, q \in 1 .. n : p < q => <<a[p], a[q]>> \in R
      /\ \A p, q \in 1 .. n : p # q => a[p] # a[q]
      /\ \A k \in S : \E p \in 1 .. n : a[p] = k
  BY <1>5 DEF InOrder, a, n
<1>7. \A p, q \in 1 .. n : p < q => key[a[p]] >= key[a[q]]
  <2> TAKE p, q \in 1 .. n
  <2> HAVE p < q
  <2>1. a[p] \in S /\ a[q] \in S /\ <<a[p], a[q]>> \in R
    BY <1>6
  <2>2. key[a[p]] > key[a[q]] \/ key[a[p]] = key[a[q]]
    BY <1>1, <2>1
  <2>3. key[a[p]] \in Nat /\ key[a[q]] \in Nat
    BY <1>3, <2>1
  <2> QED BY <2>2, <2>3
<1> QED BY <1>2, <1>6, <1>7 DEF Falling, a, n

(* What ElementsAt makes of a list and n places in it.                     *)
Taken(new, list, places, n, E) ==
    /\ new \in Seq(E) /\ Len(new) = n
    /\ \A p \in 1 .. n : new[p] = list[places[p]]

(* What a list has at given places.                                         *)
LEMMA AtPlaces ==
    ASSUME NEW D, NEW E, NEW list \in [D -> E], NEW n \in Nat, NEW places \in [1 .. n -> D]
    PROVE  Taken(ElementsAt(list, places), list, places, n, E)
<1> DEFINE f == [p \in DOMAIN places |-> list[places[p]]]
<1>1. f \in [1 .. n -> E]
  OBVIOUS
<1>2. f \in Seq(E) /\ Len(f) = n
  <2> HIDE DEF f
  <2> QED BY <1>1
<1>3. f \o <<>> = f
  <2> HIDE DEF f
  <2> QED BY <1>2
<1>4. ElementsAt(list, places) = f
  BY <1>3 DEF ElementsAt
<1> QED BY <1>2, <1>4 DEF Taken

(* A prefix.                                                               *)
Starts(small, list, n, E) ==
    /\ small \in Seq(E) /\ Len(small) = Least(n, Len(list))
    /\ Len(small) \in 0 .. Len(list)
    /\ \A p \in 1 .. Len(small) : p \in 1 .. Len(list) /\ small[p] = list[p]

(* Prefix keeps the start of a list.                                        *)
LEMMA PrefixOf ==
    ASSUME NEW E, NEW list \in Seq(E), NEW n \in Nat
    PROVE  Starts(Prefix(list, n), list, n, E)
<1>1. Least(n, Len(list)) \in 0 .. Len(list)
  BY DEF Least
<1> DEFINE m == Least(n, Len(list))
<1> HIDE DEF m
<1>2. m \in 0 .. Len(list) /\ Prefix(list, n) = SubSeq(list, 1, m)
  BY <1>1 DEF Prefix, m
<1>3. SubSeq(list, 1, m) \in Seq(E) /\ Len(SubSeq(list, 1, m)) = m
      /\ \A p \in 1 .. m : p \in 1 .. Len(list) /\ SubSeq(list, 1, m)[p] = list[p]
  BY <1>2
<1> QED BY <1>2, <1>3 DEF m, Starts

(* Some place has the highest key.                                         *)
LEMMA HighestKey ==
    ASSUME NEW S \in SUBSET Int, IsFiniteSet(S), S # {}, NEW key \in [S -> Nat]
    PROVE  \E m \in S : \A k \in S : key[k] <= key[m]
<1> DEFINE a == Descending(key)
           n == Cardinality(S)
<1>1. DOMAIN key = S
  OBVIOUS
<1>2. Falling(a, key)
  BY DescendingFalls
<1> HIDE DEF a, n
<1>3. /\ n \in Nat /\ a \in [1 .. n -> S]
      /\ \A p, q \in 1 .. n : p < q => key[a[p]] >= key[a[q]]
      /\ \A k \in S : \E p \in 1 .. n : a[p] = k
  BY <1>1, <1>2 DEF Falling, n
<1>4. 1 \in 1 .. n
  <2>1. PICK k \in S : TRUE
    OBVIOUS
  <2>2. PICK p \in 1 .. n : a[p] = k
    BY <1>3
  <2> QED BY <1>3, <2>2
<1>5. a[1] \in S
  BY <1>3, <1>4
<1>6. ASSUME NEW k \in S PROVE key[k] <= key[a[1]]
  <2>1. PICK p \in 1 .. n : a[p] = k
    BY <1>3
  <2>2. p = 1 \/ 1 < p
    OBVIOUS
  <2>3. key[a[1]] \in Nat /\ key[k] \in Nat
    BY <1>5
  <2> QED BY <1>3, <1>4, <2>1, <2>2, <2>3
<1> QED BY <1>5, <1>6

(* The highest of some keys and a number: it is one of them, and no less   *)
(* than any.                                                               *)
LEMMA MaxOfKeys ==
    ASSUME NEW S \in SUBSET Int, IsFiniteSet(S), NEW key \in [S -> Nat], NEW t \in Nat
    PROVE  /\ Max({t} \cup {key[k] : k \in S}) \in Nat
           /\ t <= Max({t} \cup {key[k] : k \in S})
           /\ \A k \in S : key[k] <= Max({t} \cup {key[k2] : k2 \in S})
           /\ \/ Max({t} \cup {key[k] : k \in S}) = t
              \/ \E k \in S : Max({t} \cup {key[k2] : k2 \in S}) = key[k]
<1> DEFINE T == {t} \cup {key[k] : k \in S}
<1>1. T \subseteq Nat /\ t \in T /\ (\A k \in S : key[k] \in T)
      /\ \A x \in T : x = t \/ \E k \in S : x = key[k]
  OBVIOUS
<1>2. \E m \in T : \A x \in T : m >= x
  <2>1. CASE S = {}
    <3>1. \A x \in T : x = t
      BY <2>1
    <3> HIDE DEF T
    <3> QED BY <1>1, <3>1
  <2>2. CASE S # {}
    <3>1. PICK m \in S : \A k \in S : key[k] <= key[m]
      BY <2>2, HighestKey
    <3>2. key[m] \in Nat
      OBVIOUS
    <3> HIDE DEF T
    <3>3. CASE key[m] >= t
      BY <1>1, <3>1, <3>2, <3>3
    <3>4. CASE t > key[m]
      <4>1. \A x \in T : t >= x
        <5> TAKE x \in T
        <5>1. CASE x = t
          BY <5>1
        <5>2. CASE \E k \in S : x = key[k]
          <6>1. PICK k \in S : x = key[k]
            BY <5>2
          <6>2. x <= key[m] /\ x \in Nat
            BY <3>1, <6>1, <1>1
          <6> QED BY <3>2, <3>4, <6>2
        <5> QED BY <1>1, <5>1, <5>2
      <4> QED BY <1>1, <4>1
    <3> QED BY <3>2, <3>3, <3>4
  <2> QED BY <2>1, <2>2
<1> HIDE DEF T
<1>3. Max(T) \in T /\ \A x \in T : Max(T) >= x
  BY <1>2 DEF Max
<1>4. Max(T) \in Nat /\ t <= Max(T) /\ \A k \in S : key[k] <= Max(T)
  BY <1>1, <1>3
<1>5. Max(T) = t \/ \E k \in S : Max(T) = key[k]
  BY <1>1, <1>3
<1> QED BY <1>4, <1>5 DEF T

-----------------------------------------------------------------------------
(* Fused scores *)

(* Multiplication keeps the order of numbers.                              *)
LEMMA Products ==
    ASSUME NEW a \in Nat, NEW b \in Nat, NEW c \in Nat
    PROVE  /\ a * c \in Nat
           /\ a <= b => a * c <= b * c
           /\ a < b /\ c > 0 => a * c < b * c
<1>1. a * c \in Nat /\ b * c \in Nat
  BY SMT
<1>2. ASSUME a <= b PROVE a * c <= b * c
  <2>1. PICK d \in Nat : b = a + d
    <3>1. b - a \in Nat /\ b = a + (b - a)
      BY <1>2
    <3> QED BY <3>1
  <2>2. b * c = a * c + d * c /\ d * c \in Nat
    BY <2>1, SMT
  <2> QED BY <1>1, <2>2
<1>3. ASSUME a < b, c > 0 PROVE a * c < b * c
  <2>1. PICK d \in Nat : b = a + 1 + d
    <3>1. b - a - 1 \in Nat /\ b = a + 1 + (b - a - 1)
      BY <1>3
    <3> QED BY <3>1
  <2>2. b * c = a * c + c + d * c /\ d * c \in Nat
    BY <2>1, SMT
  <2> QED BY <1>1, <1>3, <2>2
<1> QED BY <1>1, <1>2, <1>3

(* The order of fractions: from g no less than h and f no less than g it   *)
(* follows that f is no less than h, and more if either is more.           *)
LEMMA Fractions ==
    ASSUME NEW a \in Nat, NEW b \in Nat \ {0}, NEW c \in Nat, NEW d \in Nat \ {0},
           NEW e \in Nat, NEW f \in Nat \ {0},
           c * b <= a * d, e * d <= c * f
    PROVE  /\ e * b <= a * f
           /\ c * b < a * d \/ e * d < c * f => e * b < a * f
<1>1. /\ (e * d) * b <= (c * f) * b /\ (e * d < c * f => (e * d) * b < (c * f) * b)
      /\ (c * b) * f <= (a * d) * f /\ (c * b < a * d => (c * b) * f < (a * d) * f)
  <2>1. e * d \in Nat /\ c * f \in Nat /\ c * b \in Nat /\ a * d \in Nat
    BY Products
  <2> QED BY <2>1, Products
<1>2. (c * f) * b = (c * b) * f /\ (e * d) * b = (e * b) * d /\ (a * d) * f = (a * f) * d
  BY SMT
<1> DEFINE x == e * b
           y == a * f
<1>3. x \in Nat /\ y \in Nat
  BY Products
<1> HIDE DEF x, y
<1>4. x * d \in Nat /\ y * d \in Nat /\ (c * b) * f \in Int
  BY <1>3, SMT
<1>5. x * d <= y * d /\ (c * b < a * d \/ e * d < c * f => x * d < y * d)
  <2>1. x * d <= (c * b) * f /\ (c * b) * f <= y * d
        /\ (e * d < c * f => x * d < (c * b) * f) /\ (c * b < a * d => (c * b) * f < y * d)
    BY <1>1, <1>2 DEF x, y
  <2> DEFINE m == (c * b) * f
             u == x * d
             v == y * d
  <2> HIDE DEF m, u, v
  <2>2. m \in Int /\ u \in Nat /\ v \in Nat
    BY <1>4 DEF m, u, v
  <2>3. u <= m /\ m <= v /\ (e * d < c * f => u < m) /\ (c * b < a * d => m < v)
    BY <2>1 DEF m, u, v
  <2>4. u <= v /\ (c * b < a * d \/ e * d < c * f => u < v)
    BY <2>2, <2>3
  <2> QED BY <2>4 DEF u, v
<1>6. y < x => y * d < x * d
  BY <1>3, Products
<1>7. y <= x => y * d <= x * d
  BY <1>3, Products
<1>8. ~(y < x)
  BY <1>4, <1>5, <1>6
<1>9. ASSUME c * b < a * d \/ e * d < c * f PROVE x < y
  BY <1>3, <1>4, <1>5, <1>7, <1>9
<1> QED BY <1>3, <1>8, <1>9 DEF x, y

Positive(f) == f = <<f[1], f[2]>> /\ f[1] \in Nat /\ f[2] \in Nat \ {0}

(* Sorting by exact fractions, ties by place, is a strict order.           *)
LEMMA AheadOrders ==
    ASSUME NEW S \in SUBSET Int, NEW score, \A i \in S : Positive(score[i]), NEW R,
           \A i, j \in S : <<i, j>> \in R <=>
              Ahead(score[i], score[j]) \/ (~Ahead(score[j], score[i]) /\ i < j)
    PROVE  StrictOrder(S, R)
<1> DEFINE num(i) == score[i][1]
           den(i) == score[i][2]
<1>1. \A i, j \in S : Ahead(score[i], score[j]) <=> num(i) * den(j) > num(j) * den(i)
  BY DEF Ahead
<1>2. \A i \in S : num(i) \in Nat /\ den(i) \in Nat \ {0}
  BY DEF Positive
<1>3. \A i, j \in S : num(i) * den(j) \in Nat
  BY <1>2, Products
<1>4. \A i, j, k \in S :
         num(j) * den(i) <= num(i) * den(j) /\ num(k) * den(j) <= num(j) * den(k) =>
            /\ num(k) * den(i) <= num(i) * den(k)
            /\ num(j) * den(i) < num(i) * den(j) \/ num(k) * den(j) < num(j) * den(k) =>
                  num(k) * den(i) < num(i) * den(k)
  <2> TAKE i, j, k \in S
  <2> HAVE num(j) * den(i) <= num(i) * den(j) /\ num(k) * den(j) <= num(j) * den(k)
  <2>1. /\ num(i) \in Nat /\ num(j) \in Nat /\ num(k) \in Nat
        /\ den(i) \in Nat \ {0} /\ den(j) \in Nat \ {0} /\ den(k) \in Nat \ {0}
    BY <1>2
  <2> HIDE DEF num, den
  <2> QED BY <2>1, Fractions
<1> HIDE DEF num, den
<1> DEFINE less(i, j) == num(i) * den(j) < num(j) * den(i)
<1>5. \A i, j \in S : Ahead(score[i], score[j]) <=> less(j, i)
  BY <1>1, <1>3
<1>6. \A i, j \in S : ~(less(i, j) /\ less(j, i))
  BY <1>3
<1>7. \A i, j, k \in S : ~less(i, j) /\ ~less(j, k) =>
         ~less(i, k) /\ (less(j, i) \/ less(k, j) => less(k, i))
  BY <1>3, <1>4
<1> HIDE DEF less
<1>8. \A i, j \in S : <<i, j>> \in R <=> less(j, i) \/ (~less(i, j) /\ i < j)
  BY <1>5
<1>9. \A i \in S : i \in Int
  OBVIOUS
<1>10. \A i \in S : <<i, i>> \notin R
  BY <1>6, <1>8, <1>9
<1>11. \A j, k \in S : j # k => <<j, k>> \in R \/ <<k, j>> \in R
  BY <1>8, <1>9
<1>12. \A i, j, k \in S : <<i, j>> \in R /\ <<j, k>> \in R => <<i, k>> \in R
  <2> TAKE i, j, k \in S
  <2> HAVE <<i, j>> \in R /\ <<j, k>> \in R
  <2>1. ~less(i, j) /\ ~less(j, k)
    BY <1>6, <1>8
  <2>2. ~less(i, k) /\ (less(j, i) \/ less(k, j) => less(k, i))
    BY <1>7, <2>1
  <2>3. (less(j, i) \/ i < j) /\ (less(k, j) \/ j < k)
    BY <1>8
  <2>4. less(k, i) \/ i < k
    BY <1>9, <2>2, <2>3
  <2> QED BY <1>8, <2>2, <2>4
<1> QED BY <1>10, <1>11, <1>12 DEF StrictOrder

(* Rounding keeps the order of fractions of one whole.                      *)
LEMMA RoundedIs ==
    ASSUME NEW part \in Nat, NEW whole \in Nat \ {0}
    PROVE  /\ Rounded(part, whole) \in Nat
           /\ \A less \in Nat : less <= part => Rounded(less, whole) <= Rounded(part, whole)
<1> DEFINE x(n) == 2 * n + whole
           b == 2 * whole
<1>1. b \in Nat \ {0} /\ \A n \in Nat : x(n) \in Nat /\ Rounded(n, whole) = x(n) \div b
  BY DEF Rounded
<1>2. \A less \in Nat : less <= part => x(less) <= x(part)
  OBVIOUS
<1> HIDE DEF x, b
<1>3. \A n \in Nat : Rounded(n, whole) \in Nat
  BY <1>1, Strides
<1>4. ASSUME NEW less \in Nat, less <= part PROVE Rounded(less, whole) <= Rounded(part, whole)
  <2> DEFINE c == x(less) \div b
  <2>1. x(less) \in Nat /\ x(part) \in Nat /\ x(less) <= x(part)
    BY <1>1, <1>2, <1>4
  <2>2. c \in Nat /\ c * b <= x(less)
    BY <1>1, <2>1, Strides
  <2>3. c * b \in Nat
    BY <1>1, <2>2, Products
  <2> HIDE DEF c
  <2>4. x(part) \div b >= c /\ x(part) \div b \in Nat
    <3>1. x(part) >= c * b
      BY <2>1, <2>2, <2>3
    <3> QED BY <1>1, <2>1, <2>2, <3>1, Division
  <2>5. Rounded(less, whole) = c /\ Rounded(part, whole) = x(part) \div b
    BY <1>1 DEF c
  <2> QED BY <2>2, <2>4, <2>5
<1> QED BY <1>3, <1>4

(* What RetrievalAssumption says of the numbers.                           *)
LEMMA Numbers ==
    /\ TopK \in Nat \ {0} /\ CandidateK \in Nat \ {0} /\ RRFK \in Nat \ {0}
    /\ BatchSize \in Nat \ {0} /\ CandidateK >= TopK
    /\ DenseWeight \in Nat /\ SparseWeight \in Nat
    /\ Matches \subseteq Nat /\ Scores \subseteq Nat
<1>1. {TopK, CandidateK, RRFK, BatchSize} \subseteq Nat \ {0} /\ CandidateK >= TopK
      /\ {DenseWeight, SparseWeight} \cup Matches \cup Scores \subseteq Nat
  BY RetrievalAssumption
<1> QED BY <1>1, Zenon

(* A fused score is a fraction, with something below the line.              *)
LEMMA FusedScores ==
    ASSUME NEW E, NEW dense \in Seq(E), NEW sparse \in Seq(E), NEW i
    PROVE  Positive(FusedScore(dense, sparse, i)) /\ RRF(dense, sparse, i) \in Nat
<1>1. ASSUME NEW weight \in Nat, NEW list \in Seq(E)
      PROVE  Share(weight, list, i)[1] \in Nat /\ Share(weight, list, i)[2] \in Nat \ {0}
  <2>1. CASE Contains(list, i)
    <3>1. \E p \in DOMAIN list : list[p] = i
      BY <2>1 DEF Contains
    <3>2. Position(list, i) \in DOMAIN list
      BY <3>1 DEF Position
    <3>3. Share(weight, list, i) = <<weight, RRFK + Position(list, i)>>
      BY <2>1 DEF Share
    <3>4. RRFK + Position(list, i) \in Nat \ {0}
      <4>1. Position(list, i) \in Nat
        BY <3>2
      <4> QED BY <4>1, Numbers
    <3> QED BY <3>3, <3>4
  <2>2. CASE ~Contains(list, i)
    BY <2>2 DEF Share
  <2> QED BY <2>1, <2>2
<1> DEFINE d == Share(DenseWeight, dense, i)
           s == Share(SparseWeight, sparse, i)
<1>2. d[1] \in Nat /\ d[2] \in Nat \ {0} /\ s[1] \in Nat /\ s[2] \in Nat \ {0}
  BY <1>1, Numbers
<1>3. FusedScore(dense, sparse, i) = <<d[1] * s[2] + s[1] * d[2], d[2] * s[2]>>
  BY DEF FusedScore
<1> HIDE DEF d, s
<1>4. d[1] * s[2] + s[1] * d[2] \in Nat /\ d[2] * s[2] \in Nat \ {0}
  <2>1. d[1] * s[2] \in Nat /\ s[1] * d[2] \in Nat /\ 0 * s[2] < d[2] * s[2] /\ d[2] * s[2] \in Nat
    BY <1>2, Products
  <2>2. 0 * s[2] = 0
    BY <1>2
  <2> QED BY <2>1, <2>2
<1>5. Positive(FusedScore(dense, sparse, i))
  BY <1>3, <1>4 DEF Positive
<1> DEFINE f == FusedScore(dense, sparse, i)
<1> HIDE DEF f
<1>6. f[1] \in Nat /\ f[2] \in Nat \ {0}
  BY <1>5 DEF f, Positive
<1>7. RRF(dense, sparse, i) = Rounded(100 * f[1], f[2])
  <2>1. RRF(dense, sparse, i) = Rounded((Unit \div 100) * f[1], f[2])
    BY Zenon DEF RRF, f
  <2>2. Unit \div 100 = 100
    BY DEF Unit
  <2> QED BY <2>1, <2>2
<1>8. 100 * f[1] \in Nat
  BY <1>6
<1> QED BY <1>5, <1>6, <1>7, <1>8, RoundedIs

-----------------------------------------------------------------------------
(* Lists of hits *)

HitsOf(U) == [id : U, rrf : Nat, rerank : Nat, from : SUBSET U]

(* What a sequence is, where it is not to be looked into.                   *)
LEMMA ElementsOf ==
    ASSUME NEW E, NEW list \in Seq(E)
    PROVE  /\ Len(list) \in Nat /\ DOMAIN list = 1 .. Len(list)
           /\ \A k \in 1 .. Len(list) : list[k] \in E
  OBVIOUS

(* The fields of the hits of a list.                                        *)
LEMMA HitFields ==
    ASSUME NEW U, NEW list \in Seq(HitsOf(U))
    PROVE  /\ Len(list) \in Nat /\ DOMAIN list = 1 .. Len(list)
           /\ \A k \in 1 .. Len(list) :
                 /\ list[k] \in HitsOf(U) /\ list[k].id \in U /\ list[k].from \subseteq U
                 /\ list[k].rrf \in Nat /\ list[k].rerank \in Nat
<1>1. Len(list) \in Nat /\ DOMAIN list = 1 .. Len(list)
      /\ \A k \in 1 .. Len(list) : list[k] \in HitsOf(U)
  OBVIOUS
<1>2. \A h \in HitsOf(U) : h.id \in U /\ h.from \subseteq U /\ h.rrf \in Nat /\ h.rerank \in Nat
  BY DEF HitsOf
<1> QED BY <1>1, <1>2

(* What is left of a list when some of its places are kept.                *)
Thinned(small, list, places, S) ==
    /\ places \in [1 .. Len(small) -> S]
    /\ \A p, q \in 1 .. Len(small) : p < q => places[p] < places[q]
    /\ \A k \in S : \E p \in 1 .. Len(small) : places[p] = k
    /\ \A p \in 1 .. Len(small) : small[p] = list[places[p]]
    /\ Len(small) <= Len(list)

(* Taking the places of a set, in order, thins a list out.                  *)
LEMMA Thinning ==
    ASSUME NEW E, NEW list \in Seq(E), NEW S \in SUBSET (1 .. Len(list))
    PROVE  /\ ElementsAt(list, Ascending(S)) \in Seq(E)
           /\ Thinned(ElementsAt(list, Ascending(S)), list, Ascending(S), S)
<1> DEFINE N == Len(list)
           n == Cardinality(S)
           a == Ascending(S)
<1>1. IsFiniteSet(1 .. N) /\ Cardinality(1 .. N) = N /\ N \in Nat
  <2>1. N \in Nat
    OBVIOUS
  <2>2. IsFiniteSet(1 .. N) /\ Cardinality(1 .. N) = IF 1 > N THEN 0 ELSE N - 1 + 1
    BY <2>1, FS_Interval
  <2> QED BY <2>1, <2>2
<1>2. IsFiniteSet(S) /\ n <= N
  BY <1>1, FS_Subset
<1>3. S \in SUBSET Int
  OBVIOUS
<1>4. Rising(a, S)
  BY <1>2, <1>3, AscendingRises
<1>5. /\ n \in Nat /\ a \in [1 .. n -> S]
      /\ \A p, q \in 1 .. n : p < q => a[p] < a[q]
      /\ \A k \in S : \E p \in 1 .. n : a[p] = k
  BY <1>4 DEF Rising
<1>6. a \in [1 .. n -> 1 .. N]
  <2> HIDE DEF a, n
  <2> QED BY <1>5
<1>7. list \in [1 .. N -> E]
  OBVIOUS
<1> HIDE DEF a, n, N
<1>8. /\ ElementsAt(list, a) \in Seq(E) /\ Len(ElementsAt(list, a)) = n
      /\ \A p \in 1 .. n : ElementsAt(list, a)[p] = list[a[p]]
  <2>1. Taken(ElementsAt(list, a), list, a, n, E)
    BY <1>5, <1>6, <1>7, AtPlaces
  <2> QED BY <2>1 DEF Taken
<1> QED BY <1>2, <1>5, <1>8 DEF Thinned, a, N

(* Sorting by the score of the reranker.                                   *)
ByRerank(list) == \A j, k \in DOMAIN list : j < k => list[k].rerank <= list[j].rerank

Shuffled(new, list, places) ==
    /\ Len(new) = Len(list)
    /\ places \in [1 .. Len(list) -> 1 .. Len(list)]
    /\ \A p, q \in 1 .. Len(list) : p # q => places[p] # places[q]
    /\ \A k \in 1 .. Len(list) : \E p \in 1 .. Len(list) : places[p] = k
    /\ \A p \in 1 .. Len(list) : new[p] = list[places[p]]

(* ByScore sorts: the same hits, the highest score first.                   *)
LEMMA Sorting ==
    ASSUME NEW U, NEW list \in Seq(HitsOf(U))
    PROVE  /\ ByScore(list) \in Seq(HitsOf(U))
           /\ ByRerank(ByScore(list))
           /\ \E places : Shuffled(ByScore(list), list, places)
<1> DEFINE N == Len(list)
           key == [k \in DOMAIN list |-> list[k].rerank]
           a == Descending(key)
<1>1. N \in Nat /\ DOMAIN list = 1 .. N /\ \A k \in 1 .. N : list[k] \in HitsOf(U)
  OBVIOUS
<1>2. IsFiniteSet(1 .. N) /\ Cardinality(1 .. N) = N
  <2>1. IsFiniteSet(1 .. N) /\ Cardinality(1 .. N) = IF 1 > N THEN 0 ELSE N - 1 + 1
    BY <1>1, FS_Interval
  <2> QED BY <1>1, <2>1
<1>3. key \in [1 .. N -> Nat] /\ DOMAIN key = 1 .. N /\ \A k \in 1 .. N : key[k] = list[k].rerank
  BY <1>1 DEF HitsOf
<1>4. 1 .. N \in SUBSET Int
  BY <1>1
<1> HIDE DEF key, N
<1>5. Falling(a, key)
  BY <1>2, <1>3, <1>4, DescendingFalls
<1> HIDE DEF a
<1>6. /\ a \in [1 .. N -> 1 .. N]
      /\ \A p, q \in 1 .. N : p < q => key[a[p]] >= key[a[q]]
      /\ \A p, q \in 1 .. N : p # q => a[p] # a[q]
      /\ \A k \in 1 .. N : \E p \in 1 .. N : a[p] = k
  BY <1>2, <1>3, <1>5 DEF Falling
<1>7. ByScore(list) = ElementsAt(list, a)
  BY DEF ByScore, a, key
<1>8. list \in [1 .. N -> HitsOf(U)]
  BY <1>1
<1>9. /\ ElementsAt(list, a) \in Seq(HitsOf(U)) /\ Len(ElementsAt(list, a)) = N
      /\ \A p \in 1 .. N : ElementsAt(list, a)[p] = list[a[p]]
  <2>1. Taken(ElementsAt(list, a), list, a, N, HitsOf(U))
    BY <1>1, <1>6, <1>8, AtPlaces
  <2> QED BY <2>1 DEF Taken
<1>10. ByRerank(ByScore(list))
  <2> DEFINE new == ElementsAt(list, a)
  <2>1. DOMAIN new = 1 .. N
    BY <1>9
  <2> HIDE DEF new
  <2> SUFFICES ASSUME NEW j \in 1 .. N, NEW k \in 1 .. N, j < k
               PROVE  new[k].rerank <= new[j].rerank
    BY <1>7, <2>1 DEF ByRerank, new
  <2>2. new[k] = list[a[k]] /\ new[j] = list[a[j]] /\ a[k] \in 1 .. N /\ a[j] \in 1 .. N
    BY <1>6, <1>9 DEF new
  <2>3. key[a[j]] \in Nat /\ key[a[k]] \in Nat /\ key[a[j]] >= key[a[k]]
    BY <1>3, <1>6, <2>2
  <2>4. key[a[j]] = list[a[j]].rerank /\ key[a[k]] = list[a[k]].rerank
    BY <1>3, <2>2
  <2> QED BY <2>2, <2>3, <2>4
<1>11. Shuffled(ByScore(list), list, a)
  BY <1>6, <1>7, <1>9 DEF Shuffled, N
<1> QED BY <1>7, <1>9, <1>10, <1>11

(* Hits as they come from an index: leaves, none twice.                    *)
Raw(list) ==
    /\ \A k \in DOMAIN list : list[k].id \in {Leaf(i) : i \in Leaves} /\ list[k].from = {}
    /\ \A j, k \in DOMAIN list : list[j].id = list[k].id => j = k

(* ... and in the order of fused scores, not reranked yet.                 *)
ByRRF(list) ==
    /\ \A j, k \in DOMAIN list : j < k => list[k].rrf <= list[j].rrf
    /\ \A k \in DOMAIN list : list[k].rerank = 0

LeafHits(N) == HitsOf({Leaf(i) : i \in 1 .. N})

FusedFrom(L, order, d, s, N) ==
    /\ L \in Seq(LeafHits(N)) /\ DOMAIN L = 1 .. Len(order) /\ Raw(L)
    /\ \A k \in 1 .. Len(order) : L[k] = Hit(Leaf(order[k]), RRF(d, s, order[k]))

(* The list of the fused leaves has each of them once.                      *)
LEMMA Fusing ==
    ASSUME NEW N \in Nat, Leaves = 1 .. N, NEW E, NEW d \in Seq(E), NEW s \in Seq(E),
           NEW order \in Seq(1 .. N),
           \A p, q \in 1 .. Len(order) : p # q => order[p] # order[q]
    PROVE  FusedFrom(FusedHits(d, s, order), order, d, s, N)
<1> DEFINE L == FusedHits(d, s, order)
           n == Len(order)
<1>1. n \in Nat /\ DOMAIN order = 1 .. n /\ \A k \in 1 .. n : order[k] \in 1 .. N
  OBVIOUS
<1>2. L = [k \in 1 .. n |-> Hit(Leaf(order[k]), RRF(d, s, order[k]))]
  BY <1>1 DEF FusedHits
<1> HIDE DEF L, n
<1>3. \A k \in 1 .. n : L[k] = Hit(Leaf(order[k]), RRF(d, s, order[k]))
  BY <1>2
<1>4. ASSUME NEW k \in 1 .. n
      PROVE  /\ L[k].id = Leaf(order[k]) /\ L[k].from = {}
             /\ L[k] \in LeafHits(N)
  <2>1. RRF(d, s, order[k]) \in Nat /\ order[k] \in 1 .. N
    BY <1>1, FusedScores
  <2> DEFINE r == RRF(d, s, order[k])
             id == Leaf(order[k])
  <2>2. L[k] = [id |-> id, rrf |-> r, rerank |-> 0, from |-> {}]
    BY <1>3 DEF Hit
  <2>3. id \in {Leaf(i) : i \in 1 .. N} /\ r \in Nat
    BY <2>1
  <2> HIDE DEF id, r
  <2>4. L[k] \in LeafHits(N)
    BY <2>2, <2>3 DEF LeafHits, HitsOf
  <2> QED BY <2>2, <2>4 DEF id
<1>5. L \in [1 .. n -> LeafHits(N)]
  BY <1>2, <1>4
<1>6. L \in Seq(LeafHits(N)) /\ DOMAIN L = 1 .. n
  BY <1>1, <1>5
<1>7. \A j, k \in 1 .. n : L[j].id = L[k].id => j = k
  <2> TAKE j, k \in 1 .. n
  <2> HAVE L[j].id = L[k].id
  <2>1. order[j] = order[k]
    BY <1>4 DEF Leaf
  <2> QED BY <2>1 DEF n
<1>8. \A k \in 1 .. n : L[k].id \in {Leaf(i) : i \in Leaves} /\ L[k].from = {}
  BY <1>1, <1>4
<1>9. Raw(L)
  BY <1>6, <1>7, <1>8 DEF Raw
<1> QED BY <1>3, <1>6, <1>9 DEF L, n, FusedFrom

(* The external fusion returns leaves in the order of their scores, and    *)
(* all it found unless the limit is reached.                               *)
Returns(L, found, limit) ==
    Len(L) <= limit /\ (Len(L) = limit \/ \A i \in found : \E k \in DOMAIN L : L[k].id = Leaf(i))

(* What FuseMilvus returns: leaves in falling order, as many as there are   *)
(* room for.                                                                *)
LEMMA MilvusFuses ==
    ASSUME NEW N \in Nat, Leaves = 1 .. N, NEW d \in Seq(1 .. N), NEW s \in Seq(1 .. N)
    PROVE  /\ FuseMilvus(d, s) \in Seq(LeafHits(N))
           /\ Raw(FuseMilvus(d, s)) /\ ByRRF(FuseMilvus(d, s))
           /\ Returns(FuseMilvus(d, s), Range(d) \cup Range(s), CandidateK)
<1> DEFINE S == Range(d) \cup Range(s)
           key == [i \in S |-> RRF(d, s, i)]
           n == Cardinality(S)
           a == Descending(key)
           order == Prefix(a, CandidateK)
           L == FusedHits(d, s, order)
<1>1. S \subseteq 1 .. N
  BY DEF Range
<1>2. IsFiniteSet(S) /\ S \in SUBSET Int
  <2>1. IsFiniteSet(1 .. N)
    BY FS_Interval
  <2> HIDE DEF S
  <2>2. S \in SUBSET (1 .. N)
    BY <1>1
  <2>3. IsFiniteSet(S)
    BY <2>1, <2>2, FS_Subset
  <2> QED BY <2>2, <2>3
<1>3. key \in [S -> Nat] /\ DOMAIN key = S /\ \A i \in S : key[i] = RRF(d, s, i)
  BY FusedScores
<1>4. FuseMilvus(d, s) = L
  BY DEF FuseMilvus, Milvus
<1> HIDE DEF S, key
<1>5. Falling(a, key)
  BY <1>2, <1>3, DescendingFalls
<1> HIDE DEF a
<1>6. /\ n \in Nat /\ a \in [1 .. n -> S]
      /\ \A p, q \in 1 .. n : p < q => key[a[p]] >= key[a[q]]
      /\ \A p, q \in 1 .. n : p # q => a[p] # a[q]
      /\ \A k \in S : \E p \in 1 .. n : a[p] = k
  BY <1>3, <1>5 DEF Falling
<1>7. a \in Seq(1 .. N) /\ Len(a) = n
  <2>1. a \in [1 .. n -> 1 .. N]
    BY <1>1, <1>6
  <2> HIDE DEF n
  <2> QED BY <1>6, <2>1
<1>8. Starts(order, a, CandidateK, 1 .. N)
  BY <1>7, Numbers, PrefixOf
<1> HIDE DEF order, n
<1> DEFINE m == Len(order)
<1>9. /\ order \in Seq(1 .. N) /\ m = Least(CandidateK, n) /\ m \in 0 .. n
      /\ \A p \in 1 .. m : p \in 1 .. n /\ order[p] = a[p]
  BY <1>7, <1>8 DEF Starts
<1>10. \A p, q \in 1 .. m : p # q => order[p] # order[q]
  BY <1>6, <1>9
<1>11. /\ L \in Seq(LeafHits(N)) /\ DOMAIN L = 1 .. m /\ Raw(L)
       /\ \A k \in 1 .. m : L[k] = Hit(Leaf(order[k]), RRF(d, s, order[k]))
  <2>1. FusedFrom(L, order, d, s, N)
    BY <1>9, <1>10, Fusing
  <2> QED BY <2>1 DEF FusedFrom
<1> HIDE DEF L, m
<1>12. \A k \in 1 .. m : L[k].rrf = key[a[k]] /\ L[k].rerank = 0 /\ L[k].id = Leaf(a[k])
  <2> TAKE k \in 1 .. m
  <2>1. k \in 1 .. n /\ order[k] = a[k] /\ a[k] \in S
    BY <1>6, <1>9
  <2> QED BY <1>3, <1>11, <2>1 DEF Hit
<1>13. ByRRF(L)
  <2>1. ASSUME NEW j \in 1 .. m, NEW k \in 1 .. m, j < k PROVE L[k].rrf <= L[j].rrf
    <3>1. j \in 1 .. n /\ k \in 1 .. n /\ L[k].rrf = key[a[k]] /\ L[j].rrf = key[a[j]]
      BY <1>9, <1>12
    <3>2. key[a[j]] >= key[a[k]] /\ a[j] \in S /\ a[k] \in S
      BY <1>6, <2>1, <3>1
    <3>3. key[a[j]] \in Nat /\ key[a[k]] \in Nat
      BY <1>3, <3>2
    <3> QED BY <3>1, <3>2, <3>3
  <2> QED BY <1>11, <1>12, <2>1 DEF ByRRF
<1>14. Returns(L, S, CandidateK)
  <2>1. Len(L) = m
    BY <1>9, <1>11
  <2>2. m <= CandidateK /\ (m = CandidateK \/ m = n)
    BY <1>6, <1>9, Numbers DEF Least
  <2>3. ASSUME m = n, NEW i \in S PROVE \E k \in DOMAIN L : L[k].id = Leaf(i)
    <3>1. PICK p \in 1 .. m : a[p] = i
      BY <1>6, <2>3
    <3> QED BY <1>11, <1>12, <3>1
  <2> QED BY <2>1, <2>2, <2>3 DEF Returns
<1> QED BY <1>4, <1>11, <1>13, <1>14 DEF S

(* So does the local one, of the leaves that match.                        *)
LEMMA LocalFuses ==
    ASSUME NEW N \in Nat, Leaves = 1 .. N, NEW d \in Seq(1 .. N), NEW s \in Seq(1 .. N),
           NEW S \in SUBSET (1 .. N)
    PROVE  Fuse(d, s, S) \in Seq(LeafHits(N)) /\ Raw(Fuse(d, s, S))
<1> DEFINE score == [i \in S |-> FusedScore(d, s, i)]
           R == {e \in S \X S : \/ Ahead(score[e[1]], score[e[2]])
                                \/ ~Ahead(score[e[2]], score[e[1]]) /\ e[1] < e[2]}
           a == Arranged(S, R)
           order == Prefix(a, CandidateK)
           n == Cardinality(S)
<1>1. IsFiniteSet(S)
  <2>1. IsFiniteSet(1 .. N)
    BY FS_Interval
  <2> QED BY <2>1, FS_Subset
<1>2. Fuse(d, s, S) = FusedHits(d, s, order)
  BY Zenon DEF Fuse
<1>3. \A i \in S : score[i] = FusedScore(d, s, i)
  OBVIOUS
<1> HIDE DEF score
<1>4. \A i \in S : Positive(score[i])
  BY <1>3, FusedScores
<1>5. \A i, j \in S : <<i, j>> \in R <=>
         Ahead(score[i], score[j]) \/ (~Ahead(score[j], score[i]) /\ i < j)
  <2> TAKE i, j \in S
  <2>1. <<i, j>> \in S \X S /\ <<i, j>>[1] = i /\ <<i, j>>[2] = j
    OBVIOUS
  <2> QED BY <2>1
<1> HIDE DEF R
<1>6. StrictOrder(S, R)
  <2>1. S \in SUBSET Int
    OBVIOUS
  <2> QED BY <2>1, <1>4, <1>5, AheadOrders
<1>7. InOrder(a, S, R)
  BY <1>1, <1>6, Arrangement
<1> HIDE DEF a
<1>8. n \in Nat /\ a \in [1 .. n -> S] /\ \A p, q \in 1 .. n : p # q => a[p] # a[q]
  BY <1>7 DEF InOrder
<1>9. a \in Seq(1 .. N) /\ Len(a) = n
  <2>1. a \in [1 .. n -> 1 .. N]
    BY <1>8
  <2> HIDE DEF n
  <2> QED BY <1>8, <2>1
<1>10. Starts(order, a, CandidateK, 1 .. N)
  BY <1>9, Numbers, PrefixOf
<1> HIDE DEF order, n
<1>11. order \in Seq(1 .. N) /\ \A p, q \in 1 .. Len(order) : p # q => order[p] # order[q]
  <2>1. \A p \in 1 .. Len(order) : p \in 1 .. n /\ order[p] = a[p]
    BY <1>9, <1>10 DEF Starts
  <2> QED BY <1>8, <1>10, <2>1 DEF Starts
<1>12. FusedFrom(FusedHits(d, s, order), order, d, s, N)
  BY <1>11, Fusing
<1> QED BY <1>2, <1>12 DEF FusedFrom

(* MergeEarned, of a list of hits.                                         *)
Earned(list) ==
    /\ \A k \in DOMAIN list : list[k].from # {} =>
          /\ \A id \in list[k].from : ParentOf(id) = list[k].id
          /\ backend = "external" => Cardinality(list[k].from) >= 2
          /\ Reaches(list[k].from, list[k].id)
    /\ \A k \in DOMAIN list : list[k].from = {} => list[k].id[1] = 3
    /\ \A j, k \in DOMAIN list : list[j].id = list[k].id => j = k
    /\ \A j, k \in DOMAIN list :
          Under(list[j].id, list[k].id) =>
              ParentOf(list[j].id) # list[k].id /\ ParentOf(list[j].id) \notin list[k].from

(* Neither property is about scores or about the order, and both are kept  *)
(* where some of the hits are dropped.                                     *)
Within(small, list, places) ==
    /\ places \in [DOMAIN small -> DOMAIN list]
    /\ \A p, q \in DOMAIN small : p # q => places[p] # places[q]
    /\ \A p \in DOMAIN small :
          small[p].id = list[places[p]].id /\ small[p].from = list[places[p]].from

(* A list within one that has earned its places has earned its own.         *)
LEMMA WithinKeeps ==
    ASSUME NEW list, NEW small, NEW places, Within(small, list, places)
    PROVE  (Raw(list) => Raw(small)) /\ (Earned(list) => Earned(small))
<1>1. /\ \A p \in DOMAIN small : /\ places[p] \in DOMAIN list
                                 /\ small[p].id = list[places[p]].id
                                 /\ small[p].from = list[places[p]].from
      /\ \A p, q \in DOMAIN small : p # q => places[p] # places[q]
  BY DEF Within
<1>2. Raw(list) => Raw(small)
  BY <1>1 DEF Raw
<1>3. ASSUME Earned(list) PROVE Earned(small)
  <2>1. \A p, q \in DOMAIN small : small[p].id = small[q].id => p = q
    BY <1>1, <1>3 DEF Earned
  <2>2. \A p \in DOMAIN small : small[p].from = {} => small[p].id[1] = 3
    BY <1>1, <1>3 DEF Earned
  <2>3. \A p \in DOMAIN small : small[p].from # {} =>
          /\ \A id \in small[p].from : ParentOf(id) = small[p].id
          /\ backend = "external" => Cardinality(small[p].from) >= 2
          /\ Reaches(small[p].from, small[p].id)
    <3> TAKE p \in DOMAIN small
    <3> HAVE small[p].from # {}
    <3>1. places[p] \in DOMAIN list /\ small[p].id = list[places[p]].id
          /\ small[p].from = list[places[p]].from
      BY <1>1
    <3>2. /\ \A id \in list[places[p]].from : ParentOf(id) = list[places[p]].id
          /\ backend = "external" => Cardinality(list[places[p]].from) >= 2
          /\ Reaches(list[places[p]].from, list[places[p]].id)
      BY <1>3, <3>1 DEF Earned
    <3> QED BY <3>1, <3>2
  <2>4. \A p, q \in DOMAIN small :
          Under(small[p].id, small[q].id) =>
              ParentOf(small[p].id) # small[q].id /\ ParentOf(small[p].id) \notin small[q].from
    <3> TAKE p, q \in DOMAIN small
    <3>1. /\ places[p] \in DOMAIN list /\ small[p].id = list[places[p]].id
          /\ places[q] \in DOMAIN list /\ small[q].id = list[places[q]].id
          /\ small[q].from = list[places[q]].from
      BY <1>1
    <3>2. Under(list[places[p]].id, list[places[q]].id) =>
              /\ ParentOf(list[places[p]].id) # list[places[q]].id
              /\ ParentOf(list[places[p]].id) \notin list[places[q]].from
      BY <1>3, <3>1 DEF Earned
    <3> QED BY <3>1, <3>2
  <2> QED BY <2>1, <2>2, <2>3, <2>4 DEF Earned
<1> QED BY <1>2, <1>3

(* A list that is thinned out, and one that is sorted.                     *)
LEMMA ThinnedKeeps ==
    ASSUME NEW U, NEW list \in Seq(HitsOf(U)), NEW small \in Seq(HitsOf(U)),
           NEW S \in SUBSET (1 .. Len(list)), NEW places, Thinned(small, list, places, S)
    PROVE  /\ Within(small, list, places)
           /\ ByRRF(list) => ByRRF(small)
           /\ ByRerank(list) => ByRerank(small)
<1> DEFINE n == Len(small)
           N == Len(list)
<1>1. n \in Nat /\ N \in Nat /\ DOMAIN small = 1 .. n /\ DOMAIN list = 1 .. N
  OBVIOUS
<1> HIDE DEF n, N
<1>2. /\ places \in [1 .. n -> S]
      /\ \A p, q \in 1 .. n : p < q => places[p] < places[q]
      /\ \A p \in 1 .. n : small[p] = list[places[p]]
  BY DEF Thinned, n
<1>3. \A p \in 1 .. n : places[p] \in 1 .. N
  BY <1>2 DEF N
<1>4. \A p, q \in 1 .. n : p # q => places[p] # places[q]
  <2> TAKE p, q \in 1 .. n
  <2> HAVE p # q
  <2>1. p < q \/ q < p
    BY <1>1
  <2>2. places[p] < places[q] \/ places[q] < places[p]
    BY <1>2, <2>1
  <2> QED BY <1>3, <2>2
<1>5. places \in [1 .. n -> 1 .. N]
  BY <1>2, <1>3
<1>6. Within(small, list, places)
  BY <1>1, <1>2, <1>4, <1>5 DEF Within
<1>7. ByRRF(list) => ByRRF(small)
  BY <1>1, <1>2, <1>3 DEF ByRRF
<1>8. ByRerank(list) => ByRerank(small)
  BY <1>1, <1>2, <1>3 DEF ByRerank
<1> QED BY <1>6, <1>7, <1>8

(* Sorting moves hits and changes nothing about them.                       *)
LEMMA SortingKeeps ==
    ASSUME NEW U, NEW list \in Seq(HitsOf(U))
    PROVE  (Raw(list) => Raw(ByScore(list))) /\ (Earned(list) => Earned(ByScore(list)))
<1>1. PICK places : Shuffled(ByScore(list), list, places)
  BY Sorting
<1>2. ByScore(list) \in Seq(HitsOf(U))
  BY Sorting
<1> DEFINE new == ByScore(list)
           n == Len(list)
<1> HIDE DEF new
<1>3. DOMAIN new = 1 .. n /\ DOMAIN list = 1 .. n
  BY <1>1, <1>2 DEF new, Shuffled
<1>4. Within(new, list, places)
  BY <1>1, <1>3 DEF new, Shuffled, Within
<1> QED BY <1>4, WithinKeeps DEF new

(* The first of a sorted list has the best score.                          *)
Larger(a, b) == IF a > b THEN a ELSE b

(* The best score of a sorted list is that of its first hit.                *)
LEMMA BestOf ==
    ASSUME NEW U, NEW list \in Seq(HitsOf(U)), ByRerank(list), NEW t \in Nat
    PROVE  /\ Best(list) \in Nat
           /\ Max({t} \cup {list[k].rerank : k \in DOMAIN list}) = Larger(Best(list), t)
<1> DEFINE N == Len(list)
           key == [k \in 1 .. N |-> list[k].rerank]
           m == Max({t} \cup {key[k] : k \in 1 .. N})
<1>1. N \in Nat /\ DOMAIN list = 1 .. N /\ \A k \in 1 .. N : list[k].rerank \in Nat
  BY HitFields
<1>2. key \in [1 .. N -> Nat] /\ \A k \in 1 .. N : key[k] = list[k].rerank
  BY <1>1
<1>3. {key[k] : k \in 1 .. N} = {list[k].rerank : k \in DOMAIN list}
  BY <1>1
<1>4. Max({t} \cup {list[k].rerank : k \in DOMAIN list}) = m
  BY <1>3
<1>5. IsFiniteSet(1 .. N) /\ 1 .. N \in SUBSET Int
  BY <1>1, FS_Interval
<1> HIDE DEF key, N
<1>6. /\ m \in Nat /\ t <= m /\ (\A k \in 1 .. N : key[k] <= m)
      /\ m = t \/ \E k \in 1 .. N : m = key[k]
  BY <1>2, <1>5, MaxOfKeys
<1> HIDE DEF m
<1>7. CASE list = <<>>
  <2>1. N = 0 /\ Best(list) = 0
    BY <1>7 DEF Best, N
  <2>2. m = t
    BY <1>6, <2>1
  <2> QED BY <1>4, <2>1, <2>2 DEF Larger
<1>8. CASE list # <<>>
  <2>1. 1 \in 1 .. N /\ Best(list) = key[1]
    BY <1>1, <1>2, <1>8 DEF Best, N
  <2>2. \A k \in 1 .. N : key[k] <= key[1]
    <3> TAKE k \in 1 .. N
    <3>1. k = 1 \/ 1 < k
      OBVIOUS
    <3>2. 1 < k => list[k].rerank <= list[1].rerank
      BY <1>1, <2>1 DEF ByRerank
    <3>3. key[1] \in Nat
      BY <1>2, <2>1
    <3> QED BY <1>2, <2>1, <3>1, <3>2, <3>3
  <2>3. key[1] \in Nat /\ key[1] <= m /\ (m = t \/ m <= key[1])
    BY <1>2, <1>6, <2>1, <2>2
  <2> QED BY <1>4, <1>6, <2>1, <2>3 DEF Larger
<1> QED BY <1>7, <1>8

-----------------------------------------------------------------------------
(* Reranking *)

(* A hit with another score of the reranker.                               *)
LEMMA Rescored ==
    ASSUME NEW U, NEW h \in HitsOf(U), NEW score \in Nat
    PROVE  /\ [h EXCEPT !.rerank = score] \in HitsOf(U)
           /\ [h EXCEPT !.rerank = score].rerank = score
           /\ [h EXCEPT !.rerank = score].id = h.id
           /\ [h EXCEPT !.rerank = score].rrf = h.rrf
           /\ [h EXCEPT !.rerank = score].from = h.from
  BY DEF HitsOf

(* What a list of leaves is after the reranker, or its fallback.           *)
InOrderOfScores(new, U) ==
    new \in Seq(HitsOf(U)) /\ new # <<>> /\ Raw(new) /\ ByRerank(new)

(* The fallback of the reranker keeps the order of the fused scores.        *)
LEMMA NormalizingScores ==
    ASSUME NEW U, NEW list \in Seq(HitsOf(U)), list # <<>>, Raw(list), ByRRF(list)
    PROVE  InOrderOfScores(NormalizeRRF(list), U)
<1> DEFINE N == Len(list)
           highest == Max({list[k].rrf : k \in DOMAIN list})
           score(k) == Rounded(Unit * list[k].rrf, highest)
           new == [k \in DOMAIN list |-> [list[k] EXCEPT !.rerank = score(k)]]
<1>1. /\ N \in Nat /\ DOMAIN list = 1 .. N
      /\ \A k \in 1 .. N : list[k] \in HitsOf(U) /\ list[k].rrf \in Nat /\ list[k].rerank \in Nat
  BY HitFields
<1>2. 1 \in 1 .. N
  BY <1>1
<1>3. highest \in Nat
  <2> DEFINE key == [k \in 1 .. N |-> list[k].rrf]
             t == list[1].rrf
  <2>1. key \in [1 .. N -> Nat] /\ t \in Nat
    BY <1>1, <1>2
  <2>2. {t} \cup {key[k] : k \in 1 .. N} = {list[k].rrf : k \in DOMAIN list}
    BY <1>1, <1>2
  <2>3. IsFiniteSet(1 .. N) /\ 1 .. N \in SUBSET Int
    BY <1>1, FS_Interval
  <2> HIDE DEF key, t, N
  <2>4. Max({t} \cup {key[k] : k \in 1 .. N}) \in Nat
    BY <2>1, <2>3, MaxOfKeys
  <2> QED BY <2>2, <2>4
<1> HIDE DEF highest
<1>4. CASE highest = 0
  <2>1. NormalizeRRF(list) = list
    BY <1>4 DEF NormalizeRRF, highest
  <2>2. ByRerank(list)
    BY DEF ByRRF, ByRerank
  <2> QED BY <2>1, <2>2 DEF InOrderOfScores
<1>5. CASE highest # 0
  <2>1. NormalizeRRF(list) = new
    BY <1>5, Zenon DEF NormalizeRRF, highest
  <2>2. \A k \in 1 .. N : Unit * list[k].rrf \in Nat
    <3> TAKE k \in 1 .. N
    <3>1. list[k].rrf \in Nat
      BY <1>1
    <3> QED BY <3>1 DEF Unit
  <2>3. \A k \in 1 .. N : score(k) \in Nat
    BY <1>3, <1>5, <2>2, RoundedIs
  <2>4. \A j, k \in 1 .. N : j < k => score(k) <= score(j)
    <3> TAKE j, k \in 1 .. N
    <3> HAVE j < k
    <3>1. list[k].rrf <= list[j].rrf /\ list[k].rrf \in Nat /\ list[j].rrf \in Nat
      BY <1>1 DEF ByRRF
    <3>2. Unit * list[k].rrf <= Unit * list[j].rrf
      BY <3>1 DEF Unit
    <3> DEFINE x == Unit * list[k].rrf
               y == Unit * list[j].rrf
    <3>3. x \in Nat /\ y \in Nat /\ x <= y
      BY <2>2, <3>2
    <3> HIDE DEF x, y
    <3>4. Rounded(x, highest) <= Rounded(y, highest)
      BY <1>3, <1>5, <3>3, RoundedIs
    <3> QED BY <3>4 DEF x, y
  <2> HIDE DEF score
  <2>5. \A k \in 1 .. N : /\ new[k] \in HitsOf(U) /\ new[k].rerank = score(k)
                          /\ new[k].id = list[k].id /\ new[k].from = list[k].from
    <3> TAKE k \in 1 .. N
    <3>1. new[k] = [list[k] EXCEPT !.rerank = score(k)]
      BY <1>1
    <3>2. list[k] \in HitsOf(U) /\ score(k) \in Nat
      BY <1>1, <2>3
    <3> HIDE DEF new
    <3> QED BY <3>1, <3>2, Rescored
  <2>6. DOMAIN new = 1 .. N
    BY <1>1
  <2>7. new \in [1 .. N -> HitsOf(U)]
    BY <1>1, <2>5
  <2> HIDE DEF new
  <2>8. new \in Seq(HitsOf(U)) /\ new # <<>>
    BY <1>1, <1>2, <2>6, <2>7
  <2>9. ByRerank(new)
    BY <2>4, <2>5, <2>6 DEF ByRerank
  <2>10. Within(new, list, [k \in 1 .. N |-> k])
    BY <1>1, <2>5, <2>6 DEF Within
  <2>11. Raw(new)
    BY <2>10, WithinKeeps
  <2> QED BY <2>1, <2>8, <2>9, <2>11 DEF InOrderOfScores
<1> QED BY <1>4, <1>5

(* Whatever the reranker answers, its hits are leaves in the order of their *)
(* scores.                                                                  *)
LEMMA RerankingScores ==
    ASSUME NEW U, NEW list \in Seq(HitsOf(U)), list # <<>>, Raw(list), ByRRF(list),
           NEW answer \in Seq([index : Int, score : Nat])
    PROVE  InOrderOfScores(Reranked(answer, list), U)
<1>1. CASE ~ValidRanking(answer, list)
  BY <1>1, NormalizingScores DEF Reranked
<1>2. CASE ValidRanking(answer, list)
  <2> DEFINE n == Len(answer)
             at == [k \in DOMAIN answer |-> answer[k].index]
             scored == [k \in DOMAIN answer |->
                           [list[answer[k].index] EXCEPT !.rerank = answer[k].score]]
  <2>1. Reranked(answer, list) = ByScore(scored)
    BY <1>2, Zenon DEF Reranked
  <2>2. /\ n \in Nat /\ DOMAIN answer = 1 .. n
        /\ \A k \in 1 .. n : answer[k].score \in Nat
    <3>1. n \in Nat /\ DOMAIN answer = 1 .. n
          /\ \A k \in 1 .. n : answer[k] \in [index : Int, score : Nat]
      <4> HIDE DEF at, scored
      <4> QED BY ElementsOf
    <3>2. \A r \in [index : Int, score : Nat] : r.score \in Nat
      OBVIOUS
    <3> QED BY <3>1, <3>2
  <2>3. n # 0 /\ \A k \in 1 .. n : answer[k].index \in DOMAIN list
    BY <1>2, <2>2 DEF ValidRanking
  <2>4. \A p, q \in 1 .. n : p # q => answer[p].index # answer[q].index
    BY <1>2, <2>2 DEF ValidRanking, IsInjective
  <2>5. DOMAIN list = 1 .. Len(list) /\ \A k \in 1 .. Len(list) : list[k] \in HitsOf(U)
    BY HitFields
  <2>6. \A k \in 1 .. n : /\ scored[k] \in HitsOf(U)
                          /\ scored[k].id = list[answer[k].index].id
                          /\ scored[k].from = list[answer[k].index].from
    <3> TAKE k \in 1 .. n
    <3>1. scored[k] = [list[answer[k].index] EXCEPT !.rerank = answer[k].score]
      BY <2>2
    <3>2. list[answer[k].index] \in HitsOf(U) /\ answer[k].score \in Nat
      BY <2>2, <2>3, <2>5
    <3> HIDE DEF scored
    <3> QED BY <3>1, <3>2, Rescored
  <2>7. DOMAIN scored = 1 .. n /\ scored \in [1 .. n -> HitsOf(U)]
    BY <2>2, <2>6
  <2>8. at \in [1 .. n -> DOMAIN list] /\ \A k \in 1 .. n : at[k] = answer[k].index
    BY <2>2, <2>3
  <2> HIDE DEF scored, at, n
  <2>9. scored \in Seq(HitsOf(U))
    BY <2>2, <2>7
  <2>10. Within(scored, list, at)
    BY <2>4, <2>6, <2>7, <2>8 DEF Within
  <2>11. Raw(scored)
    BY <2>10, WithinKeeps
  <2>12. /\ ByScore(scored) \in Seq(HitsOf(U)) /\ ByRerank(ByScore(scored))
         /\ Raw(ByScore(scored))
    BY <2>9, <2>11, Sorting, SortingKeeps
  <2>13. ByScore(scored) # <<>>
    <3>1. PICK places : Shuffled(ByScore(scored), scored, places)
      BY <2>9, Sorting
    <3>2. Len(scored) = n
      BY <2>2, <2>7, <2>9
    <3> QED BY <2>3, <3>1, <3>2 DEF Shuffled
  <2> QED BY <2>1, <2>12, <2>13 DEF InOrderOfScores
<1> QED BY <1>1, <1>2

-----------------------------------------------------------------------------
(* The context budget *)

(* It keeps some of the hits, in their order, and the first one always.    *)
Budgeted(small, list, U) ==
    /\ small \in Seq(HitsOf(U))
    /\ \E S \in SUBSET (1 .. Len(list)) : \E places : Thinned(small, list, places, S)
    /\ list # <<>> => small # <<>> /\ small[1] = list[1]

(* The budget thins the list out, and keeps its first hit.                  *)
LEMMA Budget ==
    ASSUME NEW U, NEW list \in Seq(HitsOf(U))
    PROVE  Budgeted(WithinBudget(list), list, U)
<1> DEFINE N == Len(list)
           V == SUBSET (1 .. N)
           Step == [i \in 1 .. N |-> [v \in V |->
                       IF Fits(list, v, i) THEN v \cup {i} ELSE v]]
           taken == CHOOSE taken : taken = [n \in 0 .. N |->
                       IF n = 0 THEN {}
                       ELSE LET before == taken[n - 1]
                            IN  IF Fits(list, before, n) THEN before \cup {n} ELSE before]
<1>1. N \in Nat
  OBVIOUS
<1>2. Step \in [1 .. N -> [V -> V]]
  <2>1. \A i \in 1 .. N : \A v \in V : (IF Fits(list, v, i) THEN v \cup {i} ELSE v) \in V
    OBVIOUS
  <2> HIDE DEF V, N
  <2> QED BY <2>1
<1>3. PICK f \in [0 .. N -> V] :
         f[0] = {} /\ \A i \in 1 .. N : f[i] = Step[i][f[i - 1]]
  <2>1. {} \in V
    OBVIOUS
  <2> HIDE DEF Step, N, V
  <2>2. \E f : f \in Iterates(N, V, {}, Step)
    BY <1>1, <1>2, <2>1, Recursion
  <2> QED BY <2>2 DEF Iterates
<1>4. \A i \in 1 .. N : f[i - 1] \in V
         /\ f[i] = IF Fits(list, f[i - 1], i) THEN f[i - 1] \cup {i} ELSE f[i - 1]
  <2> TAKE i \in 1 .. N
  <2>1. i - 1 \in 0 .. N
    BY <1>1
  <2>2. f[i - 1] \in V
    BY <1>3, <2>1
  <2> HIDE DEF V, N
  <2> QED BY <1>3, <2>2
<1> HIDE DEF V, Step
<1>5. f = [n \in 0 .. N |->
             IF n = 0 THEN {}
             ELSE LET before == f[n - 1]
                  IN  IF Fits(list, before, n) THEN before \cup {n} ELSE before]
  <2>1. \A n \in 0 .. N : f[n] =
             IF n = 0 THEN {}
             ELSE IF Fits(list, f[n - 1], n) THEN f[n - 1] \cup {n} ELSE f[n - 1]
    <3> TAKE n \in 0 .. N
    <3>1. n = 0 \/ n \in 1 .. N
      BY <1>1
    <3> HIDE DEF N
    <3> QED BY <1>3, <1>4, <3>1
  <2> HIDE DEF N
  <2> QED BY <1>3, <2>1
<1>6. taken = [n \in 0 .. N |->
             IF n = 0 THEN {}
             ELSE LET before == taken[n - 1]
                  IN  IF Fits(list, before, n) THEN before \cup {n} ELSE before]
  BY <1>5, Zenon
<1>7. WithinBudget(list) = ElementsAt(list, Ascending(taken[N]))
  BY Zenon DEF WithinBudget
<1> HIDE DEF taken
<1>8. /\ taken[0] = {}
      /\ \A n \in 1 .. N : taken[n] =
             IF Fits(list, taken[n - 1], n) THEN taken[n - 1] \cup {n} ELSE taken[n - 1]
  <2>1. \A n \in 0 .. N : taken[n] =
             IF n = 0 THEN {}
             ELSE IF Fits(list, taken[n - 1], n) THEN taken[n - 1] \cup {n} ELSE taken[n - 1]
    <3> HIDE DEF N
    <3> QED BY <1>6, Zenon
  <2>2. 0 \in 0 .. N /\ \A n \in 1 .. N : n \in 0 .. N /\ n # 0
    BY <1>1
  <2> HIDE DEF N
  <2> QED BY <2>1, <2>2
<1> DEFINE S == {n \in 0 .. N : taken[n] \in V /\ (n >= 1 => 1 \in taken[n])}
<1>9. \A n \in 0 .. N : n \in S
  <2>1. 0 \in S
    BY <1>1, <1>8 DEF V
  <2>2. \A n \in 0 .. N - 1 : n \in S => n + 1 \in S
    <3> TAKE n \in 0 .. N - 1
    <3> HAVE n \in S
    <3>1. n + 1 \in 1 .. N /\ n + 1 \in 0 .. N /\ (n + 1) - 1 = n
      BY <1>1
    <3>2. taken[n + 1] = IF Fits(list, taken[n], n + 1) THEN taken[n] \cup {n + 1} ELSE taken[n]
      BY <1>8, <3>1
    <3>3. taken[n + 1] \in V
      BY <3>1, <3>2 DEF V
    <3>4. 1 \in taken[n + 1]
      <4>1. CASE n = 0
        <5>1. Fits(list, {}, 1)
          BY Numbers, FS_EmptySet DEF Fits
        <5>2. taken[n] = {} /\ n + 1 = 1
          BY <1>8, <4>1
        <5> QED BY <3>2, <5>1, <5>2
      <4>2. CASE n # 0
        BY <1>1, <3>2, <4>2
      <4> QED BY <4>1, <4>2
    <3> QED BY <3>1, <3>3, <3>4
  <2> HIDE DEF S, N
  <2> QED BY <1>1, <2>1, <2>2, Induction
<1> DEFINE T == taken[N]
           small == ElementsAt(list, Ascending(T))
<1>10. T \in SUBSET (1 .. N) /\ (N >= 1 => 1 \in T)
  <2>1. N \in S
    BY <1>1, <1>9
  <2> QED BY <2>1 DEF V
<1> HIDE DEF T
<1>11. small \in Seq(HitsOf(U)) /\ Thinned(small, list, Ascending(T), T)
  BY <1>10, Thinning
<1>12. ASSUME list # <<>> PROVE small # <<>> /\ small[1] = list[1]
  <2>1. 1 \in T
    BY <1>1, <1>10, <1>12
  <2> DEFINE a == Ascending(T)
  <2> HIDE DEF small, a
  <2>2. /\ a \in [1 .. Len(small) -> T]
        /\ \A p, q \in 1 .. Len(small) : p < q => a[p] < a[q]
        /\ \A k \in T : \E p \in 1 .. Len(small) : a[p] = k
        /\ \A p \in 1 .. Len(small) : small[p] = list[a[p]]
    BY <1>11 DEF Thinned, a
  <2>3. PICK p \in 1 .. Len(small) : a[p] = 1
    BY <2>1, <2>2
  <2>4. Len(small) \in Nat /\ 1 \in 1 .. Len(small)
    BY <1>11
  <2>5. a[1] \in 1 .. N
    BY <1>10, <2>2, <2>4
  <2>6. p = 1
    <3>1. 1 < p => a[1] < 1
      BY <2>2, <2>3, <2>4
    <3> QED BY <2>5, <3>1
  <2> QED BY <2>2, <2>3, <2>4, <2>6
<1> QED BY <1>7, <1>10, <1>11, <1>12 DEF Budgeted, T

-----------------------------------------------------------------------------
(* Merging *)

(* Numbers up to n are finitely many.                                      *)
LEMMA Places ==
    ASSUME NEW n \in Nat, NEW S \in SUBSET (1 .. n)
    PROVE  IsFiniteSet(S) /\ S \in SUBSET Nat /\ S \in SUBSET Int /\ Cardinality(S) <= n
<1>1. IsFiniteSet(1 .. n) /\ Cardinality(1 .. n) = n
  <2>1. IsFiniteSet(1 .. n) /\ Cardinality(1 .. n) = IF 1 > n THEN 0 ELSE n - 1 + 1
    BY FS_Interval
  <2> QED BY <2>1
<1>2. IsFiniteSet(S) /\ Cardinality(S) <= n
  BY <1>1, FS_Subset
<1> QED BY <1>2

(* The parent has the scores of the strongest of the group.                *)
LEMMA ReplacementIs ==
    ASSUME NEW U, NEW V, NEW list \in Seq(HitsOf(U)), U \subseteq V,
           NEW group \in SUBSET (1 .. Len(list)), group # {}, NEW parent \in V
    PROVE  \E best \in group :
              /\ \A j \in group : Strength(list[j]) <= Strength(list[best])
              /\ Replacement(list, group, parent) =
                    [id |-> parent, rrf |-> list[best].rrf, rerank |-> list[best].rerank,
                     from |-> {list[k].id : k \in group}]
              /\ Replacement(list, group, parent) \in HitsOf(V)
<1> DEFINE key == [k \in group |-> Strength(list[k])]
           strongest == {k \in group : \A j \in group : Strength(list[j]) <= Strength(list[k])}
           best == Min(strongest)
<1>1. \A k \in group :
         /\ list[k] \in HitsOf(U) /\ list[k].id \in U
         /\ list[k].rrf \in Nat /\ list[k].rerank \in Nat
  BY HitFields
<1>2. key \in [group -> Nat] /\ \A k \in group : key[k] = Strength(list[k])
  BY <1>1 DEF Strength
<1>3. IsFiniteSet(group) /\ group \in SUBSET Int /\ group \in SUBSET Nat
  <2>1. Len(list) \in Nat
    OBVIOUS
  <2> QED BY <2>1, Places
<1> HIDE DEF key
<1>4. PICK m \in group : \A k \in group : key[k] <= key[m]
  BY <1>2, <1>3, HighestKey
<1>5. m \in strongest /\ strongest \in SUBSET Nat
  BY <1>2, <1>3, <1>4
<1>6. best \in group /\ \A j \in group : Strength(list[j]) <= Strength(list[best])
  <2>1. best \in strongest
    <3> HIDE DEF strongest
    <3> QED BY <1>5, MinIs
  <2> QED BY <2>1
<1> DEFINE from == {list[k].id : k \in group}
           r == [id |-> parent, rrf |-> list[best].rrf, rerank |-> list[best].rerank,
                 from |-> from]
<1>7. Replacement(list, group, parent) = r
  BY Zenon DEF Replacement
<1> HIDE DEF best
<1>8. from \in SUBSET V
  BY <1>1
<1> HIDE DEF from
<1>9. list[best].rrf \in Nat /\ list[best].rerank \in Nat
  BY <1>1, <1>6
<1>10. r \in HitsOf(V)
  BY <1>8, <1>9 DEF HitsOf
<1> QED BY <1>6, <1>7, <1>10 DEF from

(* MergeGroups, step by step: the hits a hit would merge with, the hits    *)
(* that merge, the places that stay, and what is put there.                *)
Own(list, level, k) == Group(list, level, ParentOf(list[k].id))

Gone(list, level, lost, k) ==
    list[k].id[1] = level /\ Merges(Own(list, level, k), ParentOf(list[k].id), lost)

Staying(list, level, lost) ==
    {k \in DOMAIN list : Gone(list, level, lost, k) => k = Min(Own(list, level, k))}

Rewritten(list, level, lost) ==
    [k \in DOMAIN list |->
        IF Gone(list, level, lost, k)
        THEN Replacement(list, Own(list, level, k), ParentOf(list[k].id)) ELSE list[k]]

(* MergeGroups in terms of the names above.                                 *)
LEMMA MergeGroupsIs ==
    ASSUME NEW list, NEW level, NEW lost
    PROVE  MergeGroups(list, level, lost) =
              ElementsAt(Rewritten(list, level, lost), Ascending(Staying(list, level, lost)))
  BY Zenon DEF MergeGroups, Rewritten, Staying, Gone, Own

(* A hit that stays, or the parent of a group that merges.                 *)
StaysAs(new, list, level, lost, k) ==
    /\ ~Gone(list, level, lost, k)
    /\ new = list[k]

Replaces(new, list, level, lost, k) ==
    /\ Gone(list, level, lost, k) /\ k \in Own(list, level, k)
    /\ \A j \in Own(list, level, k) : k <= j
    /\ new.id = ParentOf(list[k].id) /\ new.from = {list[j].id : j \in Own(list, level, k)}
    /\ \E best \in Own(list, level, k) :
          /\ \A j \in Own(list, level, k) : Strength(list[j]) <= Strength(list[best])
          /\ new.rrf = list[best].rrf /\ new.rerank = list[best].rerank

(* The group of a hit: the hits of its level with the same parent.          *)
LEMMA OwnIs ==
    ASSUME NEW U, NEW list \in Seq(HitsOf(U)), NEW level, NEW k \in 1 .. Len(list)
    PROVE  /\ Own(list, level, k) \in SUBSET (1 .. Len(list))
           /\ Own(list, level, k) \in SUBSET Nat
           /\ list[k].id[1] = level => k \in Own(list, level, k)
           /\ \A j \in Own(list, level, k) :
                 list[j].id[1] = level /\ ParentOf(list[j].id) = ParentOf(list[k].id)
<1>1. DOMAIN list = 1 .. Len(list)
  OBVIOUS
<1>2. Own(list, level, k) =
         {j \in 1 .. Len(list) :
             list[j].id[1] = level /\ ParentOf(list[j].id) = ParentOf(list[k].id)}
  BY <1>1 DEF Own, Group
<1> QED BY <1>2

Regrouped(new, list, level, lost, places, V) ==
    /\ new \in Seq(HitsOf(V))
    /\ places \in [1 .. Len(new) -> 1 .. Len(list)]
    /\ \A p, q \in 1 .. Len(new) : p < q => places[p] < places[q]
    /\ \A p \in 1 .. Len(new) :
          StaysAs(new[p], list, level, lost, places[p]) \/ Replaces(new[p], list, level, lost, places[p])
    /\ \A k \in 1 .. Len(list) :
          (\A j \in Own(list, level, k) : k <= j) => \E p \in 1 .. Len(new) : places[p] = k

(* MergeGroups leaves one hit for each group that merges, and the others    *)
(* alone.                                                                   *)
LEMMA MergingRegroups ==
    ASSUME NEW U, NEW V, U \subseteq V, NEW list \in Seq(HitsOf(U)), NEW level, NEW lost,
           \A u \in U : u[1] = level => ParentOf(u) \in V
    PROVE  Regrouped(MergeGroups(list, level, lost), list, level, lost,
                     Ascending(Staying(list, level, lost)), V)
<1> DEFINE N == Len(list)
           own(k) == Own(list, level, k)
           R == Rewritten(list, level, lost)
           S == Staying(list, level, lost)
           new == MergeGroups(list, level, lost)
           a == Ascending(S)
<1>1. N \in Nat /\ DOMAIN list = 1 .. N
      /\ \A k \in 1 .. N : list[k] \in HitsOf(U) /\ list[k].id \in U
  BY HitFields
<1>2. \A k \in 1 .. N :
         /\ own(k) \in SUBSET (1 .. N) /\ own(k) \in SUBSET Nat
         /\ list[k].id[1] = level => k \in own(k)
  BY OwnIs
<1>3. ASSUME NEW k \in 1 .. N, Gone(list, level, lost, k)
      PROVE  /\ R[k] \in HitsOf(V)
             /\ k = Min(own(k)) => Replaces(R[k], list, level, lost, k)
  <2>1. R[k] = Replacement(list, own(k), ParentOf(list[k].id))
    BY <1>1, <1>3 DEF Rewritten
  <2>2. k \in own(k) /\ own(k) \in SUBSET (1 .. N) /\ own(k) \in SUBSET Nat
        /\ ParentOf(list[k].id) \in V
    BY <1>1, <1>2, <1>3 DEF Gone
  <2> DEFINE o == own(k)
             parent == ParentOf(list[k].id)
  <2> HIDE DEF o, parent
  <2>3. PICK best \in o :
              /\ \A j \in o : Strength(list[j]) <= Strength(list[best])
              /\ Replacement(list, o, parent) =
                    [id |-> parent, rrf |-> list[best].rrf, rerank |-> list[best].rerank,
                     from |-> {list[j].id : j \in o}]
              /\ Replacement(list, o, parent) \in HitsOf(V)
    <3>1. o \in SUBSET (1 .. Len(list)) /\ o # {} /\ parent \in V
      BY <2>2 DEF o, parent
    <3> QED BY <3>1, ReplacementIs
  <2>4. k = Min(o) => \A j \in o : k <= j
    <3>1. o \in SUBSET Nat /\ o # {}
      BY <2>2 DEF o
    <3> QED BY <3>1, MinIs
  <2>5. R[k] = Replacement(list, o, parent)
    BY <2>1 DEF o, parent
  <2> DEFINE r == R[k]
  <2> HIDE DEF r
  <2>6. /\ r.id = parent /\ r.from = {list[j].id : j \in o}
        /\ r.rrf = list[best].rrf /\ r.rerank = list[best].rerank
    BY <2>3, <2>5 DEF r
  <2>7. k = Min(o) => Replaces(r, list, level, lost, k)
    BY <1>3, <2>2, <2>3, <2>4, <2>6 DEF Replaces, o, parent
  <2> QED BY <2>3, <2>5, <2>7 DEF o, r
<1>4. ASSUME NEW k \in 1 .. N, ~Gone(list, level, lost, k)
      PROVE  R[k] = list[k] /\ R[k] \in HitsOf(V)
  <2>1. R[k] = list[k]
    BY <1>1, <1>4 DEF Rewritten
  <2>2. \A h \in HitsOf(U) : h \in HitsOf(V)
    BY DEF HitsOf
  <2> QED BY <1>1, <2>1, <2>2
<1>5. DOMAIN R = 1 .. N
  BY <1>1 DEF Rewritten
<1>6. R \in Seq(HitsOf(V)) /\ Len(R) = N
  <2>1. R = [k \in 1 .. N |-> R[k]]
    BY <1>1 DEF Rewritten
  <2>2. \A k \in 1 .. N : R[k] \in HitsOf(V)
    BY <1>3, <1>4
  <2> HIDE DEF R, N
  <2>3. R \in [1 .. N -> HitsOf(V)]
    BY <2>1, <2>2
  <2> QED BY <1>1, <2>3
<1>7. S \in SUBSET (1 .. N)
  BY <1>1 DEF Staying
<1>8. new = ElementsAt(R, a)
  BY MergeGroupsIs
<1> HIDE DEF R, new, N
<1>9. new \in Seq(HitsOf(V)) /\ Thinned(new, R, a, S)
  BY <1>6, <1>7, <1>8, Thinning
<1> HIDE DEF a
<1> DEFINE n == Len(new)
<1>10. /\ a \in [1 .. n -> S]
       /\ \A p, q \in 1 .. n : p < q => a[p] < a[q]
       /\ \A k \in S : \E p \in 1 .. n : a[p] = k
       /\ \A p \in 1 .. n : new[p] = R[a[p]]
  BY <1>9 DEF Thinned
<1>11. \A k \in 1 .. N : k \in S <=> (Gone(list, level, lost, k) => k = Min(own(k)))
  BY <1>1 DEF Staying
<1> HIDE DEF S, n, own
<1>12. a \in [1 .. n -> 1 .. N]
  BY <1>7, <1>10
<1>13. \A p \in 1 .. n :
          StaysAs(new[p], list, level, lost, a[p]) \/ Replaces(new[p], list, level, lost, a[p])
  <2> TAKE p \in 1 .. n
  <2>1. a[p] \in 1 .. N /\ a[p] \in S /\ new[p] = R[a[p]]
    BY <1>10, <1>12
  <2>2. CASE Gone(list, level, lost, a[p])
    BY <1>3, <1>11, <2>1, <2>2
  <2>3. CASE ~Gone(list, level, lost, a[p])
    BY <1>4, <2>1, <2>3 DEF StaysAs
  <2> QED BY <2>2, <2>3
<1>14. \A k \in 1 .. N :
          (\A j \in own(k) : k <= j) => \E p \in 1 .. n : a[p] = k
  <2> TAKE k \in 1 .. N
  <2> HAVE \A j \in own(k) : k <= j
  <2>1. ASSUME Gone(list, level, lost, k) PROVE k = Min(own(k))
    <3>1. k \in own(k) /\ own(k) \in SUBSET Nat
      BY <1>2, <2>1 DEF Gone, own
    <3> DEFINE o == own(k)
    <3> HIDE DEF o
    <3>2. Min(o) \in o /\ \A j \in o : Min(o) <= j
      <4>1. o \in SUBSET Nat /\ o # {}
        BY <3>1 DEF o
      <4> QED BY <4>1, MinIs
    <3>3. Min(o) <= k /\ k <= Min(o) /\ Min(o) \in Nat /\ k \in Nat
      BY <3>1, <3>2 DEF o
    <3> QED BY <3>3 DEF o
  <2> QED BY <1>10, <1>11, <2>1
<1> QED BY <1>9, <1>10, <1>12, <1>13, <1>14 DEF Regrouped, n, N, own, new, a, S

(* The hits with one parent are one group, which merges or does not.       *)
LEMMA OneGroup ==
    ASSUME NEW U, NEW list \in Seq(HitsOf(U)), NEW level, NEW lost,
           NEW j \in 1 .. Len(list), NEW k \in 1 .. Len(list),
           list[j].id[1] = level, list[k].id[1] = level,
           ParentOf(list[j].id) = ParentOf(list[k].id)
    PROVE  /\ j \in Own(list, level, k)
           /\ Own(list, level, j) = Own(list, level, k)
           /\ Gone(list, level, lost, j) <=> Gone(list, level, lost, k)
<1>1. Own(list, level, j) = Own(list, level, k)
  BY DEF Own
<1>2. j \in Own(list, level, j)
  BY OwnIs
<1>3. Gone(list, level, lost, j) <=> Gone(list, level, lost, k)
  BY <1>1, Zenon DEF Gone
<1> QED BY <1>1, <1>2, <1>3

(* The level a parent is on.                                                *)
LEMMA Levels ==
    ASSUME NEW id
    PROVE  /\ backend = "local" => ParentOf(id)[1] = 1
           /\ backend # "local" => ParentOf(id)[1] = id[1] - 1
  BY DEF ParentOf

(* The external backend: a parent has the score of the first of its        *)
(* children, which is the best one, so that the order is kept.             *)
LEMMA MergingKeepsOrder ==
    ASSUME backend = "external",
           NEW U, NEW V, NEW list \in Seq(HitsOf(U)), ByRerank(list),
           NEW new, NEW level, NEW lost, NEW places,
           Regrouped(new, list, level, lost, places, V)
    PROVE  /\ ByRerank(new) /\ Best(new) = Best(list)
           /\ list # <<>> => new # <<>>
<1> DEFINE N == Len(list)
           n == Len(new)
<1>1. N \in Nat /\ DOMAIN list = 1 .. N /\ \A k \in 1 .. N : list[k].rerank \in Nat
  BY HitFields
<1>2. /\ new \in Seq(HitsOf(V)) /\ n \in Nat /\ DOMAIN new = 1 .. n
      /\ places \in [1 .. n -> 1 .. N]
      /\ \A p, q \in 1 .. n : p < q => places[p] < places[q]
      /\ \A p \in 1 .. n :
            StaysAs(new[p], list, level, lost, places[p])
            \/ Replaces(new[p], list, level, lost, places[p])
      /\ \A k \in 1 .. N :
            (\A j \in Own(list, level, k) : k <= j) => \E p \in 1 .. n : places[p] = k
  BY DEF Regrouped
<1> HIDE DEF n, N
<1>3. \A p \in 1 .. n : new[p].rerank = list[places[p]].rerank
  <2> TAKE p \in 1 .. n
  <2> DEFINE k == places[p]
  <2>1. k \in 1 .. N
    BY <1>2
  <2> HIDE DEF k
  <2>2. CASE StaysAs(new[p], list, level, lost, k)
    BY <2>2 DEF StaysAs, k
  <2>3. CASE Replaces(new[p], list, level, lost, k)
    <3>1. PICK best \in Own(list, level, k) :
             /\ \A j \in Own(list, level, k) : Strength(list[j]) <= Strength(list[best])
             /\ new[p].rerank = list[best].rerank
      BY <2>3 DEF Replaces
    <3>2. k \in Own(list, level, k) /\ k <= best
      BY <2>3 DEF Replaces
    <3>3. best \in 1 .. N
      <4>1. Own(list, level, k) \in SUBSET (1 .. N)
        BY <2>1, OwnIs DEF N
      <4> QED BY <4>1
    <3>4. list[k].rerank <= list[best].rerank
      BY <3>1, <3>2 DEF Strength
    <3>5. k = best \/ k < best
      BY <2>1, <3>2, <3>3
    <3>6. list[best].rerank <= list[k].rerank
      BY <1>1, <2>1, <3>3, <3>5 DEF ByRerank
    <3>7. list[best].rerank \in Nat /\ list[k].rerank \in Nat
      BY <1>1, <2>1, <3>3
    <3> QED BY <3>1, <3>4, <3>6, <3>7 DEF k
  <2> QED BY <1>2, <2>2, <2>3 DEF k
<1>4. ByRerank(new)
  <2> SUFFICES ASSUME NEW p \in 1 .. n, NEW q \in 1 .. n, p < q
               PROVE  new[q].rerank <= new[p].rerank
    BY <1>2 DEF ByRerank
  <2>1. places[p] \in 1 .. N /\ places[q] \in 1 .. N /\ places[p] < places[q]
    BY <1>2
  <2> QED BY <1>1, <1>3, <2>1 DEF ByRerank
<1>5. ASSUME list # <<>> PROVE new # <<>> /\ new[1].rerank = list[1].rerank
  <2>1. 1 \in 1 .. N
    BY <1>1, <1>5 DEF N
  <2>2. \A j \in Own(list, level, 1) : 1 <= j
    <3>1. Own(list, level, 1) \in SUBSET (1 .. N)
      BY <2>1, OwnIs DEF N
    <3> QED BY <3>1
  <2>3. PICK p \in 1 .. n : places[p] = 1
    BY <1>2, <2>1, <2>2
  <2>4. 1 \in 1 .. n
    BY <1>2, <2>3
  <2>5. p = 1
    <3>1. 1 < p => places[1] < 1
      BY <1>2, <2>3, <2>4
    <3>2. places[1] \in 1 .. N
      BY <1>2, <2>4
    <3> QED BY <3>1, <3>2
  <2> QED BY <1>2, <1>3, <2>3, <2>4, <2>5 DEF n
<1>6. list = <<>> => new = <<>>
  <2>1. ASSUME list = <<>>, n # 0 PROVE FALSE
    <3>1. 1 \in 1 .. n /\ N = 0
      BY <1>2, <2>1 DEF N
    <3>2. places[1] \in 1 .. N
      BY <1>2, <3>1
    <3> QED BY <3>1, <3>2
  <2> QED BY <1>2, <2>1 DEF n
<1>7. Best(new) = Best(list)
  BY <1>5, <1>6 DEF Best
<1> QED BY <1>4, <1>5, <1>7

(* A parent has earned its place: what MergeEarned says of a single hit.   *)
EarnedBy(h, id, level) ==
    /\ h.from # {}
    /\ \A child \in h.from : ParentOf(child) = h.id /\ child[1] = level
    /\ backend = "external" => Cardinality(h.from) >= 2
    /\ Reaches(h.from, h.id)
    /\ id[1] = level /\ h.id = ParentOf(id)

(* A parent that replaces its group has earned it.                          *)
LEMMA ParentsEarn ==
    ASSUME NEW U, NEW list \in Seq(HitsOf(U)), NEW level, NEW lost,
           \A j, k \in 1 .. Len(list) : list[j].id = list[k].id => j = k,
           NEW h, NEW k \in 1 .. Len(list), Replaces(h, list, level, lost, k)
    PROVE  EarnedBy(h, list[k].id, level)
<1> DEFINE o == Own(list, level, k)
<1>1. /\ o \in SUBSET (1 .. Len(list)) /\ k \in o
      /\ \A j \in o : list[j].id[1] = level /\ ParentOf(list[j].id) = ParentOf(list[k].id)
  BY OwnIs DEF Replaces
<1>2. h.id = ParentOf(list[k].id) /\ h.from = {list[j].id : j \in o}
  BY DEF Replaces
<1>3. Merges(o, ParentOf(list[k].id), lost) /\ list[k].id[1] = level
  BY DEF Replaces, Gone
<1> HIDE DEF o
<1>4. Cardinality(h.from) = Cardinality(o)
  <2> DEFINE T == h.from
             f == [j \in o |-> list[j].id]
  <2>1. T = {list[j].id : j \in o}
    BY <1>2
  <2> HIDE DEF T
  <2>2. f \in [o -> T] /\ DOMAIN f = o
    BY <2>1
  <2>3. f \in Surjection(o, T)
    BY <2>1, <2>2 DEF Surjection
  <2>4. \A i, j \in o : f[i] = f[j] => i = j
    BY <1>1
  <2> HIDE DEF f
  <2>5. f \in Injection(o, T)
    BY <2>2, <2>4 DEF Injection, IsInjective
  <2>6. IsFiniteSet(o)
    BY <1>1, Places
  <2> QED BY <2>3, <2>5, <2>6, FS_Surjection DEF T
<1>5. Reaches(h.from, h.id)
  <2>1. Reaches(o, ParentOf(list[k].id))
    BY <1>3 DEF Merges
  <2> QED BY <1>2, <1>4, <2>1 DEF Reaches
<1>6. backend = "external" => Cardinality(h.from) >= 2
  BY <1>3, <1>4 DEF Merges
<1>7. h.from # {} /\ \A id \in h.from : ParentOf(id) = h.id /\ id[1] = level
  BY <1>1, <1>2
<1> QED BY <1>2, <1>3, <1>5, <1>6, <1>7 DEF EarnedBy

(* Hits as an index returns them have earned their places.                 *)
LEMMA RawEarns ==
    ASSUME NEW list, Raw(list)
    PROVE  Earned(list) /\ \A k \in DOMAIN list : list[k].id[1] = 3
<1>1. \A k \in DOMAIN list : list[k].id[1] = 3 /\ list[k].from = {}
  BY DEF Raw, Leaf
<1>2. \A j, k \in DOMAIN list : ~Under(list[j].id, list[k].id)
  <2> TAKE j, k \in DOMAIN list
  <2>1. ~(list[j].id[1] > list[k].id[1])
    BY <1>1
  <2> QED BY <2>1 DEF Under
<1> QED BY <1>1, <1>2 DEF Raw, Earned

(* Merging at a level leaves no chunk in the list twice and none beside    *)
(* its parent: the children of a parent merge all or not at all, and where *)
(* the parent merges into its own, no child of it was left.                *)
LEMMA MergingEarns ==
    ASSUME backend \in {"external", "local"},
           NEW level \in {2, 3}, level = 2 => backend = "external",
           NEW U, NEW V, NEW list \in Seq(HitsOf(U)), Earned(list),
           \A k \in DOMAIN list : list[k].id[1] \in {level, 3},
           NEW new, NEW lost, NEW places, Regrouped(new, list, level, lost, places, V)
    PROVE  /\ Earned(new)
           /\ \A p \in DOMAIN new :
                 new[p].id[1] \in {IF backend = "local" THEN 1 ELSE level - 1, level, 3}
<1> DEFINE N == Len(list)
           n == Len(new)
           low == IF backend = "local" THEN 1 ELSE level - 1
           stays(p) == StaysAs(new[p], list, level, lost, places[p])
           replaces(p) == Replaces(new[p], list, level, lost, places[p])
<1>1. /\ N \in Nat /\ DOMAIN list = 1 .. N
      /\ \A k \in 1 .. N : list[k].id[1] \in {level, 3}
      /\ \A j, k \in 1 .. N : list[j].id = list[k].id => j = k
  BY HitFields DEF Earned
<1>2. /\ n \in Nat /\ DOMAIN new = 1 .. n
      /\ places \in [1 .. n -> 1 .. N]
      /\ \A p, q \in 1 .. n : p < q => places[p] < places[q]
      /\ \A p \in 1 .. n : stays(p) \/ replaces(p)
  BY DEF Regrouped
<1> HIDE DEF N, n
<1>3. \A p, q \in 1 .. n : places[p] = places[q] => p = q
  <2> TAKE p, q \in 1 .. n
  <2> HAVE places[p] = places[q]
  <2>1. places[p] \in 1 .. N /\ places[q] \in 1 .. N
    BY <1>2
  <2>2. ~(p < q) /\ ~(q < p)
    BY <1>1, <1>2, <2>1
  <2> QED BY <1>2, <2>2
<1>4. low < level /\ low \in Nat /\ level <= 3 /\ level \in Nat
  OBVIOUS
<1>5. ASSUME NEW p \in 1 .. n, stays(p)
      PROVE  /\ places[p] \in 1 .. N /\ new[p] = list[places[p]]
             /\ ~Gone(list, level, lost, places[p])
             /\ new[p].id[1] \in {level, 3}
  BY <1>1, <1>2, <1>5 DEF StaysAs
<1>6. ASSUME NEW p \in 1 .. n, replaces(p)
      PROVE  /\ places[p] \in 1 .. N /\ Gone(list, level, lost, places[p])
             /\ places[p] \in Own(list, level, places[p])
             /\ \A j \in Own(list, level, places[p]) : places[p] <= j
             /\ new[p].from # {}
             /\ \A id \in new[p].from :
                   ParentOf(id) = new[p].id /\ id[1] = level
             /\ \A id \in new[p].from : \E j \in 1 .. N : list[j].id = id
             /\ backend = "external" => Cardinality(new[p].from) >= 2
             /\ Reaches(new[p].from, new[p].id)
             /\ list[places[p]].id[1] = level
             /\ new[p].id = ParentOf(list[places[p]].id)
             /\ new[p].id[1] = low
  <2> DEFINE k == places[p]
  <2>1. k \in 1 .. N
    BY <1>2
  <2> HIDE DEF k
  <2>2. Replaces(new[p], list, level, lost, k)
    BY <1>6 DEF k
  <2>3. /\ new[p].from # {}
        /\ \A id \in new[p].from : ParentOf(id) = new[p].id /\ id[1] = level
        /\ backend = "external" => Cardinality(new[p].from) >= 2
        /\ Reaches(new[p].from, new[p].id)
        /\ list[k].id[1] = level /\ new[p].id = ParentOf(list[k].id)
    <3>1. EarnedBy(new[p], list[k].id, level)
      BY <1>1, <2>1, <2>2, ParentsEarn DEF N
    <3> QED BY <3>1 DEF EarnedBy
  <2>4. /\ Gone(list, level, lost, k) /\ k \in Own(list, level, k)
        /\ \A j \in Own(list, level, k) : k <= j
        /\ new[p].from = {list[j].id : j \in Own(list, level, k)}
    BY <2>2 DEF Replaces
  <2>5. Own(list, level, k) \in SUBSET (1 .. N)
    BY <2>1, OwnIs DEF N
  <2>6. \A id \in new[p].from : \E j \in 1 .. N : list[j].id = id
    BY <2>4, <2>5
  <2>7. new[p].id[1] = low
    BY <2>3, Levels
  <2> HIDE DEF low
  <2> QED BY <2>1, <2>3, <2>4, <2>6, <2>7 DEF k
<1> HIDE DEF stays, replaces, low
<1>7. ASSUME NEW p \in 1 .. n, NEW q \in 1 .. n, stays(p), replaces(q),
             new[p].id[1] = level
      PROVE  ParentOf(new[p].id) # new[q].id
  <2> SUFFICES ASSUME ParentOf(new[p].id) = new[q].id PROVE FALSE
    OBVIOUS
  <2>1. /\ places[p] \in 1 .. N /\ places[q] \in 1 .. N
        /\ list[places[p]].id[1] = level /\ list[places[q]].id[1] = level
        /\ ParentOf(list[places[p]].id) = ParentOf(list[places[q]].id)
    BY <1>5, <1>6, <1>7
  <2>2. Gone(list, level, lost, places[p]) <=> Gone(list, level, lost, places[q])
    BY <2>1, OneGroup DEF N
  <2> QED BY <1>5, <1>6, <1>7, <2>2
<1>8. \A p, q \in 1 .. n : new[p].id = new[q].id => p = q
  <2> SUFFICES ASSUME NEW p \in 1 .. n, NEW q \in 1 .. n, new[p].id = new[q].id
               PROVE  places[p] = places[q]
    BY <1>3
  <2>1. CASE stays(p) /\ stays(q)
    BY <1>1, <1>5, <2>1
  <2>2. CASE replaces(p) /\ replaces(q)
    <3>1. /\ places[p] \in 1 .. N /\ places[q] \in 1 .. N
          /\ list[places[p]].id[1] = level /\ list[places[q]].id[1] = level
          /\ ParentOf(list[places[p]].id) = ParentOf(list[places[q]].id)
      BY <1>6, <2>2
    <3>2. Own(list, level, places[p]) = Own(list, level, places[q])
      BY <3>1, OneGroup DEF N
    <3>3. places[p] <= places[q] /\ places[q] <= places[p]
      BY <1>6, <2>2, <3>2
    <3> QED BY <3>1, <3>3
  <2>3. CASE (stays(p) /\ replaces(q)) \/ (replaces(p) /\ stays(q))
    <3>1. (new[p].id[1] \in {level, 3} /\ new[q].id[1] = low)
          \/ (new[p].id[1] = low /\ new[q].id[1] \in {level, 3})
      BY <1>5, <1>6, <2>3
    <3> QED BY <1>4, <3>1
  <2> QED BY <1>2, <2>1, <2>2, <2>3
<1>9. ASSUME NEW p \in 1 .. n, NEW q \in 1 .. n, Under(new[p].id, new[q].id)
      PROVE  ParentOf(new[p].id) # new[q].id /\ ParentOf(new[p].id) \notin new[q].from
  <2>1. new[p].id[1] > new[q].id[1]
    BY <1>9 DEF Under
  <2>2. CASE replaces(p)
    <3>1. new[p].id[1] = low
      BY <1>6, <2>2
    <3>2. new[q].id[1] \in {low, level, 3}
      BY <1>2, <1>5, <1>6
    <3> QED BY <1>4, <2>1, <3>1, <3>2
  <2>3. CASE stays(p) /\ stays(q)
    <3>1. /\ places[p] \in DOMAIN list /\ new[p] = list[places[p]]
          /\ places[q] \in DOMAIN list /\ new[q] = list[places[q]]
      BY <1>1, <1>5, <2>3
    <3>2. Under(list[places[p]].id, list[places[q]].id)
      BY <1>9, <3>1
    <3>3. /\ ParentOf(list[places[p]].id) # list[places[q]].id
          /\ ParentOf(list[places[p]].id) \notin list[places[q]].from
      BY <3>1, <3>2 DEF Earned
    <3> QED BY <3>1, <3>3
  <2>4. CASE stays(p) /\ replaces(q) /\ new[p].id[1] = level
    <3>1. ParentOf(new[p].id) # new[q].id
      BY <1>7, <2>4
    <3>2. ParentOf(new[p].id)[1] = low
      BY <2>4, Levels DEF low
    <3>3. \A id \in new[q].from : id[1] = level
      BY <1>6, <2>4
    <3> QED BY <1>4, <3>1, <3>2, <3>3
  <2>5. CASE stays(p) /\ replaces(q) /\ new[p].id[1] # level
    <3>1. level = 2 /\ new[p].id[1] = 3 /\ backend = "external" /\ low = 1
      BY <1>5, <2>5 DEF low
    <3>2. ParentOf(new[p].id)[1] = 2 /\ new[q].id[1] = 1
      BY <1>6, <2>5, <3>1, Levels
    <3>3. ASSUME ParentOf(new[p].id) \in new[q].from PROVE FALSE
      <4>1. PICK j \in 1 .. N : list[j].id = ParentOf(new[p].id)
        BY <1>6, <2>5, <3>3
      <4>2. places[p] \in 1 .. N /\ new[p].id = list[places[p]].id
        BY <1>5, <2>5
      <4>3. Under(list[places[p]].id, list[j].id)
        BY <3>1, <3>2, <4>1, <4>2 DEF Under
      <4>4. ParentOf(list[places[p]].id) # list[j].id
        BY <1>1, <4>1, <4>2, <4>3 DEF Earned
      <4> QED BY <4>1, <4>2, <4>4
    <3> QED BY <3>2, <3>3
  <2> QED BY <1>2, <2>2, <2>3, <2>4, <2>5
<1>10. ASSUME NEW p \in 1 .. n
       PROVE  /\ new[p].from # {} =>
                    /\ \A id \in new[p].from : ParentOf(id) = new[p].id
                    /\ backend = "external" => Cardinality(new[p].from) >= 2
                    /\ Reaches(new[p].from, new[p].id)
              /\ new[p].from = {} => new[p].id[1] = 3
  <2>1. CASE stays(p)
    <3>1. places[p] \in DOMAIN list /\ new[p] = list[places[p]]
      BY <1>1, <1>5, <2>1
    <3> QED BY <3>1 DEF Earned
  <2>2. CASE replaces(p)
    BY <1>6, <2>2
  <2> QED BY <1>2, <2>1, <2>2
<1>11. Earned(new)
  BY <1>2, <1>8, <1>9, <1>10 DEF Earned
<1>12. \A p \in 1 .. n : new[p].id[1] \in {low, level, 3}
  BY <1>2, <1>5, <1>6
<1> QED BY <1>2, <1>11, <1>12 DEF low

-----------------------------------------------------------------------------
(* Crowding *)

(* There is nothing to return only where stale leaves could take all       *)
(* places.                                                                 *)
Crowded == StaleLeaves = Leaves \/ Cardinality(StaleLeaves) >= CandidateK

(* Enough different stale leaves: as many as there are places, or leaves.  *)
LEMMA ManyStale ==
    ASSUME NEW N \in Nat, Leaves = 1 .. N, NEW n \in Nat, n \in {CandidateK, N},
           NEW f \in [1 .. n -> StaleLeaves],
           \A p, q \in 1 .. n : f[p] = f[q] => p = q
    PROVE  Crowded
<1> DEFINE T == StaleLeaves
           S == 1 .. n
<1>1. T \in SUBSET Leaves
  BY DEF StaleLeaves
<1> HIDE DEF T, S
<1>2. IsFiniteSet(Leaves) /\ Cardinality(Leaves) = N
  <2>1. IsFiniteSet(1 .. N) /\ Cardinality(1 .. N) = IF 1 > N THEN 0 ELSE N - 1 + 1
    BY FS_Interval
  <2> QED BY <2>1
<1>3. IsFiniteSet(S) /\ Cardinality(S) = n
  <2>1. IsFiniteSet(1 .. n) /\ Cardinality(1 .. n) = IF 1 > n THEN 0 ELSE n - 1 + 1
    BY FS_Interval
  <2> QED BY <2>1 DEF S
<1>4. IsFiniteSet(T)
  BY <1>1, <1>2, FS_Subset
<1>5. f \in [S -> T] /\ \A p, q \in S : f[p] = f[q] => p = q
  BY DEF S, T
<1>6. f \in Injection(S, T)
  BY <1>5 DEF Injection, IsInjective
<1>7. Cardinality(S) <= Cardinality(T)
  BY <1>4, <1>6, FS_Injection
<1>8. CASE n = CandidateK
  BY <1>3, <1>7, <1>8 DEF Crowded, T
<1>9. CASE n = N
  <2>1. Cardinality(T) <= Cardinality(Leaves) /\ (Cardinality(Leaves) = Cardinality(T) => Leaves = T)
    BY <1>1, <1>2, FS_Subset
  <2>2. Cardinality(T) \in Nat
    BY <1>4, FS_CardinalityType
  <2>3. Cardinality(T) = Cardinality(Leaves)
    BY <1>2, <1>3, <1>7, <1>9, <2>1, <2>2
  <2> QED BY <2>1, <2>3 DEF Crowded, T
<1> QED BY <1>8, <1>9

(* What InForce leaves of a list of leaves.                                *)
Enforced(new, list, U) ==
    /\ new \in Seq(HitsOf(U)) /\ Raw(new) /\ Len(new) <= Len(list)
    /\ ByRRF(list) => ByRRF(new)
    /\ new = <<>> => \A k \in 1 .. Len(list) : list[k].id[2] \in StaleLeaves

(* Leaves that are not in force are left out, and nothing else is.          *)
LEMMA Enforcing ==
    ASSUME NEW U, NEW list \in Seq(HitsOf(U)), Raw(list)
    PROVE  Enforced(InForce(list), list, U)
<1> DEFINE S == {k \in DOMAIN list : ChunkOf(list[k].id).doc \notin Superseded}
           new == InForce(list)
           a == Ascending(S)
<1>1. Len(list) \in Nat /\ DOMAIN list = 1 .. Len(list)
  BY HitFields
<1>2. S \in SUBSET (1 .. Len(list))
  BY <1>1
<1>3. new = ElementsAt(list, a)
  BY Zenon DEF InForce
<1>4. \A k \in 1 .. Len(list) : k \notin S => list[k].id[2] \in StaleLeaves
  <2> TAKE k \in 1 .. Len(list)
  <2> HAVE k \notin S
  <2>1. ChunkOf(list[k].id).doc \in Superseded
    BY <1>1
  <2>2. PICK i \in Leaves : list[k].id = Leaf(i)
    BY <1>1 DEF Raw
  <2>3. list[k].id[1] = 3 /\ list[k].id[2] = i
    BY <2>2 DEF Leaf
  <2>4. ChunkOf(list[k].id) = tree.l3[i]
    BY <2>3 DEF ChunkOf, Level
  <2> QED BY <2>1, <2>3, <2>4 DEF StaleLeaves
<1> HIDE DEF S, new
<1>5. new \in Seq(HitsOf(U)) /\ Thinned(new, list, a, S)
  BY <1>2, <1>3, Thinning
<1> HIDE DEF a
<1>6. Within(new, list, a) /\ (ByRRF(list) => ByRRF(new))
  BY <1>2, <1>5, ThinnedKeeps
<1>7. Raw(new)
  BY <1>6, WithinKeeps
<1>8. /\ Len(new) <= Len(list)
      /\ \A k \in S : \E p \in 1 .. Len(new) : a[p] = k
  BY <1>5 DEF Thinned
<1>9. ASSUME new = <<>> PROVE \A k \in 1 .. Len(list) : list[k].id[2] \in StaleLeaves
  <2>1. Len(new) = 0
    BY <1>9
  <2>2. S = {}
    BY <1>8, <2>1
  <2> QED BY <1>4, <2>2
<1> QED BY <1>5, <1>6, <1>7, <1>8, <1>9 DEF Enforced, new

(* What the external search recalls.                                       *)
Recalled(new, U) ==
    /\ new \in Seq(HitsOf(U)) /\ Raw(new) /\ ByRRF(new) /\ Len(new) <= CandidateK
    /\ new = <<>> => Crowded

(* A recall from the index is empty only where stale leaves crowd it.       *)
LEMMA Recalling ==
    ASSUME NEW N \in Nat, Leaves = 1 .. N,
           NEW dense \in Seq(1 .. N), Len(dense) = N, IsInjective(dense),
           NEW sparse \in Seq(1 .. N), NEW m \in Nat
    PROVE  Recalled(InForce(FuseMilvus(Prefix(dense, CandidateK),
                                       Prefix(sparse, Least(m, CandidateK)))),
                    {Leaf(i) : i \in 1 .. N})
<1> DEFINE l == Least(m, CandidateK)
           d == Prefix(dense, CandidateK)
           s == Prefix(sparse, l)
           L == FuseMilvus(d, s)
           new == InForce(L)
           U == {Leaf(i) : i \in 1 .. N}
<1>1. CandidateK \in Nat /\ l \in Nat
  BY Numbers DEF Least
<1> HIDE DEF l
<1>2. Starts(d, dense, CandidateK, 1 .. N) /\ Starts(s, sparse, l, 1 .. N)
  BY <1>1, PrefixOf
<1> HIDE DEF d, s
<1>3. d \in Seq(1 .. N) /\ s \in Seq(1 .. N)
  BY <1>2 DEF Starts
<1>4. /\ L \in Seq(LeafHits(N)) /\ Raw(L) /\ ByRRF(L)
      /\ Returns(L, Range(d) \cup Range(s), CandidateK)
  BY <1>3, MilvusFuses
<1> HIDE DEF L
<1>5. L \in Seq(HitsOf(U))
  BY <1>4 DEF LeafHits
<1>6. Enforced(new, L, U)
  <2> HIDE DEF U
  <2> QED BY <1>4, <1>5, Enforcing
<1> HIDE DEF new
<1>7. Len(L) \in Nat /\ DOMAIN L = 1 .. Len(L) /\ Len(L) <= CandidateK
  BY <1>4, <1>5, HitFields DEF Returns
<1>8. Len(new) <= CandidateK
  <2> DEFINE a == Len(new)
             b == Len(L)
  <2>1. a \in Nat /\ a <= b /\ b <= CandidateK /\ b \in Nat
    <3>1. Len(new) \in Nat
      BY <1>6, HitFields DEF Enforced
    <3> QED BY <1>6, <1>7, <3>1 DEF Enforced
  <2> HIDE DEF a, b
  <2>2. a <= CandidateK
    BY <1>1, <2>1
  <2> QED BY <2>2 DEF a
<1>9. ASSUME new = <<>> PROVE Crowded
  <2>1. \A k \in 1 .. Len(L) : L[k].id[2] \in StaleLeaves
    BY <1>6, <1>9 DEF Enforced
  <2>2. CASE Len(L) = CandidateK
    <3> DEFINE f == [k \in 1 .. CandidateK |-> L[k].id[2]]
    <3>1. f \in [1 .. CandidateK -> StaleLeaves]
      BY <2>1, <2>2
    <3>2. \A p, q \in 1 .. CandidateK : f[p] = f[q] => p = q
      <4> TAKE p, q \in 1 .. CandidateK
      <4> HAVE f[p] = f[q]
      <4>1. L[p].id \in {Leaf(i) : i \in Leaves} /\ L[q].id \in {Leaf(i) : i \in Leaves}
            /\ (L[p].id = L[q].id => p = q)
        BY <1>4, <1>7, <2>2 DEF Raw
      <4>2. L[p].id[2] = L[q].id[2]
        OBVIOUS
      <4>3. PICK i \in Leaves : L[p].id = Leaf(i)
        BY <4>1
      <4>4. PICK j \in Leaves : L[q].id = Leaf(j)
        BY <4>1
      <4>5. i = j
        BY <4>2, <4>3, <4>4 DEF Leaf
      <4> QED BY <4>1, <4>3, <4>4, <4>5
    <3> HIDE DEF f
    <3>3. CandidateK \in {CandidateK, N}
      OBVIOUS
    <3> QED BY <1>1, <3>1, <3>2, <3>3, ManyStale
  <2>3. CASE Len(L) # CandidateK
    <3> DEFINE n == Len(d)
    <3>1. \A i \in Range(d) : i \in StaleLeaves
      <4> TAKE i \in Range(d)
      <4>1. PICK k \in DOMAIN L : L[k].id = Leaf(i)
        BY <1>4, <2>3 DEF Returns
      <4>2. L[k].id[2] = i
        BY <4>1 DEF Leaf
      <4> QED BY <1>7, <2>1, <4>1, <4>2
    <3>2. /\ n \in Nat /\ n \in {CandidateK, N}
          /\ \A p \in 1 .. n : p \in 1 .. N /\ d[p] = dense[p]
      BY <1>1, <1>2 DEF Starts, Least
    <3>3. d \in [1 .. n -> StaleLeaves]
      <4>1. d = [p \in 1 .. n |-> d[p]]
        BY <1>3
      <4>2. \A p \in 1 .. n : d[p] \in StaleLeaves
        BY <1>3, <3>1 DEF Range
      <4> HIDE DEF n
      <4> QED BY <4>1, <4>2
    <3>4. \A p, q \in 1 .. n : d[p] = d[q] => p = q
      <4>1. DOMAIN dense = 1 .. N
        OBVIOUS
      <4> HIDE DEF n
      <4> QED BY <3>2, <4>1 DEF IsInjective
    <3> HIDE DEF n
    <3> QED BY <3>2, <3>3, <3>4, ManyStale
  <2> QED BY <2>2, <2>3
<1>10. Recalled(new, U)
  BY <1>6, <1>4, <1>8, <1>9 DEF Recalled, Enforced
<1> QED BY <1>10 DEF new, L, d, s, l

-----------------------------------------------------------------------------
(* Lists of lists *)

(* FlattenSeq has what is in the lists, and nothing else.                  *)
Flattens(flat, seqs, E) ==
    /\ flat \in Seq(E)
    /\ \A i \in 1 .. Len(seqs) : \A j \in 1 .. Len(seqs[i]) :
          \E k \in 1 .. Len(flat) : flat[k] = seqs[i][j]

(* FlattenSeq has every element of every list.                              *)
LEMMA Flattening ==
    ASSUME NEW E, NEW seqs \in Seq(Seq(E))
    PROVE  Flattens(FlattenSeq(seqs), seqs, E)
<1> DEFINE N == Len(seqs)
           V == Seq(E)
           Step == [i \in 1 .. N |-> [v \in V |-> v \o seqs[i]]]
           flatten == CHOOSE flatten : flatten = [i \in 1 .. N |->
                         IF i = 1 THEN seqs[i] ELSE flatten[i - 1] \o seqs[i]]
<1>1. N \in Nat /\ \A i \in 1 .. N : seqs[i] \in V
  OBVIOUS
<1>2. CASE N = 0
  <2>1. FlattenSeq(seqs) = seqs
    BY <1>2, Zenon DEF FlattenSeq
  <2>2. seqs = <<>>
    BY <1>2
  <2> QED BY <1>2, <2>1, <2>2 DEF Flattens
<1>3. CASE N # 0
  <2>1. Step \in [1 .. N -> [V -> V]]
    <3>1. \A i \in 1 .. N : \A v \in V : v \o seqs[i] \in V
      BY <1>1
    <3> HIDE DEF V, N
    <3> QED BY <3>1
  <2>2. PICK f \in [0 .. N -> V] :
           f[0] = <<>> /\ \A i \in 1 .. N : f[i] = Step[i][f[i - 1]]
    <3>1. <<>> \in V
      OBVIOUS
    <3> HIDE DEF Step, N, V
    <3>2. \E f : f \in Iterates(N, V, <<>>, Step)
      BY <1>1, <2>1, <3>1, Recursion
    <3> QED BY <3>2 DEF Iterates
  <2>3. \A i \in 1 .. N : f[i - 1] \in V /\ f[i] \in V /\ f[i] = f[i - 1] \o seqs[i]
    <3> TAKE i \in 1 .. N
    <3>1. i - 1 \in 0 .. N /\ i \in 0 .. N
      BY <1>1
    <3>2. f[i - 1] \in V /\ f[i] \in V
      BY <2>2, <3>1
    <3> HIDE DEF V, N
    <3> QED BY <2>2, <3>2
  <2>4. f[1] = seqs[1]
    <3>1. 1 \in 1 .. N /\ 1 - 1 = 0
      BY <1>1, <1>3
    <3>2. f[1] = <<>> \o seqs[1]
      BY <2>2, <2>3, <3>1
    <3> QED BY <1>1, <3>1, <3>2
  <2> DEFINE g == [i \in 1 .. N |-> f[i]]
  <2> HIDE DEF V, Step, N
  <2>5. g = [i \in 1 .. N |-> IF i = 1 THEN seqs[i] ELSE g[i - 1] \o seqs[i]]
    <3>1. \A i \in 1 .. N : f[i] = IF i = 1 THEN seqs[i] ELSE g[i - 1] \o seqs[i]
      <4> TAKE i \in 1 .. N
      <4>1. CASE i = 1
        BY <2>4, <4>1
      <4>2. CASE i # 1
        <5>1. i - 1 \in 1 .. N
          BY <1>1, <4>2
        <5> QED BY <2>3, <4>2, <5>1
      <4> QED BY <4>1, <4>2
    <3> QED BY <3>1
  <2> HIDE DEF g
  <2>6. flatten = [i \in 1 .. N |-> IF i = 1 THEN seqs[i] ELSE flatten[i - 1] \o seqs[i]]
    BY <2>5, Zenon
  <2>7. FlattenSeq(seqs) = flatten[N]
    BY <1>3, Zenon DEF FlattenSeq, N
  <2> HIDE DEF flatten
  <2>8. \A i \in 1 .. N : flatten[i] = IF i = 1 THEN seqs[i] ELSE flatten[i - 1] \o seqs[i]
    BY <2>6, Zenon
  <2> DEFINE Has(s, i) == \A j \in 1 .. Len(seqs[i]) : \E k \in 1 .. Len(s) : s[k] = seqs[i][j]
             S == {m \in 0 .. N : m > 0 => /\ flatten[m] \in V
                                           /\ \A i \in 1 .. m : Has(flatten[m], i)}
  <2>9. ASSUME NEW m \in 0 .. N - 1, m \in S PROVE m + 1 \in S
    <3>1. m + 1 \in 1 .. N /\ m + 1 \in 0 .. N /\ seqs[m + 1] \in V
      BY <1>1
    <3>2. CASE m = 0
      <4>1. flatten[m + 1] = seqs[m + 1]
        BY <2>8, <3>1, <3>2
      <4>2. \A i \in 1 .. m + 1 : i = m + 1
        BY <3>2
      <4>3. Has(seqs[m + 1], m + 1)
        OBVIOUS
      <4> HIDE DEF Has
      <4> QED BY <3>1, <4>1, <4>2, <4>3
    <3>3. CASE m # 0
      <4> DEFINE s == flatten[m]
                 t == seqs[m + 1]
      <4>1. flatten[m + 1] = s \o t
        <5>1. m + 1 # 1 /\ (m + 1) - 1 = m
          BY <1>1, <3>3
        <5> QED BY <2>8, <3>1, <5>1
      <4>2. s \in V /\ t \in V /\ \A i \in 1 .. m : Has(s, i)
        <5>1. m \in Nat /\ m > 0
          BY <1>1, <3>3
        <5>2. flatten[m] \in V /\ \A i \in 1 .. m : Has(flatten[m], i)
          <6> HIDE DEF Has, V
          <6> QED BY <2>9, <5>1
        <5> HIDE DEF Has, V
        <5> QED BY <3>1, <5>2
      <4> HIDE DEF s
      <4>3. /\ s \o t \in V /\ Len(s \o t) = Len(s) + Len(t) /\ Len(s) \in Nat /\ Len(t) \in Nat
            /\ \A k \in 1 .. Len(s) : (s \o t)[k] = s[k]
            /\ \A j \in 1 .. Len(t) : (s \o t)[Len(s) + j] = t[j]
        <5> HIDE DEF t
        <5> QED BY <4>2 DEF V
      <4> DEFINE u == s \o t
      <4> HIDE DEF u
      <4>4. \A i \in 1 .. m : Has(u, i)
        <5> TAKE i \in 1 .. m
        <5> SUFFICES ASSUME NEW j \in 1 .. Len(seqs[i])
                     PROVE  \E k \in 1 .. Len(u) : u[k] = seqs[i][j]
          OBVIOUS
        <5>1. PICK k \in 1 .. Len(s) : s[k] = seqs[i][j]
          BY <4>2
        <5>2. k \in 1 .. Len(u) /\ u[k] = s[k]
          BY <4>3 DEF u
        <5> QED BY <5>1, <5>2
      <4>5. Has(u, m + 1)
        <5> SUFFICES ASSUME NEW j \in 1 .. Len(t)
                     PROVE  \E k \in 1 .. Len(u) : u[k] = t[j]
          OBVIOUS
        <5>1. Len(s) + j \in 1 .. Len(u) /\ u[Len(s) + j] = t[j]
          BY <4>3 DEF u
        <5> QED BY <5>1
      <4> HIDE DEF Has, t
      <4>6. \A i \in 1 .. m + 1 : i \in 1 .. m \/ i = m + 1
        BY <1>1
      <4> QED BY <3>1, <4>1, <4>3, <4>4, <4>5, <4>6 DEF u
    <3> QED BY <3>2, <3>3
  <2>10. N \in S
    <3>1. 0 \in S
      BY <1>1
    <3>2. \A m \in 0 .. N - 1 : m \in S => m + 1 \in S
      BY <2>9
    <3> HIDE DEF S
    <3>3. \A m \in 0 .. N : m \in S
      BY <1>1, <3>1, <3>2, Induction
    <3> QED BY <1>1, <3>3
  <2> QED BY <1>1, <1>3, <2>7, <2>10 DEF Flattens, N, V
<1> QED BY <1>2, <1>3

-----------------------------------------------------------------------------
(* Windows and chunks *)

(* Every position of a text lies in a window of slidingWindows: the loop   *)
(* neither skips a position nor stops before the end of the text, whatever *)
(* the size and the overlap.                                               *)
THEOREM WindowsCover ==
    ASSUME NEW length \in Nat, NEW size \in Nat \ {0}, NEW overlap \in 0 .. size - 1,
           NEW p \in 0 .. length - 1
    PROVE  \E s \in WindowStarts(length, size, overlap) :
              s <= p /\ p < Least(s + size, length)
  <1> DEFINE stride == size - overlap
  <1>1. stride \in Nat \ {0} /\ stride <= size
    OBVIOUS
  <1>2. CASE p < size
    <2>1. 0 * stride \in WindowStarts(length, size, overlap)
      BY DEF WindowStarts
    <2>2. 0 * stride = 0
      BY <1>1
    <2> QED BY <1>2, <2>1, <2>2 DEF Least
  <1>3. CASE p >= size
    <2>1. PICK q \in Nat : q * stride <= p - size /\ p - size < (q + 1) * stride
      <3>1. p - size \in Nat
        BY <1>3
      <3> HIDE DEF stride
      <3> QED BY <1>1, <3>1, Strides
    <2> DEFINE s == (q + 1) * stride
    <2> HIDE DEF stride
    <2>2. s = q * stride + stride /\ q <= q * stride /\ q * stride \in Nat
      BY <1>1, <2>1, SMT
    <2>3. q + 1 \in 0 .. length - 1 /\ q * stride + size < length /\ (q + 1) - 1 = q
      BY <1>1, <1>3, <2>1, <2>2
    <2>4. s \in WindowStarts(length, size, overlap)
      <3>1. s \in {k * (size - overlap) : k \in {k \in 0 .. length - 1 :
                     k = 0 \/ (k - 1) * (size - overlap) + size < length}}
        BY <2>3, Zenon DEF s, stride
      <3> QED BY <3>1 DEF WindowStarts
    <2> HIDE DEF s
    <2>5. s \in Nat /\ s <= p /\ p < s + size
      BY <1>1, <1>3, <2>1, <2>2 DEF s
    <2>6. p < Least(s + size, length)
      BY <2>5 DEF Least
    <2> QED BY <2>4, <2>5, <2>6
  <1> QED BY <1>2, <1>3

(* A piece says which part of its text it is, and is not empty.            *)
PieceOf(piece, text, C) ==
    /\ piece.start \in Nat /\ piece.end \in Nat /\ piece.text \in Seq(C)
    /\ piece.start < piece.end /\ piece.end <= Len(text)
    /\ piece.text = SubSeq(text, piece.start + 1, piece.end)
    /\ Len(piece.text) = piece.end - piece.start

(* Parts of sequences.                                                     *)
LEMMA Parts ==
    ASSUME NEW C, NEW text \in Seq(C), NEW s \in Nat, NEW e \in Nat, s <= e, e <= Len(text)
    PROVE  /\ SubSeq(text, s + 1, e) \in Seq(C)
           /\ Len(SubSeq(text, s + 1, e)) = e - s
           /\ \A p \in 1 .. e - s : SubSeq(text, s + 1, e)[p] = text[s + p]
<1>1. \A k \in s + 1 .. e : text[k] \in C
  OBVIOUS
<1>2. Len(text) \in Nat
  OBVIOUS
<1> DEFINE t == SubSeq(text, s + 1, e)
<1>3. t = [p \in 1 .. e - s |-> text[s + p]]
  OBVIOUS
<1>4. \A p \in 1 .. e - s : s + p \in s + 1 .. e
  OBVIOUS
<1> HIDE DEF t
<1>5. t \in [1 .. e - s -> C]
  BY <1>1, <1>3, <1>4
<1>6. e - s \in Nat
  OBVIOUS
<1> QED BY <1>3, <1>5, <1>6 DEF t

(* Numbers between two others are finitely many.                           *)
LEMMA Between ==
    ASSUME NEW a \in Int, NEW b \in Int, NEW S \in SUBSET (a .. b)
    PROVE  IsFiniteSet(S) /\ S \in SUBSET Int
<1>1. IsFiniteSet(a .. b)
  BY FS_Interval
<1>2. IsFiniteSet(S)
  BY <1>1, FS_Subset
<1> QED BY <1>2

(* Trimming keeps all that is not blank.                                   *)
Trims(piece, text, s, e, C) ==
    /\ PieceOf(piece, text, C) /\ s <= piece.start /\ piece.end <= e
    /\ \A p \in Solid(text, s, e) : piece.start <= p /\ p < piece.end

(* Trimming keeps all that is not blank.                                    *)
LEMMA Trimming ==
    ASSUME NEW C, NEW text \in Seq(C), NEW s \in Nat, NEW e \in Nat, e <= Len(text),
           Solid(text, s, e) # {}
    PROVE  Trims(Trimmed(text, s, e), text, s, e, C)
<1> DEFINE S == Solid(text, s, e)
           a == Min(S)
           b == Max(S)
           t == SubSeq(text, a + 1, b + 1)
<1>1. S \in SUBSET (s .. e - 1) /\ S # {}
  BY DEF Solid
<1>2. S \in SUBSET Nat /\ S \in SUBSET Int /\ IsFiniteSet(S)
  <2> HIDE DEF S
  <2> DEFINE last == e - 1
  <2>1. last \in Int /\ s \in Int /\ S \in SUBSET (s .. last)
    BY <1>1
  <2> HIDE DEF last
  <2>2. IsFiniteSet(S) /\ S \in SUBSET Int
    BY <2>1, Between
  <2> QED BY <1>1, <2>2
<1>3. Trimmed(text, s, e) = [text |-> t, start |-> a, end |-> b + 1]
  BY Zenon DEF Trimmed, Piece
<1> HIDE DEF S
<1>4. /\ a \in S /\ \A k \in S : a <= k
      /\ b \in S /\ \A k \in S : k <= b
  BY <1>1, <1>2, MinIs, MaxIs
<1> HIDE DEF a, b
<1>5. /\ a \in Nat /\ b \in Nat /\ a <= b + 1 /\ b + 1 <= Len(text) /\ b + 1 \in Nat
      /\ s <= a /\ b + 1 <= e /\ a < b + 1
      /\ \A p \in S : a <= p /\ p < b + 1
  BY <1>1, <1>2, <1>4
<1>6. t \in Seq(C) /\ Len(t) = (b + 1) - a
  BY <1>5, Parts
<1> DEFINE piece == [text |-> t, start |-> a, end |-> b + 1]
<1>7. piece.text = t /\ piece.start = a /\ piece.end = b + 1
  OBVIOUS
<1> HIDE DEF piece
<1>8. PieceOf(piece, text, C)
  BY <1>5, <1>6, <1>7 DEF PieceOf
<1>9. Trims(piece, text, s, e, C)
  BY <1>5, <1>7, <1>8 DEF Trims, S
<1> QED BY <1>3, <1>9 DEF piece

(* Of every span, what is not blank is in a piece.                         *)
Covering(pieces, text, ignored) ==
    \A p \in 0 .. Len(text) - 1 : text[p + 1] \notin ignored =>
        \E i \in 1 .. Len(pieces) : pieces[i].start <= p /\ p < pieces[i].end

AllPieces(pieces, text, C) ==
    /\ Len(pieces) \in Nat /\ DOMAIN pieces = 1 .. Len(pieces)
    /\ \A i \in 1 .. Len(pieces) : PieceOf(pieces[i], text, C)

(* Pieces that cover a text before they are trimmed cover it after.         *)
LEMMA PiecesAre ==
    ASSUME NEW C, NEW text \in Seq(C), NEW ends,
           \A s \in DOMAIN ends : s \in Nat /\ ends[s] \in 0 .. Len(text),
           NEW ignored, Blank \in ignored,
           \A p \in 0 .. Len(text) - 1 : text[p + 1] \notin ignored =>
               \E s \in DOMAIN ends : s <= p /\ p < ends[s]
    PROVE  AllPieces(Pieces(text, ends), text, C) /\ Covering(Pieces(text, ends), text, ignored)
<1> DEFINE S == {s \in DOMAIN ends : Solid(text, s, ends[s]) # {}}
           n == Cardinality(S)
           a == Ascending(S)
           P == Pieces(text, ends)
<1>1. P = [i \in DOMAIN a |-> Trimmed(text, a[i], ends[a[i]])]
  BY Zenon DEF Pieces
<1>2. \A s \in S : /\ s \in DOMAIN ends /\ s \in Nat /\ ends[s] \in Nat /\ ends[s] <= Len(text)
                   /\ Solid(text, s, ends[s]) # {} /\ s \in 0 .. Len(text)
  <2> TAKE s \in S
  <2>1. s \in DOMAIN ends /\ Solid(text, s, ends[s]) # {}
    OBVIOUS
  <2>2. s \in Nat /\ ends[s] \in 0 .. Len(text) /\ Len(text) \in Nat
    BY <2>1
  <2>3. s <= ends[s]
    BY <2>1, <2>2 DEF Solid
  <2> QED BY <2>1, <2>2, <2>3
<1>3. \A s \in DOMAIN ends : Solid(text, s, ends[s]) # {} => s \in S
  OBVIOUS
<1> HIDE DEF S, P
<1>4. S \in SUBSET Int /\ IsFiniteSet(S)
  <2> DEFINE first == 0
             last == Len(text)
  <2>1. S \in SUBSET (first .. last) /\ last \in Int /\ first \in Int
    BY <1>2
  <2> HIDE DEF first, last
  <2> QED BY <2>1, Between
<1>5. Rising(a, S)
  BY <1>4, AscendingRises
<1> HIDE DEF a
<1>6. /\ n \in Nat /\ a \in [1 .. n -> S] /\ \A k \in S : \E p \in 1 .. n : a[p] = k
  BY <1>5 DEF Rising
<1> HIDE DEF n
<1>7. DOMAIN P = 1 .. n /\ Len(P) = n
  <2>1. P = [i \in 1 .. n |-> Trimmed(text, a[i], ends[a[i]])]
    BY <1>1, <1>6
  <2> QED BY <1>6, <2>1
<1>8. \A i \in 1 .. n : a[i] \in S /\ Trims(P[i], text, a[i], ends[a[i]], C)
  <2> TAKE i \in 1 .. n
  <2> DEFINE s == a[i]
             e == ends[s]
  <2>1. s \in S /\ P[i] = Trimmed(text, s, e)
    BY <1>1, <1>6
  <2>2. s \in Nat /\ e \in Nat /\ e <= Len(text) /\ Solid(text, s, e) # {}
    BY <1>2, <2>1
  <2> HIDE DEF s, e
  <2>3. Trims(P[i], text, s, e, C)
    BY <2>1, <2>2, Trimming
  <2> QED BY <2>1, <2>3 DEF s, e
<1>9. AllPieces(P, text, C)
  BY <1>6, <1>7, <1>8 DEF AllPieces, Trims
<1>10. ASSUME NEW p \in 0 .. Len(text) - 1, text[p + 1] \notin ignored
       PROVE  \E i \in 1 .. Len(P) : P[i].start <= p /\ p < P[i].end
  <2>1. PICK s \in DOMAIN ends : s <= p /\ p < ends[s]
    BY <1>10
  <2>2. s \in Nat /\ ends[s] \in Nat
    BY <2>1
  <2>3. p \in Solid(text, s, ends[s])
    BY <1>10, <2>1, <2>2 DEF Solid
  <2>4. s \in S
    BY <1>3, <2>3
  <2>5. PICK i \in 1 .. n : a[i] = s
    BY <1>6, <2>4
  <2>6. Trims(P[i], text, s, ends[s], C)
    BY <1>8, <2>5
  <2> QED BY <1>7, <2>3, <2>5, <2>6 DEF Trims
<1> QED BY <1>9, <1>10 DEF Covering, P

(* SlidingWindows: every character that is not blank.                      *)
LEMMA SlidingWindowsAre ==
    ASSUME NEW C, NEW text \in Seq(C), NEW level, level.size \in Nat \ {0},
           level.overlap \in 0 .. level.size - 1
    PROVE  /\ AllPieces(SlidingWindows(text, level), text, C)
           /\ Covering(SlidingWindows(text, level), text, {Blank})
<1> DEFINE size == level.size
           overlap == level.overlap
           N == Len(text)
           W == WindowStarts(N, size, overlap)
           ends == [s \in W |-> Least(s + size, N)]
<1>1. SlidingWindows(text, level) = Pieces(text, ends)
  BY Zenon DEF SlidingWindows
<1>2. N \in Nat /\ size \in Nat \ {0} /\ overlap \in 0 .. size - 1
  OBVIOUS
<1> HIDE DEF size, overlap, N
<1>3. \A s \in W : s \in Nat
  <2> DEFINE stride == size - overlap
             K == {k \in 0 .. N - 1 : k = 0 \/ (k - 1) * stride + size < N}
  <2>1. W = {k * stride : k \in K}
    BY Zenon DEF WindowStarts
  <2>2. stride \in Nat /\ \A k \in K : k \in Nat
    BY <1>2
  <2> HIDE DEF stride, K
  <2>3. \A k \in K : k * stride \in Nat
    BY <2>2, SMT
  <2> QED BY <2>1, <2>3
<1>4. \A p \in 0 .. N - 1 : \E s \in W : s <= p /\ p < Least(s + size, N)
  BY <1>2, WindowsCover
<1> HIDE DEF W
<1>5. DOMAIN ends = W /\ \A s \in W : ends[s] = Least(s + size, N)
  OBVIOUS
<1> HIDE DEF ends
<1>6. \A s \in DOMAIN ends : s \in Nat /\ ends[s] \in 0 .. Len(text)
  BY <1>2, <1>3, <1>5 DEF Least, N
<1>7. \A p \in 0 .. Len(text) - 1 : text[p + 1] \notin {Blank} =>
         \E s \in DOMAIN ends : s <= p /\ p < ends[s]
  BY <1>4, <1>5 DEF N
<1>8. AllPieces(Pieces(text, ends), text, C) /\ Covering(Pieces(text, ends), text, {Blank})
  <2>1. Blank \in {Blank}
    OBVIOUS
  <2> QED BY <1>6, <1>7, <2>1, PiecesAre
<1> QED BY <1>1, <1>8

ChunksOf(C) ==
    [text : Seq(C), start : Nat, end : Nat, doc : Nat, parent : Nat, children : Nat]

(* A chunk is where in its document it says, ...                           *)
Lies(c, documents, C) ==
    /\ c.doc \in 1 .. Len(documents) /\ documents[c.doc].text \in Seq(C)
    /\ c.start \in Nat /\ c.text \in Seq(C)
    /\ c.start + Len(c.text) <= Len(documents[c.doc].text)
    /\ c.text = SubSeq(documents[c.doc].text, c.start + 1, c.start + Len(c.text))

(* ... is not empty, and lies in its parent.                               *)
Child(c, parents) ==
    /\ c.text # <<>> /\ c.end = c.start + Len(c.text)
    /\ c.parent \in 1 .. Len(parents)
    /\ parents[c.parent].doc = c.doc
    /\ parents[c.parent].start <= c.start
    /\ c.end <= parents[c.parent].start + Len(parents[c.parent].text)

ChildrenOf(parents, documents, C) ==
    {c \in ChunksOf(C) : Lies(c, documents, C) /\ Child(c, parents)}

(* A part of a part of a text is a part of the text.                       *)
LEMMA PartOfPart ==
    ASSUME NEW C, NEW text \in Seq(C), NEW s \in Nat, NEW n \in Nat, s + n <= Len(text),
           NEW a \in Nat, NEW b \in Nat, a <= b, b <= n
    PROVE  SubSeq(SubSeq(text, s + 1, s + n), a + 1, b) = SubSeq(text, (s + a) + 1, s + b)
<1> DEFINE t == SubSeq(text, s + 1, s + n)
           u == SubSeq(t, a + 1, b)
           v == SubSeq(text, (s + a) + 1, s + b)
<1>1. Len(text) \in Nat
  OBVIOUS
<1>2. t \in Seq(C) /\ Len(t) = n /\ \A p \in 1 .. n : t[p] = text[s + p]
  <2>1. s + n \in Nat /\ s <= s + n /\ (s + n) - s = n
    OBVIOUS
  <2> QED BY <2>1, Parts
<1> HIDE DEF t
<1>3. u \in Seq(C) /\ Len(u) = b - a /\ \A p \in 1 .. b - a : u[p] = t[a + p]
  <2>1. t \in Seq(C) /\ a \in Nat /\ b \in Nat /\ a <= b /\ b <= Len(t)
    BY <1>2
  <2> QED BY ONLY <2>1, Parts
<1> HIDE DEF u
<1>4. v \in Seq(C) /\ Len(v) = b - a /\ \A p \in 1 .. b - a : v[p] = text[(s + a) + p]
  <2> DEFINE c == s + a
             d == s + b
  <2>1. c \in Nat /\ d \in Nat /\ c <= d /\ d <= Len(text) /\ d - c = b - a
    BY <1>1
  <2> HIDE DEF c, d
  <2> DEFINE w == SubSeq(text, c + 1, d)
  <2>2. w \in Seq(C) /\ Len(w) = d - c /\ \A p \in 1 .. d - c : w[p] = text[c + p]
    BY <2>1, Parts
  <2>3. v = w
    BY DEF c, d
  <2> HIDE DEF v, w
  <2>4. v \in Seq(C) /\ Len(v) = b - a /\ \A p \in 1 .. b - a : v[p] = text[c + p]
    BY <2>1, <2>2, <2>3
  <2> QED BY <2>4 DEF c
<1> HIDE DEF v
<1>5. \A p \in 1 .. b - a : u[p] = v[p]
  <2> TAKE p \in 1 .. b - a
  <2>1. a + p \in 1 .. n /\ s + (a + p) = (s + a) + p
    OBVIOUS
  <2>2. u[p] = t[a + p]
    BY <1>3
  <2>3. t[a + p] = text[s + (a + p)]
    BY <1>2, <2>1
  <2>4. v[p] = text[(s + a) + p]
    BY <1>4
  <2> QED BY <2>1, <2>2, <2>3, <2>4
<1>6. u = v
  <2> DEFINE m == b - a
  <2>1. m \in Nat
    OBVIOUS
  <2>2. /\ u \in Seq(C) /\ Len(u) = m /\ v \in Seq(C) /\ Len(v) = m
        /\ \A p \in 1 .. m : u[p] = v[p]
    BY <1>3, <1>4, <1>5
  <2> HIDE DEF m
  <2> QED BY ONLY <2>1, <2>2
<1> QED BY <1>6 DEF t, u, v

(* What is cut out of a chunk is a child of it.                            *)
LEMMA CuttingOut ==
    ASSUME NEW C, NEW documents, NEW parents, NEW p \in 1 .. Len(parents), Len(parents) \in Nat,
           Len(documents) \in Nat, Lies(parents[p], documents, C),
           NEW piece, PieceOf(piece, parents[p].text, C)
    PROVE  Chunk(piece, parents[p].doc, parents[p].start + piece.start, p, 0)
              \in ChildrenOf(parents, documents, C)
<1> DEFINE parent == parents[p]
           start == parent.start + piece.start
           c == Chunk(piece, parent.doc, start, p, 0)
           text == documents[parent.doc].text
           n == Len(parent.text)
           len == Len(piece.text)
<1>1. /\ parent.doc \in 1 .. Len(documents) /\ text \in Seq(C)
      /\ parent.start \in Nat /\ parent.text \in Seq(C)
      /\ n \in Nat /\ parent.start + n <= Len(text)
      /\ parent.text = SubSeq(text, parent.start + 1, parent.start + n)
  BY DEF Lies
<1>2. /\ piece.start \in Nat /\ piece.end \in Nat /\ piece.text \in Seq(C)
      /\ piece.start < piece.end /\ piece.end <= n
      /\ piece.text = SubSeq(parent.text, piece.start + 1, piece.end)
      /\ len = piece.end - piece.start
  BY DEF PieceOf
<1>3. /\ c.text = piece.text /\ c.start = start /\ c.end = start + len
      /\ c.doc = parent.doc /\ c.parent = p /\ c.children = 0
      /\ c = [text |-> c.text, start |-> c.start, end |-> c.end, doc |-> c.doc,
              parent |-> c.parent, children |-> c.children]
  BY DEF Chunk
<1> DEFINE e == piece.end
<1>4. /\ start \in Nat /\ start + len = parent.start + e
      /\ start + len \in Nat /\ start + len <= Len(text)
      /\ parent.start <= start /\ start + len <= parent.start + n
      /\ len > 0 /\ len \in Nat
  <2> DEFINE m == Len(text)
             s == parent.start
             a == piece.start
  <2>1. /\ m \in Nat /\ n \in Nat /\ s \in Nat /\ s + n <= m
        /\ a \in Nat /\ e \in Nat /\ a < e /\ e <= n /\ len = e - a
    <3>1. m \in Nat
      BY <1>1
    <3> HIDE DEF m, n, len, text
    <3>2. s + n <= m
      BY <1>1 DEF m
    <3> QED BY <1>1, <1>2, <3>1, <3>2
  <2>2. start = s + a
    OBVIOUS
  <2> HIDE DEF m, n, len, e, s, a, start
  <2>3. /\ start \in Nat /\ start + len = s + e
        /\ start + len \in Nat /\ start + len <= m
        /\ s <= start /\ start + len <= s + n
        /\ len > 0 /\ len \in Nat
    BY ONLY <2>1, <2>2
  <2> QED BY <2>3 DEF m, s
<1>5. piece.text = SubSeq(text, start + 1, start + len)
  <2>1. SubSeq(SubSeq(text, parent.start + 1, parent.start + n), piece.start + 1, e)
           = SubSeq(text, (parent.start + piece.start) + 1, parent.start + e)
    <3> DEFINE s == parent.start
               a == piece.start
    <3>1. /\ text \in Seq(C) /\ s \in Nat /\ n \in Nat /\ s + n <= Len(text)
          /\ a \in Nat /\ e \in Nat /\ a <= e /\ e <= n
      BY <1>1, <1>2
    <3> HIDE DEF text, s, n, a, e
    <3>2. SubSeq(SubSeq(text, s + 1, s + n), a + 1, e) = SubSeq(text, (s + a) + 1, s + e)
      BY <3>1, PartOfPart
    <3> QED BY <3>2 DEF s, a
  <2> QED BY <1>1, <1>2, <1>4, <2>1
<1>6. piece.text # <<>>
  <2>1. len # 0
    BY <1>4
  <2>2. Len(<<>>) = 0
    OBVIOUS
  <2> QED BY ONLY <2>1, <2>2 DEF len
<1> HIDE DEF c, start, len, n, text, e
<1>7. Lies(c, documents, C)
  BY <1>1, <1>2, <1>3, <1>4, <1>5 DEF Lies, text, len
<1>8. Child(c, parents)
  BY <1>1, <1>3, <1>4, <1>6 DEF Child, n, len
<1>9. c \in ChunksOf(C)
  <2>1. /\ c.text \in Seq(C) /\ c.start \in Nat /\ c.end \in Nat /\ c.doc \in Nat
        /\ c.parent \in Nat /\ c.children \in Nat
    <3>1. \A m \in Nat : \A k \in 1 .. m : k \in Nat
      OBVIOUS
    <3>2. parent.doc \in Nat /\ p \in Nat
      BY <1>1, <3>1, Zenon
    <3> QED BY <1>2, <1>3, <1>4, <3>2
  <2> QED BY <1>3, <2>1 DEF ChunksOf
<1> QED BY <1>7, <1>8, <1>9 DEF ChildrenOf, c, start

(* All that is not to be ignored is in some chunk.                         *)
Covers(chunks, documents, ignored) ==
    \A d \in 1 .. Len(documents) : \A p \in 0 .. Len(documents[d].text) - 1 :
        documents[d].text[p + 1] \notin ignored =>
            \E i \in 1 .. Len(chunks) :
                /\ chunks[i].doc = d /\ chunks[i].start <= p
                /\ p < chunks[i].start + Len(chunks[i].text)

(* A level of the tree, and what is below it.                              *)
Sound(chunks, documents, C, ignored) ==
    /\ Len(chunks) \in Nat /\ DOMAIN chunks = 1 .. Len(chunks)
    /\ \A i \in 1 .. Len(chunks) : Lies(chunks[i], documents, C)
    /\ Covers(chunks, documents, ignored)

Children(chunks, parents, documents, C) ==
    /\ chunks \in Seq(ChunksOf(C))
    /\ \A i \in 1 .. Len(chunks) : Lies(chunks[i], documents, C) /\ Child(chunks[i], parents)

(* Where the pieces of each chunk cover it, those of all chunks together   *)
(* cover the documents: positions are moved by the start of the parent.    *)
LEMMA CuttingUp ==
    ASSUME NEW C, NEW documents, Len(documents) \in Nat, NEW ignored,
           NEW parents, Sound(parents, documents, C, ignored),
           NEW pieces, DOMAIN pieces = 1 .. Len(parents),
           \A p \in 1 .. Len(parents) :
              AllPieces(pieces[p], parents[p].text, C) /\ Covering(pieces[p], parents[p].text, ignored),
           NEW lists,
           lists = [p \in 1 .. Len(parents) |-> [i \in DOMAIN pieces[p] |->
                       Chunk(pieces[p][i], parents[p].doc,
                             parents[p].start + pieces[p][i].start, p, 0)]]
    PROVE  /\ Children(FlattenSeq(lists), parents, documents, C)
           /\ Covers(FlattenSeq(lists), documents, ignored)
<1> DEFINE N == Len(parents)
           E == ChildrenOf(parents, documents, C)
           F == FlattenSeq(lists)
           cut(p, i) == Chunk(pieces[p][i], parents[p].doc,
                              parents[p].start + pieces[p][i].start, p, 0)
<1>1. /\ N \in Nat /\ \A p \in 1 .. N : Lies(parents[p], documents, C)
      /\ Covers(parents, documents, ignored)
  BY DEF Sound
<1>2. \A p \in 1 .. N :
         /\ Len(pieces[p]) \in Nat /\ DOMAIN pieces[p] = 1 .. Len(pieces[p])
         /\ \A i \in 1 .. Len(pieces[p]) : PieceOf(pieces[p][i], parents[p].text, C)
  BY DEF AllPieces
<1>3. \A p \in 1 .. N : \A i \in 1 .. Len(pieces[p]) : cut(p, i) \in E
  <2> HIDE DEF E
  <2> TAKE p \in 1 .. N
  <2> TAKE i \in 1 .. Len(pieces[p])
  <2> QED BY <1>1, <1>2, CuttingOut DEF E
<1> HIDE DEF E, cut, F, N
<1>4. \A p \in 1 .. N : /\ lists[p] \in Seq(E) /\ Len(lists[p]) = Len(pieces[p])
                        /\ \A i \in 1 .. Len(pieces[p]) : lists[p][i] = cut(p, i)
  <2> TAKE p \in 1 .. N
  <2> DEFINE n == Len(pieces[p])
  <2>1. n \in Nat /\ DOMAIN pieces[p] = 1 .. n
    BY <1>2
  <2>2. lists[p] = [i \in 1 .. n |-> cut(p, i)]
    BY <2>1 DEF N, cut
  <2> HIDE DEF n
  <2>3. \A i \in 1 .. n : cut(p, i) \in E
    BY <1>3 DEF n
  <2>4. lists[p] \in [1 .. n -> E]
    BY <2>2, <2>3
  <2>5. lists[p] \in Seq(E) /\ Len(lists[p]) = n
    <3> DEFINE list == lists[p]
    <3> HIDE DEF list
    <3>1. list \in [1 .. n -> E]
      BY <2>4 DEF list
    <3>2. list \in Seq(E) /\ Len(list) = n
      BY ONLY <2>1, <3>1
    <3> QED BY <3>2 DEF list
  <2> QED BY <2>2, <2>5 DEF n
<1>5. lists \in Seq(Seq(E)) /\ Len(lists) = N
  <2> DEFINE G == Seq(E)
  <2>1. \A p \in 1 .. N : lists[p] \in G
    BY <1>4
  <2>2. lists = [p \in 1 .. N |-> lists[p]]
    BY DEF N
  <2> HIDE DEF G
  <2>3. lists \in [1 .. N -> G]
    BY <2>1, <2>2
  <2>4. lists \in Seq(G) /\ Len(lists) = N
    BY <1>1, <2>3
  <2> QED BY <2>4 DEF G
<1>6. /\ F \in Seq(E)
      /\ \A p \in 1 .. N : \A i \in 1 .. Len(lists[p]) :
            \E k \in 1 .. Len(F) : F[k] = lists[p][i]
  <2>1. Flattens(F, lists, E)
    BY <1>5, Flattening DEF F
  <2> QED BY <1>5, <2>1 DEF Flattens
<1>7. Children(F, parents, documents, C)
  <2>1. \A c \in E : c \in ChunksOf(C) /\ Lies(c, documents, C) /\ Child(c, parents)
    BY DEF E, ChildrenOf
  <2>2. /\ Len(F) \in Nat /\ DOMAIN F = 1 .. Len(F)
        /\ \A k \in 1 .. Len(F) : F[k] \in E
    BY <1>6, ElementsOf
  <2>3. F \in Seq(ChunksOf(C))
    <3> DEFINE D == ChunksOf(C)
    <3> HIDE DEF D
    <3>1. \A c \in E : c \in D
      BY <2>1 DEF D
    <3>2. F \in Seq(D)
      BY <1>6, <3>1
    <3> QED BY <3>2 DEF D
  <2> QED BY <2>1, <2>2, <2>3 DEF Children
<1>8. ASSUME NEW d \in 1 .. Len(documents), NEW x \in 0 .. Len(documents[d].text) - 1,
             documents[d].text[x + 1] \notin ignored
      PROVE  \E k \in 1 .. Len(F) : /\ F[k].doc = d /\ F[k].start <= x
                                    /\ x < F[k].start + Len(F[k].text)
  <2>1. PICK p \in 1 .. N : /\ parents[p].doc = d /\ parents[p].start <= x
                            /\ x < parents[p].start + Len(parents[p].text)
    BY <1>1, <1>8 DEF Covers, N
  <2> DEFINE s == parents[p].start
             t == parents[p].text
             n == Len(t)
             text == documents[d].text
             y == x - s
  <2>2. /\ s \in Nat /\ t \in Seq(C) /\ text \in Seq(C) /\ n \in Nat /\ s + n <= Len(text)
        /\ t = SubSeq(text, s + 1, s + n)
    <3>1. Lies(parents[p], documents, C)
      BY <1>1
    <3> QED BY <2>1, <3>1 DEF Lies
  <2>3. x \in Nat /\ y \in 0 .. n - 1 /\ s <= x /\ x < s + n
    <3>1. Len(text) \in Nat
      BY <2>2
    <3> DEFINE m == Len(text)
    <3> HIDE DEF m, n, s
    <3>2. x \in 0 .. m - 1 /\ m \in Nat /\ s \in Nat /\ n \in Nat /\ s <= x /\ x < s + n
      BY <1>8, <2>1, <2>2, <3>1 DEF m, n, s
    <3> QED BY <3>2
  <2>4. t[y + 1] = text[x + 1]
    <3> DEFINE e == s + n
               z == y + 1
    <3>1. e \in Nat /\ s <= e /\ e <= Len(text) /\ e - s = n
      BY <2>2
    <3>2. z = y + 1 /\ y = x - s
      OBVIOUS
    <3> HIDE DEF text, s, n, y, z
    <3>3. z \in 1 .. n /\ s + z = x + 1
      BY ONLY <2>2, <2>3, <3>2
    <3>4. text \in Seq(C) /\ s \in Nat
      BY <2>2
    <3> HIDE DEF e
    <3>5. \A q \in 1 .. e - s : SubSeq(text, s + 1, e)[q] = text[s + q]
      BY ONLY <3>1, <3>4, Parts
    <3>6. t[z] = text[x + 1]
      <4>1. t = SubSeq(text, s + 1, e)
        BY <2>2 DEF e
      <4>2. t[z] = text[s + z]
        BY <3>1, <3>3, <3>5, <4>1
      <4> QED BY <3>3, <4>2
    <3> QED BY <3>6 DEF z
  <2>5. PICK i \in 1 .. Len(pieces[p]) : pieces[p][i].start <= y /\ y < pieces[p][i].end
    <3>1. Covering(pieces[p], t, ignored)
      BY <2>1 DEF N
    <3>2. t[y + 1] \notin ignored
      BY <1>8, <2>4
    <3> QED BY <2>3, <3>1, <3>2 DEF Covering
  <2> DEFINE piece == pieces[p][i]
             c == cut(p, i)
  <2>6. /\ piece.start \in Nat /\ piece.end \in Nat
        /\ Len(piece.text) = piece.end - piece.start
    <3>1. PieceOf(piece, t, C)
      BY <1>2
    <3> QED BY <3>1 DEF PieceOf
  <2>7. c.doc = d /\ c.start = s + piece.start /\ c.text = piece.text
    BY <2>1 DEF cut, Chunk
  <2>8. c.start <= x /\ x < c.start + Len(c.text)
    <3> DEFINE a == piece.start
               b == piece.end
               len == Len(piece.text)
    <3>1. /\ s \in Nat /\ x \in Nat /\ a \in Nat /\ b \in Nat /\ len = b - a
          /\ a <= x - s /\ x - s < b
      BY <2>2, <2>3, <2>5, <2>6
    <3> HIDE DEF s, a, b, len
    <3>2. s + a <= x /\ x < (s + a) + len
      BY ONLY <3>1
    <3> HIDE DEF c
    <3> QED BY <2>7, <3>2 DEF a, len
  <2>9. PICK k \in 1 .. Len(F) : F[k] = c
    <3>1. i \in 1 .. Len(lists[p]) /\ lists[p][i] = c
      BY <1>4
    <3> HIDE DEF c
    <3>2. \E k \in 1 .. Len(F) : F[k] = lists[p][i]
      BY <1>6, <3>1
    <3> QED BY <3>1, <3>2
  <2> QED BY <2>7, <2>8, <2>9
<1>9. Covers(F, documents, ignored)
  BY <1>8 DEF Covers
<1> QED BY <1>7, <1>9 DEF F

(* The whole of a text.                                                    *)
LEMMA Whole ==
    ASSUME NEW C, NEW text \in Seq(C)
    PROVE  SubSeq(text, 0 + 1, 0 + Len(text)) = text
<1> DEFINE n == Len(text)
           t == SubSeq(text, 0 + 1, n)
           zero == 0
<1>1. n \in Nat /\ zero \in Nat /\ zero <= n /\ n <= Len(text) /\ zero = 0 /\ n - zero = n
  OBVIOUS
<1> HIDE DEF n, zero
<1>2. /\ SubSeq(text, zero + 1, n) \in Seq(C) /\ Len(SubSeq(text, zero + 1, n)) = n
      /\ \A p \in 1 .. n : SubSeq(text, zero + 1, n)[p] = text[zero + p]
  <2>1. /\ SubSeq(text, zero + 1, n) \in Seq(C) /\ Len(SubSeq(text, zero + 1, n)) = n - zero
        /\ \A p \in 1 .. n - zero : SubSeq(text, zero + 1, n)[p] = text[zero + p]
    BY <1>1, Parts
  <2> QED BY <1>1, <2>1
<1>3. t = SubSeq(text, zero + 1, n)
  BY <1>1
<1> HIDE DEF t
<1>4. \A p \in 1 .. n : t[p] = text[p]
  BY <1>1, <1>2, <1>3
<1>5. t = text
  BY <1>1, <1>2, <1>3, <1>4 DEF n
<1>6. 0 + n = n
  BY <1>1
<1> QED BY <1>5, <1>6 DEF t, n

(* Below: windows over the text of each parent.                            *)
LEMMA BelowIs ==
    ASSUME NEW C, NEW documents, Len(documents) \in Nat,
           NEW parents, Sound(parents, documents, C, {Blank}),
           NEW level, level.size \in Nat \ {0}, level.overlap \in 0 .. level.size - 1
    PROVE  /\ Children(Below(parents, level), parents, documents, C)
           /\ Sound(Below(parents, level), documents, C, {Blank})
<1> DEFINE N == Len(parents)
           pieces == [p \in 1 .. N |-> SlidingWindows(parents[p].text, level)]
           lists == [p \in 1 .. N |-> [i \in DOMAIN pieces[p] |->
                       Chunk(pieces[p][i], parents[p].doc,
                             parents[p].start + pieces[p][i].start, p, 0)]]
           F == FlattenSeq(lists)
<1>1. /\ N \in Nat /\ DOMAIN parents = 1 .. N
      /\ \A p \in 1 .. N : Lies(parents[p], documents, C)
  BY DEF Sound
<1>2. Below(parents, level) = F
  <2> DEFINE whole == [p \in DOMAIN parents |->
                LET cut == SlidingWindows(parents[p].text, level)
                IN  [i \in DOMAIN cut |->
                        Chunk(cut[i], parents[p].doc, parents[p].start + cut[i].start, p, 0)]]
  <2>1. Below(parents, level) = FlattenSeq(whole)
    BY Zenon DEF Below
  <2>2. \A p \in 1 .. N : pieces[p] = SlidingWindows(parents[p].text, level)
    OBVIOUS
  <2> HIDE DEF pieces, N
  <2>3. whole = lists
    BY <1>1, <2>2
  <2> QED BY <2>1, <2>3
<1>3. \A p \in 1 .. N :
         AllPieces(pieces[p], parents[p].text, C) /\ Covering(pieces[p], parents[p].text, {Blank})
  <2> TAKE p \in 1 .. N
  <2> DEFINE text == parents[p].text
  <2>1. text \in Seq(C) /\ pieces[p] = SlidingWindows(text, level)
    BY <1>1 DEF Lies
  <2> HIDE DEF text, pieces
  <2> QED BY <2>1, SlidingWindowsAre DEF text
<1>4. DOMAIN pieces = 1 .. N
  OBVIOUS
<1> HIDE DEF pieces
<1>5. lists = [p \in 1 .. N |-> [i \in DOMAIN pieces[p] |->
                  Chunk(pieces[p][i], parents[p].doc, parents[p].start + pieces[p][i].start, p, 0)]]
  OBVIOUS
<1> HIDE DEF lists
<1>6. Children(F, parents, documents, C) /\ Covers(F, documents, {Blank})
  BY <1>3, <1>4, <1>5, CuttingUp DEF N
<1> HIDE DEF F
<1>7. Sound(F, documents, C, {Blank})
  <2>1. F \in Seq(ChunksOf(C)) /\ \A i \in 1 .. Len(F) : Lies(F[i], documents, C)
    BY <1>6 DEF Children
  <2>2. Len(F) \in Nat /\ DOMAIN F = 1 .. Len(F)
    BY <2>1, ElementsOf
  <2> QED BY <1>6, <2>1, <2>2 DEF Sound
<1> QED BY <1>2, <1>6, <1>7

(* The documents themselves, for each backend.                             *)
LEMMA DocumentsAre ==
    ASSUME NEW C, NEW documents, Len(documents) \in Nat, DOMAIN documents = 1 .. Len(documents),
           NEW ignored,
           \A d \in 1 .. Len(documents) :
              /\ documents[d].doc = d /\ documents[d].start = 0 /\ documents[d].text \in Seq(C)
    PROVE  Sound(documents, documents, C, ignored)
<1>1. \A d \in 1 .. Len(documents) : Lies(documents[d], documents, C)
  <2> TAKE d \in 1 .. Len(documents)
  <2> DEFINE text == documents[d].text
  <2>1. text \in Seq(C)
    OBVIOUS
  <2>2. SubSeq(text, 0 + 1, 0 + Len(text)) = text
    BY <2>1, Whole
  <2>3. Len(text) \in Nat
    BY <2>1
  <2> HIDE DEF text
  <2>4. /\ documents[d].doc = d /\ documents[d].start = 0 /\ 0 \in Nat
        /\ 0 + Len(text) <= Len(text)
    BY <2>3
  <2> QED BY <2>1, <2>2, <2>4 DEF Lies, text
<1>2. Covers(documents, documents, ignored)
  <2> SUFFICES ASSUME NEW d \in 1 .. Len(documents), NEW p \in 0 .. Len(documents[d].text) - 1
               PROVE  /\ documents[d].doc = d /\ documents[d].start <= p
                      /\ p < documents[d].start + Len(documents[d].text)
    BY DEF Covers
  <2> DEFINE n == Len(documents[d].text)
  <2>1. documents[d].text \in Seq(C)
    OBVIOUS
  <2>2. n \in Nat
    BY <2>1
  <2> HIDE DEF n
  <2>3. p \in 0 .. n - 1 /\ documents[d].doc = d /\ documents[d].start = 0
    BY DEF n
  <2> QED BY <2>2, <2>3 DEF n
<1> QED BY <1>1, <1>2 DEF Sound

(* Counted only counts.                                                    *)
Alike(chunks, others) ==
    /\ DOMAIN chunks = DOMAIN others
    /\ \A i \in DOMAIN others :
          /\ chunks[i].text = others[i].text /\ chunks[i].doc = others[i].doc
          /\ chunks[i].start = others[i].start /\ chunks[i].end = others[i].end
          /\ chunks[i].parent = others[i].parent

(* Counting children changes nothing else about a chunk.                    *)
LEMMA Counting ==
    ASSUME NEW C, NEW chunks \in Seq(ChunksOf(C)), NEW below
    PROVE  Alike(Counted(chunks, below), chunks)
<1> DEFINE count(p) == Cardinality({i \in DOMAIN below : below[i].parent = p})
<1>1. \A p \in DOMAIN chunks : chunks[p] \in ChunksOf(C)
  <2> DEFINE D == ChunksOf(C)
  <2> HIDE DEF D
  <2>1. chunks \in Seq(D)
    BY DEF D
  <2>2. \A p \in DOMAIN chunks : chunks[p] \in D
    BY <2>1
  <2> QED BY <2>2 DEF D
<1>2. Counted(chunks, below) = [p \in DOMAIN chunks |-> [chunks[p] EXCEPT !.children = count(p)]]
  BY Zenon DEF Counted
<1> HIDE DEF count
<1>3. DOMAIN Counted(chunks, below) = DOMAIN chunks
  BY <1>2
<1>4. ASSUME NEW p \in DOMAIN chunks
      PROVE  LET new == Counted(chunks, below)[p]
             IN  /\ new.text = chunks[p].text /\ new.doc = chunks[p].doc
                 /\ new.start = chunks[p].start /\ new.end = chunks[p].end
                 /\ new.parent = chunks[p].parent
  <2> DEFINE c == chunks[p]
             n == count(p)
             new == Counted(chunks, below)[p]
  <2>1. new = [c EXCEPT !.children = n]
    BY <1>2
  <2>2. c \in ChunksOf(C)
    BY <1>1
  <2> HIDE DEF c, n, new
  <2>3. /\ new.text = c.text /\ new.doc = c.doc /\ new.start = c.start
        /\ new.end = c.end /\ new.parent = c.parent
    BY <2>1, <2>2 DEF ChunksOf
  <2> QED BY <2>3 DEF c, new
<1> QED BY <1>3, <1>4 DEF Alike

(* What Located says, of a level and the one above.                        *)
LEMMA Locating ==
    ASSUME NEW C, NEW documents, NEW chunks, NEW above,
           Children(chunks, above, documents, C), Len(above) \in Nat,
           NEW forest, forest.l0 = documents, NEW chunks2, Alike(chunks2, chunks),
           NEW above2,
           above2 = <<>> \/ /\ Alike(above2, above) /\ DOMAIN above = 1 .. Len(above)
                            /\ \A p \in 1 .. Len(above) :
                                  above[p].end = above[p].start + Len(above[p].text)
    PROVE  Located(forest, chunks2, above2)
<1>1. /\ DOMAIN chunks = 1 .. Len(chunks)
      /\ \A i \in 1 .. Len(chunks) : Lies(chunks[i], documents, C) /\ Child(chunks[i], above)
  <2>1. chunks \in Seq(ChunksOf(C))
    BY DEF Children
  <2> QED BY <2>1, ElementsOf DEF Children
<1> SUFFICES ASSUME NEW i \in DOMAIN chunks2
             PROVE  LET c == chunks2[i] IN
                    /\ c.text = SubSeq(documents[c.doc].text, c.start + 1, c.end)
                    /\ c.text # <<>>
                    /\ above2 # <<>> => /\ above2[c.parent].doc = c.doc
                                        /\ above2[c.parent].start <= c.start
                                        /\ c.end <= above2[c.parent].end
  BY Zenon DEF Located
<1> DEFINE c == chunks2[i]
           b == chunks[i]
<1>2. i \in 1 .. Len(chunks) /\ c.text = b.text /\ c.doc = b.doc /\ c.start = b.start
      /\ c.end = b.end /\ c.parent = b.parent
  BY <1>1 DEF Alike
<1>3. Lies(b, documents, C) /\ Child(b, above)
  BY <1>1, <1>2
<1> HIDE DEF b, c
<1>4. c.text = SubSeq(documents[c.doc].text, c.start + 1, c.end) /\ c.text # <<>>
  BY <1>2, <1>3 DEF Lies, Child
<1>5. ASSUME above2 # <<>>
      PROVE  /\ above2[c.parent].doc = c.doc
             /\ above2[c.parent].start <= c.start
             /\ c.end <= above2[c.parent].end
  <2>1. b.parent \in 1 .. Len(above) /\ DOMAIN above = 1 .. Len(above)
    BY <1>3, <1>5 DEF Child
  <2>2. /\ above2[b.parent].doc = above[b.parent].doc
        /\ above2[b.parent].start = above[b.parent].start
        /\ above2[b.parent].end = above[b.parent].end
        /\ above[b.parent].end = above[b.parent].start + Len(above[b.parent].text)
    BY <1>5, <2>1 DEF Alike
  <2> QED BY <1>2, <1>3, <2>2 DEF Child
<1> QED BY <1>4, <1>5 DEF c

(* What IndexSound says of a tree.                                         *)
SoundTree(forest, ignored, above) ==
    /\ Len(forest.l3) \in Nat /\ DOMAIN forest.l3 = 1 .. Len(forest.l3)
    /\ Covered(forest, ignored)
    /\ Located(forest, forest.l3, above)
    /\ Located(forest, forest.l2, forest.l1)
    /\ Located(forest, forest.l1, <<>>)

(* Coverage, as Covered counts characters.                                 *)
LEMMA Coverage ==
    ASSUME NEW C, NEW forest, NEW ignored, Len(forest.l0) \in Nat,
           DOMAIN forest.l0 = 1 .. Len(forest.l0),
           \A d \in 1 .. Len(forest.l0) : forest.l0[d].text \in Seq(C),
           NEW above, Children(forest.l3, above, forest.l0, C),
           Covers(forest.l3, forest.l0, ignored)
    PROVE  Covered(forest, ignored)
<1>1. /\ Len(forest.l3) \in Nat /\ DOMAIN forest.l3 = 1 .. Len(forest.l3)
      /\ \A i \in 1 .. Len(forest.l3) :
            /\ forest.l3[i].end = forest.l3[i].start + Len(forest.l3[i].text)
            /\ forest.l3[i].end \in Nat /\ forest.l3[i].start \in Nat
  <2>1. forest.l3 \in Seq(ChunksOf(C))
        /\ \A i \in 1 .. Len(forest.l3) :
              forest.l3[i].end = forest.l3[i].start + Len(forest.l3[i].text)
    BY DEF Children, Child
  <2>2. \A c \in ChunksOf(C) : c.end \in Nat /\ c.start \in Nat
    BY DEF ChunksOf
  <2> QED BY <2>1, <2>2, ElementsOf
<1> SUFFICES ASSUME NEW d \in DOMAIN forest.l0, NEW q \in DOMAIN forest.l0[d].text,
                    forest.l0[d].text[q] \notin ignored
             PROVE  \E i \in DOMAIN forest.l3 : /\ forest.l3[i].doc = d
                                                /\ forest.l3[i].start < q
                                                /\ q <= forest.l3[i].end
  BY Zenon DEF Covered
<1> DEFINE text == forest.l0[d].text
           p == q - 1
<1>2. text \in Seq(C) /\ d \in 1 .. Len(forest.l0)
  OBVIOUS
<1>3. p \in 0 .. Len(text) - 1 /\ p + 1 = q /\ p \in Nat
  <2>1. DOMAIN text = 1 .. Len(text) /\ Len(text) \in Nat
    BY <1>2, ElementsOf
  <2> HIDE DEF text
  <2>2. q \in 1 .. Len(text)
    BY <2>1 DEF text
  <2> QED BY <2>1, <2>2
<1> HIDE DEF p
<1>4. PICK i \in 1 .. Len(forest.l3) :
         /\ forest.l3[i].doc = d /\ forest.l3[i].start <= p
         /\ p < forest.l3[i].start + Len(forest.l3[i].text)
  BY <1>2, <1>3 DEF Covers
<1>5. forest.l3[i].start < q /\ q <= forest.l3[i].end
  <2> DEFINE s == forest.l3[i].start
             e == forest.l3[i].end
  <2>1. s \in Nat /\ e \in Nat /\ s <= p /\ p < e
    BY <1>1, <1>4
  <2> HIDE DEF s, e
  <2>2. s < q /\ q <= e
    BY <1>3, <2>1
  <2> QED BY <2>2 DEF s, e
<1> QED BY <1>1, <1>4, <1>5

(* The external backend.                                                   *)
LEMMA ChunkTreeIs ==
    ASSUME NEW C, NEW texts \in Seq(Seq(C)),
           \A d \in DOMAIN texts : Solid(texts[d], 0, Len(texts[d])) # {},
           NEW sizes \in [1 .. 3 -> [size : Int, overlap : Int]], ValidSizes(sizes)
    PROVE  SoundTree(ChunkTree(texts, sizes), {Blank}, ChunkTree(texts, sizes).l2)
<1> DEFINE l0 == Documents(texts)
           l1 == Below(l0, sizes[1])
           l2 == Below(l1, sizes[2])
           l3 == Below(l2, sizes[3])
           t == ChunkTree(texts, sizes)
           N == Len(texts)
<1>1. t = [l0 |-> l0, l1 |-> Counted(l1, l2), l2 |-> Counted(l2, l3), l3 |-> l3]
  BY Zenon DEF ChunkTree
<1>2. \A l \in 1 .. 3 : sizes[l].size \in Nat \ {0} /\ sizes[l].overlap \in 0 .. sizes[l].size - 1
  <2> TAKE l \in 1 .. 3
  <2>1. sizes[l].size \in Int /\ sizes[l].size > 0 /\ sizes[l].overlap \in 0 .. sizes[l].size - 1
    BY DEF ValidSizes
  <2> QED BY <2>1
<1>3. N \in Nat /\ DOMAIN texts = 1 .. N /\ \A d \in 1 .. N : texts[d] \in Seq(C)
  <2> DEFINE G == Seq(C)
  <2>1. texts \in Seq(G)
    OBVIOUS
  <2> HIDE DEF G
  <2>2. N \in Nat /\ DOMAIN texts = 1 .. N /\ \A d \in 1 .. N : texts[d] \in G
    BY <2>1
  <2> QED BY <2>2 DEF G
<1> HIDE DEF N
<1>4. /\ Len(l0) = N /\ DOMAIN l0 = 1 .. N
      /\ \A d \in 1 .. N : l0[d].doc = d /\ l0[d].start = 0 /\ l0[d].text \in Seq(C)
  <2>1. l0 = [d \in 1 .. N |->
                [text |-> Trimmed(texts[d], 0, Len(texts[d])).text, start |-> 0,
                 end |-> 0, doc |-> d, parent |-> 0, children |-> 0]]
    BY <1>3 DEF Documents
  <2>2. \A d \in 1 .. N : Trimmed(texts[d], 0, Len(texts[d])).text \in Seq(C)
    <3> TAKE d \in 1 .. N
    <3> DEFINE s == 0
               e == Len(texts[d])
    <3>1. texts[d] \in Seq(C) /\ s \in Nat /\ e \in Nat /\ e <= Len(texts[d])
          /\ Solid(texts[d], s, e) # {}
      <4>1. Solid(texts[d], 0, Len(texts[d])) # {} /\ texts[d] \in Seq(C)
        BY <1>3
      <4> DEFINE text == texts[d]
      <4> HIDE DEF text
      <4>2. text \in Seq(C) /\ Len(text) \in Nat /\ Len(text) <= Len(text)
        BY <4>1 DEF text
      <4> QED BY <4>1, <4>2 DEF text
    <3> HIDE DEF s, e
    <3>2. Trims(Trimmed(texts[d], s, e), texts[d], s, e, C)
      BY <3>1, Trimming
    <3>3. Trimmed(texts[d], s, e).text \in Seq(C)
      BY <3>2 DEF Trims, PieceOf
    <3> QED BY <3>3 DEF s, e
  <2> HIDE DEF l0
  <2>3. DOMAIN l0 = 1 .. N /\ Len(l0) = N
    BY <1>3, <2>1
  <2>4. \A d \in 1 .. N : l0[d].doc = d /\ l0[d].start = 0
           /\ l0[d].text = Trimmed(texts[d], 0, Len(texts[d])).text
    BY <2>1
  <2> QED BY <2>2, <2>3, <2>4
<1> HIDE DEF l0
<1>5. Len(l0) \in Nat /\ Sound(l0, l0, C, {Blank})
  BY <1>3, <1>4, DocumentsAre
<1>6. Children(l1, l0, l0, C) /\ Sound(l1, l0, C, {Blank})
  <2> DEFINE level == sizes[1]
  <2>1. level.size \in Nat \ {0} /\ level.overlap \in 0 .. level.size - 1
    BY <1>2
  <2> HIDE DEF level
  <2>2. Children(Below(l0, level), l0, l0, C) /\ Sound(Below(l0, level), l0, C, {Blank})
    BY <1>5, <2>1, BelowIs
  <2> QED BY <2>2 DEF level
<1> HIDE DEF l1
<1>7. Children(l2, l1, l0, C) /\ Sound(l2, l0, C, {Blank})
  <2> DEFINE level == sizes[2]
  <2>1. level.size \in Nat \ {0} /\ level.overlap \in 0 .. level.size - 1
    BY <1>2
  <2> HIDE DEF level
  <2>2. Children(Below(l1, level), l1, l0, C) /\ Sound(Below(l1, level), l0, C, {Blank})
    BY <1>5, <1>6, <2>1, BelowIs
  <2> QED BY <2>2 DEF level
<1> HIDE DEF l2
<1>8. Children(l3, l2, l0, C) /\ Sound(l3, l0, C, {Blank})
  <2> DEFINE level == sizes[3]
  <2>1. level.size \in Nat \ {0} /\ level.overlap \in 0 .. level.size - 1
    BY <1>2
  <2> HIDE DEF level
  <2>2. Children(Below(l2, level), l2, l0, C) /\ Sound(Below(l2, level), l0, C, {Blank})
    BY <1>5, <1>7, <2>1, BelowIs
  <2> QED BY <2>2 DEF level
<1> HIDE DEF l3, t
<1>9. t.l0 = l0 /\ t.l1 = Counted(l1, l2) /\ t.l2 = Counted(l2, l3) /\ t.l3 = l3
  BY <1>1
<1>10. Alike(t.l1, l1) /\ Alike(t.l2, l2) /\ Alike(t.l3, l3)
  <2>1. l1 \in Seq(ChunksOf(C)) /\ l2 \in Seq(ChunksOf(C))
    BY <1>6, <1>7 DEF Children
  <2>2. Alike(l3, l3)
    BY DEF Alike
  <2> QED BY <1>9, <2>1, <2>2, Counting
<1>11. /\ Len(l1) \in Nat /\ DOMAIN l1 = 1 .. Len(l1)
       /\ \A p \in 1 .. Len(l1) : l1[p].end = l1[p].start + Len(l1[p].text)
  BY <1>6 DEF Sound, Children, Child
<1>12. /\ Len(l2) \in Nat /\ DOMAIN l2 = 1 .. Len(l2)
       /\ \A p \in 1 .. Len(l2) : l2[p].end = l2[p].start + Len(l2[p].text)
  BY <1>7 DEF Sound, Children, Child
<1>13. Located(t, t.l3, t.l2)
  BY <1>8, <1>9, <1>10, <1>12, Locating
<1>14. Located(t, t.l2, t.l1)
  BY <1>7, <1>9, <1>10, <1>11, Locating
<1>15. Located(t, t.l1, <<>>)
  BY <1>5, <1>6, <1>9, <1>10, Locating
<1>16. Len(l3) \in Nat /\ DOMAIN l3 = 1 .. Len(l3) /\ Covers(l3, l0, {Blank})
  BY <1>8 DEF Sound
<1>17. Covered(t, {Blank})
  BY <1>3, <1>4, <1>8, <1>9, <1>16, Coverage
<1> QED BY <1>9, <1>13, <1>14, <1>15, <1>16, <1>17 DEF SoundTree, t

(* splitContent: every character that is neither blank nor a full stop.    *)
LEMMA Splitting ==
    ASSUME NEW C, NEW text \in Seq(C), Solid(text, 0, Len(text)) # {}
    PROVE  /\ AllPieces(SplitContent(text), text, C)
           /\ Covering(SplitContent(text), text, {Blank, Stop})
<1> DEFINE N == Len(text)
           T == Stops(text)
           D == {0} \cup {p + 1 : p \in T}
           Ends(s) == {N} \cup {p \in T : p >= s}
           ends == [s \in D |-> Min(Ends(s))]
           parts == Pieces(text, ends)
<1>1. SplitContent(text) = IF parts # <<>> THEN parts ELSE <<Trimmed(text, 0, N)>>
  BY Zenon DEF SplitContent
<1>2. N \in Nat /\ T \in SUBSET (0 .. N - 1) /\ T = {p \in 0 .. N - 1 : text[p + 1] = Stop}
  BY DEF Stops
<1> HIDE DEF N, T
<1>3. \A s \in D : /\ s \in Nat
                   /\ Min(Ends(s)) \in Ends(s) /\ \A e \in Ends(s) : Min(Ends(s)) <= e
                   /\ Min(Ends(s)) \in 0 .. N
  <2> TAKE s \in D
  <2>1. s \in Nat
    BY <1>2
  <2> DEFINE S == Ends(s)
  <2>2. S \in SUBSET (0 .. N) /\ S # {} /\ S \in SUBSET Nat
    BY <1>2
  <2> HIDE DEF S, D
  <2>3. Min(S) \in S /\ \A e \in S : Min(S) <= e
    BY <2>2, MinIs
  <2>4. Min(S) \in 0 .. N
    BY <2>2, <2>3
  <2> QED BY <2>1, <2>3, <2>4 DEF S
<1>4. DOMAIN ends = D /\ \A s \in D : ends[s] = Min(Ends(s))
  OBVIOUS
<1>5. \A p \in 0 .. N - 1 : text[p + 1] \notin {Blank, Stop} =>
         \E s \in D : s <= p /\ p < Min(Ends(s))
  <2> SUFFICES ASSUME NEW p \in 0 .. N - 1, text[p + 1] \notin {Blank, Stop}
               PROVE  \E s \in D : s <= p /\ p < Min(Ends(s))
    OBVIOUS
  <2> DEFINE B == {s \in D : s <= p}
  <2>1. B \in SUBSET (0 .. N) /\ 0 \in B /\ B \in SUBSET Nat /\ B \in SUBSET D
    BY <1>2
  <2>2. \A s \in B : s <= p
    OBVIOUS
  <2>3. \A q \in T : q < p => q + 1 \in B
    BY <1>2
  <2> HIDE DEF B, D, Ends
  <2>4. IsFiniteSet(B) /\ B \in SUBSET Int
    <3> DEFINE first == 0
    <3>1. first \in Int /\ N \in Int /\ B \in SUBSET (first .. N)
      BY <1>2, <2>1
    <3> HIDE DEF first
    <3> QED BY <3>1, Between
  <2>5. PICK s \in B : \A k \in B : k <= s
    BY <2>1, <2>4, Largest
  <2>6. \A e \in Ends(s) : p < e
    <3> TAKE e \in Ends(s)
    <3>1. CASE e = N
      BY <1>2, <3>1
    <3>2. CASE e # N
      <4>1. e \in T /\ e >= s /\ e \in 0 .. N - 1 /\ text[e + 1] = Stop
        BY <1>2, <3>2 DEF Ends
      <4>2. e # p
        BY <4>1
      <4>3. ~(e < p)
        <5>1. ASSUME e < p PROVE FALSE
          <6>1. e + 1 <= s
            BY <2>3, <2>5, <4>1, <5>1
          <6>2. s \in Nat /\ e \in Nat /\ s <= e
            BY <2>1, <4>1
          <6> QED BY <6>1, <6>2
        <5> QED BY <5>1
      <4> QED BY <4>1, <4>2, <4>3
    <3> QED BY <3>1, <3>2
  <2> QED BY <1>3, <2>1, <2>2, <2>5, <2>6
<1> HIDE DEF ends, D, Ends
<1>6. AllPieces(parts, text, C) /\ Covering(parts, text, {Blank, Stop})
  <2> DEFINE ignored == {Blank, Stop}
  <2>1. Blank \in ignored
    OBVIOUS
  <2>2. \A s \in DOMAIN ends : s \in Nat /\ ends[s] \in 0 .. Len(text)
    BY <1>3, <1>4 DEF N
  <2>3. \A p \in 0 .. Len(text) - 1 : text[p + 1] \notin ignored =>
           \E s \in DOMAIN ends : s <= p /\ p < ends[s]
    BY <1>4, <1>5 DEF N
  <2> HIDE DEF ignored
  <2>4. AllPieces(Pieces(text, ends), text, C) /\ Covering(Pieces(text, ends), text, ignored)
    BY <2>1, <2>2, <2>3, PiecesAre
  <2> QED BY <2>4 DEF ignored
<1> HIDE DEF parts
<1>7. CASE parts # <<>>
  BY <1>1, <1>6, <1>7
<1>8. CASE parts = <<>>
  <2> DEFINE piece == Trimmed(text, 0, N)
             zero == 0
  <2>1. PieceOf(piece, text, C)
    <3>1. zero \in Nat /\ N \in Nat /\ N <= Len(text) /\ Solid(text, zero, N) # {}
      BY <1>2 DEF N
    <3> HIDE DEF zero
    <3>2. Trims(Trimmed(text, zero, N), text, zero, N, C)
      BY <3>1, Trimming
    <3> QED BY <3>2 DEF Trims, zero
  <2> HIDE DEF piece
  <2>2. SplitContent(text) = <<piece>>
    BY <1>1, <1>8 DEF piece
  <2>3. AllPieces(<<piece>>, text, C)
    BY <2>1 DEF AllPieces
  <2>4. Covering(<<piece>>, text, {Blank, Stop})
    <3>1. Len(parts) = 0
      BY <1>8
    <3>2. \A p \in 0 .. Len(text) - 1 : text[p + 1] \in {Blank, Stop}
      BY <1>6, <3>1 DEF Covering
    <3> QED BY <3>2 DEF Covering
  <2> QED BY <2>2, <2>3, <2>4
<1> QED BY <1>7, <1>8

(* The local backend.                                                      *)
LEMMA CorpusIs ==
    ASSUME NEW C, NEW texts \in Seq(Seq(C)),
           \A d \in DOMAIN texts : Solid(texts[d], 0, Len(texts[d])) # {}
    PROVE  SoundTree(Corpus(texts), {Blank, Stop}, Corpus(texts).l1)
<1> DEFINE N == Len(texts)
           l1 == [d \in DOMAIN texts |-> Chunk(Piece(texts[d], 0, Len(texts[d])), d, 0, d, 0)]
           whole == [d \in DOMAIN texts |->
                        LET parts == SplitContent(texts[d])
                        IN  [i \in DOMAIN parts |-> Chunk(parts[i], d, parts[i].start, d, 0)]]
           l3 == FlattenSeq(whole)
           t == Corpus(texts)
           ignored == {Blank, Stop}
<1>1. t = [l0 |-> l1, l1 |-> Counted(l1, l3), l2 |-> <<>>, l3 |-> l3]
  BY Zenon DEF Corpus
<1>2. N \in Nat /\ DOMAIN texts = 1 .. N /\ \A d \in 1 .. N : texts[d] \in Seq(C)
  <2> DEFINE G == Seq(C)
  <2>1. texts \in Seq(G)
    OBVIOUS
  <2> HIDE DEF G
  <2>2. N \in Nat /\ DOMAIN texts = 1 .. N /\ \A d \in 1 .. N : texts[d] \in G
    BY <2>1
  <2> QED BY <2>2 DEF G
<1>3. \A d \in 1 .. N : Solid(texts[d], 0, Len(texts[d])) # {}
  BY <1>2
<1> HIDE DEF N
<1>4. \A d \in 1 .. N :
         /\ l1[d].text = texts[d] /\ l1[d].doc = d /\ l1[d].start = 0 /\ l1[d].parent = d
         /\ l1[d].end = Len(texts[d]) /\ l1[d].children = 0
         /\ l1[d] = [text |-> texts[d], start |-> 0, end |-> Len(texts[d]), doc |-> d,
                     parent |-> d, children |-> 0]
  <2> TAKE d \in 1 .. N
  <2> DEFINE text == texts[d]
  <2>1. l1[d] = Chunk(Piece(text, 0, Len(text)), d, 0, d, 0)
    BY <1>2
  <2>2. text \in Seq(C)
    BY <1>2
  <2> HIDE DEF text, l1
  <2>3. SubSeq(text, 0 + 1, 0 + Len(text)) = text /\ Len(text) \in Nat /\ 0 + Len(text) = Len(text)
    BY <2>2, Whole
  <2>4. SubSeq(text, 0 + 1, Len(text)) = text
    BY <2>3
  <2>5. Piece(text, 0, Len(text)).text = text
    BY <2>4 DEF Piece
  <2> QED BY <2>1, <2>3, <2>5 DEF Chunk, text
<1>5. DOMAIN l1 = 1 .. N /\ Len(l1) = N
  <2>1. l1 = [d \in 1 .. N |-> Chunk(Piece(texts[d], 0, Len(texts[d])), d, 0, d, 0)]
    BY <1>2
  <2> QED BY <1>2, <2>1
<1> HIDE DEF l1
<1>6. l1 \in Seq(ChunksOf(C))
  <2> DEFINE D == ChunksOf(C)
  <2>1. \A d \in 1 .. N : l1[d] \in D
    <3> TAKE d \in 1 .. N
    <3> DEFINE text == texts[d]
    <3>1. text \in Seq(C) /\ d \in Nat
      BY <1>2
    <3> HIDE DEF text
    <3>2. Len(text) \in Nat
      BY <3>1
    <3>3. l1[d] = [text |-> text, start |-> 0, end |-> Len(text), doc |-> d,
                   parent |-> d, children |-> 0]
      BY <1>4 DEF text
    <3> QED BY <3>1, <3>2, <3>3 DEF ChunksOf
  <2>2. l1 = [d \in 1 .. N |-> l1[d]]
    BY <1>2, <1>5 DEF l1
  <2> HIDE DEF D
  <2>3. l1 \in [1 .. N -> D]
    BY <2>1, <2>2
  <2>4. l1 \in Seq(D)
    BY <1>2, <2>3
  <2> QED BY <2>4 DEF D
<1>7. Sound(l1, l1, C, ignored)
  <2>1. \A d \in 1 .. Len(l1) :
           /\ l1[d].doc = d /\ l1[d].start = 0 /\ l1[d].text \in Seq(C)
    BY <1>2, <1>4, <1>5
  <2> HIDE DEF ignored
  <2> QED BY <1>2, <1>5, <2>1, DocumentsAre
<1> DEFINE pieces == [d \in 1 .. N |-> SplitContent(texts[d])]
           lists == [p \in 1 .. N |-> [i \in DOMAIN pieces[p] |->
                       Chunk(pieces[p][i], l1[p].doc, l1[p].start + pieces[p][i].start, p, 0)]]
<1>8. \A d \in 1 .. N :
         /\ pieces[d] = SplitContent(texts[d])
         /\ AllPieces(pieces[d], l1[d].text, C) /\ Covering(pieces[d], l1[d].text, ignored)
  <2> TAKE d \in 1 .. N
  <2> DEFINE text == texts[d]
  <2>1. text \in Seq(C) /\ Solid(text, 0, Len(text)) # {}
    BY <1>2, <1>3
  <2>2. pieces[d] = SplitContent(text) /\ l1[d].text = text
    BY <1>4
  <2> HIDE DEF text, pieces
  <2>3. AllPieces(SplitContent(text), text, C) /\ Covering(SplitContent(text), text, {Blank, Stop})
    BY <2>1, Splitting
  <2> QED BY <2>2, <2>3 DEF text
<1>9. DOMAIN pieces = 1 .. N
  OBVIOUS
<1> HIDE DEF pieces
<1>10. whole = lists
  <2>1. \A d \in 1 .. N : whole[d] = lists[d]
    <3> TAKE d \in 1 .. N
    <3>1. whole[d] = [i \in DOMAIN pieces[d] |-> Chunk(pieces[d][i], d, pieces[d][i].start, d, 0)]
      BY <1>2, <1>8
    <3>2. lists[d] = [i \in DOMAIN pieces[d] |->
                         Chunk(pieces[d][i], l1[d].doc, l1[d].start + pieces[d][i].start, d, 0)]
      OBVIOUS
    <3>3. l1[d].doc = d /\ l1[d].start = 0
      BY <1>4
    <3>4. \A i \in DOMAIN pieces[d] : l1[d].start + pieces[d][i].start = pieces[d][i].start
      <4>1. /\ DOMAIN pieces[d] = 1 .. Len(pieces[d])
            /\ \A i \in 1 .. Len(pieces[d]) : PieceOf(pieces[d][i], l1[d].text, C)
        BY <1>8 DEF AllPieces
      <4>2. \A i \in DOMAIN pieces[d] : pieces[d][i].start \in Nat
        BY <4>1 DEF PieceOf
      <4> QED BY <3>3, <4>2
    <3> QED BY <3>1, <3>2, <3>3, <3>4
  <2>2. DOMAIN whole = 1 .. N /\ DOMAIN lists = 1 .. N
    BY <1>2
  <2>3. whole = [d \in 1 .. N |-> whole[d]] /\ lists = [d \in 1 .. N |-> lists[d]]
    BY <1>2
  <2> HIDE DEF whole, lists
  <2> QED BY <2>1, <2>2, <2>3
<1>11. lists = [p \in 1 .. Len(l1) |-> [i \in DOMAIN pieces[p] |->
                  Chunk(pieces[p][i], l1[p].doc, l1[p].start + pieces[p][i].start, p, 0)]]
  BY <1>5
<1> HIDE DEF whole, lists
<1>12. Children(l3, l1, l1, C) /\ Covers(l3, l1, ignored)
  <2>1. \A p \in 1 .. Len(l1) :
           AllPieces(pieces[p], l1[p].text, C) /\ Covering(pieces[p], l1[p].text, ignored)
    BY <1>5, <1>8
  <2>2. Len(l1) \in Nat /\ DOMAIN pieces = 1 .. Len(l1)
    BY <1>2, <1>5, <1>9
  <2> HIDE DEF ignored
  <2>3. Children(FlattenSeq(lists), l1, l1, C) /\ Covers(FlattenSeq(lists), l1, ignored)
    BY <1>7, <1>11, <2>1, <2>2, CuttingUp
  <2> QED BY <1>10, <2>3
<1> HIDE DEF l3, t
<1>13. t.l0 = l1 /\ t.l1 = Counted(l1, l3) /\ t.l2 = <<>> /\ t.l3 = l3
  BY <1>1
<1>14. Alike(t.l1, l1) /\ Alike(t.l3, l3)
  <2>1. Alike(l3, l3)
    BY DEF Alike
  <2> QED BY <1>6, <1>13, <2>1, Counting
<1>15. Located(t, t.l3, t.l1)
  <2>1. \A p \in 1 .. Len(l1) : l1[p].end = l1[p].start + Len(l1[p].text)
    <3> TAKE p \in 1 .. Len(l1)
    <3>1. l1[p].start = 0 /\ l1[p].end = Len(texts[p]) /\ l1[p].text = texts[p]
          /\ texts[p] \in Seq(C)
      BY <1>2, <1>4, <1>5
    <3> DEFINE n == Len(texts[p])
    <3>2. n \in Nat
      BY <3>1
    <3> HIDE DEF n
    <3>3. 0 + n = n
      BY <3>2
    <3> QED BY <3>1, <3>3 DEF n
  <2> QED BY <1>2, <1>5, <1>12, <1>13, <1>14, <2>1, Locating
<1>16. Located(t, t.l2, t.l1)
  <2>1. DOMAIN t.l2 = {}
    BY <1>13
  <2> QED BY <2>1 DEF Located
<1>17. Located(t, t.l1, <<>>)
  <2> SUFFICES ASSUME NEW i \in 1 .. N
               PROVE  /\ t.l1[i].text = SubSeq(l1[t.l1[i].doc].text, t.l1[i].start + 1, t.l1[i].end)
                      /\ t.l1[i].text # <<>>
    <3>1. DOMAIN t.l1 = 1 .. N
      BY <1>5, <1>14 DEF Alike
    <3> QED BY <1>13, <3>1 DEF Located
  <2> DEFINE text == texts[i]
  <2>1. /\ t.l1[i].text = text /\ t.l1[i].doc = i /\ t.l1[i].start = 0
        /\ t.l1[i].end = Len(text) /\ l1[i].text = text /\ text \in Seq(C)
    BY <1>2, <1>4, <1>5, <1>14 DEF Alike
  <2>2. Solid(text, 0, Len(text)) # {}
    BY <1>3
  <2> HIDE DEF text
  <2>3. SubSeq(text, 0 + 1, 0 + Len(text)) = text /\ Len(text) \in Nat
    BY <2>1, Whole
  <2>4. 0 + Len(text) = Len(text)
    BY <2>3
  <2>5. text # <<>>
    BY <2>2 DEF Solid
  <2> QED BY <2>1, <2>3, <2>4, <2>5
<1>18. Len(l3) \in Nat /\ DOMAIN l3 = 1 .. Len(l3)
  <2>1. l3 \in Seq(ChunksOf(C))
    BY <1>12 DEF Children
  <2> QED BY <2>1, ElementsOf
<1>19. Covered(t, ignored)
  <2>1. \A d \in 1 .. Len(t.l0) : t.l0[d].text \in Seq(C)
    BY <1>2, <1>4, <1>5, <1>13
  <2> HIDE DEF ignored
  <2> QED BY <1>2, <1>5, <1>12, <1>13, <2>1, Coverage
<1> QED BY <1>13, <1>15, <1>16, <1>17, <1>18, <1>19 DEF SoundTree, t

-----------------------------------------------------------------------------
(* The inductive invariant *)

(* What a hit can be of: a leaf or what is above it.                       *)
Names ==
    LET leaves  == {Leaf(i) : i \in Leaves}
        parents == {ParentOf(id) : id \in leaves}
    IN  leaves \cup parents \cup {ParentOf(id) : id \in parents}

Control ==
    /\ backend \in {"external", "local"} /\ attempt \in {1, 2}
    /\ stage \in {"chunk", "embed", "failed", "corpus", "recall", "rerank", "merge",
                  "decide", "answered"}
    /\ stage \in {"chunk", "embed", "merge"} => backend = "external"
    /\ stage = "corpus" => backend = "local"
    /\ stage \in {"chunk", "embed", "corpus"} => attempt = 1 /\ top = 0
    /\ stage \in {"chunk", "embed", "corpus", "recall"} => hits = <<>>
    /\ attempt = 1 => kept = <<>>

(* What is searched is a tree of the documents, and each of its leaves has *)
(* its own vector.                                                         *)
TreeOf ==
    IF backend = "local"
    THEN \E texts \in Libraries : tree = Corpus(texts)
    ELSE \E texts \in Libraries, sizes \in Configs :
            ValidSizes(sizes) /\ tree = ChunkTree(texts, sizes)

Embedded ==
    /\ Indexed \/ stage = "embed" => TreeOf
    /\ stage = "chunk" => vectors = <<>>
    /\ stage = "embed" =>
          Done \in 0 .. Len(tree.l3) /\ vectors = [i \in 1 .. Done |-> i]
    /\ Indexed /\ backend = "external" => vectors = [i \in Leaves |-> i]

Typed == hits \in Seq(HitsOf(Names)) /\ kept \in Seq(HitsOf(Names)) /\ top \in Nat

(* Leaves until they are merged, none of them twice; then MergeEarned.     *)
Merged ==
    /\ stage \in {"rerank", "merge"} /\ backend = "external" => Raw(hits)
    /\ stage = "rerank" /\ backend = "external" => Len(hits) <= CandidateK
    /\ stage = "rerank" /\ backend = "local" => Earned(hits)
    /\ stage \in {"decide", "answered"} => Earned(hits)
    /\ Earned(kept)

(* Until a list is scored the best score is the one of the first attempt.  *)
Ranked ==
    /\ ByRerank(kept)
    /\ stage \in {"recall", "rerank"} => top = Best(kept)
    /\ stage = "rerank" /\ backend = "external" => ByRRF(hits)
    /\ stage \in {"merge", "decide"} => ByRerank(hits) /\ top = Larger(Best(hits), Best(kept))
    /\ stage = "answered" => ByRerank(hits) /\ top = Best(hits)

(* Nothing was found only where there was nothing to find.                 *)
Found ==
    backend = "external" =>
        /\ stage \in {"rerank", "merge", "decide", "answered"} /\ hits = <<>> => Crowded
        /\ attempt = 2 /\ stage \in {"recall", "rerank", "merge", "decide"} /\ kept = <<>> => Crowded

IInv == Control /\ Embedded /\ Typed /\ Merged /\ Ranked /\ Found

(* What a step that leaves the tree alone does not change.                 *)
LEMMA TreeStays ==
    ASSUME tree' = tree, backend' = backend
    PROVE  /\ Leaves' = Leaves /\ Names' = Names
           /\ (TreeOf => TreeOf') /\ (Crowded => Crowded')
<1>1. Leaves' = Leaves /\ Names' = Names
  BY DEF Leaves, Names, ParentOf, ChunkOf, Level
<1>2. TreeOf => TreeOf'
  BY DEF TreeOf
<1>3. Crowded => Crowded'
  BY DEF Crowded, StaleLeaves, Leaves
<1> QED BY <1>1, <1>2, <1>3

(* The relations between chunks depend on the tree alone.                   *)
LEMMA RelationsStay ==
    ASSUME tree' = tree, backend' = backend
    PROVE  /\ \A id : ParentOf(id)' = ParentOf(id)
           /\ \A from, id : Reaches(from, id)' <=> Reaches(from, id)
           /\ \A id, ancestor : Under(id, ancestor)' <=> Under(id, ancestor)
<1>1. \A id : ParentOf(id)' = ParentOf(id)
  BY DEF ParentOf, ChunkOf, Level
<1>2. \A from, id : Reaches(from, id)' <=> Reaches(from, id)
  BY DEF Reaches, ChunkOf, Level
<1>3. \A id, ancestor : Under(id, ancestor)' <=> Under(id, ancestor)
  BY DEF Under, ParentOf, ChunkOf, Level
<1> QED BY <1>1, <1>2, <1>3

(* So what a list has earned it keeps, as the next hits ...                 *)
LEMMA HitsStay ==
    ASSUME tree' = tree, backend' = backend, NEW list, hits' = list
    PROVE  (Raw(list) => Raw(hits)') /\ (Earned(list) => Earned(hits)')
<1>1. Raw(list) => Raw(hits)'
  BY DEF Raw, Leaves
<1>2. /\ \A id : ParentOf(id)' = ParentOf(id)
      /\ \A from, id : Reaches(from, id)' <=> Reaches(from, id)
      /\ \A id, ancestor : Under(id, ancestor)' <=> Under(id, ancestor)
  BY RelationsStay
<1>3. Earned(list) => Earned(hits)'
  BY <1>2 DEF Earned
<1> QED BY <1>1, <1>3

(* ... and as those kept for the second attempt.                            *)
LEMMA KeptStays ==
    ASSUME tree' = tree, backend' = backend, NEW list, kept' = list
    PROVE  Earned(list) => Earned(kept)'
<1>1. /\ \A id : ParentOf(id)' = ParentOf(id)
      /\ \A from, id : Reaches(from, id)' <=> Reaches(from, id)
      /\ \A id, ancestor : Under(id, ancestor)' <=> Under(id, ancestor)
  BY RelationsStay
<1> QED BY <1>1 DEF Earned

(* A list that is empty has earned its places.                             *)
LEMMA Nothing ==
    /\ Earned(<<>>) /\ Raw(<<>>) /\ ByRerank(<<>>) /\ ByRRF(<<>>) /\ Best(<<>>) = 0
    /\ \A U : <<>> \in Seq(HitsOf(U))
<1>1. DOMAIN <<>> = {}
  OBVIOUS
<1>2. Earned(<<>>) /\ Raw(<<>>) /\ ByRerank(<<>>) /\ ByRRF(<<>>) /\ Best(<<>>) = 0
  BY <1>1 DEF Earned, Raw, ByRerank, ByRRF, Best
<1>3. \A U : <<>> \in Seq(HitsOf(U))
  OBVIOUS
<1> QED BY <1>2, <1>3

(* A list of hits of some names is one of hits of more names.               *)
LEMMA Wider ==
    ASSUME NEW U, NEW V, U \subseteq V
    PROVE  \A list \in Seq(HitsOf(U)) : list \in Seq(HitsOf(V))
<1> DEFINE A == HitsOf(U)
           B == HitsOf(V)
<1>1. \A h \in A : h \in B
  BY DEF HitsOf
<1> HIDE DEF A, B
<1>2. \A list \in Seq(A) : list \in Seq(B)
  BY <1>1
<1> QED BY <1>2 DEF A, B

(* The leaves have names, and what has one has a parent with one.           *)
LEMMA NamesAre ==
    /\ {Leaf(i) : i \in Leaves} \subseteq Names
    /\ backend \in {"external", "local"} =>
          \A id \in Names : id[1] \in {2, 3} => ParentOf(id) \in Names
<1> DEFINE leaves == {Leaf(i) : i \in Leaves}
           parents == {ParentOf(id) : id \in leaves}
           above == {ParentOf(id) : id \in parents}
<1>1. Names = leaves \cup parents \cup above
  BY Zenon DEF Names
<1>2. \A id \in leaves : id[1] = 3
  BY DEF Leaf
<1>3. \A id \in parents : ParentOf(id) \in above
  OBVIOUS
<1>4. \A id \in leaves : ParentOf(id) \in parents
  OBVIOUS
<1> HIDE DEF leaves
<1>5. ASSUME NEW id \in above, backend \in {"external", "local"} PROVE id[1] = 1
  <2>1. PICK p \in parents : id = ParentOf(p)
    OBVIOUS
  <2>2. PICK l \in leaves : p = ParentOf(l)
    BY <2>1
  <2>3. backend = "local" => id[1] = 1
    BY <2>1, Levels
  <2>4. backend = "external" => p[1] = 2
    BY <1>2, <2>2, Levels
  <2>5. backend = "external" => id[1] = 1
    BY <2>1, <2>4, Levels
  <2> QED BY <1>5, <2>3, <2>5
<1> HIDE DEF parents, above
<1> QED BY <1>1, <1>3, <1>4, <1>5 DEF leaves

(* The tree that is searched.                                              *)
LEMMA TreeFacts ==
    ASSUME TreeOf, backend \in {"external", "local"}
    PROVE  /\ Len(tree.l3) \in Nat /\ Leaves = 1 .. Len(tree.l3)
           /\ SoundTree(tree, IF backend = "local" THEN {Blank, Stop} ELSE {Blank},
                        IF backend = "local" THEN tree.l1 ELSE tree.l2)
           /\ tree \in Trees
<1> DEFINE C == STRING
<1>1. /\ \A texts \in Libraries :
            texts \in Seq(Seq(C)) /\ \A d \in DOMAIN texts : Solid(texts[d], 0, Len(texts[d])) # {}
      /\ \A sizes \in Configs : sizes \in [1 .. 3 -> [size : Int, overlap : Int]]
  BY RetrievalAssumption
<1> HIDE DEF C
<1>2. CASE backend = "local"
  <2>1. PICK texts \in Libraries : tree = Corpus(texts)
    BY <1>2 DEF TreeOf
  <2>2. SoundTree(Corpus(texts), {Blank, Stop}, Corpus(texts).l1)
    BY <1>1, CorpusIs
  <2>3. SoundTree(tree, {Blank, Stop}, tree.l1)
    BY <2>1, <2>2
  <2>4. tree \in Trees
    BY <2>1 DEF Trees
  <2> QED BY <1>2, <2>3, <2>4 DEF SoundTree, Leaves
<1>3. CASE backend = "external"
  <2>1. PICK texts \in Libraries, sizes \in Configs :
           ValidSizes(sizes) /\ tree = ChunkTree(texts, sizes)
    BY <1>3 DEF TreeOf
  <2>2. SoundTree(ChunkTree(texts, sizes), {Blank}, ChunkTree(texts, sizes).l2)
    BY <1>1, <2>1, ChunkTreeIs
  <2>3. SoundTree(tree, {Blank}, tree.l2)
    BY <2>1, <2>2
  <2>4. tree \in Trees
    BY <2>1 DEF Trees
  <2> QED BY <1>3, <2>3, <2>4 DEF SoundTree, Leaves
<1> QED BY <1>2, <1>3

(* A ranking has every leaf once.                                          *)
LEMMA RankingsAre ==
    ASSUME TreeOf, backend \in {"external", "local"}
    PROVE  \A ranking \in Rankings(Len(tree.l3)) :
              /\ ranking \in Seq(1 .. Len(tree.l3)) /\ Len(ranking) = Len(tree.l3)
              /\ IsInjective(ranking)
<1>1. tree \in Trees
  BY TreeFacts
<1> QED BY <1>1, RetrievalAssumption

-----------------------------------------------------------------------------
(* Every step keeps the invariant *)

(* Searching leaves the tree and the vectors alone.                        *)
LEMMA Searching ==
    ASSUME IInv, tree' = tree, backend' = backend, vectors' = vectors,
           Indexed, stage' \in {"recall", "rerank", "merge", "decide", "answered", "failed"}
    PROVE  Embedded'
<1>1. TreeOf' /\ Leaves' = Leaves
  <2>1. TreeOf
    BY DEF IInv, Embedded
  <2>2. Leaves' = Leaves /\ (TreeOf => TreeOf')
    BY TreeStays
  <2> QED BY <2>1, <2>2
<1>2. backend = "external" => vectors = [i \in Leaves |-> i]
  BY DEF IInv, Embedded
<1>3. backend' = "external" => vectors' = [i \in Leaves' |-> i]
  BY <1>1, <1>2
<1> QED BY <1>1, <1>3 DEF Embedded, Indexed

(* The invariant holds at the start.                                        *)
LEMMA InitIInv == Init => IInv
<1> SUFFICES ASSUME Init PROVE IInv
  OBVIOUS
<1> USE DEF Init
<1>1. hits = <<>> /\ kept = <<>> /\ top = 0
  OBVIOUS
<1>2. /\ Earned(hits) /\ Earned(kept) /\ ByRerank(kept)
      /\ hits \in Seq(HitsOf(Names)) /\ kept \in Seq(HitsOf(Names))
  BY <1>1, Nothing
<1>3. stage \in {"chunk", "corpus"}
  OBVIOUS
<1>4. Control
  BY DEF Control
<1>5. Embedded
  BY <1>3 DEF Embedded, Indexed
<1>6. Typed
  BY <1>1, <1>2 DEF Typed
<1>7. Merged /\ Ranked /\ Found
  BY <1>2, <1>3 DEF Merged, Ranked, Found
<1> QED BY <1>4, <1>5, <1>6, <1>7 DEF IInv

(* Before anything is searched there are no hits.                          *)
LEMMA NoHits ==
    ASSUME Control, stage \in {"chunk", "embed", "corpus"},
           UNCHANGED <<attempt, hits, kept, top, backend>>,
           stage' \in {"embed", "failed", "recall"}, stage' = "embed" => backend = "external"
    PROVE  Typed' /\ Merged' /\ Ranked' /\ Found' /\ Control'
<1>1. hits' = <<>> /\ kept' = <<>> /\ top' = 0 /\ attempt' = 1
  BY DEF Control
<1>2. Typed'
  <2>1. \A U : <<>> \in Seq(HitsOf(U))
    BY Nothing
  <2> QED BY <1>1, <2>1 DEF Typed
<1>3. Earned(kept)'
  <2>1. DOMAIN <<>> = {}
    OBVIOUS
  <2> QED BY <1>1, <2>1 DEF Earned
<1>4. ByRerank(kept)' /\ Best(kept)' = 0
  <2>1. DOMAIN <<>> = {}
    OBVIOUS
  <2> QED BY <1>1, <2>1 DEF ByRerank, Best
<1>5. Merged' /\ Ranked' /\ Found'
  BY <1>1, <1>3, <1>4 DEF Merged, Ranked, Found
<1>6. Control'
  BY <1>1 DEF Control
<1> QED BY <1>2, <1>5, <1>6

(* Ingest leaves a tree of the documents, or an error.                      *)
LEMMA IngestStep == IInv /\ Ingest => IInv'
<1> SUFFICES ASSUME IInv, Ingest PROVE IInv'
  OBVIOUS
<1> USE DEF Ingest
<1>1. stage' \in {"embed", "failed"} /\ backend = "external"
  BY DEF IInv, Control
<1>2. Typed' /\ Merged' /\ Ranked' /\ Found' /\ Control'
  BY <1>1, NoHits DEF IInv
<1>3. Embedded'
  <2>1. vectors' = <<>>
    BY DEF IInv, Embedded
  <2>2. CASE stage' = "failed"
    BY <2>2 DEF Embedded, Indexed
  <2>3. CASE stage' = "embed"
    <3> PICK texts \in Libraries, sizes \in Configs :
           ValidSizes(sizes) /\ tree' = ChunkTree(texts, sizes)
      BY <2>3
    <3>1. TreeOf'
      BY <1>1 DEF TreeOf
    <3>2. Len(tree'.l3) \in Nat
      <4> DEFINE C == STRING
      <4>1. /\ texts \in Seq(Seq(C)) /\ \A d \in DOMAIN texts : Solid(texts[d], 0, Len(texts[d])) # {}
            /\ sizes \in [1 .. 3 -> [size : Int, overlap : Int]]
        BY RetrievalAssumption
      <4> HIDE DEF C
      <4>2. SoundTree(ChunkTree(texts, sizes), {Blank}, ChunkTree(texts, sizes).l2)
        BY <4>1, ChunkTreeIs
      <4> QED BY <4>2 DEF SoundTree
    <3>3. Done' = 0 /\ vectors' = [i \in 1 .. 0 |-> i]
      BY <2>1 DEF Done
    <3> QED BY <2>3, <3>1, <3>2, <3>3 DEF Embedded, Indexed
  <2> QED BY <1>1, <2>2, <2>3
<1> QED BY <1>2, <1>3 DEF IInv

(* BuildCorpus leaves a tree of the documents.                              *)
LEMMA BuildCorpusStep == IInv /\ BuildCorpus => IInv'
<1> SUFFICES ASSUME IInv, BuildCorpus PROVE IInv'
  OBVIOUS
<1> USE DEF BuildCorpus
<1>1. stage' = "recall" /\ backend = "local"
  BY DEF IInv, Control
<1>2. Typed' /\ Merged' /\ Ranked' /\ Found' /\ Control'
  BY <1>1, NoHits DEF IInv
<1>3. Embedded'
  BY <1>1 DEF Embedded, Indexed, TreeOf
<1> QED BY <1>2, <1>3 DEF IInv

(* The invariant of the search, of lists that need not be the present ones.*)
Searched(st, at, list, first, best) ==
    /\ st \in {"recall", "rerank", "merge", "decide", "answered", "failed"} /\ at \in {1, 2}
    /\ st = "merge" => backend = "external"
    /\ st = "recall" => list = <<>>
    /\ at = 1 => first = <<>>
    /\ list \in Seq(HitsOf(Names)) /\ first \in Seq(HitsOf(Names)) /\ best \in Nat
    /\ st \in {"rerank", "merge"} /\ backend = "external" => Raw(list)
    /\ st = "rerank" /\ backend = "external" => Len(list) <= CandidateK
    /\ st = "rerank" /\ backend = "local" => Earned(list)
    /\ st \in {"decide", "answered"} => Earned(list)
    /\ Earned(first) /\ ByRerank(first)
    /\ st \in {"recall", "rerank"} => best = Best(first)
    /\ st = "rerank" /\ backend = "external" => ByRRF(list)
    /\ st \in {"merge", "decide"} => ByRerank(list) /\ best = Larger(Best(list), Best(first))
    /\ st = "answered" => ByRerank(list) /\ best = Best(list)
    /\ backend = "external" /\ st \in {"rerank", "merge", "decide", "answered"} /\ list = <<>>
          => Crowded
    /\ backend = "external" /\ at = 2 /\ st \in {"recall", "rerank", "merge", "decide"}
          /\ first = <<>> => Crowded

(* The invariant as it is, ...                                              *)
LEMMA NowSearched ==
    ASSUME IInv, Indexed
    PROVE  Searched(stage, attempt, hits, kept, top)
<1>1. Control /\ Typed /\ Merged /\ Ranked /\ Found
  BY DEF IInv
<1>2. /\ stage \in {"recall", "rerank", "merge", "decide", "answered", "failed"}
      /\ attempt \in {1, 2}
      /\ stage = "merge" => backend = "external"
      /\ stage = "recall" => hits = <<>>
      /\ attempt = 1 => kept = <<>>
  BY <1>1 DEF Control, Indexed
<1>3. hits \in Seq(HitsOf(Names)) /\ kept \in Seq(HitsOf(Names)) /\ top \in Nat
  BY <1>1 DEF Typed
<1> QED BY <1>1, <1>2, <1>3, Zenon DEF Searched, Merged, Ranked, Found

(* ... and as it will be, once a step of a search has ended.                *)
LEMMA Carried ==
    ASSUME IInv, Indexed, tree' = tree, backend' = backend, vectors' = vectors,
           NEW st, NEW at, NEW list, NEW first, NEW best,
           stage' = st, attempt' = at, hits' = list, kept' = first, top' = best,
           Searched(st, at, list, first, best)
    PROVE  IInv'
<1>1. stage' \in {"recall", "rerank", "merge", "decide", "answered", "failed"}
  BY DEF Searched
<1>2. Embedded'
  BY <1>1, Searching
<1>3. Control'
  <2>1. backend \in {"external", "local"}
    BY DEF IInv, Control
  <2> QED BY <1>1, <2>1 DEF Searched, Control
<1>4. Typed'
  <2>1. Names' = Names
    BY TreeStays
  <2>2. /\ list \in Seq(HitsOf(Names)) /\ first \in Seq(HitsOf(Names)) /\ best \in Nat
    BY DEF Searched
  <2> QED BY <2>1, <2>2 DEF Typed, HitsOf
<1>5. /\ Raw(list) => Raw(hits)'
      /\ Earned(list) => Earned(hits)'
      /\ Earned(kept)'
  BY HitsStay, KeptStays DEF Searched
<1>6. Merged'
  BY <1>5 DEF Searched, Merged
<1>7. /\ Best(list) = Best(hits)' /\ Best(first) = Best(kept)'
      /\ ByRerank(kept)'
      /\ ByRerank(list) => ByRerank(hits)'
      /\ ByRRF(list) => ByRRF(hits)'
  BY DEF Best, ByRerank, ByRRF, Searched
<1>8. Ranked'
  <2>1. Larger(Best(list), Best(first)) = Larger(Best(hits), Best(kept))'
    BY <1>7 DEF Larger
  <2> QED BY <1>7, <2>1 DEF Searched, Ranked
<1>9. Found'
  <2>1. Crowded => Crowded'
    BY TreeStays
  <2> QED BY <2>1 DEF Searched, Found
<1> QED BY <1>2, <1>3, <1>4, <1>6, <1>8, <1>9 DEF IInv

(* One list after the other.                                               *)
LEMMA Appending ==
    ASSUME NEW E, NEW s \in Seq(E), NEW t \in Seq(E)
    PROVE  /\ s \o t \in Seq(E) /\ Len(s \o t) = Len(s) + Len(t)
           /\ \A i \in 1 .. Len(s) : (s \o t)[i] = s[i]
           /\ \A i \in 1 .. Len(t) : (s \o t)[Len(s) + i] = t[i]
  OBVIOUS

(* A batch adds the vectors of the leaves that come next.                  *)
LEMMA NextVectors ==
    ASSUME NEW n \in Nat, NEW b \in Nat
    PROVE  LET both == [i \in 1 .. n |-> i] \o [i \in 1 .. b |-> n + i]
           IN  both = [i \in 1 .. n + b |-> i] /\ Len(both) = n + b
<1> DEFINE s == [i \in 1 .. n |-> i]
           t == [i \in 1 .. b |-> n + i]
           u == [i \in 1 .. n + b |-> i]
<1>1. s \in Seq(Nat) /\ Len(s) = n /\ \A i \in 1 .. n : s[i] = i
  <2>1. s \in [1 .. n -> Nat]
    OBVIOUS
  <2> HIDE DEF s
  <2>2. s \in Seq(Nat) /\ Len(s) = n
    BY <2>1
  <2> QED BY <2>2 DEF s
<1>2. t \in Seq(Nat) /\ Len(t) = b /\ \A i \in 1 .. b : t[i] = n + i
  <2>1. t \in [1 .. b -> Nat]
    OBVIOUS
  <2> HIDE DEF t
  <2>2. t \in Seq(Nat) /\ Len(t) = b
    BY <2>1
  <2> QED BY <2>2 DEF t
<1>3. u \in Seq(Nat) /\ Len(u) = n + b /\ \A i \in 1 .. n + b : u[i] = i
  <2>1. u \in [1 .. n + b -> Nat] /\ n + b \in Nat
    OBVIOUS
  <2> HIDE DEF u
  <2>2. u \in Seq(Nat) /\ Len(u) = n + b
    BY <2>1
  <2> QED BY <2>2 DEF u
<1> HIDE DEF s, t, u
<1>4. /\ s \o t \in Seq(Nat) /\ Len(s \o t) = Len(s) + Len(t)
      /\ \A i \in 1 .. Len(s) : (s \o t)[i] = s[i]
      /\ \A i \in 1 .. Len(t) : (s \o t)[Len(s) + i] = t[i]
  <2>1. s \in Seq(Nat) /\ t \in Seq(Nat)
    BY <1>1, <1>2
  <2> DEFINE E == Nat
  <2>2. s \in Seq(E) /\ t \in Seq(E)
    BY <2>1
  <2> HIDE DEF E
  <2>3. /\ s \o t \in Seq(E) /\ Len(s \o t) = Len(s) + Len(t)
        /\ \A i \in 1 .. Len(s) : (s \o t)[i] = s[i]
        /\ \A i \in 1 .. Len(t) : (s \o t)[Len(s) + i] = t[i]
    BY <2>2, Appending
  <2> QED BY <2>3 DEF E
<1> DEFINE st == s \o t
<1> HIDE DEF st
<1>5. \A i \in 1 .. n + b : st[i] = i
  <2> TAKE i \in 1 .. n + b
  <2>1. CASE i <= n
    <3>1. i \in 1 .. n
      BY <2>1
    <3> QED BY <1>1, <1>4, <3>1 DEF st
  <2>2. CASE i > n
    <3>1. i - n \in 1 .. b /\ n + (i - n) = i
      BY <2>2
    <3> DEFINE j == i - n
    <3> HIDE DEF j
    <3>2. j \in 1 .. b /\ n + j = i
      BY <3>1 DEF j
    <3>3. st[Len(s) + j] = t[j] /\ t[j] = n + j
      BY <1>2, <1>4, <3>2 DEF st
    <3> QED BY <1>1, <3>2, <3>3
  <2> QED BY <2>1, <2>2
<1>6. st = u
  <2>1. st \in Seq(Nat) /\ Len(st) = n + b
    BY <1>1, <1>2, <1>4 DEF st
  <2> QED BY <1>3, <1>5, <2>1
<1> QED BY <1>3, <1>6 DEF s, t, u, st

(* EmbedBatch adds the vectors of the next leaves, or fails.                *)
LEMMA EmbedBatchStep == IInv /\ EmbedBatch => IInv'
<1> SUFFICES ASSUME IInv, EmbedBatch PROVE IInv'
  OBVIOUS
<1> USE DEF EmbedBatch
<1>1. stage' \in {"embed", "failed", "recall"} /\ backend = "external"
  BY DEF IInv, Control
<1>2. Typed' /\ Merged' /\ Ranked' /\ Found' /\ Control'
  BY <1>1, NoHits DEF IInv
<1> DEFINE N == Len(tree.l3)
           n == Done
           b == Cardinality({i \in Leaves : /\ i \in Done + 1 .. Done + BatchSize
                                            /\ tree.l3[i].doc = tree.l3[Done + 1].doc})
<1>3. TreeOf /\ n \in 0 .. N /\ vectors = [i \in 1 .. n |-> i]
  BY DEF IInv, Embedded
<1>4. N \in Nat /\ Leaves = 1 .. N
  BY <1>1, <1>3, TreeFacts
<1>5. Batch = 1 .. b /\ b \in Nat /\ n + b <= N
  <2> DEFINE S == {i \in Leaves : /\ i \in Done + 1 .. Done + BatchSize
                                  /\ tree.l3[i].doc = tree.l3[Done + 1].doc}
             T == n + 1 .. N
  <2>1. Batch = 1 .. b
    BY DEF Batch
  <2>2. S \in SUBSET T
    BY <1>3, <1>4
  <2>3. IsFiniteSet(T) /\ Cardinality(T) = N - n
    <3> DEFINE a == n + 1
    <3> HIDE DEF n, N
    <3>1. n \in 0 .. N /\ N \in Nat /\ a = n + 1
      BY <1>3, <1>4
    <3>2. T = a .. N
      OBVIOUS
    <3> HIDE DEF T, a
    <3>3. a \in Int /\ N \in Int
      BY ONLY <3>1
    <3>4. IsFiniteSet(a .. N) /\ Cardinality(a .. N) = IF a > N THEN 0 ELSE N - a + 1
      BY <3>3, FS_Interval
    <3>5. (IF a > N THEN 0 ELSE N - a + 1) = N - n
      BY ONLY <3>1
    <3> QED BY <3>2, <3>4, <3>5
  <2> HIDE DEF S, T
  <2>4. IsFiniteSet(S) /\ Cardinality(S) <= Cardinality(T)
    BY <2>2, <2>3, FS_Subset
  <2>5. Cardinality(S) \in Nat
    BY <2>4, FS_CardinalityType
  <2> DEFINE c == Cardinality(S)
  <2>6. b = c
    BY DEF S
  <2> HIDE DEF b, n, N, c
  <2>7. c \in Nat /\ c <= N - n
    BY <2>3, <2>4, <2>5 DEF c
  <2> QED BY <1>3, <1>4, <2>1, <2>6, <2>7
<1> HIDE DEF b
<1>6. PICK data \in Embeddings(Cardinality(Batch)) :
         IF ValidEmbedding(data)
         THEN /\ vectors' = vectors \o [i \in Batch |-> Done + ByIndex(data)[i]]
              /\ stage' = IF Len(vectors') = Len(tree.l3) THEN "recall" ELSE "embed"
         ELSE stage' = "failed" /\ UNCHANGED vectors
  OBVIOUS
<1>7. tree' = tree /\ backend' = backend
  OBVIOUS
<1> HIDE DEF n, N
<1>8. TreeOf' /\ Leaves' = Leaves
  BY <1>3, <1>7, TreeStays
<1>9. CASE ValidEmbedding(data)
  <2>1. ByIndex(data) = [i \in 1 .. b |-> i]
    BY <1>5, <1>9 DEF ValidEmbedding
  <2>2. [i \in Batch |-> Done + ByIndex(data)[i]] = [i \in 1 .. b |-> n + i]
    BY <1>5, <2>1 DEF n
  <2>3. vectors' = [i \in 1 .. n |-> i] \o [i \in 1 .. b |-> n + i]
    BY <1>3, <1>6, <1>9, <2>2
  <2>4. n \in Nat
    BY <1>3, <1>4
  <2>5. vectors' = [i \in 1 .. n + b |-> i] /\ Len(vectors') = n + b
    BY <1>5, <2>3, <2>4, NextVectors
  <2>6. n + b \in 0 .. N
    BY <1>4, <1>5, <2>4
  <2>7. CASE n + b = N
    <3>1. stage' = "recall"
      BY <1>6, <1>9, <2>5, <2>7 DEF N
    <3>2. vectors' = [i \in Leaves' |-> i]
      BY <1>4, <1>8, <2>5, <2>7
    <3> QED BY <1>2, <1>8, <3>1, <3>2 DEF Embedded, Indexed, IInv
  <2>8. CASE n + b # N
    <3>1. stage' = "embed"
      BY <1>6, <1>9, <2>5, <2>8 DEF N
    <3>2. Done' = n + b /\ Len(tree'.l3) = N
      BY <1>7, <2>5 DEF Done, N
    <3> QED BY <1>2, <1>8, <2>5, <2>6, <3>1, <3>2 DEF Embedded, Indexed, IInv
  <2> QED BY <2>7, <2>8
<1>10. CASE ~ValidEmbedding(data)
  <2>1. stage' = "failed"
    BY <1>6, <1>10
  <2> QED BY <1>2, <2>1 DEF Embedded, Indexed, IInv
<1> QED BY <1>9, <1>10

(* Recall finds leaves, unless stale ones crowd them out.                   *)
LEMMA RecallStep == IInv /\ Recall => IInv'
<1> SUFFICES ASSUME IInv, Recall PROVE IInv'
  OBVIOUS
<1> DEFINE N == Len(tree.l3)
           leaves == {Leaf(i) : i \in 1 .. N}
<1>1. /\ stage = "recall" /\ backend = "external" /\ stage' = "rerank"
      /\ tree' = tree /\ backend' = backend /\ vectors' = vectors
      /\ attempt' = attempt /\ kept' = kept /\ top' = top
  BY DEF Recall, fixed
<1>2. Indexed /\ TreeOf
  BY <1>1 DEF IInv, Embedded, Indexed
<1>3. N \in Nat /\ Leaves = 1 .. N
  BY <1>1, <1>2, TreeFacts
<1>4. PICK dense \in Rankings(N), sparse \in Rankings(N), m \in Matches :
         hits' = InForce(FuseMilvus(Prefix(dense, CandidateK),
                                    Prefix(sparse, Least(m, CandidateK))))
  BY DEF Recall
<1>5. /\ dense \in Seq(1 .. N) /\ Len(dense) = N /\ IsInjective(dense)
      /\ sparse \in Seq(1 .. N)
  BY <1>1, <1>2, RankingsAre
<1>6. m \in Nat
  BY RetrievalAssumption
<1> HIDE DEF N
<1>7. Recalled(hits', leaves)
  <2>1. Recalled(InForce(FuseMilvus(Prefix(dense, CandidateK),
                                    Prefix(sparse, Least(m, CandidateK)))), leaves)
    BY <1>3, <1>5, <1>6, Recalling
  <2> QED BY <1>4, <2>1
<1>8. hits' \in Seq(HitsOf(Names))
  <2>1. leaves \subseteq Names
    BY <1>3, NamesAre
  <2> HIDE DEF leaves
  <2> QED BY <1>7, <2>1, Wider DEF Recalled
<1>9. Searched(stage, attempt, hits, kept, top)
  BY <1>2, NowSearched
<1>10. Searched("rerank", attempt, hits', kept, top)
  BY <1>1, <1>7, <1>8, <1>9 DEF Searched, Recalled
<1> QED BY <1>1, <1>2, <1>10, Carried

(* SearchFails answers with what the first attempt kept.                    *)
LEMMA SearchFailsStep == IInv /\ SearchFails => IInv'
<1> SUFFICES ASSUME IInv, SearchFails PROVE IInv'
  OBVIOUS
<1>1. /\ stage = "recall" /\ backend = "external"
      /\ stage' = IF attempt = 1 THEN "failed" ELSE "answered"
      /\ tree' = tree /\ backend' = backend /\ vectors' = vectors
      /\ attempt' = attempt /\ hits' = kept /\ kept' = <<>> /\ top' = top
  BY DEF SearchFails, fixed
<1>2. Indexed
  BY <1>1 DEF Indexed
<1>3. Searched(stage, attempt, hits, kept, top)
  BY <1>2, NowSearched
<1>4. Searched(stage', attempt, kept, <<>>, top)
  <2>1. Earned(<<>>) /\ ByRerank(<<>>) /\ <<>> \in Seq(HitsOf(Names))
    BY Nothing
  <2> QED BY <1>1, <1>3, <2>1 DEF Searched
<1> QED BY <1>1, <1>2, <1>4, Carried

(* Rerank scores leaves and sorts them, whatever the reranker answers.      *)
LEMMA RerankStep == IInv /\ Rerank => IInv'
<1> SUFFICES ASSUME IInv, Rerank PROVE IInv'
  OBVIOUS
<1>1. /\ stage = "rerank" /\ backend = "external" /\ stage' = "merge"
      /\ tree' = tree /\ backend' = backend /\ vectors' = vectors
      /\ attempt' = attempt /\ kept' = kept
      /\ IF hits = <<>> THEN Scored(hits)
         ELSE \/ Scored(NormalizeRRF(hits))
              \/ \E answer \in Relevance(Len(hits)) : Scored(Reranked(answer, hits))
  BY DEF Rerank, fixed
<1>2. Indexed
  BY <1>1 DEF Indexed
<1>3. Searched(stage, attempt, hits, kept, top)
  BY <1>2, NowSearched
<1>4. /\ hits \in Seq(HitsOf(Names)) /\ Raw(hits) /\ ByRRF(hits) /\ Len(hits) <= CandidateK
      /\ top = Best(kept) /\ top \in Nat
      /\ hits = <<>> => Crowded
  BY <1>1, <1>3 DEF Searched
<1>5. ASSUME NEW list, list \in Seq(HitsOf(Names)), Raw(list), ByRerank(list),
             list = <<>> => Crowded, Scored(list)
      PROVE  IInv'
  <2> DEFINE best == Max({top} \cup {list[k].rerank : k \in DOMAIN list})
  <2>1. hits' = list /\ top' = best
    BY <1>5 DEF Scored
  <2>2. best = Larger(Best(list), top) /\ Best(list) \in Nat
    BY <1>4, <1>5, BestOf
  <2> HIDE DEF best
  <2>3. best \in Nat
    BY <1>4, <2>2 DEF Larger
  <2>4. Searched("merge", attempt, list, kept, best)
    BY <1>1, <1>3, <1>4, <1>5, <2>2, <2>3 DEF Searched
  <2> QED BY <1>1, <1>2, <2>1, <2>4, Carried
<1>6. CASE hits = <<>>
  <2>1. ByRerank(hits)
    BY <1>6, Nothing
  <2> QED BY <1>1, <1>4, <1>5, <1>6, <2>1
<1>7. ASSUME hits # <<>>, Scored(NormalizeRRF(hits)) PROVE IInv'
  <2>1. InOrderOfScores(NormalizeRRF(hits), Names)
    BY <1>4, <1>7, NormalizingScores
  <2> QED BY <1>5, <1>7, <2>1 DEF InOrderOfScores
<1>8. ASSUME hits # <<>>, NEW answer \in Relevance(Len(hits)), Scored(Reranked(answer, hits))
      PROVE  IInv'
  <2>1. Len(hits) \in 1 .. CandidateK
    <3>1. Len(hits) \in Nat /\ CandidateK \in Nat
      BY <1>4, ElementsOf, Numbers
    <3>2. Len(hits) # 0
      BY <1>4, <1>8
    <3> QED BY <1>4, <3>1, <3>2
  <2>2. answer \in Seq([index : Int, score : Nat])
    BY <1>8, <2>1, RetrievalAssumption
  <2>3. InOrderOfScores(Reranked(answer, hits), Names)
    BY <1>4, <1>8, <2>2, RerankingScores
  <2> QED BY <1>5, <1>8, <2>3 DEF InOrderOfScores
<1> QED BY <1>1, <1>6, <1>7, <1>8

(* Merge keeps the order and the best hit, and its merges are earned.       *)
LEMMA MergeStep == IInv /\ Merge => IInv'
<1> SUFFICES ASSUME IInv, Merge PROVE IInv'
  OBVIOUS
<1>1. /\ stage = "merge" /\ backend = "external" /\ stage' = "decide"
      /\ tree' = tree /\ backend' = backend /\ vectors' = vectors
      /\ attempt' = attempt /\ kept' = kept /\ top' = top
  BY DEF Merge, fixed, IInv, Control
<1>2. Indexed
  BY <1>1 DEF Indexed
<1>3. Searched(stage, attempt, hits, kept, top)
  BY <1>2, NowSearched
<1>4. /\ hits \in Seq(HitsOf(Names)) /\ Raw(hits) /\ ByRerank(hits)
      /\ top = Larger(Best(hits), Best(kept))
      /\ hits = <<>> => Crowded
  BY <1>1, <1>3 DEF Searched
<1>5. PICK lost \in Outages :
         hits' = WithinBudget(MergeGroups(MergeGroups(hits, 3, lost), 2, lost))
  BY DEF Merge
<1> DEFINE l2 == MergeGroups(hits, 3, lost)
           l1 == MergeGroups(l2, 2, lost)
           list == WithinBudget(l1)
           from3 == Ascending(Staying(hits, 3, lost))
           from2 == Ascending(Staying(l2, 2, lost))
<1>6. \A id \in Names : id[1] \in {2, 3} => ParentOf(id) \in Names
  BY <1>1, NamesAre
<1>7. Regrouped(l2, hits, 3, lost, from3, Names)
  BY <1>4, <1>6, MergingRegroups
<1> HIDE DEF l2, from3
<1>8. /\ l2 \in Seq(HitsOf(Names)) /\ ByRerank(l2) /\ Best(l2) = Best(hits)
      /\ hits # <<>> => l2 # <<>>
  <2>1. l2 \in Seq(HitsOf(Names))
    BY <1>7 DEF Regrouped
  <2> QED BY <1>1, <1>4, <1>7, <2>1, MergingKeepsOrder
<1>9. Earned(l2) /\ \A k \in DOMAIN l2 : l2[k].id[1] \in {2, 3}
  <2>1. Earned(hits) /\ \A k \in DOMAIN hits : hits[k].id[1] \in {3, 3}
    BY <1>4, RawEarns
  <2>2. /\ Earned(l2)
        /\ \A k \in DOMAIN l2 : l2[k].id[1] \in {IF backend = "local" THEN 1 ELSE 3 - 1, 3, 3}
    BY <1>1, <1>4, <1>7, <2>1, MergingEarns
  <2> QED BY <1>1, <2>2
<1>10. Regrouped(l1, l2, 2, lost, from2, Names)
  BY <1>6, <1>8, MergingRegroups
<1> HIDE DEF l1, from2
<1>11. /\ l1 \in Seq(HitsOf(Names)) /\ ByRerank(l1) /\ Best(l1) = Best(l2)
       /\ l2 # <<>> => l1 # <<>>
  <2>1. l1 \in Seq(HitsOf(Names))
    BY <1>10 DEF Regrouped
  <2> QED BY <1>1, <1>8, <1>10, <2>1, MergingKeepsOrder
<1>12. Earned(l1)
  BY <1>1, <1>8, <1>9, <1>10, MergingEarns
<1>13. Budgeted(list, l1, Names)
  BY <1>11, Budget
<1>14. hits' = list
  BY <1>5 DEF l1, l2
<1> HIDE DEF list
<1>15. PICK S \in SUBSET (1 .. Len(l1)) : \E places : Thinned(list, l1, places, S)
  BY <1>13 DEF Budgeted
<1>16. PICK places : Thinned(list, l1, places, S)
  BY <1>15
<1>17. list \in Seq(HitsOf(Names)) /\ (l1 # <<>> => list # <<>> /\ list[1] = l1[1])
  BY <1>13 DEF Budgeted
<1>18. Earned(list) /\ ByRerank(list)
  <2>1. Within(list, l1, places) /\ (ByRerank(l1) => ByRerank(list))
    BY <1>11, <1>16, <1>17, ThinnedKeeps
  <2> QED BY <1>11, <1>12, <2>1, WithinKeeps
<1>19. Best(list) = Best(hits) /\ (list = <<>> => hits = <<>>)
  <2>1. CASE l1 = <<>>
    <3>1. Len(list) <= Len(l1)
      BY <1>16 DEF Thinned
    <3>2. Len(l1) = 0
      BY <2>1
    <3>3. list = <<>>
      BY <1>17, <3>1, <3>2
    <3> QED BY <1>8, <1>11, <2>1, <3>3
  <2>2. CASE l1 # <<>>
    BY <1>8, <1>11, <1>17, <2>2 DEF Best
  <2> QED BY <2>1, <2>2
<1>20. Searched("decide", attempt, list, kept, top)
  BY <1>1, <1>3, <1>4, <1>17, <1>18, <1>19 DEF Searched
<1> QED BY <1>1, <1>2, <1>14, <1>20, Carried

(* SearchPass merges before it reranks.                                     *)
LEMMA SearchPassStep == IInv /\ SearchPass => IInv'
<1> SUFFICES ASSUME IInv, SearchPass PROVE IInv'
  OBVIOUS
<1> DEFINE N == Len(tree.l3)
           leaves == {Leaf(i) : i \in 1 .. N}
<1>1. /\ stage = "recall" /\ backend = "local" /\ stage' = "rerank"
      /\ tree' = tree /\ backend' = backend /\ vectors' = vectors
      /\ attempt' = attempt /\ kept' = kept /\ top' = top
  BY DEF SearchPass, fixed
<1>2. Indexed /\ TreeOf
  BY <1>1 DEF IInv, Embedded, Indexed
<1>3. N \in Nat /\ Leaves = 1 .. N
  BY <1>1, <1>2, TreeFacts
<1>4. PICK dense \in Rankings(N), sparse \in Rankings(N), m \in Matches :
         hits' = MergeGroups(Fuse(dense, sparse, Range(Prefix(dense, m)) \cup Range(Prefix(sparse, m))),
                             3, {})
  BY DEF SearchPass
<1>5. dense \in Seq(1 .. N) /\ sparse \in Seq(1 .. N)
  BY <1>1, <1>2, RankingsAre
<1>6. m \in Nat
  BY RetrievalAssumption
<1> HIDE DEF N
<1> DEFINE S == Range(Prefix(dense, m)) \cup Range(Prefix(sparse, m))
           list == Fuse(dense, sparse, S)
           lost == {}
           new == MergeGroups(list, 3, lost)
           places == Ascending(Staying(list, 3, lost))
<1>7. S \in SUBSET (1 .. N)
  <2> DEFINE E == 1 .. N
             a == Prefix(dense, m)
             b == Prefix(sparse, m)
  <2>1. dense \in Seq(E) /\ sparse \in Seq(E)
    BY <1>5
  <2> HIDE DEF E
  <2>2. Starts(a, dense, m, E) /\ Starts(b, sparse, m, E)
    BY <1>6, <2>1, PrefixOf
  <2> HIDE DEF a, b
  <2>3. a \in Seq(E) /\ b \in Seq(E)
    BY <2>2 DEF Starts
  <2>4. Range(a) \subseteq E /\ Range(b) \subseteq E
    BY <2>3, ElementsOf DEF Range
  <2> QED BY <2>4 DEF E, a, b
<1>8. hits' = new
  BY <1>4
<1> HIDE DEF S, lost
<1>9. list \in Seq(HitsOf(leaves)) /\ Raw(list)
  BY <1>3, <1>5, <1>7, LocalFuses DEF LeafHits
<1> HIDE DEF list
<1>10. list \in Seq(HitsOf(Names))
  <2>1. leaves \subseteq Names
    BY <1>3, NamesAre
  <2> HIDE DEF leaves
  <2> QED BY <1>9, <2>1, Wider
<1>11. \A id \in Names : id[1] = 3 => ParentOf(id) \in Names
  BY <1>1, NamesAre
<1>12. Regrouped(new, list, 3, lost, places, Names)
  BY <1>10, <1>11, MergingRegroups
<1> HIDE DEF new, places
<1>13. Earned(new) /\ new \in Seq(HitsOf(Names))
  <2>1. Earned(list) /\ \A k \in DOMAIN list : list[k].id[1] \in {3, 3}
    BY <1>9, RawEarns
  <2> DEFINE level == 3
  <2>2. /\ level \in {2, 3} /\ (level = 2 => backend = "external")
        /\ Earned(list) /\ \A k \in DOMAIN list : list[k].id[1] \in {level, 3}
        /\ Regrouped(new, list, level, lost, places, Names)
        /\ backend \in {"external", "local"}
    BY <1>1, <1>12, <2>1
  <2> HIDE DEF level
  <2>3. Earned(new)
    BY <1>10, <2>2, MergingEarns
  <2> QED BY <1>12, <2>3 DEF Regrouped
<1>14. Searched(stage, attempt, hits, kept, top)
  BY <1>2, NowSearched
<1>15. Searched("rerank", attempt, new, kept, top)
  BY <1>1, <1>13, <1>14 DEF Searched
<1> QED BY <1>1, <1>2, <1>8, <1>15, Carried

(* Scores that replace those of a list.                                    *)
WithScores(list, scores) == [k \in DOMAIN list |-> [list[k] EXCEPT !.rerank = scores[k]]]

RescoredBy(scored, list, scores, U) ==
    /\ scored \in Seq(HitsOf(U)) /\ Len(scored) = Len(list)
    /\ \A k \in 1 .. Len(list) : scored[k].rerank = scores[k]
    /\ Earned(list) => Earned(scored)

(* New scores change nothing that was earned.                               *)
LEMMA Rescoring ==
    ASSUME NEW U, NEW list \in Seq(HitsOf(U)), NEW scores \in [1 .. Len(list) -> Nat]
    PROVE  RescoredBy(WithScores(list, scores), list, scores, U)
<1> DEFINE H == HitsOf(U)
           scored == WithScores(list, scores)
<1>1. Len(list) \in Nat /\ DOMAIN list = 1 .. Len(list) /\ \A k \in 1 .. Len(list) : list[k] \in H
  BY ElementsOf
<1>2. \A k \in 1 .. Len(list) :
         /\ scored[k] \in H /\ scored[k].rerank = scores[k]
         /\ scored[k].id = list[k].id /\ scored[k].from = list[k].from
  <2> TAKE k \in 1 .. Len(list)
  <2>1. list[k] \in H /\ scores[k] \in Nat /\ scored[k] = [list[k] EXCEPT !.rerank = scores[k]]
    BY <1>1 DEF WithScores
  <2> QED BY <2>1, Rescored
<1>3. DOMAIN scored = 1 .. Len(list)
  BY <1>1 DEF WithScores
<1>4. scored = [k \in 1 .. Len(list) |-> scored[k]]
  BY <1>1 DEF WithScores
<1> HIDE DEF H, scored
<1>5. scored \in [1 .. Len(list) -> H]
  BY <1>2, <1>4
<1>6. scored \in Seq(H) /\ Len(scored) = Len(list)
  BY <1>1, <1>5
<1>7. Within(scored, list, [k \in 1 .. Len(list) |-> k])
  BY <1>1, <1>2, <1>3 DEF Within
<1>8. Earned(list) => Earned(scored)
  BY <1>7, WithinKeeps
<1> QED BY <1>2, <1>6, <1>8 DEF H, scored, RescoredBy

(* RerankHits sorts and cuts, and keeps the best hit.                       *)
LEMMA RerankHitsStep == IInv /\ RerankHits => IInv'
<1> SUFFICES ASSUME IInv, RerankHits PROVE IInv'
  OBVIOUS
<1>1. /\ stage = "rerank" /\ backend = "local" /\ stage' = "decide"
      /\ tree' = tree /\ backend' = backend /\ vectors' = vectors
      /\ attempt' = attempt /\ kept' = kept
  BY DEF RerankHits, fixed
<1>2. Indexed
  BY <1>1 DEF Indexed
<1>3. Searched(stage, attempt, hits, kept, top)
  BY <1>2, NowSearched
<1>4. /\ hits \in Seq(HitsOf(Names)) /\ Earned(hits)
      /\ top = Best(kept) /\ top \in Nat
  BY <1>1, <1>3 DEF Searched
<1> DEFINE n == Len(hits)
<1>5. /\ n \in Nat /\ DOMAIN hits = 1 .. n
      /\ \A k \in 1 .. n : hits[k].rrf \in Nat
  BY <1>4, HitFields
<1>6. PICK scores \in {[k \in DOMAIN hits |-> hits[k].rrf]} \cup [DOMAIN hits -> Scores] :
         LET scored == [k \in DOMAIN hits |-> [hits[k] EXCEPT !.rerank = scores[k]]]
         IN  /\ hits' = Prefix(ByScore(scored), TopK)
             /\ top' = Max({top} \cup Range(scores))
  BY DEF RerankHits
<1> DEFINE scored == WithScores(hits, scores)
           sorted == ByScore(scored)
           list == Prefix(sorted, TopK)
           best == Max({top} \cup Range(scores))
<1>7. hits' = list /\ top' = best
  BY <1>6, Zenon DEF WithScores
<1>8. scores \in [1 .. n -> Nat]
  <2>1. CASE scores = [k \in DOMAIN hits |-> hits[k].rrf]
    BY <1>5, <2>1
  <2>2. CASE scores \in [DOMAIN hits -> Scores]
    BY <1>5, <2>2, Numbers
  <2> QED BY <1>6, <2>1, <2>2
<1>9. /\ scored \in Seq(HitsOf(Names)) /\ Len(scored) = n
      /\ \A k \in 1 .. n : scored[k].rerank = scores[k]
      /\ Earned(scored)
  BY <1>4, <1>8, Rescoring DEF RescoredBy
<1> HIDE DEF n, scored, sorted
<1>10. /\ sorted \in Seq(HitsOf(Names)) /\ ByRerank(sorted) /\ Earned(sorted)
       /\ \E places : Shuffled(sorted, scored, places)
  BY <1>9, Sorting, SortingKeeps DEF sorted
<1>11. PICK places : Shuffled(sorted, scored, places)
  BY <1>10
<1>12. Len(sorted) = n /\ DOMAIN sorted = 1 .. n
  <2>1. Len(sorted) = n
    BY <1>9, <1>11 DEF Shuffled
  <2> QED BY <1>10, <2>1, ElementsOf
<1>13. best = Larger(Best(sorted), top) /\ Best(sorted) \in Nat
  <2>1. Range(scores) = {sorted[k].rerank : k \in DOMAIN sorted}
    <3>1. /\ \A p \in 1 .. n : places[p] \in 1 .. n /\ sorted[p] = scored[places[p]]
          /\ \A k \in 1 .. n : \E p \in 1 .. n : places[p] = k
      BY <1>9, <1>11 DEF Shuffled
    <3>2. ASSUME NEW k \in 1 .. n PROVE \E p \in 1 .. n : sorted[p].rerank = scores[k]
      <4>1. PICK p \in 1 .. n : places[p] = k
        BY <3>1
      <4>2. sorted[p] = scored[k] /\ scored[k].rerank = scores[k]
        BY <1>9, <3>1, <4>1
      <4> QED BY <4>2
    <3>3. ASSUME NEW p \in 1 .. n PROVE \E k \in 1 .. n : sorted[p].rerank = scores[k]
      <4>1. places[p] \in 1 .. n /\ sorted[p] = scored[places[p]]
        BY <3>1
      <4> QED BY <1>9, <4>1
    <3>4. Range(scores) = {scores[k] : k \in 1 .. n}
      BY <1>8 DEF Range
    <3>5. {sorted[k].rerank : k \in DOMAIN sorted} = {sorted[k].rerank : k \in 1 .. n}
      BY <1>12
    <3> DEFINE A == {scores[k] : k \in 1 .. n}
               B == {sorted[k].rerank : k \in 1 .. n}
    <3>6. A \subseteq B
      BY <3>2
    <3>7. B \subseteq A
      BY <3>3
    <3> HIDE DEF A, B
    <3>8. A = B
      BY <3>6, <3>7
    <3> QED BY <3>4, <3>5, <3>8 DEF A, B
  <2>2. best = Max({top} \cup {sorted[k].rerank : k \in DOMAIN sorted})
    BY <2>1
  <2> HIDE DEF best
  <2> QED BY <1>4, <1>10, <2>2, BestOf
<1> HIDE DEF best
<1>14. Starts(list, sorted, TopK, HitsOf(Names)) /\ TopK \in Nat \ {0}
  BY <1>10, Numbers, PrefixOf
<1> HIDE DEF list
<1>15. /\ list \in Seq(HitsOf(Names)) /\ DOMAIN list = 1 .. Len(list)
       /\ Len(list) = Least(TopK, n) /\ Len(list) \in 0 .. n
       /\ \A p \in 1 .. Len(list) : p \in 1 .. n /\ list[p] = sorted[p]
  <2>1. list \in Seq(HitsOf(Names))
    BY <1>14 DEF Starts
  <2> QED BY <1>12, <1>14, <2>1, ElementsOf DEF Starts
<1>16. Earned(list)
  <2>1. Within(list, sorted, [k \in 1 .. Len(list) |-> k])
    BY <1>12, <1>15 DEF Within
  <2> QED BY <1>10, <2>1, WithinKeeps
<1>17. ByRerank(list)
  BY <1>10, <1>12, <1>15 DEF ByRerank
<1>18. Best(list) = Best(sorted)
  <2>1. CASE n = 0
    <3>1. sorted = <<>> /\ list = <<>>
      BY <1>10, <1>12, <1>15, <2>1
    <3> QED BY <3>1
  <2>2. CASE n # 0
    <3>1. 1 \in 1 .. Len(list)
      BY <1>5, <1>14, <1>15, <2>2 DEF Least, n
    <3>2. list[1] = sorted[1] /\ list # <<>> /\ sorted # <<>>
      BY <1>12, <1>15, <2>2, <3>1
    <3> QED BY <3>2 DEF Best
  <2> QED BY <2>1, <2>2
<1>19. best \in Nat
  BY <1>4, <1>13 DEF Larger
<1>20. Searched("decide", attempt, list, kept, best)
  BY <1>1, <1>3, <1>4, <1>13, <1>15, <1>16, <1>17, <1>18, <1>19 DEF Searched
<1> QED BY <1>1, <1>2, <1>7, <1>20, Carried

(* Rewrite keeps the hits of the first attempt.                             *)
LEMMA RewriteStep == IInv /\ Rewrite => IInv'
<1> SUFFICES ASSUME IInv, Rewrite PROVE IInv'
  OBVIOUS
<1>1. /\ stage = "decide" /\ attempt = 1 /\ stage' = "recall" /\ attempt' = 2
      /\ tree' = tree /\ backend' = backend /\ vectors' = vectors
      /\ hits' = <<>> /\ kept' = hits /\ top' = top
  BY DEF Rewrite, fixed
<1>2. Indexed
  BY <1>1 DEF Indexed
<1>3. Searched(stage, attempt, hits, kept, top)
  BY <1>2, NowSearched
<1>4. Best(hits) \in Nat
  BY <1>1, <1>3, BestOf DEF Searched
<1>5. top = Best(hits)
  BY <1>1, <1>3, <1>4, Nothing DEF Searched, Larger
<1>6. Earned(<<>>) /\ <<>> \in Seq(HitsOf(Names))
  BY Nothing
<1>7. Searched("recall", 2, <<>>, hits, top)
  BY <1>1, <1>3, <1>5, <1>6 DEF Searched
<1> QED BY <1>1, <1>2, <1>7, Carried

(* Answer takes the attempt that did better.                                *)
LEMMA AnswerStep == IInv /\ Answer => IInv'
<1> SUFFICES ASSUME IInv, Answer PROVE IInv'
  OBVIOUS
<1>1. /\ stage = "decide" /\ stage' = "answered" /\ attempt' = attempt
      /\ tree' = tree /\ backend' = backend /\ vectors' = vectors
      /\ hits' = Preferred /\ kept' = <<>> /\ top' = top
  BY DEF Answer, fixed
<1>2. Indexed
  BY <1>1 DEF Indexed
<1>3. Searched(stage, attempt, hits, kept, top)
  BY <1>2, NowSearched
<1>4. Best(hits) \in Nat /\ Best(kept) \in Nat
  BY <1>1, <1>3, BestOf DEF Searched
<1>5. Earned(<<>>) /\ ByRerank(<<>>) /\ <<>> \in Seq(HitsOf(Names)) /\ Best(<<>>) = 0
  BY Nothing
<1>6. CASE Preferred = hits
  <2>1. top = Best(hits)
    BY <1>1, <1>3, <1>4, <1>5, <1>6 DEF Searched, Larger, Preferred
  <2>2. Searched("answered", attempt, hits, <<>>, top)
    BY <1>1, <1>3, <1>5, <2>1 DEF Searched
  <2> QED BY <1>1, <1>2, <1>6, <2>2, Carried
<1>7. CASE Preferred = kept /\ Preferred # hits
  <2>1. attempt = 2 /\ ~(Best(hits) > Best(kept))
    BY <1>3, <1>7 DEF Preferred, Searched
  <2>2. top = Best(kept)
    BY <1>1, <1>3, <1>4, <2>1 DEF Searched, Larger
  <2>3. Searched("answered", attempt, kept, <<>>, top)
    BY <1>1, <1>3, <1>5, <2>1, <2>2 DEF Searched
  <2> QED BY <1>1, <1>2, <1>7, <2>3, Carried
<1> QED BY <1>6, <1>7 DEF Preferred

(* What changes nothing keeps the invariant.                                *)
LEMMA StutteringStep == IInv /\ UNCHANGED vars => IInv'
<1> SUFFICES ASSUME IInv, UNCHANGED vars PROVE IInv'
  OBVIOUS
<1>1. /\ backend' = backend /\ stage' = stage /\ tree' = tree /\ vectors' = vectors
      /\ attempt' = attempt /\ hits' = hits /\ kept' = kept /\ top' = top
  BY DEF vars
<1>2. Leaves' = Leaves /\ Names' = Names /\ (TreeOf => TreeOf') /\ (Crowded => Crowded')
  BY <1>1, TreeStays
<1>3. Control'
  BY <1>1 DEF IInv, Control
<1>4. Embedded'
  BY <1>1, <1>2 DEF IInv, Embedded, Indexed, Done
<1>5. Typed'
  BY <1>1, <1>2 DEF IInv, Typed, HitsOf
<1>6. (Raw(hits) => Raw(hits)') /\ (Earned(hits) => Earned(hits)') /\ (Earned(kept) => Earned(kept)')
  BY <1>1, HitsStay, KeptStays
<1>7. Merged'
  BY <1>1, <1>6 DEF IInv, Merged
<1>8. Ranked'
  BY <1>1 DEF IInv, Ranked, ByRerank, ByRRF, Best, Larger
<1>9. Found'
  BY <1>1, <1>2 DEF IInv, Found
<1> QED BY <1>3, <1>4, <1>5, <1>7, <1>8, <1>9 DEF IInv

(* Every step keeps the invariant.                                          *)
LEMMA NextIInv == IInv /\ [Next]_vars => IInv'
  BY IngestStep, EmbedBatchStep, BuildCorpusStep, RecallStep, SearchFailsStep, RerankStep,
     MergeStep, SearchPassStep, RerankHitsStep, RewriteStep, AnswerStep, StutteringStep
  DEF Next

-----------------------------------------------------------------------------
(* What follows from the invariant *)

(* The tree that is searched.                                               *)
LEMMA IInvIndexSound == IInv => IndexSound
<1> SUFFICES ASSUME IInv, Indexed
             PROVE  /\ Covered(tree, IF backend = "local" THEN {Blank, Stop} ELSE {Blank})
                    /\ Located(tree, tree.l3, IF backend = "local" THEN tree.l1 ELSE tree.l2)
                    /\ Located(tree, tree.l2, tree.l1)
                    /\ Located(tree, tree.l1, <<>>)
                    /\ backend = "external" => vectors = [i \in Leaves |-> i]
  BY DEF IndexSound
<1>1. TreeOf /\ backend \in {"external", "local"}
  BY DEF IInv, Control, Embedded
<1>2. SoundTree(tree, IF backend = "local" THEN {Blank, Stop} ELSE {Blank},
                IF backend = "local" THEN tree.l1 ELSE tree.l2)
  BY <1>1, TreeFacts
<1>3. backend = "external" => vectors = [i \in Leaves |-> i]
  BY DEF IInv, Embedded
<1> QED BY <1>2, <1>3, Zenon DEF SoundTree

(* The order and the best score of an answer.                               *)
LEMMA IInvBestFirst == IInv => BestFirst
<1> SUFFICES ASSUME IInv, Answered
             PROVE  /\ \A k \in 2 .. Len(hits) : hits[k].rerank <= hits[k - 1].rerank
                    /\ Best(hits) = top
  BY DEF BestFirst
<1>1. ByRerank(hits) /\ top = Best(hits) /\ hits \in Seq(HitsOf(Names))
  BY DEF IInv, Ranked, Typed, Answered
<1>2. Len(hits) \in Nat /\ DOMAIN hits = 1 .. Len(hits)
  BY <1>1, ElementsOf
<1>3. ASSUME NEW k \in 2 .. Len(hits) PROVE hits[k].rerank <= hits[k - 1].rerank
  <2>1. k \in 1 .. Len(hits) /\ k - 1 \in 1 .. Len(hits) /\ k - 1 < k
    BY <1>2
  <2> QED BY <1>1, <1>2, <2>1 DEF ByRerank
<1> QED BY <1>1, <1>3

(* The merges of an answer.                                                 *)
LEMMA IInvMergeEarned == IInv => MergeEarned
<1> SUFFICES ASSUME IInv, Answered
             PROVE  /\ \A h \in Range(hits) : h.from # {} =>
                          /\ \A id \in h.from : ParentOf(id) = h.id
                          /\ backend = "external" => Cardinality(h.from) >= 2
                          /\ Reaches(h.from, h.id)
                    /\ \A h \in Range(hits) : h.from = {} => h.id[1] = 3
                    /\ IsInjective([k \in DOMAIN hits |-> hits[k].id])
                    /\ \A g, h \in Range(hits) :
                          Under(g.id, h.id) =>
                              ParentOf(g.id) # h.id /\ ParentOf(g.id) \notin h.from
  BY DEF MergeEarned
<1>1. Earned(hits)
  BY DEF IInv, Merged, Answered
<1>2. \A h \in Range(hits) : \E k \in DOMAIN hits : h = hits[k]
  BY DEF Range
<1>3. IsInjective([k \in DOMAIN hits |-> hits[k].id])
  BY <1>1 DEF Earned, IsInjective
<1> QED BY <1>1, <1>2, <1>3 DEF Earned

(* The answers that are empty.                                              *)
LEMMA IInvNotCrowdedOut == IInv => NotCrowdedOut
  BY DEF IInv, Found, NotCrowdedOut, Answered, Crowded

(* Every behaviour stays within the inductive invariant: the state is of   *)
(* its type, the tree is one of the documents, and at each stage the hits  *)
(* are what the stages before have made of them.                           *)
THEOREM Invariance == Spec => []IInv
<1> QED BY InitIInv, NextIInv, PTL DEF Spec

(* Chunking and batching lose nothing, for any documents and any valid     *)
(* sizes: IndexSound, of ChunkDocument, buildCorpus and indexDocument.     *)
THEOREM WrittenIsSearched == Spec => []IndexSound
<1> QED BY Invariance, IInvIndexSound, PTL

(* The first hit of an answer has the best score of any attempt, for any   *)
(* rankings, answers of the reranker and limits: BestFirst, of Search and  *)
(* SearchKnowledge.                                                        *)
THEOREM BestIsFirst == Spec => []BestFirst
<1> QED BY Invariance, IInvBestFirst, PTL

(* Each merge of an answer was earned, for any trees, thresholds and lost  *)
(* parents: MergeEarned, of mergeLevel and autoMerge.                      *)
THEOREM EveryMergeEarned == Spec => []MergeEarned
<1> QED BY Invariance, IInvMergeEarned, PTL

(* A search finds something unless leaves out of force could take every    *)
(* place: NotCrowdedOut, of MilvusIndex.HybridSearch and ReadyDocuments.   *)
THEOREM FindsWhatIsInForce == Spec => []NotCrowdedOut
<1> QED BY Invariance, IInvNotCrowdedOut, PTL

=============================================================================
