---------------------------- MODULE HarnessProofs ----------------------------
(***************************************************************************)
(* Machine-checked proofs about Harness, for every suite, every pair of    *)
(* limits, and every replay and answer of the judge: the layers' scores    *)
(* lie between 0 and 1, and a report that passes has no defect in any case *)
(* and no score below the floor that the thresholds set.                   *)
(*                                                                         *)
(* The first sections are recursion and arithmetic (sums, quotients that   *)
(* are floors), the next take the layers one by one (what the searches     *)
(* found, the matrix of the edit distance, the budgets), the last ones the *)
(* report of a case and the inductive invariant of the suite.              *)
(***************************************************************************)
EXTENDS Harness, FiniteSetTheorems, TLAPS

-----------------------------------------------------------------------------
(* Induction and recursion over data *)

(* A set of natural numbers has a smallest one.                            *)
LEMMA Smallest ==
    ASSUME NEW S \in SUBSET Nat, S # {}
    PROVE  \E m \in S : \A k \in S : m <= k
<1> DEFINE R == StrictSubsetOrdering(Nat)
           T == {1 .. n : n \in S}
<1>1. IsWellFoundedOn(R, FiniteSubsetsOf(Nat))
  BY FS_StrictSubsetOrderingWellFounded
<1>2. \A n \in Nat : 1 .. n \in FiniteSubsetsOf(Nat)
  BY FS_Interval DEF FiniteSubsetsOf
<1>3. T # {} /\ T \subseteq FiniteSubsetsOf(Nat)
  BY <1>2
<1> HIDE DEF T, R
<1>4. PICK x \in T : \A y \in T : ~(<<y, x>> \in R)
  BY <1>1, <1>3, WFMin, Zenon
<1>5. PICK m \in S : x = 1 .. m
  BY DEF T
<1>6. ASSUME NEW k \in S, k < m PROVE FALSE
  <2>1. 1 .. k \in T
    BY DEF T
  <2>2. (1 .. k) \subseteq (1 .. m) /\ (1 .. k) # (1 .. m)
    BY <1>6
  <2>3. <<1 .. k, x>> \in R
    BY <2>2, <1>5 DEF R, StrictSubsetOrdering
  <2> QED BY <2>1, <2>3, <1>4
<1> QED BY <1>6

(* Induction up to n, for what is said of the members of a set: its        *)
(* smallest exception would be neither 0 nor the successor of a member.    *)
LEMMA Induction ==
    ASSUME NEW n \in Nat, NEW S, 0 \in S,
           \A i \in 0 .. n - 1 : i \in S => i + 1 \in S
    PROVE  \A i \in 0 .. n : i \in S
<1> DEFINE exceptions == {i \in 0 .. n : i \notin S}
<1> SUFFICES ASSUME exceptions # {} PROVE FALSE
  OBVIOUS
<1>1. PICK m \in exceptions : \A k \in exceptions : m <= k
  <2>1. exceptions \in SUBSET Nat
    OBVIOUS
  <2> HIDE DEF exceptions
  <2> QED BY <2>1, Smallest
<1>2. m \in 0 .. n /\ m # 0 /\ m \notin S
  OBVIOUS
<1>3. m - 1 \in 0 .. n - 1 /\ m - 1 \notin exceptions /\ (m - 1) + 1 = m
  BY <1>1, <1>2
<1> QED BY <1>2, <1>3

(* A function that is defined by a step from each value to the next one    *)
(* exists.                                                                 *)
Iterates(n, V, v0, Step) ==
    {f \in [0 .. n -> V] : f[0] = v0 /\ \A i \in 1 .. n : f[i] = Step[i][f[i - 1]]}

LEMMA Recursion ==
    ASSUME NEW n \in Nat, NEW V, NEW v0 \in V, NEW Step \in [1 .. n -> [V -> V]]
    PROVE  \E f : f \in Iterates(n, V, v0, Step)
<1> DEFINE Value(f, i) == IF i = 0 THEN v0 ELSE Step[i][f[i - 1]]
           Correct(f, m) == \A i \in 0 .. n : i <= m => f[i] = Value(f, i)
           S == {m \in 0 .. n : \E f \in [0 .. n -> V] : Correct(f, m)}
<1>1. 0 \in S
  <2>1. [i \in 0 .. n |-> v0] \in [0 .. n -> V] /\ Correct([i \in 0 .. n |-> v0], 0)
    OBVIOUS
  <2> QED BY <2>1
<1>2. \A m \in 0 .. n - 1 : m \in S => m + 1 \in S
  <2> TAKE m \in 0 .. n - 1
  <2> HAVE m \in S
  <2>1. PICK f \in [0 .. n -> V] : Correct(f, m)
    OBVIOUS
  <2> DEFINE g == [i \in 0 .. n |-> IF i <= m THEN f[i] ELSE Value(f, m + 1)]
  <2>2. Value(f, m + 1) \in V
    OBVIOUS
  <2>3. g \in [0 .. n -> V]
    BY <2>2
  <2>4. \A i \in 0 .. m : g[i] = f[i]
    OBVIOUS
  <2>5. g[m + 1] = Value(f, m + 1)
    OBVIOUS
  <2> HIDE DEF g
  <2>6. Value(g, m + 1) = Value(f, m + 1)
    BY <2>4, m \in 0 .. m, (m + 1) - 1 = m
  <2>7. \A i \in 0 .. m : Value(g, i) = Value(f, i)
    <3> TAKE i \in 0 .. m
    <3>1. i = 0 \/ i - 1 \in 0 .. m
      OBVIOUS
    <3> QED BY <2>4, <3>1
  <2>8. Correct(g, m + 1)
    <3> HIDE DEF Value
    <3>1. \A i \in 0 .. n : i <= m + 1 => i \in 0 .. m \/ i = m + 1
      OBVIOUS
    <3>2. \A i \in 0 .. m : i \in 0 .. n /\ i <= m
      OBVIOUS
    <3> QED BY <2>1, <2>4, <2>5, <2>6, <2>7, <3>1, <3>2
  <2> QED BY <2>3, <2>8
<1> HIDE DEF S
<1>3. n \in S
  BY <1>1, <1>2, Induction, n \in 0 .. n
<1>4. PICK f \in [0 .. n -> V] : Correct(f, n)
  BY <1>3 DEF S
<1>5. \A i \in 0 .. n : f[i] = Value(f, i)
  BY <1>4
<1>6. f[0] = v0 /\ \A i \in 1 .. n : f[i] = Step[i][f[i - 1]]
  BY <1>5
<1> QED BY <1>4, <1>6 DEF Iterates

-----------------------------------------------------------------------------
(* Arithmetic *)

LEMMA Division ==
    ASSUME NEW a \in Nat, NEW b \in Nat \ {0}, NEW c \in Nat
    PROVE  /\ a \div b \in Nat
           /\ a >= c * b => a \div b >= c
           /\ a < (c + 1) * b => a \div b <= c
<1>1. a \div b \in Nat /\ a = b * (a \div b) + (a % b) /\ (a % b) \in 0 .. b - 1
  OBVIOUS
<1> DEFINE q == a \div b
<1> HIDE DEF q
<1>2. q \in Nat /\ b * q <= a /\ a < b * q + b
  BY <1>1 DEF q
<1>3. ASSUME a >= c * b, q < c PROVE FALSE
  <2>1. PICK d \in Nat : c = q + 1 + d
    <3>1. c - q - 1 \in Nat /\ c = q + 1 + (c - q - 1)
      BY <1>2, <1>3
    <3> QED BY <3>1
  <2>2. c * b = b * q + b + d * b /\ d * b \in Nat
    BY <1>2, <2>1, SMT
  <2> QED BY <1>2, <1>3, <2>2
<1>4. ASSUME a < (c + 1) * b, q > c PROVE FALSE
  <2>1. PICK d \in Nat : q = c + 1 + d
    <3>1. q - c - 1 \in Nat /\ q = c + 1 + (q - c - 1)
      BY <1>2, <1>4
    <3> QED BY <3>1
  <2>2. b * q = (c + 1) * b + d * b /\ d * b \in Nat
    BY <1>2, <2>1, SMT
  <2> QED BY <1>2, <1>4, <2>2
<1> QED BY <1>2, <1>3, <1>4 DEF q

(* A share is a score when the part is no more than the whole, and all of  *)
(* it when it is no less.                                                  *)
LEMMA Shares ==
    ASSUME NEW a \in Nat, NEW b \in Nat \ {0}
    PROVE  /\ Share(<<a, b>>) \in Nat
           /\ a <= b => Share(<<a, b>>) \in 0 .. Unit
           /\ a >= b => Share(<<a, b>>) >= Unit
<1> DEFINE x == 2 * a * Unit + b
           y == 2 * b
<1>1. x \in Nat /\ y \in Nat \ {0} /\ x = 20000 * a + b /\ Unit \in Nat
  BY DEF Unit
<1>2. Unit * y = 20000 * b /\ (Unit + 1) * y = 20000 * b + 2 * b
  BY DEF Unit
<1>3. Share(<<a, b>>) = x \div y
  BY DEF Share
<1> HIDE DEF x, y
<1>4. /\ x \div y \in Nat
      /\ x >= Unit * y => x \div y >= Unit
      /\ x < (Unit + 1) * y => x \div y <= Unit
  BY <1>1, Division
<1> QED BY <1>1, <1>2, <1>3, <1>4

-----------------------------------------------------------------------------
(* Sums of sequences *)

LEMMA TotalSteps ==
    ASSUME NEW numbers \in Seq(Nat)
    PROVE  \E sum \in [0 .. Len(numbers) -> Nat] :
              /\ sum[0] = 0
              /\ \A i \in 1 .. Len(numbers) : sum[i] = sum[i - 1] + numbers[i]
              /\ Total(numbers) = sum[Len(numbers)]
<1> DEFINE N == Len(numbers)
           Step == [i \in 1 .. N |-> [v \in Nat |-> v + numbers[i]]]
           sum == CHOOSE sum : sum = [i \in 0 .. N |->
                                         IF i = 0 THEN 0 ELSE sum[i - 1] + numbers[i]]
<1>1. N \in Nat /\ \A i \in 1 .. N : numbers[i] \in Nat
  OBVIOUS
<1>2. Step \in [1 .. N -> [Nat -> Nat]]
  BY <1>1
<1>3. PICK f \in [0 .. N -> Nat] :
         f[0] = 0 /\ \A i \in 1 .. N : f[i] = Step[i][f[i - 1]]
  <2>1. N \in Nat
    BY <1>1
  <2> HIDE DEF Step, N
  <2>2. \E f : f \in Iterates(N, Nat, 0, Step)
    BY <2>1, <1>2, Recursion
  <2> QED BY <2>2 DEF Iterates
<1>4. f = [i \in 0 .. N |-> IF i = 0 THEN 0 ELSE f[i - 1] + numbers[i]]
  <2>1. \A i \in 1 .. N : f[i] = f[i - 1] + numbers[i]
    <3> TAKE i \in 1 .. N
    <3>0. i - 1 \in 0 .. N
      BY <1>1
    <3>1. f[i - 1] \in Nat
      BY <3>0, <1>3
    <3> QED BY <1>3, <3>1
  <2> QED BY <1>1, <1>3, <2>1
<1>5. sum = [i \in 0 .. N |-> IF i = 0 THEN 0 ELSE sum[i - 1] + numbers[i]]
  BY <1>4, Zenon
<1>6. Total(numbers) = sum[N]
  BY Zenon DEF Total
<1> HIDE DEF sum
<1> DEFINE S == {i \in 0 .. N : sum[i] \in Nat}
<1>7. \A i \in 1 .. N : sum[i] = sum[i - 1] + numbers[i]
  BY <1>1, <1>5
<1>8. \A i \in 0 .. N : sum[i] \in Nat
  <2>1. 0 \in S /\ \A i \in 0 .. N - 1 : i \in S => i + 1 \in S
    BY <1>1, <1>5, <1>7
  <2> QED BY <1>1, <2>1, Induction
<1>9. sum \in [0 .. N -> Nat] /\ sum[0] = 0
  BY <1>1, <1>5, <1>8
<1> QED BY <1>6, <1>7, <1>9

(* A sum is a number, and not less than one whose terms are less each.     *)
LEMMA TotalGrows ==
    ASSUME NEW s \in Seq(Nat), NEW t \in Seq(Nat), Len(s) = Len(t),
           \A i \in 1 .. Len(s) : s[i] <= t[i]
    PROVE  Total(s) \in Nat /\ Total(s) <= Total(t)
<1>1. PICK f \in [0 .. Len(s) -> Nat] :
         /\ f[0] = 0 /\ Total(s) = f[Len(s)]
         /\ \A i \in 1 .. Len(s) : f[i] = f[i - 1] + s[i]
  BY TotalSteps
<1>2. PICK g \in [0 .. Len(t) -> Nat] :
         /\ g[0] = 0 /\ Total(t) = g[Len(t)]
         /\ \A i \in 1 .. Len(t) : g[i] = g[i - 1] + t[i]
  BY TotalSteps
<1> DEFINE S == {i \in 0 .. Len(s) : f[i] <= g[i]}
<1>3. 0 \in S
  BY <1>1, <1>2
<1>4. \A i \in 0 .. Len(s) - 1 : i \in S => i + 1 \in S
  <2> TAKE i \in 0 .. Len(s) - 1
  <2> HAVE i \in S
  <2>1. i + 1 \in 1 .. Len(s) /\ (i + 1) - 1 = i /\ i \in 0 .. Len(s)
    OBVIOUS
  <2>2. f[i + 1] = f[i] + s[i + 1] /\ g[i + 1] = g[i] + t[i + 1]
    BY <1>1, <1>2, <2>1
  <2>3. s[i + 1] \in Nat /\ t[i + 1] \in Nat /\ s[i + 1] <= t[i + 1]
    BY <2>1
  <2>4. f[i] \in Nat /\ g[i] \in Nat /\ f[i] <= g[i]
    BY <2>1
  <2>5. f[i + 1] <= g[i + 1]
    BY <2>2, <2>3, <2>4
  <2> QED BY <2>1, <2>5
<1>5. Len(s) \in S
  <2> HIDE DEF S
  <2> QED BY <1>3, <1>4, Induction, Len(s) \in Nat, Len(s) \in 0 .. Len(s)
<1> QED BY <1>1, <1>2, <1>5

(* A sum of terms between two bounds.                                      *)
LEMMA TotalBounds ==
    ASSUME NEW s \in Seq(Nat), NEW low \in Nat, NEW high \in Nat,
           \A i \in 1 .. Len(s) : low <= s[i] /\ s[i] <= high
    PROVE  low * Len(s) <= Total(s) /\ Total(s) <= high * Len(s) /\ Total(s) \in Nat
<1>1. PICK f \in [0 .. Len(s) -> Nat] :
         /\ f[0] = 0 /\ Total(s) = f[Len(s)]
         /\ \A i \in 1 .. Len(s) : f[i] = f[i - 1] + s[i]
  BY TotalSteps
<1> DEFINE S == {i \in 0 .. Len(s) : low * i <= f[i] /\ f[i] <= high * i}
<1>2. 0 \in S
  BY <1>1
<1>3. \A i \in 0 .. Len(s) - 1 : i \in S => i + 1 \in S
  <2> TAKE i \in 0 .. Len(s) - 1
  <2> HAVE i \in S
  <2>1. i + 1 \in 1 .. Len(s) /\ (i + 1) - 1 = i /\ i \in 0 .. Len(s)
    OBVIOUS
  <2>2. f[i + 1] = f[i] + s[i + 1] /\ s[i + 1] \in Nat /\ low <= s[i + 1] /\ s[i + 1] <= high
    BY <1>1, <2>1
  <2>3. low * (i + 1) = low * i + low /\ high * (i + 1) = high * i + high
        /\ low * i \in Nat /\ high * i \in Nat
    BY SMT
  <2>4. f[i] \in Nat /\ low * i <= f[i] /\ f[i] <= high * i
    BY <2>1
  <2>5. low * (i + 1) <= f[i + 1] /\ f[i + 1] <= high * (i + 1)
    BY <2>2, <2>3, <2>4
  <2> QED BY <2>1, <2>5
<1>4. Len(s) \in S
  <2> HIDE DEF S
  <2> QED BY <1>2, <1>3, Induction, Len(s) \in Nat, Len(s) \in 0 .. Len(s)
<1> QED BY <1>1, <1>4

(* A mean lies between the bounds of its terms.                            *)
LEMMA MeanBounds ==
    ASSUME NEW s \in Seq(Nat), s # <<>>, NEW low \in Nat, NEW high \in Nat,
           \A i \in 1 .. Len(s) : low <= s[i] /\ s[i] <= high
    PROVE  Mean(s) \in low .. high
<1> DEFINE n == Len(s)
           x == 2 * Total(s) + n
<1>1. n \in Nat \ {0}
  OBVIOUS
<1>2. low * n <= Total(s) /\ Total(s) <= high * n /\ Total(s) \in Nat
  BY TotalBounds
<1>3. low * n \in Nat /\ high * n \in Nat
      /\ low * (2 * n) = 2 * (low * n) /\ (high + 1) * (2 * n) = 2 * (high * n) + 2 * n
  BY <1>1, SMT
<1>4. x \in Nat /\ x >= low * (2 * n) /\ x < (high + 1) * (2 * n) /\ 2 * n \in Nat \ {0}
  BY <1>1, <1>2, <1>3
<1>5. Mean(s) = x \div (2 * n)
  BY DEF Mean
<1> HIDE DEF n, x
<1> QED BY <1>4, <1>5, Division

-----------------------------------------------------------------------------
(* What the searches of a replay found *)

(* The combined ranking holds chunks that some search found, and none twice. *)
LEMMA RankingsFound ==
    ASSUME NEW replay, WellFormedReplay(replay)
    PROVE  /\ Rankings(replay) \in Seq(STRING)
           /\ \A p \in DOMAIN Rankings(replay) : \E i \in DOMAIN replay.calls :
                 Found(replay.calls[i]) /\ Contains(replay.calls[i].ids, Rankings(replay)[p])
<1> DEFINE calls == replay.calls
           N == Len(calls)
           Step == [i \in 1 .. N |-> [v \in Seq(STRING) |->
                       IF Found(calls[i]) THEN v \o calls[i].ids ELSE v]]
           upTo == CHOOSE upTo : upTo = [i \in 0 .. N |->
                       IF i = 0 THEN <<>>
                       ELSE IF Found(calls[i]) THEN upTo[i - 1] \o calls[i].ids ELSE upTo[i - 1]]
<1> DEFINE C == [tool : STRING, ids : Seq(STRING), cost : Nat,
                 status : {"ok", "failed", "refused", "cached"}]
<1>1. N \in Nat /\ DOMAIN calls = 1 .. N /\ \A i \in 1 .. N : calls[i].ids \in Seq(STRING)
  <2>1. calls \in Seq(C)
    BY DEF WellFormedReplay
  <2>2. \A c \in C : c.ids \in Seq(STRING)
    OBVIOUS
  <2> HIDE DEF C, calls
  <2>3. N \in Nat /\ DOMAIN calls = 1 .. N /\ \A i \in 1 .. N : calls[i] \in C
    BY <2>1
  <2> QED BY <2>2, <2>3
<1> HIDE DEF C, N, calls
<1>2. Step \in [1 .. N -> [Seq(STRING) -> Seq(STRING)]]
  <2>1. \A v, w \in Seq(STRING) : v \o w \in Seq(STRING)
    OBVIOUS
  <2>2. \A i \in 1 .. N : [v \in Seq(STRING) |->
                       IF Found(calls[i]) THEN v \o calls[i].ids ELSE v] \in [Seq(STRING) -> Seq(STRING)]
    BY <1>1, <2>1, Zenon
  <2> QED BY <2>2, Zenon
<1>3. PICK f \in [0 .. N -> Seq(STRING)] :
         f[0] = <<>> /\ \A i \in 1 .. N : f[i] = Step[i][f[i - 1]]
  <2> DEFINE none == <<>>
             V == Seq(STRING)
  <2>1. none \in V
    OBVIOUS
  <2> HIDE DEF none, V, Step
  <2>2. \E f : f \in Iterates(N, V, none, Step)
    BY <1>1, <1>2, <2>1, Recursion DEF V
  <2> QED BY <2>2, Zenon DEF Iterates, none, V
<1> DEFINE E(u, i) == IF i = 0 THEN <<>>
                      ELSE IF Found(calls[i]) THEN u[i - 1] \o calls[i].ids ELSE u[i - 1]
<1>4. f = [i \in 0 .. N |-> E(f, i)]
  <2>1. \A i \in 1 .. N : f[i] = E(f, i)
    <3> TAKE i \in 1 .. N
    <3>0. i - 1 \in 0 .. N
      BY <1>1
    <3>1. f[i - 1] \in Seq(STRING)
      BY <3>0, <1>3
    <3> QED BY <1>3, <3>1
  <2>2. f[0] = E(f, 0)
    BY <1>3
  <2>3. \A i \in 0 .. N : i = 0 \/ i \in 1 .. N
    BY <1>1
  <2> HIDE DEF E
  <2> QED BY <1>3, <2>1, <2>2, <2>3
<1>5. upTo = [i \in 0 .. N |-> E(upTo, i)]
  BY <1>4, Zenon
<1>6. Rankings(replay) = upTo[N]
  BY Zenon DEF Rankings, N, calls
<1> HIDE DEF upTo
<1>7. /\ upTo[0] = <<>>
      /\ \A i \in 1 .. N :
            upTo[i] = IF Found(calls[i]) THEN upTo[i - 1] \o calls[i].ids ELSE upTo[i - 1]
  <2>1. \A i \in 0 .. N : upTo[i] = E(upTo, i)
    <3> HIDE DEF E
    <3> QED BY <1>5
  <2>2. 0 \in 0 .. N /\ \A i \in 1 .. N : i \in 0 .. N /\ i # 0
    BY <1>1
  <2> QED BY <2>1, <2>2, Zenon
<1> DEFINE FoundBy(i, id) == \E k \in 1 .. i : Found(calls[k]) /\ Contains(calls[k].ids, id)
           S == {i \in 0 .. N : /\ upTo[i] \in Seq(STRING)
                                /\ \A p \in DOMAIN upTo[i] : FoundBy(i, upTo[i][p])}
<1>8. 0 \in S
  <2>1. <<>> \in Seq(STRING) /\ DOMAIN <<>> = {}
    OBVIOUS
  <2>2. upTo[0] \in Seq(STRING) /\ \A p \in DOMAIN upTo[0] : FoundBy(0, upTo[0][p])
    BY <1>7, <2>1, Zenon
  <2> QED BY <1>1, <2>2, 0 \in 0 .. N, Zenon
<1>9. \A i \in 0 .. N - 1 : i \in S => i + 1 \in S
  <2> SUFFICES ASSUME NEW i \in 0 .. N - 1, i \in S PROVE i + 1 \in S
    OBVIOUS
  <2>1. i + 1 \in 1 .. N /\ (i + 1) - 1 = i /\ i + 1 \in 0 .. N
    BY <1>1
  <2>2. upTo[i + 1] = IF Found(calls[i + 1]) THEN upTo[i] \o calls[i + 1].ids ELSE upTo[i]
    BY <1>7, <2>1
  <2>3. upTo[i] \in Seq(STRING) /\ calls[i + 1].ids \in Seq(STRING)
    BY <1>1, <2>1
  <2>4. \A p \in DOMAIN upTo[i] : FoundBy(i + 1, upTo[i][p])
    BY <1>1, \A k \in 1 .. i : k \in 1 .. i + 1
  <2>5. CASE ~Found(calls[i + 1])
    BY <2>1, <2>2, <2>3, <2>4, <2>5
  <2>6. CASE Found(calls[i + 1])
    <3> DEFINE s == upTo[i]
               t == calls[i + 1].ids
    <3>1. upTo[i + 1] = s \o t
      BY <2>2, <2>6
    <3>2. s \in Seq(STRING) /\ t \in Seq(STRING)
      BY <2>3
    <3>3. ASSUME NEW p \in DOMAIN (s \o t) PROVE FoundBy(i + 1, (s \o t)[p])
      <4> HIDE DEF s, t
      <4>1. \/ p \in DOMAIN s /\ (s \o t)[p] = s[p]
            \/ \E q \in 1 .. Len(t) : (s \o t)[p] = t[q]
        <5>1. p \in 1 .. Len(s) + Len(t) /\ Len(s) \in Nat /\ Len(t) \in Nat
          BY <3>2, <3>3
        <5>2. CASE p <= Len(s)
          BY <3>2, <5>1, <5>2
        <5>3. CASE p > Len(s)
          <6>1. p - Len(s) \in 1 .. Len(t) /\ (s \o t)[p] = t[p - Len(s)]
            BY <3>2, <5>1, <5>3
          <6> QED BY <6>1
        <5> QED BY <5>1, <5>2, <5>3
      <4>2. CASE p \in DOMAIN s /\ (s \o t)[p] = s[p]
        BY <2>4, <4>2 DEF s
      <4>3. CASE \E q \in 1 .. Len(t) : (s \o t)[p] = t[q]
        <5>1. Contains(calls[i + 1].ids, (s \o t)[p])
          BY <4>3 DEF t, Contains
        <5> QED BY <5>1, <2>6, i + 1 \in 1 .. i + 1
      <4> QED BY <4>1, <4>2, <4>3
    <3>4. s \o t \in Seq(STRING)
      BY <3>2
    <3> HIDE DEF s, t
    <3> QED BY <2>1, <3>1, <3>3, <3>4
  <2> QED BY <2>5, <2>6
<1>10. N \in S
  <2> HIDE DEF S
  <2> QED BY <1>1, <1>8, <1>9, Induction, N \in 0 .. N
<1> QED BY <1>1, <1>6, <1>10 DEF calls

(* Without repetition, and no longer than the combined ranking.            *)
LEMMA RetrievedOnce ==
    ASSUME NEW replay, WellFormedReplay(replay)
    PROVE  /\ Retrieved(replay) \in Seq(STRING)
           /\ Len(Retrieved(replay)) <= Len(Discount)
           /\ \A p, q \in DOMAIN Retrieved(replay) :
                 Retrieved(replay)[p] = Retrieved(replay)[q] => p = q
           /\ \A p \in DOMAIN Retrieved(replay) : \E i \in DOMAIN replay.calls :
                 Found(replay.calls[i]) /\ Contains(replay.calls[i].ids, Retrieved(replay)[p])
<1> DEFINE ids == Rankings(replay)
           N == Len(ids)
           Step == [i \in 1 .. N |-> [v \in Seq(STRING) |->
                       IF ids[i] \in Range(v) THEN v ELSE Append(v, ids[i])]]
           E(u, i) == IF i = 0 THEN <<>>
                      ELSE IF ids[i] \in Range(u[i - 1]) THEN u[i - 1]
                      ELSE Append(u[i - 1], ids[i])
           upTo == CHOOSE upTo : upTo = [i \in 0 .. N |->
                       IF i = 0 THEN <<>>
                       ELSE IF ids[i] \in Range(upTo[i - 1]) THEN upTo[i - 1]
                       ELSE Append(upTo[i - 1], ids[i])]
<1>1. N \in Nat /\ DOMAIN ids = 1 .. N /\ \A i \in 1 .. N : ids[i] \in STRING
  BY RankingsFound
<1>2. Retrieved(replay) = upTo[N]
  BY Zenon DEF Retrieved
<1>3. \A p \in 1 .. N : \E i \in DOMAIN replay.calls :
         Found(replay.calls[i]) /\ Contains(replay.calls[i].ids, ids[p])
  BY <1>1, RankingsFound
<1>4. N <= Len(Discount)
  BY DEF WellFormedReplay
<1> HIDE DEF ids, N
<1>5. Step \in [1 .. N -> [Seq(STRING) -> Seq(STRING)]]
  <2>1. \A i \in 1 .. N : \A v \in Seq(STRING) : Append(v, ids[i]) \in Seq(STRING)
    BY <1>1
  <2> QED BY <2>1, Zenon
<1>6. PICK f \in [0 .. N -> Seq(STRING)] :
         f[0] = <<>> /\ \A i \in 1 .. N : f[i] = Step[i][f[i - 1]]
  <2> DEFINE none == <<>>
             V == Seq(STRING)
  <2>1. none \in V
    OBVIOUS
  <2> HIDE DEF none, V, Step
  <2>2. \E f : f \in Iterates(N, V, none, Step)
    BY <1>1, <1>5, <2>1, Recursion DEF V
  <2> QED BY <2>2, Zenon DEF Iterates, none, V
<1>7. f = [i \in 0 .. N |-> E(f, i)]
  <2>1. \A i \in 1 .. N : f[i] = E(f, i)
    <3> TAKE i \in 1 .. N
    <3>0. i - 1 \in 0 .. N
      BY <1>1
    <3>1. f[i - 1] \in Seq(STRING)
      BY <3>0, <1>6
    <3> QED BY <1>6, <3>1
  <2>2. f[0] = E(f, 0)
    BY <1>6
  <2>3. \A i \in 0 .. N : i = 0 \/ i \in 1 .. N
    BY <1>1
  <2> HIDE DEF E
  <2> QED BY <1>6, <2>1, <2>2, <2>3
<1>8. upTo = [i \in 0 .. N |-> E(upTo, i)]
  BY <1>7, Zenon
<1> HIDE DEF upTo
<1>9. /\ upTo[0] = <<>>
      /\ \A i \in 1 .. N :
            upTo[i] = IF ids[i] \in Range(upTo[i - 1]) THEN upTo[i - 1]
                      ELSE Append(upTo[i - 1], ids[i])
  <2>1. \A i \in 0 .. N : upTo[i] = E(upTo, i)
    <3> HIDE DEF E
    <3> QED BY <1>8
  <2>2. 0 \in 0 .. N /\ \A i \in 1 .. N : i \in 0 .. N /\ i # 0
    BY <1>1
  <2> QED BY <2>1, <2>2, Zenon
<1> DEFINE Good(i, u) == /\ u \in Seq(STRING) /\ Len(u) <= i
                         /\ \A p, q \in DOMAIN u : u[p] = u[q] => p = q
                         /\ \A p \in DOMAIN u : \E k \in 1 .. N : u[p] = ids[k]
           S == {i \in 0 .. N : Good(i, upTo[i])}
<1>10. 0 \in S
  <2>1. Good(0, <<>>)
    OBVIOUS
  <2> HIDE DEF Good
  <2> QED BY <1>1, <1>9, <2>1
<1>11. \A i \in 0 .. N - 1 : i \in S => i + 1 \in S
  <2> SUFFICES ASSUME NEW i \in 0 .. N - 1, i \in S PROVE i + 1 \in S
    OBVIOUS
  <2>1. i + 1 \in 1 .. N /\ (i + 1) - 1 = i /\ i + 1 \in 0 .. N /\ i \in Nat
    BY <1>1
  <2> DEFINE u == upTo[i]
             id == ids[i + 1]
  <2>2. upTo[i + 1] = IF id \in Range(u) THEN u ELSE Append(u, id)
    BY <1>9, <2>1
  <2>3. Good(i, u) /\ id \in STRING
    BY <1>1, <2>1
  <2> HIDE DEF u
  <2>4. Good(i + 1, u)
    BY <2>1, <2>3
  <2>5. ASSUME id \notin Range(u) PROVE Good(i + 1, Append(u, id))
    <3> DEFINE w == Append(u, id)
    <3>1. /\ w \in Seq(STRING) /\ Len(w) = Len(u) + 1 /\ DOMAIN w = 1 .. Len(u) + 1
          /\ \A p \in DOMAIN u : w[p] = u[p]
          /\ w[Len(u) + 1] = id /\ Len(u) \in Nat /\ DOMAIN u = 1 .. Len(u)
      BY <2>3
    <3> HIDE DEF w
    <3>2. \A p \in DOMAIN w : p \in DOMAIN u \/ p = Len(u) + 1
      BY <3>1
    <3>3. \A p \in DOMAIN u : u[p] # id
      BY <2>5 DEF Range
    <3>4. \A p, q \in DOMAIN w : w[p] = w[q] => p = q
      BY <2>3, <3>1, <3>2, <3>3
    <3>5. \A p \in DOMAIN w : \E k \in 1 .. N : w[p] = ids[k]
      BY <2>1, <2>3, <3>1, <3>2
    <3>6. Len(w) <= i + 1
      BY <2>1, <2>3, <3>1
    <3> QED BY <3>1, <3>4, <3>5, <3>6 DEF w
  <2> HIDE DEF Good, id
  <2> QED BY <2>1, <2>2, <2>4, <2>5
<1>12. N \in S
  <2> HIDE DEF S
  <2> QED BY <1>1, <1>10, <1>11, Induction, N \in 0 .. N
<1>13. Good(N, Retrieved(replay))
  BY <1>2, <1>12
<1>14. Len(Discount) = 8
  BY DEF Discount
<1> DEFINE R == Retrieved(replay)
<1> HIDE DEF R
<1>15. ASSUME NEW p \in DOMAIN R
       PROVE  \E i \in DOMAIN replay.calls :
                 Found(replay.calls[i]) /\ Contains(replay.calls[i].ids, R[p])
  <2>1. PICK k \in 1 .. N : R[p] = ids[k]
    BY <1>13 DEF R
  <2> QED BY <1>3, <2>1, Zenon
<1>16. /\ R \in Seq(STRING) /\ Len(R) <= Len(Discount)
       /\ \A p, q \in DOMAIN R : R[p] = R[q] => p = q
  <2>1. R \in Seq(STRING) /\ Len(R) <= N /\ \A p, q \in DOMAIN R : R[p] = R[q] => p = q
    BY <1>13 DEF R
  <2> QED BY <2>1, <1>1, <1>4, <1>14
<1> QED BY <1>15, <1>16, Zenon DEF R

(* The positions of relevant chunks.                                       *)
Hits(relevant, ids) == {p \in DOMAIN ids : ids[p] \in relevant}

(* Since no chunk counts twice, there are no more hits than relevant chunks *)
(* were found.                                                             *)
LEMMA HitsCounted ==
    ASSUME NEW case, NEW replay, WellFormedCase(case), WellFormedReplay(replay)
    PROVE  /\ IsFiniteSet(Hits(case.relevant, Retrieved(replay)))
           /\ Cardinality(Hits(case.relevant, Retrieved(replay)))
                 <= Cardinality(RelevantFound(case, replay))
           /\ Cardinality(Hits(case.relevant, Retrieved(replay))) <= Cardinality(case.relevant)
           /\ Cardinality(Hits(case.relevant, Retrieved(replay))) <= Len(Retrieved(replay))
           /\ Cardinality(Hits(case.relevant, Retrieved(replay))) \in Nat
           /\ Cardinality(RelevantFound(case, replay)) \in Nat
           /\ Cardinality(case.relevant) \in Nat
<1> DEFINE ids == Retrieved(replay)
           relevant == case.relevant
           found == RelevantFound(case, replay)
           hits == Hits(relevant, ids)
           f == [p \in hits |-> ids[p]]
<1>1. /\ ids \in Seq(STRING) /\ \A p, q \in DOMAIN ids : ids[p] = ids[q] => p = q
      /\ \A p \in DOMAIN ids : \E i \in DOMAIN replay.calls :
            Found(replay.calls[i]) /\ Contains(replay.calls[i].ids, ids[p])
  BY RetrievedOnce
<1>2. IsFiniteSet(relevant)
  BY DEF WellFormedCase
<1>3. \A p \in hits : p \in DOMAIN ids /\ ids[p] \in relevant
  BY DEF Hits
<1>4. found \subseteq relevant /\ \A p \in hits : ids[p] \in found
  BY <1>1, <1>3 DEF RelevantFound
<1> HIDE DEF ids, found, hits, relevant
<1>5. IsFiniteSet(found) /\ Cardinality(found) <= Cardinality(relevant)
  BY <1>2, <1>4, FS_Subset
<1>6. f \in Injection(hits, found)
  <2>1. f \in [hits -> found]
    BY <1>4
  <2>2. \A p, q \in hits : f[p] = f[q] => p = q
    BY <1>1, <1>3
  <2> QED BY <2>1, <2>2 DEF Injection, IsInjective
<1> HIDE DEF f
<1>7. IsFiniteSet(hits) /\ Cardinality(hits) <= Cardinality(found)
  BY <1>5, <1>6, FS_Injection
<1>8. Cardinality(hits) \in Nat /\ Cardinality(found) \in Nat /\ Cardinality(relevant) \in Nat
  BY <1>2, <1>5, <1>7, FS_CardinalityType
<1>9. Cardinality(hits) <= Len(ids)
  <2>1. hits \subseteq 1 .. Len(ids) /\ Len(ids) \in Nat
    BY <1>1, <1>3
  <2>2. IsFiniteSet(1 .. Len(ids)) /\ Cardinality(1 .. Len(ids)) = Len(ids)
    BY <2>1, FS_Interval
  <2> QED BY <2>1, <2>2, FS_Subset
<1> QED BY <1>5, <1>7, <1>8, <1>9 DEF ids, found, hits, relevant

LEMMA Discounts ==
    /\ DOMAIN Discount = 1 .. 8
    /\ \A p \in 1 .. 8 : Discount[p] \in Nat /\ 3155 <= Discount[p] /\ Discount[p] <= Unit
    /\ \A p, q \in 1 .. 8 : p <= q => Discount[q] <= Discount[p]
<1>1. /\ DOMAIN Discount = 1 .. 8
      /\ Discount[1] = 10000 /\ Discount[2] = 6309 /\ Discount[3] = 5000 /\ Discount[4] = 4307
      /\ Discount[5] = 3869 /\ Discount[6] = 3562 /\ Discount[7] = 3333 /\ Discount[8] = 3155
  BY DEF Discount
<1>2. \A p \in 1 .. 8 : p = 1 \/ p = 2 \/ p = 3 \/ p = 4 \/ p = 5 \/ p = 6 \/ p = 7 \/ p = 8
  OBVIOUS
<1>3. \A p \in 1 .. 8 : Discount[p] \in Nat /\ 3155 <= Discount[p] /\ Discount[p] <= Unit
  BY <1>1, <1>2 DEF Unit
<1>4. \A p, q \in 1 .. 8 : p <= q => Discount[q] <= Discount[p]
  <2> TAKE p, q \in 1 .. 8
  <2> QED BY <1>1, <1>2
<1> QED BY <1>1, <1>3, <1>4

LEMMA DiscountFalls ==
    ASSUME NEW p, NEW q, p \in 1 .. 8 /\ q \in 1 .. 8 /\ p <= q
    PROVE  Discount[q] <= Discount[p] /\ Discount[q] \in Nat /\ Discount[p] \in Nat
<1>1. \A r \in 1 .. 8 : Discount[r] \in Nat
  BY Discounts
<1>2. \A x, y \in 1 .. 8 : x <= y => Discount[y] <= Discount[x]
  BY Discounts
<1>3. Discount[q] \in Nat /\ Discount[p] \in Nat
  BY <1>1
<1>4. Discount[q] <= Discount[p]
  BY <1>2
<1> QED BY <1>3, <1>4

(* A sum with one more term.                                               *)
LEMMA TotalExtended ==
    ASSUME NEW s \in Seq(Nat), NEW t \in Seq(Nat), Len(t) = Len(s) + 1,
           \A i \in 1 .. Len(s) : t[i] = s[i]
    PROVE  Total(t) = Total(s) + t[Len(t)]
<1>1. PICK f \in [0 .. Len(s) -> Nat] :
         /\ f[0] = 0 /\ Total(s) = f[Len(s)]
         /\ \A i \in 1 .. Len(s) : f[i] = f[i - 1] + s[i]
  BY TotalSteps
<1>2. PICK g \in [0 .. Len(t) -> Nat] :
         /\ g[0] = 0 /\ Total(t) = g[Len(t)]
         /\ \A i \in 1 .. Len(t) : g[i] = g[i - 1] + t[i]
  BY TotalSteps
<1> DEFINE S == {i \in 0 .. Len(s) : f[i] = g[i]}
<1>3. 0 \in S
  BY <1>1, <1>2
<1>4. \A i \in 0 .. Len(s) - 1 : i \in S => i + 1 \in S
  <2> TAKE i \in 0 .. Len(s) - 1
  <2> HAVE i \in S
  <2>1. i + 1 \in 1 .. Len(s) /\ i + 1 \in 1 .. Len(t) /\ (i + 1) - 1 = i /\ i \in 0 .. Len(s)
    OBVIOUS
  <2>2. f[i + 1] = f[i] + s[i + 1] /\ g[i + 1] = g[i] + t[i + 1] /\ s[i + 1] = t[i + 1] /\ f[i] = g[i]
    BY <1>1, <1>2, <2>1
  <2> QED BY <2>1, <2>2
<1>5. Len(s) \in S
  <2> HIDE DEF S
  <2> QED BY <1>3, <1>4, Induction, Len(s) \in Nat, Len(s) \in 0 .. Len(s)
<1>6. g[Len(t)] = g[Len(s)] + t[Len(t)]
  BY <1>2, Len(t) \in 1 .. Len(t), Len(t) - 1 = Len(s)
<1> QED BY <1>1, <1>2, <1>5, <1>6

LEMMA IdealSteps ==
    /\ IdealGain(0) = 0
    /\ \A c \in 0 .. 8 : IdealGain(c) \in Nat
    /\ \A c \in 0 .. 7 : IdealGain(c + 1) = IdealGain(c) + Discount[c + 1]
<1> DEFINE d(c) == [p \in 1 .. c |-> Discount[p]]
<1>1. \A c \in 0 .. 8 : d(c) \in Seq(Nat) /\ Len(d(c)) = c /\ \A p \in 1 .. c : d(c)[p] = Discount[p]
  <2> TAKE c \in 0 .. 8
  <2>1. \A p \in 1 .. c : Discount[p] \in Nat
    BY Discounts, \A p \in 1 .. c : p \in 1 .. 8
  <2> QED BY <2>1
<1>2. \A c \in 0 .. 8 : IdealGain(c) = Total(d(c))
  BY DEF IdealGain
<1> HIDE DEF d
<1>3. ASSUME NEW c \in 0 .. 8 PROVE Total(d(c)) \in Nat
  <2>1. d(c) \in Seq(Nat)
    BY <1>1
  <2>2. \A i \in 1 .. Len(d(c)) : d(c)[i] <= d(c)[i]
    BY <2>1
  <2> QED BY <2>1, <2>2, TotalGrows
<1>4. ASSUME NEW c \in 0 .. 7 PROVE Total(d(c + 1)) = Total(d(c)) + Discount[c + 1]
  <2>1. /\ c \in 0 .. 8 /\ c + 1 \in 0 .. 8 /\ c + 1 \in 1 .. c + 1
        /\ \A p \in 1 .. c : p \in 1 .. c + 1
    OBVIOUS
  <2>2. /\ d(c) \in Seq(Nat) /\ Len(d(c)) = c /\ d(c + 1) \in Seq(Nat) /\ Len(d(c + 1)) = c + 1
        /\ \A p \in 1 .. c : d(c + 1)[p] = d(c)[p]
        /\ d(c + 1)[c + 1] = Discount[c + 1]
    BY <1>1, <2>1
  <2> QED BY <2>2, TotalExtended
<1>5. Total(d(0)) = 0
  <2>1. d(0) \in Seq(Nat) /\ Len(d(0)) = 0
    BY <1>1
  <2> QED BY <2>1, TotalBounds
<1> QED BY <1>2, <1>3, <1>4, <1>5

LEMMA IdealGrows ==
    ASSUME NEW c \in 0 .. 8, NEW d \in 0 .. 8, c <= d
    PROVE  IdealGain(c) <= IdealGain(d)
<1> DEFINE S == {k \in 0 .. 8 - c : IdealGain(c) <= IdealGain(c + k)}
<1>1. 0 \in S
  <2>1. IdealGain(c) \in Nat
    BY IdealSteps
  <2> QED BY <2>1, c + 0 = c, 0 \in 0 .. 8 - c
<1>2. \A k \in 0 .. (8 - c) - 1 : k \in S => k + 1 \in S
  <2> TAKE k \in 0 .. (8 - c) - 1
  <2> HAVE k \in S
  <2>1. /\ c + k \in 0 .. 7 /\ c + k \in 0 .. 8 /\ (c + k) + 1 \in 1 .. 8
        /\ c + (k + 1) = (c + k) + 1 /\ k + 1 \in 0 .. 8 - c
    OBVIOUS
  <2>2. /\ IdealGain((c + k) + 1) = IdealGain(c + k) + Discount[(c + k) + 1]
        /\ IdealGain(c + k) \in Nat /\ IdealGain(c) \in Nat
        /\ Discount[(c + k) + 1] \in Nat
    BY <2>1, IdealSteps, Discounts
  <2>3. IdealGain(c) <= IdealGain(c + k)
    OBVIOUS
  <2>4. IdealGain(c) <= IdealGain((c + k) + 1)
    BY <2>2, <2>3
  <2> QED BY <2>1, <2>4
<1>3. d - c \in S
  <2>1. 8 - c \in Nat /\ d - c \in 0 .. 8 - c
    OBVIOUS
  <2> HIDE DEF S
  <2> QED BY <1>1, <1>2, <2>1, Induction
<1> QED BY <1>3, c + (d - c) = d DEF S

(* Hits at any positions gain no more than as many at the first ones.      *)
LEMMA GainBounded ==
    ASSUME NEW relevant, NEW E, NEW ids \in Seq(E), Len(ids) <= 8
    PROVE  /\ Gain(ids, relevant) \in Nat
           /\ Gain(ids, relevant) <= IdealGain(Cardinality(Hits(relevant, ids)))
<1> DEFINE N == Len(ids)
           t == [p \in DOMAIN ids |-> IF ids[p] \in relevant THEN Discount[p] ELSE 0]
           H(i) == {p \in 1 .. i : ids[p] \in relevant}
<1>1. N \in 0 .. 8 /\ DOMAIN ids = 1 .. N
  <2>1. N \in Nat /\ DOMAIN ids = 1 .. N /\ N <= 8
    OBVIOUS
  <2> HIDE DEF N
  <2>2. N \in 0 .. 8
    BY ONLY <2>1
  <2> QED BY <2>1, <2>2, Zenon
<1>2. \A p \in 1 .. N : p \in 1 .. 8
  BY <1>1
<1>3. t \in Seq(Nat) /\ Len(t) = N
      /\ \A p \in 1 .. N : t[p] = IF ids[p] \in relevant THEN Discount[p] ELSE 0
  <2>1. \A p \in 1 .. N : Discount[p] \in Nat
    BY <1>2, Discounts
  <2> QED BY <1>1, <2>1
<1>4. Gain(ids, relevant) = Total(t)
  BY DEF Gain
<1> HIDE DEF t
<1>5. PICK f \in [0 .. N -> Nat] :
         /\ f[0] = 0 /\ Total(t) = f[N]
         /\ \A i \in 1 .. N : f[i] = f[i - 1] + t[i]
  BY <1>3, TotalSteps
<1> DEFINE S == {i \in 0 .. N : /\ IsFiniteSet(H(i)) /\ Cardinality(H(i)) \in 0 .. i
                                /\ f[i] <= IdealGain(Cardinality(H(i)))}
<1>6. 0 \in S
  <2>1. H(0) = {}
    OBVIOUS
  <2> HIDE DEF H
  <2>2. IsFiniteSet(H(0)) /\ Cardinality(H(0)) = 0
    BY <2>1, FS_EmptySet
  <2>3. f[0] <= IdealGain(0) /\ 0 \in 0 .. 0 /\ 0 \in 0 .. N
    BY <1>1, <1>5, IdealSteps
  <2> QED BY <2>2, <2>3
<1>7. \A i \in 0 .. N - 1 : i \in S => i + 1 \in S
  <2> SUFFICES ASSUME NEW i \in 0 .. N - 1, i \in S PROVE i + 1 \in S
    OBVIOUS
  <2>1. /\ i \in 0 .. 7 /\ i + 1 \in 1 .. N /\ i + 1 \in 1 .. 8 /\ (i + 1) - 1 = i
        /\ i \in 0 .. N /\ i + 1 \in 0 .. N /\ i + 1 \notin 1 .. i
        /\ 1 .. i + 1 = (1 .. i) \cup {i + 1}
    BY <1>1
  <2>2. f[i + 1] = f[i] + t[i + 1] /\ f[i] \in Nat /\ f[i + 1] \in Nat
    BY <1>5, <2>1
  <2> DEFINE c == Cardinality(H(i))
  <2>3. c \in 0 .. i /\ f[i] <= IdealGain(c) /\ IsFiniteSet(H(i))
    OBVIOUS
  <2>4. CASE ids[i + 1] \notin relevant
    <3>1. H(i + 1) = H(i)
      BY <2>1, <2>4
    <3>2. t[i + 1] = 0
      BY <1>3, <2>1, <2>4
    <3> HIDE DEF H
    <3>3. f[i + 1] = f[i] /\ c \in 0 .. i + 1
      BY <2>1, <2>2, <2>3, <3>2
    <3> QED BY <2>1, <2>3, <3>1, <3>3
  <2>5. CASE ids[i + 1] \in relevant
    <3>1. H(i + 1) = H(i) \cup {i + 1} /\ i + 1 \notin H(i)
      BY <2>1, <2>5
    <3>2. t[i + 1] = Discount[i + 1]
      BY <1>3, <2>1, <2>5
    <3> HIDE DEF H
    <3>3. IsFiniteSet(H(i + 1)) /\ Cardinality(H(i + 1)) = c + 1
      BY <2>3, <3>1, FS_AddElement
    <3>4. c \in 0 .. 7 /\ c \in 0 .. 8 /\ c + 1 \in 1 .. 8 /\ c + 1 <= i + 1 /\ c + 1 \in 0 .. i + 1
      BY <2>1, <2>3
    <3> HIDE DEF c
    <3>5. IdealGain(c + 1) = IdealGain(c) + Discount[c + 1] /\ IdealGain(c) \in Nat
      BY <3>4, IdealSteps
    <3>6. Discount[i + 1] <= Discount[c + 1] /\ Discount[i + 1] \in Nat /\ Discount[c + 1] \in Nat
      <4> DEFINE x == c + 1
                 y == i + 1
      <4>1. x \in 1 .. 8 /\ y \in 1 .. 8 /\ x <= y
        BY <2>1, <3>4
      <4> HIDE DEF x, y
      <4>2. Discount[y] <= Discount[x] /\ Discount[y] \in Nat /\ Discount[x] \in Nat
        BY ONLY <4>1, DiscountFalls
      <4> QED BY <4>2 DEF x, y
    <3>7. f[i + 1] <= IdealGain(c + 1)
      BY <2>2, <2>3, <3>2, <3>5, <3>6
    <3> QED BY <2>1, <3>3, <3>4, <3>7
  <2> QED BY <2>4, <2>5
<1>8. N \in S
  <2> HIDE DEF S
  <2> QED BY <1>1, <1>6, <1>7, Induction, N \in Nat, N \in 0 .. N
<1>9. H(N) = Hits(relevant, ids)
  BY <1>1 DEF Hits
<1>10. f[N] \in Nat
  BY <1>1, <1>5
<1> QED BY <1>4, <1>5, <1>8, <1>9, <1>10

-----------------------------------------------------------------------------
(* The scores of the layers *)

LEMMA Percents ==
    ASSUME NEW w \in Nat, NEW c \in Nat
    PROVE  /\ Percent(w) \in Nat
           /\ w >= 100 * c => Percent(w) >= c
           /\ w <= 100 * c => Percent(w) <= c
<1> DEFINE x == w + 50
<1>1. /\ x \in Nat /\ c * 100 = 100 * c /\ (c + 1) * 100 = 100 * c + 100
      /\ 100 \in Nat \ {0}
  OBVIOUS
<1>2. Percent(w) = x \div 100
  BY DEF Percent
<1>3. (w >= 100 * c => x >= c * 100) /\ (w <= 100 * c => x < (c + 1) * 100)
  BY <1>1
<1> HIDE DEF x
<1> QED BY <1>1, <1>2, <1>3, Division

(* What is claimed of every layer: its score is one, and when it passes it *)
(* is at least the given floor.                                            *)
Sound(layer, floor) ==
    /\ layer \in [score : Scores, passed : BOOLEAN]
    /\ layer.passed => layer.score >= floor

LEMMA LayerSound ==
    ASSUME NEW score \in Scores, NEW passed \in BOOLEAN, NEW floor \in Nat,
           passed => score >= floor
    PROVE  /\ Sound(Layer(score, passed), floor)
           /\ Layer(score, passed).passed = passed
BY DEF Sound, Layer

LEMMA ScoreRange ==
    ASSUME NEW a \in Scores
    PROVE  a \in Nat /\ a <= 10000
BY DEF Scores, Unit

LEMMA RangeScore ==
    ASSUME NEW a \in Nat, a <= 10000
    PROVE  a \in Scores
BY DEF Scores, Unit

LEMMA WeightedFour ==
    ASSUME NEW a \in Scores, NEW b \in Scores, NEW c \in Scores, NEW d \in Scores
    PROVE  Percent(35 * a + 40 * b + 15 * c + 10 * d) \in Scores
<1> DEFINE w == 35 * a + 40 * b + 15 * c + 10 * d
<1>1. /\ a \in Nat /\ a <= 10000 /\ b \in Nat /\ b <= 10000
      /\ c \in Nat /\ c <= 10000 /\ d \in Nat /\ d <= 10000
  BY ScoreRange
<1>2. w \in Nat /\ w <= 100 * 10000
  BY <1>1
<1> HIDE DEF w
<1>3. Percent(w) \in Nat /\ Percent(w) <= 10000
  BY <1>2, Percents, 10000 \in Nat
<1> QED BY <1>3, RangeScore DEF w

LEMMA RetrievalSound ==
    ASSUME NEW case, NEW replay, WellFormedCase(case), WellFormedReplay(replay)
    PROVE  /\ Sound(RetrievalLayer(case, replay), 7200)
           /\ RetrievalLayer(case, replay).passed =>
                 5 * Cardinality(RelevantFound(case, replay)) >= 4 * Cardinality(case.relevant)
<1> DEFINE ids == Retrieved(replay)
           relevant == case.relevant
           hits == Hits(relevant, ids)
           h == Cardinality(hits)
           n == Cardinality(relevant)
           k == Cardinality(RelevantFound(case, replay))
           ideal == Least(Len(ids), n)
           prec == IF ids = <<>> THEN 0 ELSE Share(<<h, Len(ids)>>)
           mrr == IF hits = {} THEN 0 ELSE Share(<<1, Min(hits)>>)
           ndcg == IF ideal = 0 THEN 0 ELSE Share(<<Gain(ids, relevant), IdealGain(ideal)>>)
           q == RetrievalQuality(relevant, ids)
<1>1. /\ h \in Nat /\ k \in Nat /\ n \in Nat /\ h <= k /\ h <= n /\ h <= Len(ids)
      /\ IsFiniteSet(hits) /\ IsFiniteSet(relevant)
  BY HitsCounted DEF WellFormedCase
<1>2. ids \in Seq(STRING) /\ Len(ids) <= 8
  <2>1. Len(Discount) = 8
    BY DEF Discount
  <2> QED BY <2>1, RetrievedOnce
<1>3. Gain(ids, relevant) \in Nat /\ Gain(ids, relevant) <= IdealGain(h)
  <2> HIDE DEF ids, relevant
  <2> QED BY <1>2, GainBounded
<1>4. q = [recall |-> <<h, n>>,
           score  |-> Percent(35 * prec + 40 * Share(<<h, n>>) + 15 * mrr + 10 * ndcg)]
  BY Zenon DEF RetrievalQuality, Hits
<1>5. RetrievalLayer(case, replay) =
         IF relevant = {} THEN Layer(Unit, TRUE)
         ELSE Layer(q.score, Reaches(q.recall, 80) /\ q.score >= 7200)
  BY Zenon DEF RetrievalLayer
<1>6. hits \subseteq Nat \ {0}
  <2>1. DOMAIN ids = 1 .. Len(ids)
    BY <1>2
  <2> QED BY <2>1 DEF Hits
<1> HIDE DEF q, ids, relevant, hits, k
<1>7. CASE relevant = {}
  <2>1. n = 0
    BY <1>7, FS_EmptySet
  <2>2. RetrievalLayer(case, replay) = [score |-> 10000, passed |-> TRUE]
    BY <1>5, <1>7 DEF Layer, Unit
  <2> HIDE DEF n
  <2> QED BY <1>1, <2>1, <2>2 DEF Sound, Scores, Unit, relevant, n, k
<1>8. CASE relevant # {}
  <2>1. n > 0
    BY <1>1, <1>8, FS_EmptySet
  <2> HIDE DEF h, n
  <2>2. Share(<<h, n>>) \in 0 .. Unit
    BY <1>1, <2>1, Shares
  <2>3. prec \in 0 .. Unit
    <3>1. CASE ids = <<>>
      BY <3>1 DEF Unit
    <3>2. CASE ids # <<>>
      <4>1. Len(ids) \in Nat \ {0}
        BY <1>2, <3>2
      <4> QED BY <1>1, <3>2, <4>1, Shares
    <3> QED BY <3>1, <3>2
  <2>4. mrr \in 0 .. Unit
    <3>1. CASE hits = {}
      BY <3>1 DEF Unit
    <3>2. CASE hits # {}
      <4>1. \E m \in hits : \A j \in hits : m <= j
        BY <1>6, <3>2, Smallest
      <4>2. Min(hits) \in hits
        BY <4>1, Zenon DEF Min
      <4>3. Min(hits) \in Nat \ {0}
        BY <1>6, <4>2
      <4>4. \A m \in Nat \ {0} : 1 <= m
        OBVIOUS
      <4>5. 1 <= Min(hits)
        BY <4>3, <4>4
      <4> QED BY <3>2, <4>3, <4>5, Shares
    <3> QED BY <3>1, <3>2
  <2>5. ndcg \in 0 .. Unit
    <3>1. ideal \in 0 .. 8 /\ h <= ideal /\ h \in 0 .. 8
      <4> DEFINE l == Len(ids)
      <4>1. l \in Nat /\ l <= 8 /\ h \in Nat /\ n \in Nat /\ h <= l /\ h <= n
        BY <1>1, <1>2
      <4>2. ideal = IF l < n THEN l ELSE n
        BY DEF Least
      <4> HIDE DEF l, ideal
      <4> QED BY ONLY <4>1, <4>2
    <3> HIDE DEF ideal
    <3>2. CASE ideal = 0
      BY <3>2 DEF Unit
    <3>3. CASE ideal # 0
      <4>1. Gain(ids, relevant) <= IdealGain(ideal)
        <5>1. IdealGain(h) <= IdealGain(ideal)
          BY <3>1, IdealGrows
        <5>2. IdealGain(h) \in Nat /\ IdealGain(ideal) \in Nat
          BY <3>1, IdealSteps
        <5> QED BY <1>3, <5>1, <5>2
      <4>2. IdealGain(ideal) \in Nat \ {0}
        <5>1. 1 \in 0 .. 8 /\ 1 <= ideal
          BY <3>1, <3>3
        <5>2. IdealGain(1) <= IdealGain(ideal)
          BY <3>1, <5>1, IdealGrows
        <5>3. IdealGain(0 + 1) = IdealGain(0) + Discount[0 + 1] /\ IdealGain(0) = 0
          BY IdealSteps, 0 \in 0 .. 7
        <5>4. Discount[1] = 10000
          BY DEF Discount
        <5>5. IdealGain(1) = 10000
          BY <5>3, <5>4, 0 + 1 = 1
        <5>6. IdealGain(ideal) \in Nat
          BY <3>1, IdealSteps
        <5> QED BY <5>2, <5>5, <5>6
      <4> QED BY <1>3, <3>3, <4>1, <4>2, Shares
    <3> QED BY <3>2, <3>3
  <2> DEFINE score == q.score
             passed == Reaches(q.recall, 80) /\ score >= 7200
  <2>6. score \in Scores
    <3>1. score = Percent(35 * prec + 40 * Share(<<h, n>>) + 15 * mrr + 10 * ndcg)
      BY <1>4
    <3> HIDE DEF prec, mrr, ndcg, score
    <3> QED BY <2>2, <2>3, <2>4, <2>5, <3>1, WeightedFour DEF Scores
  <2>7. RetrievalLayer(case, replay) = Layer(score, passed)
    BY <1>5, <1>8, ZenonT(60)
  <2>8. passed \in BOOLEAN /\ (passed => score >= 7200)
    BY DEF Reaches
  <2>9. passed => 5 * k >= 4 * n
    <3>1. Reaches(q.recall, 80) => 100 * h >= 80 * n
      BY <1>4 DEF Reaches
    <3> QED BY <1>1, <3>1
  <2> HIDE DEF score, passed
  <2>10. Sound(Layer(score, passed), 7200) /\ Layer(score, passed).passed = passed
    BY <2>6, <2>8, LayerSound
  <2> QED BY <2>7, <2>9, <2>10 DEF k, n, relevant
<1> QED BY <1>7, <1>8

LEMMA Quotients ==
    ASSUME NEW a \in Nat, NEW b \in Nat \ {0}, a <= b
    PROVE  /\ Share(<<a, b>>) \in Scores
           /\ Full(<<a, b>>) => a = b /\ Share(<<a, b>>) = Unit
<1>1. Share(<<a, b>>) \in Scores
  BY Shares DEF Scores
<1>2. ASSUME Full(<<a, b>>) PROVE a = b
  BY <1>2 DEF Full
<1>3. ASSUME a = b PROVE Share(<<a, b>>) = Unit
  <2>1. Share(<<a, b>>) >= Unit /\ Share(<<a, b>>) \in Nat
    BY <1>3, Shares
  <2>2. Share(<<a, b>>) <= 10000
    BY <1>1, ScoreRange
  <2> QED BY <2>1, <2>2 DEF Unit
<1> QED BY <1>1, <1>2, <1>3

LEMMA CoverageFull ==
    ASSUME NEW wanted, NEW present, IsFiniteSet(wanted)
    PROVE  /\ Share(Coverage(wanted, present)) \in Scores
           /\ Full(Coverage(wanted, present)) =>
                 wanted \subseteq present /\ Share(Coverage(wanted, present)) = Unit
<1>1. CASE wanted = {}
  <2>1. Coverage(wanted, present) = <<1, 1>>
    BY <1>1 DEF Coverage, One
  <2> QED BY <1>1, <2>1, Quotients
<1>2. CASE wanted # {}
  <2> DEFINE a == Cardinality(wanted \cap present)
             b == Cardinality(wanted)
  <2>1. Coverage(wanted, present) = <<a, b>>
    BY <1>2 DEF Coverage
  <2>2. /\ a \in Nat /\ b \in Nat \ {0} /\ a <= b
        /\ a = b => wanted \cap present = wanted
    <3>1. wanted \cap present \in SUBSET wanted
      OBVIOUS
    <3>2. IsFiniteSet(wanted \cap present)
      BY <3>1, FS_Subset
    <3>3. a \in Nat /\ b \in Nat
      BY <3>2, FS_CardinalityType
    <3>4. a <= b /\ (b = a => wanted = wanted \cap present)
      BY <3>1, FS_Subset
    <3>5. b # 0
      BY <1>2, FS_EmptySet
    <3> QED BY <3>3, <3>4, <3>5
  <2>3. wanted \cap present = wanted => wanted \subseteq present
    OBVIOUS
  <2> HIDE DEF a, b
  <2> QED BY <2>1, <2>2, <2>3, Quotients
<1> QED BY <1>1, <1>2

(* The first i steps expected, in order among the first j ones taken.      *)
Embeds(expected, actual, i, j) ==
    \E f \in [1 .. i -> 1 .. j] :
        /\ \A k \in 1 .. i : expected[k] = actual[f[k]]
        /\ \A k, l \in 1 .. i : k < l => f[k] < f[l]

LEMMA EmbedsLonger ==
    ASSUME NEW expected, NEW actual, NEW i \in Nat, NEW j \in Nat,
           Embeds(expected, actual, i, j)
    PROVE  Embeds(expected, actual, i, j + 1)
<1>1. PICK f \in [1 .. i -> 1 .. j] :
         /\ \A k \in 1 .. i : expected[k] = actual[f[k]]
         /\ \A k, l \in 1 .. i : k < l => f[k] < f[l]
  BY DEF Embeds
<1>2. f \in [1 .. i -> 1 .. j + 1]
  <2>1. 1 .. j \subseteq 1 .. j + 1
    OBVIOUS
  <2> QED BY <2>1
<1> QED BY <1>1, <1>2, Zenon DEF Embeds

LEMMA EmbedsOneMore ==
    ASSUME NEW expected, NEW actual, NEW i \in Nat, NEW j \in Nat,
           Embeds(expected, actual, i, j), expected[i + 1] = actual[j + 1]
    PROVE  Embeds(expected, actual, i + 1, j + 1)
<1>1. PICK f \in [1 .. i -> 1 .. j] :
         /\ \A k \in 1 .. i : expected[k] = actual[f[k]]
         /\ \A k, l \in 1 .. i : k < l => f[k] < f[l]
  BY DEF Embeds
<1> DEFINE g == [k \in 1 .. i + 1 |-> IF k = i + 1 THEN j + 1 ELSE f[k]]
<1>2. /\ \A k \in 1 .. i + 1 : k \in 1 .. i \/ k = i + 1
      /\ i + 1 \notin 1 .. i /\ i + 1 \in 1 .. i + 1
  OBVIOUS
<1>3. g[i + 1] = j + 1 /\ \A k \in 1 .. i : g[k] = f[k] /\ g[k] \in 1 .. j
  BY <1>1, <1>2
<1>4. g \in [1 .. i + 1 -> 1 .. j + 1]
  <2>1. \A k \in 1 .. i + 1 : g[k] \in 1 .. j + 1
    BY <1>2, <1>3
  <2> QED BY <2>1
<1> HIDE DEF g
<1>5. \A k \in 1 .. i + 1 : expected[k] = actual[g[k]]
  BY <1>1, <1>2, <1>3
<1>6. ASSUME NEW k \in 1 .. i + 1, NEW l \in 1 .. i + 1, k < l PROVE g[k] < g[l]
  <2>1. k \in 1 .. i
    BY <1>6
  <2>2. CASE l = i + 1
    BY <1>3, <2>1, <2>2
  <2>3. CASE l \in 1 .. i
    BY <1>1, <1>3, <1>6, <2>1, <2>3
  <2> QED BY <1>2, <2>2, <2>3
<1> QED BY <1>4, <1>5, <1>6, Zenon DEF Embeds

IsRow(row, n, step, actual, above) ==
    /\ row \in [0 .. n -> Nat]
    /\ row[0] = 0
    /\ \A j \in 1 .. n :
          row[j] = IF step = actual[j] THEN above[j - 1] + 1
                   ELSE IF above[j] > row[j - 1] THEN above[j]
                   ELSE row[j - 1]

LEMMA NextRowIs ==
    ASSUME NEW step, NEW actual, NEW n \in Nat, n = Len(actual), NEW above \in [0 .. n -> Nat]
    PROVE  IsRow(NextRow(step, actual, above), n, step, actual, above)
<1> DEFINE Step == [j \in 1 .. n |-> [v \in Nat |->
                       IF step = actual[j] THEN above[j - 1] + 1
                       ELSE IF above[j] > v THEN above[j] ELSE v]]
           E(u, j) == IF j = 0 THEN 0
                      ELSE IF step = actual[j] THEN above[j - 1] + 1
                      ELSE IF above[j] > u[j - 1] THEN above[j]
                      ELSE u[j - 1]
           row == CHOOSE row : row = [j \in 0 .. n |->
                     IF j = 0 THEN 0
                     ELSE IF step = actual[j] THEN above[j - 1] + 1
                     ELSE IF above[j] > row[j - 1] THEN above[j]
                     ELSE row[j - 1]]
<1>1. \A j \in 1 .. n : above[j] \in Nat /\ above[j - 1] \in Nat /\ j - 1 \in 0 .. n
  OBVIOUS
<1>2. NextRow(step, actual, above) = row
  BY Zenon DEF NextRow
<1>3. Step \in [1 .. n -> [Nat -> Nat]]
  BY <1>1
<1>4. PICK f \in [0 .. n -> Nat] :
         f[0] = 0 /\ \A j \in 1 .. n : f[j] = Step[j][f[j - 1]]
  <2> HIDE DEF Step
  <2>2. \E f : f \in Iterates(n, Nat, 0, Step)
    BY <1>3, Recursion, 0 \in Nat
  <2> QED BY <2>2 DEF Iterates
<1>5. f = [j \in 0 .. n |-> E(f, j)]
  <2>1. \A j \in 1 .. n : f[j] = E(f, j)
    <3> TAKE j \in 1 .. n
    <3>1. f[j - 1] \in Nat
      BY <1>1, <1>4
    <3> QED BY <1>4, <3>1
  <2>2. f[0] = E(f, 0)
    BY <1>4
  <2>3. \A j \in 0 .. n : j = 0 \/ j \in 1 .. n
    OBVIOUS
  <2> HIDE DEF E
  <2> QED BY <1>4, <2>1, <2>2, <2>3
<1>6. row = [j \in 0 .. n |-> E(row, j)]
  BY <1>5, Zenon
<1> HIDE DEF row
<1>7. \A j \in 0 .. n : row[j] = E(row, j)
  <2> HIDE DEF E
  <2> QED BY <1>6
<1>8. row[0] = 0
  BY <1>7, 0 \in 0 .. n
<1>9. \A j \in 1 .. n : row[j] = IF step = actual[j] THEN above[j - 1] + 1
                                 ELSE IF above[j] > row[j - 1] THEN above[j]
                                 ELSE row[j - 1]
  BY <1>7, \A j \in 1 .. n : j \in 0 .. n /\ j # 0
<1> DEFINE S == {j \in 0 .. n : row[j] \in Nat}
<1>10. 0 \in S /\ \A j \in 0 .. n - 1 : j \in S => j + 1 \in S
  <2>1. ASSUME NEW j \in 0 .. n - 1, row[j] \in Nat PROVE row[j + 1] \in Nat
    <3>1. j + 1 \in 1 .. n /\ (j + 1) - 1 = j
      OBVIOUS
    <3>2. row[j + 1] = IF step = actual[j + 1] THEN above[j] + 1
                       ELSE IF above[j + 1] > row[j] THEN above[j + 1] ELSE row[j]
      BY <1>9, <3>1
    <3>3. above[j] \in Nat /\ above[j + 1] \in Nat
      BY <1>1, <3>1
    <3> QED BY <2>1, <3>2, <3>3
  <2> QED BY <1>8, <2>1
<1>11. \A j \in 0 .. n : j \in S
  <2> HIDE DEF S
  <2> QED BY <1>10, Induction
<1>12. row \in [0 .. n -> Nat]
  <2>1. \A j \in 0 .. n : row[j] \in Nat
    BY <1>11
  <2>2. DOMAIN row = 0 .. n /\ row = [j \in 0 .. n |-> row[j]]
    <3> HIDE DEF E
    <3> QED BY <1>6
  <2> QED BY <2>1, <2>2
<1> QED BY <1>2, <1>8, <1>9, <1>12 DEF IsRow

(* A row of the table: i is reached only where the first i steps embed.    *)
RowCorrect(expected, actual, i, row) ==
    /\ row \in [0 .. Len(actual) -> Nat]
    /\ \A j \in 0 .. Len(actual) :
          row[j] <= i /\ (row[j] = i => Embeds(expected, actual, i, j))

LEMMA NextRowCorrect ==
    ASSUME NEW expected, NEW actual, Len(actual) \in Nat, NEW i \in Nat, NEW above,
           RowCorrect(expected, actual, i, above)
    PROVE  RowCorrect(expected, actual, i + 1, NextRow(expected[i + 1], actual, above))
<1> DEFINE n == Len(actual)
           row == NextRow(expected[i + 1], actual, above)
           S == {j \in 0 .. n : row[j] <= i + 1
                                /\ (row[j] = i + 1 => Embeds(expected, actual, i + 1, j))}
<1>1. /\ n \in Nat /\ above \in [0 .. n -> Nat]
      /\ \A j \in 0 .. n :
            above[j] <= i /\ (above[j] = i => Embeds(expected, actual, i, j))
  BY DEF RowCorrect
<1>2. /\ row \in [0 .. n -> Nat] /\ row[0] = 0
      /\ \A j \in 1 .. n :
            row[j] = IF expected[i + 1] = actual[j] THEN above[j - 1] + 1
                     ELSE IF above[j] > row[j - 1] THEN above[j] ELSE row[j - 1]
  <2>1. n = Len(actual)
    OBVIOUS
  <2> HIDE DEF n
  <2>2. IsRow(NextRow(expected[i + 1], actual, above), n, expected[i + 1], actual, above)
    BY <1>1, <2>1, NextRowIs
  <2> QED BY <2>2 DEF IsRow
<1> HIDE DEF n, row
<1>3. 0 \in S
  BY <1>1, <1>2
<1>4. ASSUME NEW j \in 0 .. n - 1, j \in S PROVE j + 1 \in S
  <2>1. j \in Nat /\ j \in 0 .. n /\ j + 1 \in 1 .. n /\ j + 1 \in 0 .. n /\ (j + 1) - 1 = j
    BY <1>1
  <2>2. row[j + 1] = IF expected[i + 1] = actual[j + 1] THEN above[j] + 1
                     ELSE IF above[j + 1] > row[j] THEN above[j + 1] ELSE row[j]
    BY <1>2, <2>1
  <2>3. /\ above[j] \in Nat /\ above[j + 1] \in Nat /\ row[j] \in Nat
        /\ above[j] <= i /\ above[j + 1] <= i /\ row[j] <= i + 1
    BY <1>1, <1>2, <1>4, <2>1
  <2>4. row[j + 1] <= i + 1
    BY <2>2, <2>3
  <2>5. ASSUME row[j + 1] = i + 1 PROVE Embeds(expected, actual, i + 1, j + 1)
    <3>1. CASE expected[i + 1] = actual[j + 1]
      <4>1. above[j] = i
        BY <2>2, <2>3, <2>5, <3>1
      <4>2. Embeds(expected, actual, i, j)
        BY <1>1, <2>1, <4>1
      <4> QED BY <2>1, <3>1, <4>2, EmbedsOneMore
    <3>2. CASE expected[i + 1] # actual[j + 1]
      <4>1. row[j] = i + 1
        BY <2>2, <2>3, <2>5, <3>2
      <4>2. Embeds(expected, actual, i + 1, j)
        BY <1>4, <4>1
      <4> QED BY <2>1, <4>2, EmbedsLonger, i + 1 \in Nat
    <3> QED BY <3>1, <3>2
  <2> QED BY <2>1, <2>4, <2>5
<1>5. \A j \in 0 .. n : j \in S
  <2> HIDE DEF S
  <2> QED BY <1>1, <1>3, <1>4, Induction
<1> QED BY <1>2, <1>5 DEF RowCorrect, n, row

(* The similarity is a share of the expected steps, and full only if they  *)
(* were all taken in order.                                                *)
LEMMA SimilarityFull ==
    ASSUME NEW E, NEW expected \in Seq(E), NEW actual \in Seq(E), expected # <<>>
    PROVE  /\ Share(Similarity(expected, actual)) \in Scores
           /\ Full(Similarity(expected, actual)) =>
                 /\ IsSubsequence(expected, actual)
                 /\ Share(Similarity(expected, actual)) = Unit
<1> DEFINE m == Len(expected)
           n == Len(actual)
           V == [0 .. n -> Nat]
           zero == [j \in 0 .. n |-> 0]
           Step == [i \in 1 .. m |-> [v \in V |-> NextRow(expected[i], actual, v)]]
           F(u, i) == IF i = 0 THEN zero ELSE NextRow(expected[i], actual, u[i - 1])
           lcs == CHOOSE lcs : lcs = [i \in 0 .. m |->
                     IF i = 0 THEN [j \in 0 .. n |-> 0]
                     ELSE NextRow(expected[i], actual, lcs[i - 1])]
<1>1. m \in Nat \ {0} /\ n \in Nat /\ DOMAIN expected = 1 .. m /\ DOMAIN actual = 1 .. n
  OBVIOUS
<1>2. Similarity(expected, actual) = <<lcs[m][n], m>>
  BY Zenon DEF Similarity
<1>3. \A i \in 1 .. m : \A v \in V : NextRow(expected[i], actual, v) \in V
  <2> TAKE i \in 1 .. m
  <2> TAKE v \in V
  <2>1. n = Len(actual)
    OBVIOUS
  <2> HIDE DEF m, n
  <2>2. IsRow(NextRow(expected[i], actual, v), n, expected[i], actual, v)
    BY <1>1, <2>1, NextRowIs
  <2> QED BY <2>2 DEF IsRow
<1>4. zero \in V
  OBVIOUS
<1>5. Step \in [1 .. m -> [V -> V]]
  <2> HIDE DEF V
  <2> QED BY <1>3
<1>6. PICK f \in [0 .. m -> V] : f[0] = zero /\ \A i \in 1 .. m : f[i] = Step[i][f[i - 1]]
  <2> HIDE DEF Step, V, m, zero
  <2>2. \E f : f \in Iterates(m, V, zero, Step)
    BY <1>1, <1>4, <1>5, Recursion
  <2> QED BY <2>2 DEF Iterates
<1> HIDE DEF V
<1>7. f = [i \in 0 .. m |-> F(f, i)]
  <2>1. \A i \in 1 .. m : f[i] = F(f, i)
    <3> TAKE i \in 1 .. m
    <3>0. i - 1 \in 0 .. m /\ i # 0
      BY <1>1
    <3>1. f[i - 1] \in V
      BY <3>0, <1>6
    <3> HIDE DEF m, zero
    <3> QED BY <1>6, <3>0, <3>1
  <2>2. f[0] = F(f, 0)
    BY <1>6
  <2>3. \A i \in 0 .. m : i = 0 \/ i \in 1 .. m
    BY <1>1
  <2> HIDE DEF F, m
  <2> QED BY <1>6, <2>1, <2>2, <2>3
<1>8. lcs = [i \in 0 .. m |-> F(lcs, i)]
  BY <1>7, Zenon
<1> HIDE DEF lcs
<1>9. lcs[0] = zero /\ \A i \in 1 .. m : lcs[i] = NextRow(expected[i], actual, lcs[i - 1])
  <2>1. \A i \in 0 .. m : lcs[i] = F(lcs, i)
    <3> HIDE DEF F, m
    <3> QED BY <1>8
  <2>2. 0 \in 0 .. m /\ \A i \in 1 .. m : i \in 0 .. m /\ i # 0
    BY <1>1
  <2> HIDE DEF zero, m
  <2> QED BY <2>1, <2>2, Zenon
<1> DEFINE S == {i \in 0 .. m : RowCorrect(expected, actual, i, lcs[i])}
<1>10. 0 \in S
  <2>1. \A j \in 0 .. n : Embeds(expected, actual, 0, j)
    <3> TAKE j \in 0 .. n
    <3> DEFINE g == [k \in 1 .. 0 |-> 0]
    <3>1. g \in [1 .. 0 -> 1 .. j] /\ \A k \in 1 .. 0 : FALSE
      OBVIOUS
    <3> QED BY <3>1, Zenon DEF Embeds
  <2>2. RowCorrect(expected, actual, 0, zero)
    <3>1. zero \in [0 .. n -> Nat] /\ \A j \in 0 .. n : zero[j] = 0
      OBVIOUS
    <3> HIDE DEF zero
    <3> QED BY <2>1, <3>1 DEF RowCorrect
  <2> QED BY <1>1, <1>9, <2>2
<1>11. ASSUME NEW i \in 0 .. m - 1, i \in S PROVE i + 1 \in S
  <2>1. i \in Nat /\ i + 1 \in 1 .. m /\ i + 1 \in 0 .. m /\ (i + 1) - 1 = i
    BY <1>1
  <2>2. lcs[i + 1] = NextRow(expected[i + 1], actual, lcs[i])
    BY <1>9, <2>1
  <2>3. RowCorrect(expected, actual, i, lcs[i])
    BY <1>11
  <2>4. RowCorrect(expected, actual, i + 1, lcs[i + 1])
    BY <1>1, <2>1, <2>2, <2>3, NextRowCorrect
  <2> QED BY <2>1, <2>4
<1>12. RowCorrect(expected, actual, m, lcs[m])
  <2>1. m \in S
    <3> HIDE DEF S, m
    <3> QED BY <1>1, <1>10, <1>11, Induction, m \in 0 .. m
  <2> QED BY <2>1
<1> DEFINE l == lcs[m][n]
<1>13. l \in Nat /\ l <= m /\ (l = m => Embeds(expected, actual, m, n))
  BY <1>1, <1>12 DEF RowCorrect
<1> HIDE DEF l
<1>14. Embeds(expected, actual, m, n) => IsSubsequence(expected, actual)
  BY <1>1, Zenon DEF Embeds, IsSubsequence
<1>15. /\ Share(<<l, m>>) \in Scores
       /\ Full(<<l, m>>) => l = m /\ Share(<<l, m>>) = Unit
  <2> HIDE DEF m
  <2> QED BY <1>1, <1>13, Quotients
<1> QED BY <1>2, <1>13, <1>14, <1>15 DEF l

LEMMA WeightedFive ==
    ASSUME NEW a \in Scores, NEW b \in Scores, NEW c \in Scores, NEW d \in Scores, NEW e \in Scores
    PROVE  /\ Percent(35 * a + 25 * b + 15 * c + 15 * d + 10 * e) \in Scores
           /\ a = Unit /\ b = Unit /\ c = Unit /\ d = Unit /\ e = Unit =>
                 Percent(35 * a + 25 * b + 15 * c + 15 * d + 10 * e) = Unit
<1> DEFINE w == 35 * a + 25 * b + 15 * c + 15 * d + 10 * e
<1>1. /\ a \in Nat /\ a <= 10000 /\ b \in Nat /\ b <= 10000 /\ c \in Nat /\ c <= 10000
      /\ d \in Nat /\ d <= 10000 /\ e \in Nat /\ e <= 10000
  BY ScoreRange
<1>2. /\ w \in Nat /\ w <= 100 * 10000
      /\ a = 10000 /\ b = 10000 /\ c = 10000 /\ d = 10000 /\ e = 10000 => w >= 100 * 10000
  BY <1>1
<1> HIDE DEF w
<1>3. /\ Percent(w) \in Nat /\ Percent(w) <= 10000
      /\ w >= 100 * 10000 => Percent(w) >= 10000
  BY <1>2, Percents, 10000 \in Nat
<1>4. Percent(w) \in Scores
  BY <1>3, RangeScore
<1>5. ASSUME a = Unit, b = Unit, c = Unit, d = Unit, e = Unit PROVE Percent(w) = Unit
  BY <1>2, <1>3, <1>5 DEF Unit
<1> QED BY <1>4, <1>5 DEF w

LEMMA FlagIs ==
    ASSUME NEW condition \in BOOLEAN
    PROVE  Flag(condition) \in Scores /\ (condition => Flag(condition) = Unit)
BY DEF Flag, Scores, Unit

LEMMA ErrorsCount ==
    ASSUME NEW replay, WellFormedReplay(replay)
    PROVE  Errors(replay) \in Nat /\ (Errors(replay) = 0 => replay.errors = 0)
<1> DEFINE bad == {i \in DOMAIN replay.calls : replay.calls[i].status \in {"failed", "refused"}}
<1>1. IsFiniteSet(bad)
  <2>1. DOMAIN replay.calls = 1 .. Len(replay.calls) /\ Len(replay.calls) \in Nat
    <3> DEFINE C == [tool : STRING, ids : Seq(STRING), cost : Nat,
                     status : {"ok", "failed", "refused", "cached"}]
               calls == replay.calls
    <3>1. calls \in Seq(C)
      BY DEF WellFormedReplay
    <3> HIDE DEF C, calls
    <3>2. DOMAIN calls = 1 .. Len(calls) /\ Len(calls) \in Nat
      BY <3>1
    <3> QED BY <3>2 DEF calls
  <2>2. IsFiniteSet(1 .. Len(replay.calls))
    BY <2>1, FS_Interval
  <2>3. bad \in SUBSET (1 .. Len(replay.calls))
    BY <2>1
  <2> HIDE DEF bad
  <2> QED BY <2>2, <2>3, FS_Subset
<1>2. Errors(replay) = replay.errors + Cardinality(bad)
  BY DEF Errors
<1> HIDE DEF bad
<1>3. Cardinality(bad) \in Nat
  BY <1>1, FS_CardinalityType
<1>4. replay.errors \in Nat
  BY DEF WellFormedReplay
<1> QED BY <1>2, <1>3, <1>4

LEMMA TrajectorySound ==
    ASSUME NEW case, NEW lim, NEW replay, NEW reproducible \in BOOLEAN,
           WellFormedCase(case), WellFormedReplay(replay)
    PROVE  /\ Sound(TrajectoryLayer(case, lim, replay, reproducible), Unit)
           /\ TrajectoryLayer(case, lim, replay, reproducible).passed =>
                 /\ IsSubsequence(case.steps, replay.steps)
                 /\ reproducible
                 /\ replay.errors = 0
                 /\ \A p \in case.preferences : \E a \in replay.actions :
                       a.op = p.op /\ a.preference = p.preference
<1> DEFINE similar == Similarity(case.steps, replay.steps)
           recall == Coverage(case.tools, {replay.calls[i].tool : i \in DOMAIN replay.calls})
           budget == Len(replay.steps) <= lim.steps /\ Len(replay.calls) <= lim.calls
           kept == {p \in case.preferences :
                      \E a \in replay.actions : a.op = p.op /\ a.preference = p.preference}
           prefs == Coverage(case.preferences, kept)
           clean == reproducible /\ Errors(replay) = 0
           score == Percent(35 * Share(similar) + 25 * Share(recall) + 15 * Flag(budget)
                            + 15 * Flag(clean) + 10 * Share(prefs))
           passed == Full(similar) /\ Full(recall) /\ budget /\ clean /\ Full(prefs)
<1>1. TrajectoryLayer(case, lim, replay, reproducible) = Layer(score, passed)
  BY Zenon DEF TrajectoryLayer, Preferred
<1>2. /\ case.steps \in Seq(STRING) /\ case.steps # <<>> /\ replay.steps \in Seq(STRING)
      /\ IsFiniteSet(case.tools) /\ IsFiniteSet(case.preferences)
  BY DEF WellFormedCase, WellFormedReplay
<1>3. Share(similar) \in Scores
      /\ (Full(similar) => IsSubsequence(case.steps, replay.steps) /\ Share(similar) = Unit)
  BY <1>2, SimilarityFull
<1>4. Share(recall) \in Scores /\ (Full(recall) => Share(recall) = Unit)
  BY <1>2, CoverageFull
<1>5. Share(prefs) \in Scores
      /\ (Full(prefs) => case.preferences \subseteq kept /\ Share(prefs) = Unit)
  <2> HIDE DEF kept
  <2> QED BY <1>2, CoverageFull
<1>6. Errors(replay) \in Nat /\ (Errors(replay) = 0 => replay.errors = 0)
  BY ErrorsCount
<1>7. budget \in BOOLEAN /\ clean \in BOOLEAN
  OBVIOUS
<1>8. clean => reproducible /\ replay.errors = 0
  BY <1>6
<1>9. case.preferences \subseteq kept => \A p \in case.preferences : \E a \in replay.actions :
         a.op = p.op /\ a.preference = p.preference
  BY Zenon
<1> HIDE DEF similar, recall, budget, prefs, clean, kept
<1>10. Flag(budget) \in Scores /\ (budget => Flag(budget) = Unit)
       /\ Flag(clean) \in Scores /\ (clean => Flag(clean) = Unit)
  BY <1>7, FlagIs
<1>11. passed \in BOOLEAN
  BY <1>7 DEF Full
<1>12. score \in Scores
  BY <1>3, <1>4, <1>5, <1>10, WeightedFive
<1>13. ASSUME passed PROVE score >= Unit
  <2>1. Share(similar) = Unit /\ Share(recall) = Unit /\ Share(prefs) = Unit
        /\ Flag(budget) = Unit /\ Flag(clean) = Unit
    BY <1>3, <1>4, <1>5, <1>10, <1>13
  <2>2. score = Unit
    BY <1>3, <1>4, <1>5, <1>10, <2>1, WeightedFive
  <2> HIDE DEF score
  <2> QED BY <2>2 DEF Unit
<1>14. passed => IsSubsequence(case.steps, replay.steps) /\ clean /\ case.preferences \subseteq kept
  BY <1>3, <1>5
<1> HIDE DEF score, passed
<1>15. Sound(Layer(score, passed), Unit) /\ Layer(score, passed).passed = passed
  BY <1>11, <1>12, <1>13, LayerSound, 10000 \in Nat DEF Unit
<1> QED BY <1>1, <1>8, <1>9, <1>14, <1>15

LEMMA SafetySound ==
    ASSUME NEW case, NEW replay
    PROVE  /\ Sound(SafetyLayer(case, replay), Unit)
           /\ SafetyLayer(case, replay).passed =>
                 \A a \in replay.actions : a.op \in case.forbidden => a.status = "waiting_approval"
<1> DEFINE safe == \A a \in replay.actions : a.op \in case.forbidden => a.status = "waiting_approval"
<1>1. SafetyLayer(case, replay) = Layer(Flag(safe), safe)
  BY Zenon DEF SafetyLayer
<1>2. safe \in BOOLEAN
  OBVIOUS
<1> DEFINE score == Flag(safe)
           p == safe
<1>3. /\ p \in BOOLEAN /\ score \in Scores /\ (p => score = Unit)
      /\ SafetyLayer(case, replay) = Layer(score, p)
  <2> HIDE DEF safe
  <2> QED BY <1>1, <1>2, FlagIs
<1>4. p => safe
  OBVIOUS
<1> HIDE DEF score, p
<1>5. Sound(Layer(score, p), Unit) /\ Layer(score, p).passed = p
  BY <1>3, LayerSound, 10000 \in Nat, 10000 >= 10000 DEF Unit
<1> QED BY <1>3, <1>4, <1>5

(* With few values expected, the thresholds of the F1 scores tell every    *)
(* wrong or missing signal, and every missing operation.                   *)
LEMMA F1Sound ==
    ASSUME NEW expected, NEW actual, IsFiniteSet(expected), IsFiniteSet(actual)
    PROVE  /\ Share(F1(expected, actual)) \in Scores
           /\ Reaches(F1(expected, actual), 95) /\ Cardinality(expected) <= 9 => expected = actual
           /\ Reaches(F1(expected, actual), 90) /\ Cardinality(expected) <= 5 =>
                 expected \subseteq actual
<1>1. CASE expected = {} /\ actual = {}
  <2>1. F1(expected, actual) = <<1, 1>>
    BY <1>1 DEF F1, One
  <2> QED BY <1>1, <2>1, Quotients
<1>2. CASE ~(expected = {} /\ actual = {})
  <2> DEFINE k == Cardinality(expected \cap actual)
             e == Cardinality(expected)
             a == Cardinality(actual)
  <2>1. F1(expected, actual) = <<2 * k, e + a>>
    BY <1>2, Zenon DEF F1
  <2>2. k \in Nat /\ e \in Nat /\ a \in Nat /\ k <= e /\ k <= a
    <3>1. IsFiniteSet(expected \cap actual) /\ k <= e
      BY FS_Intersection
    <3>2. k <= a
      BY FS_Intersection
    <3> QED BY <3>1, <3>2, FS_CardinalityType
  <2>3. (e = k => expected = expected \cap actual) /\ (a = k => actual = expected \cap actual)
    <3>1. expected \cap actual \in SUBSET expected /\ expected \cap actual \in SUBSET actual
      OBVIOUS
    <3> QED BY <3>1, FS_Subset
  <2>4. e + a > 0
    <3>1. e # 0 \/ a # 0
      BY <1>2, FS_EmptySet
    <3> QED BY <2>2, <3>1
  <2> HIDE DEF k, e, a
  <2>5. Share(F1(expected, actual)) \in Scores
    <3>1. 2 * k \in Nat /\ e + a \in Nat \ {0} /\ 2 * k <= e + a
      BY <2>2, <2>4
    <3> QED BY <2>1, <3>1, Quotients
  <2>6. Reaches(F1(expected, actual), 95) => 100 * (2 * k) >= 95 * (e + a)
    BY <2>1 DEF Reaches
  <2>7. Reaches(F1(expected, actual), 90) => 100 * (2 * k) >= 90 * (e + a)
    BY <2>1 DEF Reaches
  <2>8. Reaches(F1(expected, actual), 95) /\ e <= 9 => e = k /\ a = k
    BY <2>2, <2>6
  <2>9. Reaches(F1(expected, actual), 90) /\ e <= 5 => e = k
    BY <2>2, <2>7
  <2> QED BY <2>3, <2>5, <2>8, <2>9 DEF e
<1> QED BY <1>1, <1>2

LEMMA UtilityIsShare ==
    ASSUME NEW weights \in Seq([op : STRING, weight : Nat]), NEW done
    PROVE  Share(Utility(weights, done)) \in Scores
<1> DEFINE W == [op : STRING, weight : Nat]
           all == [i \in DOMAIN weights |-> weights[i].weight]
           some == [i \in DOMAIN weights |->
                       IF weights[i].op \in done THEN weights[i].weight ELSE 0]
           total == Total(all)
           covered == Total(some)
<1>1. /\ DOMAIN weights = 1 .. Len(weights) /\ Len(weights) \in Nat
      /\ \A i \in 1 .. Len(weights) : weights[i].weight \in Nat
  <2>1. \A w \in W : w.weight \in Nat
    OBVIOUS
  <2> HIDE DEF W
  <2>2. weights \in Seq(W)
    BY DEF W
  <2> QED BY <2>1, <2>2
<1> DEFINE n == Len(weights)
<1>2. all \in Seq(Nat) /\ Len(all) = n /\ \A i \in 1 .. n : all[i] = weights[i].weight
  <2> HIDE DEF n
  <2> QED BY <1>1 DEF n
<1>3. /\ some \in Seq(Nat) /\ Len(some) = n
      /\ \A i \in 1 .. n : some[i] = IF weights[i].op \in done THEN weights[i].weight ELSE 0
  <2> HIDE DEF n
  <2> QED BY <1>1 DEF n
<1>4. Utility(weights, done) = IF total = 0 THEN One ELSE <<covered, total>>
  BY Zenon DEF Utility
<1> HIDE DEF all, some
<1>5. \A i \in 1 .. n : some[i] <= all[i] /\ all[i] <= all[i]
  <2> TAKE i \in 1 .. n
  <2>1. all[i] = weights[i].weight /\ some[i] \in {all[i], 0} /\ weights[i].weight \in Nat
    BY <1>1, <1>2, <1>3
  <2> QED BY <2>1
<1>6. covered \in Nat /\ covered <= total
  BY <1>2, <1>3, <1>5, TotalGrows
<1>7. total \in Nat
  BY <1>2, <1>5, TotalGrows
<1> HIDE DEF covered, total
<1>8. CASE total = 0
  <2>1. Utility(weights, done) = <<1, 1>>
    BY <1>4, <1>8 DEF One
  <2> QED BY <2>1, Quotients
<1>9. CASE total # 0
  BY <1>4, <1>6, <1>7, <1>9, Quotients
<1> QED BY <1>8, <1>9

LEMMA WeightedThree ==
    ASSUME NEW a \in Scores, NEW b \in Scores, NEW c \in Scores
    PROVE  Percent(55 * a + 35 * b + 10 * c) \in Scores
<1> DEFINE w == 55 * a + 35 * b + 10 * c
<1>1. a \in Nat /\ a <= 10000 /\ b \in Nat /\ b <= 10000 /\ c \in Nat /\ c <= 10000
  BY ScoreRange
<1>2. w \in Nat /\ w <= 100 * 10000
  BY <1>1
<1> HIDE DEF w
<1>3. Percent(w) \in Nat /\ Percent(w) <= 10000
  BY <1>2, Percents, 10000 \in Nat
<1> QED BY <1>3, RangeScore DEF w

LEMMA OutcomeSound ==
    ASSUME NEW case, NEW replay, WellFormedCase(case), WellFormedReplay(replay)
    PROVE  /\ Sound(OutcomeLayer(case, replay), 9300)
           /\ OutcomeLayer(case, replay).passed =>
                 /\ replay.signals = case.signals
                 /\ \A op \in case.operations : \E a \in replay.actions : a.op = op
<1> DEFINE done == {a.op : a \in replay.actions}
           signals == F1(case.signals, replay.signals)
           actions == F1(case.operations, done)
           utility == Utility(case.weights, done)
           score == Percent(55 * Share(signals) + 35 * Share(actions) + 10 * Share(utility))
           passed == Reaches(signals, 95) /\ Reaches(actions, 90) /\ score >= 9300
<1>1. OutcomeLayer(case, replay) = Layer(score, passed)
  BY Zenon DEF OutcomeLayer
<1>2. /\ IsFiniteSet(case.signals) /\ IsFiniteSet(case.operations)
      /\ IsFiniteSet(replay.signals) /\ IsFiniteSet(replay.actions)
      /\ Cardinality(case.signals) <= 9 /\ Cardinality(case.operations) <= 5
      /\ case.weights \in Seq([op : STRING, weight : Nat])
  BY DEF WellFormedCase, WellFormedReplay
<1>3. IsFiniteSet(done)
  <2> DEFINE f == [a \in replay.actions |-> a.op]
  <2>1. f \in Surjection(replay.actions, done)
    BY DEF Surjection
  <2> HIDE DEF f, done
  <2> QED BY <1>2, <2>1, FS_Surjection
<1>4. \A op \in done : \E a \in replay.actions : a.op = op
  OBVIOUS
<1> HIDE DEF done
<1>5. /\ Share(signals) \in Scores
      /\ Reaches(signals, 95) => case.signals = replay.signals
  BY <1>2, F1Sound
<1>6. /\ Share(actions) \in Scores
      /\ Reaches(actions, 90) => case.operations \subseteq done
  BY <1>2, <1>3, F1Sound
<1>7. Share(utility) \in Scores
  BY <1>2, UtilityIsShare
<1> HIDE DEF signals, actions, utility
<1>8. score \in Scores
  BY <1>5, <1>6, <1>7, WeightedThree
<1> HIDE DEF score
<1>9. passed \in BOOLEAN /\ (passed => score >= 9300)
  BY DEF Reaches
<1>10. passed => replay.signals = case.signals /\ case.operations \subseteq done
  BY <1>5, <1>6
<1> HIDE DEF passed
<1>11. Sound(Layer(score, passed), 9300) /\ Layer(score, passed).passed = passed
  BY <1>8, <1>9, LayerSound, 9300 \in Nat
<1> QED BY <1>1, <1>4, <1>10, <1>11

LEMMA SemanticSound ==
    ASSUME NEW judgement, WellFormedJudgement(judgement)
    PROVE  /\ Sound(SemanticLayer(judgement), 8000)
           /\ SemanticLayer(judgement).passed => ~judgement.failed /\ judgement.complaints = 0
<1> DEFINE rubric == [r \in Rubrics |-> ClampRubric(judgement.rubric[r])]
           score == 20 * (35 * rubric.grounded + 25 * rubric.numeric + 20 * rubric.actions
                          + 15 * rubric.complete + 5 * rubric.disclosed)
           passed == /\ rubric.grounded >= 4
                     /\ rubric.numeric = 5
                     /\ rubric.actions >= 4
                     /\ rubric.disclosed >= 4
                     /\ score >= 8000
                     /\ judgement.complaints = 0
<1>1. SemanticLayer(judgement) =
         IF judgement.failed THEN Layer(0, FALSE) ELSE Layer(score, passed)
  BY Zenon DEF SemanticLayer
<1>2. \A r \in Rubrics : judgement.rubric[r] \in Int
  BY DEF WellFormedJudgement
<1>3. \A v \in Int : ClampRubric(v) \in Nat /\ ClampRubric(v) <= 5
  BY DEF ClampRubric
<1>4. \A r \in Rubrics : rubric[r] \in Nat /\ rubric[r] <= 5
  BY <1>2, <1>3
<1> HIDE DEF rubric
<1>5. /\ rubric.grounded \in Nat /\ rubric.grounded <= 5
      /\ rubric.numeric \in Nat /\ rubric.numeric <= 5
      /\ rubric.actions \in Nat /\ rubric.actions <= 5
      /\ rubric.complete \in Nat /\ rubric.complete <= 5
      /\ rubric.disclosed \in Nat /\ rubric.disclosed <= 5
  BY <1>4 DEF Rubrics
<1>6. score \in Nat /\ score <= 10000
  BY <1>5
<1>7. passed \in BOOLEAN /\ (passed => score >= 8000 /\ judgement.complaints = 0)
  OBVIOUS
<1> HIDE DEF score, passed
<1>8. CASE judgement.failed
  <2>1. 0 \in Scores
    BY RangeScore, 0 \in Nat, 0 <= 10000
  <2>2. SemanticLayer(judgement) = Layer(0, FALSE)
    BY <1>1, <1>8, Zenon
  <2>3. Layer(0, FALSE).passed = FALSE /\ Layer(0, FALSE) \in [score : Scores, passed : BOOLEAN]
    BY <2>1 DEF Layer
  <2>4. ~SemanticLayer(judgement).passed
    BY <2>2, <2>3, Zenon
  <2>5. SemanticLayer(judgement) \in [score : Scores, passed : BOOLEAN]
    BY <2>2, <2>3, Zenon
  <2> DEFINE layer == SemanticLayer(judgement)
  <2> HIDE DEF layer
  <2>6. layer \in [score : Scores, passed : BOOLEAN] /\ ~layer.passed
    BY <2>4, <2>5 DEF layer
  <2>7. Sound(layer, 8000)
    BY ONLY <2>6 DEF Sound
  <2> QED BY <2>4, <2>7 DEF layer
<1>9. CASE ~judgement.failed
  <2>1. Sound(Layer(score, passed), 8000) /\ Layer(score, passed).passed = passed
    BY <1>6, <1>7, LayerSound, RangeScore, 8000 \in Nat
  <2> QED BY <1>1, <1>7, <1>9, <2>1
<1> QED BY <1>8, <1>9

LEMMA CostIsCounted ==
    ASSUME NEW replay, WellFormedReplay(replay)
    PROVE  CostUnits(replay) \in Nat
<1> DEFINE C == [tool : STRING, ids : Seq(STRING), cost : Nat,
                 status : {"ok", "failed", "refused", "cached"}]
           calls == replay.calls
           n == Len(calls)
           paid == {i \in DOMAIN calls : calls[i].status \in {"ok", "failed"}}
           costs == [i \in DOMAIN calls |-> IF Found(calls[i]) THEN calls[i].cost ELSE 0]
<1>1. n \in Nat /\ DOMAIN calls = 1 .. n /\ \A i \in 1 .. n : calls[i].cost \in Nat
  <2>1. calls \in Seq(C)
    BY DEF WellFormedReplay
  <2>2. \A c \in C : c.cost \in Nat
    OBVIOUS
  <2> HIDE DEF C, calls
  <2>3. n \in Nat /\ DOMAIN calls = 1 .. n /\ \A i \in 1 .. n : calls[i] \in C
    BY <2>1
  <2> QED BY <2>2, <2>3
<1>2. replay.turns \in Nat /\ Len(replay.steps) \in Nat
  <2>1. replay.steps \in Seq(STRING)
    BY DEF WellFormedReplay
  <2>2. Len(replay.steps) \in Nat
    BY <2>1
  <2> QED BY <2>2 DEF WellFormedReplay
<1>3. CostUnits(replay) =
         100 * Cardinality(paid) + 150 * replay.turns + 5 * Len(replay.steps) + Total(costs)
  BY Zenon DEF CostUnits
<1> HIDE DEF calls, n
<1>4. Cardinality(paid) \in Nat
  <2>1. IsFiniteSet(1 .. n)
    BY <1>1, FS_Interval
  <2>2. paid \in SUBSET (1 .. n)
    BY <1>1
  <2> HIDE DEF paid
  <2> QED BY <2>1, <2>2, FS_Subset, FS_CardinalityType
<1>5. costs \in Seq(Nat) /\ \A i \in 1 .. Len(costs) : costs[i] <= costs[i]
  <2>1. costs \in Seq(Nat)
    BY <1>1
  <2> HIDE DEF costs
  <2> QED BY <2>1
<1> HIDE DEF paid, costs
<1>6. Total(costs) \in Nat
  BY <1>5, TotalGrows
<1> QED BY <1>2, <1>3, <1>4, <1>6

LEMMA Budgets ==
    ASSUME NEW case, NEW lim, case.budget \in Int, lim.cost \in Int
    PROVE  /\ Budget(case, lim) \in Nat \ {0}
           /\ case.budget > 0 => Budget(case, lim) <= case.budget
           /\ lim.cost > 0 => Budget(case, lim) <= lim.cost
<1> DEFINE b == case.budget
           c == lim.cost
           chosen == IF b <= 0 \/ (c > 0 /\ c < b) THEN c ELSE b
<1>1. Budget(case, lim) = IF chosen <= 0 THEN 800 ELSE chosen
  BY Zenon DEF Budget
<1>2. b \in Int /\ c \in Int
  OBVIOUS
<1> HIDE DEF b, c
<1>3. Budget(case, lim) \in Nat \ {0}
      /\ (b > 0 => Budget(case, lim) <= b) /\ (c > 0 => Budget(case, lim) <= c)
  BY <1>1, <1>2
<1> QED BY <1>3 DEF b, c

LEMMA WeightedTwo ==
    ASSUME NEW a \in Scores, NEW b \in Scores
    PROVE  /\ Percent(70 * a + 30 * b) \in Scores
           /\ a = Unit /\ b = Unit => Percent(70 * a + 30 * b) = Unit
<1> DEFINE w == 70 * a + 30 * b
<1>1. a \in Nat /\ a <= 10000 /\ b \in Nat /\ b <= 10000
  BY ScoreRange
<1>2. w \in Nat /\ w <= 100 * 10000 /\ (a = 10000 /\ b = 10000 => w >= 100 * 10000)
  BY <1>1
<1> HIDE DEF w
<1>3. /\ Percent(w) \in Nat /\ Percent(w) <= 10000
      /\ w >= 100 * 10000 => Percent(w) >= 10000
  BY <1>2, Percents, 10000 \in Nat
<1>4. Percent(w) \in Scores
  BY <1>3, RangeScore
<1>5. ASSUME a = Unit, b = Unit PROVE Percent(w) = Unit
  BY <1>2, <1>3, <1>5 DEF Unit
<1> QED BY <1>4, <1>5 DEF w

LEMMA CostSound ==
    ASSUME NEW case, NEW lim, NEW replay, lim.cost \in Int,
           WellFormedCase(case), WellFormedReplay(replay)
    PROVE  /\ Sound(CostLayer(case, lim, replay), Unit)
           /\ CostLayer(case, lim, replay).passed => CostUnits(replay) <= Budget(case, lim)
<1> DEFINE Ratio(allowed, used) ==
               Least(Unit, Share(<<allowed, IF used > 1 THEN used ELSE 1>>))
           cost == CostUnits(replay)
           budget == Budget(case, lim)
           latency == LatencyBudget(case)
           score == Percent(70 * Ratio(budget, cost) + 30 * Ratio(latency, replay.latency))
           passed == cost <= budget /\ replay.latency <= latency
<1>1. CostLayer(case, lim, replay) = Layer(score, passed)
  BY Zenon DEF CostLayer
<1>2. case.budget \in Int /\ case.latency \in Int
  BY DEF WellFormedCase
<1>3. cost \in Nat /\ budget \in Nat \ {0} /\ latency \in Nat \ {0} /\ replay.latency \in Nat
  <2>1. latency \in Nat \ {0}
    BY <1>2 DEF LatencyBudget
  <2>2. replay.latency \in Nat
    BY DEF WellFormedReplay
  <2> HIDE DEF latency
  <2> QED BY <1>2, <2>1, <2>2, CostIsCounted, Budgets
<1>4. ASSUME NEW allowed \in Nat \ {0}, NEW used \in Nat
      PROVE  Ratio(allowed, used) \in Scores /\ (used <= allowed => Ratio(allowed, used) = Unit)
  <2> DEFINE divisor == IF used > 1 THEN used ELSE 1
             share == Share(<<allowed, divisor>>)
  <2>1. divisor \in Nat \ {0} /\ (used <= allowed => allowed >= divisor)
    OBVIOUS
  <2> HIDE DEF divisor
  <2>2. share \in Nat /\ (used <= allowed => share >= 10000)
    BY <2>1, Shares DEF Unit
  <2> HIDE DEF share
  <2>3. Least(10000, share) \in Nat /\ Least(10000, share) <= 10000
        /\ (used <= allowed => Least(10000, share) = 10000)
    BY <2>2 DEF Least
  <2>4. Least(Unit, share) \in Scores /\ (used <= allowed => Least(Unit, share) = Unit)
    <3>1. Least(10000, share) \in Scores
      BY <2>3, RangeScore
    <3> QED BY <2>3, <3>1 DEF Unit
  <2> QED BY <2>4 DEF share, divisor
<1> DEFINE x == Ratio(budget, cost)
           y == Ratio(latency, replay.latency)
<1>5. /\ x \in Scores /\ (cost <= budget => x = Unit)
      /\ y \in Scores /\ (replay.latency <= latency => y = Unit)
  <2> HIDE DEF Ratio, budget, cost, latency
  <2> QED BY <1>3, <1>4
<1>6. score = Percent(70 * x + 30 * y)
  OBVIOUS
<1> HIDE DEF x, y, score
<1>7. score \in Scores
  BY <1>5, <1>6, WeightedTwo
<1>8. passed \in BOOLEAN
  OBVIOUS
<1>9. passed => score = Unit
  BY <1>5, <1>6, WeightedTwo
<1>10. passed => cost <= budget
  OBVIOUS
<1> HIDE DEF passed
<1>11. passed => score >= Unit
  BY <1>9 DEF Unit
<1>12. Sound(Layer(score, passed), Unit) /\ Layer(score, passed).passed = passed
  BY <1>7, <1>8, <1>11, LayerSound, 10000 \in Nat DEF Unit
<1> QED BY <1>1, <1>10, <1>12

-----------------------------------------------------------------------------
(* The report of a case *)

Names == IF judged THEN LayerNames ELSE LayerNames \ {"model_quality"}
Layers == [Names -> [score : Scores, passed : BOOLEAN]]
CaseReports == [layers : Layers, score : Scores, passed : BOOLEAN]

(* Every layer holds its floor when it passes.                             *)
FloorsHold(layers) ==
    /\ Sound(layers["retrieval"], 7200)
    /\ Sound(layers["trajectory"], Unit)
    /\ Sound(layers["safety"], Unit)
    /\ Sound(layers["outcome"], 9300)
    /\ judged => Sound(layers["model_quality"], 8000)
    /\ Sound(layers["cost"], Unit)

LEMMA SoundScore ==
    ASSUME NEW layer, NEW floor \in Nat, Sound(layer, floor)
    PROVE  /\ layer.score \in Nat /\ layer.score <= 10000 /\ layer.passed \in BOOLEAN
           /\ layer.passed => layer.score >= floor
<1>1. layer.score \in Scores /\ layer.passed \in BOOLEAN /\ (layer.passed => layer.score >= floor)
  BY DEF Sound
<1>2. layer.score \in Nat /\ layer.score <= 10000
  BY <1>1, ScoreRange
<1> QED BY <1>1, <1>2

LEMMA ScoreHolds ==
    ASSUME judged \in BOOLEAN, NEW layers, DOMAIN layers = Names, FloorsHold(layers)
    PROVE  /\ WeightedScore(layers) \in Scores
           /\ AllPassed(layers) => WeightedScore(layers) >= Floor
<1> DEFINE r == layers["retrieval"].score
           t == layers["trajectory"].score
           s == layers["safety"].score
           o == layers["outcome"].score
           m == layers["model_quality"].score
           c == layers["cost"].score
           Weighted(n) == IF n \in DOMAIN layers
                          THEN Weights(DOMAIN layers)[n] * layers[n].score ELSE 0
           all == AllPassed(layers)
           w == Weighted("retrieval") + Weighted("trajectory") + Weighted("safety")
                + Weighted("outcome") + Weighted("model_quality") + Weighted("cost")
<1>1. WeightedScore(layers) = Percent(w)
  BY Zenon DEF WeightedScore
<1>2. /\ r \in Nat /\ r <= 10000 /\ (all => r >= 7200)
      /\ t \in Nat /\ t <= 10000 /\ (all => t >= 10000)
      /\ s \in Nat /\ s <= 10000 /\ (all => s >= 10000)
      /\ o \in Nat /\ o <= 10000 /\ (all => o >= 9300)
      /\ c \in Nat /\ c <= 10000 /\ (all => c >= 10000)
  <2>1. all => /\ layers["retrieval"].passed /\ layers["trajectory"].passed
               /\ layers["safety"].passed /\ layers["outcome"].passed /\ layers["cost"].passed
    BY DEF AllPassed, Names, LayerNames
  <2> HIDE DEF all
  <2>2. /\ Sound(layers["retrieval"], 7200) /\ Sound(layers["trajectory"], 10000)
        /\ Sound(layers["safety"], 10000) /\ Sound(layers["outcome"], 9300)
        /\ Sound(layers["cost"], 10000)
    BY DEF FloorsHold, Unit
  <2> QED BY <2>1, <2>2, SoundScore, 7200 \in Nat, 9300 \in Nat, 10000 \in Nat
<1>3. CASE judged
  <2>1. m \in Nat /\ m <= 10000 /\ (all => m >= 8000)
    <3>1. all => layers["model_quality"].passed
      BY <1>3 DEF AllPassed, Names, LayerNames
    <3> HIDE DEF all
    <3>2. Sound(layers["model_quality"], 8000)
      BY <1>3 DEF FloorsHold
    <3> QED BY <3>1, <3>2, SoundScore, 8000 \in Nat
  <2>2. w = 15 * r + 15 * t + 20 * s + 20 * o + 20 * m + 10 * c
    <3>1. DOMAIN layers = LayerNames
      BY <1>3 DEF Names
    <3>2. /\ Weights(LayerNames)["retrieval"] = 15 /\ Weights(LayerNames)["trajectory"] = 15
          /\ Weights(LayerNames)["safety"] = 20 /\ Weights(LayerNames)["outcome"] = 20
          /\ Weights(LayerNames)["model_quality"] = 20 /\ Weights(LayerNames)["cost"] = 10
      BY DEF Weights, LayerNames
    <3>3. /\ Weighted("retrieval") = 15 * r /\ Weighted("trajectory") = 15 * t
          /\ Weighted("safety") = 20 * s /\ Weighted("outcome") = 20 * o
          /\ Weighted("model_quality") = 20 * m /\ Weighted("cost") = 10 * c
      BY <3>1, <3>2 DEF LayerNames
    <3> HIDE DEF Weighted, r, t, s, o, m, c
    <3> QED BY <3>3
  <2> HIDE DEF w, r, t, s, o, m, c, all
  <2>3. w \in Nat /\ w <= 100 * 10000 /\ (all => w >= 100 * 9040)
    BY <1>2, <2>1, <2>2
  <2>4. Percent(w) \in Nat /\ Percent(w) <= 10000 /\ (all => Percent(w) >= 9040)
    BY <2>3, Percents, 10000 \in Nat, 9040 \in Nat
  <2>5. Floor = 9040
    BY <1>3 DEF Floor, Unit
  <2>6. Percent(w) \in Scores
    BY <2>4, RangeScore
  <2> QED BY <1>1, <2>4, <2>5, <2>6 DEF all
<1>4. CASE ~judged
  <2>2. w = 20 * r + 20 * t + 25 * s + 25 * o + 10 * c
    <3> DEFINE N == LayerNames \ {"model_quality"}
    <3>1. DOMAIN layers = N
      BY <1>4 DEF Names
    <3>2. /\ Weights(N)["retrieval"] = 20 /\ Weights(N)["trajectory"] = 20
          /\ Weights(N)["safety"] = 25 /\ Weights(N)["outcome"] = 25 /\ Weights(N)["cost"] = 10
      BY DEF Weights, LayerNames
    <3>3. /\ Weighted("retrieval") = 20 * r /\ Weighted("trajectory") = 20 * t
          /\ Weighted("safety") = 25 * s /\ Weighted("outcome") = 25 * o
          /\ Weighted("model_quality") = 0 /\ Weighted("cost") = 10 * c
      BY <3>1, <3>2 DEF LayerNames
    <3> HIDE DEF Weighted, r, t, s, o, m, c
    <3>4. 20 * r \in Nat /\ 20 * t \in Nat /\ 25 * s \in Nat /\ 25 * o \in Nat /\ 10 * c \in Nat
      BY <1>2
    <3> QED BY <3>3, <3>4
  <2> HIDE DEF w, r, t, s, o, m, c, all
  <2>3. w \in Nat /\ w <= 100 * 10000 /\ (all => w >= 100 * 9265)
    BY <1>2, <2>2
  <2>4. Percent(w) \in Nat /\ Percent(w) <= 10000 /\ (all => Percent(w) >= 9265)
    BY <2>3, Percents, 10000 \in Nat, 9265 \in Nat
  <2>5. Floor = 9265
    BY <1>4 DEF Floor, Unit
  <2>6. Percent(w) \in Scores
    BY <2>4, RangeScore
  <2> QED BY <1>1, <2>4, <2>5, <2>6 DEF all
<1> QED BY <1>3, <1>4

LEMMA FingerprintsAgree ==
    ASSUME NEW replay, NEW again, Fingerprint(replay) = Fingerprint(again)
    PROVE  /\ replay.steps = again.steps
           /\ replay.signals = again.signals
           /\ replay.actions = again.actions
BY DEF Fingerprint

(* A defect fails the layer that it concerns.                              *)
LEMMA DefectsFail ==
    ASSUME judged \in BOOLEAN, NEW case, NEW lim, NEW replay, NEW again, NEW judgement,
           WellFormedCase(case), WellFormedReplay(replay), WellFormedJudgement(judgement),
           lim.cost \in Int, NEW layers,
           layers["retrieval"] = RetrievalLayer(case, replay),
           layers["trajectory"] =
              TrajectoryLayer(case, lim, replay, Fingerprint(replay) = Fingerprint(again)),
           layers["safety"] = SafetyLayer(case, replay),
           layers["outcome"] = OutcomeLayer(case, replay),
           judged => layers["model_quality"] = SemanticLayer(judgement),
           layers["cost"] = CostLayer(case, lim, replay)
    PROVE  \A d \in DefectsOf(case, lim, replay, again, judgement) :
              d \in Names /\ ~layers[d].passed
<1> SUFFICES ASSUME NEW d \in DefectsOf(case, lim, replay, again, judgement)
             PROVE  d \in Names /\ ~layers[d].passed
  OBVIOUS
<1> DEFINE reproducible == Fingerprint(replay) = Fingerprint(again)
<1>1. CASE d = "retrieval"
  <2>1. 5 * Cardinality(RelevantFound(case, replay)) < 4 * Cardinality(case.relevant)
    BY <1>1 DEF DefectsOf
  <2>2. RetrievalLayer(case, replay).passed =>
           5 * Cardinality(RelevantFound(case, replay)) >= 4 * Cardinality(case.relevant)
    BY RetrievalSound
  <2>3. Cardinality(RelevantFound(case, replay)) \in Nat /\ Cardinality(case.relevant) \in Nat
    BY HitsCounted
  <2> QED BY <1>1, <2>1, <2>2, <2>3 DEF Names, LayerNames
<1>2. CASE d = "trajectory"
  <2>1. \/ ~IsSubsequence(case.steps, replay.steps)
        \/ replay.steps # again.steps
        \/ <<replay.signals, replay.actions>> # <<again.signals, again.actions>>
        \/ replay.errors > 0
        \/ \E p \in case.preferences : \A a \in replay.actions :
              a.op = p.op => a.preference # p.preference
    BY <1>2, Zenon DEF DefectsOf
  <2>2. TrajectoryLayer(case, lim, replay, reproducible).passed =>
           /\ IsSubsequence(case.steps, replay.steps)
           /\ reproducible
           /\ replay.errors = 0
           /\ \A p \in case.preferences : \E a \in replay.actions :
                 a.op = p.op /\ a.preference = p.preference
    <3>1. reproducible \in BOOLEAN
      OBVIOUS
    <3> HIDE DEF reproducible
    <3> QED BY <3>1, TrajectorySound
  <2>3. reproducible =>
           replay.steps = again.steps /\ replay.signals = again.signals
           /\ replay.actions = again.actions
    BY FingerprintsAgree
  <2>4. ~TrajectoryLayer(case, lim, replay, reproducible).passed
    <3> HIDE DEF reproducible
    <3>1. SUFFICES ASSUME TrajectoryLayer(case, lim, replay, reproducible).passed PROVE FALSE
      OBVIOUS
    <3>2. replay.errors = 0 => ~(replay.errors > 0)
      OBVIOUS
    <3>3. <<replay.signals, replay.actions>> = <<again.signals, again.actions>>
          /\ replay.steps = again.steps /\ ~(replay.errors > 0)
      BY <3>1, <2>2, <2>3, <3>2
    <3> QED BY <2>1, <2>2, <3>1, <3>3, Zenon
  <2> QED BY <1>2, <2>4 DEF Names, LayerNames
<1>3. CASE d = "safety"
  <2>1. \E a \in replay.actions :
           a.op \in case.forbidden /\ a.status \in {"executed", "would_execute"}
    BY <1>3 DEF DefectsOf
  <2>2. SafetyLayer(case, replay).passed =>
           \A a \in replay.actions : a.op \in case.forbidden => a.status = "waiting_approval"
    BY SafetySound
  <2> QED BY <1>3, <2>1, <2>2 DEF Names, LayerNames
<1>4. CASE d = "outcome"
  <2>1. replay.signals # case.signals \/ \E op \in case.operations :
           \A a \in replay.actions : a.op # op
    BY <1>4 DEF DefectsOf
  <2>2. OutcomeLayer(case, replay).passed =>
           /\ replay.signals = case.signals
           /\ \A op \in case.operations : \E a \in replay.actions : a.op = op
    BY OutcomeSound
  <2>3. ~OutcomeLayer(case, replay).passed
    BY <2>1, <2>2, Zenon
  <2> QED BY <1>4, <2>3 DEF Names, LayerNames
<1>5. CASE d = "model_quality"
  <2>1. judged /\ (judgement.failed \/ judgement.complaints > 0)
    BY <1>5 DEF DefectsOf
  <2>2. SemanticLayer(judgement).passed => ~judgement.failed /\ judgement.complaints = 0
    BY SemanticSound
  <2>3. ~SemanticLayer(judgement).passed
    BY <2>1, <2>2
  <2> QED BY <1>5, <2>1, <2>3 DEF Names, LayerNames
<1>6. CASE d = "cost"
  <2>1. \/ case.budget > 0 /\ CostUnits(replay) > case.budget
        \/ lim.cost > 0 /\ CostUnits(replay) > lim.cost
    BY <1>6 DEF DefectsOf
  <2>2. CostLayer(case, lim, replay).passed => CostUnits(replay) <= Budget(case, lim)
    BY CostSound
  <2>3. case.budget \in Int /\ CostUnits(replay) \in Nat
    BY CostIsCounted DEF WellFormedCase
  <2>4. /\ Budget(case, lim) \in Nat
        /\ case.budget > 0 => Budget(case, lim) <= case.budget
        /\ lim.cost > 0 => Budget(case, lim) <= lim.cost
    BY <2>3, Budgets
  <2>5. ~CostLayer(case, lim, replay).passed
    BY <2>1, <2>2, <2>3, <2>4
  <2> QED BY <1>6, <2>5 DEF Names, LayerNames
<1> QED BY <1>1, <1>2, <1>3, <1>4, <1>5, <1>6 DEF DefectsOf, LayerNames

(* The report of a case: well formed, above the floor when it passes, and  *)
(* failing the layer of every defect.                                      *)
LEMMA ReportSound ==
    ASSUME judged \in BOOLEAN, NEW case, NEW lim, NEW replay, NEW again, NEW judgement,
           WellFormedCase(case), WellFormedReplay(replay), WellFormedJudgement(judgement),
           lim.cost \in Int
    PROVE  /\ CaseReport(case, lim, replay, again, judgement) \in CaseReports
           /\ CaseReport(case, lim, replay, again, judgement).passed =>
                 /\ AllPassed(CaseReport(case, lim, replay, again, judgement).layers)
                 /\ CaseReport(case, lim, replay, again, judgement).score >= Floor
           /\ AllPassed(CaseReport(case, lim, replay, again, judgement).layers) =>
                 CaseReport(case, lim, replay, again, judgement).passed
           /\ \A d \in DefectsOf(case, lim, replay, again, judgement) :
                 d \in Names /\ ~CaseReport(case, lim, replay, again, judgement).layers[d].passed
<1> DEFINE reproducible == Fingerprint(replay) = Fingerprint(again)
           L(n) == CASE n = "retrieval"     -> RetrievalLayer(case, replay)
                     [] n = "trajectory"    -> TrajectoryLayer(case, lim, replay, reproducible)
                     [] n = "safety"        -> SafetyLayer(case, replay)
                     [] n = "outcome"       -> OutcomeLayer(case, replay)
                     [] n = "model_quality" -> SemanticLayer(judgement)
                     [] n = "cost"          -> CostLayer(case, lim, replay)
           layers == [n \in Names |-> L(n)]
           r == CaseReport(case, lim, replay, again, judgement)
<1>1. r = [layers |-> layers, score |-> WeightedScore(layers), passed |-> AllPassed(layers)]
  BY Zenon DEF CaseReport, Names
<1>2. /\ layers["retrieval"] = RetrievalLayer(case, replay)
      /\ layers["trajectory"] = TrajectoryLayer(case, lim, replay, reproducible)
      /\ layers["safety"] = SafetyLayer(case, replay)
      /\ layers["outcome"] = OutcomeLayer(case, replay)
      /\ judged => layers["model_quality"] = SemanticLayer(judgement)
      /\ layers["cost"] = CostLayer(case, lim, replay)
      /\ DOMAIN layers = Names
  <2> HIDE DEF reproducible
  <2> QED BY DEF Names, LayerNames
<1>3. reproducible \in BOOLEAN
  OBVIOUS
<1> HIDE DEF layers
<1>4. \A d \in DefectsOf(case, lim, replay, again, judgement) :
         d \in Names /\ ~layers[d].passed
  BY <1>2, DefectsFail
<1> HIDE DEF reproducible, r
<1>5. FloorsHold(layers)
  BY <1>2, <1>3, RetrievalSound, TrajectorySound, SafetySound, OutcomeSound, SemanticSound, CostSound
     DEF FloorsHold
<1>6. WeightedScore(layers) \in Scores /\ (AllPassed(layers) => WeightedScore(layers) >= Floor)
  BY <1>2, <1>5, ScoreHolds
<1>7. layers \in Layers
  <2>1. \A n \in Names : layers[n] \in [score : Scores, passed : BOOLEAN]
    BY <1>5 DEF FloorsHold, Sound, Names, LayerNames
  <2>2. layers = [n \in Names |-> layers[n]]
    <3> HIDE DEF L
    <3> QED BY DEF layers
  <2> QED BY <2>1, <2>2 DEF Layers
<1>8. AllPassed(layers) \in BOOLEAN
  BY DEF AllPassed
<1> DEFINE score == WeightedScore(layers)
           passed == AllPassed(layers)
<1>9. score \in Scores /\ passed \in BOOLEAN /\ (passed => score >= Floor)
      /\ r = [layers |-> layers, score |-> score, passed |-> passed]
  BY <1>1, <1>6, <1>8
<1> HIDE DEF score, passed
<1>10. r \in CaseReports /\ r.layers = layers /\ r.score = score /\ r.passed = passed
  BY <1>7, <1>9 DEF CaseReports
<1>11. /\ r.passed => AllPassed(r.layers) /\ r.score >= Floor
       /\ AllPassed(r.layers) => r.passed
  BY <1>9, <1>10 DEF passed
<1> QED BY <1>4, <1>10, <1>11 DEF r

-----------------------------------------------------------------------------
(* The inductive invariant *)

Reports == [layers : Layers, score : Scores, passed : BOOLEAN, regression : BOOLEAN,
            attributions : SUBSET LayerNames]

Typed ==
    /\ judged \in BOOLEAN
    /\ subject \in {"none", "baseline", "candidate"}
    /\ limits \in Limits
    /\ trail \in Seq(CaseReports) /\ Len(trail) <= Len(Cases)
    /\ baseline \in Reports \cup {NoReport}
    /\ report \in Reports \cup {NoReport}
    /\ defects \subseteq LayerNames

(* Cases are replayed one after the other while an evaluation is on; the   *)
(* candidate comes after its baseline, its report after both.              *)
InOrder ==
    /\ subject = "none" => trail = <<>> /\ first = NoReplay
    /\ first # NoReplay => Case \in DOMAIN Cases /\ first \in Replays[Case]
    /\ subject # "none" => report = NoReport
    /\ subject = "candidate" \/ report # NoReport => baseline # NoReport

(* The report of a case passes when its layers do, and is above the floor. *)
EntriesSound ==
    \A i \in DOMAIN trail :
        /\ trail[i].passed => AllPassed(trail[i].layers) /\ trail[i].score >= Floor
        /\ AllPassed(trail[i].layers) => trail[i].passed

(* A defect met so far failed its layer in the report of some case.        *)
DefectsTraced ==
    subject # "none" /\ trail # <<>> =>
        \A d \in defects : d \in Names /\ \E i \in DOMAIN trail : ~trail[i].layers[d].passed

(* The report attributes every defect, and passes only without any.        *)
ReportTruthful ==
    /\ report # NoReport /\ report.passed => report.attributions = {} /\ report.score >= Floor
    /\ Latest # NoReport =>
          /\ defects \subseteq Latest.attributions
          /\ Latest.passed \/ Latest.regression \/ Latest.attributions # {}

IInv ==
    /\ Typed
    /\ InOrder
    /\ EntriesSound
    /\ DefectsTraced
    /\ ReportTruthful

-----------------------------------------------------------------------------
(* The report of the suite *)

(* The mean of naturals lies where they all lie.                           *)
LEMMA MeanWithin ==
    ASSUME NEW n \in Nat \ {0}, NEW s \in [1 .. n -> Nat], NEW low \in Nat, NEW high \in Nat,
           \A i \in 1 .. n : low <= s[i] /\ s[i] <= high
    PROVE  Mean(s) \in Nat /\ low <= Mean(s) /\ Mean(s) <= high
<1>1. s \in Seq(Nat)
  OBVIOUS
<1>2. Len(s) = n
  OBVIOUS
<1>3. s # <<>>
  BY <1>2
<1>4. \A i \in 1 .. Len(s) : low <= s[i] /\ s[i] <= high
  BY <1>2
<1>5. Mean(s) \in low .. high
  BY ONLY <1>1, <1>3, <1>4, low \in Nat, high \in Nat, MeanBounds
<1>6. \A x \in low .. high : x \in Nat /\ low <= x /\ x <= high
  OBVIOUS
<1> QED BY <1>5, <1>6, Zenon

(* A mean of scores is a score, above every floor that they are all above. *)
LEMMA MeanIsScore ==
    ASSUME NEW n \in Nat \ {0}, NEW s, s \in [1 .. n -> Scores]
    PROVE  /\ Mean(s) \in Scores
           /\ \A floor \in Nat : (\A i \in 1 .. n : s[i] >= floor) => Mean(s) >= floor
<1>1. \A i \in 1 .. n : s[i] \in Nat /\ s[i] <= 10000
  BY ScoreRange
<1>2. s \in [1 .. n -> Nat]
  BY <1>1
<1>3. ASSUME NEW low \in Nat, \A i \in 1 .. n : s[i] >= low
      PROVE  Mean(s) \in Nat /\ low <= Mean(s) /\ Mean(s) <= 10000
  <2>1. PICK high \in Nat : high = 10000
    BY 10000 \in Nat
  <2>2. \A i \in 1 .. n : low <= s[i] /\ s[i] <= high
    BY <1>1, <1>3, <2>1
  <2>3. Mean(s) \in Nat /\ low <= Mean(s) /\ Mean(s) <= high
    BY <1>2, <2>2, MeanWithin
  <2> QED BY ONLY <2>1, <2>3
<1>4. Mean(s) \in Nat /\ Mean(s) <= 10000
  <2>1. PICK low \in Nat : low = 0
    BY 0 \in Nat
  <2>2. \A i \in 1 .. n : s[i] >= low
    BY <1>1, <2>1
  <2> QED BY <1>3, <2>2
<1>5. Mean(s) \in Scores
  BY <1>4, RangeScore
<1>6. ASSUME NEW low \in Nat, \A i \in 1 .. n : s[i] >= low PROVE Mean(s) >= low
  <2>1. Mean(s) \in Nat /\ low <= Mean(s)
    BY <1>3, <1>6
  <2> QED BY ONLY <2>1, low \in Nat
<1> QED BY <1>5, <1>6

LEMMA AggregateSound ==
    ASSUME IInv, trail # <<>>
    PROVE  /\ Aggregate \in Layers
           /\ MeanScore \in Scores
           /\ (\A i \in DOMAIN trail : trail[i].passed) => MeanScore >= Floor
           /\ Attribute = {n \in Names : \E i \in DOMAIN trail : ~trail[i].layers[n].passed}
           /\ AllPassed(Aggregate) <=> Attribute = {}
           /\ (\A i \in DOMAIN trail : trail[i].passed) <=> Attribute = {}
<1> DEFINE N == Len(trail)
<1>1. /\ N \in Nat \ {0} /\ DOMAIN trail = 1 .. N /\ 1 \in 1 .. N
      /\ \A i \in 1 .. N : trail[i] \in CaseReports
  <2>1. trail \in Seq(CaseReports)
    BY DEF IInv, Typed
  <2> HIDE DEF IInv
  <2>2. N \in Nat /\ DOMAIN trail = 1 .. N /\ \A i \in 1 .. N : trail[i] \in CaseReports
    BY <2>1
  <2>3. N # 0
    BY <2>1
  <2> QED BY <2>2, <2>3
<1>2. \A i \in 1 .. N : /\ trail[i].layers \in Layers /\ trail[i].score \in Scores
                        /\ trail[i].passed \in BOOLEAN
  BY <1>1 DEF CaseReports
<1>3. \A i \in 1 .. N : /\ DOMAIN trail[i].layers = Names
                        /\ \A n \in Names : /\ trail[i].layers[n].score \in Scores
                                            /\ trail[i].layers[n].passed \in BOOLEAN
  <2> TAKE i \in 1 .. N
  <2> DEFINE l == trail[i].layers
  <2>1. l \in Layers
    BY <1>2
  <2> HIDE DEF l
  <2>2. DOMAIN l = Names /\ \A n \in Names : l[n] \in [score : Scores, passed : BOOLEAN]
    BY <2>1 DEF Layers
  <2> QED BY <2>2 DEF l
<1> HIDE DEF N
<1>4. MeanScore \in Scores
      /\ \A floor \in Nat : (\A i \in 1 .. N : trail[i].score >= floor) => MeanScore >= floor
  <2> DEFINE s == [i \in 1 .. N |-> trail[i].score]
  <2>1. s \in [1 .. N -> Scores] /\ \A i \in 1 .. N : s[i] = trail[i].score
    BY <1>2
  <2>2. MeanScore = Mean(s)
    BY <1>1 DEF MeanScore
  <2> HIDE DEF s
  <2>3. Mean(s) \in Scores /\ \A floor \in Nat : (\A i \in 1 .. N : s[i] >= floor) => Mean(s) >= floor
    BY <1>1, <2>1, MeanIsScore
  <2> QED BY <2>1, <2>2, <2>3
<1>5. (\A i \in DOMAIN trail : trail[i].passed) => MeanScore >= Floor
  <2>1. Floor \in Nat
    BY DEF Floor, Unit
  <2>2. (\A i \in 1 .. N : trail[i].passed) => \A i \in 1 .. N : trail[i].score >= Floor
    BY <1>1 DEF IInv, EntriesSound
  <2> QED BY <1>1, <1>4, <2>1, <2>2
<1> DEFINE mean(n) == Mean([i \in DOMAIN trail |-> trail[i].layers[n].score])
           ok(n) == \A i \in DOMAIN trail : trail[i].layers[n].passed
<1>6. Aggregate = [n \in Names |-> Layer(mean(n), ok(n))]
  BY <1>1, <1>3, Zenon DEF Aggregate
<1>7. \A n \in Names : mean(n) \in Scores
  <2> TAKE n \in Names
  <2> DEFINE s == [i \in 1 .. N |-> trail[i].layers[n].score]
  <2>1. s \in [1 .. N -> Scores]
    BY <1>3
  <2>2. mean(n) = Mean(s)
    BY <1>1
  <2> HIDE DEF s, mean
  <2> QED BY <1>1, <2>1, <2>2, MeanIsScore
<1>8. \A n \in Names : ok(n) \in BOOLEAN
  OBVIOUS
<1> HIDE DEF mean
<1>9. Aggregate \in Layers /\ \A n \in Names : Aggregate[n].passed <=> ok(n)
  <2> HIDE DEF ok
  <2>1. \A n \in Names : Layer(mean(n), ok(n)) \in [score : Scores, passed : BOOLEAN]
                         /\ (Layer(mean(n), ok(n)).passed <=> ok(n))
    BY <1>7, <1>8 DEF Layer
  <2> QED BY <1>6, <2>1 DEF Layers
<1>10. Attribute = {n \in Names : \E i \in DOMAIN trail : ~trail[i].layers[n].passed}
  BY <1>1, <1>3 DEF Attribute
<1>11. AllPassed(Aggregate) <=> \A n \in Names : ok(n)
  <2>1. DOMAIN Aggregate = Names
    BY <1>9 DEF Layers
  <2> HIDE DEF ok
  <2> QED BY <1>9, <2>1 DEF AllPassed
<1>12. Attribute = {} <=> \A n \in Names : ok(n)
  BY <1>10
<1>13. (\A i \in DOMAIN trail : trail[i].passed) <=> \A n \in Names : ok(n)
  <2>1. \A i \in 1 .. N : trail[i].passed <=> AllPassed(trail[i].layers)
    BY <1>1, <1>2 DEF IInv, EntriesSound
  <2>2. \A i \in 1 .. N : AllPassed(trail[i].layers) <=> \A n \in Names : trail[i].layers[n].passed
    BY <1>3 DEF AllPassed
  <2> QED BY <1>1, <2>1, <2>2
<1> QED BY <1>4, <1>5, <1>9, <1>10, <1>11, <1>12, <1>13

(* The conclusion of an evaluation.                                        *)
LEMMA ConclusionSound ==
    ASSUME IInv, trail # <<>>, NEW regression \in BOOLEAN
    PROVE  /\ Concluded(regression) \in Reports /\ Concluded(regression) # NoReport
           /\ Concluded(regression).attributions = Attribute
           /\ Concluded(regression).passed =>
                 Attribute = {} /\ Concluded(regression).score >= Floor
           /\ \/ Concluded(regression).passed
              \/ Concluded(regression).regression
              \/ Attribute # {}
<1> DEFINE passed == /\ \A i \in DOMAIN trail : trail[i].passed
                     /\ AllPassed(Aggregate)
                     /\ ~regression
           r == Concluded(regression)
<1>1. r = [layers |-> Aggregate, score |-> MeanScore, passed |-> passed,
           regression |-> regression, attributions |-> Attribute]
  BY Zenon DEF Concluded
<1>2. /\ Aggregate \in Layers /\ MeanScore \in Scores
      /\ (\A i \in DOMAIN trail : trail[i].passed) => MeanScore >= Floor
      /\ Attribute = {n \in Names : \E i \in DOMAIN trail : ~trail[i].layers[n].passed}
      /\ AllPassed(Aggregate) <=> Attribute = {}
      /\ (\A i \in DOMAIN trail : trail[i].passed) <=> Attribute = {}
  BY AggregateSound
<1>3. passed \in BOOLEAN /\ (passed => Attribute = {} /\ MeanScore >= Floor)
      /\ (passed \/ regression \/ Attribute # {})
  BY <1>2
<1> HIDE DEF passed
<1>4. Attribute \subseteq LayerNames
  BY <1>2 DEF Names
<1> HIDE DEF r
<1>5. r \in Reports /\ r.attributions = Attribute /\ r.passed = passed
      /\ r.score = MeanScore /\ r.regression = regression
  BY <1>1, <1>2, <1>3, <1>4 DEF Reports
<1>6. r # NoReport
  <2>1. Names \in SUBSET LayerNames
    BY DEF Names
  <2>2. NoReport \notin Reports
    BY <2>1, NoReportAssumption, Zenon DEF Reports, Layers, Scores
  <2> QED BY <1>5, <2>2
<1> QED BY <1>3, <1>5, <1>6 DEF r

-----------------------------------------------------------------------------
(* Every step preserves the invariant *)

(* Whether an evaluation is judged never changes, nor what that determines. *)
LEMMA JudgedFixed ==
    ASSUME judged' = judged
    PROVE  /\ Names' = Names /\ Layers' = Layers /\ CaseReports' = CaseReports
           /\ Reports' = Reports /\ Floor' = Floor
<1>1. Names' = Names /\ Floor' = Floor
  BY DEF Names, Floor
<1>2. Layers' = Layers
  BY <1>1 DEF Layers, Scores
<1>3. CaseReports' = CaseReports /\ Reports' = Reports
  BY <1>2 DEF CaseReports, Reports, Scores
<1> QED BY <1>1, <1>2, <1>3

LEMMA InitIInv == Init => IInv
<1> SUFFICES ASSUME Init PROVE IInv
  OBVIOUS
<1>1. Len(Cases) \in Nat
  BY SuiteAssumption
<1>2. <<>> \in Seq(CaseReports) /\ Len(<<>>) <= Len(Cases)
  BY <1>1
<1>3. Typed
  BY <1>2 DEF Init, Typed
<1> QED BY <1>3 DEF Init, IInv, InOrder, EntriesSound, DefectsTraced, ReportTruthful, Latest

LEMMA BeginIInv == ASSUME IInv, Begin PROVE IInv'
<1>1. judged' = judged /\ trail' = trail /\ first' = first /\ trail = <<>> /\ first = NoReplay
  BY DEF IInv, InOrder, Begin
<1>2. CaseReports' = CaseReports /\ Reports' = Reports /\ Floor' = Floor
  BY <1>1, JudgedFixed
<1>3. Typed'
  BY <1>1, <1>2, SuiteAssumption DEF IInv, Typed, Begin
<1>4. InOrder' /\ DefectsTraced' /\ ReportTruthful'
  BY <1>1 DEF Begin, InOrder, DefectsTraced, ReportTruthful, Latest
<1>5. EntriesSound'
  BY <1>1 DEF EntriesSound
<1> QED BY <1>3, <1>4, <1>5 DEF IInv

LEMMA FirstReplayIInv == ASSUME IInv, FirstReplay PROVE IInv'
<1>1. UNCHANGED <<judged, subject, limits, trail, baseline, report, defects>>
  BY DEF FirstReplay
<1>2. Names' = Names /\ CaseReports' = CaseReports /\ Reports' = Reports /\ Floor' = Floor
  BY <1>1, JudgedFixed
<1>3. Typed'
  BY <1>1, <1>2 DEF IInv, Typed
<1>4. InOrder'
  BY <1>1 DEF IInv, InOrder, FirstReplay, Working, Case
<1>5. EntriesSound' /\ DefectsTraced' /\ ReportTruthful'
  BY <1>1, <1>2 DEF IInv, EntriesSound, DefectsTraced, ReportTruthful, Latest
<1> QED BY <1>3, <1>4, <1>5 DEF IInv

LEMMA SecondReplayIInv == ASSUME IInv, SecondReplay PROVE IInv'
<1>1. PICK again \in {first} \cup Deviations[Case], judgement \in Judgements[Case] :
        /\ trail' = Append(trail, CaseReport(Cases[Case], limits, first, again, judgement))
        /\ defects' = (IF trail = <<>> THEN {} ELSE defects)
                         \cup DefectsOf(Cases[Case], limits, first, again, judgement)
  BY DEF SecondReplay
<1>2. /\ first # NoReplay /\ first' = NoReplay
      /\ UNCHANGED <<judged, subject, limits, baseline, report>>
  BY DEF SecondReplay
<1>3. Names' = Names /\ CaseReports' = CaseReports /\ Reports' = Reports /\ Floor' = Floor
  BY <1>2, JudgedFixed
<1>4. Case \in DOMAIN Cases /\ first \in Replays[Case]
  BY <1>2 DEF IInv, InOrder
<1> DEFINE r == CaseReport(Cases[Case], limits, first, again, judgement)
           new == DefectsOf(Cases[Case], limits, first, again, judgement)
           N == Len(trail)
<1>5. /\ r \in CaseReports
      /\ r.passed => AllPassed(r.layers) /\ r.score >= Floor
      /\ AllPassed(r.layers) => r.passed
      /\ \A d \in new : d \in Names /\ ~r.layers[d].passed
  <2>1. WellFormedCase(Cases[Case])
    BY <1>4, SuiteAssumption
  <2>2. WellFormedReplay(first) /\ WellFormedJudgement(judgement)
    BY <1>1, <1>4, ReplayAssumption
  <2>3. limits.cost \in Int /\ judged \in BOOLEAN
    BY LimitAssumption DEF IInv, Typed
  <2> QED BY <2>1, <2>2, <2>3, ReportSound
<1>6. trail \in Seq(CaseReports) /\ trail' = Append(trail, r)
      /\ defects' = (IF trail = <<>> THEN {} ELSE defects) \cup new
  BY <1>1 DEF IInv, Typed
<1> HIDE DEF r
<1>7. N \in Nat /\ DOMAIN trail = 1 .. N
  BY <1>6
<1>8. /\ trail' \in Seq(CaseReports) /\ Len(trail') = N + 1
      /\ DOMAIN trail' = 1 .. N + 1
      /\ trail'[N + 1] = r /\ \A i \in 1 .. N : trail'[i] = trail[i]
  BY <1>5, <1>6, <1>7
<1>9. N + 1 <= Len(Cases)
  BY <1>4, <1>7, SuiteAssumption DEF Case
<1>10. new \subseteq LayerNames
  BY DEF DefectsOf
<1> HIDE DEF N, new
<1>11. defects' \subseteq LayerNames
  BY <1>6, <1>10 DEF IInv, Typed
<1>12. Typed'
  BY <1>2, <1>3, <1>8, <1>9, <1>11 DEF IInv, Typed
<1>13. InOrder'
  BY <1>2 DEF IInv, InOrder
<1>14. EntriesSound'
  <2>1. \A i \in 1 .. N :
           /\ trail[i].passed => AllPassed(trail[i].layers) /\ trail[i].score >= Floor
           /\ AllPassed(trail[i].layers) => trail[i].passed
    BY <1>7 DEF IInv, EntriesSound
  <2>2. ASSUME NEW i \in 1 .. N + 1
        PROVE  /\ trail'[i].passed => AllPassed(trail'[i].layers) /\ trail'[i].score >= Floor
               /\ AllPassed(trail'[i].layers) => trail'[i].passed
    <3>1. CASE i = N + 1
      BY <1>5, <1>8, <3>1
    <3>2. CASE i \in 1 .. N
      BY <1>8, <2>1, <3>2
    <3> QED BY <1>7, <3>1, <3>2
  <2> QED BY <1>3, <1>8, <2>2 DEF EntriesSound
<1>15. DefectsTraced'
  <2>1. ASSUME subject # "none", NEW d \in defects'
        PROVE  d \in Names /\ \E i \in 1 .. N + 1 : ~trail'[i].layers[d].passed
    <3>1. CASE d \in new
      BY <1>5, <1>7, <1>8, <3>1
    <3>2. CASE trail # <<>> /\ d \in defects
      <4>1. d \in Names /\ \E i \in 1 .. N : ~trail[i].layers[d].passed
        BY <1>7, <2>1, <3>2 DEF IInv, DefectsTraced
      <4> QED BY <1>7, <1>8, <4>1
    <3> QED BY <1>6, <2>1, <3>1, <3>2
  <2> QED BY <1>2, <1>3, <1>8, <2>1 DEF DefectsTraced
<1>16. ReportTruthful'
  <2>1. subject # "none"
    BY <1>2 DEF IInv, InOrder
  <2>2. report' = NoReport /\ trail' # <<>>
    BY <1>2, <1>7, <1>8, <2>1 DEF IInv, InOrder
  <2> QED BY <2>2 DEF ReportTruthful, Latest
<1> QED BY <1>12, <1>13, <1>14, <1>15, <1>16 DEF IInv

LEMMA ReplayFailsIInv == ASSUME IInv, ReplayFails PROVE IInv'
<1>1. /\ judged' = judged /\ limits' = limits /\ subject' = "none" /\ trail' = <<>>
      /\ first' = NoReplay /\ baseline' = NoReport /\ report' = NoReport /\ defects' = {}
  BY DEF ReplayFails
<1>2. Typed'
  <2>1. <<>> \in Seq(CaseReports') /\ Len(<<>>) <= Len(Cases)
    BY SuiteAssumption
  <2> QED BY <1>1, <2>1 DEF IInv, Typed
<1> QED BY <1>1, <1>2 DEF IInv, InOrder, EntriesSound, DefectsTraced, ReportTruthful, Latest

(* When every case is replayed the trail is not empty, no replay is open.  *)
LEMMA Complete ==
    ASSUME IInv, Len(trail) = Len(Cases)
    PROVE  trail # <<>> /\ first = NoReplay
<1>1. Cases # <<>> /\ Len(Cases) \in Nat /\ DOMAIN Cases = 1 .. Len(Cases)
      /\ (Len(Cases) = 0 => Cases = <<>>)
  BY SuiteAssumption
<1>2. trail # <<>>
  BY <1>1
<1>3. Case \notin DOMAIN Cases
  BY <1>1 DEF Case
<1> QED BY <1>2, <1>3 DEF IInv, InOrder

(* Then every defect of the evaluation is attributed.                      *)
LEMMA AllAttributed ==
    ASSUME IInv, subject # "none", Len(trail) = Len(Cases)
    PROVE  defects \subseteq Attribute
<1>1. trail # <<>>
  BY Complete
<1>2. Attribute = {n \in Names : \E i \in DOMAIN trail : ~trail[i].layers[n].passed}
  BY <1>1, AggregateSound
<1>3. \A d \in defects : d \in Names /\ \E i \in DOMAIN trail : ~trail[i].layers[d].passed
  BY <1>1 DEF IInv, DefectsTraced
<1> QED BY <1>2, <1>3

LEMMA ConcludeBaselineIInv == ASSUME IInv, ConcludeBaseline PROVE IInv'
<1>1. /\ subject = "baseline" /\ subject' = "candidate" /\ trail' = <<>> /\ limits' \in Limits
      /\ baseline' = Concluded(FALSE) /\ Len(trail) = Len(Cases)
      /\ UNCHANGED <<judged, first, report, defects>>
  BY DEF ConcludeBaseline
<1>2. trail # <<>> /\ first = NoReplay
  BY <1>1, Complete
<1>3. /\ baseline' \in Reports /\ baseline' # NoReport
      /\ baseline'.attributions = Attribute
      /\ baseline'.passed \/ baseline'.regression \/ Attribute # {}
  <2>1. /\ Concluded(FALSE) \in Reports /\ Concluded(FALSE) # NoReport
        /\ Concluded(FALSE).attributions = Attribute
        /\ Concluded(FALSE).passed \/ Concluded(FALSE).regression \/ Attribute # {}
    BY <1>2, ConclusionSound, FALSE \in BOOLEAN
  <2> QED BY <1>1, <2>1, Zenon
<1>4. Reports' = Reports
  BY <1>1, JudgedFixed
<1>5. report = NoReport /\ defects \subseteq LayerNames /\ defects \subseteq Attribute
  BY <1>1, AllAttributed DEF IInv, Typed, InOrder
<1>6. Typed'
  <2>1. <<>> \in Seq(CaseReports') /\ Len(<<>>) <= Len(Cases)
    BY SuiteAssumption
  <2> QED BY <1>1, <1>3, <1>4, <1>5, <2>1 DEF IInv, Typed
<1>7. InOrder'
  BY <1>1, <1>2, <1>3, <1>5 DEF InOrder
<1>8. Latest' = baseline'
  BY <1>1 DEF Latest
<1>9. ReportTruthful'
  BY <1>1, <1>3, <1>5, <1>8 DEF ReportTruthful
<1>10. EntriesSound' /\ DefectsTraced'
  BY <1>1 DEF EntriesSound, DefectsTraced
<1> QED BY <1>6, <1>7, <1>9, <1>10 DEF IInv

LEMMA ConcludeCandidateIInv == ASSUME IInv, ConcludeCandidate PROVE IInv'
<1>1. /\ subject = "candidate" /\ subject' = "none" /\ trail' = <<>>
      /\ Len(trail) = Len(Cases)
      /\ UNCHANGED <<judged, limits, first, baseline, defects>>
  BY DEF ConcludeCandidate
<1>2. PICK regression \in BOOLEAN : report' = Concluded(regression)
  BY <1>1 DEF ConcludeCandidate, RegressionVerdicts
<1>3. trail # <<>> /\ first = NoReplay
  BY <1>1, Complete
<1>4. /\ report' \in Reports /\ report' # NoReport
      /\ report'.attributions = Attribute
      /\ report'.passed => Attribute = {} /\ report'.score >= Floor
      /\ report'.passed \/ report'.regression \/ Attribute # {}
  <2>1. /\ Concluded(regression) \in Reports /\ Concluded(regression) # NoReport
        /\ Concluded(regression).attributions = Attribute
        /\ Concluded(regression).passed =>
              Attribute = {} /\ Concluded(regression).score >= Floor
        /\ \/ Concluded(regression).passed
           \/ Concluded(regression).regression
           \/ Attribute # {}
    BY <1>3, ConclusionSound
  <2> QED BY <1>2, <2>1, Zenon
<1>5. Reports' = Reports /\ Floor' = Floor
  BY <1>1, JudgedFixed
<1>6. baseline # NoReport /\ baseline \in Reports
  BY <1>1 DEF IInv, Typed, InOrder
<1>7. defects \subseteq Attribute
  BY <1>1, AllAttributed
<1>8. Typed'
  <2>1. <<>> \in Seq(CaseReports') /\ Len(<<>>) <= Len(Cases)
    BY SuiteAssumption
  <2> QED BY <1>1, <1>4, <1>5, <1>6, <2>1 DEF IInv, Typed
<1>9. InOrder'
  BY <1>1, <1>3, <1>6 DEF InOrder
<1>10. ReportTruthful'
  <2>1. Latest' = report'
    BY <1>1 DEF Latest
  <2> QED BY <1>1, <1>4, <1>5, <1>7, <2>1 DEF ReportTruthful
<1>11. EntriesSound' /\ DefectsTraced'
  BY <1>1 DEF EntriesSound, DefectsTraced
<1> QED BY <1>8, <1>9, <1>10, <1>11 DEF IInv

LEMMA NextIInv == IInv /\ [Next]_vars => IInv'
<1> SUFFICES ASSUME IInv, [Next]_vars PROVE IInv'
  OBVIOUS
<1>1. CASE Begin
  BY <1>1, BeginIInv
<1>2. CASE FirstReplay
  BY <1>2, FirstReplayIInv
<1>3. CASE SecondReplay
  BY <1>3, SecondReplayIInv
<1>4. CASE ReplayFails
  BY <1>4, ReplayFailsIInv
<1>5. CASE ConcludeBaseline
  BY <1>5, ConcludeBaselineIInv
<1>6. CASE ConcludeCandidate
  BY <1>6, ConcludeCandidateIInv
<1>7. CASE UNCHANGED vars
  <2>1. UNCHANGED <<judged, subject, limits, trail, first, baseline, report, defects>>
    BY <1>7 DEF vars
  <2>2. Names' = Names /\ CaseReports' = CaseReports /\ Reports' = Reports /\ Floor' = Floor
    BY <2>1, JudgedFixed
  <2>3. Typed' /\ InOrder'
    BY <2>1, <2>2 DEF IInv, Typed, InOrder, Case
  <2>4. EntriesSound' /\ DefectsTraced' /\ ReportTruthful'
    BY <2>1, <2>2 DEF IInv, EntriesSound, DefectsTraced, ReportTruthful, Latest
  <2> QED BY <2>3, <2>4 DEF IInv
<1> QED BY <1>1, <1>2, <1>3, <1>4, <1>5, <1>6, <1>7 DEF Next

(* The invariant holds always, whatever the suite, the limits, the replays  *)
(* and the judge's answers.                                                *)
THEOREM Invariance == Spec => []IInv
BY InitIInv, NextIInv, PTL DEF Spec

-----------------------------------------------------------------------------
(* The properties of the runs *)

(* Reports are complete and every score in them lies between 0 and 1:      *)
(* layer*, WeightedScore and aggregateLayers of the Harness.               *)
THEOREM HarnessTypeCorrect == Spec => []HarnessTypeOK
<1>1. IInv => HarnessTypeOK
  <2> SUFFICES ASSUME IInv PROVE HarnessTypeOK
    OBVIOUS
  <2>1. ASSUME NEW r, r \in CaseReports \/ r \in Reports
        PROVE  ReportOK(r)
    <3>1. r.score \in Scores /\ r.layers \in Layers
      BY <2>1 DEF CaseReports, Reports
    <3>2. DOMAIN r.layers = Names /\ \A n \in Names : r.layers[n].score \in Scores
      BY <3>1 DEF Layers
    <3> QED BY <3>1, <3>2, Zenon DEF ReportOK, Names
  <2>2. \A i \in DOMAIN trail : ReportOK(trail[i])
    <3>1. \A i \in DOMAIN trail : trail[i] \in CaseReports
      BY DEF IInv, Typed
    <3> QED BY <2>1, <3>1
  <2>3. \A r \in {baseline, report} \ {NoReport} : ReportOK(r)
    BY <2>1 DEF IInv, Typed
  <2>4. first # NoReplay => Working /\ first \in Replays[Case]
    BY DEF IInv, InOrder, Working
  <2> QED BY <2>2, <2>3, <2>4 DEF IInv, Typed, InOrder, HarnessTypeOK
<1> QED BY <1>1, Invariance, PTL

(* A candidate whose report passes has no defect in any case: no weighted  *)
(* score and no threshold of aggregateLayers makes up for one.             *)
THEOREM PassedIsSoundHolds == Spec => []PassedIsSound
<1>1. IInv => PassedIsSound
  <2> SUFFICES ASSUME IInv, report # NoReport, report.passed PROVE defects = {}
    BY DEF PassedIsSound
  <2>1. Latest = report
    BY DEF IInv, InOrder, Latest
  <2> QED BY <2>1 DEF IInv, ReportTruthful
<1> QED BY <1>1, Invariance, PTL

(* The report of the baseline and that of the candidate attribute the      *)
(* layer of every defect, and a blocked report has an attribution or is a  *)
(* regression: attribute and Evaluate.                                     *)
THEOREM DefectsAttributedHolds == Spec => []DefectsAttributed
<1>1. IInv => DefectsAttributed
  BY DEF IInv, ReportTruthful, DefectsAttributed
<1> QED BY <1>1, Invariance, PTL

(* A report that passes is above the floor that the layers' thresholds set, *)
(* so a chain of promotions, each a hundredth worse, ends.                 *)
THEOREM DriftBoundedHolds == Spec => []DriftBounded
<1>1. IInv => DriftBounded
  BY DEF IInv, ReportTruthful, DriftBounded
<1> QED BY <1>1, Invariance, PTL

=============================================================================
