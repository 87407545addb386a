-------------------------- MODULE KernelBootProofs --------------------------
(***************************************************************************)
(* The boot on every platform, with interrupts falling anywhere in it: the *)
(* end of interrupt goes to the controller that delivered it, the devices  *)
(* are configured from what the firmware's tables say, no key is lost once *)
(* the controllers are set up, and preemption is only enabled past devices *)
(* and tables that are mapped.                                             *)
(*                                                                         *)
(* The walks over the tables are recursive functions of the position; what *)
(* they compute is proved by induction in the form of a set of numbers     *)
(* that holds zero and is closed under successor (SetInduction).           *)
(***************************************************************************)
EXTENDS KernelBoot, Integers, FiniteSetTheorems, TLAPS

(* Induction, and functions defined by recursion. *)

\* A nonempty set of numbers has a least element.
LEMMA LeastNat ==
  ASSUME NEW T \in SUBSET Nat, T # {}
  PROVE  \E x \in T : \A y \in T : x <= y
<1>1. PICK x \in T : \A y \in T : ~ (<<y, x>> \in OpToRel(<, Nat))
  BY NatLessThanWellFounded, WFMin, Zenon
<1>2. \A y \in T : ~ (y < x)
  BY <1>1, Zenon DEF OpToRel
<1> QED
  BY <1>2

\* A set of numbers with zero and the successor of each of its elements holds
\* them all.
LEMMA SetInduction ==
  ASSUME NEW P \in SUBSET Nat, 0 \in P, \A n \in P : n + 1 \in P
  PROVE  P = Nat
<1> SUFFICES ASSUME NEW m \in Nat \ P PROVE FALSE
  BY Zenon
<1>1. PICK x \in Nat \ P : \A y \in Nat \ P : x <= y
  <2>1. Nat \ P \in SUBSET Nat /\ Nat \ P # {}
    OBVIOUS
  <2> QED
    BY <2>1, LeastNat, Zenon
<1>2. x # 0 /\ x - 1 \in Nat
  OBVIOUS
<1>3. x - 1 \in P
  BY <1>1, <1>2
<1> QED
  BY <1>3

\* What Min chooses.
LEMMA MinIsLeast ==
  ASSUME NEW T \in SUBSET Nat, T # {}
  PROVE  Min(T) \in T /\ \A y \in T : Min(T) <= y
BY LeastNat, Zenon DEF Min

\* The same of Max, in an interval.
LEMMA MaxIsGreatest ==
  ASSUME NEW n \in Nat, NEW T \in SUBSET (1 .. n), T # {}
  PROVE  Max(T) \in T /\ \A y \in T : y <= Max(T)
<1> DEFINE U == {n - t : t \in T}
<1>1. U \in SUBSET Nat /\ U # {}
  <2>1. \A t \in T : n - t \in Nat
    OBVIOUS
  <2> QED
    BY <2>1, Zenon
<1>2. PICK u \in U : \A y \in U : u <= y
  BY <1>1, LeastNat, Zenon
<1>3. PICK x \in T : u = n - x
  BY <1>2
<1>4. \A y \in T : y <= x
  <2> SUFFICES ASSUME NEW y \in T PROVE y <= x
    OBVIOUS
  <2>1. n - y \in U
    OBVIOUS
  <2>2. n - x <= n - y
    BY <1>2, <1>3, <2>1
  <2> QED
    BY <2>2
<1>5. \E z \in T : \A y \in T : z >= y
  BY <1>4
<1>6. Max(T) \in T /\ \A y \in T : Max(T) >= y
  BY <1>5, Zenon DEF Max
<1> QED
  BY <1>6

\* f lists what the first steps of a sequence of n steps make of e.
Iterates(f, e, n, st) == f[0] = e /\ \A k \in 1 .. n : f[k] = st[k][f[k - 1]]

\* Any sequence of steps from S to S can be iterated.
LEMMA FoldExists ==
  ASSUME NEW S, NEW e \in S, NEW n \in Nat, NEW st \in [1 .. n -> [S -> S]]
  PROVE  \E f \in [0 .. n -> S] : Iterates(f, e, n, st)
<1> DEFINE Def(m, f) == f[0] = e /\ \A k \in 1 .. m : f[k] = st[k][f[k - 1]]
           Has(m) == \E f \in [0 .. m -> S] : Def(m, f)
           P == {m \in Nat : m <= n => Has(m)}
<1>1. 0 \in P
  <2> DEFINE f == [k \in 0 .. 0 |-> e]
  <2>1. f \in [0 .. 0 -> S] /\ Def(0, f)
    OBVIOUS
  <2> QED
    BY <2>1, Zenon
<1>2. ASSUME NEW m \in P PROVE m + 1 \in P
  <2>1. ASSUME m + 1 <= n PROVE Has(m + 1)
    <3>1. Has(m)
      BY <2>1
    <3>2. PICK f \in [0 .. m -> S] : Def(m, f)
      BY <3>1
    <3> DEFINE g == [k \in 0 .. m + 1 |-> IF k = m + 1 THEN st[m + 1][f[m]] ELSE f[k]]
    <3>3. m \in Nat /\ st[m + 1] \in [S -> S] /\ f[m] \in S
      BY <2>1
    <3>4. g \in [0 .. m + 1 -> S]
      BY <3>3
    <3>5. g[0] = e /\ \A k \in 1 .. m + 1 : g[k] = st[k][g[k - 1]]
      BY <3>2, <3>3
    <3> QED
      BY <3>4, <3>5, Zenon
  <2>2. m + 1 \in Nat
    OBVIOUS
  <2> HIDE DEF Has
  <2> QED
    BY <2>1, <2>2
<1>3. P = Nat
  <2>1. P \in SUBSET Nat
    OBVIOUS
  <2> HIDE DEF P
  <2> QED
    BY <1>1, <1>2, <2>1, SetInduction
<1>4. Has(n)
  <2> HIDE DEF Has
  <2> QED
    BY <1>3
<1> QED
  BY <1>4 DEF Iterates

\* What every step keeps, all of them keep.
LEMMA Kept ==
  ASSUME NEW n \in Nat, NEW S, NEW f, f[0] \in S,
         \A k \in 1 .. n : f[k - 1] \in S => f[k] \in S
  PROVE  \A k \in 0 .. n : f[k] \in S
<1> DEFINE P == {k \in Nat : k <= n => f[k] \in S}
<1>1. 0 \in P
  OBVIOUS
<1>2. ASSUME NEW k \in P PROVE k + 1 \in P
  <2>1. k \in Nat /\ k + 1 \in Nat /\ (k + 1) - 1 = k
    OBVIOUS
  <2>2. k + 1 <= n => k + 1 \in 1 .. n /\ k <= n
    BY <2>1
  <2> QED
    BY <2>1, <2>2
<1>3. P = Nat
  <2>1. P \in SUBSET Nat
    OBVIOUS
  <2> HIDE DEF P
  <2> QED
    BY <1>1, <1>2, <2>1, SetInduction
<1> QED
  BY <1>3

\* g lists what a cell holds when v is written to it at the steps of a set;
\* the first write may rely on the cell being as it was.
Writes(g, v, H, n) ==
    /\ \A k \in (1 .. n) \ H : g[k] = g[k - 1]
    /\ \A k \in H : (g[k - 1] = g[0] \/ \E j \in H : j < k) => g[k] = v[k]

\* A cell written at the steps of a set holds what the last of them wrote.
LEMMA LastWrite ==
  ASSUME NEW n \in Nat, NEW H \in SUBSET (1 .. n), NEW g, NEW v, Writes(g, v, H, n)
  PROVE  g[n] = IF H = {} THEN g[0] ELSE v[Max(H)]
<1>0. \A j \in H : j \in Nat /\ 1 <= j /\ j <= n
  OBVIOUS
<1> USE DEF Writes
<1> DEFINE None(k) == (\A j \in H : k < j) => g[k] = g[0]
           Last(k) == \A i \in H : i <= k /\ (\A j \in H : j <= k => j <= i) => g[k] = v[i]
           P == {k \in Nat : k <= n => None(k) /\ Last(k)}
<1>1. 0 \in P
  <2>1. None(0) /\ Last(0)
    BY <1>0
  <2> QED
    BY <2>1, Zenon
<1>2. ASSUME NEW k \in P PROVE k + 1 \in P
  <2>1. k \in Nat /\ k + 1 \in Nat /\ (k + 1) - 1 = k
    OBVIOUS
  <2>2. ASSUME k + 1 <= n PROVE None(k + 1) /\ Last(k + 1)
    <3>1. None(k) /\ Last(k) /\ k + 1 \in 1 .. n
      BY <2>1, <2>2
    <3>2. CASE k + 1 \in H
      <4>1. g[k] = g[0] \/ \E j \in H : j < k + 1
        BY <3>1
      <4>2. g[k + 1] = v[k + 1]
        BY <3>2, <4>1, <2>1
      <4>3. \A i \in H : i <= k + 1 /\ (\A j \in H : j <= k + 1 => j <= i) => i = k + 1
        BY <3>2
      <4>4. ~ (k + 1 < k + 1)
        BY <2>1
      <4> QED
        BY <3>2, <4>2, <4>3, <4>4, Zenon
    <3>3. CASE k + 1 \notin H
      <4>1. g[k + 1] = g[k]
        BY <3>1, <3>3, <2>1
      <4>2. \A j \in H : (j <= k + 1 <=> j <= k) /\ (k + 1 < j <=> k < j)
        <5> SUFFICES ASSUME NEW j \in H
                     PROVE  (j <= k + 1 <=> j <= k) /\ (k + 1 < j <=> k < j)
          OBVIOUS
        <5>1. j \in Nat /\ j # k + 1
          BY <1>0, <3>3
        <5> QED
          BY <2>1, <5>1
      <4>3. None(k + 1)
        BY <3>1, <4>1, <4>2, Zenon
      <4>4. ASSUME NEW i \in H, i <= k + 1, \A j \in H : j <= k + 1 => j <= i
            PROVE  g[k + 1] = v[i]
        <5>1. i <= k /\ \A j \in H : j <= k => j <= i
          BY <4>2, <4>4, Zenon
        <5>2. g[k] = v[i]
          BY <3>1, <5>1, Zenon
        <5> QED
          BY <4>1, <5>2, Zenon
      <4> QED
        BY <4>3, <4>4, Zenon
    <3> QED
      BY <3>2, <3>3
  <2> HIDE DEF None, Last
  <2> QED
    BY <2>1, <2>2
<1>3. P = Nat
  <2>1. P \in SUBSET Nat
    OBVIOUS
  <2> HIDE DEF P
  <2> QED
    BY <1>1, <1>2, <2>1, SetInduction
<1>4. None(n) /\ Last(n)
  <2> HIDE DEF None, Last
  <2> QED
    BY <1>3
<1>5. CASE H = {}
  BY <1>4, <1>5
<1>6. CASE H # {}
  <2>1. Max(H) \in H /\ \A j \in H : j <= Max(H)
    BY <1>6, MaxIsGreatest
  <2>2. Max(H) <= n
    BY <1>0, <2>1, Zenon
  <2>3. g[n] = v[Max(H)]
    BY <1>4, <2>1, <2>2, Zenon
  <2> QED
    BY <1>6, <2>3
<1> QED
  BY <1>5, <1>6

\* R counts the elements of a set of steps up to each step.
Counts(R, M, n) ==
    /\ R \in [0 .. n -> Nat] /\ R[0] = 0
    /\ \A k \in M : R[k] = R[k - 1] + 1
    /\ \A k \in (1 .. n) \ M : R[k] = R[k - 1]

\* Cardinality counts.
LEMMA CountSteps ==
  ASSUME NEW n \in Nat, NEW M \in SUBSET (1 .. n), NEW R,
         R = [k \in 0 .. n |-> Cardinality({j \in M : j <= k})]
  PROVE  Counts(R, M, n) /\ R[n] = Cardinality(M)
<1> DEFINE U(k) == {j \in M : j <= k}
<1>1. \A k \in 0 .. n : IsFiniteSet(U(k)) /\ Cardinality(U(k)) \in Nat
  <2>1. IsFiniteSet(M)
    <3>1. IsFiniteSet(1 .. n)
      BY FS_Interval
    <3> QED
      BY <3>1, FS_Subset, Zenon
  <2>2. \A k \in 0 .. n : U(k) \subseteq M
    OBVIOUS
  <2> HIDE DEF U
  <2>3. \A k \in 0 .. n : IsFiniteSet(U(k))
    BY <2>1, <2>2, FS_Subset
  <2> QED
    BY <2>3, FS_CardinalityType
<1>0. \A j \in M : j \in Nat /\ 1 <= j /\ j <= n
  OBVIOUS
<1>2. U(0) = {} /\ U(n) = M
  <2>1. \A j \in M : ~(j <= 0) /\ j <= n
    BY <1>0
  <2> QED
    BY <2>1, Zenon
<1>3. ASSUME NEW k \in M PROVE Cardinality(U(k)) = Cardinality(U(k - 1)) + 1
  <2>1. \A j \in M : j <= k <=> j <= k - 1 \/ j = k
    BY <1>0
  <2>2. ~(k <= k - 1) /\ k <= k /\ k - 1 \in 0 .. n
    BY <1>0
  <2>3. U(k) = U(k - 1) \cup {k} /\ k \notin U(k - 1)
    BY <2>1, <2>2, Zenon
  <2> HIDE DEF U
  <2> QED
    BY <1>1, <2>2, <2>3, FS_AddElement, Zenon
<1>4. ASSUME NEW k \in (1 .. n) \ M PROVE U(k) = U(k - 1)
  <2>1. \A j \in M : j <= k <=> j <= k - 1
    BY <1>0
  <2> QED
    BY <2>1, Zenon
<1>5. Cardinality({}) = 0
  BY FS_EmptySet
<1> HIDE DEF U
<1>6. \A k \in 0 .. n : R[k] = Cardinality(U(k))
  BY DEF U
<1>7. R \in [0 .. n -> Nat]
  BY <1>1, Zenon DEF U
<1>8. \A k \in M : k \in 0 .. n /\ k - 1 \in 0 .. n
  OBVIOUS
<1>9. \A k \in 1 .. n : k \in 0 .. n /\ k - 1 \in 0 .. n
  OBVIOUS
<1>10. R[0] = 0 /\ R[n] = Cardinality(M)
  <2>1. 0 \in 0 .. n /\ n \in 0 .. n
    OBVIOUS
  <2> QED
    BY <1>2, <1>5, <1>6, <2>1, Zenon
<1>11. \A k \in M : R[k] = R[k - 1] + 1
  BY <1>3, <1>6, <1>8, Zenon
<1>12. \A k \in (1 .. n) \ M : R[k] = R[k - 1]
  BY <1>4, <1>6, <1>9, Zenon
<1> QED
  BY <1>7, <1>10, <1>11, <1>12, Zenon DEF Counts

\* Every rank is that of exactly one element, and ranks follow the order.
Ranked(R, M, n) ==
    /\ \A r \in 1 .. R[n] : \E i \in M : R[i] = r
    /\ \A i, j \in M : R[i] = R[j] => i = j
    /\ \A k \in 0 .. n : \A i \in M : i <= k => R[i] <= R[k]

\* Counting the elements of a set of steps ranks them.
LEMMA Ranks ==
  ASSUME NEW n \in Nat, NEW M \in SUBSET (1 .. n), NEW R, Counts(R, M, n)
  PROVE  Ranked(R, M, n)
<1> USE DEF Counts
<1> DEFINE Onto(k) == \A r \in 1 .. R[k] : \E i \in M : i <= k /\ R[i] = r
           Mono(k) == \A i \in M : i <= k => R[i] <= R[k]
           P == {k \in Nat : k <= n => Onto(k) /\ Mono(k)}
<1>0. \A j \in M : j \in Nat /\ 1 <= j /\ j <= n /\ R[j] \in Nat
  OBVIOUS
<1>1. 0 \in P
  <2>1. Onto(0) /\ Mono(0)
    BY <1>0
  <2> QED
    BY <2>1, Zenon
<1>2. ASSUME NEW k \in P PROVE k + 1 \in P
  <2>1. k \in Nat /\ k + 1 \in Nat /\ (k + 1) - 1 = k
    OBVIOUS
  <2>2. ASSUME k + 1 <= n PROVE Onto(k + 1) /\ Mono(k + 1)
    <3>1. Onto(k) /\ Mono(k) /\ k + 1 \in 1 .. n /\ R[k] \in Nat
      BY <2>1, <2>2
    <3>2. \A i \in M : i <= k + 1 => i <= k \/ i = k + 1
      BY <1>0, <2>1
    <3>3. CASE k + 1 \in M
      <4>1. R[k + 1] = R[k] + 1
        BY <2>1, <3>3
      <4>2. Onto(k + 1)
        <5> SUFFICES ASSUME NEW r \in 1 .. R[k + 1]
                     PROVE  \E i \in M : i <= k + 1 /\ R[i] = r
          OBVIOUS
        <5>1. CASE r = R[k] + 1
          BY <3>3, <4>1, <5>1, <2>1
        <5>2. CASE r # R[k] + 1
          <6>1. r \in 1 .. R[k]
            BY <3>1, <4>1, <5>2
          <6>2. PICK i \in M : i <= k /\ R[i] = r
            BY <3>1, <6>1
          <6> QED
            BY <6>2, <1>0, <2>1
        <5> QED
          BY <5>1, <5>2
      <4>3. Mono(k + 1)
        BY <1>0, <3>1, <3>2, <4>1, SMTT(30)
      <4> QED
        BY <4>2, <4>3
    <3>4. CASE k + 1 \notin M
      <4>1. R[k + 1] = R[k]
        BY <2>1, <3>1, <3>4
      <4>2. \A i \in M : i <= k + 1 <=> i <= k
        BY <1>0, <2>1, <3>2, <3>4
      <4> QED
        BY <3>1, <4>1, <4>2
    <3> QED
      BY <3>3, <3>4
  <2> HIDE DEF Onto, Mono
  <2> QED
    BY <2>1, <2>2
<1>3. P = Nat
  <2>1. P \in SUBSET Nat
    OBVIOUS
  <2> HIDE DEF P
  <2> QED
    BY <1>1, <1>2, <2>1, SetInduction, Zenon
<1>4. \A k \in 0 .. n : Onto(k) /\ Mono(k)
  <2>1. \A k \in 0 .. n : k \in Nat /\ k <= n
    OBVIOUS
  <2> HIDE DEF Onto, Mono
  <2> QED
    BY <1>3, <2>1, Zenon
<1>5. \A i, j \in M : i < j => R[i] < R[j]
  <2> SUFFICES ASSUME NEW i \in M, NEW j \in M, i < j PROVE R[i] < R[j]
    OBVIOUS
  <2>1. j - 1 \in 0 .. n /\ i <= j - 1
    BY <1>0
  <2>2. R[i] <= R[j - 1] /\ R[j - 1] \in Nat
    BY <1>4, <2>1
  <2> QED
    BY <1>0, <2>2
<1>6. \A i, j \in M : R[i] = R[j] => i = j
  BY <1>0, <1>5
<1>7. n \in 0 .. n
  OBVIOUS
<1> QED
  BY <1>4, <1>6, <1>7, Zenon DEF Ranked

\* What Append adds and keeps.
LEMMA Appended ==
  ASSUME NEW V, NEW s \in Seq(V), NEW x \in V
  PROVE  /\ Len(Append(s, x)) = Len(s) + 1 /\ Append(s, x)[Len(s) + 1] = x
         /\ \A r \in 1 .. Len(s) : Append(s, x)[r] = s[r]
OBVIOUS

\* w lists what a list with room for m entries holds when v is appended to it
\* at the steps of a set.
Fills(w, v, M, n, m) ==
    /\ w[0] = << >>
    /\ \A k \in (1 .. n) \ M : w[k] = w[k - 1]
    /\ \A k \in M : w[k] = IF Len(w[k - 1]) < m THEN Append(w[k - 1], v[k]) ELSE w[k - 1]

\* The list s holds the first m elements of v.
Filled(s, v, R, M, n, m) ==
    /\ Len(s) = IF R[n] < m THEN R[n] ELSE m
    /\ \A i \in M : R[i] <= m => s[R[i]] = v[i]

\* A list with room for m entries that is appended to at the steps of a set
\* ends with the first of them, in their order.
LEMMA FirstWrites ==
  ASSUME NEW n \in Nat, NEW m \in Nat, NEW M \in SUBSET (1 .. n), NEW V,
         NEW v \in [M -> V], NEW w \in [0 .. n -> Seq(V)],
         NEW R, Counts(R, M, n), Fills(w, v, M, n, m)
  PROVE  Filled(w[n], v, R, M, n, m)
<1> USE DEF Counts, Fills
<1> DEFINE Size(k) == Len(w[k]) = IF R[k] < m THEN R[k] ELSE m
           Held(k) == \A i \in M : i <= k /\ R[i] <= m => w[k][R[i]] = v[i]
           P == {k \in Nat : k <= n => Size(k) /\ Held(k)}
<1>0. \A j \in M : j \in Nat /\ 1 <= j /\ j <= n /\ R[j] \in Nat /\ 1 <= R[j]
  OBVIOUS
<1>1. 0 \in P
  <2>1. Size(0) /\ Held(0)
    BY <1>0
  <2> QED
    BY <2>1, Zenon
<1>2. ASSUME NEW k \in P PROVE k + 1 \in P
  <2>1. k \in Nat /\ k + 1 \in Nat /\ (k + 1) - 1 = k
    OBVIOUS
  <2>2. ASSUME k + 1 <= n PROVE Size(k + 1) /\ Held(k + 1)
    <3>0. k \in 0 .. n /\ k + 1 \in 1 .. n /\ R[k] \in Nat /\ w[k] \in Seq(V)
      BY <2>1, <2>2
    <3>5. Size(k) /\ Held(k)
      <4>1. k <= n
        BY <2>1, <2>2
      <4> HIDE DEF Size, Held
      <4> QED
        BY <4>1
    <3>1. Size(k) /\ Held(k) /\ k + 1 \in 1 .. n /\ R[k] \in Nat /\ w[k] \in Seq(V)
      BY <3>0, <3>5, Zenon
    <3>2. \A i \in M : i <= k + 1 => i <= k \/ i = k + 1
      BY <1>0, <2>1
    <3>3. CASE k + 1 \in M
      <4>1. /\ R[k + 1] = R[k] + 1
            /\ w[k + 1] = IF Len(w[k]) < m THEN Append(w[k], v[k + 1]) ELSE w[k]
        BY <2>1, <3>3, Zenon
      <4>2. \A i \in M : i <= k => R[i] <= R[k]
        <5>1. \A l \in 0 .. n : \A i \in M : i <= l => R[i] <= R[l]
          <6> HIDE DEF Counts
          <6>1. Ranked(R, M, n)
            BY Ranks, Zenon
          <6> QED
            BY <6>1, Zenon DEF Ranked
        <5> QED
          BY <3>0, <5>1, Zenon
      <4>3. v[k + 1] \in V
        BY <3>3
      <4>4. CASE R[k] < m
        <5>1. Len(w[k]) = R[k] /\ w[k + 1] = Append(w[k], v[k + 1])
          BY <3>1, <4>1, <4>4, Zenon
        <5>2. /\ Len(w[k + 1]) = R[k] + 1 /\ w[k + 1][R[k] + 1] = v[k + 1]
              /\ \A r \in 1 .. R[k] : w[k + 1][r] = w[k][r]
          <6> DEFINE s == w[k]
                     x == v[k + 1]
          <6>1. s \in Seq(V) /\ x \in V
            BY <3>0, <4>3
          <6>2. Len(s) = R[k] /\ w[k + 1] = Append(s, x)
            BY <5>1
          <6> HIDE DEF s, x
          <6>3. /\ Len(Append(s, x)) = Len(s) + 1 /\ Append(s, x)[Len(s) + 1] = x
                /\ \A r \in 1 .. Len(s) : Append(s, x)[r] = s[r]
            BY ONLY <6>1, Appended
          <6>4. /\ Len(w[k + 1]) = R[k] + 1 /\ w[k + 1][R[k] + 1] = x
                /\ \A r \in 1 .. R[k] : w[k + 1][r] = s[r]
            BY <6>2, <6>3, Zenon
          <6> QED
            BY <6>4 DEF s, x
        <5>4. Size(k + 1)
          BY <3>1, <4>1, <4>4, <5>2
        <5>5. ASSUME NEW i \in M, i <= k + 1, R[i] <= m PROVE w[k + 1][R[i]] = v[i]
          <6>1. CASE i = k + 1
            BY <4>1, <5>2, <6>1, Zenon
          <6>2. CASE i <= k
            <7>1. R[i] \in 1 .. R[k]
              BY <1>0, <4>2, <6>2, <3>1
            <7> QED
              BY <3>1, <5>2, <5>5, <6>2, <7>1, Zenon
          <6> QED
            BY <3>2, <5>5, <6>1, <6>2
        <5> QED
          BY <5>4, <5>5
      <4>5. CASE ~(R[k] < m)
        <5>1. w[k + 1] = w[k] /\ Len(w[k]) = m
          BY <3>1, <4>1, <4>5
        <5>2. Size(k + 1)
          BY <3>1, <4>1, <4>5, <5>1
        <5>3. ~(R[k + 1] <= m)
          BY <3>1, <4>1, <4>5
        <5> QED
          BY <3>1, <3>2, <5>1, <5>2, <5>3, Zenon
      <4> QED
        BY <4>4, <4>5
    <3>4. CASE k + 1 \notin M
      <4>1. R[k + 1] = R[k] /\ w[k + 1] = w[k]
        BY <2>1, <3>1, <3>4
      <4>2. \A i \in M : i <= k + 1 => i <= k
        BY <3>2, <3>4
      <4> QED
        BY <3>1, <4>1, <4>2
    <3> QED
      BY <3>3, <3>4
  <2> HIDE DEF Size, Held
  <2> QED
    BY <2>1, <2>2
<1>3. P = Nat
  <2>1. P \in SUBSET Nat
    OBVIOUS
  <2> HIDE DEF P
  <2> QED
    BY <1>1, <1>2, <2>1, SetInduction, Zenon
<1>4. Size(n) /\ Held(n)
  <2>1. n <= n
    OBVIOUS
  <2> HIDE DEF Size, Held
  <2> QED
    BY <1>3, <2>1, Zenon
<1> QED
  BY <1>0, <1>4, Zenon DEF Filled

-----------------------------------------------------------------------------
(* The tables. *)

\* What AcpiInfo can hold.
Pairs == [irq : Nat, gsi : Nat]
Infos == [local_apic_address : Addresses, io_apic_address : Addresses,
          hpet_address : Addresses, int_overrides : {s \in Seq(Pairs) : Len(s) <= MAX_OVERRIDES}]

\* The entries of each type have the fields the walk reads.
LEMMA EntryFields ==
  ASSUME NEW e \in MadtEntries
  PROVE  /\ e.type \in {"IoApic", "LocalApicAddressOverride"} => e.address \in Addresses
         /\ e.type = "InterruptSourceOverride" => [irq |-> e.irq, gsi |-> e.gsi] \in Pairs
<1>1. CASE e \in [type : {"IoApic", "LocalApicAddressOverride"}, address : Addresses, length : Nat]
  BY <1>1
<1>2. CASE e \in [type : {"InterruptSourceOverride"}, irq : Nat, gsi : Nat, length : Nat]
  BY <1>2 DEF Pairs
<1>3. CASE e \in [type : {"LocalApic"}, length : Nat]
  BY <1>3
<1> QED
  BY <1>1, <1>2, <1>3 DEF MadtEntries

\* The walk meets entries of the MADT only.
LEMMA WalkedType ==
  ASSUME NEW s \in Seq(MadtEntries)
  PROVE  Walked(s) \in Seq(MadtEntries)
<1> DEFINE stops == {i \in DOMAIN s : s[i].length = 0}
<1>1. CASE stops = {}
  BY <1>1 DEF Walked
<1>2. CASE stops # {}
  <2>1. stops \in SUBSET Nat /\ stops \subseteq 1 .. Len(s)
    OBVIOUS
  <2>2. Min(stops) \in 1 .. Len(s)
    <3> HIDE DEF stops
    <3> QED
      BY <1>2, <2>1, MinIsLeast, Zenon
  <2>3. SubSeq(s, 1, Min(stops)) \in Seq(MadtEntries)
    <3> DEFINE m == Min(stops)
    <3>1. m \in 1 .. Len(s)
      BY <2>2
    <3> HIDE DEF m
    <3>2. SubSeq(s, 1, m) \in Seq(MadtEntries)
      BY <3>1
    <3> QED
      BY <3>2 DEF m
  <2> QED
    BY <1>2, <2>3 DEF Walked
<1> QED
  BY <1>1, <1>2

\* What one entry does to each field.
LEMMA EntryStep ==
  ASSUME NEW i \in Infos, NEW e \in MadtEntries
  PROVE  /\ MadtEntry(i, e) \in Infos
         /\ MadtEntry(i, e).hpet_address = i.hpet_address
         /\ MadtEntry(i, e).io_apic_address =
              IF IsIoApic(e) THEN e.address ELSE i.io_apic_address
         /\ MadtEntry(i, e).local_apic_address =
              IF IsLocalApic(e) THEN e.address ELSE i.local_apic_address
         /\ MadtEntry(i, e).int_overrides =
              IF IsOverride(e) /\ Len(i.int_overrides) < MAX_OVERRIDES
              THEN Append(i.int_overrides, [irq |-> e.irq, gsi |-> e.gsi]) ELSE i.int_overrides
<1> USE DEF IsIoApic, IsLocalApic, IsOverride
<1>1. CASE e.type = "IoApic"
  <2>1. MadtEntry(i, e) = [i EXCEPT !.io_apic_address = e.address] /\ e.address \in Addresses
    BY <1>1, EntryFields, Zenon DEF MadtEntry
  <2> QED
    BY <1>1, <2>1 DEF Infos
<1>2. CASE e.type = "LocalApicAddressOverride"
  <2>1. MadtEntry(i, e) = [i EXCEPT !.local_apic_address = e.address] /\ e.address \in Addresses
    BY <1>2, EntryFields, Zenon DEF MadtEntry
  <2> QED
    BY <1>2, <2>1 DEF Infos
<1>3. CASE e.type = "InterruptSourceOverride"
  <2> DEFINE x == [irq |-> e.irq, gsi |-> e.gsi]
  <2>1. MadtEntry(i, e) = AddOverride(i, e) /\ x \in Pairs
    BY <1>3, EntryFields DEF MadtEntry
  <2>2. AddOverride(i, e) = IF Len(i.int_overrides) < MAX_OVERRIDES
                            THEN [i EXCEPT !.int_overrides = Append(@, x)] ELSE i
    BY DEF AddOverride
  <2> HIDE DEF x
  <2>3. CASE Len(i.int_overrides) < MAX_OVERRIDES
    <3>1. /\ Append(i.int_overrides, x) \in Seq(Pairs)
          /\ Len(Append(i.int_overrides, x)) <= MAX_OVERRIDES
      BY <2>1, <2>3, OverridesAssumption DEF Infos
    <3> DEFINE a == Append(i.int_overrides, x)
    <3>2. a \in {s \in Seq(Pairs) : Len(s) <= MAX_OVERRIDES}
      BY <3>1
    <3>3. MadtEntry(i, e) = [i EXCEPT !.int_overrides = a]
      BY <2>1, <2>2, <2>3
    <3> HIDE DEF a
    <3>4. /\ MadtEntry(i, e) \in Infos
          /\ MadtEntry(i, e).hpet_address = i.hpet_address
          /\ MadtEntry(i, e).io_apic_address = i.io_apic_address
          /\ MadtEntry(i, e).local_apic_address = i.local_apic_address
          /\ MadtEntry(i, e).int_overrides = a
      BY <3>2, <3>3 DEF Infos
    <3> QED
      BY <1>3, <2>3, <3>4 DEF a, x
  <2>4. CASE ~(Len(i.int_overrides) < MAX_OVERRIDES)
    BY <1>3, <2>1, <2>2, <2>4
  <2> QED
    BY <2>3, <2>4
<1>4. CASE e.type \notin {"IoApic", "LocalApicAddressOverride", "InterruptSourceOverride"}
  BY <1>4 DEF MadtEntry
<1> QED
  BY <1>1, <1>2, <1>3, <1>4

\* w lists the overrides the walk has stored after each entry.
Collects(w, es, n) ==
    /\ w \in [0 .. n -> Seq(Pairs)] /\ w[0] = << >>
    /\ \A k \in 1 .. n :
         w[k] = IF IsOverride(es[k]) /\ Len(w[k - 1]) < MAX_OVERRIDES
                THEN Append(w[k - 1], [irq |-> es[k].irq, gsi |-> es[k].gsi]) ELSE w[k - 1]

\* The list the walk builds holds the first overrides, in their order.
LEMMA OverridesCollected ==
  ASSUME NEW es \in Seq(MadtEntries), NEW n \in Nat, n = Len(es), NEW w, Collects(w, es, n)
  PROVE  w[n] = Overrides(es)
<1> DEFINE M == {k \in DOMAIN es : IsOverride(es[k])}
           R == [k \in 0 .. n |-> Cardinality({j \in M : j <= k})]
           v == [k \in M |-> [irq |-> es[k].irq, gsi |-> es[k].gsi]]
           kth(r) == CHOOSE i \in M : Cardinality({j \in M : j <= i}) = r
           size == Min({Cardinality(M), MAX_OVERRIDES})
<1>1. M \in SUBSET (1 .. n) /\ DOMAIN es = 1 .. n /\ MAX_OVERRIDES \in Nat
  BY OverridesAssumption
<1>2. v \in [M -> Pairs]
  <2>1. \A k \in M : [irq |-> es[k].irq, gsi |-> es[k].gsi] \in Pairs
    BY EntryFields DEF IsOverride
  <2> HIDE DEF M
  <2> QED
    BY <2>1
<1>3. Fills(w, v, M, n, MAX_OVERRIDES)
  BY <1>1, Zenon DEF Fills, Collects
<1>4. Overrides(es) = [r \in 1 .. size |-> [irq |-> es[kth(r)].irq, gsi |-> es[kth(r)].gsi]]
  BY DEF Overrides
<1> HIDE DEF M
<1>5. Counts(R, M, n) /\ R[n] = Cardinality(M)
  <2>1. R = [k \in 0 .. n |-> Cardinality({j \in M : j <= k})]
    OBVIOUS
  <2> HIDE DEF R
  <2> QED
    BY <1>1, <2>1, CountSteps, Zenon
<1>6. \A i \in M : i \in 0 .. n /\ R[i] = Cardinality({j \in M : j <= i})
  BY <1>1
<1> HIDE DEF R
<1>7. /\ \A r \in 1 .. R[n] : \E i \in M : R[i] = r
      /\ \A i, j \in M : R[i] = R[j] => i = j
  <2>1. Ranked(R, M, n)
    BY <1>1, <1>5, Ranks, Zenon
  <2> QED
    BY <2>1 DEF Ranked
<1>8. /\ Len(w[n]) = IF R[n] < MAX_OVERRIDES THEN R[n] ELSE MAX_OVERRIDES
      /\ \A i \in M : R[i] <= MAX_OVERRIDES => w[n][R[i]] = v[i]
  <2> HIDE DEF v
  <2>2. w \in [0 .. n -> Seq(Pairs)]
    BY Zenon DEF Collects
  <2>1. Filled(w[n], v, R, M, n, MAX_OVERRIDES)
    BY <2>2, <1>1, <1>2, <1>3, <1>5, FirstWrites, Zenon
  <2> QED
    BY <2>1, Zenon DEF Filled
<1>9. size = IF R[n] < MAX_OVERRIDES THEN R[n] ELSE MAX_OVERRIDES
  <2> DEFINE c == Cardinality(M)
  <2>1. c = R[n] /\ c \in Nat
    BY <1>5 DEF Counts
  <2> HIDE DEF c
  <2>2. Min({c, MAX_OVERRIDES}) \in {c, MAX_OVERRIDES} /\ \A y \in {c, MAX_OVERRIDES} : Min({c, MAX_OVERRIDES}) <= y
    <3>1. {c, MAX_OVERRIDES} \in SUBSET Nat /\ {c, MAX_OVERRIDES} # {}
      BY <1>1, <2>1
    <3> QED
      BY <3>1, MinIsLeast, Zenon
  <2>3. Min({c, MAX_OVERRIDES}) = IF c < MAX_OVERRIDES THEN c ELSE MAX_OVERRIDES
    BY <1>1, <2>1, <2>2
  <2> QED
    BY <2>1, <2>3 DEF c
<1> HIDE DEF size
<1>10. ASSUME NEW r \in 1 .. size
       PROVE  w[n][r] = [irq |-> es[kth(r)].irq, gsi |-> es[kth(r)].gsi]
  <2>1. r \in 1 .. R[n] /\ r <= MAX_OVERRIDES
    BY <1>1, <1>5, <1>9 DEF Counts
  <2>2. \E i \in M : Cardinality({j \in M : j <= i}) = r
    BY <1>6, <1>7, <2>1
  <2>3. kth(r) \in M /\ Cardinality({j \in M : j <= kth(r)}) = r
    BY <2>2, Zenon
  <2> HIDE DEF kth
  <2>4. R[kth(r)] = r
    BY <1>6, <2>3, Zenon
  <2>5. w[n][r] = v[kth(r)]
    BY <1>8, <2>1, <2>3, <2>4, Zenon
  <2> QED
    BY <2>3, <2>5
<1>11. Len(w[n]) = size /\ w[n] \in Seq(Pairs)
  <2>1. n \in 0 .. n
    OBVIOUS
  <2> QED
    BY <1>8, <1>9, <2>1 DEF Collects
<1>12. w[n] = [r \in 1 .. size |-> w[n][r]]
  BY <1>11
<1> HIDE DEF kth
<1> QED
  BY <1>4, <1>10, <1>12

\* The walk over a MADT: what it leaves is described by the entries alone.
LEMMA MadtIsRead ==
  ASSUME NEW i \in Infos, NEW lapic_address \in Addresses, NEW all \in Seq(MadtEntries),
         NEW madt, madt.lapic = lapic_address, madt.entries = all
  PROVE  /\ parse_madt(i, madt) \in Infos
         /\ parse_madt(i, madt).hpet_address = i.hpet_address
         /\ i.io_apic_address = "high" /\ i.int_overrides = << >> =>
              \A hpet : /\ parse_madt(i, madt).local_apic_address = Described(madt, hpet).local_apic_address
                        /\ parse_madt(i, madt).io_apic_address = Described(madt, hpet).io_apic_address
                        /\ parse_madt(i, madt).int_overrides = Described(madt, hpet).int_overrides
<1> DEFINE es == Walked(all)
           n == Len(es)
           start == [i EXCEPT !.local_apic_address = lapic_address]
           st == [k \in 1 .. n |-> [x \in Infos |-> MadtEntry(x, es[k])]]
           IsWalk(f) == f = [k \in 0 .. n |-> IF k = 0 THEN start ELSE MadtEntry(f[k - 1], es[k])]
           walk == CHOOSE f : IsWalk(f)
<1>1. es \in Seq(MadtEntries) /\ n \in Nat /\ \A k \in 1 .. n : es[k] \in MadtEntries
  <2>1. es \in Seq(MadtEntries)
    BY WalkedType
  <2> HIDE DEF es
  <2> QED
    BY <2>1
<1>2. start \in Infos
  BY DEF Infos
<1> HIDE DEF es, n, start
<1>3. st \in [1 .. n -> [Infos -> Infos]]
  <2>1. \A k \in 1 .. n : \A x \in Infos : MadtEntry(x, es[k]) \in Infos
    BY <1>1, EntryStep, Zenon
  <2> QED
    BY <2>1
<1>4. PICK f \in [0 .. n -> Infos] :
          Iterates(f, start, n, st)
  <2> HIDE DEF st
  <2>1. n \in Nat
    BY <1>1
  <2> QED
    BY <2>1, <1>2, <1>3, FoldExists, Zenon
<1>5. IsWalk(f)
  <2>1. \A k \in 1 .. n : f[k - 1] \in Infos /\ st[k][f[k - 1]] = MadtEntry(f[k - 1], es[k])
    BY <1>1
  <2>2. \A k \in 0 .. n : k # 0 => k \in 1 .. n
    BY <1>1
  <2> HIDE DEF st
  <2>3. \A k \in 0 .. n : f[k] = IF k = 0 THEN start ELSE MadtEntry(f[k - 1], es[k])
    BY <1>4, <2>1, <2>2 DEF Iterates
  <2> QED
    BY <2>3
<1>6. IsWalk(walk)
  <2> HIDE DEF IsWalk
  <2> QED
    BY <1>5, Zenon
<1>7. walk[n] = parse_madt(i, madt)
  BY Zenon DEF parse_madt, es, n, start
<1>8. walk[0] = start /\ \A k \in 1 .. n : walk[k] = MadtEntry(walk[k - 1], es[k])
  <2> HIDE DEF walk
  <2>1. \A k \in 0 .. n : walk[k] = IF k = 0 THEN start ELSE MadtEntry(walk[k - 1], es[k])
    BY <1>6, Zenon
  <2>2. 0 \in 0 .. n /\ \A k \in 1 .. n : k \in 0 .. n /\ k # 0
    BY <1>1
  <2> QED
    BY <2>1, <2>2
<1> HIDE DEF walk, IsWalk
<1>9. \A k \in 0 .. n : walk[k] \in Infos
  <2>1. \A k \in 1 .. n : walk[k - 1] \in Infos => walk[k] \in Infos
    BY <1>1, <1>8, EntryStep, Zenon
  <2> QED
    BY <1>1, <1>2, <1>8, <2>1, Kept, Zenon
<1>10. \A k \in 1 .. n :
         /\ walk[k].hpet_address = walk[k - 1].hpet_address
         /\ walk[k].io_apic_address =
              IF IsIoApic(es[k]) THEN es[k].address ELSE walk[k - 1].io_apic_address
         /\ walk[k].local_apic_address =
              IF IsLocalApic(es[k]) THEN es[k].address ELSE walk[k - 1].local_apic_address
         /\ walk[k].int_overrides =
              IF IsOverride(es[k]) /\ Len(walk[k - 1].int_overrides) < MAX_OVERRIDES
              THEN Append(walk[k - 1].int_overrides, [irq |-> es[k].irq, gsi |-> es[k].gsi])
              ELSE walk[k - 1].int_overrides
  <2> SUFFICES ASSUME NEW k \in 1 .. n
               PROVE  /\ walk[k].hpet_address = walk[k - 1].hpet_address
                      /\ walk[k].io_apic_address =
                           IF IsIoApic(es[k]) THEN es[k].address ELSE walk[k - 1].io_apic_address
                      /\ walk[k].local_apic_address =
                           IF IsLocalApic(es[k]) THEN es[k].address ELSE walk[k - 1].local_apic_address
                      /\ walk[k].int_overrides =
                           IF IsOverride(es[k]) /\ Len(walk[k - 1].int_overrides) < MAX_OVERRIDES
                           THEN Append(walk[k - 1].int_overrides, [irq |-> es[k].irq, gsi |-> es[k].gsi])
                           ELSE walk[k - 1].int_overrides
    BY Zenon
  <2>1. walk[k - 1] \in Infos /\ es[k] \in MadtEntries /\ walk[k] = MadtEntry(walk[k - 1], es[k])
    <3>1. k - 1 \in 0 .. n
      BY <1>1
    <3> QED
      BY <1>1, <1>8, <1>9, <3>1
  <2> DEFINE x == walk[k - 1]
             e == es[k]
  <2>2. x \in Infos /\ e \in MadtEntries
    BY <2>1
  <2> HIDE DEF x, e
  <2>3. /\ MadtEntry(x, e).hpet_address = x.hpet_address
        /\ MadtEntry(x, e).io_apic_address =
             IF IsIoApic(e) THEN e.address ELSE x.io_apic_address
        /\ MadtEntry(x, e).local_apic_address =
             IF IsLocalApic(e) THEN e.address ELSE x.local_apic_address
        /\ MadtEntry(x, e).int_overrides =
             IF IsOverride(e) /\ Len(x.int_overrides) < MAX_OVERRIDES
             THEN Append(x.int_overrides, [irq |-> e.irq, gsi |-> e.gsi]) ELSE x.int_overrides
    BY <2>2, EntryStep, Zenon
  <2> QED
    BY <2>1, <2>3, Zenon DEF x, e
<1>11. walk[n].hpet_address = i.hpet_address
  <2> DEFINE h == [k \in 0 .. n |-> walk[k].hpet_address]
             S == {i.hpet_address}
  <2>1. \A k \in 0 .. n : h[k] = walk[k].hpet_address
    OBVIOUS
  <2>2. 0 \in 0 .. n /\ n \in 0 .. n /\ \A k \in 1 .. n : k \in 0 .. n /\ k - 1 \in 0 .. n
    BY <1>1
  <2>3. start.hpet_address = i.hpet_address
    BY DEF start, Infos
  <2> HIDE DEF h
  <2>4. h[0] \in S /\ \A k \in 1 .. n : h[k - 1] \in S => h[k] \in S
    BY <1>8, <1>10, <2>1, <2>2, <2>3, Zenon
  <2> HIDE DEF S
  <2>5. \A k \in 0 .. n : h[k] \in S
    BY <1>1, <2>4, Kept, Zenon
  <2> QED
    BY <2>1, <2>2, <2>5 DEF S
<1>12. DOMAIN es = 1 .. n /\ n \in 0 .. n /\ 0 \in 0 .. n
       /\ \A k \in 1 .. n : k \in 0 .. n /\ k - 1 \in 0 .. n
  BY <1>1 DEF n
<1>13. walk[n].local_apic_address = LastAddress(es, IsLocalApic, lapic_address)
  <2> DEFINE H == {k \in DOMAIN es : IsLocalApic(es[k])}
             g == [k \in 0 .. n |-> walk[k].local_apic_address]
             v == [k \in 1 .. n |-> es[k].address]
  <2>1. H \in SUBSET (1 .. n)
    BY <1>12
  <2>2. \A k \in 0 .. n : g[k] = walk[k].local_apic_address
    OBVIOUS
  <2>3. start.local_apic_address = lapic_address
    BY DEF start, Infos
  <2> HIDE DEF g
  <2>4. /\ \A k \in (1 .. n) \ H : g[k] = g[k - 1]
        /\ \A k \in H : g[k] = v[k]
    BY <1>10, <1>12, <2>2, Zenon
  <2>5. LastAddress(es, IsLocalApic, lapic_address) = IF H = {} THEN lapic_address ELSE es[Max(H)].address
    BY DEF LastAddress
  <2> HIDE DEF H, v
  <2>6. g[n] = IF H = {} THEN g[0] ELSE v[Max(H)]
    <3>1. Writes(g, v, H, n)
      BY <2>4, Zenon DEF Writes
    <3> QED
      BY <1>1, <2>1, <3>1, LastWrite, Zenon
  <2>7. H # {} => v[Max(H)] = es[Max(H)].address
    BY <1>1, <2>1, MaxIsGreatest, Zenon DEF v
  <2> QED
    BY <1>8, <1>12, <2>2, <2>3, <2>5, <2>6, <2>7
<1>14. i.io_apic_address = "high" => walk[n].io_apic_address = LastAddress(es, IsIoApic, "high")
  <2> DEFINE H == {k \in DOMAIN es : IsIoApic(es[k])}
             g == [k \in 0 .. n |-> walk[k].io_apic_address]
             v == [k \in 1 .. n |-> es[k].address]
  <2>1. H \in SUBSET (1 .. n)
    BY <1>12
  <2>2. \A k \in 0 .. n : g[k] = walk[k].io_apic_address
    OBVIOUS
  <2>3. start.io_apic_address = i.io_apic_address
    BY DEF start, Infos
  <2> HIDE DEF g
  <2>4. /\ \A k \in (1 .. n) \ H : g[k] = g[k - 1]
        /\ \A k \in H : g[k] = v[k]
    BY <1>10, <1>12, <2>2, Zenon
  <2>5. LastAddress(es, IsIoApic, "high") = IF H = {} THEN "high" ELSE es[Max(H)].address
    BY DEF LastAddress
  <2> HIDE DEF H, v
  <2>6. g[n] = IF H = {} THEN g[0] ELSE v[Max(H)]
    <3>1. Writes(g, v, H, n)
      BY <2>4, Zenon DEF Writes
    <3> QED
      BY <1>1, <2>1, <3>1, LastWrite, Zenon
  <2>7. H # {} => v[Max(H)] = es[Max(H)].address
    BY <1>1, <2>1, MaxIsGreatest, Zenon DEF v
  <2> QED
    BY <1>8, <1>12, <2>2, <2>3, <2>5, <2>6, <2>7
<1>15. i.int_overrides = << >> => walk[n].int_overrides = Overrides(es)
  <2> SUFFICES ASSUME i.int_overrides = << >> PROVE walk[n].int_overrides = Overrides(es)
    OBVIOUS
  <2> DEFINE w == [k \in 0 .. n |-> walk[k].int_overrides]
  <2>1. \A k \in 0 .. n : w[k] = walk[k].int_overrides
    OBVIOUS
  <2>2. \A k \in 0 .. n : walk[k].int_overrides \in Seq(Pairs)
    BY <1>9 DEF Infos
  <2>3. w \in [0 .. n -> Seq(Pairs)]
    BY <2>2
  <2>4. start.int_overrides = i.int_overrides
    BY DEF start, Infos
  <2> HIDE DEF w
  <2>5. w[0] = << >>
    BY <1>8, <1>12, <2>1, <2>4
  <2>6. \A k \in 1 .. n :
          w[k] = IF IsOverride(es[k]) /\ Len(w[k - 1]) < MAX_OVERRIDES
                 THEN Append(w[k - 1], [irq |-> es[k].irq, gsi |-> es[k].gsi]) ELSE w[k - 1]
    BY <1>10, <1>12, <2>1, Zenon
  <2>7. n = Len(es)
    BY DEF n
  <2>8. w[n] = Overrides(es)
    <3>1. Collects(w, es, n)
      BY <2>3, <2>5, <2>6, Zenon DEF Collects
    <3> QED
      BY <1>1, <2>7, <3>1, OverridesCollected, Zenon
  <2> QED
    BY <1>12, <2>1, <2>8
<1>16. \A hpet : /\ Described(madt, hpet).local_apic_address = LastAddress(es, IsLocalApic, lapic_address)
                 /\ Described(madt, hpet).io_apic_address = LastAddress(es, IsIoApic, "high")
                 /\ Described(madt, hpet).int_overrides = Overrides(es)
  BY DEF Described, es
<1> QED
  BY <1>7, <1>9, <1>11, <1>12, <1>13, <1>14, <1>15, <1>16

\* What one table does to each field.
LEMMA TableStep ==
  ASSUME NEW x \in Infos, NEW t \in AcpiTables
  PROVE  /\ parse_table(x, t) \in Infos
         /\ parse_table(x, t).hpet_address = IF IsHpet(t) THEN t.address ELSE x.hpet_address
         /\ ~IsMadt(t) => /\ parse_table(x, t).local_apic_address = x.local_apic_address
                          /\ parse_table(x, t).io_apic_address = x.io_apic_address
                          /\ parse_table(x, t).int_overrides = x.int_overrides
<1>1. CASE t.at = "null"
  <2>1. parse_table(x, t) = x /\ ~IsMadt(t) /\ ~IsHpet(t)
    BY <1>1 DEF parse_table, IsMadt, IsHpet
  <2> QED
    BY <2>1
<1>2. CASE t.at # "null" /\ t.signature = "APIC"
  <2>1. t.lapic \in Addresses /\ t.entries \in Seq(MadtEntries)
    BY <1>2 DEF AcpiTables, NullTable
  <2>2. parse_table(x, t) = parse_madt(x, t) /\ IsMadt(t) /\ ~IsHpet(t)
    BY <1>2 DEF parse_table, IsMadt, IsHpet
  <2> QED
    BY <2>1, <2>2, MadtIsRead
<1>3. CASE t.at # "null" /\ t.signature = "HPET"
  <2>1. t.address \in Addresses
    BY <1>3 DEF AcpiTables, NullTable
  <2>2. parse_table(x, t) = [x EXCEPT !.hpet_address = t.address] /\ ~IsMadt(t) /\ IsHpet(t)
    BY <1>3 DEF parse_table, IsMadt, IsHpet
  <2> QED
    BY <2>1, <2>2 DEF Infos
<1>4. CASE t.at # "null" /\ t.signature \notin {"APIC", "HPET"}
  <2>1. parse_table(x, t) = x /\ ~IsMadt(t) /\ ~IsHpet(t)
    BY <1>4 DEF parse_table, IsMadt, IsHpet
  <2> QED
    BY <2>1
<1> QED
  BY <1>1, <1>2, <1>3, <1>4

\* The first MADT is read whole.
LEMMA MadtStep ==
  ASSUME NEW x \in Infos, NEW t \in AcpiTables, NEW hpet, IsMadt(t),
         x.io_apic_address = "high", x.int_overrides = << >>
  PROVE  /\ parse_table(x, t).local_apic_address = Described(t, hpet).local_apic_address
         /\ parse_table(x, t).io_apic_address = Described(t, hpet).io_apic_address
         /\ parse_table(x, t).int_overrides = Described(t, hpet).int_overrides
<1>1. t.lapic \in Addresses /\ t.entries \in Seq(MadtEntries)
  BY DEF AcpiTables, NullTable, IsMadt
<1>2. parse_table(x, t) = parse_madt(x, t)
  BY DEF parse_table, IsMadt
<1> QED
  BY <1>1, <1>2, MadtIsRead

\* The walk over the tables of a root table.
RootWalk(walk, ts) ==
    /\ walk \in [0 .. Len(ts) -> Infos] /\ walk[0] = AcpiInfo
    /\ \A k \in 1 .. Len(ts) : walk[k] = parse_table(walk[k - 1], ts[k])

\* parse_root takes that walk.
LEMMA RootIsWalked ==
  ASSUME NEW root, NEW ts \in Seq(AcpiTables), root.tables = ts
  PROVE  \E walk : RootWalk(walk, ts) /\ (root.valid => parse_root(AcpiInfo, root) = walk[Len(ts)])
<1> DEFINE n == Len(ts)
           st == [k \in 1 .. n |-> [x \in Infos |-> parse_table(x, ts[k])]]
           IsWalk(f) == f = [k \in 0 .. n |-> IF k = 0 THEN AcpiInfo ELSE parse_table(f[k - 1], ts[k])]
           walk == CHOOSE f : IsWalk(f)
<1>1. n \in Nat /\ \A k \in 1 .. n : ts[k] \in AcpiTables
  OBVIOUS
<1>2. AcpiInfo \in Infos
  BY OverridesAssumption DEF AcpiInfo, Infos, Addresses
<1>3. root.valid => parse_root(AcpiInfo, root) = walk[n]
  BY Zenon DEF parse_root
<1> HIDE DEF n
<1>4. st \in [1 .. n -> [Infos -> Infos]]
  <2>1. \A k \in 1 .. n : \A x \in Infos : parse_table(x, ts[k]) \in Infos
    BY <1>1, TableStep
  <2> QED
    BY <2>1
<1>5. PICK f \in [0 .. n -> Infos] : Iterates(f, AcpiInfo, n, st)
  <2> HIDE DEF st
  <2> QED
    BY <1>1, <1>2, <1>4, FoldExists, Zenon
<1>6. IsWalk(f)
  <2>1. \A k \in 1 .. n : f[k - 1] \in Infos /\ st[k][f[k - 1]] = parse_table(f[k - 1], ts[k])
    BY <1>1
  <2>2. \A k \in 0 .. n : k # 0 => k \in 1 .. n
    BY <1>1
  <2> HIDE DEF st
  <2>3. \A k \in 0 .. n : f[k] = IF k = 0 THEN AcpiInfo ELSE parse_table(f[k - 1], ts[k])
    BY <1>5, <2>1, <2>2 DEF Iterates
  <2> QED
    BY <2>3
<1>7. IsWalk(walk)
  <2> HIDE DEF IsWalk
  <2> QED
    BY <1>6, Zenon
<1> HIDE DEF walk
<1>8. \A k \in 0 .. n : walk[k] = IF k = 0 THEN AcpiInfo ELSE parse_table(walk[k - 1], ts[k])
  BY <1>7, Zenon
<1>9. DOMAIN walk = 0 .. n /\ walk = [k \in 0 .. n |-> walk[k]]
  BY <1>7
<1> HIDE DEF IsWalk
<1>10. walk[0] = AcpiInfo /\ \A k \in 1 .. n : walk[k] = parse_table(walk[k - 1], ts[k])
  <2>1. 0 \in 0 .. n /\ \A k \in 1 .. n : k \in 0 .. n /\ k # 0
    BY <1>1
  <2> QED
    BY <1>8, <2>1
<1>11. \A k \in 0 .. n : walk[k] \in Infos
  <2>1. \A k \in 1 .. n : walk[k - 1] \in Infos => walk[k] \in Infos
    BY <1>1, <1>10, TableStep, Zenon
  <2> QED
    BY <1>1, <1>2, <1>10, <2>1, Kept, Zenon
<1>12. walk \in [0 .. n -> Infos]
  BY <1>9, <1>11
<1> QED
  BY <1>3, <1>10, <1>12 DEF RootWalk, n

\* The devices found through a valid root table with one MADT are those the
\* tables describe.
LEMMA TablesAreRead ==
  ASSUME NEW root, NEW ts \in Seq(AcpiTables), root.tables = ts, root.valid,
         \A i, j \in DOMAIN ts : IsMadt(ts[i]) /\ IsMadt(ts[j]) => i = j
  PROVE  parse_root(AcpiInfo, root) = DescribedDevices(ts)
<1>1. PICK walk : RootWalk(walk, ts) /\ parse_root(AcpiInfo, root) = walk[Len(ts)]
  BY RootIsWalked
<1> DEFINE n == Len(ts)
<1>2. n \in Nat /\ DOMAIN ts = 1 .. n /\ n \in 0 .. n /\ 0 \in 0 .. n
  OBVIOUS
<1>3. \A k \in 1 .. n : k \in 0 .. n /\ k - 1 \in 0 .. n /\ ts[k] \in AcpiTables
  OBVIOUS
<1> HIDE DEF n
<1>4. /\ \A k \in 0 .. n : walk[k] \in Infos
      /\ walk[0] = AcpiInfo /\ \A k \in 1 .. n : walk[k] = parse_table(walk[k - 1], ts[k])
  BY <1>1 DEF RootWalk, n
<1> DEFINE hpet == LastAddress(ts, IsHpet, "null")
<1>5. walk[n].hpet_address = hpet
  <2> DEFINE H == {k \in DOMAIN ts : IsHpet(ts[k])}
             g == [k \in 0 .. n |-> walk[k].hpet_address]
             v == [k \in 1 .. n |-> ts[k].address]
  <2>1. H \in SUBSET (1 .. n)
    BY <1>2
  <2>2. \A k \in 0 .. n : g[k] = walk[k].hpet_address
    OBVIOUS
  <2>3. AcpiInfo.hpet_address = "null"
    BY DEF AcpiInfo
  <2> HIDE DEF g
  <2>4. \A k \in 1 .. n : g[k] = IF IsHpet(ts[k]) THEN ts[k].address ELSE g[k - 1]
    <3> SUFFICES ASSUME NEW k \in 1 .. n
                 PROVE  g[k] = IF IsHpet(ts[k]) THEN ts[k].address ELSE g[k - 1]
      BY Zenon
    <3>1. walk[k - 1] \in Infos /\ walk[k] = parse_table(walk[k - 1], ts[k])
      BY <1>3, <1>4
    <3>2. walk[k].hpet_address = IF IsHpet(ts[k]) THEN ts[k].address ELSE walk[k - 1].hpet_address
      <4> DEFINE x == walk[k - 1]
                 t == ts[k]
      <4>1. x \in Infos /\ t \in AcpiTables
        BY <1>3, <3>1
      <4> HIDE DEF x, t
      <4>2. parse_table(x, t).hpet_address = IF IsHpet(t) THEN t.address ELSE x.hpet_address
        BY <4>1, TableStep, Zenon
      <4> QED
        BY <3>1, <4>2, Zenon DEF x, t
    <3> QED
      BY <1>3, <2>2, <3>2
  <2>5. /\ \A k \in (1 .. n) \ H : g[k] = g[k - 1]
        /\ \A k \in H : g[k] = v[k]
    BY <1>2, <2>4
  <2>6. hpet = IF H = {} THEN "null" ELSE ts[Max(H)].address
    BY DEF LastAddress
  <2> HIDE DEF H, v, hpet
  <2>7. g[n] = IF H = {} THEN g[0] ELSE v[Max(H)]
    <3>1. Writes(g, v, H, n)
      BY <2>5, Zenon DEF Writes
    <3> QED
      BY <1>2, <2>1, <3>1, LastWrite, Zenon
  <2>8. H # {} => v[Max(H)] = ts[Max(H)].address
    BY <1>2, <2>1, MaxIsGreatest, Zenon DEF v
  <2> QED
    BY <1>2, <1>4, <2>2, <2>3, <2>6, <2>7, <2>8
<1> HIDE DEF hpet
<1> DEFINE M == {k \in DOMAIN ts : IsMadt(ts[k])}
           Rest(x) == <<x.local_apic_address, x.io_apic_address, x.int_overrides>>
<1>6. M \in SUBSET (1 .. n)
  BY <1>2
<1>7. Rest(walk[n]) = IF M = {} THEN Rest(AcpiInfo) ELSE Rest(Described(ts[Max(M)], hpet))
  <2> DEFINE g == [k \in 0 .. n |-> Rest(walk[k])]
             v == [k \in 1 .. n |-> Rest(Described(ts[k], hpet))]
  <2>1. \A k \in 0 .. n : g[k] = Rest(walk[k])
    BY Zenon
  <2>2. \A k \in 1 .. n : v[k] = Rest(Described(ts[k], hpet))
    BY Zenon
  <2>3. g[0] = Rest(AcpiInfo)
    BY <1>2, <1>4, <2>1, Zenon
  <2>4. Rest(AcpiInfo) = <<"high", "high", << >> >>
    BY DEF AcpiInfo
  <2> HIDE DEF g, v
  <2>5. ASSUME NEW k \in (1 .. n) \ M PROVE g[k] = g[k - 1]
    <3>1. walk[k - 1] \in Infos /\ walk[k] = parse_table(walk[k - 1], ts[k])
      BY <1>3, <1>4
    <3>2. ~IsMadt(ts[k])
      BY <1>2, <2>5
    <3>3. Rest(walk[k]) = Rest(walk[k - 1])
      BY <1>3, <3>1, <3>2, TableStep, SMTT(30)
    <3> HIDE DEF Rest
    <3> QED
      BY <1>3, <2>1, <3>3
  <2>6. ASSUME NEW k \in M, g[k - 1] = g[0] \/ \E j \in M : j < k PROVE g[k] = v[k]
    <3>1. k \in 1 .. n /\ IsMadt(ts[k])
      BY <1>2
    <3>2. walk[k - 1] \in Infos /\ walk[k] = parse_table(walk[k - 1], ts[k])
      BY <1>3, <1>4, <3>1
    <3>3. ~ \E j \in M : j < k
      BY <1>2, <3>1
    <3>4. Rest(walk[k - 1]) = Rest(AcpiInfo)
      <4> HIDE DEF Rest, M
      <4> QED
        BY <1>3, <2>1, <2>3, <2>6, <3>1, <3>3
    <3>5. walk[k - 1].io_apic_address = "high" /\ walk[k - 1].int_overrides = << >>
      BY <2>4, <3>4
    <3>6. Rest(walk[k]) = Rest(Described(ts[k], hpet))
      <4> DEFINE x == walk[k - 1]
                 t == ts[k]
      <4>1. x \in Infos /\ t \in AcpiTables /\ IsMadt(t)
        BY <1>3, <3>1, <3>2
      <4>2. x.io_apic_address = "high" /\ x.int_overrides = << >>
        BY <3>5
      <4>3. walk[k] = parse_table(x, t)
        BY <3>2
      <4> HIDE DEF x, t
      <4>4. Rest(parse_table(x, t)) = Rest(Described(t, hpet))
        <5>1. /\ parse_table(x, t).local_apic_address = Described(t, hpet).local_apic_address
              /\ parse_table(x, t).io_apic_address = Described(t, hpet).io_apic_address
              /\ parse_table(x, t).int_overrides = Described(t, hpet).int_overrides
          BY <4>1, <4>2, MadtStep
        <5> QED
          BY <5>1, Zenon
      <4> QED
        BY <4>3, <4>4, Zenon DEF t
    <3> HIDE DEF Rest
    <3> QED
      BY <1>3, <2>1, <2>2, <3>1, <3>6
  <2> HIDE DEF M, Rest
  <2>7. Writes(g, v, M, n)
    BY <2>5, <2>6, Zenon DEF Writes
  <2>8. g[n] = IF M = {} THEN g[0] ELSE v[Max(M)]
    BY <1>2, <1>6, <2>7, LastWrite, Zenon
  <2>9. M # {} => Max(M) \in 1 .. n
    BY <1>2, <1>6, MaxIsGreatest, Zenon
  <2> QED
    BY <1>2, <2>1, <2>2, <2>3, <2>8, <2>9, Zenon
<1>8. DescribedDevices(ts) = IF M = {} THEN [AcpiInfo EXCEPT !.hpet_address = hpet]
                             ELSE Described(ts[Max(M)], hpet)
  BY Zenon DEF DescribedDevices, hpet
<1> HIDE DEF M
<1> DEFINE d == DescribedDevices(ts)
<1>9. d = [local_apic_address |-> d.local_apic_address, io_apic_address |-> d.io_apic_address,
           hpet_address |-> hpet, int_overrides |-> d.int_overrides]
  <2>1. CASE M = {}
    BY <1>8, <2>1 DEF AcpiInfo
  <2>2. CASE M # {}
    BY <1>8, <2>2 DEF Described
  <2> QED
    BY <2>1, <2>2
<1>10. Rest(d) = Rest(walk[n])
  <2>1. CASE M = {}
    BY <1>7, <1>8, <2>1 DEF AcpiInfo
  <2>2. CASE M # {}
    BY <1>7, <1>8, <2>2
  <2> QED
    BY <2>1, <2>2
<1> HIDE DEF d
<1>11. walk[n] \in Infos
  BY <1>2, <1>4
<1>12. walk[n] = [local_apic_address |-> walk[n].local_apic_address,
                  io_apic_address |-> walk[n].io_apic_address,
                  hpet_address |-> walk[n].hpet_address, int_overrides |-> walk[n].int_overrides]
  BY <1>11 DEF Infos
<1>13. /\ walk[n].local_apic_address = d.local_apic_address
       /\ walk[n].io_apic_address = d.io_apic_address
       /\ walk[n].int_overrides = d.int_overrides
  BY <1>10
<1>14. walk[n] = d
  BY <1>5, <1>9, <1>12, <1>13, Zenon
<1> QED
  BY <1>1, <1>14 DEF d, n

\* Whatever the tables hold, AcpiInfo keeps its shape and its bound.
LEMMA RootType == ASSUME NEW root \in RootTables PROVE parse_root(AcpiInfo, root) \in Infos
<1>1. CASE root.valid
  <2> DEFINE ts == root.tables
  <2>1. ts \in Seq(AcpiTables)
    BY DEF RootTables
  <2>2. PICK walk : RootWalk(walk, ts) /\ parse_root(AcpiInfo, root) = walk[Len(ts)]
    BY <1>1, <2>1, RootIsWalked
  <2>3. Len(ts) \in 0 .. Len(ts)
    BY <2>1
  <2> QED
    BY <2>2, <2>3 DEF RootWalk
<1>2. CASE ~root.valid
  BY <1>2, OverridesAssumption DEF parse_root, AcpiInfo, Infos, Addresses
<1> QED
  BY <1>1, <1>2

\* The root table of an RSDP.
LEMMA RootOf == ASSUME NEW r \in Rsdps PROVE Root(r) \in RootTables
<1>1. CASE r.revision >= 2 /\ r.xsdt.at # "null"
  BY <1>1 DEF Root, Rsdps, NullTable
<1>2. CASE ~(r.revision >= 2 /\ r.xsdt.at # "null")
  BY <1>2 DEF Root, Rsdps
<1> QED
  BY <1>1, <1>2

\* The search finds only what is there.
LEMMA Found == ASSUME NEW fw \in Firmwares PROVE find(fw) \subseteq fw.rsdps
BY DEF find, search_region

\* So does parse, whatever the firmware.
LEMMA ParseType == ASSUME NEW fw \in Firmwares PROVE parse(fw) \in Infos
<1>1. CASE find(fw) = {}
  BY <1>1, OverridesAssumption DEF parse, AcpiInfo, Infos, Addresses
<1>2. CASE find(fw) # {}
  <2> DEFINE r == CHOOSE r \in find(fw) : TRUE
  <2>1. r \in find(fw)
    BY <1>2
  <2>2. parse(fw) = parse_root(AcpiInfo, Root(r))
    BY <1>2 DEF parse
  <2> HIDE DEF r
  <2>3. r \in Rsdps
    BY <2>1, Found DEF Firmwares
  <2> QED
    BY <2>2, <2>3, RootOf, RootType
<1> QED
  BY <1>1, <1>2

\* The search ends at the one structure with a checksum.
LEMMA OneIsFound ==
  ASSUME NEW fw \in Firmwares, Conforming(fw),
         NEW r \in PublishedRsdps(fw), InBios(r), r.revision >= 2
  PROVE  find(fw) = {r}
<1>1. r \in fw.rsdps /\ r \in Rsdps /\ r.sum36 /\ r.address \in Nat
  BY DEF PublishedRsdps, Firmwares, Rsdps
<1>2. \A s \in fw.rsdps : s.sum36 => s = r
  BY <1>1 DEF Conforming
<1>3. \A start, size : search_region(fw.rsdps, start, size) \subseteq {r}
  BY <1>2 DEF search_region, validate_checksum
<1>4. r \in search_region(fw.rsdps, 917504, 131072)
  BY <1>1, <1>2 DEF search_region, validate_checksum, InBios
<1> QED
  BY <1>3, <1>4 DEF find

\* The firmware's description is read as it is written.
LEMMA FirmwareIsRead ==
  ASSUME NEW fw \in Firmwares, Conforming(fw),
         NEW r \in PublishedRsdps(fw), InBios(r), r.revision >= 2
  PROVE  parse(fw) = DescribedBy(r)
<1>1. find(fw) = {r}
  BY OneIsFound
<1>2. parse(fw) = parse_root(AcpiInfo, Root(r))
  <2>1. (CHOOSE x \in {r} : TRUE) = r
    OBVIOUS
  <2> QED
    BY <1>1, <2>1 DEF parse
<1>3. r \in fw.rsdps /\ r \in Rsdps
  BY DEF PublishedRsdps, Firmwares
<1> DEFINE root == Root(r)
<1>4. root \in RootTables
  BY <1>3, RootOf
<1>5. DescribedBy(r) = IF root.valid THEN DescribedDevices(root.tables) ELSE AcpiInfo
  BY DEF DescribedBy, Root
<1>6. \A i, j \in DOMAIN root.tables : IsMadt(root.tables[i]) /\ IsMadt(root.tables[j]) => i = j
  BY <1>3, Zenon DEF Conforming
<1> HIDE DEF root
<1>7. CASE root.valid
  <2> DEFINE ts == root.tables
  <2>1. ts \in Seq(AcpiTables)
    BY <1>4 DEF RootTables
  <2>2. parse_root(AcpiInfo, root) = DescribedDevices(ts)
    BY <1>6, <1>7, <2>1, TablesAreRead
  <2> QED
    BY <1>2, <1>5, <1>7, <2>2 DEF root
<1>8. CASE ~root.valid
  <2>1. parse_root(AcpiInfo, root) = AcpiInfo
    BY <1>8 DEF parse_root
  <2> QED
    BY <1>2, <1>5, <1>8, <2>1 DEF root
<1> QED
  BY <1>7, <1>8

-----------------------------------------------------------------------------
(* The hand-over from the PIC to the Local APIC. *)

\* The controllers' registers keep their shape.
Shape ==
    /\ pic \in [mask : SUBSET Lines, irr : SUBSET Lines, isr : SUBSET Lines]
    /\ lapic \in [lint0 : BOOLEAN, timer : BOOLEAN, irr : SUBSET {32, 33}, isr : SUBSET {32, 33}]
    /\ ioapic \in [Pins -> {0, 32, 33}]
    /\ USING_APIC \in BOOLEAN

\* Before the switch nothing can reach the Local APIC, after it nothing the
\* PIC delivers can reach the CPU; pc says on which side the boot is.
HandOver ==
    /\ USING_APIC => ~lapic.lint0
    /\ ~USING_APIC => lapic.irr = {} /\ ~lapic.timer /\ \A p \in Pins : ioapic[p] = 0
    /\ pc = "svr" /\ platform.lapic => ~lapic.lint0
    /\ pc = "using" => ~lapic.lint0
    /\ pc \in {"timer", "ioapic", "redirect", "disable_pic"} => USING_APIC

EoiInv == Shape /\ HandOver /\ EoiReachesController

\* The machine starts with empty controllers on the PIC's side.
LEMMA InitEoi == Init => EoiInv
<1> SUFFICES ASSUME Init PROVE EoiInv
  OBVIOUS
<1>1. /\ pc = "core" /\ USING_APIC = FALSE
      /\ pic = [mask |-> {}, irr |-> {}, isr |-> {}]
      /\ lapic = [lint0 |-> TRUE, timer |-> FALSE, irr |-> {}, isr |-> {}]
      /\ ioapic = [p \in Pins |-> 0]
  BY Zenon DEF Init
<1>2. Shape
  BY <1>1, Zenon DEF Shape
<1>3. HandOver
  BY <1>1 DEF HandOver
<1> QED
  BY <1>1, <1>2, <1>3 DEF EoiInv, EoiReachesController

\* The redirection table only ever holds the two vectors.
LEMMA RedirectsShape == \A o : redirects(o) \in [Pins -> {0, 32, 33}]
BY DEF redirects, LAPIC_TIMER_VECTOR, KEYBOARD_VECTOR

\* The steps of kernel_main preserve the invariant.
LEMMA BootStep == EoiInv /\ kernel_main => EoiInv'
<1> SUFFICES ASSUME EoiInv, kernel_main PROVE EoiInv'
  OBVIOUS
<1> USE DEF EoiInv, Shape, HandOver, EoiReachesController, At, Goto
<1>1. CASE init_pic
  BY <1>1, Zenon DEF init_pic, Lines
<1>2. CASE sti
  BY <1>2 DEF sti
<1>3. CASE memory
  BY <1>3 DEF memory
<1>4. CASE acpi
  BY <1>4 DEF acpi, PageFault
<1>5. CASE Pit_init
  BY <1>5 DEF Pit_init
<1>6. CASE Hpet_init
  BY <1>6 DEF Hpet_init, Faults, PageFault
<1>7. CASE mask_lvt
  <2>1. CASE Faults(acpi_info.local_apic_address)
    BY <2>1 DEF Faults, PageFault
  <2>2. CASE Mapped(acpi_info.local_apic_address)
    <3>1. /\ pc' = "svr"
          /\ lapic' = IF platform.lapic THEN [lapic EXCEPT !.timer = FALSE, !.lint0 = FALSE] ELSE lapic
          /\ UNCHANGED <<platform, pic, ioapic, USING_APIC>>
      BY <1>7, <2>2 DEF mask_lvt, Faults
    <3> QED
      BY <3>1, Zenon
  <2> QED
    BY <1>7, <2>1, <2>2 DEF mask_lvt
<1>8. CASE enable_svr
  BY <1>8 DEF enable_svr
<1>9. CASE using_apic
  BY <1>9 DEF using_apic
<1>10. CASE setup_timer
  BY <1>10, Zenon DEF setup_timer
<1>11. CASE mask_redirects
  <2>1. CASE Faults(acpi_info.io_apic_address)
    BY <2>1 DEF Faults, PageFault
  <2>2. CASE Mapped(acpi_info.io_apic_address)
    <3>1. /\ pc' = "redirect"
          /\ ioapic' = [p \in Pins |-> 0]
          /\ UNCHANGED <<platform, pic, lapic, USING_APIC>>
      BY <1>11, <2>2 DEF mask_redirects, Faults
    <3>2. USING_APIC
      BY <1>11 DEF mask_redirects
    <3> QED
      BY <3>1, <3>2
  <2> QED
    BY <1>11, <2>1, <2>2, Zenon DEF mask_redirects
<1>12. CASE setup_irqs
  BY <1>12, RedirectsShape DEF setup_irqs
<1>13. CASE disable_pic
  BY <1>13 DEF disable_pic
<1>14. CASE subsystems \/ enable_preemption \/ boot_complete
  BY <1>14 DEF subsystems, enable_preemption, boot_complete
<1>15. CASE rust_isr_handler_14
  BY <1>15 DEF rust_isr_handler_14
<1> QED
  BY <1>1, <1>2, <1>3, <1>4, <1>5, <1>6, <1>7, <1>8, <1>9, <1>10, <1>11, <1>12, <1>13,
     <1>14, <1>15, Zenon DEF kernel_main

\* An IRQ adds a request to the PIC and, through an open pin, to the Local APIC.
LEMMA RaiseStep == \A irq \in Lines : EoiInv /\ Raise(irq) => EoiInv'
<1> SUFFICES ASSUME NEW irq \in Lines, EoiInv, Raise(irq) PROVE EoiInv'
  OBVIOUS
<1> USE DEF EoiInv, Shape, HandOver, EoiReachesController
<1>1. Pin(irq) \in Pins
  BY DEF Pin, Pins, Lines
<1>2. ioapic[Pin(irq)] \in {0, 32, 33}
  BY <1>1
<1>3. UNCHANGED <<platform, pc, ioapic, USING_APIC>>
  BY DEF Raise, cpu
<1>4. /\ pic' \in [mask : SUBSET Lines, irr : SUBSET Lines, isr : SUBSET Lines]
      /\ pic'.isr = {}
  BY DEF Raise
<1>5. CASE ioapic[Pin(irq)] = 0
  BY <1>3, <1>4, <1>5 DEF Raise
<1>6. CASE ioapic[Pin(irq)] # 0
  BY <1>1, <1>2, <1>3, <1>4, <1>6, SMTT(30) DEF Raise
<1> QED
  BY <1>5, <1>6

\* What a handler does: one end of interrupt, and perhaps the first switch.
LEMMA HandlerStep ==
    ASSUME NEW vector, NEW picIsr, NEW lapicIsr, Handler(vector, picIsr, lapicIsr)
    PROVE  /\ send_eoi(picIsr, lapicIsr)
           /\ tick' = ~tick /\ fault' = fault
           /\ \/ UNCHANGED <<pc, irq_on>>
              \/ is_preemption_enabled /\ pc' = "switched" /\ irq_on' = FALSE
BY Zenon DEF Handler, rust_timer_handler, rust_isr_handler_32, preempt_schedule, on_timer_tick, cpu

\* The devices and the handlers preserve it too.
LEMMA InterruptStep ==
    ASSUME EoiInv,
           \/ PitFires \/ LapicTimerFires \/ KeyPress
           \/ \E line \in Lines : PicInterrupt(line)
           \/ \E vector \in {LAPIC_TIMER_VECTOR, KEYBOARD_VECTOR} : LapicInterrupt(vector)
    PROVE  EoiInv'
<1>1. CASE PitFires
  BY <1>1, RaiseStep DEF PitFires, Lines
<1>2. CASE KeyPress
  BY <1>2, RaiseStep DEF KeyPress, Lines
<1> USE DEF EoiInv, Shape, HandOver, EoiReachesController, LAPIC_TIMER_VECTOR, KEYBOARD_VECTOR
<1>3. CASE LapicTimerFires
  BY <1>3 DEF LapicTimerFires, cpu
<1>4. ASSUME NEW line \in Lines, PicInterrupt(line) PROVE EoiInv'
  <2>1. /\ ~USING_APIC
        /\ UNCHANGED <<platform, ioapic, USING_APIC>>
        /\ Handler(32 + line, pic.isr \cup {line}, lapic.isr)
    BY <1>4, Zenon DEF PicInterrupt
  <2>2. /\ send_eoi(pic.isr \cup {line}, lapic.isr)
        /\ pc' \in {pc, "switched"}
    BY <2>1, HandlerStep, Zenon
  <2>3. /\ pic' = [pic EXCEPT !.irr = @ \ (pic.isr \cup {line}), !.isr = {}]
        /\ lapic' = [lapic EXCEPT !.irr = @ \ lapic.isr, !.isr = lapic.isr]
    BY <2>1, <2>2, Zenon DEF send_eoi
  <2>4. Shape' /\ EoiReachesController'
    BY <2>1, <2>3, Zenon
  <2>5. lapic' = lapic
    BY <2>3, Zenon
  <2> QED
    BY <2>1, <2>2, <2>4, <2>5
<1>5. ASSUME NEW vector \in {32, 33}, LapicInterrupt(vector) PROVE EoiInv'
  <2>1. /\ USING_APIC
        /\ UNCHANGED <<platform, ioapic, USING_APIC>>
        /\ Handler(vector, pic.isr, {vector})
    BY <1>5 DEF LapicInterrupt
  <2>2. /\ send_eoi(pic.isr, {vector})
        /\ pc' \in {pc, "switched"}
    BY <2>1, HandlerStep, Zenon
  <2>3. /\ pic' = [pic EXCEPT !.irr = @ \ pic.isr, !.isr = pic.isr]
        /\ lapic' = [lapic EXCEPT !.irr = @ \ {vector}, !.isr = {}]
    BY <2>1, <2>2 DEF send_eoi
  <2>4. Shape' /\ EoiReachesController'
    BY <2>1, <2>3, Zenon
  <2>5. lapic'.lint0 = lapic.lint0
    BY <2>3
  <2> QED
    BY <2>1, <2>2, <2>4, <2>5
<1> QED
  BY <1>1, <1>2, <1>3, <1>4, <1>5

\* Every step of the boot and every interrupt keeps it.
LEMMA EoiIsInvariant == Spec => []EoiInv
<1>1. EoiInv /\ [Next]_vars => EoiInv'
  <2> SUFFICES ASSUME EoiInv, [Next]_vars PROVE EoiInv'
    OBVIOUS
  <2>1. CASE UNCHANGED vars
    BY <2>1 DEF vars, EoiInv, Shape, HandOver, EoiReachesController
  <2>2. CASE Next
    BY <2>2, BootStep, InterruptStep DEF Next
  <2> QED
    BY <2>1, <2>2
<1> QED
  BY <1>1, InitEoi, PTL DEF Spec

\* Whatever the platform and whenever interrupts arrive, send_eoi leaves
\* nothing in service at either controller: USING_APIC is switched only once
\* LINT0 is masked, and the Local APIC's sources are opened only after that.
THEOREM EndOfInterruptIsRouted == Spec => []EoiReachesController
<1>1. EoiInv => EoiReachesController
  BY DEF EoiInv
<1> QED
  BY <1>1, EoiIsInvariant, PTL

-----------------------------------------------------------------------------
(* What kernel_main configures the devices from, and how far it can come. *)

Early == {"core", "sti", "memory", "acpi"}

\* acpi_info is what parse makes of the platform's tables, and each device is
\* passed only when its address is mapped.
BootInv ==
    /\ platform \in Platforms /\ pc \in Steps
    /\ fault \in BOOLEAN /\ irq_on \in BOOLEAN /\ legacy \in BOOLEAN /\ tick \in BOOLEAN
    /\ key \in {"idle", "early", "pressed", "taken"}
    /\ acpi_info \in Infos
    /\ pc \notin Early => acpi_info = parse(platform.acpi) /\ TablesMapped(platform.acpi)
    /\ pc \notin Early \cup {"pit", "hpet"} => Mapped(acpi_info.hpet_address)
    /\ pc \notin Early \cup {"pit", "hpet", "lvt"} => Mapped(acpi_info.local_apic_address)
    /\ pc \in {"redirect", "disable_pic"} => Mapped(acpi_info.io_apic_address)
    /\ HandedOver /\ platform.lapic => Mapped(acpi_info.io_apic_address)

\* It holds when the machine starts.
LEMMA InitBoot == Init => BootInv
<1> SUFFICES ASSUME Init PROVE BootInv
  OBVIOUS
<1>1. AcpiInfo \in Infos
  BY OverridesAssumption DEF AcpiInfo, Infos, Addresses
<1> QED
  BY <1>1, Zenon DEF Init, BootInv, Early, Steps, HandedOver

\* A step of kernel_main past a device finds its address mapped.
LEMMA BootInvStep == BootInv /\ kernel_main => BootInv'
<1> SUFFICES ASSUME BootInv, kernel_main PROVE BootInv'
  OBVIOUS
<1>0. ASSUME PageFault PROVE BootInv'
  BY <1>0 DEF PageFault, BootInv, HandedOver
<1>1. CASE init_pic
  BY <1>1 DEF BootInv, Early, Steps, HandedOver, At, Goto, init_pic
<1>2. CASE sti
  BY <1>2 DEF BootInv, Early, Steps, HandedOver, At, Goto, sti
<1>3. CASE memory
  BY <1>3 DEF BootInv, Early, Steps, HandedOver, At, Goto, memory
<1>4. CASE acpi
  <2>1. CASE TablesMapped(platform.acpi)
    <3>1. parse(platform.acpi) \in Infos
      <4>1. platform.acpi \in Firmwares
        BY PlatformsAssumption DEF BootInv
      <4> QED
        BY <4>1, ParseType
    <3>2. /\ pc' = "pit" /\ acpi_info' = parse(platform.acpi)
          /\ UNCHANGED <<platform, fault, irq_on, legacy, tick, key>>
      BY <1>4, <2>1 DEF acpi, Goto
    <3> QED
      BY <2>1, <3>1, <3>2 DEF BootInv, Early, Steps, HandedOver
  <2>2. CASE ~TablesMapped(platform.acpi)
    BY <1>0, <1>4, <2>2 DEF acpi
  <2> QED
    BY <2>1, <2>2
<1>5. CASE Pit_init
  BY <1>5 DEF BootInv, Early, Steps, HandedOver, At, Goto, Pit_init
<1>6. CASE Hpet_init
  <2>1. CASE Mapped(acpi_info.hpet_address)
    <3>1. /\ pc = "hpet" /\ pc' = "lvt" /\ legacy' \in BOOLEAN
          /\ UNCHANGED <<platform, fault, irq_on, acpi_info, tick, key>>
      BY <1>6, <2>1 DEF Hpet_init, Faults, At, Goto
    <3> QED
      BY <2>1, <3>1 DEF BootInv, Early, Steps, HandedOver
  <2>2. CASE ~Mapped(acpi_info.hpet_address)
    BY <1>0, <1>6, <2>2 DEF Hpet_init, Faults
  <2> QED
    BY <2>1, <2>2
<1>7. CASE mask_lvt
  <2>1. CASE Mapped(acpi_info.local_apic_address)
    <3>1. /\ pc = "lvt" /\ pc' = "svr"
          /\ UNCHANGED <<platform, fault, irq_on, acpi_info, legacy, tick, key>>
      BY <1>7, <2>1 DEF mask_lvt, Faults, At, Goto
    <3> QED
      BY <2>1, <3>1 DEF BootInv, Early, Steps, HandedOver
  <2>2. CASE ~Mapped(acpi_info.local_apic_address)
    BY <1>0, <1>7, <2>2, SMTT(30) DEF mask_lvt, Faults
  <2> QED
    BY <2>1, <2>2
<1>8. CASE enable_svr
  BY <1>8 DEF BootInv, Early, Steps, HandedOver, At, Goto, enable_svr
<1>9. CASE using_apic
  BY <1>9 DEF BootInv, Early, Steps, HandedOver, At, Goto, using_apic
<1>10. CASE setup_timer
  BY <1>10 DEF BootInv, Early, Steps, HandedOver, At, Goto, setup_timer, Mapped
<1>11. CASE mask_redirects
  <2>1. CASE Mapped(acpi_info.io_apic_address)
    <3>1. /\ pc = "ioapic" /\ pc' = "redirect"
          /\ UNCHANGED <<platform, fault, irq_on, acpi_info, legacy, tick, key>>
      BY <1>11, <2>1 DEF mask_redirects, Faults, At, Goto
    <3> QED
      BY <2>1, <3>1 DEF BootInv, Early, Steps, HandedOver
  <2>2. CASE ~Mapped(acpi_info.io_apic_address)
    BY <1>0, <1>11, <2>2 DEF mask_redirects, Faults
  <2> QED
    BY <2>1, <2>2, SMTT(30)
<1>12. CASE setup_irqs
  BY <1>12 DEF BootInv, Early, Steps, HandedOver, At, Goto, setup_irqs
<1>13. CASE disable_pic
  BY <1>13 DEF BootInv, Early, Steps, HandedOver, At, Goto, disable_pic
<1>14. CASE subsystems \/ enable_preemption \/ boot_complete
  BY <1>14 DEF BootInv, Early, Steps, HandedOver, At, Goto, subsystems, enable_preemption, boot_complete
<1>15. CASE rust_isr_handler_14
  BY <1>15, ZenonT(30) DEF BootInv, HandedOver, rust_isr_handler_14
<1> QED
  BY <1>1, <1>2, <1>3, <1>4, <1>5, <1>6, <1>7, <1>8, <1>9, <1>10, <1>11, <1>12, <1>13,
     <1>14, <1>15 DEF kernel_main

\* What the devices and the interrupts leave alone, and what they may change.
OnlyInterrupted ==
    /\ UNCHANGED <<platform, fault, acpi_info, legacy, ioapic, USING_APIC>>
    /\ tick' \in {tick, ~tick}
    /\ \/ UNCHANGED <<pc, irq_on>>
       \/ is_preemption_enabled /\ pc' = "switched" /\ irq_on' = FALSE

\* Interrupts change none of BootInv but the tick, the keyboard's byte, and the
\* context that executes once preemption is enabled.
LEMMA InterruptsKeepBoot ==
    ASSUME BootInv,
           \/ PitFires \/ LapicTimerFires \/ KeyPress
           \/ \E line \in Lines : PicInterrupt(line)
           \/ \E vector \in {LAPIC_TIMER_VECTOR, KEYBOARD_VECTOR} : LapicInterrupt(vector)
    PROVE  BootInv' /\ OnlyInterrupted
<1>1. OnlyInterrupted /\ key' \in {key, "early", "pressed", "taken"}
  <2>1. CASE PitFires
    BY <2>1 DEF PitFires, Raise, cpu, OnlyInterrupted
  <2>2. CASE LapicTimerFires
    BY <2>2 DEF LapicTimerFires, cpu, OnlyInterrupted
  <2>3. CASE KeyPress
    BY <2>3 DEF KeyPress, Raise, cpu, OnlyInterrupted
  <2>4. ASSUME NEW line \in Lines, PicInterrupt(line)
        PROVE  OnlyInterrupted /\ key' \in {key, "taken"}
    <3>1. /\ Handler(32 + line, pic.isr \cup {line}, lapic.isr)
          /\ UNCHANGED <<platform, acpi_info, ioapic, legacy, USING_APIC>>
          /\ Taken(32 + line)
      BY <2>4, Zenon DEF PicInterrupt
    <3> QED
      BY <3>1, HandlerStep, Zenon DEF OnlyInterrupted, Taken
  <2>5. ASSUME NEW vector, LapicInterrupt(vector)
        PROVE  OnlyInterrupted /\ key' \in {key, "taken"}
    <3>1. /\ Handler(vector, pic.isr, {vector})
          /\ UNCHANGED <<platform, acpi_info, ioapic, legacy, USING_APIC>>
          /\ Taken(vector)
      BY <2>5, Zenon DEF LapicInterrupt
    <3> QED
      BY <3>1, HandlerStep, Zenon DEF OnlyInterrupted, Taken
  <2> QED
    BY <2>1, <2>2, <2>3, <2>4, <2>5, Zenon
<1>2. tick' \in BOOLEAN
  BY <1>1, Zenon DEF BootInv, OnlyInterrupted
<1>3. key' \in {"idle", "early", "pressed", "taken"}
  BY <1>1, SMTT(30) DEF BootInv
<1>4. CASE UNCHANGED <<pc, irq_on>>
  BY <1>1, <1>2, <1>3, <1>4 DEF BootInv, OnlyInterrupted, HandedOver
<1>5. CASE is_preemption_enabled /\ pc' = "switched" /\ irq_on' = FALSE
  BY <1>1, <1>2, <1>3, <1>5, Zenon DEF BootInv, OnlyInterrupted, HandedOver, is_preemption_enabled, Early, Steps
<1> QED
  BY <1>1, <1>4, <1>5, Zenon DEF OnlyInterrupted

\* Every step of the boot and every interrupt keeps it.
LEMMA BootIsInvariant == Spec => []BootInv
<1>1. BootInv /\ [Next]_vars => BootInv'
  <2> SUFFICES ASSUME BootInv, [Next]_vars PROVE BootInv'
    OBVIOUS
  <2>1. CASE UNCHANGED vars
    BY <2>1 DEF vars, BootInv, HandedOver
  <2>2. CASE Next
    BY <2>2, BootInvStep, InterruptsKeepBoot DEF Next
  <2> QED
    BY <2>1, <2>2
<1> QED
  BY <1>1, InitBoot, PTL DEF Spec

\* On every platform the variables keep their types; parse_madt stores no more
\* interrupt overrides than AcpiInfo has room for, however many a MADT has.
THEOREM BootTypes == Spec => []TypeOK
<1>1. BootInv /\ EoiInv => TypeOK
  <2> SUFFICES ASSUME BootInv, EoiInv PROVE TypeOK
    OBVIOUS
  <2>1. /\ acpi_info.local_apic_address \in Addresses
        /\ acpi_info.io_apic_address \in Addresses
        /\ acpi_info.hpet_address \in Addresses
        /\ Len(acpi_info.int_overrides) <= MAX_OVERRIDES
    BY DEF BootInv, Infos
  <2>2. {fault, irq_on, legacy, USING_APIC, tick} \subseteq BOOLEAN
    BY DEF BootInv, EoiInv, Shape
  <2> QED
    BY <2>1, <2>2 DEF BootInv, EoiInv, Shape, TypeOK
<1> QED
  BY <1>1, BootIsInvariant, EoiIsInvariant, PTL

\* From "pit" on, on every platform with conforming firmware, acpi_info is what
\* the tables behind the BIOS area's RSDP of revision 2 say, whatever their
\* number, their order and the number of their entries.
THEOREM TablesAreUsed == Spec => []FirmwareIsUsed
<1>1. BootInv => FirmwareIsUsed
  <2> SUFFICES ASSUME BootInv, Conforming(platform.acpi), pc \notin Early,
                      NEW r \in PublishedRsdps(platform.acpi), InBios(r), r.revision >= 2
               PROVE  acpi_info = DescribedBy(r)
    BY DEF FirmwareIsUsed, Early
  <2>1. platform.acpi \in Firmwares /\ acpi_info = parse(platform.acpi)
    BY PlatformsAssumption DEF BootInv
  <2> QED
    BY <2>1, FirmwareIsRead
<1> QED
  BY <1>1, BootIsInvariant, PTL

\* kernel_main never enables preemption past an access it could not make: on a
\* platform with a table or device outside the mapped gigabyte it stays before
\* that access for ever, so the condition of BootCompletes is necessary.
THEOREM UnmappedNeverBoots ==
    Spec => [](~DevicesMapped => pc \notin {"complete", "shell", "switched"})
<1>1. BootInv => (~DevicesMapped => pc \notin {"complete", "shell", "switched"})
  BY DEF BootInv, DevicesMapped, Early, HandedOver
<1> QED
  BY <1>1, BootIsInvariant, PTL

-----------------------------------------------------------------------------
(* The keyboard's way to the CPU. *)

\* Without a Local APIC the PIC stays connected and open; with one, a routed
\* keyboard has its pin open before the PIC is masked.
RouteInv ==
    /\ ~platform.lapic => lapic.lint0 /\ pic.mask = {}
    /\ pc \in {"using", "timer", "ioapic", "redirect", "disable_pic"} => platform.lapic
    /\ pc = "disable_pic" \/ HandedOver =>
           (platform.lapic /\ ~KeyboardUnrouted => ioapic[1] = KEYBOARD_VECTOR)
    /\ key = "pressed" => HandedOver

KeyInv == RouteInv /\ KeysReachCpu

\* It holds when the machine starts.
LEMMA InitKey == Init => KeyInv
BY DEF Init, KeyInv, RouteInv, KeysReachCpu, HandedOver

\* A routed keyboard's pin is given the keyboard's vector.
LEMMA KeyboardRedirected ==
  ASSUME NEW o, ~ \E i \in DOMAIN o : o[i] = [irq |-> 0, gsi |-> 1]
  PROVE  redirects(o)[1] = KEYBOARD_VECTOR
BY DEF redirects, Pins

\* kernel_main opens the way before it can be needed, and then leaves it.
LEMMA BootKeepsKeys == EoiInv /\ KeyInv /\ kernel_main => KeyInv'
<1> SUFFICES ASSUME EoiInv, KeyInv, kernel_main PROVE KeyInv'
  OBVIOUS
<1> DEFINE same == <<platform, pic, lapic, ioapic, acpi_info, key>>
<1> USE DEF KeyInv
<1>0. ASSUME UNCHANGED same, pc' = pc PROVE KeyInv'
  BY <1>0, Zenon DEF RouteInv, KeysReachCpu, KeyRequested, KeyboardUnrouted, HandedOver
<1>1. key' = key
  BY ZenonT(30) DEF kernel_main, Goto, PageFault, Faults, init_pic, sti, memory, acpi, Pit_init, Hpet_init,
        mask_lvt, enable_svr, using_apic, setup_timer, mask_redirects, setup_irqs, disable_pic,
        subsystems, enable_preemption, boot_complete, rust_isr_handler_14
<1>2. CASE subsystems \/ enable_preemption \/ boot_complete
  <2>1. UNCHANGED same /\ HandedOver /\ HandedOver' /\ pc' \in {"preemption", "complete", "shell"}
    BY <1>2 DEF subsystems, enable_preemption, boot_complete, At, Goto, HandedOver
  <2> QED
    BY <2>1, Zenon DEF RouteInv, KeysReachCpu, KeyRequested, KeyboardUnrouted
<1>3. CASE PageFault \/ rust_isr_handler_14
  BY <1>0, <1>3 DEF PageFault, rust_isr_handler_14
<1>4. ASSUME key # "pressed",
             /\ platform' = platform
             /\ ~platform.lapic => lapic'.lint0 /\ pic'.mask = {}
             /\ pc' \in {"using", "timer", "ioapic", "redirect", "disable_pic"} => platform.lapic
             /\ pc' = "disable_pic" \/ HandedOver' =>
                    (platform.lapic /\ ~KeyboardUnrouted' => ioapic'[1] = KEYBOARD_VECTOR)
      PROVE  KeyInv'
  BY <1>1, <1>4, Zenon DEF RouteInv, KeysReachCpu, KEYBOARD_VECTOR
<1>5. CASE init_pic \/ sti \/ memory \/ Pit_init
  BY <1>4, <1>5, Zenon DEF init_pic, sti, memory, Pit_init, At, Goto, RouteInv, HandedOver, EoiInv, Shape
<1>6. CASE acpi /\ ~PageFault
  BY <1>4, <1>6 DEF acpi, At, Goto, RouteInv, HandedOver
<1>7. CASE Hpet_init /\ ~PageFault
  BY <1>4, <1>7 DEF Hpet_init, Faults, At, Goto, RouteInv, HandedOver
<1>8. CASE mask_lvt /\ ~PageFault
  BY <1>4, <1>8 DEF mask_lvt, Faults, At, Goto, RouteInv, HandedOver
<1>9. CASE enable_svr
  BY <1>4, <1>9 DEF enable_svr, At, Goto, RouteInv, HandedOver
<1>10. CASE using_apic
  BY <1>4, <1>10 DEF using_apic, At, Goto, RouteInv, HandedOver
<1>11. CASE setup_timer
  <2>1. /\ pc = "timer" /\ pc' = IF acpi_info.io_apic_address # "null" THEN "ioapic" ELSE "subsystems"
        /\ UNCHANGED <<platform, pic, ioapic, acpi_info>>
    BY <1>11 DEF setup_timer, At, Goto
  <2>2. platform.lapic /\ key # "pressed"
    BY <2>1 DEF RouteInv, HandedOver
  <2>3. pc' = "subsystems" => KeyboardUnrouted'
    BY <2>1, <2>2 DEF KeyboardUnrouted
  <2> QED
    BY <1>4, <2>1, <2>2, <2>3 DEF HandedOver
<1>12. CASE mask_redirects /\ ~PageFault
  BY <1>4, <1>12 DEF mask_redirects, Faults, At, Goto, RouteInv, HandedOver
<1>13. CASE setup_irqs
  <2>1. /\ pc = "redirect" /\ pc' = "disable_pic"
        /\ ioapic' = IF platform.ioapic THEN redirects(acpi_info.int_overrides) ELSE ioapic
        /\ UNCHANGED <<platform, pic, lapic, acpi_info>>
    BY <1>13 DEF setup_irqs, At, Goto
  <2>2. platform.lapic /\ key # "pressed"
    BY <2>1 DEF RouteInv, HandedOver
  <2>3. ASSUME ~KeyboardUnrouted' PROVE ioapic'[1] = KEYBOARD_VECTOR
    <3>1. platform.ioapic /\ ~ \E i \in DOMAIN acpi_info.int_overrides :
                                  acpi_info.int_overrides[i] = [irq |-> 0, gsi |-> 1]
      BY <2>1, <2>2, <2>3, Zenon DEF KeyboardUnrouted
    <3> QED
      BY <2>1, <3>1, KeyboardRedirected, Zenon
  <2> QED
    BY <1>4, <2>1, <2>2, <2>3 DEF HandedOver
<1>14. CASE disable_pic
  <2>1. /\ pc = "disable_pic" /\ pc' = "subsystems"
        /\ UNCHANGED <<platform, lapic, ioapic, acpi_info>>
    BY <1>14 DEF disable_pic, At, Goto
  <2>2. platform.lapic /\ key # "pressed" /\ KeyboardUnrouted' = KeyboardUnrouted
    BY <2>1 DEF RouteInv, HandedOver, KeyboardUnrouted
  <2>3. ~KeyboardUnrouted => ioapic[1] = KEYBOARD_VECTOR
    BY <2>1, <2>2 DEF RouteInv
  <2> QED
    BY <1>4, <2>1, <2>2, <2>3, Zenon
<1> QED
  BY <1>2, <1>3, <1>5, <1>6, <1>7, <1>8, <1>9, <1>10, <1>11, <1>12, <1>13, <1>14, Zenon DEF kernel_main

\* The end of an interrupt takes away the requests that were in service.
LEMMA EoiServes ==
  ASSUME NEW p, NEW l, send_eoi(p, l),
         pic \in [mask : SUBSET Lines, irr : SUBSET Lines, isr : SUBSET Lines],
         lapic \in [lint0 : BOOLEAN, timer : BOOLEAN, irr : SUBSET {32, 33}, isr : SUBSET {32, 33}]
  PROVE  /\ lapic'.lint0 = lapic.lint0 /\ lapic'.irr = lapic.irr \ l
         /\ pic'.mask = pic.mask /\ pic'.irr = pic.irr \ p
<1>1. CASE USING_APIC
  <2>1. /\ pic' = [pic EXCEPT !.irr = @ \ p, !.isr = p]
        /\ lapic' = [lapic EXCEPT !.irr = @ \ l, !.isr = {}]
    BY <1>1, Zenon DEF send_eoi
  <2> QED
    BY <2>1
<1>2. CASE ~USING_APIC
  <2>1. /\ pic' = [pic EXCEPT !.irr = @ \ p, !.isr = {}]
        /\ lapic' = [lapic EXCEPT !.irr = @ \ l, !.isr = l]
    BY <1>2, Zenon DEF send_eoi
  <2> QED
    BY <2>1
<1> QED
  BY <1>1, <1>2

\* A request for the keyboard stays until the interrupt of the keyboard.
LEMMA InterruptsKeepKeys ==
    ASSUME BootInv, EoiInv, KeyInv,
           \/ PitFires \/ LapicTimerFires \/ KeyPress
           \/ \E line \in Lines : PicInterrupt(line)
           \/ \E vector \in {LAPIC_TIMER_VECTOR, KEYBOARD_VECTOR} : LapicInterrupt(vector)
    PROVE  KeyInv'
<1>1. OnlyInterrupted
  BY InterruptsKeepBoot
<1>2. UNCHANGED <<platform, acpi_info, ioapic, USING_APIC>>
  BY <1>1 DEF OnlyInterrupted
<1>3. KeyboardUnrouted' = KeyboardUnrouted /\ (HandedOver => HandedOver')
  BY <1>1 DEF OnlyInterrupted, KeyboardUnrouted, HandedOver
<1>4. /\ pc' \in {"using", "timer", "ioapic", "redirect", "disable_pic"} => pc' = pc
      /\ pc' = "disable_pic" \/ HandedOver' => pc = "disable_pic" \/ HandedOver
  BY <1>1 DEF OnlyInterrupted, HandedOver, is_preemption_enabled
<1>5. ASSUME lapic'.lint0 = lapic.lint0, pic'.mask = pic.mask, key' = "pressed" => HandedOver
      PROVE  RouteInv'
  BY <1>2, <1>3, <1>4, <1>5, Zenon DEF KeyInv, RouteInv, KEYBOARD_VECTOR
<1>t. /\ pic \in [mask : SUBSET Lines, irr : SUBSET Lines, isr : SUBSET Lines]
      /\ lapic \in [lint0 : BOOLEAN, timer : BOOLEAN, irr : SUBSET {32, 33}, isr : SUBSET {32, 33}]
      /\ ioapic \in [Pins -> {0, 32, 33}]
      /\ pic.isr = {} /\ lapic.isr = {}
  BY Zenon DEF EoiInv, Shape, EoiReachesController
<1>6. ASSUME NEW irq \in Lines, Raise(irq)
      PROVE  /\ lapic'.lint0 = lapic.lint0 /\ pic'.mask = pic.mask
             /\ pic'.irr = pic.irr \cup {irq}
             /\ lapic.irr \subseteq lapic'.irr
             /\ ioapic[Pin(irq)] # 0 => ioapic[Pin(irq)] \in lapic'.irr
  BY <1>6, <1>t DEF Raise
<1>7. CASE PitFires
  <2>1. /\ lapic'.lint0 = lapic.lint0 /\ pic'.mask = pic.mask /\ pic.irr \subseteq pic'.irr
        /\ lapic.irr \subseteq lapic'.irr /\ key' = key
    BY <1>6, <1>7 DEF PitFires, Lines
  <2> QED
    BY <1>3, <1>5, <2>1 DEF KeyInv, RouteInv, KeysReachCpu, KeyRequested, KEYBOARD_VECTOR
<1>8. CASE LapicTimerFires
  <2>1. /\ lapic'.lint0 = lapic.lint0 /\ pic' = pic /\ lapic.irr \subseteq lapic'.irr /\ key' = key
    BY <1>8, <1>t DEF LapicTimerFires
  <2> QED
    BY <1>3, <1>5, <2>1 DEF KeyInv, RouteInv, KeysReachCpu, KeyRequested, KEYBOARD_VECTOR
<1>9. CASE KeyPress
  <2>0. Pin(1) = 1 /\ 1 \in Lines /\ Raise(1)
    BY <1>9 DEF Pin, Lines, KeyPress
  <2>1. /\ lapic'.lint0 = lapic.lint0 /\ pic'.mask = pic.mask /\ 1 \in pic'.irr
        /\ ioapic[1] # 0 => ioapic[1] \in lapic'.irr
    BY <1>6, <2>0
  <2>2. key' = "pressed" => HandedOver
    BY <1>9 DEF KeyPress
  <2>3. RouteInv'
    BY <1>5, <2>1, <2>2
  <2>4. ASSUME key' = "pressed", ~KeyboardUnrouted' PROVE KeyRequested'
    <3>1. CASE platform.lapic
      <4>1. ioapic[1] = 33
        BY <1>3, <2>2, <2>4, <3>1 DEF KeyInv, RouteInv, KEYBOARD_VECTOR
      <4> QED
        BY <2>1, <4>1 DEF KeyRequested, KEYBOARD_VECTOR
    <3>2. CASE ~platform.lapic
      BY <2>1, <3>2 DEF KeyInv, RouteInv, KeyRequested
    <3> QED
      BY <3>1, <3>2
  <2> QED
    BY <2>3, <2>4 DEF KeyInv, KeysReachCpu
<1>10. ASSUME NEW vector, Taken(vector),
              /\ lapic'.lint0 = lapic.lint0 /\ pic'.mask = pic.mask
              /\ vector # 33 => (1 \in pic.irr => 1 \in pic'.irr) /\ (33 \in lapic.irr => 33 \in lapic'.irr)
       PROVE  KeyInv'
  <2>1. CASE vector = 33
    <3>1. key' = "taken"
      BY <1>10, <2>1 DEF Taken, KEYBOARD_VECTOR
    <3> QED
      BY <1>5, <1>10, <3>1 DEF KeyInv, KeysReachCpu
  <2>2. CASE vector # 33
    <3>1. key' = key
      BY <1>10, <2>2 DEF Taken, KEYBOARD_VECTOR
    <3> QED
      BY <1>3, <1>5, <1>10, <2>2, <3>1 DEF KeyInv, RouteInv, KeysReachCpu, KeyRequested, KEYBOARD_VECTOR
  <2> QED
    BY <2>1, <2>2
<1>11. ASSUME NEW line \in Lines, PicInterrupt(line) PROVE KeyInv'
  <2>1. Handler(32 + line, pic.isr \cup {line}, lapic.isr) /\ Taken(32 + line)
    BY <1>11, Zenon DEF PicInterrupt
  <2>2. send_eoi(pic.isr \cup {line}, lapic.isr)
    BY <2>1, HandlerStep, Zenon
  <2>3. /\ lapic'.lint0 = lapic.lint0 /\ pic'.mask = pic.mask
        /\ pic'.irr = pic.irr \ {line} /\ lapic'.irr = lapic.irr
    <3>1. /\ lapic'.lint0 = lapic.lint0 /\ lapic'.irr = lapic.irr \ lapic.isr
          /\ pic'.mask = pic.mask /\ pic'.irr = pic.irr \ (pic.isr \cup {line})
      BY <1>t, <2>2, EoiServes, Zenon
    <3> QED
      BY <1>t, <3>1
  <2>4. 32 + line # 33 => line # 1
    OBVIOUS
  <2> HIDE DEF Lines
  <2> QED
    BY <1>10, <2>1, <2>3, <2>4
<1>12. ASSUME NEW vector \in {32, 33}, LapicInterrupt(vector) PROVE KeyInv'
  <2>1. Handler(vector, pic.isr, {vector}) /\ Taken(vector)
    BY <1>12, Zenon DEF LapicInterrupt
  <2>2. send_eoi(pic.isr, {vector})
    BY <2>1, HandlerStep, Zenon
  <2>3. /\ lapic'.lint0 = lapic.lint0 /\ pic'.mask = pic.mask
        /\ pic'.irr = pic.irr /\ lapic'.irr = lapic.irr \ {vector}
    <3>1. /\ lapic'.lint0 = lapic.lint0 /\ lapic'.irr = lapic.irr \ {vector}
          /\ pic'.mask = pic.mask /\ pic'.irr = pic.irr \ pic.isr
      BY <1>t, <2>2, EoiServes, Zenon
    <3> QED
      BY <1>t, <3>1
  <2> QED
    BY <1>10, <2>1, <2>3
<1> QED
  BY <1>7, <1>8, <1>9, <1>11, <1>12 DEF LAPIC_TIMER_VECTOR, KEYBOARD_VECTOR

\* On every platform, a key pressed once the controllers have been exchanged is
\* requested where the CPU can take it until the CPU takes it, unless its pin
\* is not routed: the IO APIC's entry is opened before the PIC is masked.
THEOREM KeysAreNotLost == Spec => []KeysReachCpu
<1>1. BootInv /\ EoiInv /\ KeyInv /\ [Next]_vars => KeyInv'
  <2> SUFFICES ASSUME BootInv, EoiInv, KeyInv, [Next]_vars PROVE KeyInv'
    OBVIOUS
  <2>1. CASE UNCHANGED vars
    BY <2>1, Zenon DEF vars, KeyInv, RouteInv, KeysReachCpu, KeyRequested, KeyboardUnrouted, HandedOver
  <2>2. CASE Next
    BY <2>2, BootKeepsKeys, InterruptsKeepKeys DEF Next
  <2> QED
    BY <2>1, <2>2
<1>2. KeyInv => KeysReachCpu
  BY DEF KeyInv
<1> QED
  BY <1>1, <1>2, InitKey, BootIsInvariant, EoiIsInvariant, PTL DEF Spec
=============================================================================
