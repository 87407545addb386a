-------------------------- MODULE SchedulerProofs --------------------------
(***************************************************************************)
(* The safety of the scheduler under every order of its public methods,    *)
(* for any number of tasks, priorities, signals and any quantum; and the   *)
(* shell cut short by the timer anywhere in a command: the current task    *)
(* executes on a stack of its own, no mutex is waited for except by the    *)
(* interrupt that takes the CPU from the shell, the queue is exact up to   *)
(* the task of an unfinished kill, and a killed task never runs again, for *)
(* any number of tasks and stacks.                                         *)
(***************************************************************************)
EXTENDS KernelTasks, FiniteSetTheorems, TLAPS

-----------------------------------------------------------------------------
(* The queue operations *)

\* What a queue holds is of its type, and a queue is one of any larger type.
LEMMA SeqElements ==
  ASSUME NEW S, NEW q \in Seq(S)
  PROVE  Len(q) \in Nat /\ \A k \in 1 .. Len(q) : q[k] \in S
OBVIOUS

LEMMA SeqLarger ==
  ASSUME NEW S, NEW T, S \subseteq T, NEW q \in Seq(S)
  PROVE  q \in Seq(T)
OBVIOUS

\* No task has two entries.
Distinct(q) == \A j, k \in 1 .. Len(q) : q[j] = q[k] => j = k

LEMMA AppendQueued ==
  ASSUME NEW S, NEW q \in Seq(S), NEW t \in S
  PROVE  /\ Append(q, t) \in Seq(S)
         /\ Queued(Append(q, t)) = Queued(q) \cup {t}
<1>1. /\ Append(q, t) \in Seq(S) /\ Len(Append(q, t)) = Len(q) + 1 /\ Len(q) \in Nat
      /\ \A k \in 1 .. Len(q) : Append(q, t)[k] = q[k]
      /\ Append(q, t)[Len(q) + 1] = t
  OBVIOUS
<1>2. 1 .. Len(q) + 1 = (1 .. Len(q)) \cup {Len(q) + 1}
  BY <1>1
<1> QED
  BY <1>1, <1>2 DEF Queued

\* A task that has no entry gets its first.
LEMMA AppendDistinct ==
  ASSUME NEW S, NEW q \in Seq(S), NEW t \in S, Distinct(q), t \notin Queued(q)
  PROVE  Distinct(Append(q, t))
<1> DEFINE c == Append(q, t)
<1>1. Len(c) = Len(q) + 1 /\ Len(q) \in Nat
  OBVIOUS
<1>2. (\A k \in 1 .. Len(q) : c[k] = q[k]) /\ c[Len(q) + 1] = t
  OBVIOUS
<1> HIDE DEF c
<1>3. \A k \in 1 .. Len(c) : k \in 1 .. Len(q) \/ k = Len(q) + 1
  BY <1>1
<1>4. \A k \in 1 .. Len(q) : q[k] # t
  BY DEF Queued
<1>5. \A j, k \in 1 .. Len(c) : c[j] = c[k] => j = k
  BY <1>2, <1>3, <1>4 DEF Distinct
<1> QED
  BY <1>5 DEF Distinct, c

\* Removing one entry loses at most that entry's task.
LEMMA RemoveIndexQueued ==
  ASSUME NEW S, NEW q \in Seq(S), NEW k \in 1 .. Len(q)
  PROVE  /\ RemoveIndex(q, k) \in Seq(S)
         /\ \A t \in Queued(q) : t # q[k] => t \in Queued(RemoveIndex(q, k))
         /\ Queued(RemoveIndex(q, k)) \subseteq Queued(q)
         /\ Distinct(q) => /\ Distinct(RemoveIndex(q, k))
                           /\ q[k] \notin Queued(RemoveIndex(q, k))
<1> DEFINE a == SubSeq(q, 1, k - 1)
           b == SubSeq(q, k + 1, Len(q))
<1>1. Len(q) \in Nat /\ k \in Nat /\ k >= 1 /\ k <= Len(q)
  OBVIOUS
<1>2. /\ a \in Seq(S) /\ Len(a) = k - 1
      /\ \A j \in 1 .. k - 1 : a[j] = q[j]
  <2>1. \A j \in 1 .. k - 1 : q[j] \in S
    BY <1>1
  <2> QED
    BY <1>1, <2>1
<1>3. /\ b \in Seq(S) /\ Len(b) = Len(q) - k
      /\ \A j \in 1 .. Len(q) - k : b[j] = q[k + j]
  <2>1. \A j \in k + 1 .. Len(q) : q[j] \in S
    BY <1>1
  <2> QED
    BY <1>1, <2>1
<1> HIDE DEF a, b
<1>4. /\ a \o b \in Seq(S) /\ Len(a \o b) = Len(q) - 1
      /\ \A j \in 1 .. k - 1 : (a \o b)[j] = q[j]
      /\ \A j \in 1 .. Len(q) - k : (a \o b)[k - 1 + j] = q[k + j]
  <2>1. /\ a \o b \in Seq(S) /\ Len(a \o b) = (k - 1) + (Len(q) - k)
        /\ \A j \in 1 .. (k - 1) + (Len(q) - k) :
             (a \o b)[j] = IF j <= k - 1 THEN a[j] ELSE b[j - (k - 1)]
    <3>1. a \in Seq(S) /\ b \in Seq(S)
      BY <1>2, <1>3
    <3>2. Len(a \o b) = Len(a) + Len(b)
      BY ONLY <3>1
    <3>3. a \o b \in Seq(S)
      BY ONLY <3>1
    <3>4. \A j \in 1 .. Len(a) + Len(b) : (a \o b)[j] = IF j <= Len(a) THEN a[j] ELSE b[j - Len(a)]
      BY ONLY <1>2, <1>3
    <3> QED
      BY ONLY <1>2, <1>3, <3>2, <3>3, <3>4
  <2>2. \A j \in 1 .. k - 1 : (a \o b)[j] = q[j]
    BY <1>1, <1>2, <2>1
  <2>3. ASSUME NEW j \in 1 .. Len(q) - k PROVE (a \o b)[k - 1 + j] = q[k + j]
    <3>1. k - 1 + j \in 1 .. (k - 1) + (Len(q) - k) /\ ~ (k - 1 + j <= k - 1) /\ (k - 1 + j) - (k - 1) = j
      BY <1>1
    <3>2. (a \o b)[k - 1 + j] = b[j]
      BY <2>1, <3>1, Zenon
    <3> QED
      BY <1>3, <3>2
  <2>4. (k - 1) + (Len(q) - k) = Len(q) - 1
    BY <1>1
  <2> QED
    BY <2>1, <2>2, <2>3, <2>4, Zenon
<1>5. ASSUME NEW i \in 1 .. Len(q), i # k
      PROVE  \E j \in 1 .. Len(q) - 1 : (a \o b)[j] = q[i]
  <2>i. i \in Nat /\ 1 <= i /\ i <= Len(q) /\ i # k
    BY <1>1, <1>5
  <2>1. CASE i < k
    <3>1. i \in 1 .. k - 1 /\ i \in 1 .. Len(q) - 1
      BY <1>1, <2>i, <2>1
    <3>2. (a \o b)[i] = q[i]
      BY <1>4, <3>1
    <3> QED
      BY <3>1, <3>2, Zenon
  <2>2. CASE i > k
    <3>1. i - k \in 1 .. Len(q) - k /\ k - 1 + (i - k) = i - 1 /\ k + (i - k) = i /\ i - 1 \in 1 .. Len(q) - 1
      BY <1>1, <2>i, <2>2
    <3>2. (a \o b)[i - 1] = q[i]
      BY <1>4, <3>1, Zenon
    <3> QED
      BY <3>1, <3>2, Zenon
  <2>3. i < k \/ i > k
    BY <1>1, <2>i
  <2> QED
    BY <2>1, <2>2, <2>3, Zenon
<1>6. RemoveIndex(q, k) = a \o b
  BY DEF RemoveIndex, a, b
<1>7. ASSUME NEW j \in 1 .. Len(q) - 1
      PROVE  \E i \in 1 .. Len(q) : (a \o b)[j] = q[i]
  <2>1. CASE j <= k - 1
    <3>1. j \in 1 .. k - 1 /\ j \in 1 .. Len(q)
      BY <1>1, <2>1
    <3> QED
      BY <1>4, <3>1, Zenon
  <2>2. CASE ~ (j <= k - 1)
    <3>1. j - (k - 1) \in 1 .. Len(q) - k /\ k - 1 + (j - (k - 1)) = j
      BY <1>1, <2>2
    <3>2. k + (j - (k - 1)) \in 1 .. Len(q)
      BY <1>1, <3>1
    <3> QED
      BY <1>4, <3>1, <3>2, Zenon
  <2> QED
    BY <2>1, <2>2, Zenon
<1>8. Queued(RemoveIndex(q, k)) \subseteq Queued(q)
  <2> DEFINE c == a \o b
  <2>1. Len(c) = Len(q) - 1 /\ \A j \in 1 .. Len(q) - 1 : \E i \in 1 .. Len(q) : c[j] = q[i]
    BY <1>4, <1>7, Zenon
  <2> HIDE DEF c
  <2>2. {c[j] : j \in 1 .. Len(c)} \subseteq {q[i] : i \in 1 .. Len(q)}
    BY ONLY <2>1
  <2> QED
    BY <1>6, <2>2, Zenon DEF Queued, c
<1>9. \A t \in Queued(q) : t # q[k] => t \in Queued(RemoveIndex(q, k))
  <2> SUFFICES ASSUME NEW i \in 1 .. Len(q), q[i] # q[k] PROVE q[i] \in Queued(a \o b)
    BY <1>6, Zenon DEF Queued
  <2>1. PICK j \in 1 .. Len(q) - 1 : (a \o b)[j] = q[i]
    BY <1>5, Zenon
  <2>2. j \in 1 .. Len(a \o b)
    BY <1>4
  <2> QED
    BY <2>1, <2>2 DEF Queued
<1> DEFINE at(j) == IF j < k THEN j ELSE j + 1
<1>10. \A j \in 1 .. Len(q) - 1 : at(j) \in 1 .. Len(q) /\ at(j) # k /\ (a \o b)[j] = q[at(j)]
  <2> TAKE j \in 1 .. Len(q) - 1
  <2>1. CASE j < k
    <3>1. j \in 1 .. k - 1 /\ j \in 1 .. Len(q) /\ j # k
      BY <1>1, <2>1
    <3> QED
      BY <1>4, <2>1, <3>1
  <2>2. CASE ~ (j < k)
    <3>1. j + 1 - k \in 1 .. Len(q) - k /\ k - 1 + (j + 1 - k) = j /\ k + (j + 1 - k) = j + 1
      BY <1>1, <2>2
    <3>2. j + 1 \in 1 .. Len(q) /\ j + 1 # k
      BY <1>1, <2>2
    <3>3. (a \o b)[j] = q[j + 1]
      BY <1>4, <3>1, Zenon
    <3> QED
      BY <2>2, <3>2, <3>3
  <2> QED
    BY <2>1, <2>2, Zenon
<1>11. \A i, j \in 1 .. Len(q) - 1 : at(i) = at(j) => i = j
  BY <1>1
<1> HIDE DEF at
<1>12. ASSUME Distinct(q)
       PROVE  Distinct(a \o b) /\ q[k] \notin Queued(a \o b)
  <2> DEFINE c == a \o b
  <2>1. /\ Len(c) = Len(q) - 1
        /\ \A j \in 1 .. Len(q) - 1 : at(j) \in 1 .. Len(q) /\ at(j) # k /\ c[j] = q[at(j)]
    BY <1>4, <1>10
  <2>2. k \in 1 .. Len(q) /\ \A i, j \in 1 .. Len(q) : q[i] = q[j] => i = j
    BY <1>12 DEF Distinct
  <2> HIDE DEF c
  <2>3. \A i, j \in 1 .. Len(c) : c[i] = c[j] => i = j
    BY ONLY <1>11, <2>1, <2>2
  <2>4. \A j \in 1 .. Len(c) : c[j] # q[k]
    BY ONLY <2>1, <2>2
  <2> QED
    BY <2>3, <2>4 DEF Distinct, Queued, c
<1> QED
  BY <1>4, <1>6, <1>8, <1>9, <1>12

\* The rank of a position among those kept: how many are at or before it.
Upto(kept, k) == {j \in kept : j <= k}

\* Ranks grow with the position and run from 1 to the number kept.
LEMMA Ranks ==
  ASSUME NEW kept \in SUBSET Nat, IsFiniteSet(kept)
  PROVE  /\ Cardinality(kept) \in Nat
         /\ \A k \in kept : Cardinality(Upto(kept, k)) \in 1 .. Cardinality(kept)
         /\ \A j, k \in kept : j < k => Cardinality(Upto(kept, j)) < Cardinality(Upto(kept, k))
         /\ \A j \in 1 .. Cardinality(kept) : \E k \in kept : Cardinality(Upto(kept, k)) = j
<1> DEFINE upto(k) == Upto(kept, k)
           rank == [k \in kept |-> Cardinality(upto(k))]
           n == Cardinality(kept)
<1>1. n \in Nat
  BY FS_CardinalityType
<1>2. \A k \in kept : IsFiniteSet(upto(k)) /\ Cardinality(upto(k)) \in 1 .. n
  <2> TAKE k \in kept
  <2>1. upto(k) \in SUBSET kept /\ k \in upto(k)
    BY DEF Upto
  <2> HIDE DEF upto
  <2>2. IsFiniteSet(upto(k)) /\ Cardinality(upto(k)) <= n /\ Cardinality(upto(k)) \in Nat
    BY <1>1, <2>1, FS_Subset, FS_CardinalityType
  <2>3. Cardinality(upto(k)) # 0
    BY <2>1, <2>2, FS_EmptySet
  <2> QED
    BY <1>1, <2>2, <2>3
<1>3. \A j, k \in kept : j < k => Cardinality(upto(j)) < Cardinality(upto(k))
  <2> TAKE j, k \in kept
  <2> HAVE j < k
  <2>1. upto(j) \in SUBSET upto(k) /\ k \in upto(k) /\ k \notin upto(j)
    <3>1. j \in Nat /\ k \in Nat /\ \A x \in kept : x \in Nat
      OBVIOUS
    <3>2. \A x \in kept : x <= j => x <= k
      BY <3>1
    <3>3. k \in upto(k) /\ k \notin upto(j)
      BY <3>1 DEF Upto
    <3> QED
      BY <3>2, <3>3, Zenon DEF Upto
  <2> HIDE DEF upto
  <2>2. IsFiniteSet(upto(k)) /\ Cardinality(upto(k)) \in Nat /\ Cardinality(upto(j)) \in Nat
    BY <1>1, <1>2
  <2>3. Cardinality(upto(j)) <= Cardinality(upto(k)) /\ Cardinality(upto(k)) # Cardinality(upto(j))
    BY <2>1, <2>2, FS_Subset
  <2> QED
    BY <2>2, <2>3
<1> HIDE DEF upto
<1>4. rank \in Injection(kept, 1 .. n)
  <2>1. rank \in [kept -> 1 .. n]
    BY <1>2
  <2>2. \A j, k \in kept : rank[j] = rank[k] => j = k
    <3> TAKE j, k \in kept
    <3>1. j \in Nat /\ k \in Nat /\ Cardinality(upto(j)) \in Nat /\ Cardinality(upto(k)) \in Nat
      BY <1>1, <1>2
    <3> QED
      BY <1>3, <3>1
  <2> QED
    BY <2>1, <2>2 DEF Injection, IsInjective
<1>5. rank \in Surjection(kept, 1 .. n)
  <2>1. IsFiniteSet(1 .. n) /\ Cardinality(1 .. n) = n
    BY <1>1, FS_Interval
  <2> HIDE DEF rank
  <2> QED
    BY <1>4, <2>1, FS_Injection
<1>6. \A j \in 1 .. n : \E k \in kept : Cardinality(upto(k)) = j
  <2>1. \A j \in 1 .. n : \E k \in kept : rank[k] = j
    BY <1>5, Zenon DEF Surjection
  <2> QED
    BY <2>1
<1> QED
  BY <1>1, <1>2, <1>3, <1>6 DEF upto

\* A non-empty finite set of positions has a first: the one of rank 1.
LEMMA LeastPosition ==
  ASSUME NEW F \in SUBSET Nat, IsFiniteSet(F), F # {}
  PROVE  \E k \in F : \A j \in F : k <= j
<1>1. Cardinality(F) \in Nat /\ Cardinality(F) # 0
  BY FS_CardinalityType, FS_EmptySet
<1>2. 1 \in 1 .. Cardinality(F)
  BY <1>1
<1>3. PICK k \in F : Cardinality(Upto(F, k)) = 1
  BY <1>2, Ranks
<1>4. ASSUME NEW j \in F, j < k PROVE FALSE
  <2>1. Cardinality(Upto(F, j)) < 1 /\ Cardinality(Upto(F, j)) \in 1 .. Cardinality(F)
    BY <1>3, <1>4, Ranks
  <2> QED
    BY <1>1, <2>1
<1> QED
  BY <1>4

\* retain keeps a sequence, and keeps exactly the entries that are not gone.
LEMMA RetainQueued ==
  ASSUME NEW S, NEW q \in Seq(S), NEW Gone
  PROVE  /\ Retain(q, Gone) \in Seq(S)
         /\ Queued(Retain(q, Gone)) = Queued(q) \ Gone
         /\ Distinct(q) => Distinct(Retain(q, Gone))
<1> DEFINE kept == {k \in 1 .. Len(q) : q[k] \notin Gone}
           upto(k) == Upto(kept, k)
           n == Cardinality(kept)
<1>1. IsFiniteSet(kept) /\ n \in Nat /\ kept \in SUBSET Nat
  <2>1. IsFiniteSet(1 .. Len(q)) /\ kept \subseteq 1 .. Len(q) /\ 1 .. Len(q) \subseteq Nat
    BY FS_Interval
  <2> HIDE DEF kept
  <2> QED
    BY <2>1, FS_Subset, FS_CardinalityType, Zenon
<1>2. \A k \in kept : q[k] \in S
  OBVIOUS
<1> HIDE DEF kept
<1>3. \A k \in kept : Cardinality(upto(k)) \in 1 .. n
  BY <1>1, Ranks
<1>4. \A j, k \in kept : j < k => Cardinality(upto(j)) < Cardinality(upto(k))
  BY <1>1, Ranks
<1>7. \A j \in 1 .. n : \E k \in kept : Cardinality(upto(k)) = j
  BY <1>1, Ranks
<1> HIDE DEF upto
<1> DEFINE at(j) == CHOOSE k \in kept : Cardinality(upto(k)) = j
           r == [j \in 1 .. n |-> q[at(j)]]
<1>8. \A j \in 1 .. n : at(j) \in kept /\ Cardinality(upto(at(j))) = j
  BY <1>7
<1>9. \A k \in kept : \E j \in 1 .. n : at(j) = k
  <2> TAKE k \in kept
  <2>1. Cardinality(upto(k)) \in 1 .. n
    BY <1>3
  <2>2. at(Cardinality(upto(k))) \in kept /\ Cardinality(upto(at(Cardinality(upto(k))))) = Cardinality(upto(k))
    BY <1>8, <2>1
  <2>3. \A j \in kept : Cardinality(upto(j)) = Cardinality(upto(k)) => j = k
    BY <1>1, <1>3, <1>4
  <2>4. at(Cardinality(upto(k))) = k
    BY <2>2, <2>3
  <2> QED
    BY <2>1, <2>4
<1> HIDE DEF at
<1>10. Retain(q, Gone) = r
  BY DEF Retain, kept, upto, Upto, at
<1>11. r \in Seq(S) /\ Len(r) = n /\ DOMAIN r = 1 .. n
  <2>1. \A j \in 1 .. n : q[at(j)] \in S
    BY <1>2, <1>8
  <2>2. r \in [1 .. n -> S]
    BY <2>1
  <2> HIDE DEF r, n
  <2> QED
    BY <1>1, <2>2
<1>12. Queued(r) = {q[at(j)] : j \in 1 .. n}
  BY <1>11, Zenon DEF Queued
<1>13. {q[at(j)] : j \in 1 .. n} = {q[k] : k \in kept}
  BY <1>8, <1>9
<1>14. {q[k] : k \in kept} = Queued(q) \ Gone
  BY DEF kept, Queued
<1>15. ASSUME Distinct(q) PROVE Distinct(r)
  <2>1. \A j \in 1 .. n : at(j) \in 1 .. Len(q) /\ r[j] = q[at(j)]
    BY <1>8 DEF kept
  <2>2. \A i, j \in 1 .. n : at(i) = at(j) => i = j
    BY <1>8
  <2>3. \A i, j \in 1 .. Len(q) : q[i] = q[j] => i = j
    BY <1>15 DEF Distinct
  <2>4. Len(r) = n
    BY <1>11, Zenon
  <2> HIDE DEF r, n
  <2>5. \A i, j \in 1 .. n : r[i] = r[j] => i = j
    BY ONLY <2>1, <2>2, <2>3
  <2> QED
    BY <2>4, <2>5 DEF Distinct
<1> QED
  BY <1>10, <1>11, <1>12, <1>13, <1>14, <1>15, Zenon

-----------------------------------------------------------------------------
(* The inductive invariant *)

SchedInv == TypeOK /\ SingleRunning /\ ReadyIsQueued

LEMMA QuantumInRange == Quantum \in 0 .. Quantum
  BY SchedulerConstants

LEMMA PickIsPosition ==
  ASSUME NEW q, NEW st, Len(q) \in Nat, NEW k \in pick_next_task(q, st)
  PROVE  k \in 1 .. Len(q)
  BY DEF pick_next_task, AboveLow

\* What Dispatch needs of the queue and the task states it is entered with,
\* and what it leaves behind.
LEMMA DispatchInv ==
  ASSUME TypeOK,
         NEW q \in Seq(1 .. next_id - 1),
         NEW st \in [TaskId -> TaskStates], NEW stay \in [TaskId -> TaskStates],
         \A t \in TaskId : st[t] # "Running",
         \A t \in TaskId : st[t] = "Ready" => t \in Queued(q),
         \A t \in TaskId : stay[t] = "Running" => t = current,
         \A t \in TaskId : stay[t] = "Ready" => t \in Queued(q),
         Dispatch(q, st, stay)
  PROVE  /\ state' \in [TaskId -> TaskStates]
         /\ ready_queue' \in Seq(1 .. next_id - 1)
         /\ current' \in 0 .. next_id - 1
         /\ SingleRunning'
         /\ ReadyIsQueued'
<1>1. ASSUME NEW k \in pick_next_task(q, st),
             ready_queue' = RemoveIndex(q, k),
             state' = [st EXCEPT ![q[k]] = "Running"],
             current' = q[k]
      PROVE  /\ state' \in [TaskId -> TaskStates]
             /\ ready_queue' \in Seq(1 .. next_id - 1)
             /\ current' \in 0 .. next_id - 1
             /\ SingleRunning'
             /\ ReadyIsQueued'
  <2>1. k \in 1 .. Len(q) /\ q[k] \in 1 .. next_id - 1
    BY PickIsPosition, SeqElements, Zenon
  <2>2. q[k] \in TaskId /\ next_id \in Nat /\ current' \in 0 .. next_id - 1
    BY <1>1, <2>1, SchedulerConstants, SMTT(30) DEF TypeOK, TaskId
  <2>3. /\ ready_queue' \in Seq(1 .. next_id - 1)
        /\ \A t \in Queued(q) : t # q[k] => t \in Queued(ready_queue')
    BY <1>1, <2>1, RemoveIndexQueued
  <2>4. state' \in [TaskId -> TaskStates]
    BY <1>1, Zenon DEF TaskStates
  <2>5. SingleRunning'
    BY <1>1, <2>2 DEF SingleRunning
  <2>6. ReadyIsQueued'
    BY <1>1, <2>2, <2>3 DEF ReadyIsQueued
  <2> QED
    BY <2>2, <2>3, <2>4, <2>5, <2>6
<1>2. ASSUME ready_queue' = q, state' = stay, current' = current
      PROVE  /\ state' \in [TaskId -> TaskStates]
             /\ ready_queue' \in Seq(1 .. next_id - 1)
             /\ current' \in 0 .. next_id - 1
             /\ SingleRunning'
             /\ ReadyIsQueued'
  BY <1>2 DEF TypeOK, SingleRunning, ReadyIsQueued
<1> QED
  BY <1>1, <1>2 DEF Dispatch

\* schedule, entered with states and slices that already satisfy the invariant.
LEMMA ScheduleInv ==
  ASSUME TypeOK,
         NEW st \in [TaskId -> TaskStates], NEW ts \in [TaskId -> 0 .. Quantum],
         \A t \in TaskId : st[t] = "Running" => t = current,
         \A t \in TaskId : st[t] = "Ready" => t \in Queued(ready_queue),
         schedule(st, ts),
         next_id' = next_id, priority' = priority, all_tasks' = all_tasks,
         foreground' \in [TaskId -> {"Foreground", "Background", "Stopped"}],
         pending' \in [TaskId -> SUBSET (1 .. 31)]
  PROVE  SchedInv'
<1> DEFINE Goal ==
      /\ state' \in [TaskId -> TaskStates]
      /\ ready_queue' \in Seq(1 .. next_id - 1)
      /\ current' \in 0 .. next_id - 1
      /\ SingleRunning'
      /\ ReadyIsQueued'
      /\ time_slice' \in [TaskId -> 0 .. Quantum]
<1>q. ready_queue \in Seq(1 .. next_id - 1)
  BY DEF TypeOK
<1>1. ASSUME current # None, st[current] = "Running" PROVE Goal
  <2> DEFINE ready == [st EXCEPT ![current] = "Ready"]
             q == Append(ready_queue, current)
  <2>1. current \in 1 .. next_id - 1 /\ current \in TaskId
    BY <1>1, SchedulerConstants DEF TypeOK, None, TaskId
  <2>2. q \in Seq(1 .. next_id - 1) /\ Queued(q) = Queued(ready_queue) \cup {current}
    <3> DEFINE S == 1 .. next_id - 1
    <3>1. ready_queue \in Seq(S) /\ current \in S
      BY <1>q, <2>1
    <3> HIDE DEF S
    <3>2. /\ Append(ready_queue, current) \in Seq(S)
          /\ Queued(Append(ready_queue, current)) = Queued(ready_queue) \cup {current}
      BY ONLY <3>1, AppendQueued
    <3> QED
      BY ONLY <3>2 DEF q, S
  <2>3. ready \in [TaskId -> TaskStates] /\ \A t \in TaskId : ready[t] # "Running"
    BY <2>1 DEF TaskStates
  <2>4. \A t \in TaskId : ready[t] = "Ready" => t \in Queued(q)
    BY <2>1, <2>2
  <2>5. Dispatch(q, ready, ready) /\ time_slice' = [ts EXCEPT ![current] = Quantum]
    BY <1>1 DEF schedule
  <2> HIDE DEF ready, q
  <2>6. time_slice' \in [TaskId -> 0 .. Quantum]
    BY <2>5, QuantumInRange, Zenon
  <2>7. \A t \in TaskId : ready[t] = "Running" => t = current
    BY <2>3
  <2> QED
    BY <2>2, <2>3, <2>4, <2>5, <2>6, <2>7, DispatchInv, Zenon
<1>2. ASSUME ~ (current # None /\ st[current] = "Running") PROVE Goal
  <2>1. \A t \in TaskId : st[t] # "Running"
    BY <1>2, SchedulerConstants DEF None, TaskId
  <2>2. Dispatch(ready_queue, st, st) /\ time_slice' = ts
    BY <1>2 DEF schedule
  <2> QED
    BY <1>q, <2>1, <2>2, DispatchInv, Zenon
<1>3. Goal
  BY <1>1, <1>2
<1>4. need_reschedule' \in BOOLEAN /\ preempt_enabled' \in BOOLEAN
  BY Zenon DEF schedule, TypeOK
<1> QED
  BY <1>3, <1>4, Zenon DEF SchedInv, TypeOK

LEMMA CreateInv ==
  ASSUME SchedInv, NEW p \in 0 .. 3, NEW fg \in {"Foreground", "Background", "Stopped"},
         Create(p, fg)
  PROVE  SchedInv'
<1>1. next_id \in Nat /\ next_id >= 1 /\ next_id <= MaxTasks /\ next_id' = next_id + 1 /\ next_id \in TaskId
  BY SchedulerConstants DEF SchedInv, TypeOK, Create, TaskId
<1>2. 1 .. next_id - 1 \subseteq 1 .. next_id' - 1 /\ next_id \in 1 .. next_id' - 1
  BY <1>1
<1>3. ready_queue \in Seq(1 .. next_id' - 1)
  <2>1. ready_queue \in Seq(1 .. next_id - 1)
    BY DEF SchedInv, TypeOK
  <2> QED
    BY <1>2, <2>1, SeqLarger, Zenon
<1>4. /\ ready_queue' \in Seq(1 .. next_id' - 1)
      /\ Queued(ready_queue') = Queued(ready_queue) \cup {next_id}
  BY <1>2, <1>3, AppendQueued DEF Create, Push
<1>5. state' \in [TaskId -> TaskStates] /\ state' = [state EXCEPT ![next_id] = "Ready"]
  BY Zenon DEF Create, SchedInv, TypeOK, TaskStates
<1>6. priority' \in [TaskId -> 0 .. 3] /\ foreground' \in [TaskId -> {"Foreground", "Background", "Stopped"}]
  BY Zenon DEF Create, SchedInv, TypeOK
<1>7. pending' \in [TaskId -> SUBSET (1 .. 31)]
  BY Zenon DEF Create, SchedInv, TypeOK
<1>8. time_slice' \in [TaskId -> 0 .. Quantum]
  BY QuantumInRange, Zenon DEF Create, SchedInv, TypeOK
<1>9. current' \in 0 .. next_id' - 1 /\ next_id' \in 1 .. MaxTasks + 1
  BY <1>1, SchedulerConstants DEF Create, SchedInv, TypeOK
<1>10. all_tasks' \in SUBSET (1 .. next_id' - 1)
  BY <1>2 DEF Create, SchedInv, TypeOK
<1>11. TypeOK'
  BY <1>4, <1>5, <1>6, <1>7, <1>8, <1>9, <1>10, Zenon DEF TypeOK, SchedInv, Create
<1>12. SingleRunning' /\ ReadyIsQueued'
  BY <1>1, <1>4, <1>5, Zenon DEF SchedInv, TypeOK, SingleRunning, ReadyIsQueued, Create
<1> QED
  BY <1>11, <1>12 DEF SchedInv

LEMMA UnchangedInv == SchedInv /\ UNCHANGED vars => SchedInv'
  BY Zenon DEF SchedInv, TypeOK, SingleRunning, ReadyIsQueued, Queued, vars, task_vars

LEMMA TickInv == SchedInv /\ tick => SchedInv'
<1> SUFFICES ASSUME SchedInv, tick PROVE SchedInv'
  OBVIOUS
<1>t. /\ TypeOK /\ SingleRunning /\ ReadyIsQueued
      /\ state \in [TaskId -> TaskStates]
      /\ foreground \in [TaskId -> {"Foreground", "Background", "Stopped"}]
      /\ time_slice \in [TaskId -> 0 .. Quantum]
      /\ pending \in [TaskId -> SUBSET (1 .. 31)]
  BY Zenon DEF SchedInv, TypeOK
<1>u. next_id' = next_id /\ priority' = priority /\ all_tasks' = all_tasks
  BY DEF tick
<1>1. ASSUME current = None, need_reschedule, UNCHANGED <<foreground, pending>>,
             schedule(state, time_slice)
      PROVE  SchedInv'
  <2>1. /\ \A t \in TaskId : state[t] = "Running" => t = current
        /\ \A t \in TaskId : state[t] = "Ready" => t \in Queued(ready_queue)
    BY <1>t DEF SingleRunning, ReadyIsQueued
  <2>2. /\ foreground' \in [TaskId -> {"Foreground", "Background", "Stopped"}]
        /\ pending' \in [TaskId -> SUBSET (1 .. 31)]
    BY <1>1, <1>t
  <2> QED
    BY <1>1, <1>t, <1>u, <2>1, <2>2, ScheduleInv
<1>2. ASSUME current # None,
             NEW sig,
             pending' = [pending EXCEPT ![current] = @ \ {sig}],
             TickFatalSignal(current, sig)
      PROVE  SchedInv'
  <2>1. current \in TaskId
    BY <1>2, SchedulerConstants DEF SchedInv, TypeOK, None, TaskId
  <2>2. pending' \in [TaskId -> SUBSET (1 .. 31)]
    BY <1>2, <1>t, <2>1
  <2>3. /\ state' = [state EXCEPT ![current] = "Terminated"] \/ state' = [state EXCEPT ![current] = "Blocked"]
        /\ foreground' = foreground \/ foreground' = [foreground EXCEPT ![current] = "Stopped"]
        /\ need_reschedule' = TRUE /\ time_slice' = time_slice /\ ready_queue' = ready_queue
        /\ current' = current /\ preempt_enabled' = preempt_enabled
    BY <1>2 DEF TickFatalSignal
  <2>4. state' \in [TaskId -> TaskStates] /\ foreground' \in [TaskId -> {"Foreground", "Background", "Stopped"}]
    BY <1>t, <2>3 DEF TaskStates
  <2>5. TypeOK'
    BY <1>u, <2>2, <2>3, <2>4, Zenon DEF SchedInv, TypeOK
  <2>6. SingleRunning' /\ ReadyIsQueued'
    BY <1>t, <2>1, <2>3 DEF SingleRunning, ReadyIsQueued
  <2> QED
    BY <2>5, <2>6 DEF SchedInv
<1>3. ASSUME current # None,
             NEW sig,
             pending' = [pending EXCEPT ![current] = @ \ {sig}],
             TickAccount(current, sig)
      PROVE  SchedInv'
  <2> DEFINE resumed == sig = SIGCONT /\ foreground[current] = "Stopped"
             st == IF resumed THEN [state EXCEPT ![current] = "Running"] ELSE state
             left == IF time_slice[current] > 0 THEN time_slice[current] - 1 ELSE 0
             ts == [time_slice EXCEPT ![current] = left]
  <2>1. current \in TaskId
    BY <1>3, SchedulerConstants DEF SchedInv, TypeOK, None, TaskId
  <2>2. pending' \in [TaskId -> SUBSET (1 .. 31)]
    BY <1>3, <1>t, <2>1
  <2>3. foreground' \in [TaskId -> {"Foreground", "Background", "Stopped"}]
    BY <1>3, <1>t, Zenon DEF TickAccount
  <2>4. /\ st \in [TaskId -> TaskStates]
        /\ \A t \in TaskId : st[t] = "Running" => t = current
        /\ \A t \in TaskId : st[t] = "Ready" => t \in Queued(ready_queue)
    BY <1>t, <2>1 DEF TaskStates, SingleRunning, ReadyIsQueued
  <2>5. ts \in [TaskId -> 0 .. Quantum]
    <3>1. time_slice[current] \in 0 .. Quantum
      BY <1>t, <2>1
    <3>2. left \in 0 .. Quantum
      BY <3>1, SchedulerConstants
    <3> QED
      BY <1>t, <3>2, Zenon
  <2>6. \/ /\ need_reschedule' = TRUE /\ state' = st /\ time_slice' = time_slice
           /\ ready_queue' = ready_queue /\ current' = current /\ preempt_enabled' = preempt_enabled
        \/ schedule(st, ts)
        \/ /\ need_reschedule' = need_reschedule /\ state' = st /\ time_slice' = ts
           /\ ready_queue' = ready_queue /\ current' = current /\ preempt_enabled' = preempt_enabled
    BY <1>3 DEF TickAccount
  <2> HIDE DEF st, ts
  <2>7. CASE schedule(st, ts)
    BY <1>t, <1>u, <2>2, <2>3, <2>4, <2>5, <2>7, ScheduleInv
  <2>8. ASSUME state' = st, time_slice' = time_slice \/ time_slice' = ts,
               need_reschedule' = TRUE \/ need_reschedule' = need_reschedule,
               ready_queue' = ready_queue, current' = current, preempt_enabled' = preempt_enabled
        PROVE  SchedInv'
    <3>1. time_slice' \in [TaskId -> 0 .. Quantum] /\ need_reschedule' \in BOOLEAN
      BY <1>t, <2>5, <2>8, Zenon DEF TypeOK
    <3>2. TypeOK'
      BY <1>u, <2>2, <2>3, <2>4, <2>8, <3>1, Zenon DEF SchedInv, TypeOK
    <3>3. SingleRunning' /\ ReadyIsQueued'
      BY <2>4, <2>8 DEF SingleRunning, ReadyIsQueued
    <3> QED
      BY <3>2, <3>3 DEF SchedInv
  <2> QED
    BY <2>6, <2>7, <2>8, Zenon
<1> QED
  BY <1>1, <1>2, <1>3 DEF tick

LEMMA PreemptInv == SchedInv /\ preempt_schedule => SchedInv'
<1> SUFFICES ASSUME SchedInv, preempt_schedule PROVE SchedInv'
  OBVIOUS
<1>t. /\ TypeOK /\ SingleRunning /\ ReadyIsQueued
      /\ state \in [TaskId -> TaskStates]
      /\ ready_queue \in Seq(1 .. next_id - 1)
      /\ time_slice \in [TaskId -> 0 .. Quantum]
  BY Zenon DEF SchedInv, TypeOK
<1> DEFINE Goal ==
      /\ state' \in [TaskId -> TaskStates]
      /\ ready_queue' \in Seq(1 .. next_id - 1)
      /\ current' \in 0 .. next_id - 1
      /\ SingleRunning'
      /\ ReadyIsQueued'
      /\ time_slice' \in [TaskId -> 0 .. Quantum]
<1>1. ASSUME current # None PROVE Goal
  <2> DEFINE q == Append(ready_queue, current)
             st == [state EXCEPT ![current] = "Ready"]
             stay == [state EXCEPT ![current] = "Running"]
  <2>1. current \in 1 .. next_id - 1 /\ current \in TaskId
    BY <1>1, SchedulerConstants DEF SchedInv, TypeOK, None, TaskId
  <2>2. q \in Seq(1 .. next_id - 1) /\ Queued(q) = Queued(ready_queue) \cup {current}
    <3> DEFINE S == 1 .. next_id - 1
    <3>1. ready_queue \in Seq(S) /\ current \in S
      BY <1>t, <2>1
    <3> HIDE DEF S
    <3>2. /\ Append(ready_queue, current) \in Seq(S)
          /\ Queued(Append(ready_queue, current)) = Queued(ready_queue) \cup {current}
      BY ONLY <3>1, AppendQueued
    <3> QED
      BY ONLY <3>2 DEF q, S
  <2>3. st \in [TaskId -> TaskStates] /\ stay \in [TaskId -> TaskStates]
    BY <1>t, <2>1 DEF TaskStates
  <2>4. /\ \A t \in TaskId : st[t] # "Running"
        /\ \A t \in TaskId : stay[t] = "Running" => t = current
    BY <1>t, <2>1 DEF SingleRunning
  <2>5. /\ \A t \in TaskId : st[t] = "Ready" => t \in Queued(q)
        /\ \A t \in TaskId : stay[t] = "Ready" => t \in Queued(q)
    BY <1>t, <2>1, <2>2 DEF ReadyIsQueued
  <2>6. Dispatch(q, st, stay) /\ time_slice' = [time_slice EXCEPT ![current] = Quantum]
    BY <1>1 DEF preempt_schedule
  <2> HIDE DEF q, st, stay
  <2>7. time_slice' \in [TaskId -> 0 .. Quantum]
    BY <1>t, <2>6, QuantumInRange, Zenon
  <2> QED
    BY <1>t, <2>2, <2>3, <2>4, <2>5, <2>6, <2>7, DispatchInv, Zenon
<1>2. ASSUME current = None PROVE Goal
  <2>1. \A t \in TaskId : state[t] # "Running"
    BY <1>2, <1>t, SchedulerConstants DEF SingleRunning, None, TaskId
  <2>2. Dispatch(ready_queue, state, state) /\ time_slice' = time_slice
    BY <1>2 DEF preempt_schedule
  <2>3. \A t \in TaskId : state[t] = "Ready" => t \in Queued(ready_queue)
    BY <1>t DEF ReadyIsQueued
  <2> QED
    BY <1>t, <2>1, <2>2, <2>3, DispatchInv
<1>3. Goal
  BY <1>1, <1>2
<1> HIDE DEF Goal
<1>4. TypeOK'
  BY <1>3, Zenon DEF Goal, SchedInv, TypeOK, preempt_schedule, task_vars
<1> QED
  BY <1>3, <1>4 DEF Goal, SchedInv

\* schedule called on the task states as they are, or with current terminated.
LEMMA YieldInv == SchedInv /\ (yield_current \/ terminate_current) => SchedInv'
<1> SUFFICES ASSUME SchedInv, yield_current \/ terminate_current PROVE SchedInv'
  OBVIOUS
<1>t. /\ TypeOK /\ SingleRunning /\ ReadyIsQueued
      /\ state \in [TaskId -> TaskStates]
      /\ foreground \in [TaskId -> {"Foreground", "Background", "Stopped"}]
      /\ time_slice \in [TaskId -> 0 .. Quantum]
      /\ pending \in [TaskId -> SUBSET (1 .. 31)]
  BY Zenon DEF SchedInv, TypeOK
<1>1. UNCHANGED task_vars
  BY DEF yield_current, terminate_current
<1> DEFINE st == IF current # None THEN [state EXCEPT ![current] = "Terminated"] ELSE state
<1>2. /\ st \in [TaskId -> TaskStates]
      /\ \A t \in TaskId : st[t] = "Running" => t = current
      /\ \A t \in TaskId : st[t] = "Ready" => t \in Queued(ready_queue)
  BY <1>t, Zenon DEF TaskStates, SingleRunning, ReadyIsQueued
<1>3. CASE yield_current
  BY <1>t, <1>1, <1>3, ScheduleInv DEF task_vars, yield_current, SingleRunning, ReadyIsQueued
<1>4. CASE terminate_current
  <2>1. schedule(st, time_slice)
    BY <1>4 DEF terminate_current
  <2> HIDE DEF st
  <2> QED
    BY <1>t, <1>1, <1>2, <2>1, ScheduleInv DEF task_vars
<1> QED
  BY <1>3, <1>4

LEMMA PushInv ==
  ASSUME SchedInv, NEW t \in 1 .. next_id - 1, Push(t)
  PROVE  /\ ready_queue' \in Seq(1 .. next_id - 1)
         /\ Queued(ready_queue') = Queued(ready_queue) \cup {t}
<1> DEFINE S == 1 .. next_id - 1
<1>1. ready_queue \in Seq(S) /\ t \in S /\ ready_queue' = Append(ready_queue, t)
  BY DEF SchedInv, TypeOK, Push
<1> HIDE DEF S
<1>2. ready_queue' \in Seq(S) /\ Queued(ready_queue') = Queued(ready_queue) \cup {t}
  BY ONLY <1>1, AppendQueued
<1> QED
  BY <1>2 DEF S

LEMMA SignalAdded ==
  ASSUME SchedInv, NEW t \in TaskId, NEW sig \in 1 .. 31,
         pending' = [pending EXCEPT ![t] = @ \cup {sig}]
  PROVE  pending' \in [TaskId -> SUBSET (1 .. 31)]
<1>1. pending \in [TaskId -> SUBSET (1 .. 31)]
  BY Zenon DEF SchedInv, TypeOK
<1>2. pending[t] \cup {sig} \in SUBSET (1 .. 31)
  BY <1>1
<1> QED
  BY <1>1, <1>2

\* A task that becomes Ready is pushed in the same step.
LEMMA WakeInv ==
  ASSUME SchedInv, NEW t \in TaskId, unblock_task(t) \/ background_task(t)
  PROVE  SchedInv'
<1>1. /\ t \in 1 .. next_id - 1 /\ Push(t)
      /\ state' = [state EXCEPT ![t] = "Ready"]
      /\ current' = current /\ next_id' = next_id
  BY Zenon DEF SchedInv, TypeOK, unblock_task, background_task, task_vars
<1>2. ready_queue' \in Seq(1 .. next_id - 1) /\ Queued(ready_queue') = Queued(ready_queue) \cup {t}
  BY <1>1, PushInv
<1>3. state' \in [TaskId -> TaskStates]
  BY <1>1 DEF SchedInv, TypeOK, TaskStates
<1>4. /\ foreground' \in [TaskId -> {"Foreground", "Background", "Stopped"}]
      /\ pending' \in [TaskId -> SUBSET (1 .. 31)]
  <2>1. SIGCONT \in 1 .. 31
    BY DEF SIGCONT
  <2>2. CASE unblock_task(t)
    BY <2>2, Zenon DEF SchedInv, TypeOK, unblock_task, task_vars
  <2>3. CASE background_task(t)
    <3>1. pending' \in [TaskId -> SUBSET (1 .. 31)]
      BY <2>1, <2>3, SignalAdded, Zenon DEF background_task
    <3>2. foreground' \in [TaskId -> {"Foreground", "Background", "Stopped"}]
      BY <2>3 DEF SchedInv, TypeOK, background_task
    <3> QED
      BY <3>1, <3>2
  <2> QED
    BY <2>2, <2>3
<1>5. TypeOK'
  BY <1>1, <1>2, <1>3, <1>4, Zenon DEF SchedInv, TypeOK, unblock_task, background_task, task_vars
<1>6. SingleRunning' /\ ReadyIsQueued'
  BY <1>1, <1>2 DEF SchedInv, TypeOK, SingleRunning, ReadyIsQueued
<1> QED
  BY <1>5, <1>6 DEF SchedInv

\* The tasks a retain drops are not Ready afterwards.
LEMMA RetainInv ==
  ASSUME SchedInv, NEW Gone, ready_queue' = Retain(ready_queue, Gone)
  PROVE  /\ ready_queue' \in Seq(1 .. next_id - 1)
         /\ Queued(ready_queue') = Queued(ready_queue) \ Gone
<1> DEFINE S == 1 .. next_id - 1
<1>1. ready_queue \in Seq(S)
  BY DEF SchedInv, TypeOK
<1> HIDE DEF S
<1>2. ready_queue' \in Seq(S) /\ Queued(ready_queue') = Queued(ready_queue) \ Gone
  BY <1>1, RetainQueued
<1> QED
  BY <1>2 DEF S

LEMMA TerminateTaskInv ==
  ASSUME SchedInv, NEW t \in TaskId, terminate_task(t)
  PROVE  SchedInv'
<1>1. ready_queue' \in Seq(1 .. next_id - 1) /\ Queued(ready_queue') = Queued(ready_queue) \ {t}
  BY RetainInv, Zenon DEF terminate_task
<1>2. state' \in [TaskId -> TaskStates]
  BY DEF SchedInv, TypeOK, TaskStates, terminate_task
<1>3. TypeOK'
  BY <1>1, <1>2, Zenon DEF SchedInv, TypeOK, terminate_task, task_vars
<1>4. SingleRunning' /\ ReadyIsQueued'
  BY <1>1, Zenon DEF SchedInv, TypeOK, SingleRunning, ReadyIsQueued, terminate_task
<1> QED
  BY <1>3, <1>4 DEF SchedInv

LEMMA CleanupInv == SchedInv /\ cleanup_terminated => SchedInv'
<1> SUFFICES ASSUME SchedInv, cleanup_terminated PROVE SchedInv'
  OBVIOUS
<1> DEFINE gone == {t \in all_tasks : state[t] = "Terminated"}
<1>1. ready_queue' = Retain(ready_queue, gone)
  BY DEF cleanup_terminated
<1>2. ready_queue' \in Seq(1 .. next_id - 1) /\ Queued(ready_queue') = Queued(ready_queue) \ gone
  BY <1>1, RetainInv
<1>3. TypeOK'
  BY <1>2, Zenon DEF SchedInv, TypeOK, cleanup_terminated
<1>4. SingleRunning' /\ ReadyIsQueued'
  BY <1>2 DEF SchedInv, SingleRunning, ReadyIsQueued, cleanup_terminated
<1> QED
  BY <1>3, <1>4 DEF SchedInv

\* The steps that leave the queue alone.
LEMMA MarkInv ==
  ASSUME SchedInv,
         \/ block_current
         \/ \E on \in BOOLEAN : set_preemption(on)
         \/ \E t \in TaskId : foreground_task(t)
         \/ \E t \in TaskId, sig \in Signals : send_signal(t, sig)
  PROVE  SchedInv'
<1>1. CASE block_current
  <2>1. state' \in [TaskId -> TaskStates]
    BY <1>1, Zenon DEF SchedInv, TypeOK, TaskStates, block_current
  <2>2. TypeOK'
    BY <1>1, <2>1, Zenon DEF SchedInv, TypeOK, block_current, task_vars
  <2>3. SingleRunning' /\ ReadyIsQueued'
    BY <1>1 DEF SchedInv, TypeOK, SingleRunning, ReadyIsQueued, block_current
  <2> QED
    BY <2>2, <2>3 DEF SchedInv
<1>2. CASE \E on \in BOOLEAN : set_preemption(on)
  <2>1. TypeOK'
    BY <1>2, Zenon DEF SchedInv, TypeOK, set_preemption, task_vars
  <2>2. SingleRunning' /\ ReadyIsQueued'
    BY <1>2 DEF SchedInv, SingleRunning, ReadyIsQueued, set_preemption
  <2> QED
    BY <2>1, <2>2 DEF SchedInv
<1>3. CASE \E t \in TaskId : foreground_task(t)
  <2>1. foreground' \in [TaskId -> {"Foreground", "Background", "Stopped"}]
    BY <1>3 DEF SchedInv, TypeOK, foreground_task
  <2>2. TypeOK'
    BY <1>3, <2>1, Zenon DEF SchedInv, TypeOK, foreground_task
  <2>3. SingleRunning' /\ ReadyIsQueued'
    BY <1>3 DEF SchedInv, SingleRunning, ReadyIsQueued, foreground_task
  <2> QED
    BY <2>2, <2>3 DEF SchedInv
<1>4. CASE \E t \in TaskId, sig \in Signals : send_signal(t, sig)
  <2>1. pending' \in [TaskId -> SUBSET (1 .. 31)]
    BY <1>4, SchedulerConstants, SignalAdded, Zenon DEF send_signal
  <2>2. TypeOK'
    BY <1>4, <2>1, Zenon DEF SchedInv, TypeOK, send_signal
  <2>3. SingleRunning' /\ ReadyIsQueued'
    BY <1>4 DEF SchedInv, SingleRunning, ReadyIsQueued, send_signal
  <2> QED
    BY <2>2, <2>3 DEF SchedInv
<1> QED
  BY <1>1, <1>2, <1>3, <1>4

LEMMA InitInv == Init => SchedInv
<1> SUFFICES ASSUME Init PROVE SchedInv
  OBVIOUS
<1>1. <<>> \in Seq(1 .. next_id - 1)
  OBVIOUS
<1>2. TypeOK
  <2>1. /\ state \in [TaskId -> TaskStates] /\ priority \in [TaskId -> 0 .. 3]
        /\ foreground \in [TaskId -> {"Foreground", "Background", "Stopped"}]
        /\ pending \in [TaskId -> SUBSET (1 .. 31)]
    BY DEF Init, TaskStates, Normal
  <2>2. time_slice \in [TaskId -> 0 .. Quantum]
    BY QuantumInRange DEF Init
  <2>3. next_id \in 1 .. MaxTasks + 1 /\ current \in 0 .. next_id - 1
    BY SchedulerConstants DEF Init, None
  <2>4. all_tasks \in SUBSET (1 .. next_id - 1) /\ need_reschedule \in BOOLEAN /\ preempt_enabled \in BOOLEAN
    BY Zenon DEF Init
  <2>5. ready_queue \in Seq(1 .. next_id - 1)
    BY <1>1 DEF Init
  <2> QED
    BY <2>1, <2>2, <2>3, <2>4, <2>5, Zenon DEF TypeOK
<1> QED
  BY <1>2 DEF Init, SchedInv, SingleRunning, ReadyIsQueued

LEMMA NextInv == SchedInv /\ [Next]_vars => SchedInv'
<1> SUFFICES ASSUME SchedInv, [Next]_vars PROVE SchedInv'
  OBVIOUS
<1>1. ASSUME NEW p \in 0 .. 3, NEW fg \in {"Foreground", "Background", "Stopped"}, Create(p, fg)
      PROVE  SchedInv'
  BY <1>1, CreateInv
<1>2. CASE \/ create_kernel_task \/ create_kernel_task_with_priority \/ create_background_task
           \/ create_user_task \/ create_idle_task
  BY <1>1, <1>2, SchedulerConstants
     DEF create_kernel_task, create_kernel_task_with_priority, create_background_task,
         create_user_task, create_idle_task, Normal, Low
<1>3. CASE tick \/ preempt_schedule \/ terminate_current \/ yield_current \/ cleanup_terminated
  BY <1>3, TickInv, PreemptInv, YieldInv, CleanupInv
<1>4. CASE block_current \/ enable_preemption \/ disable_preemption
  BY <1>4, MarkInv, Zenon DEF enable_preemption, disable_preemption
<1>5. ASSUME NEW t \in TaskId,
             \/ unblock_task(t) \/ terminate_task(t) \/ background_task(t) \/ foreground_task(t)
             \/ \E sig \in Signals : send_signal(t, sig)
      PROVE  SchedInv'
  BY <1>5, WakeInv, TerminateTaskInv, MarkInv
<1>6. CASE UNCHANGED vars
  BY <1>6, UnchangedInv
<1> QED
  BY <1>2, <1>3, <1>4, <1>5, <1>6 DEF Next

LEMMA SchedInvariant == Spec => []SchedInv
  BY InitInv, NextInv, PTL DEF Spec

\* The scheduler's fields stay in their types and only ids that were handed
\* out are queued, listed or current, for any number of tasks and signals.
THEOREM TypeCorrect == Spec => []TypeOK
<1>1. SchedInv => TypeOK
  BY DEF SchedInv
<1> QED
  BY <1>1, SchedInvariant, PTL

\* At most one task is Running and it is current, under every order of the
\* scheduler's public methods.
THEOREM OneOwnerOfTheCpu == Spec => []SingleRunning
<1>1. SchedInv => SingleRunning
  BY DEF SchedInv
<1> QED
  BY <1>1, SchedInvariant, PTL

\* No Ready task is ever missing from ready_queue: block and unblock, kill,
\* cleanup and both dispatch paths lose no wake-up.
THEOREM NoLostWakeup == Spec => []ReadyIsQueued
<1>1. SchedInv => ReadyIsQueued
  BY DEF SchedInv
<1> QED
  BY <1>1, SchedInvariant, PTL

-----------------------------------------------------------------------------
(* The priority order of dispatch *)

Highest ==
  current' # current =>
    \A t \in Queued(ready_queue') : state'[t] = "Ready" => priority[t] <= priority[current']

LEMMA DispatchHighest ==
  ASSUME TypeOK,
         NEW q \in Seq(1 .. next_id - 1),
         NEW st \in [TaskId -> TaskStates], NEW stay,
         Dispatch(q, st, stay)
  PROVE  Highest
<1>1. ASSUME NEW k \in pick_next_task(q, st),
             ready_queue' = RemoveIndex(q, k),
             state' = [st EXCEPT ![q[k]] = "Running"],
             current' = q[k],
             NEW t \in Queued(ready_queue'), state'[t] = "Ready"
      PROVE  priority[t] <= priority[q[k]]
  <2>1. k \in 1 .. Len(q) /\ Len(q) \in Nat /\ \A j \in 1 .. Len(q) : q[j] \in 1 .. next_id - 1
    BY PickIsPosition, SeqElements, Zenon
  <2>2. t \in Queued(q)
    BY <1>1, <2>1, RemoveIndexQueued
  <2>3. PICK j \in 1 .. Len(q) : t = q[j]
    BY <2>2 DEF Queued
  <2>4. \A i \in 1 .. Len(q) : q[i] \in TaskId /\ priority[q[i]] \in 0 .. 3
    <3>1. 1 .. next_id - 1 \subseteq TaskId
      BY SchedulerConstants DEF TypeOK, TaskId
    <3>2. priority \in [TaskId -> 0 .. 3]
      BY DEF TypeOK
    <3> QED
      BY ONLY <2>1, <3>1, <3>2
  <2>5. st[t] = "Ready"
    BY <1>1, <2>1, <2>3, <2>4
  <2>6. CASE priority[t] > Low
    <3>1. j \in AboveLow(q, st)
      BY <2>3, <2>5, <2>6 DEF AboveLow
    <3>2. priority[q[j]] < priority[q[k]] \/ priority[q[j]] = priority[q[k]]
      BY <1>1, <3>1 DEF pick_next_task
    <3> QED
      BY <2>1, <2>3, <2>4, <3>2, SMTT(30)
  <2>7. CASE ~ (priority[t] > Low)
    BY <2>1, <2>3, <2>4, <2>7, SMTT(30) DEF Low
  <2> QED
    BY <2>6, <2>7
<1> QED
  BY <1>1 DEF Dispatch, Highest

LEMMA ScheduleHighest ==
  ASSUME TypeOK, NEW st \in [TaskId -> TaskStates], NEW ts, schedule(st, ts)
  PROVE  Highest
<1>1. CASE current # None /\ st[current] = "Running"
  <2>1. current \in 1 .. next_id - 1 /\ current \in TaskId
    BY <1>1, SchedulerConstants DEF TypeOK, None, TaskId
  <2> DEFINE S == 1 .. next_id - 1
             ready == [st EXCEPT ![current] = "Ready"]
             q == Append(ready_queue, current)
  <2>2. ready_queue \in Seq(S) /\ current \in S
    BY <2>1 DEF TypeOK
  <2>3. ready \in [TaskId -> TaskStates] /\ Dispatch(q, ready, ready)
    BY <1>1, Zenon DEF TaskStates, schedule
  <2> HIDE DEF S, ready
  <2>4. q \in Seq(S)
    BY <2>2, AppendQueued
  <2> HIDE DEF q
  <2>5. q \in Seq(1 .. next_id - 1)
    BY <2>4 DEF S
  <2> QED
    BY <2>3, <2>5, DispatchHighest
<1>2. CASE ~ (current # None /\ st[current] = "Running")
  <2>1. ready_queue \in Seq(1 .. next_id - 1) /\ Dispatch(ready_queue, st, st)
    BY <1>2 DEF TypeOK, schedule
  <2> QED
    BY <2>1, DispatchHighest
<1> QED
  BY <1>1, <1>2

LEMMA PreemptHighest == SchedInv /\ preempt_schedule => Highest
<1> SUFFICES ASSUME SchedInv, preempt_schedule PROVE Highest
  OBVIOUS
<1>t. TypeOK /\ state \in [TaskId -> TaskStates] /\ ready_queue \in Seq(1 .. next_id - 1)
  BY Zenon DEF SchedInv, TypeOK
<1>1. CASE current # None
  <2> DEFINE S == 1 .. next_id - 1
             ready == [state EXCEPT ![current] = "Ready"]
             stay == [state EXCEPT ![current] = "Running"]
             q == Append(ready_queue, current)
  <2>1. ready_queue \in Seq(S) /\ current \in S
    BY <1>1, <1>t, SchedulerConstants DEF TypeOK, None
  <2>2. ready \in [TaskId -> TaskStates] /\ Dispatch(q, ready, stay)
    BY <1>1, <1>t, Zenon DEF TaskStates, preempt_schedule
  <2> HIDE DEF S, ready, stay
  <2>3. q \in Seq(S)
    BY <2>1, AppendQueued
  <2> HIDE DEF q
  <2>4. q \in Seq(1 .. next_id - 1)
    BY <2>3 DEF S
  <2> QED
    BY <1>t, <2>2, <2>4, DispatchHighest
<1>2. CASE current = None
  <2>1. Dispatch(ready_queue, state, state)
    BY <1>2 DEF preempt_schedule
  <2> QED
    BY <1>t, <2>1, DispatchHighest
<1> QED
  BY <1>1, <1>2

LEMMA TickHighest == SchedInv /\ tick => Highest
<1> SUFFICES ASSUME SchedInv, tick PROVE Highest
  OBVIOUS
<1>t. TypeOK /\ state \in [TaskId -> TaskStates]
  BY Zenon DEF SchedInv, TypeOK
<1>1. ASSUME schedule(state, time_slice) PROVE Highest
  BY <1>1, <1>t, ScheduleHighest
<1>2. ASSUME NEW sig, TickFatalSignal(current, sig) PROVE Highest
  BY <1>2 DEF TickFatalSignal, Highest
<1>3. ASSUME NEW sig, TickAccount(current, sig) PROVE Highest
  <2> DEFINE resumed == sig = SIGCONT /\ foreground[current] = "Stopped"
             st == IF resumed THEN [state EXCEPT ![current] = "Running"] ELSE state
             left == IF time_slice[current] > 0 THEN time_slice[current] - 1 ELSE 0
             ts == [time_slice EXCEPT ![current] = left]
  <2>1. current' = current \/ schedule(st, ts)
    BY <1>3 DEF TickAccount
  <2>2. st \in [TaskId -> TaskStates]
    BY <1>t, Zenon DEF TaskStates
  <2> HIDE DEF st, ts
  <2>3. CASE schedule(st, ts)
    BY <1>t, <2>2, <2>3, ScheduleHighest
  <2> QED
    BY <2>1, <2>3 DEF Highest
<1> QED
  BY <1>1, <1>2, <1>3 DEF tick

LEMMA NextHighest == SchedInv /\ [Next]_vars => Highest
<1> SUFFICES ASSUME SchedInv, [Next]_vars PROVE Highest
  OBVIOUS
<1>t. TypeOK /\ state \in [TaskId -> TaskStates]
  BY Zenon DEF SchedInv, TypeOK
<1>1. CASE tick \/ preempt_schedule
  BY <1>1, TickHighest, PreemptHighest
<1>2. CASE yield_current
  BY <1>2, <1>t, ScheduleHighest DEF yield_current
<1>3. CASE terminate_current
  <2> DEFINE st == IF current # None THEN [state EXCEPT ![current] = "Terminated"] ELSE state
  <2>1. st \in [TaskId -> TaskStates] /\ schedule(st, time_slice)
    BY <1>3, <1>t, Zenon DEF terminate_current, TaskStates
  <2> HIDE DEF st
  <2> QED
    BY <1>t, <2>1, ScheduleHighest
<1>4. ASSUME UNCHANGED current PROVE Highest
  BY <1>4 DEF Highest
<1>5. CASE \/ create_kernel_task \/ create_kernel_task_with_priority \/ create_background_task
           \/ create_user_task \/ create_idle_task
  BY <1>4, <1>5
     DEF create_kernel_task, create_kernel_task_with_priority, create_background_task,
         create_user_task, create_idle_task, Create
<1>6. CASE block_current \/ enable_preemption \/ disable_preemption \/ cleanup_terminated
  BY <1>4, <1>6 DEF block_current, enable_preemption, disable_preemption, set_preemption, cleanup_terminated
<1>7. ASSUME NEW t \in TaskId,
             \/ unblock_task(t) \/ terminate_task(t) \/ background_task(t) \/ foreground_task(t)
             \/ \E sig \in Signals : send_signal(t, sig)
      PROVE  Highest
  BY <1>4, <1>7 DEF unblock_task, terminate_task, background_task, foreground_task, send_signal
<1>8. CASE UNCHANGED vars
  BY <1>4, <1>8 DEF vars
<1> QED
  BY <1>1, <1>2, <1>3, <1>5, <1>6, <1>7, <1>8 DEF Next

\* A change of current never leaves a Ready task of higher priority waiting in
\* the queue, on the cooperative and on the preemptive path.
THEOREM DispatchOrder == Spec => DispatchIsHighest
<1>1. SchedInv /\ [Next]_vars => [Highest]_vars
  BY NextHighest
<1>2. DispatchIsHighest <=> [][Highest]_vars
  BY DEF DispatchIsHighest, Highest
<1> QED
  BY <1>1, <1>2, SchedInvariant, PTL DEF Spec

-----------------------------------------------------------------------------
(* The kernel's tasks *)

\* The tasks that have been given a stack.
Stacked == {t \in TaskId : stack[t] # NoStack}

Commanded == [pc : {"prompt", "push", "list", "scan", "retain", "fault"}, task : Nat, at : Nat]

TasksType ==
  /\ next_id \in Nat /\ next_id >= 1
  /\ ready_queue \in Seq(TaskId)
  /\ current \in TaskId \cup {None}
  /\ preempt_enabled \in BOOLEAN /\ spinning \in BOOLEAN
  /\ command \in Commanded
  /\ stack \in [TaskId -> Int]
  /\ NEXT_STACK \in 0 .. STACKS

\* Stacks are handed out once, in order, to the tasks created so far.
StacksInv ==
  /\ \A t \in TaskId : stack[t] \in NoStack .. NEXT_STACK - 1
  /\ \A t, u \in Stacked : stack[t] = stack[u] => t = u
  /\ \A t \in TaskId : t >= next_id => stack[t] = NoStack
  /\ Queued(ready_queue) \cup ({current} \ {None}) \subseteq Stacked
  /\ command.pc \in {"push", "list"} => command.task \in Stacked

\* The CPU executes the current task, or the shell as long as there is none:
\* no saved context is the shell's.
ContextInv ==
  /\ saved = [t \in TaskId |-> t]
  /\ cpu = IF current = None THEN Shell ELSE current

\* What the shell holds.  In kill, the entry retain is looking at or nothing;
\* once the shell has lost the CPU, nothing the handler will ever lock.
LocksInv ==
  /\ command.pc \notin {"scan", "retain"} => held = {}
  /\ command.pc = "retain" => command.at >= 1
  /\ InShell("retain") => held = {} \/ held = Wanted
  /\ cpu # Shell => held \cap HandlerLocks = {}
  /\ spinning => cpu = Shell

\* Nothing happens before kernel_main has made the idle task and enabled
\* preemption.
BootInv ==
  /\ next_id = 1 => ~ preempt_enabled /\ NEXT_STACK = 0
  /\ ~ preempt_enabled => command.pc = "prompt" /\ current = None /\ ~ spinning

TasksInv == TasksType /\ StacksInv /\ ContextInv /\ LocksInv /\ BootInv

LEMMA TasksInitInv == TasksInit => TasksInv
<1> SUFFICES ASSUME TasksInit PROVE TasksInv
  OBVIOUS
<1> USE SchedulerConstants, StackConstants DEF TasksInit, Init
<1>1. TasksType
  <2>1. ready_queue \in Seq(TaskId)
    OBVIOUS
  <2>2. command \in Commanded
    BY DEF Commanded, Prompt, At, None
  <2>3. preempt_enabled \in BOOLEAN /\ spinning \in BOOLEAN
    BY Zenon
  <2> QED
    BY <2>1, <2>2, <2>3 DEF TasksType, NoStack
<1>2. Queued(ready_queue) = {}
  BY DEF Queued
<1>3. StacksInv
  BY <1>2 DEF StacksInv, Stacked, NoStack, Prompt, At
<1>4. ContextInv
  BY Zenon DEF ContextInv
<1>5. LocksInv
  BY Zenon DEF LocksInv, InShell, Prompt, At
<1>6. BootInv
  BY DEF BootInv, Prompt, At
<1> QED
  BY <1>1, <1>3, <1>4, <1>5, <1>6, Zenon DEF TasksInv

-----------------------------------------------------------------------------
(* The timer *)

\* preempt_schedule only moves tasks between the queue and current: it brings
\* in none that the handler has not just locked.
LEMMA PreemptLocks ==
  ASSUME ready_queue \in Seq(TaskId), current \in TaskId \cup {None}, preempt_schedule
  PROVE  /\ ready_queue' \in Seq(TaskId)
         /\ HandlerLocks' \subseteq HandlerLocks
         /\ current' \in TaskId \cup {None}
         /\ current' = None => current = None
<1>0. None \notin TaskId
  BY SchedulerConstants DEF TaskId, None
<1>1. ASSUME NEW q \in Seq(TaskId), NEW st, NEW stay,
             Queued(q) \subseteq HandlerLocks, Dispatch(q, st, stay)
      PROVE  /\ ready_queue' \in Seq(TaskId)
             /\ HandlerLocks' \subseteq HandlerLocks
             /\ current' \in TaskId \cup {None}
             /\ current' = None => current = None
  <2>1. CASE /\ ready_queue' = q /\ UNCHANGED current
    BY <1>1, <2>1, Zenon DEF HandlerLocks
  <2>2. ASSUME NEW k \in pick_next_task(q, st), ready_queue' = RemoveIndex(q, k), current' = q[k]
        PROVE  /\ ready_queue' \in Seq(TaskId)
               /\ HandlerLocks' \subseteq HandlerLocks
               /\ current' \in TaskId \cup {None}
               /\ current' = None => current = None
    <3>1. Len(q) \in Nat
      BY SeqElements
    <3>2. k \in 1 .. Len(q)
      BY <2>2, <3>1, PickIsPosition, Zenon
    <3>3. q[k] \in TaskId /\ q[k] \in Queued(q)
      BY <3>2, SeqElements, Zenon DEF Queued
    <3>4. ready_queue' \in Seq(TaskId) /\ Queued(ready_queue') \subseteq Queued(q)
      BY <2>2, <3>2, RemoveIndexQueued
    <3> QED
      BY <1>0, <1>1, <2>2, <3>3, <3>4, Zenon DEF HandlerLocks
  <2> QED
    BY <1>1, <2>1, <2>2 DEF Dispatch
<1>2. CASE current = None
  <2>1. Dispatch(ready_queue, state, state)
    BY <1>2 DEF preempt_schedule
  <2> QED
    BY <1>1, <2>1 DEF HandlerLocks
<1>3. CASE current # None
  <2>1. Dispatch(Append(ready_queue, current), [state EXCEPT ![current] = "Ready"],
                 [state EXCEPT ![current] = "Running"])
    BY <1>3 DEF preempt_schedule
  <2>2. /\ Append(ready_queue, current) \in Seq(TaskId)
        /\ Queued(Append(ready_queue, current)) = Queued(ready_queue) \cup {current}
    BY <1>3, AppendQueued
  <2>3. Queued(Append(ready_queue, current)) \subseteq HandlerLocks
    BY <1>3, <2>2 DEF HandlerLocks
  <2> QED
    BY <1>1, <2>1, <2>2, <2>3, Zenon
<1> QED
  BY <1>2, <1>3

LEMMA TimerStep == TasksInv /\ timer => TasksInv'
<1> SUFFICES ASSUME TasksInv, timer PROVE TasksInv'
  OBVIOUS
<1>0. None \notin TaskId /\ None = Shell /\ Shell \notin TaskId
  BY SchedulerConstants DEF TaskId, None, Shell
<1>1. UNCHANGED <<command, held, NEXT_STACK, stack>> /\ ~ spinning /\ preempt_enabled
  BY DEF timer, shell_vars, stack_vars
<1>2. CASE /\ held \cap HandlerLocks # {} /\ spinning' = TRUE /\ UNCHANGED <<vars, cpu, saved>>
  <2>1. cpu = Shell
    BY <1>2, SMTT(30) DEF TasksInv, LocksInv
  <2>2. TasksType' /\ StacksInv' /\ ContextInv' /\ BootInv'
    BY <1>1, <1>2 DEF TasksInv, TasksType, StacksInv, Stacked, ContextInv, BootInv, vars, task_vars
  <2>3. LocksInv'
    BY <1>1, <1>2, <2>1 DEF TasksInv, LocksInv, InShell
  <2> QED
    BY <2>2, <2>3 DEF TasksInv
<1>3. CASE held \cap HandlerLocks = {} /\ preempt_schedule /\ resume /\ UNCHANGED spinning
  <2>1. /\ ready_queue' \in Seq(TaskId)
        /\ HandlerLocks' \subseteq HandlerLocks
        /\ current' \in TaskId \cup {None}
        /\ current' = None => current = None
    BY <1>3, PreemptLocks DEF TasksInv, TasksType
  <2>2. UNCHANGED <<next_id, preempt_enabled>>
    BY <1>3 DEF preempt_schedule, task_vars
  <2>3. TasksType'
    BY <1>1, <1>3, <2>1, <2>2 DEF TasksInv, TasksType
  <2>4. StacksInv'
    BY <1>1, <2>1, <2>2 DEF TasksInv, StacksInv, Stacked, HandlerLocks
  <2>5. ContextInv'
    <3>1. saved' = [t \in TaskId |-> t]
      BY <1>3 DEF TasksInv, ContextInv, resume
    <3>2. cpu' = IF current' = current THEN cpu ELSE saved[current']
      BY <1>3 DEF resume
    <3>3. current' # current => current' \in TaskId
      BY <2>1
    <3> QED
      BY <1>0, <3>1, <3>2, <3>3 DEF TasksInv, ContextInv
  <2>6. InShell("retain") => held = {}
    <3>1. ASSUME InShell("retain"), held = Wanted PROVE held = {}
      <4>1. Wanted \subseteq HandlerLocks
        <5>1. Len(ready_queue) \in Nat /\ command.at \in Nat
          BY SeqElements DEF TasksInv, TasksType, Commanded
        <5>2. command.at >= 1
          BY <3>1 DEF TasksInv, LocksInv, InShell
        <5> QED
          BY <5>1, <5>2 DEF Wanted, HandlerLocks, Queued
      <4> QED
        BY <1>3, <3>1, <4>1
    <3> QED
      BY <3>1 DEF TasksInv, LocksInv
  <2>7. LocksInv'
    <3>1. cpu' = Shell => cpu = Shell
      BY <1>0, <2>1, <2>5 DEF TasksInv, ContextInv
    <3>2. InShell("retain")' => held' = {}
      BY <1>1, <1>3, <2>6, <3>1 DEF InShell
    <3> QED
      BY <1>1, <1>3, <2>1, <3>2, Zenon DEF TasksInv, LocksInv
  <2>8. BootInv'
    BY <1>1, <2>2 DEF TasksInv, BootInv
  <2> QED
    BY <2>3, <2>4, <2>5, <2>7, <2>8, Zenon DEF TasksInv
<1> QED
  BY <1>2, <1>3, Zenon DEF timer

-----------------------------------------------------------------------------
(* Creating tasks *)

\* alloc_stack gives a task without a stack the next one, or nothing.
LEMMA AllocStack ==
  ASSUME TasksType, StacksInv, NEW t \in TaskId, t >= next_id, alloc_stack(t)
  PROVE  /\ stack' \in [TaskId -> Int] /\ NEXT_STACK' \in 0 .. STACKS
         /\ \A u \in TaskId : stack'[u] \in NoStack .. NEXT_STACK' - 1
         /\ \A u, v \in Stacked' : stack'[u] = stack'[v] => u = v
         /\ \A u \in TaskId \ {t} : stack'[u] = stack[u]
         /\ Stacked \subseteq Stacked'
         /\ NEXT_STACK < STACKS => stack'[t] # NoStack
<1>1. STACKS \in Nat /\ NEXT_STACK \in 0 .. STACKS /\ stack \in [TaskId -> Int]
  BY StackConstants DEF TasksType
<1>2. stack[t] = NoStack
  BY Zenon DEF StacksInv
<1>3. CASE NEXT_STACK + 1 > STACKS
  BY <1>1, <1>3 DEF alloc_stack, stack_vars, StacksInv, Stacked
<1>4. CASE ~ (NEXT_STACK + 1 > STACKS)
  <2>1. NEXT_STACK' = NEXT_STACK + 1 /\ stack' = [stack EXCEPT ![t] = NEXT_STACK]
    BY <1>4 DEF alloc_stack
  <2>2. \A u \in TaskId : stack'[u] = IF u = t THEN NEXT_STACK ELSE stack[u]
    BY <1>1, <2>1
  <2>3. stack' \in [TaskId -> Int] /\ NEXT_STACK' \in 0 .. STACKS
    BY <1>1, <1>4, <2>1
  <2>4. \A u \in TaskId : stack'[u] \in NoStack .. NEXT_STACK' - 1
    BY <1>1, <2>1, <2>2 DEF StacksInv, NoStack
  <2>5. \A u, v \in Stacked' : stack'[u] = stack'[v] => u = v
    BY <1>1, <2>2 DEF StacksInv, Stacked, NoStack
  <2>6. Stacked \subseteq Stacked' /\ stack'[t] # NoStack
    BY <1>1, <1>2, <2>2 DEF Stacked, NoStack
  <2> QED
    BY <2>2, <2>3, <2>4, <2>5, <2>6, Zenon
<1> QED
  BY <1>3, <1>4

LEMMA BootStep == TasksInv /\ (boot_idle \/ boot_preemption) => TasksInv'
<1> SUFFICES ASSUME TasksInv, boot_idle \/ boot_preemption PROVE TasksInv'
  OBVIOUS
<1>1. CASE boot_preemption
  <2>1. /\ UNCHANGED <<next_id, ready_queue, current, cpu, saved, spinning, command, held,
                       NEXT_STACK, stack>>
        /\ preempt_enabled' = TRUE /\ next_id > 1
    BY <1>1, Zenon DEF boot_preemption, enable_preemption, set_preemption, task_vars, shell_vars,
                cpu_vars, stack_vars
  <2>2. TasksType' /\ StacksInv' /\ ContextInv' /\ BootInv'
    BY <2>1 DEF TasksInv, TasksType, StacksInv, Stacked, ContextInv, BootInv
  <2>3. LocksInv'
    BY <2>1 DEF TasksInv, LocksInv, InShell, Wanted, HandlerLocks
  <2> QED
    BY <2>2, <2>3 DEF TasksInv
<1>2. CASE boot_idle
  <2>1. /\ next_id = 1 /\ 1 <= MaxTasks /\ next_id' = 2 /\ alloc_stack(1)
        /\ ready_queue' = Append(ready_queue, 1)
        /\ UNCHANGED <<current, preempt_enabled, cpu, saved, spinning, command, held>>
    BY <1>2 DEF boot_idle, create_idle_task, Create, Push, shell_vars, cpu_vars
  <2>2. ~ preempt_enabled /\ command.pc = "prompt" /\ current = None /\ cpu = Shell
    BY <2>1 DEF TasksInv, BootInv, ContextInv
  <2>3. 1 \in TaskId
    BY <2>1, SchedulerConstants DEF TaskId
  <2>4. /\ stack' \in [TaskId -> Int] /\ NEXT_STACK' \in 0 .. STACKS
        /\ \A u \in TaskId : stack'[u] \in NoStack .. NEXT_STACK' - 1
        /\ \A u, v \in Stacked' : stack'[u] = stack'[v] => u = v
        /\ \A u \in TaskId \ {1} : stack'[u] = stack[u]
        /\ Stacked \subseteq Stacked'
        /\ NEXT_STACK < STACKS => stack'[1] # NoStack
    BY <2>1, <2>3, AllocStack DEF TasksInv
  <2>5. /\ ready_queue' \in Seq(TaskId)
        /\ Queued(ready_queue') = Queued(ready_queue) \cup {1}
    BY <2>1, <2>3, AppendQueued DEF TasksInv, TasksType
  <2>6. 1 \in Stacked'
    BY <2>1, <2>3, <2>4, StackConstants DEF TasksInv, BootInv, Stacked
  <2>7. TasksType' /\ ContextInv' /\ BootInv'
    BY <2>1, <2>4, <2>5 DEF TasksInv, TasksType, ContextInv, BootInv
  <2>8. StacksInv'
    <3>1. \A t \in TaskId : t >= 2 => stack'[t] = NoStack
      BY <2>1, <2>4 DEF TasksInv, StacksInv, TaskId
    <3>2. Queued(ready_queue') \cup ({current'} \ {None}) \subseteq Stacked'
      BY <2>1, <2>4, <2>5, <2>6 DEF TasksInv, StacksInv
    <3>3. command'.pc = "prompt"
      BY <2>1, <2>2
    <3> QED
      BY <2>1, <2>4, <3>1, <3>2, <3>3, Zenon DEF StacksInv
  <2>9. LocksInv'
    BY <2>1, <2>2 DEF TasksInv, LocksInv, InShell
  <2> QED
    BY <2>7, <2>8, <2>9, Zenon DEF TasksInv
<1> QED
  BY <1>1, <1>2

-----------------------------------------------------------------------------
(* The commands *)

\* A command's step leaves the contexts alone and finds the shell on the CPU.
LEMMA RunStep == TasksInv /\ (run_new \/ run_push \/ run_list) => TasksInv'
<1> SUFFICES ASSUME TasksInv, run_new \/ run_push \/ run_list PROVE TasksInv'
  OBVIOUS
<1>1. CASE run_new
  <2>1. /\ preempt_enabled /\ InShell("prompt") /\ next_id <= MaxTasks /\ alloc_stack(next_id)
        /\ next_id' = next_id + 1
        /\ command' = At(IF stack'[next_id] = NoStack THEN "fault" ELSE "push", next_id, 0)
        /\ UNCHANGED <<ready_queue, current, preempt_enabled, held, cpu, saved, spinning>>
    BY <1>1 DEF run_new, cpu_vars
  <2>2. next_id \in TaskId /\ next_id \in Nat /\ next_id >= 1
    BY <2>1, SchedulerConstants DEF TasksInv, TasksType, TaskId
  <2>3. /\ stack' \in [TaskId -> Int] /\ NEXT_STACK' \in 0 .. STACKS
        /\ \A u \in TaskId : stack'[u] \in NoStack .. NEXT_STACK' - 1
        /\ \A u, v \in Stacked' : stack'[u] = stack'[v] => u = v
        /\ \A u \in TaskId \ {next_id} : stack'[u] = stack[u]
        /\ Stacked \subseteq Stacked'
    BY <2>1, <2>2, AllocStack DEF TasksInv
  <2>4. /\ command' \in Commanded
        /\ command'.task = next_id /\ command'.pc \in {"fault", "push"}
        /\ command'.pc = "push" => stack'[next_id] # NoStack
    BY <2>1, <2>2, Zenon DEF Commanded, At
  <2>5. TasksType' /\ ContextInv' /\ BootInv'
    BY <2>1, <2>2, <2>3, <2>4 DEF TasksInv, TasksType, ContextInv, BootInv
  <2>6. StacksInv'
    <3>1. \A t \in TaskId : t >= next_id' => stack'[t] = NoStack
      BY <2>1, <2>2, <2>3 DEF TasksInv, StacksInv, TaskId
    <3>2. Queued(ready_queue') \cup ({current'} \ {None}) \subseteq Stacked'
      BY <2>1, <2>3 DEF TasksInv, StacksInv
    <3>3. command'.pc \in {"push", "list"} => command'.task \in Stacked'
      BY <2>2, <2>4, Zenon DEF Stacked
    <3> QED
      BY <2>3, <3>1, <3>2, <3>3, Zenon DEF StacksInv
  <2>7. LocksInv'
    BY <2>1, <2>4 DEF TasksInv, LocksInv, InShell
  <2> QED
    BY <2>5, <2>6, <2>7, Zenon DEF TasksInv
<1>2. CASE run_push
  <2>1. /\ InShell("push") /\ ready_queue' = Append(ready_queue, command.task)
        /\ command' = [command EXCEPT !.pc = "list"]
        /\ UNCHANGED <<next_id, current, preempt_enabled, held, cpu, saved, spinning, NEXT_STACK, stack>>
    BY <1>2 DEF run_push, Push, task_vars, cpu_vars, stack_vars
  <2>2. command.pc = "push" /\ cpu = Shell /\ command.task \in Stacked /\ command.task \in TaskId
    BY <2>1 DEF InShell, TasksInv, StacksInv, Stacked
  <2>3. /\ ready_queue' \in Seq(TaskId)
        /\ Queued(ready_queue') = Queued(ready_queue) \cup {command.task}
    BY <2>1, <2>2, AppendQueued DEF TasksInv, TasksType
  <2>4. command' \in Commanded /\ command'.pc = "list" /\ command'.task = command.task
    BY <2>1, Zenon DEF TasksInv, TasksType, Commanded
  <2>5. TasksType' /\ ContextInv' /\ BootInv'
    BY <2>1, <2>2, <2>3, <2>4 DEF TasksInv, TasksType, ContextInv, BootInv
  <2>6. StacksInv'
    BY <2>1, <2>2, <2>3, <2>4 DEF TasksInv, StacksInv, Stacked
  <2>7. LocksInv'
    BY <2>1, <2>2, <2>4 DEF TasksInv, LocksInv, InShell
  <2> QED
    BY <2>5, <2>6, <2>7 DEF TasksInv
<1>3. CASE run_list
  <2>1. /\ InShell("list") /\ command' = Prompt
        /\ UNCHANGED <<next_id, ready_queue, current, preempt_enabled, held, cpu, saved, spinning,
                       NEXT_STACK, stack>>
    BY <1>3, Zenon DEF run_list, cpu_vars, stack_vars
  <2>2. command' \in Commanded /\ command'.pc = "prompt"
    BY <2>1, Zenon DEF Commanded, Prompt, At, None
  <2>3. TasksType' /\ ContextInv' /\ BootInv' /\ StacksInv'
    BY <2>1, <2>2, Zenon DEF TasksInv, TasksType, ContextInv, BootInv, StacksInv, Stacked
  <2>4. LocksInv'
    BY <2>1, <2>2, Zenon DEF TasksInv, LocksInv, InShell
  <2> QED
    BY <2>3, <2>4 DEF TasksInv
<1> QED
  BY <1>1, <1>2, <1>3

\* Steps of a walk that only move the shell and its locks.
LEMMA WalkStep ==
  ASSUME TasksInv, cpu = Shell, preempt_enabled,
         UNCHANGED <<vars, cpu_vars, stack_vars>>,
         command' \in Commanded, command'.pc \in {"prompt", "scan", "retain"},
         command'.pc = "prompt" => held' = {},
         command'.pc = "retain" => command'.at >= 1 /\ held' = Wanted'
  PROVE  TasksInv'
<1>1. UNCHANGED <<next_id, ready_queue, current, preempt_enabled, cpu, saved, spinning, NEXT_STACK, stack>>
  BY Zenon DEF vars, task_vars, cpu_vars, stack_vars
<1>2. TasksType' /\ ContextInv' /\ BootInv' /\ StacksInv'
  BY <1>1, Zenon DEF TasksInv, TasksType, ContextInv, BootInv, StacksInv, Stacked
<1>3. LocksInv'
  BY <1>1 DEF LocksInv, InShell
<1> QED
  BY <1>2, <1>3, Zenon DEF TasksInv

LEMMA ScanStep == TasksInv /\ ((\E t \in TaskId \cup {None} : scan_first(t)) \/ scan_next) => TasksInv'
<1> SUFFICES ASSUME TasksInv, (\E t \in TaskId \cup {None} : scan_first(t)) \/ scan_next
             PROVE  TasksInv'
  OBVIOUS
<1>1. ASSUME NEW t \in TaskId \cup {None}, scan_first(t) PROVE TasksInv'
  <2>1. command' \in Commanded /\ command'.pc = "scan"
    BY <1>1, SchedulerConstants DEF scan_first, At, Commanded, TaskId, None
  <2>2. cpu = Shell /\ preempt_enabled /\ UNCHANGED <<vars, cpu_vars, stack_vars>>
    BY <1>1 DEF scan_first, InShell
  <2> QED
    BY <2>1, <2>2, WalkStep
<1>2. CASE scan_next
  <2>1. cpu = Shell /\ command.pc = "scan" /\ UNCHANGED <<vars, cpu_vars, stack_vars>>
    BY <1>2 DEF scan_next, InShell
  <2>2. preempt_enabled
    BY <2>1 DEF TasksInv, BootInv, TasksType
  <2>3. command \in Commanded
    BY DEF TasksInv, TasksType
  <2>4. CASE command' = [command EXCEPT !.at = command.at + 1]
    <3>1. command' \in Commanded /\ command'.pc = "scan"
      BY <2>1, <2>3, <2>4 DEF Commanded
    <3> QED
      BY <2>1, <2>2, <3>1, WalkStep
  <2>5. CASE command' = Prompt /\ held' = {}
    <3>1. command' \in Commanded /\ command'.pc = "prompt"
      BY <2>5 DEF Commanded, Prompt, At, None
    <3> QED
      BY <2>1, <2>2, <2>5, <3>1, WalkStep, Zenon
  <2> QED
    BY <1>2, <2>4, <2>5 DEF scan_next
<1> QED
  BY <1>1, <1>2

LEMMA ExceptSeq ==
  ASSUME NEW S, NEW q \in Seq(S), NEW i \in 1 .. Len(q), NEW e \in S
  PROVE  /\ [q EXCEPT ![i] = e] \in Seq(S) /\ Len([q EXCEPT ![i] = e]) = Len(q)
         /\ \A j \in 1 .. Len(q) : [q EXCEPT ![i] = e][j] = IF j = i THEN e ELSE q[j]
OBVIOUS

\* Swapping two entries keeps the tasks in the queue, each as often as before.
LEMMA SwapQueued ==
  ASSUME NEW S, NEW q \in Seq(S), NEW k \in 1 .. Len(q), k > 1
  PROVE  /\ [q EXCEPT ![k - 1] = q[k], ![k] = q[k - 1]] \in Seq(S)
         /\ Queued([q EXCEPT ![k - 1] = q[k], ![k] = q[k - 1]]) = Queued(q)
         /\ Distinct(q) => Distinct([q EXCEPT ![k - 1] = q[k], ![k] = q[k - 1]])
<1> DEFINE p == [q EXCEPT ![k - 1] = q[k]]
           r == [p EXCEPT ![k] = q[k - 1]]
           m(j) == IF j = k THEN k - 1 ELSE IF j = k - 1 THEN k ELSE j
<1>1. Len(q) \in Nat /\ k - 1 \in 1 .. Len(q)
  BY SeqElements
<1>2. q[k] \in S /\ q[k - 1] \in S
  BY <1>1, SeqElements
<1>3. /\ p \in Seq(S) /\ Len(p) = Len(q)
      /\ \A j \in 1 .. Len(q) : p[j] = IF j = k - 1 THEN q[k] ELSE q[j]
  BY <1>1, <1>2, ExceptSeq
<1> HIDE DEF p
<1>4. /\ r \in Seq(S) /\ Len(r) = Len(p)
      /\ \A j \in 1 .. Len(p) : r[j] = IF j = k THEN q[k - 1] ELSE p[j]
  BY <1>2, <1>3, ExceptSeq
<1>5. Len(r) = Len(q) /\ \A j \in 1 .. Len(q) : r[j] = q[m(j)]
  BY <1>1, <1>3, <1>4
<1>6. \A j \in 1 .. Len(q) : m(j) \in 1 .. Len(q) /\ m(m(j)) = j
  BY <1>1
<1> HIDE DEF m, r
<1>7. Queued(r) = Queued(q)
  BY <1>5, <1>6 DEF Queued
<1>8. ASSUME Distinct(q) PROVE Distinct(r)
  <2> SUFFICES ASSUME NEW i \in 1 .. Len(q), NEW j \in 1 .. Len(q), r[i] = r[j] PROVE i = j
    BY <1>5 DEF Distinct
  <2>1. m(i) = m(j)
    BY <1>5, <1>6, <1>8 DEF Distinct
  <2> QED
    BY <1>6, <2>1
<1> QED
  BY <1>4, <1>7, <1>8, Zenon DEF p, r

LEMMA KillStep ==
  TasksInv /\ (kill_mark \/ retain_lock \/ retain_entry \/ retain_truncate) => TasksInv'
<1> SUFFICES ASSUME TasksInv, kill_mark \/ retain_lock \/ retain_entry \/ retain_truncate
             PROVE  TasksInv'
  OBVIOUS
<1>0. command \in Commanded /\ ready_queue \in Seq(TaskId)
  BY DEF TasksInv, TasksType
<1>1. ASSUME cpu = Shell, preempt_enabled,
             UNCHANGED <<next_id, current, preempt_enabled, cpu, saved, spinning, NEXT_STACK, stack>>,
             ready_queue' \in Seq(TaskId), Queued(ready_queue') \subseteq Queued(ready_queue),
             command' \in Commanded, command'.pc \in {"prompt", "retain"}, held' = {},
             command'.pc = "retain" => command'.at >= 1
      PROVE  TasksInv'
  <2>1. TasksType' /\ ContextInv' /\ BootInv'
    BY <1>1, Zenon DEF TasksInv, TasksType, ContextInv, BootInv
  <2>2. StacksInv'
    BY <1>1, Zenon DEF TasksInv, StacksInv, Stacked
  <2>3. LocksInv'
    BY <1>1, Zenon DEF TasksInv, LocksInv
  <2> QED
    BY <2>1, <2>2, <2>3, Zenon DEF TasksInv
<1>2. CASE kill_mark
  <2>1. /\ cpu = Shell /\ command.pc = "scan" /\ held' = {}
        /\ command' = At("retain", command.task, 1)
        /\ UNCHANGED <<next_id, ready_queue, current, preempt_enabled, cpu, saved, spinning,
                       NEXT_STACK, stack>>
    BY <1>2, Zenon DEF kill_mark, InShell, task_vars, cpu_vars, stack_vars
  <2>2. command' \in Commanded /\ command'.pc = "retain" /\ command'.at >= 1
    BY <1>0, <2>1 DEF Commanded, At
  <2>3. preempt_enabled
    BY <2>1 DEF TasksInv, BootInv, TasksType
  <2> QED
    BY <1>0, <1>1, <2>1, <2>2, <2>3, Zenon
<1>3. CASE retain_lock
  <2>1. /\ InShell("retain") /\ held' = Wanted
        /\ UNCHANGED <<vars, command, cpu_vars, stack_vars>>
    BY <1>3, Zenon DEF retain_lock, Wanted
  <2>2. Wanted' = Wanted
    BY <2>1, Zenon DEF Wanted, InShell, vars, cpu_vars
  <2>3. cpu = Shell /\ command.pc = "retain" /\ command.at >= 1 /\ preempt_enabled
    BY <2>1 DEF InShell, TasksInv, LocksInv, BootInv, TasksType
  <2> QED
    BY <1>0, <2>1, <2>2, <2>3, WalkStep, Zenon
<1>4. CASE retain_entry
  <2>1. /\ InShell("retain") /\ command.at <= Len(ready_queue) /\ held' = {}
        /\ command' = [command EXCEPT !.at = command.at + 1]
        /\ UNCHANGED <<next_id, current, preempt_enabled, cpu, saved, spinning, NEXT_STACK, stack>>
    BY <1>4 DEF retain_entry, Wanted, task_vars, cpu_vars, stack_vars
  <2>2. cpu = Shell /\ command.pc = "retain" /\ command.at >= 1 /\ preempt_enabled
    BY <2>1 DEF InShell, TasksInv, LocksInv, BootInv, TasksType
  <2>3. command' \in Commanded /\ command'.pc = "retain" /\ command'.at >= 1
    BY <1>0, <2>1, <2>2 DEF Commanded
  <2>4. command.at \in 1 .. Len(ready_queue)
    BY <1>0, <2>1, <2>2, SeqElements DEF Commanded
  <2>5. ready_queue' \in Seq(TaskId) /\ Queued(ready_queue') \subseteq Queued(ready_queue)
    <3>1. CASE ready_queue' = ready_queue
      BY <1>0, <3>1
    <3>2. CASE /\ command.at > 1
               /\ ready_queue' = [ready_queue EXCEPT ![command.at - 1] = ready_queue[command.at],
                                                     ![command.at] = ready_queue[command.at - 1]]
      BY <1>0, <2>4, <3>2, SwapQueued, Zenon
    <3> QED
      BY <1>4, <3>1, <3>2, Zenon DEF retain_entry
  <2> QED
    BY <1>1, <2>1, <2>2, <2>3, <2>5
<1>5. CASE retain_truncate
  <2>1. /\ InShell("retain") /\ command.at > Len(ready_queue)
        /\ ready_queue' = Retain(ready_queue, {command.task}) /\ command' = Prompt
        /\ UNCHANGED <<next_id, current, preempt_enabled, held, cpu, saved, spinning, NEXT_STACK, stack>>
    BY <1>5 DEF retain_truncate, task_vars, cpu_vars, stack_vars
  <2>2. Wanted = {}
    BY <1>0, <2>1, SeqElements DEF Wanted, Commanded
  <2>3. held' = {}
    BY <2>1, <2>2, Zenon DEF TasksInv, LocksInv
  <2>4. cpu = Shell /\ command.pc = "retain" /\ preempt_enabled
    BY <2>1, Zenon DEF InShell, TasksInv, BootInv, TasksType
  <2>5. ready_queue' \in Seq(TaskId) /\ Queued(ready_queue') \subseteq Queued(ready_queue)
    BY <1>0, <2>1, RetainQueued
  <2>6. command' \in Commanded /\ command'.pc = "prompt"
    BY <2>1 DEF Commanded, Prompt, At, None
  <2> QED
    BY <1>1, <2>1, <2>3, <2>4, <2>5, <2>6, Zenon
<1> QED
  BY <1>2, <1>3, <1>4, <1>5

-----------------------------------------------------------------------------
(* The theorems *)

LEMMA TasksStep == TasksInv /\ [TasksNext]_kernel_vars => TasksInv'
<1> SUFFICES ASSUME TasksInv, [TasksNext]_kernel_vars PROVE TasksInv'
  OBVIOUS
<1>1. CASE UNCHANGED kernel_vars
  <2>1. UNCHANGED <<next_id, ready_queue, current, preempt_enabled, cpu, saved, spinning, command,
                    held, NEXT_STACK, stack>>
    BY <1>1, Zenon DEF kernel_vars, vars, task_vars
  <2>2. TasksType' /\ StacksInv' /\ ContextInv' /\ BootInv'
    BY <2>1, Zenon DEF TasksInv, TasksType, StacksInv, Stacked, ContextInv, BootInv
  <2>3. LocksInv'
    BY <2>1 DEF TasksInv, LocksInv, InShell, Wanted, HandlerLocks
  <2> QED
    BY <2>2, <2>3, Zenon DEF TasksInv
<1>2. CASE TasksNext
  BY <1>2, BootStep, RunStep, ScanStep, KillStep, TimerStep, Zenon DEF TasksNext, Commands
<1> QED
  BY <1>1, <1>2

LEMMA TasksInvariant == TasksSpec => []TasksInv
  BY TasksInitInv, TasksStep, PTL DEF TasksSpec

\* With any number of tasks, and interrupted anywhere, the kernel executes the
\* current task on a stack that is the task's alone.
THEOREM CurrentTaskExecutes == TasksSpec => []CurrentExecutes
<1>1. TasksInv => CurrentExecutes
  <2> SUFFICES ASSUME TasksInv, current # None PROVE
                 /\ cpu = current
                 /\ stack[current] \in 0 .. STACKS - 1
                 /\ \A t \in TaskId \ {current} : stack[t] # stack[current]
    BY Zenon DEF CurrentExecutes
  <2>1. current \in Stacked /\ current \in TaskId
    BY DEF TasksInv, StacksInv, Stacked
  <2>2. cpu = current
    BY Zenon DEF TasksInv, ContextInv
  <2>3. stack[current] \in 0 .. STACKS - 1
    BY <2>1, StackConstants DEF TasksInv, TasksType, StacksInv, Stacked, NoStack
  <2>4. ASSUME NEW t \in TaskId \ {current}, stack[t] = stack[current] PROVE FALSE
    BY <2>1, <2>4, Zenon DEF TasksInv, StacksInv, Stacked
  <2> QED
    BY <2>2, <2>3, <2>4, Zenon
<1> QED
  BY <1>1, TasksInvariant, PTL

\* No interrupt after the one that takes the CPU from the shell ever waits for
\* a mutex.
THEOREM OnlyTheShellIsWaitedFor == TasksSpec => []SpinsOnlyInShell
<1>1. TasksInv => SpinsOnlyInShell
  BY Zenon DEF TasksInv, LocksInv, SpinsOnlyInShell
<1> QED
  BY <1>1, TasksInvariant, PTL

\* The commands never wait for a mutex they hold themselves.
THEOREM CommandsDoNotDeadlock == TasksSpec => []NoSelfDeadlock
<1>1. TasksInv => NoSelfDeadlock
  <2> SUFFICES ASSUME TasksInv, Wanted # {} PROVE held \subseteq Wanted /\ Cardinality(held) <= 1
    BY DEF NoSelfDeadlock
  <2>1. InShell("retain")
    BY DEF Wanted
  <2>2. held = {} \/ held = Wanted
    BY <2>1 DEF TasksInv, LocksInv
  <2>3. PICK x : Wanted = {x}
    BY Zenon DEF Wanted
  <2>4. Cardinality({}) = 0 /\ Cardinality({x}) = 1
    BY FS_EmptySet, FS_Singleton, ZenonT(30)
  <2> QED
    BY <2>2, <2>3, <2>4
<1> QED
  BY <1>1, TasksInvariant, PTL

-----------------------------------------------------------------------------
(* The queue is exact *)

\* The scan of pick_next_task always finds an entry when one is above Low: the
\* first of the highest priority.
LEMMA PickAboveLow ==
  ASSUME NEW q, NEW st, Len(q) \in Nat,
         \A k \in 1 .. Len(q) : priority[q[k]] \in 0 .. 3,
         AboveLow(q, st) # {}
  PROVE  pick_next_task(q, st) # {}
<1> DEFINE A == AboveLow(q, st)
           Of(p) == {k \in A : priority[q[k]] = p}
<1>1. A \subseteq 1 .. Len(q) /\ \A k \in A : priority[q[k]] \in 1 .. 3
  BY DEF AboveLow, Low
<1>2. IsFiniteSet(1 .. Len(q)) /\ 1 .. Len(q) \subseteq Nat
  <2>1. 1 \in Int /\ Len(q) \in Int
    BY SeqElements
  <2>2. IsFiniteSet(1 .. Len(q))
    BY <2>1, FS_Interval, Zenon
  <2> QED
    BY <2>1, <2>2
<1> HIDE DEF A
<1>3. ASSUME NEW p \in 1 .. 3, Of(p) # {}, \A k \in A : priority[q[k]] <= p
      PROVE  pick_next_task(q, st) # {}
  <2>1. Of(p) \in SUBSET Nat /\ IsFiniteSet(Of(p))
    <3>1. Of(p) \subseteq 1 .. Len(q)
      BY <1>1, Zenon
    <3> HIDE DEF Of
    <3> QED
      BY <1>2, <3>1, FS_Subset
  <2>2. PICK k \in Of(p) : \A j \in Of(p) : k <= j
    <3> HIDE DEF Of
    <3> QED
      BY <1>3, <2>1, LeastPosition, SMTT(30)
  <2>3. ASSUME NEW j \in A
        PROVE  priority[q[j]] < priority[q[k]] \/ (priority[q[j]] = priority[q[k]] /\ k <= j)
    <3>1. priority[q[j]] \in 1 .. 3 /\ priority[q[j]] <= p /\ priority[q[k]] = p
      BY <1>1, <1>3
    <3>2. CASE priority[q[j]] = p
      BY <2>2, <3>1, <3>2, SMTT(30)
    <3>3. CASE priority[q[j]] # p
      BY <3>1, <3>3
    <3> QED
      BY <3>2, <3>3, SMTT(30)
  <2>4. k \in A
    OBVIOUS
  <2> QED
    BY <2>3, <2>4 DEF A, pick_next_task
<1>4. \A k \in A : k \in Of(priority[q[k]])
  OBVIOUS
<1>5. CASE Of(3) # {}
  <2>1. \A k \in A : priority[q[k]] <= 3
    BY <1>1
  <2> QED
    BY <1>3, <1>5, <2>1
<1>6. CASE Of(3) = {} /\ Of(2) # {}
  <2>1. \A k \in A : priority[q[k]] <= 2
    BY <1>1, <1>6
  <2> QED
    BY <1>3, <1>6, <2>1
<1>7. CASE Of(3) = {} /\ Of(2) = {}
  <2>1. \A k \in A : priority[q[k]] = 1
    BY <1>1, <1>7
  <2>2. Of(1) # {} /\ \A k \in A : priority[q[k]] <= 1
    BY <2>1 DEF A
  <2> QED
    BY <1>3, <2>2
<1> QED
  BY <1>5, <1>6, <1>7

\* The task whose kill is at retain.
Killed == IF command.pc = "retain" THEN {command.task} ELSE {}

\* The queue q is exact in task states st.
Entries(q, st) ==
  /\ Distinct(q)
  /\ \A t \in TaskId : st[t] = "Ready" => t \in Queued(q)
  /\ \A t \in Queued(q) : st[t] = "Ready" \/ t \in Killed

\* The tasks.  The first one that run creates is ready or runs for ever after.
StatesInv ==
  /\ state \in [TaskId -> TaskStates]
  /\ priority \in [TaskId -> 0 .. 3] /\ \A t \in TaskId \ {1} : priority[t] = Normal
  /\ all_tasks \in SUBSET TaskId /\ \A t \in all_tasks : t < next_id
  /\ \A t \in TaskId : t >= next_id => state[t] = "Absent"
  /\ current # None => state[current] = "Running"
  /\ 2 \in all_tasks => state[2] = "Ready" \/ current = 2

\* What a command, finished or cut off, has reached.
ReachedInv ==
  /\ command.pc = "push" => state[command.task] = "Absent" /\ command.task < next_id
  /\ command.pc = "list" => /\ state[command.task] = "Ready" \/ current = command.task
                            /\ command.task < next_id
  /\ command.pc = "scan" => /\ command.at >= 1
                            /\ command.task = None \/ command.task > 2
                            /\ command.at >= 2 => command.at \in all_tasks /\ 2 \in all_tasks
  /\ command.pc = "retain" => /\ command.task \in TaskId /\ state[command.task] = "Terminated"
                              /\ 2 \in all_tasks

QueueInv == TasksInv /\ StatesInv /\ ReachedInv /\ Entries(ready_queue, state)

\* No step takes a task out of Terminated.
Final == \A t \in TaskId : state[t] = "Terminated" => state'[t] = "Terminated"

LEMMA QueueInitInv == TasksInit => QueueInv
<1> SUFFICES ASSUME TasksInit PROVE QueueInv
  OBVIOUS
<1>1. TasksInv
  BY TasksInitInv
<1>2. Len(ready_queue) = 0 /\ Queued(ready_queue) = {} /\ Distinct(ready_queue)
  BY DEF TasksInit, Init, Queued, Distinct
<1>3. \A t \in TaskId : state[t] = "Absent"
  BY DEF TasksInit, Init
<1>4. command.pc = "prompt"
  BY DEF TasksInit, Prompt, At
<1>5. StatesInv
  BY <1>3 DEF StatesInv, TasksInit, Init, TaskStates, Normal
<1>6. ReachedInv
  BY <1>4 DEF ReachedInv
<1> QED
  BY <1>1, <1>2, <1>3, <1>5, <1>6 DEF QueueInv, Entries

\* The entry that is picked is ready, and leaves the queue as it begins to run.
LEMMA PickEntries ==
  ASSUME NEW q \in Seq(TaskId), NEW st \in [TaskId -> TaskStates], Entries(q, st),
         NEW k \in pick_next_task(q, st),
         ready_queue' = RemoveIndex(q, k), state' = [st EXCEPT ![q[k]] = "Running"],
         current' = q[k], UNCHANGED command
  PROVE  /\ Entries(ready_queue, state)'
         /\ state' \in [TaskId -> TaskStates]
         /\ current' \in TaskId /\ state'[current'] = "Running" /\ st[current'] = "Ready"
         /\ \A t \in TaskId : t # current' => state'[t] = st[t]
<1>1. k \in 1 .. Len(q) /\ q[k] \in TaskId
  <2>1. Len(q) \in Nat
    BY SeqElements
  <2>2. k \in 1 .. Len(q)
    BY <2>1, PickIsPosition, ZenonT(30)
  <2> QED
    BY <2>2, SeqElements, Zenon
<1>2. st[q[k]] = "Ready"
  BY SMTT(30) DEF pick_next_task, AboveLow
<1>3. /\ \A t \in Queued(q) : t # q[k] => t \in Queued(ready_queue')
      /\ Queued(ready_queue') \subseteq Queued(q)
      /\ Distinct(ready_queue') /\ q[k] \notin Queued(ready_queue')
  BY <1>1, RemoveIndexQueued DEF Entries
<1>4. /\ state' \in [TaskId -> TaskStates] /\ state'[q[k]] = "Running"
      /\ \A t \in TaskId : t # q[k] => state'[t] = st[t]
  BY <1>1 DEF TaskStates
<1>5. Queued(q) \subseteq TaskId
  BY SeqElements, Zenon DEF Queued
<1>6. Killed' = Killed
  BY SMTT(30) DEF Killed
<1>7. Entries(ready_queue, state)'
  BY <1>3, <1>4, <1>5, <1>6 DEF Entries
<1> QED
  BY <1>1, <1>2, <1>4, <1>7

\* With the interrupted task back in the queue there is something to pick: it,
\* another task above Low, or, when a killed entry may be at the head, the
\* first task that run created.
LEMMA RequeuePicks ==
  ASSUME TasksInv, StatesInv, ReachedInv, Entries(ready_queue, state), current # None
  PROVE  LET q == Append(ready_queue, current)
             st == [state EXCEPT ![current] = "Ready"]
         IN  /\ q \in Seq(TaskId) /\ st \in [TaskId -> TaskStates] /\ Entries(q, st)
             /\ \A t \in TaskId : t # current => st[t] = state[t]
             /\ pick_next_task(q, st) # {}
<1> DEFINE q == Append(ready_queue, current)
           st == [state EXCEPT ![current] = "Ready"]
<1>1. current \in TaskId /\ ready_queue \in Seq(TaskId) /\ state \in [TaskId -> TaskStates]
  BY DEF TasksInv, TasksType, StatesInv
<1>2. /\ st \in [TaskId -> TaskStates] /\ st[current] = "Ready"
      /\ \A t \in TaskId : t # current => st[t] = state[t]
  BY <1>1 DEF TaskStates
<1>3. state[current] = "Running" /\ current \notin Killed
  BY DEF StatesInv, ReachedInv, Killed
<1>4. current \notin Queued(ready_queue)
  BY <1>3 DEF Entries
<1> HIDE DEF st
<1>5. q \in Seq(TaskId) /\ Queued(q) = Queued(ready_queue) \cup {current} /\ Distinct(q)
  <2>1. Distinct(ready_queue)
    BY DEF Entries
  <2>2. /\ Append(ready_queue, current) \in Seq(TaskId)
        /\ Queued(Append(ready_queue, current)) = Queued(ready_queue) \cup {current}
    BY <1>1, AppendQueued
  <2>3. Distinct(Append(ready_queue, current))
    BY <1>1, <1>4, <2>1, AppendDistinct
  <2> QED
    BY <2>2, <2>3
<1> HIDE DEF q
<1>6. Queued(ready_queue) \subseteq TaskId
  BY <1>1, SeqElements, Zenon DEF Queued
<1>7. Entries(q, st)
  BY <1>2, <1>3, <1>5, <1>6 DEF Entries
<1>8. Len(q) \in Nat /\ \A k \in 1 .. Len(q) : q[k] \in TaskId
  BY <1>5, SeqElements, Zenon
<1>9. \A k \in 1 .. Len(q) : priority[q[k]] \in 0 .. 3
  BY <1>8 DEF StatesInv
<1>10. pick_next_task(q, st) # {}
  <2>1. CASE AboveLow(q, st) # {}
    BY <1>8, <1>9, <2>1, PickAboveLow
  <2>2. CASE AboveLow(q, st) = {}
    <3>1. ASSUME NEW t \in Queued(q), st[t] = "Ready" PROVE t = 1
      <4>1. PICK k \in 1 .. Len(q) : q[k] = t
        BY DEF Queued
      <4>2. ~ (priority[t] > Low)
        BY <2>2, <3>1, <4>1 DEF AboveLow
      <4>3. t \in TaskId
        BY <1>8, <4>1
      <4> QED
        BY <4>2, <4>3 DEF StatesInv, Low, Normal
    <3>2. current = 1
      BY <1>2, <1>5, <3>1
    <3>3. Killed = {}
      <4>1. ASSUME 2 \in all_tasks PROVE FALSE
        <5>1. 2 \in TaskId /\ state[2] = "Ready"
          BY <3>2, <4>1 DEF StatesInv
        <5>2. 2 \in Queued(q) /\ st[2] = "Ready"
          BY <1>2, <1>5, <3>2, <5>1, SMTT(30) DEF Entries
        <5> QED
          BY <3>1, <5>2
      <4> QED
        BY <4>1 DEF ReachedInv, Killed
    <3>4. 1 \in 1 .. Len(q)
      BY <1>5, <1>8 DEF Queued
    <3>5. st[q[1]] = "Ready"
      BY <1>7, <3>3, <3>4 DEF Entries, Queued
    <3>6. 1 \in pick_next_task(q, st)
      BY <1>8, <2>2, <3>4, <3>5 DEF pick_next_task
    <3> QED
      BY <3>6
  <2> QED
    BY <2>1, <2>2
<1>11. /\ q \in Seq(TaskId) /\ st \in [TaskId -> TaskStates] /\ Entries(q, st)
       /\ \A t \in TaskId : t # current => st[t] = state[t]
       /\ pick_next_task(q, st) # {}
  BY <1>2, <1>5, <1>7, <1>10, SMTT(30)
<1> QED
  BY <1>11, Zenon DEF q, st

\* A dispatch from states st, in which only the interrupted task differs: it
\* is the one that is ready again.
LEMMA TimerDispatch ==
  ASSUME TasksInv, StatesInv, ReachedInv,
         NEW q \in Seq(TaskId), NEW st \in [TaskId -> TaskStates], Entries(q, st),
         \A t \in TaskId : t # current => st[t] = state[t],
         current # None => st[current] = "Ready",
         NEW k \in pick_next_task(q, st),
         ready_queue' = RemoveIndex(q, k), state' = [st EXCEPT ![q[k]] = "Running"],
         current' = q[k], UNCHANGED <<command, next_id, priority, all_tasks>>
  PROVE  StatesInv' /\ ReachedInv' /\ Entries(ready_queue, state)' /\ Final
<1>1. /\ Entries(ready_queue, state)'
      /\ state' \in [TaskId -> TaskStates]
      /\ current' \in TaskId /\ state'[current'] = "Running" /\ st[current'] = "Ready"
      /\ \A t \in TaskId : t # current' => state'[t] = st[t]
  BY PickEntries, Zenon
<1>2. current # None => current \in TaskId /\ state[current] = "Running"
  BY DEF TasksInv, TasksType, StatesInv
<1>3. None \notin TaskId
  BY SchedulerConstants, SMTT(30) DEF TaskId, None
<1>4. \A t \in TaskId : state[t] \in {"Absent", "Terminated"} => state'[t] = state[t]
  BY <1>1, <1>2, <1>3, ZenonT(30)
<1>5. \A t \in TaskId : (state[t] = "Ready" \/ current = t) => (state'[t] = "Ready" \/ current' = t)
  BY <1>1, <1>2, <1>3
<1>6. 2 \in all_tasks => 2 \in TaskId
  BY DEF StatesInv
<1>7. StatesInv'
  BY <1>1, <1>4, <1>5, <1>6 DEF StatesInv
<1>8. command.pc \in {"push", "list"} => command.task \in TaskId
  BY DEF TasksInv, StacksInv, Stacked
<1>9. ReachedInv'
  BY <1>4, <1>5, <1>8, SMTT(30) DEF ReachedInv
<1>10. Final
  BY <1>4, Zenon DEF Final
<1> QED
  BY <1>1, <1>7, <1>9, <1>10

LEMMA TimerQueue == QueueInv /\ timer => StatesInv' /\ ReachedInv' /\ Entries(ready_queue, state)' /\ Final
<1> SUFFICES ASSUME QueueInv, timer
             PROVE  StatesInv' /\ ReachedInv' /\ Entries(ready_queue, state)' /\ Final
  OBVIOUS
<1>0. TasksInv /\ StatesInv /\ ReachedInv /\ Entries(ready_queue, state)
  BY DEF QueueInv
<1>1. UNCHANGED command
  BY SMTT(30) DEF timer, shell_vars
<1>2. CASE UNCHANGED vars
  BY <1>0, <1>1, <1>2 DEF vars, task_vars, StatesInv, ReachedInv, Entries, Killed, Final
<1>3. CASE preempt_schedule
  <2>1. UNCHANGED <<next_id, priority, all_tasks>>
    BY <1>3 DEF preempt_schedule, task_vars
  <2>2. ready_queue \in Seq(TaskId) /\ state \in [TaskId -> TaskStates]
    BY <1>0 DEF TasksInv, TasksType, StatesInv
  <2>3. CASE current = None
    <3>1. Dispatch(ready_queue, state, state)
      BY <1>3, <2>3 DEF preempt_schedule
    <3>2. ASSUME NEW k \in pick_next_task(ready_queue, state),
                 ready_queue' = RemoveIndex(ready_queue, k),
                 state' = [state EXCEPT ![ready_queue[k]] = "Running"],
                 current' = ready_queue[k]
          PROVE  StatesInv' /\ ReachedInv' /\ Entries(ready_queue, state)' /\ Final
      BY <1>0, <1>1, <2>1, <2>2, <2>3, <3>2, TimerDispatch, ZenonT(30)
    <3>3. CASE ready_queue' = ready_queue /\ state' = state /\ UNCHANGED current
      BY <1>0, <1>1, <2>1, <3>3 DEF StatesInv, ReachedInv, Entries, Killed, Final
    <3> QED
      BY <3>1, <3>2, <3>3 DEF Dispatch
  <2>4. CASE current # None
    <3> DEFINE q == Append(ready_queue, current)
               st == [state EXCEPT ![current] = "Ready"]
               stay == [state EXCEPT ![current] = "Running"]
    <3>1. Dispatch(q, st, stay)
      BY <1>3, <2>4 DEF preempt_schedule
    <3>2. /\ q \in Seq(TaskId) /\ st \in [TaskId -> TaskStates] /\ Entries(q, st)
          /\ \A t \in TaskId : t # current => st[t] = state[t]
          /\ pick_next_task(q, st) # {}
      BY <1>0, <2>4, RequeuePicks, Zenon
    <3>3. st[current] = "Ready"
      BY <1>0, <2>2, <2>4, SMTT(30) DEF TasksInv, TasksType
    <3> HIDE DEF q, st, stay
    <3>4. PICK k \in pick_next_task(q, st) :
            ready_queue' = RemoveIndex(q, k) /\ state' = [st EXCEPT ![q[k]] = "Running"] /\ current' = q[k]
      BY <3>1, <3>2, SMTT(30) DEF Dispatch
    <3> QED
      BY <1>0, <1>1, <2>1, <3>2, <3>3, <3>4, TimerDispatch, ZenonT(30)
  <2> QED
    BY <2>3, <2>4
<1> QED
  BY <1>2, <1>3 DEF timer

\* A task that is not in the queue and becomes ready as it is pushed.
LEMMA PushEntries ==
  ASSUME ready_queue \in Seq(TaskId), state \in [TaskId -> TaskStates], Entries(ready_queue, state),
         NEW t \in TaskId, state[t] = "Absent", Killed = {}, Killed' = {},
         ready_queue' = Append(ready_queue, t), state' = [state EXCEPT ![t] = "Ready"]
  PROVE  /\ Entries(ready_queue, state)'
         /\ state' \in [TaskId -> TaskStates] /\ state'[t] = "Ready"
         /\ \A u \in TaskId : u # t => state'[u] = state[u]
         /\ Final
<1>1. /\ state' \in [TaskId -> TaskStates] /\ state'[t] = "Ready"
      /\ \A u \in TaskId : u # t => state'[u] = state[u]
  BY DEF TaskStates
<1>2. t \notin Queued(ready_queue) /\ Distinct(ready_queue)
  BY DEF Entries
<1>3. Queued(ready_queue') = Queued(ready_queue) \cup {t}
  BY AppendQueued
<1>4. Distinct(ready_queue')
  BY <1>2, AppendDistinct
<1>5. Queued(ready_queue) \subseteq TaskId
  BY SeqElements, Zenon DEF Queued
<1>6. Entries(ready_queue, state)'
  BY <1>1, <1>3, <1>4, <1>5, SMTT(30) DEF Entries
<1>7. Final
  BY <1>1 DEF Final
<1> QED
  BY <1>1, <1>6, <1>7

LEMMA BootQueue ==
  QueueInv /\ (boot_idle \/ boot_preemption)
    => StatesInv' /\ ReachedInv' /\ Entries(ready_queue, state)' /\ Final
<1> SUFFICES ASSUME QueueInv, boot_idle \/ boot_preemption
             PROVE  StatesInv' /\ ReachedInv' /\ Entries(ready_queue, state)' /\ Final
  OBVIOUS
<1>0. TasksInv /\ StatesInv /\ ReachedInv /\ Entries(ready_queue, state)
  BY SMTT(30) DEF QueueInv
<1>1. CASE boot_preemption
  <2>1. UNCHANGED <<next_id, state, priority, all_tasks, ready_queue, current, command>>
    BY <1>1, Zenon DEF boot_preemption, enable_preemption, set_preemption, task_vars, shell_vars
  <2> QED
    BY <1>0, <2>1 DEF StatesInv, ReachedInv, Entries, Killed, Final
<1>2. CASE boot_idle
  <2>1. /\ next_id = 1 /\ 1 <= MaxTasks /\ next_id' = 2
        /\ ready_queue' = Append(ready_queue, 1) /\ state' = [state EXCEPT ![1] = "Ready"]
        /\ priority' = [priority EXCEPT ![1] = Low]
        /\ all_tasks' = all_tasks \cup {1}
        /\ UNCHANGED <<current, command>>
    BY <1>2 DEF boot_idle, create_idle_task, Create, Push, shell_vars
  <2>2. command.pc = "prompt" /\ current = None
    BY <1>0, <2>1 DEF TasksInv, BootInv
  <2>3. 1 \in TaskId /\ state[1] = "Absent" /\ Killed = {} /\ Killed' = {}
    BY <1>0, <2>1, <2>2, SchedulerConstants DEF TaskId, StatesInv, Killed
  <2>4. /\ Entries(ready_queue, state)'
        /\ state' \in [TaskId -> TaskStates] /\ state'[1] = "Ready"
        /\ \A u \in TaskId : u # 1 => state'[u] = state[u]
        /\ Final
    BY <1>0, <2>1, <2>3, PushEntries, Zenon DEF TasksInv, TasksType, StatesInv
  <2>5. all_tasks' = {1}
    <3>1. \A t \in all_tasks : t \in TaskId /\ t < 1
      BY <1>0, <2>1, Zenon DEF StatesInv
    <3>2. \A t \in TaskId : t \in Nat /\ t >= 1
      BY SchedulerConstants DEF TaskId
    <3>3. all_tasks = {}
      BY <3>1, <3>2
    <3> QED
      BY <2>1, <3>3
  <2>6. priority' \in [TaskId -> 0 .. 3] /\ \A t \in TaskId \ {1} : priority'[t] = Normal
    <3>1. priority \in [TaskId -> 0 .. 3] /\ \A t \in TaskId \ {1} : priority[t] = Normal
      BY <1>0, Zenon DEF StatesInv
    <3> QED
      BY <2>1, <2>3, <3>1 DEF Low
  <2>7. \A t \in TaskId : t >= 2 => state'[t] = "Absent"
    BY <1>0, <2>1, <2>4, SchedulerConstants DEF StatesInv, TaskId
  <2>8. StatesInv'
    BY <2>1, <2>2, <2>3, <2>4, <2>5, <2>6, <2>7, SMTT(30) DEF StatesInv
  <2>9. ReachedInv'
    BY <2>1, <2>2 DEF ReachedInv
  <2> QED
    BY <2>4, <2>8, <2>9
<1> QED
  BY <1>1, <1>2

LEMMA RunQueue ==
  QueueInv /\ (run_new \/ run_push \/ run_list)
    => StatesInv' /\ ReachedInv' /\ Entries(ready_queue, state)' /\ Final
<1> SUFFICES ASSUME QueueInv, run_new \/ run_push \/ run_list
             PROVE  StatesInv' /\ ReachedInv' /\ Entries(ready_queue, state)' /\ Final
  OBVIOUS
<1>0. TasksInv /\ StatesInv /\ ReachedInv /\ Entries(ready_queue, state) /\ next_id \in Nat /\ next_id >= 1
  BY DEF QueueInv, TasksInv, TasksType
<1>1. CASE run_new
  <2>1. /\ next_id <= MaxTasks /\ next_id' = next_id + 1 /\ command.pc = "prompt"
        /\ command'.pc \in {"push", "fault"} /\ command'.task = next_id
        /\ UNCHANGED <<state, priority, all_tasks, ready_queue, current>>
    BY <1>1 DEF run_new, InShell, At
  <2>2. next_id \in TaskId /\ state[next_id] = "Absent"
    BY <1>0, <2>1, SchedulerConstants DEF TaskId, StatesInv
  <2>3. \A t \in all_tasks : t < next_id'
    BY <1>0, <2>1 DEF StatesInv, TaskId
  <2>4. \A t \in TaskId : t >= next_id' => state[t] = "Absent"
    BY <1>0, <2>1 DEF StatesInv, TaskId
  <2>5. StatesInv'
    BY <1>0, <2>1, <2>3, <2>4, SMTT(30) DEF StatesInv
  <2>6. ReachedInv'
    BY <1>0, <2>1, <2>2 DEF ReachedInv
  <2>7. Killed = {} /\ Killed' = {}
    BY <2>1 DEF Killed
  <2> QED
    BY <1>0, <2>1, <2>5, <2>6, <2>7, SMTT(30) DEF Entries, Final
<1>2. CASE run_push
  <2>1. /\ command.pc = "push" /\ ready_queue' = Append(ready_queue, command.task)
        /\ state' = [state EXCEPT ![command.task] = "Ready"]
        /\ command' = [command EXCEPT !.pc = "list"]
        /\ UNCHANGED <<next_id, priority, all_tasks, current>>
    BY <1>2 DEF run_push, InShell, Push, task_vars
  <2>2. command'.pc = "list" /\ command'.task = command.task
    BY <1>0, <2>1, Zenon DEF TasksInv, TasksType, Commanded
  <2>3. /\ command.task \in TaskId /\ state[command.task] = "Absent" /\ command.task < next_id
        /\ Killed = {} /\ Killed' = {}
    BY <1>0, <2>1, <2>2 DEF TasksInv, StacksInv, Stacked, ReachedInv, Killed
  <2>4. /\ Entries(ready_queue, state)'
        /\ state' \in [TaskId -> TaskStates] /\ state'[command.task] = "Ready"
        /\ \A u \in TaskId : u # command.task => state'[u] = state[u]
        /\ Final
    BY <1>0, <2>1, <2>3, PushEntries, Zenon DEF TasksInv, TasksType, StatesInv
  <2>5. current # None => current \in TaskId /\ current # command.task
    BY <1>0, <2>3 DEF TasksInv, TasksType, StatesInv
  <2>6. \A t \in TaskId : t >= next_id => t # command.task
    BY <1>0, <2>3 DEF TaskId
  <2>7. StatesInv'
    BY <1>0, <2>1, <2>4, <2>5, <2>6 DEF StatesInv
  <2>8. ReachedInv'
    BY <2>1, <2>2, <2>3, <2>4 DEF ReachedInv
  <2> QED
    BY <2>4, <2>7, <2>8
<1>3. CASE run_list
  <2>1. /\ command.pc = "list" /\ all_tasks' = all_tasks \cup {command.task} /\ command'.pc = "prompt"
        /\ UNCHANGED <<next_id, state, priority, ready_queue, current>>
    BY <1>3, SMTT(30) DEF run_list, InShell, Prompt, At
  <2>2. /\ command.task \in TaskId /\ command.task < next_id
        /\ state[command.task] = "Ready" \/ current = command.task
    BY <1>0, <2>1, Zenon DEF TasksInv, StacksInv, Stacked, ReachedInv
  <2>3. StatesInv'
    BY <1>0, <2>1, <2>2 DEF StatesInv
  <2>4. ReachedInv'
    BY <2>1 DEF ReachedInv
  <2>5. Killed = {} /\ Killed' = {}
    BY <2>1 DEF Killed
  <2> QED
    BY <1>0, <2>1, <2>3, <2>4, <2>5, SMTT(30) DEF Entries, Final
<1> QED
  BY <1>1, <1>2, <1>3

LEMMA WalkQueue ==
  QueueInv /\ ((\E t \in TaskId \cup {None} : scan_first(t)) \/ scan_next \/ retain_lock)
    => StatesInv' /\ ReachedInv' /\ Entries(ready_queue, state)' /\ Final
<1> SUFFICES ASSUME QueueInv, (\E t \in TaskId \cup {None} : scan_first(t)) \/ scan_next \/ retain_lock
             PROVE  StatesInv' /\ ReachedInv' /\ Entries(ready_queue, state)' /\ Final
  OBVIOUS
<1>0. StatesInv /\ ReachedInv /\ Entries(ready_queue, state) /\ command \in Commanded
  BY DEF QueueInv, TasksInv, TasksType
<1>1. UNCHANGED <<next_id, state, priority, all_tasks, ready_queue, current>>
  BY DEF scan_first, scan_next, retain_lock, vars, task_vars
<1>2. StatesInv' /\ Final
  BY <1>0, <1>1 DEF StatesInv, Final
<1>3. ASSUME Killed' = Killed PROVE Entries(ready_queue, state)'
  BY <1>0, <1>1, <1>3 DEF Entries
<1>4. ASSUME NEW t \in TaskId \cup {None}, scan_first(t)
      PROVE  ReachedInv' /\ Entries(ready_queue, state)'
  <2>1. /\ command.pc = "prompt" /\ (t = None \/ t > Protected)
        /\ command'.pc = "scan" /\ command'.at = 1 /\ command'.task = t
    BY <1>4 DEF scan_first, InShell, At
  <2>2. t = None \/ t > 2
    BY <2>1, ProtectedConstant, SchedulerConstants DEF TaskId
  <2>3. Killed' = Killed
    BY <2>1 DEF Killed
  <2>4. ReachedInv'
    BY <2>1, <2>2 DEF ReachedInv
  <2> QED
    BY <1>3, <2>3, <2>4, ZenonT(30)
<1>5. CASE scan_next
  <2>1. command.pc = "scan" /\ command.at \in Nat /\ command.at >= 1
    BY <1>0, <1>5 DEF scan_next, InShell, Commanded, ReachedInv
  <2>2. CASE command.at + 1 \in all_tasks /\ command' = [command EXCEPT !.at = command.at + 1]
    <3>1. command'.pc = "scan" /\ command'.at = command.at + 1 /\ command'.task = command.task
      BY <1>0, <2>1, <2>2, Zenon DEF Commanded
    <3>2. 2 \in all_tasks
      <4>1. CASE command.at = 1
        BY <2>2, <4>1
      <4>2. CASE command.at # 1
        BY <1>0, <2>1, <4>2, SMTT(30) DEF ReachedInv
      <4> QED
        BY <4>1, <4>2
    <3>3. Killed' = Killed
      BY <2>1, <3>1 DEF Killed
    <3>4. command.task = None \/ command.task > 2
      BY <1>0, <2>1 DEF ReachedInv
    <3>5. ReachedInv'
      BY <1>1, <2>1, <2>2, <3>1, <3>2, <3>4 DEF ReachedInv
    <3> QED
      BY <1>2, <1>3, <3>3, <3>5, Zenon
  <2>3. CASE command' = Prompt
    <3>1. command'.pc = "prompt"
      BY <2>3 DEF Prompt, At
    <3>2. Killed' = Killed
      BY <2>1, <3>1 DEF Killed
    <3>3. ReachedInv'
      BY <3>1 DEF ReachedInv
    <3> QED
      BY <1>2, <1>3, <3>2, <3>3, Zenon
  <2> QED
    BY <1>5, <2>2, <2>3 DEF scan_next
<1>6. CASE retain_lock
  <2>1. command' = command
    BY <1>6 DEF retain_lock
  <2>2. Killed' = Killed
    BY <2>1 DEF Killed
  <2> QED
    BY <1>0, <1>1, <1>2, <1>3, <2>1, <2>2 DEF ReachedInv
<1> QED
  BY <1>2, <1>4, <1>5, <1>6

LEMMA KillQueue ==
  QueueInv /\ (kill_mark \/ retain_entry \/ retain_truncate)
    => StatesInv' /\ ReachedInv' /\ Entries(ready_queue, state)' /\ Final
<1> SUFFICES ASSUME QueueInv, kill_mark \/ retain_entry \/ retain_truncate
             PROVE  StatesInv' /\ ReachedInv' /\ Entries(ready_queue, state)' /\ Final
  OBVIOUS
<1>0. /\ StatesInv /\ ReachedInv /\ Entries(ready_queue, state) /\ command \in Commanded
      /\ ready_queue \in Seq(TaskId)
  BY DEF QueueInv, TasksInv, TasksType
<1>1. Queued(ready_queue) \subseteq TaskId
  BY <1>0, SeqElements, Zenon DEF Queued
<1>2. CASE kill_mark
  <2> DEFINE t == command.task
  <2>1. /\ cpu = Shell /\ command.pc = "scan" /\ command.at = t
        /\ state' = [state EXCEPT ![t] = "Terminated"]
        /\ command' = At("retain", t, 1)
        /\ UNCHANGED <<next_id, priority, all_tasks, ready_queue, current>>
    BY <1>2, ZenonT(30) DEF kill_mark, InShell, task_vars
  <2>2. command'.pc = "retain" /\ command'.task = t
    BY <2>1 DEF At
  <2>3. t >= 1 /\ t \in Nat /\ (t = None \/ t > 2)
    BY <1>0, <2>1 DEF ReachedInv, Commanded
  <2>4. t > 2
    BY <2>3 DEF None
  <2>5. t \in all_tasks /\ 2 \in all_tasks
    BY <1>0, <2>1, <2>3, <2>4 DEF ReachedInv
  <2>6. t \in TaskId /\ t < next_id
    BY <1>0, <2>5, SMTT(30) DEF StatesInv
  <2>7. current = None
    BY <2>1, SchedulerConstants DEF QueueInv, TasksInv, TasksType, ContextInv, Shell, None, TaskId
  <2>8. state \in [TaskId -> TaskStates]
    BY <1>0, Zenon DEF StatesInv
  <2> HIDE DEF t
  <2>9. /\ state' \in [TaskId -> TaskStates] /\ state'[t] = "Terminated"
        /\ \A u \in TaskId : u # t => state'[u] = state[u]
    BY <2>1, <2>6, <2>8, SMTT(30) DEF TaskStates
  <2>10. Killed = {} /\ Killed' = {t}
    BY <2>1, <2>2, ZenonT(30) DEF Killed
  <2>11. Entries(ready_queue, state)'
    BY <1>0, <1>1, <2>1, <2>9, <2>10 DEF Entries
  <2>12. \A u \in TaskId : u >= next_id => u # t
    BY <2>3, <2>6, SchedulerConstants DEF TaskId, QueueInv, TasksInv, TasksType
  <2>13. 2 \in TaskId /\ 2 # t
    BY <1>0, <2>3, <2>4, <2>5, SMTT(30) DEF StatesInv
  <2>14. StatesInv'
    BY <1>0, <2>1, <2>7, <2>9, <2>12, <2>13, SMTT(30) DEF StatesInv
  <2>15. ReachedInv'
    BY <2>1, <2>2, <2>5, <2>6, <2>9 DEF ReachedInv
  <2>16. Final
    BY <2>9 DEF Final
  <2> QED
    BY <2>11, <2>14, <2>15, <2>16
<1>3. CASE retain_entry
  <2>1. /\ command.pc = "retain" /\ command.at <= Len(ready_queue)
        /\ command' = [command EXCEPT !.at = command.at + 1]
        /\ UNCHANGED <<next_id, state, priority, all_tasks, current>>
    BY <1>3 DEF retain_entry, Wanted, InShell, task_vars
  <2>2. command'.pc = "retain" /\ command'.task = command.task
    BY <1>0, <2>1, Zenon DEF Commanded
  <2>3. command.at \in 1 .. Len(ready_queue)
    BY <1>0, <2>1, SeqElements DEF Commanded, QueueInv, TasksInv, LocksInv
  <2>4. Queued(ready_queue') = Queued(ready_queue) /\ (Distinct(ready_queue) => Distinct(ready_queue'))
    <3>1. CASE ready_queue' = ready_queue
      BY <3>1
    <3>2. CASE /\ command.at > 1
               /\ ready_queue' = [ready_queue EXCEPT ![command.at - 1] = ready_queue[command.at],
                                                     ![command.at] = ready_queue[command.at - 1]]
      BY <1>0, <2>3, <3>2, SwapQueued, Zenon
    <3> QED
      BY <1>3, <3>1, <3>2, Zenon DEF retain_entry
  <2>5. Killed' = Killed
    BY <2>1, <2>2 DEF Killed
  <2>6. Entries(ready_queue, state)'
    BY <1>0, <2>1, <2>4, <2>5 DEF Entries
  <2>7. ReachedInv'
    BY <1>0, <2>1, <2>2 DEF ReachedInv
  <2> QED
    BY <1>0, <2>1, <2>6, <2>7 DEF StatesInv, Final
<1>4. CASE retain_truncate
  <2>1. /\ command.pc = "retain" /\ ready_queue' = Retain(ready_queue, {command.task})
        /\ command'.pc = "prompt"
        /\ UNCHANGED <<next_id, state, priority, all_tasks, current>>
    BY <1>4 DEF retain_truncate, InShell, task_vars, Prompt, At
  <2>2. /\ Queued(ready_queue') = Queued(ready_queue) \ {command.task}
        /\ Distinct(ready_queue) => Distinct(ready_queue')
    BY <1>0, <2>1, RetainQueued
  <2>3. state[command.task] = "Terminated"
    BY <1>0, <2>1 DEF ReachedInv
  <2>4. Killed = {command.task} /\ Killed' = {}
    BY <2>1 DEF Killed
  <2>5. Entries(ready_queue, state)'
    BY <1>0, <2>1, <2>2, <2>3, <2>4, Zenon DEF Entries
  <2>6. ReachedInv'
    BY <2>1 DEF ReachedInv
  <2> QED
    BY <1>0, <2>1, <2>5, <2>6, SMTT(30) DEF StatesInv, Final
<1> QED
  BY <1>2, <1>3, <1>4

LEMMA QueueStep == QueueInv /\ [TasksNext]_kernel_vars => QueueInv' /\ Final
<1> SUFFICES ASSUME QueueInv, [TasksNext]_kernel_vars PROVE QueueInv' /\ Final
  OBVIOUS
<1>1. TasksInv'
  BY TasksStep DEF QueueInv
<1> SUFFICES StatesInv' /\ ReachedInv' /\ Entries(ready_queue, state)' /\ Final
  BY <1>1, SMTT(30) DEF QueueInv
<1>2. CASE UNCHANGED kernel_vars
  <2>1. UNCHANGED <<next_id, state, priority, all_tasks, ready_queue, current, command>>
    BY <1>2, Zenon DEF kernel_vars, vars, task_vars
  <2> QED
    BY <2>1 DEF QueueInv, StatesInv, ReachedInv, Entries, Killed, Final
<1>3. CASE TasksNext
  BY <1>3, BootQueue, RunQueue, WalkQueue, KillQueue, TimerQueue, Zenon DEF TasksNext, Commands
<1> QED
  BY <1>2, <1>3

\* For any number of tasks, and with run and kill cut off anywhere by the
\* timer, the ready queue holds every ready task once and besides them at most
\* the task of one unfinished kill.
THEOREM QueueExact == TasksSpec => []QueueIsExact
<1>1. QueueInv => QueueIsExact
  <2> SUFFICES ASSUME QueueInv PROVE QueueIsExact
    OBVIOUS
  <2>1. Entries(ready_queue, state)
    BY DEF QueueInv
  <2> QED
    BY <2>1, Zenon DEF Entries, Distinct, Killed, QueueIsExact
<1> QED
  BY <1>1, QueueInitInv, QueueStep, PTL DEF TasksSpec

\* A killed task never runs again, though the timer may leave its entry in the
\* queue for ever.
THEOREM KillsAreFinal == TasksSpec => KillIsFinal
<1>1. KillIsFinal <=> [][Final]_kernel_vars
  BY DEF KillIsFinal, Final
<1> QED
  BY <1>1, QueueInitInv, QueueStep, PTL DEF TasksSpec
=============================================================================
