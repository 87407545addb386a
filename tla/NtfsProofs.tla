----------------------------- MODULE NtfsProofs -----------------------------
(***************************************************************************)
(* Every record of the format: parse_mft_record and parse_run_list invert  *)
(* its layout, and a read is of the file's own data.                       *)
(***************************************************************************)
EXTENDS NtfsFile, WellFoundedInduction, TLAPS

(* Induction, and functions defined by recursion. *)

\* A nonempty set of numbers has a least element.
LEMMA LeastNat ==
  ASSUME NEW T \in SUBSET Nat, T # {}
  PROVE  \E x \in T : \A y \in T : x <= y
<1>1. PICK x \in T : \A y \in T : ~ (<<y, x>> \in OpToRel(<, Nat))
  BY NatLessThanWellFounded, WFMin, Zenon
<1>2. \A y \in T : ~ (y < x)
  BY <1>1, Zenon DEF OpToRel
<1> QED
  BY <1>2

\* A set of numbers with zero and the successor of each of its elements holds
\* them all.
LEMMA SetInduction ==
  ASSUME NEW P \in SUBSET Nat, 0 \in P, \A n \in P : n + 1 \in P
  PROVE  P = Nat
<1> SUFFICES ASSUME NEW m \in Nat \ P PROVE FALSE
  BY Zenon
<1>1. PICK x \in Nat \ P : \A y \in Nat \ P : x <= y
  <2>1. Nat \ P \in SUBSET Nat /\ Nat \ P # {}
    OBVIOUS
  <2> QED
    BY <2>1, LeastNat, Zenon
<1>2. x # 0 /\ x - 1 \in Nat
  OBVIOUS
<1>3. x - 1 \in P
  BY <1>1, <1>2
<1> QED
  BY <1>3

\* What Min chooses.
LEMMA MinIsLeast ==
  ASSUME NEW T \in SUBSET Nat, T # {}
  PROVE  Min(T) \in T /\ \A y \in T : Min(T) <= y
BY LeastNat, Zenon DEF Min

\* The same of Max, in an interval.
LEMMA MaxIsGreatest ==
  ASSUME NEW n \in Nat, NEW T \in SUBSET (0 .. n), T # {}
  PROVE  Max(T) \in T /\ \A y \in T : y <= Max(T)
<1> DEFINE U == {n - t : t \in T}
<1>1. U \in SUBSET Nat /\ U # {}
  <2>1. \A t \in T : n - t \in Nat
    OBVIOUS
  <2> QED
    BY <2>1, Zenon
<1>2. PICK u \in U : \A y \in U : u <= y
  BY <1>1, LeastNat, Zenon
<1>3. PICK x \in T : u = n - x
  BY <1>2
<1>4. \A y \in T : y <= x
  <2> SUFFICES ASSUME NEW y \in T PROVE y <= x
    OBVIOUS
  <2>1. n - y \in U
    OBVIOUS
  <2>2. n - x <= n - y
    BY <1>2, <1>3, <2>1
  <2> QED
    BY <2>2
<1>5. \E z \in T : \A y \in T : z >= y
  BY <1>4
<1>6. Max(T) \in T /\ \A y \in T : Max(T) >= y
  BY <1>5, Zenon DEF Max
<1> QED
  BY <1>6

\* f lists what the first steps of a sequence of n steps make of e.
Iterates(f, e, n, st) == f[0] = e /\ \A k \in 1 .. n : f[k] = st[k][f[k - 1]]

\* Any sequence of steps from S to S can be iterated.
LEMMA FoldExists ==
  ASSUME NEW S, NEW e \in S, NEW n \in Nat, NEW st \in [1 .. n -> [S -> S]]
  PROVE  \E f \in [0 .. n -> S] : Iterates(f, e, n, st)
<1> DEFINE Def(m, f) == f[0] = e /\ \A k \in 1 .. m : f[k] = st[k][f[k - 1]]
           Has(m) == \E f \in [0 .. m -> S] : Def(m, f)
           P == {m \in Nat : m <= n => Has(m)}
<1>1. 0 \in P
  <2> DEFINE f == [k \in 0 .. 0 |-> e]
  <2>1. f \in [0 .. 0 -> S] /\ Def(0, f)
    OBVIOUS
  <2> QED
    BY <2>1, Zenon
<1>2. ASSUME NEW m \in P PROVE m + 1 \in P
  <2>1. ASSUME m + 1 <= n PROVE Has(m + 1)
    <3>1. Has(m)
      BY <2>1
    <3>2. PICK f \in [0 .. m -> S] : Def(m, f)
      BY <3>1
    <3> DEFINE g == [k \in 0 .. m + 1 |-> IF k = m + 1 THEN st[m + 1][f[m]] ELSE f[k]]
    <3>3. m \in Nat /\ st[m + 1] \in [S -> S] /\ f[m] \in S
      BY <2>1
    <3>4. g \in [0 .. m + 1 -> S]
      BY <3>3
    <3>5. g[0] = e /\ \A k \in 1 .. m + 1 : g[k] = st[k][g[k - 1]]
      BY <3>2, <3>3
    <3> QED
      BY <3>4, <3>5, Zenon
  <2>2. m + 1 \in Nat
    OBVIOUS
  <2> HIDE DEF Has
  <2> QED
    BY <2>1, <2>2
<1>3. P = Nat
  <2>1. P \in SUBSET Nat
    OBVIOUS
  <2> HIDE DEF P
  <2> QED
    BY <1>1, <1>2, <2>1, SetInduction
<1>4. Has(n)
  <2> HIDE DEF Has
  <2> QED
    BY <1>3
<1> QED
  BY <1>4 DEF Iterates

\* What every step keeps, all of them keep.
LEMMA Kept ==
  ASSUME NEW n \in Nat, NEW S, NEW f, f[0] \in S,
         \A k \in 1 .. n : f[k - 1] \in S => f[k] \in S
  PROVE  \A k \in 0 .. n : f[k] \in S
<1> DEFINE P == {k \in Nat : k <= n => f[k] \in S}
<1>1. 0 \in P
  OBVIOUS
<1>2. ASSUME NEW k \in P PROVE k + 1 \in P
  <2>1. k \in Nat /\ k + 1 \in Nat /\ (k + 1) - 1 = k
    OBVIOUS
  <2>2. k + 1 <= n => k + 1 \in 1 .. n /\ k <= n
    BY <2>1
  <2> QED
    BY <2>1, <2>2
<1>3. P = Nat
  <2>1. P \in SUBSET Nat
    OBVIOUS
  <2> HIDE DEF P
  <2> QED
    BY <1>1, <1>2, <2>1, SetInduction
<1> QED
  BY <1>3

(* Division, and the powers of a byte. *)

\* Division with remainder, and that there is only one.
LEMMA Division ==
  ASSUME NEW n \in Int, NEW d \in Nat \ {0}
  PROVE  /\ n \div d \in Int /\ n % d \in 0 .. d - 1
         /\ n = d * (n \div d) + (n % d)
         /\ n \in Nat => n \div d \in Nat
OBVIOUS

\* No other quotient and remainder add up.
LEMMA DivisionIsUnique ==
  ASSUME NEW d \in Nat \ {0}, NEW q \in Int, NEW r \in 0 .. d - 1, NEW n \in Int, n = d * q + r
  PROVE  n \div d = q /\ n % d = r
OBVIOUS

\* A byte has an even number of values.
LEMMA Byte == BYTE \in Nat \ {0} /\ \E h \in Nat : BYTE = 2 * h
<1>1. PICK m \in Nat : NIBBLE = 2 * m
  BY NtfsAssumption
<1>2. m * NIBBLE \in Nat /\ BYTE = 2 * (m * NIBBLE)
  BY <1>1, NtfsAssumption DEF BYTE
<1>3. BYTE \in Nat \ {0}
  BY NtfsAssumption DEF BYTE
<1> QED
  BY <1>2, <1>3, Zenon

\* Pow[k] is BYTE to the power of k.
LEMMA Powers ==
  /\ Pow \in [0 .. NIBBLE -> Nat \ {0}] /\ Pow[0] = 1
  /\ \A k \in 1 .. NIBBLE : Pow[k] = BYTE * Pow[k - 1]
<1> DEFINE P == Nat \ {0}
           st == [k \in 1 .. NIBBLE |-> [x \in P |-> BYTE * x]]
           IsPow(f) == f = [k \in 0 .. NIBBLE |-> IF k = 0 THEN 1 ELSE BYTE * f[k - 1]]
<1>0. NIBBLE \in Nat /\ 1 \in P
  BY NtfsAssumption
<1>1. \A x \in P : BYTE * x \in P
  BY Byte
<1>2. st \in [1 .. NIBBLE -> [P -> P]]
  <2> HIDE DEF P
  <2> QED
    BY <1>1
<1>3. PICK f \in [0 .. NIBBLE -> P] : Iterates(f, 1, NIBBLE, st)
  <2> HIDE DEF st, P
  <2> QED
    BY <1>0, <1>2, FoldExists, Zenon
<1>4. IsPow(f)
  <2>1. \A k \in 1 .. NIBBLE : f[k - 1] \in P /\ st[k][f[k - 1]] = BYTE * f[k - 1]
    <3> HIDE DEF P
    <3> QED
      BY <1>0
  <2>2. \A k \in 0 .. NIBBLE : k # 0 => k \in 1 .. NIBBLE
    BY <1>0
  <2> HIDE DEF st, P
  <2>3. \A k \in 0 .. NIBBLE : f[k] = IF k = 0 THEN 1 ELSE BYTE * f[k - 1]
    BY <1>3, <2>1, <2>2 DEF Iterates
  <2> QED
    BY <2>3
<1>5. IsPow(Pow)
  <2>1. Pow = CHOOSE g : IsPow(g)
    BY Zenon DEF Pow
  <2> HIDE DEF IsPow
  <2> QED
    BY <1>4, <2>1, Zenon
<1>6. \A k \in 0 .. NIBBLE : Pow[k] = IF k = 0 THEN 1 ELSE BYTE * Pow[k - 1]
  BY <1>5, Zenon
<1>7. Pow[0] = 1 /\ \A k \in 1 .. NIBBLE : Pow[k] = BYTE * Pow[k - 1]
  <2>1. 0 \in 0 .. NIBBLE /\ \A k \in 1 .. NIBBLE : k \in 0 .. NIBBLE /\ k # 0
    BY <1>0
  <2> QED
    BY <1>6, <2>1, Zenon
<1>8. \A k \in 0 .. NIBBLE : Pow[k] \in P
  <2>1. \A k \in 1 .. NIBBLE : Pow[k - 1] \in P => Pow[k] \in P
    BY <1>1, <1>7, Zenon
  <2> HIDE DEF P
  <2> QED
    BY <1>0, <1>7, <2>1, Kept, Zenon
<1>9. Pow = [k \in 0 .. NIBBLE |-> Pow[k]]
  BY <1>5, Zenon
<1> QED
  BY <1>7, <1>8, <1>9, Zenon

\* One more byte of a number.
LEMMA NextByte ==
  ASSUME NEW v \in Nat, NEW b \in Nat \ {0}, NEW p \in Nat \ {0}
  PROVE  v % (b * p) = (v % p) + ((v \div p) % b) * p
<1> DEFINE q == v \div p
           r == v % p
           t == q \div b
           u == q % b
<1>0. v \in Int
  OBVIOUS
<1>1. q \in Nat /\ r \in 0 .. p - 1 /\ v = p * q + r
  BY <1>0, Division, Zenon
<1> HIDE DEF q, r
<1>2. t \in Nat /\ u \in 0 .. b - 1 /\ q = b * t + u
  <2>1. q \in Int
    BY <1>1
  <2> QED
    BY <1>1, <2>1, Division, Zenon
<1> HIDE DEF t, u
<1>3. b * p \in Nat \ {0}
  OBVIOUS
<1>4. v = (b * p) * t + (r + u * p)
  BY <1>1, <1>2
<1>5. r + u * p \in 0 .. (b * p) - 1
  <2>1. (b - 1 - u) * p >= 0 /\ u * p >= 0
    BY <1>2
  <2>2. (b - 1 - u) * p = b * p - p - u * p
    BY <1>2
  <2> QED
    BY <1>1, <1>2, <2>1, <2>2
<1>6. v % (b * p) = r + u * p
  <2> DEFINE w == b * p
             x == r + u * p
  <2>1. w \in Nat \ {0} /\ t \in Int /\ x \in 0 .. w - 1 /\ v = w * t + x
    BY <1>2, <1>3, <1>4, <1>5
  <2> HIDE DEF w, x
  <2>2. v % w = x
    BY <1>0, <2>1, DivisionIsUnique, Zenon
  <2> QED
    BY <2>2 DEF w, x
<1> QED
  BY <1>6 DEF q, r, u

\* A number below the divisor is its own remainder, and a negative one above
\* its negative the sum.
LEMMA SmallRemainder ==
  ASSUME NEW p \in Nat \ {0}, NEW d \in Int
  PROVE  /\ d \in 0 .. p - 1 => d % p = d
         /\ -p <= d /\ d < 0 => d % p = d + p
<1>1. d \in 0 .. p - 1 => d = p * 0 + d
  OBVIOUS
<1>2. -p <= d /\ d < 0 => d = p * (-1) + (d + p) /\ d + p \in 0 .. p - 1
  OBVIOUS
<1> QED
  BY <1>1, <1>2, DivisionIsUnique

(* What decoding a number gives. *)

\* p is where the n bytes of v lie in a sequence.
LiesAt(seq, p, v, n) == \A i \in 1 .. n : seq[p + i] = LittleEndian(v, n)[i]

\* The bytes of a number decode to its remainder.
LEMMA UnsignedInverts ==
  ASSUME NEW p \in Nat, NEW n \in 0 .. NIBBLE, NEW v \in Nat, LiesAt(data, p, v, n)
  PROVE  Unsigned(p, n) = v % Pow[n]
<1> DEFINE st == [k \in 1 .. n |-> [x \in Int |-> x + ((v \div Pow[k - 1]) % BYTE) * Pow[k - 1]]]
           IsValue(f) == f = [k \in 0 .. n |-> IF k = 0 THEN 0 ELSE f[k - 1] + data[p + k] * Pow[k - 1]]
           value == CHOOSE f : IsValue(f)
<1>0. n \in Nat /\ 0 \in Int /\ \A k \in 1 .. n : Pow[k - 1] \in Nat \ {0} /\ Pow[k] = BYTE * Pow[k - 1]
  <2>1. n \in Nat /\ 0 \in Int /\ NIBBLE \in Nat
    BY NtfsAssumption
  <2>2. \A k \in 1 .. n : k \in 1 .. NIBBLE /\ k - 1 \in 0 .. NIBBLE
    BY <2>1
  <2> QED
    BY <2>1, <2>2, Powers, Zenon
<1>1. \A k \in 1 .. n : data[p + k] = (v \div Pow[k - 1]) % BYTE /\ data[p + k] \in Nat
  <2> SUFFICES ASSUME NEW k \in 1 .. n
               PROVE  data[p + k] = (v \div Pow[k - 1]) % BYTE /\ data[p + k] \in Nat
    OBVIOUS
  <2> DEFINE w == Pow[k - 1]
  <2>1. data[p + k] = (v \div w) % BYTE
    BY DEF LiesAt, LittleEndian
  <2>2. w \in Nat \ {0}
    BY <1>0, Zenon
  <2> HIDE DEF w
  <2>3. v \div w \in Nat
    BY <2>2
  <2> QED
    BY <2>1, <2>3, Byte DEF w
<1>2. st \in [1 .. n -> [Int -> Int]]
  <2>1. \A k \in 1 .. n : \A x \in Int : x + ((v \div Pow[k - 1]) % BYTE) * Pow[k - 1] \in Int
    <3> SUFFICES ASSUME NEW k \in 1 .. n, NEW x \in Int
                 PROVE  x + ((v \div Pow[k - 1]) % BYTE) * Pow[k - 1] \in Int
      OBVIOUS
    <3> DEFINE w == Pow[k - 1]
               u == (v \div w) % BYTE
    <3>1. w \in Nat /\ u \in Nat
      BY <1>0, <1>1, Zenon
    <3> HIDE DEF w, u
    <3>2. x + u * w \in Int
      BY <3>1
    <3> QED
      BY <3>2 DEF w, u
  <2> QED
    BY <2>1
<1>3. PICK f \in [0 .. n -> Int] : Iterates(f, 0, n, st)
  <2> HIDE DEF st
  <2> QED
    BY <1>0, <1>2, FoldExists, Zenon
<1>4. IsValue(f)
  <2>1. \A k \in 1 .. n : f[k - 1] \in Int /\ st[k][f[k - 1]] = f[k - 1] + data[p + k] * Pow[k - 1]
    BY <1>0, <1>1
  <2>2. \A k \in 0 .. n : k # 0 => k \in 1 .. n
    BY <1>0
  <2> HIDE DEF st
  <2>3. \A k \in 0 .. n : f[k] = IF k = 0 THEN 0 ELSE f[k - 1] + data[p + k] * Pow[k - 1]
    BY <1>3, <2>1, <2>2, Zenon DEF Iterates
  <2> QED
    BY <2>3
<1>5. IsValue(value)
  <2> HIDE DEF IsValue
  <2> QED
    BY <1>4, Zenon
<1>6. value[n] = Unsigned(p, n)
  BY Zenon DEF Unsigned
<1>7. value[0] = 0 /\ \A k \in 1 .. n : value[k] = value[k - 1] + data[p + k] * Pow[k - 1]
  <2> HIDE DEF value
  <2>1. \A k \in 0 .. n : value[k] = IF k = 0 THEN 0 ELSE value[k - 1] + data[p + k] * Pow[k - 1]
    BY <1>5, Zenon
  <2>2. 0 \in 0 .. n /\ \A k \in 1 .. n : k \in 0 .. n /\ k # 0
    BY <1>0
  <2> QED
    BY <2>1, <2>2, Zenon
<1> HIDE DEF value
<1> DEFINE P == {k \in Nat : k <= n => value[k] = v % Pow[k]}
<1>8. 0 \in P
  <2>1. v % 1 = 0
    OBVIOUS
  <2> QED
    BY <1>7, <2>1, Powers
<1>9. ASSUME NEW k \in P PROVE k + 1 \in P
  <2>1. k \in Nat /\ k + 1 \in Nat /\ (k + 1) - 1 = k
    OBVIOUS
  <2>2. ASSUME k + 1 <= n PROVE value[k + 1] = v % Pow[k + 1]
    <3>1. k + 1 \in 1 .. n /\ k <= n
      BY <1>0, <2>1, <2>2
    <3> DEFINE w == Pow[k]
    <3>2. /\ w \in Nat \ {0} /\ Pow[k + 1] = BYTE * w
          /\ value[k + 1] = value[k] + ((v \div w) % BYTE) * w
      BY <1>0, <1>1, <1>7, <2>1, <3>1, Zenon
    <3>3. value[k] = v % w
      BY <3>1
    <3> HIDE DEF w
    <3>4. v % (BYTE * w) = (v % w) + ((v \div w) % BYTE) * w
      BY <3>2, Byte, NextByte, Zenon
    <3> QED
      BY <3>2, <3>3, <3>4, Zenon
  <2> QED
    BY <2>1, <2>2
<1>10. P = Nat
  <2>1. P \in SUBSET Nat
    OBVIOUS
  <2> HIDE DEF P
  <2> QED
    BY <1>8, <1>9, <2>1, SetInduction, Zenon
<1>11. value[n] = v % Pow[n]
  <2>1. n <= n
    BY <1>0
  <2> QED
    BY <1>0, <1>10, <2>1, Zenon
<1> QED
  BY <1>6, <1>11

\* The top bit of a number is that of its last byte.
LEMMA TopByte ==
  ASSUME NEW w \in Nat \ {0}, NEW h \in Nat \ {0}, NEW v \in Nat, v < (2 * h) * w
  PROVE  2 * ((v \div w) % (2 * h)) < 2 * h <=> 2 * v < (2 * h) * w
<1> DEFINE q == v \div w
           r == v % w
<1>1. q \in Nat /\ r \in 0 .. w - 1 /\ v = w * q + r
  <2>1. v \in Int
    OBVIOUS
  <2> QED
    BY <2>1, Division, Zenon
<1> HIDE DEF q, r
<1>2. q < 2 * h
  <2> SUFFICES ASSUME q >= 2 * h PROVE FALSE
    BY <1>1
  <2>1. (q - 2 * h) * w >= 0
    BY <1>1
  <2>2. (q - 2 * h) * w = w * q - (2 * h) * w
    BY <1>1
  <2>3. w * q \in Nat /\ (2 * h) * w \in Nat
    BY <1>1
  <2> QED
    BY <1>1, <2>1, <2>2, <2>3
<1>3. q % (2 * h) = q
  <2> DEFINE b == 2 * h
  <2>1. b \in Nat \ {0} /\ q \in 0 .. b - 1 /\ q \in Int
    BY <1>1, <1>2
  <2> HIDE DEF b
  <2>2. q % b = q
    BY <2>1, SmallRemainder, Zenon
  <2> QED
    BY <2>2 DEF b
<1>4. h * w \in Nat /\ w * q \in Nat /\ (2 * h) * w = 2 * (h * w)
  BY <1>1
<1>5. CASE q < h
  <2>1. (h - 1 - q) * w >= 0
    BY <1>1, <1>5
  <2>2. (h - 1 - q) * w = h * w - w - w * q
    BY <1>1
  <2>3. 2 * v < (2 * h) * w
    BY <1>1, <1>4, <2>1, <2>2
  <2> QED
    BY <1>1, <1>3, <1>5, <2>3 DEF q
<1>6. CASE ~(q < h)
  <2>1. (q - h) * w >= 0
    BY <1>1, <1>6
  <2>2. (q - h) * w = w * q - h * w
    BY <1>1
  <2>3. ~(2 * v < (2 * h) * w)
    BY <1>1, <1>4, <2>1, <2>2
  <2> QED
    BY <1>1, <1>3, <1>6, <2>3 DEF q
<1> QED
  BY <1>5, <1>6

\* The bytes of a distance decode to it, if it is not a negative one of a whole
\* word.
LEMMA SignedInverts ==
  ASSUME NEW p \in Nat, NEW n \in 1 .. WORD, NEW d \in Int,
         -Pow[n] <= 2 * d, 2 * d < Pow[n], LiesAt(data, p, d % Pow[n], n)
  PROVE  /\ Signed(p, n) \in Int
         /\ (d < 0 => n < WORD) => Signed(p, n) = d
<1> DEFINE P == Pow[n]
           w == Pow[n - 1]
           v == d % P
<1>0. n \in 1 .. NIBBLE /\ n \in 0 .. NIBBLE /\ n \in 1 .. n /\ n - 1 \in 0 .. NIBBLE
  BY NtfsAssumption
<1>1. P \in Nat \ {0} /\ w \in Nat \ {0} /\ P = BYTE * w
  BY <1>0, Powers, Zenon
<1>2. -P <= 2 * d /\ 2 * d < P /\ LiesAt(data, p, v, n)
  OBVIOUS
<1>3. data[p + n] = (v \div w) % BYTE
  BY <1>0 DEF LiesAt, LittleEndian
<1>4. Unsigned(p, n) = v % P \/ v \notin Nat
  BY <1>0, <1>2, UnsignedInverts, Zenon
<1>5. /\ v \in 0 .. P - 1 /\ v \in Nat /\ v \in Int
      /\ d >= 0 => v = d
      /\ d < 0 => v = d + P
  <2> HIDE DEF P, w
  <2>1. v \in 0 .. P - 1
    BY <1>1, Division, Zenon
  <2>2. (d \in 0 .. P - 1 => v = d) /\ (-P <= d /\ d < 0 => v = d + P)
    BY <1>1, SmallRemainder
  <2> HIDE DEF v
  <2> QED
    BY <1>1, <1>2, <2>1, <2>2
<1>6. Signed(p, n) = IF 2 * data[p + n] < BYTE THEN Unsigned(p, n)
                     ELSE IF n < WORD THEN Unsigned(p, n) - P ELSE -1
  BY Zenon DEF Signed
<1> HIDE DEF P, w, v
<1>7. v % P = v
  BY <1>1, <1>5, SmallRemainder, Zenon
<1>8. PICK h \in Nat : BYTE = 2 * h
  BY Byte
<1>9. h \in Nat \ {0}
  BY <1>8, Byte
<1>10. v < (2 * h) * w
  BY <1>1, <1>5, <1>8
<1>11. 2 * ((v \div w) % (2 * h)) < 2 * h <=> 2 * v < (2 * h) * w
  BY <1>1, <1>5, <1>9, <1>10, TopByte, Zenon
<1>12. 2 * data[p + n] < BYTE <=> 2 * v < P
  BY <1>1, <1>3, <1>8, <1>11, Zenon
<1>13. Unsigned(p, n) = v
  BY <1>4, <1>5, <1>7, Zenon
<1>14. Signed(p, n) = IF 2 * v < P THEN v ELSE IF n < WORD THEN v - P ELSE -1
  BY <1>6, <1>12, <1>13, Zenon
<1>15. Signed(p, n) \in Int
  BY <1>1, <1>5, <1>14
<1>16. (d < 0 => n < WORD) => Signed(p, n) = d
  BY <1>1, <1>2, <1>5, <1>14
<1> QED
  BY <1>15, <1>16

(* The packed form of a run, and of a list of runs. *)

\* u is s with t behind it.
Joined(u, s, t) ==
    /\ Len(u) = Len(s) + Len(t)
    /\ \A i \in 1 .. Len(s) : u[i] = s[i]
    /\ \A i \in 1 .. Len(t) : u[Len(s) + i] = t[i]

\* What joining two sequences gives.
LEMMA Concatenated ==
  ASSUME NEW V, NEW s \in Seq(V), NEW t \in Seq(V)
  PROVE  s \o t \in Seq(V) /\ Joined(s \o t, s, t)
BY DEF Joined

\* The bytes of a number.
LEMMA Bytes ==
  ASSUME NEW v \in Nat, NEW n \in 0 .. NIBBLE
  PROVE  LittleEndian(v, n) \in Seq(Nat) /\ Len(LittleEndian(v, n)) = n
<1>0. n \in Nat
  BY NtfsAssumption
<1>1. \A i \in 1 .. n : (v \div Pow[i - 1]) % BYTE \in Nat
  <2> SUFFICES ASSUME NEW i \in 1 .. n PROVE (v \div Pow[i - 1]) % BYTE \in Nat
    OBVIOUS
  <2> DEFINE w == Pow[i - 1]
  <2>1. w \in Nat \ {0}
    BY Powers, NtfsAssumption
  <2> HIDE DEF w
  <2>2. v \div w \in Nat
    BY <2>1
  <2>3. (v \div w) % BYTE \in Nat
    BY <2>2, Byte
  <2> QED
    BY <2>3 DEF w
<1> QED
  BY <1>0, <1>1 DEF LittleEndian

\* The sizes of a run's two numbers.
SizeBytes(r) == SizeLen(r.length)
OffsetBytes(r) == IF r.sparse THEN 0 ELSE OffsetLen(r.offset)

\* Both numbers fit in the bytes the header gives them, and the header gives
\* them back.
Sized(r) ==
    LET s == SizeBytes(r)
        o == OffsetBytes(r)
    IN  /\ s \in 1 .. WORD /\ r.length \in Nat /\ r.length < Pow[s]
        /\ o \in 0 .. WORD /\ r.offset \in Int
        /\ ~r.sparse => o > 0 /\ -Pow[o] <= 2 * r.offset /\ 2 * r.offset < Pow[o]
        /\ (o * NIBBLE + s) % NIBBLE = s /\ (o * NIBBLE + s) \div NIBBLE = o
        /\ o * NIBBLE + s \in Nat \ {0}

\* Every run has its sizes, and the header holds both.
LEMMA RunIsSized ==
  ASSUME NEW r \in DiskRuns
  PROVE  Sized(r)
<1> DEFINE s == SizeBytes(r)
           o == OffsetBytes(r)
           S == {k \in 1 .. WORD : r.length < Pow[k]}
           O == {k \in 1 .. WORD : -Pow[k] <= 2 * r.offset /\ 2 * r.offset < Pow[k]}
<1>0. WORD \in 1 .. WORD /\ WORD \in 0 .. NIBBLE /\ WORD < NIBBLE /\ NIBBLE \in Nat \ {0} /\ WORD \in Nat
  BY NtfsAssumption
<1>1. /\ r.length \in Nat /\ r.length < Pow[WORD] /\ r.offset \in Int
      /\ -Pow[WORD] <= 2 * r.offset /\ 2 * r.offset < Pow[WORD]
  <2>1. Pow[WORD] \in Nat
    BY <1>0, Powers
  <2> QED
    BY <2>1 DEF DiskRuns
<1>2. s \in S
  <2>1. S \in SUBSET Nat /\ S # {}
    BY <1>0, <1>1
  <2> HIDE DEF S
  <2>2. Min(S) \in S
    BY <2>1, MinIsLeast, Zenon
  <2> QED
    BY <2>2, Zenon DEF S, SizeBytes, SizeLen
<1>3. ~r.sparse => o \in O
  <2>1. O \in SUBSET Nat /\ O # {}
    BY <1>0, <1>1
  <2> HIDE DEF O
  <2>2. Min(O) \in O
    BY <2>1, MinIsLeast, Zenon
  <2> QED
    BY <2>2, Zenon DEF O, OffsetBytes, OffsetLen
<1>4. r.sparse => o = 0
  BY DEF OffsetBytes
<1>5. s \in 1 .. WORD /\ r.length < Pow[s]
  BY <1>2, Zenon
<1>6. ~r.sparse => o \in 1 .. WORD /\ -Pow[o] <= 2 * r.offset /\ 2 * r.offset < Pow[o]
  BY <1>3, Zenon
<1> HIDE DEF s, o, S, O
<1>7. o \in 0 .. WORD /\ (~r.sparse => o > 0)
  BY <1>0, <1>4, <1>6
<1>8. (o * NIBBLE + s) % NIBBLE = s /\ (o * NIBBLE + s) \div NIBBLE = o
  <2> DEFINE n == o * NIBBLE + s
  <2>1. n = NIBBLE * o + s /\ n \in Int /\ o \in Int /\ s \in 0 .. NIBBLE - 1
    BY <1>0, <1>5, <1>7
  <2> HIDE DEF n
  <2>2. n % NIBBLE = s /\ n \div NIBBLE = o
    BY <1>0, <2>1, DivisionIsUnique, Zenon
  <2> QED
    BY <2>2 DEF n
<1>9. o * NIBBLE + s \in Nat \ {0}
  <2>1. o * NIBBLE \in Nat
    BY <1>0, <1>7
  <2> QED
    BY <1>0, <1>5, <2>1
<1> QED
  BY <1>1, <1>5, <1>6, <1>7, <1>8, <1>9, Zenon DEF Sized, s, o

\* The header, the length and the distance of a packed run lie where the
\* decoder looks for them.
Laid(r) ==
    LET x == PackedRun(r)
        s == SizeBytes(r)
        o == OffsetBytes(r)
    IN  /\ x \in Seq(Nat) /\ Len(x) = 1 + s + o /\ x[1] = o * NIBBLE + s
        /\ LiesAt(x, 1, r.length, s) /\ LiesAt(x, 1 + s, r.offset % Pow[o], o)

\* Every run is packed that way.
LEMMA RunIsLaid ==
  ASSUME NEW r \in DiskRuns
  PROVE  Laid(r)
<1> DEFINE s == SizeBytes(r)
           o == OffsetBytes(r)
           a == <<o * NIBBLE + s>>
           b == LittleEndian(r.length, s)
           c == LittleEndian(r.offset % Pow[o], o)
<1>1. Sized(r)
  BY RunIsSized
<1>2. /\ s \in 1 .. WORD /\ r.length \in Nat /\ o \in 0 .. WORD /\ r.offset \in Int
      /\ o * NIBBLE + s \in Nat
  BY <1>1 DEF Sized
<1>3. PackedRun(r) = a \o b \o c
  BY Zenon DEF PackedRun, SizeBytes, OffsetBytes
<1> HIDE DEF s, o
<1>4. s \in 0 .. NIBBLE /\ o \in 0 .. NIBBLE /\ s \in Nat /\ o \in Nat
  BY <1>2, NtfsAssumption
<1>5. a \in Seq(Nat) /\ Len(a) = 1 /\ a[1] = o * NIBBLE + s
  BY <1>2
<1>6. b \in Seq(Nat) /\ Len(b) = s
  BY <1>2, <1>4, Bytes, Zenon
<1>7. c \in Seq(Nat) /\ Len(c) = o
  <2>1. Pow[o] \in Nat \ {0}
    BY <1>4, Powers
  <2>2. r.offset % Pow[o] \in Nat
    BY <1>2, <2>1
  <2> QED
    BY <1>4, <2>2, Bytes, Zenon
<1> DEFINE x == a \o b \o c
<1>8. /\ x \in Seq(Nat) /\ Len(x) = 1 + s + o /\ x[1] = a[1]
      /\ \A i \in 1 .. s : x[1 + i] = b[i]
      /\ \A i \in 1 .. o : x[1 + s + i] = c[i]
  <2> HIDE DEF a, b, c
  <2> DEFINE ab == a \o b
  <2>1. /\ ab \in Seq(Nat) /\ Len(ab) = 1 + s /\ ab[1] = a[1]
        /\ \A i \in 1 .. s : ab[1 + i] = b[i]
    <3>1. ab \in Seq(Nat) /\ Joined(ab, a, b)
      BY <1>5, <1>6, Concatenated, Zenon
    <3>2. 1 \in 1 .. 1
      OBVIOUS
    <3> QED
      BY <1>5, <1>6, <3>1, <3>2, Zenon DEF Joined
  <2> HIDE DEF ab
  <2>2. /\ ab \o c \in Seq(Nat) /\ Len(ab \o c) = 1 + s + o
        /\ \A i \in 1 .. 1 + s : (ab \o c)[i] = ab[i]
        /\ \A i \in 1 .. o : (ab \o c)[1 + s + i] = c[i]
    <3>1. ab \o c \in Seq(Nat) /\ Joined(ab \o c, ab, c)
      BY <1>7, <2>1, Concatenated, Zenon
    <3> QED
      BY <1>7, <2>1, <3>1, Zenon DEF Joined
  <2>3. 1 \in 1 .. 1 + s /\ \A i \in 1 .. s : 1 + i \in 1 .. 1 + s
    BY <1>4
  <2> QED
    BY <2>1, <2>2, <2>3, Zenon DEF ab
<1>9. LiesAt(x, 1, r.length, s) /\ LiesAt(x, 1 + s, r.offset % Pow[o], o)
  BY <1>8, Zenon DEF LiesAt
<1> QED
  BY <1>3, <1>5, <1>8, <1>9, Zenon DEF Laid, s, o

\* The packed forms of the beginnings of a list.
Packs(w, list) ==
    /\ w \in [0 .. Len(list) -> Seq(Nat)] /\ w[0] = << >>
    /\ \A k \in 1 .. Len(list) : w[k] = w[k - 1] \o PackedRun(list[k])

\* Packing a list is packing its runs, one behind the other.
LEMMA PackedSteps ==
  ASSUME NEW list \in Seq(DiskRuns)
  PROVE  Packs([k \in 0 .. Len(list) |-> PackedRuns(list, k)], list)
<1> DEFINE n == Len(list)
           S == Seq(Nat)
           st == [k \in 1 .. n |-> [x \in S |-> x \o PackedRun(list[k])]]
           IsPacked(f) == f = [k \in 0 .. n |-> IF k = 0 THEN << >> ELSE f[k - 1] \o PackedRun(list[k])]
           packed == CHOOSE f : IsPacked(f)
<1>0. n \in Nat /\ << >> \in S
  OBVIOUS
<1>1. \A k \in 1 .. n : PackedRun(list[k]) \in S
  <2> SUFFICES ASSUME NEW k \in 1 .. n PROVE PackedRun(list[k]) \in S
    OBVIOUS
  <2>1. list[k] \in DiskRuns
    OBVIOUS
  <2> QED
    BY <2>1, RunIsLaid, Zenon DEF Laid
<1> HIDE DEF n
<1>2. \A k \in 1 .. n : \A x \in S : x \o PackedRun(list[k]) \in S
  BY <1>1, Concatenated, Zenon
<1>3. st \in [1 .. n -> [S -> S]]
  <2> HIDE DEF S
  <2> QED
    BY <1>2
<1>4. PICK f \in [0 .. n -> S] : Iterates(f, << >>, n, st)
  <2> HIDE DEF S, st
  <2> QED
    BY <1>0, <1>3, FoldExists, Zenon
<1>5. IsPacked(f)
  <2>1. \A k \in 1 .. n : f[k - 1] \in S /\ st[k][f[k - 1]] = f[k - 1] \o PackedRun(list[k])
    <3>1. \A k \in 1 .. n : k - 1 \in 0 .. n
      BY <1>0
    <3> HIDE DEF S
    <3>2. \A k \in 1 .. n : f[k - 1] \in S
      BY <3>1, Zenon
    <3> QED
      BY <3>2, Zenon
  <2>2. \A k \in 0 .. n : k # 0 => k \in 1 .. n
    BY <1>0
  <2> HIDE DEF S, st
  <2>3. \A k \in 0 .. n : f[k] = IF k = 0 THEN << >> ELSE f[k - 1] \o PackedRun(list[k])
    BY <1>4, <2>1, <2>2, Zenon DEF Iterates
  <2> QED
    BY <2>3, Zenon
<1>6. IsPacked(packed)
  <2> HIDE DEF IsPacked
  <2> QED
    BY <1>5, Zenon
<1>7. \A k : packed[k] = PackedRuns(list, k)
  BY Zenon DEF PackedRuns, n
<1>8. packed[0] = << >> /\ \A k \in 1 .. n : packed[k] = packed[k - 1] \o PackedRun(list[k])
  <2> HIDE DEF packed
  <2>1. \A k \in 0 .. n : packed[k] = IF k = 0 THEN << >> ELSE packed[k - 1] \o PackedRun(list[k])
    BY <1>6, Zenon
  <2>2. 0 \in 0 .. n /\ \A k \in 1 .. n : k \in 0 .. n /\ k # 0
    BY <1>0
  <2> QED
    BY <2>1, <2>2, Zenon
<1> HIDE DEF packed, IsPacked
<1>9. \A k \in 0 .. n : packed[k] \in S
  <2>1. \A k \in 1 .. n : packed[k - 1] \in S => packed[k] \in S
    BY <1>2, <1>8, Zenon
  <2> HIDE DEF S
  <2> QED
    BY <1>0, <1>8, <2>1, Kept, Zenon
<1> DEFINE w == [k \in 0 .. n |-> PackedRuns(list, k)]
<1>10. \A k \in 0 .. n : w[k] = packed[k]
  BY <1>7
<1>11. w \in [0 .. n -> S]
  BY <1>7, <1>9, Zenon
<1>12. 0 \in 0 .. n /\ \A k \in 1 .. n : k \in 0 .. n /\ k - 1 \in 0 .. n
  BY <1>0
<1> HIDE DEF w
<1>13. w[0] = << >> /\ \A k \in 1 .. n : w[k] = w[k - 1] \o PackedRun(list[k])
  BY <1>8, <1>10, <1>12, Zenon
<1>14. Packs(w, list)
  BY <1>11, <1>13, Zenon DEF Packs, n
<1> QED
  BY <1>14 DEF w, n

\* Where each run of a list lies in its packed form.
LaidOut(list) ==
    /\ Packed(list) \in Seq(Nat) /\ Len(PackedRuns(list, 0)) = 0
    /\ \A k \in 0 .. Len(list) : Len(PackedRuns(list, k)) \in 0 .. Len(Packed(list))
    /\ \A k \in 0 .. Len(list) : \A j \in 0 .. k : Len(PackedRuns(list, j)) <= Len(PackedRuns(list, k))
    /\ \A k \in 1 .. Len(list) :
         /\ Len(PackedRuns(list, k)) = Len(PackedRuns(list, k - 1)) + Len(PackedRun(list[k]))
         /\ \A i \in 1 .. Len(PackedRun(list[k])) :
              Packed(list)[Len(PackedRuns(list, k - 1)) + i] = PackedRun(list[k])[i]

\* Every list is packed that way, by induction over the length of the beginning.
LEMMA ListIsLaidOut ==
  ASSUME NEW list \in Seq(DiskRuns)
  PROVE  LaidOut(list)
<1> DEFINE n == Len(list)
           w == [k \in 0 .. n |-> PackedRuns(list, k)]
           x == [k \in 1 .. n |-> PackedRun(list[k])]
<1>0. n \in Nat /\ n \in 0 .. n /\ 0 \in 0 .. n
  OBVIOUS
<1>1. /\ w \in [0 .. n -> Seq(Nat)] /\ w[0] = << >>
      /\ \A k \in 1 .. n : w[k] = w[k - 1] \o x[k]
  <2>1. Packs(w, list)
    BY PackedSteps
  <2>2. \A k \in 1 .. n : x[k] = PackedRun(list[k])
    OBVIOUS
  <2> HIDE DEF w, x
  <2> QED
    BY <2>1, <2>2, Zenon DEF Packs
<1>2. \A k \in 1 .. n : x[k] \in Seq(Nat)
  <2> SUFFICES ASSUME NEW k \in 1 .. n PROVE PackedRun(list[k]) \in Seq(Nat)
    BY Zenon
  <2>1. list[k] \in DiskRuns
    OBVIOUS
  <2> QED
    BY <2>1, RunIsLaid, Zenon DEF Laid
<1>3. \A k \in 0 .. n : w[k] = PackedRuns(list, k)
  OBVIOUS
<1>4. \A k \in 1 .. n : x[k] = PackedRun(list[k])
  OBVIOUS
<1> HIDE DEF w, x, n
<1>5. \A k \in 1 .. n : w[k - 1] \in Seq(Nat) /\ w[k] \in Seq(Nat) /\ Joined(w[k], w[k - 1], x[k])
  <2>1. \A k \in 1 .. n : k \in 0 .. n /\ k - 1 \in 0 .. n
    BY <1>0
  <2> QED
    BY <1>1, <1>2, <2>1, Concatenated, Zenon
<1>6. \A k \in 1 .. n : /\ Len(w[k]) \in Nat /\ Len(w[k - 1]) \in Nat /\ Len(x[k]) \in Nat
                        /\ Len(w[k]) = Len(w[k - 1]) + Len(x[k])
  <2>1. \A s \in Seq(Nat) : Len(s) \in Nat
    OBVIOUS
  <2> QED
    BY <1>2, <1>5, <2>1, Zenon DEF Joined
<1> DEFINE Holds(m) == \A k \in 1 .. m : /\ Len(w[k]) <= Len(w[m])
                                         /\ \A i \in 1 .. Len(x[k]) : w[m][Len(w[k - 1]) + i] = x[k][i]
           P == {m \in Nat : m <= n => Holds(m)}
<1>7. 0 \in P
  OBVIOUS
<1>8. ASSUME NEW m \in P PROVE m + 1 \in P
  <2>1. m \in Nat /\ m + 1 \in Nat /\ (m + 1) - 1 = m
    OBVIOUS
  <2>2. ASSUME m + 1 <= n PROVE Holds(m + 1)
    <3>1. m + 1 \in 1 .. n /\ m <= n
      BY <1>0, <2>1, <2>2
    <3>2. Holds(m)
      BY <3>1, Zenon
    <3> DEFINE u == w[m + 1]
               s == w[m]
               t == x[m + 1]
    <3>3. /\ Len(u) \in Nat /\ Len(s) \in Nat /\ Len(t) \in Nat /\ Len(u) = Len(s) + Len(t)
          /\ Joined(u, s, t)
      BY <1>5, <1>6, <2>1, <3>1, Zenon
    <3> HIDE DEF u, s, t
    <3>4. ASSUME NEW k \in 1 .. m + 1
          PROVE  /\ Len(w[k]) <= Len(u)
                 /\ \A i \in 1 .. Len(x[k]) : u[Len(w[k - 1]) + i] = x[k][i]
      <4>1. k \in 1 .. n
        BY <1>0, <2>1, <2>2
      <4>2. CASE k = m + 1
        <5>1. w[k] = u /\ w[k - 1] = s /\ x[k] = t
          BY <4>2, <2>1 DEF u, s, t
        <5>2. Len(u) <= Len(u)
          BY <3>3
        <5> QED
          BY <3>3, <5>1, <5>2, Zenon DEF Joined
      <4>3. CASE k # m + 1
        <5>1. k \in 1 .. m
          BY <2>1, <4>3
        <5>2. /\ Len(w[k]) <= Len(s)
              /\ \A i \in 1 .. Len(x[k]) : s[Len(w[k - 1]) + i] = x[k][i]
          BY <3>2, <5>1, Zenon DEF s
        <5>3. /\ Len(w[k]) \in Nat /\ Len(w[k - 1]) \in Nat /\ Len(x[k]) \in Nat
              /\ Len(w[k]) = Len(w[k - 1]) + Len(x[k])
          BY <1>6, <4>1, Zenon
        <5> DEFINE a == Len(w[k])
                   b == Len(w[k - 1])
                   c == Len(x[k])
                   e == Len(s)
        <5>6. /\ a \in Nat /\ b \in Nat /\ c \in Nat /\ e \in Nat /\ Len(u) \in Nat /\ e <= Len(u)
              /\ a = b + c /\ a <= e
          <6>1. Len(s) <= Len(u)
            BY <3>3
          <6> QED
            BY <3>3, <5>2, <5>3, <6>1, Zenon
        <5> HIDE DEF a, b, c, e
        <5>4. \A i \in 1 .. c : b + i \in 1 .. e
          BY <5>6
        <5>5. a <= Len(u)
          BY <5>6
        <5> USE DEF a, b, c, e
        <5> QED
          BY <3>3, <5>2, <5>4, <5>5, Zenon DEF Joined
      <4> QED
        BY <4>2, <4>3
    <3> QED
      BY <3>4 DEF u
  <2> HIDE DEF Holds
  <2> QED
    BY <2>1, <2>2
<1>9. P = Nat
  <2>1. P \in SUBSET Nat
    OBVIOUS
  <2> HIDE DEF P
  <2> QED
    BY <1>7, <1>8, <2>1, SetInduction
<1>10. \A m \in 0 .. n : Holds(m)
  <2>1. \A m \in 0 .. n : m \in Nat /\ m <= n
    BY <1>0
  <2> HIDE DEF Holds
  <2> QED
    BY <1>9, <2>1, Zenon
<1>11. w[n] = Packed(list)
  BY <1>0, <1>3, Zenon DEF Packed, n
<1>12. Len(w[0]) = 0 /\ w[n] \in Seq(Nat) /\ Len(w[n]) \in Nat
  BY <1>0, <1>1
<1>17. \A k \in 0 .. n : Len(w[k]) \in Nat
  <2>1. \A s \in Seq(Nat) : Len(s) \in Nat
    OBVIOUS
  <2> QED
    BY <1>1, <2>1, Zenon
<1>18. ASSUME NEW k \in 0 .. n, NEW j \in 0 .. k PROVE Len(w[j]) <= Len(w[k])
  <2>1. CASE j = 0
    <3>1. Len(w[k]) \in Nat
      BY <1>17
    <3>2. 0 <= Len(w[k])
      BY <3>1
    <3> QED
      BY <1>12, <2>1, <3>2, Zenon
  <2>2. CASE j # 0
    <3>1. j \in 1 .. k
      BY <1>0, <2>2
    <3> QED
      BY <1>10, <3>1, Zenon
  <2> QED
    BY <2>1, <2>2
<1>13. \A k \in 0 .. n : Len(w[k]) \in 0 .. Len(w[n])
  <2> SUFFICES ASSUME NEW k \in 0 .. n PROVE Len(w[k]) \in 0 .. Len(w[n])
    OBVIOUS
  <2>1. Len(w[k]) <= Len(w[n])
    BY <1>0, <1>18, Zenon
  <2>2. Len(w[k]) \in Nat /\ Len(w[n]) \in Nat
    BY <1>0, <1>17, Zenon
  <2> QED
    BY <2>1, <2>2
<1>14. \A k \in 1 .. n : k \in 0 .. n /\ k - 1 \in 0 .. n
  BY <1>0
<1>15. /\ Packed(list) \in Seq(Nat) /\ Len(PackedRuns(list, 0)) = 0
       /\ \A k \in 0 .. n : Len(PackedRuns(list, k)) \in 0 .. Len(Packed(list))
  BY <1>0, <1>3, <1>11, <1>12, <1>13, Zenon
<1>16. ASSUME NEW k \in 1 .. n
       PROVE  /\ Len(PackedRuns(list, k)) = Len(PackedRuns(list, k - 1)) + Len(PackedRun(list[k]))
              /\ \A i \in 1 .. Len(PackedRun(list[k])) :
                   Packed(list)[Len(PackedRuns(list, k - 1)) + i] = PackedRun(list[k])[i]
  <2>1. /\ w[k] = PackedRuns(list, k) /\ w[k - 1] = PackedRuns(list, k - 1)
        /\ x[k] = PackedRun(list[k])
    BY <1>3, <1>4, <1>14, Zenon
  <2>2. /\ Len(w[k]) = Len(w[k - 1]) + Len(x[k])
        /\ \A i \in 1 .. Len(x[k]) : w[n][Len(w[k - 1]) + i] = x[k][i]
    BY <1>0, <1>6, <1>10, Zenon
  <2> QED
    BY <1>11, <2>1, <2>2, Zenon
<1>19. ASSUME NEW k \in 0 .. n, NEW j \in 0 .. k
       PROVE  Len(PackedRuns(list, j)) <= Len(PackedRuns(list, k))
  <2>1. j \in 0 .. n
    BY <1>0
  <2> QED
    BY <1>3, <1>18, <2>1, Zenon
<1> QED
  BY <1>15, <1>16, <1>19, Zenon DEF LaidOut, n

(* parse_run_list. *)

\* A decoded run is that of the format; its distance may be wrong only if it is
\* negative and as wide as a word.
NarrowRun(r) == r.offset < 0 => OffsetLen(r.offset) < WORD
DecodesTo(x, r) ==
    /\ x.length = r.length
    /\ NarrowRun(r) => x.offset = IF r.sparse THEN 0 ELSE r.offset

DecodedList == [length : Nat, offset : Int]

\* The attribute holds kept bytes of the packed form of a list.
Holding(list, kept) ==
    /\ list \in Seq(DiskRuns) /\ kept \in 0 .. Len(Packed(list)) + 1
    /\ file = list /\ data = SubSeq(Append(Packed(list), 0), 1, kept)

\* parse_run_list has decoded the first of the runs and stands behind them.
Decoding(list, kept) ==
    /\ Holding(list, kept)
    /\ runs \in Seq(DecodedList) /\ Len(runs) <= Len(list)
    /\ \A i \in 1 .. Len(runs) : DecodesTo(runs[i], list[i])
    /\ pos = Len(PackedRuns(list, Len(runs))) /\ pos <= kept

\* The bytes of the attribute.
LEMMA DataBytes ==
  ASSUME NEW list, NEW kept, Holding(list, kept)
  PROVE  /\ kept \in Nat /\ Len(data) = kept
         /\ \A i \in 1 .. kept : data[i] = IF i <= Len(Packed(list)) THEN Packed(list)[i] ELSE 0
<1> DEFINE x == Packed(list)
<1>1. x \in Seq(Nat)
  <2>1. LaidOut(list)
    BY ListIsLaidOut, Zenon DEF Holding
  <2> QED
    BY <2>1, Zenon DEF LaidOut
<1>2. kept \in 0 .. Len(x) + 1 /\ data = SubSeq(Append(x, 0), 1, kept)
  BY Zenon DEF Holding
<1> HIDE DEF x
<1> DEFINE y == Append(x, 0)
<1>3. y \in Seq(Nat) /\ Len(y) = Len(x) + 1 /\ \A i \in 1 .. Len(x) : y[i] = x[i]
  BY <1>1
<1>4. y[Len(x) + 1] = 0 /\ Len(x) \in Nat
  BY <1>1
<1> HIDE DEF y
<1>5. Len(data) = kept /\ \A i \in 1 .. kept : data[i] = y[i]
  BY <1>2, <1>3, <1>4 DEF y
<1>6. kept \in Nat
  BY <1>2, <1>4
<1>7. \A i \in 1 .. kept : (i <= Len(x) => i \in 1 .. Len(x)) /\ (~(i <= Len(x)) => i = Len(x) + 1)
  BY <1>2, <1>4
<1>8. \A i \in 1 .. kept : data[i] = IF i <= Len(x) THEN x[i] ELSE 0
  BY <1>3, <1>4, <1>5, <1>7, Zenon
<1> QED
  BY <1>5, <1>6, <1>8 DEF x

\* The run behind the ones decoded fits if and only if it lies in the attribute,
\* and its numbers are then those of the format.
NextRun(list, kept) ==
    LET k == Len(runs)
        r == list[k + 1]
        s == SizeBytes(r)
        o == OffsetBytes(r)
    IN  /\ RunFits <=> Len(PackedRuns(list, k + 1)) <= kept
        /\ RunFits => /\ size_len = s /\ offset_len = o
                      /\ Len(PackedRuns(list, k + 1)) = pos + 1 + s + o
                      /\ LiesAt(data, pos + 1, r.length, s)
                      /\ LiesAt(data, pos + 1 + s, r.offset % Pow[o], o)

\* RunFits looks at the header of the next run, and nowhere else.
LEMMA NextRunFits ==
  ASSUME NEW list, NEW kept, Decoding(list, kept), Len(runs) < Len(list)
  PROVE  NextRun(list, kept)
<1> DEFINE k == Len(runs)
           r == list[k + 1]
           s == SizeBytes(r)
           o == OffsetBytes(r)
           x == PackedRun(r)
           n == Len(PackedRuns(list, k + 1))
<1>0. list \in Seq(DiskRuns) /\ runs \in Seq(DecodedList) /\ pos = Len(PackedRuns(list, k)) /\ pos <= kept
  BY Zenon DEF Decoding, Holding
<1>1. k + 1 \in 1 .. Len(list) /\ r \in DiskRuns /\ k \in 0 .. Len(list) /\ (k + 1) - 1 = k
  BY <1>0
<1>2. LaidOut(list) /\ Laid(r) /\ Sized(r)
  BY <1>0, <1>1, ListIsLaidOut, RunIsLaid, RunIsSized, Zenon
<1>3. /\ kept \in Nat /\ Len(data) = kept
      /\ \A i \in 1 .. kept : data[i] = IF i <= Len(Packed(list)) THEN Packed(list)[i] ELSE 0
  <2>1. Holding(list, kept)
    BY Zenon DEF Decoding
  <2> QED
    BY <2>1, DataBytes, Zenon
<1>4. /\ Len(x) = 1 + s + o /\ x[1] = o * NIBBLE + s
      /\ LiesAt(x, 1, r.length, s) /\ LiesAt(x, 1 + s, r.offset % Pow[o], o)
  BY <1>2, Zenon DEF Laid
<1>5. /\ s \in 1 .. WORD /\ o \in 0 .. WORD /\ (o * NIBBLE + s) % NIBBLE = s
      /\ (o * NIBBLE + s) \div NIBBLE = o /\ o * NIBBLE + s \in Nat \ {0}
  BY <1>2, Zenon DEF Sized
<1>6. /\ n = pos + Len(x) /\ n \in 0 .. Len(Packed(list)) /\ pos \in 0 .. Len(Packed(list))
      /\ \A i \in 1 .. Len(x) : Packed(list)[pos + i] = x[i]
  <2>1. k + 1 \in 0 .. Len(list)
    BY <1>1
  <2>2. /\ n = Len(PackedRuns(list, (k + 1) - 1)) + Len(x)
        /\ \A i \in 1 .. Len(x) : Packed(list)[Len(PackedRuns(list, (k + 1) - 1)) + i] = x[i]
    <3> HIDE DEF k
    <3> QED
      BY <1>1, <1>2, Zenon DEF LaidOut
  <2>3. n \in 0 .. Len(Packed(list)) /\ Len(PackedRuns(list, k)) \in 0 .. Len(Packed(list))
    BY <1>1, <1>2, <2>1, Zenon DEF LaidOut
  <2> QED
    BY <1>0, <1>1, <2>2, <2>3, Zenon
<1>7. Len(Packed(list)) \in Nat
  <2>1. Packed(list) \in Seq(Nat)
    BY <1>2, Zenon DEF LaidOut
  <2> QED
    BY <2>1
<1>8. s \in Nat /\ o \in Nat /\ 1 <= s /\ pos \in Nat
  BY <1>5, <1>6, <1>7, NtfsAssumption
<1> HIDE DEF r, s, o, x, n, k
<1>9. \A i \in 1 .. 1 + s + o : pos + i <= kept => data[pos + i] = x[i]
  <2> SUFFICES ASSUME NEW i \in 1 .. 1 + s + o, pos + i <= kept PROVE data[pos + i] = x[i]
    OBVIOUS
  <2> DEFINE j == pos + i
  <2>1. j \in 1 .. kept /\ j <= Len(Packed(list))
    BY <1>3, <1>4, <1>6, <1>7, <1>8
  <2>2. Packed(list)[j] = x[i]
    BY <1>4, <1>6, Zenon
  <2> HIDE DEF j
  <2>3. data[j] = x[i]
    BY <1>3, <2>1, <2>2, Zenon
  <2> QED
    BY <2>3 DEF j
<1>10. pos < kept => header = o * NIBBLE + s
  <2>1. 1 \in 1 .. 1 + s + o /\ (pos < kept => pos + 1 <= kept)
    BY <1>3, <1>8
  <2> QED
    BY <1>4, <1>9, <2>1, Zenon DEF header
<1>11. pos < kept => header # 0 /\ size_len = s /\ offset_len = o
  BY <1>5, <1>10, Zenon DEF size_len, offset_len
<1>12. pos < kept => size_len # 0
  BY <1>8, <1>11
<1>13. RunFits <=> pos < kept /\ pos + 1 + s + o <= kept
  BY <1>3, <1>11, <1>12, Zenon DEF RunFits
<1>14. n = pos + 1 + s + o
  BY <1>4, <1>6, <1>8
<1>15. RunFits <=> n <= kept
  BY <1>3, <1>8, <1>13, <1>14
<1>16. ASSUME RunFits
       PROVE  LiesAt(data, pos + 1, r.length, s) /\ LiesAt(data, pos + 1 + s, r.offset % Pow[o], o)
  <2>1. \A i \in 1 .. 1 + s + o : data[pos + i] = x[i]
    <3>1. \A i \in 1 .. 1 + s + o : pos + i <= kept
      BY <1>3, <1>8, <1>13, <1>16
    <3> QED
      BY <1>9, <3>1, Zenon
  <2>2. \A i \in 1 .. s : 1 + i \in 1 .. 1 + s + o /\ pos + (1 + i) = pos + 1 + i
    BY <1>8
  <2>3. \A i \in 1 .. o : 1 + s + i \in 1 .. 1 + s + o /\ pos + (1 + s + i) = pos + 1 + s + i
    BY <1>8
  <2>4. \A i \in 1 .. s : data[pos + 1 + i] = x[1 + i]
    BY <2>1, <2>2, Zenon
  <2>5. \A i \in 1 .. o : data[pos + 1 + s + i] = x[1 + s + i]
    BY <2>1, <2>3, Zenon
  <2> QED
    BY <1>4, <2>4, <2>5, Zenon DEF LiesAt
<1> QED
  BY <1>11, <1>13, <1>14, <1>15, <1>16, Zenon DEF NextRun, k, r, s, o, n

\* Nothing follows the last run.
LEMMA NoMoreRuns ==
  ASSUME NEW list, NEW kept, Decoding(list, kept), ~(Len(runs) < Len(list))
  PROVE  ~RunFits
<1>0. list \in Seq(DiskRuns) /\ runs \in Seq(DecodedList) /\ Len(runs) <= Len(list)
  BY Zenon DEF Decoding, Holding
<1>1. Len(runs) = Len(list)
  BY <1>0
<1>2. pos = Len(Packed(list)) /\ Holding(list, kept)
  BY <1>1, Zenon DEF Decoding, Packed
<1>3. /\ kept \in Nat /\ Len(data) = kept
      /\ \A i \in 1 .. kept : data[i] = IF i <= Len(Packed(list)) THEN Packed(list)[i] ELSE 0
  BY <1>2, DataBytes, Zenon
<1>4. pos \in Nat
  <2>1. Packed(list) \in Seq(Nat)
    BY <1>0, ListIsLaidOut, Zenon DEF LaidOut
  <2> QED
    BY <1>2, <2>1
<1>5. pos < kept => pos + 1 \in 1 .. kept /\ ~(pos + 1 <= pos)
  BY <1>3, <1>4
<1>6. pos < kept => header = 0
  BY <1>2, <1>3, <1>5, Zenon DEF header
<1> QED
  BY <1>3, <1>6, Zenon DEF RunFits

\* The run parse_run_list appends.
ParsedRun == [length |-> Unsigned(pos + 1, size_len),
              offset |-> IF offset_len = 0 THEN 0 ELSE Signed(pos + 1 + size_len, offset_len)]

\* The run it appends is the next run of the list.
LEMMA RunIsDecoded ==
  ASSUME NEW list, NEW kept, Decoding(list, kept), Len(runs) < Len(list), RunFits
  PROVE  ParsedRun \in DecodedList /\ DecodesTo(ParsedRun, list[Len(runs) + 1])
<1> DEFINE r == list[Len(runs) + 1]
           s == SizeBytes(r)
           o == OffsetBytes(r)
           p == pos + 1
           q == pos + 1 + s
<1>1. r \in DiskRuns
  <2>1. list \in Seq(DiskRuns) /\ runs \in Seq(DecodedList)
    BY Zenon DEF Decoding, Holding
  <2> QED
    BY <2>1
<1>2. Sized(r)
  BY <1>1, RunIsSized, Zenon
<1>3. /\ size_len = s /\ offset_len = o
      /\ LiesAt(data, p, r.length, s) /\ LiesAt(data, q, r.offset % Pow[o], o)
  BY NextRunFits, Zenon DEF NextRun
<1>4. /\ s \in 1 .. WORD /\ r.length \in Nat /\ r.length < Pow[s]
      /\ o \in 0 .. WORD /\ r.offset \in Int
      /\ ~r.sparse => o > 0 /\ -Pow[o] <= 2 * r.offset /\ 2 * r.offset < Pow[o]
  BY <1>2, Zenon DEF Sized
<1>5. (r.sparse <=> o = 0) /\ (~r.sparse => o = OffsetLen(r.offset))
  <2>1. r.sparse => o = 0
    BY DEF OffsetBytes
  <2>2. ~r.sparse => o = OffsetLen(r.offset)
    BY DEF OffsetBytes
  <2>3. o > 0 => o # 0
    BY <1>4
  <2> QED
    BY <1>4, <2>1, <2>2, <2>3, Zenon
<1>6. pos \in Nat
  <2>1. /\ LaidOut(list) /\ pos = Len(PackedRuns(list, Len(runs)))
        /\ list \in Seq(DiskRuns) /\ runs \in Seq(DecodedList)
    BY ListIsLaidOut, Zenon DEF Decoding, Holding
  <2>2. Len(runs) \in 0 .. Len(list)
    BY <2>1
  <2>3. pos \in 0 .. Len(Packed(list)) /\ Packed(list) \in Seq(Nat)
    BY <2>1, <2>2, Zenon DEF LaidOut
  <2> QED
    BY <2>3
<1> HIDE DEF r, s, o
<1>7. p \in Nat /\ q \in Nat /\ s \in 0 .. NIBBLE
  BY <1>4, <1>6, NtfsAssumption
<1> HIDE DEF p, q
<1>8. Unsigned(p, s) = r.length
  <2>1. Unsigned(p, s) = r.length % Pow[s]
    BY <1>3, <1>4, <1>7, UnsignedInverts, Zenon
  <2>2. Pow[s] \in Nat \ {0}
    BY <1>7, Powers
  <2> DEFINE P == Pow[s]
             d == r.length
  <2>3. P \in Nat \ {0} /\ d \in 0 .. P - 1 /\ d \in Int
    BY <1>4, <2>2
  <2> HIDE DEF P, d
  <2>4. d % P = d
    BY <2>3, SmallRemainder, Zenon
  <2> QED
    BY <2>1, <2>4, Zenon DEF P, d
<1>9. ~r.sparse => /\ Signed(q, o) \in Int
                   /\ NarrowRun(r) => Signed(q, o) = r.offset
  <2> SUFFICES ASSUME ~r.sparse
               PROVE  Signed(q, o) \in Int /\ (NarrowRun(r) => Signed(q, o) = r.offset)
    OBVIOUS
  <2> DEFINE d == r.offset
  <2>1. o \in 1 .. WORD
    BY <1>4, NtfsAssumption
  <2>2. d \in Int /\ -Pow[o] <= 2 * d /\ 2 * d < Pow[o] /\ LiesAt(data, q, d % Pow[o], o)
    BY <1>3, <1>4, Zenon
  <2>3. NarrowRun(r) => (d < 0 => o < WORD)
    BY <1>5, Zenon DEF NarrowRun
  <2> HIDE DEF d
  <2>4. Signed(q, o) \in Int /\ ((d < 0 => o < WORD) => Signed(q, o) = d)
    BY <1>7, <2>1, <2>2, SignedInverts, Zenon
  <2> QED
    BY <2>3, <2>4, Zenon DEF d
<1>10. ParsedRun = [length |-> r.length, offset |-> IF r.sparse THEN 0 ELSE Signed(q, o)]
  BY <1>3, <1>5, <1>8, Zenon DEF ParsedRun, p, q
<1> DEFINE z == IF r.sparse THEN 0 ELSE Signed(q, o)
<1>11. z \in Int /\ (NarrowRun(r) => z = IF r.sparse THEN 0 ELSE r.offset)
  <2>1. 0 \in Int
    OBVIOUS
  <2> QED
    BY <1>9, <2>1, Zenon
<1> HIDE DEF z
<1>12. ParsedRun = [length |-> r.length, offset |-> z]
  BY <1>10 DEF z
<1>13. ParsedRun \in DecodedList
  BY <1>4, <1>11, <1>12 DEF DecodedList
<1>14. DecodesTo(ParsedRun, r)
  BY <1>11, <1>12 DEF DecodesTo
<1> QED
  BY <1>13, <1>14 DEF r

\* One iteration.
LEMMA RunStep ==
  ASSUME NEW list, NEW kept, Decoding(list, kept), parse_run
  PROVE  Decoding(list, kept)'
<1>0. RunFits
  BY Zenon DEF parse_run
<1>1. Len(runs) < Len(list)
  BY <1>0, NoMoreRuns, Zenon
<1>2. ParsedRun \in DecodedList /\ DecodesTo(ParsedRun, list[Len(runs) + 1])
  BY <1>0, <1>1, RunIsDecoded, Zenon
<1>3. /\ runs' = Append(runs, ParsedRun) /\ pos' = pos + 1 + size_len + offset_len
      /\ file' = file /\ data' = data
  BY Zenon DEF parse_run, ParsedRun
<1>4. Holding(list, kept)'
  BY <1>3, Zenon DEF Decoding, Holding
<1>5. /\ list \in Seq(DiskRuns) /\ runs \in Seq(DecodedList)
      /\ \A i \in 1 .. Len(runs) : DecodesTo(runs[i], list[i])
  BY Zenon DEF Decoding, Holding
<1>6. /\ runs' \in Seq(DecodedList) /\ Len(runs') = Len(runs) + 1 /\ Len(runs') <= Len(list)
      /\ runs'[Len(runs) + 1] = ParsedRun /\ \A i \in 1 .. Len(runs) : runs'[i] = runs[i]
  BY <1>1, <1>2, <1>3, <1>5
<1>7. \A i \in 1 .. Len(runs') : DecodesTo(runs'[i], list[i])
  <2>1. \A i \in 1 .. Len(runs) + 1 : i = Len(runs) + 1 \/ i \in 1 .. Len(runs)
    BY <1>5
  <2> QED
    BY <1>2, <1>5, <1>6, <2>1, Zenon
<1>8. pos' = Len(PackedRuns(list, Len(runs) + 1)) /\ pos' <= kept
  BY <1>0, <1>1, <1>3, NextRunFits, Zenon DEF NextRun
<1> QED
  BY <1>4, <1>6, <1>7, <1>8, Zenon DEF Decoding

\* The runs of a list that lie wholly in its first bytes.
Whole(list, kept) == Max({k \in 0 .. Len(list) : Len(PackedRuns(list, k)) <= kept})

\* The loop ends behind the last run that is all there.
LEMMA RunsAreWhole ==
  ASSUME NEW list, NEW kept, Decoding(list, kept), ~RunFits
  PROVE  Len(runs) = Whole(list, kept)
<1> DEFINE n == Len(list)
           k == Len(runs)
           T == {j \in 0 .. n : Len(PackedRuns(list, j)) <= kept}
<1>0. /\ list \in Seq(DiskRuns) /\ runs \in Seq(DecodedList) /\ k <= n
      /\ Len(PackedRuns(list, k)) <= kept /\ Holding(list, kept)
  BY Zenon DEF Decoding, Holding
<1>1. n \in Nat /\ k \in 0 .. n
  BY <1>0
<1>2. LaidOut(list)
  BY <1>0, ListIsLaidOut, Zenon
<1>3. k \in T
  BY <1>0, <1>1, Zenon
<1>4. \A j \in T : j <= k
  <2> SUFFICES ASSUME NEW j \in T, ~(j <= k) PROVE FALSE
    OBVIOUS
  <2>1. j \in 0 .. n /\ Len(PackedRuns(list, j)) <= kept
    BY Zenon
  <2>2. k < n /\ k + 1 \in 0 .. j /\ k + 1 \in 0 .. n
    <3> HIDE DEF k, n
    <3> QED
      BY <1>1, <2>1
  <2>3. ~(Len(PackedRuns(list, k + 1)) <= kept)
    BY <2>2, NextRunFits, Zenon DEF NextRun
  <2>4. Len(PackedRuns(list, k + 1)) <= Len(PackedRuns(list, j))
    BY <1>2, <2>1, <2>2, Zenon DEF LaidOut
  <2>5. Len(PackedRuns(list, k + 1)) \in Nat /\ Len(PackedRuns(list, j)) \in Nat
    <3>1. Packed(list) \in Seq(Nat)
      BY <1>2, Zenon DEF LaidOut
    <3>2. \A i \in 0 .. Len(Packed(list)) : i \in Nat
      BY <3>1
    <3> QED
      BY <1>2, <2>1, <2>2, <3>2, Zenon DEF LaidOut
  <2>6. kept \in Nat
    BY <1>0, DataBytes, Zenon
  <2> DEFINE a == Len(PackedRuns(list, k + 1))
             b == Len(PackedRuns(list, j))
  <2>7. a \in Nat /\ b \in Nat /\ a <= b /\ ~(a <= kept) /\ b <= kept
    BY <2>1, <2>3, <2>4, <2>5, Zenon
  <2> HIDE DEF a, b
  <2> QED
    BY <2>6, <2>7
<1>5. T \in SUBSET (0 .. n) /\ T # {}
  BY <1>3
<1>6. Whole(list, kept) = Max(T)
  BY Zenon DEF Whole
<1> HIDE DEF T, n, k
<1>7. Max(T) \in T /\ k <= Max(T)
  BY <1>1, <1>3, <1>5, MaxIsGreatest, Zenon
<1>8. Max(T) <= k /\ Max(T) \in 0 .. n
  BY <1>4, <1>5, <1>7, Zenon
<1>9. Max(T) = k
  BY <1>1, <1>7, <1>8
<1> QED
  BY <1>6, <1>9 DEF k

(* The attributes of a record. *)

\* An attribute that claims a size has that of its parts.
LEMMA AttributeSizes ==
  ASSUME NEW a \in DiskAttributes
  PROVE  /\ total_size(a) \in Nat /\ NameBytes(a) \in Nat
         /\ total_size(a) # 0 =>
              /\ HEADER + NameBytes(a) <= total_size(a) /\ HEADER <= total_size(a)
              /\ ~a.non_resident => content_offset(a) + a.content_size = total_size(a)
<1>1. a.name_length \in Nat /\ a.content_size \in Nat /\ a.kept \in Nat
  BY DEF DiskAttributes
<1> QED
  BY <1>1 DEF total_size, NameBytes, HEADER, NON_RESIDENT_HEADER, content_offset, run_offset

\* The attributes follow one another.
LaidInRecord(f) ==
    /\ f \in [1 .. Len(record) + 1 -> Nat] /\ f[1] = ATTRS_OFFSET
    /\ \A k \in 1 .. Len(record) : f[k + 1] = f[k] + total_size(record[k])

\* Starts adds up the sizes of the attributes in front.
LEMMA StartsStep ==
  ASSUME record \in Seq(DiskAttributes)
  PROVE  LaidInRecord([k \in 1 .. Len(record) + 1 |-> Starts(k)])
<1> DEFINE n == Len(record)
           st == [k \in 1 .. n |-> [x \in Nat |-> x + total_size(record[k])]]
           IsEnds(f) == f = [k \in 0 .. n |-> IF k = 0 THEN ATTRS_OFFSET
                                              ELSE f[k - 1] + total_size(record[k])]
           ends == CHOOSE f : IsEnds(f)
<1>0. n \in Nat /\ ATTRS_OFFSET \in Nat
  BY RecordsAssumption
<1>1. \A k \in 1 .. n : total_size(record[k]) \in Nat
  <2>1. \A k \in 1 .. n : record[k] \in DiskAttributes
    OBVIOUS
  <2> QED
    BY <2>1, AttributeSizes, Zenon
<1> HIDE DEF n
<1>2. st \in [1 .. n -> [Nat -> Nat]]
  <2>1. \A k \in 1 .. n : \A x \in Nat : x + total_size(record[k]) \in Nat
    BY <1>1
  <2> QED
    BY <2>1, Zenon
<1>3. PICK f \in [0 .. n -> Nat] : Iterates(f, ATTRS_OFFSET, n, st)
  <2> HIDE DEF st
  <2> QED
    BY <1>0, <1>2, FoldExists, Zenon
<1>4. IsEnds(f)
  <2>1. \A k \in 1 .. n : f[k - 1] \in Nat /\ st[k][f[k - 1]] = f[k - 1] + total_size(record[k])
    BY <1>0
  <2>2. \A k \in 0 .. n : k # 0 => k \in 1 .. n
    BY <1>0
  <2> HIDE DEF st
  <2>3. \A k \in 0 .. n : f[k] = IF k = 0 THEN ATTRS_OFFSET ELSE f[k - 1] + total_size(record[k])
    BY <1>3, <2>1, <2>2, Zenon DEF Iterates
  <2> QED
    BY <2>3
<1>5. IsEnds(ends)
  <2> HIDE DEF IsEnds
  <2> QED
    BY <1>4, Zenon
<1>6. \A k : ends[k - 1] = Starts(k)
  BY Zenon DEF Starts, n
<1>7. ends[0] = ATTRS_OFFSET /\ \A k \in 1 .. n : ends[k] = ends[k - 1] + total_size(record[k])
  <2> HIDE DEF ends
  <2>1. \A k \in 0 .. n : ends[k] = IF k = 0 THEN ATTRS_OFFSET ELSE ends[k - 1] + total_size(record[k])
    BY <1>5, Zenon
  <2>2. 0 \in 0 .. n /\ \A k \in 1 .. n : k \in 0 .. n /\ k # 0
    BY <1>0
  <2> QED
    BY <2>1, <2>2, Zenon
<1> HIDE DEF ends, IsEnds
<1>8. \A k \in 0 .. n : ends[k] \in Nat
  <2>1. \A k \in 1 .. n : ends[k - 1] \in Nat => ends[k] \in Nat
    BY <1>1, <1>7
  <2> QED
    BY <1>0, <1>7, <2>1, Kept, Zenon
<1> DEFINE g == [k \in 1 .. n + 1 |-> Starts(k)]
<1>9. \A k \in 1 .. n + 1 : g[k] = ends[k - 1] /\ k - 1 \in 0 .. n
  BY <1>0, <1>6
<1>10. \A k \in 1 .. n + 1 : g[k] \in Nat
  BY <1>8, <1>9, Zenon
<1>11. /\ 1 \in 1 .. n + 1 /\ 1 - 1 = 0
       /\ \A k \in 1 .. n : k \in 1 .. n + 1 /\ k + 1 \in 1 .. n + 1 /\ (k + 1) - 1 = k
  BY <1>0
<1>12. g[1] = ATTRS_OFFSET
  BY <1>7, <1>9, <1>11, Zenon
<1>13. ASSUME NEW k \in 1 .. n PROVE g[k + 1] = g[k] + total_size(record[k])
  <2>1. g[k + 1] = ends[k] /\ g[k] = ends[k - 1]
    BY <1>9, <1>11, Zenon
  <2> QED
    BY <1>7, <2>1, Zenon
<1>14. g \in [1 .. n + 1 -> Nat]
  BY <1>10, Zenon
<1> HIDE DEF g
<1>15. LaidInRecord(g)
  BY <1>12, <1>13, <1>14, Zenon DEF LaidInRecord, n
<1> QED
  BY <1>15 DEF g, n

\* The same in terms of Starts.
LEMMA StartsFacts ==
  ASSUME record \in Seq(DiskAttributes)
  PROVE  /\ \A k \in 1 .. Len(record) + 1 : Starts(k) \in Nat
         /\ Starts(1) = ATTRS_OFFSET
         /\ \A k \in 1 .. Len(record) : Starts(k + 1) = Starts(k) + total_size(record[k])
<1> DEFINE n == Len(record)
           g == [k \in 1 .. n + 1 |-> Starts(k)]
<1>1. LaidInRecord(g)
  BY StartsStep
<1>2. 1 \in 1 .. n + 1 /\ \A k \in 1 .. n : k \in 1 .. n + 1 /\ k + 1 \in 1 .. n + 1
  OBVIOUS
<1>3. \A k \in 1 .. n + 1 : g[k] = Starts(k)
  OBVIOUS
<1> HIDE DEF g
<1> QED
  BY <1>1, <1>2, <1>3, Zenon DEF LaidInRecord

\* The first n attributes have a size and lie in the buffer.
InBuffer(n) == \A j \in 1 .. n : total_size(record[j]) # 0 /\ Starts(j + 1) <= length

\* The walk finds the attribute behind the ones it has taken, or the end.
LEMMA NextAttribute ==
  ASSUME record \in Seq(DiskAttributes), NEW n \in 0 .. Len(record), InBuffer(n)
  PROVE  AttributeAt(Starts(n + 1)) = IF n < Len(record) THEN {record[n + 1]} ELSE {}
<1> DEFINE m == Len(record)
           At(o) == {j \in DOMAIN record : Starts(j) = o /\ \A i \in 1 .. j - 1 : Starts(i) # o}
<1>0. m \in Nat /\ n \in Nat /\ n <= m /\ DOMAIN record = 1 .. m
  OBVIOUS
<1>1. /\ \A k \in 1 .. m + 1 : Starts(k) \in Nat
      /\ \A k \in 1 .. m : Starts(k + 1) = Starts(k) + total_size(record[k])
  BY StartsFacts
<1>2. \A k \in 1 .. m : total_size(record[k]) \in Nat
  <2>1. \A k \in 1 .. m : record[k] \in DiskAttributes
    OBVIOUS
  <2> QED
    BY <2>1, AttributeSizes, Zenon
<1> HIDE DEF m
<1> DEFINE Before(k) == \A i \in 1 .. k : Starts(i) < Starts(k + 1)
           P == {k \in Nat : k <= n => Before(k)}
<1>3. 0 \in P
  OBVIOUS
<1>4. ASSUME NEW k \in P PROVE k + 1 \in P
  <2>1. k \in Nat /\ k + 1 \in Nat
    OBVIOUS
  <2>2. ASSUME k + 1 <= n PROVE Before(k + 1)
    <3>1. k + 1 \in 1 .. m /\ k + 1 \in 1 .. n /\ k <= n
      BY <1>0, <2>1, <2>2
    <3> DEFINE a == Starts(k + 1)
               b == Starts((k + 1) + 1)
               t == total_size(record[k + 1])
    <3>2. b = a + t /\ t \in Nat /\ t # 0
      BY <1>1, <1>2, <3>1, Zenon DEF InBuffer
    <3>3. a \in Nat
      BY <1>0, <1>1, <3>1
    <3>4. \A i \in 1 .. k : Starts(i) < a
      BY <3>1
    <3>5. \A i \in 1 .. k + 1 : Starts(i) \in Nat /\ (i \in 1 .. k \/ i = k + 1)
      <4>1. \A i \in 1 .. k + 1 : i \in 1 .. m + 1 /\ (i \in 1 .. k \/ i = k + 1)
        BY <1>0, <2>1, <3>1
      <4> QED
        BY <1>1, <4>1, Zenon
    <3> HIDE DEF a, b, t
    <3>6. a < b
      BY <3>2, <3>3
    <3>7. ASSUME NEW i \in 1 .. k + 1 PROVE Starts(i) < b
      <4>1. CASE i = k + 1
        BY <3>6, <4>1 DEF a
      <4>2. CASE i \in 1 .. k
        <5> DEFINE c == Starts(i)
        <5>1. c \in Nat /\ c < a
          BY <3>4, <3>5, <4>2, Zenon
        <5> HIDE DEF c
        <5>2. c < b
          BY <3>2, <3>3, <5>1
        <5> QED
          BY <5>2 DEF c
      <4> QED
        BY <3>5, <4>1, <4>2, Zenon
    <3> QED
      BY <3>7, Zenon DEF b
  <2> HIDE DEF Before
  <2> QED
    BY <2>1, <2>2
<1>5. P = Nat
  <2>1. P \in SUBSET Nat
    OBVIOUS
  <2> HIDE DEF P
  <2> QED
    BY <1>3, <1>4, <2>1, SetInduction
<1>6. \A i \in 1 .. n : Starts(i) # Starts(n + 1)
  <2>1. n <= n
    BY <1>0
  <2>2. Before(n)
    <3> HIDE DEF Before
    <3> QED
      BY <1>0, <1>5, <2>1, Zenon
  <2>3. \A i \in 1 .. n + 1 : Starts(i) \in Nat
    BY <1>0, <1>1
  <2>4. \A x, y \in Nat : x < y => x # y
    OBVIOUS
  <2>5. n + 1 \in 1 .. n + 1 /\ \A i \in 1 .. n : i \in 1 .. n + 1
    BY <1>0
  <2> QED
    BY <2>2, <2>3, <2>4, <2>5, Zenon
<1>7. AttributeAt(Starts(n + 1)) = {record[k] : k \in At(Starts(n + 1))}
  BY Zenon DEF AttributeAt
<1>8. CASE n < m
  <2>1. n + 1 \in 1 .. m /\ (n + 1) - 1 = n
    BY <1>0, <1>8
  <2>2. n + 1 \in At(Starts(n + 1))
    BY <1>0, <1>6, <2>1, Zenon
  <2>3. ASSUME NEW j \in At(Starts(n + 1)) PROVE j = n + 1
    <3>1. j \in 1 .. m /\ Starts(j) = Starts(n + 1) /\ \A i \in 1 .. j - 1 : Starts(i) # Starts(n + 1)
      BY <1>0, Zenon
    <3>2. ~(n + 1 \in 1 .. j - 1) /\ ~(j \in 1 .. n)
      BY <1>6, <3>1, Zenon
    <3> QED
      BY <1>0, <3>1, <3>2
  <2>4. At(Starts(n + 1)) = {n + 1}
    <3> HIDE DEF At
    <3> QED
      BY <2>2, <2>3, Zenon
  <2> HIDE DEF At
  <2> QED
    BY <1>7, <1>8, <2>4 DEF m
<1>9. CASE ~(n < m)
  <2>1. \A j \in 1 .. m : j \in 1 .. n
    BY <1>0, <1>9
  <2>2. At(Starts(n + 1)) = {}
    <3> SUFFICES ASSUME NEW j \in At(Starts(n + 1)) PROVE FALSE
      BY Zenon
    <3>1. j \in 1 .. m /\ Starts(j) = Starts(n + 1)
      BY <1>0, Zenon
    <3> QED
      BY <1>6, <2>1, <3>1, Zenon
  <2> HIDE DEF At
  <2> QED
    BY <1>7, <1>9, <2>2 DEF m
<1> QED
  BY <1>8, <1>9

(* parse_mft_record. *)

ParsedAttributes ==
    [attr_type : AttributeTypes, named : BOOLEAN, resident_data : Seq(Nat),
     run_list : Seq(DecodedList), data_size : Nat]

\* The runs of a parsed attribute are those of the format that are all there.
Lists(list, a) ==
    /\ Len(list) = Whole(a.runs, a.kept)
    /\ \A i \in 1 .. Len(list) : DecodesTo(list[i], a.runs[i])

\* A parsed attribute is that of the format, up to the distances of its runs.
Parses(x, a) ==
    /\ x \in ParsedAttributes
    /\ x.attr_type = a.attr_type /\ x.named = (a.name_length > 0)
    /\ x.resident_data = (IF a.non_resident THEN << >> ELSE <<a.content_size>>)
    /\ x.data_size = (IF a.non_resident THEN a.data_size ELSE a.content_size)
    /\ IF a.non_resident THEN Lists(x.run_list, a) ELSE x.run_list = << >>

\* The attributes taken so far are the first of the record, and the walk stands
\* behind them.
Taken ==
    /\ record \in Seq(DiskAttributes) /\ length \in Nat
    /\ attributes \in Seq(ParsedAttributes) /\ Len(attributes) <= Len(record)
    /\ InBuffer(Len(attributes)) /\ offset = Starts(Len(attributes) + 1)
    /\ \A j \in 1 .. Len(attributes) : Parses(attributes[j], record[j])

\* The next attribute is a, which has a size and lies in the buffer.
Following(a) ==
    /\ Len(attributes) < Len(record) /\ a = record[Len(attributes) + 1]
    /\ total_size(a) # 0 /\ offset + total_size(a) <= length

\* Attribute a is taken if and only if it is the next one and all there.
LEMMA TakesNext ==
  ASSUME Taken, NEW a
  PROVE  /\ a \in AttributeAt(offset) <=> Len(attributes) < Len(record) /\ a = record[Len(attributes) + 1]
         /\ Following(a) => a \in DiskAttributes /\ Takes(a)
         /\ a \in AttributeAt(offset) /\ Takes(a) => Following(a)
<1> DEFINE n == Len(attributes)
<1>0. record \in Seq(DiskAttributes) /\ attributes \in Seq(ParsedAttributes) /\ n <= Len(record)
  BY Zenon DEF Taken
<1>1. n \in 0 .. Len(record)
  BY <1>0
<1>2. a \in AttributeAt(offset) <=> n < Len(record) /\ a = record[n + 1]
  <2>1. AttributeAt(Starts(n + 1)) = IF n < Len(record) THEN {record[n + 1]} ELSE {}
    <3> HIDE DEF n
    <3>1. InBuffer(n)
      BY Zenon DEF Taken, n
    <3> QED
      BY <1>0, <1>1, <3>1, NextAttribute, Zenon
  <2>2. offset = Starts(n + 1)
    BY Zenon DEF Taken
  <2> QED
    BY <2>1, <2>2
<1>3. n < Len(record) => record[n + 1] \in DiskAttributes
  BY <1>0
<1>4. offset \in Nat /\ length \in Nat
  <2>1. n + 1 \in 1 .. Len(record) + 1
    BY <1>0, <1>1
  <2> QED
    BY <1>0, <2>1, StartsFacts, Zenon DEF Taken
<1>5. ASSUME Following(a) PROVE a \in DiskAttributes /\ Takes(a)
  <2>1. /\ a \in DiskAttributes /\ a \in AttributeAt(offset)
        /\ total_size(a) # 0 /\ offset + total_size(a) <= length
    BY <1>2, <1>3, <1>5, Zenon DEF Following
  <2>2. total_size(a) \in Nat /\ HEADER <= total_size(a)
    BY <2>1, AttributeSizes, Zenon
  <2>3. offset + 4 < length /\ offset + HEADER <= length
    BY <1>4, <2>1, <2>2 DEF HEADER
  <2> QED
    BY <2>1, <2>3, Zenon DEF Takes, Fits
<1>6. ASSUME a \in AttributeAt(offset), Takes(a) PROVE Following(a)
  BY <1>2, <1>6, Zenon DEF Following, Takes, Fits
<1> QED
  BY <1>2, <1>5, <1>6, Zenon

\* An attribute that is all there is parsed to what the format says.
LEMMA AttributeIsParsed ==
  ASSUME Taken, NEW a, Following(a), NEW list \in Seq(DecodedList),
         IF a.non_resident THEN Lists(list, a) ELSE list = << >>
  PROVE  Parses(Attribute(a, list), a)
<1> DEFINE x == Attribute(a, list)
<1>1. a \in DiskAttributes
  BY TakesNext, Zenon
<1>2. /\ a.attr_type \in AttributeTypes /\ a.name_length \in Nat /\ a.non_resident \in BOOLEAN
      /\ a.content_size \in Nat /\ a.data_size \in Nat
  BY <1>1 DEF DiskAttributes
<1>3. total_size(a) # 0 /\ offset + total_size(a) <= length
  BY Zenon DEF Following
<1>4. /\ total_size(a) \in Nat /\ HEADER + NameBytes(a) <= total_size(a) /\ NameBytes(a) \in Nat
      /\ ~a.non_resident => content_offset(a) + a.content_size = total_size(a)
  BY <1>1, <1>3, AttributeSizes, Zenon
<1>5. offset \in Nat
  <2>0. /\ record \in Seq(DiskAttributes) /\ attributes \in Seq(ParsedAttributes)
        /\ Len(attributes) <= Len(record)
    BY Zenon DEF Taken
  <2>1. Len(attributes) + 1 \in 1 .. Len(record) + 1
    BY <2>0
  <2> QED
    BY <2>0, <2>1, StartsFacts, Zenon DEF Taken
<1>6. content_offset(a) \in Nat
  BY <1>4 DEF content_offset, HEADER
<1>7. ~a.non_resident => offset + content_offset(a) + a.content_size <= length
  BY <1>2, <1>3, <1>4, <1>5, <1>6
<1>8. x = [attr_type |-> a.attr_type, named |-> a.name_length > 0,
           resident_data |-> IF a.non_resident THEN << >> ELSE <<a.content_size>>,
           run_list |-> list,
           data_size |-> IF a.non_resident THEN a.data_size ELSE a.content_size]
  <2>1. (a.name_length > 0 /\ HEADER + NameBytes(a) <= total_size(a)) = (a.name_length > 0)
    BY <1>2, <1>4
  <2>2. (IF ~a.non_resident /\ offset + content_offset(a) + a.content_size <= length
         THEN <<a.content_size>> ELSE << >>) = IF a.non_resident THEN << >> ELSE <<a.content_size>>
    BY <1>7, Zenon
  <2> QED
    BY <2>1, <2>2, Zenon DEF Attribute
<1> HIDE DEF x
<1> DEFINE e == IF a.non_resident THEN << >> ELSE <<a.content_size>>
           z == IF a.non_resident THEN a.data_size ELSE a.content_size
<1>9. e \in Seq(Nat) /\ z \in Nat /\ (a.name_length > 0) \in BOOLEAN
  BY <1>2
<1> HIDE DEF e, z
<1>10. x = [attr_type |-> a.attr_type, named |-> a.name_length > 0, resident_data |-> e,
            run_list |-> list, data_size |-> z]
  BY <1>8, Zenon DEF e, z
<1>11. x \in ParsedAttributes
  BY <1>2, <1>9, <1>10, Zenon DEF ParsedAttributes
<1>12. /\ x.attr_type = a.attr_type /\ x.named = (a.name_length > 0) /\ x.resident_data = e
       /\ x.run_list = list /\ x.data_size = z
  BY <1>10, Zenon
<1>13. Parses(x, a)
  BY <1>11, <1>12, Zenon DEF Parses, e, z
<1> QED
  BY <1>13 DEF x

\* Taking it moves the walk behind it.
LEMMA TakenStep ==
  ASSUME Taken, NEW a, Following(a), NEW x, Parses(x, a),
         attributes' = Append(attributes, x), offset' = offset + total_size(a),
         record' = record, length' = length
  PROVE  Taken'
<1> DEFINE n == Len(attributes)
<1>0. /\ record \in Seq(DiskAttributes) /\ attributes \in Seq(ParsedAttributes) /\ n < Len(record)
      /\ length \in Nat /\ a = record[n + 1] /\ x \in ParsedAttributes
  BY Zenon DEF Taken, Following, Parses
<1>1. n + 1 \in 1 .. Len(record) /\ n \in Nat
  BY <1>0
<1>2. /\ attributes' \in Seq(ParsedAttributes) /\ Len(attributes') = n + 1 /\ Len(attributes') <= Len(record)
      /\ attributes'[n + 1] = x /\ \A i \in 1 .. n : attributes'[i] = attributes[i]
  BY <1>0
<1>3. Starts((n + 1) + 1) = Starts(n + 1) + total_size(a)
  <2> HIDE DEF n
  <2> QED
    BY <1>0, <1>1, StartsFacts, Zenon
<1>4. offset' = Starts((n + 1) + 1)
  BY <1>3, Zenon DEF Taken
<1>5. \A i \in 1 .. n + 1 : i = n + 1 \/ i \in 1 .. n
  BY <1>1
<1>6. InBuffer(n + 1)
  <2>1. total_size(record[n + 1]) # 0 /\ Starts((n + 1) + 1) <= length
    BY <1>0, <1>3, Zenon DEF Taken, Following
  <2> QED
    BY <1>5, <2>1, Zenon DEF Taken, InBuffer
<1>7. \A j \in 1 .. n + 1 : Parses(attributes'[j], record[j])
  BY <1>0, <1>2, <1>5, Zenon DEF Taken
<1> HIDE DEF n
<1>8. \A k : Starts(k)' = Starts(k)
  BY Zenon DEF Starts
<1>9. InBuffer(Len(attributes))'
  BY <1>2, <1>6, <1>8, Zenon DEF InBuffer
<1> QED
  BY <1>0, <1>2, <1>4, <1>7, <1>8, <1>9, Zenon DEF Taken

(* The invariant of the walk. *)

WalkInv ==
    /\ Taken
    /\ pc \in {"inode", "read", "done"} => Len(attributes) = WholeAttributes
    /\ pc \in {"parse", "parsed"} =>
         \E a : Following(a) /\ a.non_resident /\ Decoding(a.runs, a.kept)
    /\ pc = "parsed" => ~RunFits

\* What does not touch the record and its attributes keeps what is known of
\* them.
LEMMA WalkKept ==
  ASSUME UNCHANGED walk
  PROVE  /\ Taken => Taken'
         /\ WholeAttributes' = WholeAttributes /\ Len(attributes)' = Len(attributes)
         /\ \A a : Following(a) => Following(a)'
<1>1. record' = record /\ length' = length /\ attributes' = attributes /\ offset' = offset
  BY Zenon DEF walk
<1>2. \A k : Starts(k)' = Starts(k)
  BY <1>1, Zenon DEF Starts
<1>3. \A k : InBuffer(k)' <=> InBuffer(k)
  BY <1>1, <1>2, Zenon DEF InBuffer
<1>4. Taken => Taken'
  BY <1>1, <1>2, <1>3, Zenon DEF Taken
<1>5. WholeAttributes' = WholeAttributes
  BY <1>1, <1>2, Zenon DEF WholeAttributes
<1>6. \A a : Following(a) => Following(a)'
  BY <1>1, Zenon DEF Following
<1> QED
  BY <1>1, <1>4, <1>5, <1>6, Zenon

\* Nothing is taken at first.
LEMMA InitWalk == Init => WalkInv
<1> SUFFICES ASSUME Init PROVE WalkInv
  OBVIOUS
<1>1. record \in Seq(DiskAttributes) /\ length \in Nat /\ attributes = << >> /\ offset = ATTRS_OFFSET
  BY RecordsAssumption, Zenon DEF Init
<1>2. /\ attributes \in Seq(ParsedAttributes) /\ Len(attributes) = 0 /\ 0 <= Len(record) /\ 0 + 1 = 1
      /\ 1 .. 0 = {}
  BY <1>1
<1>3. Starts(1) = ATTRS_OFFSET
  BY <1>1, StartsFacts, Zenon
<1>4. InBuffer(0)
  BY <1>2, Zenon DEF InBuffer
<1>5. Taken
  BY <1>1, <1>2, <1>3, <1>4, Zenon DEF Taken
<1>6. pc = "begin"
  BY Zenon DEF Init
<1> QED
  BY <1>5, <1>6 DEF WalkInv

\* The first attribute that is not taken is not all there.
LEMMA WalkEnds ==
  ASSUME Taken, \A a \in AttributeAt(offset) : ~Takes(a)
  PROVE  Len(attributes) = WholeAttributes
<1> DEFINE n == Len(attributes)
           m == Len(record)
           T == {k \in 0 .. m : InBuffer(k)}
<1>0. /\ record \in Seq(DiskAttributes) /\ attributes \in Seq(ParsedAttributes) /\ n <= m
      /\ InBuffer(n) /\ offset = Starts(n + 1)
  BY Zenon DEF Taken
<1>1. m \in Nat /\ n \in 0 .. m
  BY <1>0
<1>2. n \in T
  BY <1>0, <1>1, Zenon
<1>3. \A k \in T : k <= n
  <2> SUFFICES ASSUME NEW k \in T, ~(k <= n) PROVE FALSE
    OBVIOUS
  <2>0. k \in 0 .. m /\ InBuffer(k)
    BY Zenon
  <2>1. n + 1 \in 1 .. k /\ n + 1 \in 1 .. m /\ n < m
    <3> HIDE DEF n, m
    <3> QED
      BY <1>1, <2>0
  <2> DEFINE a == record[n + 1]
  <2>2. total_size(a) # 0 /\ Starts((n + 1) + 1) <= length
    BY <2>0, <2>1, Zenon DEF InBuffer
  <2>3. Starts((n + 1) + 1) = offset + total_size(a)
    <3> HIDE DEF n
    <3> QED
      BY <1>0, <2>1, StartsFacts, Zenon
  <2>4. Following(a)
    BY <2>1, <2>2, <2>3, Zenon DEF Following
  <2> HIDE DEF a
  <2>5. a \in AttributeAt(offset) /\ Takes(a)
    BY <2>4, TakesNext, Zenon DEF Following
  <2> QED
    BY <2>5, Zenon
<1>4. T \in SUBSET (0 .. m) /\ T # {}
  BY <1>2
<1>5. WholeAttributes = Max(T)
  BY Zenon DEF WholeAttributes, InBuffer
<1> HIDE DEF T, n, m
<1>6. Max(T) \in T /\ n <= Max(T)
  BY <1>1, <1>2, <1>4, MaxIsGreatest, Zenon
<1>7. Max(T) <= n /\ Max(T) \in 0 .. m
  BY <1>3, <1>4, <1>6, Zenon
<1>8. Max(T) = n
  BY <1>1, <1>6, <1>7
<1> QED
  BY <1>5, <1>8 DEF n

\* The actions of the walk.
LEMMA WalkStep == WalkInv /\ Walk => WalkInv'
<1> SUFFICES ASSUME WalkInv, Walk PROVE WalkInv'
  OBVIOUS
<1>0. Taken
  BY Zenon DEF WalkInv
<1>1. CASE parse_mft_record
  <2>1. Taken' /\ pc' \in {"refused", "walk"}
    BY <1>0, <1>1, WalkKept, Zenon DEF parse_mft_record
  <2> QED
    BY <2>1 DEF WalkInv
<1>2. CASE walk_resident
  <2>1. PICK a \in AttributeAt(offset) :
            /\ Takes(a) /\ ~a.non_resident
            /\ attributes' = Append(attributes, Attribute(a, << >>))
            /\ offset' = offset + total_size(a)
    BY <1>2, Zenon DEF walk_resident
  <2>2. Following(a)
    BY <1>0, <2>1, TakesNext, Zenon
  <2>3. << >> \in Seq(DecodedList)
    OBVIOUS
  <2>4. Parses(Attribute(a, << >>), a)
    BY <1>0, <2>1, <2>2, <2>3, AttributeIsParsed, Zenon
  <2>5. record' = record /\ length' = length /\ pc' = "walk"
    BY <1>2, Zenon DEF walk_resident
  <2>6. Taken'
    BY <1>0, <2>1, <2>2, <2>4, <2>5, TakenStep, Zenon
  <2> QED
    BY <2>5, <2>6 DEF WalkInv
<1>3. CASE walk_runs
  <2>1. PICK a \in AttributeAt(offset) :
            /\ Takes(a) /\ a.non_resident
            /\ file' = a.runs
            /\ data' = SubSeq(Append(Packed(a.runs), 0), 1, a.kept)
    BY <1>3, Zenon DEF walk_runs
  <2>2. Following(a) /\ a \in DiskAttributes
    BY <1>0, <2>1, TakesNext, Zenon
  <2>3. pos' = 0 /\ runs' = << >> /\ pc' = "parse" /\ UNCHANGED walk
    BY <1>3, Zenon DEF walk_runs
  <2>4. Taken' /\ Following(a)'
    BY <1>0, <2>2, <2>3, WalkKept, Zenon
  <2>5. a.runs \in Seq(DiskRuns) /\ a.kept \in Nat /\ a.kept <= Len(Packed(a.runs)) + 1
    BY <2>2 DEF DiskAttributes
  <2>6. LaidOut(a.runs)
    BY <2>5, ListIsLaidOut, Zenon
  <2>7. Packed(a.runs) \in Seq(Nat) /\ Len(PackedRuns(a.runs, 0)) = 0
    BY <2>6, Zenon DEF LaidOut
  <2>8. a.kept \in 0 .. Len(Packed(a.runs)) + 1 /\ 0 <= a.kept /\ 0 <= Len(a.runs)
    BY <2>5, <2>7
  <2>9. << >> \in Seq(DecodedList) /\ Len(<< >>) = 0 /\ 1 .. 0 = {}
    OBVIOUS
  <2>10. Decoding(a.runs, a.kept)'
    BY <2>1, <2>3, <2>5, <2>7, <2>8, <2>9, Zenon DEF Decoding, Holding
  <2> QED
    BY <2>1, <2>3, <2>4, <2>10 DEF WalkInv
<1>4. CASE walk_parsed
  <2>1. pc = "parsed" /\ record' = record /\ length' = length /\ pc' = "walk"
    BY <1>4, Zenon DEF walk_parsed
  <2>2. PICK a : Following(a) /\ a.non_resident /\ Decoding(a.runs, a.kept)
    BY <2>1 DEF WalkInv
  <2>3. ~RunFits
    BY <2>1 DEF WalkInv
  <2>4. Len(runs) = Whole(a.runs, a.kept)
    BY <2>2, <2>3, RunsAreWhole, Zenon
  <2>5. runs \in Seq(DecodedList) /\ Lists(runs, a)
    BY <2>2, <2>4, Zenon DEF Lists, Decoding
  <2>6. Parses(Attribute(a, runs), a)
    BY <1>0, <2>2, <2>5, AttributeIsParsed, Zenon
  <2>7. PICK b \in AttributeAt(offset) : /\ attributes' = Append(attributes, Attribute(b, runs))
                                         /\ offset' = offset + total_size(b)
    BY <1>4, Zenon DEF walk_parsed
  <2>8. b = a
    BY <1>0, <2>2, <2>7, TakesNext, Zenon DEF Following
  <2>9. Taken'
    BY <1>0, <2>1, <2>2, <2>6, <2>7, <2>8, TakenStep, Zenon
  <2> QED
    BY <2>1, <2>9 DEF WalkInv
<1>5. CASE from_mft_record
  <2>1. \A a \in AttributeAt(offset) : ~Takes(a)
    BY <1>5, Zenon DEF from_mft_record
  <2>2. Len(attributes) = WholeAttributes
    BY <1>0, <2>1, WalkEnds, Zenon
  <2>3. record' = record /\ length' = length /\ attributes' = attributes /\ offset' = offset /\ pc' = "inode"
    BY <1>5, Zenon DEF from_mft_record
  <2>4. \A k : Starts(k)' = Starts(k)
    BY <2>3, Zenon DEF Starts
  <2>5. Len(attributes)' = WholeAttributes'
    BY <2>2, <2>3, <2>4, Zenon DEF WholeAttributes
  <2>6. InBuffer(Len(attributes))' <=> InBuffer(Len(attributes))
    BY <2>3, <2>4, Zenon DEF InBuffer
  <2>7. Taken'
    BY <1>0, <2>3, <2>4, <2>6, Zenon DEF Taken
  <2> QED
    BY <2>3, <2>5, <2>7 DEF WalkInv
<1> QED
  BY <1>1, <1>2, <1>3, <1>4, <1>5, Zenon DEF Walk

\* The loops leave the attributes alone, and parse_run_list decodes the runs
\* of the next one.
LEMMA LoopsKeepWalk == WalkInv /\ Loops /\ UNCHANGED walk => WalkInv'
<1> SUFFICES ASSUME WalkInv, Loops, UNCHANGED walk PROVE WalkInv'
  OBVIOUS
<1>0. /\ Taken' /\ WholeAttributes' = WholeAttributes /\ Len(attributes)' = Len(attributes)
      /\ \A a : Following(a) => Following(a)'
  BY WalkKept, Zenon DEF WalkInv
<1>1. CASE parse_run
  <2>1. pc = "parse" /\ pc' = "parse"
    BY <1>1, Zenon DEF parse_run
  <2>2. PICK a : Following(a) /\ a.non_resident /\ Decoding(a.runs, a.kept)
    BY <2>1 DEF WalkInv
  <2>3. Decoding(a.runs, a.kept)'
    BY <1>1, <2>2, RunStep, Zenon
  <2>4. Following(a)'
    BY <1>0, <2>2, Zenon
  <2> QED
    BY <1>0, <2>1, <2>2, <2>3, <2>4 DEF WalkInv
<1>2. CASE parse_end
  <2>1. pc = "parse" /\ pc' = "parsed" /\ ~RunFits /\ UNCHANGED parser
    BY <1>2, Zenon DEF parse_end
  <2>2. PICK a : Following(a) /\ a.non_resident /\ Decoding(a.runs, a.kept)
    BY <2>1 DEF WalkInv
  <2>3. file' = file /\ data' = data /\ pos' = pos /\ runs' = runs
    BY <2>1, Zenon DEF parser
  <2>4. Decoding(a.runs, a.kept)'
    BY <2>2, <2>3, Zenon DEF Decoding, Holding
  <2>5. ~RunFits'
    BY <2>1, <2>3, Zenon DEF RunFits, header, size_len, offset_len
  <2>6. Following(a)'
    BY <1>0, <2>2, Zenon
  <2> QED
    BY <1>0, <2>1, <2>2, <2>4, <2>5, <2>6 DEF WalkInv
<1>3. CASE read_run
  <2>1. pc = "read" /\ pc' \in {"read", "done"}
    BY <1>3 DEF read_run
  <2> QED
    BY <1>0, <2>1 DEF WalkInv
<1>4. CASE read_end
  <2>1. pc = "read" /\ pc' = "done"
    BY <1>4 DEF read_end
  <2> QED
    BY <1>0, <2>1 DEF WalkInv
<1> QED
  BY <1>1, <1>2, <1>3, <1>4, Zenon DEF Loops

\* A read leaves the inode alone.
LEMMA ReadsKeepWalk ==
  ASSUME WalkInv, NEW o, NEW n, read_resident(o, n) \/ read_runs(o, n) \/ read_nothing
  PROVE  WalkInv'
<1>1. UNCHANGED walk /\ pc = "inode" /\ pc' \in {"read", "done", "refused"}
  BY DEF read_resident, read_runs, read_nothing, read_from_runs
<1>2. Taken' /\ WholeAttributes' = WholeAttributes /\ Len(attributes)' = Len(attributes)
  BY <1>1, WalkKept, Zenon DEF WalkInv
<1> QED
  BY <1>1, <1>2 DEF WalkInv

\* So does a step that changes nothing.
LEMMA StutterKeepsWalk == WalkInv /\ UNCHANGED vars => WalkInv'
<1> SUFFICES ASSUME WalkInv, UNCHANGED vars PROVE WalkInv'
  OBVIOUS
<1>1. UNCHANGED walk /\ pc' = pc /\ file' = file /\ data' = data /\ pos' = pos /\ runs' = runs
  BY Zenon DEF vars, runs_vars, parser
<1>2. /\ Taken' /\ WholeAttributes' = WholeAttributes /\ Len(attributes)' = Len(attributes)
      /\ \A a : Following(a) => Following(a)'
  BY <1>1, WalkKept, Zenon DEF WalkInv
<1>3. \A a : Decoding(a.runs, a.kept) => Decoding(a.runs, a.kept)'
  BY <1>1, Zenon DEF Decoding, Holding
<1>4. RunFits' <=> RunFits
  BY <1>1, Zenon DEF RunFits, header, size_len, offset_len
<1> QED
  BY <1>1, <1>2, <1>3, <1>4, Zenon DEF WalkInv

\* The invariant holds throughout.
LEMMA WalkIsInvariant == Spec => []WalkInv
<1>1. WalkInv /\ [Next]_vars => WalkInv'
  BY WalkStep, LoopsKeepWalk, ReadsKeepWalk, StutterKeepsWalk, Zenon DEF Next
<1> QED
  BY <1>1, InitWalk, PTL DEF Spec

\* The runs that lie wholly in an attribute are among its runs.
LEMMA WholeRuns ==
  ASSUME NEW a \in DiskAttributes
  PROVE  Whole(a.runs, a.kept) \in 0 .. Len(a.runs) /\ a.runs \in Seq(DiskRuns)
<1> DEFINE T == {k \in 0 .. Len(a.runs) : Len(PackedRuns(a.runs, k)) <= a.kept}
<1>1. a.runs \in Seq(DiskRuns) /\ a.kept \in Nat
  BY DEF DiskAttributes
<1>2. LaidOut(a.runs)
  BY <1>1, ListIsLaidOut, Zenon
<1>3. Len(a.runs) \in Nat /\ 0 \in 0 .. Len(a.runs) /\ 0 <= a.kept
  BY <1>1
<1>4. 0 \in T
  BY <1>2, <1>3, Zenon DEF LaidOut
<1>5. T \in SUBSET (0 .. Len(a.runs)) /\ T # {}
  BY <1>4, Zenon
<1> HIDE DEF T
<1>6. Max(T) \in T
  BY <1>3, <1>5, MaxIsGreatest, Zenon
<1> QED
  BY <1>1, <1>5, <1>6, Zenon DEF Whole, T

\* A parsed attribute without wide distances is what the format says.
LEMMA ParsesExpected ==
  ASSUME NEW a \in DiskAttributes, NEW x, Parses(x, a), \A i \in DOMAIN a.runs : NarrowRun(a.runs[i])
  PROVE  x = Expected(a)
<1> DEFINE n == Whole(a.runs, a.kept)
           e == [i \in 1 .. n |-> [length |-> a.runs[i].length,
                                   offset |-> IF a.runs[i].sparse THEN 0 ELSE a.runs[i].offset]]
<1>1. n \in 0 .. Len(a.runs) /\ a.runs \in Seq(DiskRuns)
  BY WholeRuns, Zenon
<1>2. DecodedRuns(a.runs, a.kept) = e
  BY Zenon DEF DecodedRuns, Whole
<1> HIDE DEF n
<1>3. a.non_resident => x.run_list = e
  <2> SUFFICES ASSUME a.non_resident PROVE x.run_list = e
    OBVIOUS
  <2> DEFINE l == x.run_list
  <2>1. l \in Seq(DecodedList)
    BY DEF Parses, ParsedAttributes
  <2>2. Len(l) = n /\ \A i \in 1 .. n : DecodesTo(l[i], a.runs[i])
    BY Zenon DEF Parses, Lists, n
  <2> HIDE DEF l
  <2>3. \A i \in 1 .. n : i \in DOMAIN a.runs
    BY <1>1
  <2>4. ASSUME NEW i \in 1 .. n PROVE l[i] = e[i]
    <3>1. l[i] \in DecodedList
      BY <1>1, <2>1, <2>2
    <3>2. l[i] = [length |-> l[i].length, offset |-> l[i].offset]
      BY <3>1 DEF DecodedList
    <3>3. /\ l[i].length = a.runs[i].length
          /\ l[i].offset = IF a.runs[i].sparse THEN 0 ELSE a.runs[i].offset
      BY <2>2, <2>3, Zenon DEF DecodesTo
    <3> QED
      BY <3>2, <3>3, Zenon
  <2>5. l = [i \in 1 .. n |-> l[i]]
    BY <2>1, <2>2
  <2>6. l = e
    BY <2>4, <2>5, Zenon
  <2> QED
    BY <2>6 DEF l
<1> HIDE DEF e
<1>4. x = [attr_type |-> x.attr_type, named |-> x.named, resident_data |-> x.resident_data,
           run_list |-> x.run_list, data_size |-> x.data_size]
  <2>1. x \in ParsedAttributes
    BY Zenon DEF Parses
  <2> QED
    BY <2>1 DEF ParsedAttributes
<1>5. /\ x.attr_type = a.attr_type /\ x.named = (a.name_length > 0)
      /\ x.resident_data = (IF a.non_resident THEN << >> ELSE <<a.content_size>>)
      /\ x.data_size = (IF a.non_resident THEN a.data_size ELSE a.content_size)
      /\ x.run_list = IF a.non_resident THEN e ELSE << >>
  BY <1>3, Zenon DEF Parses
<1> QED
  BY <1>2, <1>4, <1>5, Zenon DEF Expected

\* For every record of the format, every length of the buffer and every size of
\* a byte and a word, parse_mft_record and parse_run_list invert the layout: the
\* attributes they find are, in their order and with their names, contents and
\* runs, those that lie wholly in the buffer (ntfs.rs 483-644).
THEOREM LayoutIsInverted == Spec => []RecordInvertsLayout
<1>1. WalkInv => RecordInvertsLayout
  <2> SUFFICES ASSUME WalkInv, Narrow PROVE Inverted
    BY Zenon DEF RecordInvertsLayout
  <2>1. /\ record \in Seq(DiskAttributes) /\ attributes \in Seq(ParsedAttributes)
        /\ Len(attributes) <= Len(record)
        /\ \A j \in 1 .. Len(attributes) : Parses(attributes[j], record[j])
    BY Zenon DEF WalkInv, Taken
  <2>2. ASSUME NEW k \in DOMAIN attributes PROVE attributes[k] = Expected(record[k])
    <3>1. k \in 1 .. Len(attributes) /\ k \in DOMAIN record /\ record[k] \in DiskAttributes
      BY <2>1
    <3>2. Parses(attributes[k], record[k])
      BY <2>1, <3>1, Zenon
    <3>3. \A i \in DOMAIN record[k].runs : NarrowRun(record[k].runs[i])
      BY <3>1, Zenon DEF Narrow, NarrowRun
    <3> QED
      BY <3>1, <3>2, <3>3, ParsesExpected, Zenon
  <2>3. attributes = [k \in DOMAIN attributes |-> attributes[k]]
    BY <2>1
  <2>4. attributes = [k \in DOMAIN attributes |-> Expected(record[k])]
    BY <2>2, <2>3, Zenon
  <2> QED
    BY <2>4, Zenon DEF Inverted, WalkInv
<1> QED
  BY <1>1, WalkIsInvariant, PTL

(* Inode::read. *)

\* The lesser of two numbers.
LEMMA MinOfTwo ==
  ASSUME NEW x \in Int, NEW y \in Int
  PROVE  Min({x, y}) = IF x <= y THEN x ELSE y
<1> DEFINE z == IF x <= y THEN x ELSE y
<1>1. z \in {x, y} /\ \A v \in {x, y} : z <= v
  OBVIOUS
<1>2. Min({x, y}) \in {x, y} /\ \A v \in {x, y} : Min({x, y}) <= v
  <2> HIDE DEF z
  <2> QED
    BY <1>1, Zenon DEF Min
<1> DEFINE m == Min({x, y})
<1>3. m \in Int /\ (m = x \/ m = y) /\ m <= x /\ m <= y
  BY <1>2
<1> HIDE DEF m
<1>4. m = z
  BY <1>3
<1> QED
  BY <1>4 DEF m

\* The greater of two numbers.
LEMMA MaxOfTwo ==
  ASSUME NEW x \in Int, NEW y \in Int
  PROVE  Max({x, y}) = IF x >= y THEN x ELSE y
<1> DEFINE z == IF x >= y THEN x ELSE y
<1>1. z \in {x, y} /\ \A v \in {x, y} : z >= v
  OBVIOUS
<1>2. Max({x, y}) \in {x, y} /\ \A v \in {x, y} : Max({x, y}) >= v
  <2> HIDE DEF z
  <2> QED
    BY <1>1, Zenon DEF Max
<1> DEFINE m == Max({x, y})
<1>3. m \in Int /\ (m = x \/ m = y) /\ m >= x /\ m >= y
  BY <1>2
<1> HIDE DEF m
<1>4. m = z
  BY <1>3
<1> QED
  BY <1>4 DEF m

\* Wrapping a sum does not make it greater than the sum of what is wrapped.
LEMMA WrappedSum ==
  ASSUME NEW w \in Nat \ {0}, NEW a \in Nat, NEW b \in Nat
  PROVE  (a + b) % w <= a + (b % w) /\ b % w <= b /\ b % w \in Nat
<1> DEFINE n == a + b
           p == n \div w
           u == n % w
           q == b \div w
           t == b % w
<1>1. p \in Int /\ u \in 0 .. w - 1 /\ n = w * p + u
  <2>1. n \in Int
    OBVIOUS
  <2> HIDE DEF n
  <2> QED
    BY <2>1, Division, Zenon
<1>2. q \in Nat /\ t \in 0 .. w - 1 /\ b = w * q + t
  <2>1. b \in Int
    OBVIOUS
  <2> QED
    BY <2>1, Division, Zenon
<1> HIDE DEF p, u, q, t
<1>3. w * q \in Nat /\ w * p \in Int
  BY <1>1, <1>2
<1>4. u <= a + t
  <2> SUFFICES ASSUME u > a + t PROVE FALSE
    BY <1>1, <1>2
  <2>1. w * p < w * q
    BY <1>1, <1>2, <1>3
  <2>2. p < q
    <3> SUFFICES ASSUME p >= q PROVE FALSE
      BY <1>1, <1>2
    <3>1. w * (p - q) >= 0 /\ w * (p - q) = w * p - w * q
      BY <1>1, <1>2
    <3> QED
      BY <1>3, <2>1, <3>1
  <2>3. w * (q - p - 1) >= 0 /\ w * (q - p - 1) = w * q - w * p - w
    BY <1>1, <1>2, <2>2
  <2> QED
    BY <1>1, <1>2, <1>3, <2>3
<1>5. t <= b /\ t \in Nat
  BY <1>2, <1>3
<1> QED
  BY <1>4, <1>5 DEF u, t

\* How many bytes the runs of a list hold, up to each of them.
Totals(list) ==
    LET total[k \in 0 .. Len(list)] ==
            IF k = 0 THEN 0 ELSE total[k - 1] + list[k].length * cluster_size
    IN  total

Sums(f, list) ==
    /\ f \in [0 .. Len(list) -> Nat] /\ f[0] = 0 /\ RunsSize(list) = f[Len(list)]
    /\ \A k \in 1 .. Len(list) : f[k] = f[k - 1] + list[k].length * cluster_size
    /\ \A k \in 0 .. Len(list) : f[k] <= f[Len(list)]

\* The totals add up the lengths of the runs, and the last is the greatest.
LEMMA TotalsSum ==
  ASSUME NEW list, Len(list) \in Nat, \A k \in 1 .. Len(list) : list[k].length \in Nat
  PROVE  Sums(Totals(list), list)
<1> DEFINE n == Len(list)
           st == [k \in 1 .. n |-> [x \in Nat |-> x + list[k].length * cluster_size]]
           IsTotal(f) == f = [k \in 0 .. n |-> IF k = 0 THEN 0 ELSE f[k - 1] + list[k].length * cluster_size]
           total == CHOOSE f : IsTotal(f)
<1>0. n \in Nat /\ 0 \in Nat
  OBVIOUS
<1>1. \A k \in 1 .. n : list[k].length * cluster_size \in Nat
  BY NtfsAssumption
<1> HIDE DEF n
<1>2. st \in [1 .. n -> [Nat -> Nat]]
  <2>1. \A k \in 1 .. n : \A x \in Nat : x + list[k].length * cluster_size \in Nat
    BY <1>1
  <2> QED
    BY <2>1, Zenon
<1>3. PICK f \in [0 .. n -> Nat] : Iterates(f, 0, n, st)
  <2> HIDE DEF st
  <2> QED
    BY <1>0, <1>2, FoldExists, Zenon
<1>4. IsTotal(f)
  <2>1. \A k \in 1 .. n : f[k - 1] \in Nat /\ st[k][f[k - 1]] = f[k - 1] + list[k].length * cluster_size
    BY <1>0
  <2>2. \A k \in 0 .. n : k # 0 => k \in 1 .. n
    BY <1>0
  <2> HIDE DEF st
  <2>3. \A k \in 0 .. n : f[k] = IF k = 0 THEN 0 ELSE f[k - 1] + list[k].length * cluster_size
    BY <1>3, <2>1, <2>2, Zenon DEF Iterates
  <2> QED
    BY <2>3
<1>5. IsTotal(total)
  <2> HIDE DEF IsTotal
  <2> QED
    BY <1>4, Zenon
<1>6. total = Totals(list) /\ total[n] = RunsSize(list)
  BY Zenon DEF Totals, RunsSize, n
<1>7. total[0] = 0 /\ \A k \in 1 .. n : total[k] = total[k - 1] + list[k].length * cluster_size
  <2> HIDE DEF total
  <2>1. \A k \in 0 .. n : total[k] = IF k = 0 THEN 0 ELSE total[k - 1] + list[k].length * cluster_size
    BY <1>5, Zenon
  <2>2. 0 \in 0 .. n /\ \A k \in 1 .. n : k \in 0 .. n /\ k # 0
    BY <1>0
  <2> QED
    BY <2>1, <2>2, Zenon
<1>8. total = [k \in 0 .. n |-> total[k]]
  <2> HIDE DEF total
  <2> QED
    BY <1>5, Zenon
<1> HIDE DEF total, IsTotal
<1>9. \A k \in 0 .. n : total[k] \in Nat
  <2>1. \A k \in 1 .. n : total[k - 1] \in Nat => total[k] \in Nat
    BY <1>1, <1>7
  <2> QED
    BY <1>0, <1>7, <2>1, Kept, Zenon
<1> DEFINE Mono(m) == \A k \in 0 .. m : total[k] <= total[m]
           P == {m \in Nat : m <= n => Mono(m)}
<1>10. 0 \in P
  <2>1. Mono(0)
    BY <1>7
  <2> QED
    BY <2>1, Zenon
<1>11. ASSUME NEW m \in P PROVE m + 1 \in P
  <2>1. m \in Nat /\ m + 1 \in Nat /\ (m + 1) - 1 = m
    OBVIOUS
  <2>2. ASSUME m + 1 <= n PROVE Mono(m + 1)
    <3>1. m + 1 \in 1 .. n /\ m <= n /\ m \in 0 .. n
      BY <1>0, <2>1, <2>2
    <3>2. Mono(m)
      BY <3>1
    <3> DEFINE a == total[m]
               b == total[m + 1]
               c == list[m + 1].length * cluster_size
    <3>3. b = a + c /\ c \in Nat /\ a \in Nat
      BY <1>1, <1>7, <1>9, <2>1, <3>1, Zenon
    <3>4. \A k \in 0 .. m + 1 : k \in 0 .. n /\ (k \in 0 .. m \/ k = m + 1)
      BY <1>0, <2>1, <3>1
    <3>5. ASSUME NEW k \in 0 .. m + 1 PROVE total[k] <= b
      <4>1. CASE k = m + 1
        BY <3>3, <4>1
      <4>2. CASE k \in 0 .. m
        <5> DEFINE d == total[k]
        <5>1. d \in Nat /\ d <= a
          BY <1>9, <3>2, <3>4, <4>2, Zenon
        <5> HIDE DEF a, b, c, d
        <5>2. d <= b
          BY <3>3, <5>1
        <5> QED
          BY <5>2 DEF d
      <4> QED
        BY <3>4, <4>1, <4>2, Zenon
    <3> QED
      BY <3>5, Zenon
  <2> HIDE DEF Mono
  <2> QED
    BY <2>1, <2>2
<1>12. P = Nat
  <2>1. P \in SUBSET Nat
    OBVIOUS
  <2> HIDE DEF P
  <2> QED
    BY <1>10, <1>11, <2>1, SetInduction, Zenon
<1>13. Mono(n)
  <2>1. n <= n
    BY <1>0
  <2> HIDE DEF Mono
  <2> QED
    BY <1>0, <1>12, <2>1, Zenon
<1>14. total \in [0 .. n -> Nat]
  BY <1>8, <1>9, Zenon
<1> QED
  BY <1>6, <1>7, <1>13, <1>14, Zenon DEF Sums, n

\* What read_from_runs takes of a run is not more than the run holds nor than
\* the buffer has room for, wherever the wrapped bounds of the run lie.
LEMMA RunIsRead ==
  ASSUME NEW run, run.length \in Nat, NEW c \in Int,
         len \in Nat, bytes_read \in 0 .. len, file_offset \in Nat,
         NEW rs, rs = Wrapped(c * cluster_size),
         NEW t, t = IF \/ file_offset >= Wrapped(rs + run.length * cluster_size)
                       \/ bytes_read + read_len(run, rs) > len
                    THEN 0 ELSE read_len(run, rs)
  PROVE  t \in Nat /\ bytes_read + t <= len /\ t <= run.length * cluster_size
<1> DEFINE w == Pow[WORD]
           b == run.length * cluster_size
           e == c * cluster_size
           n == read_len(run, rs)
           f == file_offset - rs
           g == len - bytes_read
<1>1. w \in Nat \ {0}
  BY Powers, NtfsAssumption
<1>2. b \in Nat /\ e \in Int
  BY NtfsAssumption
<1>3. rs = e % w /\ Wrapped(rs + b) = (rs + b) % w /\ Wrapped(b) = b % w
  BY Zenon DEF Wrapped
<1> HIDE DEF w, b, e
<1>4. rs \in Nat
  BY <1>1, <1>2, <1>3
<1>5. (rs + b) % w <= rs + (b % w) /\ b % w <= b /\ b % w \in Nat
  BY <1>1, <1>2, <1>4, WrappedSum, Zenon
<1>6. f \in Int /\ g \in Nat /\ 0 \in Int
  BY <1>4
<1>7. n = Min({Wrapped(b) - Max({0, f}), g})
  BY Zenon DEF read_len, b
<1> DEFINE x == Wrapped(b)
           y == Max({0, f})
<1>8. y = IF 0 >= f THEN 0 ELSE f
  <2> HIDE DEF f
  <2> QED
    BY <1>6, MaxOfTwo, Zenon
<1>9. x \in Nat /\ x <= b
  BY <1>3, <1>5, Zenon
<1> HIDE DEF f, g
<1>10. y \in Nat /\ y >= f
  BY <1>6, <1>8
<1> HIDE DEF x, y
<1>11. n = IF x - y <= g THEN x - y ELSE g
  <2> DEFINE z == x - y
  <2>1. z \in Int /\ g \in Int
    BY <1>6, <1>9, <1>10
  <2> HIDE DEF z
  <2>2. Min({z, g}) = IF z <= g THEN z ELSE g
    BY <2>1, MinOfTwo, Zenon
  <2> QED
    BY <1>7, <2>2, Zenon DEF x, y, z
<1> HIDE DEF n
<1>12. n \in Int
  BY <1>6, <1>9, <1>10, <1>11
<1> DEFINE r == Wrapped(rs + b)
<1>13. r <= rs + x /\ r \in Int
  <2>1. (rs + b) % w \in Int
    BY <1>1, <1>2, <1>4
  <2> QED
    BY <1>3, <1>5, <2>1, Zenon DEF x
<1>14. t = IF file_offset >= r \/ bytes_read + n > len THEN 0 ELSE n
  BY Zenon DEF b, n
<1> HIDE DEF r
<1>15. CASE file_offset >= r \/ bytes_read + n > len
  BY <1>2, <1>14, <1>15 DEF b
<1>16. CASE ~(file_offset >= r \/ bytes_read + n > len)
  <2>1. t = n /\ ~(file_offset >= r) /\ ~(bytes_read + n > len)
    BY <1>14, <1>16, Zenon
  <2>2. f < x
    BY <1>4, <1>9, <1>13, <2>1 DEF f
  <2>3. y <= x
    BY <1>6, <1>8, <1>9, <2>2
  <2>4. n \in Nat /\ n <= x
    BY <1>6, <1>9, <1>10, <1>11, <2>3
  <2>5. t \in Nat /\ bytes_read + t <= len /\ t <= b
    BY <1>2, <1>9, <1>12, <2>1, <2>4
  <2> QED
    BY <2>5 DEF b
<1> QED
  BY <1>15, <1>16

\* The runs of a parsed attribute are as long as those of the format.
LEMMA SameLengths ==
  ASSUME NEW a \in DiskAttributes, NEW list \in Seq(DecodedList), Lists(list, a)
  PROVE  /\ Sums(Totals(DecodedRuns(a.runs, a.kept)), DecodedRuns(a.runs, a.kept))
         /\ Len(DecodedRuns(a.runs, a.kept)) = Len(list)
         /\ \A i \in 1 .. Len(list) : /\ list[i].length \in Nat /\ list[i].offset \in Int
                                      /\ DecodedRuns(a.runs, a.kept)[i].length = list[i].length
<1> DEFINE n == Whole(a.runs, a.kept)
           L == DecodedRuns(a.runs, a.kept)
           v(i) == [length |-> a.runs[i].length,
                    offset |-> IF a.runs[i].sparse THEN 0 ELSE a.runs[i].offset]
<1>1. L = [i \in 1 .. n |-> v(i)]
  BY Zenon DEF DecodedRuns, Whole
<1>2. n \in Nat
  <2>1. n \in 0 .. Len(a.runs) /\ a.runs \in Seq(DiskRuns)
    BY WholeRuns, Zenon
  <2> HIDE DEF n
  <2> QED
    BY <2>1
<1>3. Len(list) = n /\ \A i \in 1 .. n : DecodesTo(list[i], a.runs[i])
  BY Zenon DEF Lists
<1> HIDE DEF n, L
<1>4. Len(L) = n
  <2> HIDE DEF v
  <2> QED
    BY <1>1, <1>2
<1>5. \A i \in 1 .. n : L[i].length = a.runs[i].length
  BY <1>1, Zenon
<1>6. \A i \in 1 .. n : list[i].length = a.runs[i].length
  BY <1>3, Zenon DEF DecodesTo
<1>7. \A i \in 1 .. n : list[i].length \in Nat /\ list[i].offset \in Int
  <2>1. \A i \in 1 .. n : list[i] \in DecodedList
    BY <1>2, <1>3
  <2> QED
    BY <2>1 DEF DecodedList
<1>8. \A i \in 1 .. n : L[i].length = list[i].length
  BY <1>5, <1>6, Zenon
<1>9. \A i \in 1 .. Len(L) : L[i].length \in Nat
  BY <1>4, <1>7, <1>8, Zenon
<1>10. Len(L) \in Nat
  BY <1>2, <1>4, Zenon
<1>11. Sums(Totals(L), L)
  BY <1>9, <1>10, TotalsSum, Zenon
<1> QED
  BY <1>3, <1>4, <1>7, <1>8, <1>11, Zenon DEF L

\* The Data attribute that is read is the first unnamed one of the record.
LEMMA FileIsKnown ==
  ASSUME WalkInv, pc \in {"inode", "read", "done"}
  PROVE  /\ FileData = get_data_attribute(attributes)
         /\ FileData # {} => /\ Min(FileData) \in 1 .. Len(attributes)
                             /\ record[Min(FileData)] \in DiskAttributes
                             /\ Parses(attributes[Min(FileData)], record[Min(FileData)])
<1> DEFINE n == Len(attributes)
           D == get_data_attribute(attributes)
<1>1. /\ record \in Seq(DiskAttributes) /\ attributes \in Seq(ParsedAttributes) /\ n <= Len(record)
      /\ \A j \in 1 .. n : Parses(attributes[j], record[j])
      /\ n = WholeAttributes
  BY Zenon DEF WalkInv, Taken
<1>2. DOMAIN attributes = 1 .. n /\ n \in Nat /\ \A j \in 1 .. n : record[j] \in DiskAttributes
  BY <1>1
<1>3. \A j \in 1 .. n : /\ attributes[j].attr_type = record[j].attr_type
                        /\ ~attributes[j].named <=> record[j].name_length = 0
  <2> SUFFICES ASSUME NEW j \in 1 .. n
               PROVE  /\ attributes[j].attr_type = record[j].attr_type
                      /\ ~attributes[j].named <=> record[j].name_length = 0
    OBVIOUS
  <2>1. /\ attributes[j].attr_type = record[j].attr_type
        /\ attributes[j].named = (record[j].name_length > 0)
    BY <1>1, Zenon DEF Parses
  <2>2. record[j].name_length \in Nat
    BY <1>2 DEF DiskAttributes
  <2>3. record[j].name_length > 0 <=> ~(record[j].name_length = 0)
    BY <2>2
  <2> QED
    BY <2>1, <2>3, Zenon
<1>4. D = {i \in 1 .. n : attributes[i].attr_type = "Data" /\ ~attributes[i].named}
  BY <1>2, Zenon DEF get_data_attribute
<1>5. FileData = {i \in 1 .. n : record[i].attr_type = "Data" /\ record[i].name_length = 0}
  BY <1>1, Zenon DEF FileData
<1>6. FileData = D
  BY <1>3, <1>4, <1>5, Zenon
<1>7. D \subseteq 1 .. n
  BY <1>4, Zenon
<1>8. \A i \in 1 .. n : i \in Nat
  BY <1>2
<1> HIDE DEF D, n
<1>9. D # {} => Min(D) \in 1 .. n
  <2>1. D \in SUBSET Nat
    BY <1>7, <1>8, Zenon
  <2> QED
    BY <1>7, <2>1, MinIsLeast, Zenon
<1> QED
  BY <1>1, <1>2, <1>6, <1>9, Zenon DEF D, n

\* A read is of the first unnamed Data attribute: from the record at once, or
\* through its runs, and then of no more than the runs before idx hold.
Reading ==
    LET d == Min(get_data_attribute(attributes))
        a == record[d]
    IN  /\ get_data_attribute(attributes) # {}
        /\ start \in Nat /\ len \in Nat /\ bytes_read \in 0 .. len
        /\ file_offset = start + bytes_read
        /\ IF a.non_resident
           THEN /\ runs = attributes[d].run_list /\ idx \in 1 .. Len(runs) + 1
                /\ current_cluster \in Int
                /\ bytes_read <= Totals(DecodedRuns(a.runs, a.kept))[idx - 1]
           ELSE /\ pc = "done"
                /\ bytes_read = Min({len, Max({0, a.content_size - start})})

ReadInv == pc \in {"read", "done"} => Reading

\* A file in its record is read at once.
LEMMA ResidentStep ==
  ASSUME WalkInv, NEW o \in Nat, NEW n \in Nat, read_resident(o, n)
  PROVE  ReadInv'
<1> DEFINE D == get_data_attribute(attributes)
           d == Min(D)
           a == record[d]
           x == attributes[d]
<1>1. pc = "inode" /\ D # {} /\ x.resident_data # << >>
  BY Zenon DEF read_resident, DataAttribute
<1>2. a \in DiskAttributes /\ Parses(x, a)
  BY <1>1, FileIsKnown, Zenon
<1>3. ~a.non_resident /\ x.resident_data = <<a.content_size>>
  BY <1>1, <1>2, Zenon DEF Parses
<1>4. a.content_size \in Nat
  BY <1>2 DEF DiskAttributes
<1>5. /\ attributes' = attributes /\ record' = record /\ start' = o /\ len' = n /\ pc' = "done"
      /\ file_offset' = o + bytes_read'
      /\ bytes_read' = IF o >= x.resident_data[1] THEN 0 ELSE Min({o + n, x.resident_data[1]}) - o
  BY Zenon DEF read_resident, DataAttribute, walk
<1> DEFINE c == a.content_size
           m == Min({n, Max({0, c - o})})
<1>6. x.resident_data[1] = c
  BY <1>3
<1>7. bytes_read' = IF o >= c THEN 0 ELSE Min({o + n, c}) - o
  BY <1>5, <1>6, Zenon
<1> HIDE DEF c
<1>8. c \in Nat
  BY <1>4 DEF c
<1>9. Max({0, c - o}) = IF 0 >= c - o THEN 0 ELSE c - o
  <2> DEFINE z == c - o
  <2>1. z \in Int /\ 0 \in Int
    BY <1>8
  <2> HIDE DEF z
  <2>2. Max({0, z}) = IF 0 >= z THEN 0 ELSE z
    BY <2>1, MaxOfTwo, Zenon
  <2> QED
    BY <2>2 DEF z
<1> DEFINE y == Max({0, c - o})
<1>10. y \in Int
  BY <1>8, <1>9
<1>11. m = IF n <= y THEN n ELSE y
  <2> HIDE DEF y
  <2>1. n \in Int
    OBVIOUS
  <2> QED
    BY <1>10, <2>1, MinOfTwo, Zenon DEF y
<1>12. Min({o + n, c}) = IF o + n <= c THEN o + n ELSE c
  <2> DEFINE z == o + n
  <2>1. z \in Int /\ c \in Int
    BY <1>8
  <2> HIDE DEF z
  <2>2. Min({z, c}) = IF z <= c THEN z ELSE c
    BY <2>1, MinOfTwo, Zenon
  <2> QED
    BY <2>2 DEF z
<1>13. bytes_read' = m /\ m \in 0 .. n
  <2> HIDE DEF m
  <2> QED
    BY <1>7, <1>8, <1>9, <1>11, <1>12 DEF y
<1> HIDE DEF m
<1> QED
  BY <1>1, <1>3, <1>5, <1>13, Zenon DEF ReadInv, Reading, m, c

\* A read through runs starts at the first with nothing read.
LEMMA RunsStep ==
  ASSUME WalkInv, NEW o \in Nat, NEW n \in Nat, read_runs(o, n)
  PROVE  ReadInv'
<1> DEFINE D == get_data_attribute(attributes)
           d == Min(D)
           a == record[d]
           x == attributes[d]
           L == DecodedRuns(a.runs, a.kept)
<1>1. pc = "inode" /\ D # {} /\ x.resident_data = << >>
  BY Zenon DEF read_runs, DataAttribute
<1>2. a \in DiskAttributes /\ Parses(x, a)
  BY <1>1, FileIsKnown, Zenon
<1>3. a.non_resident
  <2>1. <<a.content_size>> # << >>
    OBVIOUS
  <2> QED
    BY <1>1, <1>2, <2>1, Zenon DEF Parses
<1>4. x.run_list \in Seq(DecodedList) /\ Lists(x.run_list, a)
  <2>1. x \in ParsedAttributes /\ Lists(x.run_list, a)
    BY <1>2, <1>3, Zenon DEF Parses
  <2> QED
    BY <2>1 DEF ParsedAttributes
<1>5. Sums(Totals(L), L)
  BY <1>2, <1>4, SameLengths, Zenon
<1>6. /\ attributes' = attributes /\ record' = record /\ start' = o /\ len' = n
      /\ file_offset' = o /\ current_cluster' = 0 /\ idx' = 1 /\ bytes_read' = 0
      /\ runs' = x.run_list
  BY Zenon DEF read_runs, read_from_runs, DataAttribute, walk
<1>7. Totals(L)[0] = 0
  BY <1>5, Zenon DEF Sums
<1>8. /\ 1 \in 1 .. Len(x.run_list) + 1 /\ 1 - 1 = 0 /\ 0 \in 0 .. n /\ o = o + 0 /\ 0 \in Int
      /\ 0 <= 0
  BY <1>4
<1> QED
  BY <1>1, <1>3, <1>6, <1>7, <1>8, Zenon DEF ReadInv, Reading

\* One iteration of read_from_runs.
LEMMA ReadRunStep ==
  ASSUME WalkInv, ReadInv, read_run, UNCHANGED walk
  PROVE  ReadInv'
<1> DEFINE D == get_data_attribute(attributes)
           d == Min(D)
           a == record[d]
           x == attributes[d]
           L == DecodedRuns(a.runs, a.kept)
           run == runs[idx]
           c == current_cluster + run.offset
           rs == Wrapped(c * cluster_size)
           t == IF \/ file_offset >= Wrapped(rs + run.length * cluster_size)
                   \/ bytes_read + read_len(run, rs) > len
                THEN 0 ELSE read_len(run, rs)
<1>0. pc = "read" /\ idx <= Len(runs) /\ "read" # "done"
  BY DEF read_run
<1>1. /\ D # {} /\ start \in Nat /\ len \in Nat /\ bytes_read \in 0 .. len
      /\ file_offset = start + bytes_read /\ a.non_resident
      /\ current_cluster \in Int /\ runs = x.run_list /\ idx \in 1 .. Len(runs) + 1
      /\ bytes_read <= Totals(L)[idx - 1]
  BY <1>0, Zenon DEF ReadInv, Reading
<1>2. a \in DiskAttributes /\ Parses(x, a)
  BY <1>0, <1>1, FileIsKnown, Zenon
<1>3. runs \in Seq(DecodedList) /\ Lists(runs, a)
  <2>1. x \in ParsedAttributes /\ Lists(x.run_list, a)
    BY <1>1, <1>2, Zenon DEF Parses
  <2>2. x.run_list \in Seq(DecodedList)
    BY <2>1 DEF ParsedAttributes
  <2> QED
    BY <1>1, <2>1, <2>2, Zenon
<1>4. /\ Sums(Totals(L), L) /\ Len(L) = Len(runs)
      /\ \A i \in 1 .. Len(runs) : /\ runs[i].length \in Nat /\ runs[i].offset \in Int
                                   /\ L[i].length = runs[i].length
  BY <1>2, <1>3, SameLengths, Zenon
<1>5. idx \in 1 .. Len(runs) /\ Len(runs) \in Nat
  BY <1>0, <1>1, <1>3
<1>6. run.length \in Nat /\ run.offset \in Int /\ L[idx].length = run.length
  BY <1>4, <1>5, Zenon
<1>7. /\ current_cluster' = c /\ bytes_read' = bytes_read + t /\ file_offset' = file_offset + t
      /\ idx' = idx + 1 /\ runs' = runs /\ start' = start /\ len' = len
  BY Zenon DEF read_run, parser
<1>8. c \in Int /\ file_offset \in Nat
  BY <1>1, <1>6
<1> HIDE DEF run, c, t
<1>9. t \in Nat /\ bytes_read + t <= len /\ t <= run.length * cluster_size
  <2>1. t = IF \/ file_offset >= Wrapped(rs + run.length * cluster_size)
               \/ bytes_read + read_len(run, rs) > len
            THEN 0 ELSE read_len(run, rs)
    BY DEF t
  <2> DEFINE z == rs
  <2>2. z = Wrapped(c * cluster_size)
    OBVIOUS
  <2> HIDE DEF z
  <2>3. t = IF \/ file_offset >= Wrapped(z + run.length * cluster_size)
               \/ bytes_read + read_len(run, z) > len
            THEN 0 ELSE read_len(run, z)
    BY <2>1 DEF z
  <2> QED
    BY <1>1, <1>6, <1>8, <2>2, <2>3, RunIsRead, Zenon
<1> DEFINE p == Totals(L)[idx - 1]
           q == Totals(L)[idx]
           b == run.length * cluster_size
<1>10. q = p + b /\ p \in Nat
  <2>1. idx - 1 \in 0 .. Len(L) /\ idx \in 1 .. Len(L)
    BY <1>4, <1>5
  <2>2. Totals(L)[idx - 1] \in Nat /\ Totals(L)[idx] = Totals(L)[idx - 1] + L[idx].length * cluster_size
    BY <1>4, <2>1, Zenon DEF Sums
  <2> QED
    BY <1>6, <2>2, Zenon
<1>11. b \in Nat
  BY <1>6, NtfsAssumption
<1>12. bytes_read <= p /\ t <= b
  BY <1>1, <1>9, Zenon
<1> HIDE DEF p, q, b
<1>13. bytes_read + t <= q /\ bytes_read + t \in 0 .. len /\ file_offset + t = start + (bytes_read + t)
  BY <1>1, <1>9, <1>10, <1>11, <1>12
<1>14. idx + 1 \in 1 .. Len(runs) + 1 /\ (idx + 1) - 1 = idx
  BY <1>5
<1>15. attributes' = attributes /\ record' = record
  BY Zenon DEF walk
<1>16. (bytes_read + t) <= Totals(L)[(idx + 1) - 1]
  BY <1>13, <1>14, Zenon DEF q
<1> QED
  BY <1>1, <1>7, <1>8, <1>13, <1>14, <1>15, <1>16, Zenon DEF ReadInv, Reading

\* Every step keeps it; those before the read have nothing to keep.
LEMMA ReadInvStep == WalkInv /\ ReadInv /\ [Next]_vars => ReadInv'
<1> SUFFICES ASSUME WalkInv, ReadInv, [Next]_vars PROVE ReadInv'
  OBVIOUS
<1>1. CASE Walk
  <2>1. pc' \in {"refused", "walk", "parse", "inode"}
    BY <1>1 DEF Walk, parse_mft_record, walk_resident, walk_runs, walk_parsed, from_mft_record
  <2> QED
    BY <2>1 DEF ReadInv
<1>2. CASE Loops /\ UNCHANGED walk
  <2>1. CASE parse_run \/ parse_end
    <3>1. pc' \in {"parse", "parsed"}
      BY <2>1 DEF parse_run, parse_end
    <3> QED
      BY <3>1 DEF ReadInv
  <2>2. CASE read_run
    BY <1>2, <2>2, ReadRunStep, Zenon
  <2>3. CASE read_end
    <3>1. pc = "read" /\ pc' = "done" /\ "read" # "done" /\ UNCHANGED <<walk, parser, reader>>
      BY <1>2, <2>3 DEF read_end
    <3>2. /\ attributes' = attributes /\ record' = record /\ start' = start /\ len' = len
          /\ bytes_read' = bytes_read /\ file_offset' = file_offset /\ runs' = runs /\ idx' = idx
          /\ current_cluster' = current_cluster
      BY <3>1, Zenon DEF walk, parser, reader
    <3>3. Reading
      BY <3>1 DEF ReadInv
    <3> QED
      BY <3>1, <3>2, <3>3, Zenon DEF ReadInv, Reading
  <2> QED
    BY <1>2, <2>1, <2>2, <2>3, Zenon DEF Loops
<1>3. ASSUME NEW o \in FileOffsets, NEW n \in BufferLengths, read_resident(o, n) \/ read_runs(o, n)
      PROVE  ReadInv'
  <2>1. o \in Nat /\ n \in Nat
    BY RecordsAssumption, Zenon
  <2> QED
    BY <1>3, <2>1, ResidentStep, RunsStep, Zenon
<1>4. CASE read_nothing
  <2>1. pc' = "refused"
    BY <1>4, Zenon DEF read_nothing
  <2> QED
    BY <2>1 DEF ReadInv
<1>5. CASE UNCHANGED vars
  <2>1. /\ attributes' = attributes /\ record' = record /\ start' = start /\ len' = len
        /\ bytes_read' = bytes_read /\ file_offset' = file_offset /\ runs' = runs /\ idx' = idx
        /\ current_cluster' = current_cluster /\ pc' = pc
    BY <1>5, Zenon DEF vars, walk, runs_vars, parser, reader
  <2> QED
    BY <2>1, Zenon DEF ReadInv, Reading
<1> QED
  BY <1>1, <1>2, <1>3, <1>4, <1>5, Zenon DEF Next

\* For every record, buffer and read, Inode::read serves the file's unnamed Data
\* attribute and no other stream: of a file kept in its record exactly the bytes
\* between the offset and its end that the buffer has room for, and of one in
\* runs never more than the buffer or the runs hold, however the arithmetic on
\* the bounds of the runs wraps (ntfs.rs 361-428).
THEOREM FileIsServed == Spec => []ReadServesFile
<1>1. Init => ReadInv
  <2>1. Init => pc = "begin"
    BY Zenon DEF Init
  <2> QED
    BY <2>1 DEF ReadInv
<1>2. WalkInv /\ ReadInv => ReadServesFile
  <2> SUFFICES ASSUME WalkInv, Reading, pc \in {"read", "done"}
               PROVE  /\ file_offset = start + bytes_read
                      /\ FileData # {}
                      /\ LET d == record[Min(FileData)]
                         IN  IF d.non_resident
                             THEN bytes_read <= Min({len, RunsSize(DecodedRuns(d.runs, d.kept))})
                             ELSE bytes_read = Min({len, Max({0, d.content_size - start})})
    BY Zenon DEF ReadInv, ReadServesFile
  <2> DEFINE d == Min(FileData)
             a == record[d]
             x == attributes[d]
             L == DecodedRuns(a.runs, a.kept)
  <2>0. pc \in {"inode", "read", "done"}
    OBVIOUS
  <2>1. FileData = get_data_attribute(attributes)
    BY <2>0, FileIsKnown, Zenon
  <2>2. /\ file_offset = start + bytes_read /\ FileData # {}
        /\ len \in Nat /\ bytes_read \in 0 .. len
        /\ IF a.non_resident
           THEN /\ runs = x.run_list /\ idx \in 1 .. Len(runs) + 1
                /\ bytes_read <= Totals(L)[idx - 1]
           ELSE bytes_read = Min({len, Max({0, a.content_size - start})})
    BY <2>1, Zenon DEF Reading
  <2>3. ASSUME a.non_resident PROVE bytes_read <= Min({len, RunsSize(L)})
    <3>1. a \in DiskAttributes /\ Parses(x, a)
      BY <2>0, <2>2, FileIsKnown, Zenon
    <3>2. x \in ParsedAttributes /\ Lists(x.run_list, a)
      BY <2>3, <3>1, Zenon DEF Parses
    <3>3. x.run_list \in Seq(DecodedList)
      BY <3>2 DEF ParsedAttributes
    <3>4. Sums(Totals(L), L) /\ Len(L) = Len(runs)
      BY <2>2, <2>3, <3>1, <3>2, <3>3, SameLengths, Zenon
    <3>5. idx - 1 \in 0 .. Len(L) /\ Len(L) \in 0 .. Len(L)
      <4>1. runs \in Seq(DecodedList) /\ idx \in 1 .. Len(runs) + 1
        BY <2>2, <2>3, <3>3, Zenon
      <4>2. Len(runs) \in Nat
        BY <4>1
      <4> QED
        BY <3>4, <4>1, <4>2
    <3> DEFINE p == Totals(L)[idx - 1]
               q == RunsSize(L)
    <3>6. p \in Nat /\ q \in Nat /\ p <= q /\ bytes_read <= p
      BY <2>2, <2>3, <3>4, <3>5, Zenon DEF Sums
    <3> HIDE DEF p, q
    <3>7. len \in Int /\ q \in Int
      BY <2>2, <3>6
    <3>8. Min({len, q}) = IF len <= q THEN len ELSE q
      BY <3>7, MinOfTwo, Zenon
    <3>9. bytes_read <= Min({len, q})
      BY <2>2, <3>6, <3>8
    <3> QED
      BY <3>9 DEF q
  <2> QED
    BY <2>2, <2>3, Zenon
<1> QED
  BY <1>1, <1>2, WalkIsInvariant, ReadInvStep, PTL DEF Spec

=============================================================================
