--------------------------- MODULE SlabHeapProofs ---------------------------
(***************************************************************************)
(* The heap hands out disjoint memory and loses no block, for every number *)
(* and size of classes, every page and heap size and every set of layouts. *)
(*                                                                         *)
(* The invariant is about the room a block really has: a caller holds the  *)
(* whole block of the class, not only the bytes it asked for, because the  *)
(* whole block goes back to the list.  It is stated with the state as      *)
(* parameters, since an allocation may refill a list and then pop it.      *)
(***************************************************************************)
EXTENDS SlabHeap, FiniteSetTheorems, TLAPS

-----------------------------------------------------------------------------
(* Arithmetic *)

LEMMA Multiples ==
  ASSUME NEW a \in Nat, NEW b \in Nat, NEW m \in Nat, a < b
  PROVE  a * m + m <= b * m
<1>1. b - a - 1 \in Nat
  OBVIOUS
<1>2. PICK k \in Nat : b = a + 1 + k
  BY <1>1
<1>3. b * m = a * m + m + k * m
  BY <1>2
<1>4. k * m \in Nat
  OBVIOUS
<1>5. a * m \in Nat
  OBVIOUS
<1> QED
  BY <1>3, <1>4, <1>5

LEMMA DivisionRoundsDown ==
  ASSUME NEW p \in Nat, NEW b \in Nat \ {0}
  PROVE  p \div b \in Nat /\ (p \div b) * b <= p
  OBVIOUS

\* The rounding of alloc_bump.
LEMMA RoundingUp ==
  ASSUME NEW p \in Nat, NEW a \in Nat \ {0}
  PROVE  ((p + a - 1) \div a) * a \in Nat /\ ((p + a - 1) \div a) * a >= p
<1>1. p + a - 1 \in Nat /\ p + a - 1 = ((p + a - 1) \div a) * a + ((p + a - 1) % a)
  OBVIOUS
<1>2. (p + a - 1) % a \in 0 .. a - 1
  OBVIOUS
<1>3. (p + a - 1) \div a \in Nat
  OBVIOUS
<1>4. ((p + a - 1) \div a) * a \in Nat
  BY <1>3
<1> QED
  BY <1>1, <1>2, <1>4

\* Blocks of two pages, one after the other.
LEMMA PagesApart ==
  ASSUME NEW s \in Nat, NEW p \in Nat, NEW q \in Nat, NEW m \in Nat, p + m <= q,
         NEW x \in Nat, NEW u \in Nat, NEW y \in Nat, x + u <= s + p + m, s + q <= y
  PROVE  x + u <= y
OBVIOUS

LEMMA BlockInPage ==
  ASSUME NEW s \in Nat, NEW p \in Nat, NEW m \in Nat, NEW t \in Nat, p + m <= t,
         NEW x \in Nat, NEW u \in Nat, s + p <= x, x + u <= s + p + m
  PROVE  s <= x /\ x + u <= s + t
OBVIOUS

LEMMA BelowAndAbove ==
  ASSUME NEW x \in Nat, NEW u \in Nat, NEW p \in Nat, NEW y \in Nat, x + u <= p, p <= y
  PROVE  x + u <= y
OBVIOUS

LEMMA MoreRoom ==
  ASSUME NEW s \in Nat, NEW b \in Nat, NEW m \in Nat, NEW x \in Nat, NEW u \in Nat, x + u <= s + b
  PROVE  x + u <= s + (b + m)
OBVIOUS

\* The blocks of a page: in the page and apart from each other.
LEMMA BlocksOfPage ==
  ASSUME NEW p \in Nat, NEW b \in Nat \ {0}, NEW n \in Nat, n <= PAGE \div b
  PROVE  /\ Blocks(p, b, n) \in Seq(Nat) /\ Len(Blocks(p, b, n)) = n
         /\ \A j \in 1 .. n : p <= Blocks(p, b, n)[j] /\ Blocks(p, b, n)[j] + b <= p + PAGE
         /\ \A j, k \in 1 .. n : j < k => Blocks(p, b, n)[j] + b <= Blocks(p, b, n)[k]
<1>1. PAGE \in Nat
  BY HeapConstants
<1>2. \A j \in 1 .. n : (j - 1) * b \in Nat
  OBVIOUS
<1>3. \A j \in 1 .. n : Blocks(p, b, n)[j] = p + (j - 1) * b
  BY DEF Blocks
<1>4. Blocks(p, b, n) \in Seq(Nat) /\ Len(Blocks(p, b, n)) = n
  BY <1>2 DEF Blocks
<1>5. ASSUME NEW j \in 1 .. n PROVE (j - 1) * b + b <= PAGE
  <2>1. (j - 1) * b + b <= (PAGE \div b) * b
    BY <1>1, DivisionRoundsDown, Multiples
  <2> QED
    BY <1>1, <1>2, <2>1, DivisionRoundsDown
<1>6. ASSUME NEW j \in 1 .. n, NEW k \in 1 .. n, j < k PROVE (j - 1) * b + b <= (k - 1) * b
  BY <1>6, Multiples
<1>7. \A j \in 1 .. n : p <= Blocks(p, b, n)[j] /\ Blocks(p, b, n)[j] + b <= p + PAGE
  <2> SUFFICES ASSUME NEW j \in 1 .. n
               PROVE  p <= Blocks(p, b, n)[j] /\ Blocks(p, b, n)[j] + b <= p + PAGE
    OBVIOUS
  <2> DEFINE x == (j - 1) * b
  <2>1. x \in Nat /\ x + b <= PAGE /\ Blocks(p, b, n)[j] = p + x
    BY <1>2, <1>3, <1>5
  <2> HIDE DEF x
  <2> QED
    BY <1>1, <2>1
<1>8. \A j, k \in 1 .. n : j < k => Blocks(p, b, n)[j] + b <= Blocks(p, b, n)[k]
  <2> SUFFICES ASSUME NEW j \in 1 .. n, NEW k \in 1 .. n, j < k
               PROVE  Blocks(p, b, n)[j] + b <= Blocks(p, b, n)[k]
    OBVIOUS
  <2> DEFINE x == (j - 1) * b
             y == (k - 1) * b
  <2>1. x \in Nat /\ y \in Nat /\ x + b <= y
    BY <1>2, <1>6
  <2>2. Blocks(p, b, n)[j] = p + x /\ Blocks(p, b, n)[k] = p + y
    BY <1>3
  <2> HIDE DEF x, y
  <2> QED
    BY <2>1, <2>2
<1> QED
  BY <1>4, <1>7, <1>8

-----------------------------------------------------------------------------
(* The room of a request, and memory kept apart *)

\* The bytes set aside for a layout: its class's block, or what the bump
\* pointer gives.
Room(l) ==
  IF find_slab_class(aligned_size(l)) = {} THEN aligned_size(l)
  ELSE BlockSize(CHOOSE c \in Classes : c \in find_slab_class(aligned_size(l)))

Apart(p, m, q, n) == p + m <= q \/ q + n <= p
Within(p, m, b) == start <= p /\ p + m <= start + b

LEMMA Constants ==
  /\ PAGE \in Nat \ {0} /\ start \in Nat \ {0} /\ SLAB_CLASSES \in Nat \ {0}
  /\ MAX_BLOCKS_PER_CLASS \in Nat /\ size \in Nat /\ SLAB_CLASSES * PAGE <= size
  /\ Classes \subseteq Nat
BY HeapConstants DEF Classes

LEMMA AlignedSize ==
  ASSUME NEW l \in Layouts
  PROVE  aligned_size(l) \in Nat \ {0} /\ l.align \in Nat \ {0} /\ l.align <= aligned_size(l)
BY HeapConstants DEF aligned_size

LEMMA OneClass ==
  ASSUME NEW l \in Layouts, NEW c \in find_slab_class(aligned_size(l))
  PROVE  /\ c \in Classes /\ find_slab_class(aligned_size(l)) = {c}
         /\ Room(l) = BlockSize(c) /\ aligned_size(l) <= BlockSize(c)
<1>1. c \in Classes /\ aligned_size(l) <= BlockSize(c)
  BY DEF find_slab_class
<1>2. ASSUME NEW d \in find_slab_class(aligned_size(l)) PROVE d = c
  <2>1. d \in Nat /\ c \in Nat /\ c <= d /\ d <= c
    BY Constants DEF find_slab_class
  <2> QED
    BY <2>1
<1>3. find_slab_class(aligned_size(l)) = {c}
  BY <1>2
<1>4. (CHOOSE d \in Classes : d \in find_slab_class(aligned_size(l))) = c
  BY <1>1, <1>3
<1> QED
  BY <1>1, <1>3, <1>4 DEF Room

LEMMA RoomSuffices ==
  ASSUME NEW l \in Layouts
  PROVE  Room(l) \in Nat \ {0} /\ aligned_size(l) <= Room(l)
<1>1. CASE find_slab_class(aligned_size(l)) = {}
  BY <1>1, AlignedSize DEF Room
<1>2. CASE find_slab_class(aligned_size(l)) # {}
  <2>1. PICK c : c \in find_slab_class(aligned_size(l))
    BY <1>2
  <2> QED
    BY <2>1, OneClass, BlockSizes
<1> QED
  BY <1>1, <1>2

-----------------------------------------------------------------------------
(* The separation invariant *)

Lists == [Classes -> Seq(Nat)]
Held == [addr : Nat, layout : Layouts]

LiveIn(lv, b) == \A x \in lv : Within(x.addr, Room(x.layout), b)
ListIn(fl, b) ==
  \A c \in Classes : \A k \in 1 .. Len(fl[c]) : Within(fl[c][k], BlockSize(c), b)
LiveApart(lv) ==
  \A x, y \in lv : x # y => Apart(x.addr, Room(x.layout), y.addr, Room(y.layout))
BothApart(fl, lv) ==
  \A x \in lv : \A c \in Classes : \A k \in 1 .. Len(fl[c]) :
    Apart(x.addr, Room(x.layout), fl[c][k], BlockSize(c))
ListApart(fl) ==
  \A c, d \in Classes : \A j \in 1 .. Len(fl[c]) : \A k \in 1 .. Len(fl[d]) :
    (c # d \/ j # k) => Apart(fl[c][j], BlockSize(c), fl[d][k], BlockSize(d))

Sep(fl, lv, b) ==
  LiveIn(lv, b) /\ ListIn(fl, b) /\ LiveApart(lv) /\ BothApart(fl, lv) /\ ListApart(fl)

\* A page taken from the bump pointer is cut into blocks of an empty list.
LEMMA RefillSeparates ==
  ASSUME NEW fl \in Lists, NEW lv \in SUBSET Held, NEW b \in Nat, Sep(fl, lv, b),
         NEW c \in Classes, fl[c] = <<>>, NEW n \in Nat, n <= PAGE \div BlockSize(c)
  PROVE  LET g == [fl EXCEPT ![c] = Blocks(start + b, BlockSize(c), n)]
         IN  g \in Lists /\ Sep(g, lv, b + PAGE)
<1> DEFINE p == start + b
           B == Blocks(p, BlockSize(c), n)
           g == [fl EXCEPT ![c] = B]
<1>1. BlockSize(c) \in Nat \ {0} /\ p \in Nat /\ PAGE \in Nat \ {0} /\ start \in Nat
  BY Constants, BlockSizes
<1>2. /\ B \in Seq(Nat) /\ Len(B) = n
      /\ \A j \in 1 .. n : p <= B[j] /\ B[j] + BlockSize(c) <= p + PAGE
      /\ \A j, k \in 1 .. n : j < k => B[j] + BlockSize(c) <= B[k]
  BY <1>1, BlocksOfPage, Zenon
<1> HIDE DEF B
<1>3. /\ g \in Lists /\ g[c] = B
      /\ \A d \in Classes : d # c => g[d] = fl[d]
  BY <1>2 DEF Lists
<1>4. \A k \in 1 .. n : B[k] \in Nat
  BY <1>2
<1>5. \A x \in lv : x.addr \in Nat /\ Room(x.layout) \in Nat
  BY RoomSuffices DEF Held
<1>6. \A d \in Classes : BlockSize(d) \in Nat /\ \A k \in 1 .. Len(fl[d]) : fl[d][k] \in Nat
  BY BlockSizes DEF Lists
<1> HIDE DEF g
<1>7. LiveIn(lv, b + PAGE)
  BY <1>1, <1>5 DEF Sep, LiveIn, Within
<1>8. ListIn(g, b + PAGE)
  <2> SUFFICES ASSUME NEW d \in Classes, NEW k \in 1 .. Len(g[d])
               PROVE  Within(g[d][k], BlockSize(d), b + PAGE)
    BY DEF ListIn
  <2>1. CASE d = c
    <3>1. k \in 1 .. n /\ g[d][k] = B[k]
      BY <2>1, <1>2, <1>3
    <3>2. p <= B[k] /\ B[k] + BlockSize(c) <= p + PAGE /\ B[k] \in Nat
      BY <3>1, <1>2, <1>4
    <3>3. b + PAGE \in Nat /\ b + PAGE <= b + PAGE
      BY <1>1
    <3>4. start <= B[k] /\ B[k] + BlockSize(c) <= start + (b + PAGE)
      BY <3>2, <3>3, <1>1, BlockInPage, Zenon
    <3> QED
      BY <3>1, <3>4, <2>1, Zenon DEF Within
  <2>2. CASE d # c
    <3>1. k \in 1 .. Len(fl[d]) /\ g[d][k] = fl[d][k]
      BY <2>2, <1>3
    <3>2. start <= fl[d][k] /\ fl[d][k] + BlockSize(d) <= start + b
      BY <3>1, Zenon DEF Sep, ListIn, Within
    <3>3. fl[d][k] \in Nat /\ BlockSize(d) \in Nat
      BY <3>1, <1>6
    <3>4. fl[d][k] + BlockSize(d) <= start + (b + PAGE)
      BY <3>2, <3>3, <1>1, MoreRoom, Zenon
    <3> QED
      BY <3>1, <3>2, <3>4, Zenon DEF Within
  <2> QED
    BY <2>1, <2>2
<1>9. BothApart(g, lv)
  <2> SUFFICES ASSUME NEW x \in lv, NEW d \in Classes, NEW k \in 1 .. Len(g[d])
               PROVE  Apart(x.addr, Room(x.layout), g[d][k], BlockSize(d))
    BY DEF BothApart
  <2>1. CASE d = c
    <3>1. x.addr + Room(x.layout) <= p
      BY DEF Sep, LiveIn, Within
    <3>2. p <= g[d][k] /\ g[d][k] \in Nat
      BY <2>1, <1>2, <1>3, <1>4
    <3>3. x.addr + Room(x.layout) \in Nat
      BY <1>5
    <3>4. x.addr + Room(x.layout) <= g[d][k]
      BY <3>1, <3>2, <3>3, <1>1
    <3> QED
      BY <3>4 DEF Apart
  <2>2. CASE d # c
    BY <2>2, <1>3 DEF Sep, BothApart
  <2> QED
    BY <2>1, <2>2
<1>10. ListApart(g)
  <2> SUFFICES ASSUME NEW d \in Classes, NEW e \in Classes, NEW j \in 1 .. Len(g[d]),
                      NEW k \in 1 .. Len(g[e]), d # e \/ j # k
               PROVE  Apart(g[d][j], BlockSize(d), g[e][k], BlockSize(e))
    BY DEF ListApart
  <2>1. CASE d = c /\ e = c
    BY <2>1, <1>1, <1>2, <1>3, <1>4 DEF Apart
  <2>2. CASE d = c /\ e # c
    <3>1. p <= g[d][j] /\ g[d][j] \in Nat
      BY <2>2, <1>2, <1>3, <1>4
    <3>2. k \in 1 .. Len(fl[e]) /\ g[e][k] = fl[e][k]
      BY <2>2, <1>3
    <3>3. fl[e][k] + BlockSize(e) <= p
      BY <3>2 DEF Sep, ListIn, Within
    <3>4. fl[e][k] \in Nat /\ BlockSize(e) \in Nat
      BY <3>2, <1>6
    <3>5. fl[e][k] + BlockSize(e) <= g[d][j]
      BY <3>1, <3>3, <3>4, <1>1, BelowAndAbove, Zenon
    <3> QED
      BY <3>2, <3>5, Zenon DEF Apart
  <2>3. CASE d # c /\ e = c
    <3>1. p <= g[e][k] /\ g[e][k] \in Nat
      BY <2>3, <1>2, <1>3, <1>4
    <3>2. j \in 1 .. Len(fl[d]) /\ g[d][j] = fl[d][j]
      BY <2>3, <1>3
    <3>3. fl[d][j] + BlockSize(d) <= p
      BY <3>2 DEF Sep, ListIn, Within
    <3>4. fl[d][j] \in Nat /\ BlockSize(d) \in Nat
      BY <3>2, <1>6
    <3>5. fl[d][j] + BlockSize(d) <= g[e][k]
      BY <3>1, <3>3, <3>4, <1>1, BelowAndAbove, Zenon
    <3> QED
      BY <3>2, <3>5, Zenon DEF Apart
  <2>4. CASE d # c /\ e # c
    BY <2>4, <1>3 DEF Sep, ListApart
  <2> QED
    BY <2>1, <2>2, <2>3, <2>4
<1>11. LiveApart(lv)
  BY DEF Sep
<1>12. g \in Lists /\ Sep(g, lv, b + PAGE)
  BY <1>3, <1>7, <1>8, <1>9, <1>10, <1>11 DEF Sep
<1> QED
  BY <1>12 DEF g, B

LEMMA AllButLast ==
  ASSUME NEW s \in Seq(Nat), Len(s) > 0
  PROVE  /\ Len(SubSeq(s, 1, Len(s) - 1)) = Len(s) - 1
         /\ \A k \in 1 .. Len(s) - 1 : SubSeq(s, 1, Len(s) - 1)[k] = s[k]
<1> DEFINE n == Len(s) - 1
<1>1. n \in Int /\ n \in Nat /\ n = n - 1 + 1
  OBVIOUS
<1>2. \A k \in 1 .. n : s[k] \in Nat
  OBVIOUS
<1> HIDE DEF n
<1>3. /\ Len(SubSeq(s, 1, n)) = IF 1 <= n THEN n - 1 + 1 ELSE 0
      /\ \A k \in 1 .. n - 1 + 1 : SubSeq(s, 1, n)[k] = s[1 + k - 1]
  BY <1>1, <1>2
<1>4. Len(SubSeq(s, 1, n)) = n /\ \A k \in 1 .. n : SubSeq(s, 1, n)[k] = s[k]
  BY <1>1, <1>3
<1> QED
  BY <1>4 DEF n

\* The last block of a class's list goes to a caller.
LEMMA PopSeparates ==
  ASSUME NEW fl \in Lists, NEW lv \in SUBSET Held, NEW b \in Nat, Sep(fl, lv, b),
         NEW x \in Held, NEW c \in find_slab_class(aligned_size(x.layout)),
         Len(fl[c]) > 0, x.addr = fl[c][Len(fl[c])],
         NEW g \in Lists, Len(g[c]) = Len(fl[c]) - 1,
         \A k \in 1 .. Len(g[c]) : g[c][k] = fl[c][k], \A d \in Classes : d # c => g[d] = fl[d]
  PROVE  x \notin lv /\ Sep(g, lv \cup {x}, b)
<1> DEFINE n == Len(fl[c])
<1>1. /\ x.layout \in Layouts /\ c \in Classes
      /\ Room(x.layout) = BlockSize(c) /\ BlockSize(c) \in Nat \ {0}
  BY OneClass, BlockSizes DEF Held
<1>2. fl[c] \in Seq(Nat) /\ n \in Nat /\ n \in 1 .. Len(fl[c])
  BY <1>1 DEF Lists
<1>3. Len(g[c]) = n - 1 /\ \A k \in 1 .. n - 1 : g[c][k] = fl[c][k]
  OBVIOUS
<1>4. x.addr \in Nat
  BY DEF Held
<1>5. ASSUME NEW d \in Classes, NEW k \in 1 .. Len(g[d])
      PROVE  k \in 1 .. Len(fl[d]) /\ g[d][k] = fl[d][k] /\ (c # d \/ n # k)
  <2>1. CASE d = c
    <3>1. k \in 1 .. n - 1
      BY <2>1, <1>3
    <3>2. g[c][k] = fl[c][k]
      BY <3>1, <1>3
    <3>3. k \in 1 .. n /\ n # k
      BY <3>1, <1>2
    <3> QED
      BY <3>2, <3>3, <2>1
  <2>2. CASE d # c
    BY <2>2
  <2> QED
    BY <2>1, <2>2
<1>7. \A y \in lv : Apart(y.addr, Room(y.layout), x.addr, Room(x.layout))
  BY <1>1, <1>2, Zenon DEF Sep, BothApart
<1>8. x \notin lv
  BY <1>1, <1>4, <1>7 DEF Apart
<1>9. LiveIn(lv \cup {x}, b)
  BY <1>1, <1>2, Zenon DEF Sep, LiveIn, ListIn
<1>10. ListIn(g, b)
  BY <1>5 DEF Sep, ListIn
<1>11. LiveApart(lv \cup {x})
  BY <1>7 DEF Sep, LiveApart, Apart
<1>12. BothApart(g, lv \cup {x})
  <2> SUFFICES ASSUME NEW y \in lv \cup {x}, NEW d \in Classes, NEW k \in 1 .. Len(g[d])
               PROVE  Apart(y.addr, Room(y.layout), g[d][k], BlockSize(d))
    BY DEF BothApart
  <2>1. CASE y \in lv
    BY <2>1, <1>5 DEF Sep, BothApart
  <2>2. CASE y = x
    <3>1. k \in 1 .. Len(fl[d]) /\ g[d][k] = fl[d][k] /\ (c # d \/ n # k)
      BY <1>5
    <3>2. Apart(fl[c][n], BlockSize(c), fl[d][k], BlockSize(d))
      BY <3>1, <1>1, <1>2, Zenon DEF Sep, ListApart
    <3> QED
      BY <3>1, <3>2, <2>2, <1>1
  <2> QED
    BY <2>1, <2>2
<1>13. ListApart(g)
  BY <1>5, Zenon DEF Sep, ListApart
<1> QED
  BY <1>3, <1>8, <1>9, <1>10, <1>11, <1>12, <1>13 DEF Sep

\* A caller's block goes back to the list of its class.
LEMMA PushSeparates ==
  ASSUME NEW fl \in Lists, NEW lv \in SUBSET Held, NEW b \in Nat, Sep(fl, lv, b),
         NEW x \in lv, NEW c \in find_slab_class(aligned_size(x.layout)),
         NEW g \in Lists, Len(g[c]) = Len(fl[c]) + 1, g[c][Len(g[c])] = x.addr,
         \A k \in 1 .. Len(fl[c]) : g[c][k] = fl[c][k], \A d \in Classes : d # c => g[d] = fl[d]
  PROVE  Sep(g, lv \ {x}, b)
<1> DEFINE n == Len(fl[c]) + 1
<1>1. /\ x.addr \in Nat /\ x.layout \in Layouts
      /\ c \in Classes /\ Room(x.layout) = BlockSize(c) /\ BlockSize(c) \in Nat \ {0}
  BY OneClass, BlockSizes DEF Held
<1>2. fl[c] \in Seq(Nat) /\ n \in Nat /\ Len(fl[c]) = n - 1
  BY <1>1 DEF Lists
<1>3. Len(g[c]) = n /\ g[c][n] = x.addr /\ \A k \in 1 .. n - 1 : g[c][k] = fl[c][k]
  BY <1>1, <1>2
<1>5. ASSUME NEW d \in Classes, NEW k \in 1 .. Len(g[d])
      PROVE  \/ k \in 1 .. Len(fl[d]) /\ g[d][k] = fl[d][k]
             \/ d = c /\ k = n /\ g[d][k] = x.addr
  <2>1. CASE d = c
    <3>1. k \in 1 .. n
      BY <2>1, <1>3
    <3>2. CASE k = n
      BY <3>2, <2>1, <1>3
    <3>3. CASE k # n
      <4>1. k \in 1 .. n - 1
        BY <3>1, <3>3, <1>2
      <4>2. g[c][k] = fl[c][k]
        BY <4>1, <1>3
      <4> QED
        BY <4>1, <4>2, <2>1, <1>2
    <3> QED
      BY <3>2, <3>3
  <2>2. CASE d # c
    BY <2>2
  <2> QED
    BY <2>1, <2>2
<1>6. LiveIn(lv \ {x}, b) /\ LiveApart(lv \ {x})
  BY DEF Sep, LiveIn, LiveApart
<1>7. ListIn(g, b)
  <2> SUFFICES ASSUME NEW d \in Classes, NEW k \in 1 .. Len(g[d])
               PROVE  Within(g[d][k], BlockSize(d), b)
    BY DEF ListIn
  <2>1. CASE k \in 1 .. Len(fl[d]) /\ g[d][k] = fl[d][k]
    BY <2>1 DEF Sep, ListIn
  <2>2. CASE d = c /\ k = n /\ g[d][k] = x.addr
    BY <2>2, <1>1 DEF Sep, LiveIn
  <2> QED
    BY <2>1, <2>2, <1>5
<1>8. BothApart(g, lv \ {x})
  <2> SUFFICES ASSUME NEW y \in lv \ {x}, NEW d \in Classes, NEW k \in 1 .. Len(g[d])
               PROVE  Apart(y.addr, Room(y.layout), g[d][k], BlockSize(d))
    BY DEF BothApart
  <2>1. Apart(y.addr, Room(y.layout), x.addr, Room(x.layout))
    BY DEF Sep, LiveApart
  <2> QED
    BY <2>1, <1>1, <1>5 DEF Sep, BothApart
<1>9. ListApart(g)
  <2> SUFFICES ASSUME NEW d \in Classes, NEW e \in Classes, NEW j \in 1 .. Len(g[d]),
                      NEW k \in 1 .. Len(g[e]), d # e \/ j # k
               PROVE  Apart(g[d][j], BlockSize(d), g[e][k], BlockSize(e))
    BY DEF ListApart
  <2>1. CASE d = c /\ j = n /\ g[d][j] = x.addr
    <3>1. k \in 1 .. Len(fl[e]) /\ g[e][k] = fl[e][k]
      BY <2>1, <1>5
    <3> QED
      BY <3>1, <2>1, <1>1 DEF Sep, BothApart
  <2>2. CASE e = c /\ k = n /\ g[e][k] = x.addr
    <3>1. j \in 1 .. Len(fl[d]) /\ g[d][j] = fl[d][j]
      BY <2>2, <1>5
    <3>2. Apart(x.addr, BlockSize(c), g[d][j], BlockSize(d))
      BY <3>1, <1>1 DEF Sep, BothApart
    <3> QED
      BY <3>2, <2>2 DEF Apart
  <2>3. CASE /\ j \in 1 .. Len(fl[d]) /\ g[d][j] = fl[d][j]
             /\ k \in 1 .. Len(fl[e]) /\ g[e][k] = fl[e][k]
    BY <2>3 DEF Sep, ListApart
  <2> QED
    BY <2>1, <2>2, <2>3, <1>5
<1> QED
  BY <1>2, <1>3, <1>6, <1>7, <1>8, <1>9 DEF Sep

\* The bump pointer gives memory no class and no caller has.
LEMMA BumpSeparates ==
  ASSUME NEW fl \in Lists, NEW lv \in SUBSET Held, NEW b \in Nat, Sep(fl, lv, b),
         NEW l \in Layouts, find_slab_class(aligned_size(l)) = {}, NEW o \in Nat, b <= o
  PROVE  LET x == [addr |-> start + o, layout |-> l]
         IN  x \in Held /\ x \notin lv /\ Sep(fl, lv \cup {x}, o + aligned_size(l))
<1> DEFINE x == [addr |-> start + o, layout |-> l]
           m == aligned_size(l)
<1>1. start \in Nat /\ m \in Nat \ {0} /\ Room(l) = m
  BY Constants, AlignedSize DEF Room
<1>2. x \in Held /\ x.addr = start + o /\ x.layout = l
  BY <1>1 DEF Held
<1> HIDE DEF x, m
<1>3. \A y \in lv : /\ y.addr \in Nat /\ Room(y.layout) \in Nat \ {0}
                    /\ start <= y.addr /\ y.addr + Room(y.layout) <= start + b
  BY RoomSuffices DEF Held, Sep, LiveIn, Within
<1>4. \A c \in Classes : \A k \in 1 .. Len(fl[c]) :
        /\ fl[c][k] \in Nat /\ BlockSize(c) \in Nat
        /\ start <= fl[c][k] /\ fl[c][k] + BlockSize(c) <= start + b
  BY BlockSizes DEF Lists, Sep, ListIn, Within
<1>5. \A y \in lv : y.addr + Room(y.layout) <= x.addr
  BY <1>1, <1>2, <1>3
<1>6. \A c \in Classes : \A k \in 1 .. Len(fl[c]) : fl[c][k] + BlockSize(c) <= x.addr
  BY <1>1, <1>2, <1>4
<1>7. x \notin lv
  BY <1>3, <1>5
<1>8. LiveIn(lv \cup {x}, o + m)
  BY <1>1, <1>2, <1>3 DEF LiveIn, Within
<1>9. ListIn(fl, o + m)
  BY <1>1, <1>4 DEF ListIn, Within
<1>10. LiveApart(lv \cup {x})
  BY <1>5 DEF Sep, LiveApart, Apart
<1>11. BothApart(fl, lv \cup {x})
  BY <1>6 DEF Sep, BothApart, Apart
<1>12. x \in Held /\ x \notin lv /\ Sep(fl, lv \cup {x}, o + m)
  BY <1>2, <1>7, <1>8, <1>9, <1>10, <1>11 DEF Sep
<1> QED
  BY <1>12 DEF x, m

\* One page for every class, none of it held.
LEMMA InitSeparates ==
  ASSUME NEW n \in [Classes -> Nat], \A c \in Classes : n[c] <= PAGE \div BlockSize(c)
  PROVE  LET g == [c \in Classes |-> Blocks(start + c * PAGE, BlockSize(c), n[c])]
         IN  /\ g \in Lists /\ Sep(g, {}, SLAB_CLASSES * PAGE)
             /\ \A c \in Classes : Len(g[c]) = n[c]
<1> DEFINE g == [c \in Classes |-> Blocks(start + c * PAGE, BlockSize(c), n[c])]
           off(c) == c * PAGE
<1>1. PAGE \in Nat /\ start \in Nat /\ SLAB_CLASSES \in Nat /\ Classes \subseteq Nat
  BY Constants
<1>2. \A c \in Classes : off(c) \in Nat /\ start + off(c) \in Nat
  BY <1>1
<1>3. \A c, d \in Classes : c < d => off(c) + PAGE <= off(d)
  BY <1>1, Multiples
<1>4. \A c \in Classes : off(c) + PAGE <= SLAB_CLASSES * PAGE
  BY <1>1, Multiples DEF Classes
<1>5. SLAB_CLASSES * PAGE \in Nat
  BY <1>1
<1>6. ASSUME NEW c \in Classes
      PROVE  /\ g[c] \in Seq(Nat) /\ Len(g[c]) = n[c]
             /\ \A j \in 1 .. n[c] : /\ start + off(c) <= g[c][j]
                                     /\ g[c][j] + BlockSize(c) <= start + off(c) + PAGE
             /\ \A j, k \in 1 .. n[c] : j < k => g[c][j] + BlockSize(c) <= g[c][k]
  <2>1. g[c] = Blocks(start + off(c), BlockSize(c), n[c])
    OBVIOUS
  <2>2. n[c] \in Nat /\ n[c] <= PAGE \div BlockSize(c) /\ BlockSize(c) \in Nat \ {0}
    BY BlockSizes
  <2> DEFINE q == start + off(c)
             B == Blocks(q, BlockSize(c), n[c])
  <2>3. q \in Nat
    BY <1>2
  <2> HIDE DEF g, off, q
  <2>4. /\ B \in Seq(Nat) /\ Len(B) = n[c]
        /\ \A j \in 1 .. n[c] : q <= B[j] /\ B[j] + BlockSize(c) <= q + PAGE
        /\ \A j, k \in 1 .. n[c] : j < k => B[j] + BlockSize(c) <= B[k]
    BY <2>2, <2>3, BlocksOfPage, Zenon
  <2> QED
    BY <2>1, <2>4 DEF q
<1>7. g \in Lists
  <2>1. g = [c \in Classes |-> g[c]]
    OBVIOUS
  <2> HIDE DEF g
  <2> QED
    BY <2>1, <1>6 DEF Lists
<1> DEFINE T == SLAB_CLASSES * PAGE
<1> HIDE DEF g, off, T
<1>8. \A c \in Classes : /\ off(c) \in Nat /\ off(c) + PAGE <= T /\ T \in Nat
                         /\ BlockSize(c) \in Nat /\ n[c] \in Nat
                         /\ \A j \in 1 .. n[c] : g[c][j] \in Nat
  BY <1>2, <1>4, <1>5, <1>6, BlockSizes DEF T
<1>9. ListIn(g, T)
  <2> SUFFICES ASSUME NEW c \in Classes, NEW j \in 1 .. Len(g[c])
               PROVE  Within(g[c][j], BlockSize(c), T)
    BY DEF ListIn
  <2>1. j \in 1 .. n[c]
    BY <1>6
  <2>2. start + off(c) <= g[c][j] /\ g[c][j] + BlockSize(c) <= start + off(c) + PAGE
    BY <2>1, <1>6
  <2> QED
    <3>1. g[c][j] \in Nat /\ BlockSize(c) \in Nat /\ off(c) \in Nat /\ T \in Nat /\ off(c) + PAGE <= T
      BY <2>1, <1>8
    <3> QED
      BY <3>1, <2>2, <1>1, BlockInPage, Zenon DEF Within
<1>10. ListApart(g)
  <2> SUFFICES ASSUME NEW c \in Classes, NEW d \in Classes, NEW j \in 1 .. Len(g[c]),
                      NEW k \in 1 .. Len(g[d]), c # d \/ j # k
               PROVE  Apart(g[c][j], BlockSize(c), g[d][k], BlockSize(d))
    BY DEF ListApart
  <2>1. /\ j \in 1 .. n[c] /\ k \in 1 .. n[d]
        /\ g[c][j] \in Nat /\ g[d][k] \in Nat /\ BlockSize(c) \in Nat /\ BlockSize(d) \in Nat
        /\ off(c) \in Nat /\ off(d) \in Nat /\ c \in Nat /\ d \in Nat
    BY <1>1, <1>6, <1>8, Zenon
  <2>2. /\ start + off(c) <= g[c][j] /\ g[c][j] + BlockSize(c) <= start + off(c) + PAGE
        /\ start + off(d) <= g[d][k] /\ g[d][k] + BlockSize(d) <= start + off(d) + PAGE
    BY <2>1, <1>6
  <2>3. CASE c < d
    <3>1. off(c) + PAGE <= off(d)
      BY <2>3, <1>3
    <3>2. g[c][j] + BlockSize(c) <= g[d][k]
      BY <3>1, <2>1, <2>2, <1>1, PagesApart, Zenon
    <3> QED
      BY <3>2 DEF Apart
  <2>4. CASE d < c
    <3>1. off(d) + PAGE <= off(c)
      BY <2>4, <1>3
    <3>2. g[d][k] + BlockSize(d) <= g[c][j]
      BY <3>1, <2>1, <2>2, <1>1, PagesApart, Zenon
    <3> QED
      BY <3>2 DEF Apart
  <2>5. CASE c = d /\ j # k
    <3>1. k \in 1 .. n[c] /\ n[c] \in Nat
      BY <2>5, <2>1
    <3>2. CASE j < k
      BY <3>1, <3>2, <2>1, <2>5, <1>6, Zenon DEF Apart
    <3>3. CASE k < j
      BY <3>1, <3>3, <2>1, <2>5, <1>6, Zenon DEF Apart
    <3>4. j \in Nat /\ k \in Nat
      BY <3>1, <2>1
    <3> QED
      BY <3>2, <3>3, <3>4, <2>5
  <2>6. c < d \/ d < c \/ c = d
    BY <2>1
  <2> QED
    BY <2>3, <2>4, <2>5, <2>6
<1>11. g \in Lists /\ Sep(g, {}, T) /\ \A c \in Classes : Len(g[c]) = n[c]
  BY <1>6, <1>7, <1>9, <1>10 DEF Sep, LiveIn, LiveApart, BothApart
<1> QED
  BY <1>11 DEF g, T, off

-----------------------------------------------------------------------------
(* The count of the blocks *)

InClass(lv, c) == {x \in lv : c \in find_slab_class(aligned_size(x.layout))}

Counts(fl, lv, tc) ==
  /\ IsFiniteSet(lv)
  /\ \A c \in Classes : /\ Len(fl[c]) + Cardinality(InClass(lv, c)) = tc[c]
                        /\ tc[c] <= MAX_BLOCKS_PER_CLASS

LEMMA HeldCount ==
  ASSUME NEW lv, IsFiniteSet(lv), NEW c
  PROVE  IsFiniteSet(InClass(lv, c)) /\ Cardinality(InClass(lv, c)) \in Nat
<1>1. InClass(lv, c) \subseteq lv
  BY DEF InClass
<1> QED
  BY <1>1, FS_Subset, FS_CardinalityType

LEMMA RefillCounts ==
  ASSUME NEW fl \in Lists, NEW lv, NEW tc \in [Classes -> Nat], Counts(fl, lv, tc),
         NEW c \in Classes, fl[c] = <<>>, NEW n \in Nat, n <= MAX_BLOCKS_PER_CLASS - tc[c],
         NEW g \in Lists, Len(g[c]) = n, \A d \in Classes : d # c => g[d] = fl[d]
  PROVE  Counts(g, lv, [tc EXCEPT ![c] = @ + n])
<1> DEFINE t == [tc EXCEPT ![c] = @ + n]
<1>1. t[c] = tc[c] + n /\ \A d \in Classes : d # c => t[d] = tc[d]
  OBVIOUS
<1>2. Len(fl[c]) = 0
  OBVIOUS
<1> HIDE DEF t
<1>3. MAX_BLOCKS_PER_CLASS \in Nat /\ tc[c] \in Nat
  BY Constants
<1>4. Cardinality(InClass(lv, c)) \in Nat
  BY HeldCount DEF Counts
<1>5. ASSUME NEW d \in Classes
      PROVE  Len(g[d]) + Cardinality(InClass(lv, d)) = t[d] /\ t[d] <= MAX_BLOCKS_PER_CLASS
  <2>1. CASE d = c
    <3>1. Len(fl[c]) + Cardinality(InClass(lv, c)) = tc[c]
      BY DEF Counts
    <3> QED
      BY <3>1, <2>1, <1>1, <1>2, <1>3, <1>4
  <2>2. CASE d # c
    BY <2>2, <1>1 DEF Counts
  <2> QED
    BY <2>1, <2>2
<1>6. Counts(g, lv, t)
  BY <1>5 DEF Counts
<1> QED
  BY <1>6 DEF t

LEMMA PopCounts ==
  ASSUME NEW fl \in Lists, NEW lv \in SUBSET Held, NEW tc, Counts(fl, lv, tc),
         NEW x \in Held, x \notin lv, NEW c \in find_slab_class(aligned_size(x.layout)),
         NEW g \in Lists, Len(g[c]) = Len(fl[c]) - 1, \A d \in Classes : d # c => g[d] = fl[d]
  PROVE  Counts(g, lv \cup {x}, tc)
<1>1. c \in Classes /\ find_slab_class(aligned_size(x.layout)) = {c}
  BY OneClass DEF Held
<1>2. IsFiniteSet(lv) /\ IsFiniteSet(lv \cup {x})
  BY FS_AddElement DEF Counts
<1>3. InClass(lv \cup {x}, c) = InClass(lv, c) \cup {x} /\ x \notin InClass(lv, c)
  BY DEF InClass
<1>4. /\ Cardinality(InClass(lv \cup {x}, c)) = Cardinality(InClass(lv, c)) + 1
      /\ Cardinality(InClass(lv, c)) \in Nat
  BY <1>2, <1>3, HeldCount, FS_AddElement, ZenonT(60)
<1>5. \A d \in Classes : d # c => InClass(lv \cup {x}, d) = InClass(lv, d)
  BY <1>1 DEF InClass
<1>6. Len(g[c]) + Cardinality(InClass(lv \cup {x}, c)) = Len(fl[c]) + Cardinality(InClass(lv, c))
  <2>1. Len(fl[c]) \in Nat
    BY <1>1 DEF Lists
  <2> QED
    BY <2>1, <1>4
<1> QED
  BY <1>1, <1>2, <1>5, <1>6, Zenon DEF Counts

LEMMA PushCounts ==
  ASSUME NEW fl \in Lists, NEW lv \in SUBSET Held, NEW tc \in [Classes -> Nat], Counts(fl, lv, tc),
         NEW x \in lv, NEW c \in find_slab_class(aligned_size(x.layout))
  PROVE  /\ Len(fl[c]) < MAX_BLOCKS_PER_CLASS
         /\ \A g \in Lists :
              Len(g[c]) = Len(fl[c]) + 1 /\ (\A d \in Classes : d # c => g[d] = fl[d])
                => Counts(g, lv \ {x}, tc)
<1>1. c \in Classes /\ find_slab_class(aligned_size(x.layout)) = {c}
  BY OneClass DEF Held
<1>2. IsFiniteSet(lv) /\ IsFiniteSet(lv \ {x})
  BY FS_RemoveElement DEF Counts
<1>3. InClass(lv \ {x}, c) = InClass(lv, c) \ {x} /\ x \in InClass(lv, c)
  BY DEF InClass
<1>4. /\ Cardinality(InClass(lv \ {x}, c)) = Cardinality(InClass(lv, c)) - 1
      /\ Cardinality(InClass(lv, c)) \in Nat /\ Cardinality(InClass(lv \ {x}, c)) \in Nat
  <2>1. Cardinality(InClass(lv, c)) \in Nat /\ Cardinality(InClass(lv \ {x}, c)) \in Nat
    BY <1>2, HeldCount
  <2>2. IsFiniteSet(InClass(lv, c))
    BY <1>2, HeldCount
  <2>3. Cardinality(InClass(lv, c) \ {x}) = Cardinality(InClass(lv, c)) - 1
    BY <2>2, <1>3, FS_RemoveElement, Zenon
  <2> QED
    BY <2>1, <2>3, <1>3
<1>5. \A d \in Classes : d # c => InClass(lv \ {x}, d) = InClass(lv, d)
  BY <1>1 DEF InClass
<1>6. /\ Len(fl[c]) \in Nat /\ tc[c] \in Nat /\ MAX_BLOCKS_PER_CLASS \in Nat
      /\ Len(fl[c]) + Cardinality(InClass(lv, c)) = tc[c] /\ tc[c] <= MAX_BLOCKS_PER_CLASS
  BY <1>1, Constants DEF Lists, Counts
<1>7. Len(fl[c]) < MAX_BLOCKS_PER_CLASS
  BY <1>4, <1>6
<1>8. ASSUME NEW g \in Lists, Len(g[c]) = Len(fl[c]) + 1, \A d \in Classes : d # c => g[d] = fl[d]
      PROVE  Counts(g, lv \ {x}, tc)
  <2>1. Len(g[c]) + Cardinality(InClass(lv \ {x}, c)) = tc[c]
    BY <1>4, <1>6, <1>8
  <2> QED
    BY <2>1, <1>1, <1>2, <1>5, <1>8, Zenon DEF Counts
<1> QED
  BY <1>7, <1>8, Zenon

\* What the bump pointer gives and takes is in no class.
LEMMA NoClassCounts ==
  ASSUME NEW fl, NEW lv, NEW tc, Counts(fl, lv, tc),
         NEW x, find_slab_class(aligned_size(x.layout)) = {}
  PROVE  Counts(fl, lv \cup {x}, tc) /\ Counts(fl, lv \ {x}, tc)
<1>1. IsFiniteSet(lv \cup {x}) /\ IsFiniteSet(lv \ {x})
  BY FS_AddElement, FS_RemoveElement DEF Counts
<1>2. \A c \in Classes : InClass(lv \cup {x}, c) = InClass(lv, c) /\ InClass(lv \ {x}, c) = InClass(lv, c)
  BY DEF InClass
<1> QED
  BY <1>1, <1>2, Zenon DEF Counts

-----------------------------------------------------------------------------
(* The inductive invariant *)

HeapType ==
  /\ HEAP_INITIALIZED \in BOOLEAN
  /\ bump_offset \in Nat
  /\ free_list \in Lists
  /\ total_count \in [Classes -> Nat]
  /\ live \in SUBSET Held

\* Before init heap_size is 0, so that every request is refused.
NothingBeforeInit ==
  ~ HEAP_INITIALIZED => live = {} /\ \A c \in Classes : free_list[c] = <<>>

HeapInv ==
  /\ HeapType
  /\ NothingBeforeInit
  /\ Sep(free_list, live, bump_offset)
  /\ Counts(free_list, live, total_count)

\* The number of blocks init gives a class, and a refill.
LEMMA Added ==
  ASSUME NEW c \in Classes, NEW m \in Nat
  PROVE  LET n == min(PAGE \div BlockSize(c), m)
         IN  n \in Nat /\ n <= PAGE \div BlockSize(c) /\ n <= m
<1>1. PAGE \div BlockSize(c) \in Nat
  BY Constants, BlockSizes, DivisionRoundsDown
<1> HIDE DEF BlockSize
<1> QED
  BY <1>1 DEF min

LEMMA InitKeeps == Init => HeapInv
<1> SUFFICES ASSUME Init PROVE HeapInv
  OBVIOUS
<1>1. HeapType /\ NothingBeforeInit
  <2>1. <<>> \in Seq(Nat)
    OBVIOUS
  <2>2. free_list \in Lists
    BY <2>1 DEF Init, Lists
  <2>3. total_count \in [Classes -> Nat]
    BY DEF Init
  <2> QED
    BY <2>2, <2>3, Zenon DEF Init, HeapType, NothingBeforeInit
<1>2. \A c \in Classes : free_list[c] = <<>> /\ Len(free_list[c]) = 0 /\ total_count[c] = 0
  BY DEF Init
<1>3. live = {}
  BY DEF Init
<1>4. Sep(free_list, live, bump_offset)
  BY <1>2, <1>3 DEF Sep, LiveIn, ListIn, LiveApart, BothApart, ListApart
<1>5. \A c \in Classes : Cardinality(InClass(live, c)) = 0
  <2>1. \A c \in Classes : InClass(live, c) = {}
    BY <1>3 DEF InClass
  <2> QED
    BY <2>1, FS_EmptySet
<1>6. Counts(free_list, live, total_count)
  <2>1. \A c \in Classes : /\ Len(free_list[c]) + Cardinality(InClass(live, c)) = total_count[c]
                           /\ total_count[c] <= MAX_BLOCKS_PER_CLASS
    BY <1>2, <1>5, Constants
  <2> QED
    BY <2>1, <1>3, FS_EmptySet DEF Counts
<1> QED
  BY <1>1, <1>4, <1>6 DEF HeapInv

LEMMA initKeeps == HeapInv /\ init => HeapInv'
<1> SUFFICES ASSUME HeapInv, init PROVE HeapInv'
  OBVIOUS
<1> DEFINE n == [c \in Classes |-> min(PAGE \div BlockSize(c), MAX_BLOCKS_PER_CLASS)]
<1>1. \A c \in Classes : n[c] \in Nat /\ n[c] <= PAGE \div BlockSize(c) /\ n[c] <= MAX_BLOCKS_PER_CLASS
  BY Added, Constants
<1>2. n \in [Classes -> Nat]
  BY <1>1
<1>3. /\ free_list' = [c \in Classes |-> Blocks(start + c * PAGE, BlockSize(c), n[c])]
      /\ total_count' = n
      /\ bump_offset' = SLAB_CLASSES * PAGE /\ HEAP_INITIALIZED'
  BY DEF init
<1>4. live' = {}
  BY DEF init, HeapInv, NothingBeforeInit
<1> HIDE DEF n
<1>5. /\ free_list' \in Lists /\ Sep(free_list', {}, SLAB_CLASSES * PAGE)
      /\ \A c \in Classes : Len(free_list'[c]) = n[c]
  BY <1>1, <1>2, <1>3, InitSeparates
<1>6. SLAB_CLASSES * PAGE \in Nat
  BY Constants
<1>7. HeapType' /\ NothingBeforeInit'
  BY <1>2, <1>3, <1>4, <1>5, <1>6 DEF init, HeapType, NothingBeforeInit
<1>8. Sep(free_list', live', bump_offset')
  BY <1>3, <1>4, <1>5
<1>9. \A c \in Classes : Cardinality(InClass(live', c)) = 0
  <2>1. \A c \in Classes : InClass(live', c) = {}
    BY <1>4 DEF InClass
  <2> QED
    BY <2>1, FS_EmptySet
<1>10. Counts(free_list', live', total_count')
  <2>1. \A c \in Classes : Len(free_list'[c]) + Cardinality(InClass(live', c)) = total_count'[c]
    BY <1>1, <1>3, <1>5, <1>9
  <2> QED
    BY <2>1, <1>1, <1>3, <1>4, FS_EmptySet DEF Counts
<1> QED
  BY <1>7, <1>8, <1>10 DEF HeapInv

\* The bump pointer's answer to a request of no class.
LEMMA bumpKeeps ==
  ASSUME HeapInv, NEW l \in Layouts, find_slab_class(aligned_size(l)) = {},
         alloc_bump(aligned_size(l), l.align, l), UNCHANGED HEAP_INITIALIZED
  PROVE  HeapInv'
<1> DEFINE m == aligned_size(l)
           o == ((bump_offset + l.align - 1) \div l.align) * l.align
           x == [addr |-> start + o, layout |-> l]
<1>1. HeapType /\ m \in Nat \ {0} /\ l.align \in Nat \ {0} /\ start \in Nat \ {0} /\ size \in Nat
  BY AlignedSize, Constants DEF HeapInv
<1>2. bump_offset \in Nat /\ o \in Nat /\ bump_offset <= o
  BY <1>1, RoundingUp, Zenon DEF HeapType
<1>3. /\ bump_offset' = IF o + m <= heap_size THEN o + m ELSE bump_offset
      /\ Answer(l, IF o + m <= heap_size THEN start + o ELSE Null)
      /\ free_list' = free_list /\ total_count' = total_count
  BY DEF alloc_bump
<1> HIDE DEF o, m
<1>4. CASE ~ (o + m <= heap_size)
  <2>1. live' = live /\ bump_offset' = bump_offset
    BY <1>3, <1>4 DEF Answer
  <2> QED
    BY <2>1, <1>3 DEF HeapInv, HeapType, NothingBeforeInit
<1>5. CASE o + m <= heap_size
  <2>1. start + o # Null
    BY <1>1, <1>2 DEF Null
  <2>2. live' = live \cup {x} /\ bump_offset' = o + m
    BY <2>1, <1>3, <1>5 DEF Answer
  <2>3. HEAP_INITIALIZED
    BY <1>1, <1>2, <1>5 DEF heap_size
  <2>4. x \in Held /\ x \notin live /\ Sep(free_list, live \cup {x}, o + m)
    BY <1>1, <1>2, BumpSeparates DEF m, HeapInv, HeapType
  <2>5. Counts(free_list, live \cup {x}, total_count)
    BY NoClassCounts DEF HeapInv
  <2>6. HeapType' /\ NothingBeforeInit'
    BY <2>2, <2>3, <2>4, <1>1, <1>2, <1>3 DEF HeapType, NothingBeforeInit
  <2> QED
    BY <2>2, <2>4, <2>5, <2>6, <1>3 DEF HeapInv
<1> QED
  BY <1>4, <1>5

\* A class's answer: its last block, from its list or from a new page.
LEMMA slabKeeps ==
  ASSUME HeapInv, NEW l \in Layouts, NEW c \in find_slab_class(aligned_size(l)),
         alloc_from_slab(c, l), UNCHANGED HEAP_INITIALIZED
  PROVE  HeapInv'
<1> DEFINE full == free_list[c] = <<>> /\ bump_offset + PAGE <= heap_size
           added == min(PAGE \div BlockSize(c), MAX_BLOCKS_PER_CLASS - total_count[c])
           list == IF full THEN Blocks(start + bump_offset, BlockSize(c), added) ELSE free_list[c]
           fl == [free_list EXCEPT ![c] = list]
           tc == total_count'
           b == bump_offset'
           n == Len(list)
<1>1. HeapType /\ c \in Classes /\ MAX_BLOCKS_PER_CLASS - total_count[c] \in Nat
      /\ start \in Nat \ {0} /\ PAGE \in Nat \ {0}
  <2>1. HeapType /\ c \in Classes /\ start \in Nat \ {0} /\ PAGE \in Nat \ {0}
    BY OneClass, Constants DEF HeapInv
  <2>2. total_count[c] \in Nat /\ total_count[c] <= MAX_BLOCKS_PER_CLASS
    BY <2>1 DEF HeapInv, HeapType, Counts
  <2> QED
    BY <2>1, <2>2, Constants
<1>2. added \in Nat /\ added <= PAGE \div BlockSize(c) /\ added <= MAX_BLOCKS_PER_CLASS - total_count[c]
  BY <1>1, Added, SMTT(30)
<1> HIDE DEF added
<1>3. /\ IF full THEN b = bump_offset + PAGE /\ tc = [total_count EXCEPT ![c] = @ + added]
                 ELSE b = bump_offset /\ tc = total_count
      /\ free_list' = [free_list EXCEPT ![c] = IF n > 0 THEN SubSeq(list, 1, n - 1) ELSE list]
      /\ Answer(l, IF n > 0 THEN list[n] ELSE Null)
  BY SMTT(30) DEF alloc_from_slab, added
<1> HIDE DEF list
<1>4. /\ fl \in Lists /\ fl[c] = list /\ Sep(fl, live, b) /\ Counts(fl, live, tc)
      /\ b \in Nat /\ tc \in [Classes -> Nat] /\ (full => HEAP_INITIALIZED)
  <2>1. CASE full
    <3>1. list = Blocks(start + bump_offset, BlockSize(c), added)
      BY <2>1 DEF list
    <3>2. fl \in Lists /\ Sep(fl, live, bump_offset + PAGE)
      BY <3>1, <2>1, <1>1, <1>2, RefillSeparates, Zenon DEF HeapInv, HeapType
    <3>3. fl[c] = list /\ \A d \in Classes : d # c => fl[d] = free_list[d]
      BY <1>1 DEF HeapType, Lists
    <3>4. Len(fl[c]) = added
      <4>1. start + bump_offset \in Nat /\ BlockSize(c) \in Nat \ {0}
        BY <1>1, BlockSizes DEF HeapType
      <4>2. Len(Blocks(start + bump_offset, BlockSize(c), added)) = added
        BY <4>1, <1>2, BlocksOfPage
      <4> QED
        BY <4>2, <3>1, <3>3
    <3>5. Counts(fl, live, [total_count EXCEPT ![c] = @ + added])
      BY <3>2, <3>3, <3>4, <2>1, <1>1, <1>2, RefillCounts, Zenon DEF HeapInv, HeapType
    <3>6. HEAP_INITIALIZED
      BY <2>1, <1>1 DEF heap_size, HeapType
    <3>7. b \in Nat /\ tc \in [Classes -> Nat]
      BY <2>1, <1>1, <1>2, <1>3 DEF HeapType
    <3> QED
      BY <3>2, <3>3, <3>5, <3>6, <3>7, <2>1, <1>3, Zenon
  <2>2. CASE ~ full
    <3>1. list = free_list[c] /\ fl = free_list
      BY <2>2, <1>1 DEF list, HeapType, Lists
    <3> QED
      BY <3>1, <2>2, <1>3, Zenon DEF HeapInv, HeapType
  <2> QED
    BY <2>1, <2>2, Zenon
<1>5. list \in Seq(Nat) /\ n \in Nat
  BY <1>1, <1>4 DEF Lists
<1>6. free_list' = [fl EXCEPT ![c] = IF n > 0 THEN SubSeq(list, 1, n - 1) ELSE list]
  BY <1>1, <1>3, Zenon DEF HeapType, Lists
<1>7. list # <<>> => HEAP_INITIALIZED
  <2>1. CASE full
    BY <2>1, <1>4
  <2>2. CASE ~ full
    BY <2>2, <1>1 DEF list, HeapInv, NothingBeforeInit
  <2> QED
    BY <2>1, <2>2, SMTT(30)
<1> HIDE DEF full, fl, b, tc
<1>8. CASE n = 0
  <2>1. free_list' = fl /\ live' = live
    BY <1>1, <1>3, <1>4, <1>6, <1>8 DEF Answer, Lists
  <2>2. list = <<>>
    BY <1>5, <1>8
  <2>3. HeapType'
    BY <2>1, <1>1, <1>4 DEF HeapType, b, tc
  <2>4. NothingBeforeInit'
    <3>1. ASSUME ~ HEAP_INITIALIZED, NEW d \in Classes PROVE fl[d] = <<>>
      <4>1. free_list[d] = <<>>
        BY <3>1 DEF HeapInv, NothingBeforeInit
      <4> QED
        BY <4>1, <2>2, <1>1 DEF fl, HeapType, Lists
    <3>2. ~ HEAP_INITIALIZED => live = {}
      BY DEF HeapInv, NothingBeforeInit
    <3> QED
      BY <3>1, <3>2, <2>1 DEF NothingBeforeInit
  <2> QED
    BY <2>1, <2>3, <2>4, <1>4 DEF HeapInv, b, tc
<1>9. CASE n > 0
  <2> DEFINE x == [addr |-> list[n], layout |-> l]
             g == [fl EXCEPT ![c] = SubSeq(list, 1, n - 1)]
  <2>1. live \in SUBSET Held
    BY <1>1 DEF HeapType
  <2>2. /\ g \in Lists /\ x \in Held /\ x \notin live /\ Sep(g, live \cup {x}, b)
        /\ Len(g[c]) = n - 1 /\ \A d \in Classes : d # c => g[d] = fl[d]
    <3>1. n = Len(fl[c]) /\ n \in 1 .. Len(list)
      BY <1>4, <1>5, <1>9
    <3>2. x \in Held /\ x.addr = fl[c][n] /\ x.layout = l
      BY <3>1, <1>4, <1>5 DEF Held
    <3>3. SubSeq(list, 1, n - 1) \in Seq(Nat)
      BY <1>5, <1>9
    <3>4. /\ g \in Lists /\ g[c] = SubSeq(list, 1, n - 1)
          /\ \A d \in Classes : d # c => g[d] = fl[d]
      BY <3>3, <1>1, <1>4 DEF Lists
    <3>5. Len(g[c]) = n - 1 /\ \A k \in 1 .. Len(g[c]) : g[c][k] = list[k]
      <4>1. /\ Len(SubSeq(list, 1, n - 1)) = n - 1
            /\ \A k \in 1 .. n - 1 : SubSeq(list, 1, n - 1)[k] = list[k]
        BY <1>5, <1>9, AllButLast
      <4> QED
        BY <4>1, <3>4, Zenon
    <3>6. /\ Len(fl[c]) > 0 /\ x.addr = fl[c][Len(fl[c])] /\ Len(g[c]) = Len(fl[c]) - 1
          /\ \A k \in 1 .. Len(g[c]) : g[c][k] = fl[c][k]
          /\ c \in find_slab_class(aligned_size(x.layout))
      BY <3>1, <3>2, <3>5, <1>4, <1>9
    <3> HIDE DEF g, x
    <3>7. x \notin live /\ Sep(g, live \cup {x}, b)
      <4>1. fl \in Lists /\ live \in SUBSET Held /\ b \in Nat /\ Sep(fl, live, b)
        BY <2>1, <1>4
      <4>2. g \in Lists /\ x \in Held /\ \A d \in Classes : d # c => g[d] = fl[d]
        BY <3>2, <3>4
      <4> QED
        BY <4>1, <4>2, <3>6, PopSeparates, ZenonT(60)
    <3> QED
      BY <3>2, <3>4, <3>5, <3>7
  <2>3. free_list' = g
    BY <1>6, <1>9
  <2>4. list[n] # Null
    <3>1. start <= list[n]
      BY <1>1, <1>4, <1>5, <1>9 DEF Sep, ListIn, Within
    <3>2. list[n] \in Nat
      BY <1>5, <1>9
    <3> QED
      BY <3>1, <3>2, <1>1 DEF Null
  <2>5. live' = live \cup {x}
    BY <2>4, <1>3, <1>9 DEF Answer
  <2> HIDE DEF g
  <2>6. x.layout = l
    OBVIOUS
  <2> HIDE DEF x
  <2>7. Counts(g, live \cup {x}, tc)
    BY <2>1, <2>2, <2>6, <1>4, PopCounts, Zenon
  <2>8. HEAP_INITIALIZED
    BY <1>5, <1>7, <1>9
  <2>9. HeapType' /\ NothingBeforeInit'
    BY <2>1, <2>2, <2>3, <2>5, <2>8, <1>1, <1>4 DEF HeapType, NothingBeforeInit, b, tc
  <2> QED
    BY <2>2, <2>3, <2>5, <2>7, <2>9 DEF HeapInv, b, tc
<1> QED
  BY <1>5, <1>8, <1>9

LEMMA allocKeeps ==
  ASSUME HeapInv, NEW l \in Layouts, alloc(l)
  PROVE  HeapInv'
<1> DEFINE classes == {c \in find_slab_class(aligned_size(l)) : BlockSize(c) >= l.align}
<1>1. UNCHANGED HEAP_INITIALIZED
  BY DEF alloc
<1>2. CASE \E c \in classes : alloc_from_slab(c, l)
  BY <1>1, <1>2, slabKeeps
<1>3. CASE classes = {} /\ alloc_bump(aligned_size(l), l.align, l)
  <2>1. ASSUME NEW c \in find_slab_class(aligned_size(l)) PROVE FALSE
    <3>1. BlockSize(c) \in Nat /\ aligned_size(l) <= BlockSize(c)
      BY OneClass, BlockSizes
    <3>2. aligned_size(l) \in Nat /\ l.align \in Nat /\ l.align <= aligned_size(l)
      BY AlignedSize
    <3>3. BlockSize(c) >= l.align
      BY <3>1, <3>2
    <3> QED
      BY <3>3, <1>3
  <2> QED
    BY <2>1, <1>1, <1>3, bumpKeeps
<1> QED
  BY <1>2, <1>3 DEF alloc

LEMMA deallocKeeps ==
  ASSUME HeapInv, NEW x \in live, dealloc(x)
  PROVE  HeapInv'
<1>1. /\ HeapType /\ live \in SUBSET Held /\ x \in Held /\ HEAP_INITIALIZED
      /\ free_list \in Lists /\ total_count \in [Classes -> Nat] /\ bump_offset \in Nat
  BY DEF HeapInv, HeapType, NothingBeforeInit
<1>2. /\ live' = live \ {x} /\ bump_offset' = bump_offset /\ total_count' = total_count
      /\ HEAP_INITIALIZED' = HEAP_INITIALIZED
      /\ free_list' = [c \in Classes |->
           IF c \in find_slab_class(aligned_size(x.layout)) /\ Len(free_list[c]) < MAX_BLOCKS_PER_CLASS
           THEN Append(free_list[c], x.addr) ELSE free_list[c]]
  BY DEF dealloc
<1>3. CASE find_slab_class(aligned_size(x.layout)) = {}
  <2>1. free_list' = free_list
    BY <1>1, <1>2, <1>3, SMTT(30) DEF Lists
  <2>2. Sep(free_list, live \ {x}, bump_offset)
    BY DEF HeapInv, Sep, LiveIn, LiveApart, BothApart
  <2>3. Counts(free_list, live \ {x}, total_count)
    BY <1>3, NoClassCounts DEF HeapInv
  <2>4. HeapType' /\ NothingBeforeInit'
    BY <2>1, <1>1, <1>2, SMTT(30) DEF HeapType, NothingBeforeInit
  <2> QED
    BY <2>1, <2>2, <2>3, <2>4, <1>2 DEF HeapInv
<1>4. CASE find_slab_class(aligned_size(x.layout)) # {}
  <2>1. PICK c : c \in find_slab_class(aligned_size(x.layout))
    BY <1>4
  <2> DEFINE g == [free_list EXCEPT ![c] = Append(free_list[c], x.addr)]
  <2>2. c \in Classes /\ find_slab_class(aligned_size(x.layout)) = {c}
    BY <2>1, <1>1, OneClass DEF Held
  <2>3. Sep(free_list, live, bump_offset) /\ Counts(free_list, live, total_count)
    BY DEF HeapInv
  <2>4. /\ g \in Lists /\ Sep(g, live \ {x}, bump_offset)
        /\ Len(g[c]) = Len(free_list[c]) + 1 /\ \A d \in Classes : d # c => g[d] = free_list[d]
    <3>1. Append(free_list[c], x.addr) \in Seq(Nat)
      BY <2>2, <1>1 DEF Lists, Held
    <3>2. /\ g \in Lists /\ g[c] = Append(free_list[c], x.addr)
          /\ \A d \in Classes : d # c => g[d] = free_list[d]
      BY <3>1, <2>2, <1>1 DEF Lists
    <3>3. /\ Len(g[c]) = Len(free_list[c]) + 1 /\ g[c][Len(g[c])] = x.addr
          /\ \A k \in 1 .. Len(free_list[c]) : g[c][k] = free_list[c][k]
      BY <3>2, <2>2, <1>1 DEF Lists, Held
    <3> HIDE DEF g
    <3> QED
      BY <3>2, <3>3, <2>1, <2>3, <1>1, PushSeparates, Zenon
  <2>5. Len(free_list[c]) < MAX_BLOCKS_PER_CLASS
    BY <2>1, <2>3, <1>1, PushCounts, Zenon
  <2>6. free_list' = g
    BY <2>2, <2>5, <1>1, <1>2, Zenon DEF Lists
  <2> HIDE DEF g
  <2>7. Counts(g, live \ {x}, total_count)
    BY <2>1, <2>3, <2>4, <1>1, PushCounts, Zenon
  <2>8. HeapType' /\ NothingBeforeInit'
    BY <2>4, <2>6, <1>1, <1>2 DEF HeapType, NothingBeforeInit
  <2> QED
    BY <2>4, <2>6, <2>7, <2>8, <1>2 DEF HeapInv
<1> QED
  BY <1>3, <1>4

LEMMA HeapInvariant == Spec => []HeapInv
<1>1. HeapInv /\ [Next]_vars => HeapInv'
  <2> SUFFICES ASSUME HeapInv, [Next]_vars PROVE HeapInv'
    OBVIOUS
  <2>1. CASE init
    BY <2>1, initKeeps
  <2>2. CASE \E l \in Layouts : alloc(l)
    BY <2>2, allocKeeps
  <2>3. CASE \E x \in live : dealloc(x)
    BY <2>3, deallocKeeps
  <2>4. CASE UNCHANGED vars
    BY <2>4 DEF vars, HeapInv, HeapType, NothingBeforeInit
  <2> QED
    BY <2>1, <2>2, <2>3, <2>4 DEF Next
<1> QED
  BY <1>1, InitKeeps, PTL DEF Spec

-----------------------------------------------------------------------------
(* The theorems *)

LEMMA SeparationSuffices == HeapInv => NoOverlap
<1> SUFFICES ASSUME HeapInv PROVE NoOverlap
  OBVIOUS
<1> DEFINE IsLive(a) == \E x \in live : /\ a.addr = x.addr /\ a.len = aligned_size(x.layout)
                                        /\ a = [addr |-> x.addr, len |-> aligned_size(x.layout), of |-> Caller]
           At(a, c, k) == /\ a.addr = free_list[c][k] /\ a.len = BlockSize(c)
                          /\ a = [addr |-> free_list[c][k], len |-> BlockSize(c), of |-> <<c, k>>]
           IsListed(a) == \E c \in Classes : \E k \in 1 .. Len(free_list[c]) : At(a, c, k)
<1>1. \A a \in Areas : IsLive(a) \/ IsListed(a)
  BY DEF Areas
<1>2. \A x \in live : /\ x.addr \in Nat /\ Room(x.layout) \in Nat
                      /\ aligned_size(x.layout) \in Nat /\ aligned_size(x.layout) <= Room(x.layout)
  BY RoomSuffices, AlignedSize DEF HeapInv, HeapType, Held
<1>3. \A c \in Classes : BlockSize(c) \in Nat /\ \A k \in 1 .. Len(free_list[c]) : free_list[c][k] \in Nat
  BY BlockSizes DEF HeapInv, HeapType, Lists
<1>4. start \in Nat /\ bump_offset \in Nat
  BY Constants DEF HeapInv, HeapType
<1>5. ASSUME NEW a \in Areas PROVE start <= a.addr /\ a.addr + a.len <= start + bump_offset
  <2>1. CASE IsLive(a)
    BY <2>1, <1>2, <1>4, SMTT(30) DEF HeapInv, Sep, LiveIn, Within
  <2>2. CASE IsListed(a)
    BY <2>2, <1>3, <1>4, SMTT(30) DEF HeapInv, Sep, ListIn, Within
  <2> QED
    BY <2>1, <2>2, <1>1
<1>6. ASSUME NEW a \in Areas, NEW e \in Areas, a # e
      PROVE  a.addr + a.len <= e.addr \/ e.addr + e.len <= a.addr
  <2>1. CASE IsLive(a) /\ IsLive(e)
    <3>1. PICK x \in live : a.addr = x.addr /\ a.len = aligned_size(x.layout)
                 /\ a = [addr |-> x.addr, len |-> aligned_size(x.layout), of |-> Caller]
      BY <2>1
    <3>2. PICK y \in live : e.addr = y.addr /\ e.len = aligned_size(y.layout)
                 /\ e = [addr |-> y.addr, len |-> aligned_size(y.layout), of |-> Caller]
      BY <2>1
    <3>3. Apart(x.addr, Room(x.layout), y.addr, Room(y.layout))
      BY <3>1, <3>2, <1>6 DEF HeapInv, Sep, LiveApart
    <3> QED
      BY <3>1, <3>2, <3>3, <1>2 DEF Apart
  <2>2. CASE IsLive(a) /\ IsListed(e)
    <3>1. PICK x \in live : a.addr = x.addr /\ a.len = aligned_size(x.layout)
      BY <2>2
    <3>2. PICK c \in Classes : \E k \in 1 .. Len(free_list[c]) : At(e, c, k)
      BY <2>2
    <3>3. PICK k \in 1 .. Len(free_list[c]) : At(e, c, k)
      BY <3>2
    <3>4. Apart(x.addr, Room(x.layout), free_list[c][k], BlockSize(c))
      BY DEF HeapInv, Sep, BothApart
    <3> QED
      BY <3>1, <3>3, <3>4, <1>2, <1>3, SMTT(30) DEF Apart
  <2>3. CASE IsListed(a) /\ IsLive(e)
    <3>1. PICK x \in live : e.addr = x.addr /\ e.len = aligned_size(x.layout)
      BY <2>3
    <3>2. PICK c \in Classes : \E k \in 1 .. Len(free_list[c]) : At(a, c, k)
      BY <2>3, SMTT(30)
    <3>3. PICK k \in 1 .. Len(free_list[c]) : At(a, c, k)
      BY <3>2, SMTT(30)
    <3>4. Apart(x.addr, Room(x.layout), free_list[c][k], BlockSize(c))
      BY DEF HeapInv, Sep, BothApart
    <3> QED
      BY <3>1, <3>3, <3>4, <1>2, <1>3, SMTT(30) DEF Apart
  <2>4. CASE IsListed(a) /\ IsListed(e)
    <3>1. PICK c \in Classes : \E j \in 1 .. Len(free_list[c]) : At(a, c, j)
      BY <2>4, Zenon
    <3>2. PICK j \in 1 .. Len(free_list[c]) : At(a, c, j)
      BY <3>1
    <3>3. PICK d \in Classes : \E k \in 1 .. Len(free_list[d]) : At(e, d, k)
      BY <2>4, Zenon
    <3>4. PICK k \in 1 .. Len(free_list[d]) : At(e, d, k)
      BY <3>3
    <3>5. c # d \/ j # k
      BY <3>2, <3>4, <1>6, SMTT(30)
    <3>6. Apart(free_list[c][j], BlockSize(c), free_list[d][k], BlockSize(d))
      BY <3>5 DEF HeapInv, Sep, ListApart
    <3> QED
      BY <3>2, <3>4, <3>6 DEF Apart
  <2> QED
    BY <2>1, <2>2, <2>3, <2>4, <1>1
<1> QED
  BY <1>5, <1>6 DEF NoOverlap

\* Whatever the sizes and however allocations, frees and refills follow each
\* other, the heap never hands out or lists a byte twice.
THEOREM MemoryIsDisjoint == Spec => []NoOverlap
BY HeapInvariant, SeparationSuffices, PTL

LEMMA CountsSuffice == HeapInv => BlocksConserved
<1> SUFFICES ASSUME HeapInv, NEW c \in Classes
             PROVE  /\ Len(free_list[c]) + Cardinality(SlabLive(c)) = total_count[c]
                    /\ \A j, k \in 1 .. Len(free_list[c]) : free_list[c][j] = free_list[c][k] => j = k
  BY DEF BlocksConserved
<1>1. SlabLive(c) = InClass(live, c)
  BY DEF SlabLive, InClass
<1>2. Len(free_list[c]) + Cardinality(SlabLive(c)) = total_count[c]
  BY <1>1 DEF HeapInv, Counts
<1>3. ASSUME NEW j \in 1 .. Len(free_list[c]), NEW k \in 1 .. Len(free_list[c]),
             free_list[c][j] = free_list[c][k], j # k
      PROVE  FALSE
  <2>1. Apart(free_list[c][j], BlockSize(c), free_list[c][k], BlockSize(c))
    BY <1>3 DEF HeapInv, Sep, ListApart
  <2>2. BlockSize(c) \in Nat \ {0} /\ free_list[c][j] \in Nat
    BY BlockSizes DEF HeapInv, HeapType, Lists
  <2> QED
    BY <2>1, <2>2, <1>3, SMTT(30) DEF Apart
<1> QED
  BY <1>2, <1>3

\* No class ever loses a block: each is in the list, once, or with a caller,
\* so that free_to_slab's test for a full array never drops one.
THEOREM NoBlockIsLost == Spec => []BlocksConserved
BY HeapInvariant, CountsSuffice, PTL
=============================================================================
