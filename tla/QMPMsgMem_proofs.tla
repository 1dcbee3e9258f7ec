--------------------------- MODULE QMPMsgMem_proofs --------------------------
(***************************************************************************)
(* Theorems about memory and message memory: for every address malloc       *)
(* returns and every size and alignment, aligned memory lies inside what    *)
(* was allocated; for every program of declarations and frees, nothing but  *)
(* the block lengths of indexed memories is left behind; and for every      *)
(* declaration, MPI carries the bytes it describes, and Blue Gene/Q puts    *)
(* the same ones.                                                          *)
(***************************************************************************)
EXTENDS QMPMsgMem, FiniteSetTheorems, SequenceTheorems, WellFoundedInduction, TLAPS

-----------------------------------------------------------------------------
(* Aligned memory.                                                         *)

\* Division leaves a remainder below the divisor.
LEMMA Division ==
  ASSUME NEW x \in Nat, NEW a \in Nat \ {0}
  PROVE  /\ x \div a \in Nat
         /\ (x \div a) * a <= x
         /\ x < (x \div a) * a + a
<1> DEFINE q == x \div a
           r == x % a
<1>1. q \in Nat /\ r \in 0 .. a - 1 /\ x = a * q + r
  BY SMT
<1> HIDE DEF q, r
<1>2. a * q = q * a
  BY <1>1
<1>3. q \in Nat /\ q * a <= x /\ x < q * a + a
  BY <1>1, <1>2
<1> QED  BY <1>3 DEF q

\* A multiple has no remainder.
LEMMA Multiple ==
  ASSUME NEW q \in Nat, NEW a \in Nat \ {0}
  PROVE  (q * a) % a = 0
<1> DEFINE d == (q * a) \div a
           r == (q * a) % a
<1>1. d \in Nat /\ r \in 0 .. a - 1 /\ q * a = a * d + r
  BY SMT
<1> HIDE DEF d, r
<1>2. r = a * (q - d)
  BY <1>1
<1>3. CASE q - d <= 0
  <2>1. a * (q - d) <= 0
    BY <1>3, <1>1
  <2> QED  BY <2>1, <1>1, <1>2 DEF r
<1>4. CASE q - d >= 1
  <2>1. a * (q - d) >= a
    BY <1>4, <1>1
  <2> QED  BY <2>1, <1>1, <1>2
<1> QED  BY <1>1, <1>3, <1>4

\* Rounding up goes up by less than the alignment, to a multiple of it.
LEMMA RoundsUp ==
  ASSUME NEW p \in Nat, NEW a \in Nat
  PROVE  /\ a # 0 => Aligned(p, a) % a = 0
         /\ p <= Aligned(p, a)
         /\ Aligned(p, a) <= p + a
<1>1. CASE a = 0
  BY <1>1 DEF Aligned
<1>2. CASE a # 0
  <2> DEFINE x == p + a - 1
             q == x \div a
  <2>1. x \in Nat
    BY <1>2
  <2>2. q \in Nat /\ q * a <= x /\ x < q * a + a
    <3> HIDE DEF x
    <3> QED  BY <2>1, <1>2, Division
  <2>3. Aligned(p, a) = q * a
    BY <1>2 DEF Aligned
  <2> HIDE DEF q
  <2>4. (q * a) % a = 0
    BY <2>2, <1>2, Multiple
  <2>5. q * a \in Nat
    BY <2>2
  <2> QED  BY <2>2, <2>3, <2>4, <2>5
<1> QED  BY <1>1, <1>2

\* The memory a program gets has the size and the alignment it asked for, whatever
\* address malloc returns (QMP_mem.c:30-54).
THEOREM AlignmentHolds == Spec => []AlignedInside
<1>1. Init => AlignedInside
  BY DEF Init, AlignedInside
<1>2. AlignedInside /\ [Next]_vars => AlignedInside'
  <2> SUFFICES ASSUME AlignedInside, [Next]_vars PROVE AlignedInside'
    OBVIOUS
  <2>1. ASSUME NEW b \in Sizes, NEW a \in Alignments, Allocate(b, a)
        PROVE  AlignedInside'
    <3>1. CASE UNCHANGED <<mem, asked>>
      BY <3>1 DEF AlignedInside
    <3>2. ASSUME NEW p \in Addresses,
                 mem' = [allocated |-> p, size |-> b + a, aligned |-> Aligned(p, a)],
                 asked' = [size |-> b, alignment |-> a]
          PROVE  AlignedInside'
      <4>1. p \in Nat /\ a \in Nat /\ b \in Nat
        BY SizesAssumption
      <4>2. /\ a # 0 => Aligned(p, a) % a = 0
            /\ p <= Aligned(p, a) /\ Aligned(p, a) <= p + a
        BY <4>1, RoundsUp
      <4>3. Aligned(p, a) \in Int
        BY <4>1 DEF Aligned
      <4>4. Aligned(p, a) + b <= p + (b + a)
        BY <4>1, <4>2, <4>3
      <4> QED  BY <3>2, <4>2, <4>4 DEF AlignedInside
    <3> QED  BY <2>1, <3>1, <3>2 DEF Allocate
  <2>2. CASE FreeMemory
    BY <2>2 DEF FreeMemory, AlignedInside
  <2>3. ASSUME NEW c \in Calls, Declare(c) PROVE AlignedInside'
    BY <2>3 DEF Declare, AlignedInside
  <2>4. CASE FreeMsgmem
    BY <2>4 DEF FreeMsgmem, AlignedInside
  <2>5. CASE UNCHANGED vars
    BY <2>5 DEF vars, AlignedInside
  <2> QED  BY <2>1, <2>2, <2>3, <2>4, <2>5 DEF Next
<1> QED  BY <1>1, <1>2, PTL DEF Spec

-----------------------------------------------------------------------------
(* What is left behind.                                                    *)

MemTypes == {"user", "strided", "array", "indexed"}

\* A message memory is of one of the four types, whichever its declaration is.
LEMMA MsgmemTypes ==
  ASSUME NEW c \in Calls
  PROVE  Msgmem(c).type \in MemTypes
<1>1. c.op \in {"user", "strided", "array", "indexed"}
  BY CallsAssumption
<1>2. CASE c.op = "user"
  BY <1>2 DEF Msgmem, UserBuf, MemTypes
<1>3. CASE c.op = "strided"
  BY <1>3 DEF Msgmem, Strided, UserBuf, MemTypes
<1>4. CASE c.op = "array"
  BY <1>4 DEF Msgmem, StridedArray, Strided, UserBuf, MemTypes
<1>5. CASE c.op = "indexed"
  BY <1>5 DEF Msgmem, Indexed, MemTypes
<1> QED  BY <1>1, <1>2, <1>3, <1>4, <1>5

\* What freeing leaves of a message memory of any type.
LEMMA FreedLeavesBlocklen ==
  ASSUME NEW t \in MemTypes
  PROVE  Blocks(t) \ Freed(t) \subseteq {"blocklen"}
BY DEF MemTypes, Blocks, Freed

\* A live message memory owns what is allocated, but for old block lengths.
HeapInv ==
  IF mm = None THEN heap \subseteq {"blocklen"}
  ELSE mm.type \in MemTypes /\ heap \subseteq Blocks(mm.type) \cup {"blocklen"}

\* No program of declarations and frees leaves more than the block lengths of indexed
\* memories behind (QMP_mem.c:234-255).
THEOREM OnlyBlocklenLeft == Spec => []OnlyBlocklenLeaks
<1>1. Init => HeapInv
  BY DEF Init, HeapInv
<1>2. HeapInv /\ [Next]_vars => HeapInv'
  <2> SUFFICES ASSUME HeapInv, [Next]_vars PROVE HeapInv'
    OBVIOUS
  <2>1. ASSUME NEW b \in Sizes, NEW a \in Alignments, Allocate(b, a)
        PROVE  HeapInv'
    BY <2>1 DEF Allocate, HeapInv
  <2>2. CASE FreeMemory
    BY <2>2 DEF FreeMemory, HeapInv
  <2>3. ASSUME NEW c \in Calls, Declare(c) PROVE HeapInv'
    <3>1. CASE UNCHANGED <<mm, heap, call>>
      BY <3>1 DEF HeapInv
    <3>2. CASE mm' = Msgmem(c) /\ heap' = heap \cup Blocks(Msgmem(c).type)
      <4>1. heap \subseteq {"blocklen"}
        BY <2>3 DEF Declare, HeapInv
      <4>2. mm' # None /\ mm'.type \in MemTypes
        BY <3>2, CallsAssumption, MsgmemTypes
      <4>3. heap' \subseteq Blocks(mm'.type) \cup {"blocklen"}
        BY <3>2, <4>1
      <4> QED  BY <4>2, <4>3 DEF HeapInv
    <3> QED  BY <2>3, <3>1, <3>2 DEF Declare
  <2>4. CASE FreeMsgmem
    <3>1. mm.type \in MemTypes /\ heap \subseteq Blocks(mm.type) \cup {"blocklen"}
      BY <2>4 DEF FreeMsgmem, HeapInv
    <3>2. mm' = None /\ heap' = heap \ Freed(mm.type)
      BY <2>4 DEF FreeMsgmem
    <3> QED  BY <3>1, <3>2, FreedLeavesBlocklen DEF HeapInv
  <2>5. CASE UNCHANGED vars
    BY <2>5 DEF vars, HeapInv
  <2> QED  BY <2>1, <2>2, <2>3, <2>4, <2>5 DEF Next
<1>3. HeapInv => OnlyBlocklenLeaks
  BY DEF HeapInv, OnlyBlocklenLeaks
<1> QED  BY <1>1, <1>2, <1>3, PTL DEF Spec

-----------------------------------------------------------------------------
(* Sequences that are joined, by induction over the parts.  The induction   *)
(* is one over a set of numbers: a least number outside of it.              *)

\* A bounded set of natural numbers has a least element.
LEMMA Least ==
  ASSUME NEW m \in Nat, NEW S \in SUBSET (0 .. m), S # {}
  PROVE  \E i \in S : \A j \in S : i <= j
<1> DEFINE T == {0 .. i : i \in S}
           R == StrictSubsetOrdering(0 .. m)
<1>0. IsFiniteSet(0 .. m)
  BY FS_Interval
<1>1. IsWellFoundedOn(R, SUBSET (0 .. m))
  BY <1>0, FS_StrictSubsetOrderingWellFounded, FS_FiniteSubsetsOfFinite
<1>2. T \subseteq SUBSET (0 .. m) /\ T # {}
  <2>1. PICK i \in S : TRUE
    OBVIOUS
  <2>2. (0 .. i) \in T
    BY <2>1
  <2>3. ASSUME NEW j \in S PROVE 0 .. j \subseteq 0 .. m
    OBVIOUS
  <2> QED  BY <2>2, <2>3
<1>3. \E X \in T : \A Y \in T : ~(<<Y, X>> \in R)
  <2> HIDE DEF T, R
  <2> QED  BY <1>1, <1>2, WFMin
<1>4. PICK i \in S : \A j \in S : ~(<<0 .. j, 0 .. i>> \in R)
  BY <1>3
<1>5. ASSUME NEW j \in S PROVE i <= j
  <2> SUFFICES ASSUME j < i PROVE FALSE
    OBVIOUS
  <2>1. 0 .. j \subseteq 0 .. i /\ i \in 0 .. i /\ i \notin 0 .. j
    OBVIOUS
  <2>2. 0 .. j \in SUBSET (0 .. m) /\ 0 .. i \in SUBSET (0 .. m)
    OBVIOUS
  <2>3. <<0 .. j, 0 .. i>> \in R
    BY <2>1, <2>2 DEF StrictSubsetOrdering
  <2> QED  BY <2>3, <1>4
<1> QED  BY <1>5

\* What holds of 0, and of every number when it holds of the one before.
LEMMA Induction ==
  ASSUME NEW m \in Nat, NEW S, 0 \in S, \A i \in 1 .. m : i - 1 \in S => i \in S
  PROVE  \A i \in 0 .. m : i \in S
<1> DEFINE T == (0 .. m) \ S
<1> SUFFICES ASSUME T # {} PROVE FALSE
  OBVIOUS
<1>1. PICK i \in T : \A j \in T : i <= j
  <2>1. T \in SUBSET (0 .. m)
    OBVIOUS
  <2> HIDE DEF T
  <2> QED  BY <2>1, Least
<1>2. i \in 1 .. m /\ i - 1 \in 0 .. m
  BY <1>1
<1>3. i - 1 \in S
  BY <1>1, <1>2
<1> QED  BY <1>1, <1>2, <1>3

\* f holds what the first i of the parts s make, for every i.
Prefixes(s, f) ==
  /\ f[0] = <<>>
  /\ \A i \in 1 .. Len(s) : f[i] = f[i - 1] \o s[i]
Recursive(s, m, f) == f = [i \in 0 .. m |-> IF i = 0 THEN <<>> ELSE f[i - 1] \o s[i]]

\* There is such a function for the first m parts.
LEMMA PrefixesExist ==
  ASSUME NEW D, NEW s \in Seq(D)
  PROVE  \E f : Recursive(s, Len(s), f)
<1> DEFINE n == Len(s)
           S == {m \in 0 .. n : \E f : Recursive(s, m, f)}
<1>1. n \in Nat
  OBVIOUS
<1> HIDE DEF n
<1>2. 0 \in S
  <2> DEFINE g == [i \in 0 .. 0 |-> <<>>]
  <2>1. Recursive(s, 0, g)
    BY DEF Recursive
  <2> HIDE DEF g
  <2> QED  BY <1>1, <2>1
<1>3. ASSUME NEW m \in 1 .. n, m - 1 \in S PROVE m \in S
  <2>1. PICK f : Recursive(s, m - 1, f)
    BY <1>3
  <2>2. \A i \in 0 .. m - 1 : f[i] = IF i = 0 THEN <<>> ELSE f[i - 1] \o s[i]
    BY <2>1 DEF Recursive
  <2> DEFINE x == f[m - 1] \o s[m]
             g == [i \in 0 .. m |-> IF i = m THEN x ELSE f[i]]
  <2>3. /\ \A i \in 0 .. m - 1 : g[i] = f[i]
        /\ g[m] = x /\ m - 1 \in 0 .. m - 1 /\ m # 0
        /\ \A i \in 0 .. m : i = m \/ i \in 0 .. m - 1
        /\ \A i \in 0 .. m - 1 : i # 0 => i - 1 \in 0 .. m - 1
        /\ g = [i \in 0 .. m |-> g[i]]
    <3> HIDE DEF x
    <3> QED  BY <1>1
  <2> HIDE DEF g
  <2>4. \A i \in 0 .. m : g[i] = IF i = 0 THEN <<>> ELSE g[i - 1] \o s[i]
    <3> SUFFICES ASSUME NEW i \in 0 .. m PROVE g[i] = IF i = 0 THEN <<>> ELSE g[i - 1] \o s[i]
      OBVIOUS
    <3>1. CASE i = m
      BY <2>3, <3>1
    <3>2. CASE i \in 0 .. m - 1
      BY <2>2, <2>3, <3>2
    <3> QED  BY <2>3, <3>1, <3>2
  <2>5. Recursive(s, m, g)
    BY <2>3, <2>4 DEF Recursive
  <2> QED  BY <1>1, <2>5
<1>4. \A i \in 0 .. n : i \in S
  <2> HIDE DEF S
  <2> QED  BY <1>1, <1>2, <1>3, Induction
<1>5. n \in S
  <2> HIDE DEF S
  <2> QED  BY <1>1, <1>4
<1> QED  BY <1>5 DEF n

LEMMA JoinedPrefixes ==
  ASSUME NEW D, NEW s \in Seq(D)
  PROVE  \E f : Prefixes(s, f) /\ Joined(s) = f[Len(s)]
<1> DEFINE h[i \in 0 .. Len(s)] == IF i = 0 THEN <<>> ELSE h[i - 1] \o s[i]
<1>1. h = CHOOSE f : Recursive(s, Len(s), f)
  BY DEF Recursive
<1>2. Joined(s) = h[Len(s)]
  BY Zenon DEF Joined
<1> HIDE DEF h
<1>3. Recursive(s, Len(s), h)
  BY <1>1, PrefixesExist, Zenon
<1>4. Prefixes(s, h)
  <2> DEFINE n == Len(s)
  <2>1. n \in Nat
    OBVIOUS
  <2>2. \A i \in 0 .. n : h[i] = IF i = 0 THEN <<>> ELSE h[i - 1] \o s[i]
    BY <1>3 DEF Recursive
  <2> HIDE DEF n
  <2>3. 0 \in 0 .. n /\ \A i \in 1 .. n : i \in 0 .. n /\ i # 0
    BY <2>1
  <2>4. h[0] = <<>> /\ \A i \in 1 .. n : h[i] = h[i - 1] \o s[i]
    BY <2>2, <2>3
  <2> QED  BY <2>4 DEF Prefixes, n
<1> QED  BY <1>2, <1>4

\* Whatever joins the parts one after the other, joins them.
LEMMA JoinedIs ==
  ASSUME NEW D, NEW s \in Seq(D), NEW g, Prefixes(s, g)
  PROVE  Joined(s) = g[Len(s)]
<1>1. PICK f : Prefixes(s, f) /\ Joined(s) = f[Len(s)]
  BY JoinedPrefixes
<1> DEFINE n == Len(s)
           S == {i \in 0 .. n : f[i] = g[i]}
<1>2. n \in Nat
  OBVIOUS
<1>3. /\ f[0] = g[0]
      /\ \A i \in 1 .. n : f[i] = f[i - 1] \o s[i] /\ g[i] = g[i - 1] \o s[i]
  BY <1>1 DEF Prefixes
<1> HIDE DEF n
<1>4. 0 \in S
  BY <1>2, <1>3
<1>5. ASSUME NEW i \in 1 .. n, i - 1 \in S PROVE i \in S
  <2>1. f[i - 1] = g[i - 1] /\ i \in 0 .. n
    BY <1>2, <1>5
  <2> QED  BY <1>3, <2>1
<1>6. \A i \in 0 .. n : i \in S
  <2> HIDE DEF S
  <2> QED  BY <1>2, <1>4, <1>5, Induction
<1>7. n \in S
  <2> HIDE DEF S
  <2> QED  BY <1>2, <1>6
<1> QED  BY <1>1, <1>7 DEF n

-----------------------------------------------------------------------------
(* Bytes.                                                                  *)

\* u holds the elements of s and then those of t.
HoldsBoth(u, s, t) ==
  /\ Len(u) = Len(s) + Len(t)
  /\ \A i \in 1 .. Len(s) : u[i] = s[i]
  /\ \A i \in 1 .. Len(t) : u[Len(s) + i] = t[i]

\* A sequence is what it joins, element by element.
LEMMA ConcatIs ==
  ASSUME NEW D, NEW s \in Seq(D), NEW t \in Seq(D), NEW u \in Seq(D), HoldsBoth(u, s, t)
  PROVE  u = s \o t
<1>0. /\ Len(u) = Len(s) + Len(t)
      /\ \A i \in 1 .. Len(s) : u[i] = s[i]
      /\ \A i \in 1 .. Len(t) : u[Len(s) + i] = t[i]
  BY DEF HoldsBoth
<1> DEFINE l == Len(s)
           m == Len(t)
<1>1. l \in Nat /\ m \in Nat
  OBVIOUS
<1>2. /\ s \o t \in Seq(D) /\ Len(s \o t) = l + m
      /\ \A i \in 1 .. l + m : (s \o t)[i] = IF i <= l THEN s[i] ELSE t[i - l]
  BY ConcatProperties
<1>3. ASSUME NEW i \in 1 .. l + m PROVE u[i] = (s \o t)[i]
  <2>1. CASE i <= l
    BY <1>0, <1>1, <1>2, <2>1
  <2>2. CASE ~(i <= l)
    <3>1. i - l \in 1 .. m /\ l + (i - l) = i
      BY <1>1, <2>2
    <3>2. u[l + (i - l)] = t[i - l]
      BY <1>0, <3>1
    <3> QED  BY <1>2, <2>2, <3>1, <3>2
  <2> QED  BY <2>1, <2>2
<1> QED  BY <1>0, <1>2, <1>3, SeqEqual

LEMMA IntervalFacts ==
  ASSUME NEW first \in Int, NEW n \in Nat
  PROVE  /\ Interval(first, n) \in Seq(Int) /\ Len(Interval(first, n)) = n
         /\ \A i \in 1 .. n : Interval(first, n)[i] = first + i - 1
BY DEF Interval

\* A quotient is what the divisor goes into, and the remainder what is left.
LEMMA Quotient ==
  ASSUME NEW q \in Nat, NEW a \in Nat \ {0}, NEW r \in 0 .. a - 1
  PROVE  (q * a + r) \div a = q /\ (q * a + r) % a = r
<1> DEFINE x == q * a + r
           d == x \div a
           e == x % a
<1>1. x \in Nat /\ x = q * a + r
  OBVIOUS
<1>2. d \in Nat /\ e \in 0 .. a - 1 /\ x = a * d + e
  <2> HIDE DEF x
  <2> QED  BY <1>1, SMT
<1> HIDE DEF x, d, e
<1>3. a * (q - d) = e - r
  BY <1>1, <1>2
<1>4. CASE q - d >= 1
  <2>1. a * (q - d) >= a
    BY <1>2, <1>4
  <2> QED  BY <2>1, <1>2, <1>3
<1>5. CASE q - d <= -1
  <2>1. a * (d - q) >= a
    BY <1>2, <1>5
  <2>2. a * (d - q) = r - e
    BY <1>2, <1>3
  <2> QED  BY <2>1, <2>2, <1>2
<1>6. CASE q = d
  BY <1>1, <1>2, <1>6 DEF d, e, x
<1> QED  BY <1>2, <1>4, <1>5, <1>6

\* n blocks of blk bytes, stride apart.
BlockBytes(base, blk, n, stride) ==
  [k \in 1 .. n * blk |-> base + ((k - 1) \div blk) * stride + ((k - 1) % blk)]

Laid(x, base, blk, n, stride) ==
  /\ x \in Seq(Int)
  /\ Len(x) = n * blk
  /\ \A j \in 0 .. n - 1 : \A r \in 1 .. blk : x[j * blk + r] = base + j * stride + (r - 1)

LEMMA BlockBytesFacts ==
  ASSUME NEW base \in Int, NEW blk \in Nat, NEW n \in Nat, NEW stride \in Int
  PROVE  Laid(BlockBytes(base, blk, n, stride), base, blk, n, stride)
<1> DEFINE l == n * blk
           B == BlockBytes(base, blk, n, stride)
           v(k) == base + ((k - 1) \div blk) * stride + ((k - 1) % blk)
<1>1. l \in Nat
  OBVIOUS
<1>2. ASSUME NEW k \in 1 .. l PROVE v(k) \in Int
  <2>1. blk # 0
    BY <1>2
  <2> QED  BY <2>1
<1>3. B \in Seq(Int) /\ Len(B) = l
  <2>1. B = [k \in 1 .. l |-> v(k)]
    BY DEF BlockBytes
  <2> HIDE DEF l, B, v
  <2> QED  BY <1>1, <1>2, <2>1
<1>4. ASSUME NEW j \in 0 .. n - 1, NEW r \in 1 .. blk
      PROVE  B[j * blk + r] = base + j * stride + (r - 1)
  <2> DEFINE k == j * blk + r
  <2>1. k - 1 = j * blk + (r - 1) /\ r - 1 \in 0 .. blk - 1 /\ blk # 0 /\ j \in Nat
    OBVIOUS
  <2>2. (k - 1) \div blk = j /\ (k - 1) % blk = r - 1
    <3> DEFINE r1 == r - 1
    <3>1. k - 1 = j * blk + r1 /\ r1 \in 0 .. blk - 1 /\ blk \in Nat \ {0} /\ j \in Nat
      BY <2>1
    <3> HIDE DEF k, r1
    <3>2. (j * blk + r1) \div blk = j /\ (j * blk + r1) % blk = r1
      BY <3>1, Quotient
    <3>3. (k - 1) \div blk = j /\ (k - 1) % blk = r1
      BY <3>1, <3>2, Zenon
    <3> QED  BY <3>3 DEF r1
  <2>3. k \in 1 .. l
    <3>1. (n - 1 - j) * blk >= 0
      OBVIOUS
    <3>2. (n - 1 - j) * blk = n * blk - blk - j * blk
      OBVIOUS
    <3>3. j * blk \in Nat
      OBVIOUS
    <3> QED  BY <3>1, <3>2, <3>3
  <2> HIDE DEF k, l
  <2>4. B[k] = base + j * stride + (r - 1)
    BY <2>2, <2>3 DEF BlockBytes, l
  <2> QED  BY <2>4 DEF k
<1> QED  BY <1>3, <1>4 DEF Laid

\* Prefixes of a sequence of sequences are sequences, at least as long as each part.
LEMMA PrefixFacts ==
  ASSUME NEW D, NEW s \in Seq(Seq(D)), NEW f, Prefixes(s, f)
  PROVE  \A i \in 0 .. Len(s) : /\ f[i] \in Seq(D)
                                /\ \A j \in 1 .. i : Len(s[j]) <= Len(f[i])
<1> DEFINE n == Len(s)
           S == {i \in 0 .. n : f[i] \in Seq(D) /\ \A j \in 1 .. i : Len(s[j]) <= Len(f[i])}
<1>1. /\ n \in Nat /\ f[0] = <<>>
      /\ \A i \in 1 .. n : f[i] = f[i - 1] \o s[i]
      /\ \A i \in 1 .. n : s[i] \in Seq(D)
  <2>1. f[0] = <<>> /\ \A i \in 1 .. Len(s) : f[i] = f[i - 1] \o s[i]
    BY Zenon DEF Prefixes
  <2>2. \A i \in 1 .. Len(s) : s[i] \in Seq(D)
    BY ElementOfSeq
  <2>3. Len(s) \in Nat
    OBVIOUS
  <2> QED  BY <2>1, <2>2, <2>3
<1> HIDE DEF n
<1>2. 0 \in S
  <2>1. <<>> \in Seq(D)
    OBVIOUS
  <2>2. f[0] \in Seq(D) /\ 0 \in 0 .. n
    BY <1>1, <2>1
  <2> QED  BY <2>2
<1>3. ASSUME NEW i \in 1 .. n, i - 1 \in S PROVE i \in S
  <2>1. /\ f[i - 1] \in Seq(D) /\ s[i] \in Seq(D) /\ i \in 0 .. n
        /\ \A j \in 1 .. i - 1 : Len(s[j]) <= Len(f[i - 1])
    BY <1>1, <1>3
  <2>2. f[i] \in Seq(D) /\ Len(f[i]) = Len(f[i - 1]) + Len(s[i])
    <3> DEFINE a == f[i - 1]
               b == s[i]
    <3>1. a \in Seq(D) /\ b \in Seq(D) /\ f[i] = a \o b
      BY <1>1, <2>1
    <3> HIDE DEF a, b
    <3>2. f[i] \in Seq(D) /\ Len(f[i]) = Len(a) + Len(b)
      BY <3>1, ConcatProperties
    <3> QED  BY <3>2 DEF a, b
  <2>3. ASSUME NEW j \in 1 .. i PROVE Len(s[j]) <= Len(f[i])
    <3> DEFINE la == Len(f[i - 1])
               lb == Len(s[i])
               lf == Len(f[i])
               lj == Len(s[j])
    <3>1. la \in Nat /\ lb \in Nat /\ lf = la + lb
      BY <2>1, <2>2
    <3>2. CASE j = i
      <4>1. lj = lb
        BY <3>2
      <4> HIDE DEF la, lb, lf, lj
      <4>2. lj <= lf
        BY <3>1, <4>1
      <4> QED  BY <4>2 DEF lf, lj
    <3>3. CASE j # i
      <4>1. j \in 1 .. i - 1 /\ j \in 1 .. n
        BY <1>1, <3>3
      <4>2. lj <= la /\ lj \in Nat
        BY <1>1, <2>1, <4>1
      <4> HIDE DEF la, lb, lf, lj
      <4>3. lj <= lf
        BY <3>1, <4>2
      <4> QED  BY <4>3 DEF lf, lj
    <3> QED  BY <3>2, <3>3
  <2> QED  BY <2>1, <2>2, <2>3
<1>4. \A i \in 0 .. n : i \in S
  <2> HIDE DEF S
  <2> QED  BY <1>1, <1>2, <1>3, Induction
<1> QED  BY <1>4 DEF n

LEMMA JoinedFacts ==
  ASSUME NEW D, NEW s \in Seq(Seq(D))
  PROVE  /\ Joined(s) \in Seq(D)
         /\ \A j \in 1 .. Len(s) : Len(s[j]) <= Len(Joined(s))
<1>1. PICK f : Prefixes(s, f) /\ Joined(s) = f[Len(s)]
  BY JoinedPrefixes
<1>2. Len(s) \in 0 .. Len(s)
  OBVIOUS
<1> QED  BY <1>1, <1>2, PrefixFacts

\* One part is what it joins to.
LEMMA JoinedOne ==
  ASSUME NEW D, NEW x \in Seq(D)
  PROVE  Joined(<<x>>) = x
<1> DEFINE s == <<x>>
           g == [i \in 0 .. 1 |-> IF i = 0 THEN <<>> ELSE x]
<1>1. s \in Seq(Seq(D)) /\ Len(s) = 1 /\ s[1] = x
  OBVIOUS
<1>2. g[0] = <<>> /\ g[1] = x
  OBVIOUS
<1>3. <<>> \o x = x
  BY ConcatEmptySeq
<1> HIDE DEF s, g
<1>4. Prefixes(s, g)
  <2>1. ASSUME NEW i \in 1 .. Len(s) PROVE i = 1 /\ i - 1 = 0
    BY <1>1
  <2>2. ASSUME NEW i \in 1 .. Len(s) PROVE g[i] = g[i - 1] \o s[i]
    BY <1>1, <1>2, <1>3, <2>1
  <2> QED  BY <1>2, <2>2 DEF Prefixes
<1>5. Joined(s) = g[Len(s)]
  BY <1>1, <1>4, JoinedIs
<1> QED  BY <1>1, <1>2, <1>5 DEF s

Associative(a, b, c) == (a \o b) \o c = a \o (b \o c)
LEMMA Associates ==
  ASSUME NEW D, NEW a \in Seq(D), NEW b \in Seq(D), NEW c \in Seq(D)
  PROVE  Associative(a, b, c)
BY ConcatAssociative DEF Associative

\* Joining two lists of parts joins what each of them joins to.
LEMMA JoinedConcat ==
  ASSUME NEW D, NEW s \in Seq(Seq(D)), NEW t \in Seq(Seq(D))
  PROVE  Joined(s \o t) = Joined(s) \o Joined(t)
<1>1. PICK f : Prefixes(s, f) /\ Joined(s) = f[Len(s)]
  BY JoinedPrefixes
<1>2. PICK h : Prefixes(t, h) /\ Joined(t) = h[Len(t)]
  BY JoinedPrefixes
<1> DEFINE l == Len(s)
           m == Len(t)
           u == s \o t
           g == [i \in 0 .. l + m |-> IF i <= l THEN f[i] ELSE f[l] \o h[i - l]]
<1>3. /\ l \in Nat /\ m \in Nat
      /\ f[0] = <<>> /\ \A i \in 1 .. l : f[i] = f[i - 1] \o s[i]
      /\ h[0] = <<>> /\ \A i \in 1 .. m : h[i] = h[i - 1] \o t[i]
  <2>1. l \in Nat /\ m \in Nat
    OBVIOUS
  <2>2. f[0] = <<>> /\ \A i \in 1 .. l : f[i] = f[i - 1] \o s[i]
    BY <1>1, Zenon DEF Prefixes
  <2>3. h[0] = <<>> /\ \A i \in 1 .. m : h[i] = h[i - 1] \o t[i]
    BY <1>2, Zenon DEF Prefixes
  <2> QED  BY <2>1, <2>2, <2>3
<1>4. /\ \A i \in 0 .. l : f[i] \in Seq(D)
      /\ \A i \in 0 .. m : h[i] \in Seq(D)
      /\ \A i \in 1 .. m : t[i] \in Seq(D)
  BY <1>1, <1>2, PrefixFacts
<1>5. /\ u \in Seq(Seq(D)) /\ Len(u) = l + m
      /\ \A i \in 1 .. l + m : u[i] = IF i <= l THEN s[i] ELSE t[i - l]
  BY ConcatProperties
<1>6. /\ \A i \in 0 .. l : g[i] = f[i]
      /\ \A i \in 1 .. m : g[l + i] = f[l] \o h[i]
  <2>1. ASSUME NEW i \in 1 .. m PROVE g[l + i] = f[l] \o h[i]
    <3>1. l + i \in 0 .. l + m /\ ~(l + i <= l) /\ (l + i) - l = i
      BY <1>3
    <3> QED  BY <3>1
  <2>2. ASSUME NEW i \in 0 .. l PROVE g[i] = f[i]
    <3>1. i \in 0 .. l + m /\ i <= l
      BY <1>3
    <3> QED  BY <3>1
  <2> QED  BY <2>1, <2>2
<1>7. g[l] = f[l] \o h[0]
  <2>1. l \in 0 .. l /\ f[l] \o <<>> = f[l]
    BY <1>3, <1>4, ConcatEmptySeq
  <2> QED  BY <1>3, <1>6, <2>1
<1> HIDE DEF l, m, u, g
<1>8. ASSUME NEW i \in 1 .. l + m PROVE g[i] = g[i - 1] \o u[i]
  <2>1. CASE i <= l
    <3>1. i \in 1 .. l /\ i \in 0 .. l /\ i - 1 \in 0 .. l
      BY <1>3, <2>1
    <3> QED  BY <1>3, <1>5, <1>6, <2>1, <3>1
  <2>2. CASE ~(i <= l)
    <3> DEFINE k == i - l
    <3>1. k \in 1 .. m /\ i = l + k /\ k - 1 \in 0 .. m /\ l \in 0 .. l /\ i - 1 = l + (k - 1)
      BY <1>3, <2>2
    <3>2. u[i] = t[k]
      BY <1>5, <2>2
    <3> HIDE DEF k
    <3>3. g[l + k] = f[l] \o h[k] /\ h[k] = h[k - 1] \o t[k]
      BY <1>3, <1>6, <3>1
    <3>4. g[i - 1] = f[l] \o h[k - 1]
      <4>1. CASE k = 1
        <5>1. i - 1 = l /\ k - 1 = 0
          BY <1>3, <3>1, <4>1
        <5> QED  BY <1>7, <5>1, Zenon
      <4>2. CASE k # 1
        <5>1. k - 1 \in 1 .. m
          BY <1>3, <3>1, <4>2
        <5>2. g[l + (k - 1)] = f[l] \o h[k - 1]
          BY <1>6, <5>1
        <5>3. i - 1 = l + (k - 1)
          BY <3>1
        <5> QED  BY <5>2, <5>3, Zenon
      <4> QED  BY <4>1, <4>2
    <3>5. f[l] \in Seq(D) /\ h[k - 1] \in Seq(D) /\ t[k] \in Seq(D)
      BY <1>4, <3>1
    <3>6. Associative(f[l], h[k - 1], t[k])
      BY <3>5, Associates
    <3> QED  BY <3>1, <3>2, <3>3, <3>4, <3>6, Zenon DEF Associative
  <2> QED  BY <2>1, <2>2
<1>9. Prefixes(u, g)
  <2>1. 0 \in 0 .. l
    BY <1>3
  <2> QED  BY <1>3, <1>5, <1>6, <1>8, <2>1 DEF Prefixes
<1>10. Joined(u) = g[l + m]
  BY <1>5, <1>9, JoinedIs
<1>11. g[l + m] = f[l] \o h[m]
  <2>1. CASE m = 0
    <3>1. l + m = l
      BY <1>3, <2>1
    <3> QED  BY <1>7, <2>1, <3>1, Zenon
  <2>2. CASE m # 0
    <3>1. m \in 1 .. m
      BY <1>3, <2>2
    <3> QED  BY <1>6, <3>1
  <2> QED  BY <2>1, <2>2
<1> QED  BY <1>1, <1>2, <1>10, <1>11 DEF l, m, u

\* Blocks one after the other are what a declaration of blocks asks for.
LEMMA BlocksOfIs ==
  ASSUME NEW b, b.base \in Int, b.blksize \in Nat, b.nblocks \in Nat, b.stride \in Int
  PROVE  BlocksOf(b) = BlockBytes(b.base, b.blksize, b.nblocks, b.stride)
<1> DEFINE base == b.base
           blk == b.blksize
           n == b.nblocks
           stride == b.stride
           at(j) == base + (j - 1) * stride
           s == [j \in 1 .. n |-> Interval(base + (j - 1) * stride, blk)]
           g == [i \in 0 .. n |-> BlockBytes(base, blk, i, stride)]
<1>1. BlocksOf(b) = Joined(s)
  BY Zenon DEF BlocksOf
<1>2. base \in Int /\ blk \in Nat /\ n \in Nat /\ stride \in Int
  OBVIOUS
<1> HIDE DEF base, blk, n, stride
<1>3. ASSUME NEW j \in 1 .. n
      PROVE  at(j) \in Int /\ s[j] = Interval(at(j), blk)
  BY <1>2
<1>4. ASSUME NEW j \in 1 .. n
      PROVE  /\ s[j] \in Seq(Int) /\ Len(s[j]) = blk
             /\ \A r \in 1 .. blk : s[j][r] = at(j) + r - 1
  <2> DEFINE f == at(j)
  <2>1. f \in Int /\ s[j] = Interval(f, blk)
    BY <1>3
  <2> HIDE DEF f, s
  <2>2. /\ Interval(f, blk) \in Seq(Int) /\ Len(Interval(f, blk)) = blk
        /\ \A r \in 1 .. blk : Interval(f, blk)[r] = f + r - 1
    BY <1>2, <2>1, IntervalFacts
  <2>3. /\ s[j] \in Seq(Int) /\ Len(s[j]) = blk
        /\ \A r \in 1 .. blk : s[j][r] = f + r - 1
    BY <2>1, <2>2, Zenon
  <2> QED  BY <2>3, Zenon DEF f
<1>5. s \in Seq(Seq(Int)) /\ Len(s) = n
  <2>1. s = [j \in 1 .. n |-> s[j]]
    OBVIOUS
  <2> HIDE DEF s
  <2> DEFINE T == Seq(Int)
  <2>2. \A j \in 1 .. n : s[j] \in T
    BY <1>4
  <2> HIDE DEF T
  <2>3. s \in Seq(T) /\ Len(s) = n
    BY <1>2, <2>1, <2>2
  <2> QED  BY <2>3 DEF T
<1>6. \A i \in 0 .. n : g[i] = BlockBytes(base, blk, i, stride)
  OBVIOUS
<1> HIDE DEF s, g
<1>7. g[0] = <<>>
  <2>1. 0 * blk = 0 /\ 0 \in 0 .. n
    BY <1>2
  <2>2. BlockBytes(base, blk, 0, stride) = <<>>
    BY <2>1 DEF BlockBytes
  <2> QED  BY <1>6, <2>1, <2>2
<1>8. ASSUME NEW i \in 1 .. n PROVE g[i] = g[i - 1] \o s[i]
  <2> DEFINE p == BlockBytes(base, blk, i - 1, stride)
             q == BlockBytes(base, blk, i, stride)
             lp == (i - 1) * blk
             lq == i * blk
  <2>1. g[i] = q /\ g[i - 1] = p
    <3>1. i \in 0 .. n /\ i - 1 \in 0 .. n
      BY <1>2
    <3> QED  BY <1>6, <3>1
  <2>2. i \in Nat /\ i - 1 \in Nat /\ i - 1 \in 0 .. i - 1
    OBVIOUS
  <2>3. p \in Seq(Int) /\ Len(p) = lp /\ q \in Seq(Int) /\ Len(q) = lq
    <3>1. Laid(p, base, blk, i - 1, stride) /\ Laid(q, base, blk, i, stride)
      BY <1>2, <2>2, BlockBytesFacts
    <3> QED  BY <3>1, Zenon DEF Laid
  <2>4. lq = lp + blk /\ lp \in Nat /\ lq \in Nat
    BY <1>2
  <2>5. ASSUME NEW k \in 1 .. lp PROVE q[k] = p[k]
    <3>1. k \in 1 .. lp /\ k \in 1 .. lq
      BY <1>2, <2>4
    <3> QED  BY <3>1 DEF BlockBytes
  <2>6. ASSUME NEW r \in 1 .. blk PROVE q[lp + r] = s[i][r]
    <3>1. q[(i - 1) * blk + r] = base + (i - 1) * stride + (r - 1)
      <4>1. Laid(q, base, blk, i, stride)
        BY <1>2, <2>2, BlockBytesFacts
      <4> HIDE DEF q
      <4>2. \A j \in 0 .. i - 1 : \A x \in 1 .. blk : q[j * blk + x] = base + j * stride + (x - 1)
        BY <4>1, Zenon DEF Laid
      <4> QED  BY <2>2, <4>2
    <3>2. s[i][r] = at(i) + r - 1
      BY <1>4
    <3>3. (i - 1) * stride \in Int
      BY <1>2
    <3> QED  BY <1>2, <3>1, <3>2, <3>3
  <2>7. s[i] \in Seq(Int) /\ Len(s[i]) = blk
    BY <1>4
  <2> HIDE DEF p, q, lp, lq
  <2>8. HoldsBoth(q, p, s[i])
    BY <2>3, <2>4, <2>5, <2>6, <2>7 DEF HoldsBoth
  <2>9. q = p \o s[i]
    BY <2>3, <2>7, <2>8, ConcatIs
  <2> QED  BY <2>1, <2>9
<1>9. Prefixes(s, g)
  BY <1>5, <1>7, <1>8 DEF Prefixes
<1>10. Joined(s) = g[n]
  BY <1>5, <1>9, JoinedIs
<1>11. g[n] = BlockBytes(base, blk, n, stride)
  BY <1>2, <1>6
<1> QED  BY <1>1, <1>10, <1>11, Zenon DEF base, blk, n, stride

\* Blocks that touch, or a single one, are one run of bytes.
LEMMA OneRun ==
  ASSUME NEW base \in Int, NEW blk \in Nat, NEW n \in Nat, NEW stride \in Int,
         stride = blk \/ n = 1
  PROVE  BlockBytes(base, blk, n, stride) = Interval(base, blk * n)
<1> DEFINE l == n * blk
<1>1. l \in Nat /\ l = blk * n
  OBVIOUS
<1>2. ASSUME NEW k \in 1 .. l
      PROVE  base + ((k - 1) \div blk) * stride + ((k - 1) % blk) = base + k - 1
  <2> DEFINE x == k - 1
             q == x \div blk
             r == x % blk
  <2>1. blk \in Nat \ {0} /\ x \in Nat
    BY <1>2
  <2>2. q \in Nat /\ r \in 0 .. blk - 1 /\ x = blk * q + r
    <3> HIDE DEF x
    <3> QED  BY <2>1, SMT
  <2>3. q * stride = blk * q
    <3>1. CASE stride = blk
      <4> HIDE DEF q
      <4> QED  BY <2>1, <2>2, <3>1
    <3>2. CASE n = 1
      <4>1. l = blk
        BY <3>2
      <4>2. x \in 0 .. blk - 1 /\ 0 * blk + x = x
        BY <4>1
      <4>3. q = 0
        <5> HIDE DEF x
        <5>1. (0 * blk + x) \div blk = 0
          BY <2>1, <4>2, Quotient
        <5> QED  BY <4>2, <5>1, Zenon DEF q
      <4> HIDE DEF q
      <4>4. 0 * stride = 0 /\ blk * 0 = 0
        OBVIOUS
      <4> QED  BY <4>3, <4>4
    <3> QED  BY <3>1, <3>2
  <2>4. base + q * stride + r = base + x
    <3> DEFINE z == q * stride
               y == blk * q
    <3>1. z = y /\ y \in Int /\ x = y + r /\ r \in Int /\ x \in Int
      <4>1. blk * q \in Int
        <5> HIDE DEF q
        <5> QED  BY <2>2
      <4> QED  BY <2>1, <2>2, <2>3, <4>1
    <3> HIDE DEF x, r, z, y
    <3>2. base + z + r = base + x
      BY <3>1
    <3> QED  BY <3>2, Zenon DEF z
  <2> QED  BY <2>4
<1> HIDE DEF l
<1>3. [k \in 1 .. l |-> base + ((k - 1) \div blk) * stride + ((k - 1) % blk)] = [k \in 1 .. l |-> base + k - 1]
  BY <1>2
<1> QED  BY <1>1, <1>3, Zenon DEF BlockBytes, Interval, l

-----------------------------------------------------------------------------
(* Displacements.                                                          *)

Shift(d, x) == [k \in DOMAIN x |-> d + x[k]]

\* x is y, moved by d.
Moved(x, d, y) == x \in Seq(Int) /\ Len(x) = Len(y) /\ \A k \in 1 .. Len(y) : x[k] = d + y[k]

LEMMA ShiftFacts ==
  ASSUME NEW d \in Int, NEW y \in Seq(Int)
  PROVE  Moved(Shift(d, y), d, y)
<1> DEFINE m == Len(y)
           s == [k \in 1 .. m |-> d + y[k]]
<1>1. m \in Nat /\ DOMAIN y = 1 .. m /\ \A k \in 1 .. m : y[k] \in Int
  OBVIOUS
<1>2. Shift(d, y) = s
  BY <1>1 DEF Shift
<1> HIDE DEF m
<1>3. \A k \in 1 .. m : d + y[k] \in Int
  BY <1>1
<1>4. s \in Seq(Int) /\ Len(s) = m /\ \A k \in 1 .. m : s[k] = d + y[k]
  BY <1>1, <1>3
<1> HIDE DEF s
<1> QED  BY <1>2, <1>4 DEF Moved, m

LEMMA ShiftConcat ==
  ASSUME NEW d \in Int, NEW a \in Seq(Int), NEW b \in Seq(Int)
  PROVE  Shift(d, a \o b) = Shift(d, a) \o Shift(d, b)
<1> DEFINE u == Shift(d, a \o b)
           s == Shift(d, a)
           t == Shift(d, b)
           c == a \o b
           la == Len(a)
           lb == Len(b)
<1>1. /\ c \in Seq(Int) /\ Len(c) = la + lb
      /\ \A i \in 1 .. la + lb : c[i] = IF i <= la THEN a[i] ELSE b[i - la]
  BY ConcatProperties
<1>2. Moved(u, d, c) /\ Moved(s, d, a) /\ Moved(t, d, b)
  <2> HIDE DEF c
  <2> QED  BY <1>1, ShiftFacts DEF c
<1>3. la \in Nat /\ lb \in Nat
  OBVIOUS
<1> HIDE DEF u, s, t, c
<1>4. /\ u \in Seq(Int) /\ Len(u) = la + lb /\ \A k \in 1 .. la + lb : u[k] = d + c[k]
      /\ s \in Seq(Int) /\ Len(s) = la /\ \A k \in 1 .. la : s[k] = d + a[k]
      /\ t \in Seq(Int) /\ Len(t) = lb /\ \A k \in 1 .. lb : t[k] = d + b[k]
  BY <1>1, <1>2 DEF Moved
<1> HIDE DEF la, lb
<1>5. ASSUME NEW i \in 1 .. la PROVE u[i] = s[i]
  <2>1. i \in 1 .. la + lb /\ i <= la
    BY <1>3
  <2> QED  BY <1>1, <1>4, <2>1
<1>6. ASSUME NEW i \in 1 .. lb PROVE u[la + i] = t[i]
  <2>1. la + i \in 1 .. la + lb /\ ~(la + i <= la) /\ (la + i) - la = i
    BY <1>3
  <2>2. c[la + i] = b[i]
    BY <1>1, <2>1
  <2> QED  BY <1>4, <2>1, <2>2
<1>7. HoldsBoth(u, s, t)
  BY <1>4, <1>5, <1>6 DEF HoldsBoth
<1>8. u = s \o t
  BY <1>4, <1>7, ConcatIs
<1> QED  BY <1>8, Zenon DEF u, s, t, c

\* Moving every part moves what they join to.
LEMMA JoinedShift ==
  ASSUME NEW d \in Int, NEW s \in Seq(Seq(Int))
  PROVE  Joined([i \in 1 .. Len(s) |-> Shift(d, s[i])]) = Shift(d, Joined(s))
<1> DEFINE n == Len(s)
           t == [i \in 1 .. n |-> Shift(d, s[i])]
<1>1. PICK f : Prefixes(s, f) /\ Joined(s) = f[n]
  BY JoinedPrefixes
<1> DEFINE g == [i \in 0 .. n |-> Shift(d, f[i])]
<1>2. /\ n \in Nat /\ f[0] = <<>>
      /\ \A i \in 1 .. n : f[i] = f[i - 1] \o s[i]
      /\ \A i \in 1 .. n : s[i] \in Seq(Int)
      /\ \A i \in 0 .. n : f[i] \in Seq(Int)
  <2>1. f[0] = <<>> /\ \A i \in 1 .. n : f[i] = f[i - 1] \o s[i]
    BY <1>1, Zenon DEF Prefixes
  <2>2. \A i \in 1 .. n : s[i] \in Seq(Int)
    BY ElementOfSeq
  <2>3. \A i \in 0 .. n : f[i] \in Seq(Int)
    BY <1>1, PrefixFacts
  <2>4. n \in Nat
    OBVIOUS
  <2> QED  BY <2>1, <2>2, <2>3, <2>4
<1>3. /\ \A i \in 0 .. n : g[i] = Shift(d, f[i])
      /\ \A i \in 1 .. n : t[i] = Shift(d, s[i])
  OBVIOUS
<1>4. t \in Seq(Seq(Int)) /\ Len(t) = n
  <2>1. ASSUME NEW i \in 1 .. n PROVE t[i] \in Seq(Int)
    <3>1. Moved(Shift(d, s[i]), d, s[i])
      BY <1>2, ShiftFacts
    <3> QED  BY <1>3, <3>1 DEF Moved
  <2>2. t = [i \in 1 .. n |-> t[i]]
    OBVIOUS
  <2>3. n \in Nat
    BY <1>2
  <2> HIDE DEF t, n
  <2> QED  BY <2>1, <2>2, <2>3
<1> HIDE DEF n, t, g
<1>5. g[0] = <<>>
  <2>1. Shift(d, <<>>) = <<>>
    BY DEF Shift
  <2>2. 0 \in 0 .. n
    BY <1>2
  <2> QED  BY <1>2, <1>3, <2>1, <2>2
<1>6. ASSUME NEW i \in 1 .. n PROVE g[i] = g[i - 1] \o t[i]
  <2>1. i \in 0 .. n /\ i - 1 \in 0 .. n
    BY <1>2
  <2>2. f[i - 1] \in Seq(Int) /\ s[i] \in Seq(Int)
    BY <1>2, <2>1
  <2>3. Shift(d, f[i - 1] \o s[i]) = Shift(d, f[i - 1]) \o Shift(d, s[i])
    BY <2>2, ShiftConcat
  <2>4. f[i] = f[i - 1] \o s[i]
    BY <1>2
  <2> QED  BY <1>3, <2>1, <2>3, <2>4
<1>7. Prefixes(t, g)
  BY <1>4, <1>5, <1>6 DEF Prefixes
<1>8. Joined(t) = g[n]
  BY <1>4, <1>7, JoinedIs
<1>9. g[n] = Shift(d, f[n])
  BY <1>2, <1>3
<1>10. Joined(t) = Shift(d, Joined(s))
  BY <1>1, <1>8, <1>9
<1> QED  BY <1>10, Zenon DEF t, n

LEMMA ShiftInterval ==
  ASSUME NEW d \in Int, NEW first \in Int, NEW n \in Nat
  PROVE  Shift(d, Interval(first, n)) = Interval(d + first, n)
<1>1. \A k \in 1 .. n : d + (first + k - 1) = (d + first) + k - 1
  OBVIOUS
<1> QED  BY <1>1 DEF Shift, Interval

LEMMA ShiftBlocks ==
  ASSUME NEW d \in Int, NEW base \in Int, NEW blk \in Nat, NEW n \in Nat, NEW stride \in Int
  PROVE  Shift(d, BlockBytes(base, blk, n, stride)) = BlockBytes(d + base, blk, n, stride)
<1> DEFINE l == n * blk
<1>1. ASSUME NEW k \in 1 .. l
      PROVE  d + (base + ((k - 1) \div blk) * stride + ((k - 1) % blk))
               = (d + base) + ((k - 1) \div blk) * stride + ((k - 1) % blk)
  <2> DEFINE y == ((k - 1) \div blk) * stride
             r == (k - 1) % blk
  <2>1. y \in Int /\ r \in Int
    <3>1. blk \in Nat \ {0}
      BY <1>1
    <3>2. (k - 1) \div blk \in Int /\ r \in Int
      BY <3>1
    <3> QED  BY <3>2
  <2> HIDE DEF y, r
  <2>2. d + (base + y + r) = (d + base) + y + r
    BY <2>1
  <2> QED  BY <2>2, Zenon DEF y, r
<1> HIDE DEF l
<1>2. BlockBytes(base, blk, n, stride)
        = [k \in 1 .. l |-> base + ((k - 1) \div blk) * stride + ((k - 1) % blk)]
  BY Zenon DEF BlockBytes, l
<1>3. BlockBytes(d + base, blk, n, stride)
        = [k \in 1 .. l |-> (d + base) + ((k - 1) \div blk) * stride + ((k - 1) % blk)]
  BY Zenon DEF BlockBytes, l
<1> QED  BY <1>1, <1>2, <1>3 DEF Shift

-----------------------------------------------------------------------------
(* Numbers in an int.                                                      *)

LEMMA ToIntFacts ==
  ASSUME NEW x \in Int
  PROVE  /\ ToInt(x) \in Int
         /\ x \in Nat /\ x < 2 ^ IntBits => ToInt(x) = x \/ ToInt(x) < 0
<1> DEFINE m == 2 ^ IntBits
           r == x % m
<1>1. m \in Nat \ {0}
  BY SizesAssumption
<1>2. ToInt(x) = IF 2 * r < m THEN r ELSE r - m
  BY Zenon DEF ToInt
<1> HIDE DEF m
<1>3. r \in 0 .. m - 1
  BY <1>1
<1>4. x \in Nat /\ x < m => r = x
  <2> SUFFICES ASSUME x \in Nat, x < m PROVE r = x
    OBVIOUS
  <2>1. x \in 0 .. m - 1 /\ 0 \in Nat /\ 0 * m + x = x
    BY <1>1
  <2>2. (0 * m + x) % m = x
    BY <1>1, <2>1, Quotient
  <2> QED  BY <2>1, <2>2
<1> HIDE DEF r
<1>5. /\ ToInt(x) \in Int
      /\ x \in Nat /\ x < m => ToInt(x) = x \/ ToInt(x) < 0
  BY <1>1, <1>2, <1>3, <1>4
<1> QED  BY <1>5 DEF m

\* A vector is its blocks, unless the length of a block does not fit.
LEMMA VectorIs ==
  ASSUME NEW n \in Nat, NEW blk \in Nat, NEW stride \in Int, FitsInt(stride),
         n * blk < 2 ^ IntBits
  PROVE  Vector(n, blk, stride) \in {None, BlockBytes(0, blk, n, stride)}
<1> DEFINE b == ToInt(blk)
<1> SUFFICES ASSUME ~(b < 0) PROVE Vector(n, blk, stride) = BlockBytes(0, blk, n, stride)
  BY DEF Vector
<1>1. b \in Nat /\ ToInt(stride) = stride
  BY ToIntFacts DEF FitsInt
<1>2. Vector(n, blk, stride) = [k \in 1 .. n * b |-> ((k - 1) \div b) * stride + ((k - 1) % b)]
  BY <1>1 DEF Vector
<1>3. CASE n = 0
  <2>1. 1 .. n * b = {} /\ 1 .. n * blk = {}
    BY <1>1, <1>3
  <2> HIDE DEF b
  <2> QED  BY <1>2, <2>1 DEF BlockBytes
<1>4. CASE n # 0
  <2>1. blk <= n * blk
    <3>1. (n - 1) * blk >= 0 /\ (n - 1) * blk = n * blk - blk
      BY <1>4
    <3> QED  BY <3>1
  <2>2. b = blk
    <3>1. 2 ^ IntBits \in Nat /\ n * blk \in Nat
      BY SizesAssumption
    <3>2. blk < 2 ^ IntBits
      BY <2>1, <3>1
    <3> QED  BY <1>1, <3>2, ToIntFacts
  <2> HIDE DEF b
  <2>3. Vector(n, blk, stride) = [k \in 1 .. n * blk |-> ((k - 1) \div blk) * stride + ((k - 1) % blk)]
    BY <1>2, <2>2
  <2>4. ASSUME NEW k \in 1 .. n * blk
        PROVE  ((k - 1) \div blk) * stride + ((k - 1) % blk)
                 = 0 + ((k - 1) \div blk) * stride + ((k - 1) % blk)
    <3> DEFINE y == ((k - 1) \div blk) * stride
    <3>1. y \in Int
      <4>1. blk \in Nat \ {0}
        BY <2>4
      <4>2. (k - 1) \div blk \in Int
        BY <4>1
      <4> QED  BY <4>2
    <3> HIDE DEF y
    <3>2. 0 + y = y
      BY <3>1
    <3> QED  BY <3>2, Zenon DEF y
  <2> DEFINE l == n * blk
  <2> HIDE DEF l
  <2>5. [k \in 1 .. l |-> ((k - 1) \div blk) * stride + ((k - 1) % blk)]
          = [k \in 1 .. l |-> 0 + ((k - 1) \div blk) * stride + ((k - 1) % blk)]
    BY <2>4 DEF l
  <2> QED  BY <2>3, <2>5, Zenon DEF BlockBytes, l
<1> QED  BY <1>3, <1>4

-----------------------------------------------------------------------------
(* What a message carries.                                                 *)

LEMMA TransferredTyped ==
  ASSUME NEW m, m.type # "user", Datatype(m) # None
  PROVE  Transferred(m) = Shift(m.mem, Datatype(m))
BY Zenon DEF Transferred, Shift

LEMMA UserCarries ==
  ASSUME NEW base \in Int, NEW x \in Nat, x < 2 ^ IntBits
  PROVE  Transferred(UserBuf(base, x)) \in {Interval(base, x), None}
<1> DEFINE n == ToInt(x)
           m == UserBuf(base, x)
<1>1. n = x \/ n < 0
  BY ToIntFacts
<1>2. m.type = "user" /\ m.mem = base /\ m.nbytes = n
  BY DEF UserBuf
<1> HIDE DEF n, m
<1>3. Transferred(m) = IF n < 0 THEN None ELSE Interval(base, n)
  BY <1>2 DEF Transferred
<1>4. CASE n < 0
  BY <1>3, <1>4 DEF m
<1>5. CASE ~(n < 0)
  BY <1>1, <1>3, <1>5 DEF m
<1> QED  BY <1>4, <1>5

LEMMA StridedCarries ==
  ASSUME NEW b, b.base \in Int, b.blksize \in Nat, b.nblocks \in Nat, b.stride \in Int,
         FitsInt(b.stride), Len(BlocksOf(b)) < 2 ^ IntBits
  PROVE  Transferred(Strided(b.base, b.blksize, b.nblocks, b.stride)) \in {BlocksOf(b), None}
<1> DEFINE base == b.base
           blk == b.blksize
           n == b.nblocks
           stride == b.stride
           m == Strided(base, blk, n, stride)
           B == BlockBytes(base, blk, n, stride)
<1>1. /\ base \in Int /\ blk \in Nat /\ n \in Nat /\ stride \in Int /\ FitsInt(stride)
      /\ BlocksOf(b) = B /\ Len(BlocksOf(b)) < 2 ^ IntBits
  BY BlocksOfIs
<1> HIDE DEF base, blk, n, stride
<1>2. Laid(B, base, blk, n, stride)
  BY <1>1, BlockBytesFacts
<1>3. n * blk < 2 ^ IntBits
  <2> HIDE DEF B
  <2> QED  BY <1>1, <1>2 DEF Laid
<1>4. CASE stride = blk \/ n = 1
  <2>1. m = UserBuf(base, blk * n)
    BY <1>4, Zenon DEF Strided
  <2>2. B = Interval(base, blk * n)
    BY <1>1, <1>4, OneRun
  <2>3. blk * n \in Nat /\ blk * n < 2 ^ IntBits
    BY <1>1, <1>3
  <2>4. Transferred(UserBuf(base, blk * n)) \in {Interval(base, blk * n), None}
    BY <1>1, <2>3, UserCarries
  <2>5. Transferred(m) \in {BlocksOf(b), None}
    <3> HIDE DEF m, B
    <3> QED  BY <1>1, <2>1, <2>2, <2>4, Zenon
  <2> QED  BY <2>5, Zenon DEF base, blk, n, stride
<1>5. CASE ~(stride = blk \/ n = 1)
  <2>1. m = [type |-> "strided", mem |-> base, nbytes |-> ToInt(blk * n),
             blksize |-> blk, nblocks |-> n, stride |-> stride]
    BY <1>5, Zenon DEF Strided
  <2>2. m.type = "strided" /\ m.mem = base /\ m.blksize = blk /\ m.nblocks = n /\ m.stride = stride
    <3> HIDE DEF m
    <3> QED  BY <2>1
  <2> HIDE DEF m
  <2>3. Datatype(m) = Vector(n, blk, stride)
    BY <2>2 DEF Datatype
  <2>4. CASE Datatype(m) = None
    <3>1. Transferred(m) = None
      BY <2>2, <2>4 DEF Transferred
    <3> QED  BY <3>1, Zenon DEF m, base, blk, n, stride
  <2>5. CASE Datatype(m) # None
    <3>1. Vector(n, blk, stride) \in {None, BlockBytes(0, blk, n, stride)}
      BY <1>1, <1>3, VectorIs
    <3>2. Datatype(m) = BlockBytes(0, blk, n, stride)
      BY <2>3, <2>5, <3>1, Zenon
    <3>3. Transferred(m) = Shift(base, BlockBytes(0, blk, n, stride))
      BY <2>2, <2>5, <3>2, TransferredTyped
    <3>4. Shift(base, BlockBytes(0, blk, n, stride)) = BlockBytes(base + 0, blk, n, stride)
      <4>1. 0 \in Int
        OBVIOUS
      <4> QED  BY <1>1, <4>1, ShiftBlocks
    <3>5. base + 0 = base
      BY <1>1
    <3>6. Transferred(m) = BlocksOf(b)
      BY <1>1, <3>3, <3>4, <3>5
    <3> QED  BY <3>6, Zenon DEF m, base, blk, n, stride
  <2> QED  BY <2>4, <2>5
<1> QED  BY <1>4, <1>5

\* The bytes that the parts of an array ask for.
PartBytes(part) == [i \in DOMAIN part |-> BlocksOf(part[i])]

LEMMA PartBytesFacts ==
  ASSUME NEW part \in Seq(Part)
  PROVE  /\ PartBytes(part) \in Seq(Seq(Int)) /\ Len(PartBytes(part)) = Len(part)
         /\ \A i \in 1 .. Len(part) :
              /\ part[i].base \in Int /\ part[i].blksize \in Nat
              /\ part[i].nblocks \in Nat /\ part[i].stride \in Int
              /\ BlocksOf(part[i]) \in Seq(Int)
              /\ PartBytes(part)[i] = BlocksOf(part[i])
              /\ Len(BlocksOf(part[i])) = part[i].nblocks * part[i].blksize
<1> DEFINE n == Len(part)
           s == PartBytes(part)
<1>1. n \in Nat /\ DOMAIN part = 1 .. n
  OBVIOUS
<1>2. s = [i \in 1 .. n |-> BlocksOf(part[i])]
  BY <1>1, Zenon DEF PartBytes
<1>3. ASSUME NEW i \in 1 .. n
      PROVE  /\ part[i].base \in Int /\ part[i].blksize \in Nat
             /\ part[i].nblocks \in Nat /\ part[i].stride \in Int
  <2>1. part[i] \in Part
    BY <1>3
  <2> QED  BY <2>1 DEF Part
<1>4. ASSUME NEW i \in 1 .. n
      PROVE  /\ BlocksOf(part[i]) \in Seq(Int)
             /\ Len(BlocksOf(part[i])) = part[i].nblocks * part[i].blksize
  <2> DEFINE base == part[i].base
             blk == part[i].blksize
             k == part[i].nblocks
             stride == part[i].stride
             B == BlockBytes(base, blk, k, stride)
  <2>1. base \in Int /\ blk \in Nat /\ k \in Nat /\ stride \in Int
    BY <1>3
  <2>2. BlocksOf(part[i]) = B
    BY <2>1, BlocksOfIs
  <2> HIDE DEF base, blk, k, stride
  <2>3. Laid(B, base, blk, k, stride)
    BY <2>1, BlockBytesFacts
  <2> HIDE DEF B
  <2>4. BlocksOf(part[i]) \in Seq(Int) /\ Len(BlocksOf(part[i])) = k * blk
    BY <2>2, <2>3 DEF Laid
  <2> QED  BY <2>4, Zenon DEF k, blk
<1>5. \A i \in 1 .. n : s[i] = BlocksOf(part[i])
  BY <1>2
<1>6. s \in Seq(Seq(Int)) /\ Len(s) = n
  <2> HIDE DEF s, n
  <2>1. \A i \in 1 .. n : BlocksOf(part[i]) \in Seq(Int)
    BY <1>4
  <2> QED  BY <1>1, <1>2, <2>1
<1> HIDE DEF s, n
<1>7. /\ s \in Seq(Seq(Int)) /\ Len(s) = n
      /\ \A i \in 1 .. n :
              /\ part[i].base \in Int /\ part[i].blksize \in Nat
              /\ part[i].nblocks \in Nat /\ part[i].stride \in Int
              /\ BlocksOf(part[i]) \in Seq(Int)
              /\ s[i] = BlocksOf(part[i])
              /\ Len(BlocksOf(part[i])) = part[i].nblocks * part[i].blksize
  BY <1>3, <1>4, <1>5, <1>6
<1> QED  BY <1>7, Zenon DEF s, n

LEMMA ArrayCarries ==
  ASSUME NEW part \in Seq(Part), part # <<>>,
         \A i \in 1 .. Len(part) : FitsInt(part[i].stride),
         Len(Joined(PartBytes(part))) < 2 ^ IntBits
  PROVE  Transferred(StridedArray(part)) \in {Joined(PartBytes(part)), None}
<1> DEFINE n == Len(part)
           s == PartBytes(part)
           m == StridedArray(part)
<1>1. /\ s \in Seq(Seq(Int)) /\ Len(s) = n
      /\ \A i \in 1 .. n :
           /\ part[i].base \in Int /\ part[i].blksize \in Nat
           /\ part[i].nblocks \in Nat /\ part[i].stride \in Int
           /\ BlocksOf(part[i]) \in Seq(Int)
           /\ s[i] = BlocksOf(part[i])
           /\ Len(BlocksOf(part[i])) = part[i].nblocks * part[i].blksize
  BY PartBytesFacts, Zenon
<1>2. n \in Nat \ {0} /\ 1 \in 1 .. n /\ DOMAIN part = 1 .. n
  OBVIOUS
<1>3. Joined(s) \in Seq(Int) /\ Len(Joined(s)) < 2 ^ IntBits /\ \A j \in 1 .. n : Len(s[j]) <= Len(Joined(s))
  BY <1>1, JoinedFacts
<1> HIDE DEF n, s
<1>4. ASSUME NEW i \in 1 .. n PROVE Len(BlocksOf(part[i])) < 2 ^ IntBits
  <2> DEFINE l == Len(s[i])
             j == Len(Joined(s))
  <2>1. l \in Nat /\ l <= j /\ j \in Nat /\ j < 2 ^ IntBits /\ 2 ^ IntBits \in Nat
    <3>1. s[i] \in Seq(Int)
      BY <1>1
    <3> QED  BY <1>3, <3>1, SizesAssumption
  <2>2. l = Len(BlocksOf(part[i]))
    BY <1>1
  <2> HIDE DEF l, j
  <2>3. l < 2 ^ IntBits
    BY <2>1
  <2> QED  BY <2>2, <2>3
<1>5. CASE n = 1
  <2> DEFINE b == part[1]
  <2>1. m = Strided(b.base, b.blksize, b.nblocks, b.stride)
    BY <1>5, Zenon DEF StridedArray, n
  <2>2. /\ b.base \in Int /\ b.blksize \in Nat /\ b.nblocks \in Nat /\ b.stride \in Int
        /\ FitsInt(b.stride) /\ Len(BlocksOf(b)) < 2 ^ IntBits
    BY <1>1, <1>2, <1>4 DEF n
  <2>3. s = <<BlocksOf(b)>>
    BY <1>1, <1>2, <1>5
  <2>4. BlocksOf(b) \in Seq(Int)
    BY <1>1, <1>2
  <2> HIDE DEF b, m
  <2>5. Joined(s) = BlocksOf(b)
    BY <2>3, <2>4, JoinedOne
  <2>6. Transferred(m) \in {BlocksOf(b), None}
    BY <2>1, <2>2, StridedCarries
  <2> QED  BY <2>5, <2>6, Zenon DEF m, s
<1>6. CASE n # 1
  <2> DEFINE base == part[1].base
             disp == [i \in DOMAIN part |-> part[i].base - part[1].base]
             vector(i) == Vector(part[i].nblocks, part[i].blksize, part[i].stride)
             shifted(i) == [k \in DOMAIN vector(i) |-> disp[i] + vector(i)[k]]
             block(i) == BlockBytes(disp[i], part[i].blksize, part[i].nblocks, part[i].stride)
             t == [i \in 1 .. n |-> block(i)]
  <2>1. m.type = "array" /\ m.mem = base /\ m.disp = disp /\ m.part = part
    <3>1. \E x : m = [type |-> "array", mem |-> base, nbytes |-> x, disp |-> disp, part |-> part]
      BY <1>6, Zenon DEF StridedArray, n
    <3> HIDE DEF m, base, disp
    <3> QED  BY <3>1
  <2>2. base \in Int /\ \A i \in 1 .. n : disp[i] \in Int /\ base + disp[i] = part[i].base
    BY <1>1, <1>2
  <2> HIDE DEF m, base, disp
  <2>3. Datatype(m) = IF \E i \in DOMAIN part : vector(i) = None THEN None
                      ELSE Joined([i \in DOMAIN part |-> shifted(i)])
    BY <2>1 DEF Datatype
  <2>4. CASE \E i \in 1 .. n : vector(i) = None
    <3>1. Datatype(m) = None
      BY <1>2, <2>3, <2>4
    <3>2. Transferred(m) = None
      BY <2>1, <3>1 DEF Transferred
    <3> QED  BY <3>2, Zenon DEF m, s
  <2>5. CASE ~(\E i \in 1 .. n : vector(i) = None)
    <3>1. ASSUME NEW i \in 1 .. n PROVE shifted(i) = block(i) /\ block(i) \in Seq(Int)
                                        /\ Shift(base, block(i)) = BlocksOf(part[i])
      <4> DEFINE blk == part[i].blksize
                 k == part[i].nblocks
                 stride == part[i].stride
                 d == disp[i]
      <4>1. /\ blk \in Nat /\ k \in Nat /\ stride \in Int /\ d \in Int /\ 0 \in Int /\ base \in Int
            /\ FitsInt(stride) /\ k * blk < 2 ^ IntBits
        BY <1>1, <1>4, <2>2 DEF n
      <4>2. base + d = part[i].base /\ d + 0 = d
        BY <2>2
      <4>3. BlocksOf(part[i]) = BlockBytes(part[i].base, blk, k, stride)
        BY <1>1, BlocksOfIs
      <4>4. vector(i) = Vector(k, blk, stride) /\ vector(i) # None
        BY <2>5
      <4>5. shifted(i) = Shift(d, vector(i)) /\ block(i) = BlockBytes(d, blk, k, stride)
        BY Zenon DEF Shift
      <4> HIDE DEF blk, k, stride, d, vector, shifted, block
      <4>6. Vector(k, blk, stride) \in {None, BlockBytes(0, blk, k, stride)}
        BY <4>1, VectorIs
      <4>7. Shift(d, BlockBytes(0, blk, k, stride)) = BlockBytes(d + 0, blk, k, stride)
        BY <4>1, ShiftBlocks
      <4>8. Shift(base, BlockBytes(d, blk, k, stride)) = BlockBytes(base + d, blk, k, stride)
        BY <4>1, ShiftBlocks
      <4>9. Laid(BlockBytes(d, blk, k, stride), d, blk, k, stride)
        BY <4>1, BlockBytesFacts
      <4>10. block(i) \in Seq(Int)
        BY <4>5, <4>9 DEF Laid
      <4>11. shifted(i) = block(i)
        BY <4>2, <4>4, <4>5, <4>6, <4>7, Zenon
      <4>12. Shift(base, block(i)) = BlocksOf(part[i])
        BY <4>2, <4>3, <4>5, <4>8, Zenon
      <4> QED  BY <4>10, <4>11, <4>12, Zenon
    <3>2. Datatype(m) = Joined(t)
      <4>1. [i \in DOMAIN part |-> shifted(i)] = t
        <5> HIDE DEF shifted, block
        <5> QED  BY <1>2, <3>1
      <4> QED  BY <1>2, <2>3, <2>5, <4>1
    <3>3. t \in Seq(Seq(Int)) /\ Len(t) = n
      <4> HIDE DEF block
      <4>1. \A i \in 1 .. n : block(i) \in Seq(Int)
        BY <3>1
      <4> QED  BY <1>2, <4>1
    <3>4. \A i \in 1 .. n : Shift(base, t[i]) = BlocksOf(part[i])
      <4> HIDE DEF block
      <4>1. \A i \in 1 .. n : t[i] = block(i)
        OBVIOUS
      <4> QED  BY <3>1, <4>1
    <3> HIDE DEF t
    <3>5. [i \in 1 .. Len(t) |-> Shift(base, t[i])] = s
      <4>1. s = [i \in 1 .. n |-> s[i]]
        BY <1>1
      <4>2. \A i \in 1 .. n : Shift(base, t[i]) = s[i]
        BY <1>1, <3>4
      <4> QED  BY <3>3, <4>1, <4>2
    <3>6. Joined(s) = Shift(base, Joined(t))
      BY <2>2, <3>3, <3>5, JoinedShift
    <3>7. Datatype(m) # None
      <4>1. Joined(t) \in Seq(Int)
        BY <3>3, JoinedFacts
      <4> QED  BY <3>2, <4>1, CallsAssumption
    <3>8. Transferred(m) = Joined(s)
      <4>1. m.type # "user"
        BY <2>1
      <4>2. Transferred(m) = Shift(m.mem, Datatype(m))
        BY <3>7, <4>1, TransferredTyped
      <4> QED  BY <2>1, <3>2, <3>6, <4>2, Zenon
    <3> QED  BY <3>8, Zenon DEF m, s
  <2> QED  BY <2>4, <2>5
<1> QED  BY <1>5, <1>6

LEMMA IndexedCarries ==
  ASSUME NEW base \in Int, NEW blocklen \in Seq(Nat), NEW index \in Seq(Int), NEW e \in Nat,
         Len(blocklen) = Len(index)
  PROVE  Transferred(Indexed(base, blocklen, index, e))
           = Joined([i \in DOMAIN index |-> Interval(base + e * index[i], e * blocklen[i])])
<1> DEFINE n == Len(index)
           m == Indexed(base, blocklen, index, e)
           t == [i \in 1 .. n |-> Interval(e * index[i], e * blocklen[i])]
           s == [i \in 1 .. n |-> Interval(base + e * index[i], e * blocklen[i])]
<1>1. n \in Nat /\ DOMAIN index = 1 .. n
  OBVIOUS
<1>2. m.type = "indexed" /\ m.mem = base /\ m.blocklen = blocklen /\ m.index = index /\ m.elemsize = e
  BY DEF Indexed
<1> HIDE DEF m
<1>3. Datatype(m) = Joined(t)
  <2>1. Datatype(m) = Joined([i \in DOMAIN index |-> Interval(e * index[i], e * blocklen[i])])
    BY <1>2 DEF Datatype
  <2> QED  BY <1>1, <2>1, Zenon
<1>4. ASSUME NEW i \in 1 .. n
      PROVE  t[i] \in Seq(Int) /\ Shift(base, t[i]) = s[i]
  <2> DEFINE f == e * index[i]
             l == e * blocklen[i]
  <2>1. f \in Int /\ l \in Nat
    <3>1. index[i] \in Int /\ blocklen[i] \in Nat
      OBVIOUS
    <3> QED  BY <3>1
  <2>2. t[i] = Interval(f, l) /\ s[i] = Interval(base + f, l)
    OBVIOUS
  <2> HIDE DEF f, l, t, s
  <2>3. Interval(f, l) \in Seq(Int)
    BY <2>1, IntervalFacts
  <2>4. Shift(base, Interval(f, l)) = Interval(base + f, l)
    BY <2>1, ShiftInterval
  <2> QED  BY <2>2, <2>3, <2>4
<1>5. t \in Seq(Seq(Int)) /\ Len(t) = n
  <2>1. t = [i \in 1 .. n |-> t[i]]
    OBVIOUS
  <2>2. \A i \in 1 .. n : t[i] \in Seq(Int)
    BY <1>4
  <2> HIDE DEF t, n
  <2> DEFINE T == Seq(Int)
  <2>3. \A i \in 1 .. n : t[i] \in T
    BY <2>2
  <2> HIDE DEF T
  <2>4. t \in Seq(T) /\ Len(t) = n
    BY <1>1, <2>1, <2>3
  <2> QED  BY <2>4 DEF T
<1>6. s = [i \in 1 .. n |-> s[i]]
  OBVIOUS
<1> DEFINE r == Joined([i \in DOMAIN index |-> Interval(base + e * index[i], e * blocklen[i])])
<1>8. r = Joined(s)
  BY <1>1, Zenon
<1> HIDE DEF n, t, s, r
<1>9. [i \in 1 .. Len(t) |-> Shift(base, t[i])] = s
  BY <1>4, <1>5, <1>6
<1>10. Joined(s) = Shift(base, Joined(t))
  BY <1>5, <1>9, JoinedShift
<1>11. Datatype(m) # None
  <2>1. Joined(t) \in Seq(Int)
    BY <1>5, JoinedFacts
  <2> QED  BY <1>3, <2>1, CallsAssumption
<1>12. Transferred(m) = Shift(m.mem, Datatype(m))
  BY <1>2, <1>11, TransferredTyped
<1>13. Transferred(m) = r
  BY <1>2, <1>3, <1>8, <1>10, <1>12, Zenon
<1> QED  BY <1>13, Zenon DEF m, r

\* The declarations, kind by kind.
LEMMA CallKinds ==
  ASSUME NEW c \in Calls
  PROVE  \/ c.op = "user" /\ c.base \in Nat /\ c.nbytes \in Nat
         \/ /\ c.op = "strided" /\ c.base \in Nat /\ c.blksize \in Nat
            /\ c.nblocks \in Nat /\ c.stride \in Int
         \/ c.op = "array" /\ c.part \in Seq(Part) /\ c.part # <<>>
         \/ /\ c.op = "indexed" /\ c.base \in Nat /\ c.blocklen \in Seq(Nat)
            /\ c.index \in Seq(Int) /\ c.elemsize \in Nat /\ Len(c.blocklen) = Len(c.index)
BY CallsAssumption

\* A message memory carries what its declaration asks for, or nothing.
Carries(c) ==
  Len(Wanted(c)) < 2 ^ IntBits /\ (\A s \in Strides(c) : FitsInt(s)) =>
    Transferred(Msgmem(c)) \in {Wanted(c), None}

LEMMA EveryCallCarries ==
  ASSUME NEW c \in Calls
  PROVE  Carries(c)
<1> SUFFICES ASSUME Len(Wanted(c)) < 2 ^ IntBits, \A s \in Strides(c) : FitsInt(s)
             PROVE  Transferred(Msgmem(c)) \in {Wanted(c), None}
  BY DEF Carries
<1>1. CASE c.op = "user" /\ c.base \in Nat /\ c.nbytes \in Nat
  <2>1. Wanted(c) = Interval(c.base, c.nbytes) /\ Msgmem(c) = UserBuf(c.base, c.nbytes)
    BY <1>1 DEF Wanted, Msgmem
  <2> DEFINE b == c.base
             x == c.nbytes
  <2>2. b \in Int /\ x \in Nat
    BY <1>1
  <2>3. Wanted(c) = Interval(b, x) /\ Msgmem(c) = UserBuf(b, x)
    BY <2>1
  <2> HIDE DEF b, x
  <2>4. Len(Interval(b, x)) = x
    BY <2>2, IntervalFacts
  <2>5. x < 2 ^ IntBits
    BY <2>3, <2>4
  <2> QED  BY <2>2, <2>3, <2>5, UserCarries
<1>2. CASE /\ c.op = "strided" /\ c.base \in Nat /\ c.blksize \in Nat
           /\ c.nblocks \in Nat /\ c.stride \in Int
  <2>1. Wanted(c) = BlocksOf(c) /\ Msgmem(c) = Strided(c.base, c.blksize, c.nblocks, c.stride)
        /\ Strides(c) = {c.stride}
    BY <1>2 DEF Wanted, Msgmem, Strides
  <2>2. FitsInt(c.stride) /\ Len(BlocksOf(c)) < 2 ^ IntBits /\ c.base \in Int
    BY <1>2, <2>1
  <2> QED  BY <1>2, <2>1, <2>2, StridedCarries
<1>3. CASE c.op = "array" /\ c.part \in Seq(Part) /\ c.part # <<>>
  <2> DEFINE part == c.part
  <2>1. Wanted(c) = Joined(PartBytes(part)) /\ Msgmem(c) = StridedArray(part)
    BY <1>3 DEF Wanted, Msgmem, PartBytes
  <2>2. Strides(c) = {part[i].stride : i \in DOMAIN part}
    BY <1>3 DEF Strides
  <2>3. part \in Seq(Part) /\ part # <<>>
    BY <1>3
  <2> HIDE DEF part
  <2>4. \A i \in 1 .. Len(part) : FitsInt(part[i].stride)
    BY <2>2, <2>3
  <2>5. Len(Joined(PartBytes(part))) < 2 ^ IntBits
    BY <2>1
  <2>6. Transferred(StridedArray(part)) \in {Joined(PartBytes(part)), None}
    BY <2>3, <2>4, <2>5, ArrayCarries
  <2> QED  BY <2>1, <2>6
<1>4. CASE /\ c.op = "indexed" /\ c.base \in Nat /\ c.blocklen \in Seq(Nat)
           /\ c.index \in Seq(Int) /\ c.elemsize \in Nat /\ Len(c.blocklen) = Len(c.index)
  <2> DEFINE b == c.base
             l == c.blocklen
             x == c.index
             e == c.elemsize
  <2>1. /\ Wanted(c) = Joined([i \in DOMAIN x |-> Interval(b + e * x[i], e * l[i])])
        /\ Msgmem(c) = Indexed(b, l, x, e)
    BY <1>4 DEF Wanted, Msgmem
  <2>2. b \in Int /\ l \in Seq(Nat) /\ x \in Seq(Int) /\ e \in Nat /\ Len(l) = Len(x)
    BY <1>4
  <2> HIDE DEF b, l, x, e
  <2>3. Transferred(Indexed(b, l, x, e)) = Joined([i \in DOMAIN x |-> Interval(b + e * x[i], e * l[i])])
    BY <2>2, IndexedCarries
  <2> QED  BY <2>1, <2>3
<1> QED  BY <1>1, <1>2, <1>3, <1>4, CallKinds

\* A message memory is the one its declaration describes.
Declared == mm # None => call \in Calls /\ mm = Msgmem(call)

LEMMA DeclaredAlways == Spec => []Declared
<1>1. Init => Declared
  BY DEF Init, Declared
<1>2. Declared /\ [Next]_vars => Declared'
  <2> SUFFICES ASSUME Declared, [Next]_vars PROVE Declared'
    OBVIOUS
  <2>1. ASSUME NEW b \in Sizes, NEW a \in Alignments, Allocate(b, a) PROVE Declared'
    BY <2>1 DEF Allocate, Declared
  <2>2. CASE FreeMemory
    BY <2>2 DEF FreeMemory, Declared
  <2>3. ASSUME NEW c \in Calls, Declare(c) PROVE Declared'
    BY <2>3 DEF Declare, Declared
  <2>4. CASE FreeMsgmem
    BY <2>4 DEF FreeMsgmem, Declared
  <2>5. CASE UNCHANGED vars
    BY <2>5 DEF vars, Declared
  <2> QED  BY <2>1, <2>2, <2>3, <2>4, <2>5 DEF Next
<1> QED  BY <1>1, <1>2, PTL DEF Spec

\* Whatever is declared, a message carries the bytes that its memory describes, in that
\* order, or MPI refuses the datatype, unless the bytes or a stride are beyond what an
\* int holds (QMP_mem.c:96, 116-131; mpi/QMP_mem_mpi.c:8-75).
THEOREM CarriesWhatIsDeclared == Spec => []WholeOrRefused
<1>1. Declared => WholeOrRefused
  <2> SUFFICES ASSUME Declared, mm # None PROVE WholeOrRefused
    BY DEF WholeOrRefused
  <2>1. call \in Calls /\ mm = Msgmem(call)
    BY DEF Declared
  <2>2. Carries(call)
    BY <2>1, EveryCallCarries
  <2> QED  BY <2>1, <2>2 DEF Carries, WholeOrRefused
<1> QED  BY <1>1, DeclaredAlways, PTL

-----------------------------------------------------------------------------
(* What the messaging unit puts.                                           *)

SizedPiece == [base : Int, size : Nat]
Runs(p) == [i \in DOMAIN p |-> Interval(p[i].base, p[i].size)]
Bytes(p) == Joined(Runs(p))

LEMMA RunsFacts ==
  ASSUME NEW p \in Seq(SizedPiece)
  PROVE  /\ Runs(p) \in Seq(Seq(Int)) /\ Len(Runs(p)) = Len(p)
         /\ \A i \in 1 .. Len(p) : Runs(p)[i] = Interval(p[i].base, p[i].size)
<1> DEFINE n == Len(p)
           s == Runs(p)
<1>1. n \in Nat /\ DOMAIN p = 1 .. n
  OBVIOUS
<1>2. s = [i \in 1 .. n |-> Interval(p[i].base, p[i].size)]
  BY <1>1, Zenon DEF Runs
<1>3. ASSUME NEW i \in 1 .. n PROVE Interval(p[i].base, p[i].size) \in Seq(Int)
  <2> DEFINE b == p[i].base
             l == p[i].size
  <2>1. b \in Int /\ l \in Nat
    <3>1. p[i] \in SizedPiece
      BY <1>3
    <3> QED  BY <3>1 DEF SizedPiece
  <2> HIDE DEF b, l
  <2>2. Interval(b, l) \in Seq(Int)
    BY <2>1, IntervalFacts
  <2> QED  BY <2>2 DEF b, l
<1> HIDE DEF n, s
<1>4. s \in Seq(Seq(Int)) /\ Len(s) = n /\ \A i \in 1 .. n : s[i] = Interval(p[i].base, p[i].size)
  BY <1>1, <1>2, <1>3
<1> QED  BY <1>4, Zenon DEF n, s

LEMMA BytesConcat ==
  ASSUME NEW p \in Seq(SizedPiece), NEW q \in Seq(SizedPiece)
  PROVE  Bytes(p \o q) = Bytes(p) \o Bytes(q)
<1> DEFINE c == p \o q
           l == Len(p)
           m == Len(q)
           u == Runs(c)
           s == Runs(p)
           t == Runs(q)
<1>1. /\ c \in Seq(SizedPiece) /\ Len(c) = l + m
      /\ \A i \in 1 .. l + m : c[i] = IF i <= l THEN p[i] ELSE q[i - l]
  BY ConcatProperties
<1>2. l \in Nat /\ m \in Nat
  OBVIOUS
<1>3. /\ s \in Seq(Seq(Int)) /\ Len(s) = l /\ \A i \in 1 .. l : s[i] = Interval(p[i].base, p[i].size)
      /\ t \in Seq(Seq(Int)) /\ Len(t) = m /\ \A i \in 1 .. m : t[i] = Interval(q[i].base, q[i].size)
  BY RunsFacts, Zenon
<1> HIDE DEF c
<1>4. u \in Seq(Seq(Int)) /\ Len(u) = Len(c) /\ \A i \in 1 .. Len(c) : u[i] = Interval(c[i].base, c[i].size)
  BY <1>1, RunsFacts
<1> HIDE DEF l, m, u, s, t
<1>5. ASSUME NEW i \in 1 .. l PROVE u[i] = s[i]
  <2>1. i \in 1 .. l + m /\ i <= l
    BY <1>2
  <2>2. c[i] = p[i]
    BY <1>1, <2>1
  <2>3. u[i] = Interval(c[i].base, c[i].size) /\ s[i] = Interval(p[i].base, p[i].size)
    BY <1>1, <1>3, <1>4, <2>1
  <2> QED  BY <2>2, <2>3, Zenon
<1>6. ASSUME NEW i \in 1 .. m PROVE u[l + i] = t[i]
  <2>1. l + i \in 1 .. l + m /\ ~(l + i <= l) /\ (l + i) - l = i
    BY <1>2
  <2>2. c[l + i] = q[i]
    BY <1>1, <2>1
  <2>3. u[l + i] = Interval(c[l + i].base, c[l + i].size) /\ t[i] = Interval(q[i].base, q[i].size)
    BY <1>1, <1>3, <1>4, <2>1
  <2> QED  BY <2>2, <2>3, Zenon
<1>7. HoldsBoth(u, s, t)
  BY <1>1, <1>3, <1>4, <1>5, <1>6 DEF HoldsBoth
<1>8. u = s \o t
  BY <1>3, <1>4, <1>7, ConcatIs
<1>9. Joined(s \o t) = Joined(s) \o Joined(t)
  BY <1>3, JoinedConcat
<1>10. Joined(u) = Joined(s) \o Joined(t)
  BY <1>8, <1>9
<1> QED  BY <1>10, Zenon DEF Bytes, u, s, t, c

\* The bytes of lists of pieces that are joined are the bytes of each list, joined.
LEMMA BytesJoined ==
  ASSUME NEW P \in Seq(Seq(SizedPiece))
  PROVE  Bytes(Joined(P)) = Joined([i \in 1 .. Len(P) |-> Bytes(P[i])])
<1> DEFINE n == Len(P)
           t == [i \in 1 .. n |-> Bytes(P[i])]
<1>1. PICK f : Prefixes(P, f) /\ Joined(P) = f[n]
  BY JoinedPrefixes
<1> DEFINE g == [i \in 0 .. n |-> Bytes(f[i])]
<1>2. /\ n \in Nat /\ f[0] = <<>>
      /\ \A i \in 1 .. n : f[i] = f[i - 1] \o P[i]
      /\ \A i \in 1 .. n : P[i] \in Seq(SizedPiece)
      /\ \A i \in 0 .. n : f[i] \in Seq(SizedPiece)
  <2>1. f[0] = <<>> /\ \A i \in 1 .. n : f[i] = f[i - 1] \o P[i]
    BY <1>1, Zenon DEF Prefixes
  <2>2. \A i \in 1 .. n : P[i] \in Seq(SizedPiece)
    BY ElementOfSeq
  <2>3. \A i \in 0 .. n : f[i] \in Seq(SizedPiece)
    BY <1>1, PrefixFacts
  <2>4. n \in Nat
    OBVIOUS
  <2> QED  BY <2>1, <2>2, <2>3, <2>4
<1>3. /\ \A i \in 0 .. n : g[i] = Bytes(f[i])
      /\ \A i \in 1 .. n : t[i] = Bytes(P[i])
  OBVIOUS
<1>4. t \in Seq(Seq(Int)) /\ Len(t) = n
  <2>1. ASSUME NEW i \in 1 .. n PROVE t[i] \in Seq(Int)
    <3>1. Runs(P[i]) \in Seq(Seq(Int))
      BY <1>2, RunsFacts
    <3>2. Joined(Runs(P[i])) \in Seq(Int)
      BY <3>1, JoinedFacts
    <3> QED  BY <1>3, <3>2 DEF Bytes
  <2>2. t = [i \in 1 .. n |-> t[i]]
    OBVIOUS
  <2>3. n \in Nat
    BY <1>2
  <2> HIDE DEF t, n
  <2> QED  BY <2>1, <2>2, <2>3
<1> HIDE DEF n, t, g
<1>5. g[0] = <<>>
  <2>1. <<>> \in Seq(Seq(Int)) /\ Len(<<>>) = 0 /\ Runs(<<>>) = <<>>
    BY DEF Runs
  <2>2. Joined(<<>>) = <<>>
    <3>1. PICK h : Prefixes(<<>>, h) /\ Joined(<<>>) = h[Len(<<>>)]
      BY <2>1, JoinedPrefixes
    <3>2. h[0] = <<>>
      BY <3>1, Zenon DEF Prefixes
    <3> QED  BY <2>1, <3>1, <3>2, Zenon
  <2>3. Bytes(<<>>) = <<>>
    BY <2>1, <2>2, Zenon DEF Bytes
  <2>4. 0 \in 0 .. n
    BY <1>2
  <2> QED  BY <1>2, <1>3, <2>3, <2>4
<1>6. ASSUME NEW i \in 1 .. n PROVE g[i] = g[i - 1] \o t[i]
  <2>1. i \in 0 .. n /\ i - 1 \in 0 .. n
    BY <1>2
  <2>2. f[i - 1] \in Seq(SizedPiece) /\ P[i] \in Seq(SizedPiece)
    BY <1>2, <2>1
  <2>3. Bytes(f[i - 1] \o P[i]) = Bytes(f[i - 1]) \o Bytes(P[i])
    BY <2>2, BytesConcat
  <2>4. f[i] = f[i - 1] \o P[i]
    BY <1>2
  <2> QED  BY <1>3, <2>1, <2>3, <2>4
<1>7. Prefixes(t, g)
  BY <1>4, <1>5, <1>6 DEF Prefixes
<1>8. Joined(t) = g[n]
  BY <1>4, <1>7, JoinedIs
<1>9. g[n] = Bytes(f[n])
  BY <1>2, <1>3
<1>10. Bytes(Joined(P)) = Joined(t)
  BY <1>1, <1>8, <1>9
<1> QED  BY <1>10, Zenon DEF t, n

\* The offsets of n blocks, each from the one before it.
Offsets(n, stride, f) == f = [j \in 1 .. n |-> IF j = 1 THEN 0 ELSE ToInt(f[j - 1] + stride)]

Fitting(n, stride) == \A j \in 1 .. n : FitsInt((j - 1) * stride)

\* Where every one of them fits, they are the multiples of the stride.
LEMMA OffsetsAre ==
  ASSUME NEW n \in Nat, NEW stride \in Int, Fitting(n, stride)
  PROVE  /\ \E f : Offsets(n, stride, f)
         /\ \A f : Offsets(n, stride, f) => \A j \in 1 .. n : f[j] = (j - 1) * stride
<1> DEFINE v(j) == (j - 1) * stride
<1>1. ASSUME NEW j \in 1 .. n, j # 1
      PROVE  j - 1 \in 1 .. n /\ v(j - 1) + stride = v(j) /\ ToInt(v(j - 1) + stride) = v(j)
  <2>1. j - 1 \in 1 .. n
    BY <1>1
  <2>2. v(j - 1) + stride = v(j)
    OBVIOUS
  <2>3. ToInt(v(j)) = v(j)
    BY Zenon DEF FitsInt, Fitting
  <2> HIDE DEF v
  <2> QED  BY <2>1, <2>2, <2>3
<1>2. v(1) = 0
  OBVIOUS
<1> HIDE DEF v
<1>3. \E f : Offsets(n, stride, f)
  <2> DEFINE g == [j \in 1 .. n |-> v(j)]
  <2>1. ASSUME NEW j \in 1 .. n
        PROVE  v(j) = IF j = 1 THEN 0 ELSE ToInt(g[j - 1] + stride)
    <3>1. CASE j = 1
      BY <1>2, <3>1
    <3>2. CASE j # 1
      <4>1. g[j - 1] = v(j - 1)
        BY <1>1, <3>2
      <4> HIDE DEF g
      <4> QED  BY <1>1, <3>2, <4>1
    <3> QED  BY <3>1, <3>2
  <2>2. g = [j \in 1 .. n |-> v(j)]
    OBVIOUS
  <2> HIDE DEF g
  <2>3. Offsets(n, stride, g)
    BY <2>1, <2>2 DEF Offsets
  <2> QED  BY <2>3
<1>4. ASSUME NEW f, Offsets(n, stride, f) PROVE \A j \in 1 .. n : f[j] = v(j)
  <2> DEFINE S == {i \in 0 .. n : i = 0 \/ f[i] = v(i)}
  <2>1. \A j \in 1 .. n : f[j] = IF j = 1 THEN 0 ELSE ToInt(f[j - 1] + stride)
    BY <1>4 DEF Offsets
  <2>2. 0 \in S
    OBVIOUS
  <2>3. ASSUME NEW i \in 1 .. n, i - 1 \in S PROVE i \in S
    <3>1. CASE i = 1
      BY <1>2, <2>1, <3>1
    <3>2. CASE i # 1
      <4>1. f[i - 1] = v(i - 1)
        BY <2>3, <3>2
      <4>2. f[i] = ToInt(v(i - 1) + stride)
        BY <2>1, <3>2, <4>1
      <4>3. f[i] = v(i)
        BY <1>1, <3>2, <4>2
      <4> QED  BY <4>3
    <3> QED  BY <3>1, <3>2
  <2>4. \A i \in 0 .. n : i \in S
    <3> HIDE DEF S
    <3> QED  BY <2>2, <2>3, Induction
  <2>5. ASSUME NEW j \in 1 .. n PROVE f[j] = v(j)
    <3>1. j \in 0 .. n /\ j # 0
      OBVIOUS
    <3> QED  BY <2>4, <3>1
  <2> QED  BY <2>5
<1>5. \A f : Offsets(n, stride, f) => \A j \in 1 .. n : f[j] = v(j)
  BY <1>4
<1> QED  BY <1>3, <1>5 DEF v

EvenPieces(base, blk, n, stride) == [j \in 1 .. n |-> Piece(base + (j - 1) * stride, blk)]

\* The pieces of blocks are as far apart as the blocks.
LEMMA StridedPiecesAre ==
  ASSUME NEW base \in Int, NEW blk \in Nat, NEW n \in Nat, NEW stride \in Int, Fitting(n, stride)
  PROVE  StridedPieces(base, blk, n, stride) = EvenPieces(base, blk, n, stride)
<1> DEFINE h[j \in 1 .. n] == IF j = 1 THEN 0 ELSE ToInt(h[j - 1] + stride)
<1>1. h = CHOOSE f : Offsets(n, stride, f)
  BY DEF Offsets
<1>2. StridedPieces(base, blk, n, stride) = [j \in 1 .. n |-> Piece(base + h[j], blk)]
  BY Zenon DEF StridedPieces
<1> HIDE DEF h
<1>3. Offsets(n, stride, h)
  BY <1>1, OffsetsAre, Zenon
<1>4. \A j \in 1 .. n : h[j] = (j - 1) * stride
  BY <1>3, OffsetsAre, Zenon
<1>5. [j \in 1 .. n |-> Piece(base + h[j], blk)] = [j \in 1 .. n |-> Piece(base + (j - 1) * stride, blk)]
  BY <1>4
<1> QED  BY <1>2, <1>5, Zenon DEF EvenPieces

\* The bytes of those pieces are those of the blocks.
LEMMA BlocksPut ==
  ASSUME NEW b, b.base \in Int, b.blksize \in Nat, b.nblocks \in Nat, b.stride \in Int, Near(b),
         NEW p, p = StridedPieces(b.base, b.blksize, b.nblocks, b.stride)
  PROVE  p \in Seq(SizedPiece) /\ Bytes(p) = BlocksOf(b)
<1> DEFINE base == b.base
           blk == b.blksize
           n == b.nblocks
           stride == b.stride
           at(j) == base + (j - 1) * stride
<1>1. base \in Int /\ blk \in Nat /\ n \in Nat /\ stride \in Int /\ Fitting(n, stride)
  <2>1. Fitting(n, stride)
    BY Zenon DEF Near, Fitting
  <2> QED  BY <2>1
<1>2. BlocksOf(b) = Joined([j \in 1 .. n |-> Interval(at(j), blk)])
  BY Zenon DEF BlocksOf
<1>3. p = StridedPieces(base, blk, n, stride)
  OBVIOUS
<1> HIDE DEF base, blk, n, stride
<1>4. p = [j \in 1 .. n |-> Piece(at(j), blk)]
  <2>1. StridedPieces(base, blk, n, stride) = EvenPieces(base, blk, n, stride)
    BY <1>1, StridedPiecesAre
  <2> QED  BY <1>3, <2>1, Zenon DEF EvenPieces
<1>5. ASSUME NEW j \in 1 .. n PROVE at(j) \in Int
  BY <1>1
<1> HIDE DEF at
<1>6. ASSUME NEW j \in 1 .. n
      PROVE  p[j].base = at(j) /\ p[j].size = blk /\ Piece(at(j), blk) \in SizedPiece
  BY <1>1, <1>4, <1>5 DEF Piece, SizedPiece
<1>7. p \in Seq(SizedPiece) /\ DOMAIN p = 1 .. n
  BY <1>1, <1>4, <1>6
<1>8. [i \in 1 .. n |-> Interval(p[i].base, p[i].size)] = [j \in 1 .. n |-> Interval(at(j), blk)]
  BY <1>6
<1>9. Bytes(p) = Joined([j \in 1 .. n |-> Interval(at(j), blk)])
  BY <1>7, <1>8, Zenon DEF Bytes, Runs
<1> QED  BY <1>2, <1>7, <1>9

LEMMA PutBytesIs ==
  ASSUME NEW m
  PROVE  PutBytes(m) = Bytes(Pieces(m))
BY Zenon DEF PutBytes, Bytes, Runs

\* A user's buffer is put as it is sent.
LEMMA UserPuts ==
  ASSUME NEW base \in Int, NEW x \in Nat, Transferred(UserBuf(base, x)) # None
  PROVE  PutBytes(UserBuf(base, x)) = Transferred(UserBuf(base, x))
<1> DEFINE n == ToInt(x)
           m == UserBuf(base, x)
           p == <<Piece(base, n)>>
<1>1. m.type = "user" /\ m.mem = base /\ m.nbytes = n
  BY DEF UserBuf
<1>2. n \in Int /\ Transferred(m) # None
  BY ToIntFacts
<1> HIDE DEF m, n
<1>3. ~(n < 0) /\ Transferred(m) = Interval(base, n)
  BY <1>1, <1>2 DEF Transferred
<1>4. Pieces(m) = p
  BY <1>1 DEF Pieces
<1>5. Runs(p) = <<Interval(base, n)>>
  BY DEF Runs, Piece
<1>6. Interval(base, n) \in Seq(Int)
  BY <1>2, <1>3, IntervalFacts
<1>7. PutBytes(m) = Bytes(p)
  BY <1>4, PutBytesIs, Zenon
<1>8. Bytes(p) = Interval(base, n)
  BY <1>5, <1>6, JoinedOne, Zenon DEF Bytes
<1> QED  BY <1>3, <1>7, <1>8, Zenon DEF m

LEMMA StridedPuts ==
  ASSUME NEW b, b.base \in Int, b.blksize \in Nat, b.nblocks \in Nat, b.stride \in Int, Near(b),
         Transferred(Strided(b.base, b.blksize, b.nblocks, b.stride)) = BlocksOf(b),
         BlocksOf(b) # None
  PROVE  PutBytes(Strided(b.base, b.blksize, b.nblocks, b.stride)) = BlocksOf(b)
<1> DEFINE m == Strided(b.base, b.blksize, b.nblocks, b.stride)
           x == b.blksize * b.nblocks
<1>1. CASE b.stride = b.blksize \/ b.nblocks = 1
  <2>1. m = UserBuf(b.base, x)
    BY <1>1, Zenon DEF Strided
  <2>2. x \in Nat /\ Transferred(m) # None /\ Transferred(m) = BlocksOf(b)
    <3>1. x \in Nat
      OBVIOUS
    <3> QED  BY <3>1, Zenon
  <2> HIDE DEF m, x
  <2>3. PutBytes(m) = Transferred(m)
    BY <2>1, <2>2, UserPuts
  <2> QED  BY <2>2, <2>3, Zenon DEF m
<1>2. CASE ~(b.stride = b.blksize \/ b.nblocks = 1)
  <2> DEFINE p == StridedPieces(b.base, b.blksize, b.nblocks, b.stride)
  <2>1. m = [type |-> "strided", mem |-> b.base, nbytes |-> ToInt(x),
             blksize |-> b.blksize, nblocks |-> b.nblocks, stride |-> b.stride]
    BY <1>2, Zenon DEF Strided
  <2> HIDE DEF m, x
  <2>2. m.type = "strided" /\ m.mem = b.base /\ m.blksize = b.blksize /\ m.nblocks = b.nblocks
        /\ m.stride = b.stride
    BY <2>1
  <2>3. Pieces(m) = p
    BY <2>2 DEF Pieces
  <2> HIDE DEF p
  <2>4. Bytes(p) = BlocksOf(b)
    BY BlocksPut DEF p
  <2>5. PutBytes(m) = BlocksOf(b)
    BY <2>3, <2>4, PutBytesIs, Zenon
  <2> QED  BY <2>5, Zenon DEF m
<1> QED  BY <1>1, <1>2

LEMMA ArrayPuts ==
  ASSUME NEW part \in Seq(Part), part # <<>>,
         \A i \in 1 .. Len(part) : Near(part[i]),
         Transferred(StridedArray(part)) = Joined(PartBytes(part))
  PROVE  PutBytes(StridedArray(part)) = Joined(PartBytes(part))
<1> DEFINE n == Len(part)
           s == PartBytes(part)
           m == StridedArray(part)
<1>1. /\ s \in Seq(Seq(Int)) /\ Len(s) = n
      /\ \A i \in 1 .. n :
           /\ part[i].base \in Int /\ part[i].blksize \in Nat
           /\ part[i].nblocks \in Nat /\ part[i].stride \in Int
           /\ BlocksOf(part[i]) \in Seq(Int)
           /\ s[i] = BlocksOf(part[i])
           /\ Len(BlocksOf(part[i])) = part[i].nblocks * part[i].blksize
  BY PartBytesFacts, Zenon
<1>2. n \in Nat \ {0} /\ 1 \in 1 .. n /\ DOMAIN part = 1 .. n
  OBVIOUS
<1>3. \A i \in 1 .. n : Near(part[i])
  OBVIOUS
<1>4. Transferred(m) = Joined(s)
  OBVIOUS
<1> HIDE DEF n, s
<1>5. CASE n = 1
  <2> DEFINE b == part[1]
  <2>1. m = Strided(b.base, b.blksize, b.nblocks, b.stride)
    BY <1>5, Zenon DEF StridedArray, n
  <2>2. /\ b.base \in Int /\ b.blksize \in Nat /\ b.nblocks \in Nat /\ b.stride \in Int /\ Near(b)
        /\ BlocksOf(b) \in Seq(Int)
    BY <1>1, <1>2, <1>3
  <2>3. s = <<BlocksOf(b)>>
    BY <1>1, <1>2, <1>5
  <2> HIDE DEF b, m
  <2>4. Joined(s) = BlocksOf(b)
    BY <2>2, <2>3, JoinedOne
  <2>5. BlocksOf(b) # None
    BY <2>2, CallsAssumption
  <2>6. PutBytes(m) = BlocksOf(b)
    <3>1. Transferred(Strided(b.base, b.blksize, b.nblocks, b.stride)) = BlocksOf(b)
      BY <1>4, <2>1, <2>4, Zenon
    <3>2. PutBytes(Strided(b.base, b.blksize, b.nblocks, b.stride)) = BlocksOf(b)
      BY <2>2, <2>5, <3>1, StridedPuts
    <3> QED  BY <2>1, <3>2, Zenon
  <2> QED  BY <2>4, <2>6, Zenon DEF m, s
<1>6. CASE n # 1
  <2> DEFINE base == part[1].base
             disp == [i \in DOMAIN part |-> part[i].base - part[1].base]
             puts(i) == StridedPieces(part[i].base, part[i].blksize, part[i].nblocks, part[i].stride)
             P == [i \in 1 .. n |-> puts(i)]
  <2>1. m.type = "array" /\ m.mem = base /\ m.disp = disp /\ m.part = part
    <3>1. \E x : m = [type |-> "array", mem |-> base, nbytes |-> x, disp |-> disp, part |-> part]
      BY <1>6, Zenon DEF StridedArray, n
    <3> HIDE DEF m, base, disp
    <3> QED  BY <3>1
  <2>2. base \in Int /\ \A i \in 1 .. n : disp[i] \in Int /\ base + disp[i] = part[i].base
    BY <1>1, <1>2
  <2> HIDE DEF m, base, disp
  <2>3. Pieces(m) = Joined([i \in DOMAIN part |->
                      StridedPieces(base + disp[i], part[i].blksize, part[i].nblocks, part[i].stride)])
    BY <2>1 DEF Pieces
  <2>4. [i \in DOMAIN part |->
           StridedPieces(base + disp[i], part[i].blksize, part[i].nblocks, part[i].stride)] = P
    BY <1>2, <2>2
  <2>5. ASSUME NEW i \in 1 .. n PROVE puts(i) \in Seq(SizedPiece) /\ Bytes(puts(i)) = BlocksOf(part[i])
    <3>1. /\ part[i].base \in Int /\ part[i].blksize \in Nat
          /\ part[i].nblocks \in Nat /\ part[i].stride \in Int /\ Near(part[i])
      BY <1>1, <1>3
    <3> QED  BY <3>1, BlocksPut
  <2> HIDE DEF puts
  <2>6. P \in Seq(Seq(SizedPiece)) /\ Len(P) = n /\ \A i \in 1 .. n : P[i] = puts(i)
    BY <1>2, <2>5
  <2> HIDE DEF P
  <2>7. [i \in 1 .. Len(P) |-> Bytes(P[i])] = s
    <3>1. s = [i \in 1 .. n |-> s[i]]
      BY <1>1
    <3>2. \A i \in 1 .. n : Bytes(P[i]) = s[i]
      BY <1>1, <2>5, <2>6
    <3> QED  BY <2>6, <3>1, <3>2
  <2>8. Bytes(Joined(P)) = Joined(s)
    BY <2>6, <2>7, BytesJoined
  <2>9. Pieces(m) = Joined(P)
    BY <2>3, <2>4, Zenon
  <2>10. PutBytes(m) = Joined(s)
    BY <2>8, <2>9, PutBytesIs, Zenon
  <2> QED  BY <2>10, Zenon DEF m, s
<1> QED  BY <1>5, <1>6

LEMMA IndexedPuts ==
  ASSUME NEW base \in Int, NEW blocklen \in Seq(Nat), NEW index \in Seq(Int), NEW e \in Nat,
         Len(blocklen) = Len(index),
         \A i \in DOMAIN index : FitsInt(e * index[i]) /\ FitsInt(e * blocklen[i])
  PROVE  PutBytes(Indexed(base, blocklen, index, e))
           = Joined([i \in DOMAIN index |-> Interval(base + e * index[i], e * blocklen[i])])
<1> DEFINE m == Indexed(base, blocklen, index, e)
           p == [i \in DOMAIN index |-> Piece(base + ToInt(e * index[i]), ToInt(e * blocklen[i]))]
           r == [i \in DOMAIN index |-> Interval(base + e * index[i], e * blocklen[i])]
<1>1. m.type = "indexed" /\ m.mem = base /\ m.blocklen = blocklen /\ m.index = index /\ m.elemsize = e
  BY DEF Indexed
<1> HIDE DEF m
<1>2. Pieces(m) = p
  BY <1>1 DEF Pieces
<1>3. DOMAIN p = DOMAIN index
  OBVIOUS
<1>4. ASSUME NEW i \in DOMAIN index
      PROVE  p[i].base = base + e * index[i] /\ p[i].size = e * blocklen[i]
  <2>1. ToInt(e * index[i]) = e * index[i] /\ ToInt(e * blocklen[i]) = e * blocklen[i]
    BY Zenon DEF FitsInt
  <2>2. p[i] = Piece(base + ToInt(e * index[i]), ToInt(e * blocklen[i]))
    OBVIOUS
  <2>3. p[i] = Piece(base + e * index[i], e * blocklen[i])
    BY <2>1, <2>2, Zenon
  <2> HIDE DEF p
  <2> QED  BY <2>3 DEF Piece
<1> HIDE DEF p
<1>5. Runs(p) = r
  BY <1>3, <1>4 DEF Runs
<1>6. PutBytes(m) = Joined(r)
  BY <1>2, <1>5, PutBytesIs, Zenon DEF Bytes
<1> QED  BY <1>6, Zenon DEF m

\* A paired send of a declared memory puts what MPI would send.
Puts(c) ==
  Transferred(Msgmem(c)) = Wanted(c) /\ Reached(c) => PutBytes(Msgmem(c)) = Wanted(c)

LEMMA EveryCallPuts ==
  ASSUME NEW c \in Calls
  PROVE  Puts(c)
<1> SUFFICES ASSUME Transferred(Msgmem(c)) = Wanted(c), Reached(c)
             PROVE  PutBytes(Msgmem(c)) = Wanted(c)
  BY DEF Puts
<1>1. CASE c.op = "user" /\ c.base \in Nat /\ c.nbytes \in Nat
  <2> DEFINE b == c.base
             x == c.nbytes
  <2>1. b \in Int /\ x \in Nat /\ Wanted(c) = Interval(b, x) /\ Msgmem(c) = UserBuf(b, x)
    BY <1>1 DEF Wanted, Msgmem
  <2> HIDE DEF b, x
  <2>2. Interval(b, x) # None
    BY <2>1, IntervalFacts, CallsAssumption
  <2>3. Transferred(UserBuf(b, x)) = Interval(b, x)
    BY <2>1, Zenon
  <2>4. PutBytes(UserBuf(b, x)) = Transferred(UserBuf(b, x))
    BY <2>1, <2>2, <2>3, UserPuts
  <2> QED  BY <2>1, <2>3, <2>4, Zenon
<1>2. CASE /\ c.op = "strided" /\ c.base \in Nat /\ c.blksize \in Nat
           /\ c.nblocks \in Nat /\ c.stride \in Int
  <2>1. /\ Wanted(c) = BlocksOf(c) /\ Msgmem(c) = Strided(c.base, c.blksize, c.nblocks, c.stride)
        /\ Near(c)
    BY <1>2 DEF Wanted, Msgmem, Reached
  <2>2. BlocksOf(c) # None
    <3> DEFINE base == c.base
               blk == c.blksize
               n == c.nblocks
               stride == c.stride
    <3>1. base \in Int /\ blk \in Nat /\ n \in Nat /\ stride \in Int
      BY <1>2
    <3>2. BlocksOf(c) = BlockBytes(base, blk, n, stride)
      BY <3>1, BlocksOfIs
    <3> HIDE DEF base, blk, n, stride
    <3>3. Laid(BlockBytes(base, blk, n, stride), base, blk, n, stride)
      BY <3>1, BlockBytesFacts
    <3>4. BlocksOf(c) \in Seq(Int)
      BY <3>2, <3>3 DEF Laid
    <3> QED  BY <3>4, CallsAssumption
  <2>3. c.base \in Int /\ Transferred(Strided(c.base, c.blksize, c.nblocks, c.stride)) = BlocksOf(c)
    BY <1>2, <2>1
  <2>4. PutBytes(Strided(c.base, c.blksize, c.nblocks, c.stride)) = BlocksOf(c)
    BY <1>2, <2>1, <2>2, <2>3, StridedPuts
  <2> QED  BY <2>1, <2>4, Zenon
<1>3. CASE c.op = "array" /\ c.part \in Seq(Part) /\ c.part # <<>>
  <2> DEFINE part == c.part
  <2>1. Wanted(c) = Joined(PartBytes(part)) /\ Msgmem(c) = StridedArray(part)
    BY <1>3 DEF Wanted, Msgmem, PartBytes
  <2>2. \A i \in DOMAIN part : Near(part[i])
    BY <1>3 DEF Reached
  <2>3. part \in Seq(Part) /\ part # <<>>
    BY <1>3
  <2> HIDE DEF part
  <2>4. \A i \in 1 .. Len(part) : Near(part[i])
    BY <2>2, <2>3
  <2>5. Transferred(StridedArray(part)) = Joined(PartBytes(part))
    BY <2>1, Zenon
  <2>6. PutBytes(StridedArray(part)) = Joined(PartBytes(part))
    BY <2>3, <2>4, <2>5, ArrayPuts
  <2> QED  BY <2>1, <2>6, Zenon
<1>4. CASE /\ c.op = "indexed" /\ c.base \in Nat /\ c.blocklen \in Seq(Nat)
           /\ c.index \in Seq(Int) /\ c.elemsize \in Nat /\ Len(c.blocklen) = Len(c.index)
  <2> DEFINE b == c.base
             l == c.blocklen
             x == c.index
             e == c.elemsize
  <2>1. /\ Wanted(c) = Joined([i \in DOMAIN x |-> Interval(b + e * x[i], e * l[i])])
        /\ Msgmem(c) = Indexed(b, l, x, e)
    BY <1>4 DEF Wanted, Msgmem
  <2>2. \A i \in DOMAIN x : FitsInt(e * x[i]) /\ FitsInt(e * l[i])
    BY <1>4 DEF Reached
  <2>3. b \in Int /\ l \in Seq(Nat) /\ x \in Seq(Int) /\ e \in Nat /\ Len(l) = Len(x)
    BY <1>4
  <2> HIDE DEF b, l, x, e
  <2>4. PutBytes(Indexed(b, l, x, e)) = Joined([i \in DOMAIN x |-> Interval(b + e * x[i], e * l[i])])
    BY <2>2, <2>3, IndexedPuts
  <2> QED  BY <2>1, <2>4, Zenon
<1> QED  BY <1>1, <1>2, <1>3, <1>4, CallKinds

\* Whatever is declared, a paired send puts the bytes that the memory's datatype would
\* send, as long as every block begins where an int reaches from the beginning of its
\* part (QMP_comm_bgspi.c:58-98).
THEOREM PutsWhatMpiSends == Spec => []SpiSendsTheSame
<1>1. Declared => SpiSendsTheSame
  <2> SUFFICES ASSUME Declared, mm # None PROVE SpiSendsTheSame
    BY DEF SpiSendsTheSame
  <2>1. call \in Calls /\ mm = Msgmem(call)
    BY DEF Declared
  <2>2. Puts(call)
    BY <2>1, EveryCallPuts
  <2> QED  BY <2>1, <2>2 DEF Puts, SpiSendsTheSame
<1> QED  BY <1>1, DeclaredAlways, PTL
=============================================================================
