--------------------------- MODULE QMPLayout_proofs --------------------------
(***************************************************************************)
(* Theorems about the search of QMP_layout_grid, for lattices of any number *)
(* and length of axes and machines of any size: the squares it is dividing  *)
(* the lattice into cover it exactly, at every turn of its loop; it finds a *)
(* layout on all nodes where there is one with the primes of its table; and *)
(* the topology it declares numbers the nodes one to one.                   *)
(***************************************************************************)
EXTENDS QMPLayout, FiniteSetTheorems, WellFoundedInduction, TLAPS

-----------------------------------------------------------------------------
(* Least and greatest elements.                                            *)

\* A bounded set of natural numbers has a least element: the initial interval up to it
\* is the least of the intervals.
LEMMA Least ==
  ASSUME NEW m \in Nat, NEW S \in SUBSET (0 .. m), S # {}
  PROVE  \E i \in S : \A j \in S : i <= j
<1> DEFINE T == {0 .. i : i \in S}
           R == StrictSubsetOrdering(0 .. m)
<1>1. IsFiniteSet(0 .. m)
  BY FS_Interval
<1>2. IsWellFoundedOn(R, SUBSET (0 .. m))
  BY <1>1, FS_StrictSubsetOrderingWellFounded, FS_FiniteSubsetsOfFinite
<1>3. T \subseteq SUBSET (0 .. m) /\ T # {}
  <2>1. PICK i \in S : TRUE
    OBVIOUS
  <2>2. (0 .. i) \in T
    BY <2>1
  <2>3. ASSUME NEW j \in S PROVE 0 .. j \subseteq 0 .. m
    OBVIOUS
  <2> QED  BY <2>2, <2>3
<1>4. \E X \in T : \A Y \in T : ~(<<Y, X>> \in R)
  <2> HIDE DEF T, R
  <2> QED  BY <1>2, <1>3, WFMin
<1>5. PICK i \in S : \A j \in S : ~(<<0 .. j, 0 .. i>> \in R)
  BY <1>4
<1>6. ASSUME NEW j \in S PROVE i <= j
  <2> SUFFICES ASSUME j < i PROVE FALSE
    OBVIOUS
  <2>1. 0 .. j \subseteq 0 .. i /\ i \in 0 .. i /\ i \notin 0 .. j
    OBVIOUS
  <2>2. 0 .. j \in SUBSET (0 .. m) /\ 0 .. i \in SUBSET (0 .. m)
    OBVIOUS
  <2>3. <<0 .. j, 0 .. i>> \in R
    BY <2>1, <2>2 DEF StrictSubsetOrdering
  <2> QED  BY <2>3, <1>5
<1> QED  BY <1>6

\* It has a greatest element.
LEMMA Greatest ==
  ASSUME NEW m \in Nat, NEW S \in SUBSET (0 .. m), S # {}
  PROVE  \E i \in S : \A j \in S : j <= i
<1> DEFINE T == {m - i : i \in S}
<1>1. T \in SUBSET (0 .. m) /\ T # {}
  <2>1. PICK i \in S : TRUE
    OBVIOUS
  <2>2. m - i \in T
    BY <2>1
  <2>3. ASSUME NEW j \in S PROVE m - j \in 0 .. m
    OBVIOUS
  <2> QED  BY <2>2, <2>3
<1>2. PICK d \in T : \A e \in T : d <= e
  <2> HIDE DEF T
  <2> QED  BY <1>1, Least
<1>3. PICK i \in S : d = m - i
  BY <1>2
<1>4. ASSUME NEW j \in S PROVE j <= i
  <2>1. d <= m - j
    BY <1>2
  <2> QED  BY <2>1, <1>3
<1> QED  BY <1>4

-----------------------------------------------------------------------------
(* One turn of the loop.                                                   *)

\* The primes are positive.
LEMMA PrimesArePositive ==
  /\ Len(Primes) = 16
  /\ \A i \in 1 .. 16 : Primes[i] \in Nat \ {0}
BY DEF Primes

LEMMA OneIsNoPrime == \A i \in 1 .. 16 : Primes[i] # 1
<1> TAKE i \in 1 .. 16
<1>1. CASE i \in 1 .. 8
  BY <1>1 DEF Primes
<1>2. CASE i \in 9 .. 16
  BY <1>2 DEF Primes
<1> QED  BY <1>1, <1>2

\* The prime to divide by is one of the table.
LEMMA PrimeFromInTable ==
  ASSUME NEW m \in Nat, NEW l \in 1 .. 16
  PROVE  PrimeFrom(m, l) \in 1 .. 16
<1> DEFINE S == {i \in 1 .. l : m % Primes[i] = 0}
<1>1. S = {} \/ \E i \in S : \A j \in S : j <= i
  <2> SUFFICES ASSUME S # {} PROVE \E i \in S : \A j \in S : j <= i
    OBVIOUS
  <2>1. S \in SUBSET (0 .. 16)
    OBVIOUS
  <2> QED  BY <2>1, Greatest
<1>2. PrimeFrom(m, l) \in {1} \cup S
  BY <1>1 DEF PrimeFrom
<1> QED  BY <1>2

\* What the loop over the axes ends with is one of the longest axes, if there are any.
LEMMA AxisIsLongest ==
  ASSUME NEW p \in Nat \ {0}, NEW size \in Seq(Nat), NEW nsq, Longest(p, size) # {}
  PROVE  AxisToDivide(p, size, nsq) \in Longest(p, size)
<1> DEFINE longest == Longest(p, size)
           divided == {i \in longest : nsq[i] # 1}
<1>1. longest \in SUBSET (0 .. Len(size)) /\ longest # {}
  BY DEF Longest
<1>2. CASE divided # {}
  <2>1. \E i \in divided : \A j \in divided : i <= j
    <3>1. divided \in SUBSET (0 .. Len(size)) /\ Len(size) \in Nat
      BY <1>1
    <3> QED  BY <3>1, <1>2, Least
  <2> HIDE DEF longest
  <2> QED  BY <2>1, <1>1, <1>2 DEF AxisToDivide, longest
<1>3. CASE divided = {}
  <2>1. \E i \in longest : \A j \in longest : j <= i
    <3>1. Len(size) \in Nat
      OBVIOUS
    <3> HIDE DEF longest
    <3> QED  BY <3>1, <1>1, Greatest
  <2> QED  BY <2>1, <1>1, <1>3 DEF AxisToDivide
<1> QED  BY <1>2, <1>3

\* The prime divides the axis it is to divide.
LEMMA AxisIsDivisible ==
  ASSUME NEW p \in Nat \ {0}, NEW size \in Seq(Nat), NEW nsq,
         AxisToDivide(p, size, nsq) # 0
  PROVE  /\ AxisToDivide(p, size, nsq) \in DOMAIN size
         /\ size[AxisToDivide(p, size, nsq)] % p = 0
<1>1. Longest(p, size) # {}
  BY DEF AxisToDivide
<1>2. AxisToDivide(p, size, nsq) \in Longest(p, size)
  BY <1>1, AxisIsLongest
<1> QED  BY <1>2 DEF Longest

\* Dividing a length and multiplying the squares by the same factor leaves their
\* product alone.
LEMMA ProductKept ==
  ASSUME NEW s \in Nat, NEW q \in Nat, NEW p \in Nat \ {0}, s % p = 0
  PROVE  (s \div p) * (q * p) = s * q
<1> DEFINE d == s \div p
<1>1. d \in Nat
  OBVIOUS
<1>2. s = p * d
  BY SMT
<1> HIDE DEF d
<1>3. d * (q * p) = (p * d) * q
  BY <1>1, SMT
<1> QED  BY <1>2, <1>3 DEF d

-----------------------------------------------------------------------------
(* The invariant.                                                          *)

IInv == TypeOK /\ SquaresCover

LEMMA InitIInv == Init => IInv
<1> SUFFICES ASSUME Init PROVE IInv
  OBVIOUS
<1> USE LayoutAssumption DEF Init
<1>1. dims \in Seq(Nat \ {0}) /\ nodes \in Nat
  OBVIOUS
<1>2. nsquares \in Seq(Nat \ {0}) /\ DOMAIN nsquares = 1 .. Len(dims)
  BY <1>1 DEF OneSquare
<1>3. \A i \in DOMAIN dims : squaresize[i] * nsquares[i] = dims[i]
  BY <1>1 DEF OneSquare
<1>4. squaresize \in Seq(Nat)
  BY <1>1
<1>5. TypeOK
  BY <1>1, <1>2, <1>4, PrimesArePositive DEF TypeOK
<1> QED  BY <1>1, <1>2, <1>3, <1>5 DEF IInv, SquaresCover

LEMMA DivideKeeps ==
  ASSUME IInv, Divide
  PROVE  IInv'
<1> DEFINE i == PrimeFrom(n, k)
           p == Primes[i]
           j == AxisToDivide(p, squaresize, nsquares)
<1> USE DEF IInv
<1>1. /\ j \in DOMAIN dims /\ n > 1
      /\ n' = n \div p /\ k' = i
      /\ squaresize' = [squaresize EXCEPT ![j] = @ \div p]
      /\ nsquares' = [nsquares EXCEPT ![j] = @ * p]
      /\ UNCHANGED <<dims, nodes, result>>
  BY DEF Divide
<1>2. /\ i \in 1 .. 16 /\ p \in Nat \ {0}
  BY PrimesArePositive, PrimeFromInTable DEF TypeOK
<1> HIDE DEF i, p
<1>3. /\ dims \in Seq(Nat \ {0}) /\ squaresize \in Seq(Nat) /\ nsquares \in Seq(Nat \ {0})
      /\ DOMAIN squaresize = DOMAIN dims /\ DOMAIN nsquares = DOMAIN dims
      /\ n \in Nat /\ nodes \in Nat /\ n <= nodes
  BY LayoutAssumption DEF TypeOK, SquaresCover
<1>4. squaresize[j] % p = 0 /\ j # 0
  <2>1. j # 0
    BY <1>1, <1>3
  <2> QED  BY <2>1, <1>2, <1>3, AxisIsDivisible
<1> HIDE DEF j
<1>5. squaresize[j] \in Nat /\ nsquares[j] \in Nat \ {0}
  BY <1>1, <1>3
<1>6. (squaresize[j] \div p) * (nsquares[j] * p) = dims[j]
  <2>1. squaresize[j] * nsquares[j] = dims[j]
    BY <1>1 DEF SquaresCover
  <2> QED  BY <2>1, <1>2, <1>4, <1>5, ProductKept
<1>7. SquaresCover'
  <2>1. DOMAIN squaresize' = DOMAIN dims' /\ DOMAIN nsquares' = DOMAIN dims'
    BY <1>1, <1>3
  <2>2. ASSUME NEW a \in DOMAIN dims
        PROVE  squaresize'[a] * nsquares'[a] = dims[a]
    <3>1. CASE a = j
      BY <3>1, <1>1, <1>3, <1>6
    <3>2. CASE a # j
      BY <3>2, <1>1, <1>3 DEF SquaresCover
    <3> QED  BY <3>1, <3>2
  <2> QED  BY <2>1, <2>2, <1>1 DEF SquaresCover
<1>8. TypeOK'
  <2>1. squaresize' \in Seq(Nat)
    <3>1. squaresize[j] \div p \in Nat
      BY <1>2, <1>5
    <3> QED  BY <3>1, <1>1, <1>3
  <2>2. nsquares' \in Seq(Nat \ {0})
    <3>1. nsquares[j] * p \in Nat \ {0}
      BY <1>2, <1>5
    <3> QED  BY <3>1, <1>1, <1>3
  <2>3. n' \in Nat /\ n' <= nodes'
    <3>1. n \div p \in Nat /\ n \div p <= n
      BY <1>2, <1>3
    <3> QED  BY <3>1, <1>1, <1>3
  <2> QED  BY <2>1, <2>2, <2>3, <1>1, <1>2, PrimesArePositive DEF TypeOK
<1> QED  BY <1>7, <1>8

LEMMA NextIInv == IInv /\ [Next]_vars => IInv'
<1> SUFFICES ASSUME IInv, [Next]_vars PROVE IInv'
  OBVIOUS
<1>1. CASE Divide
  BY <1>1, DivideKeeps
<1>2. CASE Fail
  BY <1>2 DEF Fail, IInv, TypeOK, SquaresCover
<1>3. CASE DeclareLayout
  BY <1>3 DEF DeclareLayout, IInv, TypeOK, SquaresCover
<1>4. CASE UNCHANGED vars
  BY <1>4 DEF vars, IInv, TypeOK, SquaresCover
<1> QED  BY <1>1, <1>2, <1>3, <1>4 DEF Next

\* Whatever the lattice and the machine, the squares of the search cover the lattice
\* without remainder (QMP_grid.c:71-102).
THEOREM LayoutCovers == Spec => [](TypeOK /\ SquaresCover)
<1>1. Init => IInv
  BY InitIInv
<1>2. IInv /\ [Next]_vars => IInv'
  BY NextIInv
<1>3. IInv => TypeOK /\ SquaresCover
  BY DEF IInv
<1> QED  BY <1>1, <1>2, <1>3, PTL DEF Spec

-----------------------------------------------------------------------------
(* Recursion and induction.                                                *)

\* What holds of 0, and of every number when it holds of the one before.
LEMMA Induction ==
  ASSUME NEW m \in Nat, NEW S, 0 \in S, \A i \in 1 .. m : i - 1 \in S => i \in S
  PROVE  \A i \in 0 .. m : i \in S
<1> DEFINE T == (0 .. m) \ S
<1> SUFFICES ASSUME T # {} PROVE FALSE
  OBVIOUS
<1>1. PICK i \in T : \A j \in T : i <= j
  <2>1. T \in SUBSET (0 .. m)
    OBVIOUS
  <2> HIDE DEF T
  <2> QED  BY <2>1, Least
<1>2. i \in 1 .. m /\ i - 1 \in 0 .. m
  BY <1>1
<1>3. i - 1 \in S
  BY <1>1, <1>2
<1> QED  BY <1>1, <1>2, <1>3

\* f[i] is what i steps of F make of a.
Iterates(F, a, m, f) ==
  /\ f \in [0 .. m -> Nat]
  /\ f[0] = a
  /\ \A i \in 1 .. m : f[i] = F[i][f[i - 1]]

LEMMA IterationExists ==
  ASSUME NEW m \in Nat, NEW a \in Nat, NEW F \in [1 .. m -> [Nat -> Nat]]
  PROVE  \E f : Iterates(F, a, m, f)
<1> DEFINE S == {i \in 0 .. m : \E f : Iterates(F, a, i, f)}
<1>1. 0 \in S
  <2> DEFINE f == [i \in 0 .. 0 |-> a]
  <2>1. Iterates(F, a, 0, f)
    BY DEF Iterates
  <2> HIDE DEF f
  <2> QED  BY <2>1
<1>2. ASSUME NEW i \in 1 .. m, i - 1 \in S PROVE i \in S
  <2>1. PICK f : Iterates(F, a, i - 1, f)
    BY <1>2
  <2>2. f \in [0 .. i - 1 -> Nat] /\ f[0] = a /\ \A j \in 1 .. i - 1 : f[j] = F[j][f[j - 1]]
    BY <2>1 DEF Iterates
  <2> DEFINE x == F[i][f[i - 1]]
             g == [j \in 0 .. i |-> IF j = i THEN x ELSE f[j]]
  <2>3. x \in Nat
    <3>1. f[i - 1] \in Nat /\ F[i] \in [Nat -> Nat]
      BY <2>2
    <3> QED  BY <3>1
  <2>4. /\ g \in [0 .. i -> Nat] /\ g[i] = x
        /\ \A j \in 0 .. i - 1 : g[j] = f[j]
    <3> HIDE DEF x
    <3>1. \A j \in 0 .. i : j = i \/ j \in 0 .. i - 1
      OBVIOUS
    <3>2. \A j \in 0 .. i : (IF j = i THEN x ELSE f[j]) \in Nat
      BY <2>2, <2>3, <3>1
    <3>3. i \in 0 .. i /\ \A j \in 0 .. i - 1 : j \in 0 .. i /\ j # i
      OBVIOUS
    <3> QED  BY <3>2, <3>3
  <2> HIDE DEF g
  <2>5. g[0] = a
    BY <2>2, <2>4
  <2>6. ASSUME NEW j \in 1 .. i PROVE g[j] = F[j][g[j - 1]]
    <3>1. g[j - 1] = f[j - 1]
      BY <2>4
    <3>2. CASE j = i
      BY <2>4, <3>1, <3>2
    <3>3. CASE j # i
      <4>1. j \in 1 .. i - 1 /\ j \in 0 .. i - 1
        BY <3>3
      <4> QED  BY <2>2, <2>4, <3>1, <4>1
    <3> QED  BY <3>2, <3>3
  <2>7. Iterates(F, a, i, g)
    BY <2>4, <2>5, <2>6 DEF Iterates
  <2> QED  BY <2>7
<1>3. \A i \in 0 .. m : i \in S
  <2> HIDE DEF S
  <2> QED  BY <1>1, <1>2, Induction
<1> QED  BY <1>3

-----------------------------------------------------------------------------
(* Products.                                                               *)

\* f[i] is the product of the first i of the numbers s.
Product(s, m, f) ==
  /\ f \in [0 .. m -> Nat]
  /\ f[0] = 1
  /\ \A i \in 1 .. m : f[i] = f[i - 1] * s[i]

LEMMA ProductExists ==
  ASSUME NEW m \in Nat, NEW s \in [1 .. m -> Nat]
  PROVE  \E f : Product(s, m, f)
<1> DEFINE F == [i \in 1 .. m |-> [v \in Nat |-> v * s[i]]]
<1>1. F \in [1 .. m -> [Nat -> Nat]]
  OBVIOUS
<1>2. \A i \in 1 .. m : \A v \in Nat : F[i][v] = v * s[i]
  OBVIOUS
<1> HIDE DEF F
<1>3. PICK f : Iterates(F, 1, m, f)
  BY <1>1, IterationExists
<1>4. f \in [0 .. m -> Nat] /\ f[0] = 1 /\ \A i \in 1 .. m : f[i] = F[i][f[i - 1]]
  BY <1>3 DEF Iterates
<1>5. ASSUME NEW i \in 1 .. m PROVE f[i] = f[i - 1] * s[i]
  <2>1. f[i - 1] \in Nat
    BY <1>4
  <2> QED  BY <1>2, <1>4, <2>1
<1> QED  BY <1>4, <1>5 DEF Product

LEMMA ProductUnique ==
  ASSUME NEW m \in Nat, NEW s, NEW f, NEW g, Product(s, m, f), Product(s, m, g)
  PROVE  \A i \in 0 .. m : f[i] = g[i]
<1> DEFINE S == {i \in 0 .. m : f[i] = g[i]}
<1>1. /\ f[0] = 1 /\ \A i \in 1 .. m : f[i] = f[i - 1] * s[i]
      /\ g[0] = 1 /\ \A i \in 1 .. m : g[i] = g[i - 1] * s[i]
  BY DEF Product
<1>2. 0 \in S
  BY <1>1
<1>3. ASSUME NEW i \in 1 .. m, i - 1 \in S PROVE i \in S
  <2>1. f[i - 1] = g[i - 1] /\ i \in 0 .. m
    BY <1>3
  <2> QED  BY <1>1, <2>1
<1>4. \A i \in 0 .. m : i \in S
  <2> HIDE DEF S
  <2> QED  BY <1>2, <1>3, Induction
<1> QED  BY <1>4

\* ProductOf is the last of these products.
LEMMA ProductOfIs ==
  ASSUME NEW s \in Seq(Nat)
  PROVE  \E f : Product(s, Len(s), f) /\ ProductOf(s) = f[Len(s)]
<1> DEFINE m == Len(s)
           h[i \in 0 .. m] == IF i = 0 THEN 1 ELSE h[i - 1] * s[i]
           R(f) == f = [i \in 0 .. m |-> IF i = 0 THEN 1 ELSE f[i - 1] * s[i]]
<1>1. h = CHOOSE f : R(f)
  OBVIOUS
<1>2. ProductOf(s) = h[m]
  BY Zenon DEF ProductOf
<1>3. m \in Nat /\ s \in [1 .. m -> Nat]
  OBVIOUS
<1> HIDE DEF h, m
<1>4. PICK f : Product(s, m, f)
  BY <1>3, ProductExists
<1>5. f \in [0 .. m -> Nat] /\ f[0] = 1 /\ \A i \in 1 .. m : f[i] = f[i - 1] * s[i]
  BY <1>4 DEF Product
<1>6. R(f)
  <2>1. ASSUME NEW i \in 0 .. m PROVE f[i] = IF i = 0 THEN 1 ELSE f[i - 1] * s[i]
    BY <1>3, <1>5
  <2>2. f = [i \in 0 .. m |-> f[i]]
    BY <1>5
  <2> QED  BY <2>1, <2>2
<1> HIDE DEF R
<1>7. R(h)
  BY <1>1, <1>6, Zenon
<1>8. \A i \in 0 .. m : h[i] = IF i = 0 THEN 1 ELSE h[i - 1] * s[i]
  BY <1>7 DEF R
<1> DEFINE S == {i \in 0 .. m : h[i] = f[i]}
<1>9. 0 \in S
  BY <1>3, <1>5, <1>8
<1>10. ASSUME NEW i \in 1 .. m, i - 1 \in S PROVE i \in S
  <2>1. h[i - 1] = f[i - 1] /\ i \in 0 .. m /\ i # 0
    BY <1>3, <1>10
  <2> QED  BY <1>5, <1>8, <2>1
<1>11. \A i \in 0 .. m : i \in S
  <2> HIDE DEF S
  <2> QED  BY <1>3, <1>9, <1>10, Induction
<1>12. h[m] = f[m]
  BY <1>3, <1>11
<1> QED  BY <1>2, <1>4, <1>12 DEF m

\* The factors of s whose index is in S, and ones.
Only(s, m, S) == [i \in 1 .. m |-> IF i \in S THEN s[i] ELSE 1]

\* One more factor multiplies the product.
LEMMA OneMore ==
  ASSUME NEW m \in Nat, NEW s \in [1 .. m -> Nat], NEW S, NEW j \in 1 .. m, j \notin S,
         NEW f, NEW g, Product(Only(s, m, S), m, f), Product(Only(s, m, S \cup {j}), m, g)
  PROVE  g[m] = f[m] * s[j]
<1> DEFINE T == {i \in 0 .. m : IF i < j THEN g[i] = f[i] ELSE g[i] = f[i] * s[j]}
<1>1. /\ f \in [0 .. m -> Nat] /\ f[0] = 1
      /\ \A i \in 1 .. m : f[i] = f[i - 1] * (IF i \in S THEN s[i] ELSE 1)
  BY DEF Product, Only
<1>2. /\ g \in [0 .. m -> Nat] /\ g[0] = 1
      /\ \A i \in 1 .. m : g[i] = g[i - 1] * (IF i \in S \cup {j} THEN s[i] ELSE 1)
  BY DEF Product, Only
<1>3. 0 \in T
  BY <1>1, <1>2
<1>4. ASSUME NEW i \in 1 .. m, i - 1 \in T PROVE i \in T
  <2>0. i \in 0 .. m /\ i - 1 \in 0 .. m
    OBVIOUS
  <2>1. f[i - 1] \in Nat /\ g[i - 1] \in Nat /\ s[i] \in Nat /\ s[j] \in Nat
    BY <1>1, <1>2, <2>0
  <2>2. f[i] = f[i - 1] * (IF i \in S THEN s[i] ELSE 1)
    BY <1>1
  <2>3. g[i] = g[i - 1] * (IF i \in S \cup {j} THEN s[i] ELSE 1)
    BY <1>2
  <2>4. CASE i < j
    <3>1. g[i - 1] = f[i - 1] /\ (i \in S \cup {j} <=> i \in S)
      BY <1>4, <2>4
    <3>2. g[i] = f[i]
      BY <2>2, <2>3, <3>1
    <3> QED  BY <2>0, <2>4, <3>2
  <2>5. CASE i = j
    <3>1. g[i - 1] = f[i - 1] /\ i \in S \cup {j} /\ i \notin S
      BY <1>4, <2>5
    <3>2. f[i] = f[i - 1] /\ g[i] = f[i - 1] * s[j]
      BY <2>1, <2>2, <2>3, <2>5, <3>1
    <3> QED  BY <2>0, <2>5, <3>2
  <2>6. CASE i > j
    <3>1. g[i - 1] = f[i - 1] * s[j] /\ (i \in S \cup {j} <=> i \in S)
      BY <1>4, <2>6
    <3> DEFINE a == f[i - 1]
               b == s[j]
               c == IF i \in S THEN s[i] ELSE 1
    <3>2. a \in Nat /\ b \in Nat /\ c \in Nat /\ g[i] = (a * b) * c /\ f[i] = a * c
      BY <2>1, <2>2, <2>3, <3>1
    <3> HIDE DEF a, b, c
    <3>3. g[i] = f[i] * b
      BY <3>2
    <3> QED  BY <2>0, <2>6, <3>3 DEF b
  <2> QED  BY <2>4, <2>5, <2>6
<1>5. \A i \in 0 .. m : i \in T
  <2> HIDE DEF T
  <2> QED  BY <1>3, <1>4, Induction
<1>6. m \in T /\ ~(m < j)
  <2> HIDE DEF T
  <2> QED  BY <1>5
<1> QED  BY <1>6

\* a is an order of the numbers from 1 to m.
Order(a, m) ==
  /\ a \in [1 .. m -> 1 .. m]
  /\ \A i, j \in 1 .. m : a[i] = a[j] => i = j

\* The numbers s in the order a.
Reordered(s, a, m) == [i \in 1 .. m |-> s[a[i]]]

LEMMA OrderIsOnto ==
  ASSUME NEW m \in Nat, NEW a, Order(a, m)
  PROVE  \A y \in 1 .. m : \E i \in 1 .. m : a[i] = y
<1>1. a \in Injection(1 .. m, 1 .. m)
  BY DEF Order, Injection, IsInjective
<1>2. IsFiniteSet(1 .. m)
  BY FS_Interval
<1>3. a \in Surjection(1 .. m, 1 .. m)
  BY <1>1, <1>2, FS_Injection
<1> QED  BY <1>3 DEF Surjection

\* A product does not depend on the order of its factors.
LEMMA OrderIndifferent ==
  ASSUME NEW m \in Nat, NEW s \in [1 .. m -> Nat], NEW a, Order(a, m),
         NEW f, Product(s, m, f), NEW g, Product(Reordered(s, a, m), m, g)
  PROVE  f[m] = g[m]
<1> DEFINE Upto(i) == {a[j] : j \in 1 .. i}
           T == {i \in 0 .. m : \E h : Product(Only(s, m, Upto(i)), m, h) /\ h[m] = g[i]}
<1>1. a \in [1 .. m -> 1 .. m] /\ \A i, j \in 1 .. m : a[i] = a[j] => i = j
  BY DEF Order
<1>2. g \in [0 .. m -> Nat] /\ g[0] = 1 /\ \A i \in 1 .. m : g[i] = g[i - 1] * s[a[i]]
  BY DEF Product, Reordered
<1>3. 0 \in T
  <2> DEFINE h == [i \in 0 .. m |-> 1]
  <2>1. Upto(0) = {}
    OBVIOUS
  <2>2. Product(Only(s, m, {}), m, h)
    BY DEF Product, Only
  <2>3. h[m] = g[0]
    BY <1>2
  <2> HIDE DEF h, Upto
  <2>4. Product(Only(s, m, Upto(0)), m, h) /\ h[m] = g[0]
    BY <2>1, <2>2, <2>3
  <2>5. 0 \in 0 .. m
    OBVIOUS
  <2> QED  BY <2>4, <2>5
<1>4. ASSUME NEW i \in 1 .. m, i - 1 \in T PROVE i \in T
  <2>1. PICK h : Product(Only(s, m, Upto(i - 1)), m, h) /\ h[m] = g[i - 1]
    BY <1>4
  <2>2. Upto(i) = Upto(i - 1) \cup {a[i]}
    <3>1. 1 .. i = (1 .. i - 1) \cup {i}
      OBVIOUS
    <3> QED  BY <3>1
  <2>3. a[i] \notin Upto(i - 1)
    BY <1>1
  <2> DEFINE S == Upto(i - 1)
             S1 == Upto(i)
  <2>4. a[i] \in 1 .. m
    BY <1>1
  <2>5. PICK h1 : Product(Only(s, m, S1), m, h1)
    <3> HIDE DEF S1
    <3>1. Only(s, m, S1) \in [1 .. m -> Nat]
      BY DEF Only
    <3> QED  BY <3>1, ProductExists
  <2> HIDE DEF Upto
  <2>6. Product(Only(s, m, S \cup {a[i]}), m, h1)
    BY <2>2, <2>5
  <2> HIDE DEF S1
  <2>7. h1[m] = h[m] * s[a[i]]
    <3> DEFINE y == a[i]
    <3>1. /\ y \in 1 .. m /\ y \notin S
          /\ Product(Only(s, m, S), m, h) /\ Product(Only(s, m, S \cup {y}), m, h1)
      BY <2>1, <2>3, <2>4, <2>6
    <3> HIDE DEF y, S
    <3>2. h1[m] = h[m] * s[y]
      BY <3>1, OneMore
    <3> QED  BY <3>2 DEF y
  <2> HIDE DEF S
  <2>8. h1[m] = g[i]
    BY <1>2, <2>1, <2>7
  <2> QED  BY <2>5, <2>8 DEF S1
<1>5. \A i \in 0 .. m : i \in T
  <2> HIDE DEF T
  <2> QED  BY <1>3, <1>4, Induction
<1>6. PICK h : Product(Only(s, m, Upto(m)), m, h) /\ h[m] = g[m]
  <2>1. m \in T
    <3> HIDE DEF T
    <3> QED  BY <1>5
  <2> QED  BY <2>1
<1>7. Only(s, m, Upto(m)) = s
  <2>1. \A y \in 1 .. m : y \in Upto(m)
    BY OrderIsOnto
  <2> HIDE DEF Upto
  <2> QED  BY <2>1 DEF Only
<1>8. h[m] = f[m]
  <2>1. Product(s, m, h)
    BY <1>6, <1>7
  <2>2. m \in 0 .. m
    OBVIOUS
  <2> QED  BY <2>1, <2>2, ProductUnique
<1> QED  BY <1>6, <1>8

-----------------------------------------------------------------------------
(* Coordinates and node numbers.                                           *)

\* The order in which a map takes the axes.
Axes(p, m) == [i \in 1 .. m |-> Axis(p, i)]

LEMMA AxesAreOrdered ==
  ASSUME NEW l \in Seq(Nat \ {0}), NEW p \in Maps(l)
  PROVE  Order(Axes(p, Len(l)), Len(l))
<1>1. CASE p = NULL
  BY <1>1 DEF Order, Axes, Axis
<1>2. CASE p # NULL
  <2>1. /\ p \in [1 .. Len(l) -> 0 .. Len(l) - 1]
        /\ \A i, j \in 1 .. Len(l) : p[i] = p[j] => i = j
    BY <1>2 DEF Maps
  <2>2. \A i \in 1 .. Len(l) : Axis(p, i) = p[i] + 1 /\ p[i] \in Int
    BY <1>2, <2>1 DEF Axis
  <2>3. \A i \in 1 .. Len(l) : p[i] + 1 \in 1 .. Len(l)
    BY <2>1
  <2>4. Axes(p, Len(l)) = [i \in 1 .. Len(l) |-> p[i] + 1]
    BY <2>2 DEF Axes
  <2>5. \A i, j \in 1 .. Len(l) : p[i] + 1 = p[j] + 1 => i = j
    BY <2>1, <2>2
  <2> QED  BY <2>3, <2>4, <2>5 DEF Order
<1> QED  BY <1>1, <1>2

LEMMA AxesInRange ==
  ASSUME NEW l \in Seq(Nat \ {0}), NEW p \in Maps(l)
  PROVE  \A i \in 1 .. Len(l) : Axis(p, i) \in 1 .. Len(l)
<1>1. Axes(p, Len(l)) \in [1 .. Len(l) -> 1 .. Len(l)]
  BY AxesAreOrdered DEF Order
<1> QED  BY <1>1 DEF Axes

\* g[i] is what remains of r after the division by the first i of the numbers s.
Rests(s, r, m, g) ==
  /\ g \in [0 .. m -> Nat]
  /\ g[0] = r
  /\ \A i \in 1 .. m : g[i] = g[i - 1] \div s[i]

LEMMA RestsExist ==
  ASSUME NEW m \in Nat, NEW r \in Nat, NEW s \in [1 .. m -> Nat \ {0}]
  PROVE  \E g : Rests(s, r, m, g)
<1> DEFINE F == [i \in 1 .. m |-> [v \in Nat |-> v \div s[i]]]
<1>1. F \in [1 .. m -> [Nat -> Nat]]
  <2>1. ASSUME NEW v \in Nat, NEW d \in Nat \ {0} PROVE v \div d \in Nat
    OBVIOUS
  <2>2. ASSUME NEW i \in 1 .. m PROVE [v \in Nat |-> v \div s[i]] \in [Nat -> Nat]
    BY <2>1
  <2> QED  BY <2>2
<1>2. \A i \in 1 .. m : \A v \in Nat : F[i][v] = v \div s[i]
  OBVIOUS
<1> HIDE DEF F
<1>3. PICK g : Iterates(F, r, m, g)
  BY <1>1, IterationExists
<1>4. g \in [0 .. m -> Nat] /\ g[0] = r /\ \A i \in 1 .. m : g[i] = F[i][g[i - 1]]
  BY <1>3 DEF Iterates
<1>5. ASSUME NEW i \in 1 .. m PROVE g[i] = g[i - 1] \div s[i]
  <2>1. g[i - 1] \in Nat
    BY <1>4
  <2> QED  BY <1>2, <1>4, <2>1
<1> QED  BY <1>4, <1>5 DEF Rests

\* A quotient times the divisor is at most the dividend, times anything.
LEMMA QuotientFits ==
  ASSUME NEW v \in Nat, NEW d \in Nat \ {0}, NEW q \in Nat
  PROVE  (v \div d) * (q * d) <= v * q
<1> DEFINE w == v \div d
<1>1. w \in Nat /\ w * d <= v
  <2>1. v \div d \in Nat /\ d * (v \div d) <= v
    OBVIOUS
  <2> QED  BY <2>1
<1> HIDE DEF w
<1>2. (w * d) * q <= v * q
  <2> DEFINE e == w * d
  <2>1. e \in Nat /\ e <= v
    BY <1>1
  <2> HIDE DEF e
  <2>2. e * q <= v * q
    <3>1. PICK c \in Nat : v = e + c
      <4>1. v - e \in Nat /\ v = e + (v - e)
        BY <2>1
      <4> QED  BY <4>1
    <3>2. v * q = e * q + c * q /\ c * q \in Nat /\ e * q \in Nat
      BY <2>1, <3>1
    <3> DEFINE x == e * q
               y == c * q
               z == v * q
    <3>3. z = x + y /\ x \in Nat /\ y \in Nat
      BY <3>2
    <3> HIDE DEF x, y, z
    <3>4. x <= z
      BY <3>3
    <3> QED  BY <3>4 DEF x, z
  <2> QED  BY <2>2 DEF e
<1>3. w * (q * d) = (w * d) * q
  BY <1>1
<1> QED  BY <1>2, <1>3 DEF w

\* Nothing remains of a number below the product.
LEMMA NothingRemains ==
  ASSUME NEW m \in Nat, NEW s \in [1 .. m -> Nat \ {0}], NEW r \in Nat,
         NEW q, Product(s, m, q), NEW g, Rests(s, r, m, g), r < q[m]
  PROVE  g[m] = 0
<1> DEFINE S == {i \in 0 .. m : g[i] * q[i] <= r}
<1>1. q \in [0 .. m -> Nat] /\ q[0] = 1 /\ \A i \in 1 .. m : q[i] = q[i - 1] * s[i]
  BY DEF Product
<1>2. g \in [0 .. m -> Nat] /\ g[0] = r /\ \A i \in 1 .. m : g[i] = g[i - 1] \div s[i]
  BY DEF Rests
<1>3. 0 \in S
  BY <1>1, <1>2
<1>4. ASSUME NEW i \in 1 .. m, i - 1 \in S PROVE i \in S
  <2>1. i \in 0 .. m /\ i - 1 \in 0 .. m
    OBVIOUS
  <2> DEFINE v == g[i - 1]
             u == q[i - 1]
             d == s[i]
  <2>2. v \in Nat /\ u \in Nat /\ d \in Nat \ {0} /\ v * u <= r
    BY <1>1, <1>2, <1>4, <2>1
  <2>3. g[i] = v \div d /\ q[i] = u * d
    BY <1>1, <1>2
  <2> HIDE DEF v, u, d
  <2>4. (v \div d) * (u * d) <= v * u
    BY <2>2, QuotientFits
  <2>5. g[i] * q[i] <= v * u
    BY <2>3, <2>4
  <2>6. g[i] * q[i] \in Nat /\ v * u \in Nat
    <3>1. \A a, b \in Nat : a * b \in Nat
      OBVIOUS
    <3>2. g[i] \in Nat /\ q[i] \in Nat
      BY <1>1, <1>2, <2>1
    <3> QED  BY <2>2, <3>1, <3>2
  <2> DEFINE x == g[i] * q[i]
             y == v * u
  <2>7. x \in Nat /\ y \in Nat /\ x <= y /\ y <= r
    BY <2>2, <2>5, <2>6
  <2> HIDE DEF x, y
  <2>8. x <= r
    BY <2>7
  <2> QED  BY <2>1, <2>8 DEF x
<1>5. \A i \in 0 .. m : i \in S
  <2> HIDE DEF S
  <2> QED  BY <1>3, <1>4, Induction
<1>6. g[m] * q[m] <= r /\ g[m] \in Nat /\ q[m] \in Nat
  <2>1. m \in 0 .. m
    OBVIOUS
  <2> QED  BY <1>1, <1>2, <1>5, <2>1
<1> DEFINE x == g[m]
           y == q[m]
<1>7. x * y <= r /\ x \in Nat /\ y \in Nat /\ r < y
  BY <1>6
<1> HIDE DEF x, y
<1>8. x = 0
  <2> SUFFICES ASSUME x # 0 PROVE FALSE
    OBVIOUS
  <2>1. x - 1 \in Nat /\ x * y = (x - 1) * y + y
    BY <1>7
  <2>2. (x - 1) * y \in Nat
    BY <1>7, <2>1
  <2> DEFINE z == (x - 1) * y
             w == x * y
  <2>3. z \in Nat /\ w = z + y /\ w <= r
    BY <1>7, <2>1, <2>2
  <2> HIDE DEF z, w
  <2> QED  BY <1>7, <2>3
<1> QED  BY <1>8 DEF x

\* The lengths in the order of the map.
Lengths(l, p) == Reordered(l, Axes(p, Len(l)), Len(l))

\* The recursion of get_coord runs over what remains of the node number.
LEMMA CoordinateIs ==
  ASSUME NEW l \in Seq(Nat \ {0}), NEW p \in Maps(l), NEW r \in Nat,
         NEW g, Rests(Lengths(l, p), r, Len(l), g), NEW j \in 1 .. Len(l)
  PROVE  GetCoord(r, l, p)[Axis(p, j)] = g[j - 1] % l[Axis(p, j)]
<1> DEFINE m == Len(l)
           rest[i \in 1 .. Len(l)] == IF i = 1 THEN r ELSE rest[i - 1] \div l[Axis(p, i - 1)]
           R(f) == f = [i \in 1 .. Len(l) |->
                          IF i = 1 THEN r ELSE f[i - 1] \div l[Axis(p, i - 1)]]
           place(k_1) == CHOOSE i \in 1 .. Len(l) : Axis(p, i) = k_1
<1>1. rest = CHOOSE f : R(f)
  OBVIOUS
<1>2. GetCoord(r, l, p) = [k_1 \in 1 .. Len(l) |-> rest[place(k_1)] % l[k_1]]
  BY Zenon DEF GetCoord
<1>3. m \in Nat /\ j \in 1 .. m /\ m = Len(l)
  OBVIOUS
<1>4. /\ \A i \in 1 .. m : Axis(p, i) \in 1 .. m
      /\ \A i, i1 \in 1 .. m : Axis(p, i) = Axis(p, i1) => i = i1
  BY AxesAreOrdered DEF Order, Axes
<1>5. /\ g \in [0 .. m -> Nat] /\ g[0] = r
      /\ \A i \in 1 .. m : g[i] = g[i - 1] \div l[Axis(p, i)]
  BY DEF Rests, Lengths, Reordered, Axes
<1> HIDE DEF rest
<1>6. R([i \in 1 .. m |-> g[i - 1]])
  <2> DEFINE f == [i \in 1 .. m |-> g[i - 1]]
  <2>1. \A i \in 1 .. m : f[i] = g[i - 1]
    OBVIOUS
  <2>2. ASSUME NEW i \in 1 .. m
        PROVE  g[i - 1] = IF i = 1 THEN r ELSE f[i - 1] \div l[Axis(p, i - 1)]
    <3>1. CASE i = 1
      BY <1>5, <3>1
    <3>2. CASE i # 1
      <4>1. i - 1 \in 1 .. m /\ (i - 1) - 1 = i - 2
        BY <3>2
      <4>2. g[i - 1] = g[(i - 1) - 1] \div l[Axis(p, i - 1)] /\ f[i - 1] = g[(i - 1) - 1]
        BY <1>5, <2>1, <4>1
      <4> QED  BY <3>2, <4>2
    <3> QED  BY <3>1, <3>2
  <2>3. f = [i \in 1 .. m |-> g[i - 1]]
    OBVIOUS
  <2> HIDE DEF f
  <2>4. f = [i \in 1 .. m |-> IF i = 1 THEN r ELSE f[i - 1] \div l[Axis(p, i - 1)]]
    BY <2>2, <2>3
  <2> QED  BY <2>4 DEF f
<1> HIDE DEF R, m
<1>7. R(rest)
  BY <1>1, <1>6, Zenon
<1>8. \A i \in 1 .. m : rest[i] = IF i = 1 THEN r ELSE rest[i - 1] \div l[Axis(p, i - 1)]
  BY <1>7 DEF R, m
<1> DEFINE S == {i \in 0 .. m : i = m \/ rest[i + 1] = g[i]}
<1>9. 0 \in S
  <2>1. CASE m = 0
    BY <2>1
  <2>2. CASE m # 0
    <3>1. 1 \in 1 .. m
      BY <1>3, <2>2
    <3>2. rest[1] = g[0]
      BY <1>5, <1>8, <3>1
    <3> QED  BY <1>3, <3>2
  <2> QED  BY <2>1, <2>2
<1>10. ASSUME NEW i \in 1 .. m, i - 1 \in S PROVE i \in S
  <2>1. rest[i] = g[i - 1] /\ i \in 0 .. m
    <3>1. i - 1 # m /\ (i - 1) + 1 = i /\ i \in 0 .. m
      BY <1>3
    <3> QED  BY <1>10, <3>1
  <2>2. CASE i = m
    BY <2>1, <2>2
  <2>3. CASE i # m
    <3>1. i + 1 \in 1 .. m /\ (i + 1) - 1 = i /\ i + 1 # 1
      BY <1>3, <2>3
    <3>2. rest[i + 1] = rest[i] \div l[Axis(p, i)]
      BY <1>8, <3>1
    <3>3. rest[i + 1] = g[i]
      BY <1>5, <2>1, <3>2
    <3> QED  BY <2>1, <3>3
  <2> QED  BY <2>2, <2>3
<1>11. \A i \in 0 .. m : i \in S
  <2> HIDE DEF S
  <2> QED  BY <1>3, <1>9, <1>10, Induction
<1>12. rest[j] = g[j - 1]
  <2>1. j - 1 \in 0 .. m /\ j - 1 # m /\ (j - 1) + 1 = j
    BY <1>3
  <2> QED  BY <1>11, <2>1
<1>13. place(Axis(p, j)) = j
  BY <1>3, <1>4
<1> HIDE DEF place
<1>14. Axis(p, j) \in 1 .. Len(l)
  BY <1>3, <1>4
<1> QED  BY <1>2, <1>12, <1>13, <1>14

\* The recursion of get_rank finds the node number from its remainders again.
LEMMA NumberIs ==
  ASSUME NEW l \in Seq(Nat \ {0}), NEW p \in Maps(l), NEW r \in Nat,
         NEW g, Rests(Lengths(l, p), r, Len(l), g), g[Len(l)] = 0,
         NEW x, \A i \in 1 .. Len(l) : x[Axis(p, i)] = g[i - 1] % l[Axis(p, i)]
  PROVE  GetRank(x, l, p) = r
<1> DEFINE m == Len(l)
           from[i \in 1 .. Len(l) + 1] ==
             IF i > Len(l) THEN 0 ELSE from[i + 1] * l[Axis(p, i)] + x[Axis(p, i)]
           R(f) == f = [i \in 1 .. Len(l) + 1 |->
                          IF i > Len(l) THEN 0 ELSE f[i + 1] * l[Axis(p, i)] + x[Axis(p, i)]]
<1>1. from = CHOOSE f : R(f)
  OBVIOUS
<1>2. GetRank(x, l, p) = from[1]
  BY Zenon DEF GetRank
<1>3. m \in Nat /\ m = Len(l)
  OBVIOUS
<1>4. \A i \in 1 .. m : Axis(p, i) \in 1 .. m /\ l[Axis(p, i)] \in Nat \ {0}
  <2>1. \A i \in 1 .. m : Axis(p, i) \in 1 .. m
    BY AxesInRange
  <2> QED  BY <2>1
<1>5. /\ g \in [0 .. m -> Nat] /\ g[0] = r /\ g[m] = 0
      /\ \A i \in 1 .. m : g[i] = g[i - 1] \div l[Axis(p, i)]
  BY DEF Rests, Lengths, Reordered, Axes
<1>6. \A i \in 1 .. m : g[i - 1] = g[i] * l[Axis(p, i)] + x[Axis(p, i)]
  <2> TAKE i \in 1 .. m
  <2> DEFINE v == g[i - 1]
             d == l[Axis(p, i)]
  <2>1. v \in Nat /\ d \in Nat \ {0}
    <3>1. i - 1 \in 0 .. m
      BY <1>3
    <3> QED  BY <1>4, <1>5, <3>1
  <2>2. g[i] = v \div d /\ x[Axis(p, i)] = v % d
    BY <1>3, <1>5
  <2> HIDE DEF v, d
  <2>3. v = (v \div d) * d + (v % d)
    BY <2>1
  <2>4. v = g[i] * d + x[Axis(p, i)]
    BY <2>2, <2>3
  <2> QED  BY <2>4 DEF v, d
<1> HIDE DEF from
<1>7. R([i \in 1 .. m + 1 |-> g[i - 1]])
  <2> DEFINE f == [i \in 1 .. m + 1 |-> g[i - 1]]
  <2>1. \A i \in 1 .. m + 1 : f[i] = g[i - 1]
    OBVIOUS
  <2>2. ASSUME NEW i \in 1 .. m + 1
        PROVE  g[i - 1] = IF i > m THEN 0 ELSE f[i + 1] * l[Axis(p, i)] + x[Axis(p, i)]
    <3>1. CASE i > m
      <4>1. i - 1 = m
        BY <1>3, <3>1
      <4> QED  BY <1>5, <3>1, <4>1
    <3>2. CASE ~(i > m)
      <4>1. i \in 1 .. m /\ i + 1 \in 1 .. m + 1 /\ (i + 1) - 1 = i
        BY <1>3, <3>2
      <4>2. f[i + 1] = g[i]
        BY <2>1, <4>1
      <4> QED  BY <1>6, <3>2, <4>1, <4>2
    <3> QED  BY <3>1, <3>2
  <2>3. f = [i \in 1 .. m + 1 |-> g[i - 1]]
    OBVIOUS
  <2> HIDE DEF f, m
  <2>4. f = [i \in 1 .. m + 1 |->
               IF i > m THEN 0 ELSE f[i + 1] * l[Axis(p, i)] + x[Axis(p, i)]]
    BY <2>2, <2>3
  <2> QED  BY <2>4 DEF f, m
<1> HIDE DEF R, m
<1>8. R(from)
  BY <1>1, <1>7, Zenon
<1>9. \A i \in 1 .. m + 1 :
        from[i] = IF i > m THEN 0 ELSE from[i + 1] * l[Axis(p, i)] + x[Axis(p, i)]
  BY <1>8 DEF R, m
<1> DEFINE S == {i \in 0 .. m : from[m + 1 - i] = g[m - i]}
<1>10. 0 \in S
  <2>1. m + 1 \in 1 .. m + 1 /\ m + 1 > m /\ m + 1 - 0 = m + 1 /\ m - 0 = m /\ 0 \in 0 .. m
    BY <1>3
  <2>2. from[m + 1] = g[m]
    BY <1>5, <1>9, <2>1
  <2> QED  BY <2>1, <2>2
<1>11. ASSUME NEW i \in 1 .. m, i - 1 \in S PROVE i \in S
  <2> DEFINE e == m + 1 - i
  <2>1. /\ e \in 1 .. m /\ e \in 1 .. m + 1 /\ ~(e > m) /\ i \in 0 .. m
        /\ m + 1 - (i - 1) = e + 1 /\ m - (i - 1) = e /\ m - i = e - 1
    BY <1>3
  <2>2. from[e + 1] = g[e]
    BY <1>11, <2>1
  <2> HIDE DEF e
  <2>3. from[e] = from[e + 1] * l[Axis(p, e)] + x[Axis(p, e)]
    BY <1>9, <2>1
  <2>4. from[e] = g[e - 1]
    BY <1>6, <2>1, <2>2, <2>3
  <2> QED  BY <2>1, <2>4 DEF e
<1>12. \A i \in 0 .. m : i \in S
  <2> HIDE DEF S
  <2> QED  BY <1>3, <1>10, <1>11, Induction
<1>13. from[1] = g[0]
  <2>1. m \in 0 .. m /\ m + 1 - m = 1 /\ m - m = 0
    BY <1>3
  <2> QED  BY <1>12, <2>1
<1> QED  BY <1>2, <1>5, <1>13

\* Every node number is the number of its own coordinates, which the axes have.
LEMMA LayoutInvertible ==
  ASSUME NEW l \in Seq(Nat \ {0}), NEW p \in Maps(l)
  PROVE  Invertible([dims |-> l, map |-> p])
<1> DEFINE topo == [dims |-> l, map |-> p]
           m == Len(l)
           s == Lengths(l, p)
<1>1. m \in Nat /\ m = Len(l) /\ l \in [1 .. m -> Nat] /\ l \in Seq(Nat)
  OBVIOUS
<1>2. Order(Axes(p, m), m)
  BY AxesAreOrdered
<1>3. s \in [1 .. m -> Nat \ {0}] /\ s \in [1 .. m -> Nat]
  BY <1>2 DEF Order, Lengths, Reordered
<1>4. SUFFICES ASSUME NEW r \in 0 .. ProductOf(l) - 1
               PROVE  LET x == GetCoord(r, l, p)
                      IN  GetRank(x, l, p) = r /\ \A i \in DOMAIN x : x[i] \in 0 .. l[i] - 1
  BY DEF Invertible, Coordinates, NodeNumber
<1>5. PICK f : Product(l, m, f) /\ ProductOf(l) = f[m]
  BY <1>1, ProductOfIs
<1>6. r \in Nat /\ r < f[m]
  <2>1. f[m] \in Nat
    BY <1>1, <1>5 DEF Product
  <2> QED  BY <1>5, <2>1
<1> DEFINE x == GetCoord(r, l, p)
<1> HIDE DEF m, s
<1>7. PICK q : Product(s, m, q)
  BY <1>1, <1>3, ProductExists
<1>8. f[m] = q[m]
  <2> DEFINE a == Axes(p, m)
  <2>1. s = Reordered(l, a, m)
    BY DEF s, m, Lengths
  <2>2. Order(a, m)
    BY <1>2
  <2> HIDE DEF a
  <2>3. Product(Reordered(l, a, m), m, q)
    BY <1>7, <2>1
  <2> QED  BY <1>1, <1>5, <2>2, <2>3, OrderIndifferent
<1>9. PICK g : Rests(s, r, m, g)
  BY <1>1, <1>3, <1>6, RestsExist
<1>10. g[m] = 0
  <2>1. r < q[m]
    BY <1>6, <1>8
  <2> QED  BY <1>1, <1>3, <1>6, <1>7, <1>9, <2>1, NothingRemains
<1>11. Rests(Lengths(l, p), r, Len(l), g) /\ g[Len(l)] = 0
  BY <1>9, <1>10 DEF s, m
<1>12. \A i \in 1 .. Len(l) : x[Axis(p, i)] = g[i - 1] % l[Axis(p, i)]
  BY <1>6, <1>11, CoordinateIs
<1>13. ASSUME NEW i \in DOMAIN x PROVE x[i] \in 0 .. l[i] - 1
  <2>1. i \in 1 .. m
    BY DEF GetCoord, m
  <2>2. PICK j \in 1 .. m : Axis(p, j) = i
    <3> DEFINE a == Axes(p, m)
    <3>1. Order(a, m) /\ \A j \in 1 .. m : a[j] = Axis(p, j)
      BY <1>2 DEF Axes
    <3> HIDE DEF a
    <3>2. \E j \in 1 .. m : a[j] = i
      BY <1>1, <2>1, <3>1, OrderIsOnto
    <3> QED  BY <3>1, <3>2
  <2>3. x[i] = g[j - 1] % l[i]
    BY <1>12, <2>2 DEF m
  <2>4. g[j - 1] \in Nat /\ l[i] \in Nat \ {0}
    <3>1. j - 1 \in 0 .. m
      BY <1>1
    <3>2. g[j - 1] \in Nat
      BY <1>9, <3>1 DEF Rests
    <3>3. l[i] \in Nat \ {0}
      BY <2>1 DEF m
    <3> QED  BY <3>2, <3>3
  <2>5. g[j - 1] % l[i] \in 0 .. l[i] - 1
    <3> DEFINE v == g[j - 1]
               d == l[i]
    <3>1. v \in Nat /\ d \in Nat \ {0}
      BY <2>4
    <3> HIDE DEF v, d
    <3>2. v % d \in 0 .. d - 1
      BY <3>1
    <3> QED  BY <3>2 DEF v, d
  <2> QED  BY <2>3, <2>5
<1>14. GetRank(x, l, p) = r
  <2> HIDE DEF x
  <2> QED  BY <1>6, <1>11, <1>12, NumberIs
<1> QED  BY <1>13, <1>14

\* The coordinates and the node numbers of every layout that the search declares are
\* inverse to each other, under every map of the axes and whatever their number and
\* lengths (QMP_topology_mpi.c:39-62).
THEOREM LayoutNumbersNodes == Spec => []NumbersNodes
<1>1. Init => IInv
  BY InitIInv
<1>2. IInv /\ [Next]_vars => IInv'
  BY NextIInv
<1>3. IInv => NumbersNodes
  BY LayoutInvertible DEF IInv, TypeOK, NumbersNodes
<1> QED  BY <1>1, <1>2, <1>3, PTL DEF Spec

-----------------------------------------------------------------------------
(* Divisors.                                                               *)

Divides(d, m) == \E t \in Nat : m = d * t

LEMMA DividesIsMod ==
  ASSUME NEW d \in Nat \ {0}, NEW m \in Nat
  PROVE  Divides(d, m) <=> m % d = 0
<1> DEFINE q == m \div d
           r == m % d
<1>1. q \in Nat /\ r \in Nat /\ r < d /\ m = d * q + r
  OBVIOUS
<1> HIDE DEF q, r
<1>2. ASSUME r = 0 PROVE Divides(d, m)
  BY <1>1, <1>2 DEF Divides
<1>3. ASSUME NEW t \in Nat, m = d * t PROVE r = 0
  <2>1. CASE t <= q
    <3>1. PICK u \in Nat : q = t + u
      <4>1. q - t \in Nat /\ q = t + (q - t)
        BY <1>1, <2>1
      <4> QED  BY <4>1
    <3>2. d * q = d * t + d * u /\ d * u \in Nat /\ d * t \in Nat
      BY <3>1
    <3> DEFINE x == d * u
               y == d * t
               z == d * q
    <3>3. z = y + x /\ x \in Nat /\ y \in Nat /\ y = z + r
      BY <1>1, <1>3, <3>2
    <3> HIDE DEF x, y, z
    <3> QED  BY <1>1, <3>3
  <2>2. CASE ~(t <= q)
    <3>1. PICK u \in Nat : t = q + 1 + u
      <4>1. t - q - 1 \in Nat /\ t = q + 1 + (t - q - 1)
        BY <1>1, <2>2
      <4> QED  BY <4>1
    <3>2. d * t = d * q + d + d * u /\ d * u \in Nat /\ d * q \in Nat
      BY <1>1, <3>1
    <3> DEFINE x == d * u
               y == d * t
               z == d * q
    <3>3. y = z + d + x /\ x \in Nat /\ z \in Nat /\ y = z + r
      BY <1>1, <1>3, <3>2
    <3> HIDE DEF x, y, z
    <3> QED  BY <1>1, <3>3
  <2> QED  BY <2>1, <2>2
<1> QED  BY <1>2, <1>3 DEF Divides, r

LEMMA DividesTimes ==
  ASSUME NEW d \in Nat, NEW m \in Nat, NEW c \in Nat, Divides(d, m)
  PROVE  Divides(d, m * c) /\ Divides(d, c * m)
<1>1. PICK t \in Nat : m = d * t
  BY DEF Divides
<1>2. m * c = d * (t * c) /\ c * m = d * (t * c) /\ t * c \in Nat
  BY <1>1
<1> QED  BY <1>2 DEF Divides

LEMMA DividesThrough ==
  ASSUME NEW c \in Nat, NEW d \in Nat, NEW m \in Nat, Divides(c, d), Divides(d, m)
  PROVE  Divides(c, m)
<1>1. PICK t \in Nat : m = d * t
  BY DEF Divides
<1> QED  BY <1>1, DividesTimes

LEMMA Cancel ==
  ASSUME NEW a \in Nat, NEW c \in Nat, NEW p \in Nat \ {0}, a * p = c * p
  PROVE  a = c
<1>1. ASSUME NEW d \in Nat, NEW e \in Nat, d < e PROVE d * p # e * p
  <2>1. PICK v \in Nat : e = d + 1 + v
    <3>1. e - d - 1 \in Nat /\ e = d + 1 + (e - d - 1)
      BY <1>1
    <3> QED  BY <3>1
  <2>2. e * p = d * p + p + v * p /\ v * p \in Nat /\ d * p \in Nat
    BY <1>1, <2>1
  <2> DEFINE y == v * p
             z == d * p
             w == e * p
  <2>3. w = z + p + y /\ y \in Nat /\ z \in Nat
    BY <2>2
  <2> HIDE DEF y, z, w
  <2>4. z # w
    BY <2>3
  <2> QED  BY <2>4 DEF z, w
<1>2. ~(a < c) /\ ~(c < a)
  BY <1>1
<1> QED  BY <1>2

\* A divisor of two numbers divides what one is more than the other.
LEMMA DividesRest ==
  ASSUME NEW d \in Nat \ {0}, NEW m \in Nat, NEW c \in Nat, Divides(d, m), Divides(d, m + c)
  PROVE  Divides(d, c)
<1>1. PICK t \in Nat : m = d * t
  BY DEF Divides
<1>2. PICK u \in Nat : m + c = d * u
  BY DEF Divides
<1>3. t <= u
  <2> SUFFICES ASSUME u < t PROVE FALSE
    BY <1>1, <1>2
  <2>1. PICK v \in Nat : t = u + 1 + v
    <3>1. t - u - 1 \in Nat /\ t = u + 1 + (t - u - 1)
      BY <1>1, <1>2
    <3> QED  BY <3>1
  <2>2. d * t = d * u + d + d * v /\ d * v \in Nat
    BY <1>2, <2>1
  <2> DEFINE x == d * v
             y == d * t
             z == d * u
  <2>3. y = z + d + x /\ x \in Nat /\ m = y /\ m + c = z
    BY <1>1, <1>2, <2>2
  <2> HIDE DEF x, y, z
  <2> QED  BY <2>3
<1>4. PICK v \in Nat : u = t + v
  <2>1. u - t \in Nat /\ u = t + (u - t)
    BY <1>1, <1>2, <1>3
  <2> QED  BY <2>1
<1>5. d * u = d * t + d * v /\ d * v \in Nat
  BY <1>1, <1>4
<1>6. c = d * v
  <2> DEFINE x == d * v
             y == d * t
             z == d * u
  <2>1. z = y + x /\ x \in Nat /\ y = m /\ z = m + c
    BY <1>1, <1>2, <1>5
  <2> HIDE DEF x, y, z
  <2>2. c = x
    BY <2>1
  <2> QED  BY <2>2 DEF x
<1> QED  BY <1>4, <1>6 DEF Divides

\* The numbers of the table are prime.
LEMMA PrimesArePrime ==
  ASSUME NEW i \in 1 .. 16, NEW d \in Nat, NEW e \in Nat, Primes[i] = d * e
  PROVE  d = 1 \/ e = 1
<1> DEFINE p == Primes[i]
<1>1. p \in {2, 3, 5, 7, 11, 13, 17, 19, 23, 29, 31, 37, 41, 43, 47, 53}
  BY DEF Primes
<1>2. p = d * e
  OBVIOUS
<1> HIDE DEF p
<1>3. d # 0 /\ e # 0
  BY <1>1, <1>2
<1>4. CASE d \in 2 .. 7
  <2>1. d = 2 \/ d = 3 \/ d = 4 \/ d = 5 \/ d = 6 \/ d = 7
    BY <1>4
  <2> QED  BY <1>1, <1>2, <2>1
<1>5. CASE e \in 2 .. 7
  <2>1. e = 2 \/ e = 3 \/ e = 4 \/ e = 5 \/ e = 6 \/ e = 7
    BY <1>5
  <2> QED  BY <1>1, <1>2, <2>1
<1>6. CASE d >= 8 /\ e >= 8
  <2>1. PICK u \in Nat, v \in Nat : d = 8 + u /\ e = 8 + v
    <3>1. d - 8 \in Nat /\ d = 8 + (d - 8) /\ e - 8 \in Nat /\ e = 8 + (e - 8)
      BY <1>6
    <3> QED  BY <3>1
  <2>2. d * e = 64 + 8 * u + 8 * v + u * v /\ u * v \in Nat
    BY <2>1
  <2> DEFINE w == u * v
             x == d * e
  <2>3. x = 64 + 8 * u + 8 * v + w /\ w \in Nat /\ p = x
    BY <1>2, <2>2
  <2> HIDE DEF w, x
  <2>4. p >= 64
    BY <2>1, <2>3
  <2> QED  BY <1>1, <2>4
<1> QED  BY <1>3, <1>4, <1>5, <1>6

\* A prime of the table that divides a product divides one of its factors: the least
\* multiple of b that it divides is a multiple by 1 or by itself.
LEMMA PrimeDivides ==
  ASSUME NEW i \in 1 .. 16, NEW a \in Nat, NEW b \in Nat, Divides(Primes[i], a * b)
  PROVE  Divides(Primes[i], a) \/ Divides(Primes[i], b)
<1> DEFINE p == Primes[i]
           S == {x \in 1 .. p : Divides(p, x * b)}
<1>1. p \in Nat \ {0} /\ p # 1
  BY PrimesArePositive DEF Primes
<1>2. \A d, e \in Nat : p = d * e => d = 1 \/ e = 1
  BY PrimesArePrime
<1>3. Divides(p, a * b)
  OBVIOUS
<1> HIDE DEF p
<1>4. PICK d \in S : \A x \in S : d <= x
  <2>1. p \in S
    <3>1. p \in 1 .. p
      BY <1>1
    <3>2. Divides(p, p * b)
      BY <1>1 DEF Divides
    <3> QED  BY <3>1, <3>2
  <2>2. S \in SUBSET (0 .. p)
    BY <1>1
  <2> HIDE DEF S
  <2> QED  BY <1>1, <2>1, <2>2, Least
<1>5. d \in Nat \ {0} /\ d <= p /\ Divides(p, d * b)
  BY <1>1
<1>6. ASSUME NEW x \in Nat, Divides(p, x * b)
      PROVE  Divides(d, x)
  <2> DEFINE q == x \div d
             r == x % d
  <2>1. q \in Nat /\ r \in Nat /\ r < d /\ x = d * q + r
    BY <1>5
  <2> HIDE DEF q, r
  <2>2. Divides(p, (d * b) * q) /\ (d * b) * q \in Nat /\ r * b \in Nat
    <3>1. d * b \in Nat
      BY <1>5
    <3>2. Divides(p, (d * b) * q)
      BY <1>1, <1>5, <2>1, <3>1, DividesTimes
    <3> QED  BY <2>1, <3>1, <3>2
  <2>3. x * b = (d * b) * q + r * b
    <3>1. (d * q + r) * b = (d * b) * q + r * b
      BY <1>5, <2>1
    <3> QED  BY <2>1, <3>1
  <2> DEFINE y == (d * b) * q
             z == r * b
  <2>4. y \in Nat /\ z \in Nat /\ Divides(p, y) /\ Divides(p, y + z)
    BY <1>6, <2>2, <2>3
  <2> HIDE DEF y, z
  <2>5. Divides(p, z)
    BY <1>1, <2>4, DividesRest
  <2>6. r = 0
    <3> SUFFICES ASSUME r # 0 PROVE FALSE
      OBVIOUS
    <3>1. r \in 1 .. p
      BY <1>1, <1>5, <2>1
    <3>2. r \in S
      BY <2>5, <3>1 DEF z
    <3> QED  BY <1>4, <1>5, <2>1, <3>2
  <2>7. x = d * q
    BY <1>5, <2>1, <2>6
  <2> QED  BY <2>1, <2>7 DEF Divides
<1>7. Divides(d, p) /\ Divides(d, a)
  <2>1. Divides(p, p * b)
    BY <1>1 DEF Divides
  <2> QED  BY <1>1, <1>3, <1>6, <2>1
<1>8. PICK t \in Nat : p = d * t
  BY <1>7 DEF Divides
<1>9. CASE d = 1
  BY <1>5, <1>9 DEF p
<1>10. CASE t = 1
  <2>1. d = p
    BY <1>5, <1>8, <1>10
  <2> QED  BY <1>7, <2>1 DEF p
<1> QED  BY <1>2, <1>5, <1>8, <1>9, <1>10

\* It divides one of the factors of any product.
LEMMA PrimeOfProduct ==
  ASSUME NEW i \in 1 .. 16, NEW s \in Seq(Nat), Divides(Primes[i], ProductOf(s))
  PROVE  \E j \in 1 .. Len(s) : Divides(Primes[i], s[j])
<1> DEFINE m == Len(s)
           p == Primes[i]
<1> SUFFICES ASSUME \A j \in 1 .. m : ~Divides(p, s[j]) PROVE FALSE
  OBVIOUS
<1>1. PICK f : Product(s, m, f) /\ ProductOf(s) = f[m]
  BY ProductOfIs
<1>2. m \in Nat /\ \A j \in 1 .. m : s[j] \in Nat
  OBVIOUS
<1> HIDE DEF m
<1>3. f \in [0 .. m -> Nat] /\ f[0] = 1 /\ \A j \in 1 .. m : f[j] = f[j - 1] * s[j]
  BY <1>1 DEF Product
<1>4. p \in Nat \ {0} /\ p # 1
  <2>1. p \in Nat \ {0}
    BY PrimesArePositive
  <2>2. p # 1
    BY OneIsNoPrime
  <2> QED  BY <2>1, <2>2
<1> DEFINE S == {j \in 0 .. m : ~Divides(p, f[j])}
<1>5. 0 \in S
  <2>1. ~Divides(p, 1)
    <3> HIDE DEF p
    <3> SUFFICES ASSUME NEW t \in Nat, 1 = p * t PROVE FALSE
      BY DEF Divides
    <3> QED  BY <1>4
  <2> QED  BY <1>2, <1>3, <2>1
<1>6. ASSUME NEW j \in 1 .. m, j - 1 \in S PROVE j \in S
  <2>1. j \in 0 .. m /\ j - 1 \in 0 .. m
    BY <1>2
  <2>2. f[j - 1] \in Nat /\ s[j] \in Nat /\ ~Divides(p, f[j - 1]) /\ ~Divides(p, s[j])
    BY <1>2, <1>3, <1>6, <2>1
  <2>3. ~Divides(p, f[j - 1] * s[j])
    BY <2>2, PrimeDivides
  <2> QED  BY <1>3, <2>1, <2>3
<1>7. \A j \in 0 .. m : j \in S
  <2> HIDE DEF S
  <2> QED  BY <1>2, <1>5, <1>6, Induction
<1> QED  BY <1>1, <1>2, <1>7

LEMMA ProductOfPositive ==
  ASSUME NEW s \in Seq(Nat \ {0})
  PROVE  ProductOf(s) \in Nat \ {0}
<1> DEFINE m == Len(s)
<1>1. s \in Seq(Nat) /\ m \in Nat /\ \A j \in 1 .. m : s[j] \in Nat \ {0}
  OBVIOUS
<1>2. PICK f : Product(s, m, f) /\ ProductOf(s) = f[m]
  BY <1>1, ProductOfIs
<1> HIDE DEF m
<1>3. f \in [0 .. m -> Nat] /\ f[0] = 1 /\ \A j \in 1 .. m : f[j] = f[j - 1] * s[j]
  BY <1>2 DEF Product
<1> DEFINE S == {j \in 0 .. m : f[j] \in Nat \ {0}}
<1>4. 0 \in S
  BY <1>1, <1>3
<1>5. ASSUME NEW j \in 1 .. m, j - 1 \in S PROVE j \in S
  <2>1. j \in 0 .. m /\ f[j - 1] \in Nat \ {0} /\ s[j] \in Nat \ {0}
    BY <1>1, <1>5
  <2> DEFINE x == f[j - 1]
             y == s[j]
  <2>2. x \in Nat \ {0} /\ y \in Nat \ {0} /\ f[j] = x * y
    BY <1>3, <2>1
  <2> HIDE DEF x, y
  <2>3. f[j] \in Nat \ {0}
    BY <2>2
  <2> QED  BY <2>1, <2>3
<1>6. \A j \in 0 .. m : j \in S
  <2> HIDE DEF S
  <2> QED  BY <1>1, <1>4, <1>5, Induction
<1> QED  BY <1>1, <1>2, <1>6

\* Ones have the product one.
LEMMA ProductOfOnes ==
  ASSUME NEW s \in Seq(Nat), \A j \in 1 .. Len(s) : s[j] = 1
  PROVE  ProductOf(s) = 1
<1> DEFINE m == Len(s)
<1>1. m \in Nat /\ \A j \in 1 .. m : s[j] = 1
  OBVIOUS
<1>2. PICK f : Product(s, m, f) /\ ProductOf(s) = f[m]
  BY ProductOfIs
<1> HIDE DEF m
<1>3. f \in [0 .. m -> Nat] /\ f[0] = 1 /\ \A j \in 1 .. m : f[j] = f[j - 1] * s[j]
  BY <1>2 DEF Product
<1> DEFINE S == {j \in 0 .. m : f[j] = 1}
<1>4. 0 \in S
  BY <1>1, <1>3
<1>5. ASSUME NEW j \in 1 .. m, j - 1 \in S PROVE j \in S
  <2>1. j \in 0 .. m /\ f[j - 1] = 1 /\ s[j] = 1
    BY <1>1, <1>5
  <2> QED  BY <1>3, <2>1
<1>6. \A j \in 0 .. m : j \in S
  <2> HIDE DEF S
  <2> QED  BY <1>1, <1>4, <1>5, Induction
<1> QED  BY <1>1, <1>2, <1>6

\* Numbers that are products one by one have the product of the products.
LEMMA ProductOfProducts ==
  ASSUME NEW d \in Seq(Nat), NEW a \in Seq(Nat), NEW b \in Seq(Nat),
         Len(a) = Len(d), Len(b) = Len(d), \A j \in 1 .. Len(d) : d[j] = a[j] * b[j]
  PROVE  ProductOf(d) = ProductOf(a) * ProductOf(b)
<1> DEFINE m == Len(d)
<1>1. /\ m \in Nat /\ \A j \in 1 .. m : d[j] = a[j] * b[j] /\ a[j] \in Nat /\ b[j] \in Nat
      /\ Len(a) = m /\ Len(b) = m /\ Len(d) = m
  OBVIOUS
<1> HIDE DEF m
<1>2. PICK f : Product(d, m, f) /\ ProductOf(d) = f[m]
  BY <1>1, ProductOfIs
<1>3. PICK g : Product(a, m, g) /\ ProductOf(a) = g[m]
  BY <1>1, ProductOfIs
<1>4. PICK h : Product(b, m, h) /\ ProductOf(b) = h[m]
  BY <1>1, ProductOfIs
<1>5. /\ f[0] = 1 /\ \A j \in 1 .. m : f[j] = f[j - 1] * d[j]
      /\ g[0] = 1 /\ \A j \in 1 .. m : g[j] = g[j - 1] * a[j]
      /\ h[0] = 1 /\ \A j \in 1 .. m : h[j] = h[j - 1] * b[j]
      /\ \A j \in 0 .. m : g[j] \in Nat /\ h[j] \in Nat
  BY <1>2, <1>3, <1>4 DEF Product
<1> DEFINE S == {j \in 0 .. m : f[j] = g[j] * h[j]}
<1>6. 0 \in S
  BY <1>1, <1>5
<1>7. ASSUME NEW j \in 1 .. m, j - 1 \in S PROVE j \in S
  <2> DEFINE x == g[j - 1]
             y == h[j - 1]
             u == a[j]
             v == b[j]
  <2>1. j \in 0 .. m /\ j - 1 \in 0 .. m /\ f[j - 1] = x * y /\ d[j] = u * v
    BY <1>1, <1>7
  <2>2. x \in Nat /\ y \in Nat /\ u \in Nat /\ v \in Nat
    BY <1>1, <1>5, <2>1
  <2>3. f[j] = (x * y) * (u * v) /\ g[j] = x * u /\ h[j] = y * v
    BY <1>5, <2>1
  <2> HIDE DEF x, y, u, v
  <2>4. (x * y) * (u * v) = (x * u) * (y * v)
    BY <2>2
  <2> QED  BY <2>1, <2>3, <2>4
<1>8. \A j \in 0 .. m : j \in S
  <2> HIDE DEF S
  <2> QED  BY <1>1, <1>6, <1>7, Induction
<1> QED  BY <1>1, <1>2, <1>3, <1>4, <1>8

\* A factor of one of the numbers is a factor of the product.
LEMMA ProductMultiplied ==
  ASSUME NEW s \in Seq(Nat), NEW j \in 1 .. Len(s), NEW p \in Nat
  PROVE  ProductOf([s EXCEPT ![j] = @ * p]) = ProductOf(s) * p
<1> DEFINE m == Len(s)
           t == [s EXCEPT ![j] = @ * p]
<1>1. /\ m \in Nat /\ j \in 1 .. m /\ t \in Seq(Nat) /\ Len(t) = m /\ Len(s) = m
      /\ \A i \in 1 .. m : s[i] \in Nat /\ t[i] = IF i = j THEN s[j] * p ELSE s[i]
  <2>1. s[j] \in Nat
    OBVIOUS
  <2>2. s[j] * p \in Nat
    BY <2>1
  <2> QED  BY <2>2
<1> HIDE DEF m, t
<1>2. PICK f : Product(s, m, f) /\ ProductOf(s) = f[m]
  BY <1>1, ProductOfIs
<1>3. PICK g : Product(t, m, g) /\ ProductOf(t) = g[m]
  BY <1>1, ProductOfIs
<1>4. /\ f[0] = 1 /\ \A i \in 1 .. m : f[i] = f[i - 1] * s[i]
      /\ g[0] = 1 /\ \A i \in 1 .. m : g[i] = g[i - 1] * t[i]
      /\ \A i \in 0 .. m : f[i] \in Nat /\ g[i] \in Nat
  BY <1>2, <1>3 DEF Product
<1> DEFINE S == {i \in 0 .. m : g[i] = IF i < j THEN f[i] ELSE f[i] * p}
<1>5. 0 \in S
  BY <1>1, <1>4
<1>6. ASSUME NEW i \in 1 .. m, i - 1 \in S PROVE i \in S
  <2> DEFINE x == f[i - 1]
             y == s[i]
  <2>1. i \in 0 .. m /\ i - 1 \in 0 .. m /\ x \in Nat /\ y \in Nat /\ f[i] = x * y
    BY <1>1, <1>4
  <2>2. CASE i < j
    <3>1. g[i - 1] = x /\ t[i] = y
      BY <1>1, <1>6, <2>2
    <3> QED  BY <1>4, <2>1, <2>2, <3>1
  <2>3. CASE i = j
    <3>1. g[i - 1] = x /\ t[i] = y * p
      BY <1>1, <1>6, <2>3
    <3>2. g[i] = x * (y * p)
      BY <1>4, <3>1
    <3>3. x * (y * p) = (x * y) * p
      <4> HIDE DEF x, y
      <4> QED  BY <2>1
    <3> QED  BY <2>1, <2>3, <3>2, <3>3
  <2>4. CASE i > j
    <3>1. g[i - 1] = x * p /\ t[i] = y
      BY <1>1, <1>6, <2>4
    <3>2. g[i] = (x * p) * y
      BY <1>4, <3>1
    <3>3. (x * p) * y = (x * y) * p
      <4> HIDE DEF x, y
      <4> QED  BY <2>1
    <3> QED  BY <2>1, <2>4, <3>2, <3>3, SMTT(60)
  <2> QED  BY <1>1, <2>2, <2>3, <2>4
<1>7. \A i \in 0 .. m : i \in S
  <2> HIDE DEF S
  <2> QED  BY <1>1, <1>5, <1>6, Induction
<1>8. m \in S /\ ~(m < j)
  BY <1>1, <1>7
<1>9. g[m] = f[m] * p
  BY <1>8
<1> QED  BY <1>2, <1>3, <1>9 DEF t

-----------------------------------------------------------------------------
(* What the search finds.                                                  *)

\* Every divisor of m has a prime factor that is in the table.
SmoothNumber(m) ==
  \A q \in Nat \ {0, 1} : Divides(q, m) => \E i \in 1 .. 16 : Divides(Primes[i], q)

LEMMA SmoothIsSmoothNumber ==
  ASSUME nodes \in Nat \ {0}
  PROVE  Smooth <=> SmoothNumber(nodes)
<1>1. DOMAIN Primes = 1 .. 16 /\ \A i \in 1 .. 16 : Primes[i] \in Nat \ {0}
  BY PrimesArePositive DEF Primes
<1>2. \A q \in Nat \ {0, 1} : \A i \in 1 .. 16 : q % Primes[i] = 0 <=> Divides(Primes[i], q)
  BY <1>1, DividesIsMod
<1>3. \A q \in Nat \ {0, 1} : nodes % q = 0 <=> Divides(q, nodes)
  BY DividesIsMod
<1>4. ASSUME NEW q \in Nat \ {0, 1}, Divides(q, nodes) PROVE q \in 2 .. nodes
  <2>1. PICK t \in Nat : nodes = q * t
    BY <1>4 DEF Divides
  <2>2. t # 0
    BY <2>1
  <2>3. PICK u \in Nat : t = 1 + u
    <3>1. t - 1 \in Nat /\ t = 1 + (t - 1)
      BY <2>2
    <3> QED  BY <3>1
  <2>4. nodes = q + q * u /\ q * u \in Nat
    BY <2>1, <2>3
  <2> DEFINE x == q * u
  <2>5. nodes = q + x /\ x \in Nat
    BY <2>4
  <2> HIDE DEF x
  <2> QED  BY <2>5
<1>5. ASSUME Smooth PROVE SmoothNumber(nodes)
  BY <1>1, <1>2, <1>3, <1>4, <1>5 DEF Smooth, SmoothNumber
<1>6. ASSUME SmoothNumber(nodes) PROVE Smooth
  <2>1. \A q \in 2 .. nodes : q \in Nat \ {0, 1}
    OBVIOUS
  <2> QED  BY <1>1, <1>2, <1>3, <1>6, <2>1 DEF Smooth, SmoothNumber
<1> QED  BY <1>5, <1>6

\* One more factor of the table.
LEMMA SmoothTimes ==
  ASSUME NEW m \in Nat, NEW i \in 1 .. 16, SmoothNumber(m)
  PROVE  SmoothNumber(m * Primes[i])
<1> DEFINE p == Primes[i]
<1>1. p \in Nat \ {0}
  BY PrimesArePositive
<1> SUFFICES ASSUME NEW q \in Nat \ {0, 1}, Divides(q, m * p), ~Divides(p, q)
             PROVE  Divides(q, m)
  BY DEF SmoothNumber
<1>2. PICK t \in Nat : m * p = q * t
  BY DEF Divides
<1>3. Divides(p, q * t)
  <2>1. q * t = p * m
    BY <1>1, <1>2
  <2> QED  BY <2>1 DEF Divides
<1>4. Divides(p, t)
  BY <1>3, PrimeDivides
<1> HIDE DEF p
<1>5. PICK u \in Nat : t = p * u
  BY <1>4 DEF Divides
<1>6. m * p = (q * u) * p /\ q * u \in Nat
  <2>1. q * (p * u) = (q * u) * p
    BY <1>1, <1>5
  <2> QED  BY <1>2, <1>5, <2>1
<1>7. m = q * u
  <2> DEFINE x == q * u
  <2>1. m * p = x * p /\ x \in Nat
    BY <1>6
  <2> HIDE DEF x
  <2>2. m = x
    BY <1>1, <2>1, Cancel
  <2> QED  BY <2>2 DEF x
<1> QED  BY <1>6, <1>7 DEF Divides

\* The prime to divide by divides m, and no larger one of the table does, where the
\* divisors of m have prime factors that are in the table, and none above the k-th.
LEMMA PrimeFromDivides ==
  ASSUME NEW m \in Nat \ {0, 1}, NEW l \in 1 .. 16,
         \E i \in 1 .. 16 : Divides(Primes[i], m),
         \A j \in l + 1 .. 16 : ~Divides(Primes[j], m)
  PROVE  /\ PrimeFrom(m, l) \in 1 .. 16
         /\ Divides(Primes[PrimeFrom(m, l)], m)
         /\ \A j \in PrimeFrom(m, l) + 1 .. 16 : ~Divides(Primes[j], m)
<1> DEFINE S == {i \in 1 .. l : m % Primes[i] = 0}
<1>1. \A i \in 1 .. 16 : m % Primes[i] = 0 <=> Divides(Primes[i], m)
  BY PrimesArePositive, DividesIsMod
<1>2. PICK i \in 1 .. 16 : Divides(Primes[i], m)
  OBVIOUS
<1>3. i \in S
  <2>1. i \in 1 .. l
    BY <1>2
  <2> QED  BY <1>1, <1>2, <2>1
<1>4. \E a \in S : \A j \in S : j <= a
  <2>1. S \in SUBSET (0 .. 16)
    OBVIOUS
  <2> HIDE DEF S
  <2> QED  BY <1>3, <2>1, Greatest
<1>5. PrimeFrom(m, l) = CHOOSE a \in S : \A j \in S : j <= a
  BY <1>3 DEF PrimeFrom
<1> DEFINE b == PrimeFrom(m, l)
<1>6. b \in S /\ \A j \in S : j <= b
  <2> HIDE DEF S
  <2> QED  BY <1>4, <1>5
<1> HIDE DEF b
<1>7. b \in 1 .. 16 /\ Divides(Primes[b], m)
  BY <1>1, <1>6
<1>8. ASSUME NEW j \in b + 1 .. 16 PROVE ~Divides(Primes[j], m)
  <2>1. CASE j \in 1 .. l
    <3>1. j \notin S
      BY <1>6, <1>7
    <3> QED  BY <1>1, <2>1, <3>1
  <2>2. CASE j \notin 1 .. l
    BY <1>7, <2>2
  <2> QED  BY <2>1, <2>2
<1> QED  BY <1>7, <1>8 DEF b

\* The loop over the axes ends without one only where the prime divides no length.
LEMMA GivesUpRightly ==
  ASSUME NEW p \in Nat \ {0}, NEW size \in Seq(Nat), NEW nsq,
         GivesUp(AxisToDivide(p, size, nsq)), NEW j \in 1 .. Len(size)
  PROVE  size[j] % p # 0
<1> DEFINE m == Len(size)
           D == {i \in DOMAIN size : size[i] % p = 0}
           S == {i \in 0 .. m : \/ \A a \in 1 .. i : a \notin D
                                \/ \E a \in D : a <= i /\ \A c \in D : c <= i => size[c] <= size[a]}
<1> SUFFICES ASSUME j \in D PROVE FALSE
  OBVIOUS
<1>1. m \in Nat /\ DOMAIN size = 1 .. m /\ \A i \in 1 .. m : size[i] \in Nat
  OBVIOUS
<1>2. D \subseteq 1 .. m
  OBVIOUS
<1> HIDE DEF m, D
<1>3. 0 \in S
  BY <1>1
<1>4. ASSUME NEW i \in 1 .. m, i - 1 \in S PROVE i \in S
  <2>1. i \in 0 .. m /\ \A a \in 1 .. m : a <= i => a = i \/ a <= i - 1
    BY <1>1
  <2>2. CASE i \notin D
    BY <1>2, <1>4, <2>1, <2>2, SMTT(60)
  <2>3. CASE i \in D /\ \A a \in 1 .. i - 1 : a \notin D
    <3>1. \A c \in D : c <= i => c = i
      BY <1>2, <2>1, <2>3
    <3>2. size[i] <= size[i] /\ i <= i
      BY <1>1
    <3> QED  BY <2>1, <2>3, <3>1, <3>2
  <2>4. CASE i \in D /\ \E a \in D : a <= i - 1 /\ \A c \in D : c <= i - 1 => size[c] <= size[a]
    <3>1. PICK a \in D : a <= i - 1 /\ \A c \in D : c <= i - 1 => size[c] <= size[a]
      BY <2>4
    <3>2. a \in 1 .. m /\ a <= i /\ size[a] \in Nat /\ size[i] \in Nat
      BY <1>1, <1>2, <3>1
    <3>3. CASE size[i] <= size[a]
      <4>1. \A c \in D : c <= i => size[c] <= size[a]
        BY <1>2, <2>1, <3>1, <3>3
      <4> QED  BY <2>1, <3>1, <3>2, <4>1
    <3>4. CASE size[a] <= size[i]
      <4>1. \A c \in D : c <= i => size[c] <= size[i]
        <5> SUFFICES ASSUME NEW c \in D, c <= i PROVE size[c] <= size[i]
          OBVIOUS
        <5>1. c \in 1 .. m /\ size[c] \in Nat
          BY <1>1, <1>2
        <5>2. CASE c = i
          BY <3>2, <5>2
        <5>3. CASE c <= i - 1
          <6>1. size[c] <= size[a]
            BY <3>1, <5>3
          <6> QED  BY <3>2, <3>4, <5>1, <6>1
        <5> QED  BY <2>1, <5>1, <5>2, <5>3
      <4> QED  BY <2>1, <2>4, <4>1
    <3>5. size[i] <= size[a] \/ size[a] <= size[i]
      BY <3>2
    <3> HIDE DEF S
    <3> QED  BY <3>3, <3>4, <3>5
  <2>5. \/ \A a \in 1 .. i - 1 : a \notin D
        \/ \E a \in D : a <= i - 1 /\ \A c \in D : c <= i - 1 => size[c] <= size[a]
    BY <1>4
  <2> HIDE DEF S
  <2> QED  BY <2>2, <2>3, <2>4, <2>5
<1>5. \A i \in 0 .. m : i \in S
  <2> HIDE DEF S
  <2> QED  BY <1>1, <1>3, <1>4, Induction
<1>6. m \in S
  <2> HIDE DEF S
  <2> QED  BY <1>1, <1>5
<1>7. \E a \in D : \A c \in D : size[c] <= size[a]
  <2>1. \A c \in D : c <= m /\ c \in 1 .. m
    BY <1>1, <1>2
  <2> QED  BY <1>6, <2>1
<1>8. Longest(p, size) # {}
  BY <1>7 DEF Longest, D
<1>9. AxisToDivide(p, size, nsq) \in Longest(p, size)
  BY <1>8, AxisIsLongest
<1>10. AxisToDivide(p, size, nsq) # 0
  BY <1>1, <1>9 DEF Longest
<1> QED  BY <1>10 DEF GivesUp

\* Dividing by the prime leaves something.
LEMMA SomethingIsLeft ==
  ASSUME NEW m \in Nat \ {0, 1}, NEW l \in 1 .. 16
  PROVE  m \div Primes[PrimeFrom(m, l)] \in Nat \ {0}
<1> DEFINE S == {i \in 1 .. l : m % Primes[i] = 0}
           b == PrimeFrom(m, l)
<1>1. S = {} \/ \E a \in S : \A j \in S : j <= a
  <2> SUFFICES ASSUME S # {} PROVE \E a \in S : \A j \in S : j <= a
    OBVIOUS
  <2>1. S \in SUBSET (0 .. 16)
    OBVIOUS
  <2> QED  BY <2>1, Greatest
<1>2. b = 1 \/ b \in S
  BY <1>1 DEF PrimeFrom
<1> HIDE DEF b
<1>3. CASE b = 1
  <2>1. Primes[b] = 2
    BY <1>3 DEF Primes
  <2> QED  BY <2>1 DEF b
<1>4. CASE b \in S
  <2> DEFINE p == Primes[b]
  <2>1. p \in Nat \ {0} /\ m % p = 0
    BY <1>4, PrimesArePositive
  <2> HIDE DEF p
  <2>2. m = p * (m \div p) + (m % p) /\ m \div p \in Nat
    BY <2>1
  <2> DEFINE q == m \div p
  <2>3. m = p * q /\ q \in Nat
    BY <2>1, <2>2
  <2> HIDE DEF q
  <2>4. q # 0
    BY <2>1, <2>3
  <2> QED  BY <2>3, <2>4 DEF q, p, b
<1> QED  BY <1>2, <1>3, <1>4

\* What is left and the squares make up the nodes, and no prime above the k-th is left.
SearchInv ==
  /\ n \in Nat \ {0}
  /\ SmoothNumber(ProductOf(nsquares))
  /\ Smooth => /\ n * ProductOf(nsquares) = nodes
               /\ \A j \in k + 1 .. 16 : ~Divides(Primes[j], n)
  /\ FoundWhenPossible

\* The invariants give the products.
LEMMA SearchProducts ==
  ASSUME IInv
  PROVE  /\ nodes \in Nat \ {0}
         /\ ProductOf(nsquares) \in Nat \ {0} /\ ProductOf(squaresize) \in Nat
         /\ ProductOf(dims) = ProductOf(squaresize) * ProductOf(nsquares)
<1>1. /\ dims \in Seq(Nat \ {0}) /\ squaresize \in Seq(Nat) /\ nsquares \in Seq(Nat \ {0})
      /\ dims \in Seq(Nat) /\ nsquares \in Seq(Nat) /\ nodes \in Nat \ {0}
  BY LayoutAssumption DEF IInv, TypeOK
<1>2. /\ Len(squaresize) = Len(dims) /\ Len(nsquares) = Len(dims)
      /\ \A j \in 1 .. Len(dims) : dims[j] = squaresize[j] * nsquares[j]
  BY <1>1, SMTT(60) DEF IInv, SquaresCover
<1>3. ProductOf(dims) = ProductOf(squaresize) * ProductOf(nsquares)
  BY <1>1, <1>2, ProductOfProducts
<1>4. ProductOf(squaresize) \in Nat
  <2>1. PICK f : Product(squaresize, Len(squaresize), f) /\ ProductOf(squaresize) = f[Len(squaresize)]
    BY <1>1, ProductOfIs
  <2>2. Len(squaresize) \in Nat
    BY <1>1
  <2> QED  BY <2>1, <2>2 DEF Product
<1> QED  BY <1>1, <1>3, <1>4, ProductOfPositive

\* While something is left, the prime divides it, if the nodes are smooth.
LEMMA PrimeDividesRest ==
  ASSUME IInv, SearchInv, Smooth, n > 1
  PROVE  /\ PrimeFrom(n, k) \in 1 .. 16
         /\ Divides(Primes[PrimeFrom(n, k)], n)
         /\ \A j \in PrimeFrom(n, k) + 1 .. 16 : ~Divides(Primes[j], n)
<1>1. n \in Nat \ {0, 1} /\ k \in 1 .. 16 /\ \A j \in k + 1 .. 16 : ~Divides(Primes[j], n)
  BY PrimesArePositive DEF SearchInv, IInv, TypeOK
<1>2. SmoothNumber(nodes)
  BY SmoothIsSmoothNumber, SearchProducts
<1>3. Divides(n, nodes)
  <2>1. nodes = n * ProductOf(nsquares) /\ ProductOf(nsquares) \in Nat
    BY SearchProducts DEF SearchInv
  <2> QED  BY <2>1 DEF Divides
<1>4. \E i \in 1 .. 16 : Divides(Primes[i], n)
  BY <1>1, <1>2, <1>3 DEF SmoothNumber
<1> QED  BY <1>1, <1>4, PrimeFromDivides

LEMMA InitSearch == Init => SearchInv
<1> SUFFICES ASSUME Init PROVE SearchInv
  OBVIOUS
<1>1. IInv
  BY InitIInv
<1>2. n = nodes /\ nodes \in Nat \ {0} /\ k = 16 /\ result = "searching"
  BY PrimesArePositive, LayoutAssumption DEF Init
<1>3. ProductOf(nsquares) = 1
  <2>1. nsquares \in Seq(Nat) /\ \A j \in 1 .. Len(nsquares) : nsquares[j] = 1
    BY LayoutAssumption DEF Init, OneSquare
  <2> QED  BY <2>1, ProductOfOnes
<1>4. SmoothNumber(1)
  <2> SUFFICES ASSUME NEW q \in Nat \ {0, 1}, NEW t \in Nat, 1 = q * t PROVE FALSE
    BY DEF SmoothNumber, Divides
  <2> QED  OBVIOUS
<1>5. n * 1 = nodes
  BY <1>2
<1>6. k + 1 .. 16 = {}
  BY <1>2
<1> QED  BY <1>2, <1>3, <1>4, <1>5, <1>6 DEF SearchInv, FoundWhenPossible

LEMMA DivideSearch ==
  ASSUME IInv, SearchInv, Divide
  PROVE  SearchInv'
<1> DEFINE i == PrimeFrom(n, k)
           p == Primes[i]
           j == AxisToDivide(p, squaresize, nsquares)
<1>1. /\ j \in DOMAIN dims /\ n > 1 /\ result = "searching"
      /\ n' = n \div p /\ k' = i
      /\ nsquares' = [nsquares EXCEPT ![j] = @ * p]
      /\ dims' = dims /\ nodes' = nodes /\ result' = result
  BY DEF Divide
<1>2. n \in Nat \ {0, 1} /\ k \in 1 .. 16
  BY <1>1, PrimesArePositive DEF SearchInv, IInv, TypeOK
<1>3. i \in 1 .. 16 /\ p \in Nat \ {0}
  BY <1>2, PrimesArePositive, PrimeFromInTable
<1>4. n' \in Nat \ {0}
  BY <1>1, <1>2, SomethingIsLeft
<1>5. ProductOf(nsquares') = ProductOf(nsquares) * p
  <2>1. nsquares \in Seq(Nat) /\ j \in 1 .. Len(nsquares)
    BY <1>1 DEF IInv, TypeOK, SquaresCover
  <2> HIDE DEF j, p
  <2> QED  BY <1>1, <1>3, <2>1, ProductMultiplied
<1>6. SmoothNumber(ProductOf(nsquares'))
  <2>1. SmoothNumber(ProductOf(nsquares) * Primes[i])
    <3> HIDE DEF i
    <3> QED  BY <1>3, SearchProducts, SmoothTimes DEF SearchInv
  <2> QED  BY <1>5, <2>1
<1>7. ASSUME Smooth
      PROVE  /\ n' * ProductOf(nsquares') = nodes
             /\ \A a \in k' + 1 .. 16 : ~Divides(Primes[a], n')
  <2>1. Divides(p, n) /\ \A a \in i + 1 .. 16 : ~Divides(Primes[a], n)
    BY <1>1, <1>7, PrimeDividesRest
  <2> DEFINE P == ProductOf(nsquares)
  <2>2. n * P = nodes /\ P \in Nat
    BY <1>7, SearchProducts DEF SearchInv
  <2> HIDE DEF i, p, j, P
  <2>3. n % p = 0
    BY <1>2, <1>3, <2>1, DividesIsMod
  <2>4. (n \div p) * (P * p) = n * P
    BY <1>2, <1>3, <2>2, <2>3, ProductKept
  <2>5. n' * ProductOf(nsquares') = nodes
    BY <1>1, <1>5, <2>2, <2>4 DEF P
  <2>6. Divides(n', n)
    <3>1. n = p * (n \div p) + (n % p)
      BY <1>2, <1>3
    <3> DEFINE x == n \div p
    <3>2. n = p * x /\ x \in Nat
      BY <1>1, <1>3, <1>4, <2>3, <3>1
    <3> HIDE DEF x
    <3>3. n = x * p
      BY <1>3, <3>2
    <3> QED  BY <1>1, <1>3, <3>3 DEF Divides, x
  <2>7. ASSUME NEW a \in k' + 1 .. 16 PROVE ~Divides(Primes[a], n')
    <3>1. a \in i + 1 .. 16 /\ a \in 1 .. 16
      BY <1>1, <1>3
    <3>2. Primes[a] \in Nat
      BY <3>1, PrimesArePositive
    <3> QED  BY <1>2, <1>4, <2>1, <2>6, <3>1, <3>2, DividesThrough
  <2> QED  BY <2>5, <2>7
<1>8. Smooth' <=> Smooth
  BY <1>1 DEF Smooth
<1>9. FoundWhenPossible'
  BY <1>1 DEF FoundWhenPossible
<1> QED  BY <1>4, <1>6, <1>7, <1>8, <1>9, <1>1 DEF SearchInv

LEMMA FailSearch ==
  ASSUME IInv, SearchInv, Fail
  PROVE  SearchInv'
<1>1. /\ n > 1 /\ result' = "error" /\ UNCHANGED <<dims, nodes, n, k, squaresize, nsquares>>
      /\ GivesUp(AxisToDivide(Primes[PrimeFrom(n, k)], squaresize, nsquares))
  BY DEF Fail
<1>2. ASSUME Smooth, Possible PROVE FALSE
  <2> DEFINE i == PrimeFrom(n, k)
             p == Primes[i]
             P == ProductOf(nsquares)
             Q == ProductOf(squaresize)
  <2>1. i \in 1 .. 16 /\ Divides(p, n) /\ p \in Nat \ {0}
    BY <1>1, <1>2, PrimeDividesRest, PrimesArePositive
  <2>2. /\ nodes \in Nat \ {0} /\ P \in Nat \ {0} /\ Q \in Nat
        /\ ProductOf(dims) = Q * P /\ n * P = nodes /\ n \in Nat \ {0}
    BY <1>2, SearchProducts DEF SearchInv
  <2>3. squaresize \in Seq(Nat)
    BY DEF IInv, TypeOK
  <2>4. Divides(nodes, ProductOf(dims))
    <3>1. ProductOf(dims) \in Nat
      BY <2>2
    <3> QED  BY <1>2, <2>2, <3>1, DividesIsMod DEF Possible
  <2> HIDE DEF i, P, Q
  <2>5. PICK t \in Nat : Q * P = nodes * t
    BY <2>2, <2>4 DEF Divides
  <2>6. Q = n * t
    <3>1. nodes * t = (n * t) * P
      <4>1. (n * P) * t = (n * t) * P
        BY <2>2
      <4> QED  BY <2>2, <4>1
    <3>2. n * t \in Nat
      BY <2>2
    <3> DEFINE x == n * t
    <3>3. Q * P = x * P /\ x \in Nat
      BY <2>5, <3>1, <3>2
    <3> HIDE DEF x
    <3>4. Q = x
      BY <2>2, <3>3, Cancel
    <3> QED  BY <3>4 DEF x
  <2>7. Divides(p, Q)
    BY <2>1, <2>2, <2>6, DividesTimes
  <2>8. PICK j \in 1 .. Len(squaresize) : Divides(Primes[i], squaresize[j])
    BY <2>1, <2>3, <2>7, PrimeOfProduct DEF Q
  <2>9. squaresize[j] % p # 0
    <3>1. GivesUp(AxisToDivide(p, squaresize, nsquares))
      BY <1>1 DEF i
    <3> HIDE DEF p
    <3> QED  BY <2>1, <2>3, <3>1, GivesUpRightly
  <2>10. squaresize[j] \in Nat
    BY <2>3
  <2> QED  BY <2>1, <2>8, <2>9, <2>10, DividesIsMod
<1>3. FoundWhenPossible'
  <2>1. ~(Smooth' /\ Possible')
    BY <1>1, <1>2 DEF Smooth, Possible
  <2> QED  BY <1>1, <2>1 DEF FoundWhenPossible
<1> QED  BY <1>1, <1>3 DEF SearchInv, Smooth

LEMMA DeclareSearch ==
  ASSUME IInv, SearchInv, DeclareLayout
  PROVE  SearchInv'
<1> DEFINE P == ProductOf(nsquares)
           Q == ProductOf(squaresize)
<1>1. /\ n = 1 /\ UNCHANGED <<dims, nodes, n, k, squaresize, nsquares>>
      /\ result' = IF Fits(nsquares, nodes) THEN "success" ELSE "invalid"
  BY DEF DeclareLayout, SearchInv
<1>2. nodes \in Nat \ {0} /\ P \in Nat \ {0} /\ Q \in Nat /\ ProductOf(dims) = Q * P
  BY SearchProducts
<1>3. /\ DOMAIN nsquares = DOMAIN dims /\ DOMAIN dims = 1 .. Len(dims)
      /\ \A i \in DOMAIN dims : /\ nsquares[i] \in Nat \ {0} /\ squaresize[i] \in Nat
                                /\ squaresize[i] * nsquares[i] = dims[i]
  BY LayoutAssumption DEF IInv, TypeOK, SquaresCover
<1>4. ASSUME Fits(nsquares, nodes)
      PROVE  Smooth /\ Possible /\ Divided(dims, nsquares)
  <2>1. nodes = P
    BY <1>4 DEF Fits
  <2>2. Smooth
    BY <1>2, <2>1, SmoothIsSmoothNumber DEF SearchInv
  <2>3. Possible
    <3>1. ProductOf(dims) = nodes * Q /\ ProductOf(dims) \in Nat
      <4> HIDE DEF P, Q
      <4> QED  BY <1>2, <2>1
    <3>2. Divides(nodes, ProductOf(dims))
      BY <1>2, <3>1 DEF Divides
    <3> QED  BY <1>2, <3>1, <3>2, DividesIsMod DEF Possible
  <2>4. ASSUME NEW i \in DOMAIN dims PROVE dims[i] % nsquares[i] = 0
    <3> DEFINE x == nsquares[i]
               y == squaresize[i]
    <3>1. x \in Nat \ {0} /\ y \in Nat /\ dims[i] = y * x
      BY <1>3
    <3> HIDE DEF x, y
    <3>2. dims[i] = x * y /\ dims[i] \in Nat
      BY <3>1
    <3>3. dims[i] % x = 0
      BY <3>1, <3>2, DividesIsMod DEF Divides
    <3> QED  BY <3>3 DEF x
  <2> QED  BY <2>2, <2>3, <2>4 DEF Divided
<1>5. ASSUME Smooth PROVE Fits(nsquares, nodes)
  <2>1. P = nodes
    BY <1>1, <1>2, <1>5 DEF SearchInv
  <2> QED  BY <1>3, <2>1 DEF Fits
<1>6. FoundWhenPossible'
  <2>1. (Smooth' <=> Smooth) /\ (Possible' <=> Possible)
        /\ (Divided(dims, nsquares)' <=> Divided(dims, nsquares))
    BY <1>1 DEF Smooth, Possible, Divided
  <2> QED  BY <1>1, <1>4, <1>5, <2>1 DEF FoundWhenPossible
<1> QED  BY <1>1, <1>6 DEF SearchInv, Smooth

LEMMA NextSearch == IInv /\ SearchInv /\ [Next]_vars => SearchInv'
<1> SUFFICES ASSUME IInv, SearchInv, [Next]_vars PROVE SearchInv'
  OBVIOUS
<1>1. CASE Divide
  BY <1>1, DivideSearch
<1>2. CASE Fail
  BY <1>2, FailSearch
<1>3. CASE DeclareLayout
  BY <1>3, DeclareSearch
<1>4. CASE UNCHANGED vars
  BY <1>4 DEF vars, SearchInv, Smooth, Possible, FoundWhenPossible, Divided
<1> QED  BY <1>1, <1>2, <1>3, <1>4 DEF Next

\* Whatever the lattice and the machine, the search finds a layout on all nodes when
\* their number has no prime factor above 53 and divides the number of sites, and
\* succeeds only then (QMP_grid.c:69-102).
THEOREM LayoutFound == Spec => []FoundWhenPossible
<1>1. Init => IInv /\ SearchInv
  BY InitIInv, InitSearch
<1>2. (IInv /\ SearchInv) /\ [Next]_vars => (IInv /\ SearchInv)'
  BY NextIInv, NextSearch
<1>3. IInv /\ SearchInv => FoundWhenPossible
  BY DEF SearchInv
<1> QED  BY <1>1, <1>2, <1>3, PTL DEF Spec
=============================================================================
