---------------------------- MODULE QMPTopology -----------------------------
(***************************************************************************)
(* Logical coordinates and node numbers (QMP_topology.c, mpi/QMP_topology_  *)
(* mpi.c) and the search for a layout in QMP_layout_grid (QMP_grid.c).      *)
(*                                                                         *)
(* An array of the code is a sequence, NULL the empty one.  A map of axes   *)
(* holds axes as the program gives them, counted from 0.                    *)
(***************************************************************************)
EXTENDS Integers, Sequences, FiniteSets

NULL == <<>>

ProductOf(s) ==
  LET f[i \in 0 .. Len(s)] == IF i = 0 THEN 1 ELSE f[i - 1] * s[i] IN f[Len(s)]

\* The axis that is i-th in the order of the map.
Axis(p, i) == IF p = NULL THEN i ELSE p[i] + 1

\* get_coord: n divided by the lengths in the order of the map.
GetCoord(n, l, p) ==
  LET rest[i \in 1 .. Len(l)] == IF i = 1 THEN n ELSE rest[i - 1] \div l[Axis(p, i - 1)]
      place(k) == CHOOSE i \in 1 .. Len(l) : Axis(p, i) = k
  IN [k \in 1 .. Len(l) |-> rest[place(k)] % l[k]]

\* get_rank: the last axis of the map counts most.
GetRank(x, l, p) ==
  LET from[i \in 1 .. Len(l) + 1] ==
        IF i > Len(l) THEN 0 ELSE from[i + 1] * l[Axis(p, i)] + x[Axis(p, i)]
  IN from[1]

\* lex_rank: the last axis counts most.
LexRank(x, l) == GetRank(x, l, NULL)

\* QMP_set_topo: the lengths fit the number of nodes.
Fits(dims, n) == (\A i \in DOMAIN dims : dims[i] >= 1) /\ ProductOf(dims) = n

Coordinates(topo, node) == GetCoord(node, topo.dims, topo.map)
\* Mutant: the map is forgotten.
MutantUnmapped(topo, x) == GetRank(x, topo.dims, NULL)

NodeNumber(topo, x)     == GetRank(x, topo.dims, topo.map)

\* The node one step along axis i, forwards or backwards.
Neighbour(topo, x, i, sign) ==
  NodeNumber(topo, [x EXCEPT ![i] = (@ + sign + topo.dims[i]) % topo.dims[i]])

-----------------------------------------------------------------------------
(* QMP_layout_grid: each prime factor of the number of nodes divides one    *)
(* axis of the lattice.                                                     *)

Primes == <<2, 3, 5, 7, 11, 13, 17, 19, 23, 29, 31, 37, 41, 43, 47, 53>>

\* Mutant: the smallest prime that divides n.
MutantSmallest(n, k) ==
  LET S == {i \in 1 .. k : n % Primes[i] = 0}
  IN IF S = {} THEN 1 ELSE CHOOSE i \in S : \A j \in S : i <= j

\* The prime to divide by: the largest from the k-th down that divides n, or 2.
PrimeFrom(n, k) ==
  LET S == {i \in 1 .. k : n % Primes[i] = 0}
  IN IF S = {} THEN 1 ELSE CHOOSE i \in S : \A j \in S : j <= i

\* Mutant: the longest axis, whether the prime divides it or not.
MutantLongest(p, size, nsq) == CHOOSE i \in DOMAIN size : \A j \in DOMAIN size : size[j] <= size[i]

\* The longest of the axes that the prime divides.
Longest(p, size) ==
  LET divisible == {i \in DOMAIN size : size[i] % p = 0}
  IN {i \in divisible : \A j \in divisible : size[j] <= size[i]}

\* What the loop over the axes ends with, 0 for none: of the longest axes the first
\* that has been divided already, or else the last.
AxisToDivide(p, size, nsq) ==
  LET longest == Longest(p, size)
      divided == {i \in longest : nsq[i] # 1}
  IN CASE longest = {} -> 0
       [] divided # {} -> CHOOSE i \in divided : \A j \in divided : i <= j
       [] longest # {} /\ divided = {} -> CHOOSE i \in longest : \A j \in longest : j <= i

\* Mutant: the search goes on without an axis.
MutantNever(j) == FALSE

\* No axis has the prime as a factor.
GivesUp(j) == j = 0

Divided(dims, nsq) == \A i \in DOMAIN dims : dims[i] % nsq[i] = 0
=============================================================================
