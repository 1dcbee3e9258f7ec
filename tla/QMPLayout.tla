----------------------------- MODULE QMPLayout ------------------------------
(***************************************************************************)
(* The search of QMP_layout_grid for a layout of a lattice on the nodes of  *)
(* a machine without a declared topology (QMP_grid.c 40-109), one turn of   *)
(* the while loop at a time, and the topology that it then declares         *)
(* (QMP_topology.c 10-77).                                                  *)
(***************************************************************************)
EXTENDS QMPTopology

CONSTANTS
  Lattices,   \* the lengths of the lattices a program lays out
  Machines    \* numbers of nodes

ASSUME LayoutAssumption ==
  /\ Lattices \subseteq Seq(Nat \ {0})
  /\ Machines \subseteq Nat \ {0}

VARIABLES
  dims,       \* the argument of QMP_layout_grid
  nodes,      \* QMP_get_number_of_nodes
  n,          \* the nodes that are left to spread
  k,          \* the prime that the search has come down to
  squaresize,
  nsquares,
  result      \* "searching", or how QMP_layout_grid ended

vars == <<dims, nodes, n, k, squaresize, nsquares, result>>

\* Every axis is one square.
OneSquare(d) == [i \in 1 .. Len(d) |-> 1]

Init ==
  /\ dims \in Lattices /\ nodes \in Machines
  /\ n = nodes /\ k = Len(Primes)
  /\ squaresize = dims /\ nsquares = OneSquare(dims)
  /\ result = "searching"

\* One turn of the loop.
Divide ==
  /\ result = "searching" /\ n > 1
  /\ LET i == PrimeFrom(n, k)
         p == Primes[i]
         j == AxisToDivide(p, squaresize, nsquares)
     IN /\ j \in DOMAIN dims
        /\ n' = n \div p
        /\ k' = i
        /\ squaresize' = [squaresize EXCEPT ![j] = @ \div p]
        /\ nsquares' = [nsquares EXCEPT ![j] = @ * p]
  /\ UNCHANGED <<dims, nodes, result>>

Fail ==
  /\ result = "searching" /\ n > 1
  /\ GivesUp(AxisToDivide(Primes[PrimeFrom(n, k)], squaresize, nsquares))
  /\ result' = "error"
  /\ UNCHANGED <<dims, nodes, n, k, squaresize, nsquares>>

\* After the loop: the topology is declared, if its lengths fit the machine.
DeclareLayout ==
  /\ result = "searching" /\ n <= 1
  /\ result' = IF Fits(nsquares, nodes) THEN "success" ELSE "invalid"
  /\ UNCHANGED <<dims, nodes, n, k, squaresize, nsquares>>

Next == Divide \/ Fail \/ DeclareLayout

Spec == Init /\ [][Next]_vars
\* The search is a loop that runs.
FairSpec == Spec /\ WF_vars(Next)

-----------------------------------------------------------------------------
(* Properties.                                                             *)

\* The state of the search.
TypeOK ==
  /\ dims \in Lattices /\ nodes \in Machines
  /\ n \in Nat /\ n <= nodes /\ k \in 1 .. Len(Primes)
  /\ squaresize \in Seq(Nat) /\ nsquares \in Seq(Nat \ {0})
  /\ result \in {"searching", "error", "success", "invalid"}

\* The squares cover the lattice at every turn, without remainder: what a node gets
\* on an axis times the nodes on that axis is its length (QMP_grid.c:100-102).
SquaresCover ==
  /\ DOMAIN squaresize = DOMAIN dims /\ DOMAIN nsquares = DOMAIN dims
  /\ \A i \in DOMAIN dims : squaresize[i] * nsquares[i] = dims[i]

\* The prime factors of the nodes are in the table, and the nodes divide the sites.
Smooth == \A q \in 2 .. nodes :
            nodes % q = 0 => \E i \in DOMAIN Primes : q % Primes[i] = 0
Possible == ProductOf(dims) % nodes = 0

\* The search gives up only where there is no layout that uses all nodes: the number
\* of sites is not a multiple of theirs; and what it finds uses all nodes, unless
\* their number has a prime factor above 53 (QMP_grid.c:22, 69-102).
FoundWhenPossible ==
  /\ result = "error" => ~(Smooth /\ Possible)
  /\ result = "invalid" => ~Smooth
  /\ result = "success" => Smooth /\ Possible /\ Divided(dims, nsquares)

\* Coordinates and node numbers of the layout that was declared
\* are inverse to each other under every map of its axes (QMP_topology_mpi.c:39-62).
Maps(d) == {NULL} \cup {p \in [1 .. Len(d) -> 0 .. Len(d) - 1] :
                          \A i, j \in 1 .. Len(d) : p[i] = p[j] => i = j}
Invertible(topo) ==
  \A r \in 0 .. ProductOf(topo.dims) - 1 :
    LET x == Coordinates(topo, r)
    IN NodeNumber(topo, x) = r /\ \A i \in DOMAIN x : x[i] \in 0 .. topo.dims[i] - 1
NumbersNodes ==
  result = "success" => \A p \in Maps(nsquares) : Invertible([dims |-> nsquares, map |-> p])

\* The search ends, whatever the number of nodes: a prime that divides nothing is
\* divided by all the same (QMP_grid.c:71-102).
SearchEnds == <>(result # "searching")
=============================================================================
