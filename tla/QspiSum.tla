------------------------------ MODULE QspiSum -------------------------------
(***************************************************************************)
(* The sum over all ranks of a Blue Gene/Q job (lib/bgspi/qspi.c): the      *)
(* ranks of a node add up in a shared-memory object, rank 0 of each node    *)
(* joins the sum of the nodes in the messaging unit, and the result goes    *)
(* back through the shared memory.  Around it, the token that qspi_init     *)
(* and qspi_finalize pass between the ranks of a node in the same object.   *)
(*                                                                         *)
(* A job initialises, adds Rounds times and finalises.  It can be cut off   *)
(* anywhere; the object, unless some rank has unlinked its name, then       *)
(* stays behind with its contents and the next job on the node opens it.    *)
(*                                                                         *)
(* The ranks meet in the QMP_barrier that ends QMP_init_msg_passing.  A     *)
(* plain read of the shared object is a fresh read of memory, and a store   *)
(* after _bgq_msync is seen after the stores before it.                     *)
(***************************************************************************)
EXTENDS Integers, FiniteSets

CONSTANTS
  Node,            \* the nodes
  N,               \* cmode: the ranks of a node
  MinInt, MaxInt,  \* the range of the int done[0], which wraps
  None,
  Rounds,          \* the sums a job computes
  Jobs             \* bound on the jobs, one after the other

Tcoord == 0 .. N - 1
Others == 1 .. N - 1             \* the ranks of a node but its rank 0
Rank   == Node \X Tcoord
Root(n) == <<n, 0>>

\* Numbers are the contributions that they are the sum of, as in AllReduce.
Label  == Nat \X Rank \X Nat
Amount == [of : SUBSET Label, twice : SUBSET Label]
Number == Amount \cup {None}

ASSUME SumAssumption ==
  /\ N \in Nat \ {0}
  /\ MinInt \in Int /\ MaxInt \in Nat /\ MinInt <= 0 /\ 1 <= MaxInt
  /\ Rounds \in Nat /\ Jobs \in Nat
  /\ None \notin Amount

VARIABLES
  job,      \* the jobs so far
  pc,       \* where each rank is
  given,    \* given[p]: the sums p has begun in this job
  x,        \* x[p]: the double that p passed, and its result
  dnum,     \* the local dnum of a rank that is not 0
  nleft,    \* nleft[n]: the local nleft of rank 0 of node n
  cur,      \* cur[n]: the local i of rank 0 of node n
  linked,   \* linked[n]: the name of the shared object exists
  count, ranksonnode,  \* shmptr->count and shmptr->ranksonnode of each node
  done, sum,           \* shmptr->done and shmptr->sum of each node
  inj,      \* inj[n]: the number in node n's injected descriptor
  crcount,  \* collCR->count of rank 0 of each node
  recv,     \* collCR->recv of rank 0 of each node
  result,   \* the sum the messaging unit is delivering
  pending,  \* the nodes it has not reached yet
  usable    \* the job found no object, or only objects nobody had used

rankVars == <<pc, given, x, dnum, nleft, cur>>
shmVars  == <<linked, count, ranksonnode, done, sum>>
collVars == <<inj, crcount, recv, result, pending>>
vars     == <<job, rankVars, shmVars, collVars, usable>>

Own(p, k) == [of |-> {<<job, p, k>>}, twice |-> {}]
Add(a, b) == [of |-> a.of \cup b.of,
              twice |-> a.twice \cup b.twice \cup (a.of \cap b.of)]
Total(P, k) == [of |-> {<<job, p, k>> : p \in P}, twice |-> {}]

(* Mutants.                                                                *)
\* The flag of a rank that was added is not cleared.
MutantNotCleared(n) == done
\* A rank goes ahead as soon as those before it are through.
MutantBefore(n, t) == ranksonnode[n] >= t
\* done[0] stays at its highest value.
MutantSaturated(d) == IF d = MaxInt THEN d ELSE d + 1
\* done[0] is not an int.
MutantUnbounded(d) == d + 1
\* Rank 0 waits for itself.
MutantAllRanks(n) == ranksonnode[n]

Increment(d) == IF d = MaxInt THEN MinInt ELSE d + 1

Begun     == {"token", "alloc"}
Locals    == {"read", "put", "flag", "await", "take"}
Gathering == {"poll", "add", "clear"}
Roots     == Gathering \cup {"inject", "coll", "bcast", "release"}
Summing   == Locals \cup Roots \cup {"gather"}
Leaving   == {"leave", "free", "unlink", "ended"}

-----------------------------------------------------------------------------
(* Starting and ending a job.                                              *)

\* What a new job finds in the objects whose names are still there.
Stale(n) == linked[n] /\ (ranksonnode[n] # 0 \/ count[n] # 0)

Init ==
  /\ job = 1 /\ usable = TRUE
  /\ pc = [p \in Rank |-> "start"]
  /\ given = [p \in Rank |-> 0] /\ x = [p \in Rank |-> None]
  /\ dnum = [p \in Rank |-> 0]
  /\ nleft = [n \in Node |-> 0] /\ cur = [n \in Node |-> 0]
  /\ linked = [n \in Node |-> FALSE]
  /\ count = [n \in Node |-> 0] /\ ranksonnode = [n \in Node |-> 0]
  /\ done = [n \in Node |-> [t \in Tcoord |-> 0]]
  /\ sum = [n \in Node |-> [t \in Tcoord |-> None]]
  /\ inj = [n \in Node |-> None] /\ recv = [n \in Node |-> None]
  /\ crcount = [n \in Node |-> 0]
  /\ result = None /\ pending = {}

\* The job is over, in whatever state its ranks are, and another is started.
NewJob ==
  /\ job < Jobs
  /\ job' = job + 1
  /\ usable' = ~\E n \in Node : Stale(n)
  /\ pc' = [p \in Rank |-> "start"]
  /\ given' = [p \in Rank |-> 0] /\ x' = [p \in Rank |-> None]
  /\ dnum' = [p \in Rank |-> 0]
  /\ nleft' = [n \in Node |-> 0] /\ cur' = [n \in Node |-> 0]
  /\ inj' = [n \in Node |-> None] /\ recv' = [n \in Node |-> None]
  /\ crcount' = [n \in Node |-> 0]
  /\ result' = None /\ pending' = {}
  /\ UNCHANGED shmVars

Goto(p, l) == pc' = [pc EXCEPT ![p] = l]

\* shmopen: shm_open creates the object when the name does not exist, and
\* ftruncate fills only a new one with zeros.
Open(n, t) ==
  /\ pc[<<n, t>>] = "start"
  /\ Goto(<<n, t>>, "token")
  /\ linked' = [linked EXCEPT ![n] = TRUE]
  /\ IF linked[n] THEN UNCHANGED <<count, ranksonnode, done, sum>>
     ELSE /\ count' = [count EXCEPT ![n] = 0]
          /\ ranksonnode' = [ranksonnode EXCEPT ![n] = 0]
          /\ done' = [done EXCEPT ![n] = [u \in Tcoord |-> 0]]
          /\ sum' = [sum EXCEPT ![n] = [u \in Tcoord |-> None]]
  /\ UNCHANGED <<job, given, x, dnum, nleft, cur, collVars, usable>>

MayAllocate(n, t) == ranksonnode[n] = t

\* The spin on ranksonnode.
TakeToken(n, t) ==
  /\ pc[<<n, t>>] = "token" /\ MayAllocate(n, t)
  /\ Goto(<<n, t>>, "alloc")
  /\ UNCHANGED <<job, given, x, dnum, nleft, cur, shmVars, collVars, usable>>

\* The FIFOs and the base address table are allocated: shm[0]++.
PassToken(n, t) ==
  /\ pc[<<n, t>>] = "alloc"
  /\ Goto(<<n, t>>, "up")
  /\ ranksonnode' = [ranksonnode EXCEPT ![n] = @ + 1]
  /\ UNCHANGED <<job, given, x, dnum, nleft, cur, linked, count, done, sum,
                 collVars, usable>>

\* The rest of QMP_init_msg_passing, which ends in QMP_barrier.
Enter(n, t) ==
  /\ pc[<<n, t>>] = "up"
  /\ \A q \in Rank : pc[q] \notin Begun \cup {"start"}
  /\ Goto(<<n, t>>, "idle")
  /\ UNCHANGED <<job, given, x, dnum, nleft, cur, shmVars, collVars, usable>>

\* The program is through with its sums: qspi_finalize.
Leave(n, t) ==
  /\ pc[<<n, t>>] = "idle" /\ given[<<n, t>>] = Rounds
  /\ Goto(<<n, t>>, "leave")
  /\ UNCHANGED <<job, given, x, dnum, nleft, cur, shmVars, collVars, usable>>

\* The spin on count.
TakeExit(n, t) ==
  /\ pc[<<n, t>>] = "leave" /\ count[n] = t
  /\ Goto(<<n, t>>, "free")
  /\ UNCHANGED <<job, given, x, dnum, nleft, cur, shmVars, collVars, usable>>

PassExit(n, t) ==
  /\ pc[<<n, t>>] = "free"
  /\ Goto(<<n, t>>, "unlink")
  /\ count' = [count EXCEPT ![n] = @ + 1]
  /\ UNCHANGED <<job, given, x, dnum, nleft, cur, linked, ranksonnode, done,
                 sum, collVars, usable>>

\* shmfree: the ranks that are still mapped keep the object, the name is gone.
Unlink(n, t) ==
  /\ pc[<<n, t>>] = "unlink"
  /\ Goto(<<n, t>>, "ended")
  /\ linked' = [linked EXCEPT ![n] = FALSE]
  /\ UNCHANGED <<job, given, x, dnum, nleft, cur, count, ranksonnode, done,
                 sum, collVars, usable>>

-----------------------------------------------------------------------------
(* qspi_sum_double.                                                        *)

\* The program calls it with its next number.
Call(n, t) ==
  LET p == <<n, t>> IN
  /\ pc[p] = "idle" /\ given[p] < Rounds
  /\ given' = [given EXCEPT ![p] = @ + 1]
  /\ x' = [x EXCEPT ![p] = Own(p, given[p] + 1)]
  /\ Goto(p, IF t # 0 THEN "read" ELSE IF N > 1 THEN "gather" ELSE "inject")
  /\ UNCHANGED <<job, dnum, nleft, cur, shmVars, collVars, usable>>

\* dnum = shmptr->done[0] + 1;
ReadDone(n, t) ==
  /\ pc[<<n, t>>] = "read"
  /\ dnum' = [dnum EXCEPT ![<<n, t>>] = Increment(done[n][0])]
  /\ Goto(<<n, t>>, "put")
  /\ UNCHANGED <<job, given, x, nleft, cur, shmVars, collVars, usable>>

\* shmptr->sum[tcoord] = *x;
Put(n, t) ==
  /\ pc[<<n, t>>] = "put"
  /\ sum' = [sum EXCEPT ![n][t] = x[<<n, t>>]]
  /\ Goto(<<n, t>>, "flag")
  /\ UNCHANGED <<job, given, x, dnum, nleft, cur, linked, count, ranksonnode,
                 done, collVars, usable>>

\* shmptr->done[tcoord] = 1;
Flag(n, t) ==
  /\ pc[<<n, t>>] = "flag"
  /\ done' = [done EXCEPT ![n][t] = 1]
  /\ Goto(<<n, t>>, "await")
  /\ UNCHANGED <<job, given, x, dnum, nleft, cur, linked, count, ranksonnode,
                 sum, collVars, usable>>

\* nranks - 1
RanksLeft(n) == ranksonnode[n] - 1

\* Rank 0: nranks = shmptr->ranksonnode; nleft = nranks - 1; while(nleft) ...
Gather(n) ==
  /\ pc[Root(n)] = "gather"
  /\ nleft' = [nleft EXCEPT ![n] = RanksLeft(n)]
  /\ Goto(Root(n), IF RanksLeft(n) = 0 THEN "inject" ELSE "poll")
  /\ UNCHANGED <<job, given, x, dnum, cur, shmVars, collVars, usable>>

\* The loop over i has come to a rank that is done.
Poll(n) ==
  /\ pc[Root(n)] = "poll"
  /\ \E i \in Others :
       /\ i < ranksonnode[n] /\ done[n][i] # 0
       /\ cur' = [cur EXCEPT ![n] = i]
  /\ Goto(Root(n), "add")
  /\ UNCHANGED <<job, given, x, dnum, nleft, shmVars, collVars, usable>>

\* sum += shmptr->sum[i];
AddIn(n) ==
  /\ pc[Root(n)] = "add"
  /\ x' = [x EXCEPT ![Root(n)] = Add(@, sum[n][cur[n]])]
  /\ Goto(Root(n), "clear")
  /\ UNCHANGED <<job, given, dnum, nleft, cur, shmVars, collVars, usable>>

Cleared(n) == [done EXCEPT ![n][cur[n]] = 0]

\* shmptr->done[i] = 0; nleft--;
Clear(n) ==
  /\ pc[Root(n)] = "clear"
  /\ done' = Cleared(n)
  /\ nleft' = [nleft EXCEPT ![n] = @ - 1]
  /\ Goto(Root(n), IF nleft[n] = 1 THEN "inject" ELSE "poll")
  /\ UNCHANGED <<job, given, x, dnum, cur, linked, count, ranksonnode, sum,
                 collVars, usable>>

\* setup_collective sets the counter, then the descriptor is injected.
Inject(n) ==
  /\ pc[Root(n)] = "inject"
  /\ crcount' = [crcount EXCEPT ![n] = 1]
  /\ inj' = [inj EXCEPT ![n] = x[Root(n)]]
  /\ Goto(Root(n), "coll")
  /\ UNCHANGED <<job, given, x, dnum, nleft, cur, shmVars, recv, result,
                 pending, usable>>

\* The sum of the numbers in the descriptors of all nodes.
NodeSum ==
  [of    |-> UNION {inj[n].of : n \in Node},
   twice |-> UNION {inj[n].twice : n \in Node}
             \cup UNION {inj[nn[1]].of \cap inj[nn[2]].of :
                           nn \in {mm \in Node \X Node : mm[1] # mm[2]}}]

\* The messaging unit has all the descriptors.
Combine ==
  /\ \A n \in Node : inj[n] # None
  /\ result' = NodeSum
  /\ pending' = Node
  /\ inj' = [n \in Node |-> None]
  /\ UNCHANGED <<job, rankVars, shmVars, crcount, recv, usable>>

\* It stores the result on a node and counts its bytes off.
Deliver(n) ==
  /\ n \in pending
  /\ pending' = pending \ {n}
  /\ recv' = [recv EXCEPT ![n] = result]
  /\ crcount' = [crcount EXCEPT ![n] = 0]
  /\ UNCHANGED <<job, rankVars, shmVars, inj, result, usable>>

\* while(collCR->count!=0); *x = ((double*)collCR->recv)[0];
AwaitColl(n) ==
  /\ pc[Root(n)] = "coll" /\ crcount[n] = 0
  /\ x' = [x EXCEPT ![Root(n)] = recv[n]]
  /\ Goto(Root(n), IF N > 1 THEN "bcast" ELSE "idle")
  /\ UNCHANGED <<job, given, dnum, nleft, cur, shmVars, collVars, usable>>

\* shmptr->sum[0] = *x;
Bcast(n) ==
  /\ pc[Root(n)] = "bcast"
  /\ sum' = [sum EXCEPT ![n][0] = x[Root(n)]]
  /\ Goto(Root(n), "release")
  /\ UNCHANGED <<job, given, x, dnum, nleft, cur, linked, count, ranksonnode,
                 done, collVars, usable>>

\* shmptr->done[0]++;
Release(n) ==
  /\ pc[Root(n)] = "release"
  /\ done' = [done EXCEPT ![n][0] = Increment(@)]
  /\ Goto(Root(n), "idle")
  /\ UNCHANGED <<job, given, x, dnum, nleft, cur, linked, count, ranksonnode,
                 sum, collVars, usable>>

\* while(((volatile int *)(shmptr->done))[0]!=dnum);
Await(n, t) ==
  /\ pc[<<n, t>>] = "await" /\ done[n][0] = dnum[<<n, t>>]
  /\ Goto(<<n, t>>, "take")
  /\ UNCHANGED <<job, given, x, dnum, nleft, cur, shmVars, collVars, usable>>

\* *x = ((volatile double *)(shmptr->sum))[0];
Take(n, t) ==
  /\ pc[<<n, t>>] = "take"
  /\ x' = [x EXCEPT ![<<n, t>>] = sum[n][0]]
  /\ Goto(<<n, t>>, "idle")
  /\ UNCHANGED <<job, given, dnum, nleft, cur, shmVars, collVars, usable>>

-----------------------------------------------------------------------------
Life(n, t) ==
  \/ Open(n, t) \/ TakeToken(n, t) \/ PassToken(n, t) \/ Enter(n, t)
  \/ Leave(n, t) \/ TakeExit(n, t) \/ PassExit(n, t) \/ Unlink(n, t)
Local(n, t) ==
  \/ Call(n, t) \/ ReadDone(n, t) \/ Put(n, t) \/ Flag(n, t)
  \/ Await(n, t) \/ Take(n, t)
RootStep(n) ==
  \/ Gather(n) \/ Poll(n) \/ AddIn(n) \/ Clear(n)
  \/ Inject(n) \/ AwaitColl(n) \/ Bcast(n) \/ Release(n)

Next ==
  \/ NewJob \/ Combine
  \/ \E n \in Node : Deliver(n) \/ RootStep(n)
  \/ \E n \in Node, t \in Tcoord : Life(n, t) \/ Local(n, t)

Spec == Init /\ [][Next]_vars

\* Every rank is a running process and the messaging unit works.
FairSpec ==
  /\ Spec
  /\ WF_vars(Combine)
  /\ \A n \in Node : WF_vars(Deliver(n)) /\ WF_vars(RootStep(n))
  /\ \A n \in Node, t \in Tcoord : WF_vars(Life(n, t) \/ Local(n, t))

-----------------------------------------------------------------------------
\* Every variable has its shape.
TypeOK ==
  /\ job \in Nat \ {0} /\ usable \in BOOLEAN
  /\ pc \in [Rank -> {"start", "up", "idle"} \cup Begun \cup Summing \cup Leaving]
  /\ given \in [Rank -> 0 .. Rounds] /\ x \in [Rank -> Number]
  /\ dnum \in [Rank -> MinInt .. MaxInt]
  /\ nleft \in [Node -> Int] /\ cur \in [Node -> Tcoord]
  /\ linked \in [Node -> BOOLEAN]
  /\ count \in [Node -> Int] /\ ranksonnode \in [Node -> 0 .. N]
  /\ done \in [Node -> [Tcoord -> MinInt .. MaxInt]]
  /\ sum \in [Node -> [Tcoord -> Number]]
  /\ inj \in [Node -> Number] /\ recv \in [Node -> Number]
  /\ crcount \in [Node -> {0, 1}] /\ result \in Number /\ pending \subseteq Node

\* A rank that is back from its k-th sum has the numbers all ranks of this job
\* passed to their k-th sum, each once, also after a job that was cut off
\* (qspi.c:543-609).
SumIsExact ==
  \A p \in Rank :
    pc[p] \in {"idle"} \cup Leaving /\ given[p] > 0
      => x[p] = Total(Rank, given[p])

\* The allocations of qspi_init and the frees of qspi_finalize are done by one
\* rank of a node at a time, whatever the object held (qspi.c:143-187, 201-223).
OneAtATime ==
  \A n \in Node, t, u \in Tcoord :
    t # u => ~(pc[<<n, t>>] \in {"alloc", "free"} /\ pc[<<n, u>>] \in {"alloc", "free"})

\* A job that is not cut off hangs only on an object that an earlier job on the
\* node left behind used (qspi.c:48-55, 143): otherwise every rank ends.
OnlyStaleObjectsHang ==
  \A j \in 1 .. Jobs :
    (job = j /\ usable) ~> (job # j \/ \A p \in Rank : pc[p] = "ended")

-----------------------------------------------------------------------------
\* The detailed sum implements the abstract one: what a rank has got, and when.
Reduce == INSTANCE AllReduce WITH
  got <- [p \in Rank |-> IF pc[p] \in Summing THEN given[p] - 1 ELSE given[p]],
  res <- [p \in Rank |-> IF pc[p] \in Summing THEN None ELSE x[p]]

ReduceSpec == Reduce!Spec

=============================================================================
