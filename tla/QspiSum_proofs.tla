--------------------------- MODULE QspiSum_proofs ---------------------------
(***************************************************************************)
(* Theorems about QspiSum: the sum is exact and implements AllReduce, for    *)
(* every number of nodes, of ranks of a node, of sums and of jobs.          *)
(***************************************************************************)
EXTENDS QspiSum, FiniteSetTheorems, TLAPS

-----------------------------------------------------------------------------
(* The inductive invariant.                                                *)

Starting  == {"start", "token", "alloc"}
Passed(p)  == pc[p] \notin Starting
Entered(p) == pc[p] \notin Starting /\ pc[p] # "up"

\* The token of qspi_init, and the barrier after it.
TokenInv ==
  /\ \A n \in Node, t \in Tcoord :
       /\ pc[<<n, t>>] = "alloc" => ranksonnode[n] = t
       /\ Passed(<<n, t>>) => ranksonnode[n] > t
       /\ pc[<<n, t>>] = "free" => count[n] = t
       /\ ~Entered(<<n, t>>) => given[<<n, t>>] = 0
       /\ given[<<n, t>>] = 0 => pc[<<n, t>>] \notin Summing
  /\ \A p, q \in Rank : Entered(p) => Passed(q)
  /\ \A n \in Node, t, u \in Tcoord :
       pc[<<n, t>>] = "start" /\ pc[<<n, u>>] # "start" => linked[n]

\* Nobody raises a flag in an object before all ranks have come.
CleanInv ==
  \A n \in Node : ranksonnode[n] < N => \A t \in Others : done[n][t] = 0

Got(p) == IF pc[p] \in Summing THEN given[p] - 1 ELSE given[p]

\* Rank t of node n has raised its flag for the sum its root is at.
Up(n, t)   == pc[<<n, t>>] = "await" /\ Got(<<n, t>>) = Got(Root(n))
\* The ranks that the root still has to add.
Todo(n)    == {t \in Others : ~(Up(n, t) /\ done[n][t] = 0)}
Own2(n, t) == Own(<<n, t>>, given[<<n, t>>])
NodeTotal(n, k) == Total({n} \X Tcoord, k)

\* A rank t of node n that is not rank 0.
OtherInv(n, t) ==
  /\ Passed(<<n, N - 1>>) /\ done[n][t] # 0 => Up(n, t)
  /\ pc[<<n, t>>] \in {"flag", "await", "take"} => sum[n][t] = Own2(n, t)
  /\ pc[<<n, t>>] \in {"read", "put"} => x[<<n, t>>] = Own2(n, t)
  /\ pc[<<n, t>>] \notin {"await", "take"} => Got(<<n, t>>) = Got(Root(n))
  /\ pc[<<n, t>>] = "take" => Got(Root(n)) = Got(<<n, t>>) + 1
  /\ pc[<<n, t>>] = "await" => Got(Root(n)) \in {Got(<<n, t>>), Got(<<n, t>>) + 1}
  /\ pc[<<n, t>>] \in {"put", "flag"} => dnum[<<n, t>>] = Increment(done[n][0])
  /\ Up(n, t) => dnum[<<n, t>>] = Increment(done[n][0])
  /\ pc[<<n, t>>] = "await" /\ ~Up(n, t) => dnum[<<n, t>>] = done[n][0]
  /\ Got(<<n, t>>) # Got(Root(n)) => sum[n][0] = Total(Rank, Got(Root(n)))
  /\ pc[Root(n)] \in {"inject", "coll", "bcast", "release"} => Up(n, t) /\ done[n][t] = 0
  /\ pc[Root(n)] \notin Roots /\ Up(n, t) => done[n][t] # 0
  /\ pc[<<n, t>>] \notin Roots \cup {"gather"}

\* What rank 0 of node n has added.
RootInv(n) ==
  /\ pc[Root(n)] \in Gathering => nleft[n] = Cardinality(Todo(n)) /\ Todo(n) # {}
  /\ pc[Root(n)] \in {"add", "clear"} => cur[n] \in Others /\ done[n][cur[n]] # 0
  /\ pc[Root(n)] = "gather" => x[Root(n)] = Own2(n, 0)
  /\ pc[Root(n)] \in {"poll", "add"} =>
       x[Root(n)] = Total({n} \X (Tcoord \ Todo(n)), given[Root(n)])
  /\ pc[Root(n)] = "clear" =>
       x[Root(n)] = Total({n} \X ((Tcoord \ Todo(n)) \cup {cur[n]}), given[Root(n)])
  /\ pc[Root(n)] = "inject" => x[Root(n)] = NodeTotal(n, given[Root(n)])
  /\ pc[Root(n)] \in {"bcast", "release"} => x[Root(n)] = Total(Rank, given[Root(n)])
  /\ pc[Root(n)] = "release" => sum[n][0] = Total(Rank, given[Root(n)])
  /\ pc[Root(n)] \notin Locals

\* The sums that rank 0 of node n has had combined with those of the others.
Adding == Gathering \cup {"gather", "inject"}
Joined(n) ==
  IF pc[Root(n)] \in Adding \/ inj[n] # None
  THEN given[Root(n)] - 1 ELSE given[Root(n)]

CollInv ==
  /\ \A n, m \in Node : Joined(n) = Joined(m)
  /\ \A n \in Node :
       /\ inj[n] # None => /\ pc[Root(n)] = "coll" /\ crcount[n] = 1
                           /\ inj[n] = NodeTotal(n, given[Root(n)])
       /\ n \in pending => /\ pc[Root(n)] = "coll" /\ crcount[n] = 1 /\ inj[n] = None
                           /\ result = Total(Rank, given[Root(n)])
       /\ pc[Root(n)] = "coll" /\ crcount[n] = 0 =>
            inj[n] = None /\ n \notin pending /\ recv[n] = Total(Rank, given[Root(n)])

LocalInv(n) == RootInv(n) /\ \A t \in Others : OtherInv(n, t)

IInv ==
  /\ TypeOK /\ TokenInv /\ CleanInv /\ CollInv /\ SumIsExact
  /\ \A n \in Node : LocalInv(n)

-----------------------------------------------------------------------------
(* Numbers, ranks and sums.                                                *)

\* The ranks of a node.
LEMMA RankFacts ==
  /\ N \in Nat \ {0} /\ 0 \in Tcoord /\ N - 1 \in Tcoord
  /\ \A t \in Others : t \in Tcoord /\ t # 0 /\ t \in Nat
  /\ \A t \in Tcoord : t \in Nat /\ (t = 0 \/ t \in Others)
  /\ \A n \in Node, t \in Tcoord : <<n, t>> \in Rank
  /\ \A n \in Node : Root(n) \in Rank /\ Root(n) = <<n, 0>>
  /\ \A p \in Rank : \E n \in Node, t \in Tcoord : p = <<n, t>>
BY SumAssumption DEF Tcoord, Others, Rank, Root

\* A counter that wraps still changes.
LEMMA IncrementFacts ==
  ASSUME NEW d \in MinInt .. MaxInt
  PROVE  Increment(d) \in MinInt .. MaxInt /\ Increment(d) # d
BY SumAssumption DEF Increment

\* What a rank gives and what is summed are numbers.
LEMMA NumberFacts ==
  ASSUME job \in Nat
  PROVE  /\ \A p \in Rank, k \in Nat : Own(p, k) \in Amount
         /\ \A P \in SUBSET Rank, k \in Nat : Total(P, k) \in Amount
         /\ \A a \in Amount : a \in Number /\ a # None
<1>1. ASSUME NEW p \in Rank, NEW k \in Nat PROVE Own(p, k) \in Amount
  BY DEF Own, Amount, Label
<1>2. ASSUME NEW P \in SUBSET Rank, NEW k \in Nat PROVE Total(P, k) \in Amount
  BY DEF Total, Amount, Label
<1> QED  BY <1>1, <1>2, SumAssumption DEF Number

\* Adding the number of a rank that has not been added.
LEMMA AddOwn ==
  ASSUME NEW P, NEW p, p \notin P, NEW k
  PROVE  Add(Total(P, k), Own(p, k)) = Total(P \cup {p}, k)
<1> DEFINE A == {<<job, q, k>> : q \in P}
           B == {<<job, q, k>> : q \in P \cup {p}}
<1>1. A \cup {<<job, p, k>>} = B
  OBVIOUS
<1>2. A \cap {<<job, p, k>>} = {}
  OBVIOUS
<1>3. Total(P, k) = [of |-> A, twice |-> {}] /\ Total(P \cup {p}, k) = [of |-> B, twice |-> {}]
  BY DEF Total
<1>4. Own(p, k) = [of |-> {<<job, p, k>>}, twice |-> {}]
  BY DEF Own
<1> HIDE DEF A, B
<1>5. Add(Total(P, k), Own(p, k)) =
        [of |-> A \cup {<<job, p, k>>}, twice |-> {} \cup {} \cup (A \cap {<<job, p, k>>})]
  BY <1>3, <1>4 DEF Add
<1> QED  BY <1>1, <1>2, <1>3, <1>5

\* A rank alone.
LEMMA TotalOfOne ==
  ASSUME NEW p, NEW k
  PROVE  Own(p, k) = Total({p}, k)
BY DEF Own, Total

\* What the messaging unit adds up when every node gives the sum of its ranks.
LEMMA NodeSumIsTotal ==
  ASSUME NEW k, \A n \in Node : inj[n] = NodeTotal(n, k)
  PROVE  NodeSum = Total(Rank, k)
<1> DEFINE L(n) == {<<job, p, k>> : p \in {n} \X Tcoord}
<1>1. \A n \in Node : inj[n].of = L(n) /\ inj[n].twice = {}
  <2>1. ASSUME NEW n \in Node PROVE NodeTotal(n, k) = [of |-> L(n), twice |-> {}]
    BY DEF NodeTotal, Total
  <2> HIDE DEF L
  <2> QED  BY <2>1
<1>2. UNION {inj[n].of : n \in Node} = {<<job, p, k>> : p \in Rank}
  <2>1. ASSUME NEW e \in UNION {inj[n].of : n \in Node}
        PROVE  e \in {<<job, p, k>> : p \in Rank}
    <3>1. PICK n \in Node : e \in L(n)
      BY <2>1, <1>1
    <3>2. PICK p \in {n} \X Tcoord : e = <<job, p, k>>
      BY <3>1
    <3> QED  BY <3>2 DEF Rank
  <2>2. ASSUME NEW e \in {<<job, p, k>> : p \in Rank}
        PROVE  e \in UNION {inj[n].of : n \in Node}
    <3>1. PICK p \in Rank : e = <<job, p, k>>
      OBVIOUS
    <3>2. PICK n \in Node, t \in Tcoord : p = <<n, t>>
      BY RankFacts
    <3>3. p \in {n} \X Tcoord
      BY <3>2
    <3>4. e \in L(n)
      BY <3>1, <3>3
    <3> QED  BY <3>4, <1>1
  <2> QED  BY <2>1, <2>2
<1>3. UNION {inj[n].twice : n \in Node} = {}
  BY <1>1
<1>4. \A n, m \in Node : n # m => inj[n].of \cap inj[m].of = {}
  <2> SUFFICES ASSUME NEW n \in Node, NEW m \in Node, n # m,
                      NEW e, e \in L(n), e \in L(m)
               PROVE  FALSE
    BY <1>1
  <2>1. PICK p \in {n} \X Tcoord : e = <<job, p, k>>
    OBVIOUS
  <2>2. PICK q \in {m} \X Tcoord : e = <<job, q, k>>
    OBVIOUS
  <2>3. p = q
    BY <2>1, <2>2
  <2> QED  BY <2>3
<1>5. UNION {inj[nn[1]].of \cap inj[nn[2]].of :
               nn \in {mm \in Node \X Node : mm[1] # mm[2]}} = {}
  BY <1>4
<1> QED  BY <1>2, <1>3, <1>5 DEF NodeSum, Total

-----------------------------------------------------------------------------
(* What does not change.                                                   *)

SameRank(p) == /\ pc'[p] = pc[p] /\ given'[p] = given[p]
               /\ x'[p] = x[p] /\ dnum'[p] = dnum[p]
SameNode(n) == /\ \A t \in Tcoord : SameRank(<<n, t>>)
               /\ nleft'[n] = nleft[n] /\ cur'[n] = cur[n]
               /\ done'[n] = done[n] /\ sum'[n] = sum[n]

\* A step that leaves a node alone leaves its part of the invariant alone.
LEMMA NodeFrame ==
  ASSUME NEW n \in Node, job' = job, SameNode(n), LocalInv(n)
  PROVE  LocalInv(n)'
<1> USE RankFacts
<1>1. \A t \in Tcoord : SameRank(<<n, t>>) /\ Got(<<n, t>>)' = Got(<<n, t>>)
  BY DEF SameNode, SameRank, Got
<1>2. SameRank(Root(n)) /\ Got(Root(n))' = Got(Root(n))
  BY <1>1
<1>3. \A t \in Others : Up(n, t)' = Up(n, t)
  BY <1>1, <1>2 DEF Up, SameRank
<1>4. Todo(n)' = Todo(n)
  BY <1>3 DEF Todo, SameNode
<1>5. \A k : Total(Rank, k)' = Total(Rank, k)
  BY DEF Total
<1>6. \A t \in Tcoord : Own2(n, t)' = Own2(n, t)
  BY <1>1 DEF Own2, Own, SameRank
<1>7. RootInv(n)'
  <2>1. /\ Own2(n, 0)' = Own2(n, 0)
        /\ Total({n} \X (Tcoord \ Todo(n)), given[Root(n)])'
             = Total({n} \X (Tcoord \ Todo(n)), given[Root(n)])
        /\ Total({n} \X ((Tcoord \ Todo(n)) \cup {cur[n]}), given[Root(n)])'
             = Total({n} \X ((Tcoord \ Todo(n)) \cup {cur[n]}), given[Root(n)])
        /\ NodeTotal(n, given[Root(n)])' = NodeTotal(n, given[Root(n)])
        /\ Total(Rank, given[Root(n)])' = Total(Rank, given[Root(n)])
    BY <1>2, <1>4, <1>6 DEF Total, NodeTotal, SameNode, SameRank
  <2> QED  BY <1>2, <1>4, <2>1 DEF LocalInv, RootInv, SameNode, SameRank
<1>8. ASSUME NEW t \in Others PROVE OtherInv(n, t)'
  <2>1. OtherInv(n, t)
    BY DEF LocalInv
  <2>2. SameRank(<<n, t>>) /\ SameRank(<<n, N - 1>>) /\ Got(<<n, t>>)' = Got(<<n, t>>)
    BY <1>1
  <2> QED
    BY <2>1, <2>2, <1>2, <1>3, <1>5, <1>6 DEF OtherInv, SameNode, SameRank, Passed
<1> QED  BY <1>7, <1>8 DEF LocalInv

\* Once a rank is in, every node has all its ranks.
LEMMA Full ==
  ASSUME TypeOK, TokenInv, NEW p \in Rank, Entered(p)
  PROVE  (\A q \in Rank : Passed(q)) /\ \A n \in Node : ranksonnode[n] = N
<1>1. \A q \in Rank : Passed(q)
  BY DEF TokenInv
<1>2. ASSUME NEW n \in Node PROVE ranksonnode[n] = N
  <2>1. ranksonnode[n] > N - 1
    BY <1>1, RankFacts DEF TokenInv
  <2>2. ranksonnode[n] \in 0 .. N
    BY DEF TypeOK
  <2> QED  BY <2>1, <2>2, SumAssumption
<1> QED  BY <1>1, <1>2

\* A step of one rank that is in, which stays in and does not free anything.
LEMMA OneRank ==
  ASSUME IInv, NEW n \in Node, NEW t \in Tcoord,
         Entered(<<n, t>>), Entered(<<n, t>>)', pc'[<<n, t>>] # "free",
         given'[<<n, t>>] = 0 => pc'[<<n, t>>] \notin Summing,
         pc'[<<n, t>>] \in {"idle"} \cup Leaving /\ given'[<<n, t>>] > 0
           => x'[<<n, t>>] = Total(Rank, given'[<<n, t>>]),
         \A q \in Rank : q # <<n, t>> => SameRank(q),
         \A m \in Node : m # n => /\ nleft'[m] = nleft[m] /\ cur'[m] = cur[m]
                                  /\ done'[m] = done[m] /\ sum'[m] = sum[m],
         UNCHANGED <<job, linked, count, ranksonnode>>,
         TypeOK', CollInv', LocalInv(n)'
  PROVE  IInv'
<1> USE RankFacts DEF IInv
<1>1. TokenInv'
  <2>1. \A q \in Rank : Passed(q)' = Passed(q) /\ Entered(q)' = Entered(q)
    BY DEF SameRank, Entered, Passed, Starting
  <2>2. ASSUME NEW m \in Node, NEW u \in Tcoord
        PROVE  (/\ pc[<<m, u>>] = "alloc" => ranksonnode[m] = u
                /\ Passed(<<m, u>>) => ranksonnode[m] > u
                /\ pc[<<m, u>>] = "free" => count[m] = u
                /\ ~Entered(<<m, u>>) => given[<<m, u>>] = 0
                /\ given[<<m, u>>] = 0 => pc[<<m, u>>] \notin Summing)'
    <3>1. CASE <<m, u>> = <<n, t>>
      <4>1. pc'[<<m, u>>] # "alloc" /\ Entered(<<m, u>>)'
        BY <3>1 DEF Entered, Starting
      <4> QED  BY <3>1, <4>1, <2>1 DEF TokenInv
    <3>2. CASE <<m, u>> # <<n, t>>
      BY <3>2, <2>1 DEF TokenInv, SameRank
    <3> QED  BY <3>1, <3>2
  <2>3. \A p, q \in Rank : Entered(p)' => Passed(q)'
    BY <2>1 DEF TokenInv
  <2>4. ASSUME NEW m \in Node, NEW u \in Tcoord, NEW v \in Tcoord,
               pc'[<<m, u>>] = "start", pc'[<<m, v>>] # "start"
        PROVE  linked'[m]
    <3>1. Passed(<<m, u>>)
      BY Full
    <3>2. ~Passed(<<m, u>>)'
      BY <2>4 DEF Passed, Starting
    <3> QED  BY <3>1, <3>2, <2>1
  <2> QED  BY <2>2, <2>3, <2>4 DEF TokenInv
<1>2. CleanInv'
  BY Full DEF CleanInv
<1>3. SumIsExact'
  <2>1. ASSUME NEW q \in Rank, pc'[q] \in {"idle"} \cup Leaving, given'[q] > 0
        PROVE  x'[q] = Total(Rank, given[q])'
    <3>1. Total(Rank, given[q])' = Total(Rank, given'[q])
      BY DEF Total
    <3>2. CASE q # <<n, t>>
      BY <2>1, <3>1, <3>2 DEF SumIsExact, SameRank
    <3> QED  BY <2>1, <3>1, <3>2
  <2> QED  BY <2>1 DEF SumIsExact
<1>4. ASSUME NEW m \in Node PROVE LocalInv(m)'
  <2>1. CASE m # n
    <3>1. \A u \in Tcoord : SameRank(<<m, u>>)
      BY <2>1
    <3>2. SameNode(m)
      BY <2>1, <3>1 DEF SameNode
    <3> QED  BY <3>2, NodeFrame
  <2> QED  BY <2>1
<1> QED  BY <1>1, <1>2, <1>3, <1>4

\* CollInv is about where the ranks 0 are and what they have given.
LEMMA CollFrame ==
  ASSUME CollInv, UNCHANGED <<job, collVars>>,
         \A n \in Node : /\ given'[Root(n)] = given[Root(n)]
                         /\ pc'[Root(n)] \in Adding <=> pc[Root(n)] \in Adding
                         /\ pc'[Root(n)] = "coll" <=> pc[Root(n)] = "coll"
  PROVE  CollInv'
<1>1. UNCHANGED <<inj, crcount, recv, result, pending>>
  BY DEF collVars
<1>2. \A n \in Node : Joined(n)' = Joined(n)
  BY <1>1 DEF Joined
<1>3. ASSUME NEW n \in Node
      PROVE  /\ NodeTotal(n, given[Root(n)])' = NodeTotal(n, given[Root(n)])
             /\ Total(Rank, given[Root(n)])' = Total(Rank, given[Root(n)])
  BY DEF NodeTotal, Total
<1> QED  BY <1>1, <1>2, <1>3 DEF CollInv

\* What a rank that is not rank 0 relies on, when another rank steps.
LEMMA OtherFrame ==
  ASSUME NEW n \in Node, NEW u \in Others, OtherInv(n, u),
         job' = job, SameRank(<<n, u>>), Got(Root(n))' = Got(Root(n)),
         Passed(<<n, N - 1>>)' => Passed(<<n, N - 1>>),
         done'[n][u] = done[n][u], done'[n][0] = done[n][0],
         sum'[n][u] = sum[n][u], sum'[n][0] = sum[n][0] \/ Up(n, u),
         pc'[Root(n)] \in {"inject", "coll", "bcast", "release"} =>
           \/ pc[Root(n)] \in {"inject", "coll", "bcast", "release"}
           \/ Up(n, u) /\ done[n][u] = 0,
         pc'[Root(n)] \notin Roots => pc[Root(n)] \notin Roots
  PROVE  OtherInv(n, u)' /\ Up(n, u)' = Up(n, u)
<1>1. Got(<<n, u>>)' = Got(<<n, u>>)
  BY DEF SameRank, Got
<1>2. Up(n, u)' = Up(n, u)
  BY <1>1 DEF Up, SameRank
<1>3. Own2(n, u)' = Own2(n, u) /\ \A k : Total(Rank, k)' = Total(Rank, k)
  BY DEF Own2, Own, Total, SameRank
<1>4. Up(n, u) => Got(<<n, u>>) = Got(Root(n))
  BY DEF Up
<1> QED  BY <1>1, <1>2, <1>3, <1>4 DEF OtherInv, SameRank

\* What rank 0 relies on, when another rank steps.
LEMMA RootFrame ==
  ASSUME NEW n \in Node, RootInv(n), job' = job, SameRank(Root(n)),
         nleft'[n] = nleft[n], cur'[n] = cur[n], sum'[n][0] = sum[n][0],
         Todo(n)' = Todo(n),
         \A u \in Others : done[n][u] # 0 => done'[n][u] # 0
  PROVE  RootInv(n)'
<1>1. /\ Own2(n, 0)' = Own2(n, 0)
      /\ Total({n} \X (Tcoord \ Todo(n)), given[Root(n)])'
           = Total({n} \X (Tcoord \ Todo(n)), given[Root(n)])
      /\ Total({n} \X ((Tcoord \ Todo(n)) \cup {cur[n]}), given[Root(n)])'
           = Total({n} \X ((Tcoord \ Todo(n)) \cup {cur[n]}), given[Root(n)])
      /\ NodeTotal(n, given[Root(n)])' = NodeTotal(n, given[Root(n)])
      /\ Total(Rank, given[Root(n)])' = Total(Rank, given[Root(n)])
  <2>1. given'[Root(n)] = given[Root(n)] /\ Root(n) = <<n, 0>>
    BY RankFacts DEF SameRank
  <2>2. \A S : Total(S, given[Root(n)])' = Total(S, given[Root(n)])
    BY <2>1 DEF Total
  <2>3. Own2(n, 0)' = Own2(n, 0)
    BY <2>1 DEF Own2, Own
  <2> QED  BY <2>1, <2>2, <2>3 DEF NodeTotal
<1> QED  BY <1>1 DEF RootInv, SameRank

\* A step of a rank that is not rank 0.
LEMMA OtherRank ==
  ASSUME IInv, NEW n \in Node, NEW t \in Others,
         Entered(<<n, t>>), Entered(<<n, t>>)', pc'[<<n, t>>] # "free",
         given'[<<n, t>>] = 0 => pc'[<<n, t>>] \notin Summing,
         pc'[<<n, t>>] \in {"idle"} \cup Leaving /\ given'[<<n, t>>] > 0
           => x'[<<n, t>>] = Total(Rank, given'[<<n, t>>]),
         \A q \in Rank : q # <<n, t>> => SameRank(q),
         \A m \in Node : m # n => done'[m] = done[m] /\ sum'[m] = sum[m],
         \A u \in Tcoord : u # t => done'[n][u] = done[n][u] /\ sum'[n][u] = sum[n][u],
         UNCHANGED <<job, linked, count, ranksonnode, nleft, cur, collVars>>,
         (Up(n, t) /\ done[n][t] = 0)' <=> Up(n, t) /\ done[n][t] = 0,
         done'[n][t] = 0 => done[n][t] = 0,
         TypeOK', OtherInv(n, t)'
  PROVE  IInv'
<1> USE RankFacts
<1>1. \A m \in Node : Root(m) # <<n, t>> /\ SameRank(Root(m)) /\ Got(Root(m))' = Got(Root(m))
  BY DEF SameRank, Got
<1>2. CollInv'
  BY <1>1, CollFrame DEF SameRank, IInv
<1>3. \A u \in Tcoord : Passed(<<n, u>>)' = Passed(<<n, u>>)
  BY DEF SameRank, Passed, Entered, Starting
<1>4. ASSUME NEW u \in Others, u # t PROVE OtherInv(n, u)' /\ Up(n, u)' = Up(n, u)
  <2>1. OtherInv(n, u)
    BY DEF IInv, LocalInv
  <2>2. SameRank(<<n, u>>)
    BY <1>4
  <2>3. pc'[Root(n)] = pc[Root(n)]
    BY <1>1 DEF SameRank
  <2>4. /\ Got(Root(n))' = Got(Root(n)) /\ job' = job
        /\ Passed(<<n, N - 1>>)' => Passed(<<n, N - 1>>)
    BY <1>1, <1>3
  <2>5. /\ done'[n][u] = done[n][u] /\ done'[n][0] = done[n][0]
        /\ sum'[n][u] = sum[n][u] /\ sum'[n][0] = sum[n][0]
    BY <1>4
  <2> QED  BY <2>1, <2>2, <2>3, <2>4, <2>5, OtherFrame
<1>5. Todo(n)' = Todo(n)
  BY <1>4 DEF Todo
<1>6. RootInv(n)'
  <2>1. RootInv(n)
    BY DEF IInv, LocalInv
  <2>2. \A u \in Others : done[n][u] # 0 => done'[n][u] # 0
    OBVIOUS
  <2> QED  BY <2>1, <2>2, <1>1, <1>5, RootFrame
<1>7. LocalInv(n)'
  BY <1>4, <1>6 DEF LocalInv
<1> QED  BY <1>2, <1>7, OneRank

-----------------------------------------------------------------------------
(* The steps.                                                              *)

LEMMA TypeLife ==
  ASSUME TypeOK, TokenInv, NEW n \in Node, NEW t \in Tcoord, Life(n, t)
  PROVE  TypeOK'
<1> USE RankFacts
<1>1. CASE Open(n, t)
  <2>1. linked' \in [Node -> BOOLEAN]
    BY <1>1 DEF Open, TypeOK
  <2>2. pc' \in [Rank -> {"start", "up", "idle"} \cup Begun \cup Summing \cup Leaving]
    BY <1>1 DEF Open, TypeOK, Goto, Begun
  <2>3. CASE linked[n]
    BY <1>1, <2>1, <2>3, <2>2 DEF Open, TypeOK, collVars
  <2>4. CASE ~linked[n]
    <3>1. [u \in Tcoord |-> 0] \in [Tcoord -> MinInt .. MaxInt] /\ 0 \in 0 .. N
      BY SumAssumption
    <3>2. [u \in Tcoord |-> None] \in [Tcoord -> Number]
      BY DEF Number
    <3>3. /\ count' = [count EXCEPT ![n] = 0]
          /\ ranksonnode' = [ranksonnode EXCEPT ![n] = 0]
          /\ done' = [done EXCEPT ![n] = [u \in Tcoord |-> 0]]
          /\ sum' = [sum EXCEPT ![n] = [u \in Tcoord |-> None]]
      BY <1>1, <2>4 DEF Open
    <3>4. /\ count' \in [Node -> Int] /\ ranksonnode' \in [Node -> 0 .. N]
          /\ done' \in [Node -> [Tcoord -> MinInt .. MaxInt]]
          /\ sum' \in [Node -> [Tcoord -> Number]]
      BY <3>1, <3>2, <3>3 DEF TypeOK
    <3> QED  BY <1>1, <2>1, <2>2, <3>4 DEF Open, TypeOK, collVars
  <2> QED  BY <2>3, <2>4
<1>2. CASE TakeToken(n, t)
  BY <1>2 DEF TakeToken, TypeOK, Goto, collVars, shmVars, Begun
<1>3. CASE PassToken(n, t)
  <2>1. ranksonnode[n] + 1 \in 0 .. N
    BY <1>3, SumAssumption DEF PassToken, TokenInv, Tcoord
  <2> QED  BY <1>3, <2>1 DEF PassToken, TypeOK, Goto, collVars, Begun
<1>4. CASE Enter(n, t) \/ Leave(n, t) \/ TakeExit(n, t)
  <2>1. CASE Enter(n, t)
    BY <2>1 DEF Enter, TypeOK, Goto, collVars, shmVars, Leaving
  <2>2. CASE Leave(n, t)
    BY <2>2 DEF Leave, TypeOK, Goto, collVars, shmVars, Leaving
  <2>3. CASE TakeExit(n, t)
    BY <2>3 DEF TakeExit, TypeOK, Goto, collVars, shmVars, Leaving
  <2> QED  BY <1>4, <2>1, <2>2, <2>3
<1>5. CASE PassExit(n, t)
  BY <1>5 DEF PassExit, TypeOK, Goto, collVars, Leaving
<1>6. CASE Unlink(n, t)
  BY <1>6 DEF Unlink, TypeOK, Goto, collVars, Leaving
<1> QED  BY <1>1, <1>2, <1>3, <1>4, <1>5, <1>6 DEF Life

LEMMA TypeLocal ==
  ASSUME TypeOK, NEW n \in Node, NEW t \in Tcoord, Local(n, t)
  PROVE  TypeOK'
<1> USE RankFacts
<1>1. CASE Call(n, t)
  <2>1. given[<<n, t>>] + 1 \in 0 .. Rounds
    BY <1>1, SumAssumption DEF Call, TypeOK
  <2>2. Own(<<n, t>>, given[<<n, t>>] + 1) \in Number
    BY <2>1, NumberFacts DEF TypeOK
  <2> QED
    BY <1>1, <2>1, <2>2 DEF Call, TypeOK, Goto, collVars, shmVars, Summing, Locals, Roots
<1>2. CASE ReadDone(n, t)
  <2>1. Increment(done[n][0]) \in MinInt .. MaxInt
    BY IncrementFacts DEF TypeOK
  <2> QED  BY <1>2, <2>1 DEF ReadDone, TypeOK, Goto, collVars, shmVars, Summing, Locals
<1>3. CASE Put(n, t)
  BY <1>3 DEF Put, TypeOK, Goto, collVars, Summing, Locals
<1>4. CASE Flag(n, t)
  BY <1>4, SumAssumption DEF Flag, TypeOK, Goto, collVars, Summing, Locals
<1>5. CASE Await(n, t)
  BY <1>5 DEF Await, TypeOK, Goto, collVars, shmVars, Summing, Locals
<1>6. CASE Take(n, t)
  BY <1>6 DEF Take, TypeOK, Goto, collVars, shmVars
<1> QED  BY <1>1, <1>2, <1>3, <1>4, <1>5, <1>6 DEF Local

LEMMA TypeRoot ==
  ASSUME TypeOK, NEW n \in Node, RootStep(n),
         AddIn(n) => Add(x[Root(n)], sum[n][cur[n]]) \in Number
  PROVE  TypeOK'
<1> USE RankFacts
<1>1. CASE Gather(n)
  BY <1>1 DEF Gather, RanksLeft, TypeOK, Goto, collVars, shmVars, Summing, Roots, Gathering
<1>2. CASE Poll(n)
  BY <1>2 DEF Poll, TypeOK, Goto, collVars, shmVars, Summing, Roots, Gathering
<1>3. CASE AddIn(n)
  BY <1>3 DEF AddIn, TypeOK, Goto, collVars, shmVars, Summing, Roots, Gathering
<1>4. CASE Clear(n)
  <2>1. Cleared(n) \in [Node -> [Tcoord -> MinInt .. MaxInt]]
    BY SumAssumption DEF Cleared, TypeOK
  <2>2. pc' \in [Rank -> {"start", "up", "idle"} \cup Begun \cup Summing \cup Leaving]
    BY <1>4 DEF Clear, TypeOK, Goto, Summing, Roots, Gathering
  <2>3. nleft' \in [Node -> Int]
    BY <1>4 DEF Clear, TypeOK
  <2> QED  BY <1>4, <2>1, <2>2, <2>3 DEF Clear, TypeOK, collVars
<1>5. CASE Inject(n)
  BY <1>5 DEF Inject, TypeOK, Goto, shmVars, Summing, Roots
<1>6. CASE AwaitColl(n)
  BY <1>6 DEF AwaitColl, TypeOK, Goto, collVars, shmVars, Summing, Roots
<1>7. CASE Bcast(n)
  BY <1>7 DEF Bcast, TypeOK, Goto, collVars, Summing, Roots
<1>8. CASE Release(n)
  <2>1. Increment(done[n][0]) \in MinInt .. MaxInt
    BY IncrementFacts DEF TypeOK
  <2> QED  BY <1>8, <2>1 DEF Release, TypeOK, Goto, collVars
<1> QED  BY <1>1, <1>2, <1>3, <1>4, <1>5, <1>6, <1>7, <1>8 DEF RootStep

\* A node whose ranks are all on their way up.
LEMMA Quiet ==
  ASSUME NEW m \in Node,
         \A u \in Tcoord : ~Entered(<<m, u>>)' /\ given'[<<m, u>>] = 0,
         Passed(<<m, N - 1>>)' => \A u \in Others : done'[m][u] = 0
  PROVE  LocalInv(m)'
<1> USE RankFacts
<1>1. \A u \in Tcoord : pc'[<<m, u>>] \in Starting \cup {"up"} /\ Got(<<m, u>>)' = 0
  BY DEF Entered, Starting, Got, Summing, Locals, Roots, Gathering
<1>2. \A u \in Others : ~Up(m, u)'
  BY <1>1 DEF Up, Starting
<1>3. RootInv(m)'
  BY <1>1 DEF RootInv, Starting, Gathering, Locals
<1>4. ASSUME NEW u \in Others PROVE OtherInv(m, u)'
  BY <1>1, <1>2 DEF OtherInv, Starting, Roots, Gathering
<1> QED  BY <1>3, <1>4 DEF LocalInv

\* While a rank is still on its way up, nobody has begun a sum.
LEMMA Nobody ==
  ASSUME IInv, NEW p \in Rank, ~Passed(p)
  PROVE  /\ \A q \in Rank : ~Entered(q) /\ given[q] = 0
         /\ \A m \in Node : Passed(<<m, N - 1>>) => \A u \in Others : done[m][u] = 0
<1>1. \A q \in Rank : ~Entered(q)
  BY DEF IInv, TokenInv
<1>2. \A q \in Rank : given[q] = 0
  BY <1>1, RankFacts DEF IInv, TokenInv
<1>3. ASSUME NEW m \in Node, NEW u \in Others PROVE ~Up(m, u)
  BY <1>1, RankFacts DEF Up, Entered, Starting
<1> QED  BY <1>1, <1>2, <1>3 DEF IInv, LocalInv, OtherInv

LEMMA InvInit ==
  ASSUME Init
  PROVE  IInv
<1> USE RankFacts
<1>1. TypeOK
  BY SumAssumption DEF Init, TypeOK, Number
<1>2. \A p \in Rank : pc[p] = "start" /\ given[p] = 0
  BY DEF Init
<1>3. TokenInv
  BY <1>2 DEF TokenInv, Passed, Entered, Starting, Summing, Locals, Roots, Gathering
<1>4. CleanInv
  BY DEF CleanInv, Init
<1>5. CollInv
  BY <1>2 DEF CollInv, Init, Joined, Adding, Gathering
<1>6. SumIsExact
  BY <1>2 DEF SumIsExact, Leaving
<1>7. ASSUME NEW n \in Node PROVE LocalInv(n)
  <2>1. \A t \in Tcoord : pc[<<n, t>>] = "start" /\ Got(<<n, t>>) = 0
    BY <1>2 DEF Got, Summing, Locals, Roots, Gathering
  <2>2. RootInv(n)
    BY <2>1 DEF RootInv, Gathering, Locals
  <2>3. ASSUME NEW t \in Others PROVE OtherInv(n, t)
    <3>1. ~Passed(<<n, N - 1>>) /\ ~Up(n, t)
      BY <2>1 DEF Passed, Starting, Up
    <3> QED  BY <2>1, <3>1 DEF OtherInv, Roots, Gathering
  <2> QED  BY <2>2, <2>3 DEF LocalInv
<1> QED  BY <1>1, <1>3, <1>4, <1>5, <1>6, <1>7 DEF IInv

LEMMA NewJobKeeps ==
  ASSUME IInv, NewJob
  PROVE  IInv'
<1> USE RankFacts
<1>1. TypeOK'
  BY SumAssumption DEF IInv, NewJob, TypeOK, Number, shmVars
<1>2. \A p \in Rank : pc'[p] = "start" /\ given'[p] = 0
  BY DEF NewJob
<1>3. TokenInv'
  BY <1>2 DEF TokenInv, Passed, Entered, Starting, Summing, Locals, Roots, Gathering
<1>4. CleanInv'
  BY DEF CleanInv, IInv, NewJob, shmVars
<1>5. CollInv'
  BY <1>2 DEF CollInv, NewJob, Joined, Adding, Gathering
<1>6. SumIsExact'
  BY <1>2 DEF SumIsExact, Leaving
<1>7. ASSUME NEW n \in Node PROVE LocalInv(n)'
  <2>1. \A t \in Tcoord : ~Entered(<<n, t>>)' /\ given'[<<n, t>>] = 0 /\ ~Passed(<<n, t>>)'
    BY <1>2 DEF Entered, Passed, Starting
  <2> QED  BY <2>1, Quiet
<1> QED  BY <1>1, <1>3, <1>4, <1>5, <1>6, <1>7 DEF IInv

\* A step of a rank on its way to the barrier.
LEMMA StartKeeps ==
  ASSUME IInv, NEW n \in Node, NEW t \in Tcoord,
         Open(n, t) \/ TakeToken(n, t) \/ PassToken(n, t)
  PROVE  IInv'
<1> USE RankFacts DEF IInv
<1>1. ~Passed(<<n, t>>) /\ given' = given /\ job' = job
  BY DEF Open, TakeToken, PassToken, Passed, Starting
<1>2. /\ pc'[<<n, t>>] \in {"token", "alloc", "up"}
      /\ \A q \in Rank : q # <<n, t>> => pc'[q] = pc[q]
  BY <1>1 DEF Open, TakeToken, PassToken, Goto, TypeOK
<1>3. \A q \in Rank : ~Entered(q) /\ ~Entered(q)' /\ given[q] = 0
  BY <1>1, <1>2, Nobody DEF Entered, Starting
<1>4. \A q \in Rank : pc[q] \in Starting \cup {"up"} /\ pc'[q] \in Starting \cup {"up"}
  BY <1>3 DEF Entered, Starting
<1>5. TypeOK'
  BY TypeLife DEF Life
<1>6. \A m \in Node : m # n => /\ done'[m] = done[m] /\ linked'[m] = linked[m]
                               /\ ranksonnode'[m] = ranksonnode[m]
  BY DEF Open, TakeToken, PassToken, shmVars, TypeOK
<1>7. TokenInv'
  <2>1. ASSUME NEW m \in Node, NEW u \in Tcoord
        PROVE  /\ pc'[<<m, u>>] = "alloc" => ranksonnode'[m] = u
               /\ Passed(<<m, u>>)' => ranksonnode'[m] > u
    <3>1. CASE m # n
      BY <1>2, <1>6, <3>1 DEF TokenInv, Passed, Starting
    <3>2. CASE m = n /\ Open(n, t)
      <4>1. CASE linked[n]
        <5>1. ranksonnode' = ranksonnode /\ pc'[<<n, t>>] = "token"
          BY <3>2, <4>1 DEF Open, Goto, TypeOK
        <5> QED  BY <1>2, <3>2, <5>1 DEF TokenInv, Passed, Starting
      <4>2. CASE ~linked[n]
        <5>1. pc[<<n, u>>] = "start"
          BY <3>2, <4>2 DEF Open, TokenInv
        <5> QED  BY <1>1, <1>2, <3>2, <5>1 DEF Open, Goto, Passed, Starting, TypeOK
      <4> QED  BY <4>1, <4>2
    <3>3. CASE m = n /\ TakeToken(n, t)
      BY <1>1, <3>3 DEF TakeToken, MayAllocate, Goto, shmVars, TokenInv, Passed, Starting, TypeOK
    <3>4. CASE m = n /\ PassToken(n, t)
      <4>1. ranksonnode[n] = t /\ ranksonnode'[n] = t + 1
        BY <3>4 DEF PassToken, TokenInv, TypeOK
      <4>2. CASE u = t
        BY <1>1, <3>4, <4>1, <4>2 DEF PassToken, Goto, TypeOK
      <4>3. CASE u # t
        BY <1>2, <3>4, <4>1, <4>3 DEF TokenInv, Passed, Starting
      <4> QED  BY <4>2, <4>3
    <3> QED  BY <3>1, <3>2, <3>3, <3>4
  <2>2. ASSUME NEW m \in Node, NEW u \in Tcoord, NEW v \in Tcoord,
               pc'[<<m, u>>] = "start", pc'[<<m, v>>] # "start"
        PROVE  linked'[m]
    <3>1. pc[<<m, u>>] = "start" /\ <<m, u>> # <<n, t>>
      BY <1>2, <2>2
    <3>2. CASE Open(n, t) /\ m = n
      BY <3>2 DEF Open, TypeOK
    <3>3. CASE Open(n, t) /\ m # n
      BY <1>2, <1>6, <2>2, <3>1, <3>3 DEF TokenInv
    <3>4. CASE TakeToken(n, t) \/ PassToken(n, t)
      BY <1>2, <2>2, <3>1, <3>4 DEF TakeToken, PassToken, TokenInv, shmVars
    <3> QED  BY <3>2, <3>3, <3>4
  <2> QED
    BY <1>1, <1>3, <1>4, <2>1, <2>2
    DEF TokenInv, Starting, Summing, Locals, Roots, Gathering
<1>8. CleanInv'
  <2>1. CASE Open(n, t) /\ ~linked[n]
    <3>1. done' = [done EXCEPT ![n] = [u \in Tcoord |-> 0]]
      BY <2>1 DEF Open
    <3>2. \A u \in Others : done'[n][u] = 0
      BY <3>1 DEF TypeOK
    <3>3. \A m \in Node, u \in Others :
             m # n /\ ranksonnode'[m] < N => done'[m][u] = 0
      BY <1>6 DEF CleanInv
    <3> QED  BY <3>2, <3>3 DEF CleanInv
  <2>2. CASE Open(n, t) /\ linked[n]
    BY <2>2 DEF CleanInv, Open
  <2>3. CASE TakeToken(n, t)
    BY <2>3 DEF CleanInv, TakeToken, shmVars
  <2>4. CASE PassToken(n, t)
    <3>1. \A m \in Node : ranksonnode'[m] < N => ranksonnode[m] < N
      BY <1>6, <2>4, SumAssumption DEF PassToken, TypeOK
    <3> QED  BY <2>4, <3>1 DEF CleanInv, PassToken
  <2> QED  BY <2>1, <2>2, <2>3, <2>4
<1>9. CollInv'
  <2>1. \A m \in Node : /\ pc[Root(m)] \notin Adding /\ pc'[Root(m)] \notin Adding
                        /\ pc[Root(m)] # "coll" /\ pc'[Root(m)] # "coll"
    BY <1>4 DEF Starting, Adding, Gathering
  <2>2. UNCHANGED collVars
    BY DEF Open, TakeToken, PassToken
  <2> QED  BY <1>1, <2>1, <2>2, CollFrame
<1>10. SumIsExact'
  BY <1>1, <1>3 DEF SumIsExact
<1>11. ASSUME NEW m \in Node PROVE LocalInv(m)'
  <2>1. ASSUME Passed(<<m, N - 1>>)', NEW u \in Others PROVE done'[m][u] = 0
    <3>1. CASE Passed(<<m, N - 1>>)
      <4>1. done[m][u] = 0
        BY <1>1, <3>1, Nobody
      <4> QED
        BY <1>6, <4>1 DEF Open, TakeToken, PassToken, shmVars, TypeOK
    <3>2. CASE ~Passed(<<m, N - 1>>)
      <4>1. <<m, N - 1>> = <<n, t>> /\ PassToken(n, t)
        BY <1>1, <1>2, <2>1, <3>2 DEF Open, TakeToken, Goto, Passed, Starting, TypeOK
      <4>2. ranksonnode[n] = N - 1 /\ ranksonnode[n] < N
        BY <4>1, SumAssumption DEF PassToken, TokenInv
      <4> QED  BY <4>1, <4>2 DEF CleanInv, PassToken
    <3> QED  BY <3>1, <3>2
  <2> QED  BY <1>1, <1>3, <2>1, Quiet
<1> QED  BY <1>5, <1>7, <1>8, <1>9, <1>10, <1>11

\* A step of a rank between two sums, or leaving.
LEMMA OutsideKeeps ==
  ASSUME IInv, NEW n \in Node, NEW t \in Tcoord,
         Enter(n, t) \/ Leave(n, t) \/ TakeExit(n, t) \/ PassExit(n, t) \/ Unlink(n, t)
  PROVE  IInv'
<1> DEFINE p == <<n, t>>
           Outside == {"up", "idle"} \cup Leaving
<1> USE RankFacts DEF IInv
<1>1. /\ pc[p] \in Outside /\ pc'[p] \in {"idle"} \cup Leaving
      /\ \A q \in Rank : q # p => pc'[q] = pc[q]
  BY DEF Enter, Leave, TakeExit, PassExit, Unlink, Goto, Leaving, TypeOK
<1>2. UNCHANGED <<job, given, x, dnum, nleft, cur, ranksonnode, done, sum, collVars>>
  BY DEF Enter, Leave, TakeExit, PassExit, Unlink, shmVars
<1>3. \A q \in Rank : q # p => SameRank(q)
  BY <1>1, <1>2 DEF SameRank
<1>4. \A q \in Rank : Passed(q) /\ Passed(q)'
  <2>1. CASE Enter(n, t)
    <3>1. \A q \in Rank : Passed(q)
      BY <2>1 DEF Enter, Passed, Starting, Begun
    <3> QED  BY <1>1, <3>1 DEF Passed, Starting, Leaving
  <2>2. CASE ~Enter(n, t)
    <3>1. Entered(p)
      BY <2>2 DEF Leave, TakeExit, PassExit, Unlink, Entered, Starting
    <3>2. \A q \in Rank : Passed(q)
      BY <3>1, Full
    <3> QED  BY <1>1, <3>2 DEF Passed, Starting, Leaving
  <2> QED  BY <2>1, <2>2
<1>5. TypeOK'
  BY TypeLife DEF Life
<1>6. TokenInv'
  <2>1. ASSUME NEW m \in Node, NEW u \in Tcoord, pc'[<<m, u>>] = "free"
        PROVE  count'[m] = u
    <3>1. CASE TakeExit(n, t)
      BY <1>1, <2>1, <3>1 DEF TakeExit, TokenInv, shmVars
    <3>2. CASE PassExit(n, t)
      <4>1. <<m, u>> # p
        BY <2>1, <3>2 DEF PassExit, Goto, TypeOK
      <4>2. count[m] = u /\ count[n] = t
        BY <1>1, <2>1, <3>2, <4>1 DEF PassExit, TokenInv
      <4>3. m # n
        BY <4>1, <4>2
      <4> QED  BY <3>2, <4>2, <4>3 DEF PassExit, TypeOK
    <3>3. CASE Enter(n, t) \/ Leave(n, t) \/ Unlink(n, t)
      <4>1. <<m, u>> # p /\ count' = count
        BY <2>1, <3>3 DEF Enter, Leave, Unlink, Goto, TypeOK, shmVars
      <4> QED  BY <1>1, <2>1, <4>1 DEF TokenInv
    <3> QED  BY <3>1, <3>2, <3>3
  <2>2. ASSUME NEW m \in Node, NEW u \in Tcoord
        PROVE  /\ pc'[<<m, u>>] # "alloc" /\ pc'[<<m, u>>] # "start"
               /\ ranksonnode'[m] > u
               /\ ~Entered(<<m, u>>)' => given'[<<m, u>>] = 0
               /\ given'[<<m, u>>] = 0 => pc'[<<m, u>>] \notin Summing
    <3>1. Passed(<<m, u>>) /\ Passed(<<m, u>>)'
      BY <1>4
    <3>2. ~Entered(<<m, u>>)' => ~Entered(<<m, u>>)
      BY <1>1 DEF Entered, Starting, Leaving
    <3>3. pc'[<<m, u>>] \in Summing => pc[<<m, u>>] \in Summing
      BY <1>1 DEF Leaving, Summing, Locals, Roots, Gathering
    <3> QED  BY <1>2, <3>1, <3>2, <3>3 DEF TokenInv, Passed, Starting
  <2> QED  BY <1>4, <2>1, <2>2 DEF TokenInv
<1>7. CleanInv'
  BY <1>2 DEF CleanInv
<1>8. CollInv'
  <2>1. ASSUME NEW m \in Node
        PROVE  /\ pc'[Root(m)] \in Adding <=> pc[Root(m)] \in Adding
               /\ pc'[Root(m)] = "coll" <=> pc[Root(m)] = "coll"
    BY <1>1 DEF Adding, Gathering, Leaving
  <2> QED  BY <1>2, <2>1, CollFrame
<1>9. SumIsExact'
  <2>1. ASSUME NEW q \in Rank, pc'[q] \in {"idle"} \cup Leaving, given'[q] > 0
        PROVE  x'[q] = Total(Rank, given[q])'
    <3>1. pc[q] \in {"idle"} \cup Leaving
      BY <1>1, <1>2, <2>1 DEF TokenInv, Entered
    <3> QED  BY <1>2, <2>1, <3>1 DEF SumIsExact, Total
  <2> QED  BY <2>1 DEF SumIsExact
<1>10. \A q \in Rank : Got(q)' = Got(q)
  BY <1>1, <1>2 DEF Got, Summing, Locals, Roots, Gathering, Leaving
<1>11. ASSUME NEW m \in Node PROVE LocalInv(m)'
  <2>1. RootInv(m) /\ \A u \in Others : OtherInv(m, u)
    BY DEF LocalInv
  <2>2. ASSUME NEW u \in Others PROVE OtherInv(m, u)' /\ Up(m, u)' = Up(m, u)
    <3>1. CASE <<m, u>> # p
      <4>1. /\ pc'[Root(m)] \notin Roots => pc[Root(m)] \notin Roots
            /\ pc'[Root(m)] \notin {"inject", "coll", "bcast", "release"}
                 \/ pc'[Root(m)] = pc[Root(m)]
        BY <1>1 DEF Roots, Gathering, Leaving
      <4>2. SameRank(<<m, u>>)
        BY <1>3, <3>1
      <4> QED  BY <1>2, <1>4, <1>10, <2>1, <4>1, <4>2, OtherFrame
    <3>2. CASE <<m, u>> = p
      <4>1. pc'[Root(m)] = pc[Root(m)]
        BY <1>1, <3>2
      <4>2. ~Up(m, u) /\ ~Up(m, u)'
        BY <1>1, <3>2 DEF Up, Leaving
      <4>3. pc[<<m, u>>] \in Outside /\ pc'[<<m, u>>] \in {"idle"} \cup Leaving
        BY <1>1, <3>2
      <4>4. /\ Got(<<m, u>>) = Got(Root(m)) /\ done[m][u] = 0
            /\ pc[Root(m)] \notin {"inject", "coll", "bcast", "release"}
        BY <1>4, <2>1, <4>2, <4>3 DEF OtherInv, Leaving
      <4>5. Got(<<m, u>>)' = Got(Root(m))' /\ done'[m][u] = 0
        BY <1>2, <1>10, <4>4
      <4>6. pc'[<<m, u>>] \notin Locals \cup Roots \cup {"gather"}
        BY <4>3 DEF Leaving, Locals, Roots, Gathering
      <4>7. OtherInv(m, u)'
        BY <4>1, <4>2, <4>4, <4>5, <4>6 DEF OtherInv, Locals
      <4> QED  BY <4>2, <4>7 DEF Up
    <3> QED  BY <3>1, <3>2
  <2>3. Todo(m)' = Todo(m)
    BY <1>2, <2>2 DEF Todo
  <2>4. RootInv(m)'
    <3>1. CASE Root(m) # p
      BY <1>2, <1>3, <2>1, <2>3, <3>1, RootFrame
    <3>2. CASE Root(m) = p
      BY <1>1, <3>2 DEF RootInv, Gathering, Locals, Leaving
    <3> QED  BY <3>1, <3>2
  <2> QED  BY <2>2, <2>4 DEF LocalInv
<1> QED  BY <1>5, <1>6, <1>7, <1>8, <1>9, <1>11

\* A step of a rank that is not rank 0 in its sum.
LEMMA LocalKeeps ==
  ASSUME IInv, NEW n \in Node, NEW t \in Others, Local(n, t)
  PROVE  IInv'
<1> DEFINE p == <<n, t>>
<1> USE RankFacts
<1>1. /\ \A q \in Rank : q # p => SameRank(q)
      /\ \A m \in Node : m # n => done'[m] = done[m] /\ sum'[m] = sum[m]
      /\ \A u \in Tcoord : u # t => done'[n][u] = done[n][u] /\ sum'[n][u] = sum[n][u]
      /\ UNCHANGED <<job, linked, count, ranksonnode, nleft, cur, collVars>>
  BY DEF IInv, TypeOK, Local, Call, ReadDone, Put, Flag, Await, Take, Goto, SameRank, shmVars
<1>2. Entered(p)
  BY DEF Local, Call, ReadDone, Put, Flag, Await, Take, Entered, Starting
<1>3. \A q \in Rank : Passed(q)
  BY <1>2, Full DEF IInv
<1>4. /\ pc'[Root(n)] = pc[Root(n)] /\ Got(Root(n))' = Got(Root(n)) /\ p # Root(n)
      /\ done'[n][0] = done[n][0] /\ sum'[n][0] = sum[n][0]
  BY <1>1 DEF SameRank, Got
<1>5. OtherInv(n, t) /\ TypeOK
  BY DEF IInv, LocalInv
<1>6. TypeOK'
  BY <1>5, TypeLocal
<1>7. \A k : Total(Rank, k)' = Total(Rank, k)
  BY <1>1 DEF Total
<1>8. given[p] \in 0 .. Rounds /\ done[n][0] \in MinInt .. MaxInt
  BY <1>5 DEF TypeOK
<1>9. p \in Rank /\ \A q \in Rank : q # p => pc'[q] = pc[q]
  BY <1>1 DEF SameRank
<1>10. CASE Call(n, t)
  <2>1. /\ pc[p] = "idle" /\ pc'[p] = "read" /\ given'[p] = given[p] + 1
        /\ x'[p] = Own(p, given[p] + 1) /\ done' = done
    BY <1>5, <1>10 DEF Call, Goto, TypeOK, shmVars
  <2>2. Got(p) = given[p] /\ Got(p)' = given[p] /\ ~Up(n, t) /\ ~Up(n, t)'
    BY <1>8, <2>1 DEF Got, Up, Summing, Locals, Roots, Gathering
  <2>3. Own2(n, t)' = x'[p]
    BY <1>1, <2>1 DEF Own2, Own
  <2>4. OtherInv(n, t)'
    BY <1>3, <1>4, <1>5, <2>1, <2>2, <2>3 DEF OtherInv, Roots, Gathering
  <2> QED
    BY <1>1, <1>2, <1>6, <1>8, <2>1, <2>2, <2>4, OtherRank DEF Entered, Starting, Leaving
<1>11. CASE ReadDone(n, t)
  <2>1. /\ pc[p] = "read" /\ pc'[p] = "put" /\ dnum'[p] = Increment(done[n][0])
        /\ given'[p] = given[p] /\ x' = x /\ done' = done
    BY <1>5, <1>11 DEF ReadDone, Goto, TypeOK, shmVars
  <2>2. Got(p)' = Got(p) /\ ~Up(n, t) /\ ~Up(n, t)'
    BY <2>1 DEF Got, Up, Summing, Locals, Roots, Gathering
  <2>3. Own2(n, t)' = Own2(n, t)
    BY <1>1, <2>1 DEF Own2, Own
  <2>4. OtherInv(n, t)'
    BY <1>3, <1>4, <1>5, <2>1, <2>2, <2>3 DEF OtherInv, Roots, Gathering
  <2>5. given[p] # 0
    BY <1>5, <2>1 DEF IInv, TokenInv, Summing, Locals
  <2> QED
    BY <1>1, <1>2, <1>6, <1>8, <2>1, <2>2, <2>4, <2>5, OtherRank
    DEF Entered, Starting, Leaving
<1>12. CASE Put(n, t)
  <2>1. /\ pc[p] = "put" /\ pc'[p] = "flag" /\ sum'[n][t] = x[p]
        /\ given'[p] = given[p] /\ dnum' = dnum /\ done' = done
    BY <1>5, <1>12 DEF Put, Goto, TypeOK
  <2>2. Got(p)' = Got(p) /\ ~Up(n, t) /\ ~Up(n, t)'
    BY <2>1 DEF Got, Up, Summing, Locals, Roots, Gathering
  <2>3. Own2(n, t)' = Own2(n, t)
    BY <1>1, <2>1 DEF Own2, Own
  <2>4. OtherInv(n, t)'
    BY <1>3, <1>4, <1>5, <2>1, <2>2, <2>3 DEF OtherInv, Roots, Gathering
  <2>5. given[p] # 0
    BY <1>5, <2>1 DEF IInv, TokenInv, Summing, Locals
  <2> QED
    BY <1>1, <1>2, <1>6, <1>8, <2>1, <2>2, <2>4, <2>5, OtherRank
    DEF Entered, Starting, Leaving
<1>13. CASE Flag(n, t)
  <2>1. /\ pc[p] = "flag" /\ pc'[p] = "await" /\ done'[n][t] = 1
        /\ given'[p] = given[p] /\ dnum' = dnum /\ sum' = sum
    BY <1>5, <1>13 DEF Flag, Goto, TypeOK
  <2>2. Got(p)' = Got(p) /\ Got(p) = Got(Root(n)) /\ ~Up(n, t) /\ Up(n, t)'
    BY <1>4, <1>5, <2>1 DEF Got, Up, Summing, Locals, Roots, Gathering, OtherInv
  <2>3. Own2(n, t)' = Own2(n, t)
    BY <1>1, <2>1 DEF Own2, Own
  <2>4. OtherInv(n, t)'
    BY <1>3, <1>4, <1>5, <2>1, <2>2, <2>3 DEF OtherInv, Roots, Gathering
  <2>5. given[p] # 0
    BY <1>5, <2>1 DEF IInv, TokenInv, Summing, Locals
  <2> QED
    BY <1>1, <1>2, <1>6, <1>8, <2>1, <2>2, <2>4, <2>5, OtherRank
    DEF Entered, Starting, Leaving
<1>14. CASE Await(n, t)
  <2>1. /\ pc[p] = "await" /\ pc'[p] = "take" /\ done[n][0] = dnum[p]
        /\ given'[p] = given[p] /\ sum' = sum /\ done' = done
    BY <1>5, <1>14 DEF Await, Goto, TypeOK, shmVars
  <2>2. ~Up(n, t) /\ ~Up(n, t)' /\ Got(p)' = Got(p) /\ Got(Root(n)) = Got(p) + 1
    <3>1. ~Up(n, t)
      BY <1>5, <1>8, <2>1, IncrementFacts DEF OtherInv
    <3>2. Got(Root(n)) # Got(p)
      BY <2>1, <3>1 DEF Up
    <3>3. Got(p)' = Got(p) /\ ~Up(n, t)'
      BY <2>1 DEF Got, Up, Summing, Locals, Roots, Gathering
    <3> QED  BY <1>5, <2>1, <3>1, <3>2, <3>3 DEF OtherInv
  <2>3. Own2(n, t)' = Own2(n, t)
    BY <1>1, <2>1 DEF Own2, Own
  <2>4. OtherInv(n, t)'
    BY <1>3, <1>4, <1>5, <1>7, <2>1, <2>2, <2>3 DEF OtherInv, Roots, Gathering
  <2>5. given[p] # 0
    BY <1>5, <2>1 DEF IInv, TokenInv, Summing, Locals
  <2> QED
    BY <1>1, <1>2, <1>6, <1>8, <2>1, <2>2, <2>4, <2>5, OtherRank
    DEF Entered, Starting, Leaving
<1>15. CASE Take(n, t)
  <2>1. /\ pc[p] = "take" /\ pc'[p] = "idle" /\ x'[p] = sum[n][0]
        /\ given'[p] = given[p] /\ sum' = sum /\ done' = done
    BY <1>5, <1>15 DEF Take, Goto, TypeOK, shmVars
  <2>2. /\ ~Up(n, t) /\ ~Up(n, t)' /\ Got(p)' = given[p]
        /\ Got(p) = given[p] - 1 /\ Got(Root(n)) = given[p]
    <3>1. ~Up(n, t) /\ ~Up(n, t)' /\ Got(p)' = given[p] /\ Got(p) = given[p] - 1
      BY <2>1 DEF Got, Up, Summing, Locals, Roots, Gathering
    <3>2. Got(Root(n)) = Got(p) + 1
      BY <1>5, <2>1 DEF OtherInv
    <3> QED  BY <1>8, <3>1, <3>2
  <2>3. x'[p] = Total(Rank, given'[p])
    BY <1>5, <1>8, <2>1, <2>2 DEF OtherInv
  <2>4. OtherInv(n, t)'
    BY <1>3, <1>4, <1>5, <1>7, <2>1, <2>2, <2>3 DEF OtherInv, Roots, Gathering
  <2> QED
    BY <1>1, <1>2, <1>6, <1>8, <2>1, <2>2, <2>3, <2>4, OtherRank
    DEF Entered, Starting, Leaving, Summing, Locals, Roots, Gathering
<1> QED  BY <1>10, <1>11, <1>12, <1>13, <1>14, <1>15 DEF Local

\* Ranks 0 are alone on their node when it has one rank.
LEMMA OneRankNode ==
  ASSUME N = 1
  PROVE  Others = {} /\ Tcoord = {0} /\ Tcoord \ Others = {0}
BY DEF Others, Tcoord

\* Rank 0 starts its sum.
LEMMA RootCallKeeps ==
  ASSUME IInv, NEW n \in Node, Call(n, 0)
  PROVE  IInv'
<1> DEFINE p == Root(n)
<1> USE RankFacts
<1>1. /\ pc[p] = "idle" /\ given'[p] = given[p] + 1 /\ x'[p] = Own(p, given[p] + 1)
      /\ pc'[p] = IF N > 1 THEN "gather" ELSE "inject"
      /\ \A q \in Rank : q # p => SameRank(q)
      /\ UNCHANGED <<job, dnum, nleft, cur, linked, count, ranksonnode, done, sum, collVars>>
  BY DEF IInv, TypeOK, Call, Goto, SameRank, shmVars
<1>2. given[p] \in Nat
  BY DEF IInv, TypeOK
<1>3. TypeOK'
  BY TypeLocal DEF IInv, Local
<1>4. Entered(p) /\ Entered(p)' /\ pc'[p] # "free" /\ Got(p)' = Got(p)
  BY <1>1, <1>2 DEF Entered, Starting, Got, Summing, Locals, Roots, Gathering
<1>5. ASSUME NEW u \in Others PROVE OtherInv(n, u)'
  <2>1. N > 1
    BY SumAssumption DEF Others
  <2>2. OtherInv(n, u) /\ SameRank(<<n, u>>) /\ SameRank(<<n, N - 1>>)
    BY <1>1, <2>1 DEF IInv, LocalInv
  <2>3. pc'[p] = "gather" /\ pc[p] \notin Roots
    BY <1>1, <2>1 DEF Roots, Gathering
  <2> QED  BY <1>1, <1>4, <2>2, <2>3, OtherFrame DEF SameRank, Passed
<1>6. Own2(n, 0)' = x'[p]
  BY <1>1 DEF Own2, Own
<1>7. RootInv(n)'
  <2>1. CASE N > 1
    BY <1>1, <1>6, <2>1 DEF RootInv, Gathering, Locals
  <2>2. CASE N = 1
    <3>1. {n} \X Tcoord = {p}
      BY <2>2, OneRankNode
    <3>2. NodeTotal(n, given[p])' = x'[p]
      BY <1>1, <3>1, TotalOfOne DEF NodeTotal, Total, Own
    <3> QED  BY <1>1, <2>2, <3>2 DEF RootInv, Gathering, Locals
  <2> QED  BY <2>1, <2>2
<1>8. CollInv'
  <2>1. UNCHANGED <<inj, crcount, recv, result, pending>>
    BY <1>1 DEF collVars
  <2>2. \A m \in Node : m # n => Root(m) # p /\ SameRank(Root(m))
    BY <1>1
  <2>3. ASSUME NEW m \in Node
        PROVE  /\ Joined(m)' = Joined(m)
               /\ m = n => inj[m] = None /\ m \notin pending
    <3>1. CASE m # n
      BY <2>1, <2>2, <3>1 DEF Joined, SameRank
    <3>2. CASE m = n
      <4>1. inj[n] = None /\ n \notin pending
        BY <1>1 DEF IInv, CollInv
      <4> QED  BY <1>1, <1>2, <2>1, <3>2, <4>1 DEF Joined, Adding, Gathering
    <3> QED  BY <3>1, <3>2
  <2>4. \A m \in Node : \A k : NodeTotal(m, k)' = NodeTotal(m, k) /\ Total(Rank, k)' = Total(Rank, k)
    BY <1>1 DEF NodeTotal, Total
  <2>5. ASSUME NEW m \in Node, m # n
        PROVE  /\ inj'[m] # None => /\ pc'[Root(m)] = "coll" /\ crcount'[m] = 1
                                    /\ inj'[m] = NodeTotal(m, given[Root(m)])'
               /\ m \in pending' => /\ pc'[Root(m)] = "coll" /\ crcount'[m] = 1 /\ inj'[m] = None
                                    /\ result' = Total(Rank, given[Root(m)])'
               /\ pc'[Root(m)] = "coll" /\ crcount'[m] = 0 =>
                    inj'[m] = None /\ m \notin pending' /\ recv'[m] = Total(Rank, given[Root(m)])'
    BY <2>1, <2>2, <2>4, <2>5 DEF IInv, CollInv, SameRank
  <2> QED  BY <1>1, <2>1, <2>3, <2>5 DEF IInv, CollInv
<1>9. LocalInv(n)'
  BY <1>5, <1>7 DEF LocalInv
<1> QED
  BY <1>1, <1>2, <1>3, <1>4, <1>8, <1>9, OneRank
  DEF Leaving, Summing, Locals, Roots, Gathering

\* What the steps of rank 0 in a sum have in common.
LEMMA RootSame ==
  ASSUME IInv, NEW n \in Node, RootStep(n)
  PROVE  /\ Entered(Root(n)) /\ pc[Root(n)] \in Roots \cup {"gather"}
         /\ \A q \in Rank : q # Root(n) => SameRank(q)
         /\ \A m \in Node : m # n => /\ nleft'[m] = nleft[m] /\ cur'[m] = cur[m]
                                     /\ done'[m] = done[m] /\ sum'[m] = sum[m]
         /\ \A u \in Others : sum'[n][u] = sum[n][u]
         /\ UNCHANGED <<job, given, linked, count, ranksonnode>>
         /\ given[Root(n)] \in Nat /\ given[Root(n)] > 0
<1> USE RankFacts
<1>1. pc[Root(n)] \in Roots \cup {"gather"}
  BY DEF RootStep, Gather, Poll, AddIn, Clear, Inject, AwaitColl, Bcast, Release,
         Roots, Gathering
<1>2. /\ \A q \in Rank : q # Root(n) => SameRank(q)
      /\ \A m \in Node : m # n => /\ nleft'[m] = nleft[m] /\ cur'[m] = cur[m]
                                  /\ done'[m] = done[m] /\ sum'[m] = sum[m]
      /\ \A u \in Others : sum'[n][u] = sum[n][u]
      /\ UNCHANGED <<job, given, linked, count, ranksonnode>>
  BY DEF IInv, TypeOK, RootStep, Gather, Poll, AddIn, Clear, Cleared, Inject, AwaitColl,
         Bcast, Release, Goto, SameRank, shmVars
<1>3. Entered(Root(n))
  BY <1>1 DEF Entered, Starting, Roots, Gathering
<1>4. given[Root(n)] \in Nat /\ given[Root(n)] # 0
  BY <1>1 DEF IInv, TypeOK, TokenInv, Summing
<1> QED  BY <1>1, <1>2, <1>3, <1>4

\* Rank 0 looks for the ranks that it still has to add.
LEMMA GatherKeeps ==
  ASSUME IInv, NEW n \in Node, Gather(n) \/ Poll(n)
  PROVE  IInv'
<1> DEFINE p == Root(n)
           k == given[p]
<1> USE RankFacts
<1>1. RootStep(n) /\ TypeOK'
  <2>1. RootStep(n)
    BY DEF RootStep
  <2>2. AddIn(n) => FALSE
    BY DEF AddIn, Gather, Poll
  <2> QED  BY <2>1, <2>2, TypeRoot DEF IInv
<1>2. /\ pc[p] \in {"gather", "poll"} /\ pc'[p] \in {"inject", "poll", "add"}
      /\ UNCHANGED <<x, dnum, done, sum, collVars>>
  BY DEF Gather, Poll, Goto, IInv, TypeOK, shmVars
<1>3. Entered(p)' /\ pc'[p] # "free" /\ Got(p)' = Got(p)
  BY <1>1, <1>2, RootSame DEF Entered, Starting, Got, Summing, Locals, Roots, Gathering
<1>4. RootInv(n) /\ \A u \in Others : OtherInv(n, u)
  BY DEF IInv, LocalInv
<1>5. pc'[p] = "inject" => N = 1
  BY SumAssumption, <1>1, Full, RootSame DEF IInv, TypeOK, Gather, Poll, RanksLeft, Goto
<1>6. ASSUME NEW u \in Others PROVE OtherInv(n, u)' /\ Up(n, u)' = Up(n, u)
  <2>1. pc'[p] \in Roots /\ pc'[p] \notin {"inject", "coll", "bcast", "release"}
    BY <1>2, <1>5, OneRankNode DEF Roots, Gathering
  <2>2. SameRank(<<n, u>>) /\ Passed(<<n, N - 1>>)
    BY <1>1, RootSame, Full DEF IInv
  <2> QED  BY <1>1, <1>2, <1>3, <1>4, <2>1, <2>2, RootSame, OtherFrame
<1>7. Todo(n)' = Todo(n)
  BY <1>2, <1>6 DEF Todo
<1>8. job' = job /\ given' = given
  BY <1>1, RootSame
<1>9. RootInv(n)'
  <2>1. CASE Gather(n)
    <3>1. pc[p] = "gather" /\ x[p] = Own2(n, 0) /\ nleft'[n] = N - 1
          /\ pc'[p] = IF N - 1 = 0 THEN "inject" ELSE "poll"
      BY <1>1, <1>4, <2>1, RootSame, Full
      DEF Gather, RanksLeft, Goto, IInv, TypeOK, RootInv
    <3>2. Todo(n) = Others
      BY <1>4, <3>1 DEF Todo, OtherInv, Roots, Gathering
    <3>3. Cardinality(Others) = N - 1
      BY SumAssumption, FS_Interval DEF Others
    <3>4. Tcoord \ Others = {0}
      BY SumAssumption DEF Tcoord, Others
    <3>5. x[p] = Total({n} \X (Tcoord \ Todo(n)), k)
      <4>1. {n} \X {0} = {p}
        OBVIOUS
      <4> QED  BY <3>1, <3>2, <3>4, <4>1, TotalOfOne DEF Own2
    <3>6. CASE N = 1
      <4>1. pc'[p] = "inject" /\ Tcoord \ Todo(n) = Tcoord
        BY <3>1, <3>2, <3>6, OneRankNode
      <4>2. x'[p] = NodeTotal(n, k)'
        BY <1>2, <1>8, <3>5, <4>1 DEF NodeTotal, Total
      <4> QED  BY <4>1, <4>2 DEF RootInv, Gathering, Locals
    <3>7. CASE N # 1
      <4>1. pc'[p] = "poll" /\ Others # {}
        BY <3>1, <3>7, SumAssumption DEF Others
      <4>2. x'[p] = Total({n} \X (Tcoord \ Todo(n)), k)'
        BY <1>2, <1>7, <1>8, <3>5 DEF Total
      <4> QED  BY <1>7, <3>1, <3>2, <3>3, <4>1, <4>2 DEF RootInv, Gathering, Locals
    <3> QED  BY <3>6, <3>7
  <2>2. CASE Poll(n)
    <3>1. /\ pc[p] = "poll" /\ pc'[p] = "add" /\ nleft' = nleft
          /\ cur'[n] \in Others /\ done[n][cur'[n]] # 0
      BY <2>2 DEF Poll, Goto, IInv, TypeOK
    <3>2. x[p] = Total({n} \X (Tcoord \ Todo(n)), k)
      BY <1>4, <3>1 DEF RootInv
    <3>3. x'[p] = Total({n} \X (Tcoord \ Todo(n)), k)'
      BY <1>2, <1>7, <1>8, <3>2 DEF Total
    <3> QED  BY <1>2, <1>4, <1>7, <3>1, <3>3 DEF RootInv, Gathering, Locals
  <2> QED  BY <2>1, <2>2
<1>10. CollInv'
  <2>1. \A m \in Node : m # n => SameRank(Root(m))
    BY <1>1, RootSame
  <2> QED
    BY <1>1, <1>2, <2>1, RootSame, CollFrame DEF IInv, SameRank, Adding, Gathering
<1>11. LocalInv(n)'
  BY <1>6, <1>9 DEF LocalInv
<1> QED
  BY <1>1, <1>2, <1>3, <1>10, <1>11, RootSame, OneRank DEF Leaving

\* The rank that rank 0 has found, and what it has put.
LEMMA Found ==
  ASSUME IInv, NEW n \in Node, pc[Root(n)] \in {"add", "clear"}
  PROVE  /\ cur[n] \in Others /\ done[n][cur[n]] # 0 /\ Up(n, cur[n]) /\ cur[n] \in Todo(n)
         /\ sum[n][cur[n]] = Own(<<n, cur[n]>>, given[Root(n)])
<1> USE RankFacts DEF IInv
<1>1. Entered(Root(n)) /\ RootInv(n)
  BY DEF Entered, Starting, LocalInv
<1>2. \A q \in Rank : Passed(q)
  BY <1>1, Full
<1>3. cur[n] \in Others /\ done[n][cur[n]] # 0
  BY <1>1 DEF RootInv
<1>4. OtherInv(n, cur[n])
  BY <1>3 DEF LocalInv
<1>5. Up(n, cur[n])
  BY <1>2, <1>3, <1>4 DEF OtherInv
<1>6. pc[<<n, cur[n]>>] = "await" /\ given[<<n, cur[n]>>] = given[Root(n)]
  <2>1. /\ Got(<<n, cur[n]>>) = given[<<n, cur[n]>>] - 1
        /\ Got(Root(n)) = given[Root(n)] - 1
        /\ pc[<<n, cur[n]>>] = "await" /\ Got(<<n, cur[n]>>) = Got(Root(n))
    BY <1>5 DEF Up, Got, Summing, Locals, Roots, Gathering
  <2>2. given[<<n, cur[n]>>] \in 0 .. Rounds /\ given[Root(n)] \in 0 .. Rounds
    BY <1>3 DEF TypeOK
  <2> QED  BY <2>1, <2>2
<1> QED  BY <1>3, <1>4, <1>5, <1>6 DEF Todo, OtherInv, Own2

\* Rank 0 adds the number of a rank.
LEMMA AddInKeeps ==
  ASSUME IInv, NEW n \in Node, AddIn(n)
  PROVE  IInv'
<1> DEFINE p == Root(n)
           k == given[p]
           P == {n} \X (Tcoord \ Todo(n))
           c == <<n, cur[n]>>
<1> USE RankFacts
<1>1. pc[p] = "add" /\ RootStep(n)
  BY DEF AddIn, RootStep
<1>2. x[p] = Total(P, k) /\ sum[n][cur[n]] = Own(c, k) /\ c \notin P /\ k \in Nat
  BY <1>1, Found, RootSame DEF IInv, LocalInv, RootInv
<1>3. Add(x[p], sum[n][cur[n]]) = Total(P \cup {c}, k)
  BY <1>2, AddOwn
<1>4. P \cup {c} = {n} \X ((Tcoord \ Todo(n)) \cup {cur[n]}) /\ P \cup {c} \in SUBSET Rank
  BY <1>1, Found DEF Rank
<1>5. Add(x[p], sum[n][cur[n]]) \in Number
  BY <1>2, <1>3, <1>4, NumberFacts DEF IInv, TypeOK
<1>6. TypeOK'
  BY <1>1, <1>5, TypeRoot DEF IInv
<1>7. /\ pc'[p] = "clear" /\ x'[p] = Add(x[p], sum[n][cur[n]])
      /\ UNCHANGED <<dnum, nleft, cur, done, sum, collVars>>
  BY DEF AddIn, Goto, IInv, TypeOK, shmVars
<1>8. job' = job /\ given' = given
  BY <1>1, RootSame
<1>9. Entered(p)' /\ pc'[p] # "free" /\ Got(p)' = Got(p)
  BY <1>1, <1>7, <1>8 DEF Entered, Starting, Got, Summing, Locals, Roots, Gathering
<1>10. RootInv(n) /\ \A u \in Others : OtherInv(n, u)
  BY DEF IInv, LocalInv
<1>11. ASSUME NEW u \in Others PROVE OtherInv(n, u)' /\ Up(n, u)' = Up(n, u)
  <2>1. SameRank(<<n, u>>) /\ Passed(<<n, N - 1>>)
    BY <1>1, RootSame, Full DEF IInv
  <2>2. pc'[p] \in Roots /\ pc'[p] \notin {"inject", "coll", "bcast", "release"}
    BY <1>7 DEF Roots, Gathering
  <2> QED  BY <1>7, <1>8, <1>9, <1>10, <2>1, <2>2, OtherFrame
<1>12. Todo(n)' = Todo(n)
  BY <1>7, <1>11 DEF Todo
<1>13. RootInv(n)'
  <2>1. x'[p] = Total({n} \X ((Tcoord \ Todo(n)) \cup {cur[n]}), k)
    BY <1>3, <1>4, <1>7
  <2>2. x'[p] = Total({n} \X ((Tcoord \ Todo(n)) \cup {cur[n]}), k)'
    BY <1>7, <1>8, <1>12, <2>1 DEF Total
  <2> QED  BY <1>1, <1>7, <1>10, <1>12, <2>2 DEF RootInv, Gathering, Locals
<1>14. CollInv'
  <2>1. \A m \in Node : m # n => SameRank(Root(m))
    BY <1>1, RootSame
  <2> QED
    BY <1>1, <1>7, <1>8, <2>1, CollFrame DEF IInv, SameRank, Adding, Gathering
<1>15. LocalInv(n)'
  BY <1>11, <1>13 DEF LocalInv
<1> QED
  BY <1>1, <1>6, <1>7, <1>8, <1>9, <1>14, <1>15, RootSame, OneRank DEF Leaving

\* Rank 0 lowers the flag of the rank it has added.
LEMMA ClearKeeps ==
  ASSUME IInv, NEW n \in Node, Clear(n)
  PROVE  IInv'
<1> DEFINE p == Root(n)
           k == given[p]
           c == cur[n]
<1> USE RankFacts
<1>1. pc[p] = "clear" /\ RootStep(n)
  BY DEF Clear, RootStep
<1>2. TypeOK /\ TypeOK' /\ ~AddIn(n)
  <2>1. ~AddIn(n)
    BY <1>1 DEF AddIn
  <2> QED  BY <1>1, <2>1, TypeRoot DEF IInv
<1>3. c \in Others /\ Up(n, c) /\ c \in Todo(n)
  BY <1>1, Found
<1>4. /\ done'[n][c] = 0 /\ \A u \in Tcoord : u # c => done'[n][u] = done[n][u]
      /\ nleft'[n] = nleft[n] - 1
      /\ pc'[p] = IF nleft[n] = 1 THEN "inject" ELSE "poll"
      /\ UNCHANGED <<x, dnum, cur, sum, collVars>>
  BY <1>2, <1>3 DEF Clear, Cleared, Goto, TypeOK
<1>5. job' = job /\ given' = given
  BY <1>1, RootSame
<1>6. Entered(p)' /\ pc'[p] # "free" /\ Got(p)' = Got(p)
  BY <1>1, <1>4, <1>5 DEF Entered, Starting, Got, Summing, Locals, Roots, Gathering
<1>7. RootInv(n) /\ \A u \in Others : OtherInv(n, u)
  BY DEF IInv, LocalInv
<1>8. \A u \in Others : SameRank(<<n, u>>) /\ Got(<<n, u>>)' = Got(<<n, u>>)
  BY <1>1, RootSame DEF SameRank, Got
<1>9. \A u \in Others : Up(n, u)' <=> Up(n, u)
  BY <1>6, <1>8 DEF Up, SameRank
<1>10. Todo(n)' = Todo(n) \ {c}
  BY <1>3, <1>4, <1>9 DEF Todo
<1>11. /\ IsFiniteSet(Todo(n)) /\ nleft[n] = Cardinality(Todo(n))
       /\ Cardinality(Todo(n)') = nleft[n] - 1 /\ IsFiniteSet(Todo(n)')
       /\ nleft[n] \in Nat
  <2>1. IsFiniteSet(Others)
    BY SumAssumption, FS_Interval DEF Others
  <2>2. IsFiniteSet(Todo(n))
    BY <2>1, FS_Subset DEF Todo
  <2>3. nleft[n] = Cardinality(Todo(n))
    BY <1>1, <1>7 DEF RootInv, Gathering
  <2>4. IsFiniteSet(Todo(n) \ {c}) /\ Cardinality(Todo(n) \ {c}) = Cardinality(Todo(n)) - 1
    BY <1>3, <2>2, FS_RemoveElement
  <2>5. Cardinality(Todo(n)) \in Nat
    BY <2>2, FS_CardinalityType
  <2> QED  BY <1>10, <2>2, <2>3, <2>4, <2>5
<1>12. nleft[n] = 1 <=> Todo(n)' = {}
  BY <1>11, FS_EmptySet
<1>13. ASSUME NEW u \in Others PROVE OtherInv(n, u)'
  <2>1. pc'[p] \in Roots
    BY <1>4 DEF Roots, Gathering
  <2>2. pc'[p] \in {"inject", "coll", "bcast", "release"} => Up(n, u)' /\ done'[n][u] = 0
    BY <1>4, <1>12 DEF Todo
  <2>3. Passed(<<n, N - 1>>)
    BY <1>1, RootSame, Full DEF IInv
  <2>4. CASE u # c
    <3>1. pc'[p] \in {"inject", "coll", "bcast", "release"} => Up(n, u) /\ done[n][u] = 0
      BY <1>4, <1>9, <2>2, <2>4
    <3> QED
      BY <1>3, <1>4, <1>5, <1>6, <1>7, <1>8, <2>1, <2>3, <2>4, <3>1, OtherFrame
  <2>5. CASE u = c
    <3>1. OtherInv(n, u) /\ Up(n, u) /\ Up(n, u)' /\ done'[n][u] = 0
      BY <1>3, <1>4, <1>7, <1>9, <2>5
    <3>2. Own2(n, u)' = Own2(n, u) /\ pc[<<n, u>>] = "await" /\ Got(<<n, u>>) = Got(p)
      BY <1>5, <3>1 DEF Own2, Own, Up
    <3>3. /\ pc'[<<n, u>>] = "await" /\ dnum'[<<n, u>>] = dnum[<<n, u>>]
          /\ Got(<<n, u>>)' = Got(p)' /\ sum'[n][u] = sum[n][u] /\ done'[n][0] = done[n][0]
      BY <1>3, <1>4, <1>6, <1>8, <3>2 DEF SameRank
    <3> QED  BY <2>1, <3>1, <3>2, <3>3, <1>6 DEF OtherInv, Roots, Gathering
  <2> QED  BY <2>4, <2>5
<1>14. RootInv(n)'
  <2>1. x[p] = Total({n} \X ((Tcoord \ Todo(n)) \cup {c}), k)
    BY <1>1, <1>7 DEF RootInv
  <2>2. (Tcoord \ Todo(n)) \cup {c} = Tcoord \ Todo(n)'
    BY <1>3, <1>10
  <2>3. x'[p] = Total({n} \X (Tcoord \ Todo(n)), k)'
    <3>1. x'[p] = Total({n} \X (Tcoord \ Todo(n)'), k)
      BY <1>4, <2>1, <2>2
    <3> QED  BY <1>5, <3>1 DEF Total
  <2>4. CASE nleft[n] = 1
    <3>1. Tcoord \ Todo(n)' = Tcoord
      BY <1>12, <2>4
    <3>2. x'[p] = NodeTotal(n, k)'
      BY <2>3, <3>1 DEF NodeTotal, Total
    <3> QED  BY <1>4, <2>4, <3>2 DEF RootInv, Gathering, Locals
  <2>5. CASE nleft[n] # 1
    BY <1>4, <1>11, <1>12, <2>3, <2>5 DEF RootInv, Gathering, Locals
  <2> QED  BY <2>4, <2>5
<1>15. CollInv'
  <2>1. \A m \in Node : m # n => SameRank(Root(m))
    BY <1>1, RootSame
  <2> QED
    BY <1>1, <1>4, <1>5, <2>1, CollFrame DEF IInv, SameRank, Adding, Gathering
<1>16. LocalInv(n)'
  BY <1>13, <1>14 DEF LocalInv
<1> QED
  BY <1>1, <1>2, <1>4, <1>5, <1>6, <1>15, <1>16, RootSame, OneRank DEF Leaving

\* Rank 0 hands the sum of its node to the messaging unit.
LEMMA InjectKeeps ==
  ASSUME IInv, NEW n \in Node, Inject(n)
  PROVE  IInv'
<1> DEFINE p == Root(n)
           k == given[p]
<1> USE RankFacts
<1>1. pc[p] = "inject" /\ RootStep(n)
  BY DEF Inject, RootStep
<1>2. TypeOK /\ TypeOK'
  <2>1. ~AddIn(n)
    BY <1>1 DEF AddIn
  <2> QED  BY <1>1, <2>1, TypeRoot DEF IInv
<1>3. /\ pc'[p] = "coll" /\ crcount'[n] = 1 /\ inj'[n] = x[p]
      /\ \A m \in Node : m # n => crcount'[m] = crcount[m] /\ inj'[m] = inj[m]
      /\ UNCHANGED <<x, dnum, nleft, cur, done, sum, recv, result, pending>>
  BY <1>2 DEF Inject, Goto, TypeOK, shmVars
<1>4. job' = job /\ given' = given /\ given[p] \in Nat
  BY <1>1, RootSame
<1>5. Entered(p)' /\ pc'[p] # "free" /\ Got(p)' = Got(p)
  BY <1>1, <1>3, <1>4 DEF Entered, Starting, Got, Summing, Locals, Roots, Gathering
<1>6. RootInv(n) /\ \A u \in Others : OtherInv(n, u)
  BY DEF IInv, LocalInv
<1>7. ASSUME NEW u \in Others PROVE OtherInv(n, u)'
  <2>1. SameRank(<<n, u>>) /\ Passed(<<n, N - 1>>)
    BY <1>1, RootSame, Full DEF IInv
  <2>2. pc'[p] \in Roots
    BY <1>3 DEF Roots
  <2> QED  BY <1>1, <1>3, <1>4, <1>5, <1>6, <2>1, <2>2, OtherFrame
<1>8. RootInv(n)'
  BY <1>3 DEF RootInv, Gathering, Locals
<1>9. CollInv'
  <2>1. \A m \in Node : m # n => Root(m) # p /\ SameRank(Root(m))
    BY <1>1, RootSame
  <2>2. CollInv /\ n \notin pending /\ inj[n] = None
    BY <1>1 DEF IInv, CollInv
  <2>3. x[p] = NodeTotal(n, k) /\ inj'[n] # None
    <3>1. x[p] = NodeTotal(n, k)
      BY <1>1, <1>6 DEF RootInv
    <3>2. NodeTotal(n, k) # None
      BY <1>2, <1>4, NumberFacts DEF NodeTotal, TypeOK, Rank
    <3> QED  BY <1>3, <3>1, <3>2
  <2>4. ASSUME NEW m \in Node PROVE Joined(m)' = Joined(m)
    <3>1. CASE m = n
      BY <1>1, <1>4, <2>3, <3>1 DEF Joined, Adding
    <3>2. CASE m # n
      BY <1>3, <1>4, <2>1, <3>2 DEF Joined, SameRank
    <3> QED  BY <3>1, <3>2
  <2>5. ASSUME NEW m \in Node
        PROVE  /\ NodeTotal(m, given[Root(m)])' = NodeTotal(m, given[Root(m)])
               /\ Total(Rank, given[Root(m)])' = Total(Rank, given[Root(m)])
    BY <1>4 DEF NodeTotal, Total
  <2>6. \A m \in Node : m # n => pc'[Root(m)] = pc[Root(m)]
    BY <2>1 DEF SameRank
  <2> QED  BY <1>3, <1>4, <2>2, <2>3, <2>4, <2>5, <2>6 DEF CollInv
<1>10. LocalInv(n)'
  BY <1>7, <1>8 DEF LocalInv
<1> QED
  BY <1>1, <1>2, <1>3, <1>4, <1>5, <1>9, <1>10, RootSame, OneRank DEF Leaving

\* Rank 0 has the sum of all nodes.
LEMMA AwaitCollKeeps ==
  ASSUME IInv, NEW n \in Node, AwaitColl(n)
  PROVE  IInv'
<1> DEFINE p == Root(n)
           k == given[p]
<1> USE RankFacts
<1>1. pc[p] = "coll" /\ crcount[n] = 0 /\ RootStep(n)
  BY DEF AwaitColl, RootStep
<1>2. TypeOK /\ TypeOK'
  <2>1. ~AddIn(n)
    BY <1>1 DEF AddIn
  <2> QED  BY <1>1, <2>1, TypeRoot DEF IInv
<1>3. /\ pc'[p] = (IF N > 1 THEN "bcast" ELSE "idle") /\ x'[p] = recv[n]
      /\ UNCHANGED <<dnum, nleft, cur, done, sum, collVars>>
  BY <1>2 DEF AwaitColl, Goto, TypeOK, shmVars
<1>4. job' = job /\ given' = given /\ given[p] \in Nat
  BY <1>1, RootSame
<1>5. Entered(p)' /\ pc'[p] # "free"
  BY <1>3 DEF Entered, Starting
<1>6. RootInv(n) /\ \A u \in Others : OtherInv(n, u)
  BY DEF IInv, LocalInv
<1>7. CollInv /\ recv[n] = Total(Rank, k) /\ inj[n] = None /\ n \notin pending
  BY <1>1 DEF IInv, CollInv
<1>8. x'[p] = Total(Rank, k) /\ x'[p] = Total(Rank, k)'
  BY <1>3, <1>4, <1>7 DEF Total
<1>9. ASSUME NEW u \in Others PROVE OtherInv(n, u)'
  <2>1. SameRank(<<n, u>>) /\ Passed(<<n, N - 1>>)
    BY <1>1, RootSame, Full DEF IInv
  <2>2. pc'[p] = "bcast"
    BY <1>3, SumAssumption DEF Others
  <2>3. pc'[p] \in Roots /\ Got(p)' = Got(p)
    BY <1>1, <1>4, <2>2 DEF Got, Summing, Roots
  <2> QED  BY <1>1, <1>3, <1>4, <1>6, <2>1, <2>2, <2>3, OtherFrame
<1>10. RootInv(n)'
  BY <1>3, <1>8 DEF RootInv, Gathering, Locals
<1>11. CollInv'
  <2>1. \A m \in Node : m # n => Root(m) # p /\ SameRank(Root(m))
    BY <1>1, RootSame
  <2>2. UNCHANGED <<inj, crcount, recv, result, pending>>
    BY <1>3 DEF collVars
  <2>3. ASSUME NEW m \in Node PROVE Joined(m)' = Joined(m)
    <3>1. CASE m = n
      BY <1>1, <1>3, <1>4, <1>7, <2>2, <3>1 DEF Joined, Adding, Gathering
    <3>2. CASE m # n
      BY <1>4, <2>1, <2>2, <3>2 DEF Joined, SameRank
    <3> QED  BY <3>1, <3>2
  <2>4. ASSUME NEW m \in Node
        PROVE  /\ NodeTotal(m, given[Root(m)])' = NodeTotal(m, given[Root(m)])
               /\ Total(Rank, given[Root(m)])' = Total(Rank, given[Root(m)])
    BY <1>4 DEF NodeTotal, Total
  <2>5. (\A m \in Node : m # n => pc'[Root(m)] = pc[Root(m)]) /\ pc'[p] # "coll"
    BY <1>3, <2>1 DEF SameRank
  <2> QED  BY <1>4, <1>7, <2>2, <2>3, <2>4, <2>5 DEF CollInv
<1>12. LocalInv(n)'
  BY <1>9, <1>10 DEF LocalInv
<1>13. x'[p] = Total(Rank, given'[p]) /\ given'[p] # 0
  BY <1>1, <1>4, <1>8, RootSame
<1> QED
  BY <1>1, <1>2, <1>3, <1>4, <1>5, <1>11, <1>12, <1>13, RootSame, OneRank

\* Rank 0 puts the result where the ranks of its node read it.
LEMMA BcastKeeps ==
  ASSUME IInv, NEW n \in Node, Bcast(n)
  PROVE  IInv'
<1> DEFINE p == Root(n)
           k == given[p]
<1> USE RankFacts
<1>1. pc[p] = "bcast" /\ RootStep(n)
  BY DEF Bcast, RootStep
<1>2. TypeOK /\ TypeOK'
  <2>1. ~AddIn(n)
    BY <1>1 DEF AddIn
  <2> QED  BY <1>1, <2>1, TypeRoot DEF IInv
<1>3. /\ pc'[p] = "release" /\ sum'[n][0] = x[p]
      /\ UNCHANGED <<x, dnum, nleft, cur, done, collVars>>
  BY <1>2 DEF Bcast, Goto, TypeOK
<1>4. job' = job /\ given' = given /\ given[p] \in Nat
  BY <1>1, RootSame
<1>5. Entered(p)' /\ pc'[p] # "free" /\ Got(p)' = Got(p)
  BY <1>1, <1>3, <1>4 DEF Entered, Starting, Got, Summing, Roots
<1>6. RootInv(n) /\ \A u \in Others : OtherInv(n, u)
  BY DEF IInv, LocalInv
<1>7. ASSUME NEW u \in Others PROVE OtherInv(n, u)'
  <2>1. SameRank(<<n, u>>) /\ Passed(<<n, N - 1>>) /\ sum'[n][u] = sum[n][u]
    BY <1>1, RootSame, Full DEF IInv
  <2>2. pc'[p] \in Roots
    BY <1>3 DEF Roots
  <2>3. Up(n, u)
    BY <1>1, <1>6 DEF OtherInv
  <2> QED  BY <1>1, <1>3, <1>4, <1>5, <1>6, <2>1, <2>2, <2>3, OtherFrame
<1>8. RootInv(n)'
  <2>1. x[p] = Total(Rank, k)
    BY <1>1, <1>6 DEF RootInv
  <2>2. x'[p] = Total(Rank, k)'
    BY <1>3, <1>4, <2>1 DEF Total
  <2> QED  BY <1>3, <2>2 DEF RootInv, Gathering, Locals
<1>9. CollInv'
  <2>1. \A m \in Node : m # n => SameRank(Root(m))
    BY <1>1, RootSame
  <2> QED
    BY <1>1, <1>3, <1>4, <2>1, CollFrame DEF IInv, SameRank, Adding, Gathering
<1>10. LocalInv(n)'
  BY <1>7, <1>8 DEF LocalInv
<1> QED
  BY <1>1, <1>2, <1>3, <1>4, <1>5, <1>9, <1>10, RootSame, OneRank DEF Leaving

\* Rank 0 lets the ranks of its node go.
LEMMA ReleaseKeeps ==
  ASSUME IInv, NEW n \in Node, Release(n)
  PROVE  IInv'
<1> DEFINE p == Root(n)
           k == given[p]
<1> USE RankFacts
<1>1. pc[p] = "release" /\ RootStep(n)
  BY DEF Release, RootStep
<1>2. TypeOK /\ TypeOK'
  <2>1. ~AddIn(n)
    BY <1>1 DEF AddIn
  <2> QED  BY <1>1, <2>1, TypeRoot DEF IInv
<1>3. /\ pc'[p] = "idle" /\ done'[n][0] = Increment(done[n][0])
      /\ \A u \in Others : done'[n][u] = done[n][u]
      /\ UNCHANGED <<x, dnum, nleft, cur, sum, collVars>>
  BY <1>2 DEF Release, Goto, TypeOK
<1>4. job' = job /\ given' = given /\ given[p] \in Nat
  BY <1>1, RootSame
<1>5. Entered(p)' /\ pc'[p] # "free" /\ Got(p)' = k /\ Got(p) = k - 1
  BY <1>1, <1>3, <1>4 DEF Entered, Starting, Got, Summing, Locals, Roots, Gathering
<1>6. RootInv(n) /\ \A u \in Others : OtherInv(n, u)
  BY DEF IInv, LocalInv
<1>7. x[p] = Total(Rank, k) /\ sum[n][0] = Total(Rank, k)
  BY <1>1, <1>6 DEF RootInv
<1>8. x'[p] = Total(Rank, k)' /\ sum'[n][0] = Total(Rank, k)' /\ x'[p] = Total(Rank, given'[p])
  BY <1>3, <1>4, <1>7 DEF Total
<1>9. ASSUME NEW u \in Others PROVE OtherInv(n, u)'
  <2>1. SameRank(<<n, u>>)
    BY <1>1, RootSame
  <2>2. OtherInv(n, u) /\ Up(n, u) /\ done[n][u] = 0 /\ pc[<<n, u>>] = "await"
        /\ Got(<<n, u>>) = Got(p)
    BY <1>1, <1>6 DEF OtherInv, Up
  <2>3. Got(<<n, u>>)' = Got(<<n, u>>) /\ Own2(n, u)' = Own2(n, u) /\ ~Up(n, u)'
    BY <1>4, <1>5, <2>1, <2>2 DEF SameRank, Got, Own2, Own, Up
  <2>4. dnum'[<<n, u>>] = done'[n][0]
    BY <1>3, <2>2 DEF OtherInv
  <2>5. sum'[n][u] = Own2(n, u)' /\ pc'[<<n, u>>] = "await"
    BY <1>3, <2>1, <2>2, <2>3 DEF OtherInv, SameRank
  <2>6. sum'[n][0] = Total(Rank, Got(p))'
    BY <1>4, <1>5, <1>8 DEF Total
  <2>7. Got(p)' = Got(<<n, u>>)' + 1
    BY <1>4, <1>5, <2>2, <2>3
  <2> QED
    BY <1>3, <1>5, <2>2, <2>3, <2>4, <2>5, <2>6, <2>7 DEF OtherInv, Roots, Gathering
<1>10. RootInv(n)'
  BY <1>3 DEF RootInv, Gathering, Locals
<1>11. CollInv'
  <2>1. \A m \in Node : m # n => SameRank(Root(m))
    BY <1>1, RootSame
  <2> QED
    BY <1>1, <1>3, <1>4, <2>1, CollFrame DEF IInv, SameRank, Adding, Gathering
<1>12. LocalInv(n)'
  BY <1>9, <1>10 DEF LocalInv
<1>13. given'[p] # 0
  BY <1>1, <1>4, RootSame
<1> QED
  BY <1>1, <1>2, <1>3, <1>4, <1>5, <1>8, <1>11, <1>12, <1>13, RootSame, OneRank

\* What a step of the messaging unit leaves alone.
LEMMA UnitFrame ==
  ASSUME IInv, UNCHANGED <<job, rankVars, shmVars>>, TypeOK', CollInv'
  PROVE  IInv'
<1> USE RankFacts DEF IInv
<1>1. UNCHANGED <<pc, given, x, dnum, nleft, cur, linked, count, ranksonnode, done, sum>>
  BY DEF rankVars, shmVars
<1>2. TokenInv' /\ CleanInv'
  BY <1>1 DEF TokenInv, CleanInv, Passed, Entered
<1>3. SumIsExact'
  BY <1>1 DEF SumIsExact, Total
<1>4. ASSUME NEW n \in Node PROVE LocalInv(n)'
  <2>1. SameNode(n)
    BY <1>1 DEF SameNode, SameRank
  <2> QED  BY <2>1, NodeFrame
<1> QED  BY <1>2, <1>3, <1>4

LEMMA CombineKeeps ==
  ASSUME IInv, Combine
  PROVE  IInv'
<1> USE RankFacts
<1>1. /\ \A n \in Node : inj[n] # None
      /\ result' = NodeSum /\ pending' = Node /\ inj' = [n \in Node |-> None]
      /\ UNCHANGED <<job, rankVars, shmVars, crcount, recv, usable>>
  BY DEF Combine
<1>2. UNCHANGED <<pc, given>> /\ TypeOK /\ CollInv
  BY <1>1 DEF rankVars, IInv
<1>3. \A n \in Node : /\ pc[Root(n)] = "coll" /\ crcount[n] = 1
                      /\ inj[n] = NodeTotal(n, given[Root(n)]) /\ given[Root(n)] \in Nat
                      /\ Joined(n) = given[Root(n)] - 1 /\ Joined(n)' = given[Root(n)]
  <2>1. ASSUME NEW n \in Node
        PROVE  /\ pc[Root(n)] = "coll" /\ crcount[n] = 1 /\ given[Root(n)] \in Nat
               /\ inj[n] # None /\ inj'[n] = None
               /\ inj[n] = NodeTotal(n, given[Root(n)])
    BY <1>1, <1>2 DEF CollInv, TypeOK
  <2> QED  BY <1>2, <2>1 DEF Joined, Adding, Gathering
<1>4. PICK k \in Nat : \A n \in Node : given[Root(n)] = k
  <2>1. CASE Node = {}
    BY <2>1
  <2>2. CASE Node # {}
    <3>1. PICK m \in Node : TRUE
      BY <2>2
    <3>2. \A n \in Node : given[Root(n)] = given[Root(m)]
      BY <1>2, <1>3 DEF CollInv
    <3> QED  BY <1>3, <3>2
  <2> QED  BY <2>1, <2>2
<1>5. result' = Total(Rank, k)
  <2>1. \A n \in Node : inj[n] = NodeTotal(n, k)
    BY <1>3, <1>4
  <2> QED  BY <1>1, <2>1, NodeSumIsTotal
<1>6. TypeOK'
  <2>1. result' \in Number
    BY <1>2, <1>5, NumberFacts DEF TypeOK
  <2>2. inj' \in [Node -> Number]
    BY <1>1 DEF Number
  <2> QED  BY <1>1, <1>2, <2>1, <2>2 DEF TypeOK, rankVars, shmVars
<1>7. CollInv'
  <2>1. ASSUME NEW n \in Node
        PROVE  result' = Total(Rank, given[Root(n)])' /\ inj'[n] = None
    BY <1>1, <1>2, <1>4, <1>5 DEF Total
  <2> QED  BY <1>1, <1>2, <1>3, <1>4, <2>1 DEF CollInv
<1> QED  BY <1>1, <1>6, <1>7, UnitFrame

LEMMA DeliverKeeps ==
  ASSUME IInv, NEW n \in Node, Deliver(n)
  PROVE  IInv'
<1> USE RankFacts
<1>1. /\ n \in pending /\ pending' = pending \ {n}
      /\ recv'[n] = result /\ crcount'[n] = 0
      /\ \A m \in Node : m # n => recv'[m] = recv[m] /\ crcount'[m] = crcount[m]
      /\ UNCHANGED <<job, rankVars, shmVars, inj, result>>
  BY DEF Deliver, IInv, TypeOK
<1>2. UNCHANGED <<pc, given>> /\ CollInv
  BY <1>1 DEF rankVars, IInv
<1>3. TypeOK'
  BY DEF Deliver, IInv, TypeOK, rankVars, shmVars
<1>4. CollInv'
  <2>1. \A m \in Node : Joined(m)' = Joined(m)
    BY <1>1, <1>2 DEF Joined
  <2>2. ASSUME NEW m \in Node
        PROVE  /\ NodeTotal(m, given[Root(m)])' = NodeTotal(m, given[Root(m)])
               /\ Total(Rank, given[Root(m)])' = Total(Rank, given[Root(m)])
    BY <1>1, <1>2 DEF NodeTotal, Total
  <2>3. inj[n] = None /\ result = Total(Rank, given[Root(n)])
    BY <1>1, <1>2 DEF CollInv
  <2> QED  BY <1>1, <1>2, <2>1, <2>2, <2>3 DEF CollInv
<1> QED  BY <1>1, <1>3, <1>4, UnitFrame

LEMMA InvStep ==
  ASSUME IInv, [Next]_vars
  PROVE  IInv'
<1>1. CASE UNCHANGED vars
  <2>1. UNCHANGED <<job, rankVars, shmVars, collVars, usable>>
    BY <1>1 DEF vars
  <2>2. TypeOK'
    BY <2>1 DEF IInv, TypeOK, rankVars, shmVars, collVars
  <2>3. CollInv'
    BY <2>1, CollFrame DEF IInv, rankVars
  <2> QED  BY <2>1, <2>2, <2>3, UnitFrame
<1>2. CASE NewJob
  BY <1>2, NewJobKeeps
<1>3. CASE Combine
  BY <1>3, CombineKeeps
<1>4. ASSUME NEW n \in Node, Deliver(n) PROVE IInv'
  BY <1>4, DeliverKeeps
<1>5. ASSUME NEW n \in Node, RootStep(n) PROVE IInv'
  BY <1>5, GatherKeeps, AddInKeeps, ClearKeeps, InjectKeeps, AwaitCollKeeps, BcastKeeps,
     ReleaseKeeps DEF RootStep
<1>6. ASSUME NEW n \in Node, NEW t \in Tcoord, Life(n, t) PROVE IInv'
  BY <1>6, StartKeeps, OutsideKeeps DEF Life
<1>7. ASSUME NEW n \in Node, NEW t \in Tcoord, Local(n, t) PROVE IInv'
  <2>1. CASE t \in Others
    BY <1>7, <2>1, LocalKeeps
  <2>2. CASE t \notin Others
    <3>1. t = 0
      BY <2>2, RankFacts
    <3>2. pc[<<n, 0>>] \notin Locals
      BY RankFacts DEF IInv, LocalInv, RootInv
    <3>3. Call(n, 0)
      BY <1>7, <3>1, <3>2
      DEF Local, ReadDone, Put, Flag, Await, Take, Locals
    <3> QED  BY <3>3, RootCallKeeps
  <2> QED  BY <2>1, <2>2
<1> QED  BY <1>1, <1>2, <1>3, <1>4, <1>5, <1>6, <1>7 DEF Next

LEMMA InvHolds == Spec => []IInv
<1>1. Init => IInv
  BY InvInit
<1>2. IInv /\ [Next]_vars => IInv'
  BY InvStep
<1> QED  BY <1>1, <1>2, PTL DEF Spec

-----------------------------------------------------------------------------
(* The theorems.                                                           *)

\* A rank that is back from its k-th sum (qspi.c:543-609) has the numbers that
\* all ranks of this job passed to their k-th sum, each once: whatever order
\* the ranks come in, also when done[0] wraps, and after a job that was cut off.
THEOREM SumExact == Spec => []SumIsExact
<1>1. IInv => SumIsExact
  BY DEF IInv
<1> QED  BY <1>1, InvHolds, PTL

\* The state of the sum stays well formed on every node, for every number of threads.
THEOREM SumTypeCorrect == Spec => []TypeOK
<1>1. IInv => TypeOK
  BY DEF IInv
<1> QED  BY <1>1, InvHolds, PTL

\* The allocations of qspi_init and the frees of qspi_finalize (qspi.c:143-187,
\* 201-223) are done by one rank of a node at a time, whatever the object held.
THEOREM TokenIsExclusive == Spec => []OneAtATime
<1>1. IInv => OneAtATime
  <2> SUFFICES ASSUME IInv, NEW n \in Node, NEW t \in Tcoord, NEW u \in Tcoord, t # u,
                      pc[<<n, t>>] \in {"alloc", "free"}, pc[<<n, u>>] \in {"alloc", "free"}
               PROVE  FALSE
    BY DEF IInv, OneAtATime
  <2> USE RankFacts DEF IInv
  <2>1. TokenInv
    OBVIOUS
  <2>2. CASE pc[<<n, t>>] = "alloc" /\ pc[<<n, u>>] = "alloc"
    BY <2>1, <2>2 DEF TokenInv
  <2>3. CASE pc[<<n, t>>] = "free" /\ pc[<<n, u>>] = "free"
    BY <2>1, <2>3 DEF TokenInv
  <2>4. CASE \E v, w \in {t, u} : pc[<<n, v>>] = "alloc" /\ pc[<<n, w>>] = "free"
    <3>1. PICK v, w \in {t, u} : pc[<<n, v>>] = "alloc" /\ pc[<<n, w>>] = "free"
      BY <2>4
    <3>2. Entered(<<n, w>>) /\ ~Passed(<<n, v>>)
      BY <3>1 DEF Entered, Passed, Starting
    <3> QED  BY <2>1, <3>2 DEF TokenInv
  <2> QED  BY <2>2, <2>3, <2>4
<1> QED  BY <1>1, InvHolds, PTL

-----------------------------------------------------------------------------
(* The refinement.                                                         *)

\* Nobody is behind the sums that a node has had combined.
LEMMA AllGave ==
  ASSUME IInv, NEW n \in Node, NEW q \in Rank
  PROVE  given[q] >= Joined(n)
<1> USE RankFacts DEF IInv
<1>1. PICK m \in Node, u \in Tcoord : q = <<m, u>>
  OBVIOUS
<1>2. Joined(n) = Joined(m) /\ Joined(m) \in {given[Root(m)], given[Root(m)] - 1}
  BY DEF CollInv, Joined
<1>3. given[q] \in Nat /\ given[Root(m)] \in Nat
  BY DEF TypeOK
<1>4. CASE u = 0
  BY <1>1, <1>2, <1>3, <1>4
<1>5. CASE u # 0
  <2>1. OtherInv(m, u) /\ u \in Others
    BY <1>5 DEF LocalInv
  <2>2. given[q] >= Got(Root(m))
    <3>1. CASE pc[q] \in {"await", "take"}
      <4>1. Got(q) = given[q] - 1
        BY <3>1 DEF Got, Summing, Locals
      <4>2. Got(Root(m)) \in {Got(q), Got(q) + 1}
        BY <1>1, <2>1, <3>1 DEF OtherInv
      <4> QED  BY <1>3, <4>1, <4>2
    <3>2. CASE pc[q] \notin {"await", "take"}
      <4>1. Got(q) = Got(Root(m)) /\ Got(q) \in {given[q], given[q] - 1}
        BY <1>1, <2>1, <3>2 DEF OtherInv, Got
      <4> QED  BY <1>3, <4>1
    <3> QED  BY <3>1, <3>2
  <2>3. CASE Joined(m) <= Got(Root(m))
    <3>1. Got(Root(m)) \in Int /\ Joined(m) \in Int
      BY <1>2, <1>3 DEF Got
    <3> QED  BY <1>2, <1>3, <2>2, <2>3, <3>1
  <2>4. CASE ~(Joined(m) <= Got(Root(m)))
    <3>1. /\ pc[Root(m)] \in Summing /\ Joined(m) = given[Root(m)]
          /\ Got(Root(m)) = given[Root(m)] - 1
      BY <1>2, <1>3, <2>4 DEF Got
    <3>2. pc[Root(m)] \in {"coll", "bcast", "release"}
      <4>1. pc[Root(m)] \notin Adding
        BY <1>3, <3>1 DEF Joined
      <4>2. pc[Root(m)] \notin Locals
        BY DEF LocalInv, RootInv
      <4> QED  BY <3>1, <4>1, <4>2 DEF Summing, Roots, Adding
    <3>3. pc[q] = "await" /\ Got(q) = Got(Root(m))
      BY <1>1, <2>1, <3>2 DEF OtherInv, Up
    <3>4. Got(q) = given[q] - 1
      BY <3>3 DEF Got, Summing, Locals
    <3> QED  BY <1>2, <1>3, <3>1, <3>3, <3>4
  <2> QED  BY <2>3, <2>4
<1> QED  BY <1>4, <1>5

GotMap == [p \in Rank |-> Got(p)]
ResMap == [p \in Rank |-> IF pc[p] \in Summing THEN None ELSE x[p]]

LEMMA ReduceInit ==
  ASSUME Init
  PROVE  Reduce!Init
<1>1. \A p \in Rank : pc[p] = "start" /\ pc[p] \notin Summing /\ x[p] = None /\ given[p] = 0
  BY DEF Init, Summing, Locals, Roots, Gathering
<1>2. GotMap = [p \in Rank |-> 0] /\ ResMap = [p \in Rank |-> None]
  BY <1>1 DEF GotMap, ResMap, Got
<1> QED  BY <1>2 DEF Init, Reduce!Init, GotMap, ResMap, Got

\* A step that no rank's call or return is in is a stutter.
LEMMA Stutter ==
  ASSUME UNCHANGED <<job, given>>,
         \A p \in Rank : /\ pc'[p] \in Summing <=> pc[p] \in Summing
                         /\ pc[p] \notin Summing => x'[p] = x[p]
  PROVE  UNCHANGED Reduce!vars
<1>1. GotMap' = GotMap
  BY DEF GotMap, Got
<1>2. ResMap' = ResMap
  BY DEF ResMap
<1> QED  BY <1>1, <1>2 DEF Reduce!vars, GotMap, ResMap, Got

\* A rank that goes from a sum to idle with the total has got it.
LEMMA Gets ==
  ASSUME IInv, NEW p \in Rank, pc[p] \in Summing, pc'[p] \notin Summing,
         x'[p] = Total(Rank, given[p]), UNCHANGED <<job, given>>,
         \A q \in Rank : given[q] >= given[p],
         \A q \in Rank : q # p => pc'[q] = pc[q] /\ x'[q] = x[q]
  PROVE  Reduce!Get(p)
<1>1. given[p] \in Nat /\ Got(p) = given[p] - 1 /\ Got(p)' = given[p]
  BY DEF IInv, TypeOK, Got
<1>2. GotMap' = [GotMap EXCEPT ![p] = given[p]] /\ GotMap[p] # given[p]
  <2>1. \A q \in Rank : q # p => Got(q)' = Got(q)
    BY DEF Got
  <2>2. Got(p) # given[p]
    BY <1>1
  <2> QED  BY <1>1, <2>1, <2>2 DEF GotMap
<1>3. ResMap' = [ResMap EXCEPT ![p] = Reduce!Total(job, Rank, given[p])]
  BY DEF ResMap, Total, Reduce!Total
<1> QED  BY <1>2, <1>3 DEF Reduce!Get, GotMap, ResMap, Got

LEMMA ReduceStep ==
  ASSUME IInv, [Next]_vars
  PROVE  Reduce!Next \/ UNCHANGED Reduce!vars
<1> USE RankFacts
<1>0. TypeOK
  BY DEF IInv
<1>1. CASE UNCHANGED vars
  BY <1>1, Stutter DEF vars, rankVars
<1>2. CASE NewJob
  <2>1. \A p \in Rank : pc'[p] \notin Summing /\ x'[p] = None /\ given'[p] = 0
    BY <1>2 DEF NewJob, Summing, Locals, Roots, Gathering
  <2>2. GotMap' = [p \in Rank |-> 0] /\ ResMap' = [p \in Rank |-> None]
    BY <2>1 DEF GotMap, ResMap, Got
  <2>3. Reduce!Restart
    BY <1>2, <2>2 DEF NewJob, Reduce!Restart, GotMap, ResMap, Got
  <2> QED  BY <2>3 DEF Reduce!Next
<1>3. CASE Combine
  BY <1>3, Stutter DEF Combine, rankVars
<1>4. ASSUME NEW n \in Node, Deliver(n) PROVE UNCHANGED Reduce!vars
  BY <1>4, Stutter DEF Deliver, rankVars
<1>5. ASSUME NEW n \in Node, RootStep(n)
      PROVE  Reduce!Next \/ UNCHANGED Reduce!vars
  <2>1. /\ \A q \in Rank : q # Root(n) => pc'[q] = pc[q] /\ x'[q] = x[q]
        /\ UNCHANGED <<job, given>> /\ pc[Root(n)] \in Summing
    BY <1>5, RootSame DEF SameRank, Summing
  <2>2. CASE pc'[Root(n)] \in Summing
    BY <2>1, <2>2, Stutter
  <2>3. CASE pc'[Root(n)] \notin Summing
    <3>1. AwaitColl(n) \/ Release(n)
      BY <1>0, <1>5, <2>3
      DEF RootStep, Gather, Poll, AddIn, Clear, Inject, Bcast, Goto, TypeOK,
          Summing, Roots, Gathering
    <3>2. x'[Root(n)] = Total(Rank, given[Root(n)]) /\ inj[n] = None
      <4>1. CASE AwaitColl(n)
        BY <1>0, <4>1 DEF AwaitColl, IInv, CollInv, TypeOK
      <4>2. CASE Release(n)
        BY <4>2 DEF Release, IInv, LocalInv, RootInv, CollInv
      <4> QED  BY <3>1, <4>1, <4>2
    <3>3. Joined(n) = given[Root(n)]
      BY <3>1, <3>2 DEF AwaitColl, Release, Joined, Adding, Gathering
    <3>4. \A q \in Rank : given[q] >= given[Root(n)]
      BY <3>3, AllGave
    <3>5. Reduce!Get(Root(n))
      BY <2>1, <2>3, <3>2, <3>4, Gets
    <3> QED  BY <3>5 DEF Reduce!Next
  <2> QED  BY <2>2, <2>3
<1>6. ASSUME NEW n \in Node, NEW t \in Tcoord, Life(n, t) PROVE UNCHANGED Reduce!vars
  <2>1. /\ \A q \in Rank : q # <<n, t>> => pc'[q] = pc[q]
        /\ UNCHANGED <<job, given, x>>
        /\ pc[<<n, t>>] \notin Summing /\ pc'[<<n, t>>] \notin Summing
    BY <1>0, <1>6
    DEF Life, Open, TakeToken, PassToken, Enter, Leave, TakeExit, PassExit, Unlink, Goto,
        TypeOK, Summing, Locals, Roots, Gathering
  <2> QED  BY <2>1, Stutter
<1>7. ASSUME NEW n \in Node, NEW t \in Tcoord, Local(n, t)
      PROVE  Reduce!Next \/ UNCHANGED Reduce!vars
  <2> DEFINE p == <<n, t>>
  <2>1. /\ \A q \in Rank : q # p => pc'[q] = pc[q] /\ x'[q] = x[q] /\ given'[q] = given[q]
        /\ job' = job
    BY <1>0, <1>7 DEF Local, Call, ReadDone, Put, Flag, Await, Take, Goto, TypeOK
  <2>2. CASE Call(n, t)
    <3>1. /\ pc[p] = "idle" /\ pc[p] \notin Summing /\ pc'[p] \in Summing
          /\ given' = [given EXCEPT ![p] = @ + 1] /\ given[p] \in Nat
      BY <1>0, <2>2 DEF Call, Goto, TypeOK, Summing, Locals, Roots, Gathering
    <3>2. GotMap' = GotMap /\ GotMap[p] = given[p]
      <4>1. \A q \in Rank : q # p => Got(q)' = Got(q)
        BY <2>1 DEF Got
      <4>2. Got(p) = given[p] /\ Got(p)' = given[p]
        BY <1>0, <3>1 DEF Got, TypeOK
      <4> QED  BY <4>1, <4>2 DEF GotMap
    <3>3. ResMap' = [ResMap EXCEPT ![p] = None]
      BY <2>1, <3>1 DEF ResMap
    <3>4. Reduce!Give(p)
      BY <2>1, <3>1, <3>2, <3>3 DEF Reduce!Give, GotMap, ResMap, Got
    <3> QED  BY <3>4 DEF Reduce!Next
  <2>3. CASE ReadDone(n, t) \/ Put(n, t) \/ Flag(n, t) \/ Await(n, t)
    <3>1. pc[p] \in Summing /\ pc'[p] \in Summing /\ UNCHANGED <<given, x>>
      BY <1>0, <2>3
      DEF ReadDone, Put, Flag, Await, Goto, TypeOK, Summing, Locals
    <3> QED  BY <2>1, <3>1, Stutter
  <2>4. CASE Take(n, t)
    <3>1. pc[p] = "take" /\ pc'[p] = "idle" /\ x'[p] = sum[n][0] /\ given' = given
      BY <1>0, <2>4 DEF Take, Goto, TypeOK
    <3>2. t \in Others
      <4>1. pc[Root(n)] \notin Locals
        BY DEF IInv, LocalInv, RootInv
      <4> QED  BY <3>1, <4>1 DEF Locals
    <3>3. OtherInv(n, t)
      BY <3>2 DEF IInv, LocalInv
    <3>4. Got(Root(n)) = given[p] /\ Got(p) = given[p] - 1 /\ given[p] \in Nat
      <4>1. Got(p) = given[p] - 1 /\ given[p] \in Nat
        BY <1>0, <3>1 DEF Got, TypeOK, Summing, Locals
      <4>2. Got(Root(n)) = Got(p) + 1
        BY <3>1, <3>3 DEF OtherInv
      <4> QED  BY <4>1, <4>2
    <3>5. x'[p] = Total(Rank, given[p])
      BY <3>1, <3>3, <3>4 DEF OtherInv
    <3>6. Joined(n) \in Int /\ Joined(n) >= given[p]
      <4>1. given[Root(n)] \in Nat
        BY <1>0 DEF TypeOK
      <4>2. CASE pc[Root(n)] \in Summing
        <5>1. given[Root(n)] = given[p] + 1
          BY <3>4, <4>1, <4>2 DEF Got
        <5> QED  BY <3>4, <4>1, <5>1 DEF Joined
      <4>3. CASE pc[Root(n)] \notin Summing
        <5>1. given[Root(n)] = given[p]
          BY <3>4, <4>3 DEF Got
        <5>2. pc[Root(n)] \notin Adding /\ inj[n] = None
          BY <4>3 DEF IInv, CollInv, Adding, Summing, Roots, Gathering
        <5> QED  BY <4>1, <5>1, <5>2 DEF Joined
      <4> QED  BY <4>2, <4>3
    <3>7. ASSUME NEW q \in Rank PROVE given[q] >= given[p]
      <4>1. given[q] >= Joined(n) /\ given[q] \in Nat
        BY <1>0, AllGave DEF TypeOK
      <4> QED  BY <3>4, <3>6, <4>1
    <3>8. pc[p] \in Summing /\ pc'[p] \notin Summing
      BY <3>1 DEF Summing, Locals, Roots, Gathering
    <3>9. Reduce!Get(p)
      BY <2>1, <3>1, <3>5, <3>7, <3>8, Gets
    <3> QED  BY <3>9 DEF Reduce!Next
  <2> QED  BY <1>7, <2>2, <2>3, <2>4 DEF Local
<1> QED  BY <1>1, <1>2, <1>3, <1>4, <1>5, <1>6, <1>7 DEF Next

\* The shared-memory sum with the messaging unit (qspi.c:543-609) implements
\* the sum that AllReduce promises: every step of it is a call, a return with
\* the total, a restart, or nothing that a caller can see.
THEOREM ImplementsAllReduce == Spec => ReduceSpec
<1>1. Init => Reduce!Init
  BY ReduceInit
<1>2. IInv /\ [Next]_vars => [Reduce!Next]_(Reduce!vars)
  BY ReduceStep
<1> QED  BY <1>1, <1>2, InvHolds, PTL DEF Spec, ReduceSpec, Reduce!Spec
=============================================================================
